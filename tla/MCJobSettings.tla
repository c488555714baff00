----------------------------- MODULE MCJobSettings -----------------------------
(* Two keywords and one dialog. *)
EXTENDS JobSettings

CONSTANTS k1, k2, d1

TwoKeywords == {k1, k2}
OneDialog   == {d1}
=============================================================================
