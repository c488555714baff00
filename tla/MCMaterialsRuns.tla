--------------------------- MODULE MCMaterialsRuns ---------------------------
(* Values of the constants of MaterialsRuns for TLC. *)
EXTENDS MaterialsRuns

CONSTANTS h1, h2

MCRegistry == <<"materials", "binder">>
MCHandlers == {h1, h2}
=============================================================================
