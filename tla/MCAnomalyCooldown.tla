--------------------------- MODULE MCAnomalyCooldown ---------------------------
(* The daemon and one finding. *)
EXTENDS AnomalyCooldown

CONSTANTS daemon, k1

JustTheDaemon == {daemon}
OneKey        == {k1}
=============================================================================
