---------------------------- MODULE MCWebhookQueue ----------------------------
(* Values of the constants of WebhookQueue for TLC. *)
EXTENDS WebhookQueue

CONSTANT h1

MCOneHook  == {h1}
MCDelay    == {1}
MCTerminal == {"failure", "dead"}
MCInFlight == {"in_flight"}
=============================================================================
