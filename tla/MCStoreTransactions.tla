------------------------ MODULE MCStoreTransactions ------------------------
(* Two webhooks, one request thread, the worker and the daemon. *)
EXTENDS StoreTransactions

CONSTANTS t1, w1, w2

OneRequest == {t1}
TwoHooks   == {w1, w2}
=============================================================================
