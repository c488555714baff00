--------------------------- MODULE DeliveryPromise ---------------------------
(***************************************************************************)
(* What the webhook queue promises to whoever emits events and to whoever  *)
(* reads the delivery history, without workers, leases or attempts:        *)
(* a delivery is open until it is settled, "delivered" is only ever said   *)
(* of one the receiver accepted, a settled delivery is reopened only after  *)
(* a failure, nothing is sent for a settled delivery, and what was deleted  *)
(* with its webhook never comes back.                                      *)
(***************************************************************************)
CONSTANT Deliveries

VARIABLES
  phase,      \* "none", "open", "delivered", "failed" or "gone"
  accepted    \* the receiver has accepted the delivery

Init ==
  /\ phase = [d \in Deliveries |-> "none"]
  /\ accepted = [d \in Deliveries |-> FALSE]

Submit(d) ==
  /\ phase[d] = "none" /\ phase' = [phase EXCEPT ![d] = "open"]
  /\ UNCHANGED accepted

(* A delivery deleted while it is being sent may still reach the receiver. *)
Attempt(d) ==
  /\ phase[d] \in {"open", "gone"}
  /\ accepted' = [accepted EXCEPT ![d] = TRUE]
  /\ UNCHANGED phase

Settle(d) ==
  /\ phase[d] = "open"
  /\ \/ accepted[d] /\ phase' = [phase EXCEPT ![d] = "delivered"]
     \/ phase' = [phase EXCEPT ![d] = "failed"]
  /\ UNCHANGED accepted

Move(S, p) == phase' = [d \in Deliveries |-> IF d \in S THEN p ELSE phase[d]]

Reopen(S) ==
  /\ \A d \in S : phase[d] = "failed"
  /\ Move(S, "open") /\ UNCHANGED accepted

Forget(S) ==
  /\ \A d \in S : phase[d] # "none"
  /\ Move(S, "gone") /\ UNCHANGED accepted

Next ==
  \/ \E d \in Deliveries : Submit(d) \/ Attempt(d) \/ Settle(d)
  \/ \E S \in SUBSET Deliveries : Reopen(S) \/ Forget(S)

Spec == Init /\ [][Next]_<<phase, accepted>>
=============================================================================
