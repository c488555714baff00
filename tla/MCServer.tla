------------------------------- MODULE MCServer -------------------------------
(***************************************************************************)
(* The parts of the API server, checked in one run: `at` says which of     *)
(* them moves in a behaviour; the others stay where they started, so each  *)
(* is checked by itself and no product of states is explored.              *)
(***************************************************************************)
EXTENDS ServerParts, TLC

VARIABLE at

limiterVars == <<now, stamps, counter, allowed, granted, refused, advice>>
cacheVars   == <<time, wrote, known, cache, lock, req, faults, answer>>
allVars     == <<at, limiterVars, cacheVars, vars>>

AllInit ==
  /\ at \in {"limiter", "responses", "connections"}
  /\ Limiter!Init /\ Responses!Init /\ Init

AllNext ==
  /\ UNCHANGED at
  /\ \/ /\ at = "limiter" /\ Limiter!Next
        /\ UNCHANGED <<cacheVars, vars>>
     \/ /\ at = "responses" /\ Responses!Next
        /\ UNCHANGED <<limiterVars, vars>>
     \/ /\ at = "connections" /\ Next
        /\ UNCHANGED <<limiterVars, cacheVars>>

AllSpec == AllInit /\ [][AllNext]_allVars

Symmetry == Permutations(IPs) \cup Permutations(Threads) \cup Permutations(Conns)
=============================================================================
