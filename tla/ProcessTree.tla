----------------------------- MODULE ProcessTree -----------------------------
(***************************************************************************)
(* kill_process_tree (shared/process_utils.py): a snapshot of a process    *)
(* and its descendants, terminate, wait, kill, and taskkill /T, while the  *)
(* processes of the tree go on starting others.  Processes outside of the  *)
(* tree run beside it.  A process that may not be ended ends the call.     *)
(***************************************************************************)
EXTENDS Naturals, FiniteSets

CONSTANTS
  Procs,       \* process ids, each used once
  Root,        \* the process to kill
  Stranger,    \* a process that is not below it
  Stubborn,    \* processes that survive terminate()
  Nobody       \* the parent of what the manager did not start

TreeAssumption ==
  /\ IsFiniteSet(Procs) /\ {Root, Stranger} \subseteq Procs /\ Root # Stranger
  /\ Nobody \notin Procs /\ Stubborn \subseteq Procs

VARIABLES
  alive,      \* processes that run
  born,       \* processes that were ever started
  parent,     \* the parent a process was started by
  pc,         \* where kill_process_tree is
  all_procs,  \* its snapshot
  left,       \* processes the current loop has still to visit
  killed      \* processes the call has ended so far

vars == <<alive, born, parent, pc, all_procs, left, killed>>

\* what is below a, if links come from `among` only: in every set that holds the
\* children of a and those of its own members
Kids(a, among) == {p \in among : parent[p] = a}
Below(a, among) ==
  {p \in among : \A S \in SUBSET among :
     (Kids(a, among) \subseteq S /\ \A q \in S : Kids(q, among) \subseteq S) => p \in S}

\* living processes whose parents up to a are alive too
Children(a) == Below(a, alive)

\* ever started below a
Descendants(a) == Below(a, born)

Init ==
  /\ alive = {Root, Stranger} /\ born = alive
  /\ parent = [p \in Procs |-> Nobody]
  /\ pc = "start" /\ all_procs = {} /\ left = {} /\ killed = {}

-----------------------------------------------------------------------------
(* The tree *)

Fork(p) ==
  /\ p \in alive
  /\ \E c \in Procs \ born :
       /\ alive' = alive \cup {c} /\ born' = born \cup {c}
       /\ parent' = [parent EXCEPT ![c] = p]
  /\ UNCHANGED <<pc, all_procs, left, killed>>

Exit(p) ==
  /\ p \in alive /\ alive' = alive \ {p}
  /\ UNCHANGED <<born, parent, pc, all_procs, left, killed>>

-----------------------------------------------------------------------------
(* kill_process_tree *)

End(ps) == alive' = alive \ ps /\ killed' = killed \cup (ps \cap alive)

Find ==
  /\ pc = "start"
  /\ pc' = IF Root \in alive THEN "snapshot" ELSE "done"
  /\ UNCHANGED <<alive, born, parent, all_procs, left, killed>>

\* a plausible bug: every process somebody has started is taken
SnapshotOfAll ==
  /\ pc = "snapshot"
  /\ all_procs' = {Root} \cup {p \in alive : parent[p] # Nobody}
  /\ left' = all_procs' /\ pc' = "terminate"
  /\ UNCHANGED <<alive, born, parent, killed>>

\* the root may have gone since, and then has no descendants
Snapshot ==
  /\ pc = "snapshot"
  /\ all_procs' = {Root} \cup (IF Root \in alive THEN Children(Root) ELSE {})
  /\ left' = all_procs' /\ pc' = "terminate"
  /\ UNCHANGED <<alive, born, parent, killed>>

\* the root first, then the descendants
Terminate ==
  /\ pc = "terminate"
  /\ \E p \in left :
       /\ Root \in left => p = Root
       /\ left' = left \ {p} /\ End({p} \ Stubborn)
  /\ UNCHANGED <<born, parent, pc, all_procs>>

\* a plausible bug: what survives terminate() is only waited for
WaitOnly ==
  /\ pc = "terminate" /\ left = {} /\ pc' = "kill"
  /\ UNCHANGED <<alive, born, parent, all_procs, left, killed>>

\* a plausible bug: the children are looked up again
WaitAgain ==
  /\ pc = "terminate" /\ left = {}
  /\ left' = {p \in alive : parent[p] \in all_procs} /\ pc' = "kill"
  /\ UNCHANGED <<alive, born, parent, all_procs, killed>>

\* wait_procs, for up to three seconds
Wait ==
  /\ pc = "terminate" /\ left = {}
  /\ left' = all_procs \cap alive /\ pc' = "kill"
  /\ UNCHANGED <<alive, born, parent, all_procs, killed>>

KillLeft ==
  /\ pc = "kill"
  /\ \E p \in left : left' = left \ {p} /\ End({p})
  /\ UNCHANGED <<born, parent, pc, all_procs>>

\* taskkill /F /T finds the tree by its root, which is dead by now: a no-op
TaskKill ==
  /\ pc = "kill" /\ left = {} /\ pc' = "done"
  /\ End(IF Root \in alive THEN {Root} \cup Children(Root) ELSE {})
  /\ UNCHANGED <<born, parent, all_procs, left>>

\* only NoSuchProcess is suppressed: psutil.AccessDenied leaves the call
Denied ==
  /\ pc \in {"terminate", "kill"} /\ left \cap alive # {}
  /\ pc = "terminate" /\ Root \in left => Root \in alive
  /\ pc' = "raised"
  /\ UNCHANGED <<alive, born, parent, all_procs, left, killed>>

Next ==
  \/ \E p \in Procs : Fork(p) \/ Exit(p)
  \/ Find \/ Snapshot \/ Terminate \/ Wait \/ KillLeft \/ TaskKill \/ Denied

Spec == Init /\ [][Next]_vars

-----------------------------------------------------------------------------
TypeOK ==
  /\ alive \subseteq born /\ born \subseteq Procs
  /\ parent \in [Procs -> Procs \cup {Nobody}]
  /\ pc \in {"start", "snapshot", "terminate", "kill", "done", "raised"}
  /\ all_procs \subseteq born /\ left \subseteq all_procs
  /\ killed \subseteq born \ alive

\* When the call returns, and does not raise, the root is gone and so is each
\* process it found below the root, the ones that survive terminate() included.
SnapshotIsDead == pc = "done" => Root \notin alive /\ all_procs \cap alive = {}

\* The call ends the root and processes started below it, and no other.
OnlyTheTree == \A p \in killed : p = Root \/ p \in Descendants(Root)
=============================================================================
