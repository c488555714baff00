------------------------------ MODULE MCManager ------------------------------
(***************************************************************************)
(* The parts of the manager's side, checked in one run: `at` says which of *)
(* them moves in a behaviour, and the others stay where they started.  The *)
(* watchers come twice, on an archive file with a long clock, and on a     *)
(* live file that is not there at first; the jobs come with two keywords   *)
(* and one dialog, and with one keyword, two dialogs and no failed read.   *)
(***************************************************************************)
EXTENDS ManagerParts

VARIABLE at

panelVars == <<app, main, process, shown, born, alive, registered, port, monitor, resets,
               denied>>
treeVars  == <<running, started, parent, calls, all_procs, left, killed>>
watchVars == <<gen, last, indexed, rec, watched, job, by_hand, now, analyzed, ran,
               early, forgotten, changes, lost>>
jobVars   == <<jobs, collectors, routes, torn, view, modal, grab, wanted, spoilt, older,
               overwrote, failed>>
allVars   == <<at, vars, panelVars, treeVars, watchVars, jobVars>>

Live == INSTANCE IndexHealing WITH
  IsLive <- TRUE, There <- FALSE, MaxChanges <- 2, MaxFaults <- 1, MaxTime <- 2,
  faults <- lost

ASSUME Live!HealingAssumption

OneDialog  == INSTANCE JobSettings WITH
  Dialogs <- {CHOOSE d \in Dialogs : TRUE}, faults <- failed
OneKeyword == INSTANCE JobSettings WITH
  Keywords <- {CHOOSE k \in Keywords : TRUE}, MaxReadFaults <- 0, faults <- failed

AllInit ==
  /\ at \in {"backups", "panels", "tree", "live", "archive", "dialog", "windows"}
  /\ Init
  /\ IF at = "archive" THEN Healing!Init ELSE Live!Init
  /\ Panels!Init /\ (at # "panels" => port = NoProc)
  /\ Tree!Init
  /\ IF at = "dialog" THEN Jobs!Init ELSE OneKeyword!Init
  /\ at \notin {"dialog", "windows"} => DOMAIN jobs = {}

Moves(part) ==
  \/ /\ part = "backups" /\ Next
     /\ UNCHANGED <<panelVars, treeVars, watchVars, jobVars>>
  \/ /\ part = "panels" /\ Panels!Next
     /\ UNCHANGED <<vars, treeVars, watchVars, jobVars>>
  \/ /\ part = "tree" /\ Tree!Next
     /\ UNCHANGED <<vars, panelVars, watchVars, jobVars>>
  \/ /\ \/ part = "live" /\ Live!Next
        \/ part = "archive" /\ Healing!Next
     /\ UNCHANGED <<vars, panelVars, treeVars, jobVars>>
  \/ /\ \/ part = "dialog" /\ OneDialog!Next
        \/ part = "windows" /\ OneKeyword!Next
     /\ UNCHANGED <<vars, panelVars, treeVars, watchVars>>

AllNext == UNCHANGED at /\ Moves(at)

(* Threads, the event loop and a one-shot run of the bot go on; so does a    *)
(* watcher, which begins its next cycle after its pause.                     *)
Fairness ==
  /\ Panels!Fairness
  /\ \A w \in Watchers : WF_watchVars(at = "live" /\ Live!Step(w))

FairSpec == AllInit /\ [][AllNext]_allVars /\ Fairness

-----------------------------------------------------------------------------
(* Panels: a one-shot run that is over is not shown as running for good.     *)
ShotIsReset == Panels!ShotIsReset

(* Watchers: once the ERP leaves the file alone they come to rest, and it    *)
(* has its indexes for good.                                                 *)
HealsAndSettles == at = "live" => Live!Settles /\ Live!HealedInTheEnd
=============================================================================
