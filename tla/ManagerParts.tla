----------------------------- MODULE ManagerParts -----------------------------
(***************************************************************************)
(* The manager window and the scripts beside the server, as parts with     *)
(* their parameters: the backups of a database (the names of               *)
(* BackupRetention, unqualified); the manager's panels and their child     *)
(* processes; kill_process_tree; the watchers that heal indexes; and the   *)
(* jobs in config.json.  They share no state.                              *)
(***************************************************************************)
EXTENDS BackupRetention

CONSTANTS
  ChildProcs, NoProc, Foreign,                                       \* panels
  Procs, Root, Stranger, Stubborn, Nobody,                           \* tree
  Watchers, IsLive, There, Checks, MaxRetries, Interval,             \* watchers
  MaxChanges, MaxLosses, MaxTime,
  Keywords, Dialogs, NoKeyword, Closed, MaxReadFaults, MaxWriteFaults    \* jobs

VARIABLES
  app, main, process, shown, born, alive, registered, port, monitor,     \* panels
  resets, denied,
  running, started, parent, calls, all_procs, left, killed,              \* tree
  gen, last, indexed, rec, watched, job, by_hand, now, analyzed, ran,    \* watchers
  early, forgotten, changes, lost,
  jobs, collectors, routes, torn, view, modal, grab, wanted, spoilt, older,    \* jobs
  overwrote, failed

Panels == INSTANCE ServiceManager WITH Procs <- ChildProcs

Tree == INSTANCE ProcessTree WITH alive <- running, born <- started, pc <- calls

Healing == INSTANCE IndexHealing WITH MaxFaults <- MaxLosses, faults <- lost

Jobs == INSTANCE JobSettings WITH faults <- failed

ASSUME PanelsAssumption  == Panels!ProcsAssumption
ASSUME TreesAssumption   == Tree!TreeAssumption
ASSUME HealsAssumption   == Healing!HealingAssumption
ASSUME JobListAssumption == Jobs!JobsAssumption

-----------------------------------------------------------------------------
(* Panels: the types; a child that runs is the process of its panel, so that *)
(* no panel ever has two, and is known to the exit hook, unless its kill is   *)
(* under way or was denied; quitting leaves none behind; and a monitor only  *)
(* ever waits on a process.                                                  *)
EveryChildIsHeld ==
  Panels!TypeOK /\ Panels!OneChildPerPanel /\ Panels!ExitReachesAll

(* Tree: the types; what the call found is dead when it returns, unless      *)
(* AccessDenied leaves it; and the call ended nothing but the root and what  *)
(* was started below it.                                                     *)
KillsTheTreeOnly == Tree!TypeOK /\ Tree!SnapshotIsDead /\ Tree!OnlyTheTree

(* Watchers: the types, among them that none looks at a file or tries again  *)
(* more often than it may; and ANALYZE runs once a day, unless the script is *)
(* stopped, or cannot write, before the time of the last one is saved.       *)
AnalyzedOncePerDay == Healing!TypeOK /\ Healing!AnalyzedOncePerDay

(* Jobs: the types; a removed job does not come back; unless a read has      *)
(* failed, the file has the jobs as they were saved and an edit of something *)
(* else keeps collector and route.  What the jobs are is promised until a    *)
(* dialog writes a copy older than what another window wrote meanwhile.      *)
JobsAreKept ==
  /\ Jobs!TypeOK /\ Jobs!DeletedStaysDeleted
  /\ failed.read = 0 => Jobs!JobsAsSaved /\ Jobs!EditKeepsSpec
=============================================================================
