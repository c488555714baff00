--------------------------- MODULE BackupRetention ---------------------------
(***************************************************************************)
(* The backups of one database (tools/backup_db.py): a run waits until the *)
(* database rests, copies it to a new file named after the second, checks  *)
(* the copy and removes the oldest files beyond the retention.  The runs   *)
(* are scripts: started by the scheduler and by hand, side by side, killed *)
(* at any point.  Two runs that name their file in the same second would   *)
(* share it and are left out.  A run that the wait or the mkdir ends does  *)
(* nothing and is left out too.                                            *)
(***************************************************************************)
EXTENDS Naturals, FiniteSets

CONSTANTS
  Runs,                   \* scripts that may run side by side
  Retention,              \* LIVE_BACKUP_RETENTION, ARCHIVE_BACKUP_RETENTION
  MaxClock,               \* bound: file names are 1 .. MaxClock
  MaxFaults, MaxCrashes   \* bounds: unlinks refused and listings lost; kills

ASSUME BackupAssumption ==
  /\ IsFiniteSet(Runs) /\ Retention \in Nat \ {0}
  /\ MaxClock \in Nat /\ MaxFaults \in Nat /\ MaxCrashes \in Nat

VARIABLES
  clock,            \* the next file name; a file's mtime is the clock as well
  files, mtime,     \* BACKUP_DIR/prefix_*.db
  pc, name,         \* where each run is, and its backup_path
  to_remove,        \* what its listing told it to remove
  made,             \* history: the files that passed verify_backup
  unready,          \* history: files that a listing met before they were checked
  faults, crashes

vars == <<clock, files, mtime, pc, name, to_remove, made, unready, faults, crashes>>

Names == 1 .. MaxClock

Init ==
  /\ clock = 1 /\ files = {} /\ mtime = [n \in Names |-> 0]
  /\ pc = [r \in Runs |-> "idle"] /\ name = [r \in Runs |-> 0]
  /\ to_remove = [r \in Runs |-> {}]
  /\ made = {} /\ unready = {} /\ faults = 0 /\ crashes = 0

Goto(r, from, to) == pc[r] = from /\ pc' = [pc EXCEPT ![r] = to]

\* run_backup names its file
Start(r) ==
  /\ Goto(r, "idle", "open")
  /\ clock <= MaxClock /\ clock' = clock + 1
  /\ name' = [name EXCEPT ![r] = clock]
  /\ UNCHANGED <<files, mtime, to_remove, made, unready, faults, crashes>>

\* the first pages reach the new file
CopyBegins(r) ==
  /\ Goto(r, "open", "copy")
  /\ files' = files \cup {name[r]} /\ mtime' = [mtime EXCEPT ![name[r]] = clock]
  /\ UNCHANGED <<clock, name, to_remove, made, unready, faults, crashes>>

CopyEnds(r) ==
  /\ Goto(r, "copy", "verify")
  /\ mtime' = [mtime EXCEPT ![name[r]] = clock]
  /\ UNCHANGED <<clock, files, name, to_remove, made, unready, faults, crashes>>

\* an unlink whose OSError is suppressed or logged
Unlink(n) ==
  \/ files' = files \ {n} /\ UNCHANGED faults
  \/ n \in files /\ faults < MaxFaults /\ faults' = faults + 1 /\ UNCHANGED files

\* a plausible bug: the copy is removed while it is still open, and stays
CopyFailsOpen(r) ==
  /\ pc[r] \in {"open", "copy"} /\ Goto(r, pc[r], "idle")
  /\ UNCHANGED <<clock, files, mtime, name, to_remove, made, unready, faults, crashes>>

\* sqlite3.Error, the file being there or not yet: close, then unlink
CopyFails(r) ==
  /\ pc[r] \in {"open", "copy"} /\ Goto(r, pc[r], "idle")
  /\ Unlink(name[r])
  /\ UNCHANGED <<clock, mtime, name, to_remove, made, unready, crashes>>

\* the copy may have been removed, as the oldest file, while it was written
VerifyPasses(r) ==
  /\ Goto(r, "verify", "list") /\ name[r] \in files
  /\ made' = made \cup {name[r]}
  /\ UNCHANGED <<clock, files, mtime, name, to_remove, unready, faults, crashes>>

VerifyFails(r) ==
  /\ Goto(r, "verify", "idle")
  /\ Unlink(name[r])
  /\ UNCHANGED <<clock, mtime, name, to_remove, made, unready, crashes>>

-----------------------------------------------------------------------------
(* cleanup_old_backups, at the end of a run or alone with --cleanup          *)

CleanupOnly(r) ==
  /\ Goto(r, "idle", "list")
  /\ UNCHANGED <<clock, files, mtime, name, to_remove, made, unready, faults, crashes>>

\* a plausible bug: sorted without reverse=True
OldestOf(kept) == \A k \in kept, n \in files \ kept : mtime[k] <= mtime[n]

\* the first files of the listing; equal mtimes come in any order
NewestOf(kept) == \A k \in kept, n \in files \ kept : mtime[k] >= mtime[n]

\* a plausible bug: one file too few is kept
KeptButOne == {kept \in SUBSET files : /\ Cardinality(kept) = Retention - 1
                                       /\ NewestOf(kept)}

Kept == {kept \in SUBSET files : Cardinality(kept) = Retention /\ NewestOf(kept)}

List(r) ==
  /\ Goto(r, "list", IF Cardinality(files) <= Retention THEN "idle" ELSE "remove")
  /\ IF Cardinality(files) <= Retention
     THEN UNCHANGED <<to_remove, unready>>
     ELSE \E kept \in Kept : /\ to_remove' = [to_remove EXCEPT ![r] = files \ kept]
                             /\ unready' = unready \cup (files \ made)
  /\ UNCHANGED <<clock, files, mtime, name, made, faults, crashes>>

\* another run removes a file between glob and stat: the script ends there
ListFails(r) ==
  /\ Goto(r, "list", "idle")
  /\ \E q \in Runs \ {r} : pc[q] # "idle"
  /\ faults < MaxFaults /\ faults' = faults + 1
  /\ UNCHANGED <<clock, files, mtime, name, to_remove, made, unready, crashes>>

\* a file that another run has removed, or that cannot be, costs a warning
Remove(r) ==
  /\ \E n \in to_remove[r] :
       /\ Unlink(n)
       /\ to_remove' = [to_remove EXCEPT ![r] = @ \ {n}]
       /\ Goto(r, "remove", IF to_remove[r] = {n} THEN "idle" ELSE "remove")
  /\ UNCHANGED <<clock, mtime, name, made, unready, crashes>>

Kill(r) ==
  /\ pc[r] # "idle" /\ pc' = [pc EXCEPT ![r] = "idle"]
  /\ crashes < MaxCrashes /\ crashes' = crashes + 1
  /\ to_remove' = [to_remove EXCEPT ![r] = {}]
  /\ UNCHANGED <<clock, files, mtime, name, made, unready, faults>>

Next ==
  \E r \in Runs :
    \/ Start(r) \/ CopyBegins(r) \/ CopyEnds(r) \/ CopyFails(r)
    \/ VerifyPasses(r) \/ VerifyFails(r)
    \/ CleanupOnly(r) \/ List(r) \/ ListFails(r) \/ Remove(r) \/ Kill(r)

Spec == Init /\ [][Next]_vars

-----------------------------------------------------------------------------
TypeOK ==
  /\ clock \in 1 .. MaxClock + 1 /\ files \subseteq Names
  /\ mtime \in [Names -> 0 .. MaxClock + 1] /\ name \in [Runs -> 0 .. MaxClock]
  /\ pc \in [Runs -> {"idle", "open", "copy", "verify", "list", "remove"}]
  /\ to_remove \in [Runs -> SUBSET Names]
  /\ made \subseteq Names /\ unready \subseteq Names
  /\ faults \in 0 .. MaxFaults /\ crashes \in 0 .. MaxCrashes

\* "Keep last 30 daily backups": a checked backup is gone only when Retention
\* others are as new.  The files that a listing met unchecked are the exception:
\* what a killed or failing run left counts like a backup, and the copy of a slow
\* run is removed by the listing that saw it when it was the oldest.
NewestAreKept ==
  \A g \in made \ (files \cup unready) :
    Retention <= Cardinality({n \in made \cup unready : mtime[n] >= mtime[g]} \ {g})

\* Whatever runs overlapped and failed, when all have ended and none was killed
\* and no unlink refused, there are checked backups only, within the retention.
OnlyGoodOnesAtRest ==
  (\A r \in Runs : pc[r] = "idle") /\ faults = 0 /\ crashes = 0 =>
    files \subseteq made /\ Cardinality(files) <= Retention
=============================================================================
