----------------------------- MODULE IndexHealing -----------------------------
(***************************************************************************)
(* The two watchers that put missing indexes back after the ERP has        *)
(* replaced a database file: the DBWatcher thread of the manager, which    *)
(* remembers the file's state in memory (tools/db_watcher.py), and the     *)
(* watcher script, which remembers it in a state file and runs ANALYZE     *)
(* once a day (tools/watcher.py).  Both wait for the file to stop changing *)
(* (shared/db_maintenance.py).  Each watches its files one after the       *)
(* other; one file is modelled, and (mtime, size) is a generation.  A      *)
(* third writer is create_indexes.py, run by hand, which waits for nobody. *)
(***************************************************************************)
EXTENDS Naturals

CONSTANTS
  Watchers,      \* a subset of {"thread", "script"}
  IsLive,        \* the file is the live database, else the archive
  There,         \* the file is there when the watchers start
  Checks,        \* STABILIZATION_CHECKS
  MaxRetries,    \* MAX_STABILIZATION_RETRIES
  Interval,      \* ANALYZE_INTERVAL
  MaxChanges,    \* bound of the model: changes by the ERP and runs by hand
  MaxFaults, MaxTime   \* bounds of the model

HealingAssumption ==
  /\ Watchers \subseteq {"thread", "script"} /\ IsLive \in BOOLEAN /\ There \in BOOLEAN
  /\ {Checks, MaxRetries, Interval} \subseteq Nat \ {0}
  /\ {MaxChanges, MaxFaults, MaxTime} \subseteq Nat

None == 0           \* (0, 0): no file, or nothing recorded

VARIABLES
  gen,        \* mtime and size of the file, None while there is none
  last,       \* the highest generation so far
  indexed,    \* the file has every required index
  rec,        \* db_states of the thread; the state file of the script
  watched,    \* the file is in db_states
  job,        \* where each watcher is, and its locals
  by_hand,    \* create_indexes.py still has to run its ANALYZE
  now,
  analyzed,   \* last_analyze_ts in the state file
  ran,        \* when ANALYZE last ran
  early,      \* history: two ANALYZE ran within one Interval, and not because
              \* the time of the first was lost
  forgotten,  \* history: the script was stopped, or could not write, on the way
              \* to save its state, and has not run ANALYZE since
  changes, faults

vars == <<gen, last, indexed, rec, watched, job, by_hand, now, analyzed, ran, early, forgotten,
          changes, faults>>
file == <<gen, last, indexed>>
clock == <<now, analyzed, ran, early, forgotten>>

Sleep == [pc |-> "sleep", first |-> None, seen |-> None, n |-> 0, tries |-> 0, ts |-> 0]
Goto(w, pc) == job' = [job EXCEPT ![w].pc = pc]

Init ==
  /\ gen = (IF There THEN 1 ELSE None) /\ last = 1 /\ indexed = TRUE
  /\ rec = [w \in Watchers |-> IF w = "thread" THEN gen ELSE None]
  /\ watched = [w \in Watchers |-> w = "thread" => There]
  /\ job = [w \in Watchers |-> Sleep] /\ by_hand = FALSE
  /\ now = Interval /\ analyzed = 0 /\ ran = 0
  /\ early = FALSE /\ forgotten = FALSE
  /\ changes = 0 /\ faults = 0

-----------------------------------------------------------------------------
(* The file *)

\* never reached: each change is answered by one heal or goes on with an ANALYZE,
\* and each day has one ANALYZE
MaxGen == 1 + 3 * MaxChanges + MaxTime + MaxFaults

Modify == last < MaxGen /\ gen' = last + 1 /\ last' = last + 1

\* the ERP puts a file without indexes in place, writes to it, or removes it
ErpChange ==
  /\ changes < MaxChanges /\ changes' = changes + 1
  /\ \/ Modify /\ indexed' = FALSE
     \/ gen # None /\ Modify /\ UNCHANGED indexed
     \/ gen # None /\ gen' = None /\ UNCHANGED <<last, indexed>>
  /\ UNCHANGED <<rec, watched, job, by_hand, clock, faults>>

Tick ==
  /\ now < MaxTime /\ now' = now + 1
  /\ UNCHANGED <<file, rec, watched, job, by_hand, analyzed, ran, early, forgotten,
                 changes, faults>>

-----------------------------------------------------------------------------
(* A cycle of a watcher *)

\* a plausible bug: the periodic check of the live file is left out
WakeOnChange(w) ==
  IF gen \notin {None, rec[w]} THEN "stable" ELSE "analyze"

\* what the script does first: the live file is checked even if unchanged
FirstStep(w) ==
  CASE gen = None -> "analyze"
    [] gen \notin {None, rec[w]} -> "stable"
    [] OTHER -> IF IsLive THEN "recheck" ELSE "analyze"

Wake(w) ==
  /\ job[w].pc = "sleep"
  /\ w = "thread" => watched[w] /\ gen \notin {None, rec[w]}
  /\ job' = [job EXCEPT ![w] =
       [Sleep EXCEPT !.pc = IF w = "thread" THEN "stable" ELSE FirstStep(w),
                     !.first = gen, !.seen = gen]]
  /\ UNCHANGED <<file, rec, watched, by_hand, clock, changes, faults>>

\* a plausible bug: there is no end to the retries
SampleOn(w) ==
  /\ job[w].pc = "stable"
  /\ job' = [job EXCEPT ![w] =
       CASE gen = @.seen /\ @.n + 1 = Checks -> [@ EXCEPT !.pc = "heal"]
         [] gen = @.seen /\ @.n + 1 < Checks -> [@ EXCEPT !.n = @ + 1]
         [] OTHER -> [@ EXCEPT !.seen = gen, !.n = 0, !.tries = @ + 1]]
  /\ UNCHANGED <<file, rec, watched, by_hand, clock, changes, faults>>

\* wait_for_stabilization: one look after each pause; any change starts it over
Sample(w) ==
  LET j == job[w] IN
  /\ j.pc = "stable"
  /\ job' = [job EXCEPT ![w] =
       CASE gen = j.seen /\ j.n + 1 = Checks -> [j EXCEPT !.pc = "heal"]
         [] gen = j.seen /\ j.n + 1 < Checks -> [j EXCEPT !.n = j.n + 1]
         [] gen # j.seen /\ (gen = None \/ j.tries + 1 = MaxRetries) ->
              IF w = "thread" THEN Sleep ELSE [j EXCEPT !.pc = "analyze"]
         [] OTHER -> [j EXCEPT !.seen = gen, !.n = 0, !.tries = j.tries + 1]]
  /\ UNCHANGED <<file, rec, watched, by_hand, clock, changes, faults>>

AfterHeal(w) == Goto(w, IF job[w].pc = "heal" THEN "record" ELSE "analyze")

\* only missing indexes are created, and only then is the file written
Create == indexed' = TRUE /\ (IF indexed THEN UNCHANGED <<gen, last>> ELSE Modify)

\* check_and_heal_indexes; SQLite may refuse one of the indexes, after others were
\* created, and the caller goes on all the same
Heal(w) ==
  /\ job[w].pc \in {"heal", "recheck"} /\ AfterHeal(w)
  /\ \/ /\ IF gen = None THEN UNCHANGED file ELSE Create
        /\ UNCHANGED faults
     \/ /\ faults < MaxFaults /\ faults' = faults + 1 /\ UNCHANGED indexed
        /\ UNCHANGED <<gen, last>> \/ (gen # None /\ ~indexed /\ Modify)
  /\ UNCHANGED <<rec, watched, by_hand, clock, changes>>

\* the state of the file is read again after a heal
Record(w) ==
  /\ job[w].pc = "record"
  /\ IF w = "thread"
     THEN job' = [job EXCEPT ![w] = Sleep] /\ rec' = [rec EXCEPT ![w] = gen]
     ELSE job' = [job EXCEPT ![w] = [@ EXCEPT !.pc = "analyze", !.first = gen]]
          /\ UNCHANGED rec
  /\ UNCHANGED <<file, watched, by_hand, clock, changes, faults>>

\* it may write statistics or find nothing to write; an error is only logged
run_analyze ==
  \/ /\ gen # None
     /\ ran' = now /\ forgotten' = FALSE
     /\ early' = (early \/ (ran # 0 /\ now - ran < Interval /\ ~forgotten))
     /\ Modify \/ UNCHANGED <<gen, last>>
     /\ UNCHANGED <<indexed, faults>>
  \/ gen = None /\ UNCHANGED <<file, ran, early, forgotten, faults>>
  \/ faults < MaxFaults /\ faults' = faults + 1 /\ UNCHANGED <<file, ran, early, forgotten>>

Analyze(w) ==
  /\ job[w].pc = "analyze"
  /\ IF now - analyzed < Interval
     THEN /\ job' = [job EXCEPT ![w] = [@ EXCEPT !.pc = "save", !.ts = analyzed]]
          /\ UNCHANGED <<file, ran, early, forgotten, faults>>
     ELSE /\ job' = [job EXCEPT ![w] = [@ EXCEPT !.pc = "save", !.ts = now]]
          /\ run_analyze
  /\ UNCHANGED <<rec, watched, by_hand, now, analyzed, changes>>

\* a plausible bug: the time of the last ANALYZE is not kept
SaveFiles(w) ==
  /\ job[w].pc = "save" /\ job' = [job EXCEPT ![w] = Sleep]
  /\ rec' = [rec EXCEPT ![w] = job[w].first]
  /\ UNCHANGED <<file, watched, by_hand, now, analyzed, ran, early, forgotten, changes, faults>>

Save(w) ==
  /\ job[w].pc = "save" /\ job' = [job EXCEPT ![w] = Sleep]
  /\ rec' = [rec EXCEPT ![w] = job[w].first] /\ analyzed' = job[w].ts
  /\ UNCHANGED <<file, watched, by_hand, now, ran, early, forgotten, changes, faults>>

\* writing fails and is logged, or the script is stopped and may leave a state
\* file that cannot be read; the manager starts over with the file as it is
Restart(w) ==
  /\ faults < MaxFaults /\ faults' = faults + 1
  /\ job' = [job EXCEPT ![w] = Sleep]
  /\ forgotten' = (forgotten \/ job[w].pc = "save")
  /\ IF w = "thread"
     THEN /\ rec' = [rec EXCEPT ![w] = gen] /\ UNCHANGED analyzed
          /\ watched' = [watched EXCEPT ![w] = gen # None]
     ELSE /\ \/ UNCHANGED <<rec, analyzed>>
             \/ /\ job[w].pc = "save"
                /\ rec' = [rec EXCEPT ![w] = None] /\ analyzed' = 0
          /\ UNCHANGED watched
  /\ UNCHANGED <<file, by_hand, now, ran, early, changes>>

-----------------------------------------------------------------------------
(* create_indexes.py, as it is run by hand: it does not wait for the file to *)
(* rest, and what it writes looks to the watchers like any other change.     *)

\* journal_mode=WAL may write by itself; with --force an index that is there
\* counts as created, and an index that SQLite refuses is only logged
CreateByHand ==
  /\ ~by_hand /\ gen # None
  /\ changes < MaxChanges /\ changes' = changes + 1
  /\ \/ /\ Modify \/ (indexed /\ UNCHANGED <<gen, last>>)
        /\ indexed' = TRUE /\ UNCHANGED faults
        /\ by_hand' \in (IF indexed THEN BOOLEAN ELSE {TRUE})
     \/ /\ faults < MaxFaults /\ faults' = faults + 1
        /\ Modify \/ UNCHANGED <<gen, last>>
        /\ by_hand' \in BOOLEAN /\ UNCHANGED indexed
  /\ UNCHANGED <<rec, watched, job, clock>>

\* it is refused, finds nothing to write, or runs on a file that was replaced
AnalyzeByHand ==
  /\ by_hand /\ by_hand' = FALSE
  /\ (gen # None /\ Modify) \/ UNCHANGED <<gen, last>>
  /\ UNCHANGED <<indexed, rec, watched, job, clock, changes, faults>>

-----------------------------------------------------------------------------
Step(w) ==
  Wake(w) \/ Sample(w) \/ Heal(w) \/ Record(w) \/ Analyze(w) \/ Save(w)

Next ==
  \/ ErpChange \/ Tick \/ CreateByHand \/ AnalyzeByHand
  \/ \E w \in Watchers : Step(w) \/ Restart(w)

Spec == Init /\ [][Next]_vars

\* a watcher goes on with its cycle, and begins the next one after its pause
FairSpec == Spec /\ \A w \in Watchers : WF_vars(Step(w))

-----------------------------------------------------------------------------
TypeOK ==
  /\ gen \in 0 .. last /\ last \in Nat \ {0} /\ indexed \in BOOLEAN
  /\ rec \in [Watchers -> 0 .. last] /\ watched \in [Watchers -> BOOLEAN]
  /\ \A w \in Watchers :
       /\ job[w].pc \in {"sleep", "stable", "heal", "recheck", "record", "analyze", "save"}
       /\ job[w].first \in 0 .. last /\ job[w].seen \in 0 .. last
       /\ job[w].n \in 0 .. Checks - 1 /\ job[w].tries \in 0 .. MaxRetries - 1
       /\ job[w].ts \in 0 .. now
  /\ by_hand \in BOOLEAN
  /\ now \in Nat /\ now >= Interval /\ {analyzed, ran} \subseteq 0 .. now
  /\ early \in BOOLEAN /\ forgotten \in BOOLEAN /\ changes \in Nat /\ faults \in Nat

\* "ANALYZE: run once per day": whatever is refused, restarted or changed, a
\* second one within the day follows only a script that was stopped, or could
\* not write, between the first and the end of its save.
AnalyzedOncePerDay == ~early

\* Once the ERP and the script run by hand leave the file alone, the watchers
\* come to rest: what one of them writes does not go on looking like a change
\* to the other.
Settles == <>[](gen # None => \A w \in Watchers : watched[w] => rec[w] = gen)

\* Once the ERP leaves the file alone, it gets its indexes back and keeps them.
HealedInTheEnd == <>[](gen # None => indexed)
=============================================================================
