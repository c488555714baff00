---------------------------- MODULE MaterialsRuns ----------------------------
(***************************************************************************)
(* The manual start of the portal bots: POST /materials/run and            *)
(* /binder/run (api/materials/automation.py) with the run history they     *)
(* keep (runs.py).  All bots share one portal session, so at most one may   *)
(* run; the rows with status 'running' are the only record of that, and    *)
(* the bot processes outlive the API process that started them.            *)
(*                                                                         *)
(* A handler takes _trigger_lock, then reads and commits one table at a     *)
(* time; the worker threads write without the lock.                        *)
(***************************************************************************)
EXTENDS Integers, Sequences, FiniteSets

CONSTANTS
  Registry,   \* datasets in the order of all_datasets()
  Handlers,   \* request threads
  MaxRuns,    \* bound: rows ever inserted
  Stale,      \* STALE_RUNNING_SEC, in units of the clock
  MaxFaults   \* bound: kills and sqlite or spawn errors together

Datasets == {Registry[i] : i \in DOMAIN Registry}
Runs == 1 .. MaxRuns
None == 0

ASSUME RunsAssumption ==
  /\ Registry \in Seq(Datasets) /\ Registry # <<>>
  /\ MaxRuns \in Nat /\ MaxFaults \in Nat
  /\ Stale \in Nat \ {0}

VARIABLES
  (* the runs tables *)
  st,       \* "none", "running", "success" or "failed"
  dset,     \* position of the row's dataset in Registry
  age,      \* now - started_at, up to Stale
  (* the API process *)
  up,
  pc,       \* per handler: "idle", "reap", "check", "insert", "spawn"
  pos,      \* the dataset it is at
  want,     \* the dataset it is asked to start
  mine,     \* the row it inserted
  thread,   \* per row, its worker thread: "none", "new", "wait", "crashed"
  (* the bot processes *)
  bot,      \* per row: "none", "alive", "ok" or "bad"
  faults

table == <<st, dset, age>>
request == <<pc, pos, want, mine>>
vars == <<table, up, request, thread, bot, faults>>

Init ==
  /\ st = [r \in Runs |-> "none"] /\ dset = [r \in Runs |-> 1]
  /\ age = [r \in Runs |-> 0]
  /\ up = FALSE
  /\ pc = [h \in Handlers |-> "idle"] /\ pos = [h \in Handlers |-> 1]
  /\ want = [h \in Handlers |-> 1] /\ mine = [h \in Handlers |-> None]
  /\ thread = [r \in Runs |-> "none"]
  /\ bot = [r \in Runs |-> "none"]
  /\ faults = 0

Fault == faults < MaxFaults /\ faults' = faults + 1
NoFault == UNCHANGED faults
Running(i) == {r \in Runs : st[r] = "running" /\ dset[r] = i}
NextRun(r) == st[r] = "none" /\ \A q \in Runs : q < r => st[q] # "none"

-----------------------------------------------------------------------------
(* trigger_automation, in a request thread.                                *)
Locked(h) == pc[h] \in {"reap", "check", "insert"}
Goto(h, p) == pc' = [pc EXCEPT ![h] = p]

TriggerUnlocked(h, i) ==   \* wrong on purpose: no _trigger_lock
  /\ up /\ pc[h] = "idle"
  /\ Goto(h, "reap") /\ pos' = [pos EXCEPT ![h] = 1] /\ want' = [want EXCEPT ![h] = i]
  /\ UNCHANGED <<table, up, mine, thread, bot, faults>>

Trigger(h, i) ==
  /\ up /\ pc[h] = "idle" /\ \A g \in Handlers : ~Locked(g)
  /\ Goto(h, "reap") /\ pos' = [pos EXCEPT ![h] = 1] /\ want' = [want EXCEPT ![h] = i]
  /\ UNCHANGED <<table, up, mine, thread, bot, faults>>

Leave(h) ==
  /\ Goto(h, "idle") /\ pos' = [pos EXCEPT ![h] = 1]
  /\ want' = [want EXCEPT ![h] = 1] /\ mine' = [mine EXCEPT ![h] = None]

StepPastEnd(h, stage) ==   \* wrong on purpose: off by one
  IF pos[h] <= Len(Registry)
  THEN pos' = [pos EXCEPT ![h] = @ + 1] /\ UNCHANGED pc
  ELSE pos' = [pos EXCEPT ![h] = 1] /\ Goto(h, stage)

(* One table done: the next one, or the next stage after the last. *)
Step(h, stage) ==
  IF pos[h] < Len(Registry)
  THEN pos' = [pos EXCEPT ![h] = @ + 1] /\ UNCHANGED pc
  ELSE pos' = [pos EXCEPT ![h] = 1] /\ Goto(h, stage)

(* An sqlite3.Error leaves trigger_automation: the lock is released, 500.  *)
Abort(h) ==
  /\ Locked(h) /\ Fault /\ Leave(h)
  /\ UNCHANGED <<table, up, thread, bot>>

ReapOwnOnly(h) ==   \* wrong on purpose: only the table of the dataset asked for
  /\ pc[h] = "reap"
  /\ LET old == {r \in Running(want[h]) : age[r] >= Stale} IN
     st' = [r \in Runs |-> IF r \in old THEN "failed" ELSE st[r]]
  /\ Step(h, "check")
  /\ UNCHANGED <<dset, age, up, want, mine, thread, bot, faults>>

ReapEverything(h) ==   \* wrong on purpose: every running row is an orphan
  /\ pc[h] = "reap"
  /\ st' = [r \in Runs |-> IF r \in Running(pos[h]) THEN "failed" ELSE st[r]]
  /\ Step(h, "check")
  /\ UNCHANGED <<dset, age, up, want, mine, thread, bot, faults>>

ReapNothing(h) ==   \* wrong on purpose: nobody reaps
  /\ pc[h] = "reap" /\ Step(h, "check")
  /\ UNCHANGED <<table, up, want, mine, thread, bot, faults>>

ReapStaleRunning(h) ==
  /\ pc[h] = "reap"
  /\ LET old == {r \in Running(pos[h]) : age[r] >= Stale} IN
     st' = [r \in Runs |-> IF r \in old THEN "failed" ELSE st[r]]
  /\ Step(h, "check")
  /\ UNCHANGED <<dset, age, up, want, mine, thread, bot, faults>>

CheckOwnOnly(h) ==   \* wrong on purpose: the check of one table only
  /\ pc[h] = "check"
  /\ \/ Running(want[h]) = {} /\ Goto(h, "insert") /\ UNCHANGED <<pos, want, mine>>
     \/ Running(want[h]) # {} /\ Leave(h)
  /\ UNCHANGED <<table, up, thread, bot, faults>>

(* active_automation_dataset: the first dataset with a running row refuses. *)
CheckActive(h) ==
  /\ pc[h] = "check"
  /\ \/ Running(pos[h]) = {} /\ Step(h, "insert") /\ UNCHANGED <<want, mine>>
     \/ Running(pos[h]) # {} /\ Leave(h)
  /\ UNCHANGED <<table, up, thread, bot, faults>>

StartRun(h) ==
  /\ pc[h] = "insert"
  /\ \E r \in Runs :
       /\ NextRun(r)
       /\ st' = [st EXCEPT ![r] = "running"]
       /\ dset' = [dset EXCEPT ![r] = want[h]]
       /\ mine' = [mine EXCEPT ![h] = r]
  /\ Goto(h, "spawn")
  /\ UNCHANGED <<age, up, pos, want, thread, bot, faults>>

OutOfRows(h) ==   \* the bound MaxRuns is reached
  /\ pc[h] = "insert" /\ \A r \in Runs : st[r] # "none"
  /\ Leave(h)
  /\ UNCHANGED <<table, up, thread, bot, faults>>

(* Thread(...).start(), outside the lock; it may raise. *)
SpawnWorker(h) ==
  /\ pc[h] = "spawn" /\ Leave(h)
  /\ \/ thread' = [thread EXCEPT ![mine[h]] = "new"] /\ NoFault
     \/ UNCHANGED thread /\ Fault
  /\ UNCHANGED <<table, up, bot>>

-----------------------------------------------------------------------------
(* _worker, in a thread per run; subprocess.run waits without a timeout.    *)
Launch(r) ==
  /\ thread[r] = "new"
  /\ \/ /\ thread' = [thread EXCEPT ![r] = "wait"]
        /\ bot' = [bot EXCEPT ![r] = "alive"] /\ NoFault
     \/ thread' = [thread EXCEPT ![r] = "crashed"] /\ UNCHANGED bot /\ Fault
  /\ UNCHANGED <<table, up, request>>

BotExit(r) ==
  /\ bot[r] = "alive"
  /\ \E code \in {"ok", "bad"} : bot' = [bot EXCEPT ![r] = code]
  /\ UNCHANGED <<table, up, request, thread, faults>>

FinishRun(r, status) ==
  /\ st' = [st EXCEPT ![r] = status] /\ thread' = [thread EXCEPT ![r] = "none"]

Finish(r) ==
  /\ thread[r] = "wait" /\ bot[r] \in {"ok", "bad"}
  /\ \/ FinishRun(r, IF bot[r] = "ok" THEN "success" ELSE "failed") /\ NoFault
     \/ thread' = [thread EXCEPT ![r] = "crashed"] /\ UNCHANGED st /\ Fault
  /\ UNCHANGED <<dset, age, up, request, bot>>

(* except Exception: record "failed"; a second error ends the thread. *)
RecordCrash(r) ==
  /\ thread[r] = "crashed"
  /\ \/ FinishRun(r, "failed") /\ NoFault
     \/ thread' = [thread EXCEPT ![r] = "none"] /\ UNCHANGED st /\ Fault
  /\ UNCHANGED <<dset, age, up, request, bot>>

-----------------------------------------------------------------------------
(* The API process dies with its threads, not with the bots.               *)
Kill ==
  /\ up /\ up' = FALSE /\ Fault
  /\ pc' = [h \in Handlers |-> "idle"] /\ pos' = [h \in Handlers |-> 1]
  /\ want' = [h \in Handlers |-> 1] /\ mine' = [h \in Handlers |-> None]
  /\ thread' = [r \in Runs |-> "none"]
  /\ UNCHANGED <<table, bot>>

Restart ==
  /\ ~up /\ up' = TRUE
  /\ UNCHANGED <<table, request, thread, bot, faults>>

(* Computation takes no time; nothing ends a bot that hangs. *)
Advance ==
  /\ \A h \in Handlers : pc[h] = "idle"
  /\ \A r \in Runs : /\ thread[r] \notin {"new", "crashed"}
                     /\ thread[r] = "wait" => bot[r] = "alive"
  /\ age' = [r \in Runs |-> IF st[r] # "none" /\ age[r] < Stale
                            THEN age[r] + 1 ELSE age[r]]
  /\ UNCHANGED <<st, dset, up, request, thread, bot, faults>>

Handler(h) ==
  \/ ReapStaleRunning(h) \/ CheckActive(h) \/ StartRun(h) \/ OutOfRows(h)
  \/ SpawnWorker(h)
Click(h) == \E i \in DOMAIN Registry : Trigger(h, i)
Background(r) == Launch(r) \/ Finish(r) \/ RecordCrash(r)
Next ==
  \/ \E h \in Handlers : Click(h) \/ Handler(h) \/ Abort(h)
  \/ \E r \in Runs : Background(r) \/ BotExit(r)
  \/ Kill \/ Restart \/ Advance

Spec == Init /\ [][Next]_vars

(* Threads run, time passes, the manager restarts the process, and somebody  *)
(* keeps pressing the button; a bot need not end.                           *)
FairSpec ==
  /\ Spec /\ WF_vars(Restart) /\ SF_vars(Advance)
  /\ \A h \in Handlers : SF_vars(Click(h)) /\ WF_vars(Handler(h))
  /\ \A r \in Runs : WF_vars(Background(r))

-----------------------------------------------------------------------------
(* Types of the tables, the locals and the processes.                      *)
TypeOK ==
  /\ st \in [Runs -> {"none", "running", "success", "failed"}]
  /\ dset \in [Runs -> DOMAIN Registry]
  /\ age \in [Runs -> 0 .. Stale]
  /\ up \in BOOLEAN
  /\ pc \in [Handlers -> {"idle", "reap", "check", "insert", "spawn"}]
  /\ pos \in [Handlers -> DOMAIN Registry]
  /\ want \in [Handlers -> DOMAIN Registry]
  /\ mine \in [Handlers -> Runs \cup {None}]
  /\ thread \in [Runs -> {"none", "new", "wait", "crashed"}]
  /\ bot \in [Runs -> {"none", "alive", "ok", "bad"}]
  /\ faults \in 0 .. MaxFaults

(* _trigger_lock and the check over all datasets: never two running rows,   *)
(* whichever tables they are in, however requests, worker threads, crashes  *)
(* and restarts interleave.                                                *)
OneRunning == \A r, q \in Runs : st[r] = "running" /\ st[q] = "running" => r = q

(* One portal session: a second bot runs beside a first one only when one   *)
(* of them is past STALE_RUNNING_SEC, even across restarts of the API that   *)
(* forget which bots it has started.                                       *)
OneBot ==
  \A r, q \in Runs : bot[r] = "alive" /\ bot[q] = "alive" /\ r # q =>
    age[r] = Stale \/ age[q] = Stale

(* A success is final, whatever the reaper does.  A failure is final too,   *)
(* with one exception: a run that was given up at STALE_RUNNING_SEC while    *)
(* its worker thread was still waiting turns into a success when its own    *)
(* bot comes back with one, and never because of another run's bot.         *)
FinishedStays ==
  [][\A r \in Runs :
       /\ st[r] = "success" => st'[r] = "success"
       /\ st[r] = "failed" /\ st'[r] # "failed" =>
            /\ st'[r] = "success" /\ bot[r] = "ok"
            /\ age[r] = Stale /\ thread[r] = "wait"]_vars

(* A request is refused because of a run that may really be in progress,     *)
(* never because of an orphan older than the limit in some dataset.         *)
RefusedOnlyByFresh ==
  [][\A h \in Handlers : pc[h] = "check" /\ pc'[h] = "idle" /\ faults' = faults =>
       \E r \in Runs : st[r] = "running" /\ age[r] < Stale]_vars

(* No orphaned row blocks the button for ever.                             *)
Unblocked == \A r \in Runs : st[r] = "running" ~> st[r] # "running"

-----------------------------------------------------------------------------
(* What makes OneRunning and OneBot inductive. *)
(* Only the holder of the lock may be about to insert, and what it has       *)
(* checked so far is still free.                                           *)
Guarded ==
  /\ \A g, h \in Handlers : Locked(g) /\ Locked(h) => g = h
  /\ \A h \in Handlers :
       /\ pc[h] = "check" => \A i \in 1 .. pos[h] - 1 : Running(i) = {}
       /\ pc[h] = "insert" => \A i \in DOMAIN Registry : Running(i) = {}
(* A bot that is alive and a thread that may still launch or record have    *)
(* their row running, unless the row is old enough to have been given up.   *)
Due(r) == st[r] = "running" \/ (st[r] = "failed" /\ age[r] = Stale)
Covered ==
  /\ \A r \in Runs :
       /\ bot[r] = "alive" => Due(r)
       /\ thread[r] # "none" => Due(r)
       /\ thread[r] = "new" => bot[r] = "none" /\ age[r] = 0
       /\ thread[r] = "crashed" => bot[r] # "alive"
       /\ st[r] = "none" => age[r] = 0 /\ bot[r] = "none" /\ thread[r] = "none"
  /\ \A h \in Handlers :
       pc[h] = "spawn" =>
         /\ mine[h] \in Runs /\ st[mine[h]] = "running" /\ age[mine[h]] = 0
         /\ thread[mine[h]] = "none" /\ bot[mine[h]] = "none"
         /\ \A g \in Handlers : pc[g] = "spawn" /\ mine[g] = mine[h] => g = h
=============================================================================
