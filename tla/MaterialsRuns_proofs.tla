------------------------ MODULE MaterialsRuns_proofs ------------------------
(***************************************************************************)
(* Proofs about MaterialsRuns for any number of datasets, request threads   *)
(* and runs, and any number of crashes and errors.                         *)
(***************************************************************************)
EXTENDS MaterialsRuns, TLAPS

USE DEF table, request, NoFault

LEMMA Positions ==
  /\ Len(Registry) \in Nat \ {0}
  /\ DOMAIN Registry = 1 .. Len(Registry)
  /\ 1 \in DOMAIN Registry
<1>1. Registry \in Seq(Datasets) /\ Registry # <<>>
  BY RunsAssumption
<1>2. Len(Registry) \in Nat /\ DOMAIN Registry = 1 .. Len(Registry)
  BY <1>1
<1>3. Len(Registry) # 0
  BY <1>1
<1> QED BY <1>2, <1>3

(* The steps of the system, flattened. *)
Moves ==
  \/ \E h \in Handlers : \/ \E i \in DOMAIN Registry : Trigger(h, i)
                         \/ ReapStaleRunning(h) \/ CheckActive(h) \/ StartRun(h)
                         \/ OutOfRows(h) \/ SpawnWorker(h) \/ Abort(h)
  \/ \E r \in Runs : Launch(r) \/ BotExit(r) \/ Finish(r) \/ RecordCrash(r)
  \/ Kill \/ Restart \/ Advance

LEMMA NextIsMove == Next => Moves
  BY DEF Next, Moves, Click, Handler, Background

LEMMA StepTypes ==
  ASSUME TypeOK, NEW h \in Handlers,
         NEW stage \in {"check", "insert"}, Step(h, stage)
  PROVE  /\ pc' \in [Handlers -> {"idle", "reap", "check", "insert", "spawn"}]
         /\ pos' \in [Handlers -> DOMAIN Registry]
<1>1. CASE pos[h] < Len(Registry)
  <2>1. pos[h] + 1 \in DOMAIN Registry
    BY <1>1, Positions DEF TypeOK
  <2>2. pos' = [pos EXCEPT ![h] = pos[h] + 1] /\ pc' = pc
    BY <1>1 DEF Step
  <2> QED BY <2>1, <2>2 DEF TypeOK
<1>2. CASE ~(pos[h] < Len(Registry))
  <2>1. pos' = [pos EXCEPT ![h] = 1] /\ pc' = [pc EXCEPT ![h] = stage]
    BY <1>2 DEF Step, Goto
  <2> QED BY <2>1, Positions DEF TypeOK
<1> QED BY <1>1, <1>2

LEMMA LeaveTypes ==
  ASSUME TypeOK, NEW h \in Handlers, Leave(h)
  PROVE  /\ pc' \in [Handlers -> {"idle", "reap", "check", "insert", "spawn"}]
         /\ pos' \in [Handlers -> DOMAIN Registry]
         /\ want' \in [Handlers -> DOMAIN Registry]
         /\ mine' \in [Handlers -> Runs \cup {None}]
  BY Positions DEF Leave, Goto, TypeOK

LEMMA FaultType ==
  ASSUME TypeOK, faults' = faults \/ Fault
  PROVE  faults' \in 0 .. MaxFaults
  BY RunsAssumption DEF TypeOK, Fault

LEMMA InitTypeOK == Init => TypeOK
<1> SUFFICES ASSUME Init PROVE TypeOK
  OBVIOUS
<1>1. 0 \in 0 .. Stale /\ 0 \in 0 .. MaxFaults
  BY RunsAssumption
<1>2. age \in [Runs -> 0 .. Stale]
  BY <1>1 DEF Init
<1>3. mine \in [Handlers -> Runs \cup {None}]
  BY DEF Init
<1> QED BY <1>1, <1>2, <1>3, Positions DEF Init, TypeOK

LEMMA TypeStep == TypeOK /\ [Next]_vars => TypeOK'
<1> SUFFICES ASSUME TypeOK, [Next]_vars PROVE TypeOK'
  OBVIOUS
<1>1. ASSUME NEW h \in Handlers, NEW i \in DOMAIN Registry, Trigger(h, i) PROVE TypeOK'
  BY <1>1, Positions DEF Trigger, Goto, TypeOK
<1>2. ASSUME NEW h \in Handlers, ReapStaleRunning(h) PROVE TypeOK'
  <2>1. st' \in [Runs -> {"none", "running", "success", "failed"}]
    BY <1>2 DEF ReapStaleRunning, TypeOK
  <2>2. /\ pc' \in [Handlers -> {"idle", "reap", "check", "insert", "spawn"}]
        /\ pos' \in [Handlers -> DOMAIN Registry]
    BY <1>2, StepTypes DEF ReapStaleRunning
  <2> QED BY <1>2, <2>1, <2>2 DEF ReapStaleRunning, TypeOK
<1>3. ASSUME NEW h \in Handlers, CheckActive(h) PROVE TypeOK'
  <2>1. CASE Running(pos[h]) = {} /\ Step(h, "insert") /\ UNCHANGED <<want, mine>>
    BY <1>3, <2>1, StepTypes DEF CheckActive, TypeOK
  <2>2. CASE Leave(h)
    BY <1>3, <2>2, LeaveTypes DEF CheckActive, TypeOK
  <2> QED BY <1>3, <2>1, <2>2 DEF CheckActive
<1>4. ASSUME NEW h \in Handlers, StartRun(h) PROVE TypeOK'
  BY <1>4 DEF StartRun, Goto, TypeOK
<1>5. ASSUME NEW h \in Handlers, OutOfRows(h) PROVE TypeOK'
  BY <1>5, LeaveTypes DEF OutOfRows, TypeOK
<1>6. ASSUME NEW h \in Handlers, SpawnWorker(h) PROVE TypeOK'
  <2>1. thread' \in [Runs -> {"none", "new", "wait", "crashed"}]
    BY <1>6 DEF SpawnWorker, TypeOK
  <2>2. faults' \in 0 .. MaxFaults
    BY <1>6, FaultType DEF SpawnWorker
  <2> QED BY <1>6, <2>1, <2>2, LeaveTypes DEF SpawnWorker, TypeOK
<1>7. ASSUME NEW h \in Handlers, Abort(h) PROVE TypeOK'
  BY <1>7, LeaveTypes, FaultType DEF Abort, TypeOK
<1>8. ASSUME NEW r \in Runs, Launch(r) PROVE TypeOK'
  <2>1. /\ thread' \in [Runs -> {"none", "new", "wait", "crashed"}]
        /\ bot' \in [Runs -> {"none", "alive", "ok", "bad"}]
    BY <1>8 DEF Launch, TypeOK
  <2>2. faults' \in 0 .. MaxFaults
    BY <1>8, FaultType DEF Launch
  <2> QED BY <1>8, <2>1, <2>2 DEF Launch, TypeOK
<1>9. ASSUME NEW r \in Runs, BotExit(r) PROVE TypeOK'
  BY <1>9 DEF BotExit, TypeOK
<1>10. ASSUME NEW r \in Runs, Finish(r) PROVE TypeOK'
  <2>1. /\ thread' \in [Runs -> {"none", "new", "wait", "crashed"}]
        /\ st' \in [Runs -> {"none", "running", "success", "failed"}]
    BY <1>10 DEF Finish, FinishRun, TypeOK
  <2>2. faults' \in 0 .. MaxFaults
    BY <1>10, FaultType DEF Finish
  <2> QED BY <1>10, <2>1, <2>2 DEF Finish, TypeOK
<1>11. ASSUME NEW r \in Runs, RecordCrash(r) PROVE TypeOK'
  <2>1. /\ thread' \in [Runs -> {"none", "new", "wait", "crashed"}]
        /\ st' \in [Runs -> {"none", "running", "success", "failed"}]
    BY <1>11 DEF RecordCrash, FinishRun, TypeOK
  <2>2. faults' \in 0 .. MaxFaults
    BY <1>11, FaultType DEF RecordCrash
  <2> QED BY <1>11, <2>1, <2>2 DEF RecordCrash, TypeOK
<1>12. ASSUME Kill PROVE TypeOK'
  <2>1. faults' \in 0 .. MaxFaults
    BY <1>12, FaultType DEF Kill
  <2>2. /\ pc' \in [Handlers -> {"idle", "reap", "check", "insert", "spawn"}]
        /\ pos' \in [Handlers -> DOMAIN Registry]
        /\ want' \in [Handlers -> DOMAIN Registry]
        /\ mine' \in [Handlers -> Runs \cup {None}]
        /\ thread' \in [Runs -> {"none", "new", "wait", "crashed"}]
    BY <1>12, Positions DEF Kill
  <2> QED BY <1>12, <2>1, <2>2 DEF Kill, TypeOK
<1>13. ASSUME Restart PROVE TypeOK'
  BY <1>13 DEF Restart, TypeOK
<1>14. ASSUME Advance PROVE TypeOK'
  BY <1>14, RunsAssumption DEF Advance, TypeOK
<1>15. CASE UNCHANGED vars
  BY <1>15 DEF vars, TypeOK
<1> QED
  BY <1>1, <1>2, <1>3, <1>4, <1>5, <1>6, <1>7, <1>8, <1>9, <1>10, <1>11, <1>12, <1>13,
     <1>14, <1>15, NextIsMove DEF Moves

-----------------------------------------------------------------------------
(* One running row at a time: the lock and the checks done so far. *)
Excluded == TypeOK /\ Guarded /\ OneRunning

LEMMA InitExcluded == Init => Excluded
<1> SUFFICES ASSUME Init PROVE Guarded /\ OneRunning
  BY InitTypeOK DEF Excluded
<1> QED
  BY DEF Init, Guarded, Locked, OneRunning

(* Rows that stop running leave the lock's holder right. *)
LEMMA FewerRunning ==
  ASSUME Guarded, OneRunning, UNCHANGED <<pc, pos, dset>>,
         \A r \in Runs : st'[r] = "running" => st[r] = "running"
  PROVE  Guarded' /\ OneRunning'
<1>1. \A i : Running(i) = {} => Running(i)' = {}
  BY DEF Running
<1> QED
  BY <1>1 DEF Guarded, OneRunning, Locked

(* Request threads that leave or are killed only free the lock. *)
LEMMA FewerHandlers ==
  ASSUME Guarded, OneRunning, UNCHANGED <<st, dset>>,
         \A h \in Handlers : \/ pc'[h] = pc[h] /\ pos'[h] = pos[h]
                             \/ pc'[h] \in {"idle", "spawn"}
  PROVE  Guarded' /\ OneRunning'
<1>1. \A i : Running(i)' = Running(i)
  BY DEF Running
<1>2. \A h \in Handlers : Locked(h)' => Locked(h) /\ pc'[h] = pc[h] /\ pos'[h] = pos[h]
  BY DEF Locked
<1>3. \A g, h \in Handlers : Locked(g)' /\ Locked(h)' => g = h
  BY <1>2 DEF Guarded
<1>4. ASSUME NEW h \in Handlers
      PROVE  /\ pc'[h] = "check" => \A i \in 1 .. pos'[h] - 1 : Running(i)' = {}
             /\ pc'[h] = "insert" => \A i \in DOMAIN Registry : Running(i)' = {}
  BY <1>1 DEF Guarded
<1> QED BY <1>3, <1>4 DEF Guarded, OneRunning

LEMMA ExcludedStep == Excluded /\ [Next]_vars => Excluded'
<1> SUFFICES ASSUME TypeOK, Guarded, OneRunning, [Next]_vars
             PROVE  Guarded' /\ OneRunning'
  BY TypeStep DEF Excluded
<1> USE DEF TypeOK
<1>1. ASSUME NEW h \in Handlers, NEW i \in DOMAIN Registry, Trigger(h, i)
      PROVE  Guarded' /\ OneRunning'
  <2>1. pc' = [pc EXCEPT ![h] = "reap"]
    BY <1>1 DEF Trigger, Goto
  <2>2. \A g \in Handlers : ~Locked(g)
    BY <1>1 DEF Trigger
  <2>3. \A g \in Handlers : Locked(g)' => g = h
    BY <2>1, <2>2 DEF Locked
  <2>4. \A g \in Handlers : pc'[g] \notin {"check", "insert"}
    BY <2>1, <2>2 DEF Locked
  <2>5. st' = st
    BY <1>1 DEF Trigger
  <2> QED BY <2>3, <2>4, <2>5 DEF Guarded, OneRunning
<1>2. ASSUME NEW h \in Handlers, ReapStaleRunning(h) PROVE Guarded' /\ OneRunning'
  <2>1. /\ \A r \in Runs : st'[r] = "running" => st[r] = "running"
        /\ dset' = dset /\ Step(h, "check") /\ pc[h] = "reap"
    BY <1>2 DEF ReapStaleRunning
  <2>2. \A g \in Handlers \ {h} : ~Locked(g) /\ pc'[g] = pc[g]
    BY <2>1 DEF Guarded, Locked, Step, Goto
  <2>3. pc'[h] = "reap" \/ (pc'[h] = "check" /\ pos'[h] = 1)
    BY <2>1 DEF Step, Goto
  <2>4. \A g, k \in Handlers : Locked(g)' /\ Locked(k)' => g = k
    BY <2>2 DEF Locked
  <2>5. ASSUME NEW g \in Handlers
        PROVE  /\ pc'[g] = "check" => \A i \in 1 .. pos'[g] - 1 : Running(i)' = {}
               /\ pc'[g] # "insert"
    <3>1. CASE g = h BY <3>1, <2>3
    <3>2. CASE g # h BY <3>2, <2>2 DEF Locked
    <3> QED BY <3>1, <3>2
  <2> QED BY <2>1, <2>4, <2>5 DEF Guarded, OneRunning
<1>3. ASSUME NEW h \in Handlers, CheckActive(h) PROVE Guarded' /\ OneRunning'
  <2>1. CASE Leave(h)
    <3>1. \A g \in Handlers : \/ pc'[g] = pc[g] /\ pos'[g] = pos[g]
                              \/ pc'[g] \in {"idle", "spawn"}
      BY <2>1 DEF Leave, Goto
    <3> QED BY <1>3, <3>1, FewerHandlers DEF CheckActive
  <2>2. CASE Running(pos[h]) = {} /\ Step(h, "insert")
    <3>1. pc[h] = "check" /\ st' = st /\ dset' = dset
      BY <1>3 DEF CheckActive
    <3>2. \A g \in Handlers \ {h} : ~Locked(g) /\ pc'[g] = pc[g]
      BY <2>2, <3>1 DEF Guarded, Locked, Step, Goto
    <3>3. \A i : Running(i)' = Running(i)
      BY <3>1 DEF Running
    <3>4. pos[h] \in 1 .. Len(Registry) /\ Len(Registry) \in Nat
      BY Positions
    <3>5. \A i \in 1 .. pos[h] : Running(i) = {}
      <4>1. ASSUME NEW i \in 1 .. pos[h] PROVE Running(i) = {}
        <5>1. i = pos[h] \/ i \in 1 .. pos[h] - 1
          BY <3>4
        <5> QED BY <2>2, <3>1, <5>1 DEF Guarded
      <4> QED BY <4>1
    <3>6. \/ pc'[h] = "check" /\ pos'[h] = pos[h] + 1
          \/ pc'[h] = "insert" /\ pos[h] = Len(Registry)
      BY <2>2, <3>1, <3>4 DEF Step, Goto
    <3>7. ASSUME NEW g \in Handlers
          PROVE  /\ pc'[g] = "check" => \A i \in 1 .. pos'[g] - 1 : Running(i)' = {}
                 /\ pc'[g] = "insert" => \A i \in DOMAIN Registry : Running(i)' = {}
      <4>1. CASE g = h
        BY <4>1, <3>3, <3>4, <3>5, <3>6, Positions
      <4>2. CASE g # h
        BY <4>2, <3>2 DEF Locked
      <4> QED BY <4>1, <4>2
    <3>8. \A g, k \in Handlers : Locked(g)' /\ Locked(k)' => g = k
      BY <3>2 DEF Locked
    <3> QED BY <3>1, <3>7, <3>8 DEF Guarded, OneRunning
  <2> QED BY <1>3, <2>1, <2>2 DEF CheckActive
<1>4. ASSUME NEW h \in Handlers, StartRun(h) PROVE Guarded' /\ OneRunning'
  <2>1. PICK r \in Runs : st' = [st EXCEPT ![r] = "running"]
    BY <1>4 DEF StartRun
  <2>2. \A q \in Runs : st[q] # "running"
    <3>1. ASSUME NEW q \in Runs, st[q] = "running" PROVE FALSE
      <4>1. Running(dset[q]) = {}
        BY <1>4 DEF StartRun, Guarded
      <4> QED BY <3>1, <4>1 DEF Running
    <3> QED BY <3>1
  <2>3. \A g \in Handlers : ~Locked(g)' /\ pc'[g] \notin {"check", "insert"}
    BY <1>4 DEF StartRun, Guarded, Locked, Goto
  <2> QED BY <2>1, <2>2, <2>3 DEF Guarded, OneRunning
<1>5. ASSUME NEW h \in Handlers, OutOfRows(h) \/ SpawnWorker(h) \/ Abort(h)
      PROVE  Guarded' /\ OneRunning'
  <2>1. Leave(h) /\ st' = st /\ dset' = dset
    BY <1>5 DEF OutOfRows, SpawnWorker, Abort
  <2>2. \A g \in Handlers : \/ pc'[g] = pc[g] /\ pos'[g] = pos[g]
                            \/ pc'[g] \in {"idle", "spawn"}
    BY <2>1 DEF Leave, Goto
  <2> QED BY <2>1, <2>2, FewerHandlers
<1>6. ASSUME NEW r \in Runs, Launch(r) \/ BotExit(r) PROVE Guarded' /\ OneRunning'
  BY <1>6, FewerRunning DEF Launch, BotExit
<1>7. ASSUME NEW r \in Runs, Finish(r) \/ RecordCrash(r) PROVE Guarded' /\ OneRunning'
  <2>1. \A q \in Runs : st'[q] = "running" => st[q] = "running"
    BY <1>7 DEF Finish, RecordCrash, FinishRun
  <2> QED BY <1>7, <2>1, FewerRunning DEF Finish, RecordCrash
<1>8. ASSUME Kill PROVE Guarded' /\ OneRunning'
  <2>1. st' = st /\ dset' = dset /\ \A g \in Handlers : pc'[g] = "idle"
    BY <1>8 DEF Kill
  <2> QED BY <2>1, FewerHandlers
<1>9. ASSUME Restart \/ Advance PROVE Guarded' /\ OneRunning'
  BY <1>9, FewerRunning DEF Restart, Advance
<1>10. CASE UNCHANGED vars
  BY <1>10, FewerRunning DEF vars
<1> QED
  BY <1>1, <1>2, <1>3, <1>4, <1>5, <1>6, <1>7, <1>8, <1>9, <1>10, NextIsMove DEF Moves

(* The type invariant of the run history and its processes. *)
THEOREM RunTypes == Spec => []TypeOK
  BY InitTypeOK, TypeStep, PTL DEF Spec

(* The process-wide guard: with any number of datasets, request threads,     *)
(* crashes and errors, at most one automation row is running.              *)
THEOREM GuardIsExclusive == Spec => []OneRunning
<1>1. Excluded => OneRunning
  BY DEF Excluded
<1> QED
  BY <1>1, InitExcluded, ExcludedStep, PTL DEF Spec
-----------------------------------------------------------------------------
(* A bot and the thread that waits for it have their row running, or given   *)
(* up at STALE_RUNNING_SEC.                                                *)
LEMMA InitCovered == Init => Covered
  BY DEF Init, Covered

LEMMA CoveredStep == TypeOK /\ Covered /\ [Next]_vars => Covered'
<1> SUFFICES ASSUME TypeOK, Covered, [Next]_vars PROVE Covered'
  OBVIOUS
<1> USE DEF TypeOK, Due
<1>1. ASSUME NEW h \in Handlers, NEW i \in DOMAIN Registry, Trigger(h, i) PROVE Covered'
  <2>1. pc' = [pc EXCEPT ![h] = "reap"] /\ UNCHANGED <<table, mine, thread, bot>>
    BY <1>1 DEF Trigger, Goto
  <2> QED BY <2>1 DEF Covered
<1>2. ASSUME NEW h \in Handlers, ReapStaleRunning(h) PROVE Covered'
  <2>1. /\ \A r \in Runs : st'[r] # st[r] =>
              st[r] = "running" /\ age[r] >= Stale /\ st'[r] = "failed"
        /\ UNCHANGED <<age, mine, thread, bot>>
    BY <1>2 DEF ReapStaleRunning, Running
  <2>2. \A g \in Handlers : pc'[g] = "spawn" => pc[g] = "spawn"
    BY <1>2 DEF ReapStaleRunning, Step, Goto
  <2>3. \A r \in Runs : age[r] \in Int /\ age[r] <= Stale /\ Stale \in Int /\ 0 < Stale
    BY RunsAssumption
  <2>4. ASSUME NEW r \in Runs, Due(r) PROVE Due(r)'
    BY <2>1, <2>3, <2>4
  <2>5. ASSUME NEW r \in Runs, st[r] = "running", age[r] = 0 PROVE st'[r] = "running"
    BY <2>1, <2>3, <2>5
  <2>6. \A r \in Runs : st'[r] = "none" => st[r] = "none"
    BY <1>2 DEF ReapStaleRunning
  <2> QED BY <2>1, <2>2, <2>4, <2>5, <2>6 DEF Covered
<1>3. ASSUME NEW h \in Handlers, CheckActive(h) PROVE Covered'
  <2>1. UNCHANGED <<table, thread, bot>>
    BY <1>3 DEF CheckActive
  <2>2. \A g \in Handlers : pc'[g] = "spawn" => pc[g] = "spawn" /\ mine'[g] = mine[g]
    BY <1>3 DEF CheckActive, Step, Leave, Goto
  <2> QED BY <2>1, <2>2 DEF Covered
<1>4. ASSUME NEW h \in Handlers, StartRun(h) PROVE Covered'
  <2>1. PICK r \in Runs : /\ NextRun(r) /\ st' = [st EXCEPT ![r] = "running"]
                          /\ mine' = [mine EXCEPT ![h] = r]
    BY <1>4 DEF StartRun
  <2>2. st[r] = "none" /\ age[r] = 0 /\ bot[r] = "none" /\ thread[r] = "none"
    BY <2>1 DEF NextRun, Covered
  <2>3. UNCHANGED <<age, thread, bot>> /\ pc' = [pc EXCEPT ![h] = "spawn"]
    BY <1>4 DEF StartRun, Goto
  <2>4. \A g \in Handlers \ {h} : pc'[g] = "spawn" => mine'[g] # r /\ mine'[g] = mine[g]
    BY <2>1, <2>2, <2>3 DEF Covered
  <2> QED BY <2>1, <2>2, <2>3, <2>4 DEF Covered
<1>5. ASSUME NEW h \in Handlers, OutOfRows(h) \/ Abort(h) PROVE Covered'
  <2>1. UNCHANGED <<table, thread, bot>>
    BY <1>5 DEF OutOfRows, Abort
  <2>2. \A g \in Handlers : pc'[g] = "spawn" => pc[g] = "spawn" /\ mine'[g] = mine[g]
    BY <1>5 DEF OutOfRows, Abort, Leave, Goto
  <2> QED BY <2>1, <2>2 DEF Covered
<1>6. ASSUME NEW h \in Handlers, SpawnWorker(h) PROVE Covered'
  <2>1. /\ pc[h] = "spawn" /\ UNCHANGED <<table, bot>>
        /\ thread' = thread \/ thread' = [thread EXCEPT ![mine[h]] = "new"]
    BY <1>6 DEF SpawnWorker
  <2>2. \A g \in Handlers :
           pc'[g] = "spawn" => g # h /\ pc[g] = "spawn" /\ mine'[g] = mine[g]
    BY <1>6 DEF SpawnWorker, Leave, Goto
  <2>3. /\ mine[h] \in Runs /\ st[mine[h]] = "running" /\ age[mine[h]] = 0
        /\ bot[mine[h]] = "none"
        /\ \A g \in Handlers : pc[g] = "spawn" /\ mine[g] = mine[h] => g = h
    BY <2>1 DEF Covered
  <2> QED BY <2>1, <2>2, <2>3 DEF Covered
<1>7. ASSUME NEW r \in Runs, Launch(r) PROVE Covered'
  <2>1. /\ thread[r] = "new" /\ UNCHANGED <<table, pc, mine>>
        /\ \/ thread' = [thread EXCEPT ![r] = "wait"] /\ bot' = [bot EXCEPT ![r] = "alive"]
           \/ thread' = [thread EXCEPT ![r] = "crashed"] /\ bot' = bot
    BY <1>7 DEF Launch
  <2>2. Due(r) /\ st[r] # "none" /\ bot[r] = "none"
    BY <2>1 DEF Covered
  <2>3. \A g \in Handlers : pc[g] = "spawn" => mine[g] # r
    BY <2>1 DEF Covered
  <2> QED BY <2>1, <2>2, <2>3 DEF Covered
<1>8. ASSUME NEW r \in Runs, BotExit(r) PROVE Covered'
  <2>1. /\ bot[r] = "alive" /\ UNCHANGED <<table, pc, mine, thread>>
        /\ \A q \in Runs \ {r} : bot'[q] = bot[q]
        /\ bot'[r] # "alive"
    BY <1>8 DEF BotExit
  <2>2. st[r] # "none" /\ thread[r] # "new"
    BY <2>1 DEF Covered
  <2>3. \A g \in Handlers : pc[g] = "spawn" => mine[g] # r
    BY <2>1 DEF Covered
  <2> QED BY <2>1, <2>2, <2>3 DEF Covered
<1>9. ASSUME NEW r \in Runs, Finish(r) \/ RecordCrash(r) PROVE Covered'
  <2>1. thread[r] # "none" /\ thread[r] # "new"
    BY <1>9 DEF Finish, RecordCrash
  <2>2. Due(r) /\ st[r] # "none"
    BY <2>1 DEF Covered
  <2>3. \A g \in Handlers : pc[g] = "spawn" => mine[g] # r
    BY <2>1 DEF Covered
  <2>4. /\ UNCHANGED <<age, pc, mine, bot>>
        /\ thread'[r] = "crashed" => bot[r] # "alive"
        /\ \A q \in Runs \ {r} : st'[q] = st[q] /\ thread'[q] = thread[q]
        /\ st'[r] # "none" /\ thread'[r] \in {"none", "crashed"}
        /\ thread'[r] = "crashed" => st'[r] = st[r]
    BY <1>9, <2>2 DEF Finish, RecordCrash, FinishRun
  <2>5. bot[r] = "alive" => st'[r] = st[r]
    <3>1. CASE Finish(r) BY <3>1 DEF Finish
    <3>2. CASE RecordCrash(r) BY <3>2 DEF RecordCrash, Covered
    <3> QED BY <1>9, <3>1, <3>2
  <2> QED BY <2>2, <2>3, <2>4, <2>5 DEF Covered
<1>10. ASSUME Kill PROVE Covered'
  BY <1>10 DEF Kill, Covered
<1>11. ASSUME Restart PROVE Covered'
  BY <1>11 DEF Restart, Covered
<1>12. ASSUME Advance PROVE Covered'
  <2>1. /\ \A h \in Handlers : pc[h] = "idle"
        /\ \A r \in Runs : /\ thread[r] \notin {"new", "crashed"}
                           /\ thread[r] = "wait" => bot[r] = "alive"
        /\ UNCHANGED <<st, pc, mine, thread, bot>>
    BY <1>12 DEF Advance
  <2>2. \A r \in Runs : /\ age[r] = Stale => age'[r] = Stale
                        /\ st[r] = "none" => age'[r] = age[r]
    BY <1>12, RunsAssumption DEF Advance
  <2> QED BY <2>1, <2>2 DEF Covered
<1>13. CASE UNCHANGED vars
  BY <1>13 DEF vars, Covered
<1> QED
  BY <1>1, <1>2, <1>3, <1>4, <1>5, <1>6, <1>7, <1>8, <1>9, <1>10, <1>11, <1>12, <1>13,
     NextIsMove DEF Moves

(* One portal session, however long a bot lives and whatever the API has     *)
(* forgotten of it: of two bots that run together one is past                *)
(* STALE_RUNNING_SEC.                                                      *)
THEOREM OneBotAtATime == Spec => []OneBot
<1>1. Covered /\ OneRunning => OneBot
  BY DEF Covered, OneRunning, OneBot, Due
<1> QED
  BY <1>1, InitCovered, CoveredStep, RunTypes, GuardIsExclusive, PTL DEF Spec

(* A recorded success never changes, and a recorded failure only when its     *)
(* run was given up at STALE_RUNNING_SEC and its own thread comes back with   *)
(* the success of its own bot, for any life of the bots, any crash and error. *)
THEOREM ResultsAreFinal == Spec => FinishedStays
<1> DEFINE Late(r) == /\ st'[r] = "success" /\ bot[r] = "ok"
                      /\ age[r] = Stale /\ thread[r] = "wait"
           Kept == \A r \in Runs : /\ st[r] = "success" => st'[r] = "success"
                                   /\ st[r] = "failed" /\ st'[r] # "failed" => Late(r)
<1>1. TypeOK /\ Covered /\ [Next]_vars => [Kept]_vars
  <2> SUFFICES ASSUME TypeOK, Covered, Next PROVE Kept
    OBVIOUS
  <2>1. ASSUME NEW h \in Handlers, ReapStaleRunning(h) PROVE Kept
    BY <2>1 DEF ReapStaleRunning, Running
  <2>2. ASSUME NEW h \in Handlers, StartRun(h) PROVE Kept
    BY <2>2 DEF StartRun, NextRun, TypeOK
  <2>3. ASSUME NEW r \in Runs, Finish(r) \/ RecordCrash(r) PROVE Kept
    <3>1. Due(r)
      BY <2>3 DEF Finish, RecordCrash, Covered
    <3>2. \A q \in Runs \ {r} : st'[q] = st[q]
      BY <2>3 DEF Finish, RecordCrash, FinishRun, TypeOK
    <3>3. /\ st'[r] = st[r] \/ st'[r] = "failed" \/ (st'[r] = "success" /\ bot[r] = "ok")
          /\ st'[r] = "success" => st[r] = "success" \/ thread[r] = "wait"
      <4>1. CASE RecordCrash(r) BY <4>1 DEF RecordCrash, FinishRun, TypeOK
      <4>2. CASE Finish(r)
        <5>1. CASE FinishRun(r, IF bot[r] = "ok" THEN "success" ELSE "failed")
          BY <4>2, <5>1 DEF Finish, FinishRun, TypeOK
        <5>2. CASE UNCHANGED st
          BY <4>2, <5>2 DEF Finish
        <5> QED BY <4>2, <5>1, <5>2 DEF Finish
      <4> QED BY <2>3, <4>1, <4>2
    <3>4. ASSUME NEW q \in Runs PROVE
            /\ st[q] = "success" => st'[q] = "success"
            /\ st[q] = "failed" /\ st'[q] # "failed" => Late(q)
      <4>1. CASE q = r BY <3>1, <3>3, <4>1 DEF Due
      <4>2. CASE q # r BY <3>2, <4>2
      <4> QED BY <4>1, <4>2
    <3> QED BY <3>4
  <2>4. CASE UNCHANGED st
    BY <2>4
  <2> QED
    BY <2>1, <2>2, <2>3, <2>4, NextIsMove DEF Moves, Trigger, CheckActive, OutOfRows,
       SpawnWorker, Abort, Launch, BotExit, Kill, Restart, Advance
<1> QED
  BY <1>1, InitCovered, CoveredStep, RunTypes, PTL DEF Spec, FinishedStays
-----------------------------------------------------------------------------
(* What a handler has reaped holds no orphan: no time passes under the lock, *)
(* and a row that is inserted is new.                                       *)
Reaped ==
  /\ \A r \in Runs : st[r] = "none" => age[r] = 0
  /\ \A h \in Handlers, r \in Runs :
       st[r] = "running" /\ (pc[h] = "check" \/ (pc[h] = "reap" /\ dset[r] < pos[h]))
         => age[r] < Stale

LEMMA InitReaped == Init => Reaped
  BY DEF Init, Reaped

(* Rows that stop running, and handlers that leave, take nothing away.       *)
LEMMA ReapedStays ==
  ASSUME Reaped, UNCHANGED <<dset, age>>,
         \A r \in Runs : /\ st'[r] = "none" => st[r] = "none"
                         /\ st'[r] = "running" => st[r] = "running",
         \A h \in Handlers : \/ pc'[h] = pc[h] /\ pos'[h] = pos[h]
                             \/ pc'[h] \notin {"reap", "check"}
  PROVE  Reaped'
  BY DEF Reaped

LEMMA ReapedStep == TypeOK /\ Reaped /\ [Next]_vars => Reaped'
<1> SUFFICES ASSUME TypeOK, Reaped, [Next]_vars PROVE Reaped'
  OBVIOUS
<1> USE DEF TypeOK
<1>1. ASSUME NEW h \in Handlers, NEW i \in DOMAIN Registry, Trigger(h, i) PROVE Reaped'
  <2>1. /\ pc' = [pc EXCEPT ![h] = "reap"] /\ pos' = [pos EXCEPT ![h] = 1]
        /\ UNCHANGED <<st, dset, age>>
    BY <1>1 DEF Trigger, Goto
  <2>2. \A r \in Runs : ~(dset[r] < 1)
    BY Positions
  <2> QED BY <2>1, <2>2 DEF Reaped
<1>2. ASSUME NEW h \in Handlers, ReapStaleRunning(h) PROVE Reaped'
  <2>1. /\ pc[h] = "reap" /\ UNCHANGED <<dset, age>>
        /\ \A r \in Runs : /\ st'[r] = "none" => st[r] = "none"
                           /\ st'[r] = "running" => st[r] = "running"
        /\ \A r \in Runs :
             st'[r] = "running" /\ dset[r] = pos[h] => ~(age[r] >= Stale)
    BY <1>2 DEF ReapStaleRunning, Running
  <2>2. \A r \in Runs : /\ age[r] \in Int /\ Stale \in Int
                        /\ dset[r] \in 1 .. Len(Registry)
                       /\ pos[h] \in 1 .. Len(Registry)
    BY RunsAssumption, Positions
  <2>3. \A r \in Runs : st'[r] = "running" /\ dset[r] <= pos[h] => age[r] < Stale
    BY <2>1, <2>2 DEF Reaped
  <2>4. \/ pc'[h] = "reap" /\ pos'[h] = pos[h] + 1
        \/ pc'[h] = "check" /\ pos[h] >= Len(Registry)
    BY <1>2, <2>1, <2>2, Positions DEF ReapStaleRunning, Step, Goto
  <2>5. \A g \in Handlers \ {h} : pc'[g] = pc[g] /\ pos'[g] = pos[g]
    BY <1>2 DEF ReapStaleRunning, Step, Goto
  <2>6. ASSUME NEW g \in Handlers, NEW r \in Runs, st'[r] = "running",
               pc'[g] = "check" \/ (pc'[g] = "reap" /\ dset[r] < pos'[g])
        PROVE  age[r] < Stale
    <3>1. CASE g = h
      <4>1. dset[r] <= pos[h]
        BY <2>2, <2>4, <2>6, <3>1, Positions
      <4> QED BY <2>3, <2>6, <4>1
    <3>2. CASE g # h
      BY <2>1, <2>5, <2>6, <3>2 DEF Reaped
    <3> QED BY <3>1, <3>2
  <2> QED BY <2>1, <2>6 DEF Reaped
<1>3. ASSUME NEW h \in Handlers, CheckActive(h) PROVE Reaped'
  <2>1. pc[h] = "check" /\ UNCHANGED <<st, dset, age>>
    BY <1>3 DEF CheckActive
  <2>2. pc'[h] \in {"check", "insert", "idle"}
    BY <1>3, <2>1 DEF CheckActive, Step, Leave, Goto
  <2>3. \A g \in Handlers \ {h} : pc'[g] = pc[g] /\ pos'[g] = pos[g]
    BY <1>3 DEF CheckActive, Step, Leave, Goto
  <2> QED BY <2>1, <2>2, <2>3 DEF Reaped
<1>4. ASSUME NEW h \in Handlers, StartRun(h) PROVE Reaped'
  <2>1. PICK r \in Runs : /\ NextRun(r) /\ st' = [st EXCEPT ![r] = "running"]
                          /\ dset' = [dset EXCEPT ![r] = want[h]]
    BY <1>4 DEF StartRun
  <2>2. age[r] = 0 /\ 0 < Stale
    BY <2>1, RunsAssumption DEF NextRun, Reaped
  <2>3. age' = age /\ pos' = pos /\ pc' = [pc EXCEPT ![h] = "spawn"]
    BY <1>4 DEF StartRun, Goto
  <2> QED BY <2>1, <2>2, <2>3 DEF Reaped
<1>5. ASSUME NEW h \in Handlers, OutOfRows(h) \/ SpawnWorker(h) \/ Abort(h) PROVE Reaped'
  <2>1. Leave(h) /\ UNCHANGED <<st, dset, age>>
    BY <1>5 DEF OutOfRows, SpawnWorker, Abort
  <2>2. \A g \in Handlers : \/ pc'[g] = pc[g] /\ pos'[g] = pos[g]
                            \/ pc'[g] \notin {"reap", "check"}
    BY <2>1 DEF Leave, Goto
  <2> QED BY <2>1, <2>2, ReapedStays
<1>6. ASSUME NEW r \in Runs, Launch(r) \/ BotExit(r) \/ Finish(r) \/ RecordCrash(r)
      PROVE  Reaped'
  <2>1. UNCHANGED <<dset, age, pc, pos>>
    BY <1>6 DEF Launch, BotExit, Finish, RecordCrash
  <2>2. \A q \in Runs : /\ st'[q] = "none" => st[q] = "none"
                        /\ st'[q] = "running" => st[q] = "running"
    BY <1>6 DEF Launch, BotExit, Finish, RecordCrash, FinishRun
  <2> QED BY <2>1, <2>2, ReapedStays
<1>7. ASSUME Kill PROVE Reaped'
  <2>1. UNCHANGED <<st, dset, age>> /\ \A h \in Handlers : pc'[h] = "idle"
    BY <1>7 DEF Kill
  <2> QED BY <2>1, ReapedStays
<1>8. ASSUME Restart PROVE Reaped'
  BY <1>8, ReapedStays DEF Restart
<1>9. ASSUME Advance PROVE Reaped'
  <2>1. /\ UNCHANGED <<st, pc>> /\ \A h \in Handlers : pc[h] = "idle"
        /\ \A r \in Runs : st[r] = "none" => age'[r] = age[r]
    BY <1>9 DEF Advance
  <2> QED BY <2>1 DEF Reaped
<1>10. CASE UNCHANGED vars
  BY <1>10, ReapedStays DEF vars
<1> QED
  BY <1>1, <1>2, <1>3, <1>4, <1>5, <1>6, <1>7, <1>8, <1>9, <1>10, NextIsMove DEF Moves

(* A refusal (409 of trigger_automation) is due to a run younger than         *)
(* STALE_RUNNING_SEC: for any datasets, threads, crashes and errors, the      *)
(* reaping before the check leaves no orphan that could refuse a request.     *)
THEOREM RefusalsAreFresh == Spec => RefusedOnlyByFresh
<1>1. ASSUME TypeOK, Reaped, Next, NEW h \in Handlers,
             pc[h] = "check", pc'[h] = "idle", faults' = faults
      PROVE  \E r \in Runs : st[r] = "running" /\ age[r] < Stale
  <2> USE <1>1 DEF TypeOK
  <2>1. ASSUME Fault PROVE FALSE
    BY <2>1 DEF Fault
  <2>2. CASE CheckActive(h)
    <3>1. Running(pos[h]) # {}
      BY <2>2 DEF CheckActive, Step, Goto
    <3> QED BY <3>1 DEF Running, Reaped
  <2>3. ASSUME NEW g \in Handlers,
               \/ \E i \in DOMAIN Registry : Trigger(g, i)
               \/ ReapStaleRunning(g) \/ StartRun(g) \/ OutOfRows(g) \/ SpawnWorker(g)
        PROVE  FALSE
    BY <2>3 DEF Trigger, ReapStaleRunning, StartRun, OutOfRows, SpawnWorker, Step, Leave,
                Goto
  <2>4. ASSUME NEW g \in Handlers, g # h, CheckActive(g) PROVE FALSE
    BY <2>4 DEF CheckActive, Step, Leave, Goto
  <2>5. ASSUME NEW r \in Runs, Launch(r) \/ BotExit(r) \/ Finish(r) \/ RecordCrash(r)
        PROVE  FALSE
    BY <2>5 DEF Launch, BotExit, Finish, RecordCrash
  <2>6. CASE Restart \/ Advance
    BY <2>6 DEF Restart, Advance
  <2>7. CASE Kill \/ \E g \in Handlers : Abort(g)
    BY <2>1, <2>7 DEF Kill, Abort
  <2> QED BY <2>2, <2>3, <2>4, <2>5, <2>6, <2>7, NextIsMove DEF Moves
<1>2. TypeOK /\ Reaped /\ [Next]_vars =>
        [\A h \in Handlers : pc[h] = "check" /\ pc'[h] = "idle" /\ faults' = faults =>
            \E r \in Runs : st[r] = "running" /\ age[r] < Stale]_vars
  BY <1>1
<1> QED
  BY <1>2, InitReaped, ReapedStep, RunTypes, PTL DEF Spec, RefusedOnlyByFresh
=============================================================================
