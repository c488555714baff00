------------------------ MODULE WebhookQueue_proofs ------------------------
(***************************************************************************)
(* Proofs about WebhookQueue for every number of rows, webhooks, attempts,  *)
(* faults, every lease and every set of delays: types, the send budget,     *)
(* true successes, who owns a row, and, as long as operators retry only     *)
(* deliveries that failed, that the queue implements DeliveryPromise.       *)
(***************************************************************************)
EXTENDS WebhookQueue, FiniteSetTheorems, TLAPS

USE DEF hookVars, rowVars, procVars, apiVars, histVars, NoFault

(* The steps of the system, flattened: Next is one of these. *)
Step ==
  \/ \E h \in Hooks : \/ CreateWebhook(h) \/ UpdateWebhook(h) \/ DeleteWebhook(h)
                      \/ EnqueueDelivery(h) \/ CreatePendingDelivery(h)
  \/ \E d \in Deliveries : \/ PingSend(d) \/ FinalizeDelivery(d) \/ RequeueDelivery(d)
                           \/ Send(d)
  \/ EmitList \/ RequeueDeliveries
  \/ TickRecover \/ ClaimDueDeliveries \/ ReleaseClaims
  \/ RecordAttempt \/ RecordAttemptFails \/ ThreadEnds
  \/ Start \/ Stop \/ Joined \/ JoinTimeout \/ Kill
  \/ Advance

LEMMA NextIsStep == Next => Step
  BY DEF Next, Step, Worker, Process, Requests

(* A bulk retry reopens rows in a terminal failure status only. *)
LEMMA BulkRetry ==
  RequeueDeliveries => \E S \in SUBSET Deliveries :
    Requeue(S) /\ \A e \in S : status[e] \in RETRYABLE_TERMINAL_STATUSES
<1> SUFFICES ASSUME NEW eff \in SUBSET RETRYABLE_TERMINAL_STATUSES, NEW H \in SUBSET Hooks,
                    NEW limit \in Deliveries, Requeue(Oldest(limit, Retryable(eff, H)))
             PROVE  \E S \in SUBSET Deliveries :
                      Requeue(S) /\ \A e \in S : status[e] \in RETRYABLE_TERMINAL_STATUSES
  BY DEF RequeueDeliveries
<1>1. /\ Oldest(limit, Retryable(eff, H)) \in SUBSET Deliveries
      /\ \A e \in Oldest(limit, Retryable(eff, H)) : status[e] \in RETRYABLE_TERMINAL_STATUSES
  BY DEF Oldest, Retryable
<1> QED
  BY <1>1

(* Renumbering a past due time gives an integer. *)
LEMMA RankIsInt ==
  ASSUME NEW past \in SUBSET (Int \ Nat), NEW t \in Int
  PROVE  Cardinality({u \in past : u >= t}) \in Nat
<1>1. IsFiniteSet(t .. (0 - 1))
  BY FS_Interval
<1>2. ASSUME NEW u \in past, u >= t PROVE u \in t .. (0 - 1)
  <2>1. u \in Int /\ u \notin Nat
    OBVIOUS
  <2>2. u < 0
    BY <2>1
  <2> QED BY <1>2, <2>1, <2>2
<1>3. IsFiniteSet({u \in past : u >= t})
  <2>1. {u \in past : u >= t} \in SUBSET (t .. (0 - 1))
    BY <1>2
  <2> QED BY <1>1, <2>1, FS_Subset
<1> QED
  BY <1>3, FS_CardinalityType

-----------------------------------------------------------------------------
(* The typed states in which the thread's locals follow its program counter. *)
TypeInv == TypeOK /\ Holding

LEMMA InitTypeInv == Init => TypeInv
<1> SUFFICES ASSUME Init PROVE TypeInv
  OBVIOUS
<1>1. 1 \in 1 .. MaxAttempts /\ 0 \in 0 .. MaxAttempts /\ 0 \in 0 .. Lease
      /\ 0 \in 0 .. SendMax /\ 0 \in 0 .. MaxFaults
  BY QueueAssumption
<1>2. /\ received \in [Deliveries -> BOOLEAN] /\ owed \in [Deliveries -> BOOLEAN]
      /\ up \in BOOLEAN /\ shutdown \in BOOLEAN
  BY Zenon DEF Init
<1>3. TypeOK
  BY <1>1, <1>2 DEF Init, TypeOK, Status
<1>4. Holding
  BY DEF Init, Holding, None
<1> QED
  BY <1>3, <1>4 DEF TypeInv

LEMMA InsertType ==
  ASSUME TypeOK, NEW d \in Deliveries, NEW h \in Hooks, NEW s \in Status,
         InsertRow(d, h, s)
  PROVE  /\ status' \in [Deliveries -> Status]
         /\ hookOf' \in [Deliveries -> Hooks \cup {NoHook}]
         /\ attempt' = attempt /\ due' = due /\ age' = age
  BY DEF TypeOK, InsertRow

LEMMA OutcomeType ==
  ASSUME TypeOK, cur \in Deliveries, NEW s \in Status, NEW a \in 1 .. MaxAttempts,
         NEW w \in Int, Outcome(s, a, w)
  PROVE  /\ status' \in [Deliveries -> Status]
         /\ attempt' \in [Deliveries -> 1 .. MaxAttempts]
         /\ due' \in [Deliveries -> Int]
         /\ age' \in [Deliveries -> 0 .. Lease]
  BY QueueAssumption DEF TypeOK, Outcome, Update

LEMMA TypeStep == TypeInv /\ [Next]_vars => TypeInv'
<1> SUFFICES ASSUME TypeOK, Holding, [Next]_vars
             PROVE  TypeInv'
  BY DEF TypeInv
<1> USE DEF TypeInv, None
<1>1. ASSUME NEW h \in Hooks, CreateWebhook(h) PROVE TypeInv'
  BY <1>1 DEF CreateWebhook, TypeOK, Holding
<1>2. ASSUME NEW h \in Hooks, UpdateWebhook(h) PROVE TypeInv'
  BY <1>2 DEF UpdateWebhook, TypeOK, Holding
<1>3. ASSUME NEW h \in Hooks, DeleteWebhook(h) PROVE TypeInv'
  <2>1. /\ hook' \in [Hooks -> {"absent", "active", "inactive", "deleted"}]
        /\ status' \in [Deliveries -> Status]
        /\ due' \in [Deliveries -> Int]
    BY <1>3 DEF DeleteWebhook, TypeOK, Status
  <2>3. owed' \in [Deliveries -> BOOLEAN]
    <3>1. ASSUME NEW d \in Deliveries
          PROVE  (IF hookOf[d] = h THEN FALSE ELSE owed[d]) \in BOOLEAN
      BY Zenon DEF TypeOK
    <3> QED BY <1>3, <3>1, Zenon DEF DeleteWebhook
  <2>2. age' \in [Deliveries -> 0 .. Lease]
    BY <1>3, QueueAssumption DEF DeleteWebhook, TypeOK
  <2> QED BY <1>3, <2>1, <2>2, <2>3 DEF DeleteWebhook, TypeOK, Holding
<1>4. ASSUME NEW h \in Hooks, EnqueueDelivery(h) PROVE TypeInv'
  <2>1. /\ status' \in [Deliveries -> Status]
        /\ hookOf' \in [Deliveries -> Hooks \cup {NoHook}]
        /\ attempt' = attempt /\ due' = due /\ age' = age
    <3>1. CASE \E d \in Deliveries : InsertRow(d, h, "queued")
      BY <3>1, InsertType, "queued" \in Status DEF Status
    <3>2. CASE UNCHANGED rowVars
      BY <3>2 DEF TypeOK
    <3> QED BY <1>4, <3>1, <3>2 DEF EnqueueDelivery
  <2> QED BY <1>4, <2>1, QueueAssumption DEF EnqueueDelivery, TypeOK, Holding, Fault
<1>5. ASSUME NEW h \in Hooks, CreatePendingDelivery(h) PROVE TypeInv'
  <2>1. PICK d \in Deliveries : InsertRow(d, h, "pending") /\ ping' = [ping EXCEPT ![d] = "open"]
    BY <1>5 DEF CreatePendingDelivery
  <2>2. /\ status' \in [Deliveries -> Status]
        /\ hookOf' \in [Deliveries -> Hooks \cup {NoHook}]
        /\ attempt' = attempt /\ due' = due /\ age' = age
    BY <2>1, InsertType DEF Status
  <2> QED BY <1>5, <2>1, <2>2 DEF CreatePendingDelivery, TypeOK, Holding
<1>6. ASSUME NEW d \in Deliveries, PingSend(d) PROVE TypeInv'
  BY <1>6 DEF PingSend, TypeOK, Holding
<1>7. ASSUME NEW d \in Deliveries, FinalizeDelivery(d) PROVE TypeInv'
  <2>1. status' \in [Deliveries -> Status] /\ age' \in [Deliveries -> 0 .. Lease]
    BY <1>7, QueueAssumption DEF FinalizeDelivery, TypeOK, Update, Status
  <2>2. faults' \in 0 .. MaxFaults
    BY <1>7, QueueAssumption DEF FinalizeDelivery, TypeOK, Fault
  <2>3. ping' \in [Deliveries -> {"no", "open", "success", "failure"}]
    BY <1>7 DEF FinalizeDelivery, TypeOK
  <2> QED BY <1>7, <2>1, <2>2, <2>3 DEF FinalizeDelivery, TypeOK, Holding
<1>8. ASSUME NEW S \in SUBSET Deliveries, Requeue(S) PROVE TypeInv'
  BY <1>8, QueueAssumption DEF Requeue, TypeOK, Holding, Status
<1>9. ASSUME NEW d \in Deliveries, Send(d) PROVE TypeInv'
  <2>1. cur = 0 BY <1>9 DEF Send, Holding
  <2>2. d # 0 /\ held[d] > 0 BY <1>9 DEF Send, Rest, Deliveries
  <2> QED BY <1>9, <2>1, <2>2, QueueAssumption DEF Send, TypeOK, Holding
<1>10. ASSUME EmitList PROVE TypeInv'
  BY <1>10 DEF EmitList, TypeOK, Holding
<1>11. ASSUME TickRecover PROVE TypeInv'
  BY <1>11, QueueAssumption DEF TickRecover, Recovered, TypeOK, Holding, Status, Fault
<1>12. ASSUME ClaimDueDeliveries PROVE TypeInv'
  <2>1. status' \in [Deliveries -> Status] /\ age' \in [Deliveries -> 0 .. Lease]
    BY <1>12, QueueAssumption DEF ClaimDueDeliveries, TypeOK, Status
  <2>2. held' \in [Deliveries -> 0 .. MaxAttempts]
    BY <1>12, QueueAssumption DEF ClaimDueDeliveries, TypeOK
  <2>3. pc' \notin {"batch", "sending"} => \A d \in Deliveries : held'[d] = 0
    BY <1>12 DEF ClaimDueDeliveries, TypeOK, Holding
  <2>4. cur = 0 /\ pc' \in {"idle", "batch"} /\ up
    BY <1>12 DEF ClaimDueDeliveries, TypeOK, Holding
  <2> QED BY <1>12, <2>1, <2>2, <2>3, <2>4, QueueAssumption
          DEF ClaimDueDeliveries, TypeOK, Holding, Fault
<1>13. ASSUME ReleaseClaims PROVE TypeInv'
  BY <1>13, QueueAssumption DEF ReleaseClaims, TypeOK, Holding, Status, Fault
<1>14. ASSUME RecordAttempt PROVE TypeInv'
  <2>1. cur \in Deliveries /\ held[cur] \in 1 .. MaxAttempts
    BY <1>14, QueueAssumption DEF RecordAttempt, TypeOK, Holding, Deliveries
  <2>2. \E s \in Status, a \in 1 .. MaxAttempts, w \in Int : Outcome(s, a, w)
    <3>1. \E s \in Status, a \in 1 .. MaxAttempts, w \in Int :
            s \in {"success", "failure", "dead", "retrying"} /\ Outcome(s, a, w)
      BY <1>14, <2>1, QueueAssumption, 0 \in Int DEF RecordAttempt, Status
    <3> QED BY <3>1
  <2>3. /\ status' \in [Deliveries -> Status]
        /\ attempt' \in [Deliveries -> 1 .. MaxAttempts]
        /\ due' \in [Deliveries -> Int]
        /\ age' \in [Deliveries -> 0 .. Lease]
    BY <2>1, <2>2, OutcomeType
  <2>4. held' \in [Deliveries -> 0 .. MaxAttempts]
    <3>1. held' = [held EXCEPT ![cur] = 0]
      BY <1>14 DEF RecordAttempt, Recorded
    <3>2. held \in [Deliveries -> 0 .. MaxAttempts] /\ 0 \in 0 .. MaxAttempts
      BY QueueAssumption DEF TypeOK
    <3> QED BY <3>1, <3>2
  <2>5. Rest = {} => \A d \in Deliveries : held'[d] = 0
    BY <1>14, <2>1 DEF RecordAttempt, Recorded, Rest, TypeOK
  <2> QED BY <1>14, <2>1, <2>3, <2>4, <2>5, QueueAssumption
          DEF RecordAttempt, Recorded, TypeOK, Holding
<1>15. ASSUME RecordAttemptFails PROVE TypeInv'
  BY <1>15, QueueAssumption DEF RecordAttemptFails, DropBatch, TypeOK, Holding, Fault
<1>16. ASSUME ThreadEnds PROVE TypeInv'
  BY <1>16 DEF ThreadEnds, TypeOK, Holding
<1>17. ASSUME Start PROVE TypeInv'
  <2>1. /\ status' \in [Deliveries -> Status] /\ due' \in [Deliveries -> Int]
        /\ age' \in [Deliveries -> 0 .. Lease]
    BY <1>17, QueueAssumption DEF Start, Recovered, TypeOK, Status
  <2>2. faults' \in 0 .. MaxFaults
    BY <1>17, QueueAssumption DEF Start, TypeOK, Fault
  <2>3. pc = "off"
    BY <1>17 DEF Start, TypeOK, Holding
  <2> QED BY <1>17, <2>1, <2>2, <2>3 DEF Start, TypeOK, Holding
<1>18. ASSUME Stop PROVE TypeInv'
  BY <1>18 DEF Stop, TypeOK, Holding
<1>19. ASSUME Exit, faults' = faults \/ Fault PROVE TypeInv'
  <2>1. faults' \in 0 .. MaxFaults
    BY <1>19, QueueAssumption DEF TypeOK, Fault
  <2>2. held' = [d \in Deliveries |-> 0] /\ busy' = 0 /\ cur' = 0 /\ reply' = "ok"
    BY <1>19 DEF Exit, DropBatch
  <2>3. lost' \in [Deliveries -> Nat]
    BY <1>19 DEF Exit, DropBatch, TypeOK
  <2>4. held' \in [Deliveries -> 0 .. MaxAttempts] /\ busy' \in 0 .. SendMax
    BY <2>2, QueueAssumption
  <2> QED BY <1>19, <2>1, <2>2, <2>3, <2>4 DEF Exit, TypeOK, Holding
<1>20. ASSUME Advance PROVE TypeInv'
  <2>1. due' \in [Deliveries -> Int]
    <3> DEFINE dated == {d \in Deliveries : status[d] \in Waiting \cup {"in_flight"}}
               past == {due[d] - 1 : d \in dated} \ Nat
               aged(t) == IF t >= 0 THEN t ELSE 0 - Cardinality({u \in past : u >= t})
    <3>1. past \in SUBSET (Int \ Nat) BY DEF TypeOK
    <3>2. ASSUME NEW d \in Deliveries PROVE aged(due[d] - 1) \in Int
      <4>1. due[d] - 1 \in Int BY DEF TypeOK
      <4>2. Cardinality({u \in past : u >= due[d] - 1}) \in Nat
        BY <3>1, <4>1, RankIsInt
      <4> QED BY <4>1, <4>2
    <3>3. due' = [d \in Deliveries |-> IF d \in dated THEN aged(due[d] - 1) ELSE due[d]]
      BY <1>20 DEF Advance, Lapse
    <3> HIDE DEF aged, dated
    <3> QED BY <3>2, <3>3 DEF TypeOK
  <2>2. age' \in [Deliveries -> 0 .. Lease]
    BY <1>20, QueueAssumption DEF Advance, Lapse, TypeOK
  <2>3. busy' \in 0 .. SendMax
    BY <1>20, QueueAssumption DEF Advance, Lapse, TypeOK
  <2> QED BY <1>20, <2>1, <2>2, <2>3 DEF Advance, Lapse, TypeOK, Holding
<1>21. CASE UNCHANGED vars
  BY <1>21 DEF vars, TypeOK, Holding
<1>22. ASSUME RequeueDeliveries PROVE TypeInv'
  BY <1>8, <1>22, BulkRetry
<1>23. ASSUME NEW d \in Deliveries, RequeueDelivery(d) PROVE TypeInv'
  BY <1>8, <1>23 DEF RequeueDelivery
<1>24. ASSUME Joined \/ JoinTimeout \/ Kill PROVE TypeInv'
  BY <1>19, <1>24 DEF Joined, JoinTimeout, Kill
<1> QED
  BY <1>1, <1>2, <1>3, <1>4, <1>5, <1>6, <1>7, <1>9, <1>10, <1>11, <1>12, <1>13, <1>14,
     <1>15, <1>16, <1>17, <1>18, <1>20, <1>21, <1>22, <1>23, <1>24, NextIsStep DEF Step

(* Every variable keeps its type in every reachable state, and the locals of *)
(* the thread are meaningful exactly where the code uses them.              *)
LEMMA QueueTypes == Spec => []TypeInv
  BY InitTypeInv, TypeStep, PTL DEF Spec

(* In every reachable state every variable has its type: in particular no   *)
(* row's attempt number passes MaxAttempts, however its writers interleave. *)
THEOREM TypeCorrect == Spec => []TypeOK
<1>1. TypeInv => TypeOK
  BY DEF TypeInv
<1> QED
  BY <1>1, QueueTypes, PTL

-----------------------------------------------------------------------------
(* The send budget. *)
LEMMA InitBudget == Init => Budget
<1> SUFFICES ASSUME Init, NEW d \in Deliveries PROVE Within(d)
  BY DEF Budget
<1> QED
  BY DEF Init, Within, Settled, Sending, Rest, Final, None

(* Steps that touch neither the counters nor the worker, and reopen no row. *)
LEMMA BudgetFrame ==
  ASSUME TypeInv, Budget, UNCHANGED <<attempt, pc, held, cur, sends, lost>>,
         \A d \in Deliveries : Settled(d) => Settled(d)'
  PROVE  Budget'
<1> SUFFICES ASSUME NEW d \in Deliveries PROVE Within(d)'
  BY DEF Budget
<1> QED
  BY DEF Budget, Within, Sending, Rest

LEMMA BudgetStep == TypeInv /\ Budget /\ [Next]_vars => Budget'
<1> SUFFICES ASSUME TypeInv, Budget, [Next]_vars
             PROVE  Budget'
  OBVIOUS
<1>1. ASSUME NEW h \in Hooks,
             CreateWebhook(h) \/ UpdateWebhook(h) \/ DeleteWebhook(h) \/ EnqueueDelivery(h)
             \/ CreatePendingDelivery(h)
      PROVE  Budget'
  <2>1. UNCHANGED <<attempt, pc, held, cur, sends, lost>>
    BY <1>1 DEF CreateWebhook, UpdateWebhook, DeleteWebhook, EnqueueDelivery,
                CreatePendingDelivery, InsertRow
  <2>2. ASSUME NEW d \in Deliveries, Settled(d) PROVE Settled(d)'
    <3>1. status'[d] = status[d] \/ status'[d] = "deleted"
      BY <1>1, <2>2 DEF CreateWebhook, UpdateWebhook, DeleteWebhook, EnqueueDelivery,
           CreatePendingDelivery, InsertRow, NextId, Settled, Final, TypeInv, TypeOK
    <3> QED BY <2>2, <3>1 DEF Settled
  <2> QED BY <2>1, <2>2, BudgetFrame
<1>2. ASSUME NEW d \in Deliveries, PingSend(d) \/ FinalizeDelivery(d) PROVE Budget'
  <2>1. UNCHANGED <<attempt, pc, held, cur, sends, lost>>
    BY <1>2 DEF PingSend, FinalizeDelivery
  <2>2. ASSUME NEW e \in Deliveries, Settled(e) PROVE Settled(e)'
    <3>1. status'[e] = status[e] \/ status'[e] \in {"success", "failure"}
      BY <1>2 DEF PingSend, FinalizeDelivery, Update, TypeInv, TypeOK
    <3> QED BY <2>2, <3>1 DEF Settled, Final
  <2> QED BY <2>1, <2>2, BudgetFrame
<1>3. ASSUME NEW S \in SUBSET Deliveries, Requeue(S) PROVE Budget'
  <2> SUFFICES ASSUME NEW e \in Deliveries PROVE Within(e)'
    BY DEF Budget
  <2>1. UNCHANGED <<pc, held, cur>>
    BY <1>3 DEF Requeue
  <2>2. CASE e \in S
    <3>1. attempt'[e] = 1 /\ sends'[e] = 0 /\ lost'[e] = 0
      BY <1>3, <2>2 DEF Requeue
    <3>2. held[e] \in Nat
      BY QueueAssumption DEF TypeInv, TypeOK
    <3> QED BY <2>1, <3>1, <3>2 DEF Within, Rest
  <2>3. CASE e \notin S
    <3>1. /\ attempt'[e] = attempt[e] /\ sends'[e] = sends[e] /\ lost'[e] = lost[e]
          /\ status'[e] = status[e]
      BY <1>3, <2>3 DEF Requeue
    <3> QED BY <2>1, <3>1 DEF Budget, Within, Rest, Settled, Sending
  <2> QED BY <2>2, <2>3
<1>4. ASSUME NEW d \in Deliveries, Send(d) PROVE Budget'
  <2> SUFFICES ASSUME NEW e \in Deliveries PROVE Within(e)'
    BY DEF Budget
  <2>1. /\ pc' = "sending" /\ cur' = d /\ cur = None /\ d \in Rest
        /\ UNCHANGED <<attempt, held, lost, status>>
    BY <1>4 DEF Send, TypeInv, Holding
  <2>2. sends' = [sends EXCEPT ![d] = @ + 1] /\ sends \in [Deliveries -> Nat]
    BY <1>4 DEF Send, TypeInv, TypeOK
  <2>3. lost[e] \in Nat /\ attempt[e] \in Nat /\ held[e] \in Nat /\ sends[e] \in Nat
    BY QueueAssumption DEF TypeInv, TypeOK
  <2>4. CASE e = d
    <3>1. sends'[d] = sends[d] + 1
      BY <2>2
    <3>2. sends[d] < held[d] + lost[d] /\ sends[d] < attempt[d] + lost[d]
      BY <2>1 DEF Budget, Within
    <3> QED BY <2>1, <2>3, <2>4, <3>1, <3>2 DEF Within, Sending, Rest
  <2>5. CASE e # d
    <3>1. sends'[e] = sends[e]
      BY <2>2, <2>5
    <3>2. e \in Rest' => e \in Rest
      BY <2>1, <2>5 DEF Rest, None, Deliveries
    <3>3. ~Sending(e) /\ ~Sending(e)' /\ (Settled(e)' <=> Settled(e))
      BY <1>4, <2>1, <2>5 DEF Send, Sending, Settled
    <3>4. attempt'[e] = attempt[e] /\ lost'[e] = lost[e] /\ held'[e] = held[e]
      BY <2>1
    <3> QED BY <3>1, <3>2, <3>3, <3>4 DEF Budget, Within
  <2> QED BY <2>4, <2>5
<1>5. ASSUME TickRecover \/ Start PROVE Budget'
  <2>1. UNCHANGED <<attempt, held, cur, sends, lost>>
    BY <1>5 DEF TickRecover, Start
  <2>2. pc # "sending" /\ pc' # "sending"
    BY <1>5 DEF TickRecover, Start, TypeInv, TypeOK, Holding
  <2>3. ASSUME NEW d \in Deliveries, Settled(d) PROVE Settled(d)'
    <3>1. status'[d] = status[d]
      BY <1>5, <2>3 DEF TickRecover, Start, Recovered, InFlight, Settled, Final
    <3> QED BY <2>3, <3>1 DEF Settled
  <2> SUFFICES ASSUME NEW d \in Deliveries PROVE Within(d)'
    BY DEF Budget
  <2> QED BY <2>1, <2>2, <2>3 DEF Budget, Within, Sending, Rest
<1>6. ASSUME ClaimDueDeliveries PROVE Budget'
  <2> SUFFICES ASSUME NEW d \in Deliveries PROVE Within(d)'
    BY DEF Budget
  <2>1. /\ UNCHANGED <<attempt, cur, sends, lost>> /\ cur = None
        /\ pc # "sending" /\ pc' # "sending" /\ held[d] = 0
    BY <1>6 DEF ClaimDueDeliveries, TypeInv, Holding
  <2>2. d \notin Rest
    BY <2>1 DEF Rest
  <2>3. CASE held'[d] = 0
    <3>2. Settled(d) => Settled(d)'
      BY <1>6 DEF ClaimDueDeliveries, Settled, Final, OldestDue, DueRows, Waiting
    <3>3. d \notin Rest'
      BY <2>3 DEF Rest
    <3>4. lost[d] \in Nat /\ attempt[d] \in Nat /\ sends[d] \in Nat
      BY QueueAssumption DEF TypeInv, TypeOK
    <3> QED BY <2>1, <2>3, <3>2, <3>3, <3>4 DEF Budget, Within, Sending
  <2>4. CASE held'[d] # 0
    <3>1. held'[d] = attempt[d] /\ status[d] \in Waiting
      BY <1>6, <2>1, <2>4 DEF ClaimDueDeliveries, OldestDue, DueRows, TypeInv, TypeOK
    <3>2. ~Settled(d)
      BY <3>1 DEF Settled, Final, Waiting
    <3>3. sends[d] < attempt[d] + lost[d]
      BY <2>1, <3>2 DEF Budget, Within, Sending
    <3>4. lost[d] \in Nat /\ attempt[d] \in Nat /\ sends[d] \in Nat
      BY QueueAssumption DEF TypeInv, TypeOK
    <3> QED BY <2>1, <3>1, <3>3, <3>4 DEF Within
  <2> QED BY <2>3, <2>4
<1>7. ASSUME ReleaseClaims PROVE Budget'
  <2> SUFFICES ASSUME NEW d \in Deliveries PROVE Within(d)'
    BY DEF Budget
  <2>1. /\ UNCHANGED <<attempt, cur, sends, lost>> /\ held'[d] = 0
        /\ pc # "sending" /\ pc' # "sending"
    BY <1>7 DEF ReleaseClaims
  <2>2. Settled(d) => Settled(d)'
    BY <1>7 DEF ReleaseClaims, Settled, Final
  <2> QED BY <2>1, <2>2 DEF Budget, Within, Sending, Rest
<1>8. ASSUME RecordAttempt PROVE Budget'
  <2> SUFFICES ASSUME NEW d \in Deliveries PROVE Within(d)'
    BY DEF Budget
  <2>1. /\ held' = [held EXCEPT ![cur] = 0] /\ cur' = None /\ pc' # "sending"
        /\ UNCHANGED <<sends, lost>> /\ pc = "sending"
        /\ cur \in Deliveries /\ held[cur] > 0 /\ held \in [Deliveries -> 0 .. MaxAttempts]
    BY <1>8 DEF RecordAttempt, Recorded, TypeInv, TypeOK, Holding
  <2>2. lost[d] \in Nat /\ attempt[d] \in Nat /\ held[d] \in Nat /\ sends[d] \in Nat
    BY QueueAssumption DEF TypeInv, TypeOK
  <2>3. CASE d = cur
    <3>1. held'[d] = 0
      BY <2>1, <2>3
    <3>2. sends[d] <= attempt[d] + lost[d] /\ sends[d] <= held[d] + lost[d]
      BY <2>1, <2>3 DEF Budget, Within
    <3>3. \/ status'[d] \in {"success", "failure", "dead"} /\ attempt'[d] = held[d]
          \/ status'[d] = "retrying" /\ attempt'[d] = held[d] + 1
          \/ status'[d] = "deleted" /\ attempt'[d] = attempt[d]
      BY <1>8, <2>1, <2>3 DEF RecordAttempt, Outcome, Update, TypeInv, TypeOK
    <3> QED BY <2>1, <2>2, <2>3, <3>1, <3>2, <3>3 DEF Within, Settled, Final, Rest
  <2>4. CASE d # cur
    <3>1. held'[d] = held[d] /\ status'[d] = status[d] /\ attempt'[d] = attempt[d]
      BY <1>8, <2>1, <2>4 DEF RecordAttempt, Outcome, Update, TypeInv, TypeOK
    <3>2. d \in Rest' => d \in Rest
      BY <2>1, <2>4, <3>1 DEF Rest
    <3> QED BY <2>1, <2>4, <3>1, <3>2 DEF Budget, Within, Sending, Settled
  <2> QED BY <2>3, <2>4
<1>9. ASSUME DropBatch, UNCHANGED <<attempt, sends, status>>, pc' # "sending"
      PROVE  Budget'
  <2> SUFFICES ASSUME NEW d \in Deliveries PROVE Within(d)'
    BY DEF Budget
  <2>1. held'[d] = 0
    BY <1>9 DEF DropBatch
  <2>2. lost[d] \in Nat /\ attempt[d] \in Nat /\ sends[d] \in Nat
    BY QueueAssumption DEF TypeInv, TypeOK
  <2>3. CASE pc = "sending" /\ cur = d
    <3>1. lost'[d] = lost[d] + 1
      BY <1>9, <2>3 DEF DropBatch, None, TypeInv, TypeOK, Deliveries
    <3>2. sends[d] <= attempt[d] + lost[d]
      BY DEF Budget, Within
    <3> QED BY <1>9, <2>1, <2>2, <3>1, <3>2 DEF Within, Rest
  <2>4. CASE ~(pc = "sending" /\ cur = d)
    <3>1. lost'[d] = lost[d]
      BY <1>9, <2>4 DEF DropBatch, TypeInv, TypeOK, Holding
    <3> QED BY <1>9, <2>1, <2>2, <2>4, <3>1 DEF Budget, Within, Rest, Settled, Sending
  <2> QED BY <2>3, <2>4
<1>10. ASSUME RecordAttemptFails \/ Joined \/ JoinTimeout \/ Kill PROVE Budget'
  BY <1>9, <1>10 DEF RecordAttemptFails, Joined, JoinTimeout, Kill, Exit
<1>11. ASSUME EmitList \/ Stop \/ UNCHANGED vars PROVE Budget'
  <2>1. UNCHANGED <<attempt, pc, held, cur, sends, lost, status>>
    BY <1>11 DEF EmitList, Stop, vars
  <2> QED BY <2>1, BudgetFrame DEF Settled
<1>12. ASSUME ThreadEnds PROVE Budget'
  <2> SUFFICES ASSUME NEW d \in Deliveries PROVE Within(d)'
    BY DEF Budget
  <2> QED BY <1>12 DEF ThreadEnds, Budget, Within, Settled, Sending, Rest
<1>13. ASSUME Advance PROVE Budget'
  <2>1. UNCHANGED <<attempt, pc, held, cur, sends, lost, status>>
    BY <1>13 DEF Advance, Lapse
  <2> QED BY <2>1, BudgetFrame DEF Settled
<1>14. ASSUME RequeueDeliveries PROVE Budget'
  BY <1>3, <1>14, BulkRetry
<1>15. ASSUME NEW d \in Deliveries, RequeueDelivery(d) PROVE Budget'
  BY <1>3, <1>15 DEF RequeueDelivery
<1> QED
  BY <1>1, <1>2, <1>4, <1>5, <1>6, <1>7, <1>8, <1>10, <1>11, <1>12, <1>13, <1>14, <1>15,
     NextIsStep DEF Step

LEMMA BudgetBounds == TypeInv /\ Budget => SendBudget
<1> SUFFICES ASSUME TypeInv, Budget, NEW d \in Deliveries
             PROVE  sends[d] <= MaxAttempts + lost[d]
  BY DEF SendBudget
<1>1. sends[d] <= attempt[d] + lost[d]
  BY DEF Budget, Within
<1>2. attempt[d] \in 1 .. MaxAttempts /\ sends[d] \in Nat /\ lost[d] \in Nat
  BY DEF TypeInv, TypeOK
<1> QED
  BY <1>1, <1>2, QueueAssumption

(* Between two retries by an operator a row is sent at most MaxAttempts      *)
(* times plus once for every outcome that was lost, whatever the number of   *)
(* rows, the lease, the delays, the crashes and the requests.               *)
THEOREM SendsAreBounded == Spec => []SendBudget
<1>1. Init => TypeInv /\ Budget
  BY InitTypeInv, InitBudget
<1>2. (TypeInv /\ Budget) /\ [Next]_vars => (TypeInv /\ Budget)'
  BY TypeStep, BudgetStep
<1> QED
  BY <1>1, <1>2, BudgetBounds, PTL DEF Spec

-----------------------------------------------------------------------------
(* What is recorded as a success was accepted by the receiver. *)
Honest == NoFalseSuccess /\ Truthful

LEMMA InitHonest == Init => Honest
  BY DEF Init, Honest, NoFalseSuccess, Truthful

(* A receiver never takes an acceptance back. *)
LEMMA ReceivedGrows ==
  ASSUME TypeInv, [Next]_vars, NEW d \in Deliveries, received[d]
  PROVE  received'[d]
<1>1. ASSUME NEW e \in Deliveries, NEW got \in BOOLEAN,
             received' = [received EXCEPT ![e] = @ \/ got]
      PROVE  received'[d]
  BY <1>1, Zenon DEF TypeInv, TypeOK
<1>2. \/ UNCHANGED received
      \/ \E e \in Deliveries, got \in BOOLEAN : received' = [received EXCEPT ![e] = @ \/ got]
  BY NextIsStep
     DEF Step, vars, CreateWebhook, UpdateWebhook, DeleteWebhook, EnqueueDelivery,
         CreatePendingDelivery, PingSend, FinalizeDelivery, RequeueDelivery, Requeue, Send,
         EmitList, RequeueDeliveries, TickRecover, ClaimDueDeliveries, ReleaseClaims,
         RecordAttempt, Recorded, RecordAttemptFails, ThreadEnds, Start, Stop, Joined,
         JoinTimeout, Kill, Exit, Advance, Lapse
<1> QED
  BY <1>1, <1>2

LEMMA HonestStep == TypeInv /\ Honest /\ [Next]_vars => Honest'
<1> SUFFICES ASSUME TypeInv, Honest, [Next]_vars PROVE Honest'
  OBVIOUS
<1> DEFINE Same == UNCHANGED <<pc, cur, reply>>
<1>1. ASSUME NEW d \in Deliveries,
             /\ status'[d] = "success" => status[d] = "success" \/ received'[d]
             /\ ping'[d] = "success" => ping[d] = "success" \/ received'[d]
      PROVE  /\ status'[d] = "success" => received'[d]
             /\ ping'[d] = "success" => received'[d]
  BY <1>1, ReceivedGrows DEF Honest, NoFalseSuccess, Truthful
<1>2. ASSUME \/ pc' # "sending"
             \/ Same
             \/ reply' # "ok" \/ received'[cur']
      PROVE  pc' = "sending" /\ reply' = "ok" => received'[cur']
  BY <1>2, ReceivedGrows DEF Honest, Truthful, TypeInv, TypeOK, Holding
<1>3. ASSUME /\ \A d \in Deliveries :
                  /\ status'[d] = "success" => status[d] = "success" \/ received'[d]
                  /\ ping'[d] = "success" => ping[d] = "success" \/ received'[d]
             /\ pc' # "sending" \/ Same \/ reply' # "ok" \/ received'[cur']
      PROVE  Honest'
  BY <1>1, <1>2, <1>3 DEF Honest, NoFalseSuccess, Truthful
<1> HIDE DEF Same
<1>4. ASSUME NEW h \in Hooks,
             CreateWebhook(h) \/ UpdateWebhook(h) \/ DeleteWebhook(h) \/ EnqueueDelivery(h)
             \/ CreatePendingDelivery(h)
      PROVE  Honest'
  <2>1. Same
    BY <1>4 DEF Same, CreateWebhook, UpdateWebhook, DeleteWebhook, EnqueueDelivery,
                CreatePendingDelivery
  <2>2. ASSUME NEW d \in Deliveries
        PROVE  /\ status'[d] = "success" => status[d] = "success"
               /\ ping'[d] = "success" => ping[d] = "success"
    BY <1>4 DEF CreateWebhook, UpdateWebhook, DeleteWebhook, EnqueueDelivery,
                CreatePendingDelivery, InsertRow, TypeInv, TypeOK
  <2> QED BY <2>1, <2>2, <1>3
<1>5. ASSUME NEW d \in Deliveries, PingSend(d) PROVE Honest'
  <2>1. PICK r \in {"success", "failure"}, got \in BOOLEAN :
          /\ r = "success" => got
          /\ ping' = [ping EXCEPT ![d] = r]
          /\ received' = [received EXCEPT ![d] = @ \/ got]
    BY <1>5 DEF PingSend
  <2>2. r = "success" => received'[d]
    BY <2>1, Zenon DEF TypeInv, TypeOK
  <2>3. ASSUME NEW e \in Deliveries
        PROVE  ping'[e] = "success" => ping[e] = "success" \/ received'[e]
    <3>1. ping'[e] = ping[e] \/ (e = d /\ ping'[e] = r)
      BY <2>1 DEF TypeInv, TypeOK
    <3> QED BY <2>2, <3>1
  <2>4. Same /\ UNCHANGED status
    BY <1>5 DEF PingSend, Same
  <2> QED BY <2>3, <2>4, <1>3
<1>6. ASSUME NEW d \in Deliveries, FinalizeDelivery(d) PROVE Honest'
  <2>1. Same
    BY <1>6 DEF FinalizeDelivery, Same
  <2>2. ASSUME NEW e \in Deliveries
        PROVE  /\ status'[e] = "success" => status[e] = "success" \/ received'[e]
               /\ ping'[e] = "success" => ping[e] = "success"
    <3>1. status'[e] = status[e] \/ status'[e] = ping[e]
      BY <1>6 DEF FinalizeDelivery, Update, TypeInv, TypeOK
    <3>2. ping'[e] = ping[e] \/ ping'[e] = "no"
      BY <1>6 DEF FinalizeDelivery, TypeInv, TypeOK
    <3>3. ping[e] = "success" => received'[e]
      BY ReceivedGrows DEF Honest, Truthful
    <3> QED BY <3>1, <3>2, <3>3
  <2> QED BY <2>1, <2>2, <1>3
<1>7. ASSUME NEW S \in SUBSET Deliveries, Requeue(S) PROVE Honest'
  BY <1>7, <1>3 DEF Requeue, Same
<1>8. ASSUME NEW d \in Deliveries, Send(d) PROVE Honest'
  <2>1. PICK r \in {"ok", "reject", "error"}, got \in BOOLEAN :
          /\ r = "ok" => got
          /\ reply' = r
          /\ received' = [received EXCEPT ![d] = @ \/ got]
    BY <1>8 DEF Send
  <2>2. r = "ok" => received'[d]
    BY <2>1, Zenon DEF TypeInv, TypeOK
  <2>3. cur' = d /\ UNCHANGED <<status, ping>>
    BY <1>8 DEF Send
  <2> QED BY <2>1, <2>2, <2>3, <1>3
<1>9. ASSUME RecordAttempt PROVE Honest'
  <2>1. pc' # "sending" /\ UNCHANGED ping /\ cur \in Deliveries /\ pc = "sending"
    BY <1>9 DEF RecordAttempt, Recorded, TypeInv, TypeOK, Holding
  <2>2. ASSUME NEW d \in Deliveries, status'[d] = "success", status[d] # "success"
        PROVE  received'[d]
    <3>1. d = cur /\ reply = "ok"
      BY <1>9, <2>1, <2>2 DEF RecordAttempt, Outcome, Update, TypeInv, TypeOK
    <3> QED BY <2>1, <3>1, ReceivedGrows DEF Honest, Truthful
  <2> QED BY <2>1, <2>2, <1>3
<1>10. ASSUME TickRecover \/ Start \/ ClaimDueDeliveries \/ ReleaseClaims PROVE Honest'
  <2>1. pc' # "sending" /\ UNCHANGED ping
    BY <1>10 DEF TickRecover, Start, ClaimDueDeliveries, ReleaseClaims
  <2>2. ASSUME NEW d \in Deliveries
        PROVE  status'[d] = "success" => status[d] = "success"
    BY <1>10 DEF TickRecover, Start, Recovered, ClaimDueDeliveries, ReleaseClaims
  <2> QED BY <2>1, <2>2, <1>3
<1>11. ASSUME RecordAttemptFails \/ ThreadEnds \/ Exit PROVE Honest'
  <2>1. pc' # "sending" /\ UNCHANGED status
        /\ (UNCHANGED ping \/ ping' = [d \in Deliveries |-> "no"])
    BY <1>11 DEF RecordAttemptFails, ThreadEnds, Exit
  <2> QED BY <2>1, <1>3
<1>12. ASSUME EmitList \/ Stop \/ Advance \/ UNCHANGED vars PROVE Honest'
  <2>1. UNCHANGED <<status, ping, reply, cur>> /\ (UNCHANGED pc)
    BY <1>12 DEF EmitList, Stop, Advance, Lapse, vars
  <2> QED BY <2>1, <1>3 DEF Same
<1>13. ASSUME RequeueDeliveries \/ (\E d \in Deliveries : RequeueDelivery(d)) PROVE Honest'
  BY <1>7, <1>13, BulkRetry DEF RequeueDelivery
<1>14. ASSUME Joined \/ JoinTimeout \/ Kill PROVE Honest'
  BY <1>11, <1>14 DEF Joined, JoinTimeout, Kill
<1> QED
  BY <1>4, <1>5, <1>6, <1>8, <1>9, <1>10, <1>11, <1>12, <1>13, <1>14, NextIsStep DEF Step

(* No interleaving of the worker, the test handler, retries, leases and      *)
(* crashes marks a row as delivered that its receiver never accepted.       *)
THEOREM SuccessIsTrue == Spec => []NoFalseSuccess
<1>1. Init => TypeInv /\ Honest
  BY InitTypeInv, InitHonest
<1>2. (TypeInv /\ Honest) /\ [Next]_vars => (TypeInv /\ Honest)'
  BY TypeStep, HonestStep
<1>3. Honest => NoFalseSuccess
  BY DEF Honest
<1> QED
  BY <1>1, <1>2, <1>3, PTL DEF Spec

-----------------------------------------------------------------------------
(* Who owns a row. *)
RetriesFailures == RetryFrom \subseteq {"failure", "dead"}

-----------------------------------------------------------------------------
(* Without a fault every claim belongs to the live worker.                  *)
LEMMA InitOwned == Init => InFlightOwned
  BY DEF Init, InFlightOwned

LEMMA OwnedStep == TypeInv /\ InFlightOwned /\ [Next]_vars => InFlightOwned'
<1> SUFFICES ASSUME TypeInv, InFlightOwned, [Next]_vars, faults' = 0,
                    NEW d \in Deliveries, status'[d] = "in_flight"
             PROVE  up' /\ held'[d] > 0
  BY DEF InFlightOwned
<1> DEFINE Old == status[d] = "in_flight"
<1>0. ASSUME Fault PROVE FALSE
  BY <1>0 DEF Fault, TypeInv, TypeOK
<1>1. ASSUME faults = 0, Old PROVE up /\ held[d] > 0
  BY <1>1 DEF InFlightOwned
<1>2. ASSUME NEW h \in Hooks,
             CreateWebhook(h) \/ UpdateWebhook(h) \/ DeleteWebhook(h) \/ EnqueueDelivery(h)
             \/ CreatePendingDelivery(h)
      PROVE  up' /\ held'[d] > 0
  <2>1. Old /\ faults = 0 /\ UNCHANGED <<up, held>>
    BY <1>0, <1>2 DEF CreateWebhook, UpdateWebhook, DeleteWebhook, EnqueueDelivery,
            CreatePendingDelivery, InsertRow, TypeInv, TypeOK
  <2> QED BY <1>1, <2>1
<1>3. ASSUME NEW e \in Deliveries, PingSend(e) \/ FinalizeDelivery(e)
      PROVE  up' /\ held'[d] > 0
  <2>1. Old /\ faults = 0 /\ UNCHANGED <<up, held>>
    BY <1>0, <1>3 DEF PingSend, FinalizeDelivery, Update, TypeInv, TypeOK
  <2> QED BY <1>1, <2>1
<1>4. ASSUME NEW S \in SUBSET Deliveries, Requeue(S) PROVE up' /\ held'[d] > 0
  <2>1. Old /\ faults = 0 /\ UNCHANGED <<up, held>>
    BY <1>4 DEF Requeue
  <2> QED BY <1>1, <2>1
<1>5. ASSUME RequeueDeliveries \/ (\E e \in Deliveries : RequeueDelivery(e))
      PROVE  up' /\ held'[d] > 0
  BY <1>4, <1>5, BulkRetry DEF RequeueDelivery
<1>6. ASSUME NEW e \in Deliveries, Send(e) PROVE up' /\ held'[d] > 0
  <2>1. Old /\ faults = 0 /\ UNCHANGED <<up, held>>
    BY <1>6 DEF Send
  <2> QED BY <1>1, <2>1
<1>7. ASSUME TickRecover \/ Start PROVE up' /\ held'[d] > 0
  <2>1. Old /\ faults = 0 /\ UNCHANGED held /\ held[d] = 0
    <3>1. pc \in {"idle", "off"}
      BY <1>7 DEF TickRecover, Start, TypeInv, TypeOK, Holding
    <3> QED BY <1>0, <1>7, <3>1 DEF TickRecover, Start, Recovered, TypeInv, Holding
  <2> QED BY <1>1, <2>1
<1>8. ASSUME ClaimDueDeliveries PROVE up' /\ held'[d] > 0
  <2>1. up /\ up' /\ faults = 0 /\ held[d] = 0
    BY <1>0, <1>8 DEF ClaimDueDeliveries, TypeInv, TypeOK, Holding
  <2>2. ~Old
    BY <1>1, <2>1
  <2>3. PICK S \in SUBSET DueRows :
          /\ status' = [e \in Deliveries |-> IF e \in S THEN "in_flight" ELSE status[e]]
          /\ held' = [e \in Deliveries |-> IF e \in S THEN attempt[e] ELSE 0]
    BY <1>0, <1>8 DEF ClaimDueDeliveries
  <2>4. attempt[d] > 0
    BY DEF TypeInv, TypeOK
  <2> QED BY <2>1, <2>2, <2>3, <2>4
<1>9. ASSUME ReleaseClaims PROVE up' /\ held'[d] > 0
  <2>1. faults = 0 /\ cur = None
    BY <1>0, <1>9 DEF ReleaseClaims, TypeInv, TypeOK, Holding
  <2>2. Old /\ d \notin Rest
    BY <1>0, <1>9 DEF ReleaseClaims, TypeInv, TypeOK
  <2>3. held[d] > 0
    BY <1>1, <2>1, <2>2
  <2> QED BY <2>1, <2>2, <2>3 DEF Rest, None, Deliveries
<1>10. ASSUME RecordAttempt PROVE up' /\ held'[d] > 0
  <2>1. faults = 0 /\ cur \in Deliveries /\ pc = "sending" /\ up' = up
        /\ held' = [held EXCEPT ![cur] = 0]
    BY <1>10 DEF RecordAttempt, Recorded, TypeInv, TypeOK, Holding
  <2>2. d # cur
    BY <1>10, <2>1 DEF RecordAttempt, Outcome, Update, TypeInv, TypeOK
  <2>3. Old
    BY <1>10, <2>1, <2>2 DEF RecordAttempt, Outcome, Update, TypeInv, TypeOK
  <2>4. held'[d] = held[d]
    BY <2>1, <2>2 DEF TypeInv, TypeOK
  <2> QED BY <1>1, <2>1, <2>3, <2>4
<1>11. ASSUME RecordAttemptFails \/ JoinTimeout \/ Kill PROVE FALSE
  BY <1>0, <1>11 DEF RecordAttemptFails, JoinTimeout, Kill
<1>12. ASSUME ThreadEnds \/ Joined PROVE FALSE
  <2>1. Old /\ faults = 0 /\ held[d] = 0
    BY <1>12 DEF ThreadEnds, Joined, Exit, TypeInv, Holding
  <2> QED BY <1>1, <2>1
<1>13. ASSUME EmitList \/ Stop \/ Advance \/ UNCHANGED vars PROVE up' /\ held'[d] > 0
  <2>1. UNCHANGED <<status, faults, up, held>>
    BY <1>13 DEF EmitList, Stop, Advance, Lapse, vars
  <2> QED BY <1>1, <2>1
<1> QED
  BY <1>2, <1>3, <1>5, <1>6, <1>7, <1>8, <1>9, <1>10, <1>11, <1>12, <1>13, NextIsStep DEF Step

(* As long as nothing failed, a row is in_flight only while the live worker  *)
(* holds it, whatever the operators retry and whenever stop() comes.         *)
THEOREM ClaimsAreOwned == Spec => []InFlightOwned
<1>1. Init => TypeInv /\ InFlightOwned
  BY InitTypeInv, InitOwned
<1>2. (TypeInv /\ InFlightOwned) /\ [Next]_vars => (TypeInv /\ InFlightOwned)'
  BY TypeStep, OwnedStep
<1> QED
  BY <1>1, <1>2, PTL DEF Spec

-----------------------------------------------------------------------------
(* The worker, the test handlers and the retries never share a row. *)
LEMMA InitExclusive == Init => Exclusive
<1> SUFFICES ASSUME Init, NEW d \in Deliveries PROVE Alone(d)
  BY DEF Exclusive
<1>1. ~owed[d]
  BY Zenon DEF Init
<1>2. ~(held[d] > 0) /\ ping[d] = "no" /\ hookOf[d] = NoHook
  BY DEF Init
<1> QED
  BY <1>1, <1>2 DEF Alone

(* A step that leaves one row and what is said of it alone. *)
LEMMA AloneFrame ==
  ASSUME NEW d \in Deliveries, Alone(d),
         status'[d] = status[d], hookOf'[d] = hookOf[d], held'[d] = held[d] \/ held'[d] = 0,
         ping'[d] = ping[d] \/ ping'[d] = "no", owed'[d] => owed[d],
         Sending(d)' => Sending(d)
  PROVE  Alone(d)'
  BY DEF Alone

LEMMA ExclusiveStep ==
  ASSUME RetriesFailures
  PROVE  TypeInv /\ Exclusive /\ [Next]_vars => Exclusive'
<1> SUFFICES ASSUME TypeInv, Exclusive, [Next]_vars, NEW d \in Deliveries
             PROVE  Alone(d)'
  BY DEF Exclusive
<1>0. Alone(d)
  BY DEF Exclusive
<1>1. ASSUME NEW h \in Hooks, CreateWebhook(h) \/ UpdateWebhook(h) PROVE Alone(d)'
  BY <1>0, <1>1, AloneFrame DEF CreateWebhook, UpdateWebhook, Sending
<1>2. ASSUME NEW h \in Hooks, DeleteWebhook(h) PROVE Alone(d)'
  <2>1. UNCHANGED <<hookOf, held, ping, pc, cur>>
    BY <1>2 DEF DeleteWebhook
  <2>2. CASE hookOf[d] = h
    <3>1. status'[d] = "deleted" /\ ~owed'[d]
      BY <1>2, <2>2 DEF DeleteWebhook
    <3> QED BY <1>0, <2>1, <3>1 DEF Alone
  <2>3. CASE hookOf[d] # h
    <3>1. status'[d] = status[d] /\ owed'[d] = owed[d]
      BY <1>2, <2>3 DEF DeleteWebhook
    <3> QED BY <1>0, <2>1, <3>1, AloneFrame DEF Sending
  <2> QED BY <2>2, <2>3
<1>3. ASSUME NEW h \in Hooks, NEW e \in Deliveries, NEW s \in {"queued", "pending"},
             InsertRow(e, h, s), UNCHANGED <<held, owed, pc, cur>>,
             ping' = IF s = "pending" THEN [ping EXCEPT ![e] = "open"] ELSE ping
      PROVE  Alone(d)'
  <2>1. CASE e = d
    <3>1. status[d] = "none" /\ status'[d] = s /\ hookOf'[d] = h
      BY <1>3, <2>1 DEF InsertRow, NextId, TypeInv, TypeOK
    <3>2. ~(held[d] > 0) /\ ping[d] = "no" /\ ~owed[d]
      BY <1>0, <3>1 DEF Alone
    <3>3. ~(held'[d] > 0) /\ ~owed'[d]
      BY <1>3, <3>2
    <3>4. ping'[d] # "no" => s = "pending"
      BY <1>3, <3>2
    <3>5. s # "none"
      OBVIOUS
    <3> QED BY <3>1, <3>3, <3>4, <3>5 DEF Alone
  <2>2. CASE e # d
    <3>1. status'[d] = status[d] /\ hookOf'[d] = hookOf[d] /\ ping'[d] = ping[d]
      BY <1>3, <2>2 DEF InsertRow, TypeInv, TypeOK
    <3> QED BY <1>0, <1>3, <3>1, AloneFrame DEF Sending
  <2> QED BY <2>1, <2>2
<1>4. ASSUME NEW h \in Hooks, EnqueueDelivery(h) PROVE Alone(d)'
  <2>1. CASE \E e \in Deliveries : InsertRow(e, h, "queued")
    <3>1. UNCHANGED <<held, owed, pc, cur, ping>>
      BY <1>4 DEF EnqueueDelivery
    <3> QED BY <1>3, <2>1, <3>1
  <2>2. CASE UNCHANGED rowVars
    BY <1>0, <1>4, <2>2, AloneFrame DEF EnqueueDelivery, Sending
  <2> QED BY <1>4, <2>1, <2>2 DEF EnqueueDelivery
<1>5. ASSUME NEW h \in Hooks, CreatePendingDelivery(h) PROVE Alone(d)'
  <2>1. PICK e \in Deliveries : InsertRow(e, h, "pending") /\ ping' = [ping EXCEPT ![e] = "open"]
    BY <1>5 DEF CreatePendingDelivery
  <2>2. UNCHANGED <<held, owed, pc, cur>>
    BY <1>5 DEF CreatePendingDelivery
  <2> QED BY <1>3, <2>1, <2>2
<1>6. ASSUME NEW e \in Deliveries, PingSend(e) PROVE Alone(d)'
  <2>1. UNCHANGED <<status, hookOf, held, owed, pc, cur>>
    BY <1>6 DEF PingSend
  <2>2. ping'[d] = ping[d] \/ ping[d] # "no"
    BY <1>6 DEF PingSend, TypeInv, TypeOK
  <2> QED BY <1>0, <2>1, <2>2 DEF Alone, Sending
<1>7. ASSUME NEW e \in Deliveries, FinalizeDelivery(e) PROVE Alone(d)'
  <2>1. UNCHANGED <<hookOf, held, owed, pc, cur>>
    BY <1>7 DEF FinalizeDelivery
  <2>2. CASE e = d
    <3>1. ping[d] # "no" /\ ping'[d] = "no"
      BY <1>7, <2>2 DEF FinalizeDelivery, TypeInv, TypeOK
    <3>2. status[d] \in {"pending", "deleted"} /\ ~(held[d] > 0)
      BY <1>0, <3>1 DEF Alone
    <3>3. status'[d] # "none"
      BY <1>7, <2>2, <3>2 DEF FinalizeDelivery, Update, TypeInv, TypeOK
    <3>4. ~owed[d]
      BY <1>0, <3>2 DEF Alone
    <3> QED BY <2>1, <3>1, <3>2, <3>3, <3>4 DEF Alone
  <2>3. CASE e # d
    <3>1. status'[d] = status[d] /\ ping'[d] = ping[d]
      BY <1>7, <2>3 DEF FinalizeDelivery, Update, TypeInv, TypeOK
    <3> QED BY <1>0, <2>1, <3>1, AloneFrame DEF Sending
  <2> QED BY <2>2, <2>3
<1>8. ASSUME NEW S \in SUBSET Deliveries, Requeue(S),
             \A e \in S : status[e] \in {"failure", "dead"}
      PROVE  Alone(d)'
  <2>1. UNCHANGED <<hookOf, held, ping, pc, cur>>
    BY <1>8 DEF Requeue
  <2>2. CASE d \in S
    <3>1. ~(held[d] > 0) /\ ping[d] = "no" /\ status'[d] = "queued"
      BY <1>0, <1>8, <2>2 DEF Alone, Requeue
    <3>2. ~Sending(d)'
      BY <2>1, <3>1 DEF Sending, TypeInv, Holding
    <3> QED BY <2>1, <3>1, <3>2 DEF Alone
  <2>3. CASE d \notin S
    <3>1. status'[d] = status[d]
      BY <1>8, <2>3 DEF Requeue
    <3>2. owed'[d] => owed[d]
      BY <1>8, <2>3, Zenon DEF Requeue
    <3> QED BY <1>0, <2>1, <3>1, <3>2, AloneFrame DEF Sending
  <2> QED BY <2>2, <2>3
<1>9. ASSUME RequeueDeliveries PROVE Alone(d)'
  BY <1>8, <1>9, BulkRetry DEF RETRYABLE_TERMINAL_STATUSES
<1>10. ASSUME NEW e \in Deliveries, RequeueDelivery(e) PROVE Alone(d)'
  BY <1>8, <1>10 DEF RequeueDelivery, RetriesFailures
<1>11. ASSUME TickRecover \/ Start PROVE Alone(d)'
  <2>1. UNCHANGED <<hookOf, held, ping, owed>> /\ held[d] = 0 /\ ~Sending(d)'
    <3>1. pc \in {"idle", "off"} /\ pc' # "sending"
      BY <1>11 DEF TickRecover, Start, TypeInv, TypeOK, Holding
    <3> QED BY <1>11, <3>1 DEF TickRecover, Start, TypeInv, Holding, Sending
  <2>2. status'[d] = status[d] \/ (status[d] = "in_flight" /\ status'[d] = "queued")
    BY <1>11 DEF TickRecover, Start, Recovered, InFlight
  <2> QED BY <1>0, <2>1, <2>2 DEF Alone
<1>12. ASSUME ClaimDueDeliveries PROVE Alone(d)'
  <2>1. UNCHANGED <<hookOf, ping, owed>> /\ ~Sending(d)'
    BY <1>12 DEF ClaimDueDeliveries, Sending
  <2>2. \/ status'[d] = status[d] /\ (held'[d] = held[d] \/ held'[d] = 0)
        \/ status[d] \in Waiting /\ status'[d] = "in_flight"
    BY <1>12 DEF ClaimDueDeliveries, DueRows
  <2>3. status[d] \in Waiting => ping[d] = "no"
    BY <1>0 DEF Alone, Waiting
  <2> QED BY <1>0, <2>1, <2>2, <2>3 DEF Alone, Waiting
<1>13. ASSUME ReleaseClaims PROVE Alone(d)'
  <2>1. UNCHANGED <<hookOf, ping, owed>> /\ ~Sending(d)' /\ held'[d] = 0
    BY <1>13 DEF ReleaseClaims, Sending
  <2>2. status'[d] = status[d] \/ (status[d] = "in_flight" /\ status'[d] = "queued")
    BY <1>13 DEF ReleaseClaims
  <2> QED BY <1>0, <2>1, <2>2 DEF Alone
<1>14. ASSUME NEW e \in Deliveries, Send(e) PROVE Alone(d)'
  <2>1. UNCHANGED <<status, hookOf, held, ping>> /\ owed' = [owed EXCEPT ![e] = FALSE]
        /\ cur' = e
    BY <1>14 DEF Send
  <2>2. owed'[d] => owed[d] /\ e # d
    BY <2>1, Zenon DEF TypeInv, TypeOK
  <2>3. owed'[d] => ~Sending(d)'
    BY <2>1, <2>2 DEF Sending
  <2> QED BY <1>0, <2>1, <2>2, <2>3 DEF Alone
<1>15. ASSUME RecordAttempt PROVE Alone(d)'
  <2>1. /\ UNCHANGED <<hookOf, ping, owed>> /\ ~Sending(d)' /\ pc = "sending"
        /\ cur \in Deliveries /\ held' = [held EXCEPT ![cur] = 0]
    BY <1>15 DEF RecordAttempt, Recorded, Sending, TypeInv, TypeOK, Holding
  <2>2. CASE d = cur
    <3>1. held'[d] = 0 /\ held[d] > 0 /\ Sending(d)
      BY <2>1, <2>2 DEF TypeInv, TypeOK, Holding, Sending
    <3>2. ping[d] = "no" /\ ~owed[d] /\ status[d] # "none"
      BY <1>0, <3>1 DEF Alone
    <3>3. status'[d] # "none"
      BY <1>15, <2>1, <2>2, <3>2 DEF RecordAttempt, Outcome, Update, TypeInv, TypeOK
    <3> QED BY <2>1, <3>1, <3>2, <3>3 DEF Alone
  <2>3. CASE d # cur
    <3>1. status'[d] = status[d] /\ held'[d] = held[d]
      BY <1>15, <2>1, <2>3 DEF RecordAttempt, Outcome, Update, TypeInv, TypeOK
    <3> QED BY <1>0, <2>1, <3>1, AloneFrame
  <2> QED BY <2>2, <2>3
<1>16. ASSUME RecordAttemptFails \/ Exit \/ ThreadEnds PROVE Alone(d)'
  <2>1. /\ UNCHANGED <<status, hookOf, owed>> /\ pc' # "sending"
        /\ held'[d] = held[d] \/ held'[d] = 0
        /\ ping'[d] = ping[d] \/ ping'[d] = "no"
    BY <1>16 DEF RecordAttemptFails, Exit, ThreadEnds, DropBatch
  <2> QED BY <1>0, <2>1, AloneFrame DEF Sending
<1>17. ASSUME Joined \/ JoinTimeout \/ Kill PROVE Alone(d)'
  BY <1>16, <1>17 DEF Joined, JoinTimeout, Kill
<1>18. ASSUME EmitList \/ Stop \/ Advance \/ UNCHANGED vars PROVE Alone(d)'
  <2>1. UNCHANGED <<status, hookOf, held, ping, owed, pc, cur>>
    BY <1>18 DEF EmitList, Stop, Advance, Lapse, vars
  <2> QED BY <1>0, <2>1, AloneFrame DEF Sending
<1> QED
  BY <1>1, <1>2, <1>4, <1>5, <1>6, <1>7, <1>9, <1>10, <1>11, <1>12, <1>13, <1>14, <1>15,
     <1>16, <1>17, <1>18, NextIsStep DEF Step

(* When operators retry only deliveries that failed, a retry always leads to *)
(* a new dispatch: no worker that still held the row, no lease and no crash  *)
(* makes the row final before it was sent again.                            *)
THEOREM RetriesAreDispatched ==
  ASSUME RetriesFailures PROVE Spec => []RetryDispatched
<1>1. Init => TypeInv /\ Exclusive
  BY InitTypeInv, InitExclusive
<1>2. (TypeInv /\ Exclusive) /\ [Next]_vars => (TypeInv /\ Exclusive)'
  BY TypeStep, ExclusiveStep
<1>3. Exclusive => RetryDispatched
  BY DEF Exclusive, Alone, RetryDispatched
<1> QED
  BY <1>1, <1>2, <1>3, PTL DEF Spec

(* Under the same condition the worker and a test handler never have the     *)
(* same row on the wire.                                                    *)
THEOREM NoSharedDispatch ==
  ASSUME RetriesFailures PROVE Spec => []OneSender
<1>1. Init => TypeInv /\ Exclusive
  BY InitTypeInv, InitExclusive
<1>2. (TypeInv /\ Exclusive) /\ [Next]_vars => (TypeInv /\ Exclusive)'
  BY TypeStep, ExclusiveStep
<1>3. TypeInv /\ Exclusive => OneSender
  <2> SUFFICES ASSUME TypeInv, Exclusive, NEW d \in Deliveries, pc = "sending", cur = d
               PROVE  ping[d] # "open"
    BY DEF OneSender
  <2> QED BY DEF Exclusive, Alone, TypeInv, Holding
<1> QED
  BY <1>1, <1>2, <1>3, PTL DEF Spec

-----------------------------------------------------------------------------
(* The queue implements DeliveryPromise. *)
LEMMA ClassValues ==
  /\ Class("none") = "none" /\ Class("deleted") = "gone" /\ Class("success") = "delivered"
  /\ \A s \in {"pending", "queued", "in_flight", "retrying"} : Class(s) = "open"
  /\ \A s \in {"failure", "dead"} : Class(s) = "failed"
  BY DEF Class

LEMMA InitPromise == Init => Promise!Init
<1> SUFFICES ASSUME Init PROVE Promise!Init
  OBVIOUS
<1>1. Phase = [d \in Deliveries |-> "none"]
  BY ClassValues DEF Init, Phase
<1>2. received = [d \in Deliveries |-> FALSE]
  BY DEF Init
<1> QED BY <1>1, <1>2 DEF Promise!Init

Stutter == UNCHANGED <<Phase, received>>

(* A row that changes its status inside its phase. *)
LEMMA SamePhase ==
  ASSUME UNCHANGED received, \A d \in Deliveries : Class(status'[d]) = Class(status[d])
  PROVE  Stutter
  BY DEF Phase, Stutter

(* A receiver that acts on a request for an open or deleted row. *)
LEMMA Acceptance ==
  ASSUME TypeInv, NEW e \in Deliveries, NEW got \in BOOLEAN, UNCHANGED status,
         received' = [received EXCEPT ![e] = @ \/ got],
         status[e] \in {"pending", "in_flight", "deleted"}
  PROVE  Stutter \/ Promise!Next
<1>1. UNCHANGED Phase
  BY DEF Phase
<1>2. CASE got = TRUE
  <2>1. (received[e] \/ got) = TRUE
    BY <1>2
  <2>2. received' = [received EXCEPT ![e] = TRUE]
    BY <2>1
  <2>3. Phase[e] \in {"open", "gone"}
    BY ClassValues DEF Phase
  <2>4. Promise!Attempt(e)
    BY <1>1, <2>2, <2>3 DEF Promise!Attempt
  <2> QED BY <2>4 DEF Promise!Next
<1>3. CASE got = FALSE
  <2>1. received[e] \in BOOLEAN /\ received = [d \in Deliveries |-> received[d]]
    BY Zenon DEF TypeInv, TypeOK
  <2>2. (received[e] \/ got) = received[e]
    BY <1>3, <2>1
  <2>3. received' = [received EXCEPT ![e] = received[e]]
    BY <2>2
  <2>4. received' = received
    BY <2>1, <2>3
  <2> QED BY <1>1, <2>4 DEF Stutter
<1> QED BY <1>2, <1>3

(* A row of a live delivery that becomes final. *)
LEMMA Settlement ==
  ASSUME TypeInv, NEW e \in Deliveries, UNCHANGED received,
         status[e] \in {"pending", "in_flight"},
         NEW s \in {"success", "failure", "dead"}, status' = [status EXCEPT ![e] = s],
         s = "success" => received[e]
  PROVE  Promise!Next
<1>1. Phase' = [Phase EXCEPT ![e] = Class(s)]
  BY DEF Phase, TypeInv, TypeOK
<1>2. Phase[e] = "open"
  BY ClassValues DEF Phase
<1>3. Promise!Settle(e)
  <2>1. CASE s = "success"
    BY <1>1, <1>2, <2>1, ClassValues DEF Promise!Settle
  <2>2. CASE s # "success"
    BY <1>1, <1>2, <2>2, ClassValues DEF Promise!Settle
  <2> QED BY <2>1, <2>2
<1> QED BY <1>3 DEF Promise!Next

LEMMA PromiseStep ==
  ASSUME RetriesFailures
  PROVE  TypeInv /\ Exclusive /\ Honest /\ [Next]_vars => [Promise!Next]_<<Phase, received>>
<1> SUFFICES ASSUME TypeInv, Exclusive, Honest, [Next]_vars
             PROVE  Stutter \/ Promise!Next
  BY DEF Stutter
<1>1. ASSUME NEW h \in Hooks, CreateWebhook(h) \/ UpdateWebhook(h) PROVE Stutter
  BY <1>1, SamePhase DEF CreateWebhook, UpdateWebhook
<1>2. ASSUME NEW h \in Hooks, DeleteWebhook(h) PROVE Promise!Next
  <2> DEFINE S == {d \in Deliveries : hookOf[d] = h}
  <2>1. \A d \in S : status[d] # "none"
    BY QueueAssumption DEF Exclusive, Alone
  <2>2. \A d \in S : Phase[d] # "none"
    BY <2>1 DEF Phase, Class
  <2>3. Phase' = [d \in Deliveries |-> IF d \in S THEN "gone" ELSE Phase[d]]
    BY <1>2, ClassValues DEF DeleteWebhook, Phase
  <2>4. UNCHANGED received
    BY <1>2 DEF DeleteWebhook
  <2>5. Promise!Forget(S)
    BY <2>2, <2>3, <2>4 DEF Promise!Forget, Promise!Move
  <2> QED BY <2>5 DEF Promise!Next
<1>3. ASSUME NEW h \in Hooks, NEW e \in Deliveries, NEW s \in {"queued", "pending"},
             InsertRow(e, h, s), UNCHANGED received
      PROVE  Promise!Next
  <2>1. Phase' = [Phase EXCEPT ![e] = Class(s)] /\ Phase[e] = "none" /\ Class(s) = "open"
    BY <1>3, ClassValues DEF InsertRow, NextId, Phase, TypeInv, TypeOK
  <2>2. Promise!Submit(e)
    BY <1>3, <2>1 DEF Promise!Submit
  <2> QED BY <2>2 DEF Promise!Next
<1>4. ASSUME NEW h \in Hooks, EnqueueDelivery(h) PROVE Stutter \/ Promise!Next
  <2>1. UNCHANGED received
    BY <1>4 DEF EnqueueDelivery
  <2>2. CASE UNCHANGED rowVars
    BY <2>1, <2>2, SamePhase
  <2> QED BY <1>3, <1>4, <2>1, <2>2 DEF EnqueueDelivery
<1>5. ASSUME NEW h \in Hooks, CreatePendingDelivery(h) PROVE Promise!Next
  BY <1>3, <1>5 DEF CreatePendingDelivery
<1>6. ASSUME NEW e \in Deliveries, PingSend(e) PROVE Stutter \/ Promise!Next
  <2>1. status[e] \in {"pending", "deleted"}
    BY <1>6 DEF PingSend, Exclusive, Alone
  <2>2. UNCHANGED status /\ \E got \in BOOLEAN : received' = [received EXCEPT ![e] = @ \/ got]
    BY <1>6 DEF PingSend
  <2> QED BY <2>1, <2>2, Acceptance
<1>7. ASSUME NEW e \in Deliveries, FinalizeDelivery(e) PROVE Stutter \/ Promise!Next
  <2>1. status[e] \in {"pending", "deleted"} /\ ping[e] \in {"success", "failure"}
    BY <1>7 DEF FinalizeDelivery, Exclusive, Alone
  <2>2. UNCHANGED received
    BY <1>7 DEF FinalizeDelivery
  <2>3. ping[e] = "success" => received[e]
    BY DEF Honest, Truthful
  <2>4. CASE UNCHANGED status
    BY <2>2, <2>4, SamePhase
  <2>5. CASE status[e] = "pending" /\ status' = [status EXCEPT ![e] = ping[e]]
    BY <2>1, <2>2, <2>3, <2>5, Settlement
  <2> QED BY <1>7, <2>1, <2>4, <2>5 DEF FinalizeDelivery, Update
<1>8. ASSUME NEW S \in SUBSET Deliveries, Requeue(S),
             \A e \in S : status[e] \in {"failure", "dead"}
      PROVE  Promise!Next
  <2>1. Phase' = [d \in Deliveries |-> IF d \in S THEN "open" ELSE Phase[d]]
    BY <1>8, ClassValues DEF Requeue, Phase
  <2>2. \A d \in S : Phase[d] = "failed"
    BY <1>8, ClassValues DEF Phase
  <2>3. Promise!Reopen(S)
    BY <1>8, <2>1, <2>2 DEF Requeue, Promise!Reopen, Promise!Move
  <2> QED BY <2>3 DEF Promise!Next
<1>9. ASSUME RequeueDeliveries PROVE Promise!Next
  BY <1>8, <1>9, BulkRetry DEF RETRYABLE_TERMINAL_STATUSES
<1>10. ASSUME NEW e \in Deliveries, RequeueDelivery(e) PROVE Promise!Next
  BY <1>8, <1>10 DEF RequeueDelivery, RetriesFailures
<1>11. ASSUME TickRecover \/ Start \/ ClaimDueDeliveries \/ ReleaseClaims PROVE Stutter
  <2>1. UNCHANGED received
    BY <1>11 DEF TickRecover, Start, ClaimDueDeliveries, ReleaseClaims
  <2>2. ASSUME NEW d \in Deliveries
        PROVE  \/ status'[d] = status[d]
               \/ {status[d], status'[d]} \subseteq {"queued", "retrying", "in_flight"}
    BY <1>11 DEF TickRecover, Start, Recovered, InFlight, ClaimDueDeliveries, DueRows,
                 Waiting, ReleaseClaims
  <2>3. \A d \in Deliveries : Class(status'[d]) = Class(status[d])
    BY <2>2, ClassValues
  <2> QED BY <2>1, <2>3, SamePhase
<1>12. ASSUME NEW e \in Deliveries, Send(e) PROVE Stutter \/ Promise!Next
  <2>1. status[e] \in {"in_flight", "deleted"}
    BY <1>12 DEF Send, Rest, Exclusive, Alone
  <2>2. UNCHANGED status /\ \E got \in BOOLEAN : received' = [received EXCEPT ![e] = @ \/ got]
    BY <1>12 DEF Send
  <2> QED BY <2>1, <2>2, Acceptance
<1>13. ASSUME RecordAttempt PROVE Stutter \/ Promise!Next
  <2>1. cur \in Deliveries /\ held[cur] > 0 /\ UNCHANGED received /\ pc = "sending"
    BY <1>13 DEF RecordAttempt, Recorded, TypeInv, TypeOK, Holding
  <2>2. status[cur] \in {"in_flight", "deleted"}
    BY <2>1 DEF Exclusive, Alone
  <2>3. CASE status[cur] = "deleted"
    <3>1. UNCHANGED status
      BY <1>13, <2>3 DEF RecordAttempt, Outcome, Update
    <3> QED BY <2>1, <3>1, SamePhase
  <2>4. CASE status[cur] = "in_flight"
    <3>1. PICK s \in {"success", "failure", "dead", "retrying"} :
            status' = [status EXCEPT ![cur] = s] /\ (s = "success" => reply = "ok")
      BY <1>13, <2>4 DEF RecordAttempt, Outcome, Update
    <3>2. CASE s = "retrying"
      <4>1. \A d \in Deliveries : Class(status'[d]) = Class(status[d])
        BY <2>1, <2>4, <3>1, <3>2, ClassValues DEF TypeInv, TypeOK
      <4> QED BY <2>1, <4>1, SamePhase
    <3>3. CASE s # "retrying"
      <4>1. s = "success" => received[cur]
        BY <2>1, <3>1 DEF Honest, Truthful
      <4> QED BY <2>1, <2>4, <3>1, <3>3, <4>1, Settlement
    <3> QED BY <3>2, <3>3
  <2> QED BY <2>2, <2>3, <2>4
<1>14. ASSUME RecordAttemptFails \/ Exit \/ ThreadEnds PROVE Stutter
  BY <1>14, SamePhase DEF RecordAttemptFails, Exit, ThreadEnds
<1>15. ASSUME Joined \/ JoinTimeout \/ Kill PROVE Stutter
  BY <1>14, <1>15 DEF Joined, JoinTimeout, Kill
<1>16. ASSUME EmitList \/ Stop \/ Advance \/ UNCHANGED vars PROVE Stutter
  BY <1>16, SamePhase DEF EmitList, Stop, Advance, Lapse, vars
<1> QED
  BY <1>1, <1>2, <1>4, <1>5, <1>6, <1>7, <1>9, <1>10, <1>11, <1>12, <1>13, <1>14, <1>15,
     <1>16, NextIsStep DEF Step

(* Seen through its rows, the queue is a DeliveryPromise for every number of *)
(* rows and webhooks, every schedule and every fault, as long as operators   *)
(* retry only deliveries that failed.                                       *)
THEOREM QueueKeepsPromise ==
  ASSUME RetriesFailures PROVE Spec => KeepsPromise
<1>1. Init => TypeInv /\ Exclusive /\ Honest /\ Promise!Init
  BY InitTypeInv, InitExclusive, InitHonest, InitPromise
<1>2. (TypeInv /\ Exclusive /\ Honest) /\ [Next]_vars => (TypeInv /\ Exclusive /\ Honest)'
  BY TypeStep, ExclusiveStep, HonestStep
<1>3. (TypeInv /\ Exclusive /\ Honest) /\ [Next]_vars => [Promise!Next]_<<Phase, received>>
  BY PromiseStep
<1> QED
  BY <1>1, <1>2, <1>3, PTL DEF Spec, KeepsPromise, Promise!Spec

-----------------------------------------------------------------------------
(* The age of a claim.  A claimed row waits for the rows before it, each of  *)
(* which takes a send: its age is covered by the rows of the batch that are *)
(* done and by the send that is going on.                                  *)
InTime ==
  /\ pc # "sending" => busy = 0
  /\ Cardinality(Claimed) <= Batch
  /\ ClaimsKeepPace

LEMMA ClaimedFinite ==
  IsFiniteSet(Claimed) /\ Cardinality(Claimed) \in Nat
<1>1. IsFiniteSet(Deliveries)
  BY QueueAssumption, FS_Interval DEF Deliveries
<1>2. Claimed \in SUBSET Deliveries
  BY DEF Claimed
<1> QED BY <1>1, <1>2, FS_Subset, FS_CardinalityType

\* one row fewer to come is one send more that may have passed
LEMMA OneSendMore ==
  ASSUME NEW n \in Nat, n >= 1
  PROVE  SendMax * (Batch - (n - 1)) = SendMax * (Batch - n) + SendMax
<1>1. SendMax \in Int /\ Batch - n \in Int /\ Batch - (n - 1) = (Batch - n) + 1
  BY QueueAssumption
<1>2. ASSUME NEW i \in Int PROVE SendMax * (i + 1) = SendMax * i + SendMax
  BY <1>1
<1> QED BY <1>1, <1>2

LEMMA NobodyClaimed ==
  ASSUME \A d \in Deliveries : held'[d] = 0, busy' = 0
  PROVE  InTime'
<1>1. Claimed' = {}
  BY DEF Claimed
<1>2. Cardinality(Claimed') = 0
  BY <1>1, FS_EmptySet
<1> QED BY <1>1, <1>2, QueueAssumption DEF InTime, ClaimsKeepPace

(* Steps of others, which at most make a row younger. *)
LEMMA YoungerFrame ==
  ASSUME InTime, TypeInv, UNCHANGED <<pc, held, busy>>,
         \A d \in Deliveries : age'[d] = age[d] \/ age'[d] = 0
  PROVE  InTime'
<1>1. Claimed' = Claimed
  BY DEF Claimed
<1>2. ASSUME NEW d \in Claimed
      PROVE  age'[d] <= SendMax * (Batch - Cardinality(Claimed)) + busy
  <2>1. age[d] \in Nat /\ age[d] <= SendMax * (Batch - Cardinality(Claimed)) + busy
    BY QueueAssumption DEF InTime, ClaimsKeepPace, Claimed, TypeInv, TypeOK
  <2>2. SendMax * (Batch - Cardinality(Claimed)) + busy \in Int
    BY QueueAssumption, ClaimedFinite DEF TypeInv, TypeOK
  <2>3. age'[d] = age[d] \/ age'[d] = 0
    BY DEF Claimed
  <2> QED BY <2>1, <2>2, <2>3
<1> QED BY <1>1, <1>2 DEF InTime, ClaimsKeepPace

LEMMA InitInTime == Init => InTime
<1> SUFFICES ASSUME Init PROVE InTime
  OBVIOUS
<1>1. Claimed = {}
  BY DEF Init, Claimed
<1>2. Cardinality(Claimed) = 0
  BY <1>1, FS_EmptySet
<1> QED BY <1>1, <1>2, QueueAssumption DEF Init, InTime, ClaimsKeepPace

LEMMA ClaimInTime ==
  ASSUME TypeInv, InTime, ClaimDueDeliveries
  PROVE  InTime'
<1>1. pc = "claiming" /\ \A d \in Deliveries : held[d] = 0
  BY DEF ClaimDueDeliveries, TypeInv, Holding
<1>2. busy = 0 /\ busy' = 0
  BY <1>1 DEF ClaimDueDeliveries, InTime
<1>3. CASE Fault /\ UNCHANGED <<status, age, held>> /\ pc' = "idle"
  BY <1>1, <1>2, <1>3, NobodyClaimed
<1>4. ASSUME NEW S \in SUBSET DueRows, OldestDue(S),
             age' = [d \in Deliveries |-> IF d \in S THEN 0 ELSE age[d]],
             held' = [d \in Deliveries |-> IF d \in S THEN attempt[d] ELSE 0]
      PROVE  InTime'
  <2>1. S \in SUBSET Deliveries /\ Claimed' = S
    <3>1. \A d \in Deliveries : attempt[d] > 0
      BY QueueAssumption DEF TypeInv, TypeOK
    <3> QED BY <1>4, <3>1 DEF Claimed, DueRows
  <2>2. IsFiniteSet(Deliveries)
    BY QueueAssumption, FS_Interval DEF Deliveries
  <2>3. Cardinality(S) \in Nat /\ Cardinality(S) <= Batch
    <3>1. Cardinality(S) \in Nat
      BY <2>1, <2>2, FS_Subset, FS_CardinalityType
    <3> QED BY <1>4, <3>1, QueueAssumption DEF OldestDue
  <2>4. 0 <= SendMax * (Batch - Cardinality(S))
    <3>1. Batch - Cardinality(S) \in Nat /\ SendMax \in Nat
      BY <2>3, QueueAssumption
    <3>2. \A m, n \in Nat : 0 <= m * n
      OBVIOUS
    <3> QED BY <3>1, <3>2
  <2>5. \A d \in S : age'[d] = 0
    BY <1>4, <2>1
  <2>6. Cardinality(Claimed') = Cardinality(S)
    BY <2>1
  <2> QED BY <1>2, <2>1, <2>3, <2>4, <2>5, <2>6, QueueAssumption DEF InTime, ClaimsKeepPace
<1> QED BY <1>3, <1>4 DEF ClaimDueDeliveries

LEMMA RecordInTime ==
  ASSUME TypeInv, InTime, RecordAttempt
  PROVE  InTime'
<1> DEFINE n == Cardinality(Claimed)
<1>1. /\ held' = [held EXCEPT ![cur] = 0] /\ busy' = 0 /\ pc = "sending"
      /\ age' = [age EXCEPT ![cur] = 0] /\ cur \in Deliveries /\ held[cur] > 0
  BY DEF RecordAttempt, Recorded, Outcome, TypeInv, TypeOK, Holding
<1>2. Claimed' = Claimed \ {cur} /\ cur \in Claimed
  BY <1>1 DEF Claimed, TypeInv, TypeOK
<1>3. Cardinality(Claimed') = n - 1 /\ n \in Nat /\ n >= 1
  <2>1. Cardinality(Claimed \ {cur}) = n - 1
    BY <1>2, ClaimedFinite, FS_RemoveElement
  <2>2. n # 0
    BY <1>2, ClaimedFinite, FS_EmptySet
  <2> QED BY <1>2, <2>1, <2>2, ClaimedFinite
<1>4. SendMax * (Batch - (n - 1)) = SendMax * (Batch - n) + SendMax
  BY <1>3, OneSendMore
<1>5. ASSUME NEW d \in Claimed' PROVE age'[d] <= SendMax * (Batch - (n - 1))
  <2>1. age'[d] = age[d] /\ d \in Claimed
    BY <1>1, <1>2, <1>5 DEF TypeInv, TypeOK, Claimed
  <2>2. age[d] <= SendMax * (Batch - n) + busy
    BY <2>1 DEF InTime, ClaimsKeepPace
  <2>3. /\ busy \in Int /\ busy <= SendMax /\ age[d] \in Int
        /\ SendMax * (Batch - n) \in Int /\ SendMax \in Int
    BY <1>3, <2>1, QueueAssumption DEF TypeInv, TypeOK, Claimed
  <2> HIDE DEF n
  <2> QED BY <1>4, <2>1, <2>2, <2>3
<1>6. Cardinality(Claimed') <= Batch
  BY <1>3, QueueAssumption DEF InTime, ClaimsKeepPace
<1>7. SendMax * (Batch - (n - 1)) \in Int
  BY <1>3, QueueAssumption
<1> HIDE DEF n
<1> QED BY <1>1, <1>3, <1>5, <1>6, <1>7 DEF InTime, ClaimsKeepPace

LEMMA AdvanceInTime ==
  ASSUME TypeInv, InTime, Advance
  PROVE  InTime'
<1>1. /\ UNCHANGED <<pc, held>>
      /\ busy' = IF pc = "sending" THEN busy + 1 ELSE busy
      /\ age' = [d \in Deliveries |->
                   IF status[d] = "in_flight" /\ age[d] < Lease THEN age[d] + 1 ELSE age[d]]
      /\ pc \in {"off", "idle", "sending"}
  BY DEF Advance, Lapse
<1>2. CASE pc # "sending"
  BY <1>1, <1>2, NobodyClaimed DEF InTime, ClaimsKeepPace, TypeInv, Holding
<1>3. CASE pc = "sending"
  <2>1. Claimed' = Claimed
    BY <1>1 DEF Claimed
  <2>2. ASSUME NEW d \in Claimed
        PROVE  age'[d] <= SendMax * (Batch - Cardinality(Claimed)) + busy'
    <3>1. age[d] \in Int /\ busy \in Int /\ SendMax * (Batch - Cardinality(Claimed)) \in Int
      BY ClaimedFinite, QueueAssumption DEF TypeInv, TypeOK, Claimed
    <3>2. age[d] <= SendMax * (Batch - Cardinality(Claimed)) + busy
      BY DEF InTime, ClaimsKeepPace
    <3>3. age'[d] = age[d] \/ age'[d] = age[d] + 1
      BY <1>1 DEF Claimed
    <3> QED BY <1>1, <1>3, <3>1, <3>2, <3>3
  <2> QED BY <1>1, <1>3, <2>1, <2>2 DEF InTime, ClaimsKeepPace
<1> QED BY <1>2, <1>3

LEMMA InTimeStep == TypeInv /\ InTime /\ [Next]_vars => InTime'
<1> SUFFICES ASSUME TypeInv, InTime, [Next]_vars PROVE InTime'
  OBVIOUS
<1>1. ASSUME NEW h \in Hooks,
             CreateWebhook(h) \/ UpdateWebhook(h) \/ DeleteWebhook(h) \/ EnqueueDelivery(h)
             \/ CreatePendingDelivery(h)
      PROVE  InTime'
  <2>1. /\ UNCHANGED <<pc, held, busy>>
        /\ \A d \in Deliveries : age'[d] = age[d] \/ age'[d] = 0
    BY <1>1 DEF CreateWebhook, UpdateWebhook, DeleteWebhook, EnqueueDelivery,
                CreatePendingDelivery, InsertRow
  <2> QED BY <2>1, YoungerFrame
<1>2. ASSUME NEW d \in Deliveries, PingSend(d) \/ FinalizeDelivery(d) PROVE InTime'
  <2>1. /\ UNCHANGED <<pc, held, busy>>
        /\ \A e \in Deliveries : age'[e] = age[e] \/ age'[e] = 0
    BY <1>2 DEF PingSend, FinalizeDelivery, TypeInv, TypeOK
  <2> QED BY <2>1, YoungerFrame
<1>3. ASSUME NEW S \in SUBSET Deliveries, Requeue(S) PROVE InTime'
  <2>1. /\ UNCHANGED <<pc, held, busy>>
        /\ \A e \in Deliveries : age'[e] = age[e] \/ age'[e] = 0
    BY <1>3 DEF Requeue
  <2> QED BY <2>1, YoungerFrame
<1>4. ASSUME RequeueDeliveries \/ (\E d \in Deliveries : RequeueDelivery(d)) PROVE InTime'
  BY <1>3, <1>4, BulkRetry DEF RequeueDelivery
<1>5. ASSUME NEW d \in Deliveries, Send(d) PROVE InTime'
  BY <1>5 DEF Send, InTime, ClaimsKeepPace, Claimed
<1>6. ASSUME EmitList \/ Stop \/ UNCHANGED vars PROVE InTime'
  <2>1. UNCHANGED <<pc, held, busy, age>>
    BY <1>6 DEF EmitList, Stop, vars
  <2> QED BY <2>1, YoungerFrame
<1>7. ASSUME TickRecover \/ ThreadEnds \/ Start PROVE InTime'
  <2>1. pc \in {"idle", "off"} /\ UNCHANGED <<held, busy>>
    BY <1>7 DEF TickRecover, ThreadEnds, Start, TypeInv, TypeOK, Holding
  <2> QED BY <2>1, NobodyClaimed DEF InTime, ClaimsKeepPace, TypeInv, Holding
<1>8. CASE ClaimDueDeliveries
  BY <1>8, ClaimInTime
<1>9. ASSUME ReleaseClaims \/ RecordAttemptFails \/ Joined \/ JoinTimeout \/ Kill
      PROVE  InTime'
  <2>1. (\A d \in Deliveries : held'[d] = 0) /\ busy' = 0
    BY <1>9 DEF ReleaseClaims, RecordAttemptFails, Joined, JoinTimeout, Kill, Exit,
                DropBatch, InTime
  <2> QED BY <2>1, NobodyClaimed
<1>10. CASE RecordAttempt
  BY <1>10, RecordInTime
<1>11. CASE Advance
  BY <1>11, AdvanceInTime
<1> QED
  BY <1>1, <1>2, <1>4, <1>5, <1>6, <1>7, <1>8, <1>9, <1>10, <1>11, NextIsStep DEF Step

(* A claim in the hands of the live worker is no older than the sends of its *)
(* batch account for, for any batch size, send time, lease and rows, and     *)
(* whatever kills, retries, deletions and recoveries come in between.  So    *)
(* Batch * SendMax < Lease is what makes a claim older than the lease an     *)
(* orphan; nothing in the code sees to it.                                  *)
THEOREM ClaimsAreInTime == Spec => []ClaimsKeepPace
<1>1. Init => TypeInv /\ InTime
  BY InitTypeInv, InitInTime
<1>2. (TypeInv /\ InTime) /\ [Next]_vars => (TypeInv /\ InTime)'
  BY TypeStep, InTimeStep
<1>3. InTime => ClaimsKeepPace
  BY DEF InTime
<1> QED
  BY <1>1, <1>2, <1>3, PTL DEF Spec
=============================================================================
