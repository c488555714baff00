---------------------------- MODULE WebhookQueue ----------------------------
(***************************************************************************)
(* The asynchronous webhook queue of api/notifications: the                *)
(* webhook_deliveries table, the single worker thread that drains it       *)
(* (worker.py), the REST handlers that write to the same rows from other   *)
(* threads (routers/notifications.py), the emitters (events.py) and the    *)
(* life cycle of the API process (main.py).                                *)
(*                                                                         *)
(* Every SQL transaction is one action; everything between two             *)
(* transactions is an interleaving point.  Times are relative to now: a    *)
(* row is due when due[d] <= 0, and its past due times only keep their     *)
(* order, which is all ORDER BY next_attempt_at looks at.                  *)
(***************************************************************************)
EXTENDS Integers, FiniteSets

CONSTANTS
  Hooks,          \* webhooks that may be registered
  NoHook,         \* the webhook of a row not created yet
  MaxDeliveries,  \* bound: rows ever inserted (AUTOINCREMENT, never reused)
  MaxAttempts,    \* WEBHOOK_MAX_ATTEMPTS
  Batch,          \* WEBHOOK_WORKER_BATCH
  Lease,          \* IN_FLIGHT_LEASE_SEC, in units of the clock
  SendMax,        \* longest duration of one dispatcher.send, same units
  Delays,         \* what backoff.next_delay may return, same units
  RetryFrom,      \* statuses in which operators press the single-row retry
  MaxFaults       \* bound: kills, sqlite errors and join timeouts together

Deliveries == 1 .. MaxDeliveries
None == 0
BulkRetriesInFlight == {"dead", "failure", "in_flight"}        \* wrong on purpose
BulkRetriesSuccess == {"dead", "failure", "success"}           \* wrong on purpose
RETRYABLE_TERMINAL_STATUSES == {"dead", "failure"}
Status == {"none", "pending", "queued", "in_flight", "retrying",
           "success", "failure", "dead", "deleted"}

ASSUME QueueAssumption ==
  /\ NoHook \notin Hooks
  /\ MaxDeliveries \in Nat
  /\ MaxAttempts \in Nat \ {0}
  /\ Batch \in Nat \ {0}
  /\ Lease \in Nat \ {0}
  /\ SendMax \in Nat
  /\ Delays \subseteq Nat /\ Delays # {}
  /\ RetryFrom \subseteq Status \ {"none", "deleted"}
  /\ MaxFaults \in Nat

VARIABLES
  (* the webhooks table *)
  hook,       \* "absent", "active", "inactive" or "deleted"
  (* the webhook_deliveries table *)
  status, hookOf,
  attempt,    \* column attempt
  due,        \* next_attempt_at - now
  age,        \* now - attempted_at of an in_flight row, up to Lease
  (* the API process and its worker thread *)
  up, shutdown,
  pc,         \* "off", "idle", "claiming", "batch", "sending"
  held,       \* attempt snapshot of the rows of the current batch, 0 if not held
  cur,        \* row being sent, or None
  reply,      \* what dispatcher.send returns for cur
  busy,       \* time spent in the current send
  (* handlers in other threads or processes *)
  ping,       \* POST /webhooks/{id}/test: "no", "open", or the reply to store
  emitting,   \* webhooks emit_event has listed and not enqueued yet
  (* history *)
  sends,      \* dispatches by the worker since the row was created or retried
  lost,       \* of those, the ones whose outcome was never recorded
  received,   \* the receiver has accepted the delivery at least once
  owed,       \* a retry was accepted and the row was not dispatched since
  faults

hookVars == <<hook>>
rowVars  == <<status, hookOf, attempt, due, age>>
procVars == <<up, shutdown, pc, held, cur, reply, busy>>
apiVars  == <<ping, emitting>>
histVars == <<sends, lost, received, owed, faults>>
vars == <<hookVars, rowVars, procVars, apiVars, histVars>>

Init ==
  /\ hook = [h \in Hooks |-> "absent"]
  /\ status = [d \in Deliveries |-> "none"]
  /\ hookOf = [d \in Deliveries |-> NoHook]
  /\ attempt = [d \in Deliveries |-> 1]
  /\ due = [d \in Deliveries |-> 0]
  /\ age = [d \in Deliveries |-> 0]
  /\ up = FALSE /\ shutdown = FALSE /\ pc = "off"
  /\ held = [d \in Deliveries |-> 0]
  /\ cur = None /\ reply = "ok" /\ busy = 0
  /\ ping = [d \in Deliveries |-> "no"]
  /\ emitting = {}
  /\ sends = [d \in Deliveries |-> 0]
  /\ lost = [d \in Deliveries |-> 0]
  /\ received = [d \in Deliveries |-> FALSE]
  /\ owed = [d \in Deliveries |-> FALSE]
  /\ faults = 0

-----------------------------------------------------------------------------
ClaimsPending == {"queued", "retrying", "pending"}             \* wrong on purpose
ForgetsRetrying == {"queued"}                                  \* wrong on purpose
Waiting == {"queued", "retrying"}
Claimed == {d \in Deliveries : held[d] > 0}   \* the batch the worker holds
Rest == {d \in Deliveries : held[d] > 0 /\ d # cur}   \* claims not yet sent
Fault == faults < MaxFaults /\ faults' = faults + 1
NoFault == UNCHANGED faults
(* Requests are served until the server starts its shutdown, which first   *)
(* drains the requests in progress.                                        *)
Serving == up /\ ~shutdown
NextId(d) == status[d] = "none" /\ \A e \in Deliveries : e < d => status[e] # "none"
(* UPDATE ... WHERE id = d leaves no trace when the row is gone. *)
Update(f, d, v) == IF status[d] = "deleted" THEN f ELSE [f EXCEPT ![d] = v]

InsertRow(d, h, s) ==
  /\ NextId(d)
  /\ status' = [status EXCEPT ![d] = s]
  /\ hookOf' = [hookOf EXCEPT ![d] = h]
  /\ UNCHANGED <<attempt, due, age>>

(* ---- webhooks_repo ---------------------------------------------------- *)
CreateWebhook(h) ==
  /\ Serving /\ hook[h] = "absent"
  /\ \E s \in {"active", "inactive"} : hook' = [hook EXCEPT ![h] = s]
  /\ UNCHANGED <<rowVars, procVars, apiVars, histVars>>

UpdateWebhook(h) ==
  /\ Serving /\ hook[h] \in {"active", "inactive"}
  /\ \E s \in {"active", "inactive"} : hook' = [hook EXCEPT ![h] = s]
  /\ UNCHANGED <<rowVars, procVars, apiVars, histVars>>

DeleteWebhook(h) ==
  /\ Serving /\ hook[h] \in {"active", "inactive"}
  /\ hook' = [hook EXCEPT ![h] = "deleted"]
  /\ LET gone(d) == hookOf[d] = h IN
     /\ status' = [d \in Deliveries |-> IF gone(d) THEN "deleted" ELSE status[d]]
     /\ due' = [d \in Deliveries |-> IF gone(d) THEN 0 ELSE due[d]]
     /\ age' = [d \in Deliveries |-> IF gone(d) THEN 0 ELSE age[d]]
     /\ owed' = [d \in Deliveries |-> IF gone(d) THEN FALSE ELSE owed[d]]
  /\ UNCHANGED <<hookOf, attempt, procVars, apiVars, sends, lost, received, faults>>

(* ---- emit_event, asynchronous path: list first, then one insert per hook  *)
EmitList ==
  /\ emitting = {}
  /\ \E T \in SUBSET {h \in Hooks : hook[h] = "active"} : emitting' = T
  /\ UNCHANGED <<hookVars, rowVars, procVars, ping, histVars>>

EnqueueDelivery(h) ==
  /\ h \in emitting
  /\ emitting' = emitting \ {h}
  /\ \/ /\ hook[h] # "deleted"
        /\ \E d \in Deliveries : InsertRow(d, h, "queued")
        /\ NoFault
     \/ hook[h] = "deleted" /\ UNCHANGED rowVars /\ NoFault  \* FOREIGN KEY
     \/ UNCHANGED rowVars /\ Fault                           \* sqlite3.Error
  /\ UNCHANGED <<hookVars, procVars, ping, sends, lost, received, owed>>

(* ---- POST /webhooks/{id}/test: pending row, send, finalize -------------- *)
CreatePendingDelivery(h) ==
  /\ Serving /\ hook[h] \in {"active", "inactive"}
  /\ \E d \in Deliveries :
       InsertRow(d, h, "pending") /\ ping' = [ping EXCEPT ![d] = "open"]
  /\ UNCHANGED <<hookVars, procVars, emitting, histVars>>

PingSend(d) ==
  /\ up /\ ping[d] = "open"
  /\ \E r \in {"success", "failure"}, got \in BOOLEAN :
       /\ r = "success" => got
       /\ ping' = [ping EXCEPT ![d] = r]
       /\ received' = [received EXCEPT ![d] = @ \/ got]
  /\ UNCHANGED <<hookVars, rowVars, procVars, emitting, sends, lost, owed, faults>>

FinalizeDelivery(d) ==
  /\ up /\ ping[d] \in {"success", "failure"}
  /\ ping' = [ping EXCEPT ![d] = "no"]
  /\ \/ /\ status' = Update(status, d, ping[d])
        /\ age' = [age EXCEPT ![d] = 0]
        /\ NoFault
     \/ UNCHANGED <<status, age>> /\ Fault
  /\ UNCHANGED <<hookVars, hookOf, attempt, due, procVars, emitting,
                 sends, lost, received, owed>>

(* ---- POST /deliveries/{id}/retry and /deliveries/bulk-retry ------------- *)
Requeue(S) ==
  /\ status' = [d \in Deliveries |-> IF d \in S THEN "queued" ELSE status[d]]
  /\ attempt' = [d \in Deliveries |-> IF d \in S THEN 1 ELSE attempt[d]]
  /\ due' = [d \in Deliveries |-> IF d \in S THEN 0 ELSE due[d]]
  /\ age' = [d \in Deliveries |-> IF d \in S THEN 0 ELSE age[d]]
  /\ sends' = [d \in Deliveries |-> IF d \in S THEN 0 ELSE sends[d]]
  /\ lost' = [d \in Deliveries |-> IF d \in S THEN 0 ELSE lost[d]]
  /\ owed' = [d \in Deliveries |-> d \in S \/ owed[d]]
  /\ UNCHANGED <<hookVars, hookOf, procVars, apiVars, received, faults>>

(* The code asks only that the row exists; RetryFrom says in which statuses *)
(* operators use the button.                                               *)
RequeueDelivery(d) ==
  /\ Serving /\ status[d] \in RetryFrom
  /\ Requeue({d})

(* Any filter by status and webhook, oldest first up to the limit. *)
Retryable(eff, H) == {d \in Deliveries : status[d] \in eff /\ hookOf[d] \in H}
Oldest(limit, S) == {d \in S : Cardinality({e \in S : e <= d}) <= limit}

RequeueDeliveries ==
  /\ Serving
  /\ \E eff \in SUBSET RETRYABLE_TERMINAL_STATUSES, H \in SUBSET Hooks, limit \in Deliveries :
       LET S == Oldest(limit, Retryable(eff, H)) IN S # {} /\ Requeue(S)

-----------------------------------------------------------------------------
(* The worker thread: _run, tick_once, _finalize.                          *)
Recovered(stale) ==   \* recover_stale_in_flight on the rows of the set stale
  /\ status' = [d \in Deliveries |-> IF d \in stale THEN "queued" ELSE status[d]]
  /\ due' = [d \in Deliveries |-> IF d \in stale THEN 0 ELSE due[d]]
  /\ age' = [d \in Deliveries |-> IF d \in stale THEN 0 ELSE age[d]]

InFlight == {d \in Deliveries : status[d] = "in_flight"}

TickNeverRecovers ==   \* wrong on purpose: only start() recovers
  /\ pc = "idle" /\ ~shutdown /\ pc' = "claiming"
  /\ UNCHANGED <<hookVars, rowVars, up, shutdown, held, cur, reply, busy, apiVars, histVars>>

TickIgnoresShutdown ==   \* wrong on purpose: while True
  /\ pc = "idle" /\ pc' = "claiming"
  /\ UNCHANGED <<hookVars, rowVars, up, shutdown, held, cur, reply, busy, apiVars, histVars>>

TickRecover ==
  /\ pc = "idle" /\ ~shutdown
  /\ \/ Recovered({d \in InFlight : age[d] >= Lease}) /\ NoFault
     \/ UNCHANGED <<status, due, age>> /\ Fault
  /\ pc' = "claiming"
  /\ UNCHANGED <<hookVars, hookOf, attempt, up, shutdown, held, cur, reply, busy,
                 apiVars, sends, lost, received, owed>>

DueRows == {d \in Deliveries : /\ status[d] \in Waiting /\ due[d] <= 0
                               /\ hookOf[d] \in Hooks /\ hook[hookOf[d]] = "active"}
Before(d, e) == due[d] < due[e] \/ (due[d] = due[e] /\ d < e)

(* LIMIT rows of DueRows in the order of (next_attempt_at, id) *)
OldestDue(S) ==
  /\ S \subseteq DueRows
  /\ \/ Cardinality(S) = Batch
     \/ S = DueRows /\ Cardinality(S) < Batch
  /\ \A d \in S, e \in DueRows \ S : Before(d, e)

ClaimDueDeliveries ==
  /\ pc = "claiming"
  /\ \/ /\ NoFault
        /\ \E S \in SUBSET DueRows :
             /\ OldestDue(S)
             /\ status' = [d \in Deliveries |-> IF d \in S THEN "in_flight" ELSE status[d]]
             /\ age' = [d \in Deliveries |-> IF d \in S THEN 0 ELSE age[d]]
             /\ held' = [d \in Deliveries |-> IF d \in S THEN attempt[d] ELSE 0]
             /\ pc' = IF S = {} THEN "idle" ELSE "batch"
     \/ Fault /\ UNCHANGED <<status, age, held>> /\ pc' = "idle"
  /\ UNCHANGED <<hookVars, hookOf, attempt, due, up, shutdown, cur, reply, busy,
                 apiVars, sends, lost, received, owed>>

KeepClaims ==   \* wrong on purpose: break without release_claims
  /\ pc = "batch" /\ shutdown /\ pc' = "idle"
  /\ held' = [d \in Deliveries |-> 0]
  /\ UNCHANGED <<hookVars, rowVars, up, shutdown, cur, reply, busy, apiVars, histVars>>

(* Shutdown seen between two rows of a batch: hand the others back. *)
ReleaseClaims ==
  /\ pc = "batch" /\ shutdown
  /\ \/ /\ status' = [d \in Deliveries |->
              IF d \in Rest /\ status[d] = "in_flight" THEN "queued" ELSE status[d]]
        /\ age' = [d \in Deliveries |-> IF d \in Rest THEN 0 ELSE age[d]]
        /\ NoFault
     \/ UNCHANGED <<status, age>> /\ Fault
  /\ held' = [d \in Deliveries |-> 0]
  /\ pc' = "idle"
  /\ UNCHANGED <<hookVars, hookOf, attempt, due, up, shutdown, cur, reply, busy,
                 apiVars, sends, lost, received, owed>>

(* dispatcher.send: "ok" is 2xx, "reject" 4xx, "error" any other reply or   *)
(* none.  After an error the receiver may or may not have acted.           *)
Send(d) ==
  /\ pc = "batch" /\ ~shutdown /\ d \in Rest
  /\ pc' = "sending" /\ cur' = d /\ busy' = 0
  /\ \E r \in {"ok", "reject", "error"}, got \in BOOLEAN :
       /\ (r = "ok" => got) /\ (r = "reject" => ~got)
       /\ reply' = r
       /\ received' = [received EXCEPT ![d] = @ \/ got]
  /\ sends' = [sends EXCEPT ![d] = @ + 1]
  /\ owed' = [owed EXCEPT ![d] = FALSE]
  /\ UNCHANGED <<hookVars, rowVars, up, shutdown, held, apiVars, lost, faults>>

Outcome(s, a, w) ==
  /\ status' = Update(status, cur, s)
  /\ attempt' = Update(attempt, cur, a)
  /\ due' = Update(due, cur, w)
  /\ age' = [age EXCEPT ![cur] = 0]

Recorded ==
  /\ held' = [held EXCEPT ![cur] = 0]
  /\ pc' = IF Rest = {} THEN "idle" ELSE "batch"
  /\ cur' = None /\ reply' = "ok" /\ busy' = 0
  /\ UNCHANGED <<hookVars, hookOf, up, shutdown, apiVars, histVars>>

RecordOneTooMany ==   \* wrong on purpose: gives up when attempt > max_attempts
  /\ pc = "sending" /\ Recorded
  /\ LET a == held[cur] IN
     \/ reply = "ok" /\ Outcome("success", a, 0)
     \/ reply = "reject" /\ Outcome("failure", a, 0)
     \/ reply = "error" /\ a > MaxAttempts /\ Outcome("dead", a, 0)
     \/ reply = "error" /\ a <= MaxAttempts /\ \E w \in Delays : Outcome("retrying", a + 1, w)

RecordSameAttempt ==   \* wrong on purpose: the retry does not count
  /\ pc = "sending" /\ Recorded
  /\ LET a == held[cur] IN
     \/ reply = "ok" /\ Outcome("success", a, 0)
     \/ reply = "reject" /\ Outcome("failure", a, 0)
     \/ reply = "error" /\ \E w \in Delays : Outcome("retrying", a, w)

RecordAnyReply ==   \* wrong on purpose: every HTTP reply is a success
  /\ pc = "sending" /\ Recorded
  /\ LET a == held[cur] IN
     \/ reply # "error" /\ Outcome("success", a, 0)
     \/ reply = "error" /\ \E w \in Delays : Outcome("retrying", a, w)

RecordAttempt ==
  /\ pc = "sending"
  /\ LET a == held[cur] IN
     \/ reply = "ok" /\ Outcome("success", a, 0)
     \/ reply = "reject" /\ Outcome("failure", a, 0)
     \/ reply = "error" /\ a >= MaxAttempts /\ Outcome("dead", a, 0)
     \/ /\ reply = "error" /\ a < MaxAttempts
        /\ \E w \in Delays : Outcome("retrying", a + 1, w)
  /\ Recorded

DropBatch ==   \* the thread loses its local variables, the rows stay as they are
  /\ held' = [d \in Deliveries |-> 0]
  /\ cur' = None /\ reply' = "ok" /\ busy' = 0
  /\ lost' = IF cur = None THEN lost ELSE [lost EXCEPT ![cur] = @ + 1]

(* record_attempt raises: tick_once is abandoned, _run logs and goes on. *)
RecordAttemptFails ==
  /\ pc = "sending" /\ Fault /\ DropBatch /\ pc' = "idle"
  /\ UNCHANGED <<hookVars, rowVars, up, shutdown, apiVars, sends, received, owed>>

ThreadEnds ==
  /\ pc = "idle" /\ shutdown /\ pc' = "off"
  /\ UNCHANGED <<hookVars, rowVars, up, shutdown, held, cur, reply, busy, apiVars, histVars>>

-----------------------------------------------------------------------------
(* The process: _lifespan calls start() and stop(); kill at any time.      *)
Start ==
  /\ ~up /\ up' = TRUE /\ shutdown' = FALSE /\ pc' = "idle"
  /\ \/ Recovered(InFlight) /\ NoFault
     \/ UNCHANGED <<status, due, age>> /\ Fault
  /\ UNCHANGED <<hookVars, hookOf, attempt, held, cur, reply, busy, apiVars,
                 sends, lost, received, owed>>

Stop ==
  /\ Serving /\ \A d \in Deliveries : ping[d] = "no"
  /\ shutdown' = TRUE
  /\ UNCHANGED <<hookVars, rowVars, up, pc, held, cur, reply, busy, apiVars, histVars>>

Exit ==
  /\ up' = FALSE /\ pc' = "off" /\ shutdown' = FALSE
  /\ ping' = [d \in Deliveries |-> "no"]
  /\ DropBatch
  /\ UNCHANGED <<hookVars, rowVars, emitting, sends, received, owed>>

Joined == up /\ shutdown /\ pc = "off" /\ Exit /\ NoFault
JoinTimeout == up /\ shutdown /\ pc # "off" /\ Exit /\ Fault
Kill == up /\ Exit /\ Fault

(* A unit of time passes for the rows.  Past due times are renumbered -1,    *)
(* -2, ... keeping their order.                                            *)
Lapse ==
  /\ LET dated == {d \in Deliveries : status[d] \in Waiting \cup {"in_flight"}}
         past == {due[d] - 1 : d \in dated} \ Nat
         aged(t) == IF t >= 0 THEN t ELSE 0 - Cardinality({u \in past : u >= t})
     IN due' = [d \in Deliveries |-> IF d \in dated THEN aged(due[d] - 1) ELSE due[d]]
  /\ age' = [d \in Deliveries |->
               IF status[d] = "in_flight" /\ age[d] < Lease THEN age[d] + 1 ELSE age[d]]
  /\ UNCHANGED <<hookVars, status, hookOf, attempt, up, shutdown, pc, held, cur, reply,
                 apiVars, histVars>>

SleepsInBatch ==   \* wrong on purpose: tick_sec between two rows of a batch
  /\ pc \in {"off", "idle", "batch"} \/ (pc = "sending" /\ busy < SendMax)
  /\ busy' = IF pc = "sending" THEN busy + 1 ELSE busy
  /\ Lapse

(* Computation takes no time; a send takes up to SendMax.                   *)
Advance ==
  /\ pc \in {"off", "idle"} \/ (pc = "sending" /\ busy < SendMax)
  /\ busy' = IF pc = "sending" THEN busy + 1 ELSE busy
  /\ Lapse

Worker == TickRecover \/ ClaimDueDeliveries \/ ReleaseClaims \/ RecordAttempt
          \/ RecordAttemptFails \/ ThreadEnds \/ \E d \in Deliveries : Send(d)
Process == Start \/ Stop \/ Joined \/ JoinTimeout \/ Kill
Requests ==
  \/ \E h \in Hooks : \/ CreateWebhook(h) \/ UpdateWebhook(h) \/ DeleteWebhook(h)
                      \/ EnqueueDelivery(h) \/ CreatePendingDelivery(h)
  \/ \E d \in Deliveries : PingSend(d) \/ FinalizeDelivery(d) \/ RequeueDelivery(d)
  \/ EmitList \/ RequeueDeliveries

Next == Worker \/ Process \/ Requests \/ Advance

Spec == Init /\ [][Next]_vars

(* A live thread keeps running, _run sleeps tick_sec between two ticks so   *)
(* that time always passes, and stop() returns once the thread has ended.  *)
(* Nothing restarts a process that is down, and nobody has to send         *)
(* requests.                                                               *)
Fairness == WF_vars(Worker) /\ SF_vars(Advance) /\ WF_vars(Joined)
FairSpec == Spec /\ Fairness

-----------------------------------------------------------------------------
(* Types of all variables: columns, locals of the thread, history.         *)
TypeOK ==
  /\ hook \in [Hooks -> {"absent", "active", "inactive", "deleted"}]
  /\ status \in [Deliveries -> Status]
  /\ hookOf \in [Deliveries -> Hooks \cup {NoHook}]
  /\ attempt \in [Deliveries -> 1 .. MaxAttempts]
  /\ due \in [Deliveries -> Int]
  /\ age \in [Deliveries -> 0 .. Lease]
  /\ up \in BOOLEAN /\ shutdown \in BOOLEAN
  /\ pc \in {"off", "idle", "claiming", "batch", "sending"}
  /\ held \in [Deliveries -> 0 .. MaxAttempts]
  /\ cur \in Deliveries \cup {None}
  /\ reply \in {"ok", "reject", "error"}
  /\ busy \in 0 .. SendMax
  /\ ping \in [Deliveries -> {"no", "open", "success", "failure"}]
  /\ emitting \subseteq Hooks
  /\ sends \in [Deliveries -> Nat]
  /\ lost \in [Deliveries -> Nat]
  /\ received \in [Deliveries -> BOOLEAN]
  /\ owed \in [Deliveries -> BOOLEAN]
  /\ faults \in 0 .. MaxFaults

(* A row is never sent more than MaxAttempts times between two retries by   *)
(* an operator, except once more for every send whose outcome was lost with *)
(* a killed process, a failed write or an abandoned thread: the attempt     *)
(* counter survives crashes, leases and requests that move the row.         *)
SendBudget == \A d \in Deliveries : sends[d] <= MaxAttempts + lost[d]

(* A row marked success was accepted by its receiver, whichever of the      *)
(* worker, the test handler and the retry buttons wrote to the row last.    *)
NoFalseSuccess == \A d \in Deliveries : status[d] = "success" => received[d]

(* Unless something failed, a row is in_flight only while the live worker   *)
(* holds it: a shutdown in the middle of a batch hands back every claim it   *)
(* does not dispatch, and a clean exit leaves no orphan.                    *)
InFlightOwned ==
  faults = 0 => \A d \in Deliveries : status[d] = "in_flight" => up /\ held[d] > 0

(* A retry that was accepted leads to a new dispatch: the row does not       *)
(* become final or fall back to a backoff before it was sent again.          *)
RetryDispatched == \A d \in Deliveries : owed[d] => status[d] \in {"queued", "in_flight"}

(* Only one of the worker and a test handler sends a row at any moment.     *)
OneSender == \A d \in Deliveries : ~(pc = "sending" /\ cur = d /\ ping[d] = "open")

(* The claims of a batch share one claim time and are sent one after the     *)
(* other.  A claim in the hands of the worker is never older than one        *)
(* longest send for every row of a full batch that is done, plus the send    *)
(* that is going on: nothing else may delay a batch between claim and send.  *)
ClaimsKeepPace ==
  \A d \in Claimed : age[d] <= SendMax * (Batch - Cardinality(Claimed)) + busy

(* What worker.py says of the lease (lines 33-34): a live worker finalizes a *)
(* claimed row before it, so that an older in_flight row is an orphan.       *)
LeaseOutlastsBatch ==
  \A d \in Claimed : status[d] = "in_flight" => age[d] < Lease

Final == {"success", "failure", "dead"}

(* The rows seen through DeliveryPromise: with retries of failed rows only,  *)
(* the queue implements it.                                                *)
Class(s) ==
  CASE s = "none" -> "none"
    [] s \in {"pending", "queued", "in_flight", "retrying"} -> "open"
    [] s = "success" -> "delivered"
    [] s \in {"failure", "dead"} -> "failed"
    [] OTHER -> "gone"
Phase == [d \in Deliveries |-> Class(status[d])]
Promise == INSTANCE DeliveryPromise WITH phase <- Phase, accepted <- received
KeepsPromise == Promise!Spec

(* A claim orphaned by a failed write or a kill is requeued, unless the      *)
(* process stays down.                                                     *)
OrphansRecovered ==
  \A d \in Deliveries : status[d] = "in_flight" ~> status[d] # "in_flight" \/ ~up

(* Every queued row of an active webhook is settled in the end, unless it is *)
(* retried again, its webhook is paused or the process goes down.           *)
Settles ==
  \A d \in Deliveries :
    status[d] \in Waiting ~>
      \/ status[d] \in Final \cup {"deleted"} \/ owed[d] \/ ~up
      \/ \E h \in Hooks : hookOf[d] = h /\ hook[h] = "inactive"

(* stop() ends: a shutdown never hangs on the batch in progress.            *)
StopEnds == up /\ shutdown ~> ~up

-----------------------------------------------------------------------------
(* What makes the invariants inductive.                                    *)
Sending(d) == pc = "sending" /\ cur = d
Settled(d) == status[d] \in Final \cup {"deleted"}

(* The thread's locals follow its program counter. *)
Holding ==
  /\ pc # "off" => up
  /\ (pc = "sending") <=> (cur # None)
  /\ pc = "sending" => held[cur] > 0
  /\ pc \notin {"batch", "sending"} => \A d \in Deliveries : held[d] = 0

(* One send is covered by the attempt number before its outcome is stored, *)
(* in the row as well as in the snapshot the worker will store it from.     *)
Within(d) ==
  /\ sends[d] <= attempt[d] + lost[d]
  /\ ~Settled(d) /\ ~Sending(d) => sends[d] < attempt[d] + lost[d]
  /\ held[d] > 0 => sends[d] <= held[d] + lost[d]
  /\ d \in Rest => sends[d] < held[d] + lost[d] /\ sends[d] < attempt[d] + lost[d]
Budget == \A d \in Deliveries : Within(d)

(* A success about to be stored was accepted. *)
Truthful ==
  /\ \A d \in Deliveries : ping[d] = "success" => received[d]
  /\ pc = "sending" /\ reply = "ok" => received[cur]

(* With retries of failed rows only, the worker, the test handlers and the   *)
(* retries write to different rows.                                        *)
Alone(d) ==
  /\ held[d] > 0 => status[d] \in {"in_flight", "deleted"} /\ ping[d] = "no"
  /\ ping[d] # "no" => status[d] \in {"pending", "deleted"}
  /\ owed[d] => status[d] \in {"queued", "in_flight"} /\ ~Sending(d)
  /\ status[d] = "none" => hookOf[d] = NoHook
Exclusive == \A d \in Deliveries : Alone(d)
=============================================================================
