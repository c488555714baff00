-------------------------- MODULE StoreTransactions --------------------------
(***************************************************************************)
(* What the stores of webhooks and of materials do to the transactions of   *)
(* their SQLite files.  Every thread keeps a connection for its life.       *)
(* sqlite3 begins a transaction of its own accord before a write and leaves *)
(* ending it to the caller; most operations commit and nothing else, so one *)
(* that raises leaves the transaction as the failed statement left it:      *)
(* begun, or holding the write lock of the file.  Only the worker's own     *)
(* operations roll back.  The transaction then goes on in whatever the      *)
(* thread does next, for another request.                                   *)
(*                                                                         *)
(* An operation that commits is one step, since it holds the lock for       *)
(* milliseconds.  One that finds the lock held by another connection waits  *)
(* busy_timeout: the lock is let go meanwhile, or "database is locked".     *)
(***************************************************************************)
EXTENDS Naturals

CONSTANTS
  Requests,   \* request threads of the API
  Worker,     \* the dispatch worker's thread
  Emitter,    \* the anomaly daemon, a process of its own
  Hooks,      \* ids of webhooks; {} for the materials file
  Items,      \* rows of a backup's batch; {} for the webhooks' file
  MaxEvents,  \* bound: events emitted
  MaxFaults   \* bound: restarts

DbThreads == Requests \cup {Worker, Emitter}
Rows == Hooks \X (1 .. MaxEvents)

StoreAssumption ==
  /\ Worker # Emitter /\ {Worker, Emitter} \cap Requests = {}
  /\ MaxEvents \in Nat /\ MaxFaults \in Nat

VARIABLES
  db,       \* the committed contents of the file
  draft,    \* what the one connection that holds the write lock has made of them
  tx,       \* per connection: "none", "begun", "read" or "write"
  seen,     \* what a "read" transaction sees
  stale,    \* another connection has committed since it began to read
  (* the worker and the emitter *)
  pc,       \* the worker: "recover", "claim", "record"
  claimed,  \* the rows it is to send
  event,    \* the number of events emitted
  todo,     \* webhooks it has listed and not come to
  (* history *)
  listed,   \* webhooks it has listed
  used,     \* ids given out (AUTOINCREMENT)
  told,     \* the contents, by what the callers were told
  kept_out, \* rows whose INSERT was refused as "database is locked"
  torn,     \* rows of refused batches, since one was deleted or stored
  faults

files == <<db, draft, tx, seen, stale>>
actors == <<pc, claimed, event, todo>>
history == <<listed, used, told, kept_out, torn>>
vars == <<files, actors, history, faults>>

Empty == [hooks |-> {}, row |-> [r \in Rows |-> "none"], items |-> {}]

Init ==
  /\ db = Empty /\ draft = Empty
  /\ tx = [t \in DbThreads |-> "none"]
  /\ seen = [t \in DbThreads |-> Empty] /\ stale = [t \in DbThreads |-> FALSE]
  /\ pc = "recover" /\ claimed = {} /\ event = 0 /\ todo = {}
  /\ listed = {} /\ used = {} /\ told = Empty /\ kept_out = {} /\ torn = {} /\ faults = 0

-----------------------------------------------------------------------------
(* sqlite3 in its default mode on a file in WAL mode.                       *)
Free(t) == \A u \in DbThreads \ {t} : tx[u] # "write"
Fresh(t) == ~stale[t]              \* else SQLITE_BUSY at once, without a wait
Base(t) == IF tx[t] = "write" THEN draft ELSE db
View(t) == IF tx[t] = "read" THEN seen[t] ELSE Base(t)

Close(T) ==       \* the snapshots and the lock that connections let go
  /\ tx' = [t \in DbThreads |-> IF t \in T THEN "none" ELSE tx[t]]
  /\ seen' = [t \in DbThreads |-> IF t \in T THEN Empty ELSE seen[t]]
  /\ draft' = IF \E t \in T : tx[t] = "write" THEN Empty ELSE draft

Rollback(T) ==
  /\ Close(T) /\ UNCHANGED db
  /\ stale' = [t \in DbThreads |-> t \notin T /\ stale[t]]

Commit(t, contents) ==
  /\ Close({t}) /\ db' = contents
  /\ stale' = [u \in DbThreads |->
       u # t /\ (stale[u] \/ (tx[u] = "read" /\ contents # db))]

(* A write and the commit after it; a write that the database refuses, with *)
(* what it leaves undone or half done; one that cannot have the lock.       *)
Stores(t, contents) == Free(t) /\ Fresh(t) /\ Commit(t, contents)

Refused(t, contents) ==
  /\ Free(t) /\ Fresh(t)
  /\ tx' = [tx EXCEPT ![t] = "write"] /\ draft' = contents
  /\ seen' = [seen EXCEPT ![t] = Empty]
  /\ UNCHANGED <<db, stale>>

LockedOut(t) ==
  /\ ~(Free(t) /\ Fresh(t))
  /\ tx' = [tx EXCEPT ![t] = IF tx[t] = "none" THEN "begun" ELSE tx[t]]
  /\ UNCHANGED <<db, draft, seen, stale>>

Select(t) ==      \* in a transaction that has begun, it fixes the snapshot
  IF tx[t] = "begun"
  THEN /\ tx' = [tx EXCEPT ![t] = "read"] /\ seen' = [seen EXCEPT ![t] = db]
       /\ UNCHANGED <<db, draft, stale>>
  ELSE UNCHANGED files

-----------------------------------------------------------------------------
(* Requests: webhooks_repo and materials/store.  None rolls back.           *)
Without(c, w) == [c EXCEPT !.hooks = c.hooks \ {w},
                           !.row = [r \in Rows |-> IF r[1] = w THEN "none" ELSE c.row[r]]]

With(c, w) == [c EXCEPT !.hooks = c.hooks \cup {w}]

(* AUTOINCREMENT gives no id out twice. *)
CreateWebhook(t) == \E w \in Hooks \ used :
  /\ \/ /\ Stores(t, With(Base(t), w))
        /\ used' = used \cup {w} /\ told' = With(told, w)
     \/ LockedOut(t) /\ UNCHANGED <<used, told>>
  /\ UNCHANGED <<actors, listed, kept_out, torn, faults>>

DeleteNoCommit(t) == \E w \in db.hooks :   \* wrong on purpose: the commit is left out
  /\ \/ Refused(t, Without(Base(t), w)) /\ told' = Without(told, w)
     \/ LockedOut(t) /\ UNCHANGED told
  /\ UNCHANGED <<actors, listed, used, kept_out, torn, faults>>

DeleteWebhook(t) == \E w \in db.hooks :
  /\ \/ Stores(t, Without(Base(t), w)) /\ told' = Without(told, w)
     \/ LockedOut(t) /\ UNCHANGED told
  /\ UNCHANGED <<actors, listed, used, kept_out, torn, faults>>

(* POST /webhooks/{id}/test: the pending row takes no part here, the         *)
(* foreign key does.  The webhook was there when the handler looked.        *)
CreatePending(t) == \E w \in used :
  /\ \/ w \in Base(t).hooks /\ Stores(t, Base(t))
     \/ w \notin Base(t).hooks /\ Refused(t, Base(t))
     \/ LockedOut(t)
  /\ UNCHANGED <<actors, history, faults>>

(* upsert_materials.  A value that cannot be bound ends executemany after    *)
(* the rows before it.                                                     *)
Upsert(t) ==
  /\ Items # {}
  /\ \/ /\ Stores(t, [Base(t) EXCEPT !.items = Items])
        /\ told' = [told EXCEPT !.items = Items] /\ torn' = {}
     \/ /\ \E part \in SUBSET Items \ {Items} :
             /\ Refused(t, [Base(t) EXCEPT !.items = Base(t).items \cup part])
             /\ torn' = torn \cup part
        /\ UNCHANGED told
     \/ LockedOut(t) /\ UNCHANGED <<told, torn>>
  /\ UNCHANGED <<actors, listed, used, kept_out, faults>>

DeleteDocument(t) ==
  /\ Items # {}
  /\ \/ /\ Stores(t, [Base(t) EXCEPT !.items = {}])
        /\ told' = [told EXCEPT !.items = {}] /\ torn' = {}
     \/ LockedOut(t) /\ UNCHANGED <<told, torn>>
  /\ UNCHANGED <<actors, listed, used, kept_out, faults>>

Read(t) == Select(t) /\ UNCHANGED <<actors, history, faults>>

(* The pool ends a thread that was idle too long; its connection goes.      *)
Retire(t) == Rollback({t}) /\ UNCHANGED <<actors, history, faults>>

-----------------------------------------------------------------------------
(* The worker: tick_once.                                                  *)
Now(c, S, status) == [c EXCEPT !.row =
  [r \in Rows |-> IF r \in S /\ c.row[r] # "none" THEN status ELSE c.row[r]]]
Having(status) == {r \in Rows : db.row[r] = status}

TickRecoverOnly ==   \* wrong on purpose: the except branch does not roll back
  /\ pc = "recover" /\ pc' = "claim"
  /\ \/ \E S \in SUBSET Having("in_flight") :
          Stores(Worker, Now(Base(Worker), S, "queued")) /\ told' = Now(told, S, "queued")
     \/ LockedOut(Worker) /\ UNCHANGED told
  /\ UNCHANGED <<claimed, event, todo, listed, used, kept_out, torn, faults>>

TickRecover ==
  /\ pc = "recover" /\ pc' = "claim"
  /\ \/ \E S \in SUBSET Having("in_flight") :     \* those past their lease
          Stores(Worker, Now(Base(Worker), S, "queued")) /\ told' = Now(told, S, "queued")
     \/ ~(Free(Worker) /\ Fresh(Worker)) /\ Rollback({Worker}) /\ UNCHANGED told
  /\ UNCHANGED <<claimed, event, todo, listed, used, kept_out, torn, faults>>

(* claim_due_deliveries begins its transaction itself, which fails where one *)
(* has begun already.                                                      *)
TickClaim ==
  /\ pc = "claim"
  /\ \/ /\ tx[Worker] = "none" /\ Free(Worker)
        /\ \E S \in SUBSET Having("queued") :     \* those that are due
             /\ Commit(Worker, Now(db, S, "in_flight"))
             /\ told' = Now(told, S, "in_flight")
             /\ claimed' = S /\ pc' = IF S = {} THEN "recover" ELSE "record"
     \/ /\ ~(tx[Worker] = "none" /\ Free(Worker))
        /\ Rollback({Worker}) /\ pc' = "recover" /\ UNCHANGED <<claimed, told>>
  /\ UNCHANGED <<event, todo, listed, used, kept_out, torn, faults>>

(* A send and its record_attempt; when that raises, the tick is over.       *)
RecordAttempt == \E r \in claimed, outcome \in {"success", "queued"} :
  /\ pc = "record"
  /\ \/ /\ Stores(Worker, Now(Base(Worker), {r}, outcome))
        /\ told' = Now(told, {r}, outcome) /\ claimed' = claimed \ {r}
     \/ LockedOut(Worker) /\ claimed' = {} /\ UNCHANGED told
  /\ pc' = IF claimed' = {} THEN "recover" ELSE "record"
  /\ UNCHANGED <<event, todo, listed, used, kept_out, torn, faults>>

-----------------------------------------------------------------------------
(* The emitter: _emit_async, webhook by webhook; nothing depends on the order. *)
ListRecords ==
  /\ todo = {} /\ event < MaxEvents /\ event' = event + 1
  /\ todo' = View(Emitter).hooks /\ listed' = todo' /\ Select(Emitter)
  /\ UNCHANGED <<pc, claimed, used, told, kept_out, torn, faults>>

Queue(c, r) == [c EXCEPT !.row[r] = "queued"]

EnqueueOrStop == \E w \in todo :   \* wrong on purpose: the first failure ends the loop
  LET r == <<w, event>> IN
  /\ \/ /\ w \in Base(Emitter).hooks /\ Stores(Emitter, Queue(Base(Emitter), r))
        /\ told' = Queue(told, r) /\ todo' = todo \ {w} /\ UNCHANGED kept_out
     \/ /\ w \notin Base(Emitter).hooks /\ Refused(Emitter, Base(Emitter))
        /\ todo' = {} /\ UNCHANGED <<told, kept_out>>
     \/ /\ LockedOut(Emitter) /\ kept_out' = kept_out \cup {r}
        /\ todo' = {} /\ UNCHANGED told
  /\ UNCHANGED <<pc, claimed, event, listed, used, torn, faults>>

Enqueue == \E w \in todo :
  LET r == <<w, event>> IN
  /\ \/ /\ w \in Base(Emitter).hooks /\ Stores(Emitter, Queue(Base(Emitter), r))
        /\ told' = Queue(told, r) /\ UNCHANGED kept_out
     \/ /\ w \notin Base(Emitter).hooks /\ Refused(Emitter, Base(Emitter))
        /\ UNCHANGED <<told, kept_out>>
     \/ LockedOut(Emitter) /\ kept_out' = kept_out \cup {r} /\ UNCHANGED told
  /\ todo' = todo \ {w}
  /\ UNCHANGED <<pc, claimed, event, listed, used, torn, faults>>

-----------------------------------------------------------------------------
RestartApi ==
  /\ Rollback(Requests \cup {Worker}) /\ pc' = "recover" /\ claimed' = {}
  /\ faults < MaxFaults /\ faults' = faults + 1
  /\ UNCHANGED <<event, todo, history>>

RestartDaemon ==
  /\ Rollback({Emitter}) /\ todo' = {} /\ listed' = {}
  /\ faults < MaxFaults /\ faults' = faults + 1
  /\ UNCHANGED <<pc, claimed, event, used, told, kept_out, torn>>

Next ==
  \/ \E t \in Requests : \/ CreateWebhook(t) \/ DeleteWebhook(t) \/ CreatePending(t)
                         \/ Upsert(t) \/ DeleteDocument(t) \/ Read(t) \/ Retire(t)
  \/ TickRecover \/ TickClaim \/ RecordAttempt
  \/ ListRecords \/ Enqueue \/ RestartApi \/ RestartDaemon

Spec == Init /\ [][Next]_vars

-----------------------------------------------------------------------------
(* Types of the file, the connections and the locals. *)
TypeOK ==
  /\ \A c \in {db, draft, told} :
       /\ c.hooks \subseteq Hooks /\ c.items \subseteq Items
       /\ c.row \in [Rows -> {"none", "queued", "in_flight", "success"}]
  /\ tx \in [DbThreads -> {"none", "begun", "read", "write"}]
  /\ stale \in [DbThreads -> BOOLEAN]
  /\ pc \in {"recover", "claim", "record"} /\ claimed \subseteq Rows
  /\ event \in 0 .. MaxEvents /\ todo \subseteq Hooks /\ used \subseteq Hooks
  /\ kept_out \subseteq Rows /\ torn \subseteq Items /\ faults \in 0 .. MaxFaults

(* The file holds what the callers were told, whatever transactions were left *)
(* open, carried on, rolled back by the worker or dropped with their thread:   *)
(* nothing acknowledged is lost, nothing refused is stored, but for rows of    *)
(* refused batches, and these only until the document is deleted or stored.    *)
DatabaseIsAsTold ==
  /\ db.hooks = told.hooks /\ db.row = told.row
  /\ told.items \subseteq db.items /\ db.items \subseteq told.items \cup torn

(* _emit_async: one webhook whose row is refused, because it was deleted or   *)
(* because the file is locked, costs the webhooks after it nothing.           *)
FanOutReaches ==
  \A w \in (listed \ todo) \cap db.hooks :
    db.row[<<w, event>>] # "none" \/ <<w, event>> \in kept_out

(* tick_once: whatever its last tick ran into, the worker comes to a claim     *)
(* without a transaction of its own in the way, never works on an old         *)
(* snapshot, and sends only what is claimed for everybody.                    *)
WorkerIsClean ==
  /\ tx[Worker] \in {"none", "begun"}
  /\ pc = "claim" => tx[Worker] = "none"
  /\ \A r \in claimed : db.row[r] \in {"in_flight", "none"}

(* "busy_timeout waits out conflicts": the emitter's write fails as locked     *)
(* only while another connection holds the lock.                             *)
LockedMeansHeld == [][kept_out' # kept_out => ~Free(Emitter)]_vars
=============================================================================
