---------------------- MODULE StoreTransactions_proofs ----------------------
(***************************************************************************)
(* Proofs about StoreTransactions, for any webhooks, rows, request threads  *)
(* and restarts: the file is as told, the worker is clean, the fan-out      *)
(* reaches every webhook.                                                  *)
(***************************************************************************)
EXTENDS StoreTransactions, TLAPS

USE DEF files, actors, history

Status == {"none", "queued", "in_flight", "success"}
Contents == [hooks : SUBSET Hooks, row : [Rows -> Status], items : SUBSET Items]

Typed ==
  /\ db \in Contents /\ draft \in Contents /\ told \in Contents
  /\ tx \in [DbThreads -> {"none", "begun", "read", "write"}]
  /\ seen \in [DbThreads -> Contents] /\ stale \in [DbThreads -> BOOLEAN]
  /\ torn \subseteq Items

AsTold(c, w, s) ==
  /\ c.hooks = w.hooks /\ c.row = w.row
  /\ w.items \subseteq c.items /\ c.items \subseteq w.items \cup s

OneWriter == \A t, u \in DbThreads : tx[t] = "write" /\ tx[u] = "write" => t = u

(* What makes DatabaseIsAsTold inductive: what an open transaction would     *)
(* commit is as told as well.                                              *)
Core ==
  /\ Typed /\ OneWriter /\ AsTold(db, told, torn)
  /\ (\E t \in DbThreads : tx[t] = "write") => AsTold(draft, told, torn)

LEMMA CoreIsEnough == Core => DatabaseIsAsTold
  BY DEF Core, AsTold, DatabaseIsAsTold

LEMMA EmptyTyped == Empty \in Contents
  BY DEF Empty, Contents, Status

LEMMA BaseAsTold ==
  ASSUME Core, NEW t \in DbThreads
  PROVE  Base(t) \in Contents /\ AsTold(Base(t), told, torn)
  BY DEF Core, Typed, Base

-----------------------------------------------------------------------------
(* What each kind of statement does.                                       *)
(* A snapshot is new, gone or what it was. *)
SeenFrom == \A u \in DbThreads : seen'[u].hooks \subseteq seen[u].hooks \cup db.hooks

LEMMA CommitCore ==
  ASSUME Core, NEW t \in DbThreads, NEW c \in Contents, Free(t), Commit(t, c),
         told' \in Contents, torn' \subseteq Items, AsTold(c, told', torn')
  PROVE  /\ Core' /\ db' = c /\ SeenFrom
         /\ \A u \in DbThreads : tx'[u] = IF u = t THEN "none" ELSE tx[u]
<1>1. /\ tx' = [u \in DbThreads |-> IF u \in {t} THEN "none" ELSE tx[u]]
      /\ seen' = [u \in DbThreads |-> IF u \in {t} THEN Empty ELSE seen[u]]
      /\ draft' \in {Empty, draft} /\ db' = c
      /\ stale' = [u \in DbThreads |-> u # t /\ (stale[u] \/ (tx[u] = "read" /\ c # db))]
      /\ \A u \in DbThreads \ {t} : tx[u] # "write"
  BY DEF Commit, Close, Free
<1>2. \A u \in DbThreads : tx'[u] = IF u = t THEN "none" ELSE tx[u]
  BY <1>1
<1>3. \A u \in DbThreads : tx'[u] # "write"
  BY <1>1, <1>2
<1>4. Typed'
  <2>1. tx' \in [DbThreads -> {"none", "begun", "read", "write"}]
    BY <1>1 DEF Core, Typed
  <2>2. seen' \in [DbThreads -> Contents] /\ draft' \in Contents
    BY <1>1, EmptyTyped DEF Core, Typed
  <2>3. stale' \in [DbThreads -> BOOLEAN]
    BY <1>1, Zenon DEF Core, Typed
  <2> QED BY <1>1, <2>1, <2>2, <2>3 DEF Typed
<1>5. SeenFrom
  BY <1>1 DEF SeenFrom, Empty
<1> QED BY <1>1, <1>2, <1>3, <1>4, <1>5 DEF Core, OneWriter

LEMMA RefusedCore ==
  ASSUME Core, NEW t \in DbThreads, NEW c \in Contents, Refused(t, c),
         told' = told, torn \subseteq torn', torn' \subseteq Items, AsTold(c, told, torn')
  PROVE  /\ Core' /\ db' = db /\ SeenFrom
         /\ \A u \in DbThreads : tx'[u] = IF u = t THEN "write" ELSE tx[u]
<1>1. /\ tx' = [tx EXCEPT ![t] = "write"] /\ draft' = c
      /\ seen' = [seen EXCEPT ![t] = Empty] /\ UNCHANGED <<db, stale>>
      /\ \A u \in DbThreads \ {t} : tx[u] # "write"
  BY DEF Refused, Free
<1>2. Typed'
  BY <1>1, EmptyTyped DEF Core, Typed
<1>3. OneWriter'
  BY <1>1 DEF Core, Typed, OneWriter
<1>4. AsTold(db, told, torn')
  BY DEF Core, AsTold
<1>5. SeenFrom
  BY <1>1 DEF SeenFrom, Empty, Core, Typed
<1> QED BY <1>1, <1>2, <1>3, <1>4, <1>5 DEF Core, Typed

LEMMA LockedOutCore ==
  ASSUME Core, NEW t \in DbThreads, LockedOut(t), UNCHANGED <<told, torn>>
  PROVE  /\ Core' /\ db' = db /\ SeenFrom
         /\ \A u \in DbThreads \ {t} : tx'[u] = tx[u]
         /\ tx'[t] = IF tx[t] = "none" THEN "begun" ELSE tx[t]
<1>1. /\ tx' = [tx EXCEPT ![t] = IF tx[t] = "none" THEN "begun" ELSE tx[t]]
      /\ UNCHANGED <<db, draft, seen, stale>>
  BY DEF LockedOut
<1>2. /\ \A u \in DbThreads \ {t} : tx'[u] = tx[u]
      /\ tx'[t] = IF tx[t] = "none" THEN "begun" ELSE tx[t]
  BY <1>1 DEF Core, Typed
<1>3. Typed'
  BY <1>1 DEF Core, Typed
<1>4. \A u \in DbThreads : tx'[u] = "write" <=> tx[u] = "write"
  BY <1>2
<1> QED BY <1>1, <1>2, <1>3, <1>4 DEF Core, OneWriter, SeenFrom

LEMMA RollbackCore ==
  ASSUME Core, NEW T \in SUBSET DbThreads, Rollback(T), UNCHANGED <<told, torn>>
  PROVE  /\ Core' /\ db' = db /\ SeenFrom
         /\ \A u \in DbThreads : tx'[u] = IF u \in T THEN "none" ELSE tx[u]
<1>1. /\ tx' = [u \in DbThreads |-> IF u \in T THEN "none" ELSE tx[u]]
      /\ seen' = [u \in DbThreads |-> IF u \in T THEN Empty ELSE seen[u]]
      /\ draft' = IF \E u \in T : tx[u] = "write" THEN Empty ELSE draft
      /\ db' = db /\ stale' = [u \in DbThreads |-> u \notin T /\ stale[u]]
  BY DEF Rollback, Close
<1>2. \A u \in DbThreads : tx'[u] = IF u \in T THEN "none" ELSE tx[u]
  BY <1>1
<1>3. Typed'
  <2>1. tx' \in [DbThreads -> {"none", "begun", "read", "write"}]
    BY <1>1 DEF Core, Typed
  <2>2. seen' \in [DbThreads -> Contents] /\ draft' \in Contents
    BY <1>1, EmptyTyped DEF Core, Typed
  <2>3. stale' \in [DbThreads -> BOOLEAN]
    BY <1>1, Zenon DEF Core, Typed
  <2> QED BY <1>1, <2>1, <2>2, <2>3 DEF Core, Typed
<1>4. ASSUME NEW u \in DbThreads, tx'[u] = "write"
      PROVE  draft' = draft /\ tx[u] = "write"
  BY <1>1, <1>2, <1>4 DEF Core, OneWriter
<1>5. SeenFrom
  BY <1>1 DEF SeenFrom, Empty
<1> QED BY <1>1, <1>2, <1>3, <1>4, <1>5 DEF Core, OneWriter

LEMMA SelectCore ==
  ASSUME Core, NEW t \in DbThreads, Select(t), UNCHANGED <<told, torn>>
  PROVE  /\ Core' /\ db' = db /\ SeenFrom
         /\ \A u \in DbThreads \ {t} : tx'[u] = tx[u]
<1>1. CASE tx[t] = "begun"
  <2>1. /\ tx' = [tx EXCEPT ![t] = "read"] /\ seen' = [seen EXCEPT ![t] = db]
        /\ UNCHANGED <<db, draft, stale>>
    BY <1>1 DEF Select
  <2>2. Typed'
    BY <2>1 DEF Core, Typed
  <2>3. \A u \in DbThreads : tx'[u] = "write" <=> tx[u] = "write"
    BY <1>1, <2>1 DEF Core, Typed
  <2>4. SeenFrom
    BY <2>1 DEF SeenFrom, Core, Typed
  <2> QED BY <2>1, <2>2, <2>3, <2>4 DEF Core, Typed, OneWriter
<1>2. CASE tx[t] # "begun"
  BY <1>2 DEF Select, Core, Typed, OneWriter, SeenFrom
<1> QED BY <1>1, <1>2

-----------------------------------------------------------------------------
(* The operations.                                                         *)
LEMMA NowTyped ==
  ASSUME NEW c \in Contents, NEW w \in Contents, NEW S, NEW status \in Status,
         NEW s, AsTold(c, w, s)
  PROVE  /\ Now(c, S, status) \in Contents /\ Now(w, S, status) \in Contents
         /\ AsTold(Now(c, S, status), Now(w, S, status), s)
  BY DEF Now, Contents, AsTold

LEMMA WithTyped ==
  ASSUME NEW c \in Contents, NEW w \in Contents, NEW h \in Hooks, NEW s, AsTold(c, w, s)
  PROVE  /\ With(c, h) \in Contents /\ With(w, h) \in Contents
         /\ Without(c, h) \in Contents /\ Without(w, h) \in Contents
         /\ AsTold(With(c, h), With(w, h), s) /\ AsTold(Without(c, h), Without(w, h), s)
  BY DEF With, Without, Contents, AsTold, Status

LEMMA QueueTyped ==
  ASSUME NEW c \in Contents, NEW w \in Contents, NEW r \in Rows, NEW s, AsTold(c, w, s)
  PROVE  /\ Queue(c, r) \in Contents /\ Queue(w, r) \in Contents
         /\ AsTold(Queue(c, r), Queue(w, r), s)
  BY DEF Queue, Contents, AsTold, Status

LEMMA ItemsTyped ==
  ASSUME NEW c \in Contents, NEW w \in Contents, NEW I \in SUBSET Items, NEW s, AsTold(c, w, s)
  PROVE  /\ [c EXCEPT !.items = I] \in Contents /\ [w EXCEPT !.items = I] \in Contents
         /\ AsTold([c EXCEPT !.items = I], [w EXCEPT !.items = I], {})
         /\ [c EXCEPT !.items = c.items \cup I] \in Contents
         /\ AsTold([c EXCEPT !.items = c.items \cup I], w, s \cup I)
  BY DEF Contents, AsTold

LEMMA InitCore == Init => Core
  BY EmptyTyped DEF Init, Core, Typed, OneWriter, AsTold

(* One step of a request thread. *)
LEMMA RequestCore ==
  ASSUME Core, used \subseteq Hooks, NEW t \in DbThreads,
         \/ CreateWebhook(t) \/ DeleteWebhook(t) \/ CreatePending(t)
         \/ Upsert(t) \/ DeleteDocument(t) \/ Read(t) \/ Retire(t)
  PROVE  Core'
<1> DEFINE b == Base(t)
<1>0. /\ b \in Contents /\ AsTold(b, told, torn) /\ told \in Contents
      /\ db \in Contents /\ torn \subseteq Items
  BY BaseAsTold DEF Core, Typed
<1>1. CASE CreateWebhook(t)
  <2>1. PICK w \in Hooks \ used :
          /\ \/ Stores(t, With(b, w)) /\ told' = With(told, w)
             \/ LockedOut(t) /\ told' = told
          /\ torn' = torn
    BY <1>1 DEF CreateWebhook
  <2>2. /\ With(b, w) \in Contents /\ With(told, w) \in Contents
        /\ AsTold(With(b, w), With(told, w), torn)
    BY <1>0, WithTyped
  <2> QED BY <1>0, <2>1, <2>2, CommitCore, LockedOutCore DEF Stores
<1>2. CASE DeleteWebhook(t)
  <2>1. PICK w \in db.hooks :
          /\ \/ Stores(t, Without(b, w)) /\ told' = Without(told, w)
             \/ LockedOut(t) /\ told' = told
          /\ torn' = torn
    BY <1>2 DEF DeleteWebhook
  <2>2. w \in Hooks
    BY <1>0 DEF Contents
  <2>3. /\ Without(b, w) \in Contents /\ Without(told, w) \in Contents
        /\ AsTold(Without(b, w), Without(told, w), torn)
    BY <1>0, <2>2, WithTyped
  <2> QED BY <1>0, <2>1, <2>3, CommitCore, LockedOutCore DEF Stores
<1>3. CASE CreatePending(t)
  <2>1. /\ Stores(t, b) \/ Refused(t, b) \/ LockedOut(t)
        /\ told' = told /\ torn' = torn
    BY <1>3 DEF CreatePending
  <2> QED BY <1>0, <2>1, CommitCore, RefusedCore, LockedOutCore DEF Stores
<1>4. CASE Upsert(t)
  <2>1. CASE /\ Stores(t, [b EXCEPT !.items = Items])
             /\ told' = [told EXCEPT !.items = Items] /\ torn' = {}
    <3>1. /\ [b EXCEPT !.items = Items] \in Contents /\ told' \in Contents
          /\ AsTold([b EXCEPT !.items = Items], told', {})
      BY <1>0, <2>1, ItemsTyped
    <3> QED BY <2>1, <3>1, CommitCore DEF Stores
  <2>2. ASSUME NEW part \in SUBSET Items,
               Refused(t, [b EXCEPT !.items = b.items \cup part]),
               torn' = torn \cup part, told' = told
        PROVE  Core'
    <3>1. /\ [b EXCEPT !.items = b.items \cup part] \in Contents
          /\ AsTold([b EXCEPT !.items = b.items \cup part], told, torn')
      BY <1>0, <2>2, ItemsTyped
    <3> QED BY <1>0, <2>2, <3>1, RefusedCore
  <2>3. CASE LockedOut(t) /\ UNCHANGED <<told, torn>>
    BY <2>3, LockedOutCore
  <2> QED BY <1>4, <2>1, <2>2, <2>3 DEF Upsert
<1>5. CASE DeleteDocument(t)
  <2>1. CASE /\ Stores(t, [b EXCEPT !.items = {}])
             /\ told' = [told EXCEPT !.items = {}] /\ torn' = {}
    <3>1. /\ [b EXCEPT !.items = {}] \in Contents /\ told' \in Contents
          /\ AsTold([b EXCEPT !.items = {}], told', {})
      BY <1>0, <2>1, ItemsTyped
    <3> QED BY <2>1, <3>1, CommitCore DEF Stores
  <2>2. CASE LockedOut(t) /\ UNCHANGED <<told, torn>>
    BY <2>2, LockedOutCore
  <2> QED BY <1>5, <2>1, <2>2 DEF DeleteDocument
<1>6. CASE Read(t)
  BY <1>6, SelectCore DEF Read
<1>7. CASE Retire(t)
  BY <1>7, RollbackCore DEF Retire
<1> QED BY <1>1, <1>2, <1>3, <1>4, <1>5, <1>6, <1>7

-----------------------------------------------------------------------------
(* The whole invariant: ids are not given out twice, a row the emitter has   *)
(* not come to is not there, and the worker holds nothing between ticks.     *)
Ids ==
  /\ used \subseteq Hooks /\ listed \subseteq used /\ todo \subseteq listed
  /\ db.hooks \subseteq used /\ \A t \in DbThreads : seen[t].hooks \subseteq used
  /\ event \in 0 .. MaxEvents /\ (listed # {} => event # 0)

NotYet(r) == r[2] > event \/ (r[2] = event /\ r[1] \in todo)

Clean ==
  /\ WorkerIsClean
  /\ pc \in {"recover", "claim", "record"} /\ claimed \subseteq Rows
  /\ pc # "record" => claimed = {}
  /\ \A r \in Rows : NotYet(r) => db.row[r] = "none" /\ r \notin claimed

Safe == Core /\ Ids /\ Clean /\ FanOutReaches

LEMMA RowsParts ==
  \A r \in Rows : r[1] \in Hooks /\ r[2] \in 1 .. MaxEvents /\ r = <<r[1], r[2]>>
  BY DEF Rows

LEMMA BaseIs ==
  ASSUME Core, NEW t \in DbThreads
  PROVE  Base(t).hooks = db.hooks /\ Base(t).row = db.row
  BY BaseAsTold DEF Core, AsTold

LEMMA InitSafe == StoreAssumption /\ Init => Safe
<1> SUFFICES ASSUME StoreAssumption, Init PROVE Safe
  OBVIOUS
<1>1. Core
  BY InitCore
<1>2. Ids
  BY DEF Init, Ids, Empty, StoreAssumption
<1>3. Clean
  BY DEF Init, Clean, WorkerIsClean, Empty, DbThreads
<1>4. FanOutReaches
  BY DEF Init, FanOutReaches
<1> QED BY <1>1, <1>2, <1>3, <1>4 DEF Safe

(* What a request does to webhooks and rows. *)
RequestEffect ==
  /\ used \subseteq used' /\ used' \subseteq Hooks /\ SeenFrom
  /\ db'.hooks \subseteq db.hooks \cup (used' \ used)
  /\ \A r \in Rows : \/ db'.row[r] = db.row[r]
                     \/ db'.row[r] = "none" /\ r[1] \notin db'.hooks
  /\ tx'[Worker] = tx[Worker]
  /\ UNCHANGED <<actors, listed, kept_out>>

LEMMA RequestHas ==
  ASSUME StoreAssumption, Core, used \subseteq Hooks, NEW t \in Requests,
         \/ CreateWebhook(t) \/ DeleteWebhook(t) \/ CreatePending(t)
         \/ Upsert(t) \/ DeleteDocument(t) \/ Read(t) \/ Retire(t)
  PROVE  RequestEffect
<1> DEFINE b == Base(t)
<1>0. /\ t \in DbThreads /\ Worker \in DbThreads /\ Worker # t
      /\ b \in Contents /\ b.hooks = db.hooks /\ b.row = db.row
      /\ db \in Contents /\ told \in Contents /\ AsTold(b, told, torn) /\ torn \subseteq Items
  BY BaseAsTold, BaseIs DEF DbThreads, StoreAssumption, Core, Typed
<1>1. CASE CreateWebhook(t)
  <2>1. PICK w \in Hooks \ used :
          /\ \/ Stores(t, With(b, w)) /\ told' = With(told, w) /\ used' = used \cup {w}
             \/ LockedOut(t) /\ told' = told /\ used' = used
          /\ torn' = torn /\ UNCHANGED <<actors, listed, kept_out>>
    BY <1>1 DEF CreateWebhook
  <2>2. /\ With(b, w) \in Contents /\ With(told, w) \in Contents
        /\ AsTold(With(b, w), With(told, w), torn)
    BY <1>0, WithTyped
  <2>3. With(b, w).hooks = db.hooks \cup {w} /\ With(b, w).row = db.row
    BY <1>0 DEF With, Contents
  <2>4. CASE LockedOut(t) /\ told' = told /\ used' = used
    BY <1>0, <2>1, <2>4, LockedOutCore DEF RequestEffect
  <2>5. CASE Stores(t, With(b, w)) /\ told' = With(told, w) /\ used' = used \cup {w}
    BY <1>0, <2>1, <2>2, <2>3, <2>5, CommitCore DEF RequestEffect, Stores
  <2> QED BY <2>1, <2>4, <2>5
<1>2. CASE DeleteWebhook(t)
  <2>1. PICK w \in db.hooks :
          /\ \/ Stores(t, Without(b, w)) /\ told' = Without(told, w)
             \/ LockedOut(t) /\ told' = told
          /\ torn' = torn /\ UNCHANGED <<actors, listed, kept_out, used>>
    BY <1>2 DEF DeleteWebhook
  <2>2. /\ w \in Hooks /\ Without(b, w) \in Contents /\ Without(told, w) \in Contents
        /\ AsTold(Without(b, w), Without(told, w), torn)
    BY <1>0, WithTyped DEF Contents
  <2>3. /\ Without(b, w).hooks = db.hooks \ {w}
        /\ Without(b, w).row = [r \in Rows |-> IF r[1] = w THEN "none" ELSE db.row[r]]
    BY <1>0 DEF Without, Contents
  <2>4. CASE LockedOut(t) /\ told' = told
    BY <1>0, <2>1, <2>4, LockedOutCore DEF RequestEffect
  <2>5. CASE Stores(t, Without(b, w)) /\ told' = Without(told, w)
    <3>1. /\ db' = Without(b, w) /\ SeenFrom /\ tx'[Worker] = tx[Worker]
      BY <1>0, <2>1, <2>2, <2>5, CommitCore DEF Stores
    <3> QED BY <2>1, <2>3, <3>1 DEF RequestEffect
  <2> QED BY <2>1, <2>4, <2>5
<1>3. CASE CreatePending(t)
  <2>1. /\ Stores(t, b) \/ Refused(t, b) \/ LockedOut(t)
        /\ UNCHANGED <<told, torn, used, actors, listed, kept_out>>
    BY <1>3 DEF CreatePending
  <2> QED BY <1>0, <2>1, CommitCore, RefusedCore, LockedOutCore DEF RequestEffect, Stores
<1>4. CASE Upsert(t)
  <2>u. UNCHANGED <<actors, listed, used, kept_out>>
    BY <1>4 DEF Upsert
  <2>1. CASE /\ Stores(t, [b EXCEPT !.items = Items])
             /\ told' = [told EXCEPT !.items = Items] /\ torn' = {}
    <3>1. /\ [b EXCEPT !.items = Items] \in Contents /\ told' \in Contents
          /\ AsTold([b EXCEPT !.items = Items], told', {})
      BY <1>0, <2>1, ItemsTyped
    <3>2. /\ [b EXCEPT !.items = Items].hooks = db.hooks
          /\ [b EXCEPT !.items = Items].row = db.row
      BY <1>0 DEF Contents
    <3> QED BY <1>0, <2>u, <2>1, <3>1, <3>2, CommitCore DEF Stores, RequestEffect
  <2>2. ASSUME NEW part \in SUBSET Items,
               Refused(t, [b EXCEPT !.items = b.items \cup part]),
               torn' = torn \cup part, told' = told
        PROVE  RequestEffect
    <3>1. /\ [b EXCEPT !.items = b.items \cup part] \in Contents
          /\ AsTold([b EXCEPT !.items = b.items \cup part], told, torn')
      BY <1>0, <2>2, ItemsTyped
    <3> QED BY <1>0, <2>u, <2>2, <3>1, RefusedCore DEF RequestEffect
  <2>3. CASE LockedOut(t) /\ UNCHANGED <<told, torn>>
    BY <1>0, <2>u, <2>3, LockedOutCore DEF RequestEffect
  <2> QED BY <1>4, <2>1, <2>2, <2>3 DEF Upsert
<1>5. CASE DeleteDocument(t)
  <2>u. UNCHANGED <<actors, listed, used, kept_out>>
    BY <1>5 DEF DeleteDocument
  <2>1. CASE /\ Stores(t, [b EXCEPT !.items = {}])
             /\ told' = [told EXCEPT !.items = {}] /\ torn' = {}
    <3>1. /\ [b EXCEPT !.items = {}] \in Contents /\ told' \in Contents
          /\ AsTold([b EXCEPT !.items = {}], told', {})
      BY <1>0, <2>1, ItemsTyped
    <3>2. /\ [b EXCEPT !.items = {}].hooks = db.hooks /\ [b EXCEPT !.items = {}].row = db.row
      BY <1>0 DEF Contents
    <3> QED BY <1>0, <2>u, <2>1, <3>1, <3>2, CommitCore DEF Stores, RequestEffect
  <2>2. CASE LockedOut(t) /\ UNCHANGED <<told, torn>>
    BY <1>0, <2>u, <2>2, LockedOutCore DEF RequestEffect
  <2> QED BY <1>5, <2>1, <2>2 DEF DeleteDocument
<1>6. CASE Read(t)
  BY <1>0, <1>6, SelectCore DEF Read, RequestEffect
<1>7. CASE Retire(t)
  BY <1>0, <1>7, RollbackCore DEF Retire, RequestEffect
<1> QED BY <1>1, <1>2, <1>3, <1>4, <1>5, <1>6, <1>7

LEMMA RequestSafe ==
  ASSUME StoreAssumption, Safe, NEW t \in Requests,
         \/ CreateWebhook(t) \/ DeleteWebhook(t) \/ CreatePending(t)
         \/ Upsert(t) \/ DeleteDocument(t) \/ Read(t) \/ Retire(t)
  PROVE  Safe'
<1>1. RequestEffect /\ t \in DbThreads /\ used \subseteq Hooks
  BY RequestHas DEF Safe, Ids, DbThreads
<1>2. Core'
  BY <1>1, RequestCore DEF Safe
<1>3. Ids'
  BY <1>1 DEF Safe, Ids, RequestEffect, SeenFrom
<1>4. Clean'
  <2>1. \A r \in Rows : NotYet(r)' <=> NotYet(r)
    BY <1>1 DEF RequestEffect, NotYet
  <2> QED BY <1>1, <2>1 DEF Safe, Clean, WorkerIsClean, RequestEffect
<1>5. FanOutReaches'
  <2> SUFFICES ASSUME NEW w \in (listed' \ todo') \cap db'.hooks
               PROVE  db'.row[<<w, event>>] # "none" \/ <<w, event>> \in kept_out
    BY <1>1 DEF FanOutReaches, RequestEffect
  <2>1. w \in (listed \ todo) \cap db.hooks
    BY <1>1 DEF RequestEffect, Safe, Ids
  <2>2. <<w, event>> \in Rows
    BY <1>1, <2>1 DEF Rows, Safe, Ids, RequestEffect
  <2> QED BY <1>1, <2>1, <2>2 DEF RequestEffect, Safe, FanOutReaches
<1> QED BY <1>2, <1>3, <1>4, <1>5 DEF Safe

-----------------------------------------------------------------------------
(* The worker changes rows that are there to a status that is not "none".    *)
WorkerEffect(S, status) ==
  /\ db'.hooks = db.hooks /\ SeenFrom
  /\ \A r \in Rows : db'.row[r] = IF r \in S /\ db.row[r] # "none" THEN status ELSE db.row[r]
  /\ UNCHANGED <<event, todo, listed, used, kept_out>>

LEMMA WorkerMoves ==
  ASSUME StoreAssumption, Safe, Core', NEW S, NEW status \in Status \ {"none"},
         WorkerEffect(S, status)
  PROVE  /\ Ids' /\ FanOutReaches'
         /\ \A r \in Rows : NotYet(r) => db'.row[r] = "none"
         /\ \A r \in Rows : NotYet(r)' <=> NotYet(r)
<1>1. Ids'
  BY DEF Safe, Ids, WorkerEffect, SeenFrom
<1>2. FanOutReaches'
  <2> SUFFICES ASSUME NEW w \in (listed \ todo) \cap db.hooks
               PROVE  db'.row[<<w, event>>] # "none" \/ <<w, event>> \in kept_out
    BY DEF FanOutReaches, WorkerEffect
  <2>1. <<w, event>> \in Rows
    BY DEF Rows, Safe, Ids
  <2> QED BY <2>1 DEF WorkerEffect, Safe, FanOutReaches
<1>3. \A r \in Rows : NotYet(r) => db'.row[r] = "none"
  BY DEF Safe, Clean, WorkerEffect
<1>4. \A r \in Rows : NotYet(r)' <=> NotYet(r)
  BY DEF NotYet, WorkerEffect
<1> QED BY <1>1, <1>2, <1>3, <1>4

(* A write of the worker, its rollback, a write it is locked out of. *)
LEMMA WorkerStores ==
  ASSUME StoreAssumption, Safe, NEW S, NEW status \in Status, NEW c \in Contents,
         AsTold(c, told, torn), Free(Worker), Commit(Worker, Now(c, S, status)),
         told' = Now(told, S, status), UNCHANGED <<event, todo, listed, used, kept_out, torn>>
  PROVE  Core' /\ WorkerEffect(S, status) /\ tx'[Worker] = "none"
<1>1. /\ Worker \in DbThreads /\ told \in Contents /\ torn \subseteq Items
      /\ c.hooks = db.hooks /\ c.row = db.row
  BY DEF DbThreads, Safe, Core, Typed, AsTold
<1>2. /\ Now(c, S, status) \in Contents /\ Now(told, S, status) \in Contents
      /\ AsTold(Now(c, S, status), Now(told, S, status), torn)
  BY <1>1, NowTyped
<1>3. /\ Now(c, S, status).hooks = db.hooks
      /\ Now(c, S, status).row =
           [r \in Rows |-> IF r \in S /\ db.row[r] # "none" THEN status ELSE db.row[r]]
  BY <1>1 DEF Now, Contents
<1>4. Core' /\ db' = Now(c, S, status) /\ SeenFrom /\ tx'[Worker] = "none"
  BY <1>1, <1>2, CommitCore DEF Safe
<1> QED BY <1>3, <1>4 DEF WorkerEffect

LEMMA WorkerFails ==
  ASSUME StoreAssumption, Safe, Rollback({Worker}) \/ LockedOut(Worker),
         UNCHANGED <<event, todo, listed, used, kept_out, told, torn>>
  PROVE  /\ Core' /\ WorkerEffect({}, "queued") /\ db' = db
         /\ tx'[Worker] \in {"none", "begun"}
         /\ Rollback({Worker}) => tx'[Worker] = "none"
<1>1. Worker \in DbThreads /\ {Worker} \in SUBSET DbThreads /\ tx[Worker] \in {"none", "begun"}
  BY DEF DbThreads, Safe, Clean, WorkerIsClean
<1>2. ASSUME Rollback({Worker}) PROVE Core' /\ db' = db /\ SeenFrom /\ tx'[Worker] = "none"
  BY <1>1, <1>2, RollbackCore DEF Safe
<1>3. ASSUME LockedOut(Worker)
      PROVE  Core' /\ db' = db /\ SeenFrom /\ tx'[Worker] = "begun"
  BY <1>1, <1>3, LockedOutCore DEF Safe
<1> QED BY <1>2, <1>3 DEF WorkerEffect

LEMMA TickRecoverSafe == ASSUME StoreAssumption, Safe, TickRecover PROVE Safe'
<1>0. /\ Base(Worker) \in Contents /\ AsTold(Base(Worker), told, torn)
      /\ "queued" \in Status \ {"none"} /\ claimed = {} /\ pc' = "claim" /\ claimed' = claimed
      /\ UNCHANGED <<event, todo, listed, used, kept_out, torn>>
  BY BaseAsTold DEF DbThreads, Safe, Status, Clean, TickRecover
<1>1. \E S : Core' /\ WorkerEffect(S, "queued") /\ tx'[Worker] = "none"
  <2>1. \/ \E S : Stores(Worker, Now(Base(Worker), S, "queued"))
                  /\ told' = Now(told, S, "queued")
        \/ Rollback({Worker}) /\ told' = told
    BY DEF TickRecover
  <2> QED BY <1>0, <2>1, WorkerStores, WorkerFails DEF Stores
<1>2. PICK S : Core' /\ WorkerEffect(S, "queued") /\ tx'[Worker] = "none"
  BY <1>1
<1>3. /\ Ids' /\ FanOutReaches'
      /\ \A r \in Rows : NotYet(r)' => db'.row[r] = "none"
  BY <1>0, <1>2, WorkerMoves
<1>4. Clean'
  BY <1>0, <1>2, <1>3 DEF Clean, WorkerIsClean
<1> QED BY <1>2, <1>3, <1>4 DEF Safe

LEMMA TickClaimSafe == ASSUME StoreAssumption, Safe, TickClaim PROVE Safe'
<1>0. /\ db \in Contents /\ AsTold(db, told, torn) /\ "in_flight" \in Status \ {"none"}
      /\ "queued" \in Status \ {"none"} /\ claimed = {}
      /\ UNCHANGED <<event, todo, listed, used, kept_out, torn>>
  BY DEF Safe, Core, Typed, Status, Clean, TickClaim
<1>1. ASSUME NEW S \in SUBSET Having("queued"), tx[Worker] = "none", Free(Worker),
             Commit(Worker, Now(db, S, "in_flight")), told' = Now(told, S, "in_flight"),
             claimed' = S, pc' = IF S = {} THEN "recover" ELSE "record"
      PROVE  Safe'
  <2>1. Core' /\ WorkerEffect(S, "in_flight") /\ tx'[Worker] = "none"
    BY <1>0, <1>1, WorkerStores
  <2>2. /\ Ids' /\ FanOutReaches'
        /\ \A r \in Rows : NotYet(r) => db'.row[r] = "none"
        /\ \A r \in Rows : NotYet(r)' <=> NotYet(r)
    BY <1>0, <2>1, WorkerMoves
  <2>3. \A r \in S : r \in Rows /\ db.row[r] = "queued" /\ db'.row[r] = "in_flight"
    BY <1>1, <2>1 DEF Having, WorkerEffect
  <2>4. \A r \in Rows : NotYet(r) => r \notin S
    BY <2>3 DEF Safe, Clean
  <2>5. Clean'
    BY <1>1, <2>1, <2>2, <2>3, <2>4 DEF Clean, WorkerIsClean
  <2> QED BY <2>1, <2>2, <2>5 DEF Safe
<1>2. CASE Rollback({Worker}) /\ pc' = "recover" /\ UNCHANGED <<claimed, told>>
  <2>1. Core' /\ WorkerEffect({}, "queued") /\ tx'[Worker] = "none"
    BY <1>0, <1>2, WorkerFails
  <2>2. /\ Ids' /\ FanOutReaches'
        /\ \A r \in Rows : NotYet(r)' => db'.row[r] = "none"
    BY <1>0, <2>1, WorkerMoves
  <2>3. Clean'
    BY <1>0, <1>2, <2>1, <2>2 DEF Clean, WorkerIsClean
  <2> QED BY <2>1, <2>2, <2>3 DEF Safe
<1> QED BY <1>1, <1>2 DEF TickClaim

LEMMA RecordSafe == ASSUME StoreAssumption, Safe, RecordAttempt PROVE Safe'
<1>0. /\ Base(Worker) \in Contents /\ AsTold(Base(Worker), told, torn)
      /\ "queued" \in Status \ {"none"} /\ "success" \in Status \ {"none"}
  BY BaseAsTold DEF DbThreads, Safe, Status
<1>1. PICK r \in claimed, outcome \in {"success", "queued"} :
        /\ \/ /\ Stores(Worker, Now(Base(Worker), {r}, outcome))
              /\ told' = Now(told, {r}, outcome) /\ claimed' = claimed \ {r}
           \/ LockedOut(Worker) /\ claimed' = {} /\ told' = told
        /\ pc' = IF claimed' = {} THEN "recover" ELSE "record"
        /\ UNCHANGED <<event, todo, listed, used, kept_out, torn>>
  BY DEF RecordAttempt
<1>2. CASE /\ Stores(Worker, Now(Base(Worker), {r}, outcome))
           /\ told' = Now(told, {r}, outcome) /\ claimed' = claimed \ {r}
  <2>1. Core' /\ WorkerEffect({r}, outcome) /\ tx'[Worker] = "none"
    BY <1>0, <1>1, <1>2, WorkerStores DEF Stores
  <2>2. /\ Ids' /\ FanOutReaches'
        /\ \A s \in Rows : NotYet(s) => db'.row[s] = "none"
        /\ \A s \in Rows : NotYet(s)' <=> NotYet(s)
    BY <1>0, <2>1, WorkerMoves
  <2>3. \A s \in claimed' : s \in Rows /\ db'.row[s] = db.row[s]
    BY <1>2, <2>1 DEF WorkerEffect, Safe, Clean
  <2>4. Clean'
    BY <1>1, <1>2, <2>1, <2>2, <2>3 DEF Clean, WorkerIsClean, Safe
  <2> QED BY <2>1, <2>2, <2>4 DEF Safe
<1>3. CASE LockedOut(Worker) /\ claimed' = {} /\ told' = told
  <2>1. Core' /\ WorkerEffect({}, "queued") /\ tx'[Worker] \in {"none", "begun"}
    BY <1>0, <1>1, <1>3, WorkerFails
  <2>2. /\ Ids' /\ FanOutReaches'
        /\ \A s \in Rows : NotYet(s)' => db'.row[s] = "none"
    BY <1>0, <2>1, WorkerMoves
  <2>3. Clean'
    BY <1>1, <1>3, <2>1, <2>2 DEF Clean, WorkerIsClean
  <2> QED BY <2>1, <2>2, <2>3 DEF Safe
<1> QED BY <1>1, <1>2, <1>3

-----------------------------------------------------------------------------
(* The emitter, the restarts, and the theorems.                             *)
LEMMA ListSafe == ASSUME StoreAssumption, Safe, ListRecords PROVE Safe'
<1>1. /\ todo = {} /\ event < MaxEvents /\ event' = event + 1 /\ event \in Nat
      /\ todo' = View(Emitter).hooks /\ listed' = todo' /\ Select(Emitter)
      /\ UNCHANGED <<pc, claimed, used, told, kept_out, torn>>
      /\ Emitter \in DbThreads /\ Worker \in DbThreads /\ Worker # Emitter /\ MaxEvents \in Nat
  BY DEF ListRecords, DbThreads, StoreAssumption, Safe, Ids
<1>2. Core' /\ db' = db /\ SeenFrom /\ tx'[Worker] = tx[Worker]
  BY <1>1, SelectCore DEF Safe
<1>3. View(Emitter).hooks \subseteq used
  BY <1>1, BaseIs DEF View, Safe, Ids
<1>4. Ids'
  BY <1>1, <1>2, <1>3 DEF Safe, Ids, SeenFrom
<1>5. \A r \in Rows : NotYet(r)' => NotYet(r)
  <2> SUFFICES ASSUME NEW r \in Rows, NotYet(r)' PROVE r[2] > event
    BY DEF NotYet
  <2>1. r[2] \in Nat /\ r[2] >= event + 1
    BY <1>1, RowsParts DEF NotYet
  <2> QED BY <1>1, <2>1
<1>6. Clean'
  BY <1>1, <1>2, <1>5 DEF Safe, Clean, WorkerIsClean
<1>7. FanOutReaches'
  BY <1>1 DEF FanOutReaches
<1> QED BY <1>2, <1>4, <1>6, <1>7 DEF Safe

LEMMA EnqueueSafe == ASSUME StoreAssumption, Safe, Enqueue PROVE Safe'
<1> DEFINE b == Base(Emitter)
<1>1. PICK w \in todo :
        LET r == <<w, event>> IN
        /\ \/ w \in b.hooks /\ Stores(Emitter, Queue(b, r)) /\ told' = Queue(told, r)
                /\ kept_out' = kept_out
           \/ w \notin b.hooks /\ Refused(Emitter, b) /\ UNCHANGED <<told, kept_out>>
           \/ LockedOut(Emitter) /\ kept_out' = kept_out \cup {r} /\ told' = told
        /\ todo' = todo \ {w}
        /\ UNCHANGED <<pc, claimed, event, listed, used, torn>>
  BY DEF Enqueue
<1> DEFINE r == <<w, event>>
<1>2. /\ r \in Rows /\ NotYet(r) /\ w \in listed
      /\ Emitter \in DbThreads /\ Worker \in DbThreads /\ Worker # Emitter
      /\ b \in Contents /\ b.hooks = db.hooks /\ b.row = db.row /\ AsTold(b, told, torn)
      /\ told \in Contents /\ torn \subseteq Items
  BY <1>1, BaseAsTold, BaseIs
     DEF Safe, Ids, Rows, NotYet, DbThreads, StoreAssumption, Core, Typed
<1>3. Core' /\ SeenFrom /\ db'.hooks = db.hooks /\ tx'[Worker] = tx[Worker]
      /\ \/ /\ w \in db.hooks /\ kept_out' = kept_out
            /\ \A s \in Rows : db'.row[s] = IF s = r THEN "queued" ELSE db.row[s]
         \/ w \notin db.hooks /\ kept_out' = kept_out /\ db' = db
         \/ kept_out' = kept_out \cup {r} /\ db' = db
  <2>1. CASE w \in b.hooks /\ Stores(Emitter, Queue(b, r)) /\ told' = Queue(told, r)
             /\ kept_out' = kept_out
    <3>1. /\ Queue(b, r) \in Contents /\ told' \in Contents /\ torn' = torn
          /\ AsTold(Queue(b, r), told', torn)
      BY <1>1, <1>2, <2>1, QueueTyped
    <3>2. /\ Queue(b, r).hooks = db.hooks
          /\ \A s \in Rows : Queue(b, r).row[s] = IF s = r THEN "queued" ELSE db.row[s]
      BY <1>2 DEF Queue, Contents
    <3>3. Core' /\ SeenFrom /\ db' = Queue(b, r) /\ tx'[Worker] = tx[Worker]
      BY <1>2, <2>1, <3>1, CommitCore DEF Stores, Safe
    <3> QED BY <1>2, <2>1, <3>2, <3>3
  <2>2. CASE w \notin b.hooks /\ Refused(Emitter, b) /\ UNCHANGED <<told, kept_out>>
    <3>1. Core' /\ SeenFrom /\ db' = db /\ tx'[Worker] = tx[Worker]
      BY <1>1, <1>2, <2>2, RefusedCore DEF Safe
    <3> QED BY <1>2, <2>2, <3>1
  <2>3. CASE LockedOut(Emitter) /\ kept_out' = kept_out \cup {r} /\ told' = told
    <3>1. Core' /\ SeenFrom /\ db' = db /\ tx'[Worker] = tx[Worker]
      BY <1>1, <1>2, <2>3, LockedOutCore DEF Safe
    <3> QED BY <2>3, <3>1
  <2> QED BY <1>1, <2>1, <2>2, <2>3
<1>4. Ids'
  BY <1>1, <1>3 DEF Safe, Ids, SeenFrom
<1>5. \A s \in Rows : NotYet(s)' => NotYet(s) /\ s # r
  BY <1>1 DEF NotYet, Safe, Ids
<1>6. Clean'
  <2>1. \A s \in Rows : NotYet(s)' => db'.row[s] = "none" /\ s \notin claimed
    BY <1>3, <1>5 DEF Safe, Clean
  <2>2. \A s \in claimed : s # r /\ s \in Rows
    BY <1>2 DEF Safe, Clean
  <2> QED BY <1>1, <1>3, <2>1, <2>2 DEF Safe, Clean, WorkerIsClean
<1>7. FanOutReaches'
  <2> SUFFICES ASSUME NEW v \in (listed \ (todo \ {w})) \cap db.hooks
               PROVE  db'.row[<<v, event>>] # "none" \/ <<v, event>> \in kept_out'
    BY <1>1, <1>3 DEF FanOutReaches
  <2>1. <<v, event>> \in Rows
    BY <1>2 DEF Rows, Safe, Ids
  <2>2. CASE v = w
    BY <1>2, <1>3, <2>2
  <2>3. CASE v # w
    <3>1. db.row[<<v, event>>] # "none" \/ <<v, event>> \in kept_out
      BY <2>3 DEF Safe, FanOutReaches
    <3> QED BY <1>3, <2>1, <2>3, <3>1
  <2> QED BY <2>2, <2>3
<1> QED BY <1>3, <1>4, <1>6, <1>7 DEF Safe

LEMMA RestartApiSafe == ASSUME StoreAssumption, Safe, RestartApi PROVE Safe'
<1>1. /\ Rollback(Requests \cup {Worker}) /\ pc' = "recover" /\ claimed' = {}
      /\ UNCHANGED <<event, todo, history>>
      /\ Requests \cup {Worker} \in SUBSET DbThreads /\ Worker \in DbThreads
  BY DEF RestartApi, DbThreads
<1>2. Core' /\ db' = db /\ SeenFrom /\ tx'[Worker] = "none"
  BY <1>1, RollbackCore DEF Safe
<1>3. \A r \in Rows : NotYet(r)' <=> NotYet(r)
  BY <1>1 DEF NotYet
<1> QED BY <1>1, <1>2, <1>3
     DEF Safe, Ids, SeenFrom, Clean, WorkerIsClean, FanOutReaches

LEMMA RestartDaemonSafe == ASSUME StoreAssumption, Safe, RestartDaemon PROVE Safe'
<1>1. /\ Rollback({Emitter}) /\ todo' = {} /\ listed' = {}
      /\ UNCHANGED <<pc, claimed, event, used, told, kept_out, torn>>
      /\ {Emitter} \in SUBSET DbThreads /\ Worker \in DbThreads /\ Worker # Emitter
  BY DEF RestartDaemon, DbThreads, StoreAssumption
<1>2. Core' /\ db' = db /\ SeenFrom /\ tx'[Worker] = tx[Worker]
  BY <1>1, RollbackCore DEF Safe
<1>3. \A r \in Rows : NotYet(r)' => NotYet(r)
  BY <1>1 DEF NotYet
<1> QED BY <1>1, <1>2, <1>3
     DEF Safe, Ids, SeenFrom, Clean, WorkerIsClean, FanOutReaches

LEMMA StepSafe == StoreAssumption /\ Safe /\ [Next]_vars => Safe'
<1> SUFFICES ASSUME StoreAssumption, Safe, [Next]_vars PROVE Safe'
  OBVIOUS
<1>1. CASE UNCHANGED vars
  BY <1>1 DEF vars, Safe, Core, Typed, OneWriter, AsTold, Ids, Clean, WorkerIsClean,
              NotYet, FanOutReaches
<1> QED
  BY <1>1, RequestSafe, TickRecoverSafe, TickClaimSafe, RecordSafe, ListSafe, EnqueueSafe,
     RestartApiSafe, RestartDaemonSafe DEF Next

(* The types need two more parts: what the emitter records as kept out are   *)
(* rows, and restarts are bounded.                                          *)
Recorded == kept_out \subseteq Rows /\ faults \in 0 .. MaxFaults

LEMMA InitRecorded == StoreAssumption /\ Init => Recorded
  BY DEF Init, Recorded, StoreAssumption

LEMMA SafeIsAsTold == Safe => DatabaseIsAsTold
  BY CoreIsEnough DEF Safe

LEMMA SafeIsLocal == Safe => FanOutReaches /\ WorkerIsClean
  BY DEF Safe, Clean

LEMMA RecordedStep == StoreAssumption /\ Safe /\ Recorded /\ [Next]_vars => Recorded'
<1> SUFFICES ASSUME StoreAssumption, Safe, Recorded, [Next]_vars PROVE Recorded'
  OBVIOUS
<1>1. CASE UNCHANGED vars
  BY <1>1 DEF vars, Recorded
<1>2. ASSUME NEW t \in Requests,
             \/ CreateWebhook(t) \/ DeleteWebhook(t) \/ CreatePending(t)
             \/ Upsert(t) \/ DeleteDocument(t) \/ Read(t) \/ Retire(t)
      PROVE  UNCHANGED <<kept_out, faults>>
  BY <1>2 DEF CreateWebhook, DeleteWebhook, CreatePending, Upsert, DeleteDocument, Read, Retire
<1>3. CASE TickRecover \/ TickClaim \/ RecordAttempt \/ ListRecords
  BY <1>3 DEF TickRecover, TickClaim, RecordAttempt, ListRecords, Recorded
<1>4. CASE Enqueue
  <2>1. todo \subseteq Hooks /\ event \in 0 .. MaxEvents /\ (todo # {} => event # 0)
    BY DEF Safe, Ids
  <2>2. \A w \in todo : <<w, event>> \in Rows
    BY <2>1 DEF Rows, StoreAssumption
  <2>3. kept_out' \subseteq Rows /\ faults' = faults
    BY <1>4, <2>2 DEF Enqueue, Recorded
  <2> QED BY <2>3 DEF Recorded
<1>5. CASE RestartApi \/ RestartDaemon
  <2>1. kept_out' = kept_out /\ faults < MaxFaults /\ faults' = faults + 1
    BY <1>5 DEF RestartApi, RestartDaemon
  <2> QED BY <2>1 DEF Recorded, StoreAssumption
<1> QED BY <1>1, <1>2, <1>3, <1>4, <1>5 DEF Next, Recorded

LEMMA TypesFollow == Safe /\ Recorded => TypeOK
<1> SUFFICES ASSUME Safe, Recorded PROVE TypeOK
  OBVIOUS
<1>1. \A c \in {db, draft, told} :
        /\ c.hooks \subseteq Hooks /\ c.items \subseteq Items
        /\ c.row \in [Rows -> {"none", "queued", "in_flight", "success"}]
  BY DEF Safe, Core, Typed, Contents, Status
<1>2. /\ tx \in [DbThreads -> {"none", "begun", "read", "write"}]
      /\ stale \in [DbThreads -> BOOLEAN] /\ torn \subseteq Items
  BY DEF Safe, Core, Typed
<1>3. /\ pc \in {"recover", "claim", "record"} /\ claimed \subseteq Rows
      /\ event \in 0 .. MaxEvents /\ todo \subseteq Hooks /\ used \subseteq Hooks
  BY DEF Safe, Clean, Ids
<1>4. kept_out \subseteq Rows /\ faults \in 0 .. MaxFaults
  BY DEF Recorded
<1> QED BY <1>1, <1>2, <1>3, <1>4 DEF TypeOK

(* The contents are of their types, and so is what every actor keeps.        *)
THEOREM ContentsKeepTheirTypes == ASSUME StoreAssumption PROVE Spec => []TypeOK
<1>1. Init => Safe /\ Recorded
  BY InitSafe, InitRecorded
<1>2. Safe /\ Recorded /\ [Next]_vars => Safe' /\ Recorded'
  BY StepSafe, RecordedStep
<1>3. Safe /\ Recorded => TypeOK
  BY TypesFollow
<1> QED BY <1>1, <1>2, <1>3, PTL DEF Spec

(* A webhooks or materials file never loses what a caller was told is stored  *)
(* and never holds what one was told has failed, but for rows of a batch      *)
(* refused half way: for any number of threads, webhooks, items and restarts. *)
THEOREM FileIsAsTold == ASSUME StoreAssumption PROVE Spec => []DatabaseIsAsTold
<1>1. Init => Safe
  BY InitSafe
<1>2. Safe /\ [Next]_vars => Safe'
  BY StepSafe
<1>3. Safe => DatabaseIsAsTold
  BY SafeIsAsTold
<1> QED BY <1>1, <1>2, <1>3, PTL DEF Spec

(* tick_once: the worker comes to every claim without a transaction of its    *)
(* own, and sends only rows whose claim is committed.                         *)
THEOREM WorkerStaysClean == ASSUME StoreAssumption PROVE Spec => []WorkerIsClean
<1>1. Init => Safe
  BY InitSafe
<1>2. Safe /\ [Next]_vars => Safe'
  BY StepSafe
<1>3. Safe => WorkerIsClean
  BY SafeIsLocal
<1> QED BY <1>1, <1>2, <1>3, PTL DEF Spec

(* _emit_async: a webhook whose row is refused or locked out keeps no other   *)
(* webhook from its row.                                                     *)
THEOREM FanOutIsComplete == ASSUME StoreAssumption PROVE Spec => []FanOutReaches
<1>1. Init => Safe
  BY InitSafe
<1>2. Safe /\ [Next]_vars => Safe'
  BY StepSafe
<1>3. Safe => FanOutReaches
  BY SafeIsLocal
<1> QED BY <1>1, <1>2, <1>3, PTL DEF Spec
=============================================================================
