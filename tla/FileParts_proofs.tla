-------------------------- MODULE FileParts_proofs --------------------------
(***************************************************************************)
(* Proofs about the files, for any documents, threads, webhooks, items,     *)
(* cycles and bounds: the two SQLite files are as told and no failure       *)
(* spreads (over the lemmas of StoreTransactions_proofs), a migration       *)
(* destroys and hides nothing, every document has its place; at the end     *)
(* the intake of materials (the unqualified names of FileParts).            *)
(***************************************************************************)
EXTENDS FileParts, FiniteSetTheorems, TLAPS

(* The transactions are proved about in StoreTransactions_proofs; the two      *)
(* files are instances of it.                                               *)
WebhookProofs == INSTANCE StoreTransactions_proofs WITH
  Requests <- Threads, Items <- {}, pc <- tick, MaxFaults <- MaxRestarts,
  faults <- restarts

TableProofs == INSTANCE StoreTransactions_proofs WITH
  Requests <- Threads, Hooks <- {}, MaxEvents <- 0, pc <- tick,
  MaxFaults <- MaxRestarts, faults <- restarts

(* The definitions of an instance of StoreTransactions and of the instance of *)
(* its proofs are the same, name by name.                                   *)
LEMMA WebhookInit == Webhooks!Init => WebhookProofs!Init
  BY Zenon DEF Webhooks!Init, Webhooks!Empty, Webhooks!Rows, Webhooks!DbThreads,
               WebhookProofs!Init, WebhookProofs!Empty, WebhookProofs!Rows,
               WebhookProofs!DbThreads

LEMMA WebhookNext == Webhooks!Next => WebhookProofs!Next
  BY Zenon
    DEF Webhooks!DbThreads, Webhooks!Rows, Webhooks!files, Webhooks!actors,
        Webhooks!history, Webhooks!vars, Webhooks!Empty, Webhooks!Init,
        Webhooks!Free, Webhooks!Fresh, Webhooks!Base, Webhooks!View,
        Webhooks!Close, Webhooks!Rollback, Webhooks!Commit, Webhooks!Stores,
        Webhooks!Refused, Webhooks!LockedOut, Webhooks!Select, Webhooks!Without,
        Webhooks!With, Webhooks!CreateWebhook, Webhooks!DeleteWebhook,
        Webhooks!CreatePending, Webhooks!Upsert, Webhooks!DeleteDocument,
        Webhooks!Read, Webhooks!Retire, Webhooks!Now, Webhooks!Having,
        Webhooks!TickRecover, Webhooks!TickClaim, Webhooks!RecordAttempt,
        Webhooks!ListRecords, Webhooks!Queue, Webhooks!Enqueue,
        Webhooks!RestartApi, Webhooks!RestartDaemon, Webhooks!Next,
        WebhookProofs!DbThreads, WebhookProofs!Rows, WebhookProofs!files,
        WebhookProofs!actors, WebhookProofs!history, WebhookProofs!vars,
        WebhookProofs!Empty, WebhookProofs!Init, WebhookProofs!Free,
        WebhookProofs!Fresh, WebhookProofs!Base, WebhookProofs!View,
        WebhookProofs!Close, WebhookProofs!Rollback, WebhookProofs!Commit,
        WebhookProofs!Stores, WebhookProofs!Refused, WebhookProofs!LockedOut,
        WebhookProofs!Select, WebhookProofs!Without, WebhookProofs!With,
        WebhookProofs!CreateWebhook, WebhookProofs!DeleteWebhook,
        WebhookProofs!CreatePending, WebhookProofs!Upsert,
        WebhookProofs!DeleteDocument, WebhookProofs!Read, WebhookProofs!Retire,
        WebhookProofs!Now, WebhookProofs!Having, WebhookProofs!TickRecover,
        WebhookProofs!TickClaim, WebhookProofs!RecordAttempt,
        WebhookProofs!ListRecords, WebhookProofs!Queue, WebhookProofs!Enqueue,
        WebhookProofs!RestartApi, WebhookProofs!RestartDaemon, WebhookProofs!Next

LEMMA WebhookAssumption == WebhookProofs!StoreAssumption
  BY TransactionsAssumption DEF Webhooks!StoreAssumption, WebhookProofs!StoreAssumption

LEMMA WebhookTypes == WebhookProofs!TypeOK => Webhooks!TypeOK
  BY Zenon DEF Webhooks!TypeOK, Webhooks!Rows, Webhooks!DbThreads,
               WebhookProofs!TypeOK, WebhookProofs!Rows, WebhookProofs!DbThreads

LEMMA WebhookAsTold == WebhookProofs!DatabaseIsAsTold => Webhooks!DatabaseIsAsTold
  BY Zenon DEF Webhooks!DatabaseIsAsTold, WebhookProofs!DatabaseIsAsTold

LEMMA WebhookFrame ==
  ASSUME WebhookProofs!Safe, WebhookProofs!Recorded, UNCHANGED storeVars
  PROVE  WebhookProofs!Safe' /\ WebhookProofs!Recorded'
<1>1. UNCHANGED WebhookProofs!vars
  BY DEF storeVars, WebhookProofs!vars, WebhookProofs!files, WebhookProofs!actors,
         WebhookProofs!history
<1> QED BY <1>1, WebhookAssumption, WebhookProofs!StepSafe, WebhookProofs!RecordedStep

LEMMA TableInit == Tables!Init => TableProofs!Init
  BY Zenon DEF Tables!Init, Tables!Empty, Tables!Rows, Tables!DbThreads,
               TableProofs!Init, TableProofs!Empty, TableProofs!Rows, TableProofs!DbThreads

LEMMA TableNext == Tables!Next => TableProofs!Next
  BY Zenon
    DEF Tables!DbThreads, Tables!Rows, Tables!files, Tables!actors, Tables!history,
        Tables!vars, Tables!Empty, Tables!Init, Tables!Free, Tables!Fresh,
        Tables!Base, Tables!View, Tables!Close, Tables!Rollback, Tables!Commit,
        Tables!Stores, Tables!Refused, Tables!LockedOut, Tables!Select,
        Tables!Without, Tables!With, Tables!CreateWebhook, Tables!DeleteWebhook,
        Tables!CreatePending, Tables!Upsert, Tables!DeleteDocument, Tables!Read,
        Tables!Retire, Tables!Now, Tables!Having, Tables!TickRecover,
        Tables!TickClaim, Tables!RecordAttempt, Tables!ListRecords, Tables!Queue,
        Tables!Enqueue, Tables!RestartApi, Tables!RestartDaemon, Tables!Next,
        TableProofs!DbThreads, TableProofs!Rows, TableProofs!files,
        TableProofs!actors, TableProofs!history, TableProofs!vars,
        TableProofs!Empty, TableProofs!Init, TableProofs!Free, TableProofs!Fresh,
        TableProofs!Base, TableProofs!View, TableProofs!Close,
        TableProofs!Rollback, TableProofs!Commit, TableProofs!Stores,
        TableProofs!Refused, TableProofs!LockedOut, TableProofs!Select,
        TableProofs!Without, TableProofs!With, TableProofs!CreateWebhook,
        TableProofs!DeleteWebhook, TableProofs!CreatePending, TableProofs!Upsert,
        TableProofs!DeleteDocument, TableProofs!Read, TableProofs!Retire,
        TableProofs!Now, TableProofs!Having, TableProofs!TickRecover,
        TableProofs!TickClaim, TableProofs!RecordAttempt, TableProofs!ListRecords,
        TableProofs!Queue, TableProofs!Enqueue, TableProofs!RestartApi,
        TableProofs!RestartDaemon, TableProofs!Next

LEMMA TableAssumption == TableProofs!StoreAssumption
  BY TransactionsAssumption DEF Tables!StoreAssumption, TableProofs!StoreAssumption

LEMMA TableTypes == TableProofs!TypeOK => Tables!TypeOK
  BY Zenon DEF Tables!TypeOK, Tables!Rows, Tables!DbThreads,
               TableProofs!TypeOK, TableProofs!Rows, TableProofs!DbThreads

LEMMA TableAsTold == TableProofs!DatabaseIsAsTold => Tables!DatabaseIsAsTold
  BY Zenon DEF Tables!DatabaseIsAsTold, TableProofs!DatabaseIsAsTold

LEMMA TableFrame ==
  ASSUME TableProofs!Safe, TableProofs!Recorded, UNCHANGED storeVars
  PROVE  TableProofs!Safe' /\ TableProofs!Recorded'
<1>1. UNCHANGED TableProofs!vars
  BY DEF storeVars, TableProofs!vars, TableProofs!files, TableProofs!actors,
         TableProofs!history
<1> QED BY <1>1, TableAssumption, TableProofs!StepSafe, TableProofs!RecordedStep

LEMMA FanOut == WebhookProofs!FanOutReaches => Webhooks!FanOutReaches
  BY Zenon DEF Webhooks!FanOutReaches, WebhookProofs!FanOutReaches

LEMMA WorkerClean == WebhookProofs!WorkerIsClean => Webhooks!WorkerIsClean
  BY Zenon DEF Webhooks!WorkerIsClean, WebhookProofs!WorkerIsClean

Stored ==
  /\ at = "webhooks" => WebhookProofs!Safe /\ WebhookProofs!Recorded
  /\ at = "tables" => TableProofs!Safe /\ TableProofs!Recorded

LEMMA StoredStep == Stored /\ [AllNext]_allVars => Stored'
<1> SUFFICES ASSUME Stored, [AllNext]_allVars PROVE Stored'
  OBVIOUS
<1>1. at' = at /\ (at \notin {"webhooks", "tables"} => UNCHANGED storeVars)
      /\ (at = "webhooks" => Webhooks!Next \/ UNCHANGED storeVars)
      /\ (at = "tables" => Tables!Next \/ UNCHANGED storeVars)
  BY DEF AllNext, allVars
<1>2. CASE at = "webhooks"
  <2>1. WebhookProofs!Safe /\ WebhookProofs!Recorded
    BY <1>2 DEF Stored
  <2>2. CASE Webhooks!Next
    <3>1. WebhookProofs!Next
      BY <2>2, WebhookNext
    <3>2. WebhookProofs!Safe' /\ WebhookProofs!Recorded'
      BY <3>1, <2>1, WebhookAssumption, WebhookProofs!StepSafe, WebhookProofs!RecordedStep
    <3> QED BY <3>2, <1>1, <1>2 DEF Stored
  <2>3. CASE UNCHANGED storeVars
    <3>1. WebhookProofs!Safe' /\ WebhookProofs!Recorded'
      BY <2>1, <2>3, WebhookFrame
    <3> QED BY <3>1, <1>1, <1>2 DEF Stored
  <2> QED BY <1>1, <1>2, <2>2, <2>3
<1>3. CASE at = "tables"
  <2>1. TableProofs!Safe /\ TableProofs!Recorded
    BY <1>3 DEF Stored
  <2>2. CASE Tables!Next
    <3>1. TableProofs!Next
      BY <2>2, TableNext
    <3>2. TableProofs!Safe' /\ TableProofs!Recorded'
      BY <3>1, <2>1, TableAssumption, TableProofs!StepSafe, TableProofs!RecordedStep
    <3> QED BY <3>2, <1>1, <1>3 DEF Stored
  <2>3. CASE UNCHANGED storeVars
    <3>1. TableProofs!Safe' /\ TableProofs!Recorded'
      BY <2>1, <2>3, TableFrame
    <3> QED BY <3>1, <1>1, <1>3 DEF Stored
  <2> QED BY <1>1, <1>3, <2>2, <2>3
<1>4. CASE at \notin {"webhooks", "tables"}
  BY <1>1, <1>4 DEF Stored
<1> QED BY <1>2, <1>3, <1>4

LEMMA InitStored == AllInit => Stored
<1> SUFFICES ASSUME AllInit PROVE Stored
  OBVIOUS
<1>1. ASSUME at = "webhooks" PROVE WebhookProofs!Safe /\ WebhookProofs!Recorded
  <2>1. WebhookProofs!Init
    BY <1>1, WebhookInit DEF AllInit
  <2> QED BY <2>1, WebhookAssumption, WebhookProofs!InitSafe, WebhookProofs!InitRecorded
<1>2. ASSUME at = "tables" PROVE TableProofs!Safe /\ TableProofs!Recorded
  <2>1. TableProofs!Init
    BY <1>2, TableInit DEF AllInit
  <2> QED BY <2>1, TableAssumption, TableProofs!InitSafe, TableProofs!InitRecorded
<1> QED BY <1>1, <1>2 DEF Stored

(* Both SQLite files hold what their callers were told, whatever transactions *)
(* are left open, carried on or dropped (deliveries_repo, webhooks_repo and   *)
(* materials/store without a rollback), for any threads, webhooks, items,     *)
(* events and restarts.                                                      *)
THEOREM FilesAreAsTold == AllSpec => []DatabaseIsAsTold
<1>1. Stored => DatabaseIsAsTold
  <2>1. WebhookProofs!Safe /\ WebhookProofs!Recorded
          => Webhooks!TypeOK /\ Webhooks!DatabaseIsAsTold
    BY WebhookProofs!TypesFollow, WebhookTypes, WebhookProofs!SafeIsAsTold, WebhookAsTold
  <2>2. TableProofs!Safe /\ TableProofs!Recorded
          => Tables!TypeOK /\ Tables!DatabaseIsAsTold
    BY TableProofs!TypesFollow, TableTypes, TableProofs!SafeIsAsTold, TableAsTold
  <2> QED BY <2>1, <2>2 DEF Stored, DatabaseIsAsTold
<1> QED BY <1>1, InitStored, StoredStep, PTL DEF AllSpec

(* tick_once and _emit_async: a webhook that is gone or locked out keeps no   *)
(* other webhook from its row, and no failed tick leaves the worker a         *)
(* transaction it would carry into the next claim.                          *)
THEOREM FailuresRemainLocal == AllSpec => []FailuresStayLocal
<1>1. Stored => FailuresStayLocal
  <2>1. WebhookProofs!Safe => WebhookProofs!FanOutReaches /\ WebhookProofs!WorkerIsClean
    BY WebhookProofs!SafeIsLocal
  <2> QED BY <2>1, FanOut, WorkerClean DEF Stored, FailuresStayLocal
<1> QED BY <1>1, InitStored, StoredStep, PTL DEF AllSpec

-----------------------------------------------------------------------------
(* The migration.  A table with the composite key has all columns; the rows   *)
(* aside are dropped only when the table has them; and while no start was cut *)
(* short the table aside exists only inside the script.                     *)
Migrating ==
  /\ Schema!TypeOK /\ Schema!ReadyMeansMigrated /\ Schema!NothingErased
  /\ pk = "doc_seq" => cols = Schema!Columns
  /\ pk = "absent" => table = {}
  /\ start = "info" => pk # "absent"
  /\ start = "rename" => pk = "doc"
  /\ start = "rebuild" => pk = "absent"
  /\ start \in {"copy", "drop", "ready"} => pk = "doc_seq"
  /\ start = "drop" => legacy \subseteq table
  /\ cuts = 0 /\ hasAside => start \in {"rebuild", "copy", "drop"}

LEMMA InitMigrating == Schema!Init => Migrating
<1> SUFFICES ASSUME Schema!Init PROVE Migrating
  OBVIOUS
<1>1. info \in [pk : {"absent", "doc", "doc_seq"}, cols : SUBSET Schema!Columns]
  BY DEF Schema!Init, Schema!NoInfo
<1>2. /\ pk \in {"absent", "doc", "doc_seq"} /\ cols \subseteq Schema!Columns
      /\ table \subseteq Legacy /\ (pk = "absent" => table = {})
      /\ (pk = "doc_seq" => cols = Schema!Columns)
  BY DEF Schema!Init
<1>3. /\ aside = {} /\ hasAside = FALSE /\ start = "down" /\ legacy = table
      /\ cuts = 0 /\ MaxCuts \in Nat
  BY MigrationAssumption DEF Schema!Init, Schema!SchemaAssumption
<1>4. cuts \in 0 .. MaxCuts
  BY <1>3
<1>5. Schema!TypeOK
  BY <1>1, <1>2, <1>3, <1>4, Zenon DEF Schema!TypeOK
<1> QED BY <1>2, <1>3, <1>5
        DEF Migrating, Schema!ReadyMeansMigrated, Schema!NothingErased

LEMMA MigratingStep == Migrating /\ Schema!Next => Migrating'
<1> SUFFICES ASSUME Migrating, Schema!Next PROVE Migrating'
  OBVIOUS
<1> USE MigrationAssumption
    DEF Migrating, Schema!TypeOK, Schema!ReadyMeansMigrated, Schema!NothingErased,
        Schema!Columns, Schema!NoInfo, Schema!SchemaAssumption
<1>1. CASE Schema!Start
  BY <1>1 DEF Schema!Start
<1>2. CASE Schema!Create
  BY <1>2 DEF Schema!Create, Schema!CreateTable
<1>3. CASE Schema!ReadInfo
  BY <1>3 DEF Schema!ReadInfo
<1>4. CASE Schema!AddColumn
  BY <1>4 DEF Schema!AddColumn
<1>5. CASE Schema!DecideRebuild
  BY <1>5 DEF Schema!DecideRebuild
<1>6. CASE Schema!Rename
  BY <1>6 DEF Schema!Rename
<1>7. CASE Schema!Rebuild
  BY <1>7 DEF Schema!Rebuild, Schema!CreateTable
<1>8. CASE Schema!Copy
  BY <1>8 DEF Schema!Copy
<1>9. CASE Schema!Drop
  BY <1>9 DEF Schema!Drop
<1>10. CASE Schema!Backup
  BY <1>10 DEF Schema!Backup
<1>11. CASE Schema!Delete
  BY <1>11 DEF Schema!Delete
<1>12. CASE Schema!Stop
  BY <1>12 DEF Schema!Stop
<1>13. CASE Schema!Crash
  BY <1>13 DEF Schema!Crash
<1> QED BY <1>1, <1>2, <1>3, <1>4, <1>5, <1>6, <1>7, <1>8, <1>9, <1>10, <1>11, <1>12, <1>13
        DEF Schema!Next

LEMMA MigratingIsEnough == Migrating => MigrationIsSafe
  BY DEF Migrating, MigrationIsSafe, Schema!TypeOK, Schema!NothingErased, Schema!NothingStranded

-----------------------------------------------------------------------------
(* The documents.  What is aside of the types: a version is in the tree or in *)
(* the archive, and there once; a planned document that is not in the archive *)
(* is in the tree, with its report, and when its report is still to be moved  *)
(* then so is the document.                                                 *)
Archived(d) == \E a \in archive : a.doc = d

Months == {Documents!Month(d) : d \in Dates}

Filed ==
  /\ version \in [Documents!DocNames -> Nat] /\ tree \in [Documents!DocNames -> Nat]
  /\ \A a \in archive : a.doc \in Documents!DocNames /\ a.month \in Months
                        /\ a.version \in 1 .. version[a.doc]
  /\ archive \subseteq [doc : Documents!DocNames, month : Months, version : Nat]

OnePlace ==
  /\ \A d \in Documents!DocNames : tree[d] \in 0 .. version[d]
  /\ \A a \in archive : tree[a.doc] # a.version
  /\ \A a, b \in archive : a.doc = b.doc /\ a.version = b.version => a = b
  /\ \A d \in Documents!DocNames : \A v \in 1 .. version[d] :
       tree[d] = v \/ \E a \in archive : a.doc = d /\ a.version = v

Headed ==
  /\ head \in [Slugs -> [date : Dates \cup {0}, status : Documents!Statuses]]
  /\ phase \in {"idle", "plan", "move"} /\ DOMAIN metas \subseteq Slugs
  /\ \A s \in DOMAIN metas : metas[s].date \in Dates \cup {0}
  /\ phase = "plan" => \A s \in DOMAIN metas : tree[Documents!Report(s)] # 0

Planned ==
  /\ planned \subseteq Documents!DocNames
  /\ phase # "move" => moves = {}
  /\ moves \subseteq [doc : planned, month : Months]
  /\ \A m \in moves : tree[m.doc] # 0
  /\ \A m, n \in moves : m.doc = n.doc => m = n

Findable ==
  /\ \A d \in planned : Archived(d) \/ (tree[d] # 0 /\ tree[Documents!Report(d[1])] # 0)
  /\ \A m \in moves : \A d \in planned :
       m.doc = Documents!Report(d[1]) => Archived(d) \/ \E n \in moves : n.doc = d

Conserved == Filed /\ OnePlace /\ Headed /\ Planned /\ Findable

-----------------------------------------------------------------------------
LEMMA DocParts ==
  /\ \A d \in Documents!DocNames : d[1] \in Slugs /\ d[2] \in 1 .. 4 /\ d = <<d[1], d[2]>>
  /\ \A s \in Slugs : Documents!Report(s) \in Documents!DocNames
  /\ \A s \in Slugs : Documents!Report(s)[1] = s /\ Documents!Report(s)[2] = 4
  BY DEF Documents!DocNames, Documents!Kinds, Documents!Report

LEMMA InitConserved == Documents!Init => Conserved
<1> SUFFICES ASSUME Documents!Init PROVE Conserved
  OBVIOUS
<1>0. /\ tree \in [Documents!DocNames -> {0, 1}] /\ version = tree /\ archive = {}
      /\ head \in [Slugs -> [date : Dates \cup {0}, status : Documents!Statuses]]
      /\ phase = "idle" /\ metas = <<>> /\ moves = {} /\ planned = {}
  BY DEF Documents!Init, Documents!Unparsed
<1>1. Filed
  BY <1>0 DEF Filed
<1>2. OnePlace
  BY <1>0 DEF OnePlace
<1>3. Headed
  BY <1>0 DEF Headed
<1>4. Planned
  BY <1>0 DEF Planned
<1>5. Findable
  BY <1>0 DEF Findable
<1> QED BY <1>1, <1>2, <1>3, <1>4, <1>5 DEF Conserved

LEMMA WriteConserved ==
  ASSUME Conserved, NEW d \in Documents!DocNames, Documents!Write(d)
  PROVE  Conserved'
<1>0. /\ tree[d] = 0 /\ version' = [version EXCEPT ![d] = version[d] + 1]
      /\ tree' = [tree EXCEPT ![d] = version[d] + 1]
      /\ UNCHANGED <<archive, head, phase, cutoff, metas, moves, planned>>
  BY DEF Documents!Write, Documents!run
<1>1. /\ \A e \in Documents!DocNames : e # d => version'[e] = version[e] /\ tree'[e] = tree[e]
      /\ version'[d] = version[d] + 1 /\ tree'[d] = version[d] + 1 /\ version[d] \in Nat
      /\ version' \in [Documents!DocNames -> Nat] /\ tree' \in [Documents!DocNames -> Nat]
  BY <1>0 DEF Conserved, Filed
<1>2. \A e \in Documents!DocNames : (tree[e] # 0 => tree'[e] # 0)
                                    /\ 1 .. version[e] \subseteq 1 .. version'[e]
  BY <1>1 DEF Conserved, Filed
<1>3. Filed'
  BY <1>0, <1>1, <1>2 DEF Conserved, Filed, Months
<1>4. OnePlace'
  <2>1. \A e \in Documents!DocNames : tree'[e] \in 0 .. version'[e]
    BY <1>1 DEF Conserved, OnePlace
  <2>2. \A a \in archive : tree'[a.doc] # a.version
    BY <1>1 DEF Conserved, OnePlace, Filed
  <2>3. \A e \in Documents!DocNames : \A v \in 1 .. version'[e] :
          tree'[e] = v \/ \E a \in archive : a.doc = e /\ a.version = v
    <3> TAKE e \in Documents!DocNames
    <3> TAKE v \in 1 .. version'[e]
    <3>1. CASE e # d
      BY <3>1, <1>1 DEF Conserved, OnePlace
    <3>2. CASE e = d /\ v = version[d] + 1
      BY <3>2, <1>1
    <3>3. CASE e = d /\ v # version[d] + 1
      <4>1. v \in 1 .. version[d] /\ tree[d] # v
        BY <3>3, <1>0, <1>1
      <4> QED BY <4>1, <3>3 DEF Conserved, OnePlace
    <3> QED BY <3>1, <3>2, <3>3
  <2> QED BY <2>1, <2>2, <2>3, <1>0 DEF Conserved, OnePlace
<1>5. Headed'
  BY <1>0, <1>2, DocParts DEF Conserved, Headed
<1>6. Planned'
  BY <1>0, <1>2 DEF Conserved, Planned, Months
<1>7. Findable'
  BY <1>0, <1>2, DocParts DEF Conserved, Findable, Planned, Archived
<1> QED BY <1>3, <1>4, <1>5, <1>6, <1>7 DEF Conserved

LEMMA RewriteConserved ==
  ASSUME Conserved, NEW s \in Slugs, Documents!Rewrite(s)
  PROVE  Conserved'
<1>0. /\ head' \in [Slugs -> [date : Dates \cup {0}, status : Documents!Statuses]]
      /\ UNCHANGED <<version, tree, archive, phase, cutoff, metas, moves, planned>>
  <2>1. PICK h \in [date : Dates, status : Documents!Statuses] : head' = [head EXCEPT ![s] = h]
    BY DEF Documents!Rewrite
  <2>2. h \in [date : Dates \cup {0}, status : Documents!Statuses]
    OBVIOUS
  <2> QED BY <2>1, <2>2 DEF Documents!Rewrite, Documents!run, Conserved, Headed
<1> QED BY <1>0 DEF Conserved, Filed, OnePlace, Headed, Planned, Findable, Archived, Months

LEMMA DiscoverConserved == ASSUME Conserved, Documents!Discover PROVE Conserved'
<1>0. /\ phase = "idle" /\ phase' = "plan"
      /\ UNCHANGED <<version, tree, archive, head, moves, planned>>
  BY DEF Documents!Discover
<1>1. PICK unreadable \in SUBSET Slugs :
        metas' = [s \in {s \in Slugs : tree[Documents!Report(s)] # 0} |->
                    IF s \in unreadable THEN [date |-> 0, status |-> "none"] ELSE head[s]]
  BY DEF Documents!Discover, Documents!Unparsed
<1>2. DOMAIN metas' = {s \in Slugs : tree[Documents!Report(s)] # 0}
  BY <1>1
<1>3. \A s \in DOMAIN metas' : metas'[s].date \in Dates \cup {0}
  BY <1>1, <1>2 DEF Conserved, Headed
<1>4. Headed'
  BY <1>0, <1>2, <1>3 DEF Conserved, Headed
<1> QED BY <1>0, <1>4 DEF Conserved, Filed, OnePlace, Planned, Findable, Archived, Months

LEMMA PlanConserved == ASSUME Conserved, Documents!BuildPlan PROVE Conserved'
<1>0. /\ phase = "plan" /\ phase' = "move" /\ moves = {}
      /\ moves' = UNION {Documents!Siblings(s) : s \in {s \in Slugs : Documents!Eligible(s)}}
      /\ planned' = planned \cup {m.doc : m \in moves'}
      /\ UNCHANGED <<version, tree, archive, head, cutoff, metas>>
  BY DEF Documents!BuildPlan, Conserved, Planned
<1> DEFINE Target(s) == Documents!Month(metas[s].date)
           Move(s, k) == [doc |-> <<s, k>>, month |-> Target(s)]
<1>1. \A s \in Slugs : Documents!Eligible(s) => /\ s \in DOMAIN metas /\ Target(s) \in Months
                                               /\ tree[Documents!Report(s)] # 0
  BY <1>0 DEF Documents!Eligible, Documents!Unparsed, Conserved, Headed, Months
<1>2. \A s \in Slugs, k \in 1 .. 4 : Documents!Eligible(s) /\ tree[<<s, k>>] # 0
                                     => Move(s, k) \in moves'
  <2> TAKE s \in Slugs, k \in 1 .. 4
  <2> HAVE Documents!Eligible(s) /\ tree[<<s, k>>] # 0
  <2>1. Move(s, k) \in Documents!Siblings(s)
    BY DEF Documents!Siblings, Documents!Kinds
  <2> QED BY <2>1, <1>0
<1>3. \A m \in moves' : \E s \in Slugs, k \in 1 .. 4 :
        Documents!Eligible(s) /\ tree[<<s, k>>] # 0 /\ m = Move(s, k)
  <2> TAKE m \in moves'
  <2>1. PICK s \in Slugs : Documents!Eligible(s) /\ m \in Documents!Siblings(s)
    BY <1>0
  <2>2. PICK k \in 1 .. 4 : tree[<<s, k>>] # 0 /\ m = Move(s, k)
    BY <2>1 DEF Documents!Siblings, Documents!Kinds
  <2> QED BY <2>1, <2>2
<1> HIDE DEF Target
<1>4. \A m \in moves' :
        /\ m.doc \in Documents!DocNames /\ m.doc \in planned'
        /\ Documents!Eligible(m.doc[1]) /\ tree[m.doc] # 0
        /\ m = Move(m.doc[1], m.doc[2])
  <2> TAKE m \in moves'
  <2>1. PICK s \in Slugs, k \in 1 .. 4 :
          Documents!Eligible(s) /\ tree[<<s, k>>] # 0 /\ m = Move(s, k)
    BY <1>3
  <2>2. m.doc = <<s, k>>
    BY <2>1
  <2> QED BY <2>1, <2>2, <1>0 DEF Documents!DocNames, Documents!Kinds
<1> HIDE DEF Move
<1>5. \A s \in Slugs, k \in 1 .. 4 : Move(s, k).doc = <<s, k>> /\ Move(s, k).month = Target(s)
                                     /\ Move(s, k) = [doc |-> <<s, k>>, month |-> Target(s)]
  BY DEF Move
<1>6. Planned'
  <2>1. planned' \subseteq Documents!DocNames
    BY <1>0, <1>4 DEF Conserved, Planned
  <2>2. \A m \in moves' : m \in [doc : planned', month : Months]
    <3> TAKE m \in moves'
    <3>1. m.doc[1] \in Slugs /\ m.doc[2] \in 1 .. 4 /\ m.doc = <<m.doc[1], m.doc[2]>>
      BY <1>4, DocParts
    <3>2. m = [doc |-> m.doc, month |-> Target(m.doc[1])]
      BY <1>4, <1>5, <3>1
    <3>3. Target(m.doc[1]) \in Months /\ m.doc \in planned'
      BY <1>4, <1>1, <3>1
    <3> QED BY <3>2, <3>3
  <2>3. Months' = Months
    BY DEF Months
  <2> QED BY <1>0, <1>4, <2>1, <2>2, <2>3 DEF Planned
<1>7. Findable'
  <2>1. \A d \in planned' :
          Archived(d) \/ (tree[d] # 0 /\ tree[Documents!Report(d[1])] # 0)
    BY <1>0, <1>1, <1>4, DocParts DEF Conserved, Findable
  <2>2. \A m \in moves' : \A d \in planned' :
          m.doc = Documents!Report(d[1]) => Archived(d) \/ \E n \in moves' : n.doc = d
    <3> TAKE m \in moves'
    <3> TAKE d \in planned'
    <3> SUFFICES ASSUME m.doc = Documents!Report(d[1]), ~Archived(d)
                 PROVE  \E n \in moves' : n.doc = d
      OBVIOUS
    <3>1. d \in Documents!DocNames /\ tree[d] # 0
      BY <2>1, <1>6 DEF Planned
    <3>2. d[1] \in Slugs /\ d[2] \in 1 .. 4 /\ d = <<d[1], d[2]>> /\ m.doc[1] = d[1]
      BY <3>1, DocParts
    <3>3. Move(d[1], d[2]) \in moves' /\ Move(d[1], d[2]).doc = d
      BY <3>1, <3>2, <1>2, <1>4, <1>5
    <3> QED BY <3>3
  <2> QED BY <2>1, <2>2, <1>0 DEF Findable, Archived
<1>8. Filed' /\ OnePlace' /\ Headed'
  BY <1>0 DEF Conserved, Filed, OnePlace, Headed, Months
<1> QED BY <1>6, <1>7, <1>8 DEF Conserved

LEMMA MoveConserved == ASSUME Conserved, Documents!Move PROVE Conserved'
<1>0. PICK m \in moves :
        /\ phase = "move"
        /\ \A n \in moves : Documents!Before(m.doc, n.doc)
        /\ IF Documents!Taken(m) THEN UNCHANGED <<tree, archive>>
           ELSE /\ archive' = archive \cup
                     {[doc |-> m.doc, month |-> m.month, version |-> tree[m.doc]]}
                /\ tree' = [tree EXCEPT ![m.doc] = 0]
        /\ moves' = moves \ {m}
        /\ UNCHANGED <<version, head, phase, cutoff, metas, planned>>
  BY DEF Documents!Move
<1>1. /\ m.doc \in planned /\ m.doc \in Documents!DocNames /\ m.month \in Months
      /\ tree[m.doc] # 0 /\ tree[m.doc] \in Nat /\ tree[m.doc] \in 1 .. version[m.doc]
  <2>1. /\ m.doc \in planned /\ m.month \in Months /\ tree[m.doc] # 0
        /\ m.doc \in Documents!DocNames
    BY DEF Conserved, Planned
  <2>2. tree[m.doc] \in Nat /\ version[m.doc] \in Nat /\ tree[m.doc] \in 0 .. version[m.doc]
    BY <2>1 DEF Conserved, Filed, OnePlace
  <2> QED BY <2>1, <2>2
<1> DEFINE new == [doc |-> m.doc, month |-> m.month, version |-> tree[m.doc]]
<1>2. archive \subseteq archive'
  BY <1>0
<1>3. \E a \in archive' : a.doc = m.doc
  <2>1. CASE Documents!Taken(m)
    BY <2>1, <1>2 DEF Documents!Taken
  <2>2. CASE ~Documents!Taken(m)
    <3>1. new \in archive' /\ new.doc = m.doc
      BY <2>2, <1>0
    <3> QED BY <3>1
  <2> QED BY <2>1, <2>2
<1>4. \A d \in Documents!DocNames : d # m.doc => tree'[d] = tree[d]
  BY <1>0, <1>1 DEF Conserved, Filed
<1>5. Filed' /\ OnePlace'
  <2>1. CASE Documents!Taken(m)
    BY <2>1, <1>0 DEF Conserved, Filed, OnePlace, Months
  <2>2. CASE ~Documents!Taken(m)
    <3>1. /\ archive' = archive \cup {new} /\ tree' = [tree EXCEPT ![m.doc] = 0]
          /\ version' = version
      BY <2>2, <1>0
    <3>2. new.doc = m.doc /\ new.month = m.month /\ new.version = tree[m.doc]
      OBVIOUS
    <3>3. new \in [doc : Documents!DocNames, month : Months, version : Nat]
      BY <1>1
    <3> HIDE DEF new
    <3>4. Filed'
      <4>1. tree' \in [Documents!DocNames -> Nat]
        BY <3>1 DEF Conserved, Filed
      <4>2. \A a \in archive' : a.doc \in Documents!DocNames /\ a.month \in Months
                                /\ a.version \in 1 .. version[a.doc]
        BY <3>1, <3>2, <1>1 DEF Conserved, Filed
      <4>3. archive' \subseteq [doc : Documents!DocNames, month : Months, version : Nat]
        BY <3>1, <3>3 DEF Conserved, Filed
      <4> QED BY <4>1, <4>2, <4>3, <3>1 DEF Conserved, Filed, Months
    <3>5. tree'[m.doc] = 0 /\ tree'[m.doc] \in 0 .. version[m.doc]
      BY <3>1, <1>1 DEF Conserved, Filed
    <3>6. \A d \in Documents!DocNames : tree'[d] \in 0 .. version'[d]
      BY <3>1, <3>5, <1>4 DEF Conserved, OnePlace
    <3>7. \A a \in archive' : tree'[a.doc] # a.version
      <4> TAKE a \in archive'
      <4>1. a.doc \in Documents!DocNames /\ a.version \in 1 .. version[a.doc] /\ a.version # 0
        BY <3>1, <3>2, <1>1 DEF Conserved, Filed
      <4>2. CASE a.doc = m.doc
        BY <4>1, <4>2, <3>5
      <4>3. CASE a.doc # m.doc
        BY <4>1, <4>3, <1>4, <3>1, <3>2 DEF Conserved, OnePlace
      <4> QED BY <4>2, <4>3
    <3>8. \A a, b \in archive' : a.doc = b.doc /\ a.version = b.version => a = b
      BY <3>1, <3>2 DEF Conserved, OnePlace
    <3>9. \A d \in Documents!DocNames : \A v \in 1 .. version'[d] :
            tree'[d] = v \/ \E a \in archive' : a.doc = d /\ a.version = v
      BY <3>1, <3>2, <1>4 DEF Conserved, OnePlace
    <3> QED BY <3>4, <3>6, <3>7, <3>8, <3>9 DEF OnePlace
  <2> QED BY <2>1, <2>2
<1>6. Headed'
  BY <1>0 DEF Conserved, Headed
<1>7. Planned'
  <2>1. \A n \in moves' : n \in moves /\ n.doc # m.doc /\ n.doc \in planned
                          /\ tree'[n.doc] = tree[n.doc]
    BY <1>0, <1>4 DEF Conserved, Planned
  <2> QED BY <1>0, <2>1 DEF Conserved, Planned, Months
<1>8. Findable'
  <2>1. \A d \in planned : Archived(d) => \E a \in archive' : a.doc = d
    BY <1>2 DEF Archived
  <2>2. \A d \in planned : m.doc = Documents!Report(d[1]) => \E a \in archive' : a.doc = d
    <3> TAKE d \in planned
    <3> HAVE m.doc = Documents!Report(d[1])
    <3>1. CASE Archived(d)
      BY <3>1, <2>1
    <3>2. CASE ~Archived(d)
      <4>1. PICK n \in moves : n.doc = d
        BY <3>2 DEF Conserved, Findable
      <4>2. d \in Documents!DocNames
        BY DEF Conserved, Planned
      <4>3. /\ d[1] \in Slugs /\ d[2] \in 1 .. 4 /\ d = <<d[1], d[2]>>
            /\ m.doc[1] = d[1] /\ m.doc[2] = 4
        BY <4>2, DocParts
      <4>4. d[1] < d[1] \/ 4 <= d[2]
        BY <1>0, <4>1, <4>3 DEF Documents!Before
      <4>5. d[1] \in Nat
        BY <4>3, DocumentsAssumption DEF Documents!ArchiveAssumption
      <4>6. d = m.doc
        BY <4>3, <4>4, <4>5 DEF Documents!Report
      <4> QED BY <4>6, <1>3
    <3> QED BY <3>1, <3>2
  <2>3. \A d \in planned :
          \/ \E a \in archive' : a.doc = d
          \/ tree'[d] # 0 /\ tree'[Documents!Report(d[1])] # 0
    <3> TAKE d \in planned
    <3>1. d \in Documents!DocNames /\ Documents!Report(d[1]) \in Documents!DocNames
      BY DocParts DEF Conserved, Planned
    <3>2. CASE d = m.doc \/ m.doc = Documents!Report(d[1])
      BY <3>2, <2>2, <1>3
    <3>3. CASE d # m.doc /\ m.doc # Documents!Report(d[1])
      BY <3>1, <3>3, <1>4, <2>1 DEF Conserved, Findable
    <3> QED BY <3>2, <3>3
  <2>4. \A n \in moves' : \A d \in planned :
          n.doc = Documents!Report(d[1]) =>
            \/ \E a \in archive' : a.doc = d
            \/ \E o \in moves' : o.doc = d
    BY <1>0, <1>3, <2>1 DEF Conserved, Findable
  <2> QED BY <2>3, <2>4, <1>0 DEF Findable, Archived
<1> QED BY <1>5, <1>6, <1>7, <1>8 DEF Conserved

LEMMA EndConserved == ASSUME Conserved, Documents!End PROVE Conserved'
  BY DEF Documents!End, Conserved, Filed, OnePlace, Headed, Planned, Findable, Archived, Months

LEMMA ConservedStep == Conserved /\ Documents!Next => Conserved'
  BY WriteConserved, RewriteConserved, DiscoverConserved, PlanConserved, MoveConserved,
     EndConserved DEF Documents!Next

(* How many copies there are, from where they are. *)
LEMMA OneCopy ==
  ASSUME Conserved, NEW d \in Documents!DocNames, NEW v \in 1 .. version[d]
  PROVE  Documents!Cardinality({a \in archive : a.doc = d /\ a.version = v})
           + (IF tree[d] = v THEN 1 ELSE 0) = 1
<1> DEFINE copies == {a \in archive : a.doc = d /\ a.version = v}
<1>0. Documents!Cardinality(copies) = Cardinality(copies)
  BY DEF Documents!Cardinality, Cardinality
<1>1. CASE tree[d] = v
  <2>1. copies = {}
    BY <1>1 DEF Conserved, OnePlace
  <2>2. Documents!Cardinality(copies) = 0
    BY <2>1, <1>0, FS_EmptySet
  <2> QED BY <2>2, <1>1
<1>2. CASE tree[d] # v
  <2>1. PICK a \in archive : a.doc = d /\ a.version = v
    BY <1>2 DEF Conserved, OnePlace
  <2>2. copies = {a}
    BY <2>1 DEF Conserved, OnePlace
  <2>3. Documents!Cardinality(copies) = 1
    BY <2>2, <1>0, FS_Singleton
  <2> QED BY <2>3, <1>2
<1> QED BY <1>1, <1>2

LEMMA ConservedIsEnough == Conserved => DocumentsAreKept
<1> SUFFICES ASSUME Conserved PROVE DocumentsAreKept
  OBVIOUS
<1>1. Documents!TypeOK
  <2>1. \A s \in Slugs : head[s].date \in Dates \cup {Documents!Unparsed}
                         /\ head[s].status \in Documents!Statuses
    BY DEF Conserved, Headed, Documents!Unparsed
  <2>2. \A m \in moves : m.doc \in planned
    BY DEF Conserved, Planned
  <2> QED BY <2>1, <2>2 DEF Documents!TypeOK, Conserved, Filed, Headed, Planned, Months
<1>2. Documents!NothingIsLost
  BY OneCopy DEF Documents!NothingIsLost
<1>3. Documents!NextRunFindsIt
  BY DEF Documents!NextRunFindsIt, Conserved, Findable, Archived
<1> QED BY <1>1, <1>2, <1>3 DEF DocumentsAreKept

-----------------------------------------------------------------------------
(* _ensure_schema and _migrate_table, cut short at any statement, any number  *)
(* of times: the server never works on a table that is not migrated, no row   *)
(* is destroyed, and where no start was cut short none is out of sight.       *)
THEOREM MigrationsAreSafe == AllSpec => []MigrationIsSafe
<1>1. AllInit => Migrating
  BY InitMigrating DEF AllInit
<1>2. Migrating /\ [AllNext]_allVars => Migrating'
  <2> SUFFICES ASSUME Migrating, [AllNext]_allVars PROVE Migrating'
    OBVIOUS
  <2>1. CASE Schema!Next
    BY <2>1, MigratingStep
  <2>2. CASE UNCHANGED schemaVars
    BY <2>2 DEF schemaVars, Migrating, Schema!TypeOK, Schema!ReadyMeansMigrated,
                Schema!NothingErased
  <2> QED BY <2>1, <2>2 DEF AllNext, allVars
<1> QED BY <1>1, <1>2, MigratingIsEnough, PTL DEF AllSpec

(* apply_moves: for any cycles, dates and order of runs, interruptions and    *)
(* authors' writes, every version is in one place and what a run has left is  *)
(* found by the next.                                                        *)
THEOREM DocumentsStay == AllSpec => []DocumentsAreKept
<1>1. AllInit => Conserved
  BY InitConserved DEF AllInit
<1>2. Conserved /\ [AllNext]_allVars => Conserved'
  <2> SUFFICES ASSUME Conserved, [AllNext]_allVars PROVE Conserved'
    OBVIOUS
  <2>1. CASE Documents!Next
    BY <2>1, ConservedStep
  <2>2. CASE UNCHANGED docVars
    BY <2>2 DEF docVars, Conserved, Filed, OnePlace, Headed, Planned, Findable, Archived,
                Months
  <2> QED BY <2>1, <2>2 DEF AllNext, allVars
<1> QED BY <1>1, <1>2, ConservedIsEnough, PTL DEF AllSpec

-----------------------------------------------------------------------------
(* The intake: any documents, items, contents and request threads.           *)
USE DEF request

(* The part of the types the argument needs. *)
Typed ==
  /\ pc \in [Threads -> {"idle", "tombs", "existing", "write", "record"}]
  /\ kept \in [Threads -> SUBSET Keys]

Filtered == Typed /\ RacersKnown /\ RevivedOnlyByRace

LEMMA KeyParts == \A k \in Keys : k[1] \in Docs /\ k \in Of(k[1])
  BY DEF Keys, Of

LEMMA InitFiltered == Init => Filtered
  BY DEF Init, Filtered, Typed, RacersKnown, RevivedOnlyByRace, Nothing

(* A step that writes no row, leaves the tombstones alone and puts no key    *)
(* of a deleted document in progress keeps the filter tight.               *)
LEMMA FilterFrame ==
  ASSUME Filtered, UNCHANGED <<rows, tomb, racing>>, Typed',
         \A t \in Threads, d \in tomb :
           pc'[t] \in {"existing", "write"} /\ kept'[t] \cap Of(d) # {}
             => pc[t] \in {"existing", "write"} /\ kept[t] \cap Of(d) # {}
  PROVE  Filtered'
<1>1. \A d \in tomb : InProgress(d)' => InProgress(d)
  BY DEF InProgress
<1>2. RacersKnown'
  BY <1>1 DEF Filtered, RacersKnown
<1>3. RevivedOnlyByRace'
  BY DEF Filtered, RevivedOnlyByRace, Present
<1> QED BY <1>2, <1>3 DEF Filtered

LEMMA ForgetFrame ==
  ASSUME Filtered, NEW t \in Threads, Forget(t), UNCHANGED <<rows, tomb, racing>>
  PROVE  Filtered'
<1>1. pc' = [pc EXCEPT ![t] = "idle"] /\ kept' = [kept EXCEPT ![t] = {}]
  BY DEF Forget
<1>2. Typed'
  BY <1>1 DEF Filtered, Typed
<1> QED BY <1>1, <1>2, FilterFrame DEF Filtered, Typed

LEMMA FilteredStep == Filtered /\ [Next]_vars => Filtered'
<1> SUFFICES ASSUME Filtered, [Next]_vars PROVE Filtered'
  OBVIOUS
<1>t. Typed
  BY DEF Filtered
<1>1. ASSUME NEW t \in Threads, Receive(t) PROVE Filtered'
  <2>1. UNCHANGED <<rows, tomb, racing, kept>> /\ pc' = [pc EXCEPT ![t] = "tombs"]
    BY <1>1 DEF Receive
  <2>2. Typed'
    BY <1>t, <2>1 DEF Typed
  <2> QED BY <1>t, <2>1, <2>2, FilterFrame DEF Typed
<1>2. ASSUME NEW t \in Threads, LookUpTombs(t) PROVE Filtered'
  <2>1. /\ UNCHANGED <<rows, tomb, racing>> /\ pc' = [pc EXCEPT ![t] = "existing"]
        /\ kept' = [kept EXCEPT ![t] = {k \in Present(batch[t]) : k[1] \notin tomb}]
    BY <1>2 DEF LookUpTombs
  <2>2. Typed'
    BY <1>t, <2>1 DEF Typed, Present
  <2>3. \A d \in tomb : {k \in Present(batch[t]) : k[1] \notin tomb} \cap Of(d) = {}
    BY DEF Of, Present, Keys
  <2>4. ASSUME NEW u \in Threads, NEW d \in tomb,
               pc'[u] \in {"existing", "write"}, kept'[u] \cap Of(d) # {}
        PROVE  pc[u] \in {"existing", "write"} /\ kept[u] \cap Of(d) # {}
    <3>1. u # t
      BY <1>t, <2>1, <2>3, <2>4 DEF Typed
    <3> QED BY <1>t, <2>1, <2>4, <3>1 DEF Typed
  <2> QED BY <2>1, <2>2, <2>4, FilterFrame
<1>3. ASSUME NEW t \in Threads, LookUpExisting(t) PROVE Filtered'
  <2>1. /\ UNCHANGED <<rows, tomb, racing, kept>>
        /\ pc[t] = "existing" /\ pc' = [pc EXCEPT ![t] = "write"]
    BY <1>3 DEF LookUpExisting
  <2>2. Typed'
    BY <1>t, <2>1 DEF Typed
  <2> QED BY <1>t, <2>1, <2>2, FilterFrame DEF Typed
<1>4. ASSUME NEW t \in Threads, Write(t) PROVE Filtered'
  <2>1. /\ pc[t] = "write" /\ pc' = [pc EXCEPT ![t] = "record"]
        /\ rows' = [k \in Keys |-> IF k \in kept[t] THEN batch[t][k] ELSE rows[k]]
        /\ UNCHANGED <<tomb, racing, kept>>
    BY <1>4 DEF Write
  <2>2. \A u \in Threads : pc'[u] \in {"existing", "write"} => pc[u] \in {"existing", "write"}
    BY <1>t, <2>1 DEF Typed
  <2>3. RacersKnown'
    BY <2>1, <2>2 DEF Filtered, RacersKnown, InProgress
  <2>4. \A d \in tomb \ racing : kept[t] \cap Of(d) = {}
    BY <2>1 DEF Filtered, RacersKnown, InProgress
  <2>5. RevivedOnlyByRace'
    BY <2>1, <2>4 DEF Filtered, RevivedOnlyByRace, Present
  <2>6. Typed'
    BY <1>t, <2>1 DEF Typed
  <2> QED BY <2>3, <2>5, <2>6 DEF Filtered
<1>5. ASSUME NEW t \in Threads, RecordBackup(t) \/ Fail(t) PROVE Filtered'
  BY <1>5, ForgetFrame DEF RecordBackup, Fail
<1>6. ASSUME NEW d \in Docs, DeleteDocument(d) PROVE Filtered'
  <2>1. /\ rows' = [k \in Keys |-> IF k \in Of(d) THEN NoRow ELSE rows[k]]
        /\ tomb' = tomb \cup {d} /\ UNCHANGED <<pc, kept>>
        /\ racing' = IF InProgress(d) THEN racing \cup {d} ELSE racing \ {d}
    BY <1>6 DEF DeleteDocument
  <2>2. Typed'
    BY <1>t, <2>1 DEF Typed
  <2>3. \A f : InProgress(f)' = InProgress(f)
    BY <2>1 DEF InProgress
  <2>4. RacersKnown'
    BY <2>1, <2>3 DEF Filtered, RacersKnown
  <2>5. RevivedOnlyByRace'
    BY <2>1 DEF Filtered, RevivedOnlyByRace, Present
  <2> QED BY <2>2, <2>4, <2>5 DEF Filtered
<1>7. ASSUME NEW d \in Docs, RestoreDocument(d) PROVE Filtered'
  <2>1. tomb' = tomb \ {d} /\ racing' = racing \ {d} /\ UNCHANGED <<rows, pc, kept>>
    BY <1>7 DEF RestoreDocument
  <2>2. Typed'
    BY <1>t, <2>1 DEF Typed
  <2>3. \A f : InProgress(f)' = InProgress(f)
    BY <2>1 DEF InProgress
  <2> QED BY <2>1, <2>2, <2>3 DEF Filtered, RacersKnown, RevivedOnlyByRace, Present
<1>8. CASE UNCHANGED vars
  BY <1>8 DEF vars, Filtered, Typed, RacersKnown, RevivedOnlyByRace, InProgress, Present
<1> QED
  BY <1>1, <1>2, <1>3, <1>4, <1>5, <1>6, <1>7, <1>8 DEF Next

(* A tombstoned document has rows only if a batch that had already looked    *)
(* the tombstones up was in progress when it was deleted.                   *)
THEOREM TombstonesHold == Spec => []RevivedOnlyByRace
<1>1. Filtered => RevivedOnlyByRace
  BY DEF Filtered
<1> QED
  BY <1>1, InitFiltered, FilteredStep, PTL DEF Spec
-----------------------------------------------------------------------------
(* The counts of a backup.  CountsExact speaks of the moment after the      *)
(* write; what carries it there is that an undisturbed request still sees   *)
(* the table as it looked it up.                                           *)

Result == [upserted : Nat, inserted : 0 .. Cardinality(Keys), updated : Int, skipped : Nat,
           created : Nat, changed : Nat]

\* an undisturbed request has seen the rows its documents have in the table
SeenIsThere ==
  \A t \in Threads \ disturbed : pc[t] = "write" =>
    existing[t] = {k \in Present(rows) : \E s \in Seqs : <<k[1], s>> \in kept[t]}

Counted ==
  /\ TypeOK /\ result \in [Threads -> Result]
  /\ \A t \in Threads : pc[t] \in {"idle", "tombs"} => kept[t] = {}
  /\ SeenIsThere /\ CountsExact

LEMMA KeysFinite == IsFiniteSet(Keys) /\ Cardinality(Keys) \in Nat
  BY IntakeAssumption, FS_Product, FS_CardinalityType DEF Keys

LEMMA SubsetCount ==
  ASSUME NEW S \in SUBSET Keys
  PROVE  IsFiniteSet(S) /\ Cardinality(S) \in 0 .. Cardinality(Keys)
<1>1. /\ IsFiniteSet(S) /\ Cardinality(S) <= Cardinality(Keys)
      /\ Cardinality(S) \in Nat
  BY KeysFinite, FS_Subset, FS_CardinalityType
<1> QED BY <1>1, KeysFinite

\* the rows a write changes are those it creates and those that differ
LEMMA ChangedSplits ==
  ASSUME TypeOK, NEW t \in Threads
  PROVE  Cardinality(Changed(t)) =
           Cardinality(kept[t] \ Present(rows))
           + Cardinality({k \in kept[t] \cap Present(rows) : rows[k] # batch[t][k]})
<1> DEFINE New == kept[t] \ Present(rows)
           Differ == {k \in kept[t] \cap Present(rows) : rows[k] # batch[t][k]}
<1>1. kept[t] \in SUBSET Keys /\ \A k \in kept[t] : batch[t][k] # NoRow
  BY DEF TypeOK, Present
<1>2. Changed(t) = New \cup Differ /\ New \cap Differ = {}
  BY <1>1 DEF Changed, Present
<1>3. New \in SUBSET Keys /\ Differ \in SUBSET Keys
  BY <1>1
<1>4. IsFiniteSet(New) /\ IsFiniteSet(Differ)
  BY <1>3, SubsetCount
<1> HIDE DEF New, Differ
<1>5. Cardinality(New \cup Differ)
        = Cardinality(New) + Cardinality(Differ) - Cardinality(New \cap Differ)
  BY <1>4, FS_Union
<1>6. Cardinality(New \cap Differ) = 0
  BY <1>2, FS_EmptySet
<1>7. Cardinality(New) \in Nat /\ Cardinality(Differ) \in Nat
  BY <1>4, FS_CardinalityType
<1> QED BY <1>2, <1>5, <1>6, <1>7 DEF New, Differ

\* what an undisturbed request takes for new is new
LEMMA NewIsNew ==
  ASSUME TypeOK, SeenIsThere, NEW t \in Threads \ disturbed, pc[t] = "write"
  PROVE  kept[t] \ existing[t] = kept[t] \ Present(rows)
<1>1. \A k \in kept[t] : k \in Keys /\ k[2] \in Seqs /\ k = <<k[1], k[2]>>
  BY DEF TypeOK, Keys
<1> QED BY <1>1 DEF SeenIsThere

\* a received row is upserted or skipped
LEMMA ReceivedSplits ==
  ASSUME TypeOK, NEW t \in Threads
  PROVE  Cardinality(kept[t]) + Cardinality(Skipped(t)) = Cardinality(Present(batch[t]))
<1> DEFINE P == Present(batch[t])
           K == kept[t]
<1>1. P \in SUBSET Keys /\ K \in SUBSET P /\ K \in SUBSET Keys
  BY DEF TypeOK, Present
<1>2. IsFiniteSet(P) /\ IsFiniteSet(K)
  BY <1>1, SubsetCount
<1>3. Skipped(t) = P \ K /\ P \cap K = K
  BY <1>1 DEF Skipped
<1> HIDE DEF P, K
<1>4. Cardinality(P \ K) = Cardinality(P) - Cardinality(P \cap K)
  BY <1>2, FS_Difference
<1>5. Cardinality(P) \in Nat /\ Cardinality(K) \in Nat
  BY <1>2, FS_CardinalityType
<1>6. Cardinality(Skipped(t)) = Cardinality(P) - Cardinality(K)
  BY <1>3, <1>4
<1>7. Cardinality(K) + Cardinality(Skipped(t)) = Cardinality(P)
  BY <1>5, <1>6
<1> QED BY <1>7 DEF P, K

LEMMA InitCounted == Init => Counted
<1> SUFFICES ASSUME Init PROVE Counted
  OBVIOUS
<1>1. NoResult \in Result
  BY KeysFinite DEF NoResult, Result
<1>2. result \in [Threads -> Result]
  BY <1>1 DEF Init
<1>3. TypeOK
  BY KeysFinite, IntakeAssumption DEF Init, TypeOK, Nothing, NoResult, Present
<1> QED BY <1>2, <1>3 DEF Init, Counted, SeenIsThere, CountsExact

LEMMA WriteCounts ==
  ASSUME Counted, NEW t \in Threads, Write(t)
  PROVE  Counted'
<1> DEFINE inserted == Cardinality(kept[t] \ existing[t])
           created == Cardinality(kept[t] \ Present(rows))
           written == Cardinality(Changed(t))
           differ == {k \in kept[t] \cap Present(rows) : rows[k] # batch[t][k]}
           upserted == Cardinality(kept[t])
           skipped == Cardinality(Skipped(t))
           new == [upserted |-> upserted, inserted |-> inserted,
                   updated |-> written - inserted, skipped |-> skipped,
                   created |-> created, changed |-> Cardinality(differ)]
<1>1. /\ pc[t] = "write" /\ pc' = [pc EXCEPT ![t] = "record"]
      /\ rows' = [k \in Keys |-> IF k \in kept[t] THEN batch[t][k] ELSE rows[k]]
      /\ result' = [result EXCEPT ![t] = new]
      /\ disturbed' = disturbed \cup {u \in Threads \ {t} : pc[u] = "write"}
      /\ UNCHANGED <<tomb, batch, kept, existing, racing, faults>>
  BY DEF Write, Overtakes
<1>2. /\ pc \in [Threads -> {"idle", "tombs", "existing", "write", "record"}]
      /\ kept[t] \in SUBSET Keys /\ result \in [Threads -> Result]
  BY DEF Counted, TypeOK
<1>3. /\ inserted \in 0 .. Cardinality(Keys) /\ created \in Nat
      /\ written \in Nat /\ Cardinality(differ) \in Nat
      /\ upserted \in Nat /\ skipped \in Nat
  <2>1. /\ kept[t] \ existing[t] \in SUBSET Keys /\ kept[t] \ Present(rows) \in SUBSET Keys
        /\ Changed(t) \in SUBSET Keys /\ differ \in SUBSET Keys
        /\ Skipped(t) \in SUBSET Keys /\ kept[t] \in SUBSET Keys
    BY <1>2 DEF Changed, Skipped, Present
  <2> QED BY <2>1, SubsetCount, KeysFinite
<1>4. new \in Result
  <2> HIDE DEF inserted, created, written, differ, upserted, skipped
  <2> QED BY <1>3, KeysFinite DEF Result
<1>5. result' \in [Threads -> Result]
  <2> HIDE DEF new
  <2> QED BY <1>1, <1>2, <1>4
<1>6. /\ new.upserted + new.skipped = Cardinality(Present(batch[t]))
      /\ t \notin disturbed => new.inserted = new.created /\ new.updated = new.changed
  <2>1. t \notin disturbed => inserted = created
    BY <1>1, NewIsNew DEF Counted
  <2>2. written = created + Cardinality(differ)
    BY ChangedSplits DEF Counted
  <2>3. upserted + skipped = Cardinality(Present(batch[t]))
    BY ReceivedSplits DEF Counted
  <2> HIDE DEF inserted, created, written, differ, upserted, skipped
  <2> QED BY <1>3, <2>1, <2>2, <2>3
<1> HIDE DEF new
<1>7. CountsExact'
  <2> SUFFICES ASSUME NEW u \in Threads, pc'[u] = "record"
               PROVE  /\ result'[u].upserted + result'[u].skipped
                           = Cardinality(Present(batch'[u]))
                      /\ u \notin disturbed' => /\ result'[u].inserted = result'[u].created
                                                /\ result'[u].updated = result'[u].changed
    BY DEF CountsExact
  <2>0. Present(batch'[u]) = Present(batch[u])
    BY <1>1
  <2>1. CASE u = t
    BY <1>1, <1>2, <1>6, <2>0, <2>1
  <2>2. CASE u # t
    BY <1>1, <1>2, <2>0, <2>2 DEF Counted, CountsExact
  <2> QED BY <2>1, <2>2
<1>8. SeenIsThere'
  <2> SUFFICES ASSUME NEW u \in Threads \ disturbed', pc'[u] = "write" PROVE FALSE
    BY DEF SeenIsThere
  <2> QED BY <1>1, <1>2
<1>9. TypeOK'
  <2>1. rows' \in [Keys -> Contents \cup {NoRow}]
    BY <1>1, <1>2 DEF Counted, TypeOK
  <2>2. pc' \in [Threads -> {"idle", "tombs", "existing", "write", "record"}]
    BY <1>1, <1>2
  <2>3. \A u \in Threads : /\ result'[u].inserted \in 0 .. Cardinality(Keys)
                            /\ result'[u].updated \in Int
    BY <1>5 DEF Result
  <2> QED BY <1>1, <2>1, <2>2, <2>3 DEF Counted, TypeOK, Present
<1> QED BY <1>1, <1>2, <1>5, <1>7, <1>8, <1>9 DEF Counted

LEMMA ForgetCounts ==
  ASSUME Counted, NEW t \in Threads, Forget(t), UNCHANGED <<rows, tomb, racing>>,
         faults' \in 0 .. MaxFaults
  PROVE  Counted'
<1>1. NoResult \in Result
  BY KeysFinite DEF NoResult, Result
<1>2. result' \in [Threads -> Result]
  BY <1>1 DEF Forget, Counted
<1>3. \A u \in Threads : /\ result'[u].inserted \in 0 .. Cardinality(Keys)
                          /\ result'[u].updated \in Int
  BY <1>2 DEF Result
<1>4. Nothing \in [Keys -> Contents \cup {NoRow}]
  BY DEF Nothing
<1>5. /\ batch' \in [Threads -> [Keys -> Contents \cup {NoRow}]]
      /\ kept' \in [Threads -> SUBSET Keys] /\ existing' \in [Threads -> SUBSET Keys]
      /\ pc' \in [Threads -> {"idle", "tombs", "existing", "write", "record"}]
      /\ disturbed' \subseteq Threads
  BY <1>4 DEF Forget, Counted, TypeOK
<1>6. \A u \in Threads : kept'[u] \subseteq Present(batch'[u])
  BY DEF Forget, Counted, TypeOK
<1>7. TypeOK'
  BY <1>3, <1>5, <1>6 DEF Counted, TypeOK, Present
<1>8. pc'[t] = "idle"
  BY DEF Forget, Counted, TypeOK
<1>9. \A u \in Threads \ {t} :
        /\ pc'[u] = pc[u] /\ kept'[u] = kept[u] /\ existing'[u] = existing[u]
        /\ batch'[u] = batch[u] /\ result'[u] = result[u]
        /\ u \in disturbed' <=> u \in disturbed
  BY DEF Forget, Counted, TypeOK
<1>10. SeenIsThere'
  <2> SUFFICES ASSUME NEW u \in Threads \ disturbed', pc'[u] = "write"
               PROVE  existing'[u] = {k \in Present(rows)' : \E q \in Seqs : <<k[1], q>> \in kept'[u]}
    BY DEF SeenIsThere
  <2>1. u # t /\ u \in Threads \ disturbed /\ pc[u] = "write"
    BY <1>8, <1>9
  <2> QED BY <1>9, <2>1 DEF Counted, SeenIsThere, Present
<1>11. CountsExact'
  <2> SUFFICES ASSUME NEW u \in Threads, pc'[u] = "record"
               PROVE  /\ result'[u].upserted + result'[u].skipped
                           = Cardinality(Present(batch'[u]))
                      /\ u \notin disturbed' => /\ result'[u].inserted = result'[u].created
                                                /\ result'[u].updated = result'[u].changed
    BY DEF CountsExact
  <2>1. u # t /\ pc[u] = "record"
    BY <1>8, <1>9
  <2>2. Present(batch'[u]) = Present(batch[u])
    BY <1>9, <2>1
  <2> QED BY <1>9, <2>1, <2>2 DEF Counted, CountsExact
<1> QED BY <1>2, <1>7, <1>10, <1>11 DEF Forget, Counted, TypeOK

LEMMA CountedStep == Counted /\ [Next]_vars => Counted'
<1> SUFFICES ASSUME Counted, [Next]_vars PROVE Counted'
  OBVIOUS
<1> USE DEF Counted
<1>1. ASSUME NEW t \in Threads, Receive(t) PROVE Counted'
  <2>1. PICK S \in SUBSET Keys : \E f \in [S -> Contents] :
          batch' = [batch EXCEPT ![t] = [k \in Keys |-> IF k \in S THEN f[k] ELSE NoRow]]
    BY <1>1 DEF Receive
  <2>2. batch' \in [Threads -> [Keys -> Contents \cup {NoRow}]]
    BY <2>1 DEF TypeOK
  <2>3. \A u \in Threads : kept[u] \subseteq Present(batch'[u])
    BY <1>1, <2>1 DEF Receive, TypeOK
  <2>4. TypeOK'
    BY <1>1, <2>2, <2>3 DEF Receive, TypeOK, Present
  <2>5. \A u \in Threads : pc'[u] = "record" => pc[u] = "record" /\ batch'[u] = batch[u]
    BY <1>1, <2>1 DEF Receive, TypeOK
  <2>6. CountsExact'
    <3> SUFFICES ASSUME NEW u \in Threads, pc'[u] = "record"
                 PROVE  /\ result[u].upserted + result[u].skipped
                             = Cardinality(Present(batch'[u]))
                        /\ u \notin disturbed => /\ result[u].inserted = result[u].created
                                                 /\ result[u].updated = result[u].changed
      BY <1>1 DEF Receive, CountsExact
    <3>1. Present(batch'[u]) = Present(batch[u])
      BY <2>5
    <3> QED BY <2>5, <3>1 DEF CountsExact
  <2> QED BY <1>1, <2>4, <2>6 DEF Receive, TypeOK, SeenIsThere, Present
<1>2. ASSUME NEW t \in Threads, LookUpTombs(t) PROVE Counted'
  <2>1. \A u \in Threads : kept'[u] \subseteq Present(batch[u])
    BY <1>2 DEF LookUpTombs, TypeOK
  <2>2. TypeOK'
    BY <1>2, <2>1 DEF LookUpTombs, TypeOK, Present
  <2>3. \A u \in Threads : pc'[u] = "record" => pc[u] = "record"
    BY <1>2 DEF LookUpTombs, TypeOK
  <2>4. CountsExact'
    <3>1. UNCHANGED <<batch, result, disturbed>>
      BY <1>2 DEF LookUpTombs
    <3>2. \A u \in Threads : Present(batch'[u]) = Present(batch[u])
      BY <3>1
    <3> QED BY <2>3, <3>1, <3>2 DEF CountsExact
  <2> QED BY <1>2, <2>2, <2>4 DEF LookUpTombs, TypeOK, SeenIsThere, Present
<1>3. ASSUME NEW t \in Threads, LookUpExisting(t) PROVE Counted'
  <2>1. TypeOK'
    BY <1>3 DEF LookUpExisting, TypeOK, Present
  <2>2. SeenIsThere'
    BY <1>3 DEF LookUpExisting, TypeOK, SeenIsThere, Present
  <2> QED BY <1>3, <2>1, <2>2 DEF LookUpExisting, TypeOK, CountsExact
<1>4. ASSUME NEW t \in Threads, Write(t) PROVE Counted'
  BY <1>4, WriteCounts
<1>5. ASSUME NEW t \in Threads, RecordBackup(t) PROVE Counted'
  BY <1>5, ForgetCounts DEF RecordBackup, TypeOK
<1>6. ASSUME NEW t \in Threads, Fail(t) PROVE Counted'
  <2>1. faults' \in 0 .. MaxFaults
    BY <1>6, IntakeAssumption DEF Fail, TypeOK
  <2> QED BY <1>6, <2>1, ForgetCounts DEF Fail
<1>7. ASSUME NEW d \in Docs, DeleteDocument(d) PROVE Counted'
  <2>1. TypeOK'
    BY <1>7 DEF DeleteDocument, TypeOK, Present
  <2> QED BY <1>7, <2>1 DEF DeleteDocument, SeenIsThere, CountsExact
<1>8. ASSUME NEW d \in Docs, RestoreDocument(d) PROVE Counted'
  <2>1. TypeOK'
    BY <1>8 DEF RestoreDocument, TypeOK, Present
  <2> QED BY <1>8, <2>1 DEF RestoreDocument, SeenIsThere, CountsExact, Present
<1>9. CASE UNCHANGED vars
  BY <1>9 DEF vars, TypeOK, SeenIsThere, CountsExact, Present
<1> QED
  BY <1>1, <1>2, <1>3, <1>4, <1>5, <1>6, <1>7, <1>8, <1>9 DEF Next

(* The counts a backup reports are exact unless another request committed    *)
(* between its lookup of the existing rows and its write, for any batches,   *)
(* documents and threads.                                                   *)
THEOREM CountsAreExact == Spec => []BackupsAreExact
<1>1. Counted => BackupsAreExact
  BY DEF Counted, BackupsAreExact
<1> QED BY <1>1, InitCounted, CountedStep, PTL DEF Spec

(* A behaviour of the whole is one of the intake, so that what is proved of it *)
(* holds in it.                                                              *)
LEMMA WholeHasIntake == AllSpec => Spec
<1>1. AllInit => Init
  BY Zenon DEF AllInit
<1>2. [AllNext]_allVars => [Next]_vars
  BY Zenon DEF AllNext, allVars
<1> QED BY <1>1, <1>2, PTL DEF AllSpec, Spec
=============================================================================
