--------------------------- MODULE MaterialsIntake ---------------------------
(***************************************************************************)
(* The rows of one materials dataset (api/materials/store.py): backups by   *)
(* the bots, which resend the whole sheet each time, deletions that leave a *)
(* tombstone, and restores.  Requests run in threads of their own; one      *)
(* SELECT or one committed transaction is one action.  A batch is taken     *)
(* after its duplicates were dropped and fits in one lookup of 500.         *)
(***************************************************************************)
EXTENDS Integers, FiniteSets

CONSTANTS
  Docs,       \* document numbers
  Seqs,       \* item numbers within a document
  Contents,   \* what the nine compared columns of a row may hold
  NoRow,      \* absence of a row
  Threads,    \* request threads
  MaxFaults   \* bound: killed or failed requests

Keys == Docs \X Seqs
Of(d) == {d} \X Seqs

ASSUME IntakeAssumption ==
  /\ NoRow \notin Contents /\ IsFiniteSet(Docs) /\ IsFiniteSet(Seqs)
  /\ MaxFaults \in Nat

VARIABLES
  rows,       \* the dataset's table: Keys -> Contents or NoRow
  tomb,       \* deleted_documents
  (* the backup requests *)
  pc,         \* per thread: "idle", "tombs", "existing", "write", "record"
  batch,      \* what it received, NoRow where it received nothing
  kept,       \* keys left after the tombstones were looked up
  existing,   \* keys it has seen in the table
  result,     \* the counts it is about to record; created and changed are
              \* what its write really did, kept for the properties
  (* history *)
  racing,     \* deleted documents that a batch in progress was about to write
  disturbed,  \* threads whose lookup of existing rows was overtaken
  faults

request == <<pc, batch, kept, existing, result>>
vars == <<rows, tomb, request, racing, disturbed, faults>>

Nothing == [k \in Keys |-> NoRow]
NoResult == [upserted |-> 0, inserted |-> 0, updated |-> 0, skipped |-> 0,
             created |-> 0, changed |-> 0]

Init ==
  /\ rows = Nothing /\ tomb = {}
  /\ pc = [t \in Threads |-> "idle"]
  /\ batch = [t \in Threads |-> Nothing]
  /\ kept = [t \in Threads |-> {}]
  /\ existing = [t \in Threads |-> {}]
  /\ result = [t \in Threads |-> NoResult]
  /\ racing = {} /\ disturbed = {} /\ faults = 0

Present(f) == {k \in Keys : f[k] # NoRow}
(* A commit overtakes the requests that have read and not written yet. *)
Overtakes(t) == disturbed' = disturbed \cup {u \in Threads \ {t} : pc[u] = "write"}

-----------------------------------------------------------------------------
(* POST /materials/backup: upsert_materials, then record_backup_run.       *)
Receive(t) ==
  /\ pc[t] = "idle"
  /\ \E S \in SUBSET Keys : \E f \in [S -> Contents] :
       batch' = [batch EXCEPT ![t] = [k \in Keys |-> IF k \in S THEN f[k] ELSE NoRow]]
  /\ pc' = [pc EXCEPT ![t] = "tombs"]
  /\ UNCHANGED <<rows, tomb, kept, existing, result, racing, disturbed, faults>>

IgnoreTombs(t) ==   \* wrong on purpose: the tombstones are not looked up
  /\ pc[t] = "tombs" /\ pc' = [pc EXCEPT ![t] = "existing"]
  /\ kept' = [kept EXCEPT ![t] = Present(batch[t])]
  /\ UNCHANGED <<rows, tomb, batch, existing, result, racing, disturbed, faults>>

KeepsAbsent(t) ==   \* wrong on purpose: every document without a tombstone
  /\ pc[t] = "tombs" /\ pc' = [pc EXCEPT ![t] = "existing"]
  /\ kept' = [kept EXCEPT ![t] = {k \in Keys : k[1] \notin tomb}]
  /\ UNCHANGED <<rows, tomb, batch, existing, result, racing, disturbed, faults>>

LookUpTombs(t) ==
  /\ pc[t] = "tombs" /\ pc' = [pc EXCEPT ![t] = "existing"]
  /\ kept' = [kept EXCEPT ![t] = {k \in Present(batch[t]) : k[1] \notin tomb}]
  /\ UNCHANGED <<rows, tomb, batch, existing, result, racing, disturbed, faults>>

LookUpByDocument(t) ==   \* wrong on purpose: a known document has all its items
  /\ pc[t] = "existing" /\ pc' = [pc EXCEPT ![t] = "write"]
  /\ existing' = [existing EXCEPT ![t] =
       {k \in kept[t] : Of(k[1]) \cap Present(rows) # {}}]
  /\ UNCHANGED <<rows, tomb, batch, kept, result, racing, disturbed, faults>>

LookUpExisting(t) ==
  /\ pc[t] = "existing" /\ pc' = [pc EXCEPT ![t] = "write"]
  /\ existing' = [existing EXCEPT ![t] =
       {k \in Present(rows) : \E s \in Seqs : <<k[1], s>> \in kept[t]}]
  /\ UNCHANGED <<rows, tomb, batch, kept, result, racing, disturbed, faults>>

(* ON CONFLICT DO UPDATE only where a column differs; total_changes counts   *)
(* the rows inserted or really updated.                                    *)
Changed(t) == {k \in kept[t] : rows[k] # batch[t][k]}

(* The rows of deleted documents that were taken out of the batch. *)
SkippedDocuments(t) ==   \* wrong on purpose: counts documents, not rows
  {d \in Docs : Of(d) \cap (Present(batch[t]) \ kept[t]) # {}}
Skipped(t) == Present(batch[t]) \ kept[t]

Write(t) ==
  /\ pc[t] = "write" /\ pc' = [pc EXCEPT ![t] = "record"]
  /\ rows' = [k \in Keys |-> IF k \in kept[t] THEN batch[t][k] ELSE rows[k]]
  /\ LET inserted == Cardinality(kept[t] \ existing[t])
         created == Cardinality(kept[t] \ Present(rows))
         written == Cardinality(Changed(t))
         differ == {k \in kept[t] \cap Present(rows) : rows[k] # batch[t][k]}
     IN result' = [result EXCEPT ![t] =
          [upserted |-> Cardinality(kept[t]), inserted |-> inserted,
           updated |-> written - inserted, skipped |-> Cardinality(Skipped(t)),
           created |-> created, changed |-> Cardinality(differ)]]
  /\ Overtakes(t)
  /\ UNCHANGED <<tomb, batch, kept, existing, racing, faults>>

Forget(t) ==
  /\ pc' = [pc EXCEPT ![t] = "idle"] /\ batch' = [batch EXCEPT ![t] = Nothing]
  /\ kept' = [kept EXCEPT ![t] = {}] /\ existing' = [existing EXCEPT ![t] = {}]
  /\ result' = [result EXCEPT ![t] = NoResult]
  /\ disturbed' = disturbed \ {t}

RecordBackup(t) ==
  /\ pc[t] = "record" /\ Forget(t)
  /\ UNCHANGED <<rows, tomb, racing, faults>>

(* sqlite3.Error or the end of the process: what was committed stays. *)
Fail(t) ==
  /\ pc[t] # "idle" /\ faults < MaxFaults /\ faults' = faults + 1 /\ Forget(t)
  /\ UNCHANGED <<rows, tomb, racing>>

-----------------------------------------------------------------------------
(* DELETE /materials/{doc}: rows and tombstone in one transaction.          *)
InProgress(d) == \E t \in Threads :
  pc[t] \in {"existing", "write"} /\ kept[t] \cap Of(d) # {}

DeleteDocument(d) ==
  /\ Of(d) \cap Present(rows) # {}
  /\ rows' = [k \in Keys |-> IF k \in Of(d) THEN NoRow ELSE rows[k]]
  /\ tomb' = tomb \cup {d}
  /\ racing' = IF InProgress(d) THEN racing \cup {d} ELSE racing \ {d}
  /\ disturbed' = disturbed \cup {t \in Threads : pc[t] = "write"}
  /\ UNCHANGED <<request, faults>>

RestoreDocument(d) ==
  /\ d \in tomb /\ tomb' = tomb \ {d} /\ racing' = racing \ {d}
  /\ UNCHANGED <<rows, request, disturbed, faults>>

Next ==
  \/ \E t \in Threads : \/ Receive(t) \/ LookUpTombs(t) \/ LookUpExisting(t)
                        \/ Write(t) \/ RecordBackup(t) \/ Fail(t)
  \/ \E d \in Docs : DeleteDocument(d) \/ RestoreDocument(d)

Spec == Init /\ [][Next]_vars

-----------------------------------------------------------------------------
(* Types of the table and of the requests' locals.                         *)
TypeOK ==
  /\ rows \in [Keys -> Contents \cup {NoRow}]
  /\ tomb \subseteq Docs /\ racing \subseteq Docs
  /\ pc \in [Threads -> {"idle", "tombs", "existing", "write", "record"}]
  /\ batch \in [Threads -> [Keys -> Contents \cup {NoRow}]]
  /\ kept \in [Threads -> SUBSET Keys]
  /\ \A t \in Threads : kept[t] \subseteq Present(batch[t])
  /\ existing \in [Threads -> SUBSET Keys]
  /\ \A t \in Threads : /\ result[t].inserted \in 0 .. Cardinality(Keys)
                        /\ result[t].updated \in Int
  /\ disturbed \subseteq Threads
  /\ faults \in 0 .. MaxFaults

(* upsert_materials: a document deleted on the server does not come back      *)
(* when the bot sends it again, as long as its tombstone is there.  The one   *)
(* exception is a batch that had looked up the tombstones when the document   *)
(* was deleted; what arrives later is filtered, also after restores,          *)
(* repeated deletions and failed requests.                                   *)
RevivedOnlyByRace == \A d \in tomb \ racing : Of(d) \cap Present(rows) = {}

(* Every row that a backup received is counted once, as upserted or as        *)
(* skipped; and of the upserted ones it reports those it really created and   *)
(* really changed, unless another request committed between its lookup and   *)
(* its write.                                                               *)
CountsExact ==
  \A t \in Threads : pc[t] = "record" =>
    /\ result[t].upserted + result[t].skipped = Cardinality(Present(batch[t]))
    /\ t \notin disturbed => /\ result[t].inserted = result[t].created
                            /\ result[t].updated = result[t].changed

(* The types; and the counts of a backup: received rows are upserted or       *)
(* skipped, and inserted and updated are what the write really did, unless    *)
(* another request has overtaken it.                                         *)
BackupsAreExact == TypeOK /\ CountsExact

-----------------------------------------------------------------------------
(* What makes RevivedOnlyByRace inductive. *)
RacersKnown == \A d \in tomb : InProgress(d) => d \in racing
=============================================================================
