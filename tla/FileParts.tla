------------------------------ MODULE FileParts ------------------------------
(***************************************************************************)
(* The files the program writes, with their parameters: the rows of a      *)
(* materials table under backups, deletions and restores (the names of     *)
(* MaterialsIntake, unqualified); the transactions of the webhooks file,   *)
(* shared by the API, its worker and the daemon, and those of the          *)
(* materials file, which request threads alone write; the migration of a   *)
(* table at the start; the documents with their archive.  They share no    *)
(* state; `at` says which of them moves in a behaviour, so that each is    *)
(* checked by itself and no product of states is explored.                 *)
(***************************************************************************)
EXTENDS MaterialsIntake

CONSTANTS
  Worker, Emitter, Hooks, Items, MaxEvents, MaxRestarts,   \* transactions
  Legacy, MaxCuts,                                         \* migration
  Slugs, Dates, MaxEdits                                   \* documents

VARIABLES
  at,
  db, draft, tx, seen, stale, tick, claimed, event, todo, listed, used, told,
  kept_out, torn, restarts,                                       \* transactions
  pk, cols, table, aside, hasAside, start, info, legacy, cuts,    \* migration
  version, tree, archive, head, phase, cutoff, metas, moves, planned    \* documents

storeVars  == <<db, draft, tx, seen, stale, tick, claimed, event, todo, listed, used,
                told, kept_out, torn, restarts>>
schemaVars == <<pk, cols, table, aside, hasAside, start, info, legacy, cuts>>
docVars    == <<version, tree, archive, head, phase, cutoff, metas, moves, planned>>
allVars    == <<at, vars, storeVars, schemaVars, docVars>>

Webhooks == INSTANCE StoreTransactions WITH
  Requests <- Threads, Items <- {}, pc <- tick, MaxFaults <- MaxRestarts,
  faults <- restarts

Tables == INSTANCE StoreTransactions WITH
  Requests <- Threads, Hooks <- {}, MaxEvents <- 0, pc <- tick,
  MaxFaults <- MaxRestarts, faults <- restarts

Schema == INSTANCE MaterialsSchema WITH
  Docs <- Legacy, MaxCrashes <- MaxCuts, rows <- table, pc <- start, crashes <- cuts

Documents == INSTANCE ArchiveCutoff WITH live <- tree, pc <- phase, todo <- moves

ASSUME TransactionsAssumption == Webhooks!StoreAssumption /\ Tables!StoreAssumption
ASSUME MigrationAssumption    == Schema!SchemaAssumption
ASSUME DocumentsAssumption    == Documents!ArchiveAssumption

AllInit ==
  /\ at \in {"intake", "webhooks", "tables", "schema", "documents"}
  /\ Init
  /\ IF at = "webhooks" THEN Webhooks!Init ELSE Tables!Init
  /\ Schema!Init /\ (at # "schema" => pk = "absent")
  /\ Documents!Init
  /\ at # "documents" => /\ \A d \in DOMAIN tree : tree[d] = 0
                         /\ \A s \in Slugs : head[s].date = 0 /\ head[s].status = "completed"

AllNext ==
  /\ UNCHANGED at
  /\ \/ /\ at = "intake" /\ Next
        /\ UNCHANGED <<storeVars, schemaVars, docVars>>
     \/ /\ at = "webhooks" /\ Webhooks!Next
        /\ UNCHANGED <<vars, schemaVars, docVars>>
     \/ /\ at = "tables" /\ Tables!Next
        /\ UNCHANGED <<vars, schemaVars, docVars>>
     \/ /\ at = "schema" /\ Schema!Next
        /\ UNCHANGED <<vars, storeVars, docVars>>
     \/ /\ at = "documents" /\ Documents!Next
        /\ UNCHANGED <<vars, storeVars, schemaVars>>

AllSpec == AllInit /\ [][AllNext]_allVars

-----------------------------------------------------------------------------
(* Transactions: the types; and a file holds what its callers were told,      *)
(* whatever transactions failed operations have left open, a batch refused    *)
(* half way excepted.                                                        *)
DatabaseIsAsTold ==
  /\ at = "webhooks" => Webhooks!TypeOK /\ Webhooks!DatabaseIsAsTold
  /\ at = "tables" => Tables!TypeOK /\ Tables!DatabaseIsAsTold

(* Transactions: a webhook that cannot be queued for costs the others nothing, *)
(* and a failed tick leaves nothing behind that the next one trips over.      *)
FailuresStayLocal ==
  at = "webhooks" => Webhooks!FanOutReaches /\ Webhooks!WorkerIsClean

(* Migration: the types; however many starts were cut short, the server works *)
(* on the migrated table only and no legacy row is destroyed; when none was,  *)
(* it sees them all.                                                         *)
MigrationIsSafe ==
  /\ Schema!TypeOK /\ Schema!ReadyMeansMigrated /\ Schema!NothingErased
  /\ cuts = 0 => Schema!NothingStranded

(* Documents: the types; each version is in exactly one place, and what a     *)
(* run has left behind the next one finds.                                   *)
DocumentsAreKept ==
  Documents!TypeOK /\ Documents!NothingIsLost /\ Documents!NextRunFindsIt
=============================================================================
