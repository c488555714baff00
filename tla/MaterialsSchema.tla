--------------------------- MODULE MaterialsSchema ---------------------------
(***************************************************************************)
(* The start-up migration of a materials table (api/materials/store.py,     *)
(* _ensure_schema and _migrate_table).  DDL statements and the statements   *)
(* of an executescript commit one by one, so the process can die between    *)
(* any two of them; the next start runs the whole procedure again.         *)
(***************************************************************************)
EXTENDS Naturals, FiniteSets

CONSTANTS
  Docs,        \* documents, one item each in a legacy table
  MaxCrashes   \* bound: starts cut short

Columns == {"doc_date", "keyword"}   \* added after materials-api-v1

SchemaAssumption == MaxCrashes \in Nat

VARIABLES
  pk,        \* key of the table: "absent", "doc" (legacy) or "doc_seq"
  cols,      \* which of Columns it has
  rows,      \* documents in it
  aside,     \* documents in _mig_<table>, kept while it exists
  hasAside,  \* _mig_<table> exists
  (* the start in progress *)
  pc,        \* "down", "create", "info", "columns", "rename", "rebuild",
             \* "copy", "drop", "ready"
  info,      \* table_info as it was read: [pk |-> ..., cols |-> ...]
  (* history *)
  legacy,    \* documents the legacy table held and nobody deleted
  crashes

vars == <<pk, cols, rows, aside, hasAside, pc, info, legacy, crashes>>
NoInfo == [pk |-> "absent", cols |-> {}]

Init ==
  /\ \/ pk = "absent" /\ cols = {} /\ rows = {}
     \/ pk = "doc" /\ cols \in {{}, Columns} /\ rows \in SUBSET Docs
     \/ pk = "doc_seq" /\ cols = Columns /\ rows \in SUBSET Docs
  /\ aside = {} /\ hasAside = FALSE
  /\ pc = "down" /\ info = NoInfo
  /\ legacy = rows /\ crashes = 0

ReadsFirst ==   \* wrong on purpose: table_info before the table exists
  /\ pc = "down" /\ pc' = "info"
  /\ UNCHANGED <<pk, cols, rows, aside, hasAside, info, legacy, crashes>>

Start ==
  /\ pc = "down" /\ pc' = "create"
  /\ UNCHANGED <<pk, cols, rows, aside, hasAside, info, legacy, crashes>>

(* CREATE TABLE IF NOT EXISTS, with the key and columns of today. *)
CreateTable(next) ==
  /\ pc' = next
  /\ IF pk = "absent" THEN pk' = "doc_seq" /\ cols' = Columns /\ rows' = {}
                      ELSE UNCHANGED <<pk, cols, rows>>
  /\ UNCHANGED <<aside, hasAside, info, legacy, crashes>>
Create == pc = "create" /\ CreateTable("info")

ReadInfo ==
  /\ pc = "info" /\ pc' = "columns" /\ info' = [pk |-> pk, cols |-> cols]
  /\ UNCHANGED <<pk, cols, rows, aside, hasAside, legacy, crashes>>

(* ALTER TABLE ADD COLUMN for each column missing in what was read. *)
AddColumn ==
  /\ pc = "columns"
  /\ \E c \in Columns \ info.cols : c \notin cols /\ cols' = cols \cup {c}
  /\ UNCHANGED <<pk, rows, aside, hasAside, pc, info, legacy, crashes>>

KeepsKey ==   \* wrong on purpose: only the columns are migrated
  /\ pc = "columns" /\ Columns \subseteq cols /\ pc' = "ready"
  /\ UNCHANGED <<pk, cols, rows, aside, hasAside, info, legacy, crashes>>

DecideRebuild ==
  /\ pc = "columns" /\ Columns \subseteq cols
  /\ pc' = IF info.pk = "doc" THEN "rename" ELSE "ready"
  /\ UNCHANGED <<pk, cols, rows, aside, hasAside, info, legacy, crashes>>

(* The script: rename, create, copy, drop. *)
Rename ==
  /\ pc = "rename" /\ ~hasAside /\ pc' = "rebuild"
  /\ hasAside' = TRUE /\ aside' = rows
  /\ pk' = "absent" /\ cols' = {} /\ rows' = {}
  /\ UNCHANGED <<info, legacy, crashes>>

Rebuild == pc = "rebuild" /\ CreateTable("copy")

SkipCopy ==   \* wrong on purpose: drop before copy
  /\ pc = "copy" /\ pc' = "drop"
  /\ UNCHANGED <<pk, cols, rows, aside, hasAside, info, legacy, crashes>>

Copy ==   \* INSERT OR IGNORE ... SELECT
  /\ pc = "copy" /\ pc' = "drop" /\ rows' = rows \cup aside
  /\ UNCHANGED <<pk, cols, aside, hasAside, info, legacy, crashes>>

Drop ==
  /\ pc = "drop" /\ pc' = "ready" /\ hasAside' = FALSE /\ aside' = {}
  /\ UNCHANGED <<pk, cols, rows, info, legacy, crashes>>

(* The server at work: backups insert documents, deletions remove them. *)
Backup ==
  /\ pc = "ready" /\ \E d \in Docs \ rows : rows' = rows \cup {d}
  /\ UNCHANGED <<pk, cols, aside, hasAside, pc, info, legacy, crashes>>

Delete ==
  /\ pc = "ready" /\ \E d \in rows : rows' = rows \ {d} /\ legacy' = legacy \ {d}
  /\ UNCHANGED <<pk, cols, aside, hasAside, pc, info, crashes>>

Stop ==
  /\ pc = "ready" /\ pc' = "down" /\ info' = NoInfo
  /\ UNCHANGED <<pk, cols, rows, aside, hasAside, legacy, crashes>>

Crash ==   \* also an sqlite3.Error: nothing is remembered as initialised
  /\ pc \notin {"down", "ready"} /\ crashes < MaxCrashes /\ crashes' = crashes + 1
  /\ pc' = "down" /\ info' = NoInfo
  /\ UNCHANGED <<pk, cols, rows, aside, hasAside, legacy>>

Next ==
  \/ Start \/ Create \/ ReadInfo \/ AddColumn \/ DecideRebuild
  \/ Rename \/ Rebuild \/ Copy \/ Drop
  \/ Backup \/ Delete \/ Stop \/ Crash

Spec == Init /\ [][Next]_vars

-----------------------------------------------------------------------------
(* Types of the tables and of the procedure. *)
TypeOK ==
  /\ pk \in {"absent", "doc", "doc_seq"} /\ cols \subseteq Columns
  /\ rows \subseteq Docs /\ aside \subseteq Docs /\ hasAside \in BOOLEAN
  /\ pc \in {"down", "create", "info", "columns", "rename", "rebuild", "copy", "drop", "ready"}
  /\ info \in [pk : {"absent", "doc", "doc_seq"}, cols : SUBSET Columns]
  /\ legacy \subseteq Docs /\ crashes \in 0 .. MaxCrashes
  /\ aside # {} => hasAside
  /\ pc \in {"columns", "rename"} => info.pk = pk /\ pk # "absent"

(* However many starts were cut short, the server only works on a table with *)
(* the composite key and all columns.                                      *)
ReadyMeansMigrated == pc = "ready" => pk = "doc_seq" /\ cols = Columns

(* No start, complete or cut short, destroys a legacy row: it is in the       *)
(* table or at least in _mig_<table>.                                      *)
NothingErased == legacy \subseteq rows \cup aside

(* The migration is idempotent: after any number of starts the server sees   *)
(* every legacy row.                                                       *)
NothingStranded == pc = "ready" => legacy \subseteq rows
=============================================================================
