--------------------------- MODULE ProductionPages ---------------------------
(***************************************************************************)
(* GET /records: one query over the live database and, for old dates, the  *)
(* archive, in pages chained by a cursor (api/routers/records.py over      *)
(* DBRouter of shared/database.py).  A client pages through a range of     *)
(* dates while the ERP inserts and deletes live rows and the archive file  *)
(* comes and goes.  A row is [date, src, id]; filters other than the dates *)
(* choose which rows there are and are left out.                           *)
(***************************************************************************)
EXTENDS Integers, FiniteSets

CONSTANTS
  LastDate, Cutoff,        \* dates are 1 .. LastDate; ARCHIVE_CUTOFF_DATE
  Ids,                     \* ids of rows
  ArchiveRows, FirstLive,  \* the rows of the archive; those first in live
  Limit,                   \* filters.limit
  Modes,                   \* ways of paging a client may choose
  MaxChanges, MaxSwaps     \* bounds: live changes; archive appearing or going

Dates == 1 .. LastDate
Any   == 0                 \* no bound given: date_from or date_to is None

Row(src) == [date : Dates, src : {src}, id : Ids]

ASSUME PagesAssumption ==
  /\ LastDate \in Nat /\ Cutoff \in Dates /\ Limit \in Nat \ {0}
  /\ Ids \subseteq Nat
  /\ FirstLive \subseteq Row("live") /\ ArchiveRows \subseteq Row("archive")
  /\ IsFiniteSet(FirstLive) /\ IsFiniteSet(ArchiveRows)
  /\ Modes \subseteq {"cursor", "offset"}
  /\ MaxChanges \in Nat /\ MaxSwaps \in Nat

VARIABLES
  live,       \* production_records of the live database
  present,    \* ARCHIVE_DB_FILE.exists()
  ask,        \* the client: its way of paging, its range, its place
  call,       \* the request being served: its phase and what it has decided
  got,        \* rows the client has received
  twice,      \* history: rows received more than once
  steady,     \* history: rows there all along since the first request
  changes, swaps

vars == <<live, present, ask, call, got, twice, steady, changes, swaps>>

Sources == {"archive", "live"}
NoCursor == [date |-> 0, src |-> "none", id |-> 0]
AllRows == live \cup ArchiveRows

\* a plausible bug: the last comparison of the cursor is not strict
BeforeOrAt(r, q) ==
  \/ r.date > q.date
  \/ r.date = q.date /\ r.src = "live" /\ q.src = "archive"
  \/ r.date = q.date /\ r.src = q.src /\ r.id >= q.id

\* "production_date DESC, source DESC, id DESC"; 'live' is above 'archive'
Before(r, q) ==
  \/ r.date > q.date
  \/ r.date = q.date /\ r.src = "live" /\ q.src = "archive"
  \/ r.date = q.date /\ r.src = q.src /\ r.id > q.id

\* a plausible bug: the end that was moved one day on is taken as inclusive
InDatesAndOne(r, from, to) ==
  /\ from = Any \/ r.date >= from
  /\ to = Any \/ r.date <= to + 1

\* date_to of the request is inclusive, date_to_n one day later and exclusive
InDates(r, from, to) ==
  /\ from = Any \/ r.date >= from
  /\ to = Any \/ r.date < to + 1

\* a plausible bug: the cutoff is left out of the two halves of the union
OwnAnywhere(r) == TRUE

\* a row is served by one database only, whatever copies there are
Own(r) == IF r.src = "archive" THEN r.date < Cutoff ELSE r.date >= Cutoff

\* a plausible bug: the day of the cutoff is forgotten
TargetsPastCutoff(from, to) ==
  {src \in Sources :
     CASE src = "archive" -> from = Any \/ from < Cutoff
       [] OTHER -> to = Any \/ to > Cutoff}

pick_targets(from, to) ==
  {src \in Sources :
     CASE src = "archive" -> from = Any \/ from < Cutoff
       [] OTHER -> to = Any \/ to + 1 >= Cutoff}

-----------------------------------------------------------------------------
Init ==
  /\ live = FirstLive /\ present \in BOOLEAN
  /\ ask \in {[mode |-> m, from |-> f, to |-> t,
               cursor |-> NoCursor, offset |-> 0, done |-> FALSE] :
                m \in Modes, f \in Dates \cup {Any}, t \in Dates \cup {Any}}
  /\ ask.from # Any /\ ask.to # Any => ask.from <= ask.to
  /\ call = [phase |-> "none", parts |-> {}, bound |-> {}]
  /\ got = {} /\ twice = {}
  /\ steady = {r \in AllRows : Own(r) /\ (r.src = "archive" => present)}
  /\ changes = 0 /\ swaps = 0

(* The ERP and the archive file *)

Insert ==
  /\ changes < MaxChanges /\ changes' = changes + 1
  /\ \E r \in Row("live") : /\ \A q \in live : q.id # r.id
                            /\ live' = live \cup {r}
  /\ UNCHANGED <<present, ask, call, got, twice, steady, swaps>>

Delete ==
  /\ changes < MaxChanges /\ changes' = changes + 1
  /\ \E r \in live : live' = live \ {r} /\ steady' = steady \ {r}
  /\ UNCHANGED <<present, ask, call, got, twice, swaps>>

SwapArchive ==
  /\ swaps < MaxSwaps /\ swaps' = swaps + 1
  /\ present' = ~present
  /\ steady' = {r \in steady : r.src = "live"}
  /\ UNCHANGED <<live, ask, call, got, twice, changes>>

-----------------------------------------------------------------------------
(* One request: the statement is built, its parameters are bound and it is *)
(* run; each of the three looks at the archive file for itself.            *)

Reachable(targets) == {src \in targets : src = "live" \/ present}

BuildUnion ==
  /\ call.phase = "none" /\ ~ask.done
  /\ call' = [phase |-> "bind", bound |-> {},
              parts |-> Reachable(pick_targets(ask.from, ask.to))]
  /\ UNCHANGED <<live, present, ask, got, twice, steady, changes, swaps>>

BindParams ==
  /\ call.phase = "bind"
  /\ call' = [call EXCEPT !.phase = "run",
                !.bound = Reachable(pick_targets(ask.from, ask.to))]
  /\ UNCHANGED <<live, present, ask, got, twice, steady, changes, swaps>>

Runs == call.parts = call.bound /\ Reachable(call.parts) = call.parts

Matching ==
  {r \in AllRows : /\ r.src \in call.parts /\ Own(r)
                   /\ InDates(r, ask.from, ask.to)
                   /\ ask.cursor # NoCursor => Before(ask.cursor, r)}

\* the first n rows of S in the order of the query
First(S, n) == {r \in S : Cardinality({q \in S : Before(q, r)}) < n}

LastOf(P) == CHOOSE p \in P : \A q \in P \ {p} : Before(q, p)

\* the rows after the offset, which counts only when there is no cursor
Skipped == IF ask.cursor = NoCursor THEN First(Matching, ask.offset) ELSE {}

\* a plausible bug: the cursor is the row read only to know if there is more
OnwardFromExtra(page) ==
  [ask EXCEPT !.cursor = LastOf(First(Matching \ Skipped, Limit + 1))]

\* what the client asks for next
Onward(page) ==
  CASE ask.mode = "cursor" -> [ask EXCEPT !.cursor = LastOf(page)]
    [] ask.mode = "offset" -> [ask EXCEPT !.offset = @ + Limit]

RunQuery ==
  /\ call.phase = "run" /\ Runs
  /\ LET rest == Matching \ Skipped
         page == First(rest, Limit)
         has_more == Cardinality(rest) > Limit
     IN /\ got' = got \cup page
        /\ twice' = twice \cup (got \cap page)
        /\ ask' = IF has_more THEN Onward(page) ELSE [ask EXCEPT !.done = TRUE]
  /\ call' = [call EXCEPT !.phase = "none"]
  /\ UNCHANGED <<live, present, steady, changes, swaps>>

\* too many or too few bindings, or no table archive.production_records:
\* the request ends with a 500 and the client asks again
FailQuery ==
  /\ call.phase = "run" /\ ~Runs
  /\ call' = [call EXCEPT !.phase = "none"]
  /\ UNCHANGED <<live, present, ask, got, twice, steady, changes, swaps>>

Next ==
  \/ Insert \/ Delete \/ SwapArchive
  \/ BuildUnion \/ BindParams \/ RunQuery \/ FailQuery

Spec == Init /\ [][Next]_vars

-----------------------------------------------------------------------------
TypeOK ==
  /\ live \subseteq Row("live") /\ present \in BOOLEAN
  /\ ask.mode \in Modes /\ ask.from \in Dates \cup {Any}
  /\ ask.to \in Dates \cup {Any} /\ ask.offset \in Nat /\ ask.done \in BOOLEAN
  /\ ask.cursor = NoCursor \/ ask.cursor \in got
  /\ call.phase \in {"none", "bind", "run"}
  /\ call.parts \subseteq Sources /\ call.bound \subseteq Sources
  /\ twice \subseteq got
  /\ changes \in 0 .. MaxChanges /\ swaps \in 0 .. MaxSwaps

\* A client that follows the cursor gets no row twice, whatever is inserted,
\* deleted or swapped between its pages and however often a page fails.
NoRowTwice == ask.mode = "cursor" => twice = {}

\* When the last page has come, the client has every row of its range that was
\* there all along, from the database that owns its date.
NothingSkipped ==
  ask.mode = "cursor" /\ ask.done =>
    \A r \in steady : InDates(r, ask.from, ask.to) => r \in got

\* Rows come from one database only: a row copied to the archive and not yet
\* deleted from the live database is served once.
OneCopy == \A r, q \in got : r.id = q.id /\ r.date = q.date => r.src = q.src

\* Both ends of the range are inclusive, on either side of the cutoff.
InRange ==
  \A r \in got : /\ ask.from # Any => r.date >= ask.from
                 /\ ask.to # Any => r.date <= ask.to

\* The types; a row that is in both databases is served once, by the one that
\* owns its date; every row lies in the range, whose ends are inclusive; and no
\* row that was there all along is missing at the end.
PagesAreRight == TypeOK /\ OneCopy /\ InRange /\ NothingSkipped
=============================================================================
