----------------------------- MODULE SummaryMerge -----------------------------
(***************************************************************************)
(* GET /summary/monthly_total, /by_item and /monthly_by_item: each of the  *)
(* two databases is aggregated by itself and the partial groups are merged *)
(* (api/routers/summary.py over DBRouter.build_aggregation_sql).  The ERP  *)
(* books rows in the live database, copies them to the archive and deletes *)
(* them from live, in its own time.  A quantity is never NULL here.        *)
(***************************************************************************)
EXTENDS Integers, FiniteSets, FiniteSetsExt

CONSTANTS
  Dates,      \* days; two of them make a month, 2m - 1 being the first of m
  Cutoff,     \* ARCHIVE_CUTOFF_DATE, the first of a year
  Items,      \* item codes
  Sizes,      \* the good_quantity of the rows, in the order of their ids
  Limits,     \* limits a client may give
  Any, Lot,   \* no filter given; a limit no answer reaches
  Scale       \* averages are counted in parts of it, see Aggregate

Month(d) == (d + 1) \div 2
FirstOf(m) == 2 * m - 1
Months == {Month(d) : d \in Dates}
RowIds == DOMAIN Sizes

SummaryAssumption ==
  /\ Dates \subseteq Nat \ {0} /\ IsFiniteSet(Dates) /\ IsFiniteSet(Items)
  /\ Cutoff \in Nat /\ Cutoff = FirstOf(Month(Cutoff))
  /\ Any \notin Dates \cup Months \cup Items
  /\ IsFiniteSet(RowIds) /\ \A i \in RowIds : Sizes[i] \in Nat
  /\ Limits \subseteq Nat \ {0} /\ Lot \in Nat /\ Lot >= Cardinality(RowIds)
  /\ Scale \in Nat \ {0} /\ \A n \in 1 .. Cardinality(RowIds) : Scale % (2 * n) = 0

VARIABLES
  rows,       \* production_records of both databases: [id, src, date, item]
  present     \* ARCHIVE_DB_FILE.exists()

vars == <<rows, present>>

Sources == {"archive", "live"}

Init == rows = {} /\ present \in BOOLEAN

Book(i) ==
  /\ \A r \in rows : r.id < i
  /\ \E d \in Dates, x \in Items :
       rows' = rows \cup {[id |-> i, src |-> "live", date |-> d, item |-> x]}
  /\ UNCHANGED present

Archive(r) ==
  /\ present /\ r.src = "live"
  /\ rows' = rows \cup {[r EXCEPT !.src = "archive"]}
  /\ UNCHANGED present

Drop(r) ==
  /\ r.src = "live" /\ [r EXCEPT !.src = "archive"] \in rows
  /\ rows' = rows \ {r}
  /\ UNCHANGED present

Next == (\E i \in RowIds : Book(i)) \/ (\E r \in rows : Archive(r) \/ Drop(r))

Spec == Init /\ [][Next]_vars

-----------------------------------------------------------------------------
(* The requests: `by` has the columns of GROUP BY.  date_to is inclusive.    *)

Ranges(dates) == {p \in dates \X dates : p[1] = Any \/ p[2] = Any \/ p[1] <= p[2]}

MonthlyTotal ==
  {[by |-> {"month"}, from |-> p[1], to |-> p[2], month |-> Any, item |-> Any,
    limit |-> Lot] : p \in Ranges(Dates \cup {Any})}

ByItem ==
  {[by |-> {"item"}, from |-> p[1], to |-> p[2], month |-> Any, item |-> x,
    limit |-> n] : p \in Ranges(Dates), x \in Items \cup {Any}, n \in Limits}

MonthlyByItem ==
  {[by |-> {"month", "item"}, from |-> Any, to |-> Any, month |-> m, item |-> x,
    limit |-> n] : m \in Months \cup {Any}, x \in Items \cup {Any}, n \in Limits}

Requests == MonthlyTotal \cup ByItem \cup MonthlyByItem

Matches(q, r) ==
  /\ q.from # Any => r.date >= q.from
  /\ q.to # Any => r.date < q.to + 1
  /\ q.month # Any => Month(r.date) = q.month
  /\ q.item # Any => r.item = q.item

\* a row is served by one database only, whatever copies there are
Own(r) == IF r.src = "archive" THEN r.date < Cutoff ELSE r.date >= Cutoff

\* pick_targets over the range, or from the first of the month to that of the next
Targets(q) ==
  LET from == IF q.month # Any THEN FirstOf(q.month) ELSE q.from
      end  == CASE q.month # Any -> FirstOf(q.month + 1)
                [] q.month = Any /\ q.to # Any -> q.to + 1
                [] OTHER -> Any
  IN {src \in Sources : IF src = "archive" THEN from = Any \/ from < Cutoff
                                           ELSE end = Any \/ end >= Cutoff}

-----------------------------------------------------------------------------
(* build_aggregation_sql.  AVG is kept in whole numbers: a common multiple   *)
(* of twice every number of rows, which any number of rows has, makes the    *)
(* averages, and the averages of two of them, come out even.                 *)

Key(q, r) == [month |-> IF "month" \in q.by THEN Month(r.date) ELSE 0,
              item  |-> IF "item" \in q.by THEN r.item ELSE Any]

Total(R) == MapThenSumSet(LAMBDA r : Sizes[r.id], R)

\* SUM, COUNT and AVG of the rows R of a group
Aggregate(k, R) ==
  [key |-> k, total |-> Total(R), cnt |-> Cardinality(R),
   avg |-> (Scale * Total(R)) \div Cardinality(R)]

Grouped(q, R) ==
  {Aggregate(k, {r \in R : Key(q, r) = k}) : k \in {Key(q, r) : r \in R}}

\* "year_month DESC, total DESC", as far as the groups have these columns
Above(g, h) ==
  \/ g.key.month > h.key.month
  \/ g.key.month = h.key.month /\ g.total > h.total

\* LIMIT; groups that tie for the last place are all kept
First(groups, n) == {g \in groups : Cardinality({h \in groups : Above(h, g)}) < n}

\* a plausible bug: the limit is pushed down into each database
PartLimited(q, src) ==
  {[src |-> src, group |-> g] :
     g \in First(Grouped(q, {r \in rows : r.src = src /\ Own(r) /\ Matches(q, r)}),
                 q.limit)}

\* a plausible bug: the cutoff is left out of the two halves
PartOfAll(q, src) ==
  {[src |-> src, group |-> g] :
     g \in Grouped(q, {r \in rows : r.src = src /\ Matches(q, r)})}

\* the inner select of one database
Part(q, src) ==
  {[src |-> src, group |-> g] :
     g \in Grouped(q, {r \in rows : r.src = src /\ Own(r) /\ Matches(q, r)})}

Parts(q) == UNION {Part(q, src) : src \in {s \in Targets(q) : s = "archive" => present}}

\* SUM(total), SUM(cnt), AVG(avg_val) of the partial groups of one key
Combined(k, parts) ==
  [key |-> k,
   total |-> MapThenSumSet(LAMBDA p : p.group.total, parts),
   cnt   |-> MapThenSumSet(LAMBDA p : p.group.cnt, parts),
   avg   |-> MapThenSumSet(LAMBDA p : p.group.avg, parts) \div Cardinality(parts)]

\* a plausible bug: UNION instead of UNION ALL, so that equal groups merge
MergedAsSets(q) ==
  LET parts == {[src |-> "either", group |-> p.group] : p \in Parts(q)}
  IN {Combined(k, {p \in parts : p.group.key = k}) : k \in {p.group.key : p \in parts}}

\* the outer select
Merged(q) ==
  {Combined(k, {p \in Parts(q) : p.group.key = k}) :
     k \in {p.group.key : p \in Parts(q)}}

\* by_item answers without an average
Shown(q, g) == IF "month" \in q.by THEN g ELSE [g EXCEPT !.avg = 0]

Answer(q) == {Shown(q, g) : g \in First(Merged(q), q.limit)}

-----------------------------------------------------------------------------
\* Every summary is what one query over the rows of both databases would say,
\* each row counted once, by the database that owns its date: sums, counts,
\* the averages (which the code takes of averages) and the cut at the limit.
SummariesAreDirect ==
  \A q \in Requests :
    LET once == {r \in rows : Own(r) /\ (r.src = "archive" => present) /\ Matches(q, r)}
    IN  Answer(q) = {Shown(q, g) : g \in First(Grouped(q, once), q.limit)}
=============================================================================
