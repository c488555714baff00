----------------------- MODULE ProductionParts_proofs -----------------------
(***************************************************************************)
(* Proofs about what is made of the production data, for any rows, limits, *)
(* thresholds and bounds: a client that follows the pages gets no row twice *)
(* and misses none, the summaries are what one query would give, the rules *)
(* of the anomaly detector are steady, and the emission of what they find  *)
(* is exact (over AnomalyCooldown_proofs).                                 *)
(***************************************************************************)
EXTENDS ProductionParts, FiniteSetTheorems, WellFoundedInduction, TLAPS

-----------------------------------------------------------------------------
(* The pages. *)

RowSet == [date : Nat, src : Sources, id : Nat]

(* The order of the query on rows is strict and total. *)

LEMMA OrderIrreflexive == \A r \in RowSet : ~Before(r, r)
  BY DEF RowSet, Before, Sources

LEMMA OrderTransitive ==
  \A r, q, p \in RowSet : Before(r, q) /\ Before(q, p) => Before(r, p)
  BY DEF RowSet, Before, Sources

LEMMA OrderTotal ==
  \A r, q \in RowSet : r = q \/ Before(r, q) \/ Before(q, r)
  BY DEF RowSet, Before, Sources

(* A finite set of rows that is not empty has a first row and a last one:   *)
(* take the row with the fewest rows before it, or after it.                *)

LEMMA FirstExists ==
  ASSUME NEW S \in SUBSET RowSet, IsFiniteSet(S), S # {}
  PROVE  \E m \in S : \A q \in S \ {m} : Before(m, q)
<1> DEFINE Above(r) == {q \in S : Before(q, r)}
           T == {Above(r) : r \in S}
<1>1. T \subseteq SUBSET S /\ T # {}
  OBVIOUS
<1>2. IsWellFoundedOn(StrictSubsetOrdering(S), SUBSET S)
  BY FS_StrictSubsetOrderingWellFounded, FS_FiniteSubsetsOfFinite
<1>3. PICK x \in T : \A y \in T : ~(<<y, x>> \in StrictSubsetOrdering(S))
  <2> HIDE DEF T
  <2> QED BY <1>1, <1>2, WFMin
<1>4. PICK m \in S : x = Above(m)
  OBVIOUS
<1>5. ASSUME NEW q \in S, Before(q, m) PROVE FALSE
  <2>1. Above(q) \subseteq Above(m)
    BY <1>5, OrderTransitive
  <2>2. q \in Above(m) /\ q \notin Above(q)
    BY <1>5, OrderIrreflexive
  <2>3. <<Above(q), x>> \in StrictSubsetOrdering(S)
    BY <2>1, <2>2, <1>4 DEF StrictSubsetOrdering
  <2> QED BY <2>3, <1>3
<1> QED BY <1>5, OrderTotal

LEMMA LastExists ==
  ASSUME NEW S \in SUBSET RowSet, IsFiniteSet(S), S # {}
  PROVE  LastOf(S) \in S /\ \A q \in S \ {LastOf(S)} : Before(q, LastOf(S))
<1> DEFINE Below(r) == {q \in S : Before(r, q)}
           T == {Below(r) : r \in S}
<1>1. T \subseteq SUBSET S /\ T # {}
  OBVIOUS
<1>2. IsWellFoundedOn(StrictSubsetOrdering(S), SUBSET S)
  BY FS_StrictSubsetOrderingWellFounded, FS_FiniteSubsetsOfFinite
<1>3. PICK x \in T : \A y \in T : ~(<<y, x>> \in StrictSubsetOrdering(S))
  <2> HIDE DEF T
  <2> QED BY <1>1, <1>2, WFMin
<1>4. PICK m \in S : x = Below(m)
  OBVIOUS
<1>5. ASSUME NEW q \in S, Before(m, q) PROVE FALSE
  <2>1. Below(q) \subseteq Below(m)
    BY <1>5, OrderTransitive
  <2>2. q \in Below(m) /\ q \notin Below(q)
    BY <1>5, OrderIrreflexive
  <2>3. <<Below(q), x>> \in StrictSubsetOrdering(S)
    BY <2>1, <2>2, <1>4 DEF StrictSubsetOrdering
  <2> QED BY <2>3, <1>3
<1>6. \E p \in S : \A q \in S \ {p} : Before(q, p)
  BY <1>5, OrderTotal
<1> QED BY <1>6 DEF LastOf

(* A page of at least one row, taken from rows that are left, is not empty. *)
LEMMA PageNotEmpty ==
  ASSUME NEW S \in SUBSET RowSet, IsFiniteSet(S), S # {}
  PROVE  First(S, Limit) \in SUBSET S /\ First(S, Limit) # {}
<1>1. PICK m \in S : \A q \in S \ {m} : Before(m, q)
  BY FirstExists
<1>2. {q \in S : Before(q, m)} = {}
  BY <1>1, OrderTransitive, OrderIrreflexive
<1>3. Cardinality({q \in S : Before(q, m)}) = 0
  BY <1>2, FS_EmptySet
<1>4. m \in First(S, Limit)
  BY <1>3, PagesAssumption DEF First
<1> QED BY <1>4 DEF First

-----------------------------------------------------------------------------
USE DEF Sources

CallSet == [phase : {"none", "bind", "run"}, parts : SUBSET Sources,
            bound : SUBSET Sources]
AskSet  == [mode : Modes, from : Nat, to : Nat,
            cursor : RowSet \cup {NoCursor}, offset : Nat, done : BOOLEAN]

Typed ==
  /\ live \subseteq RowSet /\ IsFiniteSet(live)
  /\ call \in CallSet /\ ask \in AskSet
  /\ got \subseteq RowSet
  /\ ask.done => call.phase = "none"

\* every row received lies before the cursor or is the cursor itself
Behind == IF ask.cursor = NoCursor THEN got = {}
          ELSE \A r \in got : r = ask.cursor \/ Before(r, ask.cursor)

\* Passed is inductive: NoRowTwice alone does not say where the cursor is.
Passed ==
  /\ Typed
  /\ ask.mode = "cursor" => twice = {} /\ (ask.done \/ Behind)

LEMMA RowsTyped ==
  /\ Row("live") \subseteq RowSet /\ Row("archive") \subseteq RowSet
  /\ NoCursor \notin RowSet
  /\ Dates \subseteq Nat /\ Any \in Nat
<1>1. Dates \subseteq Nat /\ Any \in Nat /\ Ids \subseteq Nat
  BY PagesAssumption DEF Dates, Any
<1>2. NoCursor \notin RowSet
  <2>1. NoCursor.src = "none"
    BY DEF NoCursor
  <2> QED BY <2>1 DEF RowSet
<1>3. Row("live") \subseteq RowSet
  BY <1>1 DEF Row, RowSet
<1>4. Row("archive") \subseteq RowSet
  BY <1>1 DEF Row, RowSet
<1> QED BY <1>1, <1>2, <1>3, <1>4

LEMMA InitPassed == Init => Passed
<1> SUFFICES ASSUME Init PROVE Passed
  OBVIOUS
<1>1. live \subseteq RowSet /\ IsFiniteSet(live)
  BY PagesAssumption, RowsTyped DEF Init
<1>2. call \in CallSet
  BY DEF Init, CallSet
<1>3. /\ ask \in AskSet
      /\ ask.cursor = NoCursor
  <2>1. PICK m \in Modes, f \in Dates \cup {Any}, t \in Dates \cup {Any} :
          ask = [mode |-> m, from |-> f, to |-> t,
                 cursor |-> NoCursor, offset |-> 0, done |-> FALSE]
    BY DEF Init
  <2>2. f \in Nat /\ t \in Nat
    BY RowsTyped
  <2> QED BY <2>1, <2>2 DEF AskSet
<1> QED BY <1>1, <1>2, <1>3 DEF Init, Passed, Typed, Behind

\* the rows a query may return are finitely many
LEMMA MatchingFinite ==
  ASSUME Typed
  PROVE  Matching \in SUBSET RowSet /\ IsFiniteSet(Matching)
<1>1. AllRows \subseteq RowSet /\ IsFiniteSet(AllRows)
  BY PagesAssumption, RowsTyped, FS_Union DEF Typed, AllRows
<1>2. Matching \in SUBSET AllRows
  BY DEF Matching
<1> QED BY <1>1, <1>2, FS_Subset

\* no row of the next page has been received before
LEMMA PageIsNew ==
  ASSUME Passed, ask.mode = "cursor", ~ask.done
  PROVE  got \cap Matching = {}
<1> SUFFICES ASSUME NEW r \in got, r \in Matching PROVE FALSE
  OBVIOUS
<1>1. ask.cursor # NoCursor /\ (r = ask.cursor \/ Before(r, ask.cursor))
  BY DEF Passed, Behind
<1>2. Before(ask.cursor, r)
  BY <1>1 DEF Matching
<1>3. r \in RowSet /\ ask.cursor \in RowSet
  BY <1>1 DEF Passed, Typed, AskSet
<1> QED BY <1>1, <1>2, <1>3, OrderTransitive, OrderIrreflexive

\* the cursor moves behind every row received so far, the new page included
LEMMA CursorMoves ==
  ASSUME Passed, ask.mode = "cursor", ~ask.done,
         NEW page, page \in SUBSET Matching, page # {}
  PROVE  /\ LastOf(page) \in RowSet
         /\ \A r \in got \cup page :
              r = LastOf(page) \/ Before(r, LastOf(page))
<1>1. page \in SUBSET RowSet /\ IsFiniteSet(page)
  BY MatchingFinite, FS_Subset DEF Passed
<1>2. LastOf(page) \in page
      /\ \A r \in page \ {LastOf(page)} : Before(r, LastOf(page))
  BY <1>1, LastExists
<1>3. ASSUME NEW r \in got PROVE Before(r, LastOf(page))
  <2>1. ask.cursor # NoCursor /\ (r = ask.cursor \/ Before(r, ask.cursor))
    BY <1>3 DEF Passed, Behind
  <2>2. Before(ask.cursor, LastOf(page))
    BY <1>2, <2>1 DEF Matching
  <2>3. r \in RowSet /\ ask.cursor \in RowSet /\ LastOf(page) \in RowSet
    BY <1>1, <1>2, <2>1 DEF Passed, Typed, AskSet
  <2> QED BY <2>1, <2>2, <2>3, OrderTransitive
<1> QED BY <1>1, <1>2, <1>3

LEMMA RunPasses == Passed /\ RunQuery => Passed'
<1> SUFFICES ASSUME Passed, RunQuery PROVE Passed'
  OBVIOUS
<1> DEFINE rest == Matching \ Skipped
           page == First(rest, Limit)
           more == Cardinality(rest) > Limit
<1>1. /\ got' = got \cup page
      /\ twice' = twice \cup (got \cap page)
      /\ ask' = IF more THEN Onward(page) ELSE [ask EXCEPT !.done = TRUE]
      /\ call' = [call EXCEPT !.phase = "none"] /\ call.phase = "run"
      /\ live' = live
  BY DEF RunQuery
<1>2. ~ask.done
  BY <1>1 DEF Passed, Typed
<1>3. rest \in SUBSET RowSet /\ IsFiniteSet(rest) /\ page \in SUBSET rest
  BY MatchingFinite, FS_Subset DEF Passed, First
<1>4. more => page # {}
  <2>1. rest = {} => Cardinality(rest) = 0
    BY FS_EmptySet
  <2> QED BY <1>3, <2>1, PageNotEmpty, PagesAssumption
<1>5. page # {} => LastOf(page) \in RowSet
  BY <1>3, LastExists, FS_Subset
<1> HIDE DEF page, rest
<1>6. ask' \in AskSet /\ ask'.mode = ask.mode
      /\ (ask.mode = "cursor" => ask' = IF more THEN [ask EXCEPT !.cursor = LastOf(page)]
                                        ELSE [ask EXCEPT !.done = TRUE])
  <2> HIDE DEF more
  <2>1. ask \in AskSet /\ ask.mode \in {"cursor", "offset"}
    BY PagesAssumption DEF Passed, Typed, AskSet
  <2>2. CASE ~more
    BY <1>1, <2>1, <2>2 DEF AskSet
  <2>3. CASE more /\ ask.mode = "cursor"
    <3>1. ask' = [ask EXCEPT !.cursor = LastOf(page)]
      BY <1>1, <2>3 DEF Onward
    <3> QED BY <1>4, <1>5, <2>1, <2>3, <3>1 DEF AskSet
  <2>4. CASE more /\ ask.mode = "offset"
    <3>1. ask' = [ask EXCEPT !.offset = ask.offset + Limit]
      BY <1>1, <2>4 DEF Onward
    <3> QED BY <2>1, <2>4, <3>1, PagesAssumption DEF AskSet
  <2> QED BY <2>1, <2>2, <2>3, <2>4
<1>7. Typed'
  <2>1. call' \in CallSet /\ call'.phase = "none"
    BY <1>1 DEF Passed, Typed, CallSet
  <2>2. got' \subseteq RowSet
    BY <1>1, <1>3 DEF Passed, Typed
  <2> QED BY <1>1, <1>6, <2>1, <2>2 DEF Passed, Typed
<1>8. ASSUME ask.mode = "cursor" PROVE twice' = {} /\ (ask'.done \/ Behind')
  <2>1. page \in SUBSET Matching
    BY <1>3 DEF rest
  <2>2. twice' = {}
    BY <1>1, <1>2, <1>8, <2>1, PageIsNew DEF Passed
  <2>3. CASE ~more
    BY <1>6, <1>8, <2>2, <2>3 DEF Passed, Typed, AskSet
  <2>4. CASE more
    <3>1. ask'.cursor = LastOf(page)
      BY <1>6, <1>8, <2>4 DEF Passed, Typed, AskSet
    <3>2. /\ LastOf(page) \in RowSet
          /\ \A r \in got \cup page :
               r = LastOf(page) \/ Before(r, LastOf(page))
      BY <1>2, <1>4, <1>8, <2>1, <2>4, CursorMoves
    <3>3. Behind'
      BY <1>1, <3>1, <3>2, RowsTyped DEF Behind
    <3> QED BY <2>2, <3>3
  <2> QED BY <2>3, <2>4
<1> QED BY <1>6, <1>7, <1>8 DEF Passed

LEMMA StepPasses == Passed /\ [Next]_vars => Passed'
<1> SUFFICES ASSUME Passed, [Next]_vars PROVE Passed'
  OBVIOUS
<1>1. CASE Insert
  <2>1. PICK r \in Row("live") : live' = live \cup {r}
    BY <1>1 DEF Insert
  <2>2. live' \subseteq RowSet /\ IsFiniteSet(live')
    BY <2>1, RowsTyped, FS_AddElement DEF Passed, Typed
  <2> QED BY <1>1, <2>2 DEF Insert, Passed, Typed, Behind
<1>2. CASE Delete
  <2>1. live' \in SUBSET live
    BY <1>2 DEF Delete
  <2>2. live' \subseteq RowSet /\ IsFiniteSet(live')
    BY <2>1, FS_Subset DEF Passed, Typed
  <2> QED BY <1>2, <2>2 DEF Delete, Passed, Typed, Behind
<1>3. CASE SwapArchive
  BY <1>3 DEF SwapArchive, Passed, Typed, Behind
<1>4. CASE BuildUnion
  <2>1. call' \in CallSet /\ ~ask.done
    BY <1>4 DEF BuildUnion, CallSet, Reachable, pick_targets
  <2> QED BY <1>4, <2>1 DEF BuildUnion, Passed, Typed, Behind
<1>5. CASE BindParams
  <2>1. call' \in CallSet /\ ~ask.done
    BY <1>5 DEF BindParams, CallSet, Reachable, pick_targets, Passed, Typed
  <2> QED BY <1>5, <2>1 DEF BindParams, Passed, Typed, Behind
<1>6. CASE RunQuery
  BY <1>6, RunPasses
<1>7. CASE FailQuery
  <2>1. call' \in CallSet /\ call'.phase = "none"
    BY <1>7 DEF FailQuery, CallSet, Passed, Typed
  <2> QED BY <1>7, <2>1 DEF FailQuery, Passed, Typed, Behind
<1>8. CASE UNCHANGED vars
  BY <1>8 DEF vars, Passed, Typed, Behind
<1> QED BY <1>1, <1>2, <1>3, <1>4, <1>5, <1>6, <1>7, <1>8 DEF Next

(* GET /records never gives a client that follows next_cursor the same row   *)
(* twice, for any page size and any interleaving of pages with changes of    *)
(* the live database, swaps of the archive and failed requests.              *)
THEOREM CursorNeverRepeats == Spec => []NoRowTwice
<1>1. Passed => NoRowTwice
  BY DEF Passed, NoRowTwice
<1> QED BY <1>1, InitPassed, StepPasses, PTL DEF Spec

-----------------------------------------------------------------------------
(* What a client that follows the cursor has not received lies behind the   *)
(* cursor, and the statement being served looks where it is: PagesAreRight  *)
(* speaks of the end only and is not inductive.                             *)

\* a row that was there all along is there, in a file that can be reached
Lasting ==
  \A r \in steady : r \in AllRows /\ Own(r) /\ (r.src = "archive" => present)

\* the statement built for a request looks into every file such a row is in
Targeted ==
  call.phase # "none" =>
    \A r \in steady : InDates(r, ask.from, ask.to) => r.src \in call.parts

\* such a row has been received or is still to come
Ahead ==
  ask.mode = "cursor" =>
    /\ ask.offset = 0
    /\ \A r \in steady : InDates(r, ask.from, ask.to) =>
         \/ r \in got
         \/ ~ask.done /\ (ask.cursor # NoCursor => Before(ask.cursor, r))

\* every row received is of the range and of the database that owns its date
Served == \A r \in got : Own(r) /\ InDates(r, ask.from, ask.to)

Kept == TypeOK /\ Lasting /\ Targeted /\ Ahead /\ Served

\* the two halves of the union cover every date of the range
LEMMA TargetsCover ==
  ASSUME NEW r \in RowSet, NEW from \in Nat, NEW to \in Nat,
         Own(r), InDates(r, from, to)
  PROVE  r.src \in pick_targets(from, to)
  BY PagesAssumption DEF Own, InDates, pick_targets, RowSet, Dates, Any

\* a page of all the rows when they fit
LEMMA PageHoldsAll ==
  ASSUME NEW S \in SUBSET RowSet, IsFiniteSet(S), Cardinality(S) <= Limit
  PROVE  First(S, Limit) = S
<1>1. ASSUME NEW r \in S PROVE r \in First(S, Limit)
  <2> DEFINE Q == {q \in S : Before(q, r)}
  <2>1. Q \in SUBSET S /\ Q # S
    BY OrderIrreflexive
  <2>2. Cardinality(Q) < Cardinality(S) /\ Cardinality(Q) \in Nat /\ Cardinality(S) \in Nat
    BY <2>1, FS_Subset, FS_CardinalityType
  <2>3. Cardinality(Q) < Limit
    BY <2>2, PagesAssumption
  <2> QED BY <2>3 DEF First
<1> QED BY <1>1 DEF First

\* what is left for the next page comes after the last row of this one
LEMMA RestComesAfter ==
  ASSUME NEW S \in SUBSET RowSet, IsFiniteSet(S), S # {},
         NEW r \in S, r \notin First(S, Limit)
  PROVE  Before(LastOf(First(S, Limit)), r)
<1> DEFINE page == First(S, Limit)
           l == LastOf(page)
           Q(p) == {q \in S : Before(q, p)}
<1>1. page \in SUBSET S /\ page # {} /\ IsFiniteSet(page)
  BY PageNotEmpty, FS_Subset
<1>2. l \in page /\ l \in RowSet /\ r \in RowSet
  BY <1>1, LastExists
<1>3. ASSUME Before(r, l) PROVE FALSE
  <2>1. Q(r) \in SUBSET Q(l)
    BY <1>2, <1>3, OrderTransitive
  <2>2. Q(l) \in SUBSET S
    OBVIOUS
  <2>3. /\ Cardinality(Q(r)) <= Cardinality(Q(l))
        /\ Cardinality(Q(r)) \in Nat /\ Cardinality(Q(l)) \in Nat
    BY <2>1, <2>2, FS_Subset, FS_CardinalityType
  <2>4. Cardinality(Q(l)) < Limit
    BY <1>2 DEF First
  <2>5. Cardinality(Q(r)) < Limit
    BY <2>3, <2>4, PagesAssumption
  <2> QED BY <2>5 DEF First
<1>4. r # l
  BY <1>2
<1> QED BY <1>2, <1>3, <1>4, OrderTotal

LEMMA InitKept == Init => Kept
<1> SUFFICES ASSUME Init PROVE Kept
  OBVIOUS
<1>1. PICK m \in Modes, f \in Dates \cup {Any}, t \in Dates \cup {Any} :
        ask = [mode |-> m, from |-> f, to |-> t,
               cursor |-> NoCursor, offset |-> 0, done |-> FALSE]
  BY DEF Init
<1>2. TypeOK
  BY <1>1, PagesAssumption DEF Init, TypeOK
<1>3. Lasting /\ Targeted /\ Served
  BY DEF Init, Lasting, Targeted, Served
<1>4. Ahead
  BY <1>1 DEF Ahead
<1> QED BY <1>2, <1>3, <1>4 DEF Kept

LEMMA RowsAreTyped ==
  ASSUME Typed, Lasting
  PROVE  steady \subseteq RowSet /\ ask.from \in Nat /\ ask.to \in Nat
  BY RowsTyped, PagesAssumption DEF Typed, Lasting, AllRows, AskSet

\* a row of the range that was there all along and has not come is matched
LEMMA LeftIsMatched ==
  ASSUME Passed, Kept, ask.mode = "cursor", ~ask.done, call.phase # "none",
         NEW r \in steady, InDates(r, ask.from, ask.to), r \notin got
  PROVE  r \in Matching
  BY DEF Kept, Lasting, Targeted, Ahead, Matching

\* with a cursor, and before the first one, nothing is skipped
LEMMA NothingOffset ==
  ASSUME Passed, Kept, ask.mode = "cursor"
  PROVE  Matching \ Skipped = Matching
<1>1. ASSUME NEW r \in Matching PROVE ~(Cardinality({q \in Matching : Before(q, r)}) < 0)
  <2>1. IsFiniteSet({q \in Matching : Before(q, r)})
    BY MatchingFinite, FS_Subset DEF Passed
  <2> QED BY <2>1, FS_CardinalityType
<1>2. ask.offset = 0
  BY DEF Kept, Ahead
<1>3. First(Matching, ask.offset) = {}
  BY <1>1, <1>2 DEF First
<1> QED BY <1>3 DEF Skipped

LEMMA RunKept == Passed /\ Kept /\ RunQuery => Kept'
<1> SUFFICES ASSUME Passed, Kept, RunQuery PROVE Kept'
  OBVIOUS
<1> DEFINE rest == Matching \ Skipped
           page == First(rest, Limit)
           more == Cardinality(rest) > Limit
<1>1. /\ got' = got \cup page
      /\ twice' = twice \cup (got \cap page)
      /\ ask' = IF more THEN Onward(page) ELSE [ask EXCEPT !.done = TRUE]
      /\ call' = [call EXCEPT !.phase = "none"] /\ call.phase = "run"
      /\ UNCHANGED <<live, present, steady, changes, swaps>>
  BY DEF RunQuery
<1>2. ~ask.done /\ ask \in AskSet /\ call \in CallSet
  BY <1>1 DEF Passed, Typed
<1>3. rest \in SUBSET RowSet /\ IsFiniteSet(rest) /\ page \in SUBSET rest
  BY MatchingFinite, FS_Subset DEF Passed, First
<1>4. more => page # {} /\ LastOf(page) \in page /\ rest # {}
  <2>1. rest = {} => Cardinality(rest) = 0
    BY FS_EmptySet
  <2>2. more => page # {} /\ rest # {}
    BY <1>3, <2>1, PageNotEmpty, PagesAssumption
  <2> QED BY <1>3, <2>2, LastExists, FS_Subset
<1>5. ~more => page = rest
  <2>1. Cardinality(rest) \in Nat
    BY <1>3, FS_CardinalityType
  <2> QED BY <1>3, <2>1, PageHoldsAll, PagesAssumption
<1>6. more => \A r \in rest : r \in page \/ Before(LastOf(page), r)
  BY <1>3, <1>4, RestComesAfter
<1>7. page \in SUBSET Matching
  BY <1>3
<1>8. ask.mode = "cursor" => rest = Matching
  BY NothingOffset
<1> HIDE DEF page, rest
<1>9. /\ ask'.mode = ask.mode /\ ask'.from = ask.from /\ ask'.to = ask.to
      /\ ask'.offset \in Nat /\ ask'.done \in BOOLEAN
      /\ ask'.cursor = ask.cursor \/ (more /\ ask'.cursor = LastOf(page))
      /\ ask.mode = "cursor" => /\ ask'.offset = ask.offset
                                /\ ask'.done = ~more
                                /\ more => ask'.cursor = LastOf(page)
  <2> HIDE DEF more
  <2>1. ask.mode \in {"cursor", "offset"}
    BY <1>2, PagesAssumption DEF AskSet
  <2>2. CASE ~more
    BY <1>1, <1>2, <2>2 DEF AskSet
  <2>3. CASE more /\ ask.mode = "cursor"
    <3>1. ask' = [ask EXCEPT !.cursor = LastOf(page)]
      BY <1>1, <2>3 DEF Onward
    <3> QED BY <1>2, <2>3, <3>1 DEF AskSet
  <2>4. CASE more /\ ask.mode = "offset"
    <3>1. ask' = [ask EXCEPT !.offset = ask.offset + Limit]
      BY <1>1, <2>4 DEF Onward
    <3> QED BY <1>2, <2>4, <3>1, PagesAssumption DEF AskSet
  <2> QED BY <2>1, <2>2, <2>3, <2>4
<1>10. call'.phase = "none" /\ call'.parts = call.parts /\ call'.bound = call.bound
  BY <1>1, <1>2 DEF CallSet
<1>11. TypeOK'
  <2>1. ask'.cursor = NoCursor \/ ask'.cursor \in got'
    BY <1>1, <1>4, <1>9 DEF Kept, TypeOK
  <2>2. twice' \subseteq got'
    BY <1>1 DEF Kept, TypeOK
  <2>3. ask'.mode \in Modes /\ ask'.from \in Dates \cup {Any} /\ ask'.to \in Dates \cup {Any}
    BY <1>9 DEF Kept, TypeOK
  <2>4. call'.parts \subseteq Sources /\ call'.bound \subseteq Sources
    BY <1>10 DEF Kept, TypeOK
  <2> HIDE DEF more
  <2> QED BY <1>1, <1>9, <1>10, <2>1, <2>2, <2>3, <2>4 DEF Kept, TypeOK
<1>12. Lasting' /\ Targeted'
  BY <1>1, <1>10 DEF Kept, Lasting, Targeted, AllRows
<1>13. Served'
  BY <1>1, <1>7, <1>9 DEF Kept, Served, Matching
<1>14. Ahead'
  <2> SUFFICES ASSUME ask.mode = "cursor" PROVE Ahead'
    BY <1>9 DEF Ahead
  <2>1. ASSUME NEW r \in steady, InDates(r, ask.from, ask.to), r \notin got'
        PROVE  more /\ Before(LastOf(page), r)
    <3>1. r \in rest
      BY <1>1, <1>2, <1>8, <2>1, LeftIsMatched
    <3> QED BY <1>1, <1>5, <1>6, <2>1, <3>1
  <2> QED BY <1>1, <1>9, <2>1 DEF Ahead, Kept
<1> QED BY <1>11, <1>12, <1>13, <1>14 DEF Kept

LEMMA StepKept == Passed /\ Kept /\ [Next]_vars => Kept'
<1> SUFFICES ASSUME Passed, Kept, [Next]_vars PROVE Kept'
  OBVIOUS
<1>1. steady \subseteq RowSet /\ ask.from \in Nat /\ ask.to \in Nat
  BY RowsAreTyped DEF Passed, Kept
<1>2. CASE Insert
  <2>1. TypeOK'
    BY <1>2, PagesAssumption DEF Insert, Kept, TypeOK
  <2> QED BY <1>2, <2>1 DEF Insert, Kept, Lasting, Targeted, Ahead, Served, AllRows
<1>3. CASE Delete
  <2>1. TypeOK'
    BY <1>3, PagesAssumption DEF Delete, Kept, TypeOK
  <2> QED BY <1>3, <2>1 DEF Delete, Kept, Lasting, Targeted, Ahead, Served, AllRows
<1>4. CASE SwapArchive
  <2>1. TypeOK'
    BY <1>4, PagesAssumption DEF SwapArchive, Kept, TypeOK
  <2>2. Lasting'
    BY <1>4 DEF SwapArchive, Kept, Lasting, AllRows
  <2> QED BY <1>4, <2>1, <2>2 DEF SwapArchive, Kept, Targeted, Ahead, Served
<1>5. CASE BuildUnion
  <2>1. call' = [phase |-> "bind", bound |-> {},
                 parts |-> Reachable(pick_targets(ask.from, ask.to))]
        /\ UNCHANGED <<live, present, ask, got, twice, steady, changes, swaps>>
    BY <1>5 DEF BuildUnion
  <2>2. TypeOK'
    BY <2>1 DEF Kept, TypeOK, Reachable, pick_targets
  <2>3. ASSUME NEW r \in steady, InDates(r, ask.from, ask.to)
        PROVE  r.src \in Reachable(pick_targets(ask.from, ask.to))
    <3>1. r.src \in pick_targets(ask.from, ask.to)
      BY <1>1, <2>3, TargetsCover DEF Kept, Lasting
    <3>2. r.src = "live" \/ present
      BY <1>1 DEF Kept, Lasting, RowSet
    <3> QED BY <3>1, <3>2 DEF Reachable
  <2>4. Targeted'
    BY <2>1, <2>3 DEF Targeted
  <2> QED BY <2>1, <2>2, <2>4 DEF Kept, Lasting, Ahead, Served, AllRows
<1>6. CASE BindParams
  <2>1. /\ call' = [call EXCEPT !.phase = "run",
                      !.bound = Reachable(pick_targets(ask.from, ask.to))]
        /\ call.phase = "bind" /\ call \in CallSet
        /\ UNCHANGED <<live, present, ask, got, twice, steady, changes, swaps>>
    BY <1>6 DEF BindParams, Passed, Typed
  <2>2. call'.phase = "run" /\ call'.parts = call.parts
        /\ call'.bound \subseteq Sources
    BY <2>1 DEF CallSet, Reachable, pick_targets
  <2>3. TypeOK'
    BY <2>1, <2>2 DEF Kept, TypeOK
  <2> QED BY <2>1, <2>2, <2>3 DEF Kept, Lasting, Targeted, Ahead, Served, AllRows
<1>7. CASE RunQuery
  BY <1>7, RunKept
<1>8. CASE FailQuery
  <2>1. /\ call' = [call EXCEPT !.phase = "none"] /\ call \in CallSet
        /\ UNCHANGED <<live, present, ask, got, twice, steady, changes, swaps>>
    BY <1>8 DEF FailQuery, Passed, Typed
  <2>2. call'.phase = "none" /\ call'.parts = call.parts /\ call'.bound = call.bound
    BY <2>1 DEF CallSet
  <2>3. TypeOK'
    BY <2>1, <2>2 DEF Kept, TypeOK
  <2> QED BY <2>1, <2>2, <2>3 DEF Kept, Lasting, Targeted, Ahead, Served, AllRows
<1>9. CASE UNCHANGED vars
  <2>1. TypeOK'
    BY <1>9 DEF vars, Kept, TypeOK
  <2> QED BY <1>9, <2>1 DEF vars, Kept, Lasting, Targeted, Ahead, Served, AllRows
<1> QED BY <1>2, <1>3, <1>4, <1>5, <1>6, <1>7, <1>8, <1>9 DEF Next

(* For any rows, cutoff, page size and order of pages, changes and swaps: a    *)
(* row is served by the database that owns its date and by no other, every row *)
(* lies in the range, and a client that follows next_cursor to the end has     *)
(* every row of its range that was there all along.                            *)
THEOREM PagesAreComplete == Spec => []PagesAreRight
<1>1. Passed /\ Kept => PagesAreRight
  <2> SUFFICES ASSUME Passed, Kept PROVE PagesAreRight
    OBVIOUS
  <2>1. got \subseteq RowSet /\ ask.to \in Nat
    BY RowsAreTyped DEF Passed, Typed, Kept
  <2>2. OneCopy
    BY <2>1, PagesAssumption DEF Kept, Served, OneCopy, Own, RowSet, Dates
  <2>3. InRange
    BY <2>1, PagesAssumption DEF Kept, Served, InRange, InDates, RowSet
  <2>4. NothingSkipped
    BY DEF Kept, Ahead, NothingSkipped
  <2> QED BY <2>2, <2>3, <2>4 DEF PagesAreRight, Kept
<1> QED BY <1>1, InitPassed, StepPasses, InitKept, StepKept, PTL DEF Spec

-----------------------------------------------------------------------------
(* The rules.  Days are finite sets of numbers: each has a first and a last.  *)
LEMMA DayEnds ==
  ASSUME NEW D \in SUBSET Int, IsFiniteSet(D), D # {}
  PROVE  /\ \E m \in D : \A d \in D : d <= m
         /\ \E m \in D : \A d \in D : m <= d
<1> DEFINE Above(d) == {e \in D : e > d}
           Below(d) == {e \in D : e < d}
           T == {Above(d) : d \in D}
           U == {Below(d) : d \in D}
<1>1. T \subseteq SUBSET D /\ T # {} /\ U \subseteq SUBSET D /\ U # {}
  OBVIOUS
<1>2. IsWellFoundedOn(StrictSubsetOrdering(D), SUBSET D)
  BY FS_StrictSubsetOrderingWellFounded, FS_FiniteSubsetsOfFinite
<1>3. PICK x \in T : \A y \in T : ~(<<y, x>> \in StrictSubsetOrdering(D))
  <2> HIDE DEF T
  <2> QED BY <1>1, <1>2, WFMin
<1>4. PICK z \in U : \A y \in U : ~(<<y, z>> \in StrictSubsetOrdering(D))
  <2> HIDE DEF U
  <2> QED BY <1>1, <1>2, WFMin
<1>5. PICK m \in D : x = Above(m)
  OBVIOUS
<1>6. PICK n \in D : z = Below(n)
  OBVIOUS
<1>7. ASSUME NEW d \in D, d > m PROVE FALSE
  <2>1. d \in Int /\ m \in Int /\ \A e \in D : e \in Int
    OBVIOUS
  <2>2. /\ \A e \in D : e > d => e > m
       /\ ~(d > d)
    BY <2>1, <1>7
  <2>3. Above(d) \subseteq Above(m) /\ d \in Above(m) /\ d \notin Above(d)
    BY <2>2, <1>7
  <2>4. <<Above(d), x>> \in StrictSubsetOrdering(D)
    BY <2>3, <1>5 DEF StrictSubsetOrdering
  <2> QED BY <2>4, <1>3
<1>8. ASSUME NEW d \in D, d < n PROVE FALSE
  <2>1. d \in Int /\ n \in Int /\ \A e \in D : e \in Int
    OBVIOUS
  <2>2. /\ \A e \in D : e < d => e < n
       /\ ~(d < d)
    BY <2>1, <1>8
  <2>3. Below(d) \subseteq Below(n) /\ d \in Below(n) /\ d \notin Below(d)
    BY <2>2, <1>8
  <2>4. <<Below(d), z>> \in StrictSubsetOrdering(D)
    BY <2>3, <1>6 DEF StrictSubsetOrdering
  <2> QED BY <2>4, <1>4
<1> QED BY <1>7, <1>8

LEMMA MaxIs ==
  ASSUME NEW D \in SUBSET Int, IsFiniteSet(D), D # {}
  PROVE  Rules!Max(D) \in D /\ \A d \in D : d <= Rules!Max(D)
<1>1. \E m \in D : \A d \in D : m >= d
  BY DayEnds
<1>2. Rules!Max(D) \in D /\ \A d \in D : Rules!Max(D) >= d
  BY <1>1, Zenon DEF Rules!Max
<1> QED BY <1>2

LEMMA MinIs ==
  ASSUME NEW D \in SUBSET Int, IsFiniteSet(D), D # {}
  PROVE  Rules!Min(D) \in D /\ \A d \in D : Rules!Min(D) <= d
<1>1. \E m \in D : \A d \in D : m <= d
  BY DayEnds
<1> QED BY <1>1, Zenon DEF Rules!Min

LEMMA RuleCardinality == \A S : Rules!Cardinality(S) = Cardinality(S)
  BY DEF Rules!Cardinality, Cardinality

LEMMA RuleFinite == \A S : Rules!IsFiniteSet(S) <=> IsFiniteSet(S)
  BY DEF Rules!IsFiniteSet, IsFiniteSet

(* The rows of an item and a day are one, and there are finitely many rows.   *)
DailyTyped == Rules!TypeOK /\ IsFiniteSet(daily)

LEMMA DailyStep == DailyTyped /\ Rules!Next => DailyTyped'
<1> SUFFICES ASSUME DailyTyped, NEW d \in Days, NEW x \in Items,
                    Rules!Enter(d, x) \/ Rules!Delete(d, x)
             PROVE  DailyTyped'
  BY DEF Rules!Next
<1> DEFINE O == {r \in daily : ~(r.day = d /\ r.item = x)}
<1>1. /\ daily \subseteq [day : Days, item : Items, qty : Quantities] /\ IsFiniteSet(daily)
      /\ Cardinality(daily) <= MaxRows /\ MaxRows \in Nat
      /\ \A r, q \in daily : r.day = q.day /\ r.item = q.item => r = q
  BY RuleCardinality, DetectorAssumption DEF DailyTyped, Rules!TypeOK, Rules!RulesAssumption
<1>2. O \subseteq daily /\ IsFiniteSet(O) /\ Cardinality(O) <= Cardinality(daily)
      /\ Cardinality(O) \in Nat /\ Cardinality(daily) \in Nat
  BY <1>1, FS_Subset, FS_CardinalityType
<1>3. CASE Rules!Delete(d, x)
  <2>1. daily' = O
    BY <1>3 DEF Rules!Delete, Rules!Others
  <2> QED BY <2>1, <1>1, <1>2, RuleCardinality DEF DailyTyped, Rules!TypeOK
<1>4. CASE Rules!Enter(d, x)
  <2>1. PICK n \in Quantities : daily' = O \cup {[day |-> d, item |-> x, qty |-> n]}
                                /\ Cardinality(daily') <= MaxRows
    BY <1>4, RuleCardinality DEF Rules!Enter, Rules!Others
  <2>2. IsFiniteSet(daily')
    BY <2>1, <1>2, FS_AddElement
  <2>3. \A r, q \in daily' : r.day = q.day /\ r.item = q.item => r = q
    BY <2>1, <1>1
  <2>4. daily' \subseteq [day : Days, item : Items, qty : Quantities]
    BY <2>1, <1>1
  <2> QED BY <2>1, <2>2, <2>3, <2>4, RuleCardinality DEF DailyTyped, Rules!TypeOK
<1> QED BY <1>3, <1>4

LEMMA DaysFinite ==
  ASSUME NEW D \in SUBSET Days
  PROVE  D \subseteq Int /\ IsFiniteSet(D) /\ Cardinality(D) \in Nat
<1>1. IsFiniteSet(Days) /\ Days \subseteq Nat
  BY DetectorAssumption, RuleFinite DEF Rules!RulesAssumption
<1>2. IsFiniteSet(D)
  BY <1>1, FS_Subset
<1>3. D \subseteq Int
  BY <1>1
<1> QED BY <1>2, <1>3, FS_CardinalityType

Later(D, n) == {d \in D : Cardinality({e \in D : e > d}) < n}

LEMMA NewestIs == \A D, n : Rules!Newest(D, n) = Later(D, n)
  BY RuleCardinality DEF Rules!Newest, Later

(* The day that is not over: the completed days are the same without it, and  *)
(* every total is taken over completed days.                                *)
LEMMA TodayIsLeftOut == DailyTyped => Rules!TodayDoesNotCount
<1> SUFFICES ASSUME DailyTyped, NEW s \in Settings
             PROVE  Rules!Volume(daily, s) = Rules!Volume({r \in daily : r.day < Today}, s)
  BY DEF Rules!TodayDoesNotCount
<1> DEFINE P == {r \in daily : r.day < Today}
<1>1. Rules!Completed(daily, s) = Rules!Completed(P, s)
  BY DEF Rules!Completed
<1> DEFINE C == Rules!Completed(daily, s)
<1>2. \A d \in C : d < Today
  BY DEF Rules!Completed
<1>3. ASSUME NEW D \in SUBSET C PROVE Rules!Total(daily, D) = Rules!Total(P, D)
  <2>1. {r \in daily : r.day \in D} = {r \in P : r.day \in D}
    BY <1>2
  <2> QED BY <2>1, Zenon DEF Rules!Total
<1>4. Rules!Newest(C, 1) \subseteq C
  BY DEF Rules!Newest
<1>5. Rules!Window(daily, s) = Rules!Window(P, s) /\ Rules!Window(daily, s) \subseteq C
  BY <1>1 DEF Rules!Window, Rules!Newest
<1>6. /\ Rules!Newest(Rules!Completed(daily, s), 1) = Rules!Newest(Rules!Completed(P, s), 1)
      /\ Rules!Total(daily, Rules!Window(daily, s)) = Rules!Total(P, Rules!Window(P, s))
      /\ Rules!Total(daily, Rules!Newest(Rules!Completed(daily, s), 1))
           = Rules!Total(P, Rules!Newest(Rules!Completed(P, s), 1))
  BY <1>1, <1>3, <1>4, <1>5
<1> HIDE DEF P
<1>7. Rules!Volume(daily, s) = Rules!Volume(P, s)
  BY <1>5, <1>6, Zenon DEF Rules!Volume
<1> QED BY <1>7 DEF P

(* An item that stopped within the lookback has its last row in it.          *)
LEMMA StopsAreFound == DailyTyped => Rules!NoStopIsMissed
<1> SUFFICES ASSUME DailyTyped, NEW s \in Settings, NEW x \in {r.item : r \in daily},
                    Today - Rules!Max({r.day : r \in {r \in daily : r.item = x}})
                      \in s.stale .. s.stale + s.baseline + Buffer
             PROVE  \E f \in Rules!StaleItems(daily, s) :
                      /\ f.item = x
                      /\ Today - Rules!Max({r.day : r \in {r \in daily : r.item = x}})
                           >= 2 * s.stale => f.severity = "critical"
  BY DEF Rules!NoStopIsMissed
<1> DEFINE D == {r.day : r \in {r \in daily : r.item = x}}
           L == Rules!Latest(daily, s, x)
<1>1. /\ daily \subseteq [day : Days, item : Items, qty : Quantities]
      /\ Today \in Nat /\ s.baseline \in Nat /\ s.stale \in Nat /\ Buffer \in Nat
  BY DetectorAssumption DEF DailyTyped, Rules!TypeOK, Rules!RulesAssumption
<1>2. D \subseteq Days /\ D # {} /\ x \in Items
  BY <1>1
<1>3. L = {d \in D : d >= Rules!Since(s)}
  BY DEF Rules!Latest
<1>4. L \subseteq Days /\ D \subseteq Int /\ L \subseteq Int /\ IsFiniteSet(D) /\ IsFiniteSet(L)
  BY <1>2, <1>3, DaysFinite
<1> HIDE DEF D, L
<1>5. PICK m \in D : m = Rules!Max(D) /\ \A d \in D : d <= m
  BY <1>2, <1>4, MaxIs
<1>6. Today - m \in s.stale .. s.stale + s.baseline + Buffer
  BY <1>5 DEF D
<1>7. m \in Int /\ m >= Rules!Since(s)
  BY <1>1, <1>4, <1>5, <1>6 DEF Rules!Since, Rules!AtLeastOne
<1>8. m \in L
  BY <1>3, <1>7
<1>9. Rules!Max(L) = m
  <2>1. Rules!Max(L) \in L /\ \A d \in L : d <= Rules!Max(L)
    BY <1>4, <1>8, MaxIs
  <2>2. PICK n \in Int : n = Rules!Max(L)
    BY <2>1, <1>4
  <2>3. n <= m /\ m <= n
    BY <2>1, <2>2, <1>3, <1>5, <1>8
  <2> QED BY <2>2, <2>3, <1>7
<1> DEFINE f == [item |-> x, severity |-> IF Today - Rules!Max(L) >= 2 * s.stale
                                          THEN "critical" ELSE "warning"]
<1>10. x \in Items /\ L # {} /\ Today - Rules!Max(L) >= s.stale
  BY <1>1, <1>2, <1>6, <1>7, <1>8, <1>9
<1>11. f \in Rules!StaleItems(daily, s)
  BY <1>10 DEF Rules!StaleItems, L
<1>12. f.item = x /\ (Today - m >= 2 * s.stale => f.severity = "critical")
  BY <1>9
<1> QED BY <1>5, <1>11, <1>12 DEF D

(* The later days of D, and how many: fewer for a later day.                  *)
LEMMA FewerAreLater ==
  ASSUME NEW D \in SUBSET Int, IsFiniteSet(D), NEW a \in D, NEW b \in D, a <= b
  PROVE  /\ IsFiniteSet({e \in D : e > b}) /\ Cardinality({e \in D : e > b}) \in Nat
         /\ Cardinality({e \in D : e > b}) <= Cardinality({e \in D : e > a})
<1> DEFINE A == {e \in D : e > a}
           B == {e \in D : e > b}
<1>1. \A e \in D : e > b => e > a
  <2>1. a \in Int /\ b \in Int /\ \A e \in D : e \in Int
    OBVIOUS
  <2> QED BY <2>1
<1>2. B \subseteq A /\ A \subseteq D
  BY <1>1
<1>3. IsFiniteSet(A)
  BY <1>2, FS_Subset
<1>4. IsFiniteSet(B) /\ Cardinality(B) <= Cardinality(A) /\ Cardinality(B) \in Nat
  BY <1>2, <1>3, FS_Subset, FS_CardinalityType
<1> QED BY <1>4

(* The days wanted are the last of all days before today: with few gaps they   *)
(* lie in the lookback, and what the window takes of it are those days.        *)
LEMMA LookbackIsDeepEnough ==
  ASSUME NEW B \in SUBSET Int, IsFiniteSet(B), \A d \in B : d < Today, Today \in Int,
         NEW n \in Nat, NEW N, N = Later(B, n),
         Cardinality(N) = n, NEW m \in N, \A d \in N : m <= d, NEW gap \in Int,
         Cardinality((m .. Today - 1) \ B) < gap
  PROVE  /\ m > Today - n - gap
         /\ \A d \in B : d >= m => d \in N
<1>0. N = {d \in B : Cardinality({e \in B : e > d}) < n}
  BY DEF Later
<1>1. N \subseteq B /\ m \in B /\ m \in Int
  BY <1>0
<1>2. ASSUME NEW d \in B, d >= m PROVE d \in N
  <2>1. m <= d
    BY <1>1, <1>2
  <2>2. /\ Cardinality({e \in B : e > d}) <= Cardinality({e \in B : e > m})
        /\ Cardinality({e \in B : e > d}) \in Nat
    BY <1>1, <2>1, FewerAreLater
  <2>3. Cardinality({e \in B : e > m}) < n /\ Cardinality({e \in B : e > m}) \in Nat
    BY <1>0, <1>1, FewerAreLater
  <2> QED BY <1>0, <1>2, <2>2, <2>3
<1> DEFINE I == m .. Today - 1
<1>3. N = I \cap B
  <2>1. \A d \in N : d \in Int /\ d <= Today - 1 /\ m <= d /\ d \in B
    BY <1>1
  <2>2. \A d \in I \cap B : d >= m /\ d \in B
    BY <1>1
  <2>3. N \subseteq I \cap B
    BY <2>1, <1>1
  <2>4. I \cap B \subseteq N
    BY <1>2, <2>2
  <2> QED BY <2>3, <2>4
<1>4. IsFiniteSet(I) /\ Cardinality(I) = Today - m
  <2>1. m < Today /\ Today - 1 \in Int
    BY <1>1
  <2> QED BY <1>1, <2>1, FS_Interval
<1> HIDE DEF I
<1>5. Cardinality(I \ B) = Cardinality(I) - Cardinality(I \cap B)
  BY <1>4, FS_Difference
<1>6. Cardinality(I \ B) < gap
  BY DEF I
<1>7. Today - m - n < gap
  BY <1>3, <1>4, <1>5, <1>6
<1> QED BY <1>1, <1>2, <1>7

LEMMA WindowsAreFull == DailyTyped => Rules!BaselineIsFull
<1> DEFINE B == {r.day : r \in {r \in daily : r.day < Today}}
<1> SUFFICES ASSUME DailyTyped, NEW s \in Settings, s.baseline > 0,
                    Cardinality(Rules!Newest(B, s.baseline + 1)) = s.baseline + 1,
                    Cardinality((Rules!Min(Rules!Newest(B, s.baseline + 1)) .. Today - 1) \ B)
                      < Rules!AtLeastOne(s.stale) + Buffer
             PROVE  Rules!Window(daily, s) = Rules!Newest(B, s.baseline + 1)
                      \ {Rules!Max(Rules!Newest(B, s.baseline + 1))}
  BY RuleCardinality DEF Rules!BaselineIsFull
<1>1. /\ daily \subseteq [day : Days, item : Items, qty : Quantities]
      /\ Today \in Nat /\ s.baseline \in Nat /\ s.stale \in Nat /\ Buffer \in Nat
  BY DetectorAssumption DEF DailyTyped, Rules!TypeOK, Rules!RulesAssumption
<1> DEFINE n == s.baseline + 1
           N == Rules!Newest(B, n)
           C == Rules!Completed(daily, s)
           gap == Rules!AtLeastOne(s.stale) + Buffer
<1>2. B \subseteq Days /\ \A d \in B : d < Today
  BY <1>1
<1>3. C = {d \in B : d >= Rules!Since(s)}
  BY DEF Rules!Completed
<1>4. N = Later(B, n) /\ N \subseteq B
  BY NewestIs DEF Later
<1>5. /\ n \in Nat /\ n > 1 /\ gap \in Int
      /\ Rules!Since(s) = Today - n - gap + 1 /\ Rules!Since(s) \in Int
  BY <1>1 DEF Rules!Since, Rules!AtLeastOne
<1>6. /\ B \in SUBSET Int /\ N \in SUBSET Int /\ C \in SUBSET Int
      /\ IsFiniteSet(B) /\ IsFiniteSet(N) /\ IsFiniteSet(C)
  <2>1. N \subseteq Days /\ C \subseteq Days
    BY <1>2, <1>3, <1>4
  <2> HIDE DEF N, C, B
  <2> QED BY <1>2, <2>1, DaysFinite
<1>7. Cardinality(N) = n
  OBVIOUS
<1>8. N # {}
  <2> HIDE DEF N, n
  <2> QED BY <1>5, <1>6, <1>7, FS_EmptySet
<1>9. PICK m \in N : m = Rules!Min(N) /\ \A d \in N : m <= d
  <2> HIDE DEF N
  <2> QED BY <1>6, <1>8, MinIs
<1>10. PICK z \in N : z = Rules!Max(N) /\ \A d \in N : d <= z
  <2> HIDE DEF N
  <2> QED BY <1>6, <1>8, MaxIs
<1>11. Cardinality((m .. Today - 1) \ B) < gap
  BY <1>9
<1>12. Rules!Window(daily, s) = Rules!Newest(C \ Rules!Newest(C, 1), s.baseline)
  BY DEF Rules!Window
<1> HIDE DEF B, N, C, n, gap
<1>13. m > Today - n - gap /\ \A d \in B : d >= m => d \in N
  <2>1. Today \in Int /\ n \in Nat /\ gap \in Int
    BY <1>1, <1>5
  <2>2. B \in SUBSET Int /\ IsFiniteSet(B) /\ \A d \in B : d < Today
    BY <1>2, <1>6
  <2>3. N = Later(B, n) /\ Cardinality(N) = n /\ m \in N /\ \A d \in N : m <= d
    BY <1>4, <1>7, <1>9
  <2> QED BY <1>11, <2>1, <2>2, <2>3, LookbackIsDeepEnough
<1>14. /\ z \in Int /\ m \in Int /\ Today \in Int
       /\ (\A d \in B : d \in Int) /\ \A d \in N : d \in B
  BY <1>1, <1>4, <1>6
<1>15. m >= Rules!Since(s)
  BY <1>5, <1>13, <1>14
<1>16. N \subseteq C
  BY <1>3, <1>5, <1>9, <1>14, <1>15
<1>17. \A d \in B : d <= z
  BY <1>9, <1>10, <1>13, <1>14
<1>18. Rules!Newest(C, 1) = {z}
  <2>1. Rules!Newest(C, 1) = {d \in C : Cardinality({e \in C : e > d}) < 1}
    BY NewestIs DEF Later
  <2>2. ASSUME NEW d \in C
        PROVE  Cardinality({e \in C : e > d}) < 1 <=> d = z
    <3>1. z \in C /\ d \in B /\ d <= z /\ d \in Int
      BY <1>3, <1>10, <1>14, <1>16, <1>17
    <3> DEFINE L == {e \in C : e > d}
    <3>2. L \subseteq C
      OBVIOUS
    <3>3. IsFiniteSet(L) /\ Cardinality(L) \in Nat /\ (Cardinality(L) = 0 <=> L = {})
      <4> HIDE DEF L
      <4> QED BY <3>2, <1>6, FS_Subset, FS_CardinalityType, FS_EmptySet
    <3>4. L = {} <=> d = z
      <4>1. \A e \in C : e \in Int /\ e <= z
        BY <1>3, <1>14, <1>17
      <4>2. d # z => z \in L
        BY <3>1, <1>14
      <4>3. d = z => \A e \in C : ~(e > d)
        BY <4>1, <1>14
      <4> QED BY <4>2, <4>3
    <3> HIDE DEF L
    <3>5. Cardinality(L) < 1 <=> Cardinality(L) = 0
      BY <3>3
    <3> QED BY <3>3, <3>4, <3>5 DEF L
  <2> QED BY <2>1, <2>2, <1>10, <1>16
<1> DEFINE W == C \ {z}
<1>19. Rules!Window(daily, s) = {d \in W : Cardinality({e \in W : e > d}) < s.baseline}
  BY <1>12, <1>18, NewestIs DEF Later
<1>20. ASSUME NEW d \in W
       PROVE  Cardinality({e \in W : e > d}) < s.baseline <=> d \in N
  <2> DEFINE L == {e \in B : e > d}
  <2>1. d \in B /\ d \in Int /\ z \in B /\ d # z /\ d <= z /\ d >= Rules!Since(s)
    BY <1>3, <1>10, <1>14, <1>17
  <2>2. z \in L /\ L \subseteq B
    BY <2>1, <1>14
  <2>3. {e \in W : e > d} = L \ {z}
    <3>1. \A e \in B : e > d => e \in C
      BY <2>1, <1>3, <1>5, <1>14
    <3> QED BY <3>1, <1>3
  <2>4. IsFiniteSet(L) /\ Cardinality(L) \in Nat /\ Cardinality(L \ {z}) = Cardinality(L) - 1
    <3> HIDE DEF L
    <3>1. IsFiniteSet(L)
      BY <2>2, <1>6, FS_Subset
    <3> QED BY <3>1, <2>2, FS_CardinalityType, FS_RemoveElement
  <2>5. d \in N <=> Cardinality(L) < n
    BY <2>1, <1>4 DEF Later
  <2> HIDE DEF L
  <2>6. Cardinality(L) - 1 < s.baseline <=> Cardinality(L) < n
    BY <2>4, <1>1 DEF n
  <2> QED BY <2>3, <2>4, <2>5, <2>6
<1>21. Rules!Window(daily, s) = N \ {z}
  <2>1. N \ {z} \subseteq W
    BY <1>16
  <2> HIDE DEF W
  <2> QED BY <1>19, <1>20, <2>1 DEF W
<1> QED BY <1>10, <1>21 DEF N, n, B

-----------------------------------------------------------------------------
(* Sums over finite sets.  MapThenSumSet goes through the subsets with a        *)
(* recursive function; that there is one, and that it adds up every element    *)
(* in any order, is shown over the well-founded order of the subsets.         *)
One(s) == CHOOSE x \in s : TRUE

Adds(w, S, g) ==
  g = [s \in SUBSET S |-> IF s = {} THEN 0 ELSE w[One(s)] + g[s \ {One(s)}]]

Sum(w, S) == (CHOOSE g : Adds(w, S, g))[S]

LEMMA OneIs == \A s : s # {} => One(s) \in s
  BY DEF One

(* A set of subsets that is not empty has a smallest one.                      *)
LEMMA SmallestSubset ==
  ASSUME NEW S, IsFiniteSet(S), NEW F \in SUBSET (SUBSET S), F # {}
  PROVE  \E T \in F : \A U \in SUBSET T : U # T => U \notin F
<1>1. IsWellFoundedOn(StrictSubsetOrdering(S), SUBSET S)
  BY FS_StrictSubsetOrderingWellFounded, FS_FiniteSubsetsOfFinite
<1>2. PICK T \in F : \A U \in F : ~(<<U, T>> \in StrictSubsetOrdering(S))
  BY <1>1, WFMin
<1>3. ASSUME NEW U \in SUBSET T, U # T, U \in F PROVE FALSE
  <2>1. <<U, T>> \in StrictSubsetOrdering(S)
    BY <1>3 DEF StrictSubsetOrdering
  <2> QED BY <2>1, <1>2, <1>3
<1> QED BY <1>3

LEMMA AddsAlike ==
  ASSUME NEW w, NEW S, NEW T, NEW g, NEW h, Adds(w, S, g), Adds(w, T, h),
         NEW V, IsFiniteSet(V), V \subseteq S, V \subseteq T
  PROVE  g[V] = h[V]
<1> DEFINE F == {U \in SUBSET V : g[U] # h[U]}
<1>1. SUFFICES ASSUME F # {} PROVE FALSE
  <2> QED BY DEF F
<1>2. PICK U \in F : \A W \in SUBSET U : W # U => W \notin F
  <2> HIDE DEF F
  <2>1. F \in SUBSET (SUBSET V)
    BY DEF F
  <2> QED BY <1>1, <2>1, SmallestSubset
<1>3. U \in SUBSET S /\ U \in SUBSET T
  OBVIOUS
<1>4. /\ g[U] = (IF U = {} THEN 0 ELSE w[One(U)] + g[U \ {One(U)}])
      /\ h[U] = (IF U = {} THEN 0 ELSE w[One(U)] + h[U \ {One(U)}])
  BY <1>3 DEF Adds
<1>5. U # {} => g[U \ {One(U)}] = h[U \ {One(U)}]
  <2>1. U # {} => U \ {One(U)} \in SUBSET U /\ U \ {One(U)} # U /\ U \ {One(U)} \in SUBSET V
    BY OneIs
  <2> QED BY <2>1, <1>2
<1> QED BY <1>4, <1>5

LEMMA AddsExists ==
  ASSUME NEW w, NEW S, IsFiniteSet(S)
  PROVE  \E g : Adds(w, S, g)
<1> DEFINE F == {T \in SUBSET S : ~\E g : Adds(w, T, g)}
<1>1. SUFFICES ASSUME F # {} PROVE FALSE
  BY DEF F
<1>2. PICK T \in F : \A U \in SUBSET T : U # T => U \notin F
  <2>1. F \in SUBSET (SUBSET S)
    BY DEF F
  <2> HIDE DEF F
  <2> QED BY <1>1, <2>1, SmallestSubset
<1>3. \A U \in SUBSET T : U # T => Adds(w, U, CHOOSE g : Adds(w, U, g))
  <2>1. \A U \in SUBSET T : U # T => \E g : Adds(w, U, g)
    BY <1>2
  <2> QED BY <2>1
<1> DEFINE Rest(s) == s \ {One(s)}
           g == [s \in SUBSET T |-> IF s = {} THEN 0 ELSE w[One(s)] + Sum(w, Rest(s))]
<1>4. ASSUME NEW s \in SUBSET T, s # {}
      PROVE  g[Rest(s)] = Sum(w, Rest(s))
  <2> DEFINE u == Rest(s)
  <2>1. u \in SUBSET T /\ u # T /\ IsFiniteSet(u)
    BY <1>4, OneIs, FS_Subset
  <2> HIDE DEF u
  <2>2. Adds(w, u, CHOOSE h : Adds(w, u, h))
    BY <2>1, <1>3
  <2>3. PICK h : h = (CHOOSE k : Adds(w, u, k)) /\ Adds(w, u, h)
    BY <2>2
  <2>4. Sum(w, u) = h[u]
    BY <2>3 DEF Sum
  <2>5. h[u] = IF u = {} THEN 0 ELSE w[One(u)] + h[Rest(u)]
    <3>1. u \in SUBSET u
      OBVIOUS
    <3> QED BY <2>3, <3>1 DEF Adds
  <2>6. g[u] = IF u = {} THEN 0 ELSE w[One(u)] + Sum(w, Rest(u))
    BY <2>1
  <2>7. u # {} => h[Rest(u)] = Sum(w, Rest(u))
    <3> DEFINE v == Rest(u)
    <3>1. u # {} => v \in SUBSET T /\ v # T /\ IsFiniteSet(v) /\ v \subseteq u
      BY <2>1, OneIs, FS_Subset
    <3> HIDE DEF v
    <3>2. u # {} => Adds(w, v, CHOOSE k : Adds(w, v, k))
      BY <3>1, <1>3
    <3>3. ASSUME u # {} PROVE h[v] = (CHOOSE k : Adds(w, v, k))[v]
      BY <2>3, <3>1, <3>2, <3>3, AddsAlike
    <3> QED BY <3>3 DEF Sum, v
  <2> HIDE DEF g
  <2> QED BY <2>4, <2>5, <2>6, <2>7 DEF u
<1>5. g = [s \in SUBSET T |-> IF s = {} THEN 0 ELSE w[One(s)] + g[Rest(s)]]
  <2>1. \A s \in SUBSET T : s # {} => Sum(w, Rest(s)) = g[Rest(s)]
    BY <1>4
  <2> DEFINE k == [s \in SUBSET T |-> IF s = {} THEN 0 ELSE w[One(s)] + g[Rest(s)]]
  <2>2. \A s \in SUBSET T : k[s] = g[s]
    BY <2>1
  <2>3. g = [s \in SUBSET T |-> g[s]] /\ k = [s \in SUBSET T |-> k[s]]
    OBVIOUS
  <2>4. k = g
    <3> HIDE DEF k, g
    <3> QED BY <2>2, <2>3
  <2> QED BY <2>4
<1>6. Adds(w, T, g)
  BY <1>5 DEF Adds
<1> HIDE DEF g
<1> QED BY <1>2, <1>6

LEMMA SumStep ==
  ASSUME NEW w, NEW S, IsFiniteSet(S)
  PROVE  Sum(w, S) = IF S = {} THEN 0 ELSE w[One(S)] + Sum(w, S \ {One(S)})
<1>1. PICK g : g = (CHOOSE k : Adds(w, S, k)) /\ Adds(w, S, g)
  BY AddsExists
<1>2. Sum(w, S) = g[S]
  BY <1>1 DEF Sum
<1>3. g[S] = IF S = {} THEN 0 ELSE w[One(S)] + g[S \ {One(S)}]
  <2>1. S \in SUBSET S
    OBVIOUS
  <2> QED BY <1>1, <2>1 DEF Adds
<1>4. ASSUME S # {} PROVE g[S \ {One(S)}] = Sum(w, S \ {One(S)})
  <2>1. PICK T : T = S \ {One(S)}
    OBVIOUS
  <2>2. T \subseteq S /\ IsFiniteSet(T)
    BY <2>1, FS_Subset
  <2>3. Adds(w, T, CHOOSE h : Adds(w, T, h))
    BY <2>2, AddsExists
  <2>4. g[T] = (CHOOSE h : Adds(w, T, h))[T]
    BY <1>1, <2>2, <2>3, AddsAlike
  <2> QED BY <2>1, <2>4 DEF Sum
<1> QED BY <1>2, <1>3, <1>4

LEMMA SumType ==
  ASSUME NEW w, NEW S, IsFiniteSet(S), \A x \in S : w[x] \in Int
  PROVE  Sum(w, S) \in Int
<1> DEFINE F == {T \in SUBSET S : Sum(w, T) \notin Int}
<1>1. SUFFICES ASSUME F # {} PROVE FALSE
  BY DEF F
<1>2. PICK T \in F : \A U \in SUBSET T : U # T => U \notin F
  <2>1. F \in SUBSET (SUBSET S)
    BY DEF F
  <2> HIDE DEF F
  <2> QED BY <1>1, <2>1, SmallestSubset
<1>3. IsFiniteSet(T)
  BY FS_Subset
<1>4. Sum(w, T) = IF T = {} THEN 0 ELSE w[One(T)] + Sum(w, T \ {One(T)})
  BY <1>3, SumStep
<1>5. T # {} => w[One(T)] \in Int /\ Sum(w, T \ {One(T)}) \in Int
  BY <1>2, OneIs
<1> QED BY <1>4, <1>5

(* Any element may be taken out.                                            *)
LEMMA SumTake ==
  ASSUME NEW w, NEW S, IsFiniteSet(S), \A x \in S : w[x] \in Int, NEW x \in S
  PROVE  Sum(w, S) = w[x] + Sum(w, S \ {x})
<1> DEFINE F == {T \in SUBSET S : \E y \in T : Sum(w, T) # w[y] + Sum(w, T \ {y})}
<1>1. SUFFICES ASSUME F # {} PROVE FALSE
  BY DEF F
<1>2. PICK T \in F : \A U \in SUBSET T : U # T => U \notin F
  <2>1. F \in SUBSET (SUBSET S)
    BY DEF F
  <2> HIDE DEF F
  <2> QED BY <1>1, <2>1, SmallestSubset
<1>3. PICK y \in T : Sum(w, T) # w[y] + Sum(w, T \ {y})
  OBVIOUS
<1>4. PICK c \in T : c = One(T)
  BY OneIs
<1>5. IsFiniteSet(T) /\ T \subseteq S
  BY FS_Subset
<1>6. Sum(w, T) = w[c] + Sum(w, T \ {c})
  BY <1>4, <1>5, SumStep
<1>7. c # y
  BY <1>3, <1>6
<1>8. Sum(w, T \ {c}) = w[y] + Sum(w, (T \ {c}) \ {y})
  <2>1. T \ {c} \in SUBSET T /\ T \ {c} # T /\ y \in T \ {c} /\ T \ {c} \in SUBSET S
    BY <1>4, <1>7
  <2> QED BY <2>1, <1>2
<1>9. Sum(w, T \ {y}) = w[c] + Sum(w, (T \ {y}) \ {c})
  <2>1. T \ {y} \in SUBSET T /\ T \ {y} # T /\ c \in T \ {y} /\ T \ {y} \in SUBSET S
    BY <1>4, <1>7
  <2> QED BY <2>1, <1>2
<1>10. (T \ {c}) \ {y} = (T \ {y}) \ {c}
  OBVIOUS
<1>11. Sum(w, (T \ {c}) \ {y}) \in Int
  <2>1. PICK U : U = (T \ {c}) \ {y}
    OBVIOUS
  <2>2. U \in SUBSET S /\ IsFiniteSet(U)
    BY <2>1, <1>5, FS_Subset
  <2> QED BY <2>1, <2>2, SumType
<1>12. w[c] \in Int /\ w[y] \in Int
  BY <1>5
<1> HIDE DEF F
<1>13. Sum(w, T) = w[y] + Sum(w, T \ {y})
  <2>1. PICK q \in Int, a \in Int, b \in Int :
          q = Sum(w, (T \ {c}) \ {y}) /\ a = w[c] /\ b = w[y]
    BY <1>11, <1>12
  <2>2. Sum(w, T) = a + (b + q)
    BY <1>6, <1>8, <2>1
  <2>3. Sum(w, T \ {y}) = a + q
    BY <1>9, <1>10, <2>1
  <2>4. a + (b + q) = b + (a + q)
    BY <2>1
  <2> QED BY <2>1, <2>2, <2>3, <2>4
<1> QED BY <1>3, <1>13

LEMMA SumAlike ==
  ASSUME NEW w, NEW v, NEW S, IsFiniteSet(S), \A x \in S : w[x] = v[x]
  PROVE  Sum(w, S) = Sum(v, S)
<1> DEFINE F == {T \in SUBSET S : Sum(w, T) # Sum(v, T)}
<1>1. SUFFICES ASSUME F # {} PROVE FALSE
  BY DEF F
<1>2. PICK T \in F : \A U \in SUBSET T : U # T => U \notin F
  <2>1. F \in SUBSET (SUBSET S)
    BY DEF F
  <2> HIDE DEF F
  <2> QED BY <1>1, <2>1, SmallestSubset
<1>3. IsFiniteSet(T) /\ T \subseteq S
  BY FS_Subset
<1>4. /\ Sum(w, T) = IF T = {} THEN 0 ELSE w[One(T)] + Sum(w, T \ {One(T)})
      /\ Sum(v, T) = IF T = {} THEN 0 ELSE v[One(T)] + Sum(v, T \ {One(T)})
  BY <1>3, SumStep
<1>5. T # {} => w[One(T)] = v[One(T)] /\ Sum(w, T \ {One(T)}) = Sum(v, T \ {One(T)})
  BY <1>2, <1>3, OneIs
<1> QED BY <1>4, <1>5

LEMMA TotalIsSum ==
  ASSUME NEW R, NEW D, NEW w, w = [r \in R |-> r.qty]
  PROVE  Rules!Total(R, D) = Sum(w, {r \in R : r.day \in D})
<1> DEFINE T == {r \in R : r.day \in D}
<1>1. Rules!Total(R, D) = (CHOOSE g : g = [s \in SUBSET T |->
         IF s = {} THEN 0 ELSE One(s).qty + g[s \ {One(s)}]])[T]
  BY DEF Rules!Total, Rules!MapThenSumSet, Rules!MapThenFoldSet, One
<1>2. ASSUME NEW g
      PROVE  [s \in SUBSET T |-> IF s = {} THEN 0 ELSE One(s).qty + g[s \ {One(s)}]]
             = [s \in SUBSET T |-> IF s = {} THEN 0 ELSE w[One(s)] + g[s \ {One(s)}]]
  <2>1. \A s \in SUBSET T : s # {} => One(s).qty = w[One(s)]
    BY OneIs
  <2> QED BY <2>1
<1> QED BY <1>1, <1>2 DEF Sum, Adds

-----------------------------------------------------------------------------
(* What a verdict on the latest day depends on: with the same baseline, a      *)
(* change further off in the same direction is judged at least as severely.   *)
LEMMA JudgedFurther ==
  ASSUME NEW s \in Settings, NEW n, NEW sum \in Int, NEW last, NEW a \in Int, NEW b \in Int,
         NEW f \in Rules!Judged(s, n, sum, a, last),
         (f.kind = "volume_drop" /\ b <= a) \/ (f.kind = "volume_spike" /\ b >= a)
  PROVE  \E g \in Rules!Judged(s, n, sum, b, last) :
           g.kind = f.kind /\ (f.severity = "critical" => g.severity = "critical")
<1>1. /\ s.drop \in Nat /\ s.spike \in Nat /\ WorseDrop \in Nat /\ WorseSpike \in Nat
  BY DetectorAssumption DEF Rules!RulesAssumption
<1>2. PICK p \in Int, q \in Int, u \in Int, v \in Int :
        /\ p = -(s.drop * sum) /\ q = -((s.drop + WorseDrop) * sum)
        /\ u = s.spike * sum /\ v = (s.spike + WorseSpike) * sum
  <2>1. /\ -(s.drop * sum) \in Int /\ -((s.drop + WorseDrop) * sum) \in Int
        /\ s.spike * sum \in Int /\ (s.spike + WorseSpike) * sum \in Int
    BY <1>1
  <2> QED BY <2>1
<1> DEFINE Quiet == s.baseline = 0 \/ n = 0 \/ sum = 0 \/ sum < s.min * n
           Verdict(kind, critical) ==
             {[kind |-> kind, day |-> d,
               severity |-> IF critical THEN "critical" ELSE "warning"] : d \in last}
<1>3. \A c \in Int : Rules!Judged(s, n, sum, c, last) =
        IF Quiet THEN {}
        ELSE CASE c <= p -> Verdict("volume_drop", c <= q)
               [] c > p /\ c >= u -> Verdict("volume_spike", c >= v)
               [] OTHER -> {}
  BY <1>2 DEF Rules!Judged
<1>4. ~Quiet
  BY <1>3
<1> HIDE DEF Quiet
<1>5. CASE a <= p
  <2>1. f \in Verdict("volume_drop", a <= q)
    BY <1>3, <1>4, <1>5
  <2>2. b <= a /\ b <= p
    BY <1>5, <2>1
  <2>3. Rules!Judged(s, n, sum, b, last) = Verdict("volume_drop", b <= q)
    BY <1>3, <1>4, <2>2
  <2>4. PICK d \in last : f = [kind |-> "volume_drop", day |-> d,
                               severity |-> IF a <= q THEN "critical" ELSE "warning"]
    BY <2>1
  <2> DEFINE g == [kind |-> "volume_drop", day |-> d,
                   severity |-> IF b <= q THEN "critical" ELSE "warning"]
  <2>5. g \in Verdict("volume_drop", b <= q)
    OBVIOUS
  <2>6. f.severity = "critical" => a <= q
    BY <2>4
  <2>7. a <= q => b <= q
    BY <2>2
  <2>8. g.kind = f.kind /\ (f.severity = "critical" => g.severity = "critical")
    BY <2>4, <2>6, <2>7
  <2> QED BY <2>3, <2>5, <2>8
<1>6. CASE a > p /\ a >= u
  <2>1. f \in Verdict("volume_spike", a >= v)
    BY <1>3, <1>4, <1>6
  <2>2. b >= a /\ b > p /\ b >= u /\ ~(b <= p)
    BY <1>6, <2>1
  <2>3. Rules!Judged(s, n, sum, b, last) = Verdict("volume_spike", b >= v)
    BY <1>3, <1>4, <2>2
  <2>4. PICK d \in last : f = [kind |-> "volume_spike", day |-> d,
                               severity |-> IF a >= v THEN "critical" ELSE "warning"]
    BY <2>1
  <2> DEFINE g == [kind |-> "volume_spike", day |-> d,
                   severity |-> IF b >= v THEN "critical" ELSE "warning"]
  <2>5. g \in Verdict("volume_spike", b >= v)
    OBVIOUS
  <2>6. f.severity = "critical" => a >= v
    BY <2>4
  <2>7. a >= v => b >= v
    BY <2>2
  <2>8. g.kind = f.kind /\ (f.severity = "critical" => g.severity = "critical")
    BY <2>4, <2>6, <2>7
  <2> QED BY <2>3, <2>5, <2>8
<1>7. CASE ~(a <= p) /\ ~(a > p /\ a >= u)
  BY <1>3, <1>4, <1>7
<1> QED BY <1>5, <1>6, <1>7

LEMMA DailyQuantities ==
  ASSUME DailyTyped
  PROVE  \A r \in daily : r.qty \in Int
<1>1. daily \subseteq [day : Days, item : Items, qty : Quantities]
  BY DEF DailyTyped, Rules!TypeOK
<1>2. \A n \in Quantities : n \in Int
  BY DetectorAssumption DEF Rules!RulesAssumption
<1>3. \A r \in daily : r.qty \in Quantities
  BY <1>1
<1> QED BY <1>2, <1>3

LEMMA TotalType ==
  ASSUME DailyTyped, NEW D
  PROVE  Rules!Total(daily, D) \in Int
<1> DEFINE T == {r \in daily : r.day \in D}
           w == [r \in daily |-> r.qty]
<1>1. \A r \in T : w[r] \in Int
  BY DailyQuantities
<1>2. IsFiniteSet(T)
  BY FS_Subset DEF DailyTyped
<1>3. Rules!Total(daily, D) = Sum(w, T)
  BY TotalIsSum
<1> HIDE DEF T, w
<1> QED BY <1>1, <1>2, <1>3, SumType

(* One row of a day changed: the total of the days with it moves by as much.   *)
LEMMA TotalMoves ==
  ASSUME DailyTyped, NEW r \in daily, NEW q, q.day = r.day, q \notin daily, q.qty \in Int,
         NEW C, C = (daily \ {r}) \cup {q}, NEW D
  PROVE  Rules!Total(C, D) =
           IF r.day \in D THEN Rules!Total(daily, D) + q.qty - r.qty
           ELSE Rules!Total(daily, D)
<1> DEFINE A == {x \in daily : x.day \in D}
           B == {x \in C : x.day \in D}
           v == [x \in daily |-> x.qty]
           w == [x \in C |-> x.qty]
<1>1. /\ \A x \in daily : x.qty \in Int
      /\ \A x \in C : x.qty \in Int
      /\ IsFiniteSet(daily) /\ IsFiniteSet(C)
  <2>1. \A x \in daily : x.qty \in Int
    BY DailyQuantities
  <2>2. IsFiniteSet(daily) /\ IsFiniteSet(daily \ {r}) /\ IsFiniteSet(C)
    BY FS_Subset, FS_AddElement DEF DailyTyped
  <2> QED BY <2>1, <2>2
<1>2. Rules!Total(daily, D) = Sum(v, A) /\ Rules!Total(C, D) = Sum(w, B)
  BY TotalIsSum
<1>3. A \subseteq daily /\ B \subseteq C /\ IsFiniteSet(A) /\ IsFiniteSet(B)
  BY <1>1, FS_Subset
<1>4. (\A x \in A : v[x] \in Int) /\ (\A x \in B : w[x] \in Int)
  BY <1>1, <1>3
<1>5. \A x \in A \ {r} : v[x] = w[x]
  OBVIOUS
<1>6. A \ {r} = B \ {q}
  OBVIOUS
<1>7. (r \in A <=> r.day \in D) /\ (q \in B <=> r.day \in D)
  OBVIOUS
<1>8. v[r] = r.qty /\ w[q] = q.qty /\ r.qty \in Int
  BY <1>1
<1> HIDE DEF A, B, v, w
<1>9. IsFiniteSet(A \ {r})
  BY <1>3, FS_RemoveElement
<1>10. Sum(v, A \ {r}) = Sum(w, A \ {r}) /\ Sum(v, A \ {r}) \in Int
  <2>1. PICK E : E = A \ {r}
    OBVIOUS
  <2>2. Sum(v, E) = Sum(w, E)
    BY <1>5, <1>9, <2>1, SumAlike
  <2>3. Sum(v, E) \in Int
    BY <1>4, <1>9, <2>1, SumType
  <2> QED BY <2>1, <2>2, <2>3
<1>11. CASE r.day \in D
  <2>1. Sum(v, A) = v[r] + Sum(v, A \ {r})
    BY <1>3, <1>4, <1>7, <1>11, SumTake
  <2>2. Sum(w, B) = w[q] + Sum(w, B \ {q})
    BY <1>3, <1>4, <1>7, <1>11, SumTake
  <2>3. PICK e \in Int, a \in Int, b \in Int :
          e = Sum(v, A \ {r}) /\ e = Sum(w, B \ {q}) /\ a = r.qty /\ b = q.qty
    BY <1>6, <1>8, <1>10
  <2>4. Rules!Total(daily, D) = a + e /\ Rules!Total(C, D) = b + e
    BY <1>2, <1>8, <2>1, <2>2, <2>3
  <2>5. b + e = (a + e) + b - a
    BY <2>3
  <2> QED BY <1>11, <2>3, <2>4, <2>5
<1>12. CASE r.day \notin D
  <2>1. A = A \ {r} /\ B = A \ {r}
    BY <1>6, <1>7, <1>12
  <2> QED BY <1>2, <1>10, <1>12, <2>1
<1> QED BY <1>11, <1>12

LEMMA WorseIsJudgedWorse == DailyTyped => Rules!WorseIsNotMilder
<1> SUFFICES ASSUME DailyTyped, NEW s \in Settings, NEW r \in daily, NEW n \in Quantities,
                    NEW C, C = (daily \ {r}) \cup {[r EXCEPT !.qty = n]},
                    r.day \in Rules!Newest(Rules!Completed(daily, s), 1),
                    NEW f \in Rules!Volume(daily, s),
                    \/ f.kind = "volume_drop" /\ n <= r.qty
                    \/ f.kind = "volume_spike" /\ n >= r.qty
             PROVE  \E g \in Rules!Volume(C, s) :
                      g.kind = f.kind /\ (f.severity = "critical" => g.severity = "critical")
  BY DEF Rules!WorseIsNotMilder
<1>1. PICK q : q = [r EXCEPT !.qty = n]
  OBVIOUS
<1>2. /\ r \in [day : Days, item : Items, qty : Quantities] /\ n \in Int /\ r.qty \in Int
      /\ \A x, y \in daily : x.day = y.day /\ x.item = y.item => x = y
  BY DetectorAssumption DEF DailyTyped, Rules!TypeOK, Rules!RulesAssumption
<1>3. q.day = r.day /\ q.item = r.item /\ q.qty = n
  BY <1>1, <1>2
<1>4. CASE q \in daily
  <2>1. q = r
    BY <1>2, <1>3, <1>4
  <2>2. C = daily
    BY <1>1, <2>1
  <2> QED BY <2>2
<1>5. CASE q \notin daily
  <2>1. Rules!Completed(C, s) = Rules!Completed(daily, s)
    BY <1>1, <1>3 DEF Rules!Completed
  <2> DEFINE K == Rules!Completed(daily, s)
             W == Rules!Window(daily, s)
             L == Rules!Newest(K, 1)
  <2>2. Rules!Window(C, s) = W
    BY <2>1 DEF Rules!Window
  <2>3. r.day \notin W /\ r.day \in L
    BY DEF Rules!Window, Rules!Newest
  <2>4. Rules!Total(C, W) = Rules!Total(daily, W)
    BY <1>1, <1>2, <1>3, <1>5, <2>3, TotalMoves
  <2>5. Rules!Total(C, L) = Rules!Total(daily, L) + n - r.qty
    BY <1>1, <1>2, <1>3, <1>5, <2>3, TotalMoves
  <2>6. PICK sum \in Int, t \in Int, N \in Nat :
          /\ sum = Rules!Total(daily, W) /\ t = Rules!Total(daily, L)
          /\ N = Rules!Cardinality(W)
    <3>1. W \subseteq Days
      BY DEF Rules!Window, Rules!Newest, Rules!Completed, DailyTyped, Rules!TypeOK
    <3> HIDE DEF W, L
    <3>2. Rules!Cardinality(W) \in Nat
      BY <3>1, DaysFinite, RuleCardinality
    <3> QED BY <3>2, TotalType
  <2>7. Rules!Volume(daily, s) = Rules!Judged(s, N, sum, 100 * (t * N - sum), L)
    BY <2>6, Zenon DEF Rules!Volume
  <2>8. Rules!Volume(C, s)
          = Rules!Judged(s, N, sum, 100 * ((t + n - r.qty) * N - sum), L)
    BY <2>1, <2>2, <2>4, <2>5, <2>6 DEF Rules!Volume
  <2> HIDE DEF K, W, L
  <2>9. PICK a \in Int, b \in Int :
          /\ a = 100 * (t * N - sum) /\ b = 100 * ((t + n - r.qty) * N - sum)
          /\ (n <= r.qty => b <= a) /\ (n >= r.qty => b >= a)
    <3>1. PICK d \in Int : d = n - r.qty
      BY <1>2
    <3>2. t + n - r.qty = t + d
      BY <1>2, <3>1
    <3>3. (t + d) * N = t * N + d * N /\ t * N \in Int /\ d * N \in Int
      OBVIOUS
    <3>4. (d <= 0 => d * N <= 0) /\ (d >= 0 => d * N >= 0)
      OBVIOUS
    <3>5. (n <= r.qty => d <= 0) /\ (n >= r.qty => d >= 0)
      BY <1>2, <3>1
    <3>6. PICK x \in Int, y \in Int : x = t * N /\ y = d * N
      BY <3>3
    <3>7. 100 * ((t + n - r.qty) * N - sum) = 100 * (x + y - sum)
      BY <3>2, <3>3, <3>6
    <3>8. /\ 100 * (x - sum) \in Int /\ 100 * (x + y - sum) \in Int
          /\ (y <= 0 => 100 * (x + y - sum) <= 100 * (x - sum))
          /\ (y >= 0 => 100 * (x + y - sum) >= 100 * (x - sum))
      OBVIOUS
    <3> QED BY <3>4, <3>5, <3>6, <3>7, <3>8
  <2>10. /\ f \in Rules!Judged(s, N, sum, a, L)
         /\ Rules!Volume(C, s) = Rules!Judged(s, N, sum, b, L)
    BY <2>7, <2>8, <2>9
  <2>11. (f.kind = "volume_drop" /\ b <= a) \/ (f.kind = "volume_spike" /\ b >= a)
    BY <2>9
  <2> QED BY <2>10, <2>11, JudgedFurther
<1> QED BY <1>4, <1>5

-----------------------------------------------------------------------------
(* The rules in the whole: where they move, the rows stay typed.               *)
LEMMA InitDailyTyped == AllInit => DailyTyped
<1> SUFFICES ASSUME AllInit PROVE DailyTyped
  OBVIOUS
<1>1. daily = {}
  BY DEF AllInit, Rules!Init
<1>2. IsFiniteSet({}) /\ Cardinality({}) = 0
  BY FS_EmptySet
<1>3. Rules!Cardinality(daily) <= MaxRows
  BY <1>1, <1>2, RuleCardinality, DetectorAssumption DEF Rules!RulesAssumption
<1> QED BY <1>1, <1>2, <1>3 DEF DailyTyped, Rules!TypeOK

LEMMA DailyMoves == DailyTyped /\ [AllNext]_allVars => DailyTyped'
<1> SUFFICES ASSUME DailyTyped, [AllNext]_allVars PROVE DailyTyped'
  OBVIOUS
<1>1. CASE at = "rules" /\ Rules!Next
  BY <1>1, DailyStep
<1>2. CASE UNCHANGED daily
  BY <1>2 DEF DailyTyped, Rules!TypeOK
<1> QED BY <1>1, <1>2, Zenon DEF AllNext, allVars, otherVars

LEMMA DailyIsEnough == DailyTyped => RulesAreSteady
<1> SUFFICES ASSUME DailyTyped PROVE RulesAreSteady
  OBVIOUS
<1>1. Rules!TypeOK
  BY DEF DailyTyped
<1> QED BY <1>1, TodayIsLeftOut, WindowsAreFull, StopsAreFound, WorseIsJudgedWorse, Zenon
        DEF RulesAreSteady

(* The rules of the anomaly detector, over every state of the rows: today does *)
(* not count, the baseline is full wherever the lookback has room for the days *)
(* without production, every stopped item is found while the lookback reaches  *)
(* it, and a worse day is not judged milder.                                   *)
THEOREM RulesStaySteady == AllSpec => []RulesAreSteady
  BY InitDailyTyped, DailyMoves, DailyIsEnough, PTL DEF AllSpec

-----------------------------------------------------------------------------
(* The summaries.                                                            *)
LEMMA SumOne ==
  ASSUME NEW w, NEW x, w[x] \in Int
  PROVE  Sum(w, {x}) = w[x]
<1>1. IsFiniteSet({x}) /\ IsFiniteSet({})
  BY FS_Singleton, FS_EmptySet
<1>2. One({x}) = x
  <2>1. One({x}) \in {x}
    BY OneIs
  <2> QED BY <2>1
<1>3. {x} \ {x} = {} /\ {x} # {}
  OBVIOUS
<1>4. Sum(w, {}) = 0
  BY <1>1, SumStep
<1>5. Sum(w, {x}) = w[x] + Sum(w, {})
  BY <1>1, <1>2, <1>3, SumStep
<1> QED BY <1>4, <1>5

LEMMA SumTwo ==
  ASSUME NEW w, NEW x, NEW y, x # y, w[x] \in Int, w[y] \in Int
  PROVE  Sum(w, {x, y}) = w[x] + w[y]
<1>1. IsFiniteSet({x, y})
  <2>1. IsFiniteSet({x} \cup {y})
    BY FS_Singleton, FS_AddElement
  <2>2. {x, y} = {x} \cup {y}
    OBVIOUS
  <2> QED BY <2>1, <2>2
<1>2. Sum(w, {x, y}) = w[x] + Sum(w, {x, y} \ {x})
  BY <1>1, SumTake
<1>3. {x, y} \ {x} = {y}
  OBVIOUS
<1>4. Sum(w, {y}) = w[y]
  BY SumOne
<1> QED BY <1>2, <1>3, <1>4

LEMMA SumBoth ==
  ASSUME NEW w, NEW S, NEW T, IsFiniteSet(S), IsFiniteSet(T), S \cap T = {},
         \A x \in S \cup T : w[x] \in Int
  PROVE  Sum(w, S \cup T) = Sum(w, S) + Sum(w, T)
<1> DEFINE F == {U \in SUBSET T : Sum(w, S \cup U) # Sum(w, S) + Sum(w, U)}
<1>1. SUFFICES ASSUME F # {} PROVE FALSE
  BY DEF F
<1>2. PICK U \in F : \A W \in SUBSET U : W # U => W \notin F
  <2>1. F \in SUBSET (SUBSET T)
    BY DEF F
  <2> HIDE DEF F
  <2> QED BY <1>1, <2>1, SmallestSubset
<1>3. U \subseteq T /\ Sum(w, S \cup U) # Sum(w, S) + Sum(w, U)
  OBVIOUS
<1>4. IsFiniteSet(U) /\ IsFiniteSet(S \cup U)
  BY <1>3, FS_Subset, FS_Union
<1>5. Sum(w, S) \in Int
  BY SumType
<1>6. Sum(w, {}) = 0
  BY FS_EmptySet, SumStep
<1>7. PICK x : x \in U
  <2>1. U = {} => S \cup U = S
    OBVIOUS
  <2>2. U = {} => Sum(w, S \cup U) = Sum(w, S) /\ Sum(w, U) = 0
    BY <1>6, <2>1
  <2>3. PICK a \in Int : a = Sum(w, S)
    BY <1>5
  <2>4. U = {} => Sum(w, S \cup U) = Sum(w, S) + Sum(w, U)
    BY <2>2, <2>3
  <2> HIDE DEF F
  <2> QED BY <1>3, <2>4
<1> DEFINE R == U \ {x}
<1>8. R \subseteq T /\ R \in SUBSET U /\ R # U /\ (S \cup U) \ {x} = S \cup R
  BY <1>3, <1>7
<1> HIDE DEF R
<1>9. Sum(w, S \cup R) = Sum(w, S) + Sum(w, R)
  BY <1>2, <1>8
<1> HIDE DEF F
<1>10. Sum(w, S \cup U) = w[x] + Sum(w, S \cup R)
  BY <1>3, <1>4, <1>7, <1>8, SumTake
<1>11. Sum(w, U) = w[x] + Sum(w, R)
  BY <1>3, <1>4, <1>7, SumTake DEF R
<1>12. Sum(w, R) \in Int /\ w[x] \in Int
  BY <1>3, <1>4, <1>7, <1>8, FS_Subset, SumType
<1> QED BY <1>3, <1>5, <1>9, <1>10, <1>11, <1>12

(* A row is one of a database, a day and an item, and there are finitely many. *)
BookTyped ==
  /\ booked \subseteq [id : DOMAIN Booked, src : Summaries!Sources, date : BookDates,
                       item : Items]
  /\ IsFiniteSet(booked)

LEMMA BookStep == BookTyped /\ Summaries!Next => BookTyped'
<1> SUFFICES ASSUME BookTyped, Summaries!Next PROVE BookTyped'
  OBVIOUS
<1> DEFINE RowType == [id : DOMAIN Booked, src : Summaries!Sources, date : BookDates,
                       item : Items]
<1>1. booked \subseteq RowType /\ IsFiniteSet(booked)
  BY DEF BookTyped
<1>2. ASSUME NEW i \in DOMAIN Booked, Summaries!Book(i) PROVE BookTyped'
  <2>1. PICK r \in RowType : booked' = booked \cup {r}
    BY <1>2 DEF Summaries!Book, Summaries!Sources
  <2> QED BY <1>1, <2>1, FS_AddElement DEF BookTyped
<1>3. ASSUME NEW r \in booked, Summaries!Archive(r) PROVE BookTyped'
  <2>1. PICK e : e = [r EXCEPT !.src = "archive"]
    OBVIOUS
  <2>2. e \in RowType /\ booked' = booked \cup {e}
    BY <1>1, <1>3, <2>1 DEF Summaries!Archive, Summaries!Sources
  <2> QED BY <1>1, <2>2, FS_AddElement DEF BookTyped
<1>4. ASSUME NEW r \in booked, Summaries!Drop(r) PROVE BookTyped'
  BY <1>1, <1>4, FS_Subset DEF Summaries!Drop, BookTyped
<1> QED BY <1>2, <1>3, <1>4 DEF Summaries!Next, Summaries!RowIds

(* Their requests, and the halves of the two databases.                       *)
Half(q, s) == {r \in booked : r.src = s /\ Summaries!Own(r) /\ Summaries!Matches(q, r)}

Asked(q) == {s \in Summaries!Targets(q) : s = "archive" => there}

Chosen(q) ==
  {r \in booked : /\ Summaries!Own(r) /\ (r.src = "archive" => there)
                  /\ Summaries!Matches(q, r)}

OfKey(q, R, k) == {r \in R : Summaries!Key(q, r) = k}

KeysOf(q, R) == {Summaries!Key(q, r) : r \in R}

LEMMA RequestIs ==
  ASSUME NEW q \in Summaries!Requests
  PROVE  /\ q.from \in BookDates \cup {Any} /\ q.to \in BookDates \cup {Any}
         /\ q.month \in Summaries!Months \cup {Any}
         /\ q.by \in SUBSET {"month", "item"}
<1>1. CASE q \in Summaries!MonthlyTotal
  <2>1. PICK p \in Summaries!Ranges(BookDates \cup {Any}) :
          q = [by |-> {"month"}, from |-> p[1], to |-> p[2], month |-> Any, item |-> Any,
               limit |-> Lot]
    BY <1>1 DEF Summaries!MonthlyTotal
  <2>2. p \in (BookDates \cup {Any}) \X (BookDates \cup {Any})
    BY DEF Summaries!Ranges
  <2> QED BY <2>1, <2>2
<1>2. CASE q \in Summaries!ByItem
  <2>1. PICK p \in Summaries!Ranges(BookDates), x \in Items \cup {Any}, n \in Limits :
          q = [by |-> {"item"}, from |-> p[1], to |-> p[2], month |-> Any, item |-> x,
               limit |-> n]
    BY <1>2 DEF Summaries!ByItem
  <2>2. p \in BookDates \X BookDates
    BY DEF Summaries!Ranges
  <2> QED BY <2>1, <2>2
<1>3. CASE q \in Summaries!MonthlyByItem
  <2>1. PICK m \in Summaries!Months \cup {Any}, x \in Items \cup {Any}, n \in Limits :
          q = [by |-> {"month", "item"}, from |-> Any, to |-> Any, month |-> m, item |-> x,
               limit |-> n]
    BY <1>3 DEF Summaries!MonthlyByItem
  <2> QED BY <2>1
<1> QED BY <1>1, <1>2, <1>3 DEF Summaries!Requests

(* Months are whole numbers, a month lies on one side of the cutoff.           *)
LEMMA MonthIs ==
  ASSUME NEW d \in Nat \ {0}
  PROVE  /\ Summaries!Month(d) \in Nat
         /\ Summaries!FirstOf(Summaries!Month(d)) <= d
         /\ d < Summaries!FirstOf(Summaries!Month(d) + 1)
<1>1. PICK m : m = (d + 1) \div 2
  OBVIOUS
<1>2. m \in Nat /\ 2 * m <= d + 1 /\ d + 1 < 2 * m + 2
  BY <1>1
<1> QED BY <1>1, <1>2 DEF Summaries!Month, Summaries!FirstOf

LEMMA MonthOnOneSide ==
  ASSUME NEW d \in Nat \ {0}, NEW e \in Nat \ {0}, d < Cutoff, e >= Cutoff
  PROVE  Summaries!Month(d) # Summaries!Month(e)
<1>1. /\ Cutoff \in Nat /\ Cutoff = 2 * ((Cutoff + 1) \div 2) - 1
  BY SummariesAssumption DEF Summaries!SummaryAssumption, Summaries!FirstOf, Summaries!Month
<1>2. PICK c \in Int : c = (Cutoff + 1) \div 2
  BY <1>1
<1>3. PICK m \in Int, n \in Int : m = (d + 1) \div 2 /\ n = (e + 1) \div 2
  OBVIOUS
<1>4. 2 * m <= d + 1 /\ e + 1 < 2 * n + 2
  BY <1>3
<1>5. m # n
  BY <1>1, <1>2, <1>4
<1> QED BY <1>3, <1>5 DEF Summaries!Month

(* The database that owns a row asked for is asked.                           *)
LEMMA OwnersAreAsked ==
  ASSUME BookTyped, NEW q \in Summaries!Requests, NEW r \in Chosen(q)
  PROVE  r.src \in Asked(q)
<1>1. /\ r.src \in Summaries!Sources /\ r.date \in Nat \ {0}
      /\ Cutoff \in Nat
  BY SummariesAssumption DEF Summaries!SummaryAssumption, Chosen, BookTyped
<1>2. /\ Summaries!Own(r) /\ (r.src = "archive" => there) /\ Summaries!Matches(q, r)
  BY DEF Chosen
<1>3. /\ q.from # Any => q.from \in Nat
      /\ q.to # Any => q.to \in Nat
      /\ q.month # Any => q.month = Summaries!Month(r.date)
  BY <1>2, RequestIs, SummariesAssumption DEF Summaries!SummaryAssumption, Summaries!Matches
<1>4. /\ Summaries!Month(r.date) \in Nat
      /\ Summaries!FirstOf(Summaries!Month(r.date)) <= r.date
      /\ r.date < Summaries!FirstOf(Summaries!Month(r.date) + 1)
  BY <1>1, MonthIs
<1>5. PICK f \in Int, n \in Int :
        /\ f = Summaries!FirstOf(Summaries!Month(r.date))
        /\ n = Summaries!FirstOf(Summaries!Month(r.date) + 1)
  BY <1>4 DEF Summaries!FirstOf
<1>6. f <= r.date /\ r.date < n
  BY <1>4, <1>5
<1>7. IF r.src = "archive" THEN r.date < Cutoff ELSE r.date >= Cutoff
  BY <1>2 DEF Summaries!Own
<1>8. CASE q.month # Any
  <2>1. Summaries!FirstOf(q.month) = f /\ Summaries!FirstOf(q.month + 1) = n
    BY <1>3, <1>5, <1>8
  <2>2. r.src = "archive" => f < Cutoff
    BY <1>1, <1>6, <1>7
  <2>3. r.src # "archive" => n >= Cutoff
    BY <1>1, <1>6, <1>7
  <2> QED BY <1>1, <1>2, <1>8, <2>1, <2>2, <2>3 DEF Asked, Summaries!Targets
<1>9. CASE q.month = Any
  <2>1. r.src = "archive" => q.from = Any \/ q.from < Cutoff
    BY <1>1, <1>2, <1>3, <1>7 DEF Summaries!Matches
  <2>2. r.src # "archive" => q.to = Any \/ q.to + 1 >= Cutoff
    BY <1>1, <1>2, <1>3, <1>7 DEF Summaries!Matches
  <2> QED BY <1>1, <1>2, <1>9, <2>1, <2>2 DEF Asked, Summaries!Targets
<1> QED BY <1>8, <1>9

LEMMA ChosenIsHalves ==
  ASSUME BookTyped, NEW q \in Summaries!Requests, NEW r
  PROVE  r \in Chosen(q) <=> \E s \in Asked(q) : r \in Half(q, s)
<1>1. r \in Chosen(q) => r.src \in Asked(q) /\ r \in Half(q, r.src)
  BY OwnersAreAsked DEF Chosen, Half
<1>2. ASSUME NEW s \in Asked(q), r \in Half(q, s) PROVE r \in Chosen(q)
  BY <1>2 DEF Chosen, Half, Asked
<1> QED BY <1>1, <1>2

(* The folds of the model are sums.                                          *)
Worth == [r \in booked |-> Booked[r.id]]

LEMMA TotalIsWorth ==
  ASSUME NEW R \in SUBSET booked
  PROVE  Summaries!Total(R) = Sum(Worth, R)
<1> PICK w : w = Worth
  OBVIOUS
<1>1. Summaries!Total(R) = (CHOOSE g : g = [s \in SUBSET R |->
         IF s = {} THEN 0 ELSE Booked[One(s).id] + g[s \ {One(s)}]])[R]
  BY DEF Summaries!Total, Summaries!MapThenSumSet, Summaries!MapThenFoldSet, One
<1>2. ASSUME NEW g
      PROVE  [s \in SUBSET R |-> IF s = {} THEN 0 ELSE Booked[One(s).id] + g[s \ {One(s)}]]
             = [s \in SUBSET R |-> IF s = {} THEN 0 ELSE w[One(s)] + g[s \ {One(s)}]]
  <2>1. \A s \in SUBSET R : s # {} => Booked[One(s).id] = w[One(s)]
    BY OneIs DEF Worth
  <2> QED BY <2>1
<1>3. (CHOOSE g : g = [s \in SUBSET R |->
         IF s = {} THEN 0 ELSE Booked[One(s).id] + g[s \ {One(s)}]])[R] = Sum(w, R)
  BY <1>2 DEF Sum, Adds
<1> QED BY <1>1, <1>3, Zenon

LEMMA WorthIsWhole == BookTyped => \A r \in booked : Worth[r] \in Int
<1> SUFFICES ASSUME BookTyped, NEW r \in booked PROVE Worth[r] \in Int
  OBVIOUS
<1>1. r.id \in DOMAIN Booked
  BY DEF BookTyped
<1>2. Booked[r.id] \in Nat
  BY <1>1, SummariesAssumption DEF Summaries!SummaryAssumption, Summaries!RowIds
<1> QED BY <1>2 DEF Worth

Totals(P) == [p \in P |-> p.group.total]
Counts(P) == [p \in P |-> p.group.cnt]
Means(P)  == [p \in P |-> p.group.avg]

LEMMA CombinedIs ==
  ASSUME NEW k, NEW P
  PROVE  Summaries!Combined(k, P) =
           [key |-> k, total |-> Sum(Totals(P), P), cnt |-> Sum(Counts(P), P),
            avg |-> Sum(Means(P), P) \div Summaries!Cardinality(P)]
<1>1. Summaries!Combined(k, P) =
        [key |-> k,
         total |-> (CHOOSE g : g = [s \in SUBSET P |->
           IF s = {} THEN 0 ELSE One(s).group.total + g[s \ {One(s)}]])[P],
         cnt |-> (CHOOSE g : g = [s \in SUBSET P |->
           IF s = {} THEN 0 ELSE One(s).group.cnt + g[s \ {One(s)}]])[P],
         avg |-> (CHOOSE g : g = [s \in SUBSET P |->
           IF s = {} THEN 0 ELSE One(s).group.avg + g[s \ {One(s)}]])[P]
             \div Summaries!Cardinality(P)]
  BY DEF Summaries!Combined, Summaries!MapThenSumSet, Summaries!MapThenFoldSet, One
<1>2. (CHOOSE g : g = [s \in SUBSET P |->
        IF s = {} THEN 0 ELSE One(s).group.total + g[s \ {One(s)}]])[P] = Sum(Totals(P), P)
  <2> PICK w : w = Totals(P)
    OBVIOUS
  <2>1. ASSUME NEW g
        PROVE  [s \in SUBSET P |->
                  IF s = {} THEN 0 ELSE One(s).group.total + g[s \ {One(s)}]]
               = [s \in SUBSET P |-> IF s = {} THEN 0 ELSE w[One(s)] + g[s \ {One(s)}]]
    <3>1. \A s \in SUBSET P : s # {} => One(s).group.total = w[One(s)]
      BY OneIs DEF Totals
    <3> QED BY <3>1
  <2>2. (CHOOSE g : g = [s \in SUBSET P |->
          IF s = {} THEN 0 ELSE One(s).group.total + g[s \ {One(s)}]])[P] = Sum(w, P)
    BY <2>1 DEF Sum, Adds
  <2> QED BY <2>2
<1>3. (CHOOSE g : g = [s \in SUBSET P |->
        IF s = {} THEN 0 ELSE One(s).group.cnt + g[s \ {One(s)}]])[P] = Sum(Counts(P), P)
  <2> PICK w : w = Counts(P)
    OBVIOUS
  <2>1. ASSUME NEW g
        PROVE  [s \in SUBSET P |->
                  IF s = {} THEN 0 ELSE One(s).group.cnt + g[s \ {One(s)}]]
               = [s \in SUBSET P |-> IF s = {} THEN 0 ELSE w[One(s)] + g[s \ {One(s)}]]
    <3>1. \A s \in SUBSET P : s # {} => One(s).group.cnt = w[One(s)]
      BY OneIs DEF Counts
    <3> QED BY <3>1
  <2>2. (CHOOSE g : g = [s \in SUBSET P |->
          IF s = {} THEN 0 ELSE One(s).group.cnt + g[s \ {One(s)}]])[P] = Sum(w, P)
    BY <2>1 DEF Sum, Adds
  <2> QED BY <2>2
<1>4. (CHOOSE g : g = [s \in SUBSET P |->
        IF s = {} THEN 0 ELSE One(s).group.avg + g[s \ {One(s)}]])[P] = Sum(Means(P), P)
  <2> PICK w : w = Means(P)
    OBVIOUS
  <2>1. ASSUME NEW g
        PROVE  [s \in SUBSET P |->
                  IF s = {} THEN 0 ELSE One(s).group.avg + g[s \ {One(s)}]]
               = [s \in SUBSET P |-> IF s = {} THEN 0 ELSE w[One(s)] + g[s \ {One(s)}]]
    <3>1. \A s \in SUBSET P : s # {} => One(s).group.avg = w[One(s)]
      BY OneIs DEF Means
    <3> QED BY <3>1
  <2>2. (CHOOSE g : g = [s \in SUBSET P |->
          IF s = {} THEN 0 ELSE One(s).group.avg + g[s \ {One(s)}]])[P] = Sum(w, P)
    BY <2>1 DEF Sum, Adds
  <2> QED BY <2>2
<1> QED BY <1>1, <1>2, <1>3, <1>4, Zenon

LEMMA BookCardinality == \A S : Summaries!Cardinality(S) = Cardinality(S)
  BY DEF Summaries!Cardinality, Cardinality

(* What one part, or the parts of both databases, come to.                    *)
Figures(p) == p.group.total \in Int /\ p.group.cnt \in Int /\ p.group.avg \in Int

LEMMA OnePart ==
  ASSUME NEW k, NEW p, Figures(p)
  PROVE  Summaries!Combined(k, {p}) =
           [key |-> k, total |-> p.group.total, cnt |-> p.group.cnt, avg |-> p.group.avg]
<1>1. /\ Totals({p})[p] = p.group.total
      /\ Counts({p})[p] = p.group.cnt
      /\ Means({p})[p] = p.group.avg
  BY DEF Totals, Counts, Means
<1>2. /\ Sum(Totals({p}), {p}) = p.group.total
      /\ Sum(Counts({p}), {p}) = p.group.cnt
      /\ Sum(Means({p}), {p}) = p.group.avg
  BY <1>1, SumOne DEF Figures
<1>3. Summaries!Cardinality({p}) = 1
  BY BookCardinality, FS_Singleton
<1>4. p.group.avg \div 1 = p.group.avg
  <2>1. PICK a \in Int : a = p.group.avg
    BY DEF Figures
  <2>2. a \div 1 = a
    OBVIOUS
  <2> QED BY <2>1, <2>2
<1> QED BY <1>2, <1>3, <1>4, CombinedIs

AddUp(k, p, o) ==
  \E a : Summaries!Combined(k, {p, o}) =
           [key |-> k, total |-> p.group.total + o.group.total,
            cnt |-> p.group.cnt + o.group.cnt, avg |-> a]

LEMMA TwoParts ==
  ASSUME NEW k, NEW p, NEW o, p # o, Figures(p), Figures(o)
  PROVE  AddUp(k, p, o)
<1> DEFINE P == {p, o}
<1>1. /\ Totals(P)[p] = p.group.total /\ Totals(P)[o] = o.group.total
      /\ Counts(P)[p] = p.group.cnt /\ Counts(P)[o] = o.group.cnt
  BY DEF Totals, Counts
<1>2. /\ Sum(Totals(P), P) = p.group.total + o.group.total
      /\ Sum(Counts(P), P) = p.group.cnt + o.group.cnt
  <2> PICK v, w : v = Totals(P) /\ w = Counts(P)
    OBVIOUS
  <2>1. /\ v[p] = p.group.total /\ v[o] = o.group.total
        /\ w[p] = p.group.cnt /\ w[o] = o.group.cnt
    BY <1>1
  <2>2. v[p] \in Int /\ v[o] \in Int /\ w[p] \in Int /\ w[o] \in Int
    BY <2>1 DEF Figures
  <2>3. Sum(v, {p, o}) = v[p] + v[o] /\ Sum(w, {p, o}) = w[p] + w[o]
    BY <2>2, SumTwo
  <2> QED BY <2>1, <2>3
<1> HIDE DEF P
<1>3. Summaries!Combined(k, P) =
        [key |-> k, total |-> p.group.total + o.group.total,
         cnt |-> p.group.cnt + o.group.cnt,
         avg |-> Sum(Means(P), P) \div Summaries!Cardinality(P)]
  BY <1>2, CombinedIs
<1> QED BY <1>3 DEF P, AddUp

(* The parts: one of each database asked and key that occurs there.           *)
PartOf(q, s, k) ==
  [src |-> s, group |-> Summaries!Aggregate(k, OfKey(q, Half(q, s), k))]

SameKey(q, k) == {p \in Summaries!Parts(q) : p.group.key = k}

LEMMA GroupsAre ==
  ASSUME NEW q, NEW R
  PROVE  Summaries!Grouped(q, R)
           = {Summaries!Aggregate(k, OfKey(q, R, k)) : k \in KeysOf(q, R)}
  BY DEF Summaries!Grouped, OfKey, KeysOf

LEMMA PartsAre ==
  ASSUME NEW q, NEW p
  PROVE  p \in Summaries!Parts(q) <=>
           \E s \in Asked(q) : \E k \in KeysOf(q, Half(q, s)) : p = PartOf(q, s, k)
<1>1. Summaries!Parts(q) = UNION {Summaries!Part(q, s) : s \in Asked(q)}
  BY DEF Summaries!Parts, Asked
<1>2. ASSUME NEW s
      PROVE  Summaries!Part(q, s) =
               {[src |-> s, group |-> g] : g \in Summaries!Grouped(q, Half(q, s))}
  BY DEF Summaries!Part, Half
<1>3. ASSUME NEW s
      PROVE  p \in Summaries!Part(q, s) <=>
               \E k \in KeysOf(q, Half(q, s)) : p = PartOf(q, s, k)
  BY <1>2, GroupsAre DEF PartOf
<1> QED BY <1>1, <1>3

LEMMA PartsOfKey ==
  ASSUME NEW q, NEW p, NEW k
  PROVE  p \in SameKey(q, k) <=>
           \E s \in Asked(q) : k \in KeysOf(q, Half(q, s)) /\ p = PartOf(q, s, k)
<1>1. \A s, j : PartOf(q, s, j).group.key = j
  BY DEF PartOf, Summaries!Aggregate
<1> QED BY <1>1, PartsAre DEF SameKey

LEMMA KeysMerge ==
  ASSUME BookTyped, NEW q \in Summaries!Requests
  PROVE  {p.group.key : p \in Summaries!Parts(q)} = KeysOf(q, Chosen(q))
<1>1. \A s, j : PartOf(q, s, j).group.key = j
  BY DEF PartOf, Summaries!Aggregate
<1>2. ASSUME NEW k
      PROVE  k \in KeysOf(q, Chosen(q)) <=> \E s \in Asked(q) : k \in KeysOf(q, Half(q, s))
  BY ChosenIsHalves DEF KeysOf
<1>3. ASSUME NEW k
      PROVE  k \in {p.group.key : p \in Summaries!Parts(q)}
               <=> \E s \in Asked(q) : k \in KeysOf(q, Half(q, s))
  BY <1>1, PartsAre
<1> QED BY <1>2, <1>3

LEMMA PartFigures ==
  ASSUME BookTyped, NEW q, NEW s, NEW k \in KeysOf(q, Half(q, s))
  PROVE  /\ Figures(PartOf(q, s, k))
         /\ PartOf(q, s, k).group.total = Sum(Worth, OfKey(q, Half(q, s), k))
         /\ PartOf(q, s, k).group.cnt = Cardinality(OfKey(q, Half(q, s), k))
<1> DEFINE R == OfKey(q, Half(q, s), k)
<1>1. R \subseteq booked /\ R # {}
  BY DEF OfKey, Half, KeysOf
<1> HIDE DEF R
<1>2. IsFiniteSet(R)
  BY <1>1, FS_Subset DEF BookTyped
<1>3. PICK t \in Int : t = Sum(Worth, R)
  BY <1>1, <1>2, SumType, WorthIsWhole
<1>4. PICK n \in Nat \ {0} : n = Cardinality(R)
  BY <1>1, <1>2, FS_CardinalityType, FS_EmptySet
<1>5. (Scale * t) \div n \in Int
  <2>1. Scale \in Int
    BY SummariesAssumption DEF Summaries!SummaryAssumption
  <2>2. Scale * t \in Int
    BY <1>3, <2>1
  <2>3. \A z \in Int : z \div n \in Int
    BY <1>4
  <2> QED BY <1>4, <2>2, <2>3
<1>6. PartOf(q, s, k).group =
        [key |-> k, total |-> t, cnt |-> n, avg |-> (Scale * t) \div n]
  BY <1>1, <1>3, <1>4, TotalIsWorth, BookCardinality
     DEF PartOf, Summaries!Aggregate, R
<1> QED BY <1>3, <1>4, <1>5, <1>6 DEF Figures, R

(* Rows of one month are in one database.                                    *)
LEMMA MonthsAreNotSplit ==
  ASSUME BookTyped, NEW q, "month" \in q.by, NEW k,
         NEW r \in Half(q, "archive"), NEW e \in Half(q, "live"),
         Summaries!Key(q, r) = k, Summaries!Key(q, e) = k
  PROVE  FALSE
<1>1. r.date \in Nat \ {0} /\ e.date \in Nat \ {0}
  BY SummariesAssumption DEF Summaries!SummaryAssumption, Half, BookTyped
<1>2. r.date < Cutoff /\ e.date >= Cutoff
  BY DEF Half, Summaries!Own
<1>3. Summaries!Month(r.date) = Summaries!Month(e.date)
  <2>1. Summaries!Key(q, r).month = Summaries!Month(r.date)
    BY DEF Summaries!Key
  <2>2. Summaries!Key(q, e).month = Summaries!Month(e.date)
    BY DEF Summaries!Key
  <2> QED BY <2>1, <2>2
<1> QED BY <1>1, <1>2, <1>3, MonthOnOneSide

(* The merged group of a key is the group of the rows of both databases, but   *)
(* for the average of a key that occurs in both.                               *)
MergesTo(q, k) ==
  \E t, n, a, b :
    /\ Summaries!Combined(k, SameKey(q, k)) = [key |-> k, total |-> t, cnt |-> n, avg |-> a]
    /\ Summaries!Aggregate(k, OfKey(q, Chosen(q), k))
         = [key |-> k, total |-> t, cnt |-> n, avg |-> b]
    /\ "month" \in q.by => a = b

LEMMA OneHalf ==
  ASSUME BookTyped, NEW q \in Summaries!Requests, NEW k, NEW s \in Asked(q),
         k \in KeysOf(q, Half(q, s)),
         \A o \in Asked(q) : k \in KeysOf(q, Half(q, o)) => o = s
  PROVE  MergesTo(q, k)
<1>1. SameKey(q, k) = {PartOf(q, s, k)}
  BY PartsOfKey
<1>2. OfKey(q, Chosen(q), k) = OfKey(q, Half(q, s), k)
  <2>1. ASSUME NEW r \in OfKey(q, Chosen(q), k) PROVE r \in OfKey(q, Half(q, s), k)
    <3>1. r \in Chosen(q) /\ Summaries!Key(q, r) = k
      BY DEF OfKey
    <3>2. PICK o \in Asked(q) : r \in Half(q, o)
      BY <3>1, ChosenIsHalves
    <3>3. k \in KeysOf(q, Half(q, o))
      BY <3>1, <3>2 DEF KeysOf
    <3> QED BY <3>1, <3>2, <3>3 DEF OfKey
  <2>2. ASSUME NEW r \in OfKey(q, Half(q, s), k) PROVE r \in OfKey(q, Chosen(q), k)
    BY ChosenIsHalves DEF OfKey
  <2> QED BY <2>1, <2>2
<1>3. Figures(PartOf(q, s, k))
  BY PartFigures
<1>4. Summaries!Combined(k, SameKey(q, k)) =
        [key |-> k, total |-> PartOf(q, s, k).group.total,
         cnt |-> PartOf(q, s, k).group.cnt, avg |-> PartOf(q, s, k).group.avg]
  BY <1>1, <1>3, OnePart
<1>5. Summaries!Aggregate(k, OfKey(q, Chosen(q), k)) = PartOf(q, s, k).group
  BY <1>2 DEF PartOf
<1>6. PartOf(q, s, k).group =
        [key |-> k, total |-> PartOf(q, s, k).group.total,
         cnt |-> PartOf(q, s, k).group.cnt, avg |-> PartOf(q, s, k).group.avg]
  BY DEF PartOf, Summaries!Aggregate
<1> QED BY <1>4, <1>5, <1>6 DEF MergesTo

LEMMA BothHalves ==
  ASSUME BookTyped, NEW q \in Summaries!Requests, NEW k,
         "archive" \in Asked(q), k \in KeysOf(q, Half(q, "archive")),
         "live" \in Asked(q), k \in KeysOf(q, Half(q, "live"))
  PROVE  MergesTo(q, k)
<1> DEFINE A == OfKey(q, Half(q, "archive"), k)
           L == OfKey(q, Half(q, "live"), k)
           p == PartOf(q, "archive", k)
           o == PartOf(q, "live", k)
<1>1. "month" \notin q.by
  <2>1. PICK r \in Half(q, "archive") : Summaries!Key(q, r) = k
    BY DEF KeysOf
  <2>2. PICK e \in Half(q, "live") : Summaries!Key(q, e) = k
    BY DEF KeysOf
  <2> QED BY <2>1, <2>2, MonthsAreNotSplit
<1>2. Asked(q) \subseteq {"archive", "live"}
  BY DEF Asked, Summaries!Targets, Summaries!Sources
<1>3. SameKey(q, k) = {p, o} /\ p # o
  <2>1. p # o
    BY DEF PartOf
  <2> HIDE DEF p, o
  <2>2. \A x : x \in SameKey(q, k) <=> x = p \/ x = o
    BY <1>2, PartsOfKey DEF p, o
  <2> QED BY <2>1, <2>2
<1>4. /\ A \cap L = {} /\ A \subseteq booked /\ L \subseteq booked
      /\ OfKey(q, Chosen(q), k) = A \cup L
  <2>1. A \cap L = {} /\ A \subseteq booked /\ L \subseteq booked
    BY DEF OfKey, Half
  <2>2. \A r : r \in OfKey(q, Chosen(q), k) <=> r \in A \/ r \in L
    BY <1>2, ChosenIsHalves DEF OfKey
  <2> HIDE DEF A, L
  <2> QED BY <2>1, <2>2
<1>5. /\ Figures(p) /\ p.group.total = Sum(Worth, A) /\ p.group.cnt = Cardinality(A)
      /\ Figures(o) /\ o.group.total = Sum(Worth, L) /\ o.group.cnt = Cardinality(L)
  BY PartFigures
<1> HIDE DEF A, L, p, o
<1>6. IsFiniteSet(A) /\ IsFiniteSet(L)
  BY <1>4, FS_Subset DEF BookTyped
<1>7. Sum(Worth, A \cup L) = Sum(Worth, A) + Sum(Worth, L)
  BY <1>4, <1>6, SumBoth, WorthIsWhole
<1>8. Cardinality(A \cup L) = Cardinality(A) + Cardinality(L)
  <2>1. /\ Cardinality(A \cup L)
             = Cardinality(A) + Cardinality(L) - Cardinality(A \cap L)
        /\ Cardinality(A) \in Nat /\ Cardinality(L) \in Nat
    BY <1>6, FS_Union, FS_CardinalityType
  <2>2. Cardinality(A \cap L) = 0
    BY <1>4, FS_EmptySet
  <2> QED BY <2>1, <2>2
<1>9. PICK a : Summaries!Combined(k, {p, o}) =
        [key |-> k, total |-> p.group.total + o.group.total,
         cnt |-> p.group.cnt + o.group.cnt, avg |-> a]
  <2>1. p # o /\ Figures(p) /\ Figures(o)
    BY <1>3, <1>5
  <2>2. AddUp(k, p, o)
    BY <2>1, TwoParts
  <2> QED BY <2>2 DEF AddUp
<1>10. PICK b : Summaries!Aggregate(k, A \cup L) =
        [key |-> k, total |-> Sum(Worth, A \cup L), cnt |-> Cardinality(A \cup L),
         avg |-> b]
  <2>1. Summaries!Total(A \cup L) = Sum(Worth, A \cup L)
    BY <1>4, TotalIsWorth
  <2>2. Summaries!Cardinality(A \cup L) = Cardinality(A \cup L)
    BY BookCardinality
  <2> QED BY <2>1, <2>2 DEF Summaries!Aggregate
<1>11. Summaries!Combined(k, SameKey(q, k)) =
         [key |-> k, total |-> Sum(Worth, A \cup L), cnt |-> Cardinality(A \cup L),
          avg |-> a]
  BY <1>3, <1>5, <1>7, <1>8, <1>9
<1>12. Summaries!Aggregate(k, OfKey(q, Chosen(q), k)) =
         [key |-> k, total |-> Sum(Worth, A \cup L), cnt |-> Cardinality(A \cup L),
          avg |-> b]
  BY <1>4, <1>10
<1> QED BY <1>1, <1>11, <1>12 DEF MergesTo

LEMMA EveryKeyMerges ==
  ASSUME BookTyped, NEW q \in Summaries!Requests, NEW k \in KeysOf(q, Chosen(q))
  PROVE  MergesTo(q, k)
<1>1. PICK r \in Chosen(q) : Summaries!Key(q, r) = k
  BY DEF KeysOf
<1>2. PICK s \in Asked(q) : k \in KeysOf(q, Half(q, s))
  BY <1>1, ChosenIsHalves DEF KeysOf
<1>3. Asked(q) \subseteq {"archive", "live"}
  BY DEF Asked, Summaries!Targets, Summaries!Sources
<1>4. CASE \A o \in Asked(q) : k \in KeysOf(q, Half(q, o)) => o = s
  BY <1>2, <1>4, OneHalf
<1>5. CASE \E o \in Asked(q) : k \in KeysOf(q, Half(q, o)) /\ o # s
  BY <1>2, <1>3, <1>5, BothHalves
<1> QED BY <1>4, <1>5

(* LIMIT cuts by month and total, so it cuts merged groups and direct ones at  *)
(* the same keys.                                                            *)
KeysAbove(K, m, k) == {j \in K : Summaries!Above(m[j], m[k])}

LEMMA FirstByKey ==
  ASSUME NEW K, IsFiniteSet(K), NEW m, \A k \in K : m[k].key = k, NEW n
  PROVE  Summaries!First({m[k] : k \in K}, n)
           = {m[k] : k \in {k \in K : Cardinality(KeysAbove(K, m, k)) < n}}
<1> DEFINE G == {m[k] : k \in K}
<1>1. ASSUME NEW k \in K
      PROVE  Summaries!Cardinality({h \in G : Summaries!Above(h, m[k])})
               = Cardinality(KeysAbove(K, m, k))
  <2> DEFINE H == {h \in G : Summaries!Above(h, m[k])}
             J == KeysAbove(K, m, k)
             f == [j \in J |-> m[j]]
  <2>1. J \subseteq K /\ \A j \in J : m[j] \in H
    BY DEF KeysAbove
  <2>2. \A h \in H : \E j \in J : h = m[j]
    BY DEF KeysAbove
  <2>3. IsFiniteSet(J)
    BY <2>1, FS_Subset
  <2>4. \A i, j \in J : m[i] = m[j] => i = j
    BY <2>1
  <2> HIDE DEF H, J
  <2>5. f \in [J -> H] /\ \A j \in J : f[j] = m[j]
    BY <2>1
  <2>6. f \in Bijection(J, H)
    BY <2>2, <2>4, <2>5 DEF Bijection, Injection, Surjection, IsInjective
  <2>7. ExistsBijection(J, H)
    BY <2>6 DEF ExistsBijection
  <2> HIDE DEF f
  <2>8. Cardinality(H) = Cardinality(J)
    BY <2>3, <2>7, FS_Bijection
  <2> QED BY <2>8, BookCardinality DEF H, J
<1>2. Summaries!First(G, n) = {g \in G : Summaries!Cardinality(
                                           {h \in G : Summaries!Above(h, g)}) < n}
  BY DEF Summaries!First
<1>3. ASSUME NEW g
      PROVE  g \in Summaries!First(G, n)
               <=> \E k \in K : g = m[k] /\ Cardinality(KeysAbove(K, m, k)) < n
  <2>1. g \in G <=> \E k \in K : g = m[k]
    OBVIOUS
  <2> HIDE DEF G
  <2> QED BY <1>1, <1>2, <2>1
<1> HIDE DEF G
<1>4. Summaries!First(G, n) = {m[k] : k \in {k \in K : Cardinality(KeysAbove(K, m, k)) < n}}
  BY <1>3
<1> QED BY <1>4 DEF G

LEMMA SummariesMerge == BookTyped => Summaries!SummariesAreDirect
<1> SUFFICES ASSUME BookTyped, NEW q \in Summaries!Requests
             PROVE  Summaries!Answer(q)
                      = {Summaries!Shown(q, g) :
                           g \in Summaries!First(Summaries!Grouped(q, Chosen(q)), q.limit)}
  BY DEF Summaries!SummariesAreDirect, Chosen
<1> DEFINE K == KeysOf(q, Chosen(q))
           m == [k \in K |-> Summaries!Combined(k, SameKey(q, k))]
           n == [k \in K |-> Summaries!Aggregate(k, OfKey(q, Chosen(q), k))]
<1>1. IsFiniteSet(K)
  <2>1. IsFiniteSet(Chosen(q))
    BY FS_Subset DEF BookTyped, Chosen
  <2> DEFINE f == [r \in Chosen(q) |-> Summaries!Key(q, r)]
  <2>2. f \in [Chosen(q) -> K] /\ \A k \in K : \E r \in Chosen(q) : f[r] = k
    BY DEF KeysOf
  <2> HIDE DEF f, K
  <2>3. f \in Surjection(Chosen(q), K)
    BY <2>2 DEF Surjection
  <2> QED BY <2>1, <2>3, FS_Surjection
<1>2. Summaries!Merged(q) = {m[k] : k \in K}
  <2>1. Summaries!Merged(q)
          = {Summaries!Combined(k, SameKey(q, k)) :
               k \in {p.group.key : p \in Summaries!Parts(q)}}
    BY DEF Summaries!Merged, SameKey
  <2>2. {p.group.key : p \in Summaries!Parts(q)} = K
    BY KeysMerge
  <2> HIDE DEF K
  <2> QED BY <2>1, <2>2
<1>3. Summaries!Grouped(q, Chosen(q)) = {n[k] : k \in K}
  <2>1. Summaries!Grouped(q, Chosen(q))
          = {Summaries!Aggregate(k, OfKey(q, Chosen(q), k)) : k \in K}
    BY GroupsAre
  <2> HIDE DEF K
  <2> QED BY <2>1
<1>4. \A k \in K : \E t, c, a, b :
        /\ m[k] = [key |-> k, total |-> t, cnt |-> c, avg |-> a]
        /\ n[k] = [key |-> k, total |-> t, cnt |-> c, avg |-> b]
        /\ "month" \in q.by => a = b
  BY EveryKeyMerges DEF MergesTo
<1> HIDE DEF K, m, n
<1>5. \A k \in K : /\ m[k].key = k /\ n[k].key = k /\ m[k].total = n[k].total
                   /\ Summaries!Shown(q, m[k]) = Summaries!Shown(q, n[k])
  <2> SUFFICES ASSUME NEW k \in K
               PROVE  /\ m[k].key = k /\ n[k].key = k /\ m[k].total = n[k].total
                      /\ Summaries!Shown(q, m[k]) = Summaries!Shown(q, n[k])
    OBVIOUS
  <2>1. PICK t, c, a, b :
          /\ m[k] = [key |-> k, total |-> t, cnt |-> c, avg |-> a]
          /\ n[k] = [key |-> k, total |-> t, cnt |-> c, avg |-> b]
          /\ "month" \in q.by => a = b
    BY <1>4
  <2>2. [m[k] EXCEPT !.avg = 0] = [n[k] EXCEPT !.avg = 0]
    BY <2>1
  <2> QED BY <2>1, <2>2 DEF Summaries!Shown
<1>6. \A k \in K : KeysAbove(K, m, k) = KeysAbove(K, n, k)
  BY <1>5 DEF KeysAbove, Summaries!Above
<1>7. /\ Summaries!First({m[k] : k \in K}, q.limit)
           = {m[k] : k \in {k \in K : Cardinality(KeysAbove(K, m, k)) < q.limit}}
      /\ Summaries!First({n[k] : k \in K}, q.limit)
           = {n[k] : k \in {k \in K : Cardinality(KeysAbove(K, n, k)) < q.limit}}
  BY <1>1, <1>5, FirstByKey
<1>8. {k \in K : Cardinality(KeysAbove(K, m, k)) < q.limit}
        = {k \in K : Cardinality(KeysAbove(K, n, k)) < q.limit}
  BY <1>6
<1>9. PICK C \in SUBSET K : C = {k \in K : Cardinality(KeysAbove(K, m, k)) < q.limit}
  OBVIOUS
<1>10. /\ Summaries!First(Summaries!Merged(q), q.limit) = {m[k] : k \in C}
       /\ Summaries!First(Summaries!Grouped(q, Chosen(q)), q.limit) = {n[k] : k \in C}
  BY <1>2, <1>3, <1>7, <1>8, <1>9
<1>11. {Summaries!Shown(q, g) : g \in {m[k] : k \in C}}
         = {Summaries!Shown(q, g) : g \in {n[k] : k \in C}}
  BY <1>5
<1> QED BY <1>10, <1>11 DEF Summaries!Answer

LEMMA InitBookTyped == AllInit => BookTyped
<1> SUFFICES ASSUME AllInit PROVE BookTyped
  OBVIOUS
<1>1. booked = {}
  BY DEF AllInit, Summaries!Init
<1> QED BY <1>1, FS_EmptySet DEF BookTyped

LEMMA BooksMove == BookTyped /\ [AllNext]_allVars => BookTyped'
<1> SUFFICES ASSUME BookTyped, [AllNext]_allVars PROVE BookTyped'
  OBVIOUS
<1>1. CASE Summaries!Next
  BY <1>1, BookStep
<1>2. CASE UNCHANGED booked
  BY <1>2 DEF BookTyped
<1> QED BY <1>1, <1>2, Zenon DEF AllNext, allVars, otherVars

(* build_aggregation_sql: aggregating each database by itself and merging the  *)
(* groups gives what one query over the rows of both would, for any rows,      *)
(* quantities, cutoff at a month's start and requests, wherever a row's copies *)
(* are: each row counted once, sums, counts, monthly averages and the limit.   *)
THEOREM SummariesStayDirect == AllSpec => []SummariesAreDirect
<1>1. BookTyped => SummariesAreDirect
  BY SummariesMerge DEF SummariesAreDirect
<1> QED BY <1>1, InitBookTyped, BooksMove, PTL DEF AllSpec

-----------------------------------------------------------------------------
(* The emission.  AnomalyCooldown is proved about in AnomalyCooldown_proofs;   *)
(* the three emissions are instances of it, and the definitions of an          *)
(* instance of the module and of the instance of its proofs are the same.      *)
CalmProofs == INSTANCE AnomalyCooldown_proofs WITH
  Scanners <- {Daemon}, Keys <- CalmRun.keys, Cooldown <- CalmRun.cooldown,
  PruneFactor <- CalmRun.factor, Retention <- CalmRun.retention,
  Posix <- CalmRun.posix,
  MaxNow <- CalmRun.until, MaxFaults <- 0, MaxCrashes <- 0,
  rows <- history, twice <- again

LEMMA CalmInit == Calm!Init => CalmProofs!Init
  BY Zenon
    DEF Calm!Init, Calm!Never, Calm!Resting, Calm!NoMarks, CalmProofs!Init,
        CalmProofs!Never, CalmProofs!Resting, CalmProofs!NoMarks

LEMMA CalmNext == Calm!Next => CalmProofs!Next
  BY Zenon
    DEF Calm!Times, Calm!NoMarks, Calm!Never, Calm!hist, Calm!calls, Calm!Resting, Calm!Becomes,
        Calm!Loaded, Calm!Fresh, Calm!Marked, Calm!Pruned, Calm!Tick, Calm!Scan,
        Calm!Load, Calm!Latest, Calm!Queue, Calm!EmitQueues, Calm!EmitSwallows,
        Calm!EmitRaises, Calm!Emit, Calm!Saved, Calm!AfterSave, Calm!SaveOpen,
        Calm!Overlay, Calm!SaveWrite, Calm!Renamed, Calm!Held, Calm!SaveReplace,
        Calm!SaveFails, Calm!Expired, Calm!Record, Calm!Crash, Calm!Restrict,
        Calm!Next, CalmProofs!Times, CalmProofs!NoMarks, CalmProofs!Never,
        CalmProofs!hist, CalmProofs!calls, CalmProofs!Resting, CalmProofs!Becomes, CalmProofs!Loaded,
        CalmProofs!Fresh, CalmProofs!Marked, CalmProofs!Pruned, CalmProofs!Tick,
        CalmProofs!Scan, CalmProofs!Load, CalmProofs!Latest, CalmProofs!Queue,
        CalmProofs!EmitQueues, CalmProofs!EmitSwallows, CalmProofs!EmitRaises,
        CalmProofs!Emit, CalmProofs!Saved, CalmProofs!AfterSave,
        CalmProofs!SaveOpen, CalmProofs!Overlay, CalmProofs!SaveWrite,
        CalmProofs!Renamed, CalmProofs!Held, CalmProofs!SaveReplace,
        CalmProofs!SaveFails, CalmProofs!Expired, CalmProofs!Record,
        CalmProofs!Crash, CalmProofs!Restrict, CalmProofs!Next

LEMMA CalmAssumption == CalmProofs!CooldownAssumption
  BY Zenon, EmissionAssumption
    DEF Calm!CooldownAssumption, Calm!Times, Calm!Cooldowns,
        CalmProofs!CooldownAssumption, CalmProofs!Times, CalmProofs!Cooldowns

LEMMA CalmMeans ==
  /\ CalmProofs!TypeOK => Calm!TypeOK
  /\ CalmProofs!OncePerWindow => Calm!OncePerWindow
  /\ CalmProofs!HistoryBacksCooldown => Calm!HistoryBacksCooldown
  /\ CalmProofs!Readable => Calm!Readable
  BY Zenon
    DEF Calm!TypeOK, Calm!OncePerWindow, Calm!HistoryBacksCooldown, Calm!Readable,
        Calm!Times, Calm!Cooldowns, Calm!Files, Calm!Loaded, Calm!NoMarks,
        Calm!Never, CalmProofs!TypeOK, CalmProofs!OncePerWindow,
        CalmProofs!HistoryBacksCooldown, CalmProofs!Readable, CalmProofs!Times,
        CalmProofs!Cooldowns, CalmProofs!Files, CalmProofs!Loaded,
        CalmProofs!NoMarks, CalmProofs!Never

KilledProofs == INSTANCE AnomalyCooldown_proofs WITH
  Scanners <- {Daemon}, Keys <- KilledRun.keys, Cooldown <- KilledRun.cooldown,
  PruneFactor <- KilledRun.factor, Retention <- KilledRun.retention,
  Posix <- KilledRun.posix,
  MaxNow <- KilledRun.until, MaxFaults <- KilledRun.faults, MaxCrashes <- KilledRun.crashes,
  rows <- history, twice <- again

LEMMA KilledInit == Killed!Init => KilledProofs!Init
  BY Zenon
    DEF Killed!Init, Killed!Never, Killed!Resting, Killed!NoMarks,
        KilledProofs!Init, KilledProofs!Never, KilledProofs!Resting,
        KilledProofs!NoMarks

LEMMA KilledNext == Killed!Next => KilledProofs!Next
  BY Zenon
    DEF Killed!Times, Killed!NoMarks, Killed!Never, Killed!hist, Killed!calls, Killed!Resting,
        Killed!Becomes, Killed!Loaded, Killed!Fresh, Killed!Marked, Killed!Pruned,
        Killed!Tick, Killed!Scan, Killed!Load, Killed!Latest, Killed!Queue,
        Killed!EmitQueues, Killed!EmitSwallows, Killed!EmitRaises, Killed!Emit,
        Killed!Saved, Killed!AfterSave, Killed!SaveOpen, Killed!Overlay,
        Killed!SaveWrite, Killed!Renamed, Killed!Held, Killed!SaveReplace,
        Killed!SaveFails, Killed!Expired, Killed!Record, Killed!Crash,
        Killed!Restrict, Killed!Next, KilledProofs!Times, KilledProofs!NoMarks,
        KilledProofs!Never, KilledProofs!hist, KilledProofs!calls, KilledProofs!Resting,
        KilledProofs!Becomes, KilledProofs!Loaded, KilledProofs!Fresh,
        KilledProofs!Marked, KilledProofs!Pruned, KilledProofs!Tick,
        KilledProofs!Scan, KilledProofs!Load, KilledProofs!Latest,
        KilledProofs!Queue, KilledProofs!EmitQueues, KilledProofs!EmitSwallows,
        KilledProofs!EmitRaises, KilledProofs!Emit, KilledProofs!Saved,
        KilledProofs!AfterSave, KilledProofs!SaveOpen, KilledProofs!Overlay,
        KilledProofs!SaveWrite, KilledProofs!Renamed, KilledProofs!Held,
        KilledProofs!SaveReplace, KilledProofs!SaveFails, KilledProofs!Expired,
        KilledProofs!Record, KilledProofs!Crash, KilledProofs!Restrict,
        KilledProofs!Next

LEMMA KilledAssumption == KilledProofs!CooldownAssumption
  BY Zenon, EmissionAssumption
    DEF Killed!CooldownAssumption, Killed!Times, Killed!Cooldowns,
        KilledProofs!CooldownAssumption, KilledProofs!Times, KilledProofs!Cooldowns

LEMMA KilledMeans ==
  /\ KilledProofs!TypeOK => Killed!TypeOK
  /\ KilledProofs!OncePerWindow => Killed!OncePerWindow
  /\ KilledProofs!HistoryBacksCooldown => Killed!HistoryBacksCooldown
  /\ KilledProofs!Readable => Killed!Readable
  /\ KilledProofs!NotSilenced => Killed!NotSilenced
  BY Zenon
    DEF Killed!TypeOK, Killed!OncePerWindow, Killed!HistoryBacksCooldown,
        KilledProofs!OncePerWindow, KilledProofs!HistoryBacksCooldown,
        Killed!Readable, Killed!NotSilenced, Killed!Times,
        Killed!Cooldowns, Killed!Files, Killed!Loaded, Killed!NoMarks, Killed!Never,
        KilledProofs!TypeOK, KilledProofs!Readable, KilledProofs!NotSilenced,
        KilledProofs!Times, KilledProofs!Cooldowns, KilledProofs!Files,
        KilledProofs!Loaded, KilledProofs!NoMarks, KilledProofs!Never

SharedProofs == INSTANCE AnomalyCooldown_proofs WITH
  Keys <- SharedRun.keys, Cooldown <- SharedRun.cooldown, PruneFactor <- SharedRun.factor,
  Retention <- SharedRun.retention, Posix <- SharedRun.posix,
  MaxNow <- SharedRun.until, MaxFaults <- SharedRun.faults, MaxCrashes <- SharedRun.crashes,
  rows <- history, twice <- again

LEMMA SharedInit == Shared!Init => SharedProofs!Init
  BY Zenon
    DEF Shared!Init, Shared!Never, Shared!Resting, Shared!NoMarks,
        SharedProofs!Init, SharedProofs!Never, SharedProofs!Resting,
        SharedProofs!NoMarks

LEMMA SharedNext == Shared!Next => SharedProofs!Next
  BY Zenon
    DEF Shared!Times, Shared!NoMarks, Shared!Never, Shared!hist, Shared!calls, Shared!Resting,
        Shared!Becomes, Shared!Loaded, Shared!Fresh, Shared!Marked, Shared!Pruned,
        Shared!Tick, Shared!Scan, Shared!Load, Shared!Latest, Shared!Queue,
        Shared!EmitQueues, Shared!EmitSwallows, Shared!EmitRaises, Shared!Emit,
        Shared!Saved, Shared!AfterSave, Shared!SaveOpen, Shared!Overlay,
        Shared!SaveWrite, Shared!Renamed, Shared!Held, Shared!SaveReplace,
        Shared!SaveFails, Shared!Expired, Shared!Record, Shared!Crash,
        Shared!Restrict, Shared!Next, SharedProofs!Times, SharedProofs!NoMarks,
        SharedProofs!Never, SharedProofs!hist, SharedProofs!calls, SharedProofs!Resting,
        SharedProofs!Becomes, SharedProofs!Loaded, SharedProofs!Fresh,
        SharedProofs!Marked, SharedProofs!Pruned, SharedProofs!Tick,
        SharedProofs!Scan, SharedProofs!Load, SharedProofs!Latest,
        SharedProofs!Queue, SharedProofs!EmitQueues, SharedProofs!EmitSwallows,
        SharedProofs!EmitRaises, SharedProofs!Emit, SharedProofs!Saved,
        SharedProofs!AfterSave, SharedProofs!SaveOpen, SharedProofs!Overlay,
        SharedProofs!SaveWrite, SharedProofs!Renamed, SharedProofs!Held,
        SharedProofs!SaveReplace, SharedProofs!SaveFails, SharedProofs!Expired,
        SharedProofs!Record, SharedProofs!Crash, SharedProofs!Restrict,
        SharedProofs!Next

LEMMA SharedAssumption == SharedProofs!CooldownAssumption
  BY Zenon, EmissionAssumption
    DEF Shared!CooldownAssumption, Shared!Times, Shared!Cooldowns,
        SharedProofs!CooldownAssumption, SharedProofs!Times, SharedProofs!Cooldowns

LEMMA SharedMeans ==
  /\ SharedProofs!TypeOK => Shared!TypeOK
  /\ SharedProofs!NotSilenced => Shared!NotSilenced
  BY Zenon
    DEF Shared!TypeOK, Shared!NotSilenced, Shared!Times, Shared!Cooldowns,
        Shared!Files, Shared!Loaded, Shared!NoMarks, Shared!Never,
        SharedProofs!TypeOK, SharedProofs!NotSilenced, SharedProofs!Times,
        SharedProofs!Cooldowns, SharedProofs!Files, SharedProofs!Loaded,
        SharedProofs!NoMarks, SharedProofs!Never

-----------------------------------------------------------------------------
(* The whole.  Each clause of the invariant is about the behaviours of one     *)
(* part; in those of another its variables stand still.                      *)
Emitting ==
  /\ at = "calm" => CalmProofs!Typed /\ CalmProofs!Whole /\ CalmProofs!Exact
  /\ at = "killed" => /\ KilledProofs!Typed /\ KilledProofs!Whole
                      /\ KilledProofs!Exact /\ KilledProofs!Honest
  /\ at = "shared" => SharedProofs!Typed /\ SharedProofs!Honest

LEMMA InitEmitting == AllInit => Emitting
<1> SUFFICES ASSUME AllInit PROVE Emitting
  OBVIOUS
<1>1. /\ at = "calm" => Calm!Init
      /\ at = "killed" => Killed!Init
      /\ at = "shared" => Shared!Init
  BY DEF AllInit
<1>2. CASE at = "calm"
  BY <1>1, <1>2, CalmInit, CalmAssumption, CalmProofs!InitTyped, CalmProofs!InitWhole,
     CalmProofs!InitExact DEF Emitting
<1>3. CASE at = "killed"
  BY <1>1, <1>3, KilledInit, KilledAssumption, KilledProofs!InitTyped,
     KilledProofs!InitWhole, KilledProofs!InitExact, KilledProofs!InitHonest DEF Emitting
<1>4. CASE at = "shared"
  BY <1>1, <1>4, SharedInit, SharedAssumption, SharedProofs!InitTyped,
     SharedProofs!InitHonest DEF Emitting
<1> QED BY <1>2, <1>3, <1>4 DEF Emitting

(* A scanner alone overlaps with none.                                       *)
LEMMA CalmIsAlone == CalmProofs!NoOverlap /\ CalmProofs!NoOverlap'
  BY DEF CalmProofs!NoOverlap

LEMMA KilledIsAlone == KilledProofs!NoOverlap /\ KilledProofs!NoOverlap'
  BY DEF KilledProofs!NoOverlap

LEMMA EmissionMoves ==
  ASSUME [AllNext]_allVars
  PROVE  /\ at' = at
         /\ at = "calm" => [CalmProofs!Next]_(CalmProofs!vars)
         /\ at = "killed" => [KilledProofs!Next]_(KilledProofs!vars)
         /\ at = "shared" => [SharedProofs!Next]_(SharedProofs!vars)
<1>1. at' = at
  BY DEF AllNext, allVars
<1>2. CASE UNCHANGED allVars
  BY <1>1, <1>2 DEF allVars, otherVars, emissionVars, CalmProofs!vars, CalmProofs!hist,
     CalmProofs!calls, KilledProofs!vars, KilledProofs!hist, KilledProofs!calls,
     SharedProofs!vars, SharedProofs!hist, SharedProofs!calls
<1>3. CASE AllNext
  <2>1. /\ at = "calm" => Calm!Next
        /\ at = "killed" => Killed!Next
        /\ at = "shared" => Shared!Next
    BY <1>3, Zenon DEF AllNext
  <2> QED BY <1>1, <2>1, CalmNext, KilledNext, SharedNext
<1> QED BY <1>2, <1>3

LEMMA EmittingStep == Emitting /\ [AllNext]_allVars => Emitting'
<1> SUFFICES ASSUME Emitting, [AllNext]_allVars PROVE Emitting'
  OBVIOUS
<1>1. /\ at' = at
      /\ at = "calm" => [CalmProofs!Next]_(CalmProofs!vars)
      /\ at = "killed" => [KilledProofs!Next]_(KilledProofs!vars)
      /\ at = "shared" => [SharedProofs!Next]_(SharedProofs!vars)
  BY EmissionMoves
<1>2. CASE at = "calm"
  <2>1. CalmProofs!Typed /\ CalmProofs!Whole /\ CalmProofs!Exact
    BY <1>2 DEF Emitting
  <2>2. CalmProofs!Typed'
    BY <1>1, <1>2, <2>1, CalmAssumption, CalmProofs!TypedStep
  <2>3. CalmProofs!Whole'
    BY <1>1, <1>2, <2>1, CalmAssumption, CalmIsAlone, CalmProofs!WholeStep
  <2>4. CalmProofs!Exact'
    BY <1>1, <1>2, <2>1, <2>2, CalmAssumption, CalmIsAlone, CalmProofs!ExactStep
  <2> QED BY <1>1, <1>2, <2>2, <2>3, <2>4 DEF Emitting
<1>3. CASE at = "killed"
  <2>1. /\ KilledProofs!Typed /\ KilledProofs!Whole
        /\ KilledProofs!Exact /\ KilledProofs!Honest
    BY <1>3 DEF Emitting
  <2>2. KilledProofs!Typed'
    BY <1>1, <1>3, <2>1, KilledAssumption, KilledProofs!TypedStep
  <2>3. KilledProofs!Whole'
    BY <1>1, <1>3, <2>1, KilledAssumption, KilledIsAlone, KilledProofs!WholeStep
  <2>4. KilledProofs!Honest'
    BY <1>1, <1>3, <2>1, <2>2, KilledAssumption, KilledProofs!HonestStep
  <2>5. KilledProofs!Exact'
    BY <1>1, <1>3, <2>1, <2>2, KilledAssumption, KilledIsAlone, KilledProofs!ExactStep
  <2> QED BY <1>1, <1>3, <2>2, <2>3, <2>4, <2>5 DEF Emitting
<1>4. CASE at = "shared"
  <2>1. SharedProofs!Typed /\ SharedProofs!Honest
    BY <1>4 DEF Emitting
  <2>2. SharedProofs!Typed'
    BY <1>1, <1>4, <2>1, SharedAssumption, SharedProofs!TypedStep
  <2>3. SharedProofs!Honest'
    BY <1>1, <1>4, <2>1, <2>2, SharedAssumption, SharedProofs!HonestStep
  <2> QED BY <1>1, <1>4, <2>2, <2>3 DEF Emitting
<1> QED BY <1>1, <1>2, <1>3, <1>4 DEF Emitting

LEMMA EmittingIsEnough == Emitting => EmissionIsExact
<1> SUFFICES ASSUME Emitting PROVE EmissionIsExact
  OBVIOUS
<1>1. ASSUME at = "calm"
      PROVE  Calm!TypeOK /\ Calm!OncePerWindow /\ Calm!HistoryBacksCooldown /\ Calm!Readable
  <2>1. CalmProofs!TypeOK /\ CalmProofs!Readable
    BY <1>1, CalmProofs!TypedIsEnough, CalmProofs!WholeIsEnough DEF Emitting
  <2>2. CalmProofs!OncePerWindow /\ CalmProofs!HistoryBacksCooldown
    BY <1>1, CalmAssumption, CalmIsAlone, CalmProofs!ExactIsEnough DEF Emitting
  <2> QED BY <2>1, <2>2, CalmMeans
<1>2. ASSUME at = "killed"
      PROVE  /\ Killed!TypeOK /\ Killed!OncePerWindow /\ Killed!HistoryBacksCooldown
             /\ Killed!Readable /\ Killed!NotSilenced
  <2>1. KilledProofs!TypeOK /\ KilledProofs!Readable /\ KilledProofs!NotSilenced
    BY <1>2, KilledProofs!TypedIsEnough, KilledProofs!WholeIsEnough,
       KilledProofs!HonestIsEnough DEF Emitting
  <2>2. KilledProofs!OncePerWindow /\ KilledProofs!HistoryBacksCooldown
    BY <1>2, KilledAssumption, KilledIsAlone, KilledProofs!ExactIsEnough DEF Emitting
  <2> QED BY <2>1, <2>2, KilledMeans
<1>3. ASSUME at = "shared" PROVE Shared!TypeOK /\ Shared!NotSilenced
  <2>1. SharedProofs!TypeOK /\ SharedProofs!NotSilenced
    BY <1>3, SharedProofs!TypedIsEnough, SharedProofs!HonestIsEnough DEF Emitting
  <2> QED BY <2>1, SharedMeans
<1> QED BY <1>1, <1>2, <1>3 DEF EmissionIsExact

(* The emission path: a daemon that scans alone, killed or not, whatever fails, *)
(* queues a finding once per window but for a mark it lost, keeps the row       *)
(* behind every cooldown but for a row it lost, and leaves a state file that    *)
(* can be read; and, whoever scans beside it, no finding whose emission raised  *)
(* is under cooldown.                                                        *)
THEOREM EmissionStaysExact == AllSpec => []EmissionIsExact
  BY InitEmitting, EmittingStep, EmittingIsEnough, PTL DEF AllSpec

-----------------------------------------------------------------------------
(* A behaviour of the whole is one of the pages, so that what is proved of them *)
(* holds in it.                                                              *)
LEMMA WholeHasPages == AllSpec => Spec
<1>1. AllInit => Init
  BY Zenon DEF AllInit
<1>2. [AllNext]_allVars => [Next]_vars
  BY Zenon DEF AllNext, allVars
<1> QED BY <1>1, <1>2, PTL DEF AllSpec, Spec
=============================================================================
