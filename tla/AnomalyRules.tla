----------------------------- MODULE AnomalyRules -----------------------------
(***************************************************************************)
(* What a scan of the anomaly detector finds (collect_findings in          *)
(* api/anomaly/detector.py, with the pure rules of rules.py): the latest   *)
(* completed day against the mean of the days before it, and the items     *)
(* that are not produced any more.  The ERP enters rows for any day in any *)
(* order.  Percentages are compared in whole numbers; the thresholds come  *)
(* from the environment or, in a preview, from the request.                *)
(***************************************************************************)
EXTENDS Integers, FiniteSets, FiniteSetsExt

CONSTANTS
  Days, Today,     \* the days rows are entered for; date.today()
  Items, Sizes,    \* item codes; the good_quantity of a row
  MaxRows,         \* bound of the model
  Settings,        \* thresholds: [baseline, stale, drop, spike, min]
  Buffer,          \* 7 days for gaps, in lookback_days
  WorseDrop, WorseSpike    \* 25 and 100: percents beyond which it is critical

RulesAssumption ==
  /\ IsFiniteSet(Days) /\ Days \subseteq Nat /\ Today \in Nat
  /\ IsFiniteSet(Items) /\ IsFiniteSet(Sizes) /\ Sizes \subseteq Nat /\ MaxRows \in Nat
  /\ IsFiniteSet(Settings)
  /\ \A s \in Settings : /\ s.baseline \in Nat /\ s.stale \in Nat /\ s.min \in Nat
                         /\ s.drop \in Nat \ {0} /\ s.spike \in Nat \ {0}
  /\ Buffer \in Nat /\ WorseDrop \in Nat /\ WorseSpike \in Nat

VARIABLE rows      \* production_records of the live database, summed up per item and day

vars == <<rows>>

Init == rows = {}

Others(d, x) == {r \in rows : ~(r.day = d /\ r.item = x)}

\* a row is entered or its quantity corrected
Enter(d, x) ==
  \E n \in Sizes : /\ rows' = Others(d, x) \cup {[day |-> d, item |-> x, qty |-> n]}
                   /\ Cardinality(rows') <= MaxRows

Delete(d, x) == rows' = Others(d, x) /\ rows' # rows

Next == \E d \in Days, x \in Items : Enter(d, x) \/ Delete(d, x)

Spec == Init /\ [][Next]_vars

-----------------------------------------------------------------------------
(* collect_findings, volume.  R are the rows it reads, s its thresholds.     *)

AtLeastOne(n) == IF n = 0 THEN 1 ELSE n

\* a plausible bug: no room for days without production
SinceTight(s) == Today - (s.baseline + AtLeastOne(s.stale))

\* a plausible bug: the lookback covers the baseline only
SinceOfBaseline(s) == Today - (s.baseline + 1 + Buffer)

Since(s) == Today - (s.baseline + AtLeastOne(s.stale) + Buffer)

\* a plausible bug: the day that is not over yet counts
CompletedAndToday(R, s) == {r.day : r \in {r \in R : r.day >= Since(s) /\ r.day <= Today}}

\* the completed days that have a row, however small
Completed(R, s) == {r.day : r \in {r \in R : r.day >= Since(s) /\ r.day < Today}}

Total(R, D) == MapThenSumSet(LAMBDA r : r.qty, {r \in R : r.day \in D})

Newest(D, n) == {d \in D : Cardinality({e \in D : e > d}) < n}

\* a plausible bug: the latest day is part of its own baseline
WindowWithLatest(R, s) == Newest(Completed(R, s), s.baseline)

Window(R, s) == Newest(Completed(R, s) \ Newest(Completed(R, s), 1), s.baseline)

\* detect_volume_anomalies: the baseline is sum / n, the change is in percent of
\* sum and times sum, the latest day is the one of last
Judged(s, n, sum, change, last) ==
  LET Finding(kind, critical) ==
        {[kind |-> kind, day |-> d,
          severity |-> IF critical THEN "critical" ELSE "warning"] : d \in last}
  IN IF s.baseline = 0 \/ n = 0 \/ sum = 0 \/ sum < s.min * n THEN {}
     ELSE CASE change <= -(s.drop * sum) ->
                 Finding("volume_drop", change <= -((s.drop + WorseDrop) * sum))
            [] change > -(s.drop * sum) /\ change >= s.spike * sum ->
                 Finding("volume_spike", change >= (s.spike + WorseSpike) * sum)
            [] OTHER -> {}

Volume(R, s) ==
  LET n    == Cardinality(Window(R, s))
      sum  == Total(R, Window(R, s))
      last == Newest(Completed(R, s), 1)
  IN Judged(s, n, sum, 100 * (Total(R, last) * n - sum), last)

(* detect_stale_items: of the items that have a row in the lookback, each    *)
(* with its latest, which may lie in the future.                             *)

Latest(R, s, x) == {r.day : r \in {r \in R : r.item = x /\ r.day >= Since(s)}}

StaleItems(R, s) ==
  {[item |-> x, severity |-> IF Today - Max(Latest(R, s, x)) >= 2 * s.stale
                             THEN "critical" ELSE "warning"] :
     x \in {x \in Items : /\ Latest(R, s, x) # {}
                          /\ Today - Max(Latest(R, s, x)) >= s.stale}}

-----------------------------------------------------------------------------
TypeOK ==
  /\ rows \subseteq [day : Days, item : Items, qty : Sizes]
  /\ Cardinality(rows) <= MaxRows
  /\ \A r, q \in rows : r.day = q.day /\ r.item = q.item => r = q

\* "partial current-day ERP data never triggers a false drop" (comment in
\* collect_findings): the volume finding is the same without the rows of today
\* and of later days.
TodayDoesNotCount ==
  \A s \in Settings : Volume(rows, s) = Volume({r \in rows : r.day < Today}, s)

\* The mean is taken over all the days it is configured for, the ones right
\* before the latest day with production, as long as there are so many and the
\* lookback has room for the days without production that lie between.
BaselineIsFull ==
  \A s \in Settings :
    LET before == {r.day : r \in {r \in rows : r.day < Today}}
        needed == Newest(before, s.baseline + 1)
    IN /\ s.baseline > 0 /\ Cardinality(needed) = s.baseline + 1
       /\ Cardinality((Min(needed) .. Today - 1) \ before) < AtLeastOne(s.stale) + Buffer
       => Window(rows, s) = needed \ {Max(needed)}

\* An item that stops is found stale from the day the threshold names, for as
\* many days as the baseline and its buffer add to the lookback, whichever of
\* the two settings is the larger; and it is critical at twice the threshold.
NoStopIsMissed ==
  \A s \in Settings, x \in {r.item : r \in rows} :
    LET idle == Today - Max({r.day : r \in {r \in rows : r.item = x}})
    IN idle \in s.stale .. s.stale + s.baseline + Buffer =>
         \E f \in StaleItems(rows, s) :
           f.item = x /\ (idle >= 2 * s.stale => f.severity = "critical")

\* A drop that gets deeper stays a drop and does not become less severe, and so
\* does a spike that grows, across the thresholds and the roundness of a mean.
WorseIsNotMilder ==
  \A s \in Settings, r \in rows, n \in Sizes :
    LET changed == (rows \ {r}) \cup {[r EXCEPT !.qty = n]}
    IN r.day \in Newest(Completed(rows, s), 1) =>
         \A f \in Volume(rows, s) :
           (f.kind = "volume_drop" /\ n <= r.qty) \/ (f.kind = "volume_spike" /\ n >= r.qty)
           => \E g \in Volume(changed, s) :
                g.kind = f.kind /\ (f.severity = "critical" => g.severity = "critical")
=============================================================================
