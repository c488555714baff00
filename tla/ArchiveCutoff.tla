---------------------------- MODULE ArchiveCutoff ----------------------------
(***************************************************************************)
(* scripts/archive_cutoff.py: the documents of cycles that were completed  *)
(* before a cutoff are moved to archive/<month>/<slug>/, one file at a     *)
(* time, while authors go on writing.  A run reads the report headers,     *)
(* then looks for the documents, then moves them; it may fail or be        *)
(* stopped at any move, and may be repeated.                               *)
(***************************************************************************)
EXTENDS Naturals, FiniteSets, Functions

CONSTANTS
  Slugs,      \* cycles, numbered in the order of their names
  Dates,      \* dates of completion and cutoffs; two of them make a month
  MaxEdits    \* bound of the model: what authors write in all

ArchiveAssumption ==
  Slugs \subseteq Nat /\ Dates \subseteq Nat \ {0} /\ MaxEdits \in Nat

Kinds    == 1 .. 4    \* plan, design, analysis, report: the order of _DOC_LAYOUT
DocNames == Slugs \X Kinds
Statuses == {"completed", "in progress", "incomplete"}
Unparsed == 0
Month(d) == (d + 1) \div 2
Report(s) == <<s, 4>>

VARIABLES
  version,    \* how often each document was written anew
  live,       \* the version in the docs tree, 0 if it is not there
  archive,    \* {[doc, month, version]}: files below docs/archive
  head,       \* header of each report: date and status
  pc, cutoff, metas,  \* a run: its phase, its cutoff, the headers it has read
  todo,       \* the moves of its plan it has still to make: {[doc, month]}
  planned     \* documents some run has meant to move

vars == <<version, live, archive, head, pc, cutoff, metas, todo, planned>>
run  == <<pc, cutoff, metas, todo, planned>>

Init ==
  /\ live \in [DocNames -> {0, 1}] /\ version = live
  /\ archive = {}
  /\ head \in [Slugs -> [date : Dates \cup {Unparsed}, status : Statuses]]
  /\ pc = "idle" /\ cutoff = 0 /\ metas = <<>> /\ todo = {}
  /\ planned = {}

Edits == FoldFunction(+, 0, version)

\* a cycle is started or continued: a document is written, once more if the
\* earlier one has been archived
Write(d) ==
  /\ live[d] = 0 /\ Edits < MaxEdits
  /\ version' = [version EXCEPT ![d] = version[d] + 1]
  /\ live' = [live EXCEPT ![d] = version[d] + 1]
  /\ UNCHANGED <<archive, head, run>>

Rewrite(s) ==
  /\ live[Report(s)] # 0
  /\ \E h \in [date : Dates, status : Statuses] : head' = [head EXCEPT ![s] = h]
  /\ UNCHANGED <<version, live, archive, run>>

-----------------------------------------------------------------------------
(* main *)

\* "complet" occurs in the status
IsCompleted(status) == status \in {"completed", "incomplete"}

\* a date that is given, or so many days before today
compute_cutoff == cutoff' \in Dates

\* discover_cycles; a report that cannot be read has neither date nor status
Discover ==
  /\ pc = "idle" /\ pc' = "plan" /\ compute_cutoff
  /\ \E unreadable \in SUBSET Slugs :
       metas' = [s \in {s \in Slugs : live[Report(s)] # 0} |->
                   IF s \in unreadable THEN [date |-> Unparsed, status |-> "none"]
                                       ELSE head[s]]
  /\ UNCHANGED <<version, live, archive, head, todo, planned>>

\* a plausible bug: a date that cannot be parsed counts as an old one
EligibleUndated(s) ==
  /\ s \in DOMAIN metas /\ IsCompleted(metas[s].status) /\ metas[s].date < cutoff

Eligible(s) ==
  /\ s \in DOMAIN metas /\ IsCompleted(metas[s].status)
  /\ metas[s].date # Unparsed /\ metas[s].date < cutoff

\* find_sibling_docs, with the target each is to be moved to
Siblings(s) == {[doc |-> <<s, k>>, month |-> Month(metas[s].date)] :
                  k \in {k \in Kinds : live[<<s, k>>] # 0}}

BuildPlan ==
  /\ pc = "plan" /\ pc' = "move"
  /\ todo' = UNION {Siblings(s) : s \in {s \in Slugs : Eligible(s)}}
  /\ planned' = planned \cup {m.doc : m \in todo'}
  /\ UNCHANGED <<version, live, archive, head, cutoff, metas>>

Taken(m) == \E a \in archive : a.doc = m.doc /\ a.month = m.month

\* a plausible bug: the report first
ReportFirst(d, e) == d[1] < e[1] \/ (d[1] = e[1] /\ d[2] >= e[2])

\* the order of apply_moves: cycle by cycle, and as in _DOC_LAYOUT
Before(d, e) == d[1] < e[1] \/ (d[1] = e[1] /\ d[2] <= e[2])

\* a plausible bug: the target is not looked at
MoveOver ==
  /\ pc = "move"
  /\ \E m \in todo :
       /\ \A n \in todo : Before(m.doc, n.doc)
       /\ archive' = {a \in archive : ~(a.doc = m.doc /\ a.month = m.month)} \cup
                     {[doc |-> m.doc, month |-> m.month, version |-> live[m.doc]]}
       /\ live' = [live EXCEPT ![m.doc] = 0]
       /\ todo' = todo \ {m}
  /\ UNCHANGED <<version, head, pc, cutoff, metas, planned>>

\* apply_moves, one file; an existing target is left alone and so is its source
Move ==
  /\ pc = "move"
  /\ \E m \in todo :
       /\ \A n \in todo : Before(m.doc, n.doc)
       /\ IF Taken(m) THEN UNCHANGED <<live, archive>>
          ELSE /\ archive' = archive \cup
                    {[doc |-> m.doc, month |-> m.month, version |-> live[m.doc]]}
               /\ live' = [live EXCEPT ![m.doc] = 0]
       /\ todo' = todo \ {m}
  /\ UNCHANGED <<version, head, pc, cutoff, metas, planned>>

\* the run is done, or a move raises, or somebody stops it
End ==
  /\ pc # "idle" /\ pc' = "idle" /\ todo' = {} /\ metas' = <<>> /\ cutoff' = 0
  /\ UNCHANGED <<version, live, archive, head, planned>>

Next ==
  \/ \E d \in DocNames : Write(d)
  \/ \E s \in Slugs : Rewrite(s)
  \/ Discover \/ BuildPlan \/ Move \/ End

Spec == Init /\ [][Next]_vars

-----------------------------------------------------------------------------
TypeOK ==
  /\ version \in [DocNames -> Nat] /\ live \in [DocNames -> Nat]
  /\ \A a \in archive : /\ a.doc \in DocNames /\ a.month \in {Month(d) : d \in Dates}
                        /\ a.version \in 1 .. version[a.doc]
  /\ \A s \in Slugs : head[s].date \in Dates \cup {Unparsed} /\ head[s].status \in Statuses
  /\ pc \in {"idle", "plan", "move"} /\ DOMAIN metas \subseteq Slugs
  /\ planned \subseteq DocNames /\ \A m \in todo : m.doc \in planned

\* Whatever was written is in one place, in the tree or in the archive: a
\* repeated or interrupted run, or a slug used again, overwrites nothing.
NothingIsLost ==
  \A d \in DocNames : \A v \in 1 .. version[d] :
    Cardinality({a \in archive : a.doc = d /\ a.version = v})
      + (IF live[d] = v THEN 1 ELSE 0) = 1

\* A document that a run has meant to move and has not is still found by the
\* next one, because its report moves last; unless an earlier version of it is
\* in the archive, for then what is left may be a cycle that goes on.
NextRunFindsIt ==
  pc = "idle" =>
    \A d \in planned :
      (live[d] # 0 /\ ~\E a \in archive : a.doc = d) => live[Report(d[1])] # 0
=============================================================================
