------------------------- MODULE ManagerParts_proofs -------------------------
(***************************************************************************)
(* The manager's side, for any parameters: which backups a cleanup may     *)
(* remove and what is left at rest; who holds the children of the panels;  *)
(* what a kill of a process tree ends; how often the watchers analyze; and *)
(* whether the jobs in config.json stay as they were saved.                *)
(***************************************************************************)
EXTENDS ManagerParts, FiniteSetTheorems, TLAPS

-----------------------------------------------------------------------------
(* The backups *)

\* the runs whose file is not checked yet
Unfinished == {r \in Runs : pc[r] \in {"open", "copy", "verify"}}

\* a file name belongs to one run until it is checked, and to none afterwards
Own ==
  /\ made \subseteq 1 .. clock - 1
  /\ \A r \in Unfinished : name[r] \in 1 .. clock - 1 /\ name[r] \notin made
  /\ \A r, q \in Unfinished : name[r] = name[q] => r = q

\* no file is from the future; a listing knows what it removes
Known ==
  /\ \A n \in Names : mtime[n] <= clock
  /\ \A r \in Runs : to_remove[r] \subseteq made \cup unready

\* the files as new as g that count
AsNew(g) == {n \in made \cup unready : mtime[n] >= mtime[g]} \ {g}

\* a checked file that is gone or will be has Retention others before it
Covered ==
  \A g \in made \ unready :
    g \notin files \/ (\E r \in Runs : g \in to_remove[r]) =>
      Retention <= Cardinality(AsNew(g))

Safe == TypeOK /\ Own /\ Known /\ Covered

-----------------------------------------------------------------------------
\* A finite set of names has a cardinality, and a smaller one no larger.
LEMMA NamesAreFinite ==
  ASSUME NEW S, S \subseteq Names, NEW T, T \subseteq S
  PROVE  IsFiniteSet(S) /\ Cardinality(S) \in Nat /\ Cardinality(T) \in Nat
         /\ Cardinality(T) <= Cardinality(S)
<1>1. IsFiniteSet(Names)
  BY BackupAssumption, FS_Interval DEF Names
<1>2. IsFiniteSet(S)
  BY <1>1, FS_Subset
<1> QED
  BY <1>2, FS_Subset, FS_CardinalityType

\* What covers a file goes on covering it: files are only added to those that
\* count, and none of them gets older.
LEMMA CoverStays ==
  ASSUME TypeOK, TypeOK', made \subseteq made', unready \subseteq unready',
         \A n \in Names : mtime[n] <= mtime'[n],
         NEW g \in Names, mtime'[g] = mtime[g],
         Retention <= Cardinality(AsNew(g))
  PROVE  Retention <= Cardinality(AsNew(g)')
<1>1. AsNew(g) \subseteq AsNew(g)'
  BY DEF AsNew, TypeOK
<1>2. AsNew(g)' \subseteq Names
  BY DEF AsNew, TypeOK
<1>3. /\ Cardinality(AsNew(g)) \in Nat /\ Cardinality(AsNew(g)') \in Nat
      /\ Cardinality(AsNew(g)) <= Cardinality(AsNew(g)')
  BY <1>1, <1>2, NamesAreFinite
<1> QED
  BY <1>3, BackupAssumption

\* a step that makes no checked file older and threatens none that was safe
NoThreat ==
  /\ made \subseteq made' /\ unready \subseteq unready'
  /\ \A n \in Names : mtime[n] <= mtime'[n]
  /\ \A g \in made : mtime'[g] = mtime[g]
  /\ \A g \in made' \ unready' :
       g \notin files' \/ (\E r \in Runs : g \in to_remove'[r]) =>
         g \in made /\ (g \notin files \/ \E r \in Runs : g \in to_remove[r])

\* After such a step every checked file is still covered.
LEMMA CoveredStep ==
  ASSUME Safe, TypeOK', NoThreat
  PROVE  Covered'
<1> USE DEF NoThreat
<1> SUFFICES ASSUME NEW g \in made' \ unready',
                    g \notin files' \/ (\E r \in Runs : g \in to_remove'[r])
             PROVE  Retention <= Cardinality(AsNew(g)')
  BY DEF Covered, AsNew
<1>1. g \in made \ unready /\ g \in Names /\ mtime'[g] = mtime[g]
  BY DEF Safe, TypeOK
<1>2. Retention <= Cardinality(AsNew(g))
  BY <1>1 DEF Safe, Covered
<1> QED
  BY <1>1, <1>2, CoverStays DEF Safe

-----------------------------------------------------------------------------
THEOREM SafeInit == Init => Safe
BY BackupAssumption DEF Init, Safe, TypeOK, Own, Unfinished, Known, Covered, Names

\* A listing keeps Retention files, all as new as the ones it dooms.
LEMMA ListKeepsSafe ==
  ASSUME Safe, NEW r \in Runs, List(r)
  PROVE  Safe'
<1> USE DEF Safe, Goto
<1>1. TypeOK'
  BY DEF TypeOK, List, Kept
<1>2. Own'
  BY DEF Own, Unfinished, List, TypeOK
<1>3. CASE Cardinality(files) <= Retention
  <2>1. Known'
    BY <1>3 DEF Known, List, TypeOK
  <2>2. Covered'
    <3>1. NoThreat
      BY <1>1, <1>3, BackupAssumption DEF NoThreat, List, TypeOK, Names
    <3> QED
      BY <3>1, <1>1, CoveredStep
  <2> QED
    BY <1>1, <1>2, <2>1, <2>2
<1>4. CASE ~(Cardinality(files) <= Retention)
  <2>1. PICK kept \in Kept :
           /\ to_remove' = [to_remove EXCEPT ![r] = files \ kept]
           /\ unready' = unready \cup (files \ made)
    BY <1>4 DEF List
  <2>2. made' = made /\ files' = files /\ mtime' = mtime /\ clock' = clock
    BY DEF List
  <2>3. Known'
    BY <2>1, <2>2 DEF Known, TypeOK
  <2>4. SUFFICES ASSUME NEW g \in made \ unready',
                        g \notin files \/ (\E q \in Runs : g \in to_remove'[q])
                 PROVE  Retention <= Cardinality(AsNew(g)')
    BY <1>1, <1>2, <2>2, <2>3 DEF Covered, AsNew
  <2>5. g \in Names /\ g \in made \ unready
    BY <2>1 DEF TypeOK
  <2>6. CASE g \in files \ kept
    <3>1. /\ kept \subseteq files /\ Cardinality(kept) = Retention
          /\ \A k \in kept : mtime[k] >= mtime[g]
      BY <2>6 DEF Kept, NewestOf
    <3>2. kept \subseteq AsNew(g)' /\ AsNew(g)' \subseteq Names
      BY <1>1, <2>1, <2>2, <2>6, <3>1 DEF AsNew, TypeOK
    <3> QED
      BY <3>1, <3>2, NamesAreFinite
  <2>7. CASE g \notin files \ kept
    <3>1. g \notin files \/ \E q \in Runs : g \in to_remove[q]
      BY <2>1, <2>4, <2>7 DEF TypeOK
    <3>2. Retention <= Cardinality(AsNew(g))
      BY <2>5, <3>1 DEF Covered
    <3> QED
      BY <1>1, <2>1, <2>2, <2>5, <3>2, CoverStays DEF TypeOK
  <2> QED
    BY <2>6, <2>7
<1> QED
  BY <1>3, <1>4

\* Every other step leaves a checked file where it is, unless it was doomed.
LEMMA StepKeepsSafe ==
  ASSUME Safe, [Next]_vars
  PROVE  Safe'
<1> USE DEF Safe, Goto
<1>1. ASSUME NEW r \in Runs, Start(r)
      PROVE  Safe'
  <2>1. TypeOK'
    BY <1>1, BackupAssumption DEF TypeOK, Start, Names
  <2>2. Own'
    BY <1>1 DEF Own, Unfinished, TypeOK, Start
  <2>3. Known'
    BY <1>1, BackupAssumption DEF Known, TypeOK, Start, Names
  <2>4. Covered'
    <3>1. NoThreat
      BY <1>1, <2>1, BackupAssumption DEF NoThreat, Start, TypeOK, Names
    <3> QED
      BY <3>1, <2>1, CoveredStep
  <2> QED
    BY <2>1, <2>2, <2>3, <2>4
<1>2. ASSUME NEW r \in Runs, CopyBegins(r)
      PROVE  Safe'
  <2>1. r \in Unfinished /\ name[r] \in Names /\ name[r] \notin made
    BY <1>2 DEF CopyBegins, Unfinished, Own, TypeOK, Names
  <2>2. TypeOK'
    <3>1. files' \subseteq Names /\ mtime' \in [Names -> 0 .. MaxClock + 1]
      BY <1>2, <2>1 DEF TypeOK, CopyBegins
    <3> QED
      BY <1>2, <3>1 DEF TypeOK, CopyBegins
  <2>3. Own'
    BY <1>2 DEF Own, Unfinished, TypeOK, CopyBegins
  <2>4. Known'
    BY <1>2, <2>1 DEF Known, TypeOK, CopyBegins, Names
  <2>5. Covered'
    <3>1. NoThreat
      BY <1>2, <2>1, <2>2, BackupAssumption DEF NoThreat, CopyBegins, TypeOK, Names, Known
    <3> QED
      BY <3>1, <2>2, CoveredStep
  <2> QED
    BY <2>2, <2>3, <2>4, <2>5
<1>3. ASSUME NEW r \in Runs, CopyEnds(r)
      PROVE  Safe'
  <2>1. r \in Unfinished /\ name[r] \in Names /\ name[r] \notin made
    BY <1>3 DEF CopyEnds, Unfinished, Own, TypeOK, Names
  <2>2. TypeOK'
    BY <1>3, <2>1 DEF TypeOK, CopyEnds, Names
  <2>3. Own'
    BY <1>3 DEF Own, Unfinished, TypeOK, CopyEnds
  <2>4. Known'
    BY <1>3, <2>1 DEF Known, TypeOK, CopyEnds, Names
  <2>5. Covered'
    <3>1. NoThreat
      BY <1>3, <2>1, <2>2, BackupAssumption DEF NoThreat, CopyEnds, TypeOK, Names, Known
    <3> QED
      BY <3>1, <2>2, CoveredStep
  <2> QED
    BY <2>2, <2>3, <2>4, <2>5
<1>4. ASSUME NEW r \in Runs, CopyFails(r) \/ VerifyFails(r)
      PROVE  Safe'
  <2>1. /\ pc[r] \in {"open", "copy", "verify"} /\ pc' = [pc EXCEPT ![r] = "idle"]
        /\ files' \in {files, files \ {name[r]}} /\ faults' \in 0 .. MaxFaults
        /\ UNCHANGED <<clock, mtime, name, to_remove, made, unready, crashes>>
    BY <1>4, BackupAssumption DEF CopyFails, VerifyFails, Unlink, TypeOK
  <2>2. r \in Unfinished /\ name[r] \notin made
    BY <2>1 DEF Unfinished, Own
  <2>3. TypeOK'
    BY <2>1 DEF TypeOK
  <2>4. Own'
    BY <2>1 DEF Own, Unfinished, TypeOK
  <2>5. Known'
    BY <2>1 DEF Known, TypeOK
  <2>6. Covered'
    <3>1. NoThreat
      BY <2>1, <2>2, <2>3, BackupAssumption DEF NoThreat, TypeOK, Names
    <3> QED
      BY <3>1, <2>3, CoveredStep
  <2> QED
    BY <2>3, <2>4, <2>5, <2>6
<1>5. ASSUME NEW r \in Runs, VerifyPasses(r)
      PROVE  Safe'
  <2>1. r \in Unfinished /\ name[r] \in 1 .. clock - 1 /\ name[r] \in Names
    BY <1>5 DEF VerifyPasses, Unfinished, Own, TypeOK, Names
  <2>2. TypeOK'
    BY <1>5, <2>1 DEF TypeOK, VerifyPasses
  <2>3. Own'
    BY <1>5, <2>1 DEF Own, Unfinished, TypeOK, VerifyPasses
  <2>4. Known'
    BY <1>5 DEF Known, TypeOK, VerifyPasses
  <2>5. Covered'
    <3>1. NoThreat
      BY <1>5, <2>1, <2>2, BackupAssumption DEF NoThreat, VerifyPasses, TypeOK, Names, Known
    <3> QED
      BY <3>1, <2>2, CoveredStep
  <2> QED
    BY <2>2, <2>3, <2>4, <2>5
<1>6. ASSUME NEW r \in Runs, CleanupOnly(r) \/ ListFails(r) \/ Kill(r)
      PROVE  Safe'
  <2>1. /\ pc' \in {[pc EXCEPT ![r] = "list"], [pc EXCEPT ![r] = "idle"]}
        /\ to_remove' \in {to_remove, [to_remove EXCEPT ![r] = {}]}
        /\ faults' \in 0 .. MaxFaults /\ crashes' \in 0 .. MaxCrashes
        /\ UNCHANGED <<clock, files, mtime, name, made, unready>>
    BY <1>6, BackupAssumption DEF CleanupOnly, ListFails, Kill, TypeOK
  <2>2. TypeOK'
    BY <2>1 DEF TypeOK
  <2>3. Own'
    BY <2>1 DEF Own, Unfinished, TypeOK
  <2>4. Known'
    BY <2>1 DEF Known, TypeOK
  <2>5. Covered'
    <3>0. \A q \in Runs : to_remove'[q] \subseteq to_remove[q]
      BY <2>1 DEF TypeOK
    <3>1. NoThreat
      BY <3>0, <2>1, <2>2, BackupAssumption DEF NoThreat, TypeOK, Names
    <3> QED
      BY <3>1, <2>2, CoveredStep
  <2> QED
    BY <2>2, <2>3, <2>4, <2>5
<1>7. ASSUME NEW r \in Runs, Remove(r)
      PROVE  Safe'
  <2>1. PICK n \in to_remove[r] :
          /\ files' \in {files, files \ {n}} /\ faults' \in 0 .. MaxFaults
          /\ to_remove' = [to_remove EXCEPT ![r] = @ \ {n}]
          /\ pc' \in {[pc EXCEPT ![r] = "idle"], [pc EXCEPT ![r] = "remove"]}
          /\ UNCHANGED <<clock, mtime, name, made, unready, crashes>>
    <3>1. PICK n \in to_remove[r] :
            /\ Unlink(n)
            /\ to_remove' = [to_remove EXCEPT ![r] = @ \ {n}]
            /\ pc' = [pc EXCEPT ![r] = IF to_remove[r] = {n} THEN "idle" ELSE "remove"]
      BY <1>7 DEF Remove
    <3>2. UNCHANGED <<clock, mtime, name, made, unready, crashes>>
      BY <1>7 DEF Remove
    <3>3. files' \in {files, files \ {n}} /\ faults' \in 0 .. MaxFaults
      BY <3>1, BackupAssumption DEF Unlink, TypeOK
    <3> QED
      BY <3>1, <3>2, <3>3
  <2>2. TypeOK'
    BY <2>1 DEF TypeOK
  <2>3. Own'
    BY <2>1 DEF Own, Unfinished, TypeOK
  <2>4. Known'
    BY <2>1 DEF Known, TypeOK
  <2>5. Covered'
    <3>1. NoThreat
      BY <2>1, <2>2, BackupAssumption DEF NoThreat, TypeOK, Names
    <3> QED
      BY <3>1, <2>2, CoveredStep
  <2> QED
    BY <2>2, <2>3, <2>4, <2>5
<1>8. CASE UNCHANGED vars
  BY <1>8 DEF vars, TypeOK, Own, Unfinished, Known, Covered, AsNew
<1> QED
  BY <1>1, <1>2, <1>3, <1>4, <1>5, <1>6, <1>7, <1>8, ListKeepsSafe DEF Next

\* The retention policy of tools/backup_db.py: a checked backup is removed only
\* when as many as are to be kept are as new, whatever runs overlap, fail or are
\* killed; files that a listing met before they were checked are the exception.
THEOREM BackupsAreKept == Spec => []NewestAreKept
<1>1. Safe => NewestAreKept
  BY DEF Safe, Covered, NewestAreKept, AsNew
<1> QED
  BY <1>1, SafeInit, StepKeepsSafe, PTL DEF Spec

-----------------------------------------------------------------------------
(* What is left when nothing went wrong.                                     *)

\* the files no listing has still to judge: neither doomed nor unchecked
Settled ==
  {n \in files : /\ \A r \in Runs : n \notin to_remove[r]
                 /\ \A r \in Unfinished : name[r] # n}

Smooth == faults = 0 /\ crashes = 0

NoListing == \A r \in Runs : pc[r] # "list"

\* every file is checked or being made, and the last listing left no more than
\* Retention of the settled ones
Tidy ==
  Smooth => /\ \A n \in files \ made : \E r \in Unfinished : name[r] = n
            /\ \A r \in Runs : pc[r] # "remove" => to_remove[r] = {}
            /\ NoListing => Cardinality(Settled) <= Retention

LEMMA FewerSettled ==
  ASSUME TypeOK, TypeOK', NoListing => Cardinality(Settled) <= Retention,
         NoListing' => NoListing, Settled' \subseteq Settled
  PROVE  NoListing' => Cardinality(Settled') <= Retention
<1>1. Settled \subseteq Names
  BY DEF Settled, TypeOK
<1>2. /\ Cardinality(Settled) \in Nat /\ Cardinality(Settled') \in Nat
      /\ Cardinality(Settled') <= Cardinality(Settled)
  BY <1>1, NamesAreFinite
<1> QED
  BY <1>2, BackupAssumption

LEMMA ListKeepsTidy ==
  ASSUME Safe, Tidy, NEW r \in Runs, List(r), Safe'
  PROVE  Tidy'
<1> SUFFICES ASSUME Smooth'
             PROVE  /\ \A n \in files' \ made' : \E q \in Unfinished' : name'[q] = n
                    /\ \A q \in Runs : pc'[q] # "remove" => to_remove'[q] = {}
                    /\ NoListing' => Cardinality(Settled') <= Retention
  BY DEF Tidy
<1>1. Smooth /\ Unfinished' = Unfinished
  BY DEF Smooth, List, Goto, Unfinished, Safe, TypeOK
<1>2. CASE Cardinality(files) <= Retention
  <2>1. Settled' \subseteq files /\ files \subseteq Names
    BY DEF Settled, List, Safe, TypeOK
  <2>2. Cardinality(Settled') <= Retention
    BY <1>2, <2>1, NamesAreFinite, BackupAssumption
  <2> QED
    BY <1>1, <1>2, <2>2 DEF List, Goto, Tidy, Safe, TypeOK
<1>3. CASE ~(Cardinality(files) <= Retention)
  <2>1. PICK kept \in Kept : to_remove' = [to_remove EXCEPT ![r] = files \ kept]
    BY <1>3 DEF List
  <2>2. /\ pc' = [pc EXCEPT ![r] = "remove"]
        /\ UNCHANGED <<files, made, name>>
    BY <1>3 DEF List, Goto
  <2>3. kept \subseteq files /\ Cardinality(kept) = Retention /\ files \subseteq Names
    BY DEF Kept, Safe, TypeOK
  <2>4. Settled' \subseteq kept
    BY <2>1, <2>2 DEF Settled, Safe, TypeOK
  <2>5. Cardinality(Settled') <= Retention
    BY <2>3, <2>4, NamesAreFinite
  <2> QED
    BY <1>1, <2>1, <2>2, <2>5 DEF Tidy, Safe, TypeOK
<1> QED
  BY <1>2, <1>3

\* A step of a run that goes on, where nothing is refused, leaves no more files
\* settled than before, unless it makes a run list.
LEMMA StepKeepsTidy ==
  ASSUME Safe, Tidy, [Next]_vars, Safe'
  PROVE  Tidy'
<1> SUFFICES ASSUME Smooth'
             PROVE  Tidy'
  BY DEF Tidy
<1>0. /\ faults \in Nat /\ crashes \in Nat /\ TypeOK /\ TypeOK'
  BY BackupAssumption DEF Safe, TypeOK
<1>1. ASSUME NEW r \in Runs, Start(r)
      PROVE  Tidy'
  <2>1. Smooth /\ (NoListing' => NoListing) /\ Settled' \subseteq Settled
    BY <1>0, <1>1 DEF Start, Goto, Smooth, NoListing, Settled, Unfinished, TypeOK
  <2>2. \A n \in files' \ made' : \E q \in Unfinished' : name'[q] = n
    BY <1>0, <1>1, <2>1 DEF Start, Goto, Tidy, Unfinished, TypeOK
  <2>3. \A q \in Runs : pc'[q] # "remove" => to_remove'[q] = {}
    BY <1>0, <1>1, <2>1 DEF Start, Goto, Tidy, TypeOK
  <2> QED
    BY <1>0, <2>1, <2>2, <2>3, FewerSettled DEF Tidy
<1>2. ASSUME NEW r \in Runs, CopyBegins(r) \/ CopyEnds(r)
      PROVE  Tidy'
  <2>0. /\ pc' \in {[pc EXCEPT ![r] = "copy"], [pc EXCEPT ![r] = "verify"]}
        /\ files' \in {files, files \cup {name[r]}} /\ r \in Unfinished
        /\ UNCHANGED <<name, to_remove, made, faults, crashes>>
    BY <1>2 DEF CopyBegins, CopyEnds, Goto, Unfinished
  <2>1. Smooth /\ Unfinished' = Unfinished /\ (NoListing' => NoListing)
    BY <1>0, <2>0 DEF Smooth, NoListing, Unfinished, TypeOK
  <2>2. Settled' \subseteq Settled
    BY <1>0, <2>0, <2>1 DEF Settled, TypeOK
  <2>3. \A n \in files' \ made' : \E q \in Unfinished' : name'[q] = n
    BY <1>0, <2>0, <2>1 DEF Tidy
  <2>4. \A q \in Runs : pc'[q] # "remove" => to_remove'[q] = {}
    BY <1>0, <2>0, <2>1 DEF Tidy, TypeOK, Unfinished
  <2> QED
    BY <1>0, <2>1, <2>2, <2>3, <2>4, FewerSettled DEF Tidy
<1>3. ASSUME NEW r \in Runs, CopyFails(r) \/ VerifyFails(r)
      PROVE  Tidy'
  <2>0. /\ pc' = [pc EXCEPT ![r] = "idle"] /\ r \in Unfinished
        /\ files' = files \ {name[r]}
        /\ UNCHANGED <<name, to_remove, made, faults, crashes>>
    BY <1>0, <1>3 DEF CopyFails, VerifyFails, Unlink, Goto, Unfinished, Smooth
  <2>1. /\ Smooth /\ Unfinished' = Unfinished \ {r} /\ (NoListing' => NoListing)
    BY <1>0, <2>0 DEF Smooth, NoListing, Unfinished, TypeOK
  <2>2. Settled' \subseteq Settled
    BY <1>0, <2>0, <2>1 DEF Settled, TypeOK
  <2>3. \A n \in files' \ made' : \E q \in Unfinished' : name'[q] = n
    BY <1>0, <2>0, <2>1 DEF Tidy
  <2>4. \A q \in Runs : pc'[q] # "remove" => to_remove'[q] = {}
    BY <1>0, <2>0, <2>1 DEF Tidy, TypeOK, Unfinished
  <2> QED
    BY <1>0, <2>1, <2>2, <2>3, <2>4, FewerSettled DEF Tidy
<1>4. ASSUME NEW r \in Runs, VerifyPasses(r)
      PROVE  Tidy'
  <2>1. /\ pc' = [pc EXCEPT ![r] = "list"] /\ made' = made \cup {name[r]}
        /\ UNCHANGED <<files, name, to_remove, faults, crashes>> /\ r \in Unfinished
    BY <1>4 DEF VerifyPasses, Goto, Unfinished
  <2>2. Smooth /\ ~NoListing' /\ Unfinished' = Unfinished \ {r}
    BY <1>0, <2>1 DEF Smooth, NoListing, Unfinished, TypeOK
  <2> QED
    BY <1>0, <2>1, <2>2 DEF Tidy, TypeOK, Unfinished
<1>5. ASSUME NEW r \in Runs, CleanupOnly(r)
      PROVE  Tidy'
  <2>1. /\ pc' = [pc EXCEPT ![r] = "list"] /\ pc[r] = "idle"
        /\ UNCHANGED <<files, name, made, to_remove, faults, crashes>>
    BY <1>5 DEF CleanupOnly, Goto
  <2>2. Smooth /\ ~NoListing' /\ Unfinished' = Unfinished
    BY <1>0, <2>1 DEF Smooth, NoListing, Unfinished, TypeOK
  <2> QED
    BY <1>0, <2>1, <2>2 DEF Tidy, TypeOK
<1>6. ASSUME NEW r \in Runs, ListFails(r) \/ Kill(r)
      PROVE  Tidy'
  BY <1>0, <1>6 DEF ListFails, Kill, Smooth
<1>7. ASSUME NEW r \in Runs, Remove(r)
      PROVE  Tidy'
  <2>0. PICK n \in to_remove[r] :
          /\ Unlink(n) /\ to_remove' = [to_remove EXCEPT ![r] = @ \ {n}]
          /\ pc' = [pc EXCEPT ![r] = IF to_remove[r] = {n} THEN "idle" ELSE "remove"]
    BY <1>7 DEF Remove, Goto
  <2>1. files' = files \ {n}
    BY <1>0, <2>0 DEF Unlink, Smooth
  <2>2. UNCHANGED <<name, made, faults, crashes>> /\ pc[r] = "remove"
    BY <1>0, <1>7, <2>0 DEF Remove, Unlink, Goto, Smooth
  <2>3. Smooth /\ Unfinished' = Unfinished /\ (NoListing' => NoListing)
    BY <1>0, <2>0, <2>2 DEF Smooth, NoListing, Unfinished, TypeOK
  <2>4. Settled' \subseteq Settled
    BY <1>0, <2>0, <2>1, <2>2, <2>3 DEF Settled, TypeOK
  <2>5. \A m \in files' \ made' : \E q \in Unfinished' : name'[q] = m
    BY <2>1, <2>2, <2>3 DEF Tidy
  <2>6. \A q \in Runs : pc'[q] # "remove" => to_remove'[q] = {}
    BY <1>0, <2>0, <2>2, <2>3 DEF Tidy, TypeOK
  <2> QED
    BY <1>0, <2>3, <2>4, <2>5, <2>6, FewerSettled DEF Tidy
<1>8. CASE UNCHANGED vars
  BY <1>8 DEF vars, Tidy, Smooth, NoListing, Settled, Unfinished
<1> QED
  BY <1>1, <1>2, <1>3, <1>4, <1>5, <1>6, <1>7, <1>8, ListKeepsTidy DEF Next

\* Runs that overlap and fail, but are not killed and whose unlinks are not
\* refused, leave checked backups only, and no more than are to be kept.
THEOREM RestIsTidy == Spec => []OnlyGoodOnesAtRest
<1>1. Init => Tidy
  <2> SUFFICES ASSUME Init PROVE Tidy
    OBVIOUS
  <2>1. Settled = {}
    BY DEF Init, Settled
  <2>2. Cardinality(Settled) = 0
    BY <2>1, FS_EmptySet
  <2> QED
    BY <2>2, BackupAssumption DEF Init, Tidy
<1>2. Safe /\ Tidy => OnlyGoodOnesAtRest
  <2> SUFFICES ASSUME Safe, Tidy, Smooth, \A r \in Runs : pc[r] = "idle"
               PROVE  files \subseteq made /\ Cardinality(files) <= Retention
    BY DEF OnlyGoodOnesAtRest, Smooth
  <2>1. Unfinished = {} /\ NoListing /\ \A r \in Runs : to_remove[r] = {}
    BY DEF Unfinished, NoListing, Tidy
  <2>2. Settled = files
    BY <2>1 DEF Settled
  <2> QED
    BY <2>1, <2>2 DEF Tidy
<1> QED
  BY <1>1, <1>2, SafeInit, StepKeepsSafe, StepKeepsTidy, PTL DEF Spec

-----------------------------------------------------------------------------
(* The panels *)

\* what a monitor is: where it stands, and the process it waits on
Monitors == [pc : {"none", "look", "fetch", "wait", "post", "end"},
             on : ChildProcs \cup {NoProc}]

\* the manager leaves through two stops, and in the second the API is stopped
Leaving ==
  /\ app # "open" => (app = "gone" <=> main = Panels!Free)
  /\ app = "leaving" /\ main.panel = "portal" => process["api"] = NoProc

\* beside the property: a panel has only processes that were started
Held ==
  /\ EveryChildIsHeld /\ Leaving
  /\ monitor \in [ChildProcs -> Monitors]
  /\ \A q \in Panels!Panels : process[q] # NoProc => born[process[q]] # "none"

\* A start gives the panel a process of its own mode and tells the exit hook,
\* if the panel's last process has ended; what the monitors wait on stays born.
LEMMA SpawnIsHeld ==
  ASSUME Held, NEW q \in Panels!Panels, ~Panels!IsRunning(q),
         NEW p \in Panels!Unborn, NEW mode \in {"api", "schedule", "shot"},
         (mode = "api") <=> (q = "api"),
         Panels!Ready, app' = app, main' = main, port' = port, resets' = resets,
         denied' = denied,
         shown' \in [Panels!Panels -> {"stopped", "running", "shot", "failed"}],
         \/ monitor' = monitor
         \/ monitor' = [monitor EXCEPT ![p] = [pc |-> "look", on |-> NoProc]],
         Panels!Spawn(q, p, mode)
  PROVE  Held'
<1> USE PanelsAssumption DEF Panels!ProcsAssumption
<1>0. /\ p \in ChildProcs /\ born[p] = "none" /\ Held
      /\ born' = [born EXCEPT ![p] = mode] /\ alive' = alive \cup {p}
      /\ registered' = registered \cup {p} /\ process' = [process EXCEPT ![q] = p]
  BY DEF Panels!Unborn, Panels!Spawn
<1>1. Panels!Unborn' \subseteq Panels!Unborn
  BY <1>0 DEF Held, EveryChildIsHeld, Panels!TypeOK, Panels!Unborn
<1>2. monitor' \in [ChildProcs -> Monitors]
  BY <1>0 DEF Held, Monitors
<1>3. \A m \in ChildProcs : monitor'[m].pc = "wait" => monitor'[m] = monitor[m]
  BY <1>0 DEF Held, Monitors
<1>4. Panels!TypeOK' /\ Leaving'
  BY <1>0, <1>1, <1>2, <1>3
  DEF Held, EveryChildIsHeld, Panels!TypeOK, Monitors, Panels!Ready, Leaving
<1>5. Panels!OneChildPerPanel'
  <2> SUFFICES ASSUME NEW c \in alive'
               PROVE  \E r \in Panels!Panels :
                        /\ process'[r] = c
                        /\ born'[c] \in (IF r = "api" THEN {"api"} ELSE {"schedule", "shot"})
    BY DEF Panels!OneChildPerPanel
  <2>1. CASE c = p
    BY <2>1, <1>0 DEF Held, EveryChildIsHeld, Panels!TypeOK
  <2>2. CASE c # p
    <3>1. PICK r \in Panels!Panels :
            /\ process[r] = c
            /\ born[c] \in (IF r = "api" THEN {"api"} ELSE {"schedule", "shot"})
      BY <2>2, <1>0 DEF Held, EveryChildIsHeld, Panels!OneChildPerPanel
    <3>2. r # q /\ c \in ChildProcs
      BY <3>1, <2>2, <1>0 DEF Panels!IsRunning, Held, EveryChildIsHeld, Panels!TypeOK
    <3> QED
      BY <3>1, <3>2, <2>2, <1>0 DEF Held, EveryChildIsHeld, Panels!TypeOK
  <2> QED
    BY <2>1, <2>2
<1>6. Panels!ExitReachesAll'
  BY <1>0 DEF Held, EveryChildIsHeld, Panels!ExitReachesAll, Panels!Ready
<1>7. \A r \in Panels!Panels : process'[r] # NoProc => born'[process'[r]] # "none"
  <2> SUFFICES ASSUME NEW r \in Panels!Panels, process'[r] # NoProc
               PROVE  born'[process'[r]] # "none"
    OBVIOUS
  <2>1. CASE r = q
    BY <2>1, <1>0 DEF Held, EveryChildIsHeld, Panels!TypeOK
  <2>2. CASE r # q
    BY <2>2, <1>0 DEF Held, EveryChildIsHeld, Panels!TypeOK
  <2> QED
    BY <2>1, <2>2
<1> QED
  BY <1>2, <1>4, <1>5, <1>6, <1>7 DEF Held, EveryChildIsHeld

\* Processes may end, and a panel may be cleared once its process has: those
\* that are left are held as before.
LEMMA EndedIsHeld ==
  ASSUME Held, alive' \subseteq alive, born' = born, registered' \subseteq registered,
         denied' \subseteq alive', Panels!ExitReachesAll',
         app' \in {"open", "leaving", "gone"}, Leaving',
         main' \in {Panels!Free} \cup [panel : Panels!Panels, found : BOOLEAN],
         resets' \subseteq ChildProcs,
         port' \in ChildProcs \cup {NoProc, Foreign},
         shown' \in [Panels!Panels -> {"stopped", "running", "shot", "failed"}],
         process' \in [Panels!Panels -> ChildProcs \cup {NoProc}],
         \A q \in Panels!Panels :
           process'[q] = process[q] \/ (process'[q] = NoProc /\ process[q] \notin alive'),
         monitor' \in [ChildProcs -> Monitors],
         \A m \in ChildProcs : monitor'[m].pc = "wait" =>
           monitor'[m].on \in ChildProcs \ Panels!Unborn
  PROVE  Held'
<1>1. Panels!Unborn' = Panels!Unborn
  BY DEF Panels!Unborn
<1>2. Panels!TypeOK'
  BY <1>1 DEF Held, EveryChildIsHeld, Panels!TypeOK, Monitors
<1>3. Panels!OneChildPerPanel'
  BY DEF Held, EveryChildIsHeld, Panels!OneChildPerPanel
<1>4. \A q \in Panels!Panels : process'[q] # NoProc => born'[process'[q]] # "none"
  BY DEF Held
<1> QED
  BY <1>2, <1>3, <1>4 DEF Held, EveryChildIsHeld

LEMMA PanelsStep == Held /\ [Panels!Next]_(Panels!vars) => Held'
<1> SUFFICES ASSUME Held, [Panels!Next]_(Panels!vars)
             PROVE  Held'
  OBVIOUS
<1> USE PanelsAssumption DEF Panels!ProcsAssumption
<1>0. /\ app \in {"open", "leaving", "gone"}
      /\ main \in {Panels!Free} \cup [panel : Panels!Panels, found : BOOLEAN]
      /\ denied \subseteq alive /\ Leaving
      /\ process \in [Panels!Panels -> ChildProcs \cup {NoProc}]
      /\ shown \in [Panels!Panels -> {"stopped", "running", "shot", "failed"}]
      /\ (\A p \in alive \ (registered \cup denied) :
             main # Panels!Free /\ process[main.panel] = p)
      /\ (app = "gone" => alive = {})
      /\ resets \subseteq ChildProcs /\ port \in ChildProcs \cup {NoProc, Foreign}
      /\ monitor \in [ChildProcs -> Monitors]
      /\ \A m \in ChildProcs : monitor[m].pc = "wait" =>
           monitor[m].on \in ChildProcs \ Panels!Unborn
      /\ Panels!Panels = {"api", "portal"}
      /\ \A q \in Panels!Panels, text \in {"stopped", "running", "shot", "failed"} :
           Panels!Show(q, text) =>
             shown' \in [Panels!Panels -> {"stopped", "running", "shot", "failed"}]
  BY DEF Held, EveryChildIsHeld, Panels!TypeOK, Panels!ExitReachesAll, Panels!Show, Panels!Panels
<1>1. ASSUME NEW q \in Panels!Panels, Panels!SpawnFails(q),
             UNCHANGED <<app, main, port, monitor, resets, denied>>
      PROVE  Held'
  <2>1. shown' \in [Panels!Panels -> {"stopped", "running", "shot", "failed"}]
    BY <1>0, <1>1 DEF Panels!SpawnFails
  <2>2. UNCHANGED <<born, alive, registered, process>>
    BY <1>1 DEF Panels!SpawnFails
  <2>3. Panels!ExitReachesAll' /\ Leaving'
    BY <1>0, <1>1, <2>2 DEF Panels!ExitReachesAll, Leaving
  <2> QED
    BY <1>0, <1>1, <2>1, <2>2, <2>3, EndedIsHeld
<1>2. CASE Panels!StartApi
  <2>1. CASE Panels!SpawnFails("api")
    BY <1>0, <1>1, <1>2, <2>1 DEF Panels!StartApi
  <2>2. CASE ~Panels!SpawnFails("api")
    <3>1. Panels!Show("api", "running") /\ ~Panels!IsRunning("api") /\ Panels!Ready
          /\ UNCHANGED <<app, main, port, monitor, resets, denied>>
      BY <1>2, <2>2 DEF Panels!StartApi
    <3>2. PICK p \in Panels!Unborn : Panels!Spawn("api", p, "api")
      BY <1>2, <2>2 DEF Panels!StartApi, Panels!Fresh
    <3> QED
      BY <1>0, <3>1, <3>2, SpawnIsHeld
  <2> QED
    BY <2>1, <2>2
<1>3. CASE Panels!StartPortal
  <2>1. CASE Panels!SpawnFails("portal")
    BY <1>0, <1>1, <1>3, <2>1 DEF Panels!StartPortal
  <2>2. CASE ~Panels!SpawnFails("portal")
    <3>1. Panels!Show("portal", "running") /\ ~Panels!IsRunning("portal") /\ Panels!Ready
          /\ UNCHANGED <<app, main, port, monitor, resets, denied>>
      BY <1>3, <2>2 DEF Panels!StartPortal
    <3>2. PICK p \in Panels!Unborn : Panels!Spawn("portal", p, "schedule")
      BY <1>3, <2>2 DEF Panels!StartPortal, Panels!Fresh
    <3> QED
      BY <1>0, <3>1, <3>2, SpawnIsHeld
  <2> QED
    BY <2>1, <2>2
<1>4. CASE Panels!RunPortalNow
  <2>1. CASE Panels!SpawnFails("portal") /\ UNCHANGED monitor
    BY <1>0, <1>1, <1>4, <2>1 DEF Panels!RunPortalNow
  <2>2. CASE ~(Panels!SpawnFails("portal") /\ UNCHANGED monitor)
    <3>1. Panels!Show("portal", "shot") /\ ~Panels!IsRunning("portal") /\ Panels!Ready
          /\ UNCHANGED <<app, main, port, resets, denied>>
      BY <1>4, <2>2 DEF Panels!RunPortalNow
    <3>2. PICK p \in Panels!Unborn :
            /\ Panels!Spawn("portal", p, "shot")
            /\ monitor' = [monitor EXCEPT ![p] = [pc |-> "look", on |-> NoProc]]
      BY <1>4, <2>2 DEF Panels!RunPortalNow, Panels!Fresh
    <3> QED
      BY <1>0, <3>1, <3>2, SpawnIsHeld
  <2> QED
    BY <2>1, <2>2
<1>5. ASSUME NEW q \in Panels!Panels, Panels!Ready, Panels!Unregister(q),
             \/ app' = app
             \/ app' = "leaving" /\ q = "api",
             UNCHANGED <<process, shown, born, alive, port, monitor, resets, denied>>
      PROVE  Held'
  <2>1. /\ main' = [panel |-> q, found |-> Panels!IsRunning(q)]
        /\ registered' = registered \ {process[q]}
        /\ main = Panels!Free /\ app = "open"
    BY <1>5 DEF Panels!Unregister, Panels!Ready
  <2>2. main' # Panels!Free /\ main'.panel = q
        /\ main' \in [panel : Panels!Panels, found : BOOLEAN]
    BY <1>0, <2>1 DEF Panels!Free, Panels!IsRunning
  <2>3. Panels!ExitReachesAll'
    BY <1>0, <1>5, <2>1, <2>2 DEF Panels!ExitReachesAll
  <2>4. Leaving'
    BY <1>5, <2>1, <2>2 DEF Leaving
  <2> QED
    BY <1>0, <1>5, <2>1, <2>2, <2>3, <2>4, EndedIsHeld
<1>6. ASSUME NEW q \in Panels!Panels, Panels!Killed(q)
      PROVE  Held'
  <2>1. /\ process' = [process EXCEPT ![q] = NoProc] /\ main.panel = q
        /\ main # Panels!Free /\ UNCHANGED <<born, monitor, resets>>
    BY <1>0, <1>6 DEF Panels!Killed, Panels!Free
  <2>2. shown' \in [Panels!Panels -> {"stopped", "running", "shot", "failed"}]
    BY <1>0, <1>6 DEF Panels!Killed
  <2>3. PICK K \in SUBSET (ChildProcs \cup {NoProc}) :
          process[q] \in K /\ Panels!Kill(K)
          /\ (app = "leaving" /\ q = "portal" => registered \subseteq K)
    <3>1. /\ {process[q]} \in SUBSET (ChildProcs \cup {NoProc})
          /\ {process[q]} \cup registered \in SUBSET (ChildProcs \cup {NoProc})
      BY <1>0 DEF Held, EveryChildIsHeld, Panels!TypeOK
    <3>2. \/ Panels!Kill({process[q]}) /\ ~(app = "leaving" /\ q = "portal")
          \/ Panels!Kill({process[q]} \cup registered)
      BY <1>0, <1>6 DEF Panels!Killed
    <3>3. CASE Panels!Kill({process[q]}) /\ ~(app = "leaving" /\ q = "portal")
      BY <3>1, <3>3
    <3>4. CASE Panels!Kill({process[q]} \cup registered)
      BY <3>1, <3>4
    <3> QED BY <3>2, <3>3, <3>4
  <2>4. /\ alive' = alive \ K /\ denied' = denied \ K
        /\ port' \in ChildProcs \cup {NoProc, Foreign}
    BY <1>0, <2>3 DEF Panels!Kill
  <2>5. \A p \in alive' : p \in registered \cup denied'
    BY <1>0, <2>1, <2>3, <2>4
  <2>6. CASE app = "open"
    <3>1. app' = app /\ main' = Panels!Free /\ registered' = registered
      BY <1>6, <2>6 DEF Panels!Killed
    <3>2. Panels!ExitReachesAll' /\ Leaving'
      BY <2>5, <2>6, <3>1 DEF Panels!ExitReachesAll, Leaving
    <3> QED
      BY <1>0, <2>1, <2>2, <2>3, <2>4, <2>6, <3>1, <3>2, EndedIsHeld
  <2>7. CASE app = "leaving" /\ q = "api"
    <3>1. /\ app' = app /\ registered' = registered \ {process["portal"]}
          /\ main' = [panel |-> "portal", found |-> Panels!IsRunning("portal")]
      BY <1>6, <2>7 DEF Panels!Killed, Panels!Unregister
    <3>2. main' # Panels!Free /\ main'.panel = "portal"
          /\ main' \in [panel : Panels!Panels, found : BOOLEAN]
      BY <1>0, <3>1 DEF Panels!Free, Panels!IsRunning
    <3>3. process'["portal"] = process["portal"] /\ process'["api"] = NoProc
      BY <1>0, <2>1, <2>7
    <3>4. Panels!ExitReachesAll' /\ Leaving'
      BY <2>5, <2>7, <3>1, <3>2, <3>3 DEF Panels!ExitReachesAll, Leaving
    <3> QED
      BY <1>0, <2>1, <2>2, <2>3, <2>4, <2>7, <3>1, <3>2, <3>4, EndedIsHeld
  <2>8. CASE app = "leaving" /\ q = "portal"
    <3>1. app' = "gone" /\ main' = Panels!Free /\ registered' = {}
      BY <1>6, <2>8 DEF Panels!Killed
    <3>2. \A p \in alive : p = process["portal"]
      BY <1>0, <2>1, <2>8 DEF Held, EveryChildIsHeld, Panels!TypeOK, Panels!OneChildPerPanel,
         Leaving, Panels!ProcsAssumption
    <3>3. alive' = {}
      BY <2>3, <2>4, <2>8, <3>2
    <3>4. Panels!ExitReachesAll' /\ Leaving'
      BY <3>1, <3>3 DEF Panels!ExitReachesAll, Leaving
    <3> QED
      BY <1>0, <2>1, <2>2, <2>3, <2>4, <3>1, <3>3, <3>4, EndedIsHeld
  <2> QED
    BY <1>0, <1>6, <2>6, <2>7, <2>8 DEF Panels!Killed
<1>12. ASSUME NEW q \in Panels!Panels, Panels!KillDenied(q)
      PROVE  Held'
  <2>1. /\ main.panel = q /\ main' = Panels!Free /\ app' = "open"
        /\ denied' = denied \cup ({process[q]} \cap alive)
        /\ UNCHANGED <<process, shown, born, alive, registered, port, monitor, resets>>
    BY <1>12 DEF Panels!KillDenied
  <2>2. Panels!ExitReachesAll' /\ Leaving'
    BY <1>0, <2>1 DEF Panels!ExitReachesAll, Leaving
  <2> QED
    BY <1>0, <2>1, <2>2, EndedIsHeld
<1>7. ASSUME NEW p \in ChildProcs,
             Panels!Look(p) \/ Panels!Fetch(p) \/ Panels!Waited(p) \/ Panels!Post(p)
      PROVE  Held'
  <2>1. UNCHANGED <<app, main, process, shown, born, alive, registered, port, denied>>
        /\ resets' \subseteq ChildProcs
    BY <1>0, <1>7 DEF Panels!Look, Panels!Fetch, Panels!Waited, Panels!Post
  <2>2. monitor' \in [ChildProcs -> Monitors]
    BY <1>0, <1>7 DEF Panels!Look, Panels!Fetch, Panels!Waited, Panels!Post, Monitors
  <2>3. process["portal"] # NoProc => process["portal"] \in ChildProcs \ Panels!Unborn
    BY <1>0 DEF Held, Panels!Unborn
  <2>4. \A m \in ChildProcs : monitor'[m].pc = "wait" =>
          monitor'[m].on \in ChildProcs \ Panels!Unborn
    BY <1>0, <1>7, <2>3 DEF Panels!Look, Panels!Fetch, Panels!Waited, Panels!Post, Monitors
  <2>5. Panels!ExitReachesAll' /\ Leaving'
    BY <1>0, <2>1 DEF Panels!ExitReachesAll, Leaving
  <2> QED
    BY <1>0, <2>1, <2>2, <2>4, <2>5, EndedIsHeld
<1>8. ASSUME NEW p \in ChildProcs, Panels!Reset(p) \/ Panels!Bind(p) \/ Panels!Exit(p)
      PROVE  Held'
  <2>1. /\ alive' \subseteq alive /\ denied' = denied \cap alive'
        /\ resets' \subseteq ChildProcs /\ port' \in ChildProcs \cup {NoProc, Foreign}
        /\ UNCHANGED <<app, main, process, born, registered, monitor>>
    BY <1>0, <1>8 DEF Panels!Reset, Panels!Bind, Panels!Exit
  <2>2. shown' \in [Panels!Panels -> {"stopped", "running", "shot", "failed"}]
    BY <1>0, <1>8 DEF Panels!Reset, Panels!Bind, Panels!Exit
  <2>3. Panels!ExitReachesAll' /\ Leaving'
    BY <1>0, <2>1 DEF Panels!ExitReachesAll, Leaving
  <2> QED
    BY <1>0, <2>1, <2>2, <2>3, EndedIsHeld
<1>9. CASE UNCHANGED Panels!vars
  <2>1. Panels!ExitReachesAll' /\ Leaving'
    BY <1>0, <1>9 DEF Panels!vars, Panels!ExitReachesAll, Leaving
  <2> QED
    BY <1>0, <1>9, <2>1, EndedIsHeld DEF Panels!vars
<1>10. CASE Panels!Quit
  BY <1>0, <1>5, <1>10 DEF Panels!Quit
<1>11. ASSUME NEW q \in Panels!Panels, Panels!Stop(q)
      PROVE  Held'
  BY <1>5, <1>11 DEF Panels!Stop
<1> QED
  BY <1>2, <1>3, <1>4, <1>6, <1>7, <1>8, <1>9, <1>10, <1>11, <1>12 DEF Panels!Next

\* No panel ever has two children; each of them is known to the exit hook, but
\* for one that is being killed or whose kill was denied; and none runs on once
\* the manager has quit: for any number of processes, however the stops and the
\* monitors interleave, and whatever a late reset made the buttons say.
THEOREM ChildrenAreHeld == Panels!Spec => []EveryChildIsHeld
<1>1. Panels!Init => Held
  BY PanelsAssumption DEF Panels!Init, Panels!ProcsAssumption, Panels!Idle, Panels!Unborn,
     Held, Leaving, EveryChildIsHeld, Monitors, Panels!TypeOK, Panels!OneChildPerPanel,
     Panels!ExitReachesAll, Panels!Panels
<1>2. Held => EveryChildIsHeld
  BY DEF Held
<1> QED
  BY <1>1, <1>2, PanelsStep, PTL DEF Panels!Spec

-----------------------------------------------------------------------------
(* The process tree *)

\* beside the property: the root was there from the start and nothing unborn has
\* a parent; before there is a snapshot it is empty, later the root is in it, and
\* while the call kills, what lives of it is still to be visited
Hunted ==
  /\ KillsTheTreeOnly
  /\ Root \in started /\ \A c \in Procs \ started : parent[c] = Nobody
  /\ calls \in {"start", "snapshot"} => all_procs = {}
  /\ calls \in {"terminate", "kill"} => Root \in all_procs
  /\ calls = "kill" => all_procs \cap running \subseteq left
  /\ all_procs \subseteq {Root} \cup Tree!Descendants(Root)

\* Among more processes, more are below a.
LEMMA BelowGrows ==
  ASSUME NEW A, NEW B, A \subseteq B, NEW a
  PROVE  Tree!Below(a, A) \subseteq Tree!Below(a, B)
<1> SUFFICES ASSUME NEW p \in Tree!Below(a, A), NEW S \in SUBSET B,
                    Tree!Kids(a, B) \subseteq S, \A q \in S : Tree!Kids(q, B) \subseteq S
             PROVE  p \in S
  BY DEF Tree!Below
<1>1. Tree!Kids(a, A) \subseteq S \cap A
  BY DEF Tree!Kids
<1>2. \A q \in S \cap A : Tree!Kids(q, A) \subseteq S \cap A
  BY DEF Tree!Kids
<1>3. S \cap A \in SUBSET A
  OBVIOUS
<1> QED
  BY <1>1, <1>2, <1>3 DEF Tree!Below

\* A birth takes nobody out of the tree.
LEMMA DescendantsStay ==
  ASSUME Hunted, started \subseteq started', started' \subseteq Procs,
         parent' \in [Procs -> Procs \cup {Nobody}],
         \A c \in started : parent'[c] = parent[c]
  PROVE  Tree!Descendants(Root) \subseteq Tree!Descendants(Root)'
<1> SUFFICES ASSUME NEW p \in Tree!Descendants(Root), NEW S \in SUBSET started',
                    {c \in started' : parent'[c] = Root} \subseteq S,
                    \A q \in S : {c \in started' : parent'[c] = q} \subseteq S
             PROVE  p \in S
  BY DEF Tree!Descendants, Tree!Below, Tree!Kids
<1>1. Tree!Kids(Root, started) \subseteq S \cap started
  BY DEF Tree!Kids
<1>2. \A q \in S \cap started : Tree!Kids(q, started) \subseteq S \cap started
  BY DEF Tree!Kids
<1>3. S \cap started \in SUBSET started
  OBVIOUS
<1> QED
  BY <1>1, <1>2, <1>3 DEF Tree!Descendants, Tree!Below

LEMMA TreeStep == Hunted /\ [Tree!Next]_(Tree!vars) => Hunted'
<1> SUFFICES ASSUME Hunted, [Tree!Next]_(Tree!vars)
             PROVE  Hunted'
  OBVIOUS
<1> USE TreesAssumption DEF Tree!TreeAssumption
<1>0. Hunted /\ Tree!TypeOK
  BY DEF Hunted, KillsTheTreeOnly
<1>1. ASSUME running' \subseteq running, UNCHANGED <<started, parent, calls, all_procs>>,
             left' \subseteq left, killed \subseteq killed',
             killed' \subseteq (killed \cup all_procs \cup {Root}) \ running',
             calls = "kill" => all_procs \cap running' \subseteq left'
      PROVE  Hunted'
  <2>1. Tree!Descendants(Root)' = Tree!Descendants(Root)
    BY <1>1 DEF Tree!Descendants, Tree!Below, Tree!Kids
  <2>2. killed \subseteq {Root} \cup Tree!Descendants(Root)
    BY <1>0 DEF Hunted, KillsTheTreeOnly, Tree!OnlyTheTree
  <2>3. Tree!OnlyTheTree'
    BY <1>0, <1>1, <2>1, <2>2 DEF Hunted, Tree!OnlyTheTree
  <2>4. Tree!TypeOK'
    BY <1>0, <1>1 DEF Hunted, Tree!TypeOK
  <2>5. Tree!SnapshotIsDead'
    BY <1>0, <1>1 DEF Hunted, KillsTheTreeOnly, Tree!SnapshotIsDead
  <2> QED
    BY <1>0, <1>1, <2>1, <2>3, <2>4, <2>5 DEF Hunted, KillsTheTreeOnly
<1>2. ASSUME UNCHANGED <<running, started, parent, killed>>, Root \in all_procs',
             calls' \in {"terminate", "kill"}, all_procs' \subseteq started,
             all_procs' \subseteq {Root} \cup Tree!Descendants(Root), left' \subseteq all_procs',
             calls' = "kill" => all_procs' \cap running' \subseteq left'
      PROVE  Hunted'
  <2>1. Tree!Descendants(Root)' = Tree!Descendants(Root)
    BY <1>2 DEF Tree!Descendants, Tree!Below, Tree!Kids
  <2> QED
    BY <1>0, <1>2, <2>1
    DEF Hunted, KillsTheTreeOnly, Tree!TypeOK, Tree!SnapshotIsDead, Tree!OnlyTheTree
<1>3. ASSUME NEW p \in Procs, Tree!Fork(p)
      PROVE  Hunted'
  <2>1. PICK c \in Procs \ started :
          /\ running' = running \cup {c} /\ started' = started \cup {c}
          /\ parent' = [parent EXCEPT ![c] = p]
    BY <1>3 DEF Tree!Fork
  <2>2. UNCHANGED <<calls, all_procs, left, killed>> /\ parent' \in [Procs -> Procs \cup {Nobody}]
    BY <1>0, <1>3, <2>1 DEF Tree!Fork, Tree!TypeOK
  <2>3. Tree!Descendants(Root) \subseteq Tree!Descendants(Root)'
    BY <1>0, <2>1, <2>2, DescendantsStay DEF Tree!TypeOK
  <2>4. Tree!TypeOK' /\ Tree!SnapshotIsDead' /\ Tree!OnlyTheTree'
    BY <1>0, <2>1, <2>2, <2>3
    DEF Hunted, KillsTheTreeOnly, Tree!TypeOK, Tree!SnapshotIsDead, Tree!OnlyTheTree
  <2> QED
    BY <1>0, <2>1, <2>2, <2>3, <2>4 DEF Hunted, KillsTheTreeOnly, Tree!TypeOK
<1>4. ASSUME NEW p \in Procs, Tree!Exit(p)
      PROVE  Hunted'
  <2>1. /\ running' = running \ {p} /\ UNCHANGED <<started, parent, calls, all_procs, left, killed>>
    BY <1>4 DEF Tree!Exit
  <2> QED
    BY <1>0, <1>1, <2>1 DEF Hunted, Tree!TypeOK
<1>5. CASE Tree!Find
  <2>1. Tree!Descendants(Root)' = Tree!Descendants(Root)
    BY <1>5 DEF Tree!Find, Tree!Descendants, Tree!Below, Tree!Kids
  <2> QED
    BY <1>0, <1>5, <2>1
    DEF Tree!Find, Hunted, KillsTheTreeOnly, Tree!TypeOK, Tree!SnapshotIsDead, Tree!OnlyTheTree
<1>6. CASE Tree!Snapshot
  <2>1. Tree!Children(Root) \subseteq Tree!Descendants(Root) \cap running
    BY <1>0, BelowGrows DEF Tree!TypeOK, Tree!Children, Tree!Descendants, Tree!Below
  <2>2. all_procs' \subseteq {Root} \cup (Tree!Descendants(Root) \cap running)
        /\ Root \in all_procs' /\ left' = all_procs' /\ calls' = "terminate"
        /\ UNCHANGED <<running, started, parent, killed>>
    BY <1>6, <2>1 DEF Tree!Snapshot
  <2> QED
    BY <1>0, <1>2, <2>2 DEF Hunted, Tree!TypeOK
<1>7. CASE Tree!Terminate
  <2>1. PICK p \in left : left' = left \ {p} /\ Tree!End({p} \ Stubborn)
    BY <1>7 DEF Tree!Terminate
  <2>2. calls = "terminate" /\ UNCHANGED <<started, parent, calls, all_procs>>
    BY <1>7 DEF Tree!Terminate
  <2> QED
    BY <1>0, <1>1, <2>1, <2>2 DEF Tree!End, Tree!TypeOK
<1>8. CASE Tree!Wait
  BY <1>0, <1>2, <1>8 DEF Tree!Wait, Hunted, Tree!TypeOK
<1>9. CASE Tree!KillLeft
  <2>1. PICK p \in left : left' = left \ {p} /\ Tree!End({p})
    BY <1>9 DEF Tree!KillLeft
  <2>2. calls = "kill" /\ UNCHANGED <<started, parent, calls, all_procs>>
    BY <1>9 DEF Tree!KillLeft
  <2> QED
    BY <1>0, <1>1, <2>1, <2>2 DEF Tree!End, Tree!TypeOK, Hunted
<1>10. CASE Tree!TaskKill
  <2>1. calls = "kill" /\ Root \notin running /\ all_procs \cap running = {}
    BY <1>0, <1>10 DEF Tree!TaskKill, Hunted
  <2>2. Tree!End({}) /\ calls' = "done" /\ UNCHANGED <<started, parent, all_procs, left>>
    BY <1>10, <2>1 DEF Tree!TaskKill
  <2>3. Tree!Descendants(Root)' = Tree!Descendants(Root)
    BY <2>2 DEF Tree!Descendants, Tree!Below, Tree!Kids
  <2> QED
    BY <1>0, <2>1, <2>2, <2>3
    DEF Tree!End, Hunted, KillsTheTreeOnly, Tree!TypeOK, Tree!SnapshotIsDead, Tree!OnlyTheTree
<1>12. CASE Tree!Denied
  <2>1. /\ calls \in {"terminate", "kill"} /\ calls' = "raised"
        /\ UNCHANGED <<running, started, parent, all_procs, left, killed>>
    BY <1>12 DEF Tree!Denied
  <2>2. Tree!Descendants(Root)' = Tree!Descendants(Root)
    BY <2>1 DEF Tree!Descendants, Tree!Below, Tree!Kids
  <2> QED
    BY <1>0, <2>1, <2>2
    DEF Hunted, KillsTheTreeOnly, Tree!TypeOK, Tree!SnapshotIsDead, Tree!OnlyTheTree
<1>11. CASE UNCHANGED Tree!vars
  BY <1>0, <1>1, <1>11 DEF Tree!vars, Hunted, Tree!TypeOK
<1> QED
  BY <1>3, <1>4, <1>5, <1>6, <1>7, <1>8, <1>9, <1>10, <1>11, <1>12 DEF Tree!Next

\* When kill_process_tree returns, and no AccessDenied leaves it, the root and
\* what it found below it are dead, and it has ended nothing else: for any
\* processes, however the tree grows.
THEOREM OnlyTheTreeDies == Tree!Spec => []KillsTheTreeOnly
<1>1. Tree!Init => Hunted
  BY TreesAssumption DEF Tree!TreeAssumption, Tree!Init, Hunted, KillsTheTreeOnly,
     Tree!TypeOK, Tree!SnapshotIsDead, Tree!OnlyTheTree
<1>2. Hunted => KillsTheTreeOnly
  BY DEF Hunted
<1> QED
  BY <1>1, <1>2, TreeStep, PTL DEF Tree!Spec

-----------------------------------------------------------------------------
(* The watchers *)

\* where a watcher is, and its locals
Locals == [pc : {"sleep", "stable", "heal", "recheck", "record", "analyze", "save"},
           first : Nat, seen : Nat, n : Nat, tries : Nat, ts : Nat]

\* only the script runs ANALYZE, and unless it has forgotten it the time it keeps,
\* or is about to save, is not older than the last ANALYZE
Remembered ==
  /\ \A w \in Watchers : job[w].pc \in {"recheck", "analyze", "save"} => w = "script"
  /\ ~early
  /\ ~forgotten =>
       \A w \in Watchers : w = "script" =>
          ran <= (IF job[w].pc = "save" THEN job[w].ts ELSE analyzed)

Daily == Healing!TypeOK /\ job \in [Watchers -> Locals] /\ Remembered

\* what is true or false
Flags ==
  /\ indexed \in BOOLEAN /\ watched \in [Watchers -> BOOLEAN]
  /\ by_hand \in BOOLEAN /\ early \in BOOLEAN /\ forgotten \in BOOLEAN

\* locals within their bounds, for a file of that generation at that time
Within(j, generation, time) ==
  /\ j \in Locals /\ j.first <= generation /\ j.seen <= generation /\ j.ts <= time
  /\ j.n <= Checks - 1 /\ j.tries <= MaxRetries - 1

\* The types are kept by a step that changes the locals of one watcher at most
\* and leaves them, like the file, within their bounds.
LEMMA TypesAreKept ==
  ASSUME Daily,
         last' \in Nat, last <= last', gen' \in 0 .. last', Flags',
         rec' \in [Watchers -> 0 .. last'], now' \in Nat, now <= now',
         analyzed' \in 0 .. now', ran' \in 0 .. now', changes' \in Nat, lost' \in Nat,
         \/ job' = job
         \/ \E w \in Watchers, j \in Locals :
              Within(j, last', now') /\ job' = [job EXCEPT ![w] = j]
  PROVE  Healing!TypeOK' /\ job' \in [Watchers -> Locals]
<1> USE HealsAssumption DEF Healing!HealingAssumption
<1>0. Healing!TypeOK /\ job \in [Watchers -> Locals]
  BY DEF Daily
<1>1. job' \in [Watchers -> Locals]
  BY <1>0
<1>2. \A v \in Watchers : Within(job[v], last', now')
  BY <1>0 DEF Healing!TypeOK, Within, Locals
<1>3. \A v \in Watchers : Within(job'[v], last', now')
  BY <1>0, <1>2
<1>4. \A v \in Watchers :
        /\ job'[v].pc \in {"sleep", "stable", "heal", "recheck", "record", "analyze", "save"}
        /\ job'[v].first \in 0 .. last' /\ job'[v].seen \in 0 .. last'
        /\ job'[v].n \in 0 .. Checks - 1 /\ job'[v].tries \in 0 .. MaxRetries - 1
        /\ job'[v].ts \in 0 .. now'
  BY <1>3 DEF Within, Locals
<1>5. last' \in Nat \ {0} /\ now' >= Interval /\ {analyzed', ran'} \subseteq 0 .. now'
  BY <1>0 DEF Healing!TypeOK
<1> QED
  BY <1>1, <1>4, <1>5, Zenon DEF Healing!TypeOK, Flags

\* a step that moves watcher w to the locals j and keeps everything within its bounds
Moves(w, j) ==
  /\ j \in Locals /\ Within(j, last', now') /\ job' = [job EXCEPT ![w] = j]
  /\ last' \in Nat /\ last <= last' /\ gen' \in 0 .. last' /\ Flags'
  /\ rec' \in [Watchers -> 0 .. last'] /\ now' \in Nat /\ now <= now'
  /\ analyzed' \in 0 .. now' /\ ran' \in 0 .. now' /\ changes' \in Nat /\ lost' \in Nat

LEMMA MovesAreTyped ==
  ASSUME Daily, NEW w \in Watchers, NEW j, Moves(w, j)
  PROVE  Healing!TypeOK' /\ job' \in [Watchers -> Locals]
<1>1. \E v \in Watchers, k \in Locals :
        Within(k, last', now') /\ job' = [job EXCEPT ![v] = k]
  BY DEF Moves
<1> QED
  BY <1>1, TypesAreKept DEF Moves

\* a move that does not touch the times keeps what the script remembers
LEMMA QuietMove ==
  ASSUME Daily, NEW w \in Watchers, NEW j, Moves(w, j),
         j.pc \in {"recheck", "analyze"} => w = "script",
         j.pc # "save", job[w].pc # "save",
         UNCHANGED <<analyzed, ran, early, forgotten>>, lost' \in {lost, lost + 1}
  PROVE  Daily'
<1>0. job \in [Watchers -> Locals] /\ Remembered /\ lost \in Nat
  BY DEF Daily, Healing!TypeOK
<1>1. \A v \in Watchers : job'[v] = IF v = w THEN j ELSE job[v]
  BY <1>0 DEF Moves
<1>2. \A v \in Watchers : job'[v].pc \in {"recheck", "analyze", "save"} => v = "script"
  BY <1>0, <1>1 DEF Remembered
<1>4. ASSUME ~forgotten, NEW v \in Watchers, v = "script"
      PROVE  ran <= (IF job'[v].pc = "save" THEN job'[v].ts ELSE analyzed)
  BY <1>0, <1>1, <1>4 DEF Remembered
<1>5. Remembered'
  BY <1>0, <1>2, <1>4 DEF Remembered
<1> QED
  BY <1>5, MovesAreTyped DEF Daily

LEMMA HealingStep == Daily /\ [Healing!Next]_(Healing!vars) => Daily'
<1> SUFFICES ASSUME Daily, [Healing!Next]_(Healing!vars)
             PROVE  Daily'
  OBVIOUS
<1> USE HealsAssumption DEF Healing!HealingAssumption, Healing!None
<1>0. /\ Healing!TypeOK /\ job \in [Watchers -> Locals] /\ Remembered /\ Daily
      /\ \A w \in Watchers : Within(job[w], last, now)
      /\ gen \in Nat /\ last \in Nat \ {0} /\ gen <= last
      /\ rec \in [Watchers -> 0 .. last] /\ Flags
      /\ now \in Nat /\ now >= Interval /\ analyzed \in 0 .. now /\ ran \in 0 .. now
      /\ changes \in Nat /\ lost \in Nat
  <2>1. \A w \in Watchers : Within(job[w], last, now)
    BY DEF Daily, Healing!TypeOK, Within, Locals
  <2>2. Flags
    BY DEF Daily, Healing!TypeOK, Flags
  <2> QED
    BY <2>1, <2>2 DEF Daily, Healing!TypeOK
<1>1. ASSUME NEW f, f \in [Watchers -> 0 .. last], NEW m \in Nat, last <= m
      PROVE  f \in [Watchers -> 0 .. m]
  BY <1>0, <1>1
<1>2. CASE Healing!ErpChange \/ Healing!CreateByHand \/ Healing!AnalyzeByHand
  <2>1. UNCHANGED <<rec, watched, job, now, analyzed, ran, early, forgotten>>
    BY <1>2 DEF Healing!ErpChange, Healing!CreateByHand, Healing!AnalyzeByHand, Healing!clock
  <2>2. Flags'
    <3>1. indexed' \in BOOLEAN
      BY <1>0, <1>2
      DEF Healing!ErpChange, Healing!CreateByHand, Healing!AnalyzeByHand, Flags
    <3>2. by_hand' \in BOOLEAN
      BY <1>0, <1>2
      DEF Healing!ErpChange, Healing!CreateByHand, Healing!AnalyzeByHand, Flags
    <3> QED
      BY <1>0, <2>1, <3>1, <3>2 DEF Flags
  <2>3. last' \in Nat /\ last <= last' /\ gen' \in 0 .. last'
    <3>1. Healing!Modify \/ (gen' = 0 /\ last' = last) \/ UNCHANGED <<gen, last>>
      BY <1>2 DEF Healing!ErpChange, Healing!CreateByHand, Healing!AnalyzeByHand
    <3> QED
      BY <1>0, <3>1 DEF Healing!Modify
  <2>4. changes' \in {changes, changes + 1} /\ lost' \in {lost, lost + 1}
    BY <1>2 DEF Healing!ErpChange, Healing!CreateByHand, Healing!AnalyzeByHand
  <2>5. rec' \in [Watchers -> 0 .. last']
    BY <1>0, <1>1, <2>1, <2>3
  <2>6. Remembered'
    BY <1>0, <2>1, <2>4 DEF Remembered
  <2> QED
    BY <1>0, <2>1, <2>2, <2>3, <2>4, <2>5, <2>6, TypesAreKept DEF Daily
<1>3. CASE Healing!Tick
  <2>1. /\ now' = now + 1
        /\ UNCHANGED <<gen, last, indexed, rec, watched, job, by_hand, analyzed, ran, early, forgotten,
                       changes, lost>>
    BY <1>3 DEF Healing!Tick, Healing!file
  <2>2. Remembered'
    BY <1>0, <2>1 DEF Remembered
  <2>3. Flags'
    BY <1>0, <2>1 DEF Flags
  <2> QED
    BY <1>0, <2>1, <2>2, <2>3, TypesAreKept DEF Daily
<1>5. ASSUME NEW w \in Watchers, Healing!Wake(w)
      PROVE  Daily'
  <2> DEFINE step == IF w = "thread" THEN "stable" ELSE Healing!FirstStep(w)
             j == [Healing!Sleep EXCEPT !.pc = step, !.first = gen, !.seen = gen]
  <2>1. step \in {"stable", "recheck", "analyze"} /\ (step # "stable" => w = "script")
    BY <1>0 DEF Healing!FirstStep
  <2>2. j \in Locals /\ Within(j, last, now)
    <3> HIDE DEF step
    <3>1. j \in Locals
      BY <1>0, <2>1 DEF Healing!Sleep, Locals
    <3>2. j.first = gen /\ j.seen = gen /\ j.n = 0 /\ j.tries = 0 /\ j.ts = 0
      BY DEF Healing!Sleep
    <3> HIDE DEF j
    <3> QED
      BY <1>0, <3>1, <3>2 DEF Within
  <2>3. job' = [job EXCEPT ![w] = j] /\ job[w].pc = "sleep"
        /\ UNCHANGED <<gen, last, indexed, rec, watched, by_hand, now, analyzed, ran, early, forgotten,
                       changes, lost>>
    BY <1>5 DEF Healing!Wake, Healing!file, Healing!clock
  <2>4. j.pc = step
    BY DEF Healing!Sleep
  <2> HIDE DEF j, step
  <2>5. Flags' /\ gen' \in 0 .. last' /\ rec' \in [Watchers -> 0 .. last'] /\ last' \in Nat
    BY <1>0, <2>3 DEF Flags
  <2>6. Moves(w, j)
    BY <1>0, <2>2, <2>3, <2>5 DEF Moves
  <2> QED
    BY <1>0, <2>1, <2>3, <2>4, <2>6, QuietMove
<1>6. ASSUME NEW w \in Watchers, Healing!Sample(w)
      PROVE  Daily'
  <2>1. job[w] \in Locals /\ Within(job[w], last, now) /\ job[w].pc = "stable"
    BY <1>0, <1>6 DEF Healing!Sample
  <2>2. UNCHANGED <<gen, last, indexed, rec, watched, by_hand, now, analyzed, ran, early, forgotten,
                    changes, lost>>
    BY <1>6 DEF Healing!Sample, Healing!file, Healing!clock
  <2>3. \E j \in Locals : /\ Within(j, last, now) /\ job' = [job EXCEPT ![w] = j]
                          /\ j.pc \in {"heal", "stable", "sleep", "analyze"}
                          /\ j.pc = "analyze" => w = "script"
    <3> DEFINE v == CASE gen = job[w].seen /\ job[w].n + 1 = Checks -> [job[w] EXCEPT !.pc = "heal"]
                      [] gen = job[w].seen /\ job[w].n + 1 < Checks ->
                           [job[w] EXCEPT !.n = job[w].n + 1]
                      [] gen # job[w].seen /\ (gen = 0 \/ job[w].tries + 1 = MaxRetries) ->
                           IF w = "thread" THEN Healing!Sleep ELSE [job[w] EXCEPT !.pc = "analyze"]
                      [] OTHER -> [job[w] EXCEPT !.seen = gen, !.n = 0, !.tries = job[w].tries + 1]
    <3>0. job' = [job EXCEPT ![w] = v]
      BY <1>6 DEF Healing!Sample
    <3>1. CASE gen = job[w].seen /\ job[w].n + 1 = Checks
      <4> DEFINE j == [job[w] EXCEPT !.pc = "heal"]
      <4>1. job' = [job EXCEPT ![w] = j]
        <5>1. v = j
          BY <3>1
        <5> QED
          BY <3>0, <5>1
      <4>2. j \in Locals /\ Within(j, last, now) /\ j.pc = "heal"
        BY <2>1 DEF Locals, Within
      <4> QED
        BY <4>1, <4>2
    <3>2. CASE gen = job[w].seen /\ job[w].n + 1 < Checks
      <4> DEFINE j == [job[w] EXCEPT !.n = job[w].n + 1]
      <4>1. job' = [job EXCEPT ![w] = j]
        BY <3>0, <3>2
      <4>2. j \in Locals /\ Within(j, last, now) /\ j.pc = "stable"
        BY <2>1, <3>2 DEF Locals, Within
      <4> QED
        BY <4>1, <4>2
    <3>3. CASE gen # job[w].seen /\ (gen = 0 \/ job[w].tries + 1 = MaxRetries)
      <4> DEFINE j == IF w = "thread" THEN Healing!Sleep ELSE [job[w] EXCEPT !.pc = "analyze"]
      <4>1. job' = [job EXCEPT ![w] = j]
        BY <3>0, <3>3
      <4>2. /\ j \in Locals /\ Within(j, last, now) /\ j.pc \in {"sleep", "analyze"}
            /\ j.pc = "analyze" => w = "script"
        BY <1>0, <2>1 DEF Locals, Within, Healing!Sleep
      <4> QED
        BY <4>1, <4>2
    <3>4. CASE gen # job[w].seen /\ ~(gen = 0 \/ job[w].tries + 1 = MaxRetries)
      <4> DEFINE j == [job[w] EXCEPT !.seen = gen, !.n = 0, !.tries = job[w].tries + 1]
      <4>1. job' = [job EXCEPT ![w] = j]
        BY <3>0, <3>4
      <4>2. job[w].tries + 1 \in Nat /\ job[w].tries + 1 <= MaxRetries - 1
        BY <2>1, <3>4 DEF Locals, Within
      <4>3. gen <= last /\ gen \in Nat /\ Checks - 1 \in Nat
        BY <1>0
      <4>4. j \in Locals
        BY <2>1, <4>2, <4>3 DEF Locals
      <4>5. /\ j.pc = "stable" /\ j.first = job[w].first /\ j.seen = gen /\ j.n = 0
            /\ j.tries = job[w].tries + 1 /\ j.ts = job[w].ts
        BY <2>1 DEF Locals
      <4> HIDE DEF j
      <4>6. Within(j, last, now)
        BY <2>1, <4>2, <4>3, <4>4, <4>5 DEF Within
      <4> QED
        BY <4>1, <4>4, <4>5, <4>6
    <3>5. gen = job[w].seen => job[w].n + 1 <= Checks
      BY <2>1 DEF Within, Locals
    <3> QED
      BY <2>1, <3>1, <3>2, <3>3, <3>4, <3>5 DEF Locals
  <2>4. PICK j \in Locals : /\ Within(j, last, now) /\ job' = [job EXCEPT ![w] = j]
                            /\ j.pc \in {"heal", "stable", "sleep", "analyze"}
                            /\ j.pc = "analyze" => w = "script"
    BY <2>3
  <2>5. Flags' /\ gen' \in 0 .. last' /\ rec' \in [Watchers -> 0 .. last'] /\ last' \in Nat
    BY <1>0, <2>2 DEF Flags
  <2>6. Moves(w, j)
    BY <1>0, <2>2, <2>4, <2>5 DEF Moves
  <2> QED
    BY <1>0, <2>1, <2>2, <2>4, <2>6, QuietMove
<1>7. ASSUME NEW w \in Watchers, Healing!Heal(w)
      PROVE  Daily'
  <2> DEFINE j == [job[w] EXCEPT !.pc = IF job[w].pc = "heal" THEN "record" ELSE "analyze"]
  <2>1. job' = [job EXCEPT ![w] = j] /\ job[w].pc \in {"heal", "recheck"}
    BY <1>0, <1>7 DEF Healing!Heal, Healing!AfterHeal, Healing!Goto
  <2>2. UNCHANGED <<rec, watched, by_hand, now, analyzed, ran, early, forgotten, changes>>
        /\ lost' \in {lost, lost + 1}
    BY <1>7 DEF Healing!Heal, Healing!clock
  <2>5. last' \in Nat /\ last <= last' /\ gen' \in 0 .. last'
    <3>1. Healing!Modify \/ UNCHANGED <<gen, last>>
      BY <1>7 DEF Healing!Heal, Healing!Create, Healing!file
    <3> QED
      BY <1>0, <3>1 DEF Healing!Modify
  <2>6. Flags'
    <3>1. indexed' \in {indexed, TRUE}
      BY <1>7 DEF Healing!Heal, Healing!Create, Healing!file
    <3> QED
      BY <1>0, <2>2, <3>1 DEF Flags
  <2>3. rec' \in [Watchers -> 0 .. last']
    BY <1>0, <1>1, <2>2, <2>5
  <2>4. j \in Locals /\ Within(j, last', now) /\ j.pc \in {"record", "analyze"}
        /\ (j.pc = "analyze" => w = "script")
    <3>1. job[w] \in Locals /\ Within(job[w], last, now)
      BY <1>0
    <3>2. job[w].pc = "recheck" => w = "script"
      BY <1>0 DEF Remembered
    <3> QED
      BY <1>0, <2>1, <2>5, <3>1, <3>2 DEF Locals, Within
  <2>7. j.pc # "save" /\ job[w].pc # "save"
    BY <2>1, <2>4
  <2> HIDE DEF j
  <2>8. Moves(w, j)
    <3>1. lost' \in Nat
      BY <1>0, <2>2
    <3> QED
      BY <1>0, <2>1, <2>2, <2>3, <2>4, <2>5, <2>6, <3>1 DEF Moves
  <2> QED
    BY <1>0, <2>2, <2>4, <2>7, <2>8, QuietMove
<1>8. ASSUME NEW w \in Watchers, Healing!Record(w)
      PROVE  Daily'
  <2> DEFINE j == IF w = "thread" THEN Healing!Sleep
                  ELSE [job[w] EXCEPT !.pc = "analyze", !.first = gen]
  <2>1. /\ job' = [job EXCEPT ![w] = j] /\ job[w].pc = "record"
        /\ UNCHANGED <<gen, last, indexed, watched, by_hand, now, analyzed, ran, early,
                       forgotten, changes, lost>>
    BY <1>0, <1>8 DEF Healing!Record, Healing!file, Healing!clock
  <2>2. rec' \in [Watchers -> 0 .. last]
    BY <1>0, <1>8 DEF Healing!Record
  <2>3. j \in Locals /\ Within(j, last, now) /\ j.pc \in {"sleep", "analyze"}
        /\ (j.pc = "analyze" => w = "script")
    <3>1. CASE w = "thread"
      BY <1>0, <3>1 DEF Locals, Within, Healing!Sleep
    <3>2. CASE w # "thread"
      <4>1. job[w] \in Locals /\ Within(job[w], last, now) /\ w = "script"
        BY <1>0, <3>2
      <4>2. gen <= last /\ gen \in Nat
        BY <1>0
      <4> QED
        BY <3>2, <4>1, <4>2 DEF Locals, Within
    <3> QED
      BY <3>1, <3>2
  <2> HIDE DEF j
  <2>4. Flags' /\ gen' \in 0 .. last' /\ last' \in Nat
    BY <1>0, <2>1 DEF Flags
  <2>5. rec' \in [Watchers -> 0 .. last']
    BY <1>0, <1>1, <2>1, <2>2
  <2>6. Moves(w, j)
    <3>1. last' = last /\ now' = now /\ analyzed' = analyzed /\ ran' = ran
          /\ changes' = changes /\ lost' = lost
      BY <2>1
    <3>2. Within(j, last', now')
      BY <2>3, <3>1
    <3>3. job' = [job EXCEPT ![w] = j]
      BY <2>1
    <3> QED
      BY <1>0, <2>3, <2>4, <2>5, <3>1, <3>2, <3>3 DEF Moves
  <2> QED
    BY <1>0, <2>1, <2>3, <2>6, QuietMove
<1>9. ASSUME NEW w \in Watchers, Healing!Analyze(w)
      PROVE  Daily'
  <2>1. job[w].pc = "analyze" /\ w = "script" /\ job[w] \in Locals
        /\ Within(job[w], last, now)
        /\ UNCHANGED <<rec, watched, by_hand, now, analyzed, changes>>
    BY <1>0, <1>9 DEF Healing!Analyze, Remembered
  <2> DEFINE j == [job[w] EXCEPT !.pc = "save",
                                 !.ts = IF now - analyzed < Interval THEN analyzed ELSE now]
  <2>2. job' = [job EXCEPT ![w] = j]
    BY <1>0, <1>9 DEF Healing!Analyze
  <2>3. /\ last' \in Nat /\ last <= last' /\ gen' \in 0 .. last'
        /\ lost' \in {lost, lost + 1} /\ ran' \in {ran, now}
        /\ now - analyzed < Interval => ran' = ran
        /\ forgotten' => forgotten
        /\ early' => early \/ (now - ran < Interval /\ ~(now - analyzed < Interval) /\ ~forgotten)
        /\ now - analyzed < Interval => forgotten' = forgotten
    <3>1. Healing!Modify \/ UNCHANGED <<gen, last>>
      BY <1>9 DEF Healing!Analyze, Healing!run_analyze, Healing!file
    <3>2. lost' \in {lost, lost + 1} /\ ran' \in {ran, now}
          /\ (now - analyzed < Interval => ran' = ran)
      BY <1>9 DEF Healing!Analyze, Healing!run_analyze
    <3>3. /\ forgotten' => forgotten
          /\ early' => early \/ (now - ran < Interval /\ ~(now - analyzed < Interval) /\ ~forgotten)
          /\ now - analyzed < Interval => forgotten' = forgotten
      BY <1>9 DEF Healing!Analyze, Healing!run_analyze
    <3> QED
      BY <1>0, <3>1, <3>2, <3>3 DEF Healing!Modify
  <2>9. Flags'
    <3>1. indexed' = indexed /\ early' \in BOOLEAN /\ forgotten' \in BOOLEAN
      BY <1>0, <1>9 DEF Healing!Analyze, Healing!run_analyze, Healing!file, Flags
    <3> QED
      BY <1>0, <2>1, <3>1 DEF Flags
  <2>4. j \in Locals /\ Within(j, last', now) /\ j.pc = "save"
        /\ j.ts = IF now - analyzed < Interval THEN analyzed ELSE now
    <3> DEFINE time == IF now - analyzed < Interval THEN analyzed ELSE now
    <3>1. time \in Nat /\ time <= now
      BY <1>0
    <3>2. j = [job[w] EXCEPT !.pc = "save", !.ts = time]
      OBVIOUS
    <3> HIDE DEF j, time
    <3>3. j \in Locals /\ j.pc = "save" /\ j.ts = time
      BY <2>1, <3>1, <3>2 DEF Locals
    <3>4. /\ j.first = job[w].first /\ j.seen = job[w].seen /\ j.n = job[w].n
          /\ j.tries = job[w].tries
      BY <2>1, <3>2 DEF Locals
    <3>5. Within(j, last', now)
      BY <1>0, <2>1, <2>3, <3>1, <3>3, <3>4 DEF Within, Locals
    <3> QED
      BY <3>3, <3>5 DEF time
  <2> HIDE DEF j
  <2>5. \A v \in Watchers : job'[v] = IF v = w THEN j ELSE job[v]
    BY <1>0, <2>2
  <2>6. rec' \in [Watchers -> 0 .. last']
    BY <1>0, <1>1, <2>1, <2>3
  <2>7. ~early /\ (~forgotten => ran <= analyzed)
    BY <1>0, <2>1 DEF Remembered
  <2>8. Remembered'
    <3>1. \A v \in Watchers : job'[v].pc \in {"recheck", "analyze", "save"} => v = "script"
      BY <1>0, <2>1, <2>5 DEF Remembered
    <3>2. ~early'
      BY <1>0, <2>3, <2>7
    <3>3. ~forgotten' => ran' <= j.ts
      BY <1>0, <2>3, <2>4, <2>7
    <3> QED
      BY <2>1, <2>4, <2>5, <3>1, <3>2, <3>3 DEF Remembered
  <2>10. lost' \in Nat /\ ran' \in 0 .. now
    BY <1>0, <2>3
  <2>11. Moves(w, j)
    BY <1>0, <2>1, <2>2, <2>3, <2>4, <2>6, <2>9, <2>10 DEF Moves
  <2> QED
    BY <2>8, <2>11, MovesAreTyped DEF Daily
<1>10. ASSUME NEW w \in Watchers, Healing!Save(w)
       PROVE  Daily'
  <2>1. /\ job[w].pc = "save" /\ w = "script" /\ job[w] \in Locals
        /\ Within(job[w], last, now) /\ job' = [job EXCEPT ![w] = Healing!Sleep]
        /\ rec' = [rec EXCEPT ![w] = job[w].first] /\ analyzed' = job[w].ts
        /\ UNCHANGED <<gen, last, indexed, watched, by_hand, now, ran, early, forgotten,
                       changes, lost>>
    BY <1>0, <1>10 DEF Healing!Save, Healing!file, Remembered
  <2>2. Healing!Sleep \in Locals /\ Within(Healing!Sleep, last, now) /\ Healing!Sleep.pc = "sleep"
    BY <1>0 DEF Healing!Sleep, Locals, Within
  <2>3. job[w].first \in 0 .. last /\ job[w].ts \in 0 .. now
    BY <1>0, <2>1 DEF Within, Locals
  <2>4. rec' \in [Watchers -> 0 .. last]
    BY <1>0, <2>1, <2>3
  <2>5. \A v \in Watchers : job'[v] = IF v = w THEN Healing!Sleep ELSE job[v]
    BY <1>0, <2>1
  <2>6. Remembered'
    BY <1>0, <2>1, <2>2, <2>5 DEF Remembered
  <2>7. Flags'
    BY <1>0, <2>1 DEF Flags
  <2>8. Moves(w, Healing!Sleep)
    BY <1>0, <2>1, <2>2, <2>3, <2>4, <2>7 DEF Moves
  <2> QED
    BY <2>6, <2>8, MovesAreTyped DEF Daily
<1>11. ASSUME NEW w \in Watchers, Healing!Restart(w)
       PROVE  Daily'
  <2>1. /\ job' = [job EXCEPT ![w] = Healing!Sleep] /\ lost' = lost + 1
        /\ UNCHANGED <<gen, last, indexed, by_hand, now, ran, early, changes>>
        /\ forgotten' = (forgotten \/ job[w].pc = "save")
    BY <1>11 DEF Healing!Restart, Healing!file
  <2>2. Healing!Sleep \in Locals /\ Within(Healing!Sleep, last, now) /\ Healing!Sleep.pc = "sleep"
    BY <1>0 DEF Healing!Sleep, Locals, Within
  <2>3. rec' \in [Watchers -> 0 .. last] /\ analyzed' \in 0 .. now
    BY <1>0, <1>11 DEF Healing!Restart
  <2>4. watched' \in [Watchers -> BOOLEAN]
    <3> DEFINE there == gen # 0
    <3>1. watched' = watched \/ watched' = [watched EXCEPT ![w] = there]
      BY <1>11 DEF Healing!Restart
    <3>2. there \in BOOLEAN /\ watched \in [Watchers -> BOOLEAN]
      BY <1>0 DEF Flags
    <3> HIDE DEF there
    <3> QED
      BY <3>1, <3>2
  <2>5. \A v \in Watchers : job'[v] = IF v = w THEN Healing!Sleep ELSE job[v]
    BY <1>0, <2>1
  <2>6. Remembered'
    <3>1. job[w].pc # "save" => analyzed' = analyzed
      BY <1>11 DEF Healing!Restart
    <3>2. \A v \in Watchers : job'[v].pc \in {"recheck", "analyze", "save"} => v = "script"
      BY <1>0, <2>2, <2>5 DEF Remembered
    <3>3. ASSUME ~forgotten', NEW v \in Watchers, v = "script"
          PROVE  ran' <= (IF job'[v].pc = "save" THEN job'[v].ts ELSE analyzed')
      <4>1. ~forgotten /\ job[w].pc # "save" /\ analyzed' = analyzed /\ ran' = ran
        BY <2>1, <3>1, <3>3
      <4> QED
        BY <1>0, <2>2, <2>5, <3>3, <4>1 DEF Remembered
    <3> QED
      BY <1>0, <2>1, <3>2, <3>3 DEF Remembered
  <2>7. Flags'
    BY <1>0, <2>1, <2>4 DEF Flags
  <2>8. now' = now /\ lost' \in Nat
    BY <1>0, <1>11, <2>1 DEF Healing!Restart
  <2>9. rec' \in [Watchers -> 0 .. last'] /\ analyzed' \in 0 .. now'
    BY <1>0, <1>1, <2>1, <2>3, <2>8
  <2>10. Moves(w, Healing!Sleep)
    <3>1. last' = last /\ now' = now /\ gen' = gen /\ ran' = ran /\ changes' = changes
      BY <2>1, <2>8
    <3>2. Within(Healing!Sleep, last', now')
      BY <2>2, <3>1
    <3>3. job' = [job EXCEPT ![w] = Healing!Sleep]
      BY <2>1
    <3> QED
      BY <1>0, <2>2, <2>7, <2>8, <2>9, <3>1, <3>2, <3>3 DEF Moves
  <2> QED
    BY <2>6, <2>10, MovesAreTyped DEF Daily
<1>12. CASE UNCHANGED Healing!vars
  <2>1. /\ UNCHANGED <<gen, last, indexed, rec, watched, job, by_hand>>
        /\ UNCHANGED <<now, analyzed, ran, early, forgotten, changes, lost>>
    BY <1>12 DEF Healing!vars
  <2>2. Flags' /\ Remembered'
    BY <1>0, <2>1 DEF Flags, Remembered
  <2> QED
    BY <1>0, <2>1, <2>2, TypesAreKept DEF Daily
<1> QED
  BY <1>2, <1>3, <1>5, <1>6, <1>7, <1>8, <1>9, <1>10, <1>11, <1>12
  DEF Healing!Next, Healing!Step

\* A second ANALYZE within the day follows only a script that was stopped, or
\* could not write, before it had saved the time of the first; and no watcher
\* looks at a file or tries again more often than it may: for any number of
\* checks, retries and changes, on either database.
THEOREM AnalyzeIsDaily == Healing!Spec => []AnalyzedOncePerDay
<1>1. Healing!Init => Daily
  <2> SUFFICES ASSUME Healing!Init PROVE Daily
    OBVIOUS
  <2> USE HealsAssumption DEF Healing!HealingAssumption, Healing!None, Healing!Init
  <2>1. gen \in {0, 1} /\ last = 1
    OBVIOUS
  <2>2. Healing!Sleep \in Locals
    BY DEF Healing!Sleep, Locals
  <2>3. job \in [Watchers -> Locals] /\ \A w \in Watchers : job[w] = Healing!Sleep
    BY <2>2
  <2>4. rec \in [Watchers -> 0 .. last]
    BY <2>1
  <2>5. watched \in [Watchers -> BOOLEAN]
    OBVIOUS
  <2>6. \A w \in Watchers :
          /\ job[w].pc = "sleep" /\ job[w].first = 0 /\ job[w].seen = 0 /\ job[w].n = 0
          /\ job[w].tries = 0 /\ job[w].ts = 0
    BY <2>3 DEF Healing!Sleep
  <2>7. 0 \in 0 .. Checks - 1 /\ 0 \in 0 .. MaxRetries - 1 /\ gen \in 0 .. last
    BY <2>1
  <2>8. Healing!TypeOK
    <3>1. \A w \in Watchers :
            job[w].pc \in {"sleep", "stable", "heal", "recheck", "record", "analyze", "save"}
            /\ job[w].first \in 0 .. last /\ job[w].seen \in 0 .. last
            /\ job[w].n \in 0 .. Checks - 1 /\ job[w].tries \in 0 .. MaxRetries - 1
            /\ job[w].ts \in 0 .. now
      BY <2>1, <2>6, <2>7
    <3>2. /\ indexed \in BOOLEAN /\ by_hand \in BOOLEAN /\ early \in BOOLEAN
          /\ forgotten \in BOOLEAN
      OBVIOUS
    <3>3. /\ last \in Nat \ {0} /\ now \in Nat /\ now >= Interval
          /\ {analyzed, ran} \subseteq 0 .. now /\ changes \in Nat /\ lost \in Nat
      BY <2>1
    <3> QED
      BY <2>4, <2>5, <2>7, <3>1, <3>2, <3>3, Zenon DEF Healing!TypeOK
  <2>9. Remembered
    BY <2>6 DEF Remembered
  <2> QED
    BY <2>3, <2>8, <2>9 DEF Daily
<1>2. Daily => AnalyzedOncePerDay
  BY DEF Daily, Remembered, AnalyzedOncePerDay, Healing!AnalyzedOncePerDay, Healing!TypeOK
<1> QED
  BY <1>1, <1>2, HealingStep, PTL DEF Healing!Spec

-----------------------------------------------------------------------------
(* The jobs *)

\* the types, with what the handlers rely on
JobsTyped ==
  /\ Jobs!TypeOK /\ view \in [Dialogs -> Jobs!Jobs \cup {Closed}]
  /\ failed \in [read : Nat, write : Nat]

\* the modal shows what the file has for the job it was opened for
AsFound(m) ==
  m.orig # NoKeyword =>
    /\ m.pattern = IF Jobs!TypeOf(collectors, m.orig) = "binder" THEN "binder" ELSE "materials"
    /\ m.toBinder <=> m.orig \in routes

\* the file has no removed job, and no copy but an older one has; and as long as
\* every read has succeeded and the file can be read, these copies are the file
Copied ==
  /\ DOMAIN jobs \subseteq DOMAIN wanted
  /\ \A d \in Dialogs \ older : view[d] # Closed => DOMAIN view[d] \subseteq DOMAIN wanted
  /\ failed.read = 0 /\ ~torn =>
       /\ jobs = wanted /\ \A d \in Dialogs \ older : view[d] \in {Closed, jobs}

\* so it is until an older copy is written; and the modal shows what the file has
Faithful ==
  /\ ~overwrote => Copied
  /\ failed.read = 0 => ~spoilt /\ (~torn => \A m \in modal : AsFound(m))

LEMMA JobListFacts ==
  /\ \A f \in Jobs!Jobs : DOMAIN f \subseteq Keywords /\ f \in [DOMAIN f -> BOOLEAN]
  /\ \A K \in SUBSET Keywords : [K -> BOOLEAN] \subseteq Jobs!Jobs
  /\ Jobs!Empty \in Jobs!Jobs /\ DOMAIN Jobs!Empty = {}
<1>1. \A f \in Jobs!Jobs : \E K \in SUBSET Keywords : f \in [K -> BOOLEAN]
  BY DEF Jobs!Jobs
<1>2. \A K \in SUBSET Keywords : [K -> BOOLEAN] \subseteq Jobs!Jobs
  BY DEF Jobs!Jobs
<1>3. \A f \in Jobs!Jobs : DOMAIN f \subseteq Keywords /\ f \in [DOMAIN f -> BOOLEAN]
  BY <1>1
<1>4. Jobs!Empty \in [{} -> BOOLEAN] /\ DOMAIN Jobs!Empty = {}
  BY DEF Jobs!Empty
<1> QED
  BY <1>2, <1>3, <1>4

LEMMA PutIsList ==
  ASSUME NEW f \in Jobs!Jobs, NEW k \in Keywords, NEW v \in BOOLEAN
  PROVE  Jobs!Put(f, k, v) \in Jobs!Jobs /\ DOMAIN Jobs!Put(f, k, v) = DOMAIN f \cup {k}
<1>1. DOMAIN f \cup {k} \in SUBSET Keywords /\ f \in [DOMAIN f -> BOOLEAN]
  BY JobListFacts
<1>2. Jobs!Put(f, k, v) \in [DOMAIN f \cup {k} -> BOOLEAN]
  BY <1>1 DEF Jobs!Put
<1> QED
  BY <1>1, <1>2, JobListFacts

LEMMA DropIsList ==
  ASSUME NEW f \in Jobs!Jobs, NEW k
  PROVE  Jobs!Drop(f, k) \in Jobs!Jobs /\ DOMAIN Jobs!Drop(f, k) = DOMAIN f \ {k}
<1>1. DOMAIN f \ {k} \in SUBSET Keywords /\ f \in [DOMAIN f -> BOOLEAN]
  BY JobListFacts
<1>2. Jobs!Drop(f, k) \in [DOMAIN f \ {k} -> BOOLEAN]
  BY <1>1 DEF Jobs!Drop, Jobs!Restrict
<1> QED
  BY <1>1, <1>2, JobListFacts

LEMMA FailCounts ==
  ASSUME failed \in [read : Nat, write : Nat], NEW r \in Nat, NEW w \in Nat, Jobs!Fail(r, w)
  PROVE  failed' \in [read : Nat, write : Nat] /\ failed'.read = failed.read + r
BY DEF Jobs!Fail

\* the ways a write ends
LEMMA WriteEnds ==
  ASSUME JobsTyped, NEW r \in {0, 1}, Jobs!WriteFails(r)
  PROVE  /\ UNCHANGED <<jobs, collectors, routes>> /\ torn' \in BOOLEAN /\ (torn => torn')
         /\ failed' \in [read : Nat, write : Nat] /\ failed'.read = failed.read + r
<1>1. CASE torn
  BY <1>1, FailCounts DEF Jobs!WriteFails, JobsTyped
<1>2. CASE ~torn
  BY <1>2, FailCounts DEF Jobs!WriteFails, JobsTyped
<1> QED
  BY <1>1, <1>2

\* a window that has the focus is not covered by a modal
LEMMA NoModal ==
  ASSUME JobsTyped, NEW d \in Dialogs, grab \in {d, "none"}
  PROVE  modal = {}
BY JobListAssumption DEF JobsTyped, Jobs!TypeOK, Jobs!JobsAssumption

\* a handler that opens no modal and leaves typed jobs and copies behind
LEMMA TypesStay ==
  ASSUME JobsTyped, jobs' \in Jobs!Jobs, wanted' \in Jobs!Jobs, UNCHANGED <<collectors, routes>>,
         torn' \in BOOLEAN, view' \in [Dialogs -> Jobs!Jobs \cup {Closed}],
         failed' \in [read : Nat, write : Nat],
         modal' = {} \/ UNCHANGED <<modal, grab>>, grab' \in Dialogs \cup {"none", "modal"},
         older' \subseteq Dialogs, overwrote' \in BOOLEAN
  PROVE  JobsTyped'
<1>1. CASE modal' = {}
  BY <1>1 DEF JobsTyped, Jobs!TypeOK
<1>2. CASE UNCHANGED <<modal, grab>>
  BY <1>2 DEF JobsTyped, Jobs!TypeOK
<1> QED
  BY <1>1, <1>2


\* a write of the whole list, by a dialog or by its modal
LEMMA WriteOutdates ==
  ASSUME JobsTyped, NEW d \in Dialogs, Jobs!Outdates(d)
  PROVE  /\ older' \subseteq Dialogs
         /\ \A e \in Dialogs \ older' : e # d => view[e] = Closed
BY DEF JobsTyped, Jobs!TypeOK, Jobs!Outdates

LEMMA WrittenTurns ==
  ASSUME JobsTyped, NEW d \in Dialogs, NEW new, Jobs!Written(d, new)
  PROVE  /\ jobs' = new /\ UNCHANGED <<collectors, routes, torn, failed>> /\ ~torn
         /\ older' \subseteq Dialogs /\ overwrote' \in BOOLEAN
         /\ ~overwrote' => ~overwrote /\ d \notin older
         /\ \A e \in Dialogs \ older' : e # d => view[e] = Closed
BY WriteOutdates DEF JobsTyped, Jobs!TypeOK, Jobs!Written

\* a change in the list of a dialog, made in the file and kept if that succeeds
LEMMA PersistKeeps ==
  ASSUME JobsTyped, NEW d \in Dialogs, grab \in {d, "none"},
         NEW new \in Jobs!Jobs, NEW by_user \in Jobs!Jobs, Jobs!Persist(d, new, by_user),
         UNCHANGED <<modal, grab>>
  PROVE  /\ JobsTyped'
         /\ /\ Faithful /\ view[d] # Closed /\ UNCHANGED spoilt
            /\ DOMAIN view[d] \subseteq DOMAIN wanted => DOMAIN new \subseteq DOMAIN by_user
            /\ view[d] = jobs /\ jobs = wanted => new = by_user
            => Faithful'
<1>0. /\ modal = {} /\ modal' = {}
      /\ jobs \in Jobs!Jobs /\ wanted \in Jobs!Jobs /\ grab \in Dialogs \cup {"none", "modal"}
      /\ view \in [Dialogs -> Jobs!Jobs \cup {Closed}] /\ failed \in [read : Nat, write : Nat]
      /\ torn \in BOOLEAN /\ Jobs!Empty \in Jobs!Jobs /\ DOMAIN Jobs!Empty = {}
      /\ older \subseteq Dialogs /\ overwrote \in BOOLEAN
  BY NoModal, JobListFacts DEF JobsTyped, Jobs!TypeOK
<1>1. CASE Jobs!Written(d, new) /\ view' = [view EXCEPT ![d] = new] /\ wanted' = by_user
  <2>1. /\ jobs' = new /\ UNCHANGED <<collectors, routes, torn, failed>> /\ ~torn
        /\ older' \subseteq Dialogs /\ overwrote' \in BOOLEAN
        /\ ~overwrote' => ~overwrote /\ d \notin older
        /\ \A e \in Dialogs \ older' : e # d => view[e] = Closed
    BY <1>1, WrittenTurns
  <2>2. view' \in [Dialogs -> Jobs!Jobs \cup {Closed}]
    BY <1>0, <1>1
  <2>3. JobsTyped'
    BY <1>0, <1>1, <2>1, <2>2, TypesStay
  <2>4. ASSUME Faithful, UNCHANGED spoilt, view[d] # Closed,
               DOMAIN view[d] \subseteq DOMAIN wanted => DOMAIN new \subseteq DOMAIN by_user,
               view[d] = jobs /\ jobs = wanted => new = by_user
        PROVE  Faithful'
    <3>1. ASSUME ~overwrote'
          PROVE  Copied'
      <4>1. Copied /\ d \notin older
        BY <2>1, <2>4, <3>1 DEF Faithful
      <4>2. \A e \in Dialogs \ older' : view'[e] \in {new, Closed}
        BY <1>0, <1>1, <2>1
      <4>3. DOMAIN new \subseteq DOMAIN by_user
        BY <2>4, <4>1 DEF Copied
      <4>4. failed.read = 0 => new = by_user
        BY <2>1, <2>4, <4>1 DEF Copied
      <4> QED
        BY <1>1, <2>1, <4>2, <4>3, <4>4 DEF Copied
    <3>2. failed'.read = 0 => ~spoilt'
      BY <2>1, <2>4 DEF Faithful
    <3> QED
      BY <1>0, <3>1, <3>2 DEF Faithful
  <2> QED
    BY <2>3, <2>4
<1>2. ASSUME NEW reads \in {0, 1}, Jobs!WriteFails(reads), Jobs!Refreshes(d), UNCHANGED wanted,
             view' = [view EXCEPT ![d] = IF torn' \/ reads = 1 THEN Jobs!Empty ELSE jobs]
      PROVE  JobsTyped' /\ (Faithful /\ UNCHANGED spoilt => Faithful')
  <2>1. /\ UNCHANGED <<jobs, collectors, routes>> /\ torn' \in BOOLEAN /\ (torn => torn')
        /\ failed' \in [read : Nat, write : Nat] /\ failed'.read = failed.read + reads
    BY <1>2, WriteEnds
  <2>2. view' \in [Dialogs -> Jobs!Jobs \cup {Closed}]
    BY <1>0, <1>2
  <2>3. older' = older \ {d} /\ overwrote' = overwrote
    BY <1>2 DEF Jobs!Refreshes
  <2>4. JobsTyped'
    BY <1>0, <1>2, <2>1, <2>2, <2>3, TypesStay
  <2>5. ASSUME Faithful, UNCHANGED spoilt
        PROVE  Faithful'
    <3>1. failed'.read = 0 => failed.read = 0 /\ reads = 0
      BY <1>0, <2>1
    <3>2. ASSUME ~overwrote'
          PROVE  Copied'
      <4>1. Copied
        BY <2>3, <2>5, <3>2 DEF Faithful
      <4>2. view'[d] = IF torn' \/ reads = 1 THEN Jobs!Empty ELSE jobs
        BY <1>0, <1>2
      <4>3. \A e \in Dialogs \ older' : e # d => e \notin older /\ view'[e] = view[e]
        BY <1>0, <1>2, <2>3
      <4>4. DOMAIN jobs \subseteq DOMAIN wanted
        BY <4>1 DEF Copied
      <4>5. DOMAIN view'[d] \subseteq DOMAIN wanted
        BY <1>0, <4>2, <4>4
      <4>6. \A e \in Dialogs \ older' : view'[e] # Closed => DOMAIN view'[e] \subseteq DOMAIN wanted
        BY <4>1, <4>3, <4>5 DEF Copied
      <4>7. failed'.read = 0 /\ ~torn' =>
              jobs = wanted /\ \A e \in Dialogs \ older' : view'[e] \in {Closed, jobs}
        BY <2>1, <3>1, <4>1, <4>2, <4>3 DEF Copied
      <4> QED
        BY <1>2, <2>1, <4>4, <4>6, <4>7 DEF Copied
    <3>3. failed'.read = 0 => ~spoilt'
      BY <2>5, <3>1 DEF Faithful
    <3> QED
      BY <1>0, <3>2, <3>3 DEF Faithful
  <2> QED
    BY <2>4, <2>5
<1> QED
  BY <1>1, <1>2 DEF Jobs!Persist

LEMMA DialogStep ==
  ASSUME JobsTyped, NEW d \in Dialogs,
         \/ Jobs!Open(d) \/ Jobs!Save(d) \/ Jobs!Close(d)
         \/ \E k \in Keywords : Jobs!Toggle(d, k) \/ Jobs!Remove(d, k)
  PROVE  JobsTyped' /\ (Faithful => Faithful')
<1>0. /\ jobs \in Jobs!Jobs /\ wanted \in Jobs!Jobs /\ grab \in Dialogs \cup {"none", "modal"}
      /\ view \in [Dialogs -> Jobs!Jobs \cup {Closed}] /\ failed \in [read : Nat, write : Nat]
      /\ torn \in BOOLEAN /\ Jobs!Empty \in Jobs!Jobs /\ DOMAIN Jobs!Empty = {}
      /\ older \subseteq Dialogs /\ overwrote \in BOOLEAN
  BY JobListFacts DEF JobsTyped, Jobs!TypeOK
<1>1. CASE Jobs!Open(d)
  <2>1. /\ grab = "none" /\ grab' = d
        /\ UNCHANGED <<jobs, collectors, routes, torn, modal, wanted, spoilt, older, overwrote>>
    BY <1>1 DEF Jobs!Open, Jobs!config, Jobs!copies
  <2>2. modal = {}
    BY <2>1, NoModal
  <2>3. PICK list \in {jobs, Jobs!Empty} :
          /\ view' = [view EXCEPT ![d] = list]
          /\ failed' \in [read : Nat, write : Nat]
          /\ \/ failed'.read = failed.read + 1
             \/ failed' = failed /\ list = IF torn THEN Jobs!Empty ELSE jobs
    <3>1. CASE Jobs!ReadFails /\ view' = [view EXCEPT ![d] = Jobs!Empty]
      <4>1. failed' \in [read : Nat, write : Nat] /\ failed'.read = failed.read + 1
        BY <1>0, <3>1, FailCounts DEF Jobs!ReadFails
      <4> WITNESS Jobs!Empty \in {jobs, Jobs!Empty}
      <4> QED
        BY <3>1, <4>1
    <3>2. CASE UNCHANGED failed /\ view' = [view EXCEPT ![d] = IF torn THEN Jobs!Empty ELSE jobs]
      BY <1>0, <3>2
    <3> QED
      BY <1>1, <3>1, <3>2 DEF Jobs!Open
  <2>4. view' \in [Dialogs -> Jobs!Jobs \cup {Closed}]
    BY <1>0, <2>3
  <2>5. JobsTyped'
    BY <1>0, <2>1, <2>2, <2>3, <2>4, TypesStay
  <2>6. ASSUME Faithful
        PROVE  Faithful'
    <3>1. failed'.read = 0 => failed.read = 0 /\ (torn \/ list = jobs)
      BY <1>0, <2>3
    <3>2. ASSUME ~overwrote'
          PROVE  Copied'
      <4>1. Copied
        BY <2>1, <2>6, <3>2 DEF Faithful
      <4>2. \A e \in Dialogs : view'[e] = IF e = d THEN list ELSE view[e]
        BY <1>0, <2>3
      <4>3. DOMAIN list \subseteq DOMAIN wanted
        BY <1>0, <2>3, <4>1 DEF Copied
      <4> QED
        BY <2>1, <3>1, <4>1, <4>2, <4>3 DEF Copied
    <3> QED
      BY <2>1, <2>2, <2>6, <3>1, <3>2 DEF Faithful
  <2> QED
    BY <2>5, <2>6
<1>2. CASE Jobs!HasFocus(d) /\ Jobs!Save(d)
  <2>1. /\ view' = [view EXCEPT ![d] = Closed] /\ grab' = (IF grab = d THEN "none" ELSE grab)
        /\ UNCHANGED <<modal, wanted, spoilt>> /\ modal = {}
        /\ view[d] \in Jobs!Jobs /\ view[d] # Closed
    BY <1>0, <1>2, NoModal DEF Jobs!Save, Jobs!HasFocus
  <2>2. /\ UNCHANGED <<collectors, routes>> /\ torn' \in BOOLEAN /\ (torn => torn')
        /\ failed' \in [read : Nat, write : Nat] /\ (failed'.read = 0 => failed.read = 0)
        /\ older' \subseteq Dialogs /\ overwrote' \in BOOLEAN /\ (~overwrote' => ~overwrote)
        /\ \/ jobs' = jobs /\ older' = older \ {d}
           \/ /\ ~torn /\ jobs' = view[d] /\ (~overwrote' => d \notin older)
              /\ \A e \in Dialogs \ older' : e # d => view[e] = Closed
    <3>1. CASE Jobs!Written(d, view[d])
      BY <1>0, <3>1, WrittenTurns
    <3>2. CASE Jobs!WriteFails(0) /\ Jobs!Refreshes(d)
      <4>1. /\ UNCHANGED <<jobs, collectors, routes>> /\ torn' \in BOOLEAN /\ (torn => torn')
            /\ failed' \in [read : Nat, write : Nat] /\ failed'.read = failed.read + 0
        BY <3>2, WriteEnds
      <4>2. older' = older \ {d} /\ overwrote' = overwrote
        BY <3>2 DEF Jobs!Refreshes
      <4> QED
        BY <1>0, <4>1, <4>2
    <3> QED
      BY <1>2, <3>1, <3>2 DEF Jobs!Save
  <2>3. view' \in [Dialogs -> Jobs!Jobs \cup {Closed}] /\ jobs' \in Jobs!Jobs
    BY <1>0, <2>1, <2>2
  <2>4. modal' = {} /\ grab' \in Dialogs \cup {"none", "modal"}
    BY <1>0, <2>1
  <2>5. JobsTyped'
    BY <1>0, <2>1, <2>2, <2>3, <2>4, TypesStay
  <2>6. ASSUME Faithful
        PROVE  Faithful'
    <3>1. view'[d] = Closed /\ \A e \in Dialogs : e # d => view'[e] = view[e]
      BY <1>0, <2>1
    <3>2. ASSUME ~overwrote'
          PROVE  Copied'
      <4>1. Copied
        BY <2>2, <2>6, <3>2 DEF Faithful
      <4>2. CASE jobs' = jobs /\ older' = older \ {d}
        BY <2>1, <2>2, <3>1, <4>1, <4>2 DEF Copied
      <4>3. CASE /\ ~torn /\ jobs' = view[d] /\ d \notin older
                 /\ \A e \in Dialogs \ older' : e # d => view[e] = Closed
        <5>1. \A e \in Dialogs \ older' : view'[e] = Closed
          BY <3>1, <4>3
        <5>2. DOMAIN jobs' \subseteq DOMAIN wanted
          BY <2>1, <4>1, <4>3 DEF Copied
        <5>3. failed.read = 0 => jobs' = wanted
          BY <2>1, <4>1, <4>3 DEF Copied
        <5> QED
          BY <2>1, <2>2, <5>1, <5>2, <5>3 DEF Copied
      <4> QED
        BY <2>2, <3>2, <4>2, <4>3
    <3>3. failed'.read = 0 => ~spoilt'
      BY <2>1, <2>2, <2>6 DEF Faithful
    <3> QED
      BY <2>4, <3>2, <3>3 DEF Faithful
  <2> QED
    BY <2>5, <2>6
<1>3. CASE Jobs!HasFocus(d) /\ Jobs!Close(d)
  <2>1. /\ view' = [view EXCEPT ![d] = Closed] /\ grab' = (IF grab = d THEN "none" ELSE grab)
        /\ UNCHANGED <<jobs, collectors, routes, torn, modal, wanted, spoilt, failed>>
        /\ modal = {} /\ older' = older \ {d} /\ overwrote' = overwrote
    BY <1>0, <1>3, NoModal DEF Jobs!Close, Jobs!HasFocus, Jobs!config, Jobs!Refreshes
  <2>2. view' \in [Dialogs -> Jobs!Jobs \cup {Closed}]
    BY <1>0, <2>1
  <2>3. modal' = {} /\ grab' \in Dialogs \cup {"none", "modal"}
    BY <1>0, <2>1
  <2>4. JobsTyped'
    BY <1>0, <2>1, <2>2, <2>3, TypesStay
  <2>5. ASSUME Faithful
        PROVE  Faithful'
    <3>1. view'[d] = Closed /\ \A e \in Dialogs : e # d => view'[e] = view[e]
      BY <1>0, <2>1
    <3>2. Copied => Copied'
      BY <2>1, <3>1 DEF Copied
    <3> QED
      BY <2>1, <2>3, <2>5, <3>2 DEF Faithful
  <2> QED
    BY <2>4, <2>5
<1>4. ASSUME NEW k \in Keywords, Jobs!Toggle(d, k)
      PROVE  JobsTyped' /\ (Faithful => Faithful')
  <2> DEFINE v == ~view[d][k]
             new == Jobs!Put(view[d], k, v)
             by_user == Jobs!Put(wanted, k, v)
  <2>1. /\ grab \in {d, "none"} /\ view[d] # Closed /\ view[d] \in Jobs!Jobs
        /\ Jobs!Persist(d, new, by_user) /\ UNCHANGED <<modal, grab, spoilt>>
    BY <1>0, <1>4 DEF Jobs!Toggle, Jobs!HasFocus
  <2>2. v \in BOOLEAN
    OBVIOUS
  <2> HIDE DEF v
  <2>3. /\ new \in Jobs!Jobs /\ by_user \in Jobs!Jobs
        /\ DOMAIN new = DOMAIN view[d] \cup {k} /\ DOMAIN by_user = DOMAIN wanted \cup {k}
    BY <1>0, <2>1, <2>2, PutIsList
  <2>4. view[d] = jobs /\ jobs = wanted => new = by_user
    OBVIOUS
  <2> HIDE DEF new, by_user
  <2>5. DOMAIN view[d] \subseteq DOMAIN wanted => DOMAIN new \subseteq DOMAIN by_user
    BY <2>3
  <2> QED
    BY <2>1, <2>3, <2>4, <2>5, PersistKeeps
<1>5. ASSUME NEW k \in Keywords, Jobs!Remove(d, k)
      PROVE  JobsTyped' /\ (Faithful => Faithful')
  <2> DEFINE new == Jobs!Drop(view[d], k)
             by_user == Jobs!Drop(wanted, k)
  <2>1. /\ grab \in {d, "none"} /\ view[d] # Closed /\ view[d] \in Jobs!Jobs
        /\ Jobs!Persist(d, new, by_user) /\ UNCHANGED <<modal, grab, spoilt>>
    BY <1>0, <1>5 DEF Jobs!Remove, Jobs!HasFocus
  <2>3. /\ new \in Jobs!Jobs /\ by_user \in Jobs!Jobs
        /\ DOMAIN new = DOMAIN view[d] \ {k} /\ DOMAIN by_user = DOMAIN wanted \ {k}
    BY <1>0, <2>1, DropIsList
  <2>4. view[d] = jobs /\ jobs = wanted => new = by_user
    OBVIOUS
  <2> HIDE DEF new, by_user
  <2>5. DOMAIN view[d] \subseteq DOMAIN wanted => DOMAIN new \subseteq DOMAIN by_user
    BY <2>3
  <2> QED
    BY <2>1, <2>3, <2>4, <2>5, PersistKeeps
<1> QED
  BY <1>1, <1>2, <1>3, <1>4, <1>5 DEF Jobs!Save, Jobs!Close


LEMMA OpenModalStep ==
  ASSUME JobsTyped, NEW d \in Dialogs,
         Jobs!OpenAdd(d) \/ \E k \in Keywords : Jobs!OpenEdit(d, k)
  PROVE  JobsTyped' /\ (Faithful => Faithful')
<1>1. CASE Jobs!OpenAdd(d)
  <2> DEFINE new == [owner |-> d, orig |-> NoKeyword, pattern |-> "materials", toBinder |-> FALSE,
                     auto |-> FALSE = ("materials" = "binder")]
  <2>1. /\ modal' = {new} /\ grab' = "modal"
        /\ UNCHANGED <<jobs, collectors, routes, torn, view, wanted, spoilt, failed>>
        /\ UNCHANGED <<older, overwrote>>
    BY <1>1 DEF Jobs!OpenAdd, Jobs!Shown, Jobs!config, Jobs!copies
  <2>2. new.owner = d /\ new.orig = NoKeyword /\ new.pattern = "materials"
    OBVIOUS
  <2> HIDE DEF new
  <2>3. JobsTyped'
    BY <2>1, <2>2 DEF JobsTyped, Jobs!TypeOK, Jobs!Patterns
  <2>4. \A m \in modal' : AsFound(m)'
    BY <2>1, <2>2 DEF AsFound
  <2>5. Faithful => Faithful'
    BY <2>1, <2>4 DEF Faithful, Copied
  <2> QED
    BY <2>3, <2>5
<1>2. ASSUME NEW k \in Keywords, Jobs!OpenEdit(d, k)
      PROVE  JobsTyped' /\ (Faithful => Faithful')
  <2>1. PICK specRead \in BOOLEAN, routeRead \in BOOLEAN :
          /\ Jobs!Shown(d, k, IF specRead /\ ~torn /\ Jobs!TypeOf(collectors, k) = "binder"
                              THEN "binder" ELSE "materials",
                        routeRead /\ ~torn /\ k \in routes)
          /\ Jobs!Fail((IF specRead THEN 0 ELSE 1) + (IF routeRead THEN 0 ELSE 1), 0)
    BY <1>2 DEF Jobs!OpenEdit
  <2> DEFINE pattern == IF specRead /\ ~torn /\ Jobs!TypeOf(collectors, k) = "binder"
                        THEN "binder" ELSE "materials"
             toBinder == routeRead /\ ~torn /\ k \in routes
             new == [owner |-> d, orig |-> k, pattern |-> pattern, toBinder |-> toBinder,
                     auto |-> toBinder = (pattern = "binder")]
             misses == (IF specRead THEN 0 ELSE 1) + (IF routeRead THEN 0 ELSE 1)
  <2>2. /\ modal' = {new} /\ grab' = "modal"
        /\ UNCHANGED <<jobs, collectors, routes, torn, view, wanted, spoilt>>
        /\ UNCHANGED <<older, overwrote>>
    BY <1>2, <2>1 DEF Jobs!OpenEdit, Jobs!Shown, Jobs!config, Jobs!copies
  <2>3. misses \in Nat /\ (misses = 0 => specRead /\ routeRead)
    OBVIOUS
  <2>4. pattern \in Jobs!Patterns
        /\ (specRead /\ ~torn => pattern = IF Jobs!TypeOf(collectors, k) = "binder"
                                           THEN "binder" ELSE "materials")
    BY DEF Jobs!Patterns
  <2>5. routeRead /\ ~torn => (toBinder <=> k \in routes)
    OBVIOUS
  <2>6. Jobs!Fail(misses, 0)
    BY <2>1
  <2>7. PICK m : /\ modal' = {m} /\ m.owner = d /\ m.orig = k /\ m.pattern = pattern
                 /\ m.toBinder <=> toBinder
    <3>1. new.owner = d /\ new.orig = k /\ new.pattern = pattern /\ (new.toBinder <=> toBinder)
      OBVIOUS
    <3> HIDE DEF new, pattern, toBinder
    <3> QED
      BY <2>2, <3>1
  <2> HIDE DEF misses, pattern, toBinder, new
  <2>8. failed' \in [read : Nat, write : Nat] /\ failed'.read = failed.read + misses
    BY <2>3, <2>6, FailCounts DEF JobsTyped
  <2>9. JobsTyped'
    BY <2>2, <2>4, <2>7, <2>8 DEF JobsTyped, Jobs!TypeOK
  <2>10. failed'.read = 0 => failed.read = 0 /\ misses = 0
    BY <2>3, <2>8 DEF JobsTyped
  <2>11. failed'.read = 0 /\ ~torn' => \A n \in modal' : AsFound(n)'
    <3> SUFFICES ASSUME failed'.read = 0, ~torn'
                 PROVE  AsFound(m)'
      BY <2>7
    <3>1. ~torn /\ specRead /\ routeRead
      BY <2>2, <2>3, <2>10
    <3>2. Jobs!TypeOf(collectors, k)' = Jobs!TypeOf(collectors, k)
      BY <2>2 DEF Jobs!TypeOf
    <3> QED
      BY <2>2, <2>4, <2>5, <2>7, <3>1, <3>2 DEF AsFound
  <2>12. Faithful => Faithful'
    BY <2>2, <2>10, <2>11 DEF Faithful, Copied
  <2> QED
    BY <2>9, <2>12
<1> QED
  BY <1>1, <1>2

LEMMA LeaveModalStep ==
  ASSUME JobsTyped, NEW m \in modal, Jobs!Cancel(m) \/ Jobs!SaveModalFails(m)
  PROVE  JobsTyped' /\ (Faithful => Faithful')
<1>0. /\ modal \ {m} = {} /\ JobsTyped /\ jobs \in Jobs!Jobs /\ wanted \in Jobs!Jobs
      /\ view \in [Dialogs -> Jobs!Jobs \cup {Closed}] /\ failed \in [read : Nat, write : Nat]
      /\ torn \in BOOLEAN /\ grab \in Dialogs \cup {"none", "modal"}
      /\ older \subseteq Dialogs /\ overwrote \in BOOLEAN
  BY DEF JobsTyped, Jobs!TypeOK
<1>1. CASE Jobs!Cancel(m)
  <2>1. /\ modal' = {} /\ grab' = "none"
        /\ UNCHANGED <<jobs, collectors, routes, torn, view, wanted, spoilt, failed>>
        /\ UNCHANGED <<older, overwrote>>
    BY <1>0, <1>1 DEF Jobs!Cancel, Jobs!config, Jobs!copies
  <2>2. JobsTyped'
    BY <1>0, <2>1, TypesStay
  <2>3. Faithful => Faithful'
    BY <2>1 DEF Faithful, Copied
  <2> QED
    BY <2>2, <2>3
<1>2. CASE Jobs!SaveModalFails(m)
  <2>1. /\ UNCHANGED <<jobs, collectors, routes, view, modal, grab, wanted, spoilt, older, overwrote>>
        /\ torn' \in BOOLEAN /\ (torn => torn')
        /\ failed' \in [read : Nat, write : Nat] /\ failed'.read = failed.read + 0
    BY <1>0, <1>2, WriteEnds DEF Jobs!SaveModalFails, Jobs!copies
  <2>2. JobsTyped'
    BY <1>0, <2>1, TypesStay
  <2>3. failed'.read = failed.read
    BY <1>0, <2>1
  <2>4. \A n : AsFound(n)' <=> AsFound(n)
    BY <2>1 DEF AsFound
  <2>5. Faithful => Faithful'
    BY <2>1, <2>3, <2>4 DEF Faithful, Copied
  <2> QED
    BY <2>2, <2>5
<1> QED
  BY <1>1, <1>2


\* the parts of the merge

LEMMA MovedKeepsTypes ==
  ASSUME NEW cs, NEW orig, NEW k \in Keywords,
         DOMAIN cs \subseteq Keywords, \A x \in DOMAIN cs : cs[x] \in Jobs!Types
  PROVE  LET new == Jobs!Moved(cs, orig, k) IN
         DOMAIN new \subseteq Keywords /\ \A x \in DOMAIN new : new[x] \in Jobs!Types
BY DEF Jobs!Moved, Jobs!Put, Jobs!Drop, Jobs!Restrict

LEMMA ApplyKeepsTypes ==
  ASSUME NEW cs, NEW k \in Keywords, NEW pattern \in Jobs!Patterns,
         DOMAIN cs \subseteq Keywords, \A x \in DOMAIN cs : cs[x] \in Jobs!Types
  PROVE  LET new == Jobs!ApplyCollectors(cs, k, pattern) IN
         DOMAIN new \subseteq Keywords /\ \A x \in DOMAIN new : new[x] \in Jobs!Types
BY DEF Jobs!ApplyCollectors, Jobs!Put, Jobs!Types

\* a job whose pattern is left as it was found keeps its type, under its old
\* keyword or under a new one that no collector has
LEMMA TypeIsKept ==
  ASSUME NEW cs, NEW orig, NEW k, NEW pattern,
         \A x \in DOMAIN cs : cs[x] \in Jobs!Types,
         pattern = IF Jobs!TypeOf(cs, orig) = "binder" THEN "binder" ELSE "materials",
         k = orig \/ k \notin DOMAIN cs
  PROVE  Jobs!TypeOf(Jobs!ApplyCollectors(Jobs!Moved(cs, orig, k), k, pattern), k)
           = Jobs!TypeOf(cs, orig)
<1> DEFINE moved == Jobs!Moved(cs, orig, k)
<1>1. /\ k \in DOMAIN moved <=> orig \in DOMAIN cs
      /\ k \in DOMAIN moved => moved[k] = cs[orig]
  <2>1. CASE k = orig \/ orig \notin DOMAIN cs
    BY <2>1 DEF Jobs!Moved
  <2>2. CASE ~(k = orig \/ orig \notin DOMAIN cs)
    BY <2>2 DEF Jobs!Moved, Jobs!Put
  <2> QED
    BY <2>1, <2>2
<1>2. Jobs!TypeOf(moved, k) = Jobs!TypeOf(cs, orig)
  BY <1>1 DEF Jobs!TypeOf
<1>3. k \in DOMAIN moved => moved[k] \in Jobs!Types
  BY <1>1
<1> HIDE DEF moved
<1>4. ASSUME Jobs!TypeOf(cs, orig) = "binder"
      PROVE  Jobs!TypeOf(Jobs!ApplyCollectors(moved, k, pattern), k) = Jobs!TypeOf(cs, orig)
  BY <1>4 DEF Jobs!TypeOf, Jobs!ApplyCollectors, Jobs!Put
<1>5. ASSUME Jobs!TypeOf(cs, orig) # "binder"
      PROVE  Jobs!TypeOf(Jobs!ApplyCollectors(moved, k, pattern), k) = Jobs!TypeOf(cs, orig)
  <2>1. pattern = "materials"
    BY <1>5
  <2>2. CASE k \in DOMAIN moved /\ moved[k] \in Jobs!Patterns
    <3>1. moved[k] = "materials"
      BY <1>2, <1>5, <2>2 DEF Jobs!TypeOf, Jobs!Patterns
    <3> QED
      BY <1>2, <2>1, <2>2, <3>1 DEF Jobs!TypeOf, Jobs!ApplyCollectors, Jobs!Put
  <2>3. CASE ~(k \in DOMAIN moved /\ moved[k] \in Jobs!Patterns)
    <3>1. Jobs!ApplyCollectors(moved, k, pattern) = moved
      BY <2>1, <2>3 DEF Jobs!ApplyCollectors
    <3> QED
      BY <1>2, <3>1
  <2> QED
    BY <2>2, <2>3
<1> QED
  BY <1>4, <1>5 DEF moved

LEMMA SaveModalStep ==
  ASSUME JobsTyped, NEW m \in modal, NEW k \in Keywords, NEW enabled \in BOOLEAN,
         NEW pattern \in Jobs!Patterns, NEW dataset \in {"shown", "/materials", "/binder"},
         Jobs!SaveModal(m, k, enabled, pattern, dataset)
  PROVE  JobsTyped' /\ (Faithful => Faithful')
<1> DEFINE toBinder == IF dataset # "shown" THEN dataset = "/binder"
                       ELSE IF pattern # m.pattern /\ m.auto THEN pattern = "binder"
                       ELSE m.toBinder
           kept == IF m.orig = NoKeyword THEN jobs ELSE Jobs!Drop(jobs, m.orig)
           new  == Jobs!Put(kept, k, enabled)
           told == IF m.orig = NoKeyword THEN wanted ELSE Jobs!Drop(wanted, m.orig)
           by_user == Jobs!Put(told, k, enabled)
<1>0. /\ modal \ {m} = {} /\ jobs \in Jobs!Jobs /\ wanted \in Jobs!Jobs
      /\ view \in [Dialogs -> Jobs!Jobs \cup {Closed}] /\ failed \in [read : Nat, write : Nat]
      /\ torn \in BOOLEAN /\ m.owner \in Dialogs /\ m.orig \in Keywords \cup {NoKeyword}
      /\ DOMAIN collectors \subseteq Keywords
      /\ \A x \in DOMAIN collectors : collectors[x] \in Jobs!Types
      /\ routes \subseteq Keywords
      /\ Jobs!Empty \in Jobs!Jobs /\ DOMAIN Jobs!Empty = {}
  BY JobListFacts DEF JobsTyped, Jobs!TypeOK
<1>1. /\ modal' = {} /\ grab' = "none" /\ jobs' = new /\ wanted' = by_user /\ ~torn /\ torn' = torn
      /\ collectors' = Jobs!ApplyCollectors(Jobs!Moved(collectors, m.orig, k), k, pattern)
      /\ routes' = Jobs!ApplyRoute(Jobs!MovedRoutes(m.orig, k), k, toBinder)
      /\ Jobs!Outdates(m.owner) /\ UNCHANGED overwrote
  BY <1>0 DEF Jobs!SaveModal, Jobs!Valid
<1>12. older' \subseteq Dialogs /\ \A e \in Dialogs \ older' : e # m.owner => view[e] = Closed
  BY <1>0, <1>1, WriteOutdates
<1>2. PICK list \in {new, Jobs!Empty} :
        /\ view' = [view EXCEPT ![m.owner] = list]
        /\ failed' \in [read : Nat, write : Nat] /\ (failed'.read = 0 => failed.read = 0)
        /\ failed'.read = 0 => list = new
  <2>1. CASE view' = [view EXCEPT ![m.owner] = new] /\ UNCHANGED failed
    BY <1>0, <2>1
  <2>2. CASE view' = [view EXCEPT ![m.owner] = Jobs!Empty] /\ Jobs!ReadFails
    <3>1. failed' \in [read : Nat, write : Nat] /\ failed'.read = failed.read + 1
      BY <1>0, <2>2, FailCounts DEF Jobs!ReadFails
    <3>2. failed'.read # 0
      BY <1>0, <3>1
    <3> WITNESS Jobs!Empty \in {new, Jobs!Empty}
    <3> QED
      BY <2>2, <3>1, <3>2
  <2> QED
    BY <2>1, <2>2 DEF Jobs!SaveModal
<1>3. kept \in Jobs!Jobs /\ told \in Jobs!Jobs
      /\ (DOMAIN jobs \subseteq DOMAIN wanted => DOMAIN kept \subseteq DOMAIN told)
  <2>1. CASE m.orig = NoKeyword
    BY <1>0, <2>1
  <2>2. CASE m.orig # NoKeyword
    <3>1. kept = Jobs!Drop(jobs, m.orig) /\ told = Jobs!Drop(wanted, m.orig)
      BY <2>2
    <3> HIDE DEF kept, told
    <3>2. kept \in Jobs!Jobs /\ DOMAIN kept = DOMAIN jobs \ {m.orig}
      BY <1>0, <3>1, DropIsList
    <3>3. told \in Jobs!Jobs /\ DOMAIN told = DOMAIN wanted \ {m.orig}
      BY <1>0, <3>1, DropIsList
    <3> QED
      BY <3>2, <3>3
  <2> QED
    BY <2>1, <2>2
<1>4. jobs = wanted => new = by_user
  OBVIOUS
<1> HIDE DEF kept, told
<1>5. /\ new \in Jobs!Jobs /\ by_user \in Jobs!Jobs
      /\ DOMAIN new = DOMAIN kept \cup {k} /\ DOMAIN by_user = DOMAIN told \cup {k}
  BY <1>3, PutIsList
<1> HIDE DEF new, by_user
<1>6. view' \in [Dialogs -> Jobs!Jobs \cup {Closed}]
  BY <1>0, <1>2, <1>5
<1>7. /\ DOMAIN collectors' \subseteq Keywords
      /\ \A x \in DOMAIN collectors' : collectors'[x] \in Jobs!Types
  BY <1>0, <1>1, MovedKeepsTypes, ApplyKeepsTypes
<1>8. routes' \subseteq Keywords
  BY <1>0, <1>1 DEF Jobs!ApplyRoute, Jobs!MovedRoutes
<1>9. JobsTyped'
  BY <1>0, <1>1, <1>2, <1>5, <1>6, <1>7, <1>8, <1>12 DEF JobsTyped, Jobs!TypeOK
<1>10. ASSUME AsFound(m), ~spoilt
       PROVE  ~spoilt'
  <2> DEFINE before == IF m.orig = NoKeyword THEN k ELSE m.orig
             changed == \/ Jobs!TypeOf(collectors', k) # Jobs!TypeOf(collectors, before)
                        \/ (k \in routes') # (before \in routes)
  <2> SUFFICES ASSUME pattern = m.pattern, dataset = "shown", m.orig # NoKeyword,
                      k # m.orig => k \notin DOMAIN collectors \cup routes
               PROVE  ~changed
    BY <1>10 DEF Jobs!SaveModal
  <2>1. before = m.orig
    OBVIOUS
  <2>2. Jobs!TypeOf(collectors', k) = Jobs!TypeOf(collectors, m.orig)
    BY <1>0, <1>1, <1>10, TypeIsKept DEF AsFound
  <2>3. toBinder = m.toBinder
    OBVIOUS
  <2>4. k \in routes' <=> m.orig \in routes
    BY <1>1, <1>10, <2>3 DEF AsFound, Jobs!ApplyRoute, Jobs!MovedRoutes
  <2> QED
    BY <2>1, <2>2, <2>4
<1>11. ASSUME Faithful
       PROVE  Faithful'
  <2>1. ASSUME ~overwrote'
        PROVE  Copied'
    <3>1. Copied
      BY <1>1, <1>11, <2>1 DEF Faithful
    <3>2. \A e \in Dialogs \ older' : view'[e] \in {list, Closed}
      BY <1>0, <1>2, <1>12
    <3>3. DOMAIN jobs' \subseteq DOMAIN wanted' /\ DOMAIN list \subseteq DOMAIN wanted'
      BY <1>0, <1>1, <1>2, <1>3, <1>5, <3>1 DEF Copied
    <3>4. failed'.read = 0 => jobs' = wanted' /\ list = jobs'
      BY <1>1, <1>2, <1>4, <3>1 DEF Copied
    <3> QED
      BY <3>2, <3>3, <3>4 DEF Copied
  <2>2. failed'.read = 0 => ~spoilt'
    BY <1>1, <1>2, <1>10, <1>11 DEF Faithful
  <2> QED
    BY <1>1, <2>1, <2>2 DEF Faithful
<1> QED
  BY <1>9, <1>11

\* Until a dialog writes a copy older than another window's last write, a job
\* that was removed or renamed does not come back, and unless a read has failed
\* the file has the jobs as they were saved; and saving something else keeps
\* collector and route even then: for any number of keywords and of dialogs, and
\* however many reads and writes fail.
THEOREM JobsStayAsSaved == Jobs!Spec => []JobsAreKept
<1>1. Jobs!Init => JobsTyped /\ Faithful
  <2> SUFFICES ASSUME Jobs!Init PROVE JobsTyped /\ Faithful
    OBVIOUS
  <2>1. PICK K \in SUBSET DOMAIN jobs : collectors \in [K -> Jobs!Types]
    BY DEF Jobs!Init
  <2>2. DOMAIN collectors \subseteq Keywords
        /\ \A x \in DOMAIN collectors : collectors[x] \in Jobs!Types
    BY <2>1, JobListFacts DEF Jobs!Init
  <2>3. view \in [Dialogs -> Jobs!Jobs \cup {Closed}] /\ \A d \in Dialogs : view[d] = Closed
    BY DEF Jobs!Init
  <2>4. failed \in [read : Nat, write : Nat]
    BY DEF Jobs!Init
  <2> QED
    BY <2>2, <2>3, <2>4 DEF JobsTyped, Faithful, Copied, Jobs!TypeOK, Jobs!Init
<1>2. JobsTyped /\ Faithful /\ [Jobs!Next]_(Jobs!vars) => (JobsTyped /\ Faithful)'
  <2> SUFFICES ASSUME JobsTyped, Faithful, [Jobs!Next]_(Jobs!vars)
               PROVE  (JobsTyped /\ Faithful)'
    OBVIOUS
  <2>1. ASSUME NEW d \in Dialogs,
               \/ Jobs!Open(d) \/ Jobs!Save(d) \/ Jobs!Close(d)
               \/ \E k \in Keywords : Jobs!Toggle(d, k) \/ Jobs!Remove(d, k)
        PROVE  (JobsTyped /\ Faithful)'
    BY <2>1, DialogStep
  <2>2. ASSUME NEW d \in Dialogs, Jobs!OpenAdd(d) \/ \E k \in Keywords : Jobs!OpenEdit(d, k)
        PROVE  (JobsTyped /\ Faithful)'
    BY <2>2, OpenModalStep
  <2>3. ASSUME NEW m \in modal, Jobs!Cancel(m) \/ Jobs!SaveModalFails(m)
        PROVE  (JobsTyped /\ Faithful)'
    BY <2>3, LeaveModalStep
  <2>4. ASSUME NEW m \in modal, NEW k \in Keywords, NEW e \in BOOLEAN, NEW p \in Jobs!Patterns,
               NEW ds \in {"shown", "/materials", "/binder"}, Jobs!SaveModal(m, k, e, p, ds)
        PROVE  (JobsTyped /\ Faithful)'
    BY <2>4, SaveModalStep
  <2>5. CASE UNCHANGED Jobs!vars
    <3>1. /\ UNCHANGED <<jobs, collectors, routes, torn, view>>
          /\ UNCHANGED <<modal, grab, wanted, spoilt, older, overwrote, failed>>
      BY <2>5 DEF Jobs!vars
    <3>2. JobsTyped'
      BY <3>1 DEF JobsTyped, Jobs!TypeOK
    <3>3. \A m : AsFound(m)' <=> AsFound(m)
      BY <3>1 DEF AsFound, Jobs!TypeOf
    <3> QED
      BY <3>1, <3>2, <3>3 DEF Faithful, Copied
  <2> QED
    BY <2>1, <2>2, <2>3, <2>4, <2>5 DEF Jobs!Next
<1>3. JobsTyped /\ Faithful => JobsAreKept
  <2> SUFFICES ASSUME JobsTyped, Faithful PROVE JobsAreKept
    OBVIOUS
  <2>1. Jobs!TypeOK
    BY DEF JobsTyped
  <2> QED
    BY <2>1 DEF Faithful, Copied, JobsAreKept, Jobs!DeletedStaysDeleted, Jobs!JobsAsSaved, Jobs!EditKeepsSpec
<1> QED
  BY <1>1, <1>2, <1>3, PTL DEF Jobs!Spec
=============================================================================
