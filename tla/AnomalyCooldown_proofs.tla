----------------------- MODULE AnomalyCooldown_proofs -----------------------
(***************************************************************************)
(* Proofs about the emission of the anomaly detector, for any number of     *)
(* scanners, faults and crashes, in two parts: what holds however their     *)
(* scans interleave, and what holds when no two scans overlap.              *)
(***************************************************************************)
EXTENDS AnomalyCooldown, TLAPS

Phases == {"idle", "load", "emit", "write", "replace", "record"}
State  == [pc : Phases, at : Times, found : SUBSET Keys, cool : Cooldowns,
           todo : SUBSET Keys, sent : SUBSET Keys,
           handle : {"closed", "tmp", "file", "gone"}]
Stamps == [Keys -> Times \cup {Never}]

Typed ==
  /\ now \in Times /\ file \in Files /\ tmp \in Files
  /\ scan \in [Scanners -> State]
  /\ \A s \in Scanners : scan[s].todo \cap scan[s].sent = {}
  /\ \A s \in Scanners : scan[s].at <= now
  /\ \A s \in Scanners : scan[s].pc \in {"idle", "load"} => scan[s].sent = {}
  /\ rows \subseteq Keys \X Times
  /\ faults \in 0 .. MaxFaults /\ crashes \in 0 .. MaxCrashes
  /\ returned \in Stamps /\ queued \in Stamps /\ twice \subseteq Keys
  /\ unmarked \subseteq Keys /\ unrecorded \subseteq Keys

Limit == Cooldown * PruneFactor

LEMMA Bounds ==
  CooldownAssumption =>
  /\ Cooldown \in Nat /\ Cooldown > 0 /\ Limit \in Nat /\ Limit >= Cooldown
  /\ Retention \in Nat /\ Retention >= Limit
  /\ MaxNow \in Nat /\ MaxFaults \in Nat /\ MaxCrashes \in Nat
<1> SUFFICES ASSUME CooldownAssumption
             PROVE  /\ Cooldown \in Nat /\ Cooldown > 0 /\ Limit \in Nat /\ Limit >= Cooldown
                    /\ Retention \in Nat /\ Retention >= Limit
                    /\ MaxNow \in Nat /\ MaxFaults \in Nat /\ MaxCrashes \in Nat
  OBVIOUS
<1>1. /\ Cooldown \in Nat \ {0} /\ PruneFactor \in Nat \ {0}
      /\ Retention \in Nat /\ Retention >= Cooldown * PruneFactor
      /\ MaxNow \in Nat /\ MaxFaults \in Nat /\ MaxCrashes \in Nat
  BY DEF CooldownAssumption
<1>2. Cooldown * PruneFactor \in Nat /\ Cooldown * PruneFactor >= Cooldown
  BY <1>1
<1> QED BY <1>1, <1>2 DEF Limit

-----------------------------------------------------------------------------
(* The operators on cooldowns.                                             *)
LEMMA CoolIs ==
  ASSUME NEW c \in Cooldowns
  PROVE  DOMAIN c \subseteq Keys /\ \A k \in DOMAIN c : c[k] \in Times
  BY DEF Cooldowns

LEMMA NoMarksCool == NoMarks \in Cooldowns /\ DOMAIN NoMarks = {}
<1>1. NoMarks \in [{} -> Times] /\ {} \in SUBSET Keys
  BY DEF NoMarks
<1>2. DOMAIN NoMarks = {}
  BY DEF NoMarks
<1> QED BY <1>1, <1>2 DEF Cooldowns

LEMMA LoadedCool == Typed => Loaded \in Cooldowns
  BY NoMarksCool DEF Typed, Loaded, Files

LEMMA MarkedIs ==
  ASSUME NEW c \in Cooldowns, NEW S \in SUBSET Keys, NEW a \in Times
  PROVE  /\ Marked(c, S, a) \in Cooldowns /\ DOMAIN Marked(c, S, a) = DOMAIN c \cup S
         /\ \A k \in DOMAIN c \cup S : Marked(c, S, a)[k] = IF k \in S THEN a ELSE c[k]
<1>1. DOMAIN c \cup S \in SUBSET Keys
  BY CoolIs
<1>2. Marked(c, S, a) \in [DOMAIN c \cup S -> Times]
  BY CoolIs DEF Marked
<1>3. Marked(c, S, a) \in Cooldowns
  BY <1>1, <1>2 DEF Cooldowns
<1> QED BY <1>3 DEF Marked

LEMMA PrunedIs ==
  ASSUME NEW c \in Cooldowns, NEW a \in Times
  PROVE  /\ Pruned(c, a) \in Cooldowns
         /\ DOMAIN Pruned(c, a) = {k \in DOMAIN c : a - c[k] < Limit}
         /\ \A k \in DOMAIN Pruned(c, a) : Pruned(c, a)[k] = c[k]
<1> DEFINE D == {k \in DOMAIN c : a - c[k] < Limit}
<1>1. Pruned(c, a) = [k \in D |-> c[k]]
  BY DEF Pruned, Restrict, Limit
<1>2. D \in SUBSET Keys /\ D \subseteq DOMAIN c
  BY CoolIs
<1> HIDE DEF D
<1>3. Pruned(c, a) \in [D -> Times]
  BY <1>1, <1>2, CoolIs
<1>4. Pruned(c, a) \in Cooldowns
  BY <1>2, <1>3 DEF Cooldowns
<1> QED BY <1>1, <1>4 DEF D

LEMMA SavedIs ==
  ASSUME CooldownAssumption, Typed, NEW s \in Scanners
  PROVE  /\ Saved(s) \in Cooldowns
         /\ \A k \in DOMAIN Saved(s) :
              /\ k \in DOMAIN scan[s].cool \cup scan[s].sent
              /\ Saved(s)[k] = IF k \in scan[s].sent THEN scan[s].at ELSE scan[s].cool[k]
              /\ scan[s].at - Saved(s)[k] < Limit
         /\ \A k \in scan[s].sent : k \in DOMAIN Saved(s)
         /\ \A k \in DOMAIN scan[s].cool :
              k \in DOMAIN Saved(s) \/ scan[s].at - scan[s].cool[k] >= Limit
<1>1. /\ scan[s].cool \in Cooldowns /\ scan[s].sent \in SUBSET Keys /\ scan[s].at \in Times
  BY DEF Typed, State
<1>2. PICK c \in Cooldowns, S \in SUBSET Keys, a \in Times :
        c = scan[s].cool /\ S = scan[s].sent /\ a = scan[s].at
  BY <1>1
<1>3. Saved(s) = Pruned(Marked(c, S, a), a)
  BY <1>2 DEF Saved
<1>4. PICK m \in Cooldowns :
        /\ m = Marked(c, S, a) /\ DOMAIN m = DOMAIN c \cup S
        /\ \A k \in DOMAIN c \cup S : m[k] = IF k \in S THEN a ELSE c[k]
  <2>1. /\ Marked(c, S, a) \in Cooldowns /\ DOMAIN Marked(c, S, a) = DOMAIN c \cup S
        /\ \A k \in DOMAIN c \cup S : Marked(c, S, a)[k] = IF k \in S THEN a ELSE c[k]
    BY MarkedIs
  <2> QED BY <2>1
<1>5. PICK p \in Cooldowns :
        /\ p = Saved(s) /\ DOMAIN p = {k \in DOMAIN m : a - m[k] < Limit}
        /\ \A k \in DOMAIN p : p[k] = m[k]
  BY <1>3, <1>4, PrunedIs
<1>6. a \in Int /\ a - a < Limit /\ \A k \in DOMAIN c : c[k] \in Int
  BY CoolIs, Bounds DEF Times
<1>7. \A k \in S : k \in DOMAIN p
  BY <1>4, <1>5, <1>6
<1>8. \A k \in DOMAIN p : k \in DOMAIN c \cup S /\ p[k] = (IF k \in S THEN a ELSE c[k])
                          /\ a - p[k] < Limit
  BY <1>4, <1>5
<1>9. \A k \in DOMAIN c : k \in DOMAIN p \/ a - c[k] >= Limit
  BY <1>4, <1>5, <1>6, <1>7, Bounds
<1> QED BY <1>2, <1>5, <1>7, <1>8, <1>9

-----------------------------------------------------------------------------
(* What each action does to the scanner that moves; the others keep all but    *)
(* the file that an open handle leads to.                                    *)
Turns(s, pc, at, cool, todo, sent, handle) ==
  /\ scan' \in [Scanners -> State]
  /\ \A t \in Scanners \ {s} :
       /\ scan'[t].pc = scan[t].pc /\ scan'[t].at = scan[t].at
       /\ scan'[t].cool = scan[t].cool /\ scan'[t].todo = scan[t].todo
       /\ scan'[t].sent = scan[t].sent
       /\ scan[t].handle = "closed" => scan'[t].handle = "closed"
  /\ scan'[s].pc = pc /\ scan'[s].at = at /\ scan'[s].cool = cool
  /\ scan'[s].todo = todo /\ scan'[s].sent = sent /\ scan'[s].handle = handle

LEMMA BecomesTurns ==
  ASSUME Typed, NEW s \in Scanners, NEW st \in State, Becomes(s, st)
  PROVE  Turns(s, st.pc, st.at, st.cool, st.todo, st.sent, st.handle)
<1>1. scan' = [scan EXCEPT ![s] = st] /\ scan \in [Scanners -> State]
  BY DEF Becomes, Typed
<1>2. scan' \in [Scanners -> State] /\ scan'[s] = st
  BY <1>1
<1>3. \A t \in Scanners \ {s} : scan'[t] = scan[t]
  BY <1>1
<1> QED BY <1>2, <1>3 DEF Turns

LEMMA RestingIs == CooldownAssumption => Resting \in State
  BY NoMarksCool, Bounds DEF Resting, State, Phases, Times

LEMMA ScanTurns ==
  ASSUME CooldownAssumption, Typed, NEW s \in Scanners, Scan(s)
  PROVE  Turns(s, "load", now, NoMarks, {}, {}, "closed")
<1>1. PICK found \in SUBSET Keys :
        Becomes(s, [Resting EXCEPT !.pc = "load", !.at = now, !.found = found])
  BY DEF Scan
<1> DEFINE st == [Resting EXCEPT !.pc = "load", !.at = now, !.found = found]
<1>2. Resting \in State /\ now \in Times
  BY RestingIs DEF Typed
<1>3. /\ Resting.cool = NoMarks /\ Resting.todo = {}
      /\ Resting.sent = {} /\ Resting.handle = "closed"
  BY DEF Resting
<1>4. /\ st.pc = "load" /\ st.at = now /\ st.cool = NoMarks
      /\ st.todo = {} /\ st.sent = {} /\ st.handle = "closed"
  BY <1>2, <1>3 DEF State
<1>5. st \in State
  BY <1>2 DEF State, Phases
<1>6. Becomes(s, st)
  BY <1>1
<1> HIDE DEF st
<1> QED BY <1>4, <1>5, <1>6, BecomesTurns

LEMMA LoadTurns ==
  ASSUME CooldownAssumption, Typed, NEW s \in Scanners, Load(s)
  PROVE  Turns(s, "emit", scan[s].at, Loaded, Fresh(scan[s].found, Loaded, scan[s].at),
               scan[s].sent, scan[s].handle)
<1> DEFINE T == Fresh(scan[s].found, Loaded, scan[s].at)
           st == [scan[s] EXCEPT !.pc = "emit", !.cool = Loaded, !.found = {}, !.todo = T]
<1>1. Becomes(s, st)
  BY DEF Load
<1>2. scan[s] \in State /\ Loaded \in Cooldowns
  BY LoadedCool DEF Typed
<1>3. T \in SUBSET Keys
  BY <1>2 DEF Fresh, State
<1> HIDE DEF T
<1>4. /\ st.pc = "emit" /\ st.at = scan[s].at /\ st.cool = Loaded /\ st.todo = T
      /\ st.sent = scan[s].sent /\ st.handle = scan[s].handle
  BY <1>2 DEF State
<1>5. st \in State
  BY <1>2, <1>3 DEF State, Phases
<1> HIDE DEF st
<1> QED BY <1>1, <1>4, <1>5, BecomesTurns DEF T

LEMMA EmitTurns ==
  ASSUME CooldownAssumption, Typed, NEW s \in Scanners, NEW k \in scan[s].todo
  PROVE  /\ EmitQueues(s, k) \/ EmitSwallows(s, k) =>
              Turns(s, scan[s].pc, scan[s].at, scan[s].cool, scan[s].todo \ {k},
                    scan[s].sent \cup {k}, scan[s].handle)
         /\ EmitRaises(s, k) =>
              Turns(s, scan[s].pc, scan[s].at, scan[s].cool, scan[s].todo \ {k},
                    scan[s].sent, scan[s].handle)
<1> DEFINE sending == [scan[s] EXCEPT !.todo = scan[s].todo \ {k},
                                      !.sent = scan[s].sent \cup {k}]
           dropping == [scan[s] EXCEPT !.todo = scan[s].todo \ {k}]
<1>1. scan[s] \in State /\ k \in Keys
  BY DEF Typed, State
<1>2. /\ sending \in State /\ sending.pc = scan[s].pc /\ sending.at = scan[s].at
      /\ sending.cool = scan[s].cool /\ sending.handle = scan[s].handle
      /\ sending.todo = scan[s].todo \ {k} /\ sending.sent = scan[s].sent \cup {k}
  BY <1>1 DEF State
<1>3. /\ dropping \in State /\ dropping.pc = scan[s].pc /\ dropping.at = scan[s].at
      /\ dropping.cool = scan[s].cool /\ dropping.handle = scan[s].handle
      /\ dropping.todo = scan[s].todo \ {k} /\ dropping.sent = scan[s].sent
  BY <1>1 DEF State
<1>4. /\ EmitQueues(s, k) \/ EmitSwallows(s, k) => Becomes(s, sending)
      /\ EmitRaises(s, k) => Becomes(s, dropping)
  BY DEF EmitQueues, EmitSwallows, EmitRaises
<1> HIDE DEF sending, dropping
<1>5. ASSUME EmitQueues(s, k) \/ EmitSwallows(s, k)
      PROVE  Turns(s, scan[s].pc, scan[s].at, scan[s].cool, scan[s].todo \ {k},
                   scan[s].sent \cup {k}, scan[s].handle)
  <2>1. Becomes(s, sending)
    BY <1>4, <1>5
  <2> QED BY <2>1, <1>2, BecomesTurns
<1>6. ASSUME EmitRaises(s, k)
      PROVE  Turns(s, scan[s].pc, scan[s].at, scan[s].cool, scan[s].todo \ {k},
                   scan[s].sent, scan[s].handle)
  <2>1. Becomes(s, dropping)
    BY <1>4, <1>6
  <2> QED BY <2>1, <1>3, BecomesTurns
<1> QED BY <1>5, <1>6

LEMMA OpenTurns ==
  ASSUME CooldownAssumption, Typed, NEW s \in Scanners, SaveOpen(s)
  PROVE  Turns(s, "write", scan[s].at, Saved(s), scan[s].todo, scan[s].sent, "tmp")
<1> DEFINE st == [scan[s] EXCEPT !.pc = "write", !.handle = "tmp", !.cool = Saved(s)]
<1>1. Becomes(s, st)
  BY DEF SaveOpen
<1>2. scan[s] \in State /\ Saved(s) \in Cooldowns
  BY SavedIs DEF Typed
<1>3. /\ st.pc = "write" /\ st.at = scan[s].at /\ st.cool = Saved(s)
      /\ st.todo = scan[s].todo /\ st.sent = scan[s].sent /\ st.handle = "tmp"
  BY <1>2 DEF State
<1>4. st \in State
  BY <1>2 DEF State, Phases
<1> HIDE DEF st
<1> QED BY <1>1, <1>3, <1>4, BecomesTurns

LEMMA WriteTurns ==
  ASSUME CooldownAssumption, Typed, NEW s \in Scanners, SaveWrite(s)
  PROVE  Turns(s, "replace", scan[s].at, scan[s].cool, scan[s].todo, scan[s].sent, "closed")
<1> DEFINE st == [scan[s] EXCEPT !.pc = "replace", !.handle = "closed"]
<1>1. Becomes(s, st)
  BY DEF SaveWrite
<1>2. scan[s] \in State
  BY DEF Typed
<1>3. /\ st.pc = "replace" /\ st.at = scan[s].at /\ st.cool = scan[s].cool
      /\ st.todo = scan[s].todo /\ st.sent = scan[s].sent /\ st.handle = "closed"
  BY <1>2 DEF State
<1>4. st \in State
  BY <1>2 DEF State, Phases
<1> HIDE DEF st
<1> QED BY <1>1, <1>3, <1>4, BecomesTurns

AfterPc(s) == IF scan[s].sent = {} THEN "idle" ELSE "record"
AfterAt(s) == IF scan[s].sent = {} THEN 0 ELSE scan[s].at

LEMMA AfterIs ==
  ASSUME CooldownAssumption, Typed, NEW s \in Scanners
  PROVE  /\ AfterSave(s) \in State
         /\ AfterSave(s).pc = AfterPc(s) /\ AfterSave(s).at = AfterAt(s)
         /\ AfterSave(s).cool = NoMarks /\ AfterSave(s).todo = {}
         /\ AfterSave(s).sent = scan[s].sent /\ AfterSave(s).handle = "closed"
<1>1. scan[s].sent \in SUBSET Keys /\ scan[s].at \in Times
  BY DEF Typed, State
<1>2. CASE scan[s].sent = {}
  <2>1. AfterSave(s) = Resting
    BY <1>2 DEF AfterSave
  <2> QED BY <2>1, <1>2, RestingIs DEF Resting, AfterPc, AfterAt
<1>3. CASE scan[s].sent # {}
  <2>1. AfterSave(s) = [pc |-> "record", at |-> scan[s].at, found |-> {}, cool |-> NoMarks,
                        todo |-> {}, sent |-> scan[s].sent, handle |-> "closed"]
    BY <1>3 DEF AfterSave, Resting
  <2>2. AfterSave(s) \in State
    BY <2>1, <1>1, NoMarksCool DEF State, Phases
  <2> QED BY <2>1, <2>2, <1>3 DEF AfterPc, AfterAt
<1> QED BY <1>2, <1>3

AfterTurns(s) == Turns(s, AfterPc(s), AfterAt(s), NoMarks, {}, scan[s].sent, "closed")

LEMMA ReplaceTurns ==
  ASSUME CooldownAssumption, Typed, NEW s \in Scanners, SaveReplace(s)
  PROVE  AfterTurns(s)
<1>1. CASE Becomes(s, AfterSave(s))
  BY <1>1, AfterIs, BecomesTurns DEF AfterTurns
<1>2. CASE scan' = [t \in Scanners |->
                      IF t = s THEN AfterSave(s)
                      ELSE [scan[t] EXCEPT !.handle = Renamed(scan[t].handle)]]
  <2>1. scan'[s] = AfterSave(s)
    BY <1>2
  <2>2. ASSUME NEW t \in Scanners \ {s}
        PROVE  /\ scan'[t].pc = scan[t].pc /\ scan'[t].at = scan[t].at
               /\ scan'[t].cool = scan[t].cool /\ scan'[t].todo = scan[t].todo
               /\ scan'[t].sent = scan[t].sent /\ scan'[t] \in State
               /\ scan[t].handle = "closed" => scan'[t].handle = "closed"
    <3>1. scan[t] \in State
      BY DEF Typed
    <3>2. scan'[t] = [scan[t] EXCEPT !.handle = Renamed(scan[t].handle)]
      BY <1>2
    <3>3. Renamed(scan[t].handle) \in {"closed", "tmp", "file", "gone"}
      BY <3>1 DEF Renamed, State
    <3>4. scan[t].handle = "closed" => Renamed(scan[t].handle) = "closed"
      BY DEF Renamed
    <3> QED BY <3>1, <3>2, <3>3, <3>4 DEF State
  <2>3. scan' = [t \in Scanners |-> scan'[t]]
    BY <1>2
  <2>4. scan' \in [Scanners -> State]
    BY <2>1, <2>2, <2>3, AfterIs
  <2> QED BY <2>1, <2>2, <2>4, AfterIs DEF AfterTurns, Turns
<1> QED BY <1>1, <1>2 DEF SaveReplace

LEMMA FailsTurns ==
  ASSUME CooldownAssumption, Typed, NEW s \in Scanners, SaveFails(s)
  PROVE  AfterTurns(s)
  BY AfterIs, BecomesTurns DEF SaveFails, AfterTurns

LEMMA RestTurns ==
  ASSUME CooldownAssumption, Typed, NEW s \in Scanners, Record(s) \/ Crash(s)
  PROVE  Turns(s, "idle", 0, NoMarks, {}, {}, "closed")
<1>1. Becomes(s, Resting)
  BY DEF Record, Crash
<1>2. /\ Resting.pc = "idle" /\ Resting.at = 0 /\ Resting.cool = NoMarks
      /\ Resting.todo = {} /\ Resting.sent = {} /\ Resting.handle = "closed"
  BY DEF Resting
<1> QED BY <1>1, <1>2, RestingIs, BecomesTurns

-----------------------------------------------------------------------------
LEMMA InitTyped == CooldownAssumption /\ Init => Typed
<1> SUFFICES ASSUME CooldownAssumption, Init PROVE Typed
  OBVIOUS
<1>1. /\ now \in Times /\ 0 \in 0 .. MaxFaults /\ 0 \in 0 .. MaxCrashes
  BY Bounds DEF Init, Times
<1>2. scan \in [Scanners -> State] /\ \A s \in Scanners : scan[s] = Resting
  BY RestingIs DEF Init
<1>3. \A s \in Scanners : scan[s].todo \cap scan[s].sent = {} /\ scan[s].at <= now
                         /\ (scan[s].pc \in {"idle", "load"} => scan[s].sent = {})
  BY <1>2 DEF Resting, Init
<1>4. returned \in Stamps /\ queued \in Stamps
  BY DEF Init, Stamps
<1> QED BY <1>1, <1>2, <1>3, <1>4 DEF Init, Typed, Files

LEMMA LatestIs ==
  ASSUME NEW when \in Stamps, NEW k \in Keys, NEW at \in Times
  PROVE  /\ Latest(when, k, at) \in Stamps
         /\ \A j \in Keys : j # k => Latest(when, k, at)[j] = when[j]
         /\ \A j \in Keys : Latest(when, k, at)[j] >= when[j]
         /\ Latest(when, k, at)[k] = IF when[k] > at THEN when[k] ELSE at
<1>1. at \in Int /\ \A j \in Keys : when[j] \in Int
  BY DEF Stamps, Times, Never
<1>2. CASE when[k] > at
  BY <1>1, <1>2 DEF Latest
<1>3. CASE ~(when[k] > at)
  <2>1. Latest(when, k, at) = [when EXCEPT ![k] = at]
    BY <1>3 DEF Latest
  <2> QED BY <2>1, <1>1, <1>3 DEF Stamps
<1> QED BY <1>2, <1>3

(* A typed scan after a turn. *)
LEMMA TurnTyped ==
  ASSUME Typed, NEW s \in Scanners, NEW pc, NEW at, NEW cool, NEW todo, NEW sent, NEW handle,
         Turns(s, pc, at, cool, todo, sent, handle), todo \cap sent = {}, at <= now, now' = now,
         pc \in {"idle", "load"} => sent = {}
  PROVE  /\ scan' \in [Scanners -> State]
         /\ \A t \in Scanners : scan'[t].todo \cap scan'[t].sent = {}
         /\ \A t \in Scanners : scan'[t].at <= now'
         /\ \A t \in Scanners : scan'[t].pc \in {"idle", "load"} => scan'[t].sent = {}
  BY DEF Typed, Turns

LEMMA EmitTyped == ASSUME CooldownAssumption, Typed, NEW s \in Scanners, Emit(s) PROVE Typed'
<1>1. PICK k \in scan[s].todo : EmitQueues(s, k) \/ EmitSwallows(s, k) \/ EmitRaises(s, k)
  BY DEF Emit
<1>2. k \in Keys /\ scan[s].at \in Times /\ scan[s].todo \cap scan[s].sent = {}
      /\ scan[s].at <= now /\ scan[s].pc = "emit"
  BY DEF Typed, State, Emit
<1>3. UNCHANGED <<now, file, tmp, rows, crashes, unrecorded>>
  BY DEF Emit
<1>4. \E sent : Turns(s, scan[s].pc, scan[s].at, scan[s].cool, scan[s].todo \ {k}, sent,
                      scan[s].handle) /\ (scan[s].todo \ {k}) \cap sent = {}
  <2>1. CASE EmitQueues(s, k) \/ EmitSwallows(s, k)
    <3>1. Turns(s, scan[s].pc, scan[s].at, scan[s].cool, scan[s].todo \ {k},
                scan[s].sent \cup {k}, scan[s].handle)
      BY <2>1, EmitTurns
    <3>2. (scan[s].todo \ {k}) \cap (scan[s].sent \cup {k}) = {}
      BY <1>2
    <3> QED BY <3>1, <3>2
  <2>2. CASE EmitRaises(s, k)
    <3>1. Turns(s, scan[s].pc, scan[s].at, scan[s].cool, scan[s].todo \ {k},
                scan[s].sent, scan[s].handle)
      BY <2>2, EmitTurns
    <3>2. (scan[s].todo \ {k}) \cap scan[s].sent = {}
      BY <1>2
    <3> QED BY <3>1, <3>2
  <2> QED BY <1>1, <2>1, <2>2
<1>5. /\ scan' \in [Scanners -> State]
      /\ \A t \in Scanners : scan'[t].todo \cap scan'[t].sent = {}
      /\ \A t \in Scanners : scan'[t].at <= now'
      /\ \A t \in Scanners : scan'[t].pc \in {"idle", "load"} => scan'[t].sent = {}
  BY <1>2, <1>3, <1>4, TurnTyped
<1>6. /\ returned' \in Stamps /\ queued' \in Stamps /\ twice' \subseteq Keys
      /\ unmarked' \subseteq Keys
  BY <1>1, <1>2, LatestIs DEF EmitQueues, EmitSwallows, EmitRaises, Queue, Typed
<1>7. faults' \in 0 .. MaxFaults
  BY <1>1, Bounds DEF EmitQueues, EmitSwallows, EmitRaises, Typed
<1> QED BY <1>3, <1>5, <1>6, <1>7 DEF Typed

LEMMA TypedStep == CooldownAssumption /\ Typed /\ [Next]_vars => Typed'
<1> SUFFICES ASSUME CooldownAssumption, Typed, [Next]_vars PROVE Typed'
  OBVIOUS
<1>0. now \in Nat /\ now \in Times
  BY Bounds DEF Typed, Times
<1>1. CASE UNCHANGED vars
  BY <1>1 DEF vars, hist, calls, Typed
<1>2. CASE Tick
  <2>1. /\ now' \in Times /\ now <= now'
        /\ UNCHANGED <<file, tmp, scan, rows, faults, crashes, hist>>
    BY <1>0, <1>2, Bounds DEF Tick, Times
  <2>2. \A s \in Scanners : scan[s].at <= now'
    BY <2>1, <1>0 DEF Typed, State, Times
  <2> QED BY <2>1, <2>2 DEF Typed, hist, calls
<1> SUFFICES ASSUME NEW s \in Scanners,
                    \/ Scan(s) \/ Load(s) \/ Emit(s)
                    \/ SaveOpen(s) \/ SaveWrite(s) \/ SaveReplace(s) \/ SaveFails(s)
                    \/ Record(s) \/ Crash(s)
             PROVE  Typed'
  BY <1>1, <1>2 DEF Next
<1>3. /\ scan[s] \in State /\ scan[s].todo \cap scan[s].sent = {} /\ scan[s].at <= now
      /\ 0 <= now
  BY <1>0 DEF Typed
<1> DEFINE Fine == /\ scan' \in [Scanners -> State]
                   /\ \A t \in Scanners : scan'[t].todo \cap scan'[t].sent = {}
                   /\ \A t \in Scanners : scan'[t].at <= now'
                   /\ \A t \in Scanners :
                        scan'[t].pc \in {"idle", "load"} => scan'[t].sent = {}
<1>4. CASE Scan(s)
  <2>1. UNCHANGED <<now, file, tmp, rows, faults, crashes, hist>>
    BY <1>4 DEF Scan
  <2>2. Fine
    BY <1>4, <1>0, <2>1, ScanTurns, TurnTyped
  <2> QED BY <2>1, <2>2 DEF Typed, hist, calls
<1>5. CASE Load(s)
  <2>1. UNCHANGED <<now, file, tmp, rows, faults, crashes, hist>>
    BY <1>5 DEF Load
  <2>2. scan[s].sent = {}
    BY <1>5 DEF Load, Typed
  <2>3. Fine
    BY <1>5, <1>3, <2>1, <2>2, LoadTurns, TurnTyped
  <2> QED BY <2>1, <2>3 DEF Typed, hist, calls
<1>6. CASE Emit(s)
  BY <1>6, EmitTyped
<1>7. CASE SaveOpen(s)
  <2>1. UNCHANGED <<now, file, rows, faults, crashes, hist>> /\ tmp' \in Files
    BY <1>7 DEF SaveOpen, Files
  <2>2. Fine
    BY <1>7, <1>3, <2>1, OpenTurns, TurnTyped
  <2> QED BY <2>1, <2>2 DEF Typed, hist, calls
<1>8. CASE SaveWrite(s)
  <2>1. UNCHANGED <<now, rows, faults, crashes, hist>>
    BY <1>8 DEF SaveWrite
  <2>2. tmp' \in Files /\ file' \in Files
    BY <1>8, <1>3 DEF SaveWrite, Overlay, Files, State, Typed
  <2>3. Fine
    BY <1>8, <1>3, <2>1, WriteTurns, TurnTyped
  <2> QED BY <2>1, <2>2, <2>3 DEF Typed, hist, calls
<1>9. AfterAt(s) <= now /\ (AfterPc(s) \in {"idle", "load"} => scan[s].sent = {})
  BY <1>3 DEF AfterAt, AfterPc
<1>10. CASE SaveReplace(s)
  <2>1. /\ UNCHANGED <<now, rows, faults, crashes, calls, unrecorded>>
        /\ unmarked' \subseteq Keys
    BY <1>10, <1>3 DEF SaveReplace, State, Typed
  <2>2. tmp' \in Files /\ file' \in Files
    BY <1>10 DEF SaveReplace, Files, Typed
  <2>3. Fine
    BY <1>10, <1>9, <2>1, ReplaceTurns, TurnTyped DEF AfterTurns
  <2> QED BY <2>1, <2>2, <2>3 DEF Typed, hist, calls
<1>11. CASE SaveFails(s)
  <2>1. /\ UNCHANGED <<now, file, tmp, rows, crashes, calls, unrecorded>>
        /\ faults' \in 0 .. MaxFaults /\ unmarked' \subseteq Keys
    BY <1>11, <1>3, Bounds DEF SaveFails, State, Typed
  <2>2. Fine
    BY <1>11, <1>9, <2>1, FailsTurns, TurnTyped DEF AfterTurns
  <2> QED BY <2>1, <2>2 DEF Typed, hist, calls
<1>12. CASE Record(s)
  <2>1. /\ UNCHANGED <<now, file, tmp, crashes, calls, unmarked>>
        /\ unrecorded' \subseteq Keys
    BY <1>12, <1>3 DEF Record, State, Typed
  <2>2. PICK recorded, pruned \in BOOLEAN :
          LET written == IF recorded THEN rows \cup (scan[s].sent \X {now}) ELSE rows
              failed  == (IF recorded THEN 0 ELSE 1) + (IF pruned THEN 0 ELSE 1)
          IN /\ rows' = IF pruned THEN {r \in written : ~Expired(r)} ELSE written
             /\ faults + failed <= MaxFaults /\ faults' = faults + failed
    BY <1>12 DEF Record
  <2>3. faults' \in 0 .. MaxFaults
    BY <2>2, Bounds DEF Typed
  <2>4. rows' \subseteq Keys \X Times
    <3>1. scan[s].sent \X {now} \subseteq Keys \X Times
      BY <1>3, <1>0 DEF State
    <3> QED BY <2>2, <3>1 DEF Typed
  <2>5. Fine
    BY <1>12, <1>3, <2>1, RestTurns, TurnTyped
  <2> QED BY <2>1, <2>3, <2>4, <2>5 DEF Typed, hist, calls
<1>13. CASE Crash(s)
  <2>1. /\ UNCHANGED <<now, file, tmp, rows, faults, calls>>
        /\ crashes' \in 0 .. MaxCrashes
        /\ unmarked' \subseteq Keys /\ unrecorded' \subseteq Keys
    BY <1>13, <1>3, Bounds DEF Crash, State, Typed
  <2>2. Fine
    BY <1>13, <1>3, <2>1, RestTurns, TurnTyped
  <2> QED BY <2>1, <2>2 DEF Typed, hist, calls
<1> QED BY <1>4, <1>5, <1>6, <1>7, <1>8, <1>10, <1>11, <1>12, <1>13

-----------------------------------------------------------------------------
(* NotSilenced, for any scanners: whatever map of cooldowns is about, each of  *)
(* its marks stands for a call that returned.                                *)
Meant(c) == \A k \in DOMAIN c : returned[k] >= c[k]

Honest ==
  /\ Meant(Loaded) /\ (tmp \notin {NoFile, Cut} => Meant(tmp))
  /\ \A s \in Scanners : /\ Meant(scan[s].cool)
                         /\ \A k \in scan[s].sent : returned[k] >= scan[s].at

LEMMA NoMarksMeant == Meant(NoMarks) /\ Meant(NoMarks)'
<1>1. DOMAIN NoMarks = {}
  BY NoMarksCool
<1> QED BY <1>1 DEF Meant

LEMMA InitHonest == CooldownAssumption /\ Init => Honest
<1> SUFFICES ASSUME CooldownAssumption, Init PROVE Honest
  OBVIOUS
<1>1. \A s \in Scanners : scan[s].cool = NoMarks /\ scan[s].sent = {}
  BY DEF Init, Resting
<1>2. Loaded = NoMarks /\ tmp = NoFile
  BY DEF Init, Loaded
<1> QED BY <1>1, <1>2, NoMarksMeant DEF Honest

(* The parts of Honest after a step, from what the step did. *)
LEMMA HonestAfter ==
  ASSUME Typed, Typed', Honest, NEW s \in Scanners,
         NEW pc, NEW at, NEW cool, NEW todo, NEW sent, NEW handle,
         Turns(s, pc, at, cool, todo, sent, handle),
         \A k \in Keys : returned'[k] >= returned[k],
         cool \in Cooldowns, sent \in SUBSET Keys, at \in Times,
         \A k \in DOMAIN cool : returned'[k] >= cool[k],
         \A k \in sent : returned'[k] >= at
  PROVE  /\ \A t \in Scanners : /\ Meant(scan[t].cool)'
                                /\ \A k \in scan'[t].sent : returned'[k] >= scan'[t].at
         /\ \A c \in Cooldowns : Meant(c) => \A k \in DOMAIN c : returned'[k] >= c[k]
<1>1. \A k \in Keys : returned[k] \in Int /\ returned'[k] \in Int
  BY DEF Typed, Stamps, Times, Never
<1>2. ASSUME NEW c \in Cooldowns, Meant(c)
      PROVE  \A k \in DOMAIN c : returned'[k] >= c[k]
  <2>1. \A k \in DOMAIN c : k \in Keys /\ c[k] \in Int /\ returned[k] >= c[k]
    BY <1>2, CoolIs DEF Meant, Times
  <2> QED BY <2>1, <1>1
<1>3. ASSUME NEW t \in Scanners
      PROVE  /\ \A k \in DOMAIN scan'[t].cool : returned'[k] >= scan'[t].cool[k]
             /\ \A k \in scan'[t].sent : returned'[k] >= scan'[t].at
  <2>1. CASE t = s
    BY <2>1 DEF Turns
  <2>2. CASE t # s
    <3>1. /\ scan'[t].cool = scan[t].cool /\ scan'[t].sent = scan[t].sent
          /\ scan'[t].at = scan[t].at
      BY <2>2 DEF Turns
    <3>2. /\ scan[t].cool \in Cooldowns /\ scan[t].sent \in SUBSET Keys
          /\ scan[t].at \in Int
      BY DEF Typed, State, Times
    <3>3. Meant(scan[t].cool) /\ \A k \in scan[t].sent : returned[k] >= scan[t].at
      BY DEF Honest
    <3>4. \A k \in scan[t].sent : returned'[k] >= scan[t].at
      BY <3>2, <3>3, <1>1
    <3> QED BY <3>1, <3>2, <3>3, <3>4, <1>2
  <2> QED BY <2>1, <2>2
<1>4. \A t \in Scanners : Meant(scan[t].cool)'
  BY <1>3 DEF Meant
<1> QED BY <1>2, <1>3, <1>4

LEMMA HonestStep ==
  CooldownAssumption /\ Typed /\ Typed' /\ Honest /\ [Next]_vars => Honest'
<1> SUFFICES ASSUME CooldownAssumption, Typed, Typed', Honest, [Next]_vars PROVE Honest'
  OBVIOUS
<1>1. CASE UNCHANGED vars \/ Tick
  <2>1. UNCHANGED <<file, tmp, scan, returned>>
    BY <1>1 DEF vars, Tick, hist, calls
  <2> QED BY <2>1 DEF Honest, Meant, Loaded
<1> SUFFICES ASSUME NEW s \in Scanners,
                    \/ Scan(s) \/ Load(s) \/ Emit(s)
                    \/ SaveOpen(s) \/ SaveWrite(s) \/ SaveReplace(s) \/ SaveFails(s)
                    \/ Record(s) \/ Crash(s)
             PROVE  Honest'
  BY <1>1 DEF Next
<1>0. PICK a, c, S : /\ a = scan[s].at /\ c = scan[s].cool /\ S = scan[s].sent
                     /\ a \in Times /\ c \in Cooldowns /\ S \in SUBSET Keys
                     /\ Meant(c) /\ \A k \in S : returned[k] >= a
  BY DEF Typed, State, Honest
<1>2. Loaded \in Cooldowns /\ Meant(Loaded) /\ NoMarks \in Cooldowns /\ DOMAIN NoMarks = {}
      /\ now \in Times /\ 0 \in Times
  BY LoadedCool, NoMarksCool, Bounds DEF Honest, Typed, Times
<1>3. \A k \in Keys : returned[k] \in Int /\ returned'[k] \in Int
  BY DEF Typed, Stamps, Times, Never
<1> DEFINE Rest == /\ \A t \in Scanners :
                        /\ Meant(scan[t].cool)'
                        /\ \A k \in scan'[t].sent : returned'[k] >= scan'[t].at
                   /\ \A d \in Cooldowns :
                        Meant(d) => \A k \in DOMAIN d : returned'[k] >= d[k]
           Stored == /\ \A k \in DOMAIN Loaded' : returned'[k] >= Loaded'[k]
                     /\ tmp' \notin {NoFile, Cut} =>
                          \A k \in DOMAIN tmp' : returned'[k] >= tmp'[k]
<1>4. Rest /\ Stored => Honest'
  BY DEF Honest, Meant
<1>5. ASSUME Rest, UNCHANGED <<file, tmp>> PROVE Honest'
  <2>1. Loaded' = Loaded
    BY <1>5 DEF Loaded
  <2>2. tmp \notin {NoFile, Cut} => tmp \in Cooldowns /\ Meant(tmp)
    BY DEF Typed, Files, Honest
  <2> QED BY <1>2, <1>4, <1>5, <2>1, <2>2
<1>6. CASE Scan(s)
  <2>1. returned' = returned /\ UNCHANGED <<file, tmp>>
    BY <1>6 DEF Scan, hist, calls
  <2>2. Rest
    BY <1>2, <1>3, <1>6, <2>1, ScanTurns, HonestAfter
  <2> QED BY <1>5, <2>1, <2>2
<1>7. CASE Load(s)
  <2>1. returned' = returned /\ UNCHANGED <<file, tmp>>
    BY <1>7 DEF Load, hist, calls
  <2>2. Rest
    BY <1>0, <1>2, <1>3, <1>7, <2>1, LoadTurns, HonestAfter DEF Meant
  <2> QED BY <1>5, <2>1, <2>2
<1>8. CASE Emit(s)
  <2>1. PICK k \in scan[s].todo : EmitQueues(s, k) \/ EmitSwallows(s, k) \/ EmitRaises(s, k)
    BY <1>8 DEF Emit
  <2>2. k \in Keys /\ UNCHANGED <<file, tmp>>
    BY <1>8 DEF Typed, State, Emit
  <2>3. CASE EmitQueues(s, k) \/ EmitSwallows(s, k)
    <3>1. returned' = Latest(returned, k, a)
      BY <1>0, <2>3 DEF EmitQueues, EmitSwallows
    <3>2. (\A j \in Keys : returned'[j] >= returned[j]) /\ returned'[k] >= a
      <4>1. returned \in Stamps /\ a \in Int
        BY <1>0 DEF Typed, Times
      <4>2. /\ \A j \in Keys : Latest(returned, k, a)[j] >= returned[j]
            /\ Latest(returned, k, a)[k] = IF returned[k] > a THEN returned[k] ELSE a
        BY <1>0, <2>2, <4>1, LatestIs
      <4> QED BY <4>1, <4>2, <3>1, <1>3, <2>2
    <3>3. Turns(s, scan[s].pc, a, c, scan[s].todo \ {k}, S \cup {k}, scan[s].handle)
      BY <1>0, <2>3, EmitTurns
    <3>4. \A j \in S \cup {k} : returned'[j] >= a
      BY <1>0, <1>3, <2>2, <3>2 DEF Times
    <3>5. \A j \in DOMAIN c : returned'[j] >= c[j]
      <4>1. \A j \in DOMAIN c : j \in Keys /\ c[j] \in Int /\ returned[j] >= c[j]
        BY <1>0, CoolIs DEF Meant, Times
      <4> QED BY <4>1, <3>2, <1>3
    <3>6. S \cup {k} \in SUBSET Keys
      BY <1>0, <2>2
    <3>7. Rest
      BY <1>0, <3>2, <3>3, <3>4, <3>5, <3>6, HonestAfter
    <3> QED BY <1>5, <2>2, <3>7
  <2>4. CASE EmitRaises(s, k)
    <3>1. returned' = returned
      BY <2>4 DEF EmitRaises
    <3>2. Turns(s, scan[s].pc, a, c, scan[s].todo \ {k}, S, scan[s].handle)
      BY <1>0, <2>4, EmitTurns
    <3>3. Rest
      BY <1>0, <1>3, <3>1, <3>2, HonestAfter DEF Meant
    <3> QED BY <1>5, <2>2, <3>3
  <2> QED BY <2>1, <2>3, <2>4
<1>9. CASE SaveOpen(s)
  <2>1. returned' = returned /\ file' = file /\ tmp' = Cut
    BY <1>9 DEF SaveOpen, hist, calls
  <2>2. /\ Saved(s) \in Cooldowns
        /\ \A k \in DOMAIN Saved(s) : returned[k] >= Saved(s)[k]
    BY <1>0, SavedIs DEF Meant
  <2>3. Rest
    BY <1>0, <1>3, <1>9, <2>1, <2>2, OpenTurns, HonestAfter
  <2>4. Stored
    BY <1>2, <2>1 DEF Loaded, Meant
  <2> QED BY <1>4, <2>3, <2>4
<1>10. CASE SaveWrite(s)
  <2>1. returned' = returned
    BY <1>10 DEF SaveWrite, hist, calls
  <2>2. Rest
    BY <1>0, <1>3, <1>10, <2>1, WriteTurns, HonestAfter DEF Meant
  <2>3. tmp' \in {tmp, c, Cut} /\ file' \in {file, c, Cut}
    BY <1>0, <1>10 DEF SaveWrite, Overlay
  <2>4. Stored
    BY <1>0, <1>2, <2>1, <2>3 DEF Loaded, Meant, Honest
  <2> QED BY <1>4, <2>2, <2>4
<1>11. \A k \in S : returned[k] >= AfterAt(s)
  BY <1>0 DEF AfterAt
<1>12. AfterAt(s) \in Times
  BY <1>0, <1>2 DEF AfterAt
<1>13. CASE SaveReplace(s)
  <2>1. returned' = returned
    BY <1>13 DEF SaveReplace, hist, calls
  <2>2. Rest
    BY <1>0, <1>2, <1>3, <1>11, <1>12, <1>13, <2>1, ReplaceTurns, HonestAfter DEF AfterTurns
  <2>3. tmp' \in {tmp, NoFile} /\ file' \in {file, tmp}
    BY <1>13 DEF SaveReplace
  <2>4. Stored
    BY <1>2, <2>1, <2>3 DEF Loaded, Meant, Honest
  <2> QED BY <1>4, <2>2, <2>4
<1>14. CASE SaveFails(s)
  <2>1. returned' = returned /\ UNCHANGED <<file, tmp>>
    BY <1>14 DEF SaveFails, hist, calls
  <2>2. Rest
    BY <1>0, <1>2, <1>3, <1>11, <1>12, <1>14, <2>1, FailsTurns, HonestAfter DEF AfterTurns
  <2> QED BY <1>5, <2>1, <2>2
<1>15. CASE Record(s) \/ Crash(s)
  <2>1. returned' = returned /\ UNCHANGED <<file, tmp>>
    BY <1>15 DEF Record, Crash, hist, calls
  <2>2. Rest
    BY <1>2, <1>3, <1>15, <2>1, RestTurns, HonestAfter
  <2> QED BY <1>5, <2>1, <2>2
<1> QED BY <1>6, <1>7, <1>8, <1>9, <1>10, <1>13, <1>14, <1>15

-----------------------------------------------------------------------------
(* When no two scans overlap, whichever of the scanners they are of: the others *)
(* rest while one moves.                                                     *)
NoOverlap ==
  \A s, t \in Scanners : scan[s].pc # "idle" /\ scan[t].pc # "idle" => s = t

Moves(s) ==
  \/ Scan(s) \/ Load(s) \/ Emit(s)
  \/ SaveOpen(s) \/ SaveWrite(s) \/ SaveReplace(s) \/ SaveFails(s)
  \/ Record(s) \/ Crash(s)

OthersRest(s) == \A t \in Scanners \ {s} : scan[t].pc = "idle"

LEMMA OneMoves ==
  ASSUME CooldownAssumption, Typed, NoOverlap, NoOverlap', NEW s \in Scanners, Moves(s)
  PROVE  OthersRest(s)
<1>1. CASE scan[s].pc # "idle"
  BY <1>1 DEF NoOverlap, OthersRest
<1>2. CASE scan[s].pc = "idle"
  <2>1. Scan(s)
    BY <1>2 DEF Moves, Load, Emit, SaveOpen, SaveWrite, SaveReplace, SaveFails, Record, Crash
  <2>2. Turns(s, "load", now, NoMarks, {}, {}, "closed")
    BY <2>1, ScanTurns
  <2>3. scan'[s].pc = "load" /\ \A t \in Scanners \ {s} : scan'[t].pc = scan[t].pc
    BY <2>2 DEF Turns
  <2> QED BY <2>3 DEF NoOverlap, OthersRest
<1> QED BY <1>1, <1>2

(* Readable: the temporary file is cut only between its truncation and its      *)
(* write, and published only when it is written.                             *)
Whole ==
  /\ file # Cut
  /\ \A s \in Scanners :
       /\ scan[s].handle = IF scan[s].pc = "write" THEN "tmp" ELSE "closed"
       /\ scan[s].pc = "write" => tmp = Cut
       /\ scan[s].pc = "replace" => tmp = scan[s].cool

LEMMA CutIsNoMap ==
  CooldownAssumption => NoFile # Cut /\ \A c \in Cooldowns : c # NoFile /\ c # Cut
  BY DEF CooldownAssumption

LEMMA InitWhole == CooldownAssumption /\ Init => Whole
<1> SUFFICES ASSUME CooldownAssumption, Init PROVE Whole
  OBVIOUS
<1>1. \A s \in Scanners : scan[s].pc = "idle" /\ scan[s].handle = "closed"
  BY DEF Init, Resting
<1> QED BY <1>1, CutIsNoMap DEF Init, Whole

LEMMA WholeAfter ==
  ASSUME Whole, NEW s \in Scanners, OthersRest(s),
         NEW pc, NEW at, NEW cool, NEW todo, NEW sent, NEW handle,
         Turns(s, pc, at, cool, todo, sent, handle), file' # Cut,
         handle = IF pc = "write" THEN "tmp" ELSE "closed",
         pc = "write" => tmp' = Cut, pc = "replace" => tmp' = cool
  PROVE  Whole'
<1>1. ASSUME NEW t \in Scanners
      PROVE  /\ scan'[t].handle = IF scan'[t].pc = "write" THEN "tmp" ELSE "closed"
             /\ scan'[t].pc = "write" => tmp' = Cut
             /\ scan'[t].pc = "replace" => tmp' = scan'[t].cool
  <2>1. CASE t = s
    BY <2>1 DEF Turns
  <2>2. CASE t # s
    <3>1. scan[t].pc = "idle" /\ scan[t].handle = "closed"
      BY <2>2 DEF OthersRest, Whole
    <3>2. scan'[t].pc = "idle" /\ scan'[t].handle = "closed"
      BY <2>2, <3>1 DEF Turns
    <3> QED BY <3>2
  <2> QED BY <2>1, <2>2
<1> QED BY <1>1 DEF Whole

LEMMA WholeStep ==
  CooldownAssumption /\ NoOverlap /\ NoOverlap' /\ Typed /\ Whole /\ [Next]_vars => Whole'
<1> SUFFICES ASSUME CooldownAssumption, NoOverlap, NoOverlap', Typed, Whole, [Next]_vars
             PROVE  Whole'
  OBVIOUS
<1>1. CASE UNCHANGED vars \/ Tick
  BY <1>1 DEF vars, Tick, Whole
<1> SUFFICES ASSUME NEW s \in Scanners, Moves(s)
             PROVE  Whole'
  BY <1>1 DEF Next, Moves
<1>2. OthersRest(s)
  BY OneMoves
<1>3. /\ scan[s].handle = (IF scan[s].pc = "write" THEN "tmp" ELSE "closed")
      /\ scan[s].pc = "write" => tmp = Cut
      /\ scan[s].pc = "replace" => tmp = scan[s].cool
      /\ scan[s].cool \in Cooldowns /\ file # Cut
  BY DEF Whole, Typed, State
<1>4. CASE Scan(s)
  BY <1>2, <1>3, <1>4, ScanTurns, WholeAfter DEF Scan
<1>5. CASE Load(s)
  <2>1. scan[s].pc = "load" /\ UNCHANGED <<file, tmp>>
    BY <1>5 DEF Load
  <2> QED BY <1>2, <1>3, <1>5, <2>1, LoadTurns, WholeAfter
<1>6. CASE Emit(s)
  <2>1. PICK k \in scan[s].todo : EmitQueues(s, k) \/ EmitSwallows(s, k) \/ EmitRaises(s, k)
    BY <1>6 DEF Emit
  <2>2. scan[s].pc = "emit" /\ UNCHANGED <<file, tmp>>
    BY <1>6 DEF Emit
  <2>3. CASE EmitQueues(s, k) \/ EmitSwallows(s, k)
    BY <1>2, <1>3, <2>2, <2>3, EmitTurns, WholeAfter
  <2>4. CASE EmitRaises(s, k)
    BY <1>2, <1>3, <2>2, <2>4, EmitTurns, WholeAfter
  <2> QED BY <2>1, <2>3, <2>4
<1>7. CASE SaveOpen(s)
  <2>1. file' = file /\ tmp' = Cut
    BY <1>7 DEF SaveOpen
  <2> QED BY <1>2, <1>3, <1>7, <2>1, OpenTurns, WholeAfter
<1>8. CASE SaveWrite(s)
  <2>1. scan[s].pc = "write" /\ scan[s].handle = "tmp" /\ tmp = Cut
    BY <1>3, <1>8 DEF SaveWrite
  <2>2. tmp' = scan[s].cool /\ file' = file
    BY <1>8, <2>1 DEF SaveWrite, Overlay
  <2> QED BY <1>2, <1>3, <1>8, <2>2, WriteTurns, WholeAfter
<1>9. AfterPc(s) \in {"idle", "record"}
  BY DEF AfterPc
<1>10. CASE SaveReplace(s)
  <2>1. file' # Cut
    BY <1>3, <1>10, CutIsNoMap DEF SaveReplace
  <2> QED BY <1>2, <1>9, <1>10, <2>1, ReplaceTurns, WholeAfter DEF AfterTurns
<1>11. CASE SaveFails(s)
  BY <1>2, <1>3, <1>9, <1>11, FailsTurns, WholeAfter DEF SaveFails, AfterTurns
<1>12. CASE Record(s) \/ Crash(s)
  BY <1>2, <1>3, <1>12, RestTurns, WholeAfter DEF Record, Crash
<1> QED BY <1>4, <1>5, <1>6, <1>7, <1>8, <1>10, <1>11, <1>12 DEF Moves

-----------------------------------------------------------------------------
(* The marks a scanner goes by are those it has read, or else those on disk;   *)
(* its clock is its stamp, or else the time.  A delivery queued has a mark as  *)
(* young, or a window behind it, or its mark was lost.                       *)
Clock(pc, n, a) == IF pc = "idle" THEN n ELSE a
Saving(pc)      == pc \in {"emit", "write", "replace"}
Mine(pc, c, L)  == IF Saving(pc) THEN c ELSE L

Settled(q, c, a, U, k) ==
  \/ k \in U \/ q[k] = Never \/ a - q[k] >= Cooldown
  \/ k \in DOMAIN c /\ c[k] >= q[k]

Timely(pc, n, a, c, L, T, S, q, U) == \A k \in Keys :
  /\ q[k] <= Clock(pc, n, a)
  /\ (pc = "emit" /\ k \in S) \/ Settled(q, Mine(pc, c, L), Clock(pc, n, a), U, k)
  /\ pc = "emit" /\ k \in T /\ k \in DOMAIN c => a - c[k] >= Cooldown

(* What a scan saves is what it read, but for what it has sent.              *)
Copied(pc, a, c, L, S) ==
  /\ Saving(pc) => \A k \in DOMAIN c \ S : k \in DOMAIN L /\ L[k] = c[k]
  /\ pc \in {"write", "replace"} => \A k \in S : k \in DOMAIN c /\ c[k] = a

(* A mark on disk has its row, or has lost it, or is old enough to be pruned;   *)
(* the scan that set it may still have its row to write.                     *)
Rowed(R, L, k) == \E r \in R : r[1] = k /\ r[2] >= L[k]
Kept(n, L, R, V, k) == n - L[k] >= Limit \/ k \in V \/ Rowed(R, L, k)
Backed(pc, n, L, S, R, V) ==
  \A k \in DOMAIN L : L[k] <= n /\ ((pc = "record" /\ k \in S) \/ Kept(n, L, R, V, k))

Fits(s) ==
  /\ Timely(scan[s].pc, now, scan[s].at, scan[s].cool, Loaded, scan[s].todo,
            scan[s].sent, queued, unmarked)
  /\ Copied(scan[s].pc, scan[s].at, scan[s].cool, Loaded, scan[s].sent)
  /\ Backed(scan[s].pc, now, Loaded, scan[s].sent, rows, unrecorded)

Exact == twice = {} /\ \A s \in Scanners : OthersRest(s) => Fits(s)

LEMMA InitExact == CooldownAssumption /\ Init => Exact
<1> SUFFICES ASSUME CooldownAssumption, Init PROVE Exact
  OBVIOUS
<1>1. \A s \in Scanners : scan[s].pc = "idle"
  BY DEF Init, Resting
<1>2. Loaded = NoMarks /\ DOMAIN NoMarks = {}
  BY NoMarksCool DEF Init, Loaded
<1>3. now = 0 /\ (\A k \in Keys : queued[k] = Never) /\ twice = {}
  BY DEF Init
<1>4. \A s \in Scanners :
        Timely(scan[s].pc, now, scan[s].at, scan[s].cool, Loaded, scan[s].todo,
               scan[s].sent, queued, unmarked)
  BY <1>1, <1>3 DEF Timely, Clock, Settled, Never
<1>5. \A s \in Scanners :
        Backed(scan[s].pc, now, Loaded, scan[s].sent, rows, unrecorded)
  BY <1>2 DEF Backed
<1>6. \A s \in Scanners :
        Copied(scan[s].pc, scan[s].at, scan[s].cool, Loaded, scan[s].sent)
  BY <1>1 DEF Copied, Saving
<1> QED BY <1>3, <1>4, <1>5, <1>6 DEF Exact, Fits

(* A scanner that rests fits whenever another one that rests does.           *)
LEMMA RestFits ==
  ASSUME NEW n, NEW a, NEW c, NEW L, NEW T, NEW S, NEW q, NEW U, NEW R, NEW V,
         NEW a2, NEW c2, NEW T2, NEW S2,
         Timely("idle", n, a, c, L, T, S, q, U), Backed("idle", n, L, S, R, V)
  PROVE  /\ Timely("idle", n, a2, c2, L, T2, S2, q, U)
         /\ Copied("idle", a2, c2, L, S2) /\ Backed("idle", n, L, S2, R, V)
<1>1. Timely("idle", n, a2, c2, L, T2, S2, q, U)
  BY DEF Timely, Clock, Mine, Saving
<1>2. Copied("idle", a2, c2, L, S2)
  BY DEF Copied, Saving
<1>3. Backed("idle", n, L, S2, R, V)
  BY DEF Backed
<1> QED BY <1>1, <1>2, <1>3

LEMMA ExactAfter ==
  ASSUME NEW s \in Scanners, OthersRest(s),
         NEW pc, NEW at, NEW cool, NEW todo, NEW sent, NEW handle,
         Turns(s, pc, at, cool, todo, sent, handle), twice' = {},
         Timely(pc, now', at, cool, Loaded', todo, sent, queued', unmarked'),
         Copied(pc, at, cool, Loaded', sent),
         Backed(pc, now', Loaded', sent, rows', unrecorded')
  PROVE  Exact'
<1> SUFFICES ASSUME NEW t \in Scanners, OthersRest(t)'
             PROVE  Fits(t)'
  BY DEF Exact
<1>1. /\ scan'[s].pc = pc /\ scan'[s].at = at /\ scan'[s].cool = cool
      /\ scan'[s].todo = todo /\ scan'[s].sent = sent
  BY DEF Turns
<1>2. CASE t = s
  BY <1>1, <1>2, Zenon DEF Fits
<1>3. CASE t # s
  <2>1. pc = "idle" /\ scan'[t].pc = "idle"
    BY <1>1, <1>3 DEF OthersRest, Turns
  <2>2. PICK a2, c2, T2, S2 : /\ a2 = scan'[t].at /\ c2 = scan'[t].cool
                              /\ T2 = scan'[t].todo /\ S2 = scan'[t].sent
    OBVIOUS
  <2>3. /\ Timely("idle", now', at, cool, Loaded', todo, sent, queued', unmarked')
        /\ Backed("idle", now', Loaded', sent, rows', unrecorded')
    BY <2>1
  <2>4. /\ Timely("idle", now', a2, c2, Loaded', T2, S2, queued', unmarked')
        /\ Copied("idle", a2, c2, Loaded', S2)
        /\ Backed("idle", now', Loaded', S2, rows', unrecorded')
    BY <2>3, RestFits
  <2> QED BY <2>1, <2>2, <2>4, Zenon DEF Fits
<1> QED BY <1>2, <1>3

-----------------------------------------------------------------------------
(* What the steps do to the clauses, on their values.                        *)
LEMMA QueueTimely ==
  ASSUME CooldownAssumption, NEW a \in Times, NEW c \in Cooldowns, NEW T \in SUBSET Keys,
         NEW S \in SUBSET Keys, NEW q \in Stamps, NEW k \in T, T \cap S = {},
         NEW n, NEW L, NEW U, Timely("emit", n, a, c, L, T, S, q, U)
  PROVE  /\ k \in U \/ q[k] = Never \/ a - q[k] >= Cooldown
         /\ Timely("emit", n, a, c, L, T \ {k}, S \cup {k}, Latest(q, k, a), U)
         /\ Timely("emit", n, a, c, L, T \ {k}, S \cup {k}, q, U)
         /\ Timely("emit", n, a, c, L, T \ {k}, S, q, U)
         /\ Timely("emit", n, a, c, L, T \ {k}, S, Latest(q, k, a), U \cup {k})
<1>1. /\ k \in Keys /\ k \notin S /\ a \in Int /\ \A j \in Keys : q[j] \in Int
      /\ \A j \in DOMAIN c : c[j] \in Int
  BY CoolIs DEF Stamps, Times, Never
<1>2. \A j \in Keys :
        /\ q[j] <= a
        /\ j \in S \/ Settled(q, c, a, U, j)
        /\ j \in T /\ j \in DOMAIN c => a - c[j] >= Cooldown
  BY DEF Timely, Clock, Mine, Saving
<1>3. k \in U \/ q[k] = Never \/ a - q[k] >= Cooldown
  <2>1. Settled(q, c, a, U, k) /\ (k \in DOMAIN c => a - c[k] >= Cooldown)
    BY <1>1, <1>2
  <2> QED BY <2>1, <1>1, Bounds DEF Settled
<1>4. PICK p \in Stamps : /\ p = Latest(q, k, a) /\ p[k] = a
                          /\ \A j \in Keys : j # k => p[j] = q[j]
  <2>1. /\ Latest(q, k, a) \in Stamps
        /\ \A j \in Keys : j # k => Latest(q, k, a)[j] = q[j]
        /\ Latest(q, k, a)[k] = IF q[k] > a THEN q[k] ELSE a
    BY <1>1, LatestIs
  <2>2. ~(q[k] > a)
    BY <1>1, <1>2
  <2> QED BY <2>1, <2>2
<1>5. ASSUME NEW j \in Keys
      PROVE  /\ p[j] <= a
             /\ j \in S \cup {k} \/ Settled(p, c, a, U, j)
             /\ j \in S \/ Settled(p, c, a, U \cup {k}, j)
             /\ j \in T \ {k} /\ j \in DOMAIN c => a - c[j] >= Cooldown
  <2>1. CASE j = k
    BY <2>1, <1>1, <1>4 DEF Settled
  <2>2. CASE j # k
    BY <2>2, <1>2, <1>4 DEF Settled
  <2> QED BY <2>1, <2>2
<1>6. Timely("emit", n, a, c, L, T \ {k}, S \cup {k}, p, U)
  BY <1>5 DEF Timely, Clock, Mine, Saving
<1>7. Timely("emit", n, a, c, L, T \ {k}, S, p, U \cup {k})
  BY <1>5 DEF Timely, Clock, Mine, Saving
<1>8. Timely("emit", n, a, c, L, T \ {k}, S \cup {k}, q, U)
  BY <1>2 DEF Timely, Clock, Mine, Saving
<1>9. Timely("emit", n, a, c, L, T \ {k}, S, q, U)
  BY <1>2 DEF Timely, Clock, Mine, Saving
<1> QED BY <1>3, <1>4, <1>6, <1>7, <1>8, <1>9

LEMMA SaveTimely ==
  ASSUME CooldownAssumption, NEW a \in Times, NEW c \in Cooldowns, NEW d \in Cooldowns,
         NEW S \in SUBSET Keys, NEW q \in Stamps, NEW n, NEW L, NEW T, NEW U,
         Timely("emit", n, a, c, L, T, S, q, U), Copied("emit", a, c, L, S),
         DOMAIN d \subseteq DOMAIN c \cup S,
         \A k \in S : k \in DOMAIN d /\ d[k] = a,
         \A k \in DOMAIN c \ S : IF k \in DOMAIN d THEN d[k] = c[k] ELSE a - c[k] >= Limit
  PROVE  Timely("write", n, a, d, L, T, S, q, U) /\ Copied("write", a, d, L, S)
<1>1. /\ a \in Int /\ (\A j \in Keys : q[j] \in Int)
      /\ (\A j \in DOMAIN c : c[j] \in Int) /\ \A j \in DOMAIN d : d[j] \in Int
  BY CoolIs DEF Stamps, Times, Never
<1>2. ASSUME NEW k \in Keys
      PROVE  q[k] <= a /\ Settled(q, d, a, U, k)
  <2>1. q[k] <= a /\ (k \in S \/ Settled(q, c, a, U, k))
    BY DEF Timely, Clock, Mine, Saving
  <2>2. CASE k \in S
    BY <2>1, <2>2, <1>1 DEF Settled
  <2>3. CASE k \notin S
    BY <2>1, <2>3, <1>1, Bounds DEF Settled
  <2> QED BY <2>1, <2>2, <2>3
<1>3. Timely("write", n, a, d, L, T, S, q, U)
  BY <1>2 DEF Timely, Clock, Mine, Saving
<1>4. Copied("write", a, d, L, S)
  BY DEF Copied, Saving
<1> QED BY <1>3, <1>4

(* The marks of the scan are on disk.                                        *)
LEMMA SavedTimely ==
  ASSUME NEW a \in Times, NEW c \in Cooldowns, NEW S \in SUBSET Keys,
         NEW q \in Stamps, NEW n, NEW L, NEW T, NEW U,
         Timely("replace", n, a, c, L, T, S, q, U), Copied("replace", a, c, L, S)
  PROVE  \A d, T2 : Timely("record", n, a, d, c, T2, S, q, U \ S)
<1>1. ASSUME NEW k \in Keys
      PROVE  q[k] <= a /\ Settled(q, c, a, U \ S, k)
  <2>1. q[k] <= a /\ Settled(q, c, a, U, k)
    BY DEF Timely, Clock, Mine, Saving
  <2>2. CASE k \in S
    <3>1. k \in DOMAIN c /\ c[k] = a
      BY <2>2 DEF Copied
    <3> QED BY <2>1, <3>1 DEF Settled
  <2>3. CASE k \notin S
    BY <2>1, <2>3 DEF Settled
  <2> QED BY <2>1, <2>2, <2>3
<1> QED BY <1>1 DEF Timely, Clock, Mine, Saving

(* The marks of the scan are lost.                                           *)
LEMMA LostTimely ==
  ASSUME NEW a \in Times, NEW c \in Cooldowns, NEW S \in SUBSET Keys,
         NEW q \in Stamps, NEW n, NEW L, NEW T, NEW U, NEW pc, Saving(pc),
         Timely(pc, n, a, c, L, T, S, q, U), Copied(pc, a, c, L, S)
  PROVE  \A d, T2, S2 : Timely("record", n, a, d, L, T2, S2, q, U \cup S)
<1>1. ASSUME NEW k \in Keys
      PROVE  q[k] <= a /\ Settled(q, L, a, U \cup S, k)
  <2>1. q[k] <= a /\ (k \in S \/ Settled(q, c, a, U, k))
    BY DEF Timely, Clock, Mine, Saving
  <2>2. CASE k \in S
    BY <2>1, <2>2 DEF Settled
  <2>3. CASE k \notin S
    <3>1. k \in DOMAIN c => k \in DOMAIN L /\ L[k] = c[k]
      BY <2>3 DEF Copied
    <3> QED BY <2>1, <2>3, <3>1 DEF Settled
  <2> QED BY <2>1, <2>2, <2>3
<1> QED BY <1>1 DEF Timely, Clock, Mine, Saving

LEMMA RestTimely ==
  ASSUME CooldownAssumption, NEW a \in Times, NEW n \in Times, a <= n, NEW q \in Stamps,
         NEW pc, NEW c, NEW L, NEW T, NEW S, NEW U,
         pc # "emit", Timely(pc, n, a, c, L, T, S, q, U),
         NEW m \in Times, n <= m
  PROVE  /\ \A d, T2, S2 : Timely("idle", m, 0, d, Mine(pc, c, L), T2, S2, q, U)
         /\ Timely(pc, m, a, c, L, T, S, q, U)
<1>1. a \in Int /\ n \in Int /\ m \in Int /\ Cooldown \in Int /\ \A j \in Keys : q[j] \in Int
  BY Bounds DEF Stamps, Times, Never
<1>2. Clock(pc, n, a) <= Clock(pc, m, a) /\ Clock(pc, m, a) <= m
      /\ Clock(pc, n, a) \in Int /\ Clock(pc, m, a) \in Int
  BY <1>1 DEF Clock
<1>3. ASSUME NEW k \in Keys
      PROVE  /\ q[k] <= m /\ Settled(q, Mine(pc, c, L), m, U, k)
             /\ q[k] <= Clock(pc, m, a) /\ Settled(q, Mine(pc, c, L), Clock(pc, m, a), U, k)
  <2>1. q[k] <= Clock(pc, n, a) /\ Settled(q, Mine(pc, c, L), Clock(pc, n, a), U, k)
    BY DEF Timely
  <2> HIDE DEF Clock, Mine
  <2> QED BY <2>1, <1>1, <1>2 DEF Settled
<1> QED BY <1>3 DEF Timely, Clock, Mine, Saving

(* The rows of a scan that ends: written, pruned by age, or lost.            *)
LEMMA RowsKept ==
  ASSUME CooldownAssumption, NEW n \in Times, NEW L \in Cooldowns, NEW S \in SUBSET Keys,
         NEW R \in SUBSET (Keys \X Times), NEW V, NEW R2, NEW V2,
         Backed("record", n, L, S, R, V),
         NEW recorded \in BOOLEAN, NEW pruned \in BOOLEAN,
         LET written == IF recorded THEN R \cup (S \X {n}) ELSE R
         IN  R2 = IF pruned THEN {r \in written : ~(r[2] < n - Retention)} ELSE written,
         V2 = IF recorded THEN V \ S ELSE V \cup S
  PROVE  Backed("idle", n, L, {}, R2, V2)
<1>1. /\ n \in Int /\ (\A k \in DOMAIN L : L[k] \in Int) /\ \A r \in R : r[2] \in Int
      /\ Limit \in Int /\ Retention \in Int /\ Retention >= 0 /\ Retention >= Limit
  BY CoolIs, Bounds DEF Times
<1>2. \A r \in R : r \in R2 \/ r[2] < n - Retention
  OBVIOUS
<1> SUFFICES ASSUME NEW k \in DOMAIN L
             PROVE  L[k] <= n /\ Kept(n, L, R2, V2, k)
  BY DEF Backed
<1>3. L[k] <= n /\ (k \in S \/ Kept(n, L, R, V, k))
  BY DEF Backed
<1>4. CASE k \in S /\ recorded
  <2> DEFINE r == <<k, n>>
  <2>1. r \in S \X {n} /\ r[1] = k /\ r[2] = n
    BY <1>4
  <2>2. ~(r[2] < n - Retention)
    BY <1>1, <2>1
  <2>3. r \in R2
    BY <1>4, <2>1, <2>2
  <2> HIDE DEF r
  <2> QED BY <1>3, <2>1, <2>3 DEF Kept, Rowed
<1>5. CASE k \in S /\ ~recorded
  BY <1>3, <1>5 DEF Kept
<1>6. CASE k \notin S
  <2>1. CASE n - L[k] >= Limit \/ k \in V
    BY <1>3, <1>6, <2>1 DEF Kept
  <2>2. CASE Rowed(R, L, k)
    <3>1. PICK r \in R : r[1] = k /\ r[2] >= L[k]
      BY <2>2 DEF Rowed
    <3>2. CASE r \in R2
      BY <1>3, <3>1, <3>2 DEF Kept, Rowed
    <3>3. CASE r[2] < n - Retention
      <4>1. n - L[k] >= Limit
        BY <1>1, <3>1, <3>3
      <4> QED BY <1>3, <4>1 DEF Kept
    <3> QED BY <1>2, <3>2, <3>3
  <2> QED BY <1>3, <1>6, <2>1, <2>2 DEF Kept
<1> QED BY <1>4, <1>5, <1>6

-----------------------------------------------------------------------------
LEMMA TickExact ==
  ASSUME CooldownAssumption, Typed, Typed', Exact, UNCHANGED vars \/ Tick
  PROVE  Exact'
<1>1. CASE UNCHANGED vars
  BY <1>1, Zenon DEF vars, hist, calls, Exact, Fits, OthersRest, Loaded
<1>2. CASE Tick
  <2>1. /\ now' = now + 1
        /\ UNCHANGED <<file, scan, rows, queued, twice, unmarked, unrecorded>>
    BY <1>2 DEF Tick, hist, calls
  <2>2. now \in Times /\ now' \in Times /\ now \in Int /\ now <= now' /\ Loaded' = Loaded
    BY <2>1, Bounds DEF Typed, Times, Loaded
  <2>3. ASSUME NEW s \in Scanners, Fits(s)
        PROVE  Timely(scan[s].pc, now', scan[s].at, scan[s].cool, Loaded, scan[s].todo,
                      scan[s].sent, queued, unmarked)
    <3>1. Timely(scan[s].pc, now, scan[s].at, scan[s].cool, Loaded, scan[s].todo,
                 scan[s].sent, queued, unmarked)
      BY <2>3 DEF Fits
    <3>2. scan[s].at \in Times /\ scan[s].at <= now /\ queued \in Stamps
      BY DEF Typed, State
    <3>3. CASE scan[s].pc = "emit"
      BY <3>1, <3>3 DEF Timely, Clock
    <3>4. CASE scan[s].pc # "emit"
      BY <3>1, <3>2, <3>4, <2>2, RestTimely
    <3> QED BY <3>3, <3>4
  <2>4. ASSUME NEW s \in Scanners, Fits(s)
        PROVE  Backed(scan[s].pc, now', Loaded, scan[s].sent, rows, unrecorded)
    <3>1. Backed(scan[s].pc, now, Loaded, scan[s].sent, rows, unrecorded)
      BY <2>4 DEF Fits
    <3>2. (\A k \in DOMAIN Loaded : Loaded[k] \in Int) /\ Limit \in Int
      BY LoadedCool, CoolIs, Bounds DEF Times
    <3> QED BY <2>1, <2>2, <3>1, <3>2 DEF Backed, Kept
  <2>5. ASSUME NEW s \in Scanners, OthersRest(s)' PROVE Fits(s)'
    <3>1. OthersRest(s)
      BY <2>1, <2>5 DEF OthersRest
    <3>2. Fits(s)
      BY <3>1 DEF Exact
    <3>3. Copied(scan[s].pc, scan[s].at, scan[s].cool, Loaded, scan[s].sent)
      BY <3>2 DEF Fits
    <3>4. /\ scan' = scan /\ Loaded' = Loaded /\ rows' = rows /\ queued' = queued
          /\ unmarked' = unmarked /\ unrecorded' = unrecorded
      BY <2>1, <2>2
    <3> QED BY <2>3, <2>4, <3>2, <3>3, <3>4, Zenon DEF Fits
  <2> QED BY <2>1, <2>5 DEF Exact
<1> QED BY <1>1, <1>2

LEMMA StartExact ==
  ASSUME CooldownAssumption, Typed, Exact, NEW s \in Scanners, OthersRest(s),
         Scan(s) \/ Load(s)
  PROVE  Exact'
<1>1. PICK a \in Times, c \in Cooldowns, T, S \in SUBSET Keys, q \in Stamps, L \in Cooldowns,
           U \in {unmarked} :
        /\ a = scan[s].at /\ c = scan[s].cool /\ T = scan[s].todo /\ S = scan[s].sent
        /\ q = queued /\ L = Loaded /\ U = unmarked
  BY LoadedCool DEF Typed, State
<1>2. /\ Timely(scan[s].pc, now, a, c, L, T, S, q, U)
      /\ Backed(scan[s].pc, now, L, S, rows, unrecorded)
      /\ twice = {} /\ a <= now /\ now \in Times /\ now \in Int
  BY <1>1, Bounds DEF Exact, Fits, Typed, Times
<1>3. UNCHANGED <<now, file, rows, queued, twice, unmarked, unrecorded>>
  BY DEF Scan, Load, hist, calls
<1>4. Loaded' = L
  BY <1>1, <1>3 DEF Loaded
<1>5. CASE Scan(s)
  <2>1. scan[s].pc = "idle"
    BY <1>5 DEF Scan
  <2>2. Turns(s, "load", now, NoMarks, {}, {}, "closed")
    BY <1>5, ScanTurns
  <2>3. Timely("load", now, now, NoMarks, L, {}, {}, q, U)
    BY <1>2, <2>1 DEF Timely, Clock, Mine, Saving
  <2>4. Backed("load", now, L, {}, rows, unrecorded) /\ Copied("load", now, NoMarks, L, {})
    BY <1>2, <2>1 DEF Backed, Copied, Saving
  <2>5. /\ Timely("load", now', now, NoMarks, Loaded', {}, {}, queued', unmarked')
        /\ Copied("load", now, NoMarks, Loaded', {}) /\ twice' = {}
        /\ Backed("load", now', Loaded', {}, rows', unrecorded')
    BY <1>1, <1>2, <1>3, <1>4, <2>3, <2>4
  <2> QED BY <2>2, <2>5, ExactAfter
<1>6. CASE Load(s)
  <2>1. scan[s].pc = "load" /\ S = {}
    BY <1>1, <1>6 DEF Load, Typed
  <2>2. PICK F : F = Fresh(scan[s].found, L, a)
    OBVIOUS
  <2>3. Turns(s, "emit", a, L, F, S, scan[s].handle)
    BY <1>1, <1>6, <2>2, LoadTurns
  <2>4. \A k \in F : k \in DOMAIN L => a - L[k] >= Cooldown
    BY <2>2 DEF Fresh
  <2>5. Timely("emit", now, a, L, L, F, S, q, U)
    BY <1>2, <2>1, <2>4 DEF Timely, Clock, Mine, Saving
  <2>6. Backed("emit", now, L, S, rows, unrecorded) /\ Copied("emit", a, L, L, S)
    BY <1>2, <2>1 DEF Backed, Copied
  <2>7. /\ Timely("emit", now', a, L, Loaded', F, S, queued', unmarked')
        /\ Copied("emit", a, L, Loaded', S) /\ twice' = {}
        /\ Backed("emit", now', Loaded', S, rows', unrecorded')
    BY <1>1, <1>2, <1>3, <1>4, <2>5, <2>6
  <2> QED BY <2>3, <2>7, ExactAfter
<1> QED BY <1>5, <1>6

LEMMA EmitExact ==
  ASSUME CooldownAssumption, Typed, Exact, NEW s \in Scanners, OthersRest(s), Emit(s)
  PROVE  Exact'
<1>1. PICK k \in scan[s].todo : EmitQueues(s, k) \/ EmitSwallows(s, k) \/ EmitRaises(s, k)
  BY DEF Emit
<1>2. PICK a \in Times, c \in Cooldowns, T \in SUBSET Keys, S \in SUBSET Keys,
           q \in Stamps, L \in {Loaded}, U \in {unmarked} :
        /\ a = scan[s].at /\ c = scan[s].cool /\ T = scan[s].todo /\ S = scan[s].sent
        /\ q = queued /\ L = Loaded /\ U = unmarked
  BY DEF Typed, State
<1>3. /\ scan[s].pc = "emit" /\ T \cap S = {} /\ k \in T
      /\ Timely("emit", now, a, c, L, T, S, q, U) /\ Copied("emit", a, c, L, S)
      /\ Backed("emit", now, L, S, rows, unrecorded) /\ twice = {}
  BY <1>2 DEF Emit, Exact, Fits, Typed
<1>4. UNCHANGED <<now, file, rows, unrecorded>>
  BY DEF Emit
<1>5. Loaded' = L
  BY <1>2, <1>4 DEF Loaded
<1>6. /\ k \in U \/ q[k] = Never \/ a - q[k] >= Cooldown
      /\ Timely("emit", now, a, c, L, T \ {k}, S \cup {k}, Latest(q, k, a), U)
      /\ Timely("emit", now, a, c, L, T \ {k}, S \cup {k}, q, U)
      /\ Timely("emit", now, a, c, L, T \ {k}, S, q, U)
      /\ Timely("emit", now, a, c, L, T \ {k}, S, Latest(q, k, a), U \cup {k})
  BY <1>3, QueueTimely
<1>7. Queue(k, a) => queued' = Latest(q, k, a) /\ twice' = {}
  <2>1. a \in Int /\ q[k] \in Int /\ Cooldown \in Int
    BY <1>3, Bounds DEF Stamps, Times, Never
  <2> QED BY <1>2, <1>3, <1>6, <2>1 DEF Queue
<1>8. /\ Copied("emit", a, c, L, S \cup {k})
      /\ Backed("emit", now, L, S \cup {k}, rows, unrecorded)
  BY <1>3 DEF Copied, Backed, Saving
<1>9. CASE EmitQueues(s, k) \/ EmitSwallows(s, k)
  <2>1. Turns(s, "emit", a, c, T \ {k}, S \cup {k}, scan[s].handle)
    BY <1>2, <1>3, <1>9, EmitTurns
  <2>2. /\ queued' = Latest(q, k, a) \/ queued' = q
        /\ twice' = {} /\ unmarked' = U
    BY <1>2, <1>3, <1>7, <1>9 DEF EmitQueues, EmitSwallows
  <2>3. /\ Timely("emit", now', a, c, Loaded', T \ {k}, S \cup {k}, queued', unmarked')
        /\ Copied("emit", a, c, Loaded', S \cup {k})
        /\ Backed("emit", now', Loaded', S \cup {k}, rows', unrecorded')
    BY <1>4, <1>5, <1>6, <1>8, <2>2
  <2> QED BY <2>1, <2>2, <2>3, ExactAfter
<1>10. CASE EmitRaises(s, k)
  <2>1. Turns(s, "emit", a, c, T \ {k}, S, scan[s].handle)
    BY <1>2, <1>3, <1>10, EmitTurns
  <2>2. /\ \/ queued' = Latest(q, k, a) /\ unmarked' = U \cup {k}
           \/ queued' = q /\ unmarked' = U
        /\ twice' = {}
    BY <1>2, <1>3, <1>7, <1>10 DEF EmitRaises
  <2>3. /\ Timely("emit", now', a, c, Loaded', T \ {k}, S, queued', unmarked')
        /\ Copied("emit", a, c, Loaded', S)
        /\ Backed("emit", now', Loaded', S, rows', unrecorded')
    BY <1>3, <1>4, <1>5, <1>6, <2>2
  <2> QED BY <2>1, <2>2, <2>3, ExactAfter
<1> QED BY <1>1, <1>9, <1>10

LEMMA SaveExact ==
  ASSUME CooldownAssumption, Typed, Whole, Exact, NEW s \in Scanners, OthersRest(s),
         SaveOpen(s) \/ SaveWrite(s) \/ SaveReplace(s) \/ SaveFails(s)
  PROVE  Exact'
<1>1. PICK a \in Times, c \in Cooldowns, T, S \in SUBSET Keys, q \in Stamps, L \in Cooldowns,
           U \in {unmarked} :
        /\ a = scan[s].at /\ c = scan[s].cool /\ T = scan[s].todo /\ S = scan[s].sent
        /\ q = queued /\ L = Loaded /\ U = unmarked
  BY LoadedCool DEF Typed, State
<1>2. /\ Timely(scan[s].pc, now, a, c, L, T, S, q, U)
      /\ Copied(scan[s].pc, a, c, L, S)
      /\ Backed(scan[s].pc, now, L, S, rows, unrecorded)
      /\ twice = {} /\ a <= now /\ now \in Times /\ now <= now /\ T \cap S = {}
  <2>1. now <= now
    BY Bounds DEF Typed, Times
  <2> QED BY <1>1, <2>1 DEF Exact, Fits, Typed
<1>3. UNCHANGED <<now, rows, queued, twice, unrecorded>>
  BY DEF SaveOpen, SaveWrite, SaveReplace, SaveFails, hist, calls
<1>4. CASE SaveOpen(s)
  <2>1. scan[s].pc = "emit" /\ file' = file /\ unmarked' = U
    BY <1>1, <1>4 DEF SaveOpen, hist
  <2>2. Loaded' = L
    BY <1>1, <2>1 DEF Loaded
  <2>3. PICK d \in Cooldowns :
          /\ d = Saved(s)
          /\ \A k \in DOMAIN d : /\ k \in DOMAIN c \cup S
                                 /\ d[k] = IF k \in S THEN a ELSE c[k]
          /\ \A k \in S : k \in DOMAIN d
          /\ \A k \in DOMAIN c : k \in DOMAIN d \/ a - c[k] >= Limit
    BY <1>1, SavedIs
  <2>4. Turns(s, "write", a, d, T, S, "tmp")
    BY <1>1, <1>4, <2>3, OpenTurns
  <2>5. /\ DOMAIN d \subseteq DOMAIN c \cup S
        /\ \A k \in S : k \in DOMAIN d /\ d[k] = a
        /\ \A k \in DOMAIN c \ S : IF k \in DOMAIN d THEN d[k] = c[k] ELSE a - c[k] >= Limit
    BY <2>3
  <2>6. Timely("write", now, a, d, L, T, S, q, U) /\ Copied("write", a, d, L, S)
    BY <1>2, <2>1, <2>5, SaveTimely
  <2>7. Backed("write", now, L, S, rows, unrecorded)
    BY <1>2, <2>1 DEF Backed
  <2>8. /\ Timely("write", now', a, d, Loaded', T, S, queued', unmarked') /\ twice' = {}
        /\ Copied("write", a, d, Loaded', S)
        /\ Backed("write", now', Loaded', S, rows', unrecorded')
    BY <1>1, <1>2, <1>3, <2>1, <2>2, <2>6, <2>7
  <2> QED BY <2>4, <2>8, ExactAfter
<1>5. CASE SaveWrite(s)
  <2>1. scan[s].pc = "write" /\ scan[s].handle = "tmp"
    BY <1>5 DEF SaveWrite, Whole
  <2>2. file' = file /\ unmarked' = U
    BY <1>1, <1>5, <2>1 DEF SaveWrite, hist
  <2>3. Loaded' = L
    BY <1>1, <2>2 DEF Loaded
  <2>4. Turns(s, "replace", a, c, T, S, "closed")
    BY <1>1, <1>5, WriteTurns
  <2>5. Timely("replace", now, a, c, L, T, S, q, U)
    BY <1>2, <2>1 DEF Timely, Clock, Mine, Saving
  <2>6. Copied("replace", a, c, L, S) /\ Backed("replace", now, L, S, rows, unrecorded)
    BY <1>2, <2>1 DEF Copied, Backed, Saving
  <2>7. /\ Timely("replace", now', a, c, Loaded', T, S, queued', unmarked') /\ twice' = {}
        /\ Copied("replace", a, c, Loaded', S)
        /\ Backed("replace", now', Loaded', S, rows', unrecorded')
    BY <1>1, <1>2, <1>3, <2>2, <2>3, <2>5, <2>6
  <2> QED BY <2>4, <2>7, ExactAfter
<1>6. ASSUME NEW M \in Cooldowns, NEW W, AfterTurns(s), Loaded' = M, unmarked' = W,
             \A d, T2 : Timely("record", now, a, d, M, T2, S, q, W),
             Backed("record", now, M, S, rows, unrecorded)
      PROVE  Exact'
  <2>1. CASE S # {}
    <3>1. Turns(s, "record", a, NoMarks, {}, S, "closed")
      BY <1>1, <1>6, <2>1 DEF AfterTurns, AfterPc, AfterAt
    <3>2. Copied("record", a, NoMarks, M, S)
      BY DEF Copied, Saving
    <3>3. /\ Timely("record", now', a, NoMarks, Loaded', {}, S, queued', unmarked')
          /\ Copied("record", a, NoMarks, Loaded', S) /\ twice' = {}
          /\ Backed("record", now', Loaded', S, rows', unrecorded')
      BY <1>1, <1>2, <1>3, <1>6, <3>2
    <3> QED BY <3>1, <3>3, ExactAfter
  <2>2. CASE S = {}
    <3>1. Turns(s, "idle", 0, NoMarks, {}, {}, "closed")
      BY <1>1, <1>6, <2>2 DEF AfterTurns, AfterPc, AfterAt
    <3>2. Timely("idle", now, 0, NoMarks, M, {}, {}, q, W)
      <4>1. Timely("record", now, a, c, M, T, S, q, W)
        BY <1>6
      <4>2. \A d, T2, S2 : Timely("idle", now, 0, d, Mine("record", c, M), T2, S2, q, W)
        BY <1>2, <4>1, RestTimely
      <4>3. Mine("record", c, M) = M
        BY DEF Mine, Saving
      <4> QED BY <4>2, <4>3
    <3>3. Backed("idle", now, M, {}, rows, unrecorded) /\ Copied("idle", 0, NoMarks, M, {})
      BY <1>6, <2>2 DEF Backed, Copied, Saving
    <3>4. /\ Timely("idle", now', 0, NoMarks, Loaded', {}, {}, queued', unmarked')
          /\ Copied("idle", 0, NoMarks, Loaded', {}) /\ twice' = {}
          /\ Backed("idle", now', Loaded', {}, rows', unrecorded')
      BY <1>1, <1>2, <1>3, <1>6, <3>2, <3>3
    <3> QED BY <3>1, <3>4, ExactAfter
  <2> QED BY <2>1, <2>2
<1>7. CASE SaveReplace(s)
  <2>1. scan[s].pc = "replace" /\ tmp = c
    BY <1>1, <1>7 DEF SaveReplace, Whole
  <2>2. tmp # NoFile /\ c # NoFile /\ c # Cut
    BY <2>1, CutIsNoMap
  <2>3. ~Held
    <3>1. scan[s].handle = "closed"
      BY <2>1 DEF Whole
    <3>2. \A t \in Scanners \ {s} : scan[t].handle = "closed"
      BY DEF OthersRest, Whole
    <3> QED BY <3>1, <3>2 DEF Held
  <2>4. file' = c /\ unmarked' = U \ S
    BY <1>1, <1>7, <2>1, <2>2, <2>3 DEF SaveReplace
  <2>5. Loaded' = c
    BY <2>2, <2>4 DEF Loaded
  <2>6. AfterTurns(s)
    BY <1>7, ReplaceTurns
  <2>7. Timely("replace", now, a, c, L, T, S, q, U) /\ Copied("replace", a, c, L, S)
    BY <1>2, <2>1
  <2>8. \A d, T2 : Timely("record", now, a, d, c, T2, S, q, U \ S)
    BY <2>7, SavedTimely
  <2>9. Backed("record", now, c, S, rows, unrecorded)
    <3>1. ASSUME NEW k \in DOMAIN c
          PROVE  c[k] <= now /\ (k \in S \/ Kept(now, c, rows, unrecorded, k))
      <4>1. CASE k \in S
        BY <1>2, <2>7, <4>1 DEF Copied
      <4>2. CASE k \notin S
        <5>1. k \in DOMAIN L /\ L[k] = c[k]
          BY <2>7, <4>2 DEF Copied, Saving
        <5>2. L[k] <= now /\ Kept(now, L, rows, unrecorded, k)
          BY <1>2, <2>1, <4>2, <5>1 DEF Backed
        <5> QED BY <5>1, <5>2 DEF Kept, Rowed
      <4> QED BY <4>1, <4>2
    <3> QED BY <3>1 DEF Backed
  <2> QED BY <1>6, <2>4, <2>5, <2>6, <2>8, <2>9
<1>8. CASE SaveFails(s)
  <2>1. Saving(scan[s].pc) /\ file' = file /\ unmarked' = U \cup S
    BY <1>1, <1>8 DEF SaveFails, Saving
  <2>2. Loaded' = L
    BY <1>1, <2>1 DEF Loaded
  <2>3. AfterTurns(s)
    BY <1>8, FailsTurns
  <2>4. \A d, T2, S2 : Timely("record", now, a, d, L, T2, S2, q, U \cup S)
    BY <1>2, <2>1, LostTimely
  <2>5. Backed("record", now, L, S, rows, unrecorded)
    BY <1>2, <2>1 DEF Backed, Saving
  <2> QED BY <1>6, <2>1, <2>2, <2>3, <2>4, <2>5
<1> QED BY <1>4, <1>5, <1>7, <1>8

LEMMA RestExact ==
  ASSUME CooldownAssumption, Typed, Exact, NEW s \in Scanners, OthersRest(s),
         Record(s) \/ Crash(s)
  PROVE  Exact'
<1>1. PICK a \in Times, c \in Cooldowns, T, S \in SUBSET Keys, q \in Stamps, L \in Cooldowns,
           U \in {unmarked}, pc \in Phases :
        /\ a = scan[s].at /\ c = scan[s].cool /\ T = scan[s].todo /\ S = scan[s].sent
        /\ q = queued /\ L = Loaded /\ U = unmarked /\ pc = scan[s].pc
  BY LoadedCool DEF Typed, State
<1>2. /\ Timely(pc, now, a, c, L, T, S, q, U) /\ Copied(pc, a, c, L, S)
      /\ Backed(pc, now, L, S, rows, unrecorded)
      /\ twice = {} /\ a <= now /\ now \in Times /\ now <= now
      /\ rows \in SUBSET (Keys \X Times)
  <2>1. now <= now
    BY Bounds DEF Typed, Times
  <2> QED BY <1>1, <2>1 DEF Exact, Fits, Typed
<1>3. UNCHANGED <<now, file, queued, twice>>
  BY DEF Record, Crash, calls
<1>4. Loaded' = L
  BY <1>1, <1>3 DEF Loaded
<1>5. Turns(s, "idle", 0, NoMarks, {}, {}, "closed")
  BY RestTurns
<1>6. ASSUME NEW W, unmarked' = W, NEW pc2, pc2 # "emit", Mine(pc2, c, L) = L,
             Timely(pc2, now, a, c, L, T, S, q, W),
             Backed("idle", now, L, {}, rows', unrecorded')
      PROVE  Exact'
  <2>1. \A d, T2, S2 : Timely("idle", now, 0, d, Mine(pc2, c, L), T2, S2, q, W)
    BY <1>2, <1>6, RestTimely
  <2>2. Timely("idle", now, 0, NoMarks, L, {}, {}, q, W)
    BY <1>6, <2>1
  <2>3. Copied("idle", 0, NoMarks, L, {})
    BY DEF Copied, Saving
  <2>4. /\ Timely("idle", now', 0, NoMarks, Loaded', {}, {}, queued', unmarked')
        /\ Copied("idle", 0, NoMarks, Loaded', {}) /\ twice' = {}
        /\ Backed("idle", now', Loaded', {}, rows', unrecorded')
    BY <1>1, <1>2, <1>3, <1>4, <1>6, <2>2, <2>3
  <2> QED BY <1>5, <2>4, ExactAfter
<1>7. CASE Record(s)
  <2>1. pc = "record" /\ unmarked' = U
    BY <1>1, <1>7 DEF Record
  <2>2. PICK recorded, pruned \in BOOLEAN :
          /\ LET written == IF recorded THEN rows \cup (S \X {now}) ELSE rows
             IN  rows' = IF pruned THEN {r \in written : ~(r[2] < now - Retention)}
                         ELSE written
          /\ unrecorded' = IF recorded THEN unrecorded \ S ELSE unrecorded \cup S
    BY <1>1, <1>7 DEF Record, Expired
  <2>3. Backed("record", now, L, S, rows, unrecorded)
    BY <1>2, <2>1
  <2>4. Backed("idle", now, L, {}, rows', unrecorded')
    BY <1>2, <2>2, <2>3, RowsKept
  <2>5. Mine(pc, c, L) = L
    BY <2>1 DEF Mine, Saving
  <2> QED BY <1>2, <1>6, <2>1, <2>4, <2>5
<1>8. CASE Crash(s)
  <2>1. rows' = rows /\ pc # "idle"
    BY <1>1, <1>8 DEF Crash
  <2>2. CASE pc = "record"
    <3>1. unrecorded' = unrecorded \cup S /\ unmarked' = U
      BY <1>1, <1>8, <2>2 DEF Crash
    <3>2. Backed("idle", now, L, {}, rows', unrecorded')
      BY <1>2, <2>1, <2>2, <3>1 DEF Backed, Kept
    <3>3. Mine(pc, c, L) = L
      BY <2>2 DEF Mine, Saving
    <3> QED BY <1>2, <1>6, <2>2, <3>1, <3>2, <3>3
  <2>3. CASE pc # "record"
    <3>1. unrecorded' = unrecorded /\ unmarked' = U \cup S
      BY <1>1, <1>8, <2>3 DEF Crash
    <3>2. Backed("idle", now, L, {}, rows', unrecorded')
      BY <1>2, <2>1, <2>3, <3>1 DEF Backed
    <3>3. CASE Saving(pc)
      <4>1. \A d, T2, S2 : Timely("record", now, a, d, L, T2, S2, q, U \cup S)
        BY <1>2, <3>3, LostTimely
      <4>2. Mine("record", c, L) = L
        BY DEF Mine, Saving
      <4> QED BY <1>6, <3>1, <3>2, <4>1, <4>2
    <3>4. CASE ~Saving(pc)
      <4>1. pc = "load" /\ S = {}
        BY <1>1, <2>1, <2>3, <3>4 DEF Phases, Saving, Typed
      <4>2. unmarked' = U /\ Mine(pc, c, L) = L
        BY <3>1, <3>4, <4>1 DEF Mine
      <4> QED BY <1>2, <1>6, <3>2, <4>1, <4>2
    <3> QED BY <3>3, <3>4
  <2> QED BY <2>2, <2>3
<1> QED BY <1>7, <1>8

LEMMA ExactStep ==
  CooldownAssumption /\ NoOverlap /\ NoOverlap' /\ Typed /\ Typed' /\ Whole /\ Exact
    /\ [Next]_vars => Exact'
<1> SUFFICES ASSUME CooldownAssumption, NoOverlap, NoOverlap', Typed, Typed', Whole, Exact,
                    [Next]_vars
             PROVE  Exact'
  OBVIOUS
<1>1. CASE UNCHANGED vars \/ Tick
  BY <1>1, TickExact
<1>2. ASSUME NEW s \in Scanners, Moves(s) PROVE Exact'
  <2>1. OthersRest(s)
    BY <1>2, OneMoves
  <2> QED BY <1>2, <2>1, StartExact, EmitExact, SaveExact, RestExact DEF Moves
<1> QED BY <1>1, <1>2 DEF Next, Moves

-----------------------------------------------------------------------------
(* What the parts of the invariant say of the module's properties.           *)
LEMMA TypedIsEnough == Typed => TypeOK
<1> SUFFICES ASSUME Typed PROVE TypeOK
  OBVIOUS
<1>1. \A s \in Scanners : scan[s] \in State /\ scan[s].todo \cap scan[s].sent = {}
  BY DEF Typed
<1> QED BY <1>1 DEF Typed, TypeOK, State, Phases, Stamps

LEMMA HonestIsEnough == Honest => NotSilenced
  BY DEF Honest, Meant, NotSilenced

LEMMA WholeIsEnough == Whole => Readable
  BY DEF Whole, Readable

LEMMA ExactIsEnough ==
  CooldownAssumption /\ Typed /\ NoOverlap /\ Exact => OncePerWindow /\ HistoryBacksCooldown
<1> SUFFICES ASSUME CooldownAssumption, Typed, NoOverlap, Exact
             PROVE  OncePerWindow /\ HistoryBacksCooldown
  OBVIOUS
<1>1. OncePerWindow
  BY DEF Exact, OncePerWindow
<1>2. PICK s \in Scanners : OthersRest(s)
  BY DEF NoOverlap, OthersRest, CooldownAssumption
<1>3. Backed(scan[s].pc, now, Loaded, scan[s].sent, rows, unrecorded)
  BY <1>2 DEF Exact, Fits
<1> QED BY <1>1, <1>3 DEF Backed, Kept, Rowed, Limit, HistoryBacksCooldown

-----------------------------------------------------------------------------
(* For any scanners, faults and crashes: the types hold, and a finding whose   *)
(* emission raised is never under cooldown on disk (`emitted` of _emit_new).   *)
THEOREM MarksAreEarned ==
  ASSUME CooldownAssumption PROVE Spec => [](TypeOK /\ NotSilenced)
<1>1. Init => Typed /\ Honest
  BY InitTyped, InitHonest
<1>2. Typed /\ Honest /\ [Next]_vars => (Typed /\ Honest)'
  BY TypedStep, HonestStep
<1>3. Typed /\ Honest => TypeOK /\ NotSilenced
  BY TypedIsEnough, HonestIsEnough
<1> QED BY <1>1, <1>2, <1>3, PTL DEF Spec

(* As long as no two scans overlap, whatever fails and whoever is killed: the  *)
(* state file can be read (the temporary file and os.replace of save_state).   *)
THEOREM SavesAreWhole ==
  ASSUME CooldownAssumption PROVE Spec /\ []NoOverlap => []Readable
<1>1. Init => Typed /\ Whole
  BY InitTyped, InitWhole
<1>2. NoOverlap /\ NoOverlap' /\ Typed /\ Whole /\ [Next]_vars => (Typed /\ Whole)'
  BY TypedStep, WholeStep
<1> QED BY <1>1, <1>2, WholeIsEnough, PTL DEF Spec

(* As long as no two scans overlap, whatever fails and whoever is killed: no    *)
(* finding is queued twice in a window but for a mark that a kill, a failed     *)
(* save or a raise after the queueing lost, and the history backs every         *)
(* cooldown but for the rows that a kill or a failed write lost.             *)
THEOREM WindowsAreKept ==
  ASSUME CooldownAssumption
  PROVE  Spec /\ []NoOverlap => [](OncePerWindow /\ HistoryBacksCooldown)
<1>1. Init => Typed /\ Whole /\ Exact
  BY InitTyped, InitWhole, InitExact
<1>2. NoOverlap /\ NoOverlap' /\ Typed /\ Whole /\ Exact /\ [Next]_vars
        => (Typed /\ Whole /\ Exact)'
  BY TypedStep, WholeStep, ExactStep
<1>3. NoOverlap /\ Typed /\ Whole /\ Exact => OncePerWindow /\ HistoryBacksCooldown
  BY ExactIsEnough
<1> QED BY <1>1, <1>2, <1>3, PTL DEF Spec
=============================================================================
