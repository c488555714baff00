-------------------------- MODULE ServerParts_proofs --------------------------
(***************************************************************************)
(* What holds of the parts of the API server for every value of their      *)
(* parameters: the connection cache (what holds a connection, a thread's   *)
(* cache or its locals, the registry, a sweep, holds it alone), the         *)
(* response cache and the rate limiter.                                    *)
(***************************************************************************)
EXTENDS ServerParts, FiniteSetTheorems, SequenceTheorems, WellFoundedInduction, TLAPS

\* the locals of get_connection, where they are
Jobs == [Threads -> [pc : Phases, seen : Files, conn : Conns \cup {NoConn}]]

\* the connections a thread refers to
Hold(t) == {cached[t], job[t].conn}

\* where a thread is says what it has of its connection
InPlace(t) ==
  /\ job[t].pc = "idle" => job[t] = Rest
  /\ job[t].pc \notin {"idle", "remember"} => job[t].conn = cached[t]
  /\ job[t].pc \in {"probe", "discard", "unregister"} => cached[t] # NoConn
  /\ job[t].pc = "unregister" => cached[t] \notin open
  /\ job[t].pc \in {"connect", "remember"} => cached[t] \notin open \cup DOMAIN registry
  /\ job[t].pc \in {"remember", "register"} => job[t].conn \in open \ DOMAIN registry
  /\ job[t].pc \in {"sweep", "close", "use"} => cached[t] \in open \cap DOMAIN registry
  /\ t \notin alive => cached[t] = NoConn
  /\ closing[t] # {} => job[t].pc = "close"

\* a connection in the cache is registered as the thread's own and open, or it
\* is closed and registered no more
Cached(t) ==
  /\ cached[t] \in DOMAIN registry =>
       registry[cached[t]] = t /\ (cached[t] \in open \/ job[t].pc = "unregister")
  /\ cached[t] \in open => cached[t] \in DOMAIN registry \/ job[t].pc = "register"

\* the generation remembered with a connection is not newer than its own
Current(t) ==
  /\ cached[t] # NoConn => opened[cached[t]] >= mtime[t]
  /\ job[t].pc = "remember" => opened[job[t].conn] >= job[t].seen
  /\ job[t].pc \in {"probe", "register", "sweep", "close", "use"} => mtime[t] = job[t].seen
  /\ job[t].seen <= file

\* no two holders of one connection
Apart ==
  /\ \A t, u \in Threads : t # u => Hold(t) \cap Hold(u) \subseteq {NoConn}
  /\ \A t, u \in Threads : t # u => closing[t] \cap closing[u] = {}
  /\ \A t, u \in Threads : closing[t] \cap Hold(u) = {}
  /\ \A t \in Threads : closing[t] \cap DOMAIN registry = {}

\* what is registered is some thread's, or a dead one's and nobody else's
Registered ==
  \A c \in DOMAIN registry :
    \/ registry[c] = Dead /\ c \in open /\ \A t \in Threads : c \notin Hold(t)
    \/ registry[c] \in Threads /\ cached[registry[c]] = c

Safe ==
  /\ TypeOK /\ job \in Jobs /\ Apart /\ Registered /\ NothingLeaks
  /\ \A t \in Threads : InPlace(t) /\ Cached(t) /\ Current(t)

-----------------------------------------------------------------------------
LEMMA InitSafe == ConnsAssumption /\ Init => Safe
<1> SUFFICES ASSUME ConnsAssumption, Init PROVE Safe
  OBVIOUS
<1>1. TypeOK /\ job \in Jobs
  BY DEF ConnsAssumption, Init, TypeOK, Jobs, Files, Phases, Rest, At
<1>2. Apart /\ Registered /\ NothingLeaks
  BY DEF ConnsAssumption, Init, Apart, Registered, NothingLeaks, Hold, Rest, At
<1>3. \A t \in Threads : InPlace(t) /\ Cached(t) /\ Current(t)
  BY DEF ConnsAssumption, Init, InPlace, Cached, Current, Rest, At
<1> QED
  BY <1>1, <1>2, <1>3 DEF Safe

LEMMA StartSafe == ASSUME ConnsAssumption, Safe, NEW t \in Threads, Start(t) PROVE Safe'
<1>1. TypeOK' /\ job' \in Jobs'
  BY DEF ConnsAssumption, Safe, TypeOK, Jobs, Files, Phases, Start, Rest, At, Go
<1>2. Apart'
  BY DEF ConnsAssumption, Safe, TypeOK, Jobs, Apart, Registered, InPlace, Hold, Start, Rest, At, Go
<1>3. Registered'
  BY DEF ConnsAssumption, Safe, TypeOK, Jobs, Apart, Registered, InPlace, Cached, Hold, Start, Rest, At, Go
<1>4. NothingLeaks'
  BY DEF ConnsAssumption, Safe, TypeOK, Jobs, NothingLeaks, InPlace, Cached, Start, Rest, At, Go
<1>5. ASSUME NEW u \in Threads PROVE InPlace(u)' /\ Cached(u)' /\ Current(u)'
  <2>1. CASE u = t
    BY <2>1 DEF ConnsAssumption, Safe, TypeOK, Jobs, Files, Apart, Registered, InPlace, Cached, Current, Hold, Start, Rest, At, Go
  <2>2. CASE u # t
    BY <2>2 DEF ConnsAssumption, Safe, TypeOK, Jobs, Apart, Registered, InPlace, Cached, Current, Hold, Start, Rest, At, Go
  <2> QED
    BY <2>1, <2>2
<1> QED
  BY <1>1, <1>2, <1>3, <1>4, <1>5 DEF Safe

LEMMA DieSafe == ASSUME ConnsAssumption, Safe, NEW t \in Threads, Die(t) PROVE Safe'
<1>1. TypeOK' /\ job' \in Jobs'
  BY DEF ConnsAssumption, Safe, TypeOK, Jobs, Files, Phases, Die, Rest, At, Go
<1>2. Apart'
  BY DEF ConnsAssumption, Safe, TypeOK, Jobs, Apart, Registered, InPlace, Hold, Die, Rest, At, Go
<1>3. Registered'
  BY DEF ConnsAssumption, Safe, TypeOK, Jobs, Apart, Registered, InPlace, Cached, Hold, Die, Rest, At, Go
<1>4. NothingLeaks'
  BY DEF ConnsAssumption, Safe, TypeOK, Jobs, NothingLeaks, InPlace, Cached, Die, Rest, At, Go
<1>5. ASSUME NEW u \in Threads PROVE InPlace(u)' /\ Cached(u)' /\ Current(u)'
  <2>1. CASE u = t
    BY <2>1 DEF ConnsAssumption, Safe, TypeOK, Jobs, Files, Apart, Registered, InPlace, Cached, Current, Hold, Die, Rest, At, Go
  <2>2. CASE u # t
    BY <2>2 DEF ConnsAssumption, Safe, TypeOK, Jobs, Apart, Registered, InPlace, Cached, Current, Hold, Die, Rest, At, Go
  <2> QED
    BY <2>1, <2>2
<1> QED
  BY <1>1, <1>2, <1>3, <1>4, <1>5 DEF Safe

LEMMA ReadMtimeSafe == ASSUME ConnsAssumption, Safe, NEW t \in Threads, ReadMtime(t) PROVE Safe'
<1>1. TypeOK' /\ job' \in Jobs'
  BY DEF ConnsAssumption, Safe, TypeOK, Jobs, Files, Phases, ReadMtime, Rest, At
<1>2. Apart'
  BY DEF ConnsAssumption, Safe, TypeOK, Jobs, Apart, Registered, InPlace, Hold, ReadMtime, Rest, At
<1>3. Registered'
  BY DEF ConnsAssumption, Safe, TypeOK, Jobs, Apart, Registered, InPlace, Cached, Hold, ReadMtime, Rest, At
<1>4. NothingLeaks'
  BY DEF ConnsAssumption, Safe, TypeOK, Jobs, NothingLeaks, InPlace, Cached, ReadMtime, Rest, At
<1>5. ASSUME NEW u \in Threads PROVE InPlace(u)' /\ Cached(u)' /\ Current(u)'
  <2>1. CASE u = t
    <3>1. /\ job'[t].seen = file /\ job'[t].conn = cached[t]
          /\ job[t] = Rest /\ t \in alive /\ file \in Nat /\ mtime[t] \in Nat
          /\ UNCHANGED <<file, alive, cached, mtime, registry, open, opened, closing>>
      BY DEF Safe, TypeOK, Jobs, Files, InPlace, ReadMtime, At, ConnsAssumption
    <3>2. CASE cached[t] = NoConn
      <4>1. job'[t].pc = "connect"
        BY <3>2 DEF Safe, Jobs, ReadMtime, At
      <4> QED
        BY <2>1, <3>1, <3>2, <4>1 DEF ConnsAssumption, Safe, TypeOK, InPlace, Cached, Current, Rest, At
    <3>3. CASE cached[t] # NoConn /\ mtime[t] = file
      <4>1. job'[t].pc = "probe"
        BY <3>3 DEF Safe, Jobs, ReadMtime, At
      <4> QED
        BY <2>1, <3>1, <3>3, <4>1 DEF ConnsAssumption, Safe, TypeOK, InPlace, Cached, Current, Rest, At
    <3>4. CASE cached[t] # NoConn /\ mtime[t] # file
      <4>1. job'[t].pc = "discard"
        BY <3>4 DEF Safe, Jobs, ReadMtime, At
      <4> QED
        BY <2>1, <3>1, <3>4, <4>1 DEF ConnsAssumption, Safe, TypeOK, InPlace, Cached, Current, Rest, At
    <3> QED
      BY <3>2, <3>3, <3>4
  <2>2. CASE u # t
    BY <2>2 DEF ConnsAssumption, Safe, TypeOK, Jobs, Apart, Registered, InPlace, Cached, Current, Hold, ReadMtime, Rest, At
  <2> QED
    BY <2>1, <2>2
<1> QED
  BY <1>1, <1>2, <1>3, <1>4, <1>5 DEF Safe

LEMMA ProbeSafe == ASSUME ConnsAssumption, Safe, NEW t \in Threads, Probe(t) PROVE Safe'
<1>1. TypeOK' /\ job' \in Jobs'
  BY DEF ConnsAssumption, Safe, TypeOK, Jobs, Files, Phases, Probe, Rest, At, Go
<1>2. Apart'
  BY DEF ConnsAssumption, Safe, TypeOK, Jobs, Apart, Registered, InPlace, Hold, Probe, Rest, At, Go
<1>3. Registered'
  <2>1. \A u \in Threads : Hold(u)' = Hold(u)
    BY DEF Safe, Jobs, Hold, Probe, Go
  <2> QED
    BY <2>1 DEF Safe, Registered, Probe
<1>4. NothingLeaks'
  BY DEF ConnsAssumption, Safe, TypeOK, Jobs, NothingLeaks, InPlace, Cached, Probe, Rest, At, Go
<1>5. ASSUME NEW u \in Threads PROVE InPlace(u)' /\ Cached(u)' /\ Current(u)'
  <2>1. CASE u = t
    BY <2>1 DEF ConnsAssumption, Safe, TypeOK, Jobs, Files, Apart, Registered, InPlace, Cached, Current, Hold, Probe, Rest, At, Go
  <2>2. CASE u # t
    BY <2>2 DEF ConnsAssumption, Safe, TypeOK, Jobs, Apart, Registered, InPlace, Cached, Current, Hold, Probe, Rest, At, Go
  <2> QED
    BY <2>1, <2>2
<1> QED
  BY <1>1, <1>2, <1>3, <1>4, <1>5 DEF Safe

LEMMA DiscardSafe == ASSUME ConnsAssumption, Safe, NEW t \in Threads, Discard(t) PROVE Safe'
<1>1. TypeOK' /\ job' \in Jobs'
  BY DEF ConnsAssumption, Safe, TypeOK, Jobs, Files, Phases, Discard, Rest, At, Go
<1>2. Apart'
  BY DEF ConnsAssumption, Safe, TypeOK, Jobs, Apart, Registered, InPlace, Hold, Discard, Rest, At, Go
<1>3. Registered'
  BY DEF ConnsAssumption, Safe, TypeOK, Jobs, Apart, Registered, InPlace, Cached, Hold, Discard, Rest, At, Go
<1>4. NothingLeaks'
  BY DEF ConnsAssumption, Safe, TypeOK, Jobs, NothingLeaks, InPlace, Cached, Discard, Rest, At, Go
<1>5. ASSUME NEW u \in Threads PROVE InPlace(u)' /\ Cached(u)' /\ Current(u)'
  <2>1. CASE u = t
    BY <2>1 DEF ConnsAssumption, Safe, TypeOK, Jobs, Files, Apart, Registered, InPlace, Cached, Current, Hold, Discard, Rest, At, Go
  <2>2. CASE u # t
    BY <2>2 DEF ConnsAssumption, Safe, TypeOK, Jobs, Apart, Registered, InPlace, Cached, Current, Hold, Discard, Rest, At, Go
  <2> QED
    BY <2>1, <2>2
<1> QED
  BY <1>1, <1>2, <1>3, <1>4, <1>5 DEF Safe

LEMMA UnregisterSafe == ASSUME ConnsAssumption, Safe, NEW t \in Threads, Unregister(t) PROVE Safe'
<1>1. TypeOK' /\ job' \in Jobs'
  BY DEF ConnsAssumption, Safe, TypeOK, Jobs, Files, Phases, Unregister, Rest, At, Go, Restrict
<1>2. Apart'
  BY DEF ConnsAssumption, Safe, TypeOK, Jobs, Apart, Registered, InPlace, Hold, Unregister, Rest, At, Go, Restrict
<1>3. Registered'
  BY DEF ConnsAssumption, Safe, TypeOK, Jobs, Apart, Registered, InPlace, Cached, Hold, Unregister, Rest, At, Go, Restrict
<1>4. NothingLeaks'
  BY DEF ConnsAssumption, Safe, TypeOK, Jobs, NothingLeaks, InPlace, Cached, Unregister, Rest, At, Go, Restrict
<1>5. ASSUME NEW u \in Threads PROVE InPlace(u)' /\ Cached(u)' /\ Current(u)'
  <2>1. CASE u = t
    BY <2>1 DEF ConnsAssumption, Safe, TypeOK, Jobs, Files, Apart, Registered, InPlace, Cached, Current, Hold, Unregister, Rest, At, Go, Restrict
  <2>2. CASE u # t
    BY <2>2 DEF ConnsAssumption, Safe, TypeOK, Jobs, Apart, Registered, InPlace, Cached, Current, Hold, Unregister, Rest, At, Go, Restrict
  <2> QED
    BY <2>1, <2>2
<1> QED
  BY <1>1, <1>2, <1>3, <1>4, <1>5 DEF Safe

LEMMA ConnectSafe == ASSUME ConnsAssumption, Safe, NEW t \in Threads, Connect(t) PROVE Safe'
<1>1. CASE job' = [job EXCEPT ![t] = Rest] /\ UNCHANGED <<open, opened>>
  <2>0. /\ job[t].pc = "connect" /\ job[t].conn = cached[t]
        /\ job'[t] = Rest /\ \A u \in Threads : u # t => job'[u] = job[u]
        /\ UNCHANGED <<file, alive, cached, mtime, registry, open, opened, closing>>
    BY <1>1 DEF Safe, Jobs, InPlace, Connect
  <2>1. TypeOK' /\ job' \in Jobs'
    BY <1>1, <2>0 DEF ConnsAssumption, Safe, TypeOK, Jobs, Files, Phases, Rest, At
  <2>2. Apart'
    BY <2>0 DEF ConnsAssumption, Safe, TypeOK, Apart, Hold, Rest, At
  <2>3. Registered'
    BY <2>0 DEF ConnsAssumption, Safe, TypeOK, Registered, Hold, Rest, At
  <2>4. NothingLeaks'
    BY <2>0 DEF Safe, TypeOK, NothingLeaks
  <2>5. ASSUME NEW u \in Threads PROVE InPlace(u)' /\ Cached(u)' /\ Current(u)'
    BY <2>0 DEF ConnsAssumption, Safe, TypeOK, Files, InPlace, Cached, Current, Rest, At
  <2> QED
    BY <2>1, <2>2, <2>3, <2>4, <2>5 DEF Safe
<1>2. ASSUME NEW c \in Conns \ Referenced,
             open' = open \cup {c}, opened' = [opened EXCEPT ![c] = file],
             job' = [job EXCEPT ![t] = [@ EXCEPT !.pc = "remember", !.conn = c]]
      PROVE  Safe'
  <2>a. job[t].pc = "connect" /\ UNCHANGED <<file, alive, cached, mtime, registry, closing>>
    BY DEF Connect
  <2>b. \A u \in Threads : cached[u] # c /\ job[u].conn # c /\ c \notin closing[u]
    BY DEF Referenced
  <2>0. /\ job[t].pc = "connect" /\ job[t].conn = cached[t] /\ t \in alive
        /\ c \in Conns /\ c # NoConn /\ c \notin DOMAIN registry
        /\ \A u \in Threads : cached[u] # c /\ job[u].conn # c /\ c \notin closing[u]
        /\ UNCHANGED <<file, alive, cached, mtime, registry, closing>>
    BY <2>a, <2>b DEF ConnsAssumption, Safe, TypeOK, InPlace, Referenced, Rest, At
  <2>1. /\ job'[t].pc = "remember" /\ job'[t].conn = c /\ job'[t].seen = job[t].seen
        /\ \A u \in Threads : u # t => job'[u] = job[u]
        /\ job' \in Jobs'
    BY <1>2, <2>0 DEF Safe, Jobs, Phases, Files
  <2>2. /\ opened' \in [Conns -> Files] /\ opened'[c] = file
        /\ \A d \in Conns : d # c => opened'[d] = opened[d]
    BY <1>2 DEF Safe, TypeOK
  <2>3. TypeOK'
    BY <1>2, <2>0, <2>1, <2>2 DEF Safe, TypeOK, Jobs, Files
  <2>4. Apart'
    BY <2>0, <2>1 DEF Safe, Apart, Hold
  <2>5. Registered'
    BY <1>2, <2>0, <2>1 DEF Safe, Registered, Hold
  <2>6. NothingLeaks'
    <3> SUFFICES ASSUME NEW d \in open'
                 PROVE  \/ d \in DOMAIN registry
                        \/ \E u \in alive : \/ /\ job'[u].conn = d
                                              /\ job'[u].pc \in {"remember", "register"}
                                           \/ d \in closing[u]
      BY <2>0 DEF NothingLeaks
    <3>1. CASE d = c
      BY <2>0, <2>1, <3>1
    <3>2. CASE d # c
      BY <1>2, <2>0, <2>1, <3>2 DEF Safe, TypeOK, NothingLeaks
    <3> QED
      BY <3>1, <3>2
  <2>7. ASSUME NEW u \in Threads PROVE InPlace(u)' /\ Cached(u)' /\ Current(u)'
    <3>0. cached[u] # c /\ cached[u] \in Conns \cup {NoConn} /\ job[u].conn # c
      BY <2>0 DEF Safe, TypeOK
    <3>1. CASE u = t
      BY <1>2, <2>0, <2>1, <2>2, <3>0, <3>1 DEF Safe, TypeOK, Files, InPlace, Cached, Current
    <3>2. CASE u # t
      <4>1. job'[u] = job[u] /\ job[u].conn \in Conns \cup {NoConn}
        BY <2>1, <3>2 DEF Safe, TypeOK
      <4>2. InPlace(u)' /\ Cached(u)'
        BY <1>2, <2>0, <3>0, <4>1 DEF Safe, InPlace, Cached
      <4>3. Current(u)'
        BY <1>2, <2>0, <2>2, <3>0, <4>1 DEF Safe, TypeOK, InPlace, Current, ConnsAssumption
      <4> QED
        BY <4>2, <4>3
    <3> QED
      BY <3>1, <3>2
  <2> QED
    BY <2>1, <2>3, <2>4, <2>5, <2>6, <2>7 DEF Safe
<1> QED
  BY <1>1, <1>2 DEF Connect

LEMMA RememberSafe == ASSUME ConnsAssumption, Safe, NEW t \in Threads, Remember(t) PROVE Safe'
<1>1. TypeOK' /\ job' \in Jobs'
  BY DEF ConnsAssumption, Safe, TypeOK, Jobs, Files, Phases, Remember, Rest, At, Go
<1>2. Apart'
  BY DEF ConnsAssumption, Safe, TypeOK, Jobs, Apart, Registered, InPlace, Hold, Remember, Rest, At, Go
<1>3. Registered'
  BY DEF ConnsAssumption, Safe, TypeOK, Jobs, Apart, Registered, InPlace, Cached, Hold, Remember, Rest, At, Go
<1>4. NothingLeaks'
  BY DEF ConnsAssumption, Safe, TypeOK, Jobs, NothingLeaks, InPlace, Cached, Remember, Rest, At, Go
<1>5. ASSUME NEW u \in Threads PROVE InPlace(u)' /\ Cached(u)' /\ Current(u)'
  <2>1. CASE u = t
    BY <2>1 DEF ConnsAssumption, Safe, TypeOK, Jobs, Files, Apart, Registered, InPlace, Cached, Current, Hold, Remember, Rest, At, Go
  <2>2. CASE u # t
    BY <2>2 DEF ConnsAssumption, Safe, TypeOK, Jobs, Apart, Registered, InPlace, Cached, Current, Hold, Remember, Rest, At, Go
  <2> QED
    BY <2>1, <2>2
<1> QED
  BY <1>1, <1>2, <1>3, <1>4, <1>5 DEF Safe

LEMMA RegisterSafe == ASSUME ConnsAssumption, Safe, NEW t \in Threads, Register(t) PROVE Safe'
<1>0. /\ cached[t] \in Conns /\ job[t].conn = cached[t] /\ cached[t] # NoConn
      /\ cached[t] \in open /\ cached[t] \notin DOMAIN registry
      /\ job' = [job EXCEPT ![t].pc = "sweep"]
      /\ registry' = [c \in DOMAIN registry \cup {cached[t]} |->
                        IF c = cached[t] THEN t ELSE registry[c]]
      /\ UNCHANGED <<file, alive, cached, mtime, open, opened, closing>>
  BY DEF ConnsAssumption, Safe, TypeOK, InPlace, Register, Go
<1>1. TypeOK' /\ job' \in Jobs'
  <2>1. job' \in Jobs' /\ \A u \in Threads : u # t => job'[u] = job[u]
    BY <1>0 DEF Safe, Jobs, Phases
  <2>2. t \in alive
    BY DEF Safe, TypeOK, Rest, At, Register
  <2>3. /\ DOMAIN registry' \subseteq Conns
        /\ \A c \in DOMAIN registry' : registry'[c] \in Threads \cup {Dead}
    BY <1>0 DEF Safe, TypeOK
  <2> QED
    BY <1>0, <2>1, <2>2, <2>3 DEF Safe, TypeOK, Jobs
<1>2. Apart'
  BY <1>0 DEF Safe, Jobs, Apart, InPlace, Hold
<1>3. Registered'
  BY <1>0 DEF Safe, TypeOK, Jobs, Apart, Registered, InPlace, Cached, Hold
<1>4. NothingLeaks'
  BY <1>0 DEF Safe, TypeOK, Jobs, NothingLeaks, InPlace, Cached
<1>5. ASSUME NEW u \in Threads PROVE InPlace(u)' /\ Cached(u)' /\ Current(u)'
  <2>1. CASE u = t
    BY <1>0, <2>1 DEF Safe, TypeOK, Jobs, Apart, InPlace, Cached, Current, Hold, Register
  <2>2. CASE u # t
    <3>1. job'[u] = job[u] /\ cached[u] # cached[t] /\ job[u].conn # cached[t]
      BY <1>0, <2>2 DEF Safe, Jobs, Apart, Hold
    <3>2. cached[u] \in DOMAIN registry' <=> cached[u] \in DOMAIN registry
      BY <1>0, <3>1
    <3>3. job[u].conn \in DOMAIN registry' <=> job[u].conn \in DOMAIN registry
      BY <1>0, <3>1
    <3>4. cached[u] \in DOMAIN registry => registry'[cached[u]] = registry[cached[u]]
      BY <1>0, <3>1
    <3> QED
      BY <1>0, <3>1, <3>2, <3>3, <3>4 DEF Safe, InPlace, Cached, Current, Rest, At
  <2> QED
    BY <2>1, <2>2
<1> QED
  BY <1>1, <1>2, <1>3, <1>4, <1>5 DEF Safe

LEMMA SweepSafe == ASSUME ConnsAssumption, Safe, NEW t \in Threads, Sweep(t) PROVE Safe'
<1>1. TypeOK' /\ job' \in Jobs'
  BY DEF ConnsAssumption, Safe, TypeOK, Jobs, Files, Phases, Sweep, Rest, At, Go, Restrict, Abandoned
<1>2. Apart'
  BY DEF ConnsAssumption, Safe, TypeOK, Jobs, Apart, Registered, InPlace, Hold, Sweep, Rest, At, Go, Restrict, Abandoned
<1>3. Registered'
  BY DEF ConnsAssumption, Safe, TypeOK, Jobs, Apart, Registered, InPlace, Cached, Hold, Sweep, Rest, At, Go, Restrict, Abandoned
<1>4. NothingLeaks'
  BY DEF ConnsAssumption, Safe, TypeOK, Jobs, NothingLeaks, InPlace, Cached, Sweep, Rest, At, Go, Restrict, Abandoned
<1>5. ASSUME NEW u \in Threads PROVE InPlace(u)' /\ Cached(u)' /\ Current(u)'
  <2>1. CASE u = t
    BY <2>1 DEF ConnsAssumption, Safe, TypeOK, Jobs, Files, Apart, Registered, InPlace, Cached, Current, Hold, Sweep, Rest, At, Go, Restrict, Abandoned
  <2>2. CASE u # t
    BY <2>2 DEF ConnsAssumption, Safe, TypeOK, Jobs, Apart, Registered, InPlace, Cached, Current, Hold, Sweep, Rest, At, Go, Restrict, Abandoned
  <2> QED
    BY <2>1, <2>2
<1> QED
  BY <1>1, <1>2, <1>3, <1>4, <1>5 DEF Safe

LEMMA CloseSafe == ASSUME ConnsAssumption, Safe, NEW t \in Threads, Close(t) PROVE Safe'
<1>1. CASE closing[t] = {}
  <2>0. /\ job[t].pc = "close" /\ job' = [job EXCEPT ![t].pc = "use"]
        /\ UNCHANGED <<file, alive, cached, mtime, registry, open, opened, closing>>
    BY <1>1 DEF Close, Go
  <2>1. TypeOK' /\ job' \in Jobs'
    BY <2>0 DEF Safe, TypeOK, Jobs, Phases, Files, Rest, At
  <2>2. \A u \in Threads : Hold(u)' = Hold(u)
    BY <2>0 DEF Safe, Jobs, Hold
  <2>3. Apart' /\ Registered'
    BY <2>0, <2>2 DEF Safe, Apart, Registered
  <2>4. NothingLeaks'
    BY <2>0 DEF Safe, TypeOK, Jobs, NothingLeaks
  <2>5. ASSUME NEW u \in Threads PROVE InPlace(u)' /\ Cached(u)' /\ Current(u)'
    BY <1>1, <2>0 DEF Safe, Jobs, InPlace, Cached, Current
  <2> QED
    BY <2>1, <2>3, <2>4, <2>5 DEF Safe
<1>2. ASSUME NEW c \in closing[t], open' = open \ {c},
             closing' = [closing EXCEPT ![t] = @ \ {c}], UNCHANGED job
      PROVE  Safe'
  <2>0. /\ c \in Conns /\ c \notin DOMAIN registry
        /\ \A u \in Threads : cached[u] # c /\ job[u].conn # c
        /\ UNCHANGED <<file, alive, cached, mtime, registry, opened>>
    BY DEF Safe, TypeOK, Apart, Hold, Close
  <2>1. /\ closing' \in [Threads -> SUBSET Conns]
        /\ \A u \in Threads : closing'[u] \subseteq closing[u] /\ closing[u] \subseteq closing'[u] \cup {c}
    BY <1>2 DEF Safe, TypeOK
  <2>2. TypeOK' /\ job' \in Jobs'
    BY <1>2, <2>0, <2>1 DEF Safe, TypeOK, Jobs
  <2>3. Apart'
    BY <1>2, <2>0, <2>1 DEF Safe, Apart, Hold
  <2>4. Registered'
    BY <1>2, <2>0 DEF Safe, Registered, Hold
  <2>5. NothingLeaks'
    BY <1>2, <2>0, <2>1 DEF Safe, TypeOK, NothingLeaks
  <2>6. ASSUME NEW u \in Threads PROVE InPlace(u)' /\ Cached(u)' /\ Current(u)'
    BY <1>2, <2>0, <2>1 DEF Safe, InPlace, Cached, Current
  <2> QED
    BY <2>2, <2>3, <2>4, <2>5, <2>6 DEF Safe
<1> QED
  BY <1>1, <1>2 DEF Close

LEMMA UseSafe == ASSUME ConnsAssumption, Safe, NEW t \in Threads, Use(t) PROVE Safe'
<1>1. TypeOK' /\ job' \in Jobs'
  BY DEF ConnsAssumption, Safe, TypeOK, Jobs, Files, Phases, Use, Rest, At, Go
<1>2. Apart'
  BY DEF ConnsAssumption, Safe, TypeOK, Jobs, Apart, Registered, InPlace, Hold, Use, Rest, At, Go
<1>3. Registered'
  BY DEF ConnsAssumption, Safe, TypeOK, Jobs, Apart, Registered, InPlace, Cached, Hold, Use, Rest, At, Go
<1>4. NothingLeaks'
  BY DEF ConnsAssumption, Safe, TypeOK, Jobs, NothingLeaks, InPlace, Cached, Use, Rest, At, Go
<1>5. ASSUME NEW u \in Threads PROVE InPlace(u)' /\ Cached(u)' /\ Current(u)'
  <2>1. CASE u = t
    BY <2>1 DEF ConnsAssumption, Safe, TypeOK, Jobs, Files, Apart, Registered, InPlace, Cached, Current, Hold, Use, Rest, At, Go
  <2>2. CASE u # t
    BY <2>2 DEF ConnsAssumption, Safe, TypeOK, Jobs, Apart, Registered, InPlace, Cached, Current, Hold, Use, Rest, At, Go
  <2> QED
    BY <2>1, <2>2
<1> QED
  BY <1>1, <1>2, <1>3, <1>4, <1>5 DEF Safe

LEMMA StepSafe == ConnsAssumption /\ Safe /\ [Next]_vars => Safe'
<1> SUFFICES ASSUME ConnsAssumption, Safe, [Next]_vars PROVE Safe'
  OBVIOUS
<1>1. CASE UNCHANGED vars
  BY <1>1 DEF vars, Safe, TypeOK, Jobs, Apart, Registered, NothingLeaks, InPlace, Cached,
              Current, Hold
<1>2. CASE SwapFile
  <2>1. TypeOK' /\ job' \in Jobs'
    BY <1>2 DEF SwapFile, ConnsAssumption, Safe, TypeOK, Jobs, Files
  <2>2. Apart' /\ Registered' /\ NothingLeaks'
    BY <1>2 DEF SwapFile, Safe, Apart, Registered, NothingLeaks, Hold
  <2>3. \A t \in Threads : InPlace(t)' /\ Cached(t)' /\ Current(t)'
    BY <1>2 DEF SwapFile, ConnsAssumption, Safe, TypeOK, Jobs, Files, InPlace, Cached, Current
  <2> QED
    BY <2>1, <2>2, <2>3 DEF Safe
<1>3. ASSUME NEW t \in Threads,
             \/ Start(t) \/ Die(t)
             \/ ReadMtime(t) \/ Probe(t) \/ Discard(t) \/ Unregister(t)
             \/ Connect(t) \/ Remember(t) \/ Register(t)
             \/ Sweep(t) \/ Close(t) \/ Use(t)
      PROVE  Safe'
  BY <1>3, StartSafe, DieSafe, ReadMtimeSafe, ProbeSafe, DiscardSafe, UnregisterSafe,
     ConnectSafe, RememberSafe, RegisterSafe, SweepSafe, CloseSafe, UseSafe
<1> QED
  BY <1>1, <1>2, <1>3 DEF Next

LEMMA AlwaysSafe == ASSUME ConnsAssumption PROVE Spec => []Safe
<1> QED
  BY InitSafe, StepSafe, PTL DEF Spec

\* A query of get_connection's caller runs on an open connection that is the
\* thread's own: no sweep, discard or new thread closes or takes it.
THEOREM QueriesHaveAConnection == ASSUME ConnsAssumption PROVE Spec => []UsedIsOpen
<1>1. ConnsAssumption /\ Safe => UsedIsOpen
  <2> SUFFICES ASSUME ConnsAssumption, Safe, NEW t \in Threads, job[t].pc = "use"
               PROVE  /\ cached[t] \in open
                      /\ \A u \in Threads \ {t} : cached[u] # cached[t] /\ cached[t] \notin closing[u]
    BY DEF UsedIsOpen
  <2>1. cached[t] \in open /\ cached[t] # NoConn
    BY DEF ConnsAssumption, Safe, TypeOK, InPlace
  <2>2. \A u \in Threads \ {t} : cached[u] # cached[t]
    BY <2>1 DEF Safe, Apart, Hold
  <2>3. \A u \in Threads : cached[t] \notin closing[u]
    BY DEF Safe, Apart, Hold
  <2> QED
    BY <2>1, <2>2, <2>3
<1> QED
  BY <1>1, AlwaysSafe, PTL

\* A query runs on files no older than the mtimes its request read.
THEOREM QueriesAreCurrent == ASSUME ConnsAssumption PROVE Spec => []UsedIsCurrent
<1>1. ConnsAssumption /\ Safe => UsedIsCurrent
  BY DEF ConnsAssumption, Safe, TypeOK, InPlace, Current, UsedIsCurrent
<1> QED
  BY <1>1, AlwaysSafe, PTL

\* No connection stays open that neither the registry nor a running thread
\* about to register or close it knows of.
THEOREM ConnectionsAreFound == ASSUME ConnsAssumption PROVE Spec => []NothingLeaks
<1>1. Safe => NothingLeaks
  BY DEF Safe
<1> QED
  BY <1>1, AlwaysSafe, PTL

\* The registry grows with the threads that live or have died since the last
\* sweep, not with the replacements of the files, and keeps nothing closed.
THEOREM RegistryStaysSmall == ASSUME ConnsAssumption PROVE Spec => []RegistryIsBounded
<1>1. ConnsAssumption /\ Safe => RegistryIsBounded
  <2> SUFFICES ASSUME ConnsAssumption, Safe PROVE RegistryIsBounded
    OBVIOUS
  <2>1. \A c, d \in DOMAIN registry : registry[c] = registry[d] /\ registry[c] # Dead => c = d
    BY DEF Safe, Registered
  <2>2. ASSUME NEW c \in DOMAIN registry, c \notin open
        PROVE  \E t \in alive : job[t].conn = c /\ job[t].pc = "unregister"
    <3>1. PICK t \in Threads : registry[c] = t /\ cached[t] = c
      BY <2>2 DEF Safe, Registered
    <3>2. job[t].pc = "unregister"
      BY <2>2, <3>1 DEF Safe, Cached
    <3> QED
      BY <3>1, <3>2 DEF Safe, TypeOK, InPlace, Rest, At
  <2> QED
    BY <2>1, <2>2 DEF RegistryIsBounded
<1> QED
  BY <1>1, AlwaysSafe, PTL

\* The whole of it, as the run checks it.
THEOREM CacheIsSafe == ASSUME ConnsAssumption PROVE Spec => []ConnectionsAreSound
<1>1. Safe => TypeOK
  BY DEF Safe
<1>2. TypeOK /\ UsedIsOpen /\ UsedIsCurrent /\ NothingLeaks /\ RegistryIsBounded
      => ConnectionsAreSound
  BY DEF ConnectionsAreSound
<1> QED
  BY <1>1, <1>2, AlwaysSafe, QueriesHaveAConnection, QueriesAreCurrent, ConnectionsAreFound,
     RegistryStaysSmall, PTL

-----------------------------------------------------------------------------
(* The response cache *)

\* the library's definition, as the cache sees it
LEMMA SameCardinality == \A S : Responses!Cardinality(S) = Cardinality(S)
BY DEF Responses!Cardinality, Cardinality

LEMMA DivisionFacts ==
  ASSUME NEW t \in Nat, NEW d \in Nat, d > 0
  PROVE  /\ t \div d \in Nat /\ t % d \in 0 .. d - 1
         /\ t % d = t - (t \div d) * d
<1>1. t % d = t - (t \div d) * d
  OBVIOUS
<1>2. t \div d \in Nat /\ t % d \in 0 .. d - 1
  OBVIOUS
<1> QED
  BY <1>1, <1>2, Zenon

LEMMA ProductGrows ==
  ASSUME NEW d \in Nat \ {0}, NEW p \in Nat, NEW q \in Nat, p < q
  PROVE  d * p + d <= d * q
OBVIOUS

LEMMA RoundedFacts ==
  ASSUME NEW t \in Nat
  PROVE  Responses!Rounded(t) \in {t \div Second, (t \div Second) + 1}
<1> DEFINE q == t \div Second  r == t % Second
<1>1. q \in Nat /\ r \in Nat /\ q % 2 \in {0, 1} /\ Second \in Nat
  BY ResponsesAssumption, DivisionFacts DEF Responses!CacheAssumption
<1>2. Responses!Rounded(t) = CASE 2 * r < Second -> q
                               [] 2 * r > Second -> q + 1
                               [] OTHER -> q + (q % 2)
  BY DEF Responses!Rounded
<1> HIDE DEF q, r
<1>3. 2 * r < Second \/ 2 * r > Second \/ 2 * r = Second
  BY <1>1
<1> QED
  BY <1>1, <1>2, <1>3 DEF q

LEMMA RoundedGrows ==
  ASSUME NEW t \in Nat, NEW u \in Nat, t <= u
  PROVE  Responses!Rounded(t) <= Responses!Rounded(u)
<1> USE ResponsesAssumption DEF Responses!CacheAssumption
<1> DEFINE p == t \div Second  q == u \div Second  r == t % Second  s == u % Second
<1>0. /\ p \in Nat /\ q \in Nat /\ r \in 0 .. Second - 1 /\ s \in 0 .. Second - 1
      /\ r = t - p * Second /\ s = u - q * Second
  BY DivisionFacts
<1>1. /\ p \in Nat /\ q \in Nat /\ r \in 0 .. Second - 1 /\ s \in 0 .. Second - 1
      /\ t = Second * p + r /\ u = Second * q + s
  <2> HIDE DEF p, q, r, s
  <2>1. p * Second = Second * p /\ q * Second = Second * q
    BY <1>0
  <2> QED
    BY <1>0, <2>1
<1>2. Responses!Rounded(t) \in {p, p + 1} /\ Responses!Rounded(u) \in {q, q + 1}
  BY RoundedFacts
<1>3. CASE p < q
  BY <1>1, <1>2, <1>3
<1>4. CASE p = q
  <2>1. r <= s
    BY <1>1, <1>4
  <2>2. /\ Responses!Rounded(t) = CASE 2 * r < Second -> p
                                    [] 2 * r > Second -> p + 1
                                    [] OTHER -> p + (p % 2)
        /\ Responses!Rounded(u) = CASE 2 * s < Second -> q
                                    [] 2 * s > Second -> q + 1
                                    [] OTHER -> q + (q % 2)
    BY DEF Responses!Rounded
  <2>3. p % 2 \in {0, 1} /\ Second \in Nat
    BY <1>1
  <2> HIDE DEF p, q, r, s
  <2> QED
    BY <1>1, <1>4, <2>1, <2>2, <2>3
<1>5. CASE q < p
  <2>1. Second * q + Second <= Second * p
    BY <1>1, <1>5, ProductGrows
  <2> HIDE DEF p, q, r, s
  <2>2. Second * q \in Int /\ Second * p \in Int
    BY <1>1
  <2> QED
    BY <1>1, <2>1, <2>2
<1> QED
  BY <1>1, <1>3, <1>4, <1>5

\* the version was read from the files, or after every change before `limit`
ReadSince(v, limit) ==
  v \in {Nothing, Failed} \/ \E k \in DOMAIN wrote :
    v = Responses!Rounded(wrote[k]) /\ \A c \in DOMAIN wrote : wrote[c] < limit => c <= k

\* the version was read from the files no later than the content
ReadBefore(v, content) ==
  v \in {Nothing, Failed} \/ \E k \in DOMAIN wrote :
    v = Responses!Rounded(wrote[k]) /\ k <= content

\* what is newer than the content came at `limit` or later
NewerSince(content, limit) == \A c \in DOMAIN wrote : c > content => wrote[c] >= limit

WithVersion == {"check", "get", "query", "store"}
Phase == {"idle", "key"} \cup WithVersion
Known == Responses!Versions \cup {Nothing}

CacheTyped ==
  /\ time \in 0 .. MaxNow
  /\ \E n \in 0 .. MaxWrites : wrote \in [0 .. n -> 0 .. time]
  /\ \A c, d \in DOMAIN wrote : c <= d => wrote[c] <= wrote[d]
  /\ known \in [version : Known, at : 0 .. time]
  /\ DOMAIN cache \subseteq Responses!Versions /\ IsFiniteSet(DOMAIN cache)
  /\ Cardinality(DOMAIN cache) <= MaxSize
  /\ \A v \in DOMAIN cache : cache[v] \in [content : DOMAIN wrote, at : 0 .. time]
  /\ lock \in Threads \cup {Nothing}
  /\ req \in [Threads -> [pc : Phase, since : 0 .. time, version : Known,
                          content : DOMAIN wrote]]
  /\ \A t \in Threads : req[t].pc \in WithVersion => req[t].version \in Responses!Versions
  /\ \A t \in Threads : lock = t <=> req[t].pc = "get"
  /\ faults \in 0 .. MaxFaults
  /\ answer \in [content : DOMAIN wrote, since : 0 .. time, version : Known]

\* of a request: it is recent, its version belongs to its start, and its result
\* is not older than its version or its start
RequestIsTraced(t) ==
  /\ req[t].pc # "idle" => time <= req[t].since + MaxLatency
  /\ req[t].pc \in WithVersion => ReadSince(req[t].version, req[t].since - Second + 1)
  /\ req[t].pc = "store" => /\ ReadBefore(req[t].version, req[t].content)
                            /\ NewerSince(req[t].content, req[t].since)
  /\ req[t].pc = "get" => req[t].version \in DOMAIN cache

EntryIsTraced(v) ==
  /\ ReadBefore(v, cache[v].content)
  /\ NewerSince(cache[v].content, cache[v].at - MaxLatency)

AnswerIsFresh == Responses!OnlySameSecondIsStale /\ Responses!StaleAtMostTtl

Traced ==
  /\ ReadSince(known.version, known.at)
  /\ \A t \in Threads : RequestIsTraced(t)
  /\ \A v \in DOMAIN cache : EntryIsTraced(v)
  /\ AnswerIsFresh

\* the last content is the one with the highest number
LEMMA ContentIsLast ==
  ASSUME NEW n \in Nat, DOMAIN wrote = 0 .. n
  PROVE  Responses!Content = n
<1>1. n \in DOMAIN wrote /\ \A d \in DOMAIN wrote : d <= n
  OBVIOUS
<1>2. ASSUME NEW c \in DOMAIN wrote, \A d \in DOMAIN wrote : d <= c
      PROVE  c = n
  BY <1>1, <1>2
<1> QED
  BY <1>1, <1>2 DEF Responses!Content

\* what is so of a version or a content stays so while the file stays
LEMMA SameFile ==
  ASSUME UNCHANGED wrote
  PROVE  /\ \A v, l : ReadSince(v, l)' <=> ReadSince(v, l)
         /\ \A v, c : ReadBefore(v, c)' <=> ReadBefore(v, c)
         /\ \A c, l : NewerSince(c, l)' <=> NewerSince(c, l)
BY DEF ReadSince, ReadBefore, NewerSince

\* and when it is replaced, as long as the limit has been reached
LEMMA NewFile ==
  ASSUME CacheTyped, Responses!Replace
  PROVE  /\ \A v : \A l \in Int : l <= time /\ ReadSince(v, l) => ReadSince(v, l)'
         /\ \A v, c : ReadBefore(v, c) => ReadBefore(v, c)'
         /\ \A c : \A l \in Int : l <= time /\ NewerSince(c, l) => NewerSince(c, l)'
         /\ \E n \in 1 .. MaxWrites : wrote' \in [0 .. n -> 0 .. time]
         /\ \A c, d \in DOMAIN wrote' : c <= d => wrote'[c] <= wrote'[d]
         /\ DOMAIN wrote \subseteq DOMAIN wrote'
         /\ \A c \in DOMAIN wrote : wrote'[c] = wrote[c]
         /\ \A c \in DOMAIN wrote' \ DOMAIN wrote : wrote'[c] = time
<1> USE ResponsesAssumption DEF Responses!CacheAssumption
<1>1. PICK n \in 0 .. MaxWrites : wrote \in [0 .. n -> 0 .. time]
  BY DEF CacheTyped
<1>2. Responses!Content = n
  BY <1>1, ContentIsLast
<1>3. n + 1 \in 1 .. MaxWrites /\ n \in Nat
      /\ wrote' = [c \in 0 .. n + 1 |-> IF c <= n THEN wrote[c] ELSE time]
  BY <1>1, <1>2 DEF Responses!Replace
<1>4. time \in Nat
  BY DEF CacheTyped
<1>5. wrote' \in [0 .. n + 1 -> 0 .. time]
  BY <1>1, <1>3, <1>4
<1>6. /\ DOMAIN wrote' = 0 .. n + 1 /\ DOMAIN wrote = 0 .. n
      /\ \A c \in 0 .. n : wrote'[c] = wrote[c] /\ wrote[c] \in 0 .. time
      /\ wrote'[n + 1] = time
  BY <1>1, <1>3
<1>7. \A c \in DOMAIN wrote' \ DOMAIN wrote : c = n + 1
  BY <1>3, <1>6
<1>8. \A c, d \in DOMAIN wrote' : c <= d => wrote'[c] <= wrote'[d]
  <2> SUFFICES ASSUME NEW c \in 0 .. n + 1, NEW d \in 0 .. n + 1, c <= d
               PROVE  wrote'[c] <= wrote'[d]
    BY <1>6
  <2>1. CASE d <= n
    BY <1>3, <1>6, <2>1 DEF CacheTyped
  <2>2. CASE d = n + 1
    BY <1>3, <1>4, <1>5, <1>6, <2>2
  <2> QED
    BY <1>3, <2>1, <2>2
<1>9. ASSUME NEW v, NEW l \in Int, l <= time, ReadSince(v, l)
      PROVE  ReadSince(v, l)'
  <2>1. CASE v \in {Nothing, Failed}
    BY <2>1 DEF ReadSince
  <2>2. CASE v \notin {Nothing, Failed}
    <3>1. PICK k \in DOMAIN wrote :
            v = Responses!Rounded(wrote[k]) /\ \A c \in DOMAIN wrote : wrote[c] < l => c <= k
      BY <1>9, <2>2 DEF ReadSince
    <3>2. k \in DOMAIN wrote' /\ wrote'[k] = wrote[k]
      BY <1>3, <1>6, <3>1
    <3>3. \A c \in DOMAIN wrote' : wrote'[c] < l => c <= k
      BY <1>3, <1>4, <1>6, <1>9, <3>1
    <3>4. v = Responses!Rounded(wrote'[k])
      BY <3>1, <3>2
    <3> QED
      BY <3>2, <3>3, <3>4 DEF ReadSince
  <2> QED
    BY <2>1, <2>2
<1>10. ASSUME NEW v, NEW c, ReadBefore(v, c)
       PROVE  ReadBefore(v, c)'
  <2>1. CASE v \in {Nothing, Failed}
    BY <2>1 DEF ReadBefore
  <2>2. CASE v \notin {Nothing, Failed}
    <3>1. PICK k \in DOMAIN wrote : v = Responses!Rounded(wrote[k]) /\ k <= c
      BY <1>10, <2>2 DEF ReadBefore
    <3>2. k \in DOMAIN wrote' /\ wrote'[k] = wrote[k]
      BY <1>3, <1>6, <3>1
    <3>3. v = Responses!Rounded(wrote'[k])
      BY <3>1, <3>2
    <3> QED
      BY <3>1, <3>2, <3>3 DEF ReadBefore
  <2> QED
    BY <2>1, <2>2
<1>11. ASSUME NEW c, NEW l \in Int, l <= time, NewerSince(c, l)
       PROVE  NewerSince(c, l)'
  BY <1>3, <1>4, <1>6, <1>7, <1>11 DEF NewerSince
<1> QED
  BY <1>3, <1>5, <1>6, <1>7, <1>8, <1>9, <1>10, <1>11

LEMMA TickKeeps ==
  ASSUME CacheTyped, Traced, Responses!Tick
  PROVE  (CacheTyped /\ Traced)'
<1> USE ResponsesAssumption DEF Responses!CacheAssumption
<1>1. /\ time' = time + 1 /\ time \in Nat /\ time < MaxNow
      /\ UNCHANGED <<wrote, known, cache, lock, req, faults, answer>>
      /\ \A t \in Threads : req[t].pc # "idle" => time - req[t].since < MaxLatency
  BY DEF Responses!Tick, CacheTyped
<1>2. CacheTyped'
  <2>1. time' \in 0 .. MaxNow /\ 0 .. time \subseteq 0 .. time'
    BY <1>1
  <2>2. \E n \in 0 .. MaxWrites : wrote' \in [0 .. n -> 0 .. time']
    BY <1>1, <2>1 DEF CacheTyped
  <2>3. known' \in [version : Known, at : 0 .. time']
    BY <1>1, <2>1 DEF CacheTyped
  <2>4. \A v \in DOMAIN cache' : cache'[v] \in [content : DOMAIN wrote', at : 0 .. time']
    BY <1>1, <2>1 DEF CacheTyped
  <2>5. req' \in [Threads -> [pc : Phase, since : 0 .. time', version : Known,
                              content : DOMAIN wrote']]
    BY <1>1, <2>1 DEF CacheTyped
  <2>6. answer' \in [content : DOMAIN wrote', since : 0 .. time', version : Known]
    BY <1>1, <2>1 DEF CacheTyped
  <2> QED
    BY <1>1, <2>1, <2>2, <2>3, <2>4, <2>5, <2>6 DEF CacheTyped
<1>3. \A t \in Threads : RequestIsTraced(t)'
  <2> TAKE t \in Threads
  <2>1. req[t].since \in Nat
    BY DEF CacheTyped
  <2>2. req'[t].pc # "idle" => time' <= req'[t].since + MaxLatency
    BY <1>1, <2>1
  <2> QED
    BY <1>1, <2>2, SameFile DEF Traced, RequestIsTraced
<1>4. \A v \in DOMAIN cache' : EntryIsTraced(v)'
  BY <1>1, SameFile DEF Traced, EntryIsTraced
<1>5. AnswerIsFresh'
  BY <1>1 DEF Traced, AnswerIsFresh, Responses!OnlySameSecondIsStale,
              Responses!StaleAtMostTtl, Responses!Missed
<1>6. ReadSince(known.version, known.at)'
  BY <1>1, SameFile DEF Traced
<1> QED
  BY <1>2, <1>3, <1>4, <1>5, <1>6 DEF Traced

LEMMA ReplaceKeeps ==
  ASSUME CacheTyped, Traced, Responses!Replace
  PROVE  (CacheTyped /\ Traced)'
<1> USE ResponsesAssumption DEF Responses!CacheAssumption
<1>1. UNCHANGED <<time, known, cache, lock, req, faults, answer>> /\ time \in Nat
  BY DEF Responses!Replace, CacheTyped
<1>2. /\ \E n \in 0 .. MaxWrites : wrote' \in [0 .. n -> 0 .. time']
      /\ \A c, d \in DOMAIN wrote' : c <= d => wrote'[c] <= wrote'[d]
      /\ DOMAIN wrote \subseteq DOMAIN wrote'
      /\ \A c \in DOMAIN wrote : wrote'[c] = wrote[c]
      /\ \A c \in DOMAIN wrote' \ DOMAIN wrote : wrote'[c] = time
  BY <1>1, NewFile
<1>3. CacheTyped'
  <2>1. \A v \in DOMAIN cache' : cache'[v] \in [content : DOMAIN wrote', at : 0 .. time']
    BY <1>1, <1>2 DEF CacheTyped
  <2>2. req' \in [Threads -> [pc : Phase, since : 0 .. time', version : Known,
                              content : DOMAIN wrote']]
    BY <1>1, <1>2 DEF CacheTyped
  <2>3. answer' \in [content : DOMAIN wrote', since : 0 .. time', version : Known]
    BY <1>1, <1>2 DEF CacheTyped
  <2> QED
    BY <1>1, <1>2, <2>1, <2>2, <2>3 DEF CacheTyped
<1>4. /\ \A v : \A l \in Int : l <= time /\ ReadSince(v, l) => ReadSince(v, l)'
      /\ \A v, c : ReadBefore(v, c) => ReadBefore(v, c)'
      /\ \A c : \A l \in Int : l <= time /\ NewerSince(c, l) => NewerSince(c, l)'
  BY NewFile
<1>5. \A t \in Threads : RequestIsTraced(t)'
  <2> TAKE t \in Threads
  <2>1. /\ req[t].since \in Int /\ req[t].since <= time
        /\ req[t].since - Second + 1 \in Int /\ req[t].since - Second + 1 <= time
    BY DEF CacheTyped
  <2>2. RequestIsTraced(t) /\ req' = req /\ time' = time /\ cache' = cache
    BY <1>1 DEF Traced
  <2> QED
    BY <1>4, <2>1, <2>2 DEF RequestIsTraced
<1>6. \A v \in DOMAIN cache' : EntryIsTraced(v)'
  <2> SUFFICES ASSUME NEW v \in DOMAIN cache PROVE EntryIsTraced(v)'
    BY <1>1
  <2>1. cache[v].at - MaxLatency \in Int /\ cache[v].at - MaxLatency <= time
    BY DEF CacheTyped
  <2>2. EntryIsTraced(v) /\ cache' = cache
    BY <1>1 DEF Traced
  <2> QED
    BY <1>4, <2>1, <2>2 DEF EntryIsTraced
<1>7. ReadSince(known.version, known.at)'
  BY <1>1, <1>4 DEF Traced, CacheTyped
<1>8. answer.content \in DOMAIN wrote /\ answer.since \in Int /\ answer.since <= time
  BY DEF CacheTyped
<1>9. Responses!Missed' = Responses!Missed
  <2>1. \A c \in DOMAIN wrote' \ DOMAIN wrote : ~(wrote'[c] <= answer.since - Second)
    BY <1>1, <1>2, <1>8
  <2> QED
    BY <1>1, <1>2, <2>1 DEF Responses!Missed
<1>10. \A c \in Responses!Missed \cup {answer.content} : wrote'[c] = wrote[c]
  BY <1>2, <1>8 DEF Responses!Missed
<1>11. AnswerIsFresh'
  BY <1>1, <1>9, <1>10 DEF Traced, AnswerIsFresh, Responses!OnlySameSecondIsStale,
                          Responses!StaleAtMostTtl
<1> QED
  BY <1>3, <1>5, <1>6, <1>7, <1>11 DEF Traced

\* the types, when one thread's request has changed and the file has not
LEMMA OneRequest ==
  ASSUME CacheTyped, NEW t \in Threads, UNCHANGED <<time, wrote>>,
         req' \in [Threads -> [pc : Phase, since : 0 .. time, version : Known,
                               content : DOMAIN wrote]],
         \A u \in Threads \ {t} : req'[u] = req[u],
         req'[t].pc \in WithVersion => req'[t].version \in Responses!Versions,
         \A u \in Threads : lock' = u <=> req'[u].pc = "get",
         lock' \in Threads \cup {Nothing},
         known' \in [version : Known, at : 0 .. time],
         faults' \in 0 .. MaxFaults,
         DOMAIN cache' \subseteq Responses!Versions /\ IsFiniteSet(DOMAIN cache'),
         Cardinality(DOMAIN cache') <= MaxSize,
         \A v \in DOMAIN cache' : cache'[v] \in [content : DOMAIN wrote, at : 0 .. time],
         answer' \in [content : DOMAIN wrote, since : 0 .. time, version : Known]
  PROVE  CacheTyped'
<1>1. \A u \in Threads : req'[u].pc \in WithVersion => req'[u].version \in Responses!Versions
  BY DEF CacheTyped
<1>2. \E n \in 0 .. MaxWrites : wrote' \in [0 .. n -> 0 .. time']
  BY DEF CacheTyped
<1> QED
  BY <1>1, <1>2 DEF CacheTyped

\* the trace, likewise
LEMMA OneTrace ==
  ASSUME CacheTyped, Traced, NEW t \in Threads, UNCHANGED <<time, wrote>>,
         \A u \in Threads \ {t} : req'[u] = req[u],
         \A u \in Threads \ {t} : req[u].pc = "get" => req[u].version \in DOMAIN cache',
         RequestIsTraced(t)',
         ReadSince(known.version, known.at)',
         \A v \in DOMAIN cache' : EntryIsTraced(v)',
         AnswerIsFresh'
  PROVE  Traced'
<1>1. ASSUME NEW u \in Threads \ {t} PROVE RequestIsTraced(u)'
  BY <1>1, SameFile DEF Traced, RequestIsTraced
<1> QED
  BY <1>1 DEF Traced

LEMMA SameAnswer ==
  ASSUME Traced, UNCHANGED <<answer, wrote>>
  PROVE  AnswerIsFresh'
BY DEF Traced, AnswerIsFresh, Responses!OnlySameSecondIsStale, Responses!StaleAtMostTtl,
       Responses!Missed

LEMMA SameEntries ==
  ASSUME Traced, UNCHANGED <<cache, wrote>>
  PROVE  \A v \in DOMAIN cache' : EntryIsTraced(v)'
BY SameFile DEF Traced, EntryIsTraced

LEMMA BeginKeeps ==
  ASSUME CacheTyped, Traced, NEW t \in Threads, Responses!Begin(t)
  PROVE  (CacheTyped /\ Traced)'
<1> USE ResponsesAssumption DEF Responses!CacheAssumption
<1>1. UNCHANGED <<time, wrote, known, cache, lock, faults, answer>> /\ req[t].pc = "idle"
  BY DEF Responses!Begin
<1> DEFINE old == [pc |-> "idle", since |-> 0, version |-> Nothing, content |-> 0]
           new == [old EXCEPT !.pc = "key", !.since = time]
<1>2. req' = [req EXCEPT ![t] = new]
  BY DEF Responses!Begin, Responses!Idle
<1>3. 0 \in DOMAIN wrote /\ time \in Nat
  BY DEF CacheTyped
<1>4. old \in [pc : Phase, since : 0 .. time, version : Known, content : DOMAIN wrote]
  BY <1>3 DEF Phase, Known
<1>5. /\ new \in [pc : Phase, since : 0 .. time, version : Known, content : DOMAIN wrote]
      /\ new.pc = "key" /\ new.since = time
  <2>1. ASSUME NEW P, NEW S, NEW V, NEW C, NEW x \in [pc : P, since : S, version : V, content : C],
               NEW z \in S, "key" \in P, NEW y, y = [x EXCEPT !.pc = "key", !.since = z]
        PROVE  y \in [pc : P, since : S, version : V, content : C] /\ y.pc = "key" /\ y.since = z
    <3>1. y \in [pc : P, since : S, version : V, content : C]
      BY <2>1
    <3>2. y.pc = "key"
      BY <2>1
    <3>3. y.since = z
      BY <2>1
    <3> QED
      BY <3>1, <3>2, <3>3
  <2>2. time \in 0 .. time /\ "key" \in Phase
    BY <1>3 DEF Phase
  <2> HIDE DEF old
  <2> QED
    BY <1>4, <2>1, <2>2
<1> HIDE DEF new
<1>7. /\ req' \in [Threads -> [pc : Phase, since : 0 .. time, version : Known,
                               content : DOMAIN wrote]]
      /\ \A u \in Threads \ {t} : req'[u] = req[u]
      /\ req'[t].pc = "key" /\ req'[t].since = time
  BY <1>2, <1>5 DEF CacheTyped
<1>8. \A u \in Threads : lock' = u <=> req'[u].pc = "get"
  BY <1>1, <1>7 DEF CacheTyped
<1>9. CacheTyped'
  <2>1. req'[t].pc \notin WithVersion
    BY <1>7 DEF WithVersion
  <2> QED
    BY <1>1, <1>7, <1>8, <2>1, OneRequest DEF CacheTyped
<1>10. RequestIsTraced(t)'
  BY <1>1, <1>3, <1>7 DEF RequestIsTraced, WithVersion
<1>11. ReadSince(known.version, known.at)'
  BY <1>1, SameFile DEF Traced
<1>12. \A u \in Threads \ {t} : req[u].pc = "get" => req[u].version \in DOMAIN cache'
  BY <1>1 DEF Traced, RequestIsTraced
<1>13. Traced'
  BY <1>1, <1>7, <1>10, <1>11, <1>12, SameAnswer, SameEntries, OneTrace
<1> QED
  BY <1>9, <1>13

LEMMA QueryKeeps ==
  ASSUME CacheTyped, Traced, NEW t \in Threads, Responses!Query(t)
  PROVE  (CacheTyped /\ Traced)'
<1> USE ResponsesAssumption DEF Responses!CacheAssumption
<1>1. UNCHANGED <<time, wrote, known, cache, lock, faults, answer>> /\ req[t].pc = "query"
  BY DEF Responses!Query
<1>2. PICK n \in 0 .. MaxWrites : wrote \in [0 .. n -> 0 .. time]
  BY DEF CacheTyped
<1>3. Responses!Content = n /\ n \in DOMAIN wrote
  BY <1>2, ContentIsLast
<1>4. req' = [req EXCEPT ![t].pc = "store", ![t].content = n]
  BY <1>3 DEF Responses!Query
<1>5. /\ req' \in [Threads -> [pc : Phase, since : 0 .. time, version : Known,
                               content : DOMAIN wrote]]
      /\ \A u \in Threads \ {t} : req'[u] = req[u]
      /\ req'[t].pc = "store" /\ req'[t].content = n
      /\ req'[t].since = req[t].since /\ req'[t].version = req[t].version
  BY <1>3, <1>4 DEF CacheTyped, Phase, WithVersion
<1>6. \A u \in Threads : lock' = u <=> req'[u].pc = "get"
  BY <1>1, <1>5 DEF CacheTyped
<1>7. CacheTyped'
  <2>1. req'[t].version \in Responses!Versions
    BY <1>1, <1>5 DEF CacheTyped, WithVersion
  <2> QED
    BY <1>1, <1>5, <1>6, <2>1, OneRequest DEF CacheTyped
<1>8. RequestIsTraced(t)'
  <2>1. time <= req[t].since + MaxLatency /\ ReadSince(req[t].version, req[t].since - Second + 1)
    BY <1>1 DEF Traced, RequestIsTraced, WithVersion
  <2>2. ReadBefore(req[t].version, n)
    BY <1>2, <2>1 DEF ReadSince, ReadBefore
  <2>3. NewerSince(n, req[t].since)
    BY <1>2 DEF NewerSince
  <2> QED
    BY <1>1, <1>5, <2>1, <2>2, <2>3, SameFile DEF RequestIsTraced
<1>9. ReadSince(known.version, known.at)'
  BY <1>1, SameFile DEF Traced
<1>10. \A u \in Threads \ {t} : req[u].pc = "get" => req[u].version \in DOMAIN cache'
  BY <1>1 DEF Traced, RequestIsTraced
<1>11. Traced'
  BY <1>1, <1>5, <1>8, <1>9, <1>10, SameAnswer, SameEntries, OneTrace
<1> QED
  BY <1>7, <1>11

LEMMA GetVersionKeeps ==
  ASSUME CacheTyped, Traced, NEW t \in Threads, Responses!GetVersion(t)
  PROVE  (CacheTyped /\ Traced)'
<1> USE ResponsesAssumption DEF Responses!CacheAssumption
<1>1. UNCHANGED <<time, wrote, cache, lock, answer>> /\ req[t].pc = "key"
  BY DEF Responses!GetVersion
<1>2. PICK n \in 0 .. MaxWrites : wrote \in [0 .. n -> 0 .. time]
  BY DEF CacheTyped
<1>3. Responses!Content = n /\ n \in DOMAIN wrote /\ wrote[n] \in Responses!Times
  <2>1. wrote[n] \in 0 .. time /\ time \in 0 .. MaxNow
    BY <1>2 DEF CacheTyped
  <2> QED
    BY <1>2, <2>1, ContentIsLast DEF Responses!Times
<1>4. req[t].since \in 0 .. time /\ time \in Nat /\ faults \in 0 .. MaxFaults
      /\ req[t].since - Second + 1 \in Int
  BY DEF CacheTyped
<1>5. /\ known' \in [version : Known, at : 0 .. time] /\ faults' \in 0 .. MaxFaults
      /\ known'.version \in Responses!Versions
      /\ ReadSince(known'.version, known'.at)
      /\ ReadSince(known'.version, req[t].since - Second + 1)
  <2>1. CASE Responses!Recent(t)
    <3>1. UNCHANGED <<known, faults>> /\ known.version # Nothing
          /\ req[t].since - known.at < Second
      BY <2>1 DEF Responses!GetVersion, Responses!Recent
    <3>2. known \in [version : Known, at : 0 .. time] /\ known.at \in Int
      BY DEF CacheTyped
    <3>3. known.version \in Responses!Versions
      BY <3>1, <3>2 DEF Known
    <3>4. req[t].since - Second + 1 <= known.at
      BY <1>4, <3>1, <3>2
    <3>5. ReadSince(known.version, known.at)
      BY DEF Traced
    <3>6. ReadSince(known.version, req[t].since - Second + 1)
      <4>1. ASSUME NEW l \in Int, NEW m \in Int, l <= m, NEW c \in DOMAIN wrote, wrote[c] < l
            PROVE  wrote[c] < m
        BY <1>2, <1>4, <4>1
      <4> QED
        BY <1>4, <3>2, <3>4, <3>5, <4>1 DEF ReadSince
    <3> QED
      BY <1>4, <3>1, <3>2, <3>3, <3>5, <3>6
  <2>2. CASE ~Responses!Recent(t)
    <3>1. \/ /\ known' = [version |-> Responses!Rounded(wrote[n]), at |-> req[t].since]
             /\ faults' = faults
          \/ /\ known' = [version |-> Failed, at |-> req[t].since]
             /\ faults' = faults + 1 /\ faults < MaxFaults
      BY <1>3, <2>2 DEF Responses!GetVersion
    <3>2. known'.version \in {Responses!Rounded(wrote[n]), Failed}
          /\ known'.at = req[t].since
          /\ known' = [version |-> known'.version, at |-> known'.at]
      BY <3>1
    <3>3. known'.version \in Responses!Versions
      BY <1>3, <3>2 DEF Responses!Versions
    <3>4. \A l : ReadSince(known'.version, l)
      BY <1>2, <3>2 DEF ReadSince
    <3>5. faults' \in 0 .. MaxFaults
      BY <1>4, <3>1
    <3>6. known' \in [version : Known, at : 0 .. time]
      BY <1>4, <3>2, <3>3 DEF Known
    <3> QED
      BY <3>3, <3>4, <3>5, <3>6
  <2> QED
    BY <2>1, <2>2
<1>6. /\ req' \in [Threads -> [pc : Phase, since : 0 .. time, version : Known,
                               content : DOMAIN wrote]]
      /\ \A u \in Threads \ {t} : req'[u] = req[u]
      /\ req'[t].pc = "check" /\ req'[t].since = req[t].since
      /\ req'[t].version = known'.version
  <2>1. req' = [req EXCEPT ![t].pc = "check", ![t].version = known'.version]
    BY DEF Responses!GetVersion
  <2>2. known'.version \in Known
    BY <1>5 DEF Known
  <2> QED
    BY <2>1, <2>2 DEF CacheTyped, Phase, WithVersion
<1>7. \A u \in Threads : lock' = u <=> req'[u].pc = "get"
  BY <1>1, <1>6 DEF CacheTyped
<1>8. CacheTyped'
  BY <1>1, <1>5, <1>6, <1>7, OneRequest DEF CacheTyped
<1>9. RequestIsTraced(t)'
  <2>1. time <= req[t].since + MaxLatency
    BY <1>1 DEF Traced, RequestIsTraced
  <2>2. ReadSince(req'[t].version, req'[t].since - Second + 1)
    BY <1>5, <1>6
  <2> QED
    BY <1>1, <1>6, <2>1, <2>2, SameFile DEF RequestIsTraced
<1>10. ReadSince(known.version, known.at)'
  BY <1>1, <1>5, SameFile
<1>11. \A u \in Threads \ {t} : req[u].pc = "get" => req[u].version \in DOMAIN cache'
  BY <1>1 DEF Traced, RequestIsTraced
<1>12. Traced'
  BY <1>1, <1>6, <1>9, <1>10, <1>11, SameAnswer, SameEntries, OneTrace
<1> QED
  BY <1>8, <1>12

\* an answer is fresh if its content is as old as its version and newer than
\* all that came before `limit`
LEMMA FreshAnswer ==
  ASSUME CacheTyped, UNCHANGED wrote,
         NEW x \in DOMAIN wrote, NEW s \in 0 .. time, NEW v, NEW limit \in Int,
         answer' = [content |-> x, since |-> s, version |-> v],
         ReadSince(v, s - Second + 1), ReadBefore(v, x), NewerSince(x, limit),
         s < limit + Ttl + MaxLatency
  PROVE  AnswerIsFresh'
<1> USE ResponsesAssumption DEF Responses!CacheAssumption
<1>1. answer'.content = x /\ answer'.since = s /\ answer'.version = v
  OBVIOUS
<1>2. PICK n \in 0 .. MaxWrites : wrote \in [0 .. n -> 0 .. time]
  BY DEF CacheTyped
<1>3. Responses!Missed' = {c \in DOMAIN wrote : c > x /\ wrote[c] <= s - Second}
  BY <1>1 DEF Responses!Missed
<1>4. time \in Nat /\ s \in Int /\ \A c \in DOMAIN wrote : wrote[c] \in Nat /\ c \in Int
  BY <1>2 DEF CacheTyped
<1>5. Responses!StaleAtMostTtl'
  <2> SUFFICES ASSUME NEW c \in DOMAIN wrote, c > x PROVE s < wrote[c] + Ttl + MaxLatency
    BY <1>1, <1>3 DEF Responses!StaleAtMostTtl
  <2>1. limit <= wrote[c]
    BY <1>4 DEF NewerSince
  <2> QED
    BY <1>4, <2>1
<1>6. Responses!OnlySameSecondIsStale'
  <2> SUFFICES ASSUME v \notin {Nothing, Failed}, NEW c \in DOMAIN wrote,
                      c > x, wrote[c] <= s - Second
               PROVE  Responses!Rounded(wrote[c]) = Responses!Rounded(wrote[x])
    BY <1>1, <1>3 DEF Responses!OnlySameSecondIsStale
  <2>1. PICK k \in DOMAIN wrote : /\ v = Responses!Rounded(wrote[k])
                                  /\ \A d \in DOMAIN wrote : wrote[d] < s - Second + 1 => d <= k
    BY DEF ReadSince
  <2>2. PICK j \in DOMAIN wrote : v = Responses!Rounded(wrote[j]) /\ j <= x
    BY DEF ReadBefore
  <2>3. c <= k
    BY <1>4, <2>1
  <2>4. wrote[j] <= wrote[x] /\ wrote[x] <= wrote[c] /\ wrote[c] <= wrote[k]
    BY <1>4, <2>2, <2>3 DEF CacheTyped
  <2>5. /\ Responses!Rounded(wrote[j]) <= Responses!Rounded(wrote[x])
        /\ Responses!Rounded(wrote[x]) <= Responses!Rounded(wrote[c])
        /\ Responses!Rounded(wrote[c]) <= Responses!Rounded(wrote[k])
    BY <1>4, <2>4, RoundedGrows
  <2>6. \A t \in Nat : Responses!Rounded(t) \in Int
    <3> TAKE t \in Nat
    <3>1. t \div Second \in Nat
      OBVIOUS
    <3> QED
      BY <3>1, RoundedFacts
  <2>7. /\ Responses!Rounded(wrote[j]) \in Int /\ Responses!Rounded(wrote[x]) \in Int
        /\ Responses!Rounded(wrote[c]) \in Int /\ Responses!Rounded(wrote[k]) \in Int
    BY <1>4, <2>6
  <2> QED
    BY <2>1, <2>2, <2>5, <2>7
<1> QED
  BY <1>5, <1>6 DEF AnswerIsFresh

LEMMA CheckKeeps ==
  ASSUME CacheTyped, Traced, NEW t \in Threads, Responses!Check(t)
  PROVE  (CacheTyped /\ Traced)'
<1> USE ResponsesAssumption DEF Responses!CacheAssumption
<1>1. UNCHANGED <<time, wrote, known, cache, faults, answer>> /\ req[t].pc = "check"
      /\ lock = Nothing
  BY DEF Responses!Check
<1>2. /\ req' \in [Threads -> [pc : Phase, since : 0 .. time, version : Known,
                               content : DOMAIN wrote]]
      /\ \A u \in Threads \ {t} : req'[u] = req[u]
      /\ \/ req'[t].pc = "get" /\ lock' = t /\ Responses!Live(req[t].version)
         \/ req'[t].pc = "query" /\ lock' = Nothing
      /\ req'[t].since = req[t].since /\ req'[t].version = req[t].version
  <2>1. \/ /\ req' = [req EXCEPT ![t].pc = "get"] /\ lock' = t
           /\ Responses!Live(req[t].version)
        \/ req' = [req EXCEPT ![t].pc = "query"] /\ lock' = Nothing
    BY DEF Responses!Check
  <2>2. "get" \in Phase /\ "query" \in Phase
    BY DEF Phase, WithVersion
  <2>3. req \in [Threads -> [pc : Phase, since : 0 .. time, version : Known,
                             content : DOMAIN wrote]]
    BY DEF CacheTyped
  <2> QED
    BY <2>1, <2>2, <2>3
<1>3. \A u \in Threads : lock' = u <=> req'[u].pc = "get"
  BY <1>1, <1>2 DEF CacheTyped
<1>4. CacheTyped'
  <2>1. req'[t].version \in Responses!Versions
    BY <1>1, <1>2 DEF CacheTyped, WithVersion
  <2>2. lock' \in Threads \cup {Nothing}
    BY <1>2
  <2> QED
    BY <1>1, <1>2, <1>3, <2>1, <2>2, OneRequest DEF CacheTyped
<1>5. RequestIsTraced(t)'
  <2>1. time <= req[t].since + MaxLatency /\ ReadSince(req[t].version, req[t].since - Second + 1)
    BY <1>1 DEF Traced, RequestIsTraced, WithVersion
  <2>2. req'[t].pc = "get" => req[t].version \in DOMAIN cache
    BY <1>2 DEF Responses!Live
  <2> QED
    BY <1>1, <1>2, <2>1, <2>2, SameFile DEF RequestIsTraced
<1>6. ReadSince(known.version, known.at)'
  BY <1>1, SameFile DEF Traced
<1>7. \A u \in Threads \ {t} : req[u].pc = "get" => req[u].version \in DOMAIN cache'
  BY <1>1 DEF Traced, RequestIsTraced
<1>8. Traced'
  BY <1>1, <1>2, <1>5, <1>6, <1>7, SameAnswer, SameEntries, OneTrace
<1> QED
  BY <1>4, <1>8

\* the idle request
LEMMA IdleTyped ==
  ASSUME CacheTyped
  PROVE  /\ Responses!Idle \in [pc : Phase, since : 0 .. time, version : Known,
                                content : DOMAIN wrote]
         /\ Responses!Idle.pc = "idle"
<1>1. 0 \in DOMAIN wrote /\ 0 \in 0 .. time
  BY ResponsesAssumption DEF CacheTyped, Responses!CacheAssumption
<1>2. "idle" \in Phase /\ Nothing \in Known
  BY DEF Phase, Known
<1> QED
  BY <1>1, <1>2 DEF Responses!Idle

LEMMA GetKeeps ==
  ASSUME CacheTyped, Traced, NEW t \in Threads, Responses!Get(t)
  PROVE  (CacheTyped /\ Traced)'
<1> USE ResponsesAssumption DEF Responses!CacheAssumption
<1>1. UNCHANGED <<time, wrote, known, cache, faults>> /\ req[t].pc = "get"
      /\ lock' = Nothing /\ lock = t
  BY DEF Responses!Get, CacheTyped
<1>2. req' = [req EXCEPT ![t] = Responses!Idle]
  BY DEF Responses!Get, Responses!Respond
<1>3. /\ req' \in [Threads -> [pc : Phase, since : 0 .. time, version : Known,
                               content : DOMAIN wrote]]
      /\ \A u \in Threads \ {t} : req'[u] = req[u]
      /\ req'[t].pc = "idle"
  BY <1>2, IdleTyped DEF CacheTyped
<1>4. \A u \in Threads : lock' = u <=> req'[u].pc = "get"
  BY <1>1, <1>3 DEF CacheTyped
<1> DEFINE v == req[t].version
<1>5. /\ v \in Known /\ req[t].since \in 0 .. time /\ req[t].since - Second + 1 \in Int
      /\ ReadSince(v, req[t].since - Second + 1)
  BY <1>1 DEF CacheTyped, Traced, RequestIsTraced, WithVersion
<1>6. /\ AnswerIsFresh'
      /\ answer' \in [content : DOMAIN wrote, since : 0 .. time, version : Known]
  <2>1. CASE Responses!Live(v)
    <3>1. /\ v \in DOMAIN cache /\ time < cache[v].at + Ttl
          /\ answer' = [content |-> cache[v].content, since |-> req[t].since, version |-> v]
      BY <2>1 DEF Responses!Live, Responses!Get, Responses!Respond
    <3>2. cache[v].content \in DOMAIN wrote /\ cache[v].at \in Int /\ time \in Nat
          /\ cache[v].at - MaxLatency \in Int
      BY <3>1 DEF CacheTyped
    <3>3. ReadBefore(v, cache[v].content) /\ NewerSince(cache[v].content, cache[v].at - MaxLatency)
      BY <3>1 DEF Traced, EntryIsTraced
    <3>4. req[t].since < (cache[v].at - MaxLatency) + Ttl + MaxLatency
      BY <1>5, <3>1, <3>2
    <3> HIDE DEF v
    <3>5. AnswerIsFresh'
      BY <1>1, <1>5, <3>1, <3>2, <3>3, <3>4, FreshAnswer
    <3>6. answer' \in [content : DOMAIN wrote, since : 0 .. time, version : Known]
      BY <1>5, <3>1, <3>2
    <3> QED
      BY <3>5, <3>6
  <2>2. CASE ~Responses!Live(v)
    <3>1. answer' = answer
      BY <2>2 DEF Responses!Get
    <3> QED
      BY <1>1, <3>1, SameAnswer DEF CacheTyped
  <2> QED
    BY <2>1, <2>2
<1> HIDE DEF v
<1>7. CacheTyped'
  <2>1. req'[t].pc \notin WithVersion
    BY <1>3 DEF WithVersion
  <2> QED
    BY <1>1, <1>3, <1>4, <1>6, <2>1, OneRequest DEF CacheTyped
<1>8. RequestIsTraced(t)'
  BY <1>3 DEF RequestIsTraced, WithVersion
<1>9. ReadSince(known.version, known.at)'
  BY <1>1, SameFile DEF Traced
<1>10. \A u \in Threads \ {t} : req[u].pc = "get" => req[u].version \in DOMAIN cache'
  BY <1>1 DEF Traced, RequestIsTraced
<1>11. Traced'
  BY <1>1, <1>3, <1>6, <1>8, <1>9, <1>10, SameEntries, OneTrace
<1> QED
  BY <1>7, <1>11

\* storing an entry does not make the cache larger than MaxSize
LEMMA PutFits ==
  ASSUME CacheTyped, NEW v \in Responses!Versions, NEW x \in DOMAIN wrote,
         ~Responses!Live(v), Responses!Put(v, x)
  PROVE  /\ DOMAIN cache' \subseteq DOMAIN cache \cup {v}
         /\ IsFiniteSet(DOMAIN cache') /\ Cardinality(DOMAIN cache') <= MaxSize
         /\ \A w \in DOMAIN cache' :
              cache'[w] = IF w = v THEN [content |-> x, at |-> time] ELSE cache[w]
<1> USE ResponsesAssumption DEF Responses!CacheAssumption
<1> DEFINE live == {w \in DOMAIN cache : Responses!Live(w)}
<1>1. PICK kept \in IF Cardinality(live) < MaxSize THEN {live}
                    ELSE {live \ {w} : w \in live} :
        cache' = [w \in kept \cup {v} |-> IF w = v THEN [content |-> x, at |-> time]
                                          ELSE cache[w]]
  BY SameCardinality DEF Responses!Put
<1>2. IsFiniteSet(DOMAIN cache) /\ Cardinality(DOMAIN cache) <= MaxSize
  BY DEF CacheTyped
<1>3. IsFiniteSet(live) /\ Cardinality(live) <= Cardinality(DOMAIN cache)
  BY <1>2, FS_Subset
<1>4. Cardinality(live) \in Nat /\ Cardinality(DOMAIN cache) \in Nat
  BY <1>2, <1>3, FS_CardinalityType
<1>5. v \notin live /\ live \subseteq DOMAIN cache
  OBVIOUS
<1> HIDE DEF live
<1>6. kept \subseteq live /\ IsFiniteSet(kept) /\ Cardinality(kept) + 1 <= MaxSize
  <2>1. CASE Cardinality(live) < MaxSize
    BY <1>1, <1>3, <1>4, <2>1
  <2>2. CASE ~(Cardinality(live) < MaxSize)
    <3>1. PICK w \in live : kept = live \ {w}
      BY <1>1, <2>2
    <3>2. IsFiniteSet(kept) /\ Cardinality(kept) = Cardinality(live) - 1
      BY <1>3, <3>1, FS_RemoveElement
    <3> QED
      BY <1>2, <1>3, <1>4, <3>1, <3>2
  <2> QED
    BY <2>1, <2>2
<1>7. IsFiniteSet(kept \cup {v}) /\ Cardinality(kept \cup {v}) = Cardinality(kept) + 1
  BY <1>5, <1>6, FS_AddElement
<1>8. DOMAIN cache' = kept \cup {v}
  BY <1>1
<1> QED
  BY <1>1, <1>5, <1>6, <1>7, <1>8

LEMMA StoreKeeps ==
  ASSUME CacheTyped, Traced, NEW t \in Threads, Responses!Store(t)
  PROVE  (CacheTyped /\ Traced)'
<1> USE ResponsesAssumption DEF Responses!CacheAssumption
<1>1. UNCHANGED <<time, wrote, known, faults>> /\ req[t].pc = "store" /\ lock = Nothing
      /\ time \in Nat
  BY DEF Responses!Store, CacheTyped
<1> DEFINE v == req[t].version  x == req[t].content  s == req[t].since
<1>2. /\ v \in Responses!Versions /\ v \in Known /\ x \in DOMAIN wrote /\ s \in 0 .. time
      /\ s - Second + 1 \in Int /\ time - MaxLatency \in Int
      /\ time <= s + MaxLatency
      /\ ReadSince(v, s - Second + 1) /\ ReadBefore(v, x) /\ NewerSince(x, s)
  BY <1>1 DEF CacheTyped, Traced, RequestIsTraced, WithVersion, Known
<1>3. ReadSince(known.version, known.at)'
  BY <1>1, SameFile DEF Traced
<1>4. CASE Responses!Live(v)
  <2>1. /\ req' = [req EXCEPT ![t].pc = "get"] /\ lock' = t
        /\ UNCHANGED <<cache, answer>> /\ v \in DOMAIN cache
    BY <1>4 DEF Responses!Store, Responses!Live
  <2> HIDE DEF v, x, s
  <2>2. /\ req' \in [Threads -> [pc : Phase, since : 0 .. time, version : Known,
                                 content : DOMAIN wrote]]
        /\ \A u \in Threads \ {t} : req'[u] = req[u]
        /\ req'[t].pc = "get" /\ req'[t].since = s /\ req'[t].version = v
    <3>1. "get" \in Phase
      BY DEF Phase, WithVersion
    <3> QED
      BY <2>1, <3>1 DEF CacheTyped, v, s
  <2>3. \A u \in Threads : lock' = u <=> req'[u].pc = "get"
    BY <1>1, <2>1, <2>2 DEF CacheTyped
  <2>4. CacheTyped'
    BY <1>1, <1>2, <2>1, <2>2, <2>3, OneRequest DEF CacheTyped
  <2>5. RequestIsTraced(t)'
    BY <1>1, <1>2, <2>1, <2>2, SameFile DEF RequestIsTraced
  <2>6. \A u \in Threads \ {t} : req[u].pc = "get" => req[u].version \in DOMAIN cache'
    BY <2>1 DEF Traced, RequestIsTraced
  <2>7. Traced'
    BY <1>1, <1>3, <2>1, <2>2, <2>5, <2>6, SameAnswer, SameEntries, OneTrace
  <2> QED
    BY <2>4, <2>7
<1>5. CASE ~Responses!Live(v)
  <2>1. /\ req' = [req EXCEPT ![t] = Responses!Idle] /\ lock' = lock
        /\ Responses!Put(v, x)
        /\ answer' = [content |-> x, since |-> s, version |-> v]
    BY <1>5 DEF Responses!Store, Responses!Respond
  <2> HIDE DEF v, x, s
  <2>2. /\ req' \in [Threads -> [pc : Phase, since : 0 .. time, version : Known,
                                 content : DOMAIN wrote]]
        /\ \A u \in Threads \ {t} : req'[u] = req[u]
        /\ req'[t].pc = "idle"
    BY <2>1, IdleTyped DEF CacheTyped
  <2>3. \A u \in Threads : lock' = u <=> req'[u].pc = "get"
    BY <1>1, <2>1, <2>2 DEF CacheTyped
  <2>4. /\ DOMAIN cache' \subseteq DOMAIN cache \cup {v}
        /\ IsFiniteSet(DOMAIN cache') /\ Cardinality(DOMAIN cache') <= MaxSize
        /\ \A w \in DOMAIN cache' :
             cache'[w] = IF w = v THEN [content |-> x, at |-> time] ELSE cache[w]
    BY <1>2, <1>5, <2>1, PutFits
  <2>5. \A w \in DOMAIN cache' : cache'[w] \in [content : DOMAIN wrote, at : 0 .. time]
    <3> SUFFICES ASSUME NEW w \in DOMAIN cache'
                 PROVE  cache'[w] \in [content : DOMAIN wrote, at : 0 .. time]
      OBVIOUS
    <3>1. CASE w = v
      BY <1>1, <1>2, <2>4, <3>1
    <3>2. CASE w # v
      BY <2>4, <3>2 DEF CacheTyped
    <3> QED
      BY <3>1, <3>2
  <2>6. answer' \in [content : DOMAIN wrote, since : 0 .. time, version : Known]
    BY <1>2, <2>1
  <2>7. CacheTyped'
    <3>1. req'[t].pc \notin WithVersion
      BY <2>2 DEF WithVersion
    <3>2. DOMAIN cache' \subseteq Responses!Versions
      BY <1>2, <2>4 DEF CacheTyped
    <3>3. /\ known' \in [version : Known, at : 0 .. time] /\ faults' \in 0 .. MaxFaults
          /\ lock' \in Threads \cup {Nothing}
      BY <1>1, <2>1 DEF CacheTyped
    <3> QED
      BY <1>1, <2>2, <2>3, <2>4, <2>5, <2>6, <3>1, <3>2, <3>3, OneRequest
  <2>8. AnswerIsFresh'
    <3>1. s \in Int /\ s < s + Ttl + MaxLatency
      BY <1>1, <1>2
    <3> QED
      BY <1>1, <1>2, <2>1, <3>1, FreshAnswer
  <2>9. \A w \in DOMAIN cache' : EntryIsTraced(w)'
    <3> SUFFICES ASSUME NEW w \in DOMAIN cache' PROVE EntryIsTraced(w)'
      OBVIOUS
    <3>1. CASE w = v
      <4>1. cache'[w].content = x /\ cache'[w].at = time
        BY <2>4, <3>1
      <4>2. NewerSince(x, time - MaxLatency)
        <5>1. time - MaxLatency <= s
          BY <1>1, <1>2
        <5>2. \A c \in DOMAIN wrote : wrote[c] \in Nat
          BY <1>1 DEF CacheTyped
        <5> QED
          BY <1>1, <1>2, <5>1, <5>2 DEF NewerSince
      <4> QED
        BY <1>1, <1>2, <3>1, <4>1, <4>2, SameFile DEF EntryIsTraced
    <3>2. CASE w # v
      <4>1. cache'[w] = cache[w] /\ w \in DOMAIN cache
        BY <2>4, <3>2
      <4> QED
        BY <1>1, <4>1, SameFile DEF Traced, EntryIsTraced
    <3> QED
      BY <3>1, <3>2
  <2>10. RequestIsTraced(t)'
    BY <2>2 DEF RequestIsTraced, WithVersion
  <2>11. \A u \in Threads \ {t} : req[u].pc = "get" => req[u].version \in DOMAIN cache'
    BY <1>1 DEF CacheTyped
  <2>12. Traced'
    BY <1>1, <1>3, <2>2, <2>8, <2>9, <2>10, <2>11, OneTrace
  <2> QED
    BY <2>7, <2>12
<1> QED
  BY <1>4, <1>5

LEMMA CacheStep == CacheTyped /\ Traced /\ [Responses!Next]_Responses!vars
                     => (CacheTyped /\ Traced)'
<1> SUFFICES ASSUME CacheTyped, Traced, [Responses!Next]_Responses!vars
             PROVE  (CacheTyped /\ Traced)'
  OBVIOUS
<1>1. CASE Responses!Tick
  BY <1>1, TickKeeps
<1>2. CASE Responses!Replace
  BY <1>2, ReplaceKeeps
<1>3. ASSUME NEW t \in Threads,
             \/ Responses!Begin(t) \/ Responses!GetVersion(t) \/ Responses!Check(t)
             \/ Responses!Get(t) \/ Responses!Query(t) \/ Responses!Store(t)
      PROVE  (CacheTyped /\ Traced)'
  BY <1>3, BeginKeeps, GetVersionKeeps, CheckKeeps, GetKeeps, QueryKeeps, StoreKeeps
<1>4. CASE UNCHANGED Responses!vars
  <2> USE <1>4 DEF Responses!vars
  <2>1. CacheTyped'
    BY DEF CacheTyped
  <2>2. \A t \in Threads : RequestIsTraced(t)'
    BY SameFile DEF Traced, RequestIsTraced
  <2>3. ReadSince(known.version, known.at)'
    BY SameFile DEF Traced
  <2> QED
    BY <2>1, <2>2, <2>3, SameAnswer, SameEntries DEF Traced
<1> QED
  BY <1>1, <1>2, <1>3, <1>4 DEF Responses!Next

LEMMA CacheInit == Responses!Init => CacheTyped /\ Traced
<1> SUFFICES ASSUME Responses!Init PROVE CacheTyped /\ Traced
  OBVIOUS
<1> USE ResponsesAssumption DEF Responses!CacheAssumption
<1>1. /\ time = 0 /\ DOMAIN wrote = {0} /\ wrote[0] = 0 /\ wrote \in [0 .. 0 -> 0 .. 0]
      /\ known = [version |-> Nothing, at |-> 0]
      /\ DOMAIN cache = {} /\ lock = Nothing
      /\ req = [t \in Threads |-> Responses!Idle]
      /\ faults = 0 /\ answer = [content |-> 0, since |-> 0, version |-> Nothing]
  BY DEF Responses!Init
<1>2. IsFiniteSet(DOMAIN cache) /\ Cardinality(DOMAIN cache) = 0
  BY <1>1, FS_EmptySet
<1>3. /\ \A t \in Threads : req[t].pc = "idle"
      /\ req \in [Threads -> [pc : Phase, since : 0 .. time, version : Known,
                              content : DOMAIN wrote]]
  <2>1. "idle" \in Phase /\ Nothing \in Known
    BY DEF Phase, Known
  <2>2. /\ Responses!Idle.pc = "idle"
        /\ Responses!Idle \in [pc : Phase, since : 0 .. time, version : Known,
                               content : DOMAIN wrote]
    BY <1>1, <2>1 DEF Responses!Idle
  <2> QED
    BY <1>1, <2>2
<1>4. CacheTyped
  <2>1. Nothing \in Known
    BY DEF Known
  <2>2. \A t \in Threads : req[t].pc \notin WithVersion
    BY <1>3 DEF WithVersion
  <2>3. \E n \in 0 .. MaxWrites : wrote \in [0 .. n -> 0 .. time]
    BY <1>1
  <2> QED
    BY <1>1, <1>2, <1>3, <2>1, <2>2, <2>3 DEF CacheTyped
<1>5. Responses!Missed = {}
  BY <1>1 DEF Responses!Missed
<1>6. AnswerIsFresh
  BY <1>5 DEF AnswerIsFresh, Responses!OnlySameSecondIsStale, Responses!StaleAtMostTtl
<1>7. \A t \in Threads : RequestIsTraced(t)
  BY <1>3 DEF RequestIsTraced, WithVersion
<1>8. ReadSince(known.version, known.at)
  BY <1>1 DEF ReadSince
<1> QED
  BY <1>1, <1>4, <1>6, <1>7, <1>8 DEF Traced

\* For any threads, times and sizes, with any number of replacements and failing
\* stats: a response misses only what came within its rounded second, or is as
\* young as the TTL allows, and no entry goes between the test and the read.
THEOREM CacheStaysSound == Responses!Spec => []CacheIsSound
<1>1. CacheTyped /\ Traced => CacheIsSound
  <2> SUFFICES ASSUME CacheTyped, Traced PROVE CacheIsSound
    OBVIOUS
  <2> USE ResponsesAssumption DEF Responses!CacheAssumption
  <2>1. PICK n \in 0 .. MaxWrites : wrote \in [0 .. n -> 0 .. time]
    BY DEF CacheTyped
  <2>2. Responses!Content = n /\ DOMAIN wrote = 0 .. n
    BY <2>1, ContentIsLast
  <2>3. Responses!Content \in Responses!Contents /\ DOMAIN wrote = 0 .. Responses!Content
    BY <2>2 DEF Responses!Contents
  <2>4. time \in Responses!Times /\ known.at \in Responses!Times
        /\ known.version \in Responses!Versions \cup {Nothing}
    BY DEF CacheTyped, Known, Responses!Times
  <2>5. DOMAIN cache \subseteq Responses!Versions
        /\ Responses!Cardinality(DOMAIN cache) <= MaxSize
    BY SameCardinality DEF CacheTyped
  <2>6. \A t \in Threads :
          /\ req[t].pc \in {"idle", "key", "check", "get", "query", "store"}
          /\ lock = t => req[t].pc = "get"
    BY DEF CacheTyped, Phase, WithVersion
  <2>7. Responses!TypeOK
    BY <2>3, <2>4, <2>5, <2>6 DEF CacheTyped, Responses!TypeOK
  <2>8. Responses!FoundStays
    BY DEF Traced, RequestIsTraced, Responses!FoundStays
  <2> QED
    BY <2>7, <2>8 DEF Traced, AnswerIsFresh, CacheIsSound
<1> QED
  BY <1>1, CacheInit, CacheStep, PTL DEF Responses!Spec

-----------------------------------------------------------------------------
(* The rate limiter *)

LEMMA LimiterCardinality == \A S : Limiter!Cardinality(S) = Cardinality(S)
BY DEF Limiter!Cardinality, Cardinality

\* a finite set of numbers that is not empty has a least one: take the one with
\* the fewest below it
LEMMA LeastExists ==
  ASSUME NEW S \in SUBSET Int, IsFiniteSet(S), S # {}
  PROVE  Limiter!Min(S) \in S /\ \A x \in S : Limiter!Min(S) <= x
<1> DEFINE Below(r) == {q \in S : q < r}
           T == {Below(r) : r \in S}
<1>1. T \subseteq SUBSET S /\ T # {}
  OBVIOUS
<1>2. IsWellFoundedOn(StrictSubsetOrdering(S), SUBSET S)
  BY FS_StrictSubsetOrderingWellFounded, FS_FiniteSubsetsOfFinite
<1>3. PICK x \in T : \A y \in T : ~(<<y, x>> \in StrictSubsetOrdering(S))
  <2> HIDE DEF T
  <2> QED
    BY <1>1, <1>2, WFMin
<1>4. PICK m \in S : x = Below(m)
  OBVIOUS
<1>5. ASSUME NEW q \in S, q < m PROVE FALSE
  <2>1. Below(q) \subseteq Below(m)
    <3> SUFFICES ASSUME NEW p \in S, p < q PROVE p < m
      OBVIOUS
    <3>1. p \in Int /\ q \in Int /\ m \in Int
      OBVIOUS
    <3> QED
      BY <1>5, <3>1
  <2>2. q \in Below(m) /\ q \notin Below(q)
    BY <1>5
  <2>3. <<Below(q), x>> \in StrictSubsetOrdering(S)
    BY <2>1, <2>2, <1>4 DEF StrictSubsetOrdering
  <2> QED
    BY <2>3, <1>3
<1>6. \E p \in S : \A q \in S : p <= q
  BY <1>5
<1> QED
  BY <1>6 DEF Limiter!Min

\* what popleft leaves of a deque
LEMMA TrimFacts ==
  ASSUME NEW s \in Seq(Nat), NEW cutoff \in Int
  PROVE  \E m \in 1 .. Len(s) + 1 :
           LET t == Limiter!Trim(s, cutoff) IN
           /\ t \in Seq(Nat) /\ Len(t) = Len(s) - m + 1
           /\ \A i \in 1 .. Len(t) : t[i] = s[m + i - 1]
           /\ \A i \in 1 .. m - 1 : s[i] <= cutoff
           /\ m <= Len(s) => s[m] > cutoff
<1> DEFINE late == {i \in DOMAIN s : s[i] > cutoff}
           S == {Len(s) + 1} \cup late
           m == Limiter!Min(S)
           t == Limiter!Trim(s, cutoff)
<1>1. Len(s) \in Nat /\ DOMAIN s = 1 .. Len(s) /\ \A i \in 1 .. Len(s) : s[i] \in Nat
  BY LenProperties
<1>2. S \subseteq 1 .. Len(s) + 1 /\ S # {}
  BY <1>1
<1>3. IsFiniteSet(S)
  <2> HIDE DEF S
  <2>1. IsFiniteSet(1 .. Len(s) + 1)
    BY <1>1, FS_Interval
  <2> QED
    BY <1>2, <2>1, FS_Subset
<1>4. m \in S /\ \A x \in S : m <= x
  <2> HIDE DEF S
  <2> QED
    BY <1>1, <1>2, <1>3, LeastExists
<1>5. m \in 1 .. Len(s) + 1
  BY <1>2, <1>4
<1>6. \A i \in 1 .. m - 1 : s[i] <= cutoff
  <2> SUFFICES ASSUME NEW i \in 1 .. m - 1 PROVE s[i] <= cutoff
    OBVIOUS
  <2>1. i \in 1 .. Len(s) /\ i < m
    BY <1>1, <1>5
  <2>2. i \notin S
    BY <1>1, <1>4, <1>5, <2>1
  <2> QED
    BY <1>1, <2>1, <2>2
<1>7. m <= Len(s) => s[m] > cutoff
  BY <1>1, <1>4
<1>8. t = SubSeq(s, m, Len(s))
  BY DEF Limiter!Trim
<1> HIDE DEF m, t, S
<1>9. \A i \in m .. Len(s) : s[i] \in Nat
  BY <1>1, <1>5
<1>10. /\ t \in Seq(Nat) /\ Len(t) = Len(s) - m + 1
       /\ \A i \in 1 .. Len(s) - m + 1 : t[i] = s[m + i - 1]
  BY <1>1, <1>5, <1>8, <1>9, SubSeqProperties
<1> QED
  BY <1>5, <1>6, <1>7, <1>10 DEF t

LEMMA CeilFacts ==
  ASSUME NEW a \in Nat, NEW b \in Nat \ {0}
  PROVE  Limiter!CeilDiv(a, b) \in Nat /\ a <= b * Limiter!CeilDiv(a, b)
<1> DEFINE c == a + b - 1  q == c \div b  r == c % b
<1>1. c \in Nat
  OBVIOUS
<1> HIDE DEF c
<1>2. q \in Nat /\ r \in 0 .. b - 1 /\ r = c - q * b
  BY <1>1, DivisionFacts
<1>3. q * b = b * q
  BY <1>2
<1>4. Limiter!CeilDiv(a, b) = q
  BY DEF Limiter!CeilDiv, c
<1> HIDE DEF q, r
<1>5. a <= b * q
  <2>1. b * q \in Int
    BY <1>2
  <2> QED
    BY <1>2, <1>3, <2>1 DEF c
<1> QED
  BY <1>2, <1>4, <1>5

\* a client that waits as long as it is told lets the oldest request expire
LEMMA AdviceIsEnough ==
  ASSUME NEW s \in Seq(Nat), Len(s) >= 1, s[1] <= now, s[1] > Limiter!Cutoff(now),
         now \in Nat
  PROVE  /\ Limiter!RetryAfter(s) \in Nat
         /\ now + Second * Limiter!RetryAfter(s) >= s[1] + Window * Second
<1> USE BudgetAssumption DEF Limiter!LimiterAssumption
<1>1. Window \in Nat \ {0} /\ Second \in Nat \ {0}
  OBVIOUS
<1>2. s # <<>> /\ s[1] \in Nat
  BY LenProperties, EmptySeq
<1> DEFINE x == s[1] + Window * Second - now
           c == Limiter!CeilDiv(x, Second)
           n == Limiter!Min({Window, c})
           r == Limiter!Max({1, n})
<1>3. Window * Second \in Nat /\ x \in Nat /\ x <= Window * Second
  BY <1>1, <1>2 DEF Limiter!Cutoff
<1>4. Limiter!RetryAfter(s) = r
  BY <1>2 DEF Limiter!RetryAfter
<1> HIDE DEF x
<1>5. c \in Nat /\ x <= Second * c
  BY <1>1, <1>3, CeilFacts
<1> HIDE DEF c
<1>6. n \in {Window, c}
  BY <1>1, <1>5 DEF Limiter!Min
<1> HIDE DEF n
<1>7. r \in {1, n} /\ r >= n
  <2>1. n \in Int
    BY <1>1, <1>5, <1>6
  <2>2. \E y \in {1, n} : \A z \in {1, n} : y >= z
    BY <2>1
  <2>3. r \in {1, n} /\ \A z \in {1, n} : r >= z
    BY <2>2 DEF Limiter!Max
  <2> QED
    BY <2>3
<1> HIDE DEF r
<1>8. r \in Nat /\ n \in Nat
  BY <1>1, <1>5, <1>6, <1>7
<1>9. Second * n <= Second * r /\ Second * r \in Nat /\ Second * n \in Nat
  BY <1>1, <1>7, <1>8
<1>10. Window * Second = Second * Window
  BY <1>1
<1>11. x <= Second * n
  <2>1. CASE n = Window
    BY <1>3, <1>10, <2>1
  <2>2. CASE n = c
    BY <1>5, <2>2
  <2> QED
    BY <1>6, <2>1, <2>2
<1> QED
  <2> DEFINE p == Second * r  q == Second * n  w == Window * Second
  <2>1. /\ p \in Nat /\ q \in Nat /\ w \in Nat /\ q <= p
        /\ s[1] + w - now <= q
    BY <1>3, <1>9, <1>11 DEF x
  <2> HIDE DEF p, q, w
  <2>2. now + p >= s[1] + w
    BY <1>2, <2>1
  <2> QED
    BY <1>4, <1>8, <2>2 DEF p, w

\* the deque is the end of the history, and the rest of it has expired
Remembered(d, g) ==
  /\ d \in Seq(Nat) /\ Len(d) <= Len(g) /\ Len(d) <= MaxRequests
  /\ \A i \in 1 .. Len(d) : d[i] = g[Len(g) - Len(d) + i]
  /\ \A i \in 1 .. Len(g) - Len(d) : g[i] <= Limiter!Cutoff(now)

Ordered(g) ==
  /\ g \in Seq(Nat) /\ \A i \in 1 .. Len(g) : g[i] <= now
  /\ \A i, j \in 1 .. Len(g) : i <= j => g[i] <= g[j]

\* a grant came when the one MaxRequests before it had expired
Spaced(g) ==
  \A i \in 1 .. Len(g) : i > MaxRequests => g[i - MaxRequests] <= Limiter!Cutoff(g[i])

\* at the time advised, one of the last MaxRequests grants has expired
Advised(told, g) ==
  told # Limiter!None =>
    Len(g) >= MaxRequests /\ told >= g[Len(g) - MaxRequests + 1] + Window * Second

Metered(ip) ==
  /\ Ordered(granted[ip]) /\ Spaced(granted[ip])
  /\ Remembered(Limiter!Deque(ip), granted[ip])
  /\ Advised(advice[ip], granted[ip])

LimiterSafe ==
  /\ Limiter!TypeOK /\ granted \in [IPs -> Seq(Nat)]
  /\ \A ip \in IPs : Metered(ip)
  /\ Limiter!AdviceKept

LEMMA ParametersTyped ==
  /\ MaxRequests \in Nat \ {0} /\ Window \in Nat \ {0} /\ Second \in Nat \ {0}
  /\ Interval \in Nat \ {0} /\ MaxTime \in Nat /\ Window * Second \in Nat
<1>1. /\ MaxRequests \in Nat \ {0} /\ Window \in Nat \ {0} /\ Second \in Nat \ {0}
      /\ Interval \in Nat \ {0} /\ MaxTime \in Nat
  BY BudgetAssumption DEF Limiter!LimiterAssumption
<1> QED
  BY <1>1

\* trimming keeps the end of the history
LEMMA TrimRemembers ==
  ASSUME NEW g, NEW d, Ordered(g), Remembered(d, g), now \in Nat
  PROVE  LET t == Limiter!Trim(d, Limiter!Cutoff(now)) IN
         /\ Remembered(t, g)
         /\ \A i \in 1 .. Len(t) : t[i] > Limiter!Cutoff(now) /\ t[i] <= now
<1> DEFINE cutoff == Limiter!Cutoff(now)
           t == Limiter!Trim(d, cutoff)
<1>1. cutoff \in Int
  BY ParametersTyped DEF Limiter!Cutoff
<1>2. d \in Seq(Nat) /\ g \in Seq(Nat)
  BY DEF Remembered, Ordered
<1>3. /\ Len(d) \in Nat /\ Len(g) \in Nat /\ MaxRequests \in Nat
      /\ \A i \in 1 .. Len(g) : g[i] \in Nat
  BY <1>2, LenProperties, ParametersTyped
<1> HIDE DEF cutoff
<1>4. PICK m \in 1 .. Len(d) + 1 :
        /\ t \in Seq(Nat) /\ Len(t) = Len(d) - m + 1
        /\ \A i \in 1 .. Len(t) : t[i] = d[m + i - 1]
        /\ \A i \in 1 .. m - 1 : d[i] <= cutoff
        /\ m <= Len(d) => d[m] > cutoff
  BY <1>1, <1>2, TrimFacts
<1> HIDE DEF t
<1>5. Len(t) <= Len(g) /\ Len(t) <= MaxRequests /\ Len(t) \in Nat
  BY <1>3, <1>4 DEF Remembered
<1>6. ASSUME NEW i \in 1 .. Len(t) PROVE t[i] = g[Len(g) - Len(t) + i]
  <2>1. m + i - 1 \in 1 .. Len(d) /\ t[i] = d[m + i - 1]
    BY <1>3, <1>4, <1>5
  <2>2. d[m + i - 1] = g[Len(g) - Len(d) + (m + i - 1)]
    BY <2>1 DEF Remembered
  <2>3. Len(g) - Len(d) + (m + i - 1) = Len(g) - Len(t) + i
    BY <1>3, <1>4, <1>5
  <2> QED
    BY <2>1, <2>2, <2>3
<1>7. ASSUME NEW i \in 1 .. Len(g) - Len(t) PROVE g[i] <= cutoff
  <2>1. CASE i <= Len(g) - Len(d)
    BY <1>3, <1>5, <2>1 DEF Remembered, cutoff
  <2>2. CASE i > Len(g) - Len(d)
    <3> DEFINE k == i - (Len(g) - Len(d))
    <3>1. k \in 1 .. m - 1 /\ k \in 1 .. Len(d) /\ Len(g) - Len(d) + k = i
      BY <1>3, <1>4, <1>5, <2>2
    <3> HIDE DEF k
    <3>2. d[k] = g[i]
      BY <3>1 DEF Remembered
    <3> QED
      BY <1>4, <3>1, <3>2
  <2> QED
    BY <1>3, <1>5, <2>1, <2>2
<1>8. ASSUME NEW i \in 1 .. Len(t) PROVE t[i] > cutoff /\ t[i] <= now
  <2> DEFINE k == Len(g) - Len(t) + 1  l == Len(g) - Len(t) + i
  <2>1. k \in 1 .. Len(g) /\ l \in 1 .. Len(g) /\ k <= l /\ 1 \in 1 .. Len(t)
    BY <1>3, <1>5
  <2>2. t[1] = g[k] /\ t[i] = g[l]
    BY <1>6, <2>1
  <2> HIDE DEF k, l
  <2>3. g[k] <= g[l] /\ g[l] <= now /\ g[k] \in Nat /\ g[l] \in Nat
    BY <1>3, <2>1 DEF Ordered
  <2>4. t[1] > cutoff
    <3>1. m <= Len(d) /\ m + 1 - 1 = m
      BY <1>3, <1>4, <2>1
    <3> QED
      BY <1>4, <2>1, <3>1
  <2> QED
    BY <1>1, <2>2, <2>3, <2>4
<1> QED
  BY <1>4, <1>5, <1>6, <1>7, <1>8 DEF Remembered, t, cutoff

\* the window at a grant holds at most MaxRequests of a spaced history
LEMMA SpacedFits ==
  ASSUME NEW g, Ordered(g), Spaced(g), NEW i \in DOMAIN g
  PROVE  Limiter!Cardinality(Limiter!InWindow(g, g[i])) <= MaxRequests
<1> DEFINE W == Limiter!InWindow(g, g[i])
           m == Limiter!Min(W)
<1>1. g \in Seq(Nat) /\ Len(g) \in Nat /\ DOMAIN g = 1 .. Len(g)
      /\ \A j \in 1 .. Len(g) : g[j] \in Nat
  BY LenProperties DEF Ordered
<1>2. MaxRequests \in Nat \ {0} /\ Window * Second \in Nat
  BY ParametersTyped
<1>3. W = {j \in 1 .. Len(g) : g[i] - Window * Second < g[j] /\ g[j] <= g[i]}
  BY <1>1 DEF Limiter!InWindow, Limiter!Cutoff
<1>4. IsFiniteSet(W) /\ W \subseteq 1 .. Len(g)
  <2>1. IsFiniteSet(1 .. Len(g))
    BY <1>1, FS_Interval
  <2>2. W \subseteq 1 .. Len(g)
    BY <1>3
  <2> HIDE DEF W
  <2> QED
    BY <2>1, <2>2, FS_Subset
<1> HIDE DEF W
<1>5. CASE W = {}
  BY <1>2, <1>5, FS_EmptySet, LimiterCardinality DEF W
<1>6. CASE W # {}
  <2>1. m \in W /\ \A x \in W : m <= x
    <3>1. W \in SUBSET Int
      BY <1>1, <1>4
    <3> QED
      BY <1>4, <1>6, <3>1, LeastExists
  <2> HIDE DEF m
  <2>2. ASSUME NEW x \in W PROVE x \in m .. m + MaxRequests - 1
    <3>1. x \in 1 .. Len(g) /\ m \in 1 .. Len(g) /\ m <= x
      BY <1>4, <2>1
    <3>2. CASE x - MaxRequests < m
      BY <1>1, <1>2, <3>1, <3>2
    <3>3. CASE x - MaxRequests >= m
      <4> DEFINE y == x - MaxRequests
      <4>1. y \in 1 .. Len(g) /\ m <= y /\ x > MaxRequests
        BY <1>1, <1>2, <3>1, <3>3
      <4>2. g[y] <= g[x] - Window * Second
        BY <3>1, <4>1 DEF Spaced, Limiter!Cutoff
      <4> HIDE DEF y
      <4>3. g[m] <= g[y]
        BY <3>1, <4>1 DEF Ordered
      <4>4. g[x] <= g[i] /\ g[i] - Window * Second < g[m]
        BY <1>3, <2>1
      <4>5. g[x] \in Int /\ g[y] \in Int /\ g[m] \in Int /\ g[i] \in Int
        BY <1>1, <3>1, <4>1
      <4> DEFINE w == Window * Second
      <4> HIDE DEF w
      <4> QED
        BY <1>2, <4>2, <4>3, <4>4, <4>5
    <3> QED
      BY <1>1, <1>2, <3>1, <3>2, <3>3
  <2>3. m \in Int /\ m + MaxRequests - 1 \in Int
    BY <1>1, <1>2, <1>4, <2>1
  <2>4. IsFiniteSet(m .. m + MaxRequests - 1)
        /\ Cardinality(m .. m + MaxRequests - 1) = MaxRequests
    <3>1. ~(m > m + MaxRequests - 1) /\ (m + MaxRequests - 1) - m + 1 = MaxRequests
      BY <1>2, <2>3
    <3> QED
      BY <2>3, <3>1, FS_Interval
  <2>5. Cardinality(W) <= MaxRequests
    BY <2>2, <2>4, FS_Subset
  <2> QED
    BY <2>5, LimiterCardinality DEF W
<1> QED
  BY <1>5, <1>6

\* a client about which nothing changes
LEMMA SameClient ==
  ASSUME NEW ip \in IPs, Metered(ip), now' = now,
         granted'[ip] = granted[ip], advice'[ip] = advice[ip],
         Limiter!Deque(ip)' = Limiter!Deque(ip)
  PROVE  Metered(ip)'
BY DEF Metered, Ordered, Spaced, Remembered, Advised, Limiter!Cutoff

\* putting one deque leaves the others
LEMMA PutFacts ==
  ASSUME NEW ip \in IPs, NEW s, stamps' = Limiter!Put(stamps, ip, s)
  PROVE  /\ DOMAIN stamps' = DOMAIN stamps \cup {ip}
         /\ Limiter!Deque(ip)' = s /\ stamps'[ip] = s
         /\ \A j \in DOMAIN stamps \ {ip} : stamps'[j] = stamps[j]
         /\ \A j \in IPs \ {ip} : Limiter!Deque(j)' = Limiter!Deque(j)
BY DEF Limiter!Put, Limiter!Deque, Limiter!Tracked

\* the types, whatever the deques are
LEMMA LimiterTypes ==
  ASSUME \A ip \in IPs : Metered(ip), DOMAIN stamps \subseteq IPs
  PROVE  \A ip \in Limiter!Tracked : Len(stamps[ip]) <= MaxRequests
BY DEF Metered, Remembered, Limiter!Deque, Limiter!Tracked

LEMMA LimiterTick ==
  ASSUME LimiterSafe, Limiter!Tick
  PROVE  LimiterSafe'
<1>1. /\ now' = now + 1 /\ now < MaxTime /\ now \in 0 .. MaxTime
      /\ UNCHANGED <<stamps, counter, allowed, granted, refused, advice>>
  BY DEF Limiter!Tick, LimiterSafe, Limiter!TypeOK
<1>2. now \in Nat /\ now' \in 0 .. MaxTime /\ MaxTime \in Nat /\ Window * Second \in Nat
  BY <1>1, ParametersTyped
<1>3. Limiter!TypeOK'
  BY <1>1, <1>2 DEF LimiterSafe, Limiter!TypeOK, Limiter!Tracked
<1>4. ASSUME NEW ip \in IPs PROVE Metered(ip)'
  <2> DEFINE g == granted[ip]
  <2>1. Ordered(g) /\ Spaced(g) /\ Remembered(Limiter!Deque(ip), g) /\ Advised(advice[ip], g)
    BY DEF LimiterSafe, Metered
  <2>2. g \in Seq(Nat) /\ Len(g) \in Nat /\ \A i \in 1 .. Len(g) : g[i] \in Nat
    BY <2>1, LenProperties DEF Ordered
  <2>3. granted'[ip] = g /\ advice'[ip] = advice[ip]
        /\ Limiter!Deque(ip)' = Limiter!Deque(ip)
    BY <1>1 DEF Limiter!Deque, Limiter!Tracked
  <2>4. Len(Limiter!Deque(ip)) \in Nat
    BY <2>1, LenProperties DEF Remembered
  <2>5. Limiter!Cutoff(now) <= Limiter!Cutoff(now') /\ Limiter!Cutoff(now) \in Int
        /\ Limiter!Cutoff(now') \in Int
    BY <1>1, <1>2 DEF Limiter!Cutoff
  <2>6. ASSUME NEW i \in 1 .. Len(g) PROVE g[i] <= now'
    BY <1>1, <1>2, <2>1, <2>2 DEF Ordered
  <2>7. ASSUME NEW i \in 1 .. Len(g) - Len(Limiter!Deque(ip))
        PROVE  g[i] <= Limiter!Cutoff(now')
    <3>1. i \in 1 .. Len(g) /\ g[i] <= Limiter!Cutoff(now)
      BY <2>1, <2>2, <2>4 DEF Remembered
    <3> QED
      BY <2>2, <2>5, <3>1
  <2>8. Ordered(granted[ip])'
    BY <2>1, <2>3, <2>6 DEF Ordered
  <2>9. Spaced(granted[ip])'
    BY <2>1, <2>3 DEF Spaced, Limiter!Cutoff
  <2>10. Remembered(Limiter!Deque(ip), granted[ip])'
    BY <2>1, <2>3, <2>7 DEF Remembered
  <2>11. Advised(advice[ip], granted[ip])'
    BY <2>1, <2>3 DEF Advised
  <2> QED
    BY <2>8, <2>9, <2>10, <2>11 DEF Metered
<1>5. Limiter!AdviceKept'
  BY <1>1 DEF LimiterSafe, Limiter!AdviceKept
<1> QED
  BY <1>1, <1>3, <1>4, <1>5 DEF LimiterSafe

\* a grant is remembered, and the history stays spaced
LEMMA GrantKeeps ==
  ASSUME NEW g, NEW s, Ordered(g), Spaced(g), Remembered(s, g), Len(s) < MaxRequests,
         now \in Nat, NEW h, NEW d, h = Append(g, now), d = Append(s, now)
  PROVE  Ordered(h) /\ Spaced(h) /\ Remembered(d, h)
<1>1. MaxRequests \in Nat \ {0} /\ Limiter!Cutoff(now) \in Int
  BY ParametersTyped DEF Limiter!Cutoff
<1>2. /\ g \in Seq(Nat) /\ s \in Seq(Nat) /\ Len(g) \in Nat /\ Len(s) \in Nat
      /\ \A i \in 1 .. Len(g) : g[i] \in Nat
      /\ Len(s) <= Len(g)
  BY LenProperties DEF Ordered, Remembered
<1>3. /\ h \in Seq(Nat) /\ Len(h) = Len(g) + 1 /\ h[Len(g) + 1] = now
      /\ \A i \in 1 .. Len(g) : h[i] = g[i]
      /\ d \in Seq(Nat) /\ Len(d) = Len(s) + 1 /\ d[Len(s) + 1] = now
      /\ \A i \in 1 .. Len(s) : d[i] = s[i]
  BY <1>2, AppendProperties
<1>4. Ordered(h)
  <2>1. ASSUME NEW i \in 1 .. Len(h) PROVE h[i] <= now
    <3>1. CASE i = Len(g) + 1
      BY <1>3, <3>1
    <3>2. CASE i # Len(g) + 1
      <4>1. i \in 1 .. Len(g)
        BY <1>2, <1>3, <3>2
      <4> QED
        BY <1>3, <4>1 DEF Ordered
    <3> QED
      BY <3>1, <3>2
  <2>2. ASSUME NEW i \in 1 .. Len(h), NEW j \in 1 .. Len(h), i <= j PROVE h[i] <= h[j]
    <3>1. CASE j = Len(g) + 1
      BY <1>3, <2>1, <3>1
    <3>2. CASE j # Len(g) + 1
      <4>1. i \in 1 .. Len(g) /\ j \in 1 .. Len(g)
        BY <1>2, <1>3, <2>2, <3>2
      <4> QED
        BY <1>3, <2>2, <4>1 DEF Ordered
    <3> QED
      BY <3>1, <3>2
  <2> QED
    BY <1>3, <2>1, <2>2 DEF Ordered
<1>5. Spaced(h)
  <2> SUFFICES ASSUME NEW i \in 1 .. Len(h), i > MaxRequests
               PROVE  h[i - MaxRequests] <= Limiter!Cutoff(h[i])
    BY DEF Spaced
  <2>1. i - MaxRequests \in 1 .. Len(g)
    BY <1>1, <1>2, <1>3
  <2>2. h[i - MaxRequests] = g[i - MaxRequests]
    BY <1>3, <2>1
  <2>3. CASE i = Len(g) + 1
    <3>1. i - MaxRequests \in 1 .. Len(g) - Len(s)
      BY <1>1, <1>2, <2>1, <2>3
    <3> QED
      BY <1>3, <2>2, <2>3, <3>1 DEF Remembered
  <2>4. CASE i # Len(g) + 1
    <3>1. i \in 1 .. Len(g)
      BY <1>2, <1>3, <2>4
    <3>2. h[i] = g[i]
      BY <1>3, <3>1
    <3> QED
      BY <2>2, <3>1, <3>2 DEF Spaced
  <2> QED
    BY <2>3, <2>4
<1>6. Remembered(d, h)
  <2>1. Len(d) <= Len(h) /\ Len(d) <= MaxRequests
    BY <1>1, <1>2, <1>3
  <2>2. ASSUME NEW i \in 1 .. Len(d) PROVE d[i] = h[Len(h) - Len(d) + i]
    <3>1. CASE i = Len(s) + 1
      <4>1. Len(h) - Len(d) + i = Len(g) + 1
        BY <1>2, <1>3, <3>1
      <4> QED
        BY <1>3, <3>1, <4>1
    <3>2. CASE i # Len(s) + 1
      <4>1. i \in 1 .. Len(s)
        BY <1>2, <1>3, <3>2
      <4>2. Len(h) - Len(d) + i = Len(g) - Len(s) + i /\ Len(g) - Len(s) + i \in 1 .. Len(g)
        BY <1>2, <1>3, <4>1
      <4>3. s[i] = g[Len(g) - Len(s) + i]
        BY <4>1 DEF Remembered
      <4>4. h[Len(g) - Len(s) + i] = g[Len(g) - Len(s) + i]
        BY <1>3, <4>2
      <4> QED
        BY <1>3, <4>1, <4>2, <4>3, <4>4
    <3> QED
      BY <3>1, <3>2
  <2>3. ASSUME NEW i \in 1 .. Len(h) - Len(d) PROVE h[i] <= Limiter!Cutoff(now)
    <3>1. i \in 1 .. Len(g) - Len(s) /\ i \in 1 .. Len(g)
      BY <1>2, <1>3
    <3> QED
      BY <1>3, <3>1 DEF Remembered
  <2> QED
    BY <1>3, <2>1, <2>2, <2>3 DEF Remembered
<1> QED
  BY <1>4, <1>5, <1>6

LEMMA AllowKeeps ==
  ASSUME LimiterSafe, NEW ip \in IPs, Limiter!Allow(ip)
  PROVE  LimiterSafe'
<1> DEFINE trimmed == Limiter!Trim(Limiter!Deque(ip), Limiter!Cutoff(now))
<1>1. /\ now \in Nat /\ now \in 0 .. MaxTime /\ now' = now
      /\ UNCHANGED counter
  BY DEF Limiter!Allow, LimiterSafe, Limiter!TypeOK
<1>2. Ordered(granted[ip]) /\ Spaced(granted[ip]) /\ Remembered(trimmed, granted[ip])
  <2>1. Ordered(granted[ip]) /\ Spaced(granted[ip])
        /\ Remembered(Limiter!Deque(ip), granted[ip])
    BY DEF LimiterSafe, Metered
  <2> QED
    BY <1>1, <2>1, TrimRemembers
<1>3. Len(trimmed) < MaxRequests /\ stamps' = Limiter!Put(stamps, ip, Append(trimmed, now))
  BY DEF Limiter!Allow
<1>4. PICK h, d : h = Append(granted[ip], now) /\ d = Append(trimmed, now)
  OBVIOUS
<1>5. Ordered(h) /\ Spaced(h) /\ Remembered(d, h)
  BY <1>1, <1>2, <1>3, <1>4, GrantKeeps
<1>6. /\ granted' = [granted EXCEPT ![ip] = h]
      /\ allowed' = [allowed EXCEPT ![ip] = allowed[ip] + 1]
      /\ refused' = [refused EXCEPT ![ip] = Limiter!None]
      /\ advice' = [advice EXCEPT ![ip] = Limiter!None]
      /\ stamps' = Limiter!Put(stamps, ip, d)
  BY <1>3, <1>4 DEF Limiter!Allow
<1> HIDE DEF trimmed
<1>7. /\ granted' \in [IPs -> Seq(Nat)]
      /\ granted'[ip] = h /\ \A j \in IPs \ {ip} : granted'[j] = granted[j]
  BY <1>5, <1>6 DEF LimiterSafe, Ordered
<1>8. /\ refused' \in [IPs -> Int] /\ advice' \in [IPs -> Int]
      /\ refused'[ip] = Limiter!None /\ advice'[ip] = Limiter!None
      /\ \A j \in IPs \ {ip} : refused'[j] = refused[j] /\ advice'[j] = advice[j]
  BY <1>6 DEF LimiterSafe, Limiter!TypeOK, Limiter!None
<1>9. allowed' \in [IPs -> Nat]
  BY <1>6 DEF LimiterSafe, Limiter!TypeOK
<1>10. /\ DOMAIN stamps' = DOMAIN stamps \cup {ip} /\ Limiter!Deque(ip)' = d
       /\ \A j \in IPs \ {ip} : Limiter!Deque(j)' = Limiter!Deque(j)
  BY <1>6, PutFacts
<1>11. Metered(ip)'
  <2>1. Ordered(granted[ip])' /\ Spaced(granted[ip])'
        /\ Remembered(Limiter!Deque(ip), granted[ip])'
    BY <1>1, <1>5, <1>7, <1>10 DEF Ordered, Spaced, Remembered
  <2>2. Advised(advice[ip], granted[ip])'
    BY <1>8 DEF Advised
  <2> QED
    BY <2>1, <2>2 DEF Metered
<1>12. \A j \in IPs : Metered(j)'
  BY <1>1, <1>7, <1>8, <1>10, <1>11, SameClient DEF LimiterSafe
<1>13. Limiter!AdviceKept'
  BY <1>8 DEF LimiterSafe, Limiter!AdviceKept
<1>14. Limiter!TypeOK'
  <2>1. DOMAIN stamps' \subseteq IPs
    BY <1>10 DEF LimiterSafe, Limiter!TypeOK, Limiter!Tracked
  <2>2. \A j \in Limiter!Tracked' : Len(stamps'[j]) <= MaxRequests
    BY <1>12, <2>1 DEF Metered, Remembered, Limiter!Deque, Limiter!Tracked
  <2> QED
    BY <1>1, <1>8, <1>9, <2>1, <2>2 DEF LimiterSafe, Limiter!TypeOK, Limiter!Tracked
<1> QED
  BY <1>7, <1>12, <1>13, <1>14 DEF LimiterSafe

LEMMA RefuseKeeps ==
  ASSUME LimiterSafe, NEW ip \in IPs, Limiter!Refuse(ip)
  PROVE  LimiterSafe'
<1> DEFINE trimmed == Limiter!Trim(Limiter!Deque(ip), Limiter!Cutoff(now))
<1>1. /\ now \in Nat /\ now \in 0 .. MaxTime /\ now' = now
      /\ UNCHANGED <<counter, allowed, granted>>
  BY DEF Limiter!Refuse, LimiterSafe, Limiter!TypeOK
<1>2. /\ Ordered(granted[ip]) /\ Spaced(granted[ip]) /\ Advised(advice[ip], granted[ip])
      /\ Remembered(Limiter!Deque(ip), granted[ip])
  BY DEF LimiterSafe, Metered
<1>3. /\ Len(trimmed) >= MaxRequests /\ stamps' = Limiter!Put(stamps, ip, trimmed)
      /\ advice' = IF advice[ip] = Limiter!None
                   THEN [advice EXCEPT ![ip] = now + Second * Limiter!RetryAfter(trimmed)]
                   ELSE advice
      /\ refused' = [refused EXCEPT ![ip] = now]
  BY DEF Limiter!Refuse
<1>4. PICK t, g, told : t = trimmed /\ g = granted[ip]
                        /\ told = now + Second * Limiter!RetryAfter(trimmed)
  OBVIOUS
<1>5. Remembered(t, g) /\ \A i \in 1 .. Len(t) : t[i] > Limiter!Cutoff(now) /\ t[i] <= now
  BY <1>1, <1>2, <1>4, TrimRemembers
<1> DEFINE oldest == g[Len(g) - MaxRequests + 1]
<1>6. /\ t \in Seq(Nat) /\ Len(t) = MaxRequests /\ Len(g) >= MaxRequests
      /\ t[1] = oldest /\ 1 \in 1 .. Len(t) /\ t[1] \in Nat
  <2>1. t \in Seq(Nat) /\ Len(t) \in Nat /\ MaxRequests \in Nat \ {0}
        /\ g \in Seq(Nat) /\ Len(g) \in Nat
    BY <1>2, <1>4, <1>5, LenProperties, ParametersTyped DEF Remembered, Ordered
  <2>2. Len(t) = MaxRequests /\ Len(g) >= MaxRequests /\ 1 \in 1 .. Len(t)
    BY <1>3, <1>4, <1>5, <2>1 DEF Remembered
  <2>3. t[1] = oldest
    BY <1>5, <2>2 DEF Remembered
  <2>4. t[1] \in Nat
    BY <2>1, <2>2, LenProperties
  <2> QED
    BY <2>1, <2>2, <2>3, <2>4
<1>7. told \in Nat /\ told >= oldest + Window * Second
  <2>1. Len(t) >= 1 /\ t[1] > Limiter!Cutoff(now) /\ t[1] <= now
    BY <1>5, <1>6, ParametersTyped
  <2>2. /\ Limiter!RetryAfter(t) \in Nat
        /\ now + Second * Limiter!RetryAfter(t) >= t[1] + Window * Second
    BY <1>1, <1>6, <2>1, AdviceIsEnough
  <2>3. told = now + Second * Limiter!RetryAfter(t)
    BY <1>4
  <2>4. Second * Limiter!RetryAfter(t) \in Nat
    BY <2>2, ParametersTyped
  <2>5. told \in Nat
    BY <1>1, <2>3, <2>4
  <2> QED
    BY <1>6, <2>2, <2>3, <2>5
<1>8. now < oldest + Window * Second
  <2>1. t[1] > now - Window * Second
    BY <1>5, <1>6 DEF Limiter!Cutoff
  <2> QED
    BY <1>1, <1>6, <2>1, ParametersTyped
<1> HIDE DEF trimmed
<1>9. /\ advice' \in [IPs -> Int] /\ \A j \in IPs \ {ip} : advice'[j] = advice[j]
      /\ advice'[ip] = IF advice[ip] = Limiter!None THEN told ELSE advice[ip]
  BY <1>3, <1>4, <1>7 DEF LimiterSafe, Limiter!TypeOK
<1>10. advice'[ip] >= oldest + Window * Second /\ advice'[ip] \in Int
  <2>1. CASE advice[ip] = Limiter!None
    BY <1>7, <1>9, <2>1
  <2>2. CASE advice[ip] # Limiter!None
    BY <1>2, <1>4, <1>9, <2>2 DEF Advised
  <2> QED
    BY <2>1, <2>2
<1>11. /\ refused' \in [IPs -> Int] /\ refused'[ip] = now
       /\ \A j \in IPs \ {ip} : refused'[j] = refused[j]
  BY <1>1, <1>3 DEF LimiterSafe, Limiter!TypeOK
<1>12. /\ DOMAIN stamps' = DOMAIN stamps \cup {ip} /\ Limiter!Deque(ip)' = t
       /\ \A j \in IPs \ {ip} : Limiter!Deque(j)' = Limiter!Deque(j)
  BY <1>3, <1>4, PutFacts
<1>13. Metered(ip)'
  <2>1. Ordered(granted[ip])' /\ Spaced(granted[ip])'
        /\ Remembered(Limiter!Deque(ip), granted[ip])'
    BY <1>1, <1>2, <1>4, <1>5, <1>12 DEF Ordered, Spaced, Remembered
  <2>2. Advised(advice[ip], granted[ip])'
    BY <1>1, <1>4, <1>6, <1>10 DEF Advised
  <2> QED
    BY <2>1, <2>2 DEF Metered
<1>14. \A j \in IPs : Metered(j)'
  BY <1>1, <1>9, <1>12, <1>13, SameClient DEF LimiterSafe
<1>15. Limiter!AdviceKept'
  <2>1. refused'[ip] < advice'[ip]
    <3>1. oldest + Window * Second \in Int
      BY <1>6, ParametersTyped
    <3> HIDE DEF oldest
    <3> QED
      BY <1>1, <1>8, <1>10, <1>11, <3>1
  <2> QED
    BY <1>9, <1>11, <2>1 DEF LimiterSafe, Limiter!AdviceKept
<1>16. Limiter!TypeOK'
  <2>1. DOMAIN stamps' \subseteq IPs
    BY <1>12 DEF LimiterSafe, Limiter!TypeOK, Limiter!Tracked
  <2>2. \A j \in Limiter!Tracked' : Len(stamps'[j]) <= MaxRequests
    BY <1>14, <2>1 DEF Metered, Remembered, Limiter!Deque, Limiter!Tracked
  <2> QED
    BY <1>1, <1>9, <1>11, <2>1, <2>2 DEF LimiterSafe, Limiter!TypeOK, Limiter!Tracked
<1> QED
  BY <1>1, <1>14, <1>15, <1>16 DEF LimiterSafe

\* an idle client may be forgotten: all its grants have expired
LEMMA IdleForgotten ==
  ASSUME NEW g, NEW d, Ordered(g), Remembered(d, g), Limiter!Idle(d), now \in Nat
  PROVE  Remembered(<<>>, g)
<1>1. /\ g \in Seq(Nat) /\ d \in Seq(Nat) /\ Len(g) \in Nat /\ Len(d) \in Nat
      /\ \A i \in 1 .. Len(g) : g[i] \in Nat
      /\ <<>> \in Seq(Nat) /\ Len(<<>>) = 0 /\ Limiter!Cutoff(now) \in Int
      /\ MaxRequests \in Nat
  BY LenProperties, EmptySeq, ParametersTyped DEF Ordered, Remembered, Limiter!Cutoff
<1>2. ASSUME NEW i \in 1 .. Len(g) PROVE g[i] <= Limiter!Cutoff(now)
  <2>1. CASE d = <<>>
    BY <1>1, <2>1 DEF Remembered
  <2>2. CASE d # <<>>
    <3>1. Len(d) \in 1 .. Len(g) /\ d[Len(d)] <= Limiter!Cutoff(now)
      BY <1>1, <2>2, EmptySeq DEF Remembered, Limiter!Idle
    <3>2. d[Len(d)] = g[Len(g) - Len(d) + Len(d)]
      BY <1>1, <3>1 DEF Remembered
    <3>3. Len(g) - Len(d) + Len(d) = Len(g) /\ Len(g) \in 1 .. Len(g) /\ i <= Len(g)
      BY <1>1, <3>1
    <3>4. g[i] <= g[Len(g)]
      BY <3>3 DEF Ordered
    <3> QED
      BY <1>1, <3>1, <3>2, <3>3, <3>4
  <2> QED
    BY <2>1, <2>2
<1>3. \A i \in 1 .. Len(<<>>) : FALSE
  BY <1>1
<1> QED
  BY <1>1, <1>2, <1>3 DEF Remembered

(* A clean-up forgets idle clients only. *)
LEMMA CleanupKeeps ==
  ASSUME LimiterSafe, UNCHANGED <<now, granted, refused, advice>>,
         counter' \in 0 .. Interval - 1, allowed' \in [IPs -> Nat], NEW f,
         DOMAIN f \subseteq IPs, \A j \in DOMAIN f : f[j] = Limiter!Deque(j),
         \A j \in IPs \ DOMAIN f : Limiter!Deque(j) = <<>>,
         \/ stamps' = f
         \/ \E scan \in SUBSET DOMAIN f :
              stamps' = [j \in DOMAIN f \ {k \in scan : Limiter!Idle(f[k])} |-> f[j]]
  PROVE  LimiterSafe'
<1>0. now \in Nat /\ now \in 0 .. MaxTime
  BY DEF LimiterSafe, Limiter!TypeOK
<1>1. /\ DOMAIN stamps' \subseteq DOMAIN f
      /\ \A j \in DOMAIN stamps' : stamps'[j] = f[j]
      /\ \A j \in DOMAIN f \ DOMAIN stamps' : Limiter!Idle(f[j])
  <2>1. CASE stamps' = f
    BY <2>1
  <2>2. CASE stamps' # f
    <3>1. PICK scan \in SUBSET DOMAIN f :
            stamps' = [j \in DOMAIN f \ {k \in scan : Limiter!Idle(f[k])} |-> f[j]]
      BY <2>2
    <3> QED
      BY <3>1
  <2> QED
    BY <2>1, <2>2
<1>2. ASSUME NEW j \in IPs PROVE Metered(j)'
  <2>1. /\ Ordered(granted[j]) /\ Spaced(granted[j]) /\ Advised(advice[j], granted[j])
        /\ Remembered(Limiter!Deque(j), granted[j])
    BY DEF LimiterSafe, Metered
  <2>2. Limiter!Deque(j)' = IF j \in DOMAIN stamps' THEN stamps'[j] ELSE <<>>
    BY DEF Limiter!Deque, Limiter!Tracked
  <2>3. \/ Limiter!Deque(j)' = Limiter!Deque(j)
        \/ Limiter!Deque(j)' = <<>> /\ Limiter!Idle(Limiter!Deque(j))
    BY <1>1, <2>2
  <2>4. PICK d, e, g : /\ d = Limiter!Deque(j)' /\ e = Limiter!Deque(j) /\ g = granted[j]
    OBVIOUS
  <2>5. Remembered(d, g)
    BY <1>0, <2>1, <2>3, <2>4, IdleForgotten
  <2>6. Remembered(Limiter!Deque(j), granted[j])'
    BY <2>4, <2>5 DEF Remembered
  <2>7. Ordered(granted[j])' /\ Spaced(granted[j])' /\ Advised(advice[j], granted[j])'
    BY <2>1 DEF Ordered, Spaced, Advised
  <2> QED
    BY <2>6, <2>7 DEF Metered
<1>3. Limiter!TypeOK'
  <2>1. DOMAIN stamps' \subseteq IPs
    BY <1>1
  <2>2. \A j \in Limiter!Tracked' : Len(stamps'[j]) <= MaxRequests
    BY <1>2, <2>1 DEF Metered, Remembered, Limiter!Deque, Limiter!Tracked
  <2> QED
    BY <1>0, <2>1, <2>2 DEF LimiterSafe, Limiter!TypeOK, Limiter!Tracked
<1>4. Limiter!AdviceKept'
  BY DEF LimiterSafe, Limiter!AdviceKept
<1> QED
  BY <1>0, <1>2, <1>3, <1>4 DEF LimiterSafe

LEMMA CountsOn == LimiterSafe /\ counter' = (counter + 1) % Interval
                    => counter' \in 0 .. Interval - 1
<1> SUFFICES ASSUME LimiterSafe, counter' = (counter + 1) % Interval
             PROVE  counter' \in 0 .. Interval - 1
  OBVIOUS
<1>1. counter + 1 \in Nat /\ Interval \in Nat /\ Interval > 0
  BY ParametersTyped DEF LimiterSafe, Limiter!TypeOK
<1> QED
  BY <1>1, DivisionFacts

LEMMA RespondKeeps ==
  ASSUME LimiterSafe, NEW ip \in IPs, Limiter!Respond(ip)
  PROVE  LimiterSafe'
<1> DEFINE f == Limiter!Put(stamps, ip, Limiter!Deque(ip))
<1>1. /\ UNCHANGED <<now, granted, refused, advice>>
      /\ allowed[ip] > 0 /\ allowed' = [allowed EXCEPT ![ip] = allowed[ip] - 1]
      /\ counter' = (counter + 1) % Interval
  BY DEF Limiter!Respond
<1>2. counter' \in 0 .. Interval - 1 /\ allowed' \in [IPs -> Nat]
  <2>1. allowed' \in [IPs -> Nat]
    BY <1>1 DEF LimiterSafe, Limiter!TypeOK
  <2> QED
    BY <1>1, <2>1, CountsOn
<1>3. DOMAIN stamps \subseteq IPs
  BY DEF LimiterSafe, Limiter!TypeOK, Limiter!Tracked
<1>4. /\ DOMAIN f \subseteq IPs
      /\ \A j \in DOMAIN f : f[j] = Limiter!Deque(j)
      /\ \A j \in IPs \ DOMAIN f : Limiter!Deque(j) = <<>>
  BY <1>3 DEF Limiter!Put, Limiter!Deque, Limiter!Tracked
<1>5. \/ stamps' = f
      \/ \E scan \in SUBSET DOMAIN f :
           stamps' = [j \in DOMAIN f \ {k \in scan : Limiter!Idle(f[k])} |-> f[j]]
  BY DEF Limiter!Respond, Limiter!Cleanup, Limiter!kSubset
<1> HIDE DEF f
<1> QED
  BY <1>1, <1>2, <1>4, <1>5, CleanupKeeps

LEMMA RespondOtherKeeps ==
  ASSUME LimiterSafe, Limiter!RespondOther
  PROVE  LimiterSafe'
<1>1. /\ UNCHANGED <<now, granted, refused, advice>>
      /\ allowed' \in [IPs -> Nat] /\ counter' = (counter + 1) % Interval
  BY DEF Limiter!RespondOther, LimiterSafe, Limiter!TypeOK
<1>2. counter' \in 0 .. Interval - 1
  BY <1>1, CountsOn
<1>3. /\ DOMAIN stamps \subseteq IPs
      /\ \A j \in DOMAIN stamps : stamps[j] = Limiter!Deque(j)
      /\ \A j \in IPs \ DOMAIN stamps : Limiter!Deque(j) = <<>>
  BY DEF LimiterSafe, Limiter!TypeOK, Limiter!Deque, Limiter!Tracked
<1>4. \/ stamps' = stamps
      \/ \E scan \in SUBSET DOMAIN stamps :
           stamps' = [j \in DOMAIN stamps \ {k \in scan : Limiter!Idle(stamps[k])}
                        |-> stamps[j]]
  BY DEF Limiter!RespondOther, Limiter!Cleanup, Limiter!kSubset
<1> QED
  BY <1>1, <1>2, <1>3, <1>4, CleanupKeeps

LEMMA LimiterStep == LimiterSafe /\ [Limiter!Next]_Limiter!vars => LimiterSafe'
<1> SUFFICES ASSUME LimiterSafe, [Limiter!Next]_Limiter!vars PROVE LimiterSafe'
  OBVIOUS
<1>1. CASE Limiter!Tick \/ Limiter!RespondOther
  BY <1>1, LimiterTick, RespondOtherKeeps
<1>2. ASSUME NEW ip \in IPs,
             Limiter!Allow(ip) \/ Limiter!Refuse(ip) \/ Limiter!Respond(ip)
      PROVE  LimiterSafe'
  BY <1>2, AllowKeeps, RefuseKeeps, RespondKeeps
<1>3. CASE UNCHANGED Limiter!vars
  <2> USE <1>3 DEF Limiter!vars
  <2>1. \A ip \in IPs : Limiter!Deque(ip)' = Limiter!Deque(ip)
    BY DEF Limiter!Deque, Limiter!Tracked
  <2>2. \A ip \in IPs : Metered(ip)'
    BY <2>1, SameClient DEF LimiterSafe
  <2>3. Limiter!TypeOK'
    BY DEF LimiterSafe, Limiter!TypeOK, Limiter!Tracked
  <2>4. Limiter!AdviceKept'
    BY DEF LimiterSafe, Limiter!AdviceKept
  <2> QED
    BY <2>2, <2>3, <2>4 DEF LimiterSafe
<1> QED
  BY <1>1, <1>2, <1>3 DEF Limiter!Next

LEMMA LimiterInit == Limiter!Init => LimiterSafe
<1> SUFFICES ASSUME Limiter!Init PROVE LimiterSafe
  OBVIOUS
<1>1. /\ now = 0 /\ stamps = <<>> /\ counter = 0 /\ allowed = [ip \in IPs |-> 0]
      /\ granted = [ip \in IPs |-> <<>>]
      /\ refused = [ip \in IPs |-> -1] /\ advice = [ip \in IPs |-> -1]
  BY DEF Limiter!Init, Limiter!None
<1>2. DOMAIN stamps = {}
  BY <1>1
<1>3. <<>> \in Seq(Nat) /\ Len(<<>>) = 0
  BY EmptySeq
<1>4. Limiter!TypeOK
  BY <1>1, <1>2, ParametersTyped DEF Limiter!TypeOK, Limiter!Tracked
<1>5. ASSUME NEW ip \in IPs PROVE Metered(ip)
  <2>1. granted[ip] = <<>> /\ advice[ip] = Limiter!None /\ Limiter!Deque(ip) = <<>>
    BY <1>1, <1>2 DEF Limiter!Deque, Limiter!Tracked, Limiter!None
  <2>2. 1 .. Len(<<>>) = {} /\ 1 .. Len(<<>>) - Len(<<>>) = {}
    BY <1>3
  <2>3. Ordered(<<>>) /\ Spaced(<<>>)
    BY <1>3, <2>2 DEF Ordered, Spaced
  <2>4. Remembered(<<>>, <<>>)
    BY <1>3, <2>2, ParametersTyped DEF Remembered
  <2> QED
    BY <2>1, <2>3, <2>4 DEF Metered, Advised
<1>6. Limiter!AdviceKept
  BY <1>1 DEF Limiter!AdviceKept, Limiter!None
<1> QED
  BY <1>1, <1>3, <1>4, <1>5, <1>6 DEF LimiterSafe

\* For any clients, budget, window, resolution of the clock and limits of the
\* clean-up: no window holds more than the budget, and Retry-After is enough.
THEOREM BudgetStaysExact == Limiter!Spec => []BudgetIsExact
<1>1. LimiterSafe => BudgetIsExact
  <2> SUFFICES ASSUME LimiterSafe PROVE BudgetIsExact
    OBVIOUS
  <2>1. Limiter!WindowBudget
    BY SpacedFits DEF LimiterSafe, Metered, Limiter!WindowBudget
  <2> QED
    BY <2>1 DEF LimiterSafe, BudgetIsExact
<1> QED
  BY <1>1, LimiterInit, LimiterStep, PTL DEF Limiter!Spec

\* A client that is refused has used its budget in the window that ends now.
LEMMA RefusedAtLimit ==
  ASSUME LimiterSafe, NEW ip \in IPs, Limiter!Refuse(ip)
  PROVE  Limiter!Cardinality(Limiter!InWindow(granted[ip], now)) >= MaxRequests
<1> DEFINE t == Limiter!Trim(Limiter!Deque(ip), Limiter!Cutoff(now))
           g == granted[ip]
           W == Limiter!InWindow(g, now)
<1>1. now \in Nat /\ Ordered(g) /\ Remembered(Limiter!Deque(ip), g)
      /\ Len(t) >= MaxRequests
  BY DEF Limiter!Refuse, LimiterSafe, Limiter!TypeOK, Metered
<1> HIDE DEF g
<1>2. Remembered(t, g) /\ \A i \in 1 .. Len(t) : t[i] > Limiter!Cutoff(now) /\ t[i] <= now
  BY <1>1, TrimRemembers
<1> HIDE DEF t
<1>3. /\ MaxRequests \in Nat \ {0} /\ Len(t) \in Nat /\ Len(g) \in Nat /\ Len(t) <= Len(g)
      /\ DOMAIN g = 1 .. Len(g)
  BY <1>1, <1>2, LenProperties, ParametersTyped DEF Remembered, Ordered
<1> DEFINE lo == Len(g) - Len(t) + 1
<1>4. lo .. Len(g) \subseteq W
  <2> SUFFICES ASSUME NEW k \in lo .. Len(g) PROVE k \in W
    OBVIOUS
  <2>1. k - lo + 1 \in 1 .. Len(t) /\ Len(g) - Len(t) + (k - lo + 1) = k /\ k \in 1 .. Len(g)
    BY <1>3
  <2>2. t[k - lo + 1] = g[k]
    BY <1>2, <2>1 DEF Remembered
  <2>3. g[k] > Limiter!Cutoff(now) /\ g[k] <= now
    BY <1>2, <2>1, <2>2
  <2>4. Limiter!Cutoff(now) < g[k]
    <3>1. Limiter!Cutoff(now) \in Int /\ g[k] \in Nat
      BY <1>1, <2>1, LenProperties, ParametersTyped DEF Limiter!Cutoff, Ordered
    <3> QED
      BY <2>3, <3>1
  <2> QED
    BY <1>3, <2>1, <2>3, <2>4 DEF Limiter!InWindow
<1>5. IsFiniteSet(W)
  <2>1. IsFiniteSet(DOMAIN g) /\ W \subseteq DOMAIN g
    BY <1>3, FS_Interval DEF Limiter!InWindow
  <2> HIDE DEF W
  <2> QED
    BY <2>1, FS_Subset
<1>6. Cardinality(lo .. Len(g)) = Len(t)
  <2>1. lo \in Int /\ Len(g) - lo + 1 = Len(t) /\ (lo > Len(g) <=> Len(t) = 0)
    BY <1>3
  <2> HIDE DEF lo
  <2>2. Len(g) \in Int
    BY <1>3
  <2>3. Cardinality(lo .. Len(g)) = IF lo > Len(g) THEN 0 ELSE Len(g) - lo + 1
    BY <2>1, <2>2, FS_Interval
  <2> QED
    BY <2>1, <2>3
<1> HIDE DEF W, lo
<1>7. Len(t) <= Cardinality(W) /\ Cardinality(W) \in Nat
  BY <1>4, <1>5, <1>6, FS_Subset, FS_CardinalityType
<1> QED
  BY <1>1, <1>3, <1>7, LimiterCardinality DEF W, g

\* Who gets a 429 has used the whole budget in the window that ends now: the
\* trimming and the clean-up of the deques never make a client look busier.
THEOREM RefusalsAreDue == Limiter!Spec => RefusedOnlyAtLimit
<1> DEFINE Due == \A ip \in IPs : Limiter!Refuse(ip) =>
                    Limiter!Cardinality(Limiter!InWindow(granted[ip], now)) >= MaxRequests
<1>1. LimiterSafe /\ [Limiter!Next]_Limiter!vars => [Due]_Limiter!vars
  BY RefusedAtLimit
<1>2. Limiter!Spec => [][Due]_Limiter!vars
  BY <1>1, LimiterInit, LimiterStep, PTL DEF Limiter!Spec
<1> QED
  BY <1>2 DEF RefusedOnlyAtLimit, Limiter!RefusedOnlyAtLimit
=============================================================================
