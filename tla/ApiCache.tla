------------------------------- MODULE ApiCache -------------------------------
(***************************************************************************)
(* The response cache of the query endpoints (shared/cache.py): a version  *)
(* string made of the database files' mtimes, itself cached for a second,  *)
(* is part of the key of a TTL cache.  Requests run in threads; the ERP    *)
(* replaces the file whenever it likes.  One endpoint with one set of      *)
(* arguments: keys that differ in them never meet, except for the space    *)
(* they take.  The two files' mtimes are one: a version is their pair.     *)
(***************************************************************************)
EXTENDS Integers, FiniteSets, Functions

CONSTANTS
  Threads,
  Second,        \* ticks of the clock in a second
  Ttl,           \* 300 s, in ticks
  MaxSize,       \* 200 entries
  MaxLatency,    \* a request ends within MaxLatency ticks
  MaxNow, MaxWrites, MaxFaults,     \* bounds of the model
  None, Failed   \* no version, no entry; the version "0_0" of a failed stat

CacheAssumption ==
  /\ Second \in Nat \ {0} /\ Ttl \in Nat \ {0} /\ MaxSize \in Nat \ {0}
  /\ MaxLatency \in Nat /\ MaxNow \in Nat /\ MaxWrites \in Nat
  /\ MaxFaults \in Nat /\ None \notin Threads

VARIABLES
  now,
  wrote,      \* wrote[c]: when the file with content c was put in place
  known,      \* _db_version_cache and its timestamp
  cache,      \* _api_cache: version -> content and time of storing
  lock,       \* holder of _cache_lock between two steps under it, or None
  req,        \* what each thread is doing
  faults,
  answer      \* history: the last response, and when its request began

vars == <<now, wrote, known, cache, lock, req, faults, answer>>

Times    == 0 .. MaxNow
Contents == 0 .. MaxWrites
Content  == CHOOSE c \in DOMAIN wrote : \A d \in DOMAIN wrote : d <= c
Idle     == [pc |-> "idle", since |-> 0, version |-> None, content |-> 0]

\* "{mtime:.0f}": to the nearest second, a tie to the even one
Rounded(t) ==
  LET q == t \div Second  r == t % Second
  IN CASE 2 * r < Second -> q
       [] 2 * r > Second -> q + 1
       [] OTHER -> q + (q % 2)

Versions == {Rounded(t) : t \in Times} \cup {Failed}

\* a plausible bug: the mtime stands for freshness, entries never expire
NeverExpires(v) == v \in DOMAIN cache

Live(v) == v \in DOMAIN cache /\ now < cache[v].at + Ttl

-----------------------------------------------------------------------------
Init ==
  /\ now = 0 /\ wrote = [c \in {0} |-> 0]
  /\ known = [version |-> None, at |-> 0]
  /\ cache = [v \in {} |-> 0] /\ lock = None
  /\ req = [t \in Threads |-> Idle]
  /\ faults = 0
  /\ answer = [content |-> 0, since |-> 0, version |-> None]

Tick ==
  /\ now < MaxNow /\ now' = now + 1
  /\ \A t \in Threads :
       req[t].pc # "idle" => now - req[t].since < MaxLatency
  /\ UNCHANGED <<wrote, known, cache, lock, req, faults, answer>>

\* the ERP puts a new file in place
Replace ==
  /\ Content < MaxWrites
  /\ wrote' = [c \in 0 .. Content + 1 |->
                 IF c <= Content THEN wrote[c] ELSE now]
  /\ UNCHANGED <<now, known, cache, lock, req, faults, answer>>

-----------------------------------------------------------------------------
\* the clock is read before the version lock is taken
Begin(t) ==
  /\ req[t].pc = "idle"
  /\ req' = [req EXCEPT ![t] = [Idle EXCEPT !.pc = "key", !.since = now]]
  /\ UNCHANGED <<now, wrote, known, cache, lock, faults, answer>>

Recent(t) == known.version # None /\ req[t].since - known.at < Second

GetVersion(t) ==
  /\ req[t].pc = "key"
  /\ IF Recent(t)
     THEN UNCHANGED <<known, faults>>
     ELSE \/ /\ known' = [version |-> Rounded(wrote[Content]),
                          at |-> req[t].since]
             /\ UNCHANGED faults
          \/ /\ faults < MaxFaults /\ faults' = faults + 1
             /\ known' = [version |-> Failed, at |-> req[t].since]
  /\ req' = [req EXCEPT ![t].pc = "check", ![t].version = known'.version]
  /\ UNCHANGED <<now, wrote, cache, lock, answer>>

Respond(t, content) ==
  /\ answer' = [content |-> content, since |-> req[t].since,
                version |-> req[t].version]
  /\ req' = [req EXCEPT ![t] = Idle]

\* a plausible bug: the lock is let go once the entry is found
CheckUnlocked(t) ==
  /\ req[t].pc = "check" /\ lock = None
  /\ req' = [req EXCEPT ![t].pc = IF Live(req[t].version) THEN "get" ELSE "query"]
  /\ UNCHANGED <<now, wrote, known, cache, lock, faults, answer>>

\* `cache_key in _api_cache`; the lock is kept until the entry is read
Check(t) ==
  /\ req[t].pc = "check" /\ lock = None
  /\ IF Live(req[t].version)
     THEN lock' = t /\ req' = [req EXCEPT ![t].pc = "get"]
     ELSE lock' = None /\ req' = [req EXCEPT ![t].pc = "query"]
  /\ UNCHANGED <<now, wrote, known, cache, faults, answer>>

\* `_api_cache[cache_key]`, which raises KeyError for an entry that has expired
\* since it was found: the request then ends without a response
Get(t) ==
  /\ req[t].pc = "get" /\ lock' = None
  /\ IF Live(req[t].version)
     THEN Respond(t, cache[req[t].version].content)
     ELSE req' = [req EXCEPT ![t] = Idle] /\ UNCHANGED answer
  /\ UNCHANGED <<now, wrote, known, cache, faults>>

\* a plausible bug: the key is taken again once the query has run
QueryThenKey(t) ==
  /\ req[t].pc = "query"
  /\ \E c \in DOMAIN wrote :
       /\ c < Content => wrote[c + 1] >= req[t].since
       /\ req' = [req EXCEPT ![t].pc = "store", ![t].content = c,
                             ![t].version = Rounded(wrote[Content])]
  /\ UNCHANGED <<now, wrote, known, cache, lock, faults, answer>>

\* the endpoint's own work, outside the lock
Query(t) ==
  /\ req[t].pc = "query"
  /\ req' = [req EXCEPT ![t].pc = "store", ![t].content = Content]
  /\ UNCHANGED <<now, wrote, known, cache, lock, faults, answer>>

\* a plausible bug: the size of the cache is not looked at
PutAnyway(v, content) ==
  cache' = [w \in DOMAIN cache \cup {v} |->
              IF w = v THEN [content |-> content, at |-> now] ELSE cache[w]]

\* a new entry drops the expired ones and, when the cache is full, another
Put(v, content) ==
  LET live == {w \in DOMAIN cache : Live(w)}
      room == IF Cardinality(live) < MaxSize THEN {live}
              ELSE {live \ {w} : w \in live}
  IN \E kept \in room :
       cache' = [w \in kept \cup {v} |->
                   IF w = v THEN [content |-> content, at |-> now]
                   ELSE cache[w]]

Store(t) ==
  /\ req[t].pc = "store" /\ lock = None
  /\ IF Live(req[t].version)
     THEN /\ lock' = t /\ req' = [req EXCEPT ![t].pc = "get"]
          /\ UNCHANGED <<cache, answer>>
     ELSE /\ Put(req[t].version, req[t].content)
          /\ Respond(t, req[t].content) /\ UNCHANGED lock
  /\ UNCHANGED <<now, wrote, known, faults>>

Next ==
  \/ Tick \/ Replace
  \/ \E t \in Threads :
       Begin(t) \/ GetVersion(t) \/ Check(t) \/ Get(t) \/ Query(t) \/ Store(t)

Spec == Init /\ [][Next]_vars

-----------------------------------------------------------------------------
TypeOK ==
  /\ now \in Times /\ Content \in Contents /\ DOMAIN wrote = 0 .. Content
  /\ known.version \in Versions \cup {None} /\ known.at \in Times
  /\ DOMAIN cache \subseteq Versions /\ Cardinality(DOMAIN cache) <= MaxSize
  /\ lock \in Threads \cup {None}
  /\ \A t \in Threads :
       /\ req[t].pc \in {"idle", "key", "check", "get", "query", "store"}
       /\ lock = t => req[t].pc = "get"
  /\ faults \in 0 .. MaxFaults

\* `_api_cache[cache_key]` can only miss what has expired since it was found:
\* nobody evicts an entry between the test and the read, in a full cache either.
FoundStays ==
  \A t \in Threads : req[t].pc = "get" => req[t].version \in DOMAIN cache

\* what the last response does not show although it was in place a second
\* before the request began
Missed == {c \in DOMAIN wrote : c > answer.content
                               /\ wrote[c] <= answer.since - Second}

\* A response whose key was read from the files misses only data put in place
\* in the same rounded second as the data it shows: the key is taken before the
\* query, so newer data never hides behind an older entry.
OnlySameSecondIsStale ==
  answer.version \notin {None, Failed} =>
    \A c \in Missed : Rounded(wrote[c]) = Rounded(wrote[answer.content])

\* Whatever the version string does, no response misses data older than the TTL
\* plus the time the request that stored it took, the stat failures included.
StaleAtMostTtl ==
  \A c \in Missed : answer.since < wrote[c] + Ttl + MaxLatency
===============================================================================
