---------------------------- MODULE DbConnections ----------------------------
(***************************************************************************)
(* The connection cache of DBRouter.get_connection: one SQLite connection  *)
(* per thread, replaced when the mtimes of the database files change, and  *)
(* a registry through which a thread that creates a connection closes      *)
(* those that dead threads left behind (shared/_db_connection.py).  The    *)
(* caches of different arguments share only the registry and its lock; one *)
(* of them is modelled.  mtimes are generations: a swap never repeats one. *)
(***************************************************************************)
EXTENDS Naturals, FiniteSets, Functions

CONSTANTS
  Threads,      \* places for threads; a dead one may be taken by a new thread
  Conns,        \* addresses of connection objects, reused once unreferenced
  MaxSwaps,     \* bound of the model
  NoConn, Dead  \* no connection; the owner of what a dead thread left

ConnsAssumption ==
  /\ MaxSwaps \in Nat /\ IsFiniteSet(Threads) /\ IsFiniteSet(Conns)
  /\ NoConn \notin Conns /\ Dead \notin Threads

VARIABLES
  file,       \* generation of the database files
  alive,      \* threads that run
  cached,     \* _local.conn_... of each thread
  mtime,      \* _local.mtime_... of each thread
  registry,   \* _conn_registry: connection -> owner
  open,       \* connections that are open
  opened,     \* the generation each connection was opened on
  job,        \* where each thread is in get_connection, and its locals
  closing     \* to_close of each thread's sweep

vars == <<file, alive, cached, mtime, registry, open, opened, job, closing>>

Files == 0 .. MaxSwaps
At(pc, seen, conn) == [pc |-> pc, seen |-> seen, conn |-> conn]
Rest == At("idle", 0, NoConn)
Go(t, pc) == job' = [job EXCEPT ![t].pc = pc]

\* connection objects some variable still refers to
Referenced ==
  {cached[t] : t \in Threads} \cup DOMAIN registry
  \cup {job[t].conn : t \in Threads} \cup UNION {closing[t] : t \in Threads}

Init ==
  /\ file = 0 /\ alive = {}
  /\ cached = [t \in Threads |-> NoConn] /\ mtime = [t \in Threads |-> 0]
  /\ registry = [c \in {} |-> Dead] /\ open = {}
  /\ opened = [c \in Conns |-> 0]
  /\ job = [t \in Threads |-> Rest] /\ closing = [t \in Threads |-> {}]

-----------------------------------------------------------------------------
(* Threads and the ERP *)

Start(t) ==
  /\ t \notin alive /\ alive' = alive \cup {t}
  /\ UNCHANGED <<file, cached, mtime, registry, open, opened, job, closing>>

\* a plausible bug: a thread may be gone while it still runs a request
DieAnywhere(t) ==
  /\ t \in alive /\ alive' = alive \ {t}
  /\ registry' = [c \in DOMAIN registry |->
                    IF registry[c] = t THEN Dead ELSE registry[c]]
  /\ UNCHANGED <<file, cached, mtime, open, opened, job, closing>>

\* the thread takes its _local with it; the registry keeps the connection
Die(t) ==
  /\ t \in alive /\ job[t] = Rest
  /\ alive' = alive \ {t}
  /\ cached' = [cached EXCEPT ![t] = NoConn]
  /\ mtime' = [mtime EXCEPT ![t] = 0]
  /\ registry' = [c \in DOMAIN registry |->
                    IF registry[c] = t THEN Dead ELSE registry[c]]
  /\ UNCHANGED <<file, open, opened, job, closing>>

SwapFile ==
  /\ file < MaxSwaps /\ file' = file + 1
  /\ UNCHANGED <<alive, cached, mtime, registry, open, opened, job, closing>>

-----------------------------------------------------------------------------
(* get_connection *)

ReadMtime(t) ==
  /\ t \in alive /\ job[t].pc = "idle"
  /\ job' = [job EXCEPT ![t] =
       At(CASE cached[t] = NoConn -> "connect"
            [] cached[t] # NoConn /\ mtime[t] = file -> "probe"
            [] OTHER -> "discard", file, cached[t])]
  /\ UNCHANGED <<file, alive, cached, mtime, registry, open, opened, closing>>

\* SELECT 1: it fails on a closed connection and may fail on an open one
Probe(t) ==
  /\ job[t].pc = "probe"
  /\ \/ cached[t] \in open /\ Go(t, "use")
     \/ Go(t, "discard")
  /\ UNCHANGED <<file, alive, cached, mtime, registry, open, opened, closing>>

\* _discard_connection: close, and only then forget
Discard(t) ==
  /\ job[t].pc = "discard"
  /\ open' = open \ {job[t].conn}
  /\ Go(t, "unregister")
  /\ UNCHANGED <<file, alive, cached, mtime, registry, opened, closing>>

\* a plausible bug: the closed connection stays in the registry
KeepRegistered(t) ==
  /\ job[t].pc = "unregister"
  /\ Go(t, "connect")
  /\ UNCHANGED <<file, alive, cached, mtime, registry, open, opened, closing>>

Unregister(t) ==
  /\ job[t].pc = "unregister"
  /\ registry' = Restrict(registry, DOMAIN registry \ {job[t].conn})
  /\ Go(t, "connect")
  /\ UNCHANGED <<file, alive, cached, mtime, open, opened, closing>>

\* connecting or attaching the archive may raise; the cache is then unchanged
Connect(t) ==
  /\ job[t].pc = "connect"
  /\ \/ \E c \in Conns \ Referenced :
          /\ open' = open \cup {c}
          /\ opened' = [opened EXCEPT ![c] = file]
          /\ job' = [job EXCEPT ![t] = [@ EXCEPT !.pc = "remember", !.conn = c]]
     \/ job' = [job EXCEPT ![t] = Rest] /\ UNCHANGED <<open, opened>>
  /\ UNCHANGED <<file, alive, cached, mtime, registry, closing>>

\* a plausible bug: the mtime is read again after connecting
RememberNow(t) ==
  /\ job[t].pc = "remember"
  /\ cached' = [cached EXCEPT ![t] = job[t].conn]
  /\ mtime' = [mtime EXCEPT ![t] = file]
  /\ Go(t, "register")
  /\ UNCHANGED <<file, alive, registry, open, opened, closing>>

Remember(t) ==
  /\ job[t].pc = "remember"
  /\ cached' = [cached EXCEPT ![t] = job[t].conn]
  /\ mtime' = [mtime EXCEPT ![t] = job[t].seen]
  /\ Go(t, "register")
  /\ UNCHANGED <<file, alive, registry, open, opened, closing>>

Register(t) ==
  /\ job[t].pc = "register"
  /\ registry' = [c \in DOMAIN registry \cup {job[t].conn} |->
                    IF c = job[t].conn THEN t ELSE registry[c]]
  /\ Go(t, "sweep")
  /\ UNCHANGED <<file, alive, cached, mtime, open, opened, closing>>

\* a plausible bug: whatever is not mine is taken to be abandoned
NotCached == {c \in DOMAIN registry : registry[c] = Dead}
             \cup {c \in DOMAIN registry : \E t \in alive :
                                              registry[c] = t /\ job[t] = Rest}

Abandoned == {c \in DOMAIN registry : registry[c] = Dead}

\* a plausible bug: the registry is cleared and only some of it is closed
SweepForgets(t) ==
  /\ job[t].pc = "sweep"
  /\ closing' = closing
  /\ registry' = Restrict(registry, DOMAIN registry \ Abandoned)
  /\ Go(t, "close")
  /\ UNCHANGED <<file, alive, cached, mtime, open, opened>>

Sweep(t) ==
  /\ job[t].pc = "sweep"
  /\ closing' = [closing EXCEPT ![t] = Abandoned]
  /\ registry' = Restrict(registry, DOMAIN registry \ Abandoned)
  /\ Go(t, "close")
  /\ UNCHANGED <<file, alive, cached, mtime, open, opened>>

\* the connections are closed one by one, outside the lock
Close(t) ==
  /\ job[t].pc = "close"
  /\ IF closing[t] = {}
     THEN Go(t, "use") /\ UNCHANGED <<open, closing>>
     ELSE \E c \in closing[t] :
            /\ open' = open \ {c}
            /\ closing' = [closing EXCEPT ![t] = @ \ {c}]
            /\ UNCHANGED job
  /\ UNCHANGED <<file, alive, cached, mtime, registry, opened>>

\* the query runs on the connection and the request ends
Use(t) ==
  /\ job[t].pc = "use"
  /\ job' = [job EXCEPT ![t] = Rest]
  /\ UNCHANGED <<file, alive, cached, mtime, registry, open, opened, closing>>

Next ==
  \/ SwapFile
  \/ \E t \in Threads :
       \/ Start(t) \/ Die(t)
       \/ ReadMtime(t) \/ Probe(t) \/ Discard(t) \/ Unregister(t)
       \/ Connect(t) \/ Remember(t) \/ Register(t)
       \/ Sweep(t) \/ Close(t) \/ Use(t)

Spec == Init /\ [][Next]_vars

-----------------------------------------------------------------------------
Phases == {"idle", "probe", "discard", "unregister", "connect", "remember",
           "register", "sweep", "close", "use"}

TypeOK ==
  /\ file \in Files /\ alive \subseteq Threads
  /\ cached \in [Threads -> Conns \cup {NoConn}] /\ mtime \in [Threads -> Files]
  /\ DOMAIN registry \subseteq Conns
  /\ \A c \in DOMAIN registry : registry[c] \in Threads \cup {Dead}
  /\ open \subseteq Conns /\ opened \in [Conns -> Files]
  /\ \A t \in Threads :
       /\ job[t].pc \in Phases /\ job[t].seen \in Files
       /\ job[t].conn \in Conns \cup {NoConn}
       /\ t \notin alive => job[t] = Rest
  /\ closing \in [Threads -> SUBSET Conns]

\* The connection a query is about to run on is open and is the thread's own:
\* no sweep closes what a live thread uses.
UsedIsOpen ==
  \A t \in Threads : job[t].pc = "use" =>
    /\ cached[t] \in open
    /\ \A u \in Threads \ {t} : cached[u] # cached[t] /\ cached[t] \notin closing[u]

\* A query runs on files at least as new as those in place when the request
\* looked at their mtimes: a swap while connecting is noticed by the next one.
UsedIsCurrent ==
  \A t \in Threads : job[t].pc = "use" => opened[cached[t]] >= job[t].seen

\* Every open connection is registered, or is in the hands of a running thread
\* that is about to register or to close it: nothing stays open for good.
NothingLeaks ==
  \A c \in open :
    \/ c \in DOMAIN registry
    \/ \E t \in alive : \/ job[t].conn = c /\ job[t].pc \in {"remember", "register"}
                        \/ c \in closing[t]

\* "the registry holds at most (live threads x cache-key combinations) entries"
\* (_sweep_dead_thread_connections): one per live thread besides those a thread
\* died with, and what is registered is open or is being discarded.
RegistryIsBounded ==
  /\ \A c, d \in DOMAIN registry :
       registry[c] = registry[d] /\ registry[c] # Dead => c = d
  /\ \A c \in DOMAIN registry :
       c \in open \/ \E t \in alive : job[t].conn = c /\ job[t].pc = "unregister"

\* All of it: what get_connection hands out can be used, and what it no longer
\* hands out is closed, however threads, swaps, failures and sweeps interleave.
ConnectionsAreSound ==
  TypeOK /\ UsedIsOpen /\ UsedIsCurrent /\ NothingLeaks /\ RegistryIsBounded
=============================================================================
