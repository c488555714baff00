----------------------------- MODULE ServerParts -----------------------------
(***************************************************************************)
(* Three parts of the API server that share no state, with their           *)
(* parameters: the connection cache (the names of DbConnections,           *)
(* unqualified), the rate limiter and the response cache.                  *)
(***************************************************************************)
EXTENDS DbConnections

CONSTANTS
  Second,                                                       \* both clocks
  IPs, MaxRequests, Window, MaxIPs, Interval, MaxTime,          \* limiter
  Ttl, MaxSize, MaxLatency, MaxNow, MaxWrites, MaxFaults,       \* responses
  Nothing, Failed

VARIABLES
  now, stamps, counter, allowed, granted, refused, advice,      \* limiter
  time, wrote, known, cache, lock, req, faults, answer          \* responses

Limiter == INSTANCE RateLimiter WITH open <- allowed

Responses == INSTANCE ApiCache WITH now <- time, None <- Nothing

ASSUME ConnectionsAssumption == ConnsAssumption
ASSUME BudgetAssumption      == Limiter!LimiterAssumption
ASSUME ResponsesAssumption   == Responses!CacheAssumption

-----------------------------------------------------------------------------
(* Limiter: the types; no window of window_seconds, wherever it starts, holds *)
(* more granted requests of a client than max_requests; and who waits as long *)
(* as Retry-After says is not refused again, whatever the clock's resolution. *)
BudgetIsExact == Limiter!TypeOK /\ Limiter!WindowBudget /\ Limiter!AdviceKept

(* Limiter: 429 goes only to a client that used its budget in the window.    *)
RefusedOnlyAtLimit == Limiter!RefusedOnlyAtLimit

(* Cache: the types, with the bound on its entries; a response misses only    *)
(* data of the same rounded second, when its version was read from the files, *)
(* and nothing older than the TTL ever; and a request that found an entry is  *)
(* answered from it, unless it expired meanwhile.                            *)
CacheIsSound ==
  /\ Responses!TypeOK /\ Responses!OnlySameSecondIsStale /\ Responses!StaleAtMostTtl
  /\ Responses!FoundStays
=============================================================================
