----------------------------- MODULE RateLimiter -----------------------------
(***************************************************************************)
(* The sliding window of shared/rate_limiter.py as the HTTP middleware of   *)
(* api/main.py uses it: one limiter, whose methods hold its lock and so are *)
(* atomic.  The middleware does not await between is_allowed and            *)
(* retry_after, nor between remaining and cleanup; in between it awaits     *)
(* the handler, and other requests come and go.  The clock is never set    *)
(* back.                                                                   *)
(***************************************************************************)
EXTENDS Integers, Sequences, FiniteSets, FiniteSetsExt

CONSTANTS
  IPs,
  MaxRequests,   \* max_requests
  Window,        \* window_seconds
  Second,        \* ticks of the clock per second
  MaxIPs,        \* max_ips of cleanup
  Interval,      \* _CLEANUP_INTERVAL
  MaxTime        \* bound: last tick

Cutoff(t) == t - Window * Second
None == -1

LimiterAssumption ==
  /\ {MaxRequests, Window, Second, MaxIPs, Interval} \subseteq Nat \ {0}
  /\ MaxTime \in Nat

VARIABLES
  now,       \* what time.time returns, in ticks
  stamps,    \* _requests: per tracked IP its deque of timestamps
  counter,   \* _request_counter, modulo Interval
  open,      \* per IP, requests whose handler is running
  (* history *)
  granted,   \* per IP, times of all requests ever allowed
  refused,   \* per IP, when it was refused last since its last grant
  advice     \* per IP, when the client may come back, as first told since its last grant

vars == <<now, stamps, counter, open, granted, refused, advice>>
Tracked == DOMAIN stamps

Init ==
  /\ now = 0 /\ stamps = << >> /\ counter = 0
  /\ open = [ip \in IPs |-> 0]
  /\ granted = [ip \in IPs |-> <<>>]
  /\ refused = [ip \in IPs |-> None] /\ advice = [ip \in IPs |-> None]

-----------------------------------------------------------------------------
(* defaultdict: reading an IP creates its entry. *)
Deque(ip) == IF ip \in Tracked THEN stamps[ip] ELSE <<>>
Put(f, ip, s) == [j \in DOMAIN f \cup {ip} |-> IF j = ip THEN s ELSE f[j]]

KeepsExpired(s, cutoff) == SubSeq(s, Min({Len(s) + 1} \cup {i \in DOMAIN s : s[i] >= cutoff}),
                                  Len(s))   \* wrong on purpose: popleft while < cutoff

(* popleft while the oldest is not after the cutoff *)
Trim(s, cutoff) == SubSeq(s, Min({Len(s) + 1} \cup {i \in DOMAIN s : s[i] > cutoff}), Len(s))

CeilDiv(a, b) == (a + b - 1) \div b
RoundsDown(s) ==   \* wrong on purpose: int() instead of math.ceil
  IF s = <<>> THEN 0 ELSE Max({1, Min({Window, (s[1] + Window * Second - now) \div Second})})
RetryAfter(s) ==
  IF s = <<>> THEN 0
  ELSE Max({1, Min({Window, CeilDiv(s[1] + Window * Second - now, Second)})})

AllowOneMore(ip) ==   \* wrong on purpose: <= max_requests
  /\ LET s == Trim(Deque(ip), Cutoff(now)) IN
     Len(s) <= MaxRequests /\ stamps' = Put(stamps, ip, Append(s, now))
  /\ granted' = [granted EXCEPT ![ip] = Append(@, now)]
  /\ UNCHANGED <<now, counter, open, refused, advice>>

Allow(ip) ==
  /\ LET s == Trim(Deque(ip), Cutoff(now)) IN
     /\ Len(s) < MaxRequests
     /\ stamps' = Put(stamps, ip, Append(s, now))
  /\ granted' = [granted EXCEPT ![ip] = Append(@, now)]
  /\ open' = [open EXCEPT ![ip] = @ + 1]
  /\ refused' = [refused EXCEPT ![ip] = None] /\ advice' = [advice EXCEPT ![ip] = None]
  /\ UNCHANGED <<now, counter>>

(* 429: is_allowed said no; retry_after follows at once. *)
Refuse(ip) ==
  /\ LET s == Trim(Deque(ip), Cutoff(now)) IN
     /\ Len(s) >= MaxRequests
     /\ stamps' = Put(stamps, ip, s)
     /\ advice' = IF advice[ip] = None
                  THEN [advice EXCEPT ![ip] = now + Second * RetryAfter(s)] ELSE advice
  /\ refused' = [refused EXCEPT ![ip] = now]
  /\ UNCHANGED <<now, counter, open, granted>>

IdleByOldest(s) == s = <<>> \/ s[1] <= Cutoff(now)   \* wrong on purpose
Idle(s) == s = <<>> \/ s[Len(s)] <= Cutoff(now)

(* cleanup looks at max_ips entries at most, in the dict's order. *)
Cleanup(f) ==
  \E scan \in kSubset(Min({MaxIPs, Cardinality(DOMAIN f)}), DOMAIN f) :
    stamps' = [ip \in DOMAIN f \ {j \in scan : Idle(f[j])} |-> f[ip]]

(* The response: remaining, then cleanup every Interval requests. *)
Respond(ip) ==
  /\ open[ip] > 0 /\ open' = [open EXCEPT ![ip] = @ - 1]
  /\ counter' = (counter + 1) % Interval
  /\ LET f == Put(stamps, ip, Deque(ip)) IN
     IF counter = 0 THEN Cleanup(f) ELSE stamps' = f
  /\ UNCHANGED <<now, granted, refused, advice>>

(* A response to a request that the other limiter counts: the two share the  *)
(* request counter, and cleanup is called on both.                          *)
RespondOther ==
  /\ counter' = (counter + 1) % Interval
  /\ IF counter = 0 THEN Cleanup(stamps) ELSE UNCHANGED stamps
  /\ UNCHANGED <<now, open, granted, refused, advice>>

Tick ==
  /\ now < MaxTime /\ now' = now + 1
  /\ UNCHANGED <<stamps, counter, open, granted, refused, advice>>

Next == Tick \/ RespondOther \/ \E ip \in IPs : Allow(ip) \/ Refuse(ip) \/ Respond(ip)

Spec == Init /\ [][Next]_vars

-----------------------------------------------------------------------------
InWindow(s, t) == {i \in DOMAIN s : Cutoff(t) < s[i] /\ s[i] <= t}

(* Types of the limiter's state. *)
TypeOK ==
  /\ now \in 0 .. MaxTime
  /\ Tracked \subseteq IPs
  /\ \A ip \in Tracked : Len(stamps[ip]) <= MaxRequests
  /\ counter \in 0 .. Interval - 1
  /\ open \in [IPs -> Nat]
  /\ refused \in [IPs -> Int] /\ advice \in [IPs -> Int]

(* No window of window_seconds, wherever it starts, holds more than           *)
(* max_requests granted requests of one IP: neither expiry at the boundary    *)
(* nor the periodic cleanup gives a budget back too early.                  *)
WindowBudget ==
  \A ip \in IPs : \A i \in DOMAIN granted[ip] :
    Cardinality(InWindow(granted[ip], granted[ip][i])) <= MaxRequests

(* A client is refused only when it really used its budget in the window.    *)
RefusedOnlyAtLimit ==
  [][\A ip \in IPs : Refuse(ip) => Cardinality(InWindow(granted[ip], now)) >= MaxRequests]_vars

(* Retry-After is the truth: whoever comes back when it was told to, without  *)
(* another request of its IP granted in between, is not refused again.       *)
AdviceKept == \A ip \in IPs : refused[ip] # None => refused[ip] < advice[ip]
=============================================================================
