----------------------------- MODULE RateLimit -----------------------------
(***************************************************************************)
(* The rate limiters (plugins/ratelimit/memory.py): the sliding window of  *)
(* the memory backend and the fixed windows of the Redis one.  Several     *)
(* rate_limit() dependencies may use one key, as they do by default: the   *)
(* address of the client.  The clock ticks Second times in a second, and   *)
(* what window_seconds says, whole or not, is a number of ticks.           *)
(***************************************************************************)
EXTENDS Naturals, FiniteSets, Functions

CONSTANTS
  Routes,     \* the rate_limit() dependencies that share a key
  Quotas,     \* their possible [limit, window]
  Second,     \* ticks in a second
  Callers,    \* requests in progress
  LastTime,   \* bound on the clock
  MaxRequests, \* bound on the requests
  MaxDeaths   \* bound on processes that die

VARIABLES
  redis,       \* whether the backend is Redis
  quota,       \* the quota of each route
  now,
  hits,        \* _hits[key] of the memory backend: the requests whose times it has
  counters,    \* the Redis counters: [window, bucket] to [count, expires]
  caller,      \* [pc, request, counter] of a request on the Redis backend
  allowed,     \* the requests let through
  requests, deaths

rateVars == <<redis, quota, now, hits, counters, caller, allowed, requests, deaths>>

Never == 0
Away == [pc |-> "idle"]

Init ==
  /\ redis \in BOOLEAN
  /\ quota \in [Routes -> Quotas]
  /\ now = 0
  /\ hits = {}
  /\ counters = [c \in {} |-> 0]
  /\ caller = [c \in Callers |-> Away]
  /\ allowed = {}
  /\ requests = 0 /\ deaths = 0

-----------------------------------------------------------------------------
(* MemoryRateLimiter.allow(): its lock is never waited for, since nothing  *)
(* is awaited under it.                                                    *)

\* A request is told from others of its time by its number.  It is counted when it is made,
\* unless INCR comes later.
Request(r) == [route |-> r, at |-> now, counted |-> now, id |-> requests + 1]

LetThrough(request) == allowed' = allowed \cup {request}

\* Mutant: a hit is kept for one instant less.
RecentShort(window) == {hit \in hits : hit.at + window > now + 1}

\* The hits after window_start.
Recent(window) == {hit \in hits : hit.at + window > now}

Allow(r) ==
  /\ ~redis
  /\ requests < MaxRequests /\ requests' = requests + 1
  /\ LET recent == Recent(quota[r].window) IN
       IF Cardinality(recent) >= quota[r].limit
       THEN hits' = recent /\ UNCHANGED allowed
       ELSE hits' = recent \cup {Request(r)} /\ LetThrough(Request(r))
  /\ UNCHANGED <<redis, quota, now, counters, caller, deaths>>

-----------------------------------------------------------------------------
(* RedisRateLimiter.allow(): the caller chooses the counter by its clock;  *)
(* INCR and, for the first request of a counter, EXPIRE are two calls, and *)
(* any time may pass before each.                                          *)

Becomes(c, state) == caller' = [caller EXCEPT ![c] = state]

\* max(1, int(window_seconds)), in ticks.
Window(r) ==
  IF quota[r].window < Second THEN Second ELSE (quota[r].window \div Second) * Second

Counter(r) == [window |-> Window(r), bucket |-> now \div Window(r)]

Ask(c, r) ==
  /\ redis /\ caller[c].pc = "idle"
  /\ requests < MaxRequests /\ requests' = requests + 1
  /\ Becomes(c, [pc |-> "asked", request |-> Request(r), counter |-> Counter(r)])
  /\ UNCHANGED <<redis, quota, now, hits, counters, allowed, deaths>>

Count(k) == IF k \in DOMAIN counters THEN counters[k].count ELSE 0

Expires(k) == IF k \in DOMAIN counters THEN counters[k].expires ELSE Never

Within(count, r) == count <= quota[r].limit

Incr(c) ==
  LET k == caller[c].counter
      count == Count(k) + 1
      request == [caller[c].request EXCEPT !.counted = now] IN
  /\ caller[c].pc = "asked"
  /\ counters' = [j \in DOMAIN counters \cup {k} |->
                    IF j = k THEN [count |-> count, expires |-> Expires(k)] ELSE counters[j]]
  /\ IF count = 1
     THEN Becomes(c, [pc |-> "first", request |-> request, counter |-> k]) /\ UNCHANGED allowed
     ELSE /\ IF Within(count, request.route) THEN LetThrough(request) ELSE UNCHANGED allowed
          /\ Becomes(c, Away)
  /\ UNCHANGED <<redis, quota, now, hits, requests, deaths>>

Expire(c) ==
  LET k == caller[c].counter IN
  /\ caller[c].pc = "first"
  /\ counters' = IF k \in DOMAIN counters
                 THEN [counters EXCEPT ![k].expires = now + k.window] ELSE counters
  /\ LetThrough(caller[c].request)
  /\ Becomes(c, Away)
  /\ UNCHANGED <<redis, quota, now, hits, requests, deaths>>

Die(c) ==
  /\ caller[c].pc # "idle"
  /\ deaths < MaxDeaths /\ deaths' = deaths + 1
  /\ Becomes(c, Away)
  /\ UNCHANGED <<redis, quota, now, hits, counters, allowed, requests>>

\* Redis drops the counters that have expired (external).
Tick ==
  /\ now < LastTime
  /\ now' = now + 1
  /\ counters' = Restrict(counters, {k \in DOMAIN counters : counters[k].expires \notin 1 .. now'})
  /\ UNCHANGED <<redis, quota, hits, caller, allowed, requests, deaths>>

Next ==
  \/ \E r \in Routes : Allow(r) \/ \E c \in Callers : Ask(c, r)
  \/ \E c \in Callers : Incr(c) \/ Expire(c) \/ Die(c)
  \/ Tick

Spec == Init /\ [][Next]_rateVars

-----------------------------------------------------------------------------

\* The requests of a route let through in a window of its own that begins at from.
Passed(r, from) ==
  Cardinality({p \in allowed : p.route = r /\ from <= p.at /\ p.at < from + quota[r].window})

\* The memory limiter lets no more than limit requests through in any window_seconds,
\* provided that no route with a shorter window makes it forget the hits of the key.
SlidingWindow ==
  ~redis =>
    \A r \in Routes :
      (\A q \in Routes : quota[q].window >= quota[r].window) =>
        \A from \in 0 .. now : Passed(r, from) <= quota[r].limit

\* The requests of a route whose counter is that of a fixed window and has counted them
\* before that window was over.
CountedIn(r, bucket) ==
  {p \in allowed : /\ p.route = r
                   /\ p.at \div Window(r) = bucket /\ p.counted \div Window(r) = bucket}

\* Of the requests that are counted before their fixed window is over, the Redis limiter
\* lets no more than limit through in each, however the calls of several processes
\* interleave and whenever the counters expire.  A fixed window is max(1, int(window_seconds))
\* seconds.  INCR may come to a counter that has expired and then begins at one again, so
\* that a request counted after its window is let through beside the limit.
FixedWindow ==
  redis =>
    \A r \in Routes, bucket \in 0 .. now : Cardinality(CountedIn(r, bucket)) <= quota[r].limit

\* A counter that never expires is left only by a process that died before EXPIRE.
Forgotten(k) ==
  /\ counters[k].expires = Never
  /\ \A c \in Callers : caller[c].pc = "first" => caller[c].counter # k
CountersExpire == Cardinality({k \in DOMAIN counters : Forgotten(k)}) <= deaths

\* Both limiters keep their quotas, and neither blocks a caller for ever by a counter that
\* nothing removes.
QuotasHold == SlidingWindow /\ FixedWindow /\ CountersExpire
=============================================================================
