---------------------------- MODULE RateLimiter -----------------------------
(***************************************************************************)
(* The request limiter middleware/rateLimiter.ts on Redis, with its memory *)
(* fallbacks, and the circuit breaker of redis.ts.                          *)
(*                                                                         *)
(* One key on one route; the route's algorithm is "fixed" (RedisStore,     *)
(* behind the breaker) or "sliding" (SlidingWindowRedisStore, not behind   *)
(* it).  Times are relative: a counter has a time to live, an admission or *)
(* a sorted-set member is the pair of its age and a number that tells it   *)
(* from the others of its age.  A sliding call stamps its member when it   *)
(* starts; it is short against the window, so no time passes while one is  *)
(* on its way.                                                             *)
(***************************************************************************)
EXTENDS Integers, FiniteSets

CONSTANTS LimSlots,     \* requests in progress at once
          LimMax,       \* max
          LimWindow,    \* windowMs in ticks
          CleanupWindow, \* DEFAULT_WINDOW_MS in ticks, whatever the route's windowMs
          Threshold,    \* failureThreshold of the breaker
          Reset,        \* resetTimeoutMs in ticks
          MaxWatchRetries, MaxRedirections,
          MaxFaults     \* bound: outages and redirections

ASSUME LimAssumption ==
    /\ LimMax \in Nat /\ LimWindow \in Nat \ {0} /\ CleanupWindow \in Nat \ {0}
    /\ Threshold \in Nat \ {0} /\ Reset \in Nat
    /\ MaxWatchRetries \in Nat /\ MaxRedirections \in Nat /\ MaxFaults \in Nat

VARIABLES algo,      \* the algorithm of the route
          redisUp, faults,
          store,     \* what getStore resolved to
          breaker, fixed, sliding, calls,
          admitted,  \* history: admissions of the last window, per store
          probeAge   \* history: ticks since the last probe, up to Reset

limVars == <<algo, redisUp, faults, store, breaker, fixed, sliding, calls, admitted, probeAge>>

Algos == {"fixed", "sliding"}
Places == {"redis", "memory"}
IdleCall == [stage |-> "idle"]
Ages == 0..(LimWindow - 1)
Cap == LimMax + 1   \* counts above the limit are not told apart
UpTo(cap, n) == IF n < cap THEN n ELSE cap

LimInit ==
    /\ redisUp = TRUE
    /\ faults = 0
    /\ algo \in Algos
    /\ store = "connecting"
    /\ probeAge = Reset
    /\ breaker = [state |-> "CLOSED", failures |-> 0, wait |-> 0]
    /\ fixed = [p \in Places |-> [n |-> 0, ttl |-> -1]]
    /\ sliding = [p \in Places |-> {}]
    /\ calls = [s \in LimSlots |-> IdleCall]
    /\ admitted = [p \in Places |-> {}]

InFlight == \E s \in LimSlots : calls[s] # IdleCall
Calling(s, redirs, attempt, probe) ==
    calls' = [calls EXCEPT ![s] =
        [stage |-> "sent", redirs |-> redirs, attempt |-> attempt, probe |-> probe]]

-----------------------------------------------------------------------------
(* Stores.  The fixed window: memory keeps a record until now > resetTime,
   Redis expires the key when PEXPIRE is over. *)
WindowOver(p, rec) == IF p = "memory" THEN rec.ttl < 0 ELSE rec.ttl =< 0

FixedAfter(p) ==
    LET old == fixed[p]
        rec == IF WindowOver(p, old) THEN [n |-> 0, ttl |-> LimWindow] ELSE old
    IN  [rec EXCEPT !.n = UpTo(Cap, @ + 1)]

(* ZREMRANGEBYSCORE, ZADD, ZCARD in one MULTI, or the filtered array. *)
SlidingCount(p) == Cardinality(sliding[p]) + 1

(* What this request adds to the sorted set and to the history. *)
NewMember(p) ==
    LET known == sliding[p] \cup admitted[p]
    IN  <<0, CHOOSE k \in 0..Cardinality(known) : <<0, k>> \notin known>>

SlidingAfter(p) ==
    IF Cardinality({m \in sliding[p] : m[1] = 0}) < Cap THEN sliding[p] \cup {NewMember(p)}
    ELSE sliding[p]

(* The middleware's last step: count the request in a store, compare. *)
Decide(s, p) ==
    LET count == IF algo = "fixed" THEN FixedAfter(p).n ELSE SlidingCount(p)
    IN  /\ IF algo = "fixed"
           THEN fixed' = [fixed EXCEPT ![p] = FixedAfter(p)] /\ UNCHANGED sliding
           ELSE sliding' = [sliding EXCEPT ![p] = SlidingAfter(p)] /\ UNCHANGED fixed
        /\ admitted' = IF count =< LimMax THEN [admitted EXCEPT ![p] = @ \cup {NewMember(p)}]
                       ELSE admitted
        /\ calls' = [calls EXCEPT ![s] = IdleCall]

-----------------------------------------------------------------------------
(* RedisCircuitBreaker. *)
Due == breaker.wait = 0

(* Mutant: a half-open breaker lets every call through. *)
Passes_HalfOpen == breaker.state \in {"CLOSED", "HALF_OPEN"} \/ Due

Passes == breaker.state = "CLOSED" \/ Due

(* execute(), up to the operation: OPEN and due, or HALF_OPEN and due, make
   this call the probe and bar others for resetTimeoutMs. *)
LimEnter(s, redirs) ==
    /\ Passes
    /\ breaker' = IF breaker.state = "CLOSED" THEN breaker
                  ELSE [breaker EXCEPT !.state = "HALF_OPEN", !.wait = Reset]
    /\ probeAge' = IF breaker.state = "CLOSED" THEN probeAge ELSE 0
    /\ Calling(s, redirs, 0, breaker.state # "CLOSED")

Succeed(b) ==
    IF b.state = "OPEN" THEN b ELSE [state |-> "CLOSED", failures |-> 0, wait |-> 0]

Opened(b) == [b EXCEPT !.state = "OPEN", !.wait = Reset]

recordFailure(b) ==
    IF b.state = "HALF_OPEN" THEN Opened(b)
    ELSE IF b.state = "OPEN" THEN b
    ELSE IF b.failures + 1 >= Threshold THEN Opened([b EXCEPT !.failures = @ + 1])
    ELSE [b EXCEPT !.failures = @ + 1]

-----------------------------------------------------------------------------
(* getStore: the first request starts the connection and its outcome is kept
   for the life of the process, a failure too. *)
getStore ==
    /\ store = "connecting"
    /\ store' = IF redisUp THEN "redis" ELSE "memory"
    /\ UNCHANGED <<algo, probeAge, redisUp, faults, breaker, fixed, sliding, calls, admitted>>

(* rateLimiter(): a request on its way into the store. *)
LimitInMemory(s) ==
    /\ calls[s] = IdleCall /\ store = "memory"
    /\ Decide(s, "memory")
    /\ UNCHANGED <<algo, probeAge, redisUp, faults, store, breaker>>

LimitFixed(s) ==
    /\ calls[s] = IdleCall /\ algo = "fixed" /\ store = "redis"
    /\ \/ LimEnter(s, 0) /\ UNCHANGED <<fixed, sliding, admitted>>
       \/ ~Passes /\ Decide(s, "memory") /\ UNCHANGED <<breaker, probeAge>>
    /\ UNCHANGED <<algo, redisUp, faults, store>>

LimitSliding(s) ==
    /\ calls[s] = IdleCall /\ algo = "sliding" /\ store = "redis"
    /\ Calling(s, 0, 0, FALSE)
    /\ UNCHANGED <<algo, probeAge, redisUp, faults, store, breaker, fixed, sliding, admitted>>

Sent(s, a) == calls[s] # IdleCall /\ algo = a

(* The store answered. *)
RedisAnswers(s) ==
    /\ Sent(s, algo) /\ redisUp
    /\ Decide(s, "redis")
    /\ breaker' = IF algo = "fixed" THEN Succeed(breaker) ELSE breaker
    /\ UNCHANGED <<algo, probeAge, redisUp, faults, store>>

(* RedisStore threw: the breaker counts it, memory takes the request. *)
FixedFails(s) ==
    /\ Sent(s, "fixed") /\ ~redisUp
    /\ breaker' = recordFailure(breaker)
    /\ Decide(s, "memory")
    /\ UNCHANGED <<algo, probeAge, redisUp, faults, store>>

(* A MOVED or ASK error: the same call again on the named node, through the
   breaker again; a node seen before or too many of them end the call. *)
FixedRedirected(s, seen) ==
    /\ Sent(s, "fixed") /\ redisUp /\ faults < MaxFaults
    /\ faults' = faults + 1
    /\ LET giveUp == calls[s].redirs >= MaxRedirections \/ (seen /\ calls[s].redirs > 0)
       IN  \/ /\ ~giveUp /\ LimEnter(s, calls[s].redirs + 1)
              /\ UNCHANGED <<fixed, sliding, admitted>>
           \/ /\ giveUp \/ ~Passes
              /\ Decide(s, "memory")
              /\ UNCHANGED <<breaker, probeAge>>
    /\ UNCHANGED <<algo, redisUp, store>>

(* SlidingWindowRedisStore: an aborted transaction sleeps and tries again; an
   error tries again at once; both end after maxRetries and go to memory. *)
SlidingRetry(s) ==
    /\ Sent(s, "sliding")
    /\ ~redisUp \/ faults < MaxFaults
    /\ faults' = IF redisUp THEN faults + 1 ELSE faults
    /\ \/ /\ calls[s].attempt < MaxWatchRetries
          /\ calls' = [calls EXCEPT ![s].attempt = @ + 1]
          /\ UNCHANGED <<fixed, sliding, admitted>>
       \/ /\ calls[s].attempt = MaxWatchRetries
          /\ Decide(s, "memory")
    /\ UNCHANGED <<algo, probeAge, redisUp, store, breaker>>

SlidingRedirected(s, seen) ==
    /\ Sent(s, "sliding") /\ redisUp /\ faults < MaxFaults
    /\ faults' = faults + 1
    /\ LET giveUp == calls[s].redirs >= MaxRedirections \/ (seen /\ calls[s].redirs > 0)
       IN  \/ /\ ~giveUp
              /\ calls' = [calls EXCEPT ![s].redirs = @ + 1]
              /\ UNCHANGED <<fixed, sliding, admitted>>
           \/ /\ giveUp
              /\ Decide(s, "memory")
    /\ UNCHANGED <<algo, probeAge, redisUp, store, breaker>>

-----------------------------------------------------------------------------
(* The environment: Redis fails and comes back; time passes. *)
Outage ==
    /\ redisUp /\ faults < MaxFaults
    /\ redisUp' = FALSE /\ faults' = faults + 1
    /\ UNCHANGED <<algo, probeAge, store, breaker, fixed, sliding, calls, admitted>>

Back ==
    /\ ~redisUp
    /\ redisUp' = TRUE
    /\ UNCHANGED <<algo, probeAge, faults, store, breaker, fixed, sliding, calls, admitted>>

(* A timestamp is kept while it is > now - windowMs. *)
Aged(h) == {<<m[1] + 1, m[2]>> : m \in {x \in h : x[1] + 1 < LimWindow}}

(* The interval's cleanup knows no route: it drops by DEFAULT_WINDOW_MS.  (The
   fixed records it drops are over.) *)
cleanupSlidingStore ==
    /\ sliding' = [sliding EXCEPT !["memory"] = {m \in @ : m[1] < CleanupWindow}]
    /\ UNCHANGED <<algo, probeAge, redisUp, faults, store, breaker, fixed, calls, admitted>>

LimTick ==
    /\ algo = "fixed" \/ ~InFlight
    /\ probeAge' = UpTo(Reset, probeAge + 1)
    /\ breaker' = [breaker EXCEPT !.wait = IF @ > 0 THEN @ - 1 ELSE @]
    /\ fixed' = [p \in Places |-> [fixed[p] EXCEPT !.ttl = IF @ < 0 THEN @ ELSE @ - 1]]
    /\ sliding' = [p \in Places |-> Aged(sliding[p])]
    /\ admitted' = [p \in Places |-> Aged(admitted[p])]
    /\ UNCHANGED <<algo, redisUp, faults, store, calls>>

LimStart(s) == LimitFixed(s) \/ LimitSliding(s) \/ LimitInMemory(s)
LimSettle(s) ==
    \/ RedisAnswers(s) \/ FixedFails(s) \/ SlidingRetry(s)
    \/ \E seen \in BOOLEAN : FixedRedirected(s, seen) \/ SlidingRedirected(s, seen)

LimNext ==
    \/ getStore
    \/ \E s \in LimSlots : LimStart(s) \/ LimSettle(s)
    \/ Outage \/ Back
    \/ cleanupSlidingStore
    \/ LimTick

LimSpec == LimInit /\ [][LimNext]_limVars

-----------------------------------------------------------------------------
LimTypeOK ==
    /\ redisUp \in BOOLEAN /\ faults \in 0..MaxFaults
    /\ algo \in Algos /\ store \in Places \cup {"connecting"}
    /\ breaker \in [state: {"CLOSED", "OPEN", "HALF_OPEN"}, failures: 0..Threshold, wait: 0..Reset]
    /\ fixed \in [Places -> [n: 0..Cap, ttl: -1..LimWindow]]
    /\ sliding \in [Places -> SUBSET (Ages \X Nat)]

(* How far back a store remembers, whenever the cleanup comes. *)
Memory(p) == IF p = "memory" THEN UpTo(LimWindow, CleanupWindow) ELSE LimWindow
Recent(p, h) == {m \in h : m[1] < Memory(p)}

(* What the limiter promises, per store: a sliding route admits at most max
   requests in any stretch of windowMs, wherever it starts, but in memory only
   in any stretch that the cleanup leaves alone, the shorter of windowMs and
   DEFAULT_WINDOW_MS; a fixed one at most twice max in any windowMs, because a
   stretch can touch two of its windows. *)
WindowBounds ==
    \A p \in Places :
        /\ algo = "sliding" => Cardinality(Recent(p, admitted[p])) =< LimMax
        /\ algo = "fixed" => Cardinality(admitted[p]) =< 2 * LimMax

(* A Redis that was found broken is tried by one call per resetTimeoutMs and
   no more, whatever calls from before are still on their way and settle in
   the meantime. *)
ProbesSpaced ==
    [][\A s \in LimSlots :
         (calls'[s] # calls[s] /\ calls'[s] # IdleCall /\ calls'[s].probe) => probeAge >= Reset]_limVars

(* Both together: what the limiter and the breaker under it guarantee. *)
LimiterHolds == [](LimTypeOK /\ WindowBounds) /\ ProbesSpaced
=============================================================================
