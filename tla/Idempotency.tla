---------------------------- MODULE Idempotency ----------------------------
(***************************************************************************)
(* src/src/middleware/idempotency.ts: the middleware with its default      *)
(* in-memory store, and the cooperative TTL sweeper.  The one route behind *)
(* it passes no store, so requests use the in-memory one even where Redis  *)
(* is configured; the sweeper then runs against Redis and leaves the       *)
(* memory alone.                                                           *)
(*                                                                         *)
(* The in-memory store answers without leaving the event loop, so lookup   *)
(* and decision are one action; the route handler between next() and       *)
(* res.json is asynchronous, and other requests run meanwhile.             *)
(*                                                                         *)
(* A request has a store key (scope, user and Idempotency-Key header) and  *)
(* a body hash.  Time is relative: an entry holds the ticks it has left,   *)
(* and is expired at -1 because the code compares now > expiresAt.         *)
(***************************************************************************)
EXTENDS Integers, FiniteSets

CONSTANTS
  IdemRequests,\* requests to a route behind the middleware
  Keyless,     \* those whose Idempotency-Key header is missing or malformed
  Keys,        \* store keys
  Bodies,      \* request body hashes
  KeyOf,       \* KeyOf[r]
  BodyOf,      \* BodyOf[r]
  MaxEntries,  \* MAX_MEMORY_STORE_SIZE
  Ttl          \* ttlMs in ticks

ASSUME IdempotencyAssumption ==
  /\ Keyless \subseteq IdemRequests
  /\ KeyOf \in [IdemRequests -> Keys]
  /\ BodyOf \in [IdemRequests -> Bodies]
  /\ MaxEntries \in Nat \ {0}
  /\ Ttl \in Nat

VARIABLES
  handling,  \* handling[r]: "idle", "running" the route handler, or "done"
  reply,     \* reply[r]: "none", "ok" (2xx), "error", "badKey" (400),
             \* "collision" (422) or "replay"
  replayOf,  \* replayOf[r]: the requests whose cached response r was given
  stored,    \* the keys in memoryStore
  entryOf,   \* entryOf[k]: the request whose response is the entry of k
  left,      \* left[k]: ticks until expiry, -1 when expired
  backend,   \* the store the sweeper was started with: "memory" or "redis"
  interval,  \* the sweeper's interval (or first timeout) is scheduled
  cycle,     \* a sweep cycle is in flight (inflight is not null)
  stop,      \* stop(): "none", "awaiting" the cycle in flight, or "returned"
  lapsed,    \* history: keys whose entry was evicted, or not cached by a full store
  overlapped \* history: keys for which two handlers ran at the same time

idemVars == <<handling, reply, replayOf, stored, entryOf, left, backend, interval, cycle,
          stop, lapsed, overlapped>>

storeVars == <<stored, entryOf, left>>
sweeperVars == <<backend, interval, cycle, stop>>
history == <<lapsed, overlapped>>

IdemTypeOK ==
  /\ handling \in [IdemRequests -> {"idle", "running", "done"}]
  /\ reply \in [IdemRequests -> {"none", "ok", "error", "badKey", "collision", "replay"}]
  /\ replayOf \in [IdemRequests -> SUBSET IdemRequests]
  /\ stored \subseteq Keys /\ IsFiniteSet(stored)
  /\ Cardinality(stored) <= MaxEntries
  /\ entryOf \in [Keys -> SUBSET IdemRequests]
  /\ left \in [Keys -> -1..Ttl]
  /\ backend \in {"memory", "redis"}
  /\ interval \in BOOLEAN
  /\ cycle \in BOOLEAN
  /\ stop \in {"none", "awaiting", "returned"}
  /\ lapsed \subseteq Keys
  /\ overlapped \subseteq Keys

\* startIdempotencySweeper: Redis if it is configured, else the in-memory store.
startIdempotencySweeper == backend \in {"memory", "redis"}

\* start() has been called.
IdemInit ==
  /\ startIdempotencySweeper
  /\ handling = [r \in IdemRequests |-> "idle"]
  /\ reply = [r \in IdemRequests |-> "none"]
  /\ replayOf = [r \in IdemRequests |-> {}]
  /\ stored = {}
  /\ entryOf = [k \in Keys |-> {}]
  /\ left = [k \in Keys |-> -1]
  /\ interval = TRUE
  /\ cycle = FALSE
  /\ stop = "none"
  /\ lapsed = {}
  /\ overlapped = {}

(***************************************************************************)
(* The store.                                                              *)
(***************************************************************************)

Expired(k) == left[k] = -1

\* pruneExpiredMemoryStore.
Pruned == {k \in stored : ~Expired(k)}

\* get: an expired row is deleted and not returned.
CacheHit(k) == k \in stored /\ ~Expired(k)

\* set: at the limit expired rows are pruned; if that does not help, nothing is
\* cached.
SetEntry(k, r) ==
  LET kept == IF Cardinality(stored) >= MaxEntries THEN Pruned ELSE stored IN
  \/ /\ Cardinality(kept) < MaxEntries
     /\ stored' = kept \cup {k}
     /\ entryOf' = [entryOf EXCEPT ![k] = {r}]
     /\ left' = [left EXCEPT ![k] = Ttl]
     /\ lapsed' = lapsed \cup (stored \ kept)
  \/ /\ Cardinality(kept) >= MaxEntries
     /\ stored' = kept
     /\ lapsed' = lapsed \cup (stored \ kept) \cup {k}
     /\ UNCHANGED <<entryOf, left>>

(***************************************************************************)
(* The middleware.                                                         *)
(***************************************************************************)

Finish(r, what) ==
  /\ handling' = [handling EXCEPT ![r] = "done"]
  /\ reply' = [reply EXCEPT ![r] = what]

\* The body hash of the request that produced the entry.
SameBody(k, r) == \A q \in entryOf[k] : BodyOf[q] = BodyOf[r]

\* A request reaches the middleware with a usable key.
Arrives(r) == handling[r] = "idle" /\ r \notin Keyless

\* No usable key: 400, before the store is looked at.
RejectKey(r) ==
  /\ handling[r] = "idle"
  /\ r \in Keyless
  /\ Finish(r, "badKey")
  /\ UNCHANGED <<replayOf, storeVars, sweeperVars, history>>

\* A cached response for another body: 422.
Collide(r) ==
  /\ Arrives(r)
  /\ CacheHit(KeyOf[r])
  /\ ~SameBody(KeyOf[r], r)
  /\ Finish(r, "collision")
  /\ UNCHANGED <<replayOf, storeVars, sweeperVars, history>>

\* A cached response for this body is sent again.
Replay(r) ==
  /\ Arrives(r)
  /\ CacheHit(KeyOf[r])
  /\ SameBody(KeyOf[r], r)
  /\ Finish(r, "replay")
  /\ replayOf' = [replayOf EXCEPT ![r] = entryOf[KeyOf[r]]]
  /\ UNCHANGED <<storeVars, sweeperVars, history>>

Overlaps(r) == \E q \in IdemRequests \ {r} : KeyOf[q] = KeyOf[r] /\ handling[q] = "running"

\* No entry: next() runs the handler.
Execute(r) ==
  /\ Arrives(r)
  /\ ~CacheHit(KeyOf[r])
  /\ handling' = [handling EXCEPT ![r] = "running"]
  /\ stored' = stored \ {KeyOf[r]}
  /\ lapsed' = lapsed \cup (stored \cap {KeyOf[r]})
  /\ overlapped' = overlapped \cup {k \in {KeyOf[r]} : Overlaps(r)}
  /\ UNCHANGED <<reply, replayOf, entryOf, left, sweeperVars>>

\* The handler calls res.json with a 2xx status: the response is cached.
RespondOk(r) ==
  /\ handling[r] = "running"
  /\ Finish(r, "ok")
  /\ SetEntry(KeyOf[r], r)
  /\ UNCHANGED <<replayOf, sweeperVars, overlapped>>

\* Any other status is not cached.
RespondError(r) ==
  /\ handling[r] = "running"
  /\ Finish(r, "error")
  /\ UNCHANGED <<replayOf, storeVars, sweeperVars, history>>

(***************************************************************************)
(* The sweeper.  The sweep itself is synchronous with the in-memory store; *)
(* the awaits around it keep the cycle in flight for other steps to meet.  *)
(***************************************************************************)

\* sweepExpired of the Redis store has nothing to do: Redis evicts by itself.
RedisSweep == stored

\* sweepExpired of the in-memory store.
MemorySweep == Pruned

\* What the sweep of a cycle leaves in memory.
Swept == IF backend = "redis" THEN RedisSweep ELSE MemorySweep

\* The timer fires: runOnce shares a cycle in flight, or starts one, whose first
\* call is sweepExpired.
SweeperFires ==
  /\ interval
  /\ ~cycle
  /\ cycle' = TRUE
  /\ stored' = Swept
  /\ lapsed' = lapsed \cup (stored \ Swept)
  /\ UNCHANGED <<handling, reply, replayOf, entryOf, left, backend, interval, stop, overlapped>>

\* (mutant) the finally block is missing: the ended cycle stays in flight.
CycleEnds_KeepsInflight ==
  /\ cycle
  /\ UNCHANGED idemVars

\* count() answers or throws; either way the finally block clears inflight.
CycleEnds ==
  /\ cycle
  /\ cycle' = FALSE
  /\ UNCHANGED <<handling, reply, replayOf, storeVars, backend, interval, stop, history>>

\* stop(): no more cycles; the one in flight is awaited.
StopSweeper ==
  /\ stop = "none"
  /\ interval' = FALSE
  /\ stop' = IF cycle THEN "awaiting" ELSE "returned"
  /\ UNCHANGED <<handling, reply, replayOf, storeVars, backend, cycle, history>>

StopReturns ==
  /\ stop = "awaiting"
  /\ ~cycle
  /\ stop' = "returned"
  /\ UNCHANGED <<handling, reply, replayOf, storeVars, backend, interval, cycle, history>>

\* Time passes: entries get older.
Tick ==
  /\ \E k \in stored : ~Expired(k)
  /\ left' = [k \in Keys |-> IF k \in stored /\ ~Expired(k) THEN left[k] - 1 ELSE left[k]]
  /\ UNCHANGED <<handling, reply, replayOf, stored, entryOf, sweeperVars, history>>

Handle(r) ==
  \/ RejectKey(r)
  \/ Collide(r)
  \/ Replay(r)
  \/ Execute(r)
  \/ RespondOk(r)
  \/ RespondError(r)

IdemNext ==
  \/ \E r \in IdemRequests : Handle(r)
  \/ SweeperFires
  \/ CycleEnds
  \/ StopSweeper
  \/ StopReturns
  \/ Tick

IdemSpec == IdemInit /\ [][IdemNext]_idemVars

(***************************************************************************)
(* Properties.                                                             *)
(***************************************************************************)

\* A replayed response was a handler's 2xx answer to a request of the same key with the
\* same body: neither an error, a rejected collision nor another payload's answer is
\* ever replayed.
ReplayFaithful ==
  \A r \in IdemRequests : reply[r] = "replay" =>
    /\ replayOf[r] # {}
    /\ \A q \in replayOf[r] : reply[q] = "ok" /\ KeyOf[q] = KeyOf[r] /\ BodyOf[q] = BodyOf[r]

BothRan(q, r) == q # r /\ KeyOf[q] = KeyOf[r] /\ reply[q] = "ok" /\ reply[r] = "ok"

\* The handler succeeds at most once per key unless two handlers of the key ran at the
\* same time, its entry was evicted after its TTL, or the store was full: errors,
\* collisions, sweeps and overflow pruning never re-open a key.
OneSuccessUnlessExcused ==
  \A q, r \in IdemRequests : BothRan(q, r) => KeyOf[r] \in lapsed \cup overlapped

\* stop() returns only in a quiescent state: no cycle in flight and none to come.
StopIsQuiescent ==
  stop = "returned" => ~cycle /\ ~interval

\* What the middleware promises of a key: its replies are faithful, its handler succeeds
\* once unless excused, the store keeps within its limit, and the sweeper stops quietly.
IdempotentReplies ==
  IdemTypeOK /\ ReplayFaithful /\ OneSuccessUnlessExcused /\ StopIsQuiescent

\* While the sweeper runs against the store in use, an expired entry is eventually evicted
\* or renewed: no cycle wedges the timer.
ExpiredIsEvicted ==
  \A k \in Keys : (k \in stored /\ Expired(k) /\ backend = "memory")
                    ~> (k \notin stored \/ ~Expired(k) \/ stop # "none")

\* Idempotency holds: the replies, the store and the sweeper that keeps it small.
IdempotencyHolds == []IdempotentReplies /\ ExpiredIsEvicted
=============================================================================
