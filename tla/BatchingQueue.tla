--------------------------- MODULE BatchingQueue ---------------------------
(***************************************************************************)
(* The adaptive flush-window queue of                                      *)
(* src/src/services/soroban/batchingQueue.ts, with the flush callback that *)
(* services/attestation/submit.ts installs.                                *)
(*                                                                         *)
(* JavaScript runs one callback at a time, so every synchronous stretch of *)
(* the class is one action.  What interleaves is: calls of enqueue,        *)
(* flushNow and drain, the latency timer, the cooldown timers that doFlush *)
(* leaves behind (they are never cancelled), the settlement of each item   *)
(* of the batch in flight, and the end of the flush.                       *)
(*                                                                         *)
(* Time is discrete and relative: a timer holds the milliseconds left, an  *)
(* item its age, `sinceFlush' the time since lastFlushTime.  Ages saturate *)
(* at MaxLatency and sinceFlush at FlushCooldown because the code only     *)
(* compares them with these limits.                                        *)
(***************************************************************************)
EXTENDS Integers, Sequences, FiniteSets

CONSTANTS
  Items,                  \* the payloads callers may enqueue, each at most once
  MaxBatchSize,           \* config.maxBatchSize
  MaxLatency,             \* config.maxLatencyMs
  BackpressureThreshold,  \* config.backpressureThreshold
  FlushCooldown,          \* config.flushCooldownMs
  MaxStall                \* saturation bound of the history variable `stall'

ASSUME ConfigAssumption ==
  /\ MaxBatchSize \in Nat \ {0}
  /\ MaxLatency \in Nat \ {0}
  /\ BackpressureThreshold \in Nat \ {0}
  /\ FlushCooldown \in Nat \ {0}
  /\ MaxStall \in Nat

VARIABLES
  queue,       \* this.queue: items waiting, oldest first
  age,         \* age[i]: Date.now() - i.enqueuedAt, saturating
  timer,       \* ms left on this.latencyTimer, or NoTimer
  deferred,    \* deferred[d]: cooldown timers outstanding with d ms left
  sinceFlush,  \* Date.now() - this.lastFlushTime, saturating
  flushing,    \* this.flushing
  batch,       \* the items handed to flushFn and not settled yet
  promise,     \* state of the promise returned by enqueue
  stall        \* history: ms spent with items waiting, no flush running, no timer due

vars == <<queue, age, timer, deferred, sinceFlush, flushing, batch, promise, stall>>

NoTimer == -1

TypeOK ==
  /\ queue \in Seq(Items)
  /\ age \in [Items -> 0..MaxLatency]
  /\ timer \in (0..MaxLatency) \cup {NoTimer}
  /\ deferred \in [0..FlushCooldown -> Nat]
  /\ sinceFlush \in 0..FlushCooldown
  /\ flushing \in BOOLEAN
  /\ batch \in SUBSET Items
  /\ promise \in [Items -> {"none", "pending", "resolved", "rejected"}]
  /\ stall \in 0..MaxStall

Init ==
  /\ queue = <<>>
  /\ age = [i \in Items |-> 0]
  /\ timer = NoTimer
  /\ deferred = [d \in 0..FlushCooldown |-> 0]
  /\ sinceFlush = FlushCooldown      \* lastFlushTime = 0 is long ago
  /\ flushing = FALSE
  /\ batch = {}
  /\ promise = [i \in Items |-> "none"]
  /\ stall = 0

(***************************************************************************)
(* Private helpers.                                                        *)
(***************************************************************************)

Least(a, b) == IF a <= b THEN a ELSE b

\* scheduleLatencyFlush: the time left for the head q[1] of a non-empty queue,
\* 0 when it is already overdue.
LatencyLeft(q, ages) == MaxLatency - ages[q[1]]

BatchSize(q) == Least(MaxBatchSize, Len(q))

\* (mutant) the batch is spliced off the end of the queue.
TakeBatch_FromTheEnd(q) ==
  /\ flushing' = TRUE
  /\ timer' = NoTimer
  /\ batch' = {q[j] : j \in (Len(q) - BatchSize(q) + 1)..Len(q)}
  /\ queue' = SubSeq(q, 1, Len(q) - BatchSize(q))
  /\ sinceFlush' = 0
  /\ stall' = 0

\* doFlush past its guards: take up to MaxBatchSize items from the front,
\* clear the latency timer and start the callback.
TakeBatch(q) ==
  /\ flushing' = TRUE
  /\ timer' = NoTimer
  /\ batch' = {q[j] : j \in 1..BatchSize(q)}
  /\ queue' = SubSeq(q, BatchSize(q) + 1, Len(q))
  /\ sinceFlush' = 0
  /\ stall' = 0

\* Nothing is taken and no flush runs afterwards: q, t and ds are the queue, the
\* latency timer and the cooldown timers left.
StayIdle(q, t, ds) ==
  /\ queue' = q
  /\ timer' = t
  /\ deferred' = ds
  /\ flushing' = FALSE
  /\ batch' = {}
  /\ UNCHANGED <<sinceFlush, stall>>

\* A flush is running: only the queue and the timers change.
StayBusy(q, t, ds) ==
  /\ queue' = q
  /\ timer' = t
  /\ deferred' = ds
  /\ UNCHANGED <<flushing, batch, sinceFlush, stall>>

\* (mutant) the deferral waits a whole cooldown window, not the rest of it.
DoFlush_WholeWindow(q, t, ds) ==
  \/ /\ sinceFlush < FlushCooldown
     /\ StayIdle(q, t, [ds EXCEPT ![FlushCooldown] = @ + 1])
  \/ /\ sinceFlush >= FlushCooldown
     /\ TakeBatch(q)
     /\ deferred' = ds

\* doFlush('size' | 'latency') on a non-empty queue with no flush running: inside
\* the cooldown window it leaves a timer for the rest of the window.
DoFlush(q, t, ds) ==
  \/ /\ sinceFlush < FlushCooldown
     /\ StayIdle(q, t, [ds EXCEPT ![FlushCooldown - sinceFlush] = @ + 1])
  \/ /\ sinceFlush >= FlushCooldown
     /\ TakeBatch(q)
     /\ deferred' = ds

\* checkTriggers with no flush running: backpressure bypasses the cooldown, the
\* size trigger does not.
CheckTriggers(q, t, ds) ==
  \/ /\ Len(q) >= BackpressureThreshold
     /\ TakeBatch(q)
     /\ deferred' = ds
  \/ /\ Len(q) < BackpressureThreshold
     /\ Len(q) >= MaxBatchSize
     /\ DoFlush(q, t, ds)
  \/ /\ Len(q) < BackpressureThreshold
     /\ Len(q) < MaxBatchSize
     /\ StayIdle(q, t, ds)

(***************************************************************************)
(* Public API.                                                             *)
(***************************************************************************)

\* enqueue(payload): push, schedule the latency flush for a first item, then
\* check the size and backpressure triggers.
Enqueue(i) ==
  LET q == Append(queue, i)
      t == IF Len(q) = 1 THEN MaxLatency ELSE timer
  IN /\ promise[i] = "none"
     /\ promise' = [promise EXCEPT ![i] = "pending"]
     /\ age' = [age EXCEPT ![i] = 0]
     /\ IF flushing THEN StayBusy(q, t, deferred)
                    ELSE CheckTriggers(q, t, deferred)

\* flushNow(): doFlush('manual') ignores the cooldown.
FlushNow ==
  /\ ~flushing
  /\ queue # <<>>
  /\ TakeBatch(queue)
  /\ UNCHANGED <<age, deferred, promise>>

\* drain(reason): reject everything that waits; a batch in flight is untouched.
Drain ==
  /\ queue # <<>>
  /\ timer' = NoTimer
  /\ queue' = <<>>
  /\ promise' = [i \in Items |->
       IF \E j \in 1..Len(queue) : queue[j] = i THEN "rejected" ELSE promise[i]]
  /\ stall' = 0
  /\ UNCHANGED <<age, deferred, sinceFlush, flushing, batch>>

(***************************************************************************)
(* Timers.                                                                 *)
(***************************************************************************)

\* The guard both timer callbacks start with.
WorkToFlush == queue # <<>> /\ ~flushing

\* The callback of latencyTimer.
LatencyTimerFires ==
  /\ timer = 0
  /\ IF WorkToFlush THEN DoFlush(queue, NoTimer, deferred)
                    ELSE StayBusy(queue, NoTimer, deferred)
  /\ UNCHANGED <<age, promise>>

\* The callback of a cooldown timer left by doFlush.
CooldownTimerFires ==
  LET ds == [deferred EXCEPT ![0] = @ - 1] IN
  /\ deferred[0] > 0
  /\ IF WorkToFlush THEN DoFlush(queue, timer, ds)
                    ELSE StayBusy(queue, timer, ds)
  /\ UNCHANGED <<age, promise>>

(***************************************************************************)
(* The flush callback.                                                     *)
(***************************************************************************)

\* The callback resolves or rejects one item on its own.
SettleItem(i) ==
  /\ i \in batch
  /\ \E outcome \in {"resolved", "rejected"} :
       promise' = [promise EXCEPT ![i] = outcome]
  /\ batch' = batch \ {i}
  /\ UNCHANGED <<queue, age, timer, deferred, sinceFlush, flushing, stall>>

\* (mutant) the finally block forgets to re-arm the latency timer.
FinishFlush_NoRearm == CheckTriggers(queue, timer, deferred)

\* The finally block of doFlush: flushing becomes false, the latency timer is
\* re-armed for what waits, then the triggers are checked.
FinishFlush ==
  CheckTriggers(queue, IF queue # <<>> THEN LatencyLeft(queue, age) ELSE timer, deferred)

\* flushFn fulfils: submit.ts awaits Promise.allSettled, so every item of the
\* batch has been settled.
FlushReturns ==
  /\ flushing
  /\ batch = {}
  /\ FinishFlush
  /\ UNCHANGED <<age, promise>>

\* flushFn rejects: every item of the batch not settled yet is rejected.
FlushThrows ==
  /\ flushing
  /\ promise' = [i \in Items |-> IF i \in batch THEN "rejected" ELSE promise[i]]
  /\ FinishFlush
  /\ UNCHANGED age

(***************************************************************************)
(* Time.                                                                   *)
(***************************************************************************)

TimerDue == timer = 0 \/ deferred[0] > 0

\* One millisecond passes.  A busy event loop may leave a due timer waiting; such
\* milliseconds are not charged to the queue in `stall'.
Tick ==
  /\ age' = [i \in Items |-> IF promise[i] = "none" THEN 0
                             ELSE Least(age[i] + 1, MaxLatency)]
  /\ timer' = IF timer > 0 THEN timer - 1 ELSE timer
  /\ deferred' = [d \in 0..FlushCooldown |->
       IF d = 0 THEN deferred[0] + deferred[1]
       ELSE IF d = FlushCooldown THEN 0 ELSE deferred[d + 1]]
  /\ sinceFlush' = Least(sinceFlush + 1, FlushCooldown)
  /\ stall' = IF WorkToFlush /\ ~TimerDue THEN Least(stall + 1, MaxStall) ELSE stall
  /\ UNCHANGED <<queue, flushing, batch, promise>>

Next ==
  \/ \E i \in Items : Enqueue(i)
  \/ FlushNow
  \/ Drain
  \/ LatencyTimerFires
  \/ CooldownTimerFires
  \/ \E i \in Items : SettleItem(i)
  \/ FlushReturns
  \/ FlushThrows
  \/ Tick

Spec == Init /\ [][Next]_vars

\* Time passes, the event loop runs due timers, the submissions of a batch
\* settle (submitToSorobanWithRetry makes finitely many attempts) and the
\* callback returns.  Nobody has to call enqueue, flushNow or drain.
Fairness ==
  /\ WF_vars(Tick)
  /\ WF_vars(LatencyTimerFires)
  /\ WF_vars(CooldownTimerFires)
  /\ \A i \in Items : WF_vars(SettleItem(i))
  /\ WF_vars(FlushReturns)

FairSpec == Spec /\ Fairness

(***************************************************************************)
(* Properties.                                                             *)
(***************************************************************************)

\* No lost wake-up: whenever items wait and no flush runs, the latency timer or a
\* cooldown timer is still going to run doFlush (doFlush clears the latency timer
\* and both timer callbacks do nothing while a flush runs, so the finally block
\* has to re-arm).
WakeupPending ==
  (queue # <<>> /\ ~flushing) =>
    timer # NoTimer \/ \E d \in 0..FlushCooldown : deferred[d] > 0

\* Every enqueued item is eventually resolved or rejected, and not only eventually:
\* apart from the time a due timer waits for a busy event loop, items never wait longer
\* than the larger of maxLatencyMs and flushCooldownMs while no flush runs, however
\* enqueue, flushNow, drain, the deferrals and a latency timer that ran during a flush
\* interleave.
EveryItemSettles ==
  /\ \A i \in Items : promise[i] = "pending" ~> promise[i] \in {"resolved", "rejected"}
  /\ [](stall <= MaxLatency \/ stall <= FlushCooldown)

\* The queue implements BatchService: whatever its timers, triggers and cooldowns do,
\* items leave in the order of enqueue, in batches of at most maxBatchSize, one batch
\* at a time, and every promise is settled once, by its batch or by drain.
Service == INSTANCE BatchService WITH MaxBatch <- MaxBatchSize, waiting <- queue, busy <- flushing

ImplementsService == Service!Spec
=============================================================================
