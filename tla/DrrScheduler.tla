---------------------------- MODULE DrrScheduler ----------------------------
(***************************************************************************)
(* The deficit round-robin scheduler of                                    *)
(* src/services/soroban/drrScheduler.ts and the adaptive batch size of     *)
(* src/services/soroban/adaptiveBatchSize.ts, joined as                    *)
(* submitAttestation.ts joins them: a drainer asks for the batch size,     *)
(* which may first await a fee sample, and takes that many items.          *)
(*                                                                         *)
(* The items of a tenant are interchangeable, so a queue is its length.    *)
(* Decimals are percentages.                                               *)
(***************************************************************************)
EXTENDS Integers, Sequences, FiniteSets, SequencesExt

CONSTANTS
    Tenants, Drainers,
    Weights,         \* the weights of the tiers a tenant may be on
    Quantum,
    Fees,            \* the p50 fees the network may report; 0 is invalid
    Volatilities,    \* in percent
    MinSize, MaxSize, EwmaAlpha, SpikeMultiplier, Sensitivity, Dampening,
    SampleInterval,  \* in ticks
    MaxQueue, MaxDeficit    \* bounds

ASSUME DrrAssumption ==
    /\ Quantum \in Nat \ {0} /\ Weights \subseteq Nat \ {0}
    /\ MinSize \in Nat \ {0} /\ MaxSize \in Nat \ {0}    \* nothing checks that MinSize <= MaxSize
    /\ Fees \subseteq Int /\ Volatilities \subseteq Int /\ SampleInterval \in Nat
    /\ EwmaAlpha \in 0..100 /\ SpikeMultiplier \in Int /\ Sensitivity \in Int /\ Dampening \in Int

VARIABLES
    queue, deficit, weight,   \* TenantState of each tenant
    order,                    \* activeOrder
    size,                     \* currentBatchSize
    ewma,                     \* ewmaFee in percent, 0 for null
    since,                    \* ticks since lastSampleTime
    drainer,                  \* what each drainer is doing
    taken                     \* the items of the last batch by tenant

drrVars == <<queue, deficit, weight, order, size, ewma, since, drainer, taken>>

IdleDrainer == [pc |-> "idle", age |-> 0, size |-> 0]
NoItems == [t \in Tenants |-> 0]

DrrInit ==
    /\ queue = NoItems /\ deficit = NoItems
    /\ weight \in [Tenants -> Weights]
    /\ order = <<>>
    /\ size = MaxSize /\ ewma = 0 /\ since = SampleInterval
    /\ drainer = [d \in Drainers |-> IdleDrainer]
    /\ taken = NoItems

-----------------------------------------------------------------------------
(* The scheduler.                                                          *)

\* enqueue: the weight follows the tier of the newest item.
Enqueue(t, w) ==
    /\ queue[t] < MaxQueue
    /\ queue' = [queue EXCEPT ![t] = @ + 1]
    /\ weight' = [weight EXCEPT ![t] = w]
    /\ order' = IF \E i \in DOMAIN order : order[i] = t THEN order ELSE Append(order, t)
    /\ UNCHANGED <<deficit, size, ewma, since, drainer, taken>>

Smaller(a, b) == IF a < b THEN a ELSE b

\* One tenant's turn: a batch that is full leaves it unvisited; an empty queue
\* leaves the round; otherwise credit is added and spent.
Visit(st, t) ==
    IF st.left = 0 THEN st
    ELSE IF st.queue[t] = 0 THEN [st EXCEPT !.exhausted = @ \cup {t}]
    ELSE LET credit == st.deficit[t] + weight[t] * Quantum
             n == Smaller(credit, Smaller(st.queue[t], st.left))
         IN  [st EXCEPT !.queue[t] = @ - n,
                        !.deficit[t] = credit - n,
                        !.left = @ - n,
                        !.taken[t] = @ + n,
                        !.exhausted = IF st.queue[t] = n THEN @ \cup {t} ELSE @]

\* The tenants of a round in their order, each visited once.
Turns(st) ==
    LET after[k \in 0..Len(st.order)] ==
            IF k = 0 THEN [st EXCEPT !.exhausted = {}] ELSE Visit(after[k - 1], st.order[k])
    IN  after[Len(st.order)]

\* activeOrder.filter: the order without the exhausted tenants.
StillActive(list, gone) ==
    LET kept[k \in 0..Len(list)] ==
            IF k = 0 THEN <<>>
            ELSE IF list[k] \in gone THEN kept[k - 1] ELSE Append(kept[k - 1], list[k])
    IN  kept[Len(list)]

Round(st) ==
    LET after == Turns(st) IN [after EXCEPT !.order = StillActive(@, after.exhausted)]

\* dequeueBatch: rounds until the batch is full or no tenant is active.  A round
\* takes an item or drops a tenant, which bounds their number.
Finished(st) == st.left = 0 \/ st.order = <<>>
NextRound(st) == IF Finished(st) THEN st ELSE Round(st)
Rounds(st) ==
    LET bound == st.left + Len(st.order)
        round[k \in 0..bound] == IF k = 0 THEN st ELSE NextRound(round[k - 1])
    IN  round[bound]

dequeueBatch(n) ==
    Rounds([queue |-> queue, deficit |-> deficit, order |-> order,
            left |-> n, taken |-> NoItems, exhausted |-> {}])

-----------------------------------------------------------------------------
(* The controller.                                                         *)

Bigger(a, b) == IF a > b THEN a ELSE b

Clamped_NoFloor(n) == Smaller(MaxSize, n)
Clamped(n) == Bigger(MinSize, Smaller(MaxSize, n))

\* Math.round of n / 1000000.
Rounded(n) == (2 * n + 1000000) \div 2000000

\* 1 + (1 - fee / baseline) * sensitivity, pulled towards 1 by volatility.
Scaled(fee, baseline, volatility) ==
    LET ratio == (fee * 10000) \div baseline
        dampening == 100 - (Dampening * Smaller(volatility, 100)) \div 100
    IN  Rounded(size * (1000000 + (100 - ratio) * Sensitivity * dampening))

\* tune: an invalid fee is skipped, a spike drops the size to the minimum.
tune(fee, volatility) ==
    LET baseline == IF ewma = 0 THEN fee * 100 ELSE ewma IN
    IF fee <= 0 THEN UNCHANGED <<size, ewma>>
    ELSE /\ ewma' = IF ewma = 0 THEN fee * 100
                    ELSE (EwmaAlpha * fee * 100 + (100 - EwmaAlpha) * ewma) \div 100
         /\ size' = IF fee * 10000 > SpikeMultiplier * baseline THEN MinSize
                    ELSE Clamped(Scaled(fee, baseline, volatility))

\* getAdaptiveBatchSize: within the interval the size is returned as it is.
AskSize(d) ==
    /\ drainer[d].pc = "idle"
    /\ drainer' = [drainer EXCEPT ![d] = IF since < SampleInterval
                                         THEN [pc |-> "ready", age |-> 0, size |-> size]
                                         ELSE [pc |-> "sampling", age |-> 0, size |-> 0]]
    /\ UNCHANGED <<queue, deficit, weight, order, size, ewma, since, taken>>

\* getFeeStats answers: lastSampleTime becomes the time of the question, even
\* when another sample has been taken since.
SampleArrives(d) ==
    /\ drainer[d].pc = "sampling"
    /\ \E fee \in Fees, v \in Volatilities : tune(fee, v)
    /\ since' = drainer[d].age
    /\ drainer' = [drainer EXCEPT ![d] = [pc |-> "ready", age |-> 0, size |-> size']]
    /\ UNCHANGED <<queue, deficit, weight, order, taken>>

\* getFeeStats rejects: the drainer's round is over.
SampleFails(d) ==
    /\ drainer[d].pc = "sampling"
    /\ drainer' = [drainer EXCEPT ![d] = IdleDrainer]
    /\ UNCHANGED <<queue, deficit, weight, order, size, ewma, since, taken>>

\* sampleAndUpdateMetrics tunes without looking at the interval.
ForcedSample ==
    /\ \E fee \in Fees, v \in Volatilities : tune(fee, v)
    /\ UNCHANGED <<queue, deficit, weight, order, since, drainer, taken>>

\* processBatchSchedulerDrain; a submission that fails is not queued again.
Drain(d) ==
    LET st == dequeueBatch(drainer[d].size) IN
    /\ drainer[d].pc = "ready"
    /\ \A t \in Tenants : st.deficit[t] <= MaxDeficit
    /\ queue' = st.queue /\ deficit' = st.deficit /\ order' = st.order /\ taken' = st.taken
    /\ drainer' = [drainer EXCEPT ![d] = IdleDrainer]
    /\ UNCHANGED <<weight, size, ewma, since>>

TimePasses ==
    /\ since' = Smaller(since + 1, SampleInterval)
    /\ drainer' = [d \in Drainers |->
                     IF drainer[d].pc = "sampling"
                     THEN [drainer[d] EXCEPT !.age = Smaller(@ + 1, SampleInterval)]
                     ELSE drainer[d]]
    /\ UNCHANGED <<queue, deficit, weight, order, size, ewma, taken>>

DrrNext ==
    \/ \E t \in Tenants, w \in Weights : Enqueue(t, w)
    \/ \E d \in Drainers : AskSize(d) \/ SampleArrives(d) \/ SampleFails(d) \/ Drain(d)
    \/ ForcedSample
    \/ TimePasses

DrrSpec == DrrInit /\ [][DrrNext]_drrVars

\* The drainers keep draining, and the fee endpoint answers again and again.
DrrFairSpec ==
    /\ DrrSpec
    /\ \A d \in Drainers : WF_drrVars(AskSize(d)) /\ WF_drrVars(Drain(d))
                           /\ SF_drrVars(SampleArrives(d))

-----------------------------------------------------------------------------

\* The tenants in the round are exactly those with something queued: nobody
\* is forgotten between draining and coming back, nor visited for nothing
\* (drrScheduler.ts:260, 335).
ActiveIsBacklogged ==
    /\ ToSet(order) = {t \in Tenants : queue[t] > 0}
    /\ Cardinality(ToSet(order)) = Len(order)

\* However many rounds a batch takes and whatever credit, tiers and fee samples
\* came before, what leaves a queue is in the batch, once, and a drain of a
\* backlog takes something: the size never comes to nothing
\* (drrScheduler.ts:314, adaptiveBatchSize.ts:278).  Nothing is said of growth:
\* Math.round can keep a small size where it is (adaptiveBatchSize.ts:277).
DrainTakesItsBatch ==
    [][\A d \in Drainers :
          drainer[d].pc = "ready" /\ drainer'[d].pc = "idle" =>
              /\ \A t \in Tenants : queue'[t] + taken'[t] = queue[t]
              /\ order # <<>> => \E t \in Tenants : taken'[t] > 0]_drrVars

\* The scheduler forgets nobody, loses nothing and never drains in vain.
SchedulerHolds == []ActiveIsBacklogged /\ DrainTakesItsBatch

\* "they can never starve other tenants because the round-robin ensures every
\* non-empty tenant is visited every cycle" (drrScheduler.ts:15): a tenant
\* with something queued is served.
NoTenantStarves ==
    \A t \in Tenants : queue[t] > 0 ~> (taken[t] > 0 \/ queue[t] = 0)
=============================================================================
