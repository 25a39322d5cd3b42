----------------------------- MODULE SorobanRpc -----------------------------
(***************************************************************************)
(* The resilience layer under every Soroban call:                          *)
(*   src/src/services/soroban/client.ts        executeSorobanRequest and   *)
(*                                             its CircuitBreaker          *)
(*   src/src/services/soroban/retry-budget.ts  the process-wide budget     *)
(*   src/src/utils/hedged-request.ts           primary and backup requests *)
(* with the callers that decide how they are combined: getAttestation (one *)
(* hedged simulateTransaction), submitAttestation and                      *)
(* revokeBatchAttestations (getAccount, prepareTransaction and             *)
(* sendTransaction in turn).                                               *)
(*                                                                         *)
(* A `leg' is one run of executeSorobanRequest; an action is the code      *)
(* between two of its awaits.  Every caller builds RPC clients of its own, *)
(* so a breaker belongs to a caller, while the retry budget and the cap on *)
(* hedges are shared by all.                                               *)
(***************************************************************************)
EXTENDS Integers, FiniteSets

CONSTANTS
  Reads,       \* calls of getAttestation
  Submits,     \* calls of submitAttestation and revokeBatchAttestations
  SameUrl,     \* TRUE: no backup URL, the hedge goes through the primary's client
  MaxRetries,  \* policy.maxRetries
  BudgetMax,   \* config.soroban.retryBudgetMaxRetries
  Threshold,   \* policy.circuitBreakerThreshold
  MaxHedges    \* maxConcurrentHedges

ASSUME RpcAssumption ==
  /\ Reads \cap Submits = {}
  /\ SameUrl \in BOOLEAN
  /\ MaxRetries \in Nat
  /\ BudgetMax \in Nat
  /\ Threshold \in Nat \ {0}
  /\ MaxHedges \in Nat \ {0}

VARIABLES
  leg,      \* leg[p]: where this executeSorobanRequest is
  attempt,  \* attempt[p]: its attempt counter
  step,     \* step[s]: RPCs submission s has begun, out of 3
  brk,      \* brk[c]: state of the breaker of client c
  fails,    \* fails[c]: its failureCount
  spent,    \* retries recorded in the last 60 seconds
  hedges,   \* concurrentHedges
  hedgeTimer, \* hedgeTimer[r]: the hedge timer of read r is armed
  outcome,  \* outcome[r]: how the promise of hedgedRequest settled
  refused   \* history: legs whose breaker refused them

rpcVars == <<leg, attempt, step, brk, fails, spent, hedges, hedgeTimer, outcome, refused>>

Primary(r) == <<r, "primary">>
Hedge(r) == <<r, "hedge">>
Rpc(s) == <<s, "rpc">>

Legs == (Reads \X {"primary", "hedge"}) \cup (Submits \X {"rpc"})

RpcTypeOK ==
  /\ leg \in [Legs -> {"idle", "running", "sleeping", "ok", "failed"}]
  /\ attempt \in [Legs -> 1..(MaxRetries + 1)]
  /\ step \in [Submits -> 0..3]
  /\ brk \in [Legs -> {"closed", "open", "half_open"}]
  /\ fails \in [Legs -> Nat]
  /\ spent \in 0..BudgetMax
  /\ hedges \in 0..MaxHedges
  /\ hedgeTimer \in [Reads -> BOOLEAN]
  /\ outcome \in [Reads -> {"none", "value", "error"}]
  /\ refused \subseteq Legs

RpcInit ==
  /\ leg = [p \in Legs |-> "idle"]
  /\ attempt = [p \in Legs |-> 1]
  /\ step = [s \in Submits |-> 0]
  /\ brk = [c \in Legs |-> "closed"]
  /\ fails = [c \in Legs |-> 0]
  /\ spent = 0
  /\ hedges = 0
  /\ hedgeTimer = [r \in Reads |-> FALSE]
  /\ outcome = [r \in Reads |-> "none"]
  /\ refused = {}

(***************************************************************************)
(* CircuitBreaker.                                                         *)
(***************************************************************************)

\* (mutant) one client, and with it one breaker, is cached for the process.
ClientOf_Cached(p) == CHOOSE q \in Legs : TRUE

\* The RPC client of a leg, named by the first leg that uses it.
ClientOf(p) == IF p[2] = "hedge" /\ SameUrl THEN Primary(p[1]) ELSE p

\* canProceed, where `rest' tells whether resetTimeoutMs has passed since the last
\* failure: an open breaker then becomes half-open and lets the call pass.
CanProceed(p, rest) == brk[ClientOf(p)] # "open" \/ rest

CheckBreaker(p, rest) ==
  /\ brk' = [brk EXCEPT ![ClientOf(p)] = IF @ = "open" /\ rest THEN "half_open" ELSE @]
  /\ refused' = IF CanProceed(p, rest) THEN refused ELSE refused \cup {p}
  /\ UNCHANGED fails

\* The breaker's state after a success.
Recovered(p) == IF brk[ClientOf(p)] = "half_open" THEN "closed" ELSE brk[ClientOf(p)]

RecordSuccess(p) ==
  /\ brk' = [brk EXCEPT ![ClientOf(p)] = Recovered(p)]
  /\ fails' = [fails EXCEPT ![ClientOf(p)] = 0]

\* recordFailure in state `state' after n failures in a row.
RecordFailure(p, state, n) ==
  /\ brk' = [brk EXCEPT ![ClientOf(p)] =
       IF state = "half_open" \/ n + 1 >= Threshold THEN "open" ELSE state]
  /\ fails' = [fails EXCEPT ![ClientOf(p)] = n + 1]

RecordOneMoreFailure(p) == RecordFailure(p, brk[ClientOf(p)], fails[ClientOf(p)])

BreakerUntouched == UNCHANGED <<brk, fails>>

(***************************************************************************)
(* How a leg ends, and what hedgedRequest makes of it.                     *)
(***************************************************************************)

\* (mutant) hedgeStarted is set before the cap is looked at.
Settled_SkippedIsStarted(p, result) ==
  [outcome EXCEPT ![p[1]] =
    IF @ # "none" THEN @
    ELSE IF result = "ok" THEN "value"
    ELSE IF p[2] = "primary" /\ hedgeTimer[p[1]] THEN "error"
    ELSE IF p[2] = "hedge" /\ leg[Primary(p[1])] = "failed" THEN "error"
    ELSE "none"]

\* onSettle: the first value wins; the primary's error counts at once when no hedge
\* was started, and when a hedge fails after it.
Settled(p, result) ==
  [outcome EXCEPT ![p[1]] =
    IF @ # "none" THEN @
    ELSE IF result = "ok" THEN "value"
    ELSE IF p[2] = "primary" /\ leg[Hedge(p[1])] = "idle" THEN "error"
    ELSE IF p[2] = "hedge" /\ leg[Primary(p[1])] = "failed" THEN "error"
    ELSE "none"]

\* A hedge gives its slot back however and whenever it ends.
HedgesAfter(p) == IF p[2] = "hedge" THEN hedges - 1 ELSE hedges

\* The leg ends with `result' (ok or failed) and its attempt counter with it; cleanup
\* disarms the timer of a read that settles.
Ends(p, result) ==
  /\ leg' = [leg EXCEPT ![p] = result]
  /\ hedges' = HedgesAfter(p)
  /\ IF p[1] \in Reads
       THEN /\ outcome' = Settled(p, result)
            /\ hedgeTimer' = [hedgeTimer EXCEPT ![p[1]] = @ /\ Settled(p, result)[p[1]] = "none"]
       ELSE UNCHANGED <<outcome, hedgeTimer>>
  /\ attempt' = [attempt EXCEPT ![p] = 1]
  /\ UNCHANGED spent

(***************************************************************************)
(* executeSorobanRequest.                                                  *)
(***************************************************************************)

\* attempt <= policy.maxRetries and sorobanRetryBudget.canRetry().
MayRetry(p) == attempt[p] <= MaxRetries /\ spent < BudgetMax

\* recordRetry, then the jittered delay.
Sleep(p) ==
  /\ leg' = [leg EXCEPT ![p] = "sleeping"]
  /\ spent' = spent + 1
  /\ UNCHANGED <<attempt, hedges, outcome, hedgeTimer>>

\* A result arrives within the timeout.
AttemptSucceeds(p) ==
  /\ leg[p] = "running"
  /\ RecordSuccess(p)
  /\ Ends(p, "ok")
  /\ UNCHANGED <<step, refused>>

\* sendTransaction answers TRY_AGAIN_LATER.  With no retry left the answer goes to
\* the caller, which throws; an exhausted budget throws inside the try block,
\* so a failure is recorded right after the success.
TryAgainLater(s) ==
  /\ leg[Rpc(s)] = "running"
  /\ step[s] = 3
  /\ IF MayRetry(Rpc(s)) THEN RecordSuccess(Rpc(s)) /\ Sleep(Rpc(s))
     ELSE /\ Ends(Rpc(s), "failed")
          /\ IF attempt[Rpc(s)] > MaxRetries THEN RecordSuccess(Rpc(s))
             ELSE RecordFailure(Rpc(s), Recovered(Rpc(s)), 0)
  /\ UNCHANGED <<step, refused>>

\* A transport error or a timeout.  The last attempt records a failure, an exhausted
\* budget does not.
TransientFailure(p) ==
  /\ leg[p] = "running"
  /\ IF MayRetry(p) THEN BreakerUntouched /\ Sleep(p)
     ELSE /\ Ends(p, "failed")
          /\ IF attempt[p] > MaxRetries THEN RecordOneMoreFailure(p)
             ELSE BreakerUntouched
  /\ UNCHANGED <<step, refused>>

\* An error that is not retryable.
PermanentFailure(p) ==
  /\ leg[p] = "running"
  /\ RecordOneMoreFailure(p)
  /\ Ends(p, "failed")
  /\ UNCHANGED <<step, refused>>

\* The delay is over: the next attempt.
Wakes(p) ==
  /\ leg[p] = "sleeping"
  /\ leg' = [leg EXCEPT ![p] = "running"]
  /\ attempt' = [attempt EXCEPT ![p] = @ + 1]
  /\ UNCHANGED <<step, brk, fails, spent, hedges, hedgeTimer, outcome, refused>>

\* The oldest retry leaves the 60-second window.
WindowPasses ==
  /\ spent > 0
  /\ spent' = spent - 1
  /\ UNCHANGED <<leg, attempt, step, brk, fails, hedges, hedgeTimer, outcome, refused>>

(***************************************************************************)
(* The callers.                                                            *)
(***************************************************************************)

\* getAttestation: the primary starts and the hedge timer is armed.
BeginRead(r) ==
  /\ leg[Primary(r)] = "idle"
  /\ \E rest \in BOOLEAN :
       LET go == CanProceed(Primary(r), rest) IN
       /\ CheckBreaker(Primary(r), rest)
       /\ leg' = [leg EXCEPT ![Primary(r)] = IF go THEN "running" ELSE "failed"]
       /\ outcome' = [outcome EXCEPT ![r] = IF go THEN "none" ELSE "error"]
       /\ hedgeTimer' = [hedgeTimer EXCEPT ![r] = go]
  /\ UNCHANGED <<attempt, step, spent, hedges>>

\* The hedge timer fires with the cap reached: the hedge is skipped for good.
SkipHedge(r) ==
  /\ hedgeTimer[r]
  /\ hedges >= MaxHedges
  /\ hedgeTimer' = [hedgeTimer EXCEPT ![r] = FALSE]
  /\ UNCHANGED <<leg, attempt, step, brk, fails, spent, hedges, outcome, refused>>

\* The hedge timer fires and the backup request starts.
StartHedge(r) ==
  /\ hedgeTimer[r]
  /\ hedges < MaxHedges
  /\ hedgeTimer' = [hedgeTimer EXCEPT ![r] = FALSE]
  /\ \E rest \in BOOLEAN :
       LET go == CanProceed(Hedge(r), rest) IN
       /\ CheckBreaker(Hedge(r), rest)
       /\ leg' = [leg EXCEPT ![Hedge(r)] = IF go THEN "running" ELSE "failed"]
       /\ hedges' = IF go THEN hedges + 1 ELSE hedges
  /\ UNCHANGED <<attempt, step, spent, outcome>>

\* submitAttestation or revokeBatchAttestations goes on to its next RPC over the same
\* client.
NextRpc(s) ==
  /\ leg[Rpc(s)] \in {"idle", "ok"}
  /\ step[s] < 3
  /\ \E rest \in BOOLEAN :
       /\ CheckBreaker(Rpc(s), rest)
       /\ leg' = [leg EXCEPT ![Rpc(s)] = IF CanProceed(Rpc(s), rest) THEN "running" ELSE "failed"]
  /\ step' = [step EXCEPT ![s] = @ + 1]
  /\ UNCHANGED <<attempt, spent, hedges, hedgeTimer, outcome>>

LegStep(p) == AttemptSucceeds(p) \/ TransientFailure(p) \/ PermanentFailure(p) \/ Wakes(p)

RpcNext ==
  \/ \E p \in Legs : LegStep(p)
  \/ WindowPasses
  \/ \E r \in Reads : BeginRead(r) \/ SkipHedge(r) \/ StartHedge(r)
  \/ \E s \in Submits : NextRpc(s) \/ TryAgainLater(s)

RpcSpec == RpcInit /\ [][RpcNext]_rpcVars

\* Every attempt settles (withSorobanTimeout) and every timer fires; callers owe
\* nothing.
RpcFairness == \A p \in Legs : WF_rpcVars(LegStep(p))

RpcFairSpec == RpcSpec /\ RpcFairness

(***************************************************************************)
(* Properties.                                                             *)
(***************************************************************************)

InFlight(p) == leg[p] \in {"running", "sleeping"}

\* concurrentHedges counts the hedges in flight, also those whose read settled long
\* before: no slot of the cap leaks and none is given back twice.
HedgeSlotsAccounted == hedges = Cardinality({r \in Reads : InFlight(Hedge(r))})

\* A read is answered with an error only when its primary failed and no hedge can
\* answer it any more.
ErrorOnlyWhenNoneLeft ==
  \A r \in Reads : outcome[r] = "error" =>
    leg[Primary(r)] = "failed" /\ leg[Hedge(r)] \in {"idle", "failed"}

\* The breaker never refuses a call: its client is built per submission and per read,
\* and the caller ends with the first failure that could open it.  This is why the
\* degraded mode of submitOnChain is never entered.
NoCallRefused == refused = {}

BothFailed(r) == leg[Primary(r)] = "failed" /\ leg[Hedge(r)] = "failed"

\* Every read settles unless both of its requests fail, through retries, an exhausted
\* budget and the cap on hedges.
ReadSettlesUnlessBothFail ==
  \A r \in Reads : InFlight(Primary(r)) ~> (outcome[r] # "none" \/ BothFailed(r))

\* The safety of hedging: the counters keep within their limits, the process-wide cap on
\* hedges neither leaks nor overflows, and errors are right.
HedgingSafe == RpcTypeOK /\ HedgeSlotsAccounted /\ ErrorOnlyWhenNoneLeft

\* What hedging promises: reads settle, rightly, within the cap on hedges.
HedgedReadsHold == []HedgingSafe /\ ReadSettlesUnlessBothFail

\* "If both requests fail, the *primary*'s error is propagated (the hedge error is
\* discarded)": a read whose requests have both failed has settled.
BothFailedPropagates ==
  \A r \in Reads : BothFailed(r) => outcome[r] # "none"
=============================================================================
