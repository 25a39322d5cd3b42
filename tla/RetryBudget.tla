----------------------------- MODULE RetryBudget -----------------------------
(***************************************************************************)
(* The outbound retries: executeWithRetry of clientWrapper.ts, around every *)
(* provider call of module Integrations, and the global budget it asks,     *)
(* services/integrations/retryBudget.ts.                                    *)
(*                                                                          *)
(* The attempts of the last window are kept in a Redis sorted set, or, when *)
(* Redis fails, in a list of the process.  Asking (canRetry), asking again  *)
(* (inside recordRetry) and recording are separate round trips; each one is *)
(* an action.  An attempt is the pair of its age in ticks and a number that *)
(* tells it from the others of its age.                                     *)
(***************************************************************************)
EXTENDS Integers, FiniteSets

CONSTANTS Callers,
          CallRetries,   \* maxRetries of one call
          BudgetMax, BudgetWindow,   \* maxRetries, windowMs in ticks
          MaxFaultsRb    \* bound: Redis operations that fail

ASSUME BudgetAssumption ==
    /\ CallRetries \in Nat /\ BudgetMax \in Nat
    /\ BudgetWindow \in Nat \ {0} /\ MaxFaultsRb \in Nat
    /\ IsFiniteSet(Callers) /\ Callers # {}

VARIABLES attempts,      \* the sorted set retry-budget:global
          localAttempts, \* the list of the process
          job,           \* caller -> where executeWithRetry is
          faultsRb

rbVars == <<attempts, localAttempts, job, faultsRb>>

RbInit ==
    /\ attempts = {} /\ localAttempts = {}
    /\ job = [c \in Callers |-> [at |-> "calling", attempt |-> 0]]
    /\ faultsRb = 0

Kept(log, max) == {a \in log : a[1] <= max}

(* A new attempt: the member of a sorted set ends in a random suffix. *)
Stamped(log) == log \cup {<<0, CHOOSE k \in 0..Cardinality(log) : <<0, k>> \notin log>>}

(* getRetryCount prunes the store it reads: the sorted set drops scores up to
   the cutoff, localPrune only those before it. *)
RedisCount == Cardinality(Kept(attempts, BudgetWindow - 1))
LocalCount == Cardinality(Kept(localAttempts, BudgetWindow))

At(c, place) == job[c].at = place
Goto(c, place) == job' = [job EXCEPT ![c].at = place]

(* Mutant: one retry more than the budget. *)
Allowed_Inclusive(count) == count <= BudgetMax

(* canRetry's comparison. *)
Allowed(count) == count < BudgetMax

(* One reading of the count, then `yes` or `no` is where the caller goes on. *)
AskBudget(c, yes, no) ==
    \/ /\ attempts' = Kept(attempts, BudgetWindow - 1)
       /\ Goto(c, IF Allowed(RedisCount) THEN yes ELSE no)
       /\ UNCHANGED <<localAttempts, faultsRb>>
    \/ /\ faultsRb < MaxFaultsRb
       /\ faultsRb' = faultsRb + 1
       /\ localAttempts' = Kept(localAttempts, BudgetWindow)
       /\ Goto(c, IF Allowed(LocalCount) THEN yes ELSE no)
       /\ UNCHANGED attempts

(* fn() settles.  DEFAULT_SHOULD_RETRY: an error, a 5xx or a 429; the last
   attempt's outcome is returned as it is. *)
CallSettles(c, ok) ==
    /\ At(c, "calling")
    /\ Goto(c, IF ok \/ job[c].attempt >= CallRetries THEN "done" ELSE "ask")
    /\ UNCHANGED <<attempts, localAttempts, faultsRb>>

(* executeWithRetry asks; refused, it still calls recordRetry and then throws. *)
Ask(c) == At(c, "ask") /\ AskBudget(c, "askAgain", "refused")

(* recordRetry asks again; refused here, it throws. *)
AskAgain(c) == At(c, "askAgain") /\ AskBudget(c, "record", "done")
Refused(c)  == At(c, "refused") /\ AskBudget(c, "recordOnly", "done")

(* zadd and pexpire.  A failure of either is caught and the attempt goes to
   the local list, after a zadd that may have worked. *)
Record(c) ==
    /\ job[c].at \in {"record", "recordOnly"}
    /\ \/ attempts' = Stamped(attempts) /\ UNCHANGED <<localAttempts, faultsRb>>
       \/ /\ faultsRb < MaxFaultsRb
          /\ faultsRb' = faultsRb + 1
          /\ localAttempts' = Stamped(Kept(localAttempts, BudgetWindow))
          /\ attempts' \in {attempts, Stamped(attempts)}
    /\ job' = [job EXCEPT ![c] = IF @.at = "record"
                                 THEN [at |-> "backoff", attempt |-> @.attempt + 1]
                                 ELSE [@ EXCEPT !.at = "done"]]

(* The delay is over and fn() runs again. *)
Backoff(c) == At(c, "backoff") /\ Goto(c, "calling") /\ UNCHANGED <<attempts, localAttempts, faultsRb>>

(* The next request of this client, with its own executeWithRetry. *)
NextCall(c) ==
    /\ At(c, "done")
    /\ job' = [job EXCEPT ![c] = [at |-> "calling", attempt |-> 0]]
    /\ UNCHANGED <<attempts, localAttempts, faultsRb>>

Older(log) == {<<a[1] + 1, a[2]>> : a \in log}

RbTick ==
    /\ attempts # {} \/ localAttempts # {}
    /\ attempts' = Kept(Older(attempts), BudgetWindow)
    /\ localAttempts' = Kept(Older(localAttempts), BudgetWindow + 1)
    /\ UNCHANGED <<job, faultsRb>>

RbNext ==
    \/ \E c \in Callers :
          \/ \E ok \in BOOLEAN : CallSettles(c, ok)
          \/ Ask(c) \/ AskAgain(c) \/ Refused(c) \/ Record(c) \/ Backoff(c) \/ NextCall(c)
    \/ RbTick

RbSpec == RbInit /\ [][RbNext]_rbVars

-----------------------------------------------------------------------------
(* What the race between asking and recording can cost: within one window the
   sorted set holds at most the budget and one attempt for every other caller
   that asked at the same time, and one for every answer the local list gave
   because Redis failed. *)
OvershootBounded ==
    RedisCount <= BudgetMax + (Cardinality(Callers) - 1) + faultsRb
=============================================================================
