---------------------------- MODULE DegradedQueue ----------------------------
(***************************************************************************)
(* The in-memory queue for attestations that met an open circuit breaker   *)
(* (enqueueQueuedAttestation and drainQueuedAttestations of                *)
(* src/services/soroban/submitAttestation.ts) and the job that drains it,  *)
(* src/jobs/sorobanAttestationDrainer.ts.  A drain keeps the index of the  *)
(* item it submits across the await; nothing stops a second drain from     *)
(* starting meanwhile.                                                     *)
(***************************************************************************)
EXTENDS Naturals, Sequences, FiniteSets, SequencesExt

CONSTANTS
    DqKeys,         \* idempotency keys
    Drains,         \* runs of the drainer job
    QueueLimit,     \* SOROBAN_DEGRADED_QUEUE_MAX_ITEMS
    DrainLimit,     \* items a drain takes on
    BackoffCap,     \* the longest backoff, in ticks
    MaxAttempts     \* bound: attempts counted for an item

VARIABLES
    store,          \* queuedAttestationStore: key, attempts, wait until due
    drain,          \* the drains under way
    accepted,       \* keys that have been queued
    settled,        \* keys whose submission succeeded or was refused for good
    overlapped      \* history: two drains ran at once

dqVars == <<store, drain, accepted, settled, overlapped>>

NoDrain == [pc |-> "idle", due |-> <<>>, index |-> 0, key |-> "none"]

DqInit ==
    /\ store = <<>>
    /\ drain = [d \in Drains |-> NoDrain]
    /\ accepted = {} /\ settled = {}
    /\ overlapped = FALSE

Queued == {store[i].key : i \in DOMAIN store}

\* Refused when a copy is queued or the queue is full.
enqueueQueuedAttestation(k) ==
    /\ k \notin accepted
    /\ k \notin Queued
    /\ Len(store) < QueueLimit
    /\ store' = Append(store, [key |-> k, attempts |-> 0, wait |-> 0])
    /\ accepted' = accepted \cup {k}
    /\ UNCHANGED <<drain, settled, overlapped>>

IsDue(item) == item.wait = 0

\* The items that are due, oldest first (the store is in queuing order).
StartDrain(d) ==
    LET due == SelectSeq(store, IsDue) IN
    /\ drain[d].pc = "idle"
    /\ due # <<>>
    /\ drain' = [drain EXCEPT ![d] =
                   [NoDrain EXCEPT !.pc = "pick",
                      !.due = [i \in 1..(IF Len(due) < DrainLimit THEN Len(due) ELSE DrainLimit)
                                 |-> due[i].key]]]
    /\ overlapped' = (overlapped \/ \E e \in Drains : drain[e].pc # "idle")
    /\ UNCHANGED <<store, accepted, settled>>

IndexOf(k) == CHOOSE i \in DOMAIN store : store[i].key = k

\* The next item, if it is still there, is submitted; its index is kept.
Pick(d) ==
    /\ drain[d].pc = "pick"
    /\ IF drain[d].due = <<>>
       THEN drain' = [drain EXCEPT ![d] = NoDrain]
       ELSE LET k == Head(drain[d].due)
                rest == [drain[d] EXCEPT !.due = Tail(@)]
            IN  drain' = [drain EXCEPT ![d] =
                            IF k \in Queued
                            THEN [rest EXCEPT !.pc = "await", !.key = k, !.index = IndexOf(k)]
                            ELSE rest]
    /\ UNCHANGED <<store, accepted, settled, overlapped>>

\* splice(index, 1): past the end it removes nothing.
Spliced(index) == IF index \in DOMAIN store THEN RemoveAt(store, index) ELSE store

Resume(d) == drain' = [drain EXCEPT ![d] = [@ EXCEPT !.pc = "pick", !.index = 0, !.key = "none"]]

KeptAfter_None(error) == FALSE
\* DEDUPED and VALIDATION_ERROR end an item; any other error keeps it.
KeptAfter(error) == error = "other"

SubmitSucceeds(d) ==
    /\ drain[d].pc = "await"
    /\ store' = Spliced(drain[d].index)
    /\ settled' = settled \cup {drain[d].key}
    /\ Resume(d)
    /\ UNCHANGED <<accepted, overlapped>>

\* 5 s doubled with every attempt, at most 60 s.
Backoff(attempts) == IF 2 ^ (attempts - 1) < BackoffCap THEN 2 ^ (attempts - 1) ELSE BackoffCap

\* The item object is updated, whether or not it is still in the store.
SubmitFails(d) ==
    /\ drain[d].pc = "await"
    /\ \E error \in {"final", "other"} :
          LET retried == [i \in DOMAIN store |->
                            IF store[i].key = drain[d].key
                            THEN LET a == IF store[i].attempts < MaxAttempts THEN store[i].attempts + 1 ELSE MaxAttempts
                                 IN  [store[i] EXCEPT !.attempts = a, !.wait = Backoff(a)]
                            ELSE store[i]]
          IN  /\ store' = IF KeptAfter(error) THEN retried
                          ELSE IF drain[d].index \in DOMAIN store THEN RemoveAt(retried, drain[d].index)
                          ELSE retried
              /\ settled' = IF error = "final" THEN settled \cup {drain[d].key} ELSE settled
    /\ Resume(d)
    /\ UNCHANGED <<accepted, overlapped>>

DqTick ==
    /\ \E i \in DOMAIN store : store[i].wait > 0
    /\ store' = [i \in DOMAIN store |-> [store[i] EXCEPT !.wait = IF @ > 0 THEN @ - 1 ELSE 0]]
    /\ UNCHANGED <<drain, accepted, settled, overlapped>>

DqNext ==
    \/ \E k \in DqKeys : enqueueQueuedAttestation(k)
    \/ \E d \in Drains : StartDrain(d) \/ Pick(d) \/ SubmitSucceeds(d) \/ SubmitFails(d)
    \/ DqTick

DqSpec == DqInit /\ [][DqNext]_dqVars

-----------------------------------------------------------------------------

\* An attestation that was answered "queued" stays in the store until its
\* submission has succeeded or been refused for good, unless two drains have
\* run at once: then the index one of them kept may name another item, which
\* is lost (submitAttestation.ts:372-386).
QueuedNotLost ==
    \/ overlapped
    \/ /\ accepted = Queued \cup settled
       /\ Cardinality(Queued) = Len(store)
=============================================================================
