--------------------------- MODULE RazorpayWebhook ---------------------------
(***************************************************************************)
(* The inbound Razorpay webhook: src/src/routes/webhooks-razorpay.ts,      *)
(* src/src/services/webhooks/razorpayHandler.ts with its in-memory         *)
(* idempotency store, src/src/utils/backoff.ts, and the rotation of the    *)
(* webhook secret.                                                         *)
(*                                                                         *)
(* From the signature check to the first attempt of processRazorpayEvent   *)
(* nothing is awaited, so the arrival of a delivery is one step; so is     *)
(* each later attempt, after its backoff sleep.  The processedEvents set   *)
(* of razorpayHandler.ts is never filled and is left out.                  *)
(***************************************************************************)
EXTENDS Integers, TLC

CONSTANTS
  Events,      \* events, by id; a redelivery carries the same body
  Deliveries,  \* deliveries under way at a time
  Secrets,     \* webhook secrets
  NoSecret,    \* RAZORPAY_WEBHOOK_SECRET_NEXT unset
  Damaged,     \* a signature header that fits no secret
  Missing,     \* no signature header
  MaxAge,      \* DEFAULT_MAX_AGE_MS
  FutureSkew,  \* DEFAULT_MAX_FUTURE_SKEW_MS
  TTL,         \* DEFAULT_TTL_MS
  MaxAttempts, \* DEFAULT_BACKOFF_OPTIONS.maxAttempts
  MaxTime      \* bound on the clock

ASSUME WebhookAssumption ==
  /\ MaxAge \in Nat /\ FutureSkew \in Nat /\ TTL \in Nat /\ MaxTime \in Nat
  /\ MaxAttempts \in Nat \ {0, 1}
  /\ NoSecret \notin Secrets /\ Damaged \notin Secrets /\ NoSecret # Damaged
  /\ Missing \notin Secrets \cup {NoSecret, Damaged}
  /\ Secrets # {}

\* The code's 24 hours cover its 5 minutes of age and 5 minutes of skew.
ASSUME TtlCoversWindow == MaxAge + FutureSkew <= TTL

VARIABLES
  now,         \* Date.now()
  createdAt,   \* createdAt[e]: the event's created_at, or Unstamped
  store,       \* store[e]: expiresAt of the idempotency entry, or Absent
  primary,     \* RAZORPAY_WEBHOOK_SECRET
  secondary,   \* RAZORPAY_WEBHOOK_SECRET_NEXT
  signing,     \* the secret Razorpay signs with
  st,          \* st[d]: "idle", "sent", "backoff" or the kind of answer
  ev,          \* ev[d]: the event delivered
  sig,         \* sig[d]: the secret that made its signature
  attempt,     \* attempt[d]: attempts of processRazorpayEvent so far
  handled,     \* history: handled[e], times this process handled e
  lastHandled, \* history: lastHandled[e], when it last did
  everHandled  \* history: events handled by this or an earlier process

vars == <<now, createdAt, store, primary, secondary, signing, st, ev, sig,
          attempt, handled, lastHandled, everHandled>>

Unstamped == -1
Absent == -1

\* 200; 401; 400 without the header or from parseRazorpayEvent; 500 after the last attempt.
Answers == {"ok", "unsigned", "rejected", "failed"}

TypeOK ==
  /\ now \in 0..MaxTime
  /\ createdAt \in [Events -> Nat \cup {Unstamped}]
  /\ store \in [Events -> Nat \cup {Absent}]
  /\ primary \in Secrets /\ secondary \in Secrets \cup {NoSecret}
  /\ signing \in Secrets
  /\ st \in [Deliveries -> {"idle", "sent", "backoff"} \cup Answers]
  /\ ev \in [Deliveries -> Events]
  /\ sig \in [Deliveries -> Secrets \cup {Damaged, Missing}]
  /\ attempt \in [Deliveries -> 0..MaxAttempts]
  /\ handled \in [Events -> Nat]
  /\ lastHandled \in [Events -> Nat]
  /\ everHandled \subseteq Events

Init ==
  /\ now = 0
  /\ createdAt \in [Events -> 0..MaxTime \cup {Unstamped}]
  /\ store = [e \in Events |-> Absent]
  /\ primary \in Secrets /\ secondary = NoSecret /\ signing = primary
  /\ st = [d \in Deliveries |-> "idle"]
  /\ ev \in [Deliveries -> Events]
  /\ sig = [d \in Deliveries |-> Damaged]
  /\ attempt = [d \in Deliveries |-> 0]
  /\ handled = [e \in Events |-> 0]
  /\ lastHandled = [e \in Events |-> 0]
  /\ everHandled = {}

----------------------------------------------------------------------------
(* What the handler computes.                                              *)

\* verifyRazorpaySignatureWithRotation: primary first, then the next secret if set.
Verifies(s) == s = primary \/ (secondary # NoSecret /\ s = secondary)

\* parseRazorpayEvent refuses a created_at too far in the future.
ParseAccepts(e) == createdAt[e] = Unstamped \/ createdAt[e] <= now + FutureSkew

WithinTolerance_NoAge(e) == createdAt[e] = Unstamped \/ createdAt[e] - now <= FutureSkew

\* checkTimestampTolerance.
WithinTolerance(e) ==
  \/ createdAt[e] = Unstamped
  \/ now - createdAt[e] <= MaxAge /\ createdAt[e] - now <= FutureSkew

\* isEventProcessed: an entry past expiresAt counts as absent.
IsEventProcessed(e) == store[e] # Absent /\ store[e] >= now

----------------------------------------------------------------------------
(* One attempt of processRazorpayEvent for delivery d under withBackoff.   *)

\* The event is new: marked in the store, then handled, answered 200.
Handle(d) ==
  LET e == ev[d] IN
  /\ WithinTolerance(e) /\ ~IsEventProcessed(e)
  /\ store' = [store EXCEPT ![e] = now + TTL]
  /\ handled' = [handled EXCEPT ![e] = @ + 1]
  /\ lastHandled' = [lastHandled EXCEPT ![e] = now]
  /\ everHandled' = everHandled \cup {e}
  /\ st' = [st EXCEPT ![d] = "ok"]

\* The event was handled before: answered 200 as a duplicate.
Duplicate(d) ==
  /\ WithinTolerance(ev[d]) /\ IsEventProcessed(ev[d])
  /\ st' = [st EXCEPT ![d] = "ok"]
  /\ UNCHANGED <<store, handled, lastHandled, everHandled>>

\* What marking the event before its timestamp is checked would do.
Throw_MarksFirst(d) ==
  /\ ~WithinTolerance(ev[d])
  /\ store' = [store EXCEPT ![ev[d]] = now + TTL]
  /\ st' = [st EXCEPT ![d] = IF IsEventProcessed(ev[d]) THEN "ok"
                             ELSE IF attempt'[d] < MaxAttempts THEN "backoff" ELSE "failed"]
  /\ UNCHANGED <<handled, lastHandled, everHandled>>

\* The timestamp is out of tolerance: the attempt throws.  After the last one
\* saveDeadLetter fails too (db is a Proxy over an object and cannot be called),
\* which is logged, and the BackoffError is answered 500.
Throw(d) ==
  /\ ~WithinTolerance(ev[d])
  /\ st' = [st EXCEPT ![d] = IF attempt'[d] < MaxAttempts THEN "backoff" ELSE "failed"]
  /\ UNCHANGED <<store, handled, lastHandled, everHandled>>

ProcessRazorpayEvent(d) == Handle(d) \/ Duplicate(d) \/ Throw(d)

----------------------------------------------------------------------------
(* Deliveries.                                                             *)

\* Razorpay sends or resends an event; the header may get lost or damaged
\* on the way.
Send(d, e) ==
  /\ st[d] = "idle"
  /\ st' = [st EXCEPT ![d] = "sent"]
  /\ ev' = [ev EXCEPT ![d] = e]
  /\ \E s \in {signing, Damaged, Missing} : sig' = [sig EXCEPT ![d] = s]
  /\ attempt' = [attempt EXCEPT ![d] = 0]
  /\ UNCHANGED <<now, createdAt, store, primary, secondary, signing,
                 handled, lastHandled, everHandled>>

\* The route: header, signature, parse, first attempt.
Receive(d) ==
  /\ st[d] = "sent"
  /\ \/ /\ sig[d] = Missing
        /\ st' = [st EXCEPT ![d] = "rejected"]
        /\ UNCHANGED <<attempt, store, handled, lastHandled, everHandled>>
     \/ /\ sig[d] # Missing /\ ~Verifies(sig[d])
        /\ st' = [st EXCEPT ![d] = "unsigned"]
        /\ UNCHANGED <<attempt, store, handled, lastHandled, everHandled>>
     \/ /\ Verifies(sig[d]) /\ ~ParseAccepts(ev[d])
        /\ st' = [st EXCEPT ![d] = "rejected"]
        /\ UNCHANGED <<attempt, store, handled, lastHandled, everHandled>>
     \/ /\ Verifies(sig[d]) /\ ParseAccepts(ev[d])
        /\ attempt' = [attempt EXCEPT ![d] = 1]
        /\ ProcessRazorpayEvent(d)
  /\ UNCHANGED <<now, createdAt, primary, secondary, signing, ev, sig>>

\* The backoff sleep of d ends and the event is tried again.
Retry(d) ==
  /\ st[d] = "backoff"
  /\ attempt' = [attempt EXCEPT ![d] = @ + 1]
  /\ ProcessRazorpayEvent(d)
  /\ UNCHANGED <<now, createdAt, primary, secondary, signing, ev, sig>>

\* Razorpay gets the answer of d.
Answered(d) ==
  /\ st[d] \in Answers
  /\ st' = [st EXCEPT ![d] = "idle"]
  /\ UNCHANGED <<now, createdAt, store, primary, secondary, signing, ev, sig,
                 attempt, handled, lastHandled, everHandled>>

----------------------------------------------------------------------------
(* The process, the clock and the rotation of the secret.                  *)

Tick ==
  /\ now < MaxTime
  /\ now' = now + 1
  /\ UNCHANGED <<createdAt, store, primary, secondary, signing, st, ev, sig,
                 attempt, handled, lastHandled, everHandled>>

\* The hourly sweep of the idempotency store.
Sweep ==
  /\ store' = [e \in Events |-> IF store[e] < now THEN Absent ELSE store[e]]
  /\ UNCHANGED <<now, createdAt, primary, secondary, signing, st, ev, sig,
                 attempt, handled, lastHandled, everHandled>>

\* The process restarts: the store is lost, and with it the attempts under way.
Restart ==
  /\ store' = [e \in Events |-> Absent]
  /\ handled' = [e \in Events |-> 0]
  /\ lastHandled' = [e \in Events |-> 0]
  /\ st' = [d \in Deliveries |-> IF st[d] = "backoff" THEN "idle" ELSE st[d]]
  /\ UNCHANGED <<now, createdAt, primary, secondary, signing, ev, sig,
                 attempt, everHandled>>

\* Rotation, steps 1 and 2: the new secret is loaded as the next one, by SIGHUP or by
\* a deploy (this step and Restart).
StageNext ==
  /\ secondary = NoSecret
  /\ secondary' \in Secrets \ {primary}
  /\ UNCHANGED <<now, createdAt, store, primary, signing, st, ev, sig,
                 attempt, handled, lastHandled, everHandled>>

\* Razorpay starts to sign with the new secret.
ProviderSwitches ==
  /\ secondary # NoSecret
  /\ signing' = secondary
  /\ UNCHANGED <<now, createdAt, store, primary, secondary, st, ev, sig,
                 attempt, handled, lastHandled, everHandled>>

\* Rotation, step 3: once Razorpay has fully switched the new secret is promoted.
Promote ==
  /\ secondary # NoSecret /\ signing = secondary
  /\ \A d \in Deliveries : st[d] = "sent" => sig[d] # primary
  /\ primary' = secondary
  /\ secondary' = NoSecret
  /\ UNCHANGED <<now, createdAt, store, signing, st, ev, sig,
                 attempt, handled, lastHandled, everHandled>>

Next ==
  \/ \E d \in Deliveries :
       (\E e \in Events : Send(d, e)) \/ Receive(d) \/ Retry(d) \/ Answered(d)
  \/ Tick \/ Sweep \/ Restart \/ StageNext \/ ProviderSwitches \/ Promote

Spec == Init /\ [][Next]_vars

----------------------------------------------------------------------------
(* Properties.                                                             *)

\* One process handles an event a second time only if the event has no
\* timestamp, and then more than TTL after the time before: for a stamped
\* event the tolerance window closes before its idempotency entry expires,
\* whatever the sweep, redeliveries and backoff retries do.
HandledOncePerWindow ==
  [][\A e \in Events :
       handled[e] > 0 /\ handled'[e] > handled[e] =>
         createdAt[e] = Unstamped /\ now > lastHandled[e] + TTL]_vars

\* An answer 200, duplicate or not, means that the event has been handled: no
\* attempt leaves an entry in the store without handling the event.
OkMeansHandled ==
  \A d \in Deliveries : st[d] = "ok" => ev[d] \in everHandled

\* A retry never rescues a delivery: an attempt throws only for an event that
\* is too old, which no later attempt makes younger, so every delivery that
\* enters the backoff loop ends in a 500 (or in the restart of the process).
RetriesNeverRescue ==
  [][\A d \in Deliveries :
       st[d] = "backoff" => st'[d] \in {"backoff", "failed", "idle"}]_vars

\* Rotation loses nothing: at every point of the documented rotation a delivery
\* that Razorpay signed passes the signature check when it arrives.
RotationAcceptsSigned ==
  \A d \in Deliveries : st[d] = "unsigned" => sig[d] = Damaged

\* Both: what an answer of the route tells Razorpay, 200 or 401, is true.
AnswersTrue == OkMeansHandled /\ RotationAcceptsSigned

\* For TLC: the specification treats the members of each of these sets alike.
Symmetry == Permutations(Events) \cup Permutations(Deliveries) \cup Permutations(Secrets)
=============================================================================
