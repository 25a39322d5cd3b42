------------------------- MODULE IntegrationsProofs -------------------------
(***************************************************************************)
(* Proofs about the connections to other systems: the webhooks Razorpay    *)
(* delivers, the connections to Shopify, Stripe and Razorpay, the webhooks *)
(* sent to subscribers, and the budget that the calls to providers share.  *)
(*                                                                         *)
(* Each component is proved from its own specification, for every value of *)
(* its constants: sets of events, deliveries, secrets, businesses, shops   *)
(* and requests in flight, and every window that the idempotency TTL       *)
(* covers.                                                                 *)
(***************************************************************************)
EXTENDS RazorpayWebhook, Integrations, OutboundWebhooks, RetryBudget, FiniteSetTheorems, TLAPS

(***************************************************************************)
(* Types.                                                                  *)
(***************************************************************************)

\* A delivery in its backoff sleep has an attempt left.
BackoffLeft == \A d \in Deliveries : st[d] = "backoff" => attempt[d] < MaxAttempts

\* One attempt keeps the types, given a legal attempt number.
LEMMA ProcessTypes ==
  ASSUME TypeOK, NEW d \in Deliveries, attempt' \in [Deliveries -> 0..MaxAttempts],
         ProcessRazorpayEvent(d)
  PROVE  /\ store' \in [Events -> Nat \cup {Absent}]
         /\ st' \in [Deliveries -> {"idle", "sent", "backoff"} \cup Answers]
         /\ handled' \in [Events -> Nat]
         /\ lastHandled' \in [Events -> Nat]
         /\ everHandled' \subseteq Events
         /\ \A x \in Deliveries : x # d => st'[x] = st[x]
         /\ st'[d] = "backoff" => attempt'[d] < MaxAttempts
  <1>1. CASE Handle(d)
    BY <1>1, WebhookAssumption DEF Handle, TypeOK, Answers
  <1>2. CASE Duplicate(d)
    BY <1>2 DEF Duplicate, TypeOK, Answers
  <1>3. CASE Throw(d)
    <2>1. st' = [st EXCEPT ![d] = IF attempt'[d] < MaxAttempts THEN "backoff" ELSE "failed"]
      BY <1>3 DEF Throw
    <2>2. UNCHANGED <<store, handled, lastHandled, everHandled>>
      BY <1>3 DEF Throw
    <2> QED BY <2>1, <2>2 DEF TypeOK, Answers
  <1> QED BY <1>1, <1>2, <1>3 DEF ProcessRazorpayEvent

\* Init establishes the types.
LEMMA TypesInit == Init => TypeOK /\ BackoffLeft
  BY WebhookAssumption DEF Init, TypeOK, BackoffLeft, Answers, Unstamped, Absent

\* Every step keeps the types.
LEMMA TypesStep ==
  ASSUME TypeOK, BackoffLeft, [Next]_vars
  PROVE  TypeOK' /\ BackoffLeft'
  <1>1. ASSUME NEW d \in Deliveries, NEW e \in Events, Send(d, e)
        PROVE  TypeOK' /\ BackoffLeft'
    <2>1. sig' \in [Deliveries -> Secrets \cup {Damaged, Missing}]
      BY <1>1 DEF Send, TypeOK
    <2>2. attempt' \in [Deliveries -> 0..MaxAttempts]
      BY <1>1, WebhookAssumption DEF Send, TypeOK
    <2> QED BY <1>1, <2>1, <2>2 DEF Send, TypeOK, BackoffLeft
  <1>2. ASSUME NEW d \in Deliveries, Receive(d)
        PROVE  TypeOK' /\ BackoffLeft'
    <2>1. CASE UNCHANGED <<attempt, store, handled, lastHandled, everHandled>>
               /\ (\E a \in {"unsigned", "rejected"} : st' = [st EXCEPT ![d] = a])
      BY <1>2, <2>1 DEF Receive, TypeOK, BackoffLeft, Answers
    <2>2. CASE attempt' = [attempt EXCEPT ![d] = 1] /\ ProcessRazorpayEvent(d)
      <3>1. attempt' \in [Deliveries -> 0..MaxAttempts]
        BY <2>2, WebhookAssumption DEF TypeOK
      <3> QED BY <1>2, <2>2, <3>1, ProcessTypes DEF Receive, TypeOK, BackoffLeft
    <2> QED BY <1>2, <2>1, <2>2 DEF Receive
  <1>3. ASSUME NEW d \in Deliveries, Retry(d)
        PROVE  TypeOK' /\ BackoffLeft'
    <2>1. attempt' \in [Deliveries -> 0..MaxAttempts]
      BY <1>3, WebhookAssumption DEF Retry, TypeOK, BackoffLeft
    <2> QED BY <1>3, <2>1, ProcessTypes DEF Retry, TypeOK, BackoffLeft
  <1>4. ASSUME NEW d \in Deliveries, Answered(d)
        PROVE  TypeOK' /\ BackoffLeft'
    BY <1>4 DEF Answered, TypeOK, BackoffLeft
  <1>5. CASE Tick
    BY <1>5, WebhookAssumption DEF Tick, TypeOK, BackoffLeft
  <1>6. CASE Sweep
    BY <1>6 DEF Sweep, TypeOK, BackoffLeft
  <1>7. CASE Restart
    BY <1>7 DEF Restart, TypeOK, BackoffLeft, Absent
  <1>8. CASE StageNext \/ ProviderSwitches \/ Promote
    BY <1>8 DEF StageNext, ProviderSwitches, Promote, TypeOK, BackoffLeft
  <1>9. CASE UNCHANGED vars
    BY <1>9 DEF vars, TypeOK, BackoffLeft
  <1> QED BY <1>1, <1>2, <1>3, <1>4, <1>5, <1>6, <1>7, <1>8, <1>9 DEF Next

\* Every variable keeps its type; withBackoff makes at most MaxAttempts attempts.
THEOREM WebhookTypes == Spec => []TypeOK
  <1>1. Spec => [](TypeOK /\ BackoffLeft)
    BY TypesInit, TypesStep, PTL DEF Spec
  <1> QED BY <1>1, PTL

(***************************************************************************)
(* At most one handling per window.                                        *)
(***************************************************************************)

\* While an event that this process handled can still be within tolerance, its
\* entry is in the store; a stamped event was handled no earlier than its skew allows.
Remembered ==
  \A e \in Events : handled[e] > 0 =>
    /\ lastHandled[e] <= now
    /\ store[e] = lastHandled[e] + TTL \/ now > lastHandled[e] + TTL
    /\ createdAt[e] # Unstamped => createdAt[e] <= lastHandled[e] + FutureSkew

\* An attempt keeps Remembered.
LEMMA ProcessRemembers ==
  ASSUME TypeOK, Remembered, NEW d \in Deliveries, ProcessRazorpayEvent(d),
         UNCHANGED <<now, createdAt>>
  PROVE  Remembered'
  <1>1. CASE Handle(d)
    <2> SUFFICES ASSUME NEW e \in Events, handled'[e] > 0
                 PROVE  /\ lastHandled'[e] <= now
                        /\ store'[e] = lastHandled'[e] + TTL \/ now > lastHandled'[e] + TTL
                        /\ createdAt[e] # Unstamped => createdAt[e] <= lastHandled'[e] + FutureSkew
      BY DEF Remembered
    <2>1. CASE e = ev[d]
      <3>1. store'[e] = now + TTL /\ lastHandled'[e] = now
        BY <1>1, <2>1 DEF Handle, TypeOK
      <3>2. createdAt[e] # Unstamped => createdAt[e] <= now + FutureSkew
        BY <1>1, <2>1, WebhookAssumption DEF Handle, TypeOK, WithinTolerance
      <3> QED BY <3>1, <3>2 DEF TypeOK
    <2>2. CASE e # ev[d]
      <3>1. store'[e] = store[e] /\ lastHandled'[e] = lastHandled[e] /\ handled'[e] = handled[e]
        BY <1>1, <2>2 DEF Handle, TypeOK
      <3> QED BY <3>1 DEF Remembered
    <2> QED BY <2>1, <2>2
  <1>2. CASE Duplicate(d) \/ Throw(d)
    BY <1>2 DEF Duplicate, Throw, Remembered
  <1> QED BY <1>1, <1>2 DEF ProcessRazorpayEvent

\* Every step keeps Remembered; a restart forgets the entry and the handling together.
LEMMA RememberedStep ==
  ASSUME TypeOK, Remembered, [Next]_vars
  PROVE  Remembered'
  <1>1. ASSUME NEW d \in Deliveries, Receive(d)
        PROVE  Remembered'
    BY <1>1, ProcessRemembers DEF Receive, Remembered
  <1>2. ASSUME NEW d \in Deliveries, Retry(d)
        PROVE  Remembered'
    BY <1>2, ProcessRemembers DEF Retry, Remembered
  <1>3. CASE Tick
    BY <1>3, WebhookAssumption DEF Tick, Remembered, TypeOK
  <1>4. CASE Sweep
    <2> SUFFICES ASSUME NEW e \in Events, handled[e] > 0
                 PROVE  store'[e] = lastHandled[e] + TTL \/ now > lastHandled[e] + TTL
      BY <1>4 DEF Sweep, Remembered
    <2> QED BY <1>4, WebhookAssumption DEF Sweep, Remembered, TypeOK
  <1>5. CASE Restart
    BY <1>5 DEF Restart, Remembered
  <1>6. CASE \/ \E d \in Deliveries : (\E e \in Events : Send(d, e)) \/ Answered(d)
             \/ StageNext \/ ProviderSwitches \/ Promote \/ UNCHANGED vars
    BY <1>6 DEF Send, Answered, StageNext, ProviderSwitches, Promote, vars, Remembered
  <1> QED BY <1>1, <1>2, <1>3, <1>4, <1>5, <1>6 DEF Next

\* An event is handled again only without a timestamp and more than TTL later.
LEMMA HandledAgain ==
  ASSUME TypeOK, Remembered, NEW d \in Deliveries, Handle(d),
         NEW e \in Events, handled[e] > 0, handled'[e] > handled[e]
  PROVE  createdAt[e] = Unstamped /\ now > lastHandled[e] + TTL
  <1>1. e = ev[d]
    BY DEF Handle, TypeOK
  <1>2. now > lastHandled[e] + TTL
    BY <1>1, WebhookAssumption DEF Handle, IsEventProcessed, Remembered, TypeOK, Absent
  <1>3. createdAt[e] = Unstamped
    BY <1>1, <1>2, WebhookAssumption, TtlCoversWindow DEF Handle, WithinTolerance, Remembered, TypeOK
  <1> QED BY <1>2, <1>3

\* One process handles a stamped event at most once, and any event at most once
\* per TTL: the idempotency entry outlives the tolerance window.
THEOREM HandledOnce == Spec => HandledOncePerWindow
  <1>1. Init => Remembered
    BY DEF Init, Remembered
  <1>2. ASSUME TypeOK, Remembered, [Next]_vars
        PROVE  [\A e \in Events :
                  handled[e] > 0 /\ handled'[e] > handled[e] =>
                    createdAt[e] = Unstamped /\ now > lastHandled[e] + TTL]_vars
    <2> SUFFICES ASSUME NEW e \in Events, handled[e] > 0, handled'[e] > handled[e]
                 PROVE  \E d \in Deliveries : Handle(d)
      BY <1>2, HandledAgain
    <2>1. CASE \E d \in Deliveries : ProcessRazorpayEvent(d)
      BY <1>2, <2>1 DEF ProcessRazorpayEvent, Duplicate, Throw, TypeOK
    <2>2. CASE ~\E d \in Deliveries : ProcessRazorpayEvent(d)
      <3>1. handled' = handled \/ Restart
        BY <1>2, <2>2 DEF Next, Send, Receive, Retry, Answered, Tick, Sweep,
                          StageNext, ProviderSwitches, Promote, vars
      <3> QED BY <3>1, <1>2 DEF Restart, TypeOK
    <2> QED BY <2>1, <2>2
  <1> QED BY <1>1, <1>2, RememberedStep, WebhookTypes, PTL DEF Spec, HandledOncePerWindow

(***************************************************************************)
(* Retries.                                                                *)
(***************************************************************************)

\* A delivery in its backoff sleep carries an event that is too old.
BackoffStale ==
  \A d \in Deliveries : st[d] = "backoff" =>
    createdAt[ev[d]] # Unstamped /\ now - createdAt[ev[d]] > MaxAge

\* An attempt for an event that is too old throws.
LEMMA StaleThrows ==
  ASSUME TypeOK, NEW d \in Deliveries, createdAt[ev[d]] # Unstamped,
         now - createdAt[ev[d]] > MaxAge, ProcessRazorpayEvent(d)
  PROVE  Throw(d)
  BY WebhookAssumption DEF TypeOK, WithinTolerance, ProcessRazorpayEvent, Handle, Duplicate

\* An attempt throws for a parsed event only if the event is too old.
LEMMA ThrowsStale ==
  ASSUME TypeOK, NEW d \in Deliveries, ParseAccepts(ev[d]), Throw(d)
  PROVE  createdAt[ev[d]] # Unstamped /\ now - createdAt[ev[d]] > MaxAge
  BY WebhookAssumption DEF TypeOK, WithinTolerance, ParseAccepts, Throw

\* An attempt of d leaves the other deliveries where they are.
LEMMA OneDelivery ==
  ASSUME TypeOK, NEW d \in Deliveries, ProcessRazorpayEvent(d),
         NEW x \in Deliveries, x # d
  PROVE  st'[x] = st[x]
  BY DEF TypeOK, ProcessRazorpayEvent, Handle, Duplicate, Throw

\* Every step keeps BackoffStale: time only makes an event older.
LEMMA BackoffStaleStep ==
  ASSUME TypeOK, BackoffStale, [Next]_vars
  PROVE  BackoffStale'
  <1>1. ASSUME NEW d \in Deliveries, NEW e \in Events, Send(d, e)
        PROVE  BackoffStale'
    BY <1>1 DEF Send, TypeOK, BackoffStale
  <1>2. ASSUME NEW d \in Deliveries, Receive(d)
        PROVE  BackoffStale'
    <2>1. UNCHANGED <<now, createdAt, ev>>
      BY <1>2 DEF Receive
    <2>2. CASE \E a \in {"unsigned", "rejected"} : st' = [st EXCEPT ![d] = a]
      BY <2>1, <2>2 DEF TypeOK, BackoffStale
    <2>3. CASE ParseAccepts(ev[d]) /\ ProcessRazorpayEvent(d)
      <3>1. CASE Throw(d)
        BY <2>1, <2>3, <3>1, ThrowsStale, OneDelivery DEF BackoffStale
      <3>2. CASE st' = [st EXCEPT ![d] = "ok"]
        BY <2>1, <3>2 DEF TypeOK, BackoffStale
      <3> QED BY <2>3, <3>1, <3>2 DEF ProcessRazorpayEvent, Handle, Duplicate
    <2> QED BY <1>2, <2>2, <2>3 DEF Receive
  <1>3. ASSUME NEW d \in Deliveries, Retry(d)
        PROVE  BackoffStale'
    <2>1. UNCHANGED <<now, createdAt, ev>> /\ st[d] = "backoff" /\ ProcessRazorpayEvent(d)
      BY <1>3 DEF Retry
    <2> QED BY <2>1, OneDelivery DEF BackoffStale
  <1>4. ASSUME NEW d \in Deliveries, Answered(d)
        PROVE  BackoffStale'
    BY <1>4 DEF Answered, TypeOK, BackoffStale
  <1>5. CASE Tick
    BY <1>5, WebhookAssumption DEF Tick, TypeOK, BackoffStale
  <1>6. CASE Restart
    BY <1>6 DEF Restart, BackoffStale
  <1>7. CASE Sweep \/ StageNext \/ ProviderSwitches \/ Promote \/ UNCHANGED vars
    BY <1>7 DEF Sweep, StageNext, ProviderSwitches, Promote, vars, BackoffStale
  <1> QED BY <1>1, <1>2, <1>3, <1>4, <1>5, <1>6, <1>7 DEF Next

\* No delivery that enters the backoff loop is ever answered 200.
THEOREM RetriesAreFutile == Spec => RetriesNeverRescue
  <1>1. Init => BackoffStale
    BY DEF Init, BackoffStale
  <1>2. ASSUME TypeOK, BackoffStale, [Next]_vars
        PROVE  [\A d \in Deliveries :
                  st[d] = "backoff" => st'[d] \in {"backoff", "failed", "idle"}]_vars
    <2> SUFFICES ASSUME NEW d \in Deliveries, st[d] = "backoff"
                 PROVE  st'[d] \in {"backoff", "failed", "idle"}
      OBVIOUS
    <2>1. ASSUME NEW x \in Deliveries, ProcessRazorpayEvent(x)
          PROVE  st'[d] \in {"backoff", "failed", "idle"}
      <3>1. CASE x = d
        <4>1. Throw(d)
          BY <1>2, <2>1, <3>1, StaleThrows DEF BackoffStale
        <4>2. st'[d] = IF attempt'[d] < MaxAttempts THEN "backoff" ELSE "failed"
          BY <1>2, <4>1 DEF Throw, TypeOK
        <4> QED BY <4>2
      <3>2. CASE x # d
        BY <1>2, <2>1, <3>2, OneDelivery
      <3> QED BY <3>1, <3>2
    <2>2. ASSUME NEW x \in Deliveries, st[x] # "backoff",
                 NEW a, st' = [st EXCEPT ![x] = a]
          PROVE  st'[d] = "backoff"
      BY <1>2, <2>2 DEF TypeOK
    <2>3. ASSUME NEW x \in Deliveries,
                 (\E e \in Events : Send(x, e)) \/ Receive(x) \/ Retry(x) \/ Answered(x)
          PROVE  st'[d] \in {"backoff", "failed", "idle"}
      <3>1. CASE ProcessRazorpayEvent(x)
        BY <2>1, <3>1
      <3>2. CASE ~ProcessRazorpayEvent(x)
        BY <2>2, <2>3, <3>2 DEF Send, Receive, Retry, Answered, Answers
      <3> QED BY <3>1, <3>2
    <2>4. CASE Restart
      BY <2>4 DEF Restart
    <2>5. CASE Tick \/ Sweep \/ StageNext \/ ProviderSwitches \/ Promote \/ UNCHANGED vars
      BY <2>5 DEF Tick, Sweep, StageNext, ProviderSwitches, Promote, vars
    <2> QED BY <1>2, <2>3, <2>4, <2>5 DEF Next
  <1> QED BY <1>1, <1>2, BackoffStaleStep, WebhookTypes, PTL DEF Spec, RetriesNeverRescue

(***************************************************************************)
(* Answers.                                                                *)
(***************************************************************************)

\* An entry in the store stands for an event that was handled, and so does a 200.
StoreMeansHandled ==
  /\ \A e \in Events : store[e] # Absent => e \in everHandled
  /\ OkMeansHandled

\* A 200 means that the event was handled, by this process or an earlier one.
THEOREM AnswersHold == Spec => []OkMeansHandled
  <1>1. Init => StoreMeansHandled
    BY DEF Init, StoreMeansHandled, OkMeansHandled
  <1>2. ASSUME TypeOK, StoreMeansHandled, [Next]_vars
        PROVE  StoreMeansHandled'
    <2>1. ASSUME NEW d \in Deliveries, ProcessRazorpayEvent(d), ev' = ev
          PROVE  StoreMeansHandled'
      <3>1. CASE Handle(d)
        BY <1>2, <2>1, <3>1 DEF Handle, TypeOK, StoreMeansHandled, OkMeansHandled
      <3>2. CASE Duplicate(d)
        BY <1>2, <2>1, <3>2 DEF Duplicate, IsEventProcessed, TypeOK, StoreMeansHandled, OkMeansHandled
      <3>3. CASE Throw(d)
        <4>1. st'[d] # "ok" /\ \A x \in Deliveries : x # d => st'[x] = st[x]
          BY <1>2, <3>3 DEF Throw, TypeOK
        <4> QED BY <1>2, <2>1, <3>3, <4>1 DEF Throw, StoreMeansHandled, OkMeansHandled
      <3> QED BY <2>1, <3>1, <3>2, <3>3 DEF ProcessRazorpayEvent
    <2>2. ASSUME NEW d \in Deliveries, NEW e \in Events, Send(d, e)
          PROVE  StoreMeansHandled'
      BY <1>2, <2>2 DEF Send, TypeOK, StoreMeansHandled, OkMeansHandled
    <2>3. ASSUME NEW d \in Deliveries, Receive(d)
          PROVE  StoreMeansHandled'
      <3>1. CASE ProcessRazorpayEvent(d)
        BY <2>1, <2>3, <3>1 DEF Receive
      <3>2. CASE ~ProcessRazorpayEvent(d)
        BY <1>2, <2>3, <3>2 DEF Receive, TypeOK, StoreMeansHandled, OkMeansHandled
      <3> QED BY <3>1, <3>2
    <2>4. ASSUME NEW d \in Deliveries, Retry(d)
          PROVE  StoreMeansHandled'
      BY <2>1, <2>4 DEF Retry
    <2>5. ASSUME NEW d \in Deliveries, Answered(d)
          PROVE  StoreMeansHandled'
      BY <1>2, <2>5 DEF Answered, TypeOK, StoreMeansHandled, OkMeansHandled
    <2>6. CASE Sweep
      BY <1>2, <2>6 DEF Sweep, TypeOK, StoreMeansHandled, OkMeansHandled
    <2>7. CASE Restart
      BY <1>2, <2>7 DEF Restart, TypeOK, StoreMeansHandled, OkMeansHandled
    <2>8. CASE Tick \/ StageNext \/ ProviderSwitches \/ Promote \/ UNCHANGED vars
      BY <1>2, <2>8 DEF Tick, StageNext, ProviderSwitches, Promote, vars,
                        StoreMeansHandled, OkMeansHandled
    <2> QED BY <1>2, <2>2, <2>3, <2>4, <2>5, <2>6, <2>7, <2>8 DEF Next
  <1>3. StoreMeansHandled => OkMeansHandled
    BY DEF StoreMeansHandled
  <1> QED BY <1>1, <1>2, <1>3, WebhookTypes, PTL DEF Spec

(***************************************************************************)
(* Rotation.                                                               *)
(***************************************************************************)

\* Razorpay signs with a secret the process knows, and so was every delivery
\* that is still on its way.
SignedWithKnown ==
  /\ signing \in {primary, secondary}
  /\ \A d \in Deliveries : st[d] = "sent" => sig[d] \in {primary, secondary, Damaged, Missing}
  /\ RotationAcceptsSigned

\* No delivery that Razorpay signed is refused for its signature during a rotation.
THEOREM RotationIsSafe == Spec => []RotationAcceptsSigned
  <1>1. Init => SignedWithKnown
    BY DEF Init, SignedWithKnown, RotationAcceptsSigned
  <1>2. ASSUME TypeOK, SignedWithKnown, [Next]_vars
        PROVE  SignedWithKnown'
    <2>1. ASSUME NEW d \in Deliveries, NEW e \in Events, Send(d, e)
          PROVE  SignedWithKnown'
      <3>1. PICK s \in {signing, Damaged, Missing} : sig' = [sig EXCEPT ![d] = s]
        BY <2>1 DEF Send
      <3> QED BY <1>2, <2>1, <3>1 DEF Send, TypeOK, SignedWithKnown, RotationAcceptsSigned
    <2>2. ASSUME NEW d \in Deliveries, NEW a, st' = [st EXCEPT ![d] = a], a # "sent",
                 a = "unsigned" => sig[d] = Damaged,
                 UNCHANGED <<primary, secondary, signing, sig>>
          PROVE  SignedWithKnown'
      BY <1>2, <2>2 DEF TypeOK, SignedWithKnown, RotationAcceptsSigned
    <2>3. ASSUME NEW d \in Deliveries, ProcessRazorpayEvent(d),
                 UNCHANGED <<primary, secondary, signing, sig>>
          PROVE  SignedWithKnown'
      <3>1. \E a \in {"ok", "backoff", "failed"} : st' = [st EXCEPT ![d] = a]
        BY <2>3 DEF ProcessRazorpayEvent, Handle, Duplicate, Throw
      <3> QED BY <2>2, <2>3, <3>1
    <2>4. ASSUME NEW d \in Deliveries, Receive(d)
          PROVE  SignedWithKnown'
      <3>1. CASE ProcessRazorpayEvent(d)
        BY <2>3, <2>4, <3>1 DEF Receive
      <3>2. CASE sig[d] # Missing /\ ~Verifies(sig[d]) /\ st' = [st EXCEPT ![d] = "unsigned"]
        <4>1. sig[d] = Damaged
          BY <1>2, <2>4, <3>2, WebhookAssumption DEF Receive, Verifies, TypeOK, SignedWithKnown
        <4> QED BY <2>2, <2>4, <3>2, <4>1 DEF Receive
      <3>3. CASE st' = [st EXCEPT ![d] = "rejected"]
        BY <2>2, <2>4, <3>3 DEF Receive
      <3> QED BY <2>4, <3>1, <3>2, <3>3 DEF Receive
    <2>5. ASSUME NEW d \in Deliveries, Retry(d)
          PROVE  SignedWithKnown'
      BY <2>3, <2>5 DEF Retry
    <2>6. ASSUME NEW d \in Deliveries, Answered(d)
          PROVE  SignedWithKnown'
      BY <2>2, <2>6 DEF Answered
    <2>7. CASE Restart
      BY <1>2, <2>7 DEF Restart, TypeOK, SignedWithKnown, RotationAcceptsSigned
    <2>8. CASE StageNext \/ ProviderSwitches \/ Promote
      BY <1>2, <2>8, WebhookAssumption
         DEF StageNext, ProviderSwitches, Promote, TypeOK, SignedWithKnown, RotationAcceptsSigned
    <2>9. CASE Tick \/ Sweep \/ UNCHANGED vars
      BY <1>2, <2>9 DEF Tick, Sweep, vars, SignedWithKnown, RotationAcceptsSigned
    <2> QED BY <1>2, <2>1, <2>4, <2>5, <2>6, <2>7, <2>8, <2>9 DEF Next
  <1>3. SignedWithKnown => RotationAcceptsSigned
    BY DEF SignedWithKnown
  <1> QED BY <1>1, <1>2, <1>3, WebhookTypes, PTL DEF Spec

\* What the run checks of the answers, on every behaviour: a 200 means handled, and
\* a signature Razorpay made is accepted through the whole rotation.
THEOREM AnswersAreTrue == Spec => []AnswersTrue
<1>1. OkMeansHandled /\ RotationAcceptsSigned => AnswersTrue
  BY DEF AnswersTrue
<1> QED BY <1>1, AnswersHold, RotationIsSafe, PTL

-----------------------------------------------------------------------------
(* services/integrations: connections to Shopify, Stripe and Razorpay.     *)

RecordFields == {"id", "biz", "provider", "ext", "tok"}

ConnTypes ==
  /\ serial \in Nat
  /\ DOMAIN oauth = States
  /\ \A s \in States : "at" \in DOMAIN oauth[s]
  /\ wins \in [States -> Nat]
  /\ DOMAIN call = Slots
  /\ \A r \in records : DOMAIN r = RecordFields /\ r.id \in Nat /\ r.id =< serial
  /\ \A r \in rzpStore : r.id \in Nat /\ r.id =< serial

\* The request in flight that an OAuth state was used up by.
Holds(c, s) == c.at \in {"shopify", "stripe"} /\ c.state = s

\* A state that is still to be presented has connected nothing and no request holds it;
\* one request at most holds a state, and none that has connected.
StatesOnce ==
  /\ \A s \in States : oauth[s].at \in {"free", "open"} =>
       wins[s] = 0 /\ \A c \in Slots : ~Holds(call[c], s)
  /\ \A c \in Slots, s \in States : Holds(call[c], s) => wins[s] = 0
  /\ \A c, d \in Slots, s \in States : Holds(call[c], s) /\ Holds(call[d], s) => c = d
  /\ \A s \in States : wins[s] =< 1
  /\ \A c \in Slots : call[c].at \in {"shopify", "stripe"} => call[c].state \in States

\* No two records have one id.
IdsDiffer == \A r, q \in records : r.id = q.id => r = q

SameAccountOnce ==
  \A r, q \in records :
    (r # q /\ r.biz = q.biz /\ r.provider = q.provider) => r.provider = "stripe" /\ r.ext # q.ext

\* A Razorpay request began before every record its business has.
RequestsBegan ==
  /\ \A c \in Slots : call[c].at = "razorpay" =>
       /\ call[c].began \in Nat /\ call[c].began =< serial
       /\ \A r \in rzpStore : r.biz = call[c].biz => call[c].began < r.id
  /\ \A r, q \in rzpStore : (r.biz = q.biz /\ r.id < q.id) => q.began < r.id

ConnectionsInv ==
  /\ ConnTypes /\ StatesOnce /\ IdsDiffer /\ SameAccountOnce /\ RequestsBegan /\ DisconnectRevokes

LEMMA FreeIs == Free.at = "free" /\ DOMAIN Free = {"at"} /\ \A s : ~Holds(Free, s)
BY DEF Free, Holds

LEMMA ConnectionsStart == IgInit => ConnectionsInv
<1> SUFFICES ASSUME IgInit PROVE ConnectionsInv
  OBVIOUS
<1>1. ConnTypes
  BY FreeIs DEF IgInit, ConnTypes
<1>2. StatesOnce
  BY FreeIs DEF IgInit, StatesOnce, Holds
<1>3. RequestsBegan
  BY FreeIs DEF IgInit, RequestsBegan
<1> QED BY <1>1, <1>2, <1>3 DEF IgInit, ConnectionsInv, IdsDiffer, SameAccountOnce, DisconnectRevokes

\* A request that leaves is held by no state and waits for nothing.
LEMMA LeftFree ==
  ASSUME ConnectionsInv, NEW c \in Slots, Leave(c)
  PROVE  /\ DOMAIN call' = Slots /\ call'[c] = Free
         /\ \A d \in Slots : d # c => call'[d] = call[d]
BY DEF Leave, ConnectionsInv, ConnTypes

LEMMA Entered ==
  ASSUME ConnectionsInv, NEW c \in Slots, NEW rec, Enter(c, rec)
  PROVE  /\ DOMAIN call' = Slots /\ call'[c] = rec /\ call[c] = Free
         /\ \A d \in Slots : d # c => call'[d] = call[d]
BY DEF Enter, ConnectionsInv, ConnTypes

\* A state that is presented is open, and gone afterwards.
LEMMA StateConsumed ==
  ASSUME ConnectionsInv, NEW s \in States, oauth[s].at = "open", consumeOAuthState(s)
  PROVE  /\ DOMAIN oauth' = States
         /\ oauth'[s].at = "gone" /\ "at" \in DOMAIN oauth'[s]
         /\ \A t \in States : t # s => oauth'[t] = oauth[t]
<1> DEFINE gone == [at |-> "gone"]
<1>1. gone.at = "gone" /\ DOMAIN gone = {"at"}
  OBVIOUS
<1>2. oauth[s] # Free
  BY FreeIs
<1>3. oauth' = [oauth EXCEPT ![s] = gone]
  BY <1>2 DEF consumeOAuthState
<1> HIDE DEF gone
<1> QED BY <1>1, <1>3 DEF ConnectionsInv, ConnTypes

\* Steps that make no record and no connection: only the state stores and the requests
\* in flight change.
StoresSame == UNCHANGED <<records, rzpStore, serial, dropped, revoked>>

LEMMA StoresKeep ==
  ASSUME ConnectionsInv, StoresSame
  PROVE  /\ IdsDiffer' /\ SameAccountOnce' /\ DisconnectRevokes'
         /\ serial' \in Nat
         /\ \A r \in records' : DOMAIN r = RecordFields /\ r.id \in Nat /\ r.id =< serial'
         /\ \A r \in rzpStore' : r.id \in Nat /\ r.id =< serial'
BY DEF ConnectionsInv, StoresSame, IdsDiffer, SameAccountOnce, DisconnectRevokes, ConnTypes

\* update() keeps the ids and the keys of every record.
LEMMA UpdateKeeps ==
  ASSUME ConnectionsInv, NEW b, NEW id, NEW tok, records' = update(b, id, tok),
         serial' \in Nat, serial =< serial'
  PROVE  /\ IdsDiffer' /\ SameAccountOnce'
         /\ \A r \in records' : DOMAIN r = RecordFields /\ r.id \in Nat /\ r.id =< serial'
<1> DEFINE New(r) == IF r.id = id /\ r.biz = b THEN [r EXCEPT !.tok = tok] ELSE r
<1>0. serial \in Nat /\ IdsDiffer /\ SameAccountOnce
      /\ \A r \in records : DOMAIN r = RecordFields /\ r.id \in Nat /\ r.id =< serial
  BY DEF ConnectionsInv, ConnTypes
<1>1. records' = {New(r) : r \in records}
  BY DEF update
<1>2. \A r \in records : /\ DOMAIN New(r) = RecordFields /\ New(r).id = r.id /\ New(r).biz = r.biz
                         /\ New(r).provider = r.provider /\ New(r).ext = r.ext
  BY <1>0 DEF RecordFields
<1> HIDE DEF New
<1>3. IdsDiffer'
  <2> SUFFICES ASSUME NEW m \in records', NEW n \in records', m.id = n.id PROVE m = n
    BY DEF IdsDiffer
  <2>1. PICK r \in records : m = New(r)
    BY <1>1
  <2>2. PICK q \in records : n = New(q)
    BY <1>1
  <2>3. r = q
    BY <2>1, <2>2, <1>0, <1>2 DEF IdsDiffer
  <2> QED BY <2>1, <2>2, <2>3
<1>4. SameAccountOnce'
  <2> SUFFICES ASSUME NEW m \in records', NEW n \in records', m # n, m.biz = n.biz, m.provider = n.provider
               PROVE  m.provider = "stripe" /\ m.ext # n.ext
    BY DEF SameAccountOnce
  <2>1. PICK r \in records : m = New(r)
    BY <1>1
  <2>2. PICK q \in records : n = New(q)
    BY <1>1
  <2>3. r # q
    BY <2>1, <2>2
  <2> QED BY <2>1, <2>2, <2>3, <1>0, <1>2 DEF SameAccountOnce
<1>5. \A m \in records' : DOMAIN m = RecordFields /\ m.id \in Nat /\ m.id =< serial'
  <2> SUFFICES ASSUME NEW m \in records' PROVE DOMAIN m = RecordFields /\ m.id \in Nat /\ m.id =< serial'
    OBVIOUS
  <2>1. PICK r \in records : m = New(r)
    BY <1>1
  <2>2. DOMAIN m = RecordFields /\ m.id = r.id /\ r.id \in Nat /\ r.id =< serial
    BY <2>1, <1>0, <1>2
  <2> QED BY <2>2, <1>0
<1> QED BY <1>3, <1>4, <1>5

\* create() after the records of the same account are gone.
LEMMA Created ==
  ASSUME ConnectionsInv, NEW b, NEW provider, NEW ext, NEW tok, NEW gone,
         records' = create(b, provider, ext, tok) \ gone,
         \A q \in records \ gone : (q.biz = b /\ q.provider = provider) => provider = "stripe" /\ q.ext # ext,
         serial' \in Nat, serial < serial'
  PROVE  /\ IdsDiffer' /\ SameAccountOnce'
         /\ \A r \in records' : DOMAIN r = RecordFields /\ r.id \in Nat /\ r.id =< serial'
<1> DEFINE new == [id |-> serial + 1, biz |-> b, provider |-> provider, ext |-> ext, tok |-> tok]
<1>0. serial \in Nat /\ IdsDiffer /\ SameAccountOnce
      /\ \A r \in records : DOMAIN r = RecordFields /\ r.id \in Nat /\ r.id =< serial
  BY DEF ConnectionsInv, ConnTypes
<1>1. /\ DOMAIN new = RecordFields /\ new.id = serial + 1 /\ new.biz = b
      /\ new.provider = provider /\ new.ext = ext
  BY DEF RecordFields
<1>2. records' = (records \cup {new}) \ gone
  BY DEF create
<1> HIDE DEF new
<1>3. \A m \in records' : m = new \/ m \in records \ gone
  BY <1>2
<1>4. IdsDiffer'
  <2> SUFFICES ASSUME NEW m \in records', NEW n \in records', m.id = n.id PROVE m = n
    BY DEF IdsDiffer
  <2>1. \A q \in records : q.id # serial + 1
    BY <1>0
  <2> QED BY <2>1, <1>0, <1>1, <1>3 DEF IdsDiffer
<1>5. SameAccountOnce'
  <2> SUFFICES ASSUME NEW m \in records', NEW n \in records', m # n, m.biz = n.biz, m.provider = n.provider
               PROVE  m.provider = "stripe" /\ m.ext # n.ext
    BY DEF SameAccountOnce
  <2>1. CASE m = new
    BY <2>1, <1>1, <1>3
  <2>2. CASE n = new
    BY <2>2, <1>1, <1>3
  <2>3. CASE m # new /\ n # new
    BY <2>3, <1>0, <1>3 DEF SameAccountOnce
  <2> QED BY <2>1, <2>2, <2>3
<1>6. \A m \in records' : DOMAIN m = RecordFields /\ m.id \in Nat /\ m.id =< serial'
  BY <1>0, <1>1, <1>3
<1> QED BY <1>4, <1>5, <1>6

\* A request that connected counts once for its state.
LEMMA ConnectionCounted ==
  ASSUME ConnectionsInv, NEW c \in Slots, call[c].at \in {"shopify", "stripe"}, Leave(c),
         wins' = [wins EXCEPT ![call[c].state] = @ + 1], oauth' = oauth
  PROVE  StatesOnce' /\ wins' \in [States -> Nat] /\ DOMAIN call' = Slots
<1> DEFINE s == call[c].state
<1>0. StatesOnce /\ wins \in [States -> Nat] /\ s \in States
  BY DEF ConnectionsInv, ConnTypes, StatesOnce
<1>1. /\ wins' \in [States -> Nat] /\ wins'[s] = wins[s] + 1
      /\ \A t \in States : t # s => wins'[t] = wins[t]
  BY <1>0
<1>2. Holds(call[c], s) /\ wins[s] = 0 /\ oauth[s].at \notin {"free", "open"}
  BY <1>0 DEF StatesOnce, Holds
<1>3. /\ DOMAIN call' = Slots /\ call'[c] = Free
      /\ \A d \in Slots : d # c => call'[d] = call[d]
  BY LeftFree
<1> HIDE DEF s
<1>4. \A d \in Slots : ~Holds(call'[d], s)
  BY <1>0, <1>2, <1>3, FreeIs DEF StatesOnce
<1>5. \A d \in Slots, t \in States : Holds(call'[d], t) => Holds(call[d], t) /\ d # c /\ t # s
  BY <1>3, <1>4, FreeIs
<1>6. \A t \in States : oauth'[t].at \in {"free", "open"} =>
         wins'[t] = 0 /\ \A d \in Slots : ~Holds(call'[d], t)
  BY <1>0, <1>1, <1>2, <1>5 DEF StatesOnce
<1>7. \A d \in Slots, t \in States : Holds(call'[d], t) => wins'[t] = 0
  BY <1>0, <1>1, <1>5 DEF StatesOnce
<1>8. \A d, e \in Slots, t \in States : Holds(call'[d], t) /\ Holds(call'[e], t) => d = e
  BY <1>0, <1>5 DEF StatesOnce
<1>9. \A t \in States : wins'[t] =< 1
  BY <1>0, <1>1, <1>2 DEF StatesOnce
<1>10. \A d \in Slots : call'[d].at \in {"shopify", "stripe"} => call'[d].state \in States
  BY <1>0, <1>3, FreeIs DEF StatesOnce
<1> QED BY <1>1, <1>3, <1>6, <1>7, <1>8, <1>9, <1>10 DEF StatesOnce

\* Requests that change and hold no state, and states that are used up, keep StatesOnce.
LEMMA StatesKept ==
  ASSUME ConnectionsInv, wins' = wins,
         \A d \in Slots : call'[d] = call[d] \/ call'[d].at \notin {"shopify", "stripe"},
         \A s \in States : oauth'[s].at \in {"free", "open"} => oauth[s].at \in {"free", "open"}
  PROVE  StatesOnce'
<1>1. StatesOnce
  BY DEF ConnectionsInv
<1>2. \A d \in Slots : \A s : Holds(call'[d], s) => Holds(call[d], s)
  BY DEF Holds
<1> QED BY <1>1, <1>2 DEF StatesOnce

LEMMA RequestsKept ==
  ASSUME ConnectionsInv, rzpStore' \subseteq rzpStore, serial' \in Nat, serial =< serial',
         \A d \in Slots : call'[d] = call[d] \/ call'[d].at # "razorpay"
  PROVE  RequestsBegan' /\ \A r \in rzpStore' : r.id \in Nat /\ r.id =< serial'
<1>1. RequestsBegan /\ serial \in Nat /\ \A r \in rzpStore : r.id \in Nat /\ r.id =< serial
  BY DEF ConnectionsInv, ConnTypes
<1>2. ASSUME NEW d \in Slots, call'[d].at = "razorpay"
      PROVE  /\ call'[d].began \in Nat /\ call'[d].began =< serial'
             /\ \A r \in rzpStore' : r.biz = call'[d].biz => call'[d].began < r.id
  <2>1. call'[d] = call[d]
    BY <1>2
  <2>2. call[d].began \in Nat /\ call[d].began =< serial
        /\ \A r \in rzpStore : r.biz = call[d].biz => call[d].began < r.id
    BY <1>1, <1>2, <2>1 DEF RequestsBegan
  <2> QED BY <1>1, <2>1, <2>2
<1>3. \A r, q \in rzpStore' : (r.biz = q.biz /\ r.id < q.id) => q.began < r.id
  BY <1>1 DEF RequestsBegan
<1>4. \A r \in rzpStore' : r.id \in Nat /\ r.id =< serial'
  BY <1>1
<1> QED BY <1>2, <1>3, <1>4 DEF RequestsBegan

\* A step that leaves the requests in flight and every store but that of the states alone.
LEMMA StateStores ==
  ASSUME ConnectionsInv, StoresSame, call' = call, wins' = wins,
         DOMAIN oauth' = States,
         \A s \in States : "at" \in DOMAIN oauth'[s],
         \A s \in States : oauth'[s].at \in {"free", "open"} => oauth[s].at \in {"free", "open"}
  PROVE  ConnectionsInv'
<1>0. serial \in Nat /\ wins \in [States -> Nat] /\ DOMAIN call = Slots
  BY DEF ConnectionsInv, ConnTypes
<1>1. StatesOnce'
  BY StatesKept
<1>2. RequestsBegan'
  BY <1>0, RequestsKept DEF StoresSame
<1>3. ConnTypes'
  BY <1>0, StoresKeep DEF ConnTypes, StoresSame
<1> QED BY <1>1, <1>2, <1>3, StoresKeep DEF ConnectionsInv

\* A callback takes its state: the state is gone and the request holds it alone.
LEMMA CallbackStarts ==
  ASSUME ConnectionsInv, NEW c \in Slots, NEW s \in States, NEW rec,
         rec.at \in {"shopify", "stripe"}, rec.state = s,
         oauth[s].at = "open", consumeOAuthState(s), Enter(c, rec), StoresSame, wins' = wins
  PROVE  ConnectionsInv'
<1>0. serial \in Nat /\ wins \in [States -> Nat] /\ StatesOnce /\ wins[s] = 0
      /\ (\A d \in Slots : ~Holds(call[d], s)) /\ \A t \in States : "at" \in DOMAIN oauth[t]
  BY DEF ConnectionsInv, ConnTypes, StatesOnce
<1>1. /\ DOMAIN call' = Slots /\ call'[c] = rec /\ call[c] = Free
      /\ \A d \in Slots : d # c => call'[d] = call[d]
  BY Entered
<1>2. /\ DOMAIN oauth' = States
      /\ oauth'[s].at = "gone" /\ "at" \in DOMAIN oauth'[s]
      /\ \A t \in States : t # s => oauth'[t] = oauth[t]
  BY StateConsumed
<1>3. \A d \in Slots, t \in States : Holds(call'[d], t) => (d = c /\ t = s) \/ (d # c /\ t # s /\ Holds(call[d], t))
  BY <1>0, <1>1 DEF Holds
<1>4. StatesOnce'
  <2>1. \A t \in States : oauth'[t].at \in {"free", "open"} =>
           wins'[t] = 0 /\ \A d \in Slots : ~Holds(call'[d], t)
    BY <1>0, <1>2, <1>3 DEF StatesOnce
  <2>2. \A d \in Slots, t \in States : Holds(call'[d], t) => wins'[t] = 0
    BY <1>0, <1>3 DEF StatesOnce
  <2>3. \A d, e \in Slots, t \in States : Holds(call'[d], t) /\ Holds(call'[e], t) => d = e
    BY <1>0, <1>3 DEF StatesOnce
  <2>4. \A d \in Slots : call'[d].at \in {"shopify", "stripe"} => call'[d].state \in States
    BY <1>0, <1>1 DEF StatesOnce
  <2> QED BY <1>0, <2>1, <2>2, <2>3, <2>4 DEF StatesOnce
<1>5. RequestsBegan'
  <2>1. \A d \in Slots : call'[d] = call[d] \/ call'[d].at # "razorpay"
    BY <1>1
  <2> QED BY <1>0, <2>1, RequestsKept DEF StoresSame
<1>6. \A t \in States : "at" \in DOMAIN oauth'[t]
  BY <1>0, <1>2
<1>7. ConnTypes'
  BY <1>0, <1>1, <1>2, <1>6, StoresKeep DEF ConnTypes, StoresSame
<1> QED BY <1>4, <1>5, <1>7, StoresKeep DEF ConnectionsInv

LEMMA ConnectionsStep == ConnectionsInv /\ [IgNext]_igVars => ConnectionsInv'
<1> SUFFICES ASSUME ConnectionsInv, [IgNext]_igVars PROVE ConnectionsInv'
  OBVIOUS
<1>0. /\ ConnTypes /\ StatesOnce /\ IdsDiffer /\ SameAccountOnce /\ RequestsBegan /\ DisconnectRevokes
      /\ serial \in Nat /\ wins \in [States -> Nat] /\ DOMAIN oauth = States /\ DOMAIN call = Slots
      /\ \A s \in States : "at" \in DOMAIN oauth[s]
  BY DEF ConnectionsInv, ConnTypes
<1>1. ASSUME NEW kind, NEW b, NEW shop, setOAuthState(kind, b, shop) PROVE ConnectionsInv'
  <2>1. PICK s \in States :
          /\ oauth[s] = Free
          /\ oauth' = [oauth EXCEPT ![s] =
                [at |-> "open", kind |-> kind, biz |-> b, shop |-> shop, ttl |-> StateTtl]]
          /\ UNCHANGED <<records, rzpStore, shopTokens, call, serial, wins, revoked, dropped>>
    BY <1>1 DEF setOAuthState
  <2> DEFINE new == [at |-> "open", kind |-> kind, biz |-> b, shop |-> shop, ttl |-> StateTtl]
  <2>2. "at" \in DOMAIN new
    OBVIOUS
  <2>3. oauth' = [oauth EXCEPT ![s] = new] /\ oauth[s].at = "free"
    BY <2>1, FreeIs
  <2> HIDE DEF new
  <2>4. /\ DOMAIN oauth' = States
        /\ \A t \in States : "at" \in DOMAIN oauth'[t]
        /\ \A t \in States : oauth'[t].at \in {"free", "open"} => oauth[t].at \in {"free", "open"}
    BY <1>0, <2>2, <2>3
  <2>5. StoresSame /\ call' = call /\ wins' = wins
    BY <2>1 DEF StoresSame
  <2> QED BY <2>4, <2>5, StateStores
<1>2. ASSUME NEW s \in States, NEW kind, NEW shop, RefuseCallback(s, kind, shop) PROVE ConnectionsInv'
  <2>1. oauth[s].at = "open" /\ consumeOAuthState(s) /\ StoresSame /\ call' = call /\ wins' = wins
    BY <1>2 DEF RefuseCallback, Presentable, StoresSame
  <2>2. /\ DOMAIN oauth' = States
        /\ oauth'[s].at = "gone" /\ "at" \in DOMAIN oauth'[s]
        /\ \A t \in States : t # s => oauth'[t] = oauth[t]
    BY <2>1, StateConsumed
  <2>3. /\ \A t \in States : "at" \in DOMAIN oauth'[t]
        /\ \A t \in States : oauth'[t].at \in {"free", "open"} => oauth[t].at \in {"free", "open"}
    BY <2>2, <1>0
  <2> QED BY <2>1, <2>2, <2>3, StateStores
<1>3. ASSUME cleanupExpiredStates PROVE ConnectionsInv'
  <2> DEFINE gone == [at |-> "gone"]
  <2>1. gone.at = "gone" /\ "at" \in DOMAIN gone
    OBVIOUS
  <2>2. oauth' = [s \in States |-> IF Presentable(s, "stripe") /\ ~Valid(s) THEN gone ELSE oauth[s]]
    BY <1>3 DEF cleanupExpiredStates
  <2> HIDE DEF gone
  <2>3. \A s \in States : oauth'[s] = oauth[s] \/ oauth'[s] = gone
    BY <2>2
  <2>4. DOMAIN oauth' = States
    BY <2>2
  <2>5. /\ \A t \in States : "at" \in DOMAIN oauth'[t]
        /\ \A t \in States : oauth'[t].at \in {"free", "open"} => oauth[t].at \in {"free", "open"}
    BY <2>1, <2>3, <1>0
  <2>6. StoresSame /\ call' = call /\ wins' = wins
    BY <1>3 DEF cleanupExpiredStates, StoresSame
  <2> QED BY <2>4, <2>5, <2>6, StateStores
<1>4. ASSUME NEW s \in States, validateRazorpayState(s) PROVE ConnectionsInv'
  <2>1. oauth[s].at = "open" /\ consumeOAuthState(s) /\ StoresSame /\ call' = call
        /\ wins' = [wins EXCEPT ![s] = IF Valid(s) THEN @ + 1 ELSE @]
    BY <1>4 DEF validateRazorpayState, Presentable, StoresSame
  <2>2. /\ DOMAIN oauth' = States
        /\ oauth'[s].at = "gone" /\ "at" \in DOMAIN oauth'[s]
        /\ \A t \in States : t # s => oauth'[t] = oauth[t]
    BY <2>1, StateConsumed
  <2>3. wins[s] = 0 /\ \A c \in Slots : ~Holds(call[c], s)
    BY <2>1, <1>0 DEF StatesOnce
  <2>4. wins' \in [States -> Nat] /\ wins'[s] =< 1 /\ \A t \in States : t # s => wins'[t] = wins[t]
    BY <2>1, <2>3, <1>0
  <2>5. StatesOnce'
    <3>1. \A t \in States : oauth'[t].at \in {"free", "open"} =>
             wins'[t] = 0 /\ \A d \in Slots : ~Holds(call'[d], t)
      BY <2>1, <2>2, <2>4, <1>0 DEF StatesOnce
    <3>2. \A d \in Slots, t \in States : Holds(call'[d], t) => wins'[t] = 0
      BY <2>1, <2>3, <2>4, <1>0 DEF StatesOnce
    <3>3. \A d, e \in Slots, t \in States : Holds(call'[d], t) /\ Holds(call'[e], t) => d = e
      BY <2>1, <1>0 DEF StatesOnce
    <3>4. \A t \in States : wins'[t] =< 1
      BY <2>4, <1>0 DEF StatesOnce
    <3>5. \A d \in Slots : call'[d].at \in {"shopify", "stripe"} => call'[d].state \in States
      BY <2>1, <1>0 DEF StatesOnce
    <3> QED BY <3>1, <3>2, <3>3, <3>4, <3>5 DEF StatesOnce
  <2>6. RequestsBegan'
    BY <2>1, <1>0, RequestsKept DEF StoresSame
  <2>7. \A t \in States : "at" \in DOMAIN oauth'[t]
    BY <2>2, <1>0
  <2>8. ConnTypes'
    BY <2>1, <2>2, <2>4, <2>7, <1>0, StoresKeep DEF ConnTypes, StoresSame
  <2> QED BY <2>1, <2>5, <2>6, <2>8, StoresKeep DEF ConnectionsInv
<1>5. ASSUME NEW c \in Slots, NEW s \in States, StartShopifyCallback(c, s) PROVE ConnectionsInv'
  <2> DEFINE rec == [at |-> "shopify", biz |-> oauth[s].biz, shop |-> oauth[s].shop, state |-> s]
  <2>1. rec.at = "shopify" /\ rec.state = s
    OBVIOUS
  <2>2. oauth[s].at = "open" /\ consumeOAuthState(s) /\ Enter(c, rec) /\ StoresSame /\ wins' = wins
    BY <1>5 DEF StartShopifyCallback, Presentable, StoresSame
  <2> HIDE DEF rec
  <2> QED BY <2>1, <2>2, CallbackStarts
<1>6. ASSUME NEW c \in Slots, NEW s \in States, NEW b, StartStripeCallback(c, s, b) PROVE ConnectionsInv'
  <2> DEFINE rec == [at |-> "stripe", biz |-> b, shop |-> NoShop, state |-> s]
  <2>1. rec.at = "stripe" /\ rec.state = s
    OBVIOUS
  <2>2. oauth[s].at = "open" /\ consumeOAuthState(s) /\ Enter(c, rec) /\ StoresSame /\ wins' = wins
    BY <1>6 DEF StartStripeCallback, Presentable, StoresSame
  <2> HIDE DEF rec
  <2> QED BY <2>1, <2>2, CallbackStarts
<1>7. ASSUME NEW c \in Slots, NEW kind, Abandon(c, kind) PROVE ConnectionsInv'
  <2>1. Leave(c) /\ StoresSame /\ oauth' = oauth /\ wins' = wins
    BY <1>7 DEF Abandon, StoresSame
  <2>2. DOMAIN call' = Slots /\ \A d \in Slots : call'[d] = call[d] \/ call'[d].at = "free"
    BY <2>1, LeftFree, FreeIs
  <2>3. StatesOnce' /\ RequestsBegan'
    BY <2>1, <2>2, <1>0, StatesKept, RequestsKept DEF StoresSame
  <2>4. ConnTypes'
    BY <2>1, <2>2, <1>0, StoresKeep DEF ConnTypes, StoresSame
  <2> QED BY <2>1, <2>3, <2>4, StoresKeep DEF ConnectionsInv
<1>8. ASSUME NEW c \in Slots, ShopifyConnected(c) PROVE ConnectionsInv'
  <2> DEFINE q == call[c]
             mine == {r \in listByBusinessId(q.biz) : r.provider = "shopify"}
             other == {r \in mine : r.ext # q.shop}
             tok == serial + 2
  <2>1. /\ q.at = "shopify" /\ serial' = serial + 2 /\ Leave(c) /\ oauth' = oauth
        /\ wins' = [wins EXCEPT ![q.state] = @ + 1]
        /\ UNCHANGED <<rzpStore, revoked, dropped>>
        /\ PersistShopify(q.biz, q.shop, tok)
    BY <1>8 DEF ShopifyConnected
  <2>2. records' = IF mine \ other # {} THEN update(q.biz, (CHOOSE r \in mine : TRUE).id, tok)
                   ELSE create(q.biz, "shopify", q.shop, tok) \ other
    BY <2>1 DEF PersistShopify
  <2>3. serial' \in Nat /\ serial < serial'
    BY <2>1, <1>0
  <2>4. StatesOnce' /\ wins' \in [States -> Nat] /\ DOMAIN call' = Slots
    BY <2>1, ConnectionCounted
  <2>5. \A d \in Slots : call'[d] = call[d] \/ call'[d].at # "razorpay"
    BY <2>1, LeftFree, FreeIs
  <2>6. RequestsBegan' /\ \A r \in rzpStore' : r.id \in Nat /\ r.id =< serial'
    BY <2>1, <2>3, <2>5, <1>0, RequestsKept
  <2>7. /\ IdsDiffer' /\ SameAccountOnce'
        /\ \A r \in records' : DOMAIN r = RecordFields /\ r.id \in Nat /\ r.id =< serial'
    <3>1. CASE mine \ other # {}
      <4> HIDE DEF mine, other, q, tok
      <4>1. records' = update(q.biz, (CHOOSE r \in mine : TRUE).id, tok)
        BY <2>2, <3>1
      <4> QED BY <4>1, <2>3, <1>0, UpdateKeeps
    <3>2. CASE mine \ other = {}
      <4>1. \A r \in records \ other : ~(r.biz = q.biz /\ r.provider = "shopify")
        BY <3>2 DEF listByBusinessId
      <4> HIDE DEF mine, other, q, tok
      <4>2. records' = create(q.biz, "shopify", q.shop, tok) \ other
        BY <2>2, <3>2
      <4> QED BY <4>1, <4>2, <2>3, Created
    <3> QED BY <3>1, <3>2
  <2>8. ConnTypes' /\ DisconnectRevokes'
    BY <2>1, <2>3, <2>4, <2>6, <2>7, <1>0 DEF ConnTypes, DisconnectRevokes
  <2> QED BY <2>4, <2>6, <2>7, <2>8 DEF ConnectionsInv
<1>9. ASSUME NEW c \in Slots, NEW account, StripeConnected(c, account) PROVE ConnectionsInv'
  <2> DEFINE q == call[c]
             mine == {r \in listByBusinessId(q.biz) : r.provider = "stripe" /\ r.ext = account}
             tok == serial + 2
  <2>1. /\ q.at = "stripe" /\ serial' = serial + 2 /\ Leave(c) /\ oauth' = oauth
        /\ wins' = [wins EXCEPT ![q.state] = @ + 1]
        /\ UNCHANGED <<rzpStore, revoked, dropped>>
    BY <1>9 DEF StripeConnected
  <2>2. records' = IF mine # {} THEN update(q.biz, (CHOOSE r \in mine : TRUE).id, tok)
                   ELSE create(q.biz, "stripe", account, tok)
    BY <1>9 DEF StripeConnected
  <2>3. serial' \in Nat /\ serial < serial'
    BY <2>1, <1>0
  <2>4. StatesOnce' /\ wins' \in [States -> Nat] /\ DOMAIN call' = Slots
    BY <2>1, ConnectionCounted
  <2>5. \A d \in Slots : call'[d] = call[d] \/ call'[d].at # "razorpay"
    BY <2>1, LeftFree, FreeIs
  <2>6. RequestsBegan' /\ \A r \in rzpStore' : r.id \in Nat /\ r.id =< serial'
    BY <2>1, <2>3, <2>5, <1>0, RequestsKept
  <2>7. /\ IdsDiffer' /\ SameAccountOnce'
        /\ \A r \in records' : DOMAIN r = RecordFields /\ r.id \in Nat /\ r.id =< serial'
    <3>1. CASE mine # {}
      <4> HIDE DEF mine, q, tok
      <4>1. records' = update(q.biz, (CHOOSE r \in mine : TRUE).id, tok)
        BY <2>2, <3>1
      <4> QED BY <4>1, <2>3, <1>0, UpdateKeeps
    <3>2. CASE mine = {}
      <4> DEFINE none == {}
                 kind == "stripe"
                 all == create(q.biz, kind, account, tok)
      <4>1. \A r \in records \ none : (r.biz = q.biz /\ r.provider = kind) => kind = "stripe" /\ r.ext # account
        BY <3>2 DEF listByBusinessId
      <4>2. records' = all
        BY <2>2, <3>2
      <4>3. none = {}
        OBVIOUS
      <4> HIDE DEF mine, q, tok, none, kind, all
      <4>4. records' = all \ none
        BY <4>2, <4>3
      <4>5. records' = create(q.biz, kind, account, tok) \ none
        BY <4>4, Zenon DEF all
      <4> QED BY <4>1, <4>5, <2>3, Created
    <3> QED BY <3>1, <3>2
  <2>8. ConnTypes' /\ DisconnectRevokes'
    BY <2>1, <2>3, <2>4, <2>6, <2>7, <1>0 DEF ConnTypes, DisconnectRevokes
  <2> QED BY <2>4, <2>6, <2>7, <2>8 DEF ConnectionsInv
<1>10. ASSUME NEW c \in Slots, NEW b, StartRazorpay(c, b) PROVE ConnectionsInv'
  <2> DEFINE rec == [at |-> "razorpay", biz |-> b, began |-> serial]
  <2>1. rec.at = "razorpay" /\ rec.biz = b /\ rec.began = serial
    OBVIOUS
  <2>2. /\ Enter(c, rec) /\ StoresSame /\ oauth' = oauth /\ wins' = wins
        /\ \A r \in rzpStore : r.biz # b
    BY <1>10 DEF StartRazorpay, StoresSame, findByBusinessAndProvider
  <2> HIDE DEF rec
  <2>3. /\ DOMAIN call' = Slots /\ call'[c] = rec
        /\ \A d \in Slots : d # c => call'[d] = call[d]
    BY <2>2, Entered
  <2>4. StatesOnce'
    <3>1. \A d \in Slots : call'[d] = call[d] \/ call'[d].at \notin {"shopify", "stripe"}
      BY <2>1, <2>3
    <3> QED BY <2>2, <3>1, StatesKept
  <2>5. RequestsBegan'
    BY <2>1, <2>2, <2>3, <1>0 DEF RequestsBegan, StoresSame
  <2>6. ConnTypes'
    BY <2>2, <2>3, <1>0, StoresKeep DEF ConnTypes, StoresSame
  <2> QED BY <2>2, <2>4, <2>5, <2>6, StoresKeep DEF ConnectionsInv
<1>11. ASSUME NEW c \in Slots, RazorpayConnected(c) PROVE ConnectionsInv'
  <2> DEFINE q == call[c]
             new == [id |-> serial + 1, biz |-> q.biz, began |-> q.began]
  <2>1. new.id = serial + 1 /\ new.biz = q.biz /\ new.began = q.began
    OBVIOUS
  <2>2. /\ q.at = "razorpay" /\ rzpStore' = rzpStore \cup {new} /\ serial' = serial + 1 /\ Leave(c)
        /\ UNCHANGED <<oauth, records, shopTokens, wins, revoked, dropped>>
    BY <1>11 DEF RazorpayConnected
  <2>3. q.began \in Nat /\ q.began =< serial /\ \A r \in rzpStore : r.biz = q.biz => q.began < r.id
    BY <2>2, <1>0 DEF RequestsBegan
  <2> HIDE DEF new, q
  <2>4. DOMAIN call' = Slots /\ \A d \in Slots : call'[d] = call[d] \/ call'[d].at = "free"
    BY <2>2, LeftFree, FreeIs
  <2>5. StatesOnce'
    BY <2>2, <2>4, StatesKept
  <2>6. /\ \A r \in rzpStore : r.id \in Nat /\ r.id =< serial
        /\ \A r \in rzpStore' : r \in rzpStore \/ r = new
    BY <2>2, <1>0 DEF ConnTypes
  <2>7. RequestsBegan'
    <3>1. ASSUME NEW d \in Slots, call'[d].at = "razorpay"
          PROVE  /\ call'[d].began \in Nat /\ call'[d].began =< serial'
                 /\ \A r \in rzpStore' : r.biz = call'[d].biz => call'[d].began < r.id
      <4>1. call'[d] = call[d]
        BY <3>1, <2>4
      <4>2. call[d].began \in Nat /\ call[d].began =< serial
            /\ \A r \in rzpStore : r.biz = call[d].biz => call[d].began < r.id
        BY <3>1, <4>1, <1>0 DEF RequestsBegan
      <4> QED BY <4>1, <4>2, <2>1, <2>2, <2>6, <1>0
    <3>2. ASSUME NEW r \in rzpStore', NEW p \in rzpStore', r.biz = p.biz, r.id < p.id
          PROVE  p.began < r.id
      <4>1. r \in rzpStore
        BY <3>2, <2>1, <2>6, <1>0
      <4>2. CASE p = new
        BY <4>1, <4>2, <3>2, <2>1, <2>3
      <4>3. CASE p # new
        BY <4>1, <4>3, <3>2, <2>6, <1>0 DEF RequestsBegan
      <4> QED BY <4>2, <4>3
    <3> QED BY <3>1, <3>2 DEF RequestsBegan
  <2>8. ConnTypes'
    BY <2>1, <2>2, <2>4, <2>6, <1>0 DEF ConnTypes
  <2>9. IdsDiffer' /\ SameAccountOnce' /\ DisconnectRevokes'
    BY <2>2, <1>0 DEF IdsDiffer, SameAccountOnce, DisconnectRevokes
  <2> QED BY <2>5, <2>7, <2>8, <2>9 DEF ConnectionsInv
<1>12. ASSUME NEW b, NEW r \in rzpStore, disconnectRazorpay(b, r) PROVE ConnectionsInv'
  <2>1. /\ rzpStore' \subseteq rzpStore
        /\ UNCHANGED <<oauth, records, shopTokens, call, serial, wins, revoked, dropped>>
    BY <1>12 DEF disconnectRazorpay
  <2>2. RequestsBegan' /\ \A p \in rzpStore' : p.id \in Nat /\ p.id =< serial'
    BY <2>1, <1>0, RequestsKept
  <2>3. StatesOnce'
    BY <2>1, StatesKept
  <2>4. ConnTypes' /\ IdsDiffer' /\ SameAccountOnce' /\ DisconnectRevokes'
    BY <2>1, <2>2, <1>0 DEF ConnTypes, IdsDiffer, SameAccountOnce, DisconnectRevokes
  <2> QED BY <2>2, <2>3, <2>4 DEF ConnectionsInv
<1>13. ASSUME NEW c \in Slots, NEW b, StartDisconnect(c, b) PROVE ConnectionsInv'
  <2>1. PICK r : Enter(c, [at |-> "revoke", biz |-> b, rec |-> r])
    BY <1>13 DEF StartDisconnect
  <2>2. StoresSame /\ oauth' = oauth /\ wins' = wins
    BY <1>13 DEF StartDisconnect, StoresSame
  <2> DEFINE rec == [at |-> "revoke", biz |-> b, rec |-> r]
  <2>3. rec.at = "revoke" /\ Enter(c, rec)
    BY <2>1
  <2> HIDE DEF rec
  <2>4. DOMAIN call' = Slots /\ \A d \in Slots : call'[d] = call[d] \/ call'[d].at = "revoke"
    BY <2>3, Entered
  <2>5. StatesOnce' /\ RequestsBegan'
    BY <2>2, <2>4, <1>0, StatesKept, RequestsKept DEF StoresSame
  <2>6. ConnTypes'
    BY <2>2, <2>4, <1>0, StoresKeep DEF ConnTypes, StoresSame
  <2> QED BY <2>2, <2>5, <2>6, StoresKeep DEF ConnectionsInv
<1>14. ASSUME NEW c \in Slots, NEW status, RevokeAnswered(c, status) PROVE ConnectionsInv'
  <2> DEFINE q == call[c]
             held == {r \in records : r.id = q.rec.id}
             more == {[tok |-> r.tok, read |-> q.rec.tok] : r \in held}
  <2>1. /\ status = "gone" => q.rec.tok \in revoked
        /\ revoked' = IF status = "ok" THEN revoked \cup {q.rec.tok} ELSE revoked
        /\ Leave(c) /\ UNCHANGED <<oauth, rzpStore, serial, wins>>
    BY <1>14 DEF RevokeAnswered
  <2>2. \/ RevokeSucceeds(q.rec.tok, status) /\ records' = deleteById(q.biz, q.rec.id) /\ dropped' = dropped \cup more
        \/ records' = records /\ dropped' = dropped
    BY <1>14 DEF RevokeAnswered
  <2>3. records' \subseteq records
    BY <2>2 DEF deleteById
  <2>4. \A d \in more : d.read = q.rec.tok
    OBVIOUS
  <2> HIDE DEF more, held, q
  <2>5. DisconnectRevokes'
    <3>1. revoked \subseteq revoked'
      BY <2>1
    <3>2. CASE RevokeSucceeds(q.rec.tok, status) /\ dropped' = dropped \cup more
      <4>1. q.rec.tok \in revoked'
        BY <2>1, <3>2 DEF RevokeSucceeds
      <4> QED BY <3>1, <3>2, <4>1, <2>4, <1>0 DEF DisconnectRevokes
    <3>3. CASE dropped' = dropped
      BY <3>1, <3>3, <1>0 DEF DisconnectRevokes
    <3> QED BY <2>2, <3>2, <3>3
  <2>6. DOMAIN call' = Slots /\ \A d \in Slots : call'[d] = call[d] \/ call'[d].at = "free"
    BY <2>1, LeftFree, FreeIs
  <2>7. StatesOnce' /\ RequestsBegan'
    BY <2>1, <2>6, <1>0, StatesKept, RequestsKept
  <2>8. ConnTypes'
    BY <2>1, <2>3, <2>6, <1>0 DEF ConnTypes
  <2>9. IdsDiffer' /\ SameAccountOnce'
    BY <2>3, <1>0 DEF IdsDiffer, SameAccountOnce
  <2> QED BY <2>5, <2>7, <2>8, <2>9 DEF ConnectionsInv
<1>15. ASSUME NEW b, NEW role, NEW r, DeleteIntegration(b, role, r) PROVE ConnectionsInv'
  <2>1. /\ records' \subseteq records
        /\ UNCHANGED <<oauth, rzpStore, shopTokens, call, serial, wins, revoked, dropped>>
    BY <1>15 DEF DeleteIntegration, deleteById
  <2>2. StatesOnce' /\ RequestsBegan'
    BY <2>1, <1>0, StatesKept, RequestsKept
  <2>3. ConnTypes' /\ IdsDiffer' /\ SameAccountOnce' /\ DisconnectRevokes'
    BY <2>1, <1>0 DEF ConnTypes, IdsDiffer, SameAccountOnce, DisconnectRevokes
  <2> QED BY <2>2, <2>3 DEF ConnectionsInv
<1>16. ASSUME IgTick PROVE ConnectionsInv'
  <2>1. StoresSame /\ call' = call /\ wins' = wins
    BY <1>16 DEF IgTick, StoresSame
  <2>2. oauth' = [s \in States |-> IF oauth[s].at = "open" /\ Valid(s)
                                   THEN [oauth[s] EXCEPT !.ttl = @ - 1] ELSE oauth[s]]
    BY <1>16 DEF IgTick
  <2>3. DOMAIN oauth' = States
    BY <2>2
  <2>4. \A s \in States : "at" \in DOMAIN oauth'[s] /\ oauth'[s].at = oauth[s].at
    <3> SUFFICES ASSUME NEW s \in States PROVE "at" \in DOMAIN oauth'[s] /\ oauth'[s].at = oauth[s].at
      OBVIOUS
    <3>1. CASE oauth'[s] = oauth[s]
      BY <3>1, <1>0
    <3>2. CASE oauth'[s] = [oauth[s] EXCEPT !.ttl = @ - 1]
      BY <3>2, <1>0
    <3> QED BY <2>2, <3>1, <3>2
  <2> QED BY <2>1, <2>3, <2>4, StateStores
<1>17. ASSUME UNCHANGED igVars PROVE ConnectionsInv'
  <2>1. StoresSame /\ call' = call /\ wins' = wins /\ oauth' = oauth
    BY <1>17 DEF igVars, StoresSame
  <2> QED BY <2>1, <1>0, StateStores
<1>18. ASSUME NEW b \in Businesses, NEW c \in Slots, integrationsShopifyRouter(b, c) PROVE ConnectionsInv'
  BY <1>18, <1>1, <1>2, <1>5, <1>7, <1>8, <1>13, <1>14
     DEF integrationsShopifyRouter, startConnectShopify, ShopifyExchangeFails
<1>19. ASSUME NEW b \in Businesses, NEW c \in Slots, integrationsStripeRouter(b, c) PROVE ConnectionsInv'
  BY <1>19, <1>1, <1>2, <1>6, <1>7, <1>9
     DEF integrationsStripeRouter, startConnectStripe, StripeExchangeFails
<1>20. ASSUME NEW b \in Businesses, NEW c \in Slots, integrationsRazorpayRouter(b, c) PROVE ConnectionsInv'
  BY <1>20, <1>1, <1>4, <1>7, <1>10, <1>11, <1>12
     DEF integrationsRazorpayRouter, initiateRazorpayConnect, CredentialCheckFails
<1> QED BY <1>3, <1>15, <1>16, <1>17, <1>18, <1>19, <1>20 DEF IgNext

\* An OAuth state connects at most once, a business keeps one Shopify record and one per
\* Stripe account, a second Razorpay record needs overlapping requests, and what a Shopify
\* disconnect removes was revoked: for any number of businesses, shops, states and
\* requests in flight, whichever provider call is awaited meanwhile.
THEOREM ConnectionsStay == IgSpec => []ConnectionsHold
<1>1. ConnectionsInv => ConnectionsHold
  BY DEF ConnectionsInv, ConnectionsHold, OneConnectionPerState, OneRecordPerAccount, StatesOnce,
         SameAccountOnce, RequestsBegan
<1> QED BY <1>1, ConnectionsStart, ConnectionsStep, PTL DEF IgSpec

-----------------------------------------------------------------------------
(* Outbound webhooks: the limit of subscriptions and the versions of a     *)
(* secret.                                                                 *)

Rows == [owner : Tenants, secret : WhSecrets, version : Nat]

RowsOk ==
  /\ subs \in [SubIds -> Rows \cup {NoSub, Removed}]
  /\ DOMAIN work = Works
  /\ \A w \in Works : work[w].at = "insert" => work[w].owner \in Tenants

\* The requests that have counted the subscriptions of a business and not inserted yet.
Inserting(t) == {w \in Works : work[w].at = "insert" /\ work[w].owner = t}
Owned(t) == {s \in SubIds : subs[s] \notin {NoSub, Removed} /\ subs[s].owner = t}

\* What is stored and what may still be inserted, together.
PlacesBounded ==
  \A t \in Tenants : Cardinality(Owned(t)) + Cardinality(Inserting(t)) =< MaxSubscriptions + Cardinality(Works) - 1

\* A delivery was signed under the version its row has, with its secret, or an earlier one.
SignedOk(d, row) ==
  /\ row \in Rows
  /\ d.version \in Nat /\ d.version =< row.version
  /\ d.version = row.version => d.secret = row.secret

SignaturesTraced == \A d \in signed : d.sub \in SubIds /\ SignedOk(d, subs[d.sub])

SubscriptionsInv == RowsOk /\ PlacesBounded /\ SignaturesTraced /\ VersionNamesSecret

LEMMA RowsApart == \A row \in Rows : row # NoSub /\ row # Removed
BY SubscriptionAssumption DEF Rows

LEMMA RestIs == Rest.at = "rest"
BY DEF Rest

LEMMA SetsFinite ==
  ASSUME NEW t
  PROVE  /\ IsFiniteSet(Owned(t)) /\ IsFiniteSet(Inserting(t)) /\ IsFiniteSet(Works)
         /\ Cardinality(Owned(t)) \in Nat /\ Cardinality(Inserting(t)) \in Nat
         /\ Cardinality(Works) \in Nat /\ Cardinality(Inserting(t)) =< Cardinality(Works)
         /\ MaxSubscriptions \in Nat
<1>1. Owned(t) \subseteq SubIds /\ Inserting(t) \subseteq Works
  BY DEF Owned, Inserting
<1>2. IsFiniteSet(Owned(t)) /\ IsFiniteSet(Inserting(t)) /\ Cardinality(Inserting(t)) =< Cardinality(Works)
  BY <1>1, SubscriptionAssumption, FS_Subset
<1> QED BY <1>2, SubscriptionAssumption, FS_CardinalityType

\* countByBusiness counts the rows of the business.
LEMMA CountIsOwned ==
  ASSUME NEW t PROVE countByBusiness(t) = Cardinality(Owned(t))
<1>1. {s \in Stored : subs[s].owner = t} = Owned(t)
  BY DEF Stored, Owned
<1> QED BY <1>1 DEF countByBusiness

LEMMA SubscriptionsStart == WhInit => SubscriptionsInv
<1> SUFFICES ASSUME WhInit PROVE SubscriptionsInv
  OBVIOUS
<1>1. RowsOk
  BY RestIs DEF WhInit, RowsOk
<1>2. SignaturesTraced /\ VersionNamesSecret
  BY DEF WhInit, SignaturesTraced, VersionNamesSecret
<1>3. ASSUME NEW t \in Tenants
      PROVE  Cardinality(Owned(t)) + Cardinality(Inserting(t)) =< MaxSubscriptions + Cardinality(Works) - 1
  <2>1. Owned(t) = {} /\ Inserting(t) = {}
    BY RestIs DEF WhInit, Owned, Inserting
  <2>2. Cardinality({}) = 0
    BY FS_EmptySet
  <2>3. MaxSubscriptions \in Nat \ {0} /\ Cardinality(Works) \in Nat
    BY SetsFinite, SubscriptionAssumption
  <2> QED BY <2>1, <2>2, <2>3
<1> QED BY <1>1, <1>2, <1>3 DEF SubscriptionsInv, PlacesBounded

\* Fewer rows and fewer requests keep the bound.
LEMMA PlacesKept ==
  ASSUME SubscriptionsInv, \A t \in Tenants : Owned(t)' \subseteq Owned(t) /\ Inserting(t)' \subseteq Inserting(t)
  PROVE  PlacesBounded'
<1> SUFFICES ASSUME NEW t \in Tenants
             PROVE  Cardinality(Owned(t)') + Cardinality(Inserting(t)') =< MaxSubscriptions + Cardinality(Works) - 1
  BY DEF PlacesBounded
<1>1. IsFiniteSet(Owned(t)) /\ IsFiniteSet(Inserting(t)) /\ Cardinality(Works) \in Nat /\ MaxSubscriptions \in Nat
      /\ Cardinality(Owned(t)) \in Nat /\ Cardinality(Inserting(t)) \in Nat
  BY SetsFinite
<1> DEFINE a == Owned(t)
           b == Inserting(t)
           c == Owned(t)'
           d == Inserting(t)'
<1>2. c \subseteq a /\ d \subseteq b
  OBVIOUS
<1>3. Cardinality(a) + Cardinality(b) =< MaxSubscriptions + Cardinality(Works) - 1
  BY DEF SubscriptionsInv, PlacesBounded
<1> HIDE DEF a, b, c, d
<1>4. /\ IsFiniteSet(c) /\ Cardinality(c) =< Cardinality(a)
      /\ IsFiniteSet(d) /\ Cardinality(d) =< Cardinality(b)
  BY <1>1, <1>2, FS_Subset DEF a, b
<1>5. Cardinality(c) \in Nat /\ Cardinality(d) \in Nat
  BY <1>4, FS_CardinalityType
<1>6. Cardinality(c) + Cardinality(d) =< MaxSubscriptions + Cardinality(Works) - 1
  BY <1>1, <1>3, <1>4, <1>5 DEF a, b
<1> QED BY <1>6 DEF c, d

\* A handler that moves on without having counted: what it holds is not an insert.
LEMMA MovedOn ==
  ASSUME SubscriptionsInv, NEW w \in Works, NEW next, next.at # "insert",
         work' = [work EXCEPT ![w] = next]
  PROVE  /\ DOMAIN work' = Works
         /\ \A v \in Works : work'[v].at = "insert" => work'[v].owner \in Tenants
         /\ \A t \in Tenants : Inserting(t)' \subseteq Inserting(t)
         /\ \A t \in Tenants : w \notin Inserting(t)'
<1>1. DOMAIN work' = Works /\ work'[w] = next /\ \A v \in Works : v # w => work'[v] = work[v]
  BY DEF SubscriptionsInv, RowsOk
<1>2. \A v \in Works : work'[v].at = "insert" => v # w /\ work'[v] = work[v]
  BY <1>1
<1>3. \A v \in Works : work'[v].at = "insert" => work'[v].owner \in Tenants
  BY <1>2 DEF SubscriptionsInv, RowsOk
<1>4. \A t \in Tenants : Inserting(t)' \subseteq Inserting(t) /\ w \notin Inserting(t)'
  BY <1>2 DEF Inserting
<1> QED BY <1>1, <1>3, <1>4

\* Handlers move, the table and the history stay.
LEMMA TableSame ==
  ASSUME SubscriptionsInv, NEW w \in Works, NEW next, next.at # "insert",
         work' = [work EXCEPT ![w] = next], subs' = subs, signed' = signed
  PROVE  SubscriptionsInv'
<1>1. /\ DOMAIN work' = Works
      /\ \A v \in Works : work'[v].at = "insert" => work'[v].owner \in Tenants
      /\ \A t \in Tenants : Inserting(t)' \subseteq Inserting(t)
  BY MovedOn
<1>2. \A t \in Tenants : Owned(t)' = Owned(t)
  BY DEF Owned
<1>3. PlacesBounded'
  BY <1>1, <1>2, PlacesKept
<1> QED BY <1>1, <1>3 DEF SubscriptionsInv, RowsOk, SignaturesTraced, VersionNamesSecret

LEMMA SubscriptionsStep == SubscriptionsInv /\ [WhNext]_whVars => SubscriptionsInv'
<1> SUFFICES ASSUME SubscriptionsInv, [WhNext]_whVars PROVE SubscriptionsInv'
  OBVIOUS
<1>0. /\ RowsOk /\ PlacesBounded /\ SignaturesTraced /\ VersionNamesSecret
      /\ subs \in [SubIds -> Rows \cup {NoSub, Removed}] /\ DOMAIN work = Works
  BY DEF SubscriptionsInv, RowsOk
<1>1. ASSUME NEW w \in Works, NEW t \in Tenants, CountSubscriptions(w, t) PROVE SubscriptionsInv'
  <2> DEFINE next == [at |-> "insert", owner |-> t]
  <2>1. /\ work[w] = Rest /\ countByBusiness(t) < MaxSubscriptions
        /\ work' = [work EXCEPT ![w] = next] /\ subs' = subs /\ signed' = signed
    BY <1>1 DEF CountSubscriptions, UnderLimit
  <2>2. next.at = "insert" /\ next.owner = t
    OBVIOUS
  <2> HIDE DEF next
  <2>3. work'[w] = next /\ DOMAIN work' = Works /\ \A v \in Works : v # w => work'[v] = work[v]
    BY <2>1, <1>0
  <2>4. RowsOk'
    BY <2>1, <2>2, <2>3, <1>0 DEF RowsOk
  <2>5. PlacesBounded'
    <3> SUFFICES ASSUME NEW u \in Tenants
                 PROVE  Cardinality(Owned(u)') + Cardinality(Inserting(u)') =< MaxSubscriptions + Cardinality(Works) - 1
      BY DEF PlacesBounded
    <3>0. Owned(u)' = Owned(u)
      BY <2>1 DEF Owned
    <3>1. CASE u = t
      <4>1. Cardinality(Owned(t)) < MaxSubscriptions
        BY <2>1, CountIsOwned
      <4>2. Inserting(u)' \subseteq Works
        BY DEF Inserting
      <4>3. Cardinality(Inserting(u)') =< Cardinality(Works) /\ IsFiniteSet(Inserting(u)')
        BY <4>2, SubscriptionAssumption, FS_Subset
      <4>4. Cardinality(Inserting(u)') \in Nat
        BY <4>3, FS_CardinalityType
      <4>5. Cardinality(Owned(t)) \in Nat /\ MaxSubscriptions \in Nat /\ Cardinality(Works) \in Nat
        BY SetsFinite
      <4>6. Cardinality(Owned(u)') = Cardinality(Owned(t))
        BY <3>0, <3>1
      <4> QED BY <4>1, <4>3, <4>4, <4>5, <4>6
    <3>2. CASE u # t
      <4>1. Inserting(u)' = Inserting(u)
        BY <3>2, <2>1, <2>2, <2>3, RestIs DEF Inserting
      <4> QED BY <3>0, <4>1, <1>0 DEF PlacesBounded
    <3> QED BY <3>1, <3>2
  <2>6. SignaturesTraced' /\ VersionNamesSecret'
    BY <2>1, <1>0 DEF SignaturesTraced, VersionNamesSecret
  <2> QED BY <2>4, <2>5, <2>6 DEF SubscriptionsInv
<1>2. ASSUME NEW w \in Works, NEW s \in SubIds, NEW secret \in WhSecrets, InsertSubscription(w, s, secret)
      PROVE  SubscriptionsInv'
  <2> DEFINE row == [owner |-> work[w].owner, secret |-> secret, version |-> 1]
  <2>1. work[w].at = "insert" /\ work' = [work EXCEPT ![w] = Rest] /\ signed' = signed
    BY <1>2 DEF InsertSubscription
  <2>2. CASE subs' = subs
    BY <2>1, <2>2, RestIs, TableSame
  <2>3. CASE subs[s] = NoSub /\ subs' = [subs EXCEPT ![s] = row]
    <3>1. row \in Rows /\ row.owner = work[w].owner /\ work[w].owner \in Tenants
      BY <2>1, <1>0 DEF Rows, RowsOk
    <3> HIDE DEF row
    <3>2. /\ DOMAIN work' = Works
          /\ \A v \in Works : work'[v].at = "insert" => work'[v].owner \in Tenants
          /\ \A t \in Tenants : Inserting(t)' \subseteq Inserting(t)
          /\ \A t \in Tenants : w \notin Inserting(t)'
      BY <2>1, RestIs, MovedOn
    <3>3. /\ subs' \in [SubIds -> Rows \cup {NoSub, Removed}] /\ subs'[s] = row
          /\ \A r \in SubIds : r # s => subs'[r] = subs[r]
      BY <2>3, <3>1, <1>0
    <3>4. ASSUME NEW t \in Tenants
          PROVE  Cardinality(Owned(t)') + Cardinality(Inserting(t)') =< MaxSubscriptions + Cardinality(Works) - 1
      <4> DEFINE a == Owned(t)
                 b == Inserting(t)
                 c == Owned(t)'
                 d == Inserting(t)'
      <4>1. /\ IsFiniteSet(a) /\ IsFiniteSet(b) /\ Cardinality(a) \in Nat /\ Cardinality(b) \in Nat
            /\ Cardinality(Works) \in Nat /\ MaxSubscriptions \in Nat
        BY SetsFinite
      <4>2. Cardinality(a) + Cardinality(b) =< MaxSubscriptions + Cardinality(Works) - 1
        BY <1>0 DEF PlacesBounded
      <4>3. d \subseteq b /\ w \notin d
        BY <3>2
      <4>4. c \subseteq a \cup {s} /\ (t # work[w].owner => c \subseteq a)
        BY <3>1, <3>3 DEF Owned
      <4>5. t = work[w].owner => w \in b
        BY <2>1 DEF Inserting
      <4>6. s \notin a
        BY <2>3 DEF Owned
      <4> HIDE DEF a, b, c, d
      <4>7. CASE t = work[w].owner
        <5>1. IsFiniteSet(a \cup {s}) /\ Cardinality(a \cup {s}) = Cardinality(a) + 1
          BY <4>1, <4>6, FS_AddElement
        <5>2. IsFiniteSet(b \ {w}) /\ Cardinality(b \ {w}) = Cardinality(b) - 1
          BY <4>1, <4>5, <4>7, FS_RemoveElement
        <5>3. d \subseteq b \ {w}
          BY <4>3
        <5>4. /\ IsFiniteSet(c) /\ Cardinality(c) =< Cardinality(a) + 1
              /\ IsFiniteSet(d) /\ Cardinality(d) =< Cardinality(b) - 1
          BY <4>4, <5>1, <5>2, <5>3, FS_Subset
        <5>5. Cardinality(c) \in Nat /\ Cardinality(d) \in Nat
          BY <5>4, FS_CardinalityType
        <5>6. Cardinality(c) + Cardinality(d) =< MaxSubscriptions + Cardinality(Works) - 1
          BY <4>1, <4>2, <5>4, <5>5
        <5> QED BY <5>6 DEF c, d
      <4>8. CASE t # work[w].owner
        <5>4. /\ IsFiniteSet(c) /\ Cardinality(c) =< Cardinality(a)
              /\ IsFiniteSet(d) /\ Cardinality(d) =< Cardinality(b)
          BY <4>1, <4>3, <4>4, <4>8, FS_Subset
        <5>5. Cardinality(c) \in Nat /\ Cardinality(d) \in Nat
          BY <5>4, FS_CardinalityType
        <5>6. Cardinality(c) + Cardinality(d) =< MaxSubscriptions + Cardinality(Works) - 1
          BY <4>1, <4>2, <5>4, <5>5
        <5> QED BY <5>6 DEF c, d
      <4> QED BY <4>7, <4>8
    <3>5. SignaturesTraced'
      <4> SUFFICES ASSUME NEW d \in signed PROVE d.sub \in SubIds /\ SignedOk(d, subs'[d.sub])
        BY <2>1 DEF SignaturesTraced
      <4>1. d.sub \in SubIds /\ SignedOk(d, subs[d.sub])
        BY <1>0 DEF SignaturesTraced
      <4>2. d.sub # s
        BY <4>1, <2>3, RowsApart DEF SignedOk
      <4> QED BY <4>1, <4>2, <3>3
    <3> QED BY <2>1, <3>2, <3>3, <3>4, <3>5, <1>0 DEF SubscriptionsInv, RowsOk, PlacesBounded, VersionNamesSecret
  <2> QED BY <1>2, <2>2, <2>3 DEF InsertSubscription
<1>3. ASSUME NEW t \in Tenants, NEW s \in SubIds, NEW secret \in WhSecrets, UpdateSubscription(t, s, secret)
      PROVE  SubscriptionsInv'
  <2> DEFINE old == subs[s]
             row == [old EXCEPT !.secret = secret, !.version = @ + 1]
  <2>1. /\ s \in Stored /\ work' = work /\ signed' = signed
        /\ subs' = [subs EXCEPT ![s] = row]
    BY <1>3 DEF UpdateSubscription, Updated
  <2>2. old \in Rows
    BY <2>1, <1>0 DEF Stored
  <2> HIDE DEF old
  <2>3. row \in Rows /\ row.owner = old.owner /\ row.version = old.version + 1 /\ old.version \in Nat
    <3>1. /\ old.owner \in Tenants /\ old.secret \in WhSecrets /\ old.version \in Nat
          /\ old = [owner |-> old.owner, secret |-> old.secret, version |-> old.version]
      BY <2>2 DEF Rows
    <3>2. row = [owner |-> old.owner, secret |-> secret, version |-> old.version + 1]
      <4> DEFINE o == old.owner
                 k == old.secret
                 v == old.version
                 n == old.version + 1
      <4>1. old = [owner |-> o, secret |-> k, version |-> v]
        BY <3>1
      <4>2. row = [old EXCEPT !.secret = secret, !.version = n]
        OBVIOUS
      <4> HIDE DEF o, k, v, n, row
      <4>3. row = [owner |-> o, secret |-> secret, version |-> n]
        BY <4>1, <4>2
      <4> QED BY <4>3 DEF o, n
    <3>3. old.version + 1 \in Nat
      BY <3>1
    <3> HIDE DEF row
    <3> QED BY <3>1, <3>2, <3>3 DEF Rows
  <2> HIDE DEF row
  <2>4. /\ subs' \in [SubIds -> Rows \cup {NoSub, Removed}] /\ subs'[s] = row
        /\ \A r \in SubIds : r # s => subs'[r] = subs[r]
    BY <2>1, <2>3, <1>0
  <2>5. \A u \in Tenants : Owned(u)' \subseteq Owned(u) /\ Inserting(u)' \subseteq Inserting(u)
    <3>1. old = subs[s] /\ old \notin {NoSub, Removed}
      BY <2>2, RowsApart DEF old
    <3> QED BY <2>1, <2>3, <2>4, <3>1 DEF Owned, Inserting
  <2>6. SignaturesTraced'
    <3> SUFFICES ASSUME NEW d \in signed PROVE d.sub \in SubIds /\ SignedOk(d, subs'[d.sub])
      BY <2>1 DEF SignaturesTraced
    <3>1. d.sub \in SubIds /\ SignedOk(d, subs[d.sub])
      BY <1>0 DEF SignaturesTraced
    <3>2. CASE d.sub = s
      <4>1. d.version \in Nat /\ d.version =< old.version
        BY <3>1, <3>2 DEF SignedOk, old
      <4> QED BY <3>1, <3>2, <4>1, <2>3, <2>4 DEF SignedOk
    <3>3. CASE d.sub # s
      BY <3>1, <3>3, <2>4
    <3> QED BY <3>2, <3>3
  <2>7. PlacesBounded'
    BY <2>5, PlacesKept
  <2> QED BY <2>1, <2>4, <2>6, <2>7, <1>0 DEF SubscriptionsInv, RowsOk, VersionNamesSecret
<1>4. ASSUME NEW t \in Tenants, NEW s \in SubIds, RemoveSubscription(t, s) PROVE SubscriptionsInv'
  <2>1. /\ work' = work /\ signed' = {d \in signed : d.sub # s}
        /\ subs' = [subs EXCEPT ![s] = Removed]
    BY <1>4 DEF RemoveSubscription
  <2>2. /\ subs' \in [SubIds -> Rows \cup {NoSub, Removed}] /\ subs'[s] = Removed
        /\ \A r \in SubIds : r # s => subs'[r] = subs[r]
    BY <2>1, <1>0
  <2>3. \A u \in Tenants : Owned(u)' \subseteq Owned(u) /\ Inserting(u)' \subseteq Inserting(u)
    BY <2>1, <2>2 DEF Owned, Inserting
  <2>4. PlacesBounded'
    BY <2>3, PlacesKept
  <2>5. SignaturesTraced' /\ VersionNamesSecret'
    BY <2>1, <2>2, <1>0 DEF SignaturesTraced, VersionNamesSecret
  <2> QED BY <2>1, <2>2, <2>4, <2>5, <1>0 DEF SubscriptionsInv, RowsOk
<1>5. ASSUME NEW w \in Works, NEW s \in SubIds, NEW tooLarge, NEW mtls, PrepareDelivery(w, s, tooLarge, mtls)
      PROVE  SubscriptionsInv'
  <2> DEFINE d == [sub |-> s, version |-> subs[s].version, secret |-> subs[s].secret]
             next == [at |-> IF mtls THEN "certs" ELSE "post", sub |-> s]
  <2>1. subs' = subs /\ s \in Stored
    BY <1>5 DEF PrepareDelivery
  <2>2. CASE work' = work /\ signed' = signed
    <3>1. \A u \in Tenants : Owned(u)' \subseteq Owned(u) /\ Inserting(u)' \subseteq Inserting(u)
      BY <2>1, <2>2 DEF Owned, Inserting
    <3>2. PlacesBounded'
      BY <3>1, PlacesKept
    <3> QED BY <2>1, <2>2, <3>2, <1>0 DEF SubscriptionsInv, RowsOk, SignaturesTraced, VersionNamesSecret
  <2>3. CASE signed' = signed \cup {d} /\ work' = [work EXCEPT ![w] = next]
    <3>1. next.at # "insert"
      OBVIOUS
    <3>2. subs[s] \in Rows
      BY <2>1, <1>0 DEF Stored
    <3>3. d.sub = s /\ d.version = subs[s].version /\ d.secret = subs[s].secret /\ subs[s].version \in Nat
      BY <3>2 DEF Rows
    <3> HIDE DEF d, next
    <3>4. SignedOk(d, subs[s])
      BY <3>2, <3>3 DEF SignedOk
    <3>5. SignaturesTraced'
      BY <2>1, <2>3, <3>3, <3>4, <1>0 DEF SignaturesTraced
    <3>6. VersionNamesSecret'
      <4>1. \A e \in signed : (e.sub = s /\ e.version = d.version) => e.secret = d.secret
        BY <3>3, <1>0 DEF SignaturesTraced, SignedOk
      <4> QED BY <2>3, <3>3, <4>1, <1>0 DEF VersionNamesSecret
    <3>7. /\ DOMAIN work' = Works
          /\ \A v \in Works : work'[v].at = "insert" => work'[v].owner \in Tenants
          /\ \A t \in Tenants : Inserting(t)' \subseteq Inserting(t)
      BY <2>3, <3>1, MovedOn
    <3>8. \A u \in Tenants : Owned(u)' \subseteq Owned(u)
      BY <2>1 DEF Owned
    <3>9. PlacesBounded'
      BY <3>7, <3>8, PlacesKept
    <3> QED BY <2>1, <3>5, <3>6, <3>7, <3>9, <1>0 DEF SubscriptionsInv, RowsOk
  <2> QED BY <1>5, <2>2, <2>3 DEF PrepareDelivery
<1>6. ASSUME NEW w \in Works, NEW outcome, LoadCertificate(w, outcome) PROVE SubscriptionsInv'
  <2> DEFINE next == IF outcome = "valid" THEN [work[w] EXCEPT !.at = "post"] ELSE Rest
  <2>1. work[w].at = "certs" /\ work' = [work EXCEPT ![w] = next] /\ subs' = subs /\ signed' = signed
    BY <1>6 DEF LoadCertificate
  <2>2. next.at # "insert"
    BY <2>1, RestIs
  <2> HIDE DEF next
  <2> QED BY <2>1, <2>2, TableSame
<1>7. ASSUME NEW w \in Works, NEW status, Post(w, status) PROVE SubscriptionsInv'
  <2> DEFINE next == [at |-> "receipt", sub |-> work[w].sub, status |-> status]
  <2>1. work' = [work EXCEPT ![w] = next] /\ subs' = subs /\ signed' = signed
    BY <1>7 DEF Post
  <2>2. next.at # "insert"
    OBVIOUS
  <2> HIDE DEF next
  <2> QED BY <2>1, <2>2, TableSame
<1>8. ASSUME NEW w \in Works, NEW ok, createDeliveryReceipt(w, ok) PROVE SubscriptionsInv'
  BY <1>8, RestIs, TableSame DEF createDeliveryReceipt
<1>9. ASSUME UNCHANGED whVars PROVE SubscriptionsInv'
  <2>1. \A u \in Tenants : Owned(u)' \subseteq Owned(u) /\ Inserting(u)' \subseteq Inserting(u)
    BY <1>9 DEF whVars, Owned, Inserting
  <2>2. PlacesBounded'
    BY <2>1, PlacesKept
  <2> QED BY <1>9, <2>2, <1>0 DEF whVars, SubscriptionsInv, RowsOk, SignaturesTraced, VersionNamesSecret
<1> QED BY <1>1, <1>2, <1>3, <1>4, <1>5, <1>6, <1>7, <1>8, <1>9 DEF WhNext

\* A business goes over MAX_SUBSCRIPTIONS_PER_BUSINESS by less than the number of requests in
\* flight, and a version of a subscription names one secret, whatever updates, removals and
\* deliveries interleave: for any number of tenants, subscriptions and requests.
THEOREM SubscriptionsStay == WhSpec => []SubscriptionsHold
<1>1. SubscriptionsInv => SubscriptionsHold
  <2> SUFFICES ASSUME SubscriptionsInv PROVE SubscriptionsHold
    OBVIOUS
  <2>1. ASSUME NEW t \in Tenants PROVE countByBusiness(t) <= MaxSubscriptions + Cardinality(Works) - 1
    <3>1. Cardinality(Owned(t)) + Cardinality(Inserting(t)) =< MaxSubscriptions + Cardinality(Works) - 1
      BY DEF SubscriptionsInv, PlacesBounded
    <3>2. Cardinality(Owned(t)) \in Nat /\ Cardinality(Inserting(t)) \in Nat
          /\ Cardinality(Works) \in Nat /\ MaxSubscriptions \in Nat
      BY SetsFinite
    <3> QED BY <3>1, <3>2, CountIsOwned
  <2> QED BY <2>1 DEF SubscriptionsInv, SubscriptionsHold, SubscriptionsBounded
<1> QED BY <1>1, SubscriptionsStart, SubscriptionsStep, PTL DEF WhSpec

-----------------------------------------------------------------------------
(***************************************************************************)
(* RetryBudget, for any callers, budget and window: what the race between  *)
(* asking and recording can cost.                                          *)
(***************************************************************************)

\* The callers that were told yes and have not recorded their retry yet.
Recording == {c \in Callers : job[c].at \in {"record", "recordOnly"}}

CallerPlaces == {"calling", "ask", "askAgain", "refused", "record", "recordOnly", "backoff", "done"}

\* Each of them is accounted for already: without that the bound is not inductive.
BudgetInv ==
  /\ IsFiniteSet(attempts) /\ attempts \subseteq Nat \X Nat
  /\ faultsRb \in Nat
  /\ job \in [Callers -> [at : CallerPlaces, attempt : Nat]]
  /\ RedisCount + Cardinality(Recording) <= BudgetMax + (Cardinality(Callers) - 1) + faultsRb

\* There is always a number left that tells a new attempt from the others.
LEMMA StampIsNew ==
  ASSUME NEW M, IsFiniteSet(M)
  PROVE  \E k \in 0..Cardinality(M) : <<0, k>> \notin M
<1> SUFFICES ASSUME \A k \in 0..Cardinality(M) : <<0, k>> \in M PROVE FALSE
  OBVIOUS
<1> DEFINE n == Cardinality(M)
           f == [k \in 0..n |-> <<0, k>>]
<1>1. n \in Nat
  BY FS_CardinalityType
<1>2. f \in [0..n -> M]
  OBVIOUS
<1>3. IsFiniteSet(0..n) /\ Cardinality(0..n) = n + 1
  BY <1>1, FS_Interval
<1>4. Cardinality(M) < Cardinality(0..n)
  BY <1>1, <1>3
<1> HIDE DEF f
<1>5. \E x, y \in 0..n : x # y /\ f[x] = f[y]
  BY <1>2, <1>3, <1>4, FS_PigeonHole
<1> QED BY <1>5 DEF f

\* A stamp adds one attempt, of age 0.
LEMMA StampAdds ==
  ASSUME NEW M, IsFiniteSet(M), M \subseteq Nat \X Nat
  PROVE  /\ IsFiniteSet(Stamped(M)) /\ Stamped(M) \subseteq Nat \X Nat
         /\ \E m \in Nat \X Nat : m[1] = 0 /\ m \notin M /\ Stamped(M) = M \cup {m}
<1> DEFINE k == CHOOSE k \in 0..Cardinality(M) : <<0, k>> \notin M
<1>1. k \in 0..Cardinality(M) /\ <<0, k>> \notin M
  BY StampIsNew
<1>2. Cardinality(M) \in Nat
  BY FS_CardinalityType
<1>3. Stamped(M) = M \cup {<<0, k>>}
  BY DEF Stamped
<1> HIDE DEF k
<1>4. <<0, k>> \in Nat \X Nat /\ <<0, k>>[1] = 0
  BY <1>1, <1>2
<1>5. IsFiniteSet(M \cup {<<0, k>>})
  BY <1>1, FS_AddElement
<1> QED BY <1>1, <1>3, <1>4, <1>5

\* Aging makes no attempts.
LEMMA AgingKeeps ==
  ASSUME NEW M, IsFiniteSet(M)
  PROVE  IsFiniteSet(Older(M)) /\ Cardinality(Older(M)) <= Cardinality(M)
<1> DEFINE f == [a \in M |-> <<a[1] + 1, a[2]>>]
<1>1. f \in Surjection(M, Older(M))
  BY DEF Surjection, Older
<1> HIDE DEF f
<1> QED BY <1>1, FS_Surjection

\* The attempts in the window, and the callers on their way to record.
LEMMA BudgetCounts ==
  ASSUME BudgetInv
  PROVE  /\ \A n \in Int : IsFiniteSet(Kept(attempts, n)) /\ Cardinality(Kept(attempts, n)) \in Nat
         /\ IsFiniteSet(Recording) /\ Cardinality(Recording) \in Nat
         /\ Cardinality(Recording) <= Cardinality(Callers) /\ Cardinality(Callers) \in Nat \ {0}
<1>1. ASSUME NEW n \in Int PROVE IsFiniteSet(Kept(attempts, n)) /\ Cardinality(Kept(attempts, n)) \in Nat
  <2>1. Kept(attempts, n) \in SUBSET attempts
    BY DEF Kept
  <2>2. IsFiniteSet(Kept(attempts, n))
    BY <2>1, FS_Subset DEF BudgetInv
  <2> QED BY <2>2, FS_CardinalityType
<1>2. Recording \in SUBSET Callers /\ IsFiniteSet(Callers)
  BY BudgetAssumption DEF Recording
<1>3. IsFiniteSet(Recording) /\ Cardinality(Recording) <= Cardinality(Callers)
  BY <1>2, FS_Subset
<1>4. Cardinality(Recording) \in Nat /\ Cardinality(Callers) \in Nat
  BY <1>2, <1>3, FS_CardinalityType
<1>5. Cardinality(Callers) # 0
  BY <1>2, FS_EmptySet, BudgetAssumption
<1> QED BY <1>1, <1>3, <1>4, <1>5

LEMMA BudgetStarts == RbInit => BudgetInv
<1> SUFFICES ASSUME RbInit PROVE BudgetInv
  OBVIOUS
<1>1. attempts = {} /\ faultsRb = 0 /\ job = [c \in Callers |-> [at |-> "calling", attempt |-> 0]]
  BY DEF RbInit
<1>2. RedisCount = 0 /\ Cardinality(Recording) = 0
  <2>1. Kept(attempts, BudgetWindow - 1) = {} /\ Recording = {}
    BY <1>1 DEF Kept, Recording
  <2> QED BY <2>1, FS_EmptySet DEF RedisCount
<1>3. IsFiniteSet(attempts)
  BY <1>1, FS_EmptySet
<1>4. Cardinality(Callers) \in Nat \ {0}
  BY FS_EmptySet, FS_CardinalityType, BudgetAssumption
<1>5. job \in [Callers -> [at : CallerPlaces, attempt : Nat]]
  BY <1>1 DEF CallerPlaces
<1>6. RedisCount + Cardinality(Recording) <= BudgetMax + (Cardinality(Callers) - 1) + faultsRb
  BY <1>1, <1>2, <1>4, BudgetAssumption
<1> QED BY <1>1, <1>3, <1>5, <1>6 DEF BudgetInv

\* A caller that moves elsewhere than to record leaves the count of those that do, or lowers it.
LEMMA MovesElsewhere ==
  ASSUME BudgetInv, NEW c \in Callers, \A d \in Callers \ {c} : job'[d] = job[d],
         job'[c].at \notin {"record", "recordOnly"}
  PROVE  /\ IsFiniteSet(Recording') /\ Cardinality(Recording') \in Nat
         /\ Cardinality(Recording') <= Cardinality(Recording)
         /\ c \in Recording => Cardinality(Recording') = Cardinality(Recording) - 1
<1>3. Recording' = Recording \ {c}
  BY DEF Recording
<1>4. IsFiniteSet(Recording) /\ Cardinality(Recording) \in Nat
  BY BudgetCounts
<1>5. CASE c \in Recording
  <2>1. IsFiniteSet(Recording \ {c}) /\ Cardinality(Recording \ {c}) = Cardinality(Recording) - 1
    BY <1>4, <1>5, FS_RemoveElement
  <2>2. Cardinality(Recording \ {c}) \in Nat
    BY <2>1, FS_CardinalityType
  <2> QED BY <1>3, <1>4, <2>1, <2>2
<1>6. CASE c \notin Recording
  <2>1. Recording' = Recording
    BY <1>3, <1>6
  <2> QED BY <1>4, <1>6, <2>1
<1> QED BY <1>5, <1>6

\* Goto moves one caller.
LEMMA GotoMoves ==
  ASSUME BudgetInv, NEW c \in Callers, NEW place \in CallerPlaces, Goto(c, place)
  PROVE  /\ job' \in [Callers -> [at : CallerPlaces, attempt : Nat]]
         /\ job'[c].at = place /\ \A d \in Callers \ {c} : job'[d] = job[d]
<1>1. job \in [Callers -> [at : CallerPlaces, attempt : Nat]]
  BY DEF BudgetInv
<1>2. job' = [job EXCEPT ![c] = [job[c] EXCEPT !.at = place]]
  BY DEF Goto
<1>3. [job[c] EXCEPT !.at = place] \in [at : CallerPlaces, attempt : Nat] /\ [job[c] EXCEPT !.at = place].at = place
  BY <1>1
<1> QED BY <1>1, <1>2, <1>3

\* Nothing that keeps the attempts and sends nobody to record disturbs the account.
LEMMA QuietBudget ==
  ASSUME BudgetInv, NEW c \in Callers, \A d \in Callers \ {c} : job'[d] = job[d],
         job'[c].at \notin {"record", "recordOnly"},
         job' \in [Callers -> [at : CallerPlaces, attempt : Nat]],
         attempts' \in {attempts, Kept(attempts, BudgetWindow - 1)},
         faultsRb' \in {faultsRb, faultsRb + 1}
  PROVE  BudgetInv'
<1>1. Kept(attempts', BudgetWindow - 1) = Kept(attempts, BudgetWindow - 1)
  BY DEF Kept
<1>2. IsFiniteSet(attempts') /\ attempts' \subseteq Nat \X Nat
  <2>1. Kept(attempts, BudgetWindow - 1) \in SUBSET attempts
    BY DEF Kept
  <2>2. IsFiniteSet(Kept(attempts, BudgetWindow - 1))
    BY BudgetCounts, BudgetAssumption
  <2> QED BY <2>1, <2>2 DEF BudgetInv
<1>3. faultsRb' \in Nat /\ faultsRb' >= faultsRb /\ faultsRb \in Nat
  BY DEF BudgetInv
<1>4. RedisCount' = RedisCount /\ RedisCount \in Nat
  BY <1>1, BudgetCounts, BudgetAssumption DEF RedisCount
<1>5. Cardinality(Recording') \in Nat /\ Cardinality(Recording') <= Cardinality(Recording) /\ Cardinality(Recording) \in Nat
      /\ Cardinality(Callers) \in Nat
  BY MovesElsewhere, BudgetCounts
<1>6. RedisCount + Cardinality(Recording) <= BudgetMax + (Cardinality(Callers) - 1) + faultsRb
  BY DEF BudgetInv
<1>7. RedisCount' + Cardinality(Recording') <= BudgetMax + (Cardinality(Callers) - 1) + faultsRb'
  BY <1>3, <1>4, <1>5, <1>6, BudgetAssumption
<1> QED BY <1>2, <1>3, <1>7 DEF BudgetInv

\* One reading of the count.  A caller sent on to record was told yes by Redis, which held
\* less than the budget, or by the list of the process, which cost a fault.
LEMMA AskKeeps ==
  ASSUME BudgetInv, NEW c \in Callers, NEW yes \in CallerPlaces, NEW no \in CallerPlaces \ {"record", "recordOnly"},
         job[c].at \notin {"record", "recordOnly"}, AskBudget(c, yes, no)
  PROVE  BudgetInv'
<1> DEFINE place == IF job'[c].at = yes THEN yes ELSE no
<1>0. /\ \/ /\ attempts' = Kept(attempts, BudgetWindow - 1) /\ faultsRb' = faultsRb
            /\ \/ Goto(c, yes) /\ RedisCount < BudgetMax
               \/ Goto(c, no)
         \/ /\ attempts' = attempts /\ faultsRb' = faultsRb + 1
            /\ Goto(c, yes) \/ Goto(c, no)
  BY DEF AskBudget, Allowed
<1>1. CASE Goto(c, no)
  BY <1>0, <1>1, GotoMoves, QuietBudget
<1>2. CASE Goto(c, yes) /\ yes \notin {"record", "recordOnly"}
  BY <1>0, <1>2, GotoMoves, QuietBudget
<1>3. CASE /\ Goto(c, yes) /\ yes \in {"record", "recordOnly"}
           /\ \/ attempts' = Kept(attempts, BudgetWindow - 1) /\ faultsRb' = faultsRb /\ RedisCount < BudgetMax
              \/ attempts' = attempts /\ faultsRb' = faultsRb + 1
  <2>1. /\ job' \in [Callers -> [at : CallerPlaces, attempt : Nat]] /\ job'[c].at = yes
        /\ \A d \in Callers \ {c} : job'[d] = job[d]
    BY <1>3, GotoMoves
  <2>2. c \notin Recording /\ Recording' = Recording \cup {c}
    BY <1>3, <2>1 DEF Recording
  <2>3. /\ IsFiniteSet(Recording) /\ Cardinality(Recording) \in Nat /\ Cardinality(Callers) \in Nat \ {0}
        /\ RedisCount \in Nat
    BY BudgetCounts, BudgetAssumption DEF RedisCount
  <2>4. Cardinality(Recording') = Cardinality(Recording) + 1
    BY <2>2, <2>3, FS_AddElement
  <2>5. Cardinality(Recording') <= Cardinality(Callers)
    <3>1. Recording' \in SUBSET Callers
      BY DEF Recording
    <3> QED BY <3>1, FS_Subset, BudgetAssumption
  <2>6. Kept(attempts', BudgetWindow - 1) = Kept(attempts, BudgetWindow - 1)
    BY <1>3 DEF Kept
  <2>7. RedisCount' = RedisCount
    BY <2>6 DEF RedisCount
  <2>8. IsFiniteSet(attempts') /\ attempts' \subseteq Nat \X Nat
    <3>1. Kept(attempts, BudgetWindow - 1) \in SUBSET attempts
      BY DEF Kept
    <3>2. IsFiniteSet(Kept(attempts, BudgetWindow - 1))
      BY BudgetCounts, BudgetAssumption
    <3> QED BY <1>3, <3>1, <3>2 DEF BudgetInv
  <2>9. faultsRb \in Nat /\ RedisCount + Cardinality(Recording) <= BudgetMax + (Cardinality(Callers) - 1) + faultsRb
    BY DEF BudgetInv
  <2>10. RedisCount' + Cardinality(Recording') <= BudgetMax + (Cardinality(Callers) - 1) + faultsRb'
    BY <1>3, <2>3, <2>4, <2>5, <2>7, <2>9, BudgetAssumption
  <2>11. faultsRb' \in Nat
    BY <1>3, <2>9
  <2> QED BY <2>1, <2>8, <2>10, <2>11 DEF BudgetInv
<1> QED BY <1>0, <1>1, <1>2, <1>3

\* Every step keeps the account.
LEMMA BudgetStep == BudgetInv /\ [RbNext]_rbVars => BudgetInv'
<1> SUFFICES ASSUME BudgetInv, [RbNext]_rbVars PROVE BudgetInv'
  OBVIOUS
<1>0. /\ job \in [Callers -> [at : CallerPlaces, attempt : Nat]] /\ faultsRb \in Nat
      /\ IsFiniteSet(attempts) /\ attempts \subseteq Nat \X Nat
      /\ RedisCount + Cardinality(Recording) <= BudgetMax + (Cardinality(Callers) - 1) + faultsRb
  BY DEF BudgetInv
<1>p. /\ {"calling", "ask", "askAgain", "refused", "record", "recordOnly", "backoff", "done"} \subseteq CallerPlaces
  BY DEF CallerPlaces
<1>1. ASSUME NEW c \in Callers, NEW ok \in BOOLEAN, CallSettles(c, ok) PROVE BudgetInv'
  <2>1. attempts' = attempts /\ faultsRb' = faultsRb /\ (Goto(c, "done") \/ Goto(c, "ask"))
    BY <1>1 DEF CallSettles
  <2> QED BY <1>p, <2>1, GotoMoves, QuietBudget
<1>2. ASSUME NEW c \in Callers, Ask(c) PROVE BudgetInv'
  BY <1>2, <1>p, AskKeeps DEF Ask, At
<1>3. ASSUME NEW c \in Callers, AskAgain(c) PROVE BudgetInv'
  BY <1>3, <1>p, AskKeeps DEF AskAgain, At
<1>4. ASSUME NEW c \in Callers, Refused(c) PROVE BudgetInv'
  BY <1>4, <1>p, AskKeeps DEF Refused, At
<1>5. ASSUME NEW c \in Callers, Record(c) PROVE BudgetInv'
  <2>1. /\ job[c].at \in {"record", "recordOnly"}
        /\ attempts' \in {attempts, Stamped(attempts)} /\ faultsRb' \in {faultsRb, faultsRb + 1}
        /\ job' = [job EXCEPT ![c] = IF job[c].at = "record"
                                     THEN [at |-> "backoff", attempt |-> job[c].attempt + 1]
                                     ELSE [job[c] EXCEPT !.at = "done"]]
    BY <1>5 DEF Record
  <2>2. /\ job' \in [Callers -> [at : CallerPlaces, attempt : Nat]]
        /\ job'[c].at \notin {"record", "recordOnly"} /\ \A d \in Callers \ {c} : job'[d] = job[d]
    <3> DEFINE new == IF job[c].at = "record" THEN [at |-> "backoff", attempt |-> job[c].attempt + 1]
                      ELSE [job[c] EXCEPT !.at = "done"]
    <3>1. new \in [at : CallerPlaces, attempt : Nat] /\ new.at \notin {"record", "recordOnly"}
      BY <1>0, <1>p
    <3>2. job' = [job EXCEPT ![c] = new]
      BY <2>1
    <3> HIDE DEF new
    <3> QED BY <1>0, <3>1, <3>2
  <2>3. /\ c \in Recording /\ Cardinality(Recording') = Cardinality(Recording) - 1
        /\ Cardinality(Recording) \in Nat /\ Cardinality(Callers) \in Nat
    BY <2>1, <2>2, MovesElsewhere, BudgetCounts DEF Recording
  <2>4. PICK m \in Nat \X Nat : m[1] = 0 /\ m \notin attempts /\ Stamped(attempts) = attempts \cup {m}
    BY <1>0, StampAdds
  <2>5. IsFiniteSet(attempts') /\ attempts' \subseteq Nat \X Nat
    BY <1>0, <2>1, StampAdds
  <2>6. /\ IsFiniteSet(Kept(attempts, BudgetWindow - 1)) /\ RedisCount \in Nat
    BY BudgetCounts, BudgetAssumption DEF RedisCount
  <2>7. \/ Kept(attempts', BudgetWindow - 1) = Kept(attempts, BudgetWindow - 1)
        \/ Kept(attempts', BudgetWindow - 1) = Kept(attempts, BudgetWindow - 1) \cup {m}
    BY <2>1, <2>4 DEF Kept
  <2>8. m \notin Kept(attempts, BudgetWindow - 1)
    BY <2>4 DEF Kept
  <2>9. RedisCount' \in Nat /\ RedisCount' <= RedisCount + 1
    <3>1. Cardinality(Kept(attempts, BudgetWindow - 1) \cup {m}) = Cardinality(Kept(attempts, BudgetWindow - 1)) + 1
      BY <2>6, <2>8, FS_AddElement
    <3> DEFINE K == Kept(attempts, BudgetWindow - 1)
    <3>2. RedisCount = Cardinality(K) /\ RedisCount' = Cardinality(Kept(attempts', BudgetWindow - 1))
      BY DEF RedisCount
    <3>3. RedisCount' = Cardinality(K) \/ RedisCount' = Cardinality(K \cup {m})
      BY <2>7, <3>2
    <3> HIDE DEF K
    <3> QED BY <2>6, <3>1, <3>2, <3>3 DEF K
  <2>10. faultsRb' \in Nat /\ faultsRb' >= faultsRb
    BY <1>0, <2>1
  <2>11. RedisCount' + Cardinality(Recording') <= BudgetMax + (Cardinality(Callers) - 1) + faultsRb'
    BY <1>0, <2>3, <2>6, <2>9, <2>10, BudgetAssumption
  <2> QED BY <2>2, <2>5, <2>10, <2>11 DEF BudgetInv
<1>6. ASSUME NEW c \in Callers, Backoff(c) PROVE BudgetInv'
  <2>1. attempts' = attempts /\ faultsRb' = faultsRb /\ Goto(c, "calling")
    BY <1>6 DEF Backoff
  <2> QED BY <1>p, <2>1, GotoMoves, QuietBudget
<1>7. ASSUME NEW c \in Callers, NextCall(c) PROVE BudgetInv'
  <2>1. attempts' = attempts /\ faultsRb' = faultsRb /\ job' = [job EXCEPT ![c] = [at |-> "calling", attempt |-> 0]]
    BY <1>7 DEF NextCall
  <2>2. /\ job' \in [Callers -> [at : CallerPlaces, attempt : Nat]]
        /\ job'[c].at \notin {"record", "recordOnly"} /\ \A d \in Callers \ {c} : job'[d] = job[d]
    <3> DEFINE new == [at |-> "calling", attempt |-> 0]
    <3>1. new \in [at : CallerPlaces, attempt : Nat] /\ new.at \notin {"record", "recordOnly"}
      BY <1>p
    <3> HIDE DEF new
    <3>2. job' = [job EXCEPT ![c] = new]
      BY <2>1 DEF new
    <3> QED BY <1>0, <3>1, <3>2
  <2> QED BY <2>1, <2>2, QuietBudget
<1>8. CASE RbTick
  <2> DEFINE W == BudgetWindow - 1
             Young == Kept(attempts, W - 1)
  <2>1. attempts' = Kept(Older(attempts), BudgetWindow) /\ job' = job /\ faultsRb' = faultsRb
    BY <1>8 DEF RbTick
  <2>2. IsFiniteSet(attempts') /\ attempts' \subseteq Nat \X Nat
    <3>1. IsFiniteSet(Older(attempts))
      BY <1>0, AgingKeeps
    <3>2. attempts' \in SUBSET Older(attempts)
      BY <2>1 DEF Kept
    <3>3. Older(attempts) \subseteq Nat \X Nat
      BY <1>0 DEF Older
    <3> QED BY <3>1, <3>2, <3>3, FS_Subset
  <2>3. Kept(attempts', W) = Older(Young)
    BY <1>0, <2>1, BudgetAssumption DEF Kept, Older
  <2>4. Young \in SUBSET Kept(attempts, W)
    BY <1>0, BudgetAssumption DEF Kept
  <2>5. IsFiniteSet(Kept(attempts, W)) /\ RedisCount \in Nat
    BY BudgetCounts, BudgetAssumption DEF RedisCount
  <2>6. IsFiniteSet(Young) /\ Cardinality(Young) <= Cardinality(Kept(attempts, W))
    BY <2>4, <2>5, FS_Subset
  <2>7. /\ IsFiniteSet(Older(Young)) /\ Cardinality(Older(Young)) <= Cardinality(Young)
        /\ Cardinality(Older(Young)) \in Nat /\ Cardinality(Young) \in Nat
    BY <2>6, AgingKeeps, FS_CardinalityType
  <2>8. RedisCount' \in Nat /\ RedisCount' <= RedisCount
    BY <2>3, <2>5, <2>6, <2>7 DEF RedisCount
  <2>9. Recording' = Recording /\ Cardinality(Recording) \in Nat /\ Cardinality(Callers) \in Nat
    BY <2>1, BudgetCounts DEF Recording
  <2>10. RedisCount' + Cardinality(Recording') <= BudgetMax + (Cardinality(Callers) - 1) + faultsRb'
    BY <1>0, <2>1, <2>5, <2>8, <2>9, BudgetAssumption
  <2> QED BY <1>0, <2>1, <2>2, <2>10 DEF BudgetInv
<1>9. CASE UNCHANGED rbVars
  BY <1>9 DEF rbVars, BudgetInv, RedisCount, Recording
<1> QED BY <1>1, <1>2, <1>3, <1>4, <1>5, <1>6, <1>7, <1>8, <1>9 DEF RbNext

\* What the race between canRetry and recordRetry can cost is bounded for any callers,
\* budget and window: the sorted set holds at most the budget, one attempt for every other
\* caller, and one for every answer that the list of the process gave for Redis.
THEOREM OvershootIsBounded == RbSpec => []OvershootBounded
<1>1. BudgetInv => OvershootBounded
  <2> SUFFICES ASSUME BudgetInv PROVE OvershootBounded
    OBVIOUS
  <2>1. /\ Cardinality(Recording) \in Nat /\ RedisCount \in Nat /\ Cardinality(Callers) \in Nat
    BY BudgetCounts, BudgetAssumption DEF RedisCount
  <2>2. faultsRb \in Nat /\ RedisCount + Cardinality(Recording) <= BudgetMax + (Cardinality(Callers) - 1) + faultsRb
    BY DEF BudgetInv
  <2> QED BY <2>1, <2>2, BudgetAssumption DEF OvershootBounded
<1> QED BY <1>1, BudgetStarts, BudgetStep, PTL DEF RbSpec

=============================================================================
