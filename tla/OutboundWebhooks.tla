-------------------------- MODULE OutboundWebhooks --------------------------
(***************************************************************************)
(* Outbound webhooks: the subscriptions (routes/webhook-subscriptions.ts,  *)
(* repositories/webhookSubscriptionRepository.ts) and a delivery           *)
(* (services/webhooks/dispatcher.ts) with its receipt.                     *)
(*                                                                         *)
(* Every SQL statement is one action; creating a subscription is two, the  *)
(* count and the insert.  The table is taken to have the mtls_config       *)
(* column the insert names: the migrations of the repository do not create *)
(* it, and without it every insert fails.  A payload is over the cap of    *)
(* its subscription or not; of a row the owner, the secret and its version *)
(* are kept, and the event filters are left out.                           *)
(***************************************************************************)
EXTENDS Integers, FiniteSets

CONSTANTS Tenants, SubIds, NoSub, Removed,
          WhSecrets,          \* SubIds are the integers the table gives out in order
          Works,              \* requests and deliveries in flight
          MaxSubscriptions,   \* MAX_SUBSCRIPTIONS_PER_BUSINESS
          MaxVersion          \* bound: versions of a secret

ASSUME SubscriptionAssumption ==
    /\ MaxSubscriptions \in Nat \ {0}
    /\ IsFiniteSet(Works) /\ IsFiniteSet(SubIds)
    /\ \A none \in {NoSub, Removed} : none \notin [owner : Tenants, secret : WhSecrets, version : Nat]

VARIABLES
    subs,            \* table webhook_subscriptions
    work,            \* handler -> what it holds between two statements
    signed,          \* history: what deliveries of the stored rows were signed with
    entry            \* the last receipt, or audit entry of a rejection

whVars == <<subs, work, signed, entry>>

Rest == [at |-> "rest"]

WhInit ==
    /\ subs = [s \in SubIds |-> NoSub]
    /\ work = [w \in Works |-> Rest]
    /\ signed = {} /\ entry = "none"

Stored == {s \in SubIds : subs[s] \notin {NoSub, Removed}}
countByBusiness(t) == Cardinality({s \in Stored : subs[s].owner = t})

-----------------------------------------------------------------------------
(* The subscriptions. *)

(* Mutant: the eleventh is let through. *)
UnderLimit_Inclusive(n) == n <= MaxSubscriptions

UnderLimit(n) == n < MaxSubscriptions

(* POST /, first half: the count. *)
CountSubscriptions(w, t) ==
    /\ work[w] = Rest /\ UnderLimit(countByBusiness(t))
    /\ work' = [work EXCEPT ![w] = [at |-> "insert", owner |-> t]]
    /\ UNCHANGED <<subs, signed, entry>>

(* POST /, second half; it fails for a url the business has already. *)
InsertSubscription(w, s, secret) ==
    /\ work[w].at = "insert"
    /\ work' = [work EXCEPT ![w] = Rest]
    /\ \/ /\ subs[s] = NoSub /\ \A r \in SubIds : subs[r] = NoSub => s <= r
          /\ subs' = [subs EXCEPT ![s] = [owner |-> work[w].owner, secret |-> secret,
                                          version |-> 1]]
       \/ UNCHANGED subs
    /\ UNCHANGED <<signed, entry>>

(* The SET list of update(): the version counts the statements that set a secret. *)
Updated(row, secret) == [row EXCEPT !.secret = secret, !.version = @ + 1]

(* PATCH /:id with a secret; without one the fields kept here stay. *)
UpdateSubscription(t, s, secret) ==
    /\ s \in Stored /\ subs[s].owner = t /\ subs[s].version < MaxVersion
    /\ subs' = [subs EXCEPT ![s] = Updated(@, secret)]
    /\ UNCHANGED <<work, signed, entry>>

RemoveSubscription(t, s) ==
    /\ s \in Stored /\ subs[s].owner = t
    /\ subs' = [subs EXCEPT ![s] = Removed]
    /\ signed' = {d \in signed : d.sub # s}
    /\ UNCHANGED <<work, entry>>

-----------------------------------------------------------------------------
(* signAndPrepareDelivery, on the row its caller read and found to want the
   event (the filters only say whether it is called): a payload over the cap
   is audited and thrown; else it is signed with this row's secret. *)
PrepareDelivery(w, s, tooLarge, mtls) ==
    /\ work[w] = Rest
    /\ s \in Stored
    /\ \/ /\ tooLarge
          /\ entry' = "PAYLOAD_TOO_LARGE"
          /\ UNCHANGED <<work, signed>>
       \/ /\ ~tooLarge
          /\ signed' = signed \cup {[sub |-> s, version |-> subs[s].version,
                                     secret |-> subs[s].secret]}
          /\ work' = [work EXCEPT ![w] = [at |-> IF mtls THEN "certs" ELSE "post", sub |-> s]]
          /\ UNCHANGED entry
    /\ UNCHANGED subs

(* The client certificate: missing secrets throw, an expired one is audited. *)
LoadCertificate(w, outcome) ==
    /\ work[w].at = "certs"
    /\ work' = [work EXCEPT ![w] = IF outcome = "valid" THEN [@ EXCEPT !.at = "post"] ELSE Rest]
    /\ entry' = IF outcome = "expired" THEN "MTLS_CERT_EXPIRED" ELSE entry
    /\ UNCHANGED <<subs, signed>>

(* fetch settles: a status, or 0 for a network error; either has a receipt to
   be written. *)
Post(w, status) ==
    /\ work[w].at = "post"
    /\ work' = [work EXCEPT ![w] = [at |-> "receipt", sub |-> work[w].sub, status |-> status]]
    /\ UNCHANGED <<subs, signed, entry>>

createDeliveryReceipt(w, ok) ==
    /\ work[w].at = "receipt"
    /\ entry' = IF ok THEN work[w].status ELSE entry
    /\ work' = [work EXCEPT ![w] = Rest]
    /\ UNCHANGED <<subs, signed>>

WhNext ==
    \/ \E t \in Tenants, s \in SubIds :
          \/ \E secret \in WhSecrets : UpdateSubscription(t, s, secret)
          \/ RemoveSubscription(t, s)
    \/ \E w \in Works :
          \/ \E t \in Tenants : CountSubscriptions(w, t)
          \/ \E s \in SubIds, secret \in WhSecrets : InsertSubscription(w, s, secret)
          \/ \E s \in SubIds, tooLarge, mtls \in BOOLEAN : PrepareDelivery(w, s, tooLarge, mtls)
          \/ \E outcome \in {"valid", "expired", "missing"} : LoadCertificate(w, outcome)
          \/ \E status \in {"ok", "error", "unreachable"} : Post(w, status)
          \/ \E ok \in BOOLEAN : createDeliveryReceipt(w, ok)

WhSpec == WhInit /\ [][WhNext]_whVars

-----------------------------------------------------------------------------
(* The limit counts before it inserts: a business goes over it by no more
   than the requests that had counted when the last free place was taken. *)
SubscriptionsBounded ==
    \A t \in Tenants : countByBusiness(t) <= MaxSubscriptions + Cardinality(Works) - 1

(* A version names one secret: two deliveries of a subscription signed under
   one version were signed with one secret, whatever updates ran between. *)
VersionNamesSecret ==
    \A d, e \in signed : (d.sub = e.sub /\ d.version = e.version) => d.secret = e.secret

(* Both: what the limit and the versions of subscriptions guarantee. *)
SubscriptionsHold == SubscriptionsBounded /\ VersionNamesSecret
=============================================================================
