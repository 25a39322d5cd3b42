---------------------------- MODULE Integrations ----------------------------
(***************************************************************************)
(* Connections to Shopify, Stripe and Razorpay: services/integrations/*,   *)
(* their routes, the management routes of routes/integrations.ts and the   *)
(* two in-memory repositories behind them.                                 *)
(*                                                                         *)
(* A handler that calls a provider is two actions: up to the awaited call, *)
(* and from its answer on, where only in-memory repositories are awaited.  *)
(* The retries inside that call are in module RetryBudget.  A user owns    *)
(* one business and requireBusinessAuth admits only the owner, so a        *)
(* business stands for its user too.  Shops, accounts and credentials that *)
(* fail validation are the input "bad"; ids and tokens come from `serial`. *)
(***************************************************************************)
EXTENDS Integers, FiniteSets

CONSTANTS Businesses, Shops, StripeAccounts, Slots, NoShop,
          StateTtl,     \* ticks an OAuth state lives
          MaxStates,    \* bound: OAuth states started
          MaxSerial     \* bound: ids and tokens made

VARIABLES
    oauth,       \* the three state stores, by state
    records,     \* repositories/integration.ts
    rzpStore,    \* repositories/integrations.ts, the Razorpay one
    shopTokens,  \* shop -> token
    call,        \* slot -> the request awaiting a provider
    serial,      \* the last id or token made
    wins,        \* history: connections made per state
    revoked,     \* history: tokens the provider has revoked
    dropped      \* history: what Shopify disconnects deleted

igVars == <<oauth, records, rzpStore, shopTokens, call, serial, wins, revoked, dropped>>

None == 0
Free == [at |-> "free"]
States == 1..MaxStates

IgInit ==
    /\ oauth = [s \in States |-> Free]
    /\ records = {} /\ rzpStore = {}
    /\ shopTokens = [s \in Shops |-> None]
    /\ call = [c \in Slots |-> Free]
    /\ serial = 0
    /\ wins = [s \in States |-> 0]
    /\ revoked = {} /\ dropped = {}

-----------------------------------------------------------------------------
(* repositories/integration.ts. *)
listByBusinessId(b) == {r \in records : r.biz = b}

create(b, provider, ext, tok) ==
    records \cup {[id |-> serial + 1, biz |-> b, provider |-> provider, ext |-> ext, tok |-> tok]}

update(b, id, tok) ==
    {IF r.id = id /\ r.biz = b THEN [r EXCEPT !.tok = tok] ELSE r : r \in records}

deleteById(b, id) == {r \in records : ~(r.id = id /\ r.biz = b)}

(* repositories/integrations.ts. *)

findByBusinessAndProvider(b) == {r \in rzpStore : r.biz = b}

-----------------------------------------------------------------------------
(* OAuth states. *)

(* A fresh state is stored; the stores differ only in what they keep with it. *)
setOAuthState(kind, b, shop) ==
    \E s \in States :
        /\ oauth[s] = Free /\ \A t \in 1..(s - 1) : oauth[t] # Free
        /\ oauth' = [oauth EXCEPT ![s] =
              [at |-> "open", kind |-> kind, biz |-> b, shop |-> shop, ttl |-> StateTtl]]
        /\ UNCHANGED <<records, rzpStore, shopTokens, call, serial, wins, revoked, dropped>>

(* startConnect of Shopify, refused for a shop that does not normalise to a
   valid host; of Stripe, which keeps neither user nor business; and
   initiateRazorpayConnect.  An unset client id leaves no state. *)
startConnectShopify(b, shop) == shop \in Shops /\ setOAuthState("shopify", b, shop)
startConnectStripe(b) == setOAuthState("stripe", b, NoShop)
initiateRazorpayConnect(b) == setOAuthState("razorpay", b, NoShop)

(* consumeOAuthState and consumeStateToken: deleted first, expired or not. *)
consumeOAuthState(s) ==
    oauth' = [oauth EXCEPT ![s] = IF @ = Free THEN @ ELSE [at |-> "gone"]]

Presentable(s, kind) == oauth[s].at = "open" /\ oauth[s].kind = kind
Valid(s) == oauth[s].ttl >= 0

(* A callback whose state is expired or of another shop: it is refused, and
   the state is used up by it.  An unknown one changes nothing. *)
RefuseCallback(s, kind, shop) ==
    /\ Presentable(s, kind)
    /\ ~Valid(s) \/ oauth[s].shop # shop
    /\ consumeOAuthState(s)
    /\ UNCHANGED <<records, rzpStore, shopTokens, call, serial, wins, revoked, dropped>>

(* cleanupExpiredStates, the interval of stripe/store.ts. *)
cleanupExpiredStates ==
    /\ \E s \in States : Presentable(s, "stripe") /\ ~Valid(s)
    /\ oauth' = [s \in States |-> IF Presentable(s, "stripe") /\ ~Valid(s)
                                  THEN [at |-> "gone"] ELSE oauth[s]]
    /\ UNCHANGED <<records, rzpStore, shopTokens, call, serial, wins, revoked, dropped>>

(* validateRazorpayState, for a callback that is not mounted yet: its one
   effect is on the store. *)
validateRazorpayState(s) ==
    /\ Presentable(s, "razorpay")
    /\ consumeOAuthState(s)
    /\ wins' = [wins EXCEPT ![s] = IF Valid(s) THEN @ + 1 ELSE @]
    /\ UNCHANGED <<records, rzpStore, shopTokens, call, serial, revoked, dropped>>

Enter(c, rec) == call[c] = Free /\ call' = [call EXCEPT ![c] = rec]
Leave(c) == call' = [call EXCEPT ![c] = Free]

(* Shopify's handleCallback up to the token exchange: parameters, HMAC and
   host are checked before the state is used; it acts for the state's business. *)
StartShopifyCallback(c, s) ==
    /\ Presentable(s, "shopify") /\ Valid(s)
    /\ consumeOAuthState(s)
    /\ Enter(c, [at |-> "shopify", biz |-> oauth[s].biz, shop |-> oauth[s].shop, state |-> s])
    /\ UNCHANGED <<records, rzpStore, shopTokens, serial, wins, revoked, dropped>>

(* Stripe's: it acts for the business that presents the state. *)
StartStripeCallback(c, s, b) ==
    /\ Presentable(s, "stripe") /\ Valid(s)
    /\ consumeOAuthState(s)
    /\ Enter(c, [at |-> "stripe", biz |-> b, shop |-> NoShop, state |-> s])
    /\ UNCHANGED <<records, rzpStore, shopTokens, serial, wins, revoked, dropped>>

(* A provider call that fails before anything is written: no answer, no retry
   budget, an error status, an answer without the wanted fields. *)
Abandon(c, kind) ==
    /\ call[c].at = kind
    /\ Leave(c)
    /\ UNCHANGED <<oauth, records, rzpStore, shopTokens, serial, wins, revoked, dropped>>

ShopifyExchangeFails(c) == Abandon(c, "shopify")
StripeExchangeFails(c) == Abandon(c, "stripe")
CredentialCheckFails(c) == Abandon(c, "razorpay")

(* handleCallback's tail: the token store; a record of another shop goes with
   its token; a record of this shop is updated, or one is created. *)
PersistShopify(b, shop, tok) ==
    LET mine  == {r \in listByBusinessId(b) : r.provider = "shopify"}
        other == {r \in mine : r.ext # shop}
    IN  /\ records' = IF mine \ other # {}
                      THEN update(b, (CHOOSE r \in mine : TRUE).id, tok)
                      ELSE create(b, "shopify", shop, tok) \ other
        /\ shopTokens' = [h \in Shops |->
              IF \E r \in other : r.ext = h THEN None
              ELSE IF h = shop THEN tok ELSE shopTokens[h]]

ShopifyConnected(c) ==
    LET q == call[c] IN
    /\ q.at = "shopify" /\ serial + 2 <= MaxSerial
    /\ PersistShopify(q.biz, q.shop, serial + 2)
    /\ serial' = serial + 2
    /\ wins' = [wins EXCEPT ![q.state] = @ + 1]
    /\ Leave(c)
    /\ UNCHANGED <<oauth, rzpStore, revoked, dropped>>

(* Stripe: one record per account; the account is the provider's answer.  The
   callback imports repositories/IntegrationRepository.js, which does not exist;
   the records are those of repositories/integration.ts. *)
StripeConnected(c, account) ==
    LET q    == call[c]
        mine == {r \in listByBusinessId(q.biz) : r.provider = "stripe" /\ r.ext = account}
    IN  /\ q.at = "stripe" /\ serial + 2 <= MaxSerial
        /\ records' = IF mine # {} THEN update(q.biz, (CHOOSE r \in mine : TRUE).id, serial + 2)
                      ELSE create(q.biz, "stripe", account, serial + 2)
        /\ serial' = serial + 2
        /\ wins' = [wins EXCEPT ![q.state] = @ + 1]
        /\ Leave(c)
        /\ UNCHANGED <<oauth, rzpStore, shopTokens, revoked, dropped>>

-----------------------------------------------------------------------------
(* connectRazorpay: the duplicate check, then the credential check; `began`
   is a history variable of the request. *)
StartRazorpay(c, b) ==
    /\ findByBusinessAndProvider(b) = {}
    /\ Enter(c, [at |-> "razorpay", biz |-> b, began |-> serial])
    /\ UNCHANGED <<oauth, records, rzpStore, shopTokens, serial, wins, revoked, dropped>>

RazorpayConnected(c) ==
    /\ call[c].at = "razorpay" /\ serial < MaxSerial
    /\ rzpStore' = rzpStore \cup {[id |-> serial + 1, biz |-> call[c].biz, began |-> call[c].began]}
    /\ serial' = serial + 1
    /\ Leave(c)
    /\ UNCHANGED <<oauth, records, shopTokens, wins, revoked, dropped>>

disconnectRazorpay(b, r) ==
    /\ r.biz = b
    /\ rzpStore' = rzpStore \ {r}
    /\ UNCHANGED <<oauth, records, shopTokens, call, serial, wins, revoked, dropped>>

-----------------------------------------------------------------------------
(* disconnectShopify: the record is read here and used after the answer. *)
StartDisconnect(c, b) ==
    /\ \E r \in listByBusinessId(b) :
          /\ r.provider = "shopify"
          /\ Enter(c, [at |-> "revoke", biz |-> b, rec |-> r])
    /\ UNCHANGED <<oauth, records, rzpStore, shopTokens, serial, wins, revoked, dropped>>

(* Mutant: an error status of the provider counts as revoked. *)
RevokeSucceeds_Always(tok, status) == TRUE

(* revokeShopifyAccess: accepted, or refused as 401, 403 or 404, which it
   reads as revoked already. *)
RevokeSucceeds(tok, status) == status \in {"ok", "gone"}

(* The provider answers "gone" only for a token it has revoked: an assumption
   about Shopify. *)
RevokeAnswered(c, status) ==
    LET q == call[c] IN
    /\ q.at = "revoke"
    /\ status = "gone" => q.rec.tok \in revoked
    /\ revoked' = IF status = "ok" THEN revoked \cup {q.rec.tok} ELSE revoked
    /\ LET now == {r \in records : r.id = q.rec.id} IN
       IF RevokeSucceeds(q.rec.tok, status)
       THEN /\ records' = deleteById(q.biz, q.rec.id)
            /\ dropped' = dropped \cup {[tok |-> r.tok, read |-> q.rec.tok] : r \in now}
            /\ shopTokens' = IF now # {} THEN [shopTokens EXCEPT ![q.rec.ext] = None] ELSE shopTokens
       ELSE UNCHANGED <<records, dropped, shopTokens>>
    /\ Leave(c)
    /\ UNCHANGED <<oauth, rzpStore, serial, wins>>

-----------------------------------------------------------------------------
(* The policy of middleware/permissions.ts for the management routes. *)
Wildcard == "*"
DEFAULT_POLICY ==
    {[effect |-> "allow", actions |-> {"read", "create", "update", "delete"},
      resources |-> {"integration"}, role |-> "user", tenantScope |-> "same"],
     [effect |-> "allow", actions |-> {Wildcard}, resources |-> {"integration"},
      role |-> "business_admin", tenantScope |-> "same"],
     [effect |-> "allow", actions |-> {Wildcard}, resources |-> {Wildcard},
      role |-> "admin", tenantScope |-> "any"]}

matches(value, values) == Wildcard \in values \/ value \in values

ruleMatches(rule, req) ==
    /\ matches(req.action, rule.actions) /\ matches(req.resource, rule.resources)
    /\ rule.role = req.role
    /\ rule.tenantScope = "same" => req.actorTenant = req.resourceTenant

(* A matching deny wins over every allow; without a match the answer is no. *)
evaluatePolicy(req) ==
    LET matching == {rule \in DEFAULT_POLICY : ruleMatches(rule, req)} IN
    /\ \A rule \in matching : rule.effect # "deny"
    /\ matching # {}

(* requirePolicy: the owner of the record is looked up before the handler
   reads it again.  The decision is recorded in the audit log (AuditLog). *)
requirePolicy(action, role, b, owner) ==
    evaluatePolicy([action |-> action, resource |-> "integration", role |-> role,
                    actorTenant |-> b, resourceTenant |-> owner])

(* DELETE /integrations/:id: a platform admin passes the policy for any
   tenant, but the handler looks only among the records of the business; neither
   the provider nor the token store hears of it. *)
DeleteIntegration(b, role, r) ==
    /\ requirePolicy("delete", role, b, r.biz)
    /\ r \in listByBusinessId(b)
    /\ records' = deleteById(b, r.id)
    /\ UNCHANGED <<oauth, rzpStore, shopTokens, call, serial, wins, revoked, dropped>>

IgTick ==
    /\ \E s \in States : oauth[s].at = "open" /\ Valid(s)
    /\ oauth' = [s \in States |-> IF oauth[s].at = "open" /\ Valid(s)
                                  THEN [oauth[s] EXCEPT !.ttl = @ - 1] ELSE oauth[s]]
    /\ UNCHANGED <<records, rzpStore, shopTokens, call, serial, wins, revoked, dropped>>

(* The routers; requireBusinessAuth makes b the caller's own business. *)
integrationsShopifyRouter(b, c) ==
    \/ \E shop \in Shops : startConnectShopify(b, shop)
    \/ \E s \in States : StartShopifyCallback(c, s)
    \/ \E s \in States, shop \in Shops : RefuseCallback(s, "shopify", shop)
    \/ ShopifyExchangeFails(c) \/ ShopifyConnected(c)
    \/ StartDisconnect(c, b)
    \/ \E status \in {"ok", "gone", "error"} : RevokeAnswered(c, status)

integrationsStripeRouter(b, c) ==
    \/ startConnectStripe(b)
    \/ \E s \in States : StartStripeCallback(c, s, b) \/ RefuseCallback(s, "stripe", NoShop)
    \/ StripeExchangeFails(c)
    \/ \E account \in StripeAccounts : StripeConnected(c, account)

integrationsRazorpayRouter(b, c) ==
    \/ initiateRazorpayConnect(b) \/ \E s \in States : validateRazorpayState(s)
    \/ StartRazorpay(c, b) \/ CredentialCheckFails(c) \/ RazorpayConnected(c)
    \/ \E r \in rzpStore : disconnectRazorpay(b, r)

IgNext ==
    \/ \E b \in Businesses, c \in Slots :
          \/ integrationsShopifyRouter(b, c)
          \/ integrationsStripeRouter(b, c)
          \/ integrationsRazorpayRouter(b, c)
          \/ \E r \in records, role \in {"user", "business_admin", "admin"} :
                DeleteIntegration(b, role, r)
    \/ cleanupExpiredStates \/ IgTick

IgSpec == IgInit /\ [][IgNext]_igVars

-----------------------------------------------------------------------------
(* An OAuth state connects at most once, however many callbacks present it
   and while whichever token exchange is still awaited. *)
OneConnectionPerState == \A s \in States : wins[s] <= 1

(* The lookup after the awaited exchange leaves a business one Shopify record
   and one record per Stripe account.  A second Razorpay record needs two
   requests that overlapped: the check of the later one ran before the record
   of the earlier one was there. *)
OneRecordPerAccount ==
    /\ \A r, q \in records :
          (r # q /\ r.biz = q.biz /\ r.provider = q.provider)
             => r.provider = "stripe" /\ r.ext # q.ext
    /\ \A r, q \in rzpStore : (r.biz = q.biz /\ r.id < q.id) => q.began < r.id

(* A Shopify disconnect that removes the record has had its token revoked,
   unless a reconnection put another token in the record while the revocation
   was awaited. *)
DisconnectRevokes == \A d \in dropped : d.tok = d.read => d.tok \in revoked

(* All three: no state, request or callback makes a second connection of one
   account, and what is disconnected is revoked. *)
ConnectionsHold == OneConnectionPerState /\ OneRecordPerAccount /\ DisconnectRevokes
=============================================================================
