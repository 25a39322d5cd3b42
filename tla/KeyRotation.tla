---------------------------- MODULE KeyRotation -----------------------------
(***************************************************************************)
(* Secrets and signing keys: utils/secret-loader.ts (the provider, its     *)
(* failover to the encrypted disk cache and the environment), utils/       *)
(* jwks.ts (JwksManager), the token functions of utils/jwt.ts, and the     *)
(* SIGHUP handler and bootstrap of index.ts that reload both.              *)
(*                                                                         *)
(* A bundle is what a provider holds: the private key, the extra public    *)
(* keys and the HS256 secret.  A kid is the hash of its key (JWT_PRIVATE_  *)
(* KEY_KID is unset), so a key is its own kid.  The awaits inside          *)
(* JwksManager.reload are microtasks: a reload of the keys is one step.    *)
(* Times are what is left of them, in ticks; a token has an age.           *)
(***************************************************************************)
EXTENDS Integers, FiniteSets

CONSTANTS Handlers,       \* SIGHUPs handled at once (the first is bootstrap)
          BootHandler,
          Keys, GenKey,   \* GenKey: the key of generateFallbackSigningKey
          NoKey, BadKey,
          Bundles,        \* what the provider may hold
          EnvBundle,      \* what the environment holds
          KrTtl, Grace, CacheTtl, DiskTtl,
          Providers, MaxHeld   \* bounds

ASSUME KeysAssumption ==
    /\ Grace \in Nat /\ KrTtl \in Nat \ {0}
    /\ \A b \in Bundles \cup {EnvBundle} : b.key \in Keys \cup {NoKey, BadKey} /\ b.pub \subseteq Keys

VARIABLES provider, upstream,
          secrets,      \* FailoverSecretLoader.secrets
          disk,         \* the KMS disk cache, or NoDisk, or Disabled
          hup,
          activeKeys, retiredKeys, signingKey, cacheExpiresAt,
          tokens

krVars == <<provider, upstream, secrets, disk, hup,
            activeKeys, retiredKeys, signingKey, cacheExpiresAt, tokens>>

Empty == [key |-> NoKey, pub |-> {}, hs |-> NoKey]
NoDisk == [b |-> Empty, ttl |-> -1]
Disabled == [b |-> Empty, ttl |-> -2]
Resting == [stage |-> "idle"]
NotRetired == 0
AllKeys == Keys \cup {GenKey}

KrInit ==
    /\ provider \in Providers
    /\ upstream \in Bundles
    /\ secrets = Empty
    /\ disk \in {NoDisk, Disabled}
    /\ hup = [h \in Handlers |-> IF h = BootHandler THEN [stage |-> "asked"] ELSE Resting]
    /\ activeKeys = {}
    /\ retiredKeys = [k \in AllKeys |-> NotRetired]
    /\ signingKey = NoKey
    /\ cacheExpiresAt = 0
    /\ tokens = {}

keyVars == <<activeKeys, retiredKeys, signingKey, cacheExpiresAt>>
Booted == activeKeys # {}

-----------------------------------------------------------------------------
(* FailoverSecretLoader. *)

(* get(key): the loader's own map, then the environment. *)
get(field) == IF secrets[field] \in {NoKey, {}} THEN EnvBundle[field] ELSE secrets[field]

Sighup(h) ==
    /\ hup[h] = Resting
    /\ hup' = [hup EXCEPT ![h] = [stage |-> "asked"]]
    /\ UNCHANGED <<provider, upstream, secrets, disk, keyVars, tokens>>

(* The provider reads its store; the answer is on its way. *)
ProviderServes(h) ==
    /\ hup[h].stage = "asked"
    /\ hup' = [hup EXCEPT ![h] = [stage |-> "served", b |-> upstream]]
    /\ UNCHANGED <<provider, upstream, secrets, disk, keyVars, tokens>>

Install(h, b) ==
    /\ secrets' = b
    /\ hup' = [hup EXCEPT ![h] = IF disk = Disabled THEN [stage |-> "jwks"]
                                 ELSE [stage |-> "saving", b |-> b]]
    /\ UNCHANGED <<provider, upstream, disk, keyVars, tokens>>

(* The primary adapter's reload resolved. *)
PrimaryLoaded(h) == hup[h].stage = "served" /\ Install(h, hup[h].b)

(* The providers whose adapter clears its map first and swallows every error. *)
SwallowsErrors == {"aws", "gsm"}

(* A failed load of one of them looks like a successful one of nothing. *)
PrimaryEmpty(h) ==
    /\ hup[h].stage = "asked" /\ provider \in SwallowsErrors
    /\ Install(h, Empty)

(* KmsDiskCache.load, then the environment: a cache that is missing, expired
   or cannot be read or decrypted is no cache. *)
FallbackBundles == {EnvBundle} \cup (IF disk.ttl >= 0 THEN {disk.b} ELSE {})

(* The primary adapter threw or timed out, or Vault answered with a lease
   (its gauges and constants are not defined, a ReferenceError): disk cache,
   then environment.  A late answer changes nothing the loader holds. *)
PrimaryFails(h) ==
    /\ hup[h].stage \in {"asked", "served"}
    /\ secrets' \in FallbackBundles
    /\ hup' = [hup EXCEPT ![h] = [stage |-> "jwks"]]
    /\ UNCHANGED <<provider, upstream, disk, keyVars, tokens>>

(* KmsDiskCache.save, which swallows its errors. *)
CacheSaved(h) ==
    /\ hup[h].stage = "saving"
    /\ disk' \in {disk, [b |-> hup[h].b, ttl |-> DiskTtl]}
    /\ hup' = [hup EXCEPT ![h] = [stage |-> "jwks"]]
    /\ UNCHANGED <<provider, upstream, secrets, keyVars, tokens>>

-----------------------------------------------------------------------------
(* JwksManager. *)

(* Mutant: only the keys this reload retires are kept. *)
Retired_LastOnly(next) ==
    [k \in AllKeys |->
        IF k \in activeKeys \ next THEN Grace ELSE NotRetired]

(* Keys that are no longer active are kept until the end of the grace window;
   those past it are dropped. *)
Retired(next) ==
    [k \in AllKeys |->
        IF k \in activeKeys \ next THEN Grace ELSE retiredKeys[k]]

(* buildSigningKey, buildActiveKeyMap: the published keys, the signing key
   among them; with neither, a generated key is published but never signs. *)
NextActive ==
    LET ks == get("pub") \cup ({get("key")} \ {NoKey})
    IN  IF ks = {} THEN {GenKey} ELSE ks

Reload ==
    /\ get("key") # BadKey
    /\ retiredKeys' = Retired(NextActive)
    /\ signingKey' = get("key")
    /\ activeKeys' = NextActive
    /\ cacheExpiresAt' = CacheTtl

(* The handler's second half; a key that cannot be parsed ends it with every
   key as it was, or ends the bootstrap, which is started again. *)
HupReload(h) ==
    /\ hup[h].stage = "jwks"
    /\ \/ Reload /\ hup' = [hup EXCEPT ![h] = Resting]
       \/ /\ get("key") = BadKey
          /\ hup' = [hup EXCEPT ![h] = IF Booted THEN Resting ELSE [stage |-> "asked"]]
          /\ UNCHANGED keyVars
    /\ UNCHANGED <<provider, upstream, secrets, disk, tokens>>

(* GET /.well-known/jwks.json: ensureLoaded. *)
ensureLoaded ==
    /\ Booted
    /\ cacheExpiresAt = 0
    /\ Reload
    /\ UNCHANGED <<provider, upstream, secrets, disk, hup, tokens>>

-----------------------------------------------------------------------------
(* Tokens. *)

(* getVerificationKey: active, or retired and within its window. *)
getVerificationKey(k) == k \in activeKeys \/ retiredKeys[k] > 0

(* generateToken: signed with the private key, or HS256 without a kid. *)
generateToken ==
    /\ Booted /\ Cardinality(tokens) < MaxHeld
    /\ tokens' = tokens \cup
         {IF signingKey # NoKey THEN [kid |-> signingKey, hs |-> NoKey, age |-> 0]
          ELSE [kid |-> NoKey, hs |-> get("hs"), age |-> 0]}
    /\ UNCHANGED <<provider, upstream, secrets, disk, hup, keyVars>>

(* verifyToken: a kid that is not known is refused, never tried as HS256. *)
verifyToken(t) ==
    /\ t.age < KrTtl
    /\ IF t.kid # NoKey THEN getVerificationKey(t.kid) ELSE t.hs = get("hs")

-----------------------------------------------------------------------------
Rotate ==
    /\ upstream' \in Bundles
    /\ UNCHANGED <<provider, secrets, disk, hup, keyVars, tokens>>

Less1(n) == IF n = 0 THEN 0 ELSE n - 1

(* Expired tokens are dropped from the model. *)
KrTick ==
    /\ tokens' = {[t EXCEPT !.age = @ + 1] : t \in {u \in tokens : u.age + 1 < KrTtl}}
    /\ retiredKeys' = [k \in AllKeys |-> Less1(retiredKeys[k])]
    /\ cacheExpiresAt' = Less1(cacheExpiresAt)
    /\ disk' = IF disk.ttl < 0 THEN disk ELSE [disk EXCEPT !.ttl = @ - 1]
    /\ UNCHANGED <<provider, upstream, secrets, hup, activeKeys, signingKey>>

KrNext ==
    \/ \E h \in Handlers :
          \/ Sighup(h) \/ ProviderServes(h) \/ PrimaryLoaded(h) \/ PrimaryEmpty(h)
          \/ PrimaryFails(h) \/ CacheSaved(h) \/ HupReload(h)
    \/ ensureLoaded \/ generateToken
    \/ Rotate \/ KrTick

KrSpec == KrInit /\ [][KrNext]_krVars

-----------------------------------------------------------------------------
(* Key rotation does not log anyone out early: an unexpired token signed with
   a private key is accepted for at least the grace window from its issue,
   through reloads that overlap, keys that are retired, come back and go
   again, a provider that is down and the failover to old or other keys. *)
TokensSurviveRotation ==
    \A t \in tokens :
        (t.kid # NoKey /\ t.age < Grace) => verifyToken(t)
=============================================================================
