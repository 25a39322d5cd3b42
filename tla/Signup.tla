------------------------------- MODULE Signup -------------------------------
(***************************************************************************)
(* POST /auth/signup: services/auth/signup.ts with the in-memory limiter   *)
(* utils/signupRateLimiter.ts, the user repository and the route           *)
(* routes/auth.ts.                                                         *)
(*                                                                         *)
(* One action per macrotask: the awaits of the in-memory repository are    *)
(* microtasks and nothing else runs between them; the awaits that really   *)
(* let other requests run are the password hash, the timing delay and the  *)
(* sleep of a limited request.  Time is relative: every SignupTick lowers the *)
(* time to live of every limiter record; a record whose `expiresAt < now`  *)
(* has ttl -1.  `failedAttempts` is left out: no caller passes             *)
(* blockOnThreshold and the delay computed from it is only returned with   *)
(* an admission, where signup ignores it; isBlocked therefore stays FALSE. *)
(***************************************************************************)
EXTENDS Integers, FiniteSets, FiniteSetsExt

CONSTANTS SignupSlots,  \* requests that can be in progress at once
          RawIps, RawEmails,
          IpOf,         \* normalizeIp: notations of one address
          EmailOf,      \* normalizeEmail: case and plus tags
          EmailFacts,   \* EmailFacts[e]: what the checks find in a raw email
          Passwords,    \* each the set of weaknesses the checks find in it
          NoEmail,      \* the key "" used when the email is not a string
          Window,       \* windowMs, in ticks
          MaxIp, MaxEmail, MaxGlobal,
          MaxUsers      \* bound: accounts a run may create

ASSUME SignupAssumption ==
    Window \in Nat /\ MaxIp \in Nat /\ MaxEmail \in Nat /\ MaxGlobal \in Nat

VARIABLES ipStore, emailStore, globalRecord, users, signups,
          ipHist, emailHist   \* history: the attempts of the last window, each its age and a number

signupVars == <<ipStore, emailStore, globalRecord, users, signups, ipHist, emailHist>>

Ips == {IpOf[i] : i \in RawIps}
Emails == {EmailOf[e] : e \in RawEmails}
EmailKeys == Emails \cup {NoEmail}

(* validateEmail: a malformed address or a disposable domain is an error; the
   signs of a generated address only add up to a warning. *)
Malformed == {"long", "format", "domain", "tld"}
SuspicionOf == [disposable |-> 80, random |-> 30, digits |-> 40, longLocal |-> 20, repeating |-> 15]
Disposable == {"disposable"}
normalizeEmail(e) == EmailOf[e]
validateEmail(e) == EmailFacts[e] \cap (Malformed \cup Disposable) = {}
isSuspicious(e) ==
    MapThenSumSet(LAMBDA f : SuspicionOf[f], EmailFacts[e] \cap DOMAIN SuspicionOf) >= 50

(* validatePassword: every weakness is an error. *)
Composition == {"short", "long", "no uppercase", "no lowercase", "no number", "no special"}
Guessable == {"sequential", "keyboard"}
Common == {"common"}
validatePassword(pw) == pw \cap (Composition \cup Guessable \cup Common) = {}

(* validateSignupRequest: a filled honeypot field or a missing field ends the
   checks; only a request without an email is counted under the empty key. *)
validateSignupRequest(e, pw, honeypot, missing) ==
    IF honeypot THEN "honeypot" ELSE IF missing # "none" THEN "missing"
    ELSE IF ~validateEmail(e) THEN "email"
    ELSE IF ~validatePassword(pw) THEN "password"
    ELSE IF isSuspicious(e) THEN "warned" ELSE "ok"

Stages == {"idle", "invalid", "limited", "exists", "hashing", "race", "failed", "created"}
Idle == [stage |-> "idle"]

NoRecord == [n |-> 0, ttl |-> -1]
Records == [n: 0..(MaxIp + MaxEmail + MaxGlobal + 1), ttl: -1..Window]
Fresh == [n |-> 0, ttl |-> Window]

(* getOrCreateRecord: an absent or expired record is replaced. *)
getOrCreateRecord(rec) == IF rec.ttl < 0 THEN Fresh ELSE rec

Touch(store, key) == [store EXCEPT ![key] = getOrCreateRecord(@)]

(* The attempts that count for one key right now. *)
attemptCount(store, key) == getOrCreateRecord(store[key]).n

(* checkLimit: the first limit that refuses, with the sleep signup() adds;
   an expired global record still refuses. *)
GlobalFull == globalRecord.n >= MaxGlobal
IpFull(ip) == attemptCount(ipStore, ip) >= MaxIp
EmailFull(em) == attemptCount(emailStore, em) >= MaxEmail
Allowed(ip, em) == ~GlobalFull /\ ~IpFull(ip) /\ ~EmailFull(em)
SuggestedDelay(ip, em) ==
    IF GlobalFull THEN Max({0, globalRecord.ttl})
    ELSE IF IpFull(ip) THEN getOrCreateRecord(ipStore[ip]).ttl
    ELSE getOrCreateRecord(emailStore[em]).ttl

(* Every call of the limiter leaves a live record behind for both keys. *)
TouchBoth(ip, em) ==
    /\ ipStore' = Touch(ipStore, ip)
    /\ emailStore' = Touch(emailStore, em)

(* A key counts one more attempt, in a window that starts again now. *)
Bump(store, key) == [store EXCEPT ![key] = [n |-> getOrCreateRecord(@).n + 1, ttl |-> Window]]

(* One more attempt in the history. *)
Noted(h) == h \cup {<<0, CHOOSE k \in 0..Cardinality(h) : <<0, k>> \notin h>>}

(* recordAttempt: counts under both keys and extends their windows; the
   global window is not extended, an expired one starts again at 1. *)
recordAttempt(ip, em) ==
    /\ ipStore' = Bump(ipStore, ip)
    /\ emailStore' = Bump(emailStore, em)
    /\ globalRecord' = IF globalRecord.ttl < 0 THEN [n |-> 1, ttl |-> Window]
                       ELSE [globalRecord EXCEPT !.n = @ + 1]
    /\ ipHist' = [ipHist EXCEPT ![ip] = Noted(@)]
    /\ emailHist' = [emailHist EXCEPT ![em] = Noted(@)]

Registered(em) == \E u \in users : u.email = em

-----------------------------------------------------------------------------
SignupInit ==
    /\ ipStore = [i \in Ips |-> NoRecord]
    /\ emailStore = [e \in EmailKeys |-> NoRecord]
    /\ globalRecord = Fresh
    /\ users = {}
    /\ signups = [s \in SignupSlots |-> Idle]
    /\ ipHist = [i \in Ips |-> {}]
    /\ emailHist = [e \in EmailKeys |-> {}]

Enter(s, stage, ip, em, wait) ==
    signups' = [signups EXCEPT ![s] = [stage |-> stage, ip |-> ip, email |-> em, wait |-> wait]]

(* validateSignupRequest fails: the failure is recorded after the delay. *)
SignupInvalid(s, ip, em, verdict) ==
    /\ signups[s] = Idle
    /\ verdict \notin {"ok", "warned"}
    /\ Enter(s, "invalid", ip, em, 0)
    /\ UNCHANGED <<ipStore, emailStore, globalRecord, users, ipHist, emailHist>>

(* checkLimit refuses: the request sleeps for the suggested delay. *)
SignupLimited(s, ip, em) ==
    /\ signups[s] = Idle
    /\ ~Allowed(ip, em)
    /\ TouchBoth(ip, em)
    /\ Enter(s, "limited", ip, em, SuggestedDelay(ip, em))
    /\ UNCHANGED <<globalRecord, users, ipHist, emailHist>>

(* Admitted: the attempt is recorded and the email looked up in one go. *)
SignupAdmitted(s, ip, em) ==
    /\ signups[s] = Idle
    /\ Allowed(ip, em)
    /\ recordAttempt(ip, em)
    /\ Enter(s, IF Registered(em) THEN "exists" ELSE "hashing", ip, em, 0)
    /\ UNCHANGED users

(* The hash is there: look the email up again, and create the user. *)
CreateUser(s) ==
    /\ users' = users \cup {[email |-> signups[s].email, n |-> Cardinality(users)]}
    /\ signups' = [signups EXCEPT ![s].stage = "created"]

(* Mutant: no second lookup. *)
HashDone_NoRaceCheck(s) ==
    /\ signups[s].stage = "hashing"
    /\ Cardinality(users) < MaxUsers
    /\ CreateUser(s)
    /\ UNCHANGED <<ipStore, emailStore, globalRecord, ipHist, emailHist>>

HashDone(s) ==
    /\ signups[s].stage = "hashing"
    /\ Cardinality(users) < MaxUsers
    /\ \/ /\ Registered(signups[s].email)
          /\ signups' = [signups EXCEPT ![s].stage = "race"]
          /\ UNCHANGED users
       \/ /\ ~Registered(signups[s].email)
          /\ CreateUser(s)
    /\ UNCHANGED <<ipStore, emailStore, globalRecord, ipHist, emailHist>>

(* Hashing throws: catch records the failure, then waits. *)
HashFails(s) ==
    /\ signups[s].stage = "hashing"
    /\ TouchBoth(signups[s].ip, signups[s].email)
    /\ signups' = [signups EXCEPT ![s].stage = "failed"]
    /\ UNCHANGED <<globalRecord, users, ipHist, emailHist>>

(* The delay is over: what is still to be recorded is, and the route reads
   the rate-limit headers (another checkLimit) before it answers. *)
Answer(s) ==
    /\ signups[s].stage \in {"invalid", "limited", "exists", "race", "failed", "created"}
    /\ signups[s].wait = 0
    /\ TouchBoth(signups[s].ip, signups[s].email)
    /\ signups' = [signups EXCEPT ![s] = Idle]
    /\ UNCHANGED <<globalRecord, users, ipHist, emailHist>>

(* GET /auth/signup/availability: also only a checkLimit. *)
checkSignupAvailability(ip, em) ==
    /\ TouchBoth(ip, em)
    /\ UNCHANGED <<globalRecord, users, signups, ipHist, emailHist>>

(* The five-minute timer. *)
DropExpired(store) == [k \in DOMAIN store |-> IF store[k].ttl < 0 THEN NoRecord ELSE store[k]]

SignupCleanup ==
    /\ ipStore' = DropExpired(ipStore)
    /\ emailStore' = DropExpired(emailStore)
    /\ globalRecord' = IF globalRecord.ttl < 0 THEN Fresh ELSE globalRecord
    /\ UNCHANGED <<users, signups, ipHist, emailHist>>

Older(rec) == [rec EXCEPT !.ttl = Max({-1, @ - 1})]
Shift(h) == {<<a[1] + 1, a[2]>> : a \in {b \in h : b[1] < Window}}

SignupTick ==
    /\ ipStore' = [k \in DOMAIN ipStore |-> Older(ipStore[k])]
    /\ emailStore' = [k \in DOMAIN emailStore |-> Older(emailStore[k])]
    /\ globalRecord' = Older(globalRecord)
    /\ signups' = [s \in SignupSlots |->
         IF signups[s].stage = "limited" THEN [signups[s] EXCEPT !.wait = Max({0, @ - 1})]
         ELSE signups[s]]
    /\ ipHist' = [k \in Ips |-> Shift(ipHist[k])]
    /\ emailHist' = [k \in EmailKeys |-> Shift(emailHist[k])]
    /\ UNCHANGED users

Call(s) ==
    \E i \in RawIps, e \in RawEmails, pw \in Passwords, honeypot \in BOOLEAN,
       missing \in {"none", "email", "password"} :
        LET verdict == validateSignupRequest(e, pw, honeypot, missing) IN
        \/ SignupInvalid(s, IpOf[i], IF missing = "email" THEN NoEmail ELSE normalizeEmail(e), verdict)
        \/ verdict \in {"ok", "warned"} /\ SignupLimited(s, IpOf[i], normalizeEmail(e))
        \/ verdict \in {"ok", "warned"} /\ SignupAdmitted(s, IpOf[i], normalizeEmail(e))

SignupNext ==
    \/ \E s \in SignupSlots : Call(s) \/ HashDone(s) \/ HashFails(s) \/ Answer(s)
    \/ \E i \in RawIps, e \in RawEmails : checkSignupAvailability(IpOf[i], normalizeEmail(e))
    \/ SignupCleanup
    \/ SignupTick

SignupSpec == SignupInit /\ [][SignupNext]_signupVars

-----------------------------------------------------------------------------
SignupTypeOK ==
    /\ ipStore \in [Ips -> Records]
    /\ emailStore \in [EmailKeys -> Records]
    /\ globalRecord \in Records
    /\ \A s \in SignupSlots : signups[s].stage \in Stages

(* Overlapping signups with one address, written with or without tags, never
   make two accounts: between the first lookup and the creation the password
   is hashed, and the second lookup after the hash must catch the other. *)
OneAccountPerEmail ==
    \A u, v \in users : u.email = v.email => u = v

(* In no window of windowMs are more attempts of one address or for one email
   admitted than the limit says, whatever expiries, cleanups, failures and
   availability calls happen in between: a record may only be forgotten when
   every attempt it counts is older than the window. *)
WindowLimitHolds ==
    /\ \A i \in Ips : Cardinality(ipHist[i]) =< MaxIp
    /\ \A e \in EmailKeys : Cardinality(emailHist[e]) =< MaxEmail

(* What signup promises under overlapping requests: one account per address,
   and no window with more attempts than the limits say. *)
SignupGuarded == SignupTypeOK /\ OneAccountPerEmail /\ WindowLimitHolds

=============================================================================
