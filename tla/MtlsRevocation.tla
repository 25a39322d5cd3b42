--------------------------- MODULE MtlsRevocation ---------------------------
(***************************************************************************)
(* Client certificates: handleMtls of middleware/mtls.ts over the          *)
(* MtlsRevocationChecker of middleware/mtlsRevocation.ts (a stapled OCSP   *)
(* response first, the CRL otherwise, both cached).                        *)
(*                                                                         *)
(* The cache is keyed by serial number, so one certificate is enough; a    *)
(* staple is its own hash.  `left' is the time to nextUpdate, negative     *)
(* after it.  The openssl processes are external and take up to CheckMax.  *)
(*                                                                         *)
(* The checker reads config.mtls.revocation, which parseMtlsConfig does    *)
(* not build: as the code stands `section' is FALSE, and every check is    *)
(* answered 503.  TRUE is what the checker and its tests are written for,  *)
(* with revocation enabled.                                                *)
(***************************************************************************)
EXTENDS Integers

CONSTANTS Checks,      \* requests being checked at once
          Staples, NoStaple, Crl,
          HasCrl,      \* MTLS_CRL_PATH is set
          Allowed,     \* the CN is on the allow list, or there is none
          StapleLife, CrlLife,
          OcspTtl,    \* ocspCacheTtlMs
          Floor,       \* the one-second floor of a cache entry's life
          CheckMax     \* bound on the run time of openssl

ASSUME TtlAssumption ==
    /\ {OcspTtl, Floor, CheckMax, StapleLife, CrlLife} \subseteq Nat
    /\ OcspTtl >= Floor /\ Floor > 0

VARIABLES section,   \* config.mtls.revocation is there, and enabled
          certRevoked,   \* what the CA knows
          staple,    \* staple[s]: [says, left], or NotIssued
          crl,       \* the CRL file: [says, left]
          cache,     \* cache[key]: [status, ttl, ev], or NoEntry
          check,     \* check[k]: the request's stage and the evidence it reads
          answer     \* the last answer and the evidence behind it

revVars == <<section, certRevoked, staple, crl, cache, check, answer>>

CacheKeys == Staples \cup {Crl}
NotIssued == [says |-> "none", left |-> 0]

(* What an answer rests on: the time to the nextUpdate of the document that
   gave the status and to the one that the cache life was computed from, and
   the time since the status was read. *)
NoEvidence == [left |-> 0, next |-> 0, age |-> 0]
Uncached == [status |-> "none", ttl |-> 0, ev |-> NoEvidence]
NoCheck == [pc |-> "idle", key |-> NoStaple, says |-> "none", ev |-> NoEvidence,
            read |-> {}, run |-> 0]
NoAnswer == [code |-> "none", ev |-> NoEvidence]

Says == IF certRevoked THEN "revoked" ELSE "good"

RevInit ==
    /\ section \in BOOLEAN
    /\ certRevoked = FALSE
    /\ staple = [s \in Staples |-> NotIssued]
    /\ crl = [says |-> "good", left |-> CrlLife]
    /\ cache = [k \in CacheKeys |-> Uncached]
    /\ check = [k \in Checks |-> NoCheck]
    /\ answer = NoAnswer

-----------------------------------------------------------------------------
Least(a, b) == IF a < b THEN a ELSE b
Most(a, b) == IF a > b THEN a ELSE b

(* Mutant: nextUpdate is not looked at. *)
computeOcspCacheTtlMs_Configured(left) == OcspTtl

computeOcspCacheTtlMs(left) == Most(Floor, Least(OcspTtl, left))

(* An entry past its time is deleted and counts as none. *)
getCached(key) == IF cache[key].ttl > 0 THEN cache[key] ELSE Uncached

(* Only what passes is asked for its evidence. *)
Behind(status, ev) == IF status = "good" THEN ev ELSE NoEvidence

setCached(key, status, ttl, ev) ==
    cache' = [cache EXCEPT ![key] = [status |-> status, ttl |-> ttl, ev |-> Behind(status, ev)]]

(* handleMtls after the checker's decision.  The CN is checked next; what
   passes is not let through: the handler then uses a variable that is not
   declared, and mtlsMiddleware answers 503. *)
Decide(k, status, ev) ==
    /\ check' = [check EXCEPT ![k] = NoCheck]
    /\ answer' = [code |-> IF status = "good" THEN (IF Allowed THEN "passed_503" ELSE "cn_403")
                           ELSE IF status = "revoked" THEN "revoked_403" ELSE "unknown_403",
                  ev |-> Behind(status, ev)]

(* openssl starts; it has a copy of a staple, the CRL file is yet to be read. *)
Run(k, key, says, left) ==
    check' = [check EXCEPT ![k] = [pc |-> "run", key |-> key, says |-> says,
                                   ev |-> [left |-> left, next |-> left, age |-> 0],
                                   read |-> {}, run |-> 0]]

(* The CRL part of verifyClientCertificate. *)
TryCrl(k, otherwise) ==
    IF ~HasCrl THEN Decide(k, otherwise, NoEvidence)
    ELSE IF getCached(Crl) # Uncached THEN Decide(k, getCached(Crl).status, getCached(Crl).ev)
    ELSE Run(k, Crl, "none", 0) /\ UNCHANGED answer

(* verifyClientCertificate; without the section it throws at once. *)
BeginCheck(k, s) ==
    /\ check[k] = NoCheck
    /\ s # NoStaple => staple[s] # NotIssued
    /\ IF ~section THEN UNCHANGED check /\ answer' = [code |-> "error_503", ev |-> NoEvidence]
       ELSE IF s = NoStaple THEN TryCrl(k, "ocsp_unavailable")
       ELSE IF getCached(s) # Uncached THEN Decide(k, getCached(s).status, getCached(s).ev)
       ELSE Run(k, s, staple[s].says, staple[s].left) /\ UNCHANGED answer
    /\ UNCHANGED <<section, certRevoked, staple, crl, cache>>

Running(k, key) == check[k].pc = "run" /\ check[k].key = key

(* verifyOcspResponse: an answer that is good and still valid, or revoked, is
   cached; anything else leaves the decision to the CRL. *)
OcspStatus(c) ==
    IF c.says \in {"revoked", "unknown"} THEN c.says
    ELSE IF c.ev.left =< 0 THEN "stale_ocsp" ELSE "good"

OcspDone(k, s) ==
    LET c == check[k] IN
    /\ Running(k, s)
    /\ \E status \in {OcspStatus(c), "ocsp_unavailable"} :
          IF status \in {"good", "revoked"}
          THEN /\ setCached(s, status, computeOcspCacheTtlMs(c.ev.next), c.ev)
               /\ Decide(k, status, c.ev)
          ELSE /\ TryCrl(k, status)
               /\ UNCHANGED cache
    /\ UNCHANGED <<section, certRevoked, staple, crl>>

(* verifyViaCrl starts two processes that open the file by themselves, each at
   its own time: `openssl verify' refuses a list that has expired, `openssl crl'
   prints the nextUpdate of whatever list is there. *)
CrlReads == {"status", "nextUpdate"}

ReadCrlStatus(k) ==
    /\ Running(k, Crl) /\ "status" \notin check[k].read
    /\ check' = [check EXCEPT ![k].says = IF crl.left > 0 THEN crl.says ELSE "expired",
                              ![k].ev = [left |-> crl.left, next |-> @.next, age |-> 0],
                              ![k].read = @ \cup {"status"}]
    /\ UNCHANGED <<section, certRevoked, staple, crl, cache, answer>>

ReadNextUpdate(k) ==
    /\ Running(k, Crl) /\ "nextUpdate" \notin check[k].read
    /\ check' = [check EXCEPT ![k].ev = [left |-> @.left, next |-> crl.left, age |-> @.age],
                              ![k].read = @ \cup {"nextUpdate"}]
    /\ UNCHANGED <<section, certRevoked, staple, crl, cache, answer>>

(* Every outcome is cached.  `openssl verify' exits with an error for a revoked
   certificate, which ends the Promise.all; its entry has the configured life,
   as has that of a run that failed. *)
CrlStatus(c) ==
    IF c.says = "revoked" \/ (c.says = "good" /\ c.read = CrlReads) THEN c.says
    ELSE "crl_unavailable"

CrlDone(k) ==
    LET c == check[k] IN
    /\ Running(k, Crl)
    /\ \E status \in {CrlStatus(c), "crl_unavailable"} :
          /\ setCached(Crl, status,
                       IF status = "good" THEN computeOcspCacheTtlMs(c.ev.next) ELSE OcspTtl, c.ev)
          /\ Decide(k, status, c.ev)
    /\ UNCHANGED <<section, certRevoked, staple, crl>>

-----------------------------------------------------------------------------
(* The CA and the client. *)
Revoke ==
    /\ ~certRevoked
    /\ certRevoked' = TRUE
    /\ UNCHANGED <<section, staple, crl, cache, check, answer>>

IssueStaple(s) ==
    /\ staple[s] = NotIssued
    /\ \E says \in {Says, "unknown"} :
          staple' = [staple EXCEPT ![s] = [says |-> says, left |-> StapleLife]]
    /\ UNCHANGED <<section, certRevoked, crl, cache, check, answer>>

PublishCrl ==
    /\ HasCrl
    /\ crl' = [says |-> Says, left |-> CrlLife]
    /\ UNCHANGED <<section, certRevoked, staple, cache, check, answer>>

Older(ev) == [left |-> ev.left - 1, next |-> ev.next - 1, age |-> ev.age + 1]
Past == 0 - (Floor + CheckMax)   \* older than this is all the same

RevTick ==
    /\ \A k \in Checks : check[k].run < CheckMax
    /\ staple' = [s \in Staples |-> [staple[s] EXCEPT
                     !.left = IF staple[s] = NotIssued THEN 0 ELSE Most(Past, @ - 1)]]
    /\ crl' = [crl EXCEPT !.left = Most(Past, @ - 1)]
    /\ cache' = [k \in CacheKeys |-> IF cache[k].ttl =< 1 THEN Uncached
                                ELSE [cache[k] EXCEPT !.ttl = @ - 1, !.ev = Older(@)]]
    /\ check' = [k \in Checks |-> IF check[k] = NoCheck THEN NoCheck
                                  ELSE [check[k] EXCEPT !.run = @ + 1, !.ev = Older(@)]]
    /\ answer' = NoAnswer
    /\ UNCHANGED <<section, certRevoked>>

RevNext ==
    \/ \E k \in Checks :
          \/ \E s \in Staples \cup {NoStaple} : BeginCheck(k, s)
          \/ \E s \in Staples : OcspDone(k, s)
          \/ ReadCrlStatus(k) \/ ReadNextUpdate(k) \/ CrlDone(k)
    \/ \E s \in Staples : IssueStaple(s)
    \/ Revoke \/ PublishCrl \/ RevTick

RevSpec == RevInit /\ [][RevNext]_revVars

-----------------------------------------------------------------------------
(* A certificate passes only on recent evidence, through both caches, runs of
   openssl that overlap, a list replaced between its two reads and entries
   written late by the slower of two checks.  The status was read at most the
   configured cache life before the answer, from a document that was valid
   then, and that document, or the list that replaced it during the check, had
   expired by at most the floor of an entry's life; the run time of openssl is
   added to both. *)
PassedOnFreshEvidence ==
    answer.code \in {"passed_503", "cn_403"} =>
        /\ answer.ev.age < OcspTtl + CheckMax
        /\ answer.ev.left + answer.ev.age > 0
        /\ Most(answer.ev.left, answer.ev.next) > Past
=============================================================================
