----------------------- MODULE AttestationSubmission -----------------------
(***************************************************************************)
(* POST /api/attestations, from submitOnChain to the answer:               *)
(* src/src/routes/attestations.ts, services/soroban/submitAttestation.ts,  *)
(* the Redis dedupe marks, the attestations table, the in-memory audit log *)
(* and the replay that startServer runs.                                   *)
(*                                                                         *)
(* Each request is a process; an action is the code between two awaits.    *)
(* An attestation is what computeAttestationDedupeKey hashes (business,    *)
(* period, root, timestamp, version), so two requests with one attestation *)
(* are a client's retry with an explicit timestamp.  Submission is enabled *)
(* and the signing key is configured; with SOROBAN_SUBMIT_ENABLED unset    *)
(* nothing is sent at all.  submitAttestation builds an RPC client, and    *)
(* with it a circuit breaker, of its own for every call and ends with the  *)
(* first failed RPC, so the breaker never refuses one of its calls: the    *)
(* degraded-queue branch of submitOnChain is not reachable and not here    *)
(* (module SorobanRpc models the breaker).                                 *)
(***************************************************************************)
EXTENDS Integers, FiniteSets

CONSTANTS
  Requests,    \* POSTs that passed authentication and validation
  Atts,        \* attestations, told apart by their dedupe key
  Slots,       \* (business, period) pairs
  AttOf,       \* AttOf[r]: the attestation request r submits
  SlotOf,      \* SlotOf[a]: its business and period
  Unsigned,    \* the requests with submit: false
  MaxPolls,    \* CONFIRMATION_MAX_ATTEMPTS
  RedisReliable, \* TRUE: no Redis command fails
  MaxCrashes   \* bound on process crashes

ASSUME SubmissionAssumption ==
  /\ AttOf \in [Requests -> Atts]
  /\ SlotOf \in [Atts -> Slots]
  /\ Unsigned \subseteq Requests
  /\ MaxPolls \in Nat \ {0}
  /\ RedisReliable \in BOOLEAN
  /\ MaxCrashes \in Nat

VARIABLES
  pc,        \* pc[r]: the await request r is suspended at
  polls,     \* polls[r]: getTransaction calls made by waitForConfirmation
  answer,    \* answer[r]: what the client was told
  marks,     \* attestations with a dedupe key in Redis
  setting,   \* attestations whose fire-and-forget SET is on its way
  txs,       \* txs[a]: transactions for a that the network accepted
  table,     \* the requests whose record is in the attestations table
  audit,     \* attestations in the audit log as ATTESTATION_SUBMIT_FAILED
  crashes,   \* crashes so far
  excused    \* history: attestations whose dedupe mark was raced, lost or expired

vars == <<pc, polls, answer, marks, setting, txs, table, audit, crashes, excused>>

Answers == {"none", "created", "failed", "deduped", "conflict", "error"}

TypeOK ==
  /\ pc \in [Requests -> {"idle", "check", "prepare", "send", "confirm", "save",
                          "answered", "dropped", "hung"}]
  /\ polls \in [Requests -> 0..MaxPolls]
  /\ answer \in [Requests -> Answers]
  /\ marks \subseteq Atts
  /\ setting \subseteq Atts
  /\ txs \in [Atts -> Nat]
  /\ table \subseteq Requests
  /\ audit \subseteq Atts
  /\ crashes \in 0..MaxCrashes
  /\ excused \subseteq Atts

Init ==
  /\ pc = [r \in Requests |-> "idle"]
  /\ polls = [r \in Requests |-> 0]
  /\ answer = [r \in Requests |-> "none"]
  /\ marks = {}
  /\ setting = {}
  /\ txs = [a \in Atts |-> 0]
  /\ table = {}
  /\ audit = {}
  /\ crashes = 0
  /\ excused = {}

Slot(r) == SlotOf[AttOf[r]]

Goto(r, label) == pc' = [pc EXCEPT ![r] = label]

Reply(r, what) ==
  /\ Goto(r, "answered")
  /\ answer' = [answer EXCEPT ![r] = what]

(***************************************************************************)
(* How submitOnChain ends when submitAttestation throws.                   *)
(***************************************************************************)

\* SUBMIT_FAILED, SOROBAN_NETWORK_ERROR, INVALID_RESPONSE, CONFIRMATION_FAILED and
\* RESULT_*: audited, then 502.
Throws(r) ==
  /\ audit' = audit \cup {AttOf[r]}
  /\ Reply(r, "failed")

(***************************************************************************)
(* submitAttestation.                                                      *)
(***************************************************************************)

\* The handler reaches submitOnChain; submit: false skips the dedupe check.
Begin(r) ==
  /\ pc[r] = "idle"
  /\ Goto(r, IF r \in Unsigned THEN "prepare" ELSE "check")
  /\ UNCHANGED <<polls, answer, marks, setting, txs, table, audit,
                 crashes, excused>>

\* Another submission of the same attestation is past its check without a mark in
\* Redis yet: the check of r cannot see it.
Unseen(r) ==
  \/ AttOf[r] \in setting
  \/ \E q \in Requests \ {r} : AttOf[q] = AttOf[r] /\ pc[q] = "send"

Excuse(atts) == excused' = excused \cup atts

\* assertNotDuplicate: a hit ends the request, a miss or a Redis error (fail-open)
\* goes on.
CheckDedupe(r) ==
  /\ pc[r] = "check"
  /\ \/ /\ AttOf[r] \in marks
        /\ Reply(r, "deduped")
        /\ UNCHANGED excused
     \/ /\ AttOf[r] \notin marks
        /\ Goto(r, "send")
        /\ Excuse(IF Unseen(r) THEN {AttOf[r]} ELSE {})
        /\ UNCHANGED answer
     \/ /\ ~RedisReliable
        /\ Goto(r, "send")
        /\ Excuse({AttOf[r]})
        /\ UNCHANGED answer
  /\ UNCHANGED audit
  /\ UNCHANGED <<polls, marks, setting, txs, table, crashes>>

\* submit: false: getAccount and prepareTransaction, then the unsigned result.
Prepare(r) ==
  /\ pc[r] = "prepare"
  /\ \/ Goto(r, "save") /\ UNCHANGED <<answer, audit>>
     \/ Throws(r)
  /\ UNCHANGED <<polls, marks, setting, txs, table, crashes, excused>>

\* getAccount, prepareTransaction or sendTransaction fails before the network accepts.
SendFails(r) ==
  /\ pc[r] = "send"
  /\ Throws(r)
  /\ UNCHANGED <<polls, marks, setting, txs, table, crashes, excused>>

\* The network accepts the transaction but the response is lost or malformed.
SendResponseLost(r) ==
  /\ pc[r] = "send"
  /\ txs' = [txs EXCEPT ![AttOf[r]] = @ + 1]
  /\ Excuse({AttOf[r]})
  /\ Throws(r)
  /\ UNCHANGED <<polls, marks, setting, table, crashes>>

\* (mutant) the mark is not set before confirmation.
SendAccepted_NoMark(r) ==
  /\ pc[r] = "send"
  /\ txs' = [txs EXCEPT ![AttOf[r]] = @ + 1]
  /\ Goto(r, "confirm")
  /\ UNCHANGED audit
  /\ UNCHANGED <<polls, answer, marks, setting, table, crashes, excused>>

\* PENDING or DUPLICATE: markAsSubmitted is fired and not awaited.
SendAccepted(r) ==
  /\ pc[r] = "send"
  /\ txs' = [txs EXCEPT ![AttOf[r]] = @ + 1]
  /\ setting' = setting \cup {AttOf[r]}
  /\ Goto(r, "confirm")
  /\ UNCHANGED audit
  /\ UNCHANGED <<polls, answer, marks, table, crashes, excused>>

\* (mutant) the polling loop has no bound.
PollNotFound_Unbounded(r) ==
  /\ pc[r] = "confirm"
  /\ polls' = [polls EXCEPT ![r] = (@ + 1) % MaxPolls]
  /\ UNCHANGED <<pc, answer, marks, setting, txs, table, audit,
                 crashes, excused>>

\* getTransaction answers NOT_FOUND; after maxAttempts the result is `pending'.
PollNotFound(r) ==
  /\ pc[r] = "confirm"
  /\ polls' = [polls EXCEPT ![r] = @ + 1]
  /\ IF polls[r] + 1 = MaxPolls THEN Goto(r, "save") ELSE UNCHANGED pc
  /\ UNCHANGED <<answer, marks, setting, txs, table, audit,
                 crashes, excused>>

\* SUCCESS with a matching result.
PollSuccess(r) ==
  /\ pc[r] = "confirm"
  /\ Goto(r, "save")
  /\ UNCHANGED <<polls, answer, marks, setting, txs, table, audit,
                 crashes, excused>>

\* FAILED, a result that does not validate, a network error or an open breaker.
PollThrows(r) ==
  /\ pc[r] = "confirm"
  /\ Throws(r)
  /\ UNCHANGED <<polls, marks, setting, txs, table, crashes, excused>>

\* The unique (business, period) constraint refuses the insert.
Occupied(s) == \E q \in table : Slot(q) = s

\* saveAttestation and the 201; a conflict or a database error ends in an error
\* answer after the transaction was sent.
Save(r) ==
  /\ pc[r] = "save"
  /\ \/ /\ ~Occupied(Slot(r))
        /\ table' = table \cup {r}
        /\ Reply(r, "created")
     \/ /\ Occupied(Slot(r))
        /\ Reply(r, "conflict")
        /\ UNCHANGED table
     \/ /\ Reply(r, "error")
        /\ UNCHANGED table
  /\ UNCHANGED audit
  /\ UNCHANGED <<polls, marks, setting, txs, crashes, excused>>

\* Nothing bounds a Redis command, a poll (getTransaction is not among the methods that
\* withSorobanTimeout wraps) or the insert: a peer that stays silent keeps the request.
Hangs(r) ==
  /\ pc[r] \in {"check", "confirm", "save"}
  /\ Goto(r, "hung")
  /\ UNCHANGED <<polls, answer, marks, setting, txs, table, audit, crashes, excused>>

(***************************************************************************)
(* Redis and crashes.                                                      *)
(***************************************************************************)

\* The SET of markAttestationSubmitted arrives.
MarkLands(a) ==
  /\ a \in setting
  /\ setting' = setting \ {a}
  /\ marks' = marks \cup {a}
  /\ UNCHANGED <<pc, polls, answer, txs, table, audit, crashes, excused>>

\* The SET fails; best effort, so nothing else happens.
MarkFails(a) ==
  /\ ~RedisReliable
  /\ a \in setting
  /\ setting' = setting \ {a}
  /\ Excuse({a})
  /\ UNCHANGED <<pc, polls, answer, marks, txs, table, audit, crashes>>

\* ATTESTATION_DEDUPE_TTL_MS passes.
MarkExpires(a) ==
  /\ a \in marks
  /\ marks' = marks \ {a}
  /\ Excuse({a})
  /\ UNCHANGED <<pc, polls, answer, setting, txs, table, audit, crashes>>

\* The process dies and starts again: requests in flight, SETs not sent and
\* the audit log (a process-local array) are gone, so the startup replay of
\* failed submissions scans an empty log and submits nothing.
CrashRestart ==
  /\ crashes < MaxCrashes
  /\ crashes' = crashes + 1
  /\ pc' = [r \in Requests |->
       IF pc[r] \in {"idle", "answered"} THEN pc[r] ELSE "dropped"]
  /\ setting' = {}
  /\ Excuse(setting)
  /\ audit' = {}
  /\ UNCHANGED <<polls, answer, marks, txs, table>>

RequestStep(r) ==
  \/ CheckDedupe(r)
  \/ Prepare(r)
  \/ SendFails(r)
  \/ SendResponseLost(r)
  \/ SendAccepted(r)
  \/ PollNotFound(r)
  \/ PollSuccess(r)
  \/ PollThrows(r)
  \/ Save(r)

Next ==
  \/ \E r \in Requests : Begin(r) \/ RequestStep(r) \/ Hangs(r)
  \/ \E a \in Atts : MarkLands(a) \/ MarkFails(a) \/ MarkExpires(a)
  \/ CrashRestart

Spec == Init /\ [][Next]_vars

\* An await settles unless it hangs: getAccount, prepareTransaction and sendTransaction
\* because withSorobanTimeout ends them, the others because their peer answers; one that
\* does not is Hangs, which may always be taken instead.  Nobody has to send a request,
\* and Redis and crashes are free.
Fairness == \A r \in Requests : WF_vars(RequestStep(r))

FairSpec == Spec /\ Fairness

(***************************************************************************)
(* Properties.                                                             *)
(***************************************************************************)

\* The dedupe layer puts at most one transaction per attestation on the network,
\* whatever retries, timeouts, failed confirmations and restarts do, except after one
\* of the five events that set `excused': a Redis read error, a check that overlaps an
\* unmarked submission, a mark that failed or died with the process, an expired mark,
\* and a lost sendTransaction response.
AtMostOnceUnlessExcused ==
  \A a \in Atts \ excused : txs[a] <= 1

\* A record in the attestations table has a transaction behind it unless the client
\* asked for an unsigned one: no error path of submitOnChain reaches
\* saveAttestation.
RecordBacked ==
  \A r \in table :
    /\ answer[r] = "created"
    /\ r \notin Unsigned => txs[AttOf[r]] >= 1
    /\ \A q \in table \ {r} : Slot(q) # Slot(r)

\* Every request that was begun is answered or dies with the process, unless Redis, the
\* database or a poll never answers it: the number of confirmation polls is bounded, and
\* building and sending a transaction always ends, whatever the node does.
EveryRequestAnswered ==
  \A r \in Requests : pc[r] # "idle" ~> pc[r] \in {"answered", "dropped", "hung"}

\* Every submission that is not kept waiting by a silent peer comes to an end, and one that
\* ends in a record has a transaction.
SubmissionsHold == []RecordBacked /\ EveryRequestAnswered

(***************************************************************************)
(* What a comment says.                                                    *)
(***************************************************************************)

\* "Setting the mark before confirmation prevents duplicate submissions while a
\* transaction is still awaiting finality": nothing is sent for an attestation that
\* another request is waiting to see confirmed.
NoDuplicateWhilePending ==
  [][\A r \in Requests, q \in Requests :
       (r # q /\ AttOf[r] = AttOf[q] /\ pc[q] = "confirm") =>
          ~(pc[r] = "send" /\ pc'[r] = "confirm")]_vars
=============================================================================
