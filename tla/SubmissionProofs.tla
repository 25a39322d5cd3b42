-------------------------- MODULE SubmissionProofs --------------------------
(***************************************************************************)
(* Proofs about the way of an attestation to the network and to its        *)
(* readers: its submission, for every set of requests and attestations and *)
(* any number of crashes and polls; the RPC client, for any number of      *)
(* reads and submissions, every threshold, budget and retry policy, with   *)
(* and without a backup URL; the WebSocket stream; the revenue that is     *)
(* attested; the public reads behind a shared cache; the Merkle proofs of  *)
(* what was attested, for trees of every size; and the scheduler that      *)
(* drains the tenants' backlogs, for every fee and every batch size.       *)
(***************************************************************************)
EXTENDS AttestationSubmission, SorobanRpc, AttestationStream, RevenueSubmit, PublicReads,
        RevenueEvidence, DrrScheduler,
        FiniteSetTheorems, NaturalsInduction, WellFoundedInduction, TLAPS

(***************************************************************************)
(* Types.                                                                  *)
(***************************************************************************)

\* When submitAttestation throws, what submitOnChain touches keeps its type.
LEMMA ThrowsTypes ==
  ASSUME TypeOK, NEW r \in Requests, Throws(r)
  PROVE  /\ pc' \in [Requests -> {"idle", "check", "prepare", "send", "confirm", "save",
                                  "answered", "dropped", "hung"}]
         /\ answer' \in [Requests -> Answers]
         /\ audit' \subseteq Atts
  <1>1. AttOf[r] \in Atts
    BY SubmissionAssumption
  <1> QED BY <1>1 DEF Throws, Reply, Goto, TypeOK, Answers

\* A request that has not been sent has not polled, and one that polls has attempts
\* left: what keeps polls within its type.
PollsInv ==
  \A r \in Requests :
    /\ pc[r] \in {"idle", "check", "send"} => polls[r] = 0
    /\ pc[r] = "confirm" => polls[r] < MaxPolls

\* Throws moves its request to "answered" and no other request.
LEMMA ThrowsAnswers ==
  ASSUME NEW r \in Requests, Throws(r)
  PROVE  pc' = [pc EXCEPT ![r] = "answered"]
  BY DEF Throws, Reply, Goto

\* Every variable keeps its type; in particular waitForConfirmation never polls more than
\* maxAttempts times.
THEOREM SubmissionTypeCorrect == Spec => []TypeOK
  <1>1. Init => TypeOK /\ PollsInv
    <2> SUFFICES ASSUME Init PROVE TypeOK /\ PollsInv
      OBVIOUS
    <2>2. TypeOK
      BY SubmissionAssumption DEF Init, TypeOK, Answers
    <2>3. PollsInv
      BY DEF Init, PollsInv
    <2> QED BY <2>2, <2>3
  <1>2. TypeOK /\ PollsInv /\ [Next]_vars => TypeOK' /\ PollsInv'
    <2> SUFFICES ASSUME TypeOK, PollsInv, [Next]_vars PROVE TypeOK' /\ PollsInv'
      OBVIOUS
    <2>0. \A r \in Requests : AttOf[r] \in Atts
      BY SubmissionAssumption
    <2>1. ASSUME NEW r \in Requests, Begin(r) PROVE TypeOK' /\ PollsInv'
      <3>1. TypeOK'
        BY <2>1 DEF Begin, Goto, TypeOK
      <3>2. PollsInv'
        BY <2>1 DEF Begin, Goto, TypeOK, PollsInv
      <3> QED BY <3>1, <3>2
    <2>2. ASSUME NEW r \in Requests, CheckDedupe(r) PROVE TypeOK' /\ PollsInv'
      <3>1. TypeOK'
        BY <2>0, <2>2 DEF CheckDedupe, Reply, Goto, Excuse, TypeOK, Answers
      <3>2. PollsInv'
        BY <2>2 DEF CheckDedupe, Reply, Goto, TypeOK, PollsInv
      <3> QED BY <3>1, <3>2
    <2>3. ASSUME NEW r \in Requests, Throws(r), UNCHANGED polls PROVE PollsInv'
      <3>1. pc' = [pc EXCEPT ![r] = "answered"]
        BY <2>3, ThrowsAnswers
      <3> QED BY <2>3, <3>1 DEF TypeOK, PollsInv
    <2>4. ASSUME NEW r \in Requests, Prepare(r) PROVE TypeOK' /\ PollsInv'
      <3>1. CASE Throws(r)
        <4>1. TypeOK'
          BY <2>4, <3>1, ThrowsTypes DEF Prepare, TypeOK
        <4> QED BY <2>3, <2>4, <3>1, <4>1 DEF Prepare
      <3>2. CASE Goto(r, "save") /\ UNCHANGED <<answer, audit>>
        <4>1. TypeOK'
          BY <2>4, <3>2 DEF Prepare, Goto, TypeOK
        <4>2. PollsInv'
          BY <2>4, <3>2 DEF Prepare, Goto, TypeOK, PollsInv
        <4> QED BY <4>1, <4>2
      <3> QED BY <2>4, <3>1, <3>2 DEF Prepare
    <2>5. ASSUME NEW r \in Requests, SendFails(r) PROVE TypeOK' /\ PollsInv'
      <3>1. TypeOK'
        BY <2>5, ThrowsTypes DEF SendFails, TypeOK
      <3> QED BY <2>3, <2>5, <3>1 DEF SendFails
    <2>6. ASSUME NEW r \in Requests, SendResponseLost(r) PROVE TypeOK' /\ PollsInv'
      <3>1. TypeOK'
        BY <2>0, <2>6, ThrowsTypes DEF SendResponseLost, Excuse, TypeOK
      <3> QED BY <2>3, <2>6, <3>1 DEF SendResponseLost
    <2>7. ASSUME NEW r \in Requests, SendAccepted(r) PROVE TypeOK' /\ PollsInv'
      <3>1. TypeOK'
        BY <2>0, <2>7 DEF SendAccepted, Goto, TypeOK
      <3>2. PollsInv'
        BY <2>7, SubmissionAssumption DEF SendAccepted, Goto, TypeOK, PollsInv
      <3> QED BY <3>1, <3>2
    <2>8. ASSUME NEW r \in Requests, PollNotFound(r) PROVE TypeOK' /\ PollsInv'
      <3>0. polls[r] \in 0..MaxPolls /\ polls[r] < MaxPolls
        BY <2>8 DEF PollNotFound, TypeOK, PollsInv
      <3>1. TypeOK'
        BY <2>8, <3>0, SubmissionAssumption DEF PollNotFound, Goto, TypeOK
      <3>2. PollsInv'
        BY <2>8, <3>0, SubmissionAssumption DEF PollNotFound, Goto, TypeOK, PollsInv
      <3> QED BY <3>1, <3>2
    <2>9. ASSUME NEW r \in Requests, PollSuccess(r) PROVE TypeOK' /\ PollsInv'
      <3>1. TypeOK'
        BY <2>9 DEF PollSuccess, Goto, TypeOK
      <3>2. PollsInv'
        BY <2>9 DEF PollSuccess, Goto, TypeOK, PollsInv
      <3> QED BY <3>1, <3>2
    <2>10. ASSUME NEW r \in Requests, PollThrows(r) PROVE TypeOK' /\ PollsInv'
      <3>1. TypeOK'
        BY <2>10, ThrowsTypes DEF PollThrows, TypeOK
      <3> QED BY <2>3, <2>10, <3>1 DEF PollThrows
    <2>11. ASSUME NEW r \in Requests, Save(r) PROVE TypeOK' /\ PollsInv'
      <3>1. TypeOK'
        BY <2>11 DEF Save, Reply, Goto, TypeOK, Answers
      <3>2. PollsInv'
        BY <2>11 DEF Save, Reply, Goto, TypeOK, PollsInv
      <3> QED BY <3>1, <3>2
    <2>12. ASSUME NEW a \in Atts, MarkLands(a) \/ MarkFails(a) \/ MarkExpires(a)
           PROVE  TypeOK' /\ PollsInv'
      BY <2>12 DEF MarkLands, MarkFails, MarkExpires, Excuse, TypeOK, PollsInv
    <2>13. ASSUME NEW r \in Requests, Hangs(r) PROVE TypeOK' /\ PollsInv'
      <3>1. TypeOK'
        BY <2>13 DEF Hangs, Goto, TypeOK
      <3>2. PollsInv'
        BY <2>13 DEF Hangs, Goto, TypeOK, PollsInv
      <3> QED BY <3>1, <3>2
    <2>14. CASE CrashRestart
      <3>2. TypeOK'
        BY <2>14, SubmissionAssumption DEF CrashRestart, Excuse, TypeOK
      <3>3. PollsInv'
        BY <2>14 DEF CrashRestart, TypeOK, PollsInv
      <3> QED BY <3>2, <3>3
    <2>15. CASE UNCHANGED vars
      BY <2>15 DEF vars, TypeOK, PollsInv
    <2> QED
      BY <2>1, <2>2, <2>4, <2>5, <2>6, <2>7, <2>8, <2>9, <2>10, <2>11, <2>12,
         <2>13, <2>14, <2>15 DEF Next, RequestStep
  <1> QED BY <1>1, <1>2, PTL DEF Spec

(***************************************************************************)
(* At most one transaction per attestation.                                *)
(***************************************************************************)

\* The inductive strengthening, per attestation that is not excused: a transaction
\* has a mark in Redis or on its way there, nobody else is past the check once it is
\* sent, and at most one request is past the check before.
OneSender(a) ==
  /\ txs[a] <= 1
  /\ txs[a] = 1 => a \in marks \cup setting
  /\ txs[a] = 1 => \A q \in Requests : ~(AttOf[q] = a /\ pc[q] = "send")
  /\ \A q, r \in Requests :
       (AttOf[q] = a /\ pc[q] = "send" /\ AttOf[r] = a /\ pc[r] = "send") => q = r

DedupeInv == \A a \in Atts \ excused : OneSender(a)

\* A step that sends nothing, lets nobody pass the check and loses no mark of an
\* attestation it does not excuse preserves the invariant.
LEMMA QuietStep ==
  ASSUME TypeOK, DedupeInv, excused \subseteq excused', txs' = txs,
         \A a \in Atts \ excused' : a \in marks \cup setting => a \in marks' \cup setting',
         \A r \in Requests : pc'[r] = "send" => pc[r] = "send"
  PROVE  DedupeInv'
  BY DEF DedupeInv, OneSender

\* The Redis marks keep every attestation that is not excused to one transaction, for
\* every number of requests, crashes and retries: AtMostOnceUnlessExcused.
THEOREM AtMostOnce == Spec => []AtMostOnceUnlessExcused
  <1>1. Init => DedupeInv
    BY DEF Init, DedupeInv, OneSender
  <1>2. TypeOK /\ DedupeInv /\ [Next]_vars => DedupeInv'
    <2> SUFFICES ASSUME TypeOK, DedupeInv, [Next]_vars PROVE DedupeInv'
      OBVIOUS
    <2>0. \A r \in Requests : AttOf[r] \in Atts
      BY SubmissionAssumption
    <2>1. ASSUME NEW r \in Requests, CheckDedupe(r) PROVE DedupeInv'
      <3>1. CASE AttOf[r] \in marks /\ Reply(r, "deduped") /\ UNCHANGED excused
        BY <2>1, <3>1, QuietStep DEF CheckDedupe, Reply, Goto, TypeOK
      <3>2. CASE /\ AttOf[r] \notin marks
                 /\ Goto(r, "send")
                 /\ Excuse(IF Unseen(r) THEN {AttOf[r]} ELSE {})
        <4>1. UNCHANGED <<marks, setting, txs>> /\ excused \subseteq excused'
          BY <2>1, <3>2 DEF CheckDedupe, Excuse
        <4>2. pc' = [pc EXCEPT ![r] = "send"]
          BY <3>2 DEF Goto
        <4> SUFFICES ASSUME NEW a \in Atts, a \notin excused' PROVE OneSender(a)'
          BY DEF DedupeInv
        <4>3. OneSender(a)
          BY <4>1 DEF DedupeInv
        <4>4. CASE AttOf[r] # a
          BY <4>1, <4>2, <4>3, <4>4 DEF OneSender, TypeOK
        <4>5. CASE AttOf[r] = a
          <5>1. ~Unseen(r)
            BY <3>2, <4>5 DEF Excuse
          <5>2. txs[a] # 1
            BY <3>2, <4>3, <4>5, <5>1 DEF OneSender, Unseen
          <5> QED BY <4>1, <4>2, <4>3, <4>5, <5>1, <5>2 DEF OneSender, Unseen, TypeOK
        <4> QED BY <4>4, <4>5
      <3>3. CASE Goto(r, "send") /\ Excuse({AttOf[r]})
        <4>1. UNCHANGED <<marks, setting, txs>> /\ excused' = excused \cup {AttOf[r]}
          BY <2>1, <3>3 DEF CheckDedupe, Excuse
        <4>2. pc' = [pc EXCEPT ![r] = "send"]
          BY <3>3 DEF Goto
        <4> QED BY <4>1, <4>2 DEF DedupeInv, OneSender, TypeOK
      <3> QED BY <2>1, <3>1, <3>2, <3>3 DEF CheckDedupe
    <2>2. ASSUME NEW r \in Requests, SendAccepted(r) PROVE DedupeInv'
      <3>1. /\ pc[r] = "send" /\ pc' = [pc EXCEPT ![r] = "confirm"]
            /\ txs' = [txs EXCEPT ![AttOf[r]] = @ + 1]
            /\ setting' = setting \cup {AttOf[r]}
            /\ UNCHANGED <<marks, excused>>
        BY <2>2 DEF SendAccepted, Goto
      <3> SUFFICES ASSUME NEW a \in Atts, a \notin excused PROVE OneSender(a)'
        BY <3>1 DEF DedupeInv
      <3>2. OneSender(a)
        BY DEF DedupeInv
      <3>3. CASE AttOf[r] # a
        BY <3>1, <3>2, <3>3 DEF OneSender, TypeOK
      <3>4. CASE AttOf[r] = a
        <4>1. txs[a] = 0 /\ txs'[a] = 1
          BY <3>1, <3>2, <3>4 DEF OneSender, TypeOK
        <4> QED BY <3>1, <3>2, <3>4, <4>1 DEF OneSender, TypeOK
      <3> QED BY <3>3, <3>4
    <2>3. ASSUME NEW r \in Requests, SendResponseLost(r) PROVE DedupeInv'
      <3>1. pc' = [pc EXCEPT ![r] = "answered"]
        BY <2>3, ThrowsAnswers DEF SendResponseLost
      <3>2. /\ txs' = [txs EXCEPT ![AttOf[r]] = @ + 1]
            /\ excused' = excused \cup {AttOf[r]}
            /\ UNCHANGED <<marks, setting>>
        BY <2>3 DEF SendResponseLost, Excuse
      <3> QED BY <2>0, <3>1, <3>2 DEF DedupeInv, OneSender, TypeOK
    <2>4. ASSUME NEW r \in Requests,
                 Throws(r), UNCHANGED <<marks, setting, txs, excused>>
          PROVE  DedupeInv'
      <3>1. pc' = [pc EXCEPT ![r] = "answered"]
        BY <2>4, ThrowsAnswers
      <3> QED BY <2>4, <3>1, QuietStep DEF TypeOK
    <2>5. ASSUME NEW r \in Requests, Prepare(r) \/ SendFails(r) \/ PollThrows(r)
          PROVE  DedupeInv'
      <3>1. CASE Throws(r)
        BY <2>4, <2>5, <3>1 DEF Prepare, SendFails, PollThrows
      <3>2. CASE Prepare(r) /\ Goto(r, "save")
        BY <3>2, QuietStep DEF Prepare, Goto, TypeOK
      <3> QED BY <2>5, <3>1, <3>2 DEF Prepare, SendFails, PollThrows
    <2>6. ASSUME NEW r \in Requests,
                 Begin(r) \/ PollNotFound(r) \/ PollSuccess(r) \/ Save(r) \/ Hangs(r)
          PROVE  DedupeInv'
      BY <2>6, QuietStep DEF Begin, PollNotFound, PollSuccess, Save, Hangs, Reply, Goto, TypeOK
    <2>7. ASSUME NEW a \in Atts, MarkLands(a) \/ MarkFails(a) \/ MarkExpires(a)
          PROVE  DedupeInv'
      BY <2>7, QuietStep DEF MarkLands, MarkFails, MarkExpires, Excuse
    <2>9. CASE CrashRestart
      BY <2>9, QuietStep DEF CrashRestart, Excuse
    <2>10. CASE UNCHANGED vars
      BY <2>10, QuietStep DEF vars
    <2> QED
      BY <2>1, <2>2, <2>3, <2>5, <2>6, <2>7, <2>9, <2>10 DEF Next, RequestStep
  <1>3. DedupeInv => AtMostOnceUnlessExcused
    BY DEF DedupeInv, OneSender, AtMostOnceUnlessExcused
  <1> QED BY <1>1, <1>2, <1>3, SubmissionTypeCorrect, PTL DEF Spec

-----------------------------------------------------------------------------
(***************************************************************************)
(* Every record is backed.                                                 *)
(***************************************************************************)

\* What saveAttestation relies on: only unsigned requests prepare, a signed one that waits
\* for its confirmation or for the table has sent its transaction, and a request that is
\* not answered has no record.
SaveBacked ==
  \A r \in Requests :
    /\ pc[r] = "prepare" => r \in Unsigned
    /\ pc[r] \in {"confirm", "save"} /\ r \notin Unsigned => txs[AttOf[r]] >= 1
    /\ pc[r] # "answered" => r \notin table

\* A step of one request that inserts nothing keeps what is known of all, given what is
\* known of it.
LEMMA OthersBacked ==
  ASSUME TypeOK, SaveBacked, RecordBacked, NEW r \in Requests,
         pc[r] # "answered", table' = table,
         \A q \in Requests : q # r => pc'[q] = pc[q] /\ answer'[q] = answer[q],
         txs' \in [Atts -> Nat], \A a \in Atts : txs'[a] >= txs[a],
         pc'[r] = "prepare" => r \in Unsigned,
         pc'[r] \in {"confirm", "save"} /\ r \notin Unsigned => txs'[AttOf[r]] >= 1
  PROVE  SaveBacked' /\ RecordBacked'
  <1>0. \A q \in Requests : AttOf[q] \in Atts
    BY SubmissionAssumption
  <1>1. r \notin table /\ table \subseteq Requests
    BY DEF SaveBacked, TypeOK
  <1>2. SaveBacked'
    <2> SUFFICES ASSUME NEW q \in Requests
                 PROVE  /\ pc'[q] = "prepare" => q \in Unsigned
                        /\ pc'[q] \in {"confirm", "save"} /\ q \notin Unsigned => txs'[AttOf[q]] >= 1
                        /\ pc'[q] # "answered" => q \notin table
      BY DEF SaveBacked
    <2>1. CASE q = r
      BY <1>1, <2>1
    <2>2. CASE q # r
      <3>1. pc'[q] = pc[q] /\ txs[AttOf[q]] \in Nat /\ txs'[AttOf[q]] \in Nat /\ txs'[AttOf[q]] >= txs[AttOf[q]]
        BY <1>0, <2>2 DEF TypeOK
      <3> QED BY <3>1 DEF SaveBacked
    <2> QED BY <2>1, <2>2
  <1>3. RecordBacked'
    <2> SUFFICES ASSUME NEW q \in table
                 PROVE  /\ answer'[q] = "created"
                        /\ q \notin Unsigned => txs'[AttOf[q]] >= 1
                        /\ \A s \in table \ {q} : Slot(s) # Slot(q)
      BY DEF RecordBacked, Slot
    <2>1. q # r /\ txs[AttOf[q]] \in Nat /\ txs'[AttOf[q]] \in Nat /\ txs'[AttOf[q]] >= txs[AttOf[q]]
      BY <1>0, <1>1 DEF TypeOK
    <2> QED BY <1>1, <2>1 DEF RecordBacked
  <1> QED BY <1>2, <1>3

\* A record in the attestations table belongs to a request that was answered 201, has a
\* transaction behind it unless the client asked for an unsigned one, and is the only one
\* of its business and period: RecordBacked, the safety of SubmissionsHold.
THEOREM RecordsAreBacked == Spec => []RecordBacked
  <1>1. Init => SaveBacked /\ RecordBacked
    BY DEF Init, SaveBacked, RecordBacked
  <1>2. TypeOK /\ SaveBacked /\ RecordBacked /\ [Next]_vars => SaveBacked' /\ RecordBacked'
    <2> SUFFICES ASSUME TypeOK, SaveBacked, RecordBacked, [Next]_vars
                 PROVE  SaveBacked' /\ RecordBacked'
      OBVIOUS
    <2>0. /\ \A r \in Requests : AttOf[r] \in Atts /\ txs[AttOf[r]] \in Nat
          /\ txs \in [Atts -> Nat] /\ \A a \in Atts : txs[a] >= txs[a]
      BY SubmissionAssumption DEF TypeOK
    <2>1. ASSUME NEW r \in Requests, Begin(r) PROVE SaveBacked' /\ RecordBacked'
      <3>1. /\ pc[r] # "answered" /\ UNCHANGED <<txs, table>>
            /\ \A q \in Requests : q # r => pc'[q] = pc[q] /\ answer'[q] = answer[q]
            /\ pc'[r] = "prepare" => r \in Unsigned
            /\ pc'[r] \notin {"confirm", "save"}
        BY <2>1 DEF Begin, Goto, TypeOK
      <3> QED BY <2>0, <3>1, OthersBacked
    <2>2. ASSUME NEW r \in Requests, CheckDedupe(r) PROVE SaveBacked' /\ RecordBacked'
      <3>1. /\ pc[r] # "answered" /\ UNCHANGED <<txs, table>>
            /\ \A q \in Requests : q # r => pc'[q] = pc[q] /\ answer'[q] = answer[q]
            /\ pc'[r] \in {"answered", "send"}
        BY <2>2 DEF CheckDedupe, Reply, Goto, TypeOK
      <3> QED BY <2>0, <3>1, OthersBacked
    <2>3. ASSUME NEW r \in Requests, Throws(r), pc[r] # "answered", table' = table,
                 txs' \in [Atts -> Nat], \A a \in Atts : txs'[a] >= txs[a]
          PROVE  SaveBacked' /\ RecordBacked'
      <3>1. /\ \A q \in Requests : q # r => pc'[q] = pc[q] /\ answer'[q] = answer[q]
            /\ pc'[r] = "answered"
        BY <2>3 DEF Throws, Reply, Goto, TypeOK
      <3> QED BY <2>3, <3>1, OthersBacked
    <2>4. ASSUME NEW r \in Requests, Prepare(r) PROVE SaveBacked' /\ RecordBacked'
      <3>1. CASE Throws(r)
        BY <2>0, <2>3, <2>4, <3>1 DEF Prepare
      <3>2. CASE Goto(r, "save") /\ UNCHANGED answer
        <4>1. r \in Unsigned
          BY <2>4 DEF Prepare, SaveBacked
        <4>2. /\ pc[r] # "answered" /\ UNCHANGED <<txs, table>> /\ pc'[r] = "save"
              /\ \A q \in Requests : q # r => pc'[q] = pc[q] /\ answer'[q] = answer[q]
          BY <2>4, <3>2 DEF Prepare, Goto, TypeOK
        <4> QED BY <2>0, <4>1, <4>2, OthersBacked
      <3> QED BY <2>4, <3>1, <3>2 DEF Prepare
    <2>5. ASSUME NEW r \in Requests, SendFails(r) \/ PollThrows(r) PROVE SaveBacked' /\ RecordBacked'
      BY <2>0, <2>3, <2>5 DEF SendFails, PollThrows
    <2>6. ASSUME NEW r \in Requests, txs' = [txs EXCEPT ![AttOf[r]] = @ + 1]
          PROVE  txs' \in [Atts -> Nat] /\ txs'[AttOf[r]] >= 1 /\ \A a \in Atts : txs'[a] >= txs[a]
      BY <2>0, <2>6 DEF TypeOK
    <2>7. ASSUME NEW r \in Requests, SendResponseLost(r) PROVE SaveBacked' /\ RecordBacked'
      BY <2>3, <2>6, <2>7 DEF SendResponseLost
    <2>8. ASSUME NEW r \in Requests, SendAccepted(r) PROVE SaveBacked' /\ RecordBacked'
      <3>1. /\ pc[r] = "send" /\ UNCHANGED table /\ pc'[r] = "confirm"
            /\ \A q \in Requests : q # r => pc'[q] = pc[q] /\ answer'[q] = answer[q]
            /\ txs' = [txs EXCEPT ![AttOf[r]] = @ + 1]
        BY <2>8 DEF SendAccepted, Goto, TypeOK
      <3> QED BY <2>6, <3>1, OthersBacked
    <2>9. ASSUME NEW r \in Requests, PollNotFound(r) \/ PollSuccess(r) PROVE SaveBacked' /\ RecordBacked'
      <3>1. pc[r] = "confirm" /\ (r \notin Unsigned => txs[AttOf[r]] >= 1)
        BY <2>9 DEF PollNotFound, PollSuccess, SaveBacked
      <3>2. UNCHANGED <<answer, txs, table>>
        BY <2>9 DEF PollNotFound, PollSuccess
      <3>3. /\ \A q \in Requests : q # r => pc'[q] = pc[q]
            /\ pc'[r] # "prepare"
        BY <2>9, <3>1 DEF PollNotFound, PollSuccess, Goto, TypeOK
      <3> QED BY <2>0, <3>1, <3>2, <3>3, OthersBacked
    <2>10. ASSUME NEW r \in Requests, Save(r) PROVE SaveBacked' /\ RecordBacked'
      <3>1. /\ pc[r] = "save" /\ (r \notin Unsigned => txs[AttOf[r]] >= 1) /\ r \notin table
            /\ UNCHANGED txs /\ pc' = [pc EXCEPT ![r] = "answered"]
        BY <2>10 DEF Save, Reply, Goto, SaveBacked
      <3>2. CASE table' = table
        <4>1. /\ \A q \in Requests : q # r => pc'[q] = pc[q] /\ answer'[q] = answer[q]
              /\ pc'[r] = "answered"
          BY <2>10, <3>1, <3>2 DEF Save, Reply, TypeOK
        <4> QED BY <2>0, <3>1, <3>2, <4>1, OthersBacked
      <3>3. CASE ~Occupied(Slot(r)) /\ table' = table \cup {r} /\ Reply(r, "created")
        <4>1. answer' = [answer EXCEPT ![r] = "created"]
          BY <3>3 DEF Reply
        <4>2. \A q \in table : Slot(q) # Slot(r) /\ q \in Requests /\ q # r
          BY <3>1, <3>3 DEF Occupied, TypeOK
        <4>3. SaveBacked'
          BY <3>1, <3>3 DEF SaveBacked, TypeOK
        <4>4. RecordBacked'
          <5> SUFFICES ASSUME NEW q \in table'
                       PROVE  /\ answer'[q] = "created"
                              /\ q \notin Unsigned => txs[AttOf[q]] >= 1
                              /\ \A s \in table' \ {q} : Slot(s) # Slot(q)
            BY <3>1 DEF RecordBacked, Slot
          <5>1. CASE q = r
            BY <3>1, <3>3, <4>1, <4>2, <5>1 DEF TypeOK
          <5>2. CASE q \in table
            BY <3>3, <4>1, <4>2, <5>2 DEF RecordBacked, TypeOK
          <5> QED BY <3>3, <5>1, <5>2
        <4> QED BY <4>3, <4>4
      <3> QED BY <2>10, <3>2, <3>3 DEF Save
    <2>11. ASSUME NEW a \in Atts, MarkLands(a) \/ MarkFails(a) \/ MarkExpires(a)
           PROVE  SaveBacked' /\ RecordBacked'
      BY <2>11 DEF MarkLands, MarkFails, MarkExpires, SaveBacked, RecordBacked, Slot
    <2>12. CASE CrashRestart
      BY <2>12 DEF CrashRestart, SaveBacked, RecordBacked, Slot
    <2>13. CASE UNCHANGED vars
      BY <2>13 DEF vars, SaveBacked, RecordBacked, Slot
    <2>14. ASSUME NEW r \in Requests, Hangs(r) PROVE SaveBacked' /\ RecordBacked'
      <3>1. /\ pc[r] # "answered" /\ UNCHANGED <<answer, txs, table>>
            /\ \A q \in Requests : q # r => pc'[q] = pc[q]
            /\ pc'[r] = "hung"
        BY <2>14 DEF Hangs, Goto, TypeOK
      <3> QED BY <2>0, <3>1, OthersBacked
    <2> QED
      BY <2>1, <2>2, <2>4, <2>5, <2>7, <2>8, <2>9, <2>10, <2>11, <2>12, <2>13, <2>14 DEF Next, RequestStep
  <1> QED BY <1>1, <1>2, SubmissionTypeCorrect, PTL DEF Spec

-----------------------------------------------------------------------------
(***************************************************************************)
(* The circuit breaker of SorobanRpc never refuses a call.                 *)
(***************************************************************************)

\* Which legs share a client: a read's hedge its primary's, at most.
LEMMA ClientFacts ==
  /\ \A p \in Legs : ClientOf(p) \in Legs
  /\ \A r \in Reads : Primary(r) \in Legs /\ Hedge(r) \in Legs
  /\ \A s \in Submits : Rpc(s) \in Legs
  /\ \A r \in Reads, q \in Legs :
       ClientOf(q) \in {ClientOf(Primary(r)), ClientOf(Hedge(r))} => q \in {Primary(r), Hedge(r)}
  /\ \A s \in Submits, q \in Legs : ClientOf(q) = ClientOf(Rpc(s)) => q = Rpc(s)
  BY DEF Legs, ClientOf, Primary, Hedge, Rpc

\* The types the argument needs.
RpcShape ==
  /\ leg \in [Legs -> {"idle", "running", "sleeping", "ok", "failed"}]
  /\ brk \in [Legs -> {"closed", "open", "half_open"}]
  /\ hedgeTimer \in [Reads -> BOOLEAN]
  /\ outcome \in [Reads -> {"none", "value", "error"}]

\* A breaker leaves `closed' only with a failed leg of its client, and failed legs
\* stay failed.
OpenMeansFailed ==
  \A c \in Legs : brk[c] # "closed" => \E q \in Legs : ClientOf(q) = c /\ leg[q] = "failed"

\* The hedge of a read waits for its timer, and the timer for a primary in flight.
HedgeWaits ==
  \A r \in Reads :
    /\ leg[Primary(r)] = "idle" => leg[Hedge(r)] = "idle"
    /\ hedgeTimer[r] => leg[Hedge(r)] = "idle" /\ leg[Primary(r)] \in {"running", "sleeping"}

RpcInv == RpcShape /\ OpenMeansFailed /\ HedgeWaits /\ NoCallRefused

\* A leg that has not failed and whose client no other leg failed on passes its breaker.
LEMMA Admitted ==
  ASSUME RpcInv, NEW p \in Legs, NEW rest \in BOOLEAN,
         \A q \in Legs : ClientOf(q) = ClientOf(p) => leg[q] # "failed",
         CheckBreaker(p, rest)
  PROVE  /\ CanProceed(p, rest)
         /\ brk' = brk
         /\ NoCallRefused'
  <1>1. ClientOf(p) \in Legs /\ brk[ClientOf(p)] = "closed"
    BY ClientFacts DEF RpcInv, OpenMeansFailed
  <1>2. CanProceed(p, rest)
    BY <1>1 DEF CanProceed
  <1>3. brk' = brk
    BY <1>1 DEF CheckBreaker, RpcInv, RpcShape
  <1>4. NoCallRefused'
    BY <1>2 DEF CheckBreaker, RpcInv, NoCallRefused
  <1> QED BY <1>2, <1>3, <1>4

\* Starting a leg keeps the invariant, given that its breaker admits it.
LEMMA StartKeeps ==
  ASSUME RpcInv, NEW p \in Legs, leg[p] \in {"idle", "ok"},
         leg' = [leg EXCEPT ![p] = "running"], brk' = brk, NoCallRefused',
         hedgeTimer' \in [Reads -> BOOLEAN],
         outcome' \in [Reads -> {"none", "value", "error"}], HedgeWaits'
  PROVE  RpcInv'
  <1>1. RpcShape'
    BY DEF RpcInv, RpcShape
  <1>2. OpenMeansFailed'
    BY DEF RpcInv, RpcShape, OpenMeansFailed
  <1> QED BY <1>1, <1>2 DEF RpcInv

\* A leg in flight that ends keeps the invariant if it only opens its breaker when it
\* fails.
LEMMA EndKeeps ==
  ASSUME RpcInv, NEW p \in Legs, NEW result \in {"ok", "failed"},
         leg[p] \in {"running", "sleeping"}, Ends(p, result),
         brk' \in [Legs -> {"closed", "open", "half_open"}],
         \A c \in Legs : brk'[c] # "closed" =>
            brk[c] # "closed" \/ (c = ClientOf(p) /\ result = "failed"),
         UNCHANGED refused
  PROVE  RpcInv'
  <1>1. leg' = [leg EXCEPT ![p] = result]
    BY DEF Ends
  <1>2. hedgeTimer' \in [Reads -> BOOLEAN]
    BY DEF Ends, RpcInv, RpcShape
  <1>3. RpcShape'
    <2>1. outcome' \in [Reads -> {"none", "value", "error"}]
      BY DEF Ends, Settled, RpcInv, RpcShape
    <2> QED BY <1>1, <1>2, <2>1 DEF RpcInv, RpcShape
  <1>4. OpenMeansFailed'
    BY <1>1 DEF RpcInv, RpcShape, OpenMeansFailed
  <1>5. HedgeWaits'
    <2> SUFFICES ASSUME NEW r \in Reads
                 PROVE  /\ leg'[Primary(r)] = "idle" => leg'[Hedge(r)] = "idle"
                        /\ hedgeTimer'[r] => /\ leg'[Hedge(r)] = "idle"
                                             /\ leg'[Primary(r)] \in {"running", "sleeping"}
      BY DEF HedgeWaits, Primary, Hedge
    <2>1. CASE p \notin {Primary(r), Hedge(r)}
      <3>1. hedgeTimer'[r] => hedgeTimer[r]
        BY <2>1 DEF Ends, RpcInv, RpcShape
      <3> QED BY <1>1, <2>1, <3>1, ClientFacts DEF RpcInv, RpcShape, HedgeWaits
    <2>2. CASE p = Primary(r)
      <3>1. p[1] = r /\ p[2] = "primary"
        BY <2>2 DEF Primary
      <3>2. Primary(r) # Hedge(r)
        BY DEF Primary, Hedge
      <3>3. ~hedgeTimer'[r]
        <4>1. CASE ~hedgeTimer[r]
          BY <3>1, <4>1 DEF Ends, RpcInv, RpcShape
        <4>2. CASE hedgeTimer[r]
          <5>1. leg[Hedge(r)] = "idle"
            BY <4>2 DEF RpcInv, HedgeWaits
          <5>2. hedgeTimer' = [hedgeTimer EXCEPT ![r] = @ /\ Settled(p, result)[r] = "none"]
            BY <3>1 DEF Ends
          <5>3. Settled(p, result)[r] # "none"
            BY <3>1, <5>1 DEF Settled, RpcInv, RpcShape
          <5> QED BY <5>2, <5>3 DEF RpcInv, RpcShape
        <4> QED BY <4>1, <4>2
      <3> QED BY <1>1, <2>2, <3>2, <3>3, ClientFacts DEF RpcInv, RpcShape, HedgeWaits
    <2>3. CASE p = Hedge(r)
      <3>1. p[1] = r /\ leg[Hedge(r)] # "idle"
        BY <2>3 DEF Hedge
      <3>2. ~hedgeTimer[r] /\ leg[Primary(r)] # "idle"
        BY <3>1 DEF RpcInv, HedgeWaits
      <3>3. ~hedgeTimer'[r]
        BY <3>1, <3>2 DEF Ends, RpcInv, RpcShape
      <3>4. Primary(r) # Hedge(r)
        BY DEF Primary, Hedge
      <3> QED BY <1>1, <2>3, <3>2, <3>3, <3>4, ClientFacts DEF RpcInv, RpcShape
    <2> QED BY <2>1, <2>2, <2>3
  <1>6. NoCallRefused'
    BY DEF RpcInv, NoCallRefused
  <1> QED BY <1>3, <1>4, <1>5, <1>6 DEF RpcInv

LEMMA RpcStarts == RpcInit => RpcInv
  BY ClientFacts DEF RpcInit, RpcInv, RpcShape, OpenMeansFailed, HedgeWaits, NoCallRefused

\* Every step keeps it.
LEMMA RpcStep == RpcInv /\ [RpcNext]_rpcVars => RpcInv'
  <1> SUFFICES ASSUME RpcInv, [RpcNext]_rpcVars PROVE RpcInv'
    OBVIOUS
  <1>1. ASSUME NEW p \in Legs, AttemptSucceeds(p) PROVE RpcInv'
    <2>1. brk' = [brk EXCEPT ![ClientOf(p)] = Recovered(p)] /\ UNCHANGED refused
      BY <1>1 DEF AttemptSucceeds, RecordSuccess
    <2>2. brk' \in [Legs -> {"closed", "open", "half_open"}]
      BY <2>1, ClientFacts DEF Recovered, RpcInv, RpcShape
    <2>3. \A c \in Legs : brk'[c] # "closed" => brk[c] # "closed"
      BY <2>1, ClientFacts DEF Recovered, RpcInv, RpcShape
    <2>4. leg[p] = "running" /\ Ends(p, "ok")
      BY <1>1 DEF AttemptSucceeds
    <2> QED BY <2>1, <2>2, <2>3, <2>4, EndKeeps
  <1>2. ASSUME NEW p \in Legs, leg[p] = "running", Sleep(p),
               brk' \in [Legs -> {"closed", "open", "half_open"}],
               \A c \in Legs : brk'[c] # "closed" => brk[c] # "closed",
               UNCHANGED refused
        PROVE  RpcInv'
    <2>1. leg' = [leg EXCEPT ![p] = "sleeping"] /\ UNCHANGED <<outcome, hedgeTimer>>
      BY <1>2 DEF Sleep
    <2>2. RpcShape'
      BY <1>2, <2>1 DEF RpcInv, RpcShape
    <2>3. OpenMeansFailed'
      BY <1>2, <2>1 DEF RpcInv, RpcShape, OpenMeansFailed
    <2>4. HedgeWaits'
      BY <1>2, <2>1, ClientFacts DEF RpcInv, RpcShape, HedgeWaits
    <2>5. NoCallRefused'
      BY <1>2 DEF RpcInv, NoCallRefused
    <2> QED BY <2>2, <2>3, <2>4, <2>5 DEF RpcInv
  <1>3. ASSUME NEW p \in Legs, NEW state \in {"closed", "open", "half_open"}, NEW n,
               state # "closed" => brk[ClientOf(p)] # "closed",
               RecordFailure(p, state, n), leg[p] = "running", Ends(p, "failed"),
               UNCHANGED refused
        PROVE  RpcInv'
    <2>1. brk' \in [Legs -> {"closed", "open", "half_open"}]
      BY <1>3, ClientFacts DEF RecordFailure, RpcInv, RpcShape
    <2>2. \A c \in Legs : brk'[c] # "closed" => brk[c] # "closed" \/ c = ClientOf(p)
      BY <1>3, ClientFacts DEF RecordFailure, RpcInv, RpcShape
    <2> QED BY <1>3, <2>1, <2>2, EndKeeps
  <1>4. ASSUME NEW p \in Legs, UNCHANGED brk, leg[p] = "running", Ends(p, "failed"),
               UNCHANGED refused
        PROVE  RpcInv'
    BY <1>4, EndKeeps DEF RpcInv, RpcShape
  <1>5. ASSUME NEW p \in Legs, TransientFailure(p) PROVE RpcInv'
    <2>1. brk[ClientOf(p)] \in {"closed", "open", "half_open"}
      BY ClientFacts DEF RpcInv, RpcShape
    <2>2. leg[p] = "running" /\ UNCHANGED refused
      BY <1>5 DEF TransientFailure
    <2>3. CASE MayRetry(p)
      BY <1>5, <2>2, <2>3, <1>2 DEF TransientFailure, BreakerUntouched, RpcInv, RpcShape
    <2>4. CASE ~MayRetry(p) /\ attempt[p] > MaxRetries
      BY <1>5, <2>1, <2>2, <2>4, <1>3 DEF TransientFailure, RecordOneMoreFailure
    <2>5. CASE ~MayRetry(p) /\ ~(attempt[p] > MaxRetries)
      BY <1>5, <2>2, <2>5, <1>4 DEF TransientFailure, BreakerUntouched
    <2> QED BY <2>3, <2>4, <2>5
  <1>6. ASSUME NEW p \in Legs, PermanentFailure(p) PROVE RpcInv'
    <2>1. brk[ClientOf(p)] \in {"closed", "open", "half_open"}
      BY ClientFacts DEF RpcInv, RpcShape
    <2> QED BY <1>6, <2>1, <1>3 DEF PermanentFailure, RecordOneMoreFailure
  <1>7. ASSUME NEW s \in Submits, TryAgainLater(s) PROVE RpcInv'
    <2> DEFINE p == Rpc(s)
    <2>1. p \in Legs /\ ClientOf(p) \in Legs /\ leg[p] = "running" /\ UNCHANGED refused
      BY <1>7, ClientFacts DEF TryAgainLater
    <2>2. Recovered(p) \in {"closed", "open", "half_open"}
      BY <2>1 DEF Recovered, RpcInv, RpcShape
    <2>3. Recovered(p) # "closed" => brk[ClientOf(p)] # "closed"
      BY DEF Recovered
    <2>4. ASSUME RecordSuccess(p)
          PROVE  /\ brk' \in [Legs -> {"closed", "open", "half_open"}]
                 /\ \A c \in Legs : brk'[c] # "closed" => brk[c] # "closed"
      BY <2>1, <2>2, <2>3, <2>4 DEF RecordSuccess, RpcInv, RpcShape
    <2>5. CASE MayRetry(p)
      <3>1. RecordSuccess(p) /\ Sleep(p)
        BY <1>7, <2>5 DEF TryAgainLater
      <3> HIDE DEF p
      <3> QED BY <3>1, <2>1, <2>4, <1>2
    <2>6. CASE ~MayRetry(p) /\ attempt[p] > MaxRetries
      <3>1. RecordSuccess(p) /\ Ends(p, "failed")
        BY <1>7, <2>6 DEF TryAgainLater
      <3> HIDE DEF p
      <3> QED BY <3>1, <2>1, <2>4, EndKeeps
    <2>7. CASE ~MayRetry(p) /\ ~(attempt[p] > MaxRetries)
      <3>1. RecordFailure(p, Recovered(p), 0) /\ Ends(p, "failed")
        BY <1>7, <2>7 DEF TryAgainLater
      <3> HIDE DEF p
      <3> QED BY <3>1, <2>1, <2>2, <2>3, <1>3
    <2> QED BY <2>5, <2>6, <2>7
  <1>8. ASSUME NEW p \in Legs, Wakes(p) PROVE RpcInv'
    <2>1. /\ leg[p] = "sleeping" /\ leg' = [leg EXCEPT ![p] = "running"]
          /\ UNCHANGED <<brk, hedgeTimer, outcome, refused>>
      BY <1>8 DEF Wakes
    <2>2. RpcShape' /\ NoCallRefused'
      BY <2>1 DEF RpcInv, RpcShape, NoCallRefused
    <2>3. OpenMeansFailed'
      BY <2>1 DEF RpcInv, RpcShape, OpenMeansFailed
    <2>4. HedgeWaits'
      BY <2>1, ClientFacts DEF RpcInv, RpcShape, HedgeWaits
    <2> QED BY <2>2, <2>3, <2>4 DEF RpcInv
  <1>9. CASE WindowPasses
    BY <1>9 DEF WindowPasses, RpcInv, RpcShape, OpenMeansFailed, HedgeWaits, NoCallRefused
  <1>10. ASSUME NEW r \in Reads, SkipHedge(r) PROVE RpcInv'
    <2>1. hedgeTimer' = [hedgeTimer EXCEPT ![r] = FALSE] /\ UNCHANGED <<leg, brk, outcome, refused>>
      BY <1>10 DEF SkipHedge
    <2>2. RpcShape' /\ NoCallRefused' /\ OpenMeansFailed'
      BY <2>1 DEF RpcInv, RpcShape, NoCallRefused, OpenMeansFailed
    <2>3. HedgeWaits'
      BY <2>1 DEF RpcInv, RpcShape, HedgeWaits
    <2> QED BY <2>2, <2>3 DEF RpcInv
  <1>11. ASSUME NEW r \in Reads, BeginRead(r) PROVE RpcInv'
    <2> DEFINE p == Primary(r)
    <2>1. p \in Legs /\ Hedge(r) \in Legs /\ p # Hedge(r)
      BY ClientFacts DEF Primary, Hedge
    <2>2. leg[p] = "idle" /\ leg[Hedge(r)] = "idle"
      BY <1>11 DEF BeginRead, RpcInv, HedgeWaits
    <2>3. \A q \in Legs : ClientOf(q) = ClientOf(p) => leg[q] # "failed"
      BY <2>2, ClientFacts
    <2>4. PICK rest \in BOOLEAN :
            /\ CheckBreaker(p, rest)
            /\ leg' = [leg EXCEPT ![p] = IF CanProceed(p, rest) THEN "running" ELSE "failed"]
            /\ outcome' = [outcome EXCEPT ![r] = IF CanProceed(p, rest) THEN "none" ELSE "error"]
            /\ hedgeTimer' = [hedgeTimer EXCEPT ![r] = CanProceed(p, rest)]
      BY <1>11 DEF BeginRead
    <2>5. CanProceed(p, rest) /\ brk' = brk /\ NoCallRefused'
      BY <2>1, <2>3, <2>4, Admitted
    <2>6. leg' = [leg EXCEPT ![p] = "running"] /\ hedgeTimer' = [hedgeTimer EXCEPT ![r] = TRUE]
      BY <2>4, <2>5
    <2>7. hedgeTimer' \in [Reads -> BOOLEAN] /\ outcome' \in [Reads -> {"none", "value", "error"}]
      BY <2>4, <2>6 DEF RpcInv, RpcShape
    <2>8. HedgeWaits'
      <3> SUFFICES ASSUME NEW t \in Reads
                   PROVE  /\ leg'[Primary(t)] = "idle" => leg'[Hedge(t)] = "idle"
                          /\ hedgeTimer'[t] => /\ leg'[Hedge(t)] = "idle"
                                               /\ leg'[Primary(t)] \in {"running", "sleeping"}
        BY DEF HedgeWaits, Primary, Hedge
      <3>1. CASE t = r
        BY <2>1, <2>2, <2>6, <3>1 DEF RpcInv, RpcShape
      <3>2. CASE t # r
        <4>1. p # Primary(t) /\ p # Hedge(t) /\ Primary(t) \in Legs /\ Hedge(t) \in Legs
          BY <3>2, ClientFacts DEF Primary, Hedge
        <4> QED BY <2>6, <3>2, <4>1 DEF RpcInv, RpcShape, HedgeWaits
      <3> QED BY <3>1, <3>2
    <2> HIDE DEF p
    <2> QED BY <2>1, <2>2, <2>5, <2>6, <2>7, <2>8, StartKeeps
  <1>12. ASSUME NEW r \in Reads, StartHedge(r) PROVE RpcInv'
    <2> DEFINE p == Hedge(r)
    <2>1. p \in Legs /\ Primary(r) \in Legs /\ p # Primary(r)
      BY ClientFacts DEF Primary, Hedge
    <2>2. hedgeTimer[r] /\ leg[p] = "idle" /\ leg[Primary(r)] \in {"running", "sleeping"}
      BY <1>12 DEF StartHedge, RpcInv, HedgeWaits
    <2>3. \A q \in Legs : ClientOf(q) = ClientOf(p) => leg[q] # "failed"
      BY <2>2, ClientFacts
    <2>4. PICK rest \in BOOLEAN :
            /\ CheckBreaker(p, rest)
            /\ leg' = [leg EXCEPT ![p] = IF CanProceed(p, rest) THEN "running" ELSE "failed"]
      BY <1>12 DEF StartHedge
    <2>5. CanProceed(p, rest) /\ brk' = brk /\ NoCallRefused'
      BY <2>1, <2>3, <2>4, Admitted
    <2>6. /\ leg' = [leg EXCEPT ![p] = "running"]
          /\ hedgeTimer' = [hedgeTimer EXCEPT ![r] = FALSE]
          /\ outcome' = outcome
      BY <1>12, <2>4, <2>5 DEF StartHedge
    <2>7. hedgeTimer' \in [Reads -> BOOLEAN] /\ outcome' \in [Reads -> {"none", "value", "error"}]
      BY <2>6 DEF RpcInv, RpcShape
    <2>8. HedgeWaits'
      <3> SUFFICES ASSUME NEW t \in Reads
                   PROVE  /\ leg'[Primary(t)] = "idle" => leg'[Hedge(t)] = "idle"
                          /\ hedgeTimer'[t] => /\ leg'[Hedge(t)] = "idle"
                                               /\ leg'[Primary(t)] \in {"running", "sleeping"}
        BY DEF HedgeWaits, Primary, Hedge
      <3>1. CASE t = r
        BY <2>1, <2>2, <2>6, <3>1 DEF RpcInv, RpcShape
      <3>2. CASE t # r
        <4>1. p # Primary(t) /\ p # Hedge(t) /\ Primary(t) \in Legs /\ Hedge(t) \in Legs
          BY <3>2, ClientFacts DEF Primary, Hedge
        <4> QED BY <2>6, <3>2, <4>1 DEF RpcInv, RpcShape, HedgeWaits
      <3> QED BY <3>1, <3>2
    <2> HIDE DEF p
    <2> QED BY <2>1, <2>2, <2>5, <2>6, <2>7, <2>8, StartKeeps
  <1>13. ASSUME NEW s \in Submits, NextRpc(s) PROVE RpcInv'
    <2> DEFINE p == Rpc(s)
    <2>1. p \in Legs /\ leg[p] \in {"idle", "ok"} /\ UNCHANGED <<hedgeTimer, outcome>>
      BY <1>13, ClientFacts DEF NextRpc
    <2>2. \A q \in Legs : ClientOf(q) = ClientOf(p) => leg[q] # "failed"
      BY <2>1, ClientFacts
    <2>3. PICK rest \in BOOLEAN :
            /\ CheckBreaker(p, rest)
            /\ leg' = [leg EXCEPT ![p] = IF CanProceed(p, rest) THEN "running" ELSE "failed"]
      BY <1>13 DEF NextRpc
    <2>4. CanProceed(p, rest) /\ brk' = brk /\ NoCallRefused'
      BY <2>1, <2>2, <2>3, Admitted
    <2>5. leg' = [leg EXCEPT ![p] = "running"]
      BY <2>3, <2>4
    <2>6. \A t \in Reads : p # Primary(t) /\ p # Hedge(t)
      BY DEF Primary, Hedge, Rpc
    <2>7. hedgeTimer' \in [Reads -> BOOLEAN] /\ outcome' \in [Reads -> {"none", "value", "error"}]
      BY <2>1 DEF RpcInv, RpcShape
    <2>8. HedgeWaits'
      BY <2>1, <2>5, <2>6, ClientFacts DEF RpcInv, RpcShape, HedgeWaits
    <2> HIDE DEF p
    <2> QED BY <2>1, <2>4, <2>5, <2>7, <2>8, StartKeeps
  <1>14. CASE UNCHANGED rpcVars
    BY <1>14 DEF rpcVars, RpcInv, RpcShape, OpenMeansFailed, HedgeWaits, NoCallRefused
  <1> QED
    BY <1>1, <1>5, <1>6, <1>7, <1>8, <1>9, <1>10, <1>11, <1>12, <1>13, <1>14
       DEF RpcNext, LegStep

\* The circuit breaker refuses no call of getAttestation or submitAttestation: the
\* SorobanCircuitBreakerError that would start the degraded mode is never thrown.
THEOREM BreakerNeverRefuses == RpcSpec => []NoCallRefused
<1>1. RpcInv => NoCallRefused
  BY DEF RpcInv
<1> QED BY <1>1, RpcStarts, RpcStep, PTL DEF RpcSpec

-----------------------------------------------------------------------------
\* The hedges in flight, which concurrentHedges counts.
HedgesOut == {r \in Reads : InFlight(Hedge(r))}

\* What the safety of hedging needs besides: a leg asleep has an attempt left, only
\* finitely many hedges are out, and a timer is armed only while its read is open.
HedgeInv ==
  /\ RpcInv /\ HedgingSafe
  /\ \A p \in Legs : leg[p] = "sleeping" => attempt[p] <= MaxRetries
  /\ IsFiniteSet(HedgesOut)
  /\ \A r \in Reads : hedgeTimer[r] => outcome[r] = "none"

LEMMA HedgeStarts == RpcInit => HedgeInv
<1> SUFFICES ASSUME RpcInit PROVE HedgeInv
  OBVIOUS
<1>1. RpcInv
  BY RpcStarts
<1>2. HedgesOut = {}
  BY ClientFacts DEF RpcInit, HedgesOut, InFlight
<1>3. IsFiniteSet(HedgesOut) /\ HedgeSlotsAccounted
  BY <1>2, FS_EmptySet DEF HedgeSlotsAccounted, HedgesOut, RpcInit
<1>4. RpcTypeOK
  BY RpcAssumption DEF RpcInit, RpcTypeOK
<1> QED BY <1>1, <1>3, <1>4, ClientFacts DEF HedgeInv, HedgingSafe, RpcInit, ErrorOnlyWhenNoneLeft

\* A step that starts and ends no hedge keeps the account of them.
LEMMA HedgesSame ==
  ASSUME HedgeInv, hedges' = hedges,
         \A r \in Reads : InFlight(Hedge(r))' = InFlight(Hedge(r))
  PROVE  HedgesOut' = HedgesOut /\ IsFiniteSet(HedgesOut') /\ HedgeSlotsAccounted'
<1>1. HedgesOut' = HedgesOut
  BY DEF HedgesOut
<1> QED BY <1>1 DEF HedgeInv, HedgingSafe, HedgeSlotsAccounted, HedgesOut

\* The legs of two reads differ, and those of one.
LEMMA LegsDiffer ==
  \A r, t \in Reads :
    /\ Primary(r) # Hedge(t)
    /\ r # t => Primary(r) # Primary(t) /\ Hedge(r) # Hedge(t)
    /\ Primary(r)[1] = r /\ Hedge(r)[1] = r /\ Primary(r)[2] = "primary" /\ Hedge(r)[2] = "hedge"
BY DEF Primary, Hedge

\* A leg that ends gives back the slot of a hedge, and settles its read rightly.
LEMMA EndAccounted ==
  ASSUME HedgeInv, NEW p \in Legs, NEW result \in {"ok", "failed"}, leg[p] = "running",
         Ends(p, result)
  PROVE  /\ IsFiniteSet(HedgesOut') /\ HedgeSlotsAccounted' /\ hedges' \in 0..MaxHedges
         /\ ErrorOnlyWhenNoneLeft'
         /\ \A r \in Reads : hedgeTimer'[r] => outcome'[r] = "none"
         /\ attempt' \in [Legs -> 1..(MaxRetries + 1)] /\ spent' = spent
         /\ \A q \in Legs : leg'[q] = "sleeping" => attempt'[q] <= MaxRetries
<1>0. /\ leg' = [leg EXCEPT ![p] = result] /\ hedges' = HedgesAfter(p)
      /\ attempt' = [attempt EXCEPT ![p] = 1] /\ spent' = spent
  BY DEF Ends
<1>t. /\ leg \in [Legs -> {"idle", "running", "sleeping", "ok", "failed"}]
      /\ attempt \in [Legs -> 1..(MaxRetries + 1)] /\ hedges \in 0..MaxHedges
      /\ hedgeTimer \in [Reads -> BOOLEAN] /\ outcome \in [Reads -> {"none", "value", "error"}]
  BY DEF HedgeInv, HedgingSafe, RpcTypeOK
<1>1. attempt' \in [Legs -> 1..(MaxRetries + 1)]
  BY <1>0, <1>t, RpcAssumption
<1>2. \A q \in Legs : leg'[q] = "sleeping" => attempt'[q] <= MaxRetries
  BY <1>0, <1>t DEF HedgeInv
<1>3. IsFiniteSet(HedgesOut') /\ HedgeSlotsAccounted' /\ hedges' \in 0..MaxHedges
  <2>1. CASE \E r \in Reads : p = Hedge(r)
    <3>1. PICK r \in Reads : p = Hedge(r)
      BY <2>1
    <3>2. HedgesOut' = HedgesOut \ {r}
      BY <1>0, <1>t, <3>1, LegsDiffer, ClientFacts DEF HedgesOut, InFlight
    <3>3. r \in HedgesOut
      BY <3>1 DEF HedgesOut, InFlight
    <3>4. IsFiniteSet(HedgesOut) /\ hedges = Cardinality(HedgesOut)
      BY DEF HedgeInv, HedgingSafe, HedgeSlotsAccounted, HedgesOut
    <3>5. IsFiniteSet(HedgesOut \ {r}) /\ Cardinality(HedgesOut \ {r}) = hedges - 1
      BY <3>3, <3>4, FS_RemoveElement
    <3>6. hedges' = hedges - 1
      BY <1>0, <3>1, LegsDiffer DEF HedgesAfter
    <3>7. Cardinality(HedgesOut \ {r}) \in Nat
      BY <3>5, FS_CardinalityType
    <3>8. HedgeSlotsAccounted'
      BY <3>2, <3>5, <3>6 DEF HedgeSlotsAccounted, HedgesOut
    <3> QED BY <3>2, <3>5, <3>6, <3>7, <3>8, <1>t, RpcAssumption
  <2>2. CASE ~\E r \in Reads : p = Hedge(r)
    <3>1. p[2] # "hedge"
      BY <2>2 DEF Legs, Hedge
    <3>2. hedges' = hedges
      BY <1>0, <3>1 DEF HedgesAfter
    <3>3. \A r \in Reads : InFlight(Hedge(r))' = InFlight(Hedge(r))
      BY <1>0, <1>t, <2>2, ClientFacts DEF InFlight
    <3> QED BY <3>2, <3>3, <1>t, HedgesSame
  <2> QED BY <2>1, <2>2
<1>4. ASSUME NEW r \in Reads
      PROVE  /\ outcome'[r] = "error" => leg'[Primary(r)] = "failed" /\ leg'[Hedge(r)] \in {"idle", "failed"}
             /\ hedgeTimer'[r] => outcome'[r] = "none"
  <2>0. /\ Primary(r) \in Legs /\ Hedge(r) \in Legs /\ Primary(r) # Hedge(r)
        /\ outcome[r] = "error" => leg[Primary(r)] = "failed" /\ leg[Hedge(r)] \in {"idle", "failed"}
        /\ hedgeTimer[r] => outcome[r] = "none"
    BY ClientFacts, LegsDiffer DEF HedgeInv, HedgingSafe, ErrorOnlyWhenNoneLeft
  <2>1. CASE p[1] # r
    <3>1. outcome'[r] = outcome[r] /\ hedgeTimer'[r] = hedgeTimer[r]
      BY <2>1, <1>t DEF Ends, Settled
    <3>2. p # Primary(r) /\ p # Hedge(r)
      BY <2>1, LegsDiffer
    <3> QED BY <1>0, <1>t, <2>0, <3>1, <3>2
  <2>2. CASE p[1] = r
    <3>1. p \in {Primary(r), Hedge(r)}
      BY <2>2, RpcAssumption DEF Legs, Primary, Hedge
    <3>2. /\ outcome' = Settled(p, result)
          /\ hedgeTimer' = [hedgeTimer EXCEPT ![r] = @ /\ Settled(p, result)[r] = "none"]
      BY <2>2 DEF Ends
    <3>3. hedgeTimer'[r] => outcome'[r] = "none"
      BY <3>2, <1>t
    <3>4. outcome'[r] = IF outcome[r] # "none" THEN outcome[r]
                        ELSE IF result = "ok" THEN "value"
                        ELSE IF p[2] = "primary" /\ leg[Hedge(r)] = "idle" THEN "error"
                        ELSE IF p[2] = "hedge" /\ leg[Primary(r)] = "failed" THEN "error"
                        ELSE "none"
      BY <2>2, <3>2, <1>t DEF Settled
    <3>5. CASE p = Primary(r)
      BY <1>0, <1>t, <2>0, <3>3, <3>4, <3>5, LegsDiffer
    <3>6. CASE p = Hedge(r)
      BY <1>0, <1>t, <2>0, <3>3, <3>4, <3>6, LegsDiffer
    <3> QED BY <3>1, <3>5, <3>6
  <2> QED BY <2>1, <2>2
<1> QED BY <1>0, <1>1, <1>2, <1>3, <1>4 DEF ErrorOnlyWhenNoneLeft, Primary, Hedge

\* A step that moves a leg in flight between running and sleeping, or changes no leg,
\* answers no read and takes no slot keeps the accounts.
LEMMA QuietAccounted ==
  ASSUME HedgeInv, UNCHANGED <<hedges, outcome>>, leg' \in [Legs -> {"idle", "running", "sleeping", "ok", "failed"}],
         \A r \in Reads : hedgeTimer'[r] => hedgeTimer[r],
         \A r \in Reads : \A p \in {Primary(r), Hedge(r)} :
            leg'[p] = leg[p] \/ {leg[p], leg'[p]} = {"running", "sleeping"}
  PROVE  /\ IsFiniteSet(HedgesOut') /\ HedgeSlotsAccounted'
         /\ ErrorOnlyWhenNoneLeft'
         /\ \A r \in Reads : hedgeTimer'[r] => outcome'[r] = "none"
<1>1. \A r \in Reads : InFlight(Hedge(r))' = InFlight(Hedge(r))
  BY DEF InFlight
<1>2. IsFiniteSet(HedgesOut') /\ HedgeSlotsAccounted'
  BY <1>1, HedgesSame
<1>3. \A r \in Reads : leg[Primary(r)] = "failed" => leg'[Primary(r)] = "failed"
  OBVIOUS
<1>4. \A r \in Reads : leg[Hedge(r)] \in {"idle", "failed"} => leg'[Hedge(r)] = leg[Hedge(r)]
  OBVIOUS
<1> QED BY <1>2, <1>3, <1>4 DEF HedgeInv, HedgingSafe, ErrorOnlyWhenNoneLeft, Primary, Hedge

\* The rest of the types, given those RpcInv has.
LEMMA RpcTyped ==
  ASSUME RpcInv', attempt' \in [Legs -> 1..(MaxRetries + 1)], step' \in [Submits -> 0..3],
         fails' \in [Legs -> Nat], spent' \in 0..BudgetMax, hedges' \in 0..MaxHedges
  PROVE  RpcTypeOK'
BY DEF RpcInv, RpcShape, NoCallRefused, RpcTypeOK

\* Every step keeps the accounts.
LEMMA HedgeStep == HedgeInv /\ [RpcNext]_rpcVars => HedgeInv'
<1> SUFFICES ASSUME HedgeInv, [RpcNext]_rpcVars PROVE HedgeInv'
  OBVIOUS
<1>0. RpcInv' /\ RpcTypeOK
  BY RpcStep DEF HedgeInv, HedgingSafe
<1>t. /\ leg \in [Legs -> {"idle", "running", "sleeping", "ok", "failed"}]
      /\ leg' \in [Legs -> {"idle", "running", "sleeping", "ok", "failed"}]
      /\ attempt \in [Legs -> 1..(MaxRetries + 1)] /\ step \in [Submits -> 0..3]
      /\ fails \in [Legs -> Nat] /\ spent \in 0..BudgetMax /\ hedges \in 0..MaxHedges
      /\ hedgeTimer \in [Reads -> BOOLEAN] /\ outcome \in [Reads -> {"none", "value", "error"}]
  BY <1>0 DEF RpcTypeOK, RpcInv, RpcShape
<1>f. ASSUME NEW p \in Legs, RecordSuccess(p) \/ UNCHANGED fails
             \/ \E state \in {"closed", "open", "half_open"} : \E n \in Nat : RecordFailure(p, state, n)
      PROVE  fails' \in [Legs -> Nat]
  BY <1>f, <1>t, ClientFacts DEF RecordSuccess, RecordFailure
<1>b. \A p \in Legs : /\ ClientOf(p) \in Legs /\ fails[ClientOf(p)] \in Nat
                      /\ brk[ClientOf(p)] \in {"closed", "open", "half_open"}
                      /\ Recovered(p) \in {"closed", "open", "half_open"}
  BY <1>0, ClientFacts DEF RpcTypeOK, Recovered
<1>e. ASSUME NEW p \in Legs, NEW result \in {"ok", "failed"}, leg[p] = "running", Ends(p, result),
             UNCHANGED step, fails' \in [Legs -> Nat]
      PROVE  HedgeInv'
  <2>1. /\ IsFiniteSet(HedgesOut') /\ HedgeSlotsAccounted' /\ hedges' \in 0..MaxHedges
        /\ ErrorOnlyWhenNoneLeft'
        /\ \A r \in Reads : hedgeTimer'[r] => outcome'[r] = "none"
        /\ attempt' \in [Legs -> 1..(MaxRetries + 1)] /\ spent' = spent
        /\ \A q \in Legs : leg'[q] = "sleeping" => attempt'[q] <= MaxRetries
    BY <1>e, EndAccounted
  <2>2. RpcTypeOK'
    BY <1>0, <1>t, <1>e, <2>1, RpcTyped
  <2> QED BY <1>0, <2>1, <2>2 DEF HedgeInv, HedgingSafe
<1>s. ASSUME NEW p \in Legs, leg[p] = "running", MayRetry(p), Sleep(p),
             UNCHANGED step, fails' \in [Legs -> Nat]
      PROVE  HedgeInv'
  <2>1. /\ leg' = [leg EXCEPT ![p] = "sleeping"] /\ spent' = spent + 1
        /\ UNCHANGED <<attempt, hedges, outcome, hedgeTimer>>
        /\ attempt[p] <= MaxRetries /\ spent < BudgetMax
    BY <1>s DEF Sleep, MayRetry
  <2>2. \A q \in Legs : leg'[q] = leg[q] \/ {leg[q], leg'[q]} = {"running", "sleeping"}
    BY <1>s, <1>t, <2>1
  <2>3. /\ IsFiniteSet(HedgesOut') /\ HedgeSlotsAccounted' /\ ErrorOnlyWhenNoneLeft'
        /\ \A r \in Reads : hedgeTimer'[r] => outcome'[r] = "none"
    BY <1>t, <2>1, <2>2, ClientFacts, QuietAccounted
  <2>4. spent' \in 0..BudgetMax
    BY <1>t, <2>1, RpcAssumption
  <2>5. RpcTypeOK'
    BY <1>0, <1>t, <1>s, <2>1, <2>4, RpcTyped
  <2>6. \A q \in Legs : leg'[q] = "sleeping" => attempt'[q] <= MaxRetries
    BY <1>t, <2>1 DEF HedgeInv
  <2> QED BY <1>0, <2>3, <2>5, <2>6 DEF HedgeInv, HedgingSafe
<1>1. ASSUME NEW p \in Legs, AttemptSucceeds(p) PROVE HedgeInv'
  BY <1>1, <1>f, <1>e DEF AttemptSucceeds
<1>2. ASSUME NEW p \in Legs, TransientFailure(p) PROVE HedgeInv'
  <2>1. leg[p] = "running" /\ UNCHANGED step
    BY <1>2 DEF TransientFailure
  <2>2. CASE MayRetry(p)
    BY <1>2, <1>f, <1>s, <2>1, <2>2 DEF TransientFailure, BreakerUntouched
  <2>3. CASE ~MayRetry(p)
    <3>1. Ends(p, "failed") /\ (RecordOneMoreFailure(p) \/ UNCHANGED fails)
      BY <1>2, <2>3 DEF TransientFailure, BreakerUntouched
    <3>2. fails' \in [Legs -> Nat]
      BY <1>b, <1>f, <3>1 DEF RecordOneMoreFailure
    <3> QED BY <1>e, <2>1, <3>1, <3>2
  <2> QED BY <2>2, <2>3
<1>3. ASSUME NEW p \in Legs, PermanentFailure(p) PROVE HedgeInv'
  <2>1. leg[p] = "running" /\ UNCHANGED step /\ Ends(p, "failed") /\ RecordOneMoreFailure(p)
    BY <1>3 DEF PermanentFailure
  <2>2. fails' \in [Legs -> Nat]
    BY <1>b, <1>f, <2>1 DEF RecordOneMoreFailure
  <2> QED BY <1>e, <2>1, <2>2
<1>4. ASSUME NEW s \in Submits, TryAgainLater(s) PROVE HedgeInv'
  <2> DEFINE p == Rpc(s)
  <2>1. p \in Legs /\ leg[p] = "running" /\ UNCHANGED step
    BY <1>4, ClientFacts DEF TryAgainLater
  <2>2. \/ MayRetry(p) /\ RecordSuccess(p) /\ Sleep(p)
        \/ Ends(p, "failed") /\ (RecordSuccess(p) \/ RecordFailure(p, Recovered(p), 0))
    BY <1>4 DEF TryAgainLater
  <2> HIDE DEF p
  <2>3. fails' \in [Legs -> Nat]
    BY <1>b, <1>f, <2>1, <2>2
  <2> QED BY <1>e, <1>s, <2>1, <2>2, <2>3
<1>5. ASSUME NEW p \in Legs, Wakes(p) PROVE HedgeInv'
  <2>1. /\ leg[p] = "sleeping" /\ leg' = [leg EXCEPT ![p] = "running"]
        /\ attempt' = [attempt EXCEPT ![p] = @ + 1]
        /\ UNCHANGED <<step, fails, spent, hedges, hedgeTimer, outcome>>
        /\ attempt[p] <= MaxRetries
    BY <1>5 DEF Wakes, HedgeInv
  <2>2. \A q \in Legs : leg'[q] = leg[q] \/ {leg[q], leg'[q]} = {"running", "sleeping"}
    BY <1>t, <2>1
  <2>3. /\ IsFiniteSet(HedgesOut') /\ HedgeSlotsAccounted' /\ ErrorOnlyWhenNoneLeft'
        /\ \A r \in Reads : hedgeTimer'[r] => outcome'[r] = "none"
    BY <1>t, <2>1, <2>2, ClientFacts, QuietAccounted
  <2>4. attempt' \in [Legs -> 1..(MaxRetries + 1)]
    BY <1>t, <2>1, RpcAssumption
  <2>5. RpcTypeOK'
    BY <1>0, <1>t, <2>1, <2>4, RpcTyped
  <2>6. \A q \in Legs : leg'[q] = "sleeping" => attempt'[q] <= MaxRetries
    BY <1>t, <2>1 DEF HedgeInv
  <2> QED BY <1>0, <2>3, <2>5, <2>6 DEF HedgeInv, HedgingSafe
<1>6. ASSUME UNCHANGED <<leg, attempt, step, fails, hedges, outcome>>, spent' \in 0..BudgetMax,
             \A r \in Reads : hedgeTimer'[r] => hedgeTimer[r]
      PROVE  HedgeInv'
  <2>1. /\ IsFiniteSet(HedgesOut') /\ HedgeSlotsAccounted' /\ ErrorOnlyWhenNoneLeft'
        /\ \A r \in Reads : hedgeTimer'[r] => outcome'[r] = "none"
    BY <1>t, <1>6, QuietAccounted
  <2>2. RpcTypeOK'
    BY <1>0, <1>t, <1>6, RpcTyped
  <2> QED BY <1>0, <1>6, <2>1, <2>2 DEF HedgeInv, HedgingSafe
<1>7. CASE WindowPasses
  <2>1. spent' \in 0..BudgetMax
    BY <1>7, <1>t, RpcAssumption DEF WindowPasses
  <2> QED BY <1>6, <1>7, <2>1 DEF WindowPasses
<1>8. ASSUME NEW r \in Reads, SkipHedge(r) PROVE HedgeInv'
  <2>1. \A t \in Reads : hedgeTimer'[t] => hedgeTimer[t]
    BY <1>8, <1>t DEF SkipHedge
  <2> QED BY <1>6, <1>8, <1>t, <2>1 DEF SkipHedge
<1>9. ASSUME NEW r \in Reads, BeginRead(r) PROVE HedgeInv'
  <2>1. /\ Primary(r) \in Legs /\ Hedge(r) \in Legs /\ leg[Primary(r)] = "idle"
        /\ leg[Hedge(r)] = "idle" /\ UNCHANGED <<attempt, step, spent, hedges, fails>>
    BY <1>9, ClientFacts DEF BeginRead, CheckBreaker, HedgeInv, RpcInv, HedgeWaits
  <2>2. PICK go \in BOOLEAN :
          /\ leg' = [leg EXCEPT ![Primary(r)] = IF go THEN "running" ELSE "failed"]
          /\ outcome' = [outcome EXCEPT ![r] = IF go THEN "none" ELSE "error"]
          /\ hedgeTimer' = [hedgeTimer EXCEPT ![r] = go]
    BY <1>9 DEF BeginRead, CanProceed
  <2>3. \A t \in Reads : Hedge(t) \in Legs /\ leg'[Hedge(t)] = leg[Hedge(t)]
    BY <1>t, <2>1, <2>2, LegsDiffer, ClientFacts
  <2>4. IsFiniteSet(HedgesOut') /\ HedgeSlotsAccounted'
    BY <2>1, <2>3, HedgesSame DEF InFlight
  <2>5. \A t \in Reads : t # r => /\ leg'[Primary(t)] = leg[Primary(t)] /\ outcome'[t] = outcome[t]
                                 /\ hedgeTimer'[t] = hedgeTimer[t]
    BY <1>t, <2>1, <2>2, LegsDiffer, ClientFacts
  <2>6. outcome'[r] = "error" => leg'[Primary(r)] = "failed" /\ leg'[Hedge(r)] = "idle"
    BY <1>t, <2>1, <2>2, <2>3
  <2>7. ErrorOnlyWhenNoneLeft'
    BY <2>3, <2>5, <2>6 DEF HedgeInv, HedgingSafe, ErrorOnlyWhenNoneLeft, Primary, Hedge
  <2>8. \A t \in Reads : hedgeTimer'[t] => outcome'[t] = "none"
    BY <1>t, <2>2, <2>5 DEF HedgeInv
  <2>9. \A q \in Legs : leg'[q] = "sleeping" => attempt'[q] <= MaxRetries
    BY <1>t, <2>1, <2>2 DEF HedgeInv
  <2>10. RpcTypeOK'
    BY <1>0, <1>t, <2>1, RpcTyped
  <2> QED BY <1>0, <2>4, <2>7, <2>8, <2>9, <2>10 DEF HedgeInv, HedgingSafe
<1>10. ASSUME NEW r \in Reads, StartHedge(r) PROVE HedgeInv'
  <2>1. /\ Primary(r) \in Legs /\ Hedge(r) \in Legs /\ leg[Hedge(r)] = "idle" /\ outcome[r] = "none"
        /\ hedges < MaxHedges /\ hedgeTimer' = [hedgeTimer EXCEPT ![r] = FALSE]
        /\ UNCHANGED <<attempt, step, spent, outcome, fails>>
    BY <1>10, ClientFacts DEF StartHedge, CheckBreaker, HedgeInv, RpcInv, HedgeWaits
  <2>2. PICK go \in BOOLEAN :
          /\ leg' = [leg EXCEPT ![Hedge(r)] = IF go THEN "running" ELSE "failed"]
          /\ hedges' = IF go THEN hedges + 1 ELSE hedges
    BY <1>10 DEF StartHedge, CanProceed
  <2>3. \A t \in Reads : /\ leg'[Primary(t)] = leg[Primary(t)]
                         /\ t # r => leg'[Hedge(t)] = leg[Hedge(t)]
    BY <1>t, <2>1, <2>2, LegsDiffer, ClientFacts
  <2>4. IsFiniteSet(HedgesOut') /\ HedgeSlotsAccounted' /\ hedges' \in 0..MaxHedges
    <3>1. CASE go
      <4>1. HedgesOut' = HedgesOut \cup {r} /\ r \notin HedgesOut
        BY <1>t, <2>1, <2>2, <2>3, <3>1 DEF HedgesOut, InFlight
      <4>2. IsFiniteSet(HedgesOut) /\ hedges = Cardinality(HedgesOut)
        BY DEF HedgeInv, HedgingSafe, HedgeSlotsAccounted, HedgesOut
      <4>3. IsFiniteSet(HedgesOut \cup {r}) /\ Cardinality(HedgesOut \cup {r}) = hedges + 1
        BY <4>1, <4>2, FS_AddElement
      <4>4. HedgeSlotsAccounted'
        BY <2>2, <3>1, <4>1, <4>3 DEF HedgeSlotsAccounted, HedgesOut
      <4> QED BY <1>t, <2>1, <2>2, <3>1, <4>1, <4>3, <4>4, RpcAssumption
    <3>2. CASE ~go
      <4>1. \A t \in Reads : InFlight(Hedge(t))' = InFlight(Hedge(t))
        BY <1>t, <2>1, <2>2, <2>3, <3>2 DEF InFlight
      <4> QED BY <1>t, <2>2, <3>2, <4>1, HedgesSame
    <3> QED BY <3>1, <3>2
  <2>5. ErrorOnlyWhenNoneLeft'
    BY <2>1, <2>3 DEF HedgeInv, HedgingSafe, ErrorOnlyWhenNoneLeft, Primary, Hedge
  <2>6. \A t \in Reads : hedgeTimer'[t] => outcome'[t] = "none"
    BY <1>t, <2>1 DEF HedgeInv
  <2>7. \A q \in Legs : leg'[q] = "sleeping" => attempt'[q] <= MaxRetries
    BY <1>t, <2>1, <2>2 DEF HedgeInv
  <2>8. RpcTypeOK'
    BY <1>0, <1>t, <2>1, <2>4, RpcTyped
  <2> QED BY <1>0, <2>4, <2>5, <2>6, <2>7, <2>8 DEF HedgeInv, HedgingSafe
<1>11. ASSUME NEW s \in Submits, NextRpc(s) PROVE HedgeInv'
  <2>1. /\ Rpc(s) \in Legs /\ step[s] < 3 /\ step' = [step EXCEPT ![s] = @ + 1]
        /\ UNCHANGED <<attempt, spent, hedges, hedgeTimer, outcome, fails>>
    BY <1>11, ClientFacts DEF NextRpc, CheckBreaker
  <2>2. PICK go \in BOOLEAN : leg' = [leg EXCEPT ![Rpc(s)] = IF go THEN "running" ELSE "failed"]
    BY <1>11 DEF NextRpc, CanProceed
  <2>3. \A r \in Reads : leg'[Primary(r)] = leg[Primary(r)] /\ leg'[Hedge(r)] = leg[Hedge(r)]
    BY <1>t, <2>2, ClientFacts DEF Primary, Hedge, Rpc
  <2>4. /\ IsFiniteSet(HedgesOut') /\ HedgeSlotsAccounted' /\ ErrorOnlyWhenNoneLeft'
        /\ \A r \in Reads : hedgeTimer'[r] => outcome'[r] = "none"
    BY <1>t, <2>1, <2>3, QuietAccounted
  <2>5. step' \in [Submits -> 0..3]
    BY <1>t, <2>1
  <2>6. RpcTypeOK'
    BY <1>0, <1>t, <2>1, <2>5, RpcTyped
  <2>7. \A q \in Legs : leg'[q] = "sleeping" => attempt'[q] <= MaxRetries
    BY <1>t, <2>1, <2>2 DEF HedgeInv
  <2> QED BY <1>0, <2>4, <2>6, <2>7 DEF HedgeInv, HedgingSafe
<1>12. CASE UNCHANGED rpcVars
  BY <1>6, <1>12, <1>t DEF rpcVars
<1> QED
  BY <1>1, <1>2, <1>3, <1>4, <1>5, <1>7, <1>8, <1>9, <1>10, <1>11, <1>12 DEF RpcNext, LegStep

\* However the requests of a read end, concurrentHedges is the number of hedges in flight
\* and within its cap, retries keep within their budget, and a read is answered with an
\* error only when its primary has failed and no hedge can answer any more.
THEOREM HedgingIsSafe == RpcSpec => []HedgingSafe
<1>1. HedgeInv => HedgingSafe
  BY DEF HedgeInv
<1> QED BY <1>1, HedgeStarts, HedgeStep, PTL DEF RpcSpec

-----------------------------------------------------------------------------
(***************************************************************************)
(* AttestationStream, for any number of sockets and users: the connection  *)
(* counts are right.                                                       *)
(***************************************************************************)

\* The registered sockets of a user.
ConnsOf(u) == {s \in registered : Mine(s) = u}

StreamTypes ==
  /\ sock \in [Sockets -> {"none", "open", "closed"}]
  /\ awaiting \subseteq Sockets
  /\ registered \subseteq Sockets /\ IsFiniteSet(registered)
  /\ connCounts \in [StreamUsers -> Nat]

Counted == \A u \in StreamUsers : connCounts[u] = Cardinality(ConnsOf(u)) /\ connCounts[u] <= MaxConns

\* A socket waits for its user or has a slot, never both, and has connected; closed, it does
\* so only if it was closed while waiting.
SlotsOpen ==
  /\ awaiting \cap registered = {}
  /\ \A s \in awaiting \cup registered : sock[s] # "none" /\ (sock[s] = "closed" => s \in early)

StreamInv == StreamTypes /\ Counted /\ SlotsOpen

LEMMA StreamInit == StrInit => StreamInv
  <1> SUFFICES ASSUME StrInit PROVE StreamInv
    OBVIOUS
  <1>1. IsFiniteSet({}) /\ Cardinality({}) = 0
    BY FS_EmptySet
  <1>2. \A u \in StreamUsers : ConnsOf(u) = {}
    BY DEF StrInit, ConnsOf
  <1>3. Counted
    BY <1>1, <1>2, StreamAssumption DEF StrInit, Counted
  <1> QED BY <1>1, <1>3 DEF StrInit, StreamInv, StreamTypes, SlotsOpen

\* Removing sockets frees the slots they had.
LEMMA RemoveCounts ==
  ASSUME StreamInv, NEW gone, RemoveAll(gone)
  PROVE  /\ registered' = registered \ gone /\ IsFiniteSet(registered')
         /\ connCounts' \in [StreamUsers -> Nat] /\ Counted'
  <1>1. registered' = registered \ gone /\ IsFiniteSet(registered')
    <2>1. registered' = registered \ gone /\ IsFiniteSet(registered)
      BY DEF RemoveAll, StreamInv, StreamTypes
    <2> QED BY <2>1, FS_Subset
  <1>2. ASSUME NEW u \in StreamUsers
        PROVE  /\ connCounts'[u] = Cardinality(ConnsOf(u)') /\ connCounts'[u] \in Nat
               /\ connCounts'[u] <= MaxConns
    <2> DEFINE G == {s \in gone \cap registered : Mine(s) = u}
    <2>1. ConnsOf(u)' = ConnsOf(u) \ G /\ ConnsOf(u) \cap G = G /\ G \subseteq ConnsOf(u)
      BY <1>1 DEF ConnsOf, Mine
    <2>2. IsFiniteSet(ConnsOf(u))
      <3>1. ConnsOf(u) \subseteq registered /\ IsFiniteSet(registered)
        BY DEF ConnsOf, StreamInv, StreamTypes
      <3> QED BY <3>1, FS_Subset
    <2> HIDE DEF G
    <2>3. /\ IsFiniteSet(ConnsOf(u) \ G)
          /\ Cardinality(ConnsOf(u) \ G) = Cardinality(ConnsOf(u)) - Cardinality(ConnsOf(u) \cap G)
      BY <2>2, FS_Difference
    <2>4. Cardinality(ConnsOf(u) \ G) \in Nat /\ Cardinality(ConnsOf(u)) \in Nat
      BY <2>2, <2>3, FS_CardinalityType
    <2>5. Cardinality(G) \in Nat
      BY <2>1, <2>2, FS_Subset, FS_CardinalityType
    <2>6. connCounts'[u] = connCounts[u] - Cardinality(G)
      BY DEF RemoveAll, CountsWithout, G
    <2>7. connCounts[u] = Cardinality(ConnsOf(u)) /\ connCounts[u] <= MaxConns
      BY DEF StreamInv, Counted
    <2> DEFINE n == Cardinality(ConnsOf(u))
               g == Cardinality(G)
               left == Cardinality(ConnsOf(u) \ G)
    <2>8. left = n - g /\ left \in Nat /\ n \in Nat /\ g \in Nat /\ n <= MaxConns
          /\ connCounts'[u] = n - g /\ Cardinality(ConnsOf(u)') = left
      BY <2>1, <2>3, <2>4, <2>5, <2>6, <2>7
    <2> HIDE DEF n, g, left
    <2> QED BY <2>8, StreamAssumption
  <1>3. connCounts' \in [StreamUsers -> Nat]
    <2>1. connCounts' = CountsWithout(gone \cap registered)
      BY DEF RemoveAll
    <2> QED BY <1>2, <2>1 DEF CountsWithout
  <1> QED BY <1>1, <1>2, <1>3 DEF Counted

\* Every step keeps it.
LEMMA StreamStep == StreamInv /\ [StrNext]_strVars => StreamInv'
  <1> SUFFICES ASSUME StreamInv, [StrNext]_strVars PROVE StreamInv'
    OBVIOUS
  <1>0. StreamTypes /\ Counted /\ SlotsOpen
    BY DEF StreamInv
  <1>1. ASSUME UNCHANGED <<registered, connCounts>> PROVE Counted'
    BY <1>0, <1>1 DEF Counted, ConnsOf, Mine
  <1>2. ASSUME NEW s \in Sockets, Connect(s) PROVE StreamInv'
    <2>1. UNCHANGED <<alive, registered, connCounts, early>> /\ sock[s] = "none"
      BY <1>2 DEF Connect
    <2>2. StreamTypes'
      BY <1>0, <1>2 DEF Connect, StreamTypes
    <2>3. SlotsOpen'
      BY <1>0, <1>2 DEF Connect, StreamTypes, SlotsOpen
    <2> QED BY <1>1, <2>1, <2>2, <2>3 DEF StreamInv
  <1>3. ASSUME NEW s \in Sockets, Resolve(s) PROVE StreamInv'
    <2>1. s \in awaiting /\ awaiting' = awaiting \ {s} /\ UNCHANGED early
      BY <1>3 DEF Resolve
    <2>2. CASE sock' = [sock EXCEPT ![s] = "closed"] /\ UNCHANGED <<registered, connCounts>>
      <3>1. StreamTypes'
        BY <1>0, <2>1, <2>2 DEF StreamTypes
      <3>2. SlotsOpen'
        BY <1>0, <2>1, <2>2 DEF StreamTypes, SlotsOpen
      <3> QED BY <1>1, <2>2, <3>1, <3>2 DEF StreamInv
    <2>3. CASE /\ CanAdd(s) /\ registered' = registered \cup {s} /\ UNCHANGED sock
               /\ connCounts' = [connCounts EXCEPT ![Mine(s)] = @ + 1]
      <3>1. Mine(s) \in StreamUsers /\ s \notin registered
        BY <1>0, <2>1, StreamAssumption DEF Mine, SlotsOpen
      <3>2. IsFiniteSet(registered')
        <4>1. IsFiniteSet(registered)
          BY <1>0 DEF StreamTypes
        <4> QED BY <2>3, <4>1, FS_AddElement
      <3>3. StreamTypes'
        BY <1>0, <2>1, <2>3, <3>1, <3>2 DEF StreamTypes
      <3>4. ASSUME NEW u \in StreamUsers
            PROVE  connCounts'[u] = Cardinality(ConnsOf(u)') /\ connCounts'[u] <= MaxConns
        <4>1. CASE u # Mine(s)
          <5>1. ConnsOf(u)' = ConnsOf(u) /\ connCounts'[u] = connCounts[u]
            BY <1>0, <2>3, <4>1 DEF ConnsOf, Mine, StreamTypes
          <5> QED BY <1>0, <5>1 DEF Counted
        <4>2. CASE u = Mine(s)
          <5>1. ConnsOf(u)' = ConnsOf(u) \cup {s} /\ s \notin ConnsOf(u)
            BY <2>3, <3>1, <4>2 DEF ConnsOf, Mine
          <5>2. ConnsOf(u) \subseteq registered /\ IsFiniteSet(registered)
            BY <1>0 DEF ConnsOf, StreamTypes
          <5>3. IsFiniteSet(ConnsOf(u))
            BY <5>2, FS_Subset
          <5>4. Cardinality(ConnsOf(u) \cup {s}) = Cardinality(ConnsOf(u)) + 1
            BY <5>1, <5>3, FS_AddElement
          <5>5. connCounts'[u] = connCounts[u] + 1 /\ connCounts[u] < MaxConns
            BY <1>0, <2>3, <3>1, <4>2 DEF CanAdd, StreamTypes
          <5>6. connCounts[u] = Cardinality(ConnsOf(u)) /\ connCounts[u] \in Nat
            BY <1>0 DEF Counted, StreamTypes
          <5> QED BY <5>1, <5>4, <5>5, <5>6, StreamAssumption
        <4> QED BY <4>1, <4>2
      <3>5. SlotsOpen'
        BY <1>0, <2>1, <2>3 DEF StreamTypes, SlotsOpen
      <3> QED BY <3>3, <3>4, <3>5 DEF StreamInv, Counted
    <2> QED BY <1>3, <2>2, <2>3 DEF Resolve
  <1>4. ASSUME NEW s \in Sockets, PeerCloses(s) PROVE StreamInv'
    <2>1. sock[s] = "open" /\ sock' = [sock EXCEPT ![s] = "closed"] /\ UNCHANGED awaiting
      BY <1>4 DEF PeerCloses
    <2>2. CASE s \notin awaiting /\ RemoveAll({s}) /\ UNCHANGED early
      <3>1. /\ registered' = registered \ {s} /\ IsFiniteSet(registered')
            /\ connCounts' \in [StreamUsers -> Nat] /\ Counted'
        BY <2>2, RemoveCounts
      <3>2. StreamTypes'
        BY <1>0, <2>1, <3>1 DEF StreamTypes
      <3>3. SlotsOpen'
        BY <1>0, <2>1, <2>2, <3>1 DEF StreamTypes, SlotsOpen
      <3> QED BY <3>1, <3>2, <3>3 DEF StreamInv
    <2>3. CASE early' = early \cup {s} /\ UNCHANGED <<registered, connCounts>>
      <3>1. StreamTypes'
        BY <1>0, <2>1, <2>3 DEF StreamTypes
      <3>2. SlotsOpen'
        BY <1>0, <2>1, <2>3 DEF StreamTypes, SlotsOpen
      <3> QED BY <1>1, <2>3, <3>1, <3>2 DEF StreamInv
    <2> QED BY <1>4, <2>2, <2>3 DEF PeerCloses, Listening
  <1>5. ASSUME NEW s \in Sockets, SocketError(s) PROVE StreamInv'
    <2>1. RemoveAll({s}) /\ UNCHANGED <<sock, awaiting, alive, early>>
      BY <1>5 DEF SocketError
    <2>2. /\ registered' = registered \ {s} /\ IsFiniteSet(registered')
          /\ connCounts' \in [StreamUsers -> Nat] /\ Counted'
      BY <2>1, RemoveCounts
    <2>3. StreamTypes'
      BY <1>0, <2>1, <2>2 DEF StreamTypes
    <2>4. SlotsOpen'
      BY <1>0, <2>1, <2>2 DEF SlotsOpen
    <2> QED BY <2>2, <2>3, <2>4 DEF StreamInv
  <1>6. ASSUME NEW s \in Sockets, Pong(s) PROVE StreamInv'
    BY <1>0, <1>1, <1>6 DEF Pong, StreamInv, StreamTypes, SlotsOpen
  <1>7. CASE Heartbeat
    <2> DEFINE idle == {s \in Sockets : sock[s] = "open"} \ alive
    <2>1. /\ RemoveAll(idle) /\ UNCHANGED awaiting
          /\ sock' = [s \in Sockets |-> IF s \in idle THEN "closed" ELSE sock[s]]
          /\ early' = early \cup (idle \cap awaiting)
      BY <1>7 DEF Heartbeat
    <2> HIDE DEF idle
    <2>2. /\ registered' = registered \ idle /\ IsFiniteSet(registered')
          /\ connCounts' \in [StreamUsers -> Nat] /\ Counted'
      BY <2>1, RemoveCounts
    <2>3. StreamTypes'
      BY <1>0, <2>1, <2>2 DEF StreamTypes
    <2>4. SlotsOpen'
      BY <1>0, <2>1, <2>2 DEF StreamTypes, SlotsOpen
    <2> QED BY <2>2, <2>3, <2>4 DEF StreamInv
  <1>8. CASE UNCHANGED strVars
    BY <1>0, <1>1, <1>8 DEF strVars, StreamInv, StreamTypes, SlotsOpen
  <1> QED BY <1>2, <1>3, <1>4, <1>5, <1>6, <1>7, <1>8 DEF StrNext

\* The slots of a user are his registered sockets, never more than the limit, and a closed
\* socket keeps one only when it was closed while its user was being looked up: for any
\* number of sockets.
THEOREM StreamCountsRight == StrSpec => []ConnsAccounted
  <1>1. StreamInv => ConnsAccounted
    BY DEF StreamInv, Counted, ConnsOf, SlotsOpen, ConnsAccounted
  <1> QED BY StreamInit, StreamStep, <1>1, PTL DEF StrSpec

-----------------------------------------------------------------------------
(* services/attestation/submit.ts: the payments of a period.               *)

Stages == {"queued", "fetch", "submit", "backoff", "create", "resolved", "rejected"}

RevTypes ==
    /\ payments \in Seq(Payments \X BOOLEAN)
    /\ submitting \in Stages
    /\ skip \in Nat
    /\ fetched \in [Payments -> Nat]
    /\ landed \in Nat

(* The account's list names a payment once. *)
ListedOnce ==
    \A i, j \in DOMAIN payments : payments[i][1] = payments[j][1] => i = j

(* p is captured and among the first n of a list. *)
CapturedBy(list, p, n) ==
    \E i \in DOMAIN list : i =< n /\ list[i][1] = p /\ list[i][2]

CountedTo(got, moved, list, n) ==
    \A p \in Payments \ moved :
        got[p] = IF CapturedBy(list, p, n) THEN 1 ELSE 0

(* While the list is paged, what was collected is what is captured among the
   first `skip'; after the last page, among all. *)
PagesCounted ==
    /\ submitting = "queued" => skip = 0
    /\ submitting \in {"queued", "fetch"} => skip =< Len(payments) /\ CountedTo(fetched, shifted, payments, skip)
    /\ submitting \in {"submit", "backoff", "create", "resolved"} => CountedTo(fetched, shifted, payments, Len(payments))

(* One transaction, and the record after it. *)
LandedOnce ==
    /\ submitting \in {"queued", "fetch", "submit", "backoff"} => landed = 0
    /\ submitting \in {"create", "resolved"} => landed = 1
    /\ submitting = "resolved" => recorded

RevenueInv == RevTypes /\ ListedOnce /\ PagesCounted /\ LandedOnce

LEMMA PairExcept ==
    ASSUME NEW a, NEW b, NEW v
    PROVE  [<<a, b>> EXCEPT ![2] = v] = <<a, v>>
OBVIOUS

LEMMA PairsEqual ==
    ASSUME NEW a, NEW b, NEW c, NEW d
    PROVE  <<a, b>> = <<c, d>> <=> a = c /\ b = d
OBVIOUS

LEMMA RevenueStarts == RsInit => RevenueInv
BY DEF RsInit, RevenueInv, RevTypes, ListedOnce, PagesCounted, LandedOnce, CountedTo,
       CapturedBy, Stages

(* A page is the captured payments between two positions. *)
LEMMA PageHolds ==
    ASSUME RevTypes, skip =< Len(payments), NEW p \in Payments,
           NEW end \in Nat,
           end = IF skip + PageSize =< Len(payments) THEN skip + PageSize ELSE Len(payments)
    PROVE  /\ Len(Page) = end - skip
           /\ p \in Captured(Page) <=>
                 \E i \in DOMAIN payments : skip < i /\ i =< end /\ payments[i][1] = p /\ payments[i][2]
  <1> DEFINE S == Payments \X BOOLEAN
             len == end - skip
  <1>0. payments \in Seq(S) /\ skip \in Nat /\ PageSize \in Nat \ {0} /\ Len(payments) \in Nat
        /\ end =< Len(payments) /\ skip =< end /\ len \in Nat
    BY RevenueAssumption DEF RevTypes
  <1>1. Page = SubSeq(payments, skip + 1, end)
    BY DEF Page
  <1>2. Len(Page) = len /\ DOMAIN Page = 1..len /\ \A k \in 1..len : Page[k] = payments[skip + k]
    <2> HIDE DEF S
    <2> QED BY <1>0, <1>1
  <1>3. ASSUME p \in Captured(Page)
        PROVE  \E i \in DOMAIN payments : skip < i /\ i =< end /\ payments[i][1] = p /\ payments[i][2]
    <2>1. PICK k \in 1..len : Page[k][2] /\ p = Page[k][1]
      BY <1>2, <1>3 DEF Captured
    <2>2. skip + k \in DOMAIN payments /\ skip < skip + k /\ skip + k =< end
      BY <1>0
    <2> QED BY <1>2, <2>1, <2>2
  <1>4. ASSUME NEW i \in DOMAIN payments, skip < i, i =< end, payments[i][1] = p, payments[i][2]
        PROVE  p \in Captured(Page)
    <2> DEFINE k == i - skip
    <2>1. k \in 1..len /\ skip + k = i
      BY <1>0, <1>4
    <2> HIDE DEF k
    <2>2. k \in DOMAIN Page /\ Page[k][1] = p /\ Page[k][2]
      BY <1>2, <1>4, <2>1
    <2> QED BY <2>2 DEF Captured
  <1> QED BY <1>2, <1>3, <1>4

LEMMA RevenueStep == RevenueInv /\ [RsNext]_rsVars => RevenueInv'
  <1> SUFFICES ASSUME RevenueInv, [RsNext]_rsVars PROVE RevenueInv'
    OBVIOUS
  <1> USE DEF RevenueInv
  <1>0. Len(payments) \in Nat /\ DOMAIN payments = 1..Len(payments)
        /\ \A i \in DOMAIN payments : payments[i][1] \in Payments /\ payments[i][2] \in BOOLEAN
    BY DEF RevTypes
  <1>1. ASSUME NEW p \in Payments, NEW captured \in BOOLEAN, PaymentArrives(p, captured)
        PROVE  RevenueInv'
    <2> DEFINE one == <<p, captured>>
               list == <<one>> \o payments
    <2>1. one \in Payments \X BOOLEAN /\ one[1] = p /\ one[2] = captured
      OBVIOUS
    <2> HIDE DEF one
    <2>2. /\ list \in Seq(Payments \X BOOLEAN)
          /\ Len(list) = Len(payments) + 1
          /\ DOMAIN list = 1..(Len(payments) + 1)
          /\ list[1] = one
          /\ \A i \in DOMAIN payments : list[i + 1] = payments[i]
      <3> DEFINE S == Payments \X BOOLEAN
      <3>1. one \in S /\ payments \in Seq(S)
        BY <2>1 DEF RevTypes
      <3> HIDE DEF S
      <3>2. list \in Seq(S) /\ Len(list) = Len(payments) + 1 /\ DOMAIN list = 1..(Len(payments) + 1)
            /\ list[1] = one /\ \A i \in DOMAIN payments : list[i + 1] = payments[i]
        BY <3>1, <1>0
      <3> QED BY <3>2 DEF S
    <2>3. payments' = list
      BY <1>1 DEF PaymentArrives, one
    <2> HIDE DEF list
    <2>4. \A i \in DOMAIN list : list[i][1] = p <=> i = 1
      <3> SUFFICES ASSUME NEW i \in DOMAIN list PROVE list[i][1] = p <=> i = 1
        OBVIOUS
      <3>1. CASE i = 1
        BY <3>1, <2>1, <2>2
      <3>2. CASE i # 1
        <4>1. i - 1 \in DOMAIN payments /\ list[(i - 1) + 1] = payments[i - 1] /\ (i - 1) + 1 = i
          BY <2>2, <1>0, <3>2
        <4> QED BY <4>1, <1>1, <3>2 DEF PaymentArrives, Ids
      <3> QED BY <3>1, <3>2
    <2>5. ListedOnce'
      <3> SUFFICES ASSUME NEW i \in DOMAIN list, NEW j \in DOMAIN list, list[i][1] = list[j][1]
                   PROVE  i = j
        BY <2>3 DEF ListedOnce
      <3>1. CASE i = 1 \/ j = 1
        BY <3>1, <2>1, <2>2, <2>4
      <3>2. CASE i # 1 /\ j # 1
        <4>1. i - 1 \in DOMAIN payments /\ list[(i - 1) + 1] = payments[i - 1] /\ (i - 1) + 1 = i
          BY <2>2, <1>0, <3>2
        <4>2. j - 1 \in DOMAIN payments /\ list[(j - 1) + 1] = payments[j - 1] /\ (j - 1) + 1 = j
          BY <2>2, <1>0, <3>2
        <4> QED BY <4>1, <4>2, <1>0 DEF ListedOnce
      <3> QED BY <3>1, <3>2
    <2>6. skip' = skip /\ fetched' = fetched /\ submitting' = submitting /\ landed' = landed
          /\ recorded' = recorded /\ submitting \in {"queued", "fetch"}
      BY <1>1 DEF PaymentArrives
    <2>7. RevTypes'
      BY <2>2, <2>3, <2>6 DEF RevTypes
    <2>8. skip' =< Len(payments') /\ (submitting' = "queued" => skip' = 0)
      BY <2>2, <2>3, <2>6, <1>0 DEF PagesCounted, RevTypes
    <2>9. CountedTo(fetched', shifted', payments', skip')
      <3>1. CASE submitting = "queued"
        <4>1. shifted' = shifted /\ skip = 0
          BY <3>1, <1>1 DEF PaymentArrives, Paging, PagesCounted
        <4> QED BY <4>1, <2>2, <2>3, <2>6, <1>0 DEF CountedTo, CapturedBy, PagesCounted
      <3>2. CASE submitting = "fetch"
        <4>1. shifted' = shifted \cup Ids \cup {p}
          BY <3>2, <1>1 DEF PaymentArrives, Paging
        <4>2. ASSUME NEW q \in Payments, q \notin shifted'
              PROVE  ~CapturedBy(payments, q, skip) /\ ~CapturedBy(list, q, skip)
          <5>1. \A i \in DOMAIN payments : payments[i][1] # q
            BY <4>1, <4>2 DEF Ids
          <5>2. \A i \in DOMAIN list : list[i][1] # q
            <6> SUFFICES ASSUME NEW i \in DOMAIN list PROVE list[i][1] # q
              OBVIOUS
            <6>1. CASE i = 1
              BY <6>1, <2>1, <2>2, <4>1, <4>2
            <6>2. CASE i # 1
              <7>1. i - 1 \in DOMAIN payments /\ list[(i - 1) + 1] = payments[i - 1] /\ (i - 1) + 1 = i
                BY <2>2, <1>0, <6>2
              <7> QED BY <7>1, <5>1
            <6> QED BY <6>1, <6>2
          <5> QED BY <5>1, <5>2 DEF CapturedBy
        <4> QED BY <4>1, <4>2, <2>3, <2>6 DEF CountedTo, PagesCounted
      <3> QED BY <3>1, <3>2, <2>6
    <2>10. PagesCounted' /\ LandedOnce'
      BY <2>6, <2>8, <2>9 DEF PagesCounted, LandedOnce
    <2> QED BY <2>5, <2>7, <2>10
  <1>2. ASSUME NEW c, PaymentCaptured(c)
        PROVE  RevenueInv'
    <2>1. /\ c \in DOMAIN payments
          /\ payments' \in Seq(Payments \X BOOLEAN)
          /\ Len(payments') = Len(payments)
          /\ DOMAIN payments' = DOMAIN payments
          /\ payments'[c][1] = payments[c][1]
          /\ \A i \in DOMAIN payments : i # c => payments'[i] = payments[i]
      <3> DEFINE one == <<payments[c][1], TRUE>>
      <3>1. c \in DOMAIN payments /\ payments[c] \in Payments \X BOOLEAN
        BY <1>2, <1>0 DEF PaymentCaptured, RevTypes
      <3>2. one \in Payments \X BOOLEAN /\ one[1] = payments[c][1] /\ [payments[c] EXCEPT ![2] = TRUE] = one
        <4>1. PICK a \in Payments, b \in BOOLEAN : payments[c] = <<a, b>>
          BY <3>1
        <4>2. payments[c][1] = a
          BY <4>1
        <4>3. [<<a, b>> EXCEPT ![2] = TRUE] = <<a, TRUE>>
          BY PairExcept, Zenon
        <4>4. [payments[c] EXCEPT ![2] = TRUE] = <<a, TRUE>>
          BY <4>1, <4>3, Zenon
        <4> QED BY <4>2, <4>4
      <3>3. payments' = [payments EXCEPT ![c] = one]
        BY <1>2, <3>2 DEF PaymentCaptured
      <3> HIDE DEF one
      <3> QED BY <3>1, <3>2, <3>3, <1>0 DEF RevTypes
    <2>2. skip' = skip /\ fetched' = fetched /\ submitting' = submitting /\ landed' = landed
          /\ recorded' = recorded /\ submitting = "fetch" /\ shifted' = shifted \cup {payments[c][1]}
      BY <1>2 DEF PaymentCaptured, Paging
    <2>3. \A i \in DOMAIN payments : payments'[i][1] = payments[i][1]
      BY <2>1
    <2>4. ListedOnce'
      BY <2>1, <2>3 DEF ListedOnce
    <2>5. CountedTo(fetched', shifted', payments', skip')
      BY <2>1, <2>2, <2>3 DEF CountedTo, CapturedBy, PagesCounted
    <2>6. PagesCounted' /\ LandedOnce' /\ RevTypes'
      BY <2>1, <2>2, <2>5 DEF PagesCounted, LandedOnce, RevTypes
    <2> QED BY <2>4, <2>6
  <1>3. ASSUME FetchPage
        PROVE  RevenueInv'
    <2> DEFINE end == IF skip + PageSize =< Len(payments) THEN skip + PageSize ELSE Len(payments)
    <2>1. /\ submitting = "fetch" /\ skip =< Len(payments) /\ CountedTo(fetched, shifted, payments, skip)
          /\ landed = 0 /\ payments' = payments /\ shifted' = shifted /\ landed' = landed
          /\ fetched' = Collected /\ skip' = skip + PageSize
      BY <1>3 DEF FetchPage, Paging, PagesCounted, LandedOnce
    <2>2. end \in Nat /\ end =< Len(payments) /\ skip =< end /\ PageSize \in Nat \ {0} /\ skip \in Nat
      BY <1>0, <2>1, RevenueAssumption DEF RevTypes
    <2>3. Len(Page) = end - skip
          /\ \A p \in Payments : p \in Captured(Page) <=>
                \E i \in DOMAIN payments : skip < i /\ i =< end /\ payments[i][1] = p /\ payments[i][2]
      <3>1. Len(Page) = end - skip
        <4>1. payments \in Seq(Payments \X BOOLEAN) /\ Page = SubSeq(payments, skip + 1, end)
          BY DEF Page, RevTypes
        <4> DEFINE S == Payments \X BOOLEAN
        <4> HIDE DEF end, S
        <4>2. ASSUME payments \in Seq(S) PROVE Len(Page) = end - skip
          BY <4>1, <4>2, <2>2, <1>0
        <4> QED BY <4>1, <4>2 DEF S
      <3>2. ASSUME NEW p \in Payments
            PROVE  p \in Captured(Page) <=>
                \E i \in DOMAIN payments : skip < i /\ i =< end /\ payments[i][1] = p /\ payments[i][2]
        BY <2>1, <2>2, PageHolds
      <3> QED BY <3>1, <3>2
    <2>4. Collected \in [Payments -> Nat]
          /\ \A p \in Payments : Collected[p] = fetched[p] + IF p \in Captured(Page) THEN 1 ELSE 0
      BY DEF Collected, RevTypes
    <2>5. CountedTo(fetched', shifted', payments', end)
      <3> SUFFICES ASSUME NEW p \in Payments \ shifted
                   PROVE  Collected[p] = IF CapturedBy(payments, p, end) THEN 1 ELSE 0
        BY <2>1 DEF CountedTo
      <3> HIDE DEF end
      <3>1. CapturedBy(payments, p, end) <=> CapturedBy(payments, p, skip) \/ p \in Captured(Page)
        BY <2>2, <2>3, <1>0 DEF CapturedBy
      <3>2. ~(CapturedBy(payments, p, skip) /\ p \in Captured(Page))
        BY <2>2, <2>3, <1>0 DEF CapturedBy, ListedOnce
      <3>3. fetched[p] = IF CapturedBy(payments, p, skip) THEN 1 ELSE 0
        BY <2>1 DEF CountedTo
      <3> QED BY <3>1, <3>2, <3>3, <2>4
    <2>6. RevTypes' /\ ListedOnce'
      BY <2>1, <2>2, <2>4, <1>3 DEF RevTypes, ListedOnce, FetchPage, Stages
    <2>7. CASE Len(Page) = PageSize
      <3>1. end = skip + PageSize /\ submitting' = "fetch"
        BY <2>2, <2>3, <2>7, <1>3, <1>0 DEF FetchPage
      <3>2. end = skip'
        BY <3>1, <2>1
      <3>3. CountedTo(fetched', shifted', payments', skip')
        BY <2>5, <3>2 DEF CountedTo
      <3> QED BY <2>1, <2>2, <3>1, <3>2, <3>3, <2>6 DEF PagesCounted, LandedOnce
    <2>8. CASE Len(Page) # PageSize
      <3>0. submitting' \in {"submit", "rejected"}
        BY <2>8, <1>3 DEF FetchPage
      <3>1. end = Len(payments) /\ submitting' \in {"submit", "rejected"}
        <4>1. PICK x, y, z : x = Len(Page) /\ y = Len(payments) /\ z = end
          OBVIOUS
        <4>2. z = IF skip + PageSize =< y THEN skip + PageSize ELSE y
          BY <4>1
        <4> HIDE DEF end
        <4>3. x = z - skip /\ x # PageSize /\ skip \in Nat /\ PageSize \in Nat
          BY <2>2, <2>3, <2>8, <4>1
        <4>4. z # skip + PageSize
          BY <4>3
        <4>5. z = y
          BY <4>2, <4>4
        <4> QED BY <3>0, <4>1, <4>5
      <3>2. CountedTo(fetched', shifted', payments', Len(payments'))
        BY <2>1, <2>5, <3>1 DEF CountedTo
      <3> QED BY <2>1, <3>1, <3>2, <2>6 DEF PagesCounted, LandedOnce
    <2> QED BY <2>7, <2>8
  <1>4. ASSUME BeginSubmit \/ PageFails \/ SubmitSucceeds \/ BackoffOver \/ CreateRecord
               \/ UNCHANGED rsVars \/ \E code \in {"NETWORK_TIMEOUT", "NONCE_CONFLICT", "INSUFFICIENT_BALANCE"} : SubmitFails(code)
        PROVE  RevenueInv'
    <2>1. payments' = payments /\ skip' = skip /\ fetched' = fetched /\ shifted' = shifted
      BY <1>4 DEF BeginSubmit, PageFails, SubmitSucceeds, BackoffOver, CreateRecord, SubmitFails, rsVars
    <2>2. submitting' \in Stages /\ landed' \in Nat
      BY <1>4 DEF BeginSubmit, PageFails, SubmitSucceeds, BackoffOver, CreateRecord, SubmitFails, rsVars,
                  Stages, RevTypes
    <2>3. /\ submitting' = "queued" => submitting = "queued"
          /\ submitting' = "fetch" => submitting \in {"queued", "fetch"}
          /\ submitting' \in {"submit", "backoff", "create", "resolved"} =>
                submitting \in {"submit", "backoff", "create", "resolved"}
      BY <1>4 DEF BeginSubmit, PageFails, SubmitSucceeds, BackoffOver, CreateRecord, SubmitFails, rsVars
    <2>4. LandedOnce'
      BY <1>4 DEF BeginSubmit, PageFails, SubmitSucceeds, BackoffOver, CreateRecord, SubmitFails, rsVars,
                  LandedOnce, Paging
    <2>5. ListedOnce' /\ PagesCounted'
      BY <2>1, <2>3 DEF ListedOnce, PagesCounted, CountedTo
    <2> QED BY <2>1, <2>2, <2>4, <2>5 DEF RevTypes
  <1> QED BY <1>1, <1>2, <1>3, <1>4 DEF RsNext

LEMMA RevenueExact == RevenueInv => AttestedRevenueExact
  <1> SUFFICES ASSUME RevenueInv PROVE AttestedRevenueExact
    OBVIOUS
  <1>1. ASSUME submitting \in {"submit", "backoff", "create", "resolved"},
               NEW p \in Payments \ shifted
        PROVE  fetched[p] = Cardinality({i \in DOMAIN payments : payments[i] = <<p, TRUE>>})
    <2> DEFINE at == {i \in DOMAIN payments : payments[i] = <<p, TRUE>>}
    <2>1. DOMAIN payments = 1..Len(payments) /\ Len(payments) \in Nat
          /\ \A i \in DOMAIN payments : payments[i] \in Payments \X BOOLEAN
      BY DEF RevenueInv, RevTypes
    <2>2. \A i \in DOMAIN payments : payments[i] = <<p, TRUE>> <=> (payments[i][1] = p /\ payments[i][2])
      <3> SUFFICES ASSUME NEW i \in DOMAIN payments
                   PROVE  payments[i] = <<p, TRUE>> <=> (payments[i][1] = p /\ payments[i][2])
        OBVIOUS
      <3>1. PICK a \in Payments, b \in BOOLEAN : payments[i] = <<a, b>>
        BY <2>1
      <3>2. payments[i][1] = a /\ payments[i][2] = b
        BY <3>1
      <3>3. <<a, b>> = <<p, TRUE>> <=> a = p /\ b = TRUE
        BY PairsEqual
      <3>4. b = TRUE <=> b
        OBVIOUS
      <3>5. (payments[i][1] = p /\ payments[i][2]) <=> a = p /\ b
        BY <3>2
      <3>6. payments[i] = <<p, TRUE>> <=> a = p /\ b = TRUE
        BY <3>1, <3>3
      <3> QED BY <3>4, <3>5, <3>6
    <2>3. fetched[p] = IF CapturedBy(payments, p, Len(payments)) THEN 1 ELSE 0
      BY <1>1 DEF RevenueInv, PagesCounted, CountedTo
    <2>4. CASE CapturedBy(payments, p, Len(payments))
      <3>1. PICK i \in DOMAIN payments : payments[i][1] = p /\ payments[i][2]
        BY <2>4 DEF CapturedBy
      <3>2. at = {i}
        <4>1. i \in at /\ \A j \in at : payments[j][1] = p /\ j \in DOMAIN payments
          BY <2>2, <3>1
        <4>2. \A j \in DOMAIN payments : payments[j][1] = payments[i][1] => j = i
          BY <3>1 DEF RevenueInv, ListedOnce
        <4> QED BY <3>1, <4>1, <4>2
      <3> QED BY <2>3, <2>4, <3>2, FS_Singleton
    <2>5. CASE ~CapturedBy(payments, p, Len(payments))
      <3>1. \A i \in DOMAIN payments : i =< Len(payments)
        BY <2>1
      <3>2. \A i \in DOMAIN payments : ~(payments[i][1] = p /\ payments[i][2])
        BY <2>5, <3>1 DEF CapturedBy
      <3>3. at = {}
        BY <2>2, <3>2
      <3> QED BY <2>3, <2>5, <3>3, FS_EmptySet
    <2> QED BY <2>4, <2>5
  <1>2. submitting = "resolved" => landed = 1 /\ recorded
    BY DEF RevenueInv, LandedOnce
  <1> QED BY <1>1, <1>2 DEF AttestedRevenueExact

(* What fetchRazorpayRevenue hands over for hashing counts every captured
   payment of the period once and nothing else, for every number of payments
   and every page size, but for the payments that moved or were captured while
   the list was being paged; and an item is resolved only when its one
   transaction landed and its record exists. *)
THEOREM RevenueCountedOnce == RsSpec => []AttestedRevenueExact
  <1>1. RsInit => RevenueInv
    BY RevenueStarts
  <1>2. RevenueInv /\ [RsNext]_rsVars => RevenueInv'
    BY RevenueStep
  <1>3. RevenueInv => AttestedRevenueExact
    BY RevenueExact
  <1> QED BY <1>1, <1>2, <1>3, PTL DEF RsSpec

(***************************************************************************)
(* PublicReads, for any attestations, roots and lifetimes: a revocation    *)
(* reaches the readers.                                                    *)
(***************************************************************************)

\* An attestation with this root that was revoked, if at all, no longer ago than the age.
ValidWhen(h, age, rows, gone) ==
  \E i \in PubIds : /\ rows[i].status # "absent" /\ RootOf[i] = h
                    /\ rows[i].status = "revoked" => gone[i] =< age

\* A cached valid answer is as old as the time since which its root may be revoked.
CachedOk(e, h, rows, gone) ==
  /\ DOMAIN e = {"kind", "id", "status", "since", "age"} /\ e.age \in Nat
  /\ e.kind = "active" => ValidWhen(h, e.age, rows, gone)

PublicInv ==
  /\ DOMAIN pub = PubIds /\ DOMAIN edge = Hashes
  /\ \A i \in PubIds : DOMAIN pub[i] = {"status", "rank"}
  /\ goneFor \in [PubIds -> Nat]
  /\ \A h \in Hashes : CachedOk(edge[h], h, pub, goneFor)

LEMMA PublicStarts == PubInit => PublicInv
  BY DEF PubInit, PublicInv, CachedOk, NoEntry

\* What the origin answers: a valid answer is about an attestation not revoked now.
LEMMA FetchedOk ==
  ASSUME PublicInv, NEW h \in Hashes, NEW e \in Fetched(h)
  PROVE  /\ CachedOk(e, h, pub, goneFor)
         /\ e.kind = "active" => ~LongRevoked(h)
<1>1. CASE Lookup(h) = {}
  <2>1. e = NoEntry
    BY <1>1 DEF Fetched
  <2> QED BY <2>1 DEF NoEntry, CachedOk
<1>2. CASE Lookup(h) # {}
  <2>1. PICK i \in Lookup(h) : e = FetchOf(i, edge[h])
    BY <1>2 DEF Fetched
  <2>2. i \in PubIds /\ pub[i].status # "absent" /\ RootOf[i] = h
    BY <2>1 DEF Lookup, Created
  <2>3. CASE pub[i].status = "revoked"
    <3>1. e = Gone(i)
      BY <2>1, <2>3 DEF FetchOf
    <3> QED BY <3>1 DEF Gone, CachedOk
  <2>4. CASE pub[i].status # "revoked"
    <3>1. DOMAIN e = {"kind", "id", "status", "since", "age"} /\ e.age = 0
      <4>1. CASE NotModified(i, edge[h])
        BY <2>1, <2>4, <4>1 DEF FetchOf, PublicInv, CachedOk
      <4>2. CASE ~NotModified(i, edge[h])
        BY <2>1, <2>4, <4>2 DEF FetchOf, Full
      <4> QED BY <4>1, <4>2
    <3>2. ValidWhen(h, e.age, pub, goneFor)
      BY <2>2, <2>4 DEF ValidWhen
    <3>3. ~LongRevoked(h)
      BY <2>1, <2>4 DEF LongRevoked
    <3> QED BY <3>1, <3>2, <3>3 DEF CachedOk
  <2> QED BY <2>3, <2>4
<1> QED BY <1>1, <1>2

\* Time goes on for the answer and for the revocation alike.
LEMMA OlderKeepsOrder ==
  ASSUME NEW m \in Nat, NEW n \in Nat, m =< n
  PROVE  Older(m) \in Nat /\ Older(n) \in Nat /\ Older(m) =< Older(n)
  BY AgesAssumption DEF Older

LEMMA PublicStep == PublicInv /\ [PubNext]_pubVars => PublicInv'
<1> SUFFICES ASSUME PublicInv, [PubNext]_pubVars PROVE PublicInv'
  OBVIOUS
<1>0. /\ DOMAIN pub = PubIds /\ DOMAIN edge = Hashes
      /\ \A i \in PubIds : DOMAIN pub[i] = {"status", "rank"}
      /\ goneFor \in [PubIds -> Nat]
      /\ \A h \in Hashes : CachedOk(edge[h], h, pub, goneFor)
  BY DEF PublicInv
<1>1. ASSUME NEW i \in PubIds, Store(i) PROVE PublicInv'
  <2> DEFINE rank == Cardinality(Created) + 1
  <2>1. /\ pub' = [pub EXCEPT ![i] = [status |-> "submitted", rank |-> rank]]
        /\ goneFor' = goneFor /\ edge' = edge
    BY <1>1 DEF Store
  <2> HIDE DEF rank
  <2>2. \A h, age : ValidWhen(h, age, pub, goneFor) => ValidWhen(h, age, pub', goneFor')
    BY <1>0, <2>1 DEF ValidWhen
  <2>3. \A h \in Hashes : CachedOk(edge'[h], h, pub', goneFor')
    BY <1>0, <2>1, <2>2 DEF CachedOk
  <2> QED BY <1>0, <2>1, <2>3 DEF PublicInv
<1>2. ASSUME NEW i \in PubIds, SetStatus(i) PROVE PublicInv'
  <2>1. PICK s \in {"confirmed", "revoked"} : pub' = [pub EXCEPT ![i].status = s]
    BY <1>2 DEF SetStatus
  <2>2. goneFor' = [goneFor EXCEPT ![i] = 0] /\ edge' = edge /\ goneFor' \in [PubIds -> Nat]
    BY <1>0, <1>2 DEF SetStatus
  <2>3. /\ \A j \in PubIds : DOMAIN pub'[j] = {"status", "rank"} /\ DOMAIN pub' = PubIds
        /\ pub'[i].status = s /\ \A j \in PubIds : j # i => pub'[j] = pub[j]
    BY <1>0, <2>1
  <2>4. \A h, age : age \in Nat /\ ValidWhen(h, age, pub, goneFor) => ValidWhen(h, age, pub', goneFor')
    BY <1>0, <2>2, <2>3 DEF ValidWhen
  <2>5. \A h \in Hashes : CachedOk(edge'[h], h, pub', goneFor')
    BY <1>0, <2>2, <2>4 DEF CachedOk
  <2> QED BY <1>0, <2>2, <2>3, <2>5 DEF PublicInv
<1>3. CASE ClockTick
  <2>1. /\ pub' = pub
        /\ goneFor' = [i \in PubIds |-> IF pub[i].status = "revoked" THEN Older(goneFor[i]) ELSE 0]
        /\ edge' = [h \in Hashes |-> IF edge[h] = NoEntry THEN NoEntry
                                     ELSE [edge[h] EXCEPT !.age = Older(edge[h].age)]]
    BY <1>3 DEF ClockTick
  <2>2. goneFor' \in [PubIds -> Nat]
    <3>1. \A i \in PubIds : Older(goneFor[i]) \in Nat
      BY <1>0, OlderKeepsOrder
    <3> QED BY <2>1, <3>1
  <2>3. ASSUME NEW h \in Hashes PROVE CachedOk(edge'[h], h, pub', goneFor')
    <3> DEFINE e == edge[h]
               age == Older(e.age)
    <3>1. CachedOk(e, h, pub, goneFor)
      BY <1>0
    <3>2. CASE e = NoEntry
      BY <2>1, <3>2 DEF NoEntry, CachedOk
    <3>3. CASE e # NoEntry
      <4>1. edge'[h] = [e EXCEPT !.age = age]
        BY <2>1, <3>3
      <4>2. e.age \in Nat /\ age \in Nat
        BY <3>1, OlderKeepsOrder DEF CachedOk
      <4>3. e.kind = "active" => ValidWhen(h, age, pub', goneFor')
        <5> SUFFICES ASSUME e.kind = "active" PROVE ValidWhen(h, age, pub', goneFor')
          OBVIOUS
        <5>1. PICK i \in PubIds : /\ pub[i].status # "absent" /\ RootOf[i] = h
                                  /\ pub[i].status = "revoked" => goneFor[i] =< e.age
          BY <3>1 DEF CachedOk, ValidWhen
        <5>2. pub[i].status = "revoked" => goneFor'[i] =< age
          BY <1>0, <2>1, <4>2, <5>1, OlderKeepsOrder
        <5> QED BY <2>1, <5>1, <5>2 DEF ValidWhen
      <4> HIDE DEF age
      <4> QED BY <3>1, <4>1, <4>2, <4>3 DEF CachedOk
    <3> QED BY <3>2, <3>3
  <2> QED BY <1>0, <2>1, <2>2, <2>3 DEF PublicInv
<1>4. ASSUME NEW h \in Hashes, NEW e, CachedOk(e, h, pub, goneFor), edge' = [edge EXCEPT ![h] = e],
             UNCHANGED <<pub, goneFor>>
      PROVE  PublicInv'
  BY <1>0, <1>4 DEF PublicInv
<1>5. ASSUME NEW h \in Hashes, StaleHit(h) PROVE PublicInv'
  <2>1. PICK e \in Fetched(h) \cup {edge[h]} : edge' = [edge EXCEPT ![h] = e]
    BY <1>5 DEF StaleHit
  <2>2. CachedOk(e, h, pub, goneFor)
    BY <1>0, FetchedOk
  <2> QED BY <1>4, <1>5, <2>1, <2>2 DEF StaleHit
<1>6. ASSUME NEW h \in Hashes, Fetch(h) PROVE PublicInv'
  <2>1. PICK e \in Fetched(h) : edge' = [edge EXCEPT ![h] = e]
    BY <1>6 DEF Fetch
  <2>2. CachedOk(e, h, pub, goneFor)
    BY FetchedOk
  <2> QED BY <1>4, <1>6, <2>1, <2>2 DEF Fetch
<1>7. ASSUME UNCHANGED <<pub, goneFor, edge>> PROVE PublicInv'
  BY <1>0, <1>7 DEF PublicInv
<1>8. ASSUME NEW h \in Hashes, Hit(h) \/ FetchFails(h) PROVE PublicInv'
  BY <1>7, <1>8 DEF Hit, FetchFails
<1>9. CASE UNCHANGED pubVars
  BY <1>7, <1>9 DEF pubVars
<1> QED BY <1>1, <1>2, <1>3, <1>5, <1>6, <1>8, <1>9 DEF PubNext

\* An answer served from the cache within its lifetime is not about a root that has been
\* revoked for longer than that.
LEMMA CachedInTime ==
  ASSUME PublicInv, NEW h \in Hashes, edge[h].kind = "active", edge[h].age =< MaxAge + Swr
  PROVE  ~LongRevoked(h)
<1>1. PICK i \in PubIds : /\ pub[i].status # "absent" /\ RootOf[i] = h
                          /\ pub[i].status = "revoked" => goneFor[i] =< edge[h].age
  BY DEF PublicInv, CachedOk, ValidWhen
<1>2. i \in Lookup(h) /\ goneFor[i] \in Nat /\ edge[h].age \in Nat
  BY <1>1 DEF Lookup, Created, PublicInv, CachedOk
<1> QED BY <1>1, <1>2, AgesAssumption DEF LongRevoked

\* Once every attestation with a root has been revoked for longer than max-age plus
\* stale-while-revalidate, the root is no longer served as valid unless the origin could not
\* be asked: for any attestations, roots and lifetimes, however fetches, conditional requests
\* and background revalidations interleave with revocations and re-confirmations
\* (publicAttestations.ts, cachePolicy.ts).
THEOREM RevocationIsSeen == PubSpec => RevocationReachesReaders
<1> DEFINE Seen == served' # served =>
                     (LongRevoked(served'.hash) /\ served'.kind = "active" => served'.degraded)
<1>1. PublicInv /\ [PubNext]_pubVars => [Seen]_pubVars
  <2> SUFFICES ASSUME PublicInv, PubNext PROVE Seen \/ UNCHANGED pubVars
    BY DEF pubVars
  <2>1. CASE served' = served
    BY <2>1
  <2>2. ASSUME NEW h \in Hashes, Hit(h) PROVE Seen
    <3>1. served' = [hash |-> h, kind |-> edge[h].kind, degraded |-> FALSE]
      BY <2>2 DEF Hit, PubAnswer
    <3>2. edge[h].kind = "active" => edge[h].age =< MaxAge + Swr
      BY <2>2, AgesAssumption DEF Hit, FreshFor, PublicInv, CachedOk
    <3> QED BY <3>1, <3>2, CachedInTime
  <2>3. ASSUME NEW h \in Hashes, StaleHit(h) PROVE Seen
    <3>1. served' = [hash |-> h, kind |-> edge[h].kind, degraded |-> FALSE]
      BY <2>3 DEF StaleHit, PubAnswer
    <3>2. edge[h].kind = "active" => edge[h].age =< MaxAge + Swr
      BY <2>3, AgesAssumption DEF StaleHit, FreshFor, PublicInv, CachedOk
    <3> QED BY <3>1, <3>2, CachedInTime
  <2>4. ASSUME NEW h \in Hashes, Fetch(h) PROVE Seen
    <3>1. PICK e \in Fetched(h) : served' = [hash |-> h, kind |-> e.kind, degraded |-> FALSE]
      BY <2>4 DEF Fetch, PubAnswer
    <3> QED BY <3>1, FetchedOk
  <2>5. ASSUME NEW h \in Hashes, FetchFails(h) PROVE Seen
    BY <2>5 DEF FetchFails, PubAnswer
  <2>6. CASE ClockTick
    BY <2>6 DEF ClockTick, Nothing
  <2>7. ASSUME NEW i \in PubIds, Store(i) \/ SetStatus(i) PROVE Seen
    BY <2>7 DEF Store, SetStatus
  <2> QED BY <2>1, <2>2, <2>3, <2>4, <2>5, <2>6, <2>7 DEF PubNext
<1> QED BY <1>1, PublicStarts, PublicStep, PTL DEF PubSpec, RevocationReachesReaders

(***************************************************************************)
(* Induction.  The trees, the climbs, the turns and the rounds below are   *)
(* recursive functions; what they compute is proved by taking the least    *)
(* number for which it would fail.                                         *)
(***************************************************************************)

\* Among natural numbers there is a least one: what the inductions below rest on.
LEMMA LeastNumber ==
  ASSUME NEW S, S \subseteq Nat, S # {}
  PROVE  \E n \in S : \A m \in S : n =< m
<1>1. PICK n \in S : \A m \in S : ~(<<m, n>> \in OpToRel(<, Nat))
  BY NatLessThanWellFounded, WFMin
<1>2. ASSUME NEW m \in S PROVE n =< m
  <2>1. m \in Nat /\ n \in Nat /\ ~(m < n)
    BY <1>1 DEF OpToRel
  <2> QED BY <2>1
<1> QED BY <1>2

\* A set of numbers that holds a and, with a number, its successor, is complete from a to N.
LEMMA Induction ==
  ASSUME NEW a \in Nat, NEW N \in Nat, NEW S, a \in S,
         \A k \in a..N : k > a /\ k - 1 \in S => k \in S
  PROVE  \A k \in a..N : k \in S
<1> SUFFICES ASSUME NEW j \in a..N, j \notin S PROVE FALSE
  OBVIOUS
<1> DEFINE R == {k \in a..N : k \notin S}
<1>1. R \subseteq Nat /\ R # {}
  OBVIOUS
<1>2. PICK n \in R : \A m \in R : n =< m
  BY <1>1, LeastNumber
<1>3. n \in a..N /\ n \notin S /\ n # a
  BY <1>2
<1>4. n - 1 \in a..N /\ ~(n =< n - 1)
  BY <1>3
<1> QED BY <1>2, <1>3, <1>4

(***************************************************************************)
(* Merkle proofs.  A tree is a function from levels to sequences of        *)
(* digests; the proof of a leaf climbs from its digest to the root, and a  *)
(* climb along given siblings is injective in the leaf it begins with.     *)
(***************************************************************************)

\* f holds the levels of a tree from the level base on.
AreLevels(f, enc, base, n) ==
  f = [k \in 1..n |-> IF k = 1 THEN base ELSE Parents(enc, f[k - 1])]

\* The levels exist: the function that the definition of LevelsFrom names obeys its equation.
LEMMA LevelsExist ==
  ASSUME NEW enc, NEW base, NEW N \in Nat
  PROVE  \E f : AreLevels(f, enc, base, N)
<1> DEFINE Is(f, n) == AreLevels(f, enc, base, n)
           S == {n \in Nat : ~ \E f : Is(f, n)}
<1> SUFFICES S = {}
  OBVIOUS
<1> SUFFICES ASSUME S # {} PROVE FALSE
  OBVIOUS
<1>1. PICK n \in S : \A m \in S : n =< m
  BY LeastNumber
<1>2. CASE n = 0
  <2> DEFINE g == [k \in 1..0 |-> base]
  <2>1. Is(g, 0)
    BY DEF AreLevels
  <2> QED BY <1>1, <1>2, <2>1
<1>3. CASE n # 0
  <2>1. n \in Nat /\ n - 1 \in Nat /\ ~(n =< n - 1)
    BY <1>1, <1>3
  <2>2. PICK f : Is(f, n - 1)
    BY <1>1, <2>1
  <2> DEFINE g == [k \in 1..n |-> IF k = 1 THEN base ELSE Parents(enc, f[k - 1])]
  <2>3. \A k \in 1..n : g[k] = IF k = 1 THEN base ELSE Parents(enc, g[k - 1])
    <3> SUFFICES ASSUME NEW k \in 1..n, k # 1 PROVE g[k] = Parents(enc, g[k - 1])
      OBVIOUS
    <3>1. k - 1 \in 1..(n - 1) /\ k - 1 \in 1..n
      BY <2>1
    <3>2. f[k - 1] = g[k - 1]
      BY <2>2, <3>1 DEF AreLevels
    <3> QED BY <3>2
  <2>4. Is(g, n)
    BY <2>3 DEF AreLevels
  <2> QED BY <1>1, <2>4
<1> QED BY <1>2, <1>3

\* Every level but the first consists of the parents of the one below.
LEMMA LevelsEquation ==
  ASSUME NEW enc, NEW leaves, NEW n \in Nat, Len(leaves) = n, n >= 1, NEW level, level = LevelsFrom(enc, leaves)
  PROVE  /\ DOMAIN level = 1..n
         /\ level[1] = [i \in 1..n |-> Hash(leaves[i])]
         /\ \A k \in 1..n : k > 1 => level[k] = Parents(enc, level[k - 1])
<1> DEFINE base == [i \in 1..n |-> Hash(leaves[i])]
<1>1. \E f : AreLevels(f, enc, base, n)
  <2> HIDE DEF base
  <2> QED BY LevelsExist
<1>2. level = CHOOSE f : AreLevels(f, enc, base, n)
  BY DEF LevelsFrom, AreLevels
<1>3. AreLevels(level, enc, base, n)
  BY <1>1, <1>2, Zenon
<1> HIDE DEF base
<1>4. PICK g : g = [k \in 1..n |-> IF k = 1 THEN base ELSE Parents(enc, level[k - 1])]
  OBVIOUS
<1>5. level = g
  BY <1>3, <1>4, Zenon DEF AreLevels
<1>6. 1 \in 1..n
  OBVIOUS
<1>7. /\ DOMAIN g = 1..n /\ g[1] = base
      /\ \A k \in 1..n : k > 1 => g[k] = Parents(enc, level[k - 1])
  BY <1>4, <1>6
<1> QED BY <1>5, <1>7 DEF base

\* A level has half as many nodes as the one below it, an odd one rounded up.
LEMMA ParentsLength ==
  ASSUME NEW enc, NEW level, Len(level) \in Nat
  PROVE  /\ Len(Parents(enc, level)) = (Len(level) + 1) \div 2
         /\ DOMAIN Parents(enc, level) = 1..((Len(level) + 1) \div 2)
<1>1. (Len(level) + 1) \div 2 \in Nat
  OBVIOUS
<1> QED BY <1>1 DEF Parents

\* From two nodes on, half the length rounded up is shorter.
LEMMA Halved ==
  ASSUME NEW n \in Nat, n >= 1
  PROVE  /\ (n + 1) \div 2 \in Nat /\ (n + 1) \div 2 >= 1
         /\ n > 1 => (n + 1) \div 2 =< n - 1
         /\ n = 1 => (n + 1) \div 2 = 1
  OBVIOUS

\* A level of a tree is a non-empty sequence.
IsLevel(level) == Len(level) \in Nat \ {0} /\ DOMAIN level = 1..Len(level)

\* n leaves need at most n levels: every level but the last is shorter than the one below.
LEMMA LevelLengths ==
  ASSUME NEW enc, NEW leaves, NEW n \in Nat, n >= 1, Len(leaves) = n, NEW level, level = LevelsFrom(enc, leaves)
  PROVE  /\ DOMAIN level = 1..n
         /\ level[1] = [i \in 1..n |-> Hash(leaves[i])]
         /\ \A k \in 1..n : k > 1 => level[k] = Parents(enc, level[k - 1])
         /\ \A k \in 1..n : IsLevel(level[k])
         /\ Len(level[n]) = 1
<1>1. /\ DOMAIN level = 1..n
      /\ level[1] = [i \in 1..n |-> Hash(leaves[i])]
      /\ \A k \in 1..n : k > 1 => level[k] = Parents(enc, level[k - 1])
  BY LevelsEquation
<1> DEFINE Short(m, k) == m =< n - k + 1 \/ m = 1
           S == {k \in 1..n : IsLevel(level[k]) /\ Short(Len(level[k]), k)}
<1>2. 1 \in S
  <2>1. Len(level[1]) = n /\ DOMAIN level[1] = 1..n /\ 1 \in 1..n
    BY <1>1
  <2> QED BY <2>1 DEF IsLevel
<1>3. ASSUME NEW k \in 1..n, k > 1, k - 1 \in S PROVE k \in S
  <2>1. k \in Nat /\ k - 1 \in 1..n
    BY <1>3
  <2>2. level[k] = Parents(enc, level[k - 1])
    BY <1>1, <2>1, <1>3
  <2> DEFINE m == Len(level[k - 1])
  <2>3. m \in Nat /\ m >= 1 /\ Short(m, k - 1)
    BY <1>3 DEF IsLevel
  <2>4. Len(level[k]) = (m + 1) \div 2 /\ DOMAIN level[k] = 1..((m + 1) \div 2)
    BY <2>2, <2>3, ParentsLength
  <2>5. /\ (m + 1) \div 2 \in Nat /\ (m + 1) \div 2 >= 1
        /\ m > 1 => (m + 1) \div 2 =< m - 1
        /\ m = 1 => (m + 1) \div 2 = 1
    BY <2>3, Halved
  <2> HIDE DEF m
  <2>6. Short((m + 1) \div 2, k)
    BY <2>1, <2>3, <2>5
  <2>7. IsLevel(level[k])
    BY <2>4, <2>5 DEF IsLevel
  <2> HIDE DEF Short
  <2> QED BY <2>4, <2>6, <2>7
<1>4. \A k \in 1..n : k \in S
  <2> HIDE DEF S
  <2> QED BY <1>2, <1>3, Induction, 1 \in Nat
<1>5. Len(level[n]) = 1
  <2>1. n \in S
    BY <1>4
  <2>2. PICK m : m = Len(level[n])
    OBVIOUS
  <2>3. m \in Nat \ {0} /\ Short(m, n)
    BY <2>1, <2>2 DEF IsLevel
  <2>4. m = 1
    BY <2>3
  <2> QED BY <2>2, <2>4
<1> HIDE DEF Short
<1> QED BY <1>1, <1>4, <1>5

\* The shape of a tree: from the digests of the leaves to a level of one node.
LEMMA TreeShape ==
  ASSUME NEW enc, NEW leaves, NEW n \in Nat, n >= 1, Len(leaves) = n,
         NEW tree, tree = buildTree(enc, leaves)
  PROVE  /\ Len(tree) \in Nat /\ Len(tree) >= 1 /\ DOMAIN tree = 1..Len(tree)
         /\ tree[1] = [i \in 1..n |-> Hash(leaves[i])]
         /\ \A k \in 1..Len(tree) : k > 1 => tree[k] = Parents(enc, tree[k - 1])
         /\ \A k \in 1..Len(tree) : IsLevel(tree[k])
         /\ Len(tree[Len(tree)]) = 1
<1> DEFINE h == Height(LevelsFrom(enc, leaves))
<1>0. PICK level : level = LevelsFrom(enc, leaves)
  OBVIOUS
<1>2. /\ DOMAIN level = 1..n
      /\ level[1] = [i \in 1..n |-> Hash(leaves[i])]
      /\ \A k \in 1..n : k > 1 => level[k] = Parents(enc, level[k - 1])
      /\ \A k \in 1..n : IsLevel(level[k])
      /\ Len(level[n]) = 1
  BY <1>0, LevelLengths
<1>3. tree = [k \in 1..h |-> level[k]]
  BY <1>0 DEF buildTree
<1>5. PICK least \in {k \in 1..n : Len(level[k]) = 1} :
                  \A m \in {k \in 1..n : Len(level[k]) = 1} : least =< m
  <2> DEFINE R == {k \in 1..n : Len(level[k]) = 1}
  <2>1. R \subseteq Nat /\ n \in R
    BY <1>2
  <2> HIDE DEF R
  <2>2. \E least \in R : \A m \in R : least =< m
    BY <2>1, LeastNumber
  <2> QED BY <2>2 DEF R
<1>7. h \in {k \in 1..n : Len(level[k]) = 1}
  BY <1>0, <1>2, <1>5, Zenon DEF Height, Min
<1> HIDE DEF h
<1>8. h \in Nat /\ h >= 1 /\ h =< n /\ Len(level[h]) = 1
  BY <1>7
<1>9. Len(tree) = h /\ DOMAIN tree = 1..h /\ \A k \in 1..h : tree[k] = level[k]
  BY <1>3, <1>8
<1>10. \A k \in 1..h : k \in 1..n /\ (k > 1 => k - 1 \in 1..h)
  BY <1>8
<1>11. 1 \in 1..h /\ h \in 1..h
  BY <1>8
<1>12. tree[1] = level[1] /\ tree[h] = level[h]
  BY <1>9, <1>11
<1>13. \A k \in 1..h : k > 1 => tree[k] = Parents(enc, tree[k - 1])
  BY <1>2, <1>9, <1>10
<1>14. \A k \in 1..h : IsLevel(tree[k])
  BY <1>2, <1>9, <1>10
<1> QED BY <1>2, <1>8, <1>9, <1>12, <1>13, <1>14

\* The digests of a climb, and the indices of the nodes it passes, in the same way.
AreDigests(f, enc, base, siblings, right, n) ==
  f = [k \in 0..n |-> IF k = 0 THEN base ELSE Join(enc, f[k - 1], siblings[k], right[k])]

\* The digests of a climb exist.
LEMMA DigestsExist ==
  ASSUME NEW enc, NEW base, NEW siblings, NEW right, NEW N \in Nat
  PROVE  \E f : AreDigests(f, enc, base, siblings, right, N)
<1> DEFINE Is(f, n) == AreDigests(f, enc, base, siblings, right, n)
           S == {n \in Nat : ~ \E f : Is(f, n)}
<1> SUFFICES S = {}
  OBVIOUS
<1> SUFFICES ASSUME S # {} PROVE FALSE
  OBVIOUS
<1>1. PICK n \in S : \A m \in S : n =< m
  BY LeastNumber
<1>2. CASE n = 0
  <2> DEFINE g == [k \in 0..0 |-> base]
  <2>1. Is(g, 0)
    BY DEF AreDigests
  <2> QED BY <1>1, <1>2, <2>1
<1>3. CASE n # 0
  <2>1. n \in Nat /\ n - 1 \in Nat /\ ~(n =< n - 1)
    BY <1>1, <1>3
  <2>2. PICK f : Is(f, n - 1)
    BY <1>1, <2>1
  <2> DEFINE g == [k \in 0..n |-> IF k = 0 THEN base ELSE Join(enc, f[k - 1], siblings[k], right[k])]
  <2>3. \A k \in 0..n : g[k] = IF k = 0 THEN base ELSE Join(enc, g[k - 1], siblings[k], right[k])
    <3> SUFFICES ASSUME NEW k \in 0..n, k # 0 PROVE g[k] = Join(enc, g[k - 1], siblings[k], right[k])
      OBVIOUS
    <3>1. k - 1 \in 0..(n - 1) /\ k - 1 \in 0..n
      BY <2>1
    <3>2. f[k - 1] = g[k - 1]
      BY <2>2, <3>1 DEF AreDigests
    <3> QED BY <3>2
  <2>4. Is(g, n)
    BY <2>3 DEF AreDigests
  <2> QED BY <1>1, <2>4
<1> QED BY <1>2, <1>3

\* Join as a relation: the sibling goes on its side.
Joined(enc, digest, sibling, onRight, result) ==
  /\ onRight => result = Hash(Cat(enc, digest, sibling))
  /\ ~onRight => result = Hash(Cat(enc, sibling, digest))

\* A climb along siblings: from the digest of the leaf, joined to one sibling a level.
Climbs(f, enc, leaf, siblings, right, n) ==
  /\ f[0] = Hash(leaf)
  /\ \A k \in 0..n : k > 0 => Joined(enc, f[k - 1], siblings[k], right[k], f[k])

\* Climb is such a climb.
LEMMA ClimbEquation ==
  ASSUME NEW enc, NEW leaf, NEW siblings, NEW right, Len(siblings) \in Nat
  PROVE  Climbs(Climb(enc, leaf, siblings, right), enc, leaf, siblings, right, Len(siblings))
<1>0. PICK n, f : n = Len(siblings) /\ f = Climb(enc, leaf, siblings, right)
  OBVIOUS
<1>n. n \in Nat
  BY <1>0
<1>1. \E g : AreDigests(g, enc, Hash(leaf), siblings, right, n)
  BY <1>n, DigestsExist
<1>2. f = CHOOSE g : AreDigests(g, enc, Hash(leaf), siblings, right, n)
  BY <1>0 DEF Climb, AreDigests
<1>3. AreDigests(f, enc, Hash(leaf), siblings, right, n)
  BY <1>1, <1>2, Zenon
<1>4. PICK g : g = [k \in 0..n |-> IF k = 0 THEN Hash(leaf) ELSE Join(enc, f[k - 1], siblings[k], right[k])]
  OBVIOUS
<1>5. f = g
  BY <1>3, <1>4, Zenon DEF AreDigests
<1>6. 0 \in 0..n
  BY <1>n
<1>7. /\ g[0] = Hash(leaf)
      /\ \A k \in 0..n : k > 0 => g[k] = Join(enc, f[k - 1], siblings[k], right[k])
  BY <1>4, <1>6
<1>8. \A k \in 0..n : k > 0 => Joined(enc, f[k - 1], siblings[k], right[k], g[k])
  <2> SUFFICES ASSUME NEW k \in 0..n, k > 0 PROVE Joined(enc, f[k - 1], siblings[k], right[k], g[k])
    OBVIOUS
  <2>1. g[k] = Join(enc, f[k - 1], siblings[k], right[k])
    BY <1>7
  <2>2. CASE right[k]
    BY <2>1, <2>2 DEF Join, Joined
  <2>3. CASE ~right[k]
    BY <2>1, <2>3 DEF Join, Joined
  <2> QED BY <2>2, <2>3
<1> QED BY <1>0, <1>5, <1>7, <1>8 DEF Climbs

\* f holds the indices, level by level, of the nodes above index.
AreIndices(f, index, n) ==
  f = [l \in 1..n |-> IF l = 1 THEN index ELSE (f[l - 1] + 1) \div 2]

\* The indices exist.
LEMMA IndicesExist ==
  ASSUME NEW index, NEW N \in Nat
  PROVE  \E f : AreIndices(f, index, N)
<1> DEFINE Is(f, n) == AreIndices(f, index, n)
           S == {n \in Nat : ~ \E f : Is(f, n)}
<1> SUFFICES S = {}
  OBVIOUS
<1> SUFFICES ASSUME S # {} PROVE FALSE
  OBVIOUS
<1>1. PICK n \in S : \A m \in S : n =< m
  BY LeastNumber
<1>2. CASE n = 0
  <2> DEFINE g == [k \in 1..0 |-> index]
  <2>1. Is(g, 0)
    BY DEF AreIndices
  <2> QED BY <1>1, <1>2, <2>1
<1>3. CASE n # 0
  <2>1. n \in Nat /\ n - 1 \in Nat /\ ~(n =< n - 1)
    BY <1>1, <1>3
  <2>2. PICK f : Is(f, n - 1)
    BY <1>1, <2>1
  <2> DEFINE g == [k \in 1..n |-> IF k = 1 THEN index ELSE (f[k - 1] + 1) \div 2]
  <2>3. \A k \in 1..n : g[k] = IF k = 1 THEN index ELSE (g[k - 1] + 1) \div 2
    <3> SUFFICES ASSUME NEW k \in 1..n, k # 1 PROVE g[k] = (g[k - 1] + 1) \div 2
      OBVIOUS
    <3>1. k - 1 \in 1..(n - 1) /\ k - 1 \in 1..n
      BY <2>1
    <3>2. f[k - 1] = g[k - 1]
      BY <2>2, <3>1 DEF AreIndices
    <3> QED BY <3>2
  <2>4. Is(g, n)
    BY <2>3 DEF AreIndices
  <2> QED BY <1>1, <2>4
<1> QED BY <1>2, <1>3

\* Each index is that of the parent of the one below.
LEMMA IndexPathEquation ==
  ASSUME NEW index, NEW n \in Nat, n >= 1, NEW f, f = IndexPath(index, n)
  PROVE  /\ f[1] = index
         /\ \A k \in 1..n : k > 1 => f[k] = (f[k - 1] + 1) \div 2
<1>1. \E g : AreIndices(g, index, n)
  BY IndicesExist
<1>2. f = CHOOSE g : AreIndices(g, index, n)
  BY DEF IndexPath, AreIndices
<1>3. AreIndices(f, index, n)
  BY <1>1, <1>2, Zenon
<1>4. PICK g : g = [k \in 1..n |-> IF k = 1 THEN index ELSE (f[k - 1] + 1) \div 2]
  OBVIOUS
<1>5. f = g
  BY <1>3, <1>4, Zenon DEF AreIndices
<1>6. 1 \in 1..n
  OBVIOUS
<1>7. g[1] = index /\ \A k \in 1..n : k > 1 => g[k] = (f[k - 1] + 1) \div 2
  BY <1>4, <1>6
<1> QED BY <1>5, <1>7

\* A node and its sibling have the same parent, and give its digest.
LEMMA PairNumbers ==
  ASSUME NEW L \in Nat, NEW i \in 1..L
  PROVE  LET j == (i + 1) \div 2
             s == IF i % 2 = 1 THEN i + 1 ELSE i - 1
         IN /\ j \in 1..((L + 1) \div 2)
            /\ i % 2 = 1 => 2*j - 1 = i /\ s = 2*j /\ s = i + 1
            /\ i % 2 # 1 => 2*j = i /\ 2*j =< L /\ s = 2*j - 1 /\ s =< L
  OBVIOUS

\* A node joined to its sibling, on the side its index says, is its parent; an odd last node is
\* its own sibling.
LEMMA PairJoins ==
  ASSUME NEW enc, NEW level, IsLevel(level), NEW up, up = Parents(enc, level),
         NEW i \in 1..Len(level), NEW above, above = (i + 1) \div 2, NEW sibling, sibling = SiblingIn(level, i)
  PROVE  /\ above \in 1..Len(up)
         /\ i % 2 = 1 => up[above] = Hash(Cat(enc, level[i], sibling))
         /\ i % 2 # 1 => up[above] = Hash(Cat(enc, sibling, level[i]))
<1> DEFINE j == (i + 1) \div 2
           L == Len(level)
           s == IF i % 2 = 1 THEN i + 1 ELSE i - 1
<1>1. L \in Nat
  BY DEF IsLevel
<1>2. /\ j \in 1..((L + 1) \div 2)
      /\ i % 2 = 1 => 2*j - 1 = i /\ s = 2*j /\ s = i + 1
      /\ i % 2 # 1 => 2*j = i /\ 2*j =< L /\ s = 2*j - 1 /\ s =< L
  BY <1>1, PairNumbers
<1>3. Len(Parents(enc, level)) = (L + 1) \div 2
  BY <1>1, ParentsLength
<1>4. Parents(enc, level)[j] = Hash(Cat(enc, level[2*j - 1], level[IF 2*j =< L THEN 2*j ELSE 2*j - 1]))
  BY <1>2 DEF Parents
<1>5. SiblingIn(level, i) = level[IF s =< L THEN s ELSE i]
  BY DEF SiblingIn, SiblingOf
<1> HIDE DEF j, L, s
<1>6. ASSUME i % 2 = 1 PROVE up[above] = Hash(Cat(enc, level[i], sibling))
  BY <1>2, <1>4, <1>5, <1>6 DEF j
<1>7. ASSUME i % 2 # 1 PROVE up[above] = Hash(Cat(enc, sibling, level[i]))
  <2>1. up[above] = Hash(Cat(enc, level[s], level[i]))
    BY <1>2, <1>4, <1>7 DEF j
  <2>2. sibling = level[s]
    BY <1>2, <1>5, <1>7
  <2> QED BY <2>1, <2>2
<1> QED BY <1>2, <1>3, <1>6, <1>7 DEF j

\* The siblings of the nodes above leaf i, as generateProof and getProof collect them, and
\* the sides they are on.
Siblings(tree, at) == [lvl \in 1..(Len(tree) - 1) |-> SiblingIn(tree[lvl], at[lvl])]

\* sib and right are the siblings and the sides on the way from leaf i to the root.
IsPath(enc, leaves, i, sib, right) ==
  LET tree == buildTree(enc, leaves)
      at == IndexPath(i, Len(tree))
  IN /\ sib = Siblings(tree, at)
     /\ \A l \in 1..(Len(tree) - 1) : right[l] <=> at[l] % 2 = 1

\* The proof of leaf i leads from its digest to the root.
LEMMA ProofReachesRoot ==
  ASSUME NEW enc, NEW leaves, NEW n \in Nat, n >= 1, Len(leaves) = n, NEW i \in 1..n,
         NEW sib, NEW right, IsPath(enc, leaves, i, sib, right)
  PROVE  /\ Len(sib) \in Nat
         /\ Climb(enc, leaves[i], sib, right)[Len(sib)] = getRoot(buildTree(enc, leaves))
<1>0. PICK tree : tree = buildTree(enc, leaves)
  OBVIOUS
<1> DEFINE H == Len(tree)
<1>1. /\ H \in Nat /\ H >= 1
      /\ tree[1] = [l \in 1..n |-> Hash(leaves[l])]
      /\ \A k \in 1..H : k > 1 => tree[k] = Parents(enc, tree[k - 1])
      /\ \A k \in 1..H : IsLevel(tree[k])
      /\ Len(tree[H]) = 1
  BY <1>0, TreeShape
<1>2. PICK at : at = IndexPath(i, H)
  OBVIOUS
<1>3. at[1] = i /\ \A k \in 1..H : k > 1 => at[k] = (at[k - 1] + 1) \div 2
  BY <1>1, <1>2, IndexPathEquation
<1>p. sib = Siblings(tree, at) /\ \A l \in 1..(H - 1) : right[l] <=> at[l] % 2 = 1
  BY <1>0, <1>2 DEF IsPath
<1>4. Len(sib) = H - 1 /\ \A l \in 1..(H - 1) : sib[l] = SiblingIn(tree[l], at[l])
  BY <1>1, <1>p DEF Siblings
<1>5. PICK leaf, c : leaf = leaves[i] /\ c = Climb(enc, leaf, sib, right)
  OBVIOUS
<1>6. PICK m : m = H - 1
  OBVIOUS
<1>m. m \in Nat /\ Len(sib) = m
  BY <1>1, <1>4, <1>6
<1>7. c[0] = Hash(leaf) /\ \A k \in 0..m : k > 0 => Joined(enc, c[k - 1], sib[k], right[k], c[k])
  <2>1. Climbs(c, enc, leaf, sib, right, m)
    BY <1>5, <1>m, ClimbEquation
  <2> QED BY <2>1 DEF Climbs
<1> DEFINE S == {k \in 1..H : at[k] \in 1..Len(tree[k]) /\ c[k - 1] = tree[k][at[k]]}
<1> HIDE DEF H
<1>8. 1 \in S
  <2>1. Len(tree[1]) = n /\ tree[1][i] = Hash(leaf)
    BY <1>1, <1>5
  <2>2. 1 \in 1..H /\ 1 - 1 = 0
    BY <1>1
  <2> QED BY <1>3, <1>7, <2>1, <2>2
<1>9. ASSUME NEW k \in 1..H, k > 1, k - 1 \in S PROVE k \in S
  <2>1. k - 1 \in 1..H /\ k - 1 \in 1..(H - 1) /\ k - 1 \in 0..m /\ k - 1 > 0
    BY <1>1, <1>6, <1>9
  <2>2. /\ IsLevel(tree[k - 1]) /\ at[k - 1] \in 1..Len(tree[k - 1])
        /\ c[(k - 1) - 1] = tree[k - 1][at[k - 1]]
    BY <1>1, <1>9, <2>1
  <2>3. tree[k] = Parents(enc, tree[k - 1]) /\ at[k] = (at[k - 1] + 1) \div 2
    BY <1>1, <1>3, <1>9
  <2>4. PICK b : b = SiblingIn(tree[k - 1], at[k - 1])
    OBVIOUS
  <2>5. /\ at[k] \in 1..Len(tree[k])
        /\ at[k - 1] % 2 = 1 => tree[k][at[k]] = Hash(Cat(enc, tree[k - 1][at[k - 1]], b))
        /\ at[k - 1] % 2 # 1 => tree[k][at[k]] = Hash(Cat(enc, b, tree[k - 1][at[k - 1]]))
    <3>1. PICK low, x : low = tree[k - 1] /\ x = at[k - 1]
      OBVIOUS
    <3>2. PICK up, y : up = tree[k] /\ y = at[k]
      OBVIOUS
    <3>3. /\ IsLevel(low) /\ up = Parents(enc, low) /\ x \in 1..Len(low) /\ y = (x + 1) \div 2
          /\ b = SiblingIn(low, x)
      BY <2>2, <2>3, <2>4, <3>1, <3>2
    <3>4. /\ y \in 1..Len(up)
          /\ x % 2 = 1 => up[y] = Hash(Cat(enc, low[x], b))
          /\ x % 2 # 1 => up[y] = Hash(Cat(enc, b, low[x]))
      BY <3>3, PairJoins
    <3> QED BY <3>1, <3>2, <3>4
  <2>6. Joined(enc, c[(k - 1) - 1], b, right[k - 1], c[k - 1])
    BY <1>4, <1>7, <2>1, <2>4
  <2>7. right[k - 1] <=> at[k - 1] % 2 = 1
    BY <1>p, <2>1
  <2>8. c[k - 1] = tree[k][at[k]]
    BY <2>2, <2>5, <2>6, <2>7 DEF Joined
  <2> QED BY <2>5, <2>8
<1>10. \A k \in 1..H : k \in S
  <2> HIDE DEF S
  <2> QED BY <1>1, <1>8, <1>9, Induction, 1 \in Nat
<1>11. H \in 1..H
  BY <1>1
<1>12. at[H] \in 1..1 /\ c[H - 1] = tree[H][at[H]]
  BY <1>1, <1>10, <1>11
<1>13. at[H] = 1
  BY <1>12
<1>14. getRoot(tree) = tree[H][1]
  BY DEF getRoot, H
<1>15. c[m] = getRoot(tree)
  BY <1>6, <1>12, <1>13, <1>14
<1> QED BY <1>0, <1>5, <1>m, <1>15

\* Two digests that join the same sibling to the same result are the same.
LEMMA JoinInjective ==
  ASSUME NEW enc, NEW x, NEW y, NEW s, NEW r, NEW z, Joined(enc, x, s, r, z), Joined(enc, y, s, r, z)
  PROVE  x = y
<1>1. CASE r
  BY <1>1 DEF Joined, Hash, Cat
<1>2. CASE ~r
  BY <1>2 DEF Joined, Hash, Cat
<1> QED BY <1>1, <1>2

\* Two leaves that climb to the same digest along the same siblings are the same.
LEMMA ClimbInjective ==
  ASSUME NEW enc, NEW leaf, NEW other, NEW siblings, NEW right, NEW n \in Nat, Len(siblings) = n,
         Climb(enc, leaf, siblings, right)[n] = Climb(enc, other, siblings, right)[n]
  PROVE  leaf = other
<1>1. PICK c : c = Climb(enc, leaf, siblings, right)
  OBVIOUS
<1>2. PICK d : d = Climb(enc, other, siblings, right)
  OBVIOUS
<1>3. c[0] = Hash(leaf) /\ \A k \in 0..n : k > 0 => Joined(enc, c[k - 1], siblings[k], right[k], c[k])
  BY <1>1, ClimbEquation DEF Climbs
<1>4. d[0] = Hash(other) /\ \A k \in 0..n : k > 0 => Joined(enc, d[k - 1], siblings[k], right[k], d[k])
  BY <1>2, ClimbEquation DEF Climbs
<1> DEFINE S == {k \in 0..n : c[k] = d[k] => c[0] = d[0]}
<1>5. 0 \in S
  OBVIOUS
<1>6. ASSUME NEW k \in 0..n, k > 0, k - 1 \in S PROVE k \in S
  <2>1. c[k] = d[k] => c[k - 1] = d[k - 1]
    <3>1. /\ Joined(enc, c[k - 1], siblings[k], right[k], c[k])
          /\ Joined(enc, d[k - 1], siblings[k], right[k], d[k])
      BY <1>3, <1>4, <1>6
    <3> QED BY <3>1, JoinInjective
  <2> QED BY <1>6, <2>1
<1>7. n \in S
  <2> HIDE DEF S
  <2>1. \A k \in 0..n : k \in S
    BY <1>5, <1>6, Induction, 0 \in Nat
  <2> QED BY <2>1
<1>8. c[0] = d[0]
  BY <1>1, <1>2, <1>7
<1> QED BY <1>3, <1>4, <1>8 DEF Hash

\* A proof has a step for every level but the root's.
LEMMA ProofLength ==
  ASSUME NEW enc, NEW leaves, NEW n \in Nat, n >= 1, Len(leaves) = n, NEW tree, tree = buildTree(enc, leaves)
  PROVE  Len(tree) - 1 \in Nat /\ (Len(tree) - 1) + 1 = Len(tree)
<1>1. Len(tree) \in Nat /\ Len(tree) >= 1
  BY TreeShape
<1> QED BY <1>1

\* What a verifier of a hex proof folds.
ProofSiblings(proof) == [k \in DOMAIN proof |-> proof[k].sibling]
ProofSides(proof) == [k \in DOMAIN proof |-> proof[k].position = "right"]

\* verifyProof compares the end of the climb with the root.
LEMMA VerifyProofClimbs ==
  ASSUME NEW leaf, NEW proof, NEW expected
  PROVE  verifyProof(leaf, proof, expected)
         <=> expected = Climb("hex", leaf, ProofSiblings(proof), ProofSides(proof))[Len(proof)]
  BY DEF verifyProof, ProofSiblings, ProofSides

\* generateProof collects the path of the leaf.
LEMMA GeneratedProof ==
  ASSUME NEW leaves, NEW n \in Nat, n >= 1, Len(leaves) = n, NEW i \in 1..n, NEW enc, enc = "hex",
         NEW proof, proof = generateProof(leaves, i)
  PROVE  /\ Len(proof) \in Nat /\ Len(ProofSiblings(proof)) = Len(proof)
         /\ IsPath(enc, leaves, i, ProofSiblings(proof), ProofSides(proof))
<1>t. PICK tree : tree = buildTree(enc, leaves)
  OBVIOUS
<1>a. PICK at : at = IndexPath(i, Len(tree))
  OBVIOUS
<1> DEFINE m == Len(tree) - 1
<1>1. m \in Nat
  BY <1>t, ProofLength
<1>2. proof = [lvl \in 1..m |-> [sibling |-> SiblingIn(tree[lvl], at[lvl]), position |-> Side(at[lvl])]]
  BY <1>t, <1>a DEF generateProof
<1> HIDE DEF m
<1>3. Len(proof) = m /\ DOMAIN proof = 1..m
  BY <1>1, <1>2
<1>4. \A l \in 1..m : proof[l].sibling = SiblingIn(tree[l], at[l]) /\ proof[l].position = Side(at[l])
  BY <1>2
<1>5. Siblings(tree, at) = [lvl \in 1..m |-> SiblingIn(tree[lvl], at[lvl])]
  BY DEF Siblings, m
<1>6. ProofSiblings(proof) = Siblings(tree, at)
  BY <1>3, <1>4, <1>5 DEF ProofSiblings
<1>7. Len(Siblings(tree, at)) = m
  BY <1>1, <1>5
<1>8. \A l \in 1..m : ProofSides(proof)[l] <=> at[l] % 2 = 1
  <2> SUFFICES ASSUME NEW l \in 1..m PROVE (proof[l].position = "right") <=> (at[l] % 2 = 1)
    BY <1>3 DEF ProofSides
  <2> QED BY <1>4 DEF Side
<1>9. IsPath(enc, leaves, i, ProofSiblings(proof), ProofSides(proof))
  BY <1>t, <1>a, <1>6, <1>8 DEF IsPath, m
<1> QED BY <1>1, <1>3, <1>6, <1>7, <1>9

\* A proof that follows the path of leaf i is accepted for that leaf and for no other.
LEMMA PathExact ==
  ASSUME NEW enc, NEW leaves, NEW n \in Nat, n >= 1, Len(leaves) = n, NEW i \in 1..n, NEW leaf,
         NEW sib, NEW right, IsPath(enc, leaves, i, sib, right)
  PROVE  getRoot(buildTree(enc, leaves)) = Climb(enc, leaf, sib, right)[Len(sib)] <=> leaf = leaves[i]
<1>1. PICK mine : mine = leaves[i]
  OBVIOUS
<1>2. PICK m : m = Len(sib)
  OBVIOUS
<1>3. m \in Nat /\ Climb(enc, mine, sib, right)[m] = getRoot(buildTree(enc, leaves))
  BY <1>1, <1>2, ProofReachesRoot
<1>4. Climb(enc, leaf, sib, right)[m] = Climb(enc, mine, sib, right)[m] => leaf = mine
  BY <1>2, <1>3, ClimbInjective
<1> QED BY <1>1, <1>2, <1>3, <1>4

\* verifyProof accepts the proof of leaf i for that leaf and for no other.
LEMMA HexProofsExact ==
  ASSUME NEW leaves, NEW n \in Nat, n >= 1, Len(leaves) = n, NEW i \in 1..n, NEW leaf
  PROVE  verifyProof(leaf, generateProof(leaves, i), getRoot(buildTree("hex", leaves))) <=> leaf = leaves[i]
<1>0. PICK enc : enc = "hex"
  OBVIOUS
<1>1. PICK proof : proof = generateProof(leaves, i)
  OBVIOUS
<1>2. PICK sib, right : sib = ProofSiblings(proof) /\ right = ProofSides(proof)
  OBVIOUS
<1>3. Len(sib) = Len(proof) /\ IsPath(enc, leaves, i, sib, right)
  BY <1>0, <1>1, <1>2, GeneratedProof
<1>4. getRoot(buildTree(enc, leaves)) = Climb(enc, leaf, sib, right)[Len(sib)] <=> leaf = leaves[i]
  BY <1>3, PathExact
<1> QED BY <1>0, <1>1, <1>2, <1>3, <1>4, VerifyProofClimbs

\* So does the verifier of the class MerkleTree, which takes the sides from the index.
LEMMA ClassProofsExact ==
  ASSUME NEW leaves, NEW n \in Nat, n >= 1, Len(leaves) = n, NEW i \in 1..n, NEW leaf
  PROVE  verifyClassProof(leaf, getProof(leaves, i), getRoot(buildTree("bytes", leaves)), i) <=> leaf = leaves[i]
<1>0. PICK enc : enc = "bytes"
  OBVIOUS
<1>1. PICK tree : tree = buildTree(enc, leaves)
  OBVIOUS
<1>2. PICK at : at = IndexPath(i, Len(tree))
  OBVIOUS
<1>3. PICK proof : proof = getProof(leaves, i)
  OBVIOUS
<1>4. PICK m : m = Len(tree) - 1
  OBVIOUS
<1>5. m \in Nat /\ m + 1 = Len(tree)
  BY <1>1, <1>4, ProofLength
<1>6. proof = Siblings(tree, at) /\ proof = [lvl \in 1..m |-> SiblingIn(tree[lvl], at[lvl])]
  BY <1>0, <1>1, <1>2, <1>3, <1>4 DEF getProof, Siblings
<1>7. Len(proof) = m /\ DOMAIN proof = 1..m
  BY <1>5, <1>6
<1>8. PICK right : right = [l \in DOMAIN proof |-> at[l] % 2 = 1]
  OBVIOUS
<1>9. \A l \in 1..(Len(tree) - 1) : right[l] <=> at[l] % 2 = 1
  BY <1>4, <1>7, <1>8
<1>10. IsPath(enc, leaves, i, proof, right)
  BY <1>1, <1>2, <1>6, <1>9 DEF IsPath
<1>11. getRoot(buildTree(enc, leaves)) = Climb(enc, leaf, proof, right)[Len(proof)] <=> leaf = leaves[i]
  BY <1>10, PathExact
<1>12. verifyClassProof(leaf, proof, getRoot(tree), i)
       <=> getRoot(tree) = Climb(enc, leaf, proof, right)[Len(proof)]
  BY <1>0, <1>2, <1>5, <1>7, <1>8 DEF verifyClassProof
<1> QED BY <1>0, <1>1, <1>3, <1>11, <1>12

\* The nodes of a tree.
Node(x, tree) == \E k \in 1..Len(tree) : \E j \in 1..Len(tree[k]) : x = tree[k][j]

\* The children of a node are nodes of the level below.
LEMMA ChildNumbers ==
  ASSUME NEW L \in Nat, NEW j \in 1..((L + 1) \div 2)
  PROVE  2*j - 1 \in 1..L /\ (IF 2*j =< L THEN 2*j ELSE 2*j - 1) \in 1..L
  OBVIOUS

\* A digest that two others are joined to is an inner node, and its parts are nodes: no leaf
\* text of an entry is the text of an inner node.
LEMMA JoinedNodes ==
  ASSUME NEW enc, enc = "hex", NEW leaves, NEW n \in Nat, n >= 1, Len(leaves) = n,
         \A i \in 1..n : \E e : leaves[i] = Leaf(e),
         NEW tree, tree = buildTree(enc, leaves),
         NEW x, NEW y, Node(Hash(Cat(enc, x, y)), tree)
  PROVE  Node(x, tree) /\ Node(y, tree)
<1>1. /\ Len(tree) \in Nat
      /\ tree[1] = [i \in 1..n |-> Hash(leaves[i])]
      /\ \A k \in 1..Len(tree) : k > 1 => tree[k] = Parents(enc, tree[k - 1])
      /\ \A k \in 1..Len(tree) : IsLevel(tree[k])
  BY TreeShape
<1>2. PICK k \in 1..Len(tree) : \E j \in 1..Len(tree[k]) : Hash(Cat(enc, x, y)) = tree[k][j]
  BY DEF Node
<1>3. PICK j \in 1..Len(tree[k]) : Hash(Cat(enc, x, y)) = tree[k][j]
  BY <1>2
<1>4. k > 1
  <2> SUFFICES ASSUME k = 1 PROVE FALSE
    BY <1>1, <1>2
  <2>1. Len(tree[1]) = n
    BY <1>1
  <2>2. j \in 1..n /\ Hash(Cat(enc, x, y)) = Hash(leaves[j])
    BY <1>1, <1>3, <2>1
  <2>3. PICK e : leaves[j] = Leaf(e)
    BY <2>2
  <2>4. Cat(enc, x, y) = Leaf(e)
    BY <2>2, <2>3 DEF Hash
  <2> QED BY <2>4 DEF Cat, Leaf
<1>5. PICK low : low = tree[k - 1]
  OBVIOUS
<1>6. k - 1 \in 1..Len(tree) /\ IsLevel(low) /\ tree[k] = Parents(enc, low)
  BY <1>1, <1>4, <1>5
<1>7. PICK L : L = Len(low)
  OBVIOUS
<1>8. L \in Nat /\ Len(tree[k]) = (L + 1) \div 2
  BY <1>6, <1>7, ParentsLength DEF IsLevel
<1>9. j \in 1..((L + 1) \div 2)
  BY <1>3, <1>8
<1>10. PICK q : q = IF 2*j =< L THEN 2*j ELSE 2*j - 1
  OBVIOUS
<1>11. 2*j - 1 \in 1..L /\ q \in 1..L
  BY <1>8, <1>9, <1>10, ChildNumbers
<1>12. tree[k][j] = Hash(Cat(enc, low[2*j - 1], low[q]))
  BY <1>6, <1>7, <1>9, <1>10 DEF Parents
<1>13. x = low[2*j - 1] /\ y = low[q]
  BY <1>3, <1>12 DEF Hash, Cat
<1> QED BY <1>5, <1>6, <1>7, <1>11, <1>13 DEF Node

\* A climb that ends in a node of the tree has passed nothing but nodes.
LEMMA ClimbPassesNodes ==
  ASSUME NEW enc, enc = "hex", NEW leaves, NEW n \in Nat, n >= 1, Len(leaves) = n,
         \A i \in 1..n : \E e : leaves[i] = Leaf(e),
         NEW tree, tree = buildTree(enc, leaves),
         NEW leaf, NEW sib, NEW right, NEW m \in Nat, Len(sib) = m,
         Node(Climb(enc, leaf, sib, right)[m], tree)
  PROVE  Node(Hash(leaf), tree)
<1>1. PICK c : c = Climb(enc, leaf, sib, right)
  OBVIOUS
<1>2. c[0] = Hash(leaf) /\ \A k \in 0..m : k > 0 => Joined(enc, c[k - 1], sib[k], right[k], c[k])
  BY <1>1, ClimbEquation DEF Climbs
<1> DEFINE S == {k \in 0..m : Node(c[k], tree) => Node(c[0], tree)}
<1>3. 0 \in S
  OBVIOUS
<1>4. ASSUME NEW k \in 0..m, k > 0, k - 1 \in S PROVE k \in S
  <2>1. ASSUME Node(c[k], tree) PROVE Node(c[k - 1], tree)
    <3>1. Joined(enc, c[k - 1], sib[k], right[k], c[k])
      BY <1>2, <1>4
    <3>2. PICK x, b : x = c[k - 1] /\ b = sib[k]
      OBVIOUS
    <3>3. c[k] = Hash(Cat(enc, x, b)) \/ c[k] = Hash(Cat(enc, b, x))
      BY <3>1, <3>2 DEF Joined
    <3>4. CASE c[k] = Hash(Cat(enc, x, b))
      <4>1. Node(Hash(Cat(enc, x, b)), tree)
        BY <2>1, <3>4
      <4> QED BY <3>2, <4>1, JoinedNodes
    <3>5. CASE c[k] = Hash(Cat(enc, b, x))
      <4>1. Node(Hash(Cat(enc, b, x)), tree)
        BY <2>1, <3>5
      <4> QED BY <3>2, <4>1, JoinedNodes
    <3> QED BY <3>3, <3>4, <3>5
  <2> QED BY <1>4, <2>1
<1>5. \A k \in 0..m : k \in S
  <2> HIDE DEF S
  <2> QED BY <1>3, <1>4, Induction, 0 \in Nat
<1>6. m \in 0..m
  OBVIOUS
<1>7. m \in S
  BY <1>5, <1>6
<1> QED BY <1>1, <1>2, <1>7

\* The texts of the inner nodes.
TextsAbove(tree) == UNION {{h[2] : h \in Range(tree[k])} : k \in 2..Len(tree)}

\* Whatever siblings a proof has, it is accepted against the root of attested entries for one
\* of them or for the text of an inner node.
LEMMA AcceptedLeaves ==
  ASSUME NEW enc, enc = "hex", NEW leaves, NEW n \in Nat, n >= 1, Len(leaves) = n, DOMAIN leaves = 1..n,
         \A i \in 1..n : \E e : leaves[i] = Leaf(e),
         NEW tree, tree = buildTree(enc, leaves),
         NEW leaf, NEW sib, NEW right, NEW m \in Nat, Len(sib) = m,
         Climb(enc, leaf, sib, right)[m] = getRoot(tree)
  PROVE  leaf \in Range(leaves) \cup TextsAbove(tree)
<1>1. /\ Len(tree) \in Nat /\ Len(tree) >= 1
      /\ tree[1] = [i \in 1..n |-> Hash(leaves[i])]
      /\ \A k \in 1..Len(tree) : IsLevel(tree[k])
      /\ Len(tree[Len(tree)]) = 1
  BY TreeShape
<1>2. Node(getRoot(tree), tree)
  <2>1. PICK h : h = Len(tree)
    OBVIOUS
  <2>2. h \in 1..Len(tree) /\ Len(tree[h]) = 1
    BY <1>1, <2>1
  <2>3. 1 \in 1..1
    OBVIOUS
  <2> QED BY <2>1, <2>2, <2>3 DEF Node, getRoot
<1>3. Node(Hash(leaf), tree)
  BY <1>2, ClimbPassesNodes
<1>4. PICK k \in 1..Len(tree) : \E j \in 1..Len(tree[k]) : Hash(leaf) = tree[k][j]
  BY <1>3 DEF Node
<1>5. PICK j \in 1..Len(tree[k]) : Hash(leaf) = tree[k][j]
  BY <1>4
<1>6. CASE k = 1
  <2>1. Len(tree[1]) = n
    BY <1>1
  <2>2. j \in 1..n /\ Hash(leaf) = Hash(leaves[j])
    BY <1>1, <1>5, <1>6, <2>1
  <2>3. leaf = leaves[j]
    BY <2>2 DEF Hash
  <2> QED BY <2>2, <2>3 DEF Range
<1>7. CASE k # 1
  <2>1. k \in 2..Len(tree)
    BY <1>1, <1>7
  <2>2. j \in DOMAIN tree[k]
    BY <1>1, <1>5 DEF IsLevel
  <2>3. Hash(leaf) \in Range(tree[k])
    BY <1>5, <2>2 DEF Range
  <2>4. Hash(leaf)[2] = leaf
    BY DEF Hash
  <2>5. leaf \in {h[2] : h \in Range(tree[k])}
    BY <2>3, <2>4
  <2> QED BY <2>1, <2>5 DEF TextsAbove
<1> QED BY <1>6, <1>7

\* What is attested are the leaves of a list of entries under their root, and a leaf that
\* was shown belongs to them.
EvInv ==
  /\ entries \in Seq(EntryIds)
  /\ attested \in Seq({Leaf(e) : e \in EntryIds})
  /\ attested # <<>> => root = getRoot(buildTree("hex", attested))
  /\ shown # NoLeaf => attested # <<>> /\ shown \in Range(attested) \cup InnerTexts

\* An attestation keeps the invariant.
LEMMA EvInvAttest ==
  ASSUME EvInv, Attest
  PROVE  EvInv'
<1>1. /\ entries \in Seq(EntryIds) /\ attested' = Leaves(entries) /\ entries' = <<>>
      /\ root' = getRoot(buildTree("hex", Leaves(entries))) /\ shown' = shown /\ attested = <<>>
  BY DEF EvInv, Attest
<1>2. Leaves(entries) \in Seq({Leaf(e) : e \in EntryIds})
  <2>1. Leaves(entries) = [i \in 1..Len(entries) |-> Leaf(entries[i])]
    BY <1>1 DEF Leaves
  <2>2. Len(entries) \in Nat /\ \A i \in 1..Len(entries) : entries[i] \in EntryIds
    BY <1>1
  <2>3. \A i \in 1..Len(entries) : Leaf(entries[i]) \in {Leaf(e) : e \in EntryIds}
    BY <2>2
  <2> HIDE DEF Leaf
  <2> QED BY <2>1, <2>2, <2>3
<1>3. shown = NoLeaf
  BY <1>1 DEF EvInv
<1>4. entries' \in Seq(EntryIds)
  BY <1>1
<1> QED BY <1>1, <1>2, <1>3, <1>4 DEF EvInv

\* So does a proof that GET /:id/proof answers with.
LEMMA EvInvShowProof ==
  ASSUME EvInv, ShowProof
  PROVE  EvInv'
<1>1. PICK n \in 1..MaxSupplied : \E leaves \in [1..n -> Texts], i \in 1..n :
          verifyProof(leaves[i], generateProof(leaves, i), root) /\ shown' = leaves[i]
  BY DEF ShowProof
<1>2. PICK leaves \in [1..n -> Texts], i \in 1..n :
          verifyProof(leaves[i], generateProof(leaves, i), root) /\ shown' = leaves[i]
  BY <1>1
<1>3. n \in Nat /\ n >= 1 /\ Len(leaves) = n
  BY EvidenceAssumption
<1>4. PICK enc : enc = "hex"
  OBVIOUS
<1>5. PICK proof : proof = generateProof(leaves, i)
  OBVIOUS
<1>6. PICK sib, right : sib = ProofSiblings(proof) /\ right = ProofSides(proof)
  OBVIOUS
<1>7. Len(proof) \in Nat /\ Len(sib) = Len(proof)
  BY <1>3, <1>4, <1>5, <1>6, GeneratedProof
<1>8. PICK m : m = Len(proof)
  OBVIOUS
<1>9. PICK leaf : leaf = leaves[i]
  OBVIOUS
<1>10. root = Climb(enc, leaf, sib, right)[m]
  BY <1>2, <1>4, <1>5, <1>6, <1>8, <1>9, VerifyProofClimbs
<1>11. PICK list : list = attested
  OBVIOUS
<1>12. /\ list # <<>> /\ list \in Seq({Leaf(e) : e \in EntryIds})
       /\ root = getRoot(buildTree("hex", list))
  BY <1>11 DEF EvInv, ShowProof
<1>13. PICK a : a = Len(list)
  OBVIOUS
<1>14. a \in Nat /\ a >= 1 /\ DOMAIN list = 1..a
  BY <1>12, <1>13
<1>15. \A j \in 1..a : \E e : list[j] = Leaf(e)
  BY <1>12, <1>13
<1>16. PICK tree : tree = buildTree(enc, list)
  OBVIOUS
<1>17. Climb(enc, leaf, sib, right)[m] = getRoot(tree)
  BY <1>4, <1>10, <1>12, <1>16
<1>18. leaf \in Range(list) \cup TextsAbove(tree)
  BY <1>4, <1>7, <1>8, <1>13, <1>14, <1>15, <1>16, <1>17, AcceptedLeaves
<1>19. InnerTexts = TextsAbove(tree)
  BY <1>4, <1>11, <1>12, <1>16 DEF InnerTexts, TextsAbove
<1>20. shown' \in Range(attested) \cup InnerTexts
  BY <1>2, <1>9, <1>11, <1>18, <1>19
<1>21. UNCHANGED <<entries, attested, root>> /\ attested # <<>>
  BY DEF ShowProof
<1>22. InnerTexts' = InnerTexts
  BY <1>21 DEF InnerTexts
<1> QED BY <1>20, <1>21, <1>22 DEF EvInv

\* The invariant gives the property, by the exactness of both verifiers.
LEMMA EvInvSound == EvInv => ProofsSound
<1> SUFFICES ASSUME EvInv PROVE ProofsSound
  OBVIOUS
<1>1. PICK list : list = Leaves(entries)
  OBVIOUS
<1>2. PICK n : n = Len(entries)
  OBVIOUS
<1>3. n \in Nat /\ DOMAIN entries = 1..n
  BY <1>2 DEF EvInv
<1>4. list = [i \in 1..n |-> Leaf(entries[i])]
  BY <1>1, <1>3 DEF Leaves
<1>5. Len(list) = n /\ DOMAIN list = 1..n
  BY <1>3, <1>4
<1>6. ASSUME NEW i \in 1..n, NEW e \in EntryIds
      PROVE  /\ verifyProof(Leaf(e), generateProof(list, i), getRoot(buildTree("hex", list))) <=> e = entries[i]
             /\ verifyClassProof(Leaf(e), getProof(list, i), getRoot(buildTree("bytes", list)), i) <=> e = entries[i]
  <2>1. n >= 1
    BY <1>3
  <2>2. PICK leaf : leaf = Leaf(e)
    OBVIOUS
  <2>3. leaf = list[i] <=> e = entries[i]
    BY <1>4, <2>2 DEF Leaf
  <2>4. verifyProof(leaf, generateProof(list, i), getRoot(buildTree("hex", list))) <=> leaf = list[i]
    BY <1>3, <1>5, <2>1, HexProofsExact
  <2>5. verifyClassProof(leaf, getProof(list, i), getRoot(buildTree("bytes", list)), i) <=> leaf = list[i]
    BY <1>3, <1>5, <2>1, ClassProofsExact
  <2> QED BY <2>2, <2>3, <2>4, <2>5
<1>7. shown # NoLeaf => shown \in Range(attested) \cup InnerTexts
  BY DEF EvInv
<1> QED BY <1>1, <1>5, <1>6, <1>7 DEF ProofsSound

\* The Merkle proofs of both implementations are complete and sound for every list of entries
\* of any length, and GET /:id/proof answers for no leaf but an attested entry or the text of
\* an inner node, whatever leaves its caller supplies and however many (generateProof.ts:90, 126; merkle.ts:87).
THEOREM MerkleProofsSound == EvSpec => []ProofsSound
<1>1. EvInit => EvInv
  BY DEF EvInit, EvInv, NoLeaf
<1>2. EvInv /\ [EvNext]_evVars => EvInv'
  <2> SUFFICES ASSUME EvInv, [EvNext]_evVars PROVE EvInv'
    OBVIOUS
  <2>1. ASSUME NEW e \in EntryIds, AddEntry(e) PROVE EvInv'
    <3>1. entries' \in Seq(EntryIds)
      BY <2>1 DEF AddEntry, EvInv
    <3>2. UNCHANGED <<attested, root, shown>> /\ InnerTexts' = InnerTexts
      BY <2>1 DEF AddEntry, InnerTexts
    <3> QED BY <3>1, <3>2 DEF EvInv
  <2>2. ASSUME NEW a \in Months, AddMonth(a) PROVE EvInv'
    <3>1. UNCHANGED <<entries, attested, root, shown>> /\ InnerTexts' = InnerTexts
      BY <2>2 DEF AddMonth, InnerTexts
    <3> QED BY <3>1 DEF EvInv
  <2>3. CASE UNCHANGED evVars
    <3>1. UNCHANGED <<entries, attested, root, shown>> /\ InnerTexts' = InnerTexts
      BY <2>3 DEF evVars, InnerTexts
    <3> QED BY <3>1 DEF EvInv
  <2> QED BY <2>1, <2>2, <2>3, EvInvAttest, EvInvShowProof DEF EvNext
<1> QED BY <1>1, <1>2, EvInvSound, PTL DEF EvSpec

(***************************************************************************)
(* The scheduler.  Between rounds the order names the tenants with a       *)
(* backlog; within a round the exhausted ones are accounted for turn by    *)
(* turn; and a round that begins with room and a backlog takes something.  *)
(***************************************************************************)

\* f holds the states between the turns of a round over list.
AreTurns(f, first, list, n) ==
  f = [k \in 0..n |-> IF k = 0 THEN first ELSE Visit(f[k - 1], list[k])]

\* The turns of a round exist.
LEMMA TurnsExist ==
  ASSUME NEW N \in Nat, NEW first, NEW list
  PROVE  \E f : AreTurns(f, first, list, N)
<1> DEFINE S == {n \in Nat : ~ \E f : AreTurns(f, first, list, n)}
<1> SUFFICES ASSUME S # {} PROVE FALSE
  OBVIOUS
<1>1. PICK n \in S : \A m \in S : n =< m
  BY LeastNumber
<1>2. CASE n = 0
  <2> DEFINE g == [k \in 0..0 |-> first]
  <2>1. AreTurns(g, first, list, 0)
    BY DEF AreTurns
  <2> QED BY <1>1, <1>2, <2>1
<1>3. CASE n # 0
  <2>1. n \in Nat /\ n - 1 \in Nat /\ ~(n =< n - 1)
    BY <1>1, <1>3
  <2>2. PICK f : AreTurns(f, first, list, n - 1)
    BY <1>1, <2>1
  <2> DEFINE g == [k \in 0..n |-> IF k = 0 THEN first ELSE Visit(f[k - 1], list[k])]
  <2>3. \A k \in 0..n : g[k] = IF k = 0 THEN first ELSE Visit(g[k - 1], list[k])
    <3> SUFFICES ASSUME NEW k \in 0..n, k # 0 PROVE g[k] = Visit(g[k - 1], list[k])
      OBVIOUS
    <3>1. k - 1 \in 0..(n - 1) /\ k - 1 \in 0..n
      BY <2>1
    <3>2. f[k - 1] = g[k - 1]
      BY <2>2, <3>1 DEF AreTurns
    <3> QED BY <3>2
  <2>4. AreTurns(g, first, list, n)
    BY <2>3 DEF AreTurns
  <2> QED BY <1>1, <2>4
<1> QED BY <1>2, <1>3

\* f holds what the filter has kept of the list, entry by entry.
AreKept(f, list, gone, n) ==
  f = [k \in 0..n |-> IF k = 0 THEN <<>> ELSE (IF list[k] \in gone THEN f[k - 1] ELSE Append(f[k - 1], list[k]))]

\* The filter has a result.
LEMMA KeptExists ==
  ASSUME NEW N \in Nat, NEW list, NEW gone
  PROVE  \E f : AreKept(f, list, gone, N)
<1> DEFINE S == {n \in Nat : ~ \E f : AreKept(f, list, gone, n)}
<1> SUFFICES ASSUME S # {} PROVE FALSE
  OBVIOUS
<1>1. PICK n \in S : \A m \in S : n =< m
  BY LeastNumber
<1>2. CASE n = 0
  <2> DEFINE g == [k \in 0..0 |-> <<>>]
  <2>1. AreKept(g, list, gone, 0)
    BY DEF AreKept
  <2> QED BY <1>1, <1>2, <2>1
<1>3. CASE n # 0
  <2>1. n \in Nat /\ n - 1 \in Nat /\ ~(n =< n - 1)
    BY <1>1, <1>3
  <2>2. PICK f : AreKept(f, list, gone, n - 1)
    BY <1>1, <2>1
  <2> DEFINE g == [k \in 0..n |-> IF k = 0 THEN <<>> ELSE (IF list[k] \in gone THEN f[k - 1] ELSE Append(f[k - 1], list[k]))]
  <2>3. \A k \in 0..n : g[k] = IF k = 0 THEN <<>> ELSE (IF list[k] \in gone THEN g[k - 1] ELSE Append(g[k - 1], list[k]))
    <3> SUFFICES ASSUME NEW k \in 0..n, k # 0 PROVE g[k] = (IF list[k] \in gone THEN g[k - 1] ELSE Append(g[k - 1], list[k]))
      OBVIOUS
    <3>1. k - 1 \in 0..(n - 1) /\ k - 1 \in 0..n
      BY <2>1
    <3>2. f[k - 1] = g[k - 1]
      BY <2>2, <3>1 DEF AreKept
    <3> QED BY <3>2
  <2>4. AreKept(g, list, gone, n)
    BY <2>3 DEF AreKept
  <2> QED BY <1>1, <2>4
<1> QED BY <1>2, <1>3

\* f holds the state of a batch after each round.
AreRounds(f, first, n) ==
  f = [k \in 0..n |-> IF k = 0 THEN first ELSE NextRound(f[k - 1])]

\* The rounds of a batch exist.
LEMMA RoundsExist ==
  ASSUME NEW N \in Nat, NEW first
  PROVE  \E f : AreRounds(f, first, N)
<1> DEFINE S == {n \in Nat : ~ \E f : AreRounds(f, first, n)}
<1> SUFFICES ASSUME S # {} PROVE FALSE
  OBVIOUS
<1>1. PICK n \in S : \A m \in S : n =< m
  BY LeastNumber
<1>2. CASE n = 0
  <2> DEFINE g == [k \in 0..0 |-> first]
  <2>1. AreRounds(g, first, 0)
    BY DEF AreRounds
  <2> QED BY <1>1, <1>2, <2>1
<1>3. CASE n # 0
  <2>1. n \in Nat /\ n - 1 \in Nat /\ ~(n =< n - 1)
    BY <1>1, <1>3
  <2>2. PICK f : AreRounds(f, first, n - 1)
    BY <1>1, <2>1
  <2> DEFINE g == [k \in 0..n |-> IF k = 0 THEN first ELSE NextRound(f[k - 1])]
  <2>3. \A k \in 0..n : g[k] = IF k = 0 THEN first ELSE NextRound(g[k - 1])
    <3> SUFFICES ASSUME NEW k \in 0..n, k # 0 PROVE g[k] = NextRound(g[k - 1])
      OBVIOUS
    <3>1. k - 1 \in 0..(n - 1) /\ k - 1 \in 0..n
      BY <2>1
    <3>2. f[k - 1] = g[k - 1]
      BY <2>2, <3>1 DEF AreRounds
    <3> QED BY <3>2
  <2>4. AreRounds(g, first, n)
    BY <2>3 DEF AreRounds
  <2> QED BY <1>1, <2>4
<1> QED BY <1>2, <1>3

\* f holds the states of the round that begins in st.
TurnsFrom(f, st, n) ==
  /\ f[0] = [st EXCEPT !.exhausted = {}]
  /\ \A k \in 0..n : k > 0 => f[k] = Visit(f[k - 1], st.order[k])
  /\ Turns(st) = f[n]

\* Turns is the last of such states.
LEMMA TurnsEquation ==
  ASSUME NEW st, NEW n \in Nat, n = Len(st.order)
  PROVE  \E f : TurnsFrom(f, st, n)
<1>0. PICK first, list : first = [st EXCEPT !.exhausted = {}] /\ list = st.order
  OBVIOUS
<1>1. \E g : AreTurns(g, first, list, n)
  BY TurnsExist
<1>2. PICK f : f = CHOOSE g : AreTurns(g, first, list, n)
  OBVIOUS
<1>3. AreTurns(f, first, list, n)
  BY <1>1, <1>2, Zenon
<1>4. PICK g : g = [k \in 0..n |-> IF k = 0 THEN first ELSE Visit(f[k - 1], list[k])]
  OBVIOUS
<1>5. f = g
  BY <1>3, <1>4, Zenon DEF AreTurns
<1>6. 0 \in 0..n
  OBVIOUS
<1>7. g[0] = first /\ \A k \in 0..n : k > 0 => g[k] = Visit(f[k - 1], list[k])
  BY <1>4, <1>6
<1>8. Turns(st) = f[n]
  BY <1>0, <1>2 DEF Turns, AreTurns
<1> QED BY <1>0, <1>5, <1>7, <1>8 DEF TurnsFrom

\* StillActive is what the filter keeps of the whole list.
LEMMA StillActiveEquation ==
  ASSUME NEW list, NEW gone, NEW n \in Nat, Len(list) = n
  PROVE  \E f : /\ f[0] = <<>>
                /\ \A k \in 0..n : k > 0 => f[k] = (IF list[k] \in gone THEN f[k - 1] ELSE Append(f[k - 1], list[k]))
                /\ StillActive(list, gone) = f[n]
<1>1. \E g : AreKept(g, list, gone, n)
  BY KeptExists
<1>2. PICK f : f = CHOOSE g : AreKept(g, list, gone, n)
  OBVIOUS
<1>3. AreKept(f, list, gone, n)
  BY <1>1, <1>2, Zenon
<1>4. PICK g : g = [k \in 0..n |-> IF k = 0 THEN <<>> ELSE (IF list[k] \in gone THEN f[k - 1] ELSE Append(f[k - 1], list[k]))]
  OBVIOUS
<1>5. f = g
  BY <1>3, <1>4, Zenon DEF AreKept
<1>6. 0 \in 0..n
  OBVIOUS
<1>7. g[0] = <<>> /\ \A k \in 0..n : k > 0 => g[k] = (IF list[k] \in gone THEN f[k - 1] ELSE Append(f[k - 1], list[k]))
  BY <1>4, <1>6
<1>8. StillActive(list, gone) = f[n]
  BY <1>2 DEF StillActive, AreKept
<1> QED BY <1>5, <1>7, <1>8

\* Rounds is the state after the last round.
LEMMA RoundsEquation ==
  ASSUME NEW st, NEW n \in Nat, st.left + Len(st.order) = n
  PROVE  \E f : /\ f[0] = st
                /\ \A k \in 0..n : k > 0 => f[k] = NextRound(f[k - 1])
                /\ Rounds(st) = f[n]
<1>1. \E g : AreRounds(g, st, n)
  BY RoundsExist
<1>2. PICK f : f = CHOOSE g : AreRounds(g, st, n)
  OBVIOUS
<1>3. AreRounds(f, st, n)
  BY <1>1, <1>2, Zenon
<1>4. PICK g : g = [k \in 0..n |-> IF k = 0 THEN st ELSE NextRound(f[k - 1])]
  OBVIOUS
<1>5. f = g
  BY <1>3, <1>4, Zenon DEF AreRounds
<1>6. 0 \in 0..n
  OBVIOUS
<1>7. g[0] = st /\ \A k \in 0..n : k > 0 => g[k] = NextRound(f[k - 1])
  BY <1>4, <1>6
<1>8. Rounds(st) = f[n]
  BY <1>2 DEF Rounds, AreRounds
<1> QED BY <1>5, <1>7, <1>8

\* A list without repetitions, and who is on it.
NoRepeats(list) == \A i, j \in 1..Len(list) : list[i] = list[j] => i = j
On(list, t) == \E i \in 1..Len(list) : list[i] = t

\* The filter keeps a list free of repetitions, and keeps who is not gone.
LEMMA StillActiveKeeps ==
  ASSUME NEW list \in Seq(Tenants), NEW gone, NoRepeats(list)
  PROVE  /\ StillActive(list, gone) \in Seq(Tenants) /\ NoRepeats(StillActive(list, gone))
         /\ \A t : On(StillActive(list, gone), t) <=> On(list, t) /\ t \notin gone
<1>0. PICK n : n = Len(list)
  OBVIOUS
<1>1. n \in Nat /\ \A k \in 1..n : list[k] \in Tenants
  BY <1>0
<1>2. PICK f : /\ f[0] = <<>>
               /\ \A k \in 0..n : k > 0 => f[k] = IF list[k] \in gone THEN f[k - 1] ELSE Append(f[k - 1], list[k])
               /\ StillActive(list, gone) = f[n]
  BY <1>0, <1>1, StillActiveEquation
<1> DEFINE Good(k) == /\ f[k] \in Seq(Tenants) /\ NoRepeats(f[k])
                      /\ \A t : On(f[k], t) <=> t \notin gone /\ \E i \in 1..k : list[i] = t
           S == {k \in 0..n : Good(k)}
<1>3. 0 \in S
  <2>1. PICK e : e = f[0]
    OBVIOUS
  <2>2. e \in Seq(Tenants) /\ Len(e) = 0
    BY <1>2, <2>1
  <2>3. NoRepeats(e) /\ \A t : ~On(e, t)
    BY <2>2 DEF NoRepeats, On
  <2>4. \A t : ~ \E i \in 1..0 : list[i] = t
    OBVIOUS
  <2>5. 0 \in 0..n
    BY <1>1
  <2> QED BY <2>1, <2>2, <2>3, <2>4, <2>5
<1>4. ASSUME NEW k \in 0..n, k > 0, k - 1 \in S PROVE k \in S
  <2>1. k \in 1..n /\ k - 1 \in Nat /\ list[k] \in Tenants
    BY <1>1, <1>4
  <2>2. PICK prev : prev = f[k - 1]
    OBVIOUS
  <2>3. /\ prev \in Seq(Tenants) /\ NoRepeats(prev)
        /\ \A t : On(prev, t) <=> t \notin gone /\ \E i \in 1..(k - 1) : list[i] = t
    BY <1>4, <2>2
  <2>4. \A t : (\E i \in 1..k : list[i] = t) <=> t = list[k] \/ \E i \in 1..(k - 1) : list[i] = t
    BY <2>1
  <2>5. CASE list[k] \in gone
    <3>1. f[k] = prev
      BY <1>2, <1>4, <2>2, <2>5
    <3>2. \A t : On(prev, t) <=> t \notin gone /\ \E i \in 1..k : list[i] = t
      BY <2>3, <2>4, <2>5
    <3> QED BY <2>3, <3>1, <3>2
  <2>6. CASE list[k] \notin gone
    <3>1. PICK new : new = Append(prev, list[k])
      OBVIOUS
    <3>2. f[k] = new
      BY <1>2, <1>4, <2>2, <2>6, <3>1
    <3>3. PICK m : m = Len(prev)
      OBVIOUS
    <3>4. /\ m \in Nat /\ new \in Seq(Tenants) /\ Len(new) = m + 1
          /\ new[m + 1] = list[k] /\ \A i \in 1..m : new[i] = prev[i]
      BY <2>1, <2>3, <3>1, <3>3
    <3>5. \A i \in 1..(m + 1) : i \in 1..m \/ i = m + 1
      BY <3>4
    <3>6. \A t : On(new, t) <=> t = list[k] \/ On(prev, t)
      <4>1. m + 1 \in 1..(m + 1) /\ \A i \in 1..m : i \in 1..(m + 1)
        BY <3>4
      <4> QED BY <3>3, <3>4, <3>5, <4>1 DEF On
    <3>7. \A t : On(new, t) <=> t \notin gone /\ \E i \in 1..k : list[i] = t
      BY <2>3, <2>4, <2>6, <3>6
    <3>8. ~On(prev, list[k])
      <4> SUFFICES ASSUME NEW i \in 1..(k - 1), list[i] = list[k] PROVE FALSE
        BY <2>3
      <4>1. i \in 1..Len(list) /\ k \in 1..Len(list) /\ i # k
        BY <1>0, <1>1, <2>1
      <4> QED BY <4>1 DEF NoRepeats
    <3>9. NoRepeats(new)
      <4> SUFFICES ASSUME NEW i \in 1..(m + 1), NEW j \in 1..(m + 1), new[i] = new[j] PROVE i = j
        BY <3>4 DEF NoRepeats
      <4>1. CASE i \in 1..m /\ j \in 1..m
        BY <2>3, <3>3, <3>4, <4>1 DEF NoRepeats
      <4>2. CASE i \in 1..m /\ j = m + 1
        BY <3>3, <3>4, <3>8, <4>2 DEF On
      <4>3. CASE j \in 1..m /\ i = m + 1
        BY <3>3, <3>4, <3>8, <4>3 DEF On
      <4> QED BY <3>5, <4>1, <4>2, <4>3
    <3> QED BY <3>2, <3>4, <3>7, <3>9
  <2> QED BY <2>5, <2>6
<1>5. \A k \in 0..n : k \in S
  <2> HIDE DEF S
  <2> QED BY <1>1, <1>3, <1>4, Induction, 0 \in Nat
<1>6. Good(n)
  <2> HIDE DEF Good
  <2>1. n \in 0..n
    BY <1>1
  <2> QED BY <1>5, <2>1
<1> QED BY <1>0, <1>2, <1>6 DEF On

\* The state of a batch that is being put together.
BatchStates ==
  [queue : [Tenants -> Nat], deficit : [Tenants -> Nat], order : Seq(Tenants), left : Nat,
   taken : [Tenants -> Nat], exhausted : SUBSET Tenants]

\* With credit for at least one item, a backlog and room in the batch, a turn takes at least
\* one item and no more than there is of each.
LEMMA TurnNumbers ==
  ASSUME NEW d \in Nat, NEW w \in Nat, w >= 1, NEW q \in Nat, q >= 1, NEW l \in Nat, l >= 1,
         NEW c, c = d + w * Quantum, NEW n, n = Smaller(c, Smaller(q, l))
  PROVE  n \in Nat /\ n >= 1 /\ n =< q /\ n =< l /\ c - n \in Nat /\ q - n \in Nat /\ l - n \in Nat
<1>1. w * Quantum \in Nat /\ w * Quantum >= 1
  <2>1. Quantum \in Nat /\ Quantum >= 1
    BY DrrAssumption
  <2> QED BY <2>1
<1>2. c \in Nat /\ c >= 1
  BY <1>1
<1> QED BY <1>2 DEF Smaller

\* What leaves the queues is in the batch.
Accounted(st, new) == \A u \in Tenants : new.queue[u] + new.taken[u] = st.queue[u] + st.taken[u]

\* Accounts add up.
LEMMA AccountedTwice ==
  ASSUME NEW a, NEW b, NEW c, Accounted(a, b), Accounted(b, c)
  PROVE  Accounted(a, c)
BY DEF Accounted

\* What changes neither queues nor batch is accounted for.
LEMMA AccountedNothing ==
  ASSUME NEW a, NEW b, a.queue = b.queue, a.taken = b.taken
  PROVE  Accounted(a, b)
BY DEF Accounted

\* The turn of t leads from st to new.
Turn(st, t, new) ==
  /\ new \in BatchStates /\ new.order = st.order /\ new.left =< st.left
  /\ \A u \in Tenants : u # t => new.queue[u] = st.queue[u]
  /\ \A u \in Tenants : new.taken[u] >= st.taken[u]
  /\ Accounted(st, new)
  /\ st.queue[t] = 0 => new.queue[t] = 0
  /\ st.left = 0 => new = st
  /\ st.left # 0 => new.exhausted = IF new.queue[t] = 0 THEN st.exhausted \cup {t} ELSE st.exhausted
  /\ st.left # 0 /\ st.queue[t] # 0 => new.left < st.left /\ new.taken[t] > 0

\* What one turn does: it touches one tenant, takes something from it when it has a backlog
\* and the batch has room, and marks it when nothing is left of it.
LEMMA VisitTakes ==
  ASSUME NEW st \in BatchStates, NEW t \in Tenants, weight \in [Tenants -> Weights],
         NEW new, new = Visit(st, t)
  PROVE  Turn(st, t, new)
<1>t. /\ st.queue \in [Tenants -> Nat] /\ st.deficit \in [Tenants -> Nat] /\ st.order \in Seq(Tenants)
      /\ st.left \in Nat /\ st.taken \in [Tenants -> Nat] /\ st.exhausted \in SUBSET Tenants
  BY DEF BatchStates
<1>r. \A u \in Tenants : st.taken[u] \in Nat
  BY <1>t
<1>1. CASE st.left = 0
  <2>1. new = st
    BY <1>1 DEF Visit
  <2>2. Accounted(st, new)
    BY <2>1, AccountedNothing
  <2> QED BY <1>1, <1>r, <1>t, <2>1, <2>2 DEF Turn
<1>2. CASE st.left # 0 /\ st.queue[t] = 0
  <2>1. new = [st EXCEPT !.exhausted = st.exhausted \cup {t}]
    BY <1>2 DEF Visit
  <2>2. new \in BatchStates
    BY <1>t, <2>1 DEF BatchStates
  <2>3. /\ new.queue = st.queue /\ new.order = st.order /\ new.left = st.left /\ new.taken = st.taken
        /\ new.exhausted = st.exhausted \cup {t}
    BY <2>1 DEF BatchStates
  <2>4. Accounted(st, new)
    BY <2>3, AccountedNothing
  <2> QED BY <1>2, <1>r, <1>t, <2>2, <2>3, <2>4 DEF Turn
<1>3. CASE st.left # 0 /\ st.queue[t] # 0
  <2>1. PICK c : c = st.deficit[t] + weight[t] * Quantum
    OBVIOUS
  <2>2. PICK n : n = Smaller(c, Smaller(st.queue[t], st.left))
    OBVIOUS
  <2>3. PICK d, w, q, l, k : d = st.deficit[t] /\ w = weight[t] /\ q = st.queue[t] /\ l = st.left /\ k = st.taken[t]
    OBVIOUS
  <2>4. d \in Nat /\ w \in Nat /\ w >= 1 /\ q \in Nat /\ q >= 1 /\ l \in Nat /\ l >= 1 /\ k \in Nat
    <3>1. weight[t] \in Nat \ {0}
      BY DrrAssumption
    <3>2. st.deficit[t] \in Nat /\ st.queue[t] \in Nat /\ st.taken[t] \in Nat
      BY <1>t
    <3>3. w \in Nat \ {0} /\ q \in Nat \ {0} /\ l \in Nat \ {0}
      BY <1>3, <1>t, <2>3, <3>1, <3>2
    <3> QED BY <2>3, <3>2, <3>3
  <2>5. /\ n \in Nat /\ n >= 1 /\ n =< q /\ n =< l /\ c - n \in Nat /\ q - n \in Nat /\ l - n \in Nat
    <3>1. c = d + w * Quantum /\ n = Smaller(c, Smaller(q, l))
      BY <2>1, <2>2, <2>3
    <3> QED BY <2>4, <3>1, TurnNumbers
  <2>6. new = [st EXCEPT !.queue = [st.queue EXCEPT ![t] = q - n], !.deficit = [st.deficit EXCEPT ![t] = c - n],
                         !.left = l - n, !.taken = [st.taken EXCEPT ![t] = k + n],
                         !.exhausted = IF q = n THEN st.exhausted \cup {t} ELSE st.exhausted]
    BY <1>3, <1>t, <2>1, <2>2, <2>3 DEF Visit, BatchStates
  <2>7. /\ [st.queue EXCEPT ![t] = q - n] \in [Tenants -> Nat]
        /\ [st.deficit EXCEPT ![t] = c - n] \in [Tenants -> Nat]
        /\ k + n \in Nat /\ [st.taken EXCEPT ![t] = k + n] \in [Tenants -> Nat]
        /\ (IF q = n THEN st.exhausted \cup {t} ELSE st.exhausted) \in SUBSET Tenants
    <3>1. k + n \in Nat /\ q - n \in Nat /\ c - n \in Nat
      BY <2>4, <2>5
    <3>2. PICK x, y, z : x = q - n /\ y = c - n /\ z = k + n
      OBVIOUS
    <3>3. x \in Nat /\ y \in Nat /\ z \in Nat
      BY <3>1, <3>2
    <3>4. [st.queue EXCEPT ![t] = x] \in [Tenants -> Nat]
      BY <1>t, <3>3
    <3>5. [st.deficit EXCEPT ![t] = y] \in [Tenants -> Nat]
      BY <1>t, <3>3
    <3>6. [st.taken EXCEPT ![t] = z] \in [Tenants -> Nat]
      BY <1>t, <3>3
    <3>7. (IF q = n THEN st.exhausted \cup {t} ELSE st.exhausted) \in SUBSET Tenants
      BY <1>t
    <3> QED BY <3>1, <3>2, <3>4, <3>5, <3>6, <3>7
  <2>8. /\ new \in BatchStates /\ new.order = st.order /\ new.left = l - n
        /\ new.queue = [st.queue EXCEPT ![t] = q - n] /\ new.taken = [st.taken EXCEPT ![t] = k + n]
        /\ new.exhausted = IF q = n THEN st.exhausted \cup {t} ELSE st.exhausted
    BY <1>t, <2>5, <2>6, <2>7 DEF BatchStates
  <2>9. /\ new.queue[t] = q - n /\ \A u \in Tenants : u # t => new.queue[u] = st.queue[u]
        /\ new.taken[t] = k + n /\ \A u \in Tenants : u # t => new.taken[u] = st.taken[u]
    BY <1>t, <2>8
  <2>10. k + n > 0 /\ k + n >= k /\ l - n < l /\ (q - n = 0 <=> q = n)
    BY <2>4, <2>5
  <2>11. \A u \in Tenants : new.taken[u] >= st.taken[u]
    BY <1>r, <2>3, <2>4, <2>9, <2>10
  <2>12. (q - n) + (k + n) = q + k
    BY <2>4, <2>5
  <2>13. Accounted(st, new)
    BY <2>3, <2>9, <2>12 DEF Accounted
  <2> QED BY <1>3, <2>3, <2>4, <2>5, <2>8, <2>9, <2>10, <2>11, <2>13 DEF Turn
<1> QED BY <1>1, <1>2, <1>3

\* Between rounds the order names, once each, the tenants with a backlog.
AtRound(st) ==
  st \in BatchStates /\ NoRepeats(st.order) /\ \A t \in Tenants : On(st.order, t) <=> st.queue[t] # 0

\* A turn of the k-th tenant of the order keeps the account of those that are exhausted.
InRound(st, s, k) ==
  /\ s \in BatchStates /\ s.order = st.order /\ s.left =< st.left /\ (k = 0 => s.left = st.left)
  /\ Accounted(st, s)
  /\ \A t \in Tenants : ~On(st.order, t) => s.queue[t] = 0
  /\ \A j \in 1..Len(st.order) : j > k => s.queue[st.order[j]] # 0
  /\ \A t : t \in s.exhausted <=> \E j \in 1..k : st.order[j] = t /\ s.queue[t] = 0
  /\ \A t \in Tenants : s.taken[t] >= st.taken[t]
  /\ k > 0 /\ st.left # 0 => s.left < st.left /\ \E t \in Tenants : s.taken[t] > 0

\* A round begins with nobody exhausted.
LEMMA InRoundBegins ==
  ASSUME NEW st, AtRound(st), NEW s, s = [st EXCEPT !.exhausted = {}]
  PROVE  InRound(st, s, 0)
<1>t. /\ st.queue \in [Tenants -> Nat] /\ st.deficit \in [Tenants -> Nat] /\ st.order \in Seq(Tenants)
      /\ st.left \in Nat /\ st.taken \in [Tenants -> Nat] /\ st \in BatchStates
  BY DEF BatchStates, AtRound
<1>1. /\ s \in BatchStates /\ s.order = st.order /\ s.left = st.left /\ s.queue = st.queue
      /\ s.taken = st.taken /\ s.exhausted = {}
  BY <1>t DEF BatchStates
<1>2. \A t \in Tenants : st.taken[t] \in Nat
  BY <1>t
<1>3. \A j \in 1..Len(st.order) : st.order[j] \in Tenants /\ On(st.order, st.order[j])
  BY <1>t DEF On
<1>4. \A t : t \in s.exhausted <=> \E j \in 1..0 : st.order[j] = t /\ s.queue[t] = 0
  BY <1>1
<1>5. Accounted(st, s)
  BY <1>1, AccountedNothing
<1>6. \A t \in Tenants : s.taken[t] >= st.taken[t]
  BY <1>1, <1>2
<1>7. \A t \in Tenants : On(st.order, t) <=> st.queue[t] # 0
  BY DEF AtRound
<1>8. \A t \in Tenants : ~On(st.order, t) => s.queue[t] = 0
  BY <1>1, <1>7
<1>9. \A j \in 1..Len(st.order) : s.queue[st.order[j]] # 0
  BY <1>1, <1>3, <1>7
<1>10. s.left =< st.left /\ ~(0 > 0)
  BY <1>t, <1>1
<1> QED BY <1>1, <1>4, <1>5, <1>6, <1>8, <1>9, <1>10 DEF InRound

\* The next turn keeps the account.
LEMMA InRoundContinues ==
  ASSUME NEW st, AtRound(st), weight \in [Tenants -> Weights], NEW k \in 1..Len(st.order),
         NEW s, InRound(st, s, k - 1), NEW t, t = st.order[k], NEW new, new = Visit(s, t)
  PROVE  InRound(st, new, k)
<1>t. /\ st \in BatchStates /\ st.order \in Seq(Tenants) /\ st.left \in Nat /\ st.taken \in [Tenants -> Nat]
  BY DEF BatchStates, AtRound
<1>s. /\ s \in BatchStates /\ s.queue \in [Tenants -> Nat] /\ s.left \in Nat /\ s.taken \in [Tenants -> Nat]
  BY DEF BatchStates, InRound
<1>k. /\ Len(st.order) \in Nat /\ k \in Nat /\ k > k - 1 /\ k > 0
      /\ \A j \in 1..k : j \in 1..(k - 1) \/ j = k
      /\ \A j \in 1..(k - 1) : j \in 1..k /\ j # k /\ j \in 1..Len(st.order)
  BY <1>t
<1>0. t \in Tenants /\ On(st.order, t)
  BY <1>t DEF On
<1>1. /\ new \in BatchStates /\ new.order = s.order /\ new.left =< s.left /\ Accounted(s, new)
      /\ \A u \in Tenants : u # t => new.queue[u] = s.queue[u]
      /\ \A u \in Tenants : new.taken[u] >= s.taken[u]
      /\ s.queue[t] = 0 => new.queue[t] = 0
      /\ s.left = 0 => new = s
      /\ s.left # 0 => new.exhausted = IF new.queue[t] = 0 THEN s.exhausted \cup {t} ELSE s.exhausted
      /\ s.left # 0 /\ s.queue[t] # 0 => new.left < s.left /\ new.taken[t] > 0
  <2>1. Turn(s, t, new)
    BY <1>0, <1>s, VisitTakes
  <2> QED BY <2>1 DEF Turn
<1>n. new.left \in Nat /\ new.taken \in [Tenants -> Nat]
  BY <1>1 DEF BatchStates
<1>2. s.queue[t] # 0
  BY <1>k DEF InRound
<1>3. \A j \in 1..Len(st.order) : j # k => st.order[j] # t /\ st.order[j] \in Tenants
  BY <1>t DEF AtRound, NoRepeats
<1>i. /\ s.order = st.order /\ s.left =< st.left /\ (k - 1 = 0 => s.left = st.left)
      /\ k - 1 > 0 /\ st.left # 0 => s.left < st.left /\ \E u \in Tenants : s.taken[u] > 0
  BY DEF InRound
<1>l. PICK x, y, z : x = new.left /\ y = s.left /\ z = st.left
  OBVIOUS
<1>m. x \in Nat /\ y \in Nat /\ z \in Nat /\ x =< y /\ y =< z
  BY <1>1, <1>i, <1>l, <1>n, <1>s, <1>t
<1>4. new.order = st.order /\ x =< z
  BY <1>1, <1>i, <1>m
<1>5. \A u \in Tenants : ~On(st.order, u) => new.queue[u] = 0
  BY <1>0, <1>1 DEF InRound
<1>6. \A j \in 1..Len(st.order) : j > k => new.queue[st.order[j]] # 0
  <2> SUFFICES ASSUME NEW j \in 1..Len(st.order), j > k PROVE new.queue[st.order[j]] # 0
    OBVIOUS
  <2>1. j > k - 1 /\ j # k
    BY <1>k
  <2> QED BY <1>1, <1>3, <2>1 DEF InRound
<1>7. \A u : u \in new.exhausted <=> \E j \in 1..k : st.order[j] = u /\ new.queue[u] = 0
  <2>1. \A u : u \in s.exhausted <=> \E j \in 1..(k - 1) : st.order[j] = u /\ s.queue[u] = 0
    BY DEF InRound
  <2>2. \A u : (\E j \in 1..(k - 1) : st.order[j] = u /\ s.queue[u] = 0)
               <=> (\E j \in 1..(k - 1) : st.order[j] = u /\ new.queue[u] = 0)
    BY <1>1, <1>3, <1>k
  <2>3. \A u : (\E j \in 1..k : st.order[j] = u /\ new.queue[u] = 0)
               <=> (u = t /\ new.queue[u] = 0) \/ (\E j \in 1..(k - 1) : st.order[j] = u /\ new.queue[u] = 0)
    <3>1. k \in 1..k
      BY <1>k
    <3> QED BY <1>k, <3>1
  <2>4. \A u : u \in new.exhausted <=> (u = t /\ new.queue[u] = 0) \/ u \in s.exhausted
    <3>1. CASE s.left = 0
      BY <1>1, <1>2, <3>1
    <3>2. CASE s.left # 0
      BY <1>1, <3>2
    <3> QED BY <3>1, <3>2
  <2> QED BY <2>1, <2>2, <2>3, <2>4
<1>8. \A u \in Tenants : new.taken[u] >= st.taken[u]
  <2> SUFFICES ASSUME NEW u \in Tenants PROVE new.taken[u] >= st.taken[u]
    OBVIOUS
  <2>1. new.taken[u] \in Nat /\ s.taken[u] \in Nat /\ st.taken[u] \in Nat
    BY <1>n, <1>s, <1>t
  <2>2. new.taken[u] >= s.taken[u] /\ s.taken[u] >= st.taken[u]
    BY <1>1 DEF InRound
  <2> QED BY <2>1, <2>2
<1>9. ASSUME z # 0 PROVE x < z /\ \E u \in Tenants : new.taken[u] > 0
  <2>1. CASE y # 0
    <3>1. x < y /\ new.taken[t] > 0
      BY <1>1, <1>2, <1>l, <2>1
    <3>2. x < z
      BY <1>m, <3>1
    <3> QED BY <1>0, <3>1, <3>2
  <2>2. CASE y = 0
    <3>1. k - 1 > 0
      BY <1>9, <1>i, <1>k, <1>l, <2>2
    <3>2. new = s
      BY <1>1, <1>l, <2>2
    <3> QED BY <1>9, <1>i, <1>l, <3>1, <3>2
  <2> QED BY <2>1, <2>2
<1>10. k # 0
  BY <1>k
<1>11. Accounted(st, new)
  <2>1. Accounted(st, s)
    BY DEF InRound
  <2> QED BY <1>1, <2>1, AccountedTwice
<1> QED BY <1>1, <1>4, <1>5, <1>6, <1>7, <1>8, <1>9, <1>10, <1>11, <1>l DEF InRound

\* A round that begins with room in the batch and a backlog takes something.
LEMMA RoundTakes ==
  ASSUME NEW st, AtRound(st), weight \in [Tenants -> Weights], NEW r, r = Round(st)
  PROVE  /\ AtRound(r) /\ r.left =< st.left /\ \A t \in Tenants : r.taken[t] >= st.taken[t]
         /\ Accounted(st, r)
         /\ ~Finished(st) => r.left < st.left /\ \E t \in Tenants : r.taken[t] > 0
<1>t. st.order \in Seq(Tenants) /\ st.left \in Nat /\ NoRepeats(st.order)
  BY DEF BatchStates, AtRound
<1>0. PICK n : n = Len(st.order)
  OBVIOUS
<1>n. n \in Nat /\ n \in 0..n
  BY <1>0, <1>t
<1>1. PICK first, list : first = [st EXCEPT !.exhausted = {}] /\ list = st.order
  OBVIOUS
<1>a. PICK f : TurnsFrom(f, st, n)
  BY <1>0, <1>n, TurnsEquation
<1>2. /\ f[0] = first
      /\ \A k \in 0..n : k > 0 => f[k] = Visit(f[k - 1], list[k])
      /\ Turns(st) = f[n]
  BY <1>1, <1>a DEF TurnsFrom
<1> DEFINE S == {k \in 0..n : InRound(st, f[k], k)}
<1>3. 0 \in S
  BY <1>1, <1>2, <1>n, InRoundBegins
<1>4. ASSUME NEW k \in 0..n, k > 0, k - 1 \in S PROVE k \in S
  <2>1. PICK s, t : s = f[k - 1] /\ t = list[k]
    OBVIOUS
  <2>2. PICK new : new = Visit(s, t)
    OBVIOUS
  <2>3. k \in 1..Len(st.order) /\ f[k] = new /\ InRound(st, s, k - 1) /\ t = st.order[k]
    BY <1>0, <1>1, <1>2, <1>4, <1>n, <2>1, <2>2
  <2>4. InRound(st, new, k)
    BY <2>2, <2>3, InRoundContinues
  <2> QED BY <2>3, <2>4
<1>5. \A k \in 0..n : k \in S
  <2> HIDE DEF S
  <2> QED BY <1>n, <1>3, <1>4, Induction, 0 \in Nat
<1>6. PICK after : after = Turns(st)
  OBVIOUS
<1>7. InRound(st, after, n)
  BY <1>2, <1>5, <1>6, <1>n
<1>8. after \in BatchStates /\ after.order = st.order
  BY <1>7 DEF InRound
<1>9. PICK order2 : order2 = StillActive(st.order, after.exhausted)
  OBVIOUS
<1>10. /\ order2 \in Seq(Tenants) /\ NoRepeats(order2)
       /\ \A t : On(order2, t) <=> On(st.order, t) /\ t \notin after.exhausted
  BY <1>9, <1>t, StillActiveKeeps
<1>11. r = [after EXCEPT !.order = order2]
  BY <1>6, <1>8, <1>9 DEF Round
<1>12. /\ r \in BatchStates /\ r.order = order2 /\ r.queue = after.queue
       /\ r.left = after.left /\ r.taken = after.taken
  BY <1>8, <1>10, <1>11 DEF BatchStates
<1>13. \A t \in Tenants : On(order2, t) <=> after.queue[t] # 0
  <2> SUFFICES ASSUME NEW t \in Tenants PROVE On(order2, t) <=> after.queue[t] # 0
    OBVIOUS
  <2>1. ~On(st.order, t) => after.queue[t] = 0
    BY <1>7 DEF InRound
  <2>2. t \in after.exhausted <=> On(st.order, t) /\ after.queue[t] = 0
    BY <1>0, <1>7 DEF InRound, On
  <2> QED BY <1>10, <2>1, <2>2
<1>14. AtRound(r)
  BY <1>10, <1>12, <1>13 DEF AtRound
<1>15. ASSUME ~Finished(st) PROVE n > 0 /\ st.left # 0
  BY <1>0, <1>15, <1>t, <1>n DEF Finished
<1>16. /\ after.left =< st.left /\ \A t \in Tenants : after.taken[t] >= st.taken[t]
       /\ n > 0 /\ st.left # 0 => after.left < st.left /\ \E t \in Tenants : after.taken[t] > 0
  BY <1>7 DEF InRound
<1>17. Accounted(st, r)
  <2>1. Accounted(st, after)
    BY <1>7 DEF InRound
  <2> QED BY <1>12, <2>1 DEF Accounted
<1> QED BY <1>12, <1>14, <1>15, <1>16, <1>17

\* The same of NextRound, which leaves a finished batch alone.
LEMMA NextRoundTakes ==
  ASSUME NEW st, AtRound(st), weight \in [Tenants -> Weights], NEW r, r = NextRound(st)
  PROVE  /\ AtRound(r) /\ r.left =< st.left /\ \A t \in Tenants : r.taken[t] >= st.taken[t]
         /\ Accounted(st, r)
         /\ ~Finished(st) => r.left < st.left /\ \E t \in Tenants : r.taken[t] > 0
         /\ Finished(st) => r = st
<1>1. CASE Finished(st)
  <2>1. r = st
    BY <1>1 DEF NextRound
  <2>2. st.left \in Nat /\ st.taken \in [Tenants -> Nat]
    BY DEF AtRound, BatchStates
  <2>3. st.left =< st.left /\ \A t \in Tenants : st.taken[t] >= st.taken[t]
    BY <2>2
  <2>4. Accounted(st, r)
    BY <2>1, AccountedNothing
  <2> QED BY <1>1, <2>1, <2>3, <2>4
<1>2. CASE ~Finished(st)
  <2>1. r = Round(st)
    BY <1>2 DEF NextRound
  <2> QED BY <1>2, <2>1, RoundTakes
<1> QED BY <1>1, <1>2

\* The rounds of a batch come to an end: the batch is full or nothing is queued, between
\* rounds the order names the tenants with a backlog, and a batch with room takes something
\* from a backlog.
LEMMA RoundsTake ==
  ASSUME NEW st, AtRound(st), weight \in [Tenants -> Weights], NEW r, r = Rounds(st)
  PROVE  AtRound(r) /\ Finished(r) /\ Accounted(st, r) /\ (~Finished(st) => \E t \in Tenants : r.taken[t] > 0)
<1>t. st.order \in Seq(Tenants) /\ st.left \in Nat /\ st.taken \in [Tenants -> Nat]
  BY DEF BatchStates, AtRound
<1>0. PICK n : n = st.left + Len(st.order)
  OBVIOUS
<1>n. n \in Nat /\ n >= st.left /\ n \in 0..n /\ (~Finished(st) => n > 0)
  BY <1>0, <1>t DEF Finished
<1>1. PICK f : /\ f[0] = st
               /\ \A k \in 0..n : k > 0 => f[k] = NextRound(f[k - 1])
               /\ Rounds(st) = f[n]
  BY <1>0, <1>n, RoundsEquation
<1> DEFINE Short(s, k) == Finished(s) \/ s.left =< st.left - k
           Some(s) == \E t \in Tenants : s.taken[t] > 0
           S == {k \in 0..n : AtRound(f[k]) /\ Short(f[k], k) /\ (k > 0 /\ ~Finished(st) => Some(f[k]))
                              /\ (k = 0 => f[k] = st) /\ Accounted(st, f[k])}
<1>2. 0 \in S
  <2>1. Accounted(st, st)
    BY AccountedNothing
  <2> QED BY <1>1, <1>n, <1>t, <2>1
<1>3. ASSUME NEW k \in 0..n, k > 0, k - 1 \in S PROVE k \in S
  <2>1. PICK s, new : s = f[k - 1] /\ new = f[k]
    OBVIOUS
  <2>2. /\ new = NextRound(s) /\ AtRound(s) /\ Short(s, k - 1) /\ k \in Nat
        /\ (k - 1 > 0 /\ ~Finished(st) => Some(s)) /\ (k - 1 = 0 => s = st) /\ Accounted(st, s)
    BY <1>1, <1>3, <1>n, <2>1
  <2>3. /\ AtRound(new) /\ new.left =< s.left /\ Accounted(s, new) /\ \A t \in Tenants : new.taken[t] >= s.taken[t]
        /\ ~Finished(s) => new.left < s.left /\ \E t \in Tenants : new.taken[t] > 0
        /\ Finished(s) => new = s
    BY <2>2, NextRoundTakes
  <2>4. /\ new.left \in Nat /\ s.left \in Nat /\ new.taken \in [Tenants -> Nat] /\ s.taken \in [Tenants -> Nat]
    BY <2>2, <2>3 DEF AtRound, BatchStates
  <2>5. Short(new, k)
    <3>1. CASE Finished(s)
      BY <2>3, <3>1
    <3>2. CASE ~Finished(s)
      <4>1. PICK x, y, z : x = new.left /\ y = s.left /\ z = st.left
        OBVIOUS
      <4>2. x \in Nat /\ y \in Nat /\ z \in Nat /\ x < y /\ y =< z - (k - 1)
        BY <1>t, <2>2, <2>3, <2>4, <3>2, <4>1
      <4>3. x =< z - k
        BY <2>2, <4>2
      <4> QED BY <4>1, <4>3
    <3> QED BY <3>1, <3>2
  <2>6. ASSUME ~Finished(st) PROVE Some(new)
    <3>1. CASE ~Finished(s)
      BY <2>3, <3>1
    <3>2. CASE Finished(s)
      <4>1. k - 1 # 0
        BY <2>2, <2>6, <3>2
      <4>2. k - 1 > 0
        BY <1>3, <2>2, <4>1
      <4> QED BY <2>2, <2>3, <2>6, <3>2, <4>2
    <3> QED BY <3>1, <3>2
  <2>7. k # 0
    BY <1>3
  <2>8. Accounted(st, new)
    BY <2>2, <2>3, AccountedTwice
  <2> HIDE DEF Short, Some
  <2> QED BY <2>1, <2>3, <2>5, <2>6, <2>7, <2>8
<1>4. \A k \in 0..n : k \in S
  <2> HIDE DEF S
  <2> QED BY <1>n, <1>2, <1>3, Induction, 0 \in Nat
<1>5. AtRound(r) /\ Short(r, n) /\ Accounted(st, r) /\ (n > 0 /\ ~Finished(st) => Some(r))
  <2> HIDE DEF Short, Some
  <2> QED BY <1>1, <1>4, <1>n
<1>6. Finished(r)
  <2>1. PICK x, z : x = r.left /\ z = st.left
    OBVIOUS
  <2>2. x \in Nat /\ z \in Nat /\ (Finished(r) \/ x =< z - n) /\ n >= z
    BY <1>5, <1>n, <1>t, <2>1 DEF AtRound, BatchStates
  <2>3. Finished(r) \/ x = 0
    BY <1>n, <2>2
  <2> QED BY <2>1, <2>3 DEF Finished
<1> QED BY <1>5, <1>6, <1>n


\* What a drainer knows.
DrainerStates == [pc : {"idle", "sampling", "ready"}, age : Nat, size : Nat]

\* The types.
DrrTyped ==
  /\ queue \in [Tenants -> Nat] /\ deficit \in [Tenants -> Nat] /\ weight \in [Tenants -> Weights]
  /\ order \in Seq(Tenants) /\ drainer \in [Drainers -> DrainerStates] /\ since \in Nat

\* The order names the tenants with a backlog, once each.
OrderExact == NoRepeats(order) /\ \A t \in Tenants : On(order, t) <=> queue[t] # 0

\* The controller never comes to a size of nothing.
ControllerBounded == size \in Nat \ {0} /\ ewma \in Nat

\* A drainer that has its size asks for at least one item.
SizesPositive == \A d \in Drainers : drainer[d].pc = "ready" => drainer[d].size # 0

\* The inductive invariant of the scheduler.
DrrInv == DrrTyped /\ OrderExact /\ ControllerBounded /\ SizesPositive

\* The clamp never lets a size fall below the minimum, in whatever order the limits are.
LEMMA ClampedPositive ==
  ASSUME NEW n \in Int
  PROVE  Clamped(n) \in Nat \ {0}
<1>1. MinSize \in Nat \ {0} /\ MaxSize \in Nat \ {0}
  BY DrrAssumption
<1>2. Smaller(MaxSize, n) \in Int
  BY <1>1 DEF Smaller
<1> QED BY <1>1, <1>2 DEF Clamped, Bigger

\* The scaled size is a number, the baseline being positive.
LEMMA ScaledIsNumber ==
  ASSUME NEW fee \in Int, NEW baseline \in Nat, baseline > 0, NEW v \in Int, size \in Int
  PROVE  Scaled(fee, baseline, v) \in Int
<1>1. PICK ratio : ratio = (fee * 10000) \div baseline
  OBVIOUS
<1>2. ratio \in Int
  <2>1. fee * 10000 \in Int
    OBVIOUS
  <2> QED BY <1>1, <2>1
<1>3. PICK damp : damp = 100 - (Dampening * Smaller(v, 100)) \div 100
  OBVIOUS
<1>4. damp \in Int
  <2>1. Smaller(v, 100) \in Int /\ Dampening \in Int
    BY DrrAssumption DEF Smaller
  <2>2. Dampening * Smaller(v, 100) \in Int
    BY <2>1
  <2> QED BY <1>3, <2>2
<1>5. (100 - ratio) * Sensitivity \in Int
  BY <1>2, DrrAssumption
<1>6. (100 - ratio) * Sensitivity * damp \in Int
  BY <1>4, <1>5
<1>7. size * (1000000 + (100 - ratio) * Sensitivity * damp) \in Int
  BY <1>6
<1>8. PICK x : x = size * (1000000 + (100 - ratio) * Sensitivity * damp)
  OBVIOUS
<1>9. Scaled(fee, baseline, v) = Rounded(x)
  BY <1>1, <1>3, <1>8 DEF Scaled
<1>10. Rounded(x) \in Int
  BY <1>7, <1>8 DEF Rounded
<1> QED BY <1>9, <1>10

\* The moving average of two numbers is a number.
LEMMA AverageIsNumber ==
  ASSUME NEW fee \in Nat, NEW e \in Nat
  PROVE  (EwmaAlpha * fee * 100 + (100 - EwmaAlpha) * e) \div 100 \in Nat
<1>1. EwmaAlpha \in Nat /\ 100 - EwmaAlpha \in Nat
  BY DrrAssumption
<1>2. EwmaAlpha * fee \in Nat /\ (100 - EwmaAlpha) * e \in Nat
  BY <1>1
<1>3. PICK x : x = EwmaAlpha * fee * 100 + (100 - EwmaAlpha) * e
  OBVIOUS
<1>4. x \in Nat
  BY <1>2, <1>3
<1>5. x \div 100 \in Nat
  BY <1>4
<1> QED BY <1>3, <1>5

\* Whatever the sample, the size stays positive.
LEMMA TuneBounded ==
  ASSUME ControllerBounded, NEW fee \in Fees, NEW v \in Volatilities, tune(fee, v)
  PROVE  ControllerBounded'
<1>1. fee \in Int /\ v \in Int /\ size \in Int /\ MinSize \in Nat \ {0} /\ ewma \in Nat
  BY DrrAssumption DEF ControllerBounded
<1>2. PICK baseline : baseline = IF ewma = 0 THEN fee * 100 ELSE ewma
  OBVIOUS
<1>3. CASE fee =< 0
  BY <1>3 DEF tune, ControllerBounded
<1>4. CASE ~(fee =< 0)
  <2>1. fee \in Nat /\ fee * 100 \in Nat /\ fee * 100 > 0
    BY <1>1, <1>4
  <2>2. baseline \in Nat /\ baseline > 0
    BY <1>1, <1>2, <2>1
  <2>3. PICK x : x = Scaled(fee, baseline, v)
    OBVIOUS
  <2>4. x \in Int
    BY <1>1, <2>2, <2>3, ScaledIsNumber
  <2>5. Clamped(x) \in Nat \ {0}
    BY <2>4, ClampedPositive
  <2>6. size' = MinSize \/ size' = Clamped(x)
    BY <1>2, <1>4, <2>3 DEF tune
  <2>7. PICK e : e = ewma
    OBVIOUS
  <2>8. PICK y : y = (EwmaAlpha * fee * 100 + (100 - EwmaAlpha) * e) \div 100
    OBVIOUS
  <2>9. y \in Nat
    BY <1>1, <2>1, <2>7, <2>8, AverageIsNumber
  <2>10. ewma' = fee * 100 \/ ewma' = y
    BY <1>4, <2>7, <2>8 DEF tune
  <2> QED BY <1>1, <2>1, <2>5, <2>6, <2>9, <2>10 DEF ControllerBounded
<1> QED BY <1>3, <1>4

\* A drain of a ready drainer: the order stays exact, and a backlog gives something.
LEMMA DrainTakes ==
  ASSUME DrrInv, NEW d \in Drainers, Drain(d)
  PROVE  /\ queue' \in [Tenants -> Nat] /\ deficit' \in [Tenants -> Nat] /\ order' \in Seq(Tenants)
         /\ OrderExact' /\ (order # <<>> => \E t \in Tenants : taken'[t] > 0)
         /\ \A t \in Tenants : queue'[t] + taken'[t] = queue[t]
<1>1. PICK n : n = drainer[d].size
  OBVIOUS
<1>2. n \in Nat /\ n # 0
  BY <1>1 DEF DrrInv, DrrTyped, DrainerStates, SizesPositive, Drain
<1>3. PICK st : st = [queue |-> queue, deficit |-> deficit, order |-> order,
                      left |-> n, taken |-> NoItems, exhausted |-> {}]
  OBVIOUS
<1>4. PICK r : r = Rounds(st)
  OBVIOUS
<1>5. r = dequeueBatch(drainer[d].size)
  BY <1>1, <1>3, <1>4 DEF dequeueBatch
<1>6. queue' = r.queue /\ deficit' = r.deficit /\ order' = r.order /\ taken' = r.taken
  BY <1>5 DEF Drain
<1>7. /\ st.queue = queue /\ st.order = order /\ st.left = n /\ st.taken = NoItems /\ st \in BatchStates
  <2>1. NoItems \in [Tenants -> Nat] /\ {} \in SUBSET Tenants
    BY DEF NoItems
  <2>2. queue \in [Tenants -> Nat] /\ deficit \in [Tenants -> Nat] /\ order \in Seq(Tenants)
    BY DEF DrrInv, DrrTyped
  <2> QED BY <1>2, <1>3, <2>1, <2>2 DEF BatchStates
<1>8. AtRound(st)
  BY <1>7 DEF AtRound, DrrInv, OrderExact
<1>9. weight \in [Tenants -> Weights]
  BY DEF DrrInv, DrrTyped
<1>10. AtRound(r) /\ Accounted(st, r) /\ (~Finished(st) => \E t \in Tenants : r.taken[t] > 0)
  BY <1>4, <1>8, <1>9, RoundsTake
<1>11. order # <<>> => ~Finished(st)
  BY <1>2, <1>7 DEF Finished
<1>12. OrderExact'
  BY <1>6, <1>10 DEF AtRound, OrderExact
<1>13. r.queue \in [Tenants -> Nat] /\ r.deficit \in [Tenants -> Nat] /\ r.order \in Seq(Tenants)
  BY <1>10 DEF AtRound, BatchStates
<1>14. \A t \in Tenants : queue'[t] + taken'[t] = queue[t]
  <2> SUFFICES ASSUME NEW t \in Tenants PROVE queue'[t] + taken'[t] = queue[t]
    OBVIOUS
  <2>1. queue'[t] + taken'[t] = queue[t] + NoItems[t]
    BY <1>6, <1>7, <1>10 DEF Accounted
  <2>2. NoItems[t] = 0 /\ queue[t] \in Nat
    BY DEF NoItems, DrrInv, DrrTyped
  <2> QED BY <2>1, <2>2
<1> QED BY <1>6, <1>10, <1>11, <1>12, <1>13, <1>14

\* An enqueue keeps the order exact.
LEMMA EnqueueExact ==
  ASSUME DrrInv, NEW t \in Tenants, NEW w \in Weights, Enqueue(t, w)
  PROVE  order' \in Seq(Tenants) /\ OrderExact'
<1>t. /\ queue \in [Tenants -> Nat] /\ order \in Seq(Tenants) /\ NoRepeats(order)
      /\ \A u \in Tenants : On(order, u) <=> queue[u] # 0
  BY DEF DrrInv, DrrTyped, OrderExact
<1>q. queue'[t] # 0 /\ \A u \in Tenants : u # t => queue'[u] = queue[u]
  BY <1>t DEF Enqueue
<1>1. DOMAIN order = 1..Len(order)
  BY <1>t
<1>2. CASE On(order, t)
  <2>1. order' = order
    BY <1>1, <1>2 DEF Enqueue, On
  <2> QED BY <1>2, <1>q, <1>t, <2>1 DEF OrderExact
<1>3. CASE ~On(order, t)
  <2>1. PICK new : new = Append(order, t)
    OBVIOUS
  <2>2. order' = new
    BY <1>1, <1>3, <2>1 DEF Enqueue, On
  <2>3. PICK m : m = Len(order)
    OBVIOUS
  <2>4. /\ m \in Nat /\ new \in Seq(Tenants) /\ Len(new) = m + 1
        /\ new[m + 1] = t /\ \A i \in 1..m : new[i] = order[i]
    BY <1>t, <2>1, <2>3
  <2>5. /\ \A i \in 1..(m + 1) : i \in 1..m \/ i = m + 1
        /\ m + 1 \in 1..(m + 1) /\ \A i \in 1..m : i \in 1..(m + 1)
    BY <2>4
  <2>6. \A u : On(new, u) <=> u = t \/ On(order, u)
    BY <2>3, <2>4, <2>5 DEF On
  <2>7. NoRepeats(new)
    <3> SUFFICES ASSUME NEW i \in 1..(m + 1), NEW j \in 1..(m + 1), new[i] = new[j] PROVE i = j
      BY <2>4 DEF NoRepeats
    <3>1. CASE i \in 1..m /\ j \in 1..m
      BY <1>t, <2>3, <2>4, <3>1 DEF NoRepeats
    <3>2. CASE i \in 1..m /\ j = m + 1
      BY <1>3, <2>3, <2>4, <3>2 DEF On
    <3>3. CASE j \in 1..m /\ i = m + 1
      BY <1>3, <2>3, <2>4, <3>3 DEF On
    <3> QED BY <2>5, <3>1, <3>2, <3>3
  <2>8. \A u \in Tenants : On(new, u) <=> queue'[u] # 0
    BY <1>q, <1>t, <2>6
  <2> QED BY <2>2, <2>4, <2>7, <2>8 DEF OrderExact
<1> QED BY <1>2, <1>3

\* The invariant holds at the start.
LEMMA DrrInvInit ==
  DrrInit => DrrInv
<1> SUFFICES ASSUME DrrInit PROVE DrrInv
  OBVIOUS
<1>1. DrrTyped
  BY DrrAssumption DEF DrrInit, DrrTyped, NoItems, DrainerStates, IdleDrainer
<1>2. OrderExact
  <2>1. Len(order) = 0 /\ \A t \in Tenants : queue[t] = 0
    BY DEF DrrInit, NoItems
  <2> QED BY <2>1 DEF OrderExact, NoRepeats, On
<1>3. ControllerBounded
  BY DrrAssumption DEF DrrInit, ControllerBounded
<1>4. SizesPositive
  BY DEF DrrInit, SizesPositive, IdleDrainer
<1> QED BY <1>1, <1>2, <1>3, <1>4 DEF DrrInv

\* Every step keeps it.
LEMMA DrrInvNext ==
  ASSUME DrrInv, [DrrNext]_drrVars
  PROVE  DrrInv'
<1>t. DrrTyped /\ OrderExact /\ ControllerBounded /\ SizesPositive
  BY DEF DrrInv
<1>s. size \in Nat /\ size # 0
  BY <1>t DEF ControllerBounded
<1>d. \A d \in Drainers : drainer[d] \in DrainerStates
  BY <1>t DEF DrrTyped
<1>1. ASSUME NEW t \in Tenants, NEW w \in Weights, Enqueue(t, w) PROVE DrrInv'
  <2>1. order' \in Seq(Tenants) /\ OrderExact'
    BY <1>1, EnqueueExact
  <2>2. queue' \in [Tenants -> Nat] /\ weight' \in [Tenants -> Weights]
    BY <1>1, <1>t DEF Enqueue, DrrTyped
  <2>3. deficit' = deficit /\ size' = size /\ ewma' = ewma /\ since' = since /\ drainer' = drainer
    BY <1>1 DEF Enqueue
  <2> QED BY <1>t, <2>1, <2>2, <2>3 DEF DrrInv, DrrTyped, ControllerBounded, SizesPositive
<1>2. ASSUME NEW d \in Drainers, AskSize(d) PROVE DrrInv'
  <2>0. PICK new : new = IF since < SampleInterval THEN [pc |-> "ready", age |-> 0, size |-> size]
                         ELSE [pc |-> "sampling", age |-> 0, size |-> 0]
    OBVIOUS
  <2>1. /\ new \in DrainerStates /\ (new.pc = "ready" => new.size # 0)
        /\ drainer' = [drainer EXCEPT ![d] = new]
    BY <1>2, <1>s, <2>0 DEF AskSize, DrainerStates
  <2>2. drainer' \in [Drainers -> DrainerStates] /\ SizesPositive'
    BY <1>t, <2>1 DEF DrrTyped, SizesPositive
  <2>3. UNCHANGED <<queue, deficit, weight, order, size, ewma, since>>
    BY <1>2 DEF AskSize
  <2> QED BY <1>t, <2>2, <2>3 DEF DrrInv, DrrTyped, OrderExact, ControllerBounded
<1>3. ASSUME NEW d \in Drainers, SampleArrives(d) PROVE DrrInv'
  <2>1. ControllerBounded'
    BY <1>3, <1>t, TuneBounded DEF SampleArrives
  <2>2. size' \in Nat /\ size' # 0
    BY <2>1 DEF ControllerBounded
  <2>3. PICK new : /\ new \in DrainerStates /\ new.size # 0
                   /\ drainer' = [drainer EXCEPT ![d] = new]
    BY <1>3, <2>2 DEF SampleArrives, DrainerStates
  <2>4. drainer' \in [Drainers -> DrainerStates] /\ SizesPositive'
    BY <1>t, <2>3 DEF DrrTyped, SizesPositive
  <2>5. UNCHANGED <<queue, deficit, weight, order>> /\ since' \in Nat
    BY <1>3, <1>d DEF SampleArrives, DrainerStates
  <2> QED BY <1>t, <2>1, <2>4, <2>5 DEF DrrInv, DrrTyped, OrderExact
<1>4. ASSUME NEW d \in Drainers, SampleFails(d) PROVE DrrInv'
  <2>1. IdleDrainer \in DrainerStates /\ IdleDrainer.pc # "ready"
    BY DEF IdleDrainer, DrainerStates
  <2>2. drainer' = [drainer EXCEPT ![d] = IdleDrainer] /\ UNCHANGED <<queue, deficit, weight, order, size, ewma, since>>
    BY <1>4 DEF SampleFails
  <2>3. drainer' \in [Drainers -> DrainerStates] /\ SizesPositive'
    BY <1>t, <2>1, <2>2 DEF DrrTyped, SizesPositive
  <2> QED BY <1>t, <2>2, <2>3 DEF DrrInv, DrrTyped, OrderExact, ControllerBounded
<1>5. ASSUME NEW d \in Drainers, Drain(d) PROVE DrrInv'
  <2>1. IdleDrainer \in DrainerStates /\ IdleDrainer.pc # "ready"
    BY DEF IdleDrainer, DrainerStates
  <2>2. drainer' = [drainer EXCEPT ![d] = IdleDrainer] /\ UNCHANGED <<weight, size, ewma, since>>
    BY <1>5 DEF Drain
  <2>3. drainer' \in [Drainers -> DrainerStates] /\ SizesPositive'
    BY <1>t, <2>1, <2>2 DEF DrrTyped, SizesPositive
  <2>4. queue' \in [Tenants -> Nat] /\ deficit' \in [Tenants -> Nat] /\ order' \in Seq(Tenants) /\ OrderExact'
    BY <1>5, DrainTakes
  <2> QED BY <1>t, <2>2, <2>3, <2>4 DEF DrrInv, DrrTyped, ControllerBounded
<1>6. ASSUME ForcedSample PROVE DrrInv'
  <2>1. ControllerBounded'
    BY <1>6, <1>t, TuneBounded DEF ForcedSample
  <2>2. UNCHANGED <<queue, deficit, weight, order, since, drainer>>
    BY <1>6 DEF ForcedSample
  <2> QED BY <1>t, <2>1, <2>2 DEF DrrInv, DrrTyped, OrderExact, SizesPositive
<1>7. ASSUME TimePasses PROVE DrrInv'
  <2>1. UNCHANGED <<queue, deficit, weight, order, size, ewma>>
    BY <1>7 DEF TimePasses
  <2>2. since' \in Nat
    BY <1>7, <1>t, DrrAssumption DEF TimePasses, Smaller, DrrTyped
  <2>3. ASSUME NEW d \in Drainers
        PROVE  drainer'[d] \in DrainerStates /\ drainer'[d].pc = drainer[d].pc /\ drainer'[d].size = drainer[d].size
    <3>1. PICK a : a = Smaller(drainer[d].age + 1, SampleInterval)
      OBVIOUS
    <3>2. a \in Nat
      BY <1>d, <3>1, DrrAssumption DEF Smaller, DrainerStates
    <3>3. drainer'[d] = drainer[d] \/ drainer'[d] = [drainer[d] EXCEPT !.age = a]
      BY <1>7, <3>1 DEF TimePasses
    <3>4. PICK o : o = drainer[d]
      OBVIOUS
    <3>5. o \in DrainerStates
      BY <1>d, <3>4
    <3>6. [o EXCEPT !.age = a] \in DrainerStates /\ [o EXCEPT !.age = a].pc = o.pc /\ [o EXCEPT !.age = a].size = o.size
      BY <3>2, <3>5 DEF DrainerStates
    <3> QED BY <3>3, <3>4, <3>5, <3>6
  <2>4. PICK g : g = drainer'
    OBVIOUS
  <2>5. g \in [Drainers -> DrainerStates]
    <3>1. g = [d \in Drainers |-> g[d]]
      BY <1>7, <2>4 DEF TimePasses
    <3>2. \A d \in Drainers : g[d] \in DrainerStates
      BY <2>3, <2>4
    <3> QED BY <3>1, <3>2, Zenon
  <2>6. SizesPositive'
    BY <1>t, <2>3 DEF SizesPositive
  <2> QED BY <1>t, <2>1, <2>2, <2>4, <2>5, <2>6 DEF DrrInv, DrrTyped, OrderExact, ControllerBounded
<1>8. CASE UNCHANGED drrVars
  BY <1>8, <1>t DEF drrVars, DrrInv, DrrTyped, OrderExact, ControllerBounded, SizesPositive
<1> QED BY <1>1, <1>2, <1>3, <1>4, <1>5, <1>6, <1>7, <1>8 DEF DrrNext

\* A list without repetitions has as many members as places.
LEMMA NoRepeatsCounted ==
  ASSUME NEW list \in Seq(Tenants), NoRepeats(list)
  PROVE  Cardinality(ToSet(list)) = Len(list)
<1>1. PICK m : m = Len(list)
  OBVIOUS
<1>2. m \in Nat /\ DOMAIN list = 1..m /\ ToSet(list) = {list[i] : i \in 1..m}
  BY <1>1 DEF ToSet
<1>3. IsFiniteSet(1..m) /\ Cardinality(1..m) = m
  <2>1. IsFiniteSet(1..m) /\ Cardinality(1..m) = (IF 1 > m THEN 0 ELSE m - 1 + 1)
    BY <1>2, FS_Interval
  <2> QED BY <1>2, <2>1
<1>4. ExistsBijection(1..m, ToSet(list))
  <2> DEFINE f == [i \in 1..m |-> list[i]]
  <2>1. f \in [1..m -> ToSet(list)]
    BY <1>2
  <2>2. \A i, j \in 1..m : i # j => f[i] # f[j]
    BY <1>1 DEF NoRepeats
  <2>3. \A t \in ToSet(list) : \E i \in 1..m : f[i] = t
    BY <1>2
  <2>4. f \in Bijection(1..m, ToSet(list))
    BY <2>1, <2>2, <2>3 DEF Bijection, Injection, Surjection, IsInjective
  <2> QED BY <2>4 DEF ExistsBijection
<1>5. Cardinality(1..m) = Cardinality(ToSet(list))
  BY <1>3, <1>4, FS_Bijection
<1> QED BY <1>1, <1>3, <1>5

\* An exact order is the one the property asks for.
LEMMA OrderOfBacklogs ==
  DrrInv => ActiveIsBacklogged
<1> SUFFICES ASSUME DrrInv PROVE ActiveIsBacklogged
  OBVIOUS
<1>1. /\ queue \in [Tenants -> Nat] /\ order \in Seq(Tenants) /\ NoRepeats(order)
      /\ \A u \in Tenants : On(order, u) <=> queue[u] # 0
  BY DEF DrrInv, DrrTyped, OrderExact
<1>2. Cardinality(ToSet(order)) = Len(order)
  BY <1>1, NoRepeatsCounted
<1>3. \A t : t \in ToSet(order) <=> On(order, t)
  BY <1>1 DEF ToSet, On
<1>4. \A t : On(order, t) => t \in Tenants
  BY <1>1 DEF On
<1>5. \A t \in Tenants : queue[t] # 0 <=> queue[t] > 0
  <2> SUFFICES ASSUME NEW t \in Tenants PROVE queue[t] # 0 <=> queue[t] > 0
    OBVIOUS
  <2>1. queue[t] \in Nat
    BY <1>1
  <2> QED BY <2>1
<1>6. ToSet(order) = {t \in Tenants : queue[t] > 0}
  BY <1>1, <1>3, <1>4, <1>5
<1> QED BY <1>2, <1>6 DEF ActiveIsBacklogged

\* Only a drain takes a ready drainer back to idle, and from a backlog it takes something.
LEMMA IdleAgainTakes ==
  ASSUME DrrInv, [DrrNext]_drrVars, NEW e \in Drainers,
         drainer[e].pc = "ready", drainer'[e].pc = "idle"
  PROVE  (order # <<>> => \E t \in Tenants : taken'[t] > 0) /\ \A t \in Tenants : queue'[t] + taken'[t] = queue[t]
<1>t. drainer \in [Drainers -> DrainerStates]
  BY DEF DrrInv, DrrTyped
<1>1. ASSUME NEW t \in Tenants, NEW w \in Weights, Enqueue(t, w) PROVE FALSE
  BY <1>1 DEF Enqueue
<1>2. ASSUME NEW d \in Drainers, AskSize(d) PROVE FALSE
  <2>1. d # e
    BY <1>2 DEF AskSize
  <2> QED BY <1>2, <1>t, <2>1 DEF AskSize
<1>3. ASSUME NEW d \in Drainers, SampleArrives(d) PROVE FALSE
  <2>1. d # e
    BY <1>3 DEF SampleArrives
  <2> QED BY <1>3, <1>t, <2>1 DEF SampleArrives
<1>4. ASSUME NEW d \in Drainers, SampleFails(d) PROVE FALSE
  <2>1. d # e
    BY <1>4 DEF SampleFails
  <2> QED BY <1>4, <1>t, <2>1 DEF SampleFails
<1>5. ASSUME NEW d \in Drainers, Drain(d)
      PROVE  (order # <<>> => \E t \in Tenants : taken'[t] > 0) /\ \A t \in Tenants : queue'[t] + taken'[t] = queue[t]
  BY <1>5, DrainTakes
<1>6. ASSUME ForcedSample PROVE FALSE
  BY <1>6 DEF ForcedSample
<1>7. ASSUME TimePasses PROVE FALSE
  BY <1>7 DEF TimePasses
<1>8. CASE UNCHANGED drrVars
  BY <1>8 DEF drrVars
<1> QED BY <1>1, <1>2, <1>3, <1>4, <1>5, <1>6, <1>7, <1>8 DEF DrrNext

\* The round-robin order is always the set of tenants with a backlog, once each: no enqueue or
\* round (drrScheduler.ts:260, 335) forgets a tenant.  What leaves a queue is in the batch, once
\* (drrScheduler.ts:314-327), and a drain of a backlog takes something: whatever samples the
\* network reports, the clamped batch size (adaptiveBatchSize.ts:278) is never zero.
THEOREM SchedulerNeverStalls ==
  DrrSpec => SchedulerHolds
<1>1. DrrInit => DrrInv
  BY DrrInvInit
<1>2. DrrInv /\ [DrrNext]_drrVars => DrrInv'
  BY DrrInvNext
<1>3. DrrInv => ActiveIsBacklogged
  BY OrderOfBacklogs
<1>4. DrrInv /\ [DrrNext]_drrVars =>
        [\A d \in Drainers :
            drainer[d].pc = "ready" /\ drainer'[d].pc = "idle" =>
                /\ \A t \in Tenants : queue'[t] + taken'[t] = queue[t]
                /\ order # <<>> => \E t \in Tenants : taken'[t] > 0]_drrVars
  BY IdleAgainTakes
<1> QED BY <1>1, <1>2, <1>3, <1>4, PTL DEF DrrSpec, SchedulerHolds, DrainTakesItsBatch
=============================================================================
