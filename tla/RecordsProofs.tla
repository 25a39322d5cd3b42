--------------------------- MODULE RecordsProofs ---------------------------
(***************************************************************************)
(* TLAPS proofs about the records the service keeps and the queues in      *)
(* front of them.                                                          *)
(***************************************************************************)
EXTENDS RevenueIntake, PgQuery, RebuildIndexer, AttestationRecords,
        DegradedQueue, BatchingQueue, FunctionTheorems, FiniteSetTheorems, TLAPS

(***************************************************************************)
(* RevenueIntake, for every set of members, every log and any number of    *)
(* kills and rebalances: no event is skipped.                              *)
(***************************************************************************)

\* Types.  A member in progress has an offset of the log.
IntakeTypes ==
  /\ produced \in Nat /\ committed \in Nat
  /\ member \in [Members -> [pc : {"stopped", "waiting", "unconnected", "polling", "onRevenue",
                                   "sendToDlt", "commit"},
                             at : Nat, stale : BOOLEAN]]
  /\ excused \subseteq 1..produced
  /\ \A m \in Members :
       /\ member[m].pc \in {"polling"} \cup InProgress => member[m].at # 0
       /\ member[m].pc \in InProgress => member[m].at =< produced

\* Offsets that are handled, dead or excused.
Settled == handled \cup dead \cup excused

\* A member that reads, whatever it has lost since, has settled every offset before its
\* own, and its own too once it is about to commit.
MembersSettle ==
  \A m \in Members :
    /\ member[m].pc \in {"polling"} \cup InProgress => 1..(member[m].at - 1) \subseteq Settled
    /\ member[m].pc = "commit" => member[m].at \in Settled

IntakeInv == IntakeTypes /\ MembersSettle /\ NothingSkipped

LEMMA IntakeInit == InInit => IntakeInv
  BY DEF InInit, IntakeInv, IntakeTypes, MembersSettle, NothingSkipped, Settled, Stopped, InProgress

\* Every step keeps it.
LEMMA IntakeStep == IntakeInv /\ [InNext]_inVars => IntakeInv'
  <1> SUFFICES ASSUME IntakeInv, [InNext]_inVars PROVE IntakeInv'
    OBVIOUS
  <1> USE DEF IntakeInv, InProgress
  <1>1. CASE Produce
    BY <1>1 DEF Produce, IntakeTypes, MembersSettle, NothingSkipped, Settled
  <1>2. ASSUME NEW m \in Members, StartMember(m) PROVE IntakeInv'
    BY <1>2 DEF StartMember, Goto, IntakeTypes, MembersSettle, NothingSkipped, Settled
  <1>3. ASSUME NEW m \in Members, AssignPartition(m) PROVE IntakeInv'
    <2> DEFINE from == IF committed = 0 THEN produced + 1 ELSE committed
    <2>1. from \in Nat \ {0}
      BY DEF IntakeTypes
    <2>2. excused \subseteq excused' /\ excused' \subseteq 1..produced
      BY <1>3 DEF AssignPartition, IntakeTypes
    <2>3. Settled \subseteq Settled' /\ NothingSkipped'
      BY <1>3, <2>2 DEF AssignPartition, Settled, NothingSkipped
    <2>4. 1..(from - 1) \subseteq Settled'
      BY <1>3, <2>3 DEF AssignPartition, Settled, NothingSkipped, IntakeTypes
    <2>5. member' = [n \in Members |->
             IF n = m THEN [pc |-> "polling", at |-> from, stale |-> FALSE]
             ELSE IF member[n].pc = "polling" THEN [member[n] EXCEPT !.pc = "waiting"]
             ELSE [member[n] EXCEPT !.stale = member[n].pc \in InProgress]]
      BY <1>3 DEF AssignPartition
    <2> HIDE DEF from
    <2>6. IntakeTypes'
      <3>1. UNCHANGED <<produced, committed>>
        BY <1>3 DEF AssignPartition
      <3> DEFINE R == [pc : {"stopped", "waiting", "unconnected", "polling", "onRevenue",
                             "sendToDlt", "commit"},
                       at : Nat, stale : BOOLEAN]
      <3>2. ASSUME NEW n \in Members PROVE member'[n] \in R
        <4>1. member[n] \in R
          BY DEF IntakeTypes
        <4>2. CASE n = m
          BY <2>1, <2>5, <4>2
        <4>3. CASE n # m /\ member[n].pc = "polling"
          BY <2>5, <4>1, <4>3
        <4>4. CASE n # m /\ member[n].pc # "polling"
          <5>1. member'[n] = [member[n] EXCEPT !.stale = member[n].pc \in InProgress]
            BY <2>5, <4>4
          <5>2. (member[n].pc \in InProgress) \in BOOLEAN
            OBVIOUS
          <5> HIDE DEF InProgress
          <5> QED BY <4>1, <5>1, <5>2
        <4> QED BY <4>2, <4>3, <4>4
      <3>3. \A n \in Members :
              /\ member'[n].pc \in {"polling"} \cup InProgress => member'[n].at # 0
              /\ member'[n].pc \in InProgress => member'[n].at =< produced
        BY <2>1, <2>5 DEF IntakeTypes
      <3> QED BY <2>2, <2>5, <3>1, <3>2, <3>3 DEF IntakeTypes
    <2>7. MembersSettle'
      BY <2>1, <2>3, <2>4, <2>5 DEF IntakeTypes, MembersSettle
    <2> QED BY <2>3, <2>6, <2>7
  <1>4. ASSUME NEW m \in Members, eachMessage(m) PROVE IntakeInv'
    BY <1>4 DEF eachMessage, Goto, IntakeTypes, MembersSettle, NothingSkipped, Settled
  <1>5. ASSUME NEW m \in Members, OnRevenueDone(m) PROVE IntakeInv'
    BY <1>5 DEF OnRevenueDone, Goto, IntakeTypes, MembersSettle, NothingSkipped, Settled
  <1>6. ASSUME NEW m \in Members, sendToDlt(m) PROVE IntakeInv'
    <2>1. IntakeTypes'
      BY <1>6 DEF sendToDlt, Goto, IntakeTypes
    <2>2. MembersSettle'
      BY <1>6 DEF sendToDlt, Goto, IntakeTypes, MembersSettle, Settled
    <2>3. NothingSkipped'
      BY <1>6 DEF sendToDlt, Goto, IntakeTypes, MembersSettle, NothingSkipped, Settled
    <2> QED BY <2>1, <2>2, <2>3
  <1>7. ASSUME NEW m \in Members, CommitOffset(m) PROVE IntakeInv'
    <2>1. IntakeTypes'
      BY <1>7 DEF CommitOffset, IntakeTypes
    <2>2. MembersSettle'
      BY <1>7 DEF CommitOffset, IntakeTypes, MembersSettle, Settled
    <2>3. NothingSkipped'
      BY <1>7 DEF CommitOffset, IntakeTypes, MembersSettle, NothingSkipped, Settled
    <2> QED BY <2>1, <2>2, <2>3
  <1>8. ASSUME NEW m \in Members, CommitRefused(m) PROVE IntakeInv'
    <2>1. IntakeTypes'
      BY <1>8 DEF CommitRefused, IntakeTypes
    <2>2. MembersSettle'
      BY <1>8 DEF CommitRefused, IntakeTypes, MembersSettle, Settled
    <2>3. NothingSkipped'
      BY <1>8 DEF CommitRefused, IntakeTypes, MembersSettle, NothingSkipped, Settled
    <2> QED BY <2>1, <2>2, <2>3
  <1>9. ASSUME NEW m \in Members, StopMember(m) \/ KillMember(m) PROVE IntakeInv'
    <2>1. member' = [member EXCEPT ![m] = Stopped]
          /\ UNCHANGED <<produced, committed, handled, dead, excused>>
      BY <1>9 DEF StopMember, KillMember
    <2> QED BY <2>1 DEF Stopped, IntakeTypes, MembersSettle, NothingSkipped, Settled
  <1>10. CASE UNCHANGED inVars
    BY <1>10 DEF inVars, IntakeTypes, MembersSettle, NothingSkipped, Settled
  <1> QED
    BY <1>1, <1>2, <1>3, <1>4, <1>5, <1>6, <1>7, <1>8, <1>9, <1>10 DEF InNext

\* Whatever kills, rebalances and refused commits happen, an event the group will not
\* read again was handled, is a dead letter, or is one the code excuses.
THEOREM IntakeSkipsNothing == InSpec => []NothingSkipped
  <1>1. IntakeInv => NothingSkipped
    BY DEF IntakeInv
  <1> QED BY IntakeInit, IntakeStep, <1>1, PTL DEF InSpec

-----------------------------------------------------------------------------
(***************************************************************************)
(* PgQuery, for every set of calls, processes and connections: one name    *)
(* for all, and yet a query with parameters runs its own statement.        *)
(***************************************************************************)

PgPcs == {"start", "prepare", "execute", "deallocate", "unnamed", "ok", "failed"}
PgCallType == [pc : PgPcs, result : Calls \cup {NoCall}]

PgTypes ==
  /\ call \in [Calls -> PgCallType]
  /\ prepared \in [Servers -> Calls \cup {NoCall}]
  /\ runs \in [Calls -> Nat]

\* What is prepared on a connection was prepared by a call that reaches it.
PreparedBy(s) == prepared[s] # NoCall => usePrepared(prepared[s]) /\ Reaches(prepared[s], s)

\* The result of d may stand in for that of c.
MayAnswer(c, d) ==
  /\ d \in Calls /\ Interchangeable(c) /\ Interchangeable(d)
  /\ SharesServers \/ CallKinds[d].process = CallKinds[c].process

\* Where a call is, its result, and how often its statement has run.
PgCallAt(c) ==
  /\ call[c].pc \in {"prepare", "execute", "deallocate"} => usePrepared(c)
  /\ call[c].pc = "deallocate" => MayAnswer(c, call[c].result)
  /\ call[c].pc = "ok" => call[c].result = c \/ MayAnswer(c, call[c].result)
  /\ ~Interchangeable(c) =>
        /\ call[c].pc \in {"start", "prepare", "execute", "unnamed"} => runs[c] = 0
        /\ call[c].pc = "ok" => runs[c] = 1
        /\ runs[c] =< 1

PgInv ==
  /\ PgTypes
  /\ \A s \in Servers : PreparedBy(s)
  /\ \A c \in Calls : PgCallAt(c)

LEMMA PgInitInv == PgInit => PgInv
  BY DEF PgInit, PgInv, PgTypes, PgPcs, PgCallType, NewCall, PreparedBy, PgCallAt

\* A call that moves on keeps its type, and only that call changes.
LEMMA CallMoves ==
  ASSUME PgTypes, NEW c \in Calls, NEW x \in PgPcs
  PROVE  /\ MoveTo(c, x) \in [Calls -> PgCallType]
         /\ MoveTo(c, x)[c] = [pc |-> x, result |-> call[c].result]
         /\ \A d \in Calls : d # c => MoveTo(c, x)[d] = call[d]
  BY DEF PgTypes, PgCallType, MoveTo

\* A call is safe from a step of another that does not run its statement.
LEMMA CallKept ==
  ASSUME NEW d \in Calls, PgCallAt(d), mode' = mode, call'[d] = call[d], runs'[d] = runs[d]
  PROVE  PgCallAt(d)'
  BY DEF PgCallAt, MayAnswer, Interchangeable, usePrepared, disablePreparedStatements, SharesServers

\* Nor does it matter how often the statement of an interchangeable one runs.
LEMMA InterchangeableKept ==
  ASSUME NEW d \in Calls, PgCallAt(d), Interchangeable(d), mode' = mode, call'[d] = call[d]
  PROVE  PgCallAt(d)'
  BY DEF PgCallAt, MayAnswer, Interchangeable, usePrepared, disablePreparedStatements, SharesServers

\* A connection that keeps or loses its statement stays in order.
LEMMA PreparedKept ==
  ASSUME NEW s \in Servers, PreparedBy(s), mode' = mode, prepared'[s] \in {prepared[s], NoCall}
  PROVE  PreparedBy(s)'
  BY DEF PreparedBy, usePrepared, disablePreparedStatements, Reaches, SharesServers

\* EXECUTE succeeds only between two interchangeable calls.
LEMMA ExecutesInterchangeable ==
  ASSUME PgTypes, NEW c \in Calls, NEW s \in Servers, PreparedBy(s), PgCallAt(c),
         call[c].pc = "execute", Reaches(c, s), Executes(c, s)
  PROVE  MayAnswer(c, prepared[s])
  BY DEF PgTypes, PreparedBy, PgCallAt, Executes, MayAnswer, Interchangeable, Reaches

\* Every step keeps it.
LEMMA PgStep == PgInv /\ [PgNext]_pgVars => PgInv'
  <1> SUFFICES ASSUME PgInv, [PgNext]_pgVars PROVE PgInv'
    OBVIOUS
  <1>0. PgTypes /\ (\A s \in Servers : PreparedBy(s)) /\ (\A d \in Calls : PgCallAt(d))
    BY DEF PgInv
  <1> DEFINE Steady(c) == \A d \in Calls : d # c => call'[d] = call[d]
  <1>1. ASSUME NEW c \in Calls, query(c) PROVE PgInv'
    <2>1. PICK x \in PgPcs : /\ call' = MoveTo(c, x)
                             /\ x = IF usePrepared(c) THEN "prepare" ELSE "unnamed"
      BY <1>1 DEF query, PgPcs
    <2>2. call[c].pc = "start" /\ UNCHANGED <<mode, prepared, runs>>
      BY <1>1 DEF query
    <2>3. call' \in [Calls -> PgCallType] /\ call'[c] = [pc |-> x, result |-> call[c].result] /\ Steady(c)
      BY <1>0, <2>1, CallMoves
    <2>4. PgTypes'
      BY <1>0, <2>2, <2>3 DEF PgTypes
    <2>5. \A s \in Servers : PreparedBy(s)'
      BY <1>0, <2>2, PreparedKept
    <2>6. PgCallAt(c)'
      BY <1>0, <2>1, <2>2, <2>3 DEF PgCallAt, usePrepared, disablePreparedStatements, Interchangeable
    <2>7. \A d \in Calls : PgCallAt(d)'
      BY <1>0, <2>2, <2>3, <2>6, CallKept
    <2> QED BY <2>4, <2>5, <2>7 DEF PgInv
  <1>2. ASSUME NEW c \in Calls, executeUnnamed(c) PROVE PgInv'
    <2>1. /\ call[c].pc = "unnamed"
          /\ runs' = [runs EXCEPT ![c] = @ + 1]
          /\ call' = [call EXCEPT ![c] = [pc |-> "ok", result |-> c]]
          /\ UNCHANGED <<mode, prepared>>
      BY <1>2 DEF executeUnnamed
    <2>2. PgTypes'
      BY <1>0, <2>1 DEF PgTypes, PgCallType, PgPcs
    <2>3. /\ call'[c] = [pc |-> "ok", result |-> c] /\ runs'[c] = runs[c] + 1
          /\ \A d \in Calls : d # c => call'[d] = call[d] /\ runs'[d] = runs[d]
      BY <1>0, <2>1 DEF PgTypes
    <2>4. \A s \in Servers : PreparedBy(s)'
      BY <1>0, <2>1, PreparedKept
    <2>5. PgCallAt(c)'
      BY <1>0, <2>1, <2>3 DEF PgCallAt, usePrepared, disablePreparedStatements, Interchangeable
    <2>6. \A d \in Calls : PgCallAt(d)'
      BY <1>0, <2>1, <2>3, <2>5, CallKept
    <2> QED BY <2>2, <2>4, <2>6 DEF PgInv
  <1>3. ASSUME NEW c \in Calls, NEW s \in Servers, Prepare(c, s) PROVE PgInv'
    <2>1. PICK x \in {"execute", "unnamed"} : call' = MoveTo(c, x)
      BY <1>3 DEF Prepare
    <2>2. /\ call[c].pc = "prepare" /\ Reaches(c, s) /\ UNCHANGED <<mode, runs>>
          /\ prepared' = [prepared EXCEPT ![s] = c] \/ UNCHANGED prepared
      BY <1>3 DEF Prepare
    <2>x. x \in PgPcs
      BY DEF PgPcs
    <2>3. call' \in [Calls -> PgCallType] /\ call'[c] = [pc |-> x, result |-> call[c].result] /\ Steady(c)
      BY <1>0, <2>1, <2>x, CallMoves
    <2>4. PgTypes'
      BY <1>0, <2>2, <2>3 DEF PgTypes
    <2>5. usePrepared(c)
      BY <1>0, <2>2 DEF PgCallAt
    <2>6. \A t \in Servers : PreparedBy(t)'
      <3> SUFFICES ASSUME NEW t \in Servers PROVE PreparedBy(t)'
        OBVIOUS
      <3>1. CASE prepared'[t] = prepared[t]
        BY <1>0, <2>2, <3>1, PreparedKept
      <3>2. CASE t = s /\ prepared'[t] = c
        BY <2>2, <2>5, <3>2 DEF PreparedBy, usePrepared, disablePreparedStatements, Reaches, SharesServers
      <3> QED BY <1>0, <2>2, <3>1, <3>2 DEF PgTypes
    <2>7. PgCallAt(c)'
      BY <1>0, <2>1, <2>2, <2>3, <2>5 DEF PgCallAt, usePrepared, disablePreparedStatements, Interchangeable
    <2>8. \A d \in Calls : PgCallAt(d)'
      BY <1>0, <2>2, <2>3, <2>7, CallKept
    <2> QED BY <2>4, <2>6, <2>8 DEF PgInv
  <1>4. ASSUME NEW c \in Calls, NEW s \in Servers, Execute(c, s) PROVE PgInv'
    <2>1. call[c].pc = "execute" /\ Reaches(c, s) /\ UNCHANGED <<mode, prepared>>
      BY <1>4 DEF Execute
    <2>2. \A t \in Servers : PreparedBy(t)'
      BY <1>0, <2>1, PreparedKept
    <2>3. CASE Executes(c, s)
      <3>1. PICK e : e = prepared[s]
        OBVIOUS
      <3>2. MayAnswer(c, e)
        BY <1>0, <2>1, <2>3, <3>1, ExecutesInterchangeable
      <3>3. e \in Calls /\ Interchangeable(c) /\ Interchangeable(e)
        BY <3>2 DEF MayAnswer
      <3>4. /\ call' = [call EXCEPT ![c] = [pc |-> "deallocate", result |-> e]]
            /\ runs' = [runs EXCEPT ![e] = @ + 1]
        BY <1>4, <2>3, <3>1 DEF Execute
      <3>5. PgTypes'
        BY <1>0, <2>1, <3>3, <3>4 DEF PgTypes, PgCallType, PgPcs
      <3>6. /\ call'[c] = [pc |-> "deallocate", result |-> e] /\ Steady(c)
            /\ \A d \in Calls : d # e => runs'[d] = runs[d]
        BY <1>0, <3>3, <3>4 DEF PgTypes
      <3>7. MayAnswer(c, e)' /\ usePrepared(c)' /\ Interchangeable(c)'
        BY <2>1, <3>2, <3>3 DEF MayAnswer, Interchangeable, usePrepared, disablePreparedStatements, SharesServers
      <3>8. PgCallAt(c)'
        BY <3>6, <3>7 DEF PgCallAt, MayAnswer
      <3>9. \A d \in Calls : PgCallAt(d)'
        <4> SUFFICES ASSUME NEW d \in Calls, d # c PROVE PgCallAt(d)'
          BY <3>8
        <4>1. CASE d = e
          BY <1>0, <2>1, <3>3, <3>6, <4>1, InterchangeableKept
        <4>2. CASE d # e
          BY <1>0, <2>1, <3>6, <4>2, CallKept
        <4> QED BY <4>1, <4>2
      <3> QED BY <2>2, <3>5, <3>9 DEF PgInv
    <2>4. CASE ~Executes(c, s)
      <3>1. call' = MoveTo(c, "unnamed") /\ UNCHANGED runs
        BY <1>4, <2>4 DEF Execute
      <3>2. /\ call' \in [Calls -> PgCallType] /\ Steady(c)
            /\ call'[c] = [pc |-> "unnamed", result |-> call[c].result]
        <4>1. "unnamed" \in PgPcs
          BY DEF PgPcs
        <4> QED BY <1>0, <3>1, <4>1, CallMoves
      <3>3. PgTypes'
        BY <1>0, <2>1, <3>1, <3>2 DEF PgTypes
      <3>4. PgCallAt(c)'
        BY <1>0, <2>1, <3>1, <3>2 DEF PgCallAt, usePrepared, disablePreparedStatements, Interchangeable
      <3>5. \A d \in Calls : PgCallAt(d)'
        BY <1>0, <2>1, <3>1, <3>2, <3>4, CallKept
      <3> QED BY <2>2, <3>3, <3>5 DEF PgInv
    <2> QED BY <2>3, <2>4
  <1>5. ASSUME NEW c \in Calls, NEW s \in Servers, Deallocate(c, s) PROVE PgInv'
    <2>1. PICK x \in {"ok", "unnamed"} : call' = MoveTo(c, x)
      BY <1>5 DEF Deallocate
    <2>2. /\ call[c].pc = "deallocate" /\ UNCHANGED <<mode, runs>>
          /\ prepared' = [prepared EXCEPT ![s] = NoCall]
      BY <1>5 DEF Deallocate
    <2>x. x \in PgPcs
      BY DEF PgPcs
    <2>3. call' \in [Calls -> PgCallType] /\ call'[c] = [pc |-> x, result |-> call[c].result] /\ Steady(c)
      BY <1>0, <2>1, <2>x, CallMoves
    <2>4. PgTypes'
      BY <1>0, <2>2, <2>3 DEF PgTypes
    <2>5. \A t \in Servers : PreparedBy(t)'
      BY <1>0, <2>2, PreparedKept DEF PgTypes
    <2>6. MayAnswer(c, call[c].result) /\ Interchangeable(c)
      BY <1>0, <2>2 DEF PgCallAt, MayAnswer
    <2>7. PgCallAt(c)'
      BY <2>1, <2>2, <2>3, <2>6 DEF PgCallAt, MayAnswer, Interchangeable, usePrepared,
         disablePreparedStatements, SharesServers
    <2>8. \A d \in Calls : PgCallAt(d)'
      BY <1>0, <2>2, <2>3, <2>7, CallKept
    <2> QED BY <2>4, <2>5, <2>8 DEF PgInv
  <1>6. ASSUME NEW c \in Calls, NEW s \in Servers, ConnectionFails(c, s) PROVE PgInv'
    <2>1. PICK x \in {"failed", "unnamed"} :
             /\ call' = MoveTo(c, x)
             /\ call[c].pc = "unnamed" <=> x = "failed"
      BY <1>6 DEF ConnectionFails
    <2>2. /\ call[c].pc \in {"prepare", "execute", "deallocate", "unnamed"} /\ Reaches(c, s)
          /\ prepared' = [prepared EXCEPT ![s] = NoCall] /\ UNCHANGED mode
      BY <1>6 DEF ConnectionFails
    <2>x. x \in PgPcs
      BY DEF PgPcs
    <2>3. call' \in [Calls -> PgCallType] /\ call'[c] = [pc |-> x, result |-> call[c].result] /\ Steady(c)
      BY <1>0, <2>1, <2>x, CallMoves
    <2>4. \A t \in Servers : PreparedBy(t)'
      BY <1>0, <2>2, PreparedKept DEF PgTypes
    <2>5. call[c].pc = "deallocate" => Interchangeable(c)
      BY <1>0 DEF PgCallAt, MayAnswer
    <2>6. CASE UNCHANGED runs
      <3>1. PgTypes'
        BY <1>0, <2>2, <2>3, <2>6 DEF PgTypes
      <3>2. PgCallAt(c)'
        BY <1>0, <2>1, <2>2, <2>3, <2>5, <2>6 DEF PgCallAt, usePrepared, disablePreparedStatements, Interchangeable
      <3>3. \A d \in Calls : PgCallAt(d)'
        BY <1>0, <2>2, <2>3, <2>6, <3>2, CallKept
      <3> QED BY <2>4, <3>1, <3>3 DEF PgInv
    <2>7. CASE /\ call[c].pc = "execute" /\ Executes(c, s)
               /\ runs' = [runs EXCEPT ![prepared[s]] = @ + 1]
      <3>1. PICK e : e = prepared[s]
        OBVIOUS
      <3>2. e \in Calls /\ Interchangeable(c) /\ Interchangeable(e)
        BY <1>0, <2>2, <2>7, <3>1, ExecutesInterchangeable DEF MayAnswer
      <3>3. runs' = [runs EXCEPT ![e] = @ + 1]
        BY <2>7, <3>1
      <3>4. PgTypes'
        BY <1>0, <2>2, <2>3, <3>2, <3>3 DEF PgTypes
      <3>5. PgCallAt(c)'
        BY <2>1, <2>2, <2>3, <2>7, <3>2 DEF PgCallAt, usePrepared, disablePreparedStatements, Interchangeable
      <3>6. \A d \in Calls : d # e => runs'[d] = runs[d]
        BY <1>0, <3>3 DEF PgTypes
      <3>7. \A d \in Calls : PgCallAt(d)'
        <4> SUFFICES ASSUME NEW d \in Calls, d # c PROVE PgCallAt(d)'
          BY <3>5
        <4>1. CASE d = e
          BY <1>0, <2>2, <2>3, <3>2, <4>1, InterchangeableKept
        <4>2. CASE d # e
          BY <1>0, <2>2, <2>3, <3>6, <4>2, CallKept
        <4> QED BY <4>1, <4>2
      <3> QED BY <2>4, <3>4, <3>7 DEF PgInv
    <2>8. CASE call[c].pc = "unnamed" /\ runs' = [runs EXCEPT ![c] = @ + 1]
      <3>1. PgTypes'
        BY <1>0, <2>2, <2>3, <2>8 DEF PgTypes
      <3>2. runs'[c] = runs[c] + 1 /\ \A d \in Calls : d # c => runs'[d] = runs[d]
        BY <1>0, <2>8 DEF PgTypes
      <3>3. PgCallAt(c)'
        BY <1>0, <2>1, <2>2, <2>3, <2>8, <3>2 DEF PgCallAt, usePrepared, disablePreparedStatements, Interchangeable
      <3>4. \A d \in Calls : PgCallAt(d)'
        BY <1>0, <2>2, <2>3, <3>2, <3>3, CallKept
      <3> QED BY <2>4, <3>1, <3>4 DEF PgInv
    <2> QED BY <1>6, <2>6, <2>7, <2>8 DEF ConnectionFails
  <1>7. CASE UNCHANGED pgVars
    <2>1. PgTypes' /\ UNCHANGED <<mode, call, prepared, runs>>
      BY <1>0, <1>7 DEF pgVars, PgTypes
    <2>2. \A s \in Servers : PreparedBy(s)'
      BY <1>0, <2>1, PreparedKept
    <2>3. \A d \in Calls : PgCallAt(d)'
      BY <1>0, <2>1, CallKept
    <2> QED BY <2>1, <2>2, <2>3 DEF PgInv
  <1> QED BY <1>1, <1>2, <1>3, <1>4, <1>5, <1>6, <1>7 DEF PgNext

\* All prepared statements have one name, and yet a query with parameters, or one that is
\* not prepared, answers with its own statement's result, which ran once, and never runs
\* twice; one without parameters is only ever mixed up with others of its kind.
THEOREM QueriesRunTheirOwn == PgSpec => []QueryRunsOwnStatement
  <1>1. PgInv => QueryRunsOwnStatement
    BY DEF PgInv, PgCallAt, MayAnswer, QueryRunsOwnStatement
  <1> QED BY PgInitInv, PgStep, <1>1, PTL DEF PgSpec

-----------------------------------------------------------------------------
(***************************************************************************)
(* RebuildIndexer, for any number of runs of the script at once, every     *)
(* page size and every set of options: what a rebuild leaves can be        *)
(* trusted.                                                                *)
(***************************************************************************)

ChainEvents == {GoodEvent(a) : a \in ChainAtts} \cup {BadEvent}

Runs ==
  [at : {"fetch", "page"}, opts : RebuildOptions, base : Nat, cursor : Nat, page : Seq(Nat),
   next : Nat, more : BOOLEAN, seen : SUBSET ChainAtts, failed : BOOLEAN]

\* How many events of the chain a run has gone past.
Passed(q) == IF q.at = "page" THEN q.next - Len(q.page) ELSE Position(q)

\* The attestations of the good ones among the first n events of ev are all in S.
GoodIn(ev, n, S) == \A i \in 1..n : ev[i].good => ev[i].att \in S

\* Attestations with a row in the table idx.
Rows(idx) == {a \in ChainAtts : idx[a] # 0}

\* A run whose success promises a row for every attestation.
Full(q) == q.base = 0 /\ ~q.failed /\ ~q.opts.dryRun /\ q.opts.businessId = Everyone

\* A run over the events ev with the table idx and the attestations over passed over: its
\* page is what lies between where it stands and its next cursor, everything before is
\* accounted for, and a full run has written all of it.
RunOk(q, ev, idx, over) ==
  /\ q \in Runs
  /\ q.base \in 0..Len(ev) /\ q.cursor \in 0..Len(ev)
  /\ q.at = "page" =>
       /\ q.next \in 1..Len(ev) /\ Len(q.page) =< q.next
       /\ \A i \in 1..Len(q.page) : q.page[i] = q.next - Len(q.page) + i
  /\ GoodIn(ev, Passed(q), Rows(idx) \cup over) /\ q.seen \subseteq Rows(idx) \cup over
  /\ Full(q) => GoodIn(ev, Passed(q), Rows(idx)) /\ q.seen \subseteq Rows(idx)

RebuildInv ==
  /\ events \in Seq(ChainEvents)
  /\ indexed \in [ChainAtts -> Nat]
  /\ passedOver \subseteq ChainAtts
  /\ checkpoint \in 0..Len(events) /\ promised \in 0..Len(events)
  /\ \A a \in ChainAtts :
       indexed[a] # 0 => indexed[a] \in 1..Len(events) /\ events[indexed[a]] = GoodEvent(a)
  /\ GoodIn(events, promised, Rows(indexed))
  /\ GoodIn(events, checkpoint, Rows(indexed) \cup passedOver)
  /\ rebuild \in [Rebuilders -> Runs \cup {NotRunning}]
  /\ \A r \in Rebuilders :
       rebuild[r] # NotRunning => RunOk(rebuild[r], events, indexed, passedOver)

\* Events are only added, rows are not deleted and nothing is taken back.
Grows(ev, ev2, idx, idx2, over, over2) ==
  /\ ev \in Seq(ChainEvents) /\ ev2 \in Seq(ChainEvents) /\ Len(ev) =< Len(ev2)
  /\ \A i \in 1..Len(ev) : ev2[i] = ev[i]
  /\ Rows(idx) \subseteq Rows(idx2) /\ over \subseteq over2

\* Where a run stands is within the chain.
LEMMA PassedInChain ==
  ASSUME NEW q, NEW ev, NEW idx, NEW over, ev \in Seq(ChainEvents), RunOk(q, ev, idx, over)
  PROVE  Passed(q) \in 0..Len(ev)
  BY DEF RunOk, Passed, Position, Runs

\* What is accounted for stays so.
LEMMA GoodInGrows ==
  ASSUME NEW ev, NEW ev2, NEW S, NEW S2, NEW n \in Nat, n =< Len(ev), Len(ev) \in Nat,
         \A i \in 1..Len(ev) : ev2[i] = ev[i], S \subseteq S2, GoodIn(ev, n, S)
  PROVE  GoodIn(ev2, n, S2)
  BY DEF GoodIn

\* A run that makes no step itself is not disturbed by the others.
LEMMA RunKept ==
  ASSUME NEW q, NEW ev, NEW ev2, NEW idx, NEW idx2, NEW over, NEW over2,
         Grows(ev, ev2, idx, idx2, over, over2), RunOk(q, ev, idx, over)
  PROVE  RunOk(q, ev2, idx2, over2)
  <1>1. Passed(q) \in 0..Len(ev) /\ Len(ev) \in Nat /\ Len(ev2) \in Nat /\ Len(ev) =< Len(ev2)
    BY PassedInChain DEF Grows
  <1>2. GoodIn(ev2, Passed(q), Rows(idx2) \cup over2)
    BY <1>1, GoodInGrows DEF Grows, RunOk
  <1>3. Full(q) => GoodIn(ev2, Passed(q), Rows(idx2))
    BY <1>1, GoodInGrows DEF Grows, RunOk
  <1>4. q.seen \subseteq Rows(idx2) \cup over2 /\ (Full(q) => q.seen \subseteq Rows(idx2))
    BY DEF Grows, RunOk
  <1> QED BY <1>1, <1>2, <1>3, <1>4 DEF RunOk

LEMMA RebuildInit == RiInit => RebuildInv
  BY DEF RiInit, RebuildInv, GoodIn, Rows, ChainEvents

\* A step of one run, from the state it leaves that run in.
LEMMA OneRun ==
  ASSUME RebuildInv, NEW r \in Rebuilders, NEW q, rebuild' = [rebuild EXCEPT ![r] = q],
         Grows(events, events', indexed, indexed', passedOver, passedOver'),
         q = NotRunning \/ RunOk(q, events', indexed', passedOver')
  PROVE  /\ rebuild' \in [Rebuilders -> Runs \cup {NotRunning}]
         /\ \A s \in Rebuilders :
              rebuild'[s] # NotRunning => RunOk(rebuild'[s], events', indexed', passedOver')
  <1>1. q \in Runs \cup {NotRunning}
    BY DEF RunOk
  <1>2. rebuild' \in [Rebuilders -> Runs \cup {NotRunning}]
    BY <1>1 DEF RebuildInv
  <1>3. ASSUME NEW s \in Rebuilders, rebuild'[s] # NotRunning
        PROVE  RunOk(rebuild'[s], events', indexed', passedOver')
    <2>1. CASE s = r
      BY <1>3, <2>1 DEF RebuildInv
    <2>2. CASE s # r
      <3>1. rebuild'[s] = rebuild[s] /\ RunOk(rebuild[s], events, indexed, passedOver)
        BY <1>3, <2>2 DEF RebuildInv
      <3> QED BY <3>1, RunKept
    <2> QED BY <2>1, <2>2
  <1> QED BY <1>2, <1>3

\* The checkpoint and the promise stay true, moved or not.
LEMMA MarksHold ==
  ASSUME RebuildInv, Grows(events, events', indexed, indexed', passedOver, passedOver'),
         checkpoint' \in 0..Len(events), GoodIn(events, checkpoint', Rows(indexed) \cup passedOver),
         promised' \in 0..Len(events), GoodIn(events, promised', Rows(indexed))
  PROVE  /\ checkpoint' \in 0..Len(events') /\ promised' \in 0..Len(events')
         /\ GoodIn(events', promised', Rows(indexed'))
         /\ GoodIn(events', checkpoint', Rows(indexed') \cup passedOver')
  <1>1. Len(events) \in Nat /\ Len(events') \in Nat /\ Len(events) =< Len(events')
    BY DEF Grows
  <1>2. GoodIn(events', promised', Rows(indexed'))
    BY <1>1, GoodInGrows DEF Grows
  <1>3. GoodIn(events', checkpoint', Rows(indexed') \cup passedOver')
    BY <1>1, GoodInGrows DEF Grows
  <1> QED BY <1>1, <1>2, <1>3

\* A step of a run that leaves the chain and the table alone.
LEMMA QuietRun ==
  ASSUME RebuildInv, UNCHANGED <<events, indexed>>,
         passedOver \subseteq passedOver', passedOver' \subseteq ChainAtts,
         checkpoint' \in 0..Len(events), GoodIn(events, checkpoint', Rows(indexed) \cup passedOver),
         promised' \in 0..Len(events), GoodIn(events, promised', Rows(indexed)),
         NEW r \in Rebuilders, NEW q, rebuild' = [rebuild EXCEPT ![r] = q],
         q = NotRunning \/ RunOk(q, events, indexed, passedOver')
  PROVE  RebuildInv'
  <1>1. Grows(events, events', indexed, indexed', passedOver, passedOver')
    BY DEF Grows, RebuildInv
  <1>2. q = NotRunning \/ RunOk(q, events', indexed', passedOver')
    OBVIOUS
  <1>3. /\ checkpoint' \in 0..Len(events') /\ promised' \in 0..Len(events')
        /\ GoodIn(events', promised', Rows(indexed'))
        /\ GoodIn(events', checkpoint', Rows(indexed') \cup passedOver')
    BY <1>1, MarksHold
  <1>4. /\ rebuild' \in [Rebuilders -> Runs \cup {NotRunning}]
        /\ \A s \in Rebuilders :
             rebuild'[s] # NotRunning => RunOk(rebuild'[s], events', indexed', passedOver')
    BY <1>1, <1>2, OneRun
  <1>5. /\ events' \in Seq(ChainEvents) /\ indexed' \in [ChainAtts -> Nat]
        /\ \A a \in ChainAtts :
             indexed'[a] # 0 => indexed'[a] \in 1..Len(events') /\ events'[indexed'[a]] = GoodEvent(a)
    BY DEF RebuildInv
  <1> QED BY <1>3, <1>4, <1>5 DEF RebuildInv

\* The end of a run.
LEMMA FinishOk ==
  ASSUME RebuildInv, NEW r \in Rebuilders, NEW q, q.at = "fetch",
         RunOk(q, events, indexed, passedOver), FinishRebuild(r, q),
         UNCHANGED <<events, indexed, passedOver>>
  PROVE  RebuildInv'
  <1>0. Len(events) \in Nat /\ q.cursor \in 0..Len(events) /\ q.base \in 0..Len(events)
    BY DEF RebuildInv, RunOk
  <1>1. checkpoint' \in 0..Len(events) /\ GoodIn(events, checkpoint', Rows(indexed) \cup passedOver)
    BY <1>0 DEF FinishRebuild, saveCheckpoint, RebuildInv, RunOk, Passed, Position
  <1>2. promised' \in {promised, q.cursor} /\ (promised' = promised \/ Full(q))
    <2>1. promised \in Nat /\ q.cursor \in Nat
      BY <1>0 DEF RebuildInv
    <2>2. Max({promised, q.cursor}) \in {promised, q.cursor}
      BY <2>1 DEF Max
    <2> QED BY <2>2 DEF FinishRebuild, Full
  <1>3. promised' \in 0..Len(events) /\ GoodIn(events, promised', Rows(indexed))
    <2>1. CASE promised' = promised
      BY <2>1 DEF RebuildInv
    <2>2. CASE promised' = q.cursor /\ Full(q)
      <3>1. GoodIn(events, Passed(q), Rows(indexed)) /\ Passed(q) = q.cursor
        BY <1>0, <2>2 DEF RunOk, Full, Passed, Position
      <3> QED BY <1>0, <2>2, <3>1
    <2> QED BY <1>2, <2>1, <2>2
  <1>4. rebuild' = [rebuild EXCEPT ![r] = NotRunning] /\ passedOver' \subseteq ChainAtts
    BY DEF FinishRebuild, RebuildInv
  <1> QED BY <1>1, <1>3, <1>4, QuietRun

\* Every step keeps it.
LEMMA RebuildStep == RebuildInv /\ [RiNext]_riVars => RebuildInv'
  <1> SUFFICES ASSUME RebuildInv, [RiNext]_riVars PROVE RebuildInv'
    OBVIOUS
  <1>0. Len(events) \in Nat /\ PageEvents \in Nat \ {0}
    BY RebuildAssumption DEF RebuildInv
  <1>1. ASSUME NEW event \in ChainEvents, ChainEmits(event) PROVE RebuildInv'
    <2>1. /\ events' = Append(events, event)
          /\ UNCHANGED <<indexed, checkpoint, rebuild, passedOver, promised>>
      BY <1>1 DEF ChainEmits
    <2>2. Grows(events, events', indexed, indexed', passedOver, passedOver')
      BY <2>1 DEF Grows, RebuildInv
    <2>3. /\ checkpoint' \in 0..Len(events') /\ promised' \in 0..Len(events')
          /\ GoodIn(events', promised', Rows(indexed'))
          /\ GoodIn(events', checkpoint', Rows(indexed') \cup passedOver')
      BY <2>1, <2>2, MarksHold DEF RebuildInv
    <2>4. ASSUME NEW s \in Rebuilders, rebuild[s] # NotRunning
          PROVE  RunOk(rebuild[s], events', indexed', passedOver')
      BY <2>2, <2>4, RunKept DEF RebuildInv
    <2>5. \A a \in ChainAtts :
            indexed'[a] # 0 => indexed'[a] \in 1..Len(events') /\ events'[indexed'[a]] = GoodEvent(a)
      BY <2>1, <2>2 DEF RebuildInv, Grows
    <2> QED BY <2>1, <2>2, <2>3, <2>4, <2>5 DEF RebuildInv, Grows
  <1>2. ASSUME NEW r \in Rebuilders, NEW opts \in RebuildOptions, StartRebuild(r, opts)
        PROVE  RebuildInv'
    <2> DEFINE cursor == loadCheckpoint(opts)
    <2> DEFINE from == IF cursor # 0 THEN cursor ELSE opts.fromLedger
    <2> DEFINE q == [at |-> "fetch", opts |-> opts, base |-> from, cursor |-> cursor,
                     page |-> <<>>, next |-> 0, more |-> FALSE, seen |-> {}, failed |-> FALSE]
    <2>1. /\ rebuild[r] = NotRunning /\ from =< Len(events)
          /\ rebuild' = [rebuild EXCEPT ![r] = q]
          /\ passedOver' = IF cursor = 0 THEN passedOver \cup GoodAtts(1..from) ELSE passedOver
          /\ UNCHANGED <<events, indexed, checkpoint, promised>>
      BY <1>2 DEF StartRebuild
    <2>2. cursor \in 0..Len(events) /\ (cursor # 0 => cursor = checkpoint)
      BY <1>0 DEF loadCheckpoint, RebuildInv
    <2>3. from \in 0..Len(events)
      BY <1>0, <2>1, <2>2, RebuildAssumption
    <2>4. passedOver \subseteq passedOver' /\ passedOver' \subseteq ChainAtts
      <3>1. \A i \in 1..Len(events) : events[i].good => events[i].att \in ChainAtts
        BY DEF RebuildInv, ChainEvents, GoodEvent, BadEvent
      <3> QED BY <1>0, <2>1, <2>3, <3>1 DEF RebuildInv, GoodAtts, parseEventFromResponse
    <2>5. GoodIn(events, from, Rows(indexed) \cup passedOver')
      <3>1. CASE cursor = 0
        BY <2>1, <2>3, <3>1 DEF GoodIn, GoodAtts, parseEventFromResponse
      <3>2. CASE cursor # 0
        BY <2>1, <2>2, <3>2 DEF GoodIn, RebuildInv
      <3> QED BY <3>1, <3>2
    <2>6. RunOk(q, events, indexed, passedOver')
      <3>1. q \in Runs
        BY <1>0, <2>2, <2>3 DEF Runs
      <3>2. Passed(q) = from /\ q.base = from /\ q.cursor = cursor /\ q.seen = {} /\ q.at = "fetch"
        BY DEF Passed, Position
      <3>3. Full(q) => from = 0
        BY DEF Full
      <3> HIDE DEF q, from, cursor
      <3> QED BY <1>0, <2>2, <2>3, <2>5, <3>1, <3>2, <3>3 DEF RunOk, GoodIn
    <2>7. /\ checkpoint' \in 0..Len(events) /\ GoodIn(events, checkpoint', Rows(indexed) \cup passedOver)
          /\ promised' \in 0..Len(events) /\ GoodIn(events, promised', Rows(indexed))
      BY <2>1 DEF RebuildInv
    <2> HIDE DEF q
    <2> QED BY <2>1, <2>4, <2>6, <2>7, QuietRun
  <1>3. ASSUME NEW r \in Rebuilders, rebuild[r] # NotRunning
        PROVE  RunOk(rebuild[r], events, indexed, passedOver) /\ rebuild[r] \in Runs
    BY <1>3 DEF RebuildInv, RunOk
  <1>4. ASSUME NEW r \in Rebuilders, rebuild[r].at \in {"fetch", "page"}
        PROVE  rebuild[r] # NotRunning
    BY <1>4 DEF NotRunning
  <1>5. UNCHANGED <<checkpoint, promised>> =>
          /\ checkpoint' \in 0..Len(events) /\ GoodIn(events, checkpoint', Rows(indexed) \cup passedOver)
          /\ promised' \in 0..Len(events) /\ GoodIn(events, promised', Rows(indexed))
    BY DEF RebuildInv
  <1>6. ASSUME NEW r \in Rebuilders, fetchEvents(r) PROVE RebuildInv'
    <2> DEFINE q == rebuild[r]
    <2> DEFINE pos == Position(q)
    <2> DEFINE to == Min({pos + PageEvents, Len(events)})
    <2> DEFINE pg == [i \in 1..(to - pos) |-> pos + i]
    <2> DEFINE mo == (to = pos + PageEvents)
    <2> DEFINE q2 == [q EXCEPT !.at = "page", !.page = pg, !.next = to, !.more = mo]
    <2>1. /\ q.at = "fetch" /\ pos < Len(events)
          /\ rebuild' = [rebuild EXCEPT ![r] = q2]
          /\ UNCHANGED <<events, indexed, checkpoint, passedOver, promised>>
      BY <1>6 DEF fetchEvents, RebuildInv
    <2>2. q \in Runs /\ RunOk(q, events, indexed, passedOver)
      BY <1>3, <1>4, <2>1
    <2>3. pos = Passed(q) /\ pos \in 0..Len(events)
      BY <2>1, <2>2, PassedInChain DEF Passed, RebuildInv
    <2>4. to \in (pos + 1)..Len(events)
      BY <1>0, <2>1, <2>3 DEF Min
    <2> HIDE DEF to, pos
    <2>5. pg \in Seq(Nat) /\ Len(pg) = to - pos /\ \A i \in 1..Len(pg) : pg[i] = pos + i
      BY <1>0, <2>3, <2>4
    <2>10. to \in Nat
      BY <1>0, <2>3, <2>4
    <2>11. mo \in BOOLEAN
      OBVIOUS
    <2> HIDE DEF pg, mo
    <2>6. q2 \in Runs
      BY <2>2, <2>5, <2>10, <2>11 DEF Runs
    <2>7. /\ q2.at = "page" /\ q2.next = to /\ q2.page = pg
          /\ q2.base = q.base /\ q2.cursor = q.cursor /\ q2.seen = q.seen
          /\ q2.failed = q.failed /\ q2.opts = q.opts
      BY <2>2 DEF Runs
    <2> HIDE DEF q2, q
    <2>8. Passed(q2) = pos /\ (Full(q2) <=> Full(q))
      BY <1>0, <2>3, <2>4, <2>5, <2>7 DEF Passed, Full
    <2>9. RunOk(q2, events, indexed, passedOver)
      <3>1. /\ q2.next \in 1..Len(events) /\ Len(q2.page) =< q2.next
            /\ \A i \in 1..Len(q2.page) : q2.page[i] = q2.next - Len(q2.page) + i
        <4>1. to - pos \in Nat /\ to - pos =< to /\ to - (to - pos) = pos /\ to \in 1..Len(events)
          BY <1>0, <2>3, <2>4
        <4>2. q2.next = to /\ Len(q2.page) = to - pos /\ \A i \in 1..Len(q2.page) : q2.page[i] = pos + i
          BY <2>5, <2>7
        <4> QED BY <4>1, <4>2
      <3> QED BY <2>2, <2>3, <2>6, <2>7, <2>8, <3>1 DEF RunOk
    <2> QED BY <1>5, <2>1, <2>9, QuietRun DEF RebuildInv
  <1>7. ASSUME NEW r \in Rebuilders, FetchFindsNothing(r) PROVE RebuildInv'
    <2>1. /\ rebuild[r].at = "fetch" /\ FinishRebuild(r, rebuild[r])
          /\ UNCHANGED <<events, indexed, passedOver>>
      BY <1>7 DEF FetchFindsNothing
    <2> QED BY <1>3, <1>4, <2>1, FinishOk
  <1>8. ASSUME NEW r \in Rebuilders, FetchErrs(r) PROVE RebuildInv'
    <2> DEFINE q == rebuild[r]
    <2> DEFINE q2 == [q EXCEPT !.failed = TRUE]
    <2>1. q.at = "fetch" /\ FinishRebuild(r, q2) /\ UNCHANGED <<events, indexed, passedOver>>
      BY <1>8 DEF FetchErrs
    <2>2. q \in Runs /\ RunOk(q, events, indexed, passedOver)
      BY <1>3, <1>4, <2>1
    <2>3. /\ q2 \in Runs /\ q2.at = "fetch" /\ q2.base = q.base /\ q2.cursor = q.cursor
          /\ q2.seen = q.seen /\ q2.failed
      BY <2>1, <2>2 DEF Runs
    <2> HIDE DEF q, q2
    <2>4. Passed(q2) = Passed(q) /\ ~Full(q2)
      BY <2>1, <2>3 DEF Passed, Position, Full
    <2>5. RunOk(q2, events, indexed, passedOver)
      BY <2>2, <2>3, <2>4 DEF RunOk
    <2> QED BY <2>1, <2>3, <2>5, FinishOk
  \* The event at the head of the page is the next one of the chain, and the run that has
  \* dealt with it stands one further.
  <1>9. ASSUME NEW r \in Rebuilders, InPage(r), NEW q2 \in Runs,
               q2.at = "page", q2.base = rebuild[r].base, q2.cursor = rebuild[r].cursor,
               q2.page = Tail(rebuild[r].page), q2.next = rebuild[r].next
        PROVE  /\ Current(r) = Passed(rebuild[r]) + 1 /\ Current(r) \in 1..Len(events)
               /\ Passed(q2) = Current(r)
               /\ q2.next \in 1..Len(events) /\ Len(q2.page) =< q2.next
               /\ \A i \in 1..Len(q2.page) : q2.page[i] = q2.next - Len(q2.page) + i
    <2> DEFINE q == rebuild[r]
    <2> DEFINE pg == q.page
    <2>1. q.at = "page" /\ pg # <<>>
      BY <1>9 DEF InPage
    <2>2. q \in Runs /\ RunOk(q, events, indexed, passedOver)
      BY <1>3, <1>4, <2>1
    <2>3. /\ pg \in Seq(Nat) /\ q.next \in 1..Len(events) /\ Len(pg) =< q.next /\ q.next \in Nat
          /\ \A i \in 1..Len(pg) : pg[i] = q.next - Len(pg) + i
      BY <2>1, <2>2 DEF RunOk, Runs
    <2>4. Len(pg) \in Nat /\ Len(pg) > 0 /\ Current(r) = pg[1]
      BY <2>1, <2>3 DEF Current
    <2>5. Passed(q) = q.next - Len(pg) /\ Passed(q2) = q2.next - Len(q2.page)
      BY <1>9, <2>1 DEF Passed
    <2>6. Len(q2.page) = Len(pg) - 1 /\ \A i \in 1..Len(q2.page) : q2.page[i] = pg[i + 1]
      <3>1. q2.page = Tail(pg)
        BY <1>9
      <3> HIDE DEF pg
      <3> QED BY <2>3, <2>4, <3>1
    <2> HIDE DEF q
    <2>7. q2.next = q.next
      BY <1>9 DEF q
    <2>8. Current(r) = Passed(q) + 1 /\ Current(r) \in 1..Len(events) /\ Passed(q2) = Current(r)
      <3>1. pg[1] = q.next - Len(pg) + 1
        BY <2>3, <2>4
      <3>2. Len(q2.page) = Len(pg) - 1
        BY <2>6
      <3> DEFINE k == Len(pg)
                 n == q.next
      <3>3. k \in Nat /\ k > 0 /\ n \in 1..Len(events) /\ k =< n /\ Current(r) = n - k + 1
            /\ Passed(q) = n - k /\ Passed(q2) = n - (k - 1)
        BY <2>3, <2>4, <2>5, <2>7, <3>1, <3>2
      <3> HIDE DEF k, n
      <3> QED BY <1>0, <3>3
    <2>9. \A i \in 1..Len(q2.page) : q2.page[i] = q2.next - Len(q2.page) + i
      <3> TAKE i \in 1..Len(q2.page)
      <3>1. i + 1 \in 1..Len(pg)
        BY <2>4, <2>6
      <3>2. pg[i + 1] = q.next - Len(pg) + (i + 1)
        BY <2>3, <3>1
      <3>3. q2.page[i] = pg[i + 1] /\ i \in Int
        BY <2>4, <2>6
      <3>4. q2.next - Len(q2.page) + i = q.next - (Len(pg) - 1) + i
        BY <2>6, <2>7
      <3> HIDE DEF pg
      <3>5. \A a, b, c \in Int : a - (b - 1) + c = a - b + (c + 1)
        OBVIOUS
      <3>6. q.next \in Int /\ Len(pg) \in Int
        BY <2>3, <2>4
      <3> QED BY <3>2, <3>3, <3>4, <3>5, <3>6
    <2>10. q2.next \in 1..Len(events) /\ Len(q2.page) =< q2.next
      BY <2>3, <2>4, <2>6, <2>7
    <2> QED BY <2>8, <2>9, <2>10 DEF q
  <1>10. ASSUME NEW n \in Nat, n < Len(events), NEW S, NEW T, GoodIn(events, n, S), S \subseteq T,
                events[n + 1].good => events[n + 1].att \in T
         PROVE  GoodIn(events, n + 1, T)
    BY <1>0, <1>10 DEF GoodIn
  <1>11. \A i \in 1..Len(events) :
           events[i].good => events[i].att \in ChainAtts /\ events[i] = GoodEvent(events[i].att)
    <2> SUFFICES ASSUME NEW i \in 1..Len(events), events[i].good
                 PROVE  events[i].att \in ChainAtts /\ events[i] = GoodEvent(events[i].att)
      OBVIOUS
    <2>1. events[i] \in ChainEvents
      BY <1>0 DEF RebuildInv
    <2>2. events[i] # BadEvent
      BY DEF BadEvent
    <2>3. PICK a \in ChainAtts : events[i] = GoodEvent(a)
      BY <2>1, <2>2 DEF ChainEvents
    <2>4. events[i].att = a
      BY <2>3 DEF GoodEvent
    <2> QED BY <2>3, <2>4
  <1>12. ASSUME NEW r \in Rebuilders, SkipEvent(r) PROVE RebuildInv'
    <2> DEFINE q == rebuild[r]
    <2> DEFINE q2 == [q EXCEPT !.page = Tail(q.page)]
    <2> DEFINE i == Current(r)
    <2> DEFINE att == events[i].att
    <2>1. /\ InPage(r) /\ ~Writes(r)
          /\ rebuild' = [rebuild EXCEPT ![r] = q2]
          /\ passedOver' = IF events[i].good /\ Unseen(r) THEN passedOver \cup {att} ELSE passedOver
          /\ UNCHANGED <<events, indexed, checkpoint, promised>>
      BY <1>12 DEF SkipEvent, parseEventFromResponse, RebuildInv
    <2>2. q \in Runs /\ RunOk(q, events, indexed, passedOver) /\ q.at = "page" /\ q.page # <<>>
      BY <1>3, <1>4, <2>1 DEF InPage
    <2>3. /\ q2 \in Runs /\ q2.at = "page" /\ q2.base = q.base /\ q2.cursor = q.cursor
          /\ q2.page = Tail(q.page) /\ q2.next = q.next /\ q2.seen = q.seen
          /\ q2.failed = q.failed /\ q2.opts = q.opts
      <3>1. q.page \in Seq(Nat)
        BY <2>2 DEF Runs
      <3>2. Tail(q.page) \in Seq(Nat)
        BY <2>2, <3>1
      <3> DEFINE t == Tail(q.page)
      <3> HIDE DEF t
      <3>3. q2 = [q EXCEPT !.page = t]
        BY DEF t
      <3>4. t \in Seq(Nat)
        BY <3>2 DEF t
      <3> HIDE DEF q2
      <3>5. /\ q2 \in Runs /\ q2.at = "page" /\ q2.base = q.base /\ q2.cursor = q.cursor
            /\ q2.page = t /\ q2.next = q.next /\ q2.seen = q.seen
            /\ q2.failed = q.failed /\ q2.opts = q.opts
        BY <2>2, <3>3, <3>4 DEF Runs
      <3> QED BY <3>5 DEF t
    <2>4. /\ i = Passed(q) + 1 /\ i \in 1..Len(events) /\ Passed(q2) = i
          /\ q2.next \in 1..Len(events) /\ Len(q2.page) =< q2.next
          /\ \A j \in 1..Len(q2.page) : q2.page[j] = q2.next - Len(q2.page) + j
      BY <1>9, <2>1, <2>3
    <2>5. Passed(q) \in Nat /\ Passed(q) < Len(events)
      BY <1>0, <2>2, <2>4, PassedInChain DEF RebuildInv
    <2>6. passedOver \subseteq passedOver' /\ passedOver' \subseteq ChainAtts
      BY <1>11, <2>1, <2>4 DEF RebuildInv
    <2>7. Unseen(r) <=> att \notin q.seen
      BY DEF Unseen
    <2>8. events[i].good => att \in Rows(indexed) \cup passedOver'
      BY <2>1, <2>2, <2>7 DEF RunOk
    <2>9. Full(q) /\ events[i].good => att \in Rows(indexed)
      BY <2>1, <2>2, <2>7 DEF RunOk, Full, Writes, shouldProcessEvent, parseEventFromResponse
    <2> HIDE DEF q2, q, i
    <2>10. GoodIn(events, i, Rows(indexed) \cup passedOver')
      BY <1>10, <2>2, <2>4, <2>5, <2>6, <2>8 DEF RunOk
    <2>11. Full(q) => GoodIn(events, i, Rows(indexed))
      BY <1>10, <2>2, <2>4, <2>5, <2>9 DEF RunOk
    <2>12. Full(q2) <=> Full(q)
      BY <2>3 DEF Full
    <2>13. RunOk(q2, events, indexed, passedOver')
      BY <2>2, <2>3, <2>4, <2>6, <2>10, <2>11, <2>12 DEF RunOk
    <2> QED BY <1>5, <2>1, <2>6, <2>13, QuietRun
  <1>13. ASSUME NEW r \in Rebuilders, upsertAttestation(r) PROVE RebuildInv'
    <2> DEFINE q == rebuild[r]
    <2> DEFINE i == Current(r)
    <2> DEFINE att == events[i].att
    <2> DEFINE dry == q.opts.dryRun
    <2> DEFINE t == Tail(q.page)
    <2> DEFINE seen2 == q.seen \cup {att}
    <2>1. PICK ok \in BOOLEAN :
            /\ InPage(r) /\ Writes(r) /\ (dry => ok)
            /\ rebuild' = [rebuild EXCEPT ![r].page = Tail(@), ![r].seen = @ \cup {att},
                                          ![r].failed = @ \/ ~ok]
            /\ indexed' = IF ok /\ ~dry THEN [indexed EXCEPT ![att] = i] ELSE indexed
            /\ passedOver' = IF ok /\ ~dry THEN passedOver ELSE passedOver \cup {att}
            /\ UNCHANGED <<events, checkpoint, promised>>
      BY <1>13 DEF upsertAttestation
    <2> DEFINE f2 == (q.failed \/ ~ok)
    <2> DEFINE q2 == [q EXCEPT !.page = t, !.seen = seen2, !.failed = f2]
    <2>2. q \in Runs /\ RunOk(q, events, indexed, passedOver) /\ q.at = "page" /\ q.page # <<>>
      BY <1>3, <1>4, <2>1 DEF InPage
    <2>3. rebuild' = [rebuild EXCEPT ![r] = q2]
      BY <2>1 DEF RebuildInv
    <2>4. q.page \in Seq(Nat) /\ q.seen \subseteq ChainAtts
      BY <2>2 DEF Runs
    <2>5. t \in Seq(Nat)
      BY <2>2, <2>4
    <2>6. f2 \in BOOLEAN /\ (~f2 <=> ~q.failed /\ ok)
      OBVIOUS
    <2>7. events[i].good
      BY <2>1 DEF Writes, parseEventFromResponse
    <2>8. i \in 1..Len(events)
      <3>1. /\ q.next \in 1..Len(events) /\ Len(q.page) =< q.next /\ q.next \in Nat
            /\ \A j \in 1..Len(q.page) : q.page[j] = q.next - Len(q.page) + j
        BY <2>2 DEF RunOk, Runs
      <3>2. Len(q.page) \in Nat /\ Len(q.page) > 0 /\ i = q.page[1]
        BY <2>2, <2>4 DEF Current
      <3>3. i = q.next - Len(q.page) + 1
        BY <3>1, <3>2
      <3> HIDE DEF i
      <3> QED BY <3>1, <3>2, <3>3
    <2>9. att \in ChainAtts /\ events[i] = GoodEvent(att)
      BY <1>11, <2>7, <2>8
    <2> HIDE DEF t, f2, seen2, att, i
    <2>10. seen2 \subseteq ChainAtts
      BY <2>4, <2>9 DEF seen2
    <2>11. /\ q2 \in Runs /\ q2.at = "page" /\ q2.base = q.base /\ q2.cursor = q.cursor
           /\ q2.page = t /\ q2.next = q.next /\ q2.seen = seen2
           /\ q2.failed = f2 /\ q2.opts = q.opts
      BY <2>2, <2>5, <2>6, <2>10 DEF Runs
    <2> HIDE DEF q2
    <2>12. /\ i = Passed(q) + 1 /\ Passed(q2) = i
           /\ q2.next \in 1..Len(events) /\ Len(q2.page) =< q2.next
           /\ \A j \in 1..Len(q2.page) : q2.page[j] = q2.next - Len(q2.page) + j
      BY <1>9, <2>1, <2>11 DEF i, t
    <2>13. Passed(q) \in Nat /\ Passed(q) < Len(events)
      BY <1>0, <2>2, <2>8, <2>12, PassedInChain DEF RebuildInv
    <2>14. /\ indexed' \in [ChainAtts -> Nat]
           /\ \A a \in ChainAtts :
                indexed'[a] # 0 => indexed'[a] \in 1..Len(events) /\ events[indexed'[a]] = GoodEvent(a)
      BY <2>1, <2>8, <2>9 DEF RebuildInv
    <2>15. Rows(indexed) \subseteq Rows(indexed') /\ passedOver \subseteq passedOver'
           /\ passedOver' \subseteq ChainAtts
      BY <2>1, <2>8, <2>9 DEF RebuildInv, Rows
    <2>16. att \in Rows(indexed') \cup passedOver' /\ (Full(q2) => att \in Rows(indexed'))
      BY <2>1, <2>6, <2>8, <2>9, <2>11 DEF Rows, RebuildInv, Full
    <2>17. Full(q2) => Full(q)
      BY <2>6, <2>11 DEF Full
    <2> HIDE DEF q
    <2>18. GoodIn(events, i, Rows(indexed') \cup passedOver')
      BY <1>10, <2>2, <2>12, <2>13, <2>15, <2>16 DEF RunOk, att
    <2>19. Full(q2) => GoodIn(events, i, Rows(indexed'))
      BY <1>10, <2>2, <2>12, <2>13, <2>15, <2>16, <2>17 DEF RunOk, att
    <2>20. /\ seen2 \subseteq Rows(indexed') \cup passedOver'
           /\ Full(q2) => seen2 \subseteq Rows(indexed')
      BY <2>2, <2>15, <2>16, <2>17 DEF RunOk, seen2
    <2>21. RunOk(q2, events, indexed', passedOver')
      BY <2>2, <2>11, <2>12, <2>18, <2>19, <2>20 DEF RunOk
    <2>22. Grows(events, events', indexed, indexed', passedOver, passedOver')
      <3>1. events' = events /\ events \in Seq(ChainEvents)
        BY <2>1 DEF RebuildInv
      <3> QED BY <1>0, <2>15, <3>1 DEF Grows
    <2>23. /\ checkpoint' \in 0..Len(events') /\ promised' \in 0..Len(events')
           /\ GoodIn(events', promised', Rows(indexed'))
           /\ GoodIn(events', checkpoint', Rows(indexed') \cup passedOver')
      BY <1>5, <2>1, <2>22, MarksHold
    <2>24. RunOk(q2, events', indexed', passedOver')
      BY <2>1, <2>21
    <2>25. /\ rebuild' \in [Rebuilders -> Runs \cup {NotRunning}]
           /\ \A s \in Rebuilders :
                rebuild'[s] # NotRunning => RunOk(rebuild'[s], events', indexed', passedOver')
      BY <2>3, <2>22, <2>24, OneRun
    <2>26. events' \in Seq(ChainEvents) /\ events' = events
      BY <2>1 DEF RebuildInv
    <2> QED BY <2>14, <2>15, <2>23, <2>25, <2>26 DEF RebuildInv
  <1>14. ASSUME NEW r \in Rebuilders, PageDone(r) PROVE RebuildInv'
    <2> DEFINE q == rebuild[r]
    <2> DEFINE q2 == [q EXCEPT !.cursor = q.next, !.at = "fetch"]
    <2>1. /\ q.at = "page" /\ q.page = <<>>
          /\ UNCHANGED <<events, indexed, passedOver>>
      BY <1>14 DEF PageDone
    <2>2. \/ /\ rebuild' = [rebuild EXCEPT ![r] = q2] /\ saveCheckpoint(q2.opts, q2.cursor)
             /\ UNCHANGED promised
          \/ FinishRebuild(r, q2)
      BY <1>14 DEF PageDone
    <2>3. q \in Runs /\ RunOk(q, events, indexed, passedOver)
      BY <1>3, <1>4, <2>1
    <2>4. /\ q2 \in Runs /\ q2.at = "fetch" /\ q2.base = q.base /\ q2.cursor = q.next
          /\ q2.seen = q.seen /\ q2.failed = q.failed /\ q2.opts = q.opts
      BY <2>3 DEF Runs
    <2> HIDE DEF q2, q
    <2>5. q.next \in 1..Len(events) /\ Len(q.page) = 0
      BY <2>1, <2>3 DEF RunOk
    <2>6. Passed(q2) = q.next /\ Passed(q) = q.next /\ (Full(q2) <=> Full(q))
      BY <1>0, <2>1, <2>4, <2>5 DEF Passed, Position, Full
    <2>7. RunOk(q2, events, indexed, passedOver)
      BY <1>0, <2>3, <2>4, <2>5, <2>6 DEF RunOk
    <2>8. CASE FinishRebuild(r, q2)
      BY <2>1, <2>4, <2>7, <2>8, FinishOk
    <2>9. CASE /\ rebuild' = [rebuild EXCEPT ![r] = q2] /\ saveCheckpoint(q2.opts, q2.cursor)
               /\ UNCHANGED promised
      <3>1. checkpoint' \in 0..Len(events) /\ GoodIn(events, checkpoint', Rows(indexed) \cup passedOver)
        <4>1. GoodIn(events, q2.cursor, Rows(indexed) \cup passedOver) /\ q2.cursor \in 0..Len(events)
          BY <1>0, <2>4, <2>5, <2>6, <2>7 DEF RunOk
        <4>2. checkpoint' = q2.cursor \/ checkpoint' = checkpoint
          BY <2>9 DEF saveCheckpoint
        <4>3. checkpoint \in 0..Len(events) /\ GoodIn(events, checkpoint, Rows(indexed) \cup passedOver)
          BY DEF RebuildInv
        <4> QED BY <4>1, <4>2, <4>3
      <3> QED BY <2>1, <2>7, <2>9, <3>1, QuietRun DEF RebuildInv
    <2> QED BY <2>2, <2>8, <2>9
  <1>15. ASSUME NEW r \in Rebuilders, KillRebuild(r) PROVE RebuildInv'
    <2>1. /\ rebuild' = [rebuild EXCEPT ![r] = NotRunning] /\ checkpoint' \in {checkpoint, 0}
          /\ UNCHANGED <<events, indexed, passedOver, promised>>
      BY <1>15 DEF KillRebuild
    <2>2. checkpoint' \in 0..Len(events) /\ GoodIn(events, checkpoint', Rows(indexed) \cup passedOver)
      BY <1>0, <2>1 DEF RebuildInv, GoodIn
    <2> QED BY <2>1, <2>2, QuietRun DEF RebuildInv
  <1>16. CASE UNCHANGED riVars
    BY <1>16 DEF riVars, RebuildInv
  <1> QED
    BY <1>1, <1>2, <1>6, <1>7, <1>8, <1>12, <1>13, <1>14, <1>15, <1>16
       DEF RiNext, processEvents, ChainEvents

\* Through kills, torn checkpoints, failing writes and runs that overlap, a row was written
\* from a good event of its own attestation, a full run without error has left a row for
\* every attestation, and the checkpoint is not ahead of the table.
THEOREM RebuildsAreSound == RiSpec => []RebuildSound
  <1>1. RebuildInv => RebuildSound
    <2> SUFFICES ASSUME RebuildInv PROVE RebuildSound
      OBVIOUS
    <2>1. \A a \in GoodAtts(1..promised) : indexed[a] # 0
      BY DEF RebuildInv, GoodIn, GoodAtts, parseEventFromResponse, Rows
    <2>2. \A a \in GoodAtts(1..checkpoint) : indexed[a] # 0 \/ a \in passedOver
      BY DEF RebuildInv, GoodIn, GoodAtts, parseEventFromResponse, Rows
    <2>3. \A a \in ChainAtts : indexed[a] # 0 => events[indexed[a]] = GoodEvent(a)
      BY DEF RebuildInv
    <2> QED BY <2>1, <2>2, <2>3 DEF RebuildSound
  <1> QED BY RebuildInit, RebuildStep, <1>1, PTL DEF RiSpec

-----------------------------------------------------------------------------
(***************************************************************************)
(* AttestationRecords, for any number of rows, requests and batches:       *)
(* revocations hold.                                                       *)
(***************************************************************************)

RowSet == [status : Statuses \cup {"absent", "removed"}, version : 0..MaxVersion]

RecTypes ==
  /\ row \in [RecIds -> RowSet]
  /\ lock \in [RecIds -> Batches \cup {NoBatch}]
  /\ chain \in [RecIds -> {"none", "attested", "revoked"}]
  /\ req \in [RecRequests -> [kind : {"none", "create", "revoke", "strong", "edit"},
                              id : RecIds \cup {"none"}, seen : RowSet]]
  /\ \A q \in RecRequests : req[q].kind # "none" => req[q].id \in RecIds
  /\ batches \in [Batches -> [pc : {"begin", "read", "update", "sent", "commit", "ok", "failed"},
                            done : Nat, wrote : SUBSET RecIds]]

\* A version names one content of a row: a caller whose version still matches was shown the
\* row as it is.
VersionsTell ==
  \A q \in RecRequests : req[q].kind = "edit" =>
    LET r == row[req[q].id] IN
    \/ r.status = "removed"
    \/ /\ r.status \in Statuses /\ req[q].seen.version =< r.version
       /\ req[q].seen.version = r.version /\ r.version < MaxVersion => req[q].seen = r

\* What a batch has done by the time it is where it is.
BatchDone(b) ==
  LET q == batches[b] IN
  /\ q.done =< Len(BatchIds[b])
  /\ q.pc = "update" => q.done < Len(BatchIds[b])
  /\ q.pc \in {"sent", "commit", "ok"} => q.done = Len(BatchIds[b])
  /\ \A k \in 1..q.done : <<b, BatchIds[b][k]>> \in audited
  /\ Signer /\ q.pc \in {"commit", "ok"} =>
       \A k \in 1..Len(BatchIds[b]) : chain[BatchIds[b][k]] = "revoked"

LocksHold ==
  \A id \in RecIds : lock[id] # NoBatch =>
    /\ batches[lock[id]].pc \in {"read", "update", "sent", "commit"}
    /\ Exists(id)
    /\ id \in batches[lock[id]].wrote

RecordsInv ==
  /\ RecTypes
  /\ VersionsTell
  /\ \A b \in Batches : BatchDone(b)
  /\ LocksHold

LEMMA RecordsInit == RecInit => RecordsInv
  <1> SUFFICES ASSUME RecInit PROVE RecordsInv
    OBVIOUS
  <1>1. RecTypes
    BY RecordsAssumption DEF RecInit, RecTypes, RowSet, Absent, FreeReq, NewBatch
  <1>2. VersionsTell /\ LocksHold
    BY DEF RecInit, VersionsTell, FreeReq, LocksHold
  <1>3. \A b \in Batches : BatchDone(b)
    BY RecordsAssumption DEF RecInit, BatchDone, NewBatch
  <1> QED BY <1>1, <1>2, <1>3 DEF RecordsInv

\* The statements write one row, which exists and no batch has locked.
RowStep(id) ==
  /\ id \in RecIds
  /\ \/ UNCHANGED row
     \/ \E x \in RowSet :
          /\ row' = [row EXCEPT ![id] = x]
          /\ lock[id] = NoBatch
          /\ \/ row[id] = Absent /\ x.status \in Statuses
             \/ Exists(id) /\ x = Removed
             \/ /\ Exists(id) /\ row[id].version < MaxVersion
                /\ x.status \in Statuses /\ x.version = row[id].version + 1

\* What RevocationSticks says of one step.
StaysRevoked ==
  \A id \in RecIds :
    row[id].status = "revoked" /\ row'[id].status \in Statuses \ {"revoked"}
    => \E q \in RecRequests :
          /\ req[q].id = id
          /\ \/ req[q].kind = "strong" /\ req[q].seen.status \in {"pending", "submitted"}
             \/ req[q].kind = "edit" /\ req[q].seen = row[id]

\* Requests come and go; a new one is shown the row as it is.
ReqStep ==
  \/ UNCHANGED req
  \/ \E q \in RecRequests : req' = [req EXCEPT ![q] = FreeReq]
  \/ /\ UNCHANGED row
     /\ \E q \in RecRequests, id \in RecIds, kind \in {"create", "revoke", "strong", "edit"} :
          /\ req' = [req EXCEPT ![q] = [kind |-> kind, id |-> id, seen |-> row[id]]]
          /\ kind = "edit" => Exists(id)

\* A statement of a request, whatever the chain learns with it, keeps the invariant.
LEMMA RequestKeeps ==
  ASSUME RecordsInv, NEW id, RowStep(id), ReqStep, UNCHANGED <<lock, audited, batches>>,
         chain' \in [RecIds -> {"none", "attested", "revoked"}],
         \A i \in RecIds : chain[i] = "revoked" => chain'[i] = "revoked"
  PROVE  RecordsInv'
  <1>1. row' \in [RecIds -> RowSet]
    BY DEF RowStep, RecordsInv, RecTypes
  <1>2. \A i \in RecIds : row'[i] = row[i]
          \/ /\ lock[i] = NoBatch /\ row'[i] \in RowSet
             /\ \/ row[i] = Absent /\ row'[i].status \in Statuses
                \/ row'[i] = Removed
                \/ Exists(i) /\ row'[i].status \in Statuses /\ row'[i].version = row[i].version + 1
    BY DEF RowStep, RecordsInv, RecTypes
  <1>3. /\ req' \in [RecRequests -> [kind : {"none", "create", "revoke", "strong", "edit"},
                                     id : RecIds \cup {"none"}, seen : RowSet]]
        /\ \A q \in RecRequests : req'[q].kind # "none" => req'[q].id \in RecIds
    <2> DEFINE ReqTypes ==
          /\ req' \in [RecRequests -> [kind : {"none", "create", "revoke", "strong", "edit"},
                                       id : RecIds \cup {"none"}, seen : RowSet]]
          /\ \A q \in RecRequests : req'[q].kind # "none" => req'[q].id \in RecIds
    <2>1. CASE UNCHANGED req
      BY <2>1 DEF RecordsInv, RecTypes
    <2>2. ASSUME NEW q \in RecRequests, req' = [req EXCEPT ![q] = FreeReq]
          PROVE  ReqTypes
      <3>1. FreeReq \in [kind : {"none", "create", "revoke", "strong", "edit"},
                         id : RecIds \cup {"none"}, seen : RowSet]
        BY RecordsAssumption DEF FreeReq, RowSet, Absent
      <3>2. FreeReq.kind = "none"
        BY DEF FreeReq
      <3> QED BY <2>2, <3>1, <3>2 DEF RecordsInv, RecTypes
    <2>3. ASSUME NEW q \in RecRequests, NEW i \in RecIds,
                 NEW kind \in {"create", "revoke", "strong", "edit"},
                 req' = [req EXCEPT ![q] = [kind |-> kind, id |-> i, seen |-> row[i]]]
          PROVE  ReqTypes
      <3>1. row[i] \in RowSet
        BY DEF RecordsInv, RecTypes
      <3> QED BY <2>3, <3>1 DEF RecordsInv, RecTypes
    <2> QED BY <2>1, <2>2, <2>3 DEF ReqStep
  <1>4. RecTypes'
    BY <1>1, <1>3 DEF RecordsInv, RecTypes
  <1>5. VersionsTell'
    <2> SUFFICES ASSUME NEW q \in RecRequests, req'[q].kind = "edit"
                 PROVE  LET r == row'[req'[q].id] IN
                        \/ r.status = "removed"
                        \/ /\ r.status \in Statuses /\ req'[q].seen.version =< r.version
                           /\ req'[q].seen.version = r.version /\ r.version < MaxVersion
                              => req'[q].seen = r
      BY DEF VersionsTell
    <2>1. req'[q].id \in RecIds
      BY <1>3
    <2>2. CASE req'[q] = req[q]
      <3> DEFINE i == req[q].id
      <3> DEFINE s == req[q].seen
      <3>1. /\ i \in RecIds /\ s \in RowSet /\ row[i] \in RowSet /\ row'[i] \in RowSet
            /\ \/ row[i].status = "removed"
               \/ /\ row[i].status \in Statuses /\ s.version =< row[i].version
                  /\ s.version = row[i].version /\ row[i].version < MaxVersion => s = row[i]
        BY <1>1, <2>1, <2>2 DEF RecordsInv, RecTypes, VersionsTell
      <3>2. s.version \in Nat /\ row[i].version \in Nat /\ row'[i].version \in Nat
        BY <3>1, RecordsAssumption DEF RowSet
      <3>3. row'[i] = row[i] \/ row'[i].status = "removed"
            \/ (row[i].status \in Statuses /\ row'[i].status \in Statuses
                /\ row'[i].version = row[i].version + 1)
        <4>1. row[i] # Absent
          BY <3>1 DEF Absent, Statuses
        <4> QED BY <1>2, <3>1, <4>1 DEF Removed, Exists
      <3>4. row[i].status = "removed" => row'[i] = row[i] \/ row'[i].status = "removed"
        BY <3>3 DEF Statuses
      <3> HIDE DEF i, s
      <3>5. \/ row'[i].status = "removed"
            \/ /\ row'[i].status \in Statuses /\ s.version =< row'[i].version
               /\ s.version = row'[i].version /\ row'[i].version < MaxVersion => s = row'[i]
        BY <3>1, <3>2, <3>3, <3>4
      <3> QED BY <2>2, <3>5 DEF i, s
    <2>3. CASE req'[q] # req[q]
      <3>1. PICK p \in RecRequests, i \in RecIds, kind \in {"create", "revoke", "strong", "edit"} :
              /\ req' = [req EXCEPT ![p] = [kind |-> kind, id |-> i, seen |-> row[i]]]
              /\ kind = "edit" => Exists(i)
              /\ UNCHANGED row
        BY <2>3 DEF ReqStep, FreeReq, RecordsInv, RecTypes
      <3>2. p = q /\ req'[q] = [kind |-> kind, id |-> i, seen |-> row[i]]
        BY <2>3, <3>1 DEF RecordsInv, RecTypes
      <3>3. row[i].version \in Nat
        BY RecordsAssumption DEF RecordsInv, RecTypes, RowSet
      <3> QED BY <3>1, <3>2, <3>3 DEF Exists
    <2> QED BY <2>2, <2>3
  <1>6. \A b \in Batches : BatchDone(b)'
    <2> TAKE b \in Batches
    <2>1. \A k \in 1..Len(BatchIds[b]) : BatchIds[b][k] \in RecIds
      BY RecordsAssumption
    <2> QED BY <2>1 DEF RecordsInv, BatchDone
  <1>7. LocksHold'
    BY <1>2 DEF RecordsInv, LocksHold, Exists
  <1> QED BY <1>4, <1>5, <1>6, <1>7 DEF RecordsInv

\* No request brings a revoked row back: enough for the steps that touch no row, or only
\* write it as revoked.
LEMMA NoRevival ==
  ASSUME RecordsInv, \A i \in RecIds : row'[i] = row[i] \/ row'[i].status \in {"revoked", "removed"}
                                       \/ row[i].status # "revoked"
  PROVE  StaysRevoked
  BY DEF StaysRevoked, Statuses

\* Every step keeps it, and every step keeps what is revoked revoked.
LEMMA RecordsStep == RecordsInv /\ [RecNext]_recVars => RecordsInv' /\ StaysRevoked
  <1> SUFFICES ASSUME RecordsInv, [RecNext]_recVars PROVE RecordsInv' /\ StaysRevoked
    OBVIOUS
  <1>0. /\ \A i \in RecIds : row[i] \in RowSet /\ row[i].version \in 0..MaxVersion
        /\ \A i \in RecIds : lock[i] # NoBatch => Exists(i)
        /\ Absent \in RowSet /\ Removed \in RowSet /\ MaxVersion \in Nat \ {0}
        /\ \A i \in RecIds : Exists(i) => row[i] # Absent
        /\ chain \in [RecIds -> {"none", "attested", "revoked"}]
    BY RecordsAssumption DEF RecordsInv, RecTypes, RowSet, LocksHold, Absent, Removed, Exists, Statuses
  <1>1. ASSUME NEW id \in RecIds, NEW status \in Statuses, create(id, status)
        PROVE  RowStep(id) /\ StaysRevoked
    <2> DEFINE x == [status |-> status, version |-> 1]
    <2>1. x \in RowSet /\ x.status \in Statuses
      BY <1>0 DEF RowSet
    <2>2. row[id] = Absent /\ row' = [row EXCEPT ![id] = x]
      BY <1>1 DEF create
    <2>3. lock[id] = NoBatch
      BY <1>0, <2>2
    <2>4. row[id].status # "revoked"
      BY <2>2 DEF Absent
    <2> HIDE DEF x
    <2>5. StaysRevoked
      BY <2>2, <2>4, NoRevival DEF RecordsInv, RecTypes
    <2> QED BY <2>1, <2>2, <2>3, <2>5 DEF RowStep
  <1>2. ASSUME NEW id \in RecIds, NEW status \in Statuses, Exists(id), Writable(id),
               Written(id, status)
        PROVE  /\ RowStep(id) /\ (status = "revoked" => StaysRevoked)
               /\ \A i \in RecIds : i # id => row'[i] = row[i]
    <2> DEFINE x == [status |-> status, version |-> row[id].version + 1]
    <2>1. x \in RowSet /\ x.status = status /\ x.version = row[id].version + 1
      BY <1>0, <1>2 DEF RowSet, Writable
    <2>2. row' = [row EXCEPT ![id] = x]
      BY <1>2 DEF Written
    <2> HIDE DEF x
    <2>3. RowStep(id)
      BY <1>2, <2>1, <2>2 DEF RowStep, Writable
    <2>4. status = "revoked" => StaysRevoked
      BY <2>1, <2>2, NoRevival DEF RecordsInv, RecTypes
    <2> QED BY <2>2, <2>3, <2>4 DEF RecordsInv, RecTypes
  <1>3. UNCHANGED row => StaysRevoked
    BY NoRevival
  <1>4. ASSUME NEW id \in RecIds, Save(id) PROVE RecordsInv' /\ StaysRevoked
    <2>1. create(id, "submitted") /\ UNCHANGED <<lock, audited, req, batches>>
      BY <1>4 DEF Save
    <2>2. RowStep(id) /\ StaysRevoked
      BY <1>1, <2>1 DEF Statuses
    <2>3. /\ chain' \in [RecIds -> {"none", "attested", "revoked"}]
          /\ \A i \in RecIds : chain[i] = "revoked" => chain'[i] = "revoked"
      BY <1>0, <1>4 DEF Save
    <2> QED BY <2>1, <2>2, <2>3, RequestKeeps DEF ReqStep
  <1>5. ASSUME NEW id \in RecIds, remove(id) PROVE RecordsInv' /\ StaysRevoked
    <2>1. /\ Exists(id) /\ lock[id] = NoBatch /\ row' = [row EXCEPT ![id] = Removed]
          /\ UNCHANGED <<lock, chain, audited, req, batches>>
      BY <1>5 DEF remove
    <2>2. RowStep(id)
      BY <1>0, <2>1 DEF RowStep
    <2>3. StaysRevoked
      BY <2>1, NoRevival DEF Removed, RecordsInv, RecTypes
    <2> QED BY <1>0, <2>1, <2>2, <2>3, RequestKeeps DEF ReqStep
  <1>6. ASSUME NEW q \in RecRequests, NEW id \in RecIds,
               BeginCreate(q, id) \/ BeginRevoke(q, id) \/ BeginStrongRead(q, id) \/ BeginEdit(q, id)
        PROVE  RecordsInv' /\ StaysRevoked
    <2>1. UNCHANGED <<row, lock, chain, audited, batches>>
      BY <1>6 DEF BeginCreate, BeginRevoke, BeginStrongRead, BeginEdit
    <2>2. PICK kind \in {"create", "revoke", "strong", "edit"} :
            Take(q, kind, id) /\ (kind = "edit" => Exists(id))
      BY <1>6 DEF BeginCreate, BeginRevoke, BeginStrongRead, BeginEdit
    <2>3. ReqStep
      BY <2>1, <2>2 DEF ReqStep, Take
    <2>4. RowStep(id)
      BY <2>1 DEF RowStep
    <2> QED BY <1>0, <1>3, <2>1, <2>3, <2>4, RequestKeeps
  <1>7. ASSUME NEW q \in RecRequests, Finish(q) PROVE ReqStep
    BY <1>7 DEF Finish, ReqStep
  <1>8. ASSUME NEW q \in RecRequests, req[q].kind # "none" PROVE req[q].id \in RecIds
    BY <1>8 DEF RecordsInv, RecTypes
  <1>9. ASSUME NEW q \in RecRequests, FinishCreate(q) PROVE RecordsInv' /\ StaysRevoked
    <2> DEFINE id == req[q].id
    <2>1. /\ id \in RecIds /\ Finish(q) /\ (UNCHANGED row \/ create(id, "pending"))
          /\ UNCHANGED <<lock, chain, audited, batches>>
      BY <1>8, <1>9 DEF FinishCreate, At
    <2> HIDE DEF id
    <2>2. RowStep(id) /\ StaysRevoked
      BY <1>1, <1>3, <2>1 DEF Statuses, RowStep
    <2> QED BY <1>0, <1>7, <2>1, <2>2, RequestKeeps
  <1>10. ASSUME NEW q \in RecRequests, FinishRevoke(q) PROVE RecordsInv' /\ StaysRevoked
    <2> DEFINE id == req[q].id
    <2>1. /\ id \in RecIds /\ Finish(q)
          /\ UNCHANGED row \/ (Exists(id) /\ Writable(id) /\ Written(id, "revoked"))
          /\ UNCHANGED <<lock, chain, audited, batches>>
      BY <1>8, <1>10 DEF FinishRevoke, At
    <2> HIDE DEF id
    <2>2. RowStep(id) /\ StaysRevoked
      BY <1>2, <1>3, <2>1 DEF Statuses, RowStep
    <2> QED BY <1>0, <1>7, <2>1, <2>2, RequestKeeps
  <1>11. ASSUME NEW q \in RecRequests, FinishStrongRead(q) PROVE RecordsInv' /\ StaysRevoked
    <2> DEFINE id == req[q].id
    <2>1. /\ id \in RecIds /\ Finish(q) /\ req[q].kind = "strong"
          /\ UNCHANGED row \/ (Lagging(req[q].seen) /\ Exists(id) /\ Writable(id) /\ Written(id, "confirmed"))
          /\ UNCHANGED <<lock, chain, audited, batches>>
      BY <1>8, <1>11 DEF FinishStrongRead, At
    <2>2. RowStep(id)
      BY <1>2, <2>1 DEF Statuses, RowStep
    <2>3. ASSUME Lagging(req[q].seen), Exists(id), Writable(id), Written(id, "confirmed")
          PROVE  StaysRevoked
      <3>1. \A i \in RecIds : i # id => row'[i] = row[i]
        BY <1>2, <2>1, <2>3 DEF Statuses
      <3> QED BY <2>1, <2>3, <3>1 DEF StaysRevoked, Lagging
    <2> QED BY <1>0, <1>3, <1>7, <2>1, <2>2, <2>3, RequestKeeps
  <1>12. ASSUME NEW q \in RecRequests, FinishEdit(q) PROVE RecordsInv' /\ StaysRevoked
    <2> DEFINE id == req[q].id
    <2>1. /\ id \in RecIds /\ Finish(q) /\ req[q].kind = "edit"
          /\ \/ UNCHANGED row
             \/ /\ VersionMatches(id, req[q].seen.version) /\ Exists(id) /\ Writable(id)
                /\ \E s \in {"failed", "confirmed"} : Written(id, s)
          /\ UNCHANGED <<lock, chain, audited, batches>>
      BY <1>8, <1>12 DEF FinishEdit, At
    <2>2. RowStep(id)
      <3>1. CASE UNCHANGED row
        BY <2>1, <3>1 DEF RowStep
      <3>2. ASSUME Exists(id), Writable(id), NEW s \in {"failed", "confirmed"}, Written(id, s)
            PROVE  RowStep(id)
        BY <1>2, <2>1, <3>2 DEF Statuses
      <3> QED BY <2>1, <3>1, <3>2
    <2>3. ASSUME VersionMatches(id, req[q].seen.version), Exists(id), Writable(id),
                 NEW s \in {"failed", "confirmed"}, Written(id, s)
          PROVE  StaysRevoked
      <3>1. \A i \in RecIds : i # id => row'[i] = row[i]
        BY <1>2, <2>1, <2>3 DEF Statuses
      <3>2. req[q].seen = row[id]
        BY <2>1, <2>3 DEF VersionMatches, Writable, Exists, RecordsInv, VersionsTell, Statuses
      <3> QED BY <2>1, <3>1, <3>2 DEF StaysRevoked
    <2> QED BY <1>0, <1>3, <1>7, <2>1, <2>2, <2>3, RequestKeeps
  \* A step of batch b that leaves the rows alone: what it must have done for what it claims,
  \* and which locks it may take.
  <1>13. ASSUME NEW b \in Batches, UNCHANGED <<row, req>>,
                NEW q2, batches' = [batches EXCEPT ![b] = q2],
                q2 \in [pc : {"begin", "read", "update", "sent", "commit", "ok", "failed"},
                        done : Nat, wrote : SUBSET RecIds],
                chain' \in [RecIds -> {"none", "attested", "revoked"}],
                \A i \in RecIds : chain[i] = "revoked" => chain'[i] = "revoked",
                audited \subseteq audited', BatchDone(b)',
                lock' \in [RecIds -> Batches \cup {NoBatch}],
                \A i \in RecIds :
                  \/ lock'[i] = NoBatch
                  \/ lock'[i] = lock[i] /\ lock[i] # b
                  \/ /\ lock'[i] = b /\ q2.pc \in {"read", "update", "sent", "commit"}
                     /\ Exists(i) /\ i \in q2.wrote
         PROVE  RecordsInv' /\ StaysRevoked
    <2>1. RecTypes'
      BY <1>13 DEF RecordsInv, RecTypes
    <2>2. VersionsTell'
      BY <1>13 DEF RecordsInv, VersionsTell
    <2>3. ASSUME NEW c \in Batches PROVE BatchDone(c)'
      <3>1. CASE c = b
        BY <1>13, <3>1
      <3>2. CASE c # b
        <4>1. batches'[c] = batches[c]
          BY <1>13, <3>2 DEF RecordsInv, RecTypes
        <4>2. \A k \in 1..Len(BatchIds[c]) : BatchIds[c][k] \in RecIds
          BY RecordsAssumption
        <4> QED BY <1>13, <4>1, <4>2 DEF RecordsInv, BatchDone
      <3> QED BY <3>1, <3>2
    <2>4. LocksHold'
      <3> SUFFICES ASSUME NEW i \in RecIds, lock'[i] # NoBatch
                   PROVE  /\ batches'[lock'[i]].pc \in {"read", "update", "sent", "commit"}
                          /\ Exists(i)' /\ i \in batches'[lock'[i]].wrote
        BY DEF LocksHold
      <3>1. CASE lock'[i] = lock[i] /\ lock[i] # b
        <4>1. batches'[lock[i]] = batches[lock[i]] /\ lock[i] \in Batches
          BY <1>13, <3>1 DEF RecordsInv, RecTypes
        <4> QED BY <1>13, <3>1, <4>1 DEF RecordsInv, LocksHold, Exists
      <3>2. CASE /\ lock'[i] = b /\ q2.pc \in {"read", "update", "sent", "commit"}
                 /\ Exists(i) /\ i \in q2.wrote
        <4>1. batches'[b] = q2
          BY <1>13 DEF RecordsInv, RecTypes
        <4> QED BY <1>13, <3>2, <4>1 DEF Exists
      <3> QED BY <1>13, <3>1, <3>2
    <2> QED BY <1>3, <1>13, <2>1, <2>2, <2>3, <2>4 DEF RecordsInv
  <1>14. ASSUME NEW b \in Batches
         PROVE  /\ batches[b] \in [pc : {"begin", "read", "update", "sent", "commit", "ok", "failed"},
                                  done : Nat, wrote : SUBSET RecIds]
                /\ BatchDone(b) /\ BatchIds[b] \in Seq(RecIds)
                /\ \A k \in 1..Len(BatchIds[b]) : BatchIds[b][k] \in RecIds
                /\ b # NoBatch
                /\ \A i \in RecIds : lock[i] = b =>
                     /\ batches[b].pc \in {"read", "update", "sent", "commit"}
                     /\ Exists(i) /\ i \in batches[b].wrote
    BY RecordsAssumption DEF RecordsInv, RecTypes, LocksHold
  <1>15. ASSUME NEW b \in Batches, StartBatch(b) PROVE RecordsInv' /\ StaysRevoked
    <2>0. PICK pc \in {"read", "failed"} : batches' = [batches EXCEPT ![b].pc = pc]
      BY <1>15 DEF StartBatch
    <2> DEFINE q2 == [batches[b] EXCEPT !.pc = pc]
    <2>1. /\ batches[b].pc = "begin" /\ batches' = [batches EXCEPT ![b] = q2]
          /\ UNCHANGED <<row, lock, chain, audited, req>>
      BY <1>15, <2>0 DEF StartBatch, RecordsInv, RecTypes
    <2>2. /\ q2 \in [pc : {"begin", "read", "update", "sent", "commit", "ok", "failed"},
                      done : Nat, wrote : SUBSET RecIds]
          /\ q2.pc \in {"read", "failed"} /\ q2.done = batches[b].done /\ q2.wrote = batches[b].wrote
      BY <1>14
    <2> HIDE DEF q2
    <2>3. batches'[b] = q2
      BY <2>1 DEF RecordsInv, RecTypes
    <2>4. BatchDone(b)'
      BY <1>14, <2>1, <2>2, <2>3 DEF BatchDone
    <2>5. /\ lock' \in [RecIds -> Batches \cup {NoBatch}]
          /\ \A i \in RecIds : lock'[i] = lock[i] /\ (lock[i] = b => FALSE)
      BY <1>14, <2>1 DEF RecordsInv, RecTypes
    <2> QED BY <1>0, <1>13, <2>1, <2>2, <2>4, <2>5
  \* Rolled back, with whatever the ledger made of it.
  <1>16. ASSUME NEW b \in Batches,
                lock' = [i \in RecIds |-> IF lock[i] = b THEN NoBatch ELSE lock[i]],
                batches' = [batches EXCEPT ![b].pc = "failed"],
                chain' \in [RecIds -> {"none", "attested", "revoked"}],
                \A i \in RecIds : chain[i] = "revoked" => chain'[i] = "revoked",
                UNCHANGED <<row, audited, req>>
         PROVE  RecordsInv' /\ StaysRevoked
    <2> DEFINE q2 == [batches[b] EXCEPT !.pc = "failed"]
    <2>1. batches' = [batches EXCEPT ![b] = q2]
      BY <1>16 DEF RecordsInv, RecTypes
    <2>2. /\ q2 \in [pc : {"begin", "read", "update", "sent", "commit", "ok", "failed"},
                      done : Nat, wrote : SUBSET RecIds]
          /\ q2.pc = "failed" /\ q2.done = batches[b].done /\ q2.wrote = batches[b].wrote
      BY <1>14
    <2> HIDE DEF q2
    <2>3. batches'[b] = q2
      BY <2>1 DEF RecordsInv, RecTypes
    <2>4. BatchDone(b)'
      BY <1>14, <1>16, <2>2, <2>3 DEF BatchDone
    <2>5. /\ lock' \in [RecIds -> Batches \cup {NoBatch}]
          /\ \A i \in RecIds : lock'[i] = NoBatch \/ (lock'[i] = lock[i] /\ lock[i] # b)
      BY <1>16 DEF RecordsInv, RecTypes
    <2> QED BY <1>13, <1>16, <2>1, <2>2, <2>4, <2>5
  <1>17. ASSUME NEW b \in Batches, Rollback(b) PROVE RecordsInv' /\ StaysRevoked
    BY <1>0, <1>16, <1>17 DEF Rollback
  \* On to the next step of the batch, with its locks.
  <1>18. ASSUME NEW b \in Batches, NEW pc \in {"read", "update", "sent", "commit"},
                batches[b].pc \in {"read", "update", "sent", "commit"},
                batches' = [batches EXCEPT ![b].pc = pc],
                pc = "update" => batches[b].done < Len(BatchIds[b]),
                pc \in {"sent", "commit"} => batches[b].done = Len(BatchIds[b]),
                Signer /\ pc = "commit" =>
                  \A k \in 1..Len(BatchIds[b]) : chain'[BatchIds[b][k]] = "revoked",
                chain' \in [RecIds -> {"none", "attested", "revoked"}],
                \A i \in RecIds : chain[i] = "revoked" => chain'[i] = "revoked",
                UNCHANGED <<row, lock, audited, req>>
         PROVE  RecordsInv' /\ StaysRevoked
    <2> DEFINE q2 == [batches[b] EXCEPT !.pc = pc]
    <2>1. batches' = [batches EXCEPT ![b] = q2]
      BY <1>18 DEF RecordsInv, RecTypes
    <2>2. /\ q2 \in [pc : {"begin", "read", "update", "sent", "commit", "ok", "failed"},
                      done : Nat, wrote : SUBSET RecIds]
          /\ q2.pc = pc /\ q2.done = batches[b].done /\ q2.wrote = batches[b].wrote
      BY <1>14
    <2> HIDE DEF q2
    <2>3. batches'[b] = q2
      BY <2>1 DEF RecordsInv, RecTypes
    <2>4. BatchDone(b)'
      BY <1>14, <1>18, <2>2, <2>3 DEF BatchDone
    <2>5. lock' \in [RecIds -> Batches \cup {NoBatch}]
      BY <1>18 DEF RecordsInv, RecTypes
    <2>6. \A i \in RecIds :
            \/ lock'[i] = lock[i] /\ lock[i] # b
            \/ /\ lock'[i] = b /\ q2.pc \in {"read", "update", "sent", "commit"}
               /\ Exists(i) /\ i \in q2.wrote
      BY <1>14, <1>18, <2>2
    <2> QED BY <1>13, <1>18, <2>1, <2>2, <2>4, <2>5, <2>6
  <1>19. ASSUME NEW b \in Batches, ReadRow(b) PROVE RecordsInv' /\ StaysRevoked
    <2>1. CASE Rollback(b)
      BY <1>17, <2>1
    <2>2. CASE ~Rollback(b)
      BY <1>0, <1>18, <1>19, <2>2 DEF ReadRow
    <2> QED BY <2>1, <2>2
  <1>20. ASSUME NEW b \in Batches, UpdateRow(b) PROVE RecordsInv' /\ StaysRevoked
    <2> DEFINE id == NextId(b)
    <2> DEFINE q == batches[b]
    <2> DEFINE w2 == IF Exists(id) THEN q.wrote \cup {id} ELSE q.wrote
    <2> DEFINE d2 == q.done + 1
    <2> DEFINE q2 == [q EXCEPT !.pc = "read", !.done = d2, !.wrote = w2]
    <2>1. /\ q.pc = "update" /\ lock[id] = NoBatch
          /\ lock' = [lock EXCEPT ![id] = IF Exists(id) THEN b ELSE NoBatch]
          /\ audited' = audited \cup {<<b, id>>}
          /\ batches' = [batches EXCEPT ![b] = q2]
          /\ UNCHANGED <<row, chain, req>>
      BY <1>20 DEF UpdateRow, RecordsInv, RecTypes
    <2>2. /\ q.done \in Nat /\ Len(BatchIds[b]) \in Nat /\ q.done < Len(BatchIds[b])
          /\ id = BatchIds[b][q.done + 1] /\ id \in RecIds /\ q.wrote \subseteq RecIds
      BY <1>14, <2>1 DEF BatchDone, NextId
    <2> HIDE DEF id
    <2>3. w2 \subseteq RecIds /\ q.wrote \subseteq w2
      BY <2>2
    <2>9. d2 \in Nat /\ d2 = q.done + 1
      BY <2>2
    <2> HIDE DEF w2, d2
    <2>4. /\ q2 \in [pc : {"begin", "read", "update", "sent", "commit", "ok", "failed"},
                      done : Nat, wrote : SUBSET RecIds]
          /\ q2.pc = "read" /\ q2.done = q.done + 1 /\ q2.wrote = w2
      BY <1>14, <2>3, <2>9
    <2> HIDE DEF q2
    <2>5. batches'[b] = q2
      BY <2>1 DEF RecordsInv, RecTypes
    <2>6. BatchDone(b)'
      <3>1. \A k \in 1..q2.done : <<b, BatchIds[b][k]>> \in audited'
        <4> TAKE k \in 1..q2.done
        <4>1. k \in 1..q.done \/ k = q.done + 1
          BY <2>2, <2>4
        <4>2. k \in 1..q.done => <<b, BatchIds[b][k]>> \in audited
          BY <1>14 DEF BatchDone
        <4> QED BY <2>1, <2>2, <4>1, <4>2
      <3> QED BY <2>2, <2>4, <2>5, <3>1 DEF BatchDone
    <2>7. lock' \in [RecIds -> Batches \cup {NoBatch}]
      BY <2>1, <2>2 DEF RecordsInv, RecTypes
    <2>8. \A i \in RecIds :
            \/ lock'[i] = NoBatch
            \/ lock'[i] = lock[i] /\ lock[i] # b
            \/ /\ lock'[i] = b /\ q2.pc \in {"read", "update", "sent", "commit"}
               /\ Exists(i) /\ i \in q2.wrote
      <3> TAKE i \in RecIds
      <3>1. CASE i = id
        BY <2>1, <2>2, <2>4, <3>1 DEF w2, RecordsInv, RecTypes
      <3>2. CASE i # id
        <4>1. lock'[i] = lock[i]
          BY <2>1, <2>2, <3>2 DEF RecordsInv, RecTypes
        <4> QED BY <1>14, <2>3, <2>4, <4>1
      <3> QED BY <3>1, <3>2
    <2> QED BY <1>0, <1>13, <2>1, <2>4, <2>6, <2>7, <2>8
  <1>21. ASSUME NEW b \in Batches, FailStatement(b) PROVE RecordsInv' /\ StaysRevoked
    BY <1>17, <1>21 DEF FailStatement
  <1>22. ASSUME NEW b \in Batches, Send(b) PROVE RecordsInv' /\ StaysRevoked
    <2>1. CASE Rollback(b)
      BY <1>17, <2>1
    <2>2. CASE ~Rollback(b)
      <3>1. /\ batches[b].pc = "read" /\ batches[b].done = Len(BatchIds[b])
            /\ UNCHANGED <<row, lock, chain, audited, req>>
            /\ \/ batches' = [batches EXCEPT ![b].pc = "sent"]
               \/ batches' = [batches EXCEPT ![b].pc = "commit"] /\ ~Signer
        BY <1>22, <2>2 DEF Send
      <3> QED BY <1>0, <1>18, <3>1
    <2> QED BY <2>1, <2>2
  <1>23. ASSUME NEW b \in Batches
         PROVE  /\ RevokedOnChain(b) \in [RecIds -> {"none", "attested", "revoked"}]
                /\ \A i \in RecIds : chain[i] = "revoked" => RevokedOnChain(b)[i] = "revoked"
                /\ \A k \in 1..Len(BatchIds[b]) : RevokedOnChain(b)[BatchIds[b][k]] = "revoked"
    BY <1>0, <1>14 DEF RevokedOnChain
  <1>24. ASSUME NEW b \in Batches, Confirm(b) PROVE RecordsInv' /\ StaysRevoked
    <2>1. batches[b].done = Len(BatchIds[b])
      BY <1>14, <1>24 DEF Confirm, BatchDone
    <2> QED BY <1>18, <1>23, <1>24, <2>1 DEF Confirm
  <1>25. ASSUME NEW b \in Batches, ConfirmFails(b) PROVE RecordsInv' /\ StaysRevoked
    <2>1. /\ chain' \in [RecIds -> {"none", "attested", "revoked"}]
          /\ \A i \in RecIds : chain[i] = "revoked" => chain'[i] = "revoked"
      BY <1>0, <1>23, <1>25 DEF ConfirmFails
    <2> QED BY <1>16, <1>25, <2>1 DEF ConfirmFails
  <1>26. ASSUME NEW b \in Batches, Commit(b) PROVE RecordsInv' /\ StaysRevoked
    <2> DEFINE q2 == [batches[b] EXCEPT !.pc = "ok"]
    <2> DEFINE x(i) == [status |-> "revoked",
                        version |-> IF row[i].version < MaxVersion THEN row[i].version + 1 ELSE MaxVersion]
    <2>1. /\ batches[b].pc = "commit"
          /\ row' = [i \in RecIds |-> IF lock[i] = b THEN x(i) ELSE row[i]]
          /\ lock' = [i \in RecIds |-> IF lock[i] = b THEN NoBatch ELSE lock[i]]
          /\ batches' = [batches EXCEPT ![b] = q2]
          /\ UNCHANGED <<chain, audited, req>>
      BY <1>26 DEF Commit, RecordsInv, RecTypes
    <2>2. /\ q2 \in [pc : {"begin", "read", "update", "sent", "commit", "ok", "failed"},
                      done : Nat, wrote : SUBSET RecIds]
          /\ q2.pc = "ok" /\ q2.done = batches[b].done /\ q2.wrote = batches[b].wrote
      BY <1>14
    <2>3. \A i \in RecIds :
            /\ x(i) \in RowSet /\ x(i).status = "revoked"
            /\ row[i].version =< x(i).version
            /\ row[i].version = x(i).version => ~(x(i).version < MaxVersion)
      BY <1>0 DEF RowSet, Statuses
    <2> HIDE DEF q2, x
    <2>4. RecTypes'
      BY <1>0, <2>1, <2>2, <2>3 DEF RecordsInv, RecTypes
    <2>5. StaysRevoked
      BY <2>1, <2>3, NoRevival
    <2>6. VersionsTell'
      <3> SUFFICES ASSUME NEW q \in RecRequests, req[q].kind = "edit"
                   PROVE  LET r == row'[req[q].id] IN
                          \/ r.status = "removed"
                          \/ /\ r.status \in Statuses /\ req[q].seen.version =< r.version
                             /\ req[q].seen.version = r.version /\ r.version < MaxVersion
                                => req[q].seen = r
        BY <2>1 DEF VersionsTell
      <3> DEFINE i == req[q].id
      <3> DEFINE s == req[q].seen
      <3>1. /\ i \in RecIds /\ s.version \in Nat /\ row[i].version \in Nat
            /\ \/ row[i].status = "removed"
               \/ /\ row[i].status \in Statuses /\ s.version =< row[i].version
                  /\ s.version = row[i].version /\ row[i].version < MaxVersion => s = row[i]
        BY <1>0 DEF RecordsInv, RecTypes, RowSet, VersionsTell
      <3>2. x(i).version \in Nat
        BY <1>0, <2>3, <3>1 DEF RowSet
      <3>3. row'[i] = IF lock[i] = b THEN x(i) ELSE row[i]
        BY <2>1, <3>1
      <3>4. lock[i] = b => row[i].status \in Statuses /\ row[i].status # "removed"
        BY <1>14, <3>1 DEF Exists, Statuses
      <3>5. "revoked" \in Statuses
        BY DEF Statuses
      <3> HIDE DEF i, s
      <3>6. \/ row'[i].status = "removed"
            \/ /\ row'[i].status \in Statuses /\ s.version =< row'[i].version
               /\ s.version = row'[i].version /\ row'[i].version < MaxVersion => s = row'[i]
        <4>1. CASE lock[i] # b
          BY <3>1, <3>3, <4>1
        <4>2. CASE lock[i] = b
          BY <1>0, <2>3, <3>1, <3>2, <3>3, <3>4, <3>5, <4>2
        <4> QED BY <4>1, <4>2
      <3> QED BY <3>6 DEF i, s
    <2>7. ASSUME NEW c \in Batches PROVE BatchDone(c)'
      <3>1. CASE c = b
        <4>1. batches'[b] = q2
          BY <2>1 DEF RecordsInv, RecTypes
        <4> QED BY <1>14, <2>1, <2>2, <3>1, <4>1 DEF BatchDone
      <3>2. CASE c # b
        <4>1. batches'[c] = batches[c]
          BY <2>1, <3>2 DEF RecordsInv, RecTypes
        <4> QED BY <1>14, <2>1, <4>1 DEF BatchDone
      <3> QED BY <3>1, <3>2
    <2>8. LocksHold'
      <3> SUFFICES ASSUME NEW i \in RecIds, lock'[i] # NoBatch
                   PROVE  /\ batches'[lock'[i]].pc \in {"read", "update", "sent", "commit"}
                          /\ Exists(i)' /\ i \in batches'[lock'[i]].wrote
        BY DEF LocksHold
      <3>1. lock'[i] = lock[i] /\ lock[i] # b /\ row'[i] = row[i] /\ lock[i] \in Batches
        BY <2>1 DEF RecordsInv, RecTypes
      <3>2. batches'[lock[i]] = batches[lock[i]]
        BY <2>1, <3>1 DEF RecordsInv, RecTypes
      <3> QED BY <3>1, <3>2 DEF RecordsInv, LocksHold, Exists
    <2> QED BY <2>4, <2>5, <2>6, <2>7, <2>8 DEF RecordsInv
  <1>27. CASE UNCHANGED recVars
    <2>1. RecTypes' /\ VersionsTell' /\ LocksHold'
      BY <1>27 DEF recVars, RecordsInv, RecTypes, VersionsTell, LocksHold, Exists
    <2>2. \A b \in Batches : BatchDone(b)'
      BY <1>27 DEF recVars, RecordsInv, BatchDone
    <2> QED BY <1>3, <1>27, <2>1, <2>2 DEF recVars, RecordsInv
  <1> QED
    BY <1>4, <1>5, <1>6, <1>9, <1>10, <1>11, <1>12, <1>15, <1>19, <1>20, <1>21, <1>22, <1>24,
       <1>25, <1>26, <1>27 DEF RecNext

\* Batches are all or nothing where the caller sees them, and a revoked attestation comes
\* back only through a caller that was shown the revoked row or a strong read that was
\* under way: for any number of rows, requests and batches.
THEOREM RevocationsStick == RecSpec => RevocationsHold
  <1>1. RecordsInv => BatchAllOrNothing
    BY DEF RecordsInv, BatchDone, LocksHold, BatchAllOrNothing
  <1>2. RecordsInv /\ [RecNext]_recVars => [StaysRevoked]_recVars
    BY RecordsStep
  <1>3. RecordsInv /\ [RecNext]_recVars => RecordsInv'
    BY RecordsStep
  <1>4. RecSpec => []RecordsInv
    BY RecordsInit, <1>3, PTL DEF RecSpec
  <1>5. RecSpec => [][StaysRevoked]_recVars
    BY <1>2, <1>4, PTL DEF RecSpec
  <1>6. RecSpec => RevocationSticks
    BY <1>5 DEF RevocationSticks, StaysRevoked
  <1> QED BY <1>1, <1>4, <1>6, PTL DEF RevocationsHold

-----------------------------------------------------------------------------
(***************************************************************************)
(* DegradedQueue, for any number of keys and drains and every limit: while *)
(* no two drains overlap, nothing that was queued is lost.                 *)
(***************************************************************************)

\* A sequence is one of its own elements; an item has a key, attempts and a wait.
Elements(s) == {s[i] : i \in DOMAIN s}
IsItem(x) == x = [key |-> x.key, attempts |-> x.attempts, wait |-> x.wait]

Keys(s) == {s[i].key : i \in DOMAIN s}

\* A store of items with different keys.
StoreOk(s) ==
  /\ s \in Seq(Elements(s))
  /\ \A i \in 1..Len(s) : IsItem(s[i])
  /\ \A i, j \in 1..Len(s) : s[i].key = s[j].key => i = j

DrainsOk ==
  /\ DOMAIN drain = Drains
  /\ \A d \in Drains :
       /\ DOMAIN drain[d] = {"pc", "due", "index", "key"}
       /\ drain[d].pc \in {"idle", "pick", "await"}
       /\ drain[d].pc = "await" =>
            drain[d].index \in 1..Len(store) /\ store[drain[d].index].key = drain[d].key
  /\ drain = [d \in Drains |-> drain[d]]

\* One drain at a time.
OneDrain == \A d, e \in Drains : drain[d].pc # "idle" /\ drain[e].pc # "idle" => d = e

QueueInv ==
  /\ overlapped \in BOOLEAN
  /\ ~overlapped => StoreOk(store) /\ DrainsOk /\ OneDrain /\ accepted = Queued \cup settled

LEMMA OwnElements ==
  ASSUME NEW T, NEW s \in Seq(T)
  PROVE  s \in Seq(Elements(s)) /\ DOMAIN s = 1..Len(s) /\ Len(s) \in Nat
  BY DEF Elements

\* What splice(i, 1) leaves.
LEMMA RemoveAtElements ==
  ASSUME NEW T, NEW s \in Seq(T), NEW i \in 1..Len(s)
  PROVE  /\ RemoveAt(s, i) \in Seq(T) /\ Len(RemoveAt(s, i)) = Len(s) - 1
         /\ \A k \in 1..(Len(s) - 1) : RemoveAt(s, i)[k] = IF k < i THEN s[k] ELSE s[k + 1]
  <1> DEFINE a == SubSeq(s, 1, i - 1)
  <1> DEFINE b == SubSeq(s, i + 1, Len(s))
  <1>1. Len(s) \in Nat /\ i \in Nat /\ i >= 1 /\ i =< Len(s)
    OBVIOUS
  <1>2. a \in Seq(T) /\ Len(a) = i - 1 /\ \A k \in 1..(i - 1) : a[k] = s[k]
    BY <1>1
  <1>3. b \in Seq(T) /\ Len(b) = Len(s) - i /\ \A k \in 1..(Len(s) - i) : b[k] = s[i + k]
    BY <1>1
  <1>4. RemoveAt(s, i) = a \o b
    BY DEF RemoveAt
  <1> HIDE DEF a, b
  <1>5. a \o b \in Seq(T) /\ Len(a \o b) = Len(s) - 1
    <2>1. a \in Seq(T) /\ b \in Seq(T)
      BY <1>2, <1>3
    <2>2. a \o b \in Seq(T) /\ Len(a \o b) = Len(a) + Len(b)
      BY <2>1
    <2> QED BY <1>1, <1>2, <1>3, <2>2
  <1>6. ASSUME NEW k \in 1..(Len(s) - 1)
        PROVE  (a \o b)[k] = IF k < i THEN s[k] ELSE s[k + 1]
    <2>1. CASE k < i
      BY <1>1, <1>2, <1>3, <2>1
    <2>2. CASE ~(k < i)
      <3>1. k - (i - 1) \in 1..(Len(s) - i) /\ k \in (Len(a) + 1)..(Len(a) + Len(b))
        BY <1>1, <1>2, <1>3, <2>2
      <3>2. (a \o b)[k] = b[k - Len(a)]
        BY <1>2, <1>3, <3>1
      <3>3. b[k - (i - 1)] = s[i + (k - (i - 1))] /\ i + (k - (i - 1)) = k + 1
        BY <1>1, <1>3, <3>1
      <3> QED BY <1>2, <2>2, <3>2, <3>3
    <2> QED BY <2>1, <2>2
  <1> QED BY <1>4, <1>5, <1>6

LEMMA QueueInit == DqInit => QueueInv
  <1> SUFFICES ASSUME DqInit PROVE QueueInv
    OBVIOUS
  <1>1. StoreOk(store) /\ Queued = {}
    <2>1. store = <<>>
      BY DEF DqInit
    <2> QED BY <2>1 DEF StoreOk, Elements, Queued
  <1>2. DrainsOk /\ OneDrain
    BY DEF DqInit, DrainsOk, OneDrain, NoDrain
  <1> QED BY <1>1, <1>2 DEF DqInit, QueueInv

\* Items are updated in place.
LEMMA SameKeys ==
  ASSUME NEW s, NEW t, StoreOk(s), t = [i \in DOMAIN s |-> t[i]],
         \A i \in DOMAIN s : IsItem(t[i]) /\ t[i].key = s[i].key
  PROVE  StoreOk(t) /\ Keys(t) = Keys(s) /\ Len(t) = Len(s) /\ DOMAIN t = 1..Len(t)
  <1>1. DOMAIN s = 1..Len(s) /\ Len(s) \in Nat
    BY OwnElements DEF StoreOk
  <1>2. DOMAIN t = 1..Len(s) /\ t \in [1..Len(s) -> Elements(t)]
    BY <1>1 DEF Elements
  <1>3. t \in Seq(Elements(t)) /\ Len(t) = Len(s)
    BY <1>1, <1>2
  <1>4. Keys(t) = Keys(s)
    BY <1>1, <1>2 DEF Keys
  <1> QED BY <1>1, <1>2, <1>3, <1>4 DEF StoreOk

\* An item is taken out.
LEMMA SpliceKeys ==
  ASSUME NEW s, StoreOk(s), NEW i \in 1..Len(s)
  PROVE  StoreOk(RemoveAt(s, i)) /\ Keys(RemoveAt(s, i)) = Keys(s) \ {s[i].key}
  <1> DEFINE t == RemoveAt(s, i)
  <1> DEFINE n == Len(s)
  <1>1. DOMAIN s = 1..n /\ n \in Nat /\ s \in Seq(Elements(s)) /\ i \in 1..n
    BY OwnElements DEF StoreOk
  <1>2. /\ t \in Seq(Elements(s)) /\ Len(t) = n - 1
        /\ \A k \in 1..(n - 1) : t[k] = IF k < i THEN s[k] ELSE s[k + 1]
    BY <1>1, RemoveAtElements
  <1>3. t \in Seq(Elements(t)) /\ DOMAIN t = 1..(n - 1)
    BY <1>2, OwnElements
  <1> HIDE DEF t, n
  <1> DEFINE f(k) == IF k < i THEN k ELSE k + 1
  <1>4. \A k \in 1..(n - 1) : f(k) \in 1..n /\ f(k) # i /\ t[k] = s[f(k)]
    BY <1>1, <1>2
  <1>5. \A j, k \in 1..(n - 1) : f(j) = f(k) => j = k
    BY <1>1
  <1>6. \A m \in 1..n : m # i => \E k \in 1..(n - 1) : f(k) = m
    <2> SUFFICES ASSUME NEW m \in 1..n, m # i PROVE \E k \in 1..(n - 1) : f(k) = m
      OBVIOUS
    <2>1. CASE m < i
      <3>1. m \in 1..(n - 1) /\ f(m) = m
        BY <1>1, <2>1
      <3> QED BY <3>1
    <2>2. CASE m > i
      <3>1. m - 1 \in 1..(n - 1) /\ f(m - 1) = m
        BY <1>1, <2>2
      <3> QED BY <3>1
    <2> QED BY <1>1, <2>1, <2>2
  <1> HIDE DEF f
  <1>7. \A k \in 1..n : IsItem(s[k]) /\ \A j \in 1..n : s[j].key = s[k].key => j = k
    BY DEF StoreOk, n
  <1>8. StoreOk(t)
    <2>1. \A k \in 1..Len(t) : IsItem(t[k])
      BY <1>2, <1>4, <1>7
    <2>2. \A j, k \in 1..Len(t) : t[j].key = t[k].key => j = k
      BY <1>2, <1>4, <1>5, <1>7
    <2> QED BY <1>3, <2>1, <2>2 DEF StoreOk
  <1>9. Keys(t) = Keys(s) \ {s[i].key}
    <2>1. ASSUME NEW x \in Keys(t) PROVE x \in Keys(s) \ {s[i].key}
      <3>1. PICK k \in 1..(n - 1) : x = t[k].key
        BY <1>3 DEF Keys
      <3>2. f(k) \in 1..n /\ f(k) # i /\ x = s[f(k)].key
        BY <1>4, <3>1
      <3>3. x # s[i].key
        BY <1>1, <1>7, <3>2
      <3> QED BY <1>1, <3>2, <3>3 DEF Keys
    <2>2. ASSUME NEW x \in Keys(s), x # s[i].key PROVE x \in Keys(t)
      <3>1. PICK m \in 1..n : x = s[m].key
        BY <1>1 DEF Keys
      <3>2. m # i
        BY <2>2, <3>1
      <3>3. PICK k \in 1..(n - 1) : f(k) = m
        BY <1>6, <3>2
      <3>4. t[k].key = x
        BY <1>4, <3>1, <3>3
      <3> QED BY <1>3, <3>4 DEF Keys
    <2> QED BY <2>1, <2>2
  <1> QED BY <1>8, <1>9 DEF t

\* Different keys are as many as the items.
LEMMA KeysCount ==
  ASSUME NEW s, StoreOk(s)
  PROVE  Cardinality(Keys(s)) = Len(s)
  <1> DEFINE f == [i \in 1..Len(s) |-> s[i].key]
  <1>1. DOMAIN s = 1..Len(s) /\ Len(s) \in Nat
    BY OwnElements DEF StoreOk
  <1>2. f \in Bijection(1..Len(s), Keys(s))
    BY <1>1 DEF StoreOk, Keys, Bijection, Injection, IsInjective, Surjection
  <1>3. ExistsBijection(1..Len(s), Keys(s))
    BY <1>2 DEF ExistsBijection
  <1> QED BY <1>1, <1>3, FS_CountingElements

\* Every step keeps it.
LEMMA QueueStep == QueueInv /\ [DqNext]_dqVars => QueueInv'
  <1> SUFFICES ASSUME QueueInv, [DqNext]_dqVars PROVE QueueInv'
    OBVIOUS
  <1>0. Queued = Keys(store) /\ Queued' = Keys(store')
    BY DEF Queued, Keys
  <1>1. ASSUME NEW k \in DqKeys, enqueueQueuedAttestation(k) PROVE QueueInv'
    <2> DEFINE x == [key |-> k, attempts |-> 0, wait |-> 0]
    <2>1. /\ k \notin Queued /\ store' = Append(store, x) /\ accepted' = accepted \cup {k}
          /\ UNCHANGED <<drain, settled, overlapped>>
      BY <1>1 DEF enqueueQueuedAttestation
    <2> SUFFICES ASSUME ~overlapped
                 PROVE  StoreOk(store)' /\ DrainsOk' /\ OneDrain' /\ (accepted = Queued \cup settled)'
      BY <2>1 DEF QueueInv
    <2>2. StoreOk(store) /\ DrainsOk /\ OneDrain /\ accepted = Queued \cup settled
      BY DEF QueueInv
    <2>3. DOMAIN store = 1..Len(store) /\ Len(store) \in Nat /\ store \in Seq(Elements(store))
      BY <2>2, OwnElements DEF StoreOk
    <2>4. x.key = k /\ IsItem(x)
      BY DEF IsItem
    <2> HIDE DEF x
    <2>5. /\ store' \in Seq(Elements(store) \cup {x}) /\ Len(store') = Len(store) + 1
          /\ \A i \in 1..Len(store) : store'[i] = store[i]
          /\ store'[Len(store) + 1] = x
      BY <2>1, <2>3
    <2>6. DOMAIN store' = 1..(Len(store) + 1) /\ store' \in Seq(Elements(store'))
      BY <2>5, OwnElements
    <2>7. \A i \in 1..Len(store) : store[i].key # k
      BY <1>0, <2>1, <2>3 DEF Keys
    <2>8. StoreOk(store')
      <3>1. \A i \in 1..Len(store') : i \in 1..Len(store) \/ i = Len(store) + 1
        BY <2>3, <2>5
      <3>2. \A i \in 1..Len(store') : IsItem(store'[i])
        BY <2>2, <2>4, <2>5, <3>1 DEF StoreOk
      <3>3. \A i, j \in 1..Len(store') : store'[i].key = store'[j].key => i = j
        BY <2>2, <2>4, <2>5, <2>7, <3>1 DEF StoreOk
      <3> QED BY <2>6, <3>2, <3>3 DEF StoreOk
    <2>9. Keys(store') = Keys(store) \cup {k}
      BY <2>3, <2>4, <2>5, <2>6 DEF Keys
    <2>10. DrainsOk'
      BY <2>1, <2>2, <2>3, <2>5 DEF DrainsOk
    <2> QED BY <1>0, <2>1, <2>2, <2>8, <2>9, <2>10 DEF OneDrain
  <1>2. ASSUME NEW d \in Drains, StartDrain(d) PROVE QueueInv'
    <2>1. PICK due : drain' = [drain EXCEPT ![d] = [NoDrain EXCEPT !.pc = "pick", !.due = due]]
      BY <1>2 DEF StartDrain
    <2>2. /\ overlapped' = (overlapped \/ \E e \in Drains : drain[e].pc # "idle")
          /\ UNCHANGED <<store, accepted, settled>>
      BY <1>2 DEF StartDrain
    <2>3. overlapped' \in BOOLEAN
      BY <2>2
    <2> SUFFICES ASSUME ~overlapped'
                 PROVE  StoreOk(store)' /\ DrainsOk' /\ OneDrain' /\ (accepted = Queued \cup settled)'
      BY <2>3 DEF QueueInv
    <2>4. ~overlapped /\ \A e \in Drains : drain[e].pc = "idle"
      BY <2>2
    <2>5. StoreOk(store) /\ DrainsOk /\ OneDrain /\ accepted = Queued \cup settled
      BY <2>4 DEF QueueInv
    <2> DEFINE x == [NoDrain EXCEPT !.pc = "pick", !.due = due]
    <2>6. x.pc = "pick" /\ DOMAIN x = {"pc", "due", "index", "key"}
      <3>1. DOMAIN NoDrain = {"pc", "due", "index", "key"}
        BY DEF NoDrain
      <3> QED BY <3>1
    <2> HIDE DEF x
    <2>9. drain' = [drain EXCEPT ![d] = x]
      BY <2>1 DEF x
    <2>7. DrainsOk'
      BY <2>2, <2>5, <2>6, <2>9 DEF DrainsOk
    <2>8. OneDrain'
      BY <2>4, <2>5, <2>9 DEF OneDrain, DrainsOk
    <2> QED BY <1>0, <2>2, <2>5, <2>7, <2>8
  <1>3. ASSUME NEW d \in Drains, Pick(d) PROVE QueueInv'
    <2>1. drain[d].pc = "pick" /\ UNCHANGED <<store, accepted, settled, overlapped>>
      BY <1>3 DEF Pick
    <2> SUFFICES ASSUME ~overlapped
                 PROVE  StoreOk(store)' /\ DrainsOk' /\ OneDrain' /\ (accepted = Queued \cup settled)'
      BY <2>1 DEF QueueInv
    <2>2. StoreOk(store) /\ DrainsOk /\ OneDrain /\ accepted = Queued \cup settled
      BY DEF QueueInv
    <2> DEFINE k == Head(drain[d].due)
    <2> DEFINE rest == [drain[d] EXCEPT !.due = Tail(drain[d].due)]
    <2> DEFINE x == IF drain[d].due = <<>> THEN NoDrain
                    ELSE IF k \in Queued
                         THEN [rest EXCEPT !.pc = "await", !.key = k, !.index = IndexOf(k)]
                         ELSE rest
    <2>3. drain' = [drain EXCEPT ![d] = x]
      BY <1>3 DEF Pick
    <2>4. k \in Queued => IndexOf(k) \in 1..Len(store) /\ store[IndexOf(k)].key = k
      <3>1. DOMAIN store = 1..Len(store)
        BY <2>2, OwnElements DEF StoreOk
      <3> HIDE DEF k
      <3> QED BY <3>1 DEF Queued, IndexOf
    <2>5. /\ DOMAIN rest = {"pc", "due", "index", "key"} /\ rest.pc = "pick"
          /\ DOMAIN NoDrain = {"pc", "due", "index", "key"} /\ NoDrain.pc = "idle"
      BY <2>1, <2>2 DEF DrainsOk, NoDrain
    <2> HIDE DEF rest, k
    <2>6. /\ DOMAIN x = {"pc", "due", "index", "key"} /\ x.pc \in {"idle", "pick", "await"}
          /\ x.pc = "await" => x.index \in 1..Len(store) /\ store[x.index].key = x.key
      <3>1. CASE x = NoDrain
        BY <2>5, <3>1
      <3>2. CASE x = rest
        BY <2>5, <3>2
      <3>3. CASE k \in Queued /\ x = [rest EXCEPT !.pc = "await", !.key = k, !.index = IndexOf(k)]
        <4>1. DOMAIN x = {"pc", "due", "index", "key"} /\ x.pc = "await" /\ x.key = k /\ x.index = IndexOf(k)
          <5> HIDE DEF x
          <5> QED BY <2>5, <3>3
        <4> HIDE DEF x
        <4> QED BY <2>4, <3>3, <4>1
      <3> QED BY <3>1, <3>2, <3>3
    <2> HIDE DEF x
    <2>7. DrainsOk'
      BY <2>1, <2>2, <2>3, <2>6 DEF DrainsOk
    <2>8. OneDrain'
      BY <2>1, <2>2, <2>3 DEF OneDrain, DrainsOk
    <2> QED BY <1>0, <2>1, <2>2, <2>7, <2>8
  \* Back to picking: no other drain has an index that the store may have moved.
  <1>4. ASSUME NEW d \in Drains, ~overlapped, drain[d].pc = "await", Resume(d) PROVE DrainsOk' /\ OneDrain'
    <2> DEFINE x == [drain[d] EXCEPT !.pc = "pick", !.index = 0, !.key = "none"]
    <2>1. drain' = [drain EXCEPT ![d] = x]
      BY <1>4 DEF Resume
    <2>2. DrainsOk /\ OneDrain
      BY <1>4 DEF QueueInv
    <2>3. DOMAIN x = {"pc", "due", "index", "key"} /\ x.pc = "pick"
      BY <2>2 DEF DrainsOk
    <2> HIDE DEF x
    <2>4. \A e \in Drains : e # d => drain[e].pc = "idle"
      BY <1>4, <2>2 DEF OneDrain
    <2>5. DrainsOk'
      BY <2>1, <2>2, <2>3, <2>4 DEF DrainsOk
    <2>6. OneDrain'
      BY <1>4, <2>1, <2>2, <2>4 DEF OneDrain, DrainsOk
    <2> QED BY <2>5, <2>6
  <1>5. ASSUME NEW d \in Drains, SubmitSucceeds(d) PROVE QueueInv'
    <2> DEFINE i == drain[d].index
    <2>1. /\ drain[d].pc = "await" /\ store' = Spliced(i) /\ settled' = settled \cup {drain[d].key}
          /\ Resume(d) /\ UNCHANGED <<accepted, overlapped>>
      BY <1>5 DEF SubmitSucceeds
    <2> SUFFICES ASSUME ~overlapped
                 PROVE  StoreOk(store)' /\ DrainsOk' /\ OneDrain' /\ (accepted = Queued \cup settled)'
      BY <2>1 DEF QueueInv
    <2>2. StoreOk(store) /\ DrainsOk /\ OneDrain /\ accepted = Queued \cup settled
      BY DEF QueueInv
    <2>3. i \in 1..Len(store) /\ store[i].key = drain[d].key /\ DOMAIN store = 1..Len(store)
      BY <2>1, <2>2, OwnElements DEF DrainsOk, StoreOk
    <2>4. store' = RemoveAt(store, i)
      BY <2>1, <2>3 DEF Spliced
    <2>5. StoreOk(store') /\ Keys(store') = Keys(store) \ {store[i].key}
      BY <2>2, <2>3, <2>4, SpliceKeys
    <2>6. store[i].key \in Keys(store)
      BY <2>3 DEF Keys
    <2> QED BY <1>0, <1>4, <2>1, <2>2, <2>3, <2>5, <2>6
  <1>6. ASSUME NEW d \in Drains, SubmitFails(d) PROVE QueueInv'
    <2> DEFINE i == drain[d].index
    <2> DEFINE key == drain[d].key
    <2> DEFINE more(j) == IF store[j].attempts < MaxAttempts THEN store[j].attempts + 1 ELSE MaxAttempts
    <2> DEFINE retried == [j \in DOMAIN store |->
                            IF store[j].key = key
                            THEN [store[j] EXCEPT !.attempts = more(j), !.wait = Backoff(more(j))]
                            ELSE store[j]]
    <2>1. drain[d].pc = "await" /\ Resume(d) /\ UNCHANGED <<accepted, overlapped>>
      BY <1>6 DEF SubmitFails
    <2>2. \/ store' = retried /\ settled' = settled
          \/ /\ store' = IF i \in DOMAIN store THEN RemoveAt(retried, i) ELSE retried
             /\ settled' = settled \cup {key}
      BY <1>6 DEF SubmitFails, KeptAfter
    <2> SUFFICES ASSUME ~overlapped
                 PROVE  StoreOk(store)' /\ DrainsOk' /\ OneDrain' /\ (accepted = Queued \cup settled)'
      BY <2>1 DEF QueueInv
    <2>3. StoreOk(store) /\ DrainsOk /\ OneDrain /\ accepted = Queued \cup settled
      BY DEF QueueInv
    <2>4. i \in 1..Len(store) /\ store[i].key = key /\ DOMAIN store = 1..Len(store)
      BY <2>1, <2>3, OwnElements DEF DrainsOk, StoreOk
    <2>5. \A j \in DOMAIN store : IsItem(retried[j]) /\ retried[j].key = store[j].key
      <3> TAKE j \in DOMAIN store
      <3>1. IsItem(store[j])
        BY <2>3, <2>4 DEF StoreOk
      <3> DEFINE a == more(j)
      <3> DEFINE w == Backoff(more(j))
      <3>2. retried[j] = IF store[j].key = key THEN [store[j] EXCEPT !.attempts = a, !.wait = w] ELSE store[j]
        OBVIOUS
      <3> HIDE DEF retried, a, w
      <3> QED BY <3>1, <3>2 DEF IsItem
    <2>6. retried = [j \in DOMAIN store |-> retried[j]]
      OBVIOUS
    <2> HIDE DEF retried
    <2>7. StoreOk(retried) /\ Keys(retried) = Keys(store) /\ Len(retried) = Len(store)
      BY <2>3, <2>5, <2>6, SameKeys
    <2>8. CASE store' = retried /\ settled' = settled
      BY <1>0, <1>4, <2>1, <2>3, <2>7, <2>8
    <2>9. CASE store' = RemoveAt(retried, i) /\ settled' = settled \cup {key}
      <3>1. retried[i].key = key /\ key \in Keys(store)
        BY <2>4, <2>5 DEF Keys
      <3>2. StoreOk(store') /\ Keys(store') = Keys(store) \ {key}
        BY <2>4, <2>7, <2>9, <3>1, SpliceKeys
      <3> QED BY <1>0, <1>4, <2>1, <2>3, <2>9, <3>1, <3>2
    <2> QED BY <2>2, <2>4, <2>8, <2>9
  <1>7. CASE DqTick
    <2> DEFINE w(i) == IF store[i].wait > 0 THEN store[i].wait - 1 ELSE 0
    <2>1. /\ store' = [i \in DOMAIN store |-> [store[i] EXCEPT !.wait = w(i)]]
          /\ UNCHANGED <<drain, accepted, settled, overlapped>>
      BY <1>7 DEF DqTick
    <2> SUFFICES ASSUME ~overlapped
                 PROVE  StoreOk(store)' /\ DrainsOk' /\ OneDrain' /\ (accepted = Queued \cup settled)'
      BY <2>1 DEF QueueInv
    <2>2. StoreOk(store) /\ DrainsOk /\ OneDrain /\ accepted = Queued \cup settled
      BY DEF QueueInv
    <2>3. DOMAIN store = 1..Len(store)
      BY <2>2, OwnElements DEF StoreOk
    <2> HIDE DEF w
    <2>4. \A i \in DOMAIN store : IsItem(store'[i]) /\ store'[i].key = store[i].key
      BY <2>1, <2>2, <2>3 DEF StoreOk, IsItem
    <2>5. StoreOk(store') /\ Keys(store') = Keys(store) /\ Len(store') = Len(store)
      <3>1. store' = [i \in DOMAIN store |-> store'[i]]
        BY <2>1
      <3> QED BY <2>2, <2>4, <3>1, SameKeys
    <2>6. DrainsOk'
      BY <2>1, <2>2, <2>3, <2>4, <2>5 DEF DrainsOk
    <2> QED BY <1>0, <2>1, <2>2, <2>5, <2>6 DEF OneDrain
  <1>8. CASE UNCHANGED dqVars
    <2>1. UNCHANGED <<store, drain, accepted, settled, overlapped>>
      BY <1>8 DEF dqVars
    <2> QED BY <1>0, <2>1 DEF QueueInv, DrainsOk, OneDrain
  <1> QED BY <1>1, <1>2, <1>3, <1>5, <1>6, <1>7, <1>8 DEF DqNext

\* An attestation that was answered "queued" stays in the store until its submission has
\* succeeded or been refused for good, and the store holds it once, while no two drains
\* have overlapped: for any number of keys and drains.
THEOREM QueueLosesNothing == DqSpec => []QueuedNotLost
  <1>1. QueueInv => QueuedNotLost
    BY KeysCount DEF QueueInv, QueuedNotLost, Queued, Keys
  <1> QED BY QueueInit, QueueStep, <1>1, PTL DEF DqSpec


(***************************************************************************)
(* BatchingQueue, for every set of items and every positive configuration. *)
(* Types.                                                                  *)
(***************************************************************************)

\* What TakeBatch leaves: the two halves of the queue it splits.
LEMMA SplitTypes ==
  ASSUME NEW q \in Seq(Items), NEW n \in Nat, n <= Len(q)
  PROVE  /\ SubSeq(q, n + 1, Len(q)) \in Seq(Items)
         /\ {q[j] : j \in 1..n} \in SUBSET Items
  OBVIOUS

\* CheckTriggers and DoFlush keep the types when given a well-typed queue and timers.
LEMMA TriggerTypes ==
  ASSUME TypeOK, NEW q \in Seq(Items), q # <<>>,
         NEW t \in (0..MaxLatency) \cup {NoTimer},
         NEW ds \in [0..FlushCooldown -> Nat],
         CheckTriggers(q, t, ds) \/ DoFlush(q, t, ds)
  PROVE  /\ queue' \in Seq(Items)
         /\ timer' \in (0..MaxLatency) \cup {NoTimer}
         /\ deferred' \in [0..FlushCooldown -> Nat]
         /\ sinceFlush' \in 0..FlushCooldown
         /\ flushing' \in BOOLEAN
         /\ batch' \in SUBSET Items
         /\ stall' \in 0..MaxStall
  <1>1. CASE TakeBatch(q) /\ deferred' = ds
    <2>1. BatchSize(q) \in Nat /\ BatchSize(q) <= Len(q)
      BY ConfigAssumption DEF BatchSize, Least
    <2>2. queue' \in Seq(Items) /\ batch' \in SUBSET Items
      BY <1>1, <2>1, SplitTypes DEF TakeBatch
    <2> QED BY <1>1, <2>2, ConfigAssumption DEF TakeBatch
  <1>2. CASE StayIdle(q, t, ds)
    BY <1>2 DEF StayIdle, TypeOK
  <1>3. CASE /\ sinceFlush < FlushCooldown
             /\ StayIdle(q, t, [ds EXCEPT ![FlushCooldown - sinceFlush] = @ + 1])
    <2>1. FlushCooldown - sinceFlush \in 0..FlushCooldown
      BY ConfigAssumption DEF TypeOK
    <2>2. [ds EXCEPT ![FlushCooldown - sinceFlush] = @ + 1] \in [0..FlushCooldown -> Nat]
      BY <2>1
    <2> QED BY <1>3, <2>2 DEF StayIdle, TypeOK
  <1> QED BY <1>1, <1>2, <1>3 DEF CheckTriggers, DoFlush

\* Every variable keeps its type (theorem of the specification).
THEOREM TypeCorrect == Spec => []TypeOK
  <1>1. Init => TypeOK
    <2> SUFFICES ASSUME Init PROVE TypeOK
      OBVIOUS
    <2>1. queue \in Seq(Items) /\ batch \in SUBSET Items
      BY DEF Init
    <2>2. age \in [Items -> 0..MaxLatency] /\ deferred \in [0..FlushCooldown -> Nat]
      BY ConfigAssumption DEF Init
    <2>3. /\ timer \in (0..MaxLatency) \cup {NoTimer}
          /\ sinceFlush \in 0..FlushCooldown
          /\ stall \in 0..MaxStall
      BY ConfigAssumption DEF Init
    <2>4. promise \in [Items -> {"none", "pending", "resolved", "rejected"}]
      BY DEF Init
    <2>5. flushing \in BOOLEAN
      BY DEF Init
    <2> QED BY <2>1, <2>2, <2>3, <2>4, <2>5 DEF TypeOK
  <1>2. TypeOK /\ [Next]_vars => TypeOK'
    <2> SUFFICES ASSUME TypeOK, [Next]_vars PROVE TypeOK'
      OBVIOUS
    <2>1. ASSUME NEW i \in Items, Enqueue(i) PROVE TypeOK'
      <3> DEFINE q == Append(queue, i)
                 t == IF Len(q) = 1 THEN MaxLatency ELSE timer
      <3>1. /\ q \in Seq(Items) /\ q # <<>>
            /\ t \in (0..MaxLatency) \cup {NoTimer}
            /\ age' \in [Items -> 0..MaxLatency]
            /\ promise' \in [Items -> {"none", "pending", "resolved", "rejected"}]
        <4>1. q \in Seq(Items) /\ q # <<>>
          <5>1. queue \in Seq(Items)
            BY DEF TypeOK
          <5>2. q \in Seq(Items) /\ Len(q) = Len(queue) + 1 /\ Len(queue) \in Nat
            BY <5>1
          <5>3. Len(q) # 0
            BY <5>2
          <5> HIDE DEF q
          <5> QED BY <5>2, <5>3
        <4>2. t \in (0..MaxLatency) \cup {NoTimer}
          BY ConfigAssumption DEF TypeOK
        <4>3. age' \in [Items -> 0..MaxLatency]
          BY <2>1, ConfigAssumption DEF TypeOK, Enqueue
        <4>4. promise' \in [Items -> {"none", "pending", "resolved", "rejected"}]
          BY <2>1 DEF TypeOK, Enqueue
        <4> QED BY <4>1, <4>2, <4>3, <4>4
      <3>2. CASE flushing
        <4>1. StayBusy(q, t, deferred)
          BY <2>1, <3>2 DEF Enqueue
        <4> QED BY <3>1, <4>1 DEF StayBusy, TypeOK
      <3>3. CASE ~flushing
        <4>1. CheckTriggers(q, t, deferred)
          BY <2>1, <3>3 DEF Enqueue
        <4> HIDE DEF q, t
        <4> QED BY <3>1, <4>1, TriggerTypes DEF TypeOK
      <3> QED BY <3>2, <3>3
    <2>2. CASE FlushNow
      <3>1. BatchSize(queue) \in Nat /\ BatchSize(queue) <= Len(queue)
        BY ConfigAssumption DEF BatchSize, Least, TypeOK
      <3>2. queue' \in Seq(Items) /\ batch' \in SUBSET Items
        BY <2>2, <3>1, SplitTypes DEF FlushNow, TakeBatch, TypeOK
      <3> QED BY <2>2, <3>2, ConfigAssumption DEF FlushNow, TakeBatch, TypeOK
    <2>3. CASE Drain
      BY <2>3, ConfigAssumption DEF Drain, TypeOK
    <2>4. CASE LatencyTimerFires
      BY <2>4, TriggerTypes DEF LatencyTimerFires, WorkToFlush, StayBusy, TypeOK
    <2>5. CASE CooldownTimerFires
      <3> DEFINE ds == [deferred EXCEPT ![0] = @ - 1]
      <3>1. ds \in [0..FlushCooldown -> Nat]
        BY <2>5, ConfigAssumption DEF CooldownTimerFires, TypeOK
      <3>2. CASE WorkToFlush
        <4>1. DoFlush(queue, timer, ds) /\ UNCHANGED <<age, promise>>
          BY <2>5, <3>2 DEF CooldownTimerFires
        <4> HIDE DEF ds
        <4> QED BY <3>1, <3>2, <4>1, TriggerTypes DEF WorkToFlush, TypeOK
      <3>3. CASE ~WorkToFlush
        BY <2>5, <3>1, <3>3 DEF CooldownTimerFires, StayBusy, TypeOK
      <3> QED BY <3>2, <3>3
    <2>6. ASSUME NEW i \in Items, SettleItem(i) PROVE TypeOK'
      BY <2>6 DEF SettleItem, TypeOK
    <2>7. ASSUME FinishFlush, UNCHANGED age,
                 promise' \in [Items -> {"none", "pending", "resolved", "rejected"}]
          PROVE  TypeOK'
      <3> DEFINE t == IF queue # <<>> THEN LatencyLeft(queue, age) ELSE timer
      <3>1. t \in (0..MaxLatency) \cup {NoTimer}
        <4>1. CASE queue # <<>>
          <5>1. queue[1] \in Items
            BY <4>1 DEF TypeOK
          <5>2. age[queue[1]] \in 0..MaxLatency
            BY <5>1 DEF TypeOK
          <5> QED BY <4>1, <5>2, ConfigAssumption DEF LatencyLeft
        <4>2. CASE queue = <<>>
          BY <4>2 DEF TypeOK
        <4> QED BY <4>1, <4>2
      <3>2. CheckTriggers(queue, t, deferred)
        BY <2>7 DEF FinishFlush
      <3> HIDE DEF t
      <3>3. CASE queue # <<>>
        BY <2>7, <3>1, <3>2, <3>3, TriggerTypes DEF TypeOK
      <3>4. CASE queue = <<>>
        <4>1. StayIdle(queue, t, deferred)
          BY <3>2, <3>4, ConfigAssumption DEF CheckTriggers
        <4> QED BY <2>7, <3>1, <4>1 DEF StayIdle, TypeOK
      <3> QED BY <3>3, <3>4
    <2>8. CASE FlushReturns
      BY <2>7, <2>8 DEF FlushReturns, TypeOK
    <2>9. CASE FlushThrows
      <3>1. promise' \in [Items -> {"none", "pending", "resolved", "rejected"}]
        BY <2>9 DEF FlushThrows, TypeOK
      <3> QED BY <2>7, <2>9, <3>1 DEF FlushThrows
    <2>10. CASE Tick
      <3>1. age' \in [Items -> 0..MaxLatency]
        <4>1. age \in [Items -> 0..MaxLatency]
          BY DEF TypeOK
        <4>2. \A i \in Items : Least(age[i] + 1, MaxLatency) \in 0..MaxLatency
          BY <4>1, ConfigAssumption DEF Least
        <4>3. age' = [i \in Items |-> IF promise[i] = "none" THEN 0
                                      ELSE Least(age[i] + 1, MaxLatency)]
          BY <2>10 DEF Tick
        <4> QED BY <4>2, <4>3, ConfigAssumption
      <3>2. timer' \in (0..MaxLatency) \cup {NoTimer}
        BY <2>10, ConfigAssumption DEF Tick, TypeOK, NoTimer
      <3>3. deferred' \in [0..FlushCooldown -> Nat]
        BY <2>10, ConfigAssumption DEF Tick, TypeOK
      <3>4. sinceFlush' \in 0..FlushCooldown /\ stall' \in 0..MaxStall
        BY <2>10, ConfigAssumption DEF Tick, TypeOK, Least, WorkToFlush
      <3> QED BY <2>10, <3>1, <3>2, <3>3, <3>4 DEF Tick, TypeOK
    <2>11. CASE UNCHANGED vars
      BY <2>11 DEF vars, TypeOK
    <2> QED BY <2>1, <2>2, <2>3, <2>4, <2>5, <2>6, <2>8, <2>9, <2>10, <2>11 DEF Next
  <1> QED BY <1>1, <1>2, PTL DEF Spec

(***************************************************************************)
(* No lost wake-up.                                                        *)
(***************************************************************************)

\* A timer that will run doFlush again.
Armed(t, ds) == t # NoTimer \/ \E d \in 0..FlushCooldown : ds[d] > 0

\* doFlush either starts a flush or leaves a cooldown timer behind.
LEMMA DoFlushArms ==
  ASSUME TypeOK, NEW q, NEW t, NEW ds \in [0..FlushCooldown -> Nat], DoFlush(q, t, ds)
  PROVE  flushing' \/ Armed(timer', deferred')
  <1>1. CASE sinceFlush < FlushCooldown
    <2> DEFINE e == FlushCooldown - sinceFlush
    <2>1. e \in 0..FlushCooldown
      BY <1>1, ConfigAssumption DEF TypeOK
    <2>2. [ds EXCEPT ![e] = @ + 1][e] > 0
      BY <2>1
    <2>3. deferred' = [ds EXCEPT ![e] = @ + 1]
      BY <1>1, ConfigAssumption DEF DoFlush, StayIdle, TypeOK
    <2> QED BY <2>1, <2>2, <2>3 DEF Armed
  <1>2. CASE ~(sinceFlush < FlushCooldown)
    BY <1>2 DEF DoFlush, TakeBatch
  <1> QED BY <1>1, <1>2

\* checkTriggers keeps a wake-up that its caller has armed.
LEMMA CheckTriggersKeepsArmed ==
  ASSUME TypeOK, NEW q, NEW t, NEW ds \in [0..FlushCooldown -> Nat],
         CheckTriggers(q, t, ds), q # <<>> => Armed(t, ds)
  PROVE  WakeupPending'
  <1>1. CASE TakeBatch(q)
    BY <1>1 DEF TakeBatch, WakeupPending
  <1>2. CASE DoFlush(q, t, ds)
    BY <1>2, DoFlushArms DEF WakeupPending, Armed
  <1>3. CASE StayIdle(q, t, ds)
    BY <1>3 DEF StayIdle, WakeupPending, Armed
  <1> QED BY <1>1, <1>2, <1>3 DEF CheckTriggers

\* Items never wait without a timer that will flush them, for every configuration:
\* the finally block of doFlush re-arms what the flush itself cleared.
THEOREM NoLostWakeup == Spec => []WakeupPending
  <1>1. Init => WakeupPending
    BY DEF Init, WakeupPending
  <1>2. TypeOK /\ WakeupPending /\ [Next]_vars => WakeupPending'
    <2> SUFFICES ASSUME TypeOK, WakeupPending, [Next]_vars PROVE WakeupPending'
      OBVIOUS
    <2>1. ASSUME NEW i \in Items, Enqueue(i) PROVE WakeupPending'
      <3> DEFINE q == Append(queue, i)
                 t == IF Len(q) = 1 THEN MaxLatency ELSE timer
      <3>1. CASE flushing
        BY <2>1, <3>1 DEF Enqueue, StayBusy, WakeupPending
      <3>2. CASE ~flushing
        <4>1. CheckTriggers(q, t, deferred)
          BY <2>1, <3>2 DEF Enqueue
        <4>2. CASE queue = <<>>
          <5>1. Len(q) = 1
            BY <4>2, <2>1 DEF TypeOK
          <5>2. Armed(t, deferred)
            BY <5>1, ConfigAssumption DEF Armed, NoTimer
          <5> HIDE DEF q, t
          <5> QED BY <4>1, <5>2, CheckTriggersKeepsArmed DEF TypeOK
        <4>3. CASE queue # <<>>
          <5>1. Len(q) # 1
            BY <4>3, <2>1 DEF TypeOK
          <5>2. Armed(t, deferred)
            BY <3>2, <4>3, <5>1 DEF Armed, WakeupPending
          <5> HIDE DEF q, t
          <5> QED BY <4>1, <5>2, CheckTriggersKeepsArmed DEF TypeOK
        <4> QED BY <4>2, <4>3
      <3> QED BY <3>1, <3>2
    <2>2. CASE FlushNow
      BY <2>2 DEF FlushNow, TakeBatch, WakeupPending
    <2>3. CASE Drain
      BY <2>3 DEF Drain, WakeupPending
    <2>4. CASE LatencyTimerFires
      <3>1. CASE WorkToFlush
        BY <2>4, <3>1, DoFlushArms DEF LatencyTimerFires, TypeOK, WakeupPending, Armed
      <3>2. CASE ~WorkToFlush
        BY <2>4, <3>2 DEF LatencyTimerFires, StayBusy, WakeupPending, WorkToFlush
      <3> QED BY <3>1, <3>2
    <2>5. CASE CooldownTimerFires
      <3> DEFINE ds == [deferred EXCEPT ![0] = @ - 1]
      <3>1. CASE WorkToFlush
        <4>1. DoFlush(queue, timer, ds)
          BY <2>5, <3>1 DEF CooldownTimerFires
        <4>2. ds \in [0..FlushCooldown -> Nat]
          BY <2>5, ConfigAssumption DEF CooldownTimerFires, TypeOK
        <4> HIDE DEF ds
        <4> QED BY <4>1, <4>2, DoFlushArms DEF WakeupPending, Armed
      <3>2. CASE ~WorkToFlush
        BY <2>5, <3>2 DEF CooldownTimerFires, StayBusy, WakeupPending, WorkToFlush
      <3> QED BY <3>1, <3>2
    <2>6. ASSUME NEW i \in Items, SettleItem(i) PROVE WakeupPending'
      BY <2>6 DEF SettleItem, WakeupPending
    <2>7. ASSUME FinishFlush PROVE WakeupPending'
      <3> DEFINE t == IF queue # <<>> THEN LatencyLeft(queue, age) ELSE timer
      <3>1. CheckTriggers(queue, t, deferred)
        BY <2>7 DEF FinishFlush
      <3>2. ASSUME queue # <<>> PROVE Armed(t, deferred)
        <4>1. queue[1] \in Items
          BY <3>2 DEF TypeOK
        <4>2. age[queue[1]] \in 0..MaxLatency
          BY <4>1 DEF TypeOK
        <4>3. t # NoTimer
          BY <3>2, <4>2, ConfigAssumption DEF LatencyLeft, NoTimer
        <4> QED BY <4>3 DEF Armed
      <3> HIDE DEF t
      <3> QED BY <3>1, <3>2, CheckTriggersKeepsArmed DEF TypeOK
    <2>8. CASE FlushReturns \/ FlushThrows
      BY <2>7, <2>8 DEF FlushReturns, FlushThrows
    <2>9. CASE Tick
      <3> SUFFICES ASSUME queue # <<>>, ~flushing PROVE Armed(timer', deferred')
        BY <2>9 DEF Tick, WakeupPending, Armed
      <3>1. CASE timer # NoTimer
        <4>1. timer' # NoTimer
          BY <2>9, <3>1 DEF Tick, TypeOK, NoTimer
        <4> QED BY <4>1 DEF Armed
      <3>2. CASE timer = NoTimer
        <4>1. PICK d \in 0..FlushCooldown : deferred[d] > 0
          BY <3>2 DEF WakeupPending
        <4>2. deferred' = [e \in 0..FlushCooldown |->
                 IF e = 0 THEN deferred[0] + deferred[1]
                 ELSE IF e = FlushCooldown THEN 0 ELSE deferred[e + 1]]
          BY <2>9 DEF Tick
        <4>3. CASE d = 0 \/ d = 1
          <5>1. deferred[0] \in Nat /\ deferred[1] \in Nat
            BY ConfigAssumption DEF TypeOK
          <5>2. deferred'[0] > 0
            BY <4>1, <4>2, <4>3, <5>1, ConfigAssumption
          <5> QED BY <5>2, ConfigAssumption DEF Armed
        <4>4. CASE d # 0 /\ d # 1
          <5>1. d - 1 \in 0..FlushCooldown /\ d - 1 # 0 /\ d - 1 # FlushCooldown
            BY <4>4, ConfigAssumption
          <5>2. deferred'[d - 1] > 0
            BY <4>1, <4>2, <5>1
          <5> QED BY <5>1, <5>2 DEF Armed
        <4> QED BY <4>3, <4>4
      <3> QED BY <3>1, <3>2
    <2>10. CASE UNCHANGED vars
      BY <2>10 DEF vars, WakeupPending
    <2> QED BY <2>1, <2>2, <2>3, <2>4, <2>5, <2>6, <2>8, <2>9, <2>10 DEF Next
  <1> QED BY <1>1, <1>2, TypeCorrect, PTL DEF Spec

(***************************************************************************)
(* The queue implements BatchService.                                      *)
(***************************************************************************)

\* Every way to leave the queue idle or to start a flush rests or serves a prefix.
LEMMA FlushServes ==
  ASSUME NEW q \in Seq(Items), q # <<>>, NEW t, NEW ds,
         CheckTriggers(q, t, ds) \/ DoFlush(q, t, ds) \/ TakeBatch(q) \/ StayIdle(q, t, ds)
  PROVE  Service!RestOrServe(q)
  <1>1. CASE TakeBatch(q)
    <2>1. BatchSize(q) \in 1..Len(q) /\ BatchSize(q) <= MaxBatchSize
      BY ConfigAssumption DEF BatchSize, Least
    <2> QED BY <1>1, <2>1 DEF TakeBatch, Service!RestOrServe
  <1>2. ASSUME NEW x, StayIdle(q, t, x)
        PROVE  Service!RestOrServe(q)
    BY <1>2 DEF StayIdle, Service!RestOrServe
  <1> QED BY <1>1, <1>2 DEF CheckTriggers, DoFlush

\* The finally block of doFlush rests or serves what waits, if anything does.
LEMMA FinishServes ==
  ASSUME TypeOK, FinishFlush
  PROVE  Service!RestOrServe(queue)
  <1> DEFINE t == IF queue # <<>> THEN LatencyLeft(queue, age) ELSE timer
  <1>1. CheckTriggers(queue, t, deferred)
    BY DEF FinishFlush
  <1>2. CASE queue # <<>>
    <2> HIDE DEF t
    <2> QED BY <1>1, <1>2, FlushServes DEF TypeOK
  <1>3. CASE queue = <<>>
    <2>1. Len(queue) < MaxBatchSize /\ Len(queue) < BackpressureThreshold
      BY <1>3, ConfigAssumption
    <2>2. StayIdle(queue, t, deferred)
      BY <1>1, <2>1, ConfigAssumption, <1>3 DEF CheckTriggers
    <2> QED BY <2>2 DEF StayIdle, Service!RestOrServe
  <1> QED BY <1>2, <1>3

\* For every configuration the queue serves items in the order of enqueue, in batches of
\* at most maxBatchSize, one at a time, and settles each promise once.
THEOREM QueueImplementsService == Spec => ImplementsService
  <1>1. Init => Service!Init
    BY DEF Init, Service!Init
  <1>2. ASSUME TypeOK, [Next]_vars
        PROVE  [Service!Next]_(Service!vars)
    <2>1. ASSUME NEW i \in Items, Enqueue(i)
          PROVE  Service!Accept(i)
      <3> DEFINE q == Append(queue, i)
                 t == IF Len(q) = 1 THEN MaxLatency ELSE timer
      <3>1. CASE flushing
        BY <2>1, <3>1 DEF Enqueue, StayBusy, Service!Accept
      <3>2. CASE ~flushing
        <4>1. CheckTriggers(q, t, deferred)
          BY <2>1, <3>2 DEF Enqueue
        <4>2. q \in Seq(Items) /\ q # <<>>
          BY <1>2 DEF TypeOK
        <4>3. Service!RestOrServe(q)
          <5> HIDE DEF q, t
          <5> QED BY <4>1, <4>2, FlushServes
        <4> QED BY <2>1, <3>2, <4>3 DEF Enqueue, Service!Accept
      <3> QED BY <3>1, <3>2
    <2>2. ASSUME FlushNow
          PROVE  Service!Start
      <3>1. queue \in Seq(Items) /\ queue # <<>> /\ TakeBatch(queue)
        BY <1>2, <2>2 DEF FlushNow, TypeOK
      <3> QED BY <2>2, <3>1, FlushServes DEF FlushNow, Service!Start
    <2>3. ASSUME Drain
          PROVE  Service!Drop
      BY <2>3 DEF Drain, Service!Drop
    <2>4. ASSUME LatencyTimerFires
          PROVE  Service!Start \/ UNCHANGED Service!vars
      <3>1. CASE WorkToFlush
        BY <1>2, <2>4, <3>1, FlushServes DEF LatencyTimerFires, WorkToFlush, TypeOK, Service!Start
      <3>2. CASE ~WorkToFlush
        BY <2>4, <3>2 DEF LatencyTimerFires, StayBusy, Service!vars
      <3> QED BY <3>1, <3>2
    <2>5. ASSUME CooldownTimerFires
          PROVE  Service!Start \/ UNCHANGED Service!vars
      <3>1. CASE WorkToFlush
        BY <1>2, <2>5, <3>1, FlushServes DEF CooldownTimerFires, WorkToFlush, TypeOK, Service!Start
      <3>2. CASE ~WorkToFlush
        BY <2>5, <3>2 DEF CooldownTimerFires, StayBusy, Service!vars
      <3> QED BY <3>1, <3>2
    <2>6. ASSUME NEW i \in Items, SettleItem(i)
          PROVE  Service!Settle(i)
      BY <2>6 DEF SettleItem, Service!Settle
    <2>7. ASSUME FlushReturns
          PROVE  Service!End
      <3>1. promise' = [i \in Items |-> IF i \in batch THEN "rejected" ELSE promise[i]]
        BY <1>2, <2>7 DEF FlushReturns, TypeOK
      <3> QED BY <1>2, <2>7, <3>1, FinishServes DEF FlushReturns, Service!End
    <2>8. ASSUME FlushThrows
          PROVE  Service!End
      BY <1>2, <2>8, FinishServes DEF FlushThrows, Service!End
    <2>9. CASE Tick \/ UNCHANGED vars
      BY <2>9 DEF Tick, vars, Service!vars
    <2> QED BY <1>2, <2>1, <2>2, <2>3, <2>4, <2>5, <2>6, <2>7, <2>8, <2>9 DEF Next, Service!Next
  <1> QED BY <1>1, <1>2, TypeCorrect, PTL DEF Spec, Service!Spec, ImplementsService

(***************************************************************************)
(* How long items wait.                                                    *)
(***************************************************************************)

\* The limit of a wait: the larger of maxLatencyMs and flushCooldownMs.
Within(x) == x <= MaxLatency \/ x <= FlushCooldown

\* After a wait of s a timer is due in time.
Soon(s, t, ds) ==
  \/ t # NoTimer /\ Within(s + t)
  \/ \E d \in 0..FlushCooldown : ds[d] > 0 /\ Within(s + d)

\* Nothing is charged while nothing waits or a flush runs; within the cooldown window the wait
\* is not longer than the window has lasted; and what waits has a timer that is due in time.
StallInv ==
  /\ queue = <<>> \/ flushing => stall = 0
  /\ sinceFlush < FlushCooldown => stall <= sinceFlush
  /\ WorkToFlush => Soon(stall, timer, deferred)

\* A deferral to the end of the cooldown window is in time.
LEMMA DoFlushInTime ==
  ASSUME TypeOK, StallInv, NEW q, q # <<>>, NEW t, NEW ds \in [0..FlushCooldown -> Nat], DoFlush(q, t, ds)
  PROVE  StallInv'
  <1>1. CASE sinceFlush < FlushCooldown /\ StayIdle(q, t, [ds EXCEPT ![FlushCooldown - sinceFlush] = @ + 1])
    <2>1. PICK d : d = FlushCooldown - sinceFlush
      OBVIOUS
    <2>2. d \in 0..FlushCooldown /\ stall \in Nat /\ Within(stall + d)
      BY <1>1, <2>1, ConfigAssumption DEF TypeOK, StallInv, Within
    <2>3. ds[d] \in Nat
      BY <2>2
    <2>4. deferred'[d] > 0
      BY <1>1, <2>1, <2>2, <2>3 DEF StayIdle
    <2>5. stall' = stall /\ sinceFlush' = sinceFlush /\ queue' # <<>> /\ flushing' = FALSE
      BY <1>1 DEF StayIdle
    <2>6. Soon(stall, timer, deferred)'
      BY <2>2, <2>4, <2>5 DEF Soon, Within
    <2> QED BY <2>5, <2>6 DEF StallInv
  <1>2. CASE TakeBatch(q)
    BY <1>2, ConfigAssumption DEF TakeBatch, StallInv, WorkToFlush
  <1> QED BY <1>1, <1>2 DEF DoFlush

\* The triggers leave what they are given in time, start a flush, or defer to the end of the
\* window.
LEMMA TriggersInTime ==
  ASSUME TypeOK, StallInv, NEW q, q # <<>>, NEW t, NEW ds \in [0..FlushCooldown -> Nat],
         Soon(stall, t, ds), CheckTriggers(q, t, ds)
  PROVE  StallInv'
  <1>1. CASE TakeBatch(q)
    BY <1>1, ConfigAssumption DEF TakeBatch, StallInv, WorkToFlush
  <1>2. CASE DoFlush(q, t, ds)
    BY <1>2, DoFlushInTime
  <1>3. CASE StayIdle(q, t, ds)
    <2>1. stall' = stall /\ sinceFlush' = sinceFlush /\ timer' = t /\ deferred' = ds /\ queue' = q /\ flushing' = FALSE
      BY <1>3 DEF StayIdle
    <2>2. Soon(stall, timer, deferred)'
      BY <2>1 DEF Soon, Within
    <2> QED BY <2>1, <2>2 DEF StallInv
  <1> QED BY <1>1, <1>2, <1>3 DEF CheckTriggers

\* One more of a wait and one less of a timer.
LEMMA SmallerWithin ==
  ASSUME NEW s \in Nat, NEW x \in Nat, Within(s + x), NEW s1 \in Nat, s1 =< s + 1, NEW x1 \in Int, x1 = x - 1
  PROVE  Within(s1 + x1)
  <1>1. s1 + x1 =< s + x /\ s1 + x1 \in Int /\ s + x \in Int
    OBVIOUS
  <1>2. MaxLatency \in Int /\ FlushCooldown \in Int
    BY ConfigAssumption
  <1> QED BY <1>1, <1>2 DEF Within

\* A millisecond brings every timer closer by what it adds to the wait.
LEMMA TickInTime ==
  ASSUME TypeOK, StallInv, Tick
  PROVE  StallInv'
  <1>t. /\ stall \in Nat /\ sinceFlush \in 0..FlushCooldown /\ timer \in (0..MaxLatency) \cup {NoTimer}
        /\ deferred \in [0..FlushCooldown -> Nat] /\ FlushCooldown \in Nat \ {0} /\ MaxStall \in Nat /\ MaxLatency \in Nat
    BY ConfigAssumption DEF TypeOK
  <1>1. /\ queue' = queue /\ flushing' = flushing /\ sinceFlush' = Least(sinceFlush + 1, FlushCooldown)
        /\ stall' = IF WorkToFlush /\ ~TimerDue THEN Least(stall + 1, MaxStall) ELSE stall
        /\ timer' = IF timer > 0 THEN timer - 1 ELSE timer
        /\ deferred' = [d \in 0..FlushCooldown |->
                          IF d = 0 THEN deferred[0] + deferred[1]
                          ELSE IF d = FlushCooldown THEN 0 ELSE deferred[d + 1]]
    BY DEF Tick
  <1>2. stall' \in Nat /\ stall' =< stall + 1 /\ (TimerDue => stall' = stall) /\ (~WorkToFlush => stall' = stall)
    BY <1>t, <1>1 DEF Least
  <1>3. queue' = <<>> \/ flushing' => stall' = 0
    BY <1>1, <1>2 DEF StallInv, WorkToFlush
  <1>4. sinceFlush' < FlushCooldown => stall' <= sinceFlush'
    <2>1. stall <= sinceFlush \/ sinceFlush = FlushCooldown
      BY <1>t DEF StallInv
    <2> QED BY <1>t, <1>1, <1>2, <2>1 DEF Least
  <1>5. ASSUME WorkToFlush PROVE Soon(stall', timer', deferred')
    <2>1. Soon(stall, timer, deferred)
      BY <1>5 DEF StallInv
    <2>2. CASE timer # NoTimer /\ Within(stall + timer)
      <3>1. timer \in Nat
        BY <1>t, <2>2
      <3>2. CASE timer = 0
        <4>1. timer' = 0 /\ stall' = stall
          BY <1>1, <1>2, <3>2 DEF TimerDue
        <4> QED BY <2>2, <3>2, <4>1 DEF Soon
      <3>3. CASE timer > 0
        <4>1. timer' = timer - 1 /\ timer' # NoTimer
          BY <1>1, <3>1, <3>3 DEF NoTimer
        <4>2. Within(stall' + timer')
          <5>1. PICK s, x, s1, x1 : s = stall /\ x = timer /\ s1 = stall' /\ x1 = timer'
            OBVIOUS
          <5>2. s \in Nat /\ x \in Nat /\ s1 \in Nat /\ x1 = x - 1 /\ s1 =< s + 1 /\ Within(s + x)
            BY <1>2, <1>t, <2>2, <3>1, <4>1, <5>1
          <5>3. x1 \in Int
            BY <5>2
          <5>4. Within(s1 + x1)
            BY <5>2, <5>3, SmallerWithin
          <5> QED BY <5>1, <5>4
        <4> QED BY <4>1, <4>2 DEF Soon
      <3> QED BY <3>1, <3>2, <3>3
    <2>3. ASSUME NEW d \in 0..FlushCooldown, deferred[d] > 0, Within(stall + d) PROVE Soon(stall', timer', deferred')
      <3>0. deferred[0] \in Nat /\ deferred[1] \in Nat /\ deferred[d] \in Nat
        BY <1>t
      <3>1. CASE d = 0
        <4>1. stall' = stall
          BY <1>2, <2>3, <3>1 DEF TimerDue
        <4>2. deferred'[0] > 0
          BY <1>t, <1>1, <2>3, <3>0, <3>1
        <4> QED BY <2>3, <3>1, <4>1, <4>2 DEF Soon
      <3>2. CASE d # 0
        <4>1. PICK e : e = d - 1
          OBVIOUS
        <4>2. e \in 0..FlushCooldown /\ e # FlushCooldown /\ e + 1 = d
          BY <1>t, <3>2, <4>1
        <4>3. deferred'[e] > 0
          <5>1. CASE e = 0
            BY <1>t, <1>1, <2>3, <3>0, <4>2, <5>1
          <5>2. CASE e # 0
            BY <1>1, <2>3, <4>2, <5>2
          <5> QED BY <5>1, <5>2
        <4>4. Within(stall' + e)
          <5>1. PICK s, s1 : s = stall /\ s1 = stall'
            OBVIOUS
          <5>2. s \in Nat /\ s1 \in Nat /\ s1 =< s + 1 /\ Within(s + d)
            BY <1>2, <1>t, <2>3, <5>1
          <5>3. d \in Nat /\ e \in Int
            BY <4>2
          <5>4. Within(s1 + e)
            BY <4>1, <5>2, <5>3, SmallerWithin
          <5> QED BY <5>1, <5>4
        <4> QED BY <4>2, <4>3, <4>4 DEF Soon
      <3> QED BY <3>1, <3>2
    <2> QED BY <2>1, <2>2, <2>3 DEF Soon
  <1>6. WorkToFlush' => Soon(stall, timer, deferred)'
    BY <1>1, <1>5 DEF WorkToFlush, Soon, Within
  <1> QED BY <1>3, <1>4, <1>6 DEF StallInv

\* Apart from the time that a due timer waits for a busy event loop, items never wait longer
\* than the larger of maxLatencyMs and flushCooldownMs while no flush runs, for every
\* configuration: the safety half of EveryItemSettles (batchingQueue.ts, doFlush and its finally block).
THEOREM WaitsAreBounded == Spec => [](stall <= MaxLatency \/ stall <= FlushCooldown)
  <1>1. Init => StallInv
    BY ConfigAssumption DEF Init, StallInv, WorkToFlush
  <1>2. TypeOK /\ StallInv /\ [Next]_vars => StallInv'
    <2> SUFFICES ASSUME TypeOK, StallInv, [Next]_vars PROVE StallInv'
      OBVIOUS
    <2>t. deferred \in [0..FlushCooldown -> Nat] /\ queue \in Seq(Items)
      BY DEF TypeOK
    <2>1. ASSUME NEW i \in Items, Enqueue(i) PROVE StallInv'
      <3>1. PICK q, t : q = Append(queue, i) /\ t = IF Len(q) = 1 THEN MaxLatency ELSE timer
        OBVIOUS
      <3>2. IF flushing THEN StayBusy(q, t, deferred) ELSE CheckTriggers(q, t, deferred)
        BY <2>1, <3>1 DEF Enqueue
      <3>3. q # <<>>
        BY <2>t, <3>1
      <3>4. CASE flushing
        BY <3>2, <3>4 DEF StayBusy, StallInv, WorkToFlush
      <3>5. CASE ~flushing
        <4>1. CASE queue = <<>>
          <5>1. stall = 0 /\ Len(q) = 1
            BY <3>1, <4>1 DEF StallInv
          <5>2. Soon(stall, t, deferred)
            BY <3>1, <5>1, ConfigAssumption DEF Soon, Within, NoTimer
          <5> QED BY <2>t, <3>2, <3>3, <3>5, <5>2, TriggersInTime
        <4>2. CASE queue # <<>>
          <5>1. t = timer
            BY <2>t, <3>1, <4>2
          <5>2. Soon(stall, t, deferred)
            BY <3>5, <4>2, <5>1 DEF StallInv, WorkToFlush
          <5> QED BY <2>t, <3>2, <3>3, <3>5, <5>2, TriggersInTime
        <4> QED BY <4>1, <4>2
      <3> QED BY <3>4, <3>5
    <2>2. CASE FlushNow
      BY <2>2, ConfigAssumption DEF FlushNow, TakeBatch, StallInv, WorkToFlush
    <2>3. CASE Drain
      BY <2>3, ConfigAssumption DEF Drain, StallInv, WorkToFlush, TypeOK
    <2>4. CASE LatencyTimerFires
      <3>1. CASE WorkToFlush
        BY <2>4, <2>t, <3>1, DoFlushInTime DEF LatencyTimerFires, WorkToFlush
      <3>2. CASE ~WorkToFlush
        BY <2>4, <3>2 DEF LatencyTimerFires, StayBusy, StallInv, WorkToFlush
      <3> QED BY <3>1, <3>2
    <2>5. CASE CooldownTimerFires
      <3>1. PICK ds : ds = [deferred EXCEPT ![0] = deferred[0] - 1]
        OBVIOUS
      <3>2. ds \in [0..FlushCooldown -> Nat]
        BY <2>5, <2>t, <3>1, ConfigAssumption DEF CooldownTimerFires
      <3>3. CASE WorkToFlush
        <4>1. DoFlush(queue, timer, ds)
          BY <2>5, <3>1, <3>3 DEF CooldownTimerFires
        <4> QED BY <3>2, <3>3, <4>1, DoFlushInTime DEF WorkToFlush
      <3>4. CASE ~WorkToFlush
        BY <2>5, <3>4 DEF CooldownTimerFires, StayBusy, StallInv, WorkToFlush
      <3> QED BY <3>3, <3>4
    <2>6. ASSUME NEW i \in Items, SettleItem(i) PROVE StallInv'
      BY <2>6 DEF SettleItem, StallInv, WorkToFlush, Soon, Within
    <2>7. ASSUME flushing, FinishFlush PROVE StallInv'
      <3>1. PICK t : t = IF queue # <<>> THEN LatencyLeft(queue, age) ELSE timer
        OBVIOUS
      <3>2. CheckTriggers(queue, t, deferred) /\ stall = 0
        BY <2>7, <3>1 DEF FinishFlush, StallInv
      <3>3. CASE queue # <<>>
        <4>1. queue[1] \in Items
          BY <2>t, <3>3
        <4>2. age[queue[1]] \in 0..MaxLatency
          BY <4>1 DEF TypeOK
        <4>3. t \in 0..MaxLatency
          BY <3>1, <3>3, <4>2, ConfigAssumption DEF LatencyLeft
        <4>4. Soon(stall, t, deferred)
          BY <3>2, <4>3, ConfigAssumption DEF Soon, Within, NoTimer
        <4> QED BY <2>t, <3>2, <3>3, <4>4, TriggersInTime
      <3>4. CASE queue = <<>>
        <4>1. Len(queue) < MaxBatchSize /\ Len(queue) < BackpressureThreshold
          BY <3>4, ConfigAssumption
        <4>2. StayIdle(queue, t, deferred)
          BY <3>2, <3>4, <4>1, ConfigAssumption DEF CheckTriggers
        <4> QED BY <3>2, <3>4, <4>2 DEF StayIdle, StallInv, WorkToFlush
      <3> QED BY <3>3, <3>4
    <2>8. CASE FlushReturns \/ FlushThrows
      BY <2>7, <2>8 DEF FlushReturns, FlushThrows
    <2>9. CASE Tick
      BY <2>9, TickInTime
    <2>10. CASE UNCHANGED vars
      BY <2>10 DEF vars, StallInv, WorkToFlush, Soon, Within
    <2> QED BY <2>1, <2>2, <2>3, <2>4, <2>5, <2>6, <2>8, <2>9, <2>10 DEF Next
  <1>3. TypeOK /\ StallInv => (stall <= MaxLatency \/ stall <= FlushCooldown)
    <2> SUFFICES ASSUME TypeOK, StallInv PROVE Within(stall)
      BY DEF Within
    <2>1. stall \in Nat /\ timer \in (0..MaxLatency) \cup {NoTimer} /\ MaxLatency \in Nat /\ FlushCooldown \in Nat
      BY ConfigAssumption DEF TypeOK
    <2>2. CASE WorkToFlush
      <3>1. PICK x \in Nat : Within(stall + x)
        <4>1. Soon(stall, timer, deferred)
          BY <2>2 DEF StallInv
        <4>2. CASE timer # NoTimer /\ Within(stall + timer)
          BY <2>1, <4>2
        <4>3. ASSUME NEW d \in 0..FlushCooldown, Within(stall + d) PROVE \E x \in Nat : Within(stall + x)
          BY <2>1, <4>3
        <4> QED BY <4>1, <4>2, <4>3 DEF Soon
      <3> QED BY <2>1, <3>1 DEF Within
    <2>3. CASE ~WorkToFlush
      BY <2>1, <2>3 DEF StallInv, WorkToFlush, Within
    <2> QED BY <2>2, <2>3
  <1> QED BY <1>1, <1>2, <1>3, TypeCorrect, PTL DEF Spec

(***************************************************************************)
(* What a caller has been told stays.  By the refinement it is enough to   *)
(* look at the service.                                                    *)
(***************************************************************************)

\* What waits and what is being served are different items, each once, and none of them has
\* been settled; nothing is being served while no batch runs.
PendingInv ==
  /\ \A j \in 1..Len(queue) : promise[queue[j]] = "pending" /\ queue[j] \notin batch
  /\ \A j, k \in 1..Len(queue) : queue[j] = queue[k] => j = k
  /\ \A i \in batch : promise[i] = "pending"
  /\ ~flushing => batch = {}

\* A promise that has been settled is not settled again.
SettledStay == \A i \in Items : promise[i] \in {"resolved", "rejected"} => promise'[i] = promise[i]

\* Resting or serving a prefix of a queue without repetitions, none of which is settled.
LEMMA RestOrServePending ==
  ASSUME NEW q \in Seq(Items), \A j \in 1..Len(q) : promise'[q[j]] = "pending",
         \A j, k \in 1..Len(q) : q[j] = q[k] => j = k, Service!RestOrServe(q)
  PROVE  PendingInv'
  <1>1. CASE queue' = q /\ flushing' = FALSE /\ batch' = {}
    BY <1>1 DEF PendingInv
  <1>2. ASSUME NEW n \in 1..Len(q), batch' = {q[j] : j \in 1..n}, queue' = SubSeq(q, n + 1, Len(q)), flushing' = TRUE
        PROVE  PendingInv'
    <2>1. PICK m, rest : m = Len(q) /\ rest = SubSeq(q, n + 1, m)
      OBVIOUS
    <2>2. m \in Nat /\ n \in Nat /\ n >= 1 /\ n =< m
      BY <2>1
    <2>3. Len(rest) = m - n /\ \A j \in 1..(m - n) : rest[j] = q[n + j]
      BY <2>1, <2>2
    <2>4. \A j \in 1..(m - n) : n + j \in 1..m /\ n + j > n /\ j \in Nat
      BY <2>2
    <2>5. \A j \in 1..n : j \in 1..m /\ j =< n
      BY <2>2
    <2>6. \A j \in 1..(m - n) : promise'[rest[j]] = "pending" /\ rest[j] \notin batch'
      <3> SUFFICES ASSUME NEW j \in 1..(m - n) PROVE promise'[rest[j]] = "pending" /\ rest[j] \notin batch'
        OBVIOUS
      <3>1. PICK p : p = n + j
        OBVIOUS
      <3>2. p \in 1..m /\ p > n /\ rest[j] = q[p]
        BY <2>3, <2>4, <3>1
      <3>3. ASSUME NEW k \in 1..n, q[k] = q[p] PROVE FALSE
        <4>1. k \in 1..m /\ k # p
          BY <2>2, <3>2
        <4> QED BY <2>1, <3>2, <3>3, <4>1
      <3> QED BY <1>2, <2>1, <3>2, <3>3
    <2>7. ASSUME NEW j \in 1..(m - n), NEW k \in 1..(m - n), rest[j] = rest[k] PROVE j = k
      <3>1. n + j = n + k
        BY <2>1, <2>3, <2>4, <2>7
      <3> QED BY <2>2, <2>4, <3>1
    <2>8. \A i \in batch' : promise'[i] = "pending"
      BY <1>2, <2>1, <2>5
    <2> QED BY <1>2, <2>1, <2>3, <2>6, <2>7, <2>8 DEF PendingInv
  <1> QED BY <1>1, <1>2 DEF Service!RestOrServe

\* Every step of the service keeps it, and settles nothing that was settled.
LEMMA ServiceSettlesOnce ==
  ASSUME TypeOK, PendingInv, [Service!Next]_(Service!vars)
  PROVE  PendingInv' /\ SettledStay
  <1>t. /\ queue \in Seq(Items) /\ batch \in SUBSET Items
        /\ promise \in [Items -> {"none", "pending", "resolved", "rejected"}]
    BY DEF TypeOK
  <1>p. /\ \A j \in 1..Len(queue) : promise[queue[j]] = "pending" /\ queue[j] \notin batch
        /\ \A j, k \in 1..Len(queue) : queue[j] = queue[k] => j = k
        /\ \A i \in batch : promise[i] = "pending"
        /\ ~flushing => batch = {}
    BY DEF PendingInv
  <1>q. Len(queue) \in Nat /\ \A j \in 1..Len(queue) : queue[j] \in Items
    BY <1>t
  <1>1. ASSUME NEW i \in Items, Service!Accept(i) PROVE PendingInv' /\ SettledStay
    <2>1. promise[i] = "none" /\ promise' = [promise EXCEPT ![i] = "pending"]
      BY <1>1 DEF Service!Accept
    <2>2. promise'[i] = "pending" /\ \A j \in Items : j # i => promise'[j] = promise[j]
      BY <1>t, <2>1
    <2>3. SettledStay
      BY <2>1, <2>2 DEF SettledStay
    <2>4. PICK q, m : q = Append(queue, i) /\ m = Len(queue)
      OBVIOUS
    <2>5. /\ m \in Nat /\ q \in Seq(Items) /\ Len(q) = m + 1 /\ q[m + 1] = i
          /\ \A j \in 1..m : q[j] = queue[j]
      BY <1>t, <2>4
    <2>6. \A j \in 1..(m + 1) : j \in 1..m \/ j = m + 1
      BY <2>5
    <2>7. i \notin batch /\ \A j \in 1..m : queue[j] # i
      BY <1>p, <2>1, <2>4
    <2>8. \A j \in 1..(m + 1) : promise'[q[j]] = "pending" /\ q[j] \notin batch
      BY <1>p, <1>q, <2>2, <2>4, <2>5, <2>6, <2>7
    <2>9. \A j, k \in 1..(m + 1) : q[j] = q[k] => j = k
      BY <1>p, <2>4, <2>5, <2>6, <2>7
    <2>10. CASE flushing /\ queue' = q /\ batch' = batch /\ flushing' = flushing
      <3>1. \A x \in batch : promise'[x] = "pending"
        BY <1>p, <1>t, <2>2, <2>7
      <3> QED BY <2>3, <2>5, <2>8, <2>9, <2>10, <3>1 DEF PendingInv
    <2>11. CASE Service!RestOrServe(q)
      BY <2>3, <2>5, <2>8, <2>9, <2>11, RestOrServePending
    <2> QED BY <1>1, <2>4, <2>10, <2>11 DEF Service!Accept
  <1>2. ASSUME NEW i \in Items, Service!Settle(i) PROVE PendingInv' /\ SettledStay
    <2>1. PICK outcome \in {"resolved", "rejected"} : promise' = [promise EXCEPT ![i] = outcome]
      BY <1>2 DEF Service!Settle
    <2>2. i \in batch /\ batch' = batch \ {i} /\ queue' = queue /\ flushing' = flushing
      BY <1>2 DEF Service!Settle
    <2>3. \A j \in Items : j # i => promise'[j] = promise[j]
      BY <1>t, <2>1
    <2>4. SettledStay
      BY <1>p, <2>2, <2>3 DEF SettledStay
    <2>5. \A j \in 1..Len(queue) : queue[j] # i
      BY <1>p, <2>2
    <2>6. \A j \in 1..Len(queue) : promise'[queue[j]] = "pending"
      BY <1>p, <1>q, <2>3, <2>5
    <2>7. \A x \in batch' : promise'[x] = "pending"
      BY <1>p, <1>t, <2>2, <2>3
    <2> QED BY <1>p, <2>2, <2>4, <2>6, <2>7 DEF PendingInv
  <1>3. ASSUME Service!Start PROVE PendingInv' /\ SettledStay
    <2>1. promise' = promise /\ Service!RestOrServe(queue)
      BY <1>3 DEF Service!Start
    <2>2. PendingInv'
      BY <1>p, <1>t, <2>1, RestOrServePending
    <2> QED BY <2>1, <2>2 DEF SettledStay
  <1>4. ASSUME Service!End PROVE PendingInv' /\ SettledStay
    <2>1. /\ promise' = [i \in Items |-> IF i \in batch THEN "rejected" ELSE promise[i]]
          /\ Service!RestOrServe(queue)
      BY <1>4 DEF Service!End
    <2>2. \A i \in Items : i \notin batch => promise'[i] = promise[i]
      BY <2>1
    <2>3. PendingInv'
      BY <1>p, <1>q, <1>t, <2>1, <2>2, RestOrServePending
    <2>4. SettledStay
      BY <1>p, <2>2 DEF SettledStay
    <2> QED BY <2>3, <2>4
  <1>5. ASSUME Service!Drop PROVE PendingInv' /\ SettledStay
    <2>1. /\ promise' = [i \in Items |-> IF \E j \in 1..Len(queue) : queue[j] = i THEN "rejected" ELSE promise[i]]
          /\ queue' = <<>> /\ batch' = batch /\ flushing' = flushing
      BY <1>5 DEF Service!Drop
    <2>2. \A i \in Items : (\A j \in 1..Len(queue) : queue[j] # i) => promise'[i] = promise[i]
      BY <2>1
    <2>3. SettledStay
      BY <1>p, <2>2 DEF SettledStay
    <2>4. \A x \in batch : promise'[x] = "pending"
      BY <1>p, <1>t, <2>2
    <2>5. Len(queue') = 0
      BY <2>1
    <2> QED BY <1>p, <2>1, <2>3, <2>4, <2>5 DEF PendingInv
  <1>6. CASE UNCHANGED Service!vars
    BY <1>6 DEF Service!vars, PendingInv, SettledStay
  <1> QED BY <1>1, <1>2, <1>3, <1>4, <1>5, <1>6 DEF Service!Next

\* For every configuration and however enqueues, timers, flushes, drains and the settlements of
\* a batch interleave, a promise that was resolved or rejected is never settled again: no item
\* is in two batches, or in a batch and in what drain rejects (batchingQueue.ts, doFlush and drain).
THEOREM PromisesSettleOnce ==
  Spec => [][\A i \in Items : promise[i] \in {"resolved", "rejected"} => promise'[i] = promise[i]]_vars
  <1>1. Init => PendingInv
    BY DEF Init, PendingInv
  <1>2. TypeOK /\ PendingInv /\ [Service!Next]_(Service!vars) => PendingInv' /\ SettledStay
    BY ServiceSettlesOnce
  <1>3. TypeOK /\ PendingInv /\ [Service!Next]_(Service!vars) =>
          [\A i \in Items : promise[i] \in {"resolved", "rejected"} => promise'[i] = promise[i]]_vars
    BY <1>2 DEF SettledStay
  <1>4. TypeOK /\ PendingInv /\ [Service!Next]_(Service!vars) => PendingInv'
    BY <1>2
  <1> QED BY <1>1, <1>3, <1>4, TypeCorrect, QueueImplementsService, PTL DEF Spec, Service!Spec, ImplementsService
=============================================================================
