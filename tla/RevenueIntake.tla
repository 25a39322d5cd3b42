--------------------------- MODULE RevenueIntake ---------------------------
(***************************************************************************)
(* The Kafka consumer of partner revenue events,                           *)
(* services/revenue/kafkaConsumer.ts: one partition, read by one member of *)
(* the consumer group at a time, with manual commits and a dead-letter     *)
(* topic.                                                                  *)
(*                                                                         *)
(* The broker is external: it hands the partition to one member, refuses   *)
(* the commit of a member that has lost it since it took the message, and  *)
(* lets a group that has never committed begin at the end of the log       *)
(* (fromBeginning: false).                                                 *)
(***************************************************************************)
EXTENDS Naturals, FiniteSets

CONSTANTS Members,     \* processes of the consumer group
          NoMember,
          Kinds,       \* Kinds[o]: "good" or "bad": empty, not JSON, no id or amount, a date that throws
          MaxKills     \* bound

ASSUME IntakeAssumption == DOMAIN Kinds \subseteq Nat

VARIABLES produced,    \* offsets 1..produced are in the log
          committed,   \* the next offset of the group; 0 when it never committed
          owner,       \* the member that has the partition
          member,      \* member[m]: what its eachMessage is doing
          handled,     \* offsets whose onRevenue resolved
          dead,        \* offsets sent to the dead-letter topic
          excused,     \* offsets whose dead letter failed, or before the group's first position
          kills

inVars == <<produced, committed, owner, member, handled, dead, excused, kills>>

Stopped == [pc |-> "stopped", at |-> 0, stale |-> FALSE]

InInit ==
    /\ produced = 0 /\ committed = 0 /\ kills = 0
    /\ owner = NoMember
    /\ member = [m \in Members |-> Stopped]
    /\ handled = {} /\ dead = {} /\ excused = {}

InProgress == {"onRevenue", "sendToDlt", "commit"}
Goto(m, pc) == member' = [member EXCEPT ![m].pc = pc]

-----------------------------------------------------------------------------
(* start(): connected and subscribed; `running` stays set if that fails. *)
StartMember(m) ==
    /\ member[m].pc = "stopped"
    /\ Goto(m, "waiting") \/ Goto(m, "unconnected")
    /\ UNCHANGED <<produced, committed, owner, handled, dead, excused, kills>>

(* A member gets the partition, first or by a rebalance. *)
AssignPartition(m) ==
    /\ member[m].pc = "waiting" /\ owner # m
    /\ LET from == IF committed = 0 THEN produced + 1 ELSE committed IN
       /\ member' = [n \in Members |->
             IF n = m THEN [pc |-> "polling", at |-> from, stale |-> FALSE]
             ELSE IF member[n].pc = "polling" THEN [member[n] EXCEPT !.pc = "waiting"]
             ELSE [member[n] EXCEPT !.stale = member[n].pc \in InProgress]]
       /\ excused' = IF committed = 0 THEN 1..(from - 1) ELSE excused
    /\ owner' = m
    /\ UNCHANGED <<produced, committed, handled, dead, kills>>

(* Mutant: the offset is committed before the message is processed. *)
eachMessage_CommitsFirst(m) ==
    /\ member[m].pc = "polling" /\ member[m].at =< produced
    /\ Goto(m, IF Kinds[member[m].at] = "good" THEN "onRevenue" ELSE "sendToDlt")
    /\ committed' = member[m].at + 1
    /\ UNCHANGED <<produced, owner, handled, dead, excused, kills>>

(* eachMessage up to its first await: parsed, validated and normalised. *)
eachMessage(m) ==
    /\ member[m].pc = "polling" /\ member[m].at =< produced
    /\ Goto(m, IF Kinds[member[m].at] = "good" THEN "onRevenue" ELSE "sendToDlt")
    /\ UNCHANGED <<produced, committed, owner, handled, dead, excused, kills>>

OnRevenueDone(m) ==
    /\ member[m].pc = "onRevenue"
    /\ \/ Goto(m, "commit") /\ handled' = handled \cup {member[m].at}
       \/ Goto(m, "sendToDlt") /\ UNCHANGED handled
    /\ UNCHANGED <<produced, committed, owner, dead, excused, kills>>

(* A failure to write the dead letter is logged and swallowed. *)
sendToDlt(m) ==
    /\ member[m].pc = "sendToDlt"
    /\ Goto(m, "commit")
    /\ \/ dead' = dead \cup {member[m].at} /\ UNCHANGED excused
       \/ excused' = excused \cup {member[m].at} /\ UNCHANGED dead
    /\ UNCHANGED <<produced, committed, owner, handled, kills>>

CommitOffset(m) ==
    /\ member[m].pc = "commit" /\ ~member[m].stale
    /\ committed' = member[m].at + 1
    /\ member' = [member EXCEPT ![m].pc = "polling", ![m].at = @ + 1]
    /\ UNCHANGED <<produced, owner, handled, dead, excused, kills>>

(* The broker refuses: eachMessage rejects and the message is read again by
   whoever has the partition. *)
CommitRefused(m) ==
    /\ member[m].pc = "commit"
    /\ member' = [member EXCEPT ![m].pc = IF member[m].stale THEN "waiting" ELSE "polling",
                                ![m].stale = FALSE]
    /\ UNCHANGED <<produced, committed, owner, handled, dead, excused, kills>>

(* stop(): the message in progress is finished first. *)
StopMember(m) ==
    /\ member[m].pc \in {"waiting", "polling", "unconnected"}
    /\ member' = [member EXCEPT ![m] = Stopped]
    /\ owner' = IF owner = m THEN NoMember ELSE owner
    /\ UNCHANGED <<produced, committed, handled, dead, excused, kills>>

KillMember(m) ==
    /\ member[m].pc # "stopped" /\ kills < MaxKills
    /\ kills' = kills + 1
    /\ member' = [member EXCEPT ![m] = Stopped]
    /\ owner' = IF owner = m THEN NoMember ELSE owner
    /\ UNCHANGED <<produced, committed, handled, dead, excused>>

Produce ==
    /\ produced + 1 \in DOMAIN Kinds
    /\ produced' = produced + 1
    /\ UNCHANGED <<committed, owner, member, handled, dead, excused, kills>>

InNext ==
    \/ Produce
    \/ \E m \in Members :
          \/ StartMember(m) \/ AssignPartition(m) \/ eachMessage(m) \/ OnRevenueDone(m)
          \/ sendToDlt(m) \/ CommitOffset(m) \/ CommitRefused(m) \/ StopMember(m) \/ KillMember(m)

InSpec == InInit /\ [][InNext]_inVars

-----------------------------------------------------------------------------
(* Whatever kills, rebalances and refused commits happen in between, an event
   the group will not read again was handled or is in the dead-letter topic.
   The code excuses two cases: a dead letter whose write failed, and events
   from before the first position of a group that never committed. *)
NothingSkipped == 1..(committed - 1) \subseteq handled \cup dead \cup excused
=============================================================================
