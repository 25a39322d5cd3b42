--------------------------- MODULE RebuildIndexer ---------------------------
(***************************************************************************)
(* scripts/rebuild-indexer.ts: the attestations table filled again from    *)
(* the events of the Soroban contract, page by page, with a checkpoint     *)
(* file from which the next run goes on.                                   *)
(*                                                                         *)
(* A ledger position or cursor is the number of events before it; zero is  *)
(* no cursor, since a page that yields one has an event.  A row is the     *)
(* event it was written from: its status is always 'confirmed' afterwards, *)
(* even where the attestation had been revoked.  An operator may start a   *)
(* run while another is going on, and kill either at any time.             *)
(***************************************************************************)
EXTENDS Naturals, Sequences, FiniteSetsExt

CONSTANTS
    Rebuilders,      \* runs of the script at once (a bound)
    ChainAtts,       \* business and period: what buildAttestationId tells apart
    RebuildOptions,  \* [dryRun, businessId, useCheckpoint, fromLedger]
    Everyone,        \* no --business-id
    BusinessOf,      \* the business of an attestation
    PageEvents,      \* --batch-size
    MaxChain         \* bound: events on the chain

ASSUME RebuildAssumption ==
    /\ PageEvents \in Nat \ {0} /\ MaxChain \in Nat
    /\ \A o \in RebuildOptions : o.fromLedger \in Nat

VARIABLES
    events,      \* the contract's events, in the order of the ledger
    indexed,     \* the event each row of the table was written from, or zero
    checkpoint,  \* the cursor in the checkpoint file, or zero
    rebuild,     \* the state of each run
    passedOver,  \* history: attestations a run went past without writing them
    promised     \* history: how far a run that ended well has covered the chain

riVars == <<events, indexed, checkpoint, rebuild, passedOver, promised>>

NotRunning == [at |-> "idle"]

RiInit ==
    /\ events = <<>>
    /\ indexed = [a \in ChainAtts |-> 0]
    /\ checkpoint = 0
    /\ rebuild = [r \in Rebuilders |-> NotRunning]
    /\ passedOver = {}
    /\ promised = 0

(* An event of a successful call whose topics and value parse, and any other. *)
GoodEvent(a) == [good |-> TRUE, att |-> a]
BadEvent == [good |-> FALSE]

ChainEmits(event) ==
    /\ Len(events) < MaxChain
    /\ events' = Append(events, event)
    /\ UNCHANGED <<indexed, checkpoint, rebuild, passedOver, promised>>

(* parseEventFromResponse, after the check of inSuccessfulContractCall. *)
parseEventFromResponse(i) == events[i].good

shouldProcessEvent(i, opts) ==
    opts.businessId = Everyone \/ BusinessOf[events[i].att] = opts.businessId

GoodAtts(positions) == {events[i].att : i \in {j \in positions : parseEventFromResponse(j)}}

loadCheckpoint(opts) == IF opts.useCheckpoint THEN checkpoint ELSE 0

(* saveCheckpoint, if there is one to save. *)
saveCheckpoint(opts, cursor) ==
    checkpoint' = IF opts.useCheckpoint /\ cursor # 0 THEN cursor ELSE checkpoint

-----------------------------------------------------------------------------
(* main, and processEvents up to its loop: the cursor of a checkpoint wins
   over --from-ledger. *)
StartRebuild(r, opts) ==
    LET cursor == loadCheckpoint(opts)
        from   == IF cursor # 0 THEN cursor ELSE opts.fromLedger
    IN  /\ rebuild[r] = NotRunning
        /\ from <= Len(events)
        /\ rebuild' = [rebuild EXCEPT ![r] =
              [at |-> "fetch", opts |-> opts, base |-> from, cursor |-> cursor,
               page |-> <<>>, next |-> 0, more |-> FALSE,
               seen |-> {}, failed |-> FALSE]]
        /\ passedOver' = IF cursor = 0 THEN passedOver \cup GoodAtts(1..from) ELSE passedOver
        /\ UNCHANGED <<events, indexed, checkpoint, promised>>

Position(q) == IF q.cursor # 0 THEN q.cursor ELSE q.base

(* The end of processEvents; with an error the exit status is 1. *)
FinishRebuild(r, q) ==
    /\ saveCheckpoint(q.opts, q.cursor)
    /\ rebuild' = [rebuild EXCEPT ![r] = NotRunning]
    /\ promised' = IF q.base = 0 /\ ~q.failed /\ ~q.opts.dryRun /\ q.opts.businessId = Everyone
                   THEN Max({promised, q.cursor}) ELSE promised

(* Mutant: the checkpoint is saved when the page arrives. *)
fetchEvents_SavesFirst(r) ==
    LET q  == rebuild[r]
        to == Min({Position(q) + PageEvents, Len(events)})
    IN  /\ q.at = "fetch" /\ Position(q) < Len(events)
        /\ rebuild' = [rebuild EXCEPT ![r].at = "page",
                          ![r].page = [i \in 1..(to - Position(q)) |-> Position(q) + i],
                          ![r].next = to, ![r].more = (to = Position(q) + PageEvents)]
        /\ saveCheckpoint(q.opts, to)
        /\ UNCHANGED <<events, indexed, passedOver, promised>>

(* fetchEvents: a page of events from the cursor, or from the start ledger. *)
fetchEvents(r) ==
    LET q  == rebuild[r]
        to == Min({Position(q) + PageEvents, Len(events)})
    IN  /\ q.at = "fetch" /\ Position(q) < Len(events)
        /\ rebuild' = [rebuild EXCEPT ![r].at = "page",
                          ![r].page = [i \in 1..(to - Position(q)) |-> Position(q) + i],
                          ![r].next = to, ![r].more = (to = Position(q) + PageEvents)]
        /\ UNCHANGED <<events, indexed, checkpoint, passedOver, promised>>

FetchFindsNothing(r) ==
    /\ rebuild[r].at = "fetch" /\ Position(rebuild[r]) >= Len(events)
    /\ FinishRebuild(r, rebuild[r])
    /\ UNCHANGED <<events, indexed, passedOver>>

(* A page that cannot be fetched ends the run, which still saves its cursor. *)
FetchErrs(r) ==
    /\ rebuild[r].at = "fetch"
    /\ FinishRebuild(r, [rebuild[r] EXCEPT !.failed = TRUE])
    /\ UNCHANGED <<events, indexed, passedOver>>

-----------------------------------------------------------------------------
(* The loop over the events of the page. *)
InPage(r) == rebuild[r].at = "page" /\ rebuild[r].page # <<>>
Current(r) == Head(rebuild[r].page)
Unseen(r) == events[Current(r)].att \notin rebuild[r].seen

Writes(r) ==
    /\ parseEventFromResponse(Current(r))
    /\ shouldProcessEvent(Current(r), rebuild[r].opts)
    /\ Unseen(r)

(* An event that is not for this run, or whose attestation it has seen. *)
SkipEvent(r) ==
    /\ InPage(r) /\ ~Writes(r)
    /\ rebuild' = [rebuild EXCEPT ![r].page = Tail(@)]
    /\ passedOver' = IF parseEventFromResponse(Current(r)) /\ Unseen(r)
                      THEN passedOver \cup {events[Current(r)].att} ELSE passedOver
    /\ UNCHANGED <<events, indexed, checkpoint, promised>>

(* upsertAttestation, or the dry run that only says so.  The attestation
   counts as seen before the row is written: when that fails, its later
   events in this run are skipped all the same. *)
upsertAttestation(r) ==
    LET att == events[Current(r)].att
        dry == rebuild[r].opts.dryRun
    IN  /\ InPage(r) /\ Writes(r)
        /\ \E ok \in BOOLEAN :
              /\ dry => ok
              /\ rebuild' = [rebuild EXCEPT ![r].page = Tail(@), ![r].seen = @ \cup {att},
                                            ![r].failed = @ \/ ~ok]
              /\ indexed' = IF ok /\ ~dry THEN [indexed EXCEPT ![att] = Current(r)] ELSE indexed
              /\ passedOver' = IF ok /\ ~dry THEN passedOver ELSE passedOver \cup {att}
        /\ UNCHANGED <<events, checkpoint, promised>>

(* The page is done: the cursor moves and is saved; a short page is the last. *)
PageDone(r) ==
    LET q == [rebuild[r] EXCEPT !.cursor = rebuild[r].next, !.at = "fetch"] IN
    /\ rebuild[r].at = "page" /\ rebuild[r].page = <<>>
    /\ \/ /\ q.more
          /\ rebuild' = [rebuild EXCEPT ![r] = q]
          /\ saveCheckpoint(q.opts, q.cursor)
          /\ UNCHANGED promised
       \/ ~q.more /\ FinishRebuild(r, q)
    /\ UNCHANGED <<events, indexed, passedOver>>

(* Where the next step of a run writes the checkpoint file. *)
Saving(q) ==
    /\ q.opts.useCheckpoint
    /\ \/ q.at = "page" /\ q.page = <<>>
       \/ q.at = "fetch" /\ q.cursor # 0

(* The run is killed; in the middle of writeFileSync it leaves a file that
   loadCheckpoint cannot read. *)
KillRebuild(r) ==
    /\ rebuild[r] # NotRunning
    /\ rebuild' = [rebuild EXCEPT ![r] = NotRunning]
    /\ \/ UNCHANGED checkpoint
       \/ Saving(rebuild[r]) /\ checkpoint' = 0
    /\ UNCHANGED <<events, indexed, passedOver, promised>>

processEvents(r) ==
    \/ fetchEvents(r) \/ FetchFindsNothing(r) \/ FetchErrs(r)
    \/ SkipEvent(r) \/ upsertAttestation(r) \/ PageDone(r)

RiNext ==
    \/ \E event \in {GoodEvent(a) : a \in ChainAtts} \cup {BadEvent} : ChainEmits(event)
    \/ \E r \in Rebuilders :
          \/ \E opts \in RebuildOptions : StartRebuild(r, opts)
          \/ processEvents(r)
          \/ KillRebuild(r)

RiSpec == RiInit /\ [][RiNext]_riVars

-----------------------------------------------------------------------------
(* What a rebuild leaves can be trusted, through kills, torn checkpoints,
   failing writes and runs that overlap: a row was written from a good event of
   its own attestation; a run over the whole chain that reports no error has
   left a row for every attestation up to its end; and the checkpoint never
   gets ahead of the table, except for attestations that a dry run, a filter,
   a later start ledger or a failed write went past. *)
RebuildSound ==
    /\ \A a \in ChainAtts :
          indexed[a] # 0 => events[indexed[a]] = GoodEvent(a)
    /\ \A a \in GoodAtts(1..promised) : indexed[a] # 0
    /\ \A a \in GoodAtts(1..checkpoint) : indexed[a] # 0 \/ a \in passedOver
=============================================================================
