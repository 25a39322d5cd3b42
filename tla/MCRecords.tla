----------------------------- MODULE MCRecords -----------------------------
(***************************************************************************)
(* TLC instance of what is stored, queued and read back.  `part' selects   *)
(* the component that runs, the others keep their initial state.           *)
(*                                                                         *)
(* records: two attestations, two single requests and a batch over both.   *)
(* scheduler: two tenants with weights of one or two, fees that rise, fall *)
(* and are invalid, batches of up to three.                                *)
(* degraded: three keys over a store of two, two drains.                   *)
(* intake: two members, a bad event between two good ones, two kills.      *)
(* queries: a call with parameters and one without of one process, one     *)
(* without of another, three server connections.                           *)
(* rebuild: two runs of the script, each full or at once dry, for one      *)
(* business and from a later ledger, over three events in pages of two.    *)
(*                                                                         *)
(* The single requests, the drains, the runs and the connections of the    *)
(* first process are the same two model values, interchangeable everywhere *)
(***************************************************************************)
EXTENDS AttestationRecords, DrrScheduler, DegradedQueue, RevenueIntake, PgQuery,
        RebuildIndexer, TLC

CONSTANTS Parts, x1, x2, x3, s1, s2, s3

VARIABLE part

MCBatchIds == x1 :> <<x1, x2>>
MCKinds == <<"good", "bad", "good">>
MCCallKinds == [c \in {x1, x2, x3} |-> [process |-> IF c = x1 THEN "q" ELSE "p",
                                        long |-> TRUE, params |-> c = x1]]
MCServerOf == [s \in {s1, s2, s3} |-> IF s = s3 THEN "q" ELSE "p"]

MCBusinessOf == [a \in {x1, x2} |-> a]
Plain == [dryRun |-> FALSE, businessId |-> Everyone, useCheckpoint |-> TRUE, fromLedger |-> 0]
(* A full run, and one that is dry, filtered and from a later ledger at once. *)
MCRebuildOptions == {Plain, [Plain EXCEPT !.dryRun = TRUE, !.businessId = x1, !.fromLedger = 1]}

Symmetry == Permutations({s1, s2})

MCInit ==
    /\ part \in Parts
    /\ RecInit /\ DrrInit /\ DqInit /\ InInit /\ PgInit /\ RiInit
    /\ part # "scheduler" => \A t \in Tenants : weight[t] = 1
    /\ part # "queries" => mode = "session"

MCNext ==
    \/ /\ part = "records" /\ RecNext
       /\ UNCHANGED <<drrVars, dqVars, inVars, pgVars, riVars, part>>
    \/ /\ part = "scheduler" /\ DrrNext
       /\ UNCHANGED <<recVars, dqVars, inVars, pgVars, riVars, part>>
    \/ /\ part = "degraded" /\ DqNext
       /\ UNCHANGED <<recVars, drrVars, inVars, pgVars, riVars, part>>
    \/ /\ part = "intake" /\ InNext
       /\ UNCHANGED <<recVars, drrVars, dqVars, pgVars, riVars, part>>
    \/ /\ part = "queries" /\ PgNext
       /\ UNCHANGED <<recVars, drrVars, dqVars, inVars, riVars, part>>
    \/ /\ part = "rebuild" /\ RiNext
       /\ UNCHANGED <<recVars, drrVars, dqVars, inVars, pgVars, part>>

MCSpec ==
    MCInit /\ [][MCNext]_<<recVars, drrVars, dqVars, inVars, pgVars, riVars, part>>
=============================================================================
