----------------------------- MODULE MCProcess -----------------------------
(***************************************************************************)
(* TLC instance of the parts of the process that live as long as it does.  *)
(* `part' selects the one that runs, the others keep their initial state.  *)
(*                                                                         *)
(* shutdown: three connections, three signals, with the Kafka consumer     *)
(* configured so that bootstrap has a window in which the server listens   *)
(* without handlers.                                                       *)
(* sweeper: three requests share a key (two of them the body too) and a    *)
(* fourth uses another key, so that a store of one entry overflows; a      *)
(* fifth carries no usable key.                                            *)
(* health: one probe over a hanging database, Redis and mail server, and a *)
(* Soroban that is configured but whose client is not installed.           *)
(* replay: pages of two over up to four failed submissions of two keys.    *)
(* telemetry: two credential files that change three times.                *)
(***************************************************************************)
EXTENDS Shutdown, Health, Idempotency, SubmissionReplay, Telemetry, TLC

CONSTANTS Parts, r1, r2, r3, r4, r5, k1, k2, b1, b2

VARIABLE part

MCRequests == {r1, r2, r3, r4, r5}
MCKeyOf == (r1 :> k1) @@ (r2 :> k1) @@ (r3 :> k1) @@ (r4 :> k2) @@ (r5 :> k2)
MCBodyOf == (r1 :> b1) @@ (r2 :> b1) @@ (r3 :> b2) @@ (r4 :> b1) @@ (r5 :> b1)

MCInit ==
    /\ part \in Parts
    /\ Init /\ HlInit /\ IdemInit /\ RpInit /\ TelInit
    /\ part # "sweeper" => backend = "memory"
    /\ part # "replay" => failures = <<>> /\ budget = 0

MCNext ==
    \/ part = "shutdown" /\ Next /\ UNCHANGED <<hlVars, idemVars, rpVars, telVars, part>>
    \/ part = "health" /\ HlNext /\ UNCHANGED <<vars, idemVars, rpVars, telVars, part>>
    \/ part = "sweeper" /\ IdemNext /\ UNCHANGED <<vars, hlVars, rpVars, telVars, part>>
    \/ part = "replay" /\ RpNext /\ UNCHANGED <<vars, hlVars, idemVars, telVars, part>>
    \/ part = "telemetry" /\ TelNext /\ UNCHANGED <<vars, hlVars, idemVars, rpVars, part>>

\* Shutdown and Health have no fair action in their initial states; the sweeper's
\* timer is armed from the start, and owes something only where it runs.
SweeperFairness ==
    /\ WF_idemVars(part = "sweeper" /\ SweeperFires)
    /\ WF_idemVars(CycleEnds)
    /\ WF_idemVars(StopReturns)

MCSpec ==
    /\ MCInit /\ [][MCNext]_<<vars, hlVars, idemVars, rpVars, telVars, part>>
    /\ Fairness /\ HlFairness /\ SweeperFairness
=============================================================================
