--------------------------- MODULE MCIntegrations ---------------------------
(***************************************************************************)
(* TLC instance of the connections to other systems.  `part' selects the   *)
(* component that runs, the others keep their initial state.               *)
(*                                                                         *)
(* connections: two businesses, two shops, one Stripe account, two         *)
(* requests in flight, two OAuth states and two connections.               *)
(* budget: two callers with two retries each over a budget of one.         *)
(* outbound: a limit of one subscription, three rows, two handlers in      *)
(* flight, two secrets in two versions.                                    *)
(*                                                                         *)
(* Businesses, shops, slots, handlers, secrets and callers are the same    *)
(* two model values, which keeps the symmetry group small.                 *)
(***************************************************************************)
EXTENDS Integrations, RetryBudget, OutboundWebhooks, TLC

CONSTANTS Parts

VARIABLE part

Symmetry == Permutations(Slots)

MCInit == part \in Parts /\ IgInit /\ RbInit /\ WhInit

MCNext ==
    \/ part = "connections" /\ IgNext /\ UNCHANGED <<rbVars, whVars, part>>
    \/ part = "budget" /\ RbNext /\ UNCHANGED <<igVars, whVars, part>>
    \/ part = "outbound" /\ WhNext /\ UNCHANGED <<igVars, rbVars, part>>

MCSpec == MCInit /\ [][MCNext]_<<igVars, rbVars, whVars, part>>
=============================================================================
