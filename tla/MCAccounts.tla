----------------------------- MODULE MCAccounts -----------------------------
(***************************************************************************)
(* TLC instance of the components around a user account.  `part' selects   *)
(* the one that runs, the others keep their initial state.                 *)
(*                                                                         *)
(* refresh: three calls over three tokens, so that a token can be          *)
(* presented three times and a child can be presented too, and one restart.*)
(* reset: three requests for a link and two resets, so that one token is   *)
(* presented twice while another is stored.                                *)
(* signup: two overlapping requests, two spellings of one address, two     *)
(* clients and every limit within reach.                                   *)
(* limiter: two requests, a window of two, longer than the cleanup's, and  *)
(* a breaker that opens, probes and closes.                                *)
(* export: one export, two tokens and two downloads.                       *)
(***************************************************************************)
EXTENDS RefreshRotation, PasswordReset, Signup, RateLimiter, DataExport, TLC

CONSTANTS Parts, i1, i2, e1, e1x

VARIABLE part

MCIpOf == (i1 :> i1) @@ (i2 :> i2)
MCEmailOf == (e1 :> e1) @@ (e1x :> e1)
MCEmailFacts == (e1 :> {}) @@ (e1x :> {"random", "digits"})

MCInit ==
    /\ part \in Parts
    /\ Init /\ PwInit /\ SignupInit /\ LimInit /\ ExInit
    /\ part # "limiter" => algo = "fixed"

MCNext ==
    \/ /\ part = "refresh" /\ Next
       /\ UNCHANGED <<pwVars, signupVars, limVars, exVars, part>>
    \/ /\ part = "reset" /\ PwNext
       /\ UNCHANGED <<vars, signupVars, limVars, exVars, part>>
    \/ /\ part = "signup" /\ SignupNext
       /\ UNCHANGED <<vars, pwVars, limVars, exVars, part>>
    \/ /\ part = "limiter" /\ LimNext
       /\ UNCHANGED <<vars, pwVars, signupVars, exVars, part>>
    \/ /\ part = "export" /\ ExNext
       /\ UNCHANGED <<vars, pwVars, signupVars, limVars, part>>

MCSpec == MCInit /\ [][MCNext]_<<vars, pwVars, signupVars, limVars, exVars, part>>
=============================================================================
