------------------------------ MODULE MCAccess ------------------------------
(***************************************************************************)
(* TLC instance of who may do what and what is kept of it.  `part' selects *)
(* the component that runs, the others keep their initial state.           *)
(*                                                                         *)
(* families: one family of up to six tokens.                               *)
(* keys: two overlapping reloads over a provider that holds a key and a    *)
(* second published one, or a key that does not parse, or fails over to an *)
(* environment without keys; grace as long as a token.                     *)
(* audit: three entries of two actors over two timestamps, pages of one.   *)
(* admin: two admins, two addresses, one promotion request.                *)
(* svid: three fetches on their way.                                       *)
(* mtls: two requests over one staple and a CRL.                           *)
(* businesses: one owner, three rows over two names.                       *)
(***************************************************************************)
EXTENDS TokenFamilies, KeyRotation, AuditLog, AdminRoles, SvidProvider, MtlsRevocation,
        Businesses, TLC

CONSTANTS Parts, k1, k2, x1, u1, u2, a1, a2, f1

VARIABLE part

MCBundles == {[key |-> k1, pub |-> {k2}, hs |-> x1], [key |-> BadKey, pub |-> {}, hs |-> x1]}
MCEnvBundle == [key |-> NoKey, pub |-> {}, hs |-> x1]
MCAddressOf == (u1 :> a1) @@ (u2 :> a2)

MCInit ==
    /\ part \in Parts
    /\ TfInit /\ KrInit /\ AuInit /\ ArInit /\ SvidInit /\ RevInit /\ BizInit
    /\ part # "keys" => provider = "aws" /\ upstream.key = k1 /\ disk = NoDisk
    /\ part # "svid" => fetch[f1] = "start"
    /\ part # "mtls" => ~section

MCNext ==
    \/ /\ part = "families" /\ TfNext
       /\ UNCHANGED <<krVars, auVars, arVars, svidVars, revVars, bizVars, part>>
    \/ /\ part = "keys" /\ KrNext
       /\ UNCHANGED <<tfVars, auVars, arVars, svidVars, revVars, bizVars, part>>
    \/ /\ part = "audit" /\ AuNext
       /\ UNCHANGED <<tfVars, krVars, arVars, svidVars, revVars, bizVars, part>>
    \/ /\ part = "admin" /\ ArNext
       /\ UNCHANGED <<tfVars, krVars, auVars, svidVars, revVars, bizVars, part>>
    \/ /\ part = "svid" /\ SvidNext
       /\ UNCHANGED <<tfVars, krVars, auVars, arVars, revVars, bizVars, part>>
    \/ /\ part = "mtls" /\ RevNext
       /\ UNCHANGED <<tfVars, krVars, auVars, arVars, svidVars, bizVars, part>>
    \/ /\ part = "businesses" /\ BizNext
       /\ UNCHANGED <<tfVars, krVars, auVars, arVars, svidVars, revVars, part>>

Symmetry == Permutations(Checks) \cup Permutations(Actors)

MCSpec ==
    MCInit /\ [][MCNext]_<<tfVars, krVars, auVars, arVars, svidVars, revVars, bizVars, part>>
=============================================================================
