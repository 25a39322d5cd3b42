---------------------------- MODULE MCSubmission ----------------------------
(***************************************************************************)
(* TLC instance of the way of an attestation to the network and to its     *)
(* readers.  `part' selects the component that runs, the others keep their *)
(* initial state.                                                          *)
(*                                                                         *)
(* submission: r1 and r2 submit the same attestation, r3 asks for an       *)
(* unsigned one for another business; one restart.                         *)
(* rpc: two hedged reads that compete for one hedge slot and one           *)
(* submission, a budget of one retry for all of them, and a breaker that   *)
(* opens at the first recorded failure.                                    *)
(* stream: two sockets of one user and one of another, one allowed each.   *)
(* public: two attestations that share a Merkle root, in a cache whose     *)
(* entries expire one after the other.                                     *)
(* evidence: up to five leaves over two entries, two months.               *)
(* revenue: three payments in pages of two, three submission attempts.     *)
(***************************************************************************)
EXTENDS AttestationSubmission, SorobanRpc, AttestationStream, PublicReads, RevenueEvidence,
        RevenueSubmit

CONSTANTS Parts, r1, r2, r3, a1, a2, x1, x2, s1, s2, s3, u1, u2, i1, i2, h1

VARIABLE part

MCAttOf == (r1 :> a1) @@ (r2 :> a1) @@ (r3 :> a2)
MCSlotOf == (a1 :> x1) @@ (a2 :> x2)
MCStreamUserOf == (s1 :> u1) @@ (s2 :> u1) @@ (s3 :> u2)
MCRootOf == (i1 :> h1) @@ (i2 :> h1)
MCRawOf == ("e1" :> [amount |-> 150, usd |-> TRUE, source |-> "erp"])
           @@ ("e2" :> [amount |-> 0 - 150, usd |-> TRUE, source |-> "none"])
MCMonths == {0 - 100, 0, 100, 400}

MCInit ==
    /\ part \in Parts
    /\ Init /\ RpcInit /\ StrInit /\ PubInit /\ EvInit /\ RsInit
    /\ part # "revenue" => open

MCNext ==
    \/ /\ part = "submission" /\ Next
       /\ UNCHANGED <<rpcVars, strVars, pubVars, evVars, rsVars, part>>
    \/ /\ part = "rpc" /\ RpcNext
       /\ UNCHANGED <<vars, strVars, pubVars, evVars, rsVars, part>>
    \/ /\ part = "stream" /\ StrNext
       /\ UNCHANGED <<vars, rpcVars, pubVars, evVars, rsVars, part>>
    \/ /\ part = "public" /\ PubNext
       /\ UNCHANGED <<vars, rpcVars, strVars, evVars, rsVars, part>>
    \/ /\ part = "evidence" /\ EvNext
       /\ UNCHANGED <<vars, rpcVars, strVars, pubVars, rsVars, part>>
    \/ /\ part = "revenue" /\ RsNext
       /\ UNCHANGED <<vars, rpcVars, strVars, pubVars, evVars, part>>

\* No request and no RPC is under way in the initial state, so the fairness of a
\* component that does not run asks nothing.
MCSpec ==
    /\ MCInit /\ [][MCNext]_<<vars, rpcVars, strVars, pubVars, evVars, rsVars, part>>
    /\ Fairness /\ RpcFairness
=============================================================================
