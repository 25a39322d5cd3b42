---------------------------- MODULE BatchService ----------------------------
(***************************************************************************)
(* What the batching queue promises its callers, without timers, triggers  *)
(* or cooldowns: items are served in the order in which they came, in      *)
(* batches of at most MaxBatch, one batch at a time, and each is settled   *)
(* once.  When a batch starts is left open.                                *)
(***************************************************************************)
EXTENDS Integers, Sequences

CONSTANTS Items, MaxBatch

VARIABLES
  waiting,  \* items not served yet, in the order of their arrival
  busy,     \* a batch is being served
  batch,    \* its items that are not settled yet
  promise   \* what each caller has been told

vars == <<waiting, busy, batch, promise>>

Init ==
  /\ waiting = <<>>
  /\ busy = FALSE
  /\ batch = {}
  /\ promise = [i \in Items |-> "none"]

\* With q waiting and nothing being served: rest, or serve a prefix of q.
RestOrServe(q) ==
  \/ waiting' = q /\ busy' = FALSE /\ batch' = {}
  \/ \E n \in 1..Len(q) :
       /\ n <= MaxBatch
       /\ batch' = {q[j] : j \in 1..n}
       /\ waiting' = SubSeq(q, n + 1, Len(q))
       /\ busy' = TRUE

Accept(i) ==
  /\ promise[i] = "none"
  /\ promise' = [promise EXCEPT ![i] = "pending"]
  /\ \/ busy /\ waiting' = Append(waiting, i) /\ UNCHANGED <<busy, batch>>
     \/ ~busy /\ RestOrServe(Append(waiting, i))

Start == ~busy /\ RestOrServe(waiting) /\ UNCHANGED promise

Settle(i) ==
  /\ i \in batch
  /\ \E outcome \in {"resolved", "rejected"} :
       promise' = [promise EXCEPT ![i] = outcome]
  /\ batch' = batch \ {i}
  /\ UNCHANGED <<waiting, busy>>

\* The batch ends; what it left unsettled is rejected.
End ==
  /\ busy
  /\ promise' = [i \in Items |-> IF i \in batch THEN "rejected" ELSE promise[i]]
  /\ RestOrServe(waiting)

\* Everything that waits is rejected.
Drop ==
  /\ promise' = [i \in Items |->
       IF \E j \in 1..Len(waiting) : waiting[j] = i THEN "rejected" ELSE promise[i]]
  /\ waiting' = <<>>
  /\ UNCHANGED <<busy, batch>>

Next ==
  \/ \E i \in Items : Accept(i) \/ Settle(i)
  \/ Start \/ End \/ Drop

Spec == Init /\ [][Next]_vars
=============================================================================
