-------------------------- MODULE SubmissionReplay --------------------------
(***************************************************************************)
(* startup/replayFailedSubmissions.ts, started by startServer in the       *)
(* background while the server takes traffic: failed submissions in the    *)
(* audit log are read page by page, newest first, and submitted again on   *)
(* the retry budget that the Soroban client shares.                        *)
(*                                                                         *)
(* The log is a sequence in the order of writing; a cursor is the position *)
(* before which the next page starts.  An entry is a submission key        *)
(* (business, period and root) and whether it can be used.                 *)
(***************************************************************************)
EXTENDS Integers, Sequences, FiniteSets

CONSTANTS SubKeys,     \* submission keys
          ReplayPage,  \* the page size
          ReplayBudget,
          HasSigner,   \* both signing variables are set
          MaxFailures  \* bound on the length of the log

ASSUME ReplayAssumption ==
    /\ ReplayPage \in Nat \ {0} /\ ReplayBudget \in Nat
    /\ HasSigner \in BOOLEAN /\ MaxFailures \in Nat \ {0}

VARIABLES failures,   \* the ATTESTATION_SUBMIT_FAILED entries
          replay,     \* the replay's stage, cursor, list and summary
          budget,     \* retries left in the window
          sent        \* sent[k]: submissions of the replay

rpVars == <<failures, replay, budget, sent>>

Entries == [key : SubKeys, use : {"fresh", "expired", "malformed"}]
Upto(n) == UNION {[1..m -> Entries] : m \in 0..n}

RpInit ==
    /\ failures \in Upto(MaxFailures - 1)
    /\ replay = [pc |-> "scan", cursor |-> Len(failures), list |-> <<>>, i |-> 0, scanned |-> 0,
                 attempted |-> 0, succeeded |-> 0, failed |-> 0, expired |-> 0, skipped |-> 0]
    /\ budget \in 0..ReplayBudget
    /\ sent = [k \in SubKeys |-> 0]

-----------------------------------------------------------------------------
Smallest(a, b) == IF a < b THEN a ELSE b

(* The page before the cursor, newest first. *)
Page(cursor) == [n \in 1..Smallest(cursor, ReplayPage) |-> failures[cursor - n + 1]]

(* The items of s at the positions of S, in their order. *)
Nth(S, n) == CHOOSE i \in S : Cardinality({j \in S : j < i}) = n - 1
Kept(s, S) == [n \in 1..Cardinality(S) |-> s[Nth(S, n)]]

Positions(page, use) == {i \in DOMAIN page : page[i].use = use}
KeysOf(page) == Kept([i \in DOMAIN page |-> page[i].key], Positions(page, "fresh"))

ScanPage ==
    LET page == Page(replay.cursor)
    IN  /\ replay.pc = "scan"
        /\ replay' = [replay EXCEPT
              !.cursor = @ - Len(page),
              !.scanned = @ + Len(page),
              !.expired = @ + Cardinality(Positions(page, "expired")),
              !.list = @ \o KeysOf(page),
              !.pc = IF replay.cursor > ReplayPage THEN "scan" ELSE "dedupe"]
        /\ UNCHANGED <<failures, budget, sent>>

(* Mutant: only a repetition next to the entry is dropped. *)
deduplicateEntries_Adjacent(list) == Kept(list, {i \in DOMAIN list : i = 1 \/ list[i] # list[i - 1]})

(* The first occurrence of each key. *)
deduplicateEntries(list) ==
    Kept(list, {i \in DOMAIN list : \A j \in 1..(i - 1) : list[j] # list[i]})

Dedupe ==
    /\ replay.pc = "dedupe"
    /\ replay' = [replay EXCEPT !.pc = "next", !.i = 1, !.list = deduplicateEntries(@)]
    /\ UNCHANGED <<failures, budget, sent>>

Remaining == Len(replay.list) - replay.i + 1

(* One round of the loop: no signer or no budget left ends it. *)
StartOne ==
    /\ replay.pc = "next" /\ Remaining > 0
    /\ IF HasSigner /\ budget > 0
       THEN /\ replay' = [replay EXCEPT !.pc = "sending", !.attempted = @ + 1]
            /\ sent' = [sent EXCEPT ![replay.list[replay.i]] = @ + 1]
       ELSE /\ replay' = [replay EXCEPT !.pc = "done", !.skipped = @ + Remaining]
            /\ UNCHANGED sent
    /\ UNCHANGED <<failures, budget>>

(* submitAttestation settles; both ways a retry is recorded. *)
SentOne ==
    /\ replay.pc = "sending"
    /\ \E ok \in BOOLEAN :
          replay' = [replay EXCEPT !.pc = "next", !.i = @ + 1,
                                   !.succeeded = IF ok THEN @ + 1 ELSE @,
                                   !.failed = IF ok THEN @ ELSE @ + 1]
    /\ budget' = IF budget = 0 THEN 0 ELSE budget - 1
    /\ UNCHANGED <<failures, sent>>

FinishReplay ==
    /\ replay.pc = "next" /\ Remaining = 0
    /\ replay' = [replay EXCEPT !.pc = "done"]
    /\ UNCHANGED <<failures, budget, sent>>

-----------------------------------------------------------------------------
(* Traffic: a submission fails and is recorded; retries use the budget, and
   the window of the budget moves on. *)
NewFailure(k) ==
    /\ Len(failures) < MaxFailures
    /\ failures' = Append(failures, [key |-> k, use |-> "fresh"])
    /\ UNCHANGED <<replay, budget, sent>>

BudgetMoves ==
    /\ budget' \in {ReplayBudget, IF budget = 0 THEN 0 ELSE budget - 1}
    /\ UNCHANGED <<failures, replay, sent>>

RpNext ==
    \/ ScanPage \/ Dedupe \/ StartOne \/ SentOne \/ FinishReplay
    \/ \E k \in SubKeys : NewFailure(k)
    \/ BudgetMoves

RpSpec == RpInit /\ [][RpNext]_rpVars

-----------------------------------------------------------------------------
(* The submissions among the n oldest failures that can be repeated. *)
Usable(n) == {failures[p].key : p \in {q \in 1..n : failures[q].use = "fresh"}}

(* A restart submits each failed attestation again at most once, however often
   and on however many pages its failures were recorded, while others are
   recorded and the shared budget runs out; and the summary loses none: of the
   submissions that could be repeated when it started, it sent as many as it
   says and skipped the rest. *)
ReplayedOnce ==
    /\ \A k \in SubKeys : sent[k] =< 1
    /\ replay.pc = "done" =>
          LET tried == {k \in SubKeys : sent[k] = 1}
          IN  /\ tried \subseteq Usable(replay.scanned)
              /\ Cardinality(tried) = replay.attempted
              /\ replay.attempted = replay.succeeded + replay.failed
              /\ Cardinality(Usable(replay.scanned)) = replay.attempted + replay.skipped
=============================================================================
