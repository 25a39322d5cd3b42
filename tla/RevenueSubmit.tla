--------------------------- MODULE RevenueSubmit ---------------------------
(***************************************************************************)
(* One queued item of services/attestation/submit.ts: the payments of the  *)
(* period are fetched from Razorpay page by page                           *)
(* (services/revenue/razorpayFetch.ts), aggregated into a Merkle root,     *)
(* submitted with retries, and recorded.                                   *)
(*                                                                         *)
(* The list of payments is external: newest first, cut by skip and count   *)
(* on every request, so a payment that arrives in an open period moves the *)
(* others while they are being paged.                                      *)
(***************************************************************************)
EXTENDS Naturals, Sequences, FiniteSets

CONSTANTS Payments,    \* payments the account may get
          PageSize,
          MaxSubmits   \* maxAttempts of DEFAULT_RETRY_CONFIG

ASSUME RevenueAssumption == PageSize \in Nat \ {0}

VARIABLES payments,    \* the account's list for the period, newest first: <<id, captured>>
          open,        \* the period is not over
          submitting,          \* where doSubmitAttestation is
          skip,
          fetched,     \* fetched[p]: how often p is in results
          shifted,     \* payments that moved or were captured while being paged
          tries,
          landed,      \* transactions that landed
          recorded     \* attestationRepository.create has been called

rsVars == <<payments, open, submitting, skip, fetched, shifted, tries, landed, recorded>>

Ids == {payments[i][1] : i \in DOMAIN payments}

RsInit ==
    /\ payments = <<>> /\ open \in BOOLEAN
    /\ submitting = "queued" /\ skip = 0 /\ tries = 0
    /\ fetched = [p \in Payments |-> 0] /\ shifted = {}
    /\ landed = 0 /\ recorded = FALSE

Paging == submitting = "fetch"

-----------------------------------------------------------------------------
(* A payment arrives: before the item is taken up, or in an open period. *)
PaymentArrives(p, captured) ==
    /\ p \notin Ids /\ submitting \in {"queued", "fetch"} /\ (Paging => open)
    /\ payments' = <<<<p, captured>>>> \o payments
    /\ shifted' = IF Paging THEN shifted \cup Ids \cup {p} ELSE shifted
    /\ UNCHANGED <<open, submitting, skip, fetched, tries, landed, recorded>>

(* An authorised payment of the period is captured. *)
PaymentCaptured(i) ==
    /\ i \in DOMAIN payments /\ ~payments[i][2] /\ Paging
    /\ payments' = [payments EXCEPT ![i][2] = TRUE]
    /\ shifted' = shifted \cup {payments[i][1]}
    /\ UNCHANGED <<open, submitting, skip, fetched, tries, landed, recorded>>

(* The flush takes the item up. *)
BeginSubmit ==
    /\ submitting = "queued"
    /\ submitting' = "fetch"
    /\ UNCHANGED <<payments, open, skip, fetched, shifted, tries, landed, recorded>>

Page == SubSeq(payments, skip + 1, IF skip + PageSize =< Len(payments) THEN skip + PageSize ELSE Len(payments))
Captured(page) == {page[i][1] : i \in {j \in DOMAIN page : page[j][2]}}
Collected == [p \in Payments |-> fetched[p] + IF p \in Captured(Page) THEN 1 ELSE 0]

(* Mutant: the next page starts after the payments that were kept. *)
FetchPage_SkipsKept ==
    /\ Paging
    /\ fetched' = Collected
    /\ skip' = skip + Cardinality(Captured(Page))
    /\ submitting' = IF Len(Page) = PageSize /\ Captured(Page) # {} THEN "fetch"
             ELSE IF \E p \in Payments : Collected[p] > 0 THEN "submit" ELSE "rejected"
    /\ UNCHANGED <<payments, open, shifted, tries, landed, recorded>>

(* One request of fetchRazorpayRevenue; after the last, an empty result is
   refused and the rest is aggregated and hashed without an await. *)
FetchPage ==
    /\ Paging
    /\ fetched' = Collected
    /\ skip' = skip + PageSize
    /\ submitting' = IF Len(Page) = PageSize THEN "fetch"
             ELSE IF \E p \in Payments : Collected[p] > 0 THEN "submit" ELSE "rejected"
    /\ UNCHANGED <<payments, open, shifted, tries, landed, recorded>>

PageFails ==
    /\ Paging
    /\ submitting' = "rejected"
    /\ UNCHANGED <<payments, open, skip, fetched, shifted, tries, landed, recorded>>

(* isRetryableError: all but the errors the caller has to mend. *)
isRetryableError(code) ==
    code \notin {"INVALID_SIGNATURE", "INVALID_ACCOUNT", "INSUFFICIENT_BALANCE", "CONTRACT_ERROR"}

(* submitToSoroban: the placeholder transaction, and the errors it makes up. *)
SubmitSucceeds ==
    /\ submitting = "submit"
    /\ landed' = landed + 1
    /\ submitting' = "create"
    /\ UNCHANGED <<payments, open, skip, fetched, shifted, tries, recorded>>

SubmitFails(code) ==
    /\ submitting = "submit"
    /\ tries' = tries + 1
    /\ submitting' = IF tries + 1 = MaxSubmits \/ ~isRetryableError(code) THEN "rejected" ELSE "backoff"
    /\ UNCHANGED <<payments, open, skip, fetched, shifted, landed, recorded>>

BackoffOver ==
    /\ submitting = "backoff"
    /\ submitting' = "submit"
    /\ UNCHANGED <<payments, open, skip, fetched, shifted, tries, landed, recorded>>

(* The record; a throw here rejects an item whose transaction has landed. *)
CreateRecord ==
    /\ submitting = "create"
    /\ \/ submitting' = "resolved" /\ recorded' = TRUE
       \/ submitting' = "rejected" /\ UNCHANGED recorded
    /\ UNCHANGED <<payments, open, skip, fetched, shifted, tries, landed>>

RsNext ==
    \/ \E p \in Payments, captured \in BOOLEAN : PaymentArrives(p, captured)
    \/ \E i \in 1..Cardinality(Payments) : PaymentCaptured(i)
    \/ BeginSubmit \/ FetchPage \/ PageFails \/ SubmitSucceeds
    \/ \E code \in {"NETWORK_TIMEOUT", "NONCE_CONFLICT", "INSUFFICIENT_BALANCE"} : SubmitFails(code)
    \/ BackoffOver \/ CreateRecord

RsSpec == RsInit /\ [][RsNext]_rsVars

-----------------------------------------------------------------------------
(* What is hashed and submitted counts every captured payment of the period
   once and nothing else, wherever the page boundaries fall and however many
   payments a page drops; shifted are payments that moved or changed while
   the list was being paged, which the open period allows and no check of ids
   catches.  And an item is resolved only when its one transaction landed and
   its record exists. *)
AttestedRevenueExact ==
    /\ submitting \in {"submit", "backoff", "create", "resolved"} =>
          \A p \in Payments \ shifted :
             fetched[p] = Cardinality({i \in DOMAIN payments : payments[i] = <<p, TRUE>>})
    /\ submitting = "resolved" => landed = 1 /\ recorded
=============================================================================
