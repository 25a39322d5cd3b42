---------------------------- MODULE PasswordReset ---------------------------
(***************************************************************************)
(* src/src/services/auth/forgotPassword.ts and resetPassword.ts over the   *)
(* in-memory user repository, for one account.                             *)
(*                                                                         *)
(* A forgot-password call yields while it looks the user up (a 200 ms      *)
(* delay) and while the mail is sent; a reset yields while the new         *)
(* password is hashed.  The repository's own operations are synchronous.   *)
(* The token of a forgot call is named by the call.  The history           *)
(* variables serve the properties only.                                    *)
(***************************************************************************)
EXTENDS Integers

CONSTANTS
  Forgots,  \* calls of forgotPassword, each with the token it generates
  Resets,   \* calls of resetPassword
  None,     \* no reset token
  Ttl       \* RESET_TOKEN_TTL_MINUTES in ticks

ASSUME ResetAssumption == None \notin Forgots /\ Ttl \in Nat \ {0}

VARIABLES
  fpc,       \* fpc[f]: "idle", "lookup", "mailing", "sent" or "failed"
  rpc,       \* rpc[r]: "idle", "hashing", "done" or "rejected"
  uses,      \* uses[r]: the token presented by r
  stored,    \* user.resetToken
  left,      \* ticks until resetTokenExpiry, 0 when it has passed
  mailed,    \* tokens that reached the mailbox
  lastSet,   \* history: the token stored last
  consumed,  \* history: tokens that changed the password
  crossed,   \* history: tokens cleared by another call while they were stored
  doneAt     \* history: doneAt[r], the resets that were done when r looked up

pwVars == <<fpc, rpc, uses, stored, left, mailed, lastSet, consumed, crossed, doneAt>>

Token == Forgots \cup {None}

PwTypeOK ==
  /\ fpc \in [Forgots -> {"idle", "lookup", "mailing", "sent", "failed"}]
  /\ rpc \in [Resets -> {"idle", "hashing", "done", "rejected"}]
  /\ uses \in [Resets -> Token]
  /\ stored \in Token
  /\ left \in 0..Ttl
  /\ stored = None => left = 0
  /\ mailed \subseteq Forgots
  /\ lastSet \in Token
  /\ consumed \subseteq Forgots
  /\ crossed \subseteq Forgots
  /\ doneAt \in [Resets -> SUBSET Resets]

PwInit ==
  /\ fpc = [f \in Forgots |-> "idle"]
  /\ rpc = [r \in Resets |-> "idle"]
  /\ uses = [r \in Resets |-> None]
  /\ stored = None
  /\ left = 0
  /\ mailed = {}
  /\ lastSet = None
  /\ consumed = {}
  /\ crossed = {}
  /\ doneAt = [r \in Resets |-> {}]

resetVars == <<rpc, uses, doneAt>>

(***************************************************************************)
(* forgotPassword.                                                         *)
(***************************************************************************)

\* The lookup and the delay start.
Request(f) ==
  /\ fpc[f] = "idle"
  /\ fpc' = [fpc EXCEPT ![f] = "lookup"]
  /\ UNCHANGED <<resetVars, stored, left, mailed, lastSet, consumed, crossed>>

\* setResetToken overwrites the stored hash; the mail is sent.
SetToken(f) ==
  /\ fpc[f] = "lookup"
  /\ fpc' = [fpc EXCEPT ![f] = "mailing"]
  /\ stored' = f
  /\ left' = Ttl
  /\ lastSet' = f
  /\ UNCHANGED <<resetVars, mailed, consumed, crossed>>

MailSent(f) ==
  /\ fpc[f] = "mailing"
  /\ fpc' = [fpc EXCEPT ![f] = "sent"]
  /\ mailed' = mailed \cup {f}
  /\ UNCHANGED <<resetVars, stored, left, lastSet, consumed, crossed>>

\* updateUser(..., {resetToken: null, resetTokenExpiry: null}): whatever is stored.
ClearToken(own) ==
  /\ stored' = None
  /\ left' = 0
  /\ crossed' = crossed \cup ({stored} \ {own, None})

\* The mail service reports an error (the mail may have left all the same).
MailFails(f) ==
  /\ fpc[f] = "mailing"
  /\ fpc' = [fpc EXCEPT ![f] = "failed"]
  /\ \/ UNCHANGED mailed
     \/ mailed' = mailed \cup {f}
  /\ ClearToken(f)
  /\ UNCHANGED <<resetVars, lastSet, consumed>>

(***************************************************************************)
(* resetPassword.                                                          *)
(***************************************************************************)

\* findUserByResetTokenHash: the stored hash, not expired.
Valid(t) == stored = t /\ left > 0

\* A reset with a token from the mailbox.
LookUp(r, t) ==
  /\ rpc[r] = "idle"
  /\ t \in mailed
  /\ uses' = [uses EXCEPT ![r] = t]
  /\ doneAt' = [doneAt EXCEPT ![r] = {q \in Resets : rpc[q] = "done"}]
  /\ rpc' = [rpc EXCEPT ![r] = IF Valid(t) THEN "hashing" ELSE "rejected"]
  /\ UNCHANGED <<fpc, stored, left, mailed, lastSet, consumed, crossed>>

\* (mutant) the password is set and the token left in place.
UpdatePassword_KeepsToken(r) ==
  /\ rpc[r] = "hashing"
  /\ rpc' = [rpc EXCEPT ![r] = "done"]
  /\ consumed' = consumed \cup {uses[r]}
  /\ UNCHANGED <<fpc, uses, doneAt, stored, left, mailed, lastSet, crossed>>

\* updateUserPassword: the password is set and whatever token is stored is cleared.
UpdatePassword(r) ==
  /\ rpc[r] = "hashing"
  /\ rpc' = [rpc EXCEPT ![r] = "done"]
  /\ consumed' = consumed \cup {uses[r]}
  /\ ClearToken(uses[r])
  /\ UNCHANGED <<fpc, uses, doneAt, mailed, lastSet>>

Tick ==
  /\ left > 0
  /\ left' = left - 1
  /\ UNCHANGED <<fpc, resetVars, stored, mailed, lastSet, consumed, crossed>>

PwNext ==
  \/ \E f \in Forgots : Request(f) \/ SetToken(f) \/ MailSent(f) \/ MailFails(f)
  \/ \E r \in Resets : UpdatePassword(r) \/ \E t \in Forgots : LookUp(r, t)
  \/ Tick

PwSpec == PwInit /\ [][PwNext]_pwVars

(***************************************************************************)
(* Properties.                                                             *)
(***************************************************************************)

\* A used token stays used: a reset that looks its token up after another reset with
\* that token was done is refused.  Only resets whose hashing overlapped can both
\* succeed.
UsedTokenRefused ==
  \A q, r \in Resets : rpc[r] \in {"hashing", "done"} /\ uses[q] = uses[r] => q \notin doneAt[r]

\* "Clear the hash from the DB so no dangling token is left behind": once the mail of
\* a forgot call has failed its token is never accepted.
FailedMailLeavesNoToken ==
  \A f \in Forgots : fpc[f] = "failed" => stored # f

\* The link of the last completed request works until it expires or is used, unless a
\* call that ran at the same time cleared it.
LastLinkWorks ==
  \A f \in mailed :
    lastSet = f /\ fpc[f] = "sent" /\ f \notin consumed \cup crossed => stored = f

\* What a reset link promises its holder: used and failed links stay dead, and the last
\* one works.
ResetLinksHold == PwTypeOK /\ UsedTokenRefused /\ FailedMailLeavesNoToken /\ LastLinkWorks
=============================================================================
