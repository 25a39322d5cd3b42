-------------------------- MODULE RefreshRotation --------------------------
(***************************************************************************)
(* src/src/services/auth/refresh.ts over the PostgreSQL store of           *)
(* src/src/services/auth/usedTokenStore.ts: rotation of refresh tokens by  *)
(* concurrent calls, with database errors, lost answers and a restart.     *)
(*                                                                         *)
(* A call takes two database round trips, has() and mark(); other calls    *)
(* run between them.  The table survives a restart, the user repository    *)
(* (a Map) does not.                                                       *)
(***************************************************************************)
EXTENDS Naturals

CONSTANTS
  Calls,      \* calls of refresh()
  Tokens,     \* refresh tokens, each with its own jti
  MaxCrashes  \* bound on restarts

ASSUME RefreshAssumption == MaxCrashes \in Nat

VARIABLES
  pc,       \* pc[c]: "idle", "has" or "mark" (round trip in flight), "ok", "rejected"
  token,    \* token[c]: {the token presented by c}, {} before c starts
  child,    \* child[c]: {the token issued by c}, {} if none
  issued,   \* tokens handed out
  expired,  \* tokens past their exp claim
  used,     \* rows of used_refresh_tokens
  orphaned, \* tokens whose user is no longer in the user repository
  crashes,  \* restarts so far
  before    \* history: before[c], the calls that had ended when c started

vars == <<pc, token, child, issued, expired, used, orphaned, crashes, before>>

TypeOK ==
  /\ pc \in [Calls -> {"idle", "has", "mark", "ok", "rejected"}]
  /\ token \in [Calls -> SUBSET Tokens]
  /\ child \in [Calls -> SUBSET Tokens]
  /\ issued \subseteq Tokens
  /\ expired \subseteq issued
  /\ used \subseteq issued
  /\ orphaned \subseteq issued
  /\ crashes \in 0..MaxCrashes
  /\ before \in [Calls -> SUBSET Calls]

Init ==
  /\ pc = [c \in Calls |-> "idle"]
  /\ token = [c \in Calls |-> {}]
  /\ child = [c \in Calls |-> {}]
  /\ issued = {}
  /\ expired = {}
  /\ used = {}
  /\ orphaned = {}
  /\ crashes = 0
  /\ before = [c \in Calls |-> {}]

Ended == {c \in Calls : pc[c] \in {"ok", "rejected"}}

\* login() of a signed-up user: a token with a fresh jti.
Login(t) ==
  /\ t \notin issued
  /\ issued' = issued \cup {t}
  /\ UNCHANGED <<pc, token, child, expired, used, orphaned, crashes, before>>

Expire(t) ==
  /\ t \in issued \ expired
  /\ expired' = expired \cup {t}
  /\ UNCHANGED <<pc, token, child, issued, used, orphaned, crashes, before>>

\* verifyRefreshToken refuses an expired token before the store is consulted.
Begin(c, t) ==
  /\ pc[c] = "idle"
  /\ t \in issued
  /\ token' = [token EXCEPT ![c] = {t}]
  /\ before' = [before EXCEPT ![c] = Ended]
  /\ pc' = [pc EXCEPT ![c] = IF t \in expired THEN "rejected" ELSE "has"]
  /\ UNCHANGED <<child, issued, expired, used, orphaned, crashes>>

\* (mutant) the used jtis are not consulted.
Checked_NoReplayCheck(c) ==
  /\ pc[c] = "has"
  /\ pc' = [pc EXCEPT ![c] = IF token[c] \subseteq orphaned THEN "rejected" ELSE "mark"]
  /\ UNCHANGED <<token, child, issued, expired, used, orphaned, crashes, before>>

\* has() answers: a used jti or a missing user ends the call, else mark() is sent.
Checked(c) ==
  /\ pc[c] = "has"
  /\ pc' = [pc EXCEPT ![c] = IF token[c] \subseteq used \cup orphaned THEN "rejected" ELSE "mark"]
  /\ UNCHANGED <<token, child, issued, expired, used, orphaned, crashes, before>>

\* The INSERT ... ON CONFLICT DO NOTHING succeeds, whether or not it added the row;
\* a new pair is issued.
Marked(c, t) ==
  /\ pc[c] = "mark"
  /\ t \notin issued
  /\ used' = used \cup token[c]
  /\ pc' = [pc EXCEPT ![c] = "ok"]
  /\ child' = [child EXCEPT ![c] = {t}]
  /\ issued' = issued \cup {t}
  /\ UNCHANGED <<token, expired, orphaned, crashes, before>>

\* A database error fails closed.
DbError(c) ==
  /\ pc[c] \in {"has", "mark"}
  /\ pc' = [pc EXCEPT ![c] = "rejected"]
  /\ UNCHANGED <<token, child, issued, expired, used, orphaned, crashes, before>>

\* The INSERT commits but its answer is lost.
MarkAnswerLost(c) ==
  /\ pc[c] = "mark"
  /\ used' = used \cup token[c]
  /\ pc' = [pc EXCEPT ![c] = "rejected"]
  /\ UNCHANGED <<token, child, issued, expired, orphaned, crashes, before>>

\* A restart ends the calls in flight and empties the user repository; the table
\* stays.
Crash ==
  /\ crashes < MaxCrashes
  /\ crashes' = crashes + 1
  /\ pc' = [c \in Calls |-> IF pc[c] \in {"has", "mark"} THEN "rejected" ELSE pc[c]]
  /\ orphaned' = issued
  /\ UNCHANGED <<token, child, issued, expired, used, before>>

Step(c) ==
  \/ Checked(c)
  \/ DbError(c)
  \/ MarkAnswerLost(c)
  \/ \E t \in Tokens : Begin(c, t) \/ Marked(c, t)

Next ==
  \/ \E c \in Calls : Step(c)
  \/ \E t \in Tokens : Login(t) \/ Expire(t)
  \/ Crash

Spec == Init /\ [][Next]_vars

(***************************************************************************)
(* Properties.                                                             *)
(***************************************************************************)

\* Rotation: once a call has ended with a new pair, no call that starts later gets a
\* pair for the same token, through database errors, lost answers and restarts.
\* Only calls that overlapped can both succeed.
ReplayRejected ==
  \A c, d \in Calls :
    pc[c] = "ok" /\ pc[d] = "ok" /\ token[c] = token[d] => d \notin before[c]

\* refresh() fails closed: whenever a new pair was issued the old jti is in the table,
\* and a pair issued by one call is never handed out by another.
IssuedOnlyForConsumed ==
  \A c \in Calls : pc[c] = "ok" =>
    /\ token[c] \subseteq used
    /\ \A d \in Calls \ {c} : child[c] \cap child[d] = {}

\* Rotation and failing closed together: what refresh() guarantees of every token.
RotationSafe == ReplayRejected /\ IssuedOnlyForConsumed

\* "Any subsequent attempt to use the same JTI is rejected with an AuthenticationError,
\* regardless of which instance handles the request": a token is exchanged for at most
\* one new pair.
SingleUse ==
  \A c, d \in Calls : pc[c] = "ok" /\ pc[d] = "ok" /\ token[c] = token[d] => c = d
=============================================================================
