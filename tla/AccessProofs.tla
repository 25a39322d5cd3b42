---------------------------- MODULE AccessProofs ----------------------------
(***************************************************************************)
(* Proofs about who is let in: the rotation of refresh tokens, the links   *)
(* of a password reset, the token families, the rotation of signing keys,  *)
(* the server's own identity, the revocation of client certificates, the   *)
(* administration of accounts, the export of a user's data, the pages of   *)
(* the businesses table, and the audit log.                                *)
(*                                                                         *)
(* Each component is proved from its own specification, for every value of *)
(* its constants.                                                          *)
(***************************************************************************)
EXTENDS RefreshRotation, PasswordReset, TokenFamilies, KeyRotation, SvidProvider,
        MtlsRevocation, AdminRoles, DataExport, Businesses, AuditLog, FiniteSetTheorems,
        SequenceTheorems, WellFoundedInduction, TLAPS

-----------------------------------------------------------------------------
(* services/auth/refresh.ts: the rotation of refresh tokens.               *)

\* A call in flight or ended with a pair presented exactly one issued token.
OneToken ==
  \A c \in Calls : pc[c] \in {"has", "mark", "ok"} => \E t \in issued : token[c] = {t}

\* before[c] holds ended calls only.
BeforeEnded ==
  \A c \in Calls : \A d \in before[c] : pc[d] \in {"ok", "rejected"}

\* A call past its replay check presented no token that an earlier call exchanged:
\* the row of the earlier call was in the table when it looked.
CheckHolds ==
  \A c \in Calls : \A d \in before[c] :
    pc[c] \in {"mark", "ok"} /\ pc[d] = "ok" => token[c] # token[d]

\* Children are issued tokens, and only successful calls have one.
Children ==
  \A c \in Calls : child[c] \subseteq issued /\ (pc[c] # "ok" => child[c] = {})

RotationInv ==
  /\ TypeOK
  /\ OneToken
  /\ BeforeEnded
  /\ CheckHolds
  /\ Children
  /\ IssuedOnlyForConsumed

\* The initial state satisfies the invariant.
LEMMA RotationStarts == Init => RotationInv
BY RefreshAssumption
DEF Init, RotationInv, TypeOK, OneToken, BeforeEnded, CheckHolds, Children, IssuedOnlyForConsumed

\* Every step of the rotation preserves the invariant.
LEMMA RotationStep == RotationInv /\ [Next]_vars => RotationInv'
<1> SUFFICES ASSUME RotationInv, [Next]_vars PROVE RotationInv'
  OBVIOUS
<1> USE RefreshAssumption DEF RotationInv
<1>1. ASSUME NEW t \in Tokens, Login(t) PROVE RotationInv'
  <2> USE <1>1 DEF Login
  <2>1. TypeOK'
    BY DEF TypeOK
  <2>2. OneToken' /\ Children'
    BY DEF OneToken, Children, TypeOK
  <2>3. BeforeEnded' /\ CheckHolds' /\ IssuedOnlyForConsumed'
    BY DEF BeforeEnded, CheckHolds, IssuedOnlyForConsumed
  <2> QED BY <2>1, <2>2, <2>3
<1>2. ASSUME NEW t \in Tokens, Expire(t) PROVE RotationInv'
  <2> USE <1>2 DEF Expire
  <2>1. TypeOK'
    BY DEF TypeOK
  <2>2. OneToken' /\ Children'
    BY DEF OneToken, Children
  <2>3. BeforeEnded' /\ CheckHolds' /\ IssuedOnlyForConsumed'
    BY DEF BeforeEnded, CheckHolds, IssuedOnlyForConsumed
  <2> QED BY <2>1, <2>2, <2>3
<1>3. ASSUME NEW c \in Calls, NEW t \in Tokens, Begin(c, t) PROVE RotationInv'
  <2> USE <1>3 DEF Begin
  <2>1. TypeOK'
    BY DEF TypeOK, Ended
  <2>2. OneToken'
    BY DEF OneToken, TypeOK
  <2>3. BeforeEnded'
    <3> SUFFICES ASSUME NEW b \in Calls, NEW d \in before'[b]
                 PROVE  pc'[d] \in {"ok", "rejected"}
      BY DEF BeforeEnded
    <3>1. d \in Calls /\ pc[d] \in {"ok", "rejected"}
      BY DEF BeforeEnded, TypeOK, Ended
    <3>2. d # c
      BY <3>1
    <3> QED BY <3>1, <3>2 DEF TypeOK
  <2>4. CheckHolds'
    <3> SUFFICES ASSUME NEW b \in Calls, NEW d \in before'[b],
                        pc'[b] \in {"mark", "ok"}, pc'[d] = "ok"
                 PROVE  token'[b] # token'[d]
      BY DEF CheckHolds
    <3>1. b # c /\ d \in before[b] /\ d \in Calls
      BY DEF TypeOK
    <3>2. d # c /\ pc[d] = "ok" /\ pc[b] \in {"mark", "ok"}
      BY <3>1 DEF TypeOK
    <3> QED BY <3>1, <3>2 DEF CheckHolds, TypeOK
  <2>5. Children' /\ IssuedOnlyForConsumed'
    BY DEF Children, IssuedOnlyForConsumed, TypeOK
  <2> QED BY <2>1, <2>2, <2>3, <2>4, <2>5
<1>4. ASSUME NEW c \in Calls, Checked(c) PROVE RotationInv'
  <2> USE <1>4 DEF Checked
  <2>1. TypeOK'
    BY DEF TypeOK
  <2>2. OneToken' /\ BeforeEnded' /\ Children' /\ IssuedOnlyForConsumed'
    BY DEF OneToken, BeforeEnded, Children, IssuedOnlyForConsumed, TypeOK
  <2>3. CheckHolds'
    <3> SUFFICES ASSUME NEW b \in Calls, NEW d \in before[b],
                        pc'[b] \in {"mark", "ok"}, pc'[d] = "ok"
                 PROVE  token[b] # token[d]
      BY DEF CheckHolds
    <3>1. d \in Calls /\ pc[d] = "ok"
      BY DEF TypeOK
    <3>2. CASE b # c
      BY <3>1, <3>2 DEF CheckHolds, TypeOK
    <3>3. CASE b = c
      <4>1. ~(token[c] \subseteq used)
        BY <3>3 DEF TypeOK
      <4>2. token[d] \subseteq used
        BY <3>1 DEF IssuedOnlyForConsumed
      <4> QED BY <4>1, <4>2, <3>3
    <3> QED BY <3>2, <3>3
  <2> QED BY <2>1, <2>2, <2>3
<1>5. ASSUME NEW c \in Calls, DbError(c) PROVE RotationInv'
  <2> USE <1>5 DEF DbError
  <2>1. TypeOK'
    BY DEF TypeOK
  <2>2. OneToken' /\ BeforeEnded' /\ Children' /\ IssuedOnlyForConsumed'
    BY DEF OneToken, BeforeEnded, Children, IssuedOnlyForConsumed, TypeOK
  <2>3. CheckHolds'
    BY DEF CheckHolds, TypeOK
  <2> QED BY <2>1, <2>2, <2>3
<1>6. ASSUME NEW c \in Calls, MarkAnswerLost(c) PROVE RotationInv'
  <2> USE <1>6 DEF MarkAnswerLost
  <2>0. token[c] \subseteq issued
    BY DEF OneToken
  <2>1. TypeOK'
    BY <2>0 DEF TypeOK
  <2>2. OneToken' /\ BeforeEnded' /\ Children' /\ IssuedOnlyForConsumed'
    BY DEF OneToken, BeforeEnded, Children, IssuedOnlyForConsumed, TypeOK
  <2>3. CheckHolds'
    BY DEF CheckHolds, TypeOK
  <2> QED BY <2>1, <2>2, <2>3
<1>7. ASSUME NEW c \in Calls, NEW t \in Tokens, Marked(c, t) PROVE RotationInv'
  <2> USE <1>7 DEF Marked
  <2>0. token[c] \subseteq issued
    BY DEF OneToken
  <2>1. TypeOK'
    BY <2>0 DEF TypeOK
  <2>2. OneToken' /\ BeforeEnded' /\ Children'
    BY DEF OneToken, BeforeEnded, Children, TypeOK
  <2>3. CheckHolds'
    <3> SUFFICES ASSUME NEW b \in Calls, NEW d \in before[b],
                        pc'[b] \in {"mark", "ok"}, pc'[d] = "ok"
                 PROVE  token[b] # token[d]
      BY DEF CheckHolds
    <3>1. d # c /\ pc[d] = "ok"
      BY DEF BeforeEnded, TypeOK
    <3>2. pc[b] \in {"mark", "ok"}
      BY DEF TypeOK
    <3> QED BY <3>1, <3>2 DEF CheckHolds
  <2>4. IssuedOnlyForConsumed'
    <3> SUFFICES ASSUME NEW b \in Calls, pc'[b] = "ok"
                 PROVE  /\ token'[b] \subseteq used'
                        /\ \A d \in Calls \ {b} : child'[b] \cap child'[d] = {}
      BY DEF IssuedOnlyForConsumed
    <3>1. \A d \in Calls : child[d] \subseteq issued
      BY DEF Children
    <3>2. CASE b = c
      BY <3>1, <3>2 DEF TypeOK
    <3>3. CASE b # c
      BY <3>1, <3>3 DEF TypeOK, IssuedOnlyForConsumed
    <3> QED BY <3>2, <3>3
  <2> QED BY <2>1, <2>2, <2>3, <2>4
<1>8. ASSUME Crash PROVE RotationInv'
  <2> USE <1>8 DEF Crash
  <2>1. TypeOK'
    BY DEF TypeOK
  <2>2. OneToken' /\ BeforeEnded' /\ Children' /\ IssuedOnlyForConsumed'
    BY DEF OneToken, BeforeEnded, Children, IssuedOnlyForConsumed, TypeOK
  <2>3. CheckHolds'
    BY DEF CheckHolds, BeforeEnded, TypeOK
  <2> QED BY <2>1, <2>2, <2>3
<1>9. ASSUME UNCHANGED vars PROVE RotationInv'
  BY <1>9 DEF vars, TypeOK, OneToken, BeforeEnded, CheckHolds, Children, IssuedOnlyForConsumed
<1> QED
  BY <1>1, <1>2, <1>3, <1>4, <1>5, <1>6, <1>7, <1>8, <1>9 DEF Next, Step

\* The invariant gives the rotation guarantee.
LEMMA RotationReplayRejected == RotationInv => ReplayRejected
BY DEF RotationInv, TypeOK, CheckHolds, ReplayRejected

\* refresh() never exchanges a token for a call that starts after another call was
\* given a pair for it: the mark of the earlier call is in the table when the later
\* one looks, through errors, lost answers and restarts.
THEOREM RotationHolds == Spec => []ReplayRejected
BY RotationStarts, RotationStep, RotationReplayRejected, PTL DEF Spec

\* refresh() fails closed: no pair without a used row, and no pair handed out twice.
THEOREM FailsClosed == Spec => []IssuedOnlyForConsumed
<1>1. RotationInv => IssuedOnlyForConsumed
  BY DEF RotationInv
<1> QED BY RotationStarts, RotationStep, <1>1, PTL DEF Spec

\* What the run checks of refresh(): rotation and failing closed, on every behaviour.
THEOREM RotationIsSafe == Spec => []RotationSafe
<1>1. RotationInv => RotationSafe
  BY RotationReplayRejected DEF RotationInv, RotationSafe
<1> QED BY RotationStarts, RotationStep, <1>1, PTL DEF Spec

-----------------------------------------------------------------------------
(* forgotPassword.ts and resetPassword.ts: the links of a password reset.  *)

\* A mailed token was set before; a reset under way or done presented a mailed token.
LinksMailed ==
  /\ \A f \in mailed : fpc[f] \in {"sent", "failed"}
  /\ \A r \in Resets : rpc[r] \in {"hashing", "done"} => uses[r] \in mailed

\* The token of a finished reset is not the stored one.
DoneCleared ==
  \A q \in Resets : rpc[q] = "done" => stored # uses[q]

\* doneAt holds finished resets only.
DoneBefore ==
  \A r \in Resets : \A q \in doneAt[r] : rpc[q] = "done"

\* The token set last is stored from its setting on, until it is used or cleared.
LastStored ==
  \A f \in Forgots :
    lastSet = f /\ fpc[f] \in {"mailing", "sent"} /\ f \notin consumed \cup crossed => stored = f

ResetInv ==
  /\ PwTypeOK
  /\ LinksMailed
  /\ DoneCleared
  /\ DoneBefore
  /\ LastStored
  /\ UsedTokenRefused
  /\ FailedMailLeavesNoToken

LEMMA ResetStarts == PwInit => ResetInv
BY ResetAssumption
DEF PwInit, ResetInv, PwTypeOK, Token, LinksMailed, DoneCleared, DoneBefore, LastStored,
    UsedTokenRefused, FailedMailLeavesNoToken

LEMMA ResetStep == ResetInv /\ [PwNext]_pwVars => ResetInv'
<1> SUFFICES ASSUME ResetInv, [PwNext]_pwVars PROVE ResetInv'
  OBVIOUS
<1> USE ResetAssumption DEF ResetInv
<1>1. ASSUME NEW f \in Forgots, Request(f) PROVE ResetInv'
  <2> USE <1>1 DEF Request, resetVars
  <2>1. PwTypeOK'
    BY DEF PwTypeOK, Token
  <2>2. LinksMailed' /\ FailedMailLeavesNoToken' /\ LastStored'
    BY DEF PwTypeOK, LinksMailed, FailedMailLeavesNoToken, LastStored
  <2>3. DoneCleared' /\ DoneBefore' /\ UsedTokenRefused'
    BY DEF DoneCleared, DoneBefore, UsedTokenRefused
  <2> QED BY <2>1, <2>2, <2>3
<1>2. ASSUME NEW f \in Forgots, SetToken(f) PROVE ResetInv'
  <2> USE <1>2 DEF SetToken, resetVars
  <2>1. PwTypeOK'
    BY DEF PwTypeOK, Token
  <2>2. f \notin mailed
    BY DEF LinksMailed
  <2>3. LinksMailed' /\ FailedMailLeavesNoToken' /\ LastStored'
    BY <2>2 DEF PwTypeOK, LinksMailed, FailedMailLeavesNoToken, LastStored
  <2>4. DoneCleared'
    BY <2>2 DEF DoneCleared, LinksMailed
  <2>5. DoneBefore' /\ UsedTokenRefused'
    BY DEF DoneBefore, UsedTokenRefused
  <2> QED BY <2>1, <2>3, <2>4, <2>5
<1>3. ASSUME NEW f \in Forgots, MailSent(f) PROVE ResetInv'
  <2> USE <1>3 DEF MailSent, resetVars
  <2>1. PwTypeOK'
    BY DEF PwTypeOK, Token
  <2>2. LinksMailed' /\ FailedMailLeavesNoToken' /\ LastStored'
    BY DEF PwTypeOK, LinksMailed, FailedMailLeavesNoToken, LastStored
  <2>3. DoneCleared' /\ DoneBefore' /\ UsedTokenRefused'
    BY DEF DoneCleared, DoneBefore, UsedTokenRefused
  <2> QED BY <2>1, <2>2, <2>3
<1>4. ASSUME NEW f \in Forgots, MailFails(f) PROVE ResetInv'
  <2> USE <1>4 DEF MailFails, ClearToken, resetVars
  <2>1. PwTypeOK'
    BY DEF PwTypeOK, Token
  <2>2. LinksMailed' /\ FailedMailLeavesNoToken'
    BY DEF PwTypeOK, LinksMailed, FailedMailLeavesNoToken
  <2>3. LastStored'
    BY DEF PwTypeOK, LastStored
  <2>4. DoneCleared'
    BY DEF DoneCleared, LinksMailed, PwTypeOK
  <2>5. DoneBefore' /\ UsedTokenRefused'
    BY DEF DoneBefore, UsedTokenRefused
  <2> QED BY <2>1, <2>2, <2>3, <2>4, <2>5
<1>5. ASSUME NEW r \in Resets, UpdatePassword(r) PROVE ResetInv'
  <2> USE <1>5 DEF UpdatePassword, ClearToken
  <2>1. uses[r] \in mailed /\ uses[r] \in Forgots
    BY DEF LinksMailed, PwTypeOK
  <2>2. PwTypeOK'
    BY <2>1 DEF PwTypeOK, Token
  <2>3. LinksMailed' /\ FailedMailLeavesNoToken'
    BY DEF PwTypeOK, LinksMailed, FailedMailLeavesNoToken
  <2>4. LastStored'
    BY DEF PwTypeOK, LastStored
  <2>5. DoneCleared'
    BY <2>1 DEF DoneCleared, LinksMailed, PwTypeOK
  <2>6. DoneBefore' /\ UsedTokenRefused'
    BY DEF DoneBefore, UsedTokenRefused, PwTypeOK
  <2> QED BY <2>2, <2>3, <2>4, <2>5, <2>6
<1>6. ASSUME NEW r \in Resets, NEW t \in Forgots, LookUp(r, t) PROVE ResetInv'
  <2> USE <1>6 DEF LookUp
  <2>1. PwTypeOK'
    BY DEF PwTypeOK, Token
  <2>2. LinksMailed'
    BY DEF PwTypeOK, LinksMailed
  <2>3. FailedMailLeavesNoToken' /\ LastStored'
    BY DEF FailedMailLeavesNoToken, LastStored
  <2>4. \A q \in Resets : q # r => rpc'[q] = rpc[q] /\ uses'[q] = uses[q] /\ doneAt'[q] = doneAt[q]
    BY DEF PwTypeOK
  <2>5. /\ rpc'[r] \in {"hashing", "rejected"} /\ rpc'[r] = "hashing" => stored = t
        /\ uses'[r] = t /\ doneAt'[r] = {q \in Resets : rpc[q] = "done"} /\ rpc[r] = "idle"
    BY DEF PwTypeOK, Valid
  <2>6. DoneCleared'
    BY <2>4, <2>5 DEF DoneCleared
  <2>7. DoneBefore'
    BY <2>4, <2>5 DEF DoneBefore, PwTypeOK
  <2>8. UsedTokenRefused'
    <3> SUFFICES ASSUME NEW q \in Resets, NEW s \in Resets, rpc'[s] \in {"hashing", "done"},
                        uses'[q] = uses'[s], q \in doneAt'[s]
                 PROVE  FALSE
      BY DEF UsedTokenRefused
    <3>1. CASE s = r
      <4>1. rpc[q] = "done" /\ q # r
        BY <3>1, <2>5
      <4>2. stored = uses[q]
        BY <3>1, <4>1, <2>4, <2>5
      <4> QED BY <4>1, <4>2 DEF DoneCleared
    <3>2. CASE s # r
      <4>1. q \in doneAt[s] /\ rpc[q] = "done" /\ q # r
        BY <3>2, <2>4, <2>5 DEF DoneBefore
      <4> QED BY <3>2, <4>1, <2>4 DEF UsedTokenRefused
    <3> QED BY <3>1, <3>2
  <2> QED BY <2>1, <2>2, <2>3, <2>6, <2>7, <2>8
<1>7. ASSUME Tick PROVE ResetInv'
  <2> USE <1>7 DEF Tick, resetVars
  <2>1. PwTypeOK'
    BY DEF PwTypeOK, Token
  <2>2. LinksMailed' /\ FailedMailLeavesNoToken' /\ LastStored'
    BY DEF LinksMailed, FailedMailLeavesNoToken, LastStored
  <2>3. DoneCleared' /\ DoneBefore' /\ UsedTokenRefused'
    BY DEF DoneCleared, DoneBefore, UsedTokenRefused
  <2> QED BY <2>1, <2>2, <2>3
<1>8. ASSUME UNCHANGED pwVars PROVE ResetInv'
  BY <1>8 DEF pwVars, PwTypeOK, LinksMailed, DoneCleared, DoneBefore, LastStored,
              UsedTokenRefused, FailedMailLeavesNoToken
<1> QED BY <1>1, <1>2, <1>3, <1>4, <1>5, <1>6, <1>7, <1>8 DEF PwNext

\* A link that was used, or whose mail was reported failed, is never accepted again, and
\* the last one works until it expires, is used or is cleared by a call that ran at the
\* same time, for any number of requests and resets of resetPassword and forgotPassword.
THEOREM LinksStayDead == PwSpec => []ResetLinksHold
<1>1. ResetInv => ResetLinksHold
  BY DEF ResetInv, ResetLinksHold, LastLinkWorks, LastStored, PwTypeOK
<1> QED BY <1>1, ResetStarts, ResetStep, PTL DEF PwSpec

-----------------------------------------------------------------------------
(* utils/jwt.ts: the token families.                                       *)

FamilyFields == {"known", "blacklistedJtis", "issuedJtis", "concurrentRefreshDetected", "createdAt"}

\* A record of tokenFamilies: no entry, or one with every field.
FamilyOk(r) == r = NoFamily \/ (r.known = TRUE /\ DOMAIN r = FamilyFields)

FamilyTypes ==
  /\ tfNow \in Nat
  /\ minted \in Seq([type : {"access", "refresh"}, fam : Families, exp : Nat])
  /\ Len(minted) =< MaxTokens
  /\ DOMAIN tokenFamilies = Families
  /\ \A f \in Families : FamilyOk(tokenFamilies[f])
  /\ rotated \in [Jtis -> Nat]
  /\ revoked \subseteq Families

\* A token is blacklisted or on the list of what its family issued, unless the family's
\* record was lost; every token of a revoked family is blacklisted.
Traceable ==
  \A j \in DOMAIN minted : minted[j].fam \notin lost =>
    /\ \/ j \in jtiBlacklist
       \/ tokenFamilies[minted[j].fam].known /\ j \in tokenFamilies[minted[j].fam].issuedJtis
    /\ minted[j].fam \in revoked => j \in jtiBlacklist

\* A family with a record, and a revoked one, has issued a token: its id is never
\* used for a second login.
FamiliesUsed ==
  \A f \in Families : tokenFamilies[f].known \/ f \in revoked =>
    \E j \in DOMAIN minted : minted[j].fam = f

\* An exchanged token is blacklisted or on the list of what its family consumed.
Consumed ==
  /\ \A j \in Jtis : j \notin DOMAIN minted => rotated[j] = 0
  /\ \A j \in DOMAIN minted : minted[j].fam \notin lost =>
       /\ rotated[j] =< 1
       /\ rotated[j] = 1 =>
            \/ j \in jtiBlacklist
            \/ tokenFamilies[minted[j].fam].known /\ j \in tokenFamilies[minted[j].fam].blacklistedJtis

FamiliesInv == FamilyTypes /\ Traceable /\ FamiliesUsed /\ Consumed

LEMMA FamiliesStart == TfInit => FamiliesInv
BY FamiliesAssumption
DEF TfInit, FamiliesInv, FamilyTypes, FamilyOk, Traceable, FamiliesUsed, Consumed, Jtis, NoFamily

LEMMA MintedFamilies ==
  ASSUME FamilyTypes, NEW j \in DOMAIN minted
  PROVE  minted[j].fam \in Families /\ j \in Jtis
<1> DEFINE S == [type : {"access", "refresh"}, fam : Families, exp : Nat]
<1>1. minted \in Seq(S) /\ Len(minted) =< MaxTokens /\ MaxTokens \in Nat
  BY FamiliesAssumption DEF FamilyTypes
<1>2. \A r \in S : r.fam \in Families
  OBVIOUS
<1> HIDE DEF S
<1>3. minted[j] \in S /\ j \in Jtis
  BY <1>1 DEF Jtis
<1> QED BY <1>2, <1>3

LEMMA NoFamilyUnknown == NoFamily.known = FALSE
BY DEF NoFamily

\* getOrCreateFamily returns a record with every field, and one that is kept as it is.
LEMMA FamilyFound ==
  ASSUME FamilyTypes, NEW f \in Families
  PROVE  /\ getOrCreateFamily(f).known = TRUE
         /\ DOMAIN getOrCreateFamily(f) = FamilyFields
         /\ tokenFamilies[f].known => getOrCreateFamily(f) = tokenFamilies[f]
         /\ ~tokenFamilies[f].known => getOrCreateFamily(f).blacklistedJtis = {}
<1> DEFINE new == [known |-> TRUE, blacklistedJtis |-> {}, issuedJtis |-> {},
                   concurrentRefreshDetected |-> FALSE, createdAt |-> tfNow]
<1>1. FamilyOk(tokenFamilies[f])
  BY DEF FamilyTypes
<1>2. new.known = TRUE /\ new.blacklistedJtis = {} /\ DOMAIN new = FamilyFields
  BY DEF FamilyFields
<1>3. getOrCreateFamily(f) = IF tokenFamilies[f].known THEN tokenFamilies[f] ELSE new
  BY DEF getOrCreateFamily
<1> HIDE DEF new
<1>4. CASE tokenFamilies[f].known
  <2>1. tokenFamilies[f] # NoFamily
    BY <1>4, NoFamilyUnknown
  <2> QED BY <1>1, <1>3, <1>4, <2>1 DEF FamilyOk
<1>5. CASE ~tokenFamilies[f].known
  BY <1>2, <1>3, <1>5
<1> QED BY <1>4, <1>5

\* What a verdict says of the token.
LEMMA VerdictMeans ==
  ASSUME NEW j \in DOMAIN minted
  PROVE  /\ RefreshVerdict(j) \in {"ok", "compromised", "reused"} => j \notin jtiBlacklist
         /\ RefreshVerdict(j) = "ok" => j \notin getOrCreateFamily(minted[j].fam).blacklistedJtis
         /\ RefreshVerdict(j) = "reused" => j \in getOrCreateFamily(minted[j].fam).blacklistedJtis
<1> DEFINE fam == getOrCreateFamily(minted[j].fam)
           a == ~Live(j) \/ minted[j].type # "refresh"
           c == fam.concurrentRefreshDetected
<1>1. RefreshVerdict(j) = IF a THEN "invalid" ELSE IF j \in jtiBlacklist THEN "revoked"
                          ELSE IF c THEN "compromised" ELSE IF j \in fam.blacklistedJtis THEN "reused"
                          ELSE "ok"
  BY DEF RefreshVerdict
<1> HIDE DEF a, c, fam
<1>2. CASE a
  BY <1>1, <1>2
<1>3. CASE ~a /\ j \in jtiBlacklist
  BY <1>1, <1>3
<1>4. CASE ~a /\ j \notin jtiBlacklist /\ c
  BY <1>1, <1>4
<1>5. CASE ~a /\ j \notin jtiBlacklist /\ ~c /\ j \in fam.blacklistedJtis
  <2>1. RefreshVerdict(j) = "reused"
    BY <1>1, <1>5
  <2> QED BY <1>5, <2>1 DEF fam
<1>6. CASE ~a /\ j \notin jtiBlacklist /\ ~c /\ j \notin fam.blacklistedJtis
  <2>1. RefreshVerdict(j) = "ok"
    BY <1>1, <1>6
  <2> QED BY <1>6, <2>1 DEF fam
<1> QED BY <1>2, <1>3, <1>4, <1>5, <1>6

\* What minting a pair into a family record leaves behind.
LEMMA PairMinted ==
  ASSUME FamiliesInv, NEW f \in Families, NEW family,
         family.known = TRUE, DOMAIN family = FamilyFields,
         generateTokenPair(f, family)
  PROVE  /\ minted' \in Seq([type : {"access", "refresh"}, fam : Families, exp : Nat])
         /\ Len(minted') = Len(minted) + 2
         /\ Len(minted') =< MaxTokens
         /\ \A j \in DOMAIN minted : j \in DOMAIN minted' /\ minted'[j] = minted[j]
         /\ \A j \in DOMAIN minted' : j \notin DOMAIN minted =>
              minted'[j].fam = f /\ j \in tokenFamilies'[f].issuedJtis
         /\ \E j \in DOMAIN minted' : minted'[j].fam = f
         /\ DOMAIN tokenFamilies' = Families
         /\ \A g \in Families : g # f => tokenFamilies'[g] = tokenFamilies[g]
         /\ tokenFamilies'[f].known = TRUE
         /\ DOMAIN tokenFamilies'[f] = FamilyFields
         /\ family.issuedJtis \subseteq tokenFamilies'[f].issuedJtis
         /\ tokenFamilies'[f].blacklistedJtis = family.blacklistedJtis
<1> DEFINE n == Len(minted)
           S == [type : {"access", "refresh"}, fam : Families, exp : Nat]
           acc == [type |-> "access", fam |-> f, exp |-> tfNow + AccessTtl]
           ref == [type |-> "refresh", fam |-> f, exp |-> tfNow + RefreshTtl]
           next == [family EXCEPT !.issuedJtis = @ \cup {n + 1, n + 2}]
<1>1. acc \in S /\ ref \in S /\ acc.fam = f /\ ref.fam = f
  BY FamiliesAssumption DEF FamiliesInv, FamilyTypes
<1>2. minted \in Seq(S) /\ n \in Nat /\ DOMAIN minted = 1..n
  BY DEF FamiliesInv, FamilyTypes
<1>3. minted' = minted \o <<acc, ref>> /\ n + 2 =< MaxTokens
      /\ tokenFamilies' = [tokenFamilies EXCEPT ![f] = next]
  BY DEF generateTokenPair
<1>4. /\ next.known = TRUE
      /\ DOMAIN next = FamilyFields
      /\ next.issuedJtis = family.issuedJtis \cup {n + 1, n + 2}
      /\ next.blacklistedJtis = family.blacklistedJtis
  BY DEF FamilyFields
<1> HIDE DEF acc, ref, S, next
<1>5. /\ minted' \in Seq(S)
      /\ Len(minted') = n + 2
      /\ DOMAIN minted' = 1..(n + 2)
      /\ \A j \in 1..n : minted'[j] = minted[j]
      /\ minted'[n + 1] = acc /\ minted'[n + 2] = ref
  BY <1>1, <1>2, <1>3
<1>6. /\ DOMAIN tokenFamilies' = Families
      /\ tokenFamilies'[f] = next
      /\ \A g \in Families : g # f => tokenFamilies'[g] = tokenFamilies[g]
  BY <1>3 DEF FamiliesInv, FamilyTypes
<1>7. ASSUME NEW j \in DOMAIN minted', j \notin DOMAIN minted
      PROVE  minted'[j].fam = f /\ j \in tokenFamilies'[f].issuedJtis
  <2>1. j = n + 1 \/ j = n + 2
    BY <1>2, <1>5, <1>7
  <2> QED BY <2>1, <1>1, <1>4, <1>5, <1>6
<1>8. n + 1 \in DOMAIN minted' /\ minted'[n + 1].fam = f
  BY <1>1, <1>2, <1>5
<1>9. \A j \in DOMAIN minted : j \in DOMAIN minted' /\ minted'[j] = minted[j]
  BY <1>2, <1>5
<1> QED BY <1>3, <1>4, <1>5, <1>6, <1>7, <1>8, <1>9 DEF S

\* The step of a login or a rotation: a pair is minted into the record `family', which
\* keeps what the family's own record held.
LEMMA MintingKeeps ==
  ASSUME FamiliesInv, NEW f \in Families, NEW family,
         family.known = TRUE, DOMAIN family = FamilyFields,
         generateTokenPair(f, family),
         tfNow' = tfNow, jtiBlacklist' = jtiBlacklist, revoked' = revoked, lost' = lost,
         f \notin lost => f \notin revoked,
         tokenFamilies[f].known => /\ tokenFamilies[f].issuedJtis \subseteq family.issuedJtis
                                   /\ tokenFamilies[f].blacklistedJtis \subseteq family.blacklistedJtis
  PROVE  /\ rotated' \in [Jtis -> Nat] => FamilyTypes'
         /\ Traceable' /\ FamiliesUsed'
<1>1. /\ minted' \in Seq([type : {"access", "refresh"}, fam : Families, exp : Nat])
      /\ Len(minted') =< MaxTokens
      /\ \A j \in DOMAIN minted : j \in DOMAIN minted' /\ minted'[j] = minted[j]
      /\ \A j \in DOMAIN minted' : j \notin DOMAIN minted =>
           minted'[j].fam = f /\ j \in tokenFamilies'[f].issuedJtis
      /\ \E j \in DOMAIN minted' : minted'[j].fam = f
      /\ DOMAIN tokenFamilies' = Families
      /\ \A g \in Families : g # f => tokenFamilies'[g] = tokenFamilies[g]
      /\ tokenFamilies'[f].known = TRUE
      /\ DOMAIN tokenFamilies'[f] = FamilyFields
      /\ family.issuedJtis \subseteq tokenFamilies'[f].issuedJtis
      /\ tokenFamilies'[f].blacklistedJtis = family.blacklistedJtis
  BY PairMinted
<1>2. \A j \in DOMAIN minted : minted[j].fam \in Families
  BY MintedFamilies DEF FamiliesInv
<1>3. rotated' \in [Jtis -> Nat] => FamilyTypes'
  BY <1>1 DEF FamiliesInv, FamilyTypes, FamilyOk
<1>4. Traceable'
  <2> SUFFICES ASSUME NEW j \in DOMAIN minted', minted'[j].fam \notin lost
               PROVE  /\ \/ j \in jtiBlacklist
                         \/ tokenFamilies'[minted'[j].fam].known /\ j \in tokenFamilies'[minted'[j].fam].issuedJtis
                      /\ minted'[j].fam \in revoked => j \in jtiBlacklist
    BY DEF Traceable
  <2>1. CASE j \notin DOMAIN minted
    BY <2>1, <1>1
  <2>2. CASE j \in DOMAIN minted
    <3>1. minted'[j] = minted[j] /\ minted[j].fam \in Families
      BY <2>2, <1>1, <1>2
    <3>2. /\ \/ j \in jtiBlacklist
             \/ tokenFamilies[minted[j].fam].known /\ j \in tokenFamilies[minted[j].fam].issuedJtis
          /\ minted[j].fam \in revoked => j \in jtiBlacklist
      BY <2>2, <3>1 DEF FamiliesInv, Traceable
    <3>3. CASE minted[j].fam = f
      BY <3>1, <3>2, <3>3, <1>1
    <3>4. CASE minted[j].fam # f
      BY <3>1, <3>2, <3>4, <1>1
    <3> QED BY <3>3, <3>4
  <2> QED BY <2>1, <2>2
<1>5. FamiliesUsed'
  <2> SUFFICES ASSUME NEW g \in Families, tokenFamilies'[g].known \/ g \in revoked
               PROVE  \E j \in DOMAIN minted' : minted'[j].fam = g
    BY DEF FamiliesUsed
  <2>1. CASE g = f
    BY <2>1, <1>1
  <2>2. CASE g # f
    <3>1. tokenFamilies[g].known \/ g \in revoked
      BY <2>2, <1>1
    <3>2. PICK j \in DOMAIN minted : minted[j].fam = g
      BY <3>1 DEF FamiliesInv, FamiliesUsed
    <3> QED BY <3>2, <1>1
  <2> QED BY <2>1, <2>2
<1> QED BY <1>3, <1>4, <1>5

LEMMA FamiliesStep == FamiliesInv /\ [TfNext]_tfVars => FamiliesInv'
<1> SUFFICES ASSUME FamiliesInv, [TfNext]_tfVars PROVE FamiliesInv'
  OBVIOUS
<1>0. /\ \A j \in DOMAIN minted : minted[j].fam \in Families /\ j \in Jtis
      /\ \A f \in Families : FamilyOk(tokenFamilies[f])
      /\ FamilyTypes /\ Traceable /\ FamiliesUsed /\ Consumed
      /\ rotated \in [Jtis -> Nat]
  <2>1. FamilyTypes
    BY DEF FamiliesInv
  <2>2. \A j \in DOMAIN minted : minted[j].fam \in Families /\ j \in Jtis
    BY <2>1, MintedFamilies
  <2> QED BY <2>1, <2>2 DEF FamiliesInv, FamilyTypes
<1>k. \A f \in Families : tokenFamilies[f].known => tokenFamilies[f].known = TRUE /\ DOMAIN tokenFamilies[f] = FamilyFields
  BY <1>0, NoFamilyUnknown DEF FamilyOk
<1>1. ASSUME NEW f \in Families, IssuePair(f) PROVE FamiliesInv'
  <2> DEFINE family == getOrCreateFamily(f)
  <2>1. /\ generateTokenPair(f, family) /\ ~tokenFamilies[f].known
        /\ \A i \in DOMAIN minted : minted[i].fam # f
        /\ UNCHANGED <<tfNow, jtiBlacklist, revoked, lost, rotated>>
    BY <1>1 DEF IssuePair
  <2>2. family.known = TRUE /\ DOMAIN family = FamilyFields
    BY <1>0, FamilyFound
  <2>3. f \notin revoked
    BY <1>0, <2>1 DEF FamiliesUsed
  <2> HIDE DEF family
  <2>4. FamilyTypes' /\ Traceable' /\ FamiliesUsed'
    BY <1>0, <2>1, <2>2, <2>3, MintingKeeps
  <2>5. Consumed'
    <3>1. /\ \A j \in DOMAIN minted : j \in DOMAIN minted' /\ minted'[j] = minted[j]
          /\ Len(minted') =< MaxTokens
          /\ minted' \in Seq([type : {"access", "refresh"}, fam : Families, exp : Nat])
          /\ \A g \in Families : g # f => tokenFamilies'[g] = tokenFamilies[g]
          /\ \A j \in DOMAIN minted' : j \notin DOMAIN minted => minted'[j].fam = f
      BY <2>1, <2>2, PairMinted
    <3>2. \A j \in DOMAIN minted' : j \in Jtis
      BY <3>1, FamiliesAssumption DEF Jtis
    <3>3. \A j \in Jtis : j \notin DOMAIN minted' => rotated'[j] = 0
      BY <3>1, <2>1, <1>0 DEF Consumed
    <3>4. ASSUME NEW j \in DOMAIN minted', minted'[j].fam \notin lost'
          PROVE  /\ rotated'[j] =< 1
                 /\ rotated'[j] = 1 => \/ j \in jtiBlacklist'
                                       \/ /\ tokenFamilies'[minted'[j].fam].known
                                          /\ j \in tokenFamilies'[minted'[j].fam].blacklistedJtis
      <4>1. CASE j \notin DOMAIN minted
        BY <4>1, <3>2, <2>1, <1>0 DEF Consumed
      <4>2. CASE j \in DOMAIN minted
        BY <4>2, <3>1, <3>4, <2>1, <1>0 DEF Consumed
      <4> QED BY <4>1, <4>2
    <3> QED BY <3>3, <3>4 DEF Consumed
  <2> QED BY <2>4, <2>5 DEF FamiliesInv
<1>2. ASSUME NEW t \in DOMAIN minted, RotatePair(t) PROVE FamiliesInv'
  <2> DEFINE f == minted[t].fam
             found == getOrCreateFamily(f)
             family == [found EXCEPT !.blacklistedJtis = @ \cup {t}]
  <2>1. /\ generateTokenPair(f, family) /\ RefreshVerdict(t) = "ok"
        /\ rotated' = [rotated EXCEPT ![t] = @ + 1]
        /\ UNCHANGED <<tfNow, jtiBlacklist, revoked, lost>>
    BY <1>2 DEF RotatePair
  <2>2. /\ f \in Families /\ found.known = TRUE /\ DOMAIN found = FamilyFields
        /\ tokenFamilies[f].known => found = tokenFamilies[f]
    BY <1>0, FamilyFound
  <2>3. t \notin jtiBlacklist /\ t \notin found.blacklistedJtis
    BY <2>1, VerdictMeans
  <2> HIDE DEF found
  <2>4. /\ family.known = TRUE /\ DOMAIN family = FamilyFields
        /\ family.issuedJtis = found.issuedJtis
        /\ family.blacklistedJtis = found.blacklistedJtis \cup {t}
    BY <2>2 DEF FamilyFields
  <2> HIDE DEF family
  <2>5. f \notin lost => f \notin revoked
    BY <2>3, <1>0 DEF Traceable
  <2>6. rotated' \in [Jtis -> Nat] /\ rotated'[t] = rotated[t] + 1
        /\ \A j \in Jtis : j # t => rotated'[j] = rotated[j]
    BY <2>1, <1>0
  <2>7. tokenFamilies[f].known => /\ tokenFamilies[f].issuedJtis \subseteq family.issuedJtis
                                  /\ tokenFamilies[f].blacklistedJtis \subseteq family.blacklistedJtis
    BY <2>2, <2>4
  <2>x. f \in Families
    BY <2>2
  <2> HIDE DEF f
  <2>8. FamilyTypes' /\ Traceable' /\ FamiliesUsed'
    BY <2>1, <2>x, <2>4, <2>5, <2>6, <2>7, MintingKeeps
  <2>9. Consumed'
    <3>1. /\ \A j \in DOMAIN minted : j \in DOMAIN minted' /\ minted'[j] = minted[j]
          /\ Len(minted') =< MaxTokens
          /\ minted' \in Seq([type : {"access", "refresh"}, fam : Families, exp : Nat])
          /\ \A g \in Families : g # f => tokenFamilies'[g] = tokenFamilies[g]
          /\ tokenFamilies'[f].known = TRUE
          /\ tokenFamilies'[f].blacklistedJtis = family.blacklistedJtis
          /\ \A j \in DOMAIN minted' : j \notin DOMAIN minted => minted'[j].fam = f
      BY <2>1, <2>x, <2>4, PairMinted
    <3>2. \A j \in DOMAIN minted' : j \in Jtis
      BY <3>1, FamiliesAssumption DEF Jtis
    <3>3. \A j \in Jtis : j \notin DOMAIN minted' => rotated'[j] = 0
      BY <3>1, <2>6, <1>0 DEF Consumed
    <3>4. ASSUME NEW j \in DOMAIN minted', minted'[j].fam \notin lost'
          PROVE  /\ rotated'[j] =< 1
                 /\ rotated'[j] = 1 => \/ j \in jtiBlacklist'
                                       \/ /\ tokenFamilies'[minted'[j].fam].known
                                          /\ j \in tokenFamilies'[minted'[j].fam].blacklistedJtis
      <4>1. CASE j \notin DOMAIN minted
        BY <4>1, <3>2, <2>6, <1>0 DEF Consumed
      <4>2. CASE j = t
        <5>1. minted'[t] = minted[t] /\ minted[t].fam = f /\ f \notin lost
          BY <4>2, <3>1, <3>4, <2>1 DEF f
        <5>2. rotated[t] =< 1 /\ rotated[t] # 1 /\ rotated[t] \in Nat
          BY <5>1, <2>2, <2>3, <1>0 DEF Consumed, f
        <5>3. rotated'[t] = 1
          BY <5>2, <2>6
        <5> QED BY <4>2, <5>1, <5>3, <3>1, <2>4
      <4>3. CASE j \in DOMAIN minted /\ j # t
        <5>1. minted'[j] = minted[j] /\ minted[j].fam \notin lost /\ rotated'[j] = rotated[j]
          BY <4>3, <3>1, <3>4, <2>1, <2>6, <1>0
        <5>2. /\ rotated[j] =< 1
              /\ rotated[j] = 1 => \/ j \in jtiBlacklist
                                   \/ /\ tokenFamilies[minted[j].fam].known
                                      /\ j \in tokenFamilies[minted[j].fam].blacklistedJtis
          BY <4>3, <5>1, <1>0 DEF Consumed
        <5>3. CASE minted[j].fam = f
          BY <5>1, <5>2, <5>3, <3>1, <2>1, <2>7
        <5>4. CASE minted[j].fam # f
          <6>1. tokenFamilies'[minted[j].fam] = tokenFamilies[minted[j].fam]
            BY <4>3, <5>4, <3>1, <1>0
          <6> QED BY <5>1, <5>2, <6>1, <2>1
        <5> QED BY <5>3, <5>4
      <4> QED BY <4>1, <4>2, <4>3
    <3> QED BY <3>3, <3>4 DEF Consumed
  <2> QED BY <2>8, <2>9 DEF FamiliesInv
<1>3. ASSUME NEW t \in DOMAIN minted, DetectReuse(t) PROVE FamiliesInv'
  <2> DEFINE f == minted[t].fam
             next == [tokenFamilies[f] EXCEPT !.concurrentRefreshDetected = TRUE]
  <2>1. /\ RefreshVerdict(t) = "reused" /\ f \in Families
        /\ tokenFamilies' = [tokenFamilies EXCEPT ![f] = next]
        /\ jtiBlacklist' = jtiBlacklist \cup tokenFamilies[f].issuedJtis
        /\ revoked' = revoked \cup {f}
        /\ UNCHANGED <<tfNow, minted, lost, rotated>>
    BY <1>3, <1>0 DEF DetectReuse
  <2>2. tokenFamilies[f].known
    BY <2>1, <1>0, VerdictMeans, FamilyFound
  <2>3. DOMAIN tokenFamilies[f] = FamilyFields /\ tokenFamilies[f].known = TRUE
    BY <2>1, <2>2, <1>k
  <2>4. /\ next.known = TRUE /\ DOMAIN next = FamilyFields
        /\ next.issuedJtis = tokenFamilies[f].issuedJtis
        /\ next.blacklistedJtis = tokenFamilies[f].blacklistedJtis
    BY <2>3 DEF FamilyFields
  <2>5. f = minted[t].fam
    OBVIOUS
  <2> HIDE DEF next, f
  <2>6. /\ DOMAIN tokenFamilies' = Families /\ tokenFamilies'[f] = next
        /\ \A g \in Families : g # f => tokenFamilies'[g] = tokenFamilies[g]
    BY <2>1, <1>0 DEF FamilyTypes
  <2>7. FamilyTypes'
    BY <2>1, <2>4, <2>6, <1>0 DEF FamilyTypes, FamilyOk
  <2>8. Traceable'
    <3> SUFFICES ASSUME NEW j \in DOMAIN minted, minted[j].fam \notin lost
                 PROVE  /\ \/ j \in jtiBlacklist'
                           \/ tokenFamilies'[minted[j].fam].known /\ j \in tokenFamilies'[minted[j].fam].issuedJtis
                        /\ minted[j].fam \in revoked' => j \in jtiBlacklist'
      BY <2>1 DEF Traceable
    <3>1. /\ \/ j \in jtiBlacklist
             \/ tokenFamilies[minted[j].fam].known /\ j \in tokenFamilies[minted[j].fam].issuedJtis
          /\ minted[j].fam \in revoked => j \in jtiBlacklist
      BY <1>0 DEF Traceable
    <3>2. CASE minted[j].fam = f
      BY <3>1, <3>2, <2>1
    <3>3. CASE minted[j].fam # f
      BY <3>1, <3>3, <2>1, <2>6, <1>0
    <3> QED BY <3>2, <3>3
  <2>9. FamiliesUsed'
    BY <2>1, <2>5, <2>6, <1>0 DEF FamiliesUsed
  <2>10. Consumed'
    <3>1. \A g \in Families : /\ tokenFamilies'[g].known <=> tokenFamilies[g].known
                              /\ tokenFamilies'[g].blacklistedJtis = tokenFamilies[g].blacklistedJtis
      <4> SUFFICES ASSUME NEW g \in Families
                   PROVE  /\ tokenFamilies'[g].known <=> tokenFamilies[g].known
                          /\ tokenFamilies'[g].blacklistedJtis = tokenFamilies[g].blacklistedJtis
        OBVIOUS
      <4>1. CASE g = f
        BY <4>1, <2>3, <2>4, <2>6
      <4>2. CASE g # f
        BY <4>2, <2>6
      <4> QED BY <4>1, <4>2
    <3> QED BY <3>1, <2>1, <1>0 DEF Consumed
  <2> QED BY <2>7, <2>8, <2>9, <2>10 DEF FamiliesInv
<1>4. ASSUME NEW t \in DOMAIN minted, VerifyRefresh(t) PROVE FamiliesInv'
  <2> DEFINE f == minted[t].fam
             next == getOrCreateFamily(f)
  <2>1. /\ f \in Families /\ ~tokenFamilies[f].known
        /\ tokenFamilies' = [tokenFamilies EXCEPT ![f] = next]
        /\ UNCHANGED <<tfNow, minted, jtiBlacklist, revoked, lost, rotated>>
    BY <1>4, <1>0 DEF VerifyRefresh
  <2>2. next.known = TRUE /\ DOMAIN next = FamilyFields
    BY <2>1, <1>0, FamilyFound
  <2>3. f = minted[t].fam
    OBVIOUS
  <2> HIDE DEF next, f
  <2>4. /\ DOMAIN tokenFamilies' = Families /\ tokenFamilies'[f] = next
        /\ \A g \in Families : g # f => tokenFamilies'[g] = tokenFamilies[g]
    BY <2>1, <1>0 DEF FamilyTypes
  <2>5. FamilyTypes'
    BY <2>1, <2>2, <2>4, <1>0 DEF FamilyTypes, FamilyOk
  <2>6. Traceable' /\ Consumed'
    BY <2>1, <2>4, <1>0 DEF Traceable, Consumed
  <2>7. FamiliesUsed'
    BY <2>1, <2>3, <2>4, <1>0 DEF FamiliesUsed
  <2> QED BY <2>5, <2>6, <2>7 DEF FamiliesInv
<1>5. ASSUME NEW t \in DOMAIN minted, blacklistToken(t) PROVE FamiliesInv'
  <2> DEFINE f == minted[t].fam
             next == [tokenFamilies[f] EXCEPT !.blacklistedJtis = @ \cup {t}]
  <2>1. /\ f \in Families
        /\ tokenFamilies' = IF tokenFamilies[f].known THEN [tokenFamilies EXCEPT ![f] = next] ELSE tokenFamilies
        /\ jtiBlacklist' = jtiBlacklist \cup {t}
        /\ UNCHANGED <<tfNow, minted, revoked, lost, rotated>>
    BY <1>5, <1>0 DEF blacklistToken
  <2>2. /\ DOMAIN tokenFamilies' = Families
        /\ \A g \in Families : /\ FamilyOk(tokenFamilies'[g])
                               /\ tokenFamilies'[g].known <=> tokenFamilies[g].known
                               /\ tokenFamilies[g].known =>
                                    /\ tokenFamilies'[g].issuedJtis = tokenFamilies[g].issuedJtis
                                    /\ tokenFamilies[g].blacklistedJtis \subseteq tokenFamilies'[g].blacklistedJtis
    <3>1. CASE tokenFamilies[f].known
      <4>1. DOMAIN tokenFamilies[f] = FamilyFields /\ tokenFamilies[f].known = TRUE
        BY <2>1, <3>1, <1>k
      <4>2. /\ next.known = TRUE /\ DOMAIN next = FamilyFields
            /\ next.issuedJtis = tokenFamilies[f].issuedJtis
            /\ next.blacklistedJtis = tokenFamilies[f].blacklistedJtis \cup {t}
        BY <4>1 DEF FamilyFields
      <4> HIDE DEF next
      <4>3. /\ DOMAIN tokenFamilies' = Families /\ tokenFamilies'[f] = next
            /\ \A g \in Families : g # f => tokenFamilies'[g] = tokenFamilies[g]
        BY <2>1, <3>1, <1>0 DEF FamilyTypes
      <4> HIDE DEF f
      <4> SUFFICES ASSUME NEW g \in Families
                   PROVE  /\ FamilyOk(tokenFamilies'[g])
                          /\ tokenFamilies'[g].known <=> tokenFamilies[g].known
                          /\ tokenFamilies[g].known =>
                               /\ tokenFamilies'[g].issuedJtis = tokenFamilies[g].issuedJtis
                               /\ tokenFamilies[g].blacklistedJtis \subseteq tokenFamilies'[g].blacklistedJtis
        BY <4>3
      <4>4. CASE g = f
        BY <4>1, <4>2, <4>3, <4>4 DEF FamilyOk
      <4>5. CASE g # f
        BY <4>3, <4>5, <1>0
      <4> QED BY <4>4, <4>5
    <3>2. CASE ~tokenFamilies[f].known
      BY <2>1, <3>2, <1>0 DEF FamilyTypes
    <3> QED BY <3>1, <3>2
  <2>3. FamilyTypes'
    BY <2>1, <2>2, <1>0 DEF FamilyTypes
  <2>4. Traceable' /\ Consumed' /\ FamiliesUsed'
    BY <2>1, <2>2, <1>0 DEF Traceable, Consumed, FamiliesUsed
  <2> QED BY <2>3, <2>4 DEF FamiliesInv
<1>6. ASSUME NEW f \in Families, revokeTokenFamily(f) PROVE FamiliesInv'
  <2>1. /\ tokenFamilies[f].known
        /\ jtiBlacklist' = jtiBlacklist \cup tokenFamilies[f].issuedJtis \cup tokenFamilies[f].blacklistedJtis
        /\ revoked' = revoked \cup {f}
        /\ UNCHANGED <<tfNow, minted, lost, rotated>>
    BY <1>6 DEF revokeTokenFamily
  <2>2. /\ DOMAIN tokenFamilies' = Families /\ tokenFamilies'[f] = NoFamily
        /\ \A g \in Families : g # f => tokenFamilies'[g] = tokenFamilies[g]
    BY <1>6, <1>0 DEF FamilyTypes, revokeTokenFamily
  <2>3. FamilyTypes'
    BY <2>1, <2>2, <1>0 DEF FamilyTypes, FamilyOk
  <2>4. Traceable' /\ Consumed'
    BY <2>1, <2>2, <1>0 DEF Traceable, Consumed
  <2>5. FamiliesUsed'
    BY <2>1, <2>2, <1>0 DEF FamiliesUsed
  <2> QED BY <2>3, <2>4, <2>5 DEF FamiliesInv
<1>7. ASSUME clearExpiredFamilies PROVE FamiliesInv'
  <2>1. PICK old \in SUBSET Families :
        /\ tokenFamilies' = [f \in Families |-> IF f \in old THEN NoFamily ELSE tokenFamilies[f]]
        /\ lost' = lost \cup old
        /\ UNCHANGED <<tfNow, minted, jtiBlacklist, revoked, rotated>>
    BY <1>7 DEF clearExpiredFamilies
  <2>2. /\ DOMAIN tokenFamilies' = Families
        /\ \A g \in Families : tokenFamilies'[g] = IF g \in old THEN NoFamily ELSE tokenFamilies[g]
    BY <2>1
  <2>3. FamilyTypes'
    BY <2>1, <2>2, <1>0 DEF FamilyTypes, FamilyOk
  <2>4. Traceable' /\ Consumed'
    BY <2>1, <2>2, <1>0 DEF Traceable, Consumed
  <2>5. FamiliesUsed'
    BY <2>1, <2>2, <1>0, NoFamilyUnknown DEF FamiliesUsed
  <2> QED BY <2>3, <2>4, <2>5 DEF FamiliesInv
<1>8. ASSUME TfRestart PROVE FamiliesInv'
  <2>1. /\ tokenFamilies' = [f \in Families |-> NoFamily]
        /\ lost' = {minted[j].fam : j \in DOMAIN minted}
        /\ UNCHANGED <<tfNow, minted, revoked, rotated>>
    BY <1>8 DEF TfRestart
  <2>2. FamilyTypes'
    BY <2>1, <1>0 DEF FamilyTypes, FamilyOk
  <2>3. Traceable' /\ Consumed'
    BY <2>1, <1>0 DEF Traceable, Consumed
  <2>4. FamiliesUsed'
    BY <2>1, <1>0, NoFamilyUnknown DEF FamiliesUsed
  <2> QED BY <2>2, <2>3, <2>4 DEF FamiliesInv
<1>9. ASSUME TfTick \/ UNCHANGED tfVars PROVE FamiliesInv'
  <2>1. /\ tfNow' \in Nat
        /\ UNCHANGED <<minted, tokenFamilies, jtiBlacklist, revoked, lost, rotated>>
    BY <1>9, <1>0 DEF TfTick, tfVars, FamilyTypes
  <2> QED BY <2>1, <1>0 DEF FamiliesInv, FamilyTypes, Traceable, FamiliesUsed, Consumed
<1> QED BY <1>1, <1>2, <1>3, <1>4, <1>5, <1>6, <1>7, <1>8, <1>9 DEF TfNext

\* Reuse detection and revocation of utils/jwt.ts reach the whole family, and a refresh
\* token is exchanged once, for any number of families, tokens and ticks and however
\* rotations, detections, revocations, clean-ups and restarts interleave; families whose
\* record the clean-up or a restart dropped are excepted.
THEOREM RevokedFamiliesStayDead == TfSpec => []FamiliesHold
<1>1. FamiliesInv => FamiliesHold
  <2> SUFFICES ASSUME FamiliesInv PROVE FamiliesHold
    OBVIOUS
  <2>1. RevokedFamilyIsDead
    <3> SUFFICES ASSUME NEW j \in DOMAIN minted, minted[j].fam \in revoked, minted[j].fam \notin lost
                 PROVE  ~verifyAccessToken(j) /\ RefreshVerdict(j) # "ok"
      BY DEF RevokedFamilyIsDead
    <3>1. j \in jtiBlacklist
      BY DEF FamiliesInv, Traceable
    <3> QED BY <3>1, VerdictMeans DEF verifyAccessToken
  <2>2. RotatesOnce
    BY DEF FamiliesInv, Consumed, RotatesOnce
  <2> QED BY <2>1, <2>2 DEF FamiliesHold
<1> QED BY <1>1, FamiliesStart, FamiliesStep, PTL DEF TfSpec

-----------------------------------------------------------------------------
(* utils/secret-loader.ts and utils/jwks.ts: the rotation of signing keys. *)

BundleOk(b) == b.key \in Keys \cup {NoKey, BadKey} /\ b.pub \subseteq Keys

\* A handler that holds an answer of the provider holds a bundle.
HandlerOk(q) == q.stage \in {"served", "saving"} => BundleOk(q.b)

SecretsOk ==
  /\ BundleOk(secrets)
  /\ BundleOk(disk.b)
  /\ DOMAIN disk = {"b", "ttl"}
  /\ upstream \in Bundles
  /\ DOMAIN hup = Handlers
  /\ \A h \in Handlers : HandlerOk(hup[h])

\* The published keys; the signing key is one of them.
PublishedOk ==
  /\ activeKeys \subseteq AllKeys
  /\ retiredKeys \in [AllKeys -> Nat]
  /\ signingKey # NoKey => signingKey \in activeKeys

\* The key a token names is published, or retired for at least what is left of the grace
\* window counted from the token's issue.
KeyKept(t, active, retired) ==
  t.kid # NoKey => t.kid \in AllKeys /\ (t.kid \in active \/ retired[t.kid] + t.age >= Grace)

TokensOk ==
  \A t \in tokens : /\ DOMAIN t = {"kid", "hs", "age"}
                    /\ t.age \in Nat /\ t.age < KrTtl
                    /\ KeyKept(t, activeKeys, retiredKeys)

KeysInv == SecretsOk /\ PublishedOk /\ TokensOk

LEMMA EmptyOk == BundleOk(Empty)
BY DEF BundleOk, Empty

LEMMA KeysStart == KrInit => KeysInv
<1> SUFFICES ASSUME KrInit PROVE KeysInv
  OBVIOUS
<1>1. disk.b = Empty /\ DOMAIN disk = {"b", "ttl"}
  BY DEF KrInit, NoDisk, Disabled
<1>2. \A h \in Handlers : hup[h].stage \in {"asked", "idle"}
  BY DEF KrInit, Resting
<1>3. DOMAIN hup = Handlers
  BY DEF KrInit
<1>4. SecretsOk
  BY <1>1, <1>2, <1>3, EmptyOk DEF KrInit, SecretsOk, HandlerOk
<1> QED BY <1>4 DEF KrInit, KeysInv, PublishedOk, TokensOk, NotRetired

\* What the loader returns is the private key or public keys of some bundle.
LEMMA GetOk ==
  ASSUME SecretsOk
  PROVE  get("key") \in Keys \cup {NoKey, BadKey} /\ get("pub") \subseteq Keys
BY KeysAssumption DEF get, SecretsOk, BundleOk

\* A reload publishes the signing key and keeps what tokens need of the keys it drops.
LEMMA ReloadKeeps ==
  ASSUME KeysInv, Reload, tokens' = tokens
  PROVE  PublishedOk' /\ TokensOk'
<1> DEFINE next == NextActive
<1>1. /\ get("key") \in Keys \cup {NoKey} /\ get("pub") \subseteq Keys
  BY GetOk DEF KeysInv, Reload
<1>2. next \subseteq AllKeys /\ (get("key") # NoKey => get("key") \in next)
  BY <1>1 DEF NextActive, AllKeys
<1>3. /\ activeKeys' = next /\ signingKey' = get("key")
      /\ retiredKeys' = [k \in AllKeys |-> IF k \in activeKeys \ next THEN Grace ELSE retiredKeys[k]]
  BY DEF Reload, Retired
<1> HIDE DEF next
<1>4. PublishedOk'
  BY <1>2, <1>3, KeysAssumption DEF PublishedOk, KeysInv
<1>5. ASSUME NEW t \in tokens PROVE KeyKept(t, activeKeys', retiredKeys')
  <2>1. t.age \in Nat /\ KeyKept(t, activeKeys, retiredKeys)
    BY DEF KeysInv, TokensOk
  <2>2. ASSUME t.kid # NoKey
        PROVE  t.kid \in AllKeys /\ (t.kid \in next \/ retiredKeys'[t.kid] + t.age >= Grace)
    BY <2>1, <2>2, <1>3, KeysAssumption DEF KeyKept
  <2> QED BY <2>2, <1>3 DEF KeyKept
<1>6. TokensOk'
  BY <1>5 DEF TokensOk, KeysInv
<1> QED BY <1>4, <1>6

LEMMA KeysStep == KeysInv /\ [KrNext]_krVars => KeysInv'
<1> SUFFICES ASSUME KeysInv, [KrNext]_krVars PROVE KeysInv'
  OBVIOUS
<1>0. SecretsOk /\ PublishedOk /\ TokensOk
  BY DEF KeysInv
<1> USE DEF KeysInv
<1>a. ASSUME keyVars' = keyVars, tokens' = tokens PROVE PublishedOk' /\ TokensOk'
  BY <1>a, <1>0 DEF keyVars, PublishedOk, TokensOk
<1>b. ASSUME NEW h \in Handlers, NEW q, HandlerOk(q), hup' = [hup EXCEPT ![h] = q]
      PROVE  DOMAIN hup' = Handlers /\ \A g \in Handlers : HandlerOk(hup'[g])
  BY <1>b, <1>0 DEF SecretsOk
<1>1. ASSUME NEW h \in Handlers, Sighup(h) PROVE KeysInv'
  <2> DEFINE q == [stage |-> "asked"]
  <2>1. HandlerOk(q)
    BY DEF HandlerOk
  <2>2. hup' = [hup EXCEPT ![h] = q] /\ UNCHANGED <<provider, upstream, secrets, disk, keyVars, tokens>>
    BY <1>1 DEF Sighup
  <2> HIDE DEF q
  <2> QED BY <2>1, <2>2, <1>0, <1>a, <1>b DEF SecretsOk
<1>2. ASSUME NEW h \in Handlers, ProviderServes(h) PROVE KeysInv'
  <2> DEFINE q == [stage |-> "served", b |-> upstream]
  <2>1. HandlerOk(q)
    BY <1>0, KeysAssumption DEF HandlerOk, BundleOk, SecretsOk
  <2>2. hup' = [hup EXCEPT ![h] = q] /\ UNCHANGED <<provider, upstream, secrets, disk, keyVars, tokens>>
    BY <1>2 DEF ProviderServes
  <2> HIDE DEF q
  <2> QED BY <2>1, <2>2, <1>0, <1>a, <1>b DEF SecretsOk
<1>3. ASSUME NEW h \in Handlers, NEW b, BundleOk(b), Install(h, b) PROVE KeysInv'
  <2> DEFINE q == IF disk = Disabled THEN [stage |-> "jwks"] ELSE [stage |-> "saving", b |-> b]
  <2>1. HandlerOk(q)
    BY <1>3 DEF HandlerOk
  <2>2. /\ hup' = [hup EXCEPT ![h] = q] /\ secrets' = b
        /\ UNCHANGED <<provider, upstream, disk, keyVars, tokens>>
    BY <1>3 DEF Install
  <2> HIDE DEF q
  <2> QED BY <2>1, <2>2, <1>0, <1>3, <1>a, <1>b DEF SecretsOk
<1>4. ASSUME NEW h \in Handlers, PrimaryLoaded(h) PROVE KeysInv'
  BY <1>0, <1>3, <1>4 DEF PrimaryLoaded, SecretsOk, HandlerOk
<1>5. ASSUME NEW h \in Handlers, PrimaryEmpty(h) PROVE KeysInv'
  BY <1>3, <1>5, EmptyOk DEF PrimaryEmpty
<1>6. ASSUME NEW h \in Handlers, PrimaryFails(h) PROVE KeysInv'
  <2> DEFINE q == [stage |-> "jwks"]
  <2>1. HandlerOk(q)
    BY DEF HandlerOk
  <2>2. BundleOk(secrets')
    BY <1>0, <1>6, KeysAssumption DEF PrimaryFails, FallbackBundles, SecretsOk, BundleOk
  <2>3. hup' = [hup EXCEPT ![h] = q] /\ UNCHANGED <<provider, upstream, disk, keyVars, tokens>>
    BY <1>6 DEF PrimaryFails
  <2> HIDE DEF q
  <2> QED BY <2>1, <2>2, <2>3, <1>0, <1>a, <1>b DEF SecretsOk
<1>7. ASSUME NEW h \in Handlers, CacheSaved(h) PROVE KeysInv'
  <2> DEFINE q == [stage |-> "jwks"]
  <2>1. HandlerOk(q)
    BY DEF HandlerOk
  <2>2. BundleOk(disk'.b) /\ DOMAIN disk' = {"b", "ttl"}
    <3>1. BundleOk(hup[h].b)
      BY <1>0, <1>7 DEF CacheSaved, SecretsOk, HandlerOk
    <3> QED BY <3>1, <1>0, <1>7 DEF CacheSaved, SecretsOk
  <2>3. hup' = [hup EXCEPT ![h] = q] /\ UNCHANGED <<provider, upstream, secrets, keyVars, tokens>>
    BY <1>7 DEF CacheSaved
  <2> HIDE DEF q
  <2> QED BY <2>1, <2>2, <2>3, <1>0, <1>a, <1>b DEF SecretsOk
<1>8. ASSUME NEW h \in Handlers, HupReload(h) PROVE KeysInv'
  <2>1. UNCHANGED <<provider, upstream, secrets, disk, tokens>>
    BY <1>8 DEF HupReload
  <2>2. HandlerOk(Resting) /\ HandlerOk([stage |-> "asked"])
    BY DEF HandlerOk, Resting
  <2>3. DOMAIN hup' = Handlers /\ \A g \in Handlers : HandlerOk(hup'[g])
    <3>1. CASE hup' = [hup EXCEPT ![h] = Resting]
      BY <3>1, <2>2, <1>b
    <3>2. CASE hup' = [hup EXCEPT ![h] = [stage |-> "asked"]]
      BY <3>2, <2>2, <1>b
    <3>3. hup' = [hup EXCEPT ![h] = Resting] \/ hup' = [hup EXCEPT ![h] = [stage |-> "asked"]]
      BY <1>8 DEF HupReload
    <3> QED BY <3>1, <3>2, <3>3
  <2>4. SecretsOk'
    BY <2>1, <2>3, <1>0 DEF SecretsOk
  <2>5. Reload \/ UNCHANGED keyVars
    BY <1>8 DEF HupReload
  <2> QED BY <2>1, <2>4, <2>5, <1>a, ReloadKeeps
<1>9. ASSUME ensureLoaded PROVE KeysInv'
  <2>1. SecretsOk'
    BY <1>9, <1>0 DEF ensureLoaded, SecretsOk
  <2> QED BY <2>1, <1>9, ReloadKeeps DEF ensureLoaded
<1>10. ASSUME generateToken PROVE KeysInv'
  <2> DEFINE new == IF signingKey # NoKey THEN [kid |-> signingKey, hs |-> NoKey, age |-> 0]
                    ELSE [kid |-> NoKey, hs |-> get("hs"), age |-> 0]
  <2>1. /\ DOMAIN new = {"kid", "hs", "age"} /\ new.age = 0
        /\ new.kid = signingKey \/ new.kid = NoKey
    OBVIOUS
  <2>2. KeyKept(new, activeKeys, retiredKeys)
    BY <2>1, <1>0 DEF KeyKept, PublishedOk
  <2>3. tokens' = tokens \cup {new} /\ UNCHANGED <<provider, upstream, secrets, disk, hup, keyVars>>
    BY <1>10 DEF generateToken
  <2> HIDE DEF new
  <2>4. SecretsOk' /\ PublishedOk'
    BY <2>3, <1>0 DEF keyVars, SecretsOk, PublishedOk
  <2>5. TokensOk'
    BY <2>1, <2>2, <2>3, <1>0, KeysAssumption DEF keyVars, TokensOk
  <2> QED BY <2>4, <2>5
<1>11. ASSUME Rotate PROVE KeysInv'
  BY <1>11, <1>0, <1>a DEF Rotate, SecretsOk
<1>12. ASSUME KrTick PROVE KeysInv'
  <2>1. /\ retiredKeys' = [k \in AllKeys |-> Less1(retiredKeys[k])]
        /\ UNCHANGED <<provider, upstream, secrets, hup, activeKeys, signingKey>>
        /\ tokens' = {[t EXCEPT !.age = @ + 1] : t \in {u \in tokens : u.age + 1 < KrTtl}}
        /\ disk' = IF disk.ttl < 0 THEN disk ELSE [disk EXCEPT !.ttl = @ - 1]
    BY <1>12 DEF KrTick
  <2>2. \A k \in AllKeys : retiredKeys[k] \in Nat /\ retiredKeys'[k] = Less1(retiredKeys[k]) /\ retiredKeys'[k] \in Nat
    BY <2>1, <1>0 DEF PublishedOk, Less1
  <2>3. PublishedOk'
    BY <2>1, <2>2, <1>0 DEF PublishedOk
  <2>4. BundleOk(disk'.b) /\ DOMAIN disk' = {"b", "ttl"}
    BY <2>1, <1>0 DEF SecretsOk
  <2>5. SecretsOk'
    BY <2>1, <2>4, <1>0 DEF SecretsOk
  <2>6. ASSUME NEW t \in tokens'
        PROVE  /\ DOMAIN t = {"kid", "hs", "age"} /\ t.age \in Nat /\ t.age < KrTtl
               /\ KeyKept(t, activeKeys', retiredKeys')
    <3>1. PICK u \in tokens : u.age + 1 < KrTtl /\ t = [u EXCEPT !.age = @ + 1]
      BY <2>1
    <3>2. DOMAIN u = {"kid", "hs", "age"} /\ u.age \in Nat /\ KeyKept(u, activeKeys, retiredKeys)
      BY <1>0 DEF TokensOk
    <3>3. DOMAIN t = {"kid", "hs", "age"} /\ t.age = u.age + 1 /\ t.kid = u.kid
      BY <3>1, <3>2
    <3>4. KeyKept(t, activeKeys', retiredKeys')
      BY <3>2, <3>3, <2>1, <2>2, KeysAssumption DEF KeyKept, Less1
    <3> QED BY <3>1, <3>2, <3>3, <3>4
  <2>7. TokensOk'
    BY <2>6 DEF TokensOk
  <2> QED BY <2>3, <2>5, <2>7
<1>13. ASSUME UNCHANGED krVars PROVE KeysInv'
  BY <1>13, <1>0, <1>a DEF krVars, keyVars, SecretsOk
<1> QED BY <1>1, <1>2, <1>4, <1>5, <1>6, <1>7, <1>8, <1>9, <1>10, <1>11, <1>12, <1>13 DEF KrNext

\* An unexpired token signed with a private key is accepted by verifyToken for the whole
\* grace window from its issue, for any keys, bundles and windows: through reloads that
\* overlap, keys that are retired and come back, and the failover of the secret loader.
THEOREM RotationLogsNobodyOut == KrSpec => []TokensSurviveRotation
<1>1. KeysInv => TokensSurviveRotation
  <2> SUFFICES ASSUME KeysInv, NEW t \in tokens, t.kid # NoKey, t.age < Grace
               PROVE  verifyToken(t)
    BY DEF TokensSurviveRotation
  <2>1. t.age \in Nat /\ t.age < KrTtl /\ t.kid \in AllKeys
        /\ (t.kid \in activeKeys \/ retiredKeys[t.kid] + t.age >= Grace)
    BY DEF KeysInv, TokensOk, KeyKept
  <2>2. retiredKeys[t.kid] \in Nat
    BY <2>1 DEF KeysInv, PublishedOk
  <2> QED BY <2>1, <2>2, KeysAssumption DEF verifyToken, getVerificationKey
<1> QED BY <1>1, KeysStart, KeysStep, PTL DEF KrSpec

-----------------------------------------------------------------------------
(* spiffe/svidProvider.ts: the renewal of the server's identity.           *)

RenewalInv ==
  /\ svid \in {"none", "valid", "lapsed", "expired"}
  /\ timer \in {"none", "refresh", "reconnect"}
  /\ fetch \in [Fetches -> {"idle", "start", "refresh", "reconnect"}]
  /\ lifecycle \in {"starting", "failed", "running", "stopped", "crashed"}
  /\ RenewalGoesOn

LEMMA RenewalStarts == SvidInit => RenewalInv
BY DEF SvidInit, RenewalInv, RenewalGoesOn

LEMMA RenewalStep == RenewalInv /\ [SvidNext]_svidVars => RenewalInv'
<1> SUFFICES ASSUME RenewalInv, [SvidNext]_svidVars PROVE RenewalInv'
  OBVIOUS
<1> USE DEF RenewalInv, RenewalGoesOn
<1>1. ASSUME NEW f \in Fetches, NEW r \in Responses, StartAnswered(f, r) PROVE RenewalInv'
  BY <1>1 DEF StartAnswered, Done, applyMaterial, Rewatch, Responses
<1>2. ASSUME NEW f \in Fetches, NEW r \in Responses, RefreshAnswered(f, r) PROVE RenewalInv'
  BY <1>2 DEF RefreshAnswered, Done, applyMaterial, handleWatchError, Stopped, Responses
<1>3. ASSUME NEW f \in Fetches, NEW r \in Responses, ReconnectAnswered(f, r) PROVE RenewalInv'
  BY <1>3 DEF ReconnectAnswered, Done, applyMaterial, handleWatchError, Rewatch, Stopped, Responses
<1>4. ASSUME NEW f \in Fetches, FetchFails(f) PROVE RenewalInv'
  BY <1>4 DEF FetchFails, Done, handleWatchError, Stopped
<1>5. ASSUME NEW f \in Fetches, TimerFires(f) PROVE RenewalInv'
  BY <1>5 DEF TimerFires, Stopped
<1>6. ASSUME NEW r \in Responses, WatchData(r) PROVE RenewalInv'
  BY <1>6 DEF WatchData, applyMaterial, handleWatchError, Stopped, Responses
<1>7. ASSUME WatchBreaks PROVE RenewalInv'
  BY <1>7 DEF WatchBreaks, handleWatchError, Stopped
<1>8. ASSUME StopSvid PROVE RenewalInv'
  BY <1>8 DEF StopSvid
<1>9. ASSUME SvidExpires PROVE RenewalInv'
  BY <1>9 DEF SvidExpires
<1>10. ASSUME UNCHANGED svidVars PROVE RenewalInv'
  BY <1>10 DEF svidVars
<1>11. ASSUME AbandonedFails PROVE RenewalInv'
  BY <1>11 DEF AbandonedFails
<1> QED BY <1>1, <1>2, <1>3, <1>4, <1>5, <1>6, <1>7, <1>8, <1>9, <1>10, <1>11 DEF SvidNext

\* However errors of the stream, failing fetches and late answers meet on the one timer of
\* SvidProvider, and for any number of fetches on their way, the renewal of the identity
\* goes on while the provider runs.
THEOREM RenewalNeverStops == SvidSpec => []RenewalGoesOn
<1>1. RenewalInv => RenewalGoesOn
  BY DEF RenewalInv
<1> QED BY <1>1, RenewalStarts, RenewalStep, PTL DEF SvidSpec

-----------------------------------------------------------------------------
(* middleware/mtlsRevocation.ts: the evidence behind an answer.            *)

Evidence == [left : Int, next : Int, age : Nat]

\* The later of the two nextUpdates.
Later(ev) == Most(ev.left, ev.next)

\* What passed, passed on fresh evidence.
FreshEnough(ev) == ev.age < OcspTtl + CheckMax /\ ev.left + ev.age > 0 /\ Later(ev) > Past

\* A check that runs read its evidence since it started, and a good status from a list that
\* had not expired.
CheckOk(c) ==
  \/ c = NoCheck
  \/ /\ DOMAIN c = {"pc", "key", "says", "ev", "read", "run"}
     /\ c.key \in CacheKeys
     /\ c.ev \in Evidence
     /\ c.run \in Nat /\ c.run =< CheckMax
     /\ c.ev.age =< c.run
     /\ "status" \in c.read /\ c.says = "good" => c.ev.left + c.ev.age > 0

\* What is left of the life of a good entry keeps its evidence fresh to the end.
EntryOk(e) ==
  /\ DOMAIN e = {"status", "ttl", "ev"}
  /\ e.ttl \in Int
  /\ e.ev \in Evidence
  /\ e.status = "good" /\ e.ttl > 0 =>
       /\ e.ev.age + e.ttl =< OcspTtl + CheckMax
       /\ e.ev.left + e.ev.age > 0
       /\ e.ttl - Later(e.ev) < Floor + CheckMax

AnswerOk(a) == a.code \in {"passed_503", "cn_403"} => FreshEnough(a.ev)

SourceOk(s) == DOMAIN s = {"says", "left"} /\ s.left \in Int

RevocationInv ==
  /\ DOMAIN staple = Staples /\ \A s \in Staples : SourceOk(staple[s])
  /\ SourceOk(crl)
  /\ DOMAIN cache = CacheKeys /\ \A k \in CacheKeys : EntryOk(cache[k])
  /\ DOMAIN check = Checks /\ \A k \in Checks : CheckOk(check[k])
  /\ AnswerOk(answer)

LEMMA NoEvidenceOk == NoEvidence \in Evidence /\ EntryOk(Uncached) /\ AnswerOk(NoAnswer) /\ CheckOk(NoCheck)
BY DEF NoEvidence, Evidence, EntryOk, Uncached, AnswerOk, NoAnswer, CheckOk

LEMMA RevocationStarts == RevInit => RevocationInv
<1> SUFFICES ASSUME RevInit PROVE RevocationInv
  OBVIOUS
<1>1. DOMAIN staple = Staples /\ \A s \in Staples : SourceOk(staple[s])
  BY DEF RevInit, SourceOk, NotIssued
<1>2. SourceOk(crl)
  BY TtlAssumption DEF RevInit, SourceOk
<1>3. DOMAIN cache = CacheKeys /\ \A k \in CacheKeys : EntryOk(cache[k])
  BY NoEvidenceOk DEF RevInit
<1>4. DOMAIN check = Checks /\ (\A k \in Checks : CheckOk(check[k])) /\ AnswerOk(answer)
  BY NoEvidenceOk DEF RevInit
<1> QED BY <1>1, <1>2, <1>3, <1>4 DEF RevocationInv

LEMMA PastValue == Past = 0 - (Floor + CheckMax) /\ Past \in Int /\ Floor \in Nat /\ CheckMax \in Nat
                   /\ OcspTtl \in Nat /\ Floor > 0 /\ OcspTtl >= Floor
BY TtlAssumption DEF Past

LEMMA LaterValue ==
  ASSUME NEW ev \in Evidence
  PROVE  /\ ev.left \in Int /\ ev.next \in Int /\ ev.age \in Nat /\ Later(ev) \in Int
         /\ Later(ev) >= ev.left /\ Later(ev) >= ev.next
BY DEF Evidence, Later, Most

LEMMA OlderValue ==
  ASSUME NEW ev \in Evidence
  PROVE  /\ Older(ev) \in Evidence /\ Older(ev).age = ev.age + 1 /\ Older(ev).left = ev.left - 1
         /\ Later(Older(ev)) = Later(ev) - 1
BY DEF Evidence, Older, Later, Most

\* A decision answers with its evidence; it lets pass only what is good.
LEMMA Decided ==
  ASSUME RevocationInv, NEW k \in Checks, NEW status, NEW ev,
         status = "good" => FreshEnough(ev), Decide(k, status, ev)
  PROVE  DOMAIN check' = Checks /\ (\A c \in Checks : CheckOk(check'[c])) /\ AnswerOk(answer')
<1>1. check' = [check EXCEPT ![k] = NoCheck]
  BY DEF Decide
<1>2. DOMAIN check' = Checks /\ \A c \in Checks : CheckOk(check'[c])
  BY <1>1, NoEvidenceOk DEF RevocationInv
<1> DEFINE code == IF status = "good" THEN (IF Allowed THEN "passed_503" ELSE "cn_403")
                   ELSE IF status = "revoked" THEN "revoked_403" ELSE "unknown_403"
<1>3. code \in {"passed_503", "cn_403"} => status = "good"
  OBVIOUS
<1>4. answer' = [code |-> code, ev |-> Behind(status, ev)]
  BY DEF Decide
<1> HIDE DEF code
<1>5. AnswerOk(answer')
  BY <1>3, <1>4 DEF AnswerOk, Behind
<1> QED BY <1>2, <1>5

LEMMA Ran ==
  ASSUME RevocationInv, NEW k \in Checks, NEW key \in CacheKeys, NEW says, NEW valid \in Int,
         Run(k, key, says, valid)
  PROVE  DOMAIN check' = Checks /\ (\A c \in Checks : CheckOk(check'[c]))
<1> DEFINE ev == [left |-> valid, next |-> valid, age |-> 0]
           new == [pc |-> "run", key |-> key, says |-> says, ev |-> ev, read |-> {}, run |-> 0]
<1>1. ev \in Evidence /\ ev.age = 0
  BY DEF Evidence
<1> HIDE DEF ev
<1>2. CheckOk(new)
  BY <1>1, TtlAssumption DEF CheckOk
<1>3. check' = [check EXCEPT ![k] = new]
  BY DEF Run, ev
<1> HIDE DEF new
<1> QED BY <1>2, <1>3 DEF RevocationInv

\* A cached answer that is not past its time is fresh enough.
LEMMA CachedFresh ==
  ASSUME RevocationInv, NEW key \in CacheKeys, getCached(key) # Uncached,
         getCached(key).status = "good"
  PROVE  FreshEnough(getCached(key).ev)
<1> DEFINE e == cache[key]
<1>1. EntryOk(e) /\ e.ttl > 0 /\ getCached(key) = e
  BY DEF RevocationInv, getCached
<1>2. /\ e.ttl \in Int /\ e.ev \in Evidence /\ e.ev.left + e.ev.age > 0
      /\ e.ev.age + e.ttl =< OcspTtl + CheckMax /\ e.ttl - Later(e.ev) < Floor + CheckMax
  BY <1>1 DEF EntryOk
<1>3. e.ev.age \in Nat /\ Later(e.ev) \in Int
  BY <1>2, LaterValue
<1> HIDE DEF e
<1> QED BY <1>1, <1>2, <1>3, PastValue DEF FreshEnough

LEMMA CrlTried ==
  ASSUME RevocationInv, NEW k \in Checks, NEW otherwise, otherwise # "good", TryCrl(k, otherwise)
  PROVE  DOMAIN check' = Checks /\ (\A c \in Checks : CheckOk(check'[c])) /\ AnswerOk(answer')
<1>0. Crl \in CacheKeys /\ SourceOk(crl) /\ AnswerOk(answer)
  BY DEF CacheKeys, RevocationInv
<1>1. CASE ~HasCrl
  BY <1>1, Decided DEF TryCrl
<1>2. CASE HasCrl /\ getCached(Crl) # Uncached
  <2>1. Decide(k, getCached(Crl).status, getCached(Crl).ev)
    BY <1>2 DEF TryCrl
  <2> QED BY <1>0, <1>2, <2>1, CachedFresh, Decided
<1>3. CASE HasCrl /\ getCached(Crl) = Uncached
  <2>1. Run(k, Crl, "none", 0) /\ answer' = answer
    BY <1>3 DEF TryCrl
  <2> QED BY <1>0, <2>1, Ran
<1> QED BY <1>1, <1>2, <1>3

\* The life computeOcspCacheTtlMs gives an entry: it ends with the configured life, and
\* before the evidence is past the later nextUpdate by more than the floor.
LEMMA LifeBounded ==
  ASSUME NEW rest \in Int, NEW later \in Int, later > 0 - CheckMax, rest =< later
  PROVE  /\ computeOcspCacheTtlMs(rest) \in Int
         /\ computeOcspCacheTtlMs(rest) =< OcspTtl
         /\ computeOcspCacheTtlMs(rest) - later < Floor + CheckMax
BY PastValue DEF computeOcspCacheTtlMs, Most, Least

\* An entry made of a check that has just ended.
LEMMA Cached ==
  ASSUME RevocationInv, NEW key \in CacheKeys, NEW status, NEW ttl \in Int, NEW ev \in Evidence,
         ev.age =< CheckMax,
         status = "good" => /\ ttl =< OcspTtl /\ ev.left + ev.age > 0
                            /\ ttl - Later(ev) < Floor + CheckMax,
         setCached(key, status, ttl, ev)
  PROVE  DOMAIN cache' = CacheKeys /\ \A k \in CacheKeys : EntryOk(cache'[k])
<1> DEFINE new == [status |-> status, ttl |-> ttl, ev |-> Behind(status, ev)]
<1>1. ev.age \in Nat /\ ev.left \in Int
  BY DEF Evidence
<1>2. EntryOk(new)
  BY <1>1, PastValue, NoEvidenceOk DEF EntryOk, Behind
<1>3. cache' = [cache EXCEPT ![key] = new]
  BY DEF setCached
<1> HIDE DEF new
<1> QED BY <1>2, <1>3 DEF RevocationInv

\* A process that has read the list leaves its check in order.
LEMMA ReadKeeps ==
  ASSUME RevocationInv, NEW k \in Checks, check[k].pc = "run", UNCHANGED <<staple, crl, cache, answer>>,
         NEW says, NEW ev \in Evidence, NEW read,
         check' = [check EXCEPT ![k] = [check[k] EXCEPT !.says = says, !.ev = ev, !.read = read]],
         ev.age =< check[k].run, "status" \in read /\ says = "good" => ev.left + ev.age > 0
  PROVE  RevocationInv'
<1> DEFINE c == check[k]
           new == [c EXCEPT !.says = says, !.ev = ev, !.read = read]
<1>1. CheckOk(c) /\ c # NoCheck
  BY DEF RevocationInv, NoCheck
<1>2. /\ DOMAIN c = {"pc", "key", "says", "ev", "read", "run"} /\ c.key \in CacheKeys
      /\ c.run \in Nat /\ c.run =< CheckMax
  BY <1>1 DEF CheckOk
<1>3. CheckOk(new)
  BY <1>2 DEF CheckOk
<1> HIDE DEF new
<1>4. check' = [check EXCEPT ![k] = new]
  BY DEF new
<1>5. DOMAIN check' = Checks /\ \A q \in Checks : CheckOk(check'[q])
  BY <1>3, <1>4 DEF RevocationInv
<1> QED BY <1>5 DEF RevocationInv

LEMMA RevocationStep == RevocationInv /\ [RevNext]_revVars => RevocationInv'
<1> SUFFICES ASSUME RevocationInv, [RevNext]_revVars PROVE RevocationInv'
  OBVIOUS
<1>1. ASSUME NEW k \in Checks, NEW s \in Staples \cup {NoStaple}, BeginCheck(k, s) PROVE RevocationInv'
  <2>1. UNCHANGED <<certRevoked, staple, crl, cache>>
    BY <1>1 DEF BeginCheck
  <2>2. DOMAIN check' = Checks /\ (\A c \in Checks : CheckOk(check'[c])) /\ AnswerOk(answer')
    <3>0. CASE ~section
      BY <1>1, <3>0 DEF BeginCheck, RevocationInv, AnswerOk
    <3>1. CASE section /\ s = NoStaple
      BY <1>1, <3>1, CrlTried DEF BeginCheck
    <3>2. CASE section /\ s # NoStaple /\ getCached(s) # Uncached
      <4>1. Decide(k, getCached(s).status, getCached(s).ev) /\ s \in CacheKeys
        BY <1>1, <3>2 DEF BeginCheck, CacheKeys
      <4> QED BY <3>2, <4>1, CachedFresh, Decided
    <3>3. CASE section /\ s # NoStaple /\ getCached(s) = Uncached
      <4>1. /\ Run(k, s, staple[s].says, staple[s].left) /\ answer' = answer
            /\ s \in CacheKeys /\ staple[s].left \in Int
        BY <1>1, <3>3 DEF BeginCheck, CacheKeys, RevocationInv, SourceOk
      <4> QED BY <4>1, Ran DEF RevocationInv
    <3> QED BY <3>0, <3>1, <3>2, <3>3
  <2> QED BY <2>1, <2>2 DEF RevocationInv
<1>2. ASSUME NEW k \in Checks, NEW s \in Staples, OcspDone(k, s) PROVE RevocationInv'
  <2> DEFINE c == check[k]
             ttl == computeOcspCacheTtlMs(c.ev.next)
  <2>1. UNCHANGED <<certRevoked, staple, crl>> /\ c.pc = "run" /\ s \in CacheKeys
    BY <1>2 DEF OcspDone, Running, CacheKeys
  <2>2. CheckOk(c) /\ c # NoCheck
    BY <2>1 DEF RevocationInv, NoCheck
  <2>3. PICK status \in {OcspStatus(c), "ocsp_unavailable"} :
          IF status \in {"good", "revoked"}
          THEN /\ setCached(s, status, ttl, c.ev)
               /\ Decide(k, status, c.ev)
          ELSE /\ TryCrl(k, status)
               /\ UNCHANGED cache
    BY <1>2 DEF OcspDone
  <2> DEFINE ev == c.ev
  <2>4. ev \in Evidence /\ ev.age =< CheckMax /\ ttl = computeOcspCacheTtlMs(ev.next)
    BY <2>2, PastValue DEF CheckOk, Evidence
  <2>5. status = "good" => ev.left > 0
    BY <2>3, <2>4, LaterValue DEF OcspStatus
  <2> HIDE DEF c, ev, ttl
  <2>6. ev = c.ev
    BY DEF ev
  <2>7. CASE status \in {"good", "revoked"}
    <3>1. setCached(s, status, ttl, ev) /\ Decide(k, status, ev)
      BY <2>3, <2>6, <2>7
    <3>2. ttl \in Int
      BY <2>4, LaterValue, PastValue DEF computeOcspCacheTtlMs, Most, Least
    <3>3. ASSUME status = "good"
          PROVE  FreshEnough(ev) /\ ttl =< OcspTtl /\ ev.left + ev.age > 0 /\ ttl - Later(ev) < Floor + CheckMax
      <4>1. /\ ev.left \in Int /\ ev.next \in Int /\ ev.age \in Nat /\ Later(ev) \in Int
            /\ Later(ev) >= ev.left /\ Later(ev) >= ev.next /\ ev.left > 0
        BY <2>4, <2>5, <3>3, LaterValue
      <4>2. Later(ev) > 0 - CheckMax /\ ev.left + ev.age > 0
        BY <4>1, PastValue
      <4>3. ttl =< OcspTtl /\ ttl - Later(ev) < Floor + CheckMax
        BY <2>4, <4>1, <4>2, LifeBounded
      <4>4. FreshEnough(ev)
        BY <2>4, <4>1, <4>2, PastValue DEF FreshEnough
      <4> QED BY <4>2, <4>3, <4>4
    <3>4. DOMAIN cache' = CacheKeys /\ \A q \in CacheKeys : EntryOk(cache'[q])
      BY <2>1, <2>4, <3>1, <3>2, <3>3, Cached
    <3>5. DOMAIN check' = Checks /\ (\A q \in Checks : CheckOk(check'[q])) /\ AnswerOk(answer')
      BY <3>1, <3>3, Decided
    <3> QED BY <2>1, <3>4, <3>5 DEF RevocationInv
  <2>8. CASE status \notin {"good", "revoked"}
    <3>1. TryCrl(k, status) /\ cache' = cache
      BY <2>3, <2>8
    <3>2. DOMAIN check' = Checks /\ (\A q \in Checks : CheckOk(check'[q])) /\ AnswerOk(answer')
      BY <2>8, <3>1, CrlTried
    <3> QED BY <2>1, <3>1, <3>2 DEF RevocationInv
  <2> QED BY <2>7, <2>8
<1>3. ASSUME NEW k \in Checks, CrlDone(k) PROVE RevocationInv'
  <2> DEFINE c == check[k]
  <2>1. UNCHANGED <<certRevoked, staple, crl>> /\ c.pc = "run" /\ Crl \in CacheKeys
    BY <1>3 DEF CrlDone, Running, CacheKeys
  <2>2. CheckOk(c) /\ c # NoCheck
    BY <2>1 DEF RevocationInv, NoCheck
  <2>3. PICK status \in {CrlStatus(c), "crl_unavailable"} :
          /\ setCached(Crl, status,
                       IF status = "good" THEN computeOcspCacheTtlMs(c.ev.next) ELSE OcspTtl, c.ev)
          /\ Decide(k, status, c.ev)
    BY <1>3 DEF CrlDone
  <2> DEFINE ev == c.ev
             ttl == IF status = "good" THEN computeOcspCacheTtlMs(ev.next) ELSE OcspTtl
  <2>4. ev \in Evidence /\ ev.age =< CheckMax
    BY <2>2, PastValue DEF CheckOk, Evidence
  <2>5. status = "good" => ev.left + ev.age > 0
    BY <2>2, <2>3 DEF CrlStatus, CrlReads, CheckOk
  <2> HIDE DEF c
  <2>6. setCached(Crl, status, ttl, ev) /\ Decide(k, status, ev)
    BY <2>3
  <2> HIDE DEF ev
  <2>7. /\ ev.left \in Int /\ ev.next \in Int /\ ev.age \in Nat /\ Later(ev) \in Int
        /\ Later(ev) >= ev.left /\ Later(ev) >= ev.next
    BY <2>4, LaterValue
  <2>8. status = "good" => Later(ev) > 0 - CheckMax
    BY <2>4, <2>5, <2>7, PastValue
  <2>9. ttl \in Int /\ (status = "good" => ttl =< OcspTtl /\ ttl - Later(ev) < Floor + CheckMax)
    BY <2>7, <2>8, LifeBounded, PastValue
  <2>10. status = "good" => FreshEnough(ev)
    BY <2>4, <2>5, <2>7, <2>8, PastValue DEF FreshEnough
  <2> HIDE DEF ttl
  <2>11. DOMAIN cache' = CacheKeys /\ \A q \in CacheKeys : EntryOk(cache'[q])
    BY <2>1, <2>4, <2>5, <2>6, <2>9, Cached
  <2>12. DOMAIN check' = Checks /\ (\A q \in Checks : CheckOk(check'[q])) /\ AnswerOk(answer')
    BY <2>6, <2>10, Decided
  <2> QED BY <2>1, <2>11, <2>12 DEF RevocationInv
<1>8. ASSUME NEW k \in Checks, ReadCrlStatus(k) PROVE RevocationInv'
  <2> DEFINE c == check[k]
             says == IF crl.left > 0 THEN crl.says ELSE "expired"
             ev == [left |-> crl.left, next |-> c.ev.next, age |-> 0]
             read == c.read \cup {"status"}
  <2>1. UNCHANGED <<staple, crl, cache, answer>> /\ c.pc = "run"
    BY <1>8 DEF ReadCrlStatus, Running
  <2>2. check' = [check EXCEPT ![k] = [c EXCEPT !.says = says, !.ev = ev, !.read = read]]
    BY <1>8 DEF ReadCrlStatus
  <2>3. CheckOk(c) /\ c # NoCheck /\ crl.left \in Int
    BY <2>1 DEF RevocationInv, NoCheck, SourceOk
  <2>4. c.ev.next \in Int /\ c.run \in Nat
    BY <2>3, LaterValue DEF CheckOk
  <2>5. ev \in Evidence /\ ev.age =< c.run /\ (says = "good" => ev.left + ev.age > 0)
    BY <2>3, <2>4 DEF Evidence
  <2> HIDE DEF says, ev, read
  <2> QED BY <2>1, <2>2, <2>5, ReadKeeps
<1>9. ASSUME NEW k \in Checks, ReadNextUpdate(k) PROVE RevocationInv'
  <2> DEFINE c == check[k]
             says == c.says
             ev == [left |-> c.ev.left, next |-> crl.left, age |-> c.ev.age]
             read == c.read \cup {"nextUpdate"}
  <2>1. UNCHANGED <<staple, crl, cache, answer>> /\ c.pc = "run"
    BY <1>9 DEF ReadNextUpdate, Running
  <2>3. CheckOk(c) /\ c # NoCheck /\ crl.left \in Int
    BY <2>1 DEF RevocationInv, NoCheck, SourceOk
  <2>2. check' = [check EXCEPT ![k] = [c EXCEPT !.says = says, !.ev = ev, !.read = read]]
    <3>1. check' = [check EXCEPT ![k] = [c EXCEPT !.ev = ev, !.read = read]]
      BY <1>9 DEF ReadNextUpdate
    <3>2. [c EXCEPT !.says = says, !.ev = ev, !.read = read] = [c EXCEPT !.ev = ev, !.read = read]
      BY <2>3 DEF CheckOk
    <3> QED BY <3>1, <3>2
  <2>4. c.ev.left \in Int /\ c.ev.age \in Nat /\ c.run \in Nat /\ c.ev.age =< c.run
        /\ ("status" \in c.read /\ c.says = "good" => c.ev.left + c.ev.age > 0)
    BY <2>3, LaterValue DEF CheckOk
  <2>5. ev \in Evidence /\ ev.age =< c.run /\ ("status" \in read /\ says = "good" => ev.left + ev.age > 0)
    BY <2>3, <2>4 DEF Evidence
  <2> HIDE DEF says, ev, read
  <2> QED BY <2>1, <2>2, <2>5, ReadKeeps
<1>4. ASSUME NEW s \in Staples, IssueStaple(s) PROVE RevocationInv'
  <2>1. PICK says : staple' = [staple EXCEPT ![s] = [says |-> says, left |-> StapleLife]]
    BY <1>4 DEF IssueStaple
  <2> DEFINE new == [says |-> says, left |-> StapleLife]
  <2>2. SourceOk(new)
    BY TtlAssumption DEF SourceOk
  <2>3. UNCHANGED <<certRevoked, crl, cache, check, answer>>
    BY <1>4 DEF IssueStaple
  <2>4. staple' = [staple EXCEPT ![s] = new]
    BY <2>1
  <2> HIDE DEF new
  <2> QED BY <2>2, <2>3, <2>4 DEF RevocationInv
<1>5. ASSUME Revoke \/ UNCHANGED revVars PROVE RevocationInv'
  BY <1>5 DEF Revoke, revVars, RevocationInv
<1>6. ASSUME PublishCrl PROVE RevocationInv'
  <2>1. SourceOk(crl') /\ UNCHANGED <<certRevoked, staple, cache, check, answer>>
    BY <1>6, TtlAssumption DEF PublishCrl, SourceOk
  <2> QED BY <2>1 DEF RevocationInv
<1>7. ASSUME RevTick PROVE RevocationInv'
  <2>1. DOMAIN staple' = Staples /\ \A s \in Staples : SourceOk(staple'[s])
    <3> SUFFICES ASSUME NEW s \in Staples PROVE SourceOk(staple'[s])
      BY <1>7 DEF RevTick
    <3> DEFINE rest == IF staple[s] = NotIssued THEN 0 ELSE Most(Past, staple[s].left - 1)
    <3>1. SourceOk(staple[s])
      BY DEF RevocationInv
    <3>2. rest \in Int
      BY <3>1, PastValue DEF SourceOk, Most
    <3>3. staple'[s] = [staple[s] EXCEPT !.left = rest]
      BY <1>7 DEF RevTick
    <3> HIDE DEF rest
    <3> QED BY <3>1, <3>2, <3>3 DEF SourceOk
  <2>2. SourceOk(crl')
    <3> DEFINE rest == Most(Past, crl.left - 1)
    <3>1. SourceOk(crl)
      BY DEF RevocationInv
    <3>2. rest \in Int
      BY <3>1, PastValue DEF SourceOk, Most
    <3>3. crl' = [crl EXCEPT !.left = rest]
      BY <1>7 DEF RevTick
    <3> HIDE DEF rest
    <3> QED BY <3>1, <3>2, <3>3 DEF SourceOk
  <2>3. DOMAIN cache' = CacheKeys /\ \A k \in CacheKeys : EntryOk(cache'[k])
    <3> SUFFICES ASSUME NEW k \in CacheKeys PROVE EntryOk(cache'[k])
      BY <1>7 DEF RevTick
    <3>1. EntryOk(cache[k])
      BY DEF RevocationInv
    <3>2. CASE cache[k].ttl =< 1
      BY <1>7, <3>2, NoEvidenceOk DEF RevTick
    <3>3. CASE ~(cache[k].ttl =< 1)
      <4> DEFINE e == cache[k]
                 ttl == e.ttl - 1
                 ev == Older(e.ev)
      <4>1. cache'[k] = [e EXCEPT !.ttl = ttl, !.ev = ev]
        BY <1>7, <3>3 DEF RevTick
      <4>2. /\ ttl \in Int /\ ttl = e.ttl - 1 /\ e.ttl > 1 /\ e.ttl \in Int
            /\ ev \in Evidence /\ ev.age = e.ev.age + 1 /\ ev.left = e.ev.left - 1
            /\ Later(ev) = Later(e.ev) - 1
            /\ e.ev.age \in Nat /\ e.ev.left \in Int /\ Later(e.ev) \in Int
        BY <3>1, <3>3, OlderValue, LaterValue DEF EntryOk
      <4> HIDE DEF ttl, ev
      <4>3. /\ DOMAIN cache'[k] = {"status", "ttl", "ev"} /\ cache'[k].status = e.status
            /\ cache'[k].ttl = ttl /\ cache'[k].ev = ev
        BY <4>1, <3>1 DEF EntryOk
      <4>4. e.status = "good" => /\ ev.age + ttl =< OcspTtl + CheckMax /\ ev.left + ev.age > 0
                                 /\ ttl - Later(ev) < Floor + CheckMax
        BY <4>2, <3>1, PastValue DEF EntryOk
      <4> QED BY <4>2, <4>3, <4>4 DEF EntryOk
    <3> QED BY <3>2, <3>3
  <2>4. DOMAIN check' = Checks /\ \A k \in Checks : CheckOk(check'[k])
    <3> SUFFICES ASSUME NEW k \in Checks PROVE CheckOk(check'[k])
      BY <1>7 DEF RevTick
    <3>1. CheckOk(check[k])
      BY DEF RevocationInv
    <3>2. CASE check[k] = NoCheck
      BY <1>7, <3>2, NoEvidenceOk DEF RevTick
    <3>3. CASE check[k] # NoCheck
      <4> DEFINE c == check[k]
                 run == c.run + 1
                 ev == Older(c.ev)
      <4>1. check'[k] = [c EXCEPT !.run = run, !.ev = ev]
        BY <1>7, <3>3 DEF RevTick
      <4>2. c.run < CheckMax
        BY <1>7 DEF RevTick
      <4>3. /\ DOMAIN c = {"pc", "key", "says", "ev", "read", "run"} /\ c.key \in CacheKeys
            /\ c.ev \in Evidence /\ c.run \in Nat /\ c.ev.age =< c.run
            /\ "status" \in c.read /\ c.says = "good" => c.ev.left + c.ev.age > 0
        BY <3>1, <3>3 DEF CheckOk
      <4>4. /\ run \in Nat /\ run =< CheckMax /\ ev \in Evidence /\ ev.age =< run
            /\ "status" \in c.read /\ c.says = "good" => ev.left + ev.age > 0
        BY <4>2, <4>3, OlderValue, LaterValue, PastValue
      <4> HIDE DEF run, ev
      <4>5. /\ DOMAIN check'[k] = {"pc", "key", "says", "ev", "read", "run"} /\ check'[k].key = c.key
            /\ check'[k].run = run /\ check'[k].ev = ev
            /\ check'[k].read = c.read /\ check'[k].says = c.says
        BY <4>1, <4>3
      <4> QED BY <4>3, <4>4, <4>5 DEF CheckOk
    <3> QED BY <3>2, <3>3
  <2>5. AnswerOk(answer')
    BY <1>7, NoEvidenceOk DEF RevTick
  <2> QED BY <2>1, <2>2, <2>3, <2>4, <2>5 DEF RevocationInv
<1> QED BY <1>1, <1>2, <1>3, <1>4, <1>5, <1>6, <1>7, <1>8, <1>9 DEF RevNext

\* The status on which MtlsRevocationChecker lets a certificate pass was read at most the
\* configured cache life before, from a staple or list that was valid then, and this one or
\* the list that replaced it between the two reads of verifyViaCrl had expired by at most
\* the floor of an entry's life, the run time of openssl added to both: for any number of
\* staples and overlapping checks and any lifetimes.
THEOREM EvidenceIsFresh == RevSpec => []PassedOnFreshEvidence
<1>1. RevocationInv => PassedOnFreshEvidence
  BY DEF RevocationInv, AnswerOk, FreshEnough, Later, PassedOnFreshEvidence
<1> QED BY <1>1, RevocationStarts, RevocationStep, PTL DEF RevSpec

-----------------------------------------------------------------------------
(* routes/admin.ts: the administration of accounts.                        *)

Users == [role : StoredRoles, email : Addresses]
PromotionRequests ==
  [target : UserIds, role : Roles, by : UserIds, status : {"pending", "expired", "approved"}, ttl : Int]

\* Types, and the index: its entries point to accounts with the email.
AdminInv ==
  /\ accounts \in [UserIds -> Users \cup {NoUser}]
  /\ emailIndex \in [Addresses -> UserIds \cup {NoId}]
  /\ rolePromotionRequests \in Seq(PromotionRequests)
  /\ IndexSound

LEMMA AdminStarts == ArInit => AdminInv
<1> SUFFICES ASSUME ArInit PROVE AdminInv
  OBVIOUS
<1>1. accounts \in [UserIds -> Users \cup {NoUser}] /\ \A u \in UserIds : accounts[u].email = AddressOf[u]
  BY AccountsAssumption DEF ArInit, Users, Roles, StoredRoles
<1>2. \A u \in UserIds : accounts[u] # NoUser
  <2>1. \A u \in UserIds : accounts[u] \in Users
    BY AccountsAssumption DEF ArInit, Users, Roles, StoredRoles
  <2> QED BY <2>1, AccountsAssumption DEF Users
<1>3. \A a \in Addresses : emailIndex[a] # NoId => emailIndex[a] \in UserIds /\ AddressOf[emailIndex[a]] = a
  BY DEF ArInit
<1>4. emailIndex \in [Addresses -> UserIds \cup {NoId}]
  BY <1>3 DEF ArInit
<1>5. IndexSound
  BY <1>1, <1>2, <1>3 DEF IndexSound
<1>6. rolePromotionRequests \in Seq(PromotionRequests)
  BY DEF ArInit
<1> QED BY <1>1, <1>4, <1>5, <1>6 DEF AdminInv

\* Setting an account, with the index entry of the email it gives up cleared and that of
\* its email set, keeps every entry right.
LEMMA AccountSet ==
  ASSUME AdminInv, NEW u \in UserIds, accounts[u] # NoUser, NEW rec \in Users, updateUser(u, rec)
  PROVE  /\ accounts' \in [UserIds -> Users \cup {NoUser}]
         /\ emailIndex' \in [Addresses -> UserIds \cup {NoId}]
         /\ IndexSound'
<1> DEFINE old == accounts[u].email
           new == rec.email
<1>1. accounts[u] \in Users /\ old \in Addresses /\ new \in Addresses
  BY DEF AdminInv, Users
<1>2. /\ accounts' = [accounts EXCEPT ![u] = rec]
      /\ emailIndex' = [(IF old = new THEN emailIndex ELSE [emailIndex EXCEPT ![old] = NoId])
                          EXCEPT ![new] = u]
  BY DEF updateUser
<1> HIDE DEF old, new
<1>3. /\ accounts' \in [UserIds -> Users \cup {NoUser}]
      /\ accounts'[u] = rec /\ \A v \in UserIds : v # u => accounts'[v] = accounts[v]
  BY <1>2 DEF AdminInv
<1>4. /\ emailIndex' \in [Addresses -> UserIds \cup {NoId}]
      /\ emailIndex'[new] = u
      /\ \A a \in Addresses : a # new => emailIndex'[a] = IF a = old THEN NoId ELSE emailIndex[a]
  BY <1>1, <1>2 DEF AdminInv
<1>5. rec # NoUser /\ rec.email = new
  BY AccountsAssumption DEF Users, new
<1>6. IndexSound'
  <2> SUFFICES ASSUME NEW a \in Addresses, emailIndex'[a] # NoId
               PROVE  accounts'[emailIndex'[a]] # NoUser /\ accounts'[emailIndex'[a]].email = a
    BY DEF IndexSound
  <2>1. CASE a = new
    BY <2>1, <1>3, <1>4, <1>5
  <2>2. CASE a # new
    <3>1. a # old /\ emailIndex'[a] = emailIndex[a] /\ emailIndex[a] \in UserIds
      BY <2>2, <1>4 DEF AdminInv
    <3>2. accounts[emailIndex[a]] # NoUser /\ accounts[emailIndex[a]].email = a
      BY <3>1 DEF AdminInv, IndexSound
    <3>3. emailIndex[a] # u
      BY <3>1, <3>2 DEF old
    <3> QED BY <3>1, <3>2, <3>3, <1>3
  <2> QED BY <2>1, <2>2
<1> QED BY <1>3, <1>4, <1>6

\* What a step may do to an account without breaking the promise of the audit log.
Audited ==
  \A u \in UserIds :
    (accounts[u] # NoUser /\ (accounts'[u] = NoUser \/ accounts'[u].role # accounts[u].role))
    => /\ trail'.target = u /\ trail'.outcome = "success"
       /\ accounts'[u] = NoUser => trail'.action = "DELETE_USER"

\* An account is set and an entry about it written.
LEMMA SetAudited ==
  ASSUME AdminInv, NEW u \in UserIds, NEW rec \in Users, NEW action,
         accounts' = [accounts EXCEPT ![u] = rec], Audit(action, u, "success")
  PROVE  Audited
<1>1. rec # NoUser
  BY AccountsAssumption DEF Users
<1>2. accounts'[u] = rec /\ \A v \in UserIds : v # u => accounts'[v] = accounts[v]
  BY DEF AdminInv
<1>3. trail'.target = u /\ trail'.outcome = "success"
  BY DEF Audit
<1> QED BY <1>1, <1>2, <1>3 DEF Audited

LEMMA AdminStep == AdminInv /\ [ArNext]_arVars => AdminInv' /\ (Audited \/ UNCHANGED arVars)
<1> SUFFICES ASSUME AdminInv, [ArNext]_arVars PROVE AdminInv' /\ (Audited \/ UNCHANGED arVars)
  OBVIOUS
<1> DEFINE Holds == AdminInv' /\ (Audited \/ UNCHANGED arVars)
<1>0. /\ accounts \in [UserIds -> Users \cup {NoUser}]
      /\ emailIndex \in [Addresses -> UserIds \cup {NoId}]
      /\ rolePromotionRequests \in Seq(PromotionRequests)
      /\ IndexSound
  BY DEF AdminInv
<1>1. ASSUME UNCHANGED <<accounts, emailIndex>>, rolePromotionRequests' \in Seq(PromotionRequests)
      PROVE  Holds
  BY <1>0, <1>1 DEF AdminInv, IndexSound, Audited
<1>2. ASSUME NEW actor \in UserIds, NEW u \in UserIds, NEW role \in StoredRoles, NEW email \in Addresses,
             PatchUser(actor, u, role, email)
      PROVE  Holds
  <2>1. CASE accounts[u] = NoUser
    <3>1. UNCHANGED <<accounts, emailIndex, rolePromotionRequests>>
      BY <1>2, <2>1 DEF PatchUser
    <3> QED BY <3>1, <1>0, <1>1
  <2>2. CASE accounts[u] # NoUser
    <3> DEFINE rec == [role |-> role, email |-> email]
               action == "UPDATE_USER"
    <3>1. rec \in Users
      BY DEF Users
    <3>2. updateUser(u, rec) /\ Audit(action, u, "success") /\ UNCHANGED rolePromotionRequests
      BY <1>2, <2>2 DEF PatchUser
    <3>3. accounts' = [accounts EXCEPT ![u] = rec]
      BY <3>2 DEF updateUser
    <3> HIDE DEF rec, action
    <3>4. Audited
      BY <3>1, <3>2, <3>3, SetAudited
    <3> QED BY <3>1, <3>2, <3>4, <2>2, <1>0, AccountSet DEF AdminInv
  <2> QED BY <2>1, <2>2
<1>3. ASSUME NEW actor \in UserIds, NEW u \in UserIds, NEW ok \in BOOLEAN, PromoteUser(actor, u, ok)
      PROVE  Holds
  <2> DEFINE outcome == IF ~ok THEN "invalid_input"
                        ELSE IF actor = u THEN "forbidden_self_promotion"
                        ELSE promotionOutcome(u)
  <2>1. CASE outcome # "success"
    <3>1. UNCHANGED <<accounts, emailIndex, rolePromotionRequests>>
      BY <1>3, <2>1 DEF PromoteUser
    <3> QED BY <3>1, <1>0, <1>1
  <2>2. CASE outcome = "success"
    <3> DEFINE rec == [accounts[u] EXCEPT !.role = "business_admin"]
               action == "PROMOTE_USER_ROLE"
    <3>1. accounts[u] # NoUser
      BY <2>2 DEF promotionOutcome
    <3>2. accounts[u] \in Users
      BY <3>1, <1>0
    <3>3. rec \in Users /\ rec.email = accounts[u].email
      BY <3>2 DEF Users, Roles, StoredRoles
    <3>4. /\ saveUser(u, rec) /\ Audit(action, u, outcome)
          /\ UNCHANGED rolePromotionRequests
      BY <1>3, <2>2 DEF PromoteUser
    <3>5. Audit(action, u, "success")
      BY <3>4, <2>2
    <3> HIDE DEF rec, action
    <3>6. updateUser(u, rec) /\ accounts' = [accounts EXCEPT ![u] = rec]
      BY <3>3, <3>4 DEF saveUser, updateUser
    <3>7. Audited
      BY <3>3, <3>5, <3>6, SetAudited
    <3> QED BY <3>1, <3>3, <3>4, <3>6, <3>7, <1>0, AccountSet DEF AdminInv
  <2> QED BY <2>1, <2>2
<1>4. ASSUME NEW actor \in UserIds, NEW u \in UserIds, DeleteUser(actor, u) PROVE Holds
  <2>1. CASE accounts[u] = NoUser
    <3>1. UNCHANGED <<accounts, emailIndex, rolePromotionRequests>>
      BY <1>4, <2>1 DEF DeleteUser
    <3> QED BY <3>1, <1>0, <1>1
  <2>2. CASE accounts[u] # NoUser
    <3> DEFINE old == accounts[u].email
    <3>1. old \in Addresses
      BY <2>2, <1>0 DEF Users
    <3>2. /\ accounts' = [accounts EXCEPT ![u] = NoUser]
          /\ emailIndex' = [emailIndex EXCEPT ![old] = NoId]
          /\ trail' = [action |-> "DELETE_USER", target |-> u, outcome |-> "success"]
          /\ UNCHANGED rolePromotionRequests
      BY <1>4, <2>2 DEF DeleteUser, deleteUser, Audit
    <3> HIDE DEF old
    <3>3. /\ accounts' \in [UserIds -> Users \cup {NoUser}]
          /\ emailIndex' \in [Addresses -> UserIds \cup {NoId}]
          /\ \A v \in UserIds : v # u => accounts'[v] = accounts[v]
          /\ \A a \in Addresses : emailIndex'[a] = IF a = old THEN NoId ELSE emailIndex[a]
      BY <3>1, <3>2, <1>0
    <3>4. IndexSound'
      <4> SUFFICES ASSUME NEW a \in Addresses, emailIndex'[a] # NoId
                   PROVE  accounts'[emailIndex'[a]] # NoUser /\ accounts'[emailIndex'[a]].email = a
        BY DEF IndexSound
      <4>1. a # old /\ emailIndex'[a] = emailIndex[a] /\ emailIndex[a] \in UserIds
        BY <3>3, <1>0
      <4>2. accounts[emailIndex[a]] # NoUser /\ accounts[emailIndex[a]].email = a
        BY <4>1, <1>0 DEF IndexSound
      <4>3. emailIndex[a] # u
        BY <4>1, <4>2 DEF old
      <4> QED BY <4>1, <4>2, <4>3, <3>3
    <3>5. Audited
      BY <3>2, <3>3 DEF Audited
    <3> QED BY <3>2, <3>3, <3>4, <3>5, <1>0 DEF AdminInv
  <2> QED BY <2>1, <2>2
<1>5. ASSUME NEW actor \in UserIds, NEW u \in UserIds, NEW role \in Roles, CreateRequest(actor, u, role)
      PROVE  Holds
  <2> DEFINE req == [target |-> u, role |-> role, by |-> actor, status |-> "pending", ttl |-> RequestTtl]
  <2>1. req \in PromotionRequests
    BY AccountsAssumption DEF PromotionRequests
  <2>2. rolePromotionRequests' = Append(rolePromotionRequests, req) /\ UNCHANGED <<accounts, emailIndex>>
    BY <1>5 DEF CreateRequest
  <2> HIDE DEF req
  <2>3. rolePromotionRequests' \in Seq(PromotionRequests)
    BY <2>1, <2>2, <1>0
  <2> QED BY <2>2, <2>3, <1>1
<1>6. ASSUME NEW new, \A r \in Requests : new[r] \in PromotionRequests,
             new = [r \in Requests |-> new[r]]
      PROVE  new \in Seq(PromotionRequests)
  <2>1. Requests = 1..Len(rolePromotionRequests) /\ Len(rolePromotionRequests) \in Nat
    BY <1>0 DEF Requests
  <2> QED BY <1>6, <2>1
<1>7. ASSUME NEW actor \in UserIds, NEW r \in Requests, ApproveRequest(actor, r) PROVE Holds
  <2> DEFINE req == rolePromotionRequests[r]
  <2>0. req \in PromotionRequests
    BY <1>0 DEF Requests
  <2>1. ASSUME NEW status \in {"expired", "approved"},
               rolePromotionRequests' = [rolePromotionRequests EXCEPT ![r].status = status]
        PROVE  rolePromotionRequests' \in Seq(PromotionRequests)
    <3> DEFINE marked == [req EXCEPT !.status = status]
    <3>1. marked \in PromotionRequests
      BY <2>0 DEF PromotionRequests
    <3>2. rolePromotionRequests' = [rolePromotionRequests EXCEPT ![r] = marked]
      BY <2>1
    <3> HIDE DEF marked
    <3> QED BY <3>1, <3>2, <1>0 DEF Requests
  <2>2. CASE /\ rolePromotionRequests' = [rolePromotionRequests EXCEPT ![r].status = "expired"]
             /\ UNCHANGED <<accounts, emailIndex, trail>>
    <3> DEFINE status == "expired"
    <3>1. status \in {"expired", "approved"}
      OBVIOUS
    <3>2. rolePromotionRequests' = [rolePromotionRequests EXCEPT ![r].status = status]
      BY <2>2
    <3> HIDE DEF status
    <3>3. rolePromotionRequests' \in Seq(PromotionRequests)
      BY <3>1, <3>2, <2>1
    <3> QED BY <2>2, <3>3, <1>1
  <2>3. CASE UNCHANGED <<accounts, emailIndex, rolePromotionRequests>>
    BY <2>3, <1>0, <1>1
  <2>4. CASE accounts[req.target] # NoUser /\ Approve(actor, r)
    <3> DEFINE status == "approved"
               action == "APPROVE_ROLE_PROMOTION_REQUEST"
               u == req.target
               rec == [accounts[u] EXCEPT !.role = req.role]
    <3>1. status \in {"expired", "approved"}
      OBVIOUS
    <3>2. /\ rolePromotionRequests' = [rolePromotionRequests EXCEPT ![r].status = status]
          /\ updateUser(u, rec) /\ Audit(action, u, "success")
      BY <2>4 DEF Approve
    <3>3. u \in UserIds /\ req.role \in Roles
      BY <2>0 DEF PromotionRequests
    <3> HIDE DEF req
    <3>4. accounts[u] \in Users
      BY <3>3, <2>4, <1>0
    <3>5. rec \in Users
      BY <3>3, <3>4 DEF Users, StoredRoles
    <3> HIDE DEF status, rec, action, u
    <3>6. accounts' = [accounts EXCEPT ![u] = rec]
      BY <3>2 DEF updateUser
    <3>7. Audited
      BY <3>2, <3>3, <3>5, <3>6, SetAudited
    <3>8. rolePromotionRequests' \in Seq(PromotionRequests)
      BY <3>1, <3>2, <2>1
    <3>9. accounts[u] # NoUser
      BY <2>4 DEF u
    <3> QED BY <3>2, <3>3, <3>5, <3>7, <3>8, <3>9, AccountSet DEF AdminInv
  <2> QED BY <1>7, <2>2, <2>3, <2>4 DEF ApproveRequest
<1>8. CASE sweepExpiredRequests
  <2>1. \A r \in Requests : rolePromotionRequests[r] \in PromotionRequests
    BY <1>0 DEF Requests
  <2>2. \A q \in PromotionRequests : [q EXCEPT !.status = "expired"] \in PromotionRequests
    BY DEF PromotionRequests
  <2>3. /\ \A r \in Requests : rolePromotionRequests'[r] \in PromotionRequests
        /\ rolePromotionRequests' = [r \in Requests |-> rolePromotionRequests'[r]]
    BY <1>8, <2>1, <2>2 DEF sweepExpiredRequests
  <2>4. rolePromotionRequests' \in Seq(PromotionRequests)
    BY <2>3, <1>6
  <2> QED BY <1>8, <2>4, <1>1 DEF sweepExpiredRequests
<1>9. CASE ArTick
  <2>1. \A r \in Requests : rolePromotionRequests[r] \in PromotionRequests
    BY <1>0 DEF Requests
  <2>2. \A q \in PromotionRequests :
          [q EXCEPT !.ttl = IF q.ttl < 0 THEN q.ttl ELSE q.ttl - 1] \in PromotionRequests
    BY DEF PromotionRequests
  <2>3. /\ \A r \in Requests : rolePromotionRequests'[r] \in PromotionRequests
        /\ rolePromotionRequests' = [r \in Requests |-> rolePromotionRequests'[r]]
    BY <1>9, <2>1, <2>2 DEF ArTick
  <2>4. rolePromotionRequests' \in Seq(PromotionRequests)
    BY <2>3, <1>6
  <2> QED BY <1>9, <2>4, <1>1 DEF ArTick
<1>10. CASE UNCHANGED arVars
  BY <1>10, <1>0, <1>1 DEF arVars
<1> QED BY <1>2, <1>3, <1>4, <1>5, <1>7, <1>8, <1>9, <1>10 DEF ArNext

\* Administration holds for any set of accounts, addresses and requests: an entry of the
\* email index points to an account with this email, whatever admins patch, promote, approve
\* and delete, and every change of a role and every removal leaves an audit entry about that
\* user (routes/admin.ts, repositories/userRepository.ts).
THEOREM AdministrationIsSound == ArSpec => AdministrationHolds
<1>1. AdminInv => IndexSound
  BY DEF AdminInv
<1>2. AdminInv /\ [ArNext]_arVars => [Audited]_arVars
  BY AdminStep
<1>3. AdminInv /\ [ArNext]_arVars => AdminInv'
  BY AdminStep
<1> QED BY <1>1, <1>2, <1>3, AdminStarts, PTL DEF ArSpec, AdministrationHolds, RoleChangesAudited, Audited

-----------------------------------------------------------------------------
(* routes/users.ts: the export of a user's data.                           *)

\* A job that is about to report its export as completed has stored the archive.
ExportJobs ==
  /\ DOMAIN record = Exports /\ DOMAIN archive = Exports /\ DOMAIN job = Exports
  /\ \A e \in Exports :
       /\ job[e] \in {"doneGet", "doneSet"} => archive[e] # "none"
       /\ record[e] = "completed" => archive[e] # "none"

\* A download past its check has its token marked; one that began with a spent token is
\* still before the check or refused.
DownloadOk(x, toks, gone) ==
  /\ DOMAIN x = {"pc", "token", "export", "late"}
  /\ x.pc # "idle" => x.token \in ExportTokens
  /\ x.pc \in {"status", "archive"} => toks[x.token].used
  /\ x.late => x.token \in gone /\ x.pc \in {"read", "refused"}

\* A token that has delivered an archive stays marked: the mark has no expiry.
SpentMarked == \A t \in spent : t \in ExportTokens /\ dlToken[t].used

ExportInv ==
  /\ ExportJobs /\ SpentMarked
  /\ DOMAIN dlToken = ExportTokens /\ DOMAIN dl = Downloads
  /\ \A d \in Downloads : DownloadOk(dl[d], dlToken, spent)

LEMMA ExportBegins == ExInit => ExportInv
<1> SUFFICES ASSUME ExInit PROVE ExportInv
  OBVIOUS
<1>1. \A d \in Downloads : DownloadOk(dl[d], dlToken, spent)
  BY DEF ExInit, NewDownload, DownloadOk
<1> QED BY <1>1 DEF ExInit, ExportInv, ExportJobs, SpentMarked

\* The marks are kept and what was spent stays so: the downloads hold as before.
LEMMA DownloadsKept ==
  ASSUME ExportInv, DOMAIN dlToken' = ExportTokens, UNCHANGED <<dl, spent>>,
         \A t \in ExportTokens : dlToken[t].used => dlToken'[t].used
  PROVE  SpentMarked' /\ DOMAIN dl' = Downloads /\ \A d \in Downloads : DownloadOk(dl'[d], dlToken', spent')
<1>1. SpentMarked'
  BY DEF ExportInv, SpentMarked
<1>2. ASSUME NEW d \in Downloads PROVE DownloadOk(dl[d], dlToken', spent)
  <2>1. DownloadOk(dl[d], dlToken, spent)
    BY DEF ExportInv
  <2> QED BY <2>1 DEF DownloadOk
<1> QED BY <1>1, <1>2 DEF ExportInv

\* One download moves; its new state is right and nobody else's changes.
LEMMA DownloadMoves ==
  ASSUME ExportInv, NEW d \in Downloads, NEW x, dl' = [dl EXCEPT ![d] = x],
         UNCHANGED <<record, archive, job>>, DOMAIN dlToken' = ExportTokens,
         \A t \in ExportTokens : dlToken[t].used => dlToken'[t].used,
         spent \subseteq spent', SpentMarked', DownloadOk(x, dlToken', spent')
  PROVE  ExportInv'
<1>1. ExportJobs'
  BY DEF ExportInv, ExportJobs
<1>2. ASSUME NEW c \in Downloads PROVE DownloadOk(dl'[c], dlToken', spent')
  <2>1. CASE c = d
    BY <2>1 DEF ExportInv
  <2>2. CASE c # d
    <3>1. dl'[c] = dl[c] /\ DownloadOk(dl[c], dlToken, spent)
      BY <2>2 DEF ExportInv
    <3> QED BY <3>1 DEF DownloadOk
  <2> QED BY <2>1, <2>2
<1> QED BY <1>1, <1>2 DEF ExportInv

LEMMA ExportStep == ExportInv /\ [ExNext]_exVars => ExportInv'
<1> SUFFICES ASSUME ExportInv, [ExNext]_exVars PROVE ExportInv'
  OBVIOUS
<1>0. /\ ExportJobs /\ SpentMarked
      /\ DOMAIN dlToken = ExportTokens /\ DOMAIN dl = Downloads
      /\ \A d \in Downloads : DownloadOk(dl[d], dlToken, spent)
  BY DEF ExportInv
<1>1. ASSUME UNCHANGED <<dlToken, dl, spent>>, ExportJobs' PROVE ExportInv'
  BY <1>0, <1>1 DEF ExportInv, SpentMarked
<1>2. ASSUME NEW e \in Exports, initiateDataExport(e) PROVE ExportInv'
  <2>1. ExportJobs'
    BY <1>0, <1>2 DEF initiateDataExport, ExportJobs
  <2> QED BY <1>1, <1>2, <2>1 DEF initiateDataExport
<1>3. ASSUME NEW e \in Exports, UpdateGet(e) PROVE ExportInv'
  <2>1. ExportJobs'
    BY <1>0, <1>3 DEF UpdateGet, ExportJobs, Gets, After, SetAfter
  <2> QED BY <1>1, <1>3, <2>1 DEF UpdateGet
<1>4. ASSUME NEW e \in Exports, UpdateSet(e) PROVE ExportInv'
  <2>1. ExportJobs'
    BY <1>0, <1>4 DEF UpdateSet, ExportJobs, Sets, After, StatusOf
  <2> QED BY <1>1, <1>4, <2>1 DEF UpdateSet
<1>5. ASSUME NEW e \in Exports, createGdprExport(e) PROVE ExportInv'
  <2>1. ExportJobs'
    BY <1>0, <1>5 DEF createGdprExport, ExportJobs, After
  <2> QED BY <1>1, <1>5, <2>1 DEF createGdprExport
<1>6. ASSUME NEW e \in Exports, StoreArchive(e) PROVE ExportInv'
  <2>1. ExportJobs'
    BY <1>0, <1>6 DEF StoreArchive, ExportJobs, After
  <2> QED BY <1>1, <1>6, <2>1 DEF StoreArchive
<1>7. ASSUME NEW e \in Exports, StepThrows(e) PROVE ExportInv'
  <2>1. /\ DOMAIN job' = Exports /\ job'[e] \notin {"doneGet", "doneSet"}
        /\ \A x \in Exports : x # e => job'[x] = job[x]
    BY <1>0, <1>7 DEF StepThrows, ExportJobs
  <2>2. ExportJobs'
    <3>1. ASSUME UNCHANGED <<record, archive>> PROVE ExportJobs'
      BY <3>1, <1>0, <2>1 DEF ExportJobs
    <3>2. ASSUME job[e] \in Sets, record' = [record EXCEPT ![e] = StatusOf(job[e])], UNCHANGED archive
          PROVE  ExportJobs'
      BY <3>2, <1>0, <2>1 DEF ExportJobs, Sets, StatusOf
    <3>3. ASSUME archive' = [archive EXCEPT ![e] = "stored"], UNCHANGED record PROVE ExportJobs'
      BY <3>3, <1>0, <2>1 DEF ExportJobs
    <3> QED BY <1>7, <3>1, <3>2, <3>3 DEF StepThrows
  <2> QED BY <1>1, <1>7, <2>2 DEF StepThrows
<1>8. ASSUME NEW e \in Exports, getExportStatus(e) PROVE ExportInv'
  <2>1. PICK t \in ExportTokens : Unissued(t) /\ dlToken' = [dlToken EXCEPT ![t] = [export |-> e, used |-> FALSE]]
    BY <1>8 DEF getExportStatus, createDownloadToken
  <2>2. ~dlToken[t].used
    BY <2>1 DEF Unissued, NoTokenKey
  <2>3. DOMAIN dlToken' = ExportTokens /\ \A x \in ExportTokens : dlToken[x].used => dlToken'[x].used
    BY <1>0, <2>1, <2>2
  <2>4. UNCHANGED <<record, archive, job, dl, spent>>
    BY <1>8 DEF getExportStatus
  <2>5. SpentMarked' /\ DOMAIN dl' = Downloads /\ \A d \in Downloads : DownloadOk(dl'[d], dlToken', spent')
    BY <2>3, <2>4, DownloadsKept
  <2> QED BY <1>0, <2>3, <2>4, <2>5 DEF ExportInv, ExportJobs
<1>9. ASSUME NEW d \in Downloads, NEW t \in ExportTokens, BeginDownload(d, t) PROVE ExportInv'
  <2> DEFINE late == t \in spent
             x == [NewDownload EXCEPT !.pc = "read", !.token = t, !.late = late]
  <2>1. dl' = [dl EXCEPT ![d] = x] /\ UNCHANGED <<record, archive, dlToken, job, spent>>
    BY <1>9 DEF BeginDownload
  <2>2. late => t \in spent
    OBVIOUS
  <2> HIDE DEF late
  <2>3. DownloadOk(x, dlToken, spent)
    BY <2>2 DEF DownloadOk, NewDownload
  <2> HIDE DEF x
  <2>4. SpentMarked' /\ DownloadOk(x, dlToken', spent')
    BY <1>0, <2>1, <2>3 DEF SpentMarked
  <2> QED BY <1>0, <2>1, <2>4, DownloadMoves
<1>10. ASSUME NEW d \in Downloads, ConsumeRead(d) PROVE ExportInv'
  <2> DEFINE y == dl[d]
             seen == dlToken[y.token]
             place == IF seen = NoTokenKey \/ seen.used THEN "refused" ELSE "mark"
             x == [y EXCEPT !.pc = place, !.export = seen.export]
  <2>1. dl' = [dl EXCEPT ![d] = x] /\ UNCHANGED <<record, archive, dlToken, job, spent>> /\ y.pc = "read"
    BY <1>10 DEF ConsumeRead
  <2>2. DownloadOk(y, dlToken, spent)
    BY <1>0
  <2>3. y.late => place = "refused"
    BY <2>2, <1>0 DEF DownloadOk, SpentMarked
  <2>4. place \in {"refused", "mark"}
    OBVIOUS
  <2> HIDE DEF place, y
  <2>5. DownloadOk(x, dlToken, spent)
    BY <2>1, <2>2, <2>3, <2>4 DEF DownloadOk
  <2> HIDE DEF x
  <2>6. SpentMarked' /\ DownloadOk(x, dlToken', spent')
    BY <1>0, <2>1, <2>5 DEF SpentMarked
  <2> QED BY <1>0, <2>1, <2>6, DownloadMoves
<1>11. ASSUME NEW d \in Downloads, NEW place, place \in {"status", "refused"}, dl[d].pc = "mark",
              dl' = [dl EXCEPT ![d].pc = place], UNCHANGED <<record, archive, job, spent>>,
              dlToken' = [dlToken EXCEPT ![dl[d].token] = [export |-> dl[d].export, used |-> TRUE]]
       PROVE  ExportInv'
  <2> DEFINE y == dl[d]
             x == [y EXCEPT !.pc = place]
  <2>1. dl' = [dl EXCEPT ![d] = x]
    BY <1>11
  <2>2. DownloadOk(y, dlToken, spent) /\ y.pc = "mark"
    BY <1>0, <1>11
  <2>3. /\ y.token \in ExportTokens /\ DOMAIN dlToken' = ExportTokens /\ dlToken'[y.token].used
        /\ \A t \in ExportTokens : dlToken[t].used => dlToken'[t].used
    BY <1>0, <1>11, <2>2 DEF DownloadOk
  <2>4. SpentMarked'
    BY <1>0, <1>11, <2>3 DEF SpentMarked
  <2> HIDE DEF y
  <2>5. DownloadOk(x, dlToken', spent)
    BY <1>11, <2>2, <2>3 DEF DownloadOk
  <2> HIDE DEF x
  <2> QED BY <1>11, <2>1, <2>3, <2>4, <2>5, DownloadMoves
<1>12. ASSUME NEW d \in Downloads, NEW place, UNCHANGED <<record, archive, job, dlToken>>,
              dl' = [dl EXCEPT ![d].pc = place], spent \subseteq spent', SpentMarked',
              dl[d].pc # "idle", place # "idle", dl[d].late => place = "refused",
              place = "archive" => dl[d].pc = "status", place # "status"
       PROVE  ExportInv'
  <2> DEFINE y == dl[d]
             x == [y EXCEPT !.pc = place]
  <2>1. dl' = [dl EXCEPT ![d] = x]
    BY <1>12
  <2>2. DownloadOk(y, dlToken, spent)
    BY <1>0
  <2>3. y.pc # "idle" /\ (y.late => place = "refused") /\ (place = "archive" => y.pc = "status")
    BY <1>12
  <2> HIDE DEF y
  <2>4. DownloadOk(x, dlToken', spent')
    BY <1>12, <2>2, <2>3 DEF DownloadOk
  <2> HIDE DEF x
  <2> QED BY <1>0, <1>12, <2>1, <2>4, DownloadMoves
<1>13. ASSUME NEW d \in Downloads, ConsumeMark(d) PROVE ExportInv'
  <2> DEFINE place == "status"
  <2>1. place \in {"status", "refused"} /\ dl' = [dl EXCEPT ![d].pc = place]
    BY <1>13 DEF ConsumeMark, Moved
  <2> HIDE DEF place
  <2> QED BY <1>11, <1>13, <2>1 DEF ConsumeMark
<1>14. ASSUME NEW d \in Downloads, dl[d].pc \in {"mark", "status", "archive"} PROVE ~dl[d].late
  BY <1>0, <1>14 DEF DownloadOk
<1>15. ASSUME NEW d \in Downloads, ReadStatus(d) PROVE ExportInv'
  <2> DEFINE place == IF record[dl[d].export] = "completed" THEN "archive" ELSE "refused"
  <2>1. place \in {"archive", "refused"} /\ dl' = [dl EXCEPT ![d].pc = place] /\ dl[d].pc = "status"
    BY <1>15 DEF ReadStatus, Moved
  <2> HIDE DEF place
  <2>2. UNCHANGED <<record, archive, dlToken, job, spent>> /\ SpentMarked'
    BY <1>15, <1>0 DEF ReadStatus, SpentMarked
  <2> QED BY <1>12, <1>14, <2>1, <2>2
<1>16. ASSUME NEW d \in Downloads, SendArchive(d) PROVE ExportInv'
  <2> DEFINE found == archive[dl[d].export] = "stored"
             place == IF found THEN "sent" ELSE "refused"
  <2>1. /\ place \in {"sent", "refused"} /\ dl' = [dl EXCEPT ![d].pc = place] /\ dl[d].pc = "archive"
        /\ spent' = IF found THEN spent \cup {dl[d].token} ELSE spent
        /\ UNCHANGED <<record, archive, dlToken, job>>
    BY <1>16 DEF SendArchive, Moved
  <2> HIDE DEF place, found
  <2>2. dl[d].token \in ExportTokens /\ dlToken[dl[d].token].used
    BY <1>0, <2>1 DEF DownloadOk
  <2>3. spent \subseteq spent' /\ SpentMarked'
    BY <1>0, <2>1, <2>2 DEF SpentMarked
  <2> QED BY <1>12, <1>14, <2>1, <2>3
<1>17. ASSUME NEW d \in Downloads, DownloadFails(d) PROVE ExportInv'
  <2> DEFINE place == "refused"
  <2>1. /\ place \in {"status", "refused"} /\ place = "refused" /\ place # "idle" /\ place # "archive" /\ place # "status"
        /\ dl' = [dl EXCEPT ![d].pc = place]
        /\ UNCHANGED <<record, archive, job, spent>> /\ dl[d].pc # "idle"
    BY <1>17 DEF DownloadFails, Moved
  <2> HIDE DEF place
  <2>2. CASE UNCHANGED dlToken
    <3>1. SpentMarked'
      BY <1>0, <2>1, <2>2 DEF SpentMarked
    <3> QED BY <1>12, <2>1, <2>2, <3>1
  <2>3. CASE /\ dl[d].pc = "mark"
             /\ dlToken' = [dlToken EXCEPT ![dl[d].token] = [export |-> dl[d].export, used |-> TRUE]]
    BY <1>11, <2>1, <2>3
  <2> QED BY <1>17, <2>2, <2>3 DEF DownloadFails
<1>18. ASSUME NEW e \in Exports, ExpireRecord(e) \/ ExpireArchive(e) PROVE ExportInv'
  <2>1. ExportJobs'
    BY <1>0, <1>18 DEF ExpireRecord, ExpireArchive, ExportJobs
  <2> QED BY <1>1, <1>18, <2>1 DEF ExpireRecord, ExpireArchive
<1>19. ASSUME NEW t \in ExportTokens, ExpireToken(t) PROVE ExportInv'
  <2>1. DOMAIN dlToken' = ExportTokens /\ \A x \in ExportTokens : dlToken[x].used => dlToken'[x].used
    BY <1>0, <1>19 DEF ExpireToken
  <2>2. UNCHANGED <<record, archive, job, dl, spent>>
    BY <1>19 DEF ExpireToken
  <2>3. SpentMarked' /\ DOMAIN dl' = Downloads /\ \A d \in Downloads : DownloadOk(dl'[d], dlToken', spent')
    BY <2>1, <2>2, DownloadsKept
  <2> QED BY <1>0, <2>1, <2>2, <2>3 DEF ExportInv, ExportJobs
<1>20. CASE ProcessStops
  <2>1. UNCHANGED <<record, archive, dlToken, spent>>
    BY <1>20 DEF ProcessStops
  <2>2. ExportJobs'
    BY <1>0, <1>20 DEF ProcessStops, ExportJobs
  <2>3. ASSUME NEW d \in Downloads PROVE DownloadOk(dl'[d], dlToken, spent)
    <3> DEFINE y == dl[d]
    <3>1. DownloadOk(y, dlToken, spent)
      BY <1>0
    <3>2. dl'[d] = IF y.pc \in {"idle", "sent"} THEN y ELSE [y EXCEPT !.pc = "refused"]
      BY <1>20 DEF ProcessStops
    <3> HIDE DEF y
    <3> QED BY <3>1, <3>2 DEF DownloadOk
  <2>4. DOMAIN dl' = Downloads
    BY <1>20 DEF ProcessStops
  <2> QED BY <1>0, <2>1, <2>2, <2>3, <2>4 DEF ExportInv, SpentMarked
<1>21. CASE UNCHANGED exVars
  BY <1>0, <1>1, <1>21 DEF exVars, ExportJobs
<1> QED BY <1>2, <1>3, <1>4, <1>5, <1>6, <1>7, <1>8, <1>9, <1>10, <1>13, <1>15, <1>16, <1>17, <1>18,
           <1>19, <1>20, <1>21 DEF ExNext

\* Exports are honest for any number of exports, tokens and downloads, through failed
\* commands, expiries and stops of the process: an export reported completed has had its
\* archive stored, and a download that begins with a token that has delivered an archive
\* delivers nothing (dataExportService.ts, dataExportRepository.ts).
THEOREM ExportsAreHonest == ExSpec => []ExportsHonest
<1>1. ExportInv => ExportsHonest
  BY DEF ExportInv, ExportJobs, DownloadOk, ExportsHonest
<1> QED BY <1>1, ExportBegins, ExportStep, PTL DEF ExSpec

-----------------------------------------------------------------------------
(***************************************************************************)
(* Orders on finite sets, and the first n elements of one.                 *)
(***************************************************************************)

\* A nonempty set of naturals has a least element.
LEMMA HasLeast ==
  ASSUME NEW S, S \subseteq Nat, S # {}
  PROVE  \E n \in S : \A m \in S : n =< m
<1>1. IsWellFoundedOn(OpToRel(<, Nat), Nat)
  BY NatLessThanWellFounded
<1>2. PICK n \in S : \A m \in S : ~(<<m, n>> \in OpToRel(<, Nat))
  BY <1>1, WFMin
<1>3. ASSUME NEW m \in S PROVE n =< m
  <2>1. m \in Nat /\ n \in Nat
    OBVIOUS
  <2>2. ~(m < n)
    BY <1>2, <2>1 DEF OpToRel
  <2> QED BY <2>1, <2>2
<1> QED BY <1>3

\* A nonempty set of naturals with a bound has a greatest element.
LEMMA HasGreatest ==
  ASSUME NEW S, S \subseteq Nat, S # {}, NEW b \in Nat, \A n \in S : n =< b
  PROVE  \E n \in S : \A m \in S : m =< n
<1> DEFINE T == {b - n : n \in S}
<1>1. T \subseteq Nat /\ T # {}
  <2>1. \A n \in S : b - n \in Nat
    OBVIOUS
  <2>2. PICK n \in S : TRUE
    OBVIOUS
  <2>3. b - n \in T
    OBVIOUS
  <2> QED BY <2>1, <2>3
<1>2. PICK t \in T : \A u \in T : t =< u
  BY <1>1, HasLeast
<1>3. PICK n \in S : t = b - n
  BY <1>2
<1>4. ASSUME NEW m \in S PROVE m =< n
  <2>1. b - n =< b - m /\ m \in Nat /\ n \in Nat
    BY <1>2, <1>3
  <2> QED BY <2>1
<1> QED BY <1>3, <1>4

\* R is a strict total order on S.
OrdersTotally(R, S) ==
  /\ \A x \in S : <<x, x>> \notin R
  /\ \A x, y, z \in S : <<x, y>> \in R /\ <<y, z>> \in R => <<x, z>> \in R
  /\ \A x, y \in S : x # y => <<x, y>> \in R \/ <<y, x>> \in R

\* The elements of S before x, and the first n elements of S.
Below(R, S, x) == {y \in S : <<y, x>> \in R}
FirstOf(R, S, n) == {x \in S : Cardinality(Below(R, S, x)) < n}

\* An element has more before it than every one before it.
LEMMA BelowGrows ==
  ASSUME NEW S, IsFiniteSet(S), NEW R, OrdersTotally(R, S)
  PROVE  /\ \A x \in S : /\ IsFiniteSet(Below(R, S, x)) /\ Cardinality(Below(R, S, x)) \in Nat
                         /\ Cardinality(Below(R, S, x)) < Cardinality(S)
         /\ \A x, y \in S : <<x, y>> \in R =>
               /\ Below(R, S, x) \cup {x} \subseteq Below(R, S, y)
               /\ Cardinality(Below(R, S, x)) < Cardinality(Below(R, S, y))
<1>1. ASSUME NEW x \in S
      PROVE  /\ IsFiniteSet(Below(R, S, x)) /\ Cardinality(Below(R, S, x)) \in Nat
             /\ Cardinality(Below(R, S, x)) < Cardinality(S)
  <2>1. Below(R, S, x) \in SUBSET S /\ x \notin Below(R, S, x)
    BY DEF Below, OrdersTotally
  <2>2. /\ IsFiniteSet(Below(R, S, x)) /\ Cardinality(Below(R, S, x)) =< Cardinality(S)
        /\ Cardinality(S) = Cardinality(Below(R, S, x)) => S = Below(R, S, x)
    BY <2>1, FS_Subset
  <2>3. Cardinality(Below(R, S, x)) \in Nat /\ Cardinality(S) \in Nat
    BY <2>2, FS_CardinalityType
  <2> QED BY <2>1, <2>2, <2>3
<1>2. ASSUME NEW x \in S, NEW y \in S, <<x, y>> \in R
      PROVE  /\ Below(R, S, x) \cup {x} \subseteq Below(R, S, y)
             /\ Cardinality(Below(R, S, x)) < Cardinality(Below(R, S, y))
  <2>1. /\ Below(R, S, x) \cup {x} \subseteq Below(R, S, y) /\ x \notin Below(R, S, x)
        /\ Below(R, S, x) \in SUBSET Below(R, S, y)
    BY <1>2 DEF Below, OrdersTotally
  <2>2. /\ Cardinality(Below(R, S, x)) =< Cardinality(Below(R, S, y))
        /\ Cardinality(Below(R, S, y)) = Cardinality(Below(R, S, x)) => Below(R, S, y) = Below(R, S, x)
    BY <1>1, <2>1, FS_Subset
  <2> QED BY <1>1, <2>1, <2>2
<1> QED BY <1>1, <1>2

\* The first n elements are the whole set when it has no more; otherwise one of them has
\* all others of them before it, and such a one has the rest after it.
LEMMA FirstElements ==
  ASSUME NEW S, IsFiniteSet(S), NEW R, OrdersTotally(R, S), NEW n \in Nat \ {0}
  PROVE  LET F == FirstOf(R, S, n)
             Last(l) == Cardinality(Below(R, S, l)) = Cardinality(F) - 1
         IN  /\ Cardinality(S) =< n => F = S
             /\ S # {} => \E l \in F : Last(l)
             /\ \A l \in F : Last(l) => \A x \in S : x \in F <=> <<l, x>> \notin R
<1> DEFINE F == FirstOf(R, S, n)
           B(x) == Below(R, S, x)
           Last(l) == Cardinality(B(l)) = Cardinality(F) - 1
<1>0. /\ \A x \in S : IsFiniteSet(B(x)) /\ Cardinality(B(x)) \in Nat /\ Cardinality(B(x)) < Cardinality(S)
      /\ \A x, y \in S : <<x, y>> \in R =>
            B(x) \cup {x} \subseteq B(y) /\ Cardinality(B(x)) < Cardinality(B(y))
  BY BelowGrows
<1>f. /\ F \in SUBSET S /\ IsFiniteSet(F) /\ Cardinality(F) \in Nat /\ Cardinality(S) \in Nat
      /\ \A x \in S : x \in F <=> Cardinality(B(x)) < n
  <2>1. F \in SUBSET S /\ \A x \in S : x \in F <=> Cardinality(B(x)) < n
    BY DEF FirstOf
  <2> HIDE DEF F, B
  <2>2. IsFiniteSet(F)
    BY <2>1, FS_Subset
  <2>3. Cardinality(F) \in Nat
    BY <2>2, FS_CardinalityType
  <2>4. Cardinality(S) \in Nat
    BY FS_CardinalityType
  <2> QED BY <2>1, <2>2, <2>3, <2>4
<1>o. OrdersTotally(R, S) /\ \A x, y \in S : y \in B(x) <=> <<y, x>> \in R
  BY DEF Below
<1>b. \A x \in S : B(x) \in SUBSET S
  BY DEF Below
<1> HIDE DEF F, B
<1>1. Cardinality(S) =< n => F = S
  BY <1>0, <1>f
<1>c. ASSUME NEW x \in F PROVE B(x) \in SUBSET F /\ x \notin B(x) /\ B(x) # F
  <2>1. x \in S /\ x \notin B(x) /\ B(x) \in SUBSET S /\ Cardinality(B(x)) < n
    BY <1>f, <1>o, <1>b DEF OrdersTotally
  <2>2. ASSUME NEW y \in B(x) PROVE y \in F
    <3>1. y \in S /\ <<y, x>> \in R
      BY <1>o, <2>1
    <3>2. Cardinality(B(y)) < n
      BY <1>0, <2>1, <3>1
    <3> QED BY <1>f, <3>1, <3>2
  <2> QED BY <2>1, <2>2
<1>2. ASSUME S # {} PROVE \E l \in F : Last(l)
  <2> DEFINE Counts == {Cardinality(B(x)) : x \in S}
  <2>1. Counts \subseteq Nat /\ Counts # {}
    BY <1>0, <1>2
  <2>2. PICK c \in Counts : \A d \in Counts : c =< d
    BY <2>1, HasLeast
  <2>3. PICK a \in S : c = Cardinality(B(a))
    BY <2>2
  <2>4. B(a) = {}
    <3> SUFFICES ASSUME NEW y \in B(a) PROVE FALSE
      OBVIOUS
    <3>1. y \in S /\ <<y, a>> \in R
      BY <1>b, <1>o, <2>3
    <3>2. Cardinality(B(y)) < c /\ Cardinality(B(y)) \in Counts
      BY <1>0, <2>3, <3>1
    <3> QED BY <2>1, <2>2, <3>2
  <2>5. a \in F
    BY <1>f, <2>3, <2>4, FS_EmptySet
  <2> DEFINE Mine == {Cardinality(B(x)) : x \in F}
  <2>6. Mine \subseteq Nat /\ Mine # {} /\ \A k \in Mine : k =< n
    BY <1>0, <1>f, <2>5
  <2>7. PICK k \in Mine : \A d \in Mine : d =< k
    BY <2>6, HasGreatest
  <2>8. PICK l \in F : k = Cardinality(B(l))
    BY <2>7
  <2>9. ASSUME NEW y \in F, y # l PROVE y \in B(l)
    <3>1. <<l, y>> \notin R
      <4> SUFFICES ASSUME <<l, y>> \in R PROVE FALSE
        OBVIOUS
      <4>1. Cardinality(B(l)) < Cardinality(B(y)) /\ Cardinality(B(y)) \in Mine
        BY <1>0, <1>f, <2>8, <2>9
      <4> QED BY <2>6, <2>7, <2>8, <4>1
    <3> QED BY <1>f, <1>o, <2>8, <2>9, <3>1 DEF OrdersTotally
  <2>10. F = B(l) \cup {l} /\ l \notin B(l)
    BY <1>c, <2>8, <2>9
  <2>11. Cardinality(F) = Cardinality(B(l)) + 1
    BY <1>0, <1>f, <2>8, <2>10, FS_AddElement
  <2>12. Last(l)
    BY <1>0, <1>f, <2>8, <2>11
  <2> QED BY <2>8, <2>12
<1>3. ASSUME NEW l \in F, Last(l), NEW x \in S PROVE x \in F <=> <<l, x>> \notin R
  <2>1. ASSUME x \in F, <<l, x>> \in R PROVE FALSE
    <3>1. Cardinality(B(x)) =< Cardinality(F) /\ (Cardinality(F) = Cardinality(B(x)) => F = B(x))
      BY <1>c, <1>f, <2>1, FS_Subset
    <3>2. Cardinality(B(l)) < Cardinality(B(x))
      BY <1>0, <1>f, <1>3, <2>1
    <3> QED BY <1>0, <1>c, <1>f, <1>3, <2>1, <3>1, <3>2
  <2>2. ASSUME x \notin F, <<l, x>> \notin R PROVE FALSE
    <3>1. <<x, l>> \in R
      BY <1>f, <1>o, <1>3, <2>2 DEF OrdersTotally
    <3>2. Cardinality(B(x)) < Cardinality(B(l)) /\ Cardinality(B(l)) < n
      BY <1>0, <1>f, <1>3, <3>1
    <3> QED BY <1>0, <1>f, <2>2, <3>2
  <2> QED BY <2>1, <2>2
<1> USE DEF F, B
<1> QED BY <1>1, <1>2, <1>3

-----------------------------------------------------------------------------
(***************************************************************************)
(* Businesses, for any rows, names, page sizes and period: a walk over the *)
(* pages meets every row, and nobody is reminded twice in a period.        *)
(***************************************************************************)

\* A walk that was started.
WalkOk ==
  /\ walk \in [state : {"walking", "done"}, sortBy : {"createdAt", "name"}, order : {"asc", "desc"},
               limit : PageSizes, cursor : {<<>>} \cup (Int \X Int),
               seen : {walk.seen}, excused : {walk.excused}]
  /\ DOMAIN walk.seen \subseteq DOMAIN rows

BizTypes ==
  /\ bizClock \in Nat
  /\ IsFiniteSet(DOMAIN rows) /\ DOMAIN rows \subseteq Rows
  /\ rows \in [DOMAIN rows -> [created : Nat, name : Names]]
  /\ (walk = NotWalking \/ WalkOk)

\* A row that is not excused was met exactly if it is not after the cursor.
MetSoFar ==
  /\ walk.state = "walking" => \A r \in DOMAIN walk.seen \ walk.excused :
        walk.seen[r] = IF AfterCursor(r) THEN 0 ELSE 1
  /\ walk.state = "done" => \A r \in DOMAIN walk.seen \ walk.excused : walk.seen[r] = 1

\* The periods somebody was reminded in are not after that of his last reminder.
RemindedBefore ==
  \A u \in Owners :
    /\ \/ business[u] = NoBusiness
       \/ business[u] \in [exists : {TRUE}, created : Nat, sentAt : Nat \cup {0 - 1}]
    /\ reminded[u] \in [periods : SUBSET Int, twice : {FALSE}]
    /\ reminded[u].periods # {} => business[u] # NoBusiness /\ business[u].sentAt \in Nat
    /\ \A p \in reminded[u].periods : p =< business[u].sentAt \div PeriodLength

BizInv ==
  /\ BizTypes /\ MetSoFar /\ RemindedBefore
  /\ business \in [Owners -> {business[u] : u \in Owners}]
  /\ reminded \in [Owners -> {reminded[u] : u \in Owners}]

LEMMA BizStarts == BizInit => BizInv
<1> SUFFICES ASSUME BizInit PROVE BizInv
  OBVIOUS
<1>1. BizTypes
  <2>1. DOMAIN rows = {} /\ rows \in [DOMAIN rows -> [created : Nat, name : Names]]
    BY DEF BizInit
  <2>2. bizClock \in Nat /\ walk = NotWalking
    BY DEF BizInit
  <2>3. IsFiniteSet(DOMAIN rows) /\ DOMAIN rows \subseteq Rows
    BY <2>1, FS_EmptySet
  <2> QED BY <2>1, <2>2, <2>3 DEF BizTypes
<1>2. MetSoFar
  BY DEF BizInit, MetSoFar, NotWalking
<1>3. RemindedBefore
  BY DEF BizInit, RemindedBefore
<1> QED BY <1>1, <1>2, <1>3 DEF BizInv, BizInit

\* Precedes orders pairs of a key and an id.
LEMMA PairsOrdered ==
  /\ \A a, i \in Int : ~Precedes(a, i, a, i)
  /\ \A a, b, c, i, j, k \in Int :
        Precedes(a, i, b, j) /\ Precedes(b, j, c, k) => Precedes(a, i, c, k)
  /\ \A a, b, i, j \in Int : i # j => Precedes(a, i, b, j) \/ Precedes(b, j, a, i)
  /\ \A a, b, i, j \in Int : Precedes(a, i, b, j) => ~Precedes(b, j, a, i)
<1>1. \A a, i \in Int : ~Precedes(a, i, a, i)
  BY DEF Precedes
<1>2. ASSUME NEW a \in Int, NEW b \in Int, NEW c \in Int, NEW i \in Int, NEW j \in Int, NEW k \in Int,
             Precedes(a, i, b, j), Precedes(b, j, c, k)
      PROVE  Precedes(a, i, c, k)
  BY <1>2 DEF Precedes
<1>3. ASSUME NEW a \in Int, NEW b \in Int, NEW i \in Int, NEW j \in Int, i # j
      PROVE  Precedes(a, i, b, j) \/ Precedes(b, j, a, i)
  BY <1>3 DEF Precedes
<1>4. ASSUME NEW a \in Int, NEW b \in Int, NEW i \in Int, NEW j \in Int, Precedes(a, i, b, j)
      PROVE  ~Precedes(b, j, a, i)
  BY <1>4 DEF Precedes
<1> QED BY <1>1, <1>2, <1>3, <1>4

\* Keys are numbers, and so is what a cursor keeps of one.
LEMMA KeysInt ==
  ASSUME BizTypes
  PROVE  \A r \in DOMAIN rows : KeyOf(r) \in Int /\ r \in Int /\ Truncated(KeyOf(r)) \in Int
<1> SUFFICES ASSUME NEW r \in DOMAIN rows PROVE KeyOf(r) \in Int /\ r \in Int /\ Truncated(KeyOf(r)) \in Int
  OBVIOUS
<1>1. rows[r] \in [created : Nat, name : Names] /\ r \in Int
  BY BusinessesAssumption DEF BizTypes
<1>2. KeyOf(r) \in Int
  <2>1. rows[r].created \in Nat /\ rows[r].name \in Names
    BY <1>1
  <2>2. rows[r].created \in Int /\ rows[r].name \in Int
    <3>1. \A x \in Names : x \in Int
      BY BusinessesAssumption
    <3> QED BY <2>1, <3>1
  <2> QED BY <2>2 DEF KeyOf
<1>3. \A k \in Int : k \div 2 \in Int
  OBVIOUS
<1>4. \A j \in Int : 2 * j \in Int
  OBVIOUS
<1>5. 2 * (KeyOf(r) \div 2) \in Int
  BY <1>2, <1>3, <1>4
<1> QED BY <1>1, <1>2, <1>5 DEF Truncated

\* What a page shows: everything when no row is left over, otherwise exactly the rows
\* that are not after its last.
LEMMA PageShows ==
  ASSUME BizTypes, WalkOk
  PROVE  /\ pageRows \subseteq matchingRows
         /\ ~(Cardinality(matchingRows) > walk.limit) => pageRows = matchingRows
         /\ Cardinality(matchingRows) > walk.limit =>
               /\ lastRow \in pageRows
               /\ \A r \in matchingRows :
                     r \in pageRows <=> ~Precedes(KeyOf(lastRow), lastRow, KeyOf(r), r)
<1> DEFINE S == matchingRows
           R == {p \in S \X S : Precedes(KeyOf(p[1]), p[1], KeyOf(p[2]), p[2])}
<1>1. S \in SUBSET DOMAIN rows /\ IsFiniteSet(S) /\ Cardinality(S) \in Nat
  <2>1. S \in SUBSET DOMAIN rows
    BY DEF matchingRows
  <2>2. IsFiniteSet(S)
    BY <2>1, FS_Subset DEF BizTypes
  <2> QED BY <2>1, <2>2, FS_CardinalityType
<1>2. \A x, y \in S : <<x, y>> \in R <=> Precedes(KeyOf(x), x, KeyOf(y), y)
  OBVIOUS
<1>3. \A x \in S : x \in Int /\ KeyOf(x) \in Int
  BY <1>1, KeysInt
<1>l. walk.limit \in Nat \ {0}
  BY BusinessesAssumption DEF WalkOk
<1> HIDE DEF R
<1>4. OrdersTotally(R, S)
  <2>1. \A x \in S : <<x, x>> \notin R
    BY <1>2, <1>3, PairsOrdered
  <2>2. \A x, y, z \in S : <<x, y>> \in R /\ <<y, z>> \in R => <<x, z>> \in R
    <3> SUFFICES ASSUME NEW x \in S, NEW y \in S, NEW z \in S, <<x, y>> \in R, <<y, z>> \in R
                 PROVE  <<x, z>> \in R
      OBVIOUS
    <3>1. Precedes(KeyOf(x), x, KeyOf(y), y) /\ Precedes(KeyOf(y), y, KeyOf(z), z)
      BY <1>2
    <3>2. Precedes(KeyOf(x), x, KeyOf(z), z)
      BY <1>3, <3>1, PairsOrdered
    <3> QED BY <1>2, <3>2
  <2>3. \A x, y \in S : x # y => <<x, y>> \in R \/ <<y, x>> \in R
    BY <1>2, <1>3, PairsOrdered
  <2> QED BY <2>1, <2>2, <2>3 DEF OrdersTotally
<1>5. \A x \in S : rowsBefore(x) = Below(R, S, x)
  BY <1>2 DEF rowsBefore, Below
<1>6. pageRows = FirstOf(R, S, walk.limit)
  BY <1>5 DEF pageRows, FirstOf
<1> DEFINE IsLast(l) == Cardinality(Below(R, S, l)) = Cardinality(pageRows) - 1
<1> HIDE DEF S
<1>7. /\ Cardinality(S) =< walk.limit => pageRows = S
      /\ S # {} => \E l \in pageRows : IsLast(l)
      /\ \A l \in pageRows : IsLast(l) => \A x \in S : x \in pageRows <=> <<l, x>> \notin R
  BY <1>1, <1>4, <1>6, <1>l, FirstElements
<1>8. pageRows \subseteq S
  BY <1>6 DEF FirstOf
<1>9. ASSUME Cardinality(S) > walk.limit
      PROVE  lastRow \in pageRows /\ \A r \in S : r \in pageRows <=> ~Precedes(KeyOf(lastRow), lastRow, KeyOf(r), r)
  <2>1. S # {}
    BY <1>9, <1>l, FS_EmptySet
  <2>2. PICK l \in pageRows : IsLast(l)
    BY <1>7, <2>1
  <2>3. l \in pageRows /\ Cardinality(rowsBefore(l)) = Cardinality(pageRows) - 1
    BY <1>5, <1>8, <2>2
  <2>4. lastRow \in pageRows /\ Cardinality(rowsBefore(lastRow)) = Cardinality(pageRows) - 1
    BY <2>3 DEF lastRow
  <2>5. IsLast(lastRow)
    BY <1>5, <1>8, <2>4
  <2> QED BY <1>2, <1>7, <1>8, <2>4, <2>5
<1> USE DEF S
<1> QED BY <1>1, <1>l, <1>7, <1>8, <1>9


\* A cursor that cuts the milliseconds of its row off passes the same rows as that row,
\* except those it cannot tell from it.
LEMMA CursorPasses ==
  ASSUME BizTypes, WalkOk, NEW l \in DOMAIN rows, NEW r \in DOMAIN rows, r \notin cutBy(l)
  PROVE  Precedes(Truncated(KeyOf(l)), l, KeyOf(r), r) <=> Precedes(KeyOf(l), l, KeyOf(r), r)
<1>1. KeyOf(l) \in Int /\ KeyOf(r) \in Int /\ l \in Int /\ r \in Int
  BY KeysInt
<1> DEFINE a == KeyOf(l)
           b == KeyOf(r)
<1>2. CASE a = Truncated(a)
  BY <1>2
<1>3. CASE a # Truncated(a)
  <2>1. Truncated(b) # Truncated(a)
    BY <1>3 DEF cutBy
  <2> HIDE DEF a, b
  <2>2. Truncated(a) = 2 * (a \div 2) /\ Truncated(b) = 2 * (b \div 2)
    BY <1>3 DEF Truncated
  <2>3. a \in Int /\ b \in Int
    BY <1>1 DEF a, b
  <2>4. (Truncated(a) < b <=> a < b) /\ (Truncated(a) > b <=> a > b) /\ Truncated(a) # b /\ a # b
    BY <1>3, <2>1, <2>2, <2>3
  <2>5. Precedes(Truncated(a), l, b, r) <=> Precedes(a, l, b, r)
    BY <2>4 DEF Precedes
  <2> QED BY <2>5 DEF a, b
<1> QED BY <1>2, <1>3

\* A page: the client met what is not after the new cursor.
LEMMA PageStep ==
  ASSUME BizTypes, MetSoFar, list
  PROVE  BizTypes' /\ MetSoFar'
<1> DEFINE more == Cardinality(matchingRows) > walk.limit
           next == [r \in DOMAIN walk.seen |->
                      IF r \notin pageRows THEN walk.seen[r] ELSE IF walk.seen[r] = 0 THEN 1 ELSE 2]
<1>1. walk.state = "walking" /\ rows' = rows /\ bizClock' = bizClock
  BY DEF list
<1>2. WalkOk
  BY <1>1 DEF BizTypes, NotWalking
<1>p. /\ pageRows \subseteq matchingRows /\ (~more => pageRows = matchingRows)
      /\ more => /\ lastRow \in pageRows
                 /\ \A r \in matchingRows :
                       r \in pageRows <=> ~Precedes(KeyOf(lastRow), lastRow, KeyOf(r), r)
  BY <1>2, PageShows
<1>m. \A r \in DOMAIN rows : r \in matchingRows <=> AfterCursor(r)
  BY DEF matchingRows
<1>w. walk' = [walk EXCEPT !.seen = next, !.state = IF more THEN "walking" ELSE "done",
                           !.cursor = IF more THEN <<Truncated(KeyOf(lastRow)), lastRow>> ELSE walk.cursor,
                           !.excused = IF more THEN walk.excused \cup cutBy(lastRow) ELSE walk.excused]
  BY DEF list
<1> HIDE DEF more, next
<1>f. /\ walk'.seen = next /\ walk'.state = (IF more THEN "walking" ELSE "done")
      /\ walk'.sortBy = walk.sortBy /\ walk'.order = walk.order /\ walk'.limit = walk.limit
      /\ more => walk'.cursor = <<Truncated(KeyOf(lastRow)), lastRow>>
                 /\ walk'.excused = walk.excused \cup cutBy(lastRow)
      /\ ~more => walk'.cursor = walk.cursor /\ walk'.excused = walk.excused
  BY <1>2, <1>w DEF WalkOk
<1>n. /\ DOMAIN next = DOMAIN walk.seen
      /\ \A r \in DOMAIN walk.seen :
           next[r] = IF r \notin pageRows THEN walk.seen[r] ELSE IF walk.seen[r] = 0 THEN 1 ELSE 2
  BY DEF next
<1>l. more => lastRow \in DOMAIN rows /\ lastRow \in matchingRows /\ lastRow \in Int
              /\ Truncated(KeyOf(lastRow)) \in Int /\ KeyOf(lastRow) \in Int
  <2>1. more => lastRow \in matchingRows
    BY <1>p
  <2>2. matchingRows \subseteq DOMAIN rows
    BY DEF matchingRows
  <2> QED BY <2>1, <2>2, KeysInt
<1>3. BizTypes'
  <2>1. walk'.cursor \in {<<>>} \cup (Int \X Int)
    <3>1. walk.cursor \in {<<>>} \cup (Int \X Int)
      BY <1>2 DEF WalkOk
    <3>2. more => <<Truncated(KeyOf(lastRow)), lastRow>> \in Int \X Int
      BY <1>l
    <3> QED BY <1>f, <3>1, <3>2
  <2>2. walk' \in [state : {"walking", "done"}, sortBy : {"createdAt", "name"}, order : {"asc", "desc"},
                   limit : PageSizes, cursor : {<<>>} \cup (Int \X Int),
                   seen : {walk'.seen}, excused : {walk'.excused}]
    <3>1. walk' = [state |-> walk'.state, sortBy |-> walk.sortBy, order |-> walk.order, limit |-> walk.limit,
                   cursor |-> walk'.cursor, seen |-> walk'.seen, excused |-> walk'.excused]
      BY <1>2, <1>w DEF WalkOk
    <3>2. walk'.state \in {"walking", "done"}
      BY <1>f
    <3>3. walk.sortBy \in {"createdAt", "name"} /\ walk.order \in {"asc", "desc"} /\ walk.limit \in PageSizes
      BY <1>2 DEF WalkOk
    <3> QED BY <2>1, <3>1, <3>2, <3>3
  <2>3. DOMAIN walk'.seen \subseteq DOMAIN rows'
    BY <1>1, <1>2, <1>f, <1>n DEF WalkOk
  <2>4. WalkOk'
    BY <2>2, <2>3 DEF WalkOk
  <2> QED BY <1>1, <2>4 DEF BizTypes
<1>k. \A r \in DOMAIN rows : KeyOf(r)' = KeyOf(r)
  BY <1>1, <1>f DEF KeyOf
<1>4. CASE ~more
  <2>1. \A r \in DOMAIN walk.seen \ walk.excused : next[r] = 1
    <3> TAKE r \in DOMAIN walk.seen \ walk.excused
    <3>1. r \in DOMAIN rows /\ walk.seen[r] = IF AfterCursor(r) THEN 0 ELSE 1
      BY <1>1, <1>2 DEF MetSoFar, WalkOk
    <3> QED BY <1>4, <1>p, <1>m, <1>n, <3>1
  <2> QED BY <1>3, <1>4, <1>f, <1>n, <2>1 DEF MetSoFar
<1>5. CASE more
  <2> SUFFICES ASSUME NEW r \in DOMAIN walk.seen \ (walk.excused \cup cutBy(lastRow))
               PROVE  next[r] = IF AfterCursor(r)' THEN 0 ELSE 1
    BY <1>3, <1>5, <1>f, <1>n DEF MetSoFar
  <2>1. r \in DOMAIN rows /\ walk.seen[r] = (IF AfterCursor(r) THEN 0 ELSE 1) /\ r \notin cutBy(lastRow)
    BY <1>1, <1>2 DEF MetSoFar, WalkOk
  <2>2. walk'.cursor = <<Truncated(KeyOf(lastRow)), lastRow>>
    BY <1>5, <1>f
  <2>3. AfterCursor(r)' <=> Precedes(Truncated(KeyOf(lastRow)), lastRow, KeyOf(r), r)
    <3>1. walk'.cursor # <<>> /\ walk'.cursor[1] = Truncated(KeyOf(lastRow)) /\ walk'.cursor[2] = lastRow
      BY <2>2
    <3> QED BY <1>f, <1>k, <2>1, <3>1 DEF AfterCursor, Precedes
  <2>4. AfterCursor(r)' <=> Precedes(KeyOf(lastRow), lastRow, KeyOf(r), r)
    BY <1>2, <1>5, <1>l, <2>1, <2>3, CursorPasses
  <2>5. CASE AfterCursor(r)
    BY <1>5, <1>p, <1>m, <1>n, <2>1, <2>4, <2>5
  <2>6. CASE ~AfterCursor(r)
    <3>1. r \notin pageRows /\ next[r] = 1
      BY <1>p, <1>m, <1>n, <2>1, <2>6
    <3>2. walk.cursor # <<>> /\ walk.cursor[1] \in Int /\ walk.cursor[2] \in Int
          /\ ~Precedes(walk.cursor[1], walk.cursor[2], KeyOf(r), r)
      BY <1>2, <2>6 DEF AfterCursor, WalkOk
    <3>3. Precedes(walk.cursor[1], walk.cursor[2], KeyOf(lastRow), lastRow)
      BY <1>5, <1>l, <1>m, <3>2 DEF AfterCursor
    <3>4. KeyOf(r) \in Int /\ r \in Int /\ KeyOf(lastRow) \in Int /\ lastRow \in Int
      BY <1>5, <1>l, <2>1, KeysInt
    <3>5. ~Precedes(KeyOf(lastRow), lastRow, KeyOf(r), r)
      BY <3>2, <3>3, <3>4, PairsOrdered
    <3> QED BY <2>4, <3>1, <3>5
  <2> QED BY <2>5, <2>6
<1> QED BY <1>3, <1>4, <1>5

\* Rows that keep their keys stay on their side of the cursor.
LEMMA SideKept ==
  ASSUME BizTypes, MetSoFar, BizTypes', walk'.state = walk.state,
         walk.state # "idle" =>
           /\ walk'.sortBy = walk.sortBy /\ walk'.order = walk.order /\ walk'.cursor = walk.cursor
           /\ walk'.seen = walk.seen
           /\ \A r \in DOMAIN walk'.seen \ walk'.excused : rows'[r] = rows[r] /\ r \notin walk.excused
  PROVE  MetSoFar'
<1>1. CASE walk.state = "idle"
  BY <1>1 DEF MetSoFar
<1>2. CASE walk.state # "idle"
  <2>1. \A r \in DOMAIN walk'.seen \ walk'.excused : AfterCursor(r)' <=> AfterCursor(r)
    <3> TAKE r \in DOMAIN walk'.seen \ walk'.excused
    <3>1. KeyOf(r)' = KeyOf(r)
      BY <1>2 DEF KeyOf
    <3> QED BY <1>2, <3>1 DEF AfterCursor, Precedes
  <2>2. \A r \in DOMAIN walk'.seen \ walk'.excused : r \in DOMAIN walk.seen \ walk.excused
    BY <1>2
  <2> QED BY <1>2, <2>1, <2>2 DEF MetSoFar
<1> QED BY <1>1, <1>2

\* What the clock, the map and the job do leaves the table and the walk alone.
LEMMA TableKept ==
  ASSUME BizTypes, MetSoFar, rows' = rows, walk' = walk, bizClock' \in Nat
  PROVE  BizTypes' /\ MetSoFar'
<1>1. BizTypes'
  BY DEF BizTypes, WalkOk, NotWalking
<1>2. walk.state # "idle" => WalkOk
  BY DEF BizTypes, NotWalking
<1>3. \A r \in DOMAIN walk.seen \ walk.excused : rows'[r] = rows[r] /\ r \notin walk.excused
  OBVIOUS
<1>4. MetSoFar'
  BY <1>1, <1>3, SideKept
<1> QED BY <1>1, <1>4

\* The table and the walk do nothing to the map and its reminders.
LEMMA MapKept ==
  ASSUME BizInv, business' = business, reminded' = reminded
  PROVE  /\ RemindedBefore'
         /\ business' \in [Owners -> {business'[u] : u \in Owners}]
         /\ reminded' \in [Owners -> {reminded'[u] : u \in Owners}]
BY DEF BizInv, RemindedBefore

\* A reminder is sent in a later period than the last one.
LEMMA LaterPeriod ==
  ASSUME NEW now \in Nat, NEW ref \in Nat, now >= nextPeriodBoundary(ref)
  PROVE  ref \div PeriodLength < now \div PeriodLength
<1> DEFINE P == PeriodLength
           a == ref \div P
           b == now \div P
<1>1. P \in Nat /\ P > 0
  BY BusinessesAssumption
<1>2. a \in Int /\ b \in Int /\ now < (b + 1) * P
  BY <1>1
<1>3. now >= (a + 1) * P
  BY DEF nextPeriodBoundary
<1> HIDE DEF P, a, b
<1>4. ASSUME b =< a PROVE FALSE
  <2>1. (b + 1) * P =< (a + 1) * P
    BY <1>1, <1>2, <1>4
  <2> QED BY <1>1, <1>2, <1>3, <2>1
<1>5. a < b
  BY <1>2, <1>4
<1> QED BY <1>5 DEF a, b, P

\* The absent record does not exist.
LEMMA NoneExists == NoBusiness.exists = FALSE
BY DEF NoBusiness

\* Every step keeps it.
LEMMA BizStep == BizInv /\ [BizNext]_bizVars => BizInv'
<1> SUFFICES ASSUME BizInv, [BizNext]_bizVars PROVE BizInv'
  OBVIOUS
<1>0. /\ BizTypes /\ MetSoFar /\ RemindedBefore
      /\ business \in [Owners -> {business[u] : u \in Owners}]
      /\ reminded \in [Owners -> {reminded[u] : u \in Owners}]
  BY DEF BizInv
<1>t. bizClock \in Nat
  BY <1>0 DEF BizTypes
<1>1. ASSUME NEW r \in Rows, NEW n \in Names, InsertRow(r, n) PROVE BizInv'
  <2>1. /\ r \notin DOMAIN rows /\ business' = business /\ reminded' = reminded /\ walk' = walk
        /\ rows' = [x \in DOMAIN rows \cup {r} |->
                      IF x = r THEN [created |-> bizClock, name |-> n] ELSE rows[x]]
        /\ bizClock' = bizClock
    BY <1>1 DEF InsertRow
  <2>2. /\ DOMAIN rows' = DOMAIN rows \cup {r} /\ \A x \in DOMAIN rows : rows'[x] = rows[x]
        /\ rows' \in [DOMAIN rows' -> [created : Nat, name : Names]]
    BY <1>0, <1>t, <2>1 DEF BizTypes
  <2>3. IsFiniteSet(DOMAIN rows') /\ DOMAIN rows' \subseteq Rows
    BY <1>0, <2>2, FS_AddElement DEF BizTypes
  <2>4. (walk = NotWalking \/ WalkOk)'
    BY <1>0, <2>1, <2>2 DEF BizTypes, WalkOk, NotWalking
  <2>5. BizTypes'
    BY <1>t, <2>1, <2>2, <2>3, <2>4 DEF BizTypes
  <2>6. walk.state # "idle" => DOMAIN walk.seen \subseteq DOMAIN rows
    BY <1>0 DEF BizTypes, WalkOk, NotWalking
  <2>7. MetSoFar'
    BY <1>0, <2>1, <2>2, <2>5, <2>6, SideKept
  <2> QED BY <2>1, <2>5, <2>7, MapKept DEF BizInv
<1>2. ASSUME NEW r \in Rows, NEW n \in Names, RenameRow(r, n) PROVE BizInv'
  <2>1. /\ r \in DOMAIN rows /\ business' = business /\ reminded' = reminded /\ bizClock' = bizClock
        /\ walk.state = "walking"
        /\ rows' = [rows EXCEPT ![r].name = n]
        /\ walk' = [walk EXCEPT !.excused = walk.excused \cup {r}]
    BY <1>2 DEF RenameRow
  <2>2. WalkOk
    BY <1>0, <2>1 DEF BizTypes, NotWalking
  <2>3. /\ DOMAIN rows' = DOMAIN rows /\ \A x \in DOMAIN rows \ {r} : rows'[x] = rows[x]
        /\ rows' \in [DOMAIN rows' -> [created : Nat, name : Names]]
    <3>1. rows[r] \in [created : Nat, name : Names] /\ rows \in [DOMAIN rows -> [created : Nat, name : Names]]
      BY <1>0, <2>1 DEF BizTypes
    <3>2. [rows[r] EXCEPT !.name = n] \in [created : Nat, name : Names]
      BY <3>1
    <3> QED BY <2>1, <3>1, <3>2
  <2>4. /\ walk'.state = walk.state /\ walk'.sortBy = walk.sortBy /\ walk'.order = walk.order
        /\ walk'.limit = walk.limit /\ walk'.cursor = walk.cursor /\ walk'.seen = walk.seen
        /\ walk'.excused = walk.excused \cup {r}
        /\ walk' = [state |-> walk.state, sortBy |-> walk.sortBy, order |-> walk.order, limit |-> walk.limit,
                    cursor |-> walk.cursor, seen |-> walk'.seen, excused |-> walk'.excused]
    BY <2>1, <2>2 DEF WalkOk
  <2>5. WalkOk'
    BY <2>2, <2>3, <2>4 DEF WalkOk
  <2>6. BizTypes'
    BY <1>0, <2>1, <2>3, <2>5 DEF BizTypes
  <2>7. \A x \in DOMAIN walk'.seen \ walk'.excused : rows'[x] = rows[x] /\ x \notin walk.excused
    BY <2>2, <2>3, <2>4 DEF WalkOk
  <2>8. MetSoFar'
    BY <1>0, <2>4, <2>6, <2>7, SideKept
  <2> QED BY <2>1, <2>6, <2>8, MapKept DEF BizInv
<1>3. ASSUME NEW s \in {"createdAt", "name"}, NEW o \in {"asc", "desc"}, NEW l \in PageSizes, StartWalk(s, o, l)
      PROVE  BizInv'
  <2>1. /\ business' = business /\ reminded' = reminded /\ bizClock' = bizClock /\ rows' = rows
        /\ walk' = [state |-> "walking", sortBy |-> s, order |-> o, limit |-> l, cursor |-> <<>>,
                    seen |-> [x \in DOMAIN rows |-> 0], excused |-> {}]
    BY <1>3 DEF StartWalk
  <2>2. WalkOk'
    <3>1. /\ walk' \in [state : {"walking", "done"}, sortBy : {"createdAt", "name"}, order : {"asc", "desc"},
                        limit : PageSizes, cursor : {<<>>} \cup (Int \X Int),
                        seen : {walk'.seen}, excused : {walk'.excused}]
      BY <2>1
    <3>2. DOMAIN walk'.seen \subseteq DOMAIN rows'
      BY <2>1
    <3> QED BY <3>1, <3>2 DEF WalkOk
  <2>3. BizTypes'
    BY <1>0, <2>1, <2>2 DEF BizTypes
  <2>4. MetSoFar'
    <3>1. walk'.state = "walking" /\ walk'.cursor = <<>> /\ \A x \in DOMAIN walk'.seen : walk'.seen[x] = 0
      BY <2>1
    <3> QED BY <3>1 DEF MetSoFar, AfterCursor
  <2> QED BY <2>1, <2>3, <2>4, MapKept DEF BizInv
<1>4. ASSUME list PROVE BizInv'
  <2>1. business' = business /\ reminded' = reminded
    BY <1>4 DEF list
  <2>2. BizTypes' /\ MetSoFar'
    BY <1>0, <1>4, PageStep
  <2> QED BY <2>1, <2>2, MapKept DEF BizInv
<1>5. CASE ClockTick
  <2>1. /\ business' = business /\ reminded' = reminded /\ rows' = rows /\ walk' = walk
        /\ bizClock' \in Nat
    BY <1>t, <1>5 DEF ClockTick
  <2>2. BizTypes' /\ MetSoFar'
    BY <1>0, <2>1, TableKept
  <2> QED BY <2>1, <2>2, MapKept DEF BizInv
<1>6. CASE RestartBusinesses
  <2>1. /\ rows' = rows /\ walk' = walk /\ bizClock' = bizClock
        /\ business' = [u \in Owners |-> NoBusiness]
        /\ reminded' = [u \in Owners |-> [periods |-> {}, twice |-> FALSE]]
    BY <1>6 DEF RestartBusinesses
  <2>2. BizTypes' /\ MetSoFar'
    BY <1>0, <1>t, <2>1, TableKept
  <2>3. RemindedBefore'
    BY <2>1 DEF RemindedBefore
  <2> QED BY <2>1, <2>2, <2>3 DEF BizInv
<1>7. ASSUME NEW u \in Owners, createBusiness(u) PROVE BizInv'
  <2>1. /\ rows' = rows /\ walk' = walk /\ bizClock' = bizClock /\ reminded' = reminded
        /\ ~business[u].exists
        /\ business' = [business EXCEPT ![u] = [exists |-> TRUE, created |-> bizClock, sentAt |-> 0 - 1]]
    BY <1>7 DEF createBusiness, newBusiness, getByUserId
  <2>2. BizTypes' /\ MetSoFar'
    BY <1>0, <1>t, <2>1, TableKept
  <2>3. business[u] = NoBusiness /\ reminded[u].periods = {}
    <3>1. business[u] = NoBusiness
      BY <1>0, <2>1 DEF RemindedBefore
    <3> QED BY <1>0, <3>1 DEF RemindedBefore
  <2>4. business'[u] \in [exists : {TRUE}, created : Nat, sentAt : Nat \cup {0 - 1}]
    BY <1>0, <1>t, <2>1
  <2>5. \A v \in Owners : v # u => business'[v] = business[v]
    BY <1>0, <2>1
  <2>6. RemindedBefore'
    BY <1>0, <2>1, <2>3, <2>4, <2>5 DEF RemindedBefore
  <2>7. business' \in [Owners -> {business'[v] : v \in Owners}]
    BY <1>0, <2>1
  <2> QED BY <1>0, <2>1, <2>2, <2>6, <2>7 DEF BizInv
<1>8. CASE attestationReminderJob
  <2> DEFINE due == {u \in Owners : business[u].exists /\ shouldSendReminder(business[u])}
             period == bizClock \div PeriodLength
  <2>1. /\ rows' = rows /\ walk' = walk /\ bizClock' = bizClock
        /\ business' = [u \in Owners |-> IF u \in due THEN [business[u] EXCEPT !.sentAt = bizClock]
                                         ELSE business[u]]
        /\ reminded' = [u \in Owners |->
              IF u \in due THEN [periods |-> reminded[u].periods \cup {period},
                                 twice |-> reminded[u].twice \/ period \in reminded[u].periods]
              ELSE reminded[u]]
    BY <1>8 DEF attestationReminderJob
  <2>2. BizTypes' /\ MetSoFar'
    BY <1>0, <1>t, <2>1, TableKept
  <2>p. period \in Int
    BY <1>t, BusinessesAssumption
  <2>3. ASSUME NEW u \in due
        PROVE  /\ business'[u] \in [exists : {TRUE}, created : Nat, sentAt : Nat \cup {0 - 1}]
               /\ business'[u].sentAt = bizClock
               /\ reminded'[u] \in [periods : SUBSET Int, twice : {FALSE}]
               /\ \A q \in reminded'[u].periods : q =< period
    <3>1. u \in Owners /\ business[u].exists /\ shouldSendReminder(business[u])
      OBVIOUS
    <3>2. business[u] \in [exists : {TRUE}, created : Nat, sentAt : Nat \cup {0 - 1}]
      <4>1. business[u] # NoBusiness
        BY <3>1, NoneExists
      <4> QED BY <1>0, <3>1, <4>1 DEF RemindedBefore
    <3>3. reminded[u] \in [periods : SUBSET Int, twice : {FALSE}]
      BY <1>0, <3>1 DEF RemindedBefore
    <3>4. \A q \in reminded[u].periods : q < period
      <4> SUFFICES ASSUME NEW q \in reminded[u].periods PROVE q < period
        OBVIOUS
      <4>1. business[u].sentAt \in Nat /\ q =< business[u].sentAt \div PeriodLength /\ q \in Int
        BY <1>0, <3>1, <3>3 DEF RemindedBefore
      <4>2. bizClock >= nextPeriodBoundary(business[u].sentAt)
        BY <3>1, <4>1 DEF shouldSendReminder
      <4>3. business[u].sentAt \div PeriodLength < period /\ business[u].sentAt \div PeriodLength \in Int
        BY <1>t, <4>1, <4>2, LaterPeriod, BusinessesAssumption
      <4> HIDE DEF period
      <4> QED BY <2>p, <4>1, <4>3
    <3>5. business'[u] = [business[u] EXCEPT !.sentAt = bizClock]
      BY <2>1, <3>1
    <3>6. /\ reminded'[u].periods = reminded[u].periods \cup {period}
          /\ reminded'[u] = [periods |-> reminded[u].periods \cup {period},
                             twice |-> reminded[u].twice \/ period \in reminded[u].periods]
      BY <2>1, <3>1
    <3> HIDE DEF period, due
    <3>7. period \notin reminded[u].periods /\ reminded[u].periods \subseteq Int
      <4>1. reminded[u].periods \in SUBSET Int
        BY <3>3
      <4>2. period \notin reminded[u].periods
        BY <2>p, <3>4
      <4> QED BY <4>1, <4>2
    <3>11. reminded[u].twice \in {FALSE}
      BY <3>3
    <3> DEFINE again == reminded[u].twice \/ period \in reminded[u].periods
    <3>12. again = FALSE
      BY <3>7, <3>11
    <3>8. reminded'[u] \in [periods : SUBSET Int, twice : {FALSE}]
      <4>1. reminded'[u] = [periods |-> reminded[u].periods \cup {period}, twice |-> again]
        BY <3>6
      <4> HIDE DEF again
      <4>2. reminded[u].periods \cup {period} \in SUBSET Int /\ again \in {FALSE}
        BY <2>p, <3>7, <3>12
      <4> QED BY <4>1, <4>2
    <3>9. \A q \in reminded'[u].periods : q =< period
      BY <2>p, <3>4, <3>6, <3>7
    <3>10. business'[u] \in [exists : {TRUE}, created : Nat, sentAt : Nat \cup {0 - 1}]
           /\ business'[u].sentAt = bizClock
      BY <1>t, <3>2, <3>5
    <3> QED BY <3>8, <3>9, <3>10
  <2>4. \A u \in Owners \ due : business'[u] = business[u] /\ reminded'[u] = reminded[u]
    BY <2>1
  <2>5. RemindedBefore'
    <3> HIDE DEF due
    <3> SUFFICES ASSUME NEW u \in Owners
                 PROVE  /\ \/ business'[u] = NoBusiness
                           \/ business'[u] \in [exists : {TRUE}, created : Nat, sentAt : Nat \cup {0 - 1}]
                        /\ reminded'[u] \in [periods : SUBSET Int, twice : {FALSE}]
                        /\ reminded'[u].periods # {} => business'[u] # NoBusiness /\ business'[u].sentAt \in Nat
                        /\ \A p \in reminded'[u].periods : p =< business'[u].sentAt \div PeriodLength
      BY DEF RemindedBefore
    <3>1. CASE u \in due
      <4>1. business'[u] # NoBusiness
        <5>1. business'[u].exists \in {TRUE}
          BY <2>3, <3>1
        <5> QED BY <5>1, NoneExists
      <4> QED BY <1>t, <2>3, <3>1, <4>1
    <3>2. CASE u \notin due
      BY <1>0, <2>4, <3>2 DEF RemindedBefore
    <3> QED BY <3>1, <3>2
  <2>6. /\ business' \in [Owners -> {business'[v] : v \in Owners}]
        /\ reminded' \in [Owners -> {reminded'[v] : v \in Owners}]
    <3> HIDE DEF due, period
    <3> QED BY <2>1
  <2> QED BY <2>2, <2>5, <2>6 DEF BizInv
<1>9. CASE UNCHANGED bizVars
  <2>1. /\ business' = business /\ reminded' = reminded /\ rows' = rows /\ walk' = walk /\ bizClock' = bizClock
    BY <1>9 DEF bizVars
  <2>2. BizTypes' /\ MetSoFar'
    BY <1>0, <1>t, <2>1, TableKept
  <2> QED BY <2>1, <2>2, MapKept DEF BizInv
<1> QED BY <1>1, <1>2, <1>3, <1>4, <1>5, <1>6, <1>7, <1>8, <1>9 DEF BizNext

\* A client that follows nextCursor to the end of list met every row of the start exactly
\* once, but for those renamed meanwhile or cut by the milliseconds of a cursor; and the
\* reminder job reminds nobody twice in a period.
THEOREM WalksMeetEveryRow == BizSpec => []WalkMeetsEveryRow
<1>1. BizInv => WalkMeetsEveryRow
  <2> SUFFICES ASSUME BizInv PROVE WalkMeetsEveryRow
    OBVIOUS
  <2>1. \A u \in Owners : ~reminded[u].twice
    BY DEF BizInv, RemindedBefore
  <2> QED BY <2>1 DEF BizInv, MetSoFar, WalkMeetsEveryRow
<1> QED BY <1>1, BizStarts, BizStep, PTL DEF BizSpec

-----------------------------------------------------------------------------
(***************************************************************************)
(* AuditLog, for any actors, ids, times, page size and number of entries:  *)
(* the chain shows what was done to the log, and pages miss nothing.       *)
(***************************************************************************)

\* The hash an entry of a list in the order of seq is checked against.
HashBefore(L, i) == IF i = 1 THEN GENESIS_SENTINEL ELSE L[i - 1].chainHash
Breaks(L, i) == L[i].chainHash # computeChainHash(L[i], HashBefore(L, i))

\* A list of n entries in the order of seq.
BySeq(L, n) ==
  /\ n \in Nat /\ DOMAIN L = 1..n
  /\ \A i \in 1..n : L[i].seq \in Nat
  /\ \A i, j \in 1..n : i < j => L[i].seq < L[j].seq

\* The entries before the i-th are the first i - 1, and the last of these has the hash
\* that verifyChain goes on from.
LEMMA EarlierEntries ==
  ASSUME NEW L, NEW n, BySeq(L, n), NEW i \in 1..n
  PROVE  /\ EarlierThan(EntriesOf(L), L[i]) = {L[j] : j \in 1..(i - 1)}
         /\ Cardinality(EarlierThan(EntriesOf(L), L[i])) = i - 1
         /\ prevHash(EntriesOf(L), L[i]) = HashBefore(L, i)
<1> DEFINE B == {L[j] : j \in 1..(i - 1)}
           f == [j \in 1..(i - 1) |-> L[j]]
<1>1. n \in Nat /\ \A j, k \in 1..n : L[j].seq \in Nat /\ (j < k => L[j].seq < L[k].seq)
  BY DEF BySeq
<1>2. \A j \in 1..n : L[j].seq < L[i].seq <=> j < i
  BY <1>1
<1>3. EarlierThan(EntriesOf(L), L[i]) = B
  <2>1. ASSUME NEW x \in EarlierThan(EntriesOf(L), L[i]) PROVE x \in B
    <3>1. PICK j \in 1..n : x = L[j]
      BY DEF EarlierThan, EntriesOf, BySeq
    <3>2. j < i
      BY <1>2, <3>1 DEF EarlierThan
    <3>3. j \in 1..(i - 1)
      BY <1>1, <3>2
    <3> QED BY <3>1, <3>3
  <2>2. ASSUME NEW j \in 1..(i - 1) PROVE L[j] \in EarlierThan(EntriesOf(L), L[i])
    <3>1. j \in 1..n /\ j < i
      BY <1>1
    <3>2. L[j].seq < L[i].seq /\ L[j] \in EntriesOf(L)
      BY <1>2, <3>1 DEF EntriesOf, BySeq
    <3> QED BY <3>2 DEF EarlierThan
  <2> QED BY <2>1, <2>2
<1>4. Cardinality(B) = i - 1
  <2>1. i - 1 \in Nat /\ \A j \in 1..(i - 1) : j \in 1..n
    BY <1>1
  <2>2. \A j, k \in 1..(i - 1) : f[j] = f[k] => j = k
    <3> SUFFICES ASSUME NEW j \in 1..(i - 1), NEW k \in 1..(i - 1), L[j] = L[k], j # k PROVE FALSE
      OBVIOUS
    <3>1. j \in 1..n /\ k \in 1..n /\ (j < k \/ k < j)
      BY <2>1
    <3> QED BY <1>1, <3>1
  <2>3. f \in Bijection(1..(i - 1), B)
    BY <2>2 DEF Bijection, Injection, Surjection, IsInjective
  <2>4. IsFiniteSet(1..(i - 1)) /\ Cardinality(1..(i - 1)) = i - 1
    BY <2>1, FS_Interval
  <2>5. ExistsBijection(1..(i - 1), B)
    BY <2>3 DEF ExistsBijection
  <2> HIDE DEF f, B
  <2> QED BY <2>4, <2>5, FS_Bijection
<1>5. CASE i = 1
  <2>1. B = {}
    BY <1>5
  <2> QED BY <1>3, <1>4, <1>5, <2>1 DEF prevHash, HashBefore
<1>6. CASE i # 1
  <2>1. i - 1 \in 1..(i - 1) /\ i - 1 \in 1..n /\ \A j \in 1..(i - 1) : j \in 1..n /\ (j = i - 1 \/ j < i - 1)
    BY <1>1, <1>6
  <2>2. L[i - 1] \in B
    BY <2>1
  <2>3. \A y \in B : y.seq =< L[i - 1].seq
    BY <1>1, <2>1
  <2>4. \A x \in B : (\A y \in B : y.seq =< x.seq) => x = L[i - 1]
    <3> SUFFICES ASSUME NEW j \in 1..(i - 1), \A y \in B : y.seq =< L[j].seq PROVE L[j] = L[i - 1]
      OBVIOUS
    <3>1. L[i - 1].seq =< L[j].seq
      BY <2>2
    <3> QED BY <1>1, <2>1, <3>1
  <2>5. (CHOOSE x \in B : \A y \in B : y.seq =< x.seq) = L[i - 1]
    BY <2>2, <2>3, <2>4
  <2>6. prevHash(EntriesOf(L), L[i]) = L[i - 1].chainHash
    BY <1>3, <2>2, <2>5 DEF prevHash
  <2> QED BY <1>3, <1>4, <1>6, <2>6 DEF HashBefore
<1> QED BY <1>5, <1>6

\* verifyChain finds no break, or the only one there is.
LEMMA ChainVerdict ==
  ASSUME NEW L, NEW n, BySeq(L, n)
  PROVE  /\ (\A i \in 1..n : ~Breaks(L, i)) => verifyChain(EntriesOf(L)) = -1
         /\ \A i \in 1..n : Breaks(L, i) /\ (\A j \in 1..n : Breaks(L, j) => j = i)
                              => verifyChain(EntriesOf(L)) = i - 1
<1> DEFINE S == EntriesOf(L)
           broken == {e \in S : e.chainHash # computeChainHash(e, prevHash(S, e))}
<1>1. \A i \in 1..n : L[i] \in S /\ (L[i] \in broken <=> Breaks(L, i))
  BY EarlierEntries DEF BySeq, EntriesOf, Breaks
<1>2. \A e \in broken : \E i \in 1..n : e = L[i]
  BY DEF BySeq, EntriesOf
<1>3. verifyChain(S) = IF broken = {} THEN -1
                       ELSE Cardinality(EarlierThan(S, CHOOSE e \in broken : \A x \in broken : e.seq =< x.seq))
  BY DEF verifyChain
<1> HIDE DEF broken, S
<1>4. ASSUME \A i \in 1..n : ~Breaks(L, i) PROVE verifyChain(S) = -1
  BY <1>1, <1>2, <1>3, <1>4
<1>5. ASSUME NEW i \in 1..n, Breaks(L, i), \A j \in 1..n : Breaks(L, j) => j = i
      PROVE  verifyChain(S) = i - 1
  <2>1. broken = {L[i]}
    BY <1>1, <1>2, <1>5
  <2>2. L[i].seq \in Nat
    BY DEF BySeq
  <2>3. (CHOOSE e \in broken : \A x \in broken : e.seq =< x.seq) = L[i]
    BY <2>1, <2>2
  <2>4. verifyChain(S) = Cardinality(EarlierThan(S, L[i]))
    BY <1>3, <2>1, <2>3
  <2> QED BY <2>4, EarlierEntries DEF S
<1> QED BY <1>4, <1>5 DEF S

-----------------------------------------------------------------------------
\* The log: seq counts from 0, the ids differ, and every hash is right.
LogOk ==
  /\ auditLogs \in Seq(EntriesOf(auditLogs))
  /\ clock \in Nat
  /\ \A i \in 1..Len(auditLogs) :
        /\ auditLogs[i].seq = i - 1 /\ auditLogs[i].id \in Nat /\ auditLogs[i].timestamp \in Nat
        /\ ~Breaks(auditLogs, i)
  /\ \A i, j \in 1..Len(auditLogs) : auditLogs[i].id = auditLogs[j].id => i = j

LEMMA LogBySeq ==
  ASSUME LogOk
  PROVE  BySeq(auditLogs, Len(auditLogs)) /\ Len(auditLogs) \in Nat /\ DOMAIN auditLogs = 1..Len(auditLogs)
<1>1. Len(auditLogs) \in Nat /\ DOMAIN auditLogs = 1..Len(auditLogs)
  BY DEF LogOk
<1>2. \A i \in 1..Len(auditLogs) : auditLogs[i].seq = i - 1
  BY DEF LogOk
<1>3. \A i \in 1..Len(auditLogs) : auditLogs[i].seq \in Nat
  BY <1>1, <1>2
<1>4. \A i, j \in 1..Len(auditLogs) : i < j => auditLogs[i].seq < auditLogs[j].seq
  BY <1>1, <1>2
<1> QED BY <1>1, <1>3, <1>4 DEF BySeq

\* A hash contains the seq of its entry, so no two agree and none is the sentinel.
LEMMA HashesDiffer ==
  ASSUME LogOk
  PROVE  /\ \A i \in 1..Len(auditLogs) : auditLogs[i].chainHash # GENESIS_SENTINEL
         /\ \A i, j \in 1..Len(auditLogs) : auditLogs[i].chainHash = auditLogs[j].chainHash => i = j
<1>1. \A i \in 1..Len(auditLogs) :
        auditLogs[i].chainHash = <<HashBefore(auditLogs, i), auditLogs[i].seq, auditLogs[i].id,
                                   auditLogs[i].userId, auditLogs[i].timestamp>>
  BY DEF LogOk, Breaks, computeChainHash
<1>2. \A i \in 1..Len(auditLogs) : auditLogs[i].seq = i - 1
  BY DEF LogOk
<1>3. ASSUME NEW i \in 1..Len(auditLogs) PROVE auditLogs[i].chainHash # GENESIS_SENTINEL
  <2>1. \A a, b, c, d, e : <<a, b, c, d, e>> # <<>>
    OBVIOUS
  <2> QED BY <1>1, <2>1 DEF GENESIS_SENTINEL
<1>4. \A i \in 1..Len(auditLogs) : auditLogs[i].chainHash[2] = i - 1
  BY <1>1, <1>2
<1>5. \A i, j \in 1..Len(auditLogs) : auditLogs[i].chainHash = auditLogs[j].chainHash => i = j
  BY <1>4, LogBySeq
<1> QED BY <1>3, <1>5

\* The log as it is verifies.
LEMMA LogVerifies ==
  ASSUME LogOk
  PROVE  verifyChain(EntriesOf(auditLogs)) = -1
BY LogBySeq, ChainVerdict DEF LogOk

\* An entry removed from inside breaks the chain at the one after it.
LEMMA RemovalShows ==
  ASSUME LogOk, NEW i \in 1..(Len(auditLogs) - 1)
  PROVE  verifyChain(EntriesOf(Without(i))) = i - 1
<1> DEFINE L == Without(i)
           n == Len(auditLogs) - 1
<1>1. Len(auditLogs) \in Nat /\ n \in Nat /\ i \in 1..n /\ DOMAIN L = 1..n
  BY LogBySeq DEF Without
<1>2. \A j \in 1..n : j \in 1..Len(auditLogs) /\ j + 1 \in 1..Len(auditLogs)
  BY <1>1
<1>3. \A j \in 1..n : L[j] = IF j < i THEN auditLogs[j] ELSE auditLogs[j + 1]
  BY DEF Without
<1>4. \A j \in 1..Len(auditLogs) : auditLogs[j].seq = j - 1 /\ ~Breaks(auditLogs, j)
  BY DEF LogOk
<1> HIDE DEF L
<1>5. ASSUME NEW j \in 1..n PROVE L[j].seq = IF j < i THEN j - 1 ELSE j
  <2>1. CASE j < i
    BY <1>2, <1>3, <1>4, <2>1
  <2>2. CASE ~(j < i)
    <3>1. L[j] = auditLogs[j + 1] /\ auditLogs[j + 1].seq = (j + 1) - 1
      BY <1>2, <1>3, <1>4, <2>2
    <3> QED BY <1>1, <2>2, <3>1
  <2> QED BY <2>1, <2>2
<1>6. BySeq(L, n)
  BY <1>1, <1>5 DEF BySeq
<1>7. ASSUME NEW j \in 1..n, j # i PROVE ~Breaks(L, j)
  <2>1. CASE j < i
    <3>1. L[j] = auditLogs[j] /\ ~Breaks(auditLogs, j)
      BY <1>2, <1>3, <1>4, <2>1
    <3>2. j # 1 => j - 1 \in 1..n /\ j - 1 < i
      BY <1>1, <2>1
    <3>3. HashBefore(L, j) = HashBefore(auditLogs, j)
      BY <1>3, <3>2 DEF HashBefore
    <3> QED BY <3>1, <3>3 DEF Breaks
  <2>2. CASE i < j
    <3>1. L[j] = auditLogs[j + 1] /\ ~Breaks(auditLogs, j + 1)
      BY <1>1, <1>2, <1>3, <1>4, <2>2
    <3>2. j # 1 /\ j + 1 # 1 /\ j - 1 \in 1..n /\ ~(j - 1 < i) /\ (j - 1) + 1 = j /\ (j + 1) - 1 = j
      BY <1>1, <2>2
    <3>3. L[j - 1] = auditLogs[j]
      BY <1>3, <3>2
    <3>4. HashBefore(L, j) = auditLogs[j].chainHash /\ HashBefore(auditLogs, j + 1) = auditLogs[j].chainHash
      BY <3>2, <3>3 DEF HashBefore
    <3> QED BY <3>1, <3>4 DEF Breaks
  <2> QED BY <1>1, <1>7, <2>1, <2>2
<1>8. Breaks(L, i)
  <2>1. L[i] = auditLogs[i + 1] /\ ~Breaks(auditLogs, i + 1) /\ i \in 1..Len(auditLogs)
    BY <1>1, <1>2, <1>3, <1>4
  <2>2. HashBefore(auditLogs, i + 1) = auditLogs[i].chainHash
    BY <1>1 DEF HashBefore
  <2>3. HashBefore(L, i) # auditLogs[i].chainHash
    <3>1. CASE i = 1
      BY <2>1, <3>1, HashesDiffer DEF HashBefore
    <3>2. CASE i # 1
      <4>1. i - 1 \in 1..n /\ i - 1 \in 1..Len(auditLogs) /\ i - 1 < i /\ i - 1 # i
        BY <1>1, <3>2
      <4>2. HashBefore(L, i) = auditLogs[i - 1].chainHash
        BY <1>3, <3>2, <4>1 DEF HashBefore
      <4> QED BY <2>1, <4>1, <4>2, HashesDiffer
    <3> QED BY <3>1, <3>2
  <2>4. \A p, q : computeChainHash(L[i], p) = computeChainHash(L[i], q) => p = q
    BY DEF computeChainHash
  <2> QED BY <2>1, <2>2, <2>3, <2>4 DEF Breaks
<1>9. verifyChain(EntriesOf(L)) = i - 1
  BY <1>1, <1>6, <1>7, <1>8, ChainVerdict
<1> QED BY <1>9 DEF L

\* An entry that says something else breaks the chain itself.
LEMMA AlterationShows ==
  ASSUME LogOk, NEW i \in DOMAIN auditLogs, NEW id, NEW a, NEW ts,
         <<id, a, ts>> # <<auditLogs[i].id, auditLogs[i].userId, auditLogs[i].timestamp>>
  PROVE  verifyChain(EntriesOf(Altered(i, id, a, ts))) = i - 1
<1> DEFINE L == Altered(i, id, a, ts)
           n == Len(auditLogs)
           old == auditLogs[i]
           new == [seq |-> old.seq, id |-> id, userId |-> a, timestamp |-> ts, chainHash |-> old.chainHash]
<1>1. n \in Nat /\ DOMAIN auditLogs = 1..n /\ i \in 1..n
  BY LogBySeq
<1>2. L = [auditLogs EXCEPT ![i] = new]
  BY DEF Altered
<1>3. new.seq = old.seq /\ new.chainHash = old.chainHash /\ new.id = id /\ new.userId = a /\ new.timestamp = ts
  OBVIOUS
<1> HIDE DEF L, new
<1>4. DOMAIN L = 1..n /\ L[i] = new /\ \A j \in 1..n : j # i => L[j] = auditLogs[j]
  BY <1>1, <1>2
<1>5. \A j \in 1..n : L[j].seq = auditLogs[j].seq /\ L[j].chainHash = auditLogs[j].chainHash
  BY <1>3, <1>4
<1>6. BySeq(L, n)
  <2>1. \A j \in 1..n : L[j].seq = j - 1
    BY <1>5 DEF LogOk
  <2> QED BY <1>1, <1>4, <2>1 DEF BySeq
<1>7. \A j \in 1..n : HashBefore(L, j) = HashBefore(auditLogs, j)
  <2>1. \A j \in 1..n : j # 1 => j - 1 \in 1..n
    BY <1>1
  <2> QED BY <1>5, <2>1 DEF HashBefore
<1>8. \A j \in 1..n : j # i => ~Breaks(L, j)
  BY <1>4, <1>7 DEF LogOk, Breaks
<1>9. Breaks(L, i)
  <2>1. old.chainHash = computeChainHash(old, HashBefore(auditLogs, i))
    BY <1>1 DEF LogOk, Breaks
  <2>2. ASSUME NEW p PROVE computeChainHash(new, p) # computeChainHash(old, p)
    <3>1. id # old.id \/ a # old.userId \/ ts # old.timestamp
      OBVIOUS
    <3> QED BY <1>3, <3>1 DEF computeChainHash
  <2> HIDE DEF old
  <2> QED BY <1>1, <1>3, <1>4, <1>7, <2>1, <2>2 DEF Breaks
<1>10. verifyChain(EntriesOf(L)) = i - 1
  BY <1>1, <1>6, <1>8, <1>9, ChainVerdict
<1> QED BY <1>10 DEF L

-----------------------------------------------------------------------------
\* Entries are ordered by time and id.
LEMMA EntriesFit ==
  ASSUME LogOk
  PROVE  /\ IsFiniteSet(EntriesOf(auditLogs))
         /\ \A x \in EntriesOf(auditLogs) : x.id \in Nat /\ x.timestamp \in Nat
         /\ \A x, y \in EntriesOf(auditLogs) : x.id = y.id => x = y
<1> DEFINE n == Len(auditLogs)
           f == [i \in 1..n |-> auditLogs[i]]
<1>1. n \in Nat /\ DOMAIN auditLogs = 1..n
  BY LogBySeq
<1>2. \A x \in EntriesOf(auditLogs) : x.id \in Nat /\ x.timestamp \in Nat
  BY <1>1 DEF LogOk, EntriesOf
<1>3. \A x, y \in EntriesOf(auditLogs) : x.id = y.id => x = y
  BY <1>1 DEF LogOk, EntriesOf
<1>4. f \in Surjection(1..n, EntriesOf(auditLogs))
  BY <1>1 DEF Surjection, EntriesOf
<1>5. IsFiniteSet(1..n)
  BY <1>1, FS_Interval
<1> HIDE DEF f, n
<1>6. IsFiniteSet(EntriesOf(auditLogs))
  BY <1>4, <1>5, FS_Surjection
<1> QED BY <1>2, <1>3, <1>6

\* What a page returns: every row found when it holds them, otherwise exactly those that
\* are not older than its last.
LEMMA SliceShows ==
  ASSUME LogOk, NEW S \in SUBSET EntriesOf(auditLogs)
  PROVE  /\ slice(S) \subseteq S
         /\ ~(Cardinality(S) > PageLimit) => slice(S) = S
         /\ Cardinality(S) > PageLimit =>
               lastOf(S) \in slice(S) /\ \A x \in S : x \in slice(S) <=> ~NewerThan(lastOf(S), x)
<1> DEFINE R == {p \in S \X S : NewerThan(p[1], p[2])}
<1>1. /\ \A x \in S : x.id \in Nat /\ x.timestamp \in Nat
      /\ \A x, y \in S : x.id = y.id => x = y
  BY EntriesFit
<1>2. IsFiniteSet(S) /\ Cardinality(S) \in Nat
  BY EntriesFit, FS_Subset, FS_CardinalityType
<1>3. \A x, y \in S : <<x, y>> \in R <=> NewerThan(x, y)
  OBVIOUS
<1> HIDE DEF R
<1>4. OrdersTotally(R, S)
  <2>1. \A x \in S : <<x, x>> \notin R
    BY <1>1, <1>3 DEF NewerThan
  <2>2. \A x, y, z \in S : NewerThan(x, y) /\ NewerThan(y, z) => NewerThan(x, z)
    BY <1>1 DEF NewerThan
  <2>3. \A x, y \in S : x # y => NewerThan(x, y) \/ NewerThan(y, x)
    BY <1>1 DEF NewerThan
  <2> QED BY <1>3, <2>1, <2>2, <2>3 DEF OrdersTotally
<1>5. \A x \in S : newerIn(S, x) = Below(R, S, x)
  BY <1>3 DEF newerIn, Below
<1>6. slice(S) = FirstOf(R, S, PageLimit) /\ slice(S) \subseteq S
  BY <1>5 DEF slice, FirstOf
<1> DEFINE F == slice(S)
           IsLast(l) == Cardinality(Below(R, S, l)) = Cardinality(F) - 1
<1>7. /\ Cardinality(S) =< PageLimit => F = S
      /\ S # {} => \E l \in F : IsLast(l)
      /\ \A l \in F : IsLast(l) => \A x \in S : x \in F <=> <<l, x>> \notin R
  BY <1>2, <1>4, <1>6, FirstElements, AuditAssumption
<1>8. ~(Cardinality(S) > PageLimit) => slice(S) = S
  BY <1>2, <1>7, AuditAssumption
<1>9. ASSUME Cardinality(S) > PageLimit
      PROVE  lastOf(S) \in slice(S) /\ \A x \in S : x \in slice(S) <=> ~NewerThan(lastOf(S), x)
  <2>1. S # {}
    BY <1>9, FS_EmptySet, AuditAssumption
  <2>2. \E l \in slice(S) : Cardinality(newerIn(S, l)) = Cardinality(slice(S)) - 1
    BY <1>5, <1>6, <1>7, <2>1
  <2>3. lastOf(S) \in slice(S) /\ Cardinality(newerIn(S, lastOf(S))) = Cardinality(slice(S)) - 1
    BY <2>2 DEF lastOf
  <2>4. IsLast(lastOf(S)) /\ lastOf(S) \in S
    BY <1>5, <1>6, <2>3
  <2> QED BY <1>3, <1>7, <2>3, <2>4
<1> QED BY <1>6, <1>8, <1>9

\* A walk on its way: what is due has been seen or lies past the cursor, and nothing seen
\* lies past it, so that the next page neither repeats nor misses anything.
WalkFits(w) ==
  /\ w.due \subseteq EntriesOf(auditLogs) /\ w.seen \subseteq EntriesOf(auditLogs)
  /\ \A e \in w.due : Matches(e, w.actor)
  /\ w.inOrder
  /\ w.cursor = NoCursor => w.due \subseteq w.seen
  /\ w.cursor # NoCursor =>
        /\ w.cursor.ts \in Nat /\ w.cursor.id \in Nat
        /\ \A e \in w.due : e \in w.seen \/ PastCursor(e, w.cursor)
        /\ \A e \in w.seen : ~PastCursor(e, w.cursor)

\* The cursor made from an entry has past it what is older than that entry.
LEMMA CursorStands ==
  ASSUME NEW ts \in Nat, NEW id \in Nat, NEW e, e.id \in Nat, e.timestamp \in Nat
  PROVE  /\ [ts |-> ts, id |-> id] # NoCursor
         /\ [ts |-> ts, id |-> id].ts = ts /\ [ts |-> ts, id |-> id].id = id
         /\ PastCursor(e, [ts |-> ts, id |-> id]) <=> e.timestamp < ts \/ (e.timestamp = ts /\ e.id < id)
<1>1. [ts |-> ts, id |-> id] # NoCursor
  BY DEF NoCursor
<1> QED BY <1>1 DEF PastCursor

\* Where the next page may start.
CanGoOn(actor, cursor, seen, due) ==
  /\ due \subseteq EntriesOf(auditLogs) /\ seen \subseteq EntriesOf(auditLogs)
  /\ \A e \in due : Matches(e, actor)
  /\ cursor = NoCursor => seen = {}
  /\ cursor # NoCursor => /\ cursor.ts \in Nat /\ cursor.id \in Nat
                          /\ \A e \in due : e \in seen \/ PastCursor(e, cursor)
                          /\ \A e \in seen : ~PastCursor(e, cursor)

\* One page keeps a walk fit, whether it is the first or a later one.
LEMMA PageFits ==
  ASSUME LogOk, NEW actor, NEW cursor, NEW seen, NEW due,
         CanGoOn(actor, cursor, seen, due), ReadPage(actor, cursor, seen, due, TRUE)
  PROVE  reader'.on = TRUE /\ WalkFits(reader')
<1> USE DEF CanGoOn
<1> DEFINE S == queriedRows(actor, cursor)
           more == Cardinality(S) > PageLimit
           l == lastOf(S)
           next == IF more THEN [ts |-> l.timestamp, id |-> l.id] ELSE NoCursor
           ok == \A x \in seen, y \in slice(S) : NewerThan(x, y)
<1>1. reader' = [on |-> TRUE, actor |-> actor, due |-> due, cursor |-> next,
                 seen |-> seen \cup slice(S), inOrder |-> TRUE /\ ok]
  BY DEF ReadPage, queryAuditLogs
<1>2. S \in SUBSET EntriesOf(auditLogs)
      /\ \A e \in EntriesOf(auditLogs) : e \in S <=> Matches(e, actor) /\ PastCursor(e, cursor)
  BY DEF queriedRows
<1>3. /\ slice(S) \subseteq S
      /\ ~more => slice(S) = S
      /\ more => l \in slice(S) /\ \A x \in S : x \in slice(S) <=> ~NewerThan(l, x)
  BY <1>2, SliceShows
<1>4. /\ \A x \in EntriesOf(auditLogs) : x.id \in Nat /\ x.timestamp \in Nat
      /\ \A x, y \in EntriesOf(auditLogs) : x.id = y.id => x = y
  BY EntriesFit
<1> HIDE DEF S, l, ok
<1>5. \A e \in due : e \in seen \/ e \in S
  BY <1>2 DEF PastCursor
\* The rows of this page are older than all seen before.
<1>6. ok
  <2> SUFFICES ASSUME NEW x \in seen, NEW y \in slice(S) PROVE NewerThan(x, y)
    BY DEF ok
  <2>1. cursor # NoCursor
    OBVIOUS
  <2>2. y \in S /\ PastCursor(y, cursor) /\ ~PastCursor(x, cursor)
    BY <1>2, <1>3, <2>1
  <2>3. x.id \in Nat /\ x.timestamp \in Nat /\ y.id \in Nat /\ y.timestamp \in Nat
    BY <1>2, <1>4, <2>2
  <2> QED BY <2>1, <2>2, <2>3 DEF PastCursor, NewerThan
<1>7. CASE ~more
  <2>1. next = NoCursor /\ due \subseteq seen \cup slice(S)
    BY <1>3, <1>5, <1>7
  <2> HIDE DEF next, more
  <2> QED BY <1>1, <1>2, <1>3, <1>6, <2>1 DEF WalkFits
<1>8. CASE more
  <2>1. l \in slice(S) /\ l \in EntriesOf(auditLogs) /\ l.id \in Nat /\ l.timestamp \in Nat
    BY <1>2, <1>3, <1>4, <1>8
  <2>2. next = [ts |-> l.timestamp, id |-> l.id]
    BY <1>8
  <2>3. next # NoCursor /\ next.ts \in Nat /\ next.id \in Nat
        /\ \A e \in EntriesOf(auditLogs) :
              PastCursor(e, next) <=> e.timestamp < l.timestamp \/ (e.timestamp = l.timestamp /\ e.id < l.id)
    BY <1>4, <2>1, <2>2, CursorStands
  <2> HIDE DEF next
  <2>4. \A e \in EntriesOf(auditLogs) : PastCursor(e, next) <=> NewerThan(l, e)
    BY <1>4, <2>1, <2>3 DEF NewerThan
  <2>5. \A e \in due : e \in seen \cup slice(S) \/ PastCursor(e, next)
    BY <1>3, <1>5, <1>8, <2>4
  <2>6. \A e \in slice(S) : ~PastCursor(e, next)
    BY <1>2, <1>3, <1>8, <2>4
  <2>7. \A e \in seen : ~PastCursor(e, next)
    <3> SUFFICES ASSUME NEW e \in seen PROVE ~NewerThan(l, e)
      BY <2>4
    <3>1. NewerThan(e, l)
      BY <1>6, <2>1 DEF ok
    <3> QED BY <1>4, <2>1, <3>1 DEF NewerThan
  <2> HIDE DEF more
  <2> QED BY <1>1, <1>2, <1>3, <1>6, <2>3, <2>5, <2>6, <2>7 DEF WalkFits
<1> QED BY <1>7, <1>8

-----------------------------------------------------------------------------
AuditInv ==
  /\ LogOk
  /\ reader.on \in BOOLEAN /\ (reader.on => WalkFits(reader))
  /\ export.stage \in {"none", "loading", "signed"}
  /\ export.stage # "none" => verifyChain(export.records) = -1
  /\ export.stage = "signed" => export.recordCount = Cardinality(export.logsFileSha256)
  /\ \A a \in anchors : a.valid /\ a.count \in 1..Len(auditLogs) /\ a.root = auditLogs[a.count].chainHash

LEMMA AuditStarts == AuInit => AuditInv
<1> SUFFICES ASSUME AuInit PROVE AuditInv
  OBVIOUS
<1>1. auditLogs = <<>> /\ clock = 0 /\ reader = NoReader /\ export = NoBundle /\ anchors = {}
  BY DEF AuInit
<1>2. Len(auditLogs) = 0 /\ 1..Len(auditLogs) = {}
  BY <1>1
<1>3. auditLogs \in Seq(EntriesOf(auditLogs))
  BY <1>1
<1>4. LogOk
  BY <1>1, <1>2, <1>3 DEF LogOk
<1>5. reader.on = FALSE /\ export.stage = "none"
  BY <1>1 DEF NoReader, NoBundle
<1> QED BY <1>1, <1>4, <1>5 DEF AuditInv

\* An entry is appended behind the others and continues their chain.
LEMMA LogGrows ==
  ASSUME LogOk, NEW actor, NEW id \in AuditIds, createAuditLog(actor, id)
  PROVE  /\ LogOk'
         /\ Len(auditLogs') = Len(auditLogs) + 1
         /\ \A i \in 1..Len(auditLogs) : auditLogs'[i] = auditLogs[i]
         /\ EntriesOf(auditLogs) \subseteq EntriesOf(auditLogs')
<1> DEFINE n == Len(auditLogs)
           e == [seq |-> n, id |-> id, userId |-> actor, timestamp |-> clock]
           new == [seq |-> e.seq, id |-> e.id, userId |-> e.userId, timestamp |-> e.timestamp,
                   chainHash |-> computeChainHash(e, LastHash)]
           T == EntriesOf(auditLogs) \cup {new}
<1>1. auditLogs' = Append(auditLogs, new) /\ clock' = clock
      /\ \A i \in DOMAIN auditLogs : auditLogs[i].id # id
  BY DEF createAuditLog
<1>2. n \in Nat /\ DOMAIN auditLogs = 1..n
  BY LogBySeq
<1>3. new.seq = n /\ new.id = id /\ new.timestamp = clock /\ new.userId = actor
      /\ new.chainHash = computeChainHash(e, LastHash)
  OBVIOUS
<1>4. \A p : computeChainHash(e, p) = computeChainHash(new, p)
  BY DEF computeChainHash
<1> HIDE DEF new, e
<1>5. auditLogs \in Seq(T) /\ new \in T
  <2>1. auditLogs \in Seq(EntriesOf(auditLogs))
    BY DEF LogOk
  <2>2. \A i \in 1..n : auditLogs[i] \in T
    BY <1>2 DEF EntriesOf
  <2> QED BY <1>2, <2>1, <2>2
<1>6. /\ auditLogs' \in Seq(T) /\ Len(auditLogs') = n + 1 /\ DOMAIN auditLogs' = 1..(n + 1)
      /\ auditLogs'[n + 1] = new /\ \A i \in 1..n : auditLogs'[i] = auditLogs[i]
  <2> HIDE DEF T
  <2> QED BY <1>1, <1>2, <1>5, AppendProperties
<1>7. \A i \in 1..(n + 1) : i = n + 1 \/ i \in 1..n
  BY <1>2
<1>8. EntriesOf(auditLogs') = T
  <2>1. \A i \in 1..n : i \in 1..(n + 1)
    BY <1>2
  <2>2. n + 1 \in 1..(n + 1)
    BY <1>2
  <2> QED BY <1>2, <1>6, <1>7, <2>1, <2>2 DEF EntriesOf
<1>9. HashBefore(auditLogs', n + 1) = LastHash
  <2>1. CASE n = 0
    <3>1. auditLogs = <<>>
      BY <1>5, <2>1, EmptySeq
    <3> QED BY <2>1, <3>1 DEF HashBefore, LastHash
  <2>2. CASE n # 0
    <3>1. auditLogs # <<>> /\ n \in 1..n /\ (n + 1) - 1 = n /\ n + 1 # 1
      BY <1>2, <2>2
    <3> QED BY <1>6, <3>1 DEF HashBefore, LastHash
  <2> QED BY <2>1, <2>2
<1>10. ~Breaks(auditLogs', n + 1)
  BY <1>3, <1>4, <1>6, <1>9 DEF Breaks
<1>11. ASSUME NEW i \in 1..n PROVE ~Breaks(auditLogs', i)
  <2>1. i # 1 => i - 1 \in 1..n
    BY <1>2
  <2>2. HashBefore(auditLogs', i) = HashBefore(auditLogs, i)
    BY <1>6, <2>1 DEF HashBefore
  <2> QED BY <1>6, <2>2 DEF LogOk, Breaks
<1>12. ASSUME NEW i \in 1..(n + 1)
       PROVE  /\ auditLogs'[i].seq = i - 1 /\ auditLogs'[i].id \in Nat /\ auditLogs'[i].timestamp \in Nat
              /\ ~Breaks(auditLogs', i)
  <2>1. CASE i \in 1..n
    BY <1>6, <1>11, <2>1 DEF LogOk
  <2>2. CASE i = n + 1
    BY <1>2, <1>3, <1>6, <1>10, <2>2, AuditAssumption DEF LogOk
  <2> QED BY <1>7, <2>1, <2>2
<1>13. ASSUME NEW i \in 1..(n + 1), NEW j \in 1..(n + 1), auditLogs'[i].id = auditLogs'[j].id
       PROVE  i = j
  BY <1>1, <1>2, <1>3, <1>6, <1>7, <1>13 DEF LogOk
<1>14. clock' \in Nat
  BY <1>1 DEF LogOk
<1>15. LogOk'
  BY <1>6, <1>8, <1>12, <1>13, <1>14 DEF LogOk
<1> QED BY <1>6, <1>8, <1>15

LEMMA AuditStep == AuditInv /\ [AuNext]_auVars => AuditInv'
<1> SUFFICES ASSUME AuditInv, [AuNext]_auVars PROVE AuditInv'
  OBVIOUS
<1>0. LogOk
  BY DEF AuditInv
<1>l. ASSUME UNCHANGED auditLogs, clock' \in Nat PROVE LogOk'
  BY <1>0, <1>l DEF LogOk, Breaks, HashBefore
<1>w. ASSUME UNCHANGED <<auditLogs, reader>> PROVE (reader.on \in BOOLEAN /\ (reader.on => WalkFits(reader)))'
  BY <1>w DEF AuditInv, WalkFits
<1>c. clock \in Nat
  BY <1>0 DEF LogOk
<1>1. ASSUME NEW a \in Actors, NEW id \in AuditIds, createAuditLog(a, id) PROVE AuditInv'
  <2>1. /\ LogOk' /\ Len(auditLogs') = Len(auditLogs) + 1 /\ Len(auditLogs) \in Nat
        /\ \A i \in 1..Len(auditLogs) : auditLogs'[i] = auditLogs[i]
        /\ EntriesOf(auditLogs) \subseteq EntriesOf(auditLogs')
    BY <1>0, <1>1, LogGrows, LogBySeq
  <2>2. UNCHANGED <<reader, export, anchors>>
    BY <1>1 DEF createAuditLog
  <2>3. (reader.on \in BOOLEAN /\ (reader.on => WalkFits(reader)))'
    BY <2>1, <2>2 DEF AuditInv, WalkFits
  <2>4. \A x \in anchors : x.valid /\ x.count \in 1..Len(auditLogs') /\ x.root = auditLogs'[x.count].chainHash
    BY <2>1 DEF AuditInv
  <2>5. /\ export.stage \in {"none", "loading", "signed"}
        /\ export.stage # "none" => verifyChain(export.records) = -1
        /\ export.stage = "signed" => export.recordCount = Cardinality(export.logsFileSha256)
    BY DEF AuditInv
  <2> QED BY <2>1, <2>2, <2>3, <2>4, <2>5 DEF AuditInv
<1>2. CASE anchorChainRoot
  <2> DEFINE a == [root |-> LastHash, count |-> Len(auditLogs), valid |-> verifyChain(EntriesOf(auditLogs)) = -1]
  <2>1. auditLogs # <<>> /\ anchors' = anchors \cup {a} /\ UNCHANGED <<auditLogs, clock, reader, export>>
    BY <1>2 DEF anchorChainRoot
  <2>2. a.valid
    BY <1>0, LogVerifies
  <2>3. Len(auditLogs) \in 1..Len(auditLogs)
    <3>1. Len(auditLogs) # 0 /\ Len(auditLogs) \in Nat
      BY <1>0, <2>1, LogBySeq, EmptySeq DEF LogOk
    <3> QED BY <3>1
  <2>4. a.count = Len(auditLogs) /\ a.root = auditLogs[Len(auditLogs)].chainHash
    BY <2>1 DEF LastHash
  <2> HIDE DEF a
  <2>5. \A x \in anchors' : x.valid /\ x.count \in 1..Len(auditLogs) /\ x.root = auditLogs[x.count].chainHash
    BY <2>1, <2>2, <2>3, <2>4 DEF AuditInv
  <2>6. /\ export.stage \in {"none", "loading", "signed"}
        /\ export.stage # "none" => verifyChain(export.records) = -1
        /\ export.stage = "signed" => export.recordCount = Cardinality(export.logsFileSha256)
    BY DEF AuditInv
  <2> QED BY <1>l, <1>w, <1>c, <2>1, <2>5, <2>6 DEF AuditInv
\* What a step of the reader has to show.
<1>r. ASSUME UNCHANGED <<auditLogs, clock, export, anchors>>, reader'.on \in BOOLEAN,
             reader'.on => WalkFits(reader')
      PROVE  AuditInv'
  <2>1. (reader.on => WalkFits(reader))'
    BY <1>r DEF WalkFits
  <2> QED BY <1>l, <1>c, <1>r, <2>1 DEF AuditInv
<1>3. ASSUME NEW a, FirstPage(a) PROVE AuditInv'
  <2> DEFINE due == {e \in EntriesOf(auditLogs) : Matches(e, a)}
  <2>1. ReadPage(a, NoCursor, {}, due, TRUE) /\ UNCHANGED <<auditLogs, clock, export, anchors>>
    BY <1>3 DEF FirstPage
  <2>2. CanGoOn(a, NoCursor, {}, due)
    BY DEF CanGoOn
  <2> HIDE DEF due
  <2>3. reader'.on = TRUE /\ WalkFits(reader')
    BY <1>0, <2>1, <2>2, PageFits
  <2> QED BY <1>r, <2>1, <2>3
<1>4. CASE NextPage
  <2>1. /\ reader.on /\ reader.cursor # NoCursor
        /\ ReadPage(reader.actor, reader.cursor, reader.seen, reader.due, reader.inOrder)
        /\ UNCHANGED <<auditLogs, clock, export, anchors>>
    BY <1>4 DEF NextPage
  <2>2. WalkFits(reader)
    BY <2>1 DEF AuditInv
  <2>3. CanGoOn(reader.actor, reader.cursor, reader.seen, reader.due)
    BY <2>1, <2>2 DEF WalkFits, CanGoOn
  <2>4. ReadPage(reader.actor, reader.cursor, reader.seen, reader.due, TRUE)
    <3>1. reader.inOrder
      BY <2>2 DEF WalkFits
    <3> QED BY <2>1, <3>1 DEF ReadPage
  <2>5. reader'.on = TRUE /\ WalkFits(reader')
    BY <1>0, <2>1, <2>3, <2>4, PageFits
  <2> QED BY <1>r, <2>1, <2>5
<1>5. CASE CloseReader
  BY <1>r, <1>5 DEF CloseReader, NoReader
\* What a step of the export has to show.
<1>e. ASSUME UNCHANGED <<auditLogs, clock, reader, anchors>>,
             export'.stage \in {"none", "loading", "signed"},
             export'.stage # "none" => verifyChain(export'.records) = -1,
             export'.stage = "signed" => export'.recordCount = Cardinality(export'.logsFileSha256)
      PROVE  AuditInv'
  BY <1>l, <1>w, <1>c, <1>e DEF AuditInv
<1>6. CASE ExportStarts
  <2>1. export' = [stage |-> "loading", records |-> EntriesOf(auditLogs)]
        /\ UNCHANGED <<auditLogs, clock, reader, anchors>>
    BY <1>6 DEF ExportStarts
  <2>2. export'.stage = "loading" /\ export'.records = EntriesOf(auditLogs)
    BY <2>1
  <2>3. verifyChain(export'.records) = -1
    BY <1>0, <2>2, LogVerifies
  <2> QED BY <1>e, <2>1, <2>2, <2>3
<1>7. CASE ExportSigned
  <2>1. /\ export.stage = "loading"
        /\ export' = [stage |-> "signed", records |-> export.records,
                      recordCount |-> Cardinality(export.records), logsFileSha256 |-> export.records]
        /\ UNCHANGED <<auditLogs, clock, reader, anchors>>
    BY <1>7 DEF ExportSigned
  <2>2. verifyChain(export.records) = -1
    BY <2>1 DEF AuditInv
  <2>3. export'.stage = "signed" /\ export'.records = export.records
        /\ export'.recordCount = Cardinality(export'.logsFileSha256)
    BY <2>1
  <2> QED BY <1>e, <2>1, <2>2, <2>3
<1>8. CASE ExportFails
  <2>1. export'.stage = "none" /\ UNCHANGED <<auditLogs, clock, reader, anchors>>
    BY <1>8 DEF ExportFails, NoBundle
  <2> QED BY <1>e, <2>1
<1>9. CASE AuTick
  <2>1. clock' \in Nat /\ UNCHANGED <<auditLogs, reader, export, anchors>>
    BY <1>9, <1>c DEF AuTick
  <2> QED BY <1>l, <1>w, <2>1 DEF AuditInv
<1>10. CASE UNCHANGED auVars
  <2>1. UNCHANGED <<auditLogs, clock, reader, export, anchors>>
    BY <1>10 DEF auVars
  <2> QED BY <1>l, <1>w, <1>c, <2>1 DEF AuditInv
<1> QED BY <1>1, <1>2, <1>3, <1>4, <1>5, <1>6, <1>7, <1>8, <1>9, <1>10 DEF AuNext

\* The log can be relied on (AuditReliable) for any actors, ids and times and any number
\* of entries: verifyChain accepts the log and every signed export of it, names the place
\* of a removed or altered entry, the anchors show what was cut off its end, and a client
\* that follows the cursors of queryAuditLogs gets every entry of the start once, newest
\* first, whatever is appended meanwhile.
THEOREM AuditIsReliable == AuSpec => []AuditReliable
<1>1. AuditInv => AuditReliable
  <2> SUFFICES ASSUME AuditInv PROVE AuditReliable
    OBVIOUS
  <2>1. LogOk /\ DOMAIN auditLogs = 1..Len(auditLogs)
    BY LogBySeq DEF AuditInv
  <2>2. ChainShowsTampering
    <3>1. export.stage = "signed" =>
            verifyChain(export.records) = -1 /\ export.recordCount = Cardinality(export.logsFileSha256)
      BY DEF AuditInv
    <3>2. \A i \in 1..(Len(auditLogs) - 1) : verifyChain(EntriesOf(Without(i))) = i - 1
      BY <2>1, RemovalShows
    <3>3. \A i \in DOMAIN auditLogs, id \in AuditIds, a \in Actors, ts \in 0..MaxTs :
            \/ <<id, a, ts>> = <<auditLogs[i].id, auditLogs[i].userId, auditLogs[i].timestamp>>
            \/ verifyChain(EntriesOf(Altered(i, id, a, ts))) = i - 1
      BY <2>1, AlterationShows
    <3> QED BY <2>1, <3>1, <3>2, <3>3, LogVerifies DEF ChainShowsTampering
  <2>3. AnchorsShowTruncation
    BY <2>1, HashesDiffer DEF AnchorsShowTruncation, AuditInv
  <2>4. PagesComplete
    BY DEF PagesComplete, AuditInv, WalkFits
  <2> QED BY <2>2, <2>3, <2>4 DEF AuditReliable
<1> QED BY <1>1, AuditStarts, AuditStep, PTL DEF AuSpec

=============================================================================
