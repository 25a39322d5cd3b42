--------------------------- MODULE TokenFamilies ----------------------------
(***************************************************************************)
(* The rotation-aware tokens of utils/jwt.ts: token families, the jti      *)
(* blacklist and the reuse detection.                                      *)
(*                                                                         *)
(* A jti is a number; `minted` is the claims of every token signed so far. *)
(* refreshTokenPair reads nothing before it holds the family's lock and    *)
(* its body runs without an await, so a refresh is one step; the calls     *)
(* queued on the lock run in any order.  Signatures, issuer, audience and  *)
(* the claim check are not modelled: every token presented is one that was *)
(* minted.  A time is counted in ticks; JWT_CLOCK_SKEW_SECONDS is zero.    *)
(***************************************************************************)
EXTENDS Integers, Sequences, FiniteSets

CONSTANTS Families, AccessTtl, RefreshTtl,
          FamilyMaxAge,  \* maxAgeMs of clearExpiredFamilies
          MaxTokens,     \* bound: tokens minted in a run
          MaxTfNow       \* bound: the clock

ASSUME FamiliesAssumption == {AccessTtl, RefreshTtl, FamilyMaxAge, MaxTokens, MaxTfNow} \subseteq Nat

VARIABLES tfNow, minted,
          tokenFamilies,   \* the Map: a family's record, or NoFamily
          jtiBlacklist,
          revoked,         \* history: families revoked or found compromised
          lost,            \* history: families whose record was dropped while tokens lived
          rotated          \* history: how often each jti was rotated

tfVars == <<tfNow, minted, tokenFamilies, jtiBlacklist, revoked, lost, rotated>>

NoFamily == [known |-> FALSE]
Jtis == 1..MaxTokens

TfInit ==
    /\ tfNow = 0
    /\ minted = <<>>
    /\ tokenFamilies = [f \in Families |-> NoFamily]
    /\ jtiBlacklist = {}
    /\ revoked = {}
    /\ lost = {}
    /\ rotated = [j \in Jtis |-> 0]

(* getOrCreateFamily. *)
getOrCreateFamily(f) ==
    IF tokenFamilies[f].known THEN tokenFamilies[f]
    ELSE [known |-> TRUE, blacklistedJtis |-> {}, issuedJtis |-> {},
          concurrentRefreshDetected |-> FALSE, createdAt |-> tfNow]

(* Mutant: the access token's jti is not recorded. *)
generateTokenPair_RefreshOnly(f, family) ==
    LET n == Len(minted) IN
    /\ n + 2 =< MaxTokens
    /\ minted' = minted \o <<[type |-> "access", fam |-> f, exp |-> tfNow + AccessTtl],
                             [type |-> "refresh", fam |-> f, exp |-> tfNow + RefreshTtl]>>
    /\ tokenFamilies' = [tokenFamilies EXCEPT ![f] =
                            [family EXCEPT !.issuedJtis = @ \cup {n + 2}]]

(* generateTokenPair: generateAccessToken, then
   generateRefreshTokenWithFamily; both record their jti in the family. *)
generateTokenPair(f, family) ==
    LET n == Len(minted) IN
    /\ n + 2 =< MaxTokens
    /\ minted' = minted \o <<[type |-> "access", fam |-> f, exp |-> tfNow + AccessTtl],
                             [type |-> "refresh", fam |-> f, exp |-> tfNow + RefreshTtl]>>
    /\ tokenFamilies' = [tokenFamilies EXCEPT ![f] =
                            [family EXCEPT !.issuedJtis = @ \cup {n + 1, n + 2}]]

(* A login: familyId is a fresh UUID. *)
IssuePair(f) ==
    /\ \A i \in DOMAIN minted : minted[i].fam # f
    /\ ~tokenFamilies[f].known
    /\ generateTokenPair(f, getOrCreateFamily(f))
    /\ UNCHANGED <<tfNow, jtiBlacklist, revoked, lost, rotated>>

Live(j) == j \in DOMAIN minted /\ tfNow < minted[j].exp

(* verifyAccessToken: whether it returns the claims. *)
verifyAccessToken(j) == Live(j) /\ minted[j].type = "access" /\ j \notin jtiBlacklist

(* verifyRefreshTokenRotationAware: what it makes of a token.  The revoked
   and compromised answers come before the reuse check. *)
RefreshVerdict(j) ==
    LET family == getOrCreateFamily(minted[j].fam) IN
    IF ~Live(j) \/ minted[j].type # "refresh" THEN "invalid"
    ELSE IF j \in jtiBlacklist THEN "revoked"
    ELSE IF family.concurrentRefreshDetected THEN "compromised"
    ELSE IF j \in family.blacklistedJtis THEN "reused"
    ELSE "ok"

(* refreshTokenPair, the token is good: its jti is consumed and a new pair
   minted in the same family. *)
RotatePair(j) ==
    LET f == minted[j].fam
        family == getOrCreateFamily(f)
    IN  /\ RefreshVerdict(j) = "ok"
        /\ generateTokenPair(f, [family EXCEPT !.blacklistedJtis = @ \cup {j}])
        /\ rotated' = [rotated EXCEPT ![j] = @ + 1]
        /\ UNCHANGED <<tfNow, jtiBlacklist, revoked, lost>>

(* refreshTokenPair or verifyRefreshTokenRotationAware, the token was consumed
   before: the family is marked and everything it issued blacklisted. *)
DetectReuse(j) ==
    LET f == minted[j].fam IN
    /\ RefreshVerdict(j) = "reused"
    /\ tokenFamilies' = [tokenFamilies EXCEPT ![f].concurrentRefreshDetected = TRUE]
    /\ jtiBlacklist' = jtiBlacklist \cup tokenFamilies[f].issuedJtis
    /\ revoked' = revoked \cup {f}
    /\ UNCHANGED <<tfNow, minted, lost, rotated>>

(* Any other refusal before the family is looked up changes nothing; a mere
   verification that gets that far creates the family. *)
VerifyRefresh(j) ==
    /\ RefreshVerdict(j) \in {"compromised", "ok"}
    /\ ~tokenFamilies[minted[j].fam].known
    /\ tokenFamilies' = [tokenFamilies EXCEPT ![minted[j].fam] = getOrCreateFamily(minted[j].fam)]
    /\ UNCHANGED <<tfNow, minted, jtiBlacklist, revoked, lost, rotated>>

(* blacklistToken(jti, familyId): the single token. *)
blacklistToken(j) ==
    LET f == minted[j].fam IN
    /\ jtiBlacklist' = jtiBlacklist \cup {j}
    /\ tokenFamilies' = IF tokenFamilies[f].known
                        THEN [tokenFamilies EXCEPT ![f].blacklistedJtis = @ \cup {j}]
                        ELSE tokenFamilies
    /\ UNCHANGED <<tfNow, minted, revoked, lost, rotated>>

(* revokeTokenFamily: logout of all devices. *)
revokeTokenFamily(f) ==
    /\ tokenFamilies[f].known
    /\ jtiBlacklist' = jtiBlacklist \cup tokenFamilies[f].issuedJtis
                                    \cup tokenFamilies[f].blacklistedJtis
    /\ tokenFamilies' = [tokenFamilies EXCEPT ![f] = NoFamily]
    /\ revoked' = revoked \cup {f}
    /\ UNCHANGED <<tfNow, minted, lost, rotated>>

(* clearExpiredFamilies: old records go, whatever their tokens' age. *)
clearExpiredFamilies ==
    LET old == {f \in Families : tokenFamilies[f].known
                                 /\ tfNow - tokenFamilies[f].createdAt > FamilyMaxAge}
    IN  /\ old # {}
        /\ tokenFamilies' = [f \in Families |-> IF f \in old THEN NoFamily ELSE tokenFamilies[f]]
        /\ lost' = lost \cup old
        /\ UNCHANGED <<tfNow, minted, jtiBlacklist, revoked, rotated>>

(* Both maps live in the process. *)
TfRestart ==
    /\ tokenFamilies' = [f \in Families |-> NoFamily]
    /\ jtiBlacklist' = {}
    /\ lost' = {minted[j].fam : j \in DOMAIN minted}
    /\ UNCHANGED <<tfNow, minted, revoked, rotated>>

TfTick ==
    /\ tfNow < MaxTfNow
    /\ tfNow' = tfNow + 1
    /\ UNCHANGED <<minted, tokenFamilies, jtiBlacklist, revoked, lost, rotated>>

TfNext ==
    \/ \E f \in Families : IssuePair(f) \/ revokeTokenFamily(f)
    \/ \E j \in DOMAIN minted :
          RotatePair(j) \/ DetectReuse(j) \/ VerifyRefresh(j) \/ blacklistToken(j)
    \/ clearExpiredFamilies \/ TfRestart \/ TfTick

TfSpec == TfInit /\ [][TfNext]_tfVars

-----------------------------------------------------------------------------
(* Reuse detection and revocation reach the whole family: once a family was
   revoked or a consumed token of it came back, no token of it, access or
   refresh, minted before or by a rotation that raced the detection, is
   accepted.  Families whose record the cleanup or a restart dropped are
   excepted: what was consumed or issued before is no longer known. *)
RevokedFamilyIsDead ==
    \A j \in DOMAIN minted :
        (minted[j].fam \in revoked /\ minted[j].fam \notin lost)
            => ~verifyAccessToken(j) /\ RefreshVerdict(j) # "ok"

(* A refresh token is exchanged once, however often it is presented, unless
   its family's record was lost in between. *)
RotatesOnce == \A j \in DOMAIN minted : minted[j].fam \notin lost => rotated[j] =< 1

(* Rotation with reuse detection holds: an exchanged token is not exchanged
   again, and the family of one that comes back is dead. *)
FamiliesHold == RevokedFamilyIsDead /\ RotatesOnce
=============================================================================
