-------------------------- MODULE RevenueEvidence --------------------------
(***************************************************************************)
(* The evidence behind an attestation: POST /attestations with revenue     *)
(* entries (services/attestation/integrateRevenueChecks.ts: normalisation, *)
(* anomaly and drift checks, Merkle tree and proofs) and GET /:id/proof.   *)
(*                                                                         *)
(* SHA-256 is symbolic: digests are equal when the hashed texts are.  The  *)
(* text hashed for an inner node is the concatenation of two digests, and  *)
(* nothing keeps a caller of the proof route from passing such a text as a *)
(* leaf.  Fractions are kept as <<numerator, positive denominator>>.       *)
(***************************************************************************)
EXTENDS Integers, Sequences, SequencesExt, FiniteSetsExt

CONSTANTS EntryIds,    \* the raw entries a request may carry
          RawOf,       \* RawOf[e]: [amount, usd, source] as the partner sent it
          Months,      \* amounts a month of the series may have
          MaxEvidence, MaxMonths, MaxSupplied

ASSUME EvidenceAssumption ==
    MaxEvidence \in Nat /\ MaxMonths \in Nat /\ MaxSupplied \in Nat

VARIABLES entries,     \* the request's revenueEntries, in order
          months,      \* the request's monthlySeries, sorted by period
          attested,    \* <<>>, or the leaves behind the stored Merkle root
          root,        \* merkleRoot of the stored record
          shown        \* the leaf of the last proof GET /:id/proof answered, if any

evVars == <<entries, months, attested, root, shown>>

NoRoot == <<"none">>
NoLeaf == <<"none">>

EvInit ==
    /\ entries = <<>> /\ months = <<>>
    /\ attested = <<>> /\ root = NoRoot
    /\ shown = NoLeaf

-----------------------------------------------------------------------------
(* buildTree and getRoot. *)
Hash(text) == <<"hash", text>>
Cat(enc, l, r) == <<enc, l, r>>      \* "hex": hex strings joined; "bytes": MerkleTree's buffers

(* One level up: the last node of an odd level is paired with itself. *)
Parents(enc, level) ==
    [k \in 1..((Len(level) + 1) \div 2) |->
        Hash(Cat(enc, level[2*k - 1], level[IF 2*k =< Len(level) THEN 2*k ELSE 2*k - 1]))]

(* level[1] is the leaves' digests, level[k + 1] the parents of level[k]; the
   while loop stops at the first level of one node, and n leaves have at most
   n levels. *)
LevelsFrom(enc, leaves) ==
    LET level[k \in 1..Len(leaves)] ==
            IF k = 1 THEN [i \in 1..Len(leaves) |-> Hash(leaves[i])] ELSE Parents(enc, level[k - 1])
    IN level

Height(levels) == Min({k \in DOMAIN levels : Len(levels[k]) = 1})

buildTree(enc, leaves) ==
    LET levels == LevelsFrom(enc, leaves) IN [k \in 1..Height(levels) |-> levels[k]]
getRoot(tree) == tree[Len(tree)][1]

(* index % 2 === 0 ? index + 1 : index - 1, counting from 1 here; a node
   without a sibling is its own. *)
SiblingOf(index) == IF index % 2 = 1 THEN index + 1 ELSE index - 1
SiblingIn(level, index) == level[IF SiblingOf(index) =< Len(level) THEN SiblingOf(index) ELSE index]

(* The leaf's index and those of the nodes above it: index = Math.floor(index / 2)
   after every level. *)
IndexPath(index, height) ==
    LET at[l \in 1..height] == IF l = 1 THEN index ELSE (at[l - 1] + 1) \div 2 IN at

Side(index) == IF index % 2 = 1 THEN "right" ELSE "left"

(* Mutant: a node without a sibling gets no step. *)
generateProof_SkipsOdd(leaves, leafIndex) ==
    LET tree == buildTree("hex", leaves)
        at == IndexPath(leafIndex, Len(tree))
        has(lvl) == SiblingOf(at[lvl]) =< Len(tree[lvl])
        lvls == SelectSeq([l \in 1..(Len(tree) - 1) |-> l], has)
    IN [k \in DOMAIN lvls |-> [sibling |-> SiblingIn(tree[lvls[k]], at[lvls[k]]),
                               position |-> Side(at[lvls[k]])]]

(* One step per level below the root. *)
generateProof(leaves, leafIndex) ==
    LET tree == buildTree("hex", leaves)
        at == IndexPath(leafIndex, Len(tree))
    IN [lvl \in 1..(Len(tree) - 1) |->
           [sibling |-> SiblingIn(tree[lvl], at[lvl]), position |-> Side(at[lvl])]]

(* The digests on the way up from a leaf: step k joins siblings[k] to the digest
   so far, on its right or on its left. *)
Join(enc, digest, sibling, onRight) ==
    Hash(IF onRight THEN Cat(enc, digest, sibling) ELSE Cat(enc, sibling, digest))

Climb(enc, leaf, siblings, right) ==
    LET current[k \in 0..Len(siblings)] ==
            IF k = 0 THEN Hash(leaf) ELSE Join(enc, current[k - 1], siblings[k], right[k])
    IN current

(* isProof's limit of 256 steps is beyond any tree MERKLE_MAX_LEAVES allows. *)
verifyProof(leaf, proof, expected) ==
    expected = Climb("hex", leaf, [k \in DOMAIN proof |-> proof[k].sibling],
                     [k \in DOMAIN proof |-> proof[k].position = "right"])[Len(proof)]

(* The class MerkleTree: the same tree over buffers; its proofs carry no
   positions, the verifier takes them from the leaf's index. *)
getProof(leaves, leafIndex) ==
    LET tree == buildTree("bytes", leaves)
        at == IndexPath(leafIndex, Len(tree))
    IN [lvl \in 1..(Len(tree) - 1) |-> SiblingIn(tree[lvl], at[lvl])]

verifyClassProof(leaf, proof, expected, leafIndex) ==
    LET at == IndexPath(leafIndex, Len(proof) + 1) IN
    expected = Climb("bytes", leaf, proof, [l \in DOMAIN proof |-> at[l] % 2 = 1])[Len(proof)]

-----------------------------------------------------------------------------
(* normalizeRevenueEntry: what the checks and the leaf see of an entry. *)
normalizeRevenueEntry(e) ==
    [id |-> e, amount |-> RawOf[e].amount,
     type |-> IF RawOf[e].amount < 0 THEN "refund" ELSE "payment",
     usd |-> RawOf[e].usd, unknown |-> RawOf[e].source = "none"]

(* The leaf: JSON of the whole entry, which the id stands for. *)
Leaf(e) == <<"json", e>>
Leaves(list) == [i \in DOMAIN list |-> Leaf(list[i])]

Magnitude(n) == IF n < 0 THEN 0 - n ELSE n
Above(f, num, den) == f[1] * den > num * f[2]                   \* f > num/den
Capped(f) == IF f[1] > f[2] THEN <<1, 1>> ELSE f                \* Math.min(f, 1)

(* buildDriftCheck: the relative deviation of observed/total from
   expected/1000. *)
Deviation(observed, total, expected) ==
    <<Magnitude(1000 * observed - expected * total), expected * total>>

(* detectNormalizationDrift with the route's baseline (5% refunds, 2% unknown
   sources, 80% USD, mean 150) and threshold 25%: the capped scores of the
   metrics when one of them drifts. *)
DriftScores(list) ==
    LET n == Len(list)
        count(P(_)) == Len(SelectSeq(list, P))
        sum == FoldLeft(LAMBDA acc, x : acc + Magnitude(x.amount), 0, list)
        all == {Deviation(count(LAMBDA x : x.type = "refund"), n, 50),
                Deviation(count(LAMBDA x : x.unknown), n, 20),
                Deviation(count(LAMBDA x : x.usd), n, 800),
                <<Magnitude(sum - 150 * n), 150 * n>>}
    IN IF n >= 5 /\ \E d \in all : Above(d, 1, 4) THEN {Capped(d) : d \in all} ELSE {}

(* The months before month i that rollingAverage(sorted, i, 3) averages. *)
BaseMonths(series, i) ==
    SelectSeq(SubSeq(series, Max({1, i - 3}), i - 1), LAMBDA a : a # 0)

(* (curr - baseline) / baseline for baseline = Sum/Len, or <<>> when there is
   no baseline and the month is skipped. *)
Change(series, i) ==
    LET base == BaseMonths(series, i)
        sum == FoldLeft(+, 0, base)
        diff == Len(base) * series[i] - sum
    IN IF sum = 0 THEN <<>> ELSE IF sum > 0 THEN <<diff, sum>> ELSE <<0 - diff, 0 - sum>>

Flagged(change) ==
    IF change = <<>> THEN "ok"
    ELSE IF 10 * change[1] =< (0 - 4) * change[2] THEN "unusual_drop"
    ELSE IF change[1] >= 3 * change[2] THEN "unusual_spike" ELSE "ok"

(* scoreSeriesAnomaly: the first month with the worst score. *)
NoAnomaly == [flag |-> "ok", score |-> <<0, 1>>, at |-> 0]
scoreSeriesAnomaly(series) ==
    FoldLeft(LAMBDA worst, i :
                LET c == Change(series, i)
                    score == IF c = <<>> THEN <<0, 1>> ELSE Capped(<<Magnitude(c[1]), c[2]>>)
                IN IF Flagged(c) # "ok" /\ Above(score, worst.score[1], worst.score[2])
                   THEN [flag |-> Flagged(c), score |-> score, at |-> i] ELSE worst,
             NoAnomaly, [k \in 1..(Len(series) - 1) |-> k + 1])

(* detectRevenueAnomaly: fewer than two months are not judged. *)
detectRevenueAnomaly(series) ==
    IF Len(series) < 2 THEN [NoAnomaly EXCEPT !.flag = "insufficient_data"]
    ELSE scoreSeriesAnomaly(series)

shouldProceedWithAttestation(anomaly, drift) ==
    /\ ~(anomaly.flag # "ok" /\ Above(anomaly.score, 7, 10))
    /\ \A d \in drift : ~Above(d, 1, 2)

-----------------------------------------------------------------------------
(* The caller puts a request together (a bound: until one is stored). *)
AddEntry(e) ==
    /\ Len(entries) < MaxEvidence /\ attested = <<>>
    /\ entries' = Append(entries, e)
    /\ UNCHANGED <<months, attested, root, shown>>

AddMonth(a) ==
    /\ Len(months) < MaxMonths /\ entries = <<>> /\ attested = <<>>
    /\ months' = Append(months, a)
    /\ UNCHANGED <<entries, attested, root, shown>>

(* POST /attestations with these entries: refused, or stored with the root. *)
Attest ==
    /\ entries # <<>> /\ attested = <<>>
    /\ LET list == [i \in DOMAIN entries |-> normalizeRevenueEntry(entries[i])] IN
          shouldProceedWithAttestation(detectRevenueAnomaly(months), DriftScores(list))
    /\ attested' = Leaves(entries)
    /\ root' = getRoot(buildTree("hex", Leaves(entries)))
    /\ entries' = <<>> /\ months' = <<>>
    /\ UNCHANGED shown

(* The texts a caller of the proof route may know: entries, and the texts of
   the inner nodes of the tree. *)
InnerTexts == IF attested = <<>> THEN {}
              ELSE LET tree == buildTree("hex", attested) IN
                   UNION {{h[2] : h \in Range(tree[k])} : k \in 2..Len(tree)}
Texts == {Leaf(e) : e \in EntryIds} \cup InnerTexts

(* GET /:id/proof: the caller supplies the leaves; 400 when they do not give
   the stored root. *)
ShowProof ==
    /\ attested # <<>>
    /\ \E n \in 1..MaxSupplied : \E leaves \in [1..n -> Texts], i \in 1..n :
          /\ verifyProof(leaves[i], generateProof(leaves, i), root)
          /\ shown' = leaves[i]
    /\ UNCHANGED <<entries, months, attested, root>>

EvNext ==
    \/ \E e \in EntryIds : AddEntry(e)
    \/ \E a \in Months : AddMonth(a)
    \/ Attest \/ ShowProof

EvSpec == EvInit /\ [][EvNext]_evVars

-----------------------------------------------------------------------------
(* Proofs are complete and sound for every list of entries, of odd length
   too: the proof of every entry verifies against the root, in both
   implementations, and no other entry passes with it.  And a proof that the
   route hands out, whatever leaves the caller supplied, is for an entry that
   was attested or for the text of an inner node of its tree. *)
ProofsSound ==
    LET list == Leaves(entries) IN
    /\ \A i \in DOMAIN list, e \in EntryIds :
          LET same == e = entries[i]
          IN /\ verifyProof(Leaf(e), generateProof(list, i), getRoot(buildTree("hex", list))) <=> same
             /\ verifyClassProof(Leaf(e), getProof(list, i), getRoot(buildTree("bytes", list)), i) <=> same
    /\ shown # NoLeaf => shown \in Range(attested) \cup InnerTexts

=============================================================================
