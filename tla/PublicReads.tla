----------------------------- MODULE PublicReads -----------------------------
(***************************************************************************)
(* GET /api/v1/public/attestations/:hash of                                *)
(* src/routes/publicAttestations.ts behind a cache that obeys the          *)
(* Cache-Control header built by src/utils/cachePolicy.ts: fresh for       *)
(* max-age, served and revalidated in the background for                   *)
(* stale-while-revalidate, served on an origin error for stale-if-error.   *)
(* Time is in ticks; a row's creation time is the order of creation.       *)
(***************************************************************************)
EXTENDS Naturals, FiniteSets

CONSTANTS
    PubIds, Hashes,
    RootOf,           \* the Merkle root of each attestation
    MaxAge,           \* max-age of an active attestation
    GoneAge,          \* max-age of a revoked one
    Swr,              \* stale-while-revalidate of both
    Horizon           \* bound: ages and durations are counted up to it

ASSUME AgesAssumption ==
    /\ MaxAge \in Nat /\ GoneAge \in Nat /\ Swr \in Nat
    /\ Horizon \in Nat /\ Horizon > MaxAge + Swr

VARIABLES
    pub,              \* the rows: status, and creation rank (0 for none)
    goneFor,          \* ticks since a row was revoked
    edge,             \* the cached response of each hash
    served            \* the last answer given to a client in this tick

pubVars == <<pub, goneFor, edge, served>>

NoEntry == [kind |-> "none", id |-> "none", status |-> "none", since |-> 0, age |-> 0]
Nothing == [hash |-> "none", kind |-> "none", degraded |-> FALSE]

PubInit ==
    /\ pub = [i \in PubIds |-> [status |-> "absent", rank |-> 0]]
    /\ goneFor = [i \in PubIds |-> 0]
    /\ edge = [h \in Hashes |-> NoEntry]
    /\ served = Nothing

Created == {i \in PubIds : pub[i].status # "absent"}

\* The repository's writes, as AttestationRecords has them.
Store(i) ==
    /\ pub[i].status = "absent"
    /\ pub' = [pub EXCEPT ![i] = [status |-> "submitted", rank |-> Cardinality(Created) + 1]]
    /\ UNCHANGED <<goneFor, edge, served>>

SetStatus(i) ==
    /\ i \in Created
    /\ \E s \in {"confirmed", "revoked"} :
          /\ s # pub[i].status
          /\ pub' = [pub EXCEPT ![i].status = s]
    /\ goneFor' = [goneFor EXCEPT ![i] = 0]
    /\ UNCHANGED <<edge, served>>

Older(n) == IF n < Horizon THEN n + 1 ELSE n

ClockTick ==
    /\ goneFor' = [i \in PubIds |-> IF pub[i].status = "revoked" THEN Older(goneFor[i]) ELSE 0]
    /\ edge' = [h \in Hashes |-> IF edge[h] = NoEntry THEN NoEntry
                                 ELSE [edge[h] EXCEPT !.age = Older(@)]]
    /\ served' = Nothing
    /\ UNCHANGED pub

-----------------------------------------------------------------------------
(* The handler.                                                            *)

\* getByMerkleRoot: any one of the rows that share the root.
Lookup(h) == {i \in Created : RootOf[i] = h}

\* computeEtag and matchEtag: the payload names the row and its status.
matchEtag(i, entry) ==
    entry.kind = "active" /\ entry.id = i /\ entry.status = pub[i].status

\* isNotModifiedSince: Last-Modified is the creation time, so a change of
\* status does not move it.
isNotModifiedSince(i, entry) ==
    entry.kind = "active" /\ pub[i].rank <= entry.since

Gone(i) == [kind |-> "gone", id |-> i, status |-> "revoked", since |-> 0, age |-> 0]
Full(i) == [kind |-> "active", id |-> i, status |-> pub[i].status, since |-> pub[i].rank, age |-> 0]

NotModified(i, entry) == matchEtag(i, entry) \/ isNotModifiedSince(i, entry)

FetchOf_ConditionalFirst(i, entry) ==
    IF NotModified(i, entry) THEN [entry EXCEPT !.age = 0]
    ELSE IF pub[i].status = "revoked" THEN Gone(i) ELSE Full(i)

\* What the cache holds after revalidating its entry: 410, 304 (the stored
\* body is fresh again) or a new body.
FetchOf(i, entry) ==
    IF pub[i].status = "revoked" THEN Gone(i)
    ELSE IF NotModified(i, entry) THEN [entry EXCEPT !.age = 0]
    ELSE Full(i)

Fetched(h) ==
    IF Lookup(h) = {} THEN {NoEntry} ELSE {FetchOf(i, edge[h]) : i \in Lookup(h)}

\* CACHE_POLICIES, as formatCacheControl writes them into the answer.
FreshFor(entry) == IF entry.kind = "gone" THEN GoneAge ELSE MaxAge

PubAnswer(h, entry, degraded) ==
    served' = [hash |-> h, kind |-> entry.kind, degraded |-> degraded]

\* Fresh: the origin is not asked.
Hit(h) ==
    /\ edge[h] # NoEntry
    /\ edge[h].age < FreshFor(edge[h])
    /\ PubAnswer(h, edge[h], FALSE)
    /\ UNCHANGED <<pub, goneFor, edge>>

\* Stale but within stale-while-revalidate: answered from the cache, which
\* is revalidated behind the answer, if the origin can be reached.
StaleHit(h) ==
    /\ edge[h] # NoEntry
    /\ edge[h].age \in FreshFor(edge[h])..(FreshFor(edge[h]) + Swr)
    /\ PubAnswer(h, edge[h], FALSE)
    /\ \E e \in Fetched(h) \cup {edge[h]} : edge' = [edge EXCEPT ![h] = e]
    /\ UNCHANGED <<pub, goneFor>>

\* Nothing cached, or too old: the origin answers.
Fetch(h) ==
    /\ edge[h] = NoEntry \/ edge[h].age > FreshFor(edge[h]) + Swr
    /\ \E e \in Fetched(h) :
          /\ edge' = [edge EXCEPT ![h] = e]
          /\ PubAnswer(h, e, FALSE)
    /\ UNCHANGED <<pub, goneFor>>

\* The origin fails: stale-if-error lets the old answer stand.
FetchFails(h) ==
    /\ edge[h] # NoEntry
    /\ edge[h].age > FreshFor(edge[h]) + Swr
    /\ PubAnswer(h, edge[h], TRUE)
    /\ UNCHANGED <<pub, goneFor, edge>>

PubNext ==
    \/ \E i \in PubIds : Store(i) \/ SetStatus(i)
    \/ \E h \in Hashes : Hit(h) \/ StaleHit(h) \/ Fetch(h) \/ FetchFails(h)
    \/ ClockTick

PubSpec == PubInit /\ [][PubNext]_pubVars

-----------------------------------------------------------------------------

LongRevoked(h) ==
    /\ Lookup(h) # {}
    /\ \A i \in Lookup(h) : pub[i].status = "revoked" /\ goneFor[i] > MaxAge + Swr

\* Revocation reaches the readers: once every attestation with a root has
\* been revoked for longer than max-age plus stale-while-revalidate, the root
\* is no longer shown as valid, unless the origin could not be asked
\* (publicAttestations.ts:193-249).  A conditional request must therefore
\* never refresh the body of a revoked attestation.
RevocationReachesReaders ==
    [][served' # served =>
          (LongRevoked(served'.hash) /\ served'.kind = "active" => served'.degraded)]_pubVars
=============================================================================
