------------------------------ MODULE AuditLog ------------------------------
(***************************************************************************)
(* The audit log: repositories/auditLogRepository.ts (the hash chain and   *)
(* the paged query), jobs/auditAnchorJob.ts, jobs/auditSignedExport.ts and *)
(* scripts/verify-audit-chain.ts.                                          *)
(*                                                                         *)
(* The HMAC is a free constructor: the hash of an entry is the pair of the *)
(* hash before it and the entry's fields, so two hashes agree exactly when *)
(* what went into them does.  Ids are random, hence in any order; several  *)
(* entries can carry the same timestamp.  Hex ids compare alike under      *)
(* localeCompare and <, so ids are numbers.  A sorted list of rows is the  *)
(* set of them: the place of a row is the number of rows before it.        *)
(***************************************************************************)
EXTENDS Integers, Sequences, FiniteSets

CONSTANTS Actors, AuditIds,
          MaxTs,       \* bound: the clock in milliseconds
          MaxEntries,  \* bound: entries
          PageLimit    \* limit of the query

ASSUME AuditAssumption ==
    /\ AuditIds \subseteq Nat
    /\ MaxTs \in Nat /\ MaxEntries \in Nat /\ PageLimit \in Nat \ {0}

VARIABLES auditLogs, clock,
          reader,      \* a client that walks the pages of one query
          export,      \* a signed export in progress or done
          anchors      \* roots emitted by the anchor job

auVars == <<auditLogs, clock, reader, export, anchors>>

GENESIS_SENTINEL == <<>>
NoCursor == [ts |-> -1, id |-> -1]
NoReader == [on |-> FALSE]
NoBundle == [stage |-> "none"]

AuInit ==
    /\ auditLogs = <<>>
    /\ clock = 0
    /\ reader = NoReader
    /\ export = NoBundle
    /\ anchors = {}

-----------------------------------------------------------------------------
(* Mutant: the entry before is left out of the hash. *)
computeChainHash_NoPrev(e, prevHash) == <<e.seq, e.id, e.userId, e.timestamp>>

(* computeChainHash over canonicaliseEntry. *)
computeChainHash(e, prevHash) == <<prevHash, e.seq, e.id, e.userId, e.timestamp>>

LastHash == IF auditLogs = <<>> THEN GENESIS_SENTINEL ELSE auditLogs[Len(auditLogs)].chainHash
EntriesOf(log) == {log[i] : i \in DOMAIN log}

(* createAuditLog. *)
createAuditLog(actor, id) ==
    LET e == [seq |-> Len(auditLogs), id |-> id, userId |-> actor, timestamp |-> clock]
    IN  /\ Len(auditLogs) < MaxEntries
        /\ \A i \in DOMAIN auditLogs : auditLogs[i].id # id
        /\ auditLogs' = Append(auditLogs,
              [seq |-> e.seq, id |-> e.id, userId |-> e.userId, timestamp |-> e.timestamp,
               chainHash |-> computeChainHash(e, LastHash)])
        /\ UNCHANGED <<clock, reader, export, anchors>>

(* verifyChain: the entries in the order of seq, each hash recomputed from
   the stored hash before it; the first index that differs, or -1. *)
EarlierThan(entries, e) == {x \in entries : x.seq < e.seq}

prevHash(entries, e) ==
    LET earlier == EarlierThan(entries, e)
    IN  IF earlier = {} THEN GENESIS_SENTINEL
        ELSE (CHOOSE x \in earlier : \A y \in earlier : y.seq =< x.seq).chainHash

verifyChain(entries) ==
    LET broken == {e \in entries : e.chainHash # computeChainHash(e, prevHash(entries, e))}
    IN  IF broken = {} THEN -1
        ELSE Cardinality(EarlierThan(entries, CHOOSE e \in broken : \A x \in broken : e.seq =< x.seq))

(* anchorChainRoot, on its timer or flushed. *)
anchorChainRoot ==
    /\ auditLogs # <<>>
    /\ anchors' = anchors \cup {[root |-> LastHash, count |-> Len(auditLogs),
                                 valid |-> verifyChain(EntriesOf(auditLogs)) = -1]}
    /\ UNCHANGED <<auditLogs, clock, reader, export>>

-----------------------------------------------------------------------------
(* queryAuditLogs.  Newest first, ties by descending id. *)
NewerThan(a, b) == a.timestamp > b.timestamp \/ (a.timestamp = b.timestamp /\ a.id > b.id)
Matches(e, actor) == actor = "any" \/ e.userId = actor

(* Rows strictly after the cursor in that order. *)
PastCursor(e, cursor) ==
    \/ cursor = NoCursor
    \/ e.timestamp < cursor.ts
    \/ e.timestamp = cursor.ts /\ e.id < cursor.id

queriedRows(actor, cursor) ==
    {e \in EntriesOf(auditLogs) : Matches(e, actor) /\ PastCursor(e, cursor)}

(* The first PageLimit of the rows, and the last of these. *)
newerIn(found, e) == {x \in found : NewerThan(x, e)}
slice(found) == {e \in found : Cardinality(newerIn(found, e)) < PageLimit}
lastOf(found) == CHOOSE e \in slice(found) : Cardinality(newerIn(found, e)) = Cardinality(slice(found)) - 1

queryAuditLogs(actor, cursor) ==
    LET found == queriedRows(actor, cursor)
        last == lastOf(found)
        hasMore == Cardinality(found) > PageLimit
    IN  [data |-> slice(found),
         nextCursor |-> IF hasMore THEN [ts |-> last.timestamp, id |-> last.id] ELSE NoCursor]

(* GET /admin/audit-logs: the first page, then page after page.  inOrder is
   history: whether every page so far continued the ones before it. *)
ReadPage(actor, cursor, seen, due, inOrder) ==
    LET page == queryAuditLogs(actor, cursor)
    IN  reader' = [on |-> TRUE, actor |-> actor, due |-> due, cursor |-> page.nextCursor,
                   seen |-> seen \cup page.data,
                   inOrder |-> inOrder /\ \A x \in seen, y \in page.data : NewerThan(x, y)]

FirstPage(actor) ==
    /\ ~reader.on
    /\ ReadPage(actor, NoCursor, {}, {e \in EntriesOf(auditLogs) : Matches(e, actor)}, TRUE)
    /\ UNCHANGED <<auditLogs, clock, export, anchors>>

NextPage ==
    /\ reader.on /\ reader.cursor # NoCursor
    /\ ReadPage(reader.actor, reader.cursor, reader.seen, reader.due, reader.inOrder)
    /\ UNCHANGED <<auditLogs, clock, export, anchors>>

CloseReader ==
    /\ reader.on
    /\ reader' = NoReader
    /\ UNCHANGED <<auditLogs, clock, export, anchors>>

-----------------------------------------------------------------------------
(* generateSignedAuditExport: the records are taken first, then the signing
   key is loaded, and then the manifest is written about the records taken.
   A failure ends the job without an export. *)
ExportStarts ==
    /\ export.stage # "loading"
    /\ export' = [stage |-> "loading", records |-> EntriesOf(auditLogs)]
    /\ UNCHANGED <<auditLogs, clock, reader, anchors>>

ExportSigned ==
    /\ export.stage = "loading"
    /\ export' = [stage |-> "signed", records |-> export.records,
                  recordCount |-> Cardinality(export.records), logsFileSha256 |-> export.records]
    /\ UNCHANGED <<auditLogs, clock, reader, anchors>>

ExportFails ==
    /\ export.stage = "loading"
    /\ export' = NoBundle
    /\ UNCHANGED <<auditLogs, clock, reader, anchors>>

AuTick ==
    /\ clock < MaxTs
    /\ clock' = clock + 1
    /\ UNCHANGED <<auditLogs, reader, export, anchors>>

AuNext ==
    \/ \E a \in Actors, id \in AuditIds : createAuditLog(a, id)
    \/ anchorChainRoot
    \/ \E a \in Actors \cup {"any"} : FirstPage(a)
    \/ NextPage \/ CloseReader
    \/ ExportStarts \/ ExportSigned \/ ExportFails
    \/ AuTick

AuSpec == AuInit /\ [][AuNext]_auVars

-----------------------------------------------------------------------------
(* The log with entry i removed, and with entry i saying something else. *)
Without(i) == [j \in 1..(Len(auditLogs) - 1) |-> IF j < i THEN auditLogs[j] ELSE auditLogs[j + 1]]

Altered(i, id, actor, ts) ==
    [auditLogs EXCEPT ![i] = [seq |-> @.seq, id |-> id, userId |-> actor, timestamp |-> ts,
                              chainHash |-> @.chainHash]]

(* The chain shows what was done to the log: it verifies as it is and as an
   export (whatever was appended while the export waited for its key); when an
   entry is removed from inside, the check fails at the entry after it; when
   an entry's id, actor or time is changed, it fails there. *)
ChainShowsTampering ==
    /\ verifyChain(EntriesOf(auditLogs)) = -1
    /\ export.stage = "signed" =>
          verifyChain(export.records) = -1 /\ export.recordCount = Cardinality(export.logsFileSha256)
    /\ \A i \in 1..(Len(auditLogs) - 1) : verifyChain(EntriesOf(Without(i))) = i - 1
    /\ \A i \in DOMAIN auditLogs, id \in AuditIds, a \in Actors, ts \in 0..MaxTs :
          \/ <<id, a, ts>> = <<auditLogs[i].id, auditLogs[i].userId, auditLogs[i].timestamp>>
          \/ verifyChain(EntriesOf(Altered(i, id, a, ts))) = i - 1

(* Removing the newest entries leaves a valid chain, and the anchors show it:
   the root of an anchor is the hash of the entry it counted up to and of no
   other, so it is missing from a log that was cut before. *)
AnchorsShowTruncation ==
    \A a \in anchors :
        a.valid /\ a.count \in DOMAIN auditLogs
        /\ \A i \in DOMAIN auditLogs : auditLogs[i].chainHash = a.root <=> i = a.count

(* Walking the pages to the end returns every matching entry that existed when
   the walk began, once and newest first, although entries are appended in the
   meantime, some with the timestamp the cursor stands on. *)
PagesComplete ==
    reader.on => /\ reader.inOrder
                 /\ reader.cursor = NoCursor => reader.due \subseteq reader.seen

(* The log can be relied on: tampering shows, and reading it misses nothing. *)
AuditReliable == ChainShowsTampering /\ AnchorsShowTruncation /\ PagesComplete
=============================================================================
