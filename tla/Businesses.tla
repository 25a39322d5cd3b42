----------------------------- MODULE Businesses -----------------------------
(***************************************************************************)
(* Businesses: the create handler and the reminder job over the in-memory  *)
(* map of repositories/business.ts, and the keyset-paginated list over the *)
(* businesses table.                                                       *)
(*                                                                         *)
(* The map and the table are different stores: list and                    *)
(* resolveBusinessIdForUser read only the table, which this code never     *)
(* writes, so its rows come from outside.  The awaits of the map's         *)
(* operations are microtasks: a handler is one step.  created_at is in     *)
(* half milliseconds; a cursor keeps whole ones, as Date does.  The two    *)
(* stores share nothing, so a behaviour uses one of them (a bound).        *)
(***************************************************************************)
EXTENDS Integers, FiniteSets

CONSTANTS Owners,      \* users
          Rows,        \* ids of the table's rows, comparable numbers
          Names,       \* names, comparable numbers
          PageSizes,   \* limits a client asks for
          PeriodLength,\* ticks from one period boundary to the next
          MaxClock     \* bound

ASSUME BusinessesAssumption ==
    /\ Rows \subseteq Int /\ Names \subseteq Int
    /\ PageSizes \subseteq Nat \ {0}
    /\ PeriodLength \in Nat \ {0}

VARIABLES bizClock,
          business,    \* business[u]: the record of the map, or NoBusiness
          reminded,    \* reminded[u]: periods a reminder was sent in, and whether one was sent twice
          rows,        \* the table: id -> [created, name]
          walk         \* a client following nextCursor from the first page

bizVars == <<bizClock, business, reminded, rows, walk>>

NoBusiness == [exists |-> FALSE]
NotWalking == [state |-> "idle"]

BizInit ==
    /\ bizClock = 0
    /\ business = [u \in Owners |-> NoBusiness]
    /\ reminded = [u \in Owners |-> [periods |-> {}, twice |-> FALSE]]
    /\ rows = <<>>
    /\ walk = NotWalking

-----------------------------------------------------------------------------
(* The repository: period and zone take their defaults, monthly and UTC. *)
newBusiness == [exists |-> TRUE, created |-> bizClock, sentAt |-> 0 - 1]
getByUserId(u) == business[u]

(* POST /businesses: 409 when the user has one (bound: while the table is
   empty; the two share no state). *)
createBusiness(u) ==
    /\ ~getByUserId(u).exists /\ rows = <<>>
    /\ business' = [business EXCEPT ![u] = newBusiness]
    /\ UNCHANGED <<bizClock, reminded, rows, walk>>

(* nextPeriodBoundary of the last reminder, or of the creation. *)
nextPeriodBoundary(reference) == (reference \div PeriodLength + 1) * PeriodLength
shouldSendReminder(b) ==
    bizClock >= nextPeriodBoundary(IF b.sentAt >= 0 THEN b.sentAt ELSE b.created)

(* One run of the job: every business that is due. *)
attestationReminderJob ==
    LET due == {u \in Owners : business[u].exists /\ shouldSendReminder(business[u])}
        period == bizClock \div PeriodLength
    IN /\ due # {}
       /\ business' = [u \in Owners |-> IF u \in due THEN [business[u] EXCEPT !.sentAt = bizClock]
                                        ELSE business[u]]
       /\ reminded' = [u \in Owners |->
             IF u \in due THEN [periods |-> reminded[u].periods \cup {period},
                                twice |-> reminded[u].twice \/ period \in reminded[u].periods]
             ELSE reminded[u]]
       /\ UNCHANGED <<bizClock, rows, walk>>

ClockTick ==
    /\ bizClock < MaxClock
    /\ bizClock' = bizClock + 1
    /\ UNCHANGED <<business, reminded, rows, walk>>

(* A restart empties the map, not the table. *)
RestartBusinesses ==
    /\ \E u \in Owners : business[u].exists
    /\ business' = [u \in Owners |-> NoBusiness]
    /\ reminded' = [u \in Owners |-> [periods |-> {}, twice |-> FALSE]]
    /\ UNCHANGED <<bizClock, rows, walk>>

-----------------------------------------------------------------------------
(* The table is written from outside (bounds: until the walk is done, and
   renamed only during it while no row is excused yet). *)
InsertRow(r, name) ==
    /\ r \notin DOMAIN rows /\ walk.state # "done" /\ business = [u \in Owners |-> NoBusiness]
    /\ rows' = [x \in DOMAIN rows \cup {r} |-> IF x = r THEN [created |-> bizClock, name |-> name] ELSE rows[x]]
    /\ UNCHANGED <<bizClock, business, reminded, walk>>

RenameRow(r, name) ==
    /\ r \in DOMAIN rows /\ rows[r].name # name /\ walk.state = "walking" /\ walk.excused = {}
    /\ rows' = [rows EXCEPT ![r].name = name]
    /\ walk' = [walk EXCEPT !.excused = @ \cup {r}]
    /\ UNCHANGED <<bizClock, business, reminded>>

(* The sort key of a row, and what toIso leaves of it in a cursor. *)
KeyOf(r) == IF walk.sortBy = "name" THEN rows[r].name ELSE rows[r].created
Truncated(key) == IF walk.sortBy = "name" THEN key ELSE 2 * (key \div 2)

Precedes(k1, r1, k2, r2) ==
    IF walk.order = "asc" THEN k1 < k2 \/ (k1 = k2 /\ r1 < r2)
    ELSE k1 > k2 \/ (k1 = k2 /\ r1 > r2)

(* Mutant: the cursor's id is not compared. *)
AfterCursor_ValueOnly(r) ==
    walk.cursor # <<>> =>
        IF walk.order = "asc" THEN KeyOf(r) > walk.cursor[1] ELSE KeyOf(r) < walk.cursor[1]

(* (sortColumn, id) > or < (value, id) of the cursor. *)
AfterCursor(r) == walk.cursor # <<>> => Precedes(walk.cursor[1], walk.cursor[2], KeyOf(r), r)

StartWalk(sortBy, order, limit) ==
    /\ walk.state = "idle"
    /\ walk' = [state |-> "walking", sortBy |-> sortBy, order |-> order, limit |-> limit, cursor |-> <<>>,
                seen |-> [r \in DOMAIN rows |-> 0], excused |-> {}]
    /\ UNCHANGED <<bizClock, business, reminded, rows>>

(* The rows after the cursor, and those of them a page shows before row r. *)
matchingRows == {r \in DOMAIN rows : AfterCursor(r)}
rowsBefore(r) == {x \in matchingRows : Precedes(KeyOf(x), x, KeyOf(r), r)}

(* The first limit rows, and the last of these. *)
pageRows == {r \in matchingRows : Cardinality(rowsBefore(r)) < walk.limit}
lastRow == CHOOSE r \in pageRows : Cardinality(rowsBefore(r)) = Cardinality(pageRows) - 1

(* Rows that the cursor of a page ending on `last` cannot tell from it. *)
cutBy(last) == {r \in DOMAIN rows : KeyOf(last) # Truncated(KeyOf(last))
                                   /\ Truncated(KeyOf(r)) = Truncated(KeyOf(last))}

(* list: limit + 1 rows are fetched to learn whether there are more. *)
list ==
    LET more == Cardinality(matchingRows) > walk.limit
        seen == [r \in DOMAIN walk.seen |->
                    IF r \notin pageRows THEN walk.seen[r] ELSE IF walk.seen[r] = 0 THEN 1 ELSE 2]
    IN /\ walk.state = "walking"
       /\ walk' = [walk EXCEPT !.seen = seen,
                               !.state = IF more THEN "walking" ELSE "done",
                               !.cursor = IF more THEN <<Truncated(KeyOf(lastRow)), lastRow>> ELSE @,
                               !.excused = IF more THEN @ \cup cutBy(lastRow) ELSE @]
       /\ UNCHANGED <<bizClock, business, reminded, rows>>

BizNext ==
    \/ \E u \in Owners : createBusiness(u)
    \/ attestationReminderJob \/ ClockTick \/ RestartBusinesses
    \/ \E r \in Rows, n \in Names : InsertRow(r, n) \/ RenameRow(r, n)
    \/ \E s \in {"createdAt", "name"}, o \in {"asc", "desc"}, l \in PageSizes : StartWalk(s, o, l)
    \/ list

BizSpec == BizInit /\ [][BizNext]_bizVars

-----------------------------------------------------------------------------
(* A client that follows nextCursor to the end has met every row of the start
   exactly once, though rows are inserted while it walks.  Excused are the
   rows renamed meanwhile, and those created within the same millisecond as a
   row a page ended on: the cursor drops the microseconds of created_at, so
   such rows are skipped (desc) or repeated (asc).  And no business is
   reminded twice in one period, however often the job runs. *)
WalkMeetsEveryRow ==
    /\ walk.state = "done" => \A r \in DOMAIN walk.seen \ walk.excused : walk.seen[r] = 1
    /\ \A u \in Owners : ~reminded[u].twice
=============================================================================
