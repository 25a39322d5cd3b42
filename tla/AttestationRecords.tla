------------------------- MODULE AttestationRecords -------------------------
(***************************************************************************)
(* The attestations table as src/repositories/attestationRepository.ts     *)
(* reads and writes it, the revocation route of src/routes/attestations.ts *)
(* and the admin batch revocation of                                       *)
(* src/services/attestation/revokeBatch.ts.                                *)
(*                                                                         *)
(* A request reads a row in one step and writes it in a later one: every   *)
(* await between them lets the others in.  A batch runs in a database      *)
(* transaction: the rows it has written are locked and show their old      *)
(* status to everybody else until COMMIT, while its audit entries and its  *)
(* Soroban transaction are not part of that transaction.                   *)
(***************************************************************************)
EXTENDS Naturals, Sequences, FiniteSets

CONSTANTS
    RecIds,         \* attestations; an id stands for one (business, period)
    RecRequests,    \* slots for single requests
    Batches,        \* admin batch revocations
    BatchIds,       \* the ids each of them names, in order
    NoBatch,        \* the row is not locked
    Signer,         \* SOROBAN_SOURCE_SECRET is set
    MaxVersion      \* bound: updates of one row

ASSUME RecordsAssumption ==
    /\ NoBatch \notin Batches
    /\ \A b \in Batches : BatchIds[b] \in Seq(RecIds)
    /\ MaxVersion \in Nat \ {0}

VARIABLES
    row,            \* the committed rows: status and version
    lock,           \* the batch that has an uncommitted update of the row
    chain,          \* what the contract holds: "none", "attested", "revoked"
    audited,        \* <<batch, id>>: REVOKE_ATTESTATION entries
    req,            \* the single requests under way
    batches         \* the batches

recVars == <<row, lock, chain, audited, req, batches>>

Statuses == {"pending", "submitted", "confirmed", "failed", "revoked"}
Absent == [status |-> "absent", version |-> 0]
Removed == [status |-> "removed", version |-> 0]   \* an id is not used again
FreeReq == [kind |-> "none", id |-> "none", seen |-> Absent]
NewBatch == [pc |-> "begin", done |-> 0, wrote |-> {}]

RecInit ==
    /\ row = [i \in RecIds |-> Absent]
    /\ lock = [i \in RecIds |-> NoBatch]
    /\ chain = [i \in RecIds |-> "none"]
    /\ audited = {}
    /\ req = [q \in RecRequests |-> FreeReq]
    /\ batches = [b \in Batches |-> NewBatch]

Exists(id) == row[id].status \in Statuses

-----------------------------------------------------------------------------
(* The statements of the repository.                                       *)

\* INSERT ... version 1; the unique (business, period) index refuses a second.
create(id, status) ==
    /\ row[id] = Absent
    /\ row' = [row EXCEPT ![id] = [status |-> status, version |-> 1]]

\* An UPDATE waits for the row lock of an open transaction.
Writable(id) == lock[id] = NoBatch /\ row[id].version < MaxVersion

Written(id, status) ==
    row' = [row EXCEPT ![id] = [status |-> status, version |-> @.version + 1]]

VersionMatches_Any(id, version) == TRUE
\* UPDATE ... WHERE id = $2 AND version = $3.
VersionMatches(id, version) == row[id].version = version

-----------------------------------------------------------------------------
(* Single requests.  Begin is the read that decides, Finish what follows   *)
(* the awaits.                                                             *)

Take(q, kind, id) ==
    /\ req[q] = FreeReq
    /\ req' = [req EXCEPT ![q] = [kind |-> kind, id |-> id, seen |-> row[id]]]

Finish(q) == req' = [req EXCEPT ![q] = FreeReq]

At(q, kind) == req[q].kind = kind

\* saveAttestation of a submission: one INSERT, refused as a duplicate when
\* the row is there.  The chain entry was written before it.
Save(id) ==
    /\ create(id, "submitted")
    /\ \E written \in BOOLEAN :
          chain' = [chain EXCEPT ![id] = IF written /\ @ = "none" THEN "attested" ELSE @]
    /\ UNCHANGED <<lock, audited, req, batches>>

\* createWithConflictCheck: look first, insert afterwards; the loser of a
\* race gets the duplicate error (or the row the winner wrote).
BeginCreate(q, id) ==
    /\ row[id] = Absent
    /\ Take(q, "create", id)
    /\ UNCHANGED <<row, lock, chain, audited, batches>>

FinishCreate(q) ==
    /\ At(q, "create")
    /\ IF row[req[q].id] = Absent THEN create(req[q].id, "pending") ELSE UNCHANGED row
    /\ Finish(q)
    /\ UNCHANGED <<lock, chain, audited, batches>>

\* handleRevoke: the row is read and must not be revoked yet ...
BeginRevoke(q, id) ==
    /\ Exists(id)
    /\ row[id].status # "revoked"
    /\ Take(q, "revoke", id)
    /\ UNCHANGED <<row, lock, chain, audited, batches>>

\* ... and is then updated whatever it has become, without a version.
FinishRevoke(q) ==
    /\ At(q, "revoke")
    /\ \/ ~ Exists(req[q].id) /\ UNCHANGED row
       \/ Exists(req[q].id) /\ Writable(req[q].id) /\ Written(req[q].id, "revoked")
    /\ Finish(q)
    /\ UNCHANGED <<lock, chain, audited, batches>>

\* A read with ReadConsistency.STRONG: the row is read and the chain asked.
BeginStrongRead(q, id) ==
    /\ Exists(id)
    /\ Take(q, "strong", id)
    /\ UNCHANGED <<row, lock, chain, audited, batches>>

\* verifyConsistency: found on chain and indexed as pending or submitted.
Lagging(seen) == seen.status \in {"pending", "submitted"}

\* The chain's answer arrives (or the call fails, and the row is returned as
\* it was read); the correction carries no version.
FinishStrongRead(q) ==
    LET id == req[q].id IN
    /\ At(q, "strong")
    /\ \/ UNCHANGED row
       \/ /\ chain[id] = "attested"
          /\ Lagging(req[q].seen)
          /\ Exists(id) /\ Writable(id)
          /\ Written(id, "confirmed")
    /\ Finish(q)
    /\ UNCHANGED <<lock, chain, audited, batches>>

\* A caller that reads a row and hands its version back to updateStatus or
\* update.
BeginEdit(q, id) ==
    /\ Exists(id)
    /\ Take(q, "edit", id)
    /\ UNCHANGED <<row, lock, chain, audited, batches>>

\* No row matches: null when it is gone, CONFLICT_TYPE_VERSION otherwise.
FinishEdit(q) ==
    LET id == req[q].id IN
    /\ At(q, "edit")
    /\ \/ ~ Exists(id) /\ UNCHANGED row
       \/ Exists(id) /\ ~ VersionMatches(id, req[q].seen.version) /\ UNCHANGED row
       \/ /\ Exists(id) /\ VersionMatches(id, req[q].seen.version)
          /\ Writable(id)
          /\ \E s \in {"failed", "confirmed"} : Written(id, s)
    /\ Finish(q)
    /\ UNCHANGED <<lock, chain, audited, batches>>

\* DELETE ... RETURNING id, which also waits for the lock.
remove(id) ==
    /\ Exists(id) /\ lock[id] = NoBatch
    /\ row' = [row EXCEPT ![id] = Removed]
    /\ UNCHANGED <<lock, chain, audited, req, batches>>

-----------------------------------------------------------------------------
(* revokeBatchAttestations: BEGIN; for every id a read, an update and an   *)
(* audit entry; the Soroban transaction; COMMIT, or ROLLBACK on any error. *)

NextId(b) == BatchIds[b][batches[b].done + 1]

\* Inside the transaction the batch's own update is visible to it.
SeenBy(b, id) == IF lock[id] = b THEN "revoked" ELSE row[id].status

\* db.connect().  PgClient has no such method (revokeBatch.ts:36), so with this
\* client every batch fails here; the rest is what follows once it has one.
StartBatch(b) ==
    /\ batches[b].pc = "begin"
    /\ \E pc \in {"read", "failed"} : batches' = [batches EXCEPT ![b].pc = pc]
    /\ UNCHANGED <<row, lock, chain, audited, req>>

Rollback(b) ==
    /\ lock' = [i \in RecIds |-> IF lock[i] = b THEN NoBatch ELSE lock[i]]
    /\ batches' = [batches EXCEPT ![b].pc = "failed"]
    /\ UNCHANGED <<row, chain, audited, req>>

\* getById: not found and already revoked both throw.
ReadRow(b) ==
    /\ batches[b].pc = "read"
    /\ batches[b].done < Len(BatchIds[b])
    /\ IF SeenBy(b, NextId(b)) \notin Statuses \ {"revoked"}
       THEN Rollback(b)
       ELSE /\ batches' = [batches EXCEPT ![b].pc = "update"]
            /\ UNCHANGED <<row, lock, chain, audited, req>>

\* updateStatus takes the row lock, once any other transaction has let it go,
\* and the audit entry is written at once.  A row deleted since the read
\* makes the update return null, which nobody looks at.
UpdateRow(b) ==
    LET id == NextId(b) IN
    /\ batches[b].pc = "update"
    /\ lock[id] = NoBatch
    /\ lock' = [lock EXCEPT ![id] = IF Exists(id) THEN b ELSE NoBatch]
    /\ audited' = audited \cup {<<b, id>>}
    /\ batches' = [batches EXCEPT ![b].pc = "read", ![b].done = @ + 1,
                              ![b].wrote = IF Exists(id) THEN @ \cup {id} ELSE @]
    /\ UNCHANGED <<row, chain, req>>

\* Two batches that wait for each other's rows: the database aborts one.  A
\* statement that fails for another reason ends the same way.
FailStatement(b) ==
    /\ batches[b].pc \in {"read", "update", "commit"}
    /\ Rollback(b)

\* All rows are written: send the transaction.  An error, or a status of
\* ERROR or TRY_AGAIN_LATER, throws before anything reaches the ledger.
Send(b) ==
    /\ batches[b].pc = "read"
    /\ batches[b].done = Len(BatchIds[b])
    /\ IF Signer
       THEN \/ batches' = [batches EXCEPT ![b].pc = "sent"] /\ UNCHANGED lock
            \/ Rollback(b)
       ELSE batches' = [batches EXCEPT ![b].pc = "commit"] /\ UNCHANGED lock
    /\ UNCHANGED <<row, chain, audited, req>>

\* The ledger applies the transaction as a whole.
RevokedOnChain(b) ==
    [i \in RecIds |-> IF i \in {BatchIds[b][k] : k \in 1..Len(BatchIds[b])} THEN "revoked" ELSE chain[i]]

\* waitForConfirmation: confirmed; failed on chain; or given up on, after
\* which the ledger may apply the transaction or not.
Confirm(b) ==
    /\ batches[b].pc = "sent"
    /\ chain' = RevokedOnChain(b)
    /\ batches' = [batches EXCEPT ![b].pc = "commit"]
    /\ UNCHANGED <<row, lock, audited, req>>

ConfirmFails(b) ==
    /\ batches[b].pc = "sent"
    /\ \E applied \in BOOLEAN : chain' = IF applied THEN RevokedOnChain(b) ELSE chain
    /\ lock' = [i \in RecIds |-> IF lock[i] = b THEN NoBatch ELSE lock[i]]
    /\ batches' = [batches EXCEPT ![b].pc = "failed"]
    /\ UNCHANGED <<row, audited, req>>

\* COMMIT publishes the updates and drops the locks.
Commit(b) ==
    /\ batches[b].pc = "commit"
    /\ row' = [i \in RecIds |->
                 IF lock[i] = b
                 THEN [status |-> "revoked",
                       version |-> IF row[i].version < MaxVersion THEN row[i].version + 1 ELSE MaxVersion]
                 ELSE row[i]]
    /\ lock' = [i \in RecIds |-> IF lock[i] = b THEN NoBatch ELSE lock[i]]
    /\ batches' = [batches EXCEPT ![b].pc = "ok"]
    /\ UNCHANGED <<chain, audited, req>>

RecNext ==
    \/ \E id \in RecIds : Save(id) \/ remove(id)
    \/ \E q \in RecRequests, id \in RecIds :
          \/ BeginCreate(q, id) \/ BeginRevoke(q, id)
          \/ BeginStrongRead(q, id) \/ BeginEdit(q, id)
    \/ \E q \in RecRequests :
          \/ FinishCreate(q) \/ FinishRevoke(q)
          \/ FinishStrongRead(q) \/ FinishEdit(q)
    \/ \E b \in Batches :
          \/ StartBatch(b) \/ ReadRow(b) \/ UpdateRow(b) \/ FailStatement(b)
          \/ Send(b) \/ Confirm(b) \/ ConfirmFails(b) \/ Commit(b)

RecSpec == RecInit /\ [][RecNext]_recVars

-----------------------------------------------------------------------------

\* A revoked attestation comes back to life only through a caller that was
\* shown the revoked row and says so by its version, or through a strong read
\* that fetched the row before it was revoked and corrects it afterwards
\* (updateStatus without a version, attestationRepository.ts:164).
RevocationSticks ==
    [][\A id \in RecIds :
          row[id].status = "revoked" /\ row'[id].status \in Statuses \ {"revoked"}
          => \E q \in RecRequests :
                /\ req[q].id = id
                /\ \/ req[q].kind = "strong" /\ req[q].seen.status \in {"pending", "submitted"}
                   \/ req[q].kind = "edit" /\ req[q].seen = row[id]]_recVars

\* A batch is all or nothing where the caller sees it: answered with success,
\* every id has its audit entry and, when the service signs, is revoked on the
\* ledger; and a row is locked only by a batch that is still open and has
\* written it (revokeBatch.ts:52-113).  After a failure only the audit entries
\* and a transaction whose confirmation was given up on may remain.
BatchAllOrNothing ==
    /\ \A b \in Batches : batches[b].pc = "ok" =>
          \A k \in 1..Len(BatchIds[b]) :
             /\ <<b, BatchIds[b][k]>> \in audited
             /\ Signer => chain[BatchIds[b][k]] = "revoked"
    /\ \A id \in RecIds : lock[id] # NoBatch =>
          /\ batches[lock[id]].pc \in {"read", "update", "sent", "commit"}
          /\ Exists(id)
          /\ id \in batches[lock[id]].wrote

\* Revocations hold, the single ones and those of a batch.
RevocationsHold == []BatchAllOrNothing /\ RevocationSticks
=============================================================================
