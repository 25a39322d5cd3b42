----------------------------- MODULE DataExport -----------------------------
(***************************************************************************)
(* The GDPR data export of routes/users.ts: POST /me/export starts a job   *)
(* that nobody waits for (services/user/dataExportService.ts), the status  *)
(* route mints a download token once the job is done, and the download     *)
(* route consumes it (repositories/dataExportRepository.ts).               *)
(*                                                                         *)
(* All state is in Redis; every command is a step of its own and may fail, *)
(* with or without having taken effect.  The process may stop at any time, *)
(* and then nothing resumes a job.                                         *)
(***************************************************************************)
EXTENDS Naturals

CONSTANTS Exports,     \* ids createDataExport may draw
          ExportTokens,      \* tokens createDownloadToken may draw
          Downloads,   \* requests of GET /me/export/:token
          NoExport, NoToken

VARIABLES record,      \* record[e]: the status under data-export:e, or "absent"
          archive,     \* archive[e]: "none", "stored" or "expired"
          dlToken,       \* dlToken[t]: what is under data-export-token:t
          job,         \* job[e]: where processExportAsync is
          dl,          \* dl[d]: where the download is
          spent        \* tokens with which an archive has been sent

exVars == <<record, archive, dlToken, job, dl, spent>>

NoTokenKey == [export |-> NoExport, used |-> FALSE]
NewDownload == [pc |-> "idle", token |-> NoToken, export |-> NoExport, late |-> FALSE]

ExInit ==
    /\ record = [e \in Exports |-> "absent"]
    /\ archive = [e \in Exports |-> "none"]
    /\ dlToken = [t \in ExportTokens |-> NoTokenKey]
    /\ job = [e \in Exports |-> "idle"]
    /\ dl = [d \in Downloads |-> NewDownload]
    /\ spent = {}

-----------------------------------------------------------------------------
(* initiateDataExport: the record is written, then the job is started. *)
initiateDataExport(e) ==
    /\ job[e] = "idle"
    /\ \/ record' = [record EXCEPT ![e] = "pending"] /\ job' = [job EXCEPT ![e] = "markGet"]
       \/ record' \in {record, [record EXCEPT ![e] = "pending"]} /\ job' = [job EXCEPT ![e] = "ended"]
    /\ UNCHANGED <<archive, dlToken, dl, spent>>

(* updateDataExportStatus reads the record and, if it is still there, writes
   it back with the new status; the three uses of the job. *)
Gets == {"markGet", "doneGet", "failGet"}
Sets == {"markSet", "doneSet", "failSet"}
SetAfter(pc) == CASE pc = "markGet" -> "markSet" [] pc = "doneGet" -> "doneSet" [] OTHER -> "failSet"
StatusOf(pc) == CASE pc = "markSet" -> "processing" [] pc = "doneSet" -> "completed" [] OTHER -> "failed"

(* The order of processExportAsync. *)
After(pc) ==
    CASE pc \in {"markGet", "markSet"} -> "build"
      [] pc = "build" -> "store"
      [] pc = "store" -> "doneGet"
      [] OTHER -> "ended"

UpdateGet(e) ==
    /\ job[e] \in Gets
    /\ job' = [job EXCEPT ![e] = IF record[e] = "absent" THEN After(@) ELSE SetAfter(@)]
    /\ UNCHANGED <<record, archive, dlToken, dl, spent>>

UpdateSet(e) ==
    /\ job[e] \in Sets
    /\ record' = [record EXCEPT ![e] = StatusOf(job[e])]
    /\ job' = [job EXCEPT ![e] = After(@)]
    /\ UNCHANGED <<archive, dlToken, dl, spent>>

(* createGdprExport: collected, compressed, encrypted and signed. *)
createGdprExport(e) ==
    /\ job[e] = "build"
    /\ job' = [job EXCEPT ![e] = After(@)]
    /\ UNCHANGED <<record, archive, dlToken, dl, spent>>

StoreArchive(e) ==
    /\ job[e] = "store"
    /\ archive' = [archive EXCEPT ![e] = "stored"]
    /\ job' = [job EXCEPT ![e] = After(@)]
    /\ UNCHANGED <<record, dlToken, dl, spent>>

(* A step of the job throws, its write done or not: the catch marks the
   export failed; a throw in the catch is only logged. *)
StepThrows(e) ==
    /\ job[e] \notin {"idle", "ended"}
    /\ job' = [job EXCEPT ![e] = IF @ \in {"failGet", "failSet"} THEN "ended" ELSE "failGet"]
    /\ \/ UNCHANGED <<record, archive>>
       \/ job[e] \in Sets /\ record' = [record EXCEPT ![e] = StatusOf(job[e])] /\ UNCHANGED archive
       \/ job[e] = "store" /\ archive' = [archive EXCEPT ![e] = "stored"] /\ UNCHANGED record
    /\ UNCHANGED <<dlToken, dl, spent>>

-----------------------------------------------------------------------------
Unissued(t) == dlToken[t] = NoTokenKey /\ t \notin spent /\ \A d \in Downloads : dl[d].token # t
createDownloadToken(e) ==
    \E t \in ExportTokens : Unissued(t) /\ dlToken' = [dlToken EXCEPT ![t] = [export |-> e, used |-> FALSE]]

(* GET /me/export/:exportId/status: every call on a finished export mints a
   new token. *)
getExportStatus(e) ==
    /\ record[e] = "completed"
    /\ createDownloadToken(e)
    /\ UNCHANGED <<record, archive, job, dl, spent>>

(* GET /me/export/:token, one step per Redis command. *)
Moved(d, pc) == [dl EXCEPT ![d].pc = pc]

BeginDownload(d, t) ==
    /\ dl[d].pc = "idle" /\ (dlToken[t] # NoTokenKey \/ t \in spent)
    /\ dl' = [dl EXCEPT ![d] = [NewDownload EXCEPT !.pc = "read", !.token = t, !.late = t \in spent]]
    /\ UNCHANGED <<record, archive, dlToken, job, spent>>

(* consumeDownloadToken, the read: 410 for an absent or used token. *)
ConsumeRead(d) ==
    LET entry == dlToken[dl[d].token] IN
    /\ dl[d].pc = "read"
    /\ dl' = [dl EXCEPT ![d].pc = IF entry = NoTokenKey \/ entry.used THEN "refused" ELSE "mark",
                        ![d].export = entry.export]
    /\ UNCHANGED <<record, archive, dlToken, job, spent>>

(* Mutant: a mark that cannot be written does not stop the download. *)
ConsumeMark_BestEffort(d) ==
    /\ dl[d].pc = "mark"
    /\ \/ dlToken' = [dlToken EXCEPT ![dl[d].token] = [export |-> dl[d].export, used |-> TRUE]]
       \/ UNCHANGED dlToken
    /\ dl' = Moved(d, "status")
    /\ UNCHANGED <<record, archive, job, spent>>

(* consumeDownloadToken, the write: by SET, which drops the key's expiry. *)
ConsumeMark(d) ==
    /\ dl[d].pc = "mark"
    /\ dlToken' = [dlToken EXCEPT ![dl[d].token] = [export |-> dl[d].export, used |-> TRUE]]
    /\ dl' = Moved(d, "status")
    /\ UNCHANGED <<record, archive, job, spent>>

(* The export's status; for a completed one this also writes a token that
   nobody gets to see and that is left out.  404 and 202 end the request with
   its token used up. *)
ReadStatus(d) ==
    /\ dl[d].pc = "status"
    /\ dl' = Moved(d, IF record[dl[d].export] = "completed" THEN "archive" ELSE "refused")
    /\ UNCHANGED <<record, archive, dlToken, job, spent>>

SendArchive(d) ==
    /\ dl[d].pc = "archive"
    /\ LET found == archive[dl[d].export] = "stored" IN
       /\ dl' = Moved(d, IF found THEN "sent" ELSE "refused")
       /\ spent' = IF found THEN spent \cup {dl[d].token} ELSE spent
    /\ UNCHANGED <<record, archive, dlToken, job>>

(* 500: a command failed, the mark written or not. *)
DownloadFails(d) ==
    /\ dl[d].pc \in {"read", "mark", "status", "archive"}
    /\ dl' = Moved(d, "refused")
    /\ \/ UNCHANGED dlToken
       \/ dl[d].pc = "mark" /\ dlToken' = [dlToken EXCEPT ![dl[d].token] = [export |-> dl[d].export, used |-> TRUE]]
    /\ UNCHANGED <<record, archive, job, spent>>

-----------------------------------------------------------------------------
(* Redis drops what has a TTL: a used token no longer has one. *)
ExpireRecord(e) ==
    /\ record[e] # "absent"
    /\ record' = [record EXCEPT ![e] = "absent"]
    /\ UNCHANGED <<archive, dlToken, job, dl, spent>>

ExpireArchive(e) ==
    /\ archive[e] = "stored"
    /\ archive' = [archive EXCEPT ![e] = "expired"]
    /\ UNCHANGED <<record, dlToken, job, dl, spent>>

ExpireToken(t) ==
    /\ dlToken[t] # NoTokenKey /\ ~dlToken[t].used
    /\ dlToken' = [dlToken EXCEPT ![t] = NoTokenKey]
    /\ UNCHANGED <<record, archive, job, dl, spent>>

(* The process stops: jobs and requests are gone, Redis is not. *)
ProcessStops ==
    /\ \E e \in Exports : job[e] \notin {"idle", "ended"}
    /\ job' = [e \in Exports |-> IF job[e] = "idle" THEN "idle" ELSE "ended"]
    /\ dl' = [d \in Downloads |-> IF dl[d].pc \in {"idle", "sent"} THEN dl[d] ELSE [dl[d] EXCEPT !.pc = "refused"]]
    /\ UNCHANGED <<record, archive, dlToken, spent>>

ExNext ==
    \/ \E e \in Exports :
          \/ initiateDataExport(e) \/ UpdateGet(e) \/ UpdateSet(e) \/ createGdprExport(e)
          \/ StoreArchive(e) \/ StepThrows(e) \/ getExportStatus(e)
          \/ ExpireRecord(e) \/ ExpireArchive(e)
    \/ \E d \in Downloads :
          \/ \E t \in ExportTokens : BeginDownload(d, t)
          \/ ConsumeRead(d) \/ ConsumeMark(d) \/ ReadStatus(d) \/ SendArchive(d) \/ DownloadFails(d)
    \/ \E t \in ExportTokens : ExpireToken(t)
    \/ ProcessStops

ExSpec == ExInit /\ [][ExNext]_exVars

-----------------------------------------------------------------------------
(* What the user is told holds through failed commands, expiries and a stop
   of the process: an export reported completed has had its archive stored,
   and a download that begins after its token has already delivered an
   archive delivers nothing (two that overlap may both: the token is read and
   marked in two commands). *)
ExportsHonest ==
    /\ \A e \in Exports : record[e] = "completed" => archive[e] # "none"
    /\ \A d \in Downloads : dl[d].late => dl[d].pc # "sent"
=============================================================================
