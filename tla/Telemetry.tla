----------------------------- MODULE Telemetry -----------------------------
(***************************************************************************)
(* The OpenTelemetry SDK of tracing.ts with gRPC mTLS credentials read     *)
(* from files: start, file watchers with a debounce timer, and a restart   *)
(* of the SDK when a file changes; and the span of an HTTP request.        *)
(*                                                                         *)
(* Only the versions of the files matter.  fs.watch reports a write of the *)
(* file as "change"; a file replaced by rename is reported as "rename",    *)
(* which the code ignores, and its watcher stays with the old file.        *)
(***************************************************************************)
EXTENDS Naturals, FiniteSets

CONSTANTS CredFiles,   \* the CA, certificate and key files
          Spans,       \* HTTP requests
          MaxFileVersion

VARIABLES files,       \* files[f]: version on disk
          loaded,      \* grpcMtlsCredentials
          unread,      \* files the load in progress has not read yet
          stage,       \* where initialize- or reinitializeOtelSdk is
          running,     \* sdkStarted
          watching,    \* files with a live watcher
          timer,       \* grpcMtlsDebounceTimer is set
          excused,     \* a change nobody watched, or a failed step, since the last load
          resource,    \* provider in the resource of the SDK
          span         \* span[r]: the events of the response so far, and how often the span ended

telVars == <<files, loaded, unread, stage, running, watching, timer, excused, resource, span>>

NewSpan == [state |-> "none", events |-> {}, ended |-> FALSE, ends |-> 0, finishes |-> 0]

TelInit ==
    /\ files = [f \in CredFiles |-> 0] /\ loaded = files
    /\ unread = CredFiles /\ stage = "load"
    /\ running = FALSE /\ watching = {} /\ timer = FALSE
    /\ excused = FALSE /\ resource = "unknown"
    /\ span = [r \in Spans |-> NewSpan]

-----------------------------------------------------------------------------
(* A credential file is written, or replaced by rename. *)
FileChanges(f, how) ==
    /\ files[f] < MaxFileVersion
    /\ files' = [files EXCEPT ![f] = @ + 1]
    /\ LET seen == f \in watching /\ how = "change" IN
       /\ timer' = (timer \/ seen)
       /\ excused' = (excused \/ (~seen /\ f \notin unread))
    /\ watching' = IF how = "rename" THEN watching \ {f} ELSE watching
    /\ UNCHANGED <<loaded, unread, stage, running, resource, span>>

(* The debounce timer: a restart, unless one is in progress. *)
TimerFires ==
    /\ timer
    /\ timer' = FALSE
    /\ stage' = IF stage = "idle" THEN "shutdown" ELSE stage
    /\ UNCHANGED <<files, loaded, unread, running, watching, excused, resource, span>>

(* Mutant: sdkStartPromise is kept, so initializeOpenTelemetry returns it. *)
SdkDown_KeepsPromise ==
    /\ stage = "shutdown"
    /\ running' = FALSE /\ watching' = {} /\ timer' = FALSE
    /\ stage' = "idle"
    /\ UNCHANGED <<files, loaded, unread, excused, resource, span>>

(* reinitializeOtelSdk after sdk.shutdown() (which a failed start left out):
   watchers and timer are dropped and everything is loaded again. *)
SdkDown ==
    /\ stage = "shutdown"
    /\ running' = FALSE /\ watching' = {} /\ timer' = FALSE
    /\ stage' = "load" /\ unread' = CredFiles
    /\ excused' = FALSE
    /\ UNCHANGED <<files, loaded, resource, span>>

(* sdk.shutdown() rejects: the restart is given up and nobody tries again. *)
SdkDownFails ==
    /\ stage = "shutdown"
    /\ stage' = "idle" /\ excused' = TRUE
    /\ UNCHANGED <<files, loaded, unread, running, watching, timer, resource, span>>

(* loadGrpcMtlsCredentials: the files are read concurrently. *)
ReadCredential(f) ==
    /\ stage = "load" /\ f \in unread
    /\ loaded' = [loaded EXCEPT ![f] = files[f]]
    /\ unread' = unread \ {f}
    /\ stage' = IF unread' = {} THEN "detect" ELSE "load"
    /\ UNCHANGED <<files, running, watching, timer, excused, resource, span>>

(* detectCloudResources: a detector that fails or is aborted adds nothing;
   the first one with an attribute wins. *)
detectCloudResources(found) ==
    IF "aws" \in found THEN "aws" ELSE IF "gcp" \in found THEN "gcp"
    ELSE IF "kubernetes" \in found THEN "kubernetes" ELSE "unknown"

DetectorsDone ==
    /\ stage = "detect"
    /\ \E found \in SUBSET {"aws", "gcp", "kubernetes"} : resource' = detectCloudResources(found)
    /\ stage' = "start"
    /\ UNCHANGED <<files, loaded, unread, running, watching, timer, excused, span>>

(* The SDK is built and started, then the files are watched; a watcher that
   cannot be opened is skipped. *)
StartSdk ==
    /\ stage = "start"
    /\ running' = TRUE
    /\ watching' \in SUBSET CredFiles
    /\ excused' = (excused \/ watching' # CredFiles)
    /\ stage' = "idle"
    /\ UNCHANGED <<files, loaded, unread, timer, resource, span>>

(* initializeOpenTelemetry's catch: nothing is left that would try again. *)
StartFails ==
    /\ stage \in {"load", "detect", "start"}
    /\ stage' = "idle" /\ unread' = {}
    /\ watching' = {} /\ timer' = FALSE /\ excused' = TRUE
    /\ UNCHANGED <<files, loaded, running, resource, span>>

-----------------------------------------------------------------------------
(* endSpan: only the first call ends the span. *)
Ended(s) == IF s.ended THEN s ELSE [s EXCEPT !.ended = TRUE, !.ends = @ + 1]

(* startHttpRequestSpan: next() throws or returns. *)
startHttpRequestSpan(r) ==
    /\ span[r].state = "none"
    /\ \E thrown \in BOOLEAN :
          span' = [span EXCEPT ![r] = [IF thrown THEN Ended(@) ELSE @ EXCEPT !.state = "open"]]
    /\ UNCHANGED <<files, loaded, unread, stage, running, watching, timer, excused, resource>>

(* The response emits "finish" when it has been sent and "close" when the
   connection is done with it, "close" alone when the client went away. *)
ResponseFinishes(r) ==
    /\ span[r].state = "open" /\ span[r].events = {}
    /\ LET s == Ended(span[r]) IN
       span' = [span EXCEPT ![r] = [s EXCEPT !.events = {"finish"}, !.finishes = s.finishes + 1]]
    /\ UNCHANGED <<files, loaded, unread, stage, running, watching, timer, excused, resource>>

ResponseCloses(r) ==
    /\ span[r].state = "open" /\ "close" \notin span[r].events
    /\ LET s == Ended(span[r]) IN
       span' = [span EXCEPT ![r] = [s EXCEPT !.events = s.events \cup {"close"}, !.state = "closed"]]
    /\ UNCHANGED <<files, loaded, unread, stage, running, watching, timer, excused, resource>>

TelNext ==
    \/ \E f \in CredFiles : ReadCredential(f) \/ \E how \in {"change", "rename"} : FileChanges(f, how)
    \/ TimerFires \/ SdkDown \/ SdkDownFails \/ DetectorsDone \/ StartSdk \/ StartFails
    \/ \E r \in Spans : startHttpRequestSpan(r) \/ ResponseFinishes(r) \/ ResponseCloses(r)

TelSpec == TelInit /\ [][TelNext]_telVars

-----------------------------------------------------------------------------
(* Between restarts the SDK runs with the credentials on disk, or a restart
   is due: changes that arrive while a restart is under way are not lost to
   its in-progress check or to the cleared timer.  Excused are the changes
   no watcher reports (a rename, or between a file's read and the watchers'
   start) and a step that failed, after which nothing retries.  And a span
   ends once, when its response has closed. *)
CredentialsCurrent ==
    /\ stage = "idle" /\ ~timer /\ ~excused => running /\ loaded = files
    /\ \A r \in Spans : span[r].state = "closed" => span[r].ends = 1 /\ span[r].finishes =< 1
=============================================================================
