---------------------------- MODULE ProcessProofs ----------------------------
(***************************************************************************)
(* TLAPS proofs about the process itself: its shutdown, its health probes, *)
(* its telemetry, the submissions it repeats when it starts, and what it   *)
(* keeps for its requests: the answers of the idempotency middleware and   *)
(* the counters of the signup and request limiters.                        *)
(***************************************************************************)
EXTENDS Shutdown, Telemetry, Health, Idempotency, Signup, RateLimiter, SubmissionReplay,
        FiniteSetTheorems, SequenceTheorems, WellFoundedInduction, TLAPS

(***************************************************************************)
(* Shutdown, for any set of connections and any number of signals: it      *)
(* keeps its order.                                                        *)
(***************************************************************************)

\* Nobody connects before the server listens, and nothing listens once a shutdown has
\* begun or the process is gone.
ListensInTime ==
  /\ listening => boot # "loading" /\ phase = "none" /\ exit = "no"
  /\ boot = "loading" => \A c \in Conns : conn[c] = "none"

\* Connections are cut by an exit only, and an exit leaves none open.
CutByExit ==
  /\ exit = "no" => \A c \in Conns : conn[c] # "cut"
  /\ exit # "no" => \A c \in Conns : conn[c] # "open"

\* How far the pool is at each phase, and what has been stopped by then; only a shutdown
\* that ran to the end exits with 0.
PhasesInOrder ==
  /\ phase \in {"none", "closing", "failed"} => pool = "open"
  /\ phase = "pool" => pool = "ending"
  /\ phase \in {"cleanup", "finished"} => pool \in {"ended", "broken"}
  /\ phase \in {"pool", "cleanup", "finished"} => \A c \in Conns : conn[c] # "open"
  /\ phase = "finished" => ~consumer
  /\ boot # "registered" => phase = "none"

ExitsInOrder ==
  /\ exit = "clean" => phase = "finished"
  /\ exit = "default" => boot # "registered"

ShutdownInv ==
  /\ TypeOK /\ ListensInTime /\ CutByExit /\ PhasesInOrder /\ ExitsInOrder
  /\ CleanExitDrained /\ CutOnlyInBootWindow

LEMMA ShutdownStarts == Init => ShutdownInv
<1> SUFFICES ASSUME Init PROVE ShutdownInv
  OBVIOUS
<1>1. signals \in 0..MaxSignals
  BY ShutdownAssumption DEF Init
<1>2. TypeOK
  BY <1>1 DEF Init, TypeOK
<1> QED BY <1>2 DEF Init, ShutdownInv, ListensInTime, CutByExit, PhasesInOrder, ExitsInOrder,
           CleanExitDrained, CutOnlyInBootWindow

\* What an exit does to the connections: it cuts the open ones and no other.
LEMMA ExitCuts ==
  ASSUME TypeOK, conn' = [c \in Conns |-> IF conn[c] = "open" THEN "cut" ELSE conn[c]]
  PROVE  /\ conn' \in [Conns -> {"none", "open", "ended", "cut"}]
         /\ \A c \in Conns : conn'[c] # "open" /\ (conn'[c] = "cut" <=> conn[c] \in {"open", "cut"})
  BY DEF TypeOK

LEMMA ShutdownStep == ShutdownInv /\ [Next]_vars => ShutdownInv'
<1> SUFFICES ASSUME ShutdownInv, [Next]_vars PROVE ShutdownInv'
  OBVIOUS
<1> USE DEF ShutdownInv, TypeOK, ListensInTime, CutByExit, PhasesInOrder, ExitsInOrder,
            CleanExitDrained, CutOnlyInBootWindow
<1>1. CASE ServerStarts
  BY <1>1, ShutdownAssumption DEF ServerStarts, Running
<1>2. CASE ConsumerStarts
  BY <1>2 DEF ConsumerStarts, Running
<1>3. CASE BootFails
  BY <1>3, ExitCuts DEF BootFails, Exit, Running
<1>4. ASSUME NEW c \in Conns, Connect(c) PROVE ShutdownInv'
  BY <1>4 DEF Connect, Running
<1>5. ASSUME NEW c \in Conns, ConnEnds(c) PROVE ShutdownInv'
  BY <1>5 DEF ConnEnds, Running
<1>6. CASE SignalUnhandled
  <2>1. signals' \in 0..MaxSignals
    BY <1>6, ShutdownAssumption DEF SignalUnhandled
  <2> QED BY <1>6, <2>1, ExitCuts DEF SignalUnhandled, Exit, Running
<1>7. CASE FirstSignal
  <2>1. signals' \in 0..MaxSignals
    BY <1>7, ShutdownAssumption DEF FirstSignal
  <2> QED BY <1>7, <2>1 DEF FirstSignal, Running
<1>8. CASE RepeatedSignal
  <2>1. signals' \in 0..MaxSignals
    BY <1>8, ShutdownAssumption DEF RepeatedSignal
  <2> QED BY <1>8, <2>1, ExitCuts DEF RepeatedSignal, Exit, Running
<1>9. CASE DeadlineFires
  BY <1>9, ExitCuts DEF DeadlineFires, Exit, Running
<1>10. CASE ServerClosed
  BY <1>10 DEF ServerClosed, Running, Busy
<1>11. CASE ServerCloseFails
  BY <1>11 DEF ServerCloseFails, Running
<1>12. CASE PoolSettles
  BY <1>12 DEF PoolSettles, Running
<1>13. CASE CleanupSettles
  BY <1>13 DEF CleanupSettles, Running
<1>14. CASE ShutdownSettles
  BY <1>14, ExitCuts DEF ShutdownSettles, Exit, Running
<1>15. CASE UNCHANGED vars
  BY <1>15 DEF vars
<1> QED BY <1>1, <1>2, <1>3, <1>4, <1>5, <1>6, <1>7, <1>8, <1>9, <1>10, <1>11, <1>12, <1>13,
           <1>14, <1>15 DEF Next

\* Shutdown is orderly for any set of connections, any number of signals, with and without
\* the Kafka consumer: exit code 0 is given only when every connection has ended by itself,
\* the pool's end was awaited and the services were stopped; the pool outlives the
\* connections; and only the boot window lets a signal cut a request (shutdown.ts).
THEOREM ShutdownIsOrderly == Spec => OrderlyExit
<1>1. ShutdownInv => CleanExitDrained /\ PoolOutlivesConnections /\ CutOnlyInBootWindow
  BY DEF ShutdownInv, TypeOK, PhasesInOrder, PoolOutlivesConnections, Busy
<1>2. ShutdownInv /\ [Next]_vars => [exit' = "clean" /\ exit = "no" => ~consumer]_vars
  <2> SUFFICES ASSUME ShutdownInv, [Next]_vars, exit' = "clean", exit = "no" PROVE ~consumer
    OBVIOUS
  <2>1. ShutdownSettles
    BY DEF Next, vars, ServerStarts, ConsumerStarts, BootFails, Connect, ConnEnds, SignalUnhandled,
       FirstSignal, RepeatedSignal, DeadlineFires, ServerClosed, ServerCloseFails, PoolSettles,
       CleanupSettles, Exit
  <2> QED BY <2>1 DEF ShutdownSettles, Exit, ShutdownInv, PhasesInOrder
<1> QED BY <1>1, <1>2, ShutdownStarts, ShutdownStep, PTL DEF Spec, OrderlyExit

(***************************************************************************)
(* Telemetry, for any set of credential files and spans: the credentials   *)
(* in use are current, and a span ends once.                               *)
(***************************************************************************)

TelTypes ==
  /\ files \in [CredFiles -> Nat] /\ loaded \in [CredFiles -> Nat]
  /\ unread \subseteq CredFiles /\ watching \subseteq CredFiles
  /\ stage \in {"idle", "shutdown", "load", "detect", "start"}
  /\ DOMAIN span = Spans

\* While the SDK is being built nothing is watched and no timer runs, so that no change
\* can set the timer and have it fire into the in-progress check.
QuietWhileStarting ==
  stage \in {"load", "detect", "start"} => watching = {} /\ ~timer

\* A file is unread only while the files are being loaded.
LoadReadsAll == stage # "load" => unread = {}

\* A file that was read and has changed since has a timer set, is excused, or meets a
\* restart that will read it again.
ChangesNoticed ==
  stage # "shutdown" =>
    \A f \in CredFiles : loaded[f] # files[f] => f \in unread \/ timer \/ excused

StartedOrExcused == stage = "idle" => running \/ excused

\* The events and the count of ends of one span agree.
SpanOk(s) ==
  /\ DOMAIN s = {"state", "events", "ended", "ends", "finishes"}
  /\ s.ends = (IF s.ended THEN 1 ELSE 0)
  /\ s.finishes = (IF s.events = {} \/ s.events = {"close"} THEN 0 ELSE 1)
  /\ s.events \subseteq {"finish", "close"}
  /\ s.state = "closed" => s.ended
  /\ s.state # "open" => s.events = {} \/ "close" \in s.events

TelInv ==
  /\ TelTypes /\ QuietWhileStarting /\ LoadReadsAll /\ ChangesNoticed /\ StartedOrExcused
  /\ \A r \in Spans : SpanOk(span[r])

LEMMA TelStarts == TelInit => TelInv
<1> SUFFICES ASSUME TelInit PROVE TelInv
  OBVIOUS
<1>1. SpanOk(NewSpan)
  BY DEF NewSpan, SpanOk
<1>2. \A r \in Spans : SpanOk(span[r])
  BY <1>1 DEF TelInit
<1>3. TelTypes /\ QuietWhileStarting /\ LoadReadsAll /\ ChangesNoticed /\ StartedOrExcused
  BY DEF TelInit, TelTypes, QuietWhileStarting, LoadReadsAll, ChangesNoticed, StartedOrExcused
<1> QED BY <1>2, <1>3 DEF TelInv

\* endSpan ends a span that has not ended, and leaves one that has.
LEMMA EndedOnce ==
  ASSUME NEW s, SpanOk(s), s.state # "closed"
  PROVE  /\ SpanOk(Ended(s)) /\ Ended(s).ended
         /\ Ended(s).state = s.state /\ Ended(s).events = s.events
         /\ Ended(s).finishes = s.finishes
  BY DEF SpanOk, Ended

LEMMA TelStep == TelInv /\ [TelNext]_telVars => TelInv'
<1> SUFFICES ASSUME TelInv, [TelNext]_telVars PROVE TelInv'
  OBVIOUS
<1> DEFINE Files == QuietWhileStarting /\ LoadReadsAll /\ ChangesNoticed /\ StartedOrExcused
<1>0. TelTypes /\ Files /\ \A r \in Spans : SpanOk(span[r])
  BY DEF TelInv
<1>1. ASSUME NEW f \in CredFiles, ReadCredential(f) PROVE TelInv'
  <2>1. TelTypes' /\ QuietWhileStarting' /\ LoadReadsAll' /\ StartedOrExcused'
    BY <1>0, <1>1 DEF ReadCredential, TelTypes, QuietWhileStarting, LoadReadsAll, StartedOrExcused
  <2>2. ChangesNoticed'
    BY <1>0, <1>1 DEF ReadCredential, TelTypes, ChangesNoticed
  <2> QED BY <1>0, <1>1, <2>1, <2>2 DEF TelInv, ReadCredential
<1>2. ASSUME NEW f \in CredFiles, NEW how \in {"change", "rename"}, FileChanges(f, how) PROVE TelInv'
  <2>1. TelTypes' /\ QuietWhileStarting' /\ LoadReadsAll' /\ StartedOrExcused'
    <3>1. TelTypes' /\ LoadReadsAll'
      BY <1>0, <1>2 DEF FileChanges, TelTypes, LoadReadsAll
    <3>2. QuietWhileStarting'
      <4> SUFFICES ASSUME stage' \in {"load", "detect", "start"} PROVE watching' = {} /\ ~timer'
        BY DEF QuietWhileStarting
      <4>1. watching = {} /\ ~timer
        BY <1>0, <1>2 DEF FileChanges, QuietWhileStarting
      <4>2. watching' = {}
        BY <1>2, <4>1 DEF FileChanges
      <4>3. ~timer'
        BY <1>2, <4>1 DEF FileChanges
      <4> QED BY <4>2, <4>3
    <3>3. StartedOrExcused'
      BY <1>0, <1>2 DEF FileChanges, StartedOrExcused
    <3> QED BY <3>1, <3>2, <3>3
  <2>2. ChangesNoticed'
    BY <1>0, <1>2 DEF FileChanges, TelTypes, ChangesNoticed
  <2> QED BY <1>0, <1>2, <2>1, <2>2 DEF TelInv, FileChanges
<1>3. CASE TimerFires
  <2>1. TelTypes' /\ Files'
    BY <1>0, <1>3 DEF TimerFires, TelTypes, QuietWhileStarting, LoadReadsAll, ChangesNoticed,
       StartedOrExcused
  <2> QED BY <1>0, <1>3, <2>1 DEF TelInv, TimerFires
<1>4. CASE SdkDown
  <2>1. TelTypes' /\ Files'
    BY <1>0, <1>4 DEF SdkDown, TelTypes, QuietWhileStarting, LoadReadsAll, ChangesNoticed,
       StartedOrExcused
  <2> QED BY <1>0, <1>4, <2>1 DEF TelInv, SdkDown
<1>5. CASE SdkDownFails
  <2>1. TelTypes' /\ Files'
    BY <1>0, <1>5 DEF SdkDownFails, TelTypes, QuietWhileStarting, LoadReadsAll, ChangesNoticed,
       StartedOrExcused
  <2> QED BY <1>0, <1>5, <2>1 DEF TelInv, SdkDownFails
<1>6. CASE DetectorsDone
  <2>1. TelTypes' /\ Files'
    BY <1>0, <1>6 DEF DetectorsDone, TelTypes, QuietWhileStarting, LoadReadsAll, ChangesNoticed,
       StartedOrExcused
  <2> QED BY <1>0, <1>6, <2>1 DEF TelInv, DetectorsDone
<1>7. CASE StartSdk
  <2>1. TelTypes' /\ Files'
    BY <1>0, <1>7 DEF StartSdk, TelTypes, QuietWhileStarting, LoadReadsAll, ChangesNoticed,
       StartedOrExcused
  <2> QED BY <1>0, <1>7, <2>1 DEF TelInv, StartSdk
<1>8. CASE StartFails
  <2>1. TelTypes' /\ Files'
    BY <1>0, <1>8 DEF StartFails, TelTypes, QuietWhileStarting, LoadReadsAll, ChangesNoticed,
       StartedOrExcused
  <2> QED BY <1>0, <1>8, <2>1 DEF TelInv, StartFails
<1>9. ASSUME NEW r \in Spans, NEW new, SpanOk(new), span' = [span EXCEPT ![r] = new],
             UNCHANGED <<files, loaded, unread, stage, running, watching, timer, excused, resource>>
      PROVE  TelInv'
  <2>1. TelTypes' /\ Files'
    BY <1>0, <1>9 DEF TelTypes, QuietWhileStarting, LoadReadsAll, ChangesNoticed, StartedOrExcused
  <2>2. \A q \in Spans : SpanOk(span'[q])
    BY <1>0, <1>9 DEF TelTypes
  <2> QED BY <2>1, <2>2 DEF TelInv
<1>10. ASSUME NEW r \in Spans, startHttpRequestSpan(r) PROVE TelInv'
  <2> DEFINE s == span[r]
  <2>1. SpanOk(s) /\ s.state = "none"
    BY <1>0, <1>10 DEF startHttpRequestSpan
  <2>2. SpanOk(Ended(s)) /\ Ended(s).state = "none" /\ Ended(s).events = s.events
    BY <2>1, EndedOnce
  <2>3. \A t : SpanOk(t) /\ t.state = "none" => SpanOk([t EXCEPT !.state = "open"])
    BY DEF SpanOk
  <2>4. PICK thrown \in BOOLEAN :
          span' = [span EXCEPT ![r] = [IF thrown THEN Ended(s) ELSE s EXCEPT !.state = "open"]]
    BY <1>10 DEF startHttpRequestSpan
  <2>5. SpanOk(IF thrown THEN Ended(s) ELSE s) /\ (IF thrown THEN Ended(s) ELSE s).state = "none"
    BY <2>1, <2>2
  <2> DEFINE t == IF thrown THEN Ended(s) ELSE s
             new == [t EXCEPT !.state = "open"]
  <2>6. SpanOk(new)
    <3> HIDE DEF t
    <3> QED BY <2>3, <2>5 DEF t
  <2>7. span' = [span EXCEPT ![r] = new]
    BY <2>4
  <2> HIDE DEF new
  <2> QED BY <2>6, <2>7, <1>9, <1>10 DEF startHttpRequestSpan
<1>11. ASSUME NEW r \in Spans, ResponseFinishes(r) PROVE TelInv'
  <2> DEFINE t == Ended(span[r])
             new == [t EXCEPT !.events = {"finish"}, !.finishes = t.finishes + 1]
  <2>1. SpanOk(t) /\ t.state = "open" /\ t.events = {} /\ t.ended
    BY <1>0, <1>11, EndedOnce DEF ResponseFinishes
  <2>2. span' = [span EXCEPT ![r] = new]
    BY <1>11 DEF ResponseFinishes
  <2> HIDE DEF t
  <2>3. SpanOk(new)
    BY <2>1 DEF SpanOk
  <2> HIDE DEF new
  <2> QED BY <2>2, <2>3, <1>9, <1>11 DEF ResponseFinishes
<1>12. ASSUME NEW r \in Spans, ResponseCloses(r) PROVE TelInv'
  <2> DEFINE t == Ended(span[r])
             new == [t EXCEPT !.events = t.events \cup {"close"}, !.state = "closed"]
  <2>1. SpanOk(t) /\ t.state = "open" /\ t.ended /\ "close" \notin t.events
    BY <1>0, <1>12, EndedOnce DEF ResponseCloses
  <2>2. span' = [span EXCEPT ![r] = new]
    BY <1>12 DEF ResponseCloses
  <2> HIDE DEF t
  <2>3. SpanOk(new)
    BY <2>1 DEF SpanOk
  <2> HIDE DEF new
  <2> QED BY <2>2, <2>3, <1>9, <1>12 DEF ResponseCloses
<1>13. CASE UNCHANGED telVars
  <2>1. TelTypes' /\ Files'
    BY <1>0, <1>13 DEF telVars, TelTypes, QuietWhileStarting, LoadReadsAll, ChangesNoticed,
       StartedOrExcused
  <2> QED BY <1>0, <1>13, <2>1 DEF TelInv, telVars
<1> QED BY <1>1, <1>2, <1>3, <1>4, <1>5, <1>6, <1>7, <1>8, <1>10, <1>11, <1>12, <1>13 DEF TelNext

\* Telemetry keeps up with its credentials, for any set of files: when no restart is under
\* way or due and nothing is excused, the SDK runs with what is on disk; and the span of a
\* response that has closed was ended once (tracing.ts).
THEOREM TelemetryKeepsUp == TelSpec => []CredentialsCurrent
<1>1. TelInv => CredentialsCurrent
  <2> SUFFICES ASSUME TelInv PROVE CredentialsCurrent
    OBVIOUS
  <2>1. stage = "idle" /\ ~timer /\ ~excused => running /\ loaded = files
    BY DEF TelInv, TelTypes, LoadReadsAll, ChangesNoticed, StartedOrExcused
  <2>2. ASSUME NEW r \in Spans, span[r].state = "closed"
        PROVE  span[r].ends = 1 /\ span[r].finishes =< 1
    BY <2>2 DEF TelInv, SpanOk
  <2> QED BY <2>1, <2>2 DEF CredentialsCurrent
<1> QED BY <1>1, TelStarts, TelStep, PTL DEF TelSpec

(***************************************************************************)
(* Health, for any number of probes and any configuration: a 200 of /ready *)
(* and of deep mode is true.                                               *)
(***************************************************************************)

\* The dependencies a probe has turned to so far.
Begun(r) == {d \in Configured : Contacts(d)} \cap (FirstChecks(r.route) \cup (IF r.stage = 2 THEN SecondChecks ELSE {}))

\* A check that was begun is pending, has failed, or met a dependency that was up; a 200
\* was given after the last check, with no critical one failed.
ProbeOk(r, got) ==
  /\ DOMAIN r = {"route", "stage", "pending", "failed", "code"}
  /\ r.route = "none" => r.pending = {} /\ r.code = 0
  /\ r.route # "none" => \A d \in Begun(r) : d \in r.pending \/ d \in r.failed \/ d \in got
  /\ r.code # 0 => r.pending = {} /\ (r.route = "deep" => r.stage = 2)
  /\ r.code = 200 /\ r.route \in {"ready", "deep"} => "db" \notin r.failed
  /\ r.code = 200 /\ r.route = "deep" => r.failed \cap SecondChecks = {}

\* What is up now has been up during every probe under way.
HealthInv ==
  /\ dep \in [Dependencies -> {"up", "down", "hung"}]
  /\ DOMAIN probe = Probes /\ DOMAIN reached = Probes
  /\ \A p \in Probes : ProbeOk(probe[p], reached[p])
  /\ \A p \in Probes : probe[p].route # "none" => Up(dep) \subseteq reached[p]

LEMMA HealthStarts == HlInit => HealthInv
<1> SUFFICES ASSUME HlInit PROVE HealthInv
  OBVIOUS
<1>1. ProbeOk(NoProbe, {}) /\ NoProbe.route = "none"
  BY DEF ProbeOk, NoProbe
<1> QED BY <1>1 DEF HlInit, HealthInv

\* One probe changes and keeps what it has met: the invariant follows from what holds of it.
LEMMA ProbeMoves ==
  ASSUME HealthInv, NEW p \in Probes, NEW r, ProbeOk(r, reached[p]),
         probe[p].route # "none", probe' = [probe EXCEPT ![p] = r], dep' = dep, reached' = reached
  PROVE  HealthInv'
<1>1. \A q \in Probes : probe'[q] = IF q = p THEN r ELSE probe[q]
  BY DEF HealthInv
<1>2. \A q \in Probes : ProbeOk(probe'[q], reached'[q])
  BY <1>1 DEF HealthInv
<1>3. \A q \in Probes : probe'[q].route # "none" => Up(dep) \subseteq reached[q]
  BY <1>1 DEF HealthInv
<1> QED BY <1>2, <1>3 DEF HealthInv, Up

\* A check that failed is settled, and one that returned met a dependency that was up, or
\* does not contact it.
LEMMA CheckSettles ==
  ASSUME HealthInv, NEW p \in Probes, NEW d \in Dependencies, d \in probe[p].pending,
         NEW ok \in BOOLEAN, ok /\ Contacts(d) => d \in Up(dep), Settle(p, d, ok)
  PROVE  HealthInv'
<1> DEFINE r == probe[p]
           failed == IF ok THEN r.failed ELSE r.failed \cup {d}
           new == [r EXCEPT !.pending = r.pending \ {d}, !.failed = failed]
<1>1. ProbeOk(r, reached[p]) /\ r.route # "none" /\ r.code = 0
  BY DEF HealthInv, ProbeOk
<1>2. ok /\ Contacts(d) => d \in reached[p]
  BY <1>1 DEF HealthInv
<1>3. probe' = [probe EXCEPT ![p] = new] /\ dep' = dep /\ reached' = reached
  BY DEF Settle
<1>4. r.failed \subseteq failed /\ (d \in failed \/ d \in reached[p] \/ ~Contacts(d))
  BY <1>2
<1> HIDE DEF failed
<1>5. ProbeOk(new, reached[p])
  BY <1>1, <1>4 DEF ProbeOk, Begun
<1> HIDE DEF new
<1> QED BY <1>1, <1>3, <1>5, ProbeMoves

LEMMA HealthStep == HealthInv /\ [HlNext]_hlVars => HealthInv'
<1> SUFFICES ASSUME HealthInv, [HlNext]_hlVars PROVE HealthInv'
  OBVIOUS
<1>1. ASSUME NEW p \in Probes, NEW route \in Routes, Receive(p, route) PROVE HealthInv'
  <2> DEFINE new == [route |-> route, stage |-> 1, pending |-> FirstChecks(route) \cap Configured,
                     failed |-> {}, code |-> 0]
  <2>1. probe' = [probe EXCEPT ![p] = new] /\ reached' = [reached EXCEPT ![p] = Up(dep)] /\ dep' = dep
    BY <1>1 DEF Receive
  <2>2. ProbeOk(new, Up(dep))
    BY DEF ProbeOk, Begun, Routes
  <2> HIDE DEF new
  <2> QED BY <2>1, <2>2 DEF HealthInv, Up
<1>2. ASSUME NEW p \in Probes, NEW d \in Dependencies, CheckReturns(p, d) PROVE HealthInv'
  <2> DEFINE ok == dep[d] = "up"
  <2>1. ok \in BOOLEAN /\ (ok => d \in Up(dep)) /\ Settle(p, d, ok) /\ d \in probe[p].pending
    BY <1>2 DEF CheckReturns, Up
  <2> HIDE DEF ok
  <2> QED BY <2>1, CheckSettles
<1>3. ASSUME NEW p \in Probes, NEW d \in Dependencies, CheckTimesOut(p, d) PROVE HealthInv'
  <2> DEFINE ok == FALSE
  <2>1. ok \in BOOLEAN /\ (ok => d \in Up(dep)) /\ Settle(p, d, ok) /\ d \in probe[p].pending
    BY <1>3 DEF CheckTimesOut
  <2> HIDE DEF ok
  <2> QED BY <2>1, CheckSettles
<1>10. ASSUME NEW p \in Probes, SorobanSkipped(p) PROVE HealthInv'
  <2> DEFINE ok == TRUE
             d == "soroban"
  <2>1. d \in Dependencies /\ ok \in BOOLEAN /\ ~Contacts(d)
    BY <1>10 DEF SorobanSkipped, Contacts, Dependencies
  <2>2. Settle(p, d, ok) /\ d \in probe[p].pending
    BY <1>10 DEF SorobanSkipped
  <2> HIDE DEF ok, d
  <2> QED BY <2>1, <2>2, CheckSettles
<1>4. ASSUME NEW p \in Probes, SecondStage(p) PROVE HealthInv'
  <2> DEFINE r == probe[p]
             new == [r EXCEPT !.stage = 2, !.pending = SecondChecks \cap Configured]
  <2>1. ProbeOk(r, reached[p]) /\ r.route = "deep" /\ r.stage = 1 /\ r.pending = {} /\ r.code = 0
    BY <1>4 DEF HealthInv, SecondStage, ProbeOk
  <2>2. probe' = [probe EXCEPT ![p] = new] /\ dep' = dep /\ reached' = reached
    BY <1>4 DEF SecondStage
  <2>3. ProbeOk(new, reached[p])
    BY <2>1 DEF ProbeOk, Begun
  <2> HIDE DEF new
  <2> QED BY <2>1, <2>2, <2>3, ProbeMoves
<1>5. ASSUME NEW p \in Probes, AnswerProbe(p) PROVE HealthInv'
  <2> DEFINE r == probe[p]
             code == StatusCode(r)
             new == [r EXCEPT !.code = code]
  <2>1. /\ ProbeOk(r, reached[p]) /\ r.route # "none" /\ r.pending = {}
        /\ r.route = "deep" => r.stage = 2
    BY <1>5 DEF HealthInv, AnswerProbe
  <2>2. probe' = [probe EXCEPT ![p] = new] /\ dep' = dep /\ reached' = reached
    BY <1>5 DEF AnswerProbe
  <2>3. /\ code = 200 /\ r.route \in {"ready", "deep"} => "db" \notin r.failed
        /\ code = 200 /\ r.route = "deep" => r.failed \cap SecondChecks = {}
    BY DEF StatusCode, SecondChecks
  <2> HIDE DEF code
  <2>4. ProbeOk(new, reached[p])
    BY <2>1, <2>3 DEF ProbeOk, Begun
  <2> HIDE DEF new
  <2> QED BY <2>1, <2>2, <2>4, ProbeMoves
<1>6. ASSUME NEW p \in Probes, ProbeEnds(p) PROVE HealthInv'
  <2>1. ProbeOk(NoProbe, {}) /\ NoProbe.route = "none"
    BY DEF ProbeOk, NoProbe
  <2> QED BY <1>6, <2>1 DEF ProbeEnds, HealthInv, Up
<1>7. CASE StartReadiness \/ ReadinessDone
  BY <1>7 DEF StartReadiness, ReadinessDone, HealthInv, Up
<1>8. ASSUME NEW d \in Configured, DependencyChanges(d) PROVE HealthInv'
  <2>1. PICK s \in {"up", "down", "hung"} \ {dep[d]} :
          /\ dep' = [dep EXCEPT ![d] = s]
          /\ reached' = [p \in Probes |->
                IF probe[p].route # "none" /\ s = "up" THEN reached[p] \cup {d} ELSE reached[p]]
    BY <1>8 DEF DependencyChanges
  <2>2. probe' = probe /\ dep' \in [Dependencies -> {"up", "down", "hung"}] /\ DOMAIN reached' = Probes
    BY <1>8, <2>1, ConfiguredAssumption DEF DependencyChanges, HealthInv
  <2>3. \A p \in Probes : reached[p] \subseteq reached'[p]
    BY <2>1 DEF HealthInv
  <2>4. \A p \in Probes : ProbeOk(probe'[p], reached'[p])
    BY <2>2, <2>3 DEF HealthInv, ProbeOk
  <2>5. \A p \in Probes : probe'[p].route # "none" => Up(dep') \subseteq reached'[p]
    BY <2>1, <2>2, <2>3 DEF HealthInv, Up
  <2> QED BY <2>2, <2>4, <2>5 DEF HealthInv
<1>9. CASE UNCHANGED hlVars
  BY <1>9 DEF hlVars, HealthInv, Up
<1> QED BY <1>1, <1>2, <1>3, <1>4, <1>5, <1>6, <1>7, <1>8, <1>9, <1>10 DEF HlNext

\* A probe that was answered 200 by /ready or in deep mode met every configured critical
\* dependency while it was up, for any number of probes, however the dependencies go up and
\* down, hang and time out meanwhile; Soroban excepted where its client is not installed,
\* which deep mode takes for healthy unseen (routes/health.ts).
THEOREM HealthyIsTrue == HlSpec => []HealthyWasReachable
<1>1. HealthInv => HealthyWasReachable
  <2> SUFFICES ASSUME HealthInv, NEW p \in Probes, probe[p].code = 200
               PROVE  /\ probe[p].route \in {"ready", "deep"} /\ "db" \in Configured => "db" \in reached[p]
                      /\ probe[p].route = "deep" =>
                           {d \in SecondChecks \cap Configured : Contacts(d)} \subseteq reached[p]
    BY DEF HealthyWasReachable
  <2> DEFINE r == probe[p]
  <2>1. ProbeOk(r, reached[p]) /\ r.code = 200
    BY DEF HealthInv
  <2> HIDE DEF r
  <2>2. r.route # "none" /\ r.pending = {}
    BY <2>1 DEF ProbeOk
  <2>3. r.route \in {"ready", "deep"} /\ "db" \in Configured => "db" \in reached[p]
    BY <2>1, <2>2 DEF ProbeOk, Begun, FirstChecks, Contacts
  <2>4. r.route = "deep" => {d \in SecondChecks \cap Configured : Contacts(d)} \subseteq reached[p]
    BY <2>1, <2>2 DEF ProbeOk, Begun
  <2> QED BY <2>3, <2>4 DEF r
<1> QED BY <1>1, HealthStarts, HealthStep, PTL DEF HlSpec

(***************************************************************************)
(* Idempotency, for any set of requests and keys, every size of the store  *)
(* and every TTL: what the middleware promises of a key.                   *)
(***************************************************************************)

\* A request is answered when its handler has returned, and not before.
AnswersFollow ==
  \A r \in IdemRequests : reply[r] # "none" <=> handling[r] = "done"

\* A stored response is a success of its key.
EntriesGood ==
  \A k \in stored : entryOf[k] # {} /\ \A q \in entryOf[k] : reply[q] = "ok" /\ KeyOf[q] = k

\* A key that is not excused has one handler at a time, and once it has succeeded its
\* response is stored and no handler of it runs any more.
Excused(k) == k \in lapsed \cup overlapped

OneHandler ==
  \A q, r \in IdemRequests :
    (q # r /\ KeyOf[q] = KeyOf[r] /\ handling[q] = "running" /\ handling[r] = "running")
      => Excused(KeyOf[r])

SuccessKept ==
  \A q \in IdemRequests : reply[q] = "ok" =>
    \/ Excused(KeyOf[q])
    \/ /\ KeyOf[q] \in stored
       /\ \A r \in IdemRequests : KeyOf[r] = KeyOf[q] => handling[r] # "running"

SweeperStops == (stop # "none" => ~interval) /\ (stop = "returned" => ~cycle)

IdemInv ==
  /\ IdemTypeOK /\ AnswersFollow /\ EntriesGood /\ OneHandler /\ SuccessKept /\ SweeperStops
  /\ ReplayFaithful /\ OneSuccessUnlessExcused

LEMMA IdemStarts == IdemInit => IdemInv
<1> SUFFICES ASSUME IdemInit PROVE IdemInv
  OBVIOUS
<1>1. IsFiniteSet({}) /\ Cardinality({}) = 0
  BY FS_EmptySet
<1>2. IdemTypeOK
  <2>1. left \in [Keys -> -1..Ttl]
    BY IdempotencyAssumption DEF IdemInit
  <2>2. IsFiniteSet(stored) /\ Cardinality(stored) <= MaxEntries
    BY <1>1, IdempotencyAssumption DEF IdemInit
  <2> QED BY <2>1, <2>2 DEF IdemInit, IdemTypeOK, startIdempotencySweeper
<1> QED BY <1>2 DEF IdemInit, IdemInv, AnswersFollow, EntriesGood, OneHandler, SuccessKept,
           SweeperStops, ReplayFaithful, OneSuccessUnlessExcused, BothRan

\* The store shrinks when something is pruned, and keeps within its limit.
LEMMA StoreShrinks ==
  ASSUME IdemTypeOK, NEW less, less \subseteq stored
  PROVE  /\ less \subseteq Keys /\ IsFiniteSet(less)
         /\ Cardinality(less) \in Nat /\ Cardinality(less) =< MaxEntries
<1>1. IsFiniteSet(less) /\ Cardinality(less) =< Cardinality(stored)
  BY FS_Subset DEF IdemTypeOK
<1>2. Cardinality(less) \in Nat /\ Cardinality(stored) \in Nat
  BY <1>1, FS_CardinalityType DEF IdemTypeOK
<1> QED BY <1>1, <1>2, IdempotencyAssumption DEF IdemTypeOK

\* A response that is stored takes one place of the limit.
LEMMA StoreGrows ==
  ASSUME IdemTypeOK, NEW kept, kept \subseteq stored, Cardinality(kept) < MaxEntries, NEW k \in Keys
  PROVE  /\ kept \cup {k} \subseteq Keys /\ IsFiniteSet(kept \cup {k})
         /\ Cardinality(kept \cup {k}) =< MaxEntries
<1>1. kept \subseteq Keys /\ IsFiniteSet(kept) /\ Cardinality(kept) \in Nat
  BY StoreShrinks
<1>2. /\ IsFiniteSet(kept \cup {k})
      /\ Cardinality(kept \cup {k}) = IF k \in kept THEN Cardinality(kept) ELSE Cardinality(kept) + 1
  BY <1>1, FS_AddElement
<1> QED BY <1>1, <1>2, IdempotencyAssumption

\* A request that was not answered is, with something other than a success, and the store
\* is left alone: what is stored and what was replayed stays as it was.
LEMMA AnsweredOtherwise ==
  ASSUME IdemInv, NEW r \in IdemRequests, handling[r] # "done",
         NEW what \in {"error", "badKey", "collision"}, Finish(r, what),
         UNCHANGED <<replayOf, storeVars, sweeperVars, history>>
  PROVE  IdemInv'
<1>1. IdemTypeOK'
  BY DEF IdemInv, IdemTypeOK, Finish, storeVars, sweeperVars, history
<1>2. /\ \A q \in IdemRequests : reply'[q] = IF q = r THEN what ELSE reply[q]
      /\ \A q \in IdemRequests : handling'[q] = IF q = r THEN "done" ELSE handling[q]
      /\ reply[r] = "none"
  BY DEF IdemInv, IdemTypeOK, Finish, AnswersFollow
<1>3. AnswersFollow' /\ OneHandler' /\ SuccessKept' /\ OneSuccessUnlessExcused'
  BY <1>2 DEF IdemInv, AnswersFollow, OneHandler, SuccessKept, OneSuccessUnlessExcused, BothRan,
     Excused, storeVars, sweeperVars, history
<1>4. EntriesGood' /\ ReplayFaithful'
  BY <1>2 DEF IdemInv, EntriesGood, ReplayFaithful, storeVars, IdemTypeOK
<1> QED BY <1>1, <1>3, <1>4 DEF IdemInv, SweeperStops, sweeperVars

\* The store loses the keys it evicts, which are excused from then on; nothing else changes
\* but the sweeper.
LEMMA Evicts ==
  ASSUME IdemInv, NEW less, less \subseteq stored, stored' = less,
         lapsed' = lapsed \cup (stored \ less),
         UNCHANGED <<handling, reply, replayOf, entryOf, left, overlapped>>
  PROVE  /\ AnswersFollow' /\ EntriesGood' /\ OneHandler' /\ SuccessKept' /\ ReplayFaithful'
         /\ OneSuccessUnlessExcused'
<1>1. AnswersFollow' /\ EntriesGood' /\ ReplayFaithful'
  BY DEF IdemInv, AnswersFollow, EntriesGood, ReplayFaithful
<1>2. \A k : Excused(k) => Excused(k)'
  BY DEF Excused
<1>3. OneHandler' /\ OneSuccessUnlessExcused'
  BY DEF IdemInv, OneHandler, OneSuccessUnlessExcused, BothRan, Excused
<1>4. SuccessKept'
  BY DEF IdemInv, SuccessKept, Excused
<1> QED BY <1>1, <1>3, <1>4

LEMMA IdemStep == IdemInv /\ [IdemNext]_idemVars => IdemInv'
<1> SUFFICES ASSUME IdemInv, [IdemNext]_idemVars PROVE IdemInv'
  OBVIOUS
<1>0. /\ IdemTypeOK /\ AnswersFollow /\ EntriesGood /\ OneHandler /\ SuccessKept /\ SweeperStops
      /\ ReplayFaithful /\ OneSuccessUnlessExcused
  BY DEF IdemInv
<1>1. ASSUME NEW r \in IdemRequests, RejectKey(r) PROVE IdemInv'
  <2> DEFINE what == "badKey"
  <2>1. what \in {"error", "badKey", "collision"} /\ Finish(r, what) /\ handling[r] # "done"
    BY <1>1 DEF RejectKey
  <2> HIDE DEF what
  <2> QED BY <1>1, <2>1, AnsweredOtherwise DEF RejectKey
<1>2. ASSUME NEW r \in IdemRequests, Collide(r) PROVE IdemInv'
  <2> DEFINE what == "collision"
  <2>1. what \in {"error", "badKey", "collision"} /\ Finish(r, what) /\ handling[r] # "done"
    BY <1>2 DEF Collide, Arrives
  <2> HIDE DEF what
  <2> QED BY <1>2, <2>1, AnsweredOtherwise DEF Collide
<1>3. ASSUME NEW r \in IdemRequests, RespondError(r) PROVE IdemInv'
  <2> DEFINE what == "error"
  <2>1. what \in {"error", "badKey", "collision"} /\ Finish(r, what) /\ handling[r] # "done"
    BY <1>3 DEF RespondError
  <2> HIDE DEF what
  <2> QED BY <1>3, <2>1, AnsweredOtherwise DEF RespondError
<1>4. ASSUME NEW r \in IdemRequests, Replay(r) PROVE IdemInv'
  <2> DEFINE k == KeyOf[r]
  <2>1. /\ k \in Keys /\ k \in stored /\ \A q \in entryOf[k] : BodyOf[q] = BodyOf[r]
        /\ reply[r] = "none" /\ handling[r] = "idle"
    BY <1>4, <1>0, IdempotencyAssumption
       DEF Replay, CacheHit, SameBody, Arrives, AnswersFollow, IdemTypeOK
  <2>2. /\ \A q \in IdemRequests : reply'[q] = IF q = r THEN "replay" ELSE reply[q]
        /\ \A q \in IdemRequests : handling'[q] = IF q = r THEN "done" ELSE handling[q]
        /\ \A q \in IdemRequests : replayOf'[q] = IF q = r THEN entryOf[k] ELSE replayOf[q]
        /\ UNCHANGED <<stored, entryOf, left, backend, interval, cycle, stop, lapsed, overlapped>>
    BY <1>4, <1>0 DEF Replay, Finish, IdemTypeOK, storeVars, sweeperVars, history
  <2>3. IdemTypeOK'
    BY <1>4, <1>0, <2>1, <2>2 DEF Replay, Finish, IdemTypeOK
  <2>4. AnswersFollow' /\ OneHandler' /\ SuccessKept' /\ OneSuccessUnlessExcused' /\ EntriesGood'
    BY <1>0, <2>1, <2>2 DEF AnswersFollow, OneHandler, SuccessKept, OneSuccessUnlessExcused, BothRan,
       EntriesGood, Excused, IdemTypeOK
  <2>5. ReplayFaithful'
    <3> SUFFICES ASSUME NEW q \in IdemRequests, reply'[q] = "replay"
                 PROVE  /\ replayOf'[q] # {}
                        /\ \A x \in replayOf'[q] : reply'[x] = "ok" /\ KeyOf[x] = KeyOf[q]
                                                   /\ BodyOf[x] = BodyOf[q]
      BY DEF ReplayFaithful
    <3>1. CASE q = r
      <4>1. /\ replayOf'[q] = entryOf[k] /\ entryOf[k] \subseteq IdemRequests
            /\ entryOf[k] # {} /\ \A x \in entryOf[k] : reply[x] = "ok" /\ KeyOf[x] = k
        BY <3>1, <2>1, <2>2, <1>0 DEF EntriesGood, IdemTypeOK
      <4> QED BY <3>1, <4>1, <2>1, <2>2
    <3>2. CASE q # r
      <4>1. /\ replayOf'[q] = replayOf[q] /\ replayOf[q] \subseteq IdemRequests /\ reply[q] = "replay"
        BY <3>2, <2>2, <1>0 DEF IdemTypeOK
      <4> QED BY <4>1, <2>1, <2>2, <1>0 DEF ReplayFaithful
    <3> QED BY <3>1, <3>2
  <2> QED BY <1>0, <2>2, <2>3, <2>4, <2>5 DEF IdemInv, SweeperStops
<1>5. ASSUME NEW r \in IdemRequests, Execute(r) PROVE IdemInv'
  <2> DEFINE k == KeyOf[r]
  <2>1. /\ k \in Keys /\ handling[r] = "idle" /\ reply[r] = "none"
        /\ (k \in stored => k \in lapsed')
        /\ (Overlaps(r) => k \in overlapped')
    BY <1>5, <1>0, IdempotencyAssumption DEF Execute, Arrives, AnswersFollow
  <2>2. /\ \A q \in IdemRequests : handling'[q] = IF q = r THEN "running" ELSE handling[q]
        /\ UNCHANGED <<reply, replayOf, entryOf, left, backend, interval, cycle, stop>>
        /\ stored' \subseteq stored /\ stored \ stored' \subseteq {k}
        /\ lapsed \subseteq lapsed' /\ overlapped \subseteq overlapped'
        /\ stored \ stored' \subseteq lapsed'
    BY <1>5, <1>0 DEF Execute, IdemTypeOK, sweeperVars
  <2>3. IdemTypeOK'
    <3>1. IsFiniteSet(stored') /\ Cardinality(stored') <= MaxEntries /\ stored' \subseteq Keys
      BY <2>2, <1>0, StoreShrinks
    <3>2. lapsed' \subseteq Keys /\ overlapped' \subseteq Keys
      BY <1>5, <1>0, <2>1 DEF Execute, IdemTypeOK
    <3> QED BY <1>5, <1>0, <2>2, <3>1, <3>2 DEF Execute, IdemTypeOK
  <2>4. AnswersFollow' /\ EntriesGood' /\ ReplayFaithful'
    BY <1>0, <2>1, <2>2 DEF AnswersFollow, EntriesGood, ReplayFaithful
  <2>5. OneSuccessUnlessExcused'
    BY <1>0, <2>2 DEF OneSuccessUnlessExcused, BothRan
  <2>6. OneHandler'
    BY <1>0, <2>1, <2>2 DEF OneHandler, Excused, Overlaps
  <2>7. SuccessKept'
    BY <1>0, <2>1, <2>2 DEF SuccessKept, Excused
  <2> QED BY <1>0, <2>2, <2>3, <2>4, <2>5, <2>6, <2>7 DEF IdemInv, SweeperStops
<1>6. ASSUME NEW r \in IdemRequests, RespondOk(r) PROVE IdemInv'
  <2> DEFINE k == KeyOf[r]
             kept == IF Cardinality(stored) >= MaxEntries THEN Pruned ELSE stored
  <2>1. k \in Keys /\ handling[r] = "running" /\ reply[r] = "none" /\ kept \subseteq stored
    BY <1>6, <1>0, IdempotencyAssumption DEF RespondOk, AnswersFollow, Pruned
  <2>2. /\ \A q \in IdemRequests : reply'[q] = IF q = r THEN "ok" ELSE reply[q]
        /\ \A q \in IdemRequests : handling'[q] = IF q = r THEN "done" ELSE handling[q]
        /\ UNCHANGED <<replayOf, backend, interval, cycle, stop, overlapped>>
    BY <1>6, <1>0 DEF RespondOk, Finish, IdemTypeOK, sweeperVars
  <2>3. \/ /\ Cardinality(kept) < MaxEntries
           /\ stored' = kept \cup {k}
           /\ entryOf' = [entryOf EXCEPT ![k] = {r}]
           /\ left' = [left EXCEPT ![k] = Ttl]
           /\ lapsed' = lapsed \cup (stored \ kept)
        \/ /\ stored' = kept
           /\ lapsed' = lapsed \cup (stored \ kept) \cup {k}
           /\ UNCHANGED <<entryOf, left>>
    BY <1>6 DEF RespondOk, SetEntry
  <2> HIDE DEF kept
  <2>4. IdemTypeOK'
    <3>1. IsFiniteSet(stored') /\ Cardinality(stored') <= MaxEntries /\ stored' \subseteq Keys
      BY <2>1, <2>3, <1>0, StoreShrinks, StoreGrows
    <3>2. lapsed' \subseteq Keys /\ entryOf' \in [Keys -> SUBSET IdemRequests]
      BY <2>1, <2>3, <1>0 DEF IdemTypeOK
    <3>3. left' \in [Keys -> -1..Ttl]
      BY <2>1, <2>3, <1>0, IdempotencyAssumption DEF IdemTypeOK
    <3> QED BY <1>6, <1>0, <2>2, <3>1, <3>2, <3>3 DEF RespondOk, Finish, IdemTypeOK
  <2>5. AnswersFollow' /\ ReplayFaithful'
    <3>1. AnswersFollow'
      BY <1>0, <2>1, <2>2 DEF AnswersFollow
    <3>2. ReplayFaithful'
      BY <1>0, <2>1, <2>2 DEF ReplayFaithful, IdemTypeOK
    <3> QED BY <3>1, <3>2
  <2>6. EntriesGood'
    <3> SUFFICES ASSUME NEW j \in stored'
                 PROVE  entryOf'[j] # {} /\ \A q \in entryOf'[j] : reply'[q] = "ok" /\ KeyOf[q] = j
      BY DEF EntriesGood
    <3>1. j \in Keys
      BY <2>4 DEF IdemTypeOK
    <3>2. CASE entryOf'[j] = {r} /\ j = k
      BY <3>2, <2>2
    <3>3. CASE entryOf'[j] = entryOf[j] /\ j \in stored
      <4>1. entryOf[j] \subseteq IdemRequests
        BY <3>1, <1>0 DEF IdemTypeOK
      <4> QED BY <3>3, <4>1, <1>0, <2>2 DEF EntriesGood
    <3> QED BY <3>1, <3>2, <3>3, <2>1, <2>3, <1>0 DEF IdemTypeOK
  <2>7. \/ Excused(k)'
        \/ /\ k \in stored'
           /\ \A q \in IdemRequests : KeyOf[q] = k => handling'[q] # "running"
           /\ \A q \in IdemRequests : KeyOf[q] = k /\ reply[q] = "ok" => FALSE
    <3>1. CASE Excused(k)
      BY <3>1, <2>2, <2>3 DEF Excused
    <3>2. CASE ~Excused(k)
      <4>1. \A q \in IdemRequests : KeyOf[q] = k => reply[q] # "ok"
        BY <3>2, <2>1, <1>0 DEF SuccessKept
      <4>2. \A q \in IdemRequests : q # r /\ KeyOf[q] = k => handling[q] # "running"
        BY <3>2, <2>1, <1>0 DEF OneHandler
      <4> QED BY <4>1, <4>2, <2>2, <2>3 DEF Excused
    <3> QED BY <3>1, <3>2
  <2>8. \A j : Excused(j) => Excused(j)'
    BY <2>2, <2>3 DEF Excused
  <2>9. \A j : j \in stored => j \in stored' \/ Excused(j)'
    BY <2>1, <2>3 DEF Excused
  <2>10. OneHandler'
    BY <1>0, <2>2, <2>8 DEF OneHandler
  <2>11. SuccessKept'
    BY <1>0, <2>2, <2>7, <2>8, <2>9 DEF SuccessKept
  <2>12. OneSuccessUnlessExcused'
    BY <1>0, <2>2, <2>7, <2>8 DEF OneSuccessUnlessExcused, BothRan, Excused
  <2> QED BY <1>0, <2>2, <2>4, <2>5, <2>6, <2>10, <2>11, <2>12 DEF IdemInv, SweeperStops
<1>7. CASE SweeperFires
  <2>1. Swept \subseteq stored
    BY DEF Swept, RedisSweep, MemorySweep, Pruned
  <2>2. /\ AnswersFollow' /\ EntriesGood' /\ OneHandler' /\ SuccessKept' /\ ReplayFaithful'
        /\ OneSuccessUnlessExcused'
    BY <1>7, <2>1, Evicts DEF SweeperFires
  <2>3. IsFiniteSet(stored') /\ Cardinality(stored') <= MaxEntries /\ stored' \subseteq Keys
    BY <1>7, <2>1, <1>0, StoreShrinks DEF SweeperFires
  <2>4. IdemTypeOK' /\ SweeperStops'
    BY <1>7, <1>0, <2>1, <2>3 DEF SweeperFires, IdemTypeOK, SweeperStops
  <2> QED BY <2>2, <2>4 DEF IdemInv
<1>8. CASE CycleEnds \/ StopSweeper \/ StopReturns
  <2>1. UNCHANGED <<handling, reply, replayOf, stored, entryOf, left, lapsed, overlapped>>
    BY <1>8 DEF CycleEnds, StopSweeper, StopReturns, storeVars, history
  <2>2. IdemTypeOK' /\ SweeperStops'
    <3>1. CASE CycleEnds
      BY <3>1, <1>0, <2>1 DEF CycleEnds, IdemTypeOK, SweeperStops
    <3>2. CASE StopSweeper
      BY <3>2, <1>0, <2>1 DEF StopSweeper, IdemTypeOK, SweeperStops
    <3>3. CASE StopReturns
      BY <3>3, <1>0, <2>1 DEF StopReturns, IdemTypeOK, SweeperStops
    <3> QED BY <1>8, <3>1, <3>2, <3>3
  <2>3. /\ AnswersFollow' /\ EntriesGood' /\ OneHandler' /\ SuccessKept' /\ ReplayFaithful'
        /\ OneSuccessUnlessExcused'
    BY <1>0, <2>1 DEF AnswersFollow, EntriesGood, OneHandler, SuccessKept, ReplayFaithful,
       OneSuccessUnlessExcused, BothRan, Excused
  <2> QED BY <2>2, <2>3 DEF IdemInv
<1>9. CASE Tick
  <2>1. UNCHANGED <<handling, reply, replayOf, stored, entryOf, lapsed, overlapped, backend, interval,
                    cycle, stop>>
    BY <1>9 DEF Tick, sweeperVars, history
  <2>2. left' \in [Keys -> -1..Ttl]
    BY <1>9, <1>0, IdempotencyAssumption DEF Tick, IdemTypeOK, Expired
  <2>3. IdemTypeOK' /\ SweeperStops'
    BY <1>0, <2>1, <2>2 DEF IdemTypeOK, SweeperStops
  <2>4. /\ AnswersFollow' /\ EntriesGood' /\ OneHandler' /\ SuccessKept' /\ ReplayFaithful'
        /\ OneSuccessUnlessExcused'
    BY <1>0, <2>1 DEF AnswersFollow, EntriesGood, OneHandler, SuccessKept, ReplayFaithful,
       OneSuccessUnlessExcused, BothRan, Excused
  <2> QED BY <2>3, <2>4 DEF IdemInv
<1>10. CASE UNCHANGED idemVars
  BY <1>10, <1>0 DEF idemVars, IdemInv, IdemTypeOK, AnswersFollow, EntriesGood, OneHandler, SuccessKept,
     SweeperStops, ReplayFaithful, OneSuccessUnlessExcused, BothRan, Excused
<1> QED BY <1>1, <1>2, <1>3, <1>4, <1>5, <1>6, <1>7, <1>8, <1>9, <1>10 DEF IdemNext, Handle

\* What the middleware promises of a key holds for any set of requests and keys, any size
\* of the store and any TTL: replays repeat a success of the same key and body, a handler
\* succeeds once per key unless its entry lapsed or two handlers overlapped, the store
\* keeps within its limit, and stop() returns when nothing runs (middleware/idempotency.ts).
THEOREM RepliesAreIdempotent == IdemSpec => []IdempotentReplies
<1>1. IdemInv => IdempotentReplies
  BY DEF IdemInv, IdempotentReplies, StopIsQuiescent, SweeperStops
<1> QED BY <1>1, IdemStarts, IdemStep, PTL DEF IdemSpec

(***************************************************************************)
(* Signup, for any requests, addresses, windows and limits: one account    *)
(* per address, and no window with more attempts than the limit.           *)
(***************************************************************************)

\* What the limiter knows of one key: a record is forgotten only when the attempts it
\* counts have left the window, because its time to live starts again with each of them.
KeyOk(rec, hist, max) ==
  /\ rec \in Records /\ rec.n =< max
  /\ IsFiniteSet(hist) /\ hist \subseteq Nat \X Nat
  /\ hist # {} => rec.ttl >= 0
  /\ \A m \in hist : m[1] >= Window - rec.ttl
  /\ Cardinality(hist) =< rec.n

\* A request in progress.
SignupOk(x) == "stage" \in DOMAIN x /\ x.stage \in Stages

SignupInv ==
  /\ DOMAIN ipStore = Ips /\ DOMAIN ipHist = Ips /\ ipStore \in [Ips -> Records]
  /\ DOMAIN emailStore = EmailKeys /\ DOMAIN emailHist = EmailKeys /\ emailStore \in [EmailKeys -> Records]
  /\ \A k \in Ips : KeyOk(ipStore[k], ipHist[k], MaxIp)
  /\ \A k \in EmailKeys : KeyOk(emailStore[k], emailHist[k], MaxEmail)
  /\ globalRecord \in Records /\ globalRecord.n =< MaxGlobal
  /\ DOMAIN signups = SignupSlots /\ \A s \in SignupSlots : SignupOk(signups[s])
  /\ OneAccountPerEmail

\* There is always a number left that tells a new attempt from the others.
LEMMA NoteIsNew ==
  ASSUME NEW M, IsFiniteSet(M)
  PROVE  \E k \in 0..Cardinality(M) : <<0, k>> \notin M
<1> SUFFICES ASSUME \A k \in 0..Cardinality(M) : <<0, k>> \in M PROVE FALSE
  OBVIOUS
<1> DEFINE n == Cardinality(M)
           f == [k \in 0..n |-> <<0, k>>]
<1>1. n \in Nat
  BY FS_CardinalityType
<1>2. f \in [0..n -> M]
  OBVIOUS
<1>3. IsFiniteSet(0..n) /\ Cardinality(0..n) = n + 1
  BY <1>1, FS_Interval
<1>4. Cardinality(M) < Cardinality(0..n)
  BY <1>1, <1>3
<1> HIDE DEF f
<1>5. \E x, y \in 0..n : x # y /\ f[x] = f[y]
  BY <1>2, <1>3, <1>4, FS_PigeonHole
<1> QED BY <1>5 DEF f

\* One more attempt, of age 0.
LEMMA NoteAdds ==
  ASSUME NEW M, IsFiniteSet(M), M \subseteq Nat \X Nat
  PROVE  \E m \in Nat \X Nat : m[1] = 0 /\ m \notin M /\ Noted(M) = M \cup {m}
<1> DEFINE k == CHOOSE k \in 0..Cardinality(M) : <<0, k>> \notin M
<1>1. k \in 0..Cardinality(M) /\ <<0, k>> \notin M
  BY NoteIsNew
<1>2. Cardinality(M) \in Nat
  BY FS_CardinalityType
<1>3. Noted(M) = M \cup {<<0, k>>}
  BY DEF Noted
<1> HIDE DEF k
<1>4. <<0, k>> \in Nat \X Nat /\ <<0, k>>[1] = 0
  BY <1>1, <1>2
<1> QED BY <1>1, <1>3, <1>4

\* The attempts a tick later, but for those that leave the window.
LEMMA ShiftKeeps ==
  ASSUME NEW M, IsFiniteSet(M), M \subseteq Nat \X Nat
  PROVE  /\ IsFiniteSet(Shift(M)) /\ Shift(M) \subseteq Nat \X Nat
         /\ Cardinality(Shift(M)) =< Cardinality(M)
         /\ \A m \in Shift(M) : \E x \in M : x[1] < Window /\ m[1] = x[1] + 1
<1> DEFINE Y == {b \in M : b[1] < Window}
           f == [a \in Y |-> <<a[1] + 1, a[2]>>]
<1>1. f \in Surjection(Y, Shift(M))
  BY DEF Surjection, Shift
<1>2. Shift(M) \subseteq Nat \X Nat /\ \A m \in Shift(M) : \E x \in M : x[1] < Window /\ m[1] = x[1] + 1
  BY DEF Shift
<1>3. Y \in SUBSET M
  OBVIOUS
<1> HIDE DEF f, Y
<1>4. IsFiniteSet(Y) /\ Cardinality(Y) =< Cardinality(M)
  BY <1>3, FS_Subset
<1>5. IsFiniteSet(Shift(M)) /\ Cardinality(Shift(M)) =< Cardinality(Y)
  BY <1>1, <1>4, FS_Surjection
<1>6. Cardinality(Shift(M)) \in Nat /\ Cardinality(Y) \in Nat /\ Cardinality(M) \in Nat
  BY <1>4, <1>5, FS_CardinalityType
<1> QED BY <1>2, <1>4, <1>5, <1>6

\* What the calls do to one key.
LEMMA KeyTouched ==
  ASSUME NEW rec, NEW hist, NEW max \in Nat, KeyOk(rec, hist, max)
  PROVE  KeyOk(getOrCreateRecord(rec), hist, max)
<1>1. CASE rec.ttl < 0
  <2>1. getOrCreateRecord(rec) = Fresh /\ hist = {}
    BY <1>1 DEF getOrCreateRecord, KeyOk, Records
  <2>2. Fresh \in Records /\ Fresh.n = 0 /\ Fresh.ttl = Window
    BY SignupAssumption DEF Fresh, Records
  <2>3. Cardinality(hist) = 0 /\ IsFiniteSet(hist)
    BY <2>1, FS_EmptySet
  <2> QED BY <2>1, <2>2, <2>3 DEF KeyOk
<1>2. CASE ~(rec.ttl < 0)
  BY <1>2 DEF getOrCreateRecord
<1> QED BY <1>1, <1>2

LEMMA KeyBumped ==
  ASSUME NEW rec, NEW hist, NEW max \in {MaxIp, MaxEmail}, KeyOk(rec, hist, max), getOrCreateRecord(rec).n < max
  PROVE  KeyOk([n |-> getOrCreateRecord(rec).n + 1, ttl |-> Window], Noted(hist), max)
<1> DEFINE n == getOrCreateRecord(rec).n
           new == [n |-> n + 1, ttl |-> Window]
<1>0. max \in Nat /\ max =< MaxIp + MaxEmail + MaxGlobal
  BY SignupAssumption
<1>1. KeyOk(getOrCreateRecord(rec), hist, max)
  BY <1>0, KeyTouched
<1>2. n \in Nat /\ n < max /\ Cardinality(hist) =< n /\ IsFiniteSet(hist) /\ hist \subseteq Nat \X Nat
  BY <1>1, SignupAssumption DEF KeyOk, Records
<1>3. new \in Records /\ new.n = n + 1 /\ new.ttl = Window /\ new.n =< max
  BY <1>0, <1>2, SignupAssumption DEF Records
<1>4. PICK m \in Nat \X Nat : m[1] = 0 /\ m \notin hist /\ Noted(hist) = hist \cup {m}
  BY <1>2, NoteAdds
<1>5. IsFiniteSet(hist \cup {m}) /\ Cardinality(hist \cup {m}) = Cardinality(hist) + 1 /\ Cardinality(hist) \in Nat
  BY <1>2, <1>4, FS_AddElement, FS_CardinalityType
<1>6. Noted(hist) \subseteq Nat \X Nat
  BY <1>2, <1>4
<1>7. \A x \in Noted(hist) : x[1] \in Nat
  BY <1>6
<1> HIDE DEF new, n
<1>8. KeyOk(new, Noted(hist), max)
  <2>1. Cardinality(Noted(hist)) =< new.n
    BY <1>2, <1>3, <1>4, <1>5
  <2>2. new.ttl >= 0 /\ \A x \in Noted(hist) : x[1] >= Window - new.ttl
    BY <1>3, <1>7, SignupAssumption
  <2>3. IsFiniteSet(Noted(hist))
    BY <1>4, <1>5
  <2> QED BY <1>3, <1>6, <2>1, <2>2, <2>3 DEF KeyOk
<1> QED BY <1>8 DEF new, n

LEMMA KeyDropped ==
  ASSUME NEW rec, NEW hist, NEW max \in Nat, KeyOk(rec, hist, max), rec.ttl < 0
  PROVE  KeyOk(NoRecord, hist, max)
<1>1. hist = {}
  BY DEF KeyOk, Records
<1>2. NoRecord \in Records /\ NoRecord.n = 0 /\ NoRecord.ttl = -1
  BY SignupAssumption DEF NoRecord, Records
<1>3. Cardinality(hist) = 0 /\ IsFiniteSet(hist)
  BY <1>1, FS_EmptySet
<1> QED BY <1>1, <1>2, <1>3 DEF KeyOk

LEMMA KeyAged ==
  ASSUME NEW rec, NEW hist, NEW max \in Nat, KeyOk(rec, hist, max)
  PROVE  KeyOk(Older(rec), Shift(hist), max)
<1>1. /\ rec \in Records /\ IsFiniteSet(hist) /\ hist \subseteq Nat \X Nat
      /\ rec.n =< max /\ rec.n \in 0..(MaxIp + MaxEmail + MaxGlobal + 1) /\ rec.ttl \in -1..Window
  BY DEF KeyOk, Records
<1>2. Older(rec) = [rec EXCEPT !.ttl = IF rec.ttl >= 0 THEN rec.ttl - 1 ELSE -1]
  <2>1. Max({-1, rec.ttl - 1}) = IF rec.ttl >= 0 THEN rec.ttl - 1 ELSE -1
    BY <1>1, SignupAssumption DEF Max
  <2> QED BY <2>1 DEF Older
<1>3. Older(rec).n = rec.n /\ Older(rec).ttl = IF rec.ttl >= 0 THEN rec.ttl - 1 ELSE -1
  BY <1>1, <1>2 DEF Records
<1>4. Older(rec) \in Records
  BY <1>1, <1>2, SignupAssumption DEF Records
<1>5. /\ IsFiniteSet(Shift(hist)) /\ Shift(hist) \subseteq Nat \X Nat
      /\ Cardinality(Shift(hist)) =< Cardinality(hist)
      /\ \A m \in Shift(hist) : \E x \in hist : x[1] < Window /\ m[1] = x[1] + 1
  BY <1>1, ShiftKeeps
<1>6. Cardinality(Shift(hist)) \in Nat /\ Cardinality(hist) \in Nat /\ Cardinality(hist) =< rec.n
  BY <1>1, <1>5, FS_CardinalityType DEF KeyOk
<1>7. ASSUME NEW m \in Shift(hist) PROVE Older(rec).ttl >= 0 /\ m[1] >= Window - Older(rec).ttl
  <2>1. PICK x \in hist : x[1] < Window /\ m[1] = x[1] + 1
    BY <1>5
  <2>2. x[1] \in Nat /\ rec.ttl >= 0 /\ x[1] >= Window - rec.ttl
    BY <1>1, <2>1 DEF KeyOk
  <2> QED BY <1>1, <1>3, <2>1, <2>2, SignupAssumption
<1>8. Cardinality(Shift(hist)) =< Older(rec).n
  BY <1>1, <1>3, <1>5, <1>6
<1> QED BY <1>1, <1>3, <1>4, <1>5, <1>7, <1>8 DEF KeyOk

\* What the calls do to the stores.
LEMMA StoresTouched ==
  ASSUME SignupInv, NEW ip, NEW em, TouchBoth(ip, em), UNCHANGED <<ipHist, emailHist>>
  PROVE  /\ DOMAIN ipStore' = Ips /\ ipStore' \in [Ips -> Records]
         /\ DOMAIN emailStore' = EmailKeys /\ emailStore' \in [EmailKeys -> Records]
         /\ \A k \in Ips : KeyOk(ipStore'[k], ipHist'[k], MaxIp)
         /\ \A k \in EmailKeys : KeyOk(emailStore'[k], emailHist'[k], MaxEmail)
<1>1. /\ ipStore' = [ipStore EXCEPT ![ip] = getOrCreateRecord(ipStore[ip])]
      /\ emailStore' = [emailStore EXCEPT ![em] = getOrCreateRecord(emailStore[em])]
  BY DEF TouchBoth, Touch
<1>2. /\ DOMAIN ipStore = Ips /\ ipStore \in [Ips -> Records]
      /\ DOMAIN emailStore = EmailKeys /\ emailStore \in [EmailKeys -> Records]
      /\ \A k \in Ips : KeyOk(ipStore[k], ipHist[k], MaxIp)
      /\ \A k \in EmailKeys : KeyOk(emailStore[k], emailHist[k], MaxEmail)
  BY DEF SignupInv
<1>3. ASSUME NEW k \in Ips PROVE KeyOk(ipStore'[k], ipHist'[k], MaxIp)
  <2>1. ipStore'[k] = ipStore[k] \/ ipStore'[k] = getOrCreateRecord(ipStore[k])
    BY <1>1, <1>2
  <2> QED BY <1>2, <2>1, KeyTouched, SignupAssumption
<1>4. ASSUME NEW k \in EmailKeys PROVE KeyOk(emailStore'[k], emailHist'[k], MaxEmail)
  <2>1. emailStore'[k] = emailStore[k] \/ emailStore'[k] = getOrCreateRecord(emailStore[k])
    BY <1>1, <1>2
  <2> QED BY <1>2, <2>1, KeyTouched, SignupAssumption
<1>5. \A k \in Ips : ipStore'[k] \in Records
  BY <1>3 DEF KeyOk
<1>6. \A k \in EmailKeys : emailStore'[k] \in Records
  BY <1>4 DEF KeyOk
<1>7. ipStore' \in [Ips -> Records] /\ emailStore' \in [EmailKeys -> Records]
  BY <1>1, <1>2, <1>5, <1>6
<1> QED BY <1>3, <1>4, <1>7

LEMMA StoresBumped ==
  ASSUME SignupInv, NEW ip, NEW em, Allowed(ip, em), recordAttempt(ip, em)
  PROVE  /\ DOMAIN ipStore' = Ips /\ DOMAIN ipHist' = Ips /\ ipStore' \in [Ips -> Records]
         /\ DOMAIN emailStore' = EmailKeys /\ DOMAIN emailHist' = EmailKeys
         /\ emailStore' \in [EmailKeys -> Records]
         /\ \A k \in Ips : KeyOk(ipStore'[k], ipHist'[k], MaxIp)
         /\ \A k \in EmailKeys : KeyOk(emailStore'[k], emailHist'[k], MaxEmail)
         /\ globalRecord' \in Records /\ globalRecord'.n =< MaxGlobal
<1>1. /\ ipStore' = [ipStore EXCEPT ![ip] = [n |-> getOrCreateRecord(ipStore[ip]).n + 1, ttl |-> Window]]
      /\ emailStore' = [emailStore EXCEPT ![em] = [n |-> getOrCreateRecord(emailStore[em]).n + 1, ttl |-> Window]]
      /\ ipHist' = [ipHist EXCEPT ![ip] = Noted(ipHist[ip])]
      /\ emailHist' = [emailHist EXCEPT ![em] = Noted(emailHist[em])]
      /\ globalRecord' = IF globalRecord.ttl < 0 THEN [n |-> 1, ttl |-> Window]
                         ELSE [globalRecord EXCEPT !.n = globalRecord.n + 1]
  BY DEF recordAttempt, Bump
<1>2. /\ DOMAIN ipStore = Ips /\ ipStore \in [Ips -> Records] /\ DOMAIN ipHist = Ips
      /\ DOMAIN emailStore = EmailKeys /\ emailStore \in [EmailKeys -> Records] /\ DOMAIN emailHist = EmailKeys
      /\ \A k \in Ips : KeyOk(ipStore[k], ipHist[k], MaxIp)
      /\ \A k \in EmailKeys : KeyOk(emailStore[k], emailHist[k], MaxEmail)
      /\ globalRecord \in Records /\ globalRecord.n =< MaxGlobal
  BY DEF SignupInv
<1>a. /\ ~(globalRecord.n >= MaxGlobal) /\ ~(getOrCreateRecord(ipStore[ip]).n >= MaxIp)
      /\ ~(getOrCreateRecord(emailStore[em]).n >= MaxEmail)
  BY DEF Allowed, GlobalFull, IpFull, EmailFull, attemptCount
<1>3. ASSUME NEW k \in Ips PROVE KeyOk(ipStore'[k], ipHist'[k], MaxIp)
  <2>1. CASE k = ip
    <3>1. /\ ipStore'[k] = [n |-> getOrCreateRecord(ipStore[k]).n + 1, ttl |-> Window]
          /\ ipHist'[k] = Noted(ipHist[k])
      BY <1>1, <1>2, <2>1
    <3>2. KeyOk(getOrCreateRecord(ipStore[k]), ipHist[k], MaxIp)
      BY <1>2, KeyTouched, SignupAssumption
    <3>3. getOrCreateRecord(ipStore[k]).n \in Nat
      BY <3>2, SignupAssumption DEF KeyOk, Records
    <3>4. getOrCreateRecord(ipStore[k]).n < MaxIp
      BY <1>a, <2>1, <3>3, SignupAssumption
    <3> QED BY <1>2, <3>1, <3>4, KeyBumped
  <2>2. CASE k # ip
    <3>1. ipStore'[k] = ipStore[k] /\ ipHist'[k] = ipHist[k]
      BY <1>1, <1>2, <2>2
    <3> QED BY <1>2, <3>1
  <2> QED BY <2>1, <2>2
<1>4. ASSUME NEW k \in EmailKeys PROVE KeyOk(emailStore'[k], emailHist'[k], MaxEmail)
  <2>1. CASE k = em
    <3>1. /\ emailStore'[k] = [n |-> getOrCreateRecord(emailStore[k]).n + 1, ttl |-> Window]
          /\ emailHist'[k] = Noted(emailHist[k])
      BY <1>1, <1>2, <2>1
    <3>2. KeyOk(getOrCreateRecord(emailStore[k]), emailHist[k], MaxEmail)
      BY <1>2, KeyTouched, SignupAssumption
    <3>3. getOrCreateRecord(emailStore[k]).n \in Nat
      BY <3>2, SignupAssumption DEF KeyOk, Records
    <3>4. getOrCreateRecord(emailStore[k]).n < MaxEmail
      BY <1>a, <2>1, <3>3, SignupAssumption
    <3> QED BY <1>2, <3>1, <3>4, KeyBumped
  <2>2. CASE k # em
    <3>1. emailStore'[k] = emailStore[k] /\ emailHist'[k] = emailHist[k]
      BY <1>1, <1>2, <2>2
    <3> QED BY <1>2, <3>1
  <2> QED BY <2>1, <2>2
<1>5. \A k \in Ips : ipStore'[k] \in Records
  BY <1>3 DEF KeyOk
<1>6. \A k \in EmailKeys : emailStore'[k] \in Records
  BY <1>4 DEF KeyOk
<1>7. ipStore' \in [Ips -> Records] /\ emailStore' \in [EmailKeys -> Records]
  BY <1>1, <1>2, <1>5, <1>6
<1>8. DOMAIN ipHist' = Ips /\ DOMAIN emailHist' = EmailKeys
  BY <1>1, <1>2
<1>9. globalRecord' \in Records /\ globalRecord'.n =< MaxGlobal
  BY <1>1, <1>2, <1>a, SignupAssumption DEF Records
<1> QED BY <1>3, <1>4, <1>7, <1>8, <1>9

LEMMA SignupStarts == SignupInit => SignupInv
<1> SUFFICES ASSUME SignupInit PROVE SignupInv
  OBVIOUS
<1>1. \A max \in Nat : KeyOk(NoRecord, {}, max)
  <2>1. NoRecord \in Records /\ NoRecord.n = 0 /\ NoRecord.ttl = -1
    BY SignupAssumption DEF NoRecord, Records
  <2>2. Cardinality({}) = 0 /\ IsFiniteSet({})
    BY FS_EmptySet
  <2> QED BY <2>1, <2>2 DEF KeyOk
<1>2. Fresh \in Records /\ Fresh.n =< MaxGlobal
  BY SignupAssumption DEF Fresh, Records
<1>3. SignupOk(Idle)
  BY DEF SignupOk, Idle, Stages
<1>4. NoRecord \in Records
  BY SignupAssumption DEF NoRecord, Records
<1>5. /\ DOMAIN ipStore = Ips /\ DOMAIN ipHist = Ips /\ ipStore \in [Ips -> Records]
      /\ DOMAIN emailStore = EmailKeys /\ DOMAIN emailHist = EmailKeys /\ emailStore \in [EmailKeys -> Records]
  BY <1>4 DEF SignupInit
<1>6. /\ \A k \in Ips : KeyOk(ipStore[k], ipHist[k], MaxIp)
      /\ \A k \in EmailKeys : KeyOk(emailStore[k], emailHist[k], MaxEmail)
  BY <1>1, SignupAssumption DEF SignupInit
<1>7. OneAccountPerEmail
  BY DEF SignupInit, OneAccountPerEmail
<1> QED BY <1>2, <1>3, <1>5, <1>6, <1>7 DEF SignupInv, SignupInit

\* A request that takes its next stage.
LEMMA StageSet ==
  ASSUME SignupInv, NEW s \in SignupSlots, NEW new, SignupOk(new), signups' = [signups EXCEPT ![s] = new]
  PROVE  DOMAIN signups' = SignupSlots /\ \A t \in SignupSlots : SignupOk(signups'[t])
BY DEF SignupInv

LEMMA StageNamed ==
  ASSUME SignupInv, NEW s \in SignupSlots, NEW x \in Stages, signups' = [signups EXCEPT ![s].stage = x]
  PROVE  DOMAIN signups' = SignupSlots /\ \A t \in SignupSlots : SignupOk(signups'[t])
<1>1. SignupOk([signups[s] EXCEPT !.stage = x])
  BY DEF SignupInv, SignupOk
<1>2. signups' = [signups EXCEPT ![s] = [signups[s] EXCEPT !.stage = x]]
  OBVIOUS
<1> QED BY <1>1, <1>2, StageSet

LEMMA StageEntered ==
  ASSUME SignupInv, NEW s \in SignupSlots, NEW x \in Stages, NEW ip, NEW em, NEW w, Enter(s, x, ip, em, w)
  PROVE  DOMAIN signups' = SignupSlots /\ \A t \in SignupSlots : SignupOk(signups'[t])
<1>1. SignupOk([stage |-> x, ip |-> ip, email |-> em, wait |-> w])
  BY DEF SignupOk
<1> QED BY <1>1, StageSet DEF Enter

\* Steps that only read the stores, or leave a live record behind.
LEMMA StoresQuiet ==
  ASSUME SignupInv, UNCHANGED <<globalRecord, ipHist, emailHist>>,
         \/ UNCHANGED <<ipStore, emailStore>>
         \/ \E ip, em : TouchBoth(ip, em),
         OneAccountPerEmail',
         DOMAIN signups' = SignupSlots /\ \A t \in SignupSlots : SignupOk(signups'[t])
  PROVE  SignupInv'
<1>1. CASE UNCHANGED <<ipStore, emailStore>>
  BY <1>1 DEF SignupInv
<1>2. CASE \E ip, em : TouchBoth(ip, em)
  BY <1>2, StoresTouched DEF SignupInv
<1> QED BY <1>1, <1>2

\* Every step keeps it.
LEMMA SignupStep == SignupInv /\ [SignupNext]_signupVars => SignupInv'
<1> SUFFICES ASSUME SignupInv, [SignupNext]_signupVars PROVE SignupInv'
  OBVIOUS
<1>0. OneAccountPerEmail /\ DOMAIN signups = SignupSlots /\ \A s \in SignupSlots : SignupOk(signups[s])
  BY DEF SignupInv
<1>s. /\ {"invalid", "limited", "exists", "hashing", "race", "failed", "created"} \subseteq Stages
      /\ SignupOk(Idle)
  BY DEF SignupOk, Idle, Stages
<1>u. users' = users => OneAccountPerEmail'
  BY <1>0 DEF OneAccountPerEmail
<1>1. ASSUME NEW s \in SignupSlots, NEW ip, NEW em, NEW v, SignupInvalid(s, ip, em, v) PROVE SignupInv'
  <2>1. /\ Enter(s, "invalid", ip, em, 0)
        /\ UNCHANGED <<ipStore, emailStore, globalRecord, users, ipHist, emailHist>>
    BY <1>1 DEF SignupInvalid
  <2>2. DOMAIN signups' = SignupSlots /\ \A t \in SignupSlots : SignupOk(signups'[t])
    BY <1>s, <2>1, StageEntered
  <2> QED BY <1>u, <2>1, <2>2, StoresQuiet
<1>2. ASSUME NEW s \in SignupSlots, NEW ip, NEW em, SignupLimited(s, ip, em) PROVE SignupInv'
  <2>1. /\ TouchBoth(ip, em) /\ Enter(s, "limited", ip, em, SuggestedDelay(ip, em))
        /\ UNCHANGED <<globalRecord, users, ipHist, emailHist>>
    BY <1>2 DEF SignupLimited
  <2>2. DOMAIN signups' = SignupSlots /\ \A t \in SignupSlots : SignupOk(signups'[t])
    BY <1>s, <2>1, StageEntered
  <2> QED BY <1>u, <2>1, <2>2, StoresQuiet
<1>3. ASSUME NEW s \in SignupSlots, NEW ip, NEW em, SignupAdmitted(s, ip, em) PROVE SignupInv'
  <2>1. /\ Allowed(ip, em) /\ recordAttempt(ip, em) /\ UNCHANGED users
        /\ Enter(s, "exists", ip, em, 0) \/ Enter(s, "hashing", ip, em, 0)
    BY <1>3 DEF SignupAdmitted
  <2>2. DOMAIN signups' = SignupSlots /\ \A t \in SignupSlots : SignupOk(signups'[t])
    BY <1>s, <2>1, StageEntered
  <2> QED BY <1>u, <2>1, <2>2, StoresBumped DEF SignupInv
<1>4. ASSUME NEW s \in SignupSlots, HashDone(s) PROVE SignupInv'
  <2>1. /\ UNCHANGED <<ipStore, emailStore, globalRecord, ipHist, emailHist>>
        /\ \/ signups' = [signups EXCEPT ![s].stage = "race"] /\ UNCHANGED users
           \/ /\ ~Registered(signups[s].email)
              /\ users' = users \cup {[email |-> signups[s].email, n |-> Cardinality(users)]}
              /\ signups' = [signups EXCEPT ![s].stage = "created"]
    BY <1>4 DEF HashDone, CreateUser
  <2>2. DOMAIN signups' = SignupSlots /\ \A t \in SignupSlots : SignupOk(signups'[t])
    BY <1>s, <2>1, StageNamed
  <2>3. OneAccountPerEmail'
    <3>1. CASE UNCHANGED users
      BY <1>u, <3>1
    <3>2. CASE /\ ~Registered(signups[s].email)
               /\ users' = users \cup {[email |-> signups[s].email, n |-> Cardinality(users)]}
      BY <1>0, <3>2 DEF OneAccountPerEmail, Registered
    <3> QED BY <2>1, <3>1, <3>2
  <2> QED BY <2>1, <2>2, <2>3, StoresQuiet
<1>5. ASSUME NEW s \in SignupSlots, HashFails(s) PROVE SignupInv'
  <2>1. /\ TouchBoth(signups[s].ip, signups[s].email) /\ signups' = [signups EXCEPT ![s].stage = "failed"]
        /\ UNCHANGED <<globalRecord, users, ipHist, emailHist>>
    BY <1>5 DEF HashFails
  <2>2. DOMAIN signups' = SignupSlots /\ \A t \in SignupSlots : SignupOk(signups'[t])
    BY <1>s, <2>1, StageNamed
  <2> QED BY <1>u, <2>1, <2>2, StoresQuiet
<1>6. ASSUME NEW s \in SignupSlots, Answer(s) PROVE SignupInv'
  <2>1. /\ TouchBoth(signups[s].ip, signups[s].email) /\ signups' = [signups EXCEPT ![s] = Idle]
        /\ UNCHANGED <<globalRecord, users, ipHist, emailHist>>
    BY <1>6 DEF Answer
  <2>2. DOMAIN signups' = SignupSlots /\ \A t \in SignupSlots : SignupOk(signups'[t])
    BY <1>s, <2>1, StageSet
  <2> QED BY <1>u, <2>1, <2>2, StoresQuiet
<1>7. ASSUME NEW ip, NEW em, checkSignupAvailability(ip, em) PROVE SignupInv'
  <2>1. TouchBoth(ip, em) /\ UNCHANGED <<globalRecord, users, signups, ipHist, emailHist>>
    BY <1>7 DEF checkSignupAvailability
  <2> QED BY <1>0, <1>u, <2>1, StoresQuiet
<1>8. CASE SignupCleanup
  <2>1. /\ ipStore' = [k \in DOMAIN ipStore |-> IF ipStore[k].ttl < 0 THEN NoRecord ELSE ipStore[k]]
        /\ emailStore' = [k \in DOMAIN emailStore |-> IF emailStore[k].ttl < 0 THEN NoRecord ELSE emailStore[k]]
        /\ globalRecord' = (IF globalRecord.ttl < 0 THEN Fresh ELSE globalRecord)
        /\ UNCHANGED <<users, signups, ipHist, emailHist>>
    BY <1>8 DEF SignupCleanup, DropExpired
  <2>2. ASSUME NEW k \in Ips PROVE KeyOk(ipStore'[k], ipHist'[k], MaxIp)
    <3>1. KeyOk(ipStore[k], ipHist[k], MaxIp) /\ ipHist'[k] = ipHist[k]
      BY <2>1 DEF SignupInv
    <3>2. ipStore'[k] = IF ipStore[k].ttl < 0 THEN NoRecord ELSE ipStore[k]
      BY <2>1 DEF SignupInv
    <3> QED BY <3>1, <3>2, KeyDropped, SignupAssumption
  <2>3. ASSUME NEW k \in EmailKeys PROVE KeyOk(emailStore'[k], emailHist'[k], MaxEmail)
    <3>1. KeyOk(emailStore[k], emailHist[k], MaxEmail) /\ emailHist'[k] = emailHist[k]
      BY <2>1 DEF SignupInv
    <3>2. emailStore'[k] = IF emailStore[k].ttl < 0 THEN NoRecord ELSE emailStore[k]
      BY <2>1 DEF SignupInv
    <3> QED BY <3>1, <3>2, KeyDropped, SignupAssumption
  <2>4. DOMAIN ipStore' = Ips /\ DOMAIN emailStore' = EmailKeys
    BY <2>1 DEF SignupInv
  <2>5. ipStore' \in [Ips -> Records] /\ emailStore' \in [EmailKeys -> Records]
    <3>1. (\A k \in Ips : ipStore'[k] \in Records) /\ \A k \in EmailKeys : emailStore'[k] \in Records
      BY <2>2, <2>3 DEF KeyOk
    <3> QED BY <2>1, <2>4, <3>1
  <2>6. globalRecord' \in Records /\ globalRecord'.n =< MaxGlobal
    <3>1. Fresh \in Records /\ Fresh.n =< MaxGlobal
      BY SignupAssumption DEF Fresh, Records
    <3> QED BY <2>1, <3>1 DEF SignupInv
  <2> QED BY <1>u, <2>1, <2>2, <2>3, <2>4, <2>5, <2>6 DEF SignupInv
<1>9. CASE SignupTick
  <2>1. /\ ipStore' = [k \in DOMAIN ipStore |-> Older(ipStore[k])]
        /\ emailStore' = [k \in DOMAIN emailStore |-> Older(emailStore[k])]
        /\ globalRecord' = Older(globalRecord)
        /\ signups' = [s \in SignupSlots |->
             IF signups[s].stage = "limited" THEN [signups[s] EXCEPT !.wait = Max({0, signups[s].wait - 1})]
             ELSE signups[s]]
        /\ ipHist' = [k \in Ips |-> Shift(ipHist[k])]
        /\ emailHist' = [k \in EmailKeys |-> Shift(emailHist[k])]
        /\ UNCHANGED users
    BY <1>9 DEF SignupTick
  <2>2. ASSUME NEW k \in Ips PROVE KeyOk(ipStore'[k], ipHist'[k], MaxIp)
    <3>1. KeyOk(ipStore[k], ipHist[k], MaxIp) /\ ipHist'[k] = Shift(ipHist[k]) /\ ipStore'[k] = Older(ipStore[k])
      BY <2>1 DEF SignupInv
    <3> QED BY <3>1, KeyAged, SignupAssumption
  <2>3. ASSUME NEW k \in EmailKeys PROVE KeyOk(emailStore'[k], emailHist'[k], MaxEmail)
    <3>1. /\ KeyOk(emailStore[k], emailHist[k], MaxEmail) /\ emailHist'[k] = Shift(emailHist[k])
          /\ emailStore'[k] = Older(emailStore[k])
      BY <2>1 DEF SignupInv
    <3> QED BY <3>1, KeyAged, SignupAssumption
  <2>4. /\ DOMAIN ipStore' = Ips /\ DOMAIN emailStore' = EmailKeys
        /\ DOMAIN ipHist' = Ips /\ DOMAIN emailHist' = EmailKeys
    BY <2>1 DEF SignupInv
  <2>5. ipStore' \in [Ips -> Records] /\ emailStore' \in [EmailKeys -> Records]
    <3>1. (\A k \in Ips : ipStore'[k] \in Records) /\ \A k \in EmailKeys : emailStore'[k] \in Records
      BY <2>2, <2>3 DEF KeyOk
    <3> QED BY <2>1, <2>4, <3>1
  <2>6. globalRecord' \in Records /\ globalRecord'.n =< MaxGlobal
    <3>1. KeyOk(globalRecord, {}, MaxGlobal)
      <4>1. Cardinality({}) = 0 /\ IsFiniteSet({})
        BY FS_EmptySet
      <4>2. globalRecord \in Records /\ globalRecord.n =< MaxGlobal
        BY DEF SignupInv
      <4>3. 0 =< globalRecord.n
        BY <4>2, SignupAssumption DEF Records
      <4> QED BY <4>1, <4>2, <4>3 DEF KeyOk
    <3> QED BY <2>1, <3>1, KeyAged, SignupAssumption DEF KeyOk
  <2>7. DOMAIN signups' = SignupSlots /\ \A t \in SignupSlots : SignupOk(signups'[t])
    <3>1. ASSUME NEW t \in SignupSlots PROVE SignupOk(signups'[t])
      <4> DEFINE w == Max({0, signups[t].wait - 1})
      <4>1. signups'[t] = signups[t] \/ signups'[t] = [signups[t] EXCEPT !.wait = w]
        BY <2>1
      <4> HIDE DEF w
      <4>2. SignupOk(signups[t])
        BY <1>0
      <4>3. SignupOk([signups[t] EXCEPT !.wait = w])
        BY <4>2 DEF SignupOk
      <4> QED BY <4>1, <4>2, <4>3
    <3>2. DOMAIN signups' = SignupSlots
      BY <2>1
    <3> QED BY <3>1, <3>2
  <2> QED BY <1>u, <2>1, <2>2, <2>3, <2>4, <2>5, <2>6, <2>7 DEF SignupInv
<1>10. CASE UNCHANGED signupVars
  BY <1>10 DEF signupVars, SignupInv, OneAccountPerEmail
<1>11. ASSUME NEW s \in SignupSlots, Call(s) PROVE SignupInv'
  BY <1>1, <1>2, <1>3, <1>11 DEF Call
<1> QED BY <1>4, <1>5, <1>6, <1>7, <1>8, <1>9, <1>10, <1>11 DEF SignupNext

\* Overlapping signups make one account per address, and no stretch of windowMs holds more
\* admitted attempts of an address or for an email than the limit, through expiries,
\* cleanups, failures and availability calls (services/auth/signup.ts,
\* utils/signupRateLimiter.ts).
THEOREM SignupIsGuarded == SignupSpec => []SignupGuarded
<1>1. SignupInv => SignupGuarded
  <2> SUFFICES ASSUME SignupInv PROVE SignupGuarded
    OBVIOUS
  <2>1. SignupTypeOK
    BY DEF SignupInv, SignupTypeOK, SignupOk
  <2>2. ASSUME NEW i \in Ips PROVE Cardinality(ipHist[i]) =< MaxIp
    <3>1. KeyOk(ipStore[i], ipHist[i], MaxIp)
      BY DEF SignupInv
    <3>2. Cardinality(ipHist[i]) \in Nat /\ ipStore[i].n \in Nat
      BY <3>1, FS_CardinalityType, SignupAssumption DEF KeyOk, Records
    <3> QED BY <3>1, <3>2, SignupAssumption DEF KeyOk
  <2>3. ASSUME NEW e \in EmailKeys PROVE Cardinality(emailHist[e]) =< MaxEmail
    <3>1. KeyOk(emailStore[e], emailHist[e], MaxEmail)
      BY DEF SignupInv
    <3>2. Cardinality(emailHist[e]) \in Nat /\ emailStore[e].n \in Nat
      BY <3>1, FS_CardinalityType, SignupAssumption DEF KeyOk, Records
    <3> QED BY <3>1, <3>2, SignupAssumption DEF KeyOk
  <2> QED BY <2>1, <2>2, <2>3 DEF SignupInv, SignupGuarded, WindowLimitHolds
<1> QED BY <1>1, SignupStarts, SignupStep, PTL DEF SignupSpec

(***************************************************************************)
(* RateLimiter, for any requests, limit, window and breaker settings: what *)
(* a window admits, and how often a broken Redis is tried.                 *)
(***************************************************************************)

\* The admissions a fixed window counts: those since its record began.
Counted(rec, h) == {m \in h : m[1] + rec.ttl =< LimWindow}

\* A stretch of windowMs holds the admissions of the current record and of the one before
\* it, each within the limit; a record that is over counts no admission of this instant.
FixedOk(p, rec, h) ==
  /\ Cardinality(Counted(rec, h)) =< rec.n
  /\ Cardinality(Counted(rec, h)) =< LimMax
  /\ Cardinality(h \ Counted(rec, h)) =< LimMax
  /\ WindowOver(p, rec) => \A m \in h : m[1] # 0

\* A sliding window has seen whatever it admitted as far back as it remembers.
SlidingOk(p, seen, h) == Recent(p, h) \subseteq seen /\ Cardinality(Recent(p, h)) =< LimMax

LimRecords == [n : 0..Cap, ttl : -1..LimWindow]
Members == Ages \X Nat

StoresInv ==
  /\ algo \in Algos
  /\ fixed \in [Places -> LimRecords]
  /\ sliding \in [Places -> SUBSET Members] /\ admitted \in [Places -> SUBSET Members]
  /\ \A p \in Places : IsFiniteSet(sliding[p]) /\ IsFiniteSet(admitted[p])
  /\ algo = "fixed" => \A p \in Places : FixedOk(p, fixed[p], admitted[p])
  /\ algo = "sliding" => \A p \in Places : SlidingOk(p, sliding[p], admitted[p])

SentCalls == [stage : {"sent"}, redirs : Nat, attempt : Nat, probe : BOOLEAN]
BreakerStates == [state : {"CLOSED", "OPEN", "HALF_OPEN"}, failures : 0..Threshold, wait : 0..Reset]

\* When the wait of a breaker that is not closed is over, the last probe is Reset ago.
BreakerOk(b, age) ==
  /\ b \in BreakerStates
  /\ b.state = "CLOSED" => b.failures < Threshold
  /\ b.state # "CLOSED" => b.wait + age >= Reset

BreakerInv ==
  /\ redisUp \in BOOLEAN /\ faults \in 0..MaxFaults /\ store \in Places \cup {"connecting"}
  /\ probeAge \in Nat /\ BreakerOk(breaker, probeAge)
  /\ calls \in [LimSlots -> SentCalls \cup {IdleCall}]
  /\ algo = "sliding" => \A s \in LimSlots : calls[s] # IdleCall => ~calls[s].probe

LEMMA MemberIsFresh ==
  ASSUME StoresInv, NEW p \in Places
  PROVE  NewMember(p) \in Members /\ NewMember(p)[1] = 0
<1> DEFINE known == sliding[p] \cup admitted[p]
           k == CHOOSE k \in 0..Cardinality(known) : <<0, k>> \notin known
<1>1. IsFiniteSet(known)
  BY FS_Union DEF StoresInv
<1>2. k \in 0..Cardinality(known) /\ Cardinality(known) \in Nat
  BY <1>1, NoteIsNew, FS_CardinalityType
<1>3. NewMember(p) = <<0, k>>
  BY DEF NewMember
<1> HIDE DEF k, known
<1>4. 0 \in Ages /\ k \in Nat
  BY <1>2, LimAssumption DEF Ages
<1> QED BY <1>3, <1>4 DEF Members

\* A tick later, but for what leaves the window.
LEMMA AgedKeeps ==
  ASSUME NEW M \in SUBSET Members, IsFiniteSet(M)
  PROVE  /\ Aged(M) \in SUBSET Members /\ IsFiniteSet(Aged(M))
         /\ Cardinality(Aged(M)) =< Cardinality(M)
         /\ \A m \in Aged(M) : m[1] # 0
<1> DEFINE Y == {x \in M : x[1] + 1 < LimWindow}
           f == [m \in Y |-> <<m[1] + 1, m[2]>>]
<1>1. f \in Surjection(Y, Aged(M))
  BY DEF Surjection, Aged
<1>2. \A x \in Y : x[1] \in Nat /\ x[2] \in Nat /\ x[1] + 1 \in Ages
  BY LimAssumption DEF Members, Ages
<1>3. Aged(M) \in SUBSET Members
  BY <1>2 DEF Aged, Members
<1>4. \A m \in Aged(M) : m[1] # 0
  BY <1>2 DEF Aged
<1>5. Y \in SUBSET M
  OBVIOUS
<1> HIDE DEF f, Y
<1>6. IsFiniteSet(Y) /\ Cardinality(Y) =< Cardinality(M)
  BY <1>5, FS_Subset
<1>7. IsFiniteSet(Aged(M)) /\ Cardinality(Aged(M)) =< Cardinality(Y)
  BY <1>1, <1>6, FS_Surjection
<1>8. Cardinality(Aged(M)) \in Nat /\ Cardinality(Y) \in Nat /\ Cardinality(M) \in Nat
  BY <1>6, <1>7, FS_CardinalityType
<1> QED BY <1>3, <1>4, <1>6, <1>7, <1>8

\* Every store remembers the requests of this instant.
LEMMA RemembersNow == \A p \in Places : Memory(p) \in Nat /\ 0 < Memory(p)
BY LimAssumption DEF Memory, UpTo

LEMMA CountsFinite ==
  ASSUME NEW rec \in LimRecords, NEW h \in SUBSET Members, IsFiniteSet(h)
  PROVE  /\ IsFiniteSet(Counted(rec, h)) /\ Cardinality(Counted(rec, h)) \in Nat
         /\ IsFiniteSet(h \ Counted(rec, h)) /\ Cardinality(h \ Counted(rec, h)) \in Nat
         /\ Counted(rec, h) \in SUBSET Members /\ (h \ Counted(rec, h)) \in SUBSET Members
<1>1. Counted(rec, h) \in SUBSET h /\ (h \ Counted(rec, h)) \in SUBSET h
  BY DEF Counted
<1>2. IsFiniteSet(Counted(rec, h)) /\ IsFiniteSet(h \ Counted(rec, h))
  BY <1>1, FS_Subset
<1> QED BY <1>1, <1>2, FS_CardinalityType

\* One more request on the fixed window of p: it begins a record or counts in the current one.
LEMMA FixedCounts ==
  ASSUME StoresInv, NEW p \in Places, FixedOk(p, fixed[p], admitted[p])
  PROVE  /\ FixedAfter(p) \in LimRecords
         /\ FixedAfter(p).n =< LimMax => FixedOk(p, FixedAfter(p), admitted[p] \cup {NewMember(p)})
         /\ FixedAfter(p).n > LimMax => FixedOk(p, FixedAfter(p), admitted[p])
<1> DEFINE old == fixed[p]
           h == admitted[p]
           m == NewMember(p)
           new == FixedAfter(p)
           start == [n |-> 0, ttl |-> LimWindow]
<1>1. old \in LimRecords /\ h \in SUBSET Members /\ IsFiniteSet(h)
  BY DEF StoresInv
<1>2. old.n \in 0..Cap /\ old.ttl \in -1..LimWindow /\ old = [n |-> old.n, ttl |-> old.ttl]
  BY <1>1 DEF LimRecords
<1>3. m \in Members /\ m[1] = 0
  BY MemberIsFresh
<1>4. \A x \in h : x[1] \in Nat /\ x[1] < LimWindow
  BY <1>1, LimAssumption DEF Members, Ages
<1>5. /\ IsFiniteSet(Counted(old, h)) /\ Cardinality(Counted(old, h)) \in Nat
      /\ IsFiniteSet(h \ Counted(old, h)) /\ Cardinality(h \ Counted(old, h)) \in Nat
  BY <1>1, CountsFinite
<1>6. IsFiniteSet({}) /\ Cardinality({}) = 0
  BY FS_EmptySet
<1>7. CASE WindowOver(p, old)
  <2>1. old.ttl =< 0
    BY <1>2, <1>7 DEF WindowOver
  <2>2. Counted(old, h) = h
    BY <1>2, <1>4, <2>1, LimAssumption DEF Counted
  <2>3. IsFiniteSet(h) /\ Cardinality(h) \in Nat /\ Cardinality(h) =< LimMax
    BY <1>5, <2>2 DEF FixedOk
  <2>4. \A x \in h : x[1] # 0
    BY <1>7 DEF FixedOk
  <2>5. new = [n |-> 1, ttl |-> LimWindow]
    BY <1>7, LimAssumption DEF FixedAfter, UpTo, Cap
  <2>6. new.n = 1 /\ new.ttl = LimWindow /\ new \in LimRecords
    BY <2>5, LimAssumption DEF LimRecords, Cap
  <2>7. ~WindowOver(p, new)
    BY <2>6, LimAssumption DEF WindowOver
  <2>8. Counted(new, h) = {} /\ Counted(new, h \cup {m}) = {m}
    BY <1>3, <1>4, <2>4, <2>6, LimAssumption DEF Counted
  <2>9. h \ Counted(new, h) = h /\ (h \cup {m}) \ Counted(new, h \cup {m}) = h
    BY <1>3, <2>4, <2>8
  <2>10. Cardinality({m}) = 1
    BY FS_Singleton
  <2> HIDE DEF new, m, h
  <2>11. new.n =< LimMax => FixedOk(p, new, h \cup {m})
    <3>1. Cardinality(Counted(new, h \cup {m})) = 1
      BY <2>8, <2>10
    <3>2. Cardinality((h \cup {m}) \ Counted(new, h \cup {m})) =< LimMax
      BY <2>3, <2>9
    <3> QED BY <2>6, <2>7, <3>1, <3>2 DEF FixedOk
  <2>12. FixedOk(p, new, h)
    BY <1>6, <2>3, <2>6, <2>7, <2>8, <2>9, LimAssumption DEF FixedOk
  <2> QED BY <2>6, <2>11, <2>12 DEF new, m, h
<1>8. CASE ~WindowOver(p, old)
  <2>1. new = [n |-> UpTo(Cap, old.n + 1), ttl |-> old.ttl]
    BY <1>2, <1>8 DEF FixedAfter
  <2>2. UpTo(Cap, old.n + 1) \in 0..Cap /\ UpTo(Cap, old.n + 1) >= old.n
        /\ (UpTo(Cap, old.n + 1) =< LimMax => UpTo(Cap, old.n + 1) = old.n + 1)
    BY <1>2, LimAssumption DEF UpTo, Cap
  <2>3. new.ttl = old.ttl /\ new.n = UpTo(Cap, old.n + 1) /\ new \in LimRecords
    BY <1>2, <2>1, <2>2 DEF LimRecords
  <2>4. ~WindowOver(p, new)
    BY <1>8, <2>3 DEF WindowOver
  <2>5. Counted(new, h) = Counted(old, h) /\ Counted(new, h \cup {m}) = Counted(old, h) \cup {m}
    BY <1>2, <1>3, <2>3, LimAssumption DEF Counted
  <2>6. (h \cup {m}) \ Counted(new, h \cup {m}) \subseteq h \ Counted(old, h)
    BY <2>5
  <2>7. Cardinality(Counted(old, h) \cup {m}) =< Cardinality(Counted(old, h)) + 1
        /\ Cardinality(Counted(old, h) \cup {m}) \in Nat
    BY <1>5, FS_AddElement, FS_CardinalityType
  <2>8. Cardinality((h \cup {m}) \ Counted(new, h \cup {m})) =< Cardinality(h \ Counted(old, h))
        /\ Cardinality((h \cup {m}) \ Counted(new, h \cup {m})) \in Nat
    BY <1>5, <2>6, FS_Subset, FS_CardinalityType
  <2>9. Cardinality(Counted(old, h)) =< old.n /\ Cardinality(Counted(old, h)) =< LimMax
        /\ Cardinality(h \ Counted(old, h)) =< LimMax
    BY DEF FixedOk
  <2>10. new.n \in Nat /\ old.n \in Nat /\ new.n >= old.n /\ (new.n =< LimMax => new.n = old.n + 1)
    BY <1>2, <2>2, <2>3, LimAssumption DEF Cap
  <2> HIDE DEF new, m, h, old
  <2>11. new.n =< LimMax => FixedOk(p, new, h \cup {m})
    <3> SUFFICES ASSUME new.n =< LimMax PROVE FixedOk(p, new, h \cup {m})
      OBVIOUS
    <3> DEFINE a == Cardinality(Counted(old, h))
               b == Cardinality(Counted(old, h) \cup {m})
    <3>0. a \in Nat /\ b \in Nat /\ b =< a + 1 /\ a =< old.n
      BY <1>5, <2>7, <2>9
    <3>a. Cardinality(Counted(new, h \cup {m})) = b
      BY <2>5
    <3> HIDE DEF a, b
    <3>b. b =< new.n /\ b =< LimMax
      BY <2>10, <3>0, LimAssumption
    <3>1. Cardinality(Counted(new, h \cup {m})) =< new.n
      BY <3>a, <3>b
    <3>2. Cardinality(Counted(new, h \cup {m})) =< LimMax
      BY <3>a, <3>b
    <3>3. Cardinality((h \cup {m}) \ Counted(new, h \cup {m})) =< LimMax
      BY <1>5, <2>8, <2>9, LimAssumption
    <3> QED BY <2>4, <3>1, <3>2, <3>3 DEF FixedOk
  <2>12. FixedOk(p, new, h)
    <3>1. Cardinality(Counted(new, h)) =< new.n
      BY <1>5, <2>5, <2>9, <2>10
    <3> QED BY <2>4, <2>5, <2>9, <3>1 DEF FixedOk
  <2> QED BY <2>3, <2>11, <2>12 DEF new, m, h, old
<1> QED BY <1>7, <1>8

LEMMA FixedAges ==
  ASSUME NEW p \in Places, NEW rec \in LimRecords, NEW h \in SUBSET Members, IsFiniteSet(h),
         FixedOk(p, rec, h),
         NEW new, new = [rec EXCEPT !.ttl = IF @ < 0 THEN @ ELSE @ - 1]
  PROVE  new \in LimRecords /\ FixedOk(p, new, Aged(h))
<1> DEFINE A == Counted(rec, h)
           B == h \ Counted(rec, h)
           C == Counted(new, Aged(h))
           E == Aged(h) \ Counted(new, Aged(h))
<1>1. rec.n \in 0..Cap /\ rec.ttl \in -1..LimWindow
  BY DEF LimRecords
<1>2. new.n = rec.n /\ new.ttl = (IF rec.ttl < 0 THEN rec.ttl ELSE rec.ttl - 1) /\ new \in LimRecords
  BY <1>1, LimAssumption DEF LimRecords
<1>3. \A x \in h : x[1] \in Nat /\ x[1] < LimWindow
  BY LimAssumption DEF Members, Ages
<1>4. C \subseteq Aged(A)
  BY <1>1, <1>2, <1>3, LimAssumption DEF Counted, Aged
<1>5. E \subseteq Aged(B)
  BY <1>1, <1>2, <1>3, LimAssumption DEF Counted, Aged
<1>6. /\ IsFiniteSet(A) /\ IsFiniteSet(B) /\ A \in SUBSET Members /\ B \in SUBSET Members
      /\ Cardinality(A) \in Nat /\ Cardinality(B) \in Nat
  BY CountsFinite
<1>7. Cardinality(A) =< rec.n /\ Cardinality(A) =< LimMax /\ Cardinality(B) =< LimMax
  BY DEF FixedOk
<1> HIDE DEF A, B, C, E
<1>8. /\ IsFiniteSet(Aged(A)) /\ Cardinality(Aged(A)) =< Cardinality(A)
      /\ IsFiniteSet(Aged(B)) /\ Cardinality(Aged(B)) =< Cardinality(B)
  BY <1>6, AgedKeeps
<1>9. /\ Cardinality(C) =< Cardinality(Aged(A)) /\ IsFiniteSet(C)
      /\ Cardinality(E) =< Cardinality(Aged(B)) /\ IsFiniteSet(E)
  BY <1>4, <1>5, <1>8, FS_Subset
<1>10. /\ Cardinality(C) \in Nat /\ Cardinality(Aged(A)) \in Nat
       /\ Cardinality(E) \in Nat /\ Cardinality(Aged(B)) \in Nat
  BY <1>8, <1>9, FS_CardinalityType
<1>11. Cardinality(C) =< new.n /\ Cardinality(C) =< LimMax /\ Cardinality(E) =< LimMax
  BY <1>1, <1>2, <1>6, <1>7, <1>8, <1>9, <1>10, LimAssumption DEF Cap
<1>12. \A m \in Aged(h) : m[1] # 0
  BY AgedKeeps
<1> QED BY <1>2, <1>11, <1>12 DEF FixedOk, C, E

\* One more request on the sliding window of p.
LEMMA SlidingCounts ==
  ASSUME StoresInv, NEW p \in Places, SlidingOk(p, sliding[p], admitted[p])
  PROVE  /\ SlidingAfter(p) \in SUBSET Members /\ IsFiniteSet(SlidingAfter(p))
         /\ SlidingCount(p) =< LimMax => SlidingOk(p, SlidingAfter(p), admitted[p] \cup {NewMember(p)})
         /\ SlidingOk(p, SlidingAfter(p), admitted[p])
<1> DEFINE S == sliding[p]
           h == Recent(p, admitted[p])
           m == NewMember(p)
           now == {x \in S : x[1] = 0}
<1>0. h \in SUBSET admitted[p] /\ Recent(p, admitted[p] \cup {m}) = h \cup {m}
  BY MemberIsFresh, RemembersNow DEF Recent
<1>1. S \in SUBSET Members /\ IsFiniteSet(S) /\ h \in SUBSET Members /\ IsFiniteSet(h)
  BY <1>0, FS_Subset DEF StoresInv
<1>2. m \in Members
  BY MemberIsFresh
<1>3. SlidingAfter(p) = IF Cardinality(now) < Cap THEN S \cup {m} ELSE S
  BY DEF SlidingAfter
<1>4. now \in SUBSET S
  OBVIOUS
<1>5. h \subseteq S /\ Cardinality(h) =< LimMax
  BY DEF SlidingOk
<1>6. SlidingCount(p) = Cardinality(S) + 1
  BY DEF SlidingCount
<1> HIDE DEF S, h, m, now
<1>7. Cardinality(now) =< Cardinality(S) /\ Cardinality(h) =< Cardinality(S) /\ IsFiniteSet(now)
  BY <1>1, <1>4, <1>5, FS_Subset
<1>8. Cardinality(now) \in Nat /\ Cardinality(h) \in Nat /\ Cardinality(S) \in Nat
  BY <1>1, <1>7, FS_CardinalityType
<1>9. IsFiniteSet(S \cup {m}) /\ IsFiniteSet(h \cup {m})
      /\ Cardinality(h \cup {m}) = (IF m \in h THEN Cardinality(h) ELSE Cardinality(h) + 1)
  BY <1>1, FS_AddElement
<1>10. SlidingAfter(p) \in SUBSET Members /\ IsFiniteSet(SlidingAfter(p)) /\ h \subseteq SlidingAfter(p)
  BY <1>1, <1>2, <1>3, <1>5, <1>9
<1>11. ASSUME SlidingCount(p) =< LimMax
       PROVE  h \cup {m} \subseteq SlidingAfter(p) /\ Cardinality(h \cup {m}) =< LimMax
  <2>1. Cardinality(now) < Cap
    BY <1>6, <1>7, <1>8, <1>11, LimAssumption DEF Cap
  <2>2. Cardinality(h \cup {m}) =< LimMax
    BY <1>6, <1>7, <1>8, <1>9, <1>11, LimAssumption
  <2> QED BY <1>3, <1>5, <2>1, <2>2
<1> QED BY <1>0, <1>5, <1>10, <1>11 DEF SlidingOk, h, m

\* The end of a request keeps the stores within their limits.
LEMMA DecideKeeps ==
  ASSUME StoresInv, NEW s \in LimSlots, NEW p \in Places, Decide(s, p), algo' = algo
  PROVE  StoresInv'
<1> DEFINE count == IF algo = "fixed" THEN FixedAfter(p).n ELSE SlidingCount(p)
           m == NewMember(p)
<1>1. admitted' = IF count =< LimMax THEN [admitted EXCEPT ![p] = @ \cup {m}] ELSE admitted
  BY DEF Decide
<1>2. m \in Members
  BY MemberIsFresh
<1>3. admitted \in [Places -> SUBSET Members] /\ sliding \in [Places -> SUBSET Members]
      /\ fixed \in [Places -> LimRecords] /\ algo \in Algos
      /\ \A q \in Places : IsFiniteSet(sliding[q]) /\ IsFiniteSet(admitted[q])
  BY DEF StoresInv
<1>4. IsFiniteSet(admitted[p] \cup {m})
  BY <1>3, FS_AddElement
<1>5. /\ admitted' \in [Places -> SUBSET Members]
      /\ \A q \in Places : q # p => admitted'[q] = admitted[q]
      /\ admitted'[p] = IF count =< LimMax THEN admitted[p] \cup {m} ELSE admitted[p]
  <2> HIDE DEF m, count
  <2>1. CASE count =< LimMax
    BY <1>1, <1>2, <1>3, <2>1
  <2>2. CASE ~(count =< LimMax)
    BY <1>1, <1>3, <2>2
  <2> QED BY <2>1, <2>2
<1>6. \A q \in Places : IsFiniteSet(admitted'[q])
  BY <1>3, <1>4, <1>5
<1>7. CASE algo = "fixed"
  <2>1. fixed' = [fixed EXCEPT ![p] = FixedAfter(p)] /\ sliding' = sliding
    BY <1>7 DEF Decide
  <2>2. /\ FixedAfter(p) \in LimRecords
        /\ FixedAfter(p).n =< LimMax => FixedOk(p, FixedAfter(p), admitted[p] \cup {m})
        /\ FixedAfter(p).n > LimMax => FixedOk(p, FixedAfter(p), admitted[p])
    BY <1>7, FixedCounts DEF StoresInv
  <2>3. fixed' \in [Places -> LimRecords] /\ fixed'[p] = FixedAfter(p)
        /\ \A q \in Places : q # p => fixed'[q] = fixed[q]
    BY <1>3, <2>1, <2>2
  <2>4. FixedAfter(p).n \in Nat
    BY <2>2, LimAssumption DEF LimRecords, Cap
  <2>5. FixedOk(p, fixed'[p], admitted'[p])
    <3>1. CASE FixedAfter(p).n =< LimMax
      BY <1>5, <1>7, <2>2, <2>3, <3>1
    <3>2. CASE FixedAfter(p).n > LimMax
      BY <1>5, <1>7, <2>2, <2>3, <2>4, <3>2, LimAssumption
    <3> QED BY <2>4, <3>1, <3>2, LimAssumption
  <2>6. \A q \in Places : FixedOk(q, fixed'[q], admitted'[q])
    BY <1>5, <1>7, <2>3, <2>5 DEF StoresInv
  <2> QED BY <1>3, <1>5, <1>6, <1>7, <2>1, <2>3, <2>6 DEF StoresInv
<1>8. CASE algo = "sliding"
  <2>1. sliding' = [sliding EXCEPT ![p] = SlidingAfter(p)] /\ fixed' = fixed
    BY <1>8 DEF Decide
  <2>2. /\ SlidingAfter(p) \in SUBSET Members /\ IsFiniteSet(SlidingAfter(p))
        /\ SlidingCount(p) =< LimMax => SlidingOk(p, SlidingAfter(p), admitted[p] \cup {m})
        /\ SlidingOk(p, SlidingAfter(p), admitted[p])
    BY <1>8, SlidingCounts DEF StoresInv
  <2>3. sliding' \in [Places -> SUBSET Members] /\ sliding'[p] = SlidingAfter(p)
        /\ \A q \in Places : q # p => sliding'[q] = sliding[q]
    BY <1>3, <2>1, <2>2
  <2>4. SlidingOk(p, sliding'[p], admitted'[p])
    BY <1>5, <1>8, <2>2, <2>3
  <2>5. \A q \in Places : SlidingOk(q, sliding'[q], admitted'[q])
    BY <1>5, <1>8, <2>3, <2>4 DEF StoresInv
  <2>6. \A q \in Places : IsFiniteSet(sliding'[q])
    BY <1>3, <2>2, <2>3
  <2> QED BY <1>3, <1>5, <1>6, <1>8, <2>1, <2>3, <2>5, <2>6 DEF StoresInv
<1> QED BY <1>3, <1>7, <1>8 DEF Algos

LEMMA TickKeepsStores ==
  ASSUME StoresInv, LimTick
  PROVE  StoresInv'
<1>1. algo' = algo /\ algo \in Algos
      /\ sliding' = [p \in Places |-> Aged(sliding[p])] /\ admitted' = [p \in Places |-> Aged(admitted[p])]
  BY DEF LimTick, StoresInv
<1>2. fixed' = [p \in Places |-> [fixed[p] EXCEPT !.ttl = IF @ < 0 THEN @ ELSE @ - 1]]
  BY DEF LimTick
<1>3. ASSUME NEW p \in Places
      PROVE  /\ sliding'[p] \in SUBSET Members /\ IsFiniteSet(sliding'[p])
             /\ admitted'[p] \in SUBSET Members /\ IsFiniteSet(admitted'[p])
             /\ Cardinality(admitted'[p]) =< Cardinality(admitted[p])
             /\ Cardinality(admitted'[p]) \in Nat /\ Cardinality(admitted[p]) \in Nat
             /\ sliding'[p] = Aged(sliding[p]) /\ admitted'[p] = Aged(admitted[p])
  <2>1. /\ sliding[p] \in SUBSET Members /\ IsFiniteSet(sliding[p])
        /\ admitted[p] \in SUBSET Members /\ IsFiniteSet(admitted[p])
    BY DEF StoresInv
  <2>2. sliding'[p] = Aged(sliding[p]) /\ admitted'[p] = Aged(admitted[p])
    BY <1>1
  <2>3. /\ Aged(sliding[p]) \in SUBSET Members /\ IsFiniteSet(Aged(sliding[p]))
        /\ Aged(admitted[p]) \in SUBSET Members /\ IsFiniteSet(Aged(admitted[p]))
        /\ Cardinality(Aged(admitted[p])) =< Cardinality(admitted[p])
    BY <2>1, AgedKeeps
  <2>4. Cardinality(Aged(admitted[p])) \in Nat /\ Cardinality(admitted[p]) \in Nat
    BY <2>1, <2>3, FS_CardinalityType
  <2> QED BY <2>2, <2>3, <2>4
<1>4. sliding' \in [Places -> SUBSET Members] /\ admitted' \in [Places -> SUBSET Members]
  BY <1>1, <1>3
<1>5. ASSUME NEW p \in Places
      PROVE  fixed'[p] \in LimRecords
  BY <1>2, LimAssumption DEF StoresInv, LimRecords
<1>6. fixed' \in [Places -> LimRecords]
  BY <1>2, <1>5
<1>7. ASSUME algo = "fixed", NEW p \in Places
      PROVE  FixedOk(p, fixed'[p], admitted'[p])
  <2>1. fixed[p] \in LimRecords /\ admitted[p] \in SUBSET Members /\ IsFiniteSet(admitted[p])
        /\ FixedOk(p, fixed[p], admitted[p])
    BY <1>7 DEF StoresInv
  <2>2. fixed'[p] = [fixed[p] EXCEPT !.ttl = IF @ < 0 THEN @ ELSE @ - 1]
    BY <1>2
  <2>3. FixedOk(p, fixed'[p], Aged(admitted[p]))
    BY <2>1, <2>2, FixedAges
  <2> QED BY <1>3, <2>3
<1>8. ASSUME algo = "sliding", NEW p \in Places
      PROVE  SlidingOk(p, sliding'[p], admitted'[p])
  <2> DEFINE R == Recent(p, admitted[p])
             N == Recent(p, Aged(admitted[p]))
  <2>1. R \subseteq sliding[p] /\ Cardinality(R) =< LimMax
    BY <1>8 DEF StoresInv, SlidingOk
  <2>2. R \in SUBSET admitted[p] /\ admitted[p] \in SUBSET Members /\ IsFiniteSet(admitted[p])
    BY DEF StoresInv, Recent
  <2>3. N \in SUBSET Aged(R)
    BY <2>2, RemembersNow DEF Recent, Aged, Members, Ages
  <2>4. Aged(R) \subseteq Aged(sliding[p])
    BY <2>1 DEF Aged
  <2> HIDE DEF R, N
  <2>5. IsFiniteSet(R) /\ R \in SUBSET Members
    BY <2>2, FS_Subset
  <2>6. IsFiniteSet(Aged(R)) /\ Cardinality(Aged(R)) =< Cardinality(R)
    BY <2>5, AgedKeeps
  <2>7. IsFiniteSet(N) /\ Cardinality(N) =< Cardinality(Aged(R))
    BY <2>3, <2>6, FS_Subset
  <2>8. Cardinality(N) \in Nat /\ Cardinality(Aged(R)) \in Nat /\ Cardinality(R) \in Nat
    BY <2>5, <2>6, <2>7, FS_CardinalityType
  <2>9. Cardinality(N) =< LimMax
    BY <2>1, <2>6, <2>7, <2>8, LimAssumption
  <2> QED BY <1>3, <2>3, <2>4, <2>9 DEF SlidingOk, N
<1> QED BY <1>1, <1>3, <1>4, <1>6, <1>7, <1>8 DEF StoresInv

\* The cleanup takes nothing that a store is expected to remember.
LEMMA CleanupKeepsStores ==
  ASSUME StoresInv, cleanupSlidingStore
  PROVE  StoresInv'
<1>1. /\ UNCHANGED <<algo, fixed, admitted>>
      /\ sliding' = [sliding EXCEPT !["memory"] = {m \in @ : m[1] < CleanupWindow}]
      /\ sliding \in [Places -> SUBSET Members]
  BY DEF cleanupSlidingStore, StoresInv
<1>2. ASSUME NEW p \in Places
      PROVE  /\ sliding'[p] \in SUBSET sliding[p]
             /\ p # "memory" => sliding'[p] = sliding[p]
             /\ p = "memory" => sliding'[p] = {m \in sliding[p] : m[1] < CleanupWindow}
  BY <1>1 DEF Places
<1>3. sliding' \in [Places -> SUBSET Members]
  BY <1>1
<1>4. ASSUME NEW p \in Places PROVE IsFiniteSet(sliding'[p])
  BY <1>2, FS_Subset DEF StoresInv
<1>5. ASSUME algo = "sliding", NEW p \in Places PROVE SlidingOk(p, sliding'[p], admitted[p])
  <2>1. SlidingOk(p, sliding[p], admitted[p]) /\ admitted[p] \in SUBSET Members
    BY <1>5 DEF StoresInv
  <2>2. CASE p = "memory"
    <3>1. \A m \in Recent(p, admitted[p]) : m[1] < CleanupWindow
      BY <2>1, <2>2, LimAssumption DEF Recent, Memory, UpTo, Members, Ages
    <3> QED BY <1>2, <2>1, <2>2, <3>1 DEF SlidingOk
  <2>3. CASE p # "memory"
    BY <1>2, <2>1, <2>3
  <2> QED BY <2>2, <2>3
<1> QED BY <1>1, <1>3, <1>4, <1>5 DEF StoresInv

LEMMA StoresInit == LimInit => StoresInv
<1> SUFFICES ASSUME LimInit PROVE StoresInv
  OBVIOUS
<1>1. IsFiniteSet({}) /\ Cardinality({}) = 0
  BY FS_EmptySet
<1>2. /\ fixed = [p \in Places |-> [n |-> 0, ttl |-> -1]]
      /\ sliding = [p \in Places |-> {}] /\ admitted = [p \in Places |-> {}] /\ algo \in Algos
  BY DEF LimInit
<1>3. [n |-> 0, ttl |-> -1] \in LimRecords
  BY LimAssumption DEF LimRecords, Cap
<1>4. \A p \in Places : fixed[p] = [n |-> 0, ttl |-> -1] /\ sliding[p] = {} /\ admitted[p] = {}
  BY <1>2
<1>5. \A rec : Counted(rec, {}) = {} /\ {} \ Counted(rec, {}) = {}
  BY DEF Counted
<1>6. ASSUME NEW p \in Places PROVE FixedOk(p, fixed[p], admitted[p])
  <2>1. fixed[p].n = 0
    BY <1>4
  <2>2. Cardinality(Counted(fixed[p], admitted[p])) = 0 /\ Cardinality(admitted[p] \ Counted(fixed[p], admitted[p])) = 0
    BY <1>1, <1>4, <1>5
  <2> QED BY <1>4, <2>1, <2>2, LimAssumption DEF FixedOk
<1>7. \A p \in Places : SlidingOk(p, sliding[p], admitted[p])
  <2>1. \A p \in Places : Recent(p, admitted[p]) = {}
    BY <1>4 DEF Recent
  <2> QED BY <1>1, <2>1, LimAssumption DEF SlidingOk
<1> QED BY <1>1, <1>2, <1>3, <1>4, <1>6, <1>7 DEF StoresInv

\* A request that ended, or nothing at all, happened to the stores.
LEMMA StoresNext ==
  ASSUME StoresInv, [LimNext]_limVars
  PROVE  StoresInv'
<1> DEFINE Same == UNCHANGED <<fixed, sliding, admitted>>
<1>0. ASSUME Same, algo' = algo PROVE StoresInv'
  BY <1>0 DEF StoresInv
<1>1. ASSUME algo' = algo, NEW s \in LimSlots, Same \/ \E p \in Places : Decide(s, p) PROVE StoresInv'
  BY <1>0, <1>1, DecideKeeps
<1>2. "memory" \in Places /\ "redis" \in Places
  BY DEF Places
<1>3. CASE getStore
  BY <1>0, <1>3 DEF getStore
<1>4. ASSUME NEW s \in LimSlots, LimStart(s) PROVE StoresInv'
  <2>1. CASE LimitFixed(s)
    BY <1>1, <1>2, <2>1 DEF LimitFixed
  <2>2. CASE LimitSliding(s)
    BY <1>0, <2>2 DEF LimitSliding
  <2>3. CASE LimitInMemory(s)
    BY <1>1, <1>2, <2>3 DEF LimitInMemory
  <2> QED BY <1>4, <2>1, <2>2, <2>3 DEF LimStart
<1>5. ASSUME NEW s \in LimSlots, LimSettle(s) PROVE StoresInv'
  <2>1. CASE RedisAnswers(s)
    BY <1>1, <1>2, <2>1 DEF RedisAnswers
  <2>2. CASE FixedFails(s)
    BY <1>1, <1>2, <2>2 DEF FixedFails
  <2>3. CASE SlidingRetry(s)
    BY <1>1, <1>2, <2>3 DEF SlidingRetry
  <2>4. ASSUME NEW seen \in BOOLEAN, FixedRedirected(s, seen) PROVE StoresInv'
    BY <1>1, <1>2, <2>4 DEF FixedRedirected
  <2>5. ASSUME NEW seen \in BOOLEAN, SlidingRedirected(s, seen) PROVE StoresInv'
    BY <1>1, <1>2, <2>5 DEF SlidingRedirected
  <2> QED BY <1>5, <2>1, <2>2, <2>3, <2>4, <2>5 DEF LimSettle
<1>6. CASE Outage \/ Back
  BY <1>0, <1>6 DEF Outage, Back
<1>7. CASE LimTick
  BY <1>7, TickKeepsStores
<1>8. CASE UNCHANGED limVars
  BY <1>0, <1>8 DEF limVars
<1>9. CASE cleanupSlidingStore
  BY <1>9, CleanupKeepsStores
<1> QED BY <1>3, <1>4, <1>5, <1>6, <1>7, <1>8, <1>9 DEF LimNext

-----------------------------------------------------------------------------
\* What the steps do to the breaker.
LEMMA BreakerMoves ==
  ASSUME NEW b, NEW age \in Nat, BreakerOk(b, age)
  PROVE  BreakerOk(Succeed(b), age) /\ BreakerOk(recordFailure(b), age)
<1>1. b \in BreakerStates /\ b.failures \in 0..Threshold /\ b.wait \in 0..Reset
  BY DEF BreakerOk, BreakerStates
<1>2. BreakerOk(Succeed(b), age)
  BY LimAssumption DEF BreakerOk, BreakerStates, Succeed
<1>3. ASSUME NEW n \in 0..Threshold
      PROVE  BreakerOk([state |-> "OPEN", failures |-> n, wait |-> Reset], age)
  BY LimAssumption DEF BreakerOk, BreakerStates
<1>4. CASE b.state = "HALF_OPEN"
  <2>1. recordFailure(b) = [state |-> "OPEN", failures |-> b.failures, wait |-> Reset]
    BY <1>1, <1>4 DEF recordFailure, Opened, BreakerStates
  <2> QED BY <1>1, <1>2, <1>3, <2>1
<1>5. CASE b.state = "OPEN"
  BY <1>2, <1>5 DEF recordFailure
<1>6. CASE b.state = "CLOSED" /\ b.failures + 1 >= Threshold
  <2>1. recordFailure(b) = [state |-> "OPEN", failures |-> b.failures + 1, wait |-> Reset]
    BY <1>1, <1>6 DEF recordFailure, Opened, BreakerStates
  <2>2. b.failures + 1 \in 0..Threshold
    BY <1>1, <1>6, LimAssumption DEF BreakerOk
  <2> QED BY <1>2, <1>3, <2>1, <2>2
<1>7. CASE b.state = "CLOSED" /\ ~(b.failures + 1 >= Threshold)
  <2>1. recordFailure(b) = [state |-> "CLOSED", failures |-> b.failures + 1, wait |-> b.wait]
    BY <1>1, <1>7 DEF recordFailure, BreakerStates
  <2>2. b.failures + 1 \in 0..Threshold /\ b.failures + 1 < Threshold
    BY <1>1, <1>7, LimAssumption
  <2> QED BY <1>1, <1>2, <2>1, <2>2 DEF BreakerOk, BreakerStates
<1> QED BY <1>1, <1>4, <1>5, <1>6, <1>7 DEF BreakerStates

\* A call that enters the breaker keeps it right, and is a probe only when one is due.
LEMMA EnterKeeps ==
  ASSUME BreakerInv, NEW s \in LimSlots, NEW redirs \in Nat, LimEnter(s, redirs), algo = "fixed"
  PROVE  /\ probeAge' \in Nat /\ BreakerOk(breaker', probeAge')
         /\ calls' \in [LimSlots -> SentCalls \cup {IdleCall}]
         /\ \A x \in LimSlots : x # s => calls'[x] = calls[x]
         /\ calls'[s].probe => probeAge >= Reset
<1> DEFINE new == [stage |-> "sent", redirs |-> redirs, attempt |-> 0, probe |-> breaker.state # "CLOSED"]
<1>1. calls \in [LimSlots -> SentCalls \cup {IdleCall}] /\ calls' = [calls EXCEPT ![s] = new]
  BY DEF BreakerInv, LimEnter, Calling
<1>2. new \in SentCalls
  BY DEF SentCalls
<1>3. new.probe = (breaker.state # "CLOSED")
  OBVIOUS
<1> HIDE DEF new
<1>4. /\ calls' \in [LimSlots -> SentCalls \cup {IdleCall}] /\ calls'[s] = new
      /\ \A x \in LimSlots : x # s => calls'[x] = calls[x]
  BY <1>1, <1>2
<1>5. breaker \in BreakerStates /\ probeAge \in Nat /\ BreakerOk(breaker, probeAge)
  BY DEF BreakerInv, BreakerOk
<1>6. CASE breaker.state = "CLOSED"
  <2>1. breaker' = breaker /\ probeAge' = probeAge
    BY <1>6 DEF LimEnter
  <2>2. ~new.probe
    BY <1>3, <1>6
  <2> QED BY <1>4, <1>5, <2>1, <2>2
<1>7. CASE breaker.state # "CLOSED"
  <2>1. breaker' = [breaker EXCEPT !.state = "HALF_OPEN", !.wait = Reset] /\ probeAge' = 0
    BY <1>7 DEF LimEnter
  <2>2. breaker.wait = 0
    BY <1>7 DEF LimEnter, Passes, Due
  <2>3. probeAge >= Reset
    BY <1>5, <1>7, <2>2, LimAssumption DEF BreakerOk
  <2>4. /\ breaker' \in BreakerStates
        /\ breaker'.state = "HALF_OPEN" /\ breaker'.wait = Reset
    <3>1. breaker' = [state |-> "HALF_OPEN", failures |-> breaker.failures, wait |-> Reset]
      BY <1>5, <2>1 DEF BreakerStates
    <3>2. breaker.failures \in 0..Threshold
      BY <1>5 DEF BreakerStates
    <3> QED BY <3>1, <3>2, LimAssumption DEF BreakerStates
  <2>5. BreakerOk(breaker', 0)
    BY <2>4, LimAssumption DEF BreakerOk
  <2>6. probeAge' \in Nat /\ BreakerOk(breaker', probeAge')
    BY <2>1, <2>5
  <2> QED BY <1>4, <2>3, <2>6
<1> QED BY <1>6, <1>7

\* No step of a request makes another call, and none a probe before its time.
ProbeDue == \A s \in LimSlots :
  (calls'[s] # calls[s] /\ calls'[s] # IdleCall /\ calls'[s].probe) => probeAge >= Reset

LEMMA BreakerNext ==
  ASSUME BreakerInv, algo \in Algos, [LimNext]_limVars
  PROVE  BreakerInv' /\ ProbeDue
<1> DEFINE Rest == redisUp' \in BOOLEAN /\ faults' \in 0..MaxFaults /\ store' \in Places \cup {"connecting"}
<1>1. /\ redisUp \in BOOLEAN /\ faults \in 0..MaxFaults /\ store \in Places \cup {"connecting"}
      /\ probeAge \in Nat /\ BreakerOk(breaker, probeAge)
      /\ calls \in [LimSlots -> SentCalls \cup {IdleCall}]
      /\ algo = "sliding" => \A s \in LimSlots : calls[s] # IdleCall => ~calls[s].probe
  BY DEF BreakerInv
<1>2. ASSUME Rest, algo' = algo, UNCHANGED calls, probeAge' \in Nat, BreakerOk(breaker', probeAge')
      PROVE  BreakerInv' /\ ProbeDue
  BY <1>1, <1>2 DEF BreakerInv, ProbeDue
\* A request that ends.
<1>3. ASSUME Rest, algo' = algo, UNCHANGED probeAge, NEW s \in LimSlots, NEW p \in Places, Decide(s, p),
             BreakerOk(breaker', probeAge)
      PROVE  BreakerInv' /\ ProbeDue
  <2>1. calls' = [calls EXCEPT ![s] = IdleCall]
    BY <1>3 DEF Decide
  <2>2. /\ calls' \in [LimSlots -> SentCalls \cup {IdleCall}] /\ calls'[s] = IdleCall
        /\ \A x \in LimSlots : x # s => calls'[x] = calls[x]
    BY <1>1, <2>1
  <2>3. ProbeDue
    BY <2>2 DEF ProbeDue
  <2>4. algo' = "sliding" => \A x \in LimSlots : calls'[x] # IdleCall => ~calls'[x].probe
    BY <1>1, <1>3, <2>2
  <2> QED BY <1>1, <1>3, <2>2, <2>3, <2>4 DEF BreakerInv
\* A request that enters the breaker.
<1>4. ASSUME Rest, algo' = algo, algo = "fixed", NEW s \in LimSlots, NEW r \in Nat, LimEnter(s, r)
      PROVE  BreakerInv' /\ ProbeDue
  <2>1. /\ probeAge' \in Nat /\ BreakerOk(breaker', probeAge')
        /\ calls' \in [LimSlots -> SentCalls \cup {IdleCall}]
        /\ \A x \in LimSlots : x # s => calls'[x] = calls[x]
        /\ calls'[s].probe => probeAge >= Reset
    BY <1>4, EnterKeeps
  <2>2. ProbeDue
    BY <2>1 DEF ProbeDue
  <2> QED BY <1>4, <2>1, <2>2 DEF BreakerInv
\* A request on the sliding window, which is never a probe.
<1>5. ASSUME Rest, algo' = algo, algo = "sliding", UNCHANGED <<probeAge, breaker>>, NEW s \in LimSlots,
             NEW c \in SentCalls, ~c.probe, calls' = [calls EXCEPT ![s] = c]
      PROVE  BreakerInv' /\ ProbeDue
  <2>1. /\ calls' \in [LimSlots -> SentCalls \cup {IdleCall}] /\ calls'[s] = c
        /\ \A x \in LimSlots : x # s => calls'[x] = calls[x]
    BY <1>1, <1>5
  <2>2. \A x \in LimSlots : calls'[x] # IdleCall => ~calls'[x].probe
    BY <1>1, <1>5, <2>1
  <2>3. ProbeDue
    BY <2>2 DEF ProbeDue
  <2> QED BY <1>1, <1>5, <2>1, <2>2, <2>3 DEF BreakerInv
<1>6. "memory" \in Places /\ "redis" \in Places
  BY DEF Places
<1>7. ASSUME NEW s \in LimSlots, calls[s] # IdleCall
      PROVE  /\ calls[s] \in SentCalls /\ calls[s].redirs \in Nat /\ calls[s].attempt \in Nat
             /\ calls[s].redirs + 1 \in Nat
             /\ [calls[s] EXCEPT !.attempt = @ + 1] \in SentCalls
             /\ [calls[s] EXCEPT !.redirs = @ + 1] \in SentCalls
             /\ [calls[s] EXCEPT !.attempt = @ + 1].probe = calls[s].probe
             /\ [calls[s] EXCEPT !.redirs = @ + 1].probe = calls[s].probe
  <2>1. calls[s] \in SentCalls
    BY <1>1, <1>7
  <2> QED BY <2>1 DEF SentCalls
<1>8. CASE getStore
  BY <1>1, <1>2, <1>6, <1>8 DEF getStore
<1>9. ASSUME NEW s \in LimSlots, LimStart(s) PROVE BreakerInv' /\ ProbeDue
  <2>1. CASE LimitFixed(s)
    <3>1. Rest /\ algo' = algo /\ algo = "fixed"
      BY <1>1, <2>1 DEF LimitFixed
    <3>2. CASE LimEnter(s, 0)
      BY <1>4, <3>1, <3>2
    <3>3. CASE Decide(s, "memory") /\ UNCHANGED <<breaker, probeAge>>
      BY <1>1, <1>3, <1>6, <3>1, <3>3
    <3> QED BY <2>1, <3>2, <3>3 DEF LimitFixed
  <2>2. CASE LimitSliding(s)
    <3> DEFINE c == [stage |-> "sent", redirs |-> 0, attempt |-> 0, probe |-> FALSE]
    <3>1. Rest /\ algo' = algo /\ algo = "sliding" /\ UNCHANGED <<probeAge, breaker>>
          /\ calls' = [calls EXCEPT ![s] = c]
      BY <1>1, <2>2 DEF LimitSliding, Calling
    <3>2. c \in SentCalls /\ ~c.probe
      BY DEF SentCalls
    <3> HIDE DEF c
    <3> QED BY <1>5, <3>1, <3>2
  <2>3. CASE LimitInMemory(s)
    BY <1>1, <1>3, <1>6, <2>3 DEF LimitInMemory
  <2> QED BY <1>9, <2>1, <2>2, <2>3 DEF LimStart
<1>10. ASSUME NEW s \in LimSlots, LimSettle(s) PROVE BreakerInv' /\ ProbeDue
  <2>1. CASE RedisAnswers(s)
    <3>1. Rest /\ algo' = algo /\ UNCHANGED probeAge /\ Decide(s, "redis")
      BY <1>1, <2>1 DEF RedisAnswers
    <3>2. BreakerOk(breaker', probeAge)
      BY <1>1, <2>1, BreakerMoves DEF RedisAnswers
    <3> QED BY <1>3, <1>6, <3>1, <3>2
  <2>2. CASE FixedFails(s)
    <3>1. Rest /\ algo' = algo /\ UNCHANGED probeAge /\ Decide(s, "memory")
      BY <1>1, <2>2 DEF FixedFails
    <3>2. BreakerOk(breaker', probeAge)
      BY <1>1, <2>2, BreakerMoves DEF FixedFails
    <3> QED BY <1>3, <1>6, <3>1, <3>2
  <2>3. CASE SlidingRetry(s)
    <3>1. Rest /\ algo' = algo /\ algo = "sliding" /\ UNCHANGED <<probeAge, breaker>> /\ calls[s] # IdleCall
      BY <1>1, <2>3, LimAssumption DEF SlidingRetry, Sent
    <3>2. CASE calls' = [calls EXCEPT ![s].attempt = @ + 1]
      <4> DEFINE c == [calls[s] EXCEPT !.attempt = @ + 1]
      <4>1. calls' = [calls EXCEPT ![s] = c]
        BY <3>2
      <4>2. c \in SentCalls /\ ~c.probe
        BY <1>1, <1>7, <3>1
      <4> HIDE DEF c
      <4> QED BY <1>5, <3>1, <4>1, <4>2
    <3>3. CASE Decide(s, "memory")
      BY <1>1, <1>3, <1>6, <3>1, <3>3
    <3> QED BY <2>3, <3>2, <3>3 DEF SlidingRetry
  <2>4. ASSUME NEW seen \in BOOLEAN, FixedRedirected(s, seen) PROVE BreakerInv' /\ ProbeDue
    <3>1. Rest /\ algo' = algo /\ algo = "fixed" /\ calls[s] # IdleCall
      BY <1>1, <2>4, LimAssumption DEF FixedRedirected, Sent
    <3>2. CASE LimEnter(s, calls[s].redirs + 1)
      BY <1>4, <1>7, <3>1, <3>2
    <3>3. CASE Decide(s, "memory") /\ UNCHANGED <<breaker, probeAge>>
      BY <1>1, <1>3, <1>6, <3>1, <3>3
    <3> QED BY <2>4, <3>2, <3>3 DEF FixedRedirected
  <2>5. ASSUME NEW seen \in BOOLEAN, SlidingRedirected(s, seen) PROVE BreakerInv' /\ ProbeDue
    <3>1. Rest /\ algo' = algo /\ algo = "sliding" /\ UNCHANGED <<probeAge, breaker>> /\ calls[s] # IdleCall
      BY <1>1, <2>5, LimAssumption DEF SlidingRedirected, Sent
    <3>2. CASE calls' = [calls EXCEPT ![s].redirs = @ + 1]
      <4> DEFINE c == [calls[s] EXCEPT !.redirs = @ + 1]
      <4>1. calls' = [calls EXCEPT ![s] = c]
        BY <3>2
      <4>2. c \in SentCalls /\ ~c.probe
        BY <1>1, <1>7, <3>1
      <4> HIDE DEF c
      <4> QED BY <1>5, <3>1, <4>1, <4>2
    <3>3. CASE Decide(s, "memory")
      BY <1>1, <1>3, <1>6, <3>1, <3>3
    <3> QED BY <2>5, <3>2, <3>3 DEF SlidingRedirected
  <2> QED BY <1>10, <2>1, <2>2, <2>3, <2>4, <2>5 DEF LimSettle
<1>11. CASE Outage \/ Back
  <2>1. Rest
    <3>1. store' = store /\ redisUp' \in BOOLEAN
      BY <1>11 DEF Outage, Back
    <3>2. faults' \in 0..MaxFaults
      BY <1>1, <1>11, LimAssumption DEF Outage, Back
    <3> QED BY <1>1, <3>1, <3>2
  <2>2. algo' = algo /\ calls' = calls /\ probeAge' = probeAge /\ breaker' = breaker
    BY <1>11 DEF Outage, Back
  <2> QED BY <1>1, <1>2, <2>1, <2>2
<1>12. CASE LimTick
  <2>1. Rest /\ algo' = algo /\ UNCHANGED calls
    BY <1>1, <1>12 DEF LimTick
  <2>2. breaker' = [breaker EXCEPT !.wait = IF @ > 0 THEN @ - 1 ELSE @] /\ probeAge' = UpTo(Reset, probeAge + 1)
    BY <1>12 DEF LimTick
  <2>3. probeAge' \in Nat /\ (probeAge' = probeAge + 1 \/ probeAge' >= Reset)
    BY <1>1, <2>2, LimAssumption DEF UpTo
  <2>4. breaker \in BreakerStates /\ breaker.wait \in 0..Reset
    BY <1>1 DEF BreakerOk, BreakerStates
  <2>5. /\ breaker' \in BreakerStates /\ breaker'.state = breaker.state /\ breaker'.failures = breaker.failures
        /\ breaker'.wait = IF breaker.wait > 0 THEN breaker.wait - 1 ELSE breaker.wait
    BY <2>2, <2>4, LimAssumption DEF BreakerStates
  <2>6. BreakerOk(breaker', probeAge')
    BY <1>1, <2>3, <2>4, <2>5, LimAssumption DEF BreakerOk
  <2> QED BY <1>2, <2>1, <2>3, <2>6
<1>13. CASE UNCHANGED limVars
  BY <1>1, <1>2, <1>13 DEF limVars
<1>14. CASE cleanupSlidingStore
  BY <1>1, <1>2, <1>14 DEF cleanupSlidingStore
<1> QED BY <1>8, <1>9, <1>10, <1>11, <1>12, <1>13, <1>14 DEF LimNext

LEMMA BreakerInit == LimInit => BreakerInv
<1> SUFFICES ASSUME LimInit PROVE BreakerInv
  OBVIOUS
<1>1. calls = [s \in LimSlots |-> IdleCall] /\ store = "connecting" /\ redisUp = TRUE /\ faults = 0
      /\ probeAge = Reset /\ breaker = [state |-> "CLOSED", failures |-> 0, wait |-> 0]
  BY DEF LimInit
<1>2. BreakerOk(breaker, probeAge)
  BY <1>1, LimAssumption DEF BreakerOk, BreakerStates
<1> QED BY <1>1, <1>2, LimAssumption DEF BreakerInv

\* The limiter and its breaker keep their promise (LimiterHolds) for any requests in
\* flight, any limit, window, threshold and reset time: per store, a sliding route admits
\* at most max requests in any stretch of windowMs (in memory of DEFAULT_WINDOW_MS, where
\* that is shorter, for the cleanup forgets what is older) and a fixed one at most twice
\* max, and a broken Redis is tried once per reset time, whatever outages, redirections
\* and late answers there are.
THEOREM LimiterIsBounded == LimSpec => LimiterHolds
<1>1. LimInit => StoresInv /\ BreakerInv
  BY StoresInit, BreakerInit
<1>2. StoresInv /\ BreakerInv /\ [LimNext]_limVars => (StoresInv /\ BreakerInv)' /\ ProbeDue
  BY StoresNext, BreakerNext DEF StoresInv
<1>3. StoresInv /\ BreakerInv => LimTypeOK /\ WindowBounds
  <2> SUFFICES ASSUME StoresInv, BreakerInv PROVE LimTypeOK /\ WindowBounds
    OBVIOUS
  <2>1. LimTypeOK
    BY DEF LimTypeOK, StoresInv, BreakerInv, BreakerOk, BreakerStates, LimRecords, Members
  <2>2. ASSUME NEW p \in Places, algo = "fixed" PROVE Cardinality(admitted[p]) =< 2 * LimMax
    <3> DEFINE h == admitted[p]
               A == Counted(fixed[p], h)
               B == h \ Counted(fixed[p], h)
    <3>1. Cardinality(A) =< LimMax /\ Cardinality(B) =< LimMax
      BY <2>2 DEF StoresInv, FixedOk
    <3>2. IsFiniteSet(A) /\ IsFiniteSet(B) /\ Cardinality(A) \in Nat /\ Cardinality(B) \in Nat
      BY CountsFinite DEF StoresInv
    <3>3. h = A \cup B /\ A \cap B = {}
      BY DEF Counted
    <3> HIDE DEF A, B, h
    <3>4. Cardinality(h) = Cardinality(A) + Cardinality(B)
      BY <3>2, <3>3, FS_Union, FS_EmptySet
    <3>5. Cardinality(h) =< 2 * LimMax
      BY <3>1, <3>2, <3>4, LimAssumption
    <3> QED BY <3>5 DEF h
  <2>3. ASSUME NEW p \in Places, algo = "sliding" PROVE Cardinality(Recent(p, admitted[p])) =< LimMax
    BY <2>3 DEF StoresInv, SlidingOk
  <2>4. WindowBounds
    BY <2>2, <2>3 DEF WindowBounds
  <2> QED BY <2>1, <2>4
<1> QED BY <1>1, <1>2, <1>3, PTL DEF LimSpec, LimiterHolds, ProbesSpaced, ProbeDue


-----------------------------------------------------------------------------
(***************************************************************************)
(* SubmissionReplay, for any log, page size and budget: each submission is *)
(* repeated at most once and the summary accounts for all of them.         *)
(***************************************************************************)

ReplayStates ==
  [pc : {"scan", "dedupe", "next", "sending", "done"}, cursor : Nat, list : Seq(SubKeys), i : Nat,
   scanned : Nat, attempted : Nat, succeeded : Nat, failed : Nat, expired : Nat, skipped : Nat]

ReplayTypes ==
  /\ failures \in Seq(Entries) /\ budget \in Nat
  /\ replay \in ReplayStates
  /\ sent \in [SubKeys -> Nat]

\* The cursor and what lies behind it are inside the log.
Inside == replay.cursor + replay.scanned =< Len(failures)

Listed(list) == {list[n] : n \in DOMAIN list}

\* The usable keys at the positions from..upto of the log.
UsableIn(log, from, upto) == {log[p].key : p \in {q \in from..upto : log[q].use = "fresh"}}

\* While the log is read nothing is sent, and the list holds the usable keys of what has
\* been read: the stretch behind the cursor.
Collected ==
  replay.pc \in {"scan", "dedupe"} =>
    /\ sent = [k \in SubKeys |-> 0]
    /\ replay.attempted = 0 /\ replay.succeeded = 0 /\ replay.failed = 0 /\ replay.skipped = 0
    /\ Listed(replay.list) = UsableIn(failures, replay.cursor + 1, replay.cursor + replay.scanned)
    /\ replay.pc = "dedupe" => replay.cursor = 0

\* After that the list names each usable key once, and what has been sent is the part of
\* the list up to the present position.
Distinct(list) == \A m, n \in DOMAIN list : list[m] = list[n] => m = n

Repeated ==
  replay.pc \in {"next", "sending", "done"} =>
    /\ Distinct(replay.list)
    /\ Listed(replay.list) = UsableIn(failures, 1, replay.scanned)
    /\ replay.attempted =< Len(replay.list)
    /\ \A k \in SubKeys : sent[k] = IF \E n \in 1..replay.attempted : replay.list[n] = k THEN 1 ELSE 0

Summed ==
  /\ replay.pc = "next" => /\ replay.i = replay.attempted + 1 /\ replay.skipped = 0
                           /\ replay.succeeded + replay.failed = replay.attempted
  /\ replay.pc = "sending" => /\ replay.i = replay.attempted /\ replay.skipped = 0
                              /\ replay.succeeded + replay.failed + 1 = replay.attempted
  /\ replay.pc = "done" => /\ replay.attempted + replay.skipped = Len(replay.list)
                           /\ replay.succeeded + replay.failed = replay.attempted

ReplayInv == ReplayTypes /\ Inside /\ Collected /\ Repeated /\ Summed

\* The positions of a finite set of numbers can be counted off: every one is the n-th for
\* one n, and no two n name the same.
LEMMA EveryPosition ==
  ASSUME NEW S \in SUBSET Nat, IsFiniteSet(S)
  PROVE  /\ Cardinality(S) \in Nat
         /\ \A n \in 1..Cardinality(S) : Nth(S, n) \in S
         /\ \A m, n \in 1..Cardinality(S) : Nth(S, m) = Nth(S, n) => m = n
         /\ \A i \in S : \E n \in 1..Cardinality(S) : Nth(S, n) = i
<1> DEFINE c == Cardinality(S)
           before(i) == {j \in S : j < i}
           f == [i \in S |-> Cardinality(before(i))]
<1>1. c \in Nat
  BY FS_CardinalityType
<1>2. \A i \in S : IsFiniteSet(before(i)) /\ f[i] \in 0..(c - 1)
  <2> SUFFICES ASSUME NEW i \in S PROVE IsFiniteSet(before(i)) /\ Cardinality(before(i)) \in 0..(c - 1)
    OBVIOUS
  <2>1. IsFiniteSet(before(i)) /\ Cardinality(before(i)) =< Cardinality(S)
        /\ (Cardinality(before(i)) = Cardinality(S) => before(i) = S)
    <3>1. before(i) \subseteq S
      OBVIOUS
    <3> QED BY <3>1, FS_Subset
  <2>2. i \notin before(i) /\ i \in S
    OBVIOUS
  <2>3. Cardinality(before(i)) \in Nat
    BY <2>1, FS_CardinalityType
  <2> QED BY <1>1, <2>1, <2>2, <2>3
<1>3. \A i, j \in S : i < j => f[i] < f[j]
  <2> SUFFICES ASSUME NEW i \in S, NEW j \in S, i < j
               PROVE  Cardinality(before(i)) < Cardinality(before(j))
    OBVIOUS
  <2>1. before(i) \subseteq before(j) /\ i \in before(j) /\ i \notin before(i)
    <3>1. i \in Nat /\ j \in Nat /\ \A x \in S : x \in Nat
      OBVIOUS
    <3>2. (\A x \in S : x < i => x < j) /\ ~(i < i)
      BY <3>1
    <3>3. before(i) \subseteq before(j)
      BY <3>2
    <3> QED BY <3>2, <3>3
  <2>2. IsFiniteSet(before(j))
    BY <1>2
  <2>3. Cardinality(before(i)) =< Cardinality(before(j)) /\ Cardinality(before(i)) # Cardinality(before(j))
    BY <2>1, <2>2, FS_Subset
  <2>4. Cardinality(before(i)) \in Nat /\ Cardinality(before(j)) \in Nat
    BY <1>2, FS_CardinalityType
  <2> QED BY <2>3, <2>4
<1>4. \A i, j \in S : f[i] = f[j] => i = j
  <2> SUFFICES ASSUME NEW i \in S, NEW j \in S, f[i] = f[j] PROVE i = j
    OBVIOUS
  <2>1. f[i] \in Int /\ i \in Nat /\ j \in Nat
    BY <1>1, <1>2
  <2>2. ~(i < j) /\ ~(j < i)
    BY <1>3, <2>1
  <2> QED BY <2>1, <2>2
<1>5. f \in Surjection(S, 0..(c - 1))
  <2>1. f \in Injection(S, 0..(c - 1))
    BY <1>2, <1>4 DEF Injection, IsInjective
  <2>2. IsFiniteSet(0..(c - 1)) /\ Cardinality(0..(c - 1)) = c
    <3>1. 0 \in Int /\ c - 1 \in Int
      BY <1>1
    <3>2. IsFiniteSet(0..(c - 1))
          /\ Cardinality(0..(c - 1)) = IF 0 > c - 1 THEN 0 ELSE (c - 1) - 0 + 1
      BY <3>1, FS_Interval
    <3> QED BY <1>1, <3>2
  <2> QED BY <2>1, <2>2, FS_Injection
<1>6. \A n \in 1..c : \E i \in S : f[i] = n - 1
  <2> SUFFICES ASSUME NEW n \in 1..c PROVE \E i \in S : f[i] = n - 1
    OBVIOUS
  <2>1. n - 1 \in 0..(c - 1)
    BY <1>1
  <2> QED BY <1>5, <2>1 DEF Surjection
<1>7. \A n \in 1..c : Nth(S, n) \in S /\ f[Nth(S, n)] = n - 1
  BY <1>6 DEF Nth
<1>8. \A m, n \in 1..c : Nth(S, m) = Nth(S, n) => m = n
  <2> SUFFICES ASSUME NEW m \in 1..c, NEW n \in 1..c, Nth(S, m) = Nth(S, n) PROVE m = n
    OBVIOUS
  <2>1. m \in Int /\ n \in Int
    BY <1>1
  <2>2. f[Nth(S, m)] = m - 1 /\ f[Nth(S, n)] = n - 1
    BY <1>7
  <2>3. m - 1 = n - 1
    BY <2>2
  <2> QED BY <2>1, <2>3
<1>9. \A i \in S : \E n \in 1..c : Nth(S, n) = i
  <2> SUFFICES ASSUME NEW i \in S PROVE \E n \in 1..c : Nth(S, n) = i
    OBVIOUS
  <2>1. f[i] + 1 \in 1..c /\ (f[i] + 1) - 1 = f[i]
    BY <1>1, <1>2
  <2>2. f[Nth(S, f[i] + 1)] = f[i] /\ Nth(S, f[i] + 1) \in S
    BY <1>7, <2>1
  <2> QED BY <1>4, <2>1, <2>2
<1> QED BY <1>1, <1>7, <1>8, <1>9

\* Keeping some of the positions of a sequence keeps what stands there, and nothing twice.
LEMMA KeptItems ==
  ASSUME NEW T, NEW s \in Seq(T), NEW S \in SUBSET (1..Len(s))
  PROVE  /\ Kept(s, S) \in Seq(T)
         /\ Len(Kept(s, S)) \in Nat /\ DOMAIN Kept(s, S) = 1..Len(Kept(s, S))
         /\ Listed(Kept(s, S)) = {s[i] : i \in S}
         /\ (\A i, j \in S : s[i] = s[j] => i = j) => Distinct(Kept(s, S))
<1>1. IsFiniteSet(S) /\ S \in SUBSET Nat /\ Len(s) \in Nat
  <2>1. Len(s) \in Nat /\ 1 \in Int /\ Len(s) \in Int
    OBVIOUS
  <2>2. IsFiniteSet(1..Len(s))
    BY <2>1, FS_Interval
  <2>3. IsFiniteSet(S)
    BY <2>2, FS_Subset
  <2> QED BY <2>1, <2>3
<1> DEFINE c == Cardinality(S)
<1>2. /\ c \in Nat
      /\ \A n \in 1..c : Nth(S, n) \in S
      /\ \A m, n \in 1..c : Nth(S, m) = Nth(S, n) => m = n
      /\ \A i \in S : \E n \in 1..c : Nth(S, n) = i
  BY <1>1, EveryPosition
<1>3. \A i \in S : s[i] \in T
  BY ElementOfSeq
<1>4. Kept(s, S) \in [1..c -> T]
  BY <1>2, <1>3 DEF Kept
<1>5. Kept(s, S) \in Seq(T) /\ Len(Kept(s, S)) = c /\ DOMAIN Kept(s, S) = 1..c
  BY <1>2, <1>4
<1>6. Listed(Kept(s, S)) = {s[i] : i \in S}
  <2>1. \A n \in 1..c : Kept(s, S)[n] = s[Nth(S, n)]
    BY DEF Kept
  <2>2. Listed(Kept(s, S)) = {Kept(s, S)[n] : n \in 1..c}
    BY <1>5 DEF Listed
  <2>3. \A n \in 1..c : Kept(s, S)[n] \in {s[i] : i \in S}
    BY <1>2, <2>1
  <2>4. \A i \in S : \E n \in 1..c : Kept(s, S)[n] = s[i]
    BY <1>2, <2>1
  <2> QED BY <2>2, <2>3, <2>4
<1>7. ASSUME \A i, j \in S : s[i] = s[j] => i = j PROVE Distinct(Kept(s, S))
  <2>1. \A n \in 1..c : Kept(s, S)[n] = s[Nth(S, n)] /\ Nth(S, n) \in S
    BY <1>2 DEF Kept
  <2>2. ASSUME NEW m \in 1..c, NEW n \in 1..c, Kept(s, S)[m] = Kept(s, S)[n] PROVE m = n
    <3>1. Nth(S, m) = Nth(S, n)
      BY <1>7, <2>1, <2>2
    <3> QED BY <1>2, <3>1
  <2> QED BY <1>5, <2>2 DEF Distinct
<1> QED BY <1>2, <1>5, <1>6, <1>7

\* A nonempty set of naturals has a least element.
LEMMA LeastPosition ==
  ASSUME NEW S, S \subseteq Nat, S # {}
  PROVE  \E n \in S : \A m \in S : n =< m
<1>1. PICK n \in S : \A m \in S : ~(<<m, n>> \in OpToRel(<, Nat))
  BY NatLessThanWellFounded, WFMin
<1>2. ASSUME NEW m \in S PROVE n =< m
  <2>1. m \in Nat /\ n \in Nat /\ ~(m < n)
    BY <1>1 DEF OpToRel
  <2> QED BY <2>1
<1> QED BY <1>2

\* deduplicateEntries keeps every key, once.
LEMMA DeduplicateKeepsKeys ==
  ASSUME NEW list \in Seq(SubKeys)
  PROVE  /\ deduplicateEntries(list) \in Seq(SubKeys)
         /\ Listed(deduplicateEntries(list)) = Listed(list)
         /\ Distinct(deduplicateEntries(list))
<1> DEFINE S == {i \in DOMAIN list : \A j \in 1..(i - 1) : list[j] # list[i]}
<1>0. Len(list) \in Nat /\ DOMAIN list = 1..Len(list) /\ S \in SUBSET (1..Len(list))
  OBVIOUS
<1>1. \A i, j \in S : list[i] = list[j] => i = j
  <2> SUFFICES ASSUME NEW i \in S, NEW j \in S, list[i] = list[j], i # j PROVE FALSE
    OBVIOUS
  <2>1. i \in 1..(j - 1) \/ j \in 1..(i - 1)
    BY <1>0
  <2> QED BY <2>1
<1>2. \A m \in DOMAIN list : \E i \in S : list[i] = list[m]
  <2> SUFFICES ASSUME NEW m \in DOMAIN list PROVE \E i \in S : list[i] = list[m]
    OBVIOUS
  <2> DEFINE R == {x \in 1..Len(list) : list[x] = list[m]}
  <2>1. m \in R /\ R \subseteq Nat
    BY <1>0
  <2>2. PICK i \in R : \A j \in R : i =< j
    BY <2>1, LeastPosition
  <2>3. i \in S
    <3> SUFFICES ASSUME NEW j \in 1..(i - 1), list[j] = list[i] PROVE FALSE
      BY <1>0, <2>2
    <3>1. j \in R /\ j < i
      BY <1>0, <2>2
    <3> QED BY <1>0, <2>2, <3>1
  <2> QED BY <2>2, <2>3
<1>3. /\ Kept(list, S) \in Seq(SubKeys) /\ Distinct(Kept(list, S))
      /\ Listed(Kept(list, S)) = {list[i] : i \in S}
  BY <1>0, <1>1, KeptItems
<1>4. {list[i] : i \in S} = Listed(list)
  BY <1>0, <1>2 DEF Listed
<1> QED BY <1>3, <1>4 DEF deduplicateEntries

\* What a page of the log adds to the list: the usable keys of the page.
LEMMA KeysOfPage ==
  ASSUME failures \in Seq(Entries), NEW cursor \in 0..Len(failures), NEW m, m = Smallest(cursor, ReplayPage)
  PROVE  /\ m \in 0..cursor /\ Len(Page(cursor)) = m /\ cursor - m \in 0..Len(failures)
         /\ Cardinality(Positions(Page(cursor), "expired")) \in Nat
         /\ KeysOf(Page(cursor)) \in Seq(SubKeys)
         /\ Listed(KeysOf(Page(cursor))) = UsableIn(failures, cursor - m + 1, cursor)
<1> DEFINE page == Page(cursor)
           keys == [i \in DOMAIN page |-> page[i].key]
           S == Positions(page, "fresh")
<1>1. m \in Nat /\ m =< cursor /\ Len(failures) \in Nat
  BY ReplayAssumption DEF Smallest
<1>2. page \in [1..m -> Entries] /\ \A n \in 1..m : page[n] = failures[cursor - n + 1]
  <2>1. \A n \in 1..m : cursor - n + 1 \in 1..Len(failures)
    BY <1>1
  <2>2. \A n \in 1..m : failures[cursor - n + 1] \in Entries
    BY <2>1, ElementOfSeq
  <2> QED BY <2>2 DEF Page
<1>3. DOMAIN page = 1..m /\ Len(page) = m
  BY <1>1, <1>2
<1>4. keys \in [1..m -> SubKeys] /\ keys \in Seq(SubKeys) /\ Len(keys) = m
  <2>1. \A n \in 1..m : page[n].key \in SubKeys
    BY <1>2 DEF Entries
  <2> QED BY <1>1, <1>3, <2>1
<1>5. S \in SUBSET (1..Len(keys))
  BY <1>3, <1>4 DEF Positions
<1>6. KeysOf(page) \in Seq(SubKeys) /\ Listed(KeysOf(page)) = {keys[i] : i \in S}
  BY <1>4, <1>5, KeptItems DEF KeysOf
<1>7. {keys[i] : i \in S} = UsableIn(failures, cursor - m + 1, cursor)
  <2>1. ASSUME NEW i \in S PROVE keys[i] \in UsableIn(failures, cursor - m + 1, cursor)
    <3>1. i \in 1..m /\ cursor - i + 1 \in (cursor - m + 1)..cursor
      BY <1>1, <1>3 DEF Positions
    <3>2. failures[cursor - i + 1].use = "fresh" /\ keys[i] = failures[cursor - i + 1].key
      BY <1>2, <1>3, <3>1 DEF Positions
    <3> QED BY <3>1, <3>2 DEF UsableIn
  <2>2. ASSUME NEW k \in UsableIn(failures, cursor - m + 1, cursor) PROVE \E i \in S : k = keys[i]
    <3>1. PICK p \in (cursor - m + 1)..cursor : failures[p].use = "fresh" /\ k = failures[p].key
      BY <2>2 DEF UsableIn
    <3>2. cursor - p + 1 \in 1..m /\ cursor - (cursor - p + 1) + 1 = p
      BY <1>1, <3>1
    <3>3. page[cursor - p + 1] = failures[p]
      BY <1>2, <3>2
    <3>4. cursor - p + 1 \in S /\ keys[cursor - p + 1] = k
      BY <1>3, <3>1, <3>2, <3>3 DEF Positions
    <3> QED BY <3>4
  <2> QED BY <2>1, <2>2
<1>8. Cardinality(Positions(page, "expired")) \in Nat
  <2>1. Positions(page, "expired") \subseteq 1..m /\ IsFiniteSet(1..m)
    BY <1>1, <1>3, FS_Interval DEF Positions
  <2> QED BY <2>1, FS_Subset, FS_CardinalityType
<1> QED BY <1>1, <1>3, <1>6, <1>7, <1>8

LEMMA ReplayBegins == RpInit => ReplayInv
<1> SUFFICES ASSUME RpInit PROVE ReplayInv
  OBVIOUS
<1>1. failures \in Seq(Entries) /\ Len(failures) \in Nat
  <2>1. PICK m \in 0..(MaxFailures - 1) : failures \in [1..m -> Entries]
    BY DEF RpInit, Upto
  <2> QED BY <2>1, ReplayAssumption
<1>2. replay.list = <<>> /\ Listed(<<>>) = {}
  BY DEF RpInit, Listed
<1>3. UsableIn(failures, Len(failures) + 1, Len(failures) + 0) = {}
  BY <1>1 DEF UsableIn
<1>4. ReplayTypes
  BY <1>1, ReplayAssumption DEF RpInit, ReplayTypes, ReplayStates
<1>5. Inside
  BY <1>1 DEF RpInit, Inside
<1> QED BY <1>2, <1>3, <1>4, <1>5 DEF RpInit, ReplayInv, Collected, Repeated, Summed

\* The usable keys of two stretches that meet are those of both.
LEMMA StretchesMeet ==
  ASSUME NEW log, NEW a \in Nat, NEW b \in Nat, NEW c \in Nat, a =< b, b =< c
  PROVE  UsableIn(log, a + 1, c) = UsableIn(log, a + 1, b) \cup UsableIn(log, b + 1, c)
<1>1. (a + 1)..c = ((a + 1)..b) \cup ((b + 1)..c)
  OBVIOUS
<1> QED BY <1>1 DEF UsableIn

LEMMA ListedBoth ==
  ASSUME NEW s \in Seq(SubKeys), NEW t \in Seq(SubKeys)
  PROVE  s \o t \in Seq(SubKeys) /\ Listed(s \o t) = Listed(s) \cup Listed(t)
<1>1. s \o t \in Seq(SubKeys) /\ Len(s \o t) = Len(s) + Len(t) /\ Len(s) \in Nat /\ Len(t) \in Nat
  OBVIOUS
<1>2. \A i \in 1..Len(s) : (s \o t)[i] = s[i] /\ i \in DOMAIN (s \o t)
  BY <1>1
<1>3. \A i \in 1..Len(t) : (s \o t)[Len(s) + i] = t[i] /\ Len(s) + i \in DOMAIN (s \o t)
  BY <1>1
<1>4. \A i \in DOMAIN (s \o t) : i \in 1..Len(s) \/ (i - Len(s) \in 1..Len(t) /\ Len(s) + (i - Len(s)) = i)
  BY <1>1
<1>5. Listed(s \o t) \subseteq Listed(s) \cup Listed(t)
  BY <1>1, <1>2, <1>3, <1>4 DEF Listed
<1>6. Listed(s) \cup Listed(t) \subseteq Listed(s \o t)
  <2>1. DOMAIN s = 1..Len(s) /\ DOMAIN t = 1..Len(t)
    OBVIOUS
  <2>2. \A i \in DOMAIN s : s[i] \in Listed(s \o t)
    BY <1>2, <2>1 DEF Listed
  <2>3. \A i \in DOMAIN t : t[i] \in Listed(s \o t)
    BY <1>3, <2>1 DEF Listed
  <2> QED BY <2>2, <2>3 DEF Listed
<1> QED BY <1>1, <1>5, <1>6

\* Moving m from one count to another, and what is left of l after a.
LEMMA CountsMove ==
  ASSUME NEW a \in Nat, NEW b \in Nat, NEW m \in 0..a
  PROVE  /\ a - m \in Nat /\ a - m =< a /\ b + m \in Nat /\ a + b \in Nat /\ a =< a + b
         /\ (a - m) + (b + m) = a + b
  OBVIOUS

LEMMA CountsLeft ==
  ASSUME NEW a \in Nat, NEW l \in Nat
  PROVE  /\ a + (l - (a + 1) + 1) = l
         /\ l - (a + 1) + 1 = 0 => l = a
  OBVIOUS

LEMMA ReplayStep == ReplayInv /\ [RpNext]_rpVars => ReplayInv'
<1> SUFFICES ASSUME ReplayInv, [RpNext]_rpVars PROVE ReplayInv'
  OBVIOUS
<1>0. ReplayTypes /\ Inside /\ Collected /\ Repeated /\ Summed
  BY DEF ReplayInv
<1>t. /\ failures \in Seq(Entries) /\ replay.list \in Seq(SubKeys) /\ sent \in [SubKeys -> Nat]
      /\ DOMAIN replay.list = 1..Len(replay.list)
  BY <1>0 DEF ReplayTypes, ReplayStates
<1>n. /\ Len(failures) \in Nat /\ budget \in Nat /\ Len(replay.list) \in Nat
      /\ replay.cursor \in Nat /\ replay.scanned \in Nat /\ replay.i \in Nat
      /\ replay.attempted \in Nat /\ replay.succeeded \in Nat /\ replay.failed \in Nat
      /\ replay.expired \in Nat /\ replay.skipped \in Nat
  BY <1>0, <1>t DEF ReplayTypes, ReplayStates
<1>c. replay.cursor \in Nat /\ replay.scanned \in Nat
  BY <1>n
<1>a. replay.attempted \in Nat /\ Len(replay.list) \in Nat
  BY <1>n
<1>1. CASE ScanPage
  <2> DEFINE m == Smallest(replay.cursor, ReplayPage)
             keys == KeysOf(Page(replay.cursor))
  <2>1. replay.cursor \in 0..Len(failures)
    BY <1>0, <1>n DEF Inside
  <2>2. /\ m \in 0..replay.cursor /\ Len(Page(replay.cursor)) = m
        /\ Cardinality(Positions(Page(replay.cursor), "expired")) \in Nat
        /\ keys \in Seq(SubKeys)
        /\ Listed(keys) = UsableIn(failures, replay.cursor - m + 1, replay.cursor)
    BY <1>t, <1>n, <2>1, KeysOfPage
  <2>3. /\ replay.list \o keys \in Seq(SubKeys)
        /\ Listed(replay.list \o keys) = Listed(replay.list) \cup Listed(keys)
    BY <1>t, <2>2, ListedBoth
  <2>4. /\ replay'.list = replay.list \o keys /\ replay'.cursor = replay.cursor - m
        /\ replay'.scanned = replay.scanned + m
        /\ replay'.pc = IF replay.cursor > ReplayPage THEN "scan" ELSE "dedupe"
        /\ replay'.attempted = replay.attempted /\ replay'.succeeded = replay.succeeded
        /\ replay'.failed = replay.failed /\ replay'.skipped = replay.skipped
        /\ UNCHANGED <<failures, budget, sent>>
    BY <1>0, <1>1, <2>2 DEF ScanPage, ReplayTypes, ReplayStates
  <2> HIDE DEF m, keys
  <2>5. ReplayTypes' /\ Inside'
    <3>1. replay'.cursor \in Nat /\ replay'.scanned \in Nat
          /\ replay'.cursor + replay'.scanned = replay.cursor + replay.scanned
      <4>1. m \in 0..replay.cursor /\ replay'.cursor = replay.cursor - m
            /\ replay'.scanned = replay.scanned + m
        BY <2>2, <2>4
      <4>2. /\ replay.cursor - m \in Nat /\ replay.scanned + m \in Nat
            /\ (replay.cursor - m) + (replay.scanned + m) = replay.cursor + replay.scanned
        BY <1>c, <4>1, CountsMove
      <4> QED BY <4>1, <4>2
    <3>2. replay.expired + Cardinality(Positions(Page(replay.cursor), "expired")) \in Nat
      <4>1. Cardinality(Positions(Page(replay.cursor), "expired")) \in Nat /\ replay.expired \in Nat
        BY <1>n, <2>2
      <4> QED BY <4>1
    <3>3. replay' \in ReplayStates
      BY <1>0, <1>1, <2>2, <2>3, <2>4, <3>1, <3>2 DEF ScanPage, ReplayTypes, ReplayStates
    <3> QED BY <1>0, <2>4, <3>1, <3>3 DEF ReplayTypes, Inside
  <2>6. Collected'
    <3>1. replay.pc = "scan" /\ sent' = [k \in SubKeys |-> 0]
          /\ Listed(replay.list) = UsableIn(failures, replay.cursor + 1, replay.cursor + replay.scanned)
          /\ replay.attempted = 0 /\ replay.succeeded = 0 /\ replay.failed = 0 /\ replay.skipped = 0
      BY <1>0, <1>1 DEF Collected, ScanPage
    <3>2. /\ replay.cursor - m \in Nat /\ replay.cursor - m =< replay.cursor
          /\ replay.cursor + replay.scanned \in Nat /\ replay.cursor \in Nat
          /\ replay.cursor =< replay.cursor + replay.scanned
          /\ (replay.cursor - m) + (replay.scanned + m) = replay.cursor + replay.scanned
      <4>1. m \in 0..replay.cursor
        BY <2>2
      <4> QED BY <1>c, <4>1, CountsMove
    <3>3. UsableIn(failures, replay.cursor - m + 1, replay.cursor + replay.scanned)
            = UsableIn(failures, replay.cursor - m + 1, replay.cursor)
              \cup UsableIn(failures, replay.cursor + 1, replay.cursor + replay.scanned)
      BY <3>2, StretchesMeet
    <3>4. replay'.pc = "dedupe" => replay'.cursor = 0
      BY <1>n, <2>4, ReplayAssumption DEF m, Smallest
    <3>5. Listed(replay'.list)
            = UsableIn(failures, replay'.cursor + 1, replay'.cursor + replay'.scanned)
      <4>1. Listed(replay'.list) = Listed(replay.list) \cup Listed(keys)
        BY <2>3, <2>4
      <4>2. replay'.cursor + 1 = replay.cursor - m + 1
            /\ replay'.cursor + replay'.scanned = replay.cursor + replay.scanned
        BY <2>4, <3>2
      <4> QED BY <2>2, <3>1, <3>3, <4>1, <4>2
    <3>6. failures' = failures
      BY <2>4
    <3> QED BY <2>4, <3>1, <3>4, <3>5, <3>6 DEF Collected
  <2> QED BY <2>4, <2>5, <2>6 DEF ReplayInv, Repeated, Summed
<1>2. CASE Dedupe
  <2>1. /\ deduplicateEntries(replay.list) \in Seq(SubKeys)
        /\ Listed(deduplicateEntries(replay.list)) = Listed(replay.list)
        /\ Distinct(deduplicateEntries(replay.list))
        /\ Len(deduplicateEntries(replay.list)) \in Nat
    BY <1>t, DeduplicateKeepsKeys
  <2>2. /\ replay'.list = deduplicateEntries(replay.list) /\ replay'.pc = "next" /\ replay'.i = 1
        /\ replay'.scanned = replay.scanned /\ replay'.skipped = 0
        /\ replay'.attempted = 0 /\ replay'.succeeded = 0 /\ replay'.failed = 0
        /\ UNCHANGED <<failures, budget, sent>>
    BY <1>0, <1>2 DEF Dedupe, Collected, ReplayTypes, ReplayStates
  <2>3. ReplayTypes' /\ Inside'
    BY <1>0, <1>2, <2>1 DEF Dedupe, ReplayTypes, ReplayStates, Inside
  <2>4. Listed(replay.list) = UsableIn(failures, 1, replay.scanned) /\ sent = [k \in SubKeys |-> 0]
    <3>1. replay.cursor = 0 /\ 0 + replay.scanned = replay.scanned /\ 0 + 1 = 1
      BY <1>0, <1>n, <1>2 DEF Dedupe, Collected
    <3> QED BY <1>0, <1>2, <3>1 DEF Dedupe, Collected
  <2>5. Repeated'
    BY <2>1, <2>2, <2>4 DEF Repeated
  <2> QED BY <2>2, <2>3, <2>5 DEF ReplayInv, Collected, Summed
<1>3. CASE StartOne
  <2>1. replay.pc = "next" /\ Remaining > 0 /\ replay.i = replay.attempted + 1 /\ replay.skipped = 0
        /\ replay.succeeded + replay.failed = replay.attempted
        /\ UNCHANGED <<failures, budget>>
    BY <1>0, <1>3 DEF StartOne, Summed
  <2>2. replay.i \in 1..Len(replay.list) /\ Remaining \in Nat
    <3>1. Len(replay.list) - replay.i + 1 > 0 /\ replay.i = replay.attempted + 1
          /\ Remaining = Len(replay.list) - replay.i + 1
      BY <2>1 DEF Remaining
    <3> QED BY <1>n, <3>1
  <2>3. CASE HasSigner /\ budget > 0
    <3>1. /\ replay' = [replay EXCEPT !.pc = "sending", !.attempted = @ + 1]
          /\ sent' = [sent EXCEPT ![replay.list[replay.i]] = @ + 1]
      BY <1>3, <2>3 DEF StartOne
    <3>2. replay'.pc = "sending" /\ replay'.attempted = replay.i
          /\ replay'.list = replay.list /\ replay'.scanned = replay.scanned /\ replay'.i = replay.i
          /\ replay'.skipped = 0
          /\ replay'.succeeded = replay.succeeded /\ replay'.failed = replay.failed
      BY <1>0, <1>n, <2>1, <3>1 DEF ReplayTypes, ReplayStates
    <3>3. replay.list[replay.i] \in SubKeys
      BY <1>t, <2>2, ElementOfSeq
    <3>4. ReplayTypes' /\ Inside'
      <4>0. sent[replay.list[replay.i]] \in Nat
        BY <1>t, <3>3
      <4>1. replay.attempted + 1 \in Nat /\ sent[replay.list[replay.i]] + 1 \in Nat
        BY <1>a, <4>0
      <4>2. replay' \in ReplayStates /\ replay'.cursor = replay.cursor
        BY <1>0, <3>1, <4>1 DEF ReplayTypes, ReplayStates
      <4>3. sent' \in [SubKeys -> Nat]
        BY <1>t, <3>1, <4>1
      <4> QED BY <1>0, <2>1, <3>2, <4>2, <4>3 DEF ReplayTypes, Inside
    <3>5. sent[replay.list[replay.i]] = 0
      <4>1. ~\E n \in 1..replay.attempted : replay.list[n] = replay.list[replay.i]
        <5>1. \A n \in 1..replay.attempted : n \in DOMAIN replay.list /\ n # replay.i
          <6>1. replay.i \in 1..Len(replay.list) /\ replay.i = replay.attempted + 1
            BY <2>1, <2>2
          <6> QED BY <1>t, <1>a, <6>1
        <5> QED BY <1>0, <1>t, <2>1, <2>2, <5>1 DEF Repeated, Distinct
      <4> QED BY <1>0, <2>1, <3>3, <4>1 DEF Repeated
    <3>6. ASSUME NEW k \in SubKeys
          PROVE  sent'[k] = IF \E n \in 1..replay.i : replay.list[n] = k THEN 1 ELSE 0
      <4>1. 1..replay.i = (1..replay.attempted) \cup {replay.i}
        <5>1. replay.i = replay.attempted + 1
          BY <2>1
        <5> QED BY <1>a, <5>1
      <4>2. CASE k = replay.list[replay.i]
        <5>1. sent'[k] = 0 + 1
          BY <1>t, <3>1, <3>3, <3>5, <4>2
        <5>2. replay.i \in 1..replay.i
          BY <4>1
        <5> QED BY <4>2, <5>1, <5>2
      <4>3. CASE k # replay.list[replay.i]
        <5>1. sent'[k] = sent[k]
          BY <1>t, <3>1, <4>3
        <5> QED BY <1>0, <2>1, <4>1, <4>3, <5>1 DEF Repeated
      <4> QED BY <4>2, <4>3
    <3>7. Repeated'
      BY <1>0, <2>1, <2>2, <3>2, <3>6 DEF Repeated
    <3>8. Summed'
      BY <1>n, <2>1, <3>2 DEF Summed
    <3> QED BY <3>2, <3>4, <3>7, <3>8 DEF ReplayInv, Collected
  <2>4. CASE ~(HasSigner /\ budget > 0)
    <3>1. replay' = [replay EXCEPT !.pc = "done", !.skipped = @ + Remaining] /\ UNCHANGED sent
      BY <1>3, <2>4 DEF StartOne
    <3>2. replay'.pc = "done" /\ replay'.attempted = replay.attempted
          /\ replay'.list = replay.list /\ replay'.scanned = replay.scanned /\ replay'.cursor = replay.cursor
          /\ replay'.skipped = Remaining
          /\ replay'.succeeded = replay.succeeded /\ replay'.failed = replay.failed
      BY <1>0, <1>n, <2>1, <2>2, <3>1 DEF ReplayTypes, ReplayStates
    <3>3. ReplayTypes' /\ Inside'
      <4>1. replay.skipped + Remaining \in Nat
        BY <1>n, <2>2
      <4>2. replay' \in ReplayStates
        BY <1>0, <3>1, <4>1 DEF ReplayTypes, ReplayStates
      <4> QED BY <1>0, <2>1, <3>1, <3>2, <4>2 DEF ReplayTypes, Inside
    <3>4. Repeated'
      BY <1>0, <2>1, <3>1, <3>2 DEF Repeated
    <3>5. Summed'
      <4>1. Remaining = Len(replay.list) - replay.i + 1
        BY DEF Remaining
      <4>2. replay.attempted + Remaining = Len(replay.list)
        <5>1. replay.i = replay.attempted + 1
          BY <2>1
        <5>2. replay.attempted + (Len(replay.list) - (replay.attempted + 1) + 1) = Len(replay.list)
          BY <1>n, CountsLeft
        <5> QED BY <4>1, <5>1, <5>2
      <4> QED BY <2>1, <3>2, <4>2 DEF Summed
    <3> QED BY <3>2, <3>3, <3>4, <3>5 DEF ReplayInv, Collected
  <2> QED BY <2>3, <2>4
<1>4. CASE SentOne
  <2>1. PICK ok \in BOOLEAN :
          replay' = [replay EXCEPT !.pc = "next", !.i = @ + 1,
                                   !.succeeded = IF ok THEN @ + 1 ELSE @,
                                   !.failed = IF ok THEN @ ELSE @ + 1]
    BY <1>4 DEF SentOne
  <2>2. /\ replay'.pc = "next" /\ replay'.i = replay.i + 1 /\ replay'.list = replay.list
        /\ replay'.attempted = replay.attempted /\ replay'.scanned = replay.scanned
        /\ replay'.skipped = replay.skipped
        /\ replay'.succeeded + replay'.failed = replay.succeeded + replay.failed + 1
        /\ UNCHANGED <<failures, sent>> /\ budget' \in Nat
    <3>1. /\ replay'.pc = "next" /\ replay'.i = replay.i + 1 /\ replay'.list = replay.list
          /\ replay'.attempted = replay.attempted /\ replay'.scanned = replay.scanned
          /\ replay'.skipped = replay.skipped
          /\ replay'.succeeded = IF ok THEN replay.succeeded + 1 ELSE replay.succeeded
          /\ replay'.failed = IF ok THEN replay.failed ELSE replay.failed + 1
      BY <1>0, <2>1 DEF ReplayTypes, ReplayStates
    <3>2. replay'.succeeded + replay'.failed = replay.succeeded + replay.failed + 1
      <4>0. replay.succeeded \in Nat /\ replay.failed \in Nat
        BY <1>n
      <4>1. CASE ok
        <5>1. replay'.succeeded = replay.succeeded + 1 /\ replay'.failed = replay.failed
          BY <3>1, <4>1
        <5> QED BY <4>0, <5>1
      <4>2. CASE ~ok
        <5>1. replay'.succeeded = replay.succeeded /\ replay'.failed = replay.failed + 1
          BY <3>1, <4>2
        <5> QED BY <4>0, <5>1
      <4> QED BY <4>1, <4>2
    <3>3. UNCHANGED <<failures, sent>> /\ budget' \in Nat
      BY <1>0, <1>4 DEF SentOne, ReplayTypes
    <3> QED BY <3>1, <3>2, <3>3
  <2>3. ReplayTypes' /\ Inside'
    <3>1. replay.i + 1 \in Nat /\ replay.succeeded + 1 \in Nat /\ replay.failed + 1 \in Nat
      BY <1>n
    <3>2. replay' \in ReplayStates /\ replay'.cursor = replay.cursor
      BY <1>0, <2>1, <3>1 DEF ReplayTypes, ReplayStates
    <3> QED BY <1>0, <2>2, <3>2 DEF ReplayTypes, Inside
  <2>4. Repeated' /\ Summed'
    BY <1>0, <1>n, <1>4, <2>2 DEF SentOne, Repeated, Summed
  <2> QED BY <2>2, <2>3, <2>4 DEF ReplayInv, Collected
<1>5. CASE FinishReplay
  <2>1. replay.pc = "next" /\ Remaining = 0 /\ replay' = [replay EXCEPT !.pc = "done"]
        /\ UNCHANGED <<failures, budget, sent>>
    BY <1>5 DEF FinishReplay
  <2>2. /\ replay'.pc = "done" /\ replay'.list = replay.list /\ replay'.attempted = replay.attempted
        /\ replay'.scanned = replay.scanned /\ replay'.skipped = replay.skipped
        /\ replay'.cursor = replay.cursor
        /\ replay'.succeeded = replay.succeeded /\ replay'.failed = replay.failed
        /\ replay' \in ReplayStates
    BY <1>0, <2>1 DEF ReplayTypes, ReplayStates
  <2>3. ReplayTypes' /\ Inside' /\ Repeated' /\ Collected'
    BY <1>0, <2>1, <2>2 DEF ReplayTypes, Inside, Repeated, Collected
  <2>4. replay.attempted + replay.skipped = Len(replay.list)
    <3>1. Len(replay.list) - replay.i + 1 = 0
      BY <2>1 DEF Remaining
    <3>2. replay.i = replay.attempted + 1 /\ replay.skipped = 0
      BY <1>0, <2>1 DEF Summed
    <3>3. Len(replay.list) = replay.attempted
      BY <1>n, <3>1, <3>2, CountsLeft
    <3> QED BY <1>n, <3>2, <3>3
  <2>5. Summed'
    BY <1>0, <2>1, <2>2, <2>4 DEF Summed
  <2> QED BY <2>3, <2>5 DEF ReplayInv
<1>6. CASE \E k \in SubKeys : NewFailure(k)
  <2>1. PICK k \in SubKeys : NewFailure(k)
    BY <1>6
  <2> DEFINE e == [key |-> k, use |-> "fresh"]
  <2>2. /\ e \in Entries /\ failures' = Append(failures, e)
        /\ failures' \in Seq(Entries) /\ Len(failures') = Len(failures) + 1
        /\ \A p \in 1..Len(failures) : failures'[p] = failures[p]
        /\ UNCHANGED <<replay, budget, sent>>
    BY <1>t, <2>1 DEF NewFailure, Entries
  <2>3. ReplayTypes' /\ Inside'
    BY <1>0, <1>n, <2>2 DEF ReplayTypes, Inside
  <2>4. ASSUME NEW from \in Nat \ {0}, NEW upto \in 0..Len(failures)
        PROVE  UsableIn(failures', from, upto) = UsableIn(failures, from, upto)
    <3>1. from..upto \subseteq 1..Len(failures)
      BY <1>n
    <3> QED BY <2>2, <3>1 DEF UsableIn
  <2>5. /\ replay.cursor + 1 \in Nat \ {0} /\ replay.cursor + replay.scanned \in 0..Len(failures)
        /\ replay.scanned \in 0..Len(failures) /\ 1 \in Nat \ {0}
    <3>1. replay.cursor + replay.scanned =< Len(failures)
      BY <1>0 DEF Inside
    <3>2. Len(failures) \in Nat /\ replay.cursor \in Nat /\ replay.scanned \in Nat
      BY <1>n
    <3> QED BY <3>1, <3>2
  <2>6. /\ UsableIn(failures', replay.cursor + 1, replay.cursor + replay.scanned)
              = UsableIn(failures, replay.cursor + 1, replay.cursor + replay.scanned)
        /\ UsableIn(failures', 1, replay.scanned) = UsableIn(failures, 1, replay.scanned)
    BY <2>4, <2>5
  <2>7. Collected' /\ Repeated' /\ Summed'
    BY <1>0, <2>2, <2>6 DEF Collected, Repeated, Summed
  <2> QED BY <2>3, <2>7 DEF ReplayInv
<1>7. CASE BudgetMoves
  <2>1. budget' \in Nat /\ UNCHANGED <<failures, replay, sent>>
    BY <1>n, <1>7, ReplayAssumption DEF BudgetMoves
  <2> QED BY <1>0, <2>1 DEF ReplayInv, ReplayTypes, Inside, Collected, Repeated, Summed
<1>8. CASE UNCHANGED rpVars
  BY <1>0, <1>8 DEF rpVars, ReplayInv, ReplayTypes, Inside, Collected, Repeated, Summed
<1> QED BY <1>1, <1>2, <1>3, <1>4, <1>5, <1>6, <1>7, <1>8 DEF RpNext

\* The first n of distinct items are n.
LEMMA DistinctCount ==
  ASSUME NEW T, NEW s \in Seq(T), Distinct(s), NEW m \in 0..Len(s)
  PROVE  Cardinality({s[n] : n \in 1..m}) = m
<1> DEFINE R == {s[n] : n \in 1..m}
           f == [n \in 1..m |-> s[n]]
<1>1. Len(s) \in Nat /\ m \in Nat /\ 1..m \subseteq DOMAIN s
  OBVIOUS
<1>2. f \in Bijection(1..m, R)
  <2>1. f \in [1..m -> R] /\ \A t \in R : \E n \in 1..m : f[n] = t
    OBVIOUS
  <2>2. \A i, j \in 1..m : f[i] = f[j] => i = j
    BY <1>1 DEF Distinct
  <2> QED BY <2>1, <2>2 DEF Bijection, Injection, Surjection, IsInjective
<1>3. ExistsBijection(1..m, R)
  BY <1>2 DEF ExistsBijection
<1>4. IsFiniteSet(1..m) /\ Cardinality(1..m) = m
  BY <1>1, FS_Interval
<1> QED BY <1>3, <1>4, FS_Bijection

\* For any log, page size and budget, a restart submits each failed attestation again at
\* most once, however often it was recorded and whatever is recorded while the replay
\* runs, and its summary accounts for every submission that could be repeated
\* (replayFailedSubmissions).
THEOREM ReplayIsSingle == RpSpec => []ReplayedOnce
<1>1. ASSUME ReplayInv PROVE ReplayedOnce
  <2>0. ReplayTypes /\ Collected /\ Repeated /\ Summed
    BY <1>1 DEF ReplayInv
  <2>1. ASSUME NEW k \in SubKeys PROVE sent[k] =< 1
    <3>1. CASE replay.pc \in {"scan", "dedupe"}
      <4>1. sent[k] = 0
        BY <2>0, <3>1 DEF Collected
      <4> QED BY <4>1
    <3>2. CASE replay.pc \in {"next", "sending", "done"}
      <4>1. sent[k] = 0 \/ sent[k] = 1
        BY <2>0, <3>2 DEF Repeated
      <4> QED BY <4>1
    <3> QED BY <2>0, <3>1, <3>2 DEF ReplayTypes, ReplayStates
  <2>2. ASSUME replay.pc = "done"
        PROVE  LET tried == {k \in SubKeys : sent[k] = 1}
               IN  /\ tried \subseteq Usable(replay.scanned)
                   /\ Cardinality(tried) = replay.attempted
                   /\ replay.attempted = replay.succeeded + replay.failed
                   /\ Cardinality(Usable(replay.scanned)) = replay.attempted + replay.skipped
    <3> DEFINE tried == {k \in SubKeys : sent[k] = 1}
               list == replay.list
               upTo(n) == {list[j] : j \in 1..n}
    <3>1. /\ list \in Seq(SubKeys) /\ Distinct(list) /\ Len(list) \in Nat
          /\ replay.attempted \in 0..Len(list) /\ DOMAIN list = 1..Len(list)
          /\ Listed(list) = UsableIn(failures, 1, replay.scanned)
      BY <2>0, <2>2 DEF ReplayTypes, ReplayStates, Repeated
    <3>2. tried = upTo(replay.attempted)
      <4>1. \A j \in 1..replay.attempted : list[j] \in SubKeys
        BY <3>1, ElementOfSeq
      <4>2. \A k \in SubKeys : sent[k] = IF \E n \in 1..replay.attempted : list[n] = k THEN 1 ELSE 0
        BY <2>0, <2>2 DEF Repeated
      <4> QED BY <4>1, <4>2
    <3>3. Usable(replay.scanned) = upTo(Len(list))
      BY <3>1 DEF Usable, UsableIn, Listed
    <3>4. Cardinality(upTo(replay.attempted)) = replay.attempted
      BY <3>1, DistinctCount
    <3>5. Cardinality(upTo(Len(list))) = Len(list)
      BY <3>1, DistinctCount
    <3>6. upTo(replay.attempted) \subseteq upTo(Len(list))
      BY <3>1
    <3>7. replay.attempted = replay.succeeded + replay.failed
          /\ Len(list) = replay.attempted + replay.skipped
      BY <2>0, <2>2 DEF Summed, ReplayTypes, ReplayStates
    <3> QED BY <3>2, <3>3, <3>4, <3>5, <3>6, <3>7
  <2> QED BY <2>1, <2>2 DEF ReplayedOnce
<1> QED BY <1>1, ReplayBegins, ReplayStep, PTL DEF RpSpec
==============================================================================
