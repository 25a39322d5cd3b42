------------------------------- MODULE Health -------------------------------
(***************************************************************************)
(* The health endpoints, routes/health.ts, and the readiness checks of     *)
(* startup/readiness.ts they share the database probe with.                *)
(*                                                                         *)
(* A dependency answers, fails or hangs, and changes at any time.  Each    *)
(* check of a probe is a separate step; those of one Promise.all are       *)
(* pending together.                                                       *)
(***************************************************************************)
EXTENDS Naturals, FiniteSets

CONSTANTS Probes,       \* requests handled at once
          Configured,   \* the dependencies whose environment variable is set
          HasSorobanClient  \* soroban-client can be imported; package.json lacks it

Dependencies == {"db", "redis", "soroban", "email"}

ASSUME ConfiguredAssumption == Configured \subseteq Dependencies /\ HasSorobanClient \in BOOLEAN

VARIABLES dep,      \* dep[d]: "up", "down" or "hung"
          probe,    \* probe[p]: the route, pending checks and results
          reached,  \* reached[p]: dependencies that were up at some time of the probe
          report    \* the startup readiness report: "none", "pending", "ready" or "failed"

hlVars == <<dep, probe, reached, report>>

Routes == {"ready", "shallow", "deep"}
NoProbe == [route |-> "none", stage |-> 0, pending |-> {}, failed |-> {}, code |-> 0]

HlInit ==
    /\ dep \in [Dependencies -> {"up"}]
    /\ probe = [p \in Probes |-> NoProbe]
    /\ reached = [p \in Probes |-> {}]
    /\ report = "none"

(* The first Promise.all of a route, and the second of deep mode. *)
FirstChecks(route) == IF route = "ready" THEN {"db"} ELSE {"db", "redis"}
SecondChecks == {"soroban", "email"}

Up(now) == {d \in Dependencies : now[d] = "up"}

(* GET /ready, / and /?mode=deep; /live answers at once and reads nothing. *)
Receive(p, route) ==
    /\ probe[p].route = "none" /\ report \in {"ready", "failed"}
    /\ probe' = [probe EXCEPT ![p] = [route |-> route, stage |-> 1,
                    pending |-> FirstChecks(route) \cap Configured, failed |-> {}, code |-> 0]]
    /\ reached' = [reached EXCEPT ![p] = Up(dep)]
    /\ UNCHANGED <<dep, report>>

Settle(p, d, ok) ==
    /\ probe' = [probe EXCEPT ![p].pending = @ \ {d},
                              ![p].failed = IF ok THEN @ ELSE @ \cup {d}]
    /\ UNCHANGED <<dep, reached, report>>

Contacts(d) == d = "soroban" => HasSorobanClient

(* checkDb, checkRedis, checkSoroban, checkEmail. *)
CheckReturns(p, d) ==
    /\ d \in probe[p].pending /\ Contacts(d)
    /\ dep[d] # "hung"
    /\ Settle(p, d, dep[d] = "up")

(* checkSoroban without its client: undefined, as if it were not configured. *)
SorobanSkipped(p) ==
    /\ "soroban" \in probe[p].pending /\ ~HasSorobanClient
    /\ Settle(p, "soroban", TRUE)

(* Mutant: the Redis check is awaited without withTimeout. *)
CheckTimesOut_NotRedis(p, d) ==
    /\ d \in probe[p].pending /\ Contacts(d)
    /\ d # "redis"
    /\ Settle(p, d, FALSE)

(* withTimeout, or the socket's own timeout: reported as down. *)
CheckTimesOut(p, d) ==
    /\ d \in probe[p].pending /\ Contacts(d)
    /\ Settle(p, d, FALSE)

SecondStage(p) ==
    /\ probe[p].route = "deep" /\ probe[p].stage = 1 /\ probe[p].pending = {}
    /\ probe' = [probe EXCEPT ![p].stage = 2, ![p].pending = SecondChecks \cap Configured]
    /\ UNCHANGED <<dep, reached, report>>

(* The code of the answer: shallow mode only says "degraded" in the body. *)
StatusCode(r) ==
    CASE r.route = "ready" -> IF "db" \in r.failed THEN 503 ELSE 200
      [] r.route = "deep" -> IF r.failed \cap {"db", "soroban", "email"} # {} THEN 503 ELSE 200
      [] OTHER -> 200

AnswerProbe(p) ==
    /\ probe[p].route # "none" /\ probe[p].pending = {} /\ probe[p].code = 0
    /\ probe[p].route = "deep" => probe[p].stage = 2
    /\ probe' = [probe EXCEPT ![p].code = StatusCode(probe[p])]
    /\ UNCHANGED <<dep, reached, report>>

ProbeEnds(p) ==
    /\ probe[p].code # 0
    /\ probe' = [probe EXCEPT ![p] = NoProbe]
    /\ reached' = [reached EXCEPT ![p] = {}]
    /\ UNCHANGED <<dep, report>>

-----------------------------------------------------------------------------
(* runStartupDependencyReadinessChecks: the configuration checks, then the
   database, with its timeout.  startServer goes on whatever the report says. *)
StartReadiness ==
    /\ report = "none"
    /\ report' \in IF "db" \in Configured THEN {"pending"} ELSE {"ready", "failed"}
    /\ UNCHANGED <<dep, probe, reached>>

ReadinessDone ==
    /\ report = "pending"
    /\ report' \in IF dep["db"] = "up" THEN {"ready", "failed"} ELSE {"failed"}
    /\ UNCHANGED <<dep, probe, reached>>

DependencyChanges(d) ==
    /\ \E s \in {"up", "down", "hung"} \ {dep[d]} :
          /\ dep' = [dep EXCEPT ![d] = s]
          /\ reached' = [p \in Probes |->
                IF probe[p].route # "none" /\ s = "up" THEN reached[p] \cup {d} ELSE reached[p]]
    /\ UNCHANGED <<probe, report>>

HlNext ==
    \/ \E p \in Probes :
          \/ \E r \in Routes : Receive(p, r)
          \/ \E d \in Dependencies : CheckReturns(p, d) \/ CheckTimesOut(p, d)
          \/ SorobanSkipped(p) \/ SecondStage(p) \/ AnswerProbe(p) \/ ProbeEnds(p)
    \/ StartReadiness \/ ReadinessDone
    \/ \E d \in Configured : DependencyChanges(d)

HlSpec == HlInit /\ [][HlNext]_hlVars

(* Timers fire and promises that have settled continue. *)
HlFairness ==
    \A p \in Probes :
        /\ \A d \in Dependencies : WF_hlVars(CheckTimesOut(p, d))
        /\ WF_hlVars(SorobanSkipped(p))
        /\ WF_hlVars(SecondStage(p))
        /\ WF_hlVars(AnswerProbe(p))

-----------------------------------------------------------------------------
(* Every probe is answered, whichever dependencies hang meanwhile. *)
ProbesAnswered == \A p \in Probes : probe[p].route # "none" ~> probe[p].code # 0

(* 200 of /ready and of deep mode is true: every configured dependency they
   count as critical was reachable at some time during the probe.  Soroban is
   left out of deep mode where soroban-client is not installed: nobody asks. *)
HealthyWasReachable ==
    \A p \in Probes : probe[p].code = 200 =>
        /\ probe[p].route \in {"ready", "deep"} /\ "db" \in Configured => "db" \in reached[p]
        /\ probe[p].route = "deep" => {d \in SecondChecks \cap Configured : Contacts(d)} \subseteq reached[p]

(* Probes are answered, and a 200 is not a lie. *)
ProbesHold == []HealthyWasReachable /\ ProbesAnswered
=============================================================================
