------------------------------ MODULE Shutdown ------------------------------
(***************************************************************************)
(* src/src/shutdown.ts with the bootstrap of src/src/index.ts: the order   *)
(* in which server, pool and background services go down, against          *)
(* repeated signals, the deadline timer, failing steps and connections     *)
(* that never end.                                                         *)
(*                                                                         *)
(* The signal handlers are registered last in bootstrap; a signal before   *)
(* that has Node's default effect.  Each await of performShutdown is a     *)
(* separate action.                                                        *)
(***************************************************************************)
EXTENDS Naturals

CONSTANTS
  Conns,      \* client connections (HTTP requests and WebSocket streams)
  Kafka,      \* KAFKA_ENABLED
  MaxSignals  \* bound on SIGTERM/SIGINT

ASSUME ShutdownAssumption == Kafka \in BOOLEAN /\ MaxSignals \in Nat

VARIABLES
  boot,      \* "loading" secrets, "starting" the consumer, or "registered"
  conn,      \* conn[c]: "none", "open", "ended" or "cut" (by process exit)
  listening, \* the server accepts connections
  phase,     \* performShutdown: "none", "closing", "pool", "cleanup", "finished", "failed"
  deadline,  \* the deadline timer: "none", "armed" or "cleared"
  pool,      \* the PostgreSQL pool: "open", "ending", "ended" or "broken" (end() rejected)
  consumer,  \* the Kafka consumer runs
  signals,   \* signals so far
  exit       \* "no", "clean" (0), "forced" (1) or "default" (no handler)

vars == <<boot, conn, listening, phase, deadline, pool, consumer, signals, exit>>

TypeOK ==
  /\ boot \in {"loading", "starting", "registered"}
  /\ conn \in [Conns -> {"none", "open", "ended", "cut"}]
  /\ listening \in BOOLEAN
  /\ phase \in {"none", "closing", "pool", "cleanup", "finished", "failed"}
  /\ deadline \in {"none", "armed", "cleared"}
  /\ pool \in {"open", "ending", "ended", "broken"}
  /\ consumer \in BOOLEAN
  /\ signals \in 0..MaxSignals
  /\ exit \in {"no", "clean", "forced", "default"}
  /\ phase # "none" => boot = "registered" /\ deadline # "none"

Init ==
  /\ boot = "loading"
  /\ conn = [c \in Conns |-> "none"]
  /\ listening = FALSE
  /\ phase = "none"
  /\ deadline = "none"
  /\ pool = "open"
  /\ consumer = FALSE
  /\ signals = 0
  /\ exit = "no"

Running == exit = "no"
Busy == \E c \in Conns : conn[c] = "open"

\* process.exit, or the default action of a signal: open connections are cut.
Exit(how) ==
  /\ exit' = how
  /\ conn' = [c \in Conns |-> IF conn[c] = "open" THEN "cut" ELSE conn[c]]
  /\ listening' = FALSE
  /\ consumer' = FALSE

(***************************************************************************)
(* bootstrap.                                                              *)
(***************************************************************************)

\* Secrets are loaded and startServer resolves.
ServerStarts ==
  /\ Running
  /\ boot = "loading"
  /\ listening' = TRUE
  /\ boot' = IF Kafka THEN "starting" ELSE "registered"
  /\ UNCHANGED <<conn, phase, deadline, pool, consumer, signals, exit>>

\* kafkaConsumer.start() resolves; register() attaches the handlers.
ConsumerStarts ==
  /\ Running
  /\ boot = "starting"
  /\ consumer' = TRUE
  /\ boot' = "registered"
  /\ UNCHANGED <<conn, listening, phase, deadline, pool, signals, exit>>

\* A rejected start: bootstrap().catch exits with 1.
BootFails ==
  /\ Running
  /\ boot # "registered"
  /\ Exit("forced")
  /\ UNCHANGED <<boot, phase, deadline, pool, signals>>

(***************************************************************************)
(* Clients.                                                                *)
(***************************************************************************)

Connect(c) ==
  /\ Running
  /\ listening
  /\ conn[c] = "none"
  /\ conn' = [conn EXCEPT ![c] = "open"]
  /\ UNCHANGED <<boot, listening, phase, deadline, pool, consumer, signals, exit>>

ConnEnds(c) ==
  /\ Running
  /\ conn[c] = "open"
  /\ conn' = [conn EXCEPT ![c] = "ended"]
  /\ UNCHANGED <<boot, listening, phase, deadline, pool, consumer, signals, exit>>

(***************************************************************************)
(* Signals and the deadline.                                               *)
(***************************************************************************)

\* Before register() the signal terminates the process.
SignalUnhandled ==
  /\ Running
  /\ boot # "registered"
  /\ signals < MaxSignals
  /\ signals' = signals + 1
  /\ Exit("default")
  /\ UNCHANGED <<boot, phase, deadline, pool>>

\* (mutant) no deadline timer.
FirstSignal_NoDeadline ==
  /\ Running
  /\ boot = "registered"
  /\ phase = "none"
  /\ signals < MaxSignals
  /\ signals' = signals + 1
  /\ deadline' = "none"
  /\ phase' = "closing"
  /\ listening' = FALSE
  /\ UNCHANGED <<boot, conn, pool, consumer, exit>>

\* isShuttingDown is set, the deadline armed, server.close() called.
FirstSignal ==
  /\ Running
  /\ boot = "registered"
  /\ phase = "none"
  /\ signals < MaxSignals
  /\ signals' = signals + 1
  /\ deadline' = "armed"
  /\ phase' = "closing"
  /\ listening' = FALSE
  /\ UNCHANGED <<boot, conn, pool, consumer, exit>>

\* A second signal exits with 1 at once.
RepeatedSignal ==
  /\ Running
  /\ phase # "none"
  /\ signals < MaxSignals
  /\ signals' = signals + 1
  /\ Exit("forced")
  /\ UNCHANGED <<boot, phase, deadline, pool>>

DeadlineFires ==
  /\ Running
  /\ deadline = "armed"
  /\ Exit("forced")
  /\ UNCHANGED <<boot, phase, deadline, pool, signals>>

(***************************************************************************)
(* performShutdown.                                                        *)
(***************************************************************************)

\* (mutant) the pool is ended without waiting for server.close().
ServerClosed_NotAwaited ==
  /\ Running
  /\ phase = "closing"
  /\ phase' = "pool"
  /\ pool' = "ending"
  /\ UNCHANGED <<boot, conn, listening, deadline, consumer, signals, exit>>

\* server.close calls back once every connection has ended; pool.end() is called.
ServerClosed ==
  /\ Running
  /\ phase = "closing"
  /\ ~Busy
  /\ phase' = "pool"
  /\ pool' = "ending"
  /\ UNCHANGED <<boot, conn, listening, deadline, consumer, signals, exit>>

\* server.close reports an error: performShutdown rejects.
ServerCloseFails ==
  /\ Running
  /\ phase = "closing"
  /\ phase' = "failed"
  /\ UNCHANGED <<boot, conn, listening, deadline, pool, consumer, signals, exit>>

\* pool.end() settles; a rejection is logged and the cleanup hook runs either way.
PoolSettles ==
  /\ Running
  /\ phase = "pool"
  /\ pool' \in {"ended", "broken"}
  /\ phase' = "cleanup"
  /\ UNCHANGED <<boot, conn, listening, deadline, consumer, signals, exit>>

\* onCleanup stops the consumer and the other services; errors are logged.
CleanupSettles ==
  /\ Running
  /\ phase = "cleanup"
  /\ phase' = "finished"
  /\ consumer' = FALSE
  /\ UNCHANGED <<boot, conn, listening, deadline, pool, signals, exit>>

\* The then or the catch of performShutdown: clear the deadline and exit.
ShutdownSettles ==
  /\ Running
  /\ phase \in {"finished", "failed"}
  /\ deadline' = "cleared"
  /\ Exit(IF phase = "finished" THEN "clean" ELSE "forced")
  /\ UNCHANGED <<boot, phase, pool, signals>>

Next ==
  \/ ServerStarts
  \/ ConsumerStarts
  \/ BootFails
  \/ \E c \in Conns : Connect(c) \/ ConnEnds(c)
  \/ SignalUnhandled
  \/ FirstSignal
  \/ RepeatedSignal
  \/ DeadlineFires
  \/ ServerClosed
  \/ ServerCloseFails
  \/ PoolSettles
  \/ CleanupSettles
  \/ ShutdownSettles

Spec == Init /\ [][Next]_vars

\* The deadline timer fires if nothing clears it, and settled promises run their
\* continuations.  Connections, the pool and the hook owe nothing.
Fairness ==
  /\ WF_vars(DeadlineFires)
  /\ WF_vars(ShutdownSettles)

FairSpec == Spec /\ Fairness

(***************************************************************************)
(* Properties.                                                             *)
(***************************************************************************)

\* Exit code 0 means what it says: every connection ended by itself and the pool's end
\* was awaited.
CleanExitDrained ==
  exit = "clean" =>
    /\ \A c \in Conns : conn[c] # "cut"
    /\ pool \in {"ended", "broken"}

\* The pool is never ended under a connection that may still query it.
PoolOutlivesConnections ==
  pool # "open" => ~Busy

\* Requests die by a signal's default action only in the window in which the server
\* listens and kafkaConsumer.start() is awaited.
CutOnlyInBootWindow ==
  exit = "default" /\ (\E c \in Conns : conn[c] = "cut") => boot = "starting"

\* The shutdown of shutdown.ts keeps its order: a clean exit is drained, the pool
\* outlives the connections, the hook has stopped the services before the exit, and
\* only the boot window lets a first signal cut a request.
OrderlyExit ==
  /\ [](CleanExitDrained /\ PoolOutlivesConnections /\ CutOnlyInBootWindow)
  /\ [][exit' = "clean" /\ exit = "no" => ~consumer]_vars

\* Once a shutdown has begun the process exits, whatever connections, pool and hook do:
\* "the process never hangs silently".
ShutdownEnds ==
  (phase # "none") ~> (exit # "no")
=============================================================================
