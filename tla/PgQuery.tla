------------------------------ MODULE PgQuery ------------------------------
(***************************************************************************)
(* PgClient.query of db/client.ts: a long statement with a WHERE is        *)
(* prepared, executed and deallocated by three pool.query calls, each of   *)
(* which may get a different connection, and any failure falls back to     *)
(* running the plain statement.                                            *)
(*                                                                         *)
(* Every caller goes through `db', a Proxy over an empty object with only  *)
(* a get trap: preparedStatementCounter++ reads 0 from the client and      *)
(* writes 1 to the empty object, so the name is prep_0 in every call, and  *)
(* a connection holds one statement at most.                               *)
(*                                                                         *)
(* The server connections are a process's own, unless PgBouncer shares     *)
(* them between the clients.  A command may fail with or without having    *)
(* taken effect.                                                           *)
(***************************************************************************)
EXTENDS Naturals

CONSTANTS Calls,       \* calls of query
          CallKinds,   \* CallKinds[c]: [process, long, params]
          Servers,     \* server connections
          ServerOf,    \* ServerOf[s]: the process a connection belongs to
          Modes,       \* PGBOUNCER_MODE, the override or what is detected
          NoCall

ASSUME PgAssumption == NoCall \notin Calls

VARIABLES mode,        \* pgbouncerMode.mode
          call,        \* call[c]: where the call is and its result
          prepared,    \* prepared[s]: the call whose text is prep_0 on s, or NoCall
          runs         \* runs[c]: times the statement of c has been run

pgVars == <<mode, call, prepared, runs>>

NewCall == [pc |-> "start", result |-> NoCall]

PgInit ==
    /\ mode \in Modes
    /\ call = [c \in Calls |-> NewCall]
    /\ prepared = [s \in Servers |-> NoCall]
    /\ runs = [c \in Calls |-> 0]

-----------------------------------------------------------------------------
(* detectPgBouncerMode: only "transaction" turns the statements off. *)
disablePreparedStatements == mode = "transaction"
usePrepared(c) == CallKinds[c].long /\ ~disablePreparedStatements

(* What the pool may hand out; shared connections are PgBouncer's. *)
SharesServers == mode \in {"transaction", "statement", "unknown"}
Reaches(c, s) == SharesServers \/ ServerOf[s] = CallKinds[c].process

MoveTo(c, pc) == [call EXCEPT ![c].pc = pc]

query(c) ==
    /\ call[c].pc = "start"
    /\ call' = MoveTo(c, IF usePrepared(c) THEN "prepare" ELSE "unnamed")
    /\ UNCHANGED <<mode, prepared, runs>>

(* PREPARE fails where the name is in use. *)
Prepare(c, s) ==
    LET free == prepared[s] = NoCall IN
    /\ call[c].pc = "prepare" /\ Reaches(c, s)
    /\ prepared' = IF free THEN [prepared EXCEPT ![s] = c] ELSE prepared
    /\ call' = MoveTo(c, IF free THEN "execute" ELSE "unnamed")
    /\ UNCHANGED <<mode, runs>>

(* Mutant: the values are written into the text, so that nothing is bound. *)
Executes_Inlined(c, s) == prepared[s] # NoCall

(* EXECUTE with params is refused, for they are bound to the EXECUTE, which
   has none; without, it is refused for a statement that wants some. *)
Executes(c, s) ==
    /\ prepared[s] # NoCall
    /\ ~CallKinds[c].params /\ ~CallKinds[prepared[s]].params

(* It runs what the name stands for on the connection it gets. *)
Execute(c, s) ==
    /\ call[c].pc = "execute" /\ Reaches(c, s)
    /\ \/ /\ Executes(c, s)
          /\ call' = [call EXCEPT ![c] = [pc |-> "deallocate", result |-> prepared[s]]]
          /\ runs' = [runs EXCEPT ![prepared[s]] = @ + 1]
       \/ /\ ~Executes(c, s)
          /\ call' = MoveTo(c, "unnamed")
          /\ UNCHANGED runs
    /\ UNCHANGED <<mode, prepared>>

(* DEALLOCATE: the result is returned; a miss throws it away. *)
Deallocate(c, s) ==
    /\ call[c].pc = "deallocate" /\ Reaches(c, s)
    /\ prepared' = [prepared EXCEPT ![s] = NoCall]
    /\ call' = MoveTo(c, IF prepared[s] # NoCall THEN "ok" ELSE "unnamed")
    /\ UNCHANGED <<mode, runs>>

executeUnnamed(c) ==
    /\ call[c].pc = "unnamed"
    /\ runs' = [runs EXCEPT ![c] = @ + 1]
    /\ call' = [call EXCEPT ![c] = [pc |-> "ok", result |-> c]]
    /\ UNCHANGED <<mode, prepared>>

(* The connection fails before or after the command took effect: what was
   prepared on it is gone with it.  The plain statement's failure is the
   caller's. *)
ConnectionFails(c, s) ==
    /\ call[c].pc \in {"prepare", "execute", "deallocate", "unnamed"} /\ Reaches(c, s)
    /\ prepared' = [prepared EXCEPT ![s] = NoCall]
    /\ call' = MoveTo(c, IF call[c].pc = "unnamed" THEN "failed" ELSE "unnamed")
    /\ \/ UNCHANGED runs
       \/ /\ call[c].pc = "execute" /\ Executes(c, s)
          /\ runs' = [runs EXCEPT ![prepared[s]] = @ + 1]
       \/ /\ call[c].pc = "unnamed"
          /\ runs' = [runs EXCEPT ![c] = @ + 1]
    /\ UNCHANGED mode

PgNext ==
    \E c \in Calls :
       \/ query(c) \/ executeUnnamed(c)
       \/ \E s \in Servers : Prepare(c, s) \/ Execute(c, s) \/ Deallocate(c, s) \/ ConnectionFails(c, s)

PgSpec == PgInit /\ [][PgNext]_pgVars

-----------------------------------------------------------------------------
(* Prepared and without parameters: what prep_0 stands for decides. *)
Interchangeable(c) == usePrepared(c) /\ ~CallKinds[c].params

(* One name for all calls, on connections that are dealt out command by
   command, and yet: a query with parameters, as all those of the repositories
   that are prepared, or one that is not prepared, answers with the result of
   its own statement, which has then run once, and never runs twice; failures
   and statements that others left behind change nothing about it.  A prepared
   query without parameters may get another's result, but only that of another
   such query, and of its own process where connections are not shared. *)
QueryRunsOwnStatement ==
    \A c \in Calls :
        /\ ~Interchangeable(c) =>
              /\ call[c].pc = "ok" => call[c].result = c /\ runs[c] = 1
              /\ runs[c] =< 1
        /\ call[c].pc = "ok" /\ call[c].result # c =>
              /\ Interchangeable(call[c].result)
              /\ SharesServers \/ CallKinds[call[c].result].process = CallKinds[c].process
=============================================================================
