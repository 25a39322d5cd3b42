-------------------------- MODULE AttestationStream --------------------------
(***************************************************************************)
(* The WebSocket stream of src/ws/attestationStream.ts: the registry of    *)
(* sockets, its per-user count, and the heartbeat that prunes idle ones.   *)
(* The close and error listeners are attached only after the business of   *)
(* the user has been awaited.                                              *)
(***************************************************************************)
EXTENDS Naturals, FiniteSets

CONSTANTS
    Sockets, StreamUsers,
    StreamUserOf,     \* the user whose token a socket presents
    MaxConns          \* WS_MAX_CONNS_PER_USER

ASSUME StreamAssumption ==
    /\ StreamUserOf \in [Sockets -> StreamUsers]
    /\ MaxConns \in Nat

VARIABLES
    sock,             \* "none", "open" or "closed", as the ws library has it
    awaiting,         \* sockets whose business is being looked up
    alive,            \* sockets whose isAlive is true
    registered,       \* broadcaster.sockets
    connCounts,       \* broadcaster.connCounts; 0 for no entry
    early             \* history: sockets closed while awaiting

strVars == <<sock, awaiting, alive, registered, connCounts, early>>

StrInit ==
    /\ sock = [s \in Sockets |-> "none"]
    /\ awaiting = {} /\ alive = {} /\ registered = {} /\ early = {}
    /\ connCounts = [u \in StreamUsers |-> 0]

Mine(s) == StreamUserOf[s]

\* The count after remove(socket) for the sockets of the set gone.
CountsWithout(gone) ==
    [u \in StreamUsers |-> connCounts[u] - Cardinality({s \in gone : Mine(s) = u})]

RemoveAll_Unguarded(gone) ==
    /\ registered' = registered \ gone
    /\ connCounts' = [u \in StreamUsers |->
                        LET k == Cardinality({s \in gone : Mine(s) = u}) IN
                        IF connCounts[u] > k THEN connCounts[u] - k ELSE 0]

\* broadcaster.remove for each of them: a socket that is not registered (it
\* was never added, or its error came before its close) changes nothing.
RemoveAll(gone) ==
    /\ registered' = registered \ gone
    /\ connCounts' = CountsWithout(gone \cap registered)

\* A connection without a valid token is closed at once; the others await the
\* business of the user.
Connect(s) ==
    /\ sock[s] = "none"
    /\ \/ sock' = [sock EXCEPT ![s] = "closed"] /\ UNCHANGED awaiting
       \/ sock' = [sock EXCEPT ![s] = "open"] /\ awaiting' = awaiting \cup {s}
    /\ UNCHANGED <<alive, registered, connCounts, early>>

\* broadcaster.add: refused at the limit.
CanAdd(s) == connCounts[Mine(s)] < MaxConns

\* The lookup answers, whatever has become of the socket meanwhile.
Resolve(s) ==
    /\ s \in awaiting
    /\ awaiting' = awaiting \ {s}
    /\ \/ sock' = [sock EXCEPT ![s] = "closed"]                \* no business
          /\ UNCHANGED <<alive, registered, connCounts>>
       \/ /\ alive' = alive \cup {s}
          /\ IF CanAdd(s)
             THEN /\ registered' = registered \cup {s}
                  /\ connCounts' = [connCounts EXCEPT ![Mine(s)] = @ + 1]
                  /\ UNCHANGED sock
             ELSE /\ sock' = [sock EXCEPT ![s] = "closed"]
                  /\ UNCHANGED <<registered, connCounts>>
    /\ UNCHANGED early

\* The listeners exist once the socket has been added.
Listening(s) == s \notin awaiting

\* The peer goes away: the close event, which nobody hears while awaiting.
PeerCloses(s) ==
    /\ sock[s] = "open"
    /\ sock' = [sock EXCEPT ![s] = "closed"]
    /\ IF Listening(s)
       THEN RemoveAll({s}) /\ UNCHANGED early
       ELSE early' = early \cup {s} /\ UNCHANGED <<registered, connCounts>>
    /\ UNCHANGED <<awaiting, alive>>

\* An error event removes the socket; its close event follows.
SocketError(s) ==
    /\ sock[s] = "open" /\ Listening(s)
    /\ RemoveAll({s})
    /\ UNCHANGED <<sock, awaiting, alive, early>>

Pong(s) ==
    /\ sock[s] = "open" /\ Listening(s)
    /\ alive' = alive \cup {s}
    /\ UNCHANGED <<sock, awaiting, registered, connCounts, early>>

\* setInterval: every connected socket that is not alive, also one whose user
\* is still being looked up, is removed and terminated; the rest are pinged.
Heartbeat ==
    LET clients == {s \in Sockets : sock[s] = "open"}
        idle == clients \ alive
    IN  /\ clients # {}
        /\ RemoveAll(idle)
        /\ sock' = [s \in Sockets |-> IF s \in idle THEN "closed" ELSE sock[s]]
        /\ alive' = alive \ clients
        /\ early' = early \cup (idle \cap awaiting)
        /\ UNCHANGED awaiting

StrNext ==
    \/ \E s \in Sockets :
          Connect(s) \/ Resolve(s) \/ PeerCloses(s) \/ SocketError(s) \/ Pong(s)
    \/ Heartbeat

StrSpec == StrInit /\ [][StrNext]_strVars

-----------------------------------------------------------------------------

\* The slots of a user are exactly his registered sockets, never more than
\* the limit, and a closed socket keeps a slot only when it was closed while
\* its user was being looked up (attestationStream.ts:159): neither an error
\* followed by a close nor a heartbeat racing either loses or frees one twice.
ConnsAccounted ==
    /\ \A u \in StreamUsers :
          /\ connCounts[u] = Cardinality({s \in registered : Mine(s) = u})
          /\ connCounts[u] <= MaxConns
    /\ \A s \in registered : sock[s] = "closed" => s \in early
=============================================================================
