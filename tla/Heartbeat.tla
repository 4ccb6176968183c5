----------------------------- MODULE Heartbeat -----------------------------
(***************************************************************************)
(* HeartbeatManager (gateway/websocket/heartbeat.py): connections by       *)
(* session key and the loop that looks for silent ones.  The hash          *)
(* ws:session:<key> that it keeps in Redis beside each is read only by the *)
(* router's _validate_session, and no caller sets on_timeout: both are     *)
(* left out.                                                               *)
(*                                                                         *)
(* The clock counts rounds of the loop.  register_connection stores naive  *)
(* times, record_ping and record_pong aware ones, and the loop subtracts   *)
(* from an aware time: the first round with a connection that has not had  *)
(* both a ping and a pong raises TypeError, and ends the loop.             *)
(***************************************************************************)
EXTENDS Integers

CONSTANTS
    SessionKeys,
    PingTimeout,    \* timeout, in rounds
    IdleTimeout,    \* IDLE_TIMEOUT, in rounds
    MaxMissed,      \* MAX_MISSED_HEARTBEATS
    MaxRounds,      \* bound: rounds of the loop
    MaxConnects     \* bound: registrations

ASSUME HeartbeatAssumption ==
    PingTimeout \in Nat /\ IdleTimeout \in Nat /\ MaxMissed \in Nat /\ MaxRounds \in Nat /\ MaxConnects \in Nat

VARIABLES
    connections,    \* by session key: a connection or NoConnection
    dead,           \* dead_connections of the round under way, still to be closed
    closing,        \* the key that _close_dead_connection is at, or NoKey
    monitor,        \* the loop: "sleeping", "closing" what a round found, or "raised": it has ended
    rounds,         \* rounds of the loop so far
    connects,       \* registrations so far: each connection gets a number
    heard           \* history: by key, the rounds of the last ping and pong of its connection

heartbeatVars == <<connections, dead, closing, monitor, rounds, connects, heard>>

NoKey == "no-key"

\* A naive time cannot be subtracted from.
Naive == -1
Connection == [number : Nat, last_ping : Nat \cup {Naive}, last_pong : Nat \cup {Naive},
               missed_heartbeats : Nat]
NoConnection == [number |-> 0, last_ping |-> Naive, last_pong |-> Naive, missed_heartbeats |-> 0]
Registered(k) == connections[k] # NoConnection

HeartbeatInit ==
    /\ connections = [k \in SessionKeys |-> NoConnection]
    /\ dead = {} /\ closing = NoKey /\ monitor = "sleeping"
    /\ rounds = 0 /\ connects = 0
    /\ heard = [k \in SessionKeys |-> [ping |-> 0, pong |-> 0]]

---------------------------------------------------------------------------
(* The operations of the endpoints                                         *)

RegisterConnection(k) ==
    /\ connects < MaxConnects
    /\ connects' = connects + 1
    /\ connections' = [connections EXCEPT ![k] = [NoConnection EXCEPT !.number = connects + 1]]
    /\ heard' = [heard EXCEPT ![k] = [ping |-> rounds, pong |-> rounds]]
    /\ UNCHANGED <<dead, closing, monitor, rounds>>

UnregisterConnection(k) ==
    /\ Registered(k)
    /\ connections' = [connections EXCEPT ![k] = NoConnection]
    /\ UNCHANGED <<dead, closing, monitor, rounds, connects, heard>>

\* Variant: the count of missed heartbeats is not reset.
RecordPingKeepsCount(k) ==
    /\ Registered(k)
    /\ connections' = [connections EXCEPT ![k].last_ping = rounds]
    /\ heard' = [heard EXCEPT ![k].ping = rounds]
    /\ UNCHANGED <<dead, closing, monitor, rounds, connects>>

RecordPing(k) ==
    /\ Registered(k)
    /\ connections' = [connections EXCEPT ![k].last_ping = rounds, ![k].missed_heartbeats = 0]
    /\ heard' = [heard EXCEPT ![k].ping = rounds]
    /\ UNCHANGED <<dead, closing, monitor, rounds, connects>>

RecordPong(k) ==
    /\ Registered(k)
    /\ connections' = [connections EXCEPT ![k].last_pong = rounds]
    /\ heard' = [heard EXCEPT ![k].pong = rounds]
    /\ UNCHANGED <<dead, closing, monitor, rounds, connects>>

---------------------------------------------------------------------------
(* _monitor_loop                                                           *)

\* missed_heartbeats of a connection after this round, which is round n.
Missed(conn, n) == conn.missed_heartbeats + IF n - conn.last_ping > PingTimeout THEN 1 ELSE 0
Idle(conn, n) == n - conn.last_pong > IdleTimeout
\* Many missed: the loop goes to the next connection and looks at no pong.
TooManyMissed(conn, n) == n - conn.last_ping > PingTimeout /\ Missed(conn, n) > MaxMissed
MeetsNaive(conn, n) ==
    conn.last_ping = Naive \/ (~TooManyMissed(conn, n) /\ conn.last_pong = Naive)

\* One pass over all connections, without an await.
MonitorRound ==
    LET n == rounds + 1
        keys == {k \in SessionKeys : Registered(k)}
    IN
    /\ monitor = "sleeping" /\ rounds < MaxRounds
    /\ \A k \in keys : ~MeetsNaive(connections[k], n)
    /\ rounds' = n
    /\ connections' = [k \in SessionKeys |->
         IF k \in keys THEN [connections[k] EXCEPT !.missed_heartbeats = Missed(connections[k], n)]
         ELSE NoConnection]
    /\ dead' = {k \in keys : TooManyMissed(connections[k], n) \/ Idle(connections[k], n)}
    /\ monitor' = "closing"
    /\ UNCHANGED <<closing, connects, heard>>

\* TypeError; nobody reads the counts that were changed before it.
MonitorRaises ==
    /\ monitor = "sleeping" /\ rounds < MaxRounds
    /\ \E k \in SessionKeys : Registered(k) /\ MeetsNaive(connections[k], rounds + 1)
    /\ monitor' = "raised"
    /\ UNCHANGED <<connections, dead, closing, rounds, connects, heard>>

\* _close_dead_connection looks whether the key is still there, and closes its socket.
CloseDead(k) ==
    /\ monitor = "closing" /\ closing = NoKey /\ k \in dead
    /\ dead' = dead \ {k}
    /\ closing' = IF Registered(k) THEN k ELSE NoKey
    /\ UNCHANGED <<connections, monitor, rounds, connects, heard>>

\* The socket is closed; unregister_connection drops whatever the key stands for by now.
DropDead ==
    /\ closing # NoKey
    /\ connections' = [connections EXCEPT ![closing] = NoConnection]
    /\ closing' = NoKey
    /\ UNCHANGED <<dead, monitor, rounds, connects, heard>>

RoundEnds ==
    /\ monitor = "closing" /\ dead = {} /\ closing = NoKey
    /\ monitor' = "sleeping"
    /\ UNCHANGED <<connections, dead, closing, rounds, connects, heard>>

HeartbeatNext ==
    \/ \E k \in SessionKeys :
         RegisterConnection(k) \/ UnregisterConnection(k) \/ RecordPing(k) \/ RecordPong(k) \/ CloseDead(k)
    \/ MonitorRound \/ MonitorRaises \/ DropDead \/ RoundEnds

HeartbeatSpec == HeartbeatInit /\ [][HeartbeatNext]_heartbeatVars

---------------------------------------------------------------------------
(* Properties                                                              *)

\* Every connection has its shape.
HeartbeatTypeOK ==
    /\ connections \in [SessionKeys -> Connection]
    /\ dead \subseteq SessionKeys /\ closing \in SessionKeys \cup {NoKey}
    /\ monitor \in {"sleeping", "closing", "raised"}
    /\ rounds \in Nat /\ connects \in Nat
    /\ heard \in [SessionKeys -> [ping : Nat, pong : Nat]]

\* A round gives up a connection only if it has sent no ping for the time-out and MAX_MISSED more
\* rounds, or no pong for the idle time - however often it was given up, pinged or registered
\* anew before.  (What is closed is what the key stands for when its turn comes.)
OnlySilentGivenUp ==
    [][\A k \in dead' \ dead :
         \/ rounds' - heard[k].ping > PingTimeout + MaxMissed
         \/ rounds' - heard[k].pong > IdleTimeout]_heartbeatVars
=============================================================================
