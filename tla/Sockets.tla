------------------------------ MODULE Sockets ------------------------------
(***************************************************************************)
(* WebSocket connections: the endpoints /ws/chat and /ws/stream            *)
(* (gateway/api/v1/websocket.py), their handlers                           *)
(* (gateway/websocket/handlers.py) and the ConnectionManager that all of   *)
(* them share (gateway/websocket/manager.py).                              *)
(*                                                                         *)
(* The manager knows a client by an id that the client chooses; an         *)
(* endpoint sends to whatever socket is registered under its client's id.  *)
(* Every send is awaited, and the maps change meanwhile.                   *)
(*                                                                         *)
(* A chat message gets one answer, an error: create_conversation and       *)
(* add_message leave out columns that must not be null, and                *)
(* handle_chat_message calls execute_stream with an argument it does not   *)
(* take.  Its transactions are rolled back.                                *)
(***************************************************************************)
EXTENDS Integers, FiniteSets

CONSTANTS
    SocketIds,      \* sockets, each opened once
    Clients,        \* client ids
    SocketApps,     \* application ids
    ClientOf,       \* the client id in the path of a socket
    AppOf           \* the application id in its query; NoApplication on /ws/stream

NoSocket == "no-socket"
NoApplication == "no-application"

ASSUME SocketAssumption ==
    /\ ClientOf \in [SocketIds -> Clients] /\ NoSocket \notin SocketIds
    /\ AppOf \in [SocketIds -> SocketApps \cup {NoApplication}] /\ NoApplication \notin SocketApps

VARIABLES
    active_connections,   \* socket by client id, or NoSocket
    app_clients,          \* client ids by application
    endpoint,             \* per socket: where its endpoint is, and what it sends to
    peer,                 \* per socket: the other side is there
    walk,                 \* a loop of the manager over active_connections
    managerOpen           \* FALSE once close() has run to its end

managerVars == <<active_connections, app_clients>>
socketVars == <<managerVars, endpoint, peer, walk, managerOpen>>

EndpointStages == {"new", "accepted", "receiving", "chatting", "sending", "ended"}
Streams == {s \in SocketIds : AppOf[s] = NoApplication}
Connected == {c \in Clients : active_connections[c] # NoSocket}
NoWalk == [stage |-> "idle", closing |-> FALSE, seen |-> {}, size |-> 0, target |-> NoSocket]

SocketInit ==
    /\ active_connections = [c \in Clients |-> NoSocket]
    /\ app_clients = [a \in SocketApps |-> {}]
    /\ endpoint = [s \in SocketIds |-> [stage |-> "new", target |-> NoSocket]]
    /\ peer = [s \in SocketIds |-> TRUE]
    /\ walk = NoWalk
    /\ managerOpen = TRUE

---------------------------------------------------------------------------
(* The manager's operations                                                *)

connect(s) ==
    /\ active_connections' = [active_connections EXCEPT ![ClientOf[s]] = s]
    /\ app_clients' = [a \in SocketApps |->
         app_clients[a] \cup IF a = AppOf[s] THEN {ClientOf[s]} ELSE {}]

\* Variant: the sets of the applications are left alone.
disconnectKeepsApps(c) ==
    /\ active_connections' = [active_connections EXCEPT ![c] = NoSocket]
    /\ UNCHANGED app_clients

\* By client id: whichever socket is registered now.
disconnect(c) ==
    /\ active_connections' = [active_connections EXCEPT ![c] = NoSocket]
    /\ app_clients' = [a \in SocketApps |-> app_clients[a] \ {c}]

\* A send on a socket of /ws/stream raises before it waits: nothing has accepted that socket.
NeverAccepted(t) == t \in Streams

\* What a send to t may come to, once it has waited.
MayFail(t) == ~peer[t] \/ endpoint[t].stage = "ended"
MaySucceed(t) == ~NeverAccepted(t)

---------------------------------------------------------------------------
(* The endpoints                                                           *)

Accept(s) ==
    /\ endpoint[s].stage = "new" /\ s \notin Streams
    /\ endpoint' = [endpoint EXCEPT ![s].stage = "accepted"]
    /\ UNCHANGED <<managerVars, peer, walk, managerOpen>>

\* verify_api_key_ws answers; with no await in between the socket is registered.
ChatVerified(s) ==
    /\ endpoint[s].stage = "accepted"
    /\ connect(s)
    /\ endpoint' = [endpoint EXCEPT ![s].stage = "receiving"]
    /\ UNCHANGED <<peer, walk, managerOpen>>

\* receive_json raises at once, for nobody accepted; no except clause catches that RuntimeError.
StreamVerified(s) ==
    /\ endpoint[s].stage = "new" /\ s \in Streams
    /\ connect(s)
    /\ endpoint' = [endpoint EXCEPT ![s].stage = "ended"]
    /\ UNCHANGED <<peer, walk, managerOpen>>

\* No key, or one that is not valid: the socket is closed.
Unauthorized(s) ==
    /\ endpoint[s].stage = IF s \in Streams THEN "new" ELSE "accepted"
    /\ endpoint' = [endpoint EXCEPT ![s].stage = "ended"]
    /\ UNCHANGED <<managerVars, peer, walk, managerOpen>>

\* send_personal_message by the endpoint of s: to the socket registered under its client's id.
BeginSend(s) ==
    LET t == active_connections[ClientOf[s]] IN
    CASE t = NoSocket ->
           endpoint' = [endpoint EXCEPT ![s].stage = "receiving"] /\ UNCHANGED managerVars
      [] t # NoSocket /\ NeverAccepted(t) ->
           endpoint' = [endpoint EXCEPT ![s].stage = "receiving"] /\ disconnect(ClientOf[s])
      [] OTHER ->
           endpoint' = [endpoint EXCEPT ![s] = [stage |-> "sending", target |-> t]] /\ UNCHANGED managerVars

\* A ping, or a message of an unknown type, is answered without any other await.
ReceivePing(s) ==
    /\ endpoint[s].stage = "receiving" /\ peer[s]
    /\ BeginSend(s)
    /\ UNCHANGED <<peer, walk, managerOpen>>

ReceiveChat(s) ==
    /\ endpoint[s].stage = "receiving" /\ peer[s]
    /\ endpoint' = [endpoint EXCEPT ![s].stage = "chatting"]
    /\ UNCHANGED <<managerVars, peer, walk, managerOpen>>

\* The database has answered; the error is sent.
ChatAnswers(s) ==
    /\ endpoint[s].stage = "chatting"
    /\ BeginSend(s)
    /\ UNCHANGED <<peer, walk, managerOpen>>

SendEnds(s) ==
    LET t == endpoint[s].target IN
    /\ endpoint[s].stage = "sending"
    /\ endpoint' = [endpoint EXCEPT ![s] = [stage |-> "receiving", target |-> NoSocket]]
    /\ \/ MaySucceed(t) /\ UNCHANGED managerVars
       \/ MayFail(t) /\ disconnect(ClientOf[s])
    /\ UNCHANGED <<peer, walk, managerOpen>>

\* The other side has gone, or sent something that is not a message.
EndpointEnds(s) ==
    /\ endpoint[s].stage = "receiving"
    /\ endpoint' = [endpoint EXCEPT ![s].stage = "ended"]
    /\ disconnect(ClientOf[s])
    /\ UNCHANGED <<peer, walk, managerOpen>>

\* The other side goes, or is gone when the server closes the socket.
PeerLeaves(s) ==
    /\ peer[s] /\ endpoint[s].stage # "new"
    /\ peer' = [peer EXCEPT ![s] = FALSE]
    /\ UNCHANGED <<managerVars, endpoint, walk, managerOpen>>

---------------------------------------------------------------------------
(* broadcast and close iterate over the live dictionary.  After a change   *)
(* of its size the next step of the iterator raises.                       *)

WalkBegins(closing) ==
    /\ managerOpen
    /\ walk' = [NoWalk EXCEPT !.stage = "stepping", !.closing = closing, !.size = Cardinality(Connected)]
    /\ UNCHANGED <<managerVars, endpoint, peer, managerOpen>>

\* A message on agent:broadcast reached the listener.
BroadcastBegins == walk.stage = "idle" /\ WalkBegins(FALSE)

\* At shutdown, whether or not the listener still runs.
CloseBegins ==
    /\ walk.stage \in {"idle", "raised"} /\ ~walk.closing
    /\ WalkBegins(TRUE)

\* RuntimeError: the listener ends; close ends without clearing anything.
WalkRaises ==
    /\ walk.stage = "stepping" /\ Cardinality(Connected) # walk.size
    /\ walk' = [walk EXCEPT !.stage = "raised"]
    /\ UNCHANGED <<managerVars, endpoint, peer, managerOpen>>

WalkSends(c) ==
    LET t == active_connections[c] IN
    /\ walk.stage = "stepping" /\ Cardinality(Connected) = walk.size
    /\ c \in Connected \ walk.seen
    /\ IF NeverAccepted(t) /\ ~walk.closing
       THEN disconnect(c) /\ walk' = [walk EXCEPT !.seen = @ \cup {c}]
       ELSE UNCHANGED managerVars
            /\ walk' = [walk EXCEPT !.stage = "sending", !.seen = @ \cup {c}, !.target = t]
    /\ UNCHANGED <<endpoint, peer, managerOpen>>

\* The send or the close has come to its end; close ignores how.
WalkResumes ==
    LET t == walk.target IN
    /\ walk.stage = "sending"
    /\ walk' = [walk EXCEPT !.stage = "stepping", !.target = NoSocket]
    /\ IF walk.closing
       THEN peer' = [peer EXCEPT ![t] = FALSE] /\ UNCHANGED managerVars
       ELSE /\ UNCHANGED peer
            /\ \/ MaySucceed(t) /\ UNCHANGED managerVars
               \/ MayFail(t) /\ disconnect(ClientOf[t])
    /\ UNCHANGED <<endpoint, managerOpen>>

BroadcastEnds ==
    /\ walk.stage = "stepping" /\ ~walk.closing
    /\ Cardinality(Connected) = walk.size /\ Connected \subseteq walk.seen
    /\ walk' = NoWalk
    /\ UNCHANGED <<managerVars, endpoint, peer, managerOpen>>

CloseEnds ==
    /\ walk.stage = "stepping" /\ walk.closing
    /\ Cardinality(Connected) = walk.size /\ Connected \subseteq walk.seen
    /\ walk' = NoWalk
    /\ active_connections' = [c \in Clients |-> NoSocket]
    /\ app_clients' = [a \in SocketApps |-> {}]
    /\ managerOpen' = FALSE
    /\ UNCHANGED <<endpoint, peer>>

---------------------------------------------------------------------------
SocketNext ==
    \/ \E s \in SocketIds :
         \/ Accept(s) \/ ChatVerified(s) \/ StreamVerified(s) \/ Unauthorized(s)
         \/ ReceivePing(s) \/ ReceiveChat(s) \/ ChatAnswers(s) \/ SendEnds(s)
         \/ EndpointEnds(s) \/ PeerLeaves(s)
    \/ BroadcastBegins \/ CloseBegins \/ WalkRaises \/ WalkResumes \/ BroadcastEnds \/ CloseEnds
    \/ \E c \in Clients : WalkSends(c)

SocketSpec == SocketInit /\ [][SocketNext]_socketVars

---------------------------------------------------------------------------
(* Properties                                                              *)

\* Every map, endpoint and loop has its shape.
SocketTypeOK ==
    /\ active_connections \in [Clients -> SocketIds \cup {NoSocket}]
    /\ app_clients \in [SocketApps -> SUBSET Clients]
    /\ endpoint \in [SocketIds -> [stage : EndpointStages, target : SocketIds \cup {NoSocket}]]
    /\ peer \in [SocketIds -> BOOLEAN]
    /\ walk.stage \in {"idle", "stepping", "sending", "raised"} /\ walk.closing \in BOOLEAN
    /\ walk.seen \subseteq Clients /\ walk.size \in Nat /\ walk.target \in SocketIds \cup {NoSocket}
    /\ managerOpen \in BOOLEAN

Served(s) == endpoint[s].stage \in {"receiving", "chatting", "sending"}

\* The manager has not lost a client that is there: while a chat endpoint serves the only socket of
\* its client and the other side has not left, both maps have it - whatever other clients'
\* sockets, failing sends, broadcasts and /ws/stream do.  (With a second socket of the same client
\* this fails: the end of either removes the other.)
OnlySocketKept ==
    \A s \in SocketIds :
      /\ Served(s) /\ peer[s] /\ managerOpen
      /\ \A t \in SocketIds \ {s} : ClientOf[t] = ClientOf[s] => endpoint[t].stage \in {"new", "accepted"}
      => active_connections[ClientOf[s]] = s /\ ClientOf[s] \in app_clients[AppOf[s]]

\* No message is sent to the dead end of a chat: when its endpoint is over the socket is in no map,
\* and a client id is in the set of an application only while some socket of the client that
\* asked for this application is served.
EndedForgotten ==
    /\ \A s \in SocketIds \ Streams : endpoint[s].stage = "ended" => active_connections[ClientOf[s]] # s
    /\ \A a \in SocketApps : \A c \in app_clients[a] :
         /\ c \in Connected
         /\ \E s \in SocketIds : ClientOf[s] = c /\ AppOf[s] = a /\ Served(s)

\* The connection manager keeps the only socket of a client while it is served, and forgets the
\* ended ones (manager.py:72 to 114), whatever broadcasts, sends that fail and close do meanwhile.
SocketsKept == OnlySocketKept /\ EndedForgotten
=============================================================================
