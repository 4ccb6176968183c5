--------------------------- MODULE MCConnections ---------------------------
(***************************************************************************)
(* Bounds for what holds connections, sessions and accounts, and one run   *)
(* for all of it.  The parts share no state: focus, chosen at the start,   *)
(* says which of them a behaviour is of, and the others rest.              *)
(***************************************************************************)
EXTENDS Sockets, Heartbeat, McpPipe, McpServers, Accounts, Sessions, TLC

VARIABLE focus

\* Sockets: two of one client, for two applications; of another client either one for the first
\* application or its /ws/stream: the one that is not there is never opened.
SocketClient == [s \in SocketIds |-> IF s \in {"s1", "s2"} THEN "c1" ELSE "c2"]
SocketApp == ("s1" :> "a1") @@ ("s2" :> "a2") @@ ("s3" :> "a1") @@ ("s4" :> NoApplication)

Unopened == IF focus = "streams" THEN "s3" ELSE "s4"

\* MCP servers: two rows of one name.
OneServerName == [x \in Servers |-> "n1"]

\* Accounts: everybody has the same email and wants the same slug.
Kinds ==
    ("r1" :> "register") @@ ("r2" :> "register") @@ ("o1" :> "callback") @@ ("o2" :> "callback")
    @@ ("l1" :> "login") @@ ("q1" :> "request") @@ ("f1" :> "refresh") @@ ("w1" :> "socket")
OneEmail == [c \in AuthCalls |-> "e1"]
OneSlug == [c \in AuthCalls |-> "s1"]
OneState == [c \in AuthCalls |-> "x1"]
\* The socket is tried beside one registration, without the authorization code flow.
Absent == IF focus = "keys" THEN {"r2", "o1", "o2"} ELSE {"w1"}
FirstIsPersonal == [c \in AuthCalls |-> IF c = "r1" THEN "personal" ELSE "t1"]

\* Sessions: every kind of call on the first, and a second one beside it.
SessionKinds ==
    ("n1" :> "create") @@ ("n2" :> "create") @@ ("u1" :> "update")
    @@ ("f1" :> "refresh") @@ ("d1" :> "delete") @@ ("g1" :> "list")
SessionsAsked == [c \in SessionCalls |-> IF c = "n2" THEN "s2" ELSE "s1"]

Init ==
    /\ SocketInit /\ HeartbeatInit /\ PipeInit /\ McpInit /\ AccountsInit /\ SessionsInit
    /\ focus \in {"chats", "streams", "heartbeat", "pipe", "servers", "accounts", "keys", "sessions"}
    /\ focus # "servers" => \A x \in Servers : rows[x] = "absent"

Next ==
    \/ /\ focus \in {"chats", "streams"} /\ SocketNext /\ endpoint'[Unopened].stage = "new"
       /\ UNCHANGED <<heartbeatVars, pipeVars, mcpVars, authVars, sessionsVars, focus>>
    \/ /\ focus = "heartbeat" /\ HeartbeatNext
       /\ UNCHANGED <<socketVars, pipeVars, mcpVars, authVars, sessionsVars, focus>>
    \/ /\ focus = "pipe" /\ PipeNext
       /\ UNCHANGED <<socketVars, heartbeatVars, mcpVars, authVars, sessionsVars, focus>>
    \/ /\ focus = "servers" /\ McpNext
       /\ UNCHANGED <<socketVars, heartbeatVars, pipeVars, authVars, sessionsVars, focus>>
    \/ /\ focus \in {"accounts", "keys"} /\ AccountsNext /\ \A c \in Absent : step'[c] = "idle"
       /\ UNCHANGED <<socketVars, heartbeatVars, pipeVars, mcpVars, sessionsVars, focus>>
    \/ /\ focus = "sessions" /\ SessionsNext
       /\ UNCHANGED <<socketVars, heartbeatVars, pipeVars, mcpVars, authVars, focus>>

Spec == Init /\ [][Next]_<<socketVars, heartbeatVars, pipeVars, mcpVars, authVars, sessionsVars, focus>>

\* Each part's variables have their types.
TypesOK ==
    CASE focus \in {"chats", "streams"} -> SocketTypeOK
      [] focus = "heartbeat" -> HeartbeatTypeOK
      [] focus = "pipe" -> PipeTypeOK
      [] focus = "servers" -> McpTypeOK
      [] focus \in {"accounts", "keys"} -> AccountsTypeOK
      [] focus = "sessions" -> SessionsTypeOK
=============================================================================
