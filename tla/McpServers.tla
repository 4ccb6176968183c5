----------------------------- MODULE McpServers -----------------------------
(***************************************************************************)
(* MCP servers: the rows of the table mcp_servers and the requests on them *)
(* (gateway/api/v1/mcp_servers.py), the clients of MCPManager              *)
(* (agent/mcp/client.py), and the connections made at start-up             *)
(* (gateway/main.py).  The requests under /resources/mcp                   *)
(* (gateway/api/v1/resources.py) change the same rows and tell the manager *)
(* nothing.                                                                *)
(*                                                                         *)
(* A client that has been connected owns something that runs: a process    *)
(* for stdio, an open HTTP client for sse and http.  Requests register a   *)
(* client under the id of its row, start-up under the name, with a time    *)
(* limit.  What runs on a pipe is in McpPipe.                              *)
(***************************************************************************)
EXTENDS Integers, FiniteSets

CONSTANTS
    Servers,        \* ids of rows
    ServerNames,    \* names of rows: they need not be unique
    NameOf,
    ServerCalls,    \* requests
    MaxLaunches,    \* bound: clients that are connected
    MaxRowEdits     \* bound: requests under /resources/mcp

ASSUME ServerAssumption ==
    NameOf \in [Servers -> ServerNames] /\ {MaxLaunches, MaxRowEdits} \subseteq Nat /\ Servers \cap ServerNames = {}

VARIABLES
    rows,           \* status of each row; "absent" before it is created, "deleted" after
                    \* DELETE /mcp-servers, "dropped" after DELETE /resources/mcp
    clients,        \* MCPManager.clients: the client under each id or name, 0 if there is none
    running,        \* the clients whose process or HTTP client is open
    launches,       \* clients so far: each gets a number
    scall,          \* the state of each request
    boot,           \* start-up: the state of the connection to each server
    gateway,        \* "up", "stopping", "stopped", or "failed": disconnect_all raised
    sweep,          \* disconnect_all: the clients it has come to, the size of the dictionary at first
    adrift,         \* history: clients that nothing refers to any more
    rowEdits,       \* requests under /resources/mcp so far
    overlapped      \* history: rows that two requests were on at once

mcpVars == <<rows, clients, running, launches, scall, boot, gateway, sweep, adrift, rowEdits, overlapped>>
managerView == <<clients, running, launches, adrift>>

NoServer == "no-server"
ClientKeys == Servers \cup ServerNames
RowExists(x) == rows[x] \in {"active", "inactive"}
Entries == {k \in ClientKeys : clients[k] # 0}
InManager == {clients[k] : k \in ClientKeys} \ {0}

\* want: what the request will write as status; seen: the status it has read.
IdleCall == [stage |-> "idle", kind |-> "none", server |-> NoServer, client |-> 0,
             seen |-> "absent", want |-> "absent"]
EndedCall == [IdleCall EXCEPT !.stage = "ended"]
CallEnded(c) == scall[c].stage \in {"idle", "ended"}
OnServer(x) == {c \in ServerCalls : ~CallEnded(c) /\ scall[c].server = x}

McpInit ==
    /\ rows \in [Servers -> {"absent", "active"}]
    /\ clients = [k \in ClientKeys |-> 0]
    /\ running = {} /\ launches = 0
    /\ scall = [c \in ServerCalls |-> IdleCall]
    /\ boot = [x \in Servers |-> [stage |-> IF rows[x] = "active" THEN "connecting" ELSE "none", client |-> 0]]
    /\ gateway = "up" /\ sweep = [seen |-> {}, size |-> 0]
    /\ adrift = {} /\ rowEdits = 0 /\ overlapped = {}

---------------------------------------------------------------------------
(* MCPManager                                                              *)

\* connect starts a process, or opens an HTTP client.
LaunchClient ==
    /\ launches < MaxLaunches
    /\ launches' = launches + 1
    /\ running' = running \cup {launches + 1}

\* self.clients[name] = client: one that was there runs on.
Register(key, n) ==
    /\ clients' = [clients EXCEPT ![key] = n]
    /\ adrift' = adrift \cup ({clients[key]} \ {0})

\* Variant: disconnect forgets the process and does not end it.
StopKeepsProcess(n) == UNCHANGED running

\* disconnect: terminate and wait, or aclose.
Stop(n) == running' = running \ {n}

---------------------------------------------------------------------------
(* Requests.  A row is read, something is stopped or connected, and the    *)
(* changes are committed.                                                  *)

BeginRequest(c, kind, x, stage, want) ==
    /\ gateway = "up" /\ scall[c].stage = "idle"
    /\ scall' = [scall EXCEPT ![c] = [stage |-> stage, kind |-> kind, server |-> x,
                   client |-> IF stage = "stopping" THEN clients[x] ELSE 0,
                   seen |-> rows[x], want |-> want]]
    /\ overlapped' = overlapped \cup IF OnServer(x) = {} THEN {} ELSE {x}

\* A client under the row's id is stopped first.
StopFirst(x, next) == IF clients[x] # 0 THEN "stopping" ELSE next

\* The row is committed as active before the client is connected.
CreateServer(c, x) ==
    /\ gateway = "up" /\ scall[c].stage = "idle" /\ rows[x] = "absent" /\ OnServer(x) = {}
    /\ rows' = [rows EXCEPT ![x] = "active"]
    /\ scall' = [scall EXCEPT ![c] = [stage |-> "connecting", kind |-> "create", server |-> x,
                   client |-> 0, seen |-> "active", want |-> "active"]]
    /\ UNCHANGED <<managerView, boot, gateway, sweep, overlapped, rowEdits>>

\* Any field may change; a new endpoint or type means a new client, if the row is active.
UpdateServer(c, x) ==
    /\ RowExists(x)
    /\ \E want \in {"active", "inactive"} :
         LET next == IF want = "active" THEN "connecting" ELSE "saving" IN
         \E stage \in {"saving", StopFirst(x, next)} : BeginRequest(c, "update", x, stage, want)
    /\ UNCHANGED <<rows, managerView, boot, gateway, sweep, rowEdits>>

ConnectServer(c, x) ==
    /\ RowExists(x)
    /\ BeginRequest(c, "connect", x, StopFirst(x, "connecting"), "active")
    /\ UNCHANGED <<rows, managerView, boot, gateway, sweep, rowEdits>>

DisconnectServer(c, x) ==
    /\ RowExists(x)
    /\ BeginRequest(c, "disconnect", x, StopFirst(x, "saving"), "inactive")
    /\ UNCHANGED <<rows, managerView, boot, gateway, sweep, rowEdits>>

DeleteServer(c, x) ==
    /\ RowExists(x)
    /\ BeginRequest(c, "delete", x, StopFirst(x, "saving"), "deleted")
    /\ UNCHANGED <<rows, managerView, boot, gateway, sweep, rowEdits>>

\* unregister_client: the client it looked up is stopped, then whatever is under the key is
\* deleted; if nothing is, KeyError ends the request.
StopEnds(c) ==
    LET x == scall[c].server
        next == IF scall[c].want = "active" THEN "connecting" ELSE "saving"
    IN
    /\ scall[c].stage = "stopping"
    /\ Stop(scall[c].client)
    /\ clients' = [clients EXCEPT ![x] = 0]
    /\ adrift' = adrift \cup ({clients[x]} \ {0, scall[c].client})
    /\ scall' = [scall EXCEPT ![c] =
                   IF clients[x] = 0 THEN EndedCall ELSE [scall[c] EXCEPT !.stage = next, !.client = 0]]
    /\ UNCHANGED <<rows, launches, boot, gateway, sweep, overlapped, rowEdits>>

ConnectStarts(c) ==
    /\ scall[c].stage = "connecting"
    /\ LaunchClient
    /\ scall' = [scall EXCEPT ![c].stage = "initializing", ![c].client = launches + 1]
    /\ UNCHANGED <<rows, clients, boot, gateway, sweep, adrift, overlapped, rowEdits>>

ConnectEnds(c) ==
    /\ scall[c].stage = "initializing"
    /\ Register(scall[c].server, scall[c].client)
    /\ scall' = [scall EXCEPT ![c].stage = "saving", ![c].client = 0]
    /\ UNCHANGED <<rows, running, launches, boot, gateway, sweep, overlapped, rowEdits>>

\* The server cannot be started, or does not answer: what was started is left running.
ConnectFails(c) ==
    /\ scall[c].stage \in {"connecting", "initializing"}
    /\ adrift' = adrift \cup ({scall[c].client} \ {0})
    /\ scall' = [scall EXCEPT ![c].stage = "saving", ![c].client = 0, ![c].want = "inactive"]
    /\ UNCHANGED <<rows, clients, running, launches, boot, gateway, sweep, overlapped, rowEdits>>

\* The UPDATE names the status only if it has changed since it was read, and a row that has been
\* deleted meanwhile stays deleted.
Save(c) ==
    LET x == scall[c].server IN
    /\ scall[c].stage = "saving"
    /\ rows' = [rows EXCEPT ![x] = IF @ \in {"deleted", "dropped"} \/ scall[c].want = scall[c].seen THEN @ ELSE scall[c].want]
    /\ scall' = [scall EXCEPT ![c] = EndedCall]
    /\ UNCHANGED <<managerView, boot, gateway, sweep, overlapped, rowEdits>>

\* create, update and delete of /resources/mcp: one read and one commit, no client.
ResourceSaves(x, status) ==
    /\ gateway = "up"
    /\ rows[x] # status /\ (RowExists(x) \/ (rows[x] = "absent" /\ status = "active"))
    /\ rows' = [rows EXCEPT ![x] = status]
    /\ rowEdits < MaxRowEdits /\ rowEdits' = rowEdits + 1
    /\ UNCHANGED <<managerView, scall, boot, gateway, sweep, overlapped>>

---------------------------------------------------------------------------
(* Start-up and shutdown                                                   *)

\* _connect_mcp_servers_background, one task per active row, under its name.
BootConnects(x) ==
    /\ boot[x].stage = "connecting"
    /\ LaunchClient
    /\ boot' = [boot EXCEPT ![x] = [stage |-> "initializing", client |-> launches + 1]]
    /\ UNCHANGED <<rows, clients, scall, gateway, sweep, adrift, overlapped, rowEdits>>

BootRegisters(x) ==
    /\ boot[x].stage = "initializing"
    /\ Register(NameOf[x], boot[x].client)
    /\ boot' = [boot EXCEPT ![x] = [stage |-> "done", client |-> 0]]
    /\ UNCHANGED <<rows, running, launches, scall, gateway, sweep, overlapped, rowEdits>>

\* Five seconds are over, or connect failed.
BootFails(x) ==
    /\ boot[x].stage \in {"connecting", "initializing"}
    /\ adrift' = adrift \cup ({boot[x].client} \ {0})
    /\ boot' = [boot EXCEPT ![x] = [stage |-> "done", client |-> 0]]
    /\ UNCHANGED <<rows, clients, running, launches, scall, gateway, sweep, overlapped, rowEdits>>

\* The server has waited for its requests; tasks of start-up may still run.
ShutdownBegins ==
    /\ gateway = "up" /\ \A c \in ServerCalls : CallEnded(c)
    /\ gateway' = "stopping"
    /\ sweep' = [seen |-> {}, size |-> Cardinality(Entries)]
    /\ UNCHANGED <<rows, managerView, scall, boot, overlapped, rowEdits>>

\* disconnect_all stops one client after another while it iterates over the dictionary.
ShutdownStops(k) ==
    /\ gateway = "stopping" /\ Cardinality(Entries) = sweep.size
    /\ k \in Entries /\ clients[k] \notin sweep.seen
    /\ Stop(clients[k])
    /\ sweep' = [sweep EXCEPT !.seen = @ \cup {clients[k]}]
    /\ UNCHANGED <<rows, clients, launches, scall, boot, gateway, adrift, overlapped, rowEdits>>

ShutdownClears ==
    /\ gateway = "stopping" /\ Cardinality(Entries) = sweep.size /\ InManager \subseteq sweep.seen
    /\ clients' = [k \in ClientKeys |-> 0]
    /\ gateway' = "stopped"
    /\ UNCHANGED <<rows, running, launches, scall, boot, sweep, adrift, overlapped, rowEdits>>

\* RuntimeError: start-up has registered a client during the iteration.
ShutdownRaises ==
    /\ gateway = "stopping" /\ Cardinality(Entries) # sweep.size
    /\ gateway' = "failed"
    /\ UNCHANGED <<rows, managerView, scall, boot, sweep, overlapped, rowEdits>>

McpNext ==
    \/ \E c \in ServerCalls :
         \/ \E x \in Servers :
              \/ CreateServer(c, x) \/ UpdateServer(c, x) \/ ConnectServer(c, x)
              \/ DisconnectServer(c, x) \/ DeleteServer(c, x)
         \/ StopEnds(c) \/ ConnectStarts(c) \/ ConnectEnds(c) \/ ConnectFails(c) \/ Save(c)
    \/ \E x \in Servers :
         \/ BootConnects(x) \/ BootRegisters(x) \/ BootFails(x)
         \/ \E status \in {"active", "inactive", "dropped"} : ResourceSaves(x, status)
    \/ ShutdownBegins \/ ShutdownClears \/ ShutdownRaises
    \/ \E k \in ClientKeys : ShutdownStops(k)

McpSpec == McpInit /\ [][McpNext]_mcpVars

---------------------------------------------------------------------------
(* Properties                                                              *)

\* Rows, clients, requests and start-up tasks have their shape.
McpTypeOK ==
    /\ rows \in [Servers -> {"absent", "active", "inactive", "deleted", "dropped"}]
    /\ clients \in [ClientKeys -> 0 .. launches] /\ running \subseteq 1 .. launches /\ adrift \subseteq 1 .. launches
    /\ \A c \in ServerCalls :
         /\ scall[c].stage \in {"idle", "stopping", "connecting", "initializing", "saving", "ended"}
         /\ scall[c].server \in Servers \cup {NoServer} /\ scall[c].client \in 0 .. launches
    /\ \A x \in Servers : boot[x].stage \in {"none", "connecting", "initializing", "done"}
    /\ gateway \in {"up", "stopping", "stopped", "failed"}
    /\ sweep.seen \subseteq 1 .. launches /\ overlapped \subseteq Servers

\* Every process that runs can still be reached to stop it: it is a client's in the manager, or
\* somebody is connecting or stopping it - unless its connect failed or ran out of time, its entry
\* was overwritten (one name for two rows, two connects at once) or fell to the unregister_client
\* of another client.
ProcessesAccounted ==
    running \subseteq InManager \cup adrift
                 \cup {scall[c].client : c \in ServerCalls} \cup {boot[x].client : x \in Servers}

\* A server that was deleted, without another request on it at the time, is not connected under its
\* id.  (One connected at start-up is there under its name, and stays; so does every client of a row
\* that DELETE /resources/mcp took, resources.py:322 to 331.)
DeletedNotConnected ==
    \A x \in Servers : rows[x] = "deleted" /\ OnServer(x) = {} /\ x \notin overlapped => clients[x] = 0

\* MCP servers: no process is lost from sight but by the listed overlaps (client.py:467 to 488), and
\* a deleted row leaves no client behind (mcp_servers.py:282 to 299).
ServersAccounted == ProcessesAccounted /\ DeletedNotConnected
=============================================================================
