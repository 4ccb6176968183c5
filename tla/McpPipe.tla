------------------------------ MODULE McpPipe ------------------------------
(***************************************************************************)
(* One MCP server behind the pipes of a StdioMCPClient                     *)
(* (agent/mcp/client.py).  Any number of coroutines call _send_request on  *)
(* the client: each writes a line, waits for the drain, and takes the next *)
(* line that comes back.  There is no lock, and all requests carry the     *)
(* same id, which nobody compares.                                         *)
(*                                                                         *)
(* readline is asyncio's: it takes a line that is there, waits if there is *)
(* none, and raises RuntimeError if another coroutine waits already.       *)
(***************************************************************************)
EXTENDS Integers, Sequences, FiniteSets

CONSTANTS
    PipeRequests,       \* calls of _send_request
    MaxNotes            \* bound: lines that the server sends of its own accord

NoRequest == "no-request"
Note == "note"
ASSUME PipeAssumption == NoRequest \notin PipeRequests

VARIABLES
    request,            \* the state of each request, and the line it has got
    written,            \* lines the server has not read
    lines,              \* lines of the server that nobody has read
    reader,             \* the request whose coroutine waits for a line, or NoRequest
    serverRuns,         \* FALSE after the end of file
    notes,              \* notifications so far
    mixed               \* history: two requests were under way at once, or one was given up
                        \* before its line came, or the server sent a notification

pipeVars == <<request, written, lines, reader, serverRuns, notes, mixed>>

Under == {"draining", "waiting", "woken"}
InFlight == {r \in PipeRequests : request[r].stage \in Under}

PipeInit ==
    /\ request = [r \in PipeRequests |-> [stage |-> "idle", got |-> NoRequest]]
    /\ written = <<>> /\ lines = <<>>
    /\ reader = NoRequest /\ serverRuns = TRUE /\ notes = 0 /\ mixed = FALSE

\* json.dumps and write; the drain may wait.
SendRequest(r) ==
    /\ request[r].stage = "idle"
    /\ request' = [request EXCEPT ![r].stage = "draining"]
    /\ written' = Append(written, r)
    /\ mixed' = (mixed \/ InFlight # {})
    /\ UNCHANGED <<lines, reader, serverRuns, notes>>

\* Variant: the line stays in the buffer.
TakesLineAndLeavesIt(r) ==
    /\ lines # <<>>
    /\ request' = [request EXCEPT ![r] = [stage |-> "answered", got |-> Head(lines)]]
    /\ UNCHANGED <<lines, reader, mixed>>

\* A line is there: it is the answer, or the error, of this request, whoever asked for it.
TakesLine(r) ==
    /\ lines # <<>>
    /\ request' = [request EXCEPT ![r] = [stage |-> "answered", got |-> Head(lines)]]
    /\ lines' = Tail(lines)
    /\ UNCHANGED <<reader, mixed>>

\* End of file, or RuntimeError: readline() called while another coroutine is already waiting.
ReadFails(r) ==
    /\ lines = <<>> /\ (~serverRuns \/ reader # NoRequest)
    /\ request' = [request EXCEPT ![r].stage = "failed"]
    /\ mixed' = TRUE
    /\ UNCHANGED <<lines, reader>>

Waits(r) ==
    /\ lines = <<>> /\ serverRuns /\ reader = NoRequest
    /\ request' = [request EXCEPT ![r].stage = "waiting"]
    /\ reader' = r
    /\ UNCHANGED <<lines, mixed>>

\* The drain, or the waiting, is over: readline looks at the buffer.
Reads(r) ==
    /\ request[r].stage \in {"draining", "woken"}
    /\ TakesLine(r) \/ ReadFails(r) \/ Waits(r)
    /\ UNCHANGED <<written, serverRuns, notes>>

\* The caller is cancelled: start-up's wait_for, or a client that has gone.
GiveUp(r) ==
    /\ r \in InFlight
    /\ request' = [request EXCEPT ![r].stage = "cancelled"]
    /\ reader' = IF reader = r THEN NoRequest ELSE reader
    /\ mixed' = TRUE
    /\ UNCHANGED <<written, lines, serverRuns, notes>>

\* The waiting coroutine is woken, and reads when its turn comes.
Wake ==
    /\ reader' = NoRequest
    /\ request' = [r \in PipeRequests |->
         IF r = reader THEN [request[r] EXCEPT !.stage = "woken"] ELSE request[r]]

ServerAnswers ==
    /\ serverRuns /\ written # <<>>
    /\ written' = Tail(written)
    /\ lines' = Append(lines, Head(written))
    /\ Wake
    /\ UNCHANGED <<serverRuns, notes, mixed>>

ServerNotifies ==
    /\ serverRuns /\ notes < MaxNotes
    /\ notes' = notes + 1
    /\ lines' = Append(lines, Note)
    /\ mixed' = TRUE
    /\ Wake
    /\ UNCHANGED <<written, serverRuns>>

ServerEnds ==
    /\ serverRuns
    /\ serverRuns' = FALSE
    /\ Wake
    /\ UNCHANGED <<written, lines, notes, mixed>>

PipeNext ==
    \/ \E r \in PipeRequests : SendRequest(r) \/ Reads(r) \/ GiveUp(r)
    \/ ServerAnswers \/ ServerNotifies \/ ServerEnds

PipeSpec == PipeInit /\ [][PipeNext]_pipeVars

---------------------------------------------------------------------------
(* Properties                                                              *)

\* Requests, buffers and reader have their shape; who waits is the reader.
PipeTypeOK ==
    /\ request \in [PipeRequests -> [stage : Under \cup {"idle", "answered", "failed", "cancelled"},
                                     got : PipeRequests \cup {NoRequest, Note}]]
    /\ written \in Seq(PipeRequests) /\ lines \in Seq(PipeRequests \cup {Note})
    /\ reader \in PipeRequests \cup {NoRequest}
    /\ serverRuns \in BOOLEAN /\ notes \in Nat /\ mixed \in BOOLEAN

\* A request gets its own answer as long as requests do not overlap, none was given up and the
\* server only answers.  After one of these the next requests may get each other's lines, and
\* nothing sets that right: the same id is in all of them.
AnswersFit == ~mixed => \A r \in PipeRequests : request[r].stage = "answered" => request[r].got = r
=============================================================================
