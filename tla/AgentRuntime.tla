---------------------------- MODULE AgentRuntime ----------------------------
(***************************************************************************)
(* Calls that run agents: AgentOrchestrator (agent/core/orchestrator.py)   *)
(* behind /chat/completions (gateway/api/v1/chat_completions.py) and       *)
(* behind ExecutionService (services/runtime/execution.py).  Each call     *)
(* loads the configuration of its agents through the cache, then asks the  *)
(* model.                                                                  *)
(*                                                                         *)
(*   "sse"        chat_completions: stream_generator over                  *)
(*                execute_stream_openai; the client sees SSE events        *)
(*   "execution"  ExecutionService.execute_stream_openai: the same stream, *)
(*                with a row of the table executions beside it             *)
(*   "blocking"   execute: one agent, one answer                           *)
(*   "pipeline"   execute_pipeline: several agents, one after another      *)
(*                                                                         *)
(* No call looks at the status of its agent: a paused or deprecated one    *)
(* runs.  A client may go away while its stream is under way.              *)
(***************************************************************************)
EXTENDS AgentCatalog, Sequences

CONSTANTS
    Calls,          \* calls of the orchestrator
    KindsOf,        \* the kinds that each call may be of
    MaxChunks       \* bound: chunks of a stream

ASSUME RuntimeAssumption ==
    MaxChunks \in Nat /\ KindsOf \in [Calls -> SUBSET {"sse", "execution", "blocking", "pipeline"}]

VARIABLES
    call,           \* the state of each call
    sent,           \* the events each call has given to its client
    status,         \* the row of table executions of each call, or "none"
    overtaken       \* history: agents whose row changed while a load had read it and not yet stored it

runtimeVars == <<catalogVars, call, sent, status, overtaken>>

\* team: the agents whose configuration is still to be loaded; row, due: what a load has in hand.
\* What the configuration says to the model is not modelled.
CallStages == {"idle", "lookup", "purge", "select", "selected", "store", "loaded", "closing", "raised", "ended"}
NewCall(kind, team) ==
    [stage |-> "lookup", kind |-> kind, team |-> team, row |-> Absent, due |-> 0, outcome |-> "open"]
NoCall == [NewCall("sse", <<>>) EXCEPT !.stage = "idle"]

RuntimeInit ==
    /\ CatalogInit
    /\ call = [c \in Calls |-> NoCall]
    /\ sent = [c \in Calls |-> <<>>]
    /\ status = [c \in Calls |-> "none"]
    /\ overtaken = {}

Say(c, event) == sent' = [sent EXCEPT ![c] = Append(@, event)]
Streaming(c) == call[c].kind \in {"sse", "execution"}

\* An exception: stream_generator says it to the client and then closes the stream; in
\* ExecutionService, and in the calls that do not stream, it ends the call.
Raise(c) ==
    IF call[c].kind = "sse"
    THEN /\ call' = [call EXCEPT ![c].stage = "closing", ![c].outcome = "failed"]
         /\ Say(c, "error")
    ELSE /\ call' = [call EXCEPT ![c].stage = "raised", ![c].outcome = "failed"]
         /\ UNCHANGED sent

---------------------------------------------------------------------------
(* A call begins                                                           *)

\* chat_completions starts the stream; a request that is not valid is refused and starts none.
ChatCompletions(c, a) ==
    /\ call[c].stage = "idle" /\ "sse" \in KindsOf[c]
    /\ call' = [call EXCEPT ![c] = NewCall("sse", <<a>>)]
    /\ UNCHANGED <<catalogVars, sent, status, overtaken>>

\* The row is inserted as RUNNING, and committed, before the stream starts.
ExecutionBegins(c, a) ==
    /\ call[c].stage = "idle" /\ "execution" \in KindsOf[c]
    /\ call' = [call EXCEPT ![c] = NewCall("execution", <<a>>)]
    /\ status' = [status EXCEPT ![c] = "running"]
    /\ UNCHANGED <<catalogVars, sent, overtaken>>

ExecuteBegins(c, a) ==
    /\ call[c].stage = "idle" /\ "blocking" \in KindsOf[c]
    /\ call' = [call EXCEPT ![c] = NewCall("blocking", <<a>>)]
    /\ UNCHANGED <<catalogVars, sent, status, overtaken>>

PipelineBegins(c, a, b) ==
    /\ call[c].stage = "idle" /\ "pipeline" \in KindsOf[c]
    /\ call' = [call EXCEPT ![c] = NewCall("pipeline", <<a, b>>)]
    /\ UNCHANGED <<catalogVars, sent, status, overtaken>>

---------------------------------------------------------------------------
(* _load_agent_config                                                      *)

Loading(c) == Head(call[c].team)
Loaded(team) == IF Tail(team) = <<>> THEN "loaded" ELSE "lookup"

\* Variant: an entry is used whatever its expiry.
LoadHitsAnyEntry(c) ==
    /\ call[c].stage = "lookup" /\ configs[Loading(c)] # NoEntry
    /\ call' = [call EXCEPT ![c].team = Tail(@), ![c].stage = Loaded(call[c].team)]
    /\ UNCHANGED <<catalogVars, sent, status, overtaken>>

LoadHits(c) ==
    /\ call[c].stage = "lookup" /\ ConfigCached(Loading(c))
    /\ call' = [call EXCEPT ![c].team = Tail(@), ![c].stage = Loaded(call[c].team)]
    /\ UNCHANGED <<catalogVars, sent, status, overtaken>>

LoadMisses(c) ==
    /\ call[c].stage = "lookup"
    /\ \E next \in {"select"} \cup
                   IF configs[Loading(c)] # NoEntry /\ ~ConfigCached(Loading(c)) THEN {"purge"} ELSE {} :
         call' = [call EXCEPT ![c].stage = next]
    /\ UNCHANGED <<catalogVars, sent, status, overtaken>>

LoadPurges(c) ==
    /\ call[c].stage = "purge"
    /\ ConfigPurged(Loading(c))
    /\ call' = [call EXCEPT ![c].stage = "select"]
    /\ UNCHANGED <<rowVars, agentNow, sent, status, overtaken>>

\* The SELECT reads the row as it is committed.
LoadSelects(c) ==
    /\ call[c].stage = "select"
    /\ call' = [call EXCEPT ![c].stage = "selected", ![c].row = agents[Loading(c)]]
    /\ UNCHANGED <<catalogVars, sent, status, overtaken>>

\* No such agent: AgentError.
LoadFails(c) ==
    /\ call[c].stage = "selected" /\ call[c].row = Absent
    /\ Raise(c)
    /\ UNCHANGED <<catalogVars, status, overtaken>>

\* set_config computes the expiry first.
LoadResumes(c) ==
    /\ call[c].stage = "selected" /\ call[c].row # Absent
    /\ call' = [call EXCEPT ![c].stage = "store", ![c].due = agentNow + ConfigTTL]
    /\ UNCHANGED <<catalogVars, sent, status, overtaken>>

LoadStores(c) ==
    /\ call[c].stage = "store"
    /\ ConfigStored(Loading(c), call[c].row, call[c].due)
    /\ call' = [call EXCEPT ![c].team = Tail(@), ![c].stage = Loaded(call[c].team),
                            ![c].row = Absent, ![c].due = 0]
    /\ UNCHANGED <<rowVars, agentNow, sent, status, overtaken>>

---------------------------------------------------------------------------
(* The answer of the model                                                 *)

\* A chunk with content, passed on through execute_stream and execute_stream_openai.
StreamChunk(c) ==
    /\ call[c].stage = "loaded" /\ Streaming(c)
    /\ Len(sent[c]) < MaxChunks
    /\ Say(c, "chunk")
    /\ UNCHANGED <<catalogVars, call, status, overtaken>>

\* Variant: the loop goes on after the finish reason.
StreamFinishesAndGoesOn(c) ==
    /\ call[c].stage = "loaded" /\ Streaming(c)
    /\ Len(sent[c]) < MaxChunks
    /\ Say(c, "finish")
    /\ UNCHANGED <<catalogVars, call, status, overtaken>>

\* A finish reason ends the loop.
StreamFinishes(c) ==
    /\ call[c].stage = "loaded" /\ Streaming(c)
    /\ Say(c, "finish")
    /\ call' = [call EXCEPT ![c].stage = "closing", ![c].outcome = "whole"]
    /\ UNCHANGED <<catalogVars, status, overtaken>>

\* The stream of the model may also end without one.
StreamStops(c) ==
    /\ call[c].stage = "loaded" /\ Streaming(c)
    /\ call' = [call EXCEPT ![c].stage = "closing", ![c].outcome = "whole"]
    /\ UNCHANGED <<catalogVars, sent, status, overtaken>>

\* LLMError, or anything else that execute_stream reports as an error chunk.
StreamFails(c) ==
    /\ call[c].stage = "loaded" /\ Streaming(c)
    /\ Raise(c)
    /\ UNCHANGED <<catalogVars, status, overtaken>>

\* stream_generator's last line.
StreamCloses(c) ==
    /\ call[c].stage = "closing" /\ call[c].kind = "sse"
    /\ Say(c, "done")
    /\ call' = [call EXCEPT ![c].stage = "ended"]
    /\ UNCHANGED <<catalogVars, status, overtaken>>

\* ExecutionService after the loop: COMPLETED, committed.
ExecutionCompletes(c) ==
    /\ call[c].stage = "closing" /\ call[c].kind = "execution"
    /\ status' = [status EXCEPT ![c] = "completed"]
    /\ call' = [call EXCEPT ![c].stage = "ended"]
    /\ UNCHANGED <<catalogVars, sent, overtaken>>

\* Variant: the status is written in a finally clause.
ExecutionFailsAsCompleted(c) ==
    /\ call[c].stage = "raised"
    /\ call' = [call EXCEPT ![c].stage = "ended"]
    /\ status' = [status EXCEPT ![c] = IF @ = "running" THEN "completed" ELSE @]
    /\ UNCHANGED <<catalogVars, sent, overtaken>>

\* ExecutionService on an exception sets FAILED on the object, rolls back, and only then commits:
\* the row stays as it was.  The other calls have no row.
ExecutionFails(c) ==
    /\ call[c].stage = "raised"
    /\ call' = [call EXCEPT ![c].stage = "ended"]
    /\ UNCHANGED <<catalogVars, sent, status, overtaken>>

\* The client is gone: the generators are closed by GeneratorExit, which no except clause catches.
ClientLeaves(c) ==
    /\ call[c].stage \notin {"idle", "ended"} /\ Streaming(c)
    /\ call' = [call EXCEPT ![c].stage = "ended", ![c].outcome = "left"]
    /\ UNCHANGED <<catalogVars, sent, status, overtaken>>

\* execute: create_agent and the agent's reply; _build_result.
ExecuteAnswers(c) ==
    /\ call[c].stage = "loaded" /\ call[c].kind = "blocking"
    /\ \/ call' = [call EXCEPT ![c].stage = "ended", ![c].outcome = "whole"] /\ UNCHANGED sent
       \/ Raise(c)
    /\ UNCHANGED <<catalogVars, status, overtaken>>

\* execute_pipeline: the agents' replies, in order or gathered.
PipelineAnswers(c) ==
    /\ call[c].stage = "loaded" /\ call[c].kind = "pipeline"
    /\ \/ call' = [call EXCEPT ![c].stage = "ended", ![c].outcome = "whole"] /\ UNCHANGED sent
       \/ Raise(c)
    /\ UNCHANGED <<catalogVars, status, overtaken>>

---------------------------------------------------------------------------
CallStep(c) ==
    \/ LoadHits(c) \/ LoadMisses(c) \/ LoadPurges(c) \/ LoadSelects(c) \/ LoadFails(c)
    \/ LoadResumes(c) \/ LoadStores(c)
    \/ StreamFinishes(c) \/ StreamStops(c) \/ StreamFails(c) \/ StreamCloses(c)
    \/ ExecutionCompletes(c) \/ ExecutionFails(c) \/ ExecuteAnswers(c) \/ PipelineAnswers(c)

CallBegins(c) ==
    \E a \in Seeded :
      \/ ChatCompletions(c, a) \/ ExecutionBegins(c, a) \/ ExecuteBegins(c, a)
      \/ \E b \in Seeded : PipelineBegins(c, a, b)

\* The agents that some call has selected and not stored.
BeingLoaded == {Loading(c) : c \in {d \in Calls : call[d].stage \in {"selected", "store"}}}

RuntimeNext ==
    \/ \E c \in Calls : CallBegins(c) \/ CallStep(c) \/ StreamChunk(c) \/ ClientLeaves(c)
    \/ /\ CatalogStep
       /\ overtaken' = overtaken \cup {a \in BeingLoaded : agents'[a] # agents[a]}
       /\ UNCHANGED <<call, sent, status>>

\* The event loop runs what it can; the model answers or fails, and its stream ends.
RuntimeFairness == WF_runtimeVars(\E c \in Calls : CallStep(c))

RuntimeSpec == RuntimeInit /\ [][RuntimeNext]_runtimeVars /\ RuntimeFairness

---------------------------------------------------------------------------
(* Properties                                                              *)

RuntimeTypeOK ==
    /\ CatalogTypeOK
    /\ \A c \in Calls :
         /\ call[c].stage \in CallStages /\ call[c].kind \in {"sse", "execution", "blocking", "pipeline"}
         /\ call[c].row \in Agent \cup {Absent} /\ call[c].due \in Nat
         /\ call[c].outcome \in {"open", "whole", "failed", "left"}
         /\ status[c] \in {"none", "running", "completed", "failed", "cancelled"}
    /\ overtaken \subseteq Agents

\* After an update or a deletion of an agent, calls are given its former row for at most the time
\* to live, however loads, purges and stores of several calls interleave; the one exception is an
\* agent changed between the SELECT of a load and the write of its entry.
StaleForTTL ==
    [][\A c \in Calls :
         LET a == Loading(c) IN
         call[c].stage = "lookup" /\ call'[c].stage \in {"lookup", "loaded"} /\ call'[c] # call[c] =>
           \/ configs[a].row = agents[a]
           \/ agentNow < changedAt[a] + ConfigTTL
           \/ a \in overtaken]_runtimeVars

\* What the clients of /chat/completions see is a stream of EventStream.
ClientSees == [c \in Calls |-> IF call[c].kind = "sse" THEN sent[c] ELSE <<>>]
Grammar == INSTANCE EventStream WITH Streams <- Calls, sent <- ClientSees
ImplementsEventStream == Grammar!Spec

\* An execution is COMPLETED exactly when its stream ran to its end; when it failed, or its client
\* left, the row still says RUNNING (and nothing will ever change that).
StatusTellsOutcome ==
    \A c \in Calls :
      call[c].stage = "ended" /\ call[c].kind = "execution" =>
        status[c] = IF call[c].outcome = "whole" THEN "completed" ELSE "running"

\* The docstring of execute_stream_openai: the status is updated on completion or error.
FailureIsRecorded ==
    \A c \in Calls :
      call[c].stage = "ended" /\ call[c].kind = "execution" /\ call[c].outcome = "failed" =>
        status[c] = "failed"
=============================================================================
