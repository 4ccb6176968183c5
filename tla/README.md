# Verification of smart-link-service

smart-link-service is an asyncio (FastAPI) back end for agents driven by language
models. This directory holds TLA+ modules translated from its source, TLC
configurations that check them on small instances, and proofs that TLAPS checks
for every value of the constants. `PROJECT.json` maps each definition to its lines
and lists the components, runs, mutants, hazards, findings and theorems.

    tlc -workers 2 -config RouterFaults.cfg MCRequestRouter     # a run
    tlapm RouterSerialProofs.tla                                # a proof

## 1. The system

| Part (under `src/`) | State | Operations | Modelled |
|---|---|---|---|
| Lane manager `gateway/websocket/lane.py` | per session: 3 lanes (status, current task, waiting tasks), mirrored in a Redis hash; one asyncio lock | acquire, release, enqueue, save, reload | `LaneManager` |
| Request router `gateway/websocket/router.py` | task hashes, the tenant's `active_tasks` counter, the list the agents consume | route_request, on_task_completed, cancel_task | `RequestRouter` |
| Task queue `agent/distribution/__init__.py` | sorted set of waiting tasks, sorted set of deadlines, dead letters, status hash | enqueue, dequeue, complete, requeue, recover_timeout_tasks | `TaskQueue` |
| Agent pool, same file | agents by id in memory, a hash each in Redis; one asyncio lock | register, unregister, assign, release, heartbeat, stop | `AgentPool` |
| Connections and heartbeats `gateway/websocket/{manager,heartbeat,handlers}.py`, `gateway/api/v1/websocket.py` | sockets by client, clients by application, times of the last ping and pong | connect, disconnect, send, broadcast, close, monitor | `Sockets`, `Heartbeat` |
| Execution service, streaming `services/runtime/`, `gateway/api/v1/chat_completions.py` | status of an execution row, the stream of one answer | start, stream, finish, fail | `AgentRuntime` over `EventStream` |
| Orchestrator, LLM client `agent/core/orchestrator.py`, `agent/llm/`, `agent/cache/` | configuration cache, answer cache, retries | execute, stream, pipeline, chat | `AgentRuntime`, `LLMClient` |
| Planning `agent/core/{plan_agent,message_hub}.py`, `agent/subagents/` | plans, results, per-role queues, ids of pending tasks | plan, order, dispatch, answer; put, get, submit, clear | `Collaboration`, `AgentMail` |
| Memory `agent/core/memory.py` | a Redis list and a summary per conversation | add, summarise, clear, read contexts | `Memory` |
| MCP `agent/mcp/client.py`, `gateway/api/v1/mcp_servers.py` | processes with one pipe each, clients by key, server rows | request; create, update, connect, disconnect, delete; start-up and shutdown | `McpPipe`, `McpServers` |
| Sessions `services/session_manager.py` | a key per session, a set per tenant | create, get, update, refresh, delete, list | `Sessions` |
| Authentication `services/auth_service.py`, `auth/`, `gateway/middleware/auth.py` | users, tenants, OAuth states, tokens issued | register, login, refresh, OAuth callback, check of a request | `Accounts` |
| Agents `services/agent_service.py` | rows of agents | create, update, activate, pause, duplicate, delete | `AgentCatalog` |
| Applications, conversations, messages `gateway/api/v1/{applications,conversations}.py` | three tables | create, update, archive, add, run, publish, delete | `Workspace` |
| Plugins `gateway/api/v1/plugins.py` | plugins with a count, installations | publish, change, install, uninstall | `Marketplace` |
| Page design `services/agent_design_service.py` | a tree of components per agent | add, update, delete, validate | `PageDesign` |
| Chunks and messages `agent/core/chunk_builder.py`, `gateway/websocket/protocol_converter.py` | the tool calls gathered so far | convert, break off, reset | `StreamProtocol` |
| Channels, skills, resources other than MCP servers, rate limits | rows, registries | CRUD, reformatting | no, see section 7 |
| Models, schemas, settings, logging | none | declarations | no |

**Interaction.** A request reaches the router, which checks the session and the
quota, asks the lane manager of the session for a lane, and pushes the task to the
agents' list in Redis or leaves it in the queue of a lane. Agents, which are not part of the
repository, take tasks from the list and call back; the completion releases the
lane or pops the next waiting task, which it then fails to give out (section 4). The distribution package is a second path: a
priority queue with deadlines and retries, and a pool of agent instances to assign
tasks to. Everything is one event loop per process; coroutines interleave at
every `await`, in practice at every Redis or socket operation. Redis survives the
process, asyncio locks and dicts do not.

**Wiring.** The router, lanes, heartbeats, queue and pool are constructed in
`gateway/main.py` by a function that the lifespan starts *after* its `yield`, and
apart from that nothing in `src/` calls them. Their models therefore leave the
caller open: any operation may be called whenever its documented use permits.

**What is hard.** Check and use separated by an await (acquire then enqueue, peek
then remove, read the quota then count). Memory and Redis that differ while a write is
under way, and stay different when it raises. Steps of a call ordered such that
a fast agent overtakes its own bookkeeping. Restarts that reload old
state. Callbacks that come twice. Consumers that die with work in their
hands. Rows that a request read before another committed. Caches that nobody
invalidates. A dictionary that changes under a loop that awaits. `PROJECT.json`
lists these under `hazards`, at their lines.

**What correctness means, part by part.**
- Lanes and router: the tasks of a lane run one after another, across
  restarts, as long as Redis has the lanes; no waiting task is handed over twice, or after a
  later, no more urgent one; a restart loads what the process had; every request is answered.
  That what waits is eventually given out is what the code means to do and does not (a
  finding); nor does the quota counter follow the real usage, since nothing ever decrements it.
- Queue: a task has one owner at a time, is tried a bounded number of times, and
  is finished or still known to someone.
- Pool: an agent works for one task, is given back, and Redis tells the truth
  about it.
- Connections: a client that is served stays in the manager's maps, an ended one leaves
  them; only a silent connection is given up.
- Calls of agents: a stream ends once and says nothing after its end; the row of an
  execution tells its outcome; a replaced configuration is used no longer than the time to live.
- LLM client: an answer fits its request; retries are counted and bounded, and every call ends.
  That a client's error is not retried is false (a finding).
- Planning: a task runs after what it depends on and each task runs once; the hub's
  queues neither lose nor repeat a message.
- Memory: the list is bounded and expires, what was cleared does not come back, contexts fit.
  Their choice and order are not the documented ones (a finding).
- MCP: a reply reaches the request it answers; every process that runs can be stopped.
- Sessions and accounts: what is gone stays gone; one account per email; a refused
  registration leaves nothing; nobody who was deactivated, or whose tenant was suspended, is
  let in by a token. An API key lets in a deactivated user of an active tenant, and a socket
  whoever has a key.
- Stores: sequence numbers follow the order of messages; what refers to something deleted was
  made while that was being deleted, or after, and a message only where the database does not
  enforce foreign keys; counts count, searches in a tree find what is there.

## 2. Modules

| Module | What it is |
|---|---|
| `LaneManager` | one session's lanes: state and operations, no behaviour of its own |
| `RequestRouter` | extends it with the calls of the router, faults, the specification and the properties |
| `LaneSchedule` | abstract: what the lanes promise, without calls, locks or Redis |
| `RouterInvariants` | inductive invariants: which step a call is at, where a waiting task is, who waits before whom, who occupies a lane |
| `RouterProofs`, `RouterSerialProofs` | theorems under every fault; theorems without repeated completions |
| `TaskQueue`, `TaskQueueInvariants`, `TaskQueueProofs` | the queue, its invariants, its theorems |
| `AgentPool`, `AgentPoolProofs` | the pool and its theorems |
| `MCRequestRouter`, `MCDistribution` | instances for TLC: the router; the queue and the pool |
| `AgentCatalog`, `AgentRuntime`, `EventStream` | rows of agents and the configuration cache; calls that run agents, which extends the catalogue; abstract: one stream |
| `LLMClient` | `chat` with the cache of answers and the retries |
| `Collaboration`, `AgentMail` | routed calls and their plans; the queues of the message hub |
| `Ordering` | what a sort makes of a set: its members in an order that tells them apart; used by `Collaboration` and `Memory` |
| `Memory`, `Workspace`, `Marketplace`, `PageDesign`, `StreamProtocol` | the stores and conversions named in section 1 |
| `Sockets`, `Heartbeat`, `McpPipe`, `McpServers`, `Accounts`, `Sessions` | connections, tools and access |
| `RuntimeProofs` | facts about numbers and orders that the next two use; theorems of `AgentRuntime` (and of `EventStream` as its abstraction) and `StreamProtocol` |
| `PlanningProofs` | theorems of `LLMClient`, `Collaboration`, `AgentMail` |
| `ServiceProofs` | theorems of `Marketplace`, `Workspace`, `Memory`, `PageDesign` |
| `ConnectionProofs` | theorems of `McpPipe`, `Accounts`, `Sockets`, `McpServers`, `Heartbeat`, `Sessions` |
| `MCServices`, `MCPlanning`, `MCConnections`, `MCExecutions` | instances for TLC of several components each; executions alone |
| `MCAnswers` | `MCRequestRouter` and `MCPlanning` in one run |

### 2.1 LaneManager and RequestRouter

`lanes` are the `Lane` objects, `saved` the hash `session:{key}:lanes`, `lock` the
call inside `async with self._lock`. An operation changes memory and then awaits
the write: two steps with the lock held. `loaded` says whether this process's
registry has the manager; the first `get_manager` reads `saved`. `pc[<<kind, t>>]`
is the next step of the call `kind` for task `t`. Session validation and quota
check are one nondeterministic step; every Redis command that changes state after
it is a step: INCR, LPUSH, the task hash, the status. `TaskHash` keeps what
is told apart: status, and whether there is a tenant (a hash that a status update
created has none).

The client is the one the repository makes, with `decode_responses=True`
(`gateway/main.py:329-333`), so what HGET and HGETALL return is str. Three places
of the router expect bytes. `_update_task_status` reads the tenant and calls
`.decode()` on it: with a tenant it raises, without one it skips the DECR
(`UpdateTenant`; there is no step that decrements). `cancel_task` looks for
`b"status"` and finds none, so it refuses no task that has a hash (`CancelTask`).
`_get_task` would find none of its fields, but before that it calls `AgentTask(...)` without the
required `app_id`: `CompleteNext` ends the call whether the hash of the task handed
over exists or not, and nothing is given to the agents by a completion. With a
client that does not decode, the DECR would happen and the hand-over would end at
`_get_task` all the same.

Faults, chosen by `FaultKinds` and bounded by `MaxFaults`: *crash* (memory and
locks lost, calls end), *failure* (the Redis command that a call awaits raises; the lock is
released, memory keeps the change), *expiry* of a task hash after an hour, *lapse* of the
lanes' hash 24 hours after its last write, *redelivery* of a
completion, *cancel* by a client. History variables say what a lapse or a failing write
did: `behind` (lanes whose last write failed), `lapsed` (lanes whose record expired since
it was written), `misled` (lanes that a process loaded after that, which are as good as new
to it whoever they work for). One session and one tenant are modelled: lanes
of different sessions share only the tenant's counter. A task has one request;
its number in the router is unique (uuid).

Abstractions: payloads, timestamps and wait estimates are left out. Sorting is
stated by its result (the one stable order), not as an algorithm.

### 2.2 TaskQueue

`queue` is the sorted set, as a set of members (a member is the task's JSON: id,
priority, retry count, creation time), `processing` the deadlines, `dead` the dead
letters, `hash` the status. A caller is `at` a stage with a `job` in its hands;
every Redis command is a step. No consumer loop exists in `src/`, so a caller with
a task completes it, fails it, retries it (with or without `complete` before), or
is cut short by `Abandon` (its process dies or a command raises). Time is a
counter; `dequeue` ignores it, as the code does. The order is by (priority,
creation time): a step of priority is 10^9 seconds in the score. History variables
(`added`, `claimed`, `finished`, `mislaid`, `dropped`) count what the properties
talk about and guard only `Submit`, where they say that an id is new.

`recover_timeout_tasks` is modelled as it runs: `AgentTask(...)` lacks the required
`app_id`, so the call raises at the first id that has a hash, after its ZREM.

### 2.3 AgentPool

`pool` is `self.agents`, `redis` the hashes, `lock` the holder. An operation takes
the lock and changes memory in one step (no await between), and writes in another.
`Register` writes twice. `HeartbeatStart` collects the fields without the lock,
`HeartbeatLands` writes them whenever Redis gets to it. `Stop` is `stop()`: the
agents of one moment, each unregistered under a lock of its own. The caller given
an agent is "holding" it until it calls `release_agent`, once. History:
`disturbed` (replaced or removed under a caller that held them), `orphaned`
(assignment raised after it marked them), `stale` (last write lost or overtaken).

`_health_check_loop` has no action: `now` is aware, `last_heartbeat` naive, so the
first round with an agent raises TypeError before it changes anything, and the loop
is over. UNHEALTHY and PAUSED are unreachable; TERMINATED agents are in no dict.
`load_factor` is never written, so any idle candidate may be taken.

### 2.4 Calls of agents: AgentCatalog, AgentRuntime, EventStream

`agents` are the rows, `configs` the cache rows, `calls` where each call is. Four kinds of
calls load configurations through the cache: `sse` (`/chat/completions`), `execution`
(`ExecutionService.execute_stream` with its row), `blocking` (`execute`) and `pipeline`. A load is
as many steps as it awaits: cache look-up, purge of an expired row, SELECT, store. Edits of agents commit in
between, and nothing removes a cache row when its agent changes. A delete reads the
status and deletes later. What the client of a stream sees is `EventStream`: chunks, then
a last chunk or an error, then `[DONE]` unless the client has left; the refinement
is the run's property `ImplementsEventStream`. No call looks at the agent's status.

`POST /executions/{id}/cancel` (`gateway/api/v1/executions.py:34`) calls `cancel_execution`, which
reads `orchestrator.interrupt_manager`. `AgentOrchestrator` has no such attribute, so the call raises
before it looks at the row: it changes nothing, for any execution, and has no action.

### 2.5 LLMClient

One call of `chat`: look in the cache (not when tools are offered), purge an expired
row, ask the provider, wait and ask again, store. The cache key is made of the first
system and the first user message, so requests share keys (`KeyOf`). `is_retryable_error` looks
for "rate" or "429" in the text before it looks at the status: a 400 with such a text is retried, the error kind
`client_rate`, against the docstring (RetryRules). `ChatDiscipline` therefore claims of retries only that they are
counted, bounded, and waited for within the cap or as the provider advised; `ClientErrorsNotRetried`, what the docstring
says, is the violated one. The waits are exact (base 2, cap, Retry-After).

### 2.6 Collaboration and AgentMail

The plan is what a model wrote: any list of tasks, with ids that repeat, unknown or
circular dependencies, kinds without a sub-agent. `OrderTasks` is
`_order_tasks_by_dependencies` as a recursive function on waves, over positions in the list; a
wave is `Enumerated` (module `Ordering`) by priority and position, which is what Python's stable
sort makes of it. The property
compares it with a definition of its own (a task is *blocked* if no order can serve it:
the greatest fixed point). Roles and outcomes are as the sub-agents return
them: research and data always fail, "default" is in no pool. `is_executing` is lowered by
the first call that ends, while others run: `FlagDownAtRest` claims only that it does not stay up.
`initialize_routing` has no caller in `src/`.

`AgentMail` is the other half of the hub, which only the tests call. `asyncio.Queue`
wakes one reader per message, but a reader that comes meanwhile may be
faster: any waiting reader takes the head. The history says what was put in a queue
(`arrived`), what left it, taken or dropped, in order (`gone`), and what a `clear_queue`
dropped (`cleared`). A broadcast reaches the roles whose queue has
been named; on a new hub that is nobody, though a test remarks "The hub should have
queues for default roles" (`tests/unit/test_message_hub.py:167`).

### 2.7 Memory, Workspace, Marketplace, PageDesign, StreamProtocol

*Memory.* LPUSH, LTRIM and EXPIRE are three steps, clear is two DELs, a summary is read, asked
for and written. `get_messages_for_context` sorts by (-importance, timestamp), so among equals
the oldest come first, although its comment says "newest first" (memory.py:135), and then only
reverses (`:149`, "Re-order chronologically"). The model does what the code does. `RecentPreferred` and
`ContextChronological` are what the comments say; `ContextAsCommented` asks for one of them at least, and is violated,
so that both are refuted. `ContextsFit` claims what is left: the budget, and
that nothing more important is left out than what is told. The order is the
relation `Matters` on positions, the sorted list what `Ordering` makes of it.

*Workspace.* A request reads and commits in separate steps. The foreign keys that the models declare are
enforced by PostgreSQL and, for want of a PRAGMA in `db/session.py`, not by SQLite, which is the default: `enforced` is
chosen at the start, and every property is of both. `create_conversation` does not look its application up, so without
enforcement it accepts one that is gone or never was; `late` records that, or that a delete was under way. `db.delete`
loads what goes with a row, and the commit deletes what was loaded; what came in between goes too, or loses its
reference, only where keys are enforced. `DeletedWithApp` says exactly that: the cascade of messages that the schema declares (`models/application.py:164`) is
claimed where it is enforced, and elsewhere up to the messages added while the delete was under way. `create_application` has no
action: it passes a column the model class lacks and always fails. `run_application` opens a
conversation and then always answers an error, as `execute` has no such keyword.

*Marketplace.* The count is written back as read plus one; no index keeps two
installations of one tenant apart. The property is claimed for plugins on which no
two installs or uninstalls were under way together; for the others it is false, in the code and in the model.

*PageDesign.* A tree is the preorder list of its nodes. Editors write the whole tree, the
last one wins; what the property is about is that the two recursive searches reach everything. Both
are one recursion (`Search`) with a different own answer of a node: `_find_node` gives the node itself,
`_remove_node` its first child with the id, which goes with all that is under it (`Without`).

*StreamProtocol.* A converter serves several answers. The finish reason of a chunk is
looked at before the tool pieces in the same chunk: such a piece is missing from
`tools_ready` (the property excepts it). Only tests use the converter.

### 2.8 Sockets and Heartbeat

An endpoint knows its client's id, not its socket: it sends to whatever is
registered under the id, and its end removes that. `broadcast` and `close` walk over the live
dictionary (`walk`): after a change of its size the next step raises. `/ws/stream` never
accepts its socket, so the first `receive_json` raises, and the registration stays. A
chat message is always answered with an error, since its handler leaves out columns that must
not be null. `Heartbeat` counts time in rounds; `register_connection` stores naive
times, pings and pongs aware ones, and the loop ends in the first round that meets a naive one.

### 2.9 McpPipe and McpServers

`written` and `lines` are the two directions of the pipe, `reader` the one coroutine
`StreamReader` allows to wait. All requests have the same id and nothing locks the
pipe: after an overlap, a request given up at its time limit, or a notification, answers
go to others (`mixed`, the exception in `AnswersFit`). `McpServers` has the
requests of `/mcp-servers`, those of `/resources/mcp` (which change rows and tell the manager
nothing), the connections made in the background after start, and the
shutdown's loop over the clients. A client owns a process or an open HTTP connection.

### 2.10 Accounts and Sessions

Each SELECT, flush and commit is a step. `register` looks for the email and inserts
later; the slug of a personal tenant is unique, and a transaction that flushed it makes
another wait. An OAuth state is selected and deleted in two statements. `history`
variables record which calls overlapped, who was out (`lateFor`) and which tenants were suspended (`closedFor`) when a
call began. A request is let in by a token (`answered`), for which user and tenant are read, or else by an API key
(`keyed`), for which only the tenant is (`KeyReadsTenant`); a socket by a key alone (`SocketOpens`). `OutStaysOut`
claims of each what the code checks, of sockets nothing. Keys that name no user (the master key) are left out;
`verify_jwt_ws` is imported nowhere. `Sessions`
is SETEX, SADD, GET, TTL, DEL, SREM as steps; an update that read before a delete
writes the session back after it. So far `src/` calls only `connect` and `disconnect` of the
session manager; what is modelled is its interface.

## 3. Runs

| Run | Checks | Bounds |
|---|---|---|
| RouterFaults | `RestartRestores`, `NoOvertaking`, `HandedOnce`, `LaneSerial`, `SavedLaneBusy`, `ImplementsSchedule` | 3 tasks of 2 priorities, 1 lane, queue of 2, 2 crashes, failures or lapses |
| Answers | `TypeOK`, `HandedOnce`, `RouteAnswers` (liveness); `PlanningTypesOK`, `HubKept`, `ChatDiscipline`, `CallsEnd` (liveness) | 2 tasks, 1 lane, 2 faults of any kind but a lapse, redelivery included; 2 chats with one key, 1 retry; 2 routed calls, every graph on 3 tasks that depend on one another and plans of 2 tasks with repeated ids; 4 messages, 2 readers of one role |
| Distribution | `QueueTypeOK`, `ClaimedOnce`, `RetryBudget`, `OnePlace`, `LostInTransit`; `PoolTypeOK`, `HolderOwns`, `BusyIsHeld`, `RedisFollows` | 2 tasks, 2 callers, 1 retry, time to 2, 1 caller cut short; 2 agents, 2 callers, 2 failing commands |
| Services | `TypesOK`, `StaleForTTL`, `ImplementsEventStream`, `StatusTellsOutcome`, `LaterMessagesLater`, `DeletedWithApp`, `MemoryKept`, `CountsInstallations`, `WalksFit`, `ProtocolKept` | 2 agents, one edit and one delete, 2 calls of any kind, 1 chunk, time to live 1; 1 application, 1 conversation, 3 adds, a run, a removal; memory of 2 with 3 adds, a clear, a summary, a crash; 2 plugins of one name, 3 installs and 2 uninstalls by 2 tenants; all trees of up to 4 nodes with 5 requests; 2 answers of 4 chunks with 2 tool calls |
| Connections | `TypesOK`, `SocketsKept`, `OnlySilentGivenUp`, `AnswersFit`, `ServersAccounted`, `GoneStaysGone`, `AccountsKept`, `OutStaysOut` | 2 sockets of one client and a third client, on either endpoint; 2 connections and 5 rounds; 3 requests on a pipe; 2 server rows of one name, 2 calls; 8 calls on accounts, 4 at a time; 2 sessions, 6 calls |
| RouterQueueRace | `WaitingLaneIsBusy` **violated** | 2 tasks, 1 lane, no fault |
| RouterDrain | `BusyLaneDrains` **violated** | 2 tasks, 1 lane, no fault, fair |
| QueueRecovery | `RecoveryKeepsTasks` **violated** | 1 task, 2 callers |
| PoolShutdown | `ShutdownIsFinal` **violated** | 1 agent, 2 callers |
| ExecutionStatus | `FailureIsRecorded` **violated** | 1 execution, 1 agent |
| RetryRules | `ClientErrorsNotRetried` **violated** | the chats of Answers |
| SubAgentContext | `ContextAsCommented` **violated** | memory of 3 with 3 adds |

Answers, Distribution, Services and Connections check several components that share no state. Their module has a
variable `focus`, chosen at the start: a behaviour is one of that component, the
others rest. The states add up instead of multiplying, and every component is
explored as fully as in a run of its own. `TypesOK` and the properties with a composite
name are conjunctions, spelled out in the component (`MemoryKept`, `MailKept`, `ChatDiscipline`,
`ProtocolKept`, `SocketsKept`, `ServersAccounted`, `AccountsKept`) or, where they join two
components, in the MC module: `HubKept` (plans, the busy flag, the queues of the hub),
`WalksFit` (searches in a page, contexts of the memory), `CallsEnd`.

Why these bounds are enough for the interesting cases: three tasks are one in the
lane, one waiting and one arriving (or two waiting, in either order of priority);
with one lane every conflict is about the same lane. Two faults are one to lose the record
of the lanes, or the last write of one, and one to load what is left. Several lanes meet only in the choice of one and in
the one record that expires for all of them; that is left to the proofs, which are for any number of lanes. In Answers two
tasks are one with the agents and one that waits, and two faults let a completion come three times. Two queue members are needed for an order, two
callers for a race on one member; one retry gives a first attempt, a retry and the
dead letter. Two agents let `stop()` work on a list; two callers give every pair
of pool operations. In the other components two calls make a race, and a third is there where
its victim must be someone else (a client who did nothing, an installation made before, the next
request on a pipe). Time runs just past the longest time to live. Larger instances are what the proofs are for. Symmetry is used in runs
without liveness only; the priorities and clocks are not symmetric and are not
permuted. `CHECK_DEADLOCK FALSE` because the system rests when every request is
answered and every budget of faults or time is used.

**Fairness.** Two runs assume any. Answers: each chat and each routed call that has
begun goes on (`LLMFairness`, `CollabFairness`): the event loop does not stop, the provider answers
or raises, and a sleep ends. No call is obliged to begin; `ChatsEnd` is of chats that look in the cache first and
of those that, with tools, ask the provider at once. Answers and RouterDrain: `WF_vars(Progress)`, that is, the event
loop does not stop while some call can take a step, and agents report what they
took (`AgentReports` is outside `src/` and is assumed). Nothing obliges a client to
send a request, and no single call has fairness of its own: with finitely many
requests the weak fairness of the whole is enough. Under it `RouteAnswers` holds and `BusyLaneDrains` does not.

**Mutants.** For every property of a passing run `PROJECT.json` names a variant of one
definition (a "Variant" operator above it in the module): a missing guard, a
write not made, an answer not looked at, a lock not released. TLC finds the property violated with it.

## 4. What the checks found

1. **A task queued on a free lane** (RouterQueueRace). `route_request` finds no lane
   and then enqueues, in two locked calls. If the lane is released in between, the
   task joins an idle lane, which becomes "queued": nobody will release it, and
   `acquire_lane` will not take it. The docstring says tasks wait for a full lane.
2. **Recovery loses tasks** (QueueRecovery). See 2.2. What the design document passes, the code leaves out.
3. **A shutdown is undone** (PoolShutdown). `release_agent` makes an agent that is
   shutting down idle again, against ALLOWED_TRANSITIONS, which nothing reads.
4. **A failed execution stays RUNNING** (ExecutionStatus). The error path sets the row to
   FAILED, rolls back, which discards that, and commits nothing.
5. **A task that waited is never given out** (RouterDrain). A completion pops it and has it
   rebuilt by `_get_task`, which raises for the missing `app_id` (or drops it, if its hash is
   not there). Its lane stays busy for a task nobody runs.
6. **Errors of the client are retried** (RetryRules), if their text has "rate" in it.
7. **The oldest messages are preferred, and told last first** (SubAgentContext): what a
   sub-agent is given is neither the most recent nor in the order of the conversation,
   against the docstring and the two comments on its lines.

Not findings, but behaviour of the code that the models contain and the properties
are worded around: a hash written after the step it describes (`dispatched` over `completed`,
`queued` over `completed`), a cancelled task that keeps its place, a retry delay that delays
nothing, a counter of active tasks that only rises (the DECR comes after a `.decode()` of a
str, `router.py:339`), a cancellation of an execution that always raises
(`execution.py:124`), messages that outlive their conversation on a database without foreign
keys (`db/session.py:29`), a completion
reported twice that frees the lane of another task (therefore `LaneSerial` is claimed
without repeated completions and `HandedOnce` with them), a record of the lanes that
expires under a running task, an API key that outlives its user. Several properties
delimit such behaviour and do not exclude it: they name the overlaps after which nothing is
claimed, and say that there are no others (`HolderOwns`, `SocketsKept`, `AnswersFit`,
`ServersAccounted`, `CountsInstallations`, `MemoryKept`, `AccountsKept`, `GoneStaysGone`).

## 5. Proofs

All theorems hold for any tasks, callers, agents, lanes, priorities and bounds.
Assumptions, each a named ASSUME that TLC evaluates on the runs: `LaneAssumption`,
`RouterAssumption`, `QueueAssumption`, `PoolAssumption`, `CatalogAssumption`, `RuntimeAssumption`,
`LLMAssumption`, `CollabAssumption`, `MailAssumption`, `MarketAssumption`, `WorkspaceAssumption`,
`MemoryAssumption`, `PageAssumption`, `StreamAssumption`, `PipeAssumption`, `AccountsAssumption`, `SocketAssumption`,
`ServerAssumption`, `HeartbeatAssumption`, `SessionsAssumption`. They say that limits and times are
naturals, that there is at least one lane and place, that the null values are not identifiers, that kinds of
calls are disjoint, that what a call is about is fixed when it is made, that a plan is a list of tasks whose
priorities are integers, and that a page written by an editor is a tree (a `ComponentNode`, which
the schema guarantees), possibly with repeated ids. One is of another
kind: `PowersOfTwo` (in `LLMClient`, for the waits between retries) is a fact of
arithmetic, stated because the provers know no exponents.

| Theorem | Says | Inductive invariant |
|---|---|---|
| `RouterProofs!TypeCorrect` | `TypeOK` | itself |
| `RestartCorrect` | `RestartRestores`, under every fault | itself with `TypeOK` |
| `HandedCorrect` | `HandedOnce`, under every fault | `QueueInv` |
| `OrderCorrect` | `NoOvertaking`, under every fault | `OrderInv` |
| `RouterSerialProofs!SerialCorrect`, `SavedLaneCorrect` | `LaneSerial`, `SavedLaneBusy`, if "redelivery" is not among the faults | `SerialInv` |
| `RouterSerialProofs!ScheduleImplemented` | the router implements `LaneSchedule`, same condition | `SerialInv` |
| `TaskQueueProofs!TypeCorrect` | `QueueTypeOK` | `TypeInv` |
| `ClaimedOnceCorrect`, `RetryBudgetCorrect`, `OnePlaceCorrect` | the three properties | `TypeInv /\ CountInv` |
| `LostInTransitCorrect` | a task is lost in two ways only | with `KnownInv` |
| `AgentPoolProofs!TypeCorrect`, `HolderCorrect`, `BusyCorrect`, `RedisCorrect` | the four properties of the pool | `PoolTypeOK` and, beside it, each property strengthened by what callers in the middle of an operation know |
| `RuntimeProofs!OutcomeTold`, `StalenessBounded` | `StatusTellsOutcome`, `StaleForTTL` | `RuntimeInv` |
| `GrammarImplemented` | every stream of `AgentRuntime` implements `EventStream` | `RuntimeInv` |
| `EndingsKept` | `ProtocolKept` | `StreamInv` |
| `PlanningProofs!ChatCorrect` | `ChatDiscipline` | `ChatInv` |
| `PlansCorrect`, `FlagCorrect`, `MailCorrect` | `PlansCarriedOut`, `FlagDownAtRest`, `MailKept` | `PlansInv`, `FlagInv`, `MailInv` |
| `HubCorrect` | `HubKept`: the three together | the same |
| `PlanningTyped` | `PlanningTypesOK` | `ChatInv`, `PlansInv`, `MailInv` with `MailIds` |
| `ServiceProofs!CountCorrect` | `CountsInstallations` | `MarketInv` |
| `LaterIsLarger`, `DeletionComplete` | `LaterMessagesLater`, `DeletedWithApp` | `WorkspaceInv` |
| `MemoryCorrect` | `MemoryKept` | `MemoryInv` |
| `ContextsCorrect`, `SearchesCorrect` | `ContextsFit`, `SearchesReachAll` | `MemoryInv` with `NumbersGiven`, `PageInv` |
| `WalksCorrect` | `WalksFit`: the two together | the same |
| `ServicesTyped` | `TypesOK` of `MCServices` | the invariants of the six services, `NumbersGiven`, `StreamTypes`, `TogetherTyped` |
| `ConnectionProofs!AnswersCorrect` | `AnswersFit` | `PipeInv` |
| `AccountsCorrect`, `OutsideCorrect` | `AccountsKept`, `OutStaysOut` | `AccountsInv` |
| `SocketsCorrect` | `SocketsKept` | `SocketsInv` |
| `ServersCorrect` | `ServersAccounted` | `ServersInv` |
| `HeartbeatCorrect` | `OnlySilentGivenUp` | `HeartbeatInv` |
| `GoneCorrect` | `GoneStaysGone` | `GoneInv` |
| `ConnectionsTyped` | `TypesOK` of `MCConnections` | the invariants of the six components, `ManagerTypes`, `FewConnected` |

*Why HandedOnce is not inductive.* A second hand-over could come from anywhere a waiting task can
be: its own request, the queue in memory, the saved queue that a restart reads,
or a completion that has popped it. `QueueCore` says that these exclude each other
(`NeverQueued`, `QueuesHoldOwn`, `QueuesDistinct`, `HandOverOK`) and that what
is in any of them was never handed over. The one overlap is a task in hand-over that is
still in the *saved* queue: only until the completion has saved the lane, and release_lane
returns after that, so a crash in between restores the task instead of doubling it.

*Why LaneSerial is not.* `SerialInv` adds who occupies a lane from the step that
gives it to the step that takes it away (`Occupies`), that there is only one
(`OneOccupant`), and that its lane is busy, in memory and, once the task may
have been pushed, also in Redis until the record expires (`OccupiedIsBusy`). A lane that was loaded after
that is excepted (`misled`), and `LaneSchedule` promises nothing of it (`Forget`).

*The queue.* `CountInv` ties the counters to the place of a task: a member with n
retries was claimed n times, one in hand n + 1 times (n when it is about to be
added again). `KnownInv` says for each added task who will still bring it up:
the queue, a caller's hands, a deadline, or a recovery looking it up.

*Sessions.* `GoneStaysGone` speaks of sessions that are stored again. `LateWritersKnown`
speaks of those that are not: whoever is about to write one of them is among the calls noted
when it went, since no call gets past its last look at a session that is not there.

*NoOvertaking.* Comparing two tasks when one is handed over says nothing about the queues
that will be reloaded later. `OrderInv` says that both queues, in memory and saved, are in the
order of arrival among equals (`QueuesInOrder`), and that whoever is ahead of a task that was handed over, or
is being, has left both; the saved one only once the hand-over has written it (`NoneOvertaken`).

*Calls of agents.* A cache row is the committed row, or expires within the time to live of the change, or
was overtaken by it on its way (`CacheFresh`, and `LoadFresh` for what a load still has in its hands). The
outcome follows the stage of a call (`OutcomeFits`), and what was sent follows it too (`SentFits`).

*StreamProtocol, LLMClient.* Until an answer is closed, `gathered` is what was `given` and nothing
but text and pieces was told (`AnswerOpen`). A row of the answer cache fits its key whoever stored it (`RowFits`);
who sleeps has an attempt left (`CallFits`).

*AgentMail.* A message is in one place: `arrived` is what is `gone` followed by what is `queued`, without
repetition, and what an agent has in hand is gone and nobody else's. A task not answered yet is in the queue,
in a hand or dropped (`ListedTasks`).

*The order of a plan.* What `OrderTasks` computes is needed for every list of tasks, and the provers
have no induction over an operator. Recursive functions are therefore reasoned about by least
counterexamples: the steps at which a claim fails are a set of naturals, which has a least member
(`LeastMember`, from the well-foundedness of the naturals), and the step before it gives the contradiction.
First, `WavesDefined` says that `Waves` is a function with the recursion's values. Then (`WaveOK`), after every wave: what is ordered
lists each position once, and the other positions are the rest; a position ordered as ready has its
dependencies before it; blocked positions come only when nothing is ready, and then all at once.
After 2 * Len(ts) waves the rest is empty, since each wave takes one task or more while any is left (`WavesEnd`).
`EnumeratedInOrder` gives the order within a wave. That *blocked* is a greatest fixed point is what ties the two definitions together
(`ReadyOrBlocked`): the rest that nobody in it can leave is such a fixed point. `PlansInv` then says that at any time what has run
and what is left to run are this order, cut in two.

*Marketplace.* On a plugin without overlap a call works alone, so what it has read stays true until it
commits (`ReadFits`); only with this is the count inductive.

*Workspace.* Sequence numbers are counts, so `CountedAll` says whose messages an add has counted and that
those are still there. `LoadedOrLater` says that a conversation which a removal under way has not loaded was opened after it,
and its counterpart for messages that one which the removal has not read was added during it.

*Memory.* The messages of a cleared list can be known only to the generations that were at work when
the clear began (`ErasedForgotten`).

*Contexts.* The numbers of the messages fall along the list, whatever is trimmed, cleared or lost
(`NumbersGiven`): so the order by importance tells any two of them apart, and is enumerated. The size of what
is taken is a sum; that a list read backwards has the same sum is again a least counterexample.

*PageDesign.* `PageInv` is that the page and every request's copy are trees, and `AppendedIsTree` and
`WithoutIsTree` that requests keep them so. In a tree, everything below a node is below one of its children
or is a child; so what `Search` returns at the root is, by least counterexample from the last node up, the
first node in preorder that has an answer of its own (`FoundIs`, `RemovedIs`).

*McpPipe.* As long as nothing was mixed, the pipe is empty, or one request is alone and its line
or its answer is all there is in it.

*Accounts.* Past its look at the email a call has every user of this email for an overlap (`TogetherKnown`).
A registration alone holds the slug of the tenant it inserts, which nobody has seen (`SlugHeld`);
past the delete an OAuth state is gone (`StateUsed`). Whoever was out when a call began stays out,
and if that call is past the check of the user, it is the tenant that bars them (`LateKnown`); a key's tenant that was
suspended then still is when it is read.

*Sockets, McpServers, Heartbeat.* Whatever is registered or sent to has begun and is of the client it stands for
(`TargetsBegan`). Only who stops a client or has started one holds it, until two requests overlap on a server there is
one at a time (`Holders`, `OneAtATime`), and what shutdown stopped does not run again. Missed heartbeats
were counted in rounds of silence (`CountsSilence`).

*Layout.* Type correctness first, one step per action; then one lemma per action or
group of actions over the invariant, with one step per conjunct that it can disturb;
the last step of a theorem is temporal.

*Types.* `TypesOK` of an MC module is of whatever component the run chose. Most of each conjunct is a part of that
component's invariant; the rest are small invariants of their own (`MailIds`, `StreamTypes`, `ManagerTypes`). `FewConnected` is one that
TLC cannot see: a walk starts from a number of connections, which is one because they are finitely many at a time,
though the clients may be infinitely many.

**Only model-checked:**
- `RouteAnswers`, `CallsEnd`: liveness under fairness is out of this prover's reach.
- The violated properties, which are false.

## 6. Plan

1. *Done.* Lanes, router, `LaneSchedule`; task queue; agent pool; their theorems.
2. *Done.* Calls of agents, LLM client, planning, memory, connections, MCP, sessions, accounts, stores.
3. *Done.* `NoOvertaking`, `HandedOnce` and `RestartRestores` of the router; theorems for the components of step 2.
4. *Done.* What the recursive functions compute: the order of plans, contexts, searches in a page; the types of all components.
   Every invariant and action property that a passing run checks is now a theorem.
5. Left for later: the execution row under several processes; `execute_pipeline_stream`; the
   lane queue and the channels of the session manager, once something uses them.

## 7. Not modelled

- *No behaviour of their own:* formatting, logging, metrics, schemas, settings, prompt builder,
  channels, agentscope wrappers, token signatures and password hashes (data to the models).
- *Not reached:* the rate limiter is installed without Redis and returns at once
  (`gateway/main.py:468`); `application_service.py`, `agent/memory/manager.py` and
  `agent/core/interrupt_manager.py` are used by nothing in `src/` but tests; `MultiTenantQueueManager` only hands out queues;
  `remove_manager` of the lane registry and the queue and publish operations of the session manager likewise.
- *Plain rows:* components, skills, models and the rows of API keys: one request, one row, nothing that
  two requests must agree on. `ServiceClients` of `client_credentials.py` keeps nothing.
- *What sub-agents, tools and skills do inside:* an outcome in `Collaboration`.
- *Environment:* several gateway processes on one session at a time (each would hold its own lanes
  in memory, which the code does not coordinate; the models have one process that
  restarts). Redis and the database are assumed to keep what they acknowledged, and
  not to execute a command that raised; clients, the provider, MCP servers and expiry are external actions.
