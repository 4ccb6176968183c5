----------------------------- MODULE AgentPool -----------------------------
(***************************************************************************)
(* AgentPoolManager (agent/distribution/__init__.py): the agents a process *)
(* knows, and the hash agent:{id} it keeps in Redis for each of them.      *)
(*                                                                         *)
(* register, unregister, assign and release run under one asyncio lock,    *)
(* with the Redis write inside it.  A heartbeat takes no lock: what it     *)
(* writes is put together before its await and lands whenever Redis gets   *)
(* to it.  Callers are the coroutines that use the pool; the task that an  *)
(* assign_task call brings is named by its caller.                         *)
(*                                                                         *)
(* The health check has no action: with any agent in the pool its first    *)
(* round subtracts last_heartbeat, a naive datetime, from an aware one,    *)
(* which raises and ends the loop before it has changed an agent.          *)
(***************************************************************************)
EXTENDS Integers, FiniteSets

CONSTANTS
    Agents,         \* agent identifiers
    PoolCallers,    \* coroutines that use the pool
    Serves,         \* the agents whose tenant allows the task of a caller
    MaxAgents,      \* max_agents
    MaxFailures     \* bound: Redis commands that raise

ASSUME PoolAssumption ==
    /\ Serves \in [PoolCallers -> SUBSET Agents]
    /\ IsFiniteSet(Agents)
    /\ MaxAgents \in Nat
    /\ MaxFailures \in Nat
    /\ "nobody" \notin PoolCallers
    /\ "no-agent" \notin Agents

VARIABLES
    pool,           \* self.agents: state and current_task, or Absent
    redis,          \* the same fields in agent:{id}, or Absent
    lock,           \* the caller inside `async with self._lock`, or Nobody
    poolAt,         \* the next step of each caller
    target,         \* the agent a caller's operation is about, or NoAgent
    sent,           \* the fields of a caller's HSET that is on its way
    stopping,       \* the agents stop() has yet to unregister
    disturbed,      \* history: agents replaced or removed under a caller that held them
    orphaned,       \* history: agents whose assign_task raised after it marked them
    stale,          \* history: agents whose hash was last written with old fields
    failures        \* Redis commands that raised so far

calls == <<lock, poolAt, target, sent, stopping>>
history == <<disturbed, orphaned, stale>>
poolVars == <<pool, redis, calls, history, failures>>

Nobody == "nobody"
NoAgent == "no-agent"
Absent == [state |-> "absent", current |-> Nobody]
Instance(state, current) == [state |-> state, current |-> current]
States == {"initializing", "idle", "busy", "shutting_down", "absent"}
PoolStages == {"idle", "registering", "registered", "assigning", "holding", "releasing",
               "draining", "deleting", "beating", "stopping", "stop-deleting"}
LockedStages == {"registering", "registered", "assigning", "releasing", "draining",
                 "deleting", "stop-deleting"}

Registered == {a \in Agents : pool[a] # Absent}
Holders(a) == {c \in PoolCallers : poolAt[c] = "holding" /\ target[c] = a}

PoolGoto(c, stage) == poolAt' = [poolAt EXCEPT ![c] = stage]
Aim(c, a) == target' = [target EXCEPT ![c] = a]
SetAgent(a, i) == pool' = [pool EXCEPT ![a] = i]
Send(c, i) == sent' = [sent EXCEPT ![c] = i]

\* A caller that had the agent before it was replaced or removed.
Disturb(a) == disturbed' = IF Holders(a) # {} THEN disturbed \cup {a} ELSE disturbed

\* An operation that takes the lock, changes a in memory to i and writes it.
Change(c, a, i, stage) ==
    /\ lock = Nobody
    /\ lock' = c
    /\ Aim(c, a)
    /\ SetAgent(a, i)
    /\ Send(c, i)
    /\ PoolGoto(c, stage)
    /\ UNCHANGED <<redis, stopping, orphaned, stale, failures>>

---------------------------------------------------------------------------
(* The operations up to their first write                                  *)

\* An id that is registered already is replaced, whatever it is doing.
Register(c, a) ==
    /\ poolAt[c] = "idle"
    /\ Cardinality(Registered) < MaxAgents
    /\ Change(c, a, Instance("initializing", Nobody), "registering")
    /\ Disturb(a)

UnregisterBusy(c, a) ==
    /\ poolAt[c] = "idle"
    /\ pool[a].state = "busy"
    /\ Change(c, a, Instance("shutting_down", pool[a].current), "draining")
    /\ UNCHANGED disturbed

\* force, or an agent that is not busy: one that is shutting down may still
\* work on its task.
Unregister(c, a) ==
    /\ poolAt[c] = "idle"
    /\ a \in Registered
    /\ Change(c, a, Absent, "deleting")
    /\ Disturb(a)

\* Variant: the agent stays idle.
AssignTaskIdle(c, a) ==
    /\ poolAt[c] = "idle"
    /\ a \in Serves[c] /\ pool[a].state = "idle"
    /\ Change(c, a, Instance("idle", c), "assigning")
    /\ UNCHANGED disturbed

\* load_factor is never written: min() takes the first candidate of the dict,
\* and any of them here.
AssignTask(c, a) ==
    /\ poolAt[c] = "idle"
    /\ a \in Serves[c] /\ pool[a].state = "idle"
    /\ Change(c, a, Instance("busy", c), "assigning")
    /\ UNCHANGED disturbed

\* Variant: only current_task is cleared.
ReleaseAgentTaskOnly(c) ==
    /\ poolAt[c] = "holding"
    /\ pool[target[c]] # Absent
    /\ Change(c, target[c], Instance(pool[target[c]].state, Nobody), "releasing")
    /\ UNCHANGED disturbed

\* The state before is not looked at, and neither is whose task it was.
ReleaseAgent(c) ==
    /\ poolAt[c] = "holding"
    /\ pool[target[c]] # Absent
    /\ Change(c, target[c], Instance("idle", Nobody), "releasing")
    /\ UNCHANGED disturbed

ReleaseUnknown(c) ==
    /\ poolAt[c] = "holding"
    /\ lock = Nobody
    /\ pool[target[c]] = Absent
    /\ PoolGoto(c, "idle") /\ Aim(c, NoAgent)
    /\ UNCHANGED <<pool, redis, lock, sent, stopping, history, failures>>

---------------------------------------------------------------------------
(* The writes                                                              *)

Unlock(c, stage) ==
    /\ lock' = Nobody
    /\ PoolGoto(c, stage)
    /\ target' = IF stage = "holding" THEN target ELSE [target EXCEPT ![c] = NoAgent]
    /\ sent' = [sent EXCEPT ![c] = Absent]

\* register_agent writes twice: the second time as an idle agent.
PersistInitializing(c) ==
    /\ poolAt[c] = "registering"
    /\ redis' = [redis EXCEPT ![target[c]] = sent[c]]
    /\ SetAgent(target[c], Instance("idle", Nobody))
    /\ Send(c, Instance("idle", Nobody))
    /\ PoolGoto(c, "registered")
    /\ UNCHANGED <<lock, target, stopping, history, failures>>

\* Variant: release_agent returns without writing the agent.
PersistNotReleased(c) ==
    /\ poolAt[c] \in {"registered", "assigning", "releasing", "draining", "deleting"}
    /\ redis' = IF poolAt[c] = "releasing" THEN redis ELSE [redis EXCEPT ![target[c]] = sent[c]]
    /\ stale' = stale \ {target[c]}
    /\ Unlock(c, IF poolAt[c] = "assigning" THEN "holding" ELSE "idle")
    /\ UNCHANGED <<pool, stopping, disturbed, orphaned, failures>>

\* HSET, or DELETE for an agent that is removed.
Persist(c) ==
    /\ poolAt[c] \in {"registered", "assigning", "releasing", "draining", "deleting"}
    /\ redis' = [redis EXCEPT ![target[c]] = sent[c]]
    /\ stale' = stale \ {target[c]}
    /\ Unlock(c, IF poolAt[c] = "assigning" THEN "holding" ELSE "idle")
    /\ UNCHANGED <<pool, stopping, disturbed, orphaned, failures>>

---------------------------------------------------------------------------
(* record_heartbeat                                                        *)

HeartbeatStart(c, a) ==
    /\ poolAt[c] = "idle"
    /\ a \in Registered
    /\ Aim(c, a) /\ Send(c, pool[a])
    /\ PoolGoto(c, "beating")
    /\ UNCHANGED <<pool, redis, lock, stopping, history, failures>>

HeartbeatLands(c) ==
    /\ poolAt[c] = "beating"
    /\ redis' = [redis EXCEPT ![target[c]] = sent[c]]
    /\ stale' = IF sent[c] = pool[target[c]] THEN stale ELSE stale \cup {target[c]}
    /\ PoolGoto(c, "idle") /\ Aim(c, NoAgent) /\ Send(c, Absent)
    /\ UNCHANGED <<pool, lock, stopping, disturbed, orphaned, failures>>

---------------------------------------------------------------------------
(* stop                                                                    *)

\* stop(): every agent known now is unregistered, one lock at a time.  The
\* process calls it once, so no two of them run together.
Stop(c) ==
    /\ poolAt[c] = "idle"
    /\ \A d \in PoolCallers : poolAt[d] \notin {"stopping", "stop-deleting"}
    /\ stopping' = [stopping EXCEPT ![c] = Registered]
    /\ PoolGoto(c, "stopping")
    /\ UNCHANGED <<pool, redis, lock, target, sent, history, failures>>

StopUnregisters(c) ==
    /\ poolAt[c] = "stopping"
    /\ lock = Nobody
    /\ \E a \in stopping[c] :
         /\ stopping' = [stopping EXCEPT ![c] = @ \ {a}]
         /\ IF a \in Registered
            THEN /\ lock' = c
                 /\ Aim(c, a) /\ SetAgent(a, Absent) /\ Disturb(a)
                 /\ PoolGoto(c, "stop-deleting")
            ELSE UNCHANGED <<lock, target, pool, disturbed, poolAt>>
    /\ UNCHANGED <<redis, sent, orphaned, stale, failures>>

StopDeletes(c) ==
    /\ poolAt[c] = "stop-deleting"
    /\ redis' = [redis EXCEPT ![target[c]] = Absent]
    /\ stale' = stale \ {target[c]}
    /\ Unlock(c, "stopping")
    /\ UNCHANGED <<pool, stopping, disturbed, orphaned, failures>>

StopEnds(c) ==
    /\ poolAt[c] = "stopping"
    /\ stopping[c] = {}
    /\ PoolGoto(c, "idle")
    /\ UNCHANGED <<pool, redis, lock, target, sent, stopping, history, failures>>

---------------------------------------------------------------------------
\* Variant: the lock is taken without `async with`.
CallFailsLocked(c) ==
    /\ poolAt[c] \in LockedStages \cup {"beating"}
    /\ failures < MaxFailures
    /\ failures' = failures + 1
    /\ orphaned' = IF poolAt[c] = "assigning" THEN orphaned \cup {target[c]} ELSE orphaned
    /\ stale' = IF poolAt[c] \in LockedStages THEN stale \cup {target[c]} ELSE stale
    /\ PoolGoto(c, "idle") /\ Aim(c, NoAgent) /\ Send(c, Absent)
    /\ stopping' = [stopping EXCEPT ![c] = {}]
    /\ UNCHANGED <<pool, redis, lock, disturbed>>

\* The Redis command of a caller raises: the lock is released, the change in
\* memory stays, and a heartbeat or a stop() ends.
CallFails(c) ==
    /\ poolAt[c] \in LockedStages \cup {"beating"}
    /\ failures < MaxFailures
    /\ failures' = failures + 1
    /\ lock' = IF lock = c THEN Nobody ELSE lock
    /\ orphaned' = IF poolAt[c] = "assigning" THEN orphaned \cup {target[c]} ELSE orphaned
    /\ stale' = IF poolAt[c] \in LockedStages THEN stale \cup {target[c]} ELSE stale
    /\ PoolGoto(c, "idle") /\ Aim(c, NoAgent) /\ Send(c, Absent)
    /\ stopping' = [stopping EXCEPT ![c] = {}]
    /\ UNCHANGED <<pool, redis, disturbed>>

PoolInit ==
    /\ pool = [a \in Agents |-> Absent]
    /\ redis = [a \in Agents |-> Absent]
    /\ lock = Nobody
    /\ poolAt = [c \in PoolCallers |-> "idle"]
    /\ target = [c \in PoolCallers |-> NoAgent]
    /\ sent = [c \in PoolCallers |-> Absent]
    /\ stopping = [c \in PoolCallers |-> {}]
    /\ disturbed = {} /\ orphaned = {} /\ stale = {}
    /\ failures = 0

Operation(c, a) ==
    \/ Register(c, a) \/ UnregisterBusy(c, a) \/ Unregister(c, a)
    \/ AssignTask(c, a) \/ HeartbeatStart(c, a)

Continue(c) ==
    \/ ReleaseAgent(c) \/ ReleaseUnknown(c)
    \/ PersistInitializing(c) \/ Persist(c) \/ HeartbeatLands(c)
    \/ Stop(c) \/ StopUnregisters(c) \/ StopDeletes(c) \/ StopEnds(c)
    \/ CallFails(c)

PoolNext ==
    \/ \E c \in PoolCallers, a \in Agents : Operation(c, a)
    \/ \E c \in PoolCallers : Continue(c)

PoolSpec == PoolInit /\ [][PoolNext]_poolVars

---------------------------------------------------------------------------
(* Properties                                                              *)

\* Types of all variables, and who holds the lock.
Fields == [state : States, current : PoolCallers \cup {Nobody}]
PoolTypeOK ==
    /\ pool \in [Agents -> Fields]
    /\ redis \in [Agents -> Fields]
    /\ lock \in PoolCallers \cup {Nobody}
    /\ poolAt \in [PoolCallers -> PoolStages]
    /\ target \in [PoolCallers -> Agents \cup {NoAgent}]
    /\ sent \in [PoolCallers -> Fields]
    /\ stopping \in [PoolCallers -> SUBSET Agents]
    /\ disturbed \subseteq Agents /\ orphaned \subseteq Agents /\ stale \subseteq Agents
    /\ failures \in Nat
    /\ \A c \in PoolCallers : poolAt[c] \in LockedStages <=> lock = c

\* An agent works for one task at a time: the pool has it down for every call
\* that was given it and has not released it, so there is only one.  The
\* exception are agents registered again or removed while they worked.
HolderOwns ==
    \A c \in PoolCallers : poolAt[c] = "holding" /\ target[c] \notin disturbed =>
        pool[target[c]].current = c

\* No agent leaks: a busy agent, or one that shuts down after its task, is in
\* the hands of the call it works for, which will release it.  The exception
\* are agents whose assign_task raised after it had marked them.
BusyIsHeld ==
    \A a \in Agents : pool[a].state \in {"busy", "shutting_down"} /\ a \notin orphaned =>
        \E c \in PoolCallers :
            c = pool[a].current /\ target[c] = a /\ poolAt[c] \in {"assigning", "holding"}

\* Redis has every agent as the pool has it whenever no operation is writing,
\* heartbeats on their way or not.  The exception are agents whose last write
\* was lost, or came from a heartbeat that had been overtaken.
RedisFollows == lock = Nobody => \A a \in Agents \ stale : redis[a] = pool[a]

\* ALLOWED_TRANSITIONS: what shuts down can only be terminated.  (A new
\* registration under the same id is a new instance.)
ShutdownIsFinal ==
    [][\A a \in Agents : pool[a].state = "shutting_down" =>
           pool'[a].state \in {"shutting_down", "absent", "initializing"}]_poolVars
=============================================================================
