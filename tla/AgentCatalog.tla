---------------------------- MODULE AgentCatalog ----------------------------
(***************************************************************************)
(* The rows of the table agents (models/agent.py), the endpoints that      *)
(* change them (gateway/api/v1/agents.py over services/agent_service.py),  *)
(* and the cache of agent configurations in front of the table             *)
(* (agent/cache/agent_config_cache.py).                                    *)
(*                                                                         *)
(* A request has one database session, committed when the endpoint         *)
(* returns: what it writes is visible in one step.  What it read before    *)
(* may have changed by then; only delete_agent decides something on what   *)
(* it read, and has two steps.  The code of an agent is unique: a request  *)
(* that would break that is refused by an index, and changes nothing.      *)
(***************************************************************************)
EXTENDS Integers

CONSTANTS
    Agents,         \* agent ids
    Seeded,         \* the agents there are at the start; calls ask for these
    Deletes,        \* requests to delete an agent
    NewStatuses,    \* the values of status in requests to update an agent
    ConfigTTL,      \* settings.AGENT_CACHE_TTL
    MaxEdits,       \* bound: changes of rows
    MaxAgentTime    \* bound: the clock stops here

ASSUME CatalogAssumption ==
    /\ Seeded \subseteq Agents
    /\ NewStatuses \subseteq {"draft", "active", "paused", "deprecated"}
    /\ ConfigTTL \in Nat /\ MaxEdits \in Nat /\ MaxAgentTime \in Nat

NoAgent == "no-agent"

VARIABLES
    agents,         \* the table agents
    deleting,       \* the agent whose status a request to delete has checked, or NoAgent
    edits,          \* changes so far: a new configuration gets this number
    configs,        \* the cache: a copy of a row and its expiry
    agentNow,       \* utcnow()
    changedAt       \* history: when the row of an agent last changed

rowVars == <<agents, deleting, edits, changedAt>>
catalogVars == <<rowVars, configs, agentNow>>

AgentStatus == {"draft", "active", "paused", "deprecated"}

\* config stands for identity, capabilities and knowledge: to_dict returns them and the status.
Agent == [status : AgentStatus, config : Nat]
Absent == [status |-> "absent", config |-> 0]
NoEntry == [row |-> Absent, expires |-> 0]

CatalogInit ==
    /\ agents = [a \in Agents |-> IF a \in Seeded THEN [status |-> "draft", config |-> 0] ELSE Absent]
    /\ deleting = [d \in Deletes |-> NoAgent]
    /\ edits = 0
    /\ configs = [a \in Agents |-> NoEntry]
    /\ agentNow = 0
    /\ changedAt = [a \in Agents |-> 0]

---------------------------------------------------------------------------
(* The endpoints                                                           *)

\* A request commits a new row, or the end of one.
Commit(a, row) ==
    /\ edits < MaxEdits
    /\ edits' = edits + 1
    /\ agents' = [agents EXCEPT ![a] = row]
    /\ changedAt' = [changedAt EXCEPT ![a] = agentNow]
    /\ UNCHANGED <<configs, agentNow>>

\* Answered 404 if there is no such row; otherwise some of its columns get new values.
Rewrite(a, statuses, config) ==
    /\ agents[a] # Absent
    /\ \E s \in statuses : Commit(a, [status |-> s, config |-> config])
    /\ UNCHANGED deleting

CreateAgent(a) ==
    /\ agents[a] = Absent
    /\ Commit(a, [status |-> "draft", config |-> edits + 1])
    /\ UNCHANGED deleting

\* Any field may be in the request, the status too.
UpdateAgent(a) == Rewrite(a, NewStatuses \cup {agents[a].status}, edits + 1)

ActivateAgent(a) == Rewrite(a, {"active"}, agents[a].config)
PauseAgent(a) == Rewrite(a, {"paused"}, agents[a].config)
UpdateCapabilities(a) == Rewrite(a, {agents[a].status}, edits + 1)
UpdateKnowledge(a) == Rewrite(a, {agents[a].status}, edits + 1)

\* A copy is a draft with the configuration of the original and a new id.
DuplicateAgent(a, b) ==
    /\ agents[a] # Absent /\ agents[b] = Absent
    /\ Commit(b, [status |-> "draft", config |-> agents[a].config])
    /\ UNCHANGED deleting

\* delete_agent reads the status, and then deletes by id whatever is there by then.
DeleteChecks(d, a) ==
    /\ deleting[d] = NoAgent
    /\ agents[a].status = "draft"
    /\ deleting' = [deleting EXCEPT ![d] = a]
    /\ UNCHANGED <<agents, edits, changedAt, configs, agentNow>>

DeleteEnds(d) ==
    LET a == deleting[d] IN
    /\ a # NoAgent
    /\ deleting' = [deleting EXCEPT ![d] = NoAgent]
    /\ IF agents[a] # Absent
       THEN Commit(a, Absent)
       ELSE UNCHANGED <<agents, edits, changedAt, configs, agentNow>>

AgentTick ==
    /\ agentNow < MaxAgentTime
    /\ agentNow' = agentNow + 1
    /\ UNCHANGED <<rowVars, configs>>

CatalogStep ==
    \/ \E a \in Agents :
         \/ CreateAgent(a) \/ UpdateAgent(a) \/ ActivateAgent(a) \/ PauseAgent(a)
         \/ UpdateCapabilities(a) \/ UpdateKnowledge(a)
         \/ \E b \in Agents : DuplicateAgent(a, b)
         \/ \E d \in Deletes : DeleteChecks(d, a)
    \/ \E d \in Deletes : DeleteEnds(d)
    \/ AgentTick

---------------------------------------------------------------------------
(* The cache.  Nothing in src/ removes an entry when its row changes.      *)

\* get_config: an entry that has not expired.
ConfigCached(a) == configs[a] # NoEntry /\ configs[a].expires > agentNow

\* get_config found the entry expired: it is deleted by the agent's id.
ConfigPurged(a) == configs' = [configs EXCEPT ![a] = NoEntry]

\* set_config lands, or swallows an error (a row inserted or deleted since its SELECT).
ConfigStored(a, row, due) ==
    configs' \in {configs, [configs EXCEPT ![a] = [row |-> row, expires |-> due]]}

CatalogTypeOK ==
    /\ agents \in [Agents -> Agent \cup {Absent}]
    /\ deleting \in [Deletes -> Agents \cup {NoAgent}]
    /\ edits \in Nat
    /\ configs \in [Agents -> [row : Agent \cup {Absent}, expires : Nat]]
    /\ agentNow \in Nat
    /\ changedAt \in [Agents -> Nat]
=============================================================================
