--------------------------- MODULE Collaboration ---------------------------
(***************************************************************************)
(* AgentOrchestrator.execute_with_routing (agent/core/orchestrator.py):    *)
(* PlanAgent turns the user's message into a list of tasks with the help   *)
(* of a language model, MessageHub orders the tasks by their dependencies  *)
(* and runs them one after the other on the sub-agents of SubAgentPool,    *)
(* and the results are put together.  Several calls share one              *)
(* orchestrator: its busy flag and the hub's store of results.             *)
(*                                                                         *)
(* A task is [id, deps, prio, kind].  The plan is the model's own text, so *)
(* ids may repeat, dependencies may be unknown or circular, and a kind may *)
(* have no sub-agent.  The language model is external: it answers or       *)
(* raises.                                                                 *)
(***************************************************************************)
EXTENDS Integers, Sequences, FiniteSets, SequencesExt, Ordering

CONSTANTS
    Routings,           \* the calls of execute_with_routing
    Intents,            \* the intent types the model may recognise
    Decompositions      \* the task lists the model may answer for a call: [Routings -> SUBSET Seq]

IsTaskList(ts) == ts \in Seq({ts[i] : i \in DOMAIN ts}) /\ \A i \in DOMAIN ts : ts[i].prio \in Int

ASSUME CollabAssumption == \A c \in Routings : \A ts \in Decompositions[c] : IsTaskList(ts)

VARIABLES
    routingEnabled,     \* _routing_enabled: initialize_routing has run
    isExecuting,        \* AgentOrchestrator.is_executing, shared by all calls
    progress,           \* [Routings -> stage of the call]
    tasks,              \* [Routings -> plan.tasks]
    ordered,            \* [Routings -> ordered_tasks not yet run]
    ran,                \* [Routings -> tasks run, in order, with their success]
    taskResults         \* MessageHub._task_results: [id -> the successes stored under it]

collabVars == <<routingEnabled, isExecuting, progress, tasks, ordered, ran, taskResults>>

\* An intent's sub-agent role (PlanAgent.routing_map), and the roles SubAgentPool fills.
RoleOf(kind) ==
    CASE kind = "information_query" -> "research"
      [] kind \in {"code_generation", "code_execution"} -> "code"
      [] kind = "data_analysis" -> "data"
      [] kind = "document_generation" -> "doc"
      [] kind = "multi_step" -> "multi"
      [] OTHER -> "default"
Pool == {"research", "code", "data", "doc"}

\* What the sub-agent of a role can return.  Every execute() turns exceptions into
\* success = False.  The research agent passes get_tool_schemas an argument it does
\* not take, and the data agent asks for the tool "code_executor", which the
\* toolkit that initialize_routing builds does not have: these two always fail.
Outcomes(role) == IF role \in {"code", "doc"} THEN BOOLEAN ELSE {FALSE}

Task(id, kind) == [id |-> id, deps |-> {}, prio |-> 0, kind |-> kind]
Single(kind) == <<Task("task", kind)>>

(***************************************************************************)
(* _order_tasks_by_dependencies works on the positions of the list: out    *)
(* are those ordered so far, rest the others.  In waves: a wave takes      *)
(* every remaining task whose dependencies are in earlier waves, highest   *)
(* priority first (a stable sort); when there is none, the rest follows    *)
(* as it stands.  At most 2 * Len(ts) waves.                               *)
(***************************************************************************)
Before(K, rank) == {p \in K \X K :
                       rank[p[1]] > rank[p[2]] \/ (rank[p[1]] = rank[p[2]] /\ p[1] < p[2])}
Sorted(K, rank) == Enumerated(Before(K, rank), K)

\* A variant of ByPriority: the lowest priority first.
UrgentLast(ts, K) == Sorted(K, [i \in K |-> -ts[i].prio])
ByPriority(ts, K) == Sorted(K, [i \in K |-> ts[i].prio])
AsItStands(K) == Sorted(K, [i \in K |-> 0])

Ready(ts, s) == {i \in s.rest : ts[i].deps \subseteq {ts[s.out[n]].id : n \in DOMAIN s.out}}

\* A variant of Wave that forgets the tasks which wait for each other.
WaveForgets(ts, s) ==
    LET ready == Ready(ts, s)
    IN  IF ready = {} THEN [out |-> s.out, rest |-> {}]
        ELSE [out |-> s.out \o ByPriority(ts, ready), rest |-> s.rest \ ready]

Wave(ts, s) ==
    LET ready == Ready(ts, s)
    IN  IF ready = {} THEN [out |-> s.out \o AsItStands(s.rest), rest |-> {}]
        ELSE [out |-> s.out \o ByPriority(ts, ready), rest |-> s.rest \ ready]

NothingOrdered(ts) == [out |-> <<>>, rest |-> DOMAIN ts]

Waves(ts) ==
    LET after[n \in 0 .. 2 * Len(ts)] ==
            IF n = 0 THEN NothingOrdered(ts) ELSE Wave(ts, after[n - 1])
    IN  after

OrderTasks(ts) ==
    LET order == Waves(ts)[2 * Len(ts)].out
    IN  [n \in DOMAIN order |-> ts[order[n]]]

-----------------------------------------------------------------------------
CollabInit ==
    /\ routingEnabled = FALSE
    /\ isExecuting = FALSE
    /\ progress = [c \in Routings |-> "idle"]
    /\ tasks = [c \in Routings |-> <<>>]
    /\ ordered = [c \in Routings |-> <<>>]
    /\ ran = [c \in Routings |-> <<>>]
    /\ taskResults = [id \in {} |-> <<>>]

\* initialize_routing builds the plan agent, the hub and the pool.
InitializeRouting ==
    /\ ~routingEnabled
    /\ routingEnabled' = TRUE
    /\ UNCHANGED <<isExecuting, progress, tasks, ordered, ran, taskResults>>

\* A call before that is refused at once; later calls raise the busy flag.
RoutingBegins(c) ==
    /\ progress[c] = "idle"
    /\ IF routingEnabled
       THEN isExecuting' = TRUE /\ progress' = [progress EXCEPT ![c] = "config"]
       ELSE progress' = [progress EXCEPT ![c] = "failed"] /\ UNCHANGED isExecuting
    /\ UNCHANGED <<routingEnabled, tasks, ordered, ran, taskResults>>

\* The end of every call that began, in its finally clause.
Ends(c, how) ==
    /\ isExecuting' = FALSE
    /\ progress' = [progress EXCEPT ![c] = how]

\* Loading the configuration, reading the memory or asking the model raises.
RoutingRaises(c) ==
    /\ progress[c] \in {"config", "memory", "intent", "decompose"}
    /\ Ends(c, "failed")
    /\ UNCHANGED <<routingEnabled, tasks, ordered, ran, taskResults>>

\* _load_agent_config and get_context_for_plan_agent return.
Prepares(c) ==
    /\ progress[c] \in {"config", "memory"}
    /\ progress' = [progress EXCEPT ![c] = IF @ = "config" THEN "memory" ELSE "intent"]
    /\ UNCHANGED <<routingEnabled, isExecuting, tasks, ordered, ran, taskResults>>

\* The plan is made: dispatch_plan orders it before it runs the first task.
Planned(c, ts) ==
    /\ tasks' = [tasks EXCEPT ![c] = ts]
    /\ ordered' = [ordered EXCEPT ![c] = OrderTasks(ts)]
    /\ progress' = [progress EXCEPT ![c] = "dispatch"]

\* What an answer parses to: one that does not parse counts as conversation.
ParsedIntents == Intents \cup {"conversation"}

\* recognize_intent: a multi-step intent is decomposed, any other is a plan of one task.
IntentRecognised(c) ==
    /\ progress[c] = "intent"
    /\ \E kind \in ParsedIntents :
          IF kind = "multi_step"
          THEN /\ progress' = [progress EXCEPT ![c] = "decompose"]
               /\ UNCHANGED <<tasks, ordered>>
          ELSE Planned(c, Single(kind))
    /\ UNCHANGED <<routingEnabled, isExecuting, ran, taskResults>>

\* What an answer parses to: one that does not parse is one multi-step task.
ParsedPlans(c) == Decompositions[c] \cup {Single("multi_step")}

\* decompose_task.
Decomposed(c) ==
    /\ progress[c] = "decompose"
    /\ \E ts \in ParsedPlans(c) : Planned(c, ts)
    /\ UNCHANGED <<routingEnabled, isExecuting, ran, taskResults>>

\* assignments maps ids to roles: of tasks with one id, the last one's role counts.
Assigned(c, id) ==
    LET last == CHOOSE i \in DOMAIN tasks[c] :
                    /\ tasks[c][i].id = id
                    /\ \A j \in DOMAIN tasks[c] : tasks[c][j].id = id => j <= i
    IN  RoleOf(tasks[c][last].kind)

\* The next task has a sub-agent, which returns a result.
TaskRuns(c) ==
    /\ progress[c] = "dispatch" /\ ordered[c] # <<>>
    /\ LET t == Head(ordered[c])
       IN  /\ Assigned(c, t.id) \in Pool
           /\ \E ok \in Outcomes(Assigned(c, t.id)) :
                 /\ ran' = [ran EXCEPT ![c] = Append(@, [task |-> t, success |-> ok])]
                 /\ taskResults' =
                        [id \in DOMAIN taskResults \cup {t.id} |->
                            (IF id \in DOMAIN taskResults THEN taskResults[id] ELSE <<>>)
                                \o (IF id = t.id THEN <<ok>> ELSE <<>>)]
    /\ ordered' = [ordered EXCEPT ![c] = Tail(@)]
    /\ UNCHANGED <<routingEnabled, isExecuting, progress, tasks>>

\* execute_task raises when no sub-agent has the role: the call fails, and what ran
\* before stays in the hub.
RoleMissing(c) ==
    /\ progress[c] = "dispatch" /\ ordered[c] # <<>>
    /\ Assigned(c, Head(ordered[c]).id) \notin Pool
    /\ Ends(c, "failed")
    /\ UNCHANGED <<routingEnabled, tasks, ordered, ran, taskResults>>

\* _build_routing_result.
RoutingAnswers(c) ==
    /\ progress[c] = "dispatch" /\ ordered[c] = <<>>
    /\ Ends(c, "answered")
    /\ UNCHANGED <<routingEnabled, tasks, ordered, ran, taskResults>>

Works(c) ==
    \/ RoutingBegins(c) \/ RoutingRaises(c) \/ Prepares(c) \/ IntentRecognised(c)
    \/ Decomposed(c) \/ TaskRuns(c) \/ RoleMissing(c) \/ RoutingAnswers(c)

CollabNext == InitializeRouting \/ \E c \in Routings : Works(c)

\* A call that began goes on as long as the model answers or raises.
CollabFairness == \A c \in Routings : WF_collabVars(progress[c] # "idle" /\ Works(c))

CollabSpec == CollabInit /\ [][CollabNext]_collabVars /\ CollabFairness

-----------------------------------------------------------------------------
RoutingStages == {"idle", "config", "memory", "intent", "decompose", "dispatch", "answered", "failed"}
Underway(c) == progress[c] \notin {"idle", "answered", "failed"}

CollabTypeOK ==
    /\ routingEnabled \in BOOLEAN /\ isExecuting \in BOOLEAN
    /\ progress \in [Routings -> RoutingStages]
    /\ \A c \in Routings : Len(ran[c]) + Len(ordered[c]) = Len(tasks[c])
    /\ \A id \in DOMAIN taskResults : \A i \in DOMAIN taskResults[id] : taskResults[id][i] \in BOOLEAN

\* The tasks of a plan that can never be ready: the largest set of positions each of
\* which depends on an id that only positions of the set, or none at all, have.
BlockedSet(ts, B) ==
    \A i \in B : \E d \in ts[i].deps : {j \in DOMAIN ts : ts[j].id = d} \subseteq B
Blocked(ts) == UNION {B \in SUBSET DOMAIN ts : BlockedSet(ts, B)}
IsBlocked(ts, t) == \E i \in Blocked(ts) : ts[i] = t

RanIds(c, n) == {ran[c][i].task.id : i \in 1 .. n}

(***************************************************************************)
(* dispatch_plan "executes tasks sequentially respecting dependencies"     *)
(* (message_hub.py): whatever list the model wrote, a task that can be     *)
(* ready at all runs after a task of every id it depends on; blocked tasks *)
(* come last; of two tasks that wait for the same, the more urgent runs    *)
(* first; and an answered call has run every task of its plan once.        *)
(***************************************************************************)
PlanCarriedOut(c) ==
    /\ \A i \in DOMAIN ran[c] :
          IsBlocked(tasks[c], ran[c][i].task)
             \/ ran[c][i].task.deps \subseteq RanIds(c, i - 1)
    /\ \A i, j \in DOMAIN ran[c] :
          LET a == ran[c][i].task
              b == ran[c][j].task
          IN  i < j => /\ IsBlocked(tasks[c], a) => IsBlocked(tasks[c], b)
                       /\ a.deps = b.deps /\ ~IsBlocked(tasks[c], a) => a.prio >= b.prio
    /\ progress[c] = "answered" =>
          \A i \in DOMAIN tasks[c] :
             Cardinality({j \in DOMAIN ran[c] : ran[c][j].task = tasks[c][i]})
                = Cardinality({j \in DOMAIN tasks[c] : tasks[c][j] = tasks[c][i]})
PlansCarriedOut == \A c \in Routings : PlanCarriedOut(c)

\* Several calls share the busy flag and every end lowers it, so it may be down
\* while a call still runs; but it never stays up when none does
\* (orchestrator.py, the finally clause of execute_with_routing).
FlagDownAtRest == isExecuting => \E c \in Routings : Underway(c)

\* Every call that began is answered or fails, however many waves the ordering has.
RoutingsEnd == \A c \in Routings : Underway(c) ~> ~Underway(c)
=============================================================================
