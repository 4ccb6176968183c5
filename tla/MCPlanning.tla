----------------------------- MODULE MCPlanning -----------------------------
(***************************************************************************)
(* Bounds for LLMClient, Collaboration and AgentMail, and one run for all. *)
(* They share no state: focus, chosen at the start, says which of them a   *)
(* behaviour is of, and the others rest.                                   *)
(***************************************************************************)
EXTENDS LLMClient, Collaboration, AgentMail

CONSTANTS k1

VARIABLE focus

\* Two requests with the same first prompts.
SameKey == [r \in Requests |-> k1]

\* What the model may make of a multi-step message in the first call: every graph on three tasks
\* that depend on one another, the last of them urgent or not, and plans of two tasks whose ids may
\* repeat, which may depend on themselves or on a task that is not there.
ThreeIds == <<"t1", "t2", "t3">>
Graphs3 == {deps \in [1 .. 3 -> SUBSET {"t1", "t2", "t3"}] : \A i \in 1 .. 3 : ThreeIds[i] \notin deps[i]}
ThreeTasks ==
    {[i \in 1 .. 3 |-> [id |-> ThreeIds[i], deps |-> deps[i],
                        prio |-> IF i = urgent THEN 1 ELSE 0, kind |-> "data_analysis"]] :
       deps \in Graphs3, urgent \in {0, 3}}
TwoTasks ==
    [1 .. 2 -> [id : {"t1", "t2"}, deps : SUBSET {"t1"}, prio : {0},
                kind : {"document_generation", "conversation"}]]
SmallPlans == [c \in Routings |-> IF c = "c1" THEN ThreeTasks \cup TwoTasks ELSE {}]

\* Two agents share a role: a task for it and one for another role, a request, a broadcast.
SmallKinds ==
    [p \in Posts |-> IF p \in {"p1", "p2"} THEN "task" ELSE IF p = "p3" THEN "request" ELSE "broadcast"]
SmallTo == [p \in Posts |-> IF p = "p2" THEN "doc" ELSE "code"]
SmallReaders == [r \in Readers |-> "code"]

PlanningInit == LLMInit /\ CollabInit /\ MailInit /\ focus \in {"chats", "plans", "mail"}

PlanningNext ==
    \/ focus = "chats" /\ LLMNext /\ UNCHANGED <<collabVars, mailVars, focus>>
    \/ focus = "plans" /\ CollabNext /\ UNCHANGED <<llmVars, mailVars, focus>>
    \/ focus = "mail" /\ MailNext /\ UNCHANGED <<llmVars, collabVars, focus>>

\* A component at rest has no step that its fairness asks for.
PlanningSpec ==
    /\ PlanningInit /\ [][PlanningNext]_<<llmVars, collabVars, mailVars, focus>>
    /\ LLMFairness /\ CollabFairness

\* The variables of all have their types.
PlanningTypesOK == LLMTypeOK /\ CollabTypeOK /\ MailTypeOK

\* Plans are carried out in an order their dependencies allow (message_hub.py:292 to 334), the busy
\* flag does not stay up (orchestrator.py:132 to 137), and the hub's queues lose and repeat nothing.
HubKept == PlansCarriedOut /\ FlagDownAtRest /\ MailKept

\* Every chat ends with an answer or an error, however often the provider fails and whatever the
\* cache does; every routing that began is answered or fails.
CallsEnd == ChatsEnd /\ RoutingsEnd
=============================================================================
