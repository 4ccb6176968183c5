--------------------------- MODULE RequestRouter ---------------------------
(***************************************************************************)
(* RequestRouter (gateway/websocket/router.py) over the lane manager of    *)
(* one session: route_request, on_task_completed and cancel_task, with     *)
(* the task hashes, the tenant's active_tasks counter and the agent queue  *)
(* they keep in Redis.                                                     *)
(*                                                                         *)
(* Every await on Redis is a point where other calls run, so a call is a   *)
(* sequence of steps and pc says which one comes next.  The client that    *)
(* gateway/main.py:329-333 builds decodes responses: hashes have str keys  *)
(* and str values, and the router's .decode() on what HGET returns raises. *)
(* The agents that consume agent:task_queue are outside src/: they may     *)
(* report a pushed task any time after the push, normally once.            *)
(***************************************************************************)
EXTENDS LaneManager

CONSTANTS
    MaxTenantTasks,     \* tenant:{id}:max_tasks; a tenant without the key has no limit
    FaultKinds,         \* the faults a run considers, see AllFaults
    MaxFaults           \* bound: faults in one behaviour

\* crash: the gateway process dies and starts again.  failure: a Redis command
\* raises.  expiry: the one-hour TTL of a task hash runs out.  lapse: the 24-hour
\* TTL of the lanes does.  redelivery: an agent reports a completion once more.
\* cancel: a client calls cancel_task.
AllFaults == {"crash", "failure", "expiry", "lapse", "redelivery", "cancel"}

ASSUME RouterAssumption ==
    /\ MaxTenantTasks \in Nat \ {0}
    /\ FaultKinds \subseteq AllFaults
    /\ MaxFaults \in Nat
    /\ NoTask \notin Tasks

VARIABLES
    pc,         \* the next step of each call, or how it ended
    laneOf,     \* AgentTask.lane_id (0 is None)
    next,       \* what release_lane last returned to the completion of a task
    hash,       \* the status and the tenant of task:{id}
    active,     \* tenant:{id}:active_tasks
    pushed,     \* the tasks LPUSHed to agent:task_queue:{tenant}
    reports,    \* completion callbacks made for a task
    handed,     \* history: times release_lane returned a task
    arrivals,   \* history: tasks in the order enqueue_task took them
    faults      \* faults so far

taskVars == <<active, pushed, reports, handed, arrivals>>
routerVars == <<pc, laneOf, next, hash, taskVars, faults>>
vars == <<laneVars, routerVars>>

HashStatus == {"dispatched", "queued", "completed", "failed", "cancelled"}
\* tenant is false in a hash that a status update created: before _persist_task
\* wrote the other fields, or after the hash expired.
TaskHash == [status : HashStatus \cup {"absent"}, tenant : BOOLEAN]
AbsentHash == [status |-> "absent", tenant |-> FALSE]

Replies == {"dispatched", "queued", "rejected", "refused", "dead"}
SavingStages == {"save-acquire", "save-queue", "save-release"}
Stages == {"idle", "manager", "acquire", "enqueue", "record-queued", "incr", "push", "record",
           "release", "status", "tenant", "next"} \cup SavingStages \cup Replies

Route(t) == <<"route", t>>
Complete(t) == <<"complete", t>>
Cancel(t) == <<"cancel", t>>

Goto(c, stage) == pc' = [pc EXCEPT ![c] = stage]
Fault(kind) == kind \in FaultKinds /\ faults < MaxFaults /\ faults' = faults + 1

---------------------------------------------------------------------------
(* route_request                                                           *)

\* _validate_session finds a session or not; _check_quota compares a counter
\* that nothing holds still until the INCR of the dispatch.
RouteRequest(t) ==
    /\ pc[Route(t)] = "idle"
    /\ \/ Goto(Route(t), "refused")
       \/ active < MaxTenantTasks /\ Goto(Route(t), "manager")
    /\ UNCHANGED <<laneVars, laneOf, next, hash, taskVars, faults>>

RouteManager(t) ==
    /\ pc[Route(t)] = "manager"
    /\ GetManager
    /\ Goto(Route(t), "acquire")
    /\ UNCHANGED <<laneOf, next, hash, taskVars, faults>>

\* Variant: the task is dispatched without saving the lane first.
RouteAcquiresUnsaved(t) ==
    /\ pc[Route(t)] = "acquire"
    /\ \E l \in Lanes :
         /\ lock = NoCall /\ FirstIdle(l)
         /\ SetLane(l, "busy", lanes[l].current, lanes[l].queue)
         /\ laneOf' = [laneOf EXCEPT ![t] = l]
    /\ Goto(Route(t), "incr")
    /\ UNCHANGED <<lock, saved, loaded, prio, lapseVars, next, hash, taskVars, faults>>

RouteAcquires(t) ==
    /\ pc[Route(t)] = "acquire"
    /\ \E l \in Lanes : AcquireLane(Route(t), l) /\ laneOf' = [laneOf EXCEPT ![t] = l]
    /\ Goto(Route(t), "save-acquire")
    /\ UNCHANGED <<saved, loaded, prio, lapseVars, next, hash, taskVars, faults>>

RouteFindsNoLane(t) ==
    /\ pc[Route(t)] = "acquire"
    /\ lock = NoCall
    /\ NoIdleLane
    /\ Goto(Route(t), "enqueue")
    /\ UNCHANGED <<laneVars, laneOf, next, hash, taskVars, faults>>

\* The lane state is read again here: it may have changed since acquire_lane.
RouteEnqueues(t) ==
    /\ pc[Route(t)] = "enqueue"
    /\ \E l \in Lanes : EnqueueTask(Route(t), t, l) /\ laneOf' = [laneOf EXCEPT ![t] = l]
    /\ arrivals' = Append(arrivals, t)
    /\ Goto(Route(t), "save-queue")
    /\ UNCHANGED <<saved, loaded, prio, lapseVars, next, hash, active, pushed, reports, handed, faults>>

RouteRejected(t) ==
    /\ pc[Route(t)] = "enqueue"
    /\ lock = NoCall
    /\ \A l \in Lanes : QueueFull(l)
    /\ Goto(Route(t), "rejected")
    /\ UNCHANGED <<laneVars, laneOf, next, hash, taskVars, faults>>

\* The call ends with a reply, or the last Redis command of it raises.
Answers(t, reply) ==
    \/ Goto(Route(t), reply) /\ UNCHANGED faults
    \/ Goto(Route(t), "dead") /\ Fault("failure")

\* _persist_task of a queued task, after the lane lock was released.
RouteRecordsQueued(t) ==
    /\ pc[Route(t)] = "record-queued"
    /\ hash' = [hash EXCEPT ![t] = [status |-> "queued", tenant |-> TRUE]]
    /\ Answers(t, "queued")
    /\ UNCHANGED <<laneVars, laneOf, next, taskVars>>

\* _dispatch_to_agent: INCR, LPUSH, then _persist_task and PUBLISH.
DispatchIncr(t) ==
    /\ pc[Route(t)] = "incr"
    /\ active' = active + 1
    /\ Goto(Route(t), "push")
    /\ UNCHANGED <<laneVars, laneOf, next, hash, pushed, reports, handed, arrivals, faults>>

DispatchPush(t) ==
    /\ pc[Route(t)] = "push"
    /\ pushed' = pushed \cup {t}
    /\ Goto(Route(t), "record")
    /\ UNCHANGED <<laneVars, laneOf, next, hash, active, reports, handed, arrivals, faults>>

\* _persist_task writes every field: also over what a fast agent reported.
DispatchRecord(t) ==
    /\ pc[Route(t)] = "record"
    /\ hash' = [hash EXCEPT ![t] = [status |-> "dispatched", tenant |-> TRUE]]
    /\ Answers(t, "dispatched")
    /\ UNCHANGED <<laneVars, laneOf, next, taskVars>>

---------------------------------------------------------------------------
(* Steps that several calls share                                          *)

\* What a call does once the lane it changed is saved and the lock released.
AfterSave(stage) ==
    CASE stage = "save-acquire" -> "incr"
      [] stage = "save-queue" -> "record-queued"
      [] stage = "save-release" -> "status"

\* The end of acquire_lane, enqueue_task or release_lane, which returns next.
\* An EXPIRE that raises after the HSET is this step and then CallFails.
SaveLane(c) ==
    /\ pc[c] \in SavingStages
    /\ PersistLane(c, laneOf[c[2]])
    /\ Goto(c, AfterSave(pc[c]))
    /\ handed' = IF pc[c] = "save-release" /\ next[c[2]] # NoTask
                 THEN [handed EXCEPT ![next[c[2]]] = @ + 1] ELSE handed
    /\ UNCHANGED <<laneOf, next, hash, active, pushed, reports, arrivals, faults>>

\* The HSETs of _update_task_status create the hash when there is none.
UpdateStatus(c, status) ==
    /\ pc[c] = "status"
    /\ hash' = [hash EXCEPT ![c[2]].status = status]
    /\ Goto(c, "tenant")
    /\ UNCHANGED <<laneVars, laneOf, next, taskVars, faults>>

\* HGET tenant_id: a tenant that is there is a str, its .decode() raises before
\* the DECR and ends the call.  Without one a completion looks at what it was handed.
UpdateTenant(c) ==
    /\ pc[c] = "tenant"
    /\ Goto(c, IF ~hash[c[2]].tenant /\ c[1] = "complete" /\ next[c[2]] # NoTask
               THEN "next" ELSE "idle")
    /\ UNCHANGED <<laneVars, laneOf, next, hash, taskVars, faults>>

---------------------------------------------------------------------------
(* on_task_completed                                                       *)

Report(t) ==
    /\ pc[Complete(t)] = "idle"
    /\ reports' = [reports EXCEPT ![t] = @ + 1]
    /\ Goto(Complete(t), "manager")
    /\ UNCHANGED <<laneVars, laneOf, next, hash, active, pushed, handed, arrivals>>

\* An agent that took the task off agent:task_queue is done with it.
AgentReports(t) == t \in pushed /\ reports[t] = 0 /\ Report(t) /\ UNCHANGED faults

\* The same completion again: an agent that retries the callback.
AgentReportsAgain(t) == reports[t] > 0 /\ Report(t) /\ Fault("redelivery")

CompleteManager(t) ==
    /\ pc[Complete(t)] = "manager"
    /\ GetManager
    /\ Goto(Complete(t), "release")
    /\ UNCHANGED <<laneOf, next, hash, taskVars, faults>>

CompleteHandsOver(t) ==
    /\ pc[Complete(t)] = "release"
    /\ \E u \in Tasks : HandOverLane(Complete(t), u, laneOf[t]) /\ next' = [next EXCEPT ![t] = u]
    /\ Goto(Complete(t), "save-release")
    /\ UNCHANGED <<saved, loaded, prio, lapseVars, laneOf, hash, taskVars, faults>>

CompleteFrees(t) ==
    /\ pc[Complete(t)] = "release"
    /\ FreeLane(Complete(t), laneOf[t])
    /\ next' = [next EXCEPT ![t] = NoTask]
    /\ Goto(Complete(t), "save-release")
    /\ UNCHANGED <<saved, loaded, prio, lapseVars, laneOf, hash, taskVars, faults>>

CompleteStatus(t) == \E status \in {"completed", "failed"} : UpdateStatus(Complete(t), status)

\* _get_task of the task handed over: None without a hash; with one, AgentTask is
\* called without its required app_id and raises.  Nothing is dispatched either way.
CompleteNext(t) ==
    /\ pc[Complete(t)] = "next"
    /\ Goto(Complete(t), "idle")
    /\ UNCHANGED <<laneVars, laneOf, next, hash, taskVars, faults>>

---------------------------------------------------------------------------
(* cancel_task, expiry, failing Redis commands, the death of the process   *)

\* Only an absent hash ends the call: the status is read under the key b"status",
\* which a hash with str keys does not have, and is "" whatever the task is.
CancelTask(t) ==
    /\ pc[Cancel(t)] = "idle"
    /\ hash[t].status # "absent"
    /\ Fault("cancel")
    /\ Goto(Cancel(t), "status")
    /\ UNCHANGED <<laneVars, laneOf, next, hash, taskVars>>

\* Variant: a status that no reader knows.
CancelStatusMisspelt(t) == UpdateStatus(Cancel(t), "canceled")

CancelStatus(t) == UpdateStatus(Cancel(t), "cancelled")

TaskHashExpires(t) ==
    /\ hash[t].status # "absent"
    /\ Fault("expiry")
    /\ hash' = [hash EXCEPT ![t] = AbsentHash]
    /\ UNCHANGED <<laneVars, pc, laneOf, next, taskVars>>

LanesExpire ==
    /\ \E l \in Lanes : saved[l] # FreshLane
    /\ Fault("lapse")
    /\ LanesLapse
    /\ UNCHANGED <<pc, laneOf, next, hash, taskVars>>

\* Where an exception, or the death of the process, leaves a call.
Aborted(c) ==
    IF pc[c] \in {"idle"} \cup Replies THEN pc[c]
    ELSE IF c[1] = "route" THEN "dead" ELSE "idle"

\* The Redis command a call awaits raises, and nobody catches it.
CallFails(c) ==
    /\ pc[c] \notin {"idle", "acquire", "enqueue", "release"} \cup Replies
    /\ Fault("failure")
    /\ Goto(c, Aborted(c))
    /\ PersistFails(c, laneOf[c[2]])
    /\ UNCHANGED <<laneOf, next, hash, taskVars>>

Crash ==
    /\ Fault("crash")
    /\ LoseMemory
    /\ pc' = [c \in Calls |-> Aborted(c)]
    /\ UNCHANGED <<laneOf, next, hash, taskVars>>

---------------------------------------------------------------------------
Init ==
    /\ LaneInit
    /\ pc = [c \in Calls |-> "idle"]
    /\ laneOf = [t \in Tasks |-> 0]
    /\ next = [t \in Tasks |-> NoTask]
    /\ hash = [t \in Tasks |-> AbsentHash]
    /\ active = 0
    /\ pushed = {}
    /\ reports = [t \in Tasks |-> 0]
    /\ handed = [t \in Tasks |-> 0]
    /\ arrivals = <<>>
    /\ faults = 0

RouteStep(t) ==
    \/ RouteManager(t)
    \/ RouteAcquires(t)
    \/ RouteFindsNoLane(t)
    \/ RouteEnqueues(t)
    \/ RouteRejected(t)
    \/ RouteRecordsQueued(t)
    \/ DispatchIncr(t)
    \/ DispatchPush(t)
    \/ DispatchRecord(t)

CompleteStep(t) ==
    \/ CompleteManager(t)
    \/ CompleteHandsOver(t)
    \/ CompleteFrees(t)
    \/ CompleteStatus(t)
    \/ CompleteNext(t)

SharedStep(c) == SaveLane(c) \/ UpdateTenant(c)

Next ==
    \/ \E t \in Tasks : RouteRequest(t) \/ RouteStep(t) \/ CompleteStep(t) \/ CancelStatus(t)
    \/ \E c \in Calls : SharedStep(c)
    \/ \E t \in Tasks : AgentReports(t) \/ AgentReportsAgain(t)
    \/ \E t \in Tasks : CancelTask(t) \/ TaskHashExpires(t)
    \/ \E c \in Calls : CallFails(c)
    \/ LanesExpire
    \/ Crash

Spec == Init /\ [][Next]_vars

\* The event loop does not stop while some call can proceed, and agents report
\* what they took.  Nothing obliges a client to send or cancel a request.
Progress ==
    \/ \E t \in Tasks : RouteStep(t) \/ CompleteStep(t) \/ CancelStatus(t) \/ AgentReports(t)
    \/ \E c \in Calls : SharedStep(c)

FairSpec == Spec /\ WF_vars(Progress)

---------------------------------------------------------------------------
(* Properties                                                              *)

\* Types of the router's variables and of the lanes.
TypeOK ==
    /\ LaneTypeOK
    /\ pc \in [Calls -> Stages]
    /\ laneOf \in [Tasks -> Lanes \cup {0}]
    /\ next \in [Tasks -> Tasks \cup {NoTask}]
    /\ hash \in [Tasks -> TaskHash]
    /\ active \in Nat
    /\ pushed \subseteq Tasks
    /\ reports \in [Tasks -> Nat]
    /\ handed \in [Tasks -> Nat]
    /\ arrivals \in Seq(Tasks)
    /\ faults \in Nat

\* Agents hold t: it was pushed and its completion has not yet released the lane.
Executing(t) ==
    /\ t \in pushed
    /\ reports[t] = 0 \/ pc[Complete(t)] \in {"manager", "release"}

\* The tasks of one lane run strictly one after another (class docstring of
\* LaneManager), across crashes and failing writes.  Two things void it, and only
\* these: a completion reported twice, which a run excludes by FaultKinds, and a
\* record of the lane that expired while its task ran and was then loaded.
LaneSerial ==
    \A t, u \in Tasks :
        Executing(t) /\ Executing(u) /\ laneOf[t] = laneOf[u] /\ laneOf[t] \notin misled => t = u

\* A lane whose task is with an agent is saved as busy, so that a restart never
\* gives the lane to someone else: the save precedes the dispatch.  It lasts as
\* long as the record does: a task that runs for 24 hours without another write
\* of the session's lanes loses it.
SavedLaneBusy ==
    \A t \in Tasks : Executing(t) /\ laneOf[t] \notin lapsed \cup misled
                       => saved[laneOf[t]].status = "busy"

\* What a restart would load is what the process has: every waiting task of a
\* lane, in its place, unless an operation is at work on the lane, its last
\* write failed, or its record has expired since.
RestartRestores ==
    \A l \in Lanes :
        \/ saved[l] = lanes[l]
        \/ ~loaded \/ l \in behind \cup lapsed
        \/ lock # NoCall /\ laneOf[lock[2]] = l

\* No waiting task is taken off its queue and returned by release_lane twice,
\* whatever crashes, failing writes, repeated completions and reloads of saved
\* queues happen around its hand-over.
HandedOnce == \A t \in Tasks : handed[t] <= 1

\* Sorting is stable and by priority across any number of hand-overs, saves and
\* reloads: no task still waits in a lane while one that joined the same lane
\* after it, and is no more urgent, was already handed over.
NoOvertaking ==
    \A i, j \in DOMAIN arrivals :
        LET t == arrivals[i]
            u == arrivals[j]
        IN  i < j /\ laneOf[t] = laneOf[u] /\ prio[t] <= prio[u] /\ handed[u] > 0
              => t \notin Queued(laneOf[t])

\* A request that got past the quota check is answered: the lane lock is
\* always released and no call waits for another one for ever.
RouteAnswers == \A t \in Tasks : pc[Route(t)] = "manager" ~> pc[Route(t)] \in Replies

\* A task that waits in a busy lane is eventually given to the agents (router.py:228
\* "如果有下一个任务，继续执行", if there is a next task, carry on with it).
BusyLaneDrains ==
    \A t \in Tasks : (\E l \in Lanes : t \in Queued(l) /\ lanes[l].status = "busy") ~> t \in pushed

\* A task waits only for a lane that is busy ("a full lane": class docstring
\* of LaneManager).
WaitingLaneIsBusy == \A l \in Lanes : lanes[l].queue # <<>> => lanes[l].status = "busy"

\* The router implements the abstract schedule of the lanes.
Schedule == INSTANCE LaneSchedule WITH
    running <- [l \in Lanes |-> {t \in Tasks : laneOf[t] = l /\ Executing(t)}],
    started <- pushed,
    forgotten <- misled
ImplementsSchedule == Schedule!Spec
=============================================================================
