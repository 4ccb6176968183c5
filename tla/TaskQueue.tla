----------------------------- MODULE TaskQueue -----------------------------
(***************************************************************************)
(* RedisPriorityQueue (agent/distribution/__init__.py): a sorted set of    *)
(* waiting tasks, a sorted set of tasks in processing with their           *)
(* deadlines, a dead-letter list, and the hash task:{id}.                  *)
(*                                                                         *)
(* Every operation is a few Redis commands with an await between them, and *)
(* any number of callers run them against the same keys.  A caller of this *)
(* module is whoever submits, consumes or recovers tasks.  No such loop is *)
(* in src/, so what a caller does between two operations is left open: it  *)
(* completes the task it holds, calls requeue, or disappears.              *)
(***************************************************************************)
EXTENDS Integers

CONSTANTS
    Tasks,          \* task identifiers
    Callers,        \* coroutines that use the queue
    Priorities,     \* AgentTask.priority of the tasks submitted; 0 is the most urgent
    MaxRetries,     \* AgentTask.max_retries
    Timeout,        \* AgentTask.timeout_seconds
    MaxTime,        \* bound: the clock stops here
    MaxFaults       \* bound: calls cut short

NoTask == "no-task"

ASSUME QueueAssumption ==
    /\ Priorities \subseteq 0 .. 4
    /\ MaxRetries \in Nat
    /\ Timeout \in Nat
    /\ MaxTime \in Nat
    /\ MaxFaults \in Nat
    /\ NoTask \notin Tasks

VARIABLES
    queue,          \* the members of queue:{name}: what the task's JSON holds
    processing,     \* queue:{name}:processing: the deadline of each task, or None
    dead,           \* the tasks in queue:{name}:dead_letter
    hash,           \* the status in task:{id}
    now,            \* time.time()
    at,             \* the next step of each caller
    job,            \* the AgentTask a caller has in its hands, or NoJob
    timedOut,       \* the ids a recovering caller has yet to look at
    added,          \* history: members ever added for a task
    claimed,        \* history: times a task was handed to a caller
    finished,       \* history: tasks completed or given up
    mislaid,        \* history: tasks whose call was cut short when only it knew them
    dropped,        \* history: tasks that a recovery took and did not return
    faults          \* calls cut short so far

queueVars == <<queue, processing, dead, hash>>
callVars == <<at, job, timedOut>>
historyVars == <<added, claimed, finished, mislaid, dropped>>
taskQueueVars == <<queueVars, callVars, historyVars, now, faults>>

None == -1
Entry == [task : Tasks, prio : 0 .. 4, retries : Nat, created : Nat]
Job == [task : Tasks \cup {NoTask}, prio : 0 .. 4, retries : Nat, created : Nat]
NoJob == [task |-> NoTask, prio |-> 0, retries |-> 0, created |-> 0]
Stages == {"idle", "peeked", "claimed", "working", "completing", "failing", "failed",
           "recover", "lookup", "add", "note"}

\* The score is priority * 10^9 + created_at: a step of priority outweighs any
\* two timestamps that a queue holds at the same time.
Before(e, f) == e.prio < f.prio \/ (e.prio = f.prio /\ e.created < f.created)

TimedOut == {t \in Tasks : processing[t] # None /\ processing[t] <= now}

Goto(c, stage) == at' = [at EXCEPT ![c] = stage]
Hold(c, e) == job' = [job EXCEPT ![c] = e]
Leave(c) == Goto(c, "idle") /\ Hold(c, NoJob)

---------------------------------------------------------------------------
(* enqueue: ZADD, then HSET                                                *)

\* A caller submits a new task.
Submit(c) ==
    /\ at[c] = "idle"
    /\ \E t \in Tasks, p \in Priorities :
         /\ added[t] = 0 /\ t \notin mislaid /\ \A d \in Callers : job[d].task # t
         /\ Hold(c, [task |-> t, prio |-> p, retries |-> 0, created |-> now])
    /\ Goto(c, "add")
    /\ UNCHANGED <<queueVars, timedOut, historyVars, now, faults>>

\* A member that is there already only gets its score again.
EnqueueAdd(c) ==
    /\ at[c] = "add"
    /\ queue' = queue \cup {job[c]}
    /\ added' = IF job[c] \in queue THEN added ELSE [added EXCEPT ![job[c].task] = @ + 1]
    /\ Goto(c, "note")
    /\ UNCHANGED <<processing, dead, hash, job, timedOut, claimed, finished, mislaid, dropped,
                   now, faults>>

\* Variant: the status written is the one the task had before.
EnqueueNotePending(c) ==
    /\ at[c] = "note"
    /\ hash' = [hash EXCEPT ![job[c].task] = "pending"]
    /\ Leave(c)
    /\ UNCHANGED <<queue, processing, dead, timedOut, historyVars, now, faults>>

EnqueueNote(c) ==
    /\ at[c] = "note"
    /\ hash' = [hash EXCEPT ![job[c].task] = "queued"]
    /\ Leave(c)
    /\ UNCHANGED <<queue, processing, dead, timedOut, historyVars, now, faults>>

---------------------------------------------------------------------------
(* dequeue: ZRANGE 0 0, ZREM, ZADD to the processing set                   *)

DequeuePeek(c) ==
    /\ at[c] = "idle"
    /\ \E e \in queue : (\A f \in queue : ~Before(f, e)) /\ Hold(c, e)
    /\ Goto(c, "peeked")
    /\ UNCHANGED <<queueVars, timedOut, historyVars, now, faults>>

\* Variant: the answer of ZREM is not looked at.
DequeueRemoveUnchecked(c) ==
    /\ at[c] = "peeked"
    /\ queue' = queue \ {job[c]}
    /\ claimed' = [claimed EXCEPT ![job[c].task] = @ + 1]
    /\ Goto(c, "claimed")
    /\ UNCHANGED <<processing, dead, hash, job, timedOut, added, finished, mislaid, dropped,
                   now, faults>>

\* ZREM says whether this caller removed the member; another may have.
DequeueRemove(c) ==
    /\ at[c] = "peeked"
    /\ queue' = queue \ {job[c]}
    /\ IF job[c] \in queue
       THEN /\ claimed' = [claimed EXCEPT ![job[c].task] = @ + 1]
            /\ Goto(c, "claimed") /\ UNCHANGED job
       ELSE Leave(c) /\ UNCHANGED claimed
    /\ UNCHANGED <<processing, dead, hash, timedOut, added, finished, mislaid, dropped, now,
                   faults>>

\* Variant: the task is handed out without an entry in the processing set.
DequeueRegisterNot(c) ==
    /\ at[c] = "claimed"
    /\ Goto(c, "working")
    /\ UNCHANGED <<queueVars, job, timedOut, historyVars, now, faults>>

DequeueRegister(c) ==
    /\ at[c] = "claimed"
    /\ processing' = [processing EXCEPT ![job[c].task] = now + Timeout]
    /\ Goto(c, "working")
    /\ UNCHANGED <<queue, dead, hash, job, timedOut, historyVars, now, faults>>

---------------------------------------------------------------------------
(* complete: ZREM from the processing set, HSET                            *)

CompleteRemove(c) ==
    /\ at[c] = "working"
    /\ processing' = [processing EXCEPT ![job[c].task] = None]
    /\ finished' = finished \cup {job[c].task}
    /\ Goto(c, "completing") \/ Goto(c, "failing")
    /\ UNCHANGED <<queue, dead, hash, job, timedOut, added, claimed, mislaid, dropped, now,
                   faults>>

\* After complete(success=False) the caller may still retry the task.
CompleteStatus(c) ==
    /\ \/ /\ at[c] = "completing"
          /\ hash' = [hash EXCEPT ![job[c].task] = "completed"]
          /\ Leave(c)
       \/ /\ at[c] = "failing"
          /\ hash' = [hash EXCEPT ![job[c].task] = "failed"]
          /\ Goto(c, "failed") /\ UNCHANGED job
    /\ UNCHANGED <<queue, processing, dead, timedOut, historyVars, now, faults>>

GiveUp(c) ==
    /\ at[c] = "failed"
    /\ Leave(c)
    /\ UNCHANGED <<queueVars, timedOut, historyVars, now, faults>>

---------------------------------------------------------------------------
(* requeue: the dead-letter list, or a later created_at and enqueue        *)

\* min(2 ** retry_count, 60) of a retry_count of 1 or more.
Delay(n) == IF n \in 1 .. 5 THEN <<2, 4, 8, 16, 32>>[n] ELSE 60

Requeued(e) == [task |-> e.task, prio |-> e.prio, retries |-> e.retries + 1,
                created |-> now + Delay(e.retries + 1)]

MayRetry(c) == at[c] \in {"working", "failed"}

\* Variant: one retry more.
RequeueOnceMore(c) ==
    /\ MayRetry(c)
    /\ job[c].retries <= MaxRetries
    /\ Hold(c, Requeued(job[c]))
    /\ Goto(c, "add")
    /\ finished' = finished \ {job[c].task}
    /\ UNCHANGED <<queueVars, timedOut, added, claimed, mislaid, dropped, now, faults>>

\* The processing set is left alone: a task that its caller did not complete
\* first keeps its old deadline there.
Requeue(c) ==
    /\ MayRetry(c)
    /\ job[c].retries < MaxRetries
    /\ Hold(c, Requeued(job[c]))
    /\ Goto(c, "add")
    /\ finished' = finished \ {job[c].task}
    /\ UNCHANGED <<queueVars, timedOut, added, claimed, mislaid, dropped, now, faults>>

\* Variant: the `return False` is missing.
RequeueToDeadLetterGoesOn(c) ==
    /\ MayRetry(c)
    /\ job[c].retries >= MaxRetries
    /\ dead' = dead \cup {job[c].task}
    /\ Hold(c, Requeued(job[c]))
    /\ Goto(c, "add")
    /\ UNCHANGED <<queue, processing, hash, timedOut, historyVars, now, faults>>

RequeueToDeadLetter(c) ==
    /\ MayRetry(c)
    /\ job[c].retries >= MaxRetries
    /\ dead' = dead \cup {job[c].task}
    /\ finished' = finished \cup {job[c].task}
    /\ Leave(c)
    /\ UNCHANGED <<queue, processing, hash, timedOut, added, claimed, mislaid, dropped, now,
                   faults>>

---------------------------------------------------------------------------
(* recover_timeout_tasks: ZRANGEBYSCORE; for each id a ZREM and an HGETALL *)

RecoverStart(c) ==
    /\ at[c] = "idle"
    /\ TimedOut # {}
    /\ timedOut' = [timedOut EXCEPT ![c] = TimedOut]
    /\ Goto(c, "recover")
    /\ UNCHANGED <<queueVars, job, historyVars, now, faults>>

\* The next id.  Whether it is still in the set, and with which deadline, is
\* not looked at.  (The list is ordered by deadline; any order is allowed here.)
RecoverRemove(c) ==
    /\ at[c] = "recover"
    /\ \E t \in timedOut[c] :
         /\ timedOut' = [timedOut EXCEPT ![c] = @ \ {t}]
         /\ processing' = [processing EXCEPT ![t] = None]
         /\ Hold(c, [task |-> t, prio |-> 0, retries |-> 0, created |-> 0])
    /\ Goto(c, "lookup")
    /\ UNCHANGED <<queue, dead, hash, historyVars, now, faults>>

\* An id without a hash is passed over.  For any other AgentTask(...) is called
\* without its field app_id, which has no default: TypeError ends the call.
RecoverLookup(c) ==
    /\ at[c] = "lookup"
    /\ dropped' = dropped \cup {job[c].task}
    /\ IF hash[job[c].task] # "absent"
       THEN timedOut' = [timedOut EXCEPT ![c] = {}] /\ Leave(c)
       ELSE UNCHANGED timedOut /\ Hold(c, NoJob) /\ Goto(c, "recover")
    /\ UNCHANGED <<queueVars, added, claimed, finished, mislaid, now, faults>>

\* The list is at its end: the call returns.
RecoverEnd(c) ==
    /\ at[c] = "recover"
    /\ timedOut[c] = {}
    /\ Leave(c)
    /\ UNCHANGED <<queueVars, timedOut, historyVars, now, faults>>

---------------------------------------------------------------------------
(* Time, and calls that are cut short                                      *)

Tick == now < MaxTime /\ now' = now + 1 /\ UNCHANGED <<queueVars, callVars, historyVars, faults>>

\* The caller dies or its next Redis command raises.  In these stages nothing
\* else may know the task it holds.
OnlyInHand == {"claimed", "lookup", "add"}

Abandon(c) ==
    /\ at[c] # "idle"
    /\ faults < MaxFaults
    /\ faults' = faults + 1
    /\ mislaid' = IF at[c] \in OnlyInHand THEN mislaid \cup {job[c].task} ELSE mislaid
    /\ timedOut' = [timedOut EXCEPT ![c] = {}]
    /\ Leave(c)
    /\ UNCHANGED <<queueVars, added, claimed, finished, dropped, now>>

---------------------------------------------------------------------------
QueueInit ==
    /\ queue = {}
    /\ processing = [t \in Tasks |-> None]
    /\ dead = {}
    /\ hash = [t \in Tasks |-> "absent"]
    /\ now = 0
    /\ at = [c \in Callers |-> "idle"]
    /\ job = [c \in Callers |-> NoJob]
    /\ timedOut = [c \in Callers |-> {}]
    /\ added = [t \in Tasks |-> 0]
    /\ claimed = [t \in Tasks |-> 0]
    /\ finished = {}
    /\ mislaid = {}
    /\ dropped = {}
    /\ faults = 0

Enqueue(c) == EnqueueAdd(c) \/ EnqueueNote(c)
Dequeue(c) == DequeuePeek(c) \/ DequeueRemove(c) \/ DequeueRegister(c)
CompleteCall(c) == CompleteRemove(c) \/ CompleteStatus(c) \/ GiveUp(c)
RequeueCall(c) == Requeue(c) \/ RequeueToDeadLetter(c)
Recover(c) == RecoverStart(c) \/ RecoverRemove(c) \/ RecoverLookup(c) \/ RecoverEnd(c)

QueueNext ==
    \/ \E c \in Callers : \/ Submit(c) \/ Enqueue(c) \/ Dequeue(c) \/ CompleteCall(c)
                          \/ RequeueCall(c) \/ Recover(c) \/ Abandon(c)
    \/ Tick

QueueSpec == QueueInit /\ [][QueueNext]_taskQueueVars

---------------------------------------------------------------------------
(* Properties                                                              *)

\* Types of all variables.
QueueTypeOK ==
    /\ queue \subseteq Entry
    /\ processing \in [Tasks -> Nat \cup {None}]
    /\ dead \subseteq Tasks
    /\ hash \in [Tasks -> {"absent", "queued", "completed", "failed"}]
    /\ now \in Nat
    /\ at \in [Callers -> Stages]
    /\ job \in [Callers -> Job]
    /\ timedOut \in [Callers -> SUBSET Tasks]
    /\ added \in [Tasks -> Nat]
    /\ claimed \in [Tasks -> Nat]
    /\ finished \subseteq Tasks
    /\ mislaid \subseteq Tasks
    /\ dropped \subseteq Tasks
    /\ faults \in Nat

\* dequeue peeks and removes in two commands, so two callers can hold the same
\* member; only the one whose ZREM removed it works on the task.  A task is
\* handed out at most once for every time it was put in the queue.
ClaimedOnce == \A t \in Tasks : claimed[t] <= added[t]

\* A task is tried once and retried at most max_retries times, and the
\* dead-letter list holds only tasks that used up all of these.
RetryBudget ==
    \A t \in Tasks : /\ claimed[t] <= MaxRetries + 1
                     /\ t \in dead => claimed[t] = MaxRetries + 1

\* The task a caller has taken out of the queue, or is about to put back.
InHand(c) == at[c] \in {"claimed", "working", "completing", "failing", "failed", "add"}

\* A task is in one place: one member of the queue, or the hands of one
\* caller, or the dead-letter list.
OnePlace ==
    /\ \A e, f \in queue : e.task = f.task => e = f
    /\ \A c, d \in Callers : InHand(c) /\ InHand(d) /\ job[c].task = job[d].task => c = d
    /\ \A c \in Callers, e \in queue : InHand(c) => job[c].task # e.task
    /\ \A e \in queue : e.task \notin dead
    /\ \A c \in Callers : InHand(c) => job[c].task \notin dead

\* Someone knows t: the queue, the processing set, or a call.
Known(t) ==
    \/ \E e \in queue : e.task = t
    \/ processing[t] # None
    \/ \E c \in Callers : job[c].task = t
Lost == {t \in Tasks : added[t] > 0 /\ t \notin finished /\ ~Known(t)}

\* A task that nobody finished can be lost in two ways only: its call was cut
\* short while the task was on its way between two keys, or a recovery took it.
LostInTransit == Lost \subseteq mislaid \cup dropped

\* recover_timeout_tasks "recovers" what a dead caller left behind (docstring),
\* so a task is lost only when its call was cut short between two keys.
RecoveryKeepsTasks == Lost \subseteq mislaid
=============================================================================
