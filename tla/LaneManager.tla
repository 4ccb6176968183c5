---------------------------- MODULE LaneManager ----------------------------
(***************************************************************************)
(* The lane manager of one session (gateway/websocket/lane.py).            *)
(*                                                                         *)
(* A session owns MaxLanes lanes.  A lane is "idle", "busy", or "queued",  *)
(* and carries a list of waiting tasks.  Every operation runs under one    *)
(* asyncio lock: it changes the lane in memory, then awaits the write of   *)
(* that lane to the Redis hash session:{key}:lanes, then unlocks.  The     *)
(* change and the write are therefore two steps here, with the lock held   *)
(* in between; a process that dies between them loses the change.  The     *)
(* hash expires 24 hours after the last write of any lane.                 *)
(*                                                                         *)
(* This module holds the state and the operations.  RequestRouter          *)
(* composes them into the calls that use them.                             *)
(***************************************************************************)
EXTENDS Integers, Sequences, FiniteSets

CONSTANTS
    Tasks,          \* task identifiers; one request each
    MaxLanes,       \* LaneManager.MAX_LANES
    MaxQueueSize,   \* LaneManager.MAX_QUEUE_SIZE
    Priorities      \* priorities a request may carry; 0 is the most urgent

ASSUME LaneAssumption ==
    /\ MaxLanes \in Nat \ {0}
    /\ MaxQueueSize \in Nat \ {0}
    /\ Priorities \subseteq Int
    /\ Priorities # {}

VARIABLES
    lanes,          \* the Lane objects of the process, by lane number
    saved,          \* the same lanes as Redis has them
    loaded,         \* the registry of this process holds the manager
    lock,           \* the call inside `async with self._lock`, or NoCall
    prio,           \* LaneTask.priority of each task
    behind,         \* history: lanes whose last write to Redis failed
    lapsed,         \* history: lanes whose record in Redis expired since it was written
    misled          \* history: lanes some process loaded after their record had expired

laneVars == <<lanes, saved, loaded, lock, prio, behind, lapsed, misled>>
lapseVars == <<behind, lapsed, misled>>

Lanes == 1 .. MaxLanes
LaneStatus == {"idle", "busy", "queued"}
NoTask == "no-task"
Calls == {"route", "complete", "cancel"} \X Tasks
NoCall == <<>>

LaneRecord == [status : LaneStatus, current : Tasks \cup {NoTask}, queue : Seq(Tasks)]

\* A lane as __init__ creates it, and as load_lane_status leaves it when
\* Redis holds nothing for it.
FreshLane == [status |-> "idle", current |-> NoTask, queue |-> <<>>]

Queued(l) == {lanes[l].queue[i] : i \in DOMAIN lanes[l].queue}
SavedQueued(l) == {saved[l].queue[i] : i \in DOMAIN saved[l].queue}

---------------------------------------------------------------------------
(* Operations.  l is the lane an operation works on.                       *)

SetLane(l, status, current, queue) ==
    lanes' = [lanes EXCEPT ![l] = [status |-> status, current |-> current, queue |-> queue]]

\* acquire_lane scans the dict in insertion order and takes the first idle lane.
FirstIdle(l) ==
    /\ lanes[l].status = "idle"
    /\ \A m \in 1 .. l - 1 : lanes[m].status # "idle"

NoIdleLane == \A l \in Lanes : lanes[l].status # "idle"

\* current_task is left alone: only release_lane ever sets it.
AcquireLane(c, l) ==
    /\ lock = NoCall
    /\ FirstIdle(l)
    /\ SetLane(l, "busy", lanes[l].current, lanes[l].queue)
    /\ lock' = c

\* min(..., key=queue_length) returns the first of the shortest.
ShortestQueue(l) ==
    \A m \in Lanes : \/ Len(lanes[l].queue) < Len(lanes[m].queue)
                     \/ Len(lanes[l].queue) = Len(lanes[m].queue) /\ l <= m

QueueFull(l) == Len(lanes[l].queue) >= MaxQueueSize

EnqueueTask(c, t, l) ==
    /\ lock = NoCall
    /\ ShortestQueue(l)
    /\ ~QueueFull(l)
    /\ SetLane(l, IF lanes[l].status = "idle" THEN "queued" ELSE lanes[l].status,
               lanes[l].current, Append(lanes[l].queue, t))
    /\ lock' = c

\* Variant: among equal priorities the newest comes first.
StableOrdersNewestFirst(q) ==
    {p \in [DOMAIN q -> DOMAIN q] : \A i, j \in DOMAIN q : i < j =>
        \/ prio[q[p[i]]] < prio[q[p[j]]]
        \/ prio[q[p[i]]] = prio[q[p[j]]] /\ p[i] > p[j]}

\* list.sort(key=priority) is stable: the positions of q in the order the sort
\* leaves them, by priority and then by place.  There is exactly one.
StableOrders(q) ==
    {p \in [DOMAIN q -> DOMAIN q] : \A i, j \in DOMAIN q : i < j =>
        \/ prio[q[p[i]]] < prio[q[p[j]]]
        \/ prio[q[p[i]]] = prio[q[p[j]]] /\ p[i] < p[j]}

\* Variant: the head is read and never popped.
HandOverLaneNoPop(c, t, l) ==
    /\ lock = NoCall
    /\ lanes[l].queue # <<>>
    /\ \E p \in StableOrders(lanes[l].queue) :
         LET sorted == [i \in DOMAIN p |-> lanes[l].queue[p[i]]]
         IN  /\ t = Head(sorted)
             /\ SetLane(l, lanes[l].status, t, sorted)
    /\ lock' = c

\* The queue of a busy lane is sorted and its head handed over; status stays.
\* The task_id the caller passes is not compared with current_task.
HandOverLane(c, t, l) ==
    /\ lock = NoCall
    /\ lanes[l].queue # <<>>
    /\ \E p \in StableOrders(lanes[l].queue) :
         LET sorted == [i \in DOMAIN p |-> lanes[l].queue[p[i]]]
         IN  /\ t = Head(sorted)
             /\ SetLane(l, lanes[l].status, t, Tail(sorted))
    /\ lock' = c

FreeLane(c, l) ==
    /\ lock = NoCall
    /\ lanes[l].queue = <<>>
    /\ SetLane(l, "idle", NoTask, lanes[l].queue)
    /\ lock' = c

\* Variant: the lock is never released.
PersistLaneKeepsLock(c, l) ==
    /\ lock = c
    /\ saved' = [saved EXCEPT ![l] = lanes[l]]
    /\ behind' = behind \ {l}
    /\ lapsed' = lapsed \ {l}
    /\ UNCHANGED <<lanes, loaded, prio, misled, lock>>

\* Variant: only the status and the current task are written.
PersistLaneNoQueue(c, l) ==
    /\ lock = c
    /\ saved' = [saved EXCEPT ![l] = [lanes[l] EXCEPT !.queue = saved[l].queue]]
    /\ behind' = behind \ {l}
    /\ lapsed' = lapsed \ {l}
    /\ lock' = NoCall
    /\ UNCHANGED <<lanes, loaded, prio, misled>>

\* _persist_lane_status: the HSET of the lane, the EXPIRE of the whole hash, and
\* `async with` unlocks.
PersistLane(c, l) ==
    /\ lock = c
    /\ saved' = [saved EXCEPT ![l] = lanes[l]]
    /\ behind' = behind \ {l}
    /\ lapsed' = lapsed \ {l}
    /\ lock' = NoCall
    /\ UNCHANGED <<lanes, loaded, prio, misled>>

\* The HSET of the lane that c is saving raises: `async with` unlocks, and what
\* was changed in memory stays changed.
PersistFails(c, l) ==
    /\ behind' = behind \cup (IF lock = c THEN {l} \cap Lanes ELSE {})
    /\ lock' = IF lock = c THEN NoCall ELSE lock
    /\ UNCHANGED <<lanes, saved, loaded, prio, lapsed, misled>>

\* 24 hours without a write: Redis forgets every lane of the session at once.
LanesLapse ==
    /\ saved' = [l \in Lanes |-> FreshLane]
    /\ lapsed' = lapsed \cup {l \in Lanes : saved[l] # FreshLane}
    /\ UNCHANGED <<lanes, loaded, lock, prio, behind, misled>>

\* Variant: a new process starts with fresh lanes and ignores the saved ones.
GetManagerFresh == loaded' = TRUE /\ UNCHANGED <<lanes, saved, lock, prio, lapseVars>>

\* LaneManagerRegistry.get_manager: the first call of a process loads the lanes,
\* under the registry's own lock, before anyone else sees the manager.
GetManager ==
    /\ IF loaded
       THEN UNCHANGED <<lanes, lapseVars>>
       ELSE /\ lanes' = saved
            /\ misled' = misled \cup lapsed
            /\ behind' = {} /\ lapsed' = {}
    /\ loaded' = TRUE
    /\ UNCHANGED <<saved, lock, prio>>

\* The process dies: its objects and its lock are gone, Redis is not.
LoseMemory ==
    /\ lanes' = [l \in Lanes |-> FreshLane]
    /\ loaded' = FALSE
    /\ lock' = NoCall
    /\ UNCHANGED <<saved, prio, lapseVars>>

LaneInit ==
    /\ lanes = [l \in Lanes |-> FreshLane]
    /\ saved = [l \in Lanes |-> FreshLane]
    /\ loaded = FALSE
    /\ lock = NoCall
    /\ prio \in [Tasks -> Priorities]
    /\ behind = {} /\ lapsed = {} /\ misled = {}

LaneTypeOK ==
    /\ lanes \in [Lanes -> LaneRecord]
    /\ saved \in [Lanes -> LaneRecord]
    /\ loaded \in BOOLEAN
    /\ lock \in Calls \cup {NoCall}
    /\ prio \in [Tasks -> Priorities]
    /\ behind \subseteq Lanes /\ lapsed \subseteq Lanes /\ misled \subseteq Lanes
=============================================================================
