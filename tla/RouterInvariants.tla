-------------------------- MODULE RouterInvariants --------------------------
(***************************************************************************)
(* The inductive invariants behind the theorems about RequestRouter.       *)
(* They hold in every state of the runs of MCRequestRouter.                *)
(***************************************************************************)
EXTENDS RequestRouter

---------------------------------------------------------------------------
(* Calls: which steps each kind takes, and what it has by then             *)

RouteStages == {"idle", "manager", "acquire", "enqueue", "save-acquire", "save-queue",
                "record-queued", "incr", "push", "record"} \cup Replies
CompleteStages == {"idle", "manager", "release", "save-release", "status", "tenant", "next"}
CancelStages == {"idle", "status", "tenant"}

StagesOK ==
    \A t \in Tasks : /\ pc[Route(t)] \in RouteStages
                     /\ pc[Complete(t)] \in CompleteStages
                     /\ pc[Cancel(t)] \in CancelStages

\* Where a task is while its own route_request keeps it out of the queues:
\* nowhere yet, on its way from a lane to the agents, or with them.
Unplaced == {"idle", "refused", "manager", "acquire", "enqueue", "rejected"}
Taking == {"save-acquire", "incr", "push"}
Given == {"record", "dispatched"}
OffQueue == Unplaced \cup Taking \cup Given

\* A call that has yet to save a lane holds the lane lock.
LockHeld == \A c \in Calls : pc[c] \in SavingStages => lock = c

\* A task has a lane once it is on its way to the agents, is pushed once by its
\* own call only, and reported only after that.
Placed ==
    \A t \in Tasks :
        /\ t \in pushed \/ pc[Route(t)] \in Taking => laneOf[t] \in Lanes
        /\ pc[Route(t)] \in Unplaced \cup Taking => t \notin pushed
        /\ reports[t] > 0 => t \in pushed
        /\ pc[Complete(t)] # "idle" => reports[t] > 0

\* A call past get_manager runs in a process that has loaded the lanes.
CallsSeeLanes ==
    \A t \in Tasks :
        /\ pc[Route(t)] \notin {"idle", "manager"} \cup Replies => loaded
        /\ pc[Complete(t)] \notin {"idle", "manager"} => loaded

CallCore == StagesOK /\ LockHeld /\ Placed /\ CallsSeeLanes
CallInv == TypeOK /\ CallCore

---------------------------------------------------------------------------
(* Queues: where a waiting task is, and when it was handed over            *)

NoRepetition(q) == \A i, j \in DOMAIN q : q[i] = q[j] => i = j
QueuesDistinct ==
    \A l \in Lanes : NoRepetition(lanes[l].queue) /\ NoRepetition(saved[l].queue)

\* A task waits in its own lane only, and no longer once it was handed over.
QueuesHoldOwn ==
    \A l \in Lanes : \A t \in Queued(l) \cup SavedQueued(l) : laneOf[t] = l /\ handed[t] = 0

\* A task that its route_request has not put in a queue is in none.
NeverQueued ==
    \A t \in Tasks :
        pc[Route(t)] \in OffQueue =>
            handed[t] = 0 /\ \A l \in Lanes : t \notin Queued(l) \cup SavedQueued(l)

\* The completion of u has popped t and has yet to save the lane.
HandingOver(u, t) == pc[Complete(u)] = "save-release" /\ next[u] = t

\* A task in hand-over is out of every queue in memory and was not handed over yet.
HandOverOK ==
    \A u, t \in Tasks : HandingOver(u, t) =>
        /\ laneOf[t] = laneOf[u] /\ handed[t] = 0
        /\ pc[Route(t)] \notin OffQueue
        /\ \A l \in Lanes : t \notin Queued(l)

QueueCore == QueuesDistinct /\ QueuesHoldOwn /\ NeverQueued /\ HandOverOK /\ HandedOnce
QueueInv == CallInv /\ QueueCore

---------------------------------------------------------------------------
(* Order: who left a queue before whom                                     *)

Earlier(t, u) == \E i, j \in DOMAIN arrivals : i < j /\ arrivals[i] = t /\ arrivals[j] = u

\* t arrived before u and is no less urgent: u must not be served first.
Ahead(t, u) == Earlier(t, u) /\ prio[t] <= prio[u]

\* A task arrives once, in a lane: its route_request is past the enqueue and
\* never returns.
ArrivedOnce ==
    /\ NoRepetition(arrivals)
    /\ \A i \in DOMAIN arrivals : /\ pc[Route(arrivals[i])] \notin OffQueue
                                 /\ laneOf[arrivals[i]] \in Lanes

InOrder(q) == \A i, j \in DOMAIN q : Ahead(q[i], q[j]) => i < j
QueuesInOrder == \A l \in Lanes : InOrder(lanes[l].queue) /\ InOrder(saved[l].queue)

\* Whoever is ahead of a task that was handed over has left the queue of its
\* lane, in memory and in Redis; of a task in hand-over, in memory.
NoneOvertaken ==
    \A l \in Lanes : \A u \in Tasks : laneOf[u] = l =>
        /\ handed[u] > 0 => \A t \in Queued(l) \cup SavedQueued(l) : ~Ahead(t, u)
        /\ (\E v \in Tasks : HandingOver(v, u)) => \A t \in Queued(l) : ~Ahead(t, u)

OrderCore == ArrivedOnce /\ QueuesInOrder /\ NoneOvertaken
OrderInv == QueueInv /\ OrderCore

---------------------------------------------------------------------------
(* Without redeliveries: who occupies a lane                               *)

\* t is between the step that gave it the lane and the one that takes it away.
Occupies(t) == pc[Route(t)] \in Taking \/ Executing(t)

OneOccupant ==
    \A t, u \in Tasks :
        Occupies(t) /\ Occupies(u) /\ laneOf[t] = laneOf[u] /\ laneOf[t] \notin misled => t = u

\* An occupied lane is busy in memory, and in Redis from its save to its expiry.
OccupiedIsBusy ==
    \A t \in Tasks : Occupies(t) /\ laneOf[t] \notin misled =>
        /\ loaded => lanes[laneOf[t]].status = "busy"
        /\ pc[Route(t)] # "save-acquire" /\ laneOf[t] \notin lapsed
             => saved[laneOf[t]].status = "busy"

SerialCore == OneOccupant /\ OccupiedIsBusy
SerialInv == CallInv /\ SerialCore
=============================================================================
