---------------------------- MODULE RouterProofs ----------------------------
(***************************************************************************)
(* Proofs about RequestRouter, for any tasks, lanes, priorities, bounds    *)
(* and faults.                                                             *)
(***************************************************************************)
EXTENDS RouterInvariants, SequenceTheorems, TLAPS

---------------------------------------------------------------------------
(* Lemmas about the operators of LaneManager                               *)

\* A stable order never uses a position twice.
LEMMA StableOrderInjective ==
    ASSUME NEW q \in Seq(Tasks), prio \in [Tasks -> Priorities],
           NEW p \in StableOrders(q), NEW i \in DOMAIN q, NEW j \in DOMAIN q, p[i] = p[j]
    PROVE  i = j
<1>1. DOMAIN q = 1 .. Len(q) /\ Len(q) \in Nat /\ \A a \in DOMAIN q : q[a] \in Tasks
  OBVIOUS
<1>2. /\ \A a \in DOMAIN q : p[a] \in DOMAIN q
      /\ \A a, b \in DOMAIN q : a < b =>
           \/ prio[q[p[a]]] < prio[q[p[b]]]
           \/ prio[q[p[a]]] = prio[q[p[b]]] /\ p[a] < p[b]
  BY DEF StableOrders
<1>3. \A a \in DOMAIN q : p[a] \in Nat /\ prio[q[p[a]]] \in Int
  <2>1. \A a \in DOMAIN q : q[p[a]] \in Tasks  BY <1>1, <1>2
  <2>2. \A t \in Tasks : prio[t] \in Int  BY LaneAssumption DEF LaneAssumption
  <2>. QED  BY <1>1, <1>2, <2>1, <2>2
<1>4. DEFINE k == p[i]
<1>5. k \in Nat /\ prio[q[k]] \in Int /\ p[j] = k
  BY <1>3
<1>6. i < j \/ j < i => prio[q[k]] < prio[q[k]] \/ k < k
  BY <1>2
<1>. QED  BY <1>1, <1>5, <1>6

\* Sorting a queue and popping its head: the head was queued, what stays was
\* queued, and when no task was queued twice the head does not stay.
LEMMA SortedPop ==
    ASSUME NEW q \in Seq(Tasks), q # <<>>, prio \in [Tasks -> Priorities],
           NEW p \in StableOrders(q),
           NEW sorted, sorted = [i \in DOMAIN p |-> q[p[i]]]
    PROVE  /\ Head(sorted) \in Tasks /\ \E i \in DOMAIN q : q[i] = Head(sorted)
           /\ Tail(sorted) \in Seq(Tasks)
           /\ \A i \in DOMAIN Tail(sorted) : \E j \in DOMAIN q : q[j] = Tail(sorted)[i]
           /\ NoRepetition(q) => /\ NoRepetition(Tail(sorted))
                                 /\ \A i \in DOMAIN Tail(sorted) : Tail(sorted)[i] # Head(sorted)
<1>1. /\ p \in [1 .. Len(q) -> 1 .. Len(q)] /\ Len(q) \in Nat \ {0}
      /\ DOMAIN q = 1 .. Len(q) /\ \A i \in 1 .. Len(q) : q[i] \in Tasks
  BY DEF StableOrders
<1>2. sorted \in Seq(Tasks) /\ Len(sorted) = Len(q) /\ sorted # <<>>
  <2>1. sorted \in [1 .. Len(q) -> Tasks]  BY <1>1
  <2>2. sorted \in Seq(Tasks) /\ Len(sorted) = Len(q)  BY <2>1, <1>1
  <2>. QED  BY <2>2, <1>1
<1>3. /\ Head(sorted) = sorted[1]
      /\ Tail(sorted) \in Seq(Tasks)
      /\ DOMAIN Tail(sorted) = 1 .. Len(q) - 1
      /\ \A i \in 1 .. Len(q) - 1 : Tail(sorted)[i] = sorted[i + 1]
  BY <1>2, <1>1
<1>4. \A i \in 1 .. Len(q) : sorted[i] = q[p[i]] /\ p[i] \in 1 .. Len(q)
  BY <1>1
<1>5. ASSUME NoRepetition(q), NEW i \in 1 .. Len(q), NEW j \in 1 .. Len(q), sorted[i] = sorted[j]
      PROVE  i = j
  <2>1. p[i] \in DOMAIN q /\ p[j] \in DOMAIN q /\ q[p[i]] = q[p[j]]  BY <1>1, <1>4, <1>5
  <2>2. p[i] = p[j]  BY <1>5, <2>1 DEF NoRepetition
  <2>3. i \in DOMAIN q /\ j \in DOMAIN q  BY <1>1
  <2>. QED  BY <2>2, <2>3, StableOrderInjective
<1>6. NoRepetition(q) => /\ NoRepetition(Tail(sorted))
                         /\ \A i \in DOMAIN Tail(sorted) : Tail(sorted)[i] # Head(sorted)
  <2>. SUFFICES ASSUME NoRepetition(q)
                PROVE  /\ NoRepetition(Tail(sorted))
                       /\ \A i \in DOMAIN Tail(sorted) : Tail(sorted)[i] # Head(sorted)
    OBVIOUS
  <2>1. \A i, j \in 1 .. Len(q) : sorted[i] = sorted[j] => i = j  BY <1>5
  <2>2. \A i \in 1 .. Len(q) - 1 : i + 1 \in 1 .. Len(q) /\ i + 1 # 1  BY <1>1
  <2>3. 1 \in 1 .. Len(q)  BY <1>1
  <2>4. \A i, j \in 1 .. Len(q) - 1 : i + 1 = j + 1 => i = j  OBVIOUS
  <2>5. NoRepetition(Tail(sorted))
    <3>. SUFFICES ASSUME NEW i \in 1 .. Len(q) - 1, NEW j \in 1 .. Len(q) - 1,
                         Tail(sorted)[i] = Tail(sorted)[j]
                  PROVE  i = j
      BY <1>3 DEF NoRepetition
    <3>1. sorted[i + 1] = sorted[j + 1]  BY <1>3
    <3>. QED  BY <2>1, <2>2, <2>4, <3>1
  <2>6. ASSUME NEW i \in 1 .. Len(q) - 1  PROVE Tail(sorted)[i] # Head(sorted)
    <3>1. Tail(sorted)[i] = sorted[i + 1] /\ i + 1 \in 1 .. Len(q) /\ i + 1 # 1
      BY <1>3, <2>2
    <3>. QED  BY <1>3, <2>1, <2>3, <3>1
  <2>. QED  BY <1>3, <2>5, <2>6
<1>7. \E i \in DOMAIN q : q[i] = Head(sorted)
  <2>1. 1 \in 1 .. Len(q)  BY <1>1
  <2>. QED  BY <1>1, <1>3, <1>4, <2>1
<1>8. \A i \in DOMAIN Tail(sorted) : \E j \in DOMAIN q : q[j] = Tail(sorted)[i]
  <2>1. \A i \in 1 .. Len(q) - 1 : i + 1 \in 1 .. Len(q)  BY <1>1
  <2>. QED  BY <1>1, <1>3, <1>4, <2>1
<1>9. Head(sorted) \in Tasks
  BY <1>1, <1>7
<1>. QED  BY <1>3, <1>6, <1>7, <1>8, <1>9

---------------------------------------------------------------------------
(* Types                                                                   *)

\* A call takes one of these steps; the proofs below split on them.
LEMMA NextCases ==
    ASSUME Next
    PROVE  \/ \E t \in Tasks :
                \/ RouteRequest(t) \/ RouteManager(t) \/ RouteAcquires(t) \/ RouteFindsNoLane(t)
                \/ RouteEnqueues(t) \/ RouteRejected(t) \/ RouteRecordsQueued(t)
                \/ DispatchIncr(t) \/ DispatchPush(t) \/ DispatchRecord(t)
                \/ CompleteManager(t) \/ CompleteHandsOver(t) \/ CompleteFrees(t)
                \/ CompleteStatus(t) \/ CompleteNext(t)
                \/ CancelStatus(t) \/ AgentReports(t) \/ AgentReportsAgain(t)
                \/ CancelTask(t) \/ TaskHashExpires(t)
           \/ \E c \in Calls : SaveLane(c) \/ UpdateTenant(c) \/ CallFails(c)
           \/ LanesExpire
           \/ Crash
  BY DEF Next, RouteStep, CompleteStep, SharedStep

LEMMA CallsOfTask ==
    ASSUME NEW t \in Tasks
    PROVE  Route(t) \in Calls /\ Complete(t) \in Calls /\ Cancel(t) \in Calls
  BY DEF Route, Complete, Cancel, Calls

LEMMA GotoType ==
    ASSUME NEW c, NEW stage \in Stages, pc \in [Calls -> Stages], Goto(c, stage)
    PROVE  pc' \in [Calls -> Stages]
  BY DEF Goto

LEMMA FreshLaneType == FreshLane \in LaneRecord
  BY DEF FreshLane, LaneRecord, LaneStatus

\* Fields of a lane.
LEMMA LaneFields ==
    ASSUME LaneTypeOK, NEW l \in Lanes
    PROVE  /\ lanes[l].status \in LaneStatus /\ lanes[l].queue \in Seq(Tasks)
           /\ lanes[l].current \in Tasks \cup {NoTask} /\ lanes[l] \in LaneRecord
           /\ saved[l].status \in LaneStatus /\ saved[l].queue \in Seq(Tasks)
           /\ lanes[l] = [status |-> lanes[l].status, current |-> lanes[l].current,
                          queue |-> lanes[l].queue]
  BY DEF LaneTypeOK, LaneRecord

\* Appending to a queue: its tasks and the new one.
LEMMA Appended ==
    ASSUME NEW q \in Seq(Tasks), NEW t \in Tasks
    PROVE  /\ Append(q, t) \in Seq(Tasks)
           /\ \A i \in DOMAIN Append(q, t) : Append(q, t)[i] = t \/ \E j \in DOMAIN q : q[j] = Append(q, t)[i]
           /\ NoRepetition(q) /\ (\A i \in DOMAIN q : q[i] # t) => NoRepetition(Append(q, t))
  BY DEF NoRepetition

LEMMA SetLaneType ==
    ASSUME LaneTypeOK, NEW l \in Lanes, NEW status \in LaneStatus,
           NEW current \in Tasks \cup {NoTask}, NEW queue \in Seq(Tasks),
           SetLane(l, status, current, queue)
    PROVE  lanes' \in [Lanes -> LaneRecord]
  BY DEF SetLane, LaneTypeOK, LaneRecord

LEMMA LaneOperationTypes ==
    ASSUME LaneTypeOK, NEW c \in Calls, NEW t \in Tasks, NEW l \in Lanes
    PROVE  /\ AcquireLane(c, l) => lanes' \in [Lanes -> LaneRecord]
           /\ EnqueueTask(c, t, l) => lanes' \in [Lanes -> LaneRecord]
           /\ FreeLane(c, l) => lanes' \in [Lanes -> LaneRecord]
           /\ HandOverLane(c, t, l) => lanes' \in [Lanes -> LaneRecord]
<1>. USE LaneFields
<1>1. ASSUME AcquireLane(c, l)  PROVE lanes' \in [Lanes -> LaneRecord]
  BY <1>1, SetLaneType DEF AcquireLane, LaneStatus
<1>2. ASSUME EnqueueTask(c, t, l)  PROVE lanes' \in [Lanes -> LaneRecord]
  <2>1. Append(lanes[l].queue, t) \in Seq(Tasks)
    BY Appended
  <2>. QED  BY <1>2, <2>1, SetLaneType DEF EnqueueTask, LaneStatus
<1>3. ASSUME FreeLane(c, l)  PROVE lanes' \in [Lanes -> LaneRecord]
  BY <1>3, SetLaneType DEF FreeLane, LaneStatus
<1>4. ASSUME HandOverLane(c, t, l)  PROVE lanes' \in [Lanes -> LaneRecord]
  <2>1. PICK p \in StableOrders(lanes[l].queue) :
           LET sorted == [i \in DOMAIN p |-> lanes[l].queue[p[i]]]
           IN  SetLane(l, lanes[l].status, t, Tail(sorted))
    BY <1>4 DEF HandOverLane
  <2>. DEFINE sorted == [i \in DOMAIN p |-> lanes[l].queue[p[i]]]
  <2>2. lanes[l].queue # <<>> /\ prio \in [Tasks -> Priorities]
    BY <1>4 DEF HandOverLane, LaneTypeOK
  <2>3. Tail(sorted) \in Seq(Tasks)
    BY <2>2, SortedPop
  <2>. HIDE DEF sorted
  <2>4. SetLane(l, lanes[l].status, t, Tail(sorted))
    BY <2>1 DEF sorted
  <2>. QED  BY <2>3, <2>4, SetLaneType
<1>. QED  BY <1>1, <1>2, <1>3, <1>4

LEMMA UpdateStatusType ==
    ASSUME TypeOK, NEW c \in Calls, NEW status \in HashStatus, UpdateStatus(c, status)
    PROVE  TypeOK'
<1>1. pc' \in [Calls -> Stages]
  BY GotoType DEF UpdateStatus, Stages, TypeOK
<1>2. hash' \in [Tasks -> TaskHash]
  <2>1. \A t \in Tasks : hash[t] \in TaskHash
    BY DEF TypeOK
  <2>. QED  BY <2>1 DEF UpdateStatus, TypeOK, TaskHash
<1>. QED  BY <1>1, <1>2 DEF UpdateStatus, TypeOK, LaneTypeOK, laneVars, lapseVars, taskVars

\* Every call belongs to a task.
LEMMA CallKinds ==
    ASSUME NEW c \in Calls
    PROVE  \E t \in Tasks : c \in {Route(t), Complete(t), Cancel(t)} /\ c[2] = t
  BY DEF Calls, Route, Complete, Cancel

\* The call ends with a reply or dies.
LEMMA AnswersType ==
    ASSUME TypeOK, NEW t \in Tasks, NEW reply \in Replies, Answers(t, reply)
    PROVE  /\ pc' \in [Calls -> Stages] /\ faults' \in Nat
           /\ \E stage \in {reply, "dead"} : Goto(Route(t), stage)
  BY CallsOfTask, GotoType DEF Answers, Stages, Replies, Fault, TypeOK

\* Every step keeps the types: the lanes by the lemmas above, pc because each
\* stage a step goes to is one of Stages.
LEMMA TypeStep == TypeOK /\ [Next]_vars => TypeOK'
<1>. SUFFICES ASSUME TypeOK, [Next]_vars  PROVE TypeOK'
  OBVIOUS
<1>. USE CallsOfTask, GotoType DEF TypeOK
<1>0. LaneTypeOK  OBVIOUS
<1>1. ASSUME NEW t \in Tasks, RouteRequest(t)  PROVE TypeOK'
  <2>1. pc' \in [Calls -> Stages]
    BY <1>1 DEF RouteRequest, Stages, Replies
  <2>. QED  BY <1>1, <2>1 DEF RouteRequest, LaneTypeOK, laneVars, lapseVars, taskVars
<1>2. ASSUME NEW t \in Tasks, RouteManager(t)  PROVE TypeOK'
  <2>1. pc' \in [Calls -> Stages]
    BY <1>2 DEF RouteManager, Stages
  <2>. QED  BY <1>2, <2>1 DEF RouteManager, GetManager, LaneTypeOK, lapseVars, taskVars
<1>3. ASSUME NEW t \in Tasks, RouteAcquires(t)  PROVE TypeOK'
  <2>1. pc' \in [Calls -> Stages]
    BY <1>3 DEF RouteAcquires, Stages, SavingStages
  <2>2. PICK l \in Lanes : AcquireLane(Route(t), l) /\ laneOf' = [laneOf EXCEPT ![t] = l]
    BY <1>3 DEF RouteAcquires
  <2>3. lanes' \in [Lanes -> LaneRecord]
    BY <1>0, <2>2, LaneOperationTypes
  <2>. QED  BY <1>3, <2>1, <2>2, <2>3 DEF RouteAcquires, AcquireLane, LaneTypeOK, lapseVars, taskVars
<1>4. ASSUME NEW t \in Tasks, RouteFindsNoLane(t)  PROVE TypeOK'
  <2>1. pc' \in [Calls -> Stages]
    BY <1>4 DEF RouteFindsNoLane, Stages
  <2>. QED  BY <1>4, <2>1 DEF RouteFindsNoLane, LaneTypeOK, laneVars, lapseVars, taskVars
<1>5. ASSUME NEW t \in Tasks, RouteEnqueues(t)  PROVE TypeOK'
  <2>1. pc' \in [Calls -> Stages]
    BY <1>5 DEF RouteEnqueues, Stages, SavingStages
  <2>2. PICK l \in Lanes : EnqueueTask(Route(t), t, l) /\ laneOf' = [laneOf EXCEPT ![t] = l]
    BY <1>5 DEF RouteEnqueues
  <2>3. lanes' \in [Lanes -> LaneRecord]
    BY <1>0, <2>2, LaneOperationTypes
  <2>4. arrivals' \in Seq(Tasks)
    BY <1>5, Appended DEF RouteEnqueues
  <2>. QED  BY <1>5, <2>1, <2>2, <2>3, <2>4 DEF RouteEnqueues, EnqueueTask, LaneTypeOK, lapseVars
<1>6. ASSUME NEW t \in Tasks, RouteRejected(t)  PROVE TypeOK'
  <2>1. pc' \in [Calls -> Stages]
    BY <1>6 DEF RouteRejected, Stages, Replies
  <2>. QED  BY <1>6, <2>1 DEF RouteRejected, LaneTypeOK, laneVars, lapseVars, taskVars
<1>7. ASSUME NEW t \in Tasks, RouteRecordsQueued(t)  PROVE TypeOK'
  <2>1. pc' \in [Calls -> Stages] /\ faults' \in Nat
    BY <1>7, AnswersType DEF RouteRecordsQueued, Replies
  <2>2. hash' \in [Tasks -> TaskHash]
    BY <1>7 DEF RouteRecordsQueued, TaskHash, HashStatus
  <2>. QED  BY <1>7, <2>1, <2>2 DEF RouteRecordsQueued, LaneTypeOK, laneVars, lapseVars, taskVars
<1>8. ASSUME NEW t \in Tasks, CompleteManager(t)  PROVE TypeOK'
  <2>1. pc' \in [Calls -> Stages]
    BY <1>8 DEF CompleteManager, Stages
  <2>. QED  BY <1>8, <2>1 DEF CompleteManager, GetManager, LaneTypeOK, lapseVars, taskVars
<1>9. ASSUME NEW t \in Tasks, CompleteHandsOver(t)  PROVE TypeOK'
  <2>1. pc' \in [Calls -> Stages]
    BY <1>9 DEF CompleteHandsOver, Stages, SavingStages
  <2>2. PICK u \in Tasks : HandOverLane(Complete(t), u, laneOf[t]) /\ next' = [next EXCEPT ![t] = u]
    BY <1>9 DEF CompleteHandsOver
  <2>3. lanes' \in [Lanes -> LaneRecord]
    <3>1. CASE laneOf[t] \in Lanes
      BY <1>0, <2>2, <3>1, LaneOperationTypes
    <3>2. CASE laneOf[t] \notin Lanes
      BY <2>2, <3>2 DEF HandOverLane, SetLane, LaneTypeOK
    <3>. QED  BY <3>1, <3>2
  <2>. QED
    BY <1>9, <2>1, <2>2, <2>3 DEF CompleteHandsOver, HandOverLane, LaneTypeOK, lapseVars, taskVars
<1>10. ASSUME NEW t \in Tasks, CompleteFrees(t)  PROVE TypeOK'
  <2>1. pc' \in [Calls -> Stages]
    BY <1>10 DEF CompleteFrees, Stages, SavingStages
  <2>3. lanes' \in [Lanes -> LaneRecord]
    <3>1. CASE laneOf[t] \in Lanes
      BY <1>0, <1>10, <3>1, LaneOperationTypes DEF CompleteFrees
    <3>2. CASE laneOf[t] \notin Lanes
      BY <1>10, <3>2 DEF CompleteFrees, FreeLane, SetLane, LaneTypeOK
    <3>. QED  BY <3>1, <3>2
  <2>4. next' \in [Tasks -> Tasks \cup {NoTask}]
    BY <1>10 DEF CompleteFrees
  <2>. QED
    BY <1>10, <2>1, <2>3, <2>4 DEF CompleteFrees, FreeLane, LaneTypeOK, lapseVars, taskVars
<1>11. ASSUME NEW t \in Tasks, CompleteStatus(t)  PROVE TypeOK'
  <2>1. PICK status \in {"completed", "failed"} : UpdateStatus(Complete(t), status)
    BY <1>11 DEF CompleteStatus
  <2>. QED  BY <2>1, UpdateStatusType DEF HashStatus
<1>12. ASSUME NEW t \in Tasks, CompleteNext(t)  PROVE TypeOK'
  <2>1. pc' \in [Calls -> Stages]
    BY <1>12 DEF CompleteNext, Stages
  <2>. QED  BY <1>12, <2>1 DEF CompleteNext, LaneTypeOK, laneVars, lapseVars, taskVars
<1>14. ASSUME NEW t \in Tasks, CancelStatus(t)  PROVE TypeOK'
  BY <1>14, UpdateStatusType DEF CancelStatus, HashStatus
<1>15. ASSUME NEW t \in Tasks, AgentReports(t) \/ AgentReportsAgain(t)  PROVE TypeOK'
  <2>1. Report(t) /\ (UNCHANGED faults \/ Fault("redelivery"))
    BY <1>15 DEF AgentReports, AgentReportsAgain
  <2>2. pc' \in [Calls -> Stages]
    BY <2>1 DEF Report, Stages
  <2>3. reports' \in [Tasks -> Nat] /\ faults' \in Nat
    BY <2>1 DEF Report, Fault
  <2>. QED  BY <2>1, <2>2, <2>3 DEF Report, LaneTypeOK, laneVars, lapseVars
<1>16. ASSUME NEW t \in Tasks, CancelTask(t)  PROVE TypeOK'
  <2>1. pc' \in [Calls -> Stages]
    BY <1>16 DEF CancelTask, Stages
  <2>. QED  BY <1>16, <2>1 DEF CancelTask, Fault, LaneTypeOK, laneVars, lapseVars, taskVars
<1>17. ASSUME NEW t \in Tasks, TaskHashExpires(t)  PROVE TypeOK'
  BY <1>17 DEF TaskHashExpires, Fault, LaneTypeOK, laneVars, lapseVars, taskVars, TaskHash, AbsentHash
<1>18. ASSUME NEW c \in Calls, SaveLane(c)  PROVE TypeOK'
  <2>1. pc' \in [Calls -> Stages]
    BY <1>18 DEF SaveLane, AfterSave, SavingStages, Stages
  <2>2. saved' \in [Lanes -> LaneRecord]
    BY <1>18 DEF SaveLane, PersistLane, LaneTypeOK
  <2>3. handed' \in [Tasks -> Nat]
    <3>1. \A u \in Tasks : handed[u] \in Nat /\ handed[u] + 1 \in Nat  OBVIOUS
    <3>2. handed' = handed \/ \E u : handed' = [handed EXCEPT ![u] = @ + 1]
      BY <1>18 DEF SaveLane
    <3>. QED  BY <3>1, <3>2
  <2>. QED  BY <1>18, <2>1, <2>2, <2>3 DEF SaveLane, PersistLane, LaneTypeOK
<1>19. ASSUME NEW t \in Tasks, DispatchIncr(t)  PROVE TypeOK'
  <2>1. pc' \in [Calls -> Stages]
    BY <1>19 DEF DispatchIncr, Stages
  <2>. QED  BY <1>19, <2>1 DEF DispatchIncr, LaneTypeOK, laneVars, lapseVars
<1>20. ASSUME NEW t \in Tasks, DispatchPush(t)  PROVE TypeOK'
  <2>1. pc' \in [Calls -> Stages]
    BY <1>20 DEF DispatchPush, Stages
  <2>. QED  BY <1>20, <2>1 DEF DispatchPush, LaneTypeOK, laneVars, lapseVars
<1>21. ASSUME NEW t \in Tasks, DispatchRecord(t)  PROVE TypeOK'
  <2>1. pc' \in [Calls -> Stages] /\ faults' \in Nat
    BY <1>21, AnswersType DEF DispatchRecord, Replies
  <2>2. hash' \in [Tasks -> TaskHash]
    BY <1>21 DEF DispatchRecord, TaskHash, HashStatus
  <2>. QED  BY <1>21, <2>1, <2>2 DEF DispatchRecord, LaneTypeOK, laneVars, lapseVars, taskVars
<1>22. ASSUME NEW c \in Calls, UpdateTenant(c)  PROVE TypeOK'
  <2>1. pc' \in [Calls -> Stages]
    BY <1>22 DEF UpdateTenant, Stages
  <2>. QED  BY <1>22, <2>1 DEF UpdateTenant, LaneTypeOK, laneVars, lapseVars, taskVars
<1>23. ASSUME NEW c \in Calls, CallFails(c)  PROVE TypeOK'
  <2>1. pc' \in [Calls -> Stages]
    BY <1>23 DEF CallFails, Aborted, Stages, Replies
  <2>2. LaneTypeOK'
    BY <1>23 DEF CallFails, PersistFails, LaneTypeOK
  <2>. QED  BY <1>23, <2>1, <2>2 DEF CallFails, Fault, taskVars
<1>24. ASSUME Crash  PROVE TypeOK'
  <2>1. pc' \in [Calls -> Stages]
    BY <1>24 DEF Crash, Aborted, Stages, Replies
  <2>2. LaneTypeOK'
    BY <1>24, FreshLaneType DEF Crash, LoseMemory, LaneTypeOK, lapseVars
  <2>. QED  BY <1>24, <2>1, <2>2 DEF Crash, Fault, taskVars
<1>25. ASSUME LanesExpire  PROVE TypeOK'
  <2>1. LaneTypeOK'
    BY <1>25, FreshLaneType DEF LanesExpire, LanesLapse, LaneTypeOK
  <2>. QED  BY <1>25, <2>1 DEF LanesExpire, Fault, taskVars
<1>26. CASE UNCHANGED vars
  BY <1>26 DEF vars, laneVars, lapseVars, routerVars, taskVars, LaneTypeOK
<1>. QED
  BY NextCases, <1>1, <1>2, <1>3, <1>4, <1>5, <1>6, <1>7, <1>8, <1>9, <1>10, <1>11, <1>12,
     <1>14, <1>15, <1>16, <1>17, <1>18, <1>19, <1>20, <1>21, <1>22, <1>23, <1>24, <1>25, <1>26

LEMMA TypeInit == Init => TypeOK
<1>. SUFFICES ASSUME Init  PROVE TypeOK
  OBVIOUS
<1>1. LaneTypeOK
  BY FreshLaneType DEF Init, LaneInit, LaneTypeOK
<1>2. AbsentHash \in TaskHash /\ "idle" \in Stages
  BY DEF AbsentHash, TaskHash, Stages
<1>3. arrivals \in Seq(Tasks)
  BY DEF Init
<1>. QED  BY <1>1, <1>2, <1>3 DEF Init, TypeOK

\* The variables of the model keep their types in every behaviour.
THEOREM TypeCorrect == Spec => []TypeOK
  BY TypeInit, TypeStep, PTL DEF Spec

---------------------------------------------------------------------------
(* Calls: the stages they are at, the lock, and what a task has by then    *)

\* What Goto does to the calls of each kind.
LEMMA GotoRoute ==
    ASSUME TypeOK, NEW t \in Tasks, NEW stage, Goto(Route(t), stage)
    PROVE  /\ \A u \in Tasks : pc'[Route(u)] = IF u = t THEN stage ELSE pc[Route(u)]
           /\ \A u \in Tasks : pc'[Complete(u)] = pc[Complete(u)] /\ pc'[Cancel(u)] = pc[Cancel(u)]
  BY DEF TypeOK, Goto, Calls, Route, Complete, Cancel

LEMMA GotoComplete ==
    ASSUME TypeOK, NEW t \in Tasks, NEW stage, Goto(Complete(t), stage)
    PROVE  /\ \A u \in Tasks : pc'[Complete(u)] = IF u = t THEN stage ELSE pc[Complete(u)]
           /\ \A u \in Tasks : pc'[Route(u)] = pc[Route(u)] /\ pc'[Cancel(u)] = pc[Cancel(u)]
  BY DEF TypeOK, Goto, Calls, Route, Complete, Cancel

LEMMA GotoCancel ==
    ASSUME TypeOK, NEW t \in Tasks, NEW stage, Goto(Cancel(t), stage)
    PROVE  /\ \A u \in Tasks : pc'[Cancel(u)] = IF u = t THEN stage ELSE pc[Cancel(u)]
           /\ \A u \in Tasks : pc'[Route(u)] = pc[Route(u)] /\ pc'[Complete(u)] = pc[Complete(u)]
  BY DEF TypeOK, Goto, Calls, Route, Complete, Cancel

LEMMA NoCallIsNone == NoCall \notin Calls
  BY DEF NoCall, Calls

\* A step of a call that neither takes the lock nor drops another's.
LEMMA LockKept ==
    ASSUME TypeOK, LockHeld, NEW c \in Calls, NEW stage, Goto(c, stage),
           stage \notin SavingStages,
           lock' = lock \/ lock = c \/ lock' = IF lock = c THEN NoCall ELSE lock
    PROVE  LockHeld'
  BY DEF TypeOK, LockHeld, Goto

LEMMA LockTaken ==
    ASSUME TypeOK, LockHeld, NEW c \in Calls, NEW stage, Goto(c, stage), lock = NoCall, lock' = c
    PROVE  LockHeld'
  BY NoCallIsNone DEF TypeOK, LockHeld, Goto

\* Most steps only move calls on: they keep what is known of the calls when the
\* stages they reach claim nothing new.
LEMMA CallMoves ==
    ASSUME CallInv, StagesOK', LockHeld',
           pushed' = pushed, reports' = reports, loaded' = loaded,
           \A t \in Tasks :
             /\ laneOf'[t] = laneOf[t]
             /\ pc'[Route(t)] \in Taking => pc[Route(t)] \in Taking
             /\ pc'[Route(t)] \in Unplaced \cup Taking => pc[Route(t)] \in Unplaced \cup Taking
             /\ pc'[Complete(t)] # "idle" => pc[Complete(t)] # "idle"
             /\ pc'[Route(t)] \notin {"idle", "manager"} \cup Replies
                  => pc[Route(t)] \notin {"idle", "manager"} \cup Replies
             /\ pc'[Complete(t)] \notin {"idle", "manager"} => pc[Complete(t)] \notin {"idle", "manager"}
    PROVE  CallCore'
<1>1. Placed'
  BY DEF CallInv, CallCore, Placed
<1>2. CallsSeeLanes'
  BY DEF CallInv, CallCore, CallsSeeLanes
<1>. QED  BY <1>1, <1>2 DEF CallCore

\* Where a call that ends by an exception is left.
LEMMA AbortedStages ==
    ASSUME StagesOK, NEW c \in Calls, NEW t \in Tasks
    PROVE  /\ Aborted(c) \notin SavingStages
           /\ c = Route(t) => Aborted(c) \in Replies \cup {pc[c]}
           /\ c = Complete(t) => Aborted(c) = "idle"
           /\ c = Cancel(t) => Aborted(c) = "idle"
<1>1. c = Route(t) => Aborted(c) \in Replies \cup {pc[c]}
  BY DEF Aborted, Route, Replies
<1>2. c = Complete(t) => Aborted(c) = "idle"
  BY DEF Aborted, Complete, StagesOK, CompleteStages, Replies
<1>3. c = Cancel(t) => Aborted(c) = "idle"
  BY DEF Aborted, Cancel, StagesOK, CancelStages, Replies
<1>4. Aborted(c) \notin SavingStages
  BY DEF Aborted, SavingStages, Replies
<1>. QED  BY <1>1, <1>2, <1>3, <1>4

LEMMA CallStep == CallInv /\ [Next]_vars => CallInv'
<1>. SUFFICES ASSUME CallInv, [Next]_vars  PROVE CallInv'
  OBVIOUS
<1>0. TypeOK /\ StagesOK /\ LockHeld /\ Placed /\ CallsSeeLanes
  BY DEF CallInv, CallCore
<1>. SUFFICES CallCore'
  BY <1>0, TypeStep DEF CallInv
<1>. USE CallsOfTask
<1>1. ASSUME NEW t \in Tasks,
             \/ RouteRequest(t) \/ RouteFindsNoLane(t) \/ RouteRejected(t)
             \/ RouteRecordsQueued(t) \/ DispatchRecord(t) \/ DispatchIncr(t)
      PROVE  CallCore'
  <2>1. PICK stage : Goto(Route(t), stage) /\ stage \in RouteStages \ SavingStages /\
             /\ stage \in Taking => pc[Route(t)] \in Taking
             /\ stage \in Unplaced \cup Taking => pc[Route(t)] \in Unplaced \cup Taking
             /\ stage \notin {"idle", "manager"} \cup Replies
                  => pc[Route(t)] \notin {"idle", "manager"} \cup Replies
    BY <1>1 DEF RouteRequest, RouteFindsNoLane, RouteRejected, RouteRecordsQueued, DispatchRecord,
          DispatchIncr, Answers, RouteStages, SavingStages, Taking, Unplaced, Replies
  <2>2. /\ \A u \in Tasks : pc'[Route(u)] = IF u = t THEN stage ELSE pc[Route(u)]
        /\ \A u \in Tasks : pc'[Complete(u)] = pc[Complete(u)] /\ pc'[Cancel(u)] = pc[Cancel(u)]
    BY <1>0, <2>1, GotoRoute
  <2>3. UNCHANGED <<laneVars, laneOf, pushed, reports>>
    BY <1>1 DEF RouteRequest, RouteFindsNoLane, RouteRejected, RouteRecordsQueued, DispatchRecord,
          DispatchIncr, taskVars
  <2>4. StagesOK'
    BY <1>0, <2>1, <2>2 DEF StagesOK
  <2>5. LockHeld'
    BY <1>0, <2>1, <2>3, LockKept DEF laneVars
  <2>. QED  BY <2>1, <2>2, <2>3, <2>4, <2>5, CallMoves DEF laneVars
<1>2. ASSUME NEW t \in Tasks, RouteManager(t)  PROVE CallCore'
  <2>1. /\ \A u \in Tasks : pc'[Route(u)] = IF u = t THEN "acquire" ELSE pc[Route(u)]
        /\ \A u \in Tasks : pc'[Complete(u)] = pc[Complete(u)] /\ pc'[Cancel(u)] = pc[Cancel(u)]
    BY <1>0, <1>2, GotoRoute DEF RouteManager
  <2>2. pc[Route(t)] = "manager" /\ loaded' /\ lock' = lock
        /\ UNCHANGED <<laneOf, pushed, reports>>
    BY <1>2 DEF RouteManager, GetManager, taskVars
  <2>3. StagesOK'
    BY <1>0, <2>1 DEF StagesOK, RouteStages
  <2>4. LockHeld'
    BY <1>0, <1>2, <2>2, LockKept DEF RouteManager, SavingStages
  <2>5. Placed'
    BY <1>0, <2>1, <2>2 DEF Placed, Taking, Unplaced
  <2>. QED  BY <2>2, <2>3, <2>4, <2>5 DEF CallCore, CallsSeeLanes
<1>3. ASSUME NEW t \in Tasks, RouteAcquires(t)  PROVE CallCore'
  <2>1. /\ \A u \in Tasks : pc'[Route(u)] = IF u = t THEN "save-acquire" ELSE pc[Route(u)]
        /\ \A u \in Tasks : pc'[Complete(u)] = pc[Complete(u)] /\ pc'[Cancel(u)] = pc[Cancel(u)]
    BY <1>0, <1>3, GotoRoute DEF RouteAcquires
  <2>2. PICK l \in Lanes : laneOf' = [laneOf EXCEPT ![t] = l] /\ AcquireLane(Route(t), l)
    BY <1>3 DEF RouteAcquires
  <2>3. pc[Route(t)] = "acquire" /\ UNCHANGED <<loaded, pushed, reports>>
    BY <1>3 DEF RouteAcquires, taskVars
  <2>4. StagesOK'
    BY <1>0, <2>1 DEF StagesOK, RouteStages
  <2>5. LockHeld'
    BY <1>0, <1>3, <2>2, LockTaken DEF RouteAcquires, AcquireLane
  <2>6. laneOf'[t] = l /\ \A u \in Tasks : u # t => laneOf'[u] = laneOf[u]
    BY <1>0, <2>2 DEF TypeOK
  <2>7. Placed'
    BY <1>0, <2>1, <2>3, <2>6 DEF Placed, Taking, Unplaced
  <2>8. CallsSeeLanes'
    BY <1>0, <2>1, <2>3 DEF CallsSeeLanes, Replies
  <2>. QED  BY <2>4, <2>5, <2>7, <2>8 DEF CallCore
<1>4. ASSUME NEW t \in Tasks, RouteEnqueues(t)  PROVE CallCore'
  <2>1. /\ \A u \in Tasks : pc'[Route(u)] = IF u = t THEN "save-queue" ELSE pc[Route(u)]
        /\ \A u \in Tasks : pc'[Complete(u)] = pc[Complete(u)] /\ pc'[Cancel(u)] = pc[Cancel(u)]
    BY <1>0, <1>4, GotoRoute DEF RouteEnqueues
  <2>2. PICK l \in Lanes : laneOf' = [laneOf EXCEPT ![t] = l] /\ EnqueueTask(Route(t), t, l)
    BY <1>4 DEF RouteEnqueues
  <2>3. pc[Route(t)] = "enqueue" /\ UNCHANGED <<loaded, pushed, reports>>
    BY <1>4 DEF RouteEnqueues
  <2>4. StagesOK'
    BY <1>0, <2>1 DEF StagesOK, RouteStages
  <2>5. LockHeld'
    BY <1>0, <1>4, <2>2, LockTaken DEF RouteEnqueues, EnqueueTask
  <2>6. laneOf'[t] = l /\ \A u \in Tasks : u # t => laneOf'[u] = laneOf[u]
    BY <1>0, <2>2 DEF TypeOK
  <2>7. Placed'
    BY <1>0, <2>1, <2>3, <2>6 DEF Placed, Taking, Unplaced
  <2>8. CallsSeeLanes'
    BY <1>0, <2>1, <2>3 DEF CallsSeeLanes, Replies
  <2>. QED  BY <2>4, <2>5, <2>7, <2>8 DEF CallCore
<1>5. ASSUME NEW t \in Tasks, DispatchPush(t)  PROVE CallCore'
  <2>1. /\ \A u \in Tasks : pc'[Route(u)] = IF u = t THEN "record" ELSE pc[Route(u)]
        /\ \A u \in Tasks : pc'[Complete(u)] = pc[Complete(u)] /\ pc'[Cancel(u)] = pc[Cancel(u)]
    BY <1>0, <1>5, GotoRoute DEF DispatchPush
  <2>2. /\ pc[Route(t)] = "push" /\ pushed' = pushed \cup {t}
        /\ UNCHANGED <<laneOf, reports, loaded, lock>>
    BY <1>5 DEF DispatchPush, laneVars
  <2>3. StagesOK'
    BY <1>0, <2>1 DEF StagesOK, RouteStages
  <2>4. LockHeld'
    BY <1>0, <1>5, <2>2, LockKept DEF DispatchPush, SavingStages
  <2>5. Placed'
    BY <1>0, <2>1, <2>2 DEF Placed, Taking, Unplaced
  <2>6. CallsSeeLanes'
    BY <1>0, <2>1, <2>2 DEF CallsSeeLanes, Replies
  <2>. QED  BY <2>3, <2>4, <2>5, <2>6 DEF CallCore
<1>6. ASSUME NEW t \in Tasks, AgentReports(t) \/ AgentReportsAgain(t)  PROVE CallCore'
  <2>1. Report(t) /\ t \in pushed
    BY <1>0, <1>6 DEF AgentReports, AgentReportsAgain, Placed
  <2>2. /\ \A u \in Tasks : pc'[Complete(u)] = IF u = t THEN "manager" ELSE pc[Complete(u)]
        /\ \A u \in Tasks : pc'[Route(u)] = pc[Route(u)] /\ pc'[Cancel(u)] = pc[Cancel(u)]
    BY <1>0, <2>1, GotoComplete DEF Report
  <2>3. /\ UNCHANGED <<laneOf, pushed, loaded, lock>>
        /\ reports'[t] > 0 /\ \A u \in Tasks : u # t => reports'[u] = reports[u]
    BY <1>0, <2>1 DEF Report, laneVars, TypeOK
  <2>4. StagesOK'
    BY <1>0, <2>2 DEF StagesOK, CompleteStages
  <2>5. LockHeld'
    BY <1>0, <2>1, <2>3, LockKept DEF Report, SavingStages
  <2>6. Placed'
    BY <1>0, <2>1, <2>2, <2>3 DEF Placed
  <2>7. CallsSeeLanes'
    BY <1>0, <2>2, <2>3 DEF CallsSeeLanes
  <2>. QED  BY <2>4, <2>5, <2>6, <2>7 DEF CallCore
<1>7. ASSUME NEW t \in Tasks, CompleteManager(t)  PROVE CallCore'
  <2>1. /\ \A u \in Tasks : pc'[Complete(u)] = IF u = t THEN "release" ELSE pc[Complete(u)]
        /\ \A u \in Tasks : pc'[Route(u)] = pc[Route(u)] /\ pc'[Cancel(u)] = pc[Cancel(u)]
    BY <1>0, <1>7, GotoComplete DEF CompleteManager
  <2>2. pc[Complete(t)] = "manager" /\ loaded' /\ lock' = lock
        /\ UNCHANGED <<laneOf, pushed, reports>>
    BY <1>7 DEF CompleteManager, GetManager, taskVars
  <2>3. StagesOK'
    BY <1>0, <2>1 DEF StagesOK, CompleteStages
  <2>4. LockHeld'
    BY <1>0, <1>7, <2>2, LockKept DEF CompleteManager, SavingStages
  <2>5. Placed'
    BY <1>0, <2>1, <2>2 DEF Placed
  <2>. QED  BY <2>2, <2>3, <2>4, <2>5 DEF CallCore, CallsSeeLanes
<1>8. ASSUME NEW t \in Tasks, CompleteHandsOver(t) \/ CompleteFrees(t)  PROVE CallCore'
  <2>1. pc[Complete(t)] = "release" /\ Goto(Complete(t), "save-release")
        /\ UNCHANGED <<laneOf, loaded, pushed, reports>> /\ lock = NoCall /\ lock' = Complete(t)
    BY <1>8 DEF CompleteHandsOver, CompleteFrees, HandOverLane, FreeLane, taskVars
  <2>2. /\ \A u \in Tasks : pc'[Complete(u)] = IF u = t THEN "save-release" ELSE pc[Complete(u)]
        /\ \A u \in Tasks : pc'[Route(u)] = pc[Route(u)] /\ pc'[Cancel(u)] = pc[Cancel(u)]
    BY <1>0, <2>1, GotoComplete
  <2>3. StagesOK'
    BY <1>0, <2>2 DEF StagesOK, CompleteStages
  <2>4. LockHeld'
    BY <1>0, <2>1, LockTaken
  <2>. QED  BY <2>1, <2>2, <2>3, <2>4, CallMoves
<1>9. ASSUME NEW t \in Tasks, CompleteStatus(t) \/ CompleteNext(t)  PROVE CallCore'
  <2>1. PICK stage \in {"tenant", "idle"} :
             Goto(Complete(t), stage) /\ pc[Complete(t)] \in {"status", "next"}
             /\ UNCHANGED <<laneVars, laneOf, pushed, reports>>
    BY <1>9 DEF CompleteStatus, UpdateStatus, CompleteNext, taskVars
  <2>2. /\ \A u \in Tasks : pc'[Complete(u)] = IF u = t THEN stage ELSE pc[Complete(u)]
        /\ \A u \in Tasks : pc'[Route(u)] = pc[Route(u)] /\ pc'[Cancel(u)] = pc[Cancel(u)]
    BY <1>0, <2>1, GotoComplete
  <2>3. StagesOK'
    BY <1>0, <2>2 DEF StagesOK, CompleteStages
  <2>4. LockHeld'
    BY <1>0, <2>1, LockKept DEF laneVars, SavingStages
  <2>. QED  BY <2>1, <2>2, <2>3, <2>4, CallMoves DEF laneVars
<1>10. ASSUME NEW t \in Tasks, CancelTask(t) \/ CancelStatus(t)  PROVE CallCore'
  <2>1. PICK stage \in {"status", "tenant"} :
             Goto(Cancel(t), stage) /\ UNCHANGED <<laneVars, laneOf, pushed, reports>>
    BY <1>10 DEF CancelTask, CancelStatus, UpdateStatus, taskVars
  <2>2. /\ \A u \in Tasks : pc'[Cancel(u)] = IF u = t THEN stage ELSE pc[Cancel(u)]
        /\ \A u \in Tasks : pc'[Route(u)] = pc[Route(u)] /\ pc'[Complete(u)] = pc[Complete(u)]
    BY <1>0, <2>1, GotoCancel
  <2>3. StagesOK'
    BY <1>0, <2>2 DEF StagesOK, CancelStages
  <2>4. LockHeld'
    BY <1>0, <2>1, LockKept DEF laneVars, SavingStages
  <2>. QED  BY <2>1, <2>2, <2>3, <2>4, CallMoves DEF laneVars
<1>11. ASSUME NEW c \in Calls, UpdateTenant(c)  PROVE CallCore'
  <2>1. PICK stage \in {"next", "idle"} :
             /\ Goto(c, stage) /\ pc[c] = "tenant" /\ (stage = "next" => c[1] = "complete")
             /\ UNCHANGED <<laneVars, laneOf, pushed, reports>>
    BY <1>11 DEF UpdateTenant, taskVars
  <2>2. PICK t \in Tasks : c \in {Route(t), Complete(t), Cancel(t)}
    BY CallKinds
  <2>3. LockHeld'
    BY <1>0, <2>1, LockKept DEF laneVars, SavingStages
  <2>4. CASE c = Route(t)
    BY <1>0, <2>1, <2>4 DEF StagesOK, RouteStages, Replies
  <2>5. CASE c = Complete(t)
    <3>1. /\ \A u \in Tasks : pc'[Complete(u)] = IF u = t THEN stage ELSE pc[Complete(u)]
          /\ \A u \in Tasks : pc'[Route(u)] = pc[Route(u)] /\ pc'[Cancel(u)] = pc[Cancel(u)]
      BY <1>0, <2>1, <2>5, GotoComplete
    <3>2. StagesOK'
      BY <1>0, <3>1 DEF StagesOK, CompleteStages
    <3>. QED  BY <2>1, <2>3, <2>5, <3>1, <3>2, CallMoves DEF laneVars
  <2>6. CASE c = Cancel(t)
    <3>1. /\ \A u \in Tasks : pc'[Cancel(u)] = IF u = t THEN stage ELSE pc[Cancel(u)]
          /\ \A u \in Tasks : pc'[Route(u)] = pc[Route(u)] /\ pc'[Complete(u)] = pc[Complete(u)]
      BY <1>0, <2>1, <2>6, GotoCancel
    <3>2. stage = "idle"
      BY <2>1, <2>6 DEF Cancel
    <3>3. StagesOK'
      BY <1>0, <3>1, <3>2 DEF StagesOK, CancelStages
    <3>. QED  BY <2>1, <2>3, <3>1, <3>3, CallMoves DEF laneVars
  <2>. QED  BY <2>2, <2>4, <2>5, <2>6
<1>12. ASSUME NEW c \in Calls, SaveLane(c)  PROVE CallCore'
  <2>1. /\ Goto(c, AfterSave(pc[c])) /\ pc[c] \in SavingStages /\ lock = c
        /\ UNCHANGED <<laneOf, loaded, pushed, reports>>
    BY <1>12 DEF SaveLane, PersistLane
  <2>2. PICK t \in Tasks : c \in {Route(t), Complete(t), Cancel(t)}
    BY CallKinds
  <2>3. LockHeld'
    BY <1>0, <2>1, LockKept DEF SavingStages, AfterSave
  <2>4. CASE c = Route(t)
    <3>1. /\ \A u \in Tasks : pc'[Route(u)] = IF u = t THEN AfterSave(pc[c]) ELSE pc[Route(u)]
          /\ \A u \in Tasks : pc'[Complete(u)] = pc[Complete(u)] /\ pc'[Cancel(u)] = pc[Cancel(u)]
      BY <1>0, <2>1, <2>4, GotoRoute
    <3>2. \/ pc[c] = "save-acquire" /\ AfterSave(pc[c]) = "incr"
          \/ pc[c] = "save-queue" /\ AfterSave(pc[c]) = "record-queued"
      BY <1>0, <2>1, <2>4 DEF StagesOK, RouteStages, SavingStages, AfterSave, Replies
    <3>3. StagesOK'
      BY <1>0, <3>1, <3>2 DEF StagesOK, RouteStages
    <3>. QED
      BY <2>1, <2>3, <2>4, <3>1, <3>2, <3>3, CallMoves DEF Taking, Unplaced, Replies
  <2>5. CASE c = Complete(t)
    <3>1. /\ \A u \in Tasks : pc'[Complete(u)] = IF u = t THEN AfterSave(pc[c]) ELSE pc[Complete(u)]
          /\ \A u \in Tasks : pc'[Route(u)] = pc[Route(u)] /\ pc'[Cancel(u)] = pc[Cancel(u)]
      BY <1>0, <2>1, <2>5, GotoComplete
    <3>2. pc[c] = "save-release" /\ AfterSave(pc[c]) = "status"
      BY <1>0, <2>1, <2>5 DEF StagesOK, CompleteStages, SavingStages, AfterSave
    <3>3. StagesOK'
      BY <1>0, <3>1, <3>2 DEF StagesOK, CompleteStages
    <3>. QED  BY <2>1, <2>3, <2>5, <3>1, <3>2, <3>3, CallMoves
  <2>6. CASE c = Cancel(t)
    BY <1>0, <2>1, <2>6 DEF StagesOK, CancelStages, SavingStages
  <2>. QED  BY <2>2, <2>4, <2>5, <2>6
<1>13. ASSUME NEW c \in Calls, CallFails(c)  PROVE CallCore'
  <2>1. /\ Goto(c, Aborted(c)) /\ lock' = IF lock = c THEN NoCall ELSE lock
        /\ UNCHANGED <<laneOf, loaded, pushed, reports>>
        /\ pc[c] \notin {"idle"} \cup Replies
    BY <1>13 DEF CallFails, PersistFails, taskVars
  <2>2. PICK t \in Tasks : c \in {Route(t), Complete(t), Cancel(t)}
    BY CallKinds
  <2>3. LockHeld'
    BY <1>0, <2>1, LockKept, AbortedStages
  <2>4. CASE c = Route(t)
    <3>1. Aborted(c) = "dead"
      BY <2>1, <2>4 DEF Aborted, Route
    <3>2. /\ \A u \in Tasks : pc'[Route(u)] = IF u = t THEN "dead" ELSE pc[Route(u)]
          /\ \A u \in Tasks : pc'[Complete(u)] = pc[Complete(u)] /\ pc'[Cancel(u)] = pc[Cancel(u)]
      BY <1>0, <2>1, <2>4, <3>1, GotoRoute
    <3>3. StagesOK'
      BY <1>0, <3>2 DEF StagesOK, RouteStages, Replies
    <3>. QED
      BY <2>1, <2>3, <3>2, <3>3, CallMoves DEF Taking, Unplaced, Replies
  <2>5. CASE c = Complete(t)
    <3>1. /\ \A u \in Tasks : pc'[Complete(u)] = IF u = t THEN "idle" ELSE pc[Complete(u)]
          /\ \A u \in Tasks : pc'[Route(u)] = pc[Route(u)] /\ pc'[Cancel(u)] = pc[Cancel(u)]
      BY <1>0, <2>1, <2>5, AbortedStages, GotoComplete
    <3>2. StagesOK'
      BY <1>0, <3>1 DEF StagesOK, CompleteStages
    <3>. QED  BY <2>1, <2>3, <3>1, <3>2, CallMoves
  <2>6. CASE c = Cancel(t)
    <3>1. /\ \A u \in Tasks : pc'[Cancel(u)] = IF u = t THEN "idle" ELSE pc[Cancel(u)]
          /\ \A u \in Tasks : pc'[Route(u)] = pc[Route(u)] /\ pc'[Complete(u)] = pc[Complete(u)]
      BY <1>0, <2>1, <2>6, AbortedStages, GotoCancel
    <3>2. StagesOK'
      BY <1>0, <3>1 DEF StagesOK, CancelStages
    <3>. QED  BY <2>1, <2>3, <3>1, <3>2, CallMoves
  <2>. QED  BY <2>2, <2>4, <2>5, <2>6
<1>14. ASSUME Crash  PROVE CallCore'
  <2>1. \A c \in Calls : pc'[c] = Aborted(c) /\ Aborted(c) \notin SavingStages
    BY <1>0, <1>14, CallKinds, AbortedStages DEF Crash
  <2>2. UNCHANGED <<laneOf, pushed, reports>>
    BY <1>14 DEF Crash, taskVars
  <2>3. \A t \in Tasks : /\ pc'[Route(t)] \in Replies \cup {"idle"}
                         /\ pc'[Route(t)] \in {"dead", pc[Route(t)]}
                         /\ pc'[Complete(t)] = "idle" /\ pc'[Cancel(t)] = "idle"
    <3>. SUFFICES ASSUME NEW t \in Tasks
                  PROVE  /\ pc'[Route(t)] \in Replies \cup {"idle"}
                         /\ pc'[Route(t)] \in {"dead", pc[Route(t)]}
                         /\ pc'[Complete(t)] = "idle" /\ pc'[Cancel(t)] = "idle"
      OBVIOUS
    <3>1. pc'[Route(t)] \in Replies \cup {"idle"} /\ pc'[Route(t)] \in {"dead", pc[Route(t)]}
      BY <2>1 DEF Aborted, Route, Replies
    <3>. QED  BY <1>0, <2>1, <3>1, AbortedStages
  <2>4. StagesOK'
    BY <2>3 DEF StagesOK, RouteStages, CompleteStages, CancelStages
  <2>5. LockHeld'
    BY <2>1 DEF LockHeld
  <2>6. Placed'
    BY <1>0, <2>2, <2>3 DEF Placed, Taking, Unplaced
  <2>7. CallsSeeLanes'
    BY <2>3 DEF CallsSeeLanes
  <2>. QED  BY <2>4, <2>5, <2>6, <2>7 DEF CallCore
<1>15. ASSUME \/ \E t \in Tasks : TaskHashExpires(t)
              \/ LanesExpire
              \/ UNCHANGED vars
       PROVE  CallCore'
  <2>1. UNCHANGED <<pc, laneOf, pushed, reports, loaded, lock>>
    BY <1>15 DEF TaskHashExpires, LanesExpire, LanesLapse, vars, laneVars, routerVars, taskVars
  <2>2. StagesOK' /\ LockHeld'
    BY <1>0, <2>1 DEF StagesOK, LockHeld
  <2>. QED  BY <2>1, <2>2, CallMoves
<1>. QED
  BY NextCases, <1>1, <1>2, <1>3, <1>4, <1>5, <1>6, <1>7, <1>8, <1>9, <1>10, <1>11, <1>12,
     <1>13, <1>14, <1>15

LEMMA CallInit == Init => CallInv
<1>. SUFFICES ASSUME Init  PROVE CallInv
  OBVIOUS
<1>1. /\ \A t \in Tasks : /\ pc[Route(t)] = "idle" /\ pc[Complete(t)] = "idle"
                          /\ pc[Cancel(t)] = "idle" /\ reports[t] = 0
      /\ \A c \in Calls : pc[c] = "idle"
      /\ pushed = {}
  BY CallsOfTask DEF Init
<1>2. StagesOK /\ LockHeld
  BY <1>1 DEF StagesOK, RouteStages, CompleteStages, CancelStages, LockHeld, SavingStages
<1>3. Placed
  BY <1>1 DEF Placed, Taking
<1>4. CallsSeeLanes
  BY <1>1 DEF CallsSeeLanes
<1>. QED  BY <1>2, <1>3, <1>4, TypeInit DEF CallInv, CallCore


---------------------------------------------------------------------------
(* A restart finds what the process had                                    *)

\* A lane a process changes, a write it misses and a record that expires each
\* leave a mark until memory and Redis agree again.
LEMMA RestartStep == TypeOK /\ RestartRestores /\ [Next]_vars => RestartRestores'
<1>. SUFFICES ASSUME TypeOK, RestartRestores, [Next]_vars, NEW l \in Lanes
              PROVE  \/ saved'[l] = lanes'[l]
                     \/ ~loaded' \/ l \in behind' \cup lapsed'
                     \/ lock' # NoCall /\ laneOf'[lock'[2]] = l
  BY DEF RestartRestores
<1>. DEFINE Kept == \/ saved'[l] = lanes'[l]
                    \/ ~loaded' \/ l \in behind' \cup lapsed'
                    \/ lock' # NoCall /\ laneOf'[lock'[2]] = l
<1>0. /\ \/ saved[l] = lanes[l]
         \/ ~loaded \/ l \in behind \cup lapsed
         \/ lock # NoCall /\ laneOf[lock[2]] = l
      /\ lanes \in [Lanes -> LaneRecord] /\ saved \in [Lanes -> LaneRecord]
      /\ laneOf \in [Tasks -> Lanes \cup {0}]
  BY DEF RestartRestores, TypeOK, LaneTypeOK
<1>1. ASSUME UNCHANGED <<lanes, saved, loaded, lock, behind, lapsed, laneOf>>  PROVE Kept
  BY <1>0, <1>1
<1>2. ASSUME GetManager, laneOf' = laneOf  PROVE Kept
  <2>1. CASE loaded
    BY <1>0, <1>2, <2>1 DEF GetManager, lapseVars
  <2>2. CASE ~loaded
    BY <1>2, <2>2 DEF GetManager
  <2>. QED  BY <2>1, <2>2
<1>3. ASSUME NEW t \in Tasks, NEW c \in {Route(t), Complete(t)}, NEW m \in Lanes \cup {0},
             \/ AcquireLane(c, m) \/ EnqueueTask(c, t, m) \/ FreeLane(c, m)
             \/ \E u \in Tasks : HandOverLane(c, u, m),
             laneOf' = [laneOf EXCEPT ![t] = m], UNCHANGED <<saved, loaded, behind, lapsed>>
      PROVE  Kept
  <2>1. lock = NoCall /\ lock' = c /\ lock' # NoCall /\ lock'[2] = t
    <3>1. lock = NoCall /\ lock' = c
      BY <1>3 DEF AcquireLane, EnqueueTask, FreeLane, HandOverLane
    <3>2. c # NoCall
      BY NoCallIsNone, CallsOfTask
    <3>3. c[2] = t
      BY DEF Route, Complete
    <3>. QED  BY <3>1, <3>2, <3>3
  <2>2. laneOf'[t] = m
    BY <1>0, <1>3
  <2>3. CASE l = m
    BY <2>1, <2>2, <2>3
  <2>4. CASE l # m
    <3>1. PICK r : lanes' = [lanes EXCEPT ![m] = r]
      BY <1>3 DEF AcquireLane, EnqueueTask, FreeLane, HandOverLane, SetLane
    <3>2. lanes'[l] = lanes[l]
      BY <1>0, <2>4, <3>1
    <3>. QED  BY <1>0, <1>3, <2>1, <3>2
  <2>. QED  BY <2>3, <2>4
<1>4. ASSUME NEW c \in Calls, SaveLane(c)  PROVE Kept
  <2>1. /\ lock = c /\ saved' = [saved EXCEPT ![laneOf[c[2]]] = lanes[laneOf[c[2]]]]
        /\ UNCHANGED <<lanes, loaded>>
        /\ behind' = behind \ {laneOf[c[2]]} /\ lapsed' = lapsed \ {laneOf[c[2]]}
    BY <1>4 DEF SaveLane, PersistLane
  <2>2. CASE l = laneOf[c[2]]
    BY <1>0, <2>1, <2>2
  <2>3. CASE l # laneOf[c[2]]
    BY <1>0, <2>1, <2>3
  <2>. QED  BY <2>2, <2>3
<1>5. ASSUME NEW c \in Calls, CallFails(c)  PROVE Kept
  <2>1. /\ \A m \in Lanes : m \in behind' <=> m \in behind \/ (lock = c /\ m = laneOf[c[2]])
        /\ lock' = IF lock = c THEN NoCall ELSE lock
        /\ UNCHANGED <<lanes, saved, loaded, lapsed, laneOf>>
    BY <1>5 DEF CallFails, PersistFails
  <2>2. l \in behind \/ (lock = c /\ laneOf[lock[2]] = l) => l \in behind'
    <3>1. lock = c => laneOf[lock[2]] = laneOf[c[2]]
      OBVIOUS
    <3>. QED  BY <2>1, <3>1
  <2>3. lock = c \/ lock' = lock
    BY <2>1
  <2>. QED  BY <1>0, <2>1, <2>2, <2>3
<1>6. ASSUME LanesExpire  PROVE Kept
  <2>1. /\ saved' = [m \in Lanes |-> FreshLane]
        /\ lapsed' = lapsed \cup {m \in Lanes : saved[m] # FreshLane}
        /\ UNCHANGED <<lanes, loaded, lock, behind, laneOf>>
    BY <1>6 DEF LanesExpire, LanesLapse
  <2>. QED  BY <1>0, <2>1
<1>7. ASSUME Crash  PROVE Kept
  BY <1>7 DEF Crash, LoseMemory
<1>8. ASSUME NEW t \in Tasks,
             \/ RouteRequest(t) \/ RouteFindsNoLane(t) \/ RouteRejected(t) \/ RouteRecordsQueued(t)
             \/ DispatchIncr(t) \/ DispatchPush(t) \/ DispatchRecord(t)
             \/ CompleteStatus(t) \/ CompleteNext(t) \/ CancelStatus(t)
             \/ AgentReports(t) \/ AgentReportsAgain(t) \/ CancelTask(t) \/ TaskHashExpires(t)
      PROVE  Kept
  <2>1. UNCHANGED <<laneVars, laneOf>>
    BY <1>8 DEF RouteRequest, RouteFindsNoLane, RouteRejected, RouteRecordsQueued,
          DispatchIncr, DispatchPush, DispatchRecord, CompleteStatus, CompleteNext, CancelStatus,
          UpdateStatus, AgentReports, AgentReportsAgain, Report, CancelTask, TaskHashExpires
  <2>. QED  BY <1>1, <2>1 DEF laneVars, lapseVars
<1>9. ASSUME NEW t \in Tasks, RouteManager(t) \/ CompleteManager(t)  PROVE Kept
  BY <1>2, <1>9 DEF RouteManager, CompleteManager
<1>10. ASSUME NEW t \in Tasks, RouteAcquires(t)  PROVE Kept
  <2>1. PICK m \in Lanes : AcquireLane(Route(t), m) /\ laneOf' = [laneOf EXCEPT ![t] = m]
    BY <1>10 DEF RouteAcquires
  <2>2. UNCHANGED <<saved, loaded, behind, lapsed>>
    BY <1>10 DEF RouteAcquires, lapseVars
  <2>. QED  BY <1>3, <2>1, <2>2
<1>11. ASSUME NEW t \in Tasks, RouteEnqueues(t)  PROVE Kept
  <2>1. PICK m \in Lanes : EnqueueTask(Route(t), t, m) /\ laneOf' = [laneOf EXCEPT ![t] = m]
    BY <1>11 DEF RouteEnqueues
  <2>2. UNCHANGED <<saved, loaded, behind, lapsed>>
    BY <1>11 DEF RouteEnqueues, lapseVars
  <2>. QED  BY <1>3, <2>1, <2>2
<1>12. ASSUME NEW t \in Tasks, CompleteHandsOver(t) \/ CompleteFrees(t)  PROVE Kept
  <2>1. /\ FreeLane(Complete(t), laneOf[t]) \/ \E u \in Tasks : HandOverLane(Complete(t), u, laneOf[t])
        /\ UNCHANGED <<saved, loaded, behind, lapsed, laneOf>>
    BY <1>12 DEF CompleteHandsOver, CompleteFrees, lapseVars
  <2>2. laneOf' = [laneOf EXCEPT ![t] = laneOf[t]] /\ laneOf[t] \in Lanes \cup {0}
    BY <1>0, <2>1
  <2>. QED  BY <1>3, <2>1, <2>2
<1>13. ASSUME NEW c \in Calls, UpdateTenant(c)  PROVE Kept
  BY <1>1, <1>13 DEF UpdateTenant, laneVars, lapseVars
<1>14. CASE UNCHANGED vars
  BY <1>1, <1>14 DEF vars, laneVars, lapseVars, routerVars
<1>. QED
  BY NextCases, <1>4, <1>5, <1>6, <1>7, <1>8, <1>9, <1>10, <1>11, <1>12, <1>13, <1>14

\* What a restart would load of a lane is what the process has of it, unless an
\* operation is at work on the lane, its last write failed, or its record expired.
THEOREM RestartCorrect == Spec => []RestartRestores
<1>1. Init => RestartRestores
  BY DEF Init, LaneInit, RestartRestores
<1>. QED  BY <1>1, TypeInit, TypeStep, RestartStep, PTL DEF Spec


---------------------------------------------------------------------------
(* Queues: no task is handed over twice                                    *)

\* What a step does to the set of queued tasks of a lane.
LEMMA EmptyQueue == DOMAIN <<>> = {} /\ NoRepetition(<<>>)
<1>1. Len(<<>>) = 0 /\ DOMAIN <<>> = 1 .. Len(<<>>)
  OBVIOUS
<1>2. DOMAIN <<>> = {}
  BY <1>1
<1>. QED  BY <1>2 DEF NoRepetition

LEMMA QueueSteps ==
    ASSUME NEW l \in Lanes
    PROVE  /\ lanes'[l].queue = lanes[l].queue => Queued(l)' = Queued(l)
           /\ lanes'[l].queue = saved[l].queue => Queued(l)' = SavedQueued(l)
           /\ lanes'[l].queue = <<>> => Queued(l)' = {}
           /\ saved'[l].queue = saved[l].queue => SavedQueued(l)' = SavedQueued(l)
           /\ saved'[l].queue = lanes[l].queue => SavedQueued(l)' = Queued(l)
<1>1. lanes'[l].queue = <<>> => Queued(l)' = {}
  BY EmptyQueue DEF Queued
<1>. QED  BY <1>1 DEF Queued, SavedQueued

\* What release_lane does to a lane whose queue is not empty.
LEMMA HandOverLaneEffect ==
    ASSUME LaneTypeOK, NEW c \in Calls, NEW u \in Tasks, NEW l \in Lanes,
           HandOverLane(c, u, l), NoRepetition(lanes[l].queue)
    PROVE  \E rest \in Seq(Tasks) :
             /\ SetLane(l, lanes[l].status, u, rest)
             /\ \E i \in DOMAIN lanes[l].queue : lanes[l].queue[i] = u
             /\ \A i \in DOMAIN rest : \E j \in DOMAIN lanes[l].queue : lanes[l].queue[j] = rest[i]
             /\ NoRepetition(rest)
             /\ \A i \in DOMAIN rest : rest[i] # u
<1>1. PICK p \in StableOrders(lanes[l].queue) :
         LET sorted == [i \in DOMAIN p |-> lanes[l].queue[p[i]]]
         IN  u = Head(sorted) /\ SetLane(l, lanes[l].status, u, Tail(sorted))
  BY DEF HandOverLane
<1>. DEFINE sorted == [i \in DOMAIN p |-> lanes[l].queue[p[i]]]
<1>2. lanes[l].queue \in Seq(Tasks) /\ lanes[l].queue # <<>> /\ prio \in [Tasks -> Priorities]
  BY LaneFields DEF HandOverLane, LaneTypeOK
<1>3. /\ \E i \in DOMAIN lanes[l].queue : lanes[l].queue[i] = Head(sorted)
      /\ Tail(sorted) \in Seq(Tasks)
      /\ \A i \in DOMAIN Tail(sorted) :
           \E j \in DOMAIN lanes[l].queue : lanes[l].queue[j] = Tail(sorted)[i]
      /\ NoRepetition(lanes[l].queue) =>
           /\ NoRepetition(Tail(sorted))
           /\ \A i \in DOMAIN Tail(sorted) : Tail(sorted)[i] # Head(sorted)
  <2>1. \E i \in DOMAIN lanes[l].queue : lanes[l].queue[i] = Head(sorted)
    BY <1>2, SortedPop
  <2>2. Tail(sorted) \in Seq(Tasks)
    BY <1>2, SortedPop
  <2>3. \A i \in DOMAIN Tail(sorted) :
           \E j \in DOMAIN lanes[l].queue : lanes[l].queue[j] = Tail(sorted)[i]
    BY <1>2, SortedPop
  <2>4. NoRepetition(lanes[l].queue) => NoRepetition(Tail(sorted))
    BY <1>2, SortedPop
  <2>5. NoRepetition(lanes[l].queue) =>
           \A i \in DOMAIN Tail(sorted) : Tail(sorted)[i] # Head(sorted)
    BY <1>2, SortedPop, SMTT(30)
  <2>. QED  BY <2>1, <2>2, <2>3, <2>4, <2>5
<1>. HIDE DEF sorted
<1>4. u = Head(sorted) /\ SetLane(l, lanes[l].status, u, Tail(sorted))
  BY <1>1 DEF sorted
<1>. QED  BY <1>3, <1>4

LEMMA QueuedTasks ==
    ASSUME LaneTypeOK, NEW l \in Lanes
    PROVE  Queued(l) \subseteq Tasks /\ SavedQueued(l) \subseteq Tasks
<1>1. lanes[l].queue \in Seq(Tasks) /\ saved[l].queue \in Seq(Tasks)
  BY LaneFields
<1>. QED  BY <1>1 DEF Queued, SavedQueued

\* Steps that drop or reload queues and move calls on, and neither enqueue, nor
\* hand over, nor save.
Recedes ==
    /\ UNCHANGED <<handed, arrivals, prio>>
    /\ \A l \in Lanes : \/ lanes'[l].queue = lanes[l].queue
                        \/ lanes'[l].queue = <<>>
                        \/ ~loaded /\ lanes'[l].queue = saved[l].queue
    /\ \A l \in Lanes : saved'[l].queue = saved[l].queue \/ saved'[l].queue = <<>>
    /\ \A t \in Tasks : laneOf'[t] = laneOf[t] \/ pc[Route(t)] \in Unplaced
    /\ \A t \in Tasks : pc'[Route(t)] \in OffQueue => pc[Route(t)] \in OffQueue
    /\ \A u, t \in Tasks : HandingOver(u, t)' => HandingOver(u, t)

\* What moves the calls of one task and leaves lanes and hand-overs alone recedes.
LEMMA CallRecedes ==
    ASSUME TypeOK, UNCHANGED <<lanes, saved, laneOf, next, handed, arrivals, prio>>,
           \A t \in Tasks : pc'[Route(t)] \in OffQueue => pc[Route(t)] \in OffQueue,
           \A t \in Tasks : pc'[Complete(t)] = "save-release" => pc[Complete(t)] = "save-release"
    PROVE  Recedes
  BY DEF Recedes, HandingOver

LEMMA StepKinds ==
    ASSUME CallInv, [Next]_vars
    PROVE  \/ Recedes
           \/ \E t \in Tasks : RouteEnqueues(t) \/ CompleteHandsOver(t)
           \/ \E c \in Calls : SaveLane(c)
<1>0. TypeOK /\ StagesOK /\ LaneTypeOK
  BY DEF CallInv, CallCore, TypeOK
<1>. USE CallsOfTask
<1>1. ASSUME NEW t \in Tasks,
             \/ RouteRequest(t) \/ RouteFindsNoLane(t) \/ RouteRejected(t)
             \/ RouteRecordsQueued(t) \/ DispatchRecord(t) \/ DispatchIncr(t) \/ DispatchPush(t)
      PROVE  Recedes
  <2>1. PICK stage : Goto(Route(t), stage) /\ (stage \in OffQueue => pc[Route(t)] \in OffQueue)
    BY <1>1 DEF RouteRequest, RouteFindsNoLane, RouteRejected, RouteRecordsQueued, DispatchRecord,
          DispatchIncr, DispatchPush, Answers, OffQueue, Unplaced, Taking, Given
  <2>2. UNCHANGED <<lanes, saved, laneOf, next, handed, arrivals, prio>>
    BY <1>1 DEF RouteRequest, RouteFindsNoLane, RouteRejected, RouteRecordsQueued, DispatchRecord,
          DispatchIncr, DispatchPush, laneVars, taskVars
  <2>. QED  BY <1>0, <2>1, <2>2, GotoRoute, CallRecedes
<1>2. ASSUME NEW t \in Tasks, RouteManager(t) \/ CompleteManager(t)  PROVE Recedes
  <2>1. /\ \A u \in Tasks : pc'[Route(u)] \in OffQueue => pc[Route(u)] \in OffQueue
        /\ \A u \in Tasks : pc'[Complete(u)] = "save-release" => pc[Complete(u)] = "save-release"
    <3>1. CASE RouteManager(t)
      <4>1. pc[Route(t)] = "manager" /\ Goto(Route(t), "acquire")
        BY <3>1 DEF RouteManager
      <4>. QED  BY <1>0, <4>1, GotoRoute DEF OffQueue, Unplaced
    <3>2. CASE CompleteManager(t)
      <4>1. Goto(Complete(t), "release")
        BY <3>2 DEF CompleteManager
      <4>. QED  BY <1>0, <4>1, GotoComplete
    <3>. QED  BY <1>2, <3>1, <3>2
  <2>2. GetManager /\ UNCHANGED <<laneOf, next, handed, arrivals>>
    BY <1>2 DEF RouteManager, CompleteManager, taskVars
  <2>3. \A l \in Lanes : lanes'[l] = lanes[l] \/ (~loaded /\ lanes'[l] = saved[l])
    <3>1. CASE loaded
      BY <2>2, <3>1 DEF GetManager, lapseVars
    <3>2. CASE ~loaded
      BY <2>2, <3>2 DEF GetManager
    <3>. QED  BY <3>1, <3>2
  <2>4. saved' = saved /\ prio' = prio
    BY <2>2 DEF GetManager
  <2>. QED  BY <2>1, <2>2, <2>3, <2>4 DEF Recedes, HandingOver
<1>3. ASSUME NEW t \in Tasks, RouteAcquires(t)  PROVE Recedes
  <2>1. PICK l \in Lanes : AcquireLane(Route(t), l) /\ laneOf' = [laneOf EXCEPT ![t] = l]
    BY <1>3 DEF RouteAcquires
  <2>2. /\ pc[Route(t)] = "acquire" /\ Goto(Route(t), "save-acquire")
        /\ UNCHANGED <<saved, next, handed, arrivals, prio>>
    BY <1>3 DEF RouteAcquires, taskVars
  <2>3. \A m \in Lanes : lanes'[m].queue = lanes[m].queue
    BY <1>0, <2>1 DEF AcquireLane, SetLane, LaneTypeOK
  <2>4. \A u \in Tasks : laneOf'[u] = laneOf[u] \/ pc[Route(u)] \in Unplaced
    BY <1>0, <2>1, <2>2 DEF TypeOK, Unplaced
  <2>5. /\ \A u \in Tasks : pc'[Route(u)] \in OffQueue => pc[Route(u)] \in OffQueue
        /\ \A u \in Tasks : pc'[Complete(u)] = pc[Complete(u)]
    BY <1>0, <2>2, GotoRoute DEF OffQueue, Unplaced
  <2>. QED  BY <2>2, <2>3, <2>4, <2>5 DEF Recedes, HandingOver
<1>4. ASSUME NEW t \in Tasks, CompleteFrees(t)  PROVE Recedes
  <2>1. /\ FreeLane(Complete(t), laneOf[t]) /\ Goto(Complete(t), "save-release")
        /\ next' = [next EXCEPT ![t] = NoTask]
        /\ UNCHANGED <<saved, laneOf, handed, arrivals, prio>>
    BY <1>4 DEF CompleteFrees, taskVars
  <2>2. \A m \in Lanes : lanes'[m].queue = lanes[m].queue
    BY <1>0, <2>1 DEF FreeLane, SetLane, LaneTypeOK
  <2>3. /\ \A u \in Tasks : pc'[Route(u)] = pc[Route(u)]
        /\ \A u \in Tasks : u # t => pc'[Complete(u)] = pc[Complete(u)]
    BY <1>0, <2>1, GotoComplete
  <2>4. next'[t] \notin Tasks /\ \A u \in Tasks : u # t => next'[u] = next[u]
    BY <1>0, <2>1, RouterAssumption DEF TypeOK, RouterAssumption
  <2>5. \A u, x \in Tasks : HandingOver(u, x)' => HandingOver(u, x)
    BY <2>3, <2>4 DEF HandingOver
  <2>. QED  BY <2>1, <2>2, <2>3, <2>5 DEF Recedes
<1>5. ASSUME NEW t \in Tasks,
             \/ CompleteStatus(t) \/ CompleteNext(t) \/ CancelStatus(t) \/ CancelTask(t)
             \/ AgentReports(t) \/ AgentReportsAgain(t)
      PROVE  Recedes
  <2>1. PICK c \in {Complete(t), Cancel(t)}, stage \in {"idle", "manager", "status", "tenant"} :
             Goto(c, stage)
    BY <1>5 DEF CompleteStatus, CompleteNext, CancelStatus, CancelTask, UpdateStatus,
          AgentReports, AgentReportsAgain, Report
  <2>2. UNCHANGED <<lanes, saved, laneOf, next, handed, arrivals, prio>>
    BY <1>5 DEF CompleteStatus, CompleteNext, CancelStatus, CancelTask, UpdateStatus,
          AgentReports, AgentReportsAgain, Report, laneVars, taskVars
  <2>3. CASE c = Complete(t)
    BY <1>0, <2>1, <2>2, <2>3, GotoComplete, CallRecedes
  <2>4. CASE c = Cancel(t)
    BY <1>0, <2>1, <2>2, <2>4, GotoCancel, CallRecedes
  <2>. QED  BY <2>1, <2>3, <2>4
<1>6. ASSUME NEW c \in Calls, UpdateTenant(c) \/ CallFails(c)  PROVE Recedes
  <2>1. PICK stage : Goto(c, stage) /\ (stage \in {"next", "idle", Aborted(c)})
    BY <1>6 DEF UpdateTenant, CallFails
  <2>2. UNCHANGED <<lanes, saved, laneOf, next, handed, arrivals, prio>>
    BY <1>6 DEF UpdateTenant, CallFails, PersistFails, laneVars, taskVars
  <2>3. pc[c] \notin {"idle"} \cup Replies
    BY <1>6 DEF UpdateTenant, CallFails, Replies
  <2>4. PICK t \in Tasks : c \in {Route(t), Complete(t), Cancel(t)}
    BY CallKinds
  <2>5. CASE c = Route(t)
    <3>1. stage = "dead"
      <4>1. CallFails(c)
        BY <1>0, <1>6, <2>5 DEF UpdateTenant, StagesOK, RouteStages, Replies
      <4>2. Goto(c, Aborted(c)) /\ Aborted(c) = "dead"
        BY <2>3, <2>5, <4>1 DEF CallFails, Aborted, Route
      <4>. QED  BY <1>0, <2>1, <2>5, <4>2, GotoRoute
    <3>. QED
      BY <1>0, <2>1, <2>2, <2>5, <3>1, GotoRoute, CallRecedes DEF OffQueue, Unplaced, Taking, Given
  <2>6. CASE c = Complete(t)
    <3>1. stage # "save-release"
      BY <1>0, <2>1, <2>6, AbortedStages
    <3>. QED  BY <1>0, <2>1, <2>2, <2>6, <3>1, GotoComplete, CallRecedes
  <2>7. CASE c = Cancel(t)
    BY <1>0, <2>1, <2>2, <2>7, GotoCancel, CallRecedes
  <2>. QED  BY <2>4, <2>5, <2>6, <2>7
<1>7. ASSUME Crash  PROVE Recedes
  <2>1. /\ lanes' = [l \in Lanes |-> FreshLane]
        /\ UNCHANGED <<saved, laneOf, next, handed, arrivals, prio>>
        /\ \A c \in Calls : pc'[c] = Aborted(c)
    BY <1>7 DEF Crash, LoseMemory, taskVars
  <2>2. \A t \in Tasks : pc'[Route(t)] \in {"dead", pc[Route(t)]} /\ pc'[Complete(t)] = "idle"
    <3>. SUFFICES ASSUME NEW t \in Tasks
                  PROVE  pc'[Route(t)] \in {"dead", pc[Route(t)]} /\ pc'[Complete(t)] = "idle"
      OBVIOUS
    <3>1. pc'[Route(t)] \in {"dead", pc[Route(t)]}
      BY <2>1 DEF Aborted, Route
    <3>. QED  BY <1>0, <2>1, <3>1, AbortedStages
  <2>3. \A t \in Tasks : pc'[Route(t)] \in OffQueue => pc[Route(t)] \in OffQueue
    BY <2>2 DEF OffQueue, Unplaced, Taking, Given
  <2>. QED  BY <2>1, <2>2, <2>3 DEF Recedes, HandingOver, FreshLane
<1>8. ASSUME LanesExpire  PROVE Recedes
  <2>1. saved' = [l \in Lanes |-> FreshLane]
        /\ UNCHANGED <<lanes, pc, laneOf, next, handed, arrivals, prio>>
    BY <1>8 DEF LanesExpire, LanesLapse, taskVars
  <2>. QED  BY <2>1 DEF Recedes, HandingOver, FreshLane
<1>9. ASSUME (\E t \in Tasks : TaskHashExpires(t)) \/ UNCHANGED vars  PROVE Recedes
  <2>1. UNCHANGED <<lanes, saved, pc, laneOf, next, handed, arrivals, prio>>
    BY <1>9 DEF TaskHashExpires, vars, laneVars, routerVars, taskVars
  <2>. QED  BY <1>0, <2>1, CallRecedes
<1>. QED
  BY NextCases, <1>1, <1>2, <1>3, <1>4, <1>5, <1>6, <1>7, <1>8, <1>9

\* The queues after such a step hold no more than before.
LEMMA QueuesRecede ==
    ASSUME TypeOK, Recedes, NEW l \in Lanes
    PROVE  /\ Queued(l)' \subseteq Queued(l) \cup SavedQueued(l)
           /\ loaded => Queued(l)' \subseteq Queued(l)
           /\ SavedQueued(l)' \subseteq SavedQueued(l)
           /\ Queued(l) \subseteq Tasks /\ SavedQueued(l) \subseteq Tasks
<1>1. SavedQueued(l)' \subseteq SavedQueued(l)
  <2>1. saved'[l].queue = <<>> => SavedQueued(l)' = {}
    BY EmptyQueue DEF SavedQueued
  <2>. QED  BY <2>1, QueueSteps DEF Recedes
<1>. QED  BY <1>1, QueueSteps, QueuedTasks DEF Recedes, TypeOK

LEMMA QueueRecedes ==
    ASSUME QueueInv, Recedes
    PROVE  QueueCore'
<1>0. /\ TypeOK /\ QueuesDistinct /\ QueuesHoldOwn /\ NeverQueued /\ HandOverOK /\ HandedOnce
      /\ Placed /\ CallsSeeLanes
  BY DEF QueueInv, CallInv, CallCore, QueueCore
<1>1. QueuesDistinct'
  BY <1>0, EmptyQueue DEF QueuesDistinct, Recedes
<1>2. QueuesHoldOwn'
  <2>. SUFFICES ASSUME NEW l \in Lanes, NEW t \in Queued(l)' \cup SavedQueued(l)'
                PROVE  laneOf'[t] = l /\ handed'[t] = 0
    BY DEF QueuesHoldOwn
  <2>1. t \in Queued(l) \cup SavedQueued(l) /\ t \in Tasks
    BY <1>0, QueuesRecede
  <2>2. laneOf[t] = l /\ handed[t] = 0 /\ pc[Route(t)] \notin OffQueue
    BY <1>0, <2>1 DEF QueuesHoldOwn, NeverQueued
  <2>. QED  BY <2>1, <2>2 DEF Recedes, OffQueue
<1>3. NeverQueued'
  BY <1>0, QueuesRecede DEF NeverQueued, Recedes
<1>4. HandOverOK'
  <2>. SUFFICES ASSUME NEW u \in Tasks, NEW t \in Tasks, HandingOver(u, t)'
                PROVE  /\ laneOf'[t] = laneOf'[u] /\ handed'[t] = 0
                       /\ pc'[Route(t)] \notin OffQueue
                       /\ \A l \in Lanes : t \notin Queued(l)'
    BY DEF HandOverOK
  <2>1. HandingOver(u, t)
    BY DEF Recedes
  <2>2. /\ laneOf[t] = laneOf[u] /\ handed[t] = 0 /\ pc[Route(t)] \notin OffQueue
        /\ \A l \in Lanes : t \notin Queued(l)
    BY <1>0, <2>1 DEF HandOverOK
  <2>3. loaded
    BY <1>0, <2>1 DEF CallsSeeLanes, HandingOver
  <2>4. pc[Route(u)] \notin Unplaced /\ pc[Route(t)] \notin Unplaced
    BY <1>0, <2>1, <2>2 DEF Placed, HandingOver, OffQueue
  <2>. QED  BY <1>0, <2>2, <2>3, <2>4, QueuesRecede DEF Recedes
<1>. QED  BY <1>0, <1>1, <1>2, <1>3, <1>4 DEF QueueCore, HandedOnce, Recedes


\* What a save writes, and what it returns to the completion that asked for it.
LEMMA SaveEffect ==
    ASSUME QueueInv, NEW c \in Calls, SaveLane(c)
    PROVE  \E l \in Lanes \cup {0} :
             /\ laneOf[c[2]] = l /\ lock = c /\ loaded
             /\ UNCHANGED <<lanes, laneOf, next, prio, arrivals>>
             /\ \A m \in Lanes : /\ saved'[m].queue = IF m = l THEN lanes[m].queue ELSE saved[m].queue
                                 /\ Queued(m)' = Queued(m)
                                 /\ SavedQueued(m)' = IF m = l THEN Queued(m) ELSE SavedQueued(m)
             /\ \A t \in Tasks : pc'[Route(t)] \in OffQueue => pc[Route(t)] \in OffQueue
             /\ \A u, t \in Tasks : ~HandingOver(u, t)'
             /\ \/ handed' = handed
                \/ \E u, t \in Tasks : /\ c = Complete(u) /\ HandingOver(u, t) /\ laneOf[u] = l
                                       /\ handed' = [handed EXCEPT ![t] = handed[t] + 1]
<1>0. TypeOK /\ StagesOK /\ LockHeld /\ CallsSeeLanes
  BY DEF QueueInv, CallInv, CallCore
<1>. USE CallsOfTask
<1>1. /\ pc[c] \in SavingStages /\ lock = c
      /\ saved' = [saved EXCEPT ![laneOf[c[2]]] = lanes[laneOf[c[2]]]]
      /\ UNCHANGED <<lanes, laneOf, next, prio, arrivals>>
      /\ Goto(c, AfterSave(pc[c]))
  BY DEF SaveLane, PersistLane
<1>2. PICK v \in Tasks : c \in {Route(v), Complete(v), Cancel(v)} /\ c[2] = v
  BY CallKinds
<1>3. c # Cancel(v)
  BY <1>0, <1>1 DEF StagesOK, CancelStages, SavingStages
<1>4. laneOf[v] \in Lanes \cup {0}
  BY <1>0 DEF TypeOK
<1>5. loaded
  <2>1. CASE c = Route(v)
    BY <1>0, <1>1, <2>1 DEF CallsSeeLanes, SavingStages, Replies
  <2>2. CASE c = Complete(v)
    BY <1>0, <1>1, <2>2 DEF CallsSeeLanes, SavingStages
  <2>. QED  BY <1>2, <1>3, <2>1, <2>2
<1>6. \A m \in Lanes : saved'[m].queue = IF m = laneOf[v] THEN lanes[m].queue ELSE saved[m].queue
  BY <1>0, <1>1, <1>2 DEF TypeOK, LaneTypeOK
<1>7. \A m \in Lanes : /\ Queued(m)' = Queued(m)
                       /\ SavedQueued(m)' = IF m = laneOf[v] THEN Queued(m) ELSE SavedQueued(m)
  BY <1>1, <1>6, QueueSteps
<1>8. \A t \in Tasks : pc'[Route(t)] \in OffQueue => pc[Route(t)] \in OffQueue
  <2>1. CASE c = Route(v)
    <3>1. \A t \in Tasks : pc'[Route(t)] = IF t = v THEN AfterSave(pc[c]) ELSE pc[Route(t)]
      BY <1>0, <1>1, <2>1, GotoRoute
    <3>2. pc[c] = "save-acquire" \/ AfterSave(pc[c]) \in {"record-queued", "status"}
      BY <1>1 DEF SavingStages, AfterSave
    <3>. QED  BY <2>1, <3>1, <3>2 DEF OffQueue, Unplaced, Taking, Given
  <2>2. CASE c = Complete(v)
    BY <1>0, <1>1, <2>2, GotoComplete
  <2>. QED  BY <1>2, <1>3, <2>1, <2>2
<1>9. \A u, t \in Tasks : ~HandingOver(u, t)'
  <2>. SUFFICES ASSUME NEW u \in Tasks, pc'[Complete(u)] = "save-release"  PROVE FALSE
    BY DEF HandingOver
  <2>1. AfterSave(pc[c]) # "save-release"
    BY <1>1 DEF SavingStages, AfterSave
  <2>2. pc[Complete(u)] = "save-release" /\ Complete(u) # c
    BY <1>0, <1>1, <2>1 DEF Goto, TypeOK
  <2>. QED  BY <1>0, <1>1, <2>2 DEF LockHeld, SavingStages
<1>10. \/ handed' = handed
       \/ \E u, t \in Tasks : /\ c = Complete(u) /\ HandingOver(u, t) /\ laneOf[u] = laneOf[v]
                              /\ handed' = [handed EXCEPT ![t] = handed[t] + 1]
  <2>. SUFFICES ASSUME handed' # handed
                PROVE  /\ c = Complete(v) /\ HandingOver(v, next[v]) /\ next[v] \in Tasks
                       /\ handed' = [handed EXCEPT ![next[v]] = handed[next[v]] + 1]
    OBVIOUS
  <2>1. /\ pc[c] = "save-release" /\ next[v] # NoTask
        /\ handed' = [handed EXCEPT ![next[v]] = handed[next[v]] + 1]
    BY <1>2 DEF SaveLane
  <2>2. c = Complete(v)
    BY <1>0, <1>2, <1>3, <2>1 DEF StagesOK, RouteStages, Replies
  <2>. QED  BY <1>0, <2>1, <2>2 DEF HandingOver, TypeOK
<1>. QED  BY <1>1, <1>2, <1>4, <1>5, <1>6, <1>7, <1>8, <1>9, <1>10

\* The save of a hand-over counts it: the task was popped, is in no other lane,
\* and leaves the saved queue of its own.
LEMMA QueueSaves ==
    ASSUME QueueInv, NEW c \in Calls, SaveLane(c)
    PROVE  QueueCore'
<1>0. /\ TypeOK /\ QueuesDistinct /\ QueuesHoldOwn /\ NeverQueued /\ HandOverOK /\ HandedOnce
  BY DEF QueueInv, CallInv, QueueCore
<1>1. PICK l \in Lanes \cup {0} :
        /\ laneOf[c[2]] = l
        /\ UNCHANGED <<lanes, laneOf>>
        /\ \A m \in Lanes : /\ saved'[m].queue = IF m = l THEN lanes[m].queue ELSE saved[m].queue
                            /\ Queued(m)' = Queued(m)
                            /\ SavedQueued(m)' = IF m = l THEN Queued(m) ELSE SavedQueued(m)
        /\ \A t \in Tasks : pc'[Route(t)] \in OffQueue => pc[Route(t)] \in OffQueue
        /\ \A u, t \in Tasks : ~HandingOver(u, t)'
        /\ \/ handed' = handed
           \/ \E u, t \in Tasks : /\ c = Complete(u) /\ HandingOver(u, t) /\ laneOf[u] = l
                                  /\ handed' = [handed EXCEPT ![t] = handed[t] + 1]
  BY SaveEffect
<1>2. ASSUME NEW t \in Tasks, handed'[t] # handed[t]
      PROVE  /\ handed'[t] = 1 /\ pc[Route(t)] \notin OffQueue
             /\ \A m \in Lanes : t \notin Queued(m)' \cup SavedQueued(m)'
  <2>1. PICK u \in Tasks, x \in Tasks : /\ HandingOver(u, x) /\ laneOf[u] = l
                                        /\ handed' = [handed EXCEPT ![x] = handed[x] + 1]
    BY <1>1, <1>2
  <2>2. x = t
    BY <1>0, <1>2, <2>1 DEF TypeOK
  <2>3. /\ laneOf[t] = l /\ handed[t] = 0 /\ pc[Route(t)] \notin OffQueue
        /\ \A m \in Lanes : t \notin Queued(m)
    BY <1>0, <2>1, <2>2 DEF HandOverOK
  <2>4. handed'[t] = 1
    BY <1>0, <2>1, <2>2, <2>3 DEF TypeOK
  <2>5. \A m \in Lanes : m # l => t \notin SavedQueued(m)
    BY <1>0, <2>3 DEF QueuesHoldOwn
  <2>. QED  BY <1>1, <2>3, <2>4, <2>5
<1>3. \A m \in Lanes : /\ Queued(m)' \cup SavedQueued(m)' \subseteq Queued(m) \cup SavedQueued(m)
                       /\ Queued(m) \cup SavedQueued(m) \subseteq Tasks
  BY <1>0, <1>1, QueuedTasks DEF TypeOK
<1>4. QueuesDistinct'
  BY <1>0, <1>1 DEF QueuesDistinct
<1>5. QueuesHoldOwn'
  <2>. SUFFICES ASSUME NEW m \in Lanes, NEW t \in Queued(m)' \cup SavedQueued(m)'
                PROVE  laneOf'[t] = m /\ handed'[t] = 0
    BY DEF QueuesHoldOwn
  <2>1. t \in Tasks /\ laneOf[t] = m /\ handed[t] = 0
    BY <1>0, <1>3 DEF QueuesHoldOwn
  <2>. QED  BY <1>1, <1>2, <2>1
<1>6. NeverQueued'
  <2>. SUFFICES ASSUME NEW t \in Tasks, pc'[Route(t)] \in OffQueue
                PROVE  handed'[t] = 0 /\ \A m \in Lanes : t \notin Queued(m)' \cup SavedQueued(m)'
    BY DEF NeverQueued
  <2>1. pc[Route(t)] \in OffQueue
    BY <1>1
  <2>2. handed[t] = 0 /\ \A m \in Lanes : t \notin Queued(m) \cup SavedQueued(m)
    BY <1>0, <2>1 DEF NeverQueued
  <2>. QED  BY <1>2, <1>3, <2>1, <2>2
<1>7. HandOverOK'
  BY <1>1 DEF HandOverOK
<1>8. HandedOnce'
  <2>. SUFFICES ASSUME NEW t \in Tasks  PROVE handed'[t] <= 1
    BY DEF HandedOnce
  <2>1. handed[t] <= 1
    BY <1>0 DEF HandedOnce
  <2>. QED  BY <1>2, <2>1
<1>. QED  BY <1>4, <1>5, <1>6, <1>7, <1>8 DEF QueueCore

\* A task joins the queue of the lane it was assigned, and was in none before.
LEMMA EnqueueEffect ==
    ASSUME TypeOK, NEW t \in Tasks, RouteEnqueues(t)
    PROVE  \E l \in Lanes :
             /\ lock = NoCall /\ pc[Route(t)] = "enqueue"
             /\ UNCHANGED <<saved, loaded, next, handed, prio, reports, pushed>>
             /\ arrivals' = Append(arrivals, t)
             /\ \A u \in Tasks : pc'[Route(u)] = IF u = t THEN "save-queue" ELSE pc[Route(u)]
             /\ \A u \in Tasks : pc'[Complete(u)] = pc[Complete(u)]
             /\ laneOf'[t] = l /\ \A u \in Tasks : u # t => laneOf'[u] = laneOf[u]
             /\ lanes'[l].queue = Append(lanes[l].queue, t)
             /\ \A m \in Lanes : m # l => lanes'[m].queue = lanes[m].queue
             /\ \A m \in Lanes : \A u \in Tasks :
                  u \in Queued(m)' => u \in Queued(m) \/ (u = t /\ m = l)
             /\ \A m \in Lanes : SavedQueued(m)' = SavedQueued(m)
<1>1. PICK l \in Lanes : EnqueueTask(Route(t), t, l) /\ laneOf' = [laneOf EXCEPT ![t] = l]
  BY DEF RouteEnqueues
<1>2. /\ pc[Route(t)] = "enqueue" /\ arrivals' = Append(arrivals, t)
      /\ UNCHANGED <<saved, loaded, next, handed, prio, reports, pushed>>
      /\ lock = NoCall
  BY <1>1 DEF RouteEnqueues, EnqueueTask
<1>3. /\ \A u \in Tasks : pc'[Route(u)] = IF u = t THEN "save-queue" ELSE pc[Route(u)]
      /\ \A u \in Tasks : pc'[Complete(u)] = pc[Complete(u)]
  BY GotoRoute DEF RouteEnqueues
<1>4. laneOf'[t] = l /\ \A u \in Tasks : u # t => laneOf'[u] = laneOf[u]
  BY <1>1 DEF TypeOK
<1>5. /\ lanes'[l].queue = Append(lanes[l].queue, t)
      /\ \A m \in Lanes : m # l => lanes'[m].queue = lanes[m].queue
  BY <1>1 DEF EnqueueTask, SetLane, TypeOK, LaneTypeOK
<1>6. lanes[l].queue \in Seq(Tasks)
  BY LaneFields DEF TypeOK
<1>7. \A u \in Tasks : u \in Queued(l)' => u \in Queued(l) \/ u = t
  BY <1>5, <1>6, Appended DEF Queued
<1>8. \A m \in Lanes : m # l => Queued(m)' = Queued(m)
  BY <1>5, QueueSteps
<1>9. \A m \in Lanes : SavedQueued(m)' = SavedQueued(m)
  BY <1>2, QueueSteps
<1>10. \A m \in Lanes : \A u \in Tasks : u \in Queued(m)' => u \in Queued(m) \/ (u = t /\ m = l)
  BY <1>7, <1>8
<1>. QED  BY <1>2, <1>3, <1>4, <1>5, <1>9, <1>10, Zenon

LEMMA QueueEnqueues ==
    ASSUME QueueInv, TypeOK', NEW t \in Tasks, RouteEnqueues(t)
    PROVE  QueueCore'
<1>0. /\ TypeOK /\ QueuesDistinct /\ QueuesHoldOwn /\ NeverQueued /\ HandedOnce /\ LockHeld
  BY DEF QueueInv, CallInv, CallCore, QueueCore
<1>1. PICK l \in Lanes :
        /\ lock = NoCall /\ pc[Route(t)] = "enqueue"
        /\ UNCHANGED <<saved, handed>>
        /\ \A u \in Tasks : pc'[Route(u)] = IF u = t THEN "save-queue" ELSE pc[Route(u)]
        /\ \A u \in Tasks : pc'[Complete(u)] = pc[Complete(u)]
        /\ laneOf'[t] = l /\ \A u \in Tasks : u # t => laneOf'[u] = laneOf[u]
        /\ lanes'[l].queue = Append(lanes[l].queue, t)
        /\ \A m \in Lanes : m # l => lanes'[m].queue = lanes[m].queue
        /\ \A m \in Lanes : \A u \in Tasks :
             u \in Queued(m)' => u \in Queued(m) \/ (u = t /\ m = l)
        /\ \A m \in Lanes : SavedQueued(m)' = SavedQueued(m)
  BY <1>0, EnqueueEffect
<1>2. handed[t] = 0 /\ \A m \in Lanes : t \notin Queued(m) \cup SavedQueued(m)
  BY <1>0, <1>1 DEF NeverQueued, OffQueue, Unplaced
<1>3. \A m \in Lanes : Queued(m)' \cup SavedQueued(m)' \subseteq Tasks
  <2>1. \A m \in Lanes : lanes'[m].queue \in Seq(Tasks) /\ saved'[m].queue \in Seq(Tasks)
    BY DEF TypeOK, LaneTypeOK, LaneRecord
  <2>. QED  BY <2>1 DEF Queued, SavedQueued
<1>4. QueuesDistinct'
  <2>1. lanes[l].queue \in Seq(Tasks) /\ \A i \in DOMAIN lanes[l].queue : lanes[l].queue[i] # t
    BY <1>0, <1>2, LaneFields DEF Queued, TypeOK
  <2>2. NoRepetition(lanes'[l].queue)
    BY <1>0, <1>1, <2>1, Appended DEF QueuesDistinct
  <2>. QED  BY <1>0, <1>1, <2>2 DEF QueuesDistinct
<1>5. QueuesHoldOwn'
  <2>. SUFFICES ASSUME NEW m \in Lanes, NEW u \in Queued(m)' \cup SavedQueued(m)'
                PROVE  laneOf'[u] = m /\ handed'[u] = 0
    BY DEF QueuesHoldOwn
  <2>1. u \in Tasks
    BY <1>3
  <2>2. CASE u = t
    BY <1>1, <1>2, <2>1, <2>2
  <2>3. CASE u # t
    BY <1>0, <1>1, <2>1, <2>3 DEF QueuesHoldOwn
  <2>. QED  BY <2>2, <2>3
<1>6. NeverQueued'
  <2>. SUFFICES ASSUME NEW u \in Tasks, pc'[Route(u)] \in OffQueue
                PROVE  handed'[u] = 0 /\ \A m \in Lanes : u \notin Queued(m)' \cup SavedQueued(m)'
    BY DEF NeverQueued
  <2>1. u # t
    BY <1>1 DEF OffQueue, Unplaced, Taking, Given
  <2>. QED  BY <1>0, <1>1, <2>1 DEF NeverQueued
<1>7. HandOverOK'
  <2>1. \A u \in Tasks : pc[Complete(u)] # "save-release"
    BY <1>0, <1>1, NoCallIsNone, CallsOfTask DEF LockHeld, SavingStages
  <2>. QED  BY <1>1, <2>1 DEF HandOverOK, HandingOver
<1>. QED  BY <1>0, <1>1, <1>4, <1>5, <1>6, <1>7 DEF QueueCore, HandedOnce

\* The head of the sorted queue leaves the only queue in memory that it was in.
LEMMA HandOverEffect ==
    ASSUME QueueInv, NEW t \in Tasks, CompleteHandsOver(t)
    PROVE  \E u \in Tasks, l \in Lanes :
             /\ laneOf[t] = l /\ lock = NoCall /\ loaded /\ HandOverLane(Complete(t), u, l)
             /\ UNCHANGED <<saved, laneOf, handed, arrivals, prio, loaded>>
             /\ \A v \in Tasks : pc'[Route(v)] = pc[Route(v)]
             /\ \A v, x \in Tasks : HandingOver(v, x)' <=> v = t /\ x = u
             /\ u \in Queued(l) /\ u \notin Queued(l)'
             /\ NoRepetition(lanes'[l].queue)
             /\ \A m \in Lanes : m # l => lanes'[m].queue = lanes[m].queue
             /\ \A m \in Lanes : Queued(m)' \subseteq Queued(m) /\ SavedQueued(m)' = SavedQueued(m)
<1>0. TypeOK /\ LaneTypeOK /\ LockHeld /\ Placed /\ CallsSeeLanes /\ QueuesDistinct
  BY DEF QueueInv, CallInv, CallCore, QueueCore, TypeOK
<1>1. PICK u \in Tasks : HandOverLane(Complete(t), u, laneOf[t]) /\ next' = [next EXCEPT ![t] = u]
  BY DEF CompleteHandsOver
<1>2. /\ pc[Complete(t)] = "release" /\ Goto(Complete(t), "save-release") /\ lock = NoCall
      /\ UNCHANGED <<saved, laneOf, handed, arrivals, prio, loaded>>
  BY <1>1 DEF CompleteHandsOver, HandOverLane, taskVars
<1>3. laneOf[t] \in Lanes /\ loaded
  BY <1>0, <1>2 DEF Placed, CallsSeeLanes
<1>4. PICK rest \in Seq(Tasks) :
        /\ SetLane(laneOf[t], lanes[laneOf[t]].status, u, rest)
        /\ \E i \in DOMAIN lanes[laneOf[t]].queue : lanes[laneOf[t]].queue[i] = u
        /\ \A i \in DOMAIN rest :
             \E j \in DOMAIN lanes[laneOf[t]].queue : lanes[laneOf[t]].queue[j] = rest[i]
        /\ NoRepetition(rest)
        /\ \A i \in DOMAIN rest : rest[i] # u
  <2>1. Complete(t) \in Calls /\ NoRepetition(lanes[laneOf[t]].queue)
    BY <1>0, <1>3, CallsOfTask DEF QueuesDistinct
  <2>. QED  BY <1>0, <1>1, <1>3, <2>1, HandOverLaneEffect
<1>5. /\ lanes'[laneOf[t]].queue = rest
      /\ \A m \in Lanes : m # laneOf[t] => lanes'[m].queue = lanes[m].queue
  BY <1>0, <1>3, <1>4 DEF SetLane, LaneTypeOK
<1>6. u \in Queued(laneOf[t]) /\ u \notin Queued(laneOf[t])'
      /\ Queued(laneOf[t])' \subseteq Queued(laneOf[t])
  BY <1>2, <1>4, <1>5 DEF Queued
<1>7. \A m \in Lanes : Queued(m)' \subseteq Queued(m) /\ SavedQueued(m)' = SavedQueued(m)
  BY <1>2, <1>5, <1>6, QueueSteps
<1>8. \A v \in Tasks : pc'[Route(v)] = pc[Route(v)]
  BY <1>0, <1>2, GotoComplete
<1>9. \A v, x \in Tasks : HandingOver(v, x)' <=> v = t /\ x = u
  <2>1. \A v \in Tasks : pc[Complete(v)] # "save-release"
    BY <1>0, <1>2, NoCallIsNone, CallsOfTask DEF LockHeld, SavingStages
  <2>2. \A v \in Tasks : pc'[Complete(v)] = IF v = t THEN "save-release" ELSE pc[Complete(v)]
    BY <1>0, <1>2, GotoComplete
  <2>3. next'[t] = u
    BY <1>0, <1>1 DEF TypeOK
  <2>. QED  BY <2>1, <2>2, <2>3 DEF HandingOver
<1>. QED  BY <1>1, <1>2, <1>3, <1>4, <1>5, <1>6, <1>7, <1>8, <1>9

LEMMA QueueHandsOver ==
    ASSUME QueueInv, NEW t \in Tasks, CompleteHandsOver(t)
    PROVE  QueueCore'
<1>0. /\ TypeOK /\ QueuesDistinct /\ QueuesHoldOwn /\ NeverQueued /\ HandedOnce
  BY DEF QueueInv, CallInv, QueueCore
<1>1. PICK u \in Tasks, l \in Lanes :
        /\ laneOf[t] = l
        /\ UNCHANGED <<saved, laneOf, handed>>
        /\ \A v \in Tasks : pc'[Route(v)] = pc[Route(v)]
        /\ \A v, x \in Tasks : HandingOver(v, x)' <=> v = t /\ x = u
        /\ u \in Queued(l) /\ u \notin Queued(l)'
        /\ NoRepetition(lanes'[l].queue)
        /\ \A m \in Lanes : m # l => lanes'[m].queue = lanes[m].queue
        /\ \A m \in Lanes : Queued(m)' \subseteq Queued(m) /\ SavedQueued(m)' = SavedQueued(m)
  BY HandOverEffect
<1>2. QueuesDistinct'
  BY <1>0, <1>1 DEF QueuesDistinct
<1>3. QueuesHoldOwn' /\ NeverQueued' /\ HandedOnce'
  BY <1>0, <1>1 DEF QueuesHoldOwn, NeverQueued, HandedOnce
<1>4. /\ laneOf[u] = l /\ handed[u] = 0 /\ pc[Route(u)] \notin OffQueue
      /\ \A m \in Lanes : u \notin Queued(m)'
  <2>1. laneOf[u] = l /\ handed[u] = 0 /\ pc[Route(u)] \notin OffQueue
    BY <1>0, <1>1 DEF QueuesHoldOwn, NeverQueued
  <2>2. \A m \in Lanes : m # l => u \notin Queued(m)
    BY <1>0, <2>1 DEF QueuesHoldOwn
  <2>. QED  BY <1>1, <2>1, <2>2
<1>5. HandOverOK'
  BY <1>1, <1>4 DEF HandOverOK
<1>. QED  BY <1>2, <1>3, <1>5 DEF QueueCore

LEMMA QueueStep == QueueInv /\ [Next]_vars => QueueInv'
<1>. SUFFICES ASSUME QueueInv, [Next]_vars  PROVE QueueInv'
  OBVIOUS
<1>1. CallInv /\ CallInv' /\ TypeOK'
  BY CallStep DEF QueueInv, CallInv
<1>2. QueueCore'
  BY <1>1, StepKinds, QueueRecedes, QueueSaves, QueueEnqueues, QueueHandsOver
<1>. QED  BY <1>1, <1>2 DEF QueueInv

LEMMA QueueInit == Init => QueueInv
<1>. SUFFICES ASSUME Init  PROVE QueueInv
  OBVIOUS
<1>1. \A l \in Lanes : lanes[l].queue = <<>> /\ saved[l].queue = <<>>
  BY DEF Init, LaneInit, FreshLane
<1>2. \A l \in Lanes : Queued(l) = {} /\ SavedQueued(l) = {}
  BY <1>1, EmptyQueue DEF Queued, SavedQueued
<1>3. \A t \in Tasks : pc[Complete(t)] = "idle" /\ handed[t] = 0
  BY CallsOfTask DEF Init
<1>4. QueuesDistinct
  BY <1>1, EmptyQueue DEF QueuesDistinct
<1>5. QueuesHoldOwn /\ NeverQueued
  BY <1>2, <1>3 DEF QueuesHoldOwn, NeverQueued
<1>6. HandOverOK /\ HandedOnce
  BY <1>3 DEF HandOverOK, HandingOver, HandedOnce
<1>. QED  BY <1>4, <1>5, <1>6, CallInit DEF QueueInv, QueueCore

\* No waiting task is taken off its queue and returned by release_lane twice,
\* across crashes, failing writes, expiries and repeated completions.
THEOREM HandedCorrect == Spec => []HandedOnce
<1>1. QueueInv => HandedOnce
  BY DEF QueueInv, QueueCore
<1>. QED  BY <1>1, QueueInit, QueueStep, PTL DEF Spec


---------------------------------------------------------------------------
(* Order: no task is overtaken                                             *)

\* Sorting keeps whoever is ahead in front, so the head leaves nobody behind.
LEMMA SortedOrder ==
    ASSUME NEW q \in Seq(Tasks), q # <<>>, prio \in [Tasks -> Priorities], InOrder(q),
           NEW p \in StableOrders(q),
           NEW sorted, sorted = [i \in DOMAIN p |-> q[p[i]]]
    PROVE  /\ InOrder(Tail(sorted))
           /\ \A i \in DOMAIN Tail(sorted) : ~Ahead(Tail(sorted)[i], Head(sorted))
<1>1. /\ p \in [1 .. Len(q) -> 1 .. Len(q)] /\ Len(q) \in Nat \ {0}
      /\ DOMAIN q = 1 .. Len(q) /\ \A i \in 1 .. Len(q) : q[i] \in Tasks
  BY DEF StableOrders
<1>order. \A i, j \in 1 .. Len(q) : i < j =>
        \/ prio[q[p[i]]] < prio[q[p[j]]]
        \/ prio[q[p[i]]] = prio[q[p[j]]] /\ p[i] < p[j]
  <2>1. \A i, j \in DOMAIN q : i < j =>
          \/ prio[q[p[i]]] < prio[q[p[j]]]
          \/ prio[q[p[i]]] = prio[q[p[j]]] /\ p[i] < p[j]
    BY DEF StableOrders
  <2>. QED  BY <1>1, <2>1
<1>2. /\ Head(sorted) = sorted[1]
      /\ DOMAIN Tail(sorted) = 1 .. Len(q) - 1
      /\ \A i \in 1 .. Len(q) - 1 : Tail(sorted)[i] = sorted[i + 1] /\ i + 1 \in 1 .. Len(q)
  <2>1. sorted \in [1 .. Len(q) -> Tasks]  BY <1>1
  <2>2. sorted \in Seq(Tasks) /\ Len(sorted) = Len(q)  BY <2>1, <1>1
  <2>. QED  BY <2>2, <1>1
<1>3. \A t \in Tasks : prio[t] \in Int
  BY LaneAssumption DEF LaneAssumption
<1>4. ASSUME NEW i \in 1 .. Len(q), NEW j \in 1 .. Len(q), Ahead(sorted[i], sorted[j])
      PROVE  i < j
  <2>1. /\ sorted[i] = q[p[i]] /\ sorted[j] = q[p[j]]
        /\ p[i] \in 1 .. Len(q) /\ p[j] \in 1 .. Len(q)
    BY <1>1
  <2>2. p[i] < p[j]
    BY <1>1, <1>4, <2>1 DEF InOrder
  <2>3. prio[q[p[i]]] <= prio[q[p[j]]] /\ prio[q[p[i]]] \in Int /\ prio[q[p[j]]] \in Int
    BY <1>1, <1>3, <1>4, <2>1 DEF Ahead
  <2>4. i # j
    BY <1>1, <2>2
  <2>5. ~(j < i)
    <3>1. p[i] \in Nat /\ p[j] \in Nat
      BY <2>1
    <3>. QED  BY <1>order, <2>2, <2>3, <3>1
  <2>. QED  BY <2>4, <2>5
<1>5. InOrder(Tail(sorted))
  <2>. SUFFICES ASSUME NEW i \in 1 .. Len(q) - 1, NEW j \in 1 .. Len(q) - 1,
                       Ahead(Tail(sorted)[i], Tail(sorted)[j])
                PROVE  i < j
    BY <1>2 DEF InOrder
  <2>1. i + 1 < j + 1
    BY <1>2, <1>4
  <2>. QED  BY <2>1
<1>6. ASSUME NEW i \in 1 .. Len(q) - 1  PROVE ~Ahead(Tail(sorted)[i], Head(sorted))
  <2>1. 1 \in 1 .. Len(q) /\ ~(i + 1 < 1)
    BY <1>1
  <2>. QED  BY <1>2, <1>4, <2>1
<1>. QED  BY <1>2, <1>5, <1>6

\* The order in which tasks are ahead of each other changes with arrivals only.
LEMMA AheadStays ==
    ASSUME arrivals' = arrivals, prio' = prio
    PROVE  /\ \A t, u \in Tasks : Ahead(t, u)' <=> Ahead(t, u)
           /\ \A q \in Seq(Tasks) : InOrder(q)' <=> InOrder(q)
  BY DEF Ahead, Earlier, InOrder

\* A task that its route_request has not queued is no part of the order.
LEMMA NotArrived ==
    ASSUME TypeOK, ArrivedOnce, NEW t \in Tasks, pc[Route(t)] \in OffQueue
    PROVE  /\ \A i \in DOMAIN arrivals : arrivals[i] # t
           /\ \A u \in Tasks : ~Ahead(u, t) /\ ~Ahead(t, u)
<1>1. \A i \in DOMAIN arrivals : arrivals[i] # t
  BY DEF ArrivedOnce
<1>. QED  BY <1>1 DEF Ahead, Earlier

LEMMA OrderRecedes ==
    ASSUME OrderInv, Recedes
    PROVE  OrderCore'
<1>0. /\ TypeOK /\ LaneTypeOK /\ CallsSeeLanes /\ NeverQueued /\ HandOverOK
      /\ ArrivedOnce /\ QueuesInOrder /\ NoneOvertaken
  BY DEF OrderInv, OrderCore, QueueInv, QueueCore, CallInv, CallCore, TypeOK
<1>1. /\ arrivals' = arrivals /\ handed' = handed
      /\ \A t, u \in Tasks : Ahead(t, u)' <=> Ahead(t, u)
      /\ \A q \in Seq(Tasks) : InOrder(q)' <=> InOrder(q)
  BY AheadStays DEF Recedes
<1>2. \A i \in DOMAIN arrivals : arrivals[i] \in Tasks
  BY <1>0 DEF TypeOK
<1>3. ArrivedOnce'
  BY <1>0, <1>1, <1>2 DEF ArrivedOnce, NoRepetition, Recedes, OffQueue
<1>4. QueuesInOrder'
  <2>. SUFFICES ASSUME NEW l \in Lanes
                PROVE  InOrder(lanes[l].queue)' /\ InOrder(saved[l].queue)'
    BY DEF QueuesInOrder
  <2>1. /\ lanes[l].queue \in Seq(Tasks) /\ saved[l].queue \in Seq(Tasks)
        /\ InOrder(lanes[l].queue) /\ InOrder(saved[l].queue)
    BY <1>0, LaneFields DEF QueuesInOrder
  <2>2. /\ lanes'[l].queue = <<>> => InOrder(lanes[l].queue)'
        /\ saved'[l].queue = <<>> => InOrder(saved[l].queue)'
    BY EmptyQueue DEF InOrder
  <2>3. /\ lanes'[l].queue \in Seq(Tasks) /\ InOrder(lanes'[l].queue) => InOrder(lanes[l].queue)'
        /\ saved'[l].queue \in Seq(Tasks) /\ InOrder(saved'[l].queue) => InOrder(saved[l].queue)'
    BY AheadStays DEF InOrder, Ahead, Earlier, Recedes
  <2>. QED  BY <2>1, <2>2, <2>3 DEF Recedes
<1>5. NoneOvertaken'
  <2>. SUFFICES ASSUME NEW l \in Lanes, NEW u \in Tasks, laneOf'[u] = l, NEW t \in Tasks, Ahead(t, u)'
                PROVE  /\ handed'[u] > 0 => t \notin Queued(l)' \cup SavedQueued(l)'
                       /\ \A v \in Tasks : HandingOver(v, u)' => t \notin Queued(l)'
    BY <1>0, QueuesRecede DEF NoneOvertaken
  <2>1. Ahead(t, u)
    BY <1>1
  <2>2. ASSUME handed'[u] > 0  PROVE t \notin Queued(l)' \cup SavedQueued(l)'
    <3>1. handed[u] > 0 /\ pc[Route(u)] \notin OffQueue
      BY <1>0, <1>1, <2>2 DEF NeverQueued
    <3>2. laneOf[u] = l
      BY <3>1 DEF Recedes, OffQueue
    <3>. QED  BY <1>0, <2>1, <3>1, <3>2, QueuesRecede DEF NoneOvertaken
  <2>3. ASSUME NEW v \in Tasks, HandingOver(v, u)'  PROVE t \notin Queued(l)'
    <3>1. HandingOver(v, u)
      BY <2>3 DEF Recedes
    <3>2. loaded /\ pc[Route(u)] \notin OffQueue
      BY <1>0, <3>1 DEF HandOverOK, CallsSeeLanes, HandingOver
    <3>3. laneOf[u] = l
      BY <3>2 DEF Recedes, OffQueue
    <3>. QED  BY <1>0, <2>1, <3>1, <3>2, <3>3, QueuesRecede DEF NoneOvertaken
  <2>. QED  BY <2>2, <2>3
<1>. QED  BY <1>3, <1>4, <1>5 DEF OrderCore

\* A hand-over counts when it is saved: the queue it was popped from is saved
\* with it, so whoever was ahead is in neither copy.
LEMMA OrderSaves ==
    ASSUME OrderInv, NEW c \in Calls, SaveLane(c)
    PROVE  OrderCore'
<1>0. /\ QueueInv /\ TypeOK /\ LaneTypeOK /\ HandOverOK
      /\ ArrivedOnce /\ QueuesInOrder /\ NoneOvertaken
  BY DEF OrderInv, OrderCore, QueueInv, QueueCore, CallInv, TypeOK
<1>1. PICK l \in Lanes \cup {0} :
        /\ UNCHANGED <<lanes, laneOf, prio, arrivals>>
        /\ \A m \in Lanes : /\ saved'[m].queue = IF m = l THEN lanes[m].queue ELSE saved[m].queue
                            /\ Queued(m)' = Queued(m)
                            /\ SavedQueued(m)' = IF m = l THEN Queued(m) ELSE SavedQueued(m)
        /\ \A t \in Tasks : pc'[Route(t)] \in OffQueue => pc[Route(t)] \in OffQueue
        /\ \A u, t \in Tasks : ~HandingOver(u, t)'
        /\ \/ handed' = handed
           \/ \E u, t \in Tasks : /\ HandingOver(u, t) /\ laneOf[u] = l
                                  /\ handed' = [handed EXCEPT ![t] = handed[t] + 1]
  BY <1>0, SaveEffect
<1>2. /\ \A t, u \in Tasks : Ahead(t, u)' <=> Ahead(t, u)
      /\ \A q \in Seq(Tasks) : InOrder(q)' <=> InOrder(q)
  BY <1>1, AheadStays
<1>3. ArrivedOnce'
  <2>1. \A i \in DOMAIN arrivals : arrivals[i] \in Tasks
    BY <1>0 DEF TypeOK
  <2>. QED  BY <1>0, <1>1, <2>1 DEF ArrivedOnce, NoRepetition
<1>4. QueuesInOrder'
  <2>. SUFFICES ASSUME NEW m \in Lanes
                PROVE  InOrder(lanes[m].queue)' /\ InOrder(saved[m].queue)'
    BY DEF QueuesInOrder
  <2>1. /\ lanes[m].queue \in Seq(Tasks) /\ saved[m].queue \in Seq(Tasks)
        /\ InOrder(lanes[m].queue) /\ InOrder(saved[m].queue)
    BY <1>0, LaneFields DEF QueuesInOrder
  <2>2. lanes'[m].queue = lanes[m].queue /\ saved'[m].queue \in {lanes[m].queue, saved[m].queue}
    BY <1>1
  <2>3. InOrder(lanes'[m].queue) /\ InOrder(saved'[m].queue)
    BY <2>1, <2>2
  <2>. QED  BY <1>1, <2>3 DEF InOrder, Ahead, Earlier
<1>5. NoneOvertaken'
  <2>. SUFFICES ASSUME NEW m \in Lanes, NEW u \in Tasks, laneOf[u] = m, handed'[u] > 0,
                       NEW t \in Tasks, Ahead(t, u)
                PROVE  t \notin Queued(m) /\ t \notin SavedQueued(m)'
    <3>1. \A m \in Lanes : Queued(m)' \subseteq Tasks /\ SavedQueued(m)' \subseteq Tasks
      BY <1>0, <1>1, QueuedTasks
    <3>. QED  BY <1>1, <1>2, <3>1 DEF NoneOvertaken
  <2>1. CASE handed[u] > 0
    BY <1>0, <1>1, <2>1 DEF NoneOvertaken
  <2>2. CASE ~(handed[u] > 0)
    <3>1. PICK v \in Tasks, x \in Tasks : /\ HandingOver(v, x) /\ laneOf[v] = l
                                          /\ handed' = [handed EXCEPT ![x] = handed[x] + 1]
      BY <1>1, <2>2
    <3>2. x = u
      BY <1>0, <2>2, <3>1 DEF TypeOK
    <3>3. laneOf[u] = l
      BY <1>0, <3>1, <3>2 DEF HandOverOK
    <3>4. t \notin Queued(m)
      BY <1>0, <3>1, <3>2 DEF NoneOvertaken
    <3>. QED  BY <1>1, <3>3, <3>4
  <2>. QED  BY <2>1, <2>2
<1>. QED  BY <1>3, <1>4, <1>5 DEF OrderCore

\* A task put last in a queue is ahead of nobody.
LEMMA OrderEnqueues ==
    ASSUME OrderInv, NEW t \in Tasks, RouteEnqueues(t)
    PROVE  OrderCore'
<1>0. /\ TypeOK /\ LaneTypeOK /\ LockHeld /\ NeverQueued /\ ArrivedOnce /\ QueuesInOrder /\ NoneOvertaken
  BY DEF OrderInv, OrderCore, QueueInv, QueueCore, CallInv, CallCore, TypeOK
<1>1. PICK l \in Lanes :
        /\ lock = NoCall /\ pc[Route(t)] = "enqueue"
        /\ UNCHANGED <<saved, handed, prio>>
        /\ arrivals' = Append(arrivals, t)
        /\ \A u \in Tasks : pc'[Route(u)] = IF u = t THEN "save-queue" ELSE pc[Route(u)]
        /\ \A u \in Tasks : pc'[Complete(u)] = pc[Complete(u)]
        /\ laneOf'[t] = l /\ \A u \in Tasks : u # t => laneOf'[u] = laneOf[u]
        /\ lanes'[l].queue = Append(lanes[l].queue, t)
        /\ \A m \in Lanes : m # l => lanes'[m].queue = lanes[m].queue
        /\ \A m \in Lanes : \A u \in Tasks :
             u \in Queued(m)' => u \in Queued(m) \/ (u = t /\ m = l)
        /\ \A m \in Lanes : SavedQueued(m)' = SavedQueued(m)
  BY <1>0, EnqueueEffect
<1>5. \A m \in Lanes : lanes[m].queue \in Seq(Tasks) /\ saved[m].queue \in Seq(Tasks)
  BY <1>0, LaneFields
<1>8. handed[t] = 0 /\ \A m \in Lanes : t \notin Queued(m) \cup SavedQueued(m)
  BY <1>0, <1>1 DEF NeverQueued, OffQueue, Unplaced
<1>9. \A i \in DOMAIN arrivals : arrivals[i] \in Tasks /\ arrivals[i] # t
  BY <1>0, <1>1, NotArrived, SMTT(30) DEF TypeOK, OffQueue, Unplaced
<1>10. /\ Len(arrivals) \in Nat /\ DOMAIN arrivals = 1 .. Len(arrivals)
       /\ DOMAIN arrivals' = 1 .. Len(arrivals) + 1
       /\ \A i \in 1 .. Len(arrivals) : arrivals'[i] = arrivals[i]
       /\ arrivals'[Len(arrivals) + 1] = t
  BY <1>0, <1>1 DEF TypeOK
<1>11. \A x, u : Ahead(x, u)' => x # t /\ (u = t \/ Ahead(x, u))
  <2>. SUFFICES ASSUME NEW x, NEW u, Ahead(x, u)'  PROVE x # t /\ (u = t \/ Ahead(x, u))
    OBVIOUS
  <2>1. PICK i \in 1 .. Len(arrivals) + 1, j \in 1 .. Len(arrivals) + 1 :
           i < j /\ arrivals'[i] = x /\ arrivals'[j] = u
    BY <1>10 DEF Ahead, Earlier
  <2>2. i \in 1 .. Len(arrivals) /\ (j \in 1 .. Len(arrivals) \/ j = Len(arrivals) + 1)
    BY <1>10, <2>1
  <2>3. prio[x] <= prio[u]
    BY <1>1 DEF Ahead
  <2>. QED  BY <1>9, <1>10, <2>1, <2>2, <2>3 DEF Ahead, Earlier
<1>12. ArrivedOnce'
  <2>1. \A i, j \in 1 .. Len(arrivals) : arrivals[i] = arrivals[j] => i = j
    BY <1>0, <1>10 DEF ArrivedOnce, NoRepetition
  <2>2. ASSUME NEW i \in 1 .. Len(arrivals) + 1
        PROVE  i \in 1 .. Len(arrivals) \/ i = Len(arrivals) + 1
    BY <1>10
  <2>3. NoRepetition(arrivals')
    BY <1>9, <1>10, <2>1, <2>2 DEF NoRepetition
  <2>4. \A i \in 1 .. Len(arrivals) : /\ pc[Route(arrivals[i])] \notin OffQueue
                                      /\ laneOf[arrivals[i]] \in Lanes
    BY <1>0, <1>10 DEF ArrivedOnce
  <2>5. \A i \in 1 .. Len(arrivals) + 1 : /\ pc'[Route(arrivals'[i])] \notin OffQueue
                                          /\ laneOf'[arrivals'[i]] \in Lanes
    BY <1>1, <1>9, <1>10, <2>2, <2>4 DEF OffQueue, Unplaced, Taking, Given
  <2>. QED  BY <1>10, <2>3, <2>5 DEF ArrivedOnce, NoRepetition
<1>13. QueuesInOrder'
  <2>1. ASSUME NEW q \in Seq(Tasks), InOrder(q), \A i \in DOMAIN q : q[i] # t,
               NEW i \in DOMAIN q, NEW j \in DOMAIN q, Ahead(q[i], q[j])'
        PROVE  i < j
    BY <1>11, <2>1 DEF InOrder
  <2>2. ASSUME NEW m \in Lanes
        PROVE  /\ InOrder(lanes[m].queue) /\ \A i \in DOMAIN lanes[m].queue : lanes[m].queue[i] # t
               /\ InOrder(saved[m].queue) /\ \A i \in DOMAIN saved[m].queue : saved[m].queue[i] # t
    BY <1>0, <1>8 DEF QueuesInOrder, Queued, SavedQueued
  <2>3. \A m \in Lanes : InOrder(saved[m].queue)'
    BY <1>1, <1>5, <2>1, <2>2 DEF InOrder
  <2>4. \A m \in Lanes \ {l} : InOrder(lanes[m].queue)'
    BY <1>1, <1>5, <2>1, <2>2 DEF InOrder
  <2>5. InOrder(lanes[l].queue)'
    <3>1. PICK q \in Seq(Tasks) : /\ InOrder(q) /\ (\A i \in DOMAIN q : q[i] # t)
                                  /\ lanes'[l].queue = Append(q, t)
      BY <1>1, <1>5, <2>2
    <3>2. /\ Len(q) \in Nat /\ DOMAIN q = 1 .. Len(q)
          /\ DOMAIN Append(q, t) = 1 .. Len(q) + 1
          /\ \A i \in 1 .. Len(q) : Append(q, t)[i] = q[i]
          /\ Append(q, t)[Len(q) + 1] = t
      BY <3>1
    <3>. SUFFICES ASSUME NEW i \in 1 .. Len(q) + 1, NEW j \in 1 .. Len(q) + 1,
                         Ahead(Append(q, t)[i], Append(q, t)[j])'
                  PROVE  i < j
      BY <3>1, <3>2 DEF InOrder
    <3>3. i \in 1 .. Len(q)
      BY <1>11, <3>2
    <3>4. CASE j = Len(q) + 1
      BY <3>2, <3>3, <3>4
    <3>5. CASE j \in 1 .. Len(q)
      BY <2>1, <3>1, <3>2, <3>3, <3>5
    <3>. QED  BY <3>2, <3>4, <3>5
  <2>. QED  BY <2>3, <2>4, <2>5 DEF QueuesInOrder
<1>14. NoneOvertaken'
  <2>1. \A v, u \in Tasks : ~HandingOver(v, u)'
    BY <1>0, <1>1, NoCallIsNone, CallsOfTask DEF LockHeld, SavingStages, HandingOver
  <2>2. \A m \in Lanes : Queued(m) \subseteq Tasks /\ SavedQueued(m) \subseteq Tasks
    BY <1>0, QueuedTasks
  <2>. SUFFICES ASSUME NEW u \in Tasks, NEW m \in Lanes, laneOf'[u] = m, handed[u] > 0,
                       NEW x \in Queued(m)' \cup SavedQueued(m)', Ahead(x, u)'
                PROVE  FALSE
    BY <1>1, <2>1 DEF NoneOvertaken
  <2>3. u # t
    BY <1>8
  <2>4. x # t /\ Ahead(x, u)
    BY <1>11, <2>3
  <2>5. x \in Queued(m) \cup SavedQueued(m)
    <3>1. Queued(m)' \subseteq Queued(m) \cup {t}
      <4>1. Queued(l)' \subseteq Queued(l) \cup {t}
        BY <1>1, <1>5, Appended DEF Queued
      <4>2. m # l => Queued(m)' = Queued(m)
        BY <1>1, QueueSteps
      <4>. QED  BY <4>1, <4>2
    <3>. QED  BY <1>1, <2>4, <3>1
  <2>. QED  BY <1>0, <1>1, <2>3, <2>4, <2>5 DEF NoneOvertaken
<1>. QED  BY <1>12, <1>13, <1>14 DEF OrderCore

\* The head of the sorted queue is handed over: whoever was ahead of it is gone.
LEMMA OrderHandsOver ==
    ASSUME OrderInv, NEW t \in Tasks, CompleteHandsOver(t)
    PROVE  OrderCore'
<1>0. /\ QueueInv /\ TypeOK /\ LaneTypeOK /\ LockHeld /\ QueuesHoldOwn
      /\ ArrivedOnce /\ QueuesInOrder /\ NoneOvertaken
  BY DEF OrderInv, OrderCore, QueueInv, QueueCore, CallInv, CallCore, TypeOK
<1>1. PICK u \in Tasks, l \in Lanes :
        /\ HandOverLane(Complete(t), u, l)
        /\ UNCHANGED <<saved, laneOf, handed, arrivals, prio>>
        /\ \A v \in Tasks : pc'[Route(v)] = pc[Route(v)]
        /\ \A v, x \in Tasks : HandingOver(v, x)' <=> v = t /\ x = u
        /\ u \in Queued(l)
        /\ \A m \in Lanes : m # l => lanes'[m].queue = lanes[m].queue
        /\ \A m \in Lanes : Queued(m)' \subseteq Queued(m) /\ SavedQueued(m)' = SavedQueued(m)
  BY <1>0, HandOverEffect
<1>2. /\ \A x, v \in Tasks : Ahead(x, v)' <=> Ahead(x, v)
      /\ \A q \in Seq(Tasks) : InOrder(q)' <=> InOrder(q)
  BY <1>1, AheadStays
<1>3. /\ lanes'[l].queue \in Seq(Tasks) /\ InOrder(lanes'[l].queue)
      /\ \A i \in DOMAIN lanes'[l].queue : ~Ahead(lanes'[l].queue[i], u)
  <2>1. PICK p \in StableOrders(lanes[l].queue) :
           LET sorted == [i \in DOMAIN p |-> lanes[l].queue[p[i]]]
           IN  u = Head(sorted) /\ SetLane(l, lanes[l].status, u, Tail(sorted))
    BY <1>1 DEF HandOverLane
  <2>. DEFINE sorted == [i \in DOMAIN p |-> lanes[l].queue[p[i]]]
  <2>2. /\ lanes[l].queue \in Seq(Tasks) /\ lanes[l].queue # <<>>
        /\ prio \in [Tasks -> Priorities] /\ InOrder(lanes[l].queue)
    BY <1>0, <1>1, LaneFields DEF HandOverLane, LaneTypeOK, QueuesInOrder
  <2>3. Tail(sorted) \in Seq(Tasks)
    BY <2>2, SortedPop
  <2>4. InOrder(Tail(sorted)) /\ \A i \in DOMAIN Tail(sorted) : ~Ahead(Tail(sorted)[i], Head(sorted))
    BY <2>2, SortedOrder
  <2>. HIDE DEF sorted
  <2>5. u = Head(sorted) /\ SetLane(l, lanes[l].status, u, Tail(sorted))
    BY <2>1 DEF sorted
  <2>6. lanes'[l].queue = Tail(sorted)
    BY <1>0, <2>5 DEF SetLane, LaneTypeOK
  <2>. QED  BY <2>3, <2>4, <2>5, <2>6
<1>4. ArrivedOnce'
  <2>1. \A i \in DOMAIN arrivals : arrivals[i] \in Tasks
    BY <1>0 DEF TypeOK
  <2>. QED  BY <1>0, <1>1, <2>1 DEF ArrivedOnce, NoRepetition
<1>5. QueuesInOrder'
  <2>1. \A m \in Lanes : InOrder(lanes'[m].queue) /\ InOrder(saved'[m].queue)
    BY <1>0, <1>1, <1>3 DEF QueuesInOrder
  <2>. QED  BY <1>1, <2>1 DEF QueuesInOrder, InOrder, Ahead, Earlier
<1>6. NoneOvertaken'
  <2>. SUFFICES ASSUME NEW m \in Lanes, NEW x \in Tasks, laneOf[x] = m, NEW y \in Tasks, Ahead(y, x)
                PROVE  /\ handed[x] > 0 => y \notin Queued(m)' \cup SavedQueued(m)'
                       /\ \A v \in Tasks : HandingOver(v, x)' => y \notin Queued(m)'
    <3>1. \A m \in Lanes : Queued(m)' \subseteq Tasks /\ SavedQueued(m)' \subseteq Tasks
      BY <1>0, <1>1, QueuedTasks
    <3>. QED  BY <1>1, <1>2, <3>1 DEF NoneOvertaken
  <2>1. handed[x] > 0 => y \notin Queued(m)' \cup SavedQueued(m)'
    BY <1>0, <1>1 DEF NoneOvertaken
  <2>2. ASSUME NEW v \in Tasks, HandingOver(v, x)'  PROVE y \notin Queued(m)'
    <3>1. x = u
      BY <1>1, <2>2
    <3>2. m = l
      BY <1>0, <1>1, <3>1 DEF QueuesHoldOwn
    <3>. QED  BY <1>3, <3>1, <3>2 DEF Queued
  <2>. QED  BY <2>1, <2>2
<1>. QED  BY <1>4, <1>5, <1>6 DEF OrderCore

LEMMA OrderStep == OrderInv /\ [Next]_vars => OrderInv'
<1>. SUFFICES ASSUME OrderInv, [Next]_vars  PROVE OrderInv'
  OBVIOUS
<1>1. QueueInv /\ QueueInv' /\ CallInv
  BY QueueStep DEF OrderInv, QueueInv
<1>2. OrderCore'
  BY <1>1, StepKinds, OrderRecedes, OrderSaves, OrderEnqueues, OrderHandsOver
<1>. QED  BY <1>1, <1>2 DEF OrderInv

LEMMA OrderInit == Init => OrderInv
<1>. SUFFICES ASSUME Init  PROVE OrderInv
  OBVIOUS
<1>1. /\ \A l \in Lanes : lanes[l].queue = <<>> /\ saved[l].queue = <<>>
      /\ arrivals = <<>>
      /\ \A t \in Tasks : pc[Complete(t)] = "idle" /\ handed[t] = 0
  BY CallsOfTask DEF Init, LaneInit, FreshLane
<1>2. ArrivedOnce
  BY <1>1, EmptyQueue DEF ArrivedOnce
<1>3. QueuesInOrder
  BY <1>1, EmptyQueue DEF QueuesInOrder, InOrder
<1>4. NoneOvertaken
  BY <1>1 DEF NoneOvertaken, HandingOver
<1>. QED  BY <1>2, <1>3, <1>4, QueueInit DEF OrderInv, OrderCore

LEMMA OrderImplies == OrderInv => NoOvertaking
<1>. SUFFICES ASSUME OrderInv, NEW i \in DOMAIN arrivals, NEW j \in DOMAIN arrivals, i < j,
                     laneOf[arrivals[i]] = laneOf[arrivals[j]],
                     prio[arrivals[i]] <= prio[arrivals[j]], handed[arrivals[j]] > 0
              PROVE  arrivals[i] \notin Queued(laneOf[arrivals[i]])
  BY DEF NoOvertaking
<1>0. TypeOK /\ NoneOvertaken /\ ArrivedOnce
  BY DEF OrderInv, OrderCore, QueueInv, CallInv
<1>1. arrivals[j] \in Tasks /\ laneOf[arrivals[j]] \in Lanes /\ Ahead(arrivals[i], arrivals[j])
  BY <1>0 DEF TypeOK, Ahead, Earlier, ArrivedOnce
<1>. QED  BY <1>0, <1>1 DEF NoneOvertaken

\* No task waits in a lane while one that joined it later, and is no more urgent,
\* was already handed over.
THEOREM OrderCorrect == Spec => []NoOvertaking
  BY OrderInit, OrderStep, OrderImplies, PTL DEF Spec

=============================================================================
