------------------------- MODULE RouterSerialProofs -------------------------
(***************************************************************************)
(* Proofs about who occupies a lane: for any tasks, lanes, bounds and      *)
(* faults other than repeated completions, the agents hold one task of a   *)
(* lane at a time, Redis says so, and the router implements LaneSchedule,  *)
(* as long as the record of the lane does not expire.                      *)
(***************************************************************************)
EXTENDS RouterProofs

\* The stages of a completion in which its own task still holds the lane.
Returning == {"manager", "release"}

\* Agents get no task in this step; and no task gets a lane.
NoneStarts ==
    /\ pushed' = pushed
    /\ \A t \in Tasks : Executing(t)' => Executing(t) /\ laneOf'[t] = laneOf[t]
NoneOccupies ==
    \A t \in Tasks : Occupies(t)' =>
        /\ Occupies(t) /\ laneOf'[t] = laneOf[t]
        /\ pc[Route(t)] = "save-acquire" => pc'[Route(t)] = "save-acquire"

LEMMA OccupantPlaced ==
    ASSUME SerialInv, NEW t \in Tasks, Occupies(t)
    PROVE  laneOf[t] \in Lanes
  BY DEF SerialInv, CallInv, CallCore, Placed, Occupies, Executing

---------------------------------------------------------------------------
(* Which steps start nothing                                               *)

LEMMA RouteQuiet ==
    ASSUME CallInv, NEW t \in Tasks, NEW stage, Goto(Route(t), stage),
           UNCHANGED <<pushed, reports>>,
           stage \in Taking => pc[Route(t)] \in Taking,
           stage = "save-acquire" \/ pc[Route(t)] # "save-acquire" \/ stage \notin Taking,
           laneOf' = laneOf \/ (pc[Route(t)] \in Unplaced /\ \A u \in Tasks : u # t => laneOf'[u] = laneOf[u])
    PROVE  NoneStarts /\ NoneOccupies
<1>0. TypeOK /\ Placed
  BY DEF CallInv, CallCore
<1>1. /\ \A u \in Tasks : pc'[Route(u)] = IF u = t THEN stage ELSE pc[Route(u)]
      /\ \A u \in Tasks : pc'[Complete(u)] = pc[Complete(u)]
  BY <1>0, GotoRoute
<1>2. \A u \in Tasks : Executing(u)' <=> Executing(u)
  BY <1>1 DEF Executing
<1>3. \A u \in Tasks : Executing(u) => laneOf'[u] = laneOf[u] /\ pc[Route(u)] \notin Taking
  BY <1>0 DEF Executing, Placed
<1>4. \A u \in Tasks : pc[Route(u)] \in Taking => laneOf'[u] = laneOf[u]
  BY DEF Unplaced, Taking
<1>5. NoneOccupies
  BY <1>1, <1>2, <1>3, <1>4 DEF NoneOccupies, Occupies, Taking
<1>. QED  BY <1>2, <1>3, <1>5 DEF NoneStarts

LEMMA CompleteQuiet ==
    ASSUME CallInv, NEW t \in Tasks, NEW stage, Goto(Complete(t), stage),
           UNCHANGED <<pushed, laneOf>>,
           \A u \in Tasks : u # t => reports'[u] = reports[u],
           reports'[t] = 0 \/ stage \in Returning => reports[t] = 0 \/ pc[Complete(t)] \in Returning
    PROVE  NoneStarts /\ NoneOccupies
<1>0. TypeOK
  BY DEF CallInv
<1>1. /\ \A u \in Tasks : pc'[Complete(u)] = IF u = t THEN stage ELSE pc[Complete(u)]
      /\ \A u \in Tasks : pc'[Route(u)] = pc[Route(u)]
  BY <1>0, GotoComplete
<1>2. \A u \in Tasks : Executing(u)' => Executing(u)
  BY <1>1 DEF Executing, Returning
<1>. QED  BY <1>1, <1>2 DEF NoneStarts, NoneOccupies, Occupies

LEMMA OtherQuiet ==
    ASSUME \A t \in Tasks : pc'[Route(t)] = pc[Route(t)] /\ pc'[Complete(t)] = pc[Complete(t)],
           UNCHANGED <<pushed, reports, laneOf>>
    PROVE  NoneStarts /\ NoneOccupies
<1>1. \A t \in Tasks : Executing(t)' <=> Executing(t)
  BY DEF Executing
<1>. QED  BY <1>1 DEF NoneStarts, NoneOccupies, Occupies

LEMMA CrashQuiet ==
    ASSUME CallInv, Crash
    PROVE  NoneStarts /\ NoneOccupies
<1>0. StagesOK
  BY DEF CallInv, CallCore
<1>1. \A t \in Tasks : /\ pc'[Route(t)] \in {"dead", pc[Route(t)]} /\ pc'[Complete(t)] = "idle"
                       /\ pc'[Route(t)] \notin Taking
  <2>. SUFFICES ASSUME NEW t \in Tasks
                PROVE  /\ pc'[Route(t)] \in {"dead", pc[Route(t)]} /\ pc'[Complete(t)] = "idle"
                       /\ pc'[Route(t)] \notin Taking
    OBVIOUS
  <2>1. pc'[Route(t)] = Aborted(Route(t)) /\ pc'[Complete(t)] = Aborted(Complete(t))
    BY CallsOfTask DEF Crash
  <2>2. Aborted(Route(t)) \in {"dead", pc[Route(t)]} /\ Aborted(Route(t)) \notin Taking
    BY DEF Aborted, Route, Replies, Taking
  <2>. QED  BY <1>0, <2>1, <2>2, CallsOfTask, AbortedStages
<1>2. UNCHANGED <<pushed, reports, laneOf>>
  BY DEF Crash, taskVars
<1>3. \A t \in Tasks : Executing(t)' => Executing(t)
  BY <1>1, <1>2 DEF Executing
<1>4. \A t \in Tasks : Occupies(t)' => Executing(t)
  BY <1>1, <1>3 DEF Occupies
<1>5. \A t \in Tasks : Executing(t) => Occupies(t) /\ pc[Route(t)] # "save-acquire"
  BY DEF Occupies, Executing, CallInv, CallCore, Placed, Taking
<1>. QED  BY <1>2, <1>3, <1>4, <1>5 DEF NoneStarts, NoneOccupies

\* Every step starts nothing, unless it takes a free lane, saves one, or pushes.
LEMMA QuietSteps ==
    ASSUME CallInv, [Next]_vars, "redelivery" \notin FaultKinds
    PROVE  \/ NoneStarts /\ NoneOccupies
           \/ \E t \in Tasks : RouteAcquires(t) \/ DispatchPush(t)
           \/ \E c \in Calls : SaveLane(c)
<1>0. TypeOK /\ StagesOK /\ Placed
  BY DEF CallInv, CallCore
<1>. USE CallsOfTask
<1>1. ASSUME NEW t \in Tasks,
             \/ RouteRequest(t) \/ RouteManager(t) \/ RouteFindsNoLane(t) \/ RouteRejected(t)
             \/ RouteRecordsQueued(t) \/ DispatchIncr(t) \/ DispatchRecord(t)
      PROVE  NoneStarts /\ NoneOccupies
  <2>1. PICK stage : /\ Goto(Route(t), stage)
                     /\ stage \notin Taking \/ (stage = "push" /\ pc[Route(t)] = "incr")
    BY <1>1 DEF RouteRequest, RouteManager, RouteFindsNoLane, RouteRejected, RouteRecordsQueued,
          DispatchIncr, DispatchRecord, Answers, Taking
  <2>2. UNCHANGED <<pushed, reports, laneOf>>
    BY <1>1 DEF RouteRequest, RouteManager, RouteFindsNoLane, RouteRejected, RouteRecordsQueued,
          DispatchIncr, DispatchRecord, taskVars
  <2>. QED  BY <2>1, <2>2, RouteQuiet DEF Taking
<1>2. ASSUME NEW t \in Tasks, RouteEnqueues(t)  PROVE NoneStarts /\ NoneOccupies
  <2>1. /\ Goto(Route(t), "save-queue") /\ pc[Route(t)] = "enqueue"
        /\ UNCHANGED <<pushed, reports>> /\ \A u \in Tasks : u # t => laneOf'[u] = laneOf[u]
    BY <1>0, <1>2 DEF RouteEnqueues, TypeOK
  <2>. QED  BY <2>1, RouteQuiet DEF Taking, Unplaced
<1>3. ASSUME NEW t \in Tasks,
             \/ CompleteManager(t) \/ CompleteHandsOver(t) \/ CompleteFrees(t)
             \/ CompleteStatus(t) \/ CompleteNext(t)
      PROVE  NoneStarts /\ NoneOccupies
  <2>1. PICK stage : /\ Goto(Complete(t), stage)
                     /\ stage \in Returning => pc[Complete(t)] \in Returning
    BY <1>3 DEF CompleteManager, CompleteHandsOver, CompleteFrees, CompleteStatus, UpdateStatus,
          CompleteNext, Returning
  <2>2. UNCHANGED <<pushed, reports, laneOf>>
    BY <1>3 DEF CompleteManager, CompleteHandsOver, CompleteFrees, CompleteStatus, UpdateStatus,
          CompleteNext, taskVars
  <2>. QED  BY <2>1, <2>2, CompleteQuiet
<1>4. ASSUME NEW t \in Tasks, CancelTask(t) \/ CancelStatus(t)  PROVE NoneStarts /\ NoneOccupies
  <2>1. PICK stage \in {"status", "tenant"} :
             Goto(Cancel(t), stage) /\ UNCHANGED <<pushed, reports, laneOf>>
    BY <1>4 DEF CancelTask, CancelStatus, UpdateStatus, taskVars
  <2>. QED  BY <1>0, <2>1, GotoCancel, OtherQuiet
<1>5. ASSUME NEW t \in Tasks, AgentReports(t) \/ AgentReportsAgain(t)
      PROVE  NoneStarts /\ NoneOccupies
  <2>1. AgentReports(t)
    BY <1>5 DEF AgentReportsAgain, Fault
  <2>2. /\ Goto(Complete(t), "manager") /\ reports[t] = 0 /\ UNCHANGED <<pushed, laneOf>>
        /\ \A u \in Tasks : u # t => reports'[u] = reports[u]
    BY <1>0, <2>1 DEF AgentReports, Report, TypeOK
  <2>. QED  BY <2>2, CompleteQuiet
<1>6. ASSUME NEW c \in Calls, UpdateTenant(c) \/ CallFails(c)  PROVE NoneStarts /\ NoneOccupies
  <2>1. PICK stage : Goto(c, stage) /\ stage \in {"next", "idle", Aborted(c)}
    BY <1>6 DEF UpdateTenant, CallFails
  <2>2. UNCHANGED <<pushed, reports, laneOf>>
    BY <1>6 DEF UpdateTenant, CallFails, taskVars
  <2>3. stage \notin Taking \cup Returning
    <3>1. Aborted(c) \in {"dead", "idle", pc[c]} /\ pc[c] \notin {"idle"} \cup Replies => Aborted(c) \in {"dead", "idle"}
      BY DEF Aborted
    <3>2. pc[c] \notin {"idle"} \cup Replies
      BY <1>6 DEF UpdateTenant, CallFails, Replies
    <3>. QED  BY <2>1, <3>1, <3>2 DEF Taking, Returning, Aborted
  <2>4. PICK t \in Tasks : c \in {Route(t), Complete(t), Cancel(t)}
    BY CallKinds
  <2>5. CASE c = Route(t)
    BY <2>1, <2>2, <2>3, <2>5, RouteQuiet
  <2>6. CASE c = Complete(t)
    BY <2>1, <2>2, <2>3, <2>6, CompleteQuiet
  <2>7. CASE c = Cancel(t)
    BY <1>0, <2>1, <2>2, <2>7, GotoCancel, OtherQuiet
  <2>. QED  BY <2>4, <2>5, <2>6, <2>7
<1>7. ASSUME (\E t \in Tasks : TaskHashExpires(t)) \/ LanesExpire \/ UNCHANGED vars
      PROVE  NoneStarts /\ NoneOccupies
  <2>1. UNCHANGED <<pc, pushed, reports, laneOf>>
    BY <1>7 DEF TaskHashExpires, LanesExpire, vars, routerVars, taskVars
  <2>. QED  BY <2>1, OtherQuiet
<1>. QED
  BY NextCases, <1>1, <1>2, <1>3, <1>4, <1>5, <1>6, <1>7, CrashQuiet

---------------------------------------------------------------------------
(* Which steps leave a busy lane busy                                      *)

\* Except in a lane that a process was misled about: what is busy in memory stays
\* so, what a process loads is what was saved, and what is saved as busy stays so
\* until it expires.
StaysBusy ==
    \A l \in Lanes : l \notin misled' =>
        /\ l \notin misled
        /\ loaded /\ loaded' /\ lanes[l].status = "busy" => lanes'[l].status = "busy"
        /\ ~loaded /\ loaded' => lanes'[l] = saved[l] /\ l \notin lapsed
        /\ l \notin lapsed' => l \notin lapsed /\ saved'[l].status = saved[l].status

LEMMA LanesStay ==
    ASSUME UNCHANGED <<saved, loaded, lapsed, misled>>,
           \A l \in Lanes : lanes[l].status = "busy" => lanes'[l].status = "busy"
    PROVE  StaysBusy
  BY DEF StaysBusy

\* Every step does, unless it frees a lane or saves one.
LEMMA BusySteps ==
    ASSUME TypeOK, [Next]_vars
    PROVE  \/ StaysBusy
           \/ \E t \in Tasks : CompleteFrees(t)
           \/ \E c \in Calls : SaveLane(c)
<1>0. LaneTypeOK
  BY DEF TypeOK
<1>1. ASSUME NEW t \in Tasks,
             \/ RouteRequest(t) \/ RouteFindsNoLane(t) \/ RouteRejected(t) \/ RouteRecordsQueued(t)
             \/ DispatchIncr(t) \/ DispatchPush(t) \/ DispatchRecord(t)
             \/ CompleteStatus(t) \/ CompleteNext(t) \/ CancelStatus(t)
             \/ AgentReports(t) \/ AgentReportsAgain(t) \/ CancelTask(t) \/ TaskHashExpires(t)
      PROVE  StaysBusy
  <2>1. UNCHANGED laneVars
    BY <1>1 DEF RouteRequest, RouteFindsNoLane, RouteRejected, RouteRecordsQueued,
          DispatchIncr, DispatchPush, DispatchRecord, CompleteStatus, CompleteNext, CancelStatus,
          UpdateStatus, AgentReports, AgentReportsAgain, Report, CancelTask, TaskHashExpires
  <2>. QED  BY <2>1, LanesStay DEF laneVars, lapseVars
<1>2. ASSUME NEW c \in Calls, UpdateTenant(c) \/ CallFails(c)  PROVE StaysBusy
  BY <1>2, LanesStay DEF UpdateTenant, CallFails, PersistFails, laneVars, lapseVars
<1>3. ASSUME NEW t \in Tasks, RouteManager(t) \/ CompleteManager(t)  PROVE StaysBusy
  <2>1. GetManager
    BY <1>3 DEF RouteManager, CompleteManager
  <2>2. CASE loaded
    BY <2>1, <2>2, LanesStay DEF GetManager, lapseVars
  <2>3. CASE ~loaded
    BY <2>1, <2>3 DEF GetManager, StaysBusy
  <2>. QED  BY <2>2, <2>3
<1>4. ASSUME NEW t \in Tasks, RouteAcquires(t)  PROVE StaysBusy
  <2>1. PICK l \in Lanes : AcquireLane(Route(t), l)
    BY <1>4 DEF RouteAcquires
  <2>2. \A m \in Lanes : lanes[m].status = "busy" => lanes'[m].status = "busy"
    BY <1>0, <2>1 DEF AcquireLane, SetLane, LaneTypeOK
  <2>. QED  BY <1>4, <2>2, LanesStay DEF RouteAcquires, lapseVars
<1>5. ASSUME NEW t \in Tasks, RouteEnqueues(t)  PROVE StaysBusy
  <2>1. PICK l \in Lanes : EnqueueTask(Route(t), t, l)
    BY <1>5 DEF RouteEnqueues
  <2>2. \A m \in Lanes : lanes[m].status = "busy" => lanes'[m].status = "busy"
    BY <1>0, <2>1 DEF EnqueueTask, SetLane, LaneTypeOK
  <2>. QED  BY <1>5, <2>2, LanesStay DEF RouteEnqueues, lapseVars
<1>6. ASSUME NEW t \in Tasks, CompleteHandsOver(t)  PROVE StaysBusy
  <2>1. PICK queue, u : SetLane(laneOf[t], lanes[laneOf[t]].status, u, queue)
    BY <1>6 DEF CompleteHandsOver, HandOverLane
  <2>2. \A m \in Lanes : lanes[m].status = "busy" => lanes'[m].status = "busy"
    BY <1>0, <2>1 DEF SetLane, LaneTypeOK
  <2>. QED  BY <1>6, <2>2, LanesStay DEF CompleteHandsOver, lapseVars
<1>7. ASSUME LanesExpire  PROVE StaysBusy
  BY <1>7 DEF LanesExpire, LanesLapse, StaysBusy
<1>8. ASSUME Crash  PROVE StaysBusy
  BY <1>8 DEF Crash, LoseMemory, lapseVars, StaysBusy
<1>9. ASSUME UNCHANGED vars  PROVE StaysBusy
  BY <1>9, LanesStay DEF vars, laneVars, lapseVars
<1>. QED
  BY NextCases, <1>1, <1>2, <1>3, <1>4, <1>5, <1>6, <1>7, <1>8, <1>9

---------------------------------------------------------------------------
(* One occupant, whose lane is busy                                        *)

\* A step that starts nothing and leaves busy lanes busy.
LEMMA SerialEases ==
    ASSUME SerialInv, NoneOccupies, StaysBusy, TypeOK'
    PROVE  SerialCore'
<1>0. TypeOK /\ Placed /\ CallsSeeLanes /\ loaded \in BOOLEAN /\ loaded' \in BOOLEAN
  BY DEF SerialInv, CallInv, CallCore, TypeOK, LaneTypeOK
<1>1. \A t \in Tasks : Occupies(t)' => /\ Occupies(t) /\ laneOf'[t] = laneOf[t]
                                       /\ laneOf[t] \in Lanes
  BY OccupantPlaced DEF NoneOccupies
<1>2. \A l \in Lanes : l \notin misled' => l \notin misled
  BY DEF StaysBusy
<1>3. OneOccupant'
  BY <1>1, <1>2 DEF OneOccupant, SerialInv, SerialCore
<1>4. ASSUME NEW t \in Tasks, Occupies(t)', laneOf'[t] \notin misled'
      PROVE  /\ loaded' => lanes'[laneOf'[t]].status = "busy"
             /\ pc'[Route(t)] # "save-acquire" /\ laneOf'[t] \notin lapsed'
                  => saved'[laneOf'[t]].status = "busy"
  <2>. DEFINE l == laneOf[t]
  <2>1. /\ Occupies(t) /\ laneOf'[t] = l /\ l \in Lanes /\ l \notin misled
    BY <1>1, <1>2, <1>4
  <2>2. /\ loaded => lanes[l].status = "busy"
        /\ pc[Route(t)] # "save-acquire" /\ l \notin lapsed => saved[l].status = "busy"
    BY <2>1 DEF SerialInv, SerialCore, OccupiedIsBusy
  <2>3. pc[Route(t)] = "save-acquire" => pc'[Route(t)] = "save-acquire"
    BY <1>4 DEF NoneOccupies
  <2>4. pc[Route(t)] = "save-acquire" => loaded
    BY <1>0 DEF CallsSeeLanes, Replies
  <2>5. /\ loaded /\ loaded' /\ lanes[l].status = "busy" => lanes'[l].status = "busy"
        /\ ~loaded /\ loaded' => lanes'[l] = saved[l] /\ l \notin lapsed
        /\ l \notin lapsed' => l \notin lapsed /\ saved'[l].status = saved[l].status
    BY <1>4, <2>1 DEF StaysBusy
  <2>6. loaded' => lanes'[l].status = "busy"
    <3>1. CASE loaded
      BY <2>2, <2>5, <3>1
    <3>2. CASE ~loaded
      BY <2>2, <2>4, <2>5, <3>2
    <3>. QED  BY <3>1, <3>2
  <2>7. pc'[Route(t)] # "save-acquire" /\ l \notin lapsed' => saved'[l].status = "busy"
    BY <2>2, <2>3, <2>5
  <2>. QED  BY <2>1, <2>6, <2>7
<1>5. OccupiedIsBusy'
  BY <1>4 DEF OccupiedIsBusy
<1>. QED  BY <1>3, <1>5 DEF SerialCore

\* The step that takes an idle lane: nobody occupies it.
LEMMA SerialAcquires ==
    ASSUME SerialInv, TypeOK', NEW t \in Tasks, RouteAcquires(t)
    PROVE  SerialCore' /\ NoneStarts
<1>0. TypeOK /\ Placed /\ CallsSeeLanes /\ LaneTypeOK
  BY DEF SerialInv, CallInv, CallCore, TypeOK
<1>1. PICK l \in Lanes : AcquireLane(Route(t), l) /\ laneOf' = [laneOf EXCEPT ![t] = l]
  BY DEF RouteAcquires
<1>2. /\ pc[Route(t)] = "acquire" /\ Goto(Route(t), "save-acquire")
      /\ UNCHANGED <<saved, loaded, lapsed, misled, pushed, reports>>
  BY DEF RouteAcquires, lapseVars, taskVars
<1>3. /\ \A u \in Tasks : pc'[Route(u)] = IF u = t THEN "save-acquire" ELSE pc[Route(u)]
      /\ \A u \in Tasks : pc'[Complete(u)] = pc[Complete(u)]
      /\ \A u \in Tasks : laneOf'[u] = IF u = t THEN l ELSE laneOf[u]
  BY <1>0, <1>1, <1>2, GotoRoute DEF TypeOK
<1>4. loaded /\ t \notin pushed /\ lanes[l].status = "idle" /\ lanes'[l].status = "busy"
  BY <1>0, <1>1, <1>2 DEF CallsSeeLanes, Placed, Unplaced, Replies, AcquireLane, FirstIdle, SetLane,
     LaneTypeOK
<1>5. \A u \in Tasks : Executing(u)' <=> Executing(u)
  BY <1>2, <1>3 DEF Executing
<1>6. \A u \in Tasks : u # t => (Occupies(u)' <=> Occupies(u))
  BY <1>3, <1>5 DEF Occupies
<1>7. \A u \in Tasks : Occupies(u) => laneOf[u] \in Lanes
  BY OccupantPlaced
<1>8. \A u \in Tasks : Occupies(u) /\ laneOf[u] = l => l \in misled
  BY <1>4 DEF SerialInv, SerialCore, OccupiedIsBusy
<1>9. OneOccupant'
  <2>. SUFFICES ASSUME NEW u \in Tasks, NEW v \in Tasks, Occupies(u)', Occupies(v)',
                       laneOf'[u] = laneOf'[v], laneOf'[u] \notin misled
                PROVE  u = v
    BY <1>2 DEF OneOccupant
  <2>1. CASE u # t /\ v # t
    BY <1>3, <1>6, <2>1 DEF SerialInv, SerialCore, OneOccupant
  <2>2. CASE u = t /\ v # t
    BY <1>3, <1>6, <1>8, <2>2
  <2>3. CASE u # t /\ v = t
    BY <1>3, <1>6, <1>8, <2>3
  <2>. QED  BY <2>1, <2>2, <2>3
<1>10. OccupiedIsBusy'
  <2>. SUFFICES ASSUME NEW u \in Tasks, Occupies(u)', laneOf'[u] \notin misled
                PROVE  /\ loaded' => lanes'[laneOf'[u]].status = "busy"
                       /\ pc'[Route(u)] # "save-acquire" /\ laneOf'[u] \notin lapsed
                            => saved[laneOf'[u]].status = "busy"
    BY <1>2 DEF OccupiedIsBusy
  <2>1. CASE u = t
    BY <1>3, <1>4, <2>1
  <2>2. CASE u # t
    <3>1. Occupies(u) /\ laneOf'[u] = laneOf[u] /\ laneOf[u] \in Lanes /\ pc'[Route(u)] = pc[Route(u)]
      BY <1>3, <1>6, <1>7, <2>2
    <3>2. /\ lanes[laneOf[u]].status = "busy"
          /\ pc[Route(u)] # "save-acquire" /\ laneOf[u] \notin lapsed => saved[laneOf[u]].status = "busy"
      BY <1>4, <3>1 DEF SerialInv, SerialCore, OccupiedIsBusy
    <3>3. lanes'[laneOf[u]].status = "busy"
      BY <1>0, <1>1, <3>1, <3>2 DEF AcquireLane, SetLane, LaneTypeOK
    <3>. QED  BY <3>1, <3>2, <3>3
  <2>. QED  BY <2>1, <2>2
<1>11. NoneStarts
  <2>1. \A u \in Tasks : Executing(u) => u # t
    BY <1>4 DEF Executing
  <2>. QED  BY <1>2, <1>3, <1>5, <2>1 DEF NoneStarts
<1>. QED  BY <1>9, <1>10, <1>11 DEF SerialCore

\* The step that pushes a task changes nothing about who occupies what.
LEMMA SerialPushes ==
    ASSUME SerialInv, TypeOK', NEW t \in Tasks, DispatchPush(t), StaysBusy
    PROVE  SerialCore'
<1>0. TypeOK
  BY DEF SerialInv, CallInv
<1>1. /\ pc[Route(t)] = "push" /\ Goto(Route(t), "record") /\ pushed' = pushed \cup {t}
      /\ UNCHANGED <<laneOf, reports>>
  BY DEF DispatchPush
<1>2. /\ \A u \in Tasks : pc'[Route(u)] = IF u = t THEN "record" ELSE pc[Route(u)]
      /\ \A u \in Tasks : pc'[Complete(u)] = pc[Complete(u)]
  BY <1>0, <1>1, GotoRoute
<1>3. NoneOccupies
  BY <1>1, <1>2 DEF NoneOccupies, Occupies, Executing, Taking
<1>. QED  BY <1>3, SerialEases

\* The step that frees a lane: its only occupant leaves it.
LEMMA SerialFrees ==
    ASSUME SerialInv, TypeOK', NEW t \in Tasks, CompleteFrees(t)
    PROVE  SerialCore' /\ NoneStarts
<1>0. CallInv /\ TypeOK /\ Placed /\ LaneTypeOK
  BY DEF SerialInv, CallInv, CallCore, TypeOK
<1>1. /\ pc[Complete(t)] = "release" /\ Goto(Complete(t), "save-release")
      /\ SetLane(laneOf[t], "idle", NoTask, lanes[laneOf[t]].queue)
      /\ UNCHANGED <<saved, loaded, lapsed, misled, laneOf, pushed, reports>>
  BY DEF CompleteFrees, FreeLane, lapseVars, taskVars
<1>2. NoneStarts /\ NoneOccupies
  BY <1>0, <1>1, CompleteQuiet DEF Returning
<1>3. /\ \A u \in Tasks : pc'[Complete(u)] = IF u = t THEN "save-release" ELSE pc[Complete(u)]
      /\ \A u \in Tasks : pc'[Route(u)] = pc[Route(u)]
  BY <1>0, <1>1, GotoComplete
<1>4. /\ reports[t] > 0 /\ t \in pushed /\ Executing(t) /\ pc[Route(t)] \notin Taking
      /\ reports[t] \in Nat /\ laneOf[t] \in Lanes
  BY <1>0, <1>1 DEF Placed, Executing, TypeOK
<1>5. ~Occupies(t)' /\ Occupies(t)
  BY <1>1, <1>3, <1>4 DEF Occupies, Executing
<1>6. OneOccupant'
  BY <1>1, <1>2 DEF OneOccupant, SerialInv, SerialCore, NoneOccupies
<1>7. ASSUME NEW u \in Tasks, Occupies(u)', laneOf'[u] \notin misled
      PROVE  /\ loaded => lanes'[laneOf'[u]].status = "busy"
             /\ pc'[Route(u)] # "save-acquire" /\ laneOf'[u] \notin lapsed
                  => saved[laneOf'[u]].status = "busy"
  <2>1. Occupies(u) /\ laneOf'[u] = laneOf[u] /\ u # t /\ laneOf[u] \in Lanes
    BY <1>2, <1>5, <1>7, OccupantPlaced DEF NoneOccupies
  <2>2. laneOf[u] # laneOf[t]
    BY <1>5, <1>7, <2>1 DEF SerialInv, SerialCore, OneOccupant
  <2>3. lanes'[laneOf[u]] = lanes[laneOf[u]]
    BY <1>0, <1>1, <2>1, <2>2 DEF SetLane, LaneTypeOK
  <2>. QED  BY <1>3, <1>7, <2>1, <2>3 DEF SerialInv, SerialCore, OccupiedIsBusy
<1>8. OccupiedIsBusy'
  BY <1>1, <1>7 DEF OccupiedIsBusy
<1>. QED  BY <1>2, <1>6, <1>8 DEF SerialCore

\* The step that saves a lane writes what is in memory, where an occupied lane is busy.
LEMMA SerialSaves ==
    ASSUME SerialInv, TypeOK', NEW c \in Calls, SaveLane(c)
    PROVE  SerialCore' /\ NoneStarts
<1>0. CallInv /\ TypeOK /\ StagesOK /\ Placed /\ CallsSeeLanes /\ LaneTypeOK
  BY DEF SerialInv, CallInv, CallCore, TypeOK
<1>. DEFINE l == laneOf[c[2]]
<1>1. /\ pc[c] \in SavingStages /\ Goto(c, AfterSave(pc[c]))
      /\ saved' = [saved EXCEPT ![l] = lanes[l]] /\ lapsed' = lapsed \ {l}
      /\ UNCHANGED <<lanes, loaded, misled, laneOf, pushed, reports>>
  BY DEF SaveLane, PersistLane
<1>2. PICK v \in Tasks : c \in {Route(v), Complete(v), Cancel(v)}
  BY CallKinds
<1>3. loaded
  BY <1>0, <1>1, <1>2 DEF StagesOK, CallsSeeLanes, SavingStages, CancelStages, Replies
<1>4. \A u \in Tasks :
        /\ \/ pc'[Route(u)] = pc[Route(u)]
           \/ pc[Route(u)] = "save-acquire" /\ pc'[Route(u)] = "incr" /\ c = Route(u)
           \/ pc[Route(u)] = "save-queue" /\ pc'[Route(u)] = "record-queued"
        /\ \/ pc'[Complete(u)] = pc[Complete(u)]
           \/ pc[Complete(u)] = "save-release" /\ pc'[Complete(u)] = "status"
  <2>1. CASE c = Route(v)
    <3>1. pc[c] \in {"save-acquire", "save-queue"}
      BY <1>0, <1>1, <2>1 DEF StagesOK, RouteStages, SavingStages, Replies
    <3>2. \A u \in Tasks : pc'[Route(u)] = IF u = v THEN AfterSave(pc[c]) ELSE pc[Route(u)]
      BY <1>0, <1>1, <2>1, GotoRoute
    <3>3. \A u \in Tasks : pc'[Complete(u)] = pc[Complete(u)]
      BY <1>0, <1>1, <2>1, GotoRoute
    <3>. QED  BY <2>1, <3>1, <3>2, <3>3 DEF AfterSave
  <2>2. CASE c = Complete(v)
    <3>1. pc[c] = "save-release"
      BY <1>0, <1>1, <2>2 DEF StagesOK, CompleteStages, SavingStages
    <3>2. /\ \A u \in Tasks : pc'[Complete(u)] = IF u = v THEN AfterSave(pc[c]) ELSE pc[Complete(u)]
          /\ \A u \in Tasks : pc'[Route(u)] = pc[Route(u)]
      BY <1>0, <1>1, <2>2, GotoComplete
    <3>. QED  BY <2>2, <3>1, <3>2 DEF AfterSave
  <2>3. CASE c = Cancel(v)
    BY <1>0, <1>1, <2>3 DEF StagesOK, CancelStages, SavingStages
  <2>. QED  BY <1>2, <2>1, <2>2, <2>3
<1>5. \A u \in Tasks : Executing(u)' <=> Executing(u)
  BY <1>1, <1>4 DEF Executing
<1>6. \A u \in Tasks : Occupies(u)' <=> Occupies(u)
  BY <1>4, <1>5 DEF Occupies, Taking
<1>7. OneOccupant'
  BY <1>1, <1>6 DEF OneOccupant, SerialInv, SerialCore
<1>8. ASSUME NEW u \in Tasks, Occupies(u), laneOf[u] \notin misled
      PROVE  /\ lanes[laneOf[u]].status = "busy"
             /\ pc'[Route(u)] # "save-acquire" /\ laneOf[u] \notin lapsed'
                  => saved'[laneOf[u]].status = "busy"
  <2>1. /\ laneOf[u] \in Lanes /\ lanes[laneOf[u]].status = "busy"
        /\ pc[Route(u)] # "save-acquire" /\ laneOf[u] \notin lapsed
             => saved[laneOf[u]].status = "busy"
    BY <1>3, <1>8, OccupantPlaced DEF SerialInv, SerialCore, OccupiedIsBusy
  <2>2. CASE laneOf[u] = l
    BY <1>0, <1>1, <2>1, <2>2 DEF LaneTypeOK
  <2>3. CASE laneOf[u] # l
    <3>1. c # Route(u)
      BY <2>3 DEF Route
    <3>2. pc[Route(u)] = "save-acquire" => pc'[Route(u)] = "save-acquire"
      BY <1>4, <3>1
    <3>. QED  BY <1>0, <1>1, <2>1, <2>3, <3>2 DEF LaneTypeOK
  <2>. QED  BY <2>1, <2>2, <2>3
<1>9. OccupiedIsBusy'
  BY <1>1, <1>6, <1>8 DEF OccupiedIsBusy
<1>10. NoneStarts
  BY <1>1, <1>5 DEF NoneStarts
<1>. QED  BY <1>7, <1>9, <1>10 DEF SerialCore

LEMMA SerialStep ==
    ASSUME "redelivery" \notin FaultKinds
    PROVE  SerialInv /\ [Next]_vars => SerialInv'
<1>. SUFFICES ASSUME SerialInv, [Next]_vars
              PROVE  SerialInv'
  OBVIOUS
<1>1. CallInv /\ TypeOK /\ CallInv' /\ TypeOK'
  BY CallStep DEF SerialInv, CallInv
<1>2. ASSUME NEW t \in Tasks, CompleteFrees(t)  PROVE SerialCore'
  BY <1>1, <1>2, SerialFrees
<1>3. ASSUME NEW c \in Calls, SaveLane(c)  PROVE SerialCore'
  BY <1>1, <1>3, SerialSaves
<1>4. ASSUME StaysBusy  PROVE SerialCore'
  <2>1. ASSUME NEW t \in Tasks, RouteAcquires(t)  PROVE SerialCore'
    BY <1>1, <1>4, <2>1, SerialAcquires
  <2>2. ASSUME NEW t \in Tasks, DispatchPush(t)  PROVE SerialCore'
    BY <1>1, <1>4, <2>2, SerialPushes
  <2>3. CASE NoneOccupies
    BY <1>1, <1>4, <2>3, SerialEases
  <2>. QED  BY <1>1, <1>3, <2>1, <2>2, <2>3, QuietSteps
<1>. QED  BY <1>1, <1>2, <1>3, <1>4, BusySteps DEF SerialInv

LEMMA SerialInit == Init => SerialInv
<1>. SUFFICES ASSUME Init  PROVE SerialInv
  OBVIOUS
<1>1. \A t \in Tasks : ~Occupies(t)
  BY CallsOfTask DEF Init, Occupies, Executing, Taking
<1>. QED  BY <1>1, CallInit DEF SerialInv, SerialCore, OneOccupant, OccupiedIsBusy

LEMMA SerialImplies == SerialInv => LaneSerial /\ SavedLaneBusy
<1>. SUFFICES ASSUME SerialInv  PROVE LaneSerial /\ SavedLaneBusy
  OBVIOUS
<1>1. \A t \in Tasks : Executing(t) => Occupies(t) /\ pc[Route(t)] # "save-acquire"
  BY DEF Occupies, Executing, SerialInv, CallInv, CallCore, Placed, Taking
<1>. QED
  BY <1>1 DEF LaneSerial, SavedLaneBusy, SerialInv, SerialCore, OneOccupant, OccupiedIsBusy

\* The agents hold one task of a lane at a time, whatever crashes, failing
\* commands, cancellations and expiries interleave with any number of calls,
\* unless a completion is reported twice, or a process loaded the lane after
\* its record had expired.
THEOREM SerialCorrect ==
    ASSUME "redelivery" \notin FaultKinds
    PROVE  Spec => []LaneSerial
<1>1. SerialInv => LaneSerial
  BY SerialImplies
<1>2. SerialInv /\ [Next]_vars => SerialInv'
  BY SerialStep
<1>. QED  BY <1>1, <1>2, SerialInit, PTL DEF Spec

\* And Redis shows the lane of a task that an agent holds as busy until its
\* record expires: a restart before that does not give it to another request.
THEOREM SavedLaneCorrect ==
    ASSUME "redelivery" \notin FaultKinds
    PROVE  Spec => []SavedLaneBusy
<1>1. SerialInv => SavedLaneBusy
  BY SerialImplies
<1>2. SerialInv /\ [Next]_vars => SerialInv'
  BY SerialStep
<1>. QED  BY <1>1, <1>2, SerialInit, PTL DEF Spec

---------------------------------------------------------------------------
(* The router implements LaneSchedule                                      *)

\* Steps that give the agents nothing let them finish any number of tasks.
LEMMA FinishStep ==
    ASSUME NoneStarts, misled' = misled
    PROVE  Schedule!Finish
<1>1. \A t \in Tasks : Executing(t)' => Executing(t) /\ laneOf'[t] = laneOf[t]
  BY DEF NoneStarts
<1>. DEFINE done == {t \in Tasks : ~Executing(t)'}
<1>2. ASSUME NEW l \in Lanes
      PROVE  {t \in Tasks : laneOf'[t] = l /\ Executing(t)'}
               = {t \in Tasks : laneOf[t] = l /\ Executing(t)} \ done
  <2>1. ASSUME NEW t \in Tasks, Executing(t)', laneOf'[t] = l
        PROVE  laneOf[t] = l /\ Executing(t)
    BY <1>1, <2>1
  <2>2. ASSUME NEW t \in Tasks, Executing(t)', laneOf[t] = l
        PROVE  laneOf'[t] = l
    BY <1>1, <2>2
  <2>. QED  BY <2>1, <2>2
<1>3. [l \in Lanes |-> {t \in Tasks : laneOf'[t] = l /\ Executing(t)'}]
        = [l \in Lanes |-> {t \in Tasks : laneOf[t] = l /\ Executing(t)} \ done]
  BY <1>2
<1>4. done \in SUBSET Tasks
  OBVIOUS
<1>. HIDE DEF done
<1>5. [l \in Lanes |-> {t \in Tasks : laneOf[t] = l /\ Executing(t)}]'
        = [l \in Lanes |-> [m \in Lanes |-> {t \in Tasks : laneOf[t] = m /\ Executing(t)}][l] \ done]
  BY <1>3
<1>6. pushed' = pushed
  BY DEF NoneStarts
<1>. QED  BY <1>4, <1>5, <1>6 DEF Schedule!Finish

\* A process that loads the lanes may forget some whose record had expired.
LEMMA ForgetStep ==
    ASSUME UNCHANGED <<pushed, laneOf>>, \A t \in Tasks : Executing(t)' <=> Executing(t),
           misled \subseteq misled', misled' \subseteq Lanes
    PROVE  Schedule!Forget
<1>1. [l \in Lanes |-> {t \in Tasks : laneOf[t] = l /\ Executing(t)}]'
        = [l \in Lanes |-> {t \in Tasks : laneOf[t] = l /\ Executing(t)}]
  <2>1. ASSUME NEW l \in Lanes
        PROVE  {t \in Tasks : laneOf'[t] = l /\ Executing(t)'}
                 = {t \in Tasks : laneOf[t] = l /\ Executing(t)}
    OBVIOUS
  <2>. QED  BY <2>1
<1>2. misled' = misled \cup misled' /\ misled' \in SUBSET Lanes
  OBVIOUS
<1>. QED  BY <1>1, <1>2 DEF Schedule!Forget

\* A push starts a task in a lane where nothing runs, or that was forgotten.
LEMMA StartStep ==
    ASSUME SerialInv, NEW t \in Tasks, DispatchPush(t)
    PROVE  \E u \in Tasks, l \in Lanes : Schedule!Start(u, l)
<1>0. TypeOK /\ Placed /\ OneOccupant
  BY DEF SerialInv, CallInv, CallCore, SerialCore
<1>l. PICK l \in Lanes : l = laneOf[t]
  BY <1>0 DEF DispatchPush, Placed, Taking
<1>1. /\ pc[Route(t)] = "push" /\ Goto(Route(t), "record") /\ pushed' = pushed \cup {t}
      /\ UNCHANGED <<laneOf, reports, misled>>
  BY DEF DispatchPush, laneVars, lapseVars
<1>2. \A u \in Tasks : pc'[Complete(u)] = pc[Complete(u)]
  BY <1>0, <1>1, GotoRoute
<1>3. t \notin pushed /\ Occupies(t) /\ ~Executing(t)
  BY <1>0, <1>1 DEF Placed, Taking, Occupies, Executing
<1>4. reports[t] = 0
  BY <1>0, <1>3 DEF Placed, TypeOK
<1>5. Executing(t)'
  BY <1>1, <1>4 DEF Executing
<1>6. \A u \in Tasks \ {t} : Executing(u)' <=> Executing(u)
  BY <1>1, <1>2 DEF Executing
<1>7. l \notin misled => \A u \in Tasks : Executing(u) => laneOf[u] # l
  BY <1>0, <1>l, <1>3 DEF OneOccupant, Occupies
<1>8. {u \in Tasks : laneOf[u] = l /\ Executing(u)} = {} \/ l \in misled
  BY <1>7
<1>9. {u \in Tasks : laneOf'[u] = l /\ Executing(u)'}
        = {u \in Tasks : laneOf[u] = l /\ Executing(u)} \cup {t}
  <2>1. ASSUME NEW u \in Tasks
        PROVE  laneOf'[u] = l /\ Executing(u)' <=> (laneOf[u] = l /\ Executing(u)) \/ u = t
    BY <1>l, <1>1, <1>5, <1>6
  <2>. QED  BY <2>1
<1>10. ASSUME NEW m \in Lanes \ {l}
       PROVE  {u \in Tasks : laneOf'[u] = m /\ Executing(u)'}
                = {u \in Tasks : laneOf[u] = m /\ Executing(u)}
  <2>1. ASSUME NEW u \in Tasks
        PROVE  laneOf'[u] = m /\ Executing(u)' <=> laneOf[u] = m /\ Executing(u)
    BY <1>l, <1>1, <1>6
  <2>. QED  BY <2>1
<1>11. [m \in Lanes |-> {u \in Tasks : laneOf[u] = m /\ Executing(u)}]'
         = [[m \in Lanes |-> {u \in Tasks : laneOf[u] = m /\ Executing(u)}]
              EXCEPT ![l] = {u \in Tasks : laneOf[u] = l /\ Executing(u)} \cup {t}]
  <2>1. ASSUME NEW m \in Lanes
        PROVE  {u \in Tasks : laneOf'[u] = m /\ Executing(u)'}
                 = IF m = l THEN {u \in Tasks : laneOf[u] = l /\ Executing(u)} \cup {t}
                            ELSE {u \in Tasks : laneOf[u] = m /\ Executing(u)}
    BY <1>9, <1>10
  <2>. QED  BY <2>1
<1>12. [m \in Lanes |-> {u \in Tasks : laneOf[u] = m /\ Executing(u)}][l] = {} \/ l \in misled
  BY <1>8
<1>13. Schedule!Start(t, l)
  BY <1>1, <1>3, <1>11, <1>12 DEF Schedule!Start
<1>. QED  BY <1>13

LEMMA ManagerForgets ==
    ASSUME TypeOK, TypeOK', NEW t \in Tasks, RouteManager(t) \/ CompleteManager(t)
    PROVE  Schedule!Forget
<1>1. misled \subseteq misled'
  BY DEF RouteManager, CompleteManager, GetManager, lapseVars
<1>2. misled' \subseteq Lanes
  BY DEF TypeOK, LaneTypeOK
<1>3. UNCHANGED <<pushed, laneOf, reports>>
  BY DEF RouteManager, CompleteManager, taskVars
<1>4. CASE RouteManager(t)
  <2>1. \A u \in Tasks : pc'[Complete(u)] = pc[Complete(u)]
    BY <1>4, GotoRoute DEF RouteManager
  <2>2. \A u \in Tasks : Executing(u)' <=> Executing(u)
    BY <1>3, <2>1 DEF Executing
  <2>. QED  BY <1>1, <1>2, <1>3, <2>2, ForgetStep
<1>5. CASE CompleteManager(t)
  <2>1. /\ pc[Complete(t)] = "manager"
        /\ \A u \in Tasks : pc'[Complete(u)] = IF u = t THEN "release" ELSE pc[Complete(u)]
    BY <1>5, GotoComplete DEF CompleteManager
  <2>2. \A u \in Tasks : Executing(u)' <=> Executing(u)
    BY <1>3, <2>1 DEF Executing
  <2>. QED  BY <1>1, <1>2, <1>3, <2>2, ForgetStep
<1>. QED  BY <1>4, <1>5

\* Only get_manager finds that a record has expired.
LEMMA MisledSteps ==
    ASSUME [Next]_vars
    PROVE  misled' = misled \/ \E t \in Tasks : RouteManager(t) \/ CompleteManager(t)
<1>1. ASSUME NEW t \in Tasks,
             \/ RouteRequest(t) \/ RouteFindsNoLane(t) \/ RouteRejected(t) \/ RouteRecordsQueued(t)
             \/ DispatchIncr(t) \/ DispatchPush(t) \/ DispatchRecord(t)
             \/ CompleteStatus(t) \/ CompleteNext(t) \/ CancelStatus(t)
             \/ AgentReports(t) \/ AgentReportsAgain(t) \/ CancelTask(t) \/ TaskHashExpires(t)
      PROVE  misled' = misled
  <2>1. UNCHANGED laneVars
    BY <1>1 DEF RouteRequest, RouteFindsNoLane, RouteRejected, RouteRecordsQueued,
          DispatchIncr, DispatchPush, DispatchRecord, CompleteStatus, CompleteNext, CancelStatus,
          UpdateStatus, AgentReports, AgentReportsAgain, Report, CancelTask, TaskHashExpires
  <2>. QED  BY <2>1 DEF laneVars
<1>2. ASSUME NEW t \in Tasks,
             RouteAcquires(t) \/ RouteEnqueues(t) \/ CompleteHandsOver(t) \/ CompleteFrees(t)
      PROVE  misled' = misled
  BY <1>2 DEF RouteAcquires, RouteEnqueues, CompleteHandsOver, CompleteFrees, lapseVars
<1>3. ASSUME NEW c \in Calls, SaveLane(c) \/ UpdateTenant(c) \/ CallFails(c)
      PROVE  misled' = misled
  BY <1>3 DEF SaveLane, PersistLane, UpdateTenant, CallFails, PersistFails, laneVars
<1>4. ASSUME LanesExpire \/ Crash \/ UNCHANGED vars  PROVE misled' = misled
  BY <1>4 DEF LanesExpire, LanesLapse, Crash, LoseMemory, lapseVars, vars, laneVars
<1>. QED  BY NextCases, <1>1, <1>2, <1>3, <1>4

LEMMA ScheduleStep ==
    ASSUME "redelivery" \notin FaultKinds
    PROVE  SerialInv /\ [Next]_vars => [Schedule!Next]_(Schedule!scheduleVars)
<1>. SUFFICES ASSUME SerialInv, [Next]_vars
              PROVE  Schedule!Next
  OBVIOUS
<1>0. CallInv /\ TypeOK /\ CallInv' /\ TypeOK'
  BY CallStep DEF SerialInv, CallInv
<1>1. ASSUME NEW t \in Tasks, RouteManager(t) \/ CompleteManager(t)  PROVE Schedule!Next
  BY <1>0, <1>1, ManagerForgets DEF Schedule!Next
<1>2. ASSUME NEW t \in Tasks, DispatchPush(t)  PROVE Schedule!Next
  <2>1. \E u \in Tasks, l \in Lanes : Schedule!Start(u, l)
    BY <1>2, StartStep
  <2>. QED  BY <2>1 DEF Schedule!Next
<1>3. ASSUME misled' = misled, NoneStarts  PROVE Schedule!Next
  BY <1>3, FinishStep DEF Schedule!Next
<1>4. ASSUME NEW t \in Tasks, RouteAcquires(t)  PROVE NoneStarts
  BY <1>0, <1>4, SerialAcquires
<1>5. ASSUME NEW c \in Calls, SaveLane(c)  PROVE NoneStarts
  BY <1>0, <1>5, SerialSaves
<1>. QED  BY <1>0, <1>1, <1>2, <1>3, <1>4, <1>5, QuietSteps, MisledSteps

\* The router implements LaneSchedule for any tasks, lanes, bounds and faults,
\* as long as no completion is reported twice.
THEOREM ScheduleImplemented ==
    ASSUME "redelivery" \notin FaultKinds
    PROVE  Spec => ImplementsSchedule
<1>1. Init => Schedule!Init
  <2>. SUFFICES ASSUME Init  PROVE Schedule!Init
    OBVIOUS
  <2>1. pushed = {} /\ misled = {} /\ \A t \in Tasks : ~Executing(t)
    BY DEF Init, LaneInit, Executing
  <2>. QED  BY <2>1 DEF Schedule!Init
<1>2. SerialInv /\ [Next]_vars => SerialInv'
  BY SerialStep
<1>3. SerialInv /\ [Next]_vars => [Schedule!Next]_(Schedule!scheduleVars)
  BY ScheduleStep
<1>. QED
  BY <1>1, <1>2, <1>3, SerialInit, PTL DEF Spec, ImplementsSchedule, Schedule!Spec

=============================================================================
