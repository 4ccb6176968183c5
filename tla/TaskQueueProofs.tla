-------------------------- MODULE TaskQueueProofs --------------------------
(***************************************************************************)
(* Theorems about TaskQueue, for any number of tasks, callers and faults.  *)
(***************************************************************************)
EXTENDS TaskQueueInvariants, TLAPS

\* A delay is a number of seconds.
LEMMA DelayNat == ASSUME NEW n \in Nat PROVE Delay(n) \in Nat
BY DEF Delay

\* A task that goes back into the queue keeps the shape of a queue member.
LEMMA RequeuedEntry ==
    ASSUME NEW e \in Entry, now \in Nat
    PROVE  /\ Requeued(e) \in Entry
           /\ Requeued(e).task = e.task
           /\ Requeued(e).retries = e.retries + 1
<1>1. e.retries + 1 \in Nat BY DEF Entry
<1>2. now + Delay(e.retries + 1) \in Nat BY <1>1, DelayNat
<1> QED BY <1>1, <1>2 DEF Requeued, Entry

\* What a caller has in its hands: a queue member, or nothing.
LEMMA EntryIsJob == ASSUME NEW e \in Entry PROVE e \in Job /\ e.task \in Tasks
BY DEF Entry, Job

LEMMA NoJobOK == NoJob \in Job
BY DEF NoJob, Job

---------------------------------------------------------------------------
(* Types                                                                   *)

LEMMA TypeInit == ASSUME QueueInit PROVE TypeInv
BY DEF QueueInit, TypeInv, QueueTypeOK, JobsOK, HasTask, InHand, Stages, Entry, Job, NoJob

LEMMA TypeStep == ASSUME TypeInv, [QueueNext]_taskQueueVars PROVE TypeInv'
<1> USE DEF TypeInv, QueueTypeOK, JobsOK, HasTask, InHand, Stages, Goto, Hold, Leave, queueVars,
            historyVars, None
<1>1. ASSUME NEW c \in Callers, Submit(c) PROVE TypeInv'
  <2>1. PICK t \in Tasks, p \in Priorities :
          job' = [job EXCEPT ![c] =
            [task |-> t, prio |-> p, retries |-> 0, created |-> now]]
    BY <1>1 DEF Submit
  <2>2. [task |-> t, prio |-> p, retries |-> 0, created |-> now] \in Entry \cap Job
    BY QueueAssumption DEF QueueAssumption, Entry, Job
  <2> QED BY <1>1, <2>1, <2>2 DEF Submit
<1>2. ASSUME NEW c \in Callers, EnqueueAdd(c) PROVE TypeInv'
  <2>1. job[c] \in Entry /\ job[c].task \in Tasks BY <1>2, EntryIsJob DEF EnqueueAdd
  <2> QED BY <1>2, <2>1 DEF EnqueueAdd
<1>3. ASSUME NEW c \in Callers, EnqueueNote(c) PROVE TypeInv'
  BY <1>3, NoJobOK DEF EnqueueNote
<1>4. ASSUME NEW c \in Callers, DequeuePeek(c) PROVE TypeInv'
  <2>1. PICK e \in queue : job' = [job EXCEPT ![c] = e] BY <1>4 DEF DequeuePeek
  <2>2. e \in Entry /\ e \in Job BY EntryIsJob
  <2> QED BY <1>4, <2>1, <2>2 DEF DequeuePeek
<1>5. ASSUME NEW c \in Callers, DequeueRemove(c) PROVE TypeInv'
  <2>1. job[c] \in Entry /\ job[c].task \in Tasks BY <1>5, EntryIsJob DEF DequeueRemove, MayRetry
  <2> QED BY <1>5, <2>1, NoJobOK, QueueAssumption DEF DequeueRemove, QueueAssumption, MayRetry
<1>6. ASSUME NEW c \in Callers, DequeueRegister(c) PROVE TypeInv'
  <2>1. job[c] \in Entry /\ job[c].task \in Tasks BY <1>6, EntryIsJob DEF DequeueRegister, MayRetry
  <2> QED BY <1>6, <2>1, NoJobOK, QueueAssumption DEF DequeueRegister, QueueAssumption, MayRetry
<1>7. ASSUME NEW c \in Callers, CompleteRemove(c) PROVE TypeInv'
  <2>1. job[c] \in Entry /\ job[c].task \in Tasks BY <1>7, EntryIsJob DEF CompleteRemove, MayRetry
  <2> QED BY <1>7, <2>1, NoJobOK, QueueAssumption DEF CompleteRemove, QueueAssumption, MayRetry
<1>8. ASSUME NEW c \in Callers, CompleteStatus(c) PROVE TypeInv'
  <2>1. job[c] \in Entry /\ job[c].task \in Tasks BY <1>8, EntryIsJob DEF CompleteStatus, MayRetry
  <2> QED BY <1>8, <2>1, NoJobOK, QueueAssumption DEF CompleteStatus, QueueAssumption, MayRetry
<1>9. ASSUME NEW c \in Callers, GiveUp(c) PROVE TypeInv'
  BY <1>9, NoJobOK DEF GiveUp
<1>10. ASSUME NEW c \in Callers, Requeue(c) PROVE TypeInv'
  <2>1. job[c] \in Entry /\ job[c].task \in Tasks BY <1>10, EntryIsJob DEF Requeue, MayRetry
  <2>2. Requeued(job[c]) \in Entry /\ Requeued(job[c]) \in Job BY <2>1, RequeuedEntry, EntryIsJob
  <2> QED BY <1>10, <2>1, <2>2 DEF Requeue, MayRetry
<1>11. ASSUME NEW c \in Callers, RequeueToDeadLetter(c) PROVE TypeInv'
  <2>1. job[c] \in Entry /\ job[c].task \in Tasks BY <1>11, EntryIsJob DEF RequeueToDeadLetter, MayRetry
  <2> QED BY <1>11, <2>1, NoJobOK, QueueAssumption DEF RequeueToDeadLetter, QueueAssumption, MayRetry
<1>12. ASSUME NEW c \in Callers, RecoverStart(c) PROVE TypeInv'
  <2>1. TimedOut \subseteq Tasks BY DEF TimedOut
  <2> QED BY <1>12, <2>1 DEF RecoverStart
<1>13. ASSUME NEW c \in Callers, RecoverRemove(c) PROVE TypeInv'
  <2>1. PICK t \in timedOut[c] :
          /\ timedOut' = [timedOut EXCEPT ![c] = @ \ {t}]
          /\ processing' = [processing EXCEPT ![t] = None]
          /\ job' = [job EXCEPT ![c] =
               [task |-> t, prio |-> 0, retries |-> 0, created |-> 0]]
    BY <1>13 DEF RecoverRemove
  <2>2. [task |-> t, prio |-> 0, retries |-> 0, created |-> 0] \in Job /\ t \in Tasks
    BY <2>1 DEF Job
  <2> QED BY <1>13, <2>1, <2>2 DEF RecoverRemove
<1>14. ASSUME NEW c \in Callers, RecoverLookup(c) PROVE TypeInv'
  BY <1>14, NoJobOK DEF RecoverLookup
<1>15. ASSUME NEW c \in Callers, RecoverEnd(c) PROVE TypeInv'
  BY <1>15, NoJobOK DEF RecoverEnd
<1>16. ASSUME NEW c \in Callers, Abandon(c) PROVE TypeInv'
  <2>1. mislaid' \subseteq Tasks
    <3>1. at[c] \in OnlyInHand => job[c].task \in Tasks BY EntryIsJob DEF OnlyInHand
    <3> QED BY <1>16, <3>1 DEF Abandon
  <2> QED BY <1>16, <2>1, NoJobOK DEF Abandon
<1>17. ASSUME Tick PROVE TypeInv'
  BY <1>17 DEF Tick, callVars
<1>18. ASSUME UNCHANGED taskQueueVars PROVE TypeInv'
  BY <1>18 DEF taskQueueVars, callVars
<1> QED
  BY <1>1, <1>2, <1>3, <1>4, <1>5, <1>6, <1>7, <1>8, <1>9, <1>10, <1>11, <1>12, <1>13, <1>14, <1>15, <1>16, <1>17, <1>18
  DEF QueueNext, Enqueue, Dequeue, CompleteCall, RequeueCall, Recover

THEOREM TypeCorrect == QueueSpec => []QueueTypeOK
<1>1. QueueInit => TypeInv BY TypeInit
<1>2. TypeInv /\ [QueueNext]_taskQueueVars => TypeInv' BY TypeStep
<1>3. TypeInv => QueueTypeOK BY DEF TypeInv
<1> QED BY <1>1, <1>2, <1>3, PTL DEF QueueSpec

---------------------------------------------------------------------------
(* Where a task is, and what has been counted for it                       *)

\* Most steps take nothing into a hand and leave the queue and the counts alone.
HandsShrink ==
    \A c \in Callers : InHand(c)' =>
        InHand(c) /\ job'[c] = job[c] /\ (at'[c] = "add" <=> at[c] = "add")

LEMMA HandsShrinkKeep ==
    ASSUME CountInv, HandsShrink, UNCHANGED <<queue, dead, added, claimed>>
    PROVE  CountInv'
<1> USE DEF CountInv, HandsShrink
<1>1. OnePlace' BY DEF OnePlace
<1>2. MemberCount' BY DEF MemberCount
<1>3. HandCount' BY DEF HandCount
<1>4. DeadCount' BY DEF DeadCount
<1>5. ClaimedOnce' /\ RetryBudget' BY DEF ClaimedOnce, RetryBudget
<1> QED BY <1>1, <1>2, <1>3, <1>4, <1>5

\* A task without any count is nowhere.
LEMMA FreshNowhere ==
    ASSUME TypeInv, CountInv, NEW t \in Tasks, added[t] = 0, \A d \in Callers : job[d].task # t
    PROVE  claimed[t] = 0 /\ t \notin dead /\ \A e \in queue : e.task # t
<1> USE DEF CountInv, TypeInv, QueueTypeOK
<1>1. claimed[t] = 0 BY DEF ClaimedOnce
<1>2. t \notin dead BY QueueAssumption DEF QueueAssumption, DeadCount
<1>3. \A e \in queue : e.task # t BY DEF MemberCount, Entry
<1> QED BY <1>1, <1>2, <1>3

LEMMA CountInit == ASSUME QueueInit PROVE CountInv
BY QueueAssumption
DEF QueueInit, CountInv, OnePlace, MemberCount, HandCount, DeadCount, ClaimedOnce, RetryBudget, InHand,
    QueueAssumption

LEMMA SubmitCounts ==
    ASSUME TypeInv, CountInv, NEW c \in Callers, Submit(c) PROVE CountInv'
<1>1. PICK t \in Tasks, p \in Priorities :
        /\ added[t] = 0 /\ \A d \in Callers : job[d].task # t
        /\ job' = [job EXCEPT ![c] = [task |-> t, prio |-> p, retries |-> 0, created |-> now]]
  BY DEF Submit, Hold
<1>2. claimed[t] = 0 /\ t \notin dead /\ \A e \in queue : e.task # t BY <1>1, FreshNowhere
<1>3. /\ at' = [at EXCEPT ![c] = "add"]
      /\ UNCHANGED <<queue, dead, added, claimed>>
  BY DEF Submit, Goto, queueVars, historyVars
<1> USE DEF CountInv, TypeInv, QueueTypeOK
<1>4. OnePlace' BY <1>1, <1>2, <1>3 DEF OnePlace, InHand
<1>5. MemberCount' BY <1>3 DEF MemberCount
<1>6. HandCount' BY <1>1, <1>2, <1>3, QueueAssumption DEF HandCount, InHand, QueueAssumption
<1>7. DeadCount' BY <1>3 DEF DeadCount
<1>8. ClaimedOnce' /\ RetryBudget' BY <1>3 DEF ClaimedOnce, RetryBudget
<1> QED BY <1>4, <1>5, <1>6, <1>7, <1>8

\* The ZADD of enqueue: out of the hand, into the queue.
LEMMA AddCounts ==
    ASSUME TypeInv, CountInv, NEW c \in Callers, EnqueueAdd(c) PROVE CountInv'
<1>1. /\ at[c] = "add" /\ InHand(c)
      /\ at' = [at EXCEPT ![c] = "note"]
      /\ queue' = queue \cup {job[c]}
      /\ UNCHANGED <<job, dead, claimed>>
  BY DEF EnqueueAdd, Goto, InHand
<1> USE DEF CountInv, TypeInv, QueueTypeOK
<1>2. job[c] \in Entry /\ job[c].task \in Tasks BY <1>1, EntryIsJob DEF JobsOK, HasTask
<1>3. job[c] \notin queue BY <1>1 DEF OnePlace
<1>4. added' = [added EXCEPT ![job[c].task] = @ + 1] BY <1>3 DEF EnqueueAdd
<1>5. OnePlace' BY <1>1, <1>2 DEF OnePlace, InHand
<1>6. MemberCount'
  <2>1. /\ job[c].retries <= MaxRetries /\ job[c].retries \in Nat
        /\ claimed[job[c].task] = job[c].retries
        /\ added[job[c].task] = job[c].retries
    BY <1>1, <1>2 DEF HandCount, Entry
  <2>2. \A e \in queue : e.task # job[c].task /\ e.task \in Tasks
    BY <1>1 DEF OnePlace, Entry
  <2> QED BY <1>1, <1>2, <1>4, <2>1, <2>2 DEF MemberCount
<1>7. HandCount' BY <1>1, <1>2, <1>4 DEF HandCount, InHand, OnePlace
<1>8. DeadCount' BY <1>1, <1>2, <1>4 DEF DeadCount, OnePlace
<1>9. ClaimedOnce' /\ RetryBudget' BY <1>1, <1>2, <1>4 DEF ClaimedOnce, RetryBudget
<1> QED BY <1>5, <1>6, <1>7, <1>8, <1>9

\* The ZREM of dequeue: out of the queue, into one hand.
LEMMA RemoveCounts ==
    ASSUME TypeInv, CountInv, NEW c \in Callers, DequeueRemove(c) PROVE CountInv'
<1> USE DEF CountInv, TypeInv, QueueTypeOK
<1>1. /\ at[c] = "peeked" /\ ~InHand(c)
      /\ queue' = queue \ {job[c]}
      /\ UNCHANGED <<dead, added>>
  BY DEF DequeueRemove, InHand
<1>2. job[c] \in Entry /\ job[c].task \in Tasks BY <1>1, EntryIsJob DEF JobsOK, HasTask
<1>3. CASE job[c] \notin queue
  <2>1. /\ at' = [at EXCEPT ![c] = "idle"] /\ claimed' = claimed /\ queue' = queue
        /\ job' = [job EXCEPT ![c] = NoJob]
    BY <1>1, <1>3 DEF DequeueRemove, Leave, Goto, Hold
  <2>2. HandsShrink BY <2>1 DEF HandsShrink, InHand
  <2> QED BY <1>1, <2>1, <2>2, HandsShrinkKeep
<1>4. CASE job[c] \in queue
  <2>1. /\ at' = [at EXCEPT ![c] = "claimed"] /\ job' = job
        /\ claimed' = [claimed EXCEPT ![job[c].task] = @ + 1]
    BY <1>4 DEF DequeueRemove, Goto
  <2>2. /\ job[c].retries <= MaxRetries /\ job[c].retries \in Nat
        /\ claimed[job[c].task] = job[c].retries
        /\ added[job[c].task] = job[c].retries + 1
        /\ job[c].task \notin dead
    BY <1>2, <1>4 DEF MemberCount, Entry, OnePlace
  <2>3. \A e \in queue : e.task = job[c].task => e = job[c] BY <1>4 DEF OnePlace
  <2>4. \A d \in Callers : InHand(d) => job[d].task # job[c].task BY <1>4 DEF OnePlace
  <2>5. \A d \in Callers : InHand(d)' => d = c \/ InHand(d) BY <2>1 DEF InHand
  <2>6. OnePlace' BY <1>1, <2>1, <2>2, <2>3, <2>4, <2>5 DEF OnePlace
  <2>7. MemberCount' BY <1>1, <1>2, <2>1, <2>3 DEF MemberCount, Entry
  <2>8. HandCount'
    BY <1>1, <1>2, <2>1, <2>2, <2>4, <2>5 DEF HandCount
  <2>9. DeadCount' BY <1>1, <1>2, <2>1, <2>2 DEF DeadCount
  <2>10. ClaimedOnce' /\ RetryBudget'
    BY <1>1, <1>2, <2>1, <2>2, QueueAssumption DEF ClaimedOnce, RetryBudget, QueueAssumption
  <2> QED BY <2>6, <2>7, <2>8, <2>9, <2>10
<1> QED BY <1>3, <1>4

\* requeue below the limit: the task stays in the same hand, one retry older.
LEMMA RequeueCounts ==
    ASSUME TypeInv, CountInv, NEW c \in Callers, Requeue(c) PROVE CountInv'
<1> USE DEF CountInv, TypeInv, QueueTypeOK
<1>1. /\ at[c] \in {"working", "failed"} /\ InHand(c)
      /\ job[c].retries < MaxRetries
      /\ at' = [at EXCEPT ![c] = "add"]
      /\ job' = [job EXCEPT ![c] = Requeued(job[c])]
      /\ UNCHANGED <<queue, dead, added, claimed>>
  BY DEF Requeue, MayRetry, InHand, Goto, Hold, queueVars
<1>2. job[c] \in Entry /\ job[c].task \in Tasks BY <1>1, EntryIsJob DEF JobsOK, HasTask
<1>3. Requeued(job[c]).task = job[c].task /\ Requeued(job[c]).retries = job[c].retries + 1
  BY <1>2, RequeuedEntry
<1>4. \A d \in Callers : job'[d].task = job[d].task BY <1>1, <1>3
<1>5. \A d \in Callers : InHand(d)' => InHand(d) BY <1>1 DEF InHand
<1>6. OnePlace' BY <1>1, <1>4, <1>5 DEF OnePlace
<1>7. MemberCount' BY <1>1 DEF MemberCount
<1>8. HandCount'
  <2>1. /\ job[c].retries \in Nat
        /\ claimed[job[c].task] = job[c].retries + 1
        /\ added[job[c].task] = claimed[job[c].task]
    BY <1>1, <1>2 DEF HandCount, Entry
  <2> QED BY <1>1, <1>3, <1>4, <1>5, <2>1, QueueAssumption DEF HandCount, QueueAssumption
<1>9. DeadCount' BY <1>1 DEF DeadCount
<1>10. ClaimedOnce' /\ RetryBudget' BY <1>1 DEF ClaimedOnce, RetryBudget
<1> QED BY <1>6, <1>7, <1>8, <1>9, <1>10

\* requeue at the limit: out of the hand, into the dead-letter list.
LEMMA DeadLetterCounts ==
    ASSUME TypeInv, CountInv, NEW c \in Callers, RequeueToDeadLetter(c) PROVE CountInv'
<1> USE DEF CountInv, TypeInv, QueueTypeOK
<1>1. /\ at[c] \in {"working", "failed"} /\ InHand(c)
      /\ job[c].retries >= MaxRetries
      /\ at' = [at EXCEPT ![c] = "idle"]
      /\ job' = [job EXCEPT ![c] = NoJob]
      /\ dead' = dead \cup {job[c].task}
      /\ UNCHANGED <<queue, added, claimed>>
  BY DEF RequeueToDeadLetter, MayRetry, InHand, Leave, Goto, Hold
<1>2. job[c] \in Entry /\ job[c].task \in Tasks BY <1>1, EntryIsJob DEF JobsOK, HasTask
<1>3. \A d \in Callers : InHand(d)' => InHand(d) /\ d # c /\ job'[d] = job[d]
  BY <1>1 DEF InHand
<1>4. OnePlace' BY <1>1, <1>3 DEF OnePlace
<1>5. MemberCount' BY <1>1 DEF MemberCount
<1>6. HandCount' BY <1>1, <1>3 DEF HandCount
<1>7. claimed[job[c].task] = MaxRetries + 1 /\ added[job[c].task] = MaxRetries + 1
  BY <1>1, <1>2, QueueAssumption DEF HandCount, Entry, QueueAssumption
<1>8. DeadCount' BY <1>1, <1>7 DEF DeadCount
<1>9. ClaimedOnce' /\ RetryBudget' BY <1>1, <1>7 DEF ClaimedOnce, RetryBudget
<1> QED BY <1>4, <1>5, <1>6, <1>8, <1>9

\* The other steps of a caller.
Quiet(c) ==
    \/ EnqueueNote(c) \/ DequeuePeek(c) \/ DequeueRegister(c)
    \/ CompleteRemove(c) \/ CompleteStatus(c) \/ GiveUp(c)
    \/ RecoverStart(c) \/ RecoverRemove(c) \/ RecoverLookup(c) \/ RecoverEnd(c) \/ Abandon(c)

LEMMA QuietKeeps ==
    ASSUME TypeInv, NEW c \in Callers, Quiet(c)
    PROVE  HandsShrink /\ UNCHANGED <<queue, dead, added, claimed>>
<1> USE DEF TypeInv, QueueTypeOK, HandsShrink, InHand, Goto, Hold, Leave, queueVars, historyVars
<1>1. ASSUME EnqueueNote(c) PROVE HandsShrink /\ UNCHANGED <<queue, dead, added, claimed>>
  BY <1>1 DEF EnqueueNote
<1>2. ASSUME DequeuePeek(c) PROVE HandsShrink /\ UNCHANGED <<queue, dead, added, claimed>>
  BY <1>2 DEF DequeuePeek
<1>3. ASSUME DequeueRegister(c) PROVE HandsShrink /\ UNCHANGED <<queue, dead, added, claimed>>
  BY <1>3 DEF DequeueRegister
<1>4. ASSUME CompleteRemove(c) PROVE HandsShrink /\ UNCHANGED <<queue, dead, added, claimed>>
  BY <1>4 DEF CompleteRemove
<1>5. ASSUME CompleteStatus(c) PROVE HandsShrink /\ UNCHANGED <<queue, dead, added, claimed>>
  BY <1>5 DEF CompleteStatus
<1>6. ASSUME GiveUp(c) PROVE HandsShrink /\ UNCHANGED <<queue, dead, added, claimed>>
  BY <1>6 DEF GiveUp
<1>7. ASSUME RecoverStart(c) PROVE HandsShrink /\ UNCHANGED <<queue, dead, added, claimed>>
  BY <1>7 DEF RecoverStart
<1>8. ASSUME RecoverRemove(c) PROVE HandsShrink /\ UNCHANGED <<queue, dead, added, claimed>>
  BY <1>8 DEF RecoverRemove
<1>9. ASSUME RecoverLookup(c) PROVE HandsShrink /\ UNCHANGED <<queue, dead, added, claimed>>
  BY <1>9 DEF RecoverLookup
<1>10. ASSUME RecoverEnd(c) PROVE HandsShrink /\ UNCHANGED <<queue, dead, added, claimed>>
  BY <1>10 DEF RecoverEnd
<1>11. ASSUME Abandon(c) PROVE HandsShrink /\ UNCHANGED <<queue, dead, added, claimed>>
  BY <1>11 DEF Abandon
<1> QED BY <1>1, <1>2, <1>3, <1>4, <1>5, <1>6, <1>7, <1>8, <1>9, <1>10, <1>11 DEF Quiet

\* Every step, sorted by what it does to the counts.
LEMMA StepCases ==
    ASSUME [QueueNext]_taskQueueVars
    PROVE  \/ \E c \in Callers : \/ Submit(c) \/ EnqueueAdd(c) \/ DequeueRemove(c)
                                 \/ Requeue(c) \/ RequeueToDeadLetter(c) \/ Quiet(c)
           \/ Tick
           \/ UNCHANGED taskQueueVars
BY DEF QueueNext, Enqueue, Dequeue, CompleteCall, RequeueCall, Recover, Quiet

LEMMA CountStep == ASSUME TypeInv, CountInv, [QueueNext]_taskQueueVars PROVE CountInv'
<1>1. ASSUME NEW c \in Callers, Submit(c) PROVE CountInv' BY <1>1, SubmitCounts
<1>2. ASSUME NEW c \in Callers, EnqueueAdd(c) PROVE CountInv' BY <1>2, AddCounts
<1>3. ASSUME NEW c \in Callers, DequeueRemove(c) PROVE CountInv' BY <1>3, RemoveCounts
<1>4. ASSUME NEW c \in Callers, Requeue(c) PROVE CountInv' BY <1>4, RequeueCounts
<1>5. ASSUME NEW c \in Callers, RequeueToDeadLetter(c) PROVE CountInv' BY <1>5, DeadLetterCounts
<1>6. ASSUME NEW c \in Callers, Quiet(c) PROVE CountInv' BY <1>6, QuietKeeps, HandsShrinkKeep
<1>7. ASSUME Tick \/ UNCHANGED taskQueueVars PROVE CountInv'
  <2>1. HandsShrink /\ UNCHANGED <<queue, dead, added, claimed>>
    BY <1>7 DEF Tick, taskQueueVars, queueVars, callVars, historyVars, HandsShrink, InHand
  <2> QED BY <2>1, HandsShrinkKeep
<1> QED BY <1>1, <1>2, <1>3, <1>4, <1>5, <1>6, <1>7, StepCases

LEMMA CountAlways == QueueSpec => [](TypeInv /\ CountInv)
<1>1. QueueInit => TypeInv /\ CountInv BY TypeInit, CountInit
<1>2. TypeInv /\ CountInv /\ [QueueNext]_taskQueueVars => (TypeInv /\ CountInv)' BY TypeStep, CountStep
<1> QED BY <1>1, <1>2, PTL DEF QueueSpec

\* A task is handed out at most once for every time it was put in the queue.
THEOREM ClaimedOnceCorrect == QueueSpec => []ClaimedOnce
<1>1. CountInv => ClaimedOnce BY DEF CountInv
<1> QED BY <1>1, CountAlways, PTL

\* No task is tried more than max_retries + 1 times.
THEOREM RetryBudgetCorrect == QueueSpec => []RetryBudget
<1>1. CountInv => RetryBudget BY DEF CountInv
<1> QED BY <1>1, CountAlways, PTL

\* A task is never in two places.
THEOREM OnePlaceCorrect == QueueSpec => []OnePlace
<1>1. CountInv => OnePlace BY DEF CountInv
<1> QED BY <1>1, CountAlways, PTL

---------------------------------------------------------------------------
(* Who still knows a task                                                  *)

LEMMA KnownInit == ASSUME QueueInit PROVE KnownInv
BY DEF QueueInit, KnownInv, Kept, WorkBacked, EndingFinished, Ending

LEMMA KnownStep ==
    ASSUME TypeInv, OnePlace, KnownInv, [QueueNext]_taskQueueVars PROVE KnownInv'
<1> USE DEF TypeInv, QueueTypeOK, JobsOK, HasTask, Kept, WorkBacked, EndingFinished, Ending, Gone, LookedUp,
        Queued, Held, InHand, KnownInv, Goto, Hold, Leave, queueVars, historyVars, None
<1>1. ASSUME NEW c \in Callers, Submit(c) PROVE KnownInv'
  BY <1>1 DEF Submit, MayRetry, OnePlace, OnlyInHand
<1>2. ASSUME NEW c \in Callers, EnqueueAdd(c) PROVE KnownInv'
  BY <1>2 DEF EnqueueAdd, MayRetry, OnePlace, OnlyInHand
<1>3. ASSUME NEW c \in Callers, EnqueueNote(c) PROVE KnownInv'
  BY <1>3 DEF EnqueueNote, MayRetry, OnePlace, OnlyInHand
<1>4. ASSUME NEW c \in Callers, DequeuePeek(c) PROVE KnownInv'
  BY <1>4 DEF DequeuePeek, MayRetry, OnePlace, OnlyInHand
<1>5. ASSUME NEW c \in Callers, DequeueRemove(c) PROVE KnownInv'
  BY <1>5 DEF DequeueRemove, MayRetry, OnePlace, OnlyInHand
<1>6. ASSUME NEW c \in Callers, DequeueRegister(c) PROVE KnownInv'
  <2>1. job[c].task \in Tasks BY <1>6, EntryIsJob DEF DequeueRegister
  <2>2. processing' = [processing EXCEPT ![job[c].task] = now + Timeout] /\ now + Timeout # -1
    BY <1>6, QueueAssumption DEF DequeueRegister, QueueAssumption
  <2>3. /\ at[c] = "claimed" /\ at' = [at EXCEPT ![c] = "working"]
        /\ UNCHANGED <<queue, job, added, finished, mislaid, dropped>>
    BY <1>6 DEF DequeueRegister
  <2>4. Kept' BY <2>1, <2>2, <2>3
  <2>5. WorkBacked' BY <2>1, <2>2, <2>3
  <2>6. EndingFinished' BY <2>3
  <2> QED BY <2>4, <2>5, <2>6
<1>7. ASSUME NEW c \in Callers, CompleteRemove(c) PROVE KnownInv'
  BY <1>7 DEF CompleteRemove, MayRetry, OnePlace, OnlyInHand
<1>8. ASSUME NEW c \in Callers, CompleteStatus(c) PROVE KnownInv'
  BY <1>8 DEF CompleteStatus, MayRetry, OnePlace, OnlyInHand
<1>9. ASSUME NEW c \in Callers, GiveUp(c) PROVE KnownInv'
  BY <1>9 DEF GiveUp, MayRetry, OnePlace, OnlyInHand
<1>10. ASSUME NEW c \in Callers, Requeue(c) PROVE KnownInv'
  <2>1. job[c] \in Entry /\ job[c].task \in Tasks BY <1>10, EntryIsJob DEF Requeue, MayRetry
  <2>2. /\ at[c] \in {"working", "failed"} /\ at' = [at EXCEPT ![c] = "add"]
        /\ job' = [job EXCEPT ![c] = Requeued(job[c])]
        /\ finished' = finished \ {job[c].task}
        /\ UNCHANGED <<queue, processing, added, mislaid, dropped>>
    BY <1>10 DEF Requeue, MayRetry
  <2>3. \A d \in Callers : job'[d].task = job[d].task BY <2>1, <2>2, RequeuedEntry
  <2>4. \A d \in Callers : InHand(d) /\ d # c => job[d].task # job[c].task
    BY <2>2 DEF OnePlace
  <2>5. Kept' BY <2>1, <2>2, <2>3
  <2>6. WorkBacked' BY <2>1, <2>2, <2>3, <2>4
  <2>7. EndingFinished' BY <2>1, <2>2, <2>3, <2>4
  <2> QED BY <2>5, <2>6, <2>7
<1>11. ASSUME NEW c \in Callers, RequeueToDeadLetter(c) PROVE KnownInv'
  BY <1>11 DEF RequeueToDeadLetter, MayRetry, OnePlace, OnlyInHand
<1>12. ASSUME NEW c \in Callers, RecoverStart(c) PROVE KnownInv'
  BY <1>12 DEF RecoverStart, MayRetry, OnePlace, OnlyInHand
<1>13. ASSUME NEW c \in Callers, RecoverRemove(c) PROVE KnownInv'
  BY <1>13 DEF RecoverRemove, MayRetry, OnePlace, OnlyInHand
<1>14. ASSUME NEW c \in Callers, RecoverLookup(c) PROVE KnownInv'
  BY <1>14 DEF RecoverLookup, MayRetry, OnePlace, OnlyInHand
<1>15. ASSUME NEW c \in Callers, RecoverEnd(c) PROVE KnownInv'
  BY <1>15 DEF RecoverEnd, MayRetry, OnePlace, OnlyInHand
<1>16. ASSUME NEW c \in Callers, Abandon(c) PROVE KnownInv'
  BY <1>16 DEF Abandon, MayRetry, OnePlace, OnlyInHand
<1>17. ASSUME Tick \/ UNCHANGED taskQueueVars PROVE KnownInv'
  BY <1>17 DEF Tick, taskQueueVars, callVars
<1> QED
  BY <1>1, <1>2, <1>3, <1>4, <1>5, <1>6, <1>7, <1>8, <1>9, <1>10, <1>11, <1>12, <1>13, <1>14, <1>15, <1>16, <1>17
  DEF QueueNext, Enqueue, Dequeue, CompleteCall, RequeueCall, Recover
\* A task nobody finished is lost only between two keys or to a recovery.
THEOREM LostInTransitCorrect == QueueSpec => []LostInTransit
<1>1. QueueInit => TypeInv /\ CountInv /\ KnownInv BY TypeInit, CountInit, KnownInit
<1>2. TypeInv /\ CountInv /\ KnownInv /\ [QueueNext]_taskQueueVars => (TypeInv /\ CountInv /\ KnownInv)'
  BY TypeStep, CountStep, KnownStep DEF CountInv
<1>3. KnownInv => LostInTransit
  BY DEF KnownInv, LostInTransit, Lost, Known, Kept, Gone, LookedUp, Queued, Held
<1> QED BY <1>1, <1>2, <1>3, PTL DEF QueueSpec
=============================================================================
