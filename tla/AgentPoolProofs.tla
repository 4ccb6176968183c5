-------------------------- MODULE AgentPoolProofs --------------------------
(***************************************************************************)
(* Theorems about AgentPool, for any number of agents, callers and faults. *)
(***************************************************************************)
EXTENDS AgentPool, TLAPS

\* What the operation of the lock's holder is about.
Writing == {"registering", "registered", "assigning", "releasing", "draining", "deleting",
            "stop-deleting", "holding", "beating"}
TargetOK == \A c \in PoolCallers : poolAt[c] \in Writing => target[c] \in Agents

\* Between a change in memory and its write, nobody else changes that agent.
UnderLock ==
    \A c \in PoolCallers :
        /\ poolAt[c] = "registering" => pool[target[c]] = Instance("initializing", Nobody)
        /\ poolAt[c] = "assigning" => pool[target[c]] = Instance("busy", c)
        /\ poolAt[c] = "stop-deleting" => pool[target[c]] = Absent
        /\ poolAt[c] \in {"registered", "assigning", "releasing", "draining", "deleting"}
             => sent[c] = pool[target[c]]

\* The pool knows what an undisturbed holder holds, and does not offer it.
HolderInv ==
    \A c \in PoolCallers : poolAt[c] = "holding" /\ target[c] \notin disturbed =>
        /\ pool[target[c]].current = c
        /\ pool[target[c]].state \in {"busy", "shutting_down"}

RedisInv ==
    \A a \in Agents \ stale :
        (\A c \in PoolCallers : poolAt[c] \in LockedStages => target[c] # a) => redis[a] = pool[a]

PoolInv == PoolTypeOK /\ TargetOK /\ UnderLock /\ HolderInv /\ BusyIsHeld /\ RedisInv

LEMMA FieldsOK ==
    /\ Absent \in Fields
    /\ Instance("initializing", Nobody) \in Fields
    /\ Instance("idle", Nobody) \in Fields
    /\ \A c \in PoolCallers : Instance("busy", c) \in Fields
    /\ \A i \in Fields : Instance("shutting_down", i.current) \in Fields
BY DEF Absent, Instance, Fields, States

\* The fields an operation writes, told apart.
LEMMA InstanceFields ==
    /\ Absent.state = "absent" /\ Absent.current = Nobody
    /\ \A s, d : Instance(s, d).state = s /\ Instance(s, d).current = d
    /\ \A s, d : s # "absent" => Instance(s, d) # Absent
BY DEF Absent, Instance

LEMMA PoolInvInit == ASSUME PoolInit PROVE PoolInv
BY FieldsOK, InstanceFields, PoolAssumption
DEF PoolInit, PoolInv, PoolTypeOK, TargetOK, UnderLock, HolderInv, BusyIsHeld, RedisInv, PoolStages, LockedStages,
    Writing, Nobody, NoAgent, PoolAssumption

LEMMA TypeStep == ASSUME PoolInv, [PoolNext]_poolVars PROVE PoolTypeOK' /\ TargetOK'
<1> USE FieldsOK, PoolAssumption DEF PoolInv, PoolTypeOK, TargetOK, PoolStages, LockedStages, Writing,
        PoolGoto, Aim, SetAgent, Send, Disturb, Change, Unlock, Registered, calls, history, PoolAssumption,
        Nobody, NoAgent
<1>1. ASSUME NEW c \in PoolCallers, NEW a \in Agents, Register(c, a) PROVE PoolTypeOK' /\ TargetOK'
  BY <1>1 DEF Register
<1>2. ASSUME NEW c \in PoolCallers, NEW a \in Agents, UnregisterBusy(c, a) PROVE PoolTypeOK' /\ TargetOK'
  BY <1>2 DEF UnregisterBusy
<1>3. ASSUME NEW c \in PoolCallers, NEW a \in Agents, Unregister(c, a) PROVE PoolTypeOK' /\ TargetOK'
  BY <1>3 DEF Unregister
<1>4. ASSUME NEW c \in PoolCallers, NEW a \in Agents, AssignTask(c, a) PROVE PoolTypeOK' /\ TargetOK'
  BY <1>4 DEF AssignTask
<1>5. ASSUME NEW c \in PoolCallers, NEW a \in Agents, HeartbeatStart(c, a) PROVE PoolTypeOK' /\ TargetOK'
  BY <1>5 DEF HeartbeatStart
<1>6. ASSUME NEW c \in PoolCallers, ReleaseAgent(c) PROVE PoolTypeOK' /\ TargetOK'
  BY <1>6 DEF ReleaseAgent
<1>7. ASSUME NEW c \in PoolCallers, ReleaseUnknown(c) PROVE PoolTypeOK' /\ TargetOK'
  BY <1>7 DEF ReleaseUnknown
<1>8. ASSUME NEW c \in PoolCallers, PersistInitializing(c) PROVE PoolTypeOK' /\ TargetOK'
  BY <1>8 DEF PersistInitializing
<1>9. ASSUME NEW c \in PoolCallers, Persist(c) PROVE PoolTypeOK' /\ TargetOK'
  BY <1>9 DEF Persist
<1>10. ASSUME NEW c \in PoolCallers, HeartbeatLands(c) PROVE PoolTypeOK' /\ TargetOK'
  BY <1>10 DEF HeartbeatLands
<1>11. ASSUME NEW c \in PoolCallers, Stop(c) PROVE PoolTypeOK' /\ TargetOK'
  BY <1>11 DEF Stop
<1>12. ASSUME NEW c \in PoolCallers, StopUnregisters(c) PROVE PoolTypeOK' /\ TargetOK'
  <2>1. PICK a \in stopping[c] :
          /\ stopping' = [stopping EXCEPT ![c] = @ \ {a}]
          /\ IF a \in Registered
             THEN /\ lock' = c
                  /\ Aim(c, a) /\ SetAgent(a, Absent) /\ Disturb(a)
                  /\ PoolGoto(c, "stop-deleting")
             ELSE UNCHANGED <<lock, target, pool, disturbed, poolAt>>
    BY <1>12 DEF StopUnregisters
  <2>2. a \in Agents BY <2>1
  <2>3. poolAt[c] = "stopping" /\ lock = Nobody /\ UNCHANGED <<redis, sent, orphaned, stale, failures>>
    BY <1>12 DEF StopUnregisters
  <2>4. CASE a \in Registered
    <3>1. /\ lock' = c
          /\ target' = [target EXCEPT ![c] = a]
          /\ pool' = [pool EXCEPT ![a] = Absent]
          /\ poolAt' = [poolAt EXCEPT ![c] = "stop-deleting"]
          /\ stopping' = [stopping EXCEPT ![c] = @ \ {a}]
      BY <2>1, <2>4
    <3>2. disturbed' \subseteq Agents BY <2>1, <2>2, <2>4
    <3> QED BY <2>2, <2>3, <3>1, <3>2
  <2>5. CASE a \notin Registered BY <2>1, <2>2, <2>3, <2>5
  <2> QED BY <2>4, <2>5
<1>13. ASSUME NEW c \in PoolCallers, StopDeletes(c) PROVE PoolTypeOK' /\ TargetOK'
  BY <1>13 DEF StopDeletes
<1>14. ASSUME NEW c \in PoolCallers, StopEnds(c) PROVE PoolTypeOK' /\ TargetOK'
  BY <1>14 DEF StopEnds
<1>15. ASSUME NEW c \in PoolCallers, CallFails(c) PROVE PoolTypeOK' /\ TargetOK'
  BY <1>15 DEF CallFails
<1>16. ASSUME UNCHANGED poolVars PROVE PoolTypeOK' /\ TargetOK'
  BY <1>16 DEF poolVars
<1> QED
  BY <1>1, <1>2, <1>3, <1>4, <1>5, <1>6, <1>7, <1>8, <1>9, <1>10, <1>11, <1>12, <1>13, <1>14, <1>15, <1>16
  DEF PoolNext, Operation, Continue

\* What the steps of PoolInv need of the other conjuncts.
LEMMA PoolStep == ASSUME PoolInv, [PoolNext]_poolVars PROVE PoolInv'
<1>0. PoolTypeOK' /\ TargetOK' BY TypeStep
<1> DEFINE Rest == UnderLock /\ HolderInv /\ BusyIsHeld /\ RedisInv
<1> USE InstanceFields, PoolAssumption DEF PoolInv, PoolTypeOK, TargetOK, UnderLock, HolderInv, BusyIsHeld, RedisInv,
        Fields, States, PoolStages, LockedStages, Writing, PoolGoto, Aim, SetAgent, Send, Disturb, Holders, Change,
        Unlock,
        Registered, calls, history, PoolAssumption, Nobody, NoAgent
<1>1. ASSUME NEW c \in PoolCallers, NEW a \in Agents, Register(c, a) PROVE Rest'
  <2>1. UnderLock' BY <1>1 DEF Register
  <2>2. HolderInv' BY <1>1 DEF Register
  <2>3. BusyIsHeld' BY <1>1 DEF Register
  <2>4. RedisInv' BY <1>1 DEF Register
  <2> QED BY <2>1, <2>2, <2>3, <2>4
<1>2. ASSUME NEW c \in PoolCallers, NEW a \in Agents, UnregisterBusy(c, a) PROVE Rest'
  <2>1. UnderLock' BY <1>2 DEF UnregisterBusy
  <2>2. HolderInv' BY <1>2 DEF UnregisterBusy
  <2>3. BusyIsHeld' BY <1>2 DEF UnregisterBusy
  <2>4. RedisInv' BY <1>2 DEF UnregisterBusy
  <2> QED BY <2>1, <2>2, <2>3, <2>4
<1>3. ASSUME NEW c \in PoolCallers, NEW a \in Agents, Unregister(c, a) PROVE Rest'
  <2>1. UnderLock' BY <1>3 DEF Unregister
  <2>2. HolderInv' BY <1>3 DEF Unregister
  <2>3. BusyIsHeld' BY <1>3 DEF Unregister
  <2>4. RedisInv' BY <1>3 DEF Unregister
  <2> QED BY <2>1, <2>2, <2>3, <2>4
<1>4. ASSUME NEW c \in PoolCallers, NEW a \in Agents, AssignTask(c, a) PROVE Rest'
  <2>1. UnderLock' BY <1>4 DEF AssignTask
  <2>2. HolderInv' BY <1>4 DEF AssignTask
  <2>3. BusyIsHeld' BY <1>4 DEF AssignTask
  <2>4. RedisInv' BY <1>4 DEF AssignTask
  <2> QED BY <2>1, <2>2, <2>3, <2>4
<1>5. ASSUME NEW c \in PoolCallers, NEW a \in Agents, HeartbeatStart(c, a) PROVE Rest'
  <2>1. UnderLock' BY <1>5 DEF HeartbeatStart
  <2>2. HolderInv' BY <1>5 DEF HeartbeatStart
  <2>3. BusyIsHeld' BY <1>5 DEF HeartbeatStart
  <2>4. RedisInv' BY <1>5 DEF HeartbeatStart
  <2> QED BY <2>1, <2>2, <2>3, <2>4
<1>6. ASSUME NEW c \in PoolCallers, ReleaseAgent(c) PROVE Rest'
  <2>1. UnderLock' BY <1>6 DEF ReleaseAgent
  <2>2. HolderInv' BY <1>6 DEF ReleaseAgent
  <2>3. BusyIsHeld' BY <1>6 DEF ReleaseAgent
  <2>4. RedisInv' BY <1>6 DEF ReleaseAgent
  <2> QED BY <2>1, <2>2, <2>3, <2>4
<1>7. ASSUME NEW c \in PoolCallers, ReleaseUnknown(c) PROVE Rest'
  <2>1. UnderLock' BY <1>7 DEF ReleaseUnknown
  <2>2. HolderInv' BY <1>7 DEF ReleaseUnknown
  <2>3. BusyIsHeld' BY <1>7 DEF ReleaseUnknown
  <2>4. RedisInv' BY <1>7 DEF ReleaseUnknown
  <2> QED BY <2>1, <2>2, <2>3, <2>4
<1>8. ASSUME NEW c \in PoolCallers, PersistInitializing(c) PROVE Rest'
  <2>1. UnderLock' BY <1>8 DEF PersistInitializing
  <2>2. HolderInv' BY <1>8 DEF PersistInitializing
  <2>3. BusyIsHeld' BY <1>8 DEF PersistInitializing
  <2>4. RedisInv' BY <1>8 DEF PersistInitializing
  <2> QED BY <2>1, <2>2, <2>3, <2>4
<1>9. ASSUME NEW c \in PoolCallers, Persist(c) PROVE Rest'
  <2>1. UnderLock' BY <1>9 DEF Persist
  <2>2. HolderInv' BY <1>9 DEF Persist
  <2>3. BusyIsHeld' BY <1>9 DEF Persist
  <2>4. RedisInv' BY <1>9 DEF Persist
  <2> QED BY <2>1, <2>2, <2>3, <2>4
<1>10. ASSUME NEW c \in PoolCallers, HeartbeatLands(c) PROVE Rest'
  <2>1. UnderLock' BY <1>10 DEF HeartbeatLands
  <2>2. HolderInv' BY <1>10 DEF HeartbeatLands
  <2>3. BusyIsHeld' BY <1>10 DEF HeartbeatLands
  <2>4. RedisInv' BY <1>10 DEF HeartbeatLands
  <2> QED BY <2>1, <2>2, <2>3, <2>4
<1>11. ASSUME NEW c \in PoolCallers, Stop(c) PROVE Rest'
  <2>1. UnderLock' BY <1>11 DEF Stop
  <2>2. HolderInv' BY <1>11 DEF Stop
  <2>3. BusyIsHeld' BY <1>11 DEF Stop
  <2>4. RedisInv' BY <1>11 DEF Stop
  <2> QED BY <2>1, <2>2, <2>3, <2>4
<1>12. ASSUME NEW c \in PoolCallers, StopUnregisters(c) PROVE Rest'
  <2>1. UnderLock' BY <1>12 DEF StopUnregisters
  <2>2. HolderInv' BY <1>12 DEF StopUnregisters
  <2>3. BusyIsHeld'
    <3>1. PICK a \in stopping[c] :
            \/ /\ target' = [target EXCEPT ![c] = a]
               /\ pool' = [pool EXCEPT ![a] = Absent]
               /\ poolAt' = [poolAt EXCEPT ![c] = "stop-deleting"]
            \/ UNCHANGED <<target, pool, poolAt>>
      BY <1>12 DEF StopUnregisters
    <3>2. poolAt[c] = "stopping" /\ orphaned' = orphaned BY <1>12 DEF StopUnregisters
    <3>3. a \in Agents BY <3>1
    <3>4. CASE UNCHANGED <<target, pool, poolAt>> BY <3>2, <3>4
    <3>5. CASE /\ target' = [target EXCEPT ![c] = a]
               /\ pool' = [pool EXCEPT ![a] = Absent]
               /\ poolAt' = [poolAt EXCEPT ![c] = "stop-deleting"]
      <4> SUFFICES ASSUME NEW b \in Agents, b \notin orphaned',
                          pool'[b].state \in {"busy", "shutting_down"}
                   PROVE  \E d \in PoolCallers : /\ d = pool'[b].current /\ target'[d] = b
                                                  /\ poolAt'[d] \in {"assigning", "holding"}
        OBVIOUS
      <4>1. b # a /\ pool'[b] = pool[b] BY <3>3, <3>5
      <4>2. PICK d \in PoolCallers : /\ d = pool[b].current /\ target[d] = b
                                     /\ poolAt[d] \in {"assigning", "holding"}
        BY <3>2, <4>1
      <4>3. d # c BY <3>2, <4>2
      <4> QED BY <3>5, <4>1, <4>2, <4>3
    <3> QED BY <3>1, <3>4, <3>5
  <2>4. RedisInv' BY <1>12 DEF StopUnregisters
  <2> QED BY <2>1, <2>2, <2>3, <2>4
<1>13. ASSUME NEW c \in PoolCallers, StopDeletes(c) PROVE Rest'
  <2>1. UnderLock' BY <1>13 DEF StopDeletes
  <2>2. HolderInv' BY <1>13 DEF StopDeletes
  <2>3. BusyIsHeld' BY <1>13 DEF StopDeletes
  <2>4. RedisInv' BY <1>13 DEF StopDeletes
  <2> QED BY <2>1, <2>2, <2>3, <2>4
<1>14. ASSUME NEW c \in PoolCallers, StopEnds(c) PROVE Rest'
  <2>1. UnderLock' BY <1>14 DEF StopEnds
  <2>2. HolderInv' BY <1>14 DEF StopEnds
  <2>3. BusyIsHeld' BY <1>14 DEF StopEnds
  <2>4. RedisInv' BY <1>14 DEF StopEnds
  <2> QED BY <2>1, <2>2, <2>3, <2>4
<1>15. ASSUME NEW c \in PoolCallers, CallFails(c) PROVE Rest'
  <2>1. UnderLock' BY <1>15 DEF CallFails
  <2>2. HolderInv' BY <1>15 DEF CallFails
  <2>3. BusyIsHeld' BY <1>15 DEF CallFails
  <2>4. RedisInv' BY <1>15 DEF CallFails
  <2> QED BY <2>1, <2>2, <2>3, <2>4
<1>16. ASSUME UNCHANGED poolVars PROVE Rest'
  BY <1>16 DEF poolVars
<1> QED
  BY <1>0, <1>1, <1>2, <1>3, <1>4, <1>5, <1>6, <1>7, <1>8, <1>9, <1>10, <1>11, <1>12, <1>13, <1>14, <1>15, <1>16
  DEF PoolNext, Operation, Continue

LEMMA PoolAlways == PoolSpec => []PoolInv
<1>1. PoolInit => PoolInv BY PoolInvInit
<1>2. PoolInv /\ [PoolNext]_poolVars => PoolInv' BY PoolStep
<1> QED BY <1>1, <1>2, PTL DEF PoolSpec

\* Types, and that exactly the caller in a locked stage holds the lock.
THEOREM TypeCorrect == PoolSpec => []PoolTypeOK
<1>1. PoolInv => PoolTypeOK BY DEF PoolInv
<1> QED BY <1>1, PoolAlways, PTL

\* An agent that is not replaced or removed works for one call at a time.
THEOREM HolderCorrect == PoolSpec => []HolderOwns
<1>1. PoolInv => HolderOwns BY DEF PoolInv, HolderInv, HolderOwns
<1> QED BY <1>1, PoolAlways, PTL

\* A busy agent is in the hands of the call it works for.
THEOREM BusyCorrect == PoolSpec => []BusyIsHeld
<1>1. PoolInv => BusyIsHeld BY DEF PoolInv
<1> QED BY <1>1, PoolAlways, PTL

\* Redis follows the pool, but for lost and overtaken writes.
THEOREM RedisCorrect == PoolSpec => []RedisFollows
<1>1. PoolInv => RedisFollows
  <2> SUFFICES ASSUME PoolInv, lock = Nobody, NEW a \in Agents \ stale PROVE redis[a] = pool[a]
    BY DEF RedisFollows
  <2>1. \A c \in PoolCallers : poolAt[c] \notin LockedStages
    BY PoolAssumption DEF PoolInv, PoolTypeOK, PoolAssumption, Nobody
  <2> QED BY <2>1 DEF PoolInv, RedisInv
<1> QED BY <1>1, PoolAlways, PTL
=============================================================================
