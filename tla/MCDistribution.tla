--------------------------- MODULE MCDistribution ---------------------------
(***************************************************************************)
(* Bounds for the task queue and the agent pool, and one run for both.     *)
(* They share a file and no state: focus, chosen at the start, says which  *)
(* of them a behaviour is of, and the other rests.                         *)
(***************************************************************************)
EXTENDS TaskQueueInvariants, AgentPool, TLC

VARIABLE focus

\* Every agent of these instances is shared by all tenants.
ServesAll == [c \in PoolCallers |-> Agents]

Symmetry ==
    Permutations(Tasks) \cup Permutations(Callers) \cup Permutations(Agents) \cup Permutations(PoolCallers)

Init == QueueInit /\ PoolInit /\ focus \in {"queue", "pool"}

Next ==
    \/ focus = "queue" /\ QueueNext /\ UNCHANGED <<poolVars, focus>>
    \/ focus = "pool" /\ PoolNext /\ UNCHANGED <<taskQueueVars, focus>>

Spec == Init /\ [][Next]_<<taskQueueVars, poolVars, focus>>
=============================================================================
