------------------------ MODULE TaskQueueInvariants ------------------------
(***************************************************************************)
(* The inductive invariants behind the theorems of TaskQueueProofs.        *)
(***************************************************************************)
EXTENDS TaskQueue

\* Stages in which a caller has a task of the queue's, not just an id or nothing.
HasTask(c) == at[c] \in {"peeked", "note"} \/ InHand(c)

JobsOK ==
    \A c \in Callers :
        /\ HasTask(c) => job[c] \in Entry
        /\ at[c] = "lookup" => job[c].task \in Tasks

\* What has been counted for a task, told from where the task is.
MemberCount == \A e \in queue : /\ e.retries <= MaxRetries
                                /\ claimed[e.task] = e.retries
                                /\ added[e.task] = e.retries + 1
HandCount ==
    \A c \in Callers : InHand(c) =>
        LET t == job[c].task  n == job[c].retries
        IN  /\ n <= MaxRetries
            /\ claimed[t] = (IF at[c] = "add" THEN n ELSE n + 1)
            /\ added[t] = claimed[t]
DeadCount == \A t \in dead : claimed[t] = MaxRetries + 1 /\ added[t] = MaxRetries + 1

TypeInv == QueueTypeOK /\ JobsOK
CountInv == OnePlace /\ MemberCount /\ HandCount /\ DeadCount /\ ClaimedOnce /\ RetryBudget

---------------------------------------------------------------------------
(* Who still knows a task                                                  *)

Gone(t) == t \in finished \cup mislaid \cup dropped
LookedUp(t) == \E c \in Callers : at[c] = "lookup" /\ job[c].task = t
Queued(t) == \E e \in queue : e.task = t
Held(t) == \E c \in Callers : InHand(c) /\ job[c].task = t

\* A task that was added and is not gone is somewhere that no caller's next
\* step, or its end, can make it vanish unnoticed.
Kept == \A t \in Tasks : added[t] > 0 => \/ Gone(t) \/ LookedUp(t)
                                         \/ Queued(t) \/ Held(t) \/ processing[t] # None

\* A caller that works on a task is backed by the processing set, unless a
\* recovery took the entry.
WorkBacked ==
    \A c \in Callers : at[c] = "working" =>
        processing[job[c].task] # None \/ Gone(job[c].task) \/ LookedUp(job[c].task)

Ending == {"completing", "failing", "failed"}
EndingFinished == \A c \in Callers : at[c] \in Ending => job[c].task \in finished

KnownInv == Kept /\ WorkBacked /\ EndingFinished
=============================================================================
