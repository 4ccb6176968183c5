---------------------------- MODULE LaneSchedule ----------------------------
(***************************************************************************)
(* What the lanes of a session promise, without calls, locks or Redis: an  *)
(* agent works on at most one task of a lane at a time, and no task is     *)
(* ever given to the agents twice.  Any number of lanes may lose their     *)
(* task in one step, because a crash of the gateway forgets several        *)
(* completions at once.  A lane may be forgotten: then it promises         *)
(* nothing any more.                                                       *)
(***************************************************************************)
CONSTANTS Tasks, Lanes

VARIABLES
    running,    \* the tasks of each lane that agents work on
    started,    \* every task ever given to an agent
    forgotten   \* the lanes whose occupant Redis forgot before a restart

scheduleVars == <<running, started, forgotten>>

Init ==
    /\ running = [l \in Lanes |-> {}]
    /\ started = {}
    /\ forgotten = {}

Start(t, l) ==
    /\ running[l] = {} \/ l \in forgotten
    /\ t \notin started
    /\ running' = [running EXCEPT ![l] = @ \cup {t}]
    /\ started' = started \cup {t}
    /\ UNCHANGED forgotten

Finish ==
    /\ \E done \in SUBSET Tasks : running' = [l \in Lanes |-> running[l] \ done]
    /\ UNCHANGED <<started, forgotten>>

Forget ==
    /\ \E lost \in SUBSET Lanes : forgotten' = forgotten \cup lost
    /\ UNCHANGED <<running, started>>

Next == Finish \/ Forget \/ \E t \in Tasks, l \in Lanes : Start(t, l)

Spec == Init /\ [][Next]_scheduleVars
=============================================================================
