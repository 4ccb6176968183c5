-------------------------- MODULE MCRequestRouter --------------------------
(* RequestRouter on small instances.                                       *)
EXTENDS RouterInvariants, TLC

Symmetry == Permutations(Tasks)

\* Bound: all requests are sent only where nothing fails and priorities are equal.
BoundedNext ==
    /\ Next
    /\ \/ \E t \in Tasks : pc'[Route(t)] = "idle"
       \/ faults' = 0 /\ \A t, u \in Tasks : prio[t] = prio[u]

BoundedSpec == Init /\ [][BoundedNext]_vars
=============================================================================
