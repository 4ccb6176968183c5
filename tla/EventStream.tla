---------------------------- MODULE EventStream ----------------------------
(***************************************************************************)
(* Abstract: what a client of /chat/completions may rely on.  The events   *)
(* of one response are chunks, then at most one of a finish and an error,  *)
(* then [DONE], after which nothing comes.  A response may break off       *)
(* anywhere, if the client goes away; how it is produced is not said.      *)
(***************************************************************************)
EXTENDS Sequences

CONSTANT Streams    \* responses

VARIABLE sent       \* the events of each response so far

LastIsIn(s, kinds) == s # <<>> /\ s[Len(s)] \in kinds
Send(x, event) == sent' = [sent EXCEPT ![x] = Append(@, event)]

Init == sent = [x \in Streams |-> <<>>]

Chunk(x) == ~LastIsIn(sent[x], {"finish", "error", "done"}) /\ Send(x, "chunk")
Finish(x) == ~LastIsIn(sent[x], {"finish", "error", "done"}) /\ Send(x, "finish")
Fail(x) == ~LastIsIn(sent[x], {"finish", "error", "done"}) /\ Send(x, "error")
Close(x) == ~LastIsIn(sent[x], {"done"}) /\ Send(x, "done")

Next == \E x \in Streams : Chunk(x) \/ Finish(x) \/ Fail(x) \/ Close(x)

Spec == Init /\ [][Next]_sent
=============================================================================
