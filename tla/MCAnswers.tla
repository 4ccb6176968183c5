----------------------------- MODULE MCAnswers -----------------------------
(***************************************************************************)
(* Bounds for whoever is owed an answer: requests for a lane, chats with   *)
(* the provider, routings of a message, posts of the hub.  They share no   *)
(* state: focus, chosen at the start, says which of them a behaviour is    *)
(* of, and the others rest.                                                *)
(***************************************************************************)
EXTENDS MCRequestRouter, MCPlanning

AnswersInit ==
    Init /\ LLMInit /\ CollabInit /\ MailInit /\ focus \in {"lanes", "chats", "plans", "mail"}

AnswersNext ==
    \/ focus = "lanes" /\ Next /\ UNCHANGED <<llmVars, collabVars, mailVars, focus>>
    \/ PlanningNext /\ UNCHANGED vars

\* A component at rest has no step that its fairness asks for.
AnswersSpec ==
    /\ AnswersInit /\ [][AnswersNext]_<<vars, llmVars, collabVars, mailVars, focus>>
    /\ WF_vars(Progress) /\ LLMFairness /\ CollabFairness
=============================================================================
