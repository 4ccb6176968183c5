---------------------------- MODULE MCExecutions ----------------------------
(* AgentRuntime with calls through ExecutionService only.                  *)
EXTENDS AgentRuntime

ExecutionsOnly == [c \in Calls |-> {"execution"}]
=============================================================================
