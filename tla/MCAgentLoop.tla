---------------------------- MODULE MCAgentLoop ----------------------------
(* Instances of AgentLoop for model checking.                              *)
EXTENDS AgentLoop

CONSTANTS m1, m2
=============================================================================
