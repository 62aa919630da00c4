---------------------------- MODULE MCAgentRuns ----------------------------
(* Instances of AgentRuns for TLC: the constants are in the .cfg files.    *)
EXTENDS AgentRuns
=============================================================================
