---------------------------- MODULE MCAgentMaster ----------------------------
(* Small instances of AgentMaster for TLC: the constants are in the cfgs.  *)
EXTENDS AgentMaster
=============================================================================
