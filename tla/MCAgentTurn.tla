---------------------------- MODULE MCAgentTurn ----------------------------
(***************************************************************************)
(* Instances of AgentTurn for TLC. The step limit is scaled down from 64   *)
(* to where a second round of tool calls reaches it, and the context size  *)
(* to where the second turn is compacted.                                  *)
(***************************************************************************)
EXTENDS AgentTurn

=============================================================================
