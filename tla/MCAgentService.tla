--------------------------- MODULE MCAgentService ---------------------------
(* Sub-agents for TLC, numbered in the order they are asked for. *)
EXTENDS AgentService

MCKinds == <<{"delegate", "workflow"}, {"delegate", "memorizer"}, {"delegate"}>>
=============================================================================
