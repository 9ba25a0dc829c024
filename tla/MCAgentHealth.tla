--------------------------- MODULE MCAgentHealth ---------------------------
(* Instances of AgentHealth for TLC. *)
EXTENDS AgentHealth, TLC

=============================================================================
