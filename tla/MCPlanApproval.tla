--------------------------- MODULE MCPlanApproval ---------------------------
(* Instances of PlanApproval for TLC. *)
EXTENDS PlanApproval, TLC

=============================================================================
