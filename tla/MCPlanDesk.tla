------------------------------- MODULE MCPlanDesk -------------------------------
(* One source whose data can be planned at once and one whose data the buyer    *)
(* has to complete first.                                                       *)
EXTENDS PlanDesk

MCPreparedAs == [s \in {"incomplete"} |-> "completed"]

================================================================================
