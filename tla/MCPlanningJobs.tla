----------------------------- MODULE MCPlanningJobs -----------------------------
(* Request threads, one client key, one artifact id per provider with two     *)
(* contents it may stand for, one reviewable sale.                            *)
EXTENDS PlanningJobs

CONSTANTS h1, h2, k1

================================================================================
