------------------------------ MODULE MCViewer ------------------------------
(* The planner connection on a small instance: three plans, of which one is *)
(* too large to send and one is refused by the bridge.                      *)
EXTENDS Viewer, MCViews, MCData

CONSTANTS plan_a, plan_b, plan_c

PlanIds == {plan_a, plan_b, plan_c}
LargePlans == {plan_c}
RefusedPlans == {plan_b}
=============================================================================
