---------------------------- MODULE MCPlanState ----------------------------
(* An instance of PlanState: a goal and a helper that was split from it. *)
EXTENDS PlanState

CONSTANTS goal, helper

ListOrder == <<goal, helper>>
TwoFiles == [n \in {goal, helper} |-> n]
SplitParents == [n \in {goal, helper} |-> IF n = helper THEN goal ELSE None]
ProofEdge == {<<goal, helper>>}
=============================================================================
