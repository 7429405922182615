------------------------- MODULE MCNegationPromotion -------------------------
(* A goal and a helper it was split into; either can be refuted.           *)
EXTENDS NegationPromotion

CONSTANTS goal, helper

ListOrder == <<goal, helper>>
TwoFiles == [n \in {goal, helper} |-> n]
SplitParents == [n \in {goal, helper} |-> IF n = helper THEN goal ELSE None]
==============================================================================
