---------------------------- MODULE MCGoalPlanner ----------------------------
(* Instances of GoalPlanner for TLC.                                         *)
EXTENDS GoalPlanner

CONSTANTS c1, c2

MCOne == {c1}
MCTwo == {c1, c2}
=============================================================================
