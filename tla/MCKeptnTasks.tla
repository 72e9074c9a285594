---------------------------- MODULE MCKeptnTasks ----------------------------
(***************************************************************************)
(* Instances of KeptnTasks for TLC: one service and one sequence execution *)
(* whose spec is edited once.                                              *)
(***************************************************************************)
EXTENDS KeptnTasks

CONSTANTS x, y

AllOnce  == {<<kind, 1>> : kind \in Kinds}
PlanEdit == <<x, y>>
=============================================================================
