------------------------------- MODULE MCSpine --------------------------------
(***************************************************************************)
(* Instances of Spine for TLC.  A plan is a list of rows; the second plan a *)
(* late planner may commit has the same rows again.                         *)
(***************************************************************************)
EXTENDS SpineInvariant, TLC

(* Every row a task of its own (generated plans), or all rows one task. *)
OneRowPerTask == [s \in Subs |-> s]
(* Rows are numbered plan by plan. *)
OnePlan == [s \in Subs |-> 1]
PlanPerRow == [s \in Subs |-> s]

AllAgent == [s \in Subs |-> "agent"]
AllRead == [s \in Subs |-> "read"]
ManualThenAgent == [s \in Subs |-> IF s = 1 THEN "manual" ELSE "agent"]
ReadThenAuto == [s \in Subs |-> IF s = 1 THEN "read" ELSE "auto"]
OneTask == [s \in Subs |-> 1]

WorkerSymmetry == Permutations(Workers)
===============================================================================
