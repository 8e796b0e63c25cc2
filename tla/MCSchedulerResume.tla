-------------------------- MODULE MCSchedulerResume --------------------------
(* Instances of SchedulerResume for TLC. *)
EXTENDS SchedulerResume

\* The first of two groups has a plan of two cells, the second one of one cell.
TwoPlans   == <<1, 2>>
ThreeCells == <<1, 1, 2>>
=============================================================================
