---------------------------- MODULE MCScheduler ----------------------------
(* Instances of the scheduler for TLC.                                     *)
EXTENDS SchedulerRefines, TLC

Symmetry == Permutations(Request) \cup Permutations(Runner)
=============================================================================
