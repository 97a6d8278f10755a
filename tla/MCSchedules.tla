----------------------------- MODULE MCSchedules -----------------------------
(* Instances of Schedules for TLC: servers are interchangeable.               *)
EXTENDS Schedules, TLC

ServerSymmetry == Permutations(Server)
=============================================================================
