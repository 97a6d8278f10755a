---------------------------- MODULE MCJobsLedger ----------------------------
(* Instances of JobsLedger for TLC.  Request threads are interchangeable, and  *)
(* so are content keys; neither set is reduced where liveness is asked.        *)
EXTENDS JobsLedger, TLC

RequestSymmetry == Permutations(Request)
StageSymmetry   == Permutations(Request) \cup Permutations(Key)
=============================================================================
