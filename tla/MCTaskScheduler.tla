-------------------------- MODULE MCTaskScheduler --------------------------
(* The task scheduler on small instances; the .cfg files choose the kinds    *)
(* of task and the calls that an instance exercises.                         *)
EXTENDS TaskScheduler, TLC

\* Threads are interchangeable in every safety property.
Symmetry == Permutations(Threads)
=============================================================================
