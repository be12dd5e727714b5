--------------------------- MODULE MCIoScheduler ---------------------------
(* The IO scheduler on small instances.                                      *)
EXTENDS IoScheduler, TLC

\* Rounds and threads are interchangeable in every safety property.
Symmetry == Permutations(Rounds) \cup Permutations(Threads)
=============================================================================
