--------------------------- MODULE MCStateUpdates ---------------------------
(* Instances of StateUpdates for TLC. *)
EXTENDS StateUpdates, TLC

Symmetry == Permutations(Members)
=============================================================================
