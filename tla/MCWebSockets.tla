---------------------------- MODULE MCWebSockets ----------------------------
(* Instances of WebSockets for TLC. *)
EXTENDS WebSockets, TLC

Symmetry == Permutations(Fds) \cup Permutations(Conns)
=============================================================================
