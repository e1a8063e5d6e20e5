-------------------------- MODULE MCSessionRegistry --------------------------
(* Instances of SessionRegistry for TLC. *)
EXTENDS SessionRegistry, TLC

Symmetry == Permutations(Sids) \cup Permutations(Reqs) \cup Permutations(Objs)
=============================================================================
