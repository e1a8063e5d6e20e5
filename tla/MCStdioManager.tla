---------------------------- MODULE MCStdioManager ----------------------------
(* Instances of StdioManager for TLC. *)
EXTENDS StdioManager, TLC

Symmetry == Permutations(Procs) \cup Permutations(Users)
=============================================================================
