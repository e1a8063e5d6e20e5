--------------------------- MODULE MCStdioProcess ---------------------------
(* Instances of StdioProcess for TLC. *)
EXTENDS StdioProcess, TLC

CallerSymmetry == Permutations(Callers)
=============================================================================
