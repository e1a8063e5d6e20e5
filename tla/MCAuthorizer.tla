------------------------------ MODULE MCAuthorizer ------------------------------
(* Instances of Authorizer for TLC. *)
EXTENDS Authorizer, TLC

CONSTANTS t1, u1, u2, delete

Row(e, p, ty, t, names) ==
  [effect |-> e, priority |-> p, type |-> ty, target |-> t, names |-> names, enabled |-> TRUE]

AllowAll   == Row("allow", 1, "all", AnyTarget, Names)
DenyTool   == Row("deny", 2, "tool", AnyTarget, {delete})
AllowTools == Row("allow", 3, "tool", t1, Names)

\* A denial, on and off, between two allowances.
LoadRows == {AllowAll, DenyTool, [DenyTool EXCEPT !.enabled = FALSE], AllowTools}
TwoRows   == {AllowAll, DenyTool}

Everyone == {{u1, u2}}
Role     == {{u2}}

Symmetry == Permutations(Reqs) \cup Permutations(Policies)
=============================================================================
