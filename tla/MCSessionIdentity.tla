--------------------------- MODULE MCSessionIdentity ---------------------------
(* Instances of SessionIdentity for TLC. *)
EXTENDS SessionIdentity, TLC

CONSTANTS t1, t2

Dev   == [role |-> "dev", groups |-> <<"a", "b">>]
DevBA == [role |-> "dev", groups |-> <<"b", "a">>]
Ops   == [role |-> "ops", groups |-> <<"a">>]

\* Lists without repetition, one of them reordered.
PlainIds == {Dev, DevBA, Ops}

\* Role ops may not use t2.
SomeAllowed == {a \in ReadIds \X Targets : a[1].role = "dev" \/ a[2] = t1}

Symmetry == Permutations(Reqs) \cup Permutations(Clients)
=============================================================================
