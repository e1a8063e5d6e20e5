----------------------------- MODULE MCToolRouting -----------------------------
(* Instances of ToolRouting for TLC. *)
EXTENDS ToolRouting, TLC

g == <<"g">>
h == <<"h">>
x == <<"x">>
listRepos == <<"list", "repos">>

TwoTargets == {g, h}

\* One tool both offer, and one that is denied.
SharedOffers == (g :> {listRepos}) @@ (h :> {listRepos, x})

NotAtH == Items \ {<<h, x>>}
NoNames == {}

Symmetry == Permutations(Lists) \cup Permutations(Calls)
=============================================================================
