-------------------------------- MODULE MCK8s -------------------------------
(* Instances of K8s for TLC. *)
EXTENDS K8s

Target  == <<"t">>
OneKey  == {<<"user", "a">>}
NamesOf == {Target \o k : k \in Keys}
=============================================================================
