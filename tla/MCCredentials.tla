---------------------------- MODULE MCCredentials ----------------------------
(* Instances of Credentials for TLC. *)
EXTENDS Credentials

Id(u, r, gs) == [user |-> u, role |-> r, groups |-> gs]

\* One session, whose user is or is not in a second group.
OneSession == {"s"}
Joins      == [s \in OneSession |-> {Id("u", "r", <<"g">>), Id("u", "r", <<"g", "h">>)}]

Config(t, b, a) == [transport |-> t, boundary |-> b, auth |-> a]
BothKinds == {Config("http", "shared", TRUE), Config("stdio", "per_group", TRUE)}
=============================================================================
