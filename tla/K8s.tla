--------------------------------- MODULE K8s --------------------------------
(***************************************************************************)
(* Gateway and operator at work on the same cluster: K8sManager and        *)
(* K8sOperator composed over the objects of K8sCluster.                    *)
(***************************************************************************)
EXTENDS K8sManager, K8sOperator

vars == <<objects, manager, op>>

Init == ClusterInit /\ ManagerInit /\ OperatorInit

Next ==
  \/ ManagerNext /\ op' = op
  \/ OperatorNext /\ UNCHANGED manager
  \/ ClusterNext /\ UNCHANGED <<manager, op>>

Spec == Init /\ [][Next]_vars

\* The gc ticker, the operator's queue, the collector and the clock go on, and
\* the API server does not refuse the same call of the operator for ever.
\* Clients and administrators owe nothing, and no pod ever has to be ready.
FairSpec ==
  /\ Spec
  /\ \A k \in Keys : WF_vars(Gc(k) /\ op' = op)
  /\ \A n \in Names :
       /\ WF_vars(Reconcile(n) /\ UNCHANGED manager)
       /\ SF_vars(EnsureSecret(n) /\ UNCHANGED manager)
       /\ SF_vars((Delete(n) \/ SyncStatus(n) \/ FailStatus(n)) /\ UNCHANGED manager)
       /\ WF_vars(Collect(n) /\ UNCHANGED <<manager, op>>)
  /\ WF_vars(Tick /\ UNCHANGED <<manager, op>>)

-----------------------------------------------------------------------------
(* Properties *)

EnvType    == [key : Keys \cup {<<>>}, ver : Versions \cup {0}]
Uids       == 1 .. MaxUid
Addr       == Uids \cup {0, Dns}
States     == {"pending", "ready", "failed"}
CRType     == [uid : Uids \cup {0}, ref : BOOLEAN, phase : {"", "Ready", "Failed"},
               url : Addr, life : -1 .. MaxLifetime + 1, idle : -1 .. IdleTTL + 1, rv : BOOLEAN]
SecretType == [env : EnvType, owner : Uids \cup {0}]
PodType    == [owner : Uids \cup {0}, ref : BOOLEAN, env : EnvType, state : States]
UserType   == [pc : {"away", "drop", "list", "secret", "create", "wait", "dial",
                     "keep", "store"},
               key : Keys \cup {<<>>}, ver : Versions \cup {0}, url : Addr]
OpType     == [pc : {"idle", "delete", "secret", "pod", "service", "sync", "fail"},
               uid : Uids \cup {0}, ref : BOOLEAN, seen : States]

\* Types of the variables; nothing is known of an instance that does not exist.
TypeOK ==
  /\ cr \in [Names -> CRType]
  /\ \A n \in Names : cr[n].uid = 0 => cr[n] = NoCR
  /\ secret \in [Names -> SecretType]
  /\ pod \in [Names -> PodType]
  /\ svc \in [Names -> Uids \cup {0}]
  /\ made \in 0 .. MaxUid
  /\ urls \in [Keys -> Addr]
  /\ user \in [Users -> UserType]
  /\ version \in Versions
  /\ restart \subseteq Names
  /\ op \in [Names -> OpType]

\* Of a key as much as fits in a name behind the target's.
SameStart(j, k) ==
  \A i \in 1 .. MaxName - Len(TargetName) :
    i \in DOMAIN j \cup DOMAIN k => i \in DOMAIN j \cap DOMAIN k /\ j[i] = k[i]

\* The isolation boundary, as far as it goes: the pod that sessions with a
\* subject key are sent to runs with an environment resolved for that key, for
\* one that differs from it only where the name is cut, or with none.
OwnEnv ==
  \A k \in Keys : LET e == pod[BuildCRName(k)].env.key IN
    e = <<>> \/ (e \in Keys /\ SameStart(e, k))

\* List and create are separate calls: the limit on instances is exceeded by
\* initializations in flight, and by no more than the others of them.
LimitOvershoot ==
  Cardinality(Instances) + Cardinality({u \in Users : user[u].pc \in {"secret", "create"}})
    <= MaxInstances + Cardinality(Users) - 1

\* The address of a service that is gone.
Stale(k) == urls[k] \in Uids /\ svc[BuildCRName(k)] # urls[k]

\* A cached URL that leads nowhere, put there before or after the instance went
\* (an initialization may overtake RestartTarget), does not stay.
StaleUrlDropped == \A k \in Keys : []<>~Stale(k)

\* Waited for: the pod is ready, and the status does not say so.
Undecided(n) ==
  cr[n].uid # 0 /\ pod[n].state = "ready" /\ cr[n].phase \notin {"Ready", "Failed"}

\* An instance whose pod is ready, at first or again, is marked Ready or Failed,
\* deleted, or loses its pod, although a reconcile may see an earlier state and
\* every touch makes its status update fail; unless touches go on for ever.
InstanceDecided ==
  \A n \in Names :
    []<>~Undecided(n) \/ []<><<\E u \in Users, k \in Keys : Hit(u, k)>>_vars

\* A pod does not serve for ever, however much it is used, once its instance was
\* Ready: neither do the credentials it started with, current or not.
LifetimeEnds == \A n \in Names : []<>(pod[n].owner # 0 => cr[n].life = Unset)
=============================================================================
