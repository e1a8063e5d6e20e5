----------------------------- MODULE K8sCluster -----------------------------
(***************************************************************************)
(* The Kubernetes objects of one target that the gateway's manager         *)
(* (K8sManager) and the operator (K8sOperator) share through the API       *)
(* server, and what the cluster does with them by itself: the garbage      *)
(* collector follows owner references, the kubelet runs the pods.          *)
(*                                                                         *)
(* The cluster is not part of the repository; it is modelled from how the  *)
(* two components use it.  Pod, service and secret carry the name of their *)
(* MCPInstance and the uid of the incarnation that made or adopted them,   *)
(* and outlive it until the collector comes; 0 stands for no object.       *)
(***************************************************************************)
EXTENDS Integers, FiniteSets, Sequences

CONSTANTS
  Keys,         \* subject keys, as sequences of their parts
  Names,        \* names of MCPInstances
  MaxUid,       \* bound on the instances ever made
  IdleTTL, MaxLifetime   \* in ticks

ASSUME ClusterAssumption ==
  /\ IsFiniteSet(Names) /\ <<>> \notin Keys
  /\ MaxUid \in Nat /\ IdleTTL \in Nat /\ MaxLifetime \in Nat

VARIABLES
  cr,       \* MCPInstances by name: see NoCR
  secret,   \* secrets by the name of their instance: [env, owner]
  pod,      \* [owner, ref: envFrom the secret?, env: of the running container, state]
  svc,      \* owner of the service; its ClusterIP is known by it
  made      \* instances made so far: the last uid

objects == <<cr, secret, pod, svc, made>>

NoEnv    == [key |-> <<>>, ver |-> 0]
NoSecret == [env |-> NoEnv, owner |-> 0]
NoPod    == [owner |-> 0, ref |-> FALSE, env |-> NoEnv, state |-> "pending"]
Unset    == -1   \* a time that is not set
Dns      == -1   \* the URL that names the service instead of its address

\* url is 0 unless the phase is Ready; life and idle are the ticks since
\* status.startedAt and lastUsedAt; rv: a reconcile under way has read it, and it
\* was not written since (resourceVersion).
NoCR == [uid |-> 0, ref |-> FALSE, phase |-> "", url |-> 0,
         life |-> Unset, idle |-> Unset, rv |-> FALSE]

ClusterInit ==
  /\ cr     = [n \in Names |-> NoCR]
  /\ secret = [n \in Names |-> NoSecret]
  /\ pod    = [n \in Names |-> NoPod]
  /\ svc    = [n \in Names |-> 0]
  /\ made = 0

Instances == {n \in Names : cr[n].uid # 0}

\* Somebody answers behind this URL.
Reachable(n, url) == svc[n] # 0 /\ url \in {svc[n], Dns} /\ pod[n].state = "ready"

-----------------------------------------------------------------------------
(* The collector: an owner that is gone, by uid, takes its dependents along. *)

CollectSecret(n) ==
  /\ secret[n].owner \notin {0, cr[n].uid}
  /\ secret' = [secret EXCEPT ![n] = NoSecret]
  /\ UNCHANGED <<cr, pod, svc, made>>

CollectPod(n) ==
  /\ pod[n].owner \notin {0, cr[n].uid}
  /\ pod' = [pod EXCEPT ![n] = NoPod]
  /\ UNCHANGED <<cr, secret, svc, made>>

CollectService(n) ==
  /\ svc[n] \notin {0, cr[n].uid}
  /\ svc' = [svc EXCEPT ![n] = 0]
  /\ UNCHANGED <<cr, secret, pod, made>>

Collect(n) == CollectSecret(n) \/ CollectPod(n) \/ CollectService(n)

-----------------------------------------------------------------------------
(* The kubelet *)

\* A container takes its environment from the secret when it starts, and
\* does not start while the secret is missing.
PodReady(n) ==
  /\ pod[n].owner # 0 /\ pod[n].state = "pending"
  /\ pod[n].ref => secret[n] # NoSecret
  /\ pod' = [pod EXCEPT ![n].state = "ready",
                        ![n].env = IF pod[n].ref THEN secret[n].env ELSE NoEnv]
  /\ UNCHANGED <<cr, secret, svc, made>>

\* The container exits and is started again, its probe fails, or the node
\* evicts the pod.
PodFails(n) ==
  /\ pod[n].owner # 0 /\ pod[n].state = "ready"
  /\ \E state \in {"pending", "failed"} :
       pod' = [pod EXCEPT ![n].state = state, ![n].env = NoEnv]
  /\ UNCHANGED <<cr, secret, svc, made>>

Older(ticks, limit) == IF ticks \in 0 .. limit THEN ticks + 1 ELSE ticks

Tick ==
  /\ cr' = [n \in Names |-> [cr[n] EXCEPT !.life = Older(cr[n].life, MaxLifetime),
                                          !.idle = Older(cr[n].idle, IdleTTL)]]
  /\ UNCHANGED <<secret, pod, svc, made>>

ClusterNext ==
  \/ \E n \in Names :
       \/ Collect(n) \/ PodReady(n) \/ PodFails(n)
  \/ Tick
=============================================================================
