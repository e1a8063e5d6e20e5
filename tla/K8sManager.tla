----------------------------- MODULE K8sManager -----------------------------
(***************************************************************************)
(* The gateway's Kubernetes manager (backend/internal/k8s/manager.go), as  *)
(* createK8sClient of proxy.go and the environment handlers of the API use *)
(* it for one target.  m.mu guards the cached URLs only: every call of the *)
(* API server is a step of its own.                                        *)
(***************************************************************************)
EXTENDS K8sCluster

CONSTANTS
  TargetName,    \* the target's name, in parts like the keys
  MaxName,       \* parts a name may have (63 characters in the code)
  Users,         \* goroutines that initialize the target
  MaxInstances,
  Versions       \* of the target's environment; 0: none is configured

VARIABLES
  urls,     \* m.serviceURLs
  user,     \* per goroutine: see Away
  version,  \* of the target's environment in the database; 0: none configured
  restart   \* instances RestartTarget has listed and not deleted yet

manager == <<urls, user, version, restart>>

\* buildCRName joins the two and cuts the end off.  What else it does, to case
\* and punctuation, loses nothing of a key: prefix and hexadecimal hash.
BuildCRName(k) ==
  LET name == TargetName \o k IN IF Len(name) > MaxName THEN SubSeq(name, 1, MaxName) ELSE name

ASSUME ManagerAssumption ==
  /\ TargetName \in Seq(STRING) /\ Keys \subseteq Seq(STRING) /\ MaxName \in Nat
  /\ \A k \in Keys : BuildCRName(k) \in Names
  /\ IsFiniteSet(Users) /\ Users # {} /\ MaxInstances \in Nat
  /\ Versions \subseteq Nat

Away == [pc |-> "away", key |-> <<>>, ver |-> 0, url |-> 0]
NameOf(u) == BuildCRName(user[u].key)
Step(u, to) == user' = [user EXCEPT ![u].pc = to]

ManagerInit ==
  /\ urls = [k \in Keys |-> 0]
  /\ user = [u \in Users |-> Away]
  /\ version \in Versions
  /\ restart = {}

-----------------------------------------------------------------------------
(* GetOrCreate *)

\* touchLastUsed: the patch names the instance, whatever its uid; one that fails
\* is only logged.
Touch(n) ==
  \/ cr' = cr
  \/ cr[n].uid # 0 /\ cr' = [cr EXCEPT ![n].idle = 0, ![n].rv = FALSE]

\* A cached URL is handed out unseen; the patch, which a goroutine makes that
\* waits for nothing else, is part of the step.
Hit(u, k) ==
  /\ user[u].pc = "away" /\ urls[k] # 0
  /\ Touch(BuildCRName(k))
  /\ UNCHANGED <<secret, pod, svc, made, manager>>

Served(n) == cr[n].phase = "Ready" /\ cr[n].url # 0

\* The environment was resolved by the caller, createK8sClient; without a cached
\* URL the instance is looked up, and what is there decides.
Miss(u, k) ==
  LET n == BuildCRName(k)
      Go(to, ver, url) ==
        user' = [user EXCEPT ![u] = [pc |-> to, key |-> k, ver |-> ver, url |-> url]]
  IN
  /\ user[u].pc = "away" /\ urls[k] = 0
  /\ \/ cr[n].uid = 0 /\ Go("list", version, 0)
     \/ Served(n) /\ Go("keep", 0, cr[n].url)
     \/ cr[n].phase = "Failed" /\ Go("drop", version, 0)
     \/ cr[n].uid # 0 /\ ~Served(n) /\ cr[n].phase # "Failed" /\ Go("wait", 0, 0)
  /\ UNCHANGED <<objects, urls, version, restart>>

\* Deletes by name, whatever carries it by now; nobody looks at the error.
Drop(u) ==
  /\ user[u].pc = "drop"
  /\ cr' \in {cr, [cr EXCEPT ![NameOf(u)] = NoCR]}
  /\ Step(u, "list")
  /\ UNCHANGED <<secret, pod, svc, made, urls, version, restart>>

\* At the limit, GiveUp is what is left.
List(u) ==
  /\ user[u].pc = "list" /\ Cardinality(Instances) < MaxInstances
  /\ Step(u, IF user[u].ver = 0 THEN "create" ELSE "secret")
  /\ UNCHANGED <<objects, urls, version, restart>>

\* AlreadyExists is no error: the secret that is there stays as it is.
CreateSecret(u) ==
  LET n == NameOf(u) IN
  /\ user[u].pc = "secret"
  /\ secret' = IF secret[n] = NoSecret
               THEN [secret EXCEPT ![n].env = [key |-> user[u].key, ver |-> user[u].ver]]
               ELSE secret
  /\ Step(u, "create")
  /\ UNCHANGED <<cr, pod, svc, made, urls, version, restart>>

\* Here it is one: GiveUp.
CreateCR(u) ==
  /\ user[u].pc = "create" /\ cr[NameOf(u)].uid = 0 /\ made < MaxUid
  /\ made' = made + 1
  /\ cr' = [cr EXCEPT ![NameOf(u)] = [NoCR EXCEPT !.uid = made + 1, !.ref = (user[u].ver # 0)]]
  /\ user' = [user EXCEPT ![u].pc = "wait", ![u].ver = 0]
  /\ UNCHANGED <<secret, pod, svc, urls, version, restart>>

\* waitForReady polls; a failed or vanished instance ends it (GiveUp) ...
Wait(u) ==
  LET n == NameOf(u) IN
  /\ user[u].pc = "wait" /\ Served(n)
  /\ user' = [user EXCEPT ![u].pc = "dial", ![u].url = cr[n].url]
  /\ UNCHANGED <<objects, urls, version, restart>>

\* ... then it dials the URL it read, for up to 30 s.
Dial(u) ==
  /\ user[u].pc = "dial" /\ Reachable(NameOf(u), user[u].url)
  /\ Step(u, "store")
  /\ UNCHANGED <<objects, urls, version, restart>>

\* Only the instance found by Get is touched.
Store(u) ==
  /\ \/ user[u].pc = "store" /\ cr' = cr
     \/ user[u].pc = "keep" /\ Touch(NameOf(u))
  /\ urls' = [urls EXCEPT ![user[u].key] = user[u].url]
  /\ user' = [user EXCEPT ![u] = Away]
  /\ UNCHANGED <<secret, pod, svc, made, version, restart>>

\* An error of the API server, the limit, a failed instance, one that does not
\* answer, a deadline or the context: the initialization fails and leaves what
\* it made.
GiveUp(u) ==
  /\ user[u].pc \in {"list", "secret", "create", "wait", "dial"}
  /\ user' = [user EXCEPT ![u] = Away]
  /\ UNCHANGED <<objects, urls, version, restart>>

-----------------------------------------------------------------------------
(* gc, RestartTarget and Shutdown *)

\* Mutant: a URL goes only when its instance is marked as failed.
Gc_AskPhase(k) ==
  /\ urls[k] # 0 /\ cr[BuildCRName(k)].phase = "Failed"
  /\ urls' = [urls EXCEPT ![k] = 0]
  /\ UNCHANGED <<objects, user, version, restart>>

\* One URL of gc's sweep; m.mu is held, and nothing else of the sweep is shared.
Gc(k) ==
  /\ urls[k] # 0 /\ ~Reachable(BuildCRName(k), urls[k])
  /\ urls' = [urls EXCEPT ![k] = 0]
  /\ UNCHANGED <<objects, user, version, restart>>

\* An environment handler writes or deletes rows, or nothing changes, and the
\* target's instances are listed.
StartRestart(ver) ==
  /\ restart = {}
  /\ version' = ver
  /\ restart' = Instances
  /\ UNCHANGED <<objects, urls, user>>

RestartTarget == \E ver \in Versions : StartRestart(ver)

\* Deleted by name; a Delete that fails is logged, and the instance stays.
RestartDelete(n) ==
  /\ n \in restart
  /\ cr' \in {cr, [cr EXCEPT ![n] = NoCR]}
  /\ restart' = restart \ {n}
  /\ UNCHANGED <<secret, pod, svc, made, urls, user, version>>

\* The URLs of all targets go, when the last instance of the list was deleted or
\* there was none; so they do when it is another target that is restarted.
RestartClear ==
  /\ restart = {}
  /\ urls' = [k \in Keys |-> 0]
  /\ UNCHANGED <<objects, user, version, restart>>

\* Shutdown, and a new gateway with an empty cache; what the old one was doing
\* for its clients and the administrator is cut short.
GatewayRestart ==
  /\ urls' = [k \in Keys |-> 0]
  /\ user' = [u \in Users |-> Away]
  /\ restart' = {}
  /\ UNCHANGED <<objects, version>>

RestartStep == RestartClear \/ \E n \in Names : RestartDelete(n)

ManagerNext ==
  \/ \E u \in Users :
       \/ \E k \in Keys : Hit(u, k) \/ Miss(u, k)
       \/ Drop(u) \/ List(u) \/ CreateSecret(u) \/ CreateCR(u)
       \/ Wait(u) \/ Dial(u) \/ Store(u) \/ GiveUp(u)
  \/ \E k \in Keys : Gc(k)
  \/ RestartTarget \/ RestartStep \/ GatewayRestart
=============================================================================
