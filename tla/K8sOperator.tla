----------------------------- MODULE K8sOperator ----------------------------
(***************************************************************************)
(* The operator (operator/internal/controller/mcpinstance_controller.go):  *)
(* its queue never hands one name to two workers at a time.  What a        *)
(* reconcile read of the instance when it started is all it knows of it;   *)
(* its status updates fail if the instance was written since, its delete   *)
(* does not.                                                               *)
(***************************************************************************)
EXTENDS K8sCluster

VARIABLE op   \* the reconcile under way for each name: see Idle

\* uid and ref are of the instance that was read, seen is the pod's state.
Idle == [pc |-> "idle", uid |-> 0, ref |-> FALSE, seen |-> "pending"]

OperatorInit == op = [n \in Names |-> Idle]
Done(n)      == op' = [op EXCEPT ![n] = Idle]
Goto(n, pc)  == op' = [op EXCEPT ![n].pc = pc]

\* Mutant: the lifetime is only looked at before the first use.
ShouldGarbageCollect_Unused(n) ==
  \/ cr[n].life > MaxLifetime /\ cr[n].idle = Unset
  \/ cr[n].idle > IdleTTL

ShouldGarbageCollect(n) ==
  \/ cr[n].life > MaxLifetime
  \/ cr[n].idle > IdleTTL

\* The instance is read; one that is gone needs nothing, its children are
\* collected.
Begin(n) ==
  /\ op[n].pc = "idle" /\ cr[n].uid # 0
  /\ cr' = [cr EXCEPT ![n].rv = TRUE]
  /\ op' = [op EXCEPT ![n] =
              [pc |-> IF ShouldGarbageCollect(n) THEN "delete"
                      ELSE IF cr[n].ref THEN "secret" ELSE "pod",
               uid |-> cr[n].uid, ref |-> cr[n].ref, seen |-> "pending"]]
  /\ UNCHANGED <<secret, pod, svc, made>>

\* The secret must be there.  Its owner reference replaces one to an instance of
\* the same name; an update that fails, because the server refuses it or the
\* secret was changed or deleted since it was read, is only logged.
EnsureSecret(n) ==
  /\ op[n].pc = "secret"
  /\ \/ secret[n] = NoSecret /\ Goto(n, "fail") /\ secret' = secret
     \/ /\ secret[n] # NoSecret /\ Goto(n, "pod")
        /\ secret' \in {secret, [secret EXCEPT ![n].owner = op[n].uid]}
  /\ UNCHANGED <<cr, pod, svc, made>>

\* A pod that exists is taken as it is, whoever owns it; a new one belongs to the
\* instance that was read, be it gone by now.
EnsurePod(n) ==
  /\ op[n].pc = "pod"
  /\ pod' = IF pod[n].owner # 0 THEN pod
            ELSE [pod EXCEPT ![n] = [NoPod EXCEPT !.owner = op[n].uid, !.ref = op[n].ref]]
  /\ op' = [op EXCEPT ![n].pc = "service", ![n].seen = pod'[n].state]
  /\ UNCHANGED <<cr, secret, svc, made>>

EnsureService(n) ==
  /\ op[n].pc = "service"
  /\ svc' = IF svc[n] # 0 THEN svc ELSE [svc EXCEPT ![n] = op[n].uid]
  /\ Goto(n, "sync")
  /\ UNCHANGED <<cr, secret, pod, made>>

\* A call for the pod or the service fails because of the server or a stale
\* cache; the pod may have been made already.
EnsureFails(n) ==
  /\ op[n].pc \in {"pod", "service"}
  /\ Goto(n, "fail")
  /\ UNCHANGED objects

\* The server refuses to show the secret, to delete or to update: the reconcile
\* returns the error and is repeated.
Refused(n) ==
  /\ op[n].pc \in {"delete", "secret", "sync", "fail"}
  /\ cr' = [cr EXCEPT ![n].rv = FALSE]
  /\ Done(n)
  /\ UNCHANGED <<secret, pod, svc, made>>

\* No precondition: by now the name may belong to another incarnation.
Delete(n) ==
  /\ op[n].pc = "delete"
  /\ cr' = [cr EXCEPT ![n] = NoCR]
  /\ Done(n)
  /\ UNCHANGED <<secret, pod, svc, made>>

\* Status().Update is refused if the instance is another or has been written.
Unwritten(n) == cr[n].uid = op[n].uid /\ cr[n].rv
SinceNow(t) == IF t = Unset THEN 0 ELSE t

\* The empty phase stands for Pending and Running too: nobody tells them apart.
\* In phases but Ready the URL stays and nobody reads it, which is 0 here.
SyncCR(n, url) ==
  cr' = IF ~Unwritten(n) THEN cr
        ELSE IF op[n].seen # "ready"
        THEN [cr EXCEPT ![n].rv = FALSE, ![n].url = 0,
                        ![n].phase = IF op[n].seen = "failed" THEN "Failed" ELSE ""]
        ELSE [cr EXCEPT ![n].rv = FALSE, ![n].phase = "Ready", ![n].url = url,
                        ![n].life = SinceNow(cr[n].life), ![n].idle = SinceNow(cr[n].idle)]

\* The URL has the service's address, or its name if the service cannot be read.
SyncStatus(n) ==
  /\ op[n].pc = "sync"
  /\ \E url \in {Dns} \cup ({svc[n]} \ {0}) : SyncCR(n, url)
  /\ Done(n)
  /\ UNCHANGED <<secret, pod, svc, made>>

\* Mutant: the error is returned and the status left as it is.
FailStatus_Silent(n) ==
  /\ op[n].pc = "fail"
  /\ Done(n)
  /\ UNCHANGED objects

\* updateStatus: the phase changes, the times stay.
FailStatus(n) ==
  /\ op[n].pc = "fail"
  /\ cr' = IF Unwritten(n)
           THEN [cr EXCEPT ![n].rv = FALSE, ![n].phase = "Failed", ![n].url = 0]
           ELSE cr
  /\ Done(n)
  /\ UNCHANGED <<secret, pod, svc, made>>

Reconcile(n) ==
  \/ Begin(n) \/ Delete(n)
  \/ EnsureSecret(n) \/ EnsurePod(n) \/ EnsureService(n) \/ EnsureFails(n)
  \/ SyncStatus(n) \/ FailStatus(n)

OperatorNext == \E n \in Names : Reconcile(n) \/ Refused(n)
=============================================================================
