------------------------------ MODULE K8s_Proofs ------------------------------
(***************************************************************************)
(* Proofs about K8s: the isolation of subject keys, as far as the names of *)
(* their instances differ, and the bound on instances hold for any keys,   *)
(* names, goroutines and limits.                                           *)
(***************************************************************************)
EXTENDS K8s, FiniteSetTheorems, TLAPS

\* A goroutine that is under way knows whom it works for.
KeyOfUser == \A u \in Users : user[u].pc # "away" => user[u].key \in Keys

\* e is nothing or a key whose instance has this name.
Named(e, n) == e = <<>> \/ (e \in Keys /\ BuildCRName(e) = n)

\* A secret, and the environment of a running container, are those of a key that
\* the instance they are named after is for.
SecretEnv == \A n \in Names : Named(secret[n].env.key, n)
PodEnv    == \A n \in Names : Named(pod[n].env.key, n)

IInv == TypeOK /\ KeyOfUser /\ SecretEnv /\ PodEnv /\ LimitOvershoot

-----------------------------------------------------------------------------
(* Names *)

LEMMA NameOfKey == \A k \in Keys : BuildCRName(k) \in Names
BY ManagerAssumption

\* What is left of a key in the name.
LEMMA NameKeeps ==
  ASSUME NEW k \in Keys, NEW i \in Nat, i # 0, Len(TargetName) + i <= MaxName
  PROVE  /\ i \in DOMAIN k <=> Len(TargetName) + i \in DOMAIN BuildCRName(k)
         /\ i \in DOMAIN k => BuildCRName(k)[Len(TargetName) + i] = k[i]
<1>1. k \in Seq(STRING) /\ TargetName \in Seq(STRING) /\ MaxName \in Nat
  BY ManagerAssumption
<1> DEFINE name == TargetName \o k
<1>2. /\ name \in Seq(STRING) /\ Len(name) = Len(TargetName) + Len(k)
      /\ \A l \in 1 .. Len(k) : name[Len(TargetName) + l] = k[l]
  BY <1>1
<1>3. DOMAIN k = 1 .. Len(k) /\ Len(k) \in Nat /\ Len(TargetName) \in Nat
  BY <1>1
<1>4. CASE Len(name) > MaxName
  <2>1. BuildCRName(k) = SubSeq(name, 1, MaxName)
    BY <1>4 DEF BuildCRName
  <2>2. /\ DOMAIN SubSeq(name, 1, MaxName) = 1 .. MaxName
        /\ \A l \in 1 .. MaxName : SubSeq(name, 1, MaxName)[l] = name[l]
    BY <1>1, <1>2, <1>4
  <2> HIDE DEF name
  <2> QED BY <1>1, <1>2, <1>3, <1>4, <2>1, <2>2
<1>5. CASE ~(Len(name) > MaxName)
  <2>1. BuildCRName(k) = name
    BY <1>5 DEF BuildCRName
  <2>2. DOMAIN name = 1 .. Len(name)
    BY <1>2
  <2> HIDE DEF name
  <2> QED BY <1>1, <1>2, <1>3, <2>1, <2>2
<1> QED BY <1>4, <1>5

\* Two keys share an instance only if they differ behind the cut.
LEMMA NameShared ==
  ASSUME NEW j \in Keys, NEW k \in Keys, BuildCRName(j) = BuildCRName(k)
  PROVE  SameStart(j, k)
<1> SUFFICES ASSUME NEW i \in 1 .. MaxName - Len(TargetName), i \in DOMAIN j \cup DOMAIN k
             PROVE  i \in DOMAIN j \cap DOMAIN k /\ j[i] = k[i]
  BY DEF SameStart
<1>1. i \in Nat /\ i # 0 /\ Len(TargetName) + i <= MaxName
  BY ManagerAssumption
<1>2. /\ i \in DOMAIN j <=> Len(TargetName) + i \in DOMAIN BuildCRName(j)
      /\ i \in DOMAIN j => BuildCRName(j)[Len(TargetName) + i] = j[i]
  BY <1>1, NameKeeps
<1>3. /\ i \in DOMAIN k <=> Len(TargetName) + i \in DOMAIN BuildCRName(k)
      /\ i \in DOMAIN k => BuildCRName(k)[Len(TargetName) + i] = k[i]
  BY <1>1, NameKeeps
<1> QED BY <1>2, <1>3

LEMMA NameTypes ==
  ASSUME TypeOK, KeyOfUser
  PROVE  \A u \in Users : user[u].pc # "away" => NameOf(u) \in Names
BY NameOfKey DEF KeyOfUser, NameOf

LEMMA Times ==
  /\ 0 \in -1 .. MaxLifetime + 1 /\ 0 \in -1 .. IdleTTL + 1
  /\ \A t \in -1 .. MaxLifetime + 1 : Older(t, MaxLifetime) \in -1 .. MaxLifetime + 1
  /\ \A t \in -1 .. IdleTTL + 1 : Older(t, IdleTTL) \in -1 .. IdleTTL + 1
  /\ Older(Unset, MaxLifetime) = Unset /\ Older(Unset, IdleTTL) = Unset
BY ClusterAssumption DEF Older, Unset

LEMMA NoObjects ==
  /\ NoCR \in CRType /\ NoSecret \in SecretType /\ NoPod \in PodType
  /\ NoEnv \in EnvType /\ Away \in UserType /\ Idle \in OpType
BY ClusterAssumption DEF NoCR, NoSecret, NoPod, NoEnv, Away, Idle, CRType, SecretType, PodType,
   EnvType, UserType, OpType, Uids, Addr, States, Unset, Dns

\* An instance without anything is none.
LEMMA BlankCR ==
  ASSUME NEW x \in CRType, x.uid = 0, x.ref = FALSE, x.phase = "", x.url = 0,
         x.life = Unset, x.idle = Unset, x.rv = FALSE
  PROVE  x = NoCR
<1>1. x = [uid |-> x.uid, ref |-> x.ref, phase |-> x.phase, url |-> x.url,
           life |-> x.life, idle |-> x.idle, rv |-> x.rv]
  BY DEF CRType
<1> QED BY <1>1 DEF NoCR

-----------------------------------------------------------------------------
(* Types *)

\* One instance changes; none that is not there gets a status.
LEMMA CRWritten ==
  ASSUME TypeOK, NEW n \in Names, NEW x \in CRType, x.uid = 0 => x = NoCR,
         cr' = [cr EXCEPT ![n] = x]
  PROVE  cr' \in [Names -> CRType] /\ (\A m \in Names : cr'[m].uid = 0 => cr'[m] = NoCR)
<1>1. cr \in [Names -> CRType] /\ \A m \in Names : cr[m].uid = 0 => cr[m] = NoCR
  BY DEF TypeOK
<1> QED BY <1>1

\* It is deleted, or the delete fails.
LEMMA CRDeleted ==
  ASSUME TypeOK, NEW n \in Names, cr' = cr \/ cr' = [cr EXCEPT ![n] = NoCR]
  PROVE  cr' \in [Names -> CRType] /\ (\A m \in Names : cr'[m].uid = 0 => cr'[m] = NoCR)
<1>1. CASE cr' = cr
  BY <1>1 DEF TypeOK
<1>2. CASE cr' = [cr EXCEPT ![n] = NoCR]
  BY <1>2, NoObjects, CRWritten
<1> QED BY <1>1, <1>2

LEMMA UserWritten ==
  ASSUME TypeOK, KeyOfUser, NEW u \in Users, NEW x \in UserType,
         x.pc # "away" => x.key \in Keys, user' = [user EXCEPT ![u] = x]
  PROVE  user' \in [Users -> UserType] /\ KeyOfUser'
<1>1. user \in [Users -> UserType]
  BY DEF TypeOK
<1> QED BY <1>1 DEF KeyOfUser

LEMMA UserStepped ==
  ASSUME TypeOK, KeyOfUser, NEW u \in Users, user[u].pc # "away",
         NEW to \in {"drop", "list", "secret", "create", "wait", "dial", "keep", "store"},
         Step(u, to)
  PROVE  user' \in [Users -> UserType] /\ KeyOfUser'
<1> DEFINE x == [user[u] EXCEPT !.pc = to]
<1>1. user[u] \in UserType /\ user[u].key \in Keys
  BY DEF TypeOK, KeyOfUser
<1>2. x \in UserType /\ x.key \in Keys
  BY <1>1 DEF UserType
<1>3. user' = [user EXCEPT ![u] = x]
  BY DEF Step
<1> HIDE DEF x
<1> QED BY <1>2, <1>3, UserWritten

LEMMA TouchTypes ==
  ASSUME TypeOK, NEW n \in Names, Touch(n)
  PROVE  /\ cr' \in [Names -> CRType]
         /\ \A m \in Names : cr'[m].uid = 0 => cr'[m] = NoCR
         /\ \A m \in Names : cr'[m].uid = cr[m].uid
<1>1. cr \in [Names -> CRType] /\ \A m \in Names : cr[m].uid = 0 => cr[m] = NoCR
  BY DEF TypeOK
<1>2. CASE cr' = cr
  BY <1>1, <1>2
<1>3. CASE cr' # cr
  <2> DEFINE x == [cr[n] EXCEPT !.idle = 0, !.rv = FALSE]
  <2>1. cr[n] \in CRType
    BY <1>1
  <2>2. x \in CRType /\ x.uid = cr[n].uid
    BY <2>1, Times DEF CRType
  <2>3. cr' = [cr EXCEPT ![n] = x] /\ cr[n].uid # 0
    BY <1>3 DEF Touch
  <2> HIDE DEF x
  <2> QED BY <1>1, <2>2, <2>3
<1> QED BY <1>2, <1>3

LEMMA UserSteps ==
  ASSUME TypeOK, KeyOfUser, NEW u \in Users, op' = op,
         \/ \E k \in Keys : Hit(u, k) \/ Miss(u, k)
         \/ Drop(u) \/ List(u) \/ CreateSecret(u) \/ CreateCR(u)
         \/ Wait(u) \/ Dial(u) \/ Store(u) \/ GiveUp(u)
  PROVE  TypeOK' /\ KeyOfUser'
<1>0. user[u] \in UserType /\ (user[u].pc # "away" => user[u].key \in Keys /\ NameOf(u) \in Names)
  BY NameTypes DEF TypeOK, KeyOfUser
<1>1. ASSUME NEW k \in Keys, Hit(u, k) PROVE TypeOK' /\ KeyOfUser'
  <2>1. BuildCRName(k) \in Names
    BY NameOfKey
  <2> QED BY <1>1, <2>1, TouchTypes DEF Hit, TypeOK, KeyOfUser, manager
<1>2. ASSUME NEW k \in Keys, Miss(u, k) PROVE TypeOK' /\ KeyOfUser'
  <2>1. PICK to \in {"list", "keep", "drop", "wait"}, ver \in Versions \cup {0}, url \in Addr :
          user' = [user EXCEPT ![u] = [pc |-> to, key |-> k, ver |-> ver, url |-> url]]
    <3>1. BuildCRName(k) \in Names /\ version \in Versions /\ 0 \in Addr
      BY NameOfKey DEF TypeOK, Addr
    <3>2. cr[BuildCRName(k)].url \in Addr
      BY <3>1 DEF TypeOK, CRType
    <3> QED BY <1>2, <3>1, <3>2 DEF Miss
  <2>2. [pc |-> to, key |-> k, ver |-> ver, url |-> url] \in UserType
    BY DEF UserType
  <2>3. user' \in [Users -> UserType] /\ KeyOfUser'
    BY <2>1, <2>2, UserWritten
  <2> QED BY <1>2, <2>3 DEF Miss, TypeOK, objects
<1>3. CASE Drop(u)
  <2>1. NameOf(u) \in Names /\ (cr' = cr \/ cr' = [cr EXCEPT ![NameOf(u)] = NoCR])
    BY <1>0, <1>3 DEF Drop
  <2>2. user' \in [Users -> UserType] /\ KeyOfUser'
    BY <1>3, UserStepped DEF Drop
  <2>3. cr' \in [Names -> CRType] /\ (\A m \in Names : cr'[m].uid = 0 => cr'[m] = NoCR)
    BY <2>1, CRDeleted
  <2> QED BY <1>3, <2>2, <2>3 DEF Drop, TypeOK
<1>4. CASE List(u)
  <2>1. user' \in [Users -> UserType] /\ KeyOfUser'
    BY <1>4, UserStepped DEF List
  <2> QED BY <1>4, <2>1 DEF List, TypeOK, objects
<1>5. CASE CreateSecret(u)
  <2> DEFINE n == NameOf(u)
             e == [key |-> user[u].key, ver |-> user[u].ver]
             s == [secret[n] EXCEPT !.env = e]
  <2>1. user' \in [Users -> UserType] /\ KeyOfUser'
    BY <1>5, UserStepped DEF CreateSecret
  <2>2. n \in Names /\ secret[n] \in SecretType /\ e \in EnvType
    BY <1>0, <1>5 DEF CreateSecret, TypeOK, UserType, EnvType
  <2>3. s \in SecretType
    BY <2>2 DEF SecretType
  <2>4. secret' = secret \/ secret' = [secret EXCEPT ![n] = s]
    BY <1>5 DEF CreateSecret
  <2> HIDE DEF n, s
  <2>5. secret' \in [Names -> SecretType]
    BY <2>2, <2>3, <2>4 DEF TypeOK
  <2> QED BY <1>5, <2>1, <2>5 DEF CreateSecret, TypeOK
<1>6. CASE CreateCR(u)
  <2> DEFINE x == [NoCR EXCEPT !.uid = made + 1, !.ref = (user[u].ver # 0)]
             y == [user[u] EXCEPT !.pc = "wait", !.ver = 0]
  <2>1. made + 1 \in Uids /\ made' \in 0 .. MaxUid /\ NameOf(u) \in Names /\ user[u].key \in Keys
    BY <1>0, <1>6, ClusterAssumption DEF CreateCR, TypeOK, Uids
  <2>2. x \in CRType /\ x.uid # 0
    <3>1. /\ NoCR \in CRType /\ made + 1 \in Uids \cup {0} /\ made + 1 # 0
          /\ (user[u].ver # 0) \in BOOLEAN
      BY <2>1, NoObjects, ClusterAssumption DEF Uids
    <3> QED BY <3>1 DEF CRType, NoCR
  <2>3. y \in UserType /\ y.key \in Keys
    BY <1>0, <2>1 DEF UserType
  <2>4. cr' = [cr EXCEPT ![NameOf(u)] = x] /\ user' = [user EXCEPT ![u] = y]
    BY <1>6 DEF CreateCR
  <2> HIDE DEF x, y
  <2>5. user' \in [Users -> UserType] /\ KeyOfUser'
    BY <2>3, <2>4, UserWritten
  <2>6. cr' \in [Names -> CRType] /\ (\A m \in Names : cr'[m].uid = 0 => cr'[m] = NoCR)
    BY <2>1, <2>2, <2>4, CRWritten
  <2> QED BY <1>6, <2>1, <2>5, <2>6 DEF CreateCR, TypeOK
<1>7. CASE Wait(u)
  <2> DEFINE y == [user[u] EXCEPT !.pc = "dial", !.url = cr[NameOf(u)].url]
  <2>1. NameOf(u) \in Names /\ user[u].key \in Keys
    BY <1>0, <1>7 DEF Wait
  <2>2. cr[NameOf(u)].url \in Addr
    BY <2>1 DEF TypeOK, CRType
  <2>3. y \in UserType /\ y.key \in Keys
    BY <1>0, <2>1, <2>2 DEF UserType
  <2>4. user' = [user EXCEPT ![u] = y]
    BY <1>7 DEF Wait
  <2> HIDE DEF y
  <2>5. user' \in [Users -> UserType] /\ KeyOfUser'
    BY <2>3, <2>4, UserWritten
  <2> QED BY <1>7, <2>5 DEF Wait, TypeOK, objects
<1>8. CASE Store(u)
  <2>1. user' \in [Users -> UserType] /\ KeyOfUser'
    BY <1>8, NoObjects, UserWritten DEF Store, Away
  <2>2. urls' \in [Keys -> Addr]
    BY <1>0, <1>8 DEF Store, TypeOK, UserType
  <2>3. cr' \in [Names -> CRType] /\ (\A m \in Names : cr'[m].uid = 0 => cr'[m] = NoCR)
    <3>1. CASE cr' = cr
      BY <3>1 DEF TypeOK
    <3>2. CASE user[u].pc = "keep" /\ Touch(NameOf(u))
      BY <1>0, <3>2, TouchTypes
    <3> QED BY <1>8, <3>1, <3>2 DEF Store
  <2> QED BY <1>8, <2>1, <2>2, <2>3 DEF Store, TypeOK
<1>9. CASE GiveUp(u)
  <2>1. user' \in [Users -> UserType] /\ KeyOfUser'
    BY <1>9, NoObjects, UserWritten DEF GiveUp, Away
  <2> QED BY <1>9, <2>1 DEF GiveUp, TypeOK, objects
<1>10. CASE Dial(u)
  <2>1. user' \in [Users -> UserType] /\ KeyOfUser'
    BY <1>10, UserStepped DEF Dial
  <2> QED BY <1>10, <2>1 DEF Dial, TypeOK, objects
<1> QED BY <1>1, <1>2, <1>3, <1>4, <1>5, <1>6, <1>7, <1>8, <1>9, <1>10

LEMMA ManagerSteps ==
  ASSUME TypeOK, KeyOfUser, ManagerNext, op' = op
  PROVE  TypeOK' /\ KeyOfUser'
<1>0. 0 \in Addr
  BY DEF Addr
<1>1. ASSUME NEW k \in Keys, Gc(k) PROVE TypeOK' /\ KeyOfUser'
  BY <1>0, <1>1 DEF Gc, TypeOK, KeyOfUser, objects
<1>2. CASE RestartTarget
  <2>1. PICK ver \in Versions : StartRestart(ver)
    BY <1>2 DEF RestartTarget
  <2>2. Instances \subseteq Names
    BY DEF Instances
  <2> QED BY <2>1, <2>2 DEF StartRestart, TypeOK, KeyOfUser, objects
<1>3. ASSUME NEW n \in Names, RestartDelete(n) PROVE TypeOK' /\ KeyOfUser'
  <2>1. cr' \in [Names -> CRType] /\ (\A m \in Names : cr'[m].uid = 0 => cr'[m] = NoCR)
    BY <1>3, CRDeleted DEF RestartDelete
  <2>2. restart' \subseteq Names
    BY <1>3 DEF RestartDelete, TypeOK
  <2> QED BY <1>3, <2>1, <2>2 DEF RestartDelete, TypeOK, KeyOfUser
<1>4. CASE RestartClear
  BY <1>0, <1>4 DEF RestartClear, TypeOK, KeyOfUser, objects
<1>5. CASE GatewayRestart
  BY <1>0, <1>5, NoObjects DEF GatewayRestart, TypeOK, KeyOfUser, objects, Away
<1> QED BY <1>1, <1>2, <1>3, <1>4, <1>5, UserSteps DEF ManagerNext, RestartStep

LEMMA ClusterSteps ==
  ASSUME TypeOK, KeyOfUser, ClusterNext, UNCHANGED <<manager, op>>
  PROVE  TypeOK' /\ KeyOfUser'
<1>0. KeyOfUser'
  BY DEF KeyOfUser, manager
<1>1. ASSUME NEW n \in Names, Collect(n) PROVE TypeOK'
  BY <1>1, NoObjects DEF Collect, CollectSecret, CollectPod, CollectService, TypeOK, manager
<1>2. ASSUME NEW n \in Names, PodReady(n) PROVE TypeOK'
  <2> DEFINE e == IF pod[n].ref THEN secret[n].env ELSE NoEnv
             p == [pod[n] EXCEPT !.state = "ready", !.env = e]
  <2>1. e \in EnvType /\ pod[n] \in PodType
    BY NoObjects DEF TypeOK, SecretType
  <2>2. pod' = [pod EXCEPT ![n] = p]
    BY <1>2 DEF PodReady
  <2> HIDE DEF e
  <2>3. p \in PodType
    BY <2>1 DEF PodType, States
  <2> HIDE DEF p
  <2>4. pod' \in [Names -> PodType]
    BY <2>2, <2>3 DEF TypeOK
  <2>5. UNCHANGED <<cr, secret, svc, made>>
    BY <1>2 DEF PodReady
  <2> QED BY <2>4, <2>5 DEF TypeOK, manager
<1>3. ASSUME NEW n \in Names, PodFails(n) PROVE TypeOK'
  <2>1. PICK state \in {"pending", "failed"} :
          pod' = [pod EXCEPT ![n].state = state, ![n].env = NoEnv]
    BY <1>3 DEF PodFails
  <2> DEFINE p == [pod[n] EXCEPT !.state = state, !.env = NoEnv]
  <2>2. pod' = [pod EXCEPT ![n] = p]
    BY <2>1
  <2>3. p \in PodType
    BY NoObjects DEF TypeOK, PodType, States
  <2> HIDE DEF p
  <2>4. pod' \in [Names -> PodType]
    BY <2>2, <2>3 DEF TypeOK
  <2> QED BY <1>3, <2>4 DEF PodFails, TypeOK, manager
<1>4. CASE Tick
  <2>1. ASSUME NEW n \in Names PROVE cr'[n] \in CRType /\ (cr'[n].uid = 0 => cr'[n] = NoCR)
    <3>1. cr[n] \in CRType /\ (cr[n].uid = 0 => cr[n] = NoCR)
      BY DEF TypeOK
    <3>2. /\ Older(cr[n].life, MaxLifetime) \in -1 .. MaxLifetime + 1
          /\ Older(cr[n].idle, IdleTTL) \in -1 .. IdleTTL + 1
      <4>1. cr[n].life \in -1 .. MaxLifetime + 1 /\ cr[n].idle \in -1 .. IdleTTL + 1
        BY <3>1 DEF CRType
      <4> QED BY <4>1, Times
    <3>3. cr[n] = NoCR => /\ Older(cr[n].life, MaxLifetime) = Unset
                          /\ Older(cr[n].idle, IdleTTL) = Unset
      <4>1. NoCR.life = Unset /\ NoCR.idle = Unset
        BY DEF NoCR
      <4> QED BY <4>1, Times
    <3>4. cr'[n] = [cr[n] EXCEPT !.life = Older(cr[n].life, MaxLifetime),
                                 !.idle = Older(cr[n].idle, IdleTTL)]
      BY <1>4 DEF Tick
    <3>5. cr'[n] \in CRType /\ cr'[n].uid = cr[n].uid
      BY <3>1, <3>2, <3>4 DEF CRType
    <3>6. cr[n] = NoCR => cr'[n] = NoCR
      <4> SUFFICES ASSUME cr[n] = NoCR PROVE cr'[n] = NoCR
        OBVIOUS
      <4>1. cr'[n] = [NoCR EXCEPT !.life = Unset, !.idle = Unset]
        BY <3>3, <3>4
      <4>2. /\ cr'[n].uid = 0 /\ cr'[n].ref = FALSE /\ cr'[n].phase = "" /\ cr'[n].url = 0
            /\ cr'[n].life = Unset /\ cr'[n].idle = Unset /\ cr'[n].rv = FALSE
        BY <4>1 DEF NoCR
      <4> QED BY <3>5, <4>2, BlankCR
    <3> QED BY <3>1, <3>5, <3>6
  <2>2. cr' \in [Names -> CRType]
    <3>1. cr' = [n \in Names |-> cr'[n]]
      BY <1>4 DEF Tick
    <3>2. \A n \in Names : cr'[n] \in CRType
      BY <2>1
    <3> QED BY <3>1, <3>2
  <2> QED BY <1>0, <1>4, <2>1, <2>2 DEF Tick, TypeOK, manager
<1> QED BY <1>0, <1>1, <1>2, <1>3, <1>4 DEF ClusterNext

LEMMA OperatorSteps ==
  ASSUME TypeOK, KeyOfUser, OperatorNext, UNCHANGED manager
  PROVE  TypeOK' /\ KeyOfUser'
<1>0. KeyOfUser'
  BY DEF KeyOfUser, manager
<1> SUFFICES ASSUME NEW n \in Names, Reconcile(n) \/ Refused(n) PROVE TypeOK'
  BY <1>0 DEF OperatorNext
<1>1. cr[n] \in CRType /\ op[n] \in OpType /\ (cr[n].uid = 0 => cr[n] = NoCR)
  BY DEF TypeOK
<1>2. Done(n) => op' \in [Names -> OpType]
  BY NoObjects DEF Done, TypeOK
<1>3. ASSUME NEW pc \in {"pod", "service", "sync", "fail"}, Goto(n, pc)
      PROVE  op' \in [Names -> OpType]
  <2> DEFINE o == [op[n] EXCEPT !.pc = pc]
  <2>1. o \in OpType /\ op' = [op EXCEPT ![n] = o]
    BY <1>1, <1>3 DEF Goto, OpType
  <2> HIDE DEF o
  <2> QED BY <2>1 DEF TypeOK
<1>4. CASE Begin(n)
  <2>1. PICK pc \in {"delete", "secret", "pod"} :
          op' = [op EXCEPT ![n] = [pc |-> pc, uid |-> cr[n].uid, ref |-> cr[n].ref,
                                   seen |-> "pending"]]
    BY <1>4 DEF Begin
  <2> DEFINE x == [cr[n] EXCEPT !.rv = TRUE]
             o == [pc |-> pc, uid |-> cr[n].uid, ref |-> cr[n].ref, seen |-> "pending"]
  <2>2. x \in CRType /\ x.uid = cr[n].uid /\ o \in OpType
    BY <1>1 DEF CRType, OpType, States
  <2>3. cr' = [cr EXCEPT ![n] = x] /\ op' = [op EXCEPT ![n] = o] /\ x.uid # 0
    BY <1>4, <2>1, <2>2 DEF Begin
  <2> HIDE DEF x, o
  <2>4. op' \in [Names -> OpType]
    BY <2>2, <2>3 DEF TypeOK
  <2>5. cr' \in [Names -> CRType] /\ (\A m \in Names : cr'[m].uid = 0 => cr'[m] = NoCR)
    BY <2>2, <2>3, CRWritten
  <2> QED BY <1>4, <2>4, <2>5 DEF Begin, TypeOK, manager
<1>5. CASE EnsureSecret(n)
  <2> DEFINE s == [secret[n] EXCEPT !.owner = op[n].uid]
  <2>1. s \in SecretType
    BY <1>1 DEF TypeOK, OpType, SecretType
  <2>2. secret' = secret \/ secret' = [secret EXCEPT ![n] = s]
    BY <1>5 DEF EnsureSecret
  <2> HIDE DEF s
  <2>3. secret' \in [Names -> SecretType]
    BY <2>1, <2>2 DEF TypeOK
  <2>4. op' \in [Names -> OpType]
    BY <1>3, <1>5 DEF EnsureSecret
  <2> QED BY <1>5, <2>3, <2>4 DEF EnsureSecret, TypeOK, manager
<1>6. CASE EnsurePod(n)
  <2> DEFINE p == [NoPod EXCEPT !.owner = op[n].uid, !.ref = op[n].ref]
  <2>1. p \in PodType
    BY <1>1, NoObjects DEF OpType, PodType
  <2>2. pod' = pod \/ pod' = [pod EXCEPT ![n] = p]
    BY <1>6 DEF EnsurePod
  <2> HIDE DEF p
  <2>3. pod' \in [Names -> PodType]
    BY <2>1, <2>2 DEF TypeOK
  <2>4. PICK seen \in States : op' = [op EXCEPT ![n].pc = "service", ![n].seen = seen]
    <3>1. pod'[n].state \in States
      BY <2>3 DEF PodType
    <3> QED BY <1>6, <3>1 DEF EnsurePod
  <2> DEFINE o == [op[n] EXCEPT !.pc = "service", !.seen = seen]
  <2>5. o \in OpType /\ op' = [op EXCEPT ![n] = o]
    BY <1>1, <2>4 DEF OpType
  <2> HIDE DEF o
  <2>6. op' \in [Names -> OpType]
    BY <2>5 DEF TypeOK
  <2> QED BY <1>6, <2>3, <2>6 DEF EnsurePod, TypeOK, manager
<1>7. CASE EnsureService(n)
  <2>1. svc' \in [Names -> Uids \cup {0}]
    BY <1>1, <1>7 DEF EnsureService, TypeOK, OpType
  <2>2. op' \in [Names -> OpType]
    BY <1>3, <1>7 DEF EnsureService
  <2> QED BY <1>7, <2>1, <2>2 DEF EnsureService, TypeOK, manager
<1>8. CASE EnsureFails(n)
  <2>1. op' \in [Names -> OpType]
    BY <1>3, <1>8 DEF EnsureFails
  <2> QED BY <1>8, <2>1 DEF EnsureFails, TypeOK, manager, objects
<1>9. CASE Refused(n)
  <2> DEFINE x == [cr[n] EXCEPT !.rv = FALSE]
  <2>1. x \in CRType /\ x.uid = cr[n].uid
    BY <1>1 DEF CRType
  <2>2. x.uid = 0 => x = NoCR
    <3> SUFFICES ASSUME x.uid = 0 PROVE x = NoCR
      OBVIOUS
    <3>1. /\ x.ref = NoCR.ref /\ x.phase = NoCR.phase /\ x.url = NoCR.url
          /\ x.life = NoCR.life /\ x.idle = NoCR.idle /\ x.rv = FALSE
      BY <1>1, <2>1 DEF CRType
    <3> HIDE DEF x
    <3> QED BY <2>1, <3>1, BlankCR DEF NoCR
  <2>3. cr' = [cr EXCEPT ![n] = x]
    BY <1>9 DEF Refused
  <2> HIDE DEF x
  <2>4. cr' \in [Names -> CRType] /\ (\A m \in Names : cr'[m].uid = 0 => cr'[m] = NoCR)
    BY <2>1, <2>2, <2>3, CRWritten
  <2> QED BY <1>2, <1>9, <2>4 DEF Refused, TypeOK, manager
<1>10. CASE Delete(n)
  <2>1. cr' \in [Names -> CRType] /\ (\A m \in Names : cr'[m].uid = 0 => cr'[m] = NoCR)
    BY <1>10, CRDeleted DEF Delete
  <2> QED BY <1>2, <1>10, <2>1 DEF Delete, TypeOK, manager
<1>11. CASE SyncStatus(n) \/ FailStatus(n)
  <2>1. PICK x \in CRType : cr' = [cr EXCEPT ![n] = x] /\ (x.uid = 0 => x = NoCR)
    <3>1. Unwritten(n) => cr[n].uid # 0
      <4>1. ~NoCR.rv
        BY DEF NoCR
      <4> QED BY <1>1, <4>1, Zenon DEF Unwritten
    <3>2. CASE ~Unwritten(n)
      <4>1. cr = [cr EXCEPT ![n] = cr[n]]
        BY DEF TypeOK
      <4> QED BY <1>1, <1>11, <3>2, <4>1 DEF SyncStatus, SyncCR, FailStatus
    <3>3. CASE Unwritten(n)
      <4> DEFINE a(ph) == [cr[n] EXCEPT !.rv = FALSE, !.phase = ph, !.url = 0]
                 b(url) == [cr[n] EXCEPT !.rv = FALSE, !.phase = "Ready", !.url = url,
                              !.life = SinceNow(cr[n].life), !.idle = SinceNow(cr[n].idle)]
      <4>1. svc[n] \in Addr /\ Dns \in Addr /\ 0 \in Addr
        BY DEF TypeOK, Addr
      <4>2. /\ SinceNow(cr[n].life) \in -1 .. MaxLifetime + 1
            /\ SinceNow(cr[n].idle) \in -1 .. IdleTTL + 1
        <5>1. cr[n].life \in -1 .. MaxLifetime + 1 /\ cr[n].idle \in -1 .. IdleTTL + 1
          BY <1>1 DEF CRType
        <5> QED BY <5>1, Times DEF SinceNow
      <4>3. /\ a("Failed") \in CRType /\ a("") \in CRType
            /\ a("Failed").uid # 0 /\ a("").uid # 0
        BY <1>1, <3>1, <3>3, <4>1 DEF CRType
      <4>4. \A url \in {Dns} \cup ({svc[n]} \ {0}) : b(url) \in CRType /\ b(url).uid # 0
        BY <1>1, <3>1, <3>3, <4>1, <4>2 DEF CRType
      <4>5. \/ cr' = [cr EXCEPT ![n] = a("Failed")]
            \/ cr' = [cr EXCEPT ![n] = a("")]
            \/ \E url \in {Dns} \cup ({svc[n]} \ {0}) : cr' = [cr EXCEPT ![n] = b(url)]
        <5>1. CASE FailStatus(n)
          BY <3>3, <5>1 DEF FailStatus
        <5>2. CASE SyncStatus(n)
          <6>1. PICK url \in {Dns} \cup ({svc[n]} \ {0}) : SyncCR(n, url)
            BY <5>2 DEF SyncStatus
          <6>2. CASE op[n].seen = "ready"
            BY <3>3, <6>1, <6>2 DEF SyncCR
          <6>3. CASE op[n].seen # "ready"
            BY <3>3, <6>1, <6>3 DEF SyncCR
          <6> QED BY <6>2, <6>3
        <5> QED BY <1>11, <5>1, <5>2
      <4> HIDE DEF a, b
      <4> QED BY <4>3, <4>4, <4>5
    <3> QED BY <3>2, <3>3
  <2>2. cr' \in [Names -> CRType] /\ (\A m \in Names : cr'[m].uid = 0 => cr'[m] = NoCR)
    BY <2>1, CRWritten
  <2> QED BY <1>2, <1>11, <2>2 DEF SyncStatus, FailStatus, TypeOK, manager
<1> QED BY <1>4, <1>5, <1>6, <1>7, <1>8, <1>9, <1>10, <1>11 DEF Reconcile

LEMMA TypesStep ==
  ASSUME TypeOK, KeyOfUser, [Next]_vars
  PROVE  TypeOK' /\ KeyOfUser'
<1>1. CASE UNCHANGED vars
  BY <1>1 DEF vars, objects, manager, TypeOK, KeyOfUser
<1> QED BY <1>1, ManagerSteps, ClusterSteps, OperatorSteps DEF Next

-----------------------------------------------------------------------------
(* Isolation *)

\* Nothing but a goroutine of a key writes an environment into the secret of its
\* instance, and a container takes its environment from the secret of its name.
LEMMA EnvStep ==
  ASSUME TypeOK, KeyOfUser, SecretEnv, PodEnv, [Next]_vars
  PROVE  SecretEnv' /\ PodEnv'
<1>0. /\ secret \in [Names -> SecretType] /\ pod \in [Names -> PodType]
      /\ NoEnv.key = <<>> /\ NoSecret.env = NoEnv /\ NoPod.env = NoEnv
  BY DEF TypeOK, NoEnv, NoSecret, NoPod
<1>1. ASSUME \A n \in Names : secret'[n].env = secret[n].env \/ secret'[n].env = NoEnv,
             \A n \in Names : pod'[n].env \in {pod[n].env, NoEnv, secret[n].env}
      PROVE  SecretEnv' /\ PodEnv'
  BY <1>0, <1>1 DEF SecretEnv, PodEnv, Named
<1>2. ASSUME UNCHANGED <<secret, pod>> PROVE SecretEnv' /\ PodEnv'
  BY <1>2 DEF SecretEnv, PodEnv, Named
<1>3. ASSUME NEW u \in Users, CreateSecret(u) PROVE SecretEnv' /\ PodEnv'
  <2>1. user[u].key \in Keys /\ NameOf(u) = BuildCRName(user[u].key) /\ pod' = pod
    BY <1>3 DEF CreateSecret, KeyOfUser, NameOf
  <2>2. CASE secret' = secret
    BY <1>2, <2>1, <2>2
  <2>3. CASE secret' # secret
    <3>1. secret' = [secret EXCEPT ![NameOf(u)].env = [key |-> user[u].key, ver |-> user[u].ver]]
      BY <1>3, <2>3 DEF CreateSecret
    <3>2. ASSUME NEW n \in Names PROVE Named(secret'[n].env.key, n)
      <4>1. CASE n = NameOf(u)
        <5>1. secret'[n].env.key = user[u].key
          BY <1>0, <3>1, <4>1
        <5> QED BY <2>1, <4>1, <5>1 DEF Named
      <4>2. CASE n # NameOf(u)
        BY <1>0, <3>1, <4>2 DEF SecretEnv
      <4> QED BY <4>1, <4>2
    <3> QED BY <2>1, <3>2 DEF SecretEnv, PodEnv, Named
  <2> QED BY <2>2, <2>3
<1>4. ASSUME NEW n \in Names, PodReady(n) PROVE SecretEnv' /\ PodEnv'
  <2>1. secret' = secret /\ pod' = [pod EXCEPT ![n].state = "ready",
                             ![n].env = IF pod[n].ref THEN secret[n].env ELSE NoEnv]
    BY <1>4 DEF PodReady
  <2>2. \A m \in Names : pod'[m].env \in {pod[m].env, NoEnv, secret[m].env}
    BY <1>0, <2>1 DEF PodType
  <2> QED BY <1>1, <2>1, <2>2
<1>5. ASSUME NEW n \in Names, PodFails(n) PROVE SecretEnv' /\ PodEnv'
  <2>1. secret' = secret /\ \A m \in Names : pod'[m].env \in {pod[m].env, NoEnv, secret[m].env}
    BY <1>0, <1>5 DEF PodFails, PodType
  <2> QED BY <1>1, <2>1
<1>6. ASSUME NEW n \in Names, Collect(n) PROVE SecretEnv' /\ PodEnv'
  <2>1. \A m \in Names : /\ secret'[m] = secret[m] \/ secret'[m] = NoSecret
                         /\ pod'[m] = pod[m] \/ pod'[m] = NoPod
    BY <1>0, <1>6 DEF Collect, CollectSecret, CollectPod, CollectService
  <2> QED BY <1>0, <1>1, <2>1
<1>7. ASSUME NEW n \in Names, EnsureSecret(n) PROVE SecretEnv' /\ PodEnv'
  <2>1. pod' = pod /\ \A m \in Names : secret'[m].env = secret[m].env
    BY <1>0, <1>7 DEF EnsureSecret, SecretType
  <2> QED BY <1>1, <2>1
<1>8. ASSUME NEW n \in Names, EnsurePod(n) PROVE SecretEnv' /\ PodEnv'
  <2>1. /\ secret' = secret
        /\ pod' = pod \/ pod' = [pod EXCEPT ![n] = [NoPod EXCEPT !.owner = op[n].uid,
                                                                 !.ref = op[n].ref]]
    BY <1>8 DEF EnsurePod
  <2>2. \A m \in Names : pod'[m].env \in {pod[m].env, NoEnv, secret[m].env}
    BY <1>0, <2>1 DEF NoPod
  <2> QED BY <1>1, <2>1, <2>2
<1>9. CASE ManagerNext
  BY <1>2, <1>3, <1>9 DEF ManagerNext, Hit, Miss, Drop, List, CreateCR, Wait, Dial, Store, GiveUp,
     Gc, RestartTarget, StartRestart, RestartStep, RestartDelete, RestartClear, GatewayRestart,
     objects
<1>10. CASE OperatorNext
  BY <1>2, <1>7, <1>8, <1>10 DEF OperatorNext, Reconcile, Refused, Begin, EnsureService,
     EnsureFails, Delete, SyncStatus, FailStatus, objects
<1>11. CASE ClusterNext
  BY <1>2, <1>4, <1>5, <1>6, <1>11 DEF ClusterNext, Tick
<1>12. CASE UNCHANGED vars
  BY <1>2, <1>12 DEF vars, objects
<1> QED BY <1>9, <1>10, <1>11, <1>12 DEF Next

LEMMA PodEnvOwn == TypeOK /\ PodEnv => OwnEnv
<1> SUFFICES ASSUME TypeOK, PodEnv, NEW k \in Keys, pod[BuildCRName(k)].env.key # <<>>
             PROVE  /\ pod[BuildCRName(k)].env.key \in Keys
                    /\ SameStart(pod[BuildCRName(k)].env.key, k)
  BY DEF OwnEnv
<1>1. /\ pod[BuildCRName(k)].env.key \in Keys
      /\ BuildCRName(pod[BuildCRName(k)].env.key) = BuildCRName(k)
  BY NameOfKey DEF PodEnv, Named
<1> QED BY <1>1, NameShared

-----------------------------------------------------------------------------
(* The limit *)

Making == {u \in Users : user[u].pc \in {"secret", "create"}}

LEMMA Finite ==
  /\ IsFiniteSet(Instances) /\ IsFiniteSet(Making) /\ IsFiniteSet(Instances') /\ IsFiniteSet(Making')
  /\ Cardinality(Instances) \in Nat /\ Cardinality(Making) \in Nat
  /\ Cardinality(Instances') \in Nat /\ Cardinality(Making') \in Nat
  /\ Cardinality(Users) \in Nat /\ Cardinality(Users) > 0
<1>1. /\ Instances \in SUBSET Names /\ Instances' \in SUBSET Names
      /\ Making \in SUBSET Users /\ Making' \in SUBSET Users
  BY DEF Instances, Making
<1>2. IsFiniteSet(Names) /\ IsFiniteSet(Users) /\ Users # {}
  BY ClusterAssumption, ManagerAssumption
<1>3. /\ IsFiniteSet(Instances) /\ IsFiniteSet(Making)
      /\ IsFiniteSet(Instances') /\ IsFiniteSet(Making')
  BY <1>1, <1>2, FS_Subset
<1> QED BY <1>2, <1>3, FS_CardinalityType, FS_EmptySet

\* Fewer instances and no more goroutines about to make one.
LEMMA LimitKept ==
  ASSUME LimitOvershoot, Instances' \subseteq Instances, Making' \subseteq Making
  PROVE  LimitOvershoot'
<1>1. Cardinality(Instances') <= Cardinality(Instances) /\ Cardinality(Making') <= Cardinality(Making)
  BY Finite, FS_Subset
<1>2. MaxInstances \in Nat
  BY ManagerAssumption
<1> QED BY <1>1, <1>2, Finite DEF LimitOvershoot, Making

LEMMA LimitStep ==
  ASSUME TypeOK, KeyOfUser, LimitOvershoot, [Next]_vars
  PROVE  LimitOvershoot'
<1>0. MaxInstances \in Nat /\ cr \in [Names -> CRType] /\ user \in [Users -> UserType]
  BY ManagerAssumption DEF TypeOK
<1>1. ASSUME NEW u \in Users, List(u) PROVE LimitOvershoot'
  <2>1. Instances' = Instances /\ Cardinality(Instances) < MaxInstances
    BY <1>1 DEF List, Instances, objects
  <2>2. Cardinality(Making') <= Cardinality(Users)
    <3>1. Making' \in SUBSET Users /\ IsFiniteSet(Users)
      BY ManagerAssumption DEF Making
    <3> QED BY <3>1, FS_Subset
  <2> QED BY <1>0, <2>1, <2>2, Finite DEF LimitOvershoot, Making
<1>2. ASSUME NEW u \in Users, CreateCR(u) PROVE LimitOvershoot'
  <2>1. u \in Making /\ Making' = Making \ {u}
    BY <1>0, <1>2 DEF CreateCR, Making
  <2>2. Cardinality(Making') = Cardinality(Making) - 1
    BY <2>1, Finite, FS_RemoveElement
  <2>3. NameOf(u) \in Names /\ made + 1 # 0
    BY <1>2, NameTypes DEF CreateCR, TypeOK
  <2>4. Instances' = Instances \cup {NameOf(u)}
    <3>1. cr' = [cr EXCEPT ![NameOf(u)] = [NoCR EXCEPT !.uid = made + 1, !.ref = (user[u].ver # 0)]]
      BY <1>2 DEF CreateCR
    <3>2. cr'[NameOf(u)].uid = made + 1
      BY <1>0, <2>3, <3>1 DEF NoCR
    <3>3. \A n \in Names : n # NameOf(u) => cr'[n] = cr[n]
      BY <1>0, <3>1
    <3> QED BY <2>3, <3>2, <3>3 DEF Instances
  <2>5. Cardinality(Instances') <= Cardinality(Instances) + 1
    BY <2>4, Finite, FS_AddElement
  <2> QED BY <1>0, <2>2, <2>5, Finite DEF LimitOvershoot, Making
<1>3. ASSUME \A n \in Names : cr'[n].uid \in {cr[n].uid, 0},
             \A u \in Users : user'[u].pc \in {"secret", "create"} => user[u].pc \in {"secret", "create"}
      PROVE  LimitOvershoot'
  <2>1. Instances' \subseteq Instances /\ Making' \subseteq Making
    BY <1>3 DEF Instances, Making
  <2> QED BY <2>1, LimitKept
<1>4. NoCR.uid = 0 /\ Away.pc = "away"
  BY DEF NoCR, Away
<1>5. ASSUME NEW u \in Users,
             \/ \E k \in Keys : Hit(u, k) \/ Miss(u, k)
             \/ Drop(u) \/ CreateSecret(u) \/ Wait(u) \/ Dial(u) \/ Store(u) \/ GiveUp(u)
      PROVE  LimitOvershoot'
  <2>1. \A n \in Names : cr'[n].uid \in {cr[n].uid, 0}
    <3>1. \A n \in Names : Touch(n) => \A m \in Names : cr'[m].uid = cr[m].uid
      BY TouchTypes
    <3>2. \A k \in Keys : Hit(u, k) => \A m \in Names : cr'[m].uid = cr[m].uid
      BY <3>1, NameOfKey DEF Hit
    <3>3. Store(u) => \A m \in Names : cr'[m].uid = cr[m].uid
      BY <3>1, NameTypes DEF Store
    <3>4. cr' = cr \/ cr' = [cr EXCEPT ![NameOf(u)] = NoCR]
            \/ \A m \in Names : cr'[m].uid = cr[m].uid
      BY <1>5, <3>2, <3>3 DEF Miss, Drop, CreateSecret, Wait, Dial, GiveUp, objects
    <3> QED BY <1>0, <1>4, <3>4
  <2>2. \A v \in Users : user'[v].pc \in {"secret", "create"} => user[v].pc \in {"secret", "create"}
    BY <1>0, <1>4, <1>5 DEF Hit, Miss, Drop, CreateSecret, Wait, Dial, Store, GiveUp, Step,
       manager, UserType
  <2> QED BY <1>3, <2>1, <2>2
<1>6. CASE \/ \E k \in Keys : Gc(k)
          \/ RestartTarget \/ RestartStep \/ GatewayRestart
  <2>1. \A n \in Names : cr'[n].uid \in {cr[n].uid, 0}
    BY <1>0, <1>4, <1>6 DEF Gc, RestartTarget, StartRestart, RestartStep, RestartDelete, RestartClear,
                            GatewayRestart, objects
  <2>2. \A v \in Users : user'[v].pc \in {"secret", "create"} => user[v].pc \in {"secret", "create"}
    BY <1>4, <1>6 DEF Gc, RestartTarget, StartRestart, RestartStep, RestartDelete, RestartClear,
                      GatewayRestart
  <2> QED BY <1>3, <2>1, <2>2
<1>7. CASE OperatorNext /\ UNCHANGED manager
  <2>1. ASSUME NEW m \in Names, Reconcile(m) \/ Refused(m)
        PROVE  \A n \in Names : cr'[n].uid \in {cr[n].uid, 0}
    <3>1. CASE Delete(m)
      BY <1>0, <1>4, <3>1 DEF Delete
    <3>2. CASE Begin(m) \/ Refused(m)
      <4>1. PICK rv \in BOOLEAN : cr' = [cr EXCEPT ![m].rv = rv]
        BY <3>2 DEF Begin, Refused
      <4> QED BY <1>0, <4>1 DEF CRType
    <3>3. CASE FailStatus(m)
      BY <1>0, <3>3 DEF FailStatus, CRType
    <3>4. CASE SyncStatus(m)
      <4>1. cr[m] \in CRType
        BY <1>0
      <4>2. PICK url \in {Dns} \cup ({svc[m]} \ {0}) : SyncCR(m, url)
        BY <3>4 DEF SyncStatus
      <4>3. cr'[m].uid = cr[m].uid /\ \A n \in Names : n # m => cr'[n] = cr[n]
        BY <1>0, <4>1, <4>2 DEF SyncCR, CRType
      <4> QED BY <4>3
    <3>5. CASE EnsureSecret(m) \/ EnsurePod(m) \/ EnsureService(m) \/ EnsureFails(m)
      BY <3>5 DEF EnsureSecret, EnsurePod, EnsureService, EnsureFails, objects
    <3> QED BY <2>1, <3>1, <3>2, <3>3, <3>4, <3>5 DEF Reconcile
  <2> QED BY <1>3, <1>7, <2>1 DEF OperatorNext, manager
<1>8. CASE ClusterNext /\ UNCHANGED <<manager, op>>
  <2>1. \A n \in Names : cr'[n].uid = cr[n].uid
    BY <1>0, <1>8 DEF ClusterNext, Collect, CollectSecret, CollectPod, CollectService, PodReady, PodFails,
                      Tick, CRType
  <2> QED BY <1>3, <1>8, <2>1 DEF manager
<1>9. CASE UNCHANGED vars
  BY <1>3, <1>9 DEF vars, objects, manager
<1> QED BY <1>1, <1>2, <1>5, <1>6, <1>7, <1>8, <1>9 DEF Next, ManagerNext

-----------------------------------------------------------------------------
(* The theorems *)

LEMMA InitIInv == Init => IInv
<1> SUFFICES ASSUME Init PROVE IInv
  OBVIOUS
<1>1. TypeOK
  BY NoObjects, ClusterAssumption, ManagerAssumption
     DEF Init, ClusterInit, ManagerInit, OperatorInit, TypeOK, Addr
<1>2. KeyOfUser
  BY DEF Init, ManagerInit, KeyOfUser, Away
<1>3. SecretEnv /\ PodEnv
  BY DEF Init, ClusterInit, SecretEnv, PodEnv, Named, NoSecret, NoPod, NoEnv
<1>4. LimitOvershoot
  <2>1. Instances = {} /\ Making = {}
    BY DEF Init, ClusterInit, ManagerInit, Instances, Making, NoCR, Away
  <2>2. Cardinality(Instances) = 0 /\ Cardinality(Making) = 0
    BY <2>1, FS_EmptySet
  <2> QED BY <2>2, Finite, ManagerAssumption DEF LimitOvershoot, Making
<1> QED BY <1>1, <1>2, <1>3, <1>4 DEF IInv

THEOREM Invariance == Spec => []IInv
<1>1. IInv /\ [Next]_vars => IInv'
  BY TypesStep, EnvStep, LimitStep DEF IInv
<1> QED BY InitIInv, <1>1, PTL DEF Spec

\* Type correctness of gateway, operator and cluster; the status of an instance
\* that is gone is never written again.
THEOREM ClusterTypes == Spec => []TypeOK
BY Invariance, PTL DEF IInv

\* A pod runs with an environment that was resolved for the subject key it serves
\* or for one that buildCRName's cut makes of the same name, whatever is deleted,
\* recreated, adopted or collected in between.
THEOREM EnvOfKey == Spec => []OwnEnv
BY Invariance, PodEnvOwn, PTL DEF IInv

\* Initializations in flight exceed the limit by no more than the others of them.
THEOREM InstancesBounded == Spec => []LimitOvershoot
BY Invariance, PTL DEF IInv
=============================================================================
