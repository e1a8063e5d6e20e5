------------------------ MODULE SessionIdentity_Proofs ------------------------
(***************************************************************************)
(* Theorems about the identity a session acts under, for any identities,   *)
(* targets, requests, clients and policies.                                *)
(***************************************************************************)
EXTENDS SessionIdentity, FiniteSetTheorems, TLAPS

TaskPCs  == {"none", "auth", "auth2", "make", "make2", "connect", "set", "send", "done"}
TaskType == [pc : TaskPCs, id : ReadIds, client : Clients \cup {NoClient}, old : BOOLEAN]

ReqType == [pc : {"idle", "check", "recycle", "busy"}, kind : {"init", "call"}, jwt : Ids]

\* What a goroutine that no recycle overtook knows: it works for a request
\* under way, what it read is the session's identity, the target is allowed,
\* and a call's token agrees with the session.
TaskKnows(r, t) ==
  /\ Active(r, t) => req[r].pc = "busy"
  /\ Active(r, t) /\ ~task[r][t].old =>
       /\ task[r][t].pc = "auth2" => task[r][t].id.role = ident.role
       /\ task[r][t].pc \in {"make", "make2", "connect", "set", "send"} =>
            task[r][t].id = ident /\ <<ident, t>> \in Allowed
       /\ req[r].kind = "call" => ~NeedsRecycle(ident, req[r].jwt)
       /\ task[r][t].pc = "send" => req[r].kind = "call"

TaskInv == \A r \in Reqs, t \in Targets : TaskKnows(r, t)

IInv == TypeOK /\ TaskInv /\ FreshClientsMatch

LEMMA IdsAreRead == /\ \A i \in Ids : i \in ReadIds
                    /\ (CHOOSE i \in Ids : TRUE) \in Ids
<1>1. (CHOOSE i \in Ids : TRUE) \in Ids
  BY IdentityAssumption
<1>2. \A i \in Ids : [role |-> i.role, groups |-> i.groups] \in ReadIds
  BY DEF ReadIds
<1> QED BY <1>1, <1>2, IdentityAssumption

\* Reading the groups of the session completes the role read before.
LEMMA ReadWhole ==
  ASSUME NEW i \in Ids, NEW x \in ReadIds
  PROVE  /\ [x EXCEPT !.groups = i.groups] \in ReadIds
         /\ [x EXCEPT !.role = i.role] \in ReadIds
         /\ [x EXCEPT !.role = i.role].role = i.role
         /\ x.role = i.role => [x EXCEPT !.groups = i.groups] = i
         /\ x = i => [x EXCEPT !.role = i.role] = i
<1>1. i = [role |-> i.role, groups |-> i.groups]
  BY IdentityAssumption
<1>2. x = [role |-> x.role, groups |-> x.groups]
  BY DEF ReadIds
<1>3. [x EXCEPT !.groups = i.groups] = [role |-> x.role, groups |-> i.groups]
  BY <1>2
<1>4. [x EXCEPT !.role = i.role] = [role |-> i.role, groups |-> x.groups]
  BY <1>2
<1>5. x.role \in {j.role : j \in Ids} /\ x.groups \in {j.groups : j \in Ids}
  BY DEF ReadIds
<1> QED BY <1>1, <1>2, <1>3, <1>4, <1>5 DEF ReadIds

\* Replacing one goroutine's record leaves the others alone.
LEMMA TaskUpdate ==
  ASSUME task \in [Reqs -> [Targets -> TaskType]], NEW r \in Reqs, NEW t \in Targets,
         NEW v \in TaskType, task' = [task EXCEPT ![r][t] = v]
  PROVE  /\ task' \in [Reqs -> [Targets -> TaskType]]
         /\ task'[r][t] = v
         /\ \A q \in Reqs, u \in Targets : (q # r \/ u # t) => task'[q][u] = task[q][u]
OBVIOUS

\* Moving one request on leaves the others and its token alone.
LEMMA ReqUpdate ==
  ASSUME req \in [Reqs -> ReqType], NEW r \in Reqs,
         NEW pc \in {"idle", "check", "recycle", "busy"}, req' = [req EXCEPT ![r].pc = pc]
  PROVE  /\ req' \in [Reqs -> ReqType]
         /\ \A q \in Reqs : /\ q # r => req'[q] = req[q]
                            /\ req'[q].kind = req[q].kind /\ req'[q].jwt = req[q].jwt
         /\ req'[r].pc = pc
BY DEF ReqType

LEMMA TypesOf ==
  TypeOK <=> /\ ident \in Ids /\ dbId \in Ids /\ tokens \subseteq Ids
             /\ clients \in [Targets -> Clients \cup {NoClient}]
             /\ open \subseteq Clients /\ stale \subseteq Targets
             /\ cred \in [Targets -> ReadIds]
             /\ req \in [Reqs -> ReqType] /\ task \in [Reqs -> [Targets -> TaskType]]
             /\ \A r \in Reqs, t \in Targets :
                  task[r][t].client # NoClient <=> task[r][t].pc \in {"connect", "set"}
             /\ api \in [pc : {"idle", "loaded"}, id : Ids]
             /\ changes \in 0 .. Changes
BY DEF TypeOK, ReqType, TaskType, TaskPCs

LEMMA InitIInv == Init => IInv
<1> SUFFICES ASSUME Init PROVE IInv
  OBVIOUS
<1>1. NoTask \in TaskType /\ NoReq.jwt \in Ids
  BY IdsAreRead DEF NoTask, NoReq, TaskType, TaskPCs
<1>2. TypeOK
  BY <1>1, IdsAreRead, IdentityAssumption DEF Init, TypeOK, NoTask, NoReq, TaskType, TaskPCs
<1>3. TaskInv
  BY DEF Init, TaskInv, TaskKnows, Active, NoTask
<1>4. FreshClientsMatch
  BY DEF Init, FreshClientsMatch
<1> QED BY <1>2, <1>3, <1>4 DEF IInv

-----------------------------------------------------------------------------
(* Recycles *)

LEMMA RecycleKeeps ==
  ASSUME IInv, NEW i \in Ids, RecycleTo(i),
         \A r \in Reqs : req'[r] = req[r] \/ (req[r].pc # "busy" /\ req'[r] = NoReq),
         req' \in [Reqs -> ReqType],
         api' \in [pc : {"idle", "loaded"}, id : Ids],
         UNCHANGED <<dbId, tokens, changes>>
  PROVE  IInv'
<1>0. TypeOK /\ TaskInv
  BY DEF IInv
<1>1. /\ task' \in [Reqs -> [Targets -> TaskType]]
      /\ \A r \in Reqs, t \in Targets :
           /\ task'[r][t].pc = task[r][t].pc
           /\ task'[r][t].client = task[r][t].client
           /\ task'[r][t].old = Active(r, t)
  <2>1. \A r \in Reqs, t \in Targets : Active(r, t) \in BOOLEAN
    BY DEF Active
  <2>2. \A x \in TaskType, b \in BOOLEAN :
           /\ [x EXCEPT !.old = b] \in TaskType
           /\ [x EXCEPT !.old = b].pc = x.pc
           /\ [x EXCEPT !.old = b].client = x.client /\ [x EXCEPT !.old = b].old = b
    BY DEF TaskType
  <2>3. \A r \in Reqs, t \in Targets : task[r][t] \in TaskType
    BY <1>0, TypesOf
  <2>4. task' = [r \in Reqs |-> [t \in Targets |-> [task[r][t] EXCEPT !.old = Active(r, t)]]]
    BY DEF RecycleTo
  <2>5. \A r \in Reqs, t \in Targets : task'[r][t] = [task[r][t] EXCEPT !.old = Active(r, t)]
    BY <2>4
  <2>6. \A r \in Reqs, t \in Targets : [task[r][t] EXCEPT !.old = Active(r, t)] \in TaskType
    BY <2>1, <2>2, <2>3
  <2>7. task' \in [Reqs -> [Targets -> TaskType]]
    BY <2>4, <2>6
  <2>8. ASSUME NEW r \in Reqs, NEW t \in Targets
        PROVE  /\ task'[r][t].pc = task[r][t].pc
               /\ task'[r][t].client = task[r][t].client
               /\ task'[r][t].old = Active(r, t)
    <3>1. Active(r, t) \in BOOLEAN /\ task[r][t] \in TaskType
      BY <2>1, <2>3
    <3>2. task'[r][t] = [task[r][t] EXCEPT !.old = Active(r, t)]
      BY <2>5
    <3> QED BY <2>2, <3>1, <3>2
  <2> QED BY <2>7, <2>8
<1>2. TypeOK'
  <2>1. /\ ident' = i /\ open' \subseteq open /\ stale' = {}
        /\ clients' = [t \in Targets |-> NoClient] /\ cred' = [t \in Targets |-> i]
    BY DEF RecycleTo
  <2>2. i \in ReadIds
    BY IdsAreRead
  <2> QED BY <1>0, <1>1, <2>1, <2>2, TypesOf DEF TypeOK, ReqType, TaskType, TaskPCs
<1>3. TaskInv'
  <2> SUFFICES ASSUME NEW r \in Reqs, NEW t \in Targets PROVE TaskKnows(r, t)'
    BY DEF TaskInv
  <2>1. Active(r, t)' <=> Active(r, t)
    BY <1>1 DEF Active
  <2>2. Active(r, t) => req[r].pc = "busy"
    BY <1>0 DEF TaskInv, TaskKnows
  <2>3. Active(r, t) => task'[r][t].old
    BY <1>1
  <2>4. Active(r, t) => req'[r].pc = "busy"
    BY <2>2
  <2> QED BY <2>1, <2>3, <2>4 DEF TaskKnows
<1>4. FreshClientsMatch'
  BY DEF RecycleTo, FreshClientsMatch
<1> QED BY <1>2, <1>3, <1>4 DEF IInv

-----------------------------------------------------------------------------
(* Steps outside the goroutines *)

LEMMA QuietSteps ==
  ASSUME IInv, (\E i \in Ids : UpdateUser(i)) \/ Login \/ ApiLoad \/ UNCHANGED vars
  PROVE  IInv'
<1>1. TypeOK'
  BY IdentityAssumption DEF IInv, TypeOK, UpdateUser, Login, ApiLoad, vars
<1>2. UNCHANGED <<ident, clients, cred, stale, req, task>>
  BY DEF UpdateUser, Login, ApiLoad, vars
<1>3. FreshClientsMatch'
  BY <1>2 DEF IInv, FreshClientsMatch
<1>4. TaskInv'
  <2> SUFFICES ASSUME NEW r \in Reqs, NEW t \in Targets PROVE TaskKnows(r, t)'
    BY DEF TaskInv
  <2>1. TaskKnows(r, t)
    BY DEF IInv, TaskInv
  <2>2. /\ NeedsRecycle(ident, req[r].jwt)' <=> NeedsRecycle(ident, req[r].jwt)
        /\ Active(r, t)' <=> Active(r, t)
    BY <1>2 DEF NeedsRecycle, GroupSet, Active
  <2> QED BY <1>2, <2>1, <2>2 DEF TaskKnows
<1> QED BY <1>1, <1>3, <1>4 DEF IInv

LEMMA RecycleSteps ==
  ASSUME IInv, ApiRecycle \/ \E r \in Reqs : Recycle(r)
  PROVE  IInv'
<1>0. TypeOK /\ NoReq \in ReqType /\ NoReq.pc = "idle"
  BY IdsAreRead DEF IInv, NoReq, ReqType
<1>1. CASE ApiRecycle
  <2>1. /\ api.id \in Ids /\ RecycleTo(api.id)
        /\ api' \in [pc : {"idle", "loaded"}, id : Ids]
        /\ req' = req /\ req \in [Reqs -> ReqType] /\ UNCHANGED <<dbId, tokens, changes>>
    BY <1>0, <1>1, TypesOf DEF ApiRecycle
  <2> QED BY <2>1, RecycleKeeps
<1>2. ASSUME NEW r \in Reqs, Recycle(r) PROVE IInv'
  <2>0. req \in [Reqs -> ReqType] /\ api \in [pc : {"idle", "loaded"}, id : Ids]
    BY <1>0, TypesOf
  <2>1. /\ req[r].jwt \in Ids /\ RecycleTo(req[r].jwt)
        /\ req' = [req EXCEPT ![r] = NoReq] /\ req[r].pc # "busy"
        /\ UNCHANGED <<dbId, tokens, api, changes>>
    BY <1>2, <2>0 DEF Recycle, ReqType
  <2>2. /\ \A q \in Reqs : req'[q] = req[q] \/ (req[q].pc # "busy" /\ req'[q] = NoReq)
        /\ req' \in [Reqs -> ReqType]
    BY <1>0, <2>0, <2>1
  <2> QED BY <2>0, <2>1, <2>2, RecycleKeeps
<1> QED BY <1>1, <1>2

\* A request that starts, ends or moves on with the goroutines it has.
LEMMA RequestSteps ==
  ASSUME IInv, NEW r \in Reqs,
         \/ \E j \in Ids : ArriveInit(r, j) \/ ArriveCall(r, j)
         \/ CheckFails(r) \/ Finish(r)
         \/ \E t \in Targets : CheckOk(r, t)
  PROVE  IInv'
<1> DEFINE auth == [NoTask EXCEPT !.pc = "auth"]
<1>0. /\ NoTask \in TaskType /\ NoTask.pc = "none" /\ NoTask.client = NoClient
      /\ auth \in TaskType /\ auth.pc = "auth" /\ auth.client = NoClient
      /\ NoReq \in ReqType
  BY IdsAreRead DEF NoTask, NoReq, TaskType, TaskPCs, ReqType
<1>1. /\ TypeOK /\ TaskInv /\ FreshClientsMatch
      /\ req \in [Reqs -> ReqType] /\ task \in [Reqs -> [Targets -> TaskType]]
  BY TypesOf DEF IInv
<1> HIDE DEF auth
<1>2. ASSUME /\ UNCHANGED <<ident, clients, open, cred, stale, dbId, tokens, api, changes>>
             /\ req' \in [Reqs -> ReqType]
             /\ task' \in [Reqs -> [Targets -> TaskType]]
             /\ \A q \in Reqs : q # r => req'[q] = req[q]
             /\ \A q \in Reqs, u \in Targets :
                  \/ /\ task'[q][u] = task[q][u]
                     /\ Active(q, u) => /\ req'[q].pc = "busy"
                                        /\ req'[q].kind = req[q].kind
                                        /\ req'[q].jwt = req[q].jwt
                  \/ task'[q][u] = NoTask
                  \/ /\ task'[q][u] = auth /\ req'[q].pc = "busy"
                     /\ req'[q].kind = "call" => ~NeedsRecycle(ident, req'[q].jwt)
      PROVE  IInv'
  <2>1. TypeOK'
    <3>1. \A q \in Reqs, u \in Targets :
            task'[q][u].client # NoClient <=> task'[q][u].pc \in {"connect", "set"}
      <4> SUFFICES ASSUME NEW q \in Reqs, NEW u \in Targets
                   PROVE  task'[q][u].client # NoClient <=> task'[q][u].pc \in {"connect", "set"}
        OBVIOUS
      <4>1. task[q][u].client # NoClient <=> task[q][u].pc \in {"connect", "set"}
        BY <1>1 DEF TypeOK
      <4>2. task'[q][u] \in {task[q][u], NoTask, auth}
        BY <1>2
      <4> QED BY <1>0, <4>1, <4>2
    <3> QED BY <1>1, <1>2, <3>1 DEF TypeOK, ReqType, TaskType, TaskPCs
  <2>2. TaskInv'
    <3> SUFFICES ASSUME NEW q \in Reqs, NEW u \in Targets PROVE TaskKnows(q, u)'
      BY DEF TaskInv
    <3>1. CASE task'[q][u] = task[q][u] /\ (Active(q, u) => /\ req'[q].pc = "busy"
                                                          /\ req'[q].kind = req[q].kind
                                                          /\ req'[q].jwt = req[q].jwt)
      <4>1. TaskKnows(q, u) /\ ident' = ident
        BY <1>1, <1>2 DEF TaskInv
      <4>2. Active(q, u)' <=> Active(q, u)
        BY <3>1 DEF Active
      <4>3. Active(q, u) => (NeedsRecycle(ident, req[q].jwt)' <=> NeedsRecycle(ident, req[q].jwt))
        BY <3>1, <4>1 DEF NeedsRecycle, GroupSet
      <4> QED BY <3>1, <4>1, <4>2, <4>3 DEF TaskKnows
    <3>2. CASE task'[q][u] = NoTask
      BY <1>0, <3>2 DEF TaskKnows, Active
    <3>3. CASE /\ task'[q][u] = auth /\ req'[q].pc = "busy"
               /\ req'[q].kind = "call" => ~NeedsRecycle(ident, req'[q].jwt)
      BY <1>0, <1>2, <3>3 DEF TaskKnows, Active, NeedsRecycle, GroupSet
    <3> QED BY <1>2, <3>1, <3>2, <3>3
  <2> QED BY <1>1, <1>2, <2>1, <2>2 DEF IInv, FreshClientsMatch
<1>3. ASSUME NEW j \in Ids, ArriveInit(r, j) PROVE IInv'
  <2>1. /\ req' = [req EXCEPT ![r] = [pc |-> "busy", kind |-> "init", jwt |-> j]]
        /\ task' = [task EXCEPT ![r] = [t \in Targets |-> auth]]
        /\ UNCHANGED <<ident, clients, open, cred, stale, dbId, tokens, api, changes>>
    BY <1>3 DEF ArriveInit, auth
  <2>2. [pc |-> "busy", kind |-> "init", jwt |-> j] \in ReqType
    BY DEF ReqType
  <2>3. /\ req' \in [Reqs -> ReqType] /\ req'[r] = [pc |-> "busy", kind |-> "init", jwt |-> j]
        /\ \A q \in Reqs : q # r => req'[q] = req[q]
    BY <1>1, <2>1, <2>2
  <2>4. /\ task' \in [Reqs -> [Targets -> TaskType]]
        /\ \A q \in Reqs : q # r => task'[q] = task[q]
        /\ \A u \in Targets : task'[r][u] = auth
    BY <1>0, <1>1, <2>1
  <2>5. \A q \in Reqs, u \in Targets : Active(q, u) => req[q].pc = "busy"
    BY <1>1 DEF TaskInv, TaskKnows
  <2> QED BY <1>2, <2>1, <2>3, <2>4, <2>5
<1>4. ASSUME NEW j \in Ids, ArriveCall(r, j) PROVE IInv'
  <2>1. /\ req' = [req EXCEPT ![r] = [pc |-> "check", kind |-> "call", jwt |-> j]]
        /\ task' = task /\ req[r].pc = "idle"
        /\ UNCHANGED <<ident, clients, open, cred, stale, dbId, tokens, api, changes>>
    BY <1>4 DEF ArriveCall
  <2>2. [pc |-> "check", kind |-> "call", jwt |-> j] \in ReqType
    BY DEF ReqType
  <2>3. req' \in [Reqs -> ReqType] /\ \A q \in Reqs : q # r => req'[q] = req[q]
    BY <1>1, <2>1, <2>2
  <2>4. \A q \in Reqs, u \in Targets : Active(q, u) => req[q].pc = "busy"
    BY <1>1 DEF TaskInv, TaskKnows
  <2> QED BY <1>1, <1>2, <2>1, <2>3, <2>4
<1>5. CASE CheckFails(r)
  <2>1. /\ req' = [req EXCEPT ![r].pc = "recycle"] /\ task' = task /\ req[r].pc = "check"
        /\ UNCHANGED <<ident, clients, open, cred, stale, dbId, tokens, api, changes>>
    BY <1>5 DEF CheckFails
  <2>2. \A q \in Reqs, u \in Targets : Active(q, u) => req[q].pc = "busy"
    BY <1>1 DEF TaskInv, TaskKnows
  <2>3. req' \in [Reqs -> ReqType] /\ \A q \in Reqs : q # r => req'[q] = req[q]
    BY <1>1, <2>1, ReqUpdate
  <2> QED BY <1>1, <1>2, <2>1, <2>2, <2>3
<1>6. CASE Finish(r)
  <2>1. /\ req' = [req EXCEPT ![r] = NoReq]
        /\ task' = [task EXCEPT ![r] = [t \in Targets |-> NoTask]]
        /\ UNCHANGED <<ident, clients, open, cred, stale, dbId, tokens, api, changes>>
    BY <1>6 DEF Finish
  <2>2. \A q \in Reqs, u \in Targets : Active(q, u) => req[q].pc = "busy"
    BY <1>1 DEF TaskInv, TaskKnows
  <2>3. /\ req' \in [Reqs -> ReqType] /\ \A q \in Reqs : q # r => req'[q] = req[q]
        /\ task' \in [Reqs -> [Targets -> TaskType]]
        /\ \A q \in Reqs : q # r => task'[q] = task[q]
        /\ \A u \in Targets : task'[r][u] = NoTask
    BY <1>0, <1>1, <2>1
  <2> QED BY <1>2, <2>1, <2>2, <2>3
<1>7. ASSUME NEW t \in Targets, CheckOk(r, t) PROVE IInv'
  <2>1. /\ req' = [req EXCEPT ![r].pc = "busy"] /\ req[r].pc = "check"
        /\ task' = [task EXCEPT ![r][t] = auth]
        /\ ~NeedsRecycle(ident, req[r].jwt)
        /\ UNCHANGED <<ident, clients, open, cred, stale, dbId, tokens, api, changes>>
    BY <1>7 DEF CheckOk, auth
  <2>2. /\ req' \in [Reqs -> ReqType] /\ req'[r].pc = "busy"
        /\ \A q \in Reqs : /\ q # r => req'[q] = req[q]
                           /\ req'[q].kind = req[q].kind /\ req'[q].jwt = req[q].jwt
    BY <1>1, <2>1, ReqUpdate
  <2>3. /\ task' \in [Reqs -> [Targets -> TaskType]] /\ task'[r][t] = auth
        /\ \A q \in Reqs, u \in Targets : (q # r \/ u # t) => task'[q][u] = task[q][u]
    BY <1>0, <1>1, <2>1, TaskUpdate
  <2>4. \A q \in Reqs, u \in Targets : Active(q, u) => req[q].pc = "busy"
    BY <1>1 DEF TaskInv, TaskKnows
  <2> QED BY <1>2, <2>1, <2>2, <2>3, <2>4
<1> QED BY <1>3, <1>4, <1>5, <1>6, <1>7

-----------------------------------------------------------------------------
(* The goroutines *)

\* What is left to show when one goroutine's record is replaced: its type,
\* that it holds a client when it should, and what it knows.
LEMMA GoroutineStep ==
  ASSUME IInv, NEW r \in Reqs, NEW t \in Targets, NEW v \in TaskType,
         task' = [task EXCEPT ![r][t] = v],
         UNCHANGED <<ident, req, dbId, tokens, api, changes>>,
         open' \subseteq Clients, stale' \subseteq Targets,
         clients' \in [Targets -> Clients \cup {NoClient}], cred' \in [Targets -> ReadIds],
         FreshClientsMatch',
         v.client # NoClient <=> v.pc \in {"connect", "set"},
         TaskKnows(r, t)'
  PROVE  IInv'
<1>1. /\ TypeOK /\ TaskInv /\ req \in [Reqs -> ReqType]
      /\ task \in [Reqs -> [Targets -> TaskType]]
  BY TypesOf DEF IInv
<1>2. /\ task' \in [Reqs -> [Targets -> TaskType]] /\ task'[r][t] = v
      /\ \A q \in Reqs, u \in Targets : (q # r \/ u # t) => task'[q][u] = task[q][u]
  BY <1>1, TaskUpdate
<1>3. \A q \in Reqs, u \in Targets :
        task'[q][u].client # NoClient <=> task'[q][u].pc \in {"connect", "set"}
  <2> SUFFICES ASSUME NEW q \in Reqs, NEW u \in Targets
               PROVE  task'[q][u].client # NoClient <=> task'[q][u].pc \in {"connect", "set"}
    OBVIOUS
  <2>1. task[q][u].client # NoClient <=> task[q][u].pc \in {"connect", "set"}
    BY <1>1 DEF TypeOK
  <2> QED BY <1>2, <2>1
<1>4. TypeOK'
  BY <1>1, <1>2, <1>3 DEF TypeOK, ReqType, TaskType, TaskPCs
<1>5. TaskInv'
  <2> SUFFICES ASSUME NEW q \in Reqs, NEW u \in Targets, q # r \/ u # t
               PROVE  TaskKnows(q, u)'
    BY DEF TaskInv
  <2>1. TaskKnows(q, u) /\ task'[q][u] = task[q][u]
    BY <1>1, <1>2 DEF TaskInv
  <2>2. /\ NeedsRecycle(ident, req[q].jwt)' <=> NeedsRecycle(ident, req[q].jwt)
        /\ Active(q, u)' <=> Active(q, u)
    BY <2>1 DEF NeedsRecycle, GroupSet, Active
  <2> QED BY <2>1, <2>2 DEF TaskKnows
<1> QED BY <1>4, <1>5 DEF IInv

LEMMA TaskSteps ==
  ASSUME IInv, NEW r \in Reqs, NEW t \in Targets, TaskStep(r, t)
  PROVE  IInv'
<1>1. /\ TypeOK /\ TaskInv /\ FreshClientsMatch
      /\ task \in [Reqs -> [Targets -> TaskType]] /\ task[r][t] \in TaskType
      /\ ident \in Ids /\ req \in [Reqs -> ReqType]
      /\ open \subseteq Clients /\ stale \subseteq Targets
      /\ clients \in [Targets -> Clients \cup {NoClient}] /\ cred \in [Targets -> ReadIds]
  BY TypesOf DEF IInv
<1> DEFINE x == task[r][t]
           g == [x.id EXCEPT !.groups = ident.groups]
<1>2. /\ TaskKnows(r, t)
      /\ x.client # NoClient <=> x.pc \in {"connect", "set"}
      /\ x.id \in ReadIds /\ x.client \in Clients \cup {NoClient} /\ x.old \in BOOLEAN
  BY <1>1 DEF TaskInv, TypeOK, TaskType
<1>3. /\ g \in ReadIds
      /\ x.id.role = ident.role => g = ident
      /\ x.id = ident => g = ident
  <2>1. \A i \in Ids, y \in ReadIds :
          /\ [y EXCEPT !.groups = i.groups] \in ReadIds
          /\ y.role = i.role => [y EXCEPT !.groups = i.groups] = i
    BY ReadWhole
  <2> QED BY <1>1, <1>2, <2>1
<1>4. Done \in TaskType /\ Done.pc = "done" /\ Done.client = NoClient
  BY IdsAreRead DEF Done, NoTask, TaskType, TaskPCs
\* The record may change as long as the goroutine knows no more than before.
<1>5. ASSUME NEW v \in TaskType, task' = [task EXCEPT ![r][t] = v],
             UNCHANGED <<ident, req>>
      PROVE  /\ v.pc \in {"none", "done"} => TaskKnows(r, t)'
             /\ (/\ Active(r, t) /\ v.old = x.old
                 /\ ~v.old => /\ v.pc = "auth2" => v.id.role = ident.role
                              /\ v.pc \in {"make", "make2", "connect", "set", "send"} =>
                                   v.id = ident /\ <<ident, t>> \in Allowed
                              /\ v.pc = "send" => req[r].kind = "call")
                => TaskKnows(r, t)'
  <2>1. task'[r][t] = v
    BY <1>1, <1>5, TaskUpdate
  <2>2. NeedsRecycle(ident, req[r].jwt)' <=> NeedsRecycle(ident, req[r].jwt)
    BY <1>5 DEF NeedsRecycle, GroupSet
  <2> QED BY <1>2, <1>5, <2>1, <2>2 DEF TaskKnows, Active
<1>6. clients' = clients /\ cred' = cred /\ stale' = stale /\ ident' = ident =>
        FreshClientsMatch'
  BY <1>1 DEF FreshClientsMatch
<1>7. CASE ReadRole(r, t)
  <2> DEFINE v(pc) == [x EXCEPT !.pc = pc, !.id.role = ident.role]
  <2>1. /\ [x.id EXCEPT !.role = ident.role] \in ReadIds
        /\ [x.id EXCEPT !.role = ident.role].role = ident.role
        /\ x.id = ident => [x.id EXCEPT !.role = ident.role] = ident
    BY <1>1, <1>2, ReadWhole
  <2>2. PICK pc \in {"auth2", "make2"} :
          /\ task' = [task EXCEPT ![r][t] = v(pc)]
          /\ pc = "auth2" => x.pc = "auth"
          /\ pc = "make2" => x.pc = "make"
    BY <1>7 DEF ReadRole
  <2>3. /\ v(pc) \in TaskType /\ v(pc).pc = pc /\ v(pc).client = x.client /\ v(pc).old = x.old
        /\ v(pc).id = [x.id EXCEPT !.role = ident.role]
    BY <1>1, <2>1 DEF TaskType, TaskPCs
  <2>4. UNCHANGED <<ident, clients, open, cred, stale, req, dbId, tokens, api, changes>>
    BY <1>7 DEF ReadRole
  <2>5. Active(r, t) /\ (x.pc = "make" /\ ~x.old => x.id = ident /\ <<ident, t>> \in Allowed)
    BY <1>2, <2>2 DEF Active, TaskKnows
  <2> HIDE DEF v
  <2>6. TaskKnows(r, t)'
    BY <1>5, <2>1, <2>2, <2>3, <2>4, <2>5
  <2>7. x.client = NoClient
    BY <1>2, <2>2
  <2> QED BY <1>1, <1>6, <2>2, <2>3, <2>4, <2>6, <2>7, GoroutineStep
<1>8. CASE Authorize(r, t)
  <2>1. UNCHANGED <<ident, clients, open, cred, stale, req, dbId, tokens, api, changes>>
    BY <1>8 DEF Authorize
  <2>2. CASE <<g, t>> \in Allowed
    <3>1. x.pc = "auth2" /\ Active(r, t) /\ (~x.old => g = ident)
      BY <1>2, <1>3, <1>8 DEF Authorize, Active, TaskKnows
    <3>2. ASSUME NEW w \in TaskType, task' = [task EXCEPT ![r][t] = w],
                 w.id = g, w.client = x.client, w.old = x.old, w.pc \in {"make", "send"},
                 w.pc = "send" => req[r].kind = "call"
          PROVE  IInv'
      <4> HIDE DEF g
      <4>1. ~w.old => w.id = ident /\ <<ident, t>> \in Allowed
        BY <2>2, <3>1, <3>2
      <4>2. TaskKnows(r, t)'
        BY <1>5, <2>1, <3>1, <3>2, <4>1
      <4>3. w.client # NoClient <=> w.pc \in {"connect", "set"}
        BY <1>2, <3>1, <3>2
      <4>4. FreshClientsMatch'
        BY <1>6, <2>1
      <4> QED BY <1>1, <2>1, <3>2, <4>2, <4>3, <4>4, GoroutineStep
    <3> DEFINE make == [x EXCEPT !.id = g, !.pc = "make"]
               send == [x EXCEPT !.id = g, !.pc = "send"]
    <3>3. /\ make \in TaskType /\ send \in TaskType /\ make.pc = "make" /\ send.pc = "send"
          /\ make.id = g /\ make.client = x.client /\ make.old = x.old
          /\ send.id = g /\ send.client = x.client /\ send.old = x.old
      BY <1>1, <1>3 DEF TaskType, TaskPCs
    <3>4. \/ req[r].kind = "init" /\ task' = [task EXCEPT ![r][t] = make]
          \/ req[r].kind = "call" /\ task' = [task EXCEPT ![r][t] = send]
      BY <1>1, <1>8, <2>2 DEF Authorize, ReqType
    <3> HIDE DEF make, send, g
    <3> QED BY <3>2, <3>3, <3>4
  <2>3. CASE <<g, t>> \notin Allowed
    <3>1. task' = [task EXCEPT ![r][t] = Done]
      BY <1>8, <2>3 DEF Authorize
    <3> QED BY <1>1, <1>4, <1>5, <1>6, <2>1, <3>1, GoroutineStep
  <2> QED BY <2>2, <2>3
<1>9. CASE MakeClient(r, t)
  <2> DEFINE v(c) == [x EXCEPT !.pc = "connect", !.id = g, !.client = c]
  <2>1. UNCHANGED <<ident, clients, cred, stale, req, dbId, tokens, api, changes>>
        /\ x.pc = "make2"
    BY <1>9 DEF MakeClient
  <2>2. PICK c \in Clients : open' = open \cup {c} /\ task' = [task EXCEPT ![r][t] = v(c)]
    BY <1>9 DEF MakeClient
  <2>3. /\ v(c) \in TaskType /\ v(c).pc = "connect" /\ v(c).client = c
        /\ v(c).old = x.old /\ v(c).id = g
    BY <1>1, <1>3 DEF TaskType, TaskPCs
  <2>4. Active(r, t) /\ (~x.old => g = ident /\ <<ident, t>> \in Allowed)
    BY <1>2, <1>3, <2>1 DEF Active, TaskKnows
  <2> HIDE DEF v
  <2>5. TaskKnows(r, t)'
    BY <1>5, <2>1, <2>2, <2>3, <2>4
  <2>6. c # NoClient /\ open' \subseteq Clients
    BY <1>1, <2>2, IdentityAssumption
  <2> QED BY <1>1, <1>6, <2>1, <2>2, <2>3, <2>5, <2>6, GoroutineStep
<1>10. CASE Connect(r, t)
  <2> DEFINE v == [x EXCEPT !.pc = "set"]
  <2>1. /\ UNCHANGED <<ident, clients, open, cred, stale, req, dbId, tokens, api, changes>>
        /\ task' = [task EXCEPT ![r][t] = v] /\ x.pc = "connect"
    BY <1>10 DEF Connect
  <2>2. v \in TaskType /\ v.pc = "set" /\ v.client = x.client /\ v.old = x.old /\ v.id = x.id
    BY <1>1 DEF TaskType, TaskPCs
  <2>3. Active(r, t) /\ (~x.old => x.id = ident /\ <<ident, t>> \in Allowed)
    BY <1>2, <2>1 DEF Active, TaskKnows
  <2> HIDE DEF v
  <2>4. TaskKnows(r, t)'
    BY <1>5, <2>1, <2>2, <2>3
  <2> QED BY <1>1, <1>2, <1>6, <2>1, <2>2, <2>4, GoroutineStep
<1>11. CASE ConnectFails(r, t)
  <2>1. /\ UNCHANGED <<ident, clients, cred, stale, req, dbId, tokens, api, changes>>
        /\ task' = [task EXCEPT ![r][t] = Done] /\ open' \subseteq Clients
    BY <1>1, <1>11 DEF ConnectFails
  <2> QED BY <1>1, <1>4, <1>5, <1>6, <2>1, GoroutineStep
<1>12. CASE SetClient(r, t)
  <2>1. /\ UNCHANGED <<ident, open, req, dbId, tokens, api, changes>> /\ x.pc = "set"
        /\ clients' = [clients EXCEPT ![t] = x.client] /\ cred' = [cred EXCEPT ![t] = x.id]
        /\ stale' = IF x.old THEN stale \cup {t} ELSE stale \ {t}
        /\ task' = [task EXCEPT ![r][t] = Done]
    BY <1>12 DEF SetClient
  <2>2. /\ clients' \in [Targets -> Clients \cup {NoClient}] /\ cred' \in [Targets -> ReadIds]
        /\ stale' \subseteq Targets
    BY <1>1, <1>2, <2>1
  <2>3. FreshClientsMatch'
    <3> SUFFICES ASSUME NEW u \in Targets, u \notin stale', clients'[u] # NoClient
                 PROVE  cred'[u] = ident /\ <<ident, u>> \in Allowed
      BY <2>1 DEF FreshClientsMatch
    <3>1. CASE u = t
      <4>1. ~x.old /\ cred'[t] = x.id
        BY <1>1, <2>1, <3>1
      <4> QED BY <1>2, <2>1, <3>1, <4>1 DEF TaskKnows, Active
    <3>2. CASE u # t
      BY <1>1, <2>1, <3>2 DEF FreshClientsMatch
    <3> QED BY <3>1, <3>2
  <2> QED BY <1>1, <1>4, <1>5, <2>1, <2>2, <2>3, GoroutineStep
<1>13. CASE Send(r, t)
  <2>1. /\ UNCHANGED <<ident, clients, open, cred, stale, req, dbId, tokens, api, changes>>
        /\ task' = [task EXCEPT ![r][t] = Done]
    BY <1>13 DEF Send
  <2> QED BY <1>1, <1>4, <1>5, <1>6, <2>1, GoroutineStep
<1> QED BY <1>7, <1>8, <1>9, <1>10, <1>11, <1>12, <1>13 DEF TaskStep

-----------------------------------------------------------------------------
(* The recycle check *)

\* A list of groups that names none twice.
PlainList(s) ==
  /\ s \in Seq({s[n] : n \in DOMAIN s})
  /\ \A m, n \in DOMAIN s : s[m] = s[n] => m = n

\* Such a list is as long as its set is large.
LEMMA PlainSize ==
  ASSUME NEW i, PlainList(i.groups)
  PROVE  IsFiniteSet(GroupSet(i)) /\ Cardinality(GroupSet(i)) = Len(i.groups)
<1> DEFINE s == i.groups
           T == GroupSet(i)
<1>1. T = {s[n] : n \in DOMAIN s}
  BY DEF GroupSet
<1>2. s \in Seq(T)
  BY <1>1 DEF PlainList
<1>3. \A m, n \in DOMAIN s : s[m] = s[n] => m = n
  BY DEF PlainList
<1> HIDE DEF s, T
<1>4. Len(s) \in Nat /\ DOMAIN s = 1 .. Len(s) /\ s \in [1 .. Len(s) -> T]
  BY <1>2
<1>5. s \in Bijection(1 .. Len(s), T)
  <2>1. \A x \in T : \E n \in 1 .. Len(s) : s[n] = x
    BY <1>1, <1>4
  <2>2. s \in Surjection(1 .. Len(s), T)
    BY <1>4, <2>1 DEF Surjection
  <2>3. s \in Injection(1 .. Len(s), T)
    BY <1>3, <1>4 DEF Injection, IsInjective
  <2> QED BY <2>2, <2>3 DEF Bijection
<1>6. IsFiniteSet(1 .. Len(s)) /\ Cardinality(1 .. Len(s)) = Len(s)
  <2>1. \A n \in Nat : IsFiniteSet(1 .. n) /\ Cardinality(1 .. n) = n
    <3> SUFFICES ASSUME NEW n \in Nat PROVE IsFiniteSet(1 .. n) /\ Cardinality(1 .. n) = n
      OBVIOUS
    <3>1. 1 \in Int /\ n \in Int
      OBVIOUS
    <3>2. IsFiniteSet(1 .. n) /\ Cardinality(1 .. n) = IF 1 > n THEN 0 ELSE n - 1 + 1
      BY ONLY <3>1, FS_Interval
    <3> QED BY <3>2
  <2> QED BY <1>4, <2>1
<1>7. IsFiniteSet(T) /\ Cardinality(T) = Cardinality(1 .. Len(s))
  BY <1>5, <1>6, FS_Bijection DEF ExistsBijection
<1> QED BY <1>6, <1>7 DEF s, T

LEMMA RecycleMeans ==
  ASSUME NEW a, NEW b, PlainList(a.groups), PlainList(b.groups)
  PROVE  NeedsRecycle(a, b) <=> ~SameIdentity(a, b)
<1>1. /\ IsFiniteSet(GroupSet(a)) /\ Cardinality(GroupSet(a)) = Len(a.groups)
      /\ IsFiniteSet(GroupSet(b)) /\ Cardinality(GroupSet(b)) = Len(b.groups)
  BY PlainSize
<1>2. ASSUME GroupSet(b) \subseteq GroupSet(a), Len(a.groups) = Len(b.groups)
      PROVE  GroupSet(b) = GroupSet(a)
  BY <1>1, <1>2, FS_Subset
<1>3. GroupSet(a) = GroupSet(b) => Len(a.groups) = Len(b.groups)
  BY <1>1
<1> QED BY <1>2, <1>3 DEF NeedsRecycle, SameIdentity

-----------------------------------------------------------------------------
(* Theorems *)

\* The strengthened invariant holds in every state a session reaches.
THEOREM Inductive == Spec => []IInv
<1>1. Init => IInv
  BY InitIInv
<1>2. IInv /\ [Next]_vars => IInv'
  BY QuietSteps, RecycleSteps, RequestSteps, TaskSteps DEF Next
<1> QED BY <1>1, <1>2, PTL DEF Spec

\* The variables keep their types, and a goroutine holds a client exactly
\* between making it and handing it over (InitializeSession).
THEOREM SessionTypes == Spec => []TypeOK
<1>1. IInv => TypeOK
  BY DEF IInv
<1> QED BY <1>1, Inductive, PTL

\* Unless a recycle overtook its Initialize, every client of the session has
\* credentials of the session's identity and a target that identity may use.
THEOREM FreshClients == Spec => []FreshClientsMatch
<1>1. IInv => FreshClientsMatch
  BY DEF IInv
<1> QED BY <1>1, Inductive, PTL

\* A call that no recycle overtook is sent under an identity its own token
\* agrees with, to a target that identity may use (handlePost, CallTool).
THEOREM CallsOwnClaims == Spec => []CallsUnderOwnClaims
<1>1. IInv => CallsUnderOwnClaims
  BY DEF IInv, TaskInv, TaskKnows, Active, CallsUnderOwnClaims
<1> QED BY <1>1, Inductive, PTL

\* While no list of groups names a group twice, a session is recycled for a token
\* exactly when role or groups differ, in whatever order they are listed
\* (handlePost).
THEOREM RecycledWhenChanged ==
  ASSUME \A i \in Ids : PlainList(i.groups)
  PROVE  Spec => []RecycleIffChanged
<1>1. IInv => RecycleIffChanged
  <2> SUFFICES ASSUME IInv, NEW j \in tokens
               PROVE  NeedsRecycle(ident, j) <=> ~SameIdentity(ident, j)
    BY DEF RecycleIffChanged
  <2>1. ident \in Ids /\ j \in Ids
    BY DEF IInv, TypeOK
  <2> QED BY <2>1, RecycleMeans
<1> QED BY <1>1, Inductive, PTL
===============================================================================
