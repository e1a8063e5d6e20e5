---------------------------- MODULE SessionIdentity ----------------------------
(***************************************************************************)
(* One MCP session while its user's role and groups change: the recycle    *)
(* check of handlePost, Recycle and RecycleUserSessions (session.go),      *)
(* handleInitialize on an existing session (handler.go), and the parts of  *)
(* proxy.go that read the session's identity: authorization, the making of *)
(* upstream clients, and calls.                                            *)
(*                                                                         *)
(* Recycle writes Role and Groups under the session's lock; the proxy      *)
(* reads them, one after the other, without it.  A client stands for an    *)
(* HTTP client: STDIO processes are the pool's (StdioManager).             *)
(***************************************************************************)
EXTENDS Integers, Sequences, FiniteSets

CONSTANTS
  Ids,       \* identities: [role, groups], groups a list
  Targets,
  Clients,   \* addresses of client objects
  Reqs,      \* request goroutines
  NoClient,
  Allowed,   \* <<identity, target>> pairs the policies allow
  Changes    \* bound on changes of the user's row

ASSUME IdentityAssumption ==
  /\ NoClient \notin Clients /\ Changes \in Nat /\ Ids # {}
  /\ \A i \in Ids : i = [role |-> i.role, groups |-> i.groups]

VARIABLES
  ident,     \* Session.Role and Groups
  clients,   \* Session.clients: target -> client
  open,      \* clients not closed
  cred,      \* ghost: the identity each target's client has credentials of
  stale,     \* ghost: targets whose client a recycle overtook on its way
  req,       \* per request: [pc, kind, jwt]
  task,      \* per request and target: the goroutine working for it
  dbId,      \* role and groups in the user's row
  tokens,    \* identities of the user's JWTs still valid
  api,       \* RecycleUserSessions: idle, or holding the row it read
  changes    \* changes of the row so far

vars == <<ident, clients, open, cred, stale, req, task, dbId, tokens, api, changes>>

GroupSet(i) == {i.groups[n] : n \in DOMAIN i.groups}

\* An identity as the proxy may read it: role from one, groups from another.
ReadIds == [role : {i.role : i \in Ids}, groups : {i.groups : i \in Ids}]

NoTask == [pc |-> "none", id |-> CHOOSE i \in Ids : TRUE, client |-> NoClient, old |-> FALSE]
NoReq  == [pc |-> "idle", kind |-> "call", jwt |-> CHOOSE i \in Ids : TRUE]

Done   == [NoTask EXCEPT !.pc = "done"]

Active(r, t) == task[r][t].pc \notin {"none", "done"}

Init ==
  /\ \E i \in Ids : ident = i /\ dbId = i /\ tokens = {i} /\ cred = [t \in Targets |-> i]
  /\ clients = [t \in Targets |-> NoClient]
  /\ open = {} /\ stale = {}
  /\ req = [r \in Reqs |-> NoReq]
  /\ task = [r \in Reqs |-> [t \in Targets |-> NoTask]]
  /\ api = [pc |-> "idle", id |-> ident]
  /\ changes = 0

-----------------------------------------------------------------------------
(* The user's row, tokens and the recycle endpoint *)

\* UpdateUser writes the row and touches no session; a login reads it.
UpdateUser(i) ==
  /\ changes < Changes /\ i # dbId
  /\ dbId' = i /\ changes' = changes + 1
  /\ UNCHANGED <<ident, clients, open, cred, stale, req, task, tokens, api>>

Login ==
  /\ tokens' = tokens \cup {dbId}
  /\ UNCHANGED <<ident, clients, open, cred, stale, req, task, dbId, api, changes>>

\* Mutant: the identity changes, the clients stay.
RecycleTo_KeepsClients(i) ==
  /\ ident' = i
  /\ task' = [r \in Reqs |-> [t \in Targets |-> [task[r][t] EXCEPT !.old = Active(r, t)]]]
  /\ UNCHANGED <<clients, open, cred, stale>>

\* Recycle: under the session's lock, everything at once.  Goroutines of
\* requests go on with what they have.
RecycleTo(i) ==
  /\ ident' = i
  /\ open' = open \ {clients[t] : t \in Targets}
  /\ clients' = [t \in Targets |-> NoClient]
  /\ cred' = [t \in Targets |-> i] /\ stale' = {}
  /\ task' = [r \in Reqs |-> [t \in Targets |-> [task[r][t] EXCEPT !.old = Active(r, t)]]]

\* RecycleUserSessions reads the row first and recycles later.
ApiLoad ==
  /\ api.pc = "idle"
  /\ api' = [pc |-> "loaded", id |-> dbId]
  /\ UNCHANGED <<ident, clients, open, cred, stale, req, task, dbId, tokens, changes>>

ApiRecycle ==
  /\ api.pc = "loaded"
  /\ RecycleTo(api.id)
  /\ api' = [api EXCEPT !.pc = "idle"]
  /\ UNCHANGED <<req, dbId, tokens, changes>>

-----------------------------------------------------------------------------
(* handlePost and handleInitialize *)

\* Mutant: the lists are compared in their order.
NeedsRecycle_Ordered(s, j) == s.role # j.role \/ s.groups # j.groups

NeedsRecycle(s, j) ==
  \/ s.role # j.role
  \/ Len(s.groups) # Len(j.groups)
  \/ \E g \in GroupSet(j) : g \notin GroupSet(s)

\* An initialize naming the session reuses it, whatever its identity, and
\* starts a goroutine per target.
ArriveInit(r, j) ==
  /\ req[r].pc = "idle" /\ j \in tokens
  /\ req' = [req EXCEPT ![r] = [pc |-> "busy", kind |-> "init", jwt |-> j]]
  /\ task' = [task EXCEPT ![r] = [t \in Targets |-> [NoTask EXCEPT !.pc = "auth"]]]
  /\ UNCHANGED <<ident, clients, open, cred, stale, dbId, tokens, api, changes>>

ArriveCall(r, j) ==
  /\ req[r].pc = "idle" /\ j \in tokens
  /\ req' = [req EXCEPT ![r] = [pc |-> "check", kind |-> "call", jwt |-> j]]
  /\ UNCHANGED <<ident, clients, open, cred, stale, task, dbId, tokens, api, changes>>

\* Mutant: the claims are not compared.
CheckOk_Always(r, t) ==
  /\ req[r].pc = "check"
  /\ req' = [req EXCEPT ![r].pc = "busy"]
  /\ task' = [task EXCEPT ![r][t] = [NoTask EXCEPT !.pc = "auth"]]
  /\ UNCHANGED <<ident, clients, open, cred, stale, dbId, tokens, api, changes>>

CheckOk(r, t) ==
  /\ req[r].pc = "check" /\ ~NeedsRecycle(ident, req[r].jwt)
  /\ req' = [req EXCEPT ![r].pc = "busy"]
  /\ task' = [task EXCEPT ![r][t] = [NoTask EXCEPT !.pc = "auth"]]
  /\ UNCHANGED <<ident, clients, open, cred, stale, dbId, tokens, api, changes>>

CheckFails(r) ==
  /\ req[r].pc = "check" /\ NeedsRecycle(ident, req[r].jwt)
  /\ req' = [req EXCEPT ![r].pc = "recycle"]
  /\ UNCHANGED <<ident, clients, open, cred, stale, task, dbId, tokens, api, changes>>

\* The check was made earlier; the request is answered with an error.
Recycle(r) ==
  /\ req[r].pc = "recycle"
  /\ RecycleTo(req[r].jwt)
  /\ req' = [req EXCEPT ![r] = NoReq]
  /\ UNCHANGED <<dbId, tokens, api, changes>>

Finish(r) ==
  /\ req[r].pc = "busy" /\ \A t \in Targets : ~Active(r, t)
  /\ req' = [req EXCEPT ![r] = NoReq]
  /\ task' = [task EXCEPT ![r] = [t \in Targets |-> NoTask]]
  /\ UNCHANGED <<ident, clients, open, cred, stale, dbId, tokens, api, changes>>

-----------------------------------------------------------------------------
(* The goroutine of request r for target t *)

\* session.Role is read, then session.Groups.
ReadRole(r, t) ==
  /\ \/ /\ task[r][t].pc = "auth"
        /\ task' = [task EXCEPT ![r][t] = [@ EXCEPT !.pc = "auth2", !.id.role = ident.role]]
     \/ /\ task[r][t].pc = "make"
        /\ task' = [task EXCEPT ![r][t] = [@ EXCEPT !.pc = "make2", !.id.role = ident.role]]
  /\ UNCHANGED <<ident, clients, open, cred, stale, req, dbId, tokens, api, changes>>

\* CanAccessTarget and CanAccess, with the groups read now.
Authorize(r, t) ==
  LET id == [task[r][t].id EXCEPT !.groups = ident.groups] IN
  /\ task[r][t].pc = "auth2"
  /\ task' = [task EXCEPT ![r][t] =
       IF <<id, t>> \in Allowed
       THEN [@ EXCEPT !.id = id, !.pc = IF req[r].kind = "init" THEN "make" ELSE "send"]
       ELSE Done]
  /\ UNCHANGED <<ident, clients, open, cred, stale, req, dbId, tokens, api, changes>>

Referenced == {clients[t] : t \in Targets} \cup {task[r][t].client : r \in Reqs, t \in Targets}

\* createHTTPClient resolves the credentials for the identity it reads.
MakeClient(r, t) ==
  LET id == [task[r][t].id EXCEPT !.groups = ident.groups] IN
  /\ task[r][t].pc = "make2"
  /\ \E c \in Clients \ (open \cup Referenced) :
       /\ open' = open \cup {c}
       /\ task' = [task EXCEPT ![r][t] =
                        [@ EXCEPT !.pc = "connect", !.id = id, !.client = c]]
  /\ UNCHANGED <<ident, clients, cred, stale, req, dbId, tokens, api, changes>>

Connect(r, t) ==
  /\ task[r][t].pc = "connect"
  /\ task' = [task EXCEPT ![r][t] = [@ EXCEPT !.pc = "set"]]
  /\ UNCHANGED <<ident, clients, open, cred, stale, req, dbId, tokens, api, changes>>

ConnectFails(r, t) ==
  /\ task[r][t].pc = "connect"
  /\ open' = open \ {task[r][t].client}
  /\ task' = [task EXCEPT ![r][t] = Done]
  /\ UNCHANGED <<ident, clients, cred, stale, req, dbId, tokens, api, changes>>

\* SetClient replaces what is there; nobody closes that.
SetClient(r, t) ==
  /\ task[r][t].pc = "set"
  /\ clients' = [clients EXCEPT ![t] = task[r][t].client]
  /\ cred' = [cred EXCEPT ![t] = task[r][t].id]
  /\ stale' = IF task[r][t].old THEN stale \cup {t} ELSE stale \ {t}
  /\ task' = [task EXCEPT ![r][t] = Done]
  /\ UNCHANGED <<ident, open, req, dbId, tokens, api, changes>>

\* GetClient and the call: an error when the target has no client by now.
Send(r, t) ==
  /\ task[r][t].pc = "send"
  /\ task' = [task EXCEPT ![r][t] = Done]
  /\ UNCHANGED <<ident, clients, open, cred, stale, req, dbId, tokens, api, changes>>

-----------------------------------------------------------------------------
TaskStep(r, t) ==
  \/ ReadRole(r, t) \/ Authorize(r, t) \/ MakeClient(r, t)
  \/ Connect(r, t) \/ ConnectFails(r, t) \/ SetClient(r, t) \/ Send(r, t)

Next ==
  \/ \E i \in Ids : UpdateUser(i)
  \/ Login \/ ApiLoad \/ ApiRecycle
  \/ \E r \in Reqs : \/ \E j \in Ids : ArriveInit(r, j) \/ ArriveCall(r, j)
                     \/ CheckFails(r) \/ Recycle(r) \/ Finish(r)
                     \/ \E t \in Targets : CheckOk(r, t) \/ TaskStep(r, t)

Spec == Init /\ [][Next]_vars

-----------------------------------------------------------------------------
(* Properties *)

\* Types of the variables; a goroutine holds a client only between making it
\* and handing it over.
TypeOK ==
  /\ ident \in Ids /\ dbId \in Ids /\ tokens \subseteq Ids
  /\ clients \in [Targets -> Clients \cup {NoClient}]
  /\ open \subseteq Clients /\ stale \subseteq Targets
  /\ cred \in [Targets -> ReadIds]
  /\ req \in [Reqs -> [pc : {"idle", "check", "recycle", "busy"},
                       kind : {"init", "call"}, jwt : Ids]]
  /\ task \in [Reqs -> [Targets ->
       [pc : {"none", "auth", "auth2", "make", "make2", "connect", "set", "send", "done"},
        id : ReadIds, client : Clients \cup {NoClient}, old : BOOLEAN]]]
  /\ \A r \in Reqs, t \in Targets :
       task[r][t].client # NoClient <=> task[r][t].pc \in {"connect", "set"}
  /\ api \in [pc : {"idle", "loaded"}, id : Ids]
  /\ changes \in 0 .. Changes

\* Every client of the session was authorized and given credentials for the
\* session's identity, except one whose Initialize a recycle overtook.
FreshClientsMatch ==
  \A t \in Targets \ stale : clients[t] # NoClient =>
    cred[t] = ident /\ <<ident, t>> \in Allowed

\* A call that no recycle overtook is sent under an identity that the
\* caller's own token would not recycle, and that is allowed the target.
CallsUnderOwnClaims ==
  \A r \in Reqs, t \in Targets : task[r][t].pc = "send" /\ ~task[r][t].old =>
    /\ ~NeedsRecycle(task[r][t].id, req[r].jwt)
    /\ <<task[r][t].id, t>> \in Allowed

SameIdentity(a, b) == a.role = b.role /\ GroupSet(a) = GroupSet(b)

\* The session is recycled for a token exactly when role or groups differ.
RecycleIffChanged ==
  \A j \in tokens : NeedsRecycle(ident, j) <=> ~SameIdentity(ident, j)
=============================================================================
