----------------------------- MODULE Credentials -----------------------------
(***************************************************************************)
(* Which credential a session acts with upstream: proxy.go's create*Client *)
(* resolves it from two families of tables of one target, environment      *)
(* configs and legacy tokens (backend/internal/database/repository.go), a  *)
(* statement per scope, while administrators write them (backend/internal/ *)
(* api) and the session is recycled; a process or pod that is there for    *)
(* the subject key is used as it is.                                       *)
(*                                                                         *)
(* Of the environment, AUTH_TOKEN is modelled; the other keys are resolved *)
(* alike.  A value is its scope and whether it can be decrypted: one that  *)
(* was stored under another encryption key cannot.  What becomes of pods   *)
(* and their secrets is K8s's matter, processes are StdioManager's: here   *)
(* one stays, with what it was started with, until it ends.                *)
(***************************************************************************)
EXTENDS Naturals, Sequences, FiniteSets, Functions

CONSTANTS
  Sessions,
  Identities,   \* [Sessions -> sets of [user, role, groups]], of one user each
  Configs,      \* of the target: [transport, boundary, auth: is a token required?]
  MaxStored,    \* bound on the values that are there at first
  MaxChanges,   \* bound on what administrators write
  MaxRecycles

Default  == <<"default", "">>
Role(r)  == <<"role", r>>
Group(g) == <<"group", g>>
User(u)  == <<"user", u>>

AllIds == UNION {Identities[s] : s \in Sessions}

Users  == {i.user : i \in AllIds}
Roles  == {i.role : i \in AllIds}
Groups == UNION {Range(i.groups) : i \in AllIds}
Scopes == {Default} \cup {Role(r) : r \in Roles} \cup {Group(g) : g \in Groups}
          \cup {User(u) : u \in Users}

ASSUME CredentialsAssumption ==
  /\ \A s \in Sessions : \A i, j \in Identities[s] : i.user = j.user
  /\ \A i \in AllIds : i.groups \in Seq(Range(i.groups))
  /\ Configs \subseteq [transport : {"http", "stdio", "kubernetes"},
                        boundary : {"shared", "per_user", "per_role", "per_group"},
                        auth : BOOLEAN]
  /\ MaxStored \in Nat /\ MaxChanges \in Nat /\ MaxRecycles \in Nat

VARIABLES
  target,    \* its configuration, or Gone
  store,     \* per table, "env" and "token": scope -> "none", "good", "bad"
  changes,   \* administrators' writes so far
  ident,     \* per session: Role, Groups and UserID
  recycles,  \* so far
  conn,      \* per session, the goroutine that connects it: see Away
  proc       \* subject key -> whose credential its process was started with

credentialVars == <<target, store, changes, ident, recycles, conn, proc>>

Tables  == {"env", "token"}
Gone    == [transport |-> "none", boundary |-> "none", auth |-> FALSE]
Nothing == [table |-> "none", scope |-> Default, good |-> FALSE]

\* todo: scopes still to be read; env, token: what was found.  Ghosts: kept, the
\* readable values that were there all the time; right, what it would have resolved
\* to at once at some moment; rows, written meanwhile (0, 1, 2: more).  They are kept
\* until an error is passed over (failed) or the session recycled (mixed).
Away == [pc |-> "away", config |-> Gone, key |-> Default, todo |-> <<>>,
         env |-> Nothing, token |-> Nothing, kept |-> {}, right |-> {}, rows |-> 0,
         failed |-> FALSE, mixed |-> FALSE]

\* A process without credentials, and none.
Bare   == <<"none", "bare">>
NoProc == <<"none", "down">>

-----------------------------------------------------------------------------
(* Orders and keys *)

\* Nothing can be stored for an empty role (handlers.go:772): the statement that is
\* skipped for it would find nothing.
GroupScopes(id) == [n \in DOMAIN id.groups |-> Group(id.groups[n])]

\* ResolveEnvConfigsForTarget: what is read later overrides.
EnvOrder(id) == <<Default, Role(id.role)>> \o GroupScopes(id) \o <<User(id.user)>>

\* ResolveTokenForTarget: what is found first is taken.
TokenOrder(id) == <<User(id.user), Role(id.role)>> \o GroupScopes(id) \o <<Default>>

\* Mutant: of the groups, the first counts.
SubjectKey_First(config, id) ==
  CASE config.boundary = "per_user"  -> User(id.user)
    [] config.boundary = "per_role"  -> Role(id.role)
    [] config.boundary = "per_group" -> <<"group", Range(SubSeq(id.groups, 1, 1))>>
    [] OTHER -> Default

\* ComputeSubjectKey; the groups are sorted, so their order does not count.
SubjectKey(config, id) ==
  CASE config.boundary = "per_user"  -> User(id.user)
    [] config.boundary = "per_role"  -> Role(id.role)
    [] config.boundary = "per_group" -> <<"group", Range(id.groups)>>
    [] OTHER -> Default

SubjectKeys == {SubjectKey(c, i) : c \in Configs, i \in AllIds}

\* What is made of the two finds.  A value that cannot be decrypted is left out; for
\* a child process it also keeps the token from being used.
Choose(config, env, token) ==
  IF env.good THEN env
  ELSE IF token.good /\ config.auth /\ (config.transport = "stdio" => env = Nothing) THEN token
  ELSE Nothing

Found(table, scope, tables) ==
  IF tables[table][scope] = "none" THEN Nothing
  ELSE [table |-> table, scope |-> scope, good |-> (tables[table][scope] = "good")]

\* What one transaction would have found.
AtOnce(config, id, tables) ==
  LET e  == EnvOrder(id)
      t  == TokenOrder(id)
      es == {n \in DOMAIN e : tables["env"][e[n]] # "none"}
      ts == {n \in DOMAIN t : tables["token"][t[n]] # "none"}
      last  == CHOOSE n \in es : \A m \in es : m <= n
      first == CHOOSE n \in ts : \A m \in ts : n <= m
  IN Choose(config,
       IF es = {} THEN Nothing ELSE Found("env", e[last], tables),
       IF ts = {} THEN Nothing ELSE Found("token", t[first], tables))

-----------------------------------------------------------------------------
Empty == [t \in Tables |-> [s \in Scopes |-> "none"]]

Stored(tables) == {p \in Tables \X Scopes : tables[p[1]][p[2]] # "none"}
Readable(tables) == {p \in Tables \X Scopes : tables[p[1]][p[2]] = "good"}

CredentialsInit ==
  /\ target \in Configs
  /\ \E there \in {p \in SUBSET (Tables \X Scopes) : Cardinality(p) <= MaxStored} :
       \E value \in [there -> {"good", "bad"}] :
         store = [t \in Tables |-> [s \in Scopes |->
                    IF <<t, s>> \in there THEN value[<<t, s>>] ELSE "none"]]
  /\ changes = 0
  /\ ident \in {f \in [Sessions -> AllIds] : \A s \in Sessions : f[s] \in Identities[s]}
  /\ recycles = 0
  /\ conn = [s \in Sessions |-> Away]
  /\ proc = [k \in SubjectKeys |-> NoProc]

-----------------------------------------------------------------------------
(* create*Client *)

SetConn(s, new) == conn' = [conn EXCEPT ![s] = new]

NoGhosts(c) == [c EXCEPT !.kept = {}, !.right = {}, !.rows = 0]

\* The target was read with all enabled ones; the key comes first.
Begin(s) ==
  /\ conn[s].pc = "away" /\ target # Gone
  /\ SetConn(s, [Away EXCEPT !.pc = "key", !.config = target, !.key = SubjectKey(target, ident[s]),
                          !.kept = Readable(store), !.right = {AtOnce(target, ident[s], store)}])
  /\ UNCHANGED <<target, store, changes, ident, recycles, proc>>

\* The identity is looked at again for each of the two resolutions.
ResolveEnv(s) ==
  /\ conn[s].pc = "key"
  /\ SetConn(s, [conn[s] EXCEPT !.pc = "env", !.todo = EnvOrder(ident[s])])
  /\ UNCHANGED <<target, store, changes, ident, recycles, proc>>

\* Mutant: what is there is not overridden.
ReadEnv_First(s) ==
  LET f == Found("env", Head(conn[s].todo), store) IN
  /\ conn[s].pc = "env" /\ conn[s].todo # <<>>
  /\ SetConn(s, [conn[s] EXCEPT !.todo = Tail(@), !.env = IF @ = Nothing THEN f ELSE @])
  /\ UNCHANGED <<target, store, changes, ident, recycles, proc>>

\* GetEnvConfigs for one scope.
ReadEnv(s) ==
  LET f == Found("env", Head(conn[s].todo), store) IN
  /\ conn[s].pc = "env" /\ conn[s].todo # <<>>
  /\ SetConn(s, [conn[s] EXCEPT !.todo = Tail(@), !.env = IF f = Nothing THEN @ ELSE f])
  /\ UNCHANGED <<target, store, changes, ident, recycles, proc>>

\* Only logged: the client goes without any environment.
EnvFails(s) ==
  /\ conn[s].pc = "env" /\ conn[s].todo # <<>>
  /\ SetConn(s, NoGhosts([conn[s] EXCEPT !.todo = <<>>, !.env = Nothing, !.failed = TRUE]))
  /\ UNCHANGED <<target, store, changes, ident, recycles, proc>>

\* Over HTTP, a token is looked for if the environment has none.
ResolveToken(s) ==
  LET c == conn[s] IN
  /\ c.pc = "env" /\ c.todo = <<>>
  /\ IF c.config.auth /\ ~(c.config.transport = "http" /\ c.env.good)
     THEN SetConn(s, [c EXCEPT !.pc = "token", !.todo = TokenOrder(ident[s])])
     ELSE SetConn(s, [c EXCEPT !.pc = "attach"])
  /\ UNCHANGED <<target, store, changes, ident, recycles, proc>>

\* Mutant: goes on after a find.
ReadToken_Last(s) ==
  LET c == conn[s]
      f == Found("token", Head(c.todo), store)
  IN
  /\ c.pc = "token"
  /\ SetConn(s, [c EXCEPT !.todo = Tail(@), !.token = IF f = Nothing THEN @ ELSE f,
                       !.pc = IF Len(c.todo) = 1 THEN "attach" ELSE @])
  /\ UNCHANGED <<target, store, changes, ident, recycles, proc>>

\* GetUserTargetToken, GetRoleTargetToken, ...
ReadToken(s) ==
  LET c == conn[s]
      f == Found("token", Head(c.todo), store)
  IN
  /\ c.pc = "token"
  /\ IF f # Nothing \/ Len(c.todo) = 1
     THEN SetConn(s, [c EXCEPT !.pc = "attach", !.todo = <<>>, !.token = f])
     ELSE SetConn(s, [c EXCEPT !.todo = Tail(@)])
  /\ UNCHANGED <<target, store, changes, ident, recycles, proc>>

\* Not even logged: the client goes without a token.
TokenFails(s) ==
  /\ conn[s].pc = "token"
  /\ SetConn(s, NoGhosts([conn[s] EXCEPT !.pc = "attach", !.todo = <<>>, !.failed = TRUE]))
  /\ UNCHANGED <<target, store, changes, ident, recycles, proc>>

Chosen(s) == Choose(conn[s].config, conn[s].env, conn[s].token)

OwnClient(s) == conn[s].config.transport = "http"

ChosenScope(s) == IF Chosen(s) = Nothing THEN Bare ELSE Chosen(s).scope

\* An HTTP client is the session's own; a process is whoever's came first.
Given(s) ==
  IF ~OwnClient(s) /\ proc[conn[s].key] # NoProc THEN proc[conn[s].key] ELSE ChosenScope(s)

\* Without a credential the session is connected all the same.
Attach(s) ==
  /\ conn[s].pc = "attach"
  /\ IF OwnClient(s) THEN UNCHANGED proc ELSE proc' = [proc EXCEPT ![conn[s].key] = Given(s)]
  /\ SetConn(s, Away)
  /\ UNCHANGED <<target, store, changes, ident, recycles>>

\* The idle limit, a crash, a restart of the target's instances.
ProcessEnds(k) ==
  /\ proc[k] # NoProc
  /\ proc' = [proc EXCEPT ![k] = NoProc]
  /\ UNCHANGED <<target, store, changes, ident, recycles, conn>>

\* Role and groups change under whoever is connecting.
Recycle(s) ==
  /\ recycles < MaxRecycles
  /\ recycles' = recycles + 1
  /\ \E i \in Identities[s] \ {ident[s]} : ident' = [ident EXCEPT ![s] = i]
  /\ conn' = [conn EXCEPT ![s] = IF @.pc = "away" THEN @ ELSE NoGhosts([@ EXCEPT !.mixed = TRUE])]
  /\ UNCHANGED <<target, store, changes, proc>>

-----------------------------------------------------------------------------
(* Administrators: what they write is seen by the next statement *)

Write(tables, rows) ==
  /\ changes < MaxChanges
  /\ changes' = changes + 1
  /\ store' = tables
  /\ conn' = [s \in Sessions |->
       IF conn[s].pc = "away" \/ conn[s].failed \/ conn[s].mixed THEN conn[s]
       ELSE [conn[s] EXCEPT
              !.kept = {p \in @ : tables[p[1]][p[2]] = "good"},
              !.right = @ \cup {AtOnce(conn[s].config, ident[s], tables)},
              !.rows = IF @ + rows < 2 THEN @ + rows ELSE 2]]
  /\ UNCHANGED <<ident, recycles, proc>>

\* Without a target the row is refused.
Set(t, s) ==
  /\ target # Gone /\ store[t][s] # "good"
  /\ Write([store EXCEPT ![t][s] = "good"], 1)
  /\ UNCHANGED target

Delete(t, s) ==
  /\ store[t][s] # "none"
  /\ Write([store EXCEPT ![t][s] = "none"], 1)
  /\ UNCHANGED target

SetUserTargetToken(u)       == Set("token", User(u))
DeleteUserTargetToken(u)    == Delete("token", User(u))
SetRoleTargetToken(r)       == Set("token", Role(r))
DeleteRoleTargetToken(r)    == Delete("token", Role(r))
SetGroupTargetToken(g)      == Set("token", Group(g))
DeleteGroupTargetToken(g)   == Delete("token", Group(g))
SetDefaultTargetToken       == Set("token", Default)
DeleteDefaultTargetToken    == Delete("token", Default)

\* Also one of several that BulkSetEnvConfigs writes one after the other.
SetEnvConfig(s)    == Set("env", s)
DeleteEnvConfig(s) == Delete("env", s)

\* Mutant: one column is left out.
UpdateTarget_KeepsTransport ==
  /\ target # Gone
  /\ \E c \in Configs \ {target} : target' = [c EXCEPT !.transport = target.transport]
  /\ Write(store, 0)

\* For the sessions that connect from now on.  The row is read, and written back as a
\* whole by a second statement, so one of two that overlap may undo columns of the
\* other: what is left is some configuration all the same.
UpdateTarget ==
  /\ target # Gone
  /\ \E c \in Configs \ {target} : target' = c
  /\ Write(store, 0)

\* All its rows go with it, in one statement.
DeleteTarget ==
  /\ target # Gone
  /\ target' = Gone
  /\ Write(Empty, 2)

Connecting(s) ==
  \/ Begin(s) \/ ResolveEnv(s) \/ ReadEnv(s) \/ EnvFails(s)
  \/ ResolveToken(s) \/ ReadToken(s) \/ TokenFails(s) \/ Attach(s)

CredentialsNext ==
  \/ \E s \in Sessions : Connecting(s) \/ Recycle(s)
  \/ \E k \in SubjectKeys : ProcessEnds(k)
  \/ \E u \in Users : SetUserTargetToken(u) \/ DeleteUserTargetToken(u)
  \/ \E r \in Roles : SetRoleTargetToken(r) \/ DeleteRoleTargetToken(r)
  \/ \E g \in Groups : SetGroupTargetToken(g) \/ DeleteGroupTargetToken(g)
  \/ SetDefaultTargetToken \/ DeleteDefaultTargetToken
  \/ \E s \in Scopes : SetEnvConfig(s) \/ DeleteEnvConfig(s)
  \/ UpdateTarget \/ DeleteTarget

CredentialsSpec == CredentialsInit /\ [][CredentialsNext]_credentialVars

-----------------------------------------------------------------------------
(* Properties *)

Creds == [table : Tables \cup {"none"}, scope : Scopes, good : BOOLEAN]

\* Types of the variables.
CredentialsTypeOK ==
  /\ target \in Configs \cup {Gone}
  /\ store \in [Tables -> [Scopes -> {"none", "good", "bad"}]]
  /\ changes \in 0 .. MaxChanges /\ recycles \in 0 .. MaxRecycles
  /\ \A s \in Sessions :
       /\ ident[s] \in Identities[s]
       /\ conn[s].pc \in {"away", "key", "env", "token", "attach"}
       /\ conn[s].config \in Configs \cup {Gone} /\ conn[s].key \in SubjectKeys \cup {Default}
       /\ conn[s].todo \in Seq(Scopes)
       /\ {conn[s].env, conn[s].token} \cup conn[s].right \subseteq Creds
       /\ conn[s].kept \subseteq Tables \X Scopes /\ conn[s].rows \in 0 .. 2
       /\ {conn[s].failed, conn[s].mixed} \subseteq BOOLEAN
  /\ proc \in [SubjectKeys -> Scopes \cup {Bare, NoProc}]

\* The resolution of a session that is neither recycled meanwhile nor meets an
\* error or a value it cannot decrypt.
Resolved(s) ==
  /\ conn[s].pc = "attach" /\ ~conn[s].failed /\ ~conn[s].mixed
  /\ \A f \in {conn[s].env, conn[s].token} : f = Nothing \/ f.good

\* What is agreed on the order of credentials, the weakest first: an environment
\* config outranks any token, a group's a role's; of tokens, docs say that too
\* (credential-management.md:13-14) and the code the contrary, so here neither does.
Rank(c) ==
  LET env  == c[1] = "env"
      kind == c[2][1]
  IN (IF env THEN 4 ELSE 0) + CASE kind = "user"  -> 3
                                [] kind = "group" -> 2
                                [] kind = "role"  -> IF env THEN 1 ELSE 2
                                [] OTHER          -> 0

Applies(c, s) ==
  /\ c[2] \in Range(EnvOrder(ident[s]))
  /\ c[1] = "token" => conn[s].config.auth

\* User-specific is the "highest priority", default the "lowest priority"
\* (credential-management.md:12-15): no credential that was there all the time loses to
\* one that ranks below it or to none, whatever is written between the statements of the
\* resolution.  Nothing is said of several groups, nor of the tokens of role and group.
NeverPassedOver ==
  \A s \in Sessions : Resolved(s) =>
    \A c \in conn[s].kept : Applies(c, s) =>
      Chosen(s) # Nothing /\ Rank(c) <= Rank(<<Chosen(s).table, Chosen(s).scope>>)

\* The resolution is no transaction, but as long as a single row is written meanwhile
\* it finds what one would have found before or after.
AsIfAtOnce ==
  \A s \in Sessions : Resolved(s) /\ conn[s].rows <= 1 => Chosen(s) \in conn[s].right

KeyOwns(k, scope) ==
  k[1] = scope[1] => IF k[1] = "group" THEN scope[2] \in k[2] ELSE scope = k

\* Processes are shared as the boundary says ("per_role": "Role-based API keys"): the
\* credential of a user, role or group is never given to the process of another one, if
\* no recycle overtook the session that starts it.
ProcessOfKey ==
  \A s \in Sessions :
    conn[s].pc = "attach" /\ ~OwnClient(s) /\ ~conn[s].mixed /\ proc[conn[s].key] = NoProc =>
      KeyOwns(conn[s].key, ChosenScope(s))
=============================================================================
