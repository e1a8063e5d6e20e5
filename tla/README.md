# reflow-gateway: TLA+ models and proofs

TLA+ models of the reflow MCP gateway (`src/backend`) and its Kubernetes operator
(`src/operator`), TLC configurations that check them on small instances, and TLAPS
proofs of the main safety properties for every value of the constants. Every
definition is translated from the Go code at the lines `PROJECT.json` names; docs
are quoted only where the code does something else (section 6).

    tlc -workers 2 -config StdioManager_pool.cfg MCStdioManager   # one run
    tlapm Stdio_Proofs.tla                                        # one proof module

## 1. The system

The gateway speaks MCP (JSON-RPC over HTTP) to clients and multiplexes each
client session over many upstream MCP servers, its targets, reached by
HTTP/SSE, as STDIO child processes, or as Kubernetes pods. State lives in Go
maps under mutexes and in PostgreSQL; nothing but the statements' own atomicity
ties the two together.

| Component | State | Operations | Hard behaviour | What makes it correct |
|---|---|---|---|---|
| STDIO process (`stdio/process.go`) | `pending` map, response channels, `nextID`, pipes, `done` | sendRequest, SendRawRequest, sendNotification, readLoop, Close | many callers on one pipe; a send under a mutex; timeouts racing answers; a child that hangs, dies or talks first | callers get their own answer; readLoop never blocks; Close releases everybody |
| STDIO manager (`stdio/manager.go`) | subject key → process, `lastUsed` | GetOrCreate, gc, Shutdown | processes die, are closed or collected while sessions hold them; `m.mu` held through a 5 s Close | one child per key; the limit; idle ones stopped |
| Session registry (`gateway/session.go`, `mcp_sessions`) | id → object with `ExpiresAt`; a row with `expires_at`; a gauge | Create, Get, Delete, cleanup | two copies of a session, updated apart; restarts | an active session is found; an abandoned one goes |
| Session identity (`session.go`, `handler.go`, `proxy.go`) | role and groups, clients by target | NeedsRecycle, Recycle, RecycleUserSessions, SetClient | claims change while initializes and calls are under way; reads without the lock | clients and calls act for the right identity |
| Proxy and routing (`gateway/proxy.go`) | shown name → target, id, own name (tools, resources, prompts) | InitializeSession, List*, Call*/Read*/Get*, ForwardRequest | a list empties the map that calls use; names made by joining with `_` | a call reaches what was shown; nothing denied is sent |
| Authorizer (`gateway/authorizer.go`) | policy cache per target | CanAccess, CanAccessTarget, loadPolicies | several statements per load, concurrent changes, a cache nobody invalidates | decisions agree with the tables |
| Credentials (`repository.go`, `proxy.go`, `auth/token.go`) | tokens and env configs by user, group, role, default; subject key | resolve at client creation | precedence; STDIO/K8s sharing by subject key | nobody gets another subject's credentials |
| MCP handler (`gateway/handler.go`) | none of its own | POST, GET (SSE), DELETE `/mcp` | sessions looked up, recycled and used in separate steps | covered by the modules above |
| MCP client (`mcp/client.go`, `transport.go`) | transport kind, upstream session id, SSE reply table | Initialize, calls, fallback to SSE | fallback in mid-use; replies by id | as the STDIO process |
| SSE hub (`gateway/sse.go`) | connections of a session | add, remove, broadcast, Close | closing twice, a removed hub still in use | events to live connections, no send after close |
| Observability (`observability/`) | WebSocket clients with bounded buffers; sliding counters | register, broadcast, metrics loop | slow clients dropped under a read lock | one client's slowness costs only its own events |
| Kubernetes manager (`k8s/manager.go`) | subject key → service URL | GetOrCreate, gc, RestartTarget, Shutdown | state in two systems; polling; AlreadyExists | URLs lead to living instances; the limit |
| Kubernetes operator (`src/operator`) | MCPInstance phase, pod, service | Reconcile, garbage collection | retries, partial creation, deletions under way | level-triggered convergence |
| Tokens, accounts (`auth/`, `api/`) | users, tokens | Register, Login, revoke, update | read-then-write on rows; claims outlive rows | one first admin; revoked tokens end |
| Database (`database/`) | tables | statements, migrations | a crash between migration and its record | each migration once |
| Server (`cmd/server/main.go`) | – | start, shutdown | deferred shutdowns run under handlers | nothing survives shutdown |
| Config, telemetry, docs server, frontend, charts | – | – | none | not modelled: no protocol state |

How they interact: the handler finds or creates a session (registry), recycles
it when the token's claims differ (identity), and hands it to the proxy. The
proxy asks the authorizer, resolves credentials, makes a client per target (a
new HTTP client, or a process of the STDIO manager, or an instance of the
Kubernetes manager shared by subject key), and routes calls by the mapping the
last list filled. Background goroutines are `readLoop` per process, `gcLoop`
per manager, `cleanup` of the registry and the hubs' loops. Shared state is
guarded by one mutex per structure; no lock spans two of them, so every
interaction between components is a sequence of separate steps, and the models
take them separately.

## 2. Modules and how they correspond to the code

| Module | Extends / composes | Models |
|---|---|---|
| `RequestReply` | – | abstract: calls are begun and return, with their own answer or an error |
| `StdioProcess` | implements `RequestReply` by `RR == INSTANCE ... WITH` | `stdio/process.go` |
| `McpClient` | implements `RequestReply` as well | `mcp/client.go` and its use by `proxy.go` |
| `StdioManager` | – | `stdio/manager.go` and its use by `proxy.go` |
| `SessionRegistry` | – | `gateway/session.go` Create/Get/Delete/cleanup, `mcp_sessions` |
| `SessionIdentity` | – | recycle check, `Recycle`, `RecycleUserSessions`, clients of one session |
| `Authorizer` | – | `authorizer.go`, policy statements of `repository.go` |
| `ToolRouting` | – | `ListTools`, `CallTool` and their twins, the mapping |
| `Credentials` | – | resolution of env configs and tokens, the three `create*Client`, every endpoint that writes them |
| `K8sCluster` | – | the objects both Kubernetes components share; collector, kubelet, clock (external) |
| `K8sManager` | `K8sCluster` | `k8s/manager.go`, restart of a target from `env_handlers.go` |
| `K8sOperator` | `K8sCluster` | `operator/internal/controller` |
| `K8s` | `K8sManager`, `K8sOperator` | the two composed: each step is one component's or the cluster's |
| `Server` | – | `cmd/server/main.go`, `database/db.go`: connect, migrate, serve, stop, crash |
| `Accounts` | `Server` | users and API tokens in a process that may stop between any two statements |
| `MC*` | one per module | constants of the instances, symmetry |
| `*_Proofs` | the module, `TLAPS` | theorems (`Stdio_Proofs`: `StdioProcess` and `StdioManager`; `Upstream_Proofs`: `McpClient` and `Credentials`) |

**StdioProcess.** A call goes through the program counters of `sendRequest`:
register under `pendMu`, write to stdin, wait in the `select`, clean up.
`Register`, `Write`, `ReceiveReply`/`SeeDone`/`GiveUp` and `Cleanup` are those
steps; `pendMu` is the condition `PendMuFree`, false while `readLoop` is between
`ReadLine` and `Deliver`. Ids are numbers, and a ghost `tag` says which call an
answer answers. The child reads, answers in any order, makes requests with ids
of its own, writes an oversize line, or exits at any time. `Close` closes stdin
and waits; `Kill` is its 5 s timer. `Cleanup` returns at once or, for an `Initialize`
with a good answer, goes on to the notification. Contents of messages are left out.

**SessionRegistry.** A request's `pc` is its place in `GetSession`,
`CreateSession` or `DeleteSession`; each database statement and each critical
section of `sm.mu` is one step. Times are ticks left. `Install` is the store
into `sm.sessions`, which never looks whether the id is there. `Restart` loses
memory and keeps rows. The ghosts `idleLeft` and `closed` say what a client may
expect; `CountsAsUse` is the rule by which a use that races its own session's
expiry does not count. A few database errors that end a request early (session.go:88,
151, 211 and 382) and the 403 for a session of another user are left out: they change
no session, and no property depends on them.

**StdioManager.** `Hit`, `Spawn` and `Refuse` are the outcomes of
`GetOrCreate` under `m.mu`; `Start` to `SweepEnd` are `gc` and `Shutdown`, which
hold `m.mu` through the closing of every process they stop. A user is a
goroutine that initializes a target and then calls it, without `m.mu`.
`running` (the child) and `reading` (readLoop) are separate, because `IsAlive`
asks about the second; with `LongLine`, readLoop may end before its child. A child is
`Serving` while it has both, and the pool's properties are about those.
The module's specification is `PoolSpec` over `poolVars`.

**SessionIdentity.** One session, several requests with tokens of different
claims. `ReadRole` and `Authorize`/`MakeClient` read `session.Role` and
`session.Groups` one after the other, as the proxy does without the lock
`Recycle` holds. The ghost `old` marks goroutines a recycle overtook, `stale`
the clients they leave.

**Authorizer.** `loadPolicies` is `Query` (rows by descending priority, ties in
any order), one `QuerySubjects` per policy, `Store`; `Hit` and `Decide` are the
first-match loop. With `MayCut`, a result may break off and look complete, since
`rows.Err` is not read. Policies are created subject by subject, changed and
deleted in between. `clean` marks cache entries loaded whole with no change since.

**ToolRouting.** A name is the sequence of its parts between underscores, so
prefixing is `\o` and `parseResourceName` splits after the first part. A list
reads the clients, empties the mapping, and writes one item at a time as targets
answer or fail; a call looks up, falls back (`Parse` reads the clients, `Identify`
their ids), checks, fetches the client, sends. A second initialize that replaces a
client by another of the same target is not modelled: it changes neither the set of
connected targets nor their ids, which is all a route is made of. The ghost `known` is what the client was last shown, `old` and `stray` mark what
a list from before a recycle wrote.

**McpClient.** `Initialize` tries HTTP, then SSE on two URLs; a request's `pc` is
its place in `sendRequest`, the variable `post` is its POST, and `wire` the events
of the stream. `Probe` is the goroutine that waits for the endpoint event,
`ReaderStep` is `readSSEEvents`, stuck while it sends to a full channel holding
`c.mu` (`MuFree`). The server answers a request it received on the POST or on the
stream, late, twice or never. Ids and tags are as in `StdioProcess`. The gateway does not look
at the ids it forwards: with `Reuses`, they may come again, also while in use.

**Credentials.** A connecting session (`conn`) computes its subject key, reads the
environment's scopes default, role, groups, user, and then the legacy token's user,
role, group, default, one query a step; `create*Client` decides which one is used.
Writes are the endpoints' statements; `UpdateTarget`, which reads the target and writes
it back, is one step, so updates it overwrites are not seen, and users have a role,
so the query that an empty one skips is always made. The ghosts `right` and `kept` record what a
resolution at one moment would have found since it began.

**K8s.** `K8sCluster` holds MCPInstance, secret, pod and service per name, with uids
and owner references; an object outlives its owner until `Collect`. Every call of
the API server that writes, by `GetOrCreate`, `RestartTarget` or a reconcile, is a step
of its own, together with the Get of the same object before it and no more, because
neither component holds a lock over two of them; so is each dial. Any of them may fail
(`GiveUp`, `EnsureFails`, `Refused`, and the alternatives of `Drop`, `Touch`,
`RestartDelete` and `EnsureSecret` that leave things as they are). A reconcile works on what
it read first (`op.seen`, `op.uid`), its status update needs the version it read
(`rv`), its delete does not. A URL is a service's address or, when the service could
not be read, its name (`Dns`). Names are cut as `buildCRName` cuts them. Times are ticks since `startedAt` and `lastUsedAt`.

**Server and Accounts.** `Exec` runs a migration file (one implicit transaction),
`Record` notes it; `Signal` begins the shutdown, in which the deferred
closings run while handlers go on, `Crash` may come at any point. A request walks
through `auth`, then its statements (`count`, `create`, `read`, `write`, `store`,
`revoke`) to `answer`. `handed` says which tokens a client holds.

## 3. Runs

| Run | Instance | What it shows |
|---|---|---|
| `stdio_alloc` | 2 callers, 3 calls, pipes of 1 line, oversize lines | with allocated ids, `ImplementsRequestReply`: callers get their own answer or an error |
| `stdio_live` | 2 callers, 2 calls, forwarded id 1, child's id 1 | readLoop never blocks under `pendMu` (`DeliveryNeverBlocks`, `PendingWaits`); written calls return; Close releases callers and ends the process |
| `session_registry` | 1 session id, 2 requests, timeout 2 ticks, 1 restart | `RowNeverOutlivesObject`; `ActiveUntilRestart`; abandoned sessions go (`AbandonedPurged`) |
| `stdio_pool` | 2 keys, 2 processes, 2 users, limit 1, idle TTL 0, over-long lines | `OneServingPerKey`, `ServingBounded`; idle ones are stopped, dead ones forgotten |
| `identity_safe` | 3 identities (one a reordering), 2 requests, 2 clients, 1 change | `FreshClientsMatch`, `CallsUnderOwnClaims`, `RecycleIffChanged` |
| `policy_load` | 2 policies of 4 kinds, 2 requests, 1 change, broken-off results | clean entries decide as the tables do; denials outranked |
| `policy_stale` | 2 policies, 1 request | **violated** `DenyOverrides` |
| `routing_again` | 2 targets, a shared and a denied tool, 2 list requests, a caller, 1 recycle | a call reaches what was shown; prefixed names always routed; nothing denied is sent; mapped names lead to their items (`TypeOK`) |
| `credentials` | 1 session whose user joins or leaves a group, a target over HTTP (shared) or STDIO (per group), up to 2 stored values, 1 write, 1 recycle | `NeverPassedOver`, `AsIfAtOnce`, `ProcessOfKey` |
| `k8s` | 1 key, 1 goroutine, 2 incarnations, restarts of target and gateway, TTL and lifetime 0 ticks | stale URLs are dropped (`StaleUrlDropped`), the status comes to say that a pod is ready (`InstanceDecided`), no pod outlives its lifetime (`LifetimeEnds`) |
| `mcp_client` | 2 callers, the second one forwards, 4 requests, stream of 1 event | never stuck under `c.mu`, no answer lost, calls return, nothing left open; refinement of `RequestReply` |
| `accounts` | 2 requests, 2 emails, 2 tokens, 2 migrations, 2 attempts to connect | who becomes admin, what tokens say, what exists after a crash, what a rerun migration may do |

All type invariants are proved (section 4). The runs of `ToolRouting`, whose `TypeOK` also
says what the mapping leads to, of `McpClient` and of `Credentials` check theirs as well.

Bounds, and why they are enough to show what they should:

* Two of each actor: the races here are between a pair (two callers under one
  id, a load and a delete, a gc and a call, an initialize and a recycle, two
  lists, two registrations); a third adds states, not a new kind of overlap.
  `MaxCalls = 3` lets one id be used again after two calls overlapped; the four of
  `mcp_client` are two handshakes and one call of each goroutine.
* `PipeCap = 1` and `WireCap = 1` make pipes and streams full at once, which is the
  case that blocks writers.
* `Timeout = 2` ticks is the least for which a use can extend a session;
  `IdleTTL = 0` and `MaxLifetime = 0` make one tick of disuse idle and one of life
  too long, the code's comparison being a strict one.
* `MaxProcesses = 1` with two keys puts every second spawn at the limit.
* `Restarts`, `Changes`, `MaxChanges` and `MaxRecycles` bound crashes, administrative
  changes and recycles; one of each between any two steps already separates old from
  new. Restarts of a Kubernetes target and of its gateway need no bound. `MaxUid = 2` is an instance and its
  successor under the same name, the case uids are there for. One goroutine and one
  key are enough for the run's liveness questions, with `MaxName` as long as the name;
  what concerns several keys and names that are cut (`OwnEnv`) and several goroutines
  (`LimitOvershoot`) is proved. `Versions = {1}`: the run does not tell a stale
  environment from a present one, it shows that pods of either kind end.
* `MaxStored = 2` values are a stronger and a weaker credential, of either table,
  readable or not.
* `NumFiles = 2`: the file that inserts the default policy and one more;
  `MaxAttempts = 2`: a failed connection and the last.
* `Lists` are single requests: two overlap, or one is shown while the other empties
  the mapping, or one outlives a recycle. Calls repeat, since they change nothing.
* `mcp_client` has `ServerIDs = {}` and `Notifies = FALSE`: servers that send requests
  and notifications of their own do mislead the client (section 6), and the
  refinement is stated for the others. Its forwarded id 9 is no allocated one, and
  `Reuses = FALSE` lets it come once; with `TRUE` an answer may return to another
  request of its id, while `NeverStuck`, `CallReturns` and `NothingLeft` still hold
  (TLC, the first one proved).
* Symmetry only over interchangeable model values, and in no run with liveness
  (`accounts` has it with an action property only).
* Without deadlock checking run the STDIO process, the MCP client and the
  credentials: their instances end when `MaxCalls` requests or the changes are used up,
  the child or stream is gone, or the target deleted.

Fairness is weak but for the Kubernetes calls that may be refused: none of the other
steps it is asked of is disabled again and again by others' steps, and each is a
goroutine that is runnable or a timer.

* `StdioProcess`: callers and readLoop (the 60 s timeout is one of a caller's steps)
  and `Kill` (the 5 s timer); nothing is asked of the child.
* `SessionRegistry`: requests' steps, the cleanup ticker and the clock; nobody has to
  send requests.
* `StdioManager`: the gc ticker and its sweep, the clock, and the end of readLoop once
  the child is gone; nothing is asked of users, children or Shutdown.
* `McpClient`: goroutines whose next step does not depend on the server, timeouts, a
  probe whose stream ended, readSSEEvents, and the Close proxy.go makes after a failed
  Initialize. The server owes nothing; the GET in `connectSSE`, which has no timeout,
  is not fair, and `CallReturns` excepts it.
* `K8s`: the gateway's gc ticker, the operator's queue, the collector and the clock.
  The operator retries what was refused, and strong fairness says that the API server
  does not refuse the same call for ever. No pod has to become ready, and clients and
  administrators owe nothing; `InstanceDecided` excepts touches that never cease, each
  of which makes the status update under way fail.

## 4. What is proved

All theorems hold for every value of the constants; assumptions on them are the
named `ASSUME`s of the modules: sentinels outside the sets they stand beside, bounds
that are natural numbers, sets that TLC and `Cardinality` need finite. They say
nothing about behaviour. Where a theorem needs more it says `ASSUME` or has the
condition in its statement.

| Module | Theorem | Statement | Inductive invariant |
|---|---|---|---|
| `Stdio_Proofs` | `ProcessTypes`, `RegisteredChannelsWait`, `ReadLoopNeverBlocks` | `TypeOK`, `PendingWaits`, `DeliveryNeverBlocks` | `MuxInv` |
| | `AllocatedCallsGetOwnAnswer` | `OwnAnswer`, if `AllocOnly` | `MuxInv /\ AllocInv` |
| | `ProcessImplementsRequestReply` | refinement of `RequestReply`, if `AllocOnly` | the same |
| | `ManagerTypes`, `PoolCapacity` | `PoolTypeOK`, at most `MaxProcesses` entries | `PoolTypeOK /\ PoolBounded` |
| | `OneChildPerKey`, `ChildrenWithinLimit` | `OneServingPerKey`, `ServingBounded` | with `ServingIsPooled` |
| `Upstream_Proofs` | `ClientTypes`, `StreamReaderNeverStuck` | `TypeOK`, `NeverStuck` | `MuxInv` (of the client) |
| | `AnswersReachTheirCalls` | `NoAnswerLost`, if `IdsApart` | with `IdInv` |
| | `ClientImplementsRequestReply` | refinement of `RequestReply`, if `IdsApart` and `OnlyAnswers` | with `AnswerInv` |
| | `CredentialTypes`, `ProcessesOfTheirKeys` | `CredentialsTypeOK`, `ProcessOfKey` | `ResolutionInv` |
| | `StrongestKept` | `NeverPassedOver` | the same |
| | `ResolvedAsIfAtOnce` | `AsIfAtOnce` | with `EachOnce` |
| `SessionRegistry_Proofs` | `RegistryTypes`, `RowsExpireFirst` | `TypeOK`, `RowNeverOutlivesObject` | `IInv` |
| | `GaugeBelow` | `GaugeNeverOvercounts` | `IInv /\ Storing` |
| | `TurnedAwayOnlyInactive` | `ActiveUntilRestart`, an action property | `IInv /\ Storing /\ Phases` |
| `SessionIdentity_Proofs` | `SessionTypes`, `FreshClients`, `CallsOwnClaims` | `TypeOK`, `FreshClientsMatch`, `CallsUnderOwnClaims` | `IInv` with `TaskInv` |
| | `RecycledWhenChanged` | `RecycleIffChanged`, if no list names a group twice | the same |
| `Authorizer_Proofs` | `AuthorizerTypes`, `ListsAlwaysOrdered`, `AllowedOutranks` | `TypeOK`, `ListsOrdered`, `DenialsOutranked` | `IInv` with `AllowedByList` |
| | `CleanEntriesExact` | `CleanCacheExact` | with `CleanInv` |
| `ToolRouting_Proofs` | `DeniedNeverSent` | `SentIsAllowed`, if `AnywhereSafe` | `Inv` |
| | `MappingLeads` | `TypeOK` | `Sound` |
| | `CallsReachListed`, `PrefixedAlwaysRouted` | `CallReachesListed`, if `NamesApart`; `PrefixedRouted`, if also `HasFallback` | `EpochInv` |
| `Accounts_Proofs` | `AccountsTypes`, `LateRegistrations`, `ClaimsOfRequest`, `HandedTokensStored`, `WholeSchemaServed` | `TypeOK`, `LateIsUser`, `FreshClaims`, `HandedStored`, `SchemaServed` | `ServerInv /\ TableInv /\ RequestsInv` |
| | `DisabledStays` | `StrictStays`, an action property | the same |
| `K8s_Proofs` | `ClusterTypes`, `EnvOfKey`, `InstancesBounded` | `TypeOK`, `OwnEnv`, `LimitOvershoot` | `IInv` with `KeyOfUser`, `SecretEnv`, `PodEnv` |

Why the strengthenings are needed, and how the arguments go:

* `MuxInv` adds to `PendingWaits` that a caller before its registration has an
  empty channel nobody else holds, and that a delivery in hand has its entry
  registered. `pendMu` gives the last one: nothing removes an entry between
  `ReadLine` and `Deliver`.
* `AllocInv` says that a call's id is its serial number, and that every line in a
  pipe, in the child or in readLoop's hand carries a request's own id. `AllocOnly`
  (no forwarded ids, no requests of the child) is needed: TLC violates `OwnAnswer`
  with `RawIDs = {1}`. The refinement maps a call begun to `Ask`, a response or error
  returned to `Answer` or `Fail`, all else to a stutter.
* The client's `MuxInv` is that of the process with what the fallback adds: entries
  are there over SSE only, and the transport does not change while a call is
  registered, because only Initialize changes it, before others may call. `IdInv` says
  that each id belongs to one request, so the deferred delete of a call removes no
  other call's entry; `IdsApart` (forwarded ids are none of `c.nextID`'s, and none
  comes twice) is not up to the gateway, they are the MCP client's choice (section 6);
  `MuxInv` needs neither, so `NeverStuck` holds whatever they are. `AnswerInv` says that
  what is on its way to a caller answers its request, for a server that only answers
  (`OnlyAnswers`).
* `ResolutionInv` says, for a session's place in a resolution, what has been looked
  at: the scopes before that place, in the order of precedence, and for each what was
  there all the time since (`kept`). `EachOnce` says that while at most one row was
  written there is one state of the tables, before or after the write, that agrees with
  all that was read. `CredentialsAssumption` contributes that groups are finite
  sequences. `NeverPassedOver` compares by `Rank`, which leaves open what docs and code
  order differently (section 6); a list that names a group twice does no harm, because
  groups are equals in it.
* `IInv` of the registry adds that a request past its lookup names a session that
  was created, so an install concerns an existing row. Both expiry times fall with
  the same clock, an install copies the row's, and a use raises the object's only.
  `Storing` adds, for the gauge, that an id a create is about to put into the map is
  not there and no other request names it.
* `Phases` says where a session stands until a restart: deleted by a client
  (`Gone`), with a row its creator has yet to register (`Entering`), registered, or out
  of time (`Over`). Registered, its requests hold the registered object, which expires
  no sooner than the inactivity period; one that found it expired did so when the
  period was over, and then the row is too (`RowNeverOutlivesObject`), so
  nothing takes the session out early and nothing brings it back late. A request is
  turned away only in `Gone` and `Over`. A restart ends this: the objects are gone and
  the rows kept their first expiry, so the theorem stops there, as the code does.
* `ServingIsPooled` says that a child with a living readLoop is in the pool under its own
  key: `Missing` and the sweeps take an entry out only with its child closed or its
  readLoop ended, and an over-long line takes the child out of `Serving` before the pool
  can drop its entry. `ServingBounded`
  follows by counting, the map from serving children to keys being one-to-one.
* `TaskInv` says what a goroutine knows that no recycle overtook: it read the
  session's present identity, that identity was allowed, and for a call the token
  agreed with it. Role and groups read apart are consistent for such a goroutine,
  because a recycle in between marks it. `RecycledWhenChanged` counts: a list without
  repetition is as long as its set is large (a bijection), so equal lengths and one
  inclusion make equal sets.
* `AllowedByList` ties a request that goes ahead to its list; outranking is then
  the order of the list and the first match. `CleanInv` says that a load under way
  that nothing changed has all selected policies as the tables have them, the subjects
  of those before `next` included, so what it stores is `Whole`. `WholeExact` then
  compares first match and tables: the first of the matching positions exists
  (`FirstOf`), and with no tie between effects priority decides both.
* `Inv` of the routing says that mapping, parsed routes and calls only hold routes
  whose id is the target's or zero, and that a call past the check passed it for
  the route it holds. `AnywhereSafe` (policies without a target allow nothing a
  target's deny) is needed because a list between `SetClient` and `SetTargetID`
  stores the zero id, which only policies without a target concern. `Sound` adds
  that the routes of the mapping and of a list's pending items are those of the items.
* `EpochInv` ties everything since the last recycle (the mapping, the lists no recycle
  overtook, what the client was shown, the calls under way) to the target that was
  connected alone at first: a bare name was shown for that target only, a prefixed one
  only once several were connected, and connections are only added. The fallback then
  cuts a prefixed name where it was joined, and a bare one reaches its target or none.
  `NamesApart` is needed in both parts: TLC violates `PrefixedRouted` when a target is
  named `h_q` and a policy without a target allows `q_list_repos`, and
  `CallReachesListed` when `h` offers `g_repos` and `g` offers `repos`.
* Accounts: `ServerInv` says that the files before the one at hand are recorded and
  recorded ones applied, which makes the schema whole when the last has been looked at;
  `RequestsInv` what each program counter of a request knows of its own row, token and
  ghosts, for all requests at once, since any step may change the tables under them.
* K8s: `SecretEnv` and `PodEnv` say that the environment of a secret, and of a pod, was
  resolved for some key whose name is the object's, `KeyOfUser` that a goroutine past
  its lookup has a key. They hold for names of any length; a name keeps of a key what
  fits (`NameKeeps`), so the keys that share one start alike (`NameShared`), and that is
  `OwnEnv`. The limit is an induction on a sum: whoever enters `secret` saw fewer
  instances than the limit, and all that may be added since are the other goroutines
  between the check and the creation.

Every safety invariant and action property of the passing runs has a theorem.

Not proved, and left to TLC: the liveness properties (`WrittenCallReturns`,
`CloseReleasesCallers`, `CloseEndsProcess`, `AbandonedPurged`, `IdleStopped`,
`DeadForgotten`, `CallReturns`, `NothingLeft` and the three of `k8s`), since the prover
has neither liveness under fairness nor `ENABLED`. `DenyOverrides` is false. No module
declares a `RECURSIVE` operator, and nothing rests on induction over data.

## 5. Assumptions of the models

* A critical section is one step; a statement is one step of the database; a call of
  the Kubernetes API is one step; each unlocked read of shared state is a step of its
  own. `session.Role` and `session.Groups` are read without their lock: the models let
  the two reads see different states, but not a torn string or slice header.
* Ids from `uuid.New` are never repeated; a subject key's hash is one-to-one.
* Upstream servers and children answer or not, in any order.
* Clocks of gateway, database and cluster agree.
* A migration file is executed as a whole or not at all (pgx sends it as one simple
  query).
* The operator's queue hands a name to one worker at a time, and the API server
  refuses updates of an object that was written since (external, `K8sCluster`).

## 6. Where code and documents differ

Found by a violated run (`PROJECT.json`, findings): `policy_stale`. A denial created
after a target's policies were cached has no effect until a restart.

Met while modelling, present in the models' behaviours, and without a run:

* STDIO process and pool: a forwarded request's own id shares the map with allocated
  ids (process.go:161); a child that wrote an over-long line runs on outside the pool, so
  `max_processes` bounds the children that serve and not, as transports.md:113 has it,
  all concurrent processes, and two may run for one key; `maxLifetime` is read nowhere,
  though transports.md:111 has the process "killed regardless of activity"; gc and a
  session's failed Initialize close processes that others are using; `GetOrCreate`
  works after `Shutdown`.
* Registry: activity never reaches `mcp_sessions.expires_at`, so a restart refuses an
  active session early (session.go:142); a DELETE answers 500 when cleanup already
  removed the row of a living session; a load overtaken by a DELETE puts the session
  back; the gauge falls below zero, since loads do not raise it.
* Identity: an initialize overtaken by a recycle leaves a client with the former
  identity's credentials (proxy.go:147); an initialize on an existing session is not
  compared with the token; role and groups may be read from two identities; a session
  with groups `[a, b]` is not recycled for a token with `[a, a]`, and UpdateUser accepts
  such a list; a second initialize leaks the first one's clients; a role change waits
  for the next login or recycle.
* Policies: a result that breaks off is cached (`rows.Err` is not read); a policy
  for tools alone lets nobody connect, because connecting asks for type `all`.
* Routing: the fallback cuts names at the first underscore and knows no target names
  (proxy.go:679); a list from before a recycle writes the new mapping; two items can
  have one shown name; resources and prompts, which have no fallback, are not found
  while another list is under way; the zero id asks the wrong policies.
* Credentials: docs let groups precede roles for legacy tokens
  (credential-management.md:13), the code takes roles first (repository.go:736), and
  `NeverPassedOver` leaves the two unordered; "If no
  credential can be resolved … the request is denied" (credential-management.md:19),
  but the client connects without one (proxy.go:711); a process shared by role, group
  or all runs with the personal credential of whoever came first; an error of
  `ResolveEnvConfigsForTarget` is only logged; an unreadable `AUTH_TOKEN` keeps a child
  process from the legacy token and no other transport; an unreadable specific value
  hides a readable weaker one; two writes during one resolution can yield a credential
  that was right at no moment; `BulkSetEnvConfigs` is not atomic; group names with
  commas can collide in the subject key.
* Kubernetes: a secret that exists is kept, so a changed environment waits for the
  collector (manager.go:179); an adoption that fails and a secret collected after it
  leave an instance Failed beside a stale pod; an instance that never was Ready is
  never collected as idle; the operator's delete has no uid precondition, and the
  Failed branch of `GetOrCreate` deletes by name too, so either may take a successor; a
  touch of a cached URL may patch a successor; RestartTarget selects by the target's
  present name and forgets the URLs of all targets; a service named in a stale cache
  makes `ensurePod` fail with AlreadyExists and the instance Failed; names longer than
  63 characters lose the key's hash, and two subjects share an instance and its
  environment (manager.go:450, targets may have names of 100); two long names of
  targets may collide as well.
* MCP client: the GET of `connectSSE` has neither context nor timeout and can hold
  Initialize for ever; a notification before the answer in the body of a POST is taken
  for it (`parseSSEResponseBody`); ids of forwarded requests collide with allocated
  ones, and with each other, over SSE, and the answer goes to whoever registered last;
  the session id of a failed HTTP attempt is sent along over SSE; nothing reconnects a
  stream that ended; a `select` may choose `sseDone` though the answer is there.
* Accounts: two overlapping first registrations both become admin, and a crash before
  the promotion leaves none (README.md:102 has the first user get the role
  automatically); overlapping UpdateUser requests lose one update; a login begun before
  a demotion signs an admin token that never expires; a crash between a migration and
  its record inserts the default policies twice; the "graceful shutdown" does not wait
  for handlers.

## 7. Not modelled

`PROJECT.json` lists every component with its status. Configuration, the
documentation server, the frontend, charts, dashboards and the website keep no
protocol state. Telemetry other than the session gauge is write-only.

* The SSE hub (`gateway/sse.go`) and `mcp/transport.go`: nothing publishes to the
  first, and nothing uses `SSETransport` and `ProxySSE` of the second.
* The observability hub: the rest of the gateway only emits into it and reads nothing
  back. Its map is deleted from under a read lock; the only other reader takes its
  length.
* Request logs, statistics, the unused statements of `mcp_instances`, and the
  endpoints that only read.
* Rendering, logging, JSON, bcrypt and AES are data the properties do not look at;
  of an encrypted value the models keep whether it can be decrypted.

## 8. Plan

Done, in this order: `StdioProcess` over `RequestReply`; `SessionRegistry`;
`StdioManager`; `SessionIdentity`; `Authorizer`; `ToolRouting`; `K8sManager`,
`K8sOperator` and `K8s`; `McpClient` over `RequestReply`; `Server` and `Accounts`;
`Credentials`; proofs for all of them.

Next:

1. `ObsHub`: a connected client sees the broadcast without a gap, a slow one costs
   only itself, both pumps of a connection end together.
2. `Session`: the registry composed with identity and routing, to state that a
   deleted or expired session routes nothing more.
3. Proofs: which phases of a session a restart leaves it in.
