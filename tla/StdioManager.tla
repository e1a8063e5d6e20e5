----------------------------- MODULE StdioManager -----------------------------
(***************************************************************************)
(* The pool of STDIO processes (backend/internal/stdio/manager.go), the    *)
(* parts of process.go that decide whether a process counts as alive, and  *)
(* the way proxy.go uses both while it initializes a session.              *)
(*                                                                         *)
(* A process has a child (running) and a readLoop (reading): IsAlive asks  *)
(* about the readLoop only.  m.mu is held through a whole sweep, closing   *)
(* included, and through GetOrCreate; users of a process never take it.    *)
(* maxLifetime is stored by NewManager and read nowhere.                   *)
(***************************************************************************)
EXTENDS Integers, FiniteSets

CONSTANTS
  Keys,          \* subject keys
  Procs,         \* processes; one that nobody refers to any more is reused
  Users,         \* goroutines that initialize a target and then call it
  NoProc, NoKey,
  MaxProcesses,
  IdleTTL,       \* in ticks
  LongLine       \* may a child write a line over the scanner's limit?

ASSUME ManagerAssumption ==
  /\ MaxProcesses \in Nat \ {0} /\ IdleTTL \in Nat /\ LongLine \in BOOLEAN
  /\ NoProc \notin Procs /\ NoKey \notin Keys
  /\ Keys # {} /\ IsFiniteSet(Keys) /\ IsFiniteSet(Procs)

VARIABLES
  pool,      \* m.processes
  running,   \* processes whose child runs
  reading,   \* processes whose readLoop runs: IsAlive
  input,     \* processes whose stdin is open
  unused,    \* ticks since lastUsed, counted while readLoop runs: gc asks then only
  key,       \* subjectKey of each process
  user,      \* per user: [pc, proc]
  holder,    \* who holds m.mu between steps: "none", "gc", "shutdown"
  left,      \* keys the sweep has yet to visit
  idle,      \* processes idle when gc read the clock and not used since
  cur,       \* [key, closing]: the process the sweep is closing
  stopped    \* Shutdown was called

poolVars ==
  <<pool, running, reading, input, unused, key, user, holder, left, idle, cur, stopped>>

NoCur  == [key |-> NoKey, closing |-> FALSE]
Away   == [pc |-> "away", proc |-> NoProc]
Pooled == {k \in Keys : pool[k] # NoProc}

PoolInit ==
  /\ pool = [k \in Keys |-> NoProc]
  /\ running = {} /\ reading = {} /\ input = {}
  /\ unused = [p \in Procs |-> 0]
  /\ key \in [Procs -> {CHOOSE k \in Keys : TRUE}]
  /\ user = [u \in Users |-> Away]
  /\ holder = "none" /\ left = {} /\ idle = {} /\ cur = NoCur /\ stopped = FALSE

IsAlive(p) == p \in reading

Unreferenced(p) ==
  /\ p \notin running \cup reading
  /\ \A k \in Keys : pool[k] # p
  /\ \A u \in Users : user[u].proc # p

-----------------------------------------------------------------------------
(* GetOrCreate, under m.mu *)

Hit(u, k) ==
  /\ holder = "none" /\ user[u].pc = "away"
  /\ pool[k] # NoProc /\ IsAlive(pool[k])
  /\ user' = [user EXCEPT ![u] = [pc |-> "got", proc |-> pool[k]]]
  /\ UNCHANGED <<pool, running, reading, input, unused, key, holder, left, idle, cur, stopped>>

\* Mutant: a process that was told to close counts as gone.
Missing_Closing(k) == pool[k] # NoProc => pool[k] \notin reading \cap input

Missing(k) == pool[k] # NoProc => ~IsAlive(pool[k])

\* Mutant: the capacity test lets one more in.
Spawn_OffByOne(u, k, p) ==
  /\ holder = "none" /\ user[u].pc = "away"
  /\ Missing(k) /\ Unreferenced(p)
  /\ Cardinality(Pooled \ {k}) <= MaxProcesses
  /\ pool' = [pool EXCEPT ![k] = p]
  /\ running' = running \cup {p} /\ reading' = reading \cup {p} /\ input' = input \cup {p}
  /\ unused' = [unused EXCEPT ![p] = 0]
  /\ key' = [key EXCEPT ![p] = k]
  /\ user' = [user EXCEPT ![u] = [pc |-> "got", proc |-> p]]
  /\ UNCHANGED <<holder, left, idle, cur, stopped>>

\* A dead entry is dropped, then the capacity is checked.
Spawn(u, k, p) ==
  /\ holder = "none" /\ user[u].pc = "away"
  /\ Missing(k) /\ Unreferenced(p)
  /\ Cardinality(Pooled \ {k}) < MaxProcesses
  /\ pool' = [pool EXCEPT ![k] = p]
  /\ running' = running \cup {p} /\ reading' = reading \cup {p} /\ input' = input \cup {p}
  /\ unused' = [unused EXCEPT ![p] = 0]
  /\ key' = [key EXCEPT ![p] = k]
  /\ user' = [user EXCEPT ![u] = [pc |-> "got", proc |-> p]]
  /\ UNCHANGED <<holder, left, idle, cur, stopped>>

\* At capacity, or the command does not start: only the dead entry goes.
Refuse(u, k) ==
  /\ holder = "none" /\ user[u].pc = "away"
  /\ Missing(k)
  /\ pool' = [pool EXCEPT ![k] = NoProc]
  /\ UNCHANGED <<running, reading, input, unused, key, user, holder, left, idle, cur, stopped>>

-----------------------------------------------------------------------------
(* InitializeSession's goroutine for one target, and the session after it *)

\* Every request stores lastUsed, whatever became of the process.
Request(u, from, to) ==
  /\ user[u].pc = from
  /\ unused' = [unused EXCEPT ![user[u].proc] = 0]
  /\ idle' = idle \ {user[u].proc}
  /\ user' = [user EXCEPT ![u].pc = to]
  /\ UNCHANGED <<pool, running, reading, input, key, holder, left, cur, stopped>>

StartInit(u) == Request(u, "got", "init")
CallTool(u)  == Request(u, "session", "session")

InitOk(u) ==
  /\ user[u].pc = "init"
  /\ user[u].proc \in running \cap reading \cap input
  /\ user' = [user EXCEPT ![u].pc = "session"]
  /\ UNCHANGED <<pool, running, reading, input, unused, key, holder, left, idle, cur, stopped>>

\* An error answer, a timeout or a dead process: the proxy closes the client,
\* although other sessions may hold the same process.
InitFail(u) ==
  /\ user[u].pc = "init"
  /\ input' = input \ {user[u].proc}
  /\ user' = [user EXCEPT ![u].pc = "closing"]
  /\ UNCHANGED <<pool, running, reading, unused, key, holder, left, idle, cur, stopped>>

\* Close returns once the child has exited, killed after 5 s if need be.
InitClosed(u) ==
  /\ user[u].pc = "closing"
  /\ running' = running \ {user[u].proc}
  /\ user' = [user EXCEPT ![u] = Away]
  /\ UNCHANGED <<pool, reading, input, unused, key, holder, left, idle, cur, stopped>>

\* A session that ends leaves its STDIO process alone.
Leave(u) ==
  /\ user[u].pc = "session"
  /\ user' = [user EXCEPT ![u] = Away]
  /\ UNCHANGED <<pool, running, reading, input, unused, key, holder, left, idle, cur, stopped>>

-----------------------------------------------------------------------------
(* gc and Shutdown, holding m.mu *)

Idle(p) == unused[p] > IdleTTL

Start(who) ==
  /\ holder = "none" /\ ~stopped
  /\ holder' = who /\ left' = Pooled /\ idle' = {p \in Procs : who = "gc" /\ Idle(p)}
  /\ stopped' = (who = "shutdown")
  /\ UNCHANGED <<pool, running, reading, input, unused, key, user, cur>>

\* Mutant: gc leaves dead entries for GetOrCreate to find.
SweepDead_Skipped(k) ==
  /\ holder = "gc" /\ cur = NoCur /\ k \in left /\ ~IsAlive(pool[k])
  /\ left' = left \ {k}
  /\ UNCHANGED <<pool, running, reading, input, unused, key, user, holder, idle, cur, stopped>>

SweepDead(k) ==
  /\ holder = "gc" /\ cur = NoCur /\ k \in left /\ ~IsAlive(pool[k])
  /\ pool' = [pool EXCEPT ![k] = NoProc]
  /\ left' = left \ {k}
  /\ UNCHANGED <<running, reading, input, unused, key, user, holder, idle, cur, stopped>>

SweepKeep(k) ==
  /\ holder = "gc" /\ cur = NoCur /\ k \in left /\ IsAlive(pool[k]) /\ pool[k] \notin idle
  /\ left' = left \ {k}
  /\ UNCHANGED <<pool, running, reading, input, unused, key, user, holder, idle, cur, stopped>>

\* The decision to stop a process: gc for an idle one, Shutdown for all ...
SweepPick(k) ==
  /\ cur = NoCur /\ k \in left
  /\ holder = "gc" => IsAlive(pool[k]) /\ pool[k] \in idle
  /\ left' = left \ {k} /\ cur' = [key |-> k, closing |-> FALSE]
  /\ UNCHANGED <<pool, running, reading, input, unused, key, user, holder, idle, stopped>>

\* ... then Close ends its input ...
SweepClose ==
  /\ cur # NoCur /\ ~cur.closing
  /\ input' = input \ {pool[cur.key]}
  /\ cur' = [cur EXCEPT !.closing = TRUE]
  /\ UNCHANGED <<pool, running, reading, unused, key, user, holder, left, idle, stopped>>

\* Mutant: a child that does not exit in time is left alone.
SweepClosed_NoKill ==
  /\ cur # NoCur /\ cur.closing
  /\ pool' = [pool EXCEPT ![cur.key] = NoProc]
  /\ cur' = NoCur
  /\ UNCHANGED <<running, reading, input, unused, key, user, holder, left, idle, stopped>>

\* ... waits for the child, kills it after 5 s, and the entry goes.
SweepClosed ==
  /\ cur # NoCur /\ cur.closing
  /\ running' = running \ {pool[cur.key]}
  /\ pool' = [pool EXCEPT ![cur.key] = NoProc]
  /\ cur' = NoCur
  /\ UNCHANGED <<reading, input, unused, key, user, holder, left, idle, stopped>>

SweepEnd ==
  /\ holder # "none" /\ left = {} /\ cur = NoCur
  /\ holder' = "none" /\ idle' = {}
  /\ UNCHANGED <<pool, running, reading, input, unused, key, user, left, cur, stopped>>

-----------------------------------------------------------------------------
(* Children, readLoop and time *)

\* A child exits by itself, or because its stdin ended.
Exit(p) ==
  /\ p \in running
  /\ running' = running \ {p}
  /\ UNCHANGED <<pool, reading, input, unused, key, user, holder, left, idle, cur, stopped>>

\* readLoop ends at the end of the output, or when the scanner refuses a
\* line over 10 MB while the child runs on.
ReaderEnds(p) ==
  /\ p \in reading
  /\ p \notin running \/ LongLine
  /\ reading' = reading \ {p}
  /\ unused' = [unused EXCEPT ![p] = 0]
  /\ UNCHANGED <<pool, running, input, key, user, holder, left, idle, cur, stopped>>

Tick ==
  /\ unused' = [p \in Procs |->
                  IF p \in reading /\ unused[p] <= IdleTTL THEN unused[p] + 1 ELSE unused[p]]
  /\ UNCHANGED <<pool, running, reading, input, key, user, holder, left, idle, cur, stopped>>

-----------------------------------------------------------------------------
GetOrCreate(u) ==
  \E k \in Keys : Hit(u, k) \/ Refuse(u, k) \/ \E p \in Procs : Spawn(u, k, p)

UserStep(u) == StartInit(u) \/ InitOk(u) \/ InitFail(u) \/ InitClosed(u)

Sweep ==
  \/ \E k \in Keys : SweepDead(k) \/ SweepKeep(k) \/ SweepPick(k)
  \/ SweepClose \/ SweepClosed \/ SweepEnd

PoolNext ==
  \/ \E u \in Users : GetOrCreate(u) \/ UserStep(u) \/ CallTool(u) \/ Leave(u)
  \/ Start("gc") \/ Start("shutdown") \/ Sweep
  \/ \E p \in Procs : Exit(p) \/ ReaderEnds(p)
  \/ Tick

PoolSpec == PoolInit /\ [][PoolNext]_poolVars

\* gcLoop and its ticker, a sweep under way and the clock go on, and a readLoop
\* sees the end of its output; children, sessions and the operator owe nothing.
FairPoolSpec ==
  /\ PoolSpec
  /\ WF_poolVars(Start("gc") \/ Sweep) /\ WF_poolVars(Tick)
  /\ \A p \in Procs : WF_poolVars(ReaderEnds(p) /\ p \notin running)

-----------------------------------------------------------------------------
(* Properties *)

\* Types of the variables; a sweep has keys to visit or a process to close
\* only while it holds m.mu.
PoolTypeOK ==
  /\ pool \in [Keys -> Procs \cup {NoProc}]
  /\ running \subseteq Procs /\ reading \subseteq Procs /\ input \subseteq Procs
  /\ unused \in [Procs -> 0 .. IdleTTL + 1]
  /\ key \in [Procs -> Keys]
  /\ user \in [Users -> [pc : {"away", "got", "init", "session", "closing"},
                         proc : Procs \cup {NoProc}]]
  /\ holder \in {"none", "gc", "shutdown"} /\ stopped \in BOOLEAN
  /\ left \subseteq Pooled /\ idle \subseteq Procs
  /\ cur = NoCur \/ (cur \in [key : Pooled, closing : BOOLEAN] /\ cur.key \notin left)
  /\ holder = "none" => left = {} /\ cur = NoCur

\* Children a session may talk to: the child runs and somebody reads from it.
\* A line over the scanner's limit ends the readLoop of a running child; that
\* child is not among these any more, and the pool forgets it.
Serving == running \cap reading

\* Sessions with one subject key share one process: two children that serve
\* never run for the same key (per-user credentials live in the child's
\* environment), whoever closes, collects or replaces a process.
OneServingPerKey ==
  \A p, q \in Serving : key[p] = key[q] => p = q

\* No more children serve than max_processes allows.  transports.md:113 calls
\* it a hard limit on concurrent processes; of all running children it does
\* not hold, since a child that wrote an over-long line runs on.
ServingBounded == Cardinality(Serving) <= MaxProcesses

\* A serving process without requests for longer than the idle TTL is
\* stopped, or used again ("killed if no requests"), as long as the gateway
\* runs and the process serves.
IdleStopped ==
  \A p \in Procs :
    (p \in Serving /\ unused[p] > IdleTTL)
      ~> (p \notin Serving \/ unused[p] <= IdleTTL \/ stopped)

\* A process whose child or readLoop has ended does not occupy its place in
\* the pool for ever.
DeadForgotten ==
  \A k \in Keys : (pool[k] # NoProc /\ pool[k] \notin Serving)
                    ~> (pool[k] = NoProc \/ pool[k] \in Serving \/ stopped)
=============================================================================
