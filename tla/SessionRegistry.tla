--------------------------- MODULE SessionRegistry ---------------------------
(***************************************************************************)
(* The session registry (backend/internal/gateway/session.go) with the     *)
(* parts of handler.go that look sessions up, create and delete them, and  *)
(* the mcp_sessions rows of repository.go.                                 *)
(*                                                                         *)
(* A session lives twice: as a row with a fixed expires_at, and as an      *)
(* object in sm.sessions whose ExpiresAt every use extends.  Expiry times  *)
(* are kept as the ticks left; Tick lowers them all, and 0 is expired.     *)
(* Object identity matters, because a request keeps the pointer it got.    *)
(***************************************************************************)
EXTENDS Integers, FiniteSets

CONSTANTS
  Sids,      \* session ids, each created at most once (uuid.New)
  Reqs,      \* request goroutines
  Objs,      \* addresses of Session objects
  NoObj,     \* "not in the map"
  NoSid,     \* no Mcp-Session-Id given
  Timeout,   \* session.timeout in ticks
  Restarts   \* bound on gateway restarts

ASSUME RegistryAssumption ==
  /\ Timeout \in Nat \ {0} /\ Restarts \in Nat
  /\ NoObj \notin Objs /\ NoSid \notin Sids
  /\ IsFiniteSet(Sids) /\ IsFiniteSet(Reqs)

VARIABLES
  row,       \* row[s]: the mcp_sessions row, [live, ttl]
  mem,       \* sm.sessions: s -> object or NoObj
  exp,       \* exp[o]: ticks left until o.ExpiresAt
  req,       \* per request: where it is, what it asks, what it holds
  cleaner,   \* cleanup(): "idle" or between memory and database, "rows"
  gauge,     \* telemetry.MCPSessionsActive, net of this process
  restarts,  \* restarts so far
  born,      \* ghost: ids already created
  known,     \* ghost: ids a client has been told
  closed,    \* ghost: ids a client deleted, their DELETE having returned
  idleLeft   \* ghost: ticks left of the inactivity period of s

vars == <<row, mem, exp, req, cleaner, gauge, restarts, born, known, closed, idleLeft>>

TTL   == 0 .. Timeout
Kinds == {"post", "init", "delete"}
Idle  == [pc |-> "idle", kind |-> "post", sid |-> NoSid, obj |-> NoObj, ttl |-> 0]
NoRow == [live |-> FALSE, ttl |-> 0]

PCs == {"idle", "lookup", "check", "touch", "expired", "read", "loaded", "have",
        "store", "drop", "dropRow", "notfound", "failed", "deleted"}

Init ==
  /\ row = [s \in Sids |-> NoRow]
  /\ mem = [s \in Sids |-> NoObj]
  /\ exp = [o \in Objs |-> 0]
  /\ req = [r \in Reqs |-> Idle]
  /\ cleaner = "idle" /\ gauge = 0 /\ restarts = 0
  /\ born = {} /\ known = {} /\ closed = {}
  /\ idleLeft = [s \in Sids |-> 0]

\* Objects nobody can reach any more: the allocator may hand them out again.
FreeObjs == Objs \ ({mem[s] : s \in Sids} \cup {req[r].obj : r \in Reqs})

\* The address of a new object; which of the free ones it is does not matter.
NewObj == CHOOSE o \in FreeObjs : TRUE

Step(r, from, to) == req[r].pc = from /\ req' = [req EXCEPT ![r].pc = to]

-----------------------------------------------------------------------------
(* Handlers: POST, initialize, DELETE (GET looks up or creates alike) *)

\* A request names a session the client was told about, or none: then
\* initialize goes on to create one and the others fail at once.
Arrive(r, kind, s) ==
  /\ req[r].pc = "idle"
  /\ IF s = NoSid THEN kind = "init" ELSE s \in known
  /\ req' = [req EXCEPT ![r] = [pc |-> IF s = NoSid THEN "have" ELSE "lookup",
                                kind |-> kind, sid |-> s, obj |-> NoObj, ttl |-> 0]]
  /\ UNCHANGED <<row, mem, exp, cleaner, gauge, restarts, born, known, closed, idleLeft>>

\* handlePost and handleSSE are done with the registry once they have the
\* object; handleDelete goes on to DeleteSession; the answers go out.
Finish(r) ==
  /\ \/ req[r].pc \in {"deleted", "failed"}
     \/ req[r].pc = "notfound" /\ req[r].kind # "init"
     \/ req[r].pc = "have" /\ req[r].kind = "post"
     \/ req[r].pc = "have" /\ req[r].kind = "init" /\ req[r].sid # NoSid
  /\ req' = [req EXCEPT ![r] = Idle]
  /\ closed' = IF req[r].kind = "delete" /\ req[r].pc \in {"deleted", "failed"}
               THEN closed \cup {req[r].sid} ELSE closed
  /\ known' = IF req[r].kind = "init" THEN known \cup {req[r].sid} ELSE known
  /\ UNCHANGED <<row, mem, exp, cleaner, gauge, restarts, born, idleLeft>>

\* CreateSession: expiresAt is fixed first, the row is inserted, then the map.
CreateRow(r) ==
  /\ req[r].kind = "init"
  /\ req[r].pc = "notfound" \/ (req[r].pc = "have" /\ req[r].sid = NoSid)
  /\ \E s \in Sids \ born :
       /\ born' = born \cup {s}
       /\ row' = [row EXCEPT ![s] = [live |-> TRUE, ttl |-> Timeout]]
       /\ req' = [req EXCEPT ![r] = [pc |-> "store", kind |-> "init", sid |-> s,
                                     obj |-> NoObj, ttl |-> Timeout]]
       /\ idleLeft' = [idleLeft EXCEPT ![s] = Timeout]
  /\ UNCHANGED <<mem, exp, cleaner, gauge, restarts, known, closed>>

\* Every install puts a new object under the id, whatever is there already.
Install(r) ==
  /\ FreeObjs # {}
  /\ mem' = [mem EXCEPT ![req[r].sid] = NewObj]
  /\ exp' = [exp EXCEPT ![NewObj] = req[r].ttl]
  /\ req' = [req EXCEPT ![r].pc = "have", ![r].obj = NewObj, ![r].ttl = 0]

CreateStore(r) ==
  /\ req[r].pc = "store"
  /\ Install(r)
  /\ gauge' = gauge + 1
  /\ UNCHANGED <<row, cleaner, restarts, born, known, closed, idleLeft>>

-----------------------------------------------------------------------------
(* GetSession *)

Lookup(r) ==
  /\ req[r].pc = "lookup"
  /\ req' = [req EXCEPT ![r].obj = mem[req[r].sid],
                        ![r].pc = IF mem[req[r].sid] = NoObj THEN "read" ELSE "check"]
  /\ UNCHANGED <<row, mem, exp, cleaner, gauge, restarts, born, known, closed, idleLeft>>

\* time.Now().After(session.ExpiresAt), read without the session's lock ...
CheckExpiry(r) ==
  /\ Step(r, "check", IF exp[req[r].obj] = 0 THEN "expired" ELSE "touch")
  /\ UNCHANGED <<row, mem, exp, cleaner, gauge, restarts, born, known, closed, idleLeft>>

\* A use counts as activity of the session unless it lost the race against
\* the expiry: its object is no longer registered, has expired since the
\* check, or another request has already found it expired.
CountsAsUse(r) ==
  /\ mem[req[r].sid] = req[r].obj /\ exp[req[r].obj] > 0
  /\ \A q \in Reqs : ~(req[q].pc = "expired" /\ req[q].sid = req[r].sid)

\* Mutant: the activity is recorded in the database only.
Touch_DatabaseOnly(r) ==
  /\ Step(r, "touch", "have")
  /\ idleLeft' = IF CountsAsUse(r)
                 THEN [idleLeft EXCEPT ![req[r].sid] = Timeout] ELSE idleLeft
  /\ UNCHANGED <<row, mem, exp, cleaner, gauge, restarts, born, known, closed>>

\* Mutant: the activity update extends the row's expires_at as well.
Touch_ExtendsRow(r) ==
  /\ Step(r, "touch", "have")
  /\ exp' = [exp EXCEPT ![req[r].obj] = Timeout]
  /\ row' = [row EXCEPT ![req[r].sid].ttl = IF row[req[r].sid].live THEN Timeout ELSE 0]
  /\ idleLeft' = IF CountsAsUse(r)
                 THEN [idleLeft EXCEPT ![req[r].sid] = Timeout] ELSE idleLeft
  /\ UNCHANGED <<mem, cleaner, gauge, restarts, born, known, closed>>

\* ... and ExpiresAt moved under it.  UpdateMCPSessionActivity leaves the
\* row's expires_at alone.
Touch(r) ==
  /\ Step(r, "touch", "have")
  /\ exp' = [exp EXCEPT ![req[r].obj] = Timeout]
  /\ idleLeft' = IF CountsAsUse(r)
                 THEN [idleLeft EXCEPT ![req[r].sid] = Timeout] ELSE idleLeft
  /\ UNCHANGED <<row, mem, cleaner, gauge, restarts, born, known, closed>>

\* A miss reads the row; an expired row is deleted.
ReadRow(r) ==
  LET s == req[r].sid IN
  /\ req[r].pc = "read"
  /\ IF row[s].live /\ row[s].ttl > 0
     THEN /\ req' = [req EXCEPT ![r].pc = "loaded", ![r].ttl = row[s].ttl]
          /\ UNCHANGED row
     ELSE /\ req' = [req EXCEPT ![r].pc = "notfound"]
          /\ row' = [row EXCEPT ![s] = NoRow]
  /\ UNCHANGED <<mem, exp, cleaner, gauge, restarts, born, known, closed, idleLeft>>

\* The session read from the row goes into the map unconditionally, and the
\* gauge is not raised.
LoadStore(r) ==
  /\ req[r].pc = "loaded"
  /\ Install(r)
  /\ UNCHANGED <<row, cleaner, gauge, restarts, born, known, closed, idleLeft>>

-----------------------------------------------------------------------------
(* DeleteSession, from handleDelete and from an expired hit *)

DropObject(r) ==
  LET s == req[r].sid IN
  /\ \/ req[r].pc = "have" /\ req[r].kind = "delete"
     \/ req[r].pc = "expired"
  /\ gauge' = IF mem[s] = NoObj THEN gauge ELSE gauge - 1
  /\ mem' = [mem EXCEPT ![s] = NoObj]
  /\ req' = [req EXCEPT ![r].pc = IF @ = "have" THEN "drop" ELSE "dropRow", ![r].obj = NoObj]
  /\ UNCHANGED <<row, exp, cleaner, restarts, born, known, closed, idleLeft>>

\* DeleteMCPSession fails when there is no row; an expired hit ignores that.
DropRow(r) ==
  LET s == req[r].sid IN
  /\ req[r].pc \in {"drop", "dropRow"}
  /\ row' = [row EXCEPT ![s] = NoRow]
  /\ req' = [req EXCEPT ![r].pc = IF @ = "dropRow" THEN "notfound"
                                  ELSE IF row[s].live THEN "deleted" ELSE "failed"]
  /\ UNCHANGED <<mem, exp, cleaner, gauge, restarts, born, known, closed, idleLeft>>

-----------------------------------------------------------------------------
(* cleanup, restart and time *)

ExpiredSids == {s \in Sids : mem[s] # NoObj /\ exp[mem[s]] = 0}

\* Mutant: expired sessions leave the map but not the gauge.
CleanupMemory_NoGauge ==
  /\ cleaner = "idle"
  /\ mem' = [s \in Sids |-> IF s \in ExpiredSids THEN NoObj ELSE mem[s]]
  /\ cleaner' = "rows"
  /\ UNCHANGED <<row, exp, req, gauge, restarts, born, known, closed, idleLeft>>

CleanupMemory ==
  /\ cleaner = "idle"
  /\ mem' = [s \in Sids |-> IF s \in ExpiredSids THEN NoObj ELSE mem[s]]
  /\ gauge' = gauge - Cardinality(ExpiredSids)
  /\ cleaner' = "rows"
  /\ UNCHANGED <<row, exp, req, restarts, born, known, closed, idleLeft>>

\* Mutant: cleanup never reaches the database.
CleanupRows_Skipped ==
  /\ cleaner = "rows" /\ cleaner' = "idle"
  /\ UNCHANGED <<row, mem, exp, req, gauge, restarts, born, known, closed, idleLeft>>

\* DELETE FROM mcp_sessions WHERE expires_at < NOW()
CleanupRows ==
  /\ cleaner = "rows" /\ cleaner' = "idle"
  /\ row' = [s \in Sids |-> IF row[s].ttl = 0 THEN NoRow ELSE row[s]]
  /\ UNCHANGED <<mem, exp, req, gauge, restarts, born, known, closed, idleLeft>>

\* The gateway process dies: memory goes, the rows stay.
Restart ==
  /\ restarts < Restarts
  /\ restarts' = restarts + 1
  /\ mem' = [s \in Sids |-> NoObj]
  /\ req' = [r \in Reqs |-> Idle]
  /\ exp' = [o \in Objs |-> 0]
  /\ cleaner' = "idle" /\ gauge' = 0
  /\ UNCHANGED <<row, born, known, closed, idleLeft>>

Less(n) == IF n > 0 THEN n - 1 ELSE 0

Tick ==
  /\ row' = [s \in Sids |-> [row[s] EXCEPT !.ttl = Less(@)]]
  /\ exp' = [o \in Objs |-> Less(exp[o])]
  /\ req' = [r \in Reqs |-> [req[r] EXCEPT !.ttl = Less(@)]]
  /\ idleLeft' = [s \in Sids |-> Less(idleLeft[s])]
  /\ UNCHANGED <<mem, cleaner, gauge, restarts, born, known, closed>>

-----------------------------------------------------------------------------
RequestStep(r) ==
  \/ Finish(r) \/ CreateRow(r) \/ CreateStore(r) \/ Lookup(r) \/ CheckExpiry(r)
  \/ Touch(r) \/ ReadRow(r) \/ LoadStore(r) \/ DropObject(r) \/ DropRow(r)

Next ==
  \/ \E r \in Reqs : RequestStep(r)
  \/ \E r \in Reqs, kind \in Kinds, s \in Sids \cup {NoSid} : Arrive(r, kind, s)
  \/ CleanupMemory \/ CleanupRows \/ Restart \/ Tick

Spec == Init /\ [][Next]_vars

\* Requests make progress, the cleanup goroutine and time go on; nobody is
\* obliged to send requests.
FairSpec ==
  /\ Spec
  /\ \A r \in Reqs : WF_vars(RequestStep(r))
  /\ WF_vars(CleanupMemory) /\ WF_vars(CleanupRows) /\ WF_vars(Tick)

-----------------------------------------------------------------------------
(* Properties *)

\* Types of the variables.
TypeOK ==
  /\ row \in [Sids -> [live : BOOLEAN, ttl : TTL]]
  /\ mem \in [Sids -> Objs \cup {NoObj}]
  /\ exp \in [Objs -> TTL]
  /\ req \in [Reqs -> [pc : PCs, kind : Kinds, sid : Sids \cup {NoSid},
                       obj : Objs \cup {NoObj}, ttl : TTL]]
  /\ cleaner \in {"idle", "rows"}
  /\ gauge \in Int /\ restarts \in 0 .. Restarts
  /\ born \subseteq Sids /\ known \subseteq born /\ closed \subseteq Sids
  /\ idleLeft \in [Sids -> TTL]

\* A row never outlives the object that serves its session, or the one a
\* request is about to install: a session that timed out in memory cannot
\* come back from its row.
RowNeverOutlivesObject ==
  \A s \in Sids : row[s].live =>
    /\ mem[s] # NoObj => row[s].ttl <= exp[mem[s]]
    /\ \A r \in Reqs : req[r].sid = s /\ req[r].pc \in {"loaded", "store"} =>
                         row[s].ttl <= req[r].ttl

\* The step turns no request away with "not found or expired" while its
\* session is within the inactivity timeout and no client deleted it.
RefusesOnlyInactive ==
  \A r \in Reqs : LET s == req[r].sid IN
    req[r].pc # "notfound" /\ req'[r].pc = "notfound" =>
      \/ idleLeft[s] = 0
      \/ \E d \in Reqs : req[d].kind = "delete" /\ req[d].sid = s
      \/ s \in closed

\* A request is turned away only when the inactivity timeout has passed since
\* the session was last used, or the client deleted it ("session times out
\* after inactivity"), whatever requests, deletions and the cleanup goroutine do
\* between GetSession's steps.  A restart breaks it: the row kept its first expiry.
ActiveUntilRestart == [][restarts = 0 => RefusesOnlyInactive]_vars

\* The gauge never shows more sessions than the map holds.
GaugeNeverOvercounts == gauge <= Cardinality({s \in Sids : mem[s] # NoObj})

\* A session that is no longer used disappears from memory and database.
AbandonedPurged ==
  \A s \in Sids :
    (<>[](\A r \in Reqs : req[r].sid # s))
      => <>[](mem[s] = NoObj /\ ~row[s].live)
=============================================================================
