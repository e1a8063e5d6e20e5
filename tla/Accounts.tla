------------------------------ MODULE Accounts -------------------------------
(***************************************************************************)
(* Users and API tokens (backend/internal/api/handlers.go, backend/        *)
(* internal/auth) in a gateway that may stop between any two statements.   *)
(* A request is a goroutine; every statement of the repository is a step.  *)
(*                                                                         *)
(* A user is its email, groups are left out (role stands for the claims);  *)
(* a JWT is its jti: the signature keeps user and role as they were signed *)
(* and there is no expiry.                                                 *)
(***************************************************************************)
EXTENDS Server, FiniteSets

CONSTANTS
  Requests,   \* goroutines of the HTTP server
  Emails,
  MaxTokens   \* bound on the tokens ever signed

ASSUME AccountsAssumption ==
  /\ IsFiniteSet(Emails) /\ MaxTokens \in Nat

Roles == {"user", "admin"}
Jtis  == 1 .. MaxTokens

VARIABLES
  users,    \* the table: role by email, "none" without a row
  tokens,   \* api_tokens by jti, with the claims that were signed: [state, who, role]
  handed,   \* ghost: tokens that were answered to a client
  req       \* per request: see NoReq

tables == <<users, tokens, handed>>
vars == <<serverVars, tables, req>>

\* who: the user concerned; tok: the token presented; jti: revoked or new; set: the
\* new role, or "keep" if only the groups change; role: as read.  Ghosts: empty, no
\* user existed when it began; held, the roles of its user since.
NoReq == [pc |-> "idle", op |-> "", who |-> "", tok |-> 0, jti |-> 0, set |-> "keep",
          role |-> "none", empty |-> FALSE, held |-> {}]

NoToken == [state |-> "none", who |-> "", role |-> "none"]

Init ==
  /\ ServerInit
  /\ users = [e \in Emails |-> "none"]
  /\ tokens = [j \in Jtis |-> NoToken]
  /\ handed = {}
  /\ req = [r \in Requests |-> NoReq]

NoUser == \A e \in Emails : users[e] = "none"
Fresh  == {j \in Jtis : tokens[j] = NoToken}

-----------------------------------------------------------------------------
(* Requests *)

Begin(r, pc, new) ==
  /\ phase = "serving" /\ req[r].pc = "idle"
  /\ req' = [req EXCEPT ![r] = [new EXCEPT !.pc = pc]]
  /\ UNCHANGED <<serverVars, tables>>

Register(r, e) ==
  Begin(r, "count", [NoReq EXCEPT !.op = "register", !.who = e, !.empty = NoUser])

Login(r, e) ==
  Begin(r, "read", [NoReq EXCEPT !.op = "login", !.who = e, !.held = {users[e]}])

\* The requests that present a token.
Present(r, j, new) ==
  j \in handed /\ Begin(r, "auth", [new EXCEPT !.tok = j])

CreateAPIToken(r, j) ==
  LET e == tokens[j].who IN
  e \in Emails /\ Present(r, j, [NoReq EXCEPT !.op = "token", !.who = e, !.held = {users[e]}])

RevokeAPIToken(r, j, k) ==
  k \in handed /\ Present(r, j, [NoReq EXCEPT !.op = "revoke", !.jti = k])

UpdateUser(r, j, e, set) ==
  users[e] # "none" /\ Present(r, j, [NoReq EXCEPT !.op = "update", !.who = e, !.set = set])

\* A statement of r's.
Query(r, at) == Running /\ req[r].pc = at

\* A refusal, an error of the database or the end of the client: 4xx or 5xx.
Fail(r) ==
  /\ Running /\ req[r].pc # "idle"
  /\ req' = [req EXCEPT ![r] = NoReq]
  /\ UNCHANGED <<serverVars, tables>>

Pass(r, pc) ==
  req' = [req EXCEPT ![r].pc = pc, ![r].tok = 0,
                     ![r].op = IF @ = "token" THEN "login" ELSE @]

\* The middleware; UpdateUser trusts the role in the claims, and RevokeAPIToken
\* finds tokens of the caller's only.
Authenticate(r) ==
  /\ Query(r, "auth") /\ tokens[req[r].tok].state = "valid"
  /\ \/ req[r].op = "token" /\ Pass(r, "read")
     \/ req[r].op = "revoke" /\ tokens[req[r].jti].who = tokens[req[r].tok].who /\ Pass(r, "revoke")
     \/ req[r].op = "update" /\ tokens[req[r].tok].role = "admin" /\ Pass(r, "read")
  /\ UNCHANGED <<serverVars, tables>>

\* Mutant: counts administrators.
CountUsers_Admins(r) ==
  /\ Query(r, "count")
  /\ req' = [req EXCEPT ![r].pc = "create",
       ![r].set = IF \A e \in Emails : users[e] # "admin" THEN "admin" ELSE "keep"]
  /\ UNCHANGED <<serverVars, tables>>

CountUsers(r) ==
  /\ Query(r, "count")
  /\ req' = [req EXCEPT ![r].pc = "create", ![r].set = IF NoUser THEN "admin" ELSE "keep"]
  /\ UNCHANGED <<serverVars, tables>>

\* Whoever issues a token for this user has seen the new role, if it had one.
Witness(e, role, r, new) ==
  [q \in Requests |-> IF q = r THEN new
                      ELSE IF req[q].who = e /\ req[q].held # {}
                      THEN [req[q] EXCEPT !.held = @ \cup {role}] ELSE req[q]]

\* The row that was read or written becomes the claims of a new token.
Issue(r, role, held) ==
  [NoReq EXCEPT !.pc = "store", !.who = req[r].who, !.role = role, !.held = held]

\* The address is unique; who counted no user promotes the new one.
CreateUser(r) ==
  LET e == req[r].who
      next == IF req[r].set = "admin"
              THEN [req[r] EXCEPT !.pc = "read", !.empty = FALSE, !.held = {"user"}]
              ELSE Issue(r, "user", {"user"})
  IN
  /\ Query(r, "create") /\ users[e] = "none"
  /\ users' = [users EXCEPT ![e] = "user"]
  /\ req' = Witness(e, "user", r, next)
  /\ UNCHANGED <<serverVars, tokens, handed>>

\* Mutant: the role is the one in the claims of the token presented.
ReadUser_Claims(r) ==
  LET mine == {j \in handed : tokens[j].who = req[r].who} IN
  /\ Query(r, "read") /\ users[req[r].who] # "none"
  /\ \E role \in {users[req[r].who]} \cup {tokens[j].role : j \in mine} :
       req' = [req EXCEPT ![r] = IF @.op \in {"register", "update"}
                                 THEN [@ EXCEPT !.pc = "write", !.role = role]
                                 ELSE Issue(r, role, @.held)]
  /\ UNCHANGED <<serverVars, tables>>

\* GetUserByID, GetUserByEmail; the password is right.
ReadUser(r) ==
  /\ Query(r, "read") /\ users[req[r].who] # "none"
  /\ req' = [req EXCEPT ![r] = IF @.op \in {"register", "update"}
                               THEN [@ EXCEPT !.pc = "write", !.role = users[req[r].who]]
                               ELSE Issue(r, users[@.who], @.held)]
  /\ UNCHANGED <<serverVars, tables>>

\* The rest of repository.UpdateUser: role and groups are both written, the one
\* that was not asked for as it was read.
WriteUser(r) ==
  LET e == req[r].who
      new == IF req[r].set = "keep" THEN req[r].role ELSE req[r].set
  IN
  /\ Query(r, "write")
  /\ users' = [users EXCEPT ![e] = new]
  /\ req' = Witness(e, new, r,
       IF req[r].op = "update" THEN NoReq
       ELSE Issue(r, new, req[r].held \cup {new}))
  /\ UNCHANGED <<serverVars, tokens, handed>>

Signed(r, state) == [state |-> state, who |-> req[r].who, role |-> req[r].role]

\* Mutant: the answer does not wait for the row.
StoreToken_Later(r) ==
  /\ Query(r, "store")
  /\ \E j \in Fresh, state \in {"none", "valid"} :
       /\ j - 1 \notin Fresh
       /\ tokens' = [tokens EXCEPT ![j] = Signed(r, state)]
       /\ req' = [req EXCEPT ![r] = [NoReq EXCEPT !.pc = "answer", !.jti = j, !.held = req[r].held]]
  /\ UNCHANGED <<serverVars, users, handed>>

\* GenerateToken signs what was read; nobody sees the token before its row is there.
StoreToken(r) ==
  /\ Query(r, "store")
  /\ \E j \in Fresh :
       /\ j - 1 \notin Fresh
       /\ tokens' = [tokens EXCEPT ![j] = Signed(r, "valid")]
       /\ req' = [req EXCEPT ![r] = [NoReq EXCEPT !.pc = "answer", !.jti = j, !.held = req[r].held]]
  /\ UNCHANGED <<serverVars, users, handed>>

RevokeToken(r) ==
  /\ Query(r, "revoke")
  /\ tokens' = [tokens EXCEPT ![req[r].jti].state = "revoked"]
  /\ req' = [req EXCEPT ![r] = NoReq]
  /\ UNCHANGED <<serverVars, users, handed>>

\* With the token; of the others only the success is answered.
Answer(r) ==
  /\ Running /\ req[r].pc = "answer"
  /\ handed' = handed \cup {req[r].jti}
  /\ req' = [req EXCEPT ![r] = NoReq]
  /\ UNCHANGED <<serverVars, users, tokens>>

RequestStep(r) ==
  \/ Authenticate(r) \/ CountUsers(r) \/ CreateUser(r) \/ ReadUser(r) \/ WriteUser(r)
  \/ StoreToken(r) \/ RevokeToken(r) \/ Answer(r) \/ Fail(r)

NewRequest(r) ==
  \/ \E e \in Emails : Register(r, e) \/ Login(r, e)
  \/ \E j \in Jtis :
       \/ CreateAPIToken(r, j)
       \/ \E k \in Jtis : RevokeAPIToken(r, j, k)
       \/ \E e \in Emails, set \in Roles \cup {"keep"} : UpdateUser(r, j, e, set)

\* With the process go its requests.
Stop ==
  /\ Exit \/ Crash \/ Signal
  /\ req' = IF phase' = "down" THEN [r \in Requests |-> NoReq] ELSE req

Lives == Start \/ Connect \/ Check \/ Exec \/ Record
World ==
  \/ DbFails \/ DbRecovers
  \/ DisableDefault /\ \E j \in handed : tokens[j].role = "admin" /\ tokens[j].state = "valid"

Next ==
  \/ \E r \in Requests : NewRequest(r) \/ RequestStep(r)
  \/ Stop /\ UNCHANGED tables
  \/ (Lives \/ World) /\ UNCHANGED <<tables, req>>

Spec == Init /\ [][Next]_vars

-----------------------------------------------------------------------------
(* Properties *)

PCs == {"idle", "auth", "count", "create", "read", "write", "store", "revoke", "answer"}
Ops == {"", "register", "login", "token", "update", "revoke"}

\* Types of the variables.
TypeOK ==
  /\ phase \in {"down", "connect", "check", "exec", "record", "serving", "stopping"}
  /\ attempt \in 0 .. MaxAttempts /\ file \in Files /\ dbUp \in BOOLEAN
  /\ applied \subseteq Files /\ recorded \subseteq applied
  /\ default \in {"none", "on", "off"}
  /\ users \in [Emails -> Roles \cup {"none"}]
  /\ tokens \in [Jtis -> [state : {"none", "valid", "revoked"}, who : Emails \cup {""},
                          role : Roles \cup {"none"}]]
  /\ handed \subseteq Jtis
  /\ req \in [Requests -> [pc : PCs, op : Ops, who : Emails \cup {""}, tok : 0 .. MaxTokens,
                           jti : 0 .. MaxTokens, set : Roles \cup {"keep"},
                           role : Roles \cup {"none"}, empty : BOOLEAN,
                           held : SUBSET (Roles \cup {"none"})]]

\* "First user gets admin role automatically": however registrations overlap and
\* whatever stops in the middle, nobody who begins to register when there is a user
\* becomes administrator by it.
LateIsUser == \A r \in Requests : req[r].pc = "create" /\ req[r].set = "admin" => req[r].empty

\* A token carries a role its user had while the request for it ran, and never
\* expires: after a demotion only a request that began before it still gets the old one.
FreshClaims ==
  \A r \in Requests : req[r].pc = "answer" => tokens[req[r].jti].role \in req[r].held

\* A token in a client's hands is in the table, whatever stopped, and when: it is
\* accepted until it is revoked.
HandedStored == \A j \in handed : tokens[j].state # "none"

\* Requests find the whole schema, also after a stop between a migration and its record.
SchemaServed == Running => applied = Files

\* "Default policy allowing all authenticated users (disable to enforce stricter
\* access)": once every copy is disabled no restart brings another.
StrictStays == [][default = "off" => default' = "off"]_vars
=============================================================================
