---------------------------- MODULE Accounts_Proofs ----------------------------
(***************************************************************************)
(* Theorems about accounts, tokens and migrations for any requests, users, *)
(* numbers of files, attempts and tokens, wherever the process stops.      *)
(***************************************************************************)
EXTENDS Accounts, TLAPS

ReqType == [pc : PCs, op : Ops, who : Emails \cup {""}, tok : 0 .. MaxTokens,
            jti : 0 .. MaxTokens, set : Roles \cup {"keep"},
            role : Roles \cup {"none"}, empty : BOOLEAN,
            held : SUBSET (Roles \cup {"none"})]

TokenType == [state : {"none", "valid", "revoked"}, who : Emails \cup {""},
              role : Roles \cup {"none"}]

ServerTypes ==
  /\ phase \in {"down", "connect", "check", "exec", "record", "serving", "stopping"}
  /\ attempt \in 0 .. MaxAttempts /\ file \in Files /\ dbUp \in BOOLEAN
  /\ applied \subseteq Files /\ recorded \subseteq applied
  /\ default \in {"none", "on", "off"}

\* Migrations run in order, and a file is executed only while it is not recorded;
\* the default policy exists because the first file is recorded.
Migrated ==
  /\ phase = "connect" => file = 1
  /\ phase \in {"check", "exec", "record"} => 1 .. (file - 1) \subseteq recorded
  /\ phase = "exec" => file \notin recorded
  /\ phase = "record" => file \in applied
  /\ Running => recorded = Files
  /\ default = "off" => 1 \in recorded

ServerInv == ServerTypes /\ Migrated

\* What a request has read, and what it may still rely on.
ReqInv(r) ==
  /\ req[r].pc = "count" /\ NoUser => req[r].empty
  /\ req[r].pc = "create" /\ req[r].set = "admin" => req[r].empty
  /\ req[r].pc = "write" /\ req[r].set = "keep" => req[r].role # "none"
  /\ req[r].pc \in {"count", "create"} => req[r].op = "register"
  /\ req[r].pc \in {"count", "create", "read"} \/ (req[r].pc = "auth" /\ req[r].op # "revoke") =>
       req[r].who \in Emails
  /\ req[r].pc = "read" => req[r].op \in {"login", "register", "update"}
  /\ req[r].pc \in {"auth", "read"} /\ req[r].op \in {"login", "token"} =>
       users[req[r].who] \in req[r].held
  /\ req[r].pc = "store" => req[r].role \in req[r].held
  /\ req[r].pc = "answer" =>
       /\ req[r].jti \in Jtis /\ tokens[req[r].jti].state # "none"
       /\ tokens[req[r].jti].role \in req[r].held

TableTypes ==
  /\ users \in [Emails -> Roles \cup {"none"}]
  /\ tokens \in [Jtis -> TokenType]
  /\ handed \subseteq Jtis

TableInv == TableTypes /\ HandedStored

RequestsInv == req \in [Requests -> ReqType] /\ \A r \in Requests : ReqInv(r)

IInv == ServerInv /\ TableInv /\ RequestsInv

LEMMA Parts == IInv => TypeOK /\ LateIsUser /\ FreshClaims /\ HandedStored /\ SchemaServed
<1> SUFFICES ASSUME IInv PROVE TypeOK /\ LateIsUser /\ FreshClaims /\ HandedStored /\ SchemaServed
  OBVIOUS
<1>1. TypeOK
  BY DEF IInv, ServerInv, ServerTypes, TableInv, TableTypes, RequestsInv, ReqType, TokenType, TypeOK
<1>2. LateIsUser
  BY DEF IInv, RequestsInv, ReqInv, LateIsUser
<1>3. FreshClaims
  BY DEF IInv, RequestsInv, ReqInv, FreshClaims
<1>4. HandedStored /\ SchemaServed
  BY DEF IInv, TableInv, ServerInv, ServerTypes, Migrated, SchemaServed
<1> QED BY <1>1, <1>2, <1>3, <1>4

LEMMA NoReqType == NoReq \in ReqType /\ NoReq.pc = "idle"
<1>1. 0 \in 0 .. MaxTokens
  BY AccountsAssumption
<1> QED BY <1>1 DEF NoReq, ReqType, PCs, Ops, Roles

LEMMA InitIInv == Init => IInv
<1> SUFFICES ASSUME Init PROVE IInv
  OBVIOUS
<1>1. ServerInv
  BY ServerAssumption DEF Init, ServerInit, ServerInv, ServerTypes, Migrated, Files, Running
<1>2. TableInv
  BY DEF Init, TableInv, TableTypes, HandedStored, NoToken, TokenType, Roles
<1>3. RequestsInv
  BY NoReqType DEF Init, RequestsInv, ReqInv
<1> QED BY <1>1, <1>2, <1>3 DEF IInv

-----------------------------------------------------------------------------
(* The process and its database *)

LEMMA ServerSteps ==
  ASSUME ServerInv, Lives \/ DbFails \/ DbRecovers \/ DisableDefault \/ Exit \/ Crash \/ Signal
  PROVE  ServerInv' /\ (default = "off" => default' = "off")
<1> USE ServerAssumption DEF ServerInv, ServerTypes, Migrated, Files, Running, serverVars, process, database
<1>1. CASE Start
  BY <1>1 DEF Start
<1>2. CASE Connect
  BY <1>2 DEF Connect
<1>3. CASE Check
  <2>1. CASE ~dbUp /\ phase' = "down" /\ UNCHANGED file
    BY <1>3, <2>1 DEF Check
  <2>2. CASE dbUp /\ file \in recorded /\ file < NumFiles /\ file' = file + 1 /\ UNCHANGED phase
    <3>1. 1 .. (file' - 1) \subseteq recorded
      BY <1>3, <2>2 DEF Check
    <3> QED BY <1>3, <2>2, <3>1 DEF Check
  <2>3. CASE dbUp /\ file \in recorded /\ file = NumFiles /\ phase' = "serving" /\ UNCHANGED file
    <3>1. \A f \in Files : f \in 1 .. (file - 1) \/ f = file
      BY <2>3
    <3>2. recorded = Files
      BY <1>3, <2>3, <3>1 DEF Check
    <3> QED BY <1>3, <2>3, <3>2 DEF Check
  <2>4. CASE dbUp /\ file \notin recorded /\ phase' = "exec" /\ UNCHANGED file
    BY <1>3, <2>4 DEF Check
  <2> QED BY <1>3, <2>1, <2>2, <2>3, <2>4 DEF Check
<1>4. CASE Exec
  BY <1>4 DEF Exec
<1>5. CASE Record
  <2>1. recorded' \subseteq applied'
    BY <1>5 DEF Record
  <2>2. dbUp => 1 .. file \subseteq recorded'
    BY <1>5 DEF Record
  <2>3. CASE dbUp /\ file < NumFiles
    BY <1>5, <2>1, <2>2, <2>3 DEF Record
  <2>4. CASE dbUp /\ file = NumFiles
    <3>1. recorded' = Files
      BY <1>5, <2>1, <2>2, <2>4 DEF Record
    <3> QED BY <1>5, <2>1, <2>4, <3>1 DEF Record
  <2>5. CASE ~dbUp
    BY <1>5, <2>5 DEF Record
  <2> QED BY <2>3, <2>4, <2>5
<1>6. CASE DbFails \/ DbRecovers
  BY <1>6 DEF DbFails, DbRecovers
<1>7. CASE DisableDefault
  BY <1>7 DEF DisableDefault
<1>8. CASE Exit \/ Crash \/ Signal
  <2>1. phase' \in {"down", "stopping"} /\ attempt' \in {attempt, 0}
    BY <1>8 DEF Exit, Crash, Signal
  <2>2. phase' = "stopping" => Running
    BY <1>8 DEF Exit, Crash, Signal
  <2>3. UNCHANGED <<file, dbUp, applied, recorded, default>>
    BY <1>8 DEF Exit, Crash, Signal
  <2> QED BY <2>1, <2>2, <2>3
<1> QED BY <1>1, <1>2, <1>3, <1>4, <1>5, <1>6, <1>7, <1>8 DEF Lives

-----------------------------------------------------------------------------
(* Requests *)

\* A statement that writes neither users nor tokens, of any request.
LEMMA OthersKeep ==
  ASSUME RequestsInv, NEW q \in Requests, req'[q] = req[q], UNCHANGED <<users, tokens>>
  PROVE  req'[q] \in ReqType /\ ReqInv(q)'
BY DEF RequestsInv, ReqInv, NoUser

LEMMA IdleInv ==
  ASSUME NEW q \in Requests, req'[q] = NoReq
  PROVE  req'[q] \in ReqType /\ ReqInv(q)'
BY NoReqType DEF ReqInv

\* A request by request rule for the steps that leave the tables alone.
LEMMA OneRequest ==
  ASSUME IInv, NEW r \in Requests, NEW new, req' = [req EXCEPT ![r] = new],
         UNCHANGED <<serverVars, users, tokens, handed>>, new \in ReqType, ReqInv(r)'
  PROVE  IInv'
<1>1. ServerInv'
  BY DEF IInv, ServerInv, ServerTypes, Migrated, Running, serverVars, process, database
<1>2. TableInv'
  BY DEF IInv, TableInv, TableTypes, HandedStored
<1>3. ASSUME NEW q \in Requests PROVE req'[q] \in ReqType /\ ReqInv(q)'
  <2>1. CASE q = r
    BY <2>1 DEF IInv, RequestsInv
  <2>2. CASE q # r
    BY <2>2, OthersKeep DEF IInv, RequestsInv
  <2> QED BY <2>1, <2>2
<1>4. req' \in [Requests -> ReqType]
  BY <1>3 DEF IInv, RequestsInv
<1> QED BY <1>1, <1>2, <1>3, <1>4 DEF IInv, RequestsInv

LEMMA NewRequests ==
  ASSUME IInv, NEW r \in Requests, NewRequest(r)
  PROVE  IInv'
<1> USE AccountsAssumption DEF Begin, PCs, Ops, Roles, Jtis
<1>0. 0 \in 0 .. MaxTokens /\ Jtis \subseteq 0 .. MaxTokens
  OBVIOUS
<1>1. ASSUME NEW e \in Emails, Register(r, e) PROVE IInv'
  <2> DEFINE new == [[NoReq EXCEPT !.op = "register", !.who = e, !.empty = NoUser] EXCEPT !.pc = "count"]
  <2>1. req' = [req EXCEPT ![r] = new] /\ UNCHANGED <<serverVars, users, tokens, handed>>
    BY <1>1 DEF Register, tables
  <2>2. NoUser \in BOOLEAN
    BY DEF NoUser
  <2>3. new \in ReqType
    BY <1>0, <2>2 DEF NoReq, ReqType
  <2>4. req'[r] = new
    BY <2>1 DEF IInv, RequestsInv
  <2>5. new.pc = "count" /\ new.empty = NoUser /\ new.op = "register" /\ new.who = e
    BY DEF NoReq
  <2>6. ReqInv(r)'
    BY <2>1, <2>4, <2>5 DEF ReqInv, NoUser
  <2> HIDE DEF new
  <2> QED BY <2>1, <2>3, <2>6, OneRequest
<1>2. ASSUME NEW e \in Emails, Login(r, e) PROVE IInv'
  <2> DEFINE new == [[NoReq EXCEPT !.op = "login", !.who = e, !.held = {users[e]}] EXCEPT !.pc = "read"]
  <2>1. req' = [req EXCEPT ![r] = new] /\ UNCHANGED <<serverVars, users, tokens, handed>>
    BY <1>2 DEF Login, tables
  <2>2. users[e] \in Roles \cup {"none"}
    BY DEF IInv, TableInv, TableTypes
  <2>3. new \in ReqType
    BY <1>0, <2>2 DEF NoReq, ReqType
  <2>4. req'[r] = new
    BY <2>1 DEF IInv, RequestsInv
  <2>5. new.pc = "read" /\ new.op = "login" /\ new.who = e /\ new.held = {users[e]}
    BY DEF NoReq
  <2> HIDE DEF new
  <2>6. ReqInv(r)'
    BY <2>1, <2>4, <2>5 DEF ReqInv
  <2> QED BY <2>1, <2>3, <2>6, OneRequest
<1>3. ASSUME NEW j \in Jtis, CreateAPIToken(r, j) PROVE IInv'
  <2> DEFINE e == tokens[j].who
             new == [[[NoReq EXCEPT !.op = "token", !.who = e, !.held = {users[e]}] EXCEPT !.tok = j]
                      EXCEPT !.pc = "auth"]
  <2>1. req' = [req EXCEPT ![r] = new] /\ UNCHANGED <<serverVars, users, tokens, handed>> /\ e \in Emails
    BY <1>3 DEF CreateAPIToken, Present, tables
  <2>2. users[e] \in Roles \cup {"none"}
    BY <2>1 DEF IInv, TableInv, TableTypes
  <2>3. new \in ReqType
    BY <1>0, <2>1, <2>2 DEF NoReq, ReqType
  <2>4. req'[r] = new
    BY <2>1 DEF IInv, RequestsInv
  <2>5. new.pc = "auth" /\ new.op = "token" /\ new.who = e /\ new.held = {users[e]}
    BY DEF NoReq
  <2> HIDE DEF new
  <2>6. ReqInv(r)'
    BY <2>1, <2>4, <2>5 DEF ReqInv
  <2> QED BY <2>1, <2>3, <2>6, OneRequest
<1>4. ASSUME NEW j \in Jtis, NEW k \in Jtis, RevokeAPIToken(r, j, k) PROVE IInv'
  <2> DEFINE new == [[[NoReq EXCEPT !.op = "revoke", !.jti = k] EXCEPT !.tok = j] EXCEPT !.pc = "auth"]
  <2>1. req' = [req EXCEPT ![r] = new] /\ UNCHANGED <<serverVars, users, tokens, handed>>
    BY <1>4 DEF RevokeAPIToken, Present, tables
  <2>3. new \in ReqType
    BY <1>0 DEF NoReq, ReqType
  <2>4. req'[r] = new
    BY <2>1 DEF IInv, RequestsInv
  <2>5. new.pc = "auth" /\ new.op = "revoke"
    BY DEF NoReq
  <2> HIDE DEF new
  <2>6. ReqInv(r)'
    BY <2>1, <2>4, <2>5 DEF ReqInv
  <2> QED BY <2>1, <2>3, <2>6, OneRequest
<1>5. ASSUME NEW j \in Jtis, NEW e \in Emails, NEW set \in Roles \cup {"keep"}, UpdateUser(r, j, e, set)
      PROVE IInv'
  <2> DEFINE new == [[[NoReq EXCEPT !.op = "update", !.who = e, !.set = set] EXCEPT !.tok = j]
                      EXCEPT !.pc = "auth"]
  <2>1. req' = [req EXCEPT ![r] = new] /\ UNCHANGED <<serverVars, users, tokens, handed>>
    BY <1>5 DEF UpdateUser, Present, tables
  <2>3. new \in ReqType
    BY <1>0 DEF NoReq, ReqType
  <2>4. req'[r] = new
    BY <2>1 DEF IInv, RequestsInv
  <2>5. new.pc = "auth" /\ new.op = "update" /\ new.who = e
    BY DEF NoReq
  <2> HIDE DEF new
  <2>6. ReqInv(r)'
    BY <2>1, <2>4, <2>5 DEF ReqInv
  <2> QED BY <2>1, <2>3, <2>6, OneRequest
<1> QED BY <1>1, <1>2, <1>3, <1>4, <1>5 DEF NewRequest

\* Writing a user tells whoever is about to issue a token for it.
LEMMA WitnessKeeps ==
  ASSUME IInv, NEW r \in Requests, NEW e, NEW role \in Roles, NEW new,
         users' = [users EXCEPT ![e] = role], tokens' = tokens, req' = Witness(e, role, r, new),
         NEW q \in Requests, q # r
  PROVE  req'[q] \in ReqType /\ ReqInv(q)'
<1> DEFINE x == req[q]
<1>1. x \in ReqType /\ ReqInv(q)
  BY DEF IInv, RequestsInv
<1>2. req'[q] = IF x.who = e /\ x.held # {} THEN [x EXCEPT !.held = @ \cup {role}] ELSE x
  BY DEF Witness
<1>3. /\ req'[q] \in ReqType
      /\ req'[q].pc = x.pc /\ req'[q].op = x.op /\ req'[q].who = x.who /\ req'[q].jti = x.jti
      /\ req'[q].set = x.set /\ req'[q].role = x.role /\ req'[q].empty = x.empty
      /\ x.held \subseteq req'[q].held
      /\ x.who = e /\ x.held # {} => role \in req'[q].held
  <2>1. CASE x.who = e /\ x.held # {}
    <3>1. req'[q] = [x EXCEPT !.held = x.held \cup {role}]
      BY <1>2, <2>1
    <3>2. x.held \cup {role} \in SUBSET (Roles \cup {"none"})
      BY <1>1 DEF ReqType
    <3> HIDE DEF x
    <3> QED BY <1>1, <3>1, <3>2 DEF ReqType
  <2>2. CASE ~(x.who = e /\ x.held # {})
    BY <1>1, <1>2, <2>2
  <2> QED BY <2>1, <2>2
<1>4. NoUser' => NoUser
  BY DEF IInv, TableInv, TableTypes, NoUser, Roles
<1>5. \A f \in Emails : users'[f] = IF f = e THEN role ELSE users[f]
  BY DEF IInv, TableInv, TableTypes
<1> QED BY <1>1, <1>3, <1>4, <1>5 DEF ReqInv

LEMMA ServerKeeps ==
  ASSUME IInv, UNCHANGED serverVars
  PROVE  ServerInv'
BY DEF IInv, ServerInv, ServerTypes, Migrated, Running, serverVars, process, database

LEMMA UserWritten ==
  ASSUME IInv, NEW r \in Requests, NEW e, NEW role \in Roles, NEW new \in ReqType,
         users' = [users EXCEPT ![e] = role], req' = Witness(e, role, r, new),
         UNCHANGED <<serverVars, tokens, handed>>, ReqInv(r)'
  PROVE  IInv'
<1>1. TableInv'
  BY DEF IInv, TableInv, TableTypes, HandedStored
<1>2. ASSUME NEW q \in Requests PROVE req'[q] \in ReqType /\ ReqInv(q)'
  <2>1. CASE q = r
    BY <2>1 DEF Witness
  <2>2. CASE q # r
    BY <2>2, WitnessKeeps
  <2> QED BY <2>1, <2>2
<1>3. req' \in [Requests -> ReqType]
  BY <1>2 DEF Witness
<1> QED BY <1>1, <1>2, <1>3, ServerKeeps DEF IInv, RequestsInv

\* A token's row appears once, its claims stay.
LEMMA TokenWritten ==
  ASSUME IInv, NEW r \in Requests, NEW new \in ReqType, req' = [req EXCEPT ![r] = new],
         NEW j, NEW row \in TokenType, tokens' = [tokens EXCEPT ![j] = row],
         row.state # "none",
         j \in Jtis => tokens[j].state = "none" \/ row.role = tokens[j].role,
         UNCHANGED <<serverVars, users, handed>>, ReqInv(r)'
  PROVE  IInv'
<1>1. \A k \in Jtis : tokens'[k] = IF k = j THEN row ELSE tokens[k]
  BY DEF IInv, TableInv, TableTypes
<1>2. TableInv'
  BY <1>1 DEF IInv, TableInv, TableTypes, HandedStored
<1>3. ASSUME NEW q \in Requests PROVE req'[q] \in ReqType /\ ReqInv(q)'
  <2>1. CASE q = r
    BY <2>1 DEF IInv, RequestsInv
  <2>2. CASE q # r
    <3>1. req'[q] = req[q] /\ ReqInv(q) /\ req[q] \in ReqType
      BY <2>2 DEF IInv, RequestsInv
    <3> QED BY <1>1, <3>1 DEF ReqInv, NoUser
  <2> QED BY <2>1, <2>2
<1>4. req' \in [Requests -> ReqType]
  BY <1>3 DEF IInv, RequestsInv
<1> QED BY <1>2, <1>3, <1>4, ServerKeeps DEF IInv, RequestsInv

LEMMA RequestSteps ==
  ASSUME IInv, NEW r \in Requests, RequestStep(r)
  PROVE  IInv'
<1> USE AccountsAssumption
<1> DEFINE x == req[r]
<1>0. x \in ReqType /\ ReqInv(r) /\ DOMAIN req = Requests /\ 0 \in 0 .. MaxTokens
  BY DEF IInv, RequestsInv
<1>1. CASE Fail(r)
  <2>1. req' = [req EXCEPT ![r] = NoReq] /\ UNCHANGED <<serverVars, users, tokens, handed>>
    BY <1>1 DEF Fail, tables
  <2> QED BY <1>0, <2>1, IdleInv, NoReqType, OneRequest
<1>2. CASE Authenticate(r)
  <2> DEFINE Passed(pc) == [x EXCEPT !.pc = pc, !.tok = 0, !.op = IF @ = "token" THEN "login" ELSE @]
  <2>1. PICK pc \in {"read", "revoke"} :
          /\ Pass(r, pc) /\ x.pc = "auth" /\ UNCHANGED <<serverVars, users, tokens, handed>>
          /\ pc = "read" => x.op \in {"token", "update"}
    BY <1>2 DEF Authenticate, Query, tables
  <2>2. req' = [req EXCEPT ![r] = Passed(pc)] /\ req'[r] = Passed(pc)
    BY <1>0, <2>1 DEF Pass
  <2>3. /\ Passed(pc) \in ReqType /\ Passed(pc).pc = pc
        /\ Passed(pc).op = IF x.op = "token" THEN "login" ELSE x.op
        /\ Passed(pc).who = x.who /\ Passed(pc).held = x.held
    <3>1. PICK op \in Ops : op = IF x.op = "token" THEN "login" ELSE x.op
      BY <1>0 DEF ReqType, Ops
    <3>2. Passed(pc) = [x EXCEPT !.pc = pc, !.tok = 0, !.op = op]
      BY <3>1
    <3>3. pc \in PCs
      BY DEF PCs
    <3> HIDE DEF Passed, x
    <3> QED BY <1>0, <3>1, <3>2, <3>3 DEF ReqType
  <2> HIDE DEF Passed
  <2>4. ReqInv(r)'
    BY <1>0, <2>1, <2>2, <2>3 DEF ReqInv
  <2> QED BY <2>1, <2>2, <2>3, <2>4, OneRequest
<1>3. CASE CountUsers(r)
  <2> DEFINE new == [x EXCEPT !.pc = "create", !.set = IF NoUser THEN "admin" ELSE "keep"]
  <2>1. /\ x.pc = "count" /\ UNCHANGED <<serverVars, users, tokens, handed>>
        /\ req' = [req EXCEPT ![r] = new] /\ req'[r] = new
    BY <1>0, <1>3 DEF CountUsers, Query, tables
  <2>2. /\ new \in ReqType /\ new.pc = "create" /\ new.empty = x.empty
        /\ new.op = x.op /\ new.who = x.who
        /\ new.set = IF NoUser THEN "admin" ELSE "keep"
    BY <1>0 DEF ReqType, PCs, Roles
  <2> HIDE DEF new
  <2>3. ReqInv(r)'
    BY <1>0, <2>1, <2>2 DEF ReqInv
  <2> QED BY <2>1, <2>2, <2>3, OneRequest
<1>4. CASE CreateUser(r)
  <2> DEFINE new == IF x.set = "admin"
                    THEN [x EXCEPT !.pc = "read", !.empty = FALSE, !.held = {"user"}]
                    ELSE Issue(r, "user", {"user"})
  <2>1. /\ users' = [users EXCEPT ![x.who] = "user"] /\ req' = Witness(x.who, "user", r, new)
        /\ UNCHANGED <<serverVars, tokens, handed>> /\ x.pc = "create"
    <3>1. /\ users' = [users EXCEPT ![x.who] = "user"] /\ x.pc = "create"
          /\ UNCHANGED <<serverVars, tokens, handed>>
      BY <1>4 DEF CreateUser, Query
    <3>2. req' = Witness(x.who, "user", r, new)
      BY <1>4, Zenon DEF CreateUser
    <3> QED BY <3>1, <3>2
  <2>2. req'[r] = new
    BY <2>1 DEF Witness
  <2>3. /\ new \in ReqType
        /\ \/ new.pc = "read" /\ new.op = x.op /\ new.who = x.who
           \/ new.pc = "store" /\ new.role \in new.held
    BY <1>0 DEF ReqType, PCs, Ops, Roles, Issue, NoReq
  <2>4. x.op = "register" /\ x.who \in Emails
    BY <1>0, <2>1 DEF ReqInv
  <2> HIDE DEF new
  <2>5. ReqInv(r)'
    BY <2>2, <2>3, <2>4 DEF ReqInv
  <2> QED BY <2>1, <2>3, <2>5, UserWritten DEF Roles
<1>5. CASE ReadUser(r)
  <2> DEFINE new == IF x.op \in {"register", "update"}
                    THEN [x EXCEPT !.pc = "write", !.role = users[x.who]]
                    ELSE Issue(r, users[x.who], x.held)
  <2>1. /\ x.pc = "read" /\ users[x.who] # "none" /\ UNCHANGED <<serverVars, users, tokens, handed>>
        /\ req' = [req EXCEPT ![r] = new] /\ req'[r] = new
    BY <1>0, <1>5 DEF ReadUser, Query, tables
  <2>2. CASE x.op \in {"register", "update"}
    <3>1. users[x.who] \in Roles \cup {"none"}
      BY <1>0, <2>1 DEF ReqInv, IInv, TableInv, TableTypes
    <3>2. new = [x EXCEPT !.pc = "write", !.role = users[x.who]]
      BY <2>2
    <3>3. new \in ReqType /\ new.pc = "write" /\ new.role # "none"
      BY <1>0, <2>1, <3>1, <3>2 DEF ReqType, PCs
    <3> HIDE DEF new
    <3>4. ReqInv(r)'
      BY <2>1, <3>3 DEF ReqInv
    <3> QED BY <2>1, <3>3, <3>4, OneRequest
  <2>3. CASE x.op = "login"
    <3>1. x.who \in Emails /\ users[x.who] \in x.held
      BY <1>0, <2>1, <2>3 DEF ReqInv
    <3>2. new = Issue(r, users[x.who], x.held)
      BY <2>3
    <3>3. new \in ReqType /\ new.pc = "store" /\ new.role \in new.held
      BY <1>0, <3>1, <3>2 DEF ReqType, PCs, Ops, Roles, Issue, NoReq
    <3> HIDE DEF new
    <3>4. ReqInv(r)'
      BY <2>1, <3>3 DEF ReqInv
    <3> QED BY <2>1, <3>3, <3>4, OneRequest
  <2> QED BY <1>0, <2>1, <2>2, <2>3 DEF ReqInv
<1>6. CASE WriteUser(r)
  <2> DEFINE role == IF x.set = "keep" THEN x.role ELSE x.set
             new == IF x.op = "update" THEN NoReq ELSE Issue(r, role, x.held \cup {role})
  <2>1. /\ users' = [users EXCEPT ![x.who] = role] /\ req' = Witness(x.who, role, r, new)
        /\ UNCHANGED <<serverVars, tokens, handed>> /\ x.pc = "write"
    BY <1>6, Zenon DEF WriteUser, Query
  <2>2. role \in Roles
    BY <1>0, <2>1 DEF ReqInv, ReqType, Roles
  <2>3. req'[r] = new
    BY <2>1 DEF Witness
  <2>4. new \in ReqType /\ (new = NoReq \/ (new.pc = "store" /\ new.role \in new.held))
    <3>1. CASE x.op = "update"
      <4>1. new = NoReq
        BY <3>1
      <4> HIDE DEF role, new, x
      <4>2. new \in ReqType
        BY <4>1, NoReqType
      <4> QED BY <4>1, <4>2
    <3>2. CASE x.op # "update"
      <4>1. new = Issue(r, role, x.held \cup {role})
        BY <3>2
      <4>2. x.held \cup {role} \in SUBSET (Roles \cup {"none"}) /\ x.who \in Emails \cup {""}
        BY <1>0, <2>2 DEF ReqType
      <4>3. new = [NoReq EXCEPT !.pc = "store", !.who = x.who, !.role = role, !.held = x.held \cup {role}]
        BY <4>1 DEF Issue
      <4> HIDE DEF role, new, x
      <4>4. new \in ReqType
        BY <2>2, <4>2, <4>3, NoReqType DEF ReqType, PCs
      <4>5. new.pc = "store" /\ new.role \in new.held
        BY <4>3 DEF NoReq
      <4> QED BY <4>4, <4>5
    <3> QED BY <3>1, <3>2
  <2> HIDE DEF new, role
  <2>5. ReqInv(r)'
    BY <2>3, <2>4, NoReqType DEF ReqInv
  <2> QED BY <2>1, <2>2, <2>4, <2>5, UserWritten
<1>7. CASE StoreToken(r)
  <2>1. PICK j \in Fresh :
          /\ tokens' = [tokens EXCEPT ![j] = Signed(r, "valid")] /\ x.pc = "store"
          /\ req' = [req EXCEPT ![r] = [NoReq EXCEPT !.pc = "answer", !.jti = j, !.held = x.held]]
          /\ UNCHANGED <<serverVars, users, handed>>
    BY <1>7 DEF StoreToken, Query
  <2> DEFINE new == [NoReq EXCEPT !.pc = "answer", !.jti = j, !.held = x.held]
  <2>2. j \in Jtis /\ tokens[j].state = "none"
    <3>1. j \in Jtis /\ tokens[j] = NoToken
      BY DEF Fresh
    <3>2. tokens[j].state = NoToken.state
      BY <3>1
    <3> QED BY <3>1, <3>2 DEF NoToken
  <2>3. Signed(r, "valid") \in TokenType /\ Signed(r, "valid").state # "none"
    BY <1>0 DEF Signed, TokenType, ReqType
  <2>4. new \in ReqType /\ new.pc = "answer" /\ new.jti = j /\ new.held = x.held
    <3>1. x.held \in SUBSET (Roles \cup {"none"})
      BY <1>0 DEF ReqType
    <3>2. j \in 0 .. MaxTokens
      BY <2>2 DEF Jtis
    <3>3. new = [NoReq EXCEPT !.pc = "answer", !.jti = j, !.held = x.held]
      OBVIOUS
    <3> HIDE DEF x, new
    <3>4. new \in ReqType
      BY <3>1, <3>2, <3>3, NoReqType DEF ReqType, PCs
    <3> QED BY <3>3, <3>4 DEF NoReq
  <2>5. req'[r] = new /\ tokens'[j] = Signed(r, "valid")
    BY <1>0, <2>1, <2>2 DEF IInv, TableInv, TableTypes
  <2>6. Signed(r, "valid").role \in x.held
    BY <1>0, <2>1 DEF ReqInv, Signed
  <2> HIDE DEF new
  <2>7. ReqInv(r)'
    BY <2>2, <2>3, <2>4, <2>5, <2>6 DEF ReqInv
  <2>8. req' = [req EXCEPT ![r] = new]
    BY <2>1 DEF new
  <2> QED BY <2>1, <2>2, <2>3, <2>4, <2>7, <2>8, TokenWritten
<1>8. CASE RevokeToken(r)
  <2>1. /\ tokens' = [tokens EXCEPT ![x.jti].state = "revoked"] /\ UNCHANGED <<serverVars, users, handed>>
        /\ req' = [req EXCEPT ![r] = NoReq] /\ req'[r] = NoReq
    BY <1>0, <1>8 DEF RevokeToken, Query
  <2>2. ReqInv(r)'
    BY <2>1, IdleInv
  <2>3. CASE x.jti \in Jtis
    <3> DEFINE row == [tokens[x.jti] EXCEPT !.state = "revoked"]
    <3>1. row \in TokenType /\ row.state # "none" /\ row.role = tokens[x.jti].role
      <4>1. tokens[x.jti] \in TokenType
        BY <2>3 DEF IInv, TableInv, TableTypes
      <4> HIDE DEF x
      <4> QED BY <4>1 DEF TokenType
    <3>2. tokens' = [tokens EXCEPT ![x.jti] = row]
      BY <2>1
    <3> HIDE DEF row
    <3> QED BY <2>1, <2>2, <3>1, <3>2, NoReqType, TokenWritten
  <2>4. CASE x.jti \notin Jtis
    <3>1. tokens' = tokens
      BY <2>1, <2>4 DEF IInv, TableInv, TableTypes
    <3> QED BY <2>1, <2>2, <3>1, NoReqType, OneRequest
  <2> QED BY <2>3, <2>4
<1>9. CASE Answer(r)
  <2>1. /\ x.pc = "answer" /\ handed' = handed \cup {x.jti} /\ UNCHANGED <<serverVars, users, tokens>>
        /\ req' = [req EXCEPT ![r] = NoReq] /\ req'[r] = NoReq
    BY <1>0, <1>9 DEF Answer
  <2>2. TableInv'
    BY <1>0, <2>1 DEF ReqInv, IInv, TableInv, TableTypes, HandedStored
  <2>3. ASSUME NEW q \in Requests PROVE req'[q] \in ReqType /\ ReqInv(q)'
    <3>1. CASE q = r
      BY <2>1, <3>1, IdleInv
    <3>2. CASE q # r
      BY <2>1, <3>2, OthersKeep DEF IInv, RequestsInv
    <3> QED BY <3>1, <3>2
  <2>4. req' \in [Requests -> ReqType]
    BY <2>1, <2>3 DEF IInv, RequestsInv
  <2> QED BY <2>1, <2>2, <2>3, <2>4, ServerKeeps DEF IInv, RequestsInv
<1> QED BY <1>1, <1>2, <1>3, <1>4, <1>5, <1>6, <1>7, <1>8, <1>9 DEF RequestStep

-----------------------------------------------------------------------------
(* The theorems *)

LEMMA StopSteps ==
  ASSUME IInv, Stop, UNCHANGED tables
  PROVE  IInv'
<1>1. ServerInv'
  BY ServerSteps DEF IInv, Stop
<1>2. TableInv'
  BY DEF IInv, TableInv, TableTypes, HandedStored, tables
<1>3. ASSUME NEW q \in Requests PROVE req'[q] \in ReqType /\ ReqInv(q)'
  <2>1. req'[q] = NoReq \/ req'[q] = req[q]
    BY DEF Stop
  <2> QED BY <2>1, IdleInv, OthersKeep DEF IInv, tables
<1>4. req' \in [Requests -> ReqType]
  BY <1>3 DEF Stop, IInv, RequestsInv
<1> QED BY <1>1, <1>2, <1>3, <1>4 DEF IInv, RequestsInv

LEMMA StepIInv ==
  ASSUME IInv, [Next]_vars
  PROVE  IInv' /\ (default = "off" => default' = "off")
<1>1. ASSUME NEW r \in Requests, NewRequest(r) PROVE IInv' /\ default' = default
  <2>1. default' = default
    BY <1>1 DEF NewRequest, Register, Login, CreateAPIToken, RevokeAPIToken, UpdateUser, Present,
                Begin, serverVars, database
  <2> QED BY <1>1, <2>1, NewRequests
<1>2. ASSUME NEW r \in Requests, RequestStep(r) PROVE IInv' /\ default' = default
  <2>1. default' = default
    BY <1>2 DEF RequestStep, Authenticate, CountUsers, CreateUser, ReadUser, WriteUser, StoreToken,
                RevokeToken, Answer, Fail, serverVars, database
  <2> QED BY <1>2, <2>1, RequestSteps
<1>3. CASE Stop /\ UNCHANGED tables
  BY <1>3, StopSteps, ServerSteps DEF IInv, Stop
<1>4. CASE (Lives \/ World) /\ UNCHANGED <<tables, req>>
  <2>1. ServerInv' /\ (default = "off" => default' = "off")
    BY <1>4, ServerSteps DEF IInv, World
  <2>2. TableInv' /\ RequestsInv'
    BY <1>4 DEF IInv, TableInv, TableTypes, HandedStored, RequestsInv, ReqInv, NoUser, tables
  <2> QED BY <2>1, <2>2 DEF IInv
<1>5. CASE UNCHANGED vars
  <2>1. ServerInv' /\ default' = default
    BY <1>5, ServerKeeps DEF vars, serverVars, database
  <2>2. TableInv' /\ RequestsInv'
    BY <1>5 DEF IInv, TableInv, TableTypes, HandedStored, RequestsInv, ReqInv, NoUser, vars, tables
  <2> QED BY <2>1, <2>2 DEF IInv
<1> QED BY <1>1, <1>2, <1>3, <1>4, <1>5 DEF Next

THEOREM Invariance == Spec => []IInv
BY InitIInv, StepIInv, PTL DEF Spec

\* Type correctness of users, tokens, requests and the migrating process.
THEOREM AccountsTypes == Spec => []TypeOK
BY Invariance, Parts, PTL

\* Whoever begins to register while there is a user does not become administrator by it.
THEOREM LateRegistrations == Spec => []LateIsUser
BY Invariance, Parts, PTL

\* A token says what was true of its user at some moment of the request for it.
THEOREM ClaimsOfRequest == Spec => []FreshClaims
BY Invariance, Parts, PTL

\* No crash or stop leaves a client a token that the gateway does not know.
THEOREM HandedTokensStored == Spec => []HandedStored
BY Invariance, Parts, PTL

\* Requests are served on the whole schema only.
THEOREM WholeSchemaServed == Spec => []SchemaServed
BY Invariance, Parts, PTL

\* No restart brings back a default policy that was disabled.
THEOREM DisabledStays == Spec => StrictStays
<1>1. IInv /\ [Next]_vars => [default = "off" => default' = "off"]_vars
  BY StepIInv
<1> QED BY Invariance, <1>1, PTL DEF Spec, StrictStays
=============================================================================
