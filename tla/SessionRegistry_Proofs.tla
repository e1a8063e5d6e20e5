------------------------ MODULE SessionRegistry_Proofs ------------------------
(***************************************************************************)
(* Type correctness of the session registry, the agreement between the two *)
(* copies of a session, the gauge, and who is turned away: for any ids,    *)
(* requests, objects and timeout.                                          *)
(***************************************************************************)
EXTENDS SessionRegistry, FiniteSetTheorems, TLAPS

\* The session ids a request carries: an existing id from the moment it names
\* a session, none only while an initialize has not created its session.
RequestsNameSessions ==
  \A r \in Reqs :
    /\ req[r].sid = NoSid \/ req[r].sid \in born
    /\ req[r].sid = NoSid => \/ req[r].pc = "idle"
                             \/ req[r].pc = "have" /\ req[r].kind = "init"
    /\ req[r].pc \in {"notfound", "store", "loaded", "read", "check", "touch", "expired"}
         => req[r].sid \in born

\* Only sessions that were created are in the map.
RegisteredAreBorn == \A s \in Sids : mem[s] # NoObj => s \in born

\* The types of a request's fields.
ReqType ==
  [pc : PCs, kind : Kinds, sid : Sids \cup {NoSid}, obj : Objs \cup {NoObj}, ttl : TTL]

IInv == TypeOK /\ RequestsNameSessions /\ RegisteredAreBorn /\ RowNeverOutlivesObject

LEMMA LessType == ASSUME NEW n \in TTL PROVE Less(n) \in TTL /\ Less(n) <= n
BY RegistryAssumption DEF Less, TTL

LEMMA LessMonotone ==
  ASSUME NEW m \in TTL, NEW n \in TTL, m <= n PROVE Less(m) <= Less(n)
BY RegistryAssumption DEF Less, TTL

LEMMA NewObjFree == FreeObjs # {} => NewObj \in FreeObjs
BY DEF NewObj

LEMMA InitIInv == Init => IInv
BY RegistryAssumption DEF Init, IInv, TypeOK, RequestsNameSessions, RegisteredAreBorn,
   RowNeverOutlivesObject, Idle, NoRow, TTL, PCs, Kinds

\* Steps of one request keep the invariant.
LEMMA RequestStepIInv ==
  ASSUME IInv, NEW r \in Reqs, RequestStep(r)
  PROVE  IInv'
<1> USE RegistryAssumption DEF IInv, TypeOK
<1>0. /\ req \in [Reqs -> ReqType] /\ req[r] \in ReqType
      /\ Timeout \in TTL /\ 0 \in TTL
  BY DEF ReqType, TTL
<1>1. CASE Finish(r)
  BY <1>1 DEF Finish, RequestsNameSessions, RegisteredAreBorn, RowNeverOutlivesObject,
       Idle, PCs, Kinds, TTL
<1>2. CASE CreateRow(r)
  BY <1>2 DEF CreateRow, RequestsNameSessions, RegisteredAreBorn, RowNeverOutlivesObject,
       PCs, Kinds, TTL
<1>3. CASE CreateStore(r)
  BY <1>3, NewObjFree DEF CreateStore, Install, FreeObjs, RequestsNameSessions, RegisteredAreBorn,
       RowNeverOutlivesObject, PCs, Kinds, TTL
<1>4. CASE Lookup(r)
  BY <1>4 DEF Lookup, RequestsNameSessions, RegisteredAreBorn, RowNeverOutlivesObject, PCs
<1>5. CASE CheckExpiry(r)
  BY <1>5 DEF CheckExpiry, Step, RequestsNameSessions, RegisteredAreBorn,
       RowNeverOutlivesObject, PCs
<1>6. CASE Touch(r)
  <2>1. TypeOK'
    <3>1. req' \in [Reqs -> ReqType]
      BY <1>0, <1>6 DEF Touch, Step, ReqType, PCs, TTL
    <3>2. exp' \in [Objs -> TTL]
      BY <1>0, <1>6 DEF Touch
    <3>3. idleLeft' \in [Sids -> TTL]
      BY <1>0, <1>6 DEF Touch
    <3> QED BY <1>6, <3>1, <3>2, <3>3 DEF Touch, Step, ReqType
  <2>2. RequestsNameSessions'
    BY <1>6 DEF Touch, Step, RequestsNameSessions, PCs
  <2>3. RegisteredAreBorn'
    BY <1>6 DEF Touch, Step, RegisteredAreBorn
  <2>4. RowNeverOutlivesObject'
    BY <1>6 DEF Touch, Step, RequestsNameSessions, RowNeverOutlivesObject, PCs, TTL
  <2> QED BY <2>1, <2>2, <2>3, <2>4
<1>7. CASE ReadRow(r)
  <2>0. /\ req[r].sid \in Sids /\ req[r].sid \in born /\ row[req[r].sid].ttl \in TTL
        /\ NoRow \in [live : BOOLEAN, ttl : TTL] /\ ~NoRow.live
    BY <1>0, <1>7 DEF ReadRow, RequestsNameSessions, NoRow
  <2>5. /\ \A q \in Reqs : q # r => req'[q] = req[q]
        /\ req'[r].sid = req[r].sid
        /\ \/ /\ req'[r].pc = "loaded" /\ req'[r].ttl = row[req[r].sid].ttl
              /\ row' = row
           \/ /\ req'[r].pc = "notfound"
              /\ row' = [row EXCEPT ![req[r].sid] = NoRow]
        /\ mem' = mem /\ exp' = exp /\ born' = born
    <3>1. CASE row[req[r].sid].live /\ row[req[r].sid].ttl > 0
      BY <1>0, <1>7, <3>1 DEF ReadRow, ReqType
    <3>2. CASE ~(row[req[r].sid].live /\ row[req[r].sid].ttl > 0)
      BY <1>0, <1>7, <3>2 DEF ReadRow, ReqType
    <3> QED BY <3>1, <3>2
  <2>1. TypeOK'
    <3>1. req' \in [Reqs -> ReqType]
      BY <1>0, <1>7, <2>0 DEF ReadRow, ReqType, PCs
    <3>2. row' \in [Sids -> [live : BOOLEAN, ttl : TTL]]
      BY <1>0, <1>7, <2>0 DEF ReadRow
    <3> QED BY <1>7, <3>1, <3>2 DEF ReadRow, ReqType
  <2>2. RequestsNameSessions'
    BY <2>0, <2>5 DEF RequestsNameSessions
  <2>3. RegisteredAreBorn'
    BY <1>7 DEF ReadRow, RegisteredAreBorn
  <2>4. RowNeverOutlivesObject'
    <3>1. \A t \in Sids : row'[t].live => row'[t] = row[t]
      BY <2>0, <2>5
    <3>2. \A t \in Sids : row[t].ttl <= row[t].ttl
      <4>1. \A t \in Sids : row[t].ttl \in TTL
        OBVIOUS
      <4> QED BY <4>1 DEF TTL
    <3>3. ASSUME NEW t \in Sids, NEW q \in Reqs, row'[t].live,
                 req'[q].sid = t, req'[q].pc \in {"loaded", "store"}
          PROVE  row'[t].ttl <= req'[q].ttl
      <4>1. row'[t] = row[t]
        BY <3>1, <3>3
      <4>2. CASE q = r
        BY <2>5, <3>2, <3>3, <4>1, <4>2
      <4>3. CASE q # r
        BY <2>5, <3>3, <4>1, <4>3 DEF RowNeverOutlivesObject
      <4> QED BY <4>2, <4>3
    <3> QED BY <2>5, <3>1, <3>3 DEF RowNeverOutlivesObject
  <2> QED BY <2>1, <2>2, <2>3, <2>4
<1>8. CASE LoadStore(r)
  BY <1>8, NewObjFree DEF LoadStore, Install, FreeObjs, RequestsNameSessions, RegisteredAreBorn,
       RowNeverOutlivesObject, PCs, Kinds, TTL
<1>9. CASE DropObject(r)
  <2>1. TypeOK'
    <3>1. req' \in [Reqs -> ReqType]
      BY <1>0, <1>9 DEF DropObject, ReqType, PCs
    <3>2. mem' \in [Sids -> Objs \cup {NoObj}]
      BY <1>9 DEF DropObject
    <3>3. gauge' \in Int
      BY <1>9 DEF DropObject
    <3> QED BY <1>9, <3>1, <3>2, <3>3 DEF DropObject, ReqType
  <2>2. RequestsNameSessions'
    BY <1>0, <1>9 DEF DropObject, RequestsNameSessions, ReqType
  <2>3. RegisteredAreBorn'
    BY <1>9 DEF DropObject, RegisteredAreBorn
  <2>4. RowNeverOutlivesObject'
    BY <1>0, <1>9 DEF DropObject, RowNeverOutlivesObject, ReqType
  <2> QED BY <2>1, <2>2, <2>3, <2>4
<1>10. CASE DropRow(r)
  <2>0. NoRow \in [live : BOOLEAN, ttl : TTL] /\ ~NoRow.live
    BY <1>0 DEF NoRow
  <2>1. TypeOK'
    <3>1. req' \in [Reqs -> ReqType]
      BY <1>0, <1>10 DEF DropRow, ReqType, PCs
    <3>2. row' \in [Sids -> [live : BOOLEAN, ttl : TTL]]
      BY <1>10, <2>0 DEF DropRow
    <3> QED BY <1>10, <3>1, <3>2 DEF DropRow, ReqType
  <2>2. RequestsNameSessions'
    BY <1>0, <1>10 DEF DropRow, RequestsNameSessions, ReqType
  <2>3. RegisteredAreBorn'
    BY <1>10 DEF DropRow, RegisteredAreBorn
  <2>4. RowNeverOutlivesObject'
    BY <1>0, <1>10, <2>0 DEF DropRow, RowNeverOutlivesObject, ReqType
  <2> QED BY <2>1, <2>2, <2>3, <2>4
<1> QED
  BY <1>1, <1>2, <1>3, <1>4, <1>5, <1>6, <1>7, <1>8, <1>9, <1>10 DEF RequestStep

\* The other steps do.
LEMMA OtherStepIInv ==
  ASSUME IInv,
         \/ \E r \in Reqs, kind \in Kinds, s \in Sids \cup {NoSid} : Arrive(r, kind, s)
         \/ CleanupMemory \/ CleanupRows \/ Restart \/ Tick \/ UNCHANGED vars
  PROVE  IInv'
<1> USE RegistryAssumption DEF IInv, TypeOK
<1>1. ASSUME NEW r \in Reqs, NEW kind \in Kinds, NEW s \in Sids \cup {NoSid},
             Arrive(r, kind, s)
      PROVE  IInv'
  BY <1>1 DEF Arrive, RequestsNameSessions, RegisteredAreBorn, RowNeverOutlivesObject,
       PCs, Kinds, TTL
<1>2. CASE CleanupMemory
  <2>1. Cardinality(ExpiredSids) \in Int
    BY FS_Subset, FS_CardinalityType DEF ExpiredSids
  <2> QED
    BY <1>2, <2>1 DEF CleanupMemory, RequestsNameSessions, RegisteredAreBorn,
         RowNeverOutlivesObject
<1>3. CASE CleanupRows
  BY <1>3 DEF CleanupRows, NoRow, RequestsNameSessions, RegisteredAreBorn,
       RowNeverOutlivesObject, TTL
<1>4. CASE Restart
  BY <1>4 DEF Restart, Idle, RequestsNameSessions, RegisteredAreBorn,
       RowNeverOutlivesObject, PCs, Kinds, TTL
<1>5. CASE Tick
  <2>1. TypeOK'
    BY <1>5, LessType DEF Tick
  <2>2. RowNeverOutlivesObject'
    <3>1. \A s \in Sids : row'[s].live = row[s].live /\ row'[s].ttl = Less(row[s].ttl)
      BY <1>5 DEF Tick
    <3>2. \A o \in Objs : exp'[o] = Less(exp[o])
      BY <1>5 DEF Tick
    <3>3. \A r \in Reqs : /\ req'[r].sid = req[r].sid /\ req'[r].pc = req[r].pc
                          /\ req'[r].ttl = Less(req[r].ttl)
      BY <1>5 DEF Tick
    <3>4. \A s \in Sids, o \in Objs, r \in Reqs :
             /\ row[s].ttl \in TTL /\ exp[o] \in TTL /\ req[r].ttl \in TTL
             /\ mem[s] \in Objs \cup {NoObj}
      OBVIOUS
    <3>5. mem' = mem
      BY <1>5 DEF Tick
    <3> QED BY <3>1, <3>2, <3>3, <3>4, <3>5, LessMonotone DEF RowNeverOutlivesObject
  <2>3. RequestsNameSessions' /\ RegisteredAreBorn'
    BY <1>5 DEF Tick, RequestsNameSessions, RegisteredAreBorn
  <2> QED BY <2>1, <2>2, <2>3
<1>6. CASE UNCHANGED vars
  BY <1>6 DEF vars, RequestsNameSessions, RegisteredAreBorn, RowNeverOutlivesObject
<1> QED BY <1>1, <1>2, <1>3, <1>4, <1>5, <1>6

LEMMA IInvHolds == Spec => []IInv
<1>1. IInv /\ [Next]_vars => IInv'
  BY RequestStepIInv, OtherStepIInv DEF Next
<1> QED BY InitIInv, <1>1, PTL DEF Spec

-----------------------------------------------------------------------------
(* The gauge *)

\* A session about to enter the map is nobody else's yet.
Storing ==
  \A r \in Reqs : req[r].pc = "store" =>
    /\ req[r].sid \in born /\ req[r].sid \notin known /\ mem[req[r].sid] = NoObj
    /\ \A q \in Reqs : q # r => req[q].sid # req[r].sid

Mapped == {s \in Sids : mem[s] # NoObj}

LEMMA StoringStep ==
  ASSUME IInv, Storing, [Next]_vars
  PROVE  Storing'
<1> USE RegistryAssumption
<1>0. /\ req \in [Reqs -> ReqType] /\ mem \in [Sids -> Objs \cup {NoObj}]
      /\ born \subseteq Sids /\ known \subseteq born
      /\ \A r \in Reqs : req[r].sid = NoSid \/ req[r].sid \in born
      /\ \A s \in Sids : mem[s] # NoObj => s \in born
  BY DEF IInv, TypeOK, ReqType, RequestsNameSessions, RegisteredAreBorn
<1>1. ASSUME NEW r \in Reqs, RequestStep(r) PROVE Storing'
  <2>1. CASE CreateRow(r)
    <3>1. PICK s \in Sids \ born :
            /\ born' = born \cup {s} /\ mem' = mem /\ known' = known
            /\ req' = [req EXCEPT ![r] = [pc |-> "store", kind |-> "init", sid |-> s,
                                          obj |-> NoObj, ttl |-> Timeout]]
      BY <2>1 DEF CreateRow
    <3>2. \A q \in Reqs : req[q].sid # s
      BY <1>0
    <3>3. s \notin known /\ mem[s] = NoObj
      BY <1>0
    <3>4. req'[r].pc = "store" /\ req'[r].sid = s /\ \A q \in Reqs : q # r => req'[q] = req[q]
      BY <1>0, <3>1
    <3> QED BY <3>1, <3>2, <3>3, <3>4 DEF Storing
  <2>2. ASSUME req'[r].pc # "store", req'[r].sid \in {req[r].sid, NoSid}, born' = born,
               \A q \in Reqs : q # r => req'[q] = req[q],
               known' \subseteq known \cup {req[r].sid},
               \A s \in Sids : s # req[r].sid => mem'[s] = mem[s]
        PROVE  Storing'
    <3>1. NoSid \notin born
      BY <1>0
    <3>2. ASSUME NEW q \in Reqs, req'[q].pc = "store"
          PROVE  /\ req'[q].sid \in born' /\ req'[q].sid \notin known' /\ mem'[req'[q].sid] = NoObj
                 /\ \A p \in Reqs : p # q => req'[p].sid # req'[q].sid
      <4>1. q # r /\ req'[q] = req[q] /\ req[q].sid # req[r].sid
        BY <2>2, <3>2 DEF Storing
      <4> QED BY <1>0, <2>2, <3>1, <3>2, <4>1 DEF Storing
    <3> QED BY <3>2 DEF Storing
  <2>3. CASE ~CreateRow(r)
    <3>1. /\ \A q \in Reqs : q # r => req'[q] = req[q]
          /\ \A s \in Sids : s # req[r].sid => mem'[s] = mem[s]
      BY <1>0, <1>1, <2>3 DEF RequestStep, Finish, CreateStore, Install, Lookup, CheckExpiry, Step,
           Touch, ReadRow, LoadStore, DropObject, DropRow
    <3>2. born' = born /\ known' \subseteq known \cup {req[r].sid}
      BY <1>0, <1>1, <2>3 DEF RequestStep, Finish, CreateStore, Lookup, CheckExpiry,
           Touch, ReadRow, LoadStore, DropObject, DropRow
    <3>3. req'[r].pc # "store" /\ req'[r].sid \in {req[r].sid, NoSid}
      BY <1>0, <1>1, <2>3 DEF RequestStep, Finish, CreateStore, Install, Lookup, CheckExpiry, Step,
           Touch, ReadRow, LoadStore, DropObject, DropRow, Idle, ReqType
    <3> QED BY <2>2, <3>1, <3>2, <3>3
  <2> QED BY <2>1, <2>3
<1>2. ASSUME NEW r \in Reqs, NEW kind \in Kinds, NEW s \in Sids \cup {NoSid}, Arrive(r, kind, s)
      PROVE  Storing'
  <2>1. /\ req'[r].pc # "store" /\ (s # NoSid => s \in known)
        /\ req'[r].sid = s /\ \A q \in Reqs : q # r => req'[q] = req[q]
    BY <1>0, <1>2 DEF Arrive
  <2>2. UNCHANGED <<born, known, mem>> /\ NoSid \notin born
    BY <1>0, <1>2 DEF Arrive
  <2>3. ASSUME NEW q \in Reqs, req'[q].pc = "store"
        PROVE  /\ req'[q].sid \in born' /\ req'[q].sid \notin known' /\ mem'[req'[q].sid] = NoObj
               /\ \A p \in Reqs : p # q => req'[p].sid # req'[q].sid
    <3>1. q # r /\ req'[q] = req[q] /\ req[q].sid \in born /\ req[q].sid \notin known
      BY <2>1, <2>3 DEF Storing
    <3> QED BY <2>1, <2>2, <2>3, <3>1 DEF Storing
  <2> QED BY <2>3 DEF Storing
<1>3. CASE CleanupMemory
  BY <1>0, <1>3 DEF CleanupMemory, Storing
<1>4. CASE Tick
  <2>1. \A r \in Reqs : req'[r].pc = req[r].pc /\ req'[r].sid = req[r].sid
    BY <1>0, <1>4 DEF Tick, ReqType
  <2>2. UNCHANGED <<mem, born, known>>
    BY <1>4 DEF Tick
  <2> QED BY <2>1, <2>2, Zenon DEF Storing
<1>5. CASE Restart
  BY <1>5 DEF Restart, Idle, Storing
<1>6. CASE CleanupRows \/ UNCHANGED vars
  BY <1>6 DEF CleanupRows, vars, Storing
<1> QED BY <1>1, <1>2, <1>3, <1>4, <1>5, <1>6 DEF Next

LEMMA GaugeStep ==
  ASSUME IInv, Storing, GaugeNeverOvercounts, [Next]_vars
  PROVE  GaugeNeverOvercounts'
<1>0. /\ mem \in [Sids -> Objs \cup {NoObj}] /\ gauge \in Int
      /\ req \in [Reqs -> ReqType] /\ NoObj \notin Objs
  BY RegistryAssumption DEF IInv, TypeOK, ReqType
<1>1. /\ IsFiniteSet(Mapped) /\ Cardinality(Mapped) \in Nat
      /\ IsFiniteSet(Mapped') /\ Cardinality(Mapped') \in Nat
  <2>1. Mapped \in SUBSET Sids /\ Mapped' \in SUBSET Sids
    BY DEF Mapped
  <2> QED BY <2>1, RegistryAssumption, FS_Subset, FS_CardinalityType
<1>2. gauge <= Cardinality(Mapped)
  BY DEF GaugeNeverOvercounts, Mapped
<1>3. SUFFICES gauge' <= Cardinality(Mapped')
  BY DEF GaugeNeverOvercounts, Mapped
<1>4. ASSUME gauge' = gauge, Mapped \subseteq Mapped' PROVE gauge' <= Cardinality(Mapped')
  <2>1. Cardinality(Mapped) <= Cardinality(Mapped')
    BY <1>1, <1>4, FS_Subset
  <2> QED BY <1>0, <1>1, <1>2, <1>4, <2>1
<1>5. ASSUME NEW r \in Reqs, RequestStep(r) PROVE gauge' <= Cardinality(Mapped')
  <2>0. FreeObjs # {} => NewObj \in Objs
    BY NewObjFree DEF FreeObjs
  <2>1. CASE CreateStore(r)
    <3>1. /\ req[r].sid \in Sids /\ mem[req[r].sid] = NoObj
          /\ mem' = [mem EXCEPT ![req[r].sid] = NewObj] /\ NewObj \in Objs /\ gauge' = gauge + 1
      BY <2>0, <2>1 DEF CreateStore, Install, Storing, IInv, TypeOK
    <3>2. Mapped' = Mapped \cup {req[r].sid} /\ req[r].sid \notin Mapped
      BY <1>0, <3>1 DEF Mapped
    <3>3. Cardinality(Mapped') = Cardinality(Mapped) + 1
      BY <1>1, <3>2, FS_AddElement
    <3> QED BY <1>0, <1>1, <1>2, <3>1, <3>3
  <2>2. CASE LoadStore(r)
    <3>1. mem' = [mem EXCEPT ![req[r].sid] = NewObj] /\ NewObj \in Objs /\ gauge' = gauge
      BY <2>0, <2>2 DEF LoadStore, Install
    <3>2. Mapped \subseteq Mapped'
      BY <1>0, <3>1 DEF Mapped
    <3> QED BY <1>4, <3>1, <3>2
  <2>3. CASE DropObject(r)
    <3> DEFINE s == req[r].sid
    <3>1. mem' = [mem EXCEPT ![s] = NoObj] /\ gauge' = IF mem[s] = NoObj THEN gauge ELSE gauge - 1
      BY <2>3 DEF DropObject
    <3>2. s \in Sids
      <4>1. /\ s \in Sids \cup {NoSid} /\ born \subseteq Sids
            /\ s = NoSid => req[r].pc = "idle" \/ (req[r].pc = "have" /\ req[r].kind = "init")
            /\ req[r].pc = "expired" => s \in born
        BY <1>0 DEF ReqType, IInv, RequestsNameSessions, TypeOK
      <4> QED BY <2>3, <4>1 DEF DropObject
    <3> HIDE DEF s
    <3>3. Mapped' = Mapped \ {s} /\ (s \in Mapped <=> mem[s] # NoObj)
      BY <1>0, <3>1, <3>2 DEF Mapped
    <3>4. Cardinality(Mapped') = IF s \in Mapped THEN Cardinality(Mapped) - 1
                                 ELSE Cardinality(Mapped)
      BY <1>1, <3>3, FS_RemoveElement
    <3> QED BY <1>0, <1>1, <1>2, <3>1, <3>3, <3>4
  <2>4. CASE ~CreateStore(r) /\ ~LoadStore(r) /\ ~DropObject(r)
    <3>1. mem' = mem /\ gauge' = gauge
      BY <1>5, <2>4 DEF RequestStep, Finish, CreateRow, Lookup, CheckExpiry, Touch, ReadRow, DropRow
    <3> QED BY <1>4, <3>1 DEF Mapped
  <2> QED BY <2>1, <2>2, <2>3, <2>4
<1>6. CASE CleanupMemory
  <2>1. Mapped' = Mapped \ ExpiredSids /\ Mapped \cap ExpiredSids = ExpiredSids
    BY <1>0, <1>6 DEF CleanupMemory, Mapped, ExpiredSids
  <2>2. Cardinality(Mapped') = Cardinality(Mapped) - Cardinality(ExpiredSids)
    <3>1. \A T : Cardinality(Mapped \ T) = Cardinality(Mapped) - Cardinality(Mapped \cap T)
      BY <1>1, FS_Difference
    <3>2. Cardinality(Mapped \ ExpiredSids)
            = Cardinality(Mapped) - Cardinality(Mapped \cap ExpiredSids)
      BY <3>1
    <3> QED BY <2>1, <3>2, Zenon
  <2>3. gauge' = gauge - Cardinality(ExpiredSids) /\ Cardinality(ExpiredSids) \in Nat
    <3>1. ExpiredSids \in SUBSET Sids
      BY DEF ExpiredSids
    <3> QED BY <1>6, <3>1, RegistryAssumption, FS_Subset, FS_CardinalityType DEF CleanupMemory
  <2> QED BY <1>0, <1>1, <1>2, <2>2, <2>3
<1>7. CASE Restart
  BY <1>1, <1>7 DEF Restart
<1>8. ASSUME \/ \E r \in Reqs, kind \in Kinds, s \in Sids \cup {NoSid} : Arrive(r, kind, s)
             \/ CleanupRows \/ Tick \/ UNCHANGED vars
      PROVE  gauge' <= Cardinality(Mapped')
  <2>1. mem' = mem /\ gauge' = gauge
    BY <1>8 DEF Arrive, CleanupRows, Tick, vars
  <2> QED BY <1>4, <2>1 DEF Mapped
<1> QED BY <1>5, <1>6, <1>7, <1>8 DEF Next

-----------------------------------------------------------------------------
(* Who is turned away *)

\* A client has taken the session out of memory, and of the database sooner or later.
Gone(s) ==
  \/ s \in closed
  \/ \E d \in Reqs : /\ req[d].sid = s /\ req[d].kind = "delete"
                     /\ req[d].pc \in {"drop", "deleted", "failed"}

\* The session goes through three phases while nobody deletes it: its row is written
\* and its creator has yet to register it; ...
Entering(s) == \E r \in Reqs : req[r].pc = "store" /\ req[r].sid = s /\ idleLeft[s] <= req[r].ttl

\* What is left of the row once it has expired: nothing, or a row to be deleted.
RowOver(s) == row[s].live => row[s].ttl = 0

\* ... it is registered, and its requests hold the registered object, which outlasts
\* the inactivity period; ...
HoldsRegistered(r, s) ==
  /\ req[r].pc \notin {"read", "loaded", "dropRow", "store"}
  /\ req[r].pc \in {"check", "touch", "expired"} => req[r].obj = mem[s]
  /\ req[r].pc = "expired" => idleLeft[s] = 0 /\ RowOver(s)

Registered(s) ==
  /\ mem[s] # NoObj /\ idleLeft[s] <= exp[mem[s]]
  /\ \A r \in Reqs : req[r].sid = s => HoldsRegistered(r, s)

\* ... it has been inactive too long, and nothing brings it back.
HoldsOld(r) ==
  /\ req[r].pc \notin {"loaded", "store"}
  /\ req[r].pc \in {"check", "touch"} => req[r].obj # NoObj

Over(s) ==
  /\ mem[s] = NoObj /\ idleLeft[s] = 0 /\ RowOver(s)
  /\ \A r \in Reqs : req[r].sid = s => HoldsOld(r)

InPhase(s) == Gone(s) \/ Entering(s) \/ Registered(s) \/ Over(s)

\* Until a restart loses the objects, every session is in one of these phases.
Phases == restarts = 0 => \A s \in born : InPhase(s)

\* Request r leaves the other requests alone.
Alone(r) == \A q \in Reqs : q # r => req'[q] = req[q]

\* What a request's step leaves alone, and where the request can go.
LEMMA StepOfOne ==
  ASSUME IInv, NEW r \in Reqs, RequestStep(r)
  PROVE  /\ Alone(r) /\ closed \subseteq closed' /\ restarts' = restarts
         /\ born \subseteq born'
         /\ \A s \in Sids : mem[s] # NoObj => exp[mem[s]] <= exp'[mem[s]]
<1> USE RegistryAssumption
<1>0. /\ req \in [Reqs -> ReqType] /\ mem \in [Sids -> Objs \cup {NoObj}]
      /\ exp \in [Objs -> TTL] /\ \A n \in TTL : n <= n /\ n <= Timeout
  BY DEF IInv, TypeOK, ReqType, TTL
<1>1. Alone(r)
  BY <1>0 DEF RequestStep, Finish, CreateRow, CreateStore, Install, Lookup, CheckExpiry, Step,
       Touch, ReadRow, LoadStore, DropObject, DropRow, Alone
<1>2. closed \subseteq closed' /\ restarts' = restarts
  BY DEF RequestStep, Finish, CreateRow, CreateStore, Lookup, CheckExpiry,
       Touch, ReadRow, LoadStore, DropObject, DropRow
<1>3. born \subseteq born'
  BY DEF RequestStep, Finish, CreateRow, CreateStore, Lookup, CheckExpiry,
       Touch, ReadRow, LoadStore, DropObject, DropRow
<1>4. ASSUME NEW s \in Sids, mem[s] # NoObj PROVE exp[mem[s]] <= exp'[mem[s]]
  <2>0. mem[s] \in Objs
    BY <1>0, <1>4
  <2>1. CASE CreateStore(r) \/ LoadStore(r)
    <3>1. NewObj \in FreeObjs /\ exp' = [exp EXCEPT ![NewObj] = req[r].ttl]
      BY <2>1, NewObjFree DEF CreateStore, LoadStore, Install
    <3>2. NewObj # mem[s]
      BY <3>1 DEF FreeObjs
    <3> QED BY <1>0, <2>0, <3>1, <3>2
  <2>2. CASE Touch(r)
    <3>1. exp' = [exp EXCEPT ![req[r].obj] = Timeout]
      BY <2>2 DEF Touch
    <3> QED BY <1>0, <2>0, <3>1
  <2>3. CASE ~CreateStore(r) /\ ~LoadStore(r) /\ ~Touch(r)
    <3>1. exp' = exp
      BY <2>3 DEF RequestStep, Finish, CreateRow, Lookup, CheckExpiry, ReadRow, DropObject, DropRow
    <3> QED BY <1>0, <2>0, <3>1
  <2> QED BY <2>1, <2>2, <2>3
<1> QED BY <1>1, <1>2, <1>3, <1>4

\* A step of a request for another session, or for none, leaves the session alone.
LEMMA ElsewhereStep ==
  ASSUME IInv, NEW r \in Reqs, RequestStep(r), NEW s \in born, req[r].sid # s
  PROVE  /\ row'[s] = row[s] /\ mem'[s] = mem[s] /\ idleLeft'[s] = idleLeft[s]
         /\ req'[r].sid # s
<1> USE RegistryAssumption
<1>0. /\ req \in [Reqs -> ReqType] /\ mem \in [Sids -> Objs \cup {NoObj}] /\ s \in Sids
      /\ row \in [Sids -> [live : BOOLEAN, ttl : TTL]] /\ idleLeft \in [Sids -> TTL]
      /\ s # NoSid
  BY DEF IInv, TypeOK, ReqType
<1>1. CASE CreateRow(r)
  <2>1. PICK t \in Sids \ born :
          /\ row' = [row EXCEPT ![t] = [live |-> TRUE, ttl |-> Timeout]]
          /\ req' = [req EXCEPT ![r] = [pc |-> "store", kind |-> "init", sid |-> t,
                                        obj |-> NoObj, ttl |-> Timeout]]
          /\ idleLeft' = [idleLeft EXCEPT ![t] = Timeout] /\ mem' = mem
    BY <1>1 DEF CreateRow
  <2> QED BY <1>0, <2>1
<1>2. CASE ~CreateRow(r)
  <2>1. row'[s] = row[s] /\ mem'[s] = mem[s]
    BY <1>0, <1>2 DEF RequestStep, Finish, CreateStore, Install, Lookup, CheckExpiry,
         Touch, ReadRow, LoadStore, DropObject, DropRow
  <2>2. idleLeft'[s] = idleLeft[s]
    BY <1>0, <1>2 DEF RequestStep, Finish, CreateStore, Lookup, CheckExpiry,
         Touch, ReadRow, LoadStore, DropObject, DropRow
  <2>3. req'[r].sid # s
    BY <1>0, <1>2 DEF RequestStep, Finish, CreateStore, Install, Lookup, CheckExpiry, Step,
         Touch, ReadRow, LoadStore, DropObject, DropRow, Idle, ReqType
  <2> QED BY <2>1, <2>2, <2>3
<1> QED BY <1>1, <1>2

\* A session whose requests keep what they hold, or leave, stays in its phase as long
\* as nobody touches it.
LEMMA PhaseKept ==
  ASSUME IInv, NEW r \in Reqs, NEW s \in born, Registered(s) \/ Over(s),
         Alone(r), req'[r].sid # s, idleLeft'[s] = idleLeft[s],
         mem'[s] = mem[s], mem[s] # NoObj => exp[mem[s]] <= exp'[mem[s]],
         exp' \in [Objs -> TTL], row'[s] = row[s]
  PROVE  Registered(s)' \/ Over(s)'
<1>0. /\ s \in Sids /\ mem \in [Sids -> Objs \cup {NoObj}] /\ idleLeft[s] \in TTL
      /\ mem[s] # NoObj => exp[mem[s]] \in TTL
  BY DEF IInv, TypeOK
<1>1. RowOver(s) => RowOver(s)'
  BY DEF RowOver
<1>2. CASE Registered(s)
  <2>1. mem'[s] # NoObj
    BY <1>2 DEF Registered
  <2>2. idleLeft'[s] <= exp'[mem'[s]]
    <3>1. mem[s] # NoObj /\ idleLeft[s] <= exp[mem[s]]
      BY <1>2 DEF Registered
    <3>2. exp[mem[s]] \in TTL /\ exp'[mem[s]] \in Int
      BY <1>0, <3>1 DEF IInv, TypeOK, TTL
    <3> QED BY <1>0, <3>1, <3>2 DEF TTL
  <2>3. ASSUME NEW q \in Reqs, req'[q].sid = s PROVE HoldsRegistered(q, s)'
    BY <1>1, <1>2, <2>3 DEF Registered, Alone, HoldsRegistered
  <2> QED BY <2>1, <2>2, <2>3 DEF Registered
<1>3. CASE Over(s)
  BY <1>1, <1>3 DEF Over, Alone, HoldsOld
<1> QED BY <1>2, <1>3

\* Once a client has deleted the session, it stays deleted.
LEMMA GoneStays ==
  ASSUME IInv, NEW r \in Reqs, RequestStep(r), NEW s \in born, Gone(s)
  PROVE  Gone(s)'
<1>0. req \in [Reqs -> ReqType] /\ Alone(r) /\ closed \subseteq closed'
  BY StepOfOne DEF IInv, TypeOK, ReqType
<1>1. CASE s \in closed
  BY <1>0, <1>1 DEF Gone
<1>2. ASSUME NEW d \in Reqs, req[d].sid = s, req[d].kind = "delete",
             req[d].pc \in {"drop", "deleted", "failed"}
      PROVE  Gone(s)'
  <2>1. CASE d # r
    BY <1>0, <1>2, <2>1 DEF Gone, Alone
  <2>2. CASE d = r /\ req[r].pc = "drop"
    <3>1. DropRow(r)
      BY <1>2, <2>2 DEF RequestStep, Finish, CreateRow, CreateStore, Lookup, CheckExpiry, Step,
           Touch, ReadRow, LoadStore, DropObject
    <3>2. req'[r].sid = s /\ req'[r].kind = "delete" /\ req'[r].pc \in {"deleted", "failed"}
      BY <1>0, <1>2, <2>2, <3>1 DEF DropRow, ReqType
    <3> QED BY <2>2, <3>2 DEF Gone
  <2>3. CASE d = r /\ req[r].pc \in {"deleted", "failed"}
    <3>1. Finish(r)
      BY <1>2, <2>3 DEF RequestStep, CreateRow, CreateStore, Lookup, CheckExpiry, Step,
           Touch, ReadRow, LoadStore, DropObject, DropRow
    <3>2. s \in closed'
      BY <1>2, <2>3, <3>1 DEF Finish
    <3> QED BY <3>2 DEF Gone
  <2> QED BY <1>2, <2>1, <2>2, <2>3
<1> QED BY <1>1, <1>2 DEF Gone

\* The creator of a session is alone with it until the session is registered.
LEMMA EnteringStep ==
  ASSUME IInv, Storing, NEW r \in Reqs, RequestStep(r), NEW s \in born, Entering(s)
  PROVE  Entering(s)' \/ Registered(s)'
<1> USE RegistryAssumption
<1>0. /\ req \in [Reqs -> ReqType] /\ Alone(r) /\ s \in Sids
      /\ mem \in [Sids -> Objs \cup {NoObj}] /\ exp \in [Objs -> TTL]
  BY StepOfOne DEF IInv, TypeOK, ReqType
<1>1. PICK p \in Reqs : req[p].pc = "store" /\ req[p].sid = s /\ idleLeft[s] <= req[p].ttl
  BY DEF Entering
<1>2. CASE p # r
  <2>1. req[r].sid # s
    BY <1>1, <1>2 DEF Storing
  <2>2. idleLeft'[s] = idleLeft[s] /\ req'[p] = req[p]
    BY <1>0, <1>2, <2>1, ElsewhereStep DEF Alone
  <2> QED BY <1>1, <2>2 DEF Entering
<1>3. CASE p = r
  <2>1. CreateStore(r)
    BY <1>1, <1>3 DEF RequestStep, Finish, CreateRow, Lookup, CheckExpiry, Step,
         Touch, ReadRow, LoadStore, DropObject, DropRow
  <2>2. NewObj \in Objs
    BY <2>1, NewObjFree DEF CreateStore, Install, FreeObjs
  <2>3. mem'[s] = NewObj /\ exp'[NewObj] = req[r].ttl /\ idleLeft' = idleLeft
    BY <1>0, <1>1, <1>3, <2>1, <2>2 DEF CreateStore, Install
  <2>4. req'[r].pc = "have" /\ \A q \in Reqs : q # r => req'[q].sid # s
    BY <1>0, <1>1, <1>3, <2>1 DEF CreateStore, Install, Storing, Alone, ReqType
  <2>5. mem'[s] # NoObj
    BY <2>2, <2>3
  <2>6. idleLeft'[s] <= exp'[mem'[s]]
    BY <1>1, <1>3, <2>3
  <2>7. \A q \in Reqs : req'[q].sid = s => HoldsRegistered(q, s)'
    BY <2>4 DEF HoldsRegistered
  <2> QED BY <2>5, <2>6, <2>7 DEF Registered
<1> QED BY <1>2, <1>3

\* A registered session stays registered, is deleted by a client, or has been inactive
\* for the whole timeout when it is taken out.
LEMMA RegisteredStep ==
  ASSUME IInv, IInv', NEW r \in Reqs, RequestStep(r), NEW s \in born, Registered(s),
         req[r].sid = s
  PROVE  InPhase(s)'
<1> USE RegistryAssumption
<1>0. /\ req \in [Reqs -> ReqType] /\ req' \in [Reqs -> ReqType] /\ Alone(r) /\ s \in Sids
      /\ mem \in [Sids -> Objs \cup {NoObj}] /\ mem' \in [Sids -> Objs \cup {NoObj}]
      /\ exp \in [Objs -> TTL] /\ exp' \in [Objs -> TTL]
      /\ row \in [Sids -> [live : BOOLEAN, ttl : TTL]]
      /\ idleLeft \in [Sids -> TTL] /\ idleLeft' \in [Sids -> TTL]
      /\ mem[s] # NoObj => exp[mem[s]] <= exp'[mem[s]]
  BY StepOfOne DEF IInv, TypeOK, ReqType
<1>1. /\ mem[s] \in Objs /\ mem[s] # NoObj /\ idleLeft[s] <= exp[mem[s]]
      /\ \A q \in Reqs : req[q].sid = s => HoldsRegistered(q, s)
  BY <1>0 DEF Registered
<1>2. row[s].live => row[s].ttl <= exp[mem[s]]
  BY <1>0, <1>1 DEF IInv, RowNeverOutlivesObject
\* The object stays, and the request holds what it may hold.
<1>3. ASSUME mem'[s] = mem[s], idleLeft'[s] <= exp'[mem[s]],
             RowOver(s) => RowOver(s)',
             \A q \in Reqs : q # r /\ req[q].pc = "expired" /\ req[q].sid = s
                               => idleLeft'[s] = idleLeft[s],
             req'[r].sid = s => HoldsRegistered(r, s)'
      PROVE  InPhase(s)'
  <2>1. ASSUME NEW q \in Reqs, req'[q].sid = s PROVE HoldsRegistered(q, s)'
    <3>1. CASE q = r
      BY <1>3, <2>1, <3>1
    <3>2. CASE q # r
      <4>1. req'[q] = req[q] /\ HoldsRegistered(q, s)
        BY <1>0, <1>1, <2>1, <3>2 DEF Alone
      <4> QED BY <1>3, <2>1, <3>2, <4>1 DEF HoldsRegistered
    <3> QED BY <3>1, <3>2
  <2>2. mem'[s] # NoObj /\ idleLeft'[s] <= exp'[mem'[s]]
    BY <1>1, <1>3
  <2> QED BY <2>1, <2>2 DEF Registered, InPhase
<1>4. HoldsRegistered(r, s)
  BY <1>1
<1>5. CASE Finish(r) \/ CreateRow(r)
  <2>1. row'[s] = row[s] /\ mem'[s] = mem[s] /\ idleLeft'[s] = idleLeft[s] /\ req'[r].sid # s
    <3>1. CASE Finish(r)
      BY <1>0, <3>1 DEF Finish, Idle, ReqType, IInv, TypeOK
    <3>2. CASE CreateRow(r)
      BY <1>0, <3>2 DEF CreateRow
    <3> QED BY <1>5, <3>1, <3>2
  <2>2. Registered(s)' \/ Over(s)'
    BY <1>0, <2>1, PhaseKept
  <2> QED BY <2>2 DEF InPhase
<1>6. CASE Lookup(r)
  <2>1. /\ mem' = mem /\ idleLeft' = idleLeft /\ exp' = exp /\ row' = row
        /\ req'[r].pc = "check" /\ req'[r].obj = mem[s]
    BY <1>0, <1>1, <1>6 DEF Lookup, ReqType
  <2>2. HoldsRegistered(r, s)'
    BY <2>1 DEF HoldsRegistered
  <2> QED BY <1>1, <1>3, <2>1, <2>2 DEF RowOver
<1>7. CASE CheckExpiry(r)
  <2>1. /\ mem' = mem /\ idleLeft' = idleLeft /\ exp' = exp /\ row' = row
        /\ req[r].obj = mem[s] /\ req'[r].obj = mem[s]
        /\ req'[r].pc = IF exp[mem[s]] = 0 THEN "expired" ELSE "touch"
    BY <1>0, <1>1, <1>4, <1>7 DEF CheckExpiry, Step, ReqType, HoldsRegistered
  <2>2. exp[mem[s]] = 0 => idleLeft[s] = 0 /\ RowOver(s)
    <3>1. idleLeft[s] \in TTL /\ row[s].ttl \in TTL
      BY <1>0
    <3> QED BY <1>1, <1>2, <3>1 DEF RowOver, TTL
  <2>3. RowOver(s) => RowOver(s)'
    BY <2>1 DEF RowOver
  <2>4. HoldsRegistered(r, s)'
    BY <2>1, <2>2, <2>3 DEF HoldsRegistered
  <2> QED BY <1>1, <1>3, <2>1, <2>3, <2>4
<1>8. CASE Touch(r)
  <2>1. /\ mem' = mem /\ row' = row /\ req[r].obj = mem[s] /\ req'[r].pc = "have"
        /\ exp' = [exp EXCEPT ![mem[s]] = Timeout]
        /\ idleLeft' = IF CountsAsUse(r) THEN [idleLeft EXCEPT ![s] = Timeout] ELSE idleLeft
    BY <1>0, <1>1, <1>4, <1>8 DEF Touch, Step, ReqType, HoldsRegistered
  <2>2. exp'[mem[s]] = Timeout /\ idleLeft'[s] <= Timeout
    BY <1>0, <1>1, <2>1 DEF TTL
  <2>3. \A q \in Reqs : req[q].pc = "expired" /\ req[q].sid = s => idleLeft' = idleLeft
    BY <2>1 DEF CountsAsUse
  <2>4. HoldsRegistered(r, s)'
    BY <2>1 DEF HoldsRegistered
  <2> QED BY <1>3, <2>1, <2>2, <2>3, <2>4 DEF RowOver
<1>9. CASE DropObject(r)
  <2>1. CASE req[r].pc = "have" /\ req[r].kind = "delete"
    <3>1. req'[r].sid = s /\ req'[r].kind = "delete" /\ req'[r].pc = "drop"
      BY <1>0, <1>9, <2>1 DEF DropObject, ReqType
    <3> QED BY <3>1 DEF Gone, InPhase
  <2>2. CASE req[r].pc = "expired"
    <3>1. mem'[s] = NoObj /\ idleLeft' = idleLeft /\ row' = row /\ req'[r].pc = "dropRow"
      BY <1>0, <1>9, <2>2 DEF DropObject, ReqType
    <3>2. idleLeft[s] = 0 /\ RowOver(s)
      BY <1>4, <2>2 DEF HoldsRegistered
    <3>3. idleLeft'[s] = 0 /\ RowOver(s)'
      BY <3>1, <3>2 DEF RowOver
    <3>4. \A q \in Reqs : req'[q].sid = s => HoldsOld(q)'
      BY <1>0, <1>1, <3>1 DEF HoldsRegistered, HoldsOld, Alone
    <3> QED BY <3>1, <3>3, <3>4 DEF Over, InPhase
  <2> QED BY <1>9, <2>1, <2>2 DEF DropObject
<1>10. CASE DropRow(r)
  <2>1. /\ mem' = mem /\ idleLeft' = idleLeft /\ exp' = exp
        /\ row'[s] = NoRow /\ req'[r].pc \in {"deleted", "failed"}
    BY <1>0, <1>4, <1>10 DEF DropRow, ReqType, HoldsRegistered
  <2>2. RowOver(s)'
    BY <2>1 DEF RowOver, NoRow
  <2>3. HoldsRegistered(r, s)'
    BY <2>1 DEF HoldsRegistered
  <2> QED BY <1>1, <1>3, <2>1, <2>2, <2>3
<1>11. ~CreateStore(r) /\ ~ReadRow(r) /\ ~LoadStore(r)
  BY <1>4 DEF CreateStore, ReadRow, LoadStore, HoldsRegistered
<1> QED BY <1>5, <1>6, <1>7, <1>8, <1>9, <1>10, <1>11 DEF RequestStep

\* Nothing brings a session back that was inactive too long: its row has expired, and the
\* requests that still hold its object no longer count as its use.
LEMMA OverStep ==
  ASSUME IInv, IInv', NEW r \in Reqs, RequestStep(r), NEW s \in born, Over(s), req[r].sid = s
  PROVE  Over(s)'
<1> USE RegistryAssumption
<1>0. /\ req \in [Reqs -> ReqType] /\ Alone(r) /\ s \in Sids
      /\ mem \in [Sids -> Objs \cup {NoObj}] /\ idleLeft \in [Sids -> TTL]
      /\ row \in [Sids -> [live : BOOLEAN, ttl : TTL]]
  BY StepOfOne DEF IInv, TypeOK, ReqType
<1>1. /\ mem[s] = NoObj /\ idleLeft[s] = 0 /\ RowOver(s)
      /\ \A q \in Reqs : req[q].sid = s => HoldsOld(q)
  BY DEF Over
<1>2. ASSUME mem'[s] = NoObj, idleLeft'[s] = 0, RowOver(s)', req'[r].sid = s => HoldsOld(r)'
      PROVE  Over(s)'
  BY <1>0, <1>1, <1>2 DEF Alone, HoldsOld, Over
<1>3. HoldsOld(r)
  BY <1>1
<1>4. RowOver(s)'
  BY <1>0, <1>1, <1>3 DEF RequestStep, Finish, CreateRow, CreateStore, Lookup, CheckExpiry, Touch,
       ReadRow, LoadStore, DropObject, DropRow, RowOver, NoRow
<1>5. mem'[s] = NoObj
  BY <1>0, <1>1, <1>3 DEF RequestStep, Finish, CreateRow, CreateStore, Lookup, CheckExpiry, Touch,
       ReadRow, LoadStore, DropObject, DropRow, HoldsOld
<1>6. idleLeft'[s] = 0
  <2>1. ~(Touch(r) /\ CountsAsUse(r))
    BY <1>1, <1>3 DEF Touch, Step, CountsAsUse, HoldsOld
  <2> QED BY <1>0, <1>1, <2>1 DEF RequestStep, Finish, CreateRow, CreateStore, Lookup,
            CheckExpiry, Touch, ReadRow, LoadStore, DropObject, DropRow
<1>7. req'[r].sid = s => HoldsOld(r)'
  <2>1. CASE CreateRow(r)
    BY <1>0, <2>1 DEF CreateRow
  <2>2. CASE ReadRow(r)
    <3>1. ~(row[s].live /\ row[s].ttl > 0)
      BY <1>1 DEF RowOver
    <3>2. req'[r].pc = "notfound"
      BY <1>0, <2>2, <3>1 DEF ReadRow, ReqType
    <3> QED BY <3>2 DEF HoldsOld
  <2>3. CASE ~CreateRow(r) /\ ~ReadRow(r)
    BY <1>0, <1>1, <1>3, <2>3 DEF RequestStep, Finish, CreateStore, Lookup, CheckExpiry, Step,
         Touch, LoadStore, DropObject, DropRow, Idle, ReqType, HoldsOld
  <2> QED BY <2>1, <2>2, <2>3
<1> QED BY <1>2, <1>4, <1>5, <1>6, <1>7

\* The phases follow each other and nothing leaves them.
LEMMA PhasesStep ==
  ASSUME IInv, IInv', Storing, Phases, [Next]_vars
  PROVE  Phases'
<1> USE RegistryAssumption
<1>0. /\ req \in [Reqs -> ReqType] /\ mem \in [Sids -> Objs \cup {NoObj}] /\ born \subseteq Sids
      /\ row \in [Sids -> [live : BOOLEAN, ttl : TTL]] /\ exp \in [Objs -> TTL]
      /\ idleLeft \in [Sids -> TTL] /\ restarts \in Nat
  BY DEF IInv, TypeOK, ReqType
<1>1. ASSUME NEW r \in Reqs, RequestStep(r) PROVE Phases'
  <2>1. SUFFICES ASSUME restarts' = 0, NEW s \in born' PROVE InPhase(s)'
    BY DEF Phases
  <2>2. restarts = 0 /\ Alone(r)
    BY <1>1, <2>1, StepOfOne
  <2>3. CASE s \notin born
    <3>1. CreateRow(r)
      BY <1>1, <2>3 DEF RequestStep, Finish, CreateStore, Lookup, CheckExpiry,
           Touch, ReadRow, LoadStore, DropObject, DropRow
    <3>2. PICK t \in Sids \ born :
            /\ born' = born \cup {t}
            /\ req' = [req EXCEPT ![r] = [pc |-> "store", kind |-> "init", sid |-> t,
                                          obj |-> NoObj, ttl |-> Timeout]]
            /\ idleLeft' = [idleLeft EXCEPT ![t] = Timeout]
      BY <3>1 DEF CreateRow
    <3>3. t = s /\ s \in Sids
      BY <2>3, <3>2
    <3>4. /\ req'[r].pc = "store" /\ req'[r].sid = s /\ req'[r].ttl = Timeout
          /\ idleLeft'[s] = Timeout
      BY <1>0, <3>2, <3>3
    <3> QED BY <3>4 DEF Entering, InPhase
  <2>4. CASE s \in born
    <3>1. InPhase(s)
      BY <2>2, <2>4 DEF Phases
    <3>2. CASE Gone(s)
      BY <1>1, <2>4, <3>2, GoneStays DEF InPhase
    <3>3. CASE Entering(s)
      <4>1. Entering(s)' \/ Registered(s)'
        BY <1>1, <2>4, <3>3, EnteringStep
      <4> QED BY <4>1 DEF InPhase
    <3>4. CASE (Registered(s) \/ Over(s)) /\ req[r].sid # s
      <4>1. /\ row'[s] = row[s] /\ mem'[s] = mem[s] /\ idleLeft'[s] = idleLeft[s]
            /\ req'[r].sid # s
        BY <1>1, <2>4, <3>4, ElsewhereStep
      <4>2. mem[s] # NoObj => exp[mem[s]] <= exp'[mem[s]]
        BY <1>0, <1>1, <2>4, StepOfOne
      <4>3. exp' \in [Objs -> TTL]
        BY DEF IInv, TypeOK
      <4>4. Registered(s)' \/ Over(s)'
        BY <2>2, <2>4, <3>4, <4>1, <4>2, <4>3, PhaseKept
      <4> QED BY <4>4 DEF InPhase
    <3>5. CASE Registered(s) /\ req[r].sid = s
      BY <1>1, <2>4, <3>5, RegisteredStep
    <3>6. CASE Over(s) /\ req[r].sid = s
      <4>1. Over(s)'
        BY <1>1, <2>4, <3>6, OverStep
      <4> QED BY <4>1 DEF InPhase
    <3> QED BY <3>1, <3>2, <3>3, <3>4, <3>5, <3>6 DEF InPhase
  <2> QED BY <2>3, <2>4
<1>2. ASSUME NEW r \in Reqs, NEW kind \in Kinds, NEW t \in Sids \cup {NoSid}, Arrive(r, kind, t)
      PROVE  Phases'
  <2>1. SUFFICES ASSUME restarts = 0, NEW s \in born PROVE InPhase(s)'
    BY <1>2 DEF Phases, Arrive
  <2>2. /\ UNCHANGED <<row, mem, exp, born, closed, idleLeft>> /\ Alone(r)
        /\ req[r].pc = "idle" /\ (t # NoSid => t \in known)
        /\ req'[r].sid = t /\ req'[r].pc \in {"have", "lookup"}
    BY <1>0, <1>2 DEF Arrive, Alone
  <2>3. InPhase(s)
    BY <2>1 DEF Phases
  <2>4. CASE Gone(s)
    BY <2>2, <2>4 DEF Gone, Alone, InPhase
  <2>5. CASE Entering(s)
    BY <2>2, <2>5 DEF Entering, Alone, InPhase
  <2>6. CASE Registered(s)
    <3>1. ASSUME NEW q \in Reqs, req'[q].sid = s PROVE HoldsRegistered(q, s)'
      BY <2>2, <2>6, <3>1 DEF Registered, HoldsRegistered, Alone, RowOver
    <3> QED BY <2>2, <2>6, <3>1 DEF Registered, InPhase
  <2>7. CASE Over(s)
    <3>1. ASSUME NEW q \in Reqs, req'[q].sid = s PROVE HoldsOld(q)'
      BY <2>2, <2>7, <3>1 DEF Over, HoldsOld, Alone
    <3> QED BY <2>2, <2>7, <3>1 DEF Over, InPhase, RowOver
  <2> QED BY <2>3, <2>4, <2>5, <2>6, <2>7 DEF InPhase
<1>3. CASE CleanupMemory
  <2>1. SUFFICES ASSUME restarts = 0, NEW s \in born PROVE InPhase(s)'
    BY <1>3 DEF Phases, CleanupMemory
  <2>2. /\ UNCHANGED <<row, exp, req, closed, idleLeft>>
        /\ mem'[s] = IF s \in ExpiredSids THEN NoObj ELSE mem[s]
    BY <1>0, <1>3 DEF CleanupMemory
  <2>3. InPhase(s)
    BY <2>1 DEF Phases
  <2>4. CASE Gone(s)
    BY <2>2, <2>4 DEF Gone, InPhase
  <2>5. CASE Entering(s)
    BY <2>2, <2>5 DEF Entering, InPhase
  <2>6. CASE Registered(s) /\ s \notin ExpiredSids
    BY <2>2, <2>6 DEF Registered, HoldsRegistered, RowOver, InPhase
  <2>7. CASE Registered(s) /\ s \in ExpiredSids
    <3>1. /\ mem[s] \in Objs /\ mem[s] # NoObj /\ exp[mem[s]] = 0
          /\ idleLeft[s] <= exp[mem[s]] /\ s \in Sids
      BY <1>0, <2>7 DEF Registered, ExpiredSids
    <3>2. row[s].live => row[s].ttl <= exp[mem[s]]
      BY <3>1 DEF IInv, RowNeverOutlivesObject
    <3>3. row[s].ttl \in TTL /\ idleLeft[s] \in TTL
      BY <1>0, <3>1
    <3>4. idleLeft[s] = 0 /\ RowOver(s)
      BY <3>1, <3>2, <3>3 DEF TTL, RowOver
    <3>5. \A q \in Reqs : req[q].sid = s => HoldsOld(q)
      BY <2>7, <3>1 DEF Registered, HoldsRegistered, HoldsOld
    <3>6. Over(s)'
      BY <2>2, <2>7, <3>4, <3>5 DEF Over, RowOver, HoldsOld
    <3> QED BY <3>6 DEF InPhase
  <2>8. CASE Over(s)
    BY <2>2, <2>8 DEF Over, HoldsOld, RowOver, InPhase
  <2> QED BY <2>3, <2>4, <2>5, <2>6, <2>7, <2>8 DEF InPhase
<1>4. CASE CleanupRows
  <2>1. SUFFICES ASSUME restarts = 0, NEW s \in born PROVE InPhase(s)'
    BY <1>4 DEF Phases, CleanupRows
  <2>2. /\ UNCHANGED <<mem, exp, req, closed, idleLeft>>
        /\ row'[s] = IF row[s].ttl = 0 THEN NoRow ELSE row[s]
    BY <1>0, <1>4 DEF CleanupRows
  <2>3. RowOver(s) => RowOver(s)'
    BY <2>2 DEF RowOver, NoRow
  <2>4. Gone(s) => Gone(s)'
    BY <2>2 DEF Gone
  <2>5. Entering(s) => Entering(s)'
    BY <2>2 DEF Entering
  <2>6. Registered(s) => Registered(s)'
    BY <2>2, <2>3 DEF Registered, HoldsRegistered
  <2>7. Over(s) => Over(s)'
    BY <2>2, <2>3 DEF Over, HoldsOld
  <2> QED BY <2>1, <2>4, <2>5, <2>6, <2>7 DEF Phases, InPhase
<1>5. CASE Restart
  <2>1. restarts' # 0
    BY <1>0, <1>5 DEF Restart
  <2> QED BY <2>1 DEF Phases
<1>6. CASE Tick
  <2>1. SUFFICES ASSUME restarts = 0, NEW s \in born PROVE InPhase(s)'
    BY <1>6 DEF Phases, Tick
  <2>2. /\ UNCHANGED <<mem, closed>> /\ idleLeft'[s] = Less(idleLeft[s])
        /\ row'[s].live = row[s].live /\ row'[s].ttl = Less(row[s].ttl)
        /\ \A o \in Objs : exp'[o] = Less(exp[o])
    BY <1>0, <1>6 DEF Tick
  <2>3. \A q \in Reqs : /\ req'[q].sid = req[q].sid /\ req'[q].pc = req[q].pc
                        /\ req'[q].kind = req[q].kind /\ req'[q].obj = req[q].obj
                        /\ req'[q].ttl = Less(req[q].ttl)
    BY <1>0, <1>6 DEF Tick, ReqType
  <2>4. RowOver(s) => RowOver(s)'
    BY <2>2 DEF RowOver, Less
  <2>5. idleLeft[s] = 0 => idleLeft'[s] = 0
    BY <2>2 DEF Less
  <2>6. CASE Gone(s)
    BY <2>2, <2>3, <2>6 DEF Gone, InPhase
  <2>7. CASE Entering(s)
    <3>1. PICK q \in Reqs : req[q].pc = "store" /\ req[q].sid = s /\ idleLeft[s] <= req[q].ttl
      BY <2>7 DEF Entering
    <3>2. req[q].ttl \in TTL /\ idleLeft[s] \in TTL
      BY <1>0 DEF ReqType
    <3>3. Less(idleLeft[s]) <= Less(req[q].ttl)
      BY <3>1, <3>2, LessMonotone
    <3> QED BY <2>2, <2>3, <3>1, <3>3 DEF Entering, InPhase
  <2>8. CASE Registered(s)
    <3>1. mem[s] \in Objs /\ mem[s] # NoObj /\ idleLeft[s] <= exp[mem[s]]
      BY <1>0, <2>8 DEF Registered
    <3>2. Less(idleLeft[s]) <= Less(exp[mem[s]])
      BY <1>0, <3>1, LessMonotone
    <3>3. mem'[s] # NoObj /\ idleLeft'[s] <= exp'[mem'[s]]
      BY <2>2, <3>1, <3>2
    <3>4. \A q \in Reqs : req'[q].sid = s => HoldsRegistered(q, s)'
      BY <2>2, <2>3, <2>4, <2>5, <2>8 DEF Registered, HoldsRegistered
    <3>5. Registered(s)'
      BY <3>3, <3>4 DEF Registered
    <3> QED BY <3>5 DEF InPhase
  <2>9. CASE Over(s)
    <3>1. \A q \in Reqs : req'[q].sid = s => HoldsOld(q)'
      BY <2>2, <2>3, <2>9 DEF Over, HoldsOld
    <3> QED BY <2>2, <2>4, <2>5, <2>9, <3>1 DEF Over, InPhase
  <2> QED BY <2>1, <2>6, <2>7, <2>8, <2>9 DEF Phases, InPhase
<1>7. CASE UNCHANGED vars
  BY <1>7 DEF vars, Phases, InPhase, Gone, Entering, Registered, HoldsRegistered, Over,
       HoldsOld, RowOver
<1> QED BY <1>1, <1>2, <1>3, <1>4, <1>5, <1>6, <1>7 DEF Next

\* In none of its phases is a session that is in use turned away.
LEMMA TurningAway ==
  ASSUME IInv, Storing, Phases, [Next]_vars, restarts = 0
  PROVE  RefusesOnlyInactive
<1> USE RegistryAssumption
<1>0. req \in [Reqs -> ReqType] /\ born \subseteq Sids
  BY DEF IInv, TypeOK, ReqType
<1>1. SUFFICES ASSUME NEW r \in Reqs, req[r].pc # "notfound", req'[r].pc = "notfound"
               PROVE  \/ idleLeft[req[r].sid] = 0
                      \/ \E d \in Reqs : req[d].kind = "delete" /\ req[d].sid = req[r].sid
                      \/ req[r].sid \in closed
  BY Zenon DEF RefusesOnlyInactive
<1>2. req[r].pc \in {"read", "dropRow"}
  <2>1. ASSUME NEW q \in Reqs, RequestStep(q) PROVE req[r].pc \in {"read", "dropRow"}
    <3>1. q = r
      BY <1>1, <2>1, StepOfOne DEF Alone
    <3> QED BY <1>0, <1>1, <2>1, <3>1 DEF RequestStep, Finish, CreateRow, CreateStore, Install,
              Lookup, CheckExpiry, Step, Touch, ReadRow, LoadStore, DropObject, DropRow, Idle,
              ReqType
  <2>2. ASSUME NEW q \in Reqs, NEW kind \in Kinds, NEW t \in Sids \cup {NoSid}, Arrive(q, kind, t)
        PROVE  FALSE
    BY <1>0, <1>1, <2>2 DEF Arrive
  <2>3. CASE CleanupMemory \/ CleanupRows \/ Restart \/ Tick \/ UNCHANGED vars
    BY <1>0, <1>1, <2>3 DEF CleanupMemory, CleanupRows, Restart, Tick, vars, Idle, ReqType
  <2> QED BY <2>1, <2>2, <2>3 DEF Next
<1>3. req[r].sid \in born
  BY <1>2 DEF IInv, RequestsNameSessions
<1>4. InPhase(req[r].sid)
  BY <1>3 DEF Phases
<1>5. ~Entering(req[r].sid)
  BY <1>2 DEF Entering, Storing
<1>6. ~Registered(req[r].sid)
  BY <1>2 DEF Registered, HoldsRegistered
<1>7. CASE Gone(req[r].sid)
  BY <1>7 DEF Gone
<1>8. CASE Over(req[r].sid)
  BY <1>8 DEF Over
<1> QED BY <1>4, <1>5, <1>6, <1>7, <1>8 DEF InPhase

-----------------------------------------------------------------------------
(* The theorems *)

\* Type correctness of the registry, for any ids, requests and timeout.
THEOREM RegistryTypes == Spec => []TypeOK
BY IInvHolds, PTL DEF IInv

\* Whatever requests, cleanup, restarts and the clock interleave to, the row
\* of a session expires no later than the object that serves it or the one a
\* request is about to install.
THEOREM RowsExpireFirst == Spec => []RowNeverOutlivesObject
BY IInvHolds, PTL DEF IInv

\* The gauge of active sessions never shows more than there are, and never stays
\* above zero by a session that is gone: only CreateSession raises it, for a session
\* that nobody else can have put into the map, and whoever removes it lowers it.
THEOREM GaugeBelow == Spec => []GaugeNeverOvercounts
<1>1. Init => Storing /\ GaugeNeverOvercounts
  <2>1. Init => Storing
    BY DEF Init, Idle, Storing
  <2>2. Init => GaugeNeverOvercounts
    <3> SUFFICES ASSUME Init PROVE GaugeNeverOvercounts
      OBVIOUS
    <3>1. {s \in Sids : mem[s] # NoObj} = {} /\ gauge = 0
      BY DEF Init
    <3> QED BY <3>1, FS_EmptySet DEF GaugeNeverOvercounts
  <2> QED BY <2>1, <2>2
<1>2. IInv /\ Storing /\ GaugeNeverOvercounts /\ [Next]_vars => Storing' /\ GaugeNeverOvercounts'
  BY StoringStep, GaugeStep
<1> QED BY IInvHolds, <1>1, <1>2, PTL DEF Spec

\* Until a restart, a request is turned away only when its session has not been used
\* for the whole timeout or a client deletes it, between whatever steps of GetSession
\* the deletions, the cleanup and the other requests come: the requests of a session
\* hold the object that is registered for it, and that object, like the session's
\* row, expires with the inactivity period or after it.
THEOREM TurnedAwayOnlyInactive == Spec => ActiveUntilRestart
<1>1. Init => Storing /\ Phases
  BY DEF Init, Idle, Storing, Phases
<1>2. IInv /\ IInv' /\ Storing /\ Phases /\ [Next]_vars => Storing' /\ Phases'
  BY StoringStep, PhasesStep
<1>3. Spec => [](IInv /\ Storing /\ Phases)
  BY IInvHolds, <1>1, <1>2, PTL DEF Spec
<1>4. IInv /\ Storing /\ Phases /\ [Next]_vars => [restarts = 0 => RefusesOnlyInactive]_vars
  BY TurningAway
<1> QED BY <1>3, <1>4, PTL DEF Spec, ActiveUntilRestart
=============================================================================
