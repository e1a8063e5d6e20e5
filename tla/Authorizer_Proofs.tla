--------------------------- MODULE Authorizer_Proofs ---------------------------
(***************************************************************************)
(* Theorems about the policy lists the authorizer decides on, for any      *)
(* policies, users, targets, requests and administration.                  *)
(***************************************************************************)
EXTENDS Authorizer, FiniteSetTheorems, WellFoundedInduction, TLAPS

Working == {"lookup", "subjects", "decide", "allowed"}

\* A request allowed to go ahead is one its list allows.
AllowedByList == \A r \in Reqs : ask[r].pc = "allowed" => Allows(ask[r].list, ask[r].q)

IInv == TypeOK /\ ListsOrdered /\ AllowedByList

LEMMA IdleIdle == Idle.pc = "idle" /\ \A x \in AskType : x.pc \in Working /\ x.pc # "idle"
BY DEF Idle, AskType, Working

\* Selected policies have a row that is enabled and of the target.
LEMMA SelectedRows ==
  ASSUME NEW t, NEW p \in Selected(t)
  PROVE  p \in Policies /\ rows[p] \in Rows /\ rows[p].enabled /\ rows[p].target \in {t, AnyTarget}
BY DEF Selected

LEMMA InitIInv == Init => IInv
<1> SUFFICES ASSUME Init PROVE IInv
  OBVIOUS
<1>1. TypeOK
  <2>1. subjects \in [Policies -> SUBSET Subjects] /\ pending \in [Policies -> SUBSET Subjects]
    BY DEF Init
  <2>2. \A p \in Policies : rows[p] \notin Rows => subjects[p] = {}
    BY DEF Init
  <2>3. rows \in [Policies -> Rows \cup {NoRow, Gone}] /\ changes \in 0 .. Changes
    BY AuthorizerAssumption DEF Init
  <2> QED BY <2>1, <2>2, <2>3 DEF Init, TypeOK
<1>2. ListsOrdered /\ AllowedByList
  BY DEF Init, ListsOrdered, AllowedByList, Idle
<1> QED BY <1>1, <1>2 DEF IInv

-----------------------------------------------------------------------------
(* Administration *)

\* The ghosts that a write touches do not matter to the lists.
LEMMA TouchKeeps ==
  ASSUME IInv, NEW p \in Policies, Touch(p), cache' = cache
  PROVE  /\ ListsOrdered' /\ AllowedByList' /\ DOMAIN ask' = Reqs
         /\ \A r \in Reqs : ask'[r] = Idle \/ ask'[r] \in AskType
<1>1. ASSUME NEW r \in Reqs
      PROVE  \/ ask[r] = Idle /\ ask'[r] = Idle
             \/ /\ ask[r] \in AskType /\ ask'[r] \in AskType
                /\ ask'[r].pc = ask[r].pc /\ ask'[r].q = ask[r].q /\ ask'[r].list = ask[r].list
  <2>1. ask'[r] = IF ask[r].pc = "idle" THEN Idle
                  ELSE [ask[r] EXCEPT !.current = FALSE, !.denies = @ \ {p}]
    BY DEF Touch
  <2>2. CASE ask[r] = Idle
    BY <2>1, <2>2 DEF Idle
  <2>3. CASE ask[r] \in AskType
    <3>1. ask'[r] = [ask[r] EXCEPT !.current = FALSE, !.denies = @ \ {p}]
      BY <2>1, <2>3, IdleIdle
    <3> QED BY <2>3, <3>1 DEF AskType
  <2> QED BY <2>2, <2>3 DEF IInv, TypeOK
<1>2. DOMAIN ask' = Reqs
  BY DEF Touch
<1>3. AllowedByList'
  <2> SUFFICES ASSUME NEW r \in Reqs, ask'[r].pc = "allowed"
               PROVE  Allows(ask'[r].list, ask'[r].q)
    BY DEF AllowedByList
  <2>1. ask[r].pc = "allowed" /\ ask'[r].list = ask[r].list /\ ask'[r].q = ask[r].q
    BY <1>1, IdleIdle DEF Idle
  <2> QED BY <2>1 DEF IInv, AllowedByList
<1>4. ListsOrdered'
  <2>1. ASSUME NEW r \in Reqs, ask'[r].pc # "idle"
        PROVE  GoodList(ask'[r].list, ask'[r].q.target)
    <3>1. ask[r].pc # "idle" /\ ask'[r].list = ask[r].list /\ ask'[r].q = ask[r].q
      BY <1>1, <2>1, IdleIdle DEF Idle
    <3> QED BY <3>1 DEF IInv, ListsOrdered
  <2> QED BY <2>1 DEF IInv, ListsOrdered, GoodList
<1> QED BY <1>1, <1>2, <1>3, <1>4

LEMMA AdminSteps ==
  ASSUME IInv, NEW p \in Policies,
         \/ \E row \in Rows : UpdatePolicy(p, row) \/ \E S \in SUBSET Subjects : CreatePolicy(p, row, S)
         \/ \E s \in Subjects : CreateSubject(p, s) \/ ChangeSubjects(p, s)
         \/ DeletePolicy(p)
  PROVE  IInv'
<1>1. Touch(p) /\ cache' = cache
  BY DEF UpdatePolicy, CreatePolicy, CreateSubject, ChangeSubjects, DeletePolicy
<1>2. /\ rows \in [Policies -> Rows \cup {NoRow, Gone}]
      /\ subjects \in [Policies -> SUBSET Subjects] /\ pending \in [Policies -> SUBSET Subjects]
      /\ \A x \in Policies : rows[x] \notin Rows => subjects[x] = {}
      /\ changes \in 0 .. Changes /\ NoRow \notin Rows /\ Gone \notin Rows /\ Changes \in Nat
  BY AuthorizerAssumption DEF IInv, TypeOK
<1>3. changes' \in 0 .. Changes
  BY <1>2 DEF UpdatePolicy, CreatePolicy, CreateSubject, ChangeSubjects, DeletePolicy, Count
<1> DEFINE Tables == /\ rows' \in [Policies -> Rows \cup {NoRow, Gone}]
                     /\ subjects' \in [Policies -> SUBSET Subjects]
                     /\ pending' \in [Policies -> SUBSET Subjects]
                     /\ \A x \in Policies : rows'[x] \notin Rows => subjects'[x] = {}
<1>4. ASSUME NEW row \in Rows, UpdatePolicy(p, row) PROVE Tables
  BY <1>2, <1>4 DEF UpdatePolicy
<1>5. ASSUME NEW row \in Rows, NEW S \in SUBSET Subjects, CreatePolicy(p, row, S) PROVE Tables
  BY <1>2, <1>5 DEF CreatePolicy
<1>6. ASSUME NEW s \in Subjects, CreateSubject(p, s) PROVE Tables
  BY <1>2, <1>6 DEF CreateSubject
<1>7. ASSUME NEW s \in Subjects, ChangeSubjects(p, s) PROVE Tables
  BY <1>2, <1>7 DEF ChangeSubjects
<1>8. ASSUME DeletePolicy(p) PROVE Tables
  BY <1>2, <1>8 DEF DeletePolicy
<1>9. Tables
  BY <1>4, <1>5, <1>6, <1>7, <1>8
<1>10. \A t \in Targets : cache[t] = NoEntry \/ cache[t] \in Seq(EntryType)
  BY DEF IInv, TypeOK
<1>11. TypeOK'
  BY <1>1, <1>3, <1>9, <1>10, TouchKeeps DEF IInv, TypeOK, Touch, EntryType, AskType
<1> QED BY <1>1, <1>11, TouchKeeps DEF IInv

-----------------------------------------------------------------------------
(* Requests *)

\* What a step of one request has to show: its own record is good.
LEMMA AskStep ==
  ASSUME IInv, NEW r \in Reqs, NEW v, ask' = [ask EXCEPT ![r] = v],
         UNCHANGED <<rows, subjects, pending, changes>>,
         v = Idle \/ v \in AskType,
         v.pc # "idle" => GoodList(v.list, v.q.target),
         v.pc = "allowed" => Allows(v.list, v.q),
         clean' \subseteq Targets, DOMAIN cache' = Targets,
         \A t \in Targets : /\ cache'[t] = NoEntry \/ cache'[t] \in Seq(EntryType)
                            /\ cache'[t] # NoEntry => GoodList(cache'[t], t)
  PROVE  IInv'
<1>1. DOMAIN ask = Reqs
  BY DEF IInv, TypeOK
<1>2. ask'[r] = v /\ DOMAIN ask' = Reqs /\ \A x \in Reqs : x # r => ask'[x] = ask[x]
  BY <1>1
<1>3. TypeOK'
  <2>1. \A x \in Reqs : ask'[x] = Idle \/ ask'[x] \in AskType
    BY <1>2 DEF IInv, TypeOK
  <2>2. /\ rows' = rows /\ subjects' = subjects /\ pending' = pending /\ changes' = changes
        /\ \A t \in Targets : cache'[t] = NoEntry \/ cache'[t] \in Seq(EntryType)
    OBVIOUS
  <2> QED BY <1>2, <2>1, <2>2 DEF IInv, TypeOK, AskType, EntryType
<1>4. ListsOrdered' /\ AllowedByList'
  <2>1. ASSUME NEW x \in Reqs
        PROVE  /\ ask'[x].pc # "idle" => GoodList(ask'[x].list, ask'[x].q.target)
               /\ ask'[x].pc = "allowed" => Allows(ask'[x].list, ask'[x].q)
    BY <1>2 DEF IInv, ListsOrdered, AllowedByList
  <2> QED BY <2>1 DEF ListsOrdered, AllowedByList, GoodList, Allows, Matches
<1> QED BY <1>3, <1>4 DEF IInv

LEMMA RequestSteps ==
  ASSUME IInv, NEW r \in Reqs, Request(r)
  PROVE  IInv'
<1> DEFINE a == ask[r]
<1>1. /\ a = Idle \/ a \in AskType
      /\ a.pc # "idle" => GoodList(a.list, a.q.target)
      /\ DOMAIN cache = Targets /\ clean \subseteq Targets
      /\ \A t \in Targets : /\ cache[t] = NoEntry \/ cache[t] \in Seq(EntryType)
                            /\ cache[t] # NoEntry => GoodList(cache[t], t)
  BY DEF IInv, TypeOK, ListsOrdered
<1>2. a.pc # "idle" => a \in AskType
  BY <1>1, IdleIdle
<1>3. Idle.pc = "idle"
  BY IdleIdle
<1>4. \A q \in Questions : q.target \in Targets
  BY DEF Questions
<1>5. ASSUME NEW q \in Questions, Arrive(r, q) PROVE IInv'
  <2> DEFINE D == {p \in Selected(q.target) :
                     rows[p].effect = "deny" /\ Matches(rows[p], subjects[p], q)}
             v == [pc |-> "lookup", q |-> q, list |-> <<>>, next |-> 1, current |-> FALSE,
                   denies |-> D]
  <2>1. D \subseteq Policies
    BY DEF Selected
  <2>2. v \in AskType /\ v.pc = "lookup" /\ v.list = <<>> /\ v.q = q
    BY <2>1 DEF AskType
  <2>3. GoodList(<<>>, q.target)
    BY DEF GoodList
  <2>4. /\ ask' = [ask EXCEPT ![r] = v]
        /\ UNCHANGED <<rows, subjects, pending, cache, clean, changes>>
    BY <1>5 DEF Arrive
  <2> HIDE DEF v
  <2> QED BY <1>1, <2>2, <2>3, <2>4, AskStep
<1>6. CASE Hit(r)
  <2> DEFINE t == a.q.target
             v == [a EXCEPT !.pc = "decide", !.list = cache[t]]
  <2>1. /\ a.pc = "lookup" /\ cache[t] # NoEntry /\ ask' = [ask EXCEPT ![r] = v]
        /\ UNCHANGED <<rows, subjects, pending, cache, clean, changes>>
    BY <1>6 DEF Hit
  <2>2. a \in AskType /\ t \in Targets
    BY <1>2, <1>4, <2>1 DEF AskType
  <2>3. cache[t] \in Seq(EntryType) /\ GoodList(cache[t], t)
    BY <1>1, <2>1, <2>2
  <2>4. v \in AskType /\ v.pc = "decide" /\ v.list = cache[t] /\ v.q.target = t
    BY <2>2, <2>3 DEF AskType
  <2> HIDE DEF v, t
  <2> QED BY <1>1, <2>1, <2>3, <2>4, AskStep
<1>7. CASE Query(r)
  <2> DEFINE t == a.q.target
             S == Selected(t)
             list(n, ids) == [i \in 1 .. n |-> Entry(ids[i])]
  <2>1. PICK n \in 0 .. Cardinality(S) : \E ids \in [1 .. n -> S] :
          /\ Ordering(S, ids)
          /\ ask' = [ask EXCEPT ![r] = [@ EXCEPT !.pc = "subjects", !.next = 1,
               !.list = [i \in 1 .. n |-> Entry(ids[i])],
               !.current = \A p \in S : \E i \in 1 .. n : ids[i] = p]]
    BY <1>7 DEF Query
  <2>2. PICK ids \in [1 .. n -> S] :
          /\ Ordering(S, ids)
          /\ ask' = [ask EXCEPT ![r] = [@ EXCEPT !.pc = "subjects", !.next = 1,
               !.list = [i \in 1 .. n |-> Entry(ids[i])],
               !.current = \A p \in S : \E i \in 1 .. n : ids[i] = p]]
    BY <2>1
  <2> DEFINE b == \A p \in S : \E i \in 1 .. n : ids[i] = p
             L == [i \in 1 .. n |-> Entry(ids[i])]
             v == [a EXCEPT !.pc = "subjects", !.next = 1, !.list = L, !.current = b]
  <2>3. /\ a.pc = "lookup" /\ UNCHANGED <<rows, subjects, pending, cache, clean, changes>>
        /\ ask' = [ask EXCEPT ![r] = v]
    BY <1>7, <2>2 DEF Query
  <2>4. a \in AskType /\ t \in Targets /\ n \in Nat
    <3>1. a \in AskType /\ t \in Targets
      BY <1>2, <1>4, <2>3 DEF AskType
    <3>2. n \in Nat
      BY <2>1
    <3> QED BY <3>1, <3>2
  <2>5. \A i \in 1 .. n : /\ ids[i] \in Policies /\ rows[ids[i]] \in Rows /\ rows[ids[i]].enabled
                          /\ rows[ids[i]].target \in {t, AnyTarget}
                          /\ L[i] = [id |-> ids[i], row |-> rows[ids[i]], subjects |-> {}]
    BY <2>2, SelectedRows DEF Entry
  <2>6. L \in Seq(EntryType)
    <3>1. \A i \in 1 .. n : L[i] \in EntryType
      BY <2>5 DEF EntryType
    <3>2. L \in [1 .. n -> EntryType]
      BY <3>1
    <3> QED BY <2>4, <3>2
  <2>7. GoodList(L, t)
    <3>1. DOMAIN L = 1 .. n /\ DOMAIN ids = 1 .. n
      BY <2>2
    <3>2. \A i, j \in 1 .. n : i < j => /\ L[i].id # L[j].id
                                        /\ L[i].row.priority >= L[j].row.priority
      BY <2>2, <2>5, <3>1 DEF Ordering
    <3>3. \A i \in 1 .. n : L[i].row.enabled /\ L[i].row.target \in {t, AnyTarget}
      BY <2>5
    <3> QED BY <3>1, <3>2, <3>3 DEF GoodList
  <2>8. b \in BOOLEAN
    OBVIOUS
  <2> HIDE DEF b, L
  <2>9. v \in AskType /\ v.pc = "subjects" /\ v.list = L /\ v.q.target = t
    BY <2>4, <2>6, <2>8 DEF AskType
  <2> HIDE DEF v, t
  <2> QED BY <1>1, <2>3, <2>7, <2>9, AskStep
<1>8. CASE QuerySubjects(r)
  <2> DEFINE n == a.next
  <2>1. PICK S \in SUBSET subjects[a.list[n].id] :
          ask' = [ask EXCEPT ![r] = [@ EXCEPT !.next = n + 1,
                    !.list = WithSubjects(a.list, n, S),
                    !.current = a.current /\ S = subjects[a.list[n].id]]]
    BY <1>8 DEF QuerySubjects
  <2> DEFINE e == [a.list[n] EXCEPT !.subjects = S]
             L == WithSubjects(a.list, n, S)
             b == a.current /\ S = subjects[a.list[n].id]
             v == [a EXCEPT !.next = n + 1, !.list = L, !.current = b]
  <2>2. /\ a.pc = "subjects" /\ n \in DOMAIN a.list
        /\ UNCHANGED <<rows, subjects, pending, cache, clean, changes>>
    BY <1>8 DEF QuerySubjects
  <2>3. a \in AskType /\ a.list \in Seq(EntryType) /\ n \in Nat /\ a.current \in BOOLEAN
    BY <1>2, <2>2 DEF AskType
  <2>4. a.list[n] \in EntryType
    BY <2>2, <2>3
  <2>5. S \subseteq Subjects
    BY <2>1, <2>4 DEF IInv, TypeOK, EntryType
  <2>6. L \in Seq(EntryType) /\ DOMAIN L = DOMAIN a.list
        /\ \A i \in DOMAIN L : L[i].id = a.list[i].id /\ L[i].row = a.list[i].row
    <3>1. e \in EntryType /\ e.id = a.list[n].id /\ e.row = a.list[n].row
      BY <2>4, <2>5 DEF EntryType
    <3> HIDE DEF e
    <3>2. L = [a.list EXCEPT ![n] = e]
      BY DEF WithSubjects, e
    <3> HIDE DEF L
    <3>3. L \in Seq(EntryType) /\ DOMAIN L = DOMAIN a.list
      BY <2>2, <2>3, <3>1, <3>2
    <3>4. \A i \in DOMAIN L : L[i] = IF i = n THEN e ELSE a.list[i]
      BY <2>3, <3>2, <3>3
    <3> QED BY <3>1, <3>3, <3>4
  <2>8. ask' = [ask EXCEPT ![r] = v]
    BY <2>1
  <2> HIDE DEF L
  <2>7. GoodList(L, a.q.target)
    BY <1>1, <2>2, <2>6 DEF GoodList
  <2>9. b \in BOOLEAN
    BY <2>3
  <2> HIDE DEF b, L
  <2>10. v \in AskType /\ v.pc = "subjects" /\ v.list = L /\ v.q = a.q
    <3>1. a.pc = "subjects" /\ L \in Seq(EntryType) /\ a.next + 1 \in Nat
      BY <2>2, <2>3, <2>6
    <3> QED BY <2>3, <2>9, <3>1 DEF AskType
  <2> HIDE DEF v
  <2> QED BY <1>1, <2>2, <2>7, <2>8, <2>10, AskStep
<1>9. CASE QueryFails(r) \/ Proceed(r)
  <2>1. /\ ask' = [ask EXCEPT ![r] = Idle]
        /\ UNCHANGED <<rows, subjects, pending, cache, clean, changes>>
    BY <1>9 DEF QueryFails, Proceed
  <2> QED BY <1>1, <1>3, <2>1, AskStep
<1>10. CASE Store(r)
  <2> DEFINE t == a.q.target
             v == [a EXCEPT !.pc = "decide"]
  <2>1. /\ a.pc = "subjects" /\ ask' = [ask EXCEPT ![r] = v]
        /\ cache' = [cache EXCEPT ![t] = a.list]
        /\ clean' = IF a.current THEN clean \cup {t} ELSE clean \ {t}
        /\ UNCHANGED <<rows, subjects, pending, changes>>
    BY <1>10 DEF Store
  <2>2. a \in AskType /\ t \in Targets /\ a.list \in Seq(EntryType)
    BY <1>2, <1>4, <2>1 DEF AskType
  <2>3. v \in AskType /\ v.pc = "decide" /\ v.list = a.list /\ v.q = a.q
    BY <2>2 DEF AskType
  <2>4. clean' \subseteq Targets /\ DOMAIN cache' = Targets
    BY <1>1, <2>1, <2>2
  <2>5. \A x \in Targets : cache'[x] = IF x = t THEN a.list ELSE cache[x]
    BY <1>1, <2>1
  <2>6. GoodList(a.list, t)
    BY <1>1, <2>1
  <2>7. \A x \in Targets : /\ cache'[x] = NoEntry \/ cache'[x] \in Seq(EntryType)
                           /\ cache'[x] # NoEntry => GoodList(cache'[x], x)
    <3> HIDE DEF t
    <3> QED BY <1>1, <2>2, <2>5, <2>6
  <2> HIDE DEF v
  <2> QED BY <2>1, <2>3, <2>4, <2>6, <2>7, AskStep
<1>11. CASE Decide(r)
  <2>1. a.pc = "decide" /\ UNCHANGED <<rows, subjects, pending, cache, clean, changes>>
    BY <1>11 DEF Decide
  <2>2. CASE Allows(a.list, a.q)
    <3> DEFINE v == [a EXCEPT !.pc = "allowed"]
    <3>1. ask' = [ask EXCEPT ![r] = v]
      BY <1>11, <2>2 DEF Decide
    <3>2. v \in AskType /\ v.pc = "allowed" /\ v.list = a.list /\ v.q = a.q
      BY <1>2, <2>1 DEF AskType
    <3> HIDE DEF v
    <3> QED BY <1>1, <2>1, <2>2, <3>1, <3>2, AskStep
  <2>3. CASE ~Allows(a.list, a.q)
    <3>1. ask' = [ask EXCEPT ![r] = Idle]
      BY <1>11, <2>3 DEF Decide
    <3> QED BY <1>1, <1>3, <2>1, <3>1, AskStep
  <2> QED BY <2>2, <2>3
<1> QED BY <1>5, <1>6, <1>7, <1>8, <1>9, <1>10, <1>11 DEF Request

\* A failed creation, a restart, and no step at all.
LEMMA OtherSteps ==
  ASSUME IInv, (\E p \in Policies : CreateFails(p)) \/ Restart \/ UNCHANGED vars
  PROVE  IInv'
<1>1. CASE (\E p \in Policies : CreateFails(p)) \/ UNCHANGED vars
  <2>1. UNCHANGED <<rows, subjects, cache, clean, ask, changes>>
    BY <1>1 DEF CreateFails, vars
  <2>2. pending' \in [Policies -> SUBSET Subjects]
    BY <1>1 DEF CreateFails, vars, IInv, TypeOK
  <2>3. TypeOK'
    BY <2>1, <2>2 DEF IInv, TypeOK, AskType, EntryType
  <2> QED BY <2>1, <2>3 DEF IInv, ListsOrdered, AllowedByList, GoodList, Allows, Matches
<1>2. CASE Restart
  <2>1. /\ UNCHANGED <<rows, subjects, changes>>
        /\ \A t \in Targets : cache'[t] = NoEntry
        /\ \A r \in Reqs : ask'[r] = Idle
        /\ DOMAIN cache' = Targets /\ DOMAIN ask' = Reqs /\ clean' = {}
        /\ pending' \in [Policies -> SUBSET Subjects]
    BY <1>2 DEF Restart
  <2>2. TypeOK'
    BY <2>1 DEF IInv, TypeOK, AskType, EntryType
  <2> QED BY <2>1, <2>2, IdleIdle DEF IInv, ListsOrdered, AllowedByList
<1> QED BY <1>1, <1>2

-----------------------------------------------------------------------------
(* Clean entries *)

\* The list has all the policies of t as the tables say now, and the subjects
\* of the first of them.
Current(list, t, next) ==
  /\ \A i \in DOMAIN list :
       /\ list[i].id \in Selected(t) /\ list[i].row = rows[list[i].id]
       /\ i < next => list[i].subjects = subjects[list[i].id]
  /\ \A p \in Selected(t) : \E i \in DOMAIN list : list[i].id = p

Whole(list, t) ==
  /\ \A i \in DOMAIN list :
       /\ list[i].id \in Selected(t) /\ list[i].row = rows[list[i].id]
       /\ list[i].subjects = subjects[list[i].id]
  /\ \A p \in Selected(t) : \E i \in DOMAIN list : list[i].id = p

Kept(list, t) == list \in Seq(EntryType) /\ GoodList(list, t) /\ Whole(list, t)

CleanInv ==
  /\ \A t \in clean : Kept(cache[t], t)
  /\ \A r \in Reqs : ask[r].pc = "subjects" =>
       /\ ask[r].next \in 1 .. Len(ask[r].list) + 1
       /\ ask[r].current => Current(ask[r].list, ask[r].q.target, ask[r].next)

LEMMA SelectedKept ==
  ASSUME rows' = rows, NEW t
  PROVE  Selected(t)' = Selected(t)
BY DEF Selected

\* Only the record of r changes, and the tables do not.
LEMMA CleanKept ==
  ASSUME IInv, CleanInv, NEW r \in Reqs, NEW v, ask' = [ask EXCEPT ![r] = v],
         UNCHANGED <<rows, subjects>>,
         v.pc = "subjects" =>
           /\ v.next \in 1 .. Len(v.list) + 1
           /\ v.current => Current(v.list, v.q.target, v.next),
         \A t \in clean' : Kept(cache'[t], t)
  PROVE  CleanInv'
<1>1. ask'[r] = v /\ \A x \in Reqs : x # r => ask'[x] = ask[x]
  BY DEF IInv, TypeOK
<1>2. \A t : Selected(t)' = Selected(t)
  BY SelectedKept
<1>3. ASSUME NEW x \in Reqs, ask'[x].pc = "subjects"
      PROVE  /\ ask'[x].next \in 1 .. Len(ask'[x].list) + 1
             /\ ask'[x].current => Current(ask'[x].list, ask'[x].q.target, ask'[x].next)
  BY <1>1, <1>3 DEF CleanInv
<1>4. ASSUME NEW x \in Reqs, ask'[x].pc = "subjects", ask'[x].current
      PROVE  Current(ask[x].list, ask[x].q.target, ask[x].next)'
  BY <1>2, <1>3, <1>4 DEF Current
<1>5. ASSUME NEW t \in clean' PROVE Kept(cache[t], t)'
  <2>1. Kept(cache'[t], t)
    BY <1>5
  <2> QED BY <1>2, <2>1 DEF Kept, Whole, GoodList
<1> QED BY <1>3, <1>4, <1>5 DEF CleanInv

LEMMA CleanRequests ==
  ASSUME IInv, CleanInv, NEW r \in Reqs, Request(r)
  PROVE  CleanInv'
<1> DEFINE a == ask[r]
<1>1. (a = Idle \/ a \in AskType) /\ (a.pc # "idle" => a \in AskType) /\ DOMAIN cache = Targets
  BY IdleIdle DEF IInv, TypeOK
<1>2. \A q \in Questions : q.target \in Targets
  BY DEF Questions
<1>3. \A t \in clean : Kept(cache[t], t)
  BY DEF CleanInv
<1>4. ASSUME NEW v, ask' = [ask EXCEPT ![r] = v], v.pc # "subjects",
             UNCHANGED <<rows, subjects, cache, clean>>
      PROVE  CleanInv'
  BY <1>3, <1>4, CleanKept
<1>5. ASSUME NEW q \in Questions, Arrive(r, q) PROVE CleanInv'
  <2> DEFINE v == [pc |-> "lookup", q |-> q, list |-> <<>>, next |-> 1, current |-> FALSE,
                   denies |-> {p \in Selected(q.target) :
                                 rows[p].effect = "deny" /\ Matches(rows[p], subjects[p], q)}]
  <2>1. ask' = [ask EXCEPT ![r] = v] /\ UNCHANGED <<rows, subjects, cache, clean>>
    BY <1>5 DEF Arrive
  <2>2. v.pc # "subjects"
    OBVIOUS
  <2> HIDE DEF v
  <2> QED BY <1>4, <2>1, <2>2
<1>6. CASE Hit(r)
  <2> DEFINE v == [a EXCEPT !.pc = "decide", !.list = cache[a.q.target]]
  <2>1. a \in AskType /\ ask' = [ask EXCEPT ![r] = v] /\ UNCHANGED <<rows, subjects, cache, clean>>
    BY <1>1, <1>6 DEF Hit
  <2>2. v.pc = "decide"
    BY <2>1 DEF AskType
  <2> HIDE DEF v
  <2> QED BY <1>4, <2>1, <2>2
<1>7. CASE QueryFails(r) \/ Proceed(r)
  BY <1>4, <1>7, IdleIdle DEF QueryFails, Proceed
<1>8. CASE Decide(r)
  <2>1. a \in AskType /\ UNCHANGED <<rows, subjects, cache, clean>>
    BY <1>1, <1>8 DEF Decide
  <2>2. PICK v : ask' = [ask EXCEPT ![r] = v] /\ v.pc # "subjects"
    <3>1. Idle.pc # "subjects" /\ [a EXCEPT !.pc = "allowed"].pc # "subjects"
      BY <2>1, IdleIdle DEF AskType
    <3> QED BY <1>8, <3>1 DEF Decide
  <2> QED BY <1>4, <2>1, <2>2
<1>9. CASE Query(r)
  <2> DEFINE t == a.q.target
             S == Selected(t)
  <2>1. PICK n \in 0 .. Cardinality(S) : \E ids \in [1 .. n -> S] :
          ask' = [ask EXCEPT ![r] = [@ EXCEPT !.pc = "subjects", !.next = 1,
               !.list = [i \in 1 .. n |-> Entry(ids[i])],
               !.current = \A p \in S : \E i \in 1 .. n : ids[i] = p]]
    BY <1>9 DEF Query
  <2>2. PICK ids \in [1 .. n -> S] :
          ask' = [ask EXCEPT ![r] = [@ EXCEPT !.pc = "subjects", !.next = 1,
               !.list = [i \in 1 .. n |-> Entry(ids[i])],
               !.current = \A p \in S : \E i \in 1 .. n : ids[i] = p]]
    BY <2>1
  <2> DEFINE b == \A p \in S : \E i \in 1 .. n : ids[i] = p
             L == [i \in 1 .. n |-> Entry(ids[i])]
             v == [a EXCEPT !.pc = "subjects", !.next = 1, !.list = L, !.current = b]
  <2>3. /\ a \in AskType /\ UNCHANGED <<rows, subjects, cache, clean>>
        /\ ask' = [ask EXCEPT ![r] = v] /\ n \in Nat
    <3>1. S \subseteq Policies
      BY DEF Selected
    <3>2. Cardinality(S) \in Nat
      BY <3>1, AuthorizerAssumption, FS_Subset, FS_CardinalityType
    <3>3. n \in Nat
      <4> HIDE DEF S
      <4> QED BY <3>2
    <3>4. a \in AskType /\ UNCHANGED <<rows, subjects, cache, clean>>
      BY <1>1, <1>9 DEF Query
    <3>5. ask' = [ask EXCEPT ![r] = v]
      BY <2>2
    <3> QED BY <3>3, <3>4, <3>5
  <2>4. Len(L) = n /\ DOMAIN L = 1 .. n
    BY <2>3
  <2>5. \A i \in 1 .. n : L[i].id = ids[i] /\ L[i].row = rows[ids[i]] /\ ids[i] \in S
    BY <2>2 DEF Entry
  <2>6. b => Current(L, t, 1)
    <3> SUFFICES ASSUME b PROVE Current(L, t, 1)
      OBVIOUS
    <3>1. \A i \in DOMAIN L : L[i].id \in Selected(t) /\ L[i].row = rows[L[i].id] /\ ~(i < 1)
      BY <2>4, <2>5
    <3>2. \A p \in Selected(t) : \E i \in DOMAIN L : L[i].id = p
      BY <2>4, <2>5
    <3> QED BY <3>1, <3>2 DEF Current
  <2> HIDE DEF b, L
  <2>7. v.pc = "subjects" /\ v.next = 1 /\ v.list = L /\ v.current = b /\ v.q.target = t
    BY <2>3 DEF AskType
  <2>8. 1 \in 1 .. Len(L) + 1
    BY <2>3, <2>4
  <2> HIDE DEF v, t
  <2> QED BY <1>3, <2>3, <2>6, <2>7, <2>8, CleanKept
<1>10. CASE QuerySubjects(r)
  <2> DEFINE n == a.next
  <2>1. PICK S \in SUBSET subjects[a.list[n].id] :
          ask' = [ask EXCEPT ![r] = [@ EXCEPT !.next = n + 1,
                    !.list = WithSubjects(a.list, n, S),
                    !.current = a.current /\ S = subjects[a.list[n].id]]]
    BY <1>10 DEF QuerySubjects
  <2> DEFINE e == [a.list[n] EXCEPT !.subjects = S]
             L == WithSubjects(a.list, n, S)
             b == a.current /\ S = subjects[a.list[n].id]
             v == [a EXCEPT !.next = n + 1, !.list = L, !.current = b]
  <2>2. /\ a.pc = "subjects" /\ n \in DOMAIN a.list /\ UNCHANGED <<rows, subjects, cache, clean>>
    BY <1>10 DEF QuerySubjects
  <2>3. a \in AskType /\ a.list \in Seq(EntryType) /\ n \in Nat /\ a.current \in BOOLEAN
    BY <1>1, <2>2 DEF AskType
  <2>4. a.list[n] \in EntryType
    BY <2>2, <2>3
  <2>5. e.id = a.list[n].id /\ e.row = a.list[n].row /\ e.subjects = S
    BY <2>4 DEF EntryType
  <2> HIDE DEF e
  <2>6. L = [a.list EXCEPT ![n] = e]
    BY DEF WithSubjects, e
  <2>7. v.pc = "subjects" /\ v.next = n + 1 /\ v.list = L /\ v.current = b /\ v.q.target = a.q.target
    <3> HIDE DEF b, L
    <3> QED BY <2>2, <2>3 DEF AskType
  <2>8. ask' = [ask EXCEPT ![r] = v]
    BY <2>1
  <2> HIDE DEF v, L
  <2>9. DOMAIN L = DOMAIN a.list /\ Len(L) = Len(a.list)
        /\ \A i \in DOMAIN L : L[i] = IF i = n THEN e ELSE a.list[i]
    BY <2>2, <2>3, <2>6
  <2>10. n + 1 \in 1 .. Len(L) + 1
    BY <2>2, <2>3, <2>9
  <2>11. b => Current(L, a.q.target, n + 1)
    <3> SUFFICES ASSUME b PROVE Current(L, a.q.target, n + 1)
      OBVIOUS
    <3>1. Current(a.list, a.q.target, n)
      BY <2>2 DEF CleanInv
    <3>2. ASSUME NEW i \in DOMAIN L
          PROVE  /\ L[i].id = a.list[i].id /\ L[i].id \in Selected(a.q.target) /\ L[i].row = rows[L[i].id]
                 /\ i < n + 1 => L[i].subjects = subjects[L[i].id]
      <4>1. i \in Nat /\ i \in DOMAIN a.list
        BY <2>3, <2>9
      <4>2. CASE i = n
        BY <2>2, <2>5, <2>9, <3>1, <4>1, <4>2 DEF Current
      <4>3. CASE i # n
        <5>1. i < n + 1 => i < n
          BY <2>3, <4>1, <4>3
        <5> QED BY <2>9, <3>1, <4>1, <4>3, <5>1 DEF Current
      <4> QED BY <4>2, <4>3
    <3>3. ASSUME NEW p \in Selected(a.q.target) PROVE \E i \in DOMAIN L : L[i].id = p
      <4>1. PICK i \in DOMAIN a.list : a.list[i].id = p
        BY <3>1 DEF Current
      <4>2. i \in DOMAIN L
        BY <2>9
      <4> QED BY <3>2, <4>1, <4>2
    <3> QED BY <3>2, <3>3 DEF Current
  <2> HIDE DEF b
  <2> QED BY <1>3, <2>2, <2>7, <2>8, <2>10, <2>11, CleanKept
<1>11. CASE Store(r)
  <2> DEFINE t == a.q.target
             v == [a EXCEPT !.pc = "decide"]
  <2>1. /\ a.pc = "subjects" /\ a.next \notin DOMAIN a.list /\ ask' = [ask EXCEPT ![r] = v]
        /\ cache' = [cache EXCEPT ![t] = a.list]
        /\ clean' = IF a.current THEN clean \cup {t} ELSE clean \ {t}
        /\ UNCHANGED <<rows, subjects>>
    BY <1>11 DEF Store
  <2>2. a \in AskType /\ t \in Targets /\ a.list \in Seq(EntryType)
    BY <1>1, <1>2, <2>1 DEF AskType
  <2>3. v.pc = "decide"
    BY <2>2 DEF AskType
  <2>4. a.current => Kept(a.list, t)
    <3> SUFFICES ASSUME a.current PROVE Kept(a.list, t)
      OBVIOUS
    <3>1. Current(a.list, t, a.next) /\ a.next \in 1 .. Len(a.list) + 1
      BY <2>1 DEF CleanInv
    <3>2. \A i \in DOMAIN a.list : i < a.next
      BY <2>1, <2>2, <3>1
    <3>3. GoodList(a.list, t)
      BY <2>1 DEF IInv, ListsOrdered
    <3> QED BY <2>2, <3>1, <3>2, <3>3 DEF Current, Whole, Kept
  <2> HIDE DEF v, t
  <2>5. \A x \in clean' : Kept(cache'[x], x)
    <3> SUFFICES ASSUME NEW x \in clean' PROVE Kept(cache'[x], x)
      OBVIOUS
    <3>1. CASE x = t
      <4>1. a.current /\ cache'[x] = a.list
        BY <1>1, <2>1, <2>2, <3>1
      <4> QED BY <2>4, <3>1, <4>1
    <3>2. CASE x # t
      <4>1. x \in clean /\ cache'[x] = cache[x]
        BY <2>1, <3>2
      <4> QED BY <1>3, <4>1
    <3> QED BY <3>1, <3>2
  <2> QED BY <2>1, <2>3, <2>5, CleanKept
<1> QED BY <1>5, <1>6, <1>7, <1>8, <1>9, <1>10, <1>11 DEF Request

LEMMA CleanStep ==
  ASSUME IInv, CleanInv, [Next]_vars
  PROVE  CleanInv'
<1>1. ASSUME NEW p \in Policies, Touch(p) PROVE CleanInv'
  <2>1. \A r \in Reqs : ask'[r].pc = "subjects" =>
          /\ ask[r].pc = "subjects" /\ ~ask'[r].current
          /\ ask'[r].next = ask[r].next /\ ask'[r].list = ask[r].list
    <3> SUFFICES ASSUME NEW r \in Reqs, ask'[r].pc = "subjects"
                 PROVE  /\ ask[r].pc = "subjects" /\ ~ask'[r].current
                        /\ ask'[r].next = ask[r].next /\ ask'[r].list = ask[r].list
      OBVIOUS
    <3>1. ask[r] = Idle \/ ask[r] \in AskType
      BY DEF IInv, TypeOK
    <3>2. ask'[r] = IF ask[r].pc = "idle" THEN Idle
                    ELSE [ask[r] EXCEPT !.current = FALSE, !.denies = @ \ {p}]
      BY <1>1 DEF Touch
    <3>3. ask[r].pc # "idle" /\ ask[r] \in AskType
      BY <3>1, <3>2, IdleIdle
    <3> QED BY <3>2, <3>3 DEF AskType
  <2>2. clean' = {}
    BY <1>1 DEF Touch
  <2> QED BY <2>1, <2>2 DEF CleanInv
<1>2. ASSUME UNCHANGED <<rows, subjects, cache, clean, ask>> PROVE CleanInv'
  BY <1>2, SelectedKept DEF CleanInv, Kept, Whole, Current
<1>3. CASE Restart
  BY <1>3, IdleIdle DEF Restart, CleanInv
<1>4. CASE Admin
  BY <1>1, <1>2, <1>4 DEF Admin, UpdatePolicy, CreatePolicy, CreateSubject, ChangeSubjects, CreateFails,
     DeletePolicy
<1>5. CASE UNCHANGED vars
  BY <1>2, <1>5 DEF vars
<1> QED BY <1>3, <1>4, <1>5, CleanRequests DEF Next

\* A set of positions has a first one.
LEMMA FirstOf ==
  ASSUME NEW N \in Nat, NEW S \in SUBSET (1 .. N), S # {}
  PROVE  \E n \in S : \A m \in S : n <= m
<1> DEFINE Below(n) == {k \in S : k <= n}
           T == {Below(n) : n \in S}
<1>1. IsFiniteSet(S)
  <2>1. IsFiniteSet(1 .. N)
    BY FS_Interval
  <2> QED BY <2>1, FS_Subset
<1>2. T \subseteq FiniteSubsetsOf(S) /\ T # {}
  <2>1. \A n \in S : Below(n) \in SUBSET S /\ IsFiniteSet(Below(n))
    BY <1>1, FS_Subset
  <2> QED BY <2>1 DEF FiniteSubsetsOf
<1>3. PICK x \in T : \A y \in T : <<y, x>> \notin StrictSubsetOrdering(S)
  <2> HIDE DEF T
  <2> QED BY <1>2, FS_StrictSubsetOrderingWellFounded, WFMin
<1>4. PICK n \in S : x = Below(n)
  BY <1>3
<1>5. ASSUME NEW m \in S, m < n PROVE FALSE
  <2>1. \A k \in S : k \in Int
    OBVIOUS
  <2>2. \A k \in S : k <= m => k <= n
    BY <1>5, <2>1
  <2>3. n <= n /\ ~(n <= m)
    BY <1>5, <2>1
  <2>4. Below(m) \in T /\ Below(m) \subseteq Below(n) /\ n \in Below(n) /\ n \notin Below(m)
    BY <2>2, <2>3
  <2>5. <<Below(m), Below(n)>> \in StrictSubsetOrdering(S)
    BY <2>4 DEF StrictSubsetOrdering
  <2> QED BY <1>3, <1>4, <2>4, <2>5
<1> QED BY <1>5

\* A whole list in order answers as the tables do: the first match is the
\* strongest, and where no denial is as strong as an allowance it decides.
LEMMA WholeExact ==
  ASSUME IInv, NEW t \in Targets, NEW q \in Questions, q.target = t, Untied(q),
         NEW list \in Seq(EntryType), GoodList(list, t), Whole(list, t)
  PROVE  Allows(list, q) <=> Permitted(q)
<1> DEFINE Met(i) == Matches(list[i].row, list[i].subjects, q)
<1>1. \A i \in DOMAIN list :
        /\ i \in Nat /\ list[i].id \in Selected(t) /\ list[i].row = rows[list[i].id]
        /\ list[i].subjects = subjects[list[i].id]
        /\ list[i].row.priority \in Int /\ list[i].row.effect \in {"allow", "deny"}
  <2>1. \A i \in DOMAIN list : i \in Nat /\ list[i] \in EntryType
    OBVIOUS
  <2>2. \A i \in DOMAIN list : list[i].row \in RowType
    BY <2>1, AuthorizerAssumption DEF EntryType
  <2> QED BY <2>1, <2>2 DEF Whole, RowType
<1>2. \A p \in Selected(t) : \E i \in DOMAIN list :
        list[i].id = p /\ list[i].row = rows[p] /\ list[i].subjects = subjects[p]
  BY DEF Whole
<1>3. \A i, j \in DOMAIN list : i < j => list[i].row.priority >= list[j].row.priority
  BY DEF GoodList
<1>4. ASSUME Allows(list, q) PROVE Permitted(q)
  <2>1. PICK n \in DOMAIN list : /\ Met(n) /\ list[n].row.effect = "allow"
                                 /\ \A k \in 1 .. n - 1 : ~Met(k)
    BY <1>4 DEF Allows
  <2> DEFINE p == list[n].id
  <2>2. p \in Selected(t) /\ Matches(rows[p], subjects[p], q) /\ rows[p].effect = "allow"
    BY <1>1, <2>1
  <2>3. ASSUME NEW d \in Selected(t), Matches(rows[d], subjects[d], q), rows[d].effect = "deny"
        PROVE  rows[d].priority < rows[p].priority
    <3>1. PICK k \in DOMAIN list : list[k].id = d /\ list[k].row = rows[d] /\ list[k].subjects = subjects[d]
      BY <1>2
    <3>2. Met(k) /\ k # n
      BY <2>1, <2>3, <3>1
    <3>3. k \in Nat /\ n \in Nat /\ k >= 1
      BY <1>1
    <3>4. n < k
      <4> HIDE DEF Met
      <4> QED BY <2>1, <3>2, <3>3
    <3>5. list[n].row.priority >= list[k].row.priority
      BY <1>3, <3>4
    <3>6. rows[p].priority >= rows[d].priority /\ rows[p].priority \in Int /\ rows[d].priority \in Int
      BY <1>1, <3>1, <3>5
    <3>7. rows[p].priority # rows[d].priority
      BY <2>2, <2>3 DEF Untied
    <3> QED BY <3>6, <3>7
  <2> QED BY <2>2, <2>3 DEF Permitted
<1>5. ASSUME Permitted(q) PROVE Allows(list, q)
  <2>1. PICK p \in Selected(t) :
          /\ Matches(rows[p], subjects[p], q) /\ rows[p].effect = "allow"
          /\ \A d \in Selected(t) :
               Matches(rows[d], subjects[d], q) /\ rows[d].effect = "deny" =>
                 rows[d].priority < rows[p].priority
    BY <1>5 DEF Permitted
  <2>2. PICK m \in DOMAIN list : list[m].row = rows[p] /\ list[m].subjects = subjects[p]
    BY <1>2
  <2> DEFINE S == {i \in DOMAIN list : Met(i)}
  <2>3. m \in S /\ S \in SUBSET (1 .. Len(list)) /\ Len(list) \in Nat
    BY <2>1, <2>2
  <2>4. PICK n \in S : \A i \in S : n <= i
    <3> HIDE DEF S
    <3> QED BY <2>3, FirstOf
  <2>5. n \in DOMAIN list /\ Met(n) /\ n <= m /\ n \in Nat /\ m \in Nat
    BY <1>1, <2>3, <2>4
  <2>6. \A k \in 1 .. n - 1 : ~Met(k)
    <3> SUFFICES ASSUME NEW k \in 1 .. n - 1, Met(k) PROVE FALSE
      OBVIOUS
    <3>1. k \in 1 .. Len(list) /\ k < n
      BY <2>3, <2>4
    <3>2. k \in S
      BY <3>1
    <3> QED BY <2>4, <2>5, <3>1, <3>2
  <2>7. list[n].row.effect = "allow"
    <3> SUFFICES ASSUME list[n].row.effect # "allow" PROVE FALSE
      OBVIOUS
    <3> DEFINE d == list[n].id
    <3>1. /\ d \in Selected(t) /\ Matches(rows[d], subjects[d], q) /\ rows[d].effect = "deny"
          /\ list[n].row = rows[d]
      BY <1>1, <2>5
    <3>2. list[n].row.priority < list[m].row.priority
      BY <2>1, <2>2, <3>1
    <3>3. n < m
      BY <2>1, <2>2, <2>5
    <3>4. list[n].row.priority >= list[m].row.priority
      BY <1>3, <2>5, <3>3
    <3> QED BY <1>1, <2>5, <3>2, <3>4
  <2> QED BY <2>5, <2>6, <2>7 DEF Allows
<1> QED BY <1>4, <1>5

-----------------------------------------------------------------------------
(* Theorems *)

\* The strengthened invariant holds in every reachable state.
THEOREM Inductive == Spec => []IInv
<1>1. Init => IInv
  BY InitIInv
<1>2. IInv /\ [Next]_vars => IInv'
  BY AdminSteps, RequestSteps, OtherSteps DEF Next, Admin
<1> QED BY <1>1, <1>2, PTL DEF Spec

\* The variables keep their types and no subject outlives its policy.
THEOREM AuthorizerTypes == Spec => []TypeOK
<1>1. IInv => TypeOK
  BY DEF IInv
<1> QED BY <1>1, Inductive, PTL

\* Lists are in order whatever is written, cut off or overtaken meanwhile
\* (GetPoliciesForTarget, loadPolicies).
THEOREM ListsAlwaysOrdered == Spec => []ListsOrdered
<1>1. IInv => ListsOrdered
  BY DEF IInv
<1> QED BY <1>1, Inductive, PTL

\* Whoever goes ahead is allowed by a policy that no matching denial of the
\* same list outranks (CanAccess).
THEOREM AllowedOutranks == Spec => []DenialsOutranked
<1>1. IInv => DenialsOutranked
  <2> SUFFICES ASSUME IInv, NEW r \in Reqs, ask[r].pc = "allowed"
               PROVE  LET list == ask[r].list
                          M == {i \in DOMAIN list : Matches(list[i].row, list[i].subjects, ask[r].q)}
                      IN \E i \in M : /\ list[i].row.effect = "allow"
                                      /\ \A d \in M : list[d].row.effect = "deny" =>
                                           list[d].row.priority <= list[i].row.priority
    BY DEF DenialsOutranked
  <2> DEFINE list == ask[r].list
             M == {i \in DOMAIN list : Matches(list[i].row, list[i].subjects, ask[r].q)}
  <2>0. ask[r] = Idle \/ ask[r] \in AskType
    BY DEF IInv, TypeOK
  <2>1. ask[r] \in AskType
    BY <2>0, IdleIdle
  <2>2. list \in Seq(EntryType) /\ \A i \in DOMAIN list : i \in Nat /\ list[i].row \in Rows
    <3>1. list \in Seq(EntryType)
      BY <2>1 DEF AskType
    <3> HIDE DEF list
    <3>2. \A i \in DOMAIN list : i \in Nat /\ list[i] \in EntryType
      BY <3>1
    <3> QED BY <3>1, <3>2 DEF EntryType
  <2>3. PICK i \in DOMAIN list :
          /\ Matches(list[i].row, list[i].subjects, ask[r].q) /\ list[i].row.effect = "allow"
          /\ \A k \in 1 .. i - 1 : ~Matches(list[k].row, list[k].subjects, ask[r].q)
    BY DEF IInv, AllowedByList, Allows
  <2>4. ASSUME NEW d \in M, list[d].row.effect = "deny"
        PROVE  list[d].row.priority <= list[i].row.priority
    <3>1. d \in DOMAIN list /\ d \in Nat /\ d >= 1 /\ i \in Nat
      BY <2>2
    <3>2. i < d
      BY <2>3, <2>4, <3>1
    <3>3. list[i].row.priority >= list[d].row.priority
      BY <3>1, <3>2 DEF IInv, ListsOrdered, GoodList
    <3>4. list[i].row.priority \in Int /\ list[d].row.priority \in Int
      BY <2>2, <3>1, AuthorizerAssumption DEF RowType
    <3> QED BY <3>3, <3>4
  <2> QED BY <2>3, <2>4
<1> QED BY <1>1, Inductive, PTL

\* A list that was loaded whole, with no change of the tables since, answers every
\* question as the tables do, priorities tied between effects apart, whatever other
\* loads and writes ran beside it (loadPolicies, CanAccess).
THEOREM CleanEntriesExact == Spec => []CleanCacheExact
<1>1. Init => CleanInv
  BY IdleIdle DEF Init, CleanInv
<1>2. IInv /\ CleanInv /\ [Next]_vars => CleanInv'
  BY CleanStep
<1>3. IInv /\ CleanInv => CleanCacheExact
  <2> SUFFICES ASSUME IInv, CleanInv, NEW t \in clean, NEW q \in Questions, q.target = t, Untied(q)
               PROVE  Allows(cache[t], q) <=> Permitted(q)
    BY DEF CleanCacheExact
  <2>1. t \in Targets /\ Kept(cache[t], t)
    BY DEF IInv, TypeOK, CleanInv
  <2> QED BY <2>1, WholeExact DEF Kept
<1> QED BY <1>1, <1>2, <1>3, Inductive, PTL DEF Spec
=============================================================================
