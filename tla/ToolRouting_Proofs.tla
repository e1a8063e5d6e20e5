--------------------------- MODULE ToolRouting_Proofs ---------------------------
(***************************************************************************)
(* Theorems for any targets, offers, policies, requests and bounds:        *)
(* - nothing is sent to a target which the policies do not allow there,    *)
(*   provided that what policies without a target allow is allowed at      *)
(*   every target;                                                         *)
(* - the mapping leads to what was shown;                                  *)
(* - where names are apart (NamesApart), a call reaches what the client    *)
(*   was shown, and a prefixed name of a tool is always routed.            *)
(***************************************************************************)
EXTENDS ToolRouting, FiniteSetTheorems, SequenceTheorems, TLAPS

Name == Seq(STRING)

\* Routes to a target, with its id or the zero id.
GoodRoutes == {r \in [target : Name, id : Name, name : Name] : r.id \in {r.target, NoId}}

Found     == Items \X GoodRoutes
Answers   == Shown \X Items
AnyShown  == Shown \cup {<<>>}
AnyItem   == Items \cup {<<>>}
ListPC == {"idle", "clear", "list", "done"}
CallPC == {"idle", "lookup", "parse", "identify", "check", "client", "sent", "unconnected",
           "notfound"}
ListState == [pc : ListPC, multi : BOOLEAN, fetch : SUBSET Targets,
              items : SUBSET Found, out : SUBSET Answers, old : BOOLEAN]
CallState == [pc : CallPC, shown : AnyShown, item : AnyItem,
              route : GoodRoutes]

\* A call past the check has passed it; one that was sent had a client.
Checked(call) ==
  /\ call.pc \in {"client", "sent"} => CanAccess(call.route.id, call.route.name)
  /\ call.pc = "sent" => call.route.target \in Targets
  /\ call.pc \in {"lookup", "parse"} => call.shown \in Shown

Inv ==
  /\ clients \in SUBSET Targets
  /\ mapping \in [Shown -> GoodRoutes]
  /\ known \in SUBSET Answers
  /\ lists \in [Lists -> ListState]
  /\ calls \in [Calls -> CallState]
  /\ \A c \in Calls : Checked(calls[c])

\* The policies without a target allow nothing that some target's deny.
AnywhereSafe == \A t \in Targets, n \in Anywhere : <<t, n>> \in Allowed

-----------------------------------------------------------------------------
\* Names and routes are what they should be.
LEMMA Names ==
  /\ Targets \subseteq Name /\ NoId \notin Targets
  /\ \A i \in Items : i \in Targets \X Name
  /\ \A s \in Shown : s \in Name /\ s # <<>>
  /\ \A i \in Items, multi \in BOOLEAN : Display(i, multi) \in Shown
<1>1. Targets \subseteq Name /\ NoId \notin Targets
  BY RoutingAssumption DEF Name, NoId
<1>2. \A i \in Items : i \in Targets \X Name /\ i[2] # <<>> /\ i[1] # <<>>
  BY RoutingAssumption DEF Name, Items
<1>3. ASSUME NEW i \in Items, NEW multi \in BOOLEAN
      PROVE  Display(i, multi) \in Name /\ Display(i, multi) # <<>>
  <2>1. i[1] \in Seq(STRING) /\ i[2] \in Seq(STRING) /\ i[1] # <<>> /\ i[2] # <<>>
    BY <1>1, <1>2 DEF Name
  <2>2. i[1] \o i[2] \in Seq(STRING) /\ i[1] \o i[2] # <<>>
    BY <2>1, ConcatProperties, ConcatEqualIffEmpty
  <2>. QED  BY <2>1, <2>2 DEF Display, Name
<1>4. \A i \in Items, multi \in BOOLEAN : Display(i, multi) \in Shown
  BY DEF Shown
<1>. QED  BY <1>1, <1>2, <1>3, <1>4 DEF Shown

\* Routes put together from names, and no route, have the form of routes.
LEMMA RoutesGood ==
  /\ NoRoute \in GoodRoutes
  /\ \A t \in Name, n \in Name : RouteTo(t, n) \in GoodRoutes /\ Toward(t, n) \in GoodRoutes
  /\ \A r \in GoodRoutes : r.id \in {r.target, NoId}
<1>1. <<>> \in Name
  BY EmptySeq DEF Name
<1>2. NoRoute \in GoodRoutes
  BY <1>1 DEF NoRoute, GoodRoutes, NoId
<1>3. ASSUME NEW t \in Name, NEW n \in Name
      PROVE  RouteTo(t, n) \in GoodRoutes /\ Toward(t, n) \in GoodRoutes
  <2>1. TargetID(t) \in Name /\ TargetID(t) \in {t, NoId} /\ NoId \in Name
    BY <1>1 DEF TargetID, NoId
  <2>. HIDE DEF Name
  <2>. QED  BY <2>1 DEF RouteTo, Toward, GoodRoutes
<1>. QED  BY <1>2, <1>3 DEF GoodRoutes

\* So have the routes of the fallback, whatever it cuts off.
LEMMA ParsedGood ==
  ASSUME clients \in SUBSET Targets, NEW s \in Shown
  PROVE  Parsed(s) \subseteq GoodRoutes
<1>1. s \in Name /\ s # <<>> /\ clients \subseteq Name
  BY Names
<1>2. SubSeq(s, 1, 1) \in Name /\ Tail(s) \in Name
  BY <1>1 DEF Name
<1>3. Toward(ParseResourceName(s)[1], ParseResourceName(s)[2]) \in GoodRoutes
  BY <1>2, RoutesGood DEF ParseResourceName
<1>4. \A t \in clients : Toward(t, s) \in GoodRoutes
  BY <1>1, RoutesGood
<1>. QED  BY <1>3, <1>4 DEF Parsed

\* Requests begin and end as they should.
LEMMA Idle ==
  /\ NoList \in ListState
  /\ NoCall \in CallState /\ Checked(NoCall)
<1>1. NoList \in ListState
  BY DEF NoList, ListPC, ListState
<1>2. NoCall \in CallState
  BY RoutesGood DEF NoCall, CallPC, CallState, AnyShown, AnyItem
<1>3. Checked(NoCall)
  BY DEF NoCall, Checked
<1>. QED  BY <1>1, <1>2, <1>3

-----------------------------------------------------------------------------
\* A step that changes one list keeps the invariant if the list is of its type.
LEMMA ListKept ==
  ASSUME Inv, NEW l \in Lists, NEW v \in ListState,
         lists' = [lists EXCEPT ![l] = v],
         UNCHANGED <<session, calls>>,
         mapping' \in [Shown -> GoodRoutes], known' \in SUBSET Answers
  PROVE  Inv'
BY DEF Inv, session, Checked, CanAccess

\* Every step of a list keeps the invariant.
LEMMA ListSteps ==
  ASSUME Inv, NEW l \in Lists, ListStep(l)
  PROVE  Inv'
<1>0. /\ lists[l] \in ListState /\ lists \in [Lists -> ListState]
      /\ mapping \in [Shown -> GoodRoutes] /\ known \in SUBSET Answers
      /\ clients \in SUBSET Targets
  BY DEF Inv
<1>1. CASE ListStart(l)
  <2>. DEFINE multi == Cardinality(clients) > 1
              v == [NoList EXCEPT !.pc = "clear", !.fetch = clients, !.multi = multi]
  <2>0. multi \in BOOLEAN
    OBVIOUS
  <2>2. lists' = [lists EXCEPT ![l] = v]
    BY <1>1 DEF ListStart
  <2>. HIDE DEF multi
  <2>1. v \in ListState
    BY <1>0, <2>0 DEF ListPC, ListState, NoList
  <2>. HIDE DEF v
  <2>. QED  BY <1>0, <1>1, <2>1, <2>2, ListKept DEF ListStart, routing
<1>2. CASE Clear(l)
  <2>. DEFINE v == [lists[l] EXCEPT !.pc = "list"]
  <2>1. v \in ListState
    BY <1>0 DEF ListPC, ListState
  <2>2. lists' = [lists EXCEPT ![l] = v]
    BY <1>2 DEF Clear
  <2>3. mapping' \in [Shown -> GoodRoutes]
    BY <1>2, RoutesGood DEF Clear
  <2>. HIDE DEF v
  <2>. QED  BY <1>0, <1>2, <2>1, <2>2, <2>3, ListKept DEF Clear
<1>3. CASE Reply(l)
  <2>1. known' \in SUBSET Answers
    BY <1>0, <1>3 DEF Reply, ListState
  <2>2. [NoList EXCEPT !.pc = "done"] \in ListState
    BY DEF ListPC, ListState, NoList
  <2>. QED  BY <1>0, <1>3, <2>1, <2>2, ListKept DEF Reply, routing
<1>4. ASSUME NEW t \in Targets, Fetch(l, t)
      PROVE  Inv'
  <2>1. PICK got \in SUBSET {i \in Items : i[1] = t /\ CanAccess(TargetID(t), i[2])} :
          lists' = [lists EXCEPT ![l].fetch = lists[l].fetch \ {t},
                                 ![l].items = {<<i, RouteTo(t, i[2])>> : i \in got}]
    BY <1>4 DEF Fetch
  <2>. DEFINE new == {<<i, RouteTo(t, i[2])>> : i \in got}
              v == [lists[l] EXCEPT !.fetch = lists[l].fetch \ {t}, !.items = new]
  <2>2. new \in SUBSET Found
    <3>1. ASSUME NEW i \in got PROVE <<i, RouteTo(t, i[2])>> \in Found
      <4>1. i \in Items /\ t \in Name /\ i[2] \in Name
        BY Names
      <4>2. RouteTo(t, i[2]) \in GoodRoutes
        BY <4>1, RoutesGood
      <4>. QED  BY <4>1, <4>2 DEF Found
    <3>. QED  BY <3>1
  <2>. HIDE DEF new
  <2>3. v \in ListState
    BY <1>0, <2>2 DEF ListPC, ListState
  <2>4. lists' = [lists EXCEPT ![l] = v]
    BY <2>1 DEF new
  <2>. HIDE DEF v
  <2>. QED  BY <1>0, <1>4, <2>3, <2>4, ListKept DEF Fetch, routing
<1>5. ASSUME NEW x \in lists[l].items, Publish(l, x)
      PROVE  Inv'
  <2>. DEFINE shown == Display(x[1], lists[l].multi)
              v == [lists[l] EXCEPT !.items = lists[l].items \ {x},
                                    !.out = IF lists[l].old THEN {}
                                            ELSE lists[l].out \cup {<<shown, x[1]>>}]
  <2>1. x \in Found /\ x[1] \in Items /\ x[2] \in GoodRoutes /\ lists[l].multi \in BOOLEAN
    BY <1>0 DEF ListPC, ListState, Found
  <2>2. shown \in Shown
    BY <2>1, Names
  <2>. HIDE DEF shown
  <2>3. v \in ListState
    <3>1. <<shown, x[1]>> \in Answers
      BY <2>1, <2>2 DEF Answers
    <3>. QED  BY <1>0, <3>1 DEF ListPC, ListState
  <2>4. /\ lists' = [lists EXCEPT ![l] = v]
        /\ mapping' = [mapping EXCEPT ![shown] = x[2]]
        /\ UNCHANGED <<session, known, calls>>
    BY <1>5 DEF Publish, PublishAs, shown
  <2>5. mapping' \in [Shown -> GoodRoutes]
    BY <1>0, <2>1, <2>4
  <2>. HIDE DEF v
  <2>. QED  BY <1>0, <2>3, <2>4, <2>5, ListKept
<1>. QED  BY <1>1, <1>2, <1>3, <1>4, <1>5 DEF ListStep

-----------------------------------------------------------------------------
LEMMA CallKept ==
  ASSUME Inv, NEW c \in Calls, NEW v \in CallState, Checked(v),
         calls' = [calls EXCEPT ![c] = v],
         UNCHANGED <<session, routing, known, lists>>
  PROVE  Inv'
BY DEF Inv, session, routing, Checked, CanAccess

\* Every step of a call keeps it: only the check lets a call pass.
LEMMA CallSteps ==
  ASSUME Inv, NEW c \in Calls, CallStep(c)
  PROVE  Inv'
<1>0. /\ calls[c] \in CallState /\ Checked(calls[c]) /\ calls \in [Calls -> CallState]
      /\ mapping \in [Shown -> GoodRoutes] /\ known \in SUBSET Answers
      /\ clients \in SUBSET Targets
  BY DEF Inv
<1>1. ASSUME NEW s \in Shown, CallStart(c, s)
      PROVE  Inv'
  <2>. DEFINE meant == {k[2] : k \in {y \in known : y[1] = s}}
  <2>1. PICK i \in IF meant = {} THEN {<<>>} ELSE meant :
          calls' = [calls EXCEPT ![c] = [NoCall EXCEPT !.pc = "lookup", !.shown = s, !.item = i]]
    BY <1>1 DEF CallStart
  <2>2. meant \subseteq Items
    BY <1>0 DEF Answers
  <2>3. i \in AnyItem
    BY <2>2 DEF AnyItem
  <2>. DEFINE v == [NoCall EXCEPT !.pc = "lookup", !.shown = s, !.item = i]
  <2>4. v \in CallState
    BY <2>3, RoutesGood DEF CallPC, CallState, NoCall, AnyShown
  <2>5. Checked(v)
    BY DEF Checked, NoCall
  <2>6. calls' = [calls EXCEPT ![c] = v]
    BY <2>1
  <2>. HIDE DEF meant, v
  <2>. QED  BY <1>1, <2>4, <2>5, <2>6, CallKept DEF CallStart
<1>2. CASE Lookup(c)
  <2>. DEFINE route == mapping[calls[c].shown]
              item == IF stray THEN <<>> ELSE calls[c].item
              pc == IF route # NoRoute THEN "check"
                    ELSE IF HasFallback THEN "parse" ELSE "notfound"
              v == [calls[c] EXCEPT !.route = route, !.item = item, !.pc = pc]
  <2>0. calls[c].shown \in Shown
    BY <1>0, <1>2 DEF Lookup, Checked
  <2>5. item \in AnyItem
    BY <1>0 DEF CallState, AnyItem
  <2>2. route \in GoodRoutes /\ pc \in {"check", "parse", "notfound"}
    BY <1>0, <2>0
  <2>4. calls' = [calls EXCEPT ![c].route = route, ![c].item = item, ![c].pc = pc]
    BY <1>2, Zenon DEF Lookup
  <2>. HIDE DEF route, item, pc
  <2>1. calls' = [calls EXCEPT ![c] = v]
    BY <1>0, <2>4
  <2>3. v \in CallState /\ Checked(v)
    BY <1>0, <2>0, <2>2, <2>5 DEF CallPC, CallState, Checked
  <2>. HIDE DEF v
  <2>. QED  BY <1>2, <2>1, <2>3, CallKept DEF Lookup
<1>3. CASE Parse(c)
  <2>1. calls[c].shown \in Shown /\ Parsed(calls[c].shown) \subseteq GoodRoutes
    BY <1>0, <1>3, ParsedGood DEF Parse, Checked
  <2>2. ASSUME NEW r \in Parsed(calls[c].shown),
               calls' = [calls EXCEPT ![c].route = r, ![c].pc = "identify"]
        PROVE  Inv'
    <3>. DEFINE v == [calls[c] EXCEPT !.route = r, !.pc = "identify"]
    <3>1. v \in CallState /\ Checked(v) /\ calls' = [calls EXCEPT ![c] = v]
      BY <1>0, <2>1, <2>2 DEF CallPC, CallState, Checked
    <3>. HIDE DEF v
    <3>. QED  BY <1>3, <3>1, CallKept DEF Parse
  <2>3. ASSUME calls' = [calls EXCEPT ![c].pc = "notfound"]
        PROVE  Inv'
    <3>. DEFINE v == [calls[c] EXCEPT !.pc = "notfound"]
    <3>1. v \in CallState /\ Checked(v) /\ calls' = [calls EXCEPT ![c] = v]
      BY <1>0, <2>3 DEF CallPC, CallState, Checked
    <3>. HIDE DEF v
    <3>. QED  BY <1>3, <3>1, CallKept DEF Parse
  <2>. QED  BY <1>3, <2>2, <2>3 DEF Parse
<1>7. CASE Identify(c)
  <2>. DEFINE r == RouteTo(calls[c].route.target, calls[c].route.name)
              v == [calls[c] EXCEPT !.route = r, !.pc = "check"]
  <2>1. r \in GoodRoutes
    <3>1. calls[c].route.target \in Name /\ calls[c].route.name \in Name
      BY <1>0 DEF CallState, GoodRoutes
    <3>. QED  BY <3>1, RoutesGood
  <2>. HIDE DEF r
  <2>2. v \in CallState /\ Checked(v)
    BY <1>0, <2>1 DEF CallPC, CallState, Checked
  <2>3. calls' = [calls EXCEPT ![c] = v]
    BY <1>0, <1>7 DEF Identify, r
  <2>. HIDE DEF v
  <2>. QED  BY <1>7, <2>2, <2>3, CallKept DEF Identify
<1>4. CASE Check(c)
  <2>1. ASSUME CanAccess(calls[c].route.id, calls[c].route.name),
               calls' = [calls EXCEPT ![c].pc = "client"]
        PROVE  Inv'
    <3>. DEFINE v == [calls[c] EXCEPT !.pc = "client"]
    <3>1. v \in CallState /\ Checked(v) /\ calls' = [calls EXCEPT ![c] = v]
      BY <1>0, <2>1 DEF CallPC, CallState, Checked
    <3>. HIDE DEF v
    <3>. QED  BY <1>4, <3>1, CallKept DEF Check
  <2>2. CASE calls' = [calls EXCEPT ![c] = NoCall]
    BY <1>4, <2>2, Idle, CallKept DEF Check
  <2>. QED  BY <1>4, <2>1, <2>2 DEF Check
<1>5. CASE Send(c)
  <2>. DEFINE pc == IF calls[c].route.target \in clients THEN "sent" ELSE "unconnected"
              v == [calls[c] EXCEPT !.pc = pc]
  <2>1. v \in CallState /\ Checked(v) /\ calls' = [calls EXCEPT ![c] = v]
    BY <1>0, <1>5 DEF Send, CallPC, CallState, Checked
  <2>. HIDE DEF v
  <2>. QED  BY <1>5, <2>1, CallKept DEF Send
<1>6. CASE CallEnd(c)
  BY <1>6, Idle, CallKept DEF CallEnd
<1>. QED  BY <1>1, <1>2, <1>3, <1>4, <1>5, <1>6, <1>7 DEF CallStep

-----------------------------------------------------------------------------
\* The invariant holds at first.
LEMMA InitInv == Init => Inv
BY Idle, RoutesGood DEF Init, Inv

\* So do targets that join and a recycle.
LEMMA SessionSteps ==
  ASSUME Inv, Recycle \/ \E t \in Targets : SetClient(t) \/ SetTargetID(t)
  PROVE  Inv'
<1>1. CASE \E t \in Targets : SetClient(t) \/ SetTargetID(t)
  BY <1>1 DEF Inv, SetClient, SetTargetID, routing, Checked, CanAccess
<1>2. CASE Recycle
  <2>1. lists' \in [Lists -> ListState]
    <3>1. \A l \in Lists :
            [lists[l] EXCEPT !.old = lists[l].pc \notin {"idle", "done"}, !.out = {}] \in ListState
      BY DEF Inv, ListPC, ListState
    <3>. QED  BY <1>2, <3>1 DEF Recycle
  <2>2. ASSUME NEW c \in Calls
        PROVE  /\ [calls[c] EXCEPT !.item = <<>>] \in CallState
               /\ Checked([calls[c] EXCEPT !.item = <<>>])
    <3>1. calls[c] \in CallState /\ Checked(calls[c])
      BY DEF Inv
    <3>. QED  BY <3>1 DEF CallPC, CallState, AnyItem, Checked
  <2>3. calls' \in [Calls -> CallState] /\ \A c \in Calls : Checked(calls[c])'
    BY <1>2, <2>2 DEF Recycle, Checked, CanAccess
  <2>. QED  BY <1>2, <2>1, <2>3, RoutesGood DEF Recycle, Inv
<1>. QED  BY <1>1, <1>2

\* What the mapping and the calls hold stays a route the check went by.
THEOREM Inductive == Spec => []Inv
<1>1. Inv /\ [Next]_vars => Inv'
  <2>. SUFFICES ASSUME Inv, [Next]_vars PROVE Inv'
    OBVIOUS
  <2>1. CASE UNCHANGED vars
    BY <2>1 DEF Inv, vars, Checked, CanAccess
  <2>. QED  BY <2>1, ListSteps, CallSteps, SessionSteps DEF Next
<1>. QED  BY <1>1, InitInv, PTL DEF Spec

\* The check of proxy.go:325 keeps every call off a target that denies it,
\* the zero target id and the fallback's guess included, if the policies
\* without a target allow nothing that a target's deny.
THEOREM DeniedNeverSent ==
  ASSUME AnywhereSafe
  PROVE  Spec => []SentIsAllowed
<1>1. Inv => SentIsAllowed
  <2>. SUFFICES ASSUME Inv, NEW c \in Calls, calls[c].pc = "sent"
                PROVE  <<calls[c].route.target, calls[c].route.name>> \in Allowed
    BY DEF SentIsAllowed
  <2>1. /\ calls[c].route \in GoodRoutes /\ calls[c].route.target \in Targets
        /\ CanAccess(calls[c].route.id, calls[c].route.name)
    BY DEF Inv, CallPC, CallState, Checked
  <2>2. calls[c].route.id \in {calls[c].route.target, NoId}
    BY <2>1, RoutesGood
  <2>. QED  BY <2>1, <2>2 DEF AnywhereSafe, CanAccess
<1>. QED  BY <1>1, Inductive, PTL

-----------------------------------------------------------------------------
(* The mapping *)

\* The route is to an item that was shown by this name.
Leads(shown, r) ==
  /\ <<r.target, r.name>> \in Items /\ r.id \in {r.target, NoId}
  /\ \E multi \in BOOLEAN : shown = Display(<<r.target, r.name>>, multi)

MapSound  == \A s \in Shown : mapping[s] # NoRoute => Leads(s, mapping[s])
ItemsSound ==
  \A l \in Lists : \A x \in lists[l].items : x[2].target = x[1][1] /\ x[2].name = x[1][2]
Counters == /\ connecting \in SUBSET Targets /\ ids \in SUBSET Targets
            /\ recycles \in 0 .. MaxRecycles /\ stray \in BOOLEAN

Sound == MapSound /\ ItemsSound /\ Counters

\* An item is a target and a name.
LEMMA ItemPair == \A i \in Items : i = <<i[1], i[2]>> /\ i[1] \in Targets
BY DEF Items

\* What is left of the types, through every step.
LEMMA CountersStep ==
  ASSUME Inv, Counters, [Next]_vars
  PROVE  Counters'
<1>1. \A l \in Lists : lists[l].old \in BOOLEAN
  BY DEF Inv, ListState
<1>2. CASE Recycle \/ \E t \in Targets : SetClient(t) \/ SetTargetID(t)
  <2>1. CASE Recycle
    <3>1. recycles < MaxRecycles /\ recycles' = recycles + 1
      BY <2>1 DEF Recycle
    <3>2. recycles' \in 0 .. MaxRecycles
      BY <3>1, RoutingAssumption DEF Counters
    <3>3. ids' = {} /\ stray' = FALSE /\ connecting' = connecting
      BY <2>1 DEF Recycle
    <3> QED BY <3>2, <3>3 DEF Counters
  <2>2. CASE \E t \in Targets : SetClient(t) \/ SetTargetID(t)
    <3>1. UNCHANGED <<recycles, stray>>
      BY <2>2 DEF SetClient, SetTargetID, routing
    <3>2. connecting' \in SUBSET Targets /\ ids' \in SUBSET Targets
      BY <2>2 DEF Counters, SetClient, SetTargetID
    <3> QED BY <3>1, <3>2 DEF Counters
  <2> QED BY <1>2, <2>1, <2>2
<1>3. ASSUME NEW l \in Lists, ListStep(l) PROVE Counters'
  <2>1. UNCHANGED session /\ stray' \in BOOLEAN
    BY <1>1, <1>3
       DEF ListStep, ListStart, Clear, Reply, Fetch, Publish, PublishAs, Counters, routing
  <2> QED BY <2>1 DEF Counters, session
<1>4. ASSUME NEW c \in Calls, CallStep(c) PROVE Counters'
  BY <1>4 DEF CallStep, CallStart, Lookup, Parse, Identify, Check, Send, CallEnd, Counters,
     session, routing
<1>5. CASE UNCHANGED vars
  BY <1>5 DEF Counters, vars
<1> QED BY <1>2, <1>3, <1>4, <1>5 DEF Next

\* The items of one list change, by items it was answered or not at all.
LEMMA ItemsKept ==
  ASSUME Inv, ItemsSound, NEW l \in Lists, NEW new,
         \A x \in new : x[2].target = x[1][1] /\ x[2].name = x[1][2],
         \A m \in Lists : lists'[m].items = IF m = l THEN new ELSE lists[m].items
  PROVE  ItemsSound'
BY DEF ItemsSound

\* A list publishes what its targets answered, by their own names.
LEMMA ListsSound ==
  ASSUME Inv, MapSound, ItemsSound, NEW l \in Lists, ListStep(l)
  PROVE  MapSound' /\ ItemsSound'
<1>0. lists \in [Lists -> ListState] /\ lists[l] \in ListState /\ mapping \in [Shown -> GoodRoutes]
  BY DEF Inv
<1>1. CASE ListStart(l) \/ Reply(l)
  <2>1. \A m \in Lists : lists'[m].items = IF m = l THEN {} ELSE lists[m].items
    BY <1>0, <1>1 DEF ListStart, Reply, NoList
  <2> QED BY <1>1, <2>1, ItemsKept DEF ListStart, Reply, MapSound, routing
<1>2. CASE Clear(l)
  <2>1. \A m \in Lists : lists'[m].items = lists[m].items
    BY <1>0, <1>2 DEF Clear, ListState
  <2>2. \A s \in Shown : mapping'[s] = NoRoute
    BY <1>2 DEF Clear
  <2> QED BY <2>1, <2>2 DEF MapSound, ItemsSound
<1>3. ASSUME NEW t \in Targets, Fetch(l, t) PROVE MapSound' /\ ItemsSound'
  <2>1. PICK got \in SUBSET {i \in Items : i[1] = t /\ CanAccess(TargetID(t), i[2])} :
          lists' = [lists EXCEPT ![l].fetch = lists[l].fetch \ {t},
                                 ![l].items = {<<i, RouteTo(t, i[2])>> : i \in got}]
    BY <1>3 DEF Fetch
  <2> DEFINE new == {<<i, RouteTo(t, i[2])>> : i \in got}
  <2>2. \A x \in new : x[2].target = x[1][1] /\ x[2].name = x[1][2]
    BY DEF RouteTo
  <2> HIDE DEF new
  <2>3. \A m \in Lists : lists'[m].items = IF m = l THEN new ELSE lists[m].items
    BY <1>0, <2>1 DEF new, ListState
  <2> QED BY <1>3, <2>2, <2>3, ItemsKept DEF Fetch, MapSound, routing
<1>4. ASSUME NEW x \in lists[l].items, Publish(l, x) PROVE MapSound' /\ ItemsSound'
  <2> DEFINE multi == lists[l].multi
             shown == Display(x[1], multi)
             left  == lists[l].items \ {x}
  <2>1. /\ x \in Found /\ x[1] \in Items /\ x[2] \in GoodRoutes /\ multi \in BOOLEAN
        /\ x[2].target = x[1][1] /\ x[2].name = x[1][2]
    BY <1>0 DEF ListState, Found, ItemsSound
  <2>2. x[1] = <<x[2].target, x[2].name>> /\ shown \in Shown
    BY <2>1, ItemPair, Names
  <2>3. Leads(shown, x[2])
    BY <2>1, <2>2, RoutesGood DEF Leads
  <2> HIDE DEF multi, shown
  <2>4. /\ mapping' = [mapping EXCEPT ![shown] = x[2]]
        /\ \A m \in Lists : lists'[m].items = IF m = l THEN left ELSE lists[m].items
    BY <1>0, <1>4 DEF Publish, PublishAs, multi, shown, ListState
  <2>5. MapSound'
    BY <1>0, <2>2, <2>3, <2>4 DEF MapSound, Leads
  <2>6. \A y \in left : y[2].target = y[1][1] /\ y[2].name = y[1][2]
    BY DEF ItemsSound
  <2> HIDE DEF left
  <2>7. ItemsSound'
    BY <2>4, <2>6, ItemsKept
  <2> QED BY <2>5, <2>7
<1> QED BY <1>1, <1>2, <1>3, <1>4 DEF ListStep

\* Every step keeps the mapping sound.
LEMMA SoundStep ==
  ASSUME Inv, Sound, [Next]_vars
  PROVE  Sound'
<1>1. CASE Recycle
  <2>1. \A s \in Shown : mapping'[s] = NoRoute
    BY <1>1 DEF Recycle
  <2>2. \A l \in Lists : lists'[l].items = lists[l].items
    BY <1>1 DEF Recycle, Inv, ListState
  <2> QED BY <2>1, <2>2, CountersStep DEF Sound, MapSound, ItemsSound
<1>2. ASSUME UNCHANGED <<mapping, lists>> PROVE Sound'
  BY <1>2, CountersStep DEF Sound, MapSound, ItemsSound
<1>3. ASSUME NEW c \in Calls, CallStep(c) PROVE Sound'
  BY <1>2, <1>3 DEF CallStep, CallStart, Lookup, Parse, Identify, Check, Send, CallEnd, routing
<1>4. ASSUME NEW l \in Lists, ListStep(l) PROVE Sound'
  BY <1>4, ListsSound, CountersStep DEF Sound
<1> QED BY <1>1, <1>2, <1>3, <1>4 DEF Next, vars, SetClient, SetTargetID, routing

\* The two invariants together say what TypeOK says.
LEMMA SoundTypes == Inv /\ Sound => TypeOK
<1> SUFFICES ASSUME Inv, Sound PROVE TypeOK
  OBVIOUS
<1>1. \A s, r : Leads(s, r) /\ r \in GoodRoutes => r \in Routes
  <2> TAKE s, r
  <2> HAVE Leads(s, r) /\ r \in GoodRoutes
  <2>1. r.target \in Targets /\ r.name \in {i[2] : i \in Items}
    <3>1. <<r.target, r.name>> \in Items
      BY DEF Leads
    <3> QED BY <3>1, ItemPair
  <2> QED BY <2>1 DEF Leads, GoodRoutes, Routes
<1>2. mapping \in [Shown -> Routes \cup {NoRoute}]
  BY <1>1 DEF Inv, Sound, MapSound
<1>3. ASSUME NEW l \in Lists
      PROVE  /\ lists[l].pc \in {"idle", "clear", "list", "done"}
             /\ lists[l].multi \in BOOLEAN /\ lists[l].old \in BOOLEAN
             /\ lists[l].fetch \in SUBSET Targets /\ lists[l].out \in SUBSET (Shown \X Items)
             /\ lists[l].items \in SUBSET (Items \X Routes)
  <2>1. lists[l] \in ListState
    BY DEF Inv
  <2>2. ASSUME NEW x \in lists[l].items PROVE x \in Items \X Routes
    <3>1. x \in Items \X GoodRoutes /\ x[2].target = x[1][1] /\ x[2].name = x[1][2]
      BY <2>1 DEF ListState, Found, Sound, ItemsSound
    <3>2. x[2].target \in Targets /\ x[2].name \in {i[2] : i \in Items}
      BY <3>1, ItemPair
    <3>3. x[2] \in Routes
      BY <3>1, <3>2 DEF GoodRoutes, Routes
    <3> QED BY <3>1, <3>3
  <2> QED BY <2>1, <2>2 DEF ListState, ListPC, Answers
<1>4. \A c \in Calls :
        /\ calls[c].pc \in {"idle", "lookup", "parse", "identify", "check", "client",
                            "sent", "unconnected", "notfound"}
        /\ calls[c].shown \in Shown \cup {<<>>} /\ calls[c].item \in Items \cup {<<>>}
  BY DEF Inv, CallState, CallPC, AnyShown, AnyItem
<1>5. \A s \in Shown : LET r == mapping[s] IN
        r # NoRoute => /\ <<r.target, r.name>> \in Items
                       /\ r.id \in {r.target, NoId}
                       /\ \E multi \in BOOLEAN : s = Display(<<r.target, r.name>>, multi)
  BY DEF Sound, MapSound, Leads
<1>6. clients \in SUBSET Targets /\ known \in SUBSET (Shown \X Items)
  BY DEF Inv, Answers
<1>7. /\ connecting \in SUBSET Targets /\ ids \in SUBSET Targets
      /\ recycles \in 0 .. MaxRecycles /\ stray \in BOOLEAN
  BY DEF Sound, Counters
<1> QED BY <1>2, <1>3, <1>4, <1>5, <1>6, <1>7 DEF TypeOK

\* It is sound at first.
LEMMA SoundInit == Init => Sound
<1> SUFFICES ASSUME Init PROVE Sound
  OBVIOUS
<1>1. MapSound
  BY DEF Init, MapSound
<1>2. ItemsSound
  <2>1. \A l \in Lists : lists[l].items = {}
    BY DEF Init, NoList
  <2> QED BY <2>1 DEF ItemsSound
<1>3. Counters
  <2>1. 0 \in 0 .. MaxRecycles
    BY RoutingAssumption
  <2> QED BY <2>1 DEF Init, Counters
<1> QED BY <1>1, <1>2, <1>3 DEF Sound

\* The mapping leads to what was shown in every state.
LEMMA SoundAlways == Spec => []Sound
<1>1. Inv /\ Sound /\ [Next]_vars => Sound'
  BY SoundStep
<1> QED BY <1>1, SoundInit, Inductive, PTL DEF Spec

\* Whatever lists of one session run side by side, and whatever a recycle does to
\* them: a mapped name leads to an item of a target that was shown by that name
\* (proxy.go:257, ListTools).
THEOREM MappingLeads == Spec => []TypeOK
BY SoundAlways, Inductive, SoundTypes, PTL
-----------------------------------------------------------------------------
(* What the client was shown *)

\* No target's name holds an underscore, and nothing a target offers has a longer name
\* that begins with a target's: the fallback then cuts prefixed names where they were
\* put together, and no name as offered looks like a prefixed one.
NamesApart ==
  /\ \A t \in Targets : Len(t) = 1
  /\ \A i \in Items : Len(i[2]) > 1 => SubSeq(i[2], 1, 1) \notin Targets

Several == Cardinality(clients) > 1

\* A list of the connections there are now may show i by this name; alone is the target
\* that was connected first, whose names are shown as they are until a second one joins.
Shows(shown, i, alone) ==
  /\ i \in Items /\ i[1] \in clients
  /\ \/ Several /\ shown = Display(i, TRUE)
     \/ i[1] = alone /\ shown = Display(i, FALSE)

\* A list that no recycle overtook goes by targets that are still connected.
ListFits(l, alone) ==
  /\ \A t \in l.fetch : t \in clients /\ IF l.multi THEN Several ELSE t = alone
  /\ \A x \in l.items : Shows(Display(x[1], l.multi), x[1], alone)
  /\ \A a \in l.out : Shows(a[1], a[2], alone)

\* Where a call of something the client was shown may get to; a bare name from before
\* the second target may be cut at its first underscore, and finds no target.
CallFits(c, alone) ==
  LET there == <<c.route.target, c.route.name>> = c.item
      bare  == c.shown = Display(c.item, FALSE)
  IN /\ Shows(c.shown, c.item, alone)
     /\ c.pc \in {"identify", "check", "client"} => there \/ (bare /\ c.route.target \notin Targets)
     /\ c.pc = "sent" => there
     /\ c.pc = "unconnected" => bare
     /\ c.pc = "notfound" => bare \/ ~HasFallback

\* Lists, mapping and calls agree on what was shown since the last recycle.
Epoch(alone) ==
  /\ IsFiniteSet(clients)
  /\ \A t \in Targets : clients = {t} => t = alone
  /\ \A l \in Lists :
       /\ lists[l].pc \in {"idle", "done"} => lists[l].fetch = {} /\ lists[l].items = {}
       /\ ~lists[l].old => ListFits(lists[l], alone)
  /\ ~stray => \A s \in Shown : LET r == mapping[s] IN
       r # NoRoute => Shows(s, <<r.target, r.name>>, alone)
  /\ \A k \in known : Shows(k[1], k[2], alone)
  /\ \A c \in Calls : calls[c].item # <<>> => CallFits(calls[c], alone)

EpochInv == \E alone \in Targets \cup {NoId} : Epoch(alone)

\* A name put together from a target's and an item's is taken apart into the two.
LEMMA CutsBack ==
  ASSUME NamesApart, NEW i \in Items
  PROVE  /\ ParseResourceName(Display(i, TRUE)) = <<i[1], i[2]>>
         /\ Len(Display(i, TRUE)) > 1 /\ Len(Display(i, TRUE)) # 1
<1> DEFINE t == i[1]
           n == i[2]
<1>1. t \in Seq(STRING) /\ n \in Seq(STRING) /\ n # <<>> /\ Len(t) = 1
  BY RoutingAssumption DEF Items, NamesApart
<1> HIDE DEF t, n
<1>2. t \o n \in Seq(STRING) /\ Len(t \o n) = 1 + Len(n) /\ Len(n) \in Nat /\ Len(n) # 0
  BY <1>1, ConcatProperties, EmptySeq
<1>3. SubSeq(t \o n, 1, 1) = t
  BY <1>1, <1>2
<1>4. Tail(t \o n) = n
  BY <1>1, <1>2
<1>5. Len(t \o n) > 1 /\ Len(t \o n) # 1
  BY <1>2
<1> QED BY <1>3, <1>4, <1>5 DEF ParseResourceName, Display, t, n

\* No name as offered is a prefixed one.
LEMMA NeverBoth ==
  ASSUME NamesApart, NEW a \in Items, NEW b \in Items
  PROVE  Display(a, TRUE) # Display(b, FALSE)
<1>1. SubSeq(Display(a, TRUE), 1, 1) \in Targets /\ Len(Display(a, TRUE)) > 1
  BY CutsBack, ItemPair DEF ParseResourceName
<1>2. Display(b, FALSE) = b[2]
  BY DEF Display
<1> QED BY <1>1, <1>2 DEF NamesApart

\* One name is shown for one item.
LEMMA OneItemShown ==
  ASSUME NamesApart, NEW s, NEW i, NEW j, NEW alone,
         Shows(s, i, alone), Shows(s, j, alone)
  PROVE  i = j
<1>1. i \in Items /\ j \in Items /\ i = <<i[1], i[2]>> /\ j = <<j[1], j[2]>>
      /\ i[1] \in Targets /\ j[1] \in Targets
  BY ItemPair DEF Shows
<1>2. CASE s = Display(i, TRUE) /\ s = Display(j, TRUE)
  <2>1. <<i[1], i[2]>> = <<j[1], j[2]>>
    BY <1>1, <1>2, CutsBack
  <2> QED BY <1>1, <2>1
<1>3. CASE i[1] = alone /\ s = Display(i, FALSE) /\ j[1] = alone /\ s = Display(j, FALSE)
  BY <1>1, <1>3 DEF Display
<1> QED BY <1>1, <1>2, <1>3, NeverBoth DEF Shows

\* One or no connection, or several.
LEMMA HowMany ==
  ASSUME IsFiniteSet(clients), ~Several
  PROVE  clients = {} \/ \E t \in clients : clients = {t}
<1>1. Cardinality(clients) \in Nat
  BY FS_CardinalityType
<1>2. Cardinality(clients) = 0 \/ Cardinality(clients) = 1
  BY <1>1 DEF Several
<1>3. CASE Cardinality(clients) = 0
  BY <1>3, FS_EmptySet
<1>4. CASE Cardinality(clients) = 1
  <2>1. PICK t : clients = {t}
    BY <1>4, FS_Singleton
  <2> QED BY <2>1
<1> QED BY <1>2, <1>3, <1>4

\* A target that joins takes nothing back.
LEMMA JoinGrows ==
  ASSUME IsFiniteSet(clients), NEW t, clients' = clients \cup {t}
  PROVE  /\ IsFiniteSet(clients') /\ (Several => Several')
         /\ clients' # {} /\ (clients # {} /\ t \notin clients => \A u : clients' # {u})
<1>1. IsFiniteSet(clients') /\ clients' # {}
  BY FS_AddElement
<1>2. Cardinality(clients) <= Cardinality(clients')
  BY <1>1, FS_Subset
<1>3. Cardinality(clients) \in Nat /\ Cardinality(clients') \in Nat
  BY <1>1, FS_CardinalityType
<1>4. Several => Several'
  BY <1>2, <1>3 DEF Several
<1> QED BY <1>1, <1>4

\* What is shown stays shown, by the same name, while the connections only grow.
LEMMA ShowsKept ==
  ASSUME NEW s, NEW i, NEW a, NEW b, Shows(s, i, a), clients \subseteq clients',
         Several => Several', i[1] = a => a = b
  PROVE  Shows(s, i, b)'
BY DEF Shows

-----------------------------------------------------------------------------
(* The epoch through the steps of the session *)

\* Nothing has been shown at first.
LEMMA EpochInit == Init => EpochInv
<1> SUFFICES ASSUME Init PROVE Epoch(NoId)
  BY DEF EpochInv
<1>1. IsFiniteSet(clients)
  BY FS_EmptySet DEF Init
<1>2. \A l \in Lists : lists[l] = NoList
  BY DEF Init
<1>3. \A l \in Lists : lists[l].fetch = {} /\ lists[l].items = {} /\ ListFits(lists[l], NoId)
  BY <1>2 DEF NoList, ListFits
<1>4. \A c \in Calls : calls[c].item = <<>>
  BY DEF Init, NoCall
<1> QED BY <1>1, <1>3, <1>4 DEF Init, Epoch

\* The first target to join is the one that was alone.
LEMMA EpochJoin ==
  ASSUME Inv, NEW alone \in Targets \cup {NoId}, Epoch(alone), NEW t \in Targets, SetClient(t)
  PROVE  EpochInv'
<1>0. PICK first \in Targets \cup {NoId} : first = IF clients = {} THEN t ELSE alone
  OBVIOUS
<1>1. /\ clients' = clients \cup {t} /\ t \notin clients
      /\ UNCHANGED <<mapping, stray, known, lists, calls>>
  BY DEF SetClient, routing
<1>2. /\ IsFiniteSet(clients') /\ (Several => Several') /\ clients \subseteq clients'
      /\ clients # {} => \A u : clients' # {u}
  BY <1>1, JoinGrows DEF Epoch
<1>3. \A u \in Targets : clients' = {u} => u = first
  BY <1>0, <1>1, <1>2
<1>4. ASSUME NEW s, NEW i, Shows(s, i, alone) PROVE Shows(s, i, first)'
  <2>1. clients # {}
    BY <1>4 DEF Shows
  <2>2. alone = first
    BY <1>0, <2>1
  <2> QED BY <1>2, <1>4, <2>2, ShowsKept
<1>5. ASSUME NEW l \in Lists, ListFits(lists[l], alone) PROVE ListFits(lists[l], first)'
  <2>1. lists'[l] = lists[l]
    BY <1>1
  <2>2. \A x \in lists[l].fetch :
          x \in clients' /\ IF lists[l].multi THEN Several' ELSE x = first
    BY <1>0, <1>2, <1>5 DEF ListFits
  <2> QED BY <1>4, <1>5, <2>1, <2>2 DEF ListFits
<1>6. ASSUME NEW c \in Calls, CallFits(calls[c], alone) PROVE CallFits(calls[c], first)'
  <2>1. calls'[c] = calls[c]
    BY <1>1
  <2> QED BY <1>4, <1>6, <2>1 DEF CallFits
<1>7. Epoch(first)'
  BY <1>1, <1>2, <1>3, <1>4, <1>5, <1>6 DEF Epoch
<1> QED BY <1>0, <1>7 DEF EpochInv

\* A recycle begins anew; what goes on from before is marked old.
LEMMA EpochRecycle ==
  ASSUME Inv, NEW alone, Epoch(alone), Recycle
  PROVE  EpochInv'
<1>0. lists \in [Lists -> ListState] /\ calls \in [Calls -> CallState]
  BY DEF Inv
<1>1. IsFiniteSet(clients') /\ clients' = {} /\ known' = {}
  BY FS_EmptySet DEF Recycle
<1>2. ASSUME NEW l \in Lists
      PROVE  /\ lists'[l].pc \in {"idle", "done"} =>
                  lists'[l].fetch = {} /\ lists'[l].items = {}
             /\ ~lists'[l].old => ListFits(lists[l], NoId)'
  <2>1. /\ lists[l] \in ListState
        /\ lists'[l] = [lists[l] EXCEPT !.old = lists[l].pc \notin {"idle", "done"}, !.out = {}]
    BY <1>0 DEF Recycle
  <2>2. lists'[l].pc = lists[l].pc /\ lists'[l].old = (lists[l].pc \notin {"idle", "done"})
    BY <2>1 DEF ListState
  <2>3. CASE lists[l].pc \in {"idle", "done"}
    <3>1. lists[l].fetch = {} /\ lists[l].items = {}
      BY <2>3 DEF Epoch
    <3>2. lists'[l].fetch = {} /\ lists'[l].items = {} /\ lists'[l].out = {}
      BY <2>1, <3>1 DEF ListState
    <3> QED BY <3>1, <3>2 DEF ListFits
  <2> QED BY <2>2, <2>3
<1>3. \A c \in Calls : calls'[c].item = <<>>
  BY <1>0 DEF Recycle, CallState
<1>4. \A s \in Shown : mapping'[s] = NoRoute
  BY DEF Recycle
<1>5. Epoch(NoId)'
  BY <1>1, <1>2, <1>3, <1>4 DEF Epoch
<1> QED BY <1>5 DEF EpochInv

-----------------------------------------------------------------------------
(* The epoch through lists and calls *)

\* What is shown stays shown while the connections are the same.
LEMMA SameShown ==
  ASSUME UNCHANGED clients, NEW s, NEW i, NEW alone
  PROVE  Shows(s, i, alone)' <=> Shows(s, i, alone)
BY DEF Shows, Several

\* A step of one list, by the list, the mapping and the answer it leaves.
LEMMA EpochOfList ==
  ASSUME Inv, NEW alone, Epoch(alone), NEW l \in Lists, NEW v,
         lists' = [lists EXCEPT ![l] = v], UNCHANGED <<clients, calls>>,
         v.pc \in {"idle", "done"} => v.fetch = {} /\ v.items = {},
         ~v.old => ListFits(v, alone),
         \A k \in known' : Shows(k[1], k[2], alone),
         ~stray' => \A s \in Shown :
           mapping'[s] # NoRoute => Shows(s, <<mapping'[s].target, mapping'[s].name>>, alone)
  PROVE  Epoch(alone)'
<1>1. \A m \in Lists : lists'[m] = IF m = l THEN v ELSE lists[m]
  BY DEF Inv
<1>2. ASSUME NEW m \in Lists, ~lists'[m].old PROVE ListFits(lists[m], alone)'
  <2>1. ListFits(lists'[m], alone)
    BY <1>1, <1>2 DEF Epoch
  <2> QED BY <2>1, SameShown DEF ListFits, Several
<1>3. \A m \in Lists : lists'[m].pc \in {"idle", "done"} =>
                         lists'[m].fetch = {} /\ lists'[m].items = {}
  BY <1>1 DEF Epoch
<1>4. ASSUME NEW c \in Calls, calls[c].item # <<>> PROVE CallFits(calls[c], alone)'
  BY <1>4, SameShown DEF Epoch, CallFits
<1>5. /\ \A k \in known' : Shows(k[1], k[2], alone)'
      /\ ~stray' => \A s \in Shown : mapping'[s] # NoRoute =>
           Shows(s, <<mapping[s].target, mapping[s].name>>, alone)'
  BY SameShown
<1> QED BY <1>2, <1>3, <1>4, <1>5 DEF Epoch

\* A step of one call, by what it leaves of the call.
LEMMA EpochOfCall ==
  ASSUME Inv, NEW alone, Epoch(alone), NEW c \in Calls, NEW v,
         calls' = [calls EXCEPT ![c] = v], UNCHANGED <<session, routing, known, lists>>,
         v.item # <<>> => CallFits(v, alone)
  PROVE  Epoch(alone)'
<1>1. \A d \in Calls : calls'[d] = IF d = c THEN v ELSE calls[d]
  BY DEF Inv
<1>2. UNCHANGED <<clients, mapping, stray, known, lists>>
  BY DEF session, routing
<1>3. ASSUME NEW d \in Calls, calls'[d].item # <<>> PROVE CallFits(calls[d], alone)'
  <2>1. CallFits(calls'[d], alone)
    BY <1>1, <1>3 DEF Epoch
  <2> QED BY <1>2, <2>1, SameShown DEF CallFits
<1>4. ASSUME NEW l \in Lists, ~lists'[l].old PROVE ListFits(lists[l], alone)'
  <2>1. ListFits(lists[l], alone)
    BY <1>2, <1>4 DEF Epoch
  <2> QED BY <1>2, <2>1, SameShown DEF ListFits, Several
<1>5. /\ \A k \in known' : Shows(k[1], k[2], alone)'
      /\ ~stray' => \A s \in Shown : mapping'[s] # NoRoute =>
           Shows(s, <<mapping[s].target, mapping[s].name>>, alone)'
  BY <1>2, SameShown DEF Epoch
<1> QED BY <1>2, <1>3, <1>4, <1>5 DEF Epoch

\* A list shows items of the connections there are, or is from before a recycle and
\* marks the mapping.
LEMMA EpochLists ==
  ASSUME Inv, ItemsSound, NEW alone, Epoch(alone), NEW l \in Lists, ListStep(l)
  PROVE  Epoch(alone)'
<1>0. /\ lists[l] \in ListState /\ lists \in [Lists -> ListState]
      /\ mapping \in [Shown -> GoodRoutes] /\ clients \subseteq Targets
  BY DEF Inv
<1>1. /\ ~lists[l].old => ListFits(lists[l], alone)
      /\ \A k \in known : Shows(k[1], k[2], alone)
      /\ ~stray => \A s \in Shown :
           mapping[s] # NoRoute => Shows(s, <<mapping[s].target, mapping[s].name>>, alone)
  BY DEF Epoch
<1>2. CASE ListStart(l)
  <2> DEFINE v == [NoList EXCEPT !.pc = "clear", !.fetch = clients, !.multi = Several]
  <2>1. lists' = [lists EXCEPT ![l] = v]
    BY <1>2 DEF ListStart, Several
  <2>2. v.fetch = clients /\ v.multi = Several /\ v.items = {} /\ v.out = {} /\ v.pc = "clear"
    BY DEF NoList
  <2>3. \A t \in clients : ~Several => t = alone
    <3>1. CASE ~Several
      <4>1. clients = {} \/ \E t \in clients : clients = {t}
        BY <3>1, HowMany DEF Epoch
      <4> QED BY <1>0, <4>1 DEF Epoch
    <3> QED BY <3>1
  <2> HIDE DEF v
  <2>4. ListFits(v, alone)
    BY <2>2, <2>3 DEF ListFits
  <2>5. UNCHANGED <<clients, calls, known, mapping, stray>>
    BY <1>2 DEF ListStart, session, routing
  <2> QED BY <1>1, <2>1, <2>2, <2>4, <2>5, EpochOfList
<1>3. CASE Clear(l)
  <2> DEFINE v == [lists[l] EXCEPT !.pc = "list"]
  <2>1. lists' = [lists EXCEPT ![l] = v] /\ UNCHANGED <<clients, calls, known>>
    BY <1>3 DEF Clear, session
  <2>2. /\ v.fetch = lists[l].fetch /\ v.multi = lists[l].multi /\ v.items = lists[l].items
        /\ v.out = lists[l].out /\ v.old = lists[l].old /\ v.pc = "list"
    BY <1>0 DEF ListState
  <2> HIDE DEF v
  <2>3. ~v.old => ListFits(v, alone)
    BY <1>1, <2>2 DEF ListFits
  <2>4. \A s \in Shown : mapping'[s] = NoRoute
    BY <1>3 DEF Clear
  <2> QED BY <1>1, <2>1, <2>2, <2>3, <2>4, EpochOfList
<1>4. CASE Reply(l)
  <2> DEFINE v == [NoList EXCEPT !.pc = "done"]
  <2>1. /\ lists' = [lists EXCEPT ![l] = v] /\ UNCHANGED <<clients, calls, mapping, stray>>
        /\ known' = IF lists[l].old THEN known ELSE lists[l].out
    BY <1>4 DEF Reply, session, routing
  <2>2. v.fetch = {} /\ v.items = {} /\ v.out = {}
    BY DEF NoList
  <2> HIDE DEF v
  <2>3. ListFits(v, alone)
    BY <2>2 DEF ListFits
  <2>4. \A k \in known' : Shows(k[1], k[2], alone)
    BY <1>1, <2>1 DEF ListFits
  <2> QED BY <1>1, <2>1, <2>2, <2>3, <2>4, EpochOfList
<1>5. ASSUME NEW t \in Targets, Fetch(l, t) PROVE Epoch(alone)'
  <2>1. PICK got \in SUBSET {i \in Items : i[1] = t /\ CanAccess(TargetID(t), i[2])} :
          lists' = [lists EXCEPT ![l].fetch = lists[l].fetch \ {t},
                                 ![l].items = {<<i, RouteTo(t, i[2])>> : i \in got}]
    BY <1>5 DEF Fetch
  <2> DEFINE new == {<<i, RouteTo(t, i[2])>> : i \in got}
             v == [lists[l] EXCEPT !.fetch = lists[l].fetch \ {t}, !.items = new]
  <2>2. \A x \in new : x[1] \in Items /\ x[1][1] = t
    OBVIOUS
  <2> HIDE DEF new
  <2>3. lists' = [lists EXCEPT ![l] = v]
    BY <2>1 DEF new
  <2>4. /\ v.fetch = lists[l].fetch \ {t} /\ v.multi = lists[l].multi /\ v.items = new
        /\ v.out = lists[l].out /\ v.old = lists[l].old /\ v.pc = lists[l].pc
    BY <1>0 DEF ListState
  <2>5. t \in lists[l].fetch /\ lists[l].pc = "list"
    BY <1>5 DEF Fetch
  <2> HIDE DEF v
  <2>6. ~v.old => ListFits(v, alone)
    <3> SUFFICES ASSUME ~v.old PROVE ListFits(v, alone)
      OBVIOUS
    <3>1. ListFits(lists[l], alone)
      BY <1>1, <2>4
    <3>2. t \in clients /\ IF v.multi THEN Several ELSE t = alone
      BY <2>4, <2>5, <3>1 DEF ListFits
    <3>3. v.multi \in BOOLEAN
      BY <1>0, <2>4 DEF ListState
    <3>4. \A x \in v.items : Shows(Display(x[1], v.multi), x[1], alone)
      BY <2>2, <2>4, <3>2, <3>3 DEF Shows
    <3> QED BY <2>4, <3>1, <3>4 DEF ListFits
  <2>7. UNCHANGED <<clients, calls, known, mapping, stray>>
    BY <1>5 DEF Fetch, session, routing
  <2> QED BY <1>1, <2>3, <2>4, <2>5, <2>6, <2>7, EpochOfList
<1>6. ASSUME NEW x \in lists[l].items, Publish(l, x) PROVE Epoch(alone)'
  <2> DEFINE shown == Display(x[1], lists[l].multi)
             v == [lists[l] EXCEPT !.items = lists[l].items \ {x},
                                   !.out = IF lists[l].old THEN {}
                                           ELSE lists[l].out \cup {<<shown, x[1]>>}]
  <2>1. /\ x[1] \in Items /\ x[1] = <<x[2].target, x[2].name>> /\ lists[l].multi \in BOOLEAN
    BY <1>0, ItemPair DEF ListState, Found, ItemsSound
  <2>2. shown \in Shown
    BY <2>1, Names
  <2>3. /\ lists' = [lists EXCEPT ![l] = v]
        /\ mapping' = [mapping EXCEPT ![shown] = x[2]]
        /\ stray' = (stray \/ lists[l].old) /\ lists[l].pc = "list"
        /\ UNCHANGED <<clients, known, calls>>
    BY <1>6 DEF Publish, PublishAs, session
  <2>4. ~lists[l].old => Shows(shown, x[1], alone)
    BY <1>1 DEF ListFits
  <2> HIDE DEF shown
  <2>5. /\ v.fetch = lists[l].fetch /\ v.multi = lists[l].multi /\ v.pc = lists[l].pc
        /\ v.items = lists[l].items \ {x} /\ v.old = lists[l].old
        /\ ~lists[l].old => v.out = lists[l].out \cup {<<shown, x[1]>>}
    BY <1>0 DEF ListState
  <2> HIDE DEF v
  <2>6. ~v.old => ListFits(v, alone)
    BY <1>1, <2>4, <2>5 DEF ListFits
  <2>7. ~stray' => \A s \in Shown :
          mapping'[s] # NoRoute => Shows(s, <<mapping'[s].target, mapping'[s].name>>, alone)
    BY <1>0, <1>1, <2>1, <2>2, <2>3, <2>4
  <2> QED BY <1>1, <2>3, <2>5, <2>6, <2>7, EpochOfList
<1> QED BY <1>2, <1>3, <1>4, <1>5, <1>6 DEF ListStep

\* The fallback finds the target of a prefixed name; a bare one it takes to its only
\* connection or to no target.
LEMMA ParseFits ==
  ASSUME Inv, NamesApart, NEW alone, Epoch(alone), NEW s, NEW i, Shows(s, i, alone)
  PROVE  /\ \A r \in Parsed(s) :
              \/ <<r.target, r.name>> = i
              \/ s = Display(i, FALSE) /\ r.target \notin Targets
         /\ Parsed(s) = {} => s = Display(i, FALSE)
<1>0. i \in Items /\ i = <<i[1], i[2]>> /\ i[1] \in clients /\ clients \subseteq Targets
  BY ItemPair DEF Shows, Inv
<1>1. CASE Several /\ s = Display(i, TRUE)
  <2>1. ParseResourceName(s)[1] = i[1] /\ ParseResourceName(s)[2] = i[2] /\ Len(s) # 1
    BY <1>0, <1>1, CutsBack
  <2>2. Parsed(s) = {Toward(i[1], i[2])}
    BY <1>1, <2>1 DEF Parsed, Several
  <2>3. \A r \in Parsed(s) : r.target = i[1] /\ r.name = i[2]
    BY <2>2 DEF Toward
  <2>4. \A r \in Parsed(s) : <<r.target, r.name>> = i
    BY <1>0, <2>3
  <2> QED BY <2>2, <2>4
<1>2. CASE Several /\ s = Display(i, FALSE)
  <2>1. s = i[2] /\ i[2] \in Seq(STRING) /\ i[2] # <<>>
    BY <1>0, <1>2, RoutingAssumption DEF Display
  <2>2. Len(s) \in Nat \ {0}
    BY <2>1, EmptySeq
  <2>3. ASSUME NEW r \in Parsed(s) PROVE r.target \notin Targets
    <3>1. Len(s) # 1
      BY <1>2, <2>3 DEF Parsed, Several
    <3>2. r = Toward(SubSeq(s, 1, 1), Tail(s))
      BY <1>2, <2>3, <3>1 DEF Parsed, ParseResourceName, Several
    <3>3. SubSeq(s, 1, 1) \notin Targets
      <4>0. \A n \in Nat \ {0} : n # 1 => n > 1
        OBVIOUS
      <4>1. Len(s) > 1
        BY ONLY <2>2, <3>1, <4>0, Zenon
      <4>2. Len(i[2]) > 1 => SubSeq(i[2], 1, 1) \notin Targets
        BY <1>0 DEF NamesApart
      <4> QED BY ONLY <2>1, <4>1, <4>2
    <3> QED BY <3>2, <3>3 DEF Toward
  <2> QED BY <1>2, <2>3
<1>3. CASE ~Several
  <2>1. i[1] = alone /\ s = i[2] /\ s = Display(i, FALSE)
    BY <1>3 DEF Shows, Display
  <2>2. clients = {alone}
    BY <1>0, <1>3, <2>1, HowMany DEF Epoch
  <2>3. Parsed(s) = {Toward(t, s) : t \in clients}
    BY <1>3 DEF Parsed, Several
  <2>4. \A r \in Parsed(s) : r.target = i[1] /\ r.name = i[2]
    <3>1. \A r \in Parsed(s) : r = Toward(alone, s)
      BY <2>2, <2>3
    <3>2. Toward(alone, s).target = alone /\ Toward(alone, s).name = s
      BY DEF Toward
    <3> QED BY ONLY <2>1, <3>1, <3>2
  <2>5. \A r \in Parsed(s) : <<r.target, r.name>> = i
    BY <1>0, <2>4
  <2>6. s = Display(i, FALSE)
    BY <2>1
  <2> QED BY ONLY <2>5, <2>6
<1> QED BY <1>1, <1>2, <1>3 DEF Shows

\* The call goes on with this route and item, and goes where it should.
MovesWell(call, route, item, pc) ==
  item # <<>> =>
    LET there == <<route.target, route.name>> = item
        bare  == call.shown = Display(item, FALSE)
    IN /\ item = call.item
       /\ pc \in {"identify", "check", "client"} => there \/ (bare /\ route.target \notin Targets)
       /\ pc = "sent" => there
       /\ pc = "unconnected" => bare
       /\ pc = "notfound" => bare \/ ~HasFallback

\* A call keeps what it was shown.
LEMMA EpochOfMove ==
  ASSUME Inv, NEW alone, Epoch(alone), NEW c \in Calls, NEW route, NEW item, NEW pc,
         calls' = [calls EXCEPT ![c] = [calls[c] EXCEPT !.route = route, !.item = item, !.pc = pc]],
         UNCHANGED <<session, routing, known, lists>>,
         MovesWell(calls[c], route, item, pc)
  PROVE  Epoch(alone)'
<1> DEFINE v == [calls[c] EXCEPT !.route = route, !.item = item, !.pc = pc]
<1>0. calls[c] \in CallState /\ (calls[c].item # <<>> => CallFits(calls[c], alone))
  BY DEF Inv, Epoch
<1>1. v.route = route /\ v.item = item /\ v.pc = pc /\ v.shown = calls[c].shown
  BY <1>0 DEF CallState
<1>2. calls' = [calls EXCEPT ![c] = v]
  OBVIOUS
<1> HIDE DEF v
<1>3. v.item # <<>> => CallFits(v, alone)
  BY <1>0, <1>1 DEF CallFits, MovesWell
<1> QED BY <1>2, <1>3, EpochOfCall

\* A call looks up or cuts the name it was shown: either way it finds that item.
LEMMA EpochCalls ==
  ASSUME Inv, NamesApart, NEW alone, Epoch(alone), NEW c \in Calls, CallStep(c)
  PROVE  Epoch(alone)'
<1>0. /\ calls[c] \in CallState /\ Checked(calls[c]) /\ clients \subseteq Targets
      /\ calls[c].item # <<>> => CallFits(calls[c], alone)
      /\ \A k \in known : Shows(k[1], k[2], alone)
  BY DEF Inv, Epoch
<1>1. CASE calls' = [calls EXCEPT ![c] = NoCall] /\ UNCHANGED <<session, routing, known, lists>>
  <2>1. NoCall.item = <<>>
    BY DEF NoCall
  <2> QED BY <1>1, <2>1, EpochOfCall
<1>2. ASSUME NEW s \in Shown, CallStart(c, s) PROVE Epoch(alone)'
  <2> DEFINE meant == {k[2] : k \in {y \in known : y[1] = s}}
  <2>1. PICK i \in IF meant = {} THEN {<<>>} ELSE meant :
          calls' = [calls EXCEPT ![c] = [NoCall EXCEPT !.pc = "lookup", !.shown = s, !.item = i]]
    BY <1>2 DEF CallStart
  <2>2. i # <<>> => Shows(s, i, alone)
    BY <1>0
  <2> HIDE DEF meant
  <2> DEFINE v == [NoCall EXCEPT !.pc = "lookup", !.shown = s, !.item = i]
  <2>3. v.pc = "lookup" /\ v.shown = s /\ v.item = i
    BY DEF NoCall
  <2>4. calls' = [calls EXCEPT ![c] = v]
    BY <2>1
  <2> HIDE DEF v
  <2>5. v.item # <<>> => CallFits(v, alone)
    BY <2>2, <2>3 DEF CallFits
  <2> QED BY <1>2, <2>4, <2>5, EpochOfCall DEF CallStart
<1>3. calls \in [Calls -> CallState]
  BY DEF Inv
<1>4. CASE Lookup(c)
  <2> DEFINE route == mapping[calls[c].shown]
             item == IF stray THEN <<>> ELSE calls[c].item
             pc == IF route # NoRoute THEN "check"
                   ELSE IF HasFallback THEN "parse" ELSE "notfound"
  <2>1. calls[c].shown \in Shown
    BY <1>0, <1>4 DEF Lookup, Checked
  <2>2. calls' = [calls EXCEPT ![c].route = route, ![c].item = item, ![c].pc = pc]
    BY <1>4, Zenon DEF Lookup
  <2>3. item # <<>> /\ route # NoRoute => <<route.target, route.name>> = item
    <3> SUFFICES ASSUME item # <<>>, route # NoRoute PROVE <<route.target, route.name>> = item
      OBVIOUS
    <3>1. ~stray /\ item = calls[c].item
      OBVIOUS
    <3>2. Shows(calls[c].shown, <<route.target, route.name>>, alone)
      BY <2>1, <3>1 DEF Epoch
    <3>3. Shows(calls[c].shown, item, alone)
      BY <1>0, <3>1 DEF CallFits
    <3> QED BY <3>2, <3>3, OneItemShown
  <2>4. /\ item # <<>> => item = calls[c].item
        /\ pc \in {"check", "parse", "notfound"}
        /\ pc = "check" => route # NoRoute
        /\ pc = "notfound" => ~HasFallback
    BY RoutingAssumption
  <2> HIDE DEF route, item, pc
  <2>5. calls' = [calls EXCEPT ![c] = [calls[c] EXCEPT !.route = route, !.item = item, !.pc = pc]]
    BY <1>3, <2>2
  <2>6. MovesWell(calls[c], route, item, pc)
    BY <2>3, <2>4 DEF MovesWell
  <2>7. UNCHANGED <<session, routing, known, lists>>
    BY <1>4 DEF Lookup
  <2> QED BY <2>5, <2>6, <2>7, EpochOfMove
<1>5. CASE Parse(c)
  <2>1. calls[c].pc = "parse" /\ UNCHANGED <<session, routing, known, lists>>
    BY <1>5 DEF Parse
  <2>2. calls[c].item # <<>> => Shows(calls[c].shown, calls[c].item, alone)
    BY <1>0 DEF CallFits
  <2>3. ASSUME NEW r \in Parsed(calls[c].shown),
               calls' = [calls EXCEPT ![c].route = r, ![c].pc = "identify"]
        PROVE  Epoch(alone)'
    <3>1. calls' = [calls EXCEPT ![c] = [calls[c] EXCEPT !.route = r, !.item = calls[c].item,
                                                         !.pc = "identify"]]
      BY <1>0, <1>3, <2>3 DEF CallState
    <3>2. MovesWell(calls[c], r, calls[c].item, "identify")
      BY <2>2, <2>3, ParseFits DEF MovesWell
    <3> QED BY <2>1, <3>1, <3>2, EpochOfMove
  <2>4. ASSUME Parsed(calls[c].shown) = {}, calls' = [calls EXCEPT ![c].pc = "notfound"]
        PROVE  Epoch(alone)'
    <3>1. calls' = [calls EXCEPT ![c] = [calls[c] EXCEPT !.route = calls[c].route,
                                           !.item = calls[c].item, !.pc = "notfound"]]
      BY <1>0, <1>3, <2>4 DEF CallState
    <3>2. MovesWell(calls[c], calls[c].route, calls[c].item, "notfound")
      BY <2>2, <2>4, ParseFits DEF MovesWell
    <3> QED BY <2>1, <3>1, <3>2, EpochOfMove
  <2> QED BY <1>5, <2>3, <2>4 DEF Parse
<1>9. CASE Identify(c)
  <2> DEFINE r == RouteTo(calls[c].route.target, calls[c].route.name)
  <2>1. calls[c].pc = "identify" /\ UNCHANGED <<session, routing, known, lists>>
    BY <1>9 DEF Identify
  <2>2. r.target = calls[c].route.target /\ r.name = calls[c].route.name
    BY DEF RouteTo
  <2>3. calls' = [calls EXCEPT ![c].route = r, ![c].pc = "check"]
    BY <1>9 DEF Identify
  <2> HIDE DEF r
  <2>4. calls' = [calls EXCEPT ![c] = [calls[c] EXCEPT !.route = r, !.item = calls[c].item,
                                                       !.pc = "check"]]
    BY <1>0, <1>3, <2>3 DEF CallState
  <2>5. MovesWell(calls[c], r, calls[c].item, "check")
    BY <1>0, <2>1, <2>2 DEF CallFits, MovesWell
  <2> QED BY <2>1, <2>4, <2>5, EpochOfMove
<1>6. CASE Check(c)
  <2>1. calls[c].pc = "check" /\ UNCHANGED <<session, routing, known, lists>>
    BY <1>6 DEF Check
  <2>2. CASE calls' = [calls EXCEPT ![c].pc = "client"]
    <3>1. calls' = [calls EXCEPT ![c] = [calls[c] EXCEPT !.route = calls[c].route,
                                           !.item = calls[c].item, !.pc = "client"]]
      BY <1>0, <1>3, <2>2 DEF CallState
    <3>2. MovesWell(calls[c], calls[c].route, calls[c].item, "client")
      BY <1>0, <2>1 DEF CallFits, MovesWell
    <3> QED BY <2>1, <3>1, <3>2, EpochOfMove
  <2> QED BY <1>1, <1>6, <2>2 DEF Check
<1>7. CASE Send(c)
  <2> DEFINE pc == IF calls[c].route.target \in clients THEN "sent" ELSE "unconnected"
  <2>1. /\ calls[c].pc = "client" /\ UNCHANGED <<session, routing, known, lists>>
        /\ calls' = [calls EXCEPT ![c].pc = pc]
    BY <1>7 DEF Send
  <2>2. pc \in {"sent", "unconnected"} /\ (pc = "sent" <=> calls[c].route.target \in clients)
    OBVIOUS
  <2> HIDE DEF pc
  <2>3. calls' = [calls EXCEPT ![c] = [calls[c] EXCEPT !.route = calls[c].route,
                                         !.item = calls[c].item, !.pc = pc]]
    BY <1>0, <1>3, <2>1 DEF CallState
  <2>4. calls[c].item # <<>> => calls[c].item[1] \in clients
    BY <1>0 DEF CallFits, Shows
  <2>5. MovesWell(calls[c], calls[c].route, calls[c].item, pc)
    <3> SUFFICES ASSUME calls[c].item # <<>>
                 PROVE  MovesWell(calls[c], calls[c].route, calls[c].item, pc)
      BY DEF MovesWell
    <3> DEFINE there == <<calls[c].route.target, calls[c].route.name>> = calls[c].item
    <3>1. there \/ (calls[c].shown = Display(calls[c].item, FALSE)
                    /\ calls[c].route.target \notin Targets)
      BY <1>0, <2>1 DEF CallFits
    <3>2. there => calls[c].route.target \in clients
      BY <2>4
    <3>3. pc = "sent" => there
      BY <1>0, <2>2, <3>1
    <3>4. pc = "unconnected" => calls[c].shown = Display(calls[c].item, FALSE)
      BY <2>2, <3>1, <3>2
    <3> QED BY <2>2, <3>3, <3>4 DEF MovesWell
  <2> QED BY <2>1, <2>3, <2>5, EpochOfMove
<1>8. CASE CallEnd(c)
  BY <1>1, <1>8 DEF CallEnd
<1> QED BY <1>2, <1>4, <1>5, <1>6, <1>7, <1>8, <1>9 DEF CallStep

\* Every step keeps the epoch.
LEMMA EpochStep ==
  ASSUME NamesApart, Inv, Sound, EpochInv, [Next]_vars
  PROVE  EpochInv'
<1> PICK alone \in Targets \cup {NoId} : Epoch(alone)
  BY DEF EpochInv
<1>1. ASSUME NEW t \in Targets, SetClient(t) PROVE EpochInv'
  BY <1>1, EpochJoin
<1>2. CASE Recycle
  BY <1>2, EpochRecycle
<1>3. CASE (\E t \in Targets : SetTargetID(t)) \/ UNCHANGED vars
  <2>1. UNCHANGED <<clients, mapping, stray, known, lists, calls>>
    BY <1>3 DEF SetTargetID, routing, vars
  <2>2. Epoch(alone)'
    BY <2>1 DEF Epoch, ListFits, CallFits, Shows, Several
  <2> QED BY <2>2 DEF EpochInv
<1>4. ASSUME NEW l \in Lists, ListStep(l) PROVE EpochInv'
  BY <1>4, EpochLists DEF EpochInv, Sound
<1>5. ASSUME NEW c \in Calls, CallStep(c) PROVE EpochInv'
  BY <1>5, EpochCalls DEF EpochInv
<1> QED BY <1>1, <1>2, <1>3, <1>4, <1>5 DEF Next

\* With names apart it holds in every state.
LEMMA EpochAlways == ASSUME NamesApart PROVE Spec => []EpochInv
<1>1. Inv /\ Sound /\ EpochInv /\ [Next]_vars => EpochInv'
  BY EpochStep
<1> QED BY <1>1, EpochInit, Inductive, SoundAlways, PTL DEF Spec

\* With names apart, a call of something the client was shown reaches just that
\* (proxy.go:278, CallTool): through the mapping or the fallback, whatever lists empty
\* and fill the mapping meanwhile, for any number of targets that join.
THEOREM CallsReachListed == ASSUME NamesApart PROVE Spec => []CallReachesListed
<1>1. EpochInv => CallReachesListed
  BY DEF EpochInv, Epoch, CallFits, CallReachesListed
<1> QED BY <1>1, EpochAlways, PTL

\* And a prefixed name is never unknown while another list has emptied the mapping: the
\* fallback of tools finds a connected target (proxy.go:290, CallTool).
THEOREM PrefixedAlwaysRouted ==
  ASSUME NamesApart, HasFallback PROVE Spec => []PrefixedRouted
<1>1. ASSUME NEW c \in Calls, EpochInv, calls[c].item # <<>>,
             calls[c].shown = Display(calls[c].item, TRUE)
      PROVE  calls[c].pc \notin {"notfound", "unconnected"}
  <2>1. PICK alone \in Targets \cup {NoId} : CallFits(calls[c], alone)
    BY <1>1 DEF EpochInv, Epoch
  <2>2. calls[c].item \in Items
    BY <2>1 DEF CallFits, Shows
  <2>3. Display(calls[c].item, TRUE) # Display(calls[c].item, FALSE)
    BY <2>2, NeverBoth
  <2> QED BY <1>1, <2>1, <2>3 DEF CallFits
<1>2. EpochInv => PrefixedRouted
  BY <1>1 DEF PrefixedRouted
<1> QED BY <1>2, EpochAlways, PTL
=============================================================================
