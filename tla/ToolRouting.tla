------------------------------ MODULE ToolRouting ------------------------------
(***************************************************************************)
(* What a session's list and call requests do to its mapping from the      *)
(* names shown to the client to targets and their own names (proxy.go:     *)
(* ListTools, CallTool; session.go: the mapping).  ListResources and       *)
(* ListPrompts, ReadResource and GetPrompt are the same code on mappings   *)
(* of their own, without CallTool's fallback.                              *)
(*                                                                         *)
(* A name is the sequence of its parts between underscores: target g and   *)
(* tool list_repos are <<"g">> and <<"list", "repos">>.                    *)
(***************************************************************************)
EXTENDS Integers, Sequences, FiniteSets

CONSTANTS
  Targets,      \* names of the targets the user may use
  Offers,       \* the names of what each target offers
  Allowed,      \* <<target, name>> pairs the policies allow
  Anywhere,     \* names the policies without a target allow by themselves
  Lists,        \* list requests, one goroutine each
  Calls,        \* goroutines of call requests, which change nothing but themselves
  HasFallback,  \* TRUE for tools, FALSE for resources and prompts
  MaxRecycles   \* bound

Items == {i \in Targets \X UNION {Offers[t] : t \in Targets} : i[2] \in Offers[i[1]]}

ASSUME RoutingAssumption ==
  /\ \A t \in Targets : t \in Seq(STRING) /\ t # <<>>
  /\ \A i \in Items : i[2] \in Seq(STRING) /\ i[2] # <<>>
  /\ HasFallback \in BOOLEAN
  /\ MaxRecycles \in Nat

Display(i, multi) == IF multi THEN i[1] \o i[2] ELSE i[2]
Shown == {Display(i, multi) : i \in Items, multi \in BOOLEAN}

VARIABLES
  clients,    \* connected targets
  connecting, \* targets between SetClient and SetTargetID
  ids,        \* targets whose id the session knows
  mapping,    \* toolMap: the route of each shown name
  stray,      \* ghost: a list from before a recycle wrote the mapping
  known,      \* ghost: <<shown name, item>> pairs of the client's last list
  recycles,   \* bound counter
  lists,      \* [pc, multi, fetch, items, out, old] of each list request
  calls       \* [pc, shown, item, route] of each call request; item is a ghost

vars == <<clients, connecting, ids, mapping, stray, known, recycles, lists, calls>>
session == <<clients, connecting, ids, recycles>>
routing == <<mapping, stray>>

NoId    == <<>>
NoRoute == [target |-> <<>>, id |-> NoId, name |-> <<>>]
NoList  == [pc |-> "idle", multi |-> FALSE, fetch |-> {}, items |-> {}, out |-> {}, old |-> FALSE]
NoCall  == [pc |-> "idle", shown |-> <<>>, item |-> <<>>, route |-> NoRoute]

\* GetTargetID: the zero id for a target it does not know.
TargetID(t) == IF t \in ids THEN t ELSE NoId
RouteTo(t, name) == [target |-> t, id |-> TargetID(t), name |-> name]
Toward(t, name)  == [target |-> t, id |-> NoId, name |-> name]

\* CanAccess: only policies without a target concern the zero id.
CanAccess(id, name) == IF id = NoId THEN name \in Anywhere ELSE <<id, name>> \in Allowed

Init ==
  /\ clients = {} /\ connecting = {} /\ ids = {}
  /\ mapping = [s \in Shown |-> NoRoute]
  /\ stray = FALSE /\ known = {} /\ recycles = 0
  /\ lists = [l \in Lists |-> NoList]
  /\ calls = [c \in Calls |-> NoCall]

-----------------------------------------------------------------------------
(* The session: requests do not wait for InitializeSession to end *)

\* A later initialize that replaces the client of a target leaves the target connected.
SetClient(t) ==
  /\ t \notin clients /\ t \notin connecting
  /\ clients' = clients \cup {t} /\ connecting' = connecting \cup {t}
  /\ UNCHANGED <<ids, routing, known, recycles, lists, calls>>

SetTargetID(t) ==
  /\ t \in connecting
  /\ connecting' = connecting \ {t} /\ ids' = ids \cup {t}
  /\ UNCHANGED <<clients, routing, known, recycles, lists, calls>>

\* The client starts over; requests under way go on.  Ghosts: what lists were
\* to answer, and what calls were shown, is void.
Recycle ==
  /\ recycles < MaxRecycles /\ recycles' = recycles + 1
  /\ clients' = {} /\ ids' = {} /\ known' = {}
  /\ mapping' = [s \in Shown |-> NoRoute] /\ stray' = FALSE
  /\ lists' = [l \in Lists |-> [lists[l] EXCEPT !.old = lists[l].pc \notin {"idle", "done"}, !.out = {}]]
  /\ calls' = [c \in Calls |-> [calls[c] EXCEPT !.item = <<>>]]
  /\ UNCHANGED connecting

-----------------------------------------------------------------------------
(* Lists *)

ListStart(l) ==
  /\ lists[l].pc = "idle" /\ clients # {}
  /\ lists' = [lists EXCEPT ![l] = [NoList EXCEPT !.pc = "clear", !.fetch = clients,
                                      !.multi = Cardinality(clients) > 1]]
  /\ UNCHANGED <<session, routing, known, calls>>

Clear(l) ==
  /\ lists[l].pc = "clear"
  /\ mapping' = [s \in Shown |-> NoRoute] /\ stray' = FALSE
  /\ lists' = [lists EXCEPT ![l].pc = "list"]
  /\ UNCHANGED <<session, known, calls>>

\* A target answers, or fails and is left out; a check that fails leaves an
\* item out too.  One target's items are handled under the list's lock.
Fetch(l, t) ==
  LET visible == {i \in Items : i[1] = t /\ CanAccess(TargetID(t), i[2])} IN
  /\ lists[l].pc = "list" /\ t \in lists[l].fetch /\ lists[l].items = {}
  /\ \E got \in SUBSET visible :
       lists' = [lists EXCEPT ![l].fetch = lists[l].fetch \ {t},
                              ![l].items = {<<i, RouteTo(t, i[2])>> : i \in got}]
  /\ UNCHANGED <<session, routing, known, calls>>

\* Item x = <<item, route>> enters the mapping and the answer.
PublishAs(l, x, key, shown, route) ==
  /\ lists[l].pc = "list" /\ x \in lists[l].items
  /\ mapping' = [mapping EXCEPT ![key] = route]
  /\ stray' = (stray \/ lists[l].old)
  /\ lists' = [lists EXCEPT ![l].items = lists[l].items \ {x},
                            ![l].out = IF lists[l].old THEN {}
                                       ELSE lists[l].out \cup {<<shown, x[1]>>}]
  /\ UNCHANGED <<session, known, calls>>

\* Mutant: names are prefixed in the answer only.
Publish_Bare(l, x) ==
  PublishAs(l, x, x[1][2], Display(x[1], lists[l].multi), x[2])

\* Mutant: the target is to be called by the shown name.
Publish_Unstripped(l, x) ==
  LET shown == Display(x[1], lists[l].multi) IN
  PublishAs(l, x, shown, shown, [x[2] EXCEPT !.name = shown])

\* SetToolMapping: the last writer of a shown name has it.
Publish(l, x) ==
  LET shown == Display(x[1], lists[l].multi) IN
  PublishAs(l, x, shown, shown, x[2])

\* The answer ends the request; a client told to start over ignores answers from before.
Reply(l) ==
  /\ lists[l].pc = "list" /\ lists[l].fetch = {} /\ lists[l].items = {}
  /\ known' = IF lists[l].old THEN known ELSE lists[l].out
  /\ lists' = [lists EXCEPT ![l] = [NoList EXCEPT !.pc = "done"]]
  /\ UNCHANGED <<session, routing, calls>>

-----------------------------------------------------------------------------
(* Calls *)

\* A client may call by any name; item says what it was shown under it.
CallStart(c, shown) ==
  LET meant == {k[2] : k \in {x \in known : x[1] = shown}} IN
  /\ calls[c].pc = "idle"
  /\ \E i \in IF meant = {} THEN {<<>>} ELSE meant :
       calls' = [calls EXCEPT ![c] = [NoCall EXCEPT !.pc = "lookup", !.shown = shown, !.item = i]]
  /\ UNCHANGED <<session, routing, known, lists>>

Lookup(c) ==
  LET route == mapping[calls[c].shown] IN
  /\ calls[c].pc = "lookup"
  /\ calls' = [calls EXCEPT ![c].route = route,
                            ![c].item = IF stray THEN <<>> ELSE calls[c].item,
                            ![c].pc = IF route # NoRoute THEN "check"
                                     ELSE IF HasFallback THEN "parse" ELSE "notfound"]
  /\ UNCHANGED <<session, routing, known, lists>>

\* Split at the first underscore.
ParseResourceName(name) == <<SubSeq(name, 1, 1), Tail(name)>>

\* Mutant: only a single target is fallen back to.
Parsed_Single(name) == {Toward(t, name) : t \in {u \in clients : clients = {u}}}

\* The fallback goes by the clients there are now.
Parsed(name) ==
  IF Cardinality(clients) > 1
  THEN IF Len(name) = 1 THEN {}
       ELSE {Toward(ParseResourceName(name)[1], ParseResourceName(name)[2])}
  ELSE {Toward(t, name) : t \in clients}

Parse(c) ==
  LET routes == Parsed(calls[c].shown) IN
  /\ calls[c].pc = "parse"
  /\ \/ \E r \in routes :
          calls' = [calls EXCEPT ![c].route = r, ![c].pc = "identify"]
     \/ routes = {} /\ calls' = [calls EXCEPT ![c].pc = "notfound"]
  /\ UNCHANGED <<session, routing, known, lists>>

\* The id is read under the session's lock again, after the clients.
Identify(c) ==
  LET r == calls[c].route IN
  /\ calls[c].pc = "identify"
  /\ calls' = [calls EXCEPT ![c].route = RouteTo(r.target, r.name), ![c].pc = "check"]
  /\ UNCHANGED <<session, routing, known, lists>>

\* Mutant: the listing is trusted to have checked.
Check_Skipped(c) ==
  /\ calls[c].pc = "check"
  /\ calls' = [calls EXCEPT ![c].pc = "client"]
  /\ UNCHANGED <<session, routing, known, lists>>

\* The authorization is checked again, and may fail.
Check(c) ==
  LET r == calls[c].route IN
  /\ calls[c].pc = "check"
  /\ \/ CanAccess(r.id, r.name) /\ calls' = [calls EXCEPT ![c].pc = "client"]
     \/ calls' = [calls EXCEPT ![c] = NoCall]
  /\ UNCHANGED <<session, routing, known, lists>>

Send(c) ==
  /\ calls[c].pc = "client"
  /\ calls' = [calls EXCEPT ![c].pc =
                 IF calls[c].route.target \in clients THEN "sent" ELSE "unconnected"]
  /\ UNCHANGED <<session, routing, known, lists>>

CallEnd(c) ==
  /\ calls[c].pc \in {"sent", "unconnected", "notfound"}
  /\ calls' = [calls EXCEPT ![c] = NoCall]
  /\ UNCHANGED <<session, routing, known, lists>>

-----------------------------------------------------------------------------
ListStep(l) ==
  \/ ListStart(l) \/ Clear(l) \/ Reply(l)
  \/ \E t \in Targets : Fetch(l, t)
  \/ \E x \in lists[l].items : Publish(l, x)

CallStep(c) ==
  \/ \E s \in Shown : CallStart(c, s)
  \/ Lookup(c) \/ Parse(c) \/ Identify(c) \/ Check(c) \/ Send(c) \/ CallEnd(c)

Next ==
  \/ Recycle \/ \E t \in Targets : SetClient(t) \/ SetTargetID(t)
  \/ \E l \in Lists : ListStep(l)
  \/ \E c \in Calls : CallStep(c)

Spec == Init /\ [][Next]_vars

-----------------------------------------------------------------------------
(* Properties *)

Routes == [target : Targets, id : Targets \cup {NoId}, name : {i[2] : i \in Items}]

\* Types; a mapping leads to an item, by its own name, from a name that was
\* shown for that item (proxy.go:257, ListTools).
TypeOK ==
  /\ clients \in SUBSET Targets /\ connecting \in SUBSET Targets /\ ids \in SUBSET Targets
  /\ mapping \in [Shown -> Routes \cup {NoRoute}]
  /\ \A s \in Shown : LET r == mapping[s] IN
       r # NoRoute => /\ <<r.target, r.name>> \in Items
                      /\ r.id \in {r.target, NoId}
                      /\ \E multi \in BOOLEAN : s = Display(<<r.target, r.name>>, multi)
  /\ known \in SUBSET (Shown \X Items)
  /\ recycles \in 0..MaxRecycles /\ stray \in BOOLEAN
  /\ \A l \in Lists :
       /\ lists[l].pc \in {"idle", "clear", "list", "done"}
       /\ lists[l].multi \in BOOLEAN /\ lists[l].old \in BOOLEAN
       /\ lists[l].fetch \in SUBSET Targets /\ lists[l].items \in SUBSET (Items \X Routes)
       /\ lists[l].out \in SUBSET (Shown \X Items)
  /\ \A c \in Calls :
       /\ calls[c].pc \in {"idle", "lookup", "parse", "identify", "check", "client",
                           "sent", "unconnected", "notfound"}
       /\ calls[c].shown \in Shown \cup {<<>>} /\ calls[c].item \in Items \cup {<<>>}

\* A call of something the client was shown reaches what it was shown, however
\* lists, calls and connections interleave (proxy.go:278, CallTool), unless the
\* session was recycled meanwhile or a list from before wrote its mapping, and
\* provided that no two shown names are equal and no target's name has an
\* underscore, as in every instance (ToolRouting_Proofs: NamesApart).
CallReachesListed ==
  \A c \in Calls : calls[c].item # <<>> /\ calls[c].pc = "sent" =>
    <<calls[c].route.target, calls[c].route.name>> = calls[c].item

\* A call by a prefixed name is routed even while another list has emptied the
\* mapping: the fallback finds the target (proxy.go:290, CallTool), provided that
\* its name has no underscore: the cut is at the first one (proxy.go:679).
PrefixedRouted ==
  \A c \in Calls :
    calls[c].item # <<>> /\ calls[c].shown = Display(calls[c].item, TRUE) =>
      calls[c].pc \notin {"notfound", "unconnected"}

\* Nothing is sent to a target that the policies do not allow there
\* (proxy.go:325, CallTool).
SentIsAllowed ==
  \A c \in Calls : calls[c].pc = "sent" =>
    <<calls[c].route.target, calls[c].route.name>> \in Allowed
=============================================================================
