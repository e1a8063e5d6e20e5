------------------------------- MODULE Authorizer -------------------------------
(***************************************************************************)
(* Access decisions (gateway/authorizer.go) beside the administration of   *)
(* policies (api/policy_handlers.go, database/repository.go).  A request   *)
(* takes the policies of its target from the cache, or queries them - the  *)
(* rows first, then each policy's subjects, a query each - and caches what *)
(* it got; the first policy of the list that matches decides.              *)
(*                                                                         *)
(* A subject is the set of users it matches (role, group, user, everyone), *)
(* a resource pattern the set of names it matches.                         *)
(***************************************************************************)
EXTENDS Integers, Sequences, FiniteSets

CONSTANTS
  Policies,   \* policy ids
  Rows,       \* what a policy's row can hold
  Subjects,   \* sets of users
  Users, Targets, Names,
  Types,      \* kinds of resources: tool, resource, prompt
  AnyTarget,  \* target_id IS NULL
  NoName,     \* resourceName "": a question about the target itself
  NoRow, Gone,\* a policy not created yet; one deleted
  NoEntry,    \* nothing cached
  Reqs,
  Changes,    \* bound on changes of policies
  MayCut      \* whether a result set may break off half way

RowType == [effect : {"allow", "deny"}, priority : Int, type : Types \cup {"all"},
            target : Targets \cup {AnyTarget}, names : SUBSET Names, enabled : BOOLEAN]

ASSUME AuthorizerAssumption ==
  /\ Rows \subseteq RowType /\ NoRow \notin Rows /\ Gone \notin Rows
  /\ Subjects \subseteq SUBSET Users /\ NoName \notin Names /\ "all" \notin Types
  /\ Changes \in Nat /\ MayCut \in BOOLEAN /\ IsFiniteSet(Policies)

VARIABLES
  rows,      \* authorization_policies
  subjects,  \* policy_subjects, per policy
  pending,   \* subjects a CreatePolicy still has to insert, per policy
  cache,     \* policyCache, per target
  clean,     \* ghost: targets whose entry is all the policies, unchanged since
  ask,       \* per request: question and progress
  changes    \* changes of policies so far

vars == <<rows, subjects, pending, cache, clean, ask, changes>>

Entry(p) == [id |-> p, row |-> rows[p], subjects |-> {}]

\* The question "may user use the resource of target"; CanAccessTarget asks
\* with type "all" and no name.
Questions == [user : Users, target : Targets, type : Types, name : Names]
        \cup [user : Users, target : Targets, type : {"all"}, name : {NoName}]

Idle == [pc |-> "idle"]

Init ==
  /\ rows \in [Policies -> Rows \cup {NoRow}]
  /\ subjects \in [Policies -> SUBSET Subjects]
  /\ \A p \in Policies : rows[p] = NoRow => subjects[p] = {}
  /\ pending = [p \in Policies |-> {}]
  /\ cache = [t \in Targets |-> NoEntry] /\ clean = {}
  /\ ask = [r \in Reqs |-> Idle]
  /\ changes = 0

-----------------------------------------------------------------------------
(* Administration.  No write reaches the cache: nothing calls              *)
(* InvalidateCache.                                                        *)

\* Ghosts: no list read so far is known to be current, and p is no longer
\* the policy that requests under way met.
Touch(p) ==
  /\ clean' = {}
  /\ ask' = [r \in Reqs |-> IF ask[r].pc = "idle" THEN Idle
               ELSE [ask[r] EXCEPT !.current = FALSE, !.denies = @ \ {p}]]

Count == changes < Changes /\ changes' = changes + 1

CreatePolicy(p, row, S) ==
  /\ rows[p] = NoRow
  /\ rows' = [rows EXCEPT ![p] = row]
  /\ pending' = [pending EXCEPT ![p] = S]
  /\ Touch(p) /\ Count
  /\ UNCHANGED <<subjects, cache>>

\* The subjects follow one by one, outside any transaction.
CreateSubject(p, s) ==
  /\ s \in pending[p] /\ rows[p] \in Rows
  /\ pending' = [pending EXCEPT ![p] = @ \ {s}]
  /\ subjects' = [subjects EXCEPT ![p] = @ \cup {s}]
  /\ Touch(p)
  /\ UNCHANGED <<rows, cache, changes>>

\* The request fails, the row stays with the subjects it has.
CreateFails(p) ==
  /\ pending[p] # {}
  /\ pending' = [pending EXCEPT ![p] = {}]
  /\ UNCHANGED <<rows, subjects, cache, clean, ask, changes>>

\* UpdatePolicy reads the row, changes any fields and writes all of it: any
\* row may be written over one that others changed meanwhile.
UpdatePolicy(p, row) ==
  /\ rows[p] \in Rows
  /\ rows' = [rows EXCEPT ![p] = row]
  /\ Touch(p) /\ Count
  /\ UNCHANGED <<subjects, pending, cache>>

\* The subjects go with the row (ON DELETE CASCADE).
DeletePolicy(p) ==
  /\ rows[p] \in Rows
  /\ rows' = [rows EXCEPT ![p] = Gone]
  /\ subjects' = [subjects EXCEPT ![p] = {}]
  /\ Touch(p) /\ Count
  /\ UNCHANGED <<pending, cache>>

ChangeSubjects(p, s) ==
  /\ rows[p] \in Rows
  /\ \/ s \notin subjects[p] /\ subjects' = [subjects EXCEPT ![p] = @ \cup {s}]
     \/ s \in subjects[p] /\ subjects' = [subjects EXCEPT ![p] = @ \ {s}]
  /\ Touch(p) /\ Count
  /\ UNCHANGED <<rows, pending, cache>>

-----------------------------------------------------------------------------
(* Matching *)

\* An empty name meets every pattern.
Matches(row, S, q) ==
  /\ \E s \in S : q.user \in s
  /\ row.type \in {"all", q.type}
  /\ q.name = NoName \/ q.name \in row.names

\* Mutant: any allowing policy will do.
Allows_Any(list, q) ==
  \E n \in DOMAIN list :
    Matches(list[n].row, list[n].subjects, q) /\ list[n].row.effect = "allow"

\* The first match decides; none denies.
Allows(list, q) ==
  \E n \in DOMAIN list :
    /\ Matches(list[n].row, list[n].subjects, q) /\ list[n].row.effect = "allow"
    /\ \A k \in 1 .. n - 1 : ~Matches(list[k].row, list[k].subjects, q)

Selected(t) == {p \in Policies : /\ rows[p] \in Rows /\ rows[p].enabled
                                 /\ rows[p].target \in {t, AnyTarget}}

-----------------------------------------------------------------------------
(* Requests *)

Arrive(r, q) ==
  /\ ask[r].pc = "idle"
  /\ ask' = [ask EXCEPT ![r] =
       [pc |-> "lookup", q |-> q, list |-> <<>>, next |-> 1, current |-> FALSE,
        denies |-> {p \in Selected(q.target) :
                      rows[p].effect = "deny" /\ Matches(rows[p], subjects[p], q)}]]
  /\ UNCHANGED <<rows, subjects, pending, cache, clean, changes>>

Hit(r) ==
  /\ ask[r].pc = "lookup" /\ cache[ask[r].q.target] # NoEntry
  /\ ask' = [ask EXCEPT ![r] = [@ EXCEPT !.pc = "decide", !.list = cache[ask[r].q.target]]]
  /\ UNCHANGED <<rows, subjects, pending, cache, clean, changes>>

\* The selected rows by descending priority, ties in any order; a result
\* that breaks off ends the loop like a complete one (rows.Err is not read).
Ordering(S, ids) ==
  /\ \A i, j \in DOMAIN ids : i < j => /\ ids[i] # ids[j]
                                       /\ rows[ids[i]].priority >= rows[ids[j]].priority
  /\ \A p \in S : (\A i \in DOMAIN ids : ids[i] # p) =>
       MayCut /\ \A i \in DOMAIN ids : rows[ids[i]].priority >= rows[p].priority

Query(r) ==
  LET S == Selected(ask[r].q.target) IN
  /\ ask[r].pc = "lookup" /\ cache[ask[r].q.target] = NoEntry
  /\ \E n \in 0 .. Cardinality(S) : \E ids \in [1 .. n -> S] :
       /\ Ordering(S, ids)
       /\ ask' = [ask EXCEPT ![r] = [@ EXCEPT !.pc = "subjects", !.next = 1,
            !.list = [i \in 1 .. n |-> Entry(ids[i])],
            !.current = \A p \in S : \E i \in 1 .. n : ids[i] = p]]
  /\ UNCHANGED <<rows, subjects, pending, cache, clean, changes>>

WithSubjects(list, n, S) == [list EXCEPT ![n] = [@ EXCEPT !.subjects = S]]

QuerySubjects(r) ==
  LET n == ask[r].next IN
  /\ ask[r].pc = "subjects" /\ n \in DOMAIN ask[r].list
  /\ \E S \in SUBSET subjects[ask[r].list[n].id] :
       /\ MayCut \/ S = subjects[ask[r].list[n].id]
       /\ ask' = [ask EXCEPT ![r] = [@ EXCEPT !.next = n + 1,
            !.list = WithSubjects(ask[r].list, n, S),
            !.current = ask[r].current /\ S = subjects[ask[r].list[n].id]]]
  /\ UNCHANGED <<rows, subjects, pending, cache, clean, changes>>

\* An error on the way: access is denied, nothing cached.
QueryFails(r) ==
  /\ ask[r].pc \in {"lookup", "subjects"}
  /\ ask[r].pc = "lookup" => cache[ask[r].q.target] = NoEntry
  /\ ask' = [ask EXCEPT ![r] = Idle]
  /\ UNCHANGED <<rows, subjects, pending, cache, clean, changes>>

\* Mutant: cached before the subjects are there.
Store_Early(r) ==
  LET t == ask[r].q.target IN
  /\ ask[r].pc = "subjects"
  /\ cache' = [cache EXCEPT ![t] = ask[r].list]
  /\ clean' = IF ask[r].current THEN clean \cup {t} ELSE clean \ {t}
  /\ ask' = [ask EXCEPT ![r].pc = "decide"]
  /\ UNCHANGED <<rows, subjects, pending, changes>>

\* The last load to end is the one kept.
Store(r) ==
  LET t == ask[r].q.target IN
  /\ ask[r].pc = "subjects" /\ ask[r].next \notin DOMAIN ask[r].list
  /\ cache' = [cache EXCEPT ![t] = ask[r].list]
  /\ clean' = IF ask[r].current THEN clean \cup {t} ELSE clean \ {t}
  /\ ask' = [ask EXCEPT ![r].pc = "decide"]
  /\ UNCHANGED <<rows, subjects, pending, changes>>

Decide(r) ==
  /\ ask[r].pc = "decide"
  /\ ask' = [ask EXCEPT ![r] =
       IF Allows(ask[r].list, ask[r].q) THEN [@ EXCEPT !.pc = "allowed"] ELSE Idle]
  /\ UNCHANGED <<rows, subjects, pending, cache, clean, changes>>

Proceed(r) ==
  /\ ask[r].pc = "allowed"
  /\ ask' = [ask EXCEPT ![r] = Idle]
  /\ UNCHANGED <<rows, subjects, pending, cache, clean, changes>>

\* A restart of the gateway: handlers and cache are gone, the tables stay.
Restart ==
  /\ cache' = [t \in Targets |-> NoEntry] /\ clean' = {}
  /\ ask' = [r \in Reqs |-> Idle]
  /\ pending' = [p \in Policies |-> {}]
  /\ UNCHANGED <<rows, subjects, changes>>

-----------------------------------------------------------------------------
Admin ==
  \E p \in Policies :
    \/ \E row \in Rows : UpdatePolicy(p, row) \/ \E S \in SUBSET Subjects : CreatePolicy(p, row, S)
    \/ \E s \in Subjects : CreateSubject(p, s) \/ ChangeSubjects(p, s)
    \/ CreateFails(p) \/ DeletePolicy(p)

Request(r) ==
  \/ \E q \in Questions : Arrive(r, q)
  \/ Hit(r) \/ Query(r) \/ QuerySubjects(r) \/ QueryFails(r) \/ Store(r)
  \/ Decide(r) \/ Proceed(r)

Next == Admin \/ Restart \/ \E r \in Reqs : Request(r)

Spec == Init /\ [][Next]_vars

-----------------------------------------------------------------------------
(* Properties *)

EntryType == [id : Policies, row : Rows, subjects : SUBSET Subjects]

AskType == [pc : {"lookup", "subjects", "decide", "allowed"}, q : Questions, list : Seq(EntryType),
            next : Nat, current : BOOLEAN, denies : SUBSET Policies]

\* Types of the variables, and no subjects without a policy (CASCADE).
TypeOK ==
  /\ rows \in [Policies -> Rows \cup {NoRow, Gone}]
  /\ subjects \in [Policies -> SUBSET Subjects] /\ pending \in [Policies -> SUBSET Subjects]
  /\ \A p \in Policies : rows[p] \notin Rows => subjects[p] = {}
  /\ \A t \in Targets : cache[t] = NoEntry \/ cache[t] \in Seq(EntryType)
  /\ DOMAIN cache = Targets /\ clean \subseteq Targets
  /\ \A r \in Reqs : ask[r] = Idle \/ ask[r] \in AskType
  /\ DOMAIN ask = Reqs /\ changes \in 0 .. Changes

\* What the tables say: an allowing policy no denying one reaches up to.
Permitted(q) ==
  \E p \in Selected(q.target) :
    /\ Matches(rows[p], subjects[p], q) /\ rows[p].effect = "allow"
    /\ \A d \in Selected(q.target) :
         Matches(rows[d], subjects[d], q) /\ rows[d].effect = "deny" =>
           rows[d].priority < rows[p].priority

Untied(q) ==
  \A p, d \in Selected(q.target) :
    /\ Matches(rows[p], subjects[p], q) /\ rows[p].effect = "allow"
    /\ Matches(rows[d], subjects[d], q) /\ rows[d].effect = "deny"
    => rows[p].priority # rows[d].priority

\* An entry loaded whole, with no change since, answers every question as
\* the tables do, ties apart.
CleanCacheExact ==
  \A t \in clean : \A q \in {x \in Questions : x.target = t} :
    Untied(q) => (Allows(cache[t], q) <=> Permitted(q))

\* A list, cached or at work, is in order, has no policy twice and none of
\* another target.
GoodList(list, t) ==
  /\ \A i, j \in DOMAIN list : i < j => /\ list[i].id # list[j].id
                                        /\ list[i].row.priority >= list[j].row.priority
  /\ \A i \in DOMAIN list : list[i].row.enabled /\ list[i].row.target \in {t, AnyTarget}

ListsOrdered ==
  /\ \A t \in Targets : cache[t] # NoEntry => GoodList(cache[t], t)
  /\ \A r \in Reqs : ask[r].pc # "idle" => GoodList(ask[r].list, ask[r].q.target)

\* Whoever goes ahead has an allowing policy that every matching denial of
\* the list it was decided on is outranked by, or tied with.
DenialsOutranked ==
  \A r \in Reqs : ask[r].pc = "allowed" =>
    LET list == ask[r].list
        M    == {i \in DOMAIN list : Matches(list[i].row, list[i].subjects, ask[r].q)}
    IN \E i \in M : /\ list[i].row.effect = "allow"
                    /\ \A d \in M : list[d].row.effect = "deny" =>
                         list[d].row.priority <= list[i].row.priority

\* The same against the tables: a denial there since the request came
\* ("deny rules with higher priority override allow rules").
DenyOverrides ==
  \A r \in Reqs : ask[r].pc = "allowed" =>
    \A d \in ask[r].denies : \E i \in DOMAIN ask[r].list :
      LET e == ask[r].list[i] IN
      Matches(e.row, e.subjects, ask[r].q) /\ e.row.effect = "allow"
      /\ e.row.priority >= rows[d].priority
=============================================================================
