---------------------------- MODULE Stdio_Proofs ----------------------------
(***************************************************************************)
(* TLAPS proofs about the STDIO processes and their pool.                  *)
(*                                                                         *)
(* A process (StdioProcess): its types, that readLoop never blocks while   *)
(* it holds pendMu, and, when all ids are allocated by the process, that a *)
(* call returns its own answer and the process implements RequestReply.    *)
(*                                                                         *)
(* The pool (StdioManager), for any keys, processes, users and limits, and *)
(* whatever lines children write: its types, its capacity, and of the      *)
(* children that run with a living readLoop one per subject key and no     *)
(* more than the limit.                                                    *)
(***************************************************************************)
EXTENDS StdioProcess, StdioManager, FiniteSetTheorems, TLAPS

\* A call whose channel is not registered yet has an empty channel.
FreshChannel == \A c \in Callers : call[c].pc = "register" => chan[c] = <<>>

\* While readLoop delivers, the entry it looked up is still there.
DeliveryRegistered ==
  reader = "deliver" => inHand.id \in IDs /\ pending[inHand.id] # NoCaller

\* The inductive strengthening of DeliveryNeverBlocks.
MuxInv == TypeOK /\ FreshChannel /\ PendingWaits /\ DeliveryRegistered

USE ProcessAssumption

LEMMA GotoLemma ==
  ASSUME NEW c \in Callers, NEW from, NEW to \in CallPCs, TypeOK, Goto(c, from, to)
  PROVE  /\ call' \in [Callers -> [pc : CallPCs, kind : {"init", "call", "raw"},
                                   id : 0 .. MaxCalls, tag : Tags]]
         /\ call[c].pc = from /\ call'[c].pc = to
         /\ \A d \in Callers : /\ d # c => call'[d] = call[d]
                               /\ call'[d].id = call[d].id
                               /\ call'[d].tag = call[d].tag
                               /\ call'[d].kind = call[d].kind
<1> DEFINE CallRec == [pc : CallPCs, kind : {"init", "call", "raw"},
                       id : 0 .. MaxCalls, tag : Tags]
<1>1. call \in [Callers -> CallRec] /\ call[c].pc = from
  BY DEF TypeOK, Goto
<1>2. [call[c] EXCEPT !.pc = to] \in CallRec
  BY <1>1
<1>3. call' = [call EXCEPT ![c] = [call[c] EXCEPT !.pc = to]]
  BY DEF Goto
<1> HIDE DEF CallRec
<1>4. call' \in [Callers -> CallRec] /\ call'[c] = [call[c] EXCEPT !.pc = to]
  BY <1>1, <1>2, <1>3
<1>5. /\ call'[c].pc = to /\ call'[c].id = call[c].id
      /\ call'[c].tag = call[c].tag /\ call'[c].kind = call[c].kind
  BY <1>1, <1>4 DEF CallRec
<1>6. QED
  BY <1>1, <1>3, <1>4, <1>5 DEF CallRec

LEMMA LineFacts ==
  /\ NoLine \in LineSet /\ OverLine \in LineSet /\ Notification \in LineSet
  /\ \A i \in IDs, t \in Tags : Line(i, t) \in LineSet
  BY DEF NoLine, OverLine, Notification, Line, LineSet, IDs, Tags

LEMMA LineSeqFacts ==
  /\ <<>> \in Seq(LineSet)
  /\ \A s \in Seq(LineSet), l \in LineSet : Append(s, l) \in Seq(LineSet)
  OBVIOUS

LEMMA RepliesFacts ==
  <<>> \in Replies /\ \A t \in Tags : <<t>> \in Replies /\ <<t>> # <<>> /\ <<t>>[1] = t
  BY DEF Replies

-----------------------------------------------------------------------------
(* The multiplexer invariant, action by action. *)

LEMMA InitMux == Init => MuxInv
<1> SUFFICES ASSUME Init PROVE MuxInv
  OBVIOUS
<1>1. call \in [Callers -> [pc : CallPCs, kind : {"init", "call", "raw"},
                            id : 0 .. MaxCalls, tag : Tags]]
      /\ \A c \in Callers : call[c].pc = "idle"
  BY DEF Init, CallPCs, Tags
<1>2. /\ pending \in [IDs -> Callers \cup {NoCaller}]
      /\ chan \in [Callers -> Replies] /\ out \in [Callers -> Replies]
  BY RepliesFacts DEF Init
<1>3. TypeOK
  <2>1. /\ nextID \in Nat /\ calls \in 0 .. MaxCalls /\ nextID <= calls
        /\ todo = {} /\ answered = {} /\ reader = "scan" /\ initialized = FALSE
        /\ childAlive = TRUE /\ stdinOpen = TRUE /\ waited = FALSE
        /\ stdin = <<>> /\ stdout = <<>> /\ inHand = NoLine
    BY DEF Init
  <2>2. QED
    BY <1>1, <1>2, <2>1, LineFacts, LineSeqFacts DEF TypeOK
<1>4. FreshChannel /\ PendingWaits /\ DeliveryRegistered
  BY DEF Init, FreshChannel, PendingWaits, DeliveryRegistered
<1>5. QED
  BY <1>3, <1>4 DEF MuxInv

\* Starting a call: the caller was idle, so no entry is its own.
LEMMA StartCallMux ==
  ASSUME NEW c \in Callers, NEW kind \in {"init", "call", "raw"}, NEW id \in IDs,
         MuxInv, StartCall(c, kind, id), nextID' \in Nat, nextID' <= calls'
  PROVE  MuxInv'
<1>1. /\ call[c].pc = "idle" /\ calls \in 0 .. MaxCalls /\ calls < MaxCalls
      /\ calls' = calls + 1 /\ calls + 1 \in Tags
  BY DEF StartCall, MuxInv, TypeOK, Tags
<1>2. /\ call'[c] = [pc |-> "register", kind |-> kind, id |-> id, tag |-> calls + 1]
      /\ \A d \in Callers : d # c => call'[d] = call[d] /\ chan'[d] = chan[d]
      /\ chan'[c] = <<>>
      /\ chan' \in [Callers -> Replies]
      /\ out' \in [Callers -> Replies]
  BY RepliesFacts DEF StartCall, MuxInv, TypeOK
<1>3. call' \in [Callers -> [pc : CallPCs, kind : {"init", "call", "raw"},
                             id : 0 .. MaxCalls, tag : Tags]]
  BY <1>1 DEF StartCall, MuxInv, TypeOK, CallPCs, IDs, Tags
<1>4. TypeOK'
  BY <1>1, <1>2, <1>3
     DEF StartCall, MuxInv, TypeOK, IDs, Tags, childVars, osVars, readVars
<1>5. FreshChannel'
  BY <1>2 DEF MuxInv, FreshChannel
<1>6. PendingWaits'
  BY <1>1, <1>2 DEF StartCall, MuxInv, TypeOK, PendingWaits
<1>7. DeliveryRegistered'
  BY DEF StartCall, MuxInv, DeliveryRegistered, readVars
<1>8. QED
  BY <1>4, <1>5, <1>6, <1>7 DEF MuxInv

LEMMA RegisterMux ==
  ASSUME NEW c \in Callers, MuxInv, Register(c)
  PROVE  MuxInv'
<1>1. /\ Goto(c, "register", "write") /\ call[c].pc = "register"
      /\ call[c].id \in IDs /\ reader # "deliver"
      /\ pending' = [pending EXCEPT ![call[c].id] = c]
      /\ pending' \in [IDs -> Callers \cup {NoCaller}]
  BY DEF Register, PendMuFree, Goto, MuxInv, TypeOK
<1>2. UNCHANGED <<nextID, calls, out, initialized, chan, stdin, stdout,
                  childVars, osVars, readVars>>
  BY DEF Register
<1>3. TypeOK'
  BY <1>1, <1>2, GotoLemma DEF MuxInv, TypeOK, CallPCs, childVars, osVars, readVars
<1>4. FreshChannel'
  BY <1>1, <1>2, GotoLemma DEF MuxInv, FreshChannel, CallPCs
<1>5. PendingWaits'
  <2> SUFFICES ASSUME NEW i \in IDs, pending'[i] # NoCaller
               PROVE  /\ call'[pending'[i]].pc \in {"write", "select", "cleanup"}
                      /\ call'[pending'[i]].id = i
                      /\ chan'[pending'[i]] = <<>>
    BY DEF PendingWaits
  <2>1. CASE i = call[c].id
    BY <1>1, <1>2, <2>1, GotoLemma DEF MuxInv, TypeOK, FreshChannel, CallPCs
  <2>2. CASE i # call[c].id
    <3>1. pending'[i] = pending[i] /\ pending[i] \in Callers /\ pending[i] # c
      BY <1>1, <2>2 DEF MuxInv, TypeOK, PendingWaits
    <3>2. QED
      BY <1>1, <1>2, <3>1, GotoLemma DEF MuxInv, PendingWaits, CallPCs
  <2>3. QED
    BY <2>1, <2>2
<1>6. DeliveryRegistered'
  BY <1>1, <1>2 DEF DeliveryRegistered, readVars
<1>7. QED
  BY <1>3, <1>4, <1>5, <1>6 DEF MuxInv


\* A caller that moves on from write, select or notify, touching neither the
\* map nor any channel but its own full one, keeps the invariant.
LEMMA MoveMux ==
  ASSUME NEW c \in Callers, MuxInv,
         NEW from \in {"write", "select", "notify"}, NEW to \in {"select", "cleanup", "idle"},
         Goto(c, from, to), from # "notify" => to # "idle",
         UNCHANGED <<nextID, calls, initialized, pending, stdout, childVars, osVars, readVars>>,
         stdin' \in Seq(LineSet), out' \in [Callers -> Replies],
         \/ UNCHANGED chan
         \/ chan' = [chan EXCEPT ![c] = <<>>]
  PROVE  MuxInv'
<1>1. chan' \in [Callers -> Replies]
      /\ \A d \in Callers : chan'[d] = chan[d] \/ chan'[d] = <<>>
  BY RepliesFacts DEF MuxInv, TypeOK
<1>2. /\ call' \in [Callers -> [pc : CallPCs, kind : {"init", "call", "raw"},
                                id : 0 .. MaxCalls, tag : Tags]]
      /\ call[c].pc = from /\ call'[c].pc = to
      /\ \A d \in Callers : /\ d # c => call'[d] = call[d]
                            /\ call'[d].id = call[d].id
  BY GotoLemma DEF MuxInv, CallPCs
<1>3. TypeOK'
  BY <1>1, <1>2 DEF MuxInv, TypeOK, childVars, osVars, readVars
<1>4. FreshChannel'
  BY <1>1, <1>2 DEF MuxInv, FreshChannel
<1>5. PendingWaits'
  <2> SUFFICES ASSUME NEW i \in IDs, pending[i] # NoCaller
               PROVE  /\ call'[pending[i]].pc \in {"write", "select", "cleanup"}
                      /\ call'[pending[i]].id = i
                      /\ chan'[pending[i]] = <<>>
    BY DEF PendingWaits
  <2>1. /\ pending[i] \in Callers
        /\ call[pending[i]].pc \in {"write", "select", "cleanup"}
        /\ call[pending[i]].id = i /\ chan[pending[i]] = <<>>
    BY DEF MuxInv, TypeOK, PendingWaits
  <2>2. QED
    BY <1>1, <1>2, <2>1
<1>6. DeliveryRegistered'
  BY DEF MuxInv, DeliveryRegistered, readVars
<1>7. QED
  BY <1>3, <1>4, <1>5, <1>6 DEF MuxInv

LEMMA LineOfCall ==
  ASSUME NEW c \in Callers, TypeOK, call[c].pc # "idle"
  PROVE  Line(call[c].id, call[c].tag) \in LineSet
  BY LineFacts DEF TypeOK

LEMMA WriteMux ==
  ASSUME NEW c \in Callers, MuxInv, Write(c)
  PROVE  MuxInv'
<1>1. call[c].pc = "write"
  BY DEF Write, Goto
<1>2. Append(stdin, Line(call[c].id, call[c].tag)) \in Seq(LineSet)
  BY <1>1, LineOfCall, LineSeqFacts DEF MuxInv, TypeOK
<1>3. stdin' \in Seq(LineSet) /\ out' \in [Callers -> Replies]
  BY <1>2 DEF Write, MuxInv, TypeOK
<1>4. Goto(c, "write", "select") \/ Goto(c, "write", "cleanup")
  BY DEF Write
<1>5. UNCHANGED <<nextID, calls, initialized, pending, stdout, childVars, osVars,
                  readVars, chan>>
  BY DEF Write
<1>6. QED
  BY <1>3, <1>4, <1>5, MoveMux

LEMMA SelectMux ==
  ASSUME NEW c \in Callers, MuxInv, ReceiveReply(c) \/ SeeDone(c) \/ GiveUp(c)
  PROVE  MuxInv'
<1>1. Goto(c, "select", "cleanup")
  BY DEF ReceiveReply, SeeDone, GiveUp
<1>2. stdin' \in Seq(LineSet) /\ out' \in [Callers -> Replies]
  BY DEF ReceiveReply, SeeDone, GiveUp, MuxInv, TypeOK
<1>3. /\ UNCHANGED <<nextID, calls, initialized, pending, stdout, childVars, osVars, readVars>>
      /\ UNCHANGED chan \/ chan' = [chan EXCEPT ![c] = <<>>]
  BY DEF ReceiveReply, SeeDone, GiveUp
<1>4. QED
  BY <1>1, <1>2, <1>3, MoveMux

LEMMA NotifyMux ==
  ASSUME NEW c \in Callers, MuxInv, Notify(c)
  PROVE  MuxInv'
<1>1. Append(stdin, Notification) \in Seq(LineSet)
  BY LineFacts DEF MuxInv, TypeOK
<1>2. stdin' \in Seq(LineSet) /\ out' \in [Callers -> Replies]
  BY <1>1 DEF Notify, MuxInv, TypeOK
<1>3. /\ Goto(c, "notify", "idle")
      /\ UNCHANGED <<nextID, calls, initialized, pending, stdout, childVars, osVars,
                     readVars, chan>>
  BY DEF Notify
<1>4. QED
  BY <1>2, <1>3, MoveMux

\* The deferred delete: the entry under c's id goes, so c has none left.
LEMMA CleanupMux ==
  ASSUME NEW c \in Callers, MuxInv, Cleanup(c)
  PROVE  MuxInv'
<1>1. /\ call[c].pc = "cleanup" /\ call[c].id \in IDs /\ reader # "deliver"
      /\ pending' = [pending EXCEPT ![call[c].id] = NoCaller]
      /\ pending' \in [IDs -> Callers \cup {NoCaller}]
      /\ initialized' \in BOOLEAN
      /\ UNCHANGED <<nextID, calls, out, chan, stdin, stdout, childVars, osVars, readVars>>
  BY DEF Cleanup, PendMuFree, MuxInv, TypeOK
<1>2. PICK to \in {"notify", "idle"} : Goto(c, "cleanup", to)
  BY DEF Cleanup
<1>3. /\ call' \in [Callers -> [pc : CallPCs, kind : {"init", "call", "raw"},
                                id : 0 .. MaxCalls, tag : Tags]]
      /\ call'[c].pc = to
      /\ \A d \in Callers : /\ d # c => call'[d] = call[d]
                            /\ call'[d].id = call[d].id
  BY <1>2, GotoLemma DEF MuxInv, CallPCs
<1>4. TypeOK'
  BY <1>1, <1>3 DEF MuxInv, TypeOK, childVars, osVars, readVars
<1>5. FreshChannel'
  BY <1>1, <1>3 DEF MuxInv, FreshChannel
<1>6. PendingWaits'
  <2> SUFFICES ASSUME NEW i \in IDs, pending'[i] # NoCaller
               PROVE  /\ call'[pending'[i]].pc \in {"write", "select", "cleanup"}
                      /\ call'[pending'[i]].id = i
                      /\ chan'[pending'[i]] = <<>>
    BY DEF PendingWaits
  <2>1. i # call[c].id /\ pending'[i] = pending[i] /\ pending[i] \in Callers
    BY <1>1 DEF MuxInv, TypeOK
  <2>2. /\ pending[i] # c
        /\ call[pending[i]].pc \in {"write", "select", "cleanup"}
        /\ call[pending[i]].id = i /\ chan[pending[i]] = <<>>
    BY <2>1 DEF MuxInv, PendingWaits
  <2>3. QED
    BY <1>1, <1>3, <2>1, <2>2
<1>7. DeliveryRegistered'
  BY <1>1 DEF DeliveryRegistered, readVars
<1>8. QED
  BY <1>4, <1>5, <1>6, <1>7 DEF MuxInv

LEMMA StdoutFacts ==
  ASSUME TypeOK, stdout # <<>>
  PROVE  Head(stdout) \in LineSet /\ Tail(stdout) \in Seq(LineSet)
  BY DEF TypeOK

LEMMA ReadLineMux ==
  ASSUME MuxInv, ReadLine
  PROVE  MuxInv'
<1>1. /\ stdout' \in Seq(LineSet) /\ inHand' \in LineSet
      /\ reader' \in {"scan", "deliver", "ended"}
      /\ reader' = "deliver" => inHand'.id \in IDs /\ pending[inHand'.id] # NoCaller
  BY StdoutFacts DEF ReadLine, MuxInv, TypeOK, readVars
<1>2. UNCHANGED <<callerVars, pending, chan, stdin, childVars, osVars>>
  BY DEF ReadLine
<1>3. TypeOK'
  BY <1>1, <1>2 DEF MuxInv, TypeOK, callerVars, childVars, osVars
<1>4. QED
  BY <1>1, <1>2, <1>3
     DEF MuxInv, FreshChannel, PendingWaits, DeliveryRegistered, callerVars

\* The send fills the channel and the delete removes its only entry.
LEMMA DeliverMux ==
  ASSUME MuxInv, Deliver
  PROVE  MuxInv'
<1> DEFINE c == pending[inHand.id]
<1>1. /\ inHand.id \in IDs /\ c \in Callers /\ call[c].id = inHand.id
      /\ call[c].pc \in {"write", "select", "cleanup"}
  BY DEF Deliver, MuxInv, TypeOK, PendingWaits, DeliveryRegistered
<1>2. /\ chan' = [chan EXCEPT ![c] = <<inHand.tag>>]
      /\ chan' \in [Callers -> Replies]
      /\ pending' = [pending EXCEPT ![inHand.id] = NoCaller]
      /\ pending' \in [IDs -> Callers \cup {NoCaller}]
      /\ reader' = "scan" /\ inHand' \in LineSet
  BY <1>1, LineFacts, RepliesFacts DEF Deliver, MuxInv, TypeOK, LineSet
<1>3. UNCHANGED <<callerVars, stdin, stdout, childVars, osVars>>
  BY DEF Deliver
<1>4. TypeOK'
  BY <1>2, <1>3 DEF MuxInv, TypeOK, callerVars, childVars, osVars
<1>5. FreshChannel'
  BY <1>1, <1>2, <1>3 DEF MuxInv, TypeOK, FreshChannel, callerVars
<1>6. PendingWaits'
  <2> SUFFICES ASSUME NEW i \in IDs, pending'[i] # NoCaller
               PROVE  /\ call'[pending'[i]].pc \in {"write", "select", "cleanup"}
                      /\ call'[pending'[i]].id = i
                      /\ chan'[pending'[i]] = <<>>
    BY DEF PendingWaits
  <2>1. i # inHand.id /\ pending'[i] = pending[i] /\ pending[i] \in Callers
    BY <1>1, <1>2 DEF MuxInv, TypeOK
  <2>2. /\ pending[i] # c
        /\ call[pending[i]].pc \in {"write", "select", "cleanup"}
        /\ call[pending[i]].id = i /\ chan[pending[i]] = <<>>
    BY <1>1, <2>1 DEF MuxInv, PendingWaits
  <2> HIDE DEF c
  <2>3. QED
    BY <1>1, <1>2, <1>3, <2>1, <2>2 DEF callerVars, MuxInv, TypeOK
<1>7. DeliveryRegistered'
  BY <1>2 DEF DeliveryRegistered
<1>8. QED
  BY <1>4, <1>5, <1>6, <1>7 DEF MuxInv

\* The child, Close and the end of the output touch neither calls nor map.
LEMMA ChildMux ==
  ASSUME MuxInv,
         EndOfOutput \/ ChildRead \/ ChildAnswer \/ ChildLine \/ ChildExit \/ Close
  PROVE  MuxInv'
<1>1. UNCHANGED <<callerVars, pending, chan, inHand>>
  BY DEF EndOfOutput, ChildRead, ChildAnswer, ChildLine, ChildExit, Close, readVars
<1>2. reader' = reader \/ (reader' = "ended" /\ EndOfOutput)
  BY DEF EndOfOutput, ChildRead, ChildAnswer, ChildLine, ChildExit, Close, readVars
<1>3. /\ stdin' \in Seq(LineSet) /\ stdout' \in Seq(LineSet)
      /\ todo' \subseteq LineSet /\ answered' \subseteq Tags
      /\ childAlive' \in BOOLEAN /\ stdinOpen' \in BOOLEAN /\ waited' \in BOOLEAN
  <2>1. CASE EndOfOutput
    BY <2>1 DEF EndOfOutput, MuxInv, TypeOK, childVars, osVars
  <2>2. CASE ChildRead
    BY <2>2 DEF ChildRead, MuxInv, TypeOK, osVars
  <2>3. CASE ChildAnswer
    <3>1. PICK r \in todo : /\ todo' = todo \ {r}
                            /\ stdout' = Append(stdout, r)
                            /\ answered' = answered \cup {r.tag}
      BY <2>3 DEF ChildAnswer
    <3>2. r \in LineSet /\ r.tag \in Tags
      BY DEF MuxInv, TypeOK, LineSet
    <3>3. QED
      BY <2>3, <3>1, <3>2 DEF ChildAnswer, MuxInv, TypeOK, osVars
  <2>4. CASE ChildLine
    <3>1. PICK l \in {Line(i, 0) : i \in ServerIDs} \cup {OverLine} :
                 stdout' = Append(stdout, l)
      BY <2>4 DEF ChildLine
    <3>2. l \in LineSet
      BY LineFacts DEF Tags
    <3>3. QED
      BY <2>4, <3>1, <3>2 DEF ChildLine, MuxInv, TypeOK, childVars, osVars
  <2>5. CASE ChildExit
    BY <2>5, LineSeqFacts DEF ChildExit, MuxInv, TypeOK
  <2>6. CASE Close
    BY <2>6 DEF Close, MuxInv, TypeOK, childVars
  <2>7. QED
    BY <2>1, <2>2, <2>3, <2>4, <2>5, <2>6
<1>4. TypeOK'
  BY <1>1, <1>2, <1>3 DEF MuxInv, TypeOK, callerVars
<1>5. QED
  BY <1>1, <1>2, <1>4
     DEF MuxInv, FreshChannel, PendingWaits, DeliveryRegistered, callerVars

LEMMA NextMux == MuxInv /\ [Next]_vars => MuxInv'
<1> SUFFICES ASSUME MuxInv, [Next]_vars PROVE MuxInv'
  OBVIOUS
<1>1. ASSUME NEW c \in Callers, CallerStep(c) PROVE MuxInv'
  BY <1>1, RegisterMux, WriteMux, SelectMux, CleanupMux, NotifyMux DEF CallerStep
<1>2. ASSUME NEW c \in Callers, NEW kind \in {"init", "call"}, BeginAllocated(c, kind)
      PROVE  MuxInv'
  <2>1. StartCall(c, kind, nextID + 1) /\ nextID' = nextID + 1
    BY <1>2 DEF BeginAllocated, AllocID
  <2>2. /\ nextID + 1 \in IDs /\ nextID' \in Nat /\ nextID' <= calls'
    BY <2>1 DEF StartCall, MuxInv, TypeOK, IDs
  <2>3. QED
    BY <2>1, <2>2, StartCallMux
<1>3. ASSUME NEW c \in Callers, NEW id \in RawIDs, BeginRaw(c, id)
      PROVE  MuxInv'
  <2>1. StartCall(c, "raw", id) /\ nextID' = nextID
    BY <1>3 DEF BeginRaw
  <2>2. id \in IDs /\ nextID' \in Nat /\ nextID' <= calls'
    BY <2>1 DEF StartCall, MuxInv, TypeOK
  <2>3. QED
    BY <2>1, <2>2, StartCallMux
<1>4. CASE ReaderStep
  BY <1>4, ReadLineMux, DeliverMux, ChildMux DEF ReaderStep
<1>5. CASE ChildRead \/ ChildAnswer \/ ChildLine \/ ChildExit \/ Close
  BY <1>5, ChildMux
<1>6. CASE UNCHANGED vars
  BY <1>6 DEF vars, callerVars, childVars, osVars, readVars, MuxInv, TypeOK,
              FreshChannel, PendingWaits, DeliveryRegistered
<1>7. QED
  BY <1>1, <1>2, <1>3, <1>4, <1>5, <1>6 DEF Next

LEMMA SpecMux == Spec => []MuxInv
  BY InitMux, NextMux, PTL DEF Spec

\* The variables keep their types in every behaviour.
THEOREM ProcessTypes == Spec => []TypeOK
<1>1. MuxInv => TypeOK
  BY DEF MuxInv
<1>2. QED
  BY <1>1, SpecMux, PTL

\* Every registered channel is empty and belongs to a waiting call, for any
\* number of callers and any ids that clients and server choose.
THEOREM RegisteredChannelsWait == Spec => []PendingWaits
<1>1. MuxInv => PendingWaits
  BY DEF MuxInv
<1>2. QED
  BY <1>1, SpecMux, PTL

\* readLoop never blocks in its send while it holds pendMu.
THEOREM ReadLoopNeverBlocks == Spec => []DeliveryNeverBlocks
<1>1. MuxInv => DeliveryNeverBlocks
  BY DEF MuxInv, PendingWaits, DeliveryRegistered, DeliveryNeverBlocks
<1>2. QED
  BY <1>1, SpecMux, PTL

-----------------------------------------------------------------------------
(* Own answers: when callers use allocated ids only and the child makes no *)
(* requests, every id in the system equals the tag of one call.            *)

RequestLine(l) == l.id = l.tag /\ l.tag \in 1 .. calls

\* Everything that travels between a caller and the child carries its tag.
AllocInv ==
  /\ calls = nextID
  /\ \A c \in Callers : call[c].id = call[c].tag
  /\ \A c \in Callers : call[c].pc # "idle" => call[c].tag \in 1 .. calls
  /\ \A i \in 1 .. Len(stdin) : stdin[i] = Notification \/ RequestLine(stdin[i])
  /\ \A l \in todo : RequestLine(l)
  /\ \A i \in 1 .. Len(stdout) : \/ stdout[i] = OverLine
                                 \/ RequestLine(stdout[i]) /\ stdout[i].tag \in answered
  /\ reader = "deliver" => RequestLine(inHand) /\ inHand.tag \in answered
  /\ \A c \in Callers : chan[c] # <<>> =>
       chan[c] = <<call[c].tag>> /\ call[c].tag \in answered
  /\ \A c \in Callers : out[c] # <<>> => out[c] = <<call[c].tag>>
  /\ \A c \in Callers : call[c].pc \in {"register", "write", "select"} => out[c] = <<>>

AllocOnly == RawIDs = {} /\ ServerIDs = {}

LEMMA InitAlloc == Init => AllocInv
  BY DEF Init, AllocInv

LEMMA StartCallAlloc ==
  ASSUME NEW c \in Callers, NEW kind \in {"init", "call"}, MuxInv, AllocInv,
         BeginAllocated(c, kind)
  PROVE  AllocInv'
<1>1. /\ calls \in Nat /\ calls' = calls + 1 /\ nextID' = nextID + 1 /\ calls = nextID
  BY DEF BeginAllocated, StartCall, AllocID, MuxInv, TypeOK, AllocInv
<1>2. /\ call'[c] = [pc |-> "register", kind |-> kind, id |-> nextID + 1, tag |-> calls + 1]
      /\ chan'[c] = <<>> /\ out'[c] = <<>>
      /\ \A d \in Callers \ {c} :
           call'[d] = call[d] /\ chan'[d] = chan[d] /\ out'[d] = out[d]
      /\ UNCHANGED <<stdin, stdout, todo, answered, reader, inHand>>
  BY DEF BeginAllocated, StartCall, AllocID, MuxInv, TypeOK, childVars, readVars
<1>3. 1 .. calls \subseteq 1 .. calls' /\ calls' \in 1 .. calls'
  BY <1>1
<1>4. \A l : RequestLine(l) => RequestLine(l)'
  BY <1>3 DEF RequestLine
<1>5. QED
  BY <1>1, <1>2, <1>3, <1>4 DEF AllocInv

LEMMA CallerStepAlloc ==
  ASSUME NEW c \in Callers, MuxInv, AllocInv, CallerStep(c)
  PROVE  AllocInv'
<1>1. PICK from, to \in CallPCs :
        /\ Goto(c, from, to)
        /\ from # "idle" /\ to # "register"
        /\ to \in {"write", "select"} => from \in {"register", "write"}
  BY DEF CallerStep, Register, Write, ReceiveReply, SeeDone, GiveUp, Cleanup, Notify, CallPCs
<1>2. /\ call[c].pc = from /\ call'[c].pc = to
      /\ \A d \in Callers : /\ d # c => call'[d] = call[d]
                            /\ call'[d].id = call[d].id /\ call'[d].tag = call[d].tag
  BY <1>1, GotoLemma DEF MuxInv
<1>3. /\ UNCHANGED <<nextID, calls, todo, answered, stdout, reader, inHand>>
      /\ \A l : RequestLine(l) => RequestLine(l)'
  BY DEF CallerStep, Register, Write, ReceiveReply, SeeDone, GiveUp, Cleanup, Notify,
         childVars, readVars, RequestLine
<1>4. /\ \A d \in Callers \ {c} : chan'[d] = chan[d] /\ out'[d] = out[d]
      /\ chan'[c] \in {chan[c], <<>>}
      /\ out'[c] = out[c] \/ (out'[c] = chan[c] /\ to = "cleanup")
  <2>1. CASE ReceiveReply(c)
    <3>1. to = "cleanup"
      BY <1>2, <2>1, GotoLemma DEF ReceiveReply, CallPCs, MuxInv
    <3>2. QED
      BY <2>1, <3>1 DEF ReceiveReply, MuxInv, TypeOK
  <2>2. CASE ~ReceiveReply(c)
    BY <2>2 DEF CallerStep, Register, Write, SeeDone, GiveUp, Cleanup, Notify
  <2>3. QED
    BY <2>1, <2>2
<1>5. \A i \in 1 .. Len(stdin') : stdin'[i] = Notification \/ RequestLine(stdin'[i])
  <2> DEFINE own == Line(call[c].id, call[c].tag)
  <2>1. stdin' \in {stdin, Append(stdin, own), Append(stdin, Notification)}
    BY DEF CallerStep, Register, Write, ReceiveReply, SeeDone, GiveUp, Cleanup, Notify
  <2>2. RequestLine(own)
    BY <1>1, <1>2 DEF AllocInv, RequestLine, Line
  <2>3. stdin \in Seq(LineSet)
    BY DEF MuxInv, TypeOK
  <2> HIDE DEF own
  <2>4. QED
    BY <2>1, <2>2, <2>3 DEF AllocInv
<1>6. QED
  BY <1>1, <1>2, <1>3, <1>4, <1>5 DEF AllocInv, CallPCs

LEMMA ReaderAlloc ==
  ASSUME MuxInv, AllocInv, ReaderStep
  PROVE  AllocInv'
<1>1. /\ UNCHANGED <<callerVars, stdin, todo, answered>>
      /\ \A l : RequestLine(l) => RequestLine(l)'
  BY DEF ReaderStep, ReadLine, Deliver, EndOfOutput, callerVars, childVars, RequestLine
<1>2. CASE ReadLine
  <2>1. /\ stdout \in Seq(LineSet) /\ stdout # <<>> /\ stdout' = Tail(stdout)
        /\ Head(stdout) # OverLine /\ UNCHANGED chan
        /\ reader' = "deliver" => inHand' = Head(stdout)
    BY <1>2 DEF ReadLine, MuxInv, TypeOK, readVars
  <2>2. RequestLine(Head(stdout)) /\ Head(stdout).tag \in answered
    BY <2>1 DEF AllocInv
  <2>3. \A i \in 1 .. Len(stdout') : stdout'[i] = stdout[i + 1] /\ i + 1 \in 1 .. Len(stdout)
    BY <2>1
  <2>4. QED
    BY <1>1, <2>1, <2>2, <2>3 DEF AllocInv, callerVars
<1>3. CASE Deliver
  <2> DEFINE c == pending[inHand.id]
  <2>1. /\ inHand.id \in IDs /\ c \in Callers /\ call[c].id = inHand.id
        /\ RequestLine(inHand) /\ inHand.tag \in answered
    BY <1>3 DEF Deliver, MuxInv, TypeOK, PendingWaits, DeliveryRegistered, AllocInv
  <2>2. inHand.tag = call[c].tag
    BY <2>1 DEF AllocInv, RequestLine
  <2>3. /\ chan' = [chan EXCEPT ![c] = <<call[c].tag>>]
        /\ reader' = "scan" /\ UNCHANGED stdout
    BY <1>3, <2>2 DEF Deliver
  <2> HIDE DEF c
  <2>4. QED
    BY <1>1, <2>1, <2>2, <2>3 DEF AllocInv, callerVars, MuxInv, TypeOK
<1>4. CASE EndOfOutput
  BY <1>1, <1>4 DEF EndOfOutput, AllocInv, callerVars
<1>5. QED
  BY <1>2, <1>3, <1>4 DEF ReaderStep

LEMMA ChildAlloc ==
  ASSUME AllocOnly, MuxInv, AllocInv,
         ChildRead \/ ChildAnswer \/ ChildLine \/ ChildExit \/ Close
  PROVE  AllocInv'
<1>1. /\ UNCHANGED <<callerVars, chan, reader, inHand>>
      /\ \A l : RequestLine(l) => RequestLine(l)'
  BY DEF ChildRead, ChildAnswer, ChildLine, ChildExit, Close, callerVars, readVars, RequestLine
<1>2. stdin \in Seq(LineSet) /\ stdout \in Seq(LineSet)
  BY DEF MuxInv, TypeOK
<1>3. CASE ChildRead
  <2>1. \A i \in 1 .. Len(stdin') : stdin'[i] = stdin[i + 1] /\ i + 1 \in 1 .. Len(stdin)
    BY <1>2, <1>3 DEF ChildRead
  <2>2. \A l \in todo' : RequestLine(l)
    BY <1>2, <1>3 DEF ChildRead, AllocInv
  <2>3. QED
    BY <1>1, <1>3, <2>1, <2>2 DEF ChildRead, AllocInv, callerVars
<1>4. CASE ChildAnswer
  <2>1. PICK r \in todo : /\ todo' = todo \ {r} /\ stdout' = Append(stdout, r)
                          /\ answered' = answered \cup {r.tag}
    BY <1>4 DEF ChildAnswer
  <2>2. RequestLine(r) /\ r \in LineSet
    BY DEF AllocInv, MuxInv, TypeOK
  <2>3. \A i \in 1 .. Len(stdout') : stdout'[i] = r \/ (i \in 1 .. Len(stdout) /\ stdout'[i] = stdout[i])
    BY <1>2, <2>1, <2>2
  <2>4. UNCHANGED stdin
    BY <1>4 DEF ChildAnswer
  <2>5. QED
    BY <1>1, <2>1, <2>2, <2>3, <2>4 DEF AllocInv, callerVars
<1>5. CASE ChildLine
  <2>1. stdout' = Append(stdout, OverLine) /\ UNCHANGED <<stdin, todo, answered>>
    BY <1>5 DEF ChildLine, AllocOnly, childVars
  <2>2. \A i \in 1 .. Len(stdout') : stdout'[i] = OverLine \/ (i \in 1 .. Len(stdout) /\ stdout'[i] = stdout[i])
    BY <1>2, <2>1, LineFacts
  <2>3. QED
    BY <1>1, <2>1, <2>2 DEF AllocInv, callerVars
<1>6. CASE ChildExit
  BY <1>1, <1>6 DEF ChildExit, AllocInv, callerVars
<1>7. CASE Close
  BY <1>1, <1>7 DEF Close, AllocInv, callerVars, childVars
<1>8. QED
  BY <1>3, <1>4, <1>5, <1>6, <1>7

LEMMA NextAlloc ==
  ASSUME AllocOnly
  PROVE  MuxInv /\ AllocInv /\ [Next]_vars => AllocInv'
<1> SUFFICES ASSUME MuxInv, AllocInv, [Next]_vars PROVE AllocInv'
  OBVIOUS
<1>1. CASE UNCHANGED vars
  BY <1>1 DEF vars, callerVars, childVars, readVars, AllocInv, RequestLine
<1>2. ~ \E c \in Callers, id \in RawIDs : BeginRaw(c, id)
  BY DEF AllocOnly
<1>3. QED
  BY <1>1, <1>2, CallerStepAlloc, StartCallAlloc, ReaderAlloc, ChildAlloc DEF Next

LEMMA SpecAlloc ==
  ASSUME AllocOnly
  PROVE  Spec => [](MuxInv /\ AllocInv)
<1>1. MuxInv /\ AllocInv /\ [Next]_vars => (MuxInv /\ AllocInv)'
  BY NextMux, NextAlloc
<1>2. Init => MuxInv /\ AllocInv
  BY InitMux, InitAlloc
<1>3. QED
  BY <1>1, <1>2, PTL DEF Spec

\* With allocated ids only, a call that returns a response returns the
\* response to its own request, however late, reordered or lost others are.
THEOREM AllocatedCallsGetOwnAnswer ==
  ASSUME AllocOnly
  PROVE  Spec => []OwnAnswer
<1>1. AllocInv => OwnAnswer
  BY DEF AllocInv, OwnAnswer
<1>2. QED
  BY <1>1, SpecAlloc, PTL

-----------------------------------------------------------------------------
(* Refinement *)

LEMMA InitRefines == Init => RR!RRInit
  BY DEF Init, RR!RRInit

LEMMA StepRefines ==
  ASSUME AllocOnly, MuxInv, AllocInv, [Next]_vars
  PROVE  [RR!RRNext]_(RR!rrVars)
<1> DEFINE Busy == {c \in Callers : call[c].pc # "idle"}
           TagOf == [c \in Callers |-> call[c].tag]
<1>1. ASSUME NEW c \in Callers, NEW kind \in {"init", "call"}, BeginAllocated(c, kind)
      PROVE  RR!Ask(c)
  <2>1. /\ call[c].pc = "idle" /\ calls < MaxCalls /\ calls' = calls + 1
        /\ call' = [call EXCEPT ![c] = [pc |-> "register", kind |-> kind,
                                        id |-> nextID + 1, tag |-> calls + 1]]
        /\ out' = [out EXCEPT ![c] = <<>>] /\ UNCHANGED answered
    BY <1>1 DEF BeginAllocated, StartCall, AllocID, childVars
  <2>2. /\ call'[c].pc = "register" /\ call'[c].tag = calls + 1
        /\ \A d \in Callers \ {c} : call'[d] = call[d]
    BY <2>1 DEF MuxInv, TypeOK
  <2>3. Busy' = Busy \cup {c}
    BY <2>2
  <2>4. TagOf' = [TagOf EXCEPT ![c] = calls + 1]
    BY <2>2
  <2>5. QED
    BY <2>1, <2>3, <2>4 DEF RR!Ask
<1>2. ASSUME NEW c \in Callers, CallerStep(c)
      PROVE  RR!Obtain(c) \/ RR!Return(c) \/ UNCHANGED RR!rrVars
  <2>1. PICK from, to \in CallPCs : Goto(c, from, to) /\ from # "idle"
    BY <1>2 DEF CallerStep, Register, Write, ReceiveReply, SeeDone, GiveUp, Cleanup,
                Notify, CallPCs
  <2>2. /\ call[c].pc = from /\ call'[c].pc = to
        /\ \A d \in Callers : /\ d # c => call'[d] = call[d]
                              /\ call'[d].tag = call[d].tag
    BY <2>1, GotoLemma DEF MuxInv
  <2>3. TagOf' = TagOf
    BY <2>2
  <2>4. UNCHANGED <<calls, answered>>
    BY <1>2 DEF CallerStep, Register, Write, ReceiveReply, SeeDone, GiveUp, Cleanup,
                Notify, childVars
  <2>5. CASE ReceiveReply(c)
    <3>1. /\ call[c].pc = "select" /\ call'[c].pc = "cleanup"
          /\ chan[c] # <<>> /\ out' = [out EXCEPT ![c] = chan[c]]
      BY <2>2, <2>5, GotoLemma DEF ReceiveReply, CallPCs, MuxInv
    <3>2. /\ chan[c] = <<call[c].tag>> /\ call[c].tag \in answered /\ out[c] = <<>>
      BY <3>1 DEF AllocInv
    <3>3. Busy' = Busy
      BY <2>2, <3>1
    <3>4. QED
      BY <2>1, <2>2, <2>3, <2>4, <3>1, <3>2, <3>3 DEF RR!Obtain
  <2>6. CASE ~ReceiveReply(c)
    <3>1. UNCHANGED out
      BY <1>2, <2>6 DEF CallerStep, Register, Write, SeeDone, GiveUp, Cleanup, Notify
    <3>2. CASE to = "idle"
      <4>1. Busy' = Busy \ {c} /\ c \in Busy
        BY <2>1, <2>2, <3>2
      <4>2. QED
        BY <2>3, <2>4, <3>1, <4>1 DEF RR!Return
    <3>3. CASE to # "idle"
      <4>1. Busy' = Busy
        BY <2>1, <2>2, <3>3
      <4>2. QED
        BY <2>3, <2>4, <3>1, <4>1 DEF RR!rrVars
    <3>4. QED
      BY <3>2, <3>3
  <2>7. QED
    BY <2>5, <2>6
<1>3. CASE ChildAnswer
  <2>1. PICK r \in todo : answered' = answered \cup {r.tag}
    BY <1>3 DEF ChildAnswer
  <2>2. r.tag \in 1 .. calls /\ r.tag \in 1 .. MaxCalls
    BY DEF AllocInv, RequestLine, MuxInv, TypeOK
  <2>3. UNCHANGED <<calls, call, out>>
    BY <1>3 DEF ChildAnswer, callerVars
  <2>4. Busy' = Busy /\ TagOf' = TagOf
    BY <2>3
  <2>5. RR!Answer(r.tag)
    BY <2>1, <2>2, <2>3, <2>4 DEF RR!Answer
  <2>6. QED
    BY <2>2, <2>5 DEF RR!RRNext
<1>4. CASE ReaderStep \/ ChildRead \/ ChildLine \/ ChildExit \/ Close \/ UNCHANGED vars
  <2>1. UNCHANGED <<calls, call, out, answered>>
    BY <1>4 DEF ReaderStep, ReadLine, Deliver, EndOfOutput, ChildRead, ChildLine,
                ChildExit, Close, vars, callerVars, childVars
  <2>2. Busy' = Busy /\ TagOf' = TagOf
    BY <2>1
  <2>3. QED
    BY <2>1, <2>2 DEF RR!rrVars
<1>5. ~ \E c \in Callers, id \in RawIDs : BeginRaw(c, id)
  BY DEF AllocOnly
<1> HIDE DEF Busy, TagOf
<1>6. QED
  BY <1>1, <1>2, <1>3, <1>4, <1>5 DEF Next, RR!RRNext

\* With allocated ids only the process implements the request/reply service:
\* every step is a step of RequestReply or leaves its variables alone.
THEOREM ProcessImplementsRequestReply ==
  ASSUME AllocOnly
  PROVE  Spec => ImplementsRequestReply
<1>1. MuxInv /\ AllocInv /\ [Next]_vars => [RR!RRNext]_(RR!rrVars)
  BY StepRefines
<1>2. QED
  BY <1>1, InitRefines, SpecAlloc, PTL DEF Spec, ImplementsRequestReply, RR!RRSpec

-----------------------------------------------------------------------------
(* The pool of processes *)

UserType == [pc : {"away", "got", "init", "session", "closing"}, proc : Procs \cup {NoProc}]

\* The pool never holds more entries than the limit.
PoolBounded == Cardinality(Pooled) <= MaxProcesses

\* A running child whose readLoop lives is in the pool under its own key.
ServingIsPooled == \A p \in Serving : pool[key[p]] = p

LEMMA PoolInitInv == PoolInit => PoolTypeOK /\ PoolBounded /\ ServingIsPooled
<1> SUFFICES ASSUME PoolInit PROVE PoolTypeOK /\ PoolBounded /\ ServingIsPooled
  OBVIOUS
<1> USE ManagerAssumption
<1>1. Pooled = {}
  BY DEF PoolInit, Pooled
<1>2. Cardinality(Pooled) = 0
  BY <1>1, FS_EmptySet
<1>3. PoolTypeOK
  <2>1. (CHOOSE k \in Keys : TRUE) \in Keys
    OBVIOUS
  <2>2. key \in [Procs -> Keys]
    BY <2>1 DEF PoolInit
  <2>3. user \in [Users -> UserType]
    BY DEF PoolInit, Away, UserType
  <2>4. pool \in [Keys -> Procs \cup {NoProc}] /\ unused \in [Procs -> 0 .. IdleTTL + 1]
    BY DEF PoolInit
  <2> QED BY <2>2, <2>3, <2>4 DEF PoolInit, PoolTypeOK, UserType
<1> QED
  BY <1>2, <1>3 DEF PoolInit, PoolBounded, ServingIsPooled, Serving

-----------------------------------------------------------------------------
(* Types and capacity *)

\* Steps of users and children: only Spawn and Refuse touch the pool.
LEMMA UserTypes ==
  ASSUME PoolTypeOK, NEW u \in Users, GetOrCreate(u) \/ UserStep(u) \/ CallTool(u) \/ Leave(u)
  PROVE  PoolTypeOK'
<1> USE ManagerAssumption DEF PoolTypeOK
<1>1. ASSUME NEW k \in Keys, Hit(u, k) PROVE PoolTypeOK'
  BY <1>1 DEF Hit, Pooled
<1>2. ASSUME NEW k \in Keys, Refuse(u, k) PROVE PoolTypeOK'
  BY <1>2 DEF Refuse, Pooled
<1>3. ASSUME NEW k \in Keys, NEW p \in Procs, Spawn(u, k, p) PROVE PoolTypeOK'
  BY <1>3 DEF Spawn, Pooled
<1>4. CASE StartInit(u) \/ CallTool(u)
  <2>1. /\ unused' = [unused EXCEPT ![user[u].proc] = 0]
        /\ idle' = idle \ {user[u].proc}
        /\ \E pc \in {"init", "session"} : user' = [user EXCEPT ![u].pc = pc]
        /\ UNCHANGED <<pool, running, reading, input, key, holder, left, cur, stopped>>
    BY <1>4 DEF StartInit, CallTool, Request
  <2>2. unused' \in [Procs -> 0 .. IdleTTL + 1]
    <3>1. 0 \in 0 .. IdleTTL + 1
      OBVIOUS
    <3>2. \A p \in Procs : unused'[p] = 0 \/ unused'[p] = unused[p]
      BY <2>1
    <3>3. unused' = [p \in Procs |-> unused'[p]]
      BY <2>1
    <3> QED BY <3>1, <3>2, <3>3
  <2>3. user' \in [Users -> UserType]
    BY <2>1 DEF UserType
  <2> QED BY <2>1, <2>2, <2>3 DEF Pooled, UserType
<1>5. CASE InitOk(u)
  BY <1>5 DEF InitOk, Pooled
<1>6. CASE InitFail(u)
  BY <1>6 DEF InitFail, Pooled
<1>7. CASE InitClosed(u) \/ Leave(u)
  BY <1>7 DEF InitClosed, Leave, Away, Pooled
<1> QED
  BY <1>1, <1>2, <1>3, <1>4, <1>5, <1>6, <1>7 DEF GetOrCreate, UserStep

LEMMA SweepTypes ==
  ASSUME PoolTypeOK, Start("gc") \/ Start("shutdown") \/ Sweep
  PROVE  PoolTypeOK'
<1> USE ManagerAssumption DEF PoolTypeOK
<1>1. CASE Start("gc") \/ Start("shutdown")
  BY <1>1 DEF Start, Pooled
<1>2. ASSUME NEW k \in Keys, SweepDead(k) PROVE PoolTypeOK'
  BY <1>2 DEF SweepDead, NoCur, Pooled
<1>3. ASSUME NEW k \in Keys, SweepKeep(k) PROVE PoolTypeOK'
  BY <1>3 DEF SweepKeep, NoCur, Pooled
<1>4. ASSUME NEW k \in Keys, SweepPick(k) PROVE PoolTypeOK'
  BY <1>4 DEF SweepPick, NoCur, Pooled
<1>5. CASE SweepClose
  BY <1>5 DEF SweepClose, Pooled
<1>6. CASE SweepClosed
  BY <1>6 DEF SweepClosed, Pooled
<1>7. CASE SweepEnd
  BY <1>7 DEF SweepEnd, Pooled
<1> QED BY <1>1, <1>2, <1>3, <1>4, <1>5, <1>6, <1>7 DEF Sweep

LEMMA OtherTypes ==
  ASSUME PoolTypeOK,
         \/ \E p \in Procs : Exit(p) \/ ReaderEnds(p)
         \/ Tick
         \/ UNCHANGED poolVars
  PROVE  PoolTypeOK'
<1> USE ManagerAssumption DEF PoolTypeOK
<1>1. ASSUME NEW p \in Procs, Exit(p) \/ ReaderEnds(p) PROVE PoolTypeOK'
  BY <1>1 DEF Exit, ReaderEnds, Pooled
<1>2. CASE Tick
  BY <1>2 DEF Tick, Pooled
<1>3. CASE UNCHANGED poolVars
  BY <1>3 DEF poolVars, Pooled
<1> QED BY <1>1, <1>2, <1>3

LEMMA NextTypes == PoolTypeOK /\ [PoolNext]_poolVars => PoolTypeOK'
BY UserTypes, SweepTypes, OtherTypes DEF PoolNext

\* A step that adds no entry keeps the capacity.
LEMMA FewerPooled == ASSUME PoolBounded, Pooled' \subseteq Pooled, MaxProcesses \in Nat
                     PROVE  PoolBounded'
<1>1. IsFiniteSet(Pooled)
  BY FS_Subset, ManagerAssumption DEF Pooled
<1>2. /\ Cardinality(Pooled') <= Cardinality(Pooled)
      /\ IsFiniteSet(Pooled')
  BY <1>1, FS_Subset
<1>3. Cardinality(Pooled) \in Nat /\ Cardinality(Pooled') \in Nat
  BY <1>1, <1>2, FS_CardinalityType
<1> QED BY <1>2, <1>3 DEF PoolBounded

LEMMA NextBounded == PoolTypeOK /\ PoolBounded /\ [PoolNext]_poolVars => PoolBounded'
<1> SUFFICES ASSUME PoolTypeOK, PoolBounded, [PoolNext]_poolVars PROVE PoolBounded'
  OBVIOUS
<1>1. ASSUME NEW u \in Users, NEW k \in Keys, NEW p \in Procs, Spawn(u, k, p)
      PROVE  PoolBounded'
  <2>1. IsFiniteSet(Pooled \ {k})
    BY FS_Subset, ManagerAssumption DEF Pooled
  <2>2. Pooled' = (Pooled \ {k}) \cup {k}
    BY <1>1, ManagerAssumption DEF Spawn, Pooled, PoolTypeOK
  <2>3. Cardinality(Pooled') = Cardinality(Pooled \ {k}) + 1
    BY <2>1, <2>2, FS_AddElement
  <2>4. Cardinality(Pooled \ {k}) \in Nat /\ Cardinality(Pooled \ {k}) < MaxProcesses
    BY <1>1, <2>1, FS_CardinalityType DEF Spawn
  <2> QED BY <2>3, <2>4, ManagerAssumption DEF PoolBounded
<1>2. CASE ~ \E u \in Users, k \in Keys, p \in Procs : Spawn(u, k, p)
  <2>1. Pooled' \subseteq Pooled
    <3> USE DEF Pooled, PoolTypeOK
    <3>1. ASSUME NEW u \in Users, GetOrCreate(u) PROVE Pooled' \subseteq Pooled
      BY <1>2, <3>1 DEF GetOrCreate, Hit, Refuse
    <3>2. ASSUME NEW u \in Users, UserStep(u) \/ CallTool(u) \/ Leave(u)
          PROVE  Pooled' \subseteq Pooled
      BY <3>2 DEF UserStep, StartInit, InitOk, InitFail, InitClosed, CallTool, Leave, Request
    <3>3. CASE Start("gc") \/ Start("shutdown") \/ Sweep
      BY <3>3 DEF Start, Sweep, SweepDead, SweepKeep, SweepPick, SweepClose, SweepClosed, SweepEnd
    <3>4. ASSUME NEW p \in Procs, Exit(p) \/ ReaderEnds(p) PROVE Pooled' \subseteq Pooled
      BY <3>4 DEF Exit, ReaderEnds
    <3>5. CASE Tick \/ UNCHANGED poolVars
      BY <3>5 DEF Tick, poolVars
    <3> QED BY <3>1, <3>2, <3>3, <3>4, <3>5 DEF PoolNext
  <2> QED BY <2>1, FewerPooled, ManagerAssumption
<1> QED BY <1>1, <1>2

-----------------------------------------------------------------------------
(* Children that serve *)

LEMMA NextServing ==
  ASSUME PoolTypeOK, ServingIsPooled, [PoolNext]_poolVars
  PROVE  ServingIsPooled'
<1> USE DEF ServingIsPooled, Serving, PoolTypeOK
<1>1. ASSUME NEW u \in Users, NEW k \in Keys, Hit(u, k) \/ Refuse(u, k)
      PROVE  ServingIsPooled'
  BY <1>1, ManagerAssumption DEF Hit, Refuse, Missing, IsAlive
<1>2. ASSUME NEW u \in Users, NEW k \in Keys, NEW p \in Procs, Spawn(u, k, p)
      PROVE  ServingIsPooled'
  <2>1. \A q \in Serving : q # p /\ key[q] # k
    BY <1>2, ManagerAssumption DEF Spawn, Missing, IsAlive, Unreferenced
  <2> QED BY <1>2, <2>1 DEF Spawn
<1>3. ASSUME NEW u \in Users, UserStep(u) \/ CallTool(u) \/ Leave(u)
      PROVE  ServingIsPooled'
  BY <1>3 DEF UserStep, StartInit, InitOk, InitFail, InitClosed, CallTool, Leave, Request
<1>4. CASE Start("gc") \/ Start("shutdown") \/ SweepClose \/ SweepEnd
  BY <1>4 DEF Start, SweepClose, SweepEnd
<1>5. ASSUME NEW k \in Keys, SweepDead(k) \/ SweepKeep(k) \/ SweepPick(k)
      PROVE  ServingIsPooled'
  BY <1>5 DEF SweepDead, SweepKeep, SweepPick, IsAlive
<1>6. CASE SweepClosed
  BY <1>6 DEF SweepClosed
<1>7. ASSUME NEW p \in Procs, Exit(p) \/ ReaderEnds(p) PROVE ServingIsPooled'
  BY <1>7 DEF Exit, ReaderEnds
<1>8. CASE Tick \/ UNCHANGED poolVars
  BY <1>8 DEF Tick, poolVars
<1> QED
  BY <1>1, <1>2, <1>3, <1>4, <1>5, <1>6, <1>7, <1>8 DEF PoolNext, GetOrCreate, Sweep

\* The serving children inject into the pooled keys.
LEMMA ServingFits ==
  ASSUME PoolTypeOK, PoolBounded, ServingIsPooled PROVE ServingBounded
<1> DEFINE f == [p \in Serving |-> key[p]]
<1>1. \A p \in Serving : key[p] \in Pooled
  BY ManagerAssumption DEF PoolTypeOK, ServingIsPooled, Serving, Pooled
<1>2. f \in Injection(Serving, Pooled)
  BY <1>1 DEF ServingIsPooled, Injection, IsInjective
<1>3. IsFiniteSet(Pooled)
  BY FS_Subset, ManagerAssumption DEF Pooled
<1>4. /\ IsFiniteSet(Serving)
      /\ Cardinality(Serving) <= Cardinality(Pooled)
  BY <1>2, <1>3, FS_Injection
<1>5. Cardinality(Serving) \in Nat /\ Cardinality(Pooled) \in Nat
  BY <1>3, <1>4, FS_CardinalityType
<1> QED BY <1>4, <1>5, ManagerAssumption DEF PoolBounded, ServingBounded

-----------------------------------------------------------------------------
(* Theorems *)

\* Type correctness of the manager; a sweep is under way only while it holds
\* the lock.
THEOREM ManagerTypes == PoolSpec => []PoolTypeOK
BY PoolInitInv, NextTypes, PTL DEF PoolSpec

\* The pool never exceeds its capacity, whatever children and users do.
THEOREM PoolCapacity == PoolSpec => []PoolBounded
<1>1. PoolTypeOK /\ PoolBounded /\ [PoolNext]_poolVars => (PoolTypeOK /\ PoolBounded)'
  BY NextTypes, NextBounded
<1> QED BY PoolInitInv, <1>1, PTL DEF PoolSpec

\* Two children with a living readLoop never run for one subject key.
THEOREM OneChildPerKey == PoolSpec => []OneServingPerKey
<1>1. PoolTypeOK /\ ServingIsPooled /\ [PoolNext]_poolVars => (PoolTypeOK /\ ServingIsPooled)'
  BY NextTypes, NextServing
<1>2. PoolTypeOK /\ ServingIsPooled => OneServingPerKey
  BY DEF ServingIsPooled, Serving, OneServingPerKey
<1> QED BY PoolInitInv, <1>1, <1>2, PTL DEF PoolSpec

\* The limit holds for the children that run with a living readLoop.
THEOREM ChildrenWithinLimit == PoolSpec => []ServingBounded
<1>1. PoolTypeOK /\ PoolBounded /\ ServingIsPooled /\ [PoolNext]_poolVars
        => (PoolTypeOK /\ PoolBounded /\ ServingIsPooled)'
  BY NextTypes, NextBounded, NextServing
<1>2. PoolTypeOK /\ PoolBounded /\ ServingIsPooled => ServingBounded
  BY ServingFits
<1> QED BY PoolInitInv, <1>1, <1>2, PTL DEF PoolSpec
=============================================================================
