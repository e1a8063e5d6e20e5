---------------------------- MODULE StdioProcess ----------------------------
(***************************************************************************)
(* One STDIO MCP server process and the goroutines that share it           *)
(* (backend/internal/stdio/process.go).  Callers register a channel in     *)
(* p.pending under p.pendMu, write the request to the child's stdin and    *)
(* wait in a select; one readLoop goroutine reads the child's stdout and   *)
(* hands each response to the channel registered under its id, holding     *)
(* p.pendMu while it sends.                                                *)
(*                                                                         *)
(* A JSON-RPC id is a number of IDs.  The ghost tag of a request is its    *)
(* serial number among all calls, so an answer can be recognised as the    *)
(* answer to one particular call although ids may repeat; tag 0 marks a    *)
(* line that answers nothing.                                              *)
(***************************************************************************)
EXTENDS Naturals, Sequences, FiniteSets

CONSTANTS
  Callers,     \* goroutines that call this process
  NoCaller,    \* the value of pending[id] when the map has no entry id
  RawIDs,      \* ids MCP clients put in requests forwarded by SendRawRequest
  ServerIDs,   \* ids the child uses for requests of its own
  Oversize,    \* TRUE if the child may write a line over the scanner's 10 MB
  PipeCap,     \* lines the stdin and the stdout pipe hold
  MaxCalls     \* bound on the number of calls

IDs  == 1 .. MaxCalls
Tags == 0 .. MaxCalls

ASSUME ProcessAssumption ==
  /\ NoCaller \notin Callers
  /\ MaxCalls \in Nat /\ PipeCap \in Nat \ {0}
  /\ RawIDs \subseteq IDs /\ ServerIDs \subseteq IDs
  /\ Oversize \in BOOLEAN

VARIABLES
  nextID,       \* p.nextID, advanced by allocID
  calls,        \* ghost: number of calls begun
  call,         \* per caller: where its sendRequest is, its id, tag and kind
  pending,      \* p.pending: id -> the caller whose channel is registered
  chan,         \* the caller's response channel, of capacity one
  out,          \* what its last sendRequest returned: <<>> is an error
  stdin,        \* request lines in the child's stdin pipe
  stdout,       \* lines in its stdout pipe
  todo,         \* requests the child has read and not answered
  answered,     \* ghost: tags the child has answered
  childAlive,   \* the OS process is running
  stdinOpen,    \* our end of stdin is open
  waited,       \* Close has called cmd.Wait
  reader,       \* readLoop: "scan", "deliver" (holding pendMu) or "ended"
  inHand,       \* the response readLoop is delivering
  initialized   \* p.initialized

callerVars == <<nextID, calls, call, out, initialized>>
childVars  == <<todo, answered>>
osVars     == <<childAlive, stdinOpen, waited>>
readVars   == <<reader, inHand>>
vars == <<callerVars, pending, chan, stdin, stdout, childVars, osVars, readVars>>

Line(id, t) == [id |-> id, tag |-> t]
NoLine      == Line(0, 0)
OverLine    == Line(MaxCalls + 1, 0)      \* an oversize line
Notification == NoLine                    \* a line that carries no id

PendMuFree == reader # "deliver"
Done       == reader = "ended"            \* p.done is closed

Init ==
  /\ nextID = 0 /\ calls = 0
  /\ call = [c \in Callers |->
               [pc |-> "idle", kind |-> "call", id |-> 0, tag |-> 0]]
  /\ pending = [i \in IDs |-> NoCaller]
  /\ chan = [c \in Callers |-> <<>>]
  /\ out = [c \in Callers |-> <<>>]
  /\ stdin = <<>> /\ stdout = <<>> /\ todo = {} /\ answered = {}
  /\ childAlive = TRUE /\ stdinOpen = TRUE /\ waited = FALSE
  /\ reader = "scan" /\ inHand = NoLine
  /\ initialized = FALSE

-----------------------------------------------------------------------------
(* Callers *)

Goto(c, from, to) ==
  /\ call[c].pc = from
  /\ call' = [call EXCEPT ![c].pc = to]

\* The next id of the process; one process counts all its callers' requests.
AllocID == nextID + 1

\* Mutant: the response channel of the previous call is used again.
StartCall_ReusedChannel(c, kind, id) ==
  /\ call[c].pc = "idle"
  /\ calls < MaxCalls
  /\ calls' = calls + 1
  /\ call' = [call EXCEPT ![c] =
               [pc |-> "register", kind |-> kind, id |-> id, tag |-> calls + 1]]
  /\ out' = [out EXCEPT ![c] = <<>>]
  /\ UNCHANGED <<chan, pending, stdin, stdout, childVars, osVars, readVars, initialized>>

StartCall(c, kind, id) ==
  /\ call[c].pc = "idle"
  /\ calls < MaxCalls
  /\ calls' = calls + 1
  /\ call' = [call EXCEPT ![c] =
               [pc |-> "register", kind |-> kind, id |-> id, tag |-> calls + 1]]
  /\ chan' = [chan EXCEPT ![c] = <<>>]
  /\ out' = [out EXCEPT ![c] = <<>>]
  /\ UNCHANGED <<pending, stdin, stdout, childVars, osVars, readVars, initialized>>

\* Initialize ("init") and ListTools, CallTool, ... ("call") take a fresh id.
BeginAllocated(c, kind) ==
  /\ StartCall(c, kind, AllocID)
  /\ nextID' = AllocID

\* SendRawRequest keeps the id the MCP client chose.
BeginRaw(c, id) ==
  /\ StartCall(c, "raw", id)
  /\ UNCHANGED nextID

\* p.pending[reqID] = responseCh overwrites any entry of the same id.
Register(c) ==
  /\ PendMuFree
  /\ Goto(c, "register", "write")
  /\ pending' = [pending EXCEPT ![call[c].id] = c]
  /\ UNCHANGED <<nextID, calls, out, initialized, chan, stdin, stdout,
                 childVars, osVars, readVars>>

\* A write blocks while the pipe is full, with no timeout of its own, and
\* fails once the pipe is closed at either end.
WriteOK   == stdinOpen /\ childAlive /\ Len(stdin) < PipeCap
WriteFail == ~(stdinOpen /\ childAlive)

Write(c) ==
  /\ \/ /\ WriteOK
        /\ Goto(c, "write", "select")
        /\ stdin' = Append(stdin, Line(call[c].id, call[c].tag))
     \/ /\ WriteFail
        /\ Goto(c, "write", "cleanup")
        /\ UNCHANGED stdin
  /\ UNCHANGED <<nextID, calls, out, initialized, pending, chan, stdout,
                 childVars, osVars, readVars>>

\* The four cases of the select; when several are ready Go picks any.
ReceiveReply(c) ==
  /\ chan[c] # <<>>
  /\ Goto(c, "select", "cleanup")
  /\ out' = [out EXCEPT ![c] = chan[c]]
  /\ chan' = [chan EXCEPT ![c] = <<>>]
  /\ UNCHANGED <<nextID, calls, initialized, pending, stdin, stdout,
                 childVars, osVars, readVars>>

SeeDone(c) ==
  /\ Done
  /\ Goto(c, "select", "cleanup")
  /\ UNCHANGED <<nextID, calls, out, initialized, pending, chan, stdin, stdout,
                 childVars, osVars, readVars>>

\* Mutant: the wait has no time limit.
GiveUp_Never(c) == FALSE /\ UNCHANGED vars

\* ctx.Done() or the 60 s timer: possible at any moment of the wait.
GiveUp(c) ==
  /\ Goto(c, "select", "cleanup")
  /\ UNCHANGED <<nextID, calls, out, initialized, pending, chan, stdin, stdout,
                 childVars, osVars, readVars>>

\* Mutant: no deferred delete.
Cleanup_KeepsEntry(c) ==
  /\ PendMuFree
  /\ \/ /\ call[c].kind = "init" /\ out[c] # <<>>
        /\ Goto(c, "cleanup", "notify") /\ initialized' = TRUE
     \/ Goto(c, "cleanup", "idle") /\ UNCHANGED initialized
  /\ UNCHANGED <<pending, nextID, calls, out, chan, stdin, stdout, childVars, osVars, readVars>>

\* The deferred delete(p.pending, reqID), whoever owns the entry by now; an
\* Initialize whose answer is a result goes on to set p.initialized and notify,
\* one whose answer is an error or cannot be parsed returns at once.
Cleanup(c) ==
  /\ PendMuFree
  /\ call[c].pc = "cleanup"
  /\ pending' = [pending EXCEPT ![call[c].id] = NoCaller]
  /\ \/ /\ call[c].kind = "init" /\ out[c] # <<>>
        /\ Goto(c, "cleanup", "notify") /\ initialized' = TRUE
     \/ Goto(c, "cleanup", "idle") /\ UNCHANGED initialized
  /\ UNCHANGED <<nextID, calls, out, chan, stdin, stdout, childVars, osVars, readVars>>

\* sendNotification: a failure to write is only logged.
Notify(c) ==
  /\ \/ WriteOK /\ stdin' = Append(stdin, Notification)
     \/ WriteFail /\ UNCHANGED stdin
  /\ Goto(c, "notify", "idle")
  /\ UNCHANGED <<nextID, calls, out, initialized, pending, chan, stdout,
                 childVars, osVars, readVars>>

-----------------------------------------------------------------------------
(* readLoop *)

\* Scan a line, take pendMu, look the id up; a line nobody waits for, or
\* without an id, is dropped.
ReadLine ==
  /\ reader = "scan" /\ stdout # <<>> /\ Head(stdout) # OverLine
  /\ stdout' = Tail(stdout)
  /\ IF Head(stdout).id \in IDs /\ pending[Head(stdout).id] # NoCaller
     THEN reader' = "deliver" /\ inHand' = Head(stdout)
     ELSE UNCHANGED readVars
  /\ UNCHANGED <<callerVars, pending, chan, stdin, childVars, osVars>>

\* Mutant: readLoop leaves the entry to the deferred delete.
Deliver_KeepsEntry ==
  /\ reader = "deliver"
  /\ chan[pending[inHand.id]] = <<>>
  /\ chan' = [chan EXCEPT ![pending[inHand.id]] = <<inHand.tag>>]
  /\ reader' = "scan" /\ inHand' = NoLine
  /\ UNCHANGED <<callerVars, pending, stdin, stdout, childVars, osVars>>

\* ch <- &resp; delete(p.pending, reqID); pendMu.Unlock().  The send waits
\* for room in the channel, and pendMu stays locked meanwhile.
Deliver ==
  LET c == pending[inHand.id] IN
  /\ reader = "deliver"
  /\ chan[c] = <<>>
  /\ chan' = [chan EXCEPT ![c] = <<inHand.tag>>]
  /\ pending' = [pending EXCEPT ![inHand.id] = NoCaller]
  /\ reader' = "scan" /\ inHand' = NoLine
  /\ UNCHANGED <<callerVars, stdin, stdout, childVars, osVars>>

\* The scanner stops at end of file, at a line it cannot hold, or when Wait
\* has reaped the child and closed our end of the pipe, losing what was in it.
EndOfOutput ==
  /\ reader = "scan"
  /\ \/ stdout = <<>> /\ ~childAlive
     \/ stdout # <<>> /\ Head(stdout) = OverLine
     \/ waited /\ ~childAlive
  /\ reader' = "ended"
  /\ stdout' = <<>>
  /\ UNCHANGED <<callerVars, inHand, pending, chan, stdin, childVars, osVars>>

-----------------------------------------------------------------------------
(* The child process, as process.go uses it, and Close *)

ChildRead ==
  /\ childAlive /\ stdin # <<>>
  /\ stdin' = Tail(stdin)
  /\ todo' = IF Head(stdin) = Notification THEN todo ELSE todo \cup {Head(stdin)}
  /\ UNCHANGED <<callerVars, pending, chan, stdout, answered, osVars, readVars>>

\* Answers come in any order, each once, with the id of the request.
ChildAnswer ==
  /\ childAlive /\ Len(stdout) < PipeCap
  /\ \E r \in todo :
       /\ todo' = todo \ {r}
       /\ stdout' = Append(stdout, r)
       /\ answered' = answered \cup {r.tag}
  /\ UNCHANGED <<callerVars, pending, chan, stdin, osVars, readVars>>

\* A request the child makes of its client carries an id of the child's own;
\* readLoop parses it as a response with that id.  An oversize line too.
ChildLine ==
  /\ childAlive /\ Len(stdout) < PipeCap
  /\ \E l \in {Line(i, 0) : i \in ServerIDs} \cup (IF Oversize THEN {OverLine} ELSE {}) :
       stdout' = Append(stdout, l)
  /\ UNCHANGED <<callerVars, pending, chan, stdin, childVars, osVars, readVars>>

\* The child crashes, or exits because its stdin was closed.
ChildExit ==
  /\ childAlive
  /\ childAlive' = FALSE
  /\ stdin' = <<>> /\ todo' = {}
  /\ UNCHANGED <<callerVars, pending, chan, stdout, answered, stdinOpen, waited, readVars>>

\* Close: stdin.Close(), then cmd.Wait() in a goroutine.
Close ==
  /\ ~waited
  /\ stdinOpen' = FALSE /\ waited' = TRUE
  /\ UNCHANGED <<callerVars, pending, chan, stdin, stdout, childVars, childAlive, readVars>>

\* Mutant: Close waits for the child without a limit.
Kill_Never == FALSE /\ ChildExit

\* Close's five-second timer: a child that is still there is killed.
Kill == waited /\ ChildExit

-----------------------------------------------------------------------------
CallerStep(c) ==
  \/ Register(c) \/ Write(c) \/ ReceiveReply(c) \/ SeeDone(c) \/ GiveUp(c)
  \/ Cleanup(c) \/ Notify(c)

ReaderStep == ReadLine \/ Deliver \/ EndOfOutput

Next ==
  \/ \E c \in Callers : CallerStep(c)
  \/ \E c \in Callers, kind \in {"init", "call"} : BeginAllocated(c, kind)
  \/ \E c \in Callers, id \in RawIDs : BeginRaw(c, id)
  \/ ReaderStep
  \/ ChildRead \/ ChildAnswer \/ ChildLine \/ ChildExit \/ Close

Spec == Init /\ [][Next]_vars

\* Goroutines are scheduled, the 60 s and 5 s timers fire.  The child is not
\* obliged to read, to answer or to exit.
FairSpec ==
  /\ Spec
  /\ \A c \in Callers : WF_vars(CallerStep(c))
  /\ WF_vars(ReaderStep)
  /\ WF_vars(Kill)

-----------------------------------------------------------------------------
(* Properties *)

CallPCs == {"idle", "register", "write", "select", "cleanup", "notify"}
LineSet == [id : 0 .. MaxCalls + 1, tag : Tags]
Replies == {<<>>} \cup {<<t>> : t \in Tags}

\* Types of the variables.
TypeOK ==
  /\ nextID \in Nat /\ calls \in 0 .. MaxCalls /\ nextID <= calls
  /\ call \in [Callers -> [pc : CallPCs, kind : {"init", "call", "raw"},
                           id : 0 .. MaxCalls, tag : Tags]]
  /\ \A c \in Callers : call[c].pc # "idle" => call[c].id \in IDs
  /\ pending \in [IDs -> Callers \cup {NoCaller}]
  /\ chan \in [Callers -> Replies] /\ out \in [Callers -> Replies]
  /\ stdin \in Seq(LineSet) /\ stdout \in Seq(LineSet)
  /\ todo \subseteq LineSet /\ answered \subseteq Tags
  /\ childAlive \in BOOLEAN /\ stdinOpen \in BOOLEAN /\ waited \in BOOLEAN
  /\ reader \in {"scan", "deliver", "ended"} /\ inHand \in LineSet
  /\ initialized \in BOOLEAN

\* An entry of p.pending belongs to a call in flight under that id whose
\* channel is still empty.
PendingWaits ==
  \A i \in IDs : pending[i] # NoCaller =>
    /\ call[pending[i]].pc \in {"write", "select", "cleanup"}
    /\ call[pending[i]].id = i
    /\ chan[pending[i]] = <<>>

\* readLoop never blocks in ch <- &resp while it holds pendMu, which would
\* lock every other caller of the process out for good, whatever ids clients
\* and server choose.
DeliveryNeverBlocks ==
  reader = "deliver" =>
    /\ pending[inHand.id] # NoCaller
    /\ chan[pending[inHand.id]] = <<>>

\* A sendRequest that returns a response returns the response to its request
\* ("writes a JSON-RPC request to stdin and waits for the response").
OwnAnswer ==
  \A c \in Callers : out[c] # <<>> => out[c] = <<call[c].tag>>

\* Once it has written its request, a call returns, even if the child never
\* answers, hangs or dies.
WrittenCallReturns ==
  \A c \in Callers : call[c].pc \in {"select", "cleanup"} ~> call[c].pc \in {"notify", "idle"}

\* Close releases every caller, including one blocked in a write on a full pipe.
CloseReleasesCallers ==
  \A c \in Callers : waited /\ call[c].pc # "idle" ~> call[c].pc = "idle"

\* Close ends the process for IsAlive, which asks for Done: Wait or Kill ends
\* readLoop.
CloseEndsProcess == waited ~> Done

\* The process as a request/reply service: a call returns with the answer to
\* its own request or with an error.
RR == INSTANCE RequestReply WITH
        asked    <- calls,
        busy     <- {c \in Callers : call[c].pc # "idle"},
        tag      <- [c \in Callers |-> call[c].tag],
        result   <- out

ImplementsRequestReply == RR!RRSpec
=============================================================================
