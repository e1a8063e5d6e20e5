------------------------------ MODULE McpClient ------------------------------
(***************************************************************************)
(* The gateway's client of one HTTP upstream (backend/internal/mcp/        *)
(* client.go), as proxy.go uses it: one goroutine initializes it, closes   *)
(* it if that fails, and others call it once it is initialized.            *)
(*                                                                         *)
(* Initialize tries Streamable HTTP and falls back to SSE: a GET whose     *)
(* body streams events, the first of which names the endpoint requests     *)
(* are posted to.  Over SSE an answer comes in the body of the POST (200)  *)
(* or, after a 202, on the stream, where readSSEEvents hands it to the     *)
(* channel registered under its id, holding c.mu while it sends.           *)
(*                                                                         *)
(* Ids and ghost tags are as in StdioProcess.  Session ids, headers and    *)
(* the endpoint's URL are left out: they decide nothing here.              *)
(***************************************************************************)
EXTENDS Naturals, Sequences, FiniteSets

CONSTANTS
  Callers,     \* goroutines that use this client
  Opener,      \* the one that initializes it
  Forwarders,  \* those that forward a request of the MCP client as it is
  NoCaller,    \* the value of pending[id] when the map has no entry id
  Transports,  \* a target may be configured for: "http", "sse"
  RawIDs,      \* ids an MCP client puts in requests forwarded by SendRawRequest
  Reuses,      \* TRUE if one of them may come again, also while it is in use
  ServerIDs,   \* ids the server uses for requests of its own
  Notifies,    \* TRUE if the server may put a notification before its answer
  WireCap,     \* events the stream's connection holds
  MaxCalls     \* bound on the number of requests

IDs  == 1 .. MaxCalls \cup RawIDs
Tags == 0 .. MaxCalls
Line(id, t) == [id |-> id, tag |-> t]

ASSUME ClientAssumption ==
  /\ Opener \in Callers /\ Forwarders \subseteq Callers /\ NoCaller \notin Callers
  /\ Transports \subseteq {"http", "sse"}
  /\ MaxCalls \in Nat \ {0, 1} /\ WireCap \in Nat \ {0}
  /\ Notifies \in BOOLEAN /\ Reuses \in BOOLEAN
  /\ RawIDs \subseteq Nat /\ ServerIDs \subseteq IDs

VARIABLES
  nextID,       \* c.nextID
  calls,        \* ghost: number of requests begun
  call,         \* per caller: where it is, its request's id, tag and kind
  out,          \* what its last request returned: <<>> is an error
  pending,      \* c.sseResponses: id -> the caller whose channel is registered
  chan,         \* the caller's response channel, of capacity one
  post,         \* per caller, its POST: none, "sent", "answer" (200), "accepted" (202)
  received,     \* requests the server has received: it may answer any, ever again
  answered,     \* ghost: tags the server has answered
  configured,   \* transport of the target
  transport,    \* c.transportType
  phase,        \* of Initialize: new, http, sse (under way), ready, failed
  closed,       \* Close was called
  try,          \* which URL: 1, as configured, or 2, with /sse
  stream,       \* body of the GET to it: none, open, closed (by either end)
  probe,        \* goroutine that waits for the endpoint event: none, reading, or
                \* ended with a result in its channel: "endpoint", "error"
  reader,       \* readSSEEvents: none, reading, stuck (in a send), ended (sseDone closed)
  wire          \* events the server has put on the stream

clientVars == <<configured, transport, phase, closed>>
serverVars == <<received, answered>>
streamVars == <<try, stream, probe, reader, wire>>
vars == <<nextID, calls, call, out, pending, chan, post, serverVars, clientVars, streamVars>>

Tries  == 1 .. 2
\* MaxCalls is for two handshakes and more calls; there is one handshake to an SSE
\* target, and calls over HTTP share nothing.
Limit == IF transport = "http" THEN MaxCalls - 2
         ELSE IF configured = "sse" THEN MaxCalls - 1 ELSE MaxCalls
MuFree == reader # "stuck"

Init ==
  /\ nextID = 0 /\ calls = 0
  /\ call = [c \in Callers |-> [pc |-> "idle", kind |-> "call", id |-> 0, tag |-> 0]]
  /\ out = [c \in Callers |-> <<>>] /\ chan = [c \in Callers |-> <<>>]
  /\ pending = [i \in IDs |-> NoCaller]
  /\ post = [c \in Callers |-> "none"]
  /\ received = {} /\ answered = {}
  /\ configured \in Transports /\ transport = configured /\ phase = "new" /\ closed = FALSE
  /\ try = 1 /\ stream = [t \in Tries |-> "none"] /\ probe = [t \in Tries |-> "none"]
  /\ reader = "none" /\ wire = <<>>

-----------------------------------------------------------------------------
(* sendRequest *)

\* Mutant: the transport that was configured decides.
StartRequest_Configured(c, kind, id) ==
  /\ calls < Limit
  /\ calls' = calls + 1
  /\ call' = [call EXCEPT ![c] =
       [pc |-> IF configured = "sse" THEN "register" ELSE "post",
        kind |-> kind, id |-> id, tag |-> calls + 1]]
  /\ chan' = [chan EXCEPT ![c] = <<>>]
  /\ out' = [out EXCEPT ![c] = <<>>]
  /\ UNCHANGED <<pending, post, serverVars, configured, transport, closed>>

\* Mutant: the channel of the previous request is used again.
StartRequest_ReusedChannel(c, kind, id) ==
  /\ calls < Limit
  /\ calls' = calls + 1
  /\ call' = [call EXCEPT ![c] =
       [pc |-> IF transport = "sse" THEN "register" ELSE "post",
        kind |-> kind, id |-> id, tag |-> calls + 1]]
  /\ out' = [out EXCEPT ![c] = <<>>]
  /\ UNCHANGED <<chan, pending, post, serverVars, configured, transport, closed>>

\* A fresh channel is registered first if the transport is SSE.
StartRequest(c, kind, id) ==
  /\ calls < Limit
  /\ calls' = calls + 1
  /\ call' = [call EXCEPT ![c] =
       [pc |-> IF transport = "sse" THEN "register" ELSE "post",
        kind |-> kind, id |-> id, tag |-> calls + 1]]
  /\ chan' = [chan EXCEPT ![c] = <<>>]
  /\ out' = [out EXCEPT ![c] = <<>>]
  /\ UNCHANGED <<pending, post, serverVars, configured, transport, closed>>

\* Mutant: the id is counted twice.
Allocated_Twice(c, kind) == StartRequest(c, kind, nextID + 1) /\ nextID' = nextID + 2

Allocated(c, kind) == StartRequest(c, kind, nextID + 1) /\ nextID' = nextID + 1

Goto(c, from, to) == call[c].pc = from /\ call' = [call EXCEPT ![c].pc = to]

Register(c) ==
  /\ MuFree
  /\ Goto(c, "register", "post")
  /\ pending' = [pending EXCEPT ![call[c].id] = c]
  /\ UNCHANGED <<nextID, calls, out, chan, post, serverVars, clientVars, streamVars>>

Post(c) ==
  /\ Goto(c, "post", "exchange")
  /\ post' = [post EXCEPT ![c] = "sent"]
  /\ received' = received \cup {Line(call[c].id, call[c].tag)}
  /\ UNCHANGED <<nextID, calls, out, pending, chan, answered, clientVars, streamVars>>

\* The body of a 200 is taken as the answer; in one that is itself a stream of
\* events, the first event that parses.
ReadBody(c) ==
  /\ post[c] = "answer"
  /\ Goto(c, "exchange", "return")
  /\ \E t \in {call[c].tag} \cup (IF Notifies THEN {0} ELSE {}) : out' = [out EXCEPT ![c] = <<t>>]
  /\ post' = [post EXCEPT ![c] = "none"]
  /\ UNCHANGED <<nextID, calls, pending, chan, serverVars, clientVars, streamVars>>

\* A 202 is an error without a stream to wait on.
Accepted(c) ==
  /\ post[c] = "accepted"
  /\ Goto(c, "exchange", IF transport = "sse" THEN "select" ELSE "return")
  /\ post' = [post EXCEPT ![c] = "none"]
  /\ UNCHANGED <<nextID, calls, out, pending, chan, serverVars, clientVars, streamVars>>

\* No connection, another status, a broken body, the timeout or the context.
PostFails(c) ==
  /\ Goto(c, "exchange", "return")
  /\ post' = [post EXCEPT ![c] = "none"]
  /\ UNCHANGED <<nextID, calls, out, pending, chan, serverVars, clientVars, streamVars>>

\* The cases of the select; when several are ready Go picks any.
ReceiveReply(c) ==
  /\ chan[c] # <<>>
  /\ Goto(c, "select", "return")
  /\ out' = [out EXCEPT ![c] = chan[c]]
  /\ chan' = [chan EXCEPT ![c] = <<>>]
  /\ UNCHANGED <<nextID, calls, pending, post, serverVars, clientVars, streamVars>>

\* Mutant: the wait has no limit.
GiveUp_Never(c) == FALSE /\ UNCHANGED vars

\* sseDone, the context, 60 seconds.
GiveUp(c) ==
  /\ Goto(c, "select", "return")
  /\ UNCHANGED <<nextID, calls, out, pending, chan, post, serverVars, clientVars, streamVars>>

\* The deferred delete of c.sseResponses[id], whoever owns the entry by now.
Unregister(c) ==
  /\ MuFree
  /\ pending' = IF transport = "sse" THEN [pending EXCEPT ![call[c].id] = NoCaller] ELSE pending

Return(c) ==
  /\ call[c].kind # "init"
  /\ Goto(c, "return", "idle")
  /\ Unregister(c)
  /\ UNCHANGED <<nextID, calls, out, chan, post, serverVars, clientVars, streamVars>>

\* ListTools, CallTool, ... take a fresh id, SendRawRequest keeps the id of the MCP
\* client; a caller may still hold the client when it is closed.
BeginCall(c) ==
  /\ phase = "ready" /\ call[c].pc = "idle"
  /\ Allocated(c, "call")
  /\ UNCHANGED <<phase, streamVars>>

\* The gateway takes any id; where the MCP clients do not repeat one, it is new.
BeginRaw(c, id) ==
  /\ phase = "ready" /\ call[c].pc = "idle"
  /\ Reuses \/ \A m \in received \cup {call[d] : d \in Callers} : m.id # id
  /\ StartRequest(c, "call", id)
  /\ UNCHANGED <<nextID, phase, streamVars>>

-----------------------------------------------------------------------------
(* Initialize, connectSSE and Close *)

InitHTTP ==
  /\ phase = "new" /\ configured = "http"
  /\ Allocated(Opener, "init")
  /\ phase' = "http"
  /\ UNCHANGED streamVars

InitSSE ==
  /\ phase = "new" /\ configured = "sse"
  /\ phase' = "sse"
  /\ call' = [call EXCEPT ![Opener].pc = "dial", ![Opener].kind = "init"]
  /\ UNCHANGED <<nextID, calls, out, pending, chan, post, serverVars,
                configured, transport, closed, streamVars>>

\* A reply that is not an error makes the client ready; of the notification that
\* follows, a failure is only logged.
InitSucceeds(c) ==
  /\ call[c].kind = "init" /\ out[c] # <<>>
  /\ Goto(c, "return", "idle")
  /\ Unregister(c)
  /\ phase' = "ready"
  /\ UNCHANGED <<nextID, calls, out, chan, post, serverVars,
                configured, transport, closed, streamVars>>

\* Without one, or with an error for a reply, HTTP falls back and SSE fails.
InitFails(c) ==
  /\ call[c].kind = "init"
  /\ Goto(c, "return", IF phase = "http" THEN "dial" ELSE "idle")
  /\ Unregister(c)
  /\ transport' = "sse"
  /\ phase' = IF phase = "http" THEN "sse" ELSE "failed"
  /\ UNCHANGED <<nextID, calls, out, chan, post, serverVars, configured, closed, streamVars>>

\* The response's header has arrived; the GET itself has neither context nor timeout.
Dial(c) ==
  /\ Goto(c, "dial", "await")
  /\ stream' = [stream EXCEPT ![try] = "open"]
  /\ probe' = [probe EXCEPT ![try] = "reading"]
  /\ UNCHANGED <<nextID, calls, out, pending, chan, post, serverVars,
                clientVars, try, reader, wire>>

\* Of two URLs the second is tried; in the end all is as it was configured.
NextTry(c, from) ==
  IF configured = "http" /\ try = 1
  THEN Goto(c, from, "dial") /\ try' = 2 /\ UNCHANGED <<transport, phase>>
  ELSE Goto(c, from, "idle") /\ try' = 1 /\ transport' = configured /\ phase' = "failed"

DialFails(c) ==
  /\ NextTry(c, "dial")
  /\ UNCHANGED <<nextID, calls, out, pending, chan, post, serverVars, configured, closed,
                 stream, probe, reader, wire>>

\* connectSSE returns, and the second handshake begins.
Endpoint(c) ==
  /\ call[c].pc = "await" /\ probe[try] = "endpoint"
  /\ probe' = [probe EXCEPT ![try] = "none"]
  /\ reader' = "reading"
  /\ Allocated(c, "init")
  /\ UNCHANGED <<phase, try, stream, wire>>

\* Mutant: the body is not closed.
EndpointFails_KeepsBody(c) ==
  /\ NextTry(c, "await")
  /\ UNCHANGED <<nextID, calls, out, pending, chan, post, serverVars, configured, closed,
                 stream, probe, reader, wire>>

\* A broken stream, 15 seconds, or the context, although an endpoint may be there.
EndpointFails(c) ==
  /\ NextTry(c, "await")
  /\ stream' = [stream EXCEPT ![try] = "closed"]
  /\ UNCHANGED <<nextID, calls, out, pending, chan, post, serverVars, configured, closed,
                 probe, reader, wire>>

\* Close, by proxy.go when Initialize has failed, else with the session; requests
\* go on.
Close ==
  /\ ~closed /\ phase \in {"ready", "failed"}
  /\ closed' = TRUE
  /\ stream' = IF reader = "none" THEN stream ELSE [stream EXCEPT ![try] = "closed"]
  /\ UNCHANGED <<nextID, calls, call, out, pending, chan, post, serverVars,
                 configured, transport, phase, try, probe, reader, wire>>

-----------------------------------------------------------------------------
(* The goroutines that read the stream *)

\* The goroutine that reads up to the endpoint event ends with its one message.
Probe(t) ==
  /\ probe[t] = "reading"
  /\ probe' = [probe EXCEPT ![t] = IF stream[t] = "open" THEN "endpoint" ELSE "error"]
  /\ UNCHANGED <<nextID, calls, call, out, pending, chan, post, serverVars, clientVars,
                 try, stream, reader, wire>>

\* Mutant: the entry is left to the deferred delete.
ReadEvent_KeepsEntry ==
  LET l == Head(wire)
      waits == l.id \in IDs /\ pending[l.id] # NoCaller
  IN
  /\ reader = "reading" /\ wire # <<>>
  /\ wire' = Tail(wire)
  /\ \/ ~waits /\ UNCHANGED <<chan, pending, reader>>
     \/ /\ waits /\ chan[pending[l.id]] = <<>>
        /\ chan' = [chan EXCEPT ![pending[l.id]] = <<l.tag>>]
        /\ UNCHANGED pending
        /\ UNCHANGED reader
     \/ /\ waits /\ chan[pending[l.id]] # <<>>
        /\ reader' = "stuck"
        /\ UNCHANGED <<chan, pending>>
  /\ UNCHANGED <<nextID, calls, call, out, post, serverVars, clientVars, try, stream, probe>>

\* An event nobody waits for is dropped.  The send is made under c.mu: without
\* room in the channel, the client is stuck.
ReadEvent ==
  LET l == Head(wire)
      waits == l.id \in IDs /\ pending[l.id] # NoCaller
  IN
  /\ reader = "reading" /\ wire # <<>>
  /\ wire' = Tail(wire)
  /\ \/ ~waits /\ UNCHANGED <<chan, pending, reader>>
     \/ /\ waits /\ chan[pending[l.id]] = <<>>
        /\ chan' = [chan EXCEPT ![pending[l.id]] = <<l.tag>>]
        /\ pending' = [pending EXCEPT ![l.id] = NoCaller]
        /\ UNCHANGED reader
     \/ /\ waits /\ chan[pending[l.id]] # <<>>
        /\ reader' = "stuck"
        /\ UNCHANGED <<chan, pending>>
  /\ UNCHANGED <<nextID, calls, call, out, post, serverVars, clientVars, try, stream, probe>>

\* What is still on a stream that either end has closed may be lost.
ReaderEnds ==
  /\ reader = "reading" /\ stream[try] = "closed"
  /\ reader' = "ended" /\ wire' = <<>>
  /\ UNCHANGED <<nextID, calls, call, out, pending, chan, post, serverVars, clientVars,
                 try, stream, probe>>

-----------------------------------------------------------------------------
(* The server, as client.go uses it *)

AnswerPost(c) ==
  /\ post[c] = "sent"
  /\ \/ post' = [post EXCEPT ![c] = "answer"] /\ answered' = answered \cup {call[c].tag}
     \/ post' = [post EXCEPT ![c] = "accepted"] /\ UNCHANGED answered
  /\ UNCHANGED <<nextID, calls, call, out, pending, chan, received, clientVars, streamVars>>

\* Answers come in any order, before or after the 202, more than once; requests of
\* the server are parsed as responses.
Send(l) ==
  /\ reader # "none" /\ stream[try] = "open" /\ Len(wire) < WireCap
  /\ wire' = Append(wire, l)
  /\ answered' = answered \cup ({l.tag} \ {0})
  /\ UNCHANGED <<nextID, calls, call, out, pending, chan, post, received, clientVars,
                 try, stream, probe, reader>>

EndStream(t) ==
  /\ stream[t] = "open"
  /\ stream' = [stream EXCEPT ![t] = "closed"]
  /\ UNCHANGED <<nextID, calls, call, out, pending, chan, post, serverVars, clientVars,
                 try, probe, reader, wire>>

-----------------------------------------------------------------------------
CallerStep(c) ==
  \/ Register(c) \/ Post(c) \/ ReadBody(c) \/ Accepted(c) \/ PostFails(c)
  \/ ReceiveReply(c) \/ GiveUp(c) \/ Return(c) \/ InitSucceeds(c) \/ InitFails(c)
  \/ Endpoint(c) \/ EndpointFails(c)

ReaderStep == ReadEvent \/ ReaderEnds

ServerStep ==
  \/ \E c \in Callers : AnswerPost(c)
  \/ \E l \in received \cup {Line(i, 0) : i \in ServerIDs} : Send(l)
  \/ \E t \in Tries : EndStream(t)

Next ==
  \/ InitHTTP \/ InitSSE
  \/ \E c \in Callers \ Forwarders : BeginCall(c)
  \/ \E c \in Forwarders, id \in RawIDs : BeginRaw(c, id)
  \/ \E c \in Callers : CallerStep(c) \/ Dial(c) \/ DialFails(c)
  \/ \E t \in Tries : Probe(t)
  \/ ReaderStep \/ Close \/ ServerStep

Spec == Init /\ [][Next]_vars

\* Goroutines are scheduled, timers fire, proxy.go closes what it could not
\* initialize.  The server owes nothing, not even an answer to the GET.
FairSpec ==
  /\ Spec
  /\ \A c \in Callers : WF_vars(CallerStep(c))
  /\ \A t \in Tries : WF_vars(Probe(t) /\ stream[t] = "closed")
  /\ WF_vars(ReaderStep)
  /\ WF_vars(Close /\ phase = "failed")

-----------------------------------------------------------------------------
(* Properties *)

Replies == {<<>>} \cup {<<t>> : t \in Tags}
LineSet == [id : IDs, tag : Tags]
PCs == {"idle", "dial", "await", "register", "post", "exchange", "select", "return"}

\* Types of the variables; the transport is the one requests were begun under.
TypeOK ==
  /\ nextID \in 0 .. calls /\ calls \in 0 .. MaxCalls
  /\ call \in [Callers -> [pc : PCs, kind : {"init", "call"},
                           id : {0} \cup IDs, tag : Tags]]
  /\ \A c \in Callers : call[c].pc \notin {"idle", "dial", "await"} => call[c].id \in IDs
  /\ out \in [Callers -> Replies] /\ chan \in [Callers -> Replies]
  /\ pending \in [IDs -> Callers \cup {NoCaller}]
  /\ post \in [Callers -> {"none", "sent", "answer", "accepted"}]
  /\ received \subseteq LineSet /\ answered \subseteq Tags
  /\ {configured, transport} \subseteq {"http", "sse"} /\ closed \in BOOLEAN
  /\ phase \in {"new", "http", "sse", "ready", "failed"}
  /\ try \in Tries /\ stream \in [Tries -> {"none", "open", "closed"}]
  /\ probe \in [Tries -> {"none", "reading", "endpoint", "error"}]
  /\ reader \in {"none", "reading", "stuck", "ended"} /\ wire \in Seq(LineSet)

\* readSSEEvents never blocks in a send while it holds c.mu, which would lock every
\* caller of the target out for good, whatever the server repeats and whatever ids
\* clients and server choose.
NeverStuck == reader # "stuck"

\* An answer on the stream is for a call that is registered, if that call is still
\* waiting: also the answer that overtakes the 202.  Of clients that repeat no id:
\* a request of the same id takes the entry over (README, section 6).
NoAnswerLost ==
  \A i \in 1 .. Len(wire) : \A c \in Callers :
    /\ call[c].tag = wire[i].tag /\ chan[c] = <<>>
    /\ call[c].pc \in {"exchange", "select"}
    => pending[wire[i].id] = c

\* Every request returns, whatever the server does; of Initialize, all but the GET
\* ("dial").
CallReturns ==
  \A c \in Callers : call[c].pc \notin {"idle", "dial"} ~> call[c].pc \in {"idle", "dial"}

\* A closed client leaves no stream open and no goroutine behind, neither those of
\* its first try.
NothingLeft ==
  closed ~> /\ \A t \in Tries : stream[t] # "open" /\ probe[t] # "reading"
            /\ reader \in {"none", "ended"}

\* As with the child process, a call returns with the answer to its own request
\* or with an error, also across the fallback, when the server answers the first
\* handshake during the second.  Of servers that only answer and clients that repeat
\* no id: otherwise an answer may return to another request of its id.
RR == INSTANCE RequestReply WITH
        asked    <- calls,
        busy     <- {c \in Callers : call[c].pc \notin {"idle", "dial", "await"}},
        tag      <- [c \in Callers |-> call[c].tag],
        result   <- out

ImplementsRequestReply == RR!RRSpec
=============================================================================
