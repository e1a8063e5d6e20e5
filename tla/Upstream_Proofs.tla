---------------------------- MODULE Upstream_Proofs ----------------------------
(***************************************************************************)
(* Theorems about the two sides of a connection to a server: the requests  *)
(* a client multiplexes over it, for any callers, messages and limits, and *)
(* the credential it is given, for any identities, configurations and      *)
(* writes meanwhile.                                                       *)
(***************************************************************************)
EXTENDS McpClient, Credentials, FiniteSetTheorems, SequenceTheorems, WellFoundedInduction, TLAPS

-----------------------------------------------------------------------------
(* McpClient *)

\* States in which c has a request.
Busy == {"register", "post", "exchange", "select", "return"}

\* The record of a request.
RequestType == [pc : PCs, kind : {"init", "call"}, id : {0} \cup IDs, tag : Tags]

\* One goroutine at a time until Initialize has ended.
PhaseInv ==
  /\ phase \in {"new", "failed"} => \A c \in Callers : call[c].pc = "idle"
  /\ phase \in {"http", "sse"} =>
       /\ \A c \in Callers \ {Opener} : call[c].pc = "idle"
       /\ call[Opener].pc # "idle" /\ call[Opener].kind = "init"
       /\ transport = phase
  /\ phase = "http" => call[Opener].pc \in Busy
  /\ phase = "ready" =>
       \A c \in Callers : call[c].pc \in {"idle"} \cup Busy
                          /\ (call[c].pc # "idle" => call[c].kind = "call")

\* The stream is read only once connectSSE has returned.
StreamInv ==
  /\ phase = "new" => transport = configured
  /\ phase = "new" \/ transport = "http" \/ call[Opener].pc \in {"dial", "await"} => reader = "none"
  /\ reader = "none" => wire = <<>>

\* An entry is its caller's own, and its channel is empty.
EntryInv ==
  /\ \A i \in IDs : pending[i] # NoCaller =>
       /\ transport = "sse"
       /\ call[pending[i]].id = i /\ chan[pending[i]] = <<>>
       /\ call[pending[i]].pc \in Busy \ {"register"}
  /\ \A c \in Callers : call[c].pc = "register" => transport = "sse" /\ chan[c] = <<>>

\* The multiplexing invariant.
MuxInv == TypeOK /\ PhaseInv /\ StreamInv /\ EntryInv /\ NeverStuck

\* The ids of MCP clients' own messages are none that c.nextID gives out, and each
\* is used once.
IdsApart == RawIDs \cap (1 .. MaxCalls) = {} /\ ~Reuses

\* An id is either of those given out by c.nextID or an MCP client's.
Known(id, t) == id \in 1 .. nextID \cup RawIDs /\ t \in 1 .. calls

\* Each id belongs to one request.
IdInv ==
  /\ \A c \in Callers :
       /\ call[c].tag = 0 => call[c].id = 0 /\ call[c].pc \notin Busy
       /\ call[c].tag # 0 => Known(call[c].id, call[c].tag)
  /\ \A c, d \in Callers : c # d =>
       /\ call[c].tag = call[d].tag => call[c].tag = 0
       /\ call[c].id = call[d].id => call[c].tag = call[d].tag
  /\ \A l \in received :
       /\ Known(l.id, l.tag)
       /\ \A c \in Callers : l.id = call[c].id <=> l.tag = call[c].tag
  /\ \A n \in 1 .. Len(wire) : wire[n].tag = 0 \/ wire[n] \in received
  /\ \A c \in Callers :
       call[c].pc \in {"post", "exchange", "select"} /\ transport = "sse" /\ chan[c] = <<>> =>
         pending[call[c].id] = c

\* The server answers what it received and sends nothing of its own.
OnlyAnswers == ServerIDs = {} /\ ~Notifies

\* What is on its way to a caller answers its request.
AnswerInv ==
  /\ \A n \in 1 .. Len(wire) : wire[n].tag # 0 /\ wire[n].tag \in answered
  /\ \A c \in Callers :
       /\ post[c] # "none" => call[c].pc = "exchange"
       /\ post[c] = "answer" => call[c].tag \in answered
       /\ chan[c] # <<>> => chan[c] = <<call[c].tag>> /\ call[c].tag \in answered
       /\ call[c].pc \in Busy \ {"return"} => out[c] = <<>>

-----------------------------------------------------------------------------
\* Bounds and the ids that are used.
LEMMA Numbers ==
  /\ MaxCalls \in Nat /\ MaxCalls >= 2
  /\ \A i \in IDs : i \in Nat
  /\ 1 .. MaxCalls \subseteq IDs /\ RawIDs \subseteq IDs /\ 0 \in Tags
  BY ClientAssumption DEF IDs, Tags

\* A line has the id and the request it is made of.
LEMMA LineTypes == \A i \in IDs, t \in Tags :
  Line(i, t) \in LineSet /\ Line(i, t).id = i /\ Line(i, t).tag = t
  BY DEF Line, LineSet

\* What Goto does to a request.
LEMMA GotoFacts ==
  ASSUME TypeOK, NEW c \in Callers, NEW from, NEW to \in PCs, Goto(c, from, to),
         to \in Busy => from \in Busy
  PROVE  /\ call' \in [Callers -> RequestType]
         /\ call[c].pc = from /\ call'[c].pc = to
         /\ \A d \in Callers : /\ d # c => call'[d] = call[d]
                               /\ call'[d].id = call[d].id /\ call'[d].tag = call[d].tag
                               /\ call'[d].kind = call[d].kind
         /\ \A d \in Callers : call'[d].pc \notin {"idle", "dial", "await"} => call'[d].id \in IDs
<1>1. call \in [Callers -> RequestType] /\ call[c].pc = from
  BY DEF TypeOK, Goto, RequestType
<1>2. [call[c] EXCEPT !.pc = to] \in RequestType
  BY <1>1 DEF RequestType
<1>3. call' = [call EXCEPT ![c] = [call[c] EXCEPT !.pc = to]]
  BY DEF Goto
<1>4. call' \in [Callers -> RequestType] /\ call'[c] = [call[c] EXCEPT !.pc = to]
  BY <1>1, <1>2, <1>3
<1>5. /\ call'[c].pc = to /\ call'[c].id = call[c].id
      /\ call'[c].tag = call[c].tag /\ call'[c].kind = call[c].kind
  BY <1>1, <1>4 DEF RequestType
<1>6. \A d \in Callers : d # c => call'[d] = call[d]
  BY <1>1, <1>3
<1>7. \A d \in Callers : call'[d].pc \notin {"idle", "dial", "await"} => call'[d].id \in IDs
  BY <1>1, <1>5, <1>6 DEF TypeOK, Busy, PCs
<1>. QED  BY <1>1, <1>4, <1>5, <1>6, <1>7

\* What the start of a request does.
LEMMA StartFacts ==
  ASSUME TypeOK, NEW c \in Callers, NEW kind \in {"init", "call"}, NEW id \in IDs,
         StartRequest(c, kind, id)
  PROVE  /\ call' \in [Callers -> RequestType]
         /\ call'[c].pc = (IF transport = "sse" THEN "register" ELSE "post")
         /\ call'[c].kind = kind /\ call'[c].id = id /\ call'[c].tag = calls + 1
         /\ calls' = calls + 1 /\ calls + 1 \in 1 .. MaxCalls /\ calls + 1 \in Tags
         /\ \A d \in Callers \ {c} : call'[d] = call[d] /\ chan'[d] = chan[d] /\ out'[d] = out[d]
         /\ chan' \in [Callers -> Replies] /\ out' \in [Callers -> Replies]
         /\ chan'[c] = <<>> /\ out'[c] = <<>>
         /\ \A d \in Callers : call'[d].pc \notin {"idle", "dial", "await"} => call'[d].id \in IDs
<1>1. calls \in 0 .. MaxCalls /\ calls < MaxCalls
  <2>1. Limit \in {MaxCalls - 2, MaxCalls - 1, MaxCalls}
    BY DEF Limit
  <2>. QED  BY <2>1, Numbers DEF StartRequest, TypeOK
<1>2. calls' = calls + 1 /\ calls + 1 \in 1 .. MaxCalls /\ calls + 1 \in Tags
  BY <1>1, Numbers DEF StartRequest, Tags
<1> DEFINE new == [pc |-> IF transport = "sse" THEN "register" ELSE "post",
                   kind |-> kind, id |-> id, tag |-> calls + 1]
<1>3. new \in RequestType
  BY <1>2 DEF RequestType, PCs
<1>4. call \in [Callers -> RequestType] /\ call' = [call EXCEPT ![c] = new]
  BY DEF TypeOK, RequestType, StartRequest
<1>5. /\ call'[c] = new /\ call' \in [Callers -> RequestType]
      /\ \A d \in Callers \ {c} : call'[d] = call[d]
  BY <1>3, <1>4
<1>6. <<>> \in Replies
  BY DEF Replies
<1>7. /\ chan' \in [Callers -> Replies] /\ out' \in [Callers -> Replies]
      /\ chan'[c] = <<>> /\ out'[c] = <<>>
      /\ \A d \in Callers \ {c} : chan'[d] = chan[d] /\ out'[d] = out[d]
  BY <1>6 DEF StartRequest, TypeOK
<1>8. \A d \in Callers : call'[d].pc \notin {"idle", "dial", "await"} => call'[d].id \in IDs
  BY <1>5 DEF TypeOK
<1>. QED  BY <1>2, <1>5, <1>7, <1>8

-----------------------------------------------------------------------------
\* One lemma per kind of step: the multiplexing invariant is inductive.
LEMMA InitMux == Init => MuxInv
<1> SUFFICES ASSUME Init PROVE MuxInv
  OBVIOUS
<1>1. /\ call \in [Callers -> RequestType]
      /\ \A c \in Callers : call[c].pc = "idle"
  BY Numbers DEF Init, PCs, RequestType
<1>2. <<>> \in Replies
  BY DEF Replies
<1>3. out \in [Callers -> Replies] /\ chan \in [Callers -> Replies]
  BY <1>2 DEF Init
<1>4. /\ pending \in [IDs -> Callers \cup {NoCaller}] /\ wire \in Seq(LineSet)
      /\ \A i \in IDs : pending[i] = NoCaller
      /\ post \in [Callers -> {"none", "sent", "answer", "accepted"}]
      /\ stream \in [Tries -> {"none", "open", "closed"}]
      /\ probe \in [Tries -> {"none", "reading", "endpoint", "error"}]
  BY DEF Init
<1>5. TypeOK
  <2>1. /\ nextID \in 0 .. calls /\ calls \in 0 .. MaxCalls
        /\ received \subseteq LineSet /\ answered \subseteq Tags
    BY Numbers DEF Init
  <2>2. /\ {configured, transport} \subseteq {"http", "sse"} /\ closed \in BOOLEAN
        /\ phase \in {"new", "http", "sse", "ready", "failed"}
        /\ try \in Tries /\ reader \in {"none", "reading", "stuck", "ended"}
    <3>1. configured \in {"http", "sse"} /\ transport = configured
      BY ClientAssumption DEF Init
    <3>2. try \in Tries
      BY DEF Init, Tries
    <3>. QED  BY <3>1, <3>2 DEF Init
  <2>3. call \in [Callers -> [pc : PCs, kind : {"init", "call"}, id : {0} \cup IDs, tag : Tags]]
    BY <1>1 DEF RequestType
  <2>4. \A c \in Callers : call[c].pc \notin {"idle", "dial", "await"} => call[c].id \in IDs
    BY <1>1
  <2>. QED  BY <1>3, <1>4, <2>1, <2>2, <2>3, <2>4 DEF TypeOK
<1>6. PhaseInv /\ StreamInv
  BY <1>1 DEF Init, PhaseInv, StreamInv
<1>7. EntryInv /\ NeverStuck
  BY <1>1, <1>4 DEF Init, EntryInv, NeverStuck
<1>. QED  BY <1>5, <1>6, <1>7 DEF MuxInv

\* A new request.
LEMMA StartMux ==
  ASSUME MuxInv, NEW c \in Callers, NEW kind \in {"init", "call"}, NEW id \in IDs,
         StartRequest(c, kind, id), call[c].pc \in {"idle", "await"},
         nextID' \in {nextID, nextID + 1}, probe' \in {probe, [probe EXCEPT ![try] = "none"]},
         UNCHANGED <<try, stream, wire>>,
         \/ /\ call[c].pc = "await" /\ kind = "init" /\ phase' = phase /\ reader' = "reading"
         \/ /\ phase = "new" /\ configured = "http" /\ phase' = "http"
            /\ c = Opener /\ kind = "init" /\ reader' = reader
         \/ /\ phase = "ready" /\ kind = "call" /\ UNCHANGED <<phase, reader>>
  PROVE  MuxInv'
<1>0. /\ post' = post /\ received' = received /\ answered' = answered /\ pending' = pending
      /\ configured' = configured /\ closed' = closed /\ transport' = transport
  BY DEF StartRequest, serverVars
<1>1. TypeOK'
  <2>1. nextID' \in 0 .. calls' /\ calls' \in 0 .. MaxCalls
    BY StartFacts DEF MuxInv, TypeOK
  <2>2. /\ probe' \in [Tries -> {"none", "reading", "endpoint", "error"}]
        /\ phase' \in {"new", "http", "sse", "ready", "failed"}
        /\ reader' \in {"none", "reading", "stuck", "ended"}
    BY DEF MuxInv, TypeOK
  <2>. QED  BY <1>0, <2>1, <2>2, StartFacts DEF MuxInv, TypeOK, RequestType
<1>2. EntryInv'
  <2>1. ASSUME NEW i \in IDs, pending[i] # NoCaller
        PROVE  /\ transport' = "sse" /\ call'[pending[i]].id = i /\ chan'[pending[i]] = <<>>
               /\ call'[pending[i]].pc \in Busy \ {"register"}
    <3>1. pending[i] \in Callers /\ pending[i] # c
      BY <2>1 DEF MuxInv, EntryInv, TypeOK, Busy
    <3>. QED  BY <1>0, <2>1, <3>1, StartFacts DEF MuxInv, EntryInv
  <2>2. ASSUME NEW d \in Callers, call'[d].pc = "register"
        PROVE  transport' = "sse" /\ chan'[d] = <<>>
    BY <1>0, <2>2, StartFacts DEF MuxInv, EntryInv
  <2>. QED  BY <1>0, <2>1, <2>2 DEF EntryInv
<1>3. call'[c].pc \in {"register", "post"} /\ transport \in {"http", "sse"}
  BY StartFacts DEF MuxInv, TypeOK
<1>4. PhaseInv' /\ StreamInv'
  <2>1. CASE call[c].pc = "await"
    <3>1. c = Opener /\ phase = "sse" /\ transport = "sse" /\ reader' = "reading" /\ phase' = phase
      BY <2>1 DEF MuxInv, PhaseInv, TypeOK, Busy
    <3>. QED  BY <1>0, <1>3, <2>1, <3>1, StartFacts, ClientAssumption
              DEF MuxInv, PhaseInv, StreamInv, Busy
  <2>2. CASE phase = "new"
    BY <1>0, <1>3, <2>2, StartFacts, ClientAssumption DEF MuxInv, PhaseInv, StreamInv, Busy
  <2>3. CASE phase = "ready"
    BY <1>0, <1>3, <2>3, StartFacts, ClientAssumption DEF MuxInv, PhaseInv, StreamInv, Busy
  <2>. QED  BY <2>1, <2>2, <2>3
<1>5. NeverStuck'
  BY DEF MuxInv, NeverStuck
<1>. QED  BY <1>1, <1>2, <1>4, <1>5 DEF MuxInv

\* A request goes on, or ends but for its entry.
LEMMA MoveMux ==
  ASSUME MuxInv, NEW c \in Callers, NEW from \in Busy, NEW to \in Busy \ {"register"},
         Goto(c, from, to),
         UNCHANGED <<nextID, calls, answered, clientVars, streamVars>>,
         out' \in [Callers -> Replies], received' \subseteq LineSet,
         post' \in [Callers -> {"none", "sent", "answer", "accepted"}],
         \/ pending' = pending /\ from # "register" /\ chan' \in {chan, [chan EXCEPT ![c] = <<>>]}
         \/ /\ pending' = [pending EXCEPT ![call[c].id] = c]
            /\ from = "register" /\ chan' = chan
  PROVE  MuxInv'
<1>0. /\ UNCHANGED <<configured, transport, phase, closed, try, stream, probe, reader, wire>>
      /\ Busy \subseteq PCs
  BY DEF clientVars, streamVars, Busy, PCs
<1>1. /\ call' \in [Callers -> RequestType]
      /\ call[c].pc = from /\ call'[c].pc = to
      /\ \A d \in Callers : /\ d # c => call'[d] = call[d]
                            /\ call'[d].id = call[d].id
                            /\ call'[d].kind = call[d].kind
      /\ \A d \in Callers : call'[d].pc \notin {"idle", "dial", "await"} => call'[d].id \in IDs
  BY <1>0, GotoFacts DEF MuxInv
<1>2. call[c].id \in IDs /\ call[c].pc \in Busy
  BY <1>1 DEF MuxInv, TypeOK, Busy
<1>3. /\ pending' \in [IDs -> Callers \cup {NoCaller}]
      /\ chan' \in [Callers -> Replies]
      /\ \A d \in Callers : chan'[d] = chan[d] \/ chan'[d] = <<>>
  <2>1. <<>> \in Replies
    BY DEF Replies
  <2>. QED  BY <1>2, <2>1 DEF MuxInv, TypeOK
<1>4. TypeOK'
  BY <1>0, <1>1, <1>3 DEF MuxInv, TypeOK, RequestType
<1>5. PhaseInv' /\ StreamInv'
  BY <1>0, <1>1, <1>2, ClientAssumption DEF MuxInv, PhaseInv, StreamInv, Busy
<1>6. EntryInv'
  <2>1. ASSUME NEW i \in IDs, pending'[i] # NoCaller
        PROVE  /\ transport' = "sse" /\ call'[pending'[i]].id = i /\ chan'[pending'[i]] = <<>>
               /\ call'[pending'[i]].pc \in Busy \ {"register"}
    <3>1. CASE pending'[i] = pending[i]
      <4>1. pending[i] \in Callers
        BY <2>1, <3>1 DEF MuxInv, TypeOK
      <4>. QED  BY <1>0, <1>1, <1>3, <2>1, <3>1, <4>1 DEF MuxInv, EntryInv
    <3>2. CASE pending'[i] # pending[i]
      <4>1. from = "register" /\ i = call[c].id /\ pending'[i] = c /\ chan' = chan
        BY <1>2, <2>1, <3>2 DEF MuxInv, TypeOK
      <4>. QED  BY <1>0, <1>1, <4>1 DEF MuxInv, EntryInv
    <3>. QED  BY <3>1, <3>2
  <2>2. ASSUME NEW d \in Callers, call'[d].pc = "register"
        PROVE  transport' = "sse" /\ chan'[d] = <<>>
    BY <1>0, <1>1, <1>3, <2>2 DEF MuxInv, EntryInv
  <2>. QED  BY <2>1, <2>2 DEF EntryInv
<1>7. NeverStuck'
  BY <1>0 DEF MuxInv, NeverStuck
<1>. QED  BY <1>4, <1>5, <1>6, <1>7 DEF MuxInv

\* Steps of a request that is under way.
LEMMA CallMux ==
  ASSUME MuxInv, NEW c \in Callers,
         \/ Register(c) \/ Post(c) \/ ReadBody(c) \/ Accepted(c) \/ PostFails(c)
         \/ ReceiveReply(c) \/ GiveUp(c)
  PROVE  MuxInv'
<1>1. out \in [Callers -> Replies] /\ chan \in [Callers -> Replies] /\ chan[c] \in Replies
      /\ received \subseteq LineSet /\ post \in [Callers -> {"none", "sent", "answer", "accepted"}]
  BY DEF MuxInv, TypeOK
<1>2. {"register", "post", "exchange", "select", "return"} = Busy
  BY DEF Busy
<1>3. CASE Register(c)
  BY <1>1, <1>2, <1>3, MoveMux DEF Register, serverVars
<1>4. CASE Post(c)
  <2>1. Line(call[c].id, call[c].tag) \in LineSet
    <3>1. call[c].pc = "post" /\ call[c].tag \in Tags
      BY <1>4 DEF Post, Goto, MuxInv, TypeOK
    <3>2. call[c].id \in IDs
      BY <3>1 DEF MuxInv, TypeOK
    <3>. QED  BY <3>1, <3>2, LineTypes
  <2>2. post' \in [Callers -> {"none", "sent", "answer", "accepted"}]
    BY <1>1, <1>4 DEF Post
  <2>. QED  BY <1>1, <1>2, <1>4, <2>1, <2>2, MoveMux DEF Post
<1>5. CASE ReadBody(c)
  <2>1. PICK t \in {call[c].tag} \cup (IF Notifies THEN {0} ELSE {}) :
          out' = [out EXCEPT ![c] = <<t>>]
    BY <1>5 DEF ReadBody
  <2>2. <<t>> \in Replies
    BY Numbers DEF MuxInv, TypeOK, Replies
  <2>3. out' \in [Callers -> Replies]
    BY <1>1, <2>1, <2>2
  <2>. QED  BY <1>1, <1>2, <1>5, <2>3, MoveMux DEF ReadBody, serverVars
<1>6. CASE Accepted(c)
  <2>1. (IF transport = "sse" THEN "select" ELSE "return") \in Busy \ {"register"}
    BY <1>2
  <2>. QED  BY <1>1, <1>2, <1>6, <2>1, MoveMux DEF Accepted, serverVars
<1>7. CASE PostFails(c)
  BY <1>1, <1>2, <1>7, MoveMux DEF PostFails, serverVars
<1>8. CASE ReceiveReply(c)
  <2>1. out' \in [Callers -> Replies]
    BY <1>1, <1>8 DEF ReceiveReply
  <2>. QED  BY <1>1, <1>2, <1>8, <2>1, MoveMux DEF ReceiveReply, serverVars
<1>9. CASE GiveUp(c)
  BY <1>1, <1>2, <1>9, MoveMux DEF GiveUp, serverVars
<1>. QED  BY <1>3, <1>4, <1>5, <1>6, <1>7, <1>8, <1>9

\* After the deferred delete no entry is c's.
LEMMA UnregisterFacts ==
  ASSUME MuxInv, NEW c \in Callers, Unregister(c), call[c].pc \in Busy
  PROVE  /\ pending' \in [IDs -> Callers \cup {NoCaller}]
         /\ \A i \in IDs : pending'[i] # NoCaller => pending'[i] = pending[i] /\ pending[i] # c
<1>1. pending \in [IDs -> Callers \cup {NoCaller}] /\ call[c].id \in IDs
  BY DEF MuxInv, TypeOK, Busy
<1>2. \A i \in IDs : pending[i] = c => transport = "sse" /\ i = call[c].id
  BY ClientAssumption DEF MuxInv, EntryInv
<1>. QED  BY <1>1, <1>2 DEF Unregister

\* The entries of the others stay, if c is the only one that may change the transport.
LEMMA EntriesKept ==
  ASSUME MuxInv, NEW c \in Callers,
         transport' \in {"sse", transport} \/ \A d \in Callers \ {c} : call[d].pc = "idle",
         \A i \in IDs : pending'[i] # NoCaller => pending'[i] = pending[i] /\ pending[i] # c,
         \A d \in Callers \ {c} : call'[d] = call[d],
         chan' = chan, call'[c].pc # "register"
  PROVE  EntryInv'
<1>1. ASSUME NEW i \in IDs, pending'[i] # NoCaller
      PROVE  /\ transport' = "sse" /\ call'[pending'[i]].id = i /\ chan'[pending'[i]] = <<>>
             /\ call'[pending'[i]].pc \in Busy \ {"register"}
  BY <1>1 DEF MuxInv, EntryInv, TypeOK, Busy
<1>2. ASSUME NEW d \in Callers, call'[d].pc = "register"
      PROVE  transport' = "sse" /\ chan'[d] = <<>>
  BY <1>2 DEF MuxInv, EntryInv
<1>. QED  BY <1>1, <1>2 DEF EntryInv

\* The end of a request.
LEMMA ReturnMux ==
  ASSUME MuxInv, NEW c \in Callers, Return(c) \/ InitSucceeds(c) \/ InitFails(c)
  PROVE  MuxInv'
<1>1. /\ UNCHANGED <<nextID, calls, out, chan, post, received, answered, configured, closed,
                     try, stream, probe, reader, wire>>
      /\ Unregister(c) /\ transport' \in {"sse", transport}
  BY DEF Return, InitSucceeds, InitFails, serverVars, clientVars, streamVars
<1>2. PICK to \in {"idle", "dial"} : Goto(c, "return", to)
  BY DEF Return, InitSucceeds, InitFails
<1>3. /\ call' \in [Callers -> RequestType]
      /\ call[c].pc = "return" /\ call'[c].pc = to /\ call[c].pc \in Busy
      /\ call'[c].kind = call[c].kind
      /\ \A d \in Callers : d # c => call'[d] = call[d]
      /\ \A d \in Callers : call'[d].pc \notin {"idle", "dial", "await"} => call'[d].id \in IDs
  BY <1>2, GotoFacts DEF MuxInv, PCs, Busy
<1>4. phase' \in {"new", "http", "sse", "ready", "failed"}
  BY DEF Return, InitSucceeds, InitFails, clientVars, MuxInv, TypeOK
<1>5. TypeOK'
  BY <1>1, <1>3, <1>4, UnregisterFacts DEF MuxInv, TypeOK, RequestType
<1>6. EntryInv'
  BY <1>1, <1>3, UnregisterFacts, EntriesKept
<1>7. PhaseInv' /\ StreamInv'
  <2>1. CASE Return(c)
    <3>1. to = "idle" /\ phase' = phase /\ transport' = transport /\ call[c].kind # "init"
      BY <1>2, <1>3, <2>1 DEF Return, clientVars, Goto, MuxInv, TypeOK
    <3>2. phase = "ready"
      BY <1>3, <3>1 DEF MuxInv, PhaseInv, TypeOK
    <3>3. \A d \in Callers : /\ call'[d].pc \in {"idle"} \cup Busy
                             /\ call'[d].pc # "idle" => call'[d].kind = "call"
      BY <1>3, <3>1, <3>2 DEF MuxInv, PhaseInv
    <3>. QED  BY <1>1, <3>1, <3>2, <3>3, ClientAssumption DEF MuxInv, PhaseInv, StreamInv, Busy
  <2>2. CASE InitSucceeds(c) \/ InitFails(c)
    <3>1. c = Opener /\ phase \in {"http", "sse"} /\ transport = phase
      BY <1>3, <2>2 DEF MuxInv, PhaseInv, TypeOK, InitSucceeds, InitFails
    <3>2. CASE InitSucceeds(c)
      <4>1. call'[c].pc = "idle" /\ phase' = "ready" /\ transport' = transport
        BY <3>2, <1>3, <1>2 DEF InitSucceeds, Goto, MuxInv, TypeOK
      <4>. QED  BY <1>1, <1>3, <3>1, <4>1 DEF MuxInv, PhaseInv, StreamInv, Busy
    <3>3. CASE InitFails(c)
      <4>1. /\ transport' = "sse" /\ phase' = IF phase = "http" THEN "sse" ELSE "failed"
            /\ Goto(c, "return", IF phase = "http" THEN "dial" ELSE "idle")
            /\ call[c].kind = "init"
        BY <3>3 DEF InitFails
      <4>2. call'[c].pc = IF phase = "http" THEN "dial" ELSE "idle"
        BY <4>1 DEF Goto, MuxInv, TypeOK
      <4>. QED  BY <1>1, <1>3, <3>1, <4>1, <4>2 DEF MuxInv, PhaseInv, StreamInv, Busy
    <3>. QED  BY <2>2, <3>2, <3>3
  <2>. QED  BY <2>1, <2>2
<1>8. NeverStuck'
  BY <1>1 DEF MuxInv, NeverStuck
<1>. QED  BY <1>5, <1>6, <1>7, <1>8 DEF MuxInv

\* Initialize and connectSSE, between requests.
LEMMA DialMux ==
  ASSUME MuxInv, NEW c \in Callers,
         (InitSSE /\ c = Opener) \/ Dial(c) \/ DialFails(c) \/ EndpointFails(c)
  PROVE  MuxInv'
<1>1. /\ UNCHANGED <<nextID, calls, out, pending, chan, post, received, answered, configured,
                     closed, reader, wire>>
      /\ transport' \in {transport, configured}
  BY DEF InitSSE, Dial, DialFails, EndpointFails, NextTry, serverVars, clientVars,
         streamVars
<1>2. /\ c = Opener /\ \A d \in Callers \ {c} : call[d].pc = "idle"
      /\ call[c].pc \in {"idle", "dial", "await"} /\ phase \in {"new", "sse"}
  <2>1. CASE InitSSE /\ c = Opener
    BY <2>1, ClientAssumption DEF InitSSE, MuxInv, PhaseInv
  <2>2. CASE Dial(c) \/ DialFails(c) \/ EndpointFails(c)
    <3>1. call[c].pc \in {"dial", "await"}
      BY <2>2 DEF Dial, DialFails, EndpointFails, NextTry, Goto
    <3>. QED  BY <3>1, ClientAssumption DEF MuxInv, PhaseInv, Busy, TypeOK
  <2>. QED  BY <2>1, <2>2
<1>3. /\ call' \in [Callers -> RequestType]
      /\ call'[c].pc \in {"idle", "dial", "await"}
      /\ \A d \in Callers \ {c} : call'[d] = call[d]
      /\ InitSSE => call'[c].pc = "dial" /\ call'[c].kind = "init"
      /\ ~InitSSE => call'[c].kind = call[c].kind
  <2>1. CASE InitSSE /\ c = Opener
    <3>1. call' = [call EXCEPT ![c] = [call[c] EXCEPT !.pc = "dial", !.kind = "init"]]
      BY <2>1 DEF InitSSE, MuxInv, TypeOK
    <3>2. call[c] \in RequestType /\ call \in [Callers -> RequestType]
      BY DEF MuxInv, TypeOK, RequestType
    <3>3. [call[c] EXCEPT !.pc = "dial", !.kind = "init"] \in RequestType
      BY <3>2 DEF RequestType, PCs
    <3>4. /\ [call[c] EXCEPT !.pc = "dial", !.kind = "init"].pc = "dial"
          /\ [call[c] EXCEPT !.pc = "dial", !.kind = "init"].kind = "init"
      BY <3>2 DEF RequestType
    <3>. QED  BY <2>1, <3>1, <3>2, <3>3, <3>4
  <2>2. CASE ~InitSSE
    <3>1. PICK from \in {"dial", "await"}, to \in {"idle", "dial", "await"} : Goto(c, from, to)
      BY <2>2 DEF Dial, DialFails, EndpointFails, NextTry
    <3>. QED  BY <2>2, <3>1, GotoFacts DEF MuxInv, PCs, Busy
  <2>. QED  BY <1>2, <2>1, <2>2
<1>4. /\ try' \in Tries /\ stream' \in [Tries -> {"none", "open", "closed"}]
      /\ probe' \in [Tries -> {"none", "reading", "endpoint", "error"}]
      /\ phase' \in {"new", "http", "sse", "ready", "failed"}
      /\ transport' \in {"http", "sse"}
  BY DEF InitSSE, Dial, DialFails, EndpointFails, NextTry, streamVars, clientVars, MuxInv, TypeOK,
         Tries
<1>5. TypeOK'
  <2>1. \A d \in Callers : call'[d].pc \notin {"idle", "dial", "await"} => call'[d].id \in IDs
    BY <1>3 DEF MuxInv, TypeOK
  <2>. QED  BY <1>1, <1>3, <1>4, <2>1 DEF MuxInv, TypeOK, RequestType
<1>6. EntryInv'
  <2>1. \A i \in IDs : pending[i] # c
    BY <1>2, ClientAssumption DEF MuxInv, EntryInv, Busy
  <2>. QED  BY <1>1, <1>2, <1>3, <2>1, EntriesKept
<1>7. PhaseInv' /\ StreamInv'
  <2>0. reader = "none" /\ reader' = "none" /\ wire' = <<>>
    BY <1>1, <1>2 DEF MuxInv, StreamInv, PhaseInv, Busy, TypeOK
  <2>1. CASE InitSSE
    BY <1>1, <1>2, <1>3, <2>0, <2>1 DEF InitSSE, MuxInv, PhaseInv, StreamInv, Busy
  <2>2. CASE Dial(c)
    <3>1. call'[c].pc = "await" /\ phase = "sse" /\ phase' = phase /\ transport' = transport
      BY <1>2, <2>2 DEF Dial, Goto, clientVars, MuxInv, PhaseInv, TypeOK
    <3>. QED  BY <1>1, <1>2, <1>3, <2>0, <3>1 DEF MuxInv, PhaseInv, StreamInv, Busy, InitSSE
  <2>3. CASE DialFails(c) \/ EndpointFails(c)
    <3>1. phase = "sse" /\ ~InitSSE /\ transport = "sse" /\ call[c].kind = "init"
      BY <1>2, <2>3 DEF DialFails, EndpointFails, NextTry, Goto, MuxInv, PhaseInv, InitSSE
    <3>2. \/ call'[c].pc = "dial" /\ phase' = phase /\ transport' = transport
          \/ call'[c].pc = "idle" /\ phase' = "failed"
      BY <2>3 DEF DialFails, EndpointFails, NextTry, Goto, MuxInv, TypeOK
    <3>. QED  BY <1>1, <1>2, <1>3, <2>0, <3>1, <3>2 DEF MuxInv, PhaseInv, StreamInv, Busy
  <2>. QED  BY <2>1, <2>2, <2>3
<1>8. NeverStuck'
  BY <1>1 DEF MuxInv, NeverStuck
<1>. QED  BY <1>5, <1>6, <1>7, <1>8 DEF MuxInv

\* Steps that leave the requests and the phase alone.
LEMMA OtherMux ==
  ASSUME MuxInv,
         \/ Close \/ ReaderEnds \/ (\E t \in Tries : Probe(t)) \/ ServerStep \/ UNCHANGED vars
  PROVE  MuxInv'
<1> DEFINE Rest ==
      /\ closed' \in BOOLEAN /\ received' = received /\ answered' \subseteq Tags
      /\ post' \in [Callers -> {"none", "sent", "answer", "accepted"}]
      /\ stream' \in [Tries -> {"none", "open", "closed"}]
      /\ probe' \in [Tries -> {"none", "reading", "endpoint", "error"}]
      /\ wire' \in Seq(LineSet)
      /\ \/ UNCHANGED <<reader, wire>>
         \/ reader' = reader /\ reader # "none"
         \/ reader = "reading" /\ reader' = "ended"
<1>1. UNCHANGED <<nextID, calls, call, out, pending, chan, configured, transport, phase, try>>
  BY DEF Close, ReaderEnds, Probe, ServerStep, AnswerPost, Send, EndStream, vars, serverVars,
         clientVars, streamVars
<1>2. Rest
  <2>1. CASE Close
    BY <2>1 DEF Close, serverVars, MuxInv, TypeOK
  <2>2. CASE ReaderEnds
    BY <2>2 DEF ReaderEnds, serverVars, clientVars, MuxInv, TypeOK
  <2>3. CASE \E t \in Tries : Probe(t)
    BY <2>3 DEF Probe, serverVars, clientVars, MuxInv, TypeOK
  <2>4. ASSUME NEW c \in Callers, AnswerPost(c)
        PROVE  Rest
    BY <2>4 DEF AnswerPost, clientVars, streamVars, MuxInv, TypeOK
  <2>5. ASSUME NEW l \in received \cup {Line(i, 0) : i \in ServerIDs}, Send(l)
        PROVE  Rest
    <3>1. l \in LineSet
      BY Numbers, LineTypes, ClientAssumption DEF MuxInv, TypeOK
    <3>2. l.tag \in Tags
      BY <3>1 DEF LineSet
    <3>3. wire' \in Seq(LineSet)
      BY <2>5, <3>1 DEF Send, MuxInv, TypeOK
    <3>. QED  BY <2>5, <3>2, <3>3 DEF Send, clientVars, MuxInv, TypeOK
  <2>6. ASSUME NEW t \in Tries, EndStream(t)
        PROVE  Rest
    BY <2>6 DEF EndStream, serverVars, clientVars, MuxInv, TypeOK
  <2>7. CASE UNCHANGED vars
    BY <2>7 DEF vars, serverVars, clientVars, streamVars, MuxInv, TypeOK
  <2> HIDE DEF Rest
  <2>. QED  BY <2>1, <2>2, <2>3, <2>4, <2>5, <2>6, <2>7 DEF ServerStep
<1>3. TypeOK'
  BY <1>1, <1>2 DEF MuxInv, TypeOK
<1>4. PhaseInv' /\ EntryInv'
  BY <1>1 DEF MuxInv, PhaseInv, EntryInv
<1>5. StreamInv' /\ NeverStuck'
  BY <1>1, <1>2 DEF MuxInv, StreamInv, NeverStuck
<1>. QED  BY <1>3, <1>4, <1>5 DEF MuxInv

\* What an event does, if it is for somebody.
LEMMA EventFacts ==
  ASSUME MuxInv, ReadEvent
  PROVE  /\ Len(wire) \in Nat \ {0} /\ Head(wire) = wire[1] /\ wire[1] \in LineSet
         /\ wire' = Tail(wire) /\ wire' \in Seq(LineSet) /\ reader' = "reading"
         /\ \/ UNCHANGED <<pending, chan>>
            \/ \E c \in Callers : /\ pending[wire[1].id] = c /\ wire[1].id \in IDs
                                  /\ chan[c] = <<>>
                                  /\ chan' = [chan EXCEPT ![c] = <<wire[1].tag>>]
                                  /\ pending' = [pending EXCEPT ![wire[1].id] = NoCaller]
<1>1. wire \in Seq(LineSet) /\ wire # <<>> /\ wire' = Tail(wire) /\ reader = "reading"
  BY DEF MuxInv, TypeOK, ReadEvent
<1>2. /\ Len(wire) \in Nat \ {0} /\ Head(wire) = wire[1]
      /\ wire[1] \in LineSet /\ wire' \in Seq(LineSet)
  BY <1>1
<1> DEFINE l == Head(wire)
           waits == l.id \in IDs /\ pending[l.id] # NoCaller
<1>3. CASE ~waits
  BY <1>1, <1>2, <1>3 DEF ReadEvent
<1>4. CASE waits
  <2>1. pending[l.id] \in Callers /\ chan[pending[l.id]] = <<>>
    BY <1>4 DEF MuxInv, EntryInv, TypeOK
  <2>. QED  BY <1>1, <1>2, <1>4, <2>1 DEF ReadEvent
<1>. QED  BY <1>3, <1>4

\* A line of the stream is read.
LEMMA EventMux == ASSUME MuxInv, ReadEvent PROVE MuxInv'
<1>1. UNCHANGED <<nextID, calls, call, out, post, received, answered, configured, transport,
                  phase, closed, try, stream, probe>>
  BY DEF ReadEvent, serverVars, clientVars
<1>2. /\ pending' \in [IDs -> Callers \cup {NoCaller}] /\ chan' \in [Callers -> Replies]
      /\ \A i \in IDs : pending'[i] # NoCaller =>
           pending'[i] = pending[i] /\ chan'[pending[i]] = <<>>
      /\ \A c \in Callers : call[c].pc = "register" => chan'[c] = <<>>
  <2>1. CASE UNCHANGED <<pending, chan>>
    BY <2>1 DEF MuxInv, TypeOK, EntryInv
  <2>2. CASE ~UNCHANGED <<pending, chan>>
    <3>1. PICK c \in Callers :
            /\ pending[wire[1].id] = c /\ wire[1].id \in IDs /\ chan[c] = <<>>
            /\ chan' = [chan EXCEPT ![c] = <<wire[1].tag>>]
            /\ pending' = [pending EXCEPT ![wire[1].id] = NoCaller]
      BY <2>2, EventFacts
    <3>2. <<wire[1].tag>> \in Replies
      BY EventFacts DEF LineSet, Replies
    <3>3. \A i \in IDs : pending[i] = c => i = wire[1].id
      BY <3>1, ClientAssumption DEF MuxInv, EntryInv
    <3>4. call[c].pc # "register"
      BY <3>1, ClientAssumption DEF MuxInv, EntryInv
    <3>. QED  BY <3>1, <3>2, <3>3, <3>4 DEF MuxInv, TypeOK, EntryInv
  <2>. QED  BY <2>1, <2>2
<1>3. TypeOK'
  BY <1>1, <1>2, EventFacts DEF MuxInv, TypeOK
<1>4. PhaseInv' /\ EntryInv'
  BY <1>1, <1>2 DEF MuxInv, PhaseInv, EntryInv
<1>5. StreamInv' /\ NeverStuck'
  BY <1>1, EventFacts DEF MuxInv, StreamInv, NeverStuck, ReadEvent
<1>. QED  BY <1>3, <1>4, <1>5 DEF MuxInv

\* An id that c.nextID gives out.
LEMMA FreshID ==
  ASSUME TypeOK, NEW c \in Callers, NEW kind, Allocated(c, kind)
  PROVE  /\ nextID + 1 \in IDs /\ nextID + 1 \in 1 .. MaxCalls /\ nextID' = nextID + 1
         /\ StartRequest(c, kind, nextID + 1)
<1>1. Limit \in {MaxCalls - 2, MaxCalls - 1, MaxCalls}
  BY DEF Limit
<1>. QED  BY <1>1, Numbers DEF Allocated, StartRequest, TypeOK

\* The four ways a request begins.
Begins(c) ==
  \/ BeginCall(c)
  \/ \E id \in RawIDs : BeginRaw(c, id)
  \/ InitHTTP /\ c = Opener
  \/ Endpoint(c)

\* A request starts.
LEMMA BeginMux == ASSUME MuxInv, NEW c \in Callers, Begins(c) PROVE MuxInv'
<1>1. CASE BeginCall(c)
  BY <1>1, FreshID, StartMux DEF BeginCall, streamVars, MuxInv
<1>2. ASSUME NEW id \in RawIDs, BeginRaw(c, id) PROVE MuxInv'
  BY <1>2, Numbers, StartMux DEF BeginRaw, streamVars
<1>3. CASE InitHTTP /\ c = Opener
  <2>1. call[c].pc = "idle"
    BY <1>3 DEF InitHTTP, MuxInv, PhaseInv
  <2>. QED  BY <1>3, <2>1, FreshID, StartMux DEF InitHTTP, streamVars, MuxInv
<1>4. CASE Endpoint(c)
  BY <1>4, FreshID, StartMux DEF Endpoint, MuxInv
<1>. QED  BY <1>1, <1>2, <1>3, <1>4 DEF Begins

\* Every step keeps the multiplexing invariant.
LEMMA NextMux == MuxInv /\ [Next]_vars => MuxInv'
<1> SUFFICES ASSUME MuxInv, [Next]_vars PROVE MuxInv'
  OBVIOUS
<1>1. ASSUME NEW c \in Callers, CallerStep(c) \/ Dial(c) \/ DialFails(c) PROVE MuxInv'
  BY <1>1, CallMux, ReturnMux, DialMux, BeginMux DEF CallerStep, Begins
<1>2. CASE InitHTTP \/ InitSSE
  BY <1>2, BeginMux, DialMux, ClientAssumption DEF Begins
<1>3. ASSUME NEW c \in Callers, BeginCall(c) \/ \E id \in RawIDs : BeginRaw(c, id) PROVE MuxInv'
  BY <1>3, BeginMux DEF Begins
<1>4. CASE (\E t \in Tries : Probe(t)) \/ ReaderStep \/ Close \/ ServerStep \/ UNCHANGED vars
  BY <1>4, EventMux, OtherMux DEF ReaderStep
<1>. QED  BY <1>1, <1>2, <1>3, <1>4, ClientAssumption DEF Next

\* It holds in every state, for any limits, raw ids and server.
LEMMA SpecMux == Spec => []MuxInv
  BY InitMux, NextMux, PTL DEF Spec

\* The variables keep their types: entries, channels and answers belong to callers,
\* whatever the server sends and whenever streams break or the client is closed.
THEOREM ClientTypes == Spec => []TypeOK
<1>1. MuxInv => TypeOK
  BY DEF MuxInv
<1>. QED  BY <1>1, SpecMux, PTL

\* The goroutine that reads the event stream never blocks on a channel: an entry is
\* only there while its channel, of capacity one, is empty (client.go's pending map).
THEOREM StreamReaderNeverStuck == Spec => []NeverStuck
<1>1. MuxInv => NeverStuck
  BY DEF MuxInv
<1>. QED  BY <1>1, SpecMux, PTL
-----------------------------------------------------------------------------
(* Ids *)

\* The invariant on ids, again step by step.
LEMMA InitIds == Init => IdInv
<1> SUFFICES ASSUME Init PROVE IdInv
  OBVIOUS
<1>1. \A c \in Callers : call[c].pc = "idle" /\ call[c].id = 0 /\ call[c].tag = 0
  BY DEF Init
<1>2. wire = <<>> /\ received = {}
  BY DEF Init
<1>. QED  BY <1>1, <1>2 DEF IdInv, Busy

\* Nobody has used the id of a new request before.
LEMMA BeginFresh ==
  ASSUME MuxInv, IdInv, IdsApart, NEW c \in Callers, Begins(c)
  PROVE  \E id \in IDs, kind \in {"init", "call"} :
           /\ StartRequest(c, kind, id) /\ call[c].pc \in {"idle", "await"}
           /\ \A d \in Callers : call[d].id # id
           /\ \A l \in received : l.id # id
           /\ id \in 1 .. nextID' \cup RawIDs
           /\ nextID' \in {nextID, nextID + 1} /\ wire' = wire
<1>0. nextID \in Nat
  BY Numbers DEF MuxInv, TypeOK
<1>1. ASSUME NEW kind \in {"init", "call"}, Allocated(c, kind), wire' = wire,
             call[c].pc \in {"idle", "await"}
      PROVE  \E id \in IDs, k \in {"init", "call"} :
           /\ StartRequest(c, k, id) /\ call[c].pc \in {"idle", "await"}
           /\ \A d \in Callers : call[d].id # id
           /\ \A l \in received : l.id # id
           /\ id \in 1 .. nextID' \cup RawIDs
           /\ nextID' \in {nextID, nextID + 1} /\ wire' = wire
  <2>1. /\ nextID + 1 \in IDs /\ nextID + 1 \in 1 .. MaxCalls /\ nextID' = nextID + 1
        /\ StartRequest(c, kind, nextID + 1)
    BY <1>1, FreshID DEF MuxInv
  <2>2. \A i, n : Known(i, n) => i # nextID + 1
    BY <1>0, <2>1 DEF Known, IdsApart
  <2>3. \A d \in Callers : call[d].id # nextID + 1
    BY <1>0, <2>2 DEF IdInv
  <2>4. \A l \in received : l.id # nextID + 1
    BY <2>2 DEF IdInv
  <2>. QED  BY <1>0, <1>1, <2>1, <2>3, <2>4
<1>2. CASE BeginCall(c)
  BY <1>1, <1>2 DEF BeginCall, streamVars
<1>3. ASSUME NEW id \in RawIDs, BeginRaw(c, id)
      PROVE  /\ StartRequest(c, "call", id) /\ call[c].pc = "idle" /\ id \in IDs
             /\ \A d \in Callers : call[d].id # id
             /\ \A l \in received : l.id # id
             /\ nextID' = nextID /\ wire' = wire
  BY <1>3, Numbers DEF BeginRaw, streamVars, IdsApart
<1>4. CASE InitHTTP /\ c = Opener
  BY <1>1, <1>4 DEF InitHTTP, streamVars, MuxInv, PhaseInv
<1>5. CASE Endpoint(c)
  BY <1>1, <1>5 DEF Endpoint
<1>. QED  BY <1>2, <1>3, <1>4, <1>5 DEF Begins

\* A request starts, with an id of its own.
LEMMA BeginIds ==
  ASSUME MuxInv, IdInv, IdsApart, NEW c \in Callers, Begins(c)
  PROVE  IdInv'
<1> DEFINE Later(i, n) == i \in 1 .. nextID' \cup RawIDs /\ n \in 1 .. calls'
<1>1. PICK id \in IDs, kind \in {"init", "call"} :
        /\ StartRequest(c, kind, id) /\ call[c].pc \in {"idle", "await"}
        /\ \A d \in Callers : call[d].id # id
        /\ \A l \in received : l.id # id
        /\ id \in 1 .. nextID' \cup RawIDs
        /\ nextID' \in {nextID, nextID + 1} /\ wire' = wire
  BY BeginFresh
<1>2. received' = received /\ pending' = pending /\ transport' = transport
  BY <1>1 DEF StartRequest, serverVars
<1>3. /\ call'[c].id = id /\ call'[c].tag = calls + 1 /\ calls' = calls + 1
      /\ call'[c].pc = IF transport = "sse" THEN "register" ELSE "post"
      /\ \A d \in Callers \ {c} : call'[d] = call[d] /\ chan'[d] = chan[d]
      /\ calls \in Nat
  BY <1>1, StartFacts, Numbers DEF MuxInv, TypeOK
<1>4. \A i, n : Known(i, n) => Later(i, n) /\ n # calls + 1
  BY <1>1, <1>3, Numbers DEF Known, MuxInv, TypeOK
<1>5. Later(call'[c].id, call'[c].tag)
  BY <1>1, <1>3
<1>6. \A d \in Callers : call[d].tag # calls + 1
  BY <1>3, <1>4 DEF IdInv
<1>7. \A d \in Callers : /\ call'[d].tag = 0 => call'[d].id = 0 /\ call'[d].pc \notin Busy
                         /\ call'[d].tag # 0 => Later(call'[d].id, call'[d].tag)
  BY <1>3, <1>4, <1>5 DEF IdInv
<1>8. \A d, e \in Callers : d # e =>
        /\ call'[d].tag = call'[e].tag => call'[d].tag = 0
        /\ call'[d].id = call'[e].id => call'[d].tag = call'[e].tag
  BY <1>1, <1>3, <1>6 DEF IdInv
<1>9. \A l \in received' : /\ Later(l.id, l.tag)
                           /\ \A d \in Callers : l.id = call'[d].id <=> l.tag = call'[d].tag
  BY <1>1, <1>2, <1>3, <1>4 DEF IdInv
<1>10. \A d \in Callers :
         call'[d].pc \in {"post", "exchange", "select"} /\ transport' = "sse" /\ chan'[d] = <<>> =>
           pending'[call'[d].id] = d
  BY <1>2, <1>3 DEF IdInv
<1>11. \A n \in 1 .. Len(wire') : wire'[n].tag = 0 \/ wire'[n] \in received'
  BY <1>1, <1>2 DEF IdInv
<1>. QED  BY <1>7, <1>8, <1>9, <1>10, <1>11 DEF IdInv, Known

\* A request keeps its id and its tag.
LEMMA SameIds ==
  ASSUME IdInv, calls' = calls, nextID' = nextID,
         \A d \in Callers : call'[d].id = call[d].id /\ call'[d].tag = call[d].tag,
         \A d \in Callers : call'[d].pc \in Busy => call[d].pc \in Busy,
         received' \subseteq received \cup
           {Line(call[c].id, call[c].tag) : c \in {d \in Callers : call[d].pc \in Busy}},
         \A n \in 1 .. Len(wire') : wire'[n].tag = 0 \/ wire'[n] \in received',
         \A d \in Callers :
           (/\ call'[d].pc \in {"post", "exchange", "select"}
            /\ transport' = "sse" /\ chan'[d] = <<>>) =>
             pending'[call[d].id] = d
  PROVE  IdInv'
<1>1. \A i, n : Known(i, n)' <=> Known(i, n)
  BY DEF Known
<1>2. ASSUME NEW c \in Callers, call[c].pc \in Busy
      PROVE  /\ Known(call[c].id, call[c].tag)
             /\ \A d \in Callers : call[c].id = call[d].id <=> call[c].tag = call[d].tag
  BY <1>2 DEF IdInv
<1>3. ASSUME NEW l \in received'
      PROVE  Known(l.id, l.tag) /\ \A d \in Callers : l.id = call[d].id <=> l.tag = call[d].tag
  <2>1. CASE l \in received
    BY <2>1 DEF IdInv
  <2>2. CASE l \notin received
    <3>1. PICK c \in Callers : call[c].pc \in Busy /\ l = Line(call[c].id, call[c].tag)
      BY <2>2
    <3>2. l.id = call[c].id /\ l.tag = call[c].tag
      BY <3>1 DEF Line
    <3>. QED  BY <1>2, <3>1, <3>2
  <2>. QED  BY <2>1, <2>2
<1>. QED  BY <1>1, <1>3 DEF IdInv

\* A request goes on.
LEMMA CallIds ==
  ASSUME MuxInv, IdInv, NEW c \in Callers,
         \/ Register(c) \/ Post(c) \/ ReadBody(c) \/ Accepted(c) \/ PostFails(c)
         \/ ReceiveReply(c) \/ GiveUp(c)
  PROVE  IdInv'
<1>1. /\ UNCHANGED <<calls, nextID, transport, wire>>
      /\ received' \subseteq received \cup {Line(call[c].id, call[c].tag)}
      /\ received \subseteq received'
  BY DEF Register, Post, ReadBody, Accepted, PostFails, ReceiveReply, GiveUp, serverVars,
         clientVars,
         streamVars
<1>2. PICK from \in Busy, to \in Busy \ {"register"} :
        /\ Goto(c, from, to)
        /\ to \in {"post", "exchange", "select"} =>
             chan' = chan /\ (Register(c) \/ from \in {"post", "exchange", "select"})
  BY DEF Register, Post, ReadBody, Accepted, PostFails, ReceiveReply, GiveUp, Busy
<1>3. /\ call[c].pc = from /\ call'[c].pc = to
      /\ \A d \in Callers : /\ d # c => call'[d] = call[d]
                            /\ call'[d].id = call[d].id /\ call'[d].tag = call[d].tag
  BY <1>2, GotoFacts DEF MuxInv, Busy, PCs
<1>4. ASSUME NEW d \in Callers, call'[d].pc \in {"post", "exchange", "select"}, transport' = "sse",
             chan'[d] = <<>>
      PROVE  pending'[call[d].id] = d
  <2>1. CASE d = c
    <3>1. CASE Register(c)
      <4>1. call[c].id \in IDs
        BY <1>2, <1>3 DEF MuxInv, TypeOK, Busy
      <4>. QED  BY <2>1, <3>1, <4>1 DEF Register, MuxInv, TypeOK
    <3>2. CASE ~Register(c)
      <4>1. pending' = pending
        BY <3>2 DEF Post, ReadBody, Accepted, PostFails, ReceiveReply, GiveUp
      <4>. QED  BY <1>1, <1>2, <1>3, <1>4, <2>1, <3>2, <4>1 DEF IdInv
    <3>. QED  BY <3>1, <3>2
  <2>2. CASE d # c
    <3>1. call'[d] = call[d] /\ chan'[d] = chan[d]
      <4>1. chan' = chan \/ chan' = [chan EXCEPT ![c] = <<>>]
        BY DEF Register, Post, ReadBody, Accepted, PostFails, ReceiveReply, GiveUp
      <4>. QED  BY <1>3, <2>2, <4>1 DEF MuxInv, TypeOK
    <3>2. pending[call[d].id] = d
      BY <1>1, <1>4, <3>1 DEF IdInv
    <3>3. call[d].id # call[c].id
      BY <1>2, <1>3, <2>2 DEF IdInv
    <3>4. pending' = pending \/ pending' = [pending EXCEPT ![call[c].id] = c]
      BY DEF Register, Post, ReadBody, Accepted, PostFails, ReceiveReply, GiveUp
    <3>5. call[d].id \in IDs
      BY <1>4, <3>1 DEF MuxInv, TypeOK
    <3>. QED  BY <3>2, <3>3, <3>4, <3>5 DEF MuxInv, TypeOK
  <2>. QED  BY <2>1, <2>2
<1>5. \A n \in 1 .. Len(wire') : wire'[n].tag = 0 \/ wire'[n] \in received'
  BY <1>1 DEF IdInv
<1>6. \A d \in Callers : call'[d].pc \in Busy => call[d].pc \in Busy
  BY <1>2, <1>3
<1>7. received' \subseteq received \cup
        {Line(call[b].id, call[b].tag) : b \in {d \in Callers : call[d].pc \in Busy}}
  BY <1>1, <1>2, <1>3
<1>. QED  BY <1>1, <1>3, <1>4, <1>5, <1>6, <1>7, SameIds

\* A request ends, or Initialize goes on without one.
LEMMA EndsAway ==
  ASSUME TypeOK, NEW c \in Callers,
         \/ Return(c) \/ InitSucceeds(c) \/ InitFails(c)
         \/ (InitSSE /\ c = Opener) \/ Dial(c) \/ DialFails(c) \/ EndpointFails(c)
  PROVE  /\ \A d \in Callers : call'[d].id = call[d].id /\ call'[d].tag = call[d].tag
         /\ \A d \in Callers \ {c} : call'[d] = call[d]
         /\ call'[c].pc \in {"idle", "dial", "await"}
         /\ InitSSE \/ call[c].pc \in {"return", "dial", "await"}
<1>1. CASE InitSSE /\ c = Opener
  <2>1. call' = [call EXCEPT ![c] = [call[c] EXCEPT !.pc = "dial", !.kind = "init"]]
    BY <1>1 DEF InitSSE, TypeOK
  <2>2. call[c] \in RequestType /\ call \in [Callers -> RequestType]
    BY DEF TypeOK, RequestType
  <2>3. /\ [call[c] EXCEPT !.pc = "dial", !.kind = "init"].pc = "dial"
        /\ [call[c] EXCEPT !.pc = "dial", !.kind = "init"].id = call[c].id
        /\ [call[c] EXCEPT !.pc = "dial", !.kind = "init"].tag = call[c].tag
    BY <2>2 DEF RequestType
  <2>. QED  BY <1>1, <2>1, <2>2, <2>3
<1>2. CASE ~(InitSSE /\ c = Opener)
  <2>1. PICK from \in {"return", "dial", "await"}, to \in {"idle", "dial", "await"} :
          Goto(c, from, to)
    BY <1>2 DEF Return, InitSucceeds, InitFails, Dial, DialFails, EndpointFails, NextTry
  <2>. QED  BY <2>1, GotoFacts DEF PCs, Busy
<1>. QED  BY <1>1, <1>2

\* A request returns to its caller, and Initialize goes on.
LEMMA ReturnIds ==
  ASSUME MuxInv, IdInv, NEW c \in Callers,
         \/ Return(c) \/ InitSucceeds(c) \/ InitFails(c)
         \/ (InitSSE /\ c = Opener) \/ Dial(c) \/ DialFails(c) \/ EndpointFails(c)
  PROVE  IdInv'
<1>1. UNCHANGED <<nextID, calls, chan, received, wire>>
  BY DEF Return, InitSucceeds, InitFails, InitSSE, Dial, DialFails, EndpointFails, NextTry,
         serverVars, streamVars
<1>2. /\ \A d \in Callers : call'[d].id = call[d].id /\ call'[d].tag = call[d].tag
      /\ \A d \in Callers \ {c} : call'[d] = call[d]
      /\ call'[c].pc \in {"idle", "dial", "await"}
  BY EndsAway DEF MuxInv
<1>3. ASSUME NEW d \in Callers, call'[d].pc \in {"post", "exchange", "select"}, transport' = "sse",
             chan'[d] = <<>>
      PROVE  pending'[call[d].id] = d
  <2>1. d # c /\ call'[d] = call[d] /\ call[d].pc \in Busy /\ call[d].id \in IDs
    BY <1>2, <1>3 DEF Busy, MuxInv, TypeOK
  <2>2. phase = "ready" /\ call[c].pc \in {"idle"} \cup Busy
    <3>1. call[c].pc # "idle" \/ (InitSSE /\ phase = "new")
      BY DEF Return, InitSucceeds, InitFails, InitSSE, Dial, DialFails, EndpointFails, NextTry, Goto
    <3>. QED  BY <2>1, <3>1, ClientAssumption DEF MuxInv, PhaseInv, Busy, TypeOK
  <2>3. Return(c)
    BY <2>2, <1>2, <2>1, ClientAssumption
    DEF MuxInv, PhaseInv, InitSucceeds, InitFails, InitSSE, Dial, DialFails,
       EndpointFails, NextTry, Goto, Busy
  <2>4. transport' = transport /\ Unregister(c) /\ call[c].pc = "return"
    BY <2>3 DEF Return, clientVars, Goto
  <2>5. pending[call[d].id] = d
    BY <1>1, <1>3, <2>1, <2>4 DEF IdInv
  <2>6. call[d].id # call[c].id
    BY <2>1, <2>4 DEF IdInv, Busy
  <2>. QED  BY <2>1, <2>4, <2>5, <2>6 DEF Unregister, MuxInv, TypeOK
<1>4. \A d \in Callers : call'[d].pc \in Busy => call[d].pc \in Busy
  BY <1>2 DEF Busy
<1>. QED  BY <1>1, <1>2, <1>3, <1>4, SameIds DEF IdInv

\* Probes, closing, the server and the ends of the stream.
LEMMA OtherIds ==
  ASSUME MuxInv, IdInv,
         \/ Close \/ ReaderEnds \/ (\E t \in Tries : Probe(t)) \/ ServerStep \/ UNCHANGED vars
  PROVE  IdInv'
<1>1. UNCHANGED <<nextID, calls, call, pending, chan, transport, received>>
  BY DEF Close, ReaderEnds, Probe, ServerStep, AnswerPost, Send, EndStream, vars, serverVars,
         clientVars, streamVars
<1>2. \A n \in 1 .. Len(wire') : wire'[n].tag = 0 \/ wire'[n] \in received'
  <2>1. CASE wire' \in {wire, <<>>}
    BY <1>1, <2>1 DEF IdInv
  <2>2. ASSUME NEW l \in received \cup {Line(i, 0) : i \in ServerIDs}, Send(l)
        PROVE  \A n \in 1 .. Len(wire') : wire'[n].tag = 0 \/ wire'[n] \in received'
    <3>1. wire \in Seq(LineSet) /\ wire' = Append(wire, l)
      BY <2>2 DEF Send, MuxInv, TypeOK
    <3>2. l.tag = 0 \/ l \in received
      BY DEF Line
    <3>. QED  BY <1>1, <3>1, <3>2 DEF IdInv
  <2>3. wire' \in {wire, <<>>} \/ \E l \in received \cup {Line(i, 0) : i \in ServerIDs} : Send(l)
    BY DEF Close, ReaderEnds, Probe, ServerStep, AnswerPost, EndStream, vars, streamVars
  <2>. QED  BY <2>1, <2>2, <2>3
<1>. QED  BY <1>1, <1>2, SameIds DEF IdInv

\* A line of the stream is read.
LEMMA EventIds == ASSUME MuxInv, IdInv, ReadEvent PROVE IdInv'
<1>1. UNCHANGED <<nextID, calls, call, received, transport>>
  BY DEF ReadEvent, serverVars, clientVars
<1>2. \A n \in 1 .. Len(wire') : wire'[n].tag = 0 \/ wire'[n] \in received'
  <2>1. wire \in Seq(LineSet) /\ wire # <<>> /\ wire' = Tail(wire)
    BY EventFacts DEF MuxInv, TypeOK
  <2>2. \A n \in 1 .. Len(wire') : n + 1 \in 1 .. Len(wire) /\ wire'[n] = wire[n + 1]
    BY <2>1
  <2>. QED  BY <1>1, <2>2 DEF IdInv
<1>3. ASSUME NEW d \in Callers, call'[d].pc \in {"post", "exchange", "select"}, transport' = "sse",
             chan'[d] = <<>>
      PROVE  pending'[call[d].id] = d
  <2>1. CASE UNCHANGED <<pending, chan>>
    BY <1>1, <1>3, <2>1 DEF IdInv
  <2>2. CASE ~UNCHANGED <<pending, chan>>
    <3>1. PICK c \in Callers :
            /\ pending[wire[1].id] = c /\ wire[1].id \in IDs /\ chan[c] = <<>>
            /\ chan' = [chan EXCEPT ![c] = <<wire[1].tag>>]
            /\ pending' = [pending EXCEPT ![wire[1].id] = NoCaller]
      BY <2>2, EventFacts
    <3>2. d # c /\ chan'[d] = chan[d]
      BY <1>3, <3>1 DEF MuxInv, TypeOK
    <3>3. pending[call[d].id] = d /\ call[d].id \in IDs
      BY <1>1, <1>3, <3>2 DEF IdInv, MuxInv, TypeOK
    <3>. QED  BY <3>1, <3>2, <3>3 DEF MuxInv, TypeOK
  <2>. QED  BY <2>1, <2>2
<1>. QED  BY <1>1, <1>2, <1>3, SameIds

\* Every step keeps it, if nobody reuses an id of the counter.
LEMMA NextIds == IdsApart /\ MuxInv /\ IdInv /\ [Next]_vars => IdInv'
<1> SUFFICES ASSUME IdsApart, MuxInv, IdInv, [Next]_vars PROVE IdInv'
  OBVIOUS
<1>1. ASSUME NEW c \in Callers, CallerStep(c) \/ Dial(c) \/ DialFails(c) PROVE IdInv'
  BY <1>1, CallIds, ReturnIds, BeginIds DEF CallerStep, Begins
<1>2. CASE InitHTTP \/ InitSSE
  BY <1>2, BeginIds, ReturnIds, ClientAssumption DEF Begins
<1>3. ASSUME NEW c \in Callers, BeginCall(c) \/ \E id \in RawIDs : BeginRaw(c, id) PROVE IdInv'
  BY <1>3, BeginIds DEF Begins
<1>4. CASE (\E t \in Tries : Probe(t)) \/ ReaderStep \/ Close \/ ServerStep \/ UNCHANGED vars
  BY <1>4, EventIds, OtherIds DEF ReaderStep
<1>. QED  BY <1>1, <1>2, <1>3, <1>4, ClientAssumption DEF Next

\* It holds in every state.
LEMMA SpecIds == ASSUME IdsApart PROVE Spec => []IdInv
<1>1. MuxInv /\ IdInv /\ [Next]_vars => IdInv'
  BY NextIds
<1>. QED  BY <1>1, InitIds, SpecMux, PTL DEF Spec

\* Where raw ids of MCP clients differ from those of the counter, an answer on the stream
\* finds the entry of the call it answers: it is not dropped and not given to another.
THEOREM AnswersReachTheirCalls == ASSUME IdsApart PROVE Spec => []NoAnswerLost
<1>1. MuxInv /\ IdInv => NoAnswerLost
  <2> SUFFICES ASSUME MuxInv, IdInv, NEW i \in 1 .. Len(wire), NEW c \in Callers,
                      call[c].tag = wire[i].tag, chan[c] = <<>>,
                      call[c].pc \in {"exchange", "select"}
               PROVE  pending[wire[i].id] = c
    BY DEF NoAnswerLost
  <2>1. call[c].tag # 0
    BY DEF IdInv, Busy
  <2>2. wire[i].id = call[c].id
    BY <2>1 DEF IdInv
  <2>3. transport = "sse"
    BY DEF MuxInv, StreamInv, TypeOK
  <2>. QED  BY <2>2, <2>3 DEF IdInv
<1>. QED  BY <1>1, SpecMux, SpecIds, PTL
-----------------------------------------------------------------------------
(* Answers *)

\* The invariant on answers, step by step.
LEMMA InitAnswers == Init => AnswerInv
<1> SUFFICES ASSUME Init PROVE AnswerInv
  OBVIOUS
<1>1. \A c \in Callers : /\ call[c].pc = "idle" /\ post[c] = "none"
                         /\ chan[c] = <<>> /\ out[c] = <<>>
  BY DEF Init
<1>2. wire = <<>>
  BY DEF Init
<1>. QED  BY <1>1, <1>2 DEF AnswerInv, Busy

\* A request starts without an answer.
LEMMA BeginAnswers ==
  ASSUME MuxInv, IdInv, AnswerInv, IdsApart, NEW c \in Callers, Begins(c)
  PROVE  AnswerInv'
<1>1. PICK id \in IDs, kind \in {"init", "call"} :
        /\ StartRequest(c, kind, id) /\ call[c].pc \in {"idle", "await"} /\ wire' = wire
  BY BeginFresh
<1>2. answered' = answered /\ post' = post
  BY <1>1 DEF StartRequest, serverVars
<1>3. /\ chan'[c] = <<>> /\ out'[c] = <<>>
      /\ \A d \in Callers \ {c} : call'[d] = call[d] /\ chan'[d] = chan[d] /\ out'[d] = out[d]
  BY <1>1, StartFacts DEF MuxInv
<1>4. post[c] = "none"
  BY <1>1 DEF AnswerInv
<1>. QED  BY <1>1, <1>2, <1>3, <1>4 DEF AnswerInv

\* A request keeps its tag, and its channel loses what it had or nothing.
LEMMA SameAnswers ==
  ASSUME AnswerInv, wire' = wire, answered \subseteq answered',
         \A d \in Callers :
           /\ call'[d].tag = call[d].tag
           /\ chan'[d] = chan[d] \/ chan'[d] = <<>>
           /\ post'[d] # "none" => call'[d].pc = "exchange"
           /\ post'[d] = "answer" => post[d] = "answer" \/ call[d].tag \in answered'
           /\ call'[d].pc \in Busy \ {"return"} =>
                out'[d] = out[d] /\ call[d].pc \in Busy \ {"return"}
  PROVE  AnswerInv'
  BY DEF AnswerInv

\* What a request takes is its own answer.
LEMMA CallAnswers ==
  ASSUME MuxInv, AnswerInv, NEW c \in Callers,
         \/ Register(c) \/ Post(c) \/ ReadBody(c) \/ Accepted(c) \/ PostFails(c)
         \/ ReceiveReply(c) \/ GiveUp(c)
  PROVE  AnswerInv'
<1>1. UNCHANGED <<answered, wire>>
  BY DEF Register, Post, ReadBody, Accepted, PostFails, ReceiveReply, GiveUp, serverVars, streamVars
<1>2. PICK from \in Busy \ {"return"}, to \in Busy \ {"register"} :
        /\ Goto(c, from, to)
        /\ \/ post' = [post EXCEPT ![c] = "none"]
           \/ post' = [post EXCEPT ![c] = "sent"] /\ to = "exchange"
           \/ post' = post /\ from # "exchange"
        /\ chan' \in {chan, [chan EXCEPT ![c] = <<>>]}
        /\ \/ out' = out
           \/ to = "return" /\ \E r \in Replies : out' = [out EXCEPT ![c] = r]
  <2>1. chan[c] \in Replies /\ call[c].tag \in Tags
    BY DEF MuxInv, TypeOK
  <2>2. \A t \in Tags : <<t>> \in Replies
    BY DEF Replies
  <2>3. CASE ReadBody(c)
    BY <2>1, <2>2, <2>3, Numbers DEF ReadBody, Busy
  <2>4. CASE ReceiveReply(c)
    BY <2>1, <2>4 DEF ReceiveReply, Busy
  <2>5. CASE Register(c)
    BY <2>5 DEF Register, Busy
  <2>6. CASE Post(c)
    BY <2>6 DEF Post, Busy
  <2>7. CASE Accepted(c)
    BY <2>7 DEF Accepted, Busy
  <2>8. CASE PostFails(c)
    BY <2>8 DEF PostFails, Busy
  <2>9. CASE GiveUp(c)
    BY <2>9 DEF GiveUp, Busy
  <2>. QED  BY <2>3, <2>4, <2>5, <2>6, <2>7, <2>8, <2>9
<1>3. /\ call[c].pc = from /\ call'[c].pc = to
      /\ \A d \in Callers : d # c => call'[d] = call[d]
      /\ \A d \in Callers : call'[d].tag = call[d].tag
  BY <1>2, GotoFacts DEF MuxInv, Busy, PCs
<1>4. \A d \in Callers :
           /\ chan'[d] = chan[d] \/ chan'[d] = <<>>
           /\ post'[d] # "none" => call'[d].pc = "exchange"
           /\ post'[d] = "answer" => post[d] = "answer"
           /\ d # c => out'[d] = out[d]
           /\ to # "return" => out'[d] = out[d]
  BY <1>2, <1>3 DEF MuxInv, TypeOK, AnswerInv
<1>5. \A d \in Callers : call'[d].pc \in Busy \ {"return"} =>
           out'[d] = out[d] /\ call[d].pc \in Busy \ {"return"}
  BY <1>2, <1>3, <1>4
<1>. QED  BY <1>1, <1>3, <1>4, <1>5, SameAnswers

\* A request that returns leaves nothing behind.
LEMMA ReturnAnswers ==
  ASSUME MuxInv, AnswerInv, NEW c \in Callers,
         \/ Return(c) \/ InitSucceeds(c) \/ InitFails(c)
         \/ (InitSSE /\ c = Opener) \/ Dial(c) \/ DialFails(c) \/ EndpointFails(c)
  PROVE  AnswerInv'
<1>1. UNCHANGED <<answered, wire, out, post, chan>>
  BY DEF Return, InitSucceeds, InitFails, InitSSE, Dial, DialFails, EndpointFails, NextTry,
         serverVars, streamVars
<1>2. /\ \A d \in Callers : call'[d].tag = call[d].tag
      /\ \A d \in Callers \ {c} : call'[d] = call[d]
      /\ call'[c].pc \in {"idle", "dial", "await"} /\ call[c].pc # "exchange"
  BY EndsAway DEF MuxInv, PhaseInv, InitSSE
<1>. QED  BY <1>1, <1>2, SameAnswers DEF AnswerInv, Busy

\* Probes, closing, the server and the ends of the stream.
LEMMA OtherAnswers ==
  ASSUME MuxInv, IdInv, AnswerInv, ServerIDs = {},
         \/ Close \/ ReaderEnds \/ (\E t \in Tries : Probe(t)) \/ ServerStep \/ UNCHANGED vars
  PROVE  AnswerInv'
<1>1. UNCHANGED <<call, chan, out>>
  BY DEF Close, ReaderEnds, Probe, ServerStep, AnswerPost, Send, EndStream, vars, serverVars,
         clientVars, streamVars
<1>2. ASSUME NEW c \in Callers, AnswerPost(c) PROVE AnswerInv'
  <2>1. wire' = wire /\ answered \subseteq answered'
    BY <1>2 DEF AnswerPost, streamVars
  <2>2. \A d \in Callers : post'[d] # "none" => post[d] # "none"
    BY <1>2 DEF AnswerPost, MuxInv, TypeOK
  <2>3. \A d \in Callers : post'[d] = "answer" => post[d] = "answer" \/ call[d].tag \in answered'
    BY <1>2 DEF AnswerPost, MuxInv, TypeOK
  <2>. QED  BY <1>1, <2>1, <2>2, <2>3, SameAnswers DEF AnswerInv
<1>3. ASSUME NEW l \in received, Send(l) PROVE AnswerInv'
  <2>1. l.tag # 0 /\ l.tag \in answered' /\ answered \subseteq answered' /\ post' = post
    BY <1>3, Numbers DEF Send, IdInv, Known
  <2>2. wire \in Seq(LineSet) /\ l \in LineSet /\ wire' = Append(wire, l)
    BY <1>3 DEF Send, MuxInv, TypeOK
  <2>3. \A n \in 1 .. Len(wire') : wire'[n].tag # 0 /\ wire'[n].tag \in answered'
    BY <2>1, <2>2 DEF AnswerInv
  <2>. QED  BY <1>1, <2>1, <2>3 DEF AnswerInv
<1>4. CASE UNCHANGED <<post, answered>> /\ wire' \in {wire, <<>>}
  BY <1>1, <1>4 DEF AnswerInv
<1>5. \/ \E c \in Callers : AnswerPost(c)
      \/ \E l \in received : Send(l)
      \/ UNCHANGED <<post, answered>> /\ wire' \in {wire, <<>>}
  BY DEF Close, ReaderEnds, Probe, ServerStep, EndStream, vars, serverVars, streamVars
<1>. QED  BY <1>2, <1>3, <1>4, <1>5

\* What is passed to a caller is the answer to its request.
LEMMA EventAnswers ==
  ASSUME MuxInv, IdInv, AnswerInv, ReadEvent
  PROVE  AnswerInv'
<1>1. UNCHANGED <<call, out, post, answered>>
  BY DEF ReadEvent, serverVars
<1>2. wire \in Seq(LineSet) /\ Len(wire) \in Nat \ {0} /\ wire' = Tail(wire)
  BY EventFacts DEF MuxInv, TypeOK
<1>3. \A n \in 1 .. Len(wire') : wire'[n].tag # 0 /\ wire'[n].tag \in answered'
  <2>1. \A n \in 1 .. Len(wire') : n + 1 \in 1 .. Len(wire) /\ wire'[n] = wire[n + 1]
    BY <1>2
  <2>. QED  BY <1>1, <2>1 DEF AnswerInv
<1>4. ASSUME NEW d \in Callers, chan'[d] # <<>>
      PROVE  chan'[d] = <<call[d].tag>> /\ call[d].tag \in answered
  <2>1. CASE chan'[d] = chan[d]
    BY <1>4, <2>1 DEF AnswerInv
  <2>2. CASE chan'[d] # chan[d]
    <3>1. PICK c \in Callers :
            /\ pending[wire[1].id] = c /\ wire[1].id \in IDs
            /\ chan' = [chan EXCEPT ![c] = <<wire[1].tag>>]
      BY <2>2, EventFacts
    <3>2. d = c /\ chan'[c] = <<wire[1].tag>>
      BY <2>2, <3>1 DEF MuxInv, TypeOK
    <3>3. call[c].id = wire[1].id
      BY <3>1, ClientAssumption DEF MuxInv, EntryInv
    <3>4. 1 \in 1 .. Len(wire)
      BY <1>2
    <3>5. wire[1].tag # 0 /\ wire[1].tag \in answered
      BY <3>4 DEF AnswerInv
    <3>6. wire[1] \in received
      BY <3>4, <3>5 DEF IdInv
    <3>7. call[c].tag = wire[1].tag
      BY <3>3, <3>6 DEF IdInv
    <3>. QED  BY <3>2, <3>5, <3>7
  <2>. QED  BY <2>1, <2>2
<1>. QED  BY <1>1, <1>3, <1>4 DEF AnswerInv

\* Every step keeps it, if the server only answers.
LEMMA NextAnswers ==
  IdsApart /\ OnlyAnswers /\ MuxInv /\ IdInv /\ AnswerInv /\ [Next]_vars => AnswerInv'
<1> SUFFICES ASSUME IdsApart, OnlyAnswers, MuxInv, IdInv, AnswerInv, [Next]_vars PROVE AnswerInv'
  OBVIOUS
<1>1. ASSUME NEW c \in Callers, CallerStep(c) \/ Dial(c) \/ DialFails(c) PROVE AnswerInv'
  BY <1>1, CallAnswers, ReturnAnswers, BeginAnswers DEF CallerStep, Begins
<1>2. CASE InitHTTP \/ InitSSE
  BY <1>2, BeginAnswers, ReturnAnswers, ClientAssumption DEF Begins
<1>3. ASSUME NEW c \in Callers, BeginCall(c) \/ \E id \in RawIDs : BeginRaw(c, id) PROVE AnswerInv'
  BY <1>3, BeginAnswers DEF Begins
<1>4. CASE (\E t \in Tries : Probe(t)) \/ ReaderStep \/ Close \/ ServerStep \/ UNCHANGED vars
  BY <1>4, EventAnswers, OtherAnswers DEF ReaderStep, OnlyAnswers
<1>. QED  BY <1>1, <1>2, <1>3, <1>4, ClientAssumption DEF Next

\* It holds in every state.
LEMMA SpecAnswers == ASSUME IdsApart, OnlyAnswers PROVE Spec => []AnswerInv
<1>1. MuxInv /\ IdInv /\ AnswerInv /\ [Next]_vars => AnswerInv'
  BY NextAnswers
<1>. QED  BY <1>1, InitAnswers, SpecMux, SpecIds, PTL DEF Spec

-----------------------------------------------------------------------------
(* Refinement *)

\* The refinement mapping: who waits, and for the answer to which request.
Asking == {c \in Callers : call[c].pc \notin {"idle", "dial", "await"}}
TagOf  == [c \in Callers |-> call[c].tag]

\* Step by step, the client does what RequestReply may do, or nothing.
LEMMA InitRefines == Init => RR!RRInit
  BY DEF Init, RR!RRInit

\* A request that starts is one that is asked.
LEMMA BeginRefines ==
  ASSUME MuxInv, IdInv, IdsApart, NEW c \in Callers, Begins(c)
  PROVE  RR!Ask(c)
<1>1. PICK id \in IDs, kind \in {"init", "call"} :
        /\ StartRequest(c, kind, id) /\ call[c].pc \in {"idle", "await"}
  BY BeginFresh
<1>2. /\ calls < MaxCalls /\ calls' = calls + 1 /\ out' = [out EXCEPT ![c] = <<>>]
      /\ answered' = answered
  <2>1. calls \in 0 .. MaxCalls /\ TypeOK
    BY DEF MuxInv, TypeOK
  <2>2. calls + 1 \in 1 .. MaxCalls
    BY <1>1, <2>1, StartFacts
  <2>. QED  BY <1>1, <2>1, <2>2, Numbers DEF StartRequest, serverVars
<1>3. /\ call'[c].tag = calls + 1 /\ call'[c].pc \notin {"idle", "dial", "await"}
      /\ \A d \in Callers \ {c} : call'[d] = call[d]
  BY <1>1, StartFacts DEF MuxInv
<1>4. Asking' = Asking \cup {c} /\ c \notin Asking
  BY <1>1, <1>3 DEF Asking
<1>5. TagOf' = [TagOf EXCEPT ![c] = calls + 1]
  BY <1>3 DEF TagOf
<1>. QED  BY <1>2, <1>4, <1>5 DEF RR!Ask, Asking, TagOf

\* One under way either gets its answer or is given up.
LEMMA CallRefines ==
  ASSUME OnlyAnswers, MuxInv, IdInv, AnswerInv, NEW c \in Callers,
         \/ Register(c) \/ Post(c) \/ ReadBody(c) \/ Accepted(c) \/ PostFails(c)
         \/ ReceiveReply(c) \/ GiveUp(c)
  PROVE  RR!Obtain(c) \/ UNCHANGED RR!rrVars
<1>1. UNCHANGED <<calls, answered>>
  BY DEF Register, Post, ReadBody, Accepted, PostFails, ReceiveReply, GiveUp, serverVars
<1>2. PICK from \in Busy, to \in Busy : Goto(c, from, to)
  BY DEF Register, Post, ReadBody, Accepted, PostFails, ReceiveReply, GiveUp, Busy
<1>3. /\ call[c].pc = from /\ call'[c].pc = to
      /\ \A d \in Callers : d # c => call'[d] = call[d]
      /\ \A d \in Callers : call'[d].tag = call[d].tag
  BY <1>2, GotoFacts DEF MuxInv, Busy, PCs
<1>4. Asking' = Asking /\ TagOf' = TagOf /\ c \in Asking
  BY <1>2, <1>3 DEF Asking, TagOf, Busy
<1>5. CASE ReadBody(c)
  <2>1. call[c].pc = "exchange" /\ post[c] = "answer" /\ out' = [out EXCEPT ![c] = <<call[c].tag>>]
    BY <1>5 DEF ReadBody, Goto, OnlyAnswers
  <2>2. call[c].tag \in answered /\ out[c] = <<>>
    BY <2>1 DEF AnswerInv, Busy
  <2>. QED  BY <1>1, <1>4, <2>1, <2>2 DEF RR!Obtain, Asking, TagOf
<1>6. CASE ReceiveReply(c)
  <2>1. call[c].pc = "select" /\ chan[c] # <<>> /\ out' = [out EXCEPT ![c] = chan[c]]
    BY <1>6 DEF ReceiveReply, Goto
  <2>2. chan[c] = <<call[c].tag>> /\ call[c].tag \in answered /\ out[c] = <<>>
    BY <2>1 DEF AnswerInv, Busy
  <2>. QED  BY <1>1, <1>4, <2>1, <2>2 DEF RR!Obtain, Asking, TagOf
<1>7. CASE ~ReadBody(c) /\ ~ReceiveReply(c)
  <2>1. out' = out
    BY <1>7 DEF Register, Post, Accepted, PostFails, GiveUp
  <2>. QED  BY <1>1, <1>4, <2>1 DEF RR!rrVars, Asking, TagOf
<1>. QED  BY <1>5, <1>6, <1>7

\* One that returns is done.
LEMMA ReturnRefines ==
  ASSUME MuxInv, NEW c \in Callers,
         \/ Return(c) \/ InitSucceeds(c) \/ InitFails(c)
         \/ (InitSSE /\ c = Opener) \/ Dial(c) \/ DialFails(c) \/ EndpointFails(c)
  PROVE  RR!Return(c) \/ UNCHANGED RR!rrVars
<1>1. UNCHANGED <<calls, answered, out>>
  BY DEF Return, InitSucceeds, InitFails, InitSSE, Dial, DialFails, EndpointFails, NextTry,
         serverVars
<1>2. /\ \A d \in Callers : call'[d].tag = call[d].tag
      /\ \A d \in Callers \ {c} : call'[d] = call[d]
      /\ call'[c].pc \in {"idle", "dial", "await"}
  BY EndsAway DEF MuxInv
<1>3. Asking' = Asking \ {c} /\ TagOf' = TagOf
  BY <1>2 DEF Asking, TagOf
<1>4. CASE c \in Asking
  BY <1>1, <1>3, <1>4 DEF RR!Return, Asking, TagOf
<1>5. CASE c \notin Asking
  <2>1. Asking' = Asking
    BY <1>3, <1>5
  <2>. QED  BY <1>1, <1>3, <2>1 DEF RR!rrVars, Asking, TagOf
<1>. QED  BY <1>4, <1>5

\* The other steps are answers of the server, or invisible.
LEMMA OtherRefines ==
  ASSUME OnlyAnswers, MuxInv, IdInv, AnswerInv,
         \/ (\E t \in Tries : Probe(t)) \/ ReaderStep \/ Close \/ ServerStep \/ UNCHANGED vars
  PROVE  (\E t \in 1 .. MaxCalls : RR!Answer(t)) \/ UNCHANGED RR!rrVars
<1>1. UNCHANGED <<calls, call, out>>
  BY DEF Close, ReaderStep, ReadEvent, ReaderEnds, Probe, ServerStep, AnswerPost, Send, EndStream,
         vars, serverVars, clientVars, streamVars
<1>2. Asking' = Asking /\ TagOf' = TagOf
  BY <1>1 DEF Asking, TagOf
<1>3. ASSUME NEW t \in 1 .. calls, answered' = answered \cup {t}
      PROVE  \E n \in 1 .. MaxCalls : RR!Answer(n)
  <2>1. t \in 1 .. MaxCalls
    BY Numbers DEF MuxInv, TypeOK
  <2>2. RR!Answer(t)
    BY <1>1, <1>2, <1>3 DEF RR!Answer, Asking, TagOf
  <2>. QED  BY <2>1, <2>2
<1>4. ASSUME NEW c \in Callers, AnswerPost(c)
      PROVE  answered' = answered \/ \E t \in 1 .. calls : answered' = answered \cup {t}
  <2>1. post[c] = "sent"
    BY <1>4 DEF AnswerPost
  <2>2. call[c].pc = "exchange"
    BY <2>1 DEF AnswerInv
  <2>3. call[c].tag \in 1 .. calls
    BY <2>2 DEF IdInv, Known, Busy
  <2>. QED  BY <1>4, <2>3 DEF AnswerPost
<1>5. ASSUME NEW l \in received, Send(l)
      PROVE  \E t \in 1 .. calls : answered' = answered \cup {t}
  <2>1. l.tag \in 1 .. calls
    BY DEF IdInv, Known
  <2>2. l.tag # 0
    BY <2>1
  <2>3. {l.tag} \ {0} = {l.tag}
    BY <2>2
  <2>. QED  BY <1>5, <2>1, <2>3 DEF Send
<1>6. answered' = answered \/ \E t \in 1 .. calls : answered' = answered \cup {t}
  <2>1. CASE \E c \in Callers : AnswerPost(c)
    BY <1>4, <2>1
  <2>2. CASE \E l \in received : Send(l)
    BY <1>5, <2>2
  <2>3. CASE ~(\E c \in Callers : AnswerPost(c)) /\ ~(\E l \in received : Send(l))
    BY <2>3 DEF OnlyAnswers, Close, ReaderStep, ReadEvent, ReaderEnds, Probe, ServerStep, EndStream,
           vars, serverVars
  <2>. QED  BY <2>1, <2>2, <2>3
<1>7. CASE answered' = answered
  BY <1>1, <1>2, <1>7 DEF RR!rrVars, Asking, TagOf
<1>. QED  BY <1>3, <1>6, <1>7

\* Every step is one of RequestReply or a stutter.
LEMMA StepRefines ==
  ASSUME IdsApart, OnlyAnswers, MuxInv, IdInv, AnswerInv, [Next]_vars
  PROVE  [RR!RRNext]_(RR!rrVars)
<1>1. ASSUME NEW c \in Callers, CallerStep(c) \/ Dial(c) \/ DialFails(c)
      PROVE  RR!RRNext \/ UNCHANGED RR!rrVars
  <2>1. CASE Endpoint(c)
    BY <2>1, BeginRefines DEF Begins, RR!RRNext
  <2>2. CASE \/ Return(c) \/ InitSucceeds(c) \/ InitFails(c)
             \/ EndpointFails(c) \/ Dial(c) \/ DialFails(c)
    BY <2>2, ReturnRefines DEF RR!RRNext
  <2>3. CASE \/ Register(c) \/ Post(c) \/ ReadBody(c) \/ Accepted(c) \/ PostFails(c)
             \/ ReceiveReply(c) \/ GiveUp(c)
    BY <2>3, CallRefines DEF RR!RRNext
  <2>. QED  BY <1>1, <2>1, <2>2, <2>3 DEF CallerStep
<1>2. CASE InitHTTP \/ InitSSE
  <2>1. CASE InitHTTP
    BY <2>1, BeginRefines, ClientAssumption DEF Begins, RR!RRNext
  <2>2. CASE InitSSE
    BY <2>2, ReturnRefines, ClientAssumption DEF RR!RRNext
  <2>. QED  BY <1>2, <2>1, <2>2
<1>3. ASSUME NEW c \in Callers, BeginCall(c) \/ \E id \in RawIDs : BeginRaw(c, id)
      PROVE  RR!RRNext
  BY <1>3, BeginRefines DEF Begins, RR!RRNext
<1>4. CASE (\E t \in Tries : Probe(t)) \/ ReaderStep \/ Close \/ ServerStep \/ UNCHANGED vars
  BY <1>4, OtherRefines DEF RR!RRNext
<1>. QED  BY <1>1, <1>2, <1>3, <1>4, ClientAssumption DEF Next

\* With ids apart and a server that only answers, the client with its ids, map, channels and
\* stream implements calls that each return once, with their own answer or an error.
THEOREM ClientImplementsRequestReply ==
  ASSUME IdsApart, OnlyAnswers
  PROVE  Spec => ImplementsRequestReply
<1>1. MuxInv /\ IdInv /\ AnswerInv /\ [Next]_vars => [RR!RRNext]_(RR!rrVars)
  BY StepRefines
<1>. QED  BY <1>1, InitRefines, SpecMux, SpecIds, SpecAnswers, PTL
          DEF Spec, ImplementsRequestReply, RR!RRSpec

-----------------------------------------------------------------------------
(* Credentials *)

-----------------------------------------------------------------------------
(* Orders of scopes *)

\* Positions of a concatenation.
LEMMA Joined ==
  ASSUME NEW S, NEW a \in Seq(S), NEW b \in Seq(S)
  PROVE  LET c == a \o b IN
         /\ c \in Seq(S) /\ Len(c) = Len(a) + Len(b)
         /\ \A i \in 1 .. Len(a) : c[i] = a[i]
         /\ \A i \in 1 .. Len(b) : c[Len(a) + i] = b[i]
<1> DEFINE c == a \o b
<1>1. /\ c \in Seq(S) /\ Len(c) = Len(a) + Len(b)
      /\ \A i \in 1 .. Len(a) + Len(b) : c[i] = IF i <= Len(a) THEN a[i] ELSE b[i - Len(a)]
  BY ConcatProperties
<1> HIDE DEF c
<1>2. Len(a) \in Nat /\ Len(b) \in Nat
  BY LenProperties
<1>3. ASSUME NEW i \in 1 .. Len(a) PROVE c[i] = a[i]
  <2>1. i \in 1 .. Len(a) + Len(b) /\ i <= Len(a)
    BY <1>2
  <2> QED BY <1>1, <2>1
<1>4. ASSUME NEW i \in 1 .. Len(b) PROVE c[Len(a) + i] = b[i]
  <2> DEFINE j == Len(a) + i
  <2>1. j \in 1 .. Len(a) + Len(b) /\ ~(j <= Len(a)) /\ j - Len(a) = i
    BY <1>2
  <2>2. c[j] = b[j - Len(a)]
    BY <1>1, <2>1
  <2> QED BY <2>1, <2>2
<1> QED BY <1>1, <1>3, <1>4 DEF c

\* Two at the head, a middle, and one at the end.
LEMMA Framed ==
  ASSUME NEW S, NEW h \in Seq(S), NEW g \in Seq(S), NEW z \in Seq(S), Len(h) = 2, Len(z) = 1
  PROVE  LET o == h \o g \o z IN
         /\ o \in Seq(S) /\ Len(o) = Len(g) + 3 /\ o[1] = h[1] /\ o[2] = h[2]
         /\ o[Len(g) + 3] = z[1] /\ \A k \in 1 .. Len(g) : o[k + 2] = g[k]
<1> DEFINE p == h \o g
           n == Len(g)
           o == p \o z
<1>1. n \in Nat
  BY LenProperties
<1>2. /\ p \in Seq(S) /\ Len(p) = Len(h) + Len(g)
      /\ \A i \in 1 .. Len(h) : p[i] = h[i]
      /\ \A i \in 1 .. Len(g) : p[Len(h) + i] = g[i]
  <2>1. h \in Seq(S) /\ g \in Seq(S)
    OBVIOUS
  <2> QED BY ONLY <2>1, Joined
<1> HIDE DEF p
<1>4. /\ o \in Seq(S) /\ Len(o) = Len(p) + Len(z)
      /\ \A i \in 1 .. Len(p) : o[i] = p[i]
      /\ \A i \in 1 .. Len(z) : o[Len(p) + i] = z[i]
  <2>1. p \in Seq(S) /\ z \in Seq(S)
    BY ONLY <1>2, z \in Seq(S)
  <2> QED BY ONLY <2>1, Joined
<1>3. Len(h) = 2 /\ Len(z) = 1
  OBVIOUS
<1> HIDE DEF o, n
<1>5. Len(p) = 2 + n
  BY ONLY <1>2, <1>3 DEF n
<1>6. Len(o) = n + 3
  BY ONLY <1>1, <1>3, <1>4, <1>5
<1>7. p[1] = h[1] /\ p[2] = h[2]
  <2>1. 1 \in 1 .. Len(h) /\ 2 \in 1 .. Len(h)
    BY ONLY <1>3
  <2> QED BY ONLY <1>2, <2>1
<1>8. o[1] = p[1] /\ o[2] = p[2]
  <2>1. 1 \in 1 .. Len(p) /\ 2 \in 1 .. Len(p)
    BY ONLY <1>1, <1>5
  <2> QED BY ONLY <1>4, <2>1
<1>9. o[n + 3] = z[1]
  <2>1. Len(p) + 1 = n + 3 /\ 1 \in 1 .. Len(z)
    BY ONLY <1>1, <1>3, <1>5
  <2>2. o[Len(p) + 1] = z[1]
    BY ONLY <1>4, <2>1
  <2> QED BY ONLY <2>1, <2>2
<1>10. ASSUME NEW k \in 1 .. n PROVE o[k + 2] = g[k]
  <2>1. k + 2 \in 1 .. Len(p) /\ k + 2 = Len(h) + k
    BY ONLY <1>1, <1>3, <1>5
  <2>2. p[Len(h) + k] = g[k]
    BY ONLY <1>2 DEF n
  <2>3. o[k + 2] = p[k + 2]
    BY ONLY <1>4, <2>1
  <2> QED BY ONLY <2>1, <2>2, <2>3
<1> QED BY <1>4, <1>6, <1>7, <1>8, <1>9, <1>10 DEF o, p, n

\* The two orders, position by position: of the same length, over the same groups.
LEMMA Orders ==
  ASSUME NEW id \in AllIds
  PROVE  LET g == id.groups
             e == EnvOrder(id)
             t == TokenOrder(id)
             n == Len(g)
         IN
         /\ n \in Nat /\ DOMAIN g = 1 .. n
         /\ e \in Seq(Scopes) /\ Len(e) = n + 3
         /\ e[1] = Default /\ e[2] = Role(id.role) /\ e[n + 3] = User(id.user)
         /\ \A k \in 1 .. n : e[k + 2] = Group(g[k])
         /\ t \in Seq(Scopes) /\ Len(t) = n + 3
         /\ t[1] = User(id.user) /\ t[2] = Role(id.role) /\ t[n + 3] = Default
         /\ \A k \in 1 .. n : t[k + 2] = Group(g[k])
<1> DEFINE g == id.groups
           n == Len(g)
           gs == GroupScopes(id)
           u == User(id.user)
           r == Role(id.role)
<1>1. g \in Seq(Range(g)) /\ n \in Nat /\ DOMAIN g = 1 .. n
  BY CredentialsAssumption
<1>2. u \in Scopes /\ r \in Scopes /\ Default \in Scopes
  BY DEF Scopes, Users, Roles
<1>3. \A k \in 1 .. n : g[k] \in Groups /\ Group(g[k]) \in Scopes
  <2>1. \A k \in 1 .. n : g[k] \in Range(g)
    BY <1>1 DEF Range
  <2> QED BY <2>1 DEF Scopes, Groups
<1>4. gs \in Seq(Scopes) /\ Len(gs) = n /\ \A k \in 1 .. n : gs[k] = Group(g[k])
  <2>1. gs = [k \in 1 .. n |-> Group(g[k])]
    BY <1>1 DEF GroupScopes
  <2> QED BY <1>1, <1>3, <2>1
<1> HIDE DEF g, n, gs, u, r
<1> DEFINE a == <<Default, r>>
           b == <<u, r>>
<1>5. a \in Seq(Scopes) /\ Len(a) = 2 /\ a[1] = Default /\ a[2] = r
  BY <1>2
<1>6. b \in Seq(Scopes) /\ Len(b) = 2 /\ b[1] = u /\ b[2] = r
  BY <1>2
<1> DEFINE y == <<u>>
           z == <<Default>>
<1>7. /\ y \in Seq(Scopes) /\ Len(y) = 1 /\ y[1] = u
      /\ z \in Seq(Scopes) /\ Len(z) = 1 /\ z[1] = Default
  BY <1>2
<1> DEFINE e == a \o gs \o y
           t == b \o gs \o z
<1> HIDE DEF a, b, y, z, e, t
<1>8. /\ e \in Seq(Scopes) /\ Len(e) = Len(gs) + 3 /\ e[1] = a[1] /\ e[2] = a[2]
      /\ e[Len(gs) + 3] = y[1] /\ \A k \in 1 .. Len(gs) : e[k + 2] = gs[k]
  <2>1. /\ a \in Seq(Scopes) /\ gs \in Seq(Scopes) /\ y \in Seq(Scopes)
        /\ Len(a) = 2 /\ Len(y) = 1
    BY ONLY <1>4, <1>5, <1>7
  <2> QED BY ONLY <2>1, Framed DEF e
<1>9. /\ t \in Seq(Scopes) /\ Len(t) = Len(gs) + 3 /\ t[1] = b[1] /\ t[2] = b[2]
      /\ t[Len(gs) + 3] = z[1] /\ \A k \in 1 .. Len(gs) : t[k + 2] = gs[k]
  <2>1. /\ b \in Seq(Scopes) /\ gs \in Seq(Scopes) /\ z \in Seq(Scopes)
        /\ Len(b) = 2 /\ Len(z) = 1
    BY ONLY <1>4, <1>6, <1>7
  <2> QED BY ONLY <2>1, Framed DEF t
<1>11. e = EnvOrder(id) /\ t = TokenOrder(id)
  BY DEF EnvOrder, TokenOrder, a, b, gs, u, r, y, z, e, t
<1> HIDE DEF e, t
<1> QED BY <1>1, <1>4, <1>5, <1>6, <1>7, <1>8, <1>9, <1>11 DEF g, n, u, r

\* A position of either order is one of the other.
LEMMA OrdersMeet ==
  ASSUME NEW id \in AllIds
  PROVE  /\ Range(TokenOrder(id)) = Range(EnvOrder(id)) /\ Range(EnvOrder(id)) \subseteq Scopes
         /\ \A x \in Range(EnvOrder(id)) :
              \/ x \in {Default, Role(id.role), User(id.user)}
              \/ \E g \in Range(id.groups) : x = Group(g)
<1> DEFINE e == EnvOrder(id)
           t == TokenOrder(id)
           n == Len(id.groups)
<1>1. /\ n \in Nat /\ DOMAIN id.groups = 1 .. n
      /\ DOMAIN e = 1 .. n + 3 /\ DOMAIN t = 1 .. n + 3 /\ e \in Seq(Scopes)
      /\ e[1] = Default /\ e[2] = Role(id.role) /\ e[n + 3] = User(id.user)
      /\ t[1] = User(id.user) /\ t[2] = Role(id.role) /\ t[n + 3] = Default
      /\ \A k \in 1 .. n : e[k + 2] = Group(id.groups[k]) /\ t[k + 2] = Group(id.groups[k])
  BY Orders
<1> HIDE DEF e, t, n
<1>2. \A m \in 1 .. n + 3 : m \in {1, 2, n + 3} \/ \E k \in 1 .. n : m = k + 2
  <2> SUFFICES ASSUME NEW m \in 1 .. n + 3, m \notin {1, 2, n + 3} PROVE \E k \in 1 .. n : m = k + 2
    OBVIOUS
  <2>1. m - 2 \in 1 .. n /\ m = (m - 2) + 2
    BY <1>1
  <2> QED BY <2>1
<1> DEFINE All == {Default, Role(id.role), User(id.user)} \cup {Group(id.groups[k]) : k \in 1 .. n}
<1>3. \A k \in 1 .. n : k + 2 \in 1 .. n + 3
  BY <1>1
<1>4. 1 \in 1 .. n + 3 /\ 2 \in 1 .. n + 3 /\ n + 3 \in 1 .. n + 3
  BY <1>1
<1>5. Range(e) = All
  <2>1. \A m \in 1 .. n + 3 : e[m] \in All
    BY <1>1, <1>2
  <2>2. \A x \in All : \E m \in 1 .. n + 3 : x = e[m]
    BY <1>1, <1>3, <1>4
  <2> QED BY <1>1, <2>1, <2>2 DEF Range
<1>6. Range(t) = All
  <2>1. \A m \in 1 .. n + 3 : t[m] \in All
    BY <1>1, <1>2
  <2>2. \A x \in All : \E m \in 1 .. n + 3 : x = t[m]
    BY <1>1, <1>3, <1>4
  <2> QED BY <1>1, <2>1, <2>2 DEF Range
<1>7. Range(e) \subseteq Scopes
  BY <1>1 DEF Range
<1>8. \A k \in 1 .. n : id.groups[k] \in Range(id.groups)
  BY <1>1 DEF Range
<1> QED BY <1>5, <1>6, <1>7, <1>8 DEF e, t

-----------------------------------------------------------------------------
(* The invariant *)

Values    == {"none", "good", "bad"}
StoreType == [Tables -> [Scopes -> Values]]
ConnType  == [pc : {"away", "key", "env", "token", "attach"}, config : Configs \cup {Gone},
              key : SubjectKeys \cup {Default}, todo : Seq(Scopes), env : Creds, token : Creds,
              kept : SUBSET (Tables \X Scopes), right : SUBSET Creds, rows : 0 .. 2,
              failed : BOOLEAN, mixed : BOOLEAN]

ResolutionTypes ==
  /\ target \in Configs \cup {Gone} /\ store \in StoreType
  /\ changes \in 0 .. MaxChanges /\ recycles \in 0 .. MaxRecycles
  /\ ident \in [Sessions -> AllIds] /\ \A s \in Sessions : ident[s] \in Identities[s]
  /\ conn \in [Sessions -> ConnType]
  /\ proc \in [SubjectKeys -> Scopes \cup {Bare, NoProc}]

\* Who connects knows for which target and key.
Connects(c) ==
  /\ c.pc # "away" => c.config \in Configs /\ c.key \in SubjectKeys
  /\ c.pc = "key" => c.env = Nothing
  /\ c.pc \in {"key", "env", "token"} => c.token = Nothing
  /\ c.pc \notin {"env", "token"} => c.todo = <<>>
  /\ c.pc = "token" => c.todo # <<>>
  /\ c.pc # "away" /\ (c.failed \/ c.mixed) => c.kept = {}

\* What c looks at and has found is among the scopes of its session's identity.
Own(c, id) ==
  LET scopes == Range(EnvOrder(id)) IN
  c.pc # "away" /\ ~c.mixed =>
    /\ c.key = SubjectKey(c.config, id)
    /\ Range(c.todo) \subseteq scopes
    /\ \A f \in {c.env, c.token} : f = Nothing \/ f.scope \in scopes

\* c has the last positions of an order still to read.
ToRead(c, order) ==
  /\ Len(c.todo) <= Len(order)
  /\ \A n \in 1 .. Len(c.todo) : c.todo[n] = order[Len(order) - Len(c.todo) + n]

HasRead(c, order) == Len(order) - Len(c.todo)

\* The environment after the first k scopes: none there all the time was passed over.
EnvKept(c, order, k) ==
  /\ c.env = Nothing \/ (c.env.table = "env" /\ \E m \in 1 .. k : c.env.scope = order[m])
  /\ \A m \in 1 .. k : <<"env", order[m]>> \in c.kept =>
       c.env.table = "env" /\ \E j \in m .. k : c.env.scope = order[j]

\* Nor was one of the first k tokens.
NoneKept(c, order, k) == \A m \in 1 .. k : <<"token", order[m]>> \notin c.kept

TokenKept(c, order) ==
  IF c.token = Nothing THEN NoneKept(c, order, Len(order))
  ELSE /\ c.token.table = "token"
       /\ \E m \in 1 .. Len(order) : c.token.scope = order[m] /\ NoneKept(c, order, m - 1)

\* Whether a token is looked for.
TokenWanted(c) == c.config.auth /\ ~(c.config.transport = "http" /\ c.env.good)

Undisturbed(c) == ~c.failed /\ ~c.mixed

KeptInv(c, id, tables) ==
  LET e == EnvOrder(id)
      t == TokenOrder(id)
  IN
  /\ c.pc # "away" => c.kept \subseteq Readable(tables)
  /\ c.pc = "env" /\ Undisturbed(c) => ToRead(c, e) /\ EnvKept(c, e, HasRead(c, e))
  /\ c.pc \in {"token", "attach"} /\ Undisturbed(c) => EnvKept(c, e, Len(e))
  /\ c.pc = "token" /\ Undisturbed(c) =>
       TokenWanted(c) /\ ToRead(c, t) /\ NoneKept(c, t, HasRead(c, t))
  /\ c.pc = "attach" /\ Undisturbed(c) =>
       IF TokenWanted(c) THEN TokenKept(c, t) ELSE c.token = Nothing

\* What the first k statements find if none is written meanwhile.
EnvIs(f, order, k, tables) ==
  \/ f = Nothing /\ \A m \in 1 .. k : tables["env"][order[m]] = "none"
  \/ \E m \in 1 .. k :
       /\ tables["env"][order[m]] # "none" /\ f = Found("env", order[m], tables)
       /\ \A j \in m + 1 .. k : tables["env"][order[j]] = "none"

NoToken(order, k, tables) == \A m \in 1 .. k : tables["token"][order[m]] = "none"

TokenIs(f, order, tables) ==
  \/ f = Nothing /\ NoToken(order, Len(order), tables)
  \/ \E m \in 1 .. Len(order) :
       /\ tables["token"][order[m]] # "none" /\ f = Found("token", order[m], tables)
       /\ NoToken(order, m - 1, tables)

\* What c has found so far is what it would have found in tables at once.
Agrees(c, id, tables) ==
  LET e == EnvOrder(id)
      t == TokenOrder(id)
  IN
  /\ c.pc = "env" => EnvIs(c.env, e, HasRead(c, e), tables)
  /\ c.pc \in {"token", "attach"} => EnvIs(c.env, e, Len(e), tables)
  /\ c.pc = "token" => NoToken(t, HasRead(c, t), tables)
  /\ c.pc = "attach" => IF TokenWanted(c) THEN TokenIs(c.token, t, tables) ELSE c.token = Nothing

\* The tables before the one row that was written, if any, agree or the present ones.
OnceInv(c, id, tables) ==
  c.pc # "away" /\ Undisturbed(c) /\ c.rows <= 1 =>
    /\ AtOnce(c.config, id, tables) \in c.right
    /\ \E t \in Tables, x \in Scopes, v \in Values :
         LET old == [tables EXCEPT ![t][x] = v] IN
         /\ AtOnce(c.config, id, old) \in c.right
         /\ c.rows = 0 => old = tables
         /\ Agrees(c, id, old) \/ Agrees(c, id, tables)

-----------------------------------------------------------------------------
(* What one transaction would have found *)

\* A set of positions has a first one.
LEMMA FirstOf ==
  ASSUME NEW N \in Nat, NEW S \in SUBSET (1 .. N), S # {}
  PROVE  \E n \in S : \A m \in S : n <= m
<1> DEFINE Below(n) == {k \in S : k <= n}
           T == {Below(n) : n \in S}
<1>1. IsFiniteSet(S)
  <2>1. IsFiniteSet(1 .. N)
    BY FS_Interval
  <2> QED BY <2>1, FS_Subset
<1>2. T \subseteq FiniteSubsetsOf(S) /\ T # {}
  <2>1. \A n \in S : Below(n) \in SUBSET S /\ IsFiniteSet(Below(n))
    BY <1>1, FS_Subset
  <2> QED BY <2>1 DEF FiniteSubsetsOf
<1>3. PICK x \in T : \A y \in T : <<y, x>> \notin StrictSubsetOrdering(S)
  <2> HIDE DEF T
  <2> QED BY <1>2, FS_StrictSubsetOrderingWellFounded, WFMin
<1>4. PICK n \in S : x = Below(n)
  BY <1>3
<1>5. ASSUME NEW m \in S, m < n PROVE FALSE
  <2>1. \A k \in S : k \in Int
    OBVIOUS
  <2>2. \A k \in S : k <= m => k <= n
    BY <1>5, <2>1
  <2>3. n <= n /\ ~(n <= m)
    BY <1>5, <2>1
  <2>4. Below(m) \in T /\ Below(m) \subseteq Below(n) /\ n \in Below(n) /\ n \notin Below(m)
    BY <2>2, <2>3
  <2>5. <<Below(m), Below(n)>> \in StrictSubsetOrdering(S)
    BY <2>4 DEF StrictSubsetOrdering
  <2> QED BY <1>3, <1>4, <2>4, <2>5
<1> QED BY <1>5

\* And a last one.
LEMMA LastOf ==
  ASSUME NEW N \in Nat, NEW S \in SUBSET (1 .. N), S # {}
  PROVE  \E n \in S : \A m \in S : m <= n
<1> DEFINE R == {N + 1 - n : n \in S}
<1>1. R \in SUBSET (1 .. N) /\ R # {}
  <2>1. \A n \in S : N + 1 - n \in 1 .. N
    OBVIOUS
  <2> QED BY <2>1
<1>2. PICK r \in R : \A k \in R : r <= k
  <2> HIDE DEF R
  <2> QED BY <1>1, FirstOf
<1>3. PICK n \in S : r = N + 1 - n
  BY <1>2
<1>4. ASSUME NEW m \in S PROVE m <= n
  <2>1. N + 1 - m \in R
    OBVIOUS
  <2>2. m \in Int /\ n \in Int
    OBVIOUS
  <2>3. N + 1 - n <= N + 1 - m
    BY <1>2, <1>3, <2>1
  <2> QED BY <2>2, <2>3
<1> QED BY <1>4

\* The two families of AtOnce.
EnvAtOnce(id, tables) ==
  LET e  == EnvOrder(id)
      es == {n \in DOMAIN e : tables["env"][e[n]] # "none"}
  IN IF es = {} THEN Nothing ELSE Found("env", e[CHOOSE n \in es : \A m \in es : m <= n], tables)

TokenAtOnce(id, tables) ==
  LET t  == TokenOrder(id)
      ts == {n \in DOMAIN t : tables["token"][t[n]] # "none"}
  IN IF ts = {} THEN Nothing ELSE Found("token", t[CHOOSE n \in ts : \A m \in ts : n <= m], tables)

\* AtOnce, by its two families of tables.
LEMMA AtOnceChooses ==
  ASSUME NEW config, NEW id, NEW tables
  PROVE  AtOnce(config, id, tables) = Choose(config, EnvAtOnce(id, tables), TokenAtOnce(id, tables))
BY DEF AtOnce, EnvAtOnce, TokenAtOnce

\* What the statements find in unchanged tables is what one transaction finds.
LEMMA EnvAtOnceIs ==
  ASSUME NEW id \in AllIds, NEW tables, NEW f
  PROVE  EnvIs(f, EnvOrder(id), Len(EnvOrder(id)), tables) <=> f = EnvAtOnce(id, tables)
<1> DEFINE e == EnvOrder(id)
           N == Len(e)
           S == {n \in DOMAIN e : tables["env"][e[n]] # "none"}
           last == CHOOSE n \in S : \A m \in S : m <= n
<1>1. N \in Nat /\ DOMAIN e = 1 .. N
  BY Orders
<1>2. EnvAtOnce(id, tables) = IF S = {} THEN Nothing ELSE Found("env", e[last], tables)
  BY DEF EnvAtOnce
<1> HIDE DEF e, N
<1>3. CASE S = {}
  <2>1. \A m \in 1 .. N : tables["env"][e[m]] = "none"
    BY <1>1, <1>3
  <2> QED BY <1>2, <1>3, <2>1 DEF EnvIs, e, N
<1>4. CASE S # {}
  <2>1. S \in SUBSET (1 .. N)
    BY <1>1
  <2>2. \E n \in S : \A m \in S : m <= n
    <3> HIDE DEF S
    <3> QED BY <1>1, <1>4, <2>1, LastOf
  <2>3. last \in S /\ \A m \in S : m <= last
    <3> HIDE DEF S
    <3> QED BY <2>2
  <2> HIDE DEF last
  <2>4. \A j \in last + 1 .. N : tables["env"][e[j]] = "none"
    <3> SUFFICES ASSUME NEW j \in last + 1 .. N, j \in S PROVE FALSE
      BY <1>1, <2>1, <2>3
    <3> QED BY <1>1, <2>1, <2>3
  <2>5. ASSUME NEW m \in 1 .. N, tables["env"][e[m]] # "none",
               \A j \in m + 1 .. N : tables["env"][e[j]] = "none"
        PROVE  m = last
    <3>1. m \in S /\ m <= last
      BY <1>1, <2>3, <2>5
    <3>2. ~(last \in m + 1 .. N)
      BY <2>3, <2>5
    <3> QED BY <1>1, <2>1, <2>3, <3>1, <3>2
  <2>6. ~ \A m \in 1 .. N : tables["env"][e[m]] = "none"
    BY <1>1, <2>3
  <2>7. tables["env"][e[last]] # "none" /\ last \in 1 .. N
    BY <1>1, <2>3
  <2> HIDE DEF S
  <2>8. EnvIs(f, e, N, tables) <=> f = Found("env", e[last], tables)
    BY <2>4, <2>5, <2>6, <2>7 DEF EnvIs
  <2> QED BY <1>2, <1>4, <2>8 DEF e, N
<1> QED BY <1>3, <1>4

\* So it is of tokens.
LEMMA TokenAtOnceIs ==
  ASSUME NEW id \in AllIds, NEW tables, NEW f
  PROVE  TokenIs(f, TokenOrder(id), tables) <=> f = TokenAtOnce(id, tables)
<1> DEFINE t == TokenOrder(id)
           N == Len(t)
           S == {n \in DOMAIN t : tables["token"][t[n]] # "none"}
           first == CHOOSE n \in S : \A m \in S : n <= m
<1>1. N \in Nat /\ DOMAIN t = 1 .. N
  BY Orders
<1>2. TokenAtOnce(id, tables) = IF S = {} THEN Nothing ELSE Found("token", t[first], tables)
  BY DEF TokenAtOnce
<1> HIDE DEF t, N
<1>3. CASE S = {}
  <2>1. \A m \in 1 .. N : tables["token"][t[m]] = "none"
    BY <1>1, <1>3
  <2> QED BY <1>2, <1>3, <2>1 DEF TokenIs, NoToken, t, N
<1>4. CASE S # {}
  <2>1. S \in SUBSET (1 .. N)
    BY <1>1
  <2>2. \E n \in S : \A m \in S : n <= m
    <3> HIDE DEF S
    <3> QED BY <1>1, <1>4, <2>1, FirstOf
  <2>3. first \in S /\ \A m \in S : first <= m
    <3> HIDE DEF S
    <3> QED BY <2>2
  <2> HIDE DEF first
  <2>4. \A j \in 1 .. first - 1 : tables["token"][t[j]] = "none"
    <3> SUFFICES ASSUME NEW j \in 1 .. first - 1, j \in S PROVE FALSE
      BY <1>1, <2>1, <2>3
    <3> QED BY <1>1, <2>1, <2>3
  <2>5. ASSUME NEW m \in 1 .. N, tables["token"][t[m]] # "none",
               \A j \in 1 .. m - 1 : tables["token"][t[j]] = "none"
        PROVE  m = first
    <3>1. m \in S /\ first <= m
      BY <1>1, <2>3, <2>5
    <3>2. ~(first \in 1 .. m - 1)
      BY <2>3, <2>5
    <3> QED BY <1>1, <2>1, <2>3, <3>1, <3>2
  <2>6. ~ \A m \in 1 .. N : tables["token"][t[m]] = "none"
    BY <1>1, <2>3
  <2>7. tables["token"][t[first]] # "none" /\ first \in 1 .. N
    BY <1>1, <2>3
  <2> HIDE DEF S
  <2>8. TokenIs(f, t, tables) <=> f = Found("token", t[first], tables)
    BY <2>4, <2>5, <2>6, <2>7 DEF TokenIs, NoToken, N
  <2> QED BY <1>2, <1>4, <2>8 DEF t, N
<1> QED BY <1>3, <1>4

-----------------------------------------------------------------------------
(* Types *)

\* Keys of configurations and identities.
LEMMA SubjectKeyTypes ==
  ASSUME NEW config \in Configs, NEW id \in AllIds
  PROVE  SubjectKey(config, id) \in SubjectKeys
BY DEF SubjectKeys

\* Finds are credentials.
LEMMA FoundCreds ==
  ASSUME NEW table \in Tables, NEW x \in Scopes, NEW tables
  PROVE  Found(table, x, tables) \in Creds
BY DEF Found, Creds, Nothing, Scopes

\* So is none.
LEMMA NothingCreds == Nothing \in Creds
BY DEF Creds, Nothing, Scopes

\* One of the finds is chosen, or none.
LEMMA ChooseCreds ==
  ASSUME NEW config, NEW env \in Creds, NEW token \in Creds
  PROVE  /\ Choose(config, env, token) \in Creds
         /\ Choose(config, env, token) \in {env, token, Nothing}
BY DEF Choose, Creds, Nothing, Scopes

\* What is resolved at once is a credential.
LEMMA AtOnceCreds ==
  ASSUME NEW config, NEW id \in AllIds, NEW tables
  PROVE  AtOnce(config, id, tables) \in Creds
<1> DEFINE e == EnvOrder(id)
           t == TokenOrder(id)
<1>1. \A m \in 1 .. Len(e) : e[m] \in Scopes
  BY Orders, ElementOfSeq
<1>2. \A m \in 1 .. Len(t) : t[m] \in Scopes
  BY Orders, ElementOfSeq
<1>3. EnvAtOnce(id, tables) \in Creds
  <2>1. EnvIs(EnvAtOnce(id, tables), e, Len(e), tables)
    BY EnvAtOnceIs
  <2> HIDE DEF e
  <2>2. \A m \in 1 .. Len(e) : Found("env", e[m], tables) \in Creds
    BY <1>1, FoundCreds DEF Tables
  <2> QED BY <2>1, <2>2, NothingCreds DEF EnvIs
<1>4. TokenAtOnce(id, tables) \in Creds
  <2>1. TokenIs(TokenAtOnce(id, tables), t, tables)
    BY TokenAtOnceIs
  <2> HIDE DEF t
  <2>2. \A m \in 1 .. Len(t) : Found("token", t[m], tables) \in Creds
    BY <1>2, FoundCreds DEF Tables
  <2> QED BY <2>1, <2>2, NothingCreds DEF TokenIs
<1> QED BY <1>3, <1>4, AtOnceChooses, ChooseCreds

\* A list without its first element.
LEMMA Tails ==
  ASSUME NEW S, NEW q \in Seq(S), q # <<>>
  PROVE  /\ Len(q) \in Nat /\ Len(q) >= 1
         /\ Head(q) \in S /\ Head(q) = q[1]
         /\ Tail(q) \in Seq(S) /\ Len(Tail(q)) = Len(q) - 1
         /\ \A n \in 1 .. Len(Tail(q)) : Tail(q)[n] = q[n + 1]
         /\ Head(q) \in Range(q) /\ Range(Tail(q)) \subseteq Range(q)
<1>1. /\ Len(q) \in Nat /\ Len(q) >= 1 /\ DOMAIN q = 1 .. Len(q)
      /\ Head(q) \in S /\ Head(q) = q[1]
  OBVIOUS
<1>2. Tail(q) \in Seq(S) /\ Len(Tail(q)) = Len(q) - 1
  OBVIOUS
<1>3. \A n \in 1 .. Len(q) - 1 : Tail(q)[n] = q[n + 1]
  OBVIOUS
<1>4. DOMAIN Tail(q) = 1 .. Len(Tail(q))
  BY <1>2
<1> DEFINE r == Tail(q)
<1>5. \A n \in 1 .. Len(r) : n + 1 \in DOMAIN q /\ r[n] = q[n + 1]
  BY <1>1, <1>2, <1>3
<1> HIDE DEF r
<1>6. Range(r) \subseteq Range(q)
  BY <1>4, <1>5 DEF Range, r
<1>7. Head(q) \in Range(q)
  BY <1>1 DEF Range
<1> QED BY <1>1, <1>2, <1>5, <1>6, <1>7 DEF r

\* A session that has read the next scope.
LEMMA Advances ==
  ASSUME NEW c \in ConnType, NEW d, NEW order \in Seq(Scopes),
         ToRead(c, order), c.todo # <<>>, d.todo = Tail(c.todo)
  PROVE  /\ HasRead(c, order) \in Nat /\ HasRead(c, order) + 1 \in 1 .. Len(order)
         /\ Head(c.todo) = order[HasRead(c, order) + 1]
         /\ ToRead(d, order) /\ HasRead(d, order) = HasRead(c, order) + 1
         /\ Len(c.todo) = 1 => HasRead(c, order) + 1 = Len(order)
<1> DEFINE q == c.todo
           r == Tail(q)
           l == Len(q)
           N == Len(order)
<1>1. q \in Seq(Scopes) /\ N \in Nat
  BY DEF ConnType
<1>2. /\ l \in Nat /\ l >= 1 /\ Head(q) = q[1] /\ Len(r) = l - 1
      /\ \A n \in 1 .. Len(r) : r[n] = q[n + 1]
  BY <1>1, Tails
<1>3. l <= N /\ \A n \in 1 .. l : q[n] = order[N - l + n]
  BY DEF ToRead
<1> HIDE DEF q, r, N, l
<1>4. N - l \in Nat /\ N - l + 1 \in 1 .. N /\ (l = 1 => N - l + 1 = N)
  BY <1>1, <1>2, <1>3
<1>5. Head(q) = order[N - l + 1]
  BY <1>2, <1>3
<1>6. Len(r) <= N /\ \A n \in 1 .. Len(r) : r[n] = order[N - Len(r) + n]
  <2>1. Len(r) <= N
    BY <1>1, <1>2, <1>3
  <2>2. ASSUME NEW n \in 1 .. Len(r) PROVE r[n] = order[N - Len(r) + n]
    <3> DEFINE k == Len(r)
    <3>2. l \in Nat /\ k = l - 1 /\ n \in 1 .. k
      BY <1>2
    <3> HIDE DEF k
    <3>1. n + 1 \in 1 .. l /\ N - k + n = N - l + (n + 1)
      BY ONLY <1>1, <3>2
    <3> QED BY <1>2, <1>3, <3>1 DEF k
  <2> QED BY <2>1, <2>2
<1>7. N - Len(r) = N - l + 1
  BY <1>1, <1>2
<1>8. ToRead(d, order) /\ HasRead(d, order) = N - Len(r) /\ HasRead(c, order) = N - l
  BY <1>6 DEF ToRead, HasRead, q, r, N, l
<1> QED BY <1>4, <1>5, <1>7, <1>8 DEF q, N, l

\* Advances, as a position of the order.
LEMMA NextRead ==
  ASSUME NEW c \in ConnType, NEW order \in Seq(Scopes), ToRead(c, order), c.todo # <<>>
  PROVE  \E p \in 1 .. Len(order) :
           /\ p \in Nat /\ p - 1 \in Nat /\ HasRead(c, order) = p - 1 /\ Head(c.todo) = order[p]
           /\ Len(c.todo) = 1 => p = Len(order)
           /\ \A d : d.todo = Tail(c.todo) => ToRead(d, order) /\ HasRead(d, order) = p
<1> DEFINE h == HasRead(c, order)
           x == [todo |-> Tail(c.todo)]
<1>1. /\ h \in Nat /\ h + 1 \in 1 .. Len(order) /\ Head(c.todo) = order[h + 1]
      /\ Len(c.todo) = 1 => h + 1 = Len(order)
  <2>1. x.todo = Tail(c.todo)
    OBVIOUS
  <2> HIDE DEF x
  <2> QED BY <2>1, Advances
<1>2. \A d : d.todo = Tail(c.todo) => ToRead(d, order) /\ HasRead(d, order) = h + 1
  BY Advances
<1> HIDE DEF h
<1>3. (h + 1) - 1 = h /\ h + 1 \in Nat
  BY <1>1
<1> QED BY <1>1, <1>2, <1>3 DEF h

\* At first all of an order is to be read.
LEMMA Starts ==
  ASSUME NEW c, NEW order \in Seq(Scopes), c.todo = order
  PROVE  ToRead(c, order) /\ HasRead(c, order) = 0
<1>1. Len(order) \in Nat
  OBVIOUS
<1> QED BY <1>1 DEF ToRead, HasRead

\* With nothing left it has been read.
LEMMA Ends ==
  ASSUME NEW c, NEW order \in Seq(Scopes), c.todo = <<>>
  PROVE  HasRead(c, order) = Len(order)
<1>1. Len(order) \in Nat /\ Len(<<>>) = 0
  OBVIOUS
<1> QED BY <1>1 DEF HasRead

\* The invariant of one session.
Good(c, id, tables) == Connects(c) /\ Own(c, id) /\ KeptInv(c, id, tables)

\* The invariant holds of a session that is not connecting.
LEMMA AwayGood ==
  ASSUME NEW id \in AllIds, NEW tables \in StoreType
  PROVE  Away \in ConnType /\ Good(Away, id, tables) /\ OnceInv(Away, id, tables)
<1>1. Away \in ConnType
  <2>1. Nothing \in Creds /\ <<>> \in Seq(Scopes)
    BY NothingCreds
  <2> QED BY <2>1 DEF Away, ConnType
<1>2. /\ Away.pc = "away" /\ Away.env = Nothing /\ Away.token = Nothing /\ Away.todo = <<>>
  BY DEF Away
<1> QED BY <1>1, <1>2 DEF Good, Connects, Own, KeptInv, OnceInv

\* It holds at the start of a connection.
LEMMA BeginGood ==
  ASSUME NEW id \in AllIds, NEW tables \in StoreType, NEW config \in Configs, NEW d,
         d = [Away EXCEPT !.pc = "key", !.config = config, !.key = SubjectKey(config, id),
                          !.kept = Readable(tables), !.right = {AtOnce(config, id, tables)}]
  PROVE  d \in ConnType /\ Good(d, id, tables) /\ OnceInv(d, id, tables)
<1>1. /\ d.pc = "key" /\ d.config = config /\ d.key = SubjectKey(config, id) /\ d.todo = <<>>
      /\ d.env = Nothing /\ d.token = Nothing /\ d.kept = Readable(tables) /\ d.rows = 0
      /\ d.right = {AtOnce(config, id, tables)} /\ ~d.failed /\ ~d.mixed
  BY DEF Away
<1>2. d \in ConnType
  <2>1. Nothing \in Creds /\ <<>> \in Seq(Scopes) /\ SubjectKey(config, id) \in SubjectKeys
    BY NothingCreds, SubjectKeyTypes
  <2>2. /\ Readable(tables) \in SUBSET (Tables \X Scopes)
        /\ {AtOnce(config, id, tables)} \in SUBSET Creds
    BY AtOnceCreds DEF Readable
  <2> DEFINE k == SubjectKey(config, id)
             p == Readable(tables)
             r == {AtOnce(config, id, tables)}
             K == SubjectKeys \cup {Default}
             P == SUBSET (Tables \X Scopes)
             R == SUBSET Creds
             C == Configs \cup {Gone}
  <2>4. 0 \in 0 .. 2
    OBVIOUS
  <2>5. k \in K /\ p \in P /\ r \in R /\ config \in C
    BY <2>1, <2>2
  <2>6. d = [Away EXCEPT !.pc = "key", !.config = config, !.key = k, !.kept = p, !.right = r]
    OBVIOUS
  <2>7. ConnType = [pc : {"away", "key", "env", "token", "attach"}, config : C, key : K,
                    todo : Seq(Scopes), env : Creds, token : Creds, kept : P, right : R,
                    rows : 0 .. 2, failed : BOOLEAN, mixed : BOOLEAN]
    BY DEF ConnType
  <2>8. Away \in ConnType
    BY AwayGood
  <2> HIDE DEF k, p, r, K, P, R, C
  <2> QED BY <2>5, <2>6, <2>7, <2>8
<1>3. Connects(d) /\ KeptInv(d, id, tables)
  BY <1>1, SubjectKeyTypes DEF Connects, KeptInv
<1>4. Own(d, id)
  <2>1. Range(d.todo) = {}
    BY <1>1 DEF Range
  <2> QED BY <1>1, <2>1 DEF Own
<1>5. OnceInv(d, id, tables)
  <2>1. Default \in Scopes /\ "env" \in Tables
    BY DEF Scopes, Tables
  <2> DEFINE v == tables["env"][Default]
             old == [tables EXCEPT !["env"][Default] = v]
  <2>2. v \in Values /\ old = tables
    BY <2>1 DEF StoreType
  <2> HIDE DEF v
  <2>3. Agrees(d, id, tables)
    BY <1>1 DEF Agrees
  <2>4. AtOnce(d.config, id, tables) \in d.right
    BY <1>1
  <2> QED BY <2>1, <2>2, <2>3, <2>4 DEF OnceInv
<1> QED BY <1>2, <1>3, <1>4, <1>5 DEF Good

\* Passing over an error, no more is claimed of the priorities.
LEMMA FailsGood ==
  ASSUME NEW c \in ConnType, NEW id \in AllIds, NEW tables \in StoreType, Good(c, id, tables),
         NEW d,
         \/ /\ c.pc = "env"
            /\ d = NoGhosts([c EXCEPT !.todo = <<>>, !.env = Nothing, !.failed = TRUE])
         \/ /\ c.pc = "token"
            /\ d = NoGhosts([c EXCEPT !.pc = "attach", !.todo = <<>>, !.failed = TRUE])
  PROVE  d \in ConnType /\ Good(d, id, tables) /\ OnceInv(d, id, tables)
<1>1. /\ d.config = c.config /\ d.key = c.key /\ d.todo = <<>> /\ d.env \in {c.env, Nothing}
      /\ d.token = c.token /\ d.kept = {} /\ d.failed /\ d.mixed = c.mixed
      /\ \/ c.pc = "env" /\ d.pc = "env"
         \/ c.pc = "token" /\ d.pc = "attach"
  BY DEF NoGhosts, ConnType
<1>2. d \in ConnType
  <2>1. Nothing \in Creds /\ <<>> \in Seq(Scopes) /\ 0 \in 0 .. 2
    BY NothingCreds
  <2>2. CASE c.pc = "env"
    <3>1. d = [c EXCEPT !.todo = <<>>, !.env = Nothing, !.failed = TRUE,
                        !.kept = {}, !.right = {}, !.rows = 0]
      BY <2>2 DEF NoGhosts, ConnType
    <3> QED BY <2>1, <3>1 DEF ConnType
  <2>3. CASE c.pc = "token"
    <3>1. d = [c EXCEPT !.pc = "attach", !.todo = <<>>, !.failed = TRUE,
                        !.kept = {}, !.right = {}, !.rows = 0]
      BY <2>3 DEF NoGhosts, ConnType
    <3> QED BY <2>1, <3>1 DEF ConnType
  <2> QED BY <2>2, <2>3
<1>3. Connects(d)
  BY <1>1 DEF Connects, Good
<1>4. Own(d, id)
  <2>1. Range(d.todo) = {}
    BY <1>1 DEF Range
  <2> QED BY <1>1, <2>1 DEF Own, Good
<1>5. KeptInv(d, id, tables) /\ OnceInv(d, id, tables)
  BY <1>1 DEF KeptInv, OnceInv, Undisturbed
<1> QED BY <1>2, <1>3, <1>4, <1>5 DEF Good

\* A find says where it was found.
LEMMA FoundNothing ==
  ASSUME NEW table \in Tables, NEW x, NEW tables
  PROVE  /\ Found(table, x, tables) = Nothing <=> tables[table][x] = "none"
         /\ Found(table, x, tables) # Nothing =>
              Found(table, x, tables).table = table /\ Found(table, x, tables).scope = x
BY DEF Found, Nothing, Tables

\* Orders are lists of scopes, and not empty.
LEMMA EnvOrderSeq ==
  ASSUME NEW id \in AllIds
  PROVE  /\ EnvOrder(id) \in Seq(Scopes) /\ Len(EnvOrder(id)) \in Nat
         /\ TokenOrder(id) \in Seq(Scopes) /\ Len(TokenOrder(id)) \in Nat
         /\ EnvOrder(id) # <<>> /\ TokenOrder(id) # <<>>
         /\ Len(EnvOrder(id)) >= 3 /\ Len(TokenOrder(id)) >= 3
<1> DEFINE e == EnvOrder(id)
           t == TokenOrder(id)
           n == Len(id.groups)
<1>1. e \in Seq(Scopes) /\ t \in Seq(Scopes) /\ n \in Nat /\ Len(e) = n + 3 /\ Len(t) = n + 3
  BY Orders
<1> HIDE DEF e, t, n
<1>2. Len(e) \in Nat /\ Len(e) >= 3 /\ Len(t) \in Nat /\ Len(t) >= 3
  BY <1>1
<1>3. Len(<<>>) = 0
  OBVIOUS
<1> QED BY <1>1, <1>2, <1>3 DEF e, t

\* Of the environment, nothing has been read.
LEMMA ResolveEnvGood ==
  ASSUME NEW c \in ConnType, NEW id \in AllIds, NEW tables \in StoreType,
         Good(c, id, tables), c.pc = "key",
         NEW d, d = [c EXCEPT !.pc = "env", !.todo = EnvOrder(id)]
  PROVE  /\ d \in ConnType /\ Good(d, id, tables)
         /\ OnceInv(c, id, tables) => OnceInv(d, id, tables)
<1> DEFINE e == EnvOrder(id)
<1>0. e \in Seq(Scopes)
  BY EnvOrderSeq
<1>1. /\ d.pc = "env" /\ d.todo = e /\ d.config = c.config /\ d.key = c.key
      /\ d.env = c.env /\ d.token = c.token /\ d.kept = c.kept /\ d.right = c.right
      /\ d.rows = c.rows /\ d.failed = c.failed /\ d.mixed = c.mixed
  BY DEF ConnType
<1>2. d \in ConnType
  BY <1>0 DEF ConnType
<1>3. Connects(d) /\ d.env = Nothing
  BY <1>1 DEF Connects, Good
<1>4. Own(d, id)
  BY <1>1 DEF Own, Good
<1>5. ToRead(d, e) /\ HasRead(d, e) = 0
  BY <1>0, <1>1, Starts
<1>6. KeptInv(d, id, tables)
  <2>1. d.kept \subseteq Readable(tables)
    BY <1>1 DEF KeptInv, Good
  <2>2. EnvKept(d, e, 0)
    BY <1>3 DEF EnvKept
  <2> QED BY <1>1, <1>5, <2>1, <2>2 DEF KeptInv
<1>7. ASSUME OnceInv(c, id, tables) PROVE OnceInv(d, id, tables)
  <2>1. \A T : Agrees(d, id, T)
    <3> TAKE T
    <3>1. EnvIs(d.env, e, 0, T)
      BY <1>3 DEF EnvIs
    <3> QED BY <1>1, <1>5, <3>1 DEF Agrees
  <2> QED BY <1>1, <1>7, <2>1 DEF OnceInv, Undisturbed
<1> QED BY <1>2, <1>3, <1>4, <1>6, <1>7 DEF Good

\* The next of the environment's scopes is read.
LEMMA ReadEnvGood ==
  ASSUME NEW c \in ConnType, NEW id \in AllIds, NEW tables \in StoreType,
         Good(c, id, tables), c.pc = "env", c.todo # <<>>,
         NEW f, f = Found("env", Head(c.todo), tables),
         NEW d, d = [c EXCEPT !.todo = Tail(@), !.env = IF f = Nothing THEN @ ELSE f]
  PROVE  d \in ConnType /\ Good(d, id, tables)
<1> DEFINE e == EnvOrder(id)
           r == Tail(c.todo)
<1>0. e \in Seq(Scopes) /\ c.todo \in Seq(Scopes) /\ c.env \in Creds
  BY EnvOrderSeq DEF ConnType
<1>1. /\ d.pc = "env" /\ d.todo = r /\ d.config = c.config /\ d.key = c.key
      /\ d.env = (IF f = Nothing THEN c.env ELSE f)
      /\ d.token = c.token /\ d.kept = c.kept /\ d.failed = c.failed /\ d.mixed = c.mixed
  BY DEF ConnType
<1>2. /\ Head(c.todo) \in Scopes /\ r \in Seq(Scopes)
      /\ Head(c.todo) \in Range(c.todo) /\ Range(r) \subseteq Range(c.todo)
  BY <1>0, Tails
<1>3. d \in ConnType
  <2>1. f \in Creds
    BY <1>2, FoundCreds DEF Tables
  <2>2. (IF f = Nothing THEN c.env ELSE f) \in Creds
    BY <1>0, <2>1
  <2> HIDE DEF r
  <2>3. d = [c EXCEPT !.todo = r, !.env = IF f = Nothing THEN @ ELSE f]
    BY DEF r
  <2> QED BY <1>2, <2>2, <2>3 DEF ConnType
<1>4. f # Nothing => f.table = "env" /\ f.scope = Head(c.todo)
  BY FoundNothing DEF Tables
<1>5. Connects(d)
  BY <1>1 DEF Connects, Good
<1>6. Own(d, id)
  BY <1>1, <1>2, <1>4 DEF Own, Good
<1>7. KeptInv(d, id, tables)
  <2>1. d.kept \subseteq Readable(tables)
    BY <1>1 DEF KeptInv, Good
  <2>2. ASSUME Undisturbed(d) PROVE ToRead(d, e) /\ EnvKept(d, e, HasRead(d, e))
    <3>1. ToRead(c, e) /\ EnvKept(c, e, HasRead(c, e))
      BY <1>1, <2>2 DEF KeptInv, Good, Undisturbed
    <3>2. PICK p \in 1 .. Len(e) :
            /\ p \in Nat /\ p - 1 \in Nat /\ HasRead(c, e) = p - 1 /\ Head(c.todo) = e[p]
            /\ \A x : x.todo = Tail(c.todo) => ToRead(x, e) /\ HasRead(x, e) = p
      <4> HIDE DEF e
      <4> QED BY <1>0, <3>1, NextRead
    <3>5. ToRead(d, e) /\ HasRead(d, e) = p
      BY <1>1, <3>2
    <3> HIDE DEF e
    <3>3. <<"env", e[p]>> \in c.kept => f # Nothing
      <4>1. <<"env", e[p]>> \in c.kept => tables["env"][e[p]] = "good"
        BY <1>1, <2>1 DEF Readable
      <4> QED BY <3>2, <4>1, FoundNothing DEF Tables
    <3>4. EnvKept(d, e, p)
      <4>1. CASE f = Nothing
        <5>1. d.env = c.env /\ d.kept = c.kept /\ EnvKept(c, e, p - 1)
          BY <1>1, <3>1, <3>2, <4>1
        <5>2. d.env = Nothing \/ (d.env.table = "env" /\ \E m \in 1 .. p : d.env.scope = e[m])
          <6>1. \A m \in 1 .. p - 1 : m \in 1 .. p
            BY <3>2
          <6> QED BY <5>1, <6>1 DEF EnvKept
        <5>3. ASSUME NEW m \in 1 .. p, <<"env", e[m]>> \in d.kept
              PROVE  d.env.table = "env" /\ \E j \in m .. p : d.env.scope = e[j]
          <6>1. m \in 1 .. p - 1
            BY <3>2, <3>3, <4>1, <5>1, <5>3
          <6>2. d.env.table = "env" /\ \E j \in m .. p - 1 : d.env.scope = e[j]
            BY <5>1, <5>3, <6>1 DEF EnvKept
          <6>3. \A j \in m .. p - 1 : j \in m .. p
            BY <3>2
          <6> QED BY <6>2, <6>3
        <5> QED BY <5>2, <5>3 DEF EnvKept
      <4>2. CASE f # Nothing
        <5>1. d.env.table = "env" /\ d.env.scope = e[p]
          BY <1>1, <1>4, <3>2, <4>2
        <5>2. \A m \in 1 .. p : p \in m .. p
          BY <3>2
        <5>3. p \in 1 .. p
          BY <3>2
        <5> QED BY <5>1, <5>2, <5>3 DEF EnvKept
      <4> QED BY <4>1, <4>2
    <3> QED BY <3>4, <3>5
  <2> QED BY <1>1, <2>1, <2>2 DEF KeptInv
<1> QED BY <1>3, <1>5, <1>6, <1>7 DEF Good

\* All of it read, the tokens are next, or nothing.
LEMMA ResolveTokenGood ==
  ASSUME NEW c \in ConnType, NEW id \in AllIds, NEW tables \in StoreType,
         Good(c, id, tables), c.pc = "env", c.todo = <<>>,
         NEW d,
         d = IF TokenWanted(c) THEN [c EXCEPT !.pc = "token", !.todo = TokenOrder(id)]
             ELSE [c EXCEPT !.pc = "attach"]
  PROVE  /\ d \in ConnType /\ Good(d, id, tables)
         /\ OnceInv(c, id, tables) => OnceInv(d, id, tables)
<1> DEFINE e == EnvOrder(id)
           t == TokenOrder(id)
<1>0. e \in Seq(Scopes) /\ t \in Seq(Scopes) /\ t # <<>>
  BY EnvOrderSeq
<1>1. /\ d.config = c.config /\ d.key = c.key
      /\ d.env = c.env /\ d.token = c.token /\ d.kept = c.kept /\ d.right = c.right
      /\ d.rows = c.rows /\ d.failed = c.failed /\ d.mixed = c.mixed
      /\ \/ TokenWanted(c) /\ d.pc = "token" /\ d.todo = t
         \/ ~TokenWanted(c) /\ d.pc = "attach" /\ d.todo = <<>>
  BY DEF ConnType
<1>2. d \in ConnType
  <2>1. CASE TokenWanted(c)
    BY <1>0, <2>1 DEF ConnType
  <2>2. CASE ~TokenWanted(c)
    BY <2>2 DEF ConnType
  <2> QED BY <2>1, <2>2
<1>3. Connects(d) /\ d.token = Nothing /\ (TokenWanted(d) <=> TokenWanted(c))
  BY <1>0, <1>1 DEF Connects, Good, TokenWanted
<1>4. Own(d, id)
  <2>1. Range(<<>>) = {} /\ Range(t) = Range(e)
    BY OrdersMeet DEF Range
  <2> QED BY <1>1, <2>1 DEF Own, Good
<1>5. HasRead(c, e) = Len(e)
  BY <1>0, Ends
<1>6. d.pc = "token" => ToRead(d, t) /\ HasRead(d, t) = 0
  BY <1>0, <1>1, Starts
<1>7. KeptInv(d, id, tables)
  <2>1. d.kept \subseteq Readable(tables)
    BY <1>1 DEF KeptInv, Good
  <2>2. ASSUME Undisturbed(d) PROVE EnvKept(d, e, Len(e))
    <3>1. EnvKept(c, e, Len(e))
      BY <1>1, <1>5, <2>2 DEF KeptInv, Good, Undisturbed
    <3> QED BY <1>1, <3>1 DEF EnvKept
  <2>3. NoneKept(d, t, 0)
    BY DEF NoneKept
  <2> QED BY <1>1, <1>3, <1>6, <2>1, <2>2, <2>3 DEF KeptInv
<1>8. ASSUME OnceInv(c, id, tables) PROVE OnceInv(d, id, tables)
  <2>1. ASSUME NEW T, Agrees(c, id, T) PROVE Agrees(d, id, T)
    <3>1. EnvIs(d.env, e, Len(e), T)
      BY <1>1, <1>5, <2>1 DEF Agrees
    <3>2. NoToken(t, 0, T)
      BY DEF NoToken
    <3> QED BY <1>1, <1>3, <1>6, <3>1, <3>2 DEF Agrees
  <2> QED BY <1>1, <1>8, <2>1 DEF OnceInv, Undisturbed
<1> QED BY <1>2, <1>3, <1>4, <1>7, <1>8 DEF Good

\* The next of the tokens' scopes is read.
LEMMA ReadTokenGood ==
  ASSUME NEW c \in ConnType, NEW id \in AllIds, NEW tables \in StoreType,
         Good(c, id, tables), c.pc = "token",
         NEW f, f = Found("token", Head(c.todo), tables),
         NEW d,
         d = IF f # Nothing \/ Len(c.todo) = 1
             THEN [c EXCEPT !.pc = "attach", !.todo = <<>>, !.token = f]
             ELSE [c EXCEPT !.todo = Tail(@)]
  PROVE  d \in ConnType /\ Good(d, id, tables)
<1> DEFINE e == EnvOrder(id)
           t == TokenOrder(id)
           r == Tail(c.todo)
           Over == f # Nothing \/ Len(c.todo) = 1
<1>0. /\ t \in Seq(Scopes) /\ c.todo \in Seq(Scopes) /\ c.todo # <<>> /\ c.token = Nothing
      /\ Connects(c) /\ Own(c, id) /\ KeptInv(c, id, tables)
  BY EnvOrderSeq DEF ConnType, Good, Connects
<1>1. /\ d.config = c.config /\ d.key = c.key /\ d.env = c.env
      /\ d.kept = c.kept /\ d.failed = c.failed /\ d.mixed = c.mixed
      /\ \/ Over /\ d.pc = "attach" /\ d.todo = <<>> /\ d.token = f
         \/ ~Over /\ d.pc = "token" /\ d.todo = r /\ d.token = Nothing
  BY <1>0 DEF ConnType
<1>2. /\ Head(c.todo) \in Scopes /\ r \in Seq(Scopes) /\ Len(c.todo) \in Nat /\ Len(c.todo) >= 1
      /\ Head(c.todo) \in Range(c.todo) /\ Range(r) \subseteq Range(c.todo)
      /\ Len(r) = Len(c.todo) - 1
  BY <1>0, Tails
<1>3. d \in ConnType
  <2>1. f \in Creds
    BY <1>2, FoundCreds DEF Tables
  <2>2. CASE Over
    <3>1. d = [c EXCEPT !.pc = "attach", !.todo = <<>>, !.token = f] /\ <<>> \in Seq(Scopes)
      BY <2>2
    <3> QED BY <2>1, <3>1 DEF ConnType
  <2>3. CASE ~Over
    <3>1. d = [c EXCEPT !.todo = r]
      BY <2>3
    <3> HIDE DEF r
    <3> QED BY <1>2, <3>1 DEF ConnType
  <2> QED BY <2>2, <2>3
<1>4. f # Nothing => f.table = "token" /\ f.scope = Head(c.todo)
  BY FoundNothing DEF Tables
<1>5. Connects(d)
  <2>1. ~Over => r # <<>>
    <3>1. Len(<<>>) = 0
      OBVIOUS
    <3>2. ~Over => Len(r) # 0
      BY <1>2
    <3> HIDE DEF r
    <3> QED BY <3>1, <3>2
  <2> QED BY <1>0, <1>1, <2>1 DEF Connects
<1>6. Own(d, id)
  <2> SUFFICES ASSUME ~d.mixed PROVE Own(d, id)
    BY DEF Own
  <2> DEFINE scopes == Range(e)
  <2>1. Range(<<>>) = {}
    BY DEF Range
  <2>2. /\ c.key = SubjectKey(c.config, id) /\ Range(c.todo) \subseteq scopes
        /\ c.env = Nothing \/ c.env.scope \in scopes
    BY <1>0, <1>1 DEF Own
  <2>3. f = Nothing \/ f.scope \in scopes
    BY <1>2, <1>4, <2>2
  <2>4. Range(d.todo) \subseteq scopes
    BY <1>1, <1>2, <2>1, <2>2
  <2>5. d.token \in {f, Nothing}
    BY <1>1
  <2> HIDE DEF scopes
  <2>6. \A g \in {d.env, d.token} : g = Nothing \/ g.scope \in scopes
    BY <1>1, <2>2, <2>3, <2>5
  <2> QED BY <1>1, <2>2, <2>4, <2>6 DEF Own, scopes
<1>7. KeptInv(d, id, tables)
  <2>1. d.kept \subseteq Readable(tables)
    BY <1>0, <1>1 DEF KeptInv
  <2>2. TokenWanted(d) <=> TokenWanted(c)
    BY <1>1 DEF TokenWanted
  <2>3. ASSUME Undisturbed(d)
        PROVE  /\ EnvKept(d, e, Len(e)) /\ TokenWanted(d)
               /\ d.pc = "token" => ToRead(d, t) /\ NoneKept(d, t, HasRead(d, t))
               /\ d.pc = "attach" => TokenKept(d, t)
    <3>1. EnvKept(c, e, Len(e)) /\ TokenWanted(c) /\ ToRead(c, t) /\ NoneKept(c, t, HasRead(c, t))
      BY <1>0, <1>1, <2>3 DEF KeptInv, Undisturbed
    <3>2. PICK p \in 1 .. Len(t) :
            /\ p \in Nat /\ p - 1 \in Nat /\ HasRead(c, t) = p - 1 /\ Head(c.todo) = t[p]
            /\ Len(c.todo) = 1 => p = Len(t)
            /\ \A x : x.todo = Tail(c.todo) => ToRead(x, t) /\ HasRead(x, t) = p
      <4> HIDE DEF t
      <4> QED BY <1>0, <3>1, NextRead
    <3> HIDE DEF e, t
    <3>3. EnvKept(d, e, Len(e))
      BY <1>1, <3>1 DEF EnvKept
    <3>4. NoneKept(d, t, p - 1)
      BY <1>1, <3>1, <3>2 DEF NoneKept
    <3>5. f = Nothing => NoneKept(d, t, p)
      <4>1. <<"token", t[p]>> \in d.kept => tables["token"][t[p]] = "good"
        BY <2>1 DEF Readable
      <4>2. f = Nothing => <<"token", t[p]>> \notin d.kept
        BY <3>2, <4>1, FoundNothing DEF Tables
      <4>3. \A m \in 1 .. p : m \in 1 .. p - 1 \/ m = p
        BY <3>2
      <4> QED BY <3>4, <4>2, <4>3 DEF NoneKept
    <3>6. CASE Over /\ f = Nothing
      BY <1>1, <2>2, <3>1, <3>2, <3>3, <3>5, <3>6 DEF TokenKept
    <3>7. CASE f # Nothing
      BY <1>1, <1>4, <2>2, <3>1, <3>2, <3>3, <3>4, <3>7 DEF TokenKept
    <3>8. CASE ~Over
      BY <1>1, <2>2, <3>1, <3>2, <3>3, <3>5, <3>8
    <3> QED BY <3>6, <3>7, <3>8
  <2> QED BY <1>1, <2>1, <2>2, <2>3 DEF KeptInv
<1> QED BY <1>3, <1>5, <1>6, <1>7 DEF Good

-----------------------------------------------------------------------------
(* As if at once *)

\* Only the rows that were read matter.
LEMMA EnvSame ==
  ASSUME NEW f, NEW order, NEW k, NEW A, NEW B, EnvIs(f, order, k, A),
         \A m \in 1 .. k : A["env"][order[m]] = B["env"][order[m]]
  PROVE  EnvIs(f, order, k, B)
<1>1. CASE f = Nothing /\ \A m \in 1 .. k : A["env"][order[m]] = "none"
  BY <1>1 DEF EnvIs
<1>2. ASSUME NEW m \in 1 .. k, A["env"][order[m]] # "none", f = Found("env", order[m], A),
             \A j \in m + 1 .. k : A["env"][order[j]] = "none"
      PROVE  EnvIs(f, order, k, B)
  <2>1. \A j \in m + 1 .. k : j \in 1 .. k
    OBVIOUS
  <2>2. f = Found("env", order[m], B)
    BY <1>2 DEF Found
  <2> QED BY <1>2, <2>1, <2>2 DEF EnvIs
<1> QED BY <1>1, <1>2 DEF EnvIs

\* One more row of unchanged tables.
LEMMA EnvNext ==
  ASSUME NEW f, NEW order, NEW p \in Nat, p >= 1, NEW T, EnvIs(f, order, p - 1, T),
         NEW g, g = Found("env", order[p], T)
  PROVE  EnvIs(IF g = Nothing THEN f ELSE g, order, p, T)
<1>0. /\ \A m \in 1 .. p : m \in 1 .. p - 1 \/ m = p
      /\ \A m \in 1 .. p - 1 : m \in 1 .. p /\ \A j \in m + 1 .. p : j \in m + 1 .. p - 1 \/ j = p
      /\ p \in 1 .. p /\ p + 1 .. p = {}
  OBVIOUS
<1>1. CASE g # Nothing
  <2>1. T["env"][order[p]] # "none"
    BY <1>1, FoundNothing DEF Tables
  <2> QED BY <1>0, <1>1, <2>1 DEF EnvIs
<1>2. CASE g = Nothing
  <2>1. T["env"][order[p]] = "none"
    BY <1>2, FoundNothing DEF Tables
  <2>2. CASE f = Nothing /\ \A m \in 1 .. p - 1 : T["env"][order[m]] = "none"
    BY <1>0, <1>2, <2>1, <2>2 DEF EnvIs
  <2>3. CASE \E m \in 1 .. p - 1 :
               /\ T["env"][order[m]] # "none" /\ f = Found("env", order[m], T)
               /\ \A j \in m + 1 .. p - 1 : T["env"][order[j]] = "none"
    BY <1>0, <1>2, <2>1, <2>3 DEF EnvIs
  <2> QED BY <2>2, <2>3 DEF EnvIs
<1> QED BY <1>1, <1>2

\* Tables with one row changed.
LEMMA OneRow ==
  ASSUME NEW tables \in StoreType, NEW t \in Tables, NEW x \in Scopes, NEW v \in Values,
         NEW old, old = [tables EXCEPT ![t][x] = v]
  PROVE  /\ old \in StoreType /\ [old EXCEPT ![t][x] = tables[t][x]] = tables
         /\ \A s \in Tables, y \in Scopes : <<s, y>> # <<t, x>> => old[s][y] = tables[s][y]
BY DEF StoreType

\* If the row being read is the one that was written, the finds agree with the present tables
\* from now on, unless it was read before as well and counted.
LEMMA ReadEnvOnce ==
  ASSUME NEW c \in ConnType, NEW id \in AllIds, NEW tables \in StoreType,
         Good(c, id, tables), OnceInv(c, id, tables), c.pc = "env", c.todo # <<>>,
         NEW f, f = Found("env", Head(c.todo), tables),
         NEW d, d = [c EXCEPT !.todo = Tail(@), !.env = IF f = Nothing THEN @ ELSE f]
  PROVE  OnceInv(d, id, tables)
<1> SUFFICES ASSUME Undisturbed(d), d.rows <= 1 PROVE OnceInv(d, id, tables)
  BY DEF OnceInv
<1> DEFINE e == EnvOrder(id)
<1>0. e \in Seq(Scopes)
  BY EnvOrderSeq
<1>1. /\ d.pc = "env" /\ d.todo = Tail(c.todo) /\ d.config = c.config
      /\ d.env = (IF f = Nothing THEN c.env ELSE f)
      /\ d.right = c.right /\ d.rows = c.rows /\ d.failed = c.failed /\ d.mixed = c.mixed
  BY DEF ConnType
<1>2. ToRead(c, e)
  BY <1>1 DEF KeptInv, Good, Undisturbed
<1>3. PICK p \in 1 .. Len(e) :
        /\ p \in Nat /\ p - 1 \in Nat /\ HasRead(c, e) = p - 1 /\ Head(c.todo) = e[p]
        /\ \A x : x.todo = Tail(c.todo) => ToRead(x, e) /\ HasRead(x, e) = p
  <2> HIDE DEF e
  <2> QED BY <1>0, <1>2, NextRead
<1>4. HasRead(d, e) = p
  BY <1>1, <1>3
<1> HIDE DEF e
<1>5. ASSUME NEW T, Agrees(c, id, T), Found("env", e[p], T) = f PROVE Agrees(d, id, T)
  <2>1. EnvIs(c.env, e, p - 1, T)
    BY <1>3, <1>5 DEF Agrees, e
  <2>2. EnvIs(d.env, e, p, T)
    BY <1>1, <1>3, <1>5, <2>1, EnvNext
  <2> QED BY <1>1, <1>4, <2>2 DEF Agrees, e
<1>6. Agrees(c, id, tables) => Agrees(d, id, tables)
  BY <1>3, <1>5
<1>7. PICK t \in Tables, x \in Scopes, v \in Values :
        LET old == [tables EXCEPT ![t][x] = v] IN
        /\ AtOnce(c.config, id, old) \in c.right
        /\ c.rows = 0 => old = tables
        /\ Agrees(c, id, old) \/ Agrees(c, id, tables)
  BY <1>1 DEF OnceInv, Undisturbed
<1> DEFINE old == [tables EXCEPT ![t][x] = v]
<1>8. \A s \in Tables, y \in Scopes : <<s, y>> # <<t, x>> => old[s][y] = tables[s][y]
  BY OneRow
<1>9. ASSUME Agrees(c, id, old) PROVE Agrees(d, id, old) \/ Agrees(d, id, tables)
  <2> HIDE DEF old
  <2>1. \A m \in 1 .. Len(e) : e[m] \in Scopes
    BY <1>0, ElementOfSeq
  <2>2. CASE <<"env", e[p]>> # <<t, x>>
    <3>1. old["env"][e[p]] = tables["env"][e[p]]
      BY <1>8, <2>1, <2>2 DEF Tables
    <3>2. Found("env", e[p], old) = f
      BY <1>3, <3>1 DEF Found
    <3> QED BY <1>5, <1>9, <3>2
  <2>3. CASE <<"env", e[p]>> = <<t, x>>
    <3>1. EnvIs(c.env, e, p - 1, old) /\ \A m \in 1 .. p - 1 : m \in 1 .. Len(e)
      BY <1>3, <1>9 DEF Agrees, e
    <3>2. \A m \in 1 .. Len(e) : e[m] # e[p] => old["env"][e[m]] = tables["env"][e[m]]
      BY <1>8, <2>1, <2>3 DEF Tables
    <3>3. EnvIs(d.env, e, p, tables) => Agrees(d, id, tables)
      BY <1>1, <1>4 DEF Agrees, e
    <3>4. p \in 1 .. p /\ p + 1 .. p = {} /\ \A m \in 1 .. p : m \in 1 .. p - 1 \/ m = p
      BY <1>3
    <3>5. CASE f # Nothing
      <4>1. tables["env"][e[p]] # "none"
        BY <1>3, <3>5, FoundNothing DEF Tables
      <4> QED BY <1>1, <1>3, <3>3, <3>4, <3>5, <4>1 DEF EnvIs
    <3>6. CASE f = Nothing
      <4>1. tables["env"][e[p]] = "none" /\ d.env = c.env
        BY <1>1, <1>3, <3>6, FoundNothing DEF Tables
      <4>2. \A m \in 1 .. p - 1 : old["env"][e[m]] = "none" => tables["env"][e[m]] = "none"
        BY <3>1, <3>2, <4>1
      <4>3. CASE c.env = Nothing /\ \A m \in 1 .. p - 1 : old["env"][e[m]] = "none"
        BY <3>3, <3>4, <4>1, <4>2, <4>3 DEF EnvIs
      <4>4. ASSUME NEW m \in 1 .. p - 1, old["env"][e[m]] # "none",
                   c.env = Found("env", e[m], old),
                   \A j \in m + 1 .. p - 1 : old["env"][e[j]] = "none"
            PROVE  Agrees(d, id, old) \/ Agrees(d, id, tables)
        <5>1. CASE e[m] = e[p]
          <6>1. EnvIs(d.env, e, p, old)
            BY <3>4, <4>1, <4>4, <5>1 DEF EnvIs
          <6> QED BY <1>1, <1>4, <6>1 DEF Agrees, e
        <5>2. CASE e[m] # e[p]
          <6>1. tables["env"][e[m]] = old["env"][e[m]]
            BY <3>1, <3>2, <5>2
          <6>2. c.env = Found("env", e[m], tables) /\ tables["env"][e[m]] # "none"
            BY <4>4, <6>1 DEF Found
          <6>3. \A j \in m + 1 .. p : j = p \/ (j \in m + 1 .. p - 1 /\ j \in 1 .. p - 1)
            BY <1>3
          <6>4. \A j \in m + 1 .. p : tables["env"][e[j]] = "none"
            BY <4>1, <4>2, <4>4, <6>3
          <6>5. m \in 1 .. p
            BY <1>3
          <6>6. EnvIs(d.env, e, p, tables)
            BY <4>1, <6>2, <6>4, <6>5 DEF EnvIs
          <6> QED BY <3>3, <6>6
        <5> QED BY <5>1, <5>2
      <4> QED BY <3>1, <4>3, <4>4 DEF EnvIs
    <3> QED BY <3>5, <3>6
  <2> QED BY <2>2, <2>3
<1>10. AtOnce(c.config, id, tables) \in c.right
  BY <1>1 DEF OnceInv, Undisturbed
<1> QED BY <1>1, <1>6, <1>7, <1>9, <1>10 DEF OnceInv

\* So for tokens, of which the first that is found counts.
LEMMA ReadTokenOnce ==
  ASSUME NEW c \in ConnType, NEW id \in AllIds, NEW tables \in StoreType,
         Good(c, id, tables), OnceInv(c, id, tables), c.pc = "token",
         NEW f, f = Found("token", Head(c.todo), tables),
         NEW d,
         d = IF f # Nothing \/ Len(c.todo) = 1
             THEN [c EXCEPT !.pc = "attach", !.todo = <<>>, !.token = f]
             ELSE [c EXCEPT !.todo = Tail(@)]
  PROVE  OnceInv(d, id, tables)
<1> SUFFICES ASSUME Undisturbed(d), d.rows <= 1 PROVE OnceInv(d, id, tables)
  BY DEF OnceInv
<1> DEFINE e == EnvOrder(id)
           s == TokenOrder(id)
           Over == f # Nothing \/ Len(c.todo) = 1
<1>0. e \in Seq(Scopes) /\ s \in Seq(Scopes)
  BY EnvOrderSeq
<1>1. /\ d.config = c.config /\ d.env = c.env /\ d.right = c.right
      /\ d.rows = c.rows /\ d.failed = c.failed /\ d.mixed = c.mixed
      /\ \/ Over /\ d.pc = "attach" /\ d.token = f
         \/ ~Over /\ d.pc = "token" /\ d.todo = Tail(c.todo)
  BY DEF ConnType
<1>2. ToRead(c, s) /\ c.todo # <<>> /\ TokenWanted(c) /\ TokenWanted(d)
  BY <1>1 DEF KeptInv, Good, Undisturbed, Connects, TokenWanted
<1>3. PICK p \in 1 .. Len(s) :
        /\ p \in Nat /\ p - 1 \in Nat /\ HasRead(c, s) = p - 1 /\ Head(c.todo) = s[p]
        /\ Len(c.todo) = 1 => p = Len(s)
        /\ \A x : x.todo = Tail(c.todo) => ToRead(x, s) /\ HasRead(x, s) = p
  <2> HIDE DEF s
  <2> QED BY <1>0, <1>2, NextRead
<1>4. ~Over => HasRead(d, s) = p
  BY <1>1, <1>3
<1> HIDE DEF s, e
<1>5. ASSUME NEW T, Agrees(c, id, T), Found("token", s[p], T) = f PROVE Agrees(d, id, T)
  <2>1. EnvIs(d.env, e, Len(e), T) /\ NoToken(s, p - 1, T)
    BY <1>1, <1>3, <1>5 DEF Agrees, e, s
  <2>2. f = Nothing => NoToken(s, p, T)
    <3>1. f = Nothing => T["token"][s[p]] = "none"
      BY <1>5, FoundNothing DEF Tables
    <3>2. \A m \in 1 .. p : m \in 1 .. p - 1 \/ m = p
      BY <1>3
    <3> QED BY <2>1, <3>1, <3>2 DEF NoToken
  <2>3. CASE Over /\ f = Nothing
    <3>1. TokenIs(d.token, s, T)
      BY <1>1, <1>3, <2>2, <2>3 DEF TokenIs
    <3> QED BY <1>1, <1>2, <2>1, <2>3, <3>1 DEF Agrees, e, s
  <2>4. CASE f # Nothing
    <3>1. T["token"][s[p]] # "none"
      BY <1>5, <2>4, FoundNothing DEF Tables
    <3>2. TokenIs(d.token, s, T)
      BY <1>1, <1>3, <1>5, <2>1, <2>4, <3>1 DEF TokenIs
    <3> QED BY <1>1, <1>2, <2>1, <2>4, <3>2 DEF Agrees, e, s
  <2>5. CASE ~Over
    BY <1>1, <1>4, <2>1, <2>2, <2>5 DEF Agrees, e, s
  <2> QED BY <2>3, <2>4, <2>5
<1>6. Agrees(c, id, tables) => Agrees(d, id, tables)
  BY <1>3, <1>5
<1>7. PICK t \in Tables, x \in Scopes, v \in Values :
        LET old == [tables EXCEPT ![t][x] = v] IN
        /\ AtOnce(c.config, id, old) \in c.right
        /\ c.rows = 0 => old = tables
        /\ Agrees(c, id, old) \/ Agrees(c, id, tables)
  BY <1>1 DEF OnceInv, Undisturbed
<1> DEFINE old == [tables EXCEPT ![t][x] = v]
<1>8. \A u \in Tables, y \in Scopes : <<u, y>> # <<t, x>> => old[u][y] = tables[u][y]
  BY OneRow
<1>9. ASSUME Agrees(c, id, old) PROVE Agrees(d, id, old) \/ Agrees(d, id, tables)
  <2> HIDE DEF old
  <2>1. /\ \A m \in 1 .. Len(e) : e[m] \in Scopes
        /\ \A m \in 1 .. Len(s) : s[m] \in Scopes
    BY <1>0, ElementOfSeq
  <2>2. CASE <<"token", s[p]>> # <<t, x>>
    <3>1. old["token"][s[p]] = tables["token"][s[p]]
      BY <1>8, <2>1, <2>2 DEF Tables
    <3>2. Found("token", s[p], old) = f
      BY <1>3, <3>1 DEF Found
    <3> QED BY <1>5, <1>9, <3>2
  <2>3. CASE <<"token", s[p]>> = <<t, x>>
    <3>1. EnvIs(c.env, e, Len(e), old) /\ NoToken(s, p - 1, old)
      BY <1>3, <1>9 DEF Agrees, e, s
    <3>2. \A m \in 1 .. Len(e) : old["env"][e[m]] = tables["env"][e[m]]
      BY <1>8, <2>1, <2>3 DEF Tables
    <3>3. EnvIs(d.env, e, Len(e), tables)
      BY <1>1, <3>1, <3>2, EnvSame
    <3>4. \A m \in 1 .. p - 1 : m \in 1 .. Len(s) /\ (s[m] # s[p] => tables["token"][s[m]] = "none")
      <4>1. \A m \in 1 .. p - 1 : m \in 1 .. Len(s)
        BY <1>3
      <4>2. \A m \in 1 .. Len(s) : s[m] # s[p] => old["token"][s[m]] = tables["token"][s[m]]
        BY <1>8, <2>1, <2>3 DEF Tables
      <4> QED BY <3>1, <4>1, <4>2 DEF NoToken
    <3>5. CASE f = Nothing
      <4>1. tables["token"][s[p]] = "none"
        BY <1>3, <3>5, FoundNothing DEF Tables
      <4>2. \A m \in 1 .. p : m \in 1 .. p - 1 \/ m = p
        BY <1>3
      <4>3. NoToken(s, p, tables)
        BY <3>4, <4>1, <4>2 DEF NoToken
      <4>4. CASE Over
        <5>1. TokenIs(d.token, s, tables)
          BY <1>1, <1>3, <3>5, <4>3, <4>4 DEF TokenIs
        <5> QED BY <1>1, <1>2, <3>3, <4>4, <5>1 DEF Agrees, e, s
      <4>5. CASE ~Over
        BY <1>1, <1>4, <3>3, <4>3, <4>5 DEF Agrees, e, s
      <4> QED BY <4>4, <4>5
    <3>6. CASE f # Nothing
      <4>1. tables["token"][s[p]] # "none"
        BY <1>3, <3>6, FoundNothing DEF Tables
      <4> DEFINE S == {m \in 1 .. p : s[m] = s[p]}
      <4>2. S \in SUBSET (1 .. p) /\ S # {}
        BY <1>3
      <4>3. PICK m \in S : \A j \in S : m <= j
        <5> HIDE DEF S
        <5> QED BY <1>3, <4>2, FirstOf
      <4>4. m \in 1 .. Len(s) /\ s[m] = s[p] /\ m \in 1 .. p
        BY <1>3, <4>3
      <4>5. ASSUME NEW j \in 1 .. m - 1 PROVE j \in 1 .. p - 1 /\ s[j] # s[p]
        <5>1. j \in 1 .. p /\ j \in 1 .. p - 1 /\ ~(m <= j)
          BY <1>3, <4>4
        <5> QED BY <4>3, <5>1
      <4>6. NoToken(s, m - 1, tables)
        BY <3>4, <4>5 DEF NoToken
      <4>7. TokenIs(d.token, s, tables)
        BY <1>1, <1>3, <3>6, <4>1, <4>4, <4>6 DEF TokenIs
      <4> QED BY <1>1, <1>2, <3>3, <3>6, <4>7 DEF Agrees, e, s
    <3> QED BY <3>5, <3>6
  <2> QED BY <2>2, <2>3
<1>10. AtOnce(c.config, id, tables) \in c.right
  BY <1>1 DEF OnceInv, Undisturbed
<1> QED BY <1>1, <1>6, <1>7, <1>9, <1>10 DEF OnceInv

-----------------------------------------------------------------------------
(* Administrators, and recycling *)

\* What a write of so many rows makes of a resolution that is under way.
AfterWrite(c, id, tables, rows) ==
  IF c.pc = "away" \/ c.failed \/ c.mixed THEN c
  ELSE [c EXCEPT
         !.kept = {p \in @ : tables[p[1]][p[2]] = "good"},
         !.right = @ \cup {AtOnce(c.config, id, tables)},
         !.rows = IF @ + rows < 2 THEN @ + rows ELSE 2]

\* A write takes from what was there all the time: nothing else is lost.
LEMMA WriteGood ==
  ASSUME NEW c \in ConnType, NEW id \in AllIds, NEW tables \in StoreType,
         Good(c, id, tables), NEW new \in StoreType, NEW rows \in 0 .. 2,
         NEW d, d = AfterWrite(c, id, new, rows)
  PROVE  d \in ConnType /\ Good(d, id, new)
<1>1. CASE c.pc = "away" \/ c.failed \/ c.mixed
  <2>1. d = c /\ (c.pc # "away" => c.kept = {})
    BY <1>1 DEF AfterWrite, Good, Connects
  <2> QED BY <1>1, <2>1 DEF Good, KeptInv, Undisturbed
<1>2. CASE ~(c.pc = "away" \/ c.failed \/ c.mixed)
  <2> DEFINE kept == {p \in c.kept : new[p[1]][p[2]] = "good"}
             right == c.right \cup {AtOnce(c.config, id, new)}
             n == IF c.rows + rows < 2 THEN c.rows + rows ELSE 2
  <2>1. d = [c EXCEPT !.kept = kept, !.right = right, !.rows = n]
    BY <1>2 DEF AfterWrite
  <2>2. /\ kept \subseteq c.kept /\ c.kept \in SUBSET (Tables \X Scopes)
        /\ kept \subseteq Readable(new)
    BY DEF ConnType, Readable
  <2>3. right \in SUBSET Creds /\ n \in 0 .. 2
    BY AtOnceCreds DEF ConnType
  <2> HIDE DEF kept, right, n
  <2>4. d \in ConnType
    BY <2>1, <2>2, <2>3 DEF ConnType
  <2>5. /\ d.pc = c.pc /\ d.config = c.config /\ d.key = c.key /\ d.todo = c.todo /\ d.env = c.env
        /\ d.token = c.token /\ d.kept = kept /\ d.failed = c.failed /\ d.mixed = c.mixed
    BY <2>1 DEF ConnType
  <2>6. Connects(d) /\ Own(d, id)
    BY <1>2, <2>5 DEF Connects, Own, Good
  <2>7. \A order : (ToRead(d, order) <=> ToRead(c, order)) /\ HasRead(d, order) = HasRead(c, order)
    BY <2>5 DEF ToRead, HasRead
  <2>8. \A order, k : EnvKept(c, order, k) => EnvKept(d, order, k)
    BY <2>2, <2>5 DEF EnvKept
  <2>9. \A order, k : NoneKept(c, order, k) => NoneKept(d, order, k)
    BY <2>2, <2>5 DEF NoneKept
  <2>10. \A order : TokenKept(c, order) => TokenKept(d, order)
    BY <2>5, <2>9 DEF TokenKept
  <2>11. (TokenWanted(d) <=> TokenWanted(c)) /\ (Undisturbed(d) <=> Undisturbed(c))
    BY <2>5 DEF TokenWanted, Undisturbed
  <2>12. KeptInv(d, id, new)
    BY <2>2, <2>5, <2>7, <2>8, <2>9, <2>10, <2>11 DEF KeptInv, Good
  <2> QED BY <2>4, <2>6, <2>12 DEF Good
<1> QED BY <1>1, <1>2

\* The first row that is written leaves the finds as the tables before it had them.
LEMMA WriteOnce ==
  ASSUME NEW c \in ConnType, NEW id \in AllIds, NEW tables \in StoreType,
         OnceInv(c, id, tables), NEW new \in StoreType, NEW rows \in 0 .. 2,
         \/ rows = 0 /\ new = tables
         \/ rows = 1 /\ \E t \in Tables, x \in Scopes, v \in Values :
              new = [tables EXCEPT ![t][x] = v]
         \/ rows = 2,
         NEW d, d = AfterWrite(c, id, new, rows)
  PROVE  OnceInv(d, id, new)
<1>0. CASE c.pc = "away" \/ c.failed \/ c.mixed
  BY <1>0 DEF OnceInv, Undisturbed, AfterWrite
<1>1. CASE ~(c.pc = "away" \/ c.failed \/ c.mixed)
 <2> DEFINE n == IF c.rows + rows < 2 THEN c.rows + rows ELSE 2
 <2>1. /\ d.pc = c.pc /\ d.config = c.config /\ d.todo = c.todo /\ d.env = c.env
       /\ d.token = c.token /\ d.right = c.right \cup {AtOnce(c.config, id, new)}
       /\ d.rows = n /\ d.failed = c.failed /\ d.mixed = c.mixed
   BY <1>1 DEF ConnType, AfterWrite
 <2>2. c.rows \in 0 .. 2
   BY DEF ConnType
 <2> SUFFICES ASSUME n <= 1 PROVE OnceInv(d, id, new)
   BY <2>1 DEF OnceInv
 <2>3. c.rows <= 1 /\ Undisturbed(c) /\ c.pc # "away"
   BY <1>1, <2>2 DEF Undisturbed
 <2>4. \A T : Agrees(c, id, T) => Agrees(d, id, T)
   BY <2>1 DEF Agrees, HasRead, TokenWanted
 <2>5. CASE rows = 0 /\ new = tables
   <3>1. n = c.rows
     BY <2>2, <2>3, <2>5
   <3> QED BY <2>1, <2>3, <2>4, <2>5, <3>1 DEF OnceInv, Undisturbed
 <2>6. CASE rows = 1 /\ \E t \in Tables, x \in Scopes, v \in Values :
             new = [tables EXCEPT ![t][x] = v]
   <3>1. PICK t \in Tables, x \in Scopes, v \in Values : new = [tables EXCEPT ![t][x] = v]
     BY <2>6
   <3>2. c.rows = 0 /\ n = 1
     BY <2>2, <2>6
   <3>3. Agrees(c, id, tables) /\ AtOnce(c.config, id, tables) \in c.right
     BY <2>3, <3>2 DEF OnceInv
   <3> DEFINE v0 == tables[t][x]
   <3>4. [new EXCEPT ![t][x] = v0] = tables
     BY <3>1 DEF StoreType
   <3>5. v0 \in Values
     BY DEF StoreType
   <3> HIDE DEF v0
   <3>6. LET old == [new EXCEPT ![t][x] = v0] IN
         /\ AtOnce(d.config, id, old) \in d.right
         /\ d.rows = 0 => old = new
         /\ Agrees(d, id, old) \/ Agrees(d, id, new)
     <4>1. /\ AtOnce(d.config, id, tables) \in d.right /\ d.rows # 0
           /\ Agrees(d, id, tables)
       BY <2>1, <2>4, <3>2, <3>3
     <4> QED BY <3>4, <4>1
   <3>7. AtOnce(d.config, id, new) \in d.right
     BY <2>1
   <3> QED BY <3>5, <3>6, <3>7 DEF OnceInv
 <2>7. CASE rows = 2
   BY <2>2, <2>7
 <2> QED BY <2>5, <2>6, <2>7
<1> QED BY <1>0, <1>1

\* After a recycle no more is claimed.
LEMMA RecycleGood ==
  ASSUME NEW c \in ConnType, NEW id \in AllIds, NEW tables \in StoreType, Good(c, id, tables),
         NEW other \in AllIds,
         NEW d, d = IF c.pc = "away" THEN c ELSE NoGhosts([c EXCEPT !.mixed = TRUE])
  PROVE  d \in ConnType /\ Good(d, other, tables) /\ OnceInv(d, other, tables)
<1>1. CASE c.pc = "away"
  BY <1>1 DEF Good, Connects, Own, KeptInv, OnceInv
<1>2. CASE c.pc # "away"
  <2>1. d = [c EXCEPT !.mixed = TRUE, !.kept = {}, !.right = {}, !.rows = 0]
    BY <1>2 DEF NoGhosts, ConnType
  <2>0. 0 \in 0 .. 2
    OBVIOUS
  <2>2. d \in ConnType
    BY <2>0, <2>1 DEF ConnType
  <2>3. /\ d.pc = c.pc /\ d.config = c.config /\ d.key = c.key /\ d.todo = c.todo /\ d.env = c.env
        /\ d.token = c.token /\ d.kept = {} /\ d.mixed
    BY <2>1 DEF ConnType
  <2> QED BY <2>2, <2>3 DEF Good, Connects, Own, KeptInv, OnceInv, Undisturbed
<1> QED BY <1>1, <1>2

\* The invariant of all sessions.
ResolutionInv == ResolutionTypes /\ \A s \in Sessions : Good(conn[s], ident[s], store)

\* Each one resolves as if at once.
EachOnce == \A s \in Sessions : OnceInv(conn[s], ident[s], store)

\* Nobody connects at first.
LEMMA ResolutionInit == CredentialsInit => ResolutionInv /\ EachOnce
<1> SUFFICES ASSUME CredentialsInit PROVE ResolutionInv /\ EachOnce
  OBVIOUS
<1>1. store \in StoreType
  <2>0. PICK there \in SUBSET (Tables \X Scopes) :
          \E value \in [there -> {"good", "bad"}] :
            store = [t \in Tables |-> [s \in Scopes |->
                       IF <<t, s>> \in there THEN value[<<t, s>>] ELSE "none"]]
    BY DEF CredentialsInit
  <2>1. PICK value \in [there -> {"good", "bad"}] :
          store = [t \in Tables |-> [s \in Scopes |->
                     IF <<t, s>> \in there THEN value[<<t, s>>] ELSE "none"]]
    BY <2>0
  <2>2. \A t \in Tables, s \in Scopes :
          (IF <<t, s>> \in there THEN value[<<t, s>>] ELSE "none") \in Values
    BY DEF Values
  <2> QED BY <2>1, <2>2 DEF StoreType
<1>2. ident \in [Sessions -> AllIds] /\ \A s \in Sessions : ident[s] \in Identities[s]
  BY DEF CredentialsInit
<1>3. \A s \in Sessions : conn[s] = Away
  BY DEF CredentialsInit
<1>4. \A s \in Sessions :
        /\ conn[s] \in ConnType
        /\ Good(conn[s], ident[s], store) /\ OnceInv(conn[s], ident[s], store)
  BY <1>1, <1>2, <1>3, AwayGood
<1>5. conn \in [Sessions -> ConnType]
  <2>1. conn = [s \in Sessions |-> Away]
    BY DEF CredentialsInit
  <2> QED BY <1>3, <1>4, <2>1
<1>6. changes \in 0 .. MaxChanges /\ recycles \in 0 .. MaxRecycles
  BY CredentialsAssumption DEF CredentialsInit
<1>7. target \in Configs \cup {Gone} /\ proc \in [SubjectKeys -> Scopes \cup {Bare, NoProc}]
  BY DEF CredentialsInit
<1>8. ResolutionTypes
  BY <1>1, <1>2, <1>5, <1>6, <1>7 DEF ResolutionTypes
<1> QED BY <1>4, <1>8 DEF ResolutionInv, EachOnce

-----------------------------------------------------------------------------
(* Steps of the session that connects *)

\* What holds of the session's own record holds of all.
LEMMA OneConnects ==
  ASSUME ResolutionInv, NEW s \in Sessions, NEW d \in ConnType, SetConn(s, d),
         UNCHANGED <<store, ident>>, Good(d, ident[s], store)
  PROVE  /\ conn' \in [Sessions -> ConnType]
         /\ (\A r \in Sessions : Good(conn[r], ident[r], store))'
         /\ EachOnce /\ OnceInv(d, ident[s], store) => EachOnce'
<1>1. conn \in [Sessions -> ConnType]
  BY DEF ResolutionInv, ResolutionTypes
<1>2. /\ conn' \in [Sessions -> ConnType] /\ conn'[s] = d
      /\ \A r \in Sessions \ {s} : conn'[r] = conn[r]
  BY <1>1 DEF SetConn
<1>3. \A r \in Sessions : Good(conn'[r], ident[r], store)
  BY <1>2 DEF ResolutionInv
<1>4. EachOnce /\ OnceInv(d, ident[s], store) =>
        \A r \in Sessions : OnceInv(conn'[r], ident[r], store)
  BY <1>2 DEF EachOnce
<1> QED BY <1>2, <1>3, <1>4 DEF EachOnce

\* What a session is given.
LEMMA GivenTypes ==
  ASSUME ResolutionInv, NEW s \in Sessions
  PROVE  /\ Chosen(s) \in Creds /\ Chosen(s) \in {conn[s].env, conn[s].token, Nothing}
         /\ ChosenScope(s) \in Scopes \cup {Bare}
<1>1. conn[s].env \in Creds /\ conn[s].token \in Creds
  BY DEF ResolutionInv, ResolutionTypes, ConnType
<1>2. Chosen(s) \in Creds /\ Chosen(s) \in {conn[s].env, conn[s].token, Nothing}
  BY <1>1, ChooseCreds DEF Chosen
<1>3. \A x \in Creds : x.scope \in Scopes
  BY DEF Creds
<1> QED BY <1>2, <1>3 DEF ChosenScope

\* Every step of create*Client keeps the invariant.
LEMMA ConnectingStep ==
  ASSUME ResolutionInv, NEW s \in Sessions, Connecting(s)
  PROVE  ResolutionInv' /\ (EachOnce => EachOnce')
<1> DEFINE c == conn[s]
           id == ident[s]
<1>1. /\ c \in ConnType /\ id \in AllIds /\ store \in StoreType /\ Good(c, id, store)
      /\ EachOnce => OnceInv(c, id, store)
  BY DEF ResolutionInv, ResolutionTypes, EachOnce
<1>2. UNCHANGED <<target, store, changes, ident, recycles>>
  BY DEF Connecting, Begin, ResolveEnv, ReadEnv, EnvFails, ResolveToken, ReadToken, TokenFails,
         Attach
<1>3. ASSUME NEW d \in ConnType, SetConn(s, d), Good(d, id, store),
             proc' \in [SubjectKeys -> Scopes \cup {Bare, NoProc}],
             EachOnce => OnceInv(d, id, store)
      PROVE  ResolutionInv' /\ (EachOnce => EachOnce')
  <2>1. /\ conn' \in [Sessions -> ConnType]
        /\ (\A r \in Sessions : Good(conn[r], ident[r], store))'
        /\ EachOnce /\ OnceInv(d, ident[s], store) => EachOnce'
    BY <1>2, <1>3, OneConnects
  <2>2. ResolutionTypes'
    BY <1>2, <1>3, <2>1 DEF ResolutionInv, ResolutionTypes
  <2> QED BY <1>3, <2>1, <2>2 DEF ResolutionInv
<1>4. UNCHANGED proc => proc' \in [SubjectKeys -> Scopes \cup {Bare, NoProc}]
  BY DEF ResolutionInv, ResolutionTypes
<1>5. CASE Begin(s)
  <2> DEFINE d == [Away EXCEPT !.pc = "key", !.config = target, !.key = SubjectKey(target, id),
                          !.kept = Readable(store), !.right = {AtOnce(target, id, store)}]
  <2>1. target \in Configs /\ SetConn(s, d) /\ UNCHANGED proc
    BY <1>5 DEF Begin, ResolutionInv, ResolutionTypes
  <2>2. d \in ConnType /\ Good(d, id, store) /\ OnceInv(d, id, store)
    BY <1>1, <2>1, BeginGood
  <2> HIDE DEF d
  <2> QED BY <1>3, <1>4, <2>1, <2>2
<1>6. CASE ResolveEnv(s)
  <2> DEFINE d == [c EXCEPT !.pc = "env", !.todo = EnvOrder(id)]
  <2>1. c.pc = "key" /\ SetConn(s, d) /\ UNCHANGED proc
    BY <1>6 DEF ResolveEnv
  <2>2. /\ d \in ConnType /\ Good(d, id, store)
        /\ OnceInv(c, id, store) => OnceInv(d, id, store)
    <3> HIDE DEF c, id
    <3> QED BY <1>1, <2>1, ResolveEnvGood
  <2> HIDE DEF d
  <2> QED BY <1>1, <1>3, <1>4, <2>1, <2>2
<1>7. CASE ReadEnv(s)
  <2> DEFINE f == Found("env", Head(c.todo), store)
             d == [c EXCEPT !.todo = Tail(@), !.env = IF f = Nothing THEN @ ELSE f]
  <2>1. c.pc = "env" /\ c.todo # <<>> /\ SetConn(s, d) /\ UNCHANGED proc
    BY <1>7 DEF ReadEnv
  <2>2. d \in ConnType /\ Good(d, id, store)
    BY <1>1, <2>1, ReadEnvGood
  <2>3. OnceInv(c, id, store) => OnceInv(d, id, store)
    BY <1>1, <2>1, ReadEnvOnce
  <2> HIDE DEF d
  <2> QED BY <1>1, <1>3, <1>4, <2>1, <2>2, <2>3
<1>8. CASE EnvFails(s)
  <2> DEFINE d == NoGhosts([c EXCEPT !.todo = <<>>, !.env = Nothing, !.failed = TRUE])
  <2>1. c.pc = "env" /\ SetConn(s, d) /\ UNCHANGED proc
    BY <1>8 DEF EnvFails
  <2>2. d \in ConnType /\ Good(d, id, store) /\ OnceInv(d, id, store)
    BY <1>1, <2>1, FailsGood
  <2> HIDE DEF d
  <2> QED BY <1>3, <1>4, <2>1, <2>2
<1>9. CASE ResolveToken(s)
  <2> DEFINE d == IF TokenWanted(c) THEN [c EXCEPT !.pc = "token", !.todo = TokenOrder(id)]
                  ELSE [c EXCEPT !.pc = "attach"]
  <2>1. c.pc = "env" /\ c.todo = <<>> /\ SetConn(s, d) /\ UNCHANGED proc
    BY <1>9 DEF ResolveToken, TokenWanted, SetConn
  <2>2. /\ d \in ConnType /\ Good(d, id, store)
        /\ OnceInv(c, id, store) => OnceInv(d, id, store)
    BY <1>1, <2>1, ResolveTokenGood
  <2> HIDE DEF d
  <2> QED BY <1>1, <1>3, <1>4, <2>1, <2>2
<1>10. CASE ReadToken(s)
  <2> DEFINE f == Found("token", Head(c.todo), store)
             d == IF f # Nothing \/ Len(c.todo) = 1
                  THEN [c EXCEPT !.pc = "attach", !.todo = <<>>, !.token = f]
                  ELSE [c EXCEPT !.todo = Tail(@)]
  <2>1. c.pc = "token" /\ SetConn(s, d) /\ UNCHANGED proc
    BY <1>10 DEF ReadToken, SetConn
  <2>2. d \in ConnType /\ Good(d, id, store)
    BY <1>1, <2>1, ReadTokenGood
  <2>3. OnceInv(c, id, store) => OnceInv(d, id, store)
    BY <1>1, <2>1, ReadTokenOnce
  <2> HIDE DEF d
  <2> QED BY <1>1, <1>3, <1>4, <2>1, <2>2, <2>3
<1>11. CASE TokenFails(s)
  <2> DEFINE d == NoGhosts([c EXCEPT !.pc = "attach", !.todo = <<>>, !.failed = TRUE])
  <2>1. c.pc = "token" /\ SetConn(s, d) /\ UNCHANGED proc
    BY <1>11 DEF TokenFails
  <2>2. d \in ConnType /\ Good(d, id, store) /\ OnceInv(d, id, store)
    BY <1>1, <2>1, FailsGood
  <2> HIDE DEF d
  <2> QED BY <1>3, <1>4, <2>1, <2>2
<1>12. CASE Attach(s)
  <2>1. SetConn(s, Away)
    BY <1>12 DEF Attach
  <2>2. proc' \in [SubjectKeys -> Scopes \cup {Bare, NoProc}]
    <3>1. proc \in [SubjectKeys -> Scopes \cup {Bare, NoProc}]
      BY DEF ResolutionInv, ResolutionTypes
    <3>2. c.key \in SubjectKeys
      BY <1>1, <1>12 DEF Good, Connects, Attach
    <3>3. Given(s) \in Scopes \cup {Bare, NoProc}
      BY <3>1, <3>2, GivenTypes DEF Given
    <3>4. proc' = proc \/ proc' = [proc EXCEPT ![conn[s].key] = Given(s)]
      BY <1>12 DEF Attach
    <3> QED BY <3>1, <3>3, <3>4
  <2> QED BY <1>1, <1>3, <2>1, <2>2, AwayGood
<1> QED BY <1>5, <1>6, <1>7, <1>8, <1>9, <1>10, <1>11, <1>12 DEF Connecting

\* A recycle does.
LEMMA RecycleStep ==
  ASSUME ResolutionInv, NEW s \in Sessions, Recycle(s)
  PROVE  ResolutionInv' /\ (EachOnce => EachOnce')
<1> DEFINE c == conn[s]
           d == IF c.pc = "away" THEN c ELSE NoGhosts([c EXCEPT !.mixed = TRUE])
<1>1. /\ conn \in [Sessions -> ConnType] /\ ident \in [Sessions -> AllIds] /\ store \in StoreType
      /\ \A r \in Sessions : ident[r] \in Identities[r] /\ Good(conn[r], ident[r], store)
  BY DEF ResolutionInv, ResolutionTypes
<1>2. PICK i \in Identities[s] : ident' = [ident EXCEPT ![s] = i]
  BY DEF Recycle
<1>3. i \in AllIds
  BY DEF AllIds
<1>4. /\ ident' \in [Sessions -> AllIds] /\ ident'[s] = i
      /\ \A r \in Sessions \ {s} : ident'[r] = ident[r]
  BY <1>1, <1>2, <1>3
<1>5. d \in ConnType /\ Good(d, i, store) /\ OnceInv(d, i, store)
  BY <1>1, <1>3, RecycleGood
<1>6. conn' = [conn EXCEPT ![s] = d] /\ UNCHANGED <<target, store, changes, proc>>
  BY DEF Recycle
<1>7. recycles' \in 0 .. MaxRecycles
  BY CredentialsAssumption DEF Recycle, ResolutionInv, ResolutionTypes
<1> HIDE DEF d
<1>8. /\ conn' \in [Sessions -> ConnType] /\ conn'[s] = d
      /\ \A r \in Sessions \ {s} : conn'[r] = conn[r]
  BY <1>1, <1>5, <1>6
<1>9. \A r \in Sessions : ident'[r] \in Identities[r] /\ Good(conn'[r], ident'[r], store)
  BY <1>1, <1>4, <1>5, <1>8
<1>10. EachOnce => \A r \in Sessions : OnceInv(conn'[r], ident'[r], store)
  BY <1>4, <1>5, <1>8 DEF EachOnce
<1>11. ResolutionTypes'
  BY <1>4, <1>6, <1>7, <1>8, <1>9 DEF ResolutionInv, ResolutionTypes
<1> QED BY <1>6, <1>9, <1>10, <1>11 DEF ResolutionInv, EachOnce

\* So does what administrators write: any row,
LEMMA WriteStep ==
  ASSUME ResolutionInv, NEW tables \in StoreType, NEW rows \in 0 .. 2, Write(tables, rows),
         \/ rows = 0 /\ tables = store
         \/ rows = 1 /\ \E t \in Tables, x \in Scopes, v \in Values :
              tables = [store EXCEPT ![t][x] = v]
         \/ rows = 2,
         target' \in Configs \cup {Gone}
  PROVE  ResolutionInv' /\ (EachOnce => EachOnce')
<1>1. /\ conn \in [Sessions -> ConnType] /\ ident \in [Sessions -> AllIds] /\ store \in StoreType
      /\ \A r \in Sessions : ident[r] \in AllIds /\ Good(conn[r], ident[r], store)
  BY DEF ResolutionInv, ResolutionTypes
<1>2. store' = tables /\ UNCHANGED <<ident, recycles, proc>>
  BY DEF Write
<1>3. conn' = [s \in Sessions |-> AfterWrite(conn[s], ident[s], tables, rows)]
  BY DEF Write, AfterWrite
<1>4. \A s \in Sessions :
        /\ conn'[s] = AfterWrite(conn[s], ident[s], tables, rows)
        /\ conn'[s] \in ConnType /\ Good(conn'[s], ident[s], tables)
  BY <1>1, <1>3, WriteGood
<1>5. ASSUME EachOnce, NEW s \in Sessions PROVE OnceInv(conn'[s], ident[s], tables)
  <2>1. OnceInv(conn[s], ident[s], store) /\ conn[s] \in ConnType /\ ident[s] \in AllIds
    BY <1>1, <1>5 DEF EachOnce
  <2> QED BY <1>1, <1>4, <2>1, WriteOnce
<1>6. changes' \in 0 .. MaxChanges
  <2>1. changes \in 0 .. MaxChanges /\ changes < MaxChanges /\ changes' = changes + 1
    BY DEF Write, ResolutionInv, ResolutionTypes
  <2>2. MaxChanges \in Nat
    BY CredentialsAssumption
  <2> QED BY ONLY <2>1, <2>2
<1>7. conn' \in [Sessions -> ConnType]
  BY <1>3, <1>4
<1>8. ResolutionTypes'
  BY <1>2, <1>6, <1>7 DEF ResolutionInv, ResolutionTypes
<1> QED BY <1>2, <1>4, <1>5, <1>8 DEF ResolutionInv, EachOnce

\* of either family and at any scope,
LEMMA RowStep ==
  ASSUME ResolutionInv, NEW t \in Tables, NEW x \in Scopes, Set(t, x) \/ Delete(t, x)
  PROVE  ResolutionInv' /\ (EachOnce => EachOnce')
<1>1. PICK v \in Values : Write([store EXCEPT ![t][x] = v], 1)
  BY DEF Set, Delete, Values
<1> DEFINE tables == [store EXCEPT ![t][x] = v]
<1>2. store \in StoreType /\ target' = target /\ target \in Configs \cup {Gone}
  BY DEF Set, Delete, ResolutionInv, ResolutionTypes
<1>3. tables \in StoreType
  BY <1>2, OneRow
<1>4. /\ Write(tables, 1)
      /\ \E u \in Tables, y \in Scopes, w \in Values : tables = [store EXCEPT ![u][y] = w]
  BY <1>1
<1>5. 1 \in 0 .. 2
  OBVIOUS
<1> HIDE DEF tables
<1> QED BY <1>2, <1>3, <1>4, <1>5, WriteStep

\* or the target itself.
LEMMA TargetStep ==
  ASSUME ResolutionInv, UpdateTarget \/ DeleteTarget
  PROVE  ResolutionInv' /\ (EachOnce => EachOnce')
<1>1. store \in StoreType
  BY DEF ResolutionInv, ResolutionTypes
<1>2. CASE UpdateTarget
  <2>1. Write(store, 0) /\ target' \in Configs \cup {Gone}
    BY <1>2 DEF UpdateTarget
  <2> QED BY <1>1, <2>1, WriteStep
<1>3. CASE DeleteTarget
  <2>1. Write(Empty, 2) /\ target' \in Configs \cup {Gone}
    BY <1>3 DEF DeleteTarget
  <2>2. Empty \in StoreType
    BY DEF Empty, StoreType, Values
  <2> QED BY <1>1, <2>1, <2>2, WriteStep
<1> QED BY <1>2, <1>3

\* Every step keeps the invariant.
LEMMA ResolutionStep ==
  ASSUME ResolutionInv, [CredentialsNext]_credentialVars
  PROVE  ResolutionInv' /\ (EachOnce => EachOnce')
<1>0. /\ Tables = {"env", "token"} /\ Default \in Scopes
      /\ \A u \in Users : User(u) \in Scopes
      /\ \A r \in Roles : Role(r) \in Scopes
      /\ \A g \in Groups : Group(g) \in Scopes
  BY DEF Tables, Scopes
<1>1. CASE \E s \in Sessions : Connecting(s) \/ Recycle(s)
  BY <1>1, ConnectingStep, RecycleStep
<1>2. ASSUME NEW k \in SubjectKeys, ProcessEnds(k)
      PROVE  ResolutionInv' /\ (EachOnce => EachOnce')
  <2>1. UNCHANGED <<target, store, changes, ident, recycles, conn>>
    BY <1>2 DEF ProcessEnds
  <2>2. proc' \in [SubjectKeys -> Scopes \cup {Bare, NoProc}]
    BY <1>2 DEF ProcessEnds, ResolutionInv, ResolutionTypes
  <2> QED BY <2>1, <2>2 DEF ResolutionInv, ResolutionTypes, EachOnce
<1>3. CASE \/ \E u \in Users : SetUserTargetToken(u) \/ DeleteUserTargetToken(u)
           \/ \E r \in Roles : SetRoleTargetToken(r) \/ DeleteRoleTargetToken(r)
           \/ \E g \in Groups : SetGroupTargetToken(g) \/ DeleteGroupTargetToken(g)
           \/ SetDefaultTargetToken \/ DeleteDefaultTargetToken
           \/ \E s \in Scopes : SetEnvConfig(s) \/ DeleteEnvConfig(s)
  <2>1. PICK t \in Tables, x \in Scopes : Set(t, x) \/ Delete(t, x)
    BY <1>0, <1>3
    DEF SetUserTargetToken, DeleteUserTargetToken, SetRoleTargetToken, DeleteRoleTargetToken,
        SetGroupTargetToken, DeleteGroupTargetToken, SetDefaultTargetToken,
        DeleteDefaultTargetToken, SetEnvConfig, DeleteEnvConfig
  <2> QED BY <2>1, RowStep
<1>4. CASE UpdateTarget \/ DeleteTarget
  BY <1>4, TargetStep
<1>5. CASE UNCHANGED credentialVars
  BY <1>5 DEF credentialVars, ResolutionInv, ResolutionTypes, EachOnce
<1> QED BY <1>1, <1>2, <1>3, <1>4, <1>5 DEF CredentialsNext

-----------------------------------------------------------------------------
(* Theorems *)

\* The invariant holds in every state.
LEMMA Resolutions == CredentialsSpec => []ResolutionInv
<1>1. ResolutionInv /\ [CredentialsNext]_credentialVars => ResolutionInv'
  BY ResolutionStep
<1> QED BY <1>1, ResolutionInit, PTL DEF CredentialsSpec

\* And each session agrees with the tables before or after one write.
LEMMA EachResolvesOnce == CredentialsSpec => []EachOnce
<1>1. ResolutionInv /\ EachOnce /\ [CredentialsNext]_credentialVars => ResolutionInv' /\ EachOnce'
  BY ResolutionStep
<1> QED BY <1>1, ResolutionInit, PTL DEF CredentialsSpec

\* The variables keep their types: whatever is written while sessions connect and are
\* recycled, what they look at and find are scopes and credentials of the target.
THEOREM CredentialTypes == CredentialsSpec => []CredentialsTypeOK
<1>1. ASSUME ResolutionInv PROVE CredentialsTypeOK
  <2>1. /\ target \in Configs \cup {Gone} /\ changes \in 0 .. MaxChanges
        /\ recycles \in 0 .. MaxRecycles /\ store \in StoreType
        /\ proc \in [SubjectKeys -> Scopes \cup {Bare, NoProc}]
        /\ \A s \in Sessions : ident[s] \in Identities[s] /\ conn[s] \in ConnType
    BY <1>1 DEF ResolutionInv, ResolutionTypes
  <2>2. ASSUME NEW c \in ConnType
        PROVE  /\ c.pc \in {"away", "key", "env", "token", "attach"}
               /\ c.config \in Configs \cup {Gone} /\ c.key \in SubjectKeys \cup {Default}
               /\ c.todo \in Seq(Scopes) /\ {c.env, c.token} \cup c.right \subseteq Creds
               /\ c.kept \subseteq Tables \X Scopes /\ c.rows \in 0 .. 2
               /\ {c.failed, c.mixed} \subseteq BOOLEAN
    BY DEF ConnType
  <2> QED BY <2>1, <2>2 DEF CredentialsTypeOK, StoreType, Values
<1> QED BY <1>1, Resolutions, PTL

\* The scopes an identity reads are ones its subject key owns.
LEMMA KeyOwnsScopes ==
  ASSUME NEW config, NEW id \in AllIds, NEW x \in Range(EnvOrder(id)) \cup {Bare}
  PROVE  KeyOwns(SubjectKey(config, id), x)
<1> DEFINE k == SubjectKey(config, id)
<1>1. \/ x = Bare \/ x = Default \/ x = Role(id.role) \/ x = User(id.user)
      \/ \E g \in Range(id.groups) : x = Group(g)
  BY OrdersMeet
<1>2. \/ k = User(id.user) \/ k = Role(id.role) \/ k = <<"group", Range(id.groups)>> \/ k = Default
  BY DEF SubjectKey
<1> HIDE DEF k
<1>3. \/ x[1] = "none"
      \/ x[1] = "default" /\ x = Default
      \/ x[1] = "role" /\ x = Role(id.role)
      \/ x[1] = "user" /\ x = User(id.user)
      \/ x[1] = "group" /\ x[2] \in Range(id.groups)
  <2>1. CASE x = Bare
    BY <2>1 DEF Bare
  <2>2. CASE x = Default
    BY <2>2 DEF Default
  <2>3. CASE x = Role(id.role)
    BY <2>3 DEF Role
  <2>4. CASE x = User(id.user)
    BY <2>4 DEF User
  <2>5. CASE \E g \in Range(id.groups) : x = Group(g)
    BY <2>5 DEF Group
  <2> QED BY <1>1, <2>1, <2>2, <2>3, <2>4, <2>5
<1>4. \/ k[1] = "user" /\ k = User(id.user)
      \/ k[1] = "role" /\ k = Role(id.role)
      \/ k[1] = "default" /\ k = Default
      \/ k[1] = "group" /\ k[2] = Range(id.groups)
  <2>1. CASE k = User(id.user)
    BY <2>1 DEF User
  <2>2. CASE k = Role(id.role)
    BY <2>2 DEF Role
  <2>3. CASE k = Default
    BY <2>3 DEF Default
  <2>4. CASE k = <<"group", Range(id.groups)>>
    BY <2>4
  <2> QED BY <1>2, <2>1, <2>2, <2>3, <2>4
<1> QED BY <1>3, <1>4 DEF KeyOwns, k

\* Any number of sessions, groups and boundaries: the process of a subject key is never
\* started with the credential of a user, role or group that is not the key's, for what
\* ComputeSubjectKey and the two resolutions look at is one identity unless a recycle
\* comes between.
THEOREM ProcessesOfTheirKeys == CredentialsSpec => []ProcessOfKey
<1>1. ASSUME ResolutionInv PROVE ProcessOfKey
  <2> SUFFICES ASSUME NEW s \in Sessions, conn[s].pc = "attach", ~conn[s].mixed
               PROVE  KeyOwns(conn[s].key, ChosenScope(s))
    BY DEF ProcessOfKey
  <2> DEFINE scopes == Range(EnvOrder(ident[s]))
  <2>1. /\ conn[s].key = SubjectKey(conn[s].config, ident[s]) /\ ident[s] \in AllIds
        /\ \A f \in {conn[s].env, conn[s].token} : f = Nothing \/ f.scope \in scopes
    BY <1>1 DEF ResolutionInv, ResolutionTypes, Good, Own
  <2>2. Chosen(s) \in {conn[s].env, conn[s].token, Nothing}
    BY <1>1, GivenTypes
  <2>3. ChosenScope(s) \in scopes \cup {Bare}
    BY <2>1, <2>2 DEF ChosenScope
  <2> QED BY <2>1, <2>3, KeyOwnsScopes
<1> QED BY <1>1, Resolutions, PTL

\* Each order goes by rank, and the environment outranks the tokens.
LEMMA RankGrows ==
  ASSUME NEW id \in AllIds
  PROVE  LET e == EnvOrder(id)
             t == TokenOrder(id)
         IN
         /\ \A m, j \in 1 .. Len(e) : m <= j => Rank(<<"env", e[m]>>) <= Rank(<<"env", e[j]>>)
         /\ \A m, j \in 1 .. Len(t) : j <= m => Rank(<<"token", t[m]>>) <= Rank(<<"token", t[j]>>)
         /\ \A m \in 1 .. Len(t), j \in 1 .. Len(e) :
              Rank(<<"token", t[m]>>) <= Rank(<<"env", e[j]>>)
<1> DEFINE e == EnvOrder(id)
           t == TokenOrder(id)
           n == Len(id.groups)
<1>1. /\ n \in Nat /\ Len(e) = n + 3 /\ Len(t) = n + 3
      /\ e[1] = Default /\ e[2] = Role(id.role) /\ e[n + 3] = User(id.user)
      /\ t[1] = User(id.user) /\ t[2] = Role(id.role) /\ t[n + 3] = Default
      /\ \A k \in 1 .. n : e[k + 2] = Group(id.groups[k]) /\ t[k + 2] = Group(id.groups[k])
  BY Orders
<1>2. /\ Default[1] = "default" /\ Role(id.role)[1] = "role" /\ User(id.user)[1] = "user"
      /\ \A k \in 1 .. n : Group(id.groups[k])[1] = "group"
  BY DEF Default, Role, User, Group
<1> HIDE DEF e, t, n
<1>3. ASSUME NEW m \in 1 .. n + 3, m \notin {1, 2, n + 3}
      PROVE  e[m][1] = "group" /\ t[m][1] = "group"
  <2>1. m - 2 \in 1 .. n /\ m = (m - 2) + 2
    BY <1>1, <1>3
  <2>2. e[(m - 2) + 2] = Group(id.groups[m - 2]) /\ t[(m - 2) + 2] = Group(id.groups[m - 2])
    BY <1>1, <2>1
  <2> QED BY <1>2, <2>1, <2>2
<1>4. \A x : /\ x[1] = "user"    => Rank(<<"env", x>>) = 7 /\ Rank(<<"token", x>>) = 3
             /\ x[1] = "group"   => Rank(<<"env", x>>) = 6 /\ Rank(<<"token", x>>) = 2
             /\ x[1] = "role"    => Rank(<<"env", x>>) = 5 /\ Rank(<<"token", x>>) = 2
             /\ x[1] = "default" => Rank(<<"env", x>>) = 4 /\ Rank(<<"token", x>>) = 0
  BY DEF Rank
<1>5. /\ e[1][1] = "default" /\ e[2][1] = "role" /\ e[n + 3][1] = "user"
      /\ t[1][1] = "user" /\ t[2][1] = "role" /\ t[n + 3][1] = "default"
  BY <1>1, <1>2
<1> DEFINE re(m) == Rank(<<"env", e[m]>>)
           rt(m) == Rank(<<"token", t[m]>>)
<1>6. /\ re(1) = 4 /\ re(2) = 5 /\ re(n + 3) = 7
      /\ rt(1) = 3 /\ rt(2) = 2 /\ rt(n + 3) = 0
  BY <1>4, <1>5
<1>7. \A m \in 1 .. n + 3 : m \notin {1, 2, n + 3} => re(m) = 6 /\ rt(m) = 2
  BY <1>3, <1>4
<1> HIDE DEF re, rt
<1>8. \A m \in 1 .. n + 3 : m = 1 \/ m = 2 \/ m = n + 3 \/ (m > 2 /\ m < n + 3)
  BY <1>1
<1>9. \A m, j \in 1 .. n + 3 : m <= j => re(m) <= re(j)
  BY <1>1, <1>6, <1>7, <1>8
<1>10. \A m, j \in 1 .. n + 3 : j <= m => rt(m) <= rt(j)
  BY <1>1, <1>6, <1>7, <1>8
<1>11. \A m, j \in 1 .. n + 3 : rt(m) <= re(j)
  BY <1>1, <1>6, <1>7, <1>8
<1> QED BY <1>1, <1>9, <1>10, <1>11 DEF e, t, re, rt

\* What a session chooses, whatever was written while it read: the environment's last
\* find, or the first of the tokens.
LEMMA NonePassedOver ==
  ASSUME ResolutionInv, NEW s \in Sessions, Resolved(s),
         NEW k \in conn[s].kept, Applies(k, s)
  PROVE  Chosen(s) # Nothing /\ Rank(k) <= Rank(<<Chosen(s).table, Chosen(s).scope>>)
<1> DEFINE c == conn[s]
           id == ident[s]
           e == EnvOrder(id)
           t == TokenOrder(id)
<1>1. /\ c \in ConnType /\ id \in AllIds /\ KeptInv(c, id, store)
      /\ c.pc = "attach" /\ Undisturbed(c)
      /\ c.env = Nothing \/ c.env.good
      /\ c.token = Nothing \/ c.token.good
  BY DEF ResolutionInv, ResolutionTypes, Good, Resolved, Undisturbed
<1>2. k \in Tables \X Scopes /\ k = <<k[1], k[2]>> /\ k[1] \in {"env", "token"}
  BY <1>1 DEF ConnType, Tables
<1>3. k[2] \in Range(e) /\ (k[1] = "token" => c.config.auth)
  BY DEF Applies
<1>4. /\ EnvKept(c, e, Len(e))
      /\ IF TokenWanted(c) THEN TokenKept(c, t) ELSE c.token = Nothing
  BY <1>1 DEF KeptInv
<1>5. /\ Len(e) \in Nat /\ Len(t) \in Nat /\ DOMAIN e = 1 .. Len(e) /\ DOMAIN t = 1 .. Len(t)
      /\ Range(t) = Range(e)
  BY <1>1, EnvOrderSeq, OrdersMeet
<1>6. Chosen(s) = Choose(c.config, c.env, c.token)
  BY DEF Chosen
<1>7. /\ \A m, j \in 1 .. Len(e) : m <= j => Rank(<<"env", e[m]>>) <= Rank(<<"env", e[j]>>)
      /\ \A m, j \in 1 .. Len(t) : j <= m => Rank(<<"token", t[m]>>) <= Rank(<<"token", t[j]>>)
      /\ \A m \in 1 .. Len(t), j \in 1 .. Len(e) :
           Rank(<<"token", t[m]>>) <= Rank(<<"env", e[j]>>)
  BY <1>1, RankGrows
<1>8. Nothing.table = "none" /\ ~Nothing.good
  BY DEF Nothing
<1> HIDE DEF c, id, e, t
<1>9. CASE k[1] = "env"
  <2>1. PICK m \in 1 .. Len(e) : k[2] = e[m]
    BY <1>3, <1>5 DEF Range
  <2>9. <<"env", e[m]>> \in c.kept
    BY <1>2, <1>9, <2>1 DEF c
  <2>2. PICK j \in m .. Len(e) : c.env.table = "env" /\ c.env.scope = e[j]
    BY <1>4, <2>9 DEF EnvKept
  <2>3. c.env # Nothing /\ c.env.good
    BY <1>1, <1>8, <2>2
  <2>4. Chosen(s) = c.env
    BY <1>6, <2>3 DEF Choose
  <2>5. j \in 1 .. Len(e) /\ m <= j
    BY <1>5, <2>2
  <2>6. Rank(k) <= Rank(<<c.env.table, c.env.scope>>)
    BY <1>2, <1>7, <1>9, <2>1, <2>2, <2>5
  <2> QED BY <2>3, <2>4, <2>6
<1>10. CASE k[1] = "token"
  <2>1. PICK m \in 1 .. Len(t) : k[2] = t[m]
    BY <1>3, <1>5 DEF Range
  <2>2. k = <<"token", t[m]>>
    BY <1>2, <1>10, <2>1
  <2>3. CASE c.env.good
    <3>1. c.env # Nothing /\ Chosen(s) = c.env
      BY <1>6, <1>8, <2>3 DEF Choose
    <3>2. PICK j \in 1 .. Len(e) : c.env.table = "env" /\ c.env.scope = e[j]
      BY <1>4, <3>1 DEF EnvKept
    <3>3. Rank(k) <= Rank(<<c.env.table, c.env.scope>>)
      BY <1>7, <2>2, <3>2
    <3> QED BY <3>1, <3>3
  <2>4. CASE ~c.env.good
    <3>1. c.env = Nothing /\ TokenWanted(c) /\ TokenKept(c, t)
      BY <1>1, <1>3, <1>4, <1>10, <2>4 DEF TokenWanted
    <3>2. <<"token", t[m]>> \in c.kept
      BY <1>2, <1>10, <2>1 DEF c
    <3>3. c.token # Nothing
      BY <3>1, <3>2 DEF TokenKept, NoneKept
    <3>4. PICK j \in 1 .. Len(t) : c.token.scope = t[j] /\ NoneKept(c, t, j - 1)
      BY <3>1, <3>3 DEF TokenKept
    <3>5. c.token.table = "token" /\ j <= m
      <4>1. ~(m \in 1 .. j - 1)
        BY <3>2, <3>4 DEF NoneKept
      <4> QED BY <1>5, <3>1, <3>3, <4>1 DEF TokenKept
    <3>6. Chosen(s) = c.token
      BY <1>1, <1>3, <1>6, <1>8, <1>10, <3>1, <3>3 DEF Choose
    <3>7. Rank(k) <= Rank(<<c.token.table, c.token.scope>>)
      BY <1>7, <2>2, <3>4, <3>5
    <3> QED BY <3>3, <3>6, <3>7
  <2> QED BY <2>3, <2>4
<1> QED BY <1>2, <1>9, <1>10

\* For any orders of groups, any configurations and any interleaving of the statements of
\* a resolution with those of administrators, a credential that was there all the time
\* never loses to one that ranks below it or to none.
THEOREM StrongestKept == CredentialsSpec => []NeverPassedOver
<1>1. ResolutionInv => NeverPassedOver
  BY NonePassedOver DEF NeverPassedOver
<1> QED BY <1>1, Resolutions, PTL

\* What agrees with tables is what they resolve to.
LEMMA AgreedIsAtOnce ==
  ASSUME NEW c \in ConnType, NEW id \in AllIds, NEW tables, c.pc = "attach", Agrees(c, id, tables)
  PROVE  Choose(c.config, c.env, c.token) = AtOnce(c.config, id, tables)
<1> DEFINE env == EnvAtOnce(id, tables)
           token == TokenAtOnce(id, tables)
<1>1. /\ EnvIs(c.env, EnvOrder(id), Len(EnvOrder(id)), tables)
      /\ IF TokenWanted(c) THEN TokenIs(c.token, TokenOrder(id), tables) ELSE c.token = Nothing
  BY DEF Agrees
<1>2. c.env = env
  BY <1>1, EnvAtOnceIs
<1>3. TokenWanted(c) => c.token = token
  BY <1>1, TokenAtOnceIs
<1>4. AtOnce(c.config, id, tables) = Choose(c.config, env, token)
  BY AtOnceChooses
<1> HIDE DEF env, token
<1>5. CASE TokenWanted(c)
  BY <1>2, <1>3, <1>4, <1>5
<1>6. CASE ~TokenWanted(c)
  <2>1. c.env.good \/ ~c.config.auth
    BY <1>6 DEF TokenWanted
  <2>2. ~Nothing.good
    BY DEF Nothing
  <2> QED BY <1>1, <1>2, <1>4, <1>6, <2>1, <2>2 DEF Choose
<1> QED BY <1>5, <1>6

\* However the groups are listed, a resolution during which a single row is written finds
\* what one transaction would have found, before the row or after it.
THEOREM ResolvedAsIfAtOnce == CredentialsSpec => []AsIfAtOnce
<1>1. ASSUME ResolutionInv, EachOnce PROVE AsIfAtOnce
  <2> SUFFICES ASSUME NEW s \in Sessions, Resolved(s), conn[s].rows <= 1
               PROVE  Chosen(s) \in conn[s].right
    BY DEF AsIfAtOnce
  <2>1. /\ conn[s] \in ConnType /\ ident[s] \in AllIds /\ OnceInv(conn[s], ident[s], store)
        /\ conn[s].pc = "attach" /\ Undisturbed(conn[s])
    BY <1>1 DEF ResolutionInv, ResolutionTypes, EachOnce, Resolved, Undisturbed
  <2>2. PICK tables : Agrees(conn[s], ident[s], tables)
                      /\ AtOnce(conn[s].config, ident[s], tables) \in conn[s].right
    BY <2>1 DEF OnceInv
  <2> QED BY <2>1, <2>2, AgreedIsAtOnce DEF Chosen
<1> QED BY <1>1, Resolutions, EachResolvesOnce, PTL
=============================================================================
