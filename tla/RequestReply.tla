---------------------------- MODULE RequestReply ----------------------------
(***************************************************************************)
(* What a JSON-RPC client promises to its callers, whatever the transport: *)
(* a call asks one question, and returns at most once, either empty-handed *)
(* (an error, a timeout, a dead server) or with the server's answer to     *)
(* that very question, which the server must have given before.            *)
(***************************************************************************)
EXTENDS Naturals

CONSTANTS Callers,   \* the goroutines that call
          MaxCalls   \* bound on the number of calls ever made

VARIABLES asked,     \* number of questions asked so far; the n-th has tag n
          answered,  \* tags the server has answered
          busy,      \* the callers whose call has not returned
          tag,       \* tag[c]: the question of c's current or last call
          result     \* result[c]: <<>> or <<the tag that was answered>>

rrVars == <<asked, answered, busy, tag, result>>

RRInit ==
  /\ asked = 0
  /\ answered = {}
  /\ busy = {}
  /\ tag = [c \in Callers |-> 0]
  /\ result = [c \in Callers |-> <<>>]

Ask(c) ==
  /\ c \notin busy
  /\ asked < MaxCalls
  /\ asked' = asked + 1
  /\ busy' = busy \cup {c}
  /\ tag' = [tag EXCEPT ![c] = asked + 1]
  /\ result' = [result EXCEPT ![c] = <<>>]
  /\ UNCHANGED answered

\* The server may repeat itself; what counts is that it has answered.
Answer(t) ==
  /\ t \in 1 .. asked
  /\ answered' = answered \cup {t}
  /\ UNCHANGED <<asked, busy, tag, result>>

Obtain(c) ==
  /\ c \in busy
  /\ tag[c] \in answered
  /\ result[c] = <<>>
  /\ result' = [result EXCEPT ![c] = <<tag[c]>>]
  /\ UNCHANGED <<asked, answered, busy, tag>>

Return(c) ==
  /\ c \in busy
  /\ busy' = busy \ {c}
  /\ UNCHANGED <<asked, answered, tag, result>>

RRNext ==
  \/ \E c \in Callers : Ask(c) \/ Obtain(c) \/ Return(c)
  \/ \E t \in 1 .. MaxCalls : Answer(t)

RRSpec == RRInit /\ [][RRNext]_rrVars
=============================================================================
