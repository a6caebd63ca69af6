---------------------------- MODULE HttpService -----------------------------
(***************************************************************************)
(* What a web server promises on each of its connections: requests are     *)
(* answered one after the other, each once and in the order in which they  *)
(* were asked, until the connection is closed, a client that does not read *)
(* its answers has spoilt it, or a request that arrived in parts has been  *)
(* answered twice.                                                         *)
(***************************************************************************)
EXTENDS Naturals, Sequences

CONSTANT Conns

VARIABLES
  asked,      \* per connection, how many requests the client has sent
  answered,   \* per connection, the numbers of the requests answered
  spoilt,     \* the connections on which sending to the client timed out
  parted,     \* the connections on which a request has arrived in parts
  closed      \* the connections that the server has closed

vars == <<asked, answered, spoilt, parted, closed>>

Init ==
  /\ asked = [c \in Conns |-> 0]
  /\ answered = [c \in Conns |-> <<>>]
  /\ spoilt = {}
  /\ parted = {}
  /\ closed = {}

\* A client sends one more request.
Ask(c) ==
  /\ asked' = [asked EXCEPT ![c] = @ + 1]
  /\ UNCHANGED <<answered, spoilt, parted, closed>>

\* Every request so far has been answered once.
InOrder(c) == \A i \in DOMAIN answered[c] : answered[c][i] = i

\* The next request in order is answered.
Answer(c) ==
  /\ c \notin closed
  /\ InOrder(c)
  /\ Len(answered[c]) < asked[c]
  /\ answered' = [answered EXCEPT ![c] = Append(@, Len(@) + 1)]
  /\ UNCHANGED <<asked, spoilt, parted, closed>>

\* The part of a request has been answered, and what arrived later is answered too.
AnswerAgain(c) ==
  /\ c \in parted \ closed
  /\ InOrder(c)
  /\ answered[c] # <<>>
  /\ answered' = [answered EXCEPT ![c] = Append(@, Len(@))]
  /\ UNCHANGED <<asked, spoilt, parted, closed>>

\* A request arrives in parts.
Part(c) ==
  /\ parted' = parted \cup {c}
  /\ UNCHANGED <<asked, answered, spoilt, closed>>

\* Nothing is promised on a connection on which sending has timed out.
Spoil(c) ==
  /\ spoilt' = spoilt \cup {c}
  /\ \A d \in Conns \ {c} : answered'[d] = answered[d]
  /\ UNCHANGED <<asked, parted, closed>>

\* Connections are closed for good, all at once when the server ends.
Close ==
  /\ closed \subseteq closed'
  /\ UNCHANGED <<asked, answered, spoilt, parted>>

Next ==
  \/ Close
  \/ \E c \in Conns : Ask(c) \/ Answer(c) \/ AnswerAgain(c) \/ Part(c) \/ Spoil(c)

Spec == Init /\ [][Next]_vars
=============================================================================
