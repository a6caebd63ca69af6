------------------------------- MODULE DfsNet -------------------------------
(***************************************************************************)
(* The TCP connections between dfc and dfs, each with the server thread    *)
(* (requestCycle) that serves it.  A connection is a slot of a bounded     *)
(* table: dfc opens it (connectToServer), sends one request, reads one     *)
(* answer and closes it (closeSocket); the thread reads the request,       *)
(* handles it, sends the 16-byte length and then the body, and ends.       *)
(*                                                                         *)
(* The kernel is modelled from how the code uses it: sending on a          *)
(* connection whose other end was closed is answered by a reset, and the   *)
(* next send on it raises SIGPIPE, which neither program handles.          *)
(***************************************************************************)
EXTENDS DfsStore

CONSTANT MaxConns   \* bound: connections that exist at the same time

ASSUME MaxConnsAssumption == MaxConns \in Nat \ {0}

VARIABLE conn

Conns  == 1..MaxConns
NoSock == 0          \* connectToServer's -1

(***************************************************************************)
(* phase, the thread's progress:                                           *)
(*   request  in getRequest, nothing received                              *)
(*   handle   the whole request was received                               *)
(*   reading  GET: a piece file is open and was read in part               *)
(*   writing  PUT: the piece file is open and truncated                    *)
(*   header   the answer is ready (sendResponse called)                    *)
(*   body     the length was sent, the body was not                        *)
(*   done     all sent, the thread is gone, the client has not read it     *)
(*   reset    the server died before it sent anything                      *)
(*   cut      the server died between the length and the body              *)
(* peer, the client's end: open; closed by closeSocket; leaked, never      *)
(*   closed while the client lives.                                        *)
(* read: the client consumed the length before it gave up on the body.     *)
(***************************************************************************)
Live == {"request", "handle", "reading", "writing", "header", "body"}

Connection ==
  [srv : Servers, cli : Clients \cup {None},
   phase : Live \cup {"free", "done", "reset", "cut"},
   peer : {"none", "open", "closed", "leaked"}, read : BOOLEAN,
   req : Request,
   i : Pieces,                                \* loop index of a handler
   flushed : BOOLEAN,                         \* PUT: a prefix was written
   reply : {"none", "ok", "error", "empty"},
   found : [Pieces -> Content],               \* GET: what was read of the pieces
   list : SUBSET (Files \X Pieces)]           \* LIST: the names printed by ls

Free ==
  [srv |-> 0, cli |-> None, phase |-> "free", peer |-> "none", read |-> FALSE,
   req |-> NoRequest, i |-> 0, flushed |-> FALSE, reply |-> "none",
   found |-> NoPieces, list |-> {}]

Opened(s, c) ==
  [Free EXCEPT !.srv = s, !.cli = c, !.phase = "request", !.peer = "open"]

\* The lowest free slot, so that equal situations are equal states.
FreeSlot(k) ==
  /\ conn[k].phase = "free"
  /\ \A j \in Conns : j < k => conn[j].phase # "free"

\* The client's end is given up: a connection the thread is done with goes.
Abandoned(r, how) ==
  IF r.phase \in Live THEN [r EXCEPT !.peer = how] ELSE Free

\* closeSocket on the sockets in S (closing NoSock does nothing).
Closing(table, S) ==
  [k \in Conns |-> IF k \in S THEN Abandoned(table[k], "closed") ELSE table[k]]

\* A socket that goes out of scope unclosed.
Leaking(table, k) ==
  [table EXCEPT ![k] = Abandoned(table[k], "leaked")]

\* The end of client c's process: the kernel closes what it still has open.
ClientGone(table, c) ==
  [k \in Conns |-> IF table[k].cli = c /\ table[k].peer \in {"open", "leaked"}
                   THEN Abandoned(table[k], "closed") ELSE table[k]]

\* The thread of connection r returns from requestCycle.
Ended(r) ==
  IF r.peer = "open" THEN [r EXCEPT !.phase = "done"] ELSE Free

\* What the death of its server makes of connection r.
Severed(r) ==
  IF r.phase \notin Live THEN r
  ELSE IF r.peer # "open" THEN Free
  ELSE [r EXCEPT !.phase = IF r.phase = "body" THEN "cut" ELSE "reset"]

ServerGone(table, s) ==
  [k \in Conns |-> IF table[k].srv = s THEN Severed(table[k]) ELSE table[k]]

NetInit == conn = [k \in Conns |-> Free]
=============================================================================
