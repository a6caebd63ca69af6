----------------------------- MODULE DfsClient ------------------------------
(***************************************************************************)
(* dfc (PA3/dfc.cpp): a loop that reads a command from the user and runs   *)
(* it to its end, one socket call after the other.  Several dfc processes  *)
(* may run at once; they know nothing of each other.                       *)
(***************************************************************************)
EXTENDS DfsServer

CONSTANTS
  Workload,      \* Workload[c]: the commands that client c's user types
  Bins,          \* the values of MD5 modulo 4 that the files may have
  MaxPuts,       \* bound: PUT commands in a behaviour
  MaxTimeouts    \* bound: answers that take longer than the 1 s timeout

Commands == {"PUT", "GET", "LIST", "MKDIR", "EXIT"}

ASSUME ClientAssumption ==
  /\ Workload \in [Clients -> SUBSET Commands]
  /\ Bins \subseteq 0..3
  /\ MaxPuts \in Nat
  /\ MaxTimeouts \in Nat

VARIABLES
  cl,         \* cl[c]: the state of client c
  log,        \* history: log[v] is what PUT command v was about
  stored,     \* history: the PUTs that completed before any fault
  timeouts    \* answers that took longer than the timeout so far

clientVars == <<cl, log, stored, timeouts>>
vars == <<conn, serverVars, clientVars>>

\* pc: prompt, or the socket call that the command makes next; gone after
\* EXIT or SIGPIPE; spin in an endless loop of getResponse or sendRequest.
Client ==
  [pc : {"prompt", "connect", "connect2", "send", "recv", "send2", "recv2",
         "spin", "gone"},
   op : {"none", "PUT", "GET", "LIST", "MKDIR"},
   n : 0..3,                           \* PUT: the piece; else the server
   file : Files \cup {None}, dir : Dirs,
   ver : Nat,                          \* PUT: the version being stored
   prim : 0..MaxConns, sec : 0..MaxConns,
   pieces : [Pieces -> Content],       \* GET: what was received
   listing : SUBSET (Files \X Pieces), \* LIST: fileMap
   failed : SUBSET Servers,            \* GET: the servers that did not deliver
   since : SUBSET Nat,                 \* GET: the PUTs stored when it began
   outcome : {"none", "complete", "incomplete"}]

Prompt ==
  [pc |-> "prompt", op |-> "none", n |-> 0, file |-> None, dir |-> Root,
   ver |-> 0, prim |-> NoSock, sec |-> NoSock, pieces |-> NoPieces,
   listing |-> {}, failed |-> {}, since |-> {}, outcome |-> "none"]

\* room: the directory existed on every server when the command was typed.
PutRecord == [file : Files, bin : 0..3, auth : BOOLEAN, room : BOOLEAN]

ClientInit ==
  /\ cl = [c \in Clients |-> Prompt]
  /\ log = <<>>
  /\ stored = {}
  /\ timeouts = 0

-----------------------------------------------------------------------------
\* The command loop of main.

Typed(c, command) == cl[c].pc = "prompt" /\ command \in Workload[c]

Begin(op, f, d) ==
  [Prompt EXCEPT !.pc = "connect", !.op = op, !.file = f, !.dir = d]

StoredOf(f) == {v \in stored : log[v].file = f}

startPut(c) ==
  \E f \in Files, b \in Bins :
    /\ Typed(c, "PUT")
    /\ Len(log) < MaxPuts
    /\ log' = Append(log, [file |-> f, bin |-> b, auth |-> c \in Authorized,
                            room |-> \A s \in Servers : DirOf[f] \in dirs[s]])
    /\ cl' = [cl EXCEPT ![c] = [Begin("PUT", f, DirOf[f]) EXCEPT
                                  !.ver = Len(log) + 1]]
    /\ UNCHANGED <<conn, serverVars, stored, timeouts>>

startGet(c) ==
  \E f \in Files :
    /\ Typed(c, "GET")
    /\ cl' = [cl EXCEPT ![c] = [Begin("GET", f, DirOf[f]) EXCEPT
                                  !.since = StoredOf(f)]]
    /\ UNCHANGED <<conn, serverVars, log, stored, timeouts>>

startList(c) ==
  \E d \in Dirs :
    /\ Typed(c, "LIST")
    /\ cl' = [cl EXCEPT ![c] = Begin("LIST", None, d)]
    /\ UNCHANGED <<conn, serverVars, log, stored, timeouts>>

startMkDir(c) ==
  \E d \in Dirs \ {Root} :
    /\ Typed(c, "MKDIR")
    /\ cl' = [cl EXCEPT ![c] = Begin("MKDIR", None, d)]
    /\ UNCHANGED <<conn, serverVars, log, stored, timeouts>>

exit(c) ==
  /\ Typed(c, "EXIT")
  /\ cl' = [cl EXCEPT ![c] = [Prompt EXCEPT !.pc = "gone"]]
  /\ conn' = ClientGone(conn, c)
  /\ UNCHANGED <<serverVars, log, stored, timeouts>>

-----------------------------------------------------------------------------
\* How a command goes on.  Each operator is the client's next record.

Finished(r, outcome) ==
  [r EXCEPT !.pc = "prompt", !.prim = NoSock, !.sec = NoSock,
            !.outcome = outcome]

\* Mutant of NextTurn: the loops stop one short.
NextTurnShort(r) ==
  IF r.n < 2
  THEN [r EXCEPT !.pc = "connect", !.n = r.n + 1, !.prim = NoSock, !.sec = NoSock]
  ELSE Finished(r, "complete")

\* Mutant of NextTurn: the loops run once too often.
NextTurnOver(r) ==
  IF r.n < 4
  THEN [r EXCEPT !.pc = "connect", !.n = r.n + 1, !.prim = NoSock, !.sec = NoSock]
  ELSE Finished(r, "complete")

\* The for loops of handlePut, handleList and handleMkDir.
NextTurn(r) ==
  IF r.n < 3
  THEN [r EXCEPT !.pc = "connect", !.n = r.n + 1, !.prim = NoSock, !.sec = NoSock]
  ELSE Finished(r, "complete")

\* Mutant of GetTurn: server 3 is not asked when server 2 does not deliver.
GetTurnNoFallback(r, delivered) ==
  CASE r.n = 0 /\ delivered  -> [r EXCEPT !.pc = "connect", !.n = 2, !.prim = NoSock]
    [] r.n = 0 /\ ~delivered -> [r EXCEPT !.pc = "connect", !.n = 1, !.prim = NoSock]
    [] r.n = 1 /\ delivered  -> [r EXCEPT !.pc = "connect", !.n = 3, !.prim = NoSock]
    [] r.n \in {2, 3} /\ delivered -> Finished(r, "complete")
    [] OTHER -> Finished(r, "incomplete")

\* Mutant of GetTurn: a failure of server 3 starts over at server 1.
GetTurnRetry(r, delivered) ==
  CASE r.n = 0 /\ delivered  -> [r EXCEPT !.pc = "connect", !.n = 2, !.prim = NoSock]
    [] r.n \in {0, 2, 3} /\ ~delivered
                             -> [r EXCEPT !.pc = "connect", !.n = 1, !.prim = NoSock]
    [] r.n = 1               -> [r EXCEPT !.pc = "connect", !.n = 3, !.prim = NoSock]
    [] r.n \in {2, 3} /\ delivered -> Finished(r, "complete")

\* handleGet's order of servers: 0 and 2, then 1 and 3 if one of them did not
\* deliver.
GetTurn(r, delivered) ==
  CASE r.n = 0 /\ delivered        -> [r EXCEPT !.pc = "connect", !.n = 2, !.prim = NoSock]
    [] r.n \in {0, 2} /\ ~delivered -> [r EXCEPT !.pc = "connect", !.n = 1, !.prim = NoSock]
    [] r.n = 1 /\ delivered        -> [r EXCEPT !.pc = "connect", !.n = 3, !.prim = NoSock]
    [] r.n \in {2, 3} /\ delivered -> Finished(r, "complete")
    [] OTHER                       -> Finished(r, "incomplete")

\* sendGetRequest failed.
NotDelivered(r) == GetTurn([r EXCEPT !.failed = @ \cup {r.n}], FALSE)

\* sendGetRequest adds the two pieces of the answer to the map.
Delivered(r, found) ==
  GetTurn([r EXCEPT !.pieces = [i \in Pieces |->
             IF found[i] # Absent THEN found[i] ELSE r.pieces[i]]], TRUE)

-----------------------------------------------------------------------------
\* connectToServer.

\* Mutant of Target: the primary does not depend on the file.
TargetNoBin(c) == cl[c].n

Target(c) ==
  IF cl[c].op = "PUT" THEN Primary(cl[c].n, log[cl[c].ver].bin) ELSE cl[c].n

connectFirst(c) ==
  LET r == cl[c]
      after == IF r.op = "PUT" THEN "connect2" ELSE "send"
  IN /\ r.pc = "connect"
     /\ \/ /\ Target(c) \in up
           /\ \E k \in Conns :
                /\ FreeSlot(k)
                /\ conn' = [conn EXCEPT ![k] = Opened(Target(c), c)]
                /\ cl' = [cl EXCEPT ![c].pc = after, ![c].prim = k]
        \/ /\ Target(c) \notin up
           /\ cl' = [cl EXCEPT ![c] =
                CASE r.op = "PUT"   -> [r EXCEPT !.pc = "connect2"]
                  [] r.op = "GET"   -> NotDelivered(r)
                  [] r.op = "LIST"  -> NextTurn(r)
                  [] r.op = "MKDIR" -> [r EXCEPT !.pc = "send"]]
           /\ UNCHANGED conn
     /\ UNCHANGED <<serverVars, log, stored, timeouts>>

\* handlePut's connection to the secondary.  Without a primary the piece is
\* skipped and the connection, if there is one, is closed unused.
connectSecond(c) ==
  LET r == cl[c]
      s == Secondary(r.n, log[r.ver].bin)
  IN /\ r.pc = "connect2"
     /\ \/ /\ s \in up
           /\ \E k \in Conns :
                /\ FreeSlot(k)
                /\ IF r.prim # NoSock
                   THEN /\ conn' = [conn EXCEPT ![k] = Opened(s, c)]
                        /\ cl' = [cl EXCEPT ![c].pc = "send", ![c].sec = k]
                   ELSE /\ conn' = [conn EXCEPT ![k] =
                                      Abandoned(Opened(s, c), "closed")]
                        /\ cl' = [cl EXCEPT ![c] = NextTurn(r)]
        \/ /\ s \notin up
           /\ cl' = [cl EXCEPT ![c] = IF r.prim # NoSock
                                      THEN [r EXCEPT !.pc = "send"]
                                      ELSE NextTurn(r)]
           /\ UNCHANGED conn
     /\ UNCHANGED <<serverVars, log, stored, timeouts>>

-----------------------------------------------------------------------------
\* sendRequest.

Sock(c) == IF cl[c].pc \in {"send", "recv"} THEN cl[c].prim ELSE cl[c].sec

\* Mutant of Sent: handlePut does not wait for the primary's answer.
SentNoWait(pc) == IF pc = "send" THEN "send2" ELSE "recv2"

Sent(pc) == IF pc = "send" THEN "recv" ELSE "recv2"

RequestOf(c) ==
  LET r == cl[c]
  IN [method |-> r.op, file |-> r.file, dir |-> r.dir,
      piece |-> IF r.op = "PUT" THEN r.n ELSE 0, ver |-> r.ver,
      auth |-> c \in Authorized]

sendRequest(c) ==
  /\ cl[c].pc \in {"send", "send2"}
  /\ Sock(c) # NoSock
  /\ \/ /\ conn[Sock(c)].phase = "request"
        /\ conn' = [conn EXCEPT ![Sock(c)].phase = "handle",
                                ![Sock(c)].req = RequestOf(c)]
     \/ /\ conn[Sock(c)].phase = "reset"   \* the reset has yet to arrive
        /\ UNCHANGED conn
  /\ cl' = [cl EXCEPT ![c].pc = Sent(@)]
  /\ UNCHANGED <<serverVars, log, stored, timeouts>>

\* The server died after the connection was made: the length provokes a reset
\* and the body raises SIGPIPE.
sendRequestSigpipe(c) ==
  /\ cl[c].pc \in {"send", "send2"}
  /\ Sock(c) # NoSock
  /\ conn[Sock(c)].phase = "reset"
  /\ cl' = [cl EXCEPT ![c] = [Prompt EXCEPT !.pc = "gone"]]
  /\ conn' = ClientGone(conn, c)
  /\ UNCHANGED <<serverVars, log, stored, timeouts>>

\* send returns -1 on the socket -1; the remaining size grows by one and the
\* loop goes on.
sendRequestNoSock(c) ==
  /\ cl[c].pc \in {"send", "send2"}
  /\ Sock(c) = NoSock
  /\ cl' = [cl EXCEPT ![c].pc = "spin"]
  /\ UNCHANGED <<conn, serverVars, log, stored, timeouts>>

-----------------------------------------------------------------------------
\* getResponse, and what the caller does with it.  table is the connection
\* table after the socket was read; got says that there is an answer.

Continue(c, table, got) ==
  LET r == cl[c]
      k == Sock(c)
      answer == table[k]
  IN \/ /\ r.op = "PUT" /\ r.pc = "recv"       \* the answer is not looked at
        /\ cl' = [cl EXCEPT ![c].pc = "send2"]
        /\ conn' = table
     \/ /\ r.op = "PUT" /\ r.pc = "recv2"
        /\ cl' = [cl EXCEPT ![c] = NextTurn(r)]
        /\ conn' = Closing(table, {r.prim, r.sec})
     \/ /\ r.op = "GET"
        /\ cl' = [cl EXCEPT ![c] = IF got /\ answer.reply = "ok"
                                   THEN Delivered(r, answer.found)
                                   ELSE NotDelivered(r)]
        /\ conn' = Closing(table, {k})
     \/ /\ r.op = "LIST"                       \* only the last socket is closed
        /\ cl' = [cl EXCEPT ![c] = NextTurn(
             [r EXCEPT !.listing = IF got THEN @ \cup answer.list ELSE @])]
        /\ conn' = IF r.n = 3 THEN Closing(table, {k}) ELSE Leaking(table, k)
     \/ /\ r.op = "MKDIR"
        /\ cl' = [cl EXCEPT ![c] = NextTurn(r)]
        /\ conn' = Closing(table, {k})

\* The answer to the last request of a PUT has come, and nothing has ever
\* gone wrong.
StoresAll(c) ==
  LET r == cl[c]
  IN /\ r.op = "PUT" /\ r.pc = "recv2" /\ r.n = 3
     /\ log[r.ver].auth /\ log[r.ver].room
     /\ died = {} /\ timeouts = 0

Receiving(c) == cl[c].pc \in {"recv", "recv2"}

getResponse(c) ==
  /\ Receiving(c)
  /\ \/ conn[Sock(c)].phase = "done" /\ Continue(c, conn, TRUE)
     \/ conn[Sock(c)].phase = "reset" /\ Continue(c, conn, FALSE)
  /\ stored' = IF StoresAll(c) THEN stored \cup {cl[c].ver} ELSE stored
  /\ UNCHANGED <<serverVars, log, timeouts>>

\* recv fails after SO_RCVTIMEO, while it waits for the length or the body.
getResponseTimeout(c) ==
  /\ Receiving(c)
  /\ conn[Sock(c)].phase \in Live
  /\ timeouts < MaxTimeouts
  /\ timeouts' = timeouts + 1
  /\ Continue(c, [conn EXCEPT ![Sock(c)].read = (conn[Sock(c)].phase = "body")],
              FALSE)
  /\ UNCHANGED <<serverVars, log, stored>>

\* The body never comes: recv returns 0 and messageSize stays where it is.
getResponseCut(c) ==
  /\ Receiving(c)
  /\ conn[Sock(c)].phase = "cut"
  /\ cl' = [cl EXCEPT ![c].pc = "spin"]
  /\ UNCHANGED <<conn, serverVars, log, stored, timeouts>>

Step(c) ==
  \/ connectFirst(c)
  \/ connectSecond(c)
  \/ sendRequest(c)
  \/ sendRequestSigpipe(c)
  \/ sendRequestNoSock(c)
  \/ getResponse(c)
  \/ getResponseCut(c)

Command(c) ==
  \/ startPut(c)
  \/ startGet(c)
  \/ startList(c)
  \/ startMkDir(c)
  \/ exit(c)

ClientTypeOK ==
  /\ cl \in [Clients -> Client]
  /\ log \in Seq(PutRecord)
  /\ stored \subseteq DOMAIN log
  /\ timeouts \in Nat
=============================================================================
