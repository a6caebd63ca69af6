----------------------------- MODULE DfsProofs ------------------------------
(***************************************************************************)
(* Proofs about the distributed file system: any number of clients, files, *)
(* directories, connections, PUTs, crashes and late answers.               *)
(***************************************************************************)
EXTENDS DfsInv, TLAPS

USE StoreAssumption, MaxConnsAssumption, MaxCrashesAssumption, ClientAssumption

-----------------------------------------------------------------------------
\* The operators on connections.

(***************************************************************************)
(* A connection stays a connection whatever happens to it: closeSocket,    *)
(* the end of the thread, the end of the server.                           *)
(***************************************************************************)
LEMMA FreeType == Free \in Connection
  BY DEF Free, Connection, Live, Servers, Pieces, Request, NoRequest, NoPieces,
         Absent, Content

LEMMA OpenedType ==
  ASSUME NEW s \in Servers, NEW c \in Clients
  PROVE  Opened(s, c) \in Connection
  BY FreeType DEF Opened, Free, Connection, Live

LEMMA AbandonedType ==
  ASSUME NEW r \in Connection, NEW how \in {"closed", "leaked"}
  PROVE  Abandoned(r, how) \in Connection
  BY FreeType DEF Abandoned, Connection

LEMMA EndedType ==
  ASSUME NEW r \in Connection
  PROVE  Ended(r) \in Connection
  BY FreeType DEF Ended, Connection

LEMMA SeveredType ==
  ASSUME NEW r \in Connection
  PROVE  Severed(r) \in Connection
  BY FreeType DEF Severed, Connection

LEMMA TableTypes ==
  ASSUME NEW t \in [Conns -> Connection]
  PROVE  /\ \A S : Closing(t, S) \in [Conns -> Connection]
         /\ \A k \in Conns : Leaking(t, k) \in [Conns -> Connection]
         /\ \A c \in Clients : ClientGone(t, c) \in [Conns -> Connection]
         /\ \A s \in Servers : ServerGone(t, s) \in [Conns -> Connection]
  BY AbandonedType, SeveredType DEF Closing, Leaking, ClientGone, ServerGone

-----------------------------------------------------------------------------
\* The operators on clients.

LEMMA PromptType == Prompt \in Client
  BY DEF Prompt, Client, NoSock, NoPieces, Absent, Content, Pieces

LEMMA TurnTypes ==
  ASSUME NEW r \in Client
  PROVE  /\ NextTurn(r) \in Client
         /\ \A d \in BOOLEAN : GetTurn(r, d) \in Client
  <1>0. NoSock \in 0..MaxConns
    BY DEF NoSock
  <1>1. ASSUME NEW o \in {"complete", "incomplete"} PROVE Finished(r, o) \in Client
    BY <1>0 DEF Finished, Client
  <1>2. ASSUME NEW n \in 0..3
        PROVE  [r EXCEPT !.pc = "connect", !.n = n, !.prim = NoSock] \in Client
    BY <1>0 DEF Client
  <1>3. NextTurn(r) \in Client
    <2>1. r.n \in 0..3
      BY DEF Client
    <2>2. ASSUME NEW n \in 0..3
          PROVE  [r EXCEPT !.pc = "connect", !.n = n, !.prim = NoSock,
                           !.sec = NoSock] \in Client
      BY <1>0 DEF Client
    <2>3. r.n < 3 => r.n + 1 \in 0..3
      BY <2>1
    <2> QED
      BY <1>1, <2>2, <2>3 DEF NextTurn
  <1>4. ASSUME NEW d \in BOOLEAN PROVE GetTurn(r, d) \in Client
    BY <1>1, <1>2 DEF GetTurn
  <1> QED
    BY <1>3, <1>4

-----------------------------------------------------------------------------
\* Steps of the servers.

\* What a step of a server may do to a connection: free it when the client is
\* not there any more, or move the thread on and leave the rest as it is.
Evolves(r, q) ==
  \/ q = r
  \/ q = Free /\ r.peer # "open"
  \/ /\ r.phase # "free" /\ q.phase # "free"
     /\ q.srv = r.srv /\ q.cli = r.cli /\ q.peer = r.peer /\ q.req = r.req
     /\ q.phase \in {"done", "reset", "cut"} => r.peer = "open"
     /\ q.phase = "writing" =>
          r.phase = "writing" \/ (r.req.method = "PUT" /\ r.req.auth)
     /\ q.phase = "reading" =>
          r.phase = "reading" \/ (r.req.method = "GET" /\ r.req.auth)

(***************************************************************************)
(* Such a step leaves the clients' sockets and the requests in order: the  *)
(* threads of dfs change nothing that a client relies on.                  *)
(***************************************************************************)
LEMMA EvolvesKeeps ==
  ASSUME SlotsOK, ClientsOK, RequestsOK,
         UNCHANGED <<cl, log>>,
         \A k \in Conns : Evolves(conn[k], conn'[k]),
         cl \in [Clients -> Client]
  PROVE  SlotsOK' /\ ClientsOK' /\ RequestsOK'
<1>0. /\ Free.phase = "free" /\ Free.req.method = "none"
  BY DEF Free, NoRequest
<1>1. SlotsOK'
  <2> SUFFICES ASSUME NEW k \in Conns
               PROVE  /\ conn'[k].phase = "free" => conn'[k] = Free
                      /\ conn'[k].phase # "free" => conn'[k].peer # "none"
                      /\ conn'[k].phase \in {"done", "reset", "cut"} => conn'[k].peer = "open"
    BY DEF SlotsOK
  <2> QED
    BY <1>0 DEF SlotsOK, Evolves
<1>2. RequestsOK'
  <2> SUFFICES ASSUME NEW k \in Conns PROVE RequestOK(conn[k])'
    BY DEF RequestsOK
  <2>1. RequestOK(conn[k])
    BY DEF RequestsOK
  <2>2. CASE conn'[k] = conn[k]
    BY <2>1, <2>2 DEF RequestOK
  <2>3. CASE conn'[k] = Free
    BY <1>0, <2>3 DEF RequestOK
  <2>4. CASE /\ conn'[k].req = conn[k].req /\ conn'[k].srv = conn[k].srv
             /\ conn'[k].phase = "writing" =>
                  conn[k].phase = "writing" \/ (conn[k].req.method = "PUT" /\ conn[k].req.auth)
             /\ conn'[k].phase = "reading" =>
                  conn[k].phase = "reading" \/ (conn[k].req.method = "GET" /\ conn[k].req.auth)
    BY <2>1, <2>4 DEF RequestOK
  <2> QED
    BY <2>2, <2>3, <2>4 DEF Evolves
<1>3. ClientsOK'
  <2> SUFFICES ASSUME NEW c \in Clients PROVE (CommandOK(c) /\ SocketsOK(c))'
    BY DEF ClientsOK
  <2>1. CommandOK(c)'
    BY DEF ClientsOK, CommandOK
  <2>2. ASSUME NEW k \in Conns, NEW s, Holds(c, k, s) PROVE Holds(c, k, s)'
    BY <2>2 DEF Holds, Evolves
  <2>3. cl[c].prim \in 0..MaxConns /\ cl[c].sec \in 0..MaxConns
    BY DEF Client
  <2>4. /\ cl[c].prim # NoSock => cl[c].prim \in Conns
        /\ cl[c].sec # NoSock => cl[c].sec \in Conns
    BY <2>3 DEF NoSock, Conns
  <2>5. Target(c)' = Target(c)
    BY DEF Target
  <2>6. SocketsOK(c)'
    BY <2>2, <2>4, <2>5 DEF ClientsOK, SocketsOK
  <2> QED
    BY <2>1, <2>6
<1> QED
  BY <1>1, <1>2, <1>3

LEMMA EvolvesSame == \A r : Evolves(r, r)
  BY DEF Evolves

\* The storage is as it was.
LEMMA DiskUnchanged ==
  ASSUME StoredWhereItBelongs, UNCHANGED <<disk, log>>
  PROVE  StoredWhereItBelongs'
  BY DEF StoredWhereItBelongs, Belongs, PutsOf

LEMMA WritersKept ==
  ASSUME UnfinishedHasWriter, UNCHANGED disk,
         died \subseteq died',
         \A k \in Conns : conn[k].phase = "writing" /\ conn[k].srv \notin died' =>
           /\ conn'[k].phase = "writing"
           /\ conn'[k].srv = conn[k].srv
           /\ conn'[k].req = conn[k].req
  PROVE  UnfinishedHasWriter'
<1>1. \A k \in Conns : \A s, f, i :
        s \notin died' /\ Writes(k, s, f, i) => Writes(k, s, f, i)'
  BY DEF Writes
<1> QED
  BY <1>1 DEF UnfinishedHasWriter

(***************************************************************************)
(* A step of one thread that is not writing a piece file.                  *)
(***************************************************************************)
LEMMA QuietStep ==
  ASSUME StorageInv, NEW k \in Conns, NEW q \in Connection,
         conn' = [conn EXCEPT ![k] = q],
         Evolves(conn[k], q),
         conn[k].phase # "writing",
         dirs' \in [Servers -> SUBSET Dirs],
         UNCHANGED <<up, disk, crashes, died, clientVars>>
  PROVE  StorageInv'
<1>1. conn \in [Conns -> Connection] /\ cl \in [Clients -> Client]
  BY DEF StorageInv, TypeOK, ServerTypeOK, ClientTypeOK
<1>2. TypeOK'
  BY <1>1 DEF StorageInv, TypeOK, ServerTypeOK, ClientTypeOK, clientVars
<1>3. \A j \in Conns : Evolves(conn[j], conn'[j])
  BY <1>1, EvolvesSame
<1>4. SlotsOK' /\ ClientsOK' /\ RequestsOK'
  BY <1>1, <1>3, EvolvesKeeps DEF StorageInv, clientVars
<1>5. StoredWhereItBelongs'
  BY DiskUnchanged DEF StorageInv, clientVars
<1>6. UnfinishedHasWriter'
  BY <1>1, WritersKept DEF StorageInv
<1> QED
  BY <1>2, <1>4, <1>5, <1>6 DEF StorageInv

-----------------------------------------------------------------------------
\* What handleGetResponse reads.

\* The file of piece r.i, as it is now.
PieceFile(r) == disk[r.srv][r.req.file][r.i]

\* The piece file is opened and begun.
BeginsPiece(r, q) ==
  /\ r.phase = "handle" /\ Readable(PieceFile(r))
  /\ \E y \in FirstRead(PieceFile(r)) : q.found = [r.found EXCEPT ![r.i] = y]
  /\ q.phase = "reading" /\ q.i = r.i /\ q.reply = r.reply

\* What is found once the pass for piece r.i is over.
EndsPiece(r, found) ==
  \/ r.phase = "handle" /\ ~Readable(PieceFile(r)) /\ found = r.found
  \/ /\ r.phase = "reading"
     /\ \E y \in LastRead(r.found[r.i], PieceFile(r)) : found = [r.found EXCEPT ![r.i] = y]

\* What NextPiece makes of it.
Advances(r, q) ==
  \/ q.phase = "header" /\ q.reply = "ok" /\ GetDone(q.found)
  \/ q.phase = "header" /\ q.reply = "error" /\ r.i = 3 /\ ~GetDone(q.found)
  \/ /\ q.phase = "handle" /\ q.reply = r.reply
     /\ r.i # 3 /\ q.i = r.i + 1 /\ ~GetDone(q.found)

\* A step of the loop of handleGetResponse.
Looks(r, q) ==
  /\ r.phase \in {"handle", "reading"} /\ r.req.auth /\ r.req.method = "GET"
  /\ q.srv = r.srv /\ q.cli = r.cli /\ q.peer = r.peer /\ q.req = r.req
  /\ q.flushed = r.flushed /\ q.list = r.list
  /\ BeginsPiece(r, q) \/ (EndsPiece(r, q.found) /\ Advances(r, q))

LEMMA ReadTypes ==
  ASSUME NEW x \in Content, NEW y \in Content
  PROVE  FirstRead(x) \subseteq Content /\ LastRead(y, x) \subseteq Content
  BY DEF FirstRead, LastRead, Content, Empty, Torn, Part, Whole

LEMMA NextPieceStep ==
  ASSUME NEW r \in Connection
  PROVE  LET q == NextPiece(r)
         IN /\ q \in Connection
            /\ q.srv = r.srv /\ q.cli = r.cli /\ q.peer = r.peer /\ q.req = r.req
            /\ q.flushed = r.flushed /\ q.list = r.list /\ q.found = r.found
            /\ Advances(r, q)
<1> DEFINE A == [r EXCEPT !.phase = "header", !.reply = "ok"]
           B == [r EXCEPT !.phase = "header", !.reply = "error"]
           C == [r EXCEPT !.phase = "handle", !.i = r.i + 1]
<1>1. r.i \in 0..3 /\ (r.i # 3 => r.i + 1 \in Pieces)
  BY DEF Connection, Pieces
<1>2. /\ A \in Connection /\ A.found = r.found /\ A.phase = "header" /\ A.reply = "ok"
      /\ A.srv = r.srv /\ A.cli = r.cli /\ A.peer = r.peer /\ A.req = r.req
      /\ A.flushed = r.flushed /\ A.list = r.list
  BY DEF Connection, Live
<1>3. /\ B \in Connection /\ B.found = r.found /\ B.phase = "header" /\ B.reply = "error"
      /\ B.srv = r.srv /\ B.cli = r.cli /\ B.peer = r.peer /\ B.req = r.req
      /\ B.flushed = r.flushed /\ B.list = r.list
  BY DEF Connection, Live
<1>4. r.i # 3 =>
      /\ C \in Connection /\ C.found = r.found /\ C.phase = "handle" /\ C.reply = r.reply
      /\ C.srv = r.srv /\ C.cli = r.cli /\ C.peer = r.peer /\ C.req = r.req
      /\ C.flushed = r.flushed /\ C.list = r.list /\ C.i = r.i + 1
  BY <1>1 DEF Connection, Live
<1>5. NextPiece(r) = CASE GetDone(r.found) -> A
                       [] ~GetDone(r.found) /\ r.i = 3 -> B
                       [] OTHER -> C
  BY DEF NextPiece
<1> HIDE DEF A, B, C
<1>6. CASE GetDone(r.found)
  <2>1. NextPiece(r) = A
    BY <1>5, <1>6
  <2> QED
    BY <1>2, <1>6, <2>1 DEF Advances
<1>7. CASE ~GetDone(r.found) /\ r.i = 3
  <2>1. NextPiece(r) = B
    BY <1>5, <1>7
  <2> QED
    BY <1>3, <1>7, <2>1 DEF Advances
<1>8. CASE ~GetDone(r.found) /\ r.i # 3
  <2>1. NextPiece(r) = C
    BY <1>5, <1>8
  <2> QED
    BY <1>4, <1>8, <2>1 DEF Advances
<1> QED
  BY <1>6, <1>7, <1>8

(***************************************************************************)
(* handleGetResponse and loadFileToVector, spelled out.                    *)
(***************************************************************************)
LEMMA GetLooks ==
  ASSUME StorageInv, NEW k \in Conns, handleGetResponse(k) \/ loadFileToVector(k)
  PROVE  /\ UNCHANGED serverVars
         /\ \E q \in Connection : conn' = [conn EXCEPT ![k] = q] /\ Looks(conn[k], q)
<1> DEFINE r == conn[k]
           x == PieceFile(r)
<1>1. r \in Connection /\ r.i \in Pieces /\ r.found \in [Pieces -> Content]
  BY DEF StorageInv, TypeOK, ServerTypeOK, Connection
<1>2. r.req.auth /\ r.req.method = "GET" /\ r.phase \in {"handle", "reading"}
  BY DEF handleGetResponse, loadFileToVector, Accepted, StorageInv, RequestsOK, RequestOK
<1>3. x \in Content
  <2>1. r.req.file \in Files
    BY <1>2 DEF StorageInv, RequestsOK, RequestOK
  <2>2. r.srv \in Servers /\ disk \in [Servers -> [Files -> [Pieces -> Content]]]
    BY <1>1 DEF Connection, StorageInv, TypeOK, ServerTypeOK
  <2> QED
    BY <1>1, <2>1, <2>2 DEF PieceFile
<1>4. UNCHANGED serverVars
  BY DEF handleGetResponse, loadFileToVector
<1>5. CASE handleGetResponse(k) /\ Readable(x)
  <2>1. PICK y \in FirstRead(x) :
          conn' = [conn EXCEPT ![k] = [r EXCEPT !.phase = "reading", !.found[r.i] = y]]
    BY <1>5 DEF handleGetResponse, PieceFile
  <2> DEFINE found == [r.found EXCEPT ![r.i] = y]
             q == [r EXCEPT !.phase = "reading", !.found = found]
  <2>2. found \in [Pieces -> Content]
    BY <1>1, <1>3, ReadTypes
  <2>3. conn' = [conn EXCEPT ![k] = q]
    <3>1. q = [r EXCEPT !.phase = "reading", !.found[r.i] = y]
      BY <1>1 DEF Connection
    <3> QED
      BY <2>1, <3>1
  <2>4. r.phase = "handle"
    BY <1>5 DEF handleGetResponse, Accepted
  <2> HIDE DEF found
  <2>5. /\ q \in Connection /\ q.srv = r.srv /\ q.cli = r.cli /\ q.peer = r.peer
        /\ q.req = r.req /\ q.flushed = r.flushed /\ q.list = r.list
        /\ q.phase = "reading" /\ q.i = r.i /\ q.reply = r.reply /\ q.found = found
    BY <1>1, <2>2 DEF Connection, Live
  <2> HIDE DEF q
  <2>6. BeginsPiece(r, q)
    BY <1>5, <2>4, <2>5 DEF BeginsPiece, found
  <2> QED
    BY <1>2, <1>4, <2>3, <2>5, <2>6 DEF Looks
<1>6. CASE handleGetResponse(k) /\ ~Readable(x)
  <2>1. conn' = [conn EXCEPT ![k] = NextPiece(r)] /\ r.phase = "handle"
    BY <1>6 DEF handleGetResponse, Accepted, PieceFile
  <2>2. EndsPiece(r, r.found)
    BY <1>6, <2>1 DEF EndsPiece
  <2> QED
    BY <1>1, <1>2, <1>4, <2>1, <2>2, NextPieceStep DEF Looks
<1>7. CASE loadFileToVector(k)
  <2>1. PICK y \in LastRead(r.found[r.i], x) :
          conn' = [conn EXCEPT ![k] = NextPiece([r EXCEPT !.found[r.i] = y])]
    BY <1>7 DEF loadFileToVector, PieceFile
  <2> DEFINE found == [r.found EXCEPT ![r.i] = y]
             p == [r EXCEPT !.found = found]
  <2>2. found \in [Pieces -> Content]
    <3>1. r.found[r.i] \in Content
      BY <1>1
    <3> QED
      BY <1>1, <1>3, <3>1, ReadTypes
  <2>3. conn' = [conn EXCEPT ![k] = NextPiece(p)]
    <3>1. p = [r EXCEPT !.found[r.i] = y]
      BY <1>1 DEF Connection
    <3> QED
      BY <2>1, <3>1
  <2>4. r.phase = "reading"
    BY <1>7 DEF loadFileToVector
  <2>5. EndsPiece(r, found)
    BY <2>4 DEF EndsPiece
  <2> HIDE DEF found
  <2>6. /\ p \in Connection /\ p.srv = r.srv /\ p.cli = r.cli /\ p.peer = r.peer
        /\ p.req = r.req /\ p.flushed = r.flushed /\ p.list = r.list
        /\ p.i = r.i /\ p.reply = r.reply /\ p.found = found
    BY <1>1, <2>2 DEF Connection
  <2> HIDE DEF p
  <2>7. Advances(p, NextPiece(p)) => Advances(r, NextPiece(p))
    BY <2>6 DEF Advances
  <2> QED
    BY <1>2, <1>4, <2>3, <2>5, <2>6, <2>7, NextPieceStep DEF Looks
<1> QED
  BY <1>5, <1>6, <1>7

(***************************************************************************)
(* The handlers that do not touch a piece file keep the invariant: an      *)
(* empty or refused request, LIST, GET, MKDIR, and the two sends.          *)
(***************************************************************************)
LEMMA QuietThread ==
  ASSUME StorageInv, NEW k \in Conns, UNCHANGED clientVars,
         \/ getEmptyRequest(k) \/ parseRequest(k) \/ handleListResponse(k)
         \/ handleGetResponse(k) \/ loadFileToVector(k) \/ handleMkdirResponse(k)
         \/ sendLength(k) \/ sendBody(k)
  PROVE  StorageInv'
<1> DEFINE r == conn[k]
<1>1. r \in Connection /\ conn \in [Conns -> Connection]
  BY DEF StorageInv, TypeOK, ServerTypeOK
<1>2. /\ r.srv \in Servers /\ r.req.dir \in Dirs /\ r.i \in 0..3
      /\ r.phase \in Live \cup {"free", "done", "reset", "cut"}
      /\ r.found \in [Pieces -> Content]
  BY <1>1 DEF Connection, Request, Pieces
<1>3. disk \in [Servers -> [Files -> [Pieces -> Content]]] /\ dirs \in [Servers -> SUBSET Dirs]
  BY DEF StorageInv, TypeOK, ServerTypeOK
<1>4. ASSUME NEW reply \in {"ok", "error"}, r.phase \in {"request", "handle"}
      PROVE  LET q == [r EXCEPT !.phase = "header", !.reply = reply]
             IN /\ q \in Connection
                /\ Evolves(r, q)
                /\ r.phase # "writing"
                /\ Answering(k, reply) <=> conn' = [conn EXCEPT ![k] = q]
  BY <1>1, <1>4, ZenonT(60) DEF Connection, Evolves, Answering, Live
<1>5. CASE getEmptyRequest(k)
  BY <1>3, <1>4, <1>5, QuietStep DEF getEmptyRequest, serverVars
<1>6. CASE parseRequest(k)
  BY <1>3, <1>4, <1>6, QuietStep DEF parseRequest, serverVars
<1>7. CASE handleMkdirResponse(k)
  <2>1. dirs' \in [Servers -> SUBSET Dirs]
    BY <1>2, <1>3, <1>7 DEF handleMkdirResponse
  <2> QED
    BY <1>4, <1>7, <2>1, QuietStep DEF handleMkdirResponse, Accepted
<1>8. CASE handleListResponse(k)
  <2>1. PICK names \in SUBSET (Files \X Pieces), reply \in {"ok", "empty"} :
          conn' = [conn EXCEPT ![k].phase = "header", ![k].list = names, ![k].reply = reply]
    BY <1>8 DEF handleListResponse
  <2> DEFINE q == [r EXCEPT !.phase = "header", !.list = names, !.reply = reply]
  <2>2. q \in Connection /\ conn' = [conn EXCEPT ![k] = q]
    BY <1>1, <2>1, ZenonT(60) DEF Connection, Live
  <2>3. r.phase = "handle" /\ UNCHANGED serverVars
    BY <1>8 DEF handleListResponse, Accepted
  <2>4. Evolves(r, q)
    BY <1>1, <2>3 DEF Evolves, Connection
  <2> QED
    BY <1>3, <2>2, <2>3, <2>4, QuietStep DEF serverVars
<1>9. CASE handleGetResponse(k) \/ loadFileToVector(k)
  <2>1. PICK q \in Connection : conn' = [conn EXCEPT ![k] = q] /\ Looks(r, q)
    BY <1>9, GetLooks
  <2>2. UNCHANGED serverVars /\ r.phase \in {"handle", "reading"}
    BY <1>9, <2>1, GetLooks DEF Looks
  <2>3. Evolves(r, q)
    BY <2>1, <2>2 DEF Evolves, Looks, BeginsPiece, Advances
  <2> QED
    BY <1>3, <2>1, <2>2, <2>3, QuietStep DEF serverVars
<1>10. CASE sendLength(k)
  <2> DEFINE q == IF r.reply = "empty" THEN Ended(r) ELSE [r EXCEPT !.phase = "body"]
  <2>1. r.phase = "header" /\ conn' = [conn EXCEPT ![k] = q] /\ UNCHANGED serverVars
    BY <1>1, <1>10 DEF sendLength
  <2>2. q \in Connection
    BY <1>1, EndedType DEF Connection, Live
  <2>3. Evolves(r, q)
    BY <1>1, <2>1 DEF Evolves, Connection, Ended
  <2> QED
    BY <1>3, <2>1, <2>2, <2>3, QuietStep DEF serverVars
<1>11. CASE sendBody(k)
  <2>1. r.phase = "body" /\ conn' = [conn EXCEPT ![k] = Ended(r)] /\ UNCHANGED serverVars
    BY <1>1, <1>11 DEF sendBody
  <2>2. Evolves(r, Ended(r))
    BY <1>1, <2>1 DEF Evolves, Connection, Ended
  <2> QED
    BY <1>1, <1>3, <2>1, <2>2, EndedType, QuietStep DEF serverVars
<1> QED
  BY <1>5, <1>6, <1>7, <1>8, <1>9, <1>10, <1>11

(***************************************************************************)
(* A step of a thread that changes the piece file of its PUT request.      *)
(***************************************************************************)
LEMMA DiskStep ==
  ASSUME StorageInv, NEW k \in Conns, NEW q \in Connection, NEW x \in Content,
         conn' = [conn EXCEPT ![k] = q],
         Evolves(conn[k], q),
         q.srv = conn[k].srv, q.req = conn[k].req,
         conn[k].req.method = "PUT", conn[k].req.auth,
         disk' = [disk EXCEPT ![q.srv][q.req.file][q.req.piece] = x],
         x.kind \in {"part", "whole"} => x.ver = q.req.ver,
         x.kind \in {"empty", "part"} => q.phase = "writing",
         UNCHANGED <<up, dirs, crashes, died, clientVars>>
  PROVE  StorageInv'
<1>1. /\ conn \in [Conns -> Connection] /\ cl \in [Clients -> Client]
      /\ disk \in [Servers -> [Files -> [Pieces -> Content]]]
  BY DEF StorageInv, TypeOK, ServerTypeOK, ClientTypeOK
<1>2. q.srv \in Servers /\ q.req.piece \in Pieces
  BY DEF Connection, Request
<1>3. /\ q.req.file \in Files
      /\ q.req.ver \in PutsOf(q.req.file)
      /\ q.srv \in Holders(q.req.piece, log[q.req.ver].bin)
  BY DEF StorageInv, RequestsOK, RequestOK, PutsOf
<1>4. disk' \in [Servers -> [Files -> [Pieces -> Content]]]
  BY <1>1, <1>2, <1>3
<1>5. TypeOK'
  BY <1>1, <1>4 DEF StorageInv, TypeOK, ServerTypeOK, ClientTypeOK, clientVars
<1>6. SlotsOK' /\ ClientsOK' /\ RequestsOK'
  <2>1. \A j \in Conns : Evolves(conn[j], conn'[j])
    BY <1>1, EvolvesSame
  <2> QED
    BY <1>1, <2>1, EvolvesKeeps DEF StorageInv, clientVars
<1> DEFINE Here(s, f, i) == s = q.srv /\ f = q.req.file /\ i = q.req.piece
<1>7. ASSUME NEW s \in Servers, NEW f \in Files, NEW i \in Pieces, ~Here(s, f, i)
      PROVE  disk'[s][f][i] = disk[s][f][i]
  BY <1>1, <1>2, <1>3, <1>7
<1>8. disk'[q.srv][q.req.file][q.req.piece] = x
  BY <1>1, <1>2, <1>3
<1> HIDE DEF Here
<1>9. StoredWhereItBelongs'
  <2>1. ASSUME NEW s \in Servers, NEW f \in Files, NEW i \in Pieces, NEW y,
               Belongs(s, f, i, y)
        PROVE  Belongs(s, f, i, y)'
    BY <2>1 DEF Belongs, PutsOf, clientVars
  <2>2. Belongs(q.srv, q.req.file, q.req.piece, x)
    BY <1>3 DEF Belongs
  <2>3. ASSUME NEW s \in Servers, NEW f \in Files, NEW i \in Pieces,
               disk'[s][f][i] # Absent
        PROVE  Belongs(s, f, i, disk'[s][f][i])
    <3>1. CASE Here(s, f, i)
      BY <1>8, <2>2, <3>1 DEF Here
    <3>2. CASE ~Here(s, f, i)
      <4>1. disk'[s][f][i] = disk[s][f][i]
        BY <1>7, <3>2, ZenonT(40)
      <4>2. Belongs(s, f, i, disk[s][f][i])
        BY <2>3, <4>1 DEF StorageInv, StoredWhereItBelongs
      <4> QED
        BY <4>1, <4>2
    <3> QED
      BY <3>1, <3>2
  <2> QED
    BY <2>1, <2>3 DEF StoredWhereItBelongs, Absent
<1>10. UnfinishedHasWriter'
  <2>1. ASSUME NEW s \in Servers, NEW f \in Files, NEW i \in Pieces,
               s \notin died, disk'[s][f][i].kind \in {"empty", "part"}
        PROVE  \E j \in Conns : Writes(j, s, f, i)'
    <3>1. CASE Here(s, f, i)
      BY <1>1, <1>8, <2>1, <3>1 DEF Here, Writes
    <3>2. CASE ~Here(s, f, i)
      <4>0. disk'[s][f][i] = disk[s][f][i]
        BY <1>7, <3>2, ZenonT(40)
      <4>1. disk[s][f][i].kind \in {"empty", "part"}
        BY <2>1, <4>0, Zenon
      <4>2. PICK j \in Conns : Writes(j, s, f, i)
        BY <2>1, <4>1 DEF StorageInv, UnfinishedHasWriter
      <4>3. j # k
        BY <3>2, <4>2 DEF Here, Writes
      <4>4. conn'[j] = conn[j]
        BY <1>1, <4>3
      <4> QED
        BY <4>2, <4>4 DEF Writes
    <3> QED
      BY <3>1, <3>2
  <2> QED
    BY <2>1 DEF UnfinishedHasWriter
<1> QED
  BY <1>5, <1>6, <1>9, <1>10 DEF StorageInv

(***************************************************************************)
(* PUT's handler keeps the invariant, in every interleaving of the threads *)
(* that write one piece file: opening, an early flush, the last write.     *)
(***************************************************************************)
LEMMA WritingThread ==
  ASSUME StorageInv, NEW k \in Conns, UNCHANGED clientVars,
         handlePutResponse(k) \/ flushPiece(k) \/ saveVectorToFile(k)
  PROVE  StorageInv'
<1> DEFINE r == conn[k]
<1>1. r \in Connection /\ conn \in [Conns -> Connection]
  BY DEF StorageInv, TypeOK, ServerTypeOK
<1>2. r.req.ver \in Nat
  BY <1>1 DEF Connection, Request
<1>3. /\ Empty \in Content /\ Torn \in Content
      /\ Part(r.req.ver) \in Content /\ Whole(r.req.ver) \in Content
  BY <1>2 DEF Empty, Torn, Part, Whole, Content
<1>4. /\ Empty.kind = "empty" /\ Torn.kind = "torn"
      /\ Part(r.req.ver).kind = "part" /\ Part(r.req.ver).ver = r.req.ver
      /\ Whole(r.req.ver).kind = "whole" /\ Whole(r.req.ver).ver = r.req.ver
  BY DEF Empty, Torn, Part, Whole
<1>5. r.phase = "writing" => r.req.method = "PUT" /\ r.req.auth
  BY DEF StorageInv, RequestsOK, RequestOK
<1>6. dirs \in [Servers -> SUBSET Dirs]
  BY DEF StorageInv, TypeOK, ServerTypeOK
<1> DEFINE a == [r EXCEPT !.phase = "header", !.reply = "ok"]
<1>7. /\ a \in Connection /\ a.srv = r.srv /\ a.req = r.req /\ a.phase = "header"
      /\ r.phase \in {"handle", "writing"} => Evolves(r, a)
      /\ Answering(k, "ok") <=> conn' = [conn EXCEPT ![k] = a]
  BY <1>1, ZenonT(60) DEF Connection, Evolves, Answering, Live
<1>8. CASE handlePutResponse(k)
  <2>1. r.phase = "handle" /\ r.req.method = "PUT" /\ r.req.auth
    BY <1>8 DEF handlePutResponse, Accepted
  <2>2. CASE Answering(k, "ok") /\ UNCHANGED disk
    BY <1>6, <1>7, <1>8, <2>1, <2>2, QuietStep DEF handlePutResponse
  <2>3. CASE /\ disk' = [disk EXCEPT ![r.srv][r.req.file][r.req.piece] = Empty]
             /\ conn' = [conn EXCEPT ![k].phase = "writing"]
    <3> DEFINE q == [r EXCEPT !.phase = "writing"]
    <3>1. /\ q \in Connection /\ q.srv = r.srv /\ q.req = r.req /\ q.phase = "writing"
          /\ Evolves(r, q) /\ conn' = [conn EXCEPT ![k] = q]
      BY <1>1, <2>1, <2>3 DEF Connection, Evolves, Live
    <3> HIDE DEF q
    <3> QED
      BY <1>3, <1>4, <1>8, <2>1, <2>3, <3>1, DiskStep DEF handlePutResponse
  <2> QED
    BY <1>8, <2>2, <2>3 DEF handlePutResponse
<1>9. CASE flushPiece(k)
  <2> DEFINE q == [r EXCEPT !.flushed = TRUE]
  <2>1. r.phase = "writing"
    BY <1>9 DEF flushPiece
  <2>2. /\ q \in Connection /\ q.srv = r.srv /\ q.req = r.req /\ q.phase = "writing"
        /\ Evolves(r, q) /\ conn' = [conn EXCEPT ![k] = q]
    BY <1>1, <1>9, <2>1 DEF flushPiece, Connection, Evolves
  <2>3. PICK x \in {Part(r.req.ver), Torn} :
          disk' = [disk EXCEPT ![r.srv][r.req.file][r.req.piece] = x]
    BY <1>9 DEF flushPiece
  <2> HIDE DEF q
  <2> QED
    BY <1>3, <1>4, <1>5, <1>9, <2>1, <2>2, <2>3, DiskStep DEF flushPiece
<1>10. CASE saveVectorToFile(k)
  <2>1. r.phase = "writing" /\ conn' = [conn EXCEPT ![k] = a]
    BY <1>7, <1>10 DEF saveVectorToFile
  <2>2. PICK x \in {Whole(r.req.ver), Torn} :
          disk' = [disk EXCEPT ![r.srv][r.req.file][r.req.piece] = x]
    BY <1>10 DEF saveVectorToFile, Written
  <2> HIDE DEF a
  <2> QED
    BY <1>3, <1>4, <1>5, <1>7, <1>10, <2>1, <2>2, DiskStep DEF saveVectorToFile
<1> QED
  BY <1>8, <1>9, <1>10

(***************************************************************************)
(* The death of a server, by SIGPIPE or from outside, and its restart.     *)
(***************************************************************************)
LEMMA DieStep ==
  ASSUME StorageInv, NEW s \in Servers, Die(s), crashes' \in Nat, UNCHANGED clientVars
  PROVE  StorageInv'
<1>1. conn \in [Conns -> Connection] /\ cl \in [Clients -> Client]
  BY DEF StorageInv, TypeOK, ServerTypeOK, ClientTypeOK
<1>2. conn' \in [Conns -> Connection]
  BY <1>1, TableTypes DEF Die
<1>3. TypeOK'
  BY <1>1, <1>2 DEF StorageInv, TypeOK, ServerTypeOK, ClientTypeOK, clientVars, Die
<1>4. ASSUME NEW k \in Conns PROVE Evolves(conn[k], conn'[k])
  <2>1. conn[k] \in Connection
    BY <1>1
  <2>2. conn'[k] = IF conn[k].srv = s THEN Severed(conn[k]) ELSE conn[k]
    BY DEF Die, ServerGone
  <2>3. Evolves(conn[k], Severed(conn[k]))
    BY <2>1 DEF Evolves, Severed, Connection, Live
  <2> QED
    BY <2>2, <2>3, EvolvesSame
<1>5. SlotsOK' /\ ClientsOK' /\ RequestsOK'
  BY <1>1, <1>4, EvolvesKeeps DEF StorageInv, clientVars
<1>6. StoredWhereItBelongs'
  BY DiskUnchanged DEF StorageInv, clientVars, Die
<1>7. UnfinishedHasWriter'
  <2>1. \A k \in Conns : conn[k].srv # s => conn'[k] = conn[k]
    BY DEF Die, ServerGone
  <2> QED
    BY <2>1, WritersKept DEF StorageInv, Die
<1> QED
  BY <1>3, <1>5, <1>6, <1>7 DEF StorageInv

LEMMA RestartStep ==
  ASSUME StorageInv, NEW s \in Servers, Restart(s), UNCHANGED clientVars
  PROVE  StorageInv'
<1>1. dirs' \in [Servers -> SUBSET Dirs]
  BY DEF Restart, StorageInv, TypeOK, ServerTypeOK
<1>2. TypeOK'
  BY <1>1 DEF StorageInv, TypeOK, ServerTypeOK, ClientTypeOK, clientVars, Restart
<1>3. SlotsOK' /\ ClientsOK' /\ RequestsOK'
  BY EvolvesSame, EvolvesKeeps DEF StorageInv, TypeOK, ClientTypeOK, clientVars, Restart
<1>4. StoredWhereItBelongs' /\ UnfinishedHasWriter'
  BY DiskUnchanged, WritersKept DEF StorageInv, clientVars, Restart
<1> QED
  BY <1>2, <1>3, <1>4 DEF StorageInv

(***************************************************************************)
(* Every step of the servers keeps the invariant.                          *)
(***************************************************************************)
LEMMA ServerStep == StorageInv /\ ServerNext => StorageInv'
<1> SUFFICES ASSUME StorageInv, ServerNext PROVE StorageInv'
  OBVIOUS
<1>1. UNCHANGED clientVars
  BY DEF ServerNext
<1>2. ASSUME NEW k \in Conns, Thread(k) PROVE StorageInv'
  <2>1. CASE sendBodySigpipe(k)
    <3>1. conn[k].srv \in Servers /\ crashes \in Nat
      BY DEF StorageInv, TypeOK, ServerTypeOK, Connection
    <3> QED
      BY <1>1, <2>1, <3>1, DieStep DEF sendBodySigpipe
  <2> QED
    BY <1>1, <1>2, <2>1, QuietThread, WritingThread DEF Thread
<1>3. ASSUME NEW s \in Servers, Crash(s) \/ Restart(s) PROVE StorageInv'
  <2>1. crashes \in Nat
    BY DEF StorageInv, TypeOK, ServerTypeOK
  <2> QED
    BY <1>1, <1>3, <2>1, DieStep, RestartStep DEF Crash
<1> QED
  BY <1>2, <1>3 DEF ServerNext

-----------------------------------------------------------------------------
\* Steps of the clients.

\* log' continues log.
LogGrows ==
  /\ log' \in Seq(PutRecord)
  /\ DOMAIN log \subseteq DOMAIN log'
  /\ \A v \in DOMAIN log : log'[v] = log[v]

\* What a step of client c may do to a connection: give up or mark its own,
\* open a free slot, send its request.
Handled(c, r, q) ==
  \/ q = r
  \/ /\ r.cli = c /\ r.phase \in Live /\ q.phase = r.phase
     /\ q.srv = r.srv /\ q.cli = r.cli /\ q.req = r.req
     /\ q.peer \in {"open", "closed", "leaked"}
  \/ r.cli = c /\ r.phase \notin Live /\ q = Free
  \/ /\ r.phase = "free" /\ q.phase = "request" /\ q.cli = c /\ q.req = NoRequest
     /\ q.peer \in {"open", "closed"}
  \/ /\ r.cli = c /\ r.phase = "request" /\ q.phase = "handle"
     /\ q.peer = r.peer /\ RequestOK(q)

(***************************************************************************)
(* A client's step that handles only its own connections leaves the other  *)
(* clients, the requests and the storage in order.                         *)
(***************************************************************************)
LEMMA HandledKeeps ==
  ASSUME StorageInv, NEW c \in Clients, NEW r \in Client,
         cl' = [cl EXCEPT ![c] = r],
         conn' \in [Conns -> Connection],
         \A k \in Conns : Handled(c, conn[k], conn'[k]),
         LogGrows, stored' \subseteq DOMAIN log', timeouts' \in Nat,
         UNCHANGED serverVars,
         CommandOK(c)', SocketsOK(c)'
  PROVE  StorageInv'
<1>1. conn \in [Conns -> Connection] /\ cl \in [Clients -> Client]
  BY DEF StorageInv, TypeOK, ServerTypeOK, ClientTypeOK
<1>2. TypeOK'
  BY <1>1 DEF StorageInv, TypeOK, ServerTypeOK, ClientTypeOK, LogGrows, serverVars
<1>3. Free.phase = "free" /\ Free.cli = None /\ Free.req.method = "none" /\ NoRequest.method = "none"
  BY DEF Free, NoRequest
<1>4. SlotsOK'
  <2> SUFFICES ASSUME NEW k \in Conns
               PROVE  /\ conn'[k].phase = "free" => conn'[k] = Free
                      /\ conn'[k].phase # "free" => conn'[k].peer # "none"
                      /\ conn'[k].phase \in {"done", "reset", "cut"} => conn'[k].peer = "open"
    BY DEF SlotsOK
  <2>1. Handled(c, conn[k], conn'[k])
    OBVIOUS
  <2> QED
    BY <1>3, <2>1 DEF StorageInv, SlotsOK, Handled, Live
<1>6. RequestsOK'
  <2> SUFFICES ASSUME NEW k \in Conns PROVE RequestOK(conn[k])'
    BY DEF RequestsOK
  <2>1. RequestOK(conn[k])
    BY DEF StorageInv, RequestsOK
  <2>2. RequestOK(conn'[k])
    <3>1. Handled(c, conn[k], conn'[k])
      OBVIOUS
    <3>2. CASE conn'[k].req.method = "none" /\ conn'[k].phase \notin {"reading", "writing"}
      BY <3>2 DEF RequestOK
    <3>3. CASE /\ conn'[k].req = conn[k].req /\ conn'[k].srv = conn[k].srv
               /\ conn'[k].phase = conn[k].phase
      BY <2>1, <3>3 DEF RequestOK
    <3> QED
      BY <1>3, <2>1, <3>1, <3>2, <3>3 DEF Handled
  <2> QED
    BY <2>2 DEF RequestOK, LogGrows
<1>7. ClientsOK'
  <2> SUFFICES ASSUME NEW d \in Clients, d # c PROVE CommandOK(d)' /\ SocketsOK(d)'
    BY DEF ClientsOK
  <2>1. cl'[d] = cl[d] /\ CommandOK(d) /\ SocketsOK(d)
    BY <1>1 DEF StorageInv, ClientsOK
  <2>2. CommandOK(d)'
    BY <2>1 DEF CommandOK, LogGrows
  <2>3. ASSUME NEW k \in Conns, NEW s, Holds(d, k, s) PROVE Holds(d, k, s)'
    <3>1. conn[k].cli = d /\ conn[k].phase # "free"
      BY <1>3, <2>3 DEF Holds, StorageInv, SlotsOK
    <3>2. Handled(c, conn[k], conn'[k])
      OBVIOUS
    <3>3. conn'[k] = conn[k]
      BY <3>1, <3>2 DEF Handled
    <3> QED
      BY <2>3, <3>3 DEF Holds
  <2>4. cl[d].prim \in 0..MaxConns /\ cl[d].sec \in 0..MaxConns
    BY <1>1 DEF Client
  <2>5. /\ cl[d].prim # NoSock => cl[d].prim \in Conns
        /\ cl[d].sec # NoSock => cl[d].sec \in Conns
    BY <2>4 DEF NoSock, Conns
  <2>6. Target(d)' = Target(d)
    BY <2>1 DEF Target, CommandOK, LogGrows
  <2>7. cl[d].op = "PUT" => Secondary(cl[d].n, log[cl[d].ver].bin)' = Secondary(cl[d].n, log[cl[d].ver].bin)
    BY <2>1 DEF CommandOK, LogGrows
  <2>8. SocketsOK(d)'
    BY <2>1, <2>3, <2>5, <2>6, <2>7 DEF SocketsOK
  <2> QED
    BY <2>2, <2>8
<1>8. StoredWhereItBelongs'
  <2>1. ASSUME NEW s, NEW f, NEW i, NEW x, Belongs(s, f, i, x) PROVE Belongs(s, f, i, x)'
    <3>1. PICK v \in PutsOf(f) : /\ s \in Holders(i, log[v].bin)
                                 /\ x.kind \in {"part", "whole"} => v = x.ver
      BY <2>1 DEF Belongs
    <3>2. v \in PutsOf(f)' /\ log'[v] = log[v]
      BY <3>1 DEF PutsOf, LogGrows
    <3> QED
      BY <3>1, <3>2 DEF Belongs
  <2> QED
    BY <2>1 DEF StorageInv, StoredWhereItBelongs, serverVars
<1>9. UnfinishedHasWriter'
  <2>1. ASSUME NEW k \in Conns, conn[k].phase = "writing"
        PROVE  /\ conn'[k].phase = "writing"
               /\ conn'[k].srv = conn[k].srv
               /\ conn'[k].req = conn[k].req
    <3>1. Handled(c, conn[k], conn'[k])
      OBVIOUS
    <3> QED
      BY <2>1, <3>1 DEF Handled, Live
  <2> QED
    BY <2>1, WritersKept DEF StorageInv, serverVars
<1> QED
  BY <1>2, <1>4, <1>6, <1>7, <1>8, <1>9 DEF StorageInv

\* t is the record of a client that has done with the sockets of r's command.
Settled(t, r) ==
  /\ t.op = r.op /\ t.file = r.file /\ t.ver = r.ver
  /\ t.pc \in {"connect", "prompt"}
  /\ t.prim = NoSock /\ t.sec = NoSock

LEMMA TurnsSettle ==
  ASSUME NEW r \in Client
  PROVE  /\ Settled(NextTurn(r), r)
         /\ r.sec = NoSock => \A d \in BOOLEAN : Settled(GetTurn(r, d), r)
<1>1. ASSUME NEW o PROVE /\ Settled(Finished(r, o), r)
  BY DEF Finished, Settled, Client
<1>2. ASSUME NEW n PROVE
        Settled([r EXCEPT !.pc = "connect", !.n = n, !.prim = NoSock, !.sec = NoSock], r)
  BY DEF Settled, Client
<1>3. ASSUME NEW n, r.sec = NoSock PROVE
        Settled([r EXCEPT !.pc = "connect", !.n = n, !.prim = NoSock], r)
  BY <1>3 DEF Settled, Client
<1>4. Settled(NextTurn(r), r)
  BY <1>1, <1>2 DEF NextTurn
<1>5. ASSUME NEW d \in BOOLEAN, r.sec = NoSock PROVE Settled(GetTurn(r, d), r)
  BY <1>1, <1>3, <1>5 DEF GetTurn
<1> QED
  BY <1>4, <1>5

LEMMA NotDeliveredOK ==
  ASSUME NEW r \in Client, r.sec = NoSock
  PROVE  NotDelivered(r) \in Client /\ Settled(NotDelivered(r), r)
<1> DEFINE a == [r EXCEPT !.failed = @ \cup {r.n}]
<1>1. /\ a \in Client /\ a.op = r.op /\ a.file = r.file /\ a.ver = r.ver
      /\ a.sec = NoSock
  BY DEF Client, Servers
<1>2. NotDelivered(r) = GetTurn(a, FALSE)
  BY DEF NotDelivered
<1> HIDE DEF a
<1>3. GetTurn(a, FALSE) \in Client /\ Settled(GetTurn(a, FALSE), a)
  BY <1>1, TurnTypes, TurnsSettle
<1> QED
  BY <1>1, <1>2, <1>3 DEF Settled

LEMMA DeliveredOK ==
  ASSUME NEW r \in Client, r.sec = NoSock, NEW found \in [Pieces -> Content]
  PROVE  Delivered(r, found) \in Client /\ Settled(Delivered(r, found), r)
<1> DEFINE p == [i \in Pieces |-> IF found[i] # Absent THEN found[i] ELSE r.pieces[i]]
           a == [r EXCEPT !.pieces = p]
<1>0. p \in [Pieces -> Content]
  BY DEF Client
<1> HIDE DEF p
<1>1. /\ a \in Client /\ a.op = r.op /\ a.file = r.file /\ a.ver = r.ver
      /\ a.sec = NoSock
  BY <1>0 DEF Client
<1>2. Delivered(r, found) = GetTurn(a, TRUE)
  BY DEF Delivered, p
<1> HIDE DEF a
<1>3. GetTurn(a, TRUE) \in Client /\ Settled(GetTurn(a, TRUE), a)
  BY <1>1, TurnTypes, TurnsSettle
<1> QED
  BY <1>1, <1>2, <1>3 DEF Settled

(***************************************************************************)
(* A step after which the client has no socket: the next server's turn or  *)
(* the prompt.                                                             *)
(***************************************************************************)
LEMMA SettledStep ==
  ASSUME StorageInv, NEW c \in Clients, NEW t \in Client,
         Settled(t, cl[c]), cl[c].pc \notin {"prompt", "gone"},
         cl' = [cl EXCEPT ![c] = t],
         conn' \in [Conns -> Connection],
         \A k \in Conns : Handled(c, conn[k], conn'[k]),
         UNCHANGED <<log, serverVars>>,
         stored' \subseteq DOMAIN log, timeouts' \in Nat
  PROVE  StorageInv'
<1>1. cl \in [Clients -> Client] /\ log \in Seq(PutRecord)
  BY DEF StorageInv, TypeOK, ClientTypeOK
<1>2. cl'[c] = t
  BY <1>1
<1>3. CommandOK(c)
  BY DEF StorageInv, ClientsOK
<1>4. CommandOK(c)'
  BY <1>2, <1>3 DEF CommandOK, Settled
<1>5. SocketsOK(c)'
  BY <1>2 DEF SocketsOK, Settled
<1>6. LogGrows
  BY <1>1 DEF LogGrows
<1> QED
  BY <1>4, <1>5, <1>6, HandledKeeps

(***************************************************************************)
(* Giving up connections of its own is all that the end of a client does.  *)
(***************************************************************************)
LEMMA AbandonedHandled ==
  ASSUME NEW c, NEW r \in Connection, r.cli = c, NEW how \in {"closed", "leaked"}
  PROVE  Handled(c, r, Abandoned(r, how))
  BY DEF Abandoned, Handled, Connection

LEMMA GoneHandled ==
  ASSUME NEW c \in Clients, conn \in [Conns -> Connection], conn' = ClientGone(conn, c)
  PROVE  \A k \in Conns : Handled(c, conn[k], conn'[k])
<1> SUFFICES ASSUME NEW k \in Conns PROVE Handled(c, conn[k], conn'[k])
  OBVIOUS
<1>1. conn'[k] = IF conn[k].cli = c /\ conn[k].peer \in {"open", "leaked"}
                 THEN Abandoned(conn[k], "closed") ELSE conn[k]
  BY DEF ClientGone
<1>2. Handled(c, conn[k], conn[k])
  BY DEF Handled
<1> QED
  BY <1>1, <1>2, AbandonedHandled

LEMMA GoneType ==
  LET t == [Prompt EXCEPT !.pc = "gone"]
  IN /\ t \in Client /\ t.pc = "gone" /\ t.op = "none"
     /\ t.prim = NoSock /\ t.sec = NoSock
  BY PromptType DEF Prompt, Client

(***************************************************************************)
(* The commands that a user types, and EXIT.                               *)
(***************************************************************************)
LEMMA CommandStep ==
  ASSUME StorageInv, NEW c \in Clients, Command(c)
  PROVE  StorageInv'
<1>1. /\ cl \in [Clients -> Client] /\ log \in Seq(PutRecord)
      /\ conn \in [Conns -> Connection]
      /\ stored \subseteq DOMAIN log /\ timeouts \in Nat
      /\ dirs \in [Servers -> SUBSET Dirs]
  BY DEF StorageInv, TypeOK, ClientTypeOK, ServerTypeOK
<1>2. \A k \in Conns : Handled(c, conn[k], conn[k])
  BY DEF Handled
<1>3. ASSUME NEW op \in {"PUT", "GET", "LIST", "MKDIR"},
             NEW f \in Files \cup {None}, NEW d \in Dirs
      PROVE  LET t == Begin(op, f, d)
             IN /\ t \in Client /\ t.pc = "connect" /\ t.op = op /\ t.file = f
                /\ t.prim = NoSock /\ t.sec = NoSock
  BY PromptType DEF Begin, Prompt, Client
<1>4. ASSUME UNCHANGED log PROVE LogGrows
  BY <1>1, <1>4 DEF LogGrows
<1>5. ASSUME NEW t \in Client, cl' = [cl EXCEPT ![c] = t],
             t.prim = NoSock, t.sec = NoSock, t.pc \in {"connect", "gone"}
      PROVE  cl'[c] = t /\ SocketsOK(c)'
  BY <1>1, <1>5 DEF SocketsOK
<1>6. CASE startPut(c)
  <2>1. PICK f \in Files, b \in Bins :
          /\ log' = Append(log, [file |-> f, bin |-> b, auth |-> c \in Authorized,
                                  room |-> \A s \in Servers : DirOf[f] \in dirs[s]])
          /\ cl' = [cl EXCEPT ![c] = [Begin("PUT", f, DirOf[f]) EXCEPT !.ver = Len(log) + 1]]
    BY <1>6 DEF startPut
  <2> DEFINE p == [file |-> f, bin |-> b, auth |-> c \in Authorized,
                   room |-> \A s \in Servers : DirOf[f] \in dirs[s]]
             t == [Begin("PUT", f, DirOf[f]) EXCEPT !.ver = Len(log) + 1]
  <2>2. p \in PutRecord /\ p.file = f /\ p.auth = (c \in Authorized)
    BY DEF PutRecord
  <2>3. Len(log) \in Nat
    BY <1>1
  <2>4. /\ t \in Client /\ t.pc = "connect" /\ t.op = "PUT" /\ t.file = f
        /\ t.ver = Len(log) + 1 /\ t.prim = NoSock /\ t.sec = NoSock
    BY <1>3, <2>3 DEF Client
  <2>5. log' = Append(log, p) /\ cl' = [cl EXCEPT ![c] = t]
    BY <2>1
  <2> HIDE DEF p, t
  <2>6. LogGrows /\ Len(log) + 1 \in DOMAIN log' /\ log'[Len(log) + 1] = p
    BY <1>1, <2>2, <2>5 DEF LogGrows
  <2>7. cl'[c] = t /\ SocketsOK(c)'
    BY <1>5, <2>4, <2>5
  <2>8. CommandOK(c)'
    BY <2>2, <2>4, <2>6, <2>7 DEF CommandOK
  <2>9. stored' \subseteq DOMAIN log' /\ timeouts' \in Nat /\ UNCHANGED <<conn, serverVars>>
    BY <1>1, <1>6, <2>6 DEF startPut, LogGrows
  <2> QED
    BY <1>1, <1>2, <2>4, <2>5, <2>6, <2>7, <2>8, <2>9, HandledKeeps
<1>7. ASSUME NEW t \in Client, cl' = [cl EXCEPT ![c] = t],
             t.prim = NoSock, t.sec = NoSock, t.pc \in {"connect", "gone"},
             t.op = "GET" => t.file \in Files, t.op # "PUT",
             t.pc = "connect" => t.op # "none",
             conn' \in [Conns -> Connection],
             \A k \in Conns : Handled(c, conn[k], conn'[k]),
             UNCHANGED <<serverVars, log, stored, timeouts>>
      PROVE  StorageInv'
  <2>1. cl'[c] = t /\ SocketsOK(c)'
    BY <1>5, <1>7
  <2>2. CommandOK(c)'
    BY <1>7, <2>1 DEF CommandOK
  <2> QED
    BY <1>1, <1>4, <1>7, <2>1, <2>2, HandledKeeps
<1>8. CASE startGet(c)
  <2>1. PICK f \in Files :
          cl' = [cl EXCEPT ![c] = [Begin("GET", f, DirOf[f]) EXCEPT !.since = StoredOf(f)]]
    BY <1>8 DEF startGet
  <2>2. StoredOf(f) \subseteq Nat
    BY <1>1 DEF StoredOf
  <2> DEFINE t == [Begin("GET", f, DirOf[f]) EXCEPT !.since = StoredOf(f)]
  <2>3. /\ t \in Client /\ t.pc = "connect" /\ t.op = "GET" /\ t.file = f
        /\ t.prim = NoSock /\ t.sec = NoSock
    BY <1>3, <2>2 DEF Client
  <2> HIDE DEF t
  <2> QED
    BY <1>1, <1>2, <1>7, <1>8, <2>1, <2>3 DEF startGet, t
<1>9. CASE startList(c)
  <2>1. PICK d \in Dirs : cl' = [cl EXCEPT ![c] = Begin("LIST", None, d)]
    BY <1>9 DEF startList
  <2> QED
    <3> DEFINE t == Begin("LIST", None, d)
    <3>1. /\ t \in Client /\ t.pc = "connect" /\ t.op = "LIST"
          /\ t.prim = NoSock /\ t.sec = NoSock
      BY <1>3
    <3>2. cl' = [cl EXCEPT ![c] = t] /\ UNCHANGED <<conn, serverVars, log, stored, timeouts>>
      BY <1>9, <2>1 DEF startList
    <3> HIDE DEF t
    <3> QED
      BY <1>1, <1>2, <1>7, <3>1, <3>2
<1>10. CASE startMkDir(c)
  <2>1. PICK d \in Dirs : cl' = [cl EXCEPT ![c] = Begin("MKDIR", None, d)]
    BY <1>10 DEF startMkDir
  <2> QED
    <3> DEFINE t == Begin("MKDIR", None, d)
    <3>1. /\ t \in Client /\ t.pc = "connect" /\ t.op = "MKDIR"
          /\ t.prim = NoSock /\ t.sec = NoSock
      BY <1>3
    <3>2. cl' = [cl EXCEPT ![c] = t] /\ UNCHANGED <<conn, serverVars, log, stored, timeouts>>
      BY <1>10, <2>1 DEF startMkDir
    <3> HIDE DEF t
    <3> QED
      BY <1>1, <1>2, <1>7, <3>1, <3>2
<1>11. CASE exit(c)
  BY <1>1, <1>7, <1>11, GoneHandled, GoneType, TableTypes DEF exit
<1> QED
  BY <1>6, <1>8, <1>9, <1>10, <1>11 DEF Command

\* The facts that every step of a command uses.
LEMMA ClientFacts ==
  ASSUME StorageInv, NEW c \in Clients
  PROVE  /\ cl \in [Clients -> Client] /\ cl[c] \in Client
         /\ conn \in [Conns -> Connection]
         /\ stored \subseteq DOMAIN log /\ timeouts \in Nat
         /\ CommandOK(c) /\ SocketsOK(c)
         /\ cl[c].prim # NoSock => cl[c].prim \in Conns
         /\ cl[c].sec # NoSock => cl[c].sec \in Conns
         /\ cl[c].n \in 0..3
         /\ \A k \in Conns : Handled(c, conn[k], conn[k])
         /\ UNCHANGED log => LogGrows
<1>1. /\ cl \in [Clients -> Client] /\ cl[c] \in Client
      /\ conn \in [Conns -> Connection]
      /\ stored \subseteq DOMAIN log /\ timeouts \in Nat /\ log \in Seq(PutRecord)
  BY DEF StorageInv, TypeOK, ClientTypeOK, ServerTypeOK
<1>2. cl[c].prim \in 0..MaxConns /\ cl[c].sec \in 0..MaxConns /\ cl[c].n \in 0..3
  BY <1>1 DEF Client
<1>3. /\ cl[c].prim # NoSock => cl[c].prim \in Conns
      /\ cl[c].sec # NoSock => cl[c].sec \in Conns
  BY <1>2 DEF NoSock, Conns
<1>4. CommandOK(c) /\ SocketsOK(c)
  BY DEF StorageInv, ClientsOK
<1>5. \A k \in Conns : Handled(c, conn[k], conn[k])
  BY DEF Handled
<1>6. UNCHANGED log => LogGrows
  BY <1>1 DEF LogGrows
<1> QED
  BY <1>1, <1>2, <1>3, <1>4, <1>5, <1>6

(***************************************************************************)
(* A step in which the client keeps its sockets and only moves on.         *)
(***************************************************************************)
LEMMA MovesOn ==
  ASSUME StorageInv, NEW c \in Clients,
         NEW pc \in {"connect2", "send", "recv", "send2", "recv2", "spin"},
         cl' = [cl EXCEPT ![c].pc = pc],
         cl[c].pc \notin {"prompt", "gone"},
         pc \in {"connect2", "send2", "recv2"} => cl[c].op = "PUT",
         pc = "recv" => cl[c].prim # NoSock,
         pc = "recv2" => cl[c].sec # NoSock,
         pc = "connect2" => cl[c].sec = NoSock,
         conn' \in [Conns -> Connection],
         \A k \in Conns : Handled(c, conn[k], conn'[k]),
         \A k \in {cl[c].prim, cl[c].sec} \ {NoSock} :
           /\ conn'[k].cli = conn[k].cli
           /\ conn'[k].peer = conn[k].peer
           /\ conn'[k].srv = conn[k].srv,
         UNCHANGED <<serverVars, log>>,
         stored' \subseteq DOMAIN log, timeouts' \in Nat
  PROVE  StorageInv'
<1>1. cl[c] \in Client /\ CommandOK(c) /\ SocketsOK(c) /\ cl \in [Clients -> Client]
  BY ClientFacts
<1> DEFINE t == [cl[c] EXCEPT !.pc = pc]
<1>2. t \in Client /\ cl' = [cl EXCEPT ![c] = t] /\ cl'[c] = t
  <2>1. t \in Client
    BY <1>1 DEF Client
  <2>2. cl' = [cl EXCEPT ![c] = t]
    OBVIOUS
  <2> HIDE DEF t
  <2> QED
    BY <1>1, <2>1, <2>2
<1>3. /\ t.pc = pc /\ t.op = cl[c].op /\ t.file = cl[c].file /\ t.ver = cl[c].ver
      /\ t.n = cl[c].n /\ t.prim = cl[c].prim /\ t.sec = cl[c].sec
  BY <1>1 DEF Client
<1> HIDE DEF t
<1>4. CommandOK(c)'
  BY <1>1, <1>2, <1>3 DEF CommandOK
<1>5. Target(c)' = Target(c)
  BY <1>2, <1>3 DEF Target
<1>6. SocketsOK(c)'
  BY <1>1, <1>2, <1>3, <1>5 DEF SocketsOK, Holds
<1> QED
  BY <1>2, <1>4, <1>6, ClientFacts, HandledKeeps

\* A free slot becomes a connection of client c.
LEMMA OpenedHandled ==
  ASSUME NEW c \in Clients, NEW s \in Servers, NEW k \in Conns,
         conn \in [Conns -> Connection], conn[k].phase = "free",
         NEW q \in {Opened(s, c), Abandoned(Opened(s, c), "closed")},
         conn' = [conn EXCEPT ![k] = q]
  PROVE  /\ conn' \in [Conns -> Connection]
         /\ \A j \in Conns : Handled(c, conn[j], conn'[j])
<1>1. q \in Connection
  BY OpenedType, AbandonedType
<1>2. Handled(c, conn[k], q)
  <2>1. LET o == Opened(s, c)
        IN /\ o.phase = "request" /\ o.cli = c /\ o.req = NoRequest /\ o.peer = "open"
           /\ [o EXCEPT !.peer = "closed"].phase = "request"
           /\ [o EXCEPT !.peer = "closed"].cli = c
           /\ [o EXCEPT !.peer = "closed"].req = NoRequest
           /\ [o EXCEPT !.peer = "closed"].peer = "closed"
    BY DEF Opened, Free
  <2>2. q \in {Opened(s, c), [Opened(s, c) EXCEPT !.peer = "closed"]}
    BY <2>1 DEF Abandoned, Live
  <2> QED
    BY <2>1, <2>2 DEF Handled
<1>3. ASSUME NEW j \in Conns PROVE Handled(c, conn[j], conn'[j])
  <2>1. CASE j = k
    BY <1>2, <2>1
  <2>2. CASE j # k
    BY <2>2 DEF Handled
  <2> QED
    BY <2>1, <2>2
<1> QED
  BY <1>1, <1>3

(***************************************************************************)
(* handlePut's two serverIndex computations name a server.                 *)
(***************************************************************************)
LEMMA PutServers ==
  ASSUME StorageInv, NEW c \in Clients, cl[c].op = "PUT"
  PROVE  /\ Primary(cl[c].n, log[cl[c].ver].bin) \in Servers
         /\ Secondary(cl[c].n, log[cl[c].ver].bin) \in Servers
<1>1. cl[c].ver \in DOMAIN log /\ log \in Seq(PutRecord) /\ cl[c].n \in 0..3
  BY ClientFacts DEF CommandOK, StorageInv, TypeOK, ClientTypeOK
<1>2. log[cl[c].ver] \in PutRecord
  BY <1>1
<1>3. log[cl[c].ver].bin \in 0..3
  BY <1>2 DEF PutRecord
<1>4. /\ (cl[c].n + log[cl[c].ver].bin) % 4 \in 0..3
      /\ (cl[c].n + log[cl[c].ver].bin + 1) % 4 \in 0..3
  BY <1>1, <1>3
<1> QED
  BY <1>4 DEF Primary, Secondary, Servers

(***************************************************************************)
(* connectToServer for the primary of a PUT and the only server of another *)
(* command.                                                                *)
(***************************************************************************)
LEMMA ConnectFirstStep ==
  ASSUME StorageInv, NEW c \in Clients, connectFirst(c)
  PROVE  StorageInv'
<1> DEFINE r == cl[c]
           after == IF r.op = "PUT" THEN "connect2" ELSE "send"
<1>1. /\ r.pc = "connect" /\ UNCHANGED <<serverVars, log, stored, timeouts>>
  BY DEF connectFirst
<1>2. /\ r \in Client /\ CommandOK(c) /\ SocketsOK(c) /\ r.prim = NoSock /\ r.sec = NoSock
      /\ cl \in [Clients -> Client] /\ conn \in [Conns -> Connection]
      /\ stored \subseteq DOMAIN log /\ timeouts \in Nat /\ r.n \in 0..3
  BY <1>1, ClientFacts DEF SocketsOK
<1>3. r.op \in {"PUT", "GET", "LIST", "MKDIR"}
  BY <1>1, <1>2 DEF CommandOK, Client
<1>4. Target(c) \in Servers
  <2>1. CASE r.op = "PUT"
    BY <2>1, PutServers DEF Target
  <2>2. CASE r.op # "PUT"
    BY <1>2, <2>2 DEF Target, Servers
  <2> QED
    BY <2>1, <2>2
<1>5. ASSUME NEW k \in Conns, FreeSlot(k),
             conn' = [conn EXCEPT ![k] = Opened(Target(c), c)],
             cl' = [cl EXCEPT ![c].pc = after, ![c].prim = k]
      PROVE  StorageInv'
  <2>1. /\ conn' \in [Conns -> Connection]
        /\ \A j \in Conns : Handled(c, conn[j], conn'[j])
    BY <1>2, <1>4, <1>5, OpenedHandled DEF FreeSlot
  <2> DEFINE t == [r EXCEPT !.pc = after, !.prim = k]
  <2>0. k \in 0..MaxConns
    BY DEF Conns
  <2>2. /\ t \in Client /\ cl' = [cl EXCEPT ![c] = t] /\ cl'[c] = t
    <3>0. after \in {"connect2", "send"}
      OBVIOUS
    <3> HIDE DEF after
    <3>1. t \in Client
      BY <1>2, <2>0, <3>0 DEF Client
    <3>2. cl' = [cl EXCEPT ![c] = t]
      BY <1>2, <1>5 DEF Client
    <3> HIDE DEF t
    <3> QED
      BY <1>2, <3>1, <3>2
  <2>3. /\ t.pc = after /\ t.op = r.op /\ t.file = r.file /\ t.ver = r.ver
        /\ t.n = r.n /\ t.prim = k /\ t.sec = NoSock
    BY <1>2 DEF Client
  <2> HIDE DEF t
  <2>4. Target(c)' = Target(c)
    BY <1>1, <2>2, <2>3 DEF Target
  <2>5. Holds(c, k, Target(c))'
    BY <1>2, <1>5, <2>4 DEF Holds, Opened, Free
  <2>6. CommandOK(c)'
    BY <1>1, <1>2, <1>3, <2>2, <2>3 DEF CommandOK
  <2>7. SocketsOK(c)'
    BY <2>2, <2>3, <2>5 DEF SocketsOK
  <2> QED
    BY <1>1, <1>2, <2>1, <2>2, <2>6, <2>7, ClientFacts, HandledKeeps
<1>6. ASSUME UNCHANGED conn, NEW t \in Client, Settled(t, r), cl' = [cl EXCEPT ![c] = t]
      PROVE  StorageInv'
  BY <1>1, <1>2, <1>6, ClientFacts, SettledStep
<1>7. ASSUME UNCHANGED conn, NEW pc \in {"connect2", "send"},
             pc = "connect2" => r.op = "PUT",
             cl' = [cl EXCEPT ![c] = [r EXCEPT !.pc = pc]]
      PROVE  StorageInv'
  BY <1>1, <1>2, <1>7, ClientFacts, MovesOn
<1>8. NextTurn(r) \in Client /\ Settled(NextTurn(r), r)
  BY <1>2, TurnTypes, TurnsSettle
<1>9. NotDelivered(r) \in Client /\ Settled(NotDelivered(r), r)
  BY <1>2, NotDeliveredOK
<1>10. ASSUME UNCHANGED conn, cl' = [cl EXCEPT ![c] =
                CASE r.op = "PUT"   -> [r EXCEPT !.pc = "connect2"]
                  [] r.op = "GET"   -> NotDelivered(r)
                  [] r.op = "LIST"  -> NextTurn(r)
                  [] r.op = "MKDIR" -> [r EXCEPT !.pc = "send"]]
       PROVE  StorageInv'
  BY <1>3, <1>6, <1>7, <1>8, <1>9, <1>10
<1> QED
  BY <1>5, <1>10 DEF connectFirst

(***************************************************************************)
(* connectToServer for the secondary of a PUT.                             *)
(***************************************************************************)
LEMMA ConnectSecondStep ==
  ASSUME StorageInv, NEW c \in Clients, connectSecond(c)
  PROVE  StorageInv'
<1> DEFINE r == cl[c]
           s == Secondary(r.n, log[r.ver].bin)
<1>1. /\ r.pc = "connect2" /\ UNCHANGED <<serverVars, log, stored, timeouts>>
  BY DEF connectSecond
<1>2. /\ r \in Client /\ CommandOK(c) /\ SocketsOK(c) /\ r.sec = NoSock /\ r.op = "PUT"
      /\ cl \in [Clients -> Client] /\ conn \in [Conns -> Connection]
      /\ stored \subseteq DOMAIN log /\ timeouts \in Nat
      /\ r.prim # NoSock => r.prim \in Conns
  BY <1>1, ClientFacts DEF SocketsOK, CommandOK
<1>3. s \in Servers
  BY <1>2, PutServers
<1>4. NextTurn(r) \in Client /\ Settled(NextTurn(r), r)
  BY <1>2, TurnTypes, TurnsSettle
<1>5. ASSUME NEW k \in Conns, FreeSlot(k), r.prim # NoSock,
             conn' = [conn EXCEPT ![k] = Opened(s, c)],
             cl' = [cl EXCEPT ![c].pc = "send", ![c].sec = k]
      PROVE  StorageInv'
  <2>1. /\ conn' \in [Conns -> Connection]
        /\ \A j \in Conns : Handled(c, conn[j], conn'[j])
    BY <1>2, <1>3, <1>5, OpenedHandled DEF FreeSlot
  <2> DEFINE t == [r EXCEPT !.pc = "send", !.sec = k]
  <2>2. k \in 0..MaxConns
    BY DEF Conns
  <2>3. t \in Client /\ cl' = [cl EXCEPT ![c] = t]
    BY <1>2, <1>5, <2>2, ZenonT(60) DEF Client
  <2>4. /\ t.pc = "send" /\ t.op = r.op /\ t.file = r.file /\ t.ver = r.ver
        /\ t.n = r.n /\ t.prim = r.prim /\ t.sec = k
    BY <1>2 DEF Client
  <2> HIDE DEF t
  <2>5. cl'[c] = t
    BY <1>2, <2>3
  <2>6. Target(c)' = Target(c)
    BY <1>1, <2>4, <2>5 DEF Target
  <2>7. Holds(c, k, s)'
    <3>1. s' = s
      BY <1>1, <2>4, <2>5
    <3>2. /\ conn'[k] = Opened(s, c) /\ Opened(s, c).cli = c
          /\ Opened(s, c).peer = "open" /\ Opened(s, c).srv = s
      BY <1>2, <1>5 DEF Opened, Free
    <3> QED
      BY <3>1, <3>2 DEF Holds
  <2>8. Holds(c, r.prim, Target(c))
    BY <1>2, <1>5 DEF SocketsOK
  <2>9. k # r.prim
    <3>1. conn[k].phase = "free"
      BY <1>5 DEF FreeSlot
    <3>2. conn[k].peer = "none"
      BY <3>1 DEF StorageInv, SlotsOK, Free
    <3> QED
      BY <2>8, <3>2 DEF Holds
  <2>10. Holds(c, r.prim, Target(c))'
    BY <1>2, <1>5, <2>6, <2>8, <2>9 DEF Holds
  <2>11. CommandOK(c)'
    BY <1>1, <1>2, <2>4, <2>5 DEF CommandOK
  <2>12. SocketsOK(c)'
    BY <1>1, <1>2, <2>4, <2>5, <2>7, <2>9, <2>10 DEF SocketsOK
  <2> QED
    BY <1>1, <1>2, <2>1, <2>3, <2>11, <2>12, ClientFacts, HandledKeeps
<1>6. ASSUME NEW k \in Conns, FreeSlot(k),
             conn' = [conn EXCEPT ![k] = Abandoned(Opened(s, c), "closed")],
             cl' = [cl EXCEPT ![c] = NextTurn(r)]
      PROVE  StorageInv'
  <2>1. /\ conn' \in [Conns -> Connection]
        /\ \A j \in Conns : Handled(c, conn[j], conn'[j])
    BY <1>2, <1>3, <1>6, OpenedHandled DEF FreeSlot
  <2> QED
    BY <1>1, <1>2, <1>4, <1>6, <2>1, SettledStep
<1>7. ASSUME UNCHANGED conn, cl' = [cl EXCEPT ![c] = [r EXCEPT !.pc = "send"]]
      PROVE  StorageInv'
  BY <1>1, <1>2, <1>7, ClientFacts, MovesOn
<1>8. ASSUME UNCHANGED conn, cl' = [cl EXCEPT ![c] = NextTurn(r)]
      PROVE  StorageInv'
  BY <1>1, <1>2, <1>4, <1>8, ClientFacts, SettledStep
<1> QED
  BY <1>5, <1>6, <1>7, <1>8 DEF connectSecond

(***************************************************************************)
(* sendRequest: the request of a PUT reaches a server that the PUT chose.  *)
(***************************************************************************)
LEMMA SendStep ==
  ASSUME StorageInv, NEW c \in Clients,
         sendRequest(c) \/ sendRequestSigpipe(c) \/ sendRequestNoSock(c)
  PROVE  StorageInv'
<1> DEFINE r == cl[c]
           k == Sock(c)
<1>1. r.pc \in {"send", "send2"} /\ UNCHANGED <<serverVars, log, stored, timeouts>>
  BY DEF sendRequest, sendRequestSigpipe, sendRequestNoSock
<1>2. /\ r \in Client /\ CommandOK(c) /\ SocketsOK(c)
      /\ cl \in [Clients -> Client] /\ conn \in [Conns -> Connection]
      /\ stored \subseteq DOMAIN log /\ timeouts \in Nat
      /\ r.prim # NoSock => r.prim \in Conns
      /\ r.sec # NoSock => r.sec \in Conns
  BY ClientFacts
<1>3. CASE sendRequestNoSock(c)
  BY <1>1, <1>2, <1>3, ClientFacts, MovesOn DEF sendRequestNoSock
<1>4. CASE sendRequestSigpipe(c)
  <2> DEFINE t == [Prompt EXCEPT !.pc = "gone"]
  <2>1. /\ t \in Client /\ t.pc = "gone" /\ t.op = "none"
        /\ t.prim = NoSock /\ t.sec = NoSock
    BY GoneType
  <2>2. cl' = [cl EXCEPT ![c] = t] /\ conn' = ClientGone(conn, c)
    BY <1>4 DEF sendRequestSigpipe
  <2> HIDE DEF t
  <2>3. CommandOK(c)' /\ SocketsOK(c)'
    BY <1>2, <2>1, <2>2 DEF CommandOK, SocketsOK
  <2> QED
    BY <1>1, <1>2, <2>1, <2>2, <2>3, GoneHandled, TableTypes, ClientFacts, HandledKeeps
<1>5. CASE sendRequest(c)
  <2>1. k # NoSock /\ k \in Conns
    BY <1>2, <1>5 DEF sendRequest, Sock
  <2>2. /\ Sent(r.pc) \in {"recv", "recv2"}
        /\ Sent(r.pc) = "recv" => r.pc = "send" /\ k = r.prim
        /\ Sent(r.pc) = "recv2" => r.pc = "send2" /\ k = r.sec
    BY <1>1 DEF Sent, Sock
  <2>3. cl' = [cl EXCEPT ![c].pc = Sent(r.pc)]
    BY <1>2, <1>5 DEF sendRequest
  <2>4. r.pc = "send2" => r.op = "PUT"
    BY <1>2 DEF CommandOK
  <2>5. CASE UNCHANGED conn
    BY <1>1, <1>2, <2>1, <2>2, <2>3, <2>4, <2>5, ClientFacts, MovesOn
  <2>6. CASE /\ conn[k].phase = "request"
             /\ conn' = [conn EXCEPT ![k].phase = "handle", ![k].req = RequestOf(c)]
    <3> DEFINE q == [conn[k] EXCEPT !.phase = "handle", !.req = RequestOf(c)]
    <3>1. Holds(c, k, Target(c)) \/ (r.op = "PUT" /\ Holds(c, k, Secondary(r.n, log[r.ver].bin)))
      BY <1>1, <1>2, <2>1 DEF Sock, SocketsOK
    <3>2. RequestOf(c) \in Request
      <4>1. r.n \in Pieces /\ r.op \in {"PUT", "GET", "LIST", "MKDIR"}
        BY <1>1, <1>2 DEF Client, CommandOK, Pieces
      <4> QED
        BY <1>2, <4>1 DEF RequestOf, Request, Client, Pieces
    <3>3. q \in Connection /\ conn' = [conn EXCEPT ![k] = q]
      <4>1. conn[k] \in Connection
        BY <1>2, <2>1
      <4>2. q \in Connection
        BY <3>2, <4>1 DEF Connection, Live
      <4>3. conn' = [conn EXCEPT ![k] = q]
        BY <2>6, <4>1 DEF Connection
      <4> QED
        BY <4>2, <4>3
    <3>4. /\ q.phase = "handle" /\ q.req = RequestOf(c) /\ q.srv = conn[k].srv
          /\ q.cli = conn[k].cli /\ q.peer = conn[k].peer
      BY <1>2, <2>1 DEF Connection
    <3> HIDE DEF q
    <3>5. /\ RequestOf(c).method = r.op /\ RequestOf(c).file = r.file
          /\ RequestOf(c).ver = r.ver /\ RequestOf(c).auth = (c \in Authorized)
          /\ r.op = "PUT" => RequestOf(c).piece = r.n
      BY DEF RequestOf
    <3>6. r.op = "PUT" => q.srv \in Holders(r.n, log[r.ver].bin)
      BY <3>1, <3>4 DEF Holds, Holders, Target
    <3>7. RequestOK(q)
      BY <1>2, <3>4, <3>5, <3>6 DEF RequestOK, CommandOK
    <3>8. Handled(c, conn[k], q)
      BY <2>6, <3>1, <3>4, <3>7 DEF Handled, Holds
    <3>9. conn' \in [Conns -> Connection] /\ \A j \in Conns : Handled(c, conn[j], conn'[j])
      BY <1>2, <2>1, <3>3, <3>8, ClientFacts
    <3>10. \A j \in Conns : /\ conn'[j].cli = conn[j].cli
                            /\ conn'[j].peer = conn[j].peer
                            /\ conn'[j].srv = conn[j].srv
      BY <1>2, <2>1, <3>3, <3>4
    <3>11. \A j \in {r.prim, r.sec} \ {NoSock} : /\ conn'[j].cli = conn[j].cli
                                                 /\ conn'[j].peer = conn[j].peer
                                                 /\ conn'[j].srv = conn[j].srv
      BY <1>2, <3>10
    <3>12. /\ Sent(r.pc) = "recv" => r.prim # NoSock
           /\ Sent(r.pc) = "recv2" => r.sec # NoSock /\ r.op = "PUT"
      BY <2>1, <2>2, <2>4
    <3> QED
      BY <1>1, <1>2, <2>2, <2>3, <3>9, <3>11, <3>12, MovesOn
  <2> QED
    BY <1>5, <2>5, <2>6 DEF sendRequest
<1> QED
  BY <1>3, <1>4, <1>5

\* The client has read from the connection, at most.
Marked(r, q) ==
  \/ q = r
  \/ /\ r.phase \in Live /\ q.phase = r.phase /\ q.srv = r.srv /\ q.cli = r.cli
     /\ q.peer = r.peer /\ q.req = r.req

LEMMA MarkedHandled ==
  ASSUME NEW c, NEW r \in Connection, NEW q \in Connection, Marked(r, q),
         r.cli = c, r.peer = "open", NEW how \in {"closed", "leaked"}
  PROVE  /\ Handled(c, r, q)
         /\ Handled(c, r, Abandoned(q, how))
<1>1. CASE q = r
  BY <1>1, AbandonedHandled DEF Handled
<1>2. CASE /\ r.phase \in Live /\ q.phase = r.phase /\ q.srv = r.srv /\ q.cli = r.cli
           /\ q.peer = r.peer /\ q.req = r.req
  BY <1>2 DEF Handled, Abandoned, Connection
<1> QED
  BY <1>1, <1>2 DEF Marked

(***************************************************************************)
(* What the caller of getResponse does with an answer, or without one.     *)
(***************************************************************************)
LEMMA ContinueStep ==
  ASSUME StorageInv, NEW c \in Clients, Receiving(c),
         NEW table \in [Conns -> Connection], NEW got \in BOOLEAN,
         \A k \in Conns : table[k] = conn[k] \/ (k = Sock(c) /\ Marked(conn[k], table[k])),
         Continue(c, table, got),
         UNCHANGED <<serverVars, log>>,
         stored' \subseteq DOMAIN log, timeouts' \in Nat
  PROVE  StorageInv'
<1> DEFINE r == cl[c]
           k == Sock(c)
<1>1. r.pc \in {"recv", "recv2"}
  BY DEF Receiving
<1>2. /\ r \in Client /\ CommandOK(c) /\ SocketsOK(c)
      /\ cl \in [Clients -> Client] /\ conn \in [Conns -> Connection]
      /\ r.prim # NoSock => r.prim \in Conns
      /\ r.sec # NoSock => r.sec \in Conns
  BY ClientFacts
<1>3. /\ k # NoSock /\ k \in Conns
      /\ r.pc = "recv2" => r.op = "PUT"
      /\ r.op # "PUT" => r.sec = NoSock
  BY <1>1, <1>2 DEF Sock, SocketsOK, CommandOK
<1>4. \A j \in {r.prim, r.sec} \ {NoSock} :
        j \in Conns /\ conn[j].cli = c /\ conn[j].peer = "open"
  BY <1>2 DEF SocketsOK, Holds
<1>5. k \in {r.prim, r.sec}
  BY DEF Sock
<1>6. \A j \in Conns : Marked(conn[j], table[j])
  BY DEF Marked
<1>7. ASSUME NEW j \in Conns, j \in {r.prim, r.sec}, NEW how \in {"closed", "leaked"}
      PROVE  /\ Handled(c, conn[j], table[j])
             /\ Handled(c, conn[j], Abandoned(table[j], how))
  <2>1. conn[j] \in Connection /\ table[j] \in Connection /\ j # NoSock
    BY <1>2 DEF Conns, NoSock
  <2> QED
    BY <1>4, <1>6, <1>7, <2>1, MarkedHandled
<1>8. \A j \in Conns : Handled(c, conn[j], table[j])
  <2>1. ASSUME NEW j \in Conns, j # k PROVE Handled(c, conn[j], table[j])
    BY <2>1 DEF Handled
  <2> QED
    BY <1>3, <1>5, <1>7, <2>1
<1>9. ASSUME NEW S \in SUBSET {r.prim, r.sec}, conn' = Closing(table, S)
      PROVE  /\ conn' \in [Conns -> Connection]
             /\ \A j \in Conns : Handled(c, conn[j], conn'[j])
  <2>1. conn' \in [Conns -> Connection]
    BY <1>9, TableTypes
  <2>2. \A j \in Conns : conn'[j] = IF j \in S THEN Abandoned(table[j], "closed") ELSE table[j]
    BY <1>9 DEF Closing
  <2> QED
    BY <1>7, <1>8, <1>9, <2>1, <2>2
<1>10. ASSUME conn' = Leaking(table, k)
       PROVE  /\ conn' \in [Conns -> Connection]
              /\ \A j \in Conns : Handled(c, conn[j], conn'[j])
  <2>1. conn' \in [Conns -> Connection]
    BY <1>3, <1>10, TableTypes
  <2>2. \A j \in Conns : conn'[j] = IF j = k THEN Abandoned(table[j], "leaked") ELSE table[j]
    BY <1>10 DEF Leaking
  <2> QED
    BY <1>3, <1>5, <1>7, <1>8, <2>1, <2>2
<1>11. ASSUME NEW t \in Client, Settled(t, r), cl' = [cl EXCEPT ![c] = t],
              conn' \in [Conns -> Connection],
              \A j \in Conns : Handled(c, conn[j], conn'[j])
       PROVE  StorageInv'
  BY <1>1, <1>11, SettledStep
<1>12. NextTurn(r) \in Client /\ Settled(NextTurn(r), r)
  BY <1>2, TurnTypes, TurnsSettle
<1>13. CASE r.op = "PUT" /\ r.pc = "recv" /\ cl' = [cl EXCEPT ![c].pc = "send2"] /\ conn' = table
  <2>1. \A j \in Conns : /\ table[j].cli = conn[j].cli
                         /\ table[j].peer = conn[j].peer
                         /\ table[j].srv = conn[j].srv
    BY <1>6 DEF Marked
  <2>2. \A j \in {r.prim, r.sec} \ {NoSock} : /\ conn'[j].cli = conn[j].cli
                                              /\ conn'[j].peer = conn[j].peer
                                              /\ conn'[j].srv = conn[j].srv
    BY <1>4, <1>13, <2>1
  <2>3. \A j \in Conns : Handled(c, conn[j], conn'[j])
    BY <1>8, <1>13
  <2> QED
    BY <1>13, <2>2, <2>3, MovesOn
<1>14. CASE /\ cl' = [cl EXCEPT ![c] = NextTurn(r)]
            /\ conn' = Closing(table, {r.prim, r.sec}) \/ conn' = Closing(table, {k})
  BY <1>5, <1>9, <1>11, <1>12, <1>14
<1>15. CASE /\ r.op = "GET"
            /\ cl' = [cl EXCEPT ![c] = IF got /\ table[k].reply = "ok"
                                       THEN Delivered(r, table[k].found) ELSE NotDelivered(r)]
            /\ conn' = Closing(table, {k})
  <2>1. table[k].found \in [Pieces -> Content]
    BY <1>3 DEF Connection
  <2>2. /\ Delivered(r, table[k].found) \in Client
        /\ Settled(Delivered(r, table[k].found), r)
        /\ NotDelivered(r) \in Client /\ Settled(NotDelivered(r), r)
    BY <1>2, <1>3, <1>15, <2>1, DeliveredOK, NotDeliveredOK
  <2> QED
    BY <1>5, <1>9, <1>11, <1>15, <2>2
<1>16. CASE /\ r.op = "LIST"
            /\ cl' = [cl EXCEPT ![c] = NextTurn(
                 [r EXCEPT !.listing = IF got THEN @ \cup table[k].list ELSE @])]
            /\ conn' = IF r.n = 3 THEN Closing(table, {k}) ELSE Leaking(table, k)
  <2> DEFINE l == IF got THEN r.listing \cup table[k].list ELSE r.listing
             a == [r EXCEPT !.listing = l]
  <2>1. l \subseteq Files \X Pieces
    BY <1>2, <1>3 DEF Connection, Client
  <2> HIDE DEF l
  <2>2. a \in Client /\ a.op = r.op /\ a.file = r.file /\ a.ver = r.ver
    BY <1>2, <2>1 DEF Client
  <2>3. cl' = [cl EXCEPT ![c] = NextTurn(a)]
    BY <1>16 DEF l
  <2> HIDE DEF a
  <2>4. NextTurn(a) \in Client /\ Settled(NextTurn(a), a)
    BY <2>2, TurnTypes, TurnsSettle
  <2>5. Settled(NextTurn(a), r)
    BY <2>2, <2>4 DEF Settled
  <2>6. conn' \in [Conns -> Connection] /\ \A j \in Conns : Handled(c, conn[j], conn'[j])
    BY <1>5, <1>9, <1>10, <1>16
  <2> QED
    BY <1>11, <2>3, <2>4, <2>5, <2>6
<1> QED
  BY <1>13, <1>14, <1>15, <1>16 DEF Continue

LEMMA ReceiveStep ==
  ASSUME StorageInv, NEW c \in Clients,
         getResponse(c) \/ getResponseTimeout(c) \/ getResponseCut(c)
  PROVE  StorageInv'
<1> DEFINE r == cl[c]
           k == Sock(c)
<1>1. r.pc \in {"recv", "recv2"} /\ Receiving(c) /\ UNCHANGED <<serverVars, log>>
  BY DEF getResponse, getResponseTimeout, getResponseCut, Receiving
<1>2. /\ r \in Client /\ CommandOK(c) /\ SocketsOK(c)
      /\ cl \in [Clients -> Client] /\ conn \in [Conns -> Connection]
      /\ stored \subseteq DOMAIN log /\ timeouts \in Nat
      /\ r.prim # NoSock => r.prim \in Conns
      /\ r.sec # NoSock => r.sec \in Conns
  BY ClientFacts
<1>3. k \in Conns
  BY <1>1, <1>2 DEF Sock, SocketsOK
<1>4. CASE getResponse(c)
  <2>1. stored' \subseteq DOMAIN log /\ timeouts' \in Nat
    <3>1. StoresAll(c) => r.ver \in DOMAIN log
      BY <1>2 DEF StoresAll, CommandOK
    <3>2. stored' \in {stored, stored \cup {r.ver}} /\ timeouts' = timeouts
      BY <1>4 DEF getResponse
    <3>3. stored' = stored \/ StoresAll(c)
      BY <1>4 DEF getResponse
    <3> QED
      BY <1>2, <3>1, <3>2, <3>3
  <2>2. ASSUME NEW got \in BOOLEAN, Continue(c, conn, got) PROVE StorageInv'
    BY <1>1, <1>2, <2>1, <2>2, ContinueStep
  <2> QED
    BY <1>4, <2>2 DEF getResponse
<1>5. CASE getResponseTimeout(c)
  <2> DEFINE b == (conn[k].phase = "body")
             q == [conn[k] EXCEPT !.read = b]
             table == [conn EXCEPT ![k] = q]
  <2>0. b \in BOOLEAN
    OBVIOUS
  <2>1. Continue(c, [conn EXCEPT ![k].read = b], FALSE) /\ conn[k].phase \in Live
    BY <1>5 DEF getResponseTimeout
  <2> HIDE DEF b
  <2>2. q \in Connection /\ [conn EXCEPT ![k].read = b] = table
    <3>1. conn[k] \in Connection
      BY <1>2, <1>3
    <3>2. q \in Connection
      BY <2>0, <3>1 DEF Connection
    <3>3. [conn EXCEPT ![k].read = b] = table
      OBVIOUS
    <3> QED
      BY <3>2, <3>3
  <2>3. Marked(conn[k], q)
    BY <1>2, <1>3, <2>1 DEF Marked, Connection
  <2> HIDE DEF q
  <2>4. table \in [Conns -> Connection]
    BY <1>2, <1>3, <2>2
  <2>5. \A j \in Conns : table[j] = conn[j] \/ (j = k /\ Marked(conn[j], table[j]))
    BY <1>2, <1>3, <2>3
  <2>6. stored' \subseteq DOMAIN log /\ timeouts' \in Nat
    BY <1>2, <1>5 DEF getResponseTimeout
  <2>7. Continue(c, table, FALSE)
    BY <2>1, <2>2
  <2> HIDE DEF table
  <2> QED
    BY <1>1, <2>4, <2>5, <2>6, <2>7, ContinueStep
<1>6. CASE getResponseCut(c)
  BY <1>1, <1>2, <1>6, ClientFacts, MovesOn DEF getResponseCut
<1> QED
  BY <1>4, <1>5, <1>6

(***************************************************************************)
(* Every step of a client keeps the invariant.                             *)
(***************************************************************************)
LEMMA ClientStep == StorageInv /\ ClientNext => StorageInv'
<1> SUFFICES ASSUME StorageInv, NEW c \in Clients,
                    Command(c) \/ Step(c) \/ getResponseTimeout(c)
             PROVE  StorageInv'
  BY DEF ClientNext
<1> QED
  BY CommandStep, ConnectFirstStep, ConnectSecondStep, SendStep, ReceiveStep DEF Step

-----------------------------------------------------------------------------
\* The theorems.

LEMMA InitHolds == Init => StorageInv
<1> SUFFICES ASSUME Init PROVE StorageInv
  OBVIOUS
<1>0. /\ conn = [k \in Conns |-> Free] /\ cl = [c \in Clients |-> Prompt]
      /\ log = <<>> /\ stored = {} /\ timeouts = 0
  BY DEF Init, NetInit, ClientInit
<1>1. TypeOK
  <2>1. ServerTypeOK
    <3>1. Absent \in Content
      BY DEF Absent, Content
    <3> QED
      BY <1>0, <3>1, FreeType DEF Init, ServerInit, ServerTypeOK, NoPieces
  <2>2. ClientTypeOK
    BY <1>0, PromptType DEF ClientTypeOK
  <2> QED
    BY <2>1, <2>2 DEF TypeOK
<1>2. /\ Free.phase = "free" /\ Free.peer = "none" /\ Free.req.method = "none"
  BY DEF Free, NoRequest
<1>3. SlotsOK /\ RequestsOK
  BY <1>0, <1>2 DEF SlotsOK, RequestsOK, RequestOK
<1>4. Prompt.pc = "prompt" /\ Prompt.op = "none" /\ Prompt.prim = NoSock /\ Prompt.sec = NoSock
  BY DEF Prompt
<1>5. ClientsOK
  BY <1>0, <1>4 DEF ClientsOK, CommandOK, SocketsOK
<1>6. \A s \in Servers, f \in Files, i \in Pieces : disk[s][f][i] = Absent
  BY DEF Init, ServerInit, NoPieces
<1>7. StoredWhereItBelongs /\ UnfinishedHasWriter
  BY <1>6 DEF StoredWhereItBelongs, UnfinishedHasWriter, Absent
<1> QED
  BY <1>1, <1>3, <1>5, <1>7 DEF StorageInv

LEMMA StepHolds == StorageInv /\ [Next]_vars => StorageInv'
<1>1. StorageInv /\ UNCHANGED vars => StorageInv'
  <2> SUFFICES ASSUME StorageInv, UNCHANGED vars PROVE StorageInv'
    OBVIOUS
  <2>1. UNCHANGED <<conn, up, disk, dirs, crashes, died, cl, log, stored, timeouts>>
    BY DEF vars, serverVars, clientVars
  <2>2. TypeOK'
    BY <2>1 DEF StorageInv, TypeOK, ServerTypeOK, ClientTypeOK
  <2>3. SlotsOK' /\ ClientsOK' /\ RequestsOK'
    BY <2>1, EvolvesSame, EvolvesKeeps DEF StorageInv, TypeOK, ClientTypeOK
  <2>4. StoredWhereItBelongs' /\ UnfinishedHasWriter'
    BY <2>1, DiskUnchanged, WritersKept DEF StorageInv
  <2> QED
    BY <2>2, <2>3, <2>4 DEF StorageInv
<1> QED
  BY <1>1, ClientStep, ServerStep DEF Next

(***************************************************************************)
(* The inductive invariant holds in every reachable state, for any number  *)
(* of clients, files, connections, PUTs, crashes and late answers.         *)
(***************************************************************************)
THEOREM InvariantHolds == Spec => []StorageInv
<1> QED
  BY InitHolds, StepHolds, PTL DEF Spec

(***************************************************************************)
(* Type correctness of the whole system: every connection, server and      *)
(* client of dfc.cpp and dfs.cpp stays in its declared domain.             *)
(***************************************************************************)
THEOREM TypeCorrect == Spec => []TypeOK
<1>1. StorageInv => TypeOK
  BY DEF StorageInv
<1> QED
  BY <1>1, InvariantHolds, PTL

(***************************************************************************)
(* A piece is on a server only if an accepted PUT placed it there: the     *)
(* placement of handlePut (dfc.cpp) survives timeouts, retries on the next *)
(* connection, crashes, and concurrent PUTs.                               *)
(***************************************************************************)
THEOREM StorageCorrect == Spec => []StoredWhereItBelongs
<1>1. StorageInv => StoredWhereItBelongs
  BY DEF StorageInv
<1> QED
  BY <1>1, InvariantHolds, PTL

(***************************************************************************)
(* On a server that never died, whoever finds a piece file empty or half   *)
(* written finds a thread of dfs that is still in saveVectorToFile for it. *)
(***************************************************************************)
THEOREM WritersFinish == Spec => []UnfinishedHasWriter
<1>1. StorageInv => UnfinishedHasWriter
  BY DEF StorageInv
<1> QED
  BY <1>1, InvariantHolds, PTL
=============================================================================
