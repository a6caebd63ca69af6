---------------------------- MODULE DfsGetProofs ----------------------------
(***************************************************************************)
(* Proofs about what a GET returns and about the system without faults,    *)
(* for any number of clients, files, connections, PUTs, crashes and late   *)
(* answers.  They rest on the invariant of DfsProofs.                      *)
(***************************************************************************)
EXTENDS DfsProofs

-----------------------------------------------------------------------------
\* Steps of the servers, as seen from one connection.

\* What a step of its thread does to connection r, as far as the client sees.
Served(r, q) ==
  /\ r.phase \in Live
  /\ \/ q = Free /\ r.peer # "open" /\ r.phase \in {"header", "body"}
     \/ /\ q.srv = r.srv /\ q.cli = r.cli /\ q.peer = r.peer /\ q.req = r.req
        /\ q.phase \in {"handle", "reading", "writing", "header", "body", "done"}
        /\ r.phase = "request" => r.peer = "closed"
        /\ q.phase = "done" => r.peer = "open"

\* A step of a thread that finds nothing and does not answer a GET with
\* SUCCESS.
Plain(r, q) ==
  \/ q = Free
  \/ /\ q.phase \notin {"handle", "reading"}
     /\ q.found = r.found
     /\ q.reply = r.reply \/ q.reply # "ok" \/ r.req.method # "GET"

LEMMA GetServes ==
  ASSUME StorageInv, NEW k \in Conns, handleGetResponse(k) \/ loadFileToVector(k)
  PROVE  \E q \in Connection :
           /\ conn' = [conn EXCEPT ![k] = q]
           /\ Served(conn[k], q)
           /\ Looks(conn[k], q)
           /\ UNCHANGED serverVars
<1>1. PICK q \in Connection : conn' = [conn EXCEPT ![k] = q] /\ Looks(conn[k], q)
  BY GetLooks
<1>2. Served(conn[k], q)
  BY <1>1 DEF Served, Looks, BeginsPiece, Advances, Live
<1> QED
  BY <1>1, <1>2, GetLooks

(***************************************************************************)
(* What is read of a file with data is data, and stays data.               *)
(***************************************************************************)
LEMMA ReadsData ==
  ASSUME NEW x \in Content, NEW z
  PROVE  /\ Readable(x) => \A y \in FirstRead(x) : Readable(y)
         /\ Readable(z) => \A y \in LastRead(z, x) : Readable(y)
<1>1. \A v : Readable(Part(v)) /\ Readable(Whole(v))
  BY DEF Readable, Part, Whole, Absent, Empty
<1>2. Readable(Torn)
  BY DEF Readable, Torn, Absent, Empty
<1> QED
  BY <1>1, <1>2 DEF FirstRead, LastRead

LEMMA LooksFound ==
  ASSUME StorageInv, AnswersOK, NEW k \in Conns, NEW q \in Connection, Looks(conn[k], q)
  PROVE  LET r == conn[k]
         IN /\ \A i \in Pieces : r.found[i] # Absent => q.found[i] # Absent
            /\ \A i \in Pieces :
                 q.found[i] # Absent =>
                   r.found[i] # Absent \/ (i = r.i /\ PieceFile(r) # Absent)
            /\ q.phase = "reading" => Readable(q.found[q.i])
            /\ q.phase # "reading" /\ Readable(PieceFile(r)) => q.found[r.i] # Absent
<1> DEFINE r == conn[k]
           x == PieceFile(r)
<1>1. /\ r \in Connection /\ r.i \in Pieces /\ r.found \in [Pieces -> Content]
      /\ r.req.file \in Files
  BY DEF StorageInv, TypeOK, ServerTypeOK, Connection, RequestsOK, RequestOK, Looks
<1>2. x \in Content
  BY <1>1 DEF Connection, StorageInv, TypeOK, ServerTypeOK, PieceFile
<1>3. \A y : Readable(y) => y # Absent
  BY DEF Readable
<1>4. CASE BeginsPiece(r, q)
  <2>1. PICK y \in FirstRead(x) : q.found = [r.found EXCEPT ![r.i] = y]
    BY <1>4 DEF BeginsPiece
  <2>2. Readable(x) /\ Readable(y) /\ q.i = r.i /\ q.phase = "reading"
    BY <1>2, <1>4, <2>1, ReadsData DEF BeginsPiece
  <2> QED
    BY <1>1, <1>3, <2>1, <2>2
<1>5. CASE EndsPiece(r, q.found) /\ Advances(r, q)
  <2>1. q.phase # "reading"
    BY <1>5 DEF Advances
  <2>2. CASE ~Readable(x) /\ q.found = r.found
    BY <2>1, <2>2
  <2>3. CASE r.phase = "reading"
    <3>1. PICK y \in LastRead(r.found[r.i], x) : q.found = [r.found EXCEPT ![r.i] = y]
      BY <1>5, <2>3 DEF EndsPiece
    <3>2. Readable(r.found[r.i])
      BY <2>3 DEF AnswersOK, AnswerOK
    <3>3. Readable(y)
      BY <1>2, <3>1, <3>2, ReadsData
    <3> QED
      BY <1>1, <1>3, <2>1, <3>1, <3>2, <3>3
  <2> QED
    BY <1>5, <2>2, <2>3 DEF EndsPiece
<1> QED
  BY <1>4, <1>5 DEF Looks

(***************************************************************************)
(* Every other step of a thread, but for the one that dies of SIGPIPE.     *)
(***************************************************************************)
LEMMA PlainServes ==
  ASSUME StorageInv, NEW k \in Conns,
         \/ getEmptyRequest(k) \/ parseRequest(k) \/ handleListResponse(k)
         \/ handlePutResponse(k) \/ flushPiece(k) \/ saveVectorToFile(k)
         \/ handleMkdirResponse(k) \/ sendLength(k) \/ sendBody(k)
  PROVE  \E q \in Connection :
           /\ conn' = [conn EXCEPT ![k] = q]
           /\ Served(conn[k], q)
           /\ Plain(conn[k], q)
           /\ UNCHANGED <<up, crashes, died>>
<1> DEFINE r == conn[k]
<1>1. r \in Connection
  BY DEF StorageInv, TypeOK, ServerTypeOK
<1>2. ASSUME NEW reply \in {"ok", "error"}, Answering(k, reply), r.phase \in Live,
             r.phase = "request" => r.peer = "closed",
             reply # "ok" \/ r.req.method # "GET",
             UNCHANGED <<up, crashes, died>>
      PROVE  \E q \in Connection :
               /\ conn' = [conn EXCEPT ![k] = q]
               /\ Served(conn[k], q)
               /\ Plain(conn[k], q)
               /\ UNCHANGED <<up, crashes, died>>
  <2> DEFINE q == [r EXCEPT !.phase = "header", !.reply = reply]
  <2>1. q \in Connection /\ conn' = [conn EXCEPT ![k] = q]
    BY <1>1, <1>2 DEF Connection, Live, Answering
  <2>2. /\ q.phase = "header" /\ q.reply = reply /\ q.found = r.found
        /\ q.srv = r.srv /\ q.cli = r.cli /\ q.peer = r.peer /\ q.req = r.req
    BY <1>1 DEF Connection
  <2> HIDE DEF q
  <2>3. Served(r, q) /\ Plain(r, q)
    BY <1>2, <2>2 DEF Served, Plain
  <2> QED
    BY <1>2, <2>1, <2>3
<1>3. ASSUME NEW q \in Connection, conn' = [conn EXCEPT ![k] = q],
             r.phase \in Live \ {"request"},
             q.phase \in {"writing", "header", "body"},
             q.found = r.found, q.reply = r.reply \/ r.req.method # "GET",
             q.srv = r.srv, q.cli = r.cli, q.peer = r.peer, q.req = r.req,
             UNCHANGED <<up, crashes, died>>
      PROVE  \E p \in Connection :
               /\ conn' = [conn EXCEPT ![k] = p]
               /\ Served(conn[k], p)
               /\ Plain(conn[k], p)
               /\ UNCHANGED <<up, crashes, died>>
  <2>1. Served(r, q) /\ Plain(r, q)
    BY <1>3 DEF Served, Plain
  <2> QED
    BY <1>3, <2>1
<1>4. ASSUME conn' = [conn EXCEPT ![k] = Ended(r)], r.phase \in {"header", "body"},
             UNCHANGED <<up, crashes, died>>
      PROVE  \E p \in Connection :
               /\ conn' = [conn EXCEPT ![k] = p]
               /\ Served(conn[k], p)
               /\ Plain(conn[k], p)
               /\ UNCHANGED <<up, crashes, died>>
  <2>1. Ended(r) \in Connection
    BY <1>1, EndedType
  <2>2. Served(r, Ended(r)) /\ Plain(r, Ended(r))
    BY <1>1, <1>4 DEF Served, Plain, Ended, Connection, Live
  <2> QED
    BY <1>4, <2>1, <2>2
<1>5. CASE getEmptyRequest(k)
  BY <1>2, <1>5 DEF getEmptyRequest, serverVars, Live
<1>6. CASE parseRequest(k)
  BY <1>2, <1>6 DEF parseRequest, serverVars, Live
<1>7. CASE handleMkdirResponse(k)
  BY <1>2, <1>7 DEF handleMkdirResponse, Accepted, Live
<1>8. CASE saveVectorToFile(k)
  <2>1. r.req.method = "PUT"
    BY <1>8 DEF saveVectorToFile, StorageInv, RequestsOK, RequestOK
  <2> QED
    BY <1>2, <1>8, <2>1 DEF saveVectorToFile, Live
<1>9. CASE handleListResponse(k)
  <2>1. PICK names \in SUBSET (Files \X Pieces), reply \in {"ok", "empty"} :
          conn' = [conn EXCEPT ![k].phase = "header", ![k].list = names, ![k].reply = reply]
    BY <1>9 DEF handleListResponse
  <2> DEFINE q == [r EXCEPT !.phase = "header", !.list = names, !.reply = reply]
  <2>2. q \in Connection /\ conn' = [conn EXCEPT ![k] = q]
    <3>1. q \in Connection
      BY <1>1 DEF Connection, Live
    <3>2. conn' = [conn EXCEPT ![k] = q]
      BY <2>1
    <3> QED
      BY <3>1, <3>2
  <2>3. r.phase = "handle" /\ r.req.method = "LIST" /\ UNCHANGED serverVars
    BY <1>9 DEF handleListResponse, Accepted
  <2>4. /\ q.phase = "header" /\ q.found = r.found
        /\ q.srv = r.srv /\ q.cli = r.cli /\ q.peer = r.peer /\ q.req = r.req
    BY <1>1 DEF Connection
  <2> HIDE DEF q
  <2> QED
    BY <1>3, <2>2, <2>3, <2>4 DEF serverVars, Live
<1>10. CASE handlePutResponse(k)
  <2>1. r.phase = "handle" /\ r.req.method = "PUT" /\ UNCHANGED <<up, crashes, died>>
    BY <1>10 DEF handlePutResponse, Accepted
  <2>2. CASE Answering(k, "ok")
    BY <1>2, <2>1, <2>2 DEF Live
  <2>3. CASE conn' = [conn EXCEPT ![k].phase = "writing"]
    <3> DEFINE q == [r EXCEPT !.phase = "writing"]
    <3>1. q \in Connection /\ conn' = [conn EXCEPT ![k] = q]
      BY <1>1, <2>3 DEF Connection, Live
    <3>2. /\ q.phase = "writing" /\ q.found = r.found
          /\ q.srv = r.srv /\ q.cli = r.cli /\ q.peer = r.peer /\ q.req = r.req
      BY <1>1 DEF Connection
    <3> HIDE DEF q
    <3> QED
      BY <1>3, <2>1, <3>1, <3>2 DEF Live
  <2> QED
    BY <1>10, <2>2, <2>3 DEF handlePutResponse
<1>11. CASE flushPiece(k)
  <2> DEFINE q == [r EXCEPT !.flushed = TRUE]
  <2>1. q \in Connection /\ conn' = [conn EXCEPT ![k] = q] /\ r.phase = "writing"
    BY <1>1, <1>11 DEF Connection, flushPiece
  <2>2. /\ q.phase = r.phase /\ q.found = r.found /\ q.reply = r.reply
        /\ q.srv = r.srv /\ q.cli = r.cli /\ q.peer = r.peer /\ q.req = r.req
    BY <1>1 DEF Connection
  <2>3. UNCHANGED <<up, crashes, died>>
    BY <1>11 DEF flushPiece
  <2> HIDE DEF q
  <2> QED
    BY <1>3, <2>1, <2>2, <2>3 DEF Live
<1>12. CASE sendLength(k)
  <2>1. r.phase = "header" /\ UNCHANGED <<up, crashes, died>>
    BY <1>12 DEF sendLength, serverVars
  <2>2. CASE r.reply = "empty"
    BY <1>4, <1>12, <2>1, <2>2 DEF sendLength
  <2>3. CASE r.reply # "empty"
    <3> DEFINE q == [r EXCEPT !.phase = "body"]
    <3>1. q \in Connection /\ conn' = [conn EXCEPT ![k] = q]
      BY <1>1, <1>12, <2>3 DEF Connection, Live, sendLength
    <3>2. /\ q.phase = "body" /\ q.found = r.found /\ q.reply = r.reply
          /\ q.srv = r.srv /\ q.cli = r.cli /\ q.peer = r.peer /\ q.req = r.req
      BY <1>1 DEF Connection
    <3> HIDE DEF q
    <3> QED
      BY <1>3, <2>1, <3>1, <3>2 DEF Live
  <2> QED
    BY <2>2, <2>3
<1>13. CASE sendBody(k)
  BY <1>4, <1>13 DEF sendBody, serverVars
<1> QED
  BY <1>5, <1>6, <1>7, <1>8, <1>9, <1>10, <1>11, <1>12, <1>13

(***************************************************************************)
(* A step of the servers is one of a thread, the death of a server, or its *)
(* restart.                                                                *)
(***************************************************************************)
LEMMA ServerMoves ==
  ASSUME StorageInv, ServerNext
  PROVE  \/ \E k \in Conns, q \in Connection :
              /\ conn' = [conn EXCEPT ![k] = q]
              /\ Served(conn[k], q)
              /\ \/ Plain(conn[k], q)
                 \/ Looks(conn[k], q) /\ UNCHANGED serverVars
              /\ UNCHANGED <<up, crashes, died>>
         \/ \E s \in Servers : Die(s) /\ Crash(s)
         \/ \E k \in Conns : Die(conn[k].srv) /\ sendBodySigpipe(k)
         \/ \E s \in Servers : Restart(s)
<1>1. ASSUME NEW k \in Conns, Thread(k), ~sendBodySigpipe(k)
      PROVE  \E q \in Connection :
              /\ conn' = [conn EXCEPT ![k] = q]
              /\ Served(conn[k], q)
              /\ \/ Plain(conn[k], q)
                 \/ Looks(conn[k], q) /\ UNCHANGED serverVars
              /\ UNCHANGED <<up, crashes, died>>
  <2>1. CASE handleGetResponse(k) \/ loadFileToVector(k)
    BY <2>1, GetServes DEF serverVars
  <2>2. CASE ~(handleGetResponse(k) \/ loadFileToVector(k))
    BY <1>1, <2>2, PlainServes DEF Thread
  <2> QED
    BY <2>1, <2>2
<1>2. ASSUME NEW k \in Conns, sendBodySigpipe(k)
      PROVE  Die(conn[k].srv) /\ sendBodySigpipe(k)
  BY <1>2 DEF sendBodySigpipe
<1>3. ASSUME NEW s \in Servers, Crash(s)
      PROVE  Die(s) /\ Crash(s)
  BY <1>3 DEF Crash
<1>4. \/ \E k \in Conns : Thread(k)
      \/ \E s \in Servers : Crash(s) \/ Restart(s)
  BY DEF ServerNext
<1> QED
  BY <1>1, <1>2, <1>3, <1>4

\* What the servers do to a connection that its client holds.
Kept(r, q) ==
  /\ q.srv = r.srv /\ q.cli = r.cli /\ q.peer = r.peer /\ q.req = r.req
  /\ q.phase # "free"
  /\ r.phase = "reset" => q.phase = "reset"
  /\ r.phase = "done" => q.phase = "done"
  /\ r.phase = "request" => q.phase \in {"request", "reset"}
  /\ r.phase # "request" => q.phase # "request"

(***************************************************************************)
(* The request of a connection that its client holds stays, and an answer  *)
(* waits until the client reads it, whatever the threads and crashes do.   *)
(***************************************************************************)
LEMMA SeveredKept ==
  ASSUME NEW r \in Connection, r.peer = "open", r.phase # "free"
  PROVE  Kept(r, Severed(r)) /\ Kept(r, r)
  BY DEF Kept, Severed, Connection, Live

LEMMA ServerKeepsOpen ==
  ASSUME StorageInv, ServerNext, NEW k \in Conns, conn[k].peer = "open"
  PROVE  Kept(conn[k], conn'[k])
<1>1. conn \in [Conns -> Connection] /\ conn[k] \in Connection
  BY DEF StorageInv, TypeOK, ServerTypeOK
<1>2. conn[k].phase # "free"
  BY DEF StorageInv, SlotsOK, Free
<1>3. Kept(conn[k], conn[k])
  BY <1>1, <1>2, SeveredKept
<1>4. ASSUME NEW j \in Conns, NEW q \in Connection,
             conn' = [conn EXCEPT ![j] = q], Served(conn[j], q)
      PROVE  Kept(conn[k], conn'[k])
  <2>1. CASE j = k
    <3>1. conn'[k] = q
      BY <1>1, <1>4, <2>1
    <3> QED
      BY <1>4, <2>1, <3>1 DEF Served, Kept, Live
  <2>2. CASE j # k
    BY <1>1, <1>3, <1>4, <2>2
  <2> QED
    BY <2>1, <2>2
<1>5. ASSUME NEW s, Die(s) PROVE Kept(conn[k], conn'[k])
  <2>1. conn'[k] = IF conn[k].srv = s THEN Severed(conn[k]) ELSE conn[k]
    BY <1>5 DEF Die, ServerGone
  <2> QED
    BY <1>1, <1>2, <2>1, SeveredKept
<1>6. ASSUME NEW s, Restart(s) PROVE Kept(conn[k], conn'[k])
  BY <1>3, <1>6 DEF Restart
<1> QED
  BY <1>4, <1>5, <1>6, ServerMoves

\* The sockets of client c are connections, and it holds them.
LEMMA Sockets ==
  ASSUME StorageInv, NEW c \in Clients
  PROVE  /\ cl[c].prim # NoSock => /\ cl[c].prim \in Conns
                                   /\ conn[cl[c].prim].cli = c
                                   /\ conn[cl[c].prim].peer = "open"
                                   /\ conn[cl[c].prim].phase # "free"
                                   /\ conn[cl[c].prim].srv = Target(c)
         /\ cl[c].sec # NoSock => /\ cl[c].sec \in Conns
                                  /\ conn[cl[c].sec].cli = c
                                  /\ conn[cl[c].sec].peer = "open"
                                  /\ conn[cl[c].sec].phase # "free"
                                  /\ cl[c].sec # cl[c].prim
                                  /\ cl[c].op = "PUT"
                                  /\ conn[cl[c].sec].srv = Secondary(cl[c].n, log[cl[c].ver].bin)
         /\ cl[c].pc = "recv" => cl[c].prim # NoSock
         /\ cl[c].pc = "recv2" => cl[c].sec # NoSock
<1>1. ASSUME NEW k \in Conns, conn[k].peer = "open" PROVE conn[k].phase # "free"
  BY <1>1 DEF StorageInv, SlotsOK, Free
<1> QED
  BY <1>1, ClientFacts DEF SocketsOK, Holds

(***************************************************************************)
(* The servers' steps keep what a client and its threads know of each      *)
(* other.                                                                  *)
(***************************************************************************)
LEMMA ServerExchanges ==
  ASSUME StorageInv, ExchangesOK, ServerNext
  PROVE  ExchangesOK'
<1> SUFFICES ASSUME NEW c \in Clients PROVE ExchangeOK(c)'
  BY DEF ExchangesOK
<1>1. UNCHANGED cl
  BY DEF ServerNext, clientVars
<1>2. RequestOf(c)' = RequestOf(c)
  BY <1>1 DEF RequestOf
<1>3. ASSUME NEW k \in Conns, conn[k].peer = "open"
      PROVE  /\ Unasked(k) => Unasked(k)'
             /\ Asked(c, k) => Asked(c, k)'
  BY <1>2, <1>3, ServerKeepsOpen DEF Unasked, Asked, Kept
<1>4. ExchangeOK(c)
  BY DEF ExchangesOK
<1> QED
  BY <1>1, <1>3, <1>4, Sockets DEF ExchangeOK

LEMMA ServerAnswers ==
  ASSUME StorageInv, AnswersOK, ServerNext
  PROVE  AnswersOK'
<1> SUFFICES ASSUME NEW k \in Conns PROVE AnswerOK(conn[k])'
  BY DEF AnswersOK
<1>1. UNCHANGED log /\ conn \in [Conns -> Connection] /\ conn[k] \in Connection
  BY DEF ServerNext, clientVars, StorageInv, TypeOK, ServerTypeOK
<1>2. \A s, f, i : Placed(s, f, i)' = Placed(s, f, i)
  BY <1>1 DEF Placed, PutsOf
<1>3. AnswerOK(conn[k])' = AnswerOK(conn'[k])
  BY <1>2 DEF AnswerOK
<1>4. AnswerOK(conn[k])
  BY DEF AnswersOK
<1>5. AnswerOK(Free)
  BY DEF AnswerOK, Free, NoRequest
<1>6. ASSUME NEW j \in Conns, NEW q \in Connection,
             conn' = [conn EXCEPT ![j] = q], Served(conn[j], q), Plain(conn[j], q)
      PROVE  AnswerOK(conn'[k])
  <2>1. CASE j = k
    <3>1. conn'[k] = q
      BY <1>1, <1>6, <2>1
    <3> QED
      BY <1>4, <1>5, <1>6, <2>1, <3>1 DEF AnswerOK, Served, Plain
  <2>2. CASE j # k
    BY <1>1, <1>4, <1>6, <2>2
  <2> QED
    BY <2>1, <2>2
<1>7. ASSUME NEW j \in Conns, NEW q \in Connection,
             conn' = [conn EXCEPT ![j] = q], Served(conn[j], q), Looks(conn[j], q)
      PROVE  AnswerOK(conn'[k])
  <2>1. CASE j = k
    <3> DEFINE r == conn[k]
    <3>1. conn'[k] = q
      BY <1>1, <1>7, <2>1
    <3>2. q.req = r.req /\ q.srv = r.srv /\ r.req.method = "GET" /\ r.req.auth
      BY <1>7, <2>1 DEF Looks
    <3>3. r.srv \in Servers /\ r.i \in Pieces /\ r.req.file \in Files
      BY <1>1, <3>2 DEF Connection, StorageInv, RequestsOK, RequestOK
    <3>4. ASSUME NEW i \in Pieces, q.found[i] # Absent
          PROVE  Placed(r.srv, r.req.file, i)
      <4>1. CASE r.found[i] # Absent
        BY <1>4, <3>2, <4>1 DEF AnswerOK
      <4>2. CASE i = r.i /\ PieceFile(r) # Absent
        <5>1. Belongs(r.srv, r.req.file, i, disk[r.srv][r.req.file][i])
          BY <3>3, <4>2 DEF StorageInv, StoredWhereItBelongs, PieceFile
        <5> QED
          BY <5>1 DEF Belongs, Placed
      <4> QED
        BY <1>7, <2>1, <3>4, <4>1, <4>2, LooksFound
    <3>5. /\ q.reply = "ok" => q.phase = "header" /\ GetDone(q.found)
          /\ q.phase \in {"handle", "reading"} => q.reply = "none"
          /\ q.phase # "request"
      BY <1>4, <1>7, <2>1 DEF Looks, BeginsPiece, Advances, AnswerOK
    <3>6. q.phase = "reading" => Readable(q.found[q.i])
      BY <1>7, <2>1, LooksFound
    <3> QED
      BY <3>1, <3>2, <3>4, <3>5, <3>6 DEF AnswerOK
  <2>2. CASE j # k
    BY <1>1, <1>4, <1>7, <2>2
  <2> QED
    BY <2>1, <2>2
<1>8. ASSUME NEW s, Die(s) PROVE AnswerOK(conn'[k])
  <2>1. conn'[k] = IF conn[k].srv = s THEN Severed(conn[k]) ELSE conn[k]
    BY <1>8 DEF Die, ServerGone
  <2>2. AnswerOK(Severed(conn[k]))
    <3> DEFINE p == IF conn[k].phase = "body" THEN "cut" ELSE "reset"
               q == [conn[k] EXCEPT !.phase = p]
    <3>1. /\ q.phase \in {"cut", "reset"} /\ q.req = conn[k].req /\ q.reply = conn[k].reply
          /\ q.found = conn[k].found /\ q.srv = conn[k].srv
      BY <1>1 DEF Connection
    <3>2. Severed(conn[k]) \in {conn[k], Free, q}
      BY DEF Severed
    <3> HIDE DEF q
    <3>3. AnswerOK(q)
      BY <1>4, <3>1 DEF AnswerOK
    <3> QED
      BY <1>4, <1>5, <3>2, <3>3
  <2> QED
    BY <1>4, <2>1, <2>2
<1>9. ASSUME NEW s, Restart(s) PROVE AnswerOK(conn'[k])
  BY <1>4, <1>9 DEF Restart
<1> QED
  BY <1>3, <1>6, <1>7, <1>8, <1>9, ServerMoves

(***************************************************************************)
(* A step of the servers is none of a client's GET.                        *)
(***************************************************************************)
LEMMA ServerGets ==
  ASSUME GetsOK, ServerNext
  PROVE  GetsOK'
<1>1. UNCHANGED <<cl, log>>
  BY DEF ServerNext, clientVars
<1> QED
  BY <1>1 DEF GetsOK, GetOK, TurnOK, ResultOK, Brought, Placed, PutsOf

-----------------------------------------------------------------------------
\* Steps of the clients, as seen from one connection.

\* What a step of client c may do to a connection: leave it, give up or mark
\* one of its own, open a free slot, send its request.
Touches(c, r, q) ==
  \/ q = r
  \/ r.cli = c /\ r.phase \notin Live /\ q = Free
  \/ /\ r.cli = c /\ r.phase \in Live /\ q.phase = r.phase
     /\ q.srv = r.srv /\ q.cli = r.cli /\ q.req = r.req /\ q.reply = r.reply
     /\ q.found = r.found /\ q.i = r.i /\ q.flushed = r.flushed
  \/ /\ r.phase = "free" /\ q.phase = "request" /\ q.cli = c /\ q.req = NoRequest
     /\ q.reply = "none" /\ q.found = NoPieces /\ q.i = 0 /\ ~q.flushed
  \/ /\ r.cli = c /\ r.phase = "request" /\ q.phase = "handle"
     /\ q.srv = r.srv /\ q.cli = r.cli /\ q.req = RequestOf(c) /\ q.reply = r.reply
     /\ q.found = r.found /\ q.i = r.i /\ q.flushed = r.flushed

\* A step of client c.
Act(c) == Command(c) \/ Step(c) \/ getResponseTimeout(c)

\* Read marks of client c on connection r, at most.
Reads(r, q) == \E b \in BOOLEAN : r.phase \in Live /\ q = [r EXCEPT !.read = b]

LEMMA AbandonedTouches ==
  ASSUME NEW c, NEW r \in Connection, r.cli = c,
         NEW q \in Connection, q = r \/ Reads(r, q), NEW how \in {"closed", "leaked"}
  PROVE  Touches(c, r, q) /\ Touches(c, r, Abandoned(q, how))
<1>1. CASE q = r
  BY <1>1 DEF Touches, Abandoned, Connection
<1>2. CASE Reads(r, q)
  BY <1>2 DEF Touches, Abandoned, Connection, Reads
<1> QED
  BY <1>1, <1>2

LEMMA GoneTouches ==
  ASSUME NEW c \in Clients, conn \in [Conns -> Connection], conn' = ClientGone(conn, c)
  PROVE  \A k \in Conns : Touches(c, conn[k], conn'[k])
<1> SUFFICES ASSUME NEW k \in Conns PROVE Touches(c, conn[k], conn'[k])
  OBVIOUS
<1>1. conn'[k] = IF conn[k].cli = c /\ conn[k].peer \in {"open", "leaked"}
                 THEN Abandoned(conn[k], "closed") ELSE conn[k]
  BY DEF ClientGone
<1>2. Touches(c, conn[k], conn[k])
  BY DEF Touches
<1> QED
  BY <1>1, <1>2, AbandonedTouches

LEMMA OpenedTouches ==
  ASSUME NEW c \in Clients, NEW s \in Servers, NEW k \in Conns,
         conn \in [Conns -> Connection], conn[k].phase = "free",
         NEW q \in {Opened(s, c), Abandoned(Opened(s, c), "closed")},
         conn' = [conn EXCEPT ![k] = q]
  PROVE  \A j \in Conns : Touches(c, conn[j], conn'[j])
<1>1. LET o == Opened(s, c)
          a == [o EXCEPT !.peer = "closed"]
      IN /\ o.phase = "request" /\ o.cli = c /\ o.req = NoRequest
         /\ o.reply = "none" /\ o.found = NoPieces /\ o.i = 0 /\ ~o.flushed
         /\ a.phase = "request" /\ a.cli = c /\ a.req = NoRequest
         /\ a.reply = "none" /\ a.found = NoPieces /\ a.i = 0 /\ ~a.flushed
  BY DEF Opened, Free
<1>2. q \in {Opened(s, c), [Opened(s, c) EXCEPT !.peer = "closed"]}
  BY <1>1 DEF Abandoned, Live
<1>3. Touches(c, conn[k], q)
  BY <1>1, <1>2 DEF Touches
<1>4. ASSUME NEW j \in Conns PROVE Touches(c, conn[j], conn'[j])
  <2>1. CASE j = k
    BY <1>3, <2>1
  <2>2. CASE j # k
    BY <2>2 DEF Touches
  <2> QED
    BY <2>1, <2>2
<1> QED
  BY <1>4

\* The table after a read from client c's socket.
ReadTable(c, table) ==
  /\ table \in [Conns -> Connection]
  /\ \A j \in Conns : table[j] = conn[j] \/ (j = Sock(c) /\ Reads(conn[j], table[j]))

(***************************************************************************)
(* getResponse reads from the socket of the command, or times out on it.   *)
(***************************************************************************)
LEMMA Receives ==
  ASSUME StorageInv, NEW c \in Clients, getResponse(c) \/ getResponseTimeout(c)
  PROVE  /\ Sock(c) \in Conns /\ Sock(c) \in {cl[c].prim, cl[c].sec}
         /\ conn[Sock(c)].cli = c /\ conn[Sock(c)].peer = "open"
         /\ cl[c].pc \in {"recv", "recv2"}
         /\ cl[c].pc = "recv2" => cl[c].op = "PUT"
         /\ \E table \in [Conns -> Connection], got \in BOOLEAN :
              /\ ReadTable(c, table)
              /\ got => conn[Sock(c)].phase = "done"
              /\ ~got => getResponseTimeout(c) \/ conn[Sock(c)].phase = "reset"
              /\ Continue(c, table, got)
<1> DEFINE k == Sock(c)
<1>1. cl[c].pc \in {"recv", "recv2"}
  BY DEF getResponse, getResponseTimeout, Receiving
<1>2. /\ k \in Conns /\ conn[k].cli = c /\ conn[k].peer = "open"
      /\ k \in {cl[c].prim, cl[c].sec}
  BY <1>1, Sockets DEF Sock
<1>3. cl[c].pc = "recv2" => cl[c].op = "PUT"
  BY ClientFacts DEF CommandOK
<1>4. conn \in [Conns -> Connection] /\ conn[k] \in Connection
  BY <1>2, ClientFacts
<1>5. CASE getResponse(c)
  <2>1. ReadTable(c, conn)
    BY <1>4 DEF ReadTable
  <2>2. \/ conn[k].phase = "done" /\ Continue(c, conn, TRUE)
        \/ conn[k].phase = "reset" /\ Continue(c, conn, FALSE)
    BY <1>5 DEF getResponse
  <2> QED
    BY <1>1, <1>2, <1>3, <1>4, <2>1, <2>2
<1>6. CASE getResponseTimeout(c)
  <2> DEFINE b == (conn[k].phase = "body")
             q == [conn[k] EXCEPT !.read = b]
             table == [conn EXCEPT ![k] = q]
  <2>1. b \in BOOLEAN
    OBVIOUS
  <2>2. Continue(c, [conn EXCEPT ![k].read = b], FALSE) /\ conn[k].phase \in Live
    BY <1>6 DEF getResponseTimeout
  <2> HIDE DEF b
  <2>3. q \in Connection /\ Reads(conn[k], q) /\ [conn EXCEPT ![k].read = b] = table
    <3>1. q \in Connection
      BY <1>4, <2>1 DEF Connection
    <3>2. Reads(conn[k], q)
      BY <2>1, <2>2 DEF Reads
    <3>3. [conn EXCEPT ![k].read = b] = table
      OBVIOUS
    <3> QED
      BY <3>1, <3>2, <3>3
  <2> HIDE DEF q
  <2>4. ReadTable(c, table)
    BY <1>2, <1>4, <2>3 DEF ReadTable
  <2>5. Continue(c, table, FALSE)
    BY <2>2, <2>3
  <2> HIDE DEF table
  <2> QED
    BY <1>1, <1>2, <1>3, <1>6, <2>4, <2>5 DEF ReadTable
<1> QED
  BY <1>5, <1>6

LEMMA ContinueTouches ==
  ASSUME StorageInv, NEW c \in Clients, NEW table, NEW got \in BOOLEAN,
         ReadTable(c, table), Continue(c, table, got),
         cl[c].pc \in {"recv", "recv2"},
         Sock(c) \in Conns, conn[Sock(c)].cli = c
  PROVE  /\ \A k \in Conns : Touches(c, conn[k], conn'[k])
         /\ \A d \in Clients : d # c => cl'[d] = cl[d]
<1> DEFINE k == Sock(c)
           r == cl[c]
<1>1. conn \in [Conns -> Connection] /\ table \in [Conns -> Connection] /\ cl \in [Clients -> Client]
  BY ClientFacts DEF ReadTable
<1>2. \A j \in Conns : j \in {r.prim, r.sec, k} => conn[j].cli = c
  BY Sockets DEF NoSock, Conns
<1>3. ASSUME NEW j \in Conns
      PROVE  /\ Touches(c, conn[j], table[j])
             /\ j \in {r.prim, r.sec, k} =>
                  /\ Touches(c, conn[j], Abandoned(table[j], "closed"))
                  /\ Touches(c, conn[j], Abandoned(table[j], "leaked"))
  <2>1. table[j] = conn[j] \/ (j = k /\ Reads(conn[j], table[j]))
    BY DEF ReadTable
  <2>2. conn[j] \in Connection /\ table[j] \in Connection
    BY <1>1
  <2>3. CASE j \in {r.prim, r.sec, k}
    BY <1>2, <2>1, <2>2, <2>3, AbandonedTouches
  <2>4. CASE j \notin {r.prim, r.sec, k}
    BY <2>1, <2>4 DEF Touches
  <2> QED
    BY <2>3, <2>4
<1>4. ASSUME NEW S, S \subseteq {r.prim, r.sec, k}, conn' = Closing(table, S)
      PROVE  \A j \in Conns : Touches(c, conn[j], conn'[j])
  <2>1. \A j \in Conns : conn'[j] = IF j \in S THEN Abandoned(table[j], "closed") ELSE table[j]
    BY <1>4 DEF Closing
  <2> QED
    BY <1>3, <1>4, <2>1
<1>5. ASSUME conn' = Leaking(table, k)
      PROVE  \A j \in Conns : Touches(c, conn[j], conn'[j])
  <2>1. \A j \in Conns : conn'[j] = IF j = k THEN Abandoned(table[j], "leaked") ELSE table[j]
    BY <1>1, <1>5 DEF Leaking
  <2> QED
    BY <1>3, <2>1
<1>6. \A k1 \in Conns : Touches(c, conn[k1], conn'[k1])
  BY <1>3, <1>4, <1>5 DEF Continue
<1>7. \A d \in Clients : d # c => cl'[d] = cl[d]
  BY <1>1 DEF Continue
<1> QED
  BY <1>6, <1>7

\* The server that connectToServer is called for exists.
LEMMA TargetServer ==
  ASSUME StorageInv, NEW c \in Clients
  PROVE  Target(c) \in Servers
<1>1. CASE cl[c].op = "PUT"
  BY <1>1, PutServers DEF Target
<1>2. CASE cl[c].op # "PUT"
  BY <1>2, ClientFacts DEF Target, Servers
<1> QED
  BY <1>1, <1>2

(***************************************************************************)
(* A step of a client changes that client's record, its own connections    *)
(* and free slots, and nothing of the servers'.                            *)
(***************************************************************************)
LEMMA ClientTouches ==
  ASSUME StorageInv, NEW c \in Clients, Act(c)
  PROVE  /\ \A k \in Conns : Touches(c, conn[k], conn'[k])
         /\ \A d \in Clients : d # c => cl'[d] = cl[d]
         /\ LogGrows
         /\ UNCHANGED serverVars
<1>1. /\ cl \in [Clients -> Client] /\ conn \in [Conns -> Connection]
      /\ UNCHANGED log => LogGrows
  BY ClientFacts
<1>2. \A r : Touches(c, r, r)
  BY DEF Touches
<1>3. CASE startPut(c)
  <2>1. PICK f \in Files, b \in Bins :
          log' = Append(log, [file |-> f, bin |-> b, auth |-> c \in Authorized,
                               room |-> \A s \in Servers : DirOf[f] \in dirs[s]])
    BY <1>3 DEF startPut
  <2> DEFINE p == [file |-> f, bin |-> b, auth |-> c \in Authorized,
                   room |-> \A s \in Servers : DirOf[f] \in dirs[s]]
  <2>2. p \in PutRecord
    BY ClientAssumption DEF PutRecord
  <2>3. log' = Append(log, p) /\ log \in Seq(PutRecord)
    BY <2>1 DEF StorageInv, TypeOK, ClientTypeOK
  <2> HIDE DEF p
  <2>4. LogGrows
    BY <2>2, <2>3 DEF LogGrows
  <2>5. UNCHANGED <<conn, serverVars>> /\ \A d \in Clients : d # c => cl'[d] = cl[d]
    BY <1>1, <1>3 DEF startPut
  <2> QED
    BY <1>2, <2>4, <2>5
<1>4. CASE startGet(c) \/ startList(c) \/ startMkDir(c)
  BY <1>1, <1>2, <1>4 DEF startGet, startList, startMkDir
<1>5. CASE exit(c)
  BY <1>1, <1>5, GoneTouches DEF exit
<1>6. CASE connectFirst(c)
  <2>1. /\ UNCHANGED <<serverVars, log>>
        /\ \A d \in Clients : d # c => cl'[d] = cl[d]
    BY <1>1, <1>6 DEF connectFirst
  <2>2. \/ \E k \in Conns : FreeSlot(k) /\ conn' = [conn EXCEPT ![k] = Opened(Target(c), c)]
        \/ UNCHANGED conn
    BY <1>6 DEF connectFirst
  <2> QED
    BY <1>1, <1>2, <2>1, <2>2, TargetServer, OpenedTouches DEF FreeSlot
<1>7. CASE connectSecond(c)
  <2> DEFINE s == Secondary(cl[c].n, log[cl[c].ver].bin)
  <2>1. /\ UNCHANGED <<serverVars, log>>
        /\ \A d \in Clients : d # c => cl'[d] = cl[d]
    BY <1>1, <1>7 DEF connectSecond
  <2>2. \/ \E k \in Conns : /\ FreeSlot(k)
                            /\ \/ conn' = [conn EXCEPT ![k] = Opened(s, c)]
                               \/ conn' = [conn EXCEPT ![k] = Abandoned(Opened(s, c), "closed")]
        \/ UNCHANGED conn
    BY <1>7 DEF connectSecond
  <2>3. s \in Servers
    BY <1>7, ClientFacts, PutServers DEF connectSecond, CommandOK
  <2> HIDE DEF s
  <2> QED
    BY <1>1, <1>2, <2>1, <2>2, <2>3, OpenedTouches DEF FreeSlot
<1>8. CASE sendRequest(c)
  <2> DEFINE k == Sock(c)
             q == [conn[k] EXCEPT !.phase = "handle", !.req = RequestOf(c)]
  <2>1. /\ UNCHANGED <<serverVars, log>>
        /\ \A d \in Clients : d # c => cl'[d] = cl[d]
        /\ k # NoSock
    BY <1>1, <1>8 DEF sendRequest
  <2>2. k \in Conns /\ conn[k].cli = c
    BY <2>1, Sockets DEF Sock
  <2>3. CASE conn[k].phase = "request" /\ conn' = [conn EXCEPT ![k] = q]
    <3>1. conn[k] \in Connection
      BY <1>1, <2>2
    <3>2. /\ q.phase = "handle" /\ q.req = RequestOf(c)
          /\ q.srv = conn[k].srv /\ q.cli = conn[k].cli /\ q.reply = conn[k].reply
          /\ q.found = conn[k].found /\ q.i = conn[k].i /\ q.flushed = conn[k].flushed
      BY <3>1 DEF Connection
    <3> HIDE DEF q
    <3>3. Touches(c, conn[k], q)
      BY <2>2, <2>3, <3>2 DEF Touches
    <3> QED
      BY <1>1, <1>2, <2>1, <2>2, <2>3, <3>3
  <2>4. CASE UNCHANGED conn
    BY <1>1, <1>2, <2>1, <2>4
  <2>5. \/ conn[k].phase = "request" /\ conn' = [conn EXCEPT ![k] = q]
        \/ UNCHANGED conn
    <3>1. \/ /\ conn[k].phase = "request"
             /\ conn' = [conn EXCEPT ![k].phase = "handle", ![k].req = RequestOf(c)]
          \/ UNCHANGED conn
      BY <1>8 DEF sendRequest
    <3>2. conn[k] \in Connection
      BY <1>1, <2>2
    <3> QED
      BY <3>1, <3>2 DEF Connection
  <2> QED
    BY <2>3, <2>4, <2>5
<1>9. CASE sendRequestSigpipe(c)
  BY <1>1, <1>9, GoneTouches DEF sendRequestSigpipe
<1>10. CASE sendRequestNoSock(c) \/ getResponseCut(c)
  BY <1>1, <1>2, <1>10 DEF sendRequestNoSock, getResponseCut
<1>11. CASE getResponse(c) \/ getResponseTimeout(c)
  <2>1. UNCHANGED <<serverVars, log>>
    BY <1>11 DEF getResponse, getResponseTimeout
  <2>2. PICK table \in [Conns -> Connection], got \in BOOLEAN :
          ReadTable(c, table) /\ Continue(c, table, got)
    BY <1>11, Receives
  <2> QED
    BY <1>1, <1>11, <2>1, <2>2, Receives, ContinueTouches
<1> QED
  BY <1>3, <1>4, <1>5, <1>6, <1>7, <1>8, <1>9, <1>10, <1>11 DEF Act, Command, Step

\* A piece that some PUT placed stays placed.
LEMMA PlacedStays ==
  ASSUME LogGrows, NEW s, NEW f, NEW i, Placed(s, f, i)
  PROVE  Placed(s, f, i)'
<1>1. PICK v \in PutsOf(f) : s \in Holders(i, log[v].bin)
  BY DEF Placed
<1>2. v \in PutsOf(f)' /\ log'[v] = log[v]
  BY <1>1 DEF PutsOf, LogGrows
<1> QED
  BY <1>1, <1>2 DEF Placed

(***************************************************************************)
(* A client's step keeps what the threads have found and answered.         *)
(***************************************************************************)
LEMMA ClientAnswers ==
  ASSUME StorageInv, AnswersOK, NEW c \in Clients, Act(c)
  PROVE  AnswersOK'
<1> SUFFICES ASSUME NEW k \in Conns PROVE AnswerOK(conn[k])'
  BY DEF AnswersOK
<1>1. Touches(c, conn[k], conn'[k]) /\ LogGrows
  BY ClientTouches
<1>2. \A s, f, i : Placed(s, f, i) => Placed(s, f, i)'
  BY <1>1, PlacedStays
<1>3. ASSUME NEW r, AnswerOK(r), r = conn'[k] PROVE AnswerOK(conn[k])'
  BY <1>2, <1>3 DEF AnswerOK
<1>4. AnswerOK(conn[k])
  BY DEF AnswersOK
<1>5. AnswerOK(Free)
  BY DEF AnswerOK, Free, NoRequest
<1>6. ~GetDone(NoPieces)
  BY DEF GetDone, NoPieces
<1>7. AnswerOK(conn'[k])
  <2> DEFINE r == conn[k]
             q == conn'[k]
  <2>1. CASE q = r \/ q = Free
    BY <1>4, <1>5, <2>1
  <2>2. CASE /\ q.phase = r.phase /\ q.srv = r.srv /\ q.req = r.req /\ q.reply = r.reply
             /\ q.found = r.found /\ q.i = r.i /\ q.flushed = r.flushed
    BY <1>4, <2>2 DEF AnswerOK
  <2>3. CASE /\ q.phase = "request" /\ q.req = NoRequest
             /\ q.reply = "none" /\ q.found = NoPieces /\ q.i = 0 /\ ~q.flushed
    BY <2>3 DEF AnswerOK, NoRequest
  <2>4. CASE /\ r.phase = "request" /\ q.phase = "handle" /\ q.srv = r.srv
             /\ q.reply = r.reply /\ q.found = r.found
    BY <1>4, <2>4 DEF AnswerOK, NoPieces
  <2> QED
    BY <1>1, <2>1, <2>2, <2>3, <2>4 DEF Touches
<1> QED
  BY <1>3, <1>7

(***************************************************************************)
(* A client's step does not disturb the other clients.                     *)
(***************************************************************************)
LEMMA OthersSockets ==
  ASSUME StorageInv, NEW c \in Clients, Act(c), NEW d \in Clients, d # c
  PROVE  /\ cl'[d] = cl[d]
         /\ cl[d].prim # NoSock => conn'[cl[d].prim] = conn[cl[d].prim]
         /\ cl[d].sec # NoSock => conn'[cl[d].sec] = conn[cl[d].sec]
         /\ cl[d].pc = "recv" => cl[d].prim # NoSock
         /\ cl[d].pc = "recv2" => cl[d].sec # NoSock
<1>1. ASSUME NEW k \in Conns, conn[k].cli = d, conn[k].phase # "free"
      PROVE  conn'[k] = conn[k]
  <2>1. Touches(c, conn[k], conn'[k])
    BY ClientTouches
  <2> QED
    BY <1>1, <2>1 DEF Touches
<1> QED
  BY <1>1, ClientTouches, Sockets

LEMMA OthersKept ==
  ASSUME StorageInv, NEW c \in Clients, Act(c), NEW d \in Clients, d # c
  PROVE  /\ ExchangeOK(d) => ExchangeOK(d)'
         /\ GetOK(d) => GetOK(d)'
<1>1. cl'[d] = cl[d] /\ LogGrows
  BY ClientTouches
<1>2. RequestOf(d)' = RequestOf(d)
  BY <1>1 DEF RequestOf
<1>3. ExchangeOK(d) => ExchangeOK(d)'
  BY <1>1, <1>2, OthersSockets DEF ExchangeOK, Asked, Unasked
<1>4. \A s : Brought(d, s) => Brought(d, s)'
  BY <1>1, PlacedStays DEF Brought
<1>5. GetOK(d) => GetOK(d)'
  BY <1>1, <1>4 DEF GetOK, TurnOK, ResultOK
<1> QED
  BY <1>3, <1>5

-----------------------------------------------------------------------------
\* The client's own exchange.

\* A client without sockets waits for no answer.
LEMMA NoExchange ==
  ASSUME NEW c \in Clients, cl'[c].prim = NoSock, cl'[c].sec = NoSock,
         cl'[c].pc \notin {"recv", "recv2"}
  PROVE  ExchangeOK(c)'
  BY DEF ExchangeOK

\* How the record of client c looks after it has typed a command or left.
LEMMA BeginFacts ==
  ASSUME NEW op, NEW f, NEW d
  PROVE  LET t == Begin(op, f, d)
         IN /\ t.pc = "connect" /\ t.op = op /\ t.n = 0 /\ t.file = f /\ t.dir = d
            /\ t.prim = NoSock /\ t.sec = NoSock /\ t.failed = {}
            /\ t.pieces = NoPieces /\ t.listing = {}
  BY DEF Begin, Prompt

LEMMA CommandFacts ==
  ASSUME StorageInv, NEW c \in Clients, Command(c)
  PROVE  /\ cl[c].pc = "prompt"
         /\ cl'[c].pc \in {"connect", "gone"}
         /\ cl'[c].prim = NoSock /\ cl'[c].sec = NoSock
         /\ cl'[c].n = 0 /\ cl'[c].failed = {}
         /\ cl'[c].pc = "gone" => cl'[c].op = "none" /\ conn' = ClientGone(conn, c)
         /\ cl'[c].pc = "connect" => UNCHANGED conn
         /\ UNCHANGED <<serverVars, timeouts, stored>>
<1>1. cl \in [Clients -> Client]
  BY ClientFacts
<1>2. CASE startPut(c)
  <2>1. PICK f \in Files :
          cl' = [cl EXCEPT ![c] = [Begin("PUT", f, DirOf[f]) EXCEPT !.ver = Len(log) + 1]]
    BY <1>2 DEF startPut
  <2> DEFINE t == [Begin("PUT", f, DirOf[f]) EXCEPT !.ver = Len(log) + 1]
  <2>2. /\ t.pc = "connect" /\ t.n = 0 /\ t.failed = {}
        /\ t.prim = NoSock /\ t.sec = NoSock
    BY DEF Begin, Prompt
  <2>3. cl'[c] = t
    BY <1>1, <2>1
  <2> HIDE DEF t
  <2> QED
    BY <1>2, <2>2, <2>3 DEF startPut, Typed
<1>3. CASE startGet(c)
  <2>1. PICK f \in Files :
          cl' = [cl EXCEPT ![c] = [Begin("GET", f, DirOf[f]) EXCEPT !.since = StoredOf(f)]]
    BY <1>3 DEF startGet
  <2> DEFINE t == [Begin("GET", f, DirOf[f]) EXCEPT !.since = StoredOf(f)]
  <2>2. /\ t.pc = "connect" /\ t.n = 0 /\ t.failed = {}
        /\ t.prim = NoSock /\ t.sec = NoSock
    BY DEF Begin, Prompt
  <2>3. cl'[c] = t
    BY <1>1, <2>1
  <2> HIDE DEF t
  <2> QED
    BY <1>3, <2>2, <2>3 DEF startGet, Typed
<1>4. CASE startList(c)
  BY <1>1, <1>4, BeginFacts DEF startList, Typed
<1>5. CASE startMkDir(c)
  BY <1>1, <1>5, BeginFacts DEF startMkDir, Typed
<1>6. CASE exit(c)
  <2>1. LET t == [Prompt EXCEPT !.pc = "gone"]
        IN /\ t.pc = "gone" /\ t.op = "none" /\ t.n = 0 /\ t.failed = {}
           /\ t.prim = NoSock /\ t.sec = NoSock
    BY DEF Prompt
  <2>2. cl'[c] = [Prompt EXCEPT !.pc = "gone"]
    BY <1>1, <1>6 DEF exit
  <2> QED
    BY <1>6, <2>1, <2>2 DEF exit, Typed
<1> QED
  BY <1>2, <1>3, <1>4, <1>5, <1>6 DEF Command

\* The record of a client that SIGPIPE ends.
LEMMA SigpipeFacts ==
  ASSUME StorageInv, NEW c \in Clients, sendRequestSigpipe(c)
  PROVE  /\ cl'[c].pc = "gone" /\ cl'[c].op = "none"
         /\ cl'[c].prim = NoSock /\ cl'[c].sec = NoSock
         /\ conn' = ClientGone(conn, c)
         /\ conn[Sock(c)].phase = "reset" /\ Sock(c) # NoSock
<1>1. cl \in [Clients -> Client]
  BY ClientFacts
<1>2. LET t == [Prompt EXCEPT !.pc = "gone"]
      IN t.pc = "gone" /\ t.op = "none" /\ t.prim = NoSock /\ t.sec = NoSock
  BY DEF Prompt
<1>3. cl'[c] = [Prompt EXCEPT !.pc = "gone"]
  BY <1>1 DEF sendRequestSigpipe
<1> QED
  BY <1>2, <1>3 DEF sendRequestSigpipe

\* The two records t and r differ in nothing that a GET has gathered.
SameGet(t, r) ==
  /\ t.op = r.op /\ t.n = r.n /\ t.file = r.file /\ t.dir = r.dir /\ t.ver = r.ver
  /\ t.pieces = r.pieces /\ t.failed = r.failed /\ t.listing = r.listing
  /\ t.since = r.since

(***************************************************************************)
(* connectToServer: the client has a fresh connection, or goes on without. *)
(***************************************************************************)
LEMMA ConnectFirstFacts ==
  ASSUME StorageInv, NEW c \in Clients, connectFirst(c)
  PROVE  /\ cl[c].pc = "connect" /\ cl[c].prim = NoSock /\ cl[c].sec = NoSock
         /\ cl[c].op \in {"PUT", "GET", "LIST", "MKDIR"}
         /\ UNCHANGED <<serverVars, log, stored, timeouts>>
         /\ \/ \E k \in Conns :
                 /\ Target(c) \in up /\ conn[k].phase = "free"
                 /\ conn' = [conn EXCEPT ![k] = Opened(Target(c), c)]
                 /\ cl'[c].pc = IF cl[c].op = "PUT" THEN "connect2" ELSE "send"
                 /\ cl'[c].prim = k /\ cl'[c].sec = NoSock
                 /\ SameGet(cl'[c], cl[c])
            \/ /\ Target(c) \notin up /\ UNCHANGED conn
               /\ \/ /\ cl[c].op = "PUT" /\ cl'[c].pc = "connect2"
                     /\ SameGet(cl'[c], cl[c])
                  \/ /\ cl[c].op = "MKDIR" /\ cl'[c].pc = "send"
                     /\ SameGet(cl'[c], cl[c])
                  \/ cl[c].op = "GET" /\ cl'[c] = NotDelivered(cl[c])
                  \/ cl[c].op = "LIST" /\ cl'[c] = NextTurn(cl[c])
               /\ cl'[c].prim = NoSock /\ cl'[c].sec = NoSock
<1> DEFINE r == cl[c]
<1>1. /\ r.pc = "connect" /\ UNCHANGED <<serverVars, log, stored, timeouts>>
  BY DEF connectFirst
<1>2. /\ r \in Client /\ r.prim = NoSock /\ r.sec = NoSock /\ CommandOK(c)
      /\ cl \in [Clients -> Client]
  BY <1>1, ClientFacts DEF SocketsOK
<1>3. r.op \in {"PUT", "GET", "LIST", "MKDIR"}
  BY <1>1, <1>2 DEF CommandOK, Client
<1>4. ASSUME NEW pc, NEW k
      PROVE  LET t == [r EXCEPT !.pc = pc, !.prim = k]
             IN t.pc = pc /\ t.prim = k /\ t.sec = NoSock /\ SameGet(t, r)
  BY <1>2 DEF Client, SameGet
<1>5. ASSUME NEW pc
      PROVE  LET t == [r EXCEPT !.pc = pc]
             IN t.pc = pc /\ t.prim = NoSock /\ t.sec = NoSock /\ SameGet(t, r)
  BY <1>2 DEF Client, SameGet
<1>6. ASSUME NEW k \in Conns, FreeSlot(k), NEW pc, Target(c) \in up,
             conn' = [conn EXCEPT ![k] = Opened(Target(c), c)],
             pc = IF r.op = "PUT" THEN "connect2" ELSE "send",
             cl' = [cl EXCEPT ![c].pc = pc, ![c].prim = k]
      PROVE  /\ Target(c) \in up /\ conn[k].phase = "free"
             /\ conn' = [conn EXCEPT ![k] = Opened(Target(c), c)]
             /\ cl'[c].pc = IF cl[c].op = "PUT" THEN "connect2" ELSE "send"
             /\ cl'[c].prim = k /\ cl'[c].sec = NoSock
             /\ SameGet(cl'[c], cl[c])
  <2> DEFINE t == [r EXCEPT !.pc = pc, !.prim = k]
  <2>1. cl'[c] = t
    BY <1>2, <1>6 DEF Client
  <2>2. t.pc = pc /\ t.prim = k /\ t.sec = NoSock /\ SameGet(t, r)
    BY <1>4
  <2> HIDE DEF t
  <2>3. conn[k].phase = "free"
    BY <1>6 DEF FreeSlot
  <2> QED
    BY <1>6, <2>1, <2>2, <2>3
<1>7. ASSUME NEW t, cl' = [cl EXCEPT ![c] = t] PROVE cl'[c] = t
  BY <1>2, <1>7
<1>8. Settled(NotDelivered(r), r) /\ Settled(NextTurn(r), r)
  BY <1>2, NotDeliveredOK, TurnsSettle
<1>9. ASSUME Target(c) \notin up, UNCHANGED conn,
             cl' = [cl EXCEPT ![c] =
                CASE r.op = "PUT"   -> [r EXCEPT !.pc = "connect2"]
                  [] r.op = "GET"   -> NotDelivered(r)
                  [] r.op = "LIST"  -> NextTurn(r)
                  [] r.op = "MKDIR" -> [r EXCEPT !.pc = "send"]]
      PROVE  /\ \/ /\ r.op = "PUT" /\ cl'[c].pc = "connect2"
                   /\ SameGet(cl'[c], r)
                \/ /\ r.op = "MKDIR" /\ cl'[c].pc = "send"
                   /\ SameGet(cl'[c], r)
                \/ r.op = "GET" /\ cl'[c] = NotDelivered(r)
                \/ r.op = "LIST" /\ cl'[c] = NextTurn(r)
             /\ cl'[c].prim = NoSock /\ cl'[c].sec = NoSock
  <2>1. cl'[c] = CASE r.op = "PUT"   -> [r EXCEPT !.pc = "connect2"]
                  [] r.op = "GET"   -> NotDelivered(r)
                  [] r.op = "LIST"  -> NextTurn(r)
                  [] r.op = "MKDIR" -> [r EXCEPT !.pc = "send"]
    BY <1>7, <1>9
  <2>2. CASE r.op = "PUT"
    BY <1>5, <2>1, <2>2
  <2>3. CASE r.op = "GET"
    BY <1>8, <2>1, <2>3 DEF Settled
  <2>4. CASE r.op = "LIST"
    BY <1>8, <2>1, <2>4 DEF Settled
  <2>5. CASE r.op = "MKDIR"
    BY <1>5, <2>1, <2>5
  <2> QED
    BY <1>3, <2>2, <2>3, <2>4, <2>5
<1>10. CASE Target(c) \in up
  BY <1>1, <1>2, <1>3, <1>6, <1>10 DEF connectFirst
<1>11. CASE Target(c) \notin up
  BY <1>1, <1>2, <1>3, <1>9, <1>11 DEF connectFirst
<1> QED
  BY <1>10, <1>11

LEMMA ConnectSecondFacts ==
  ASSUME StorageInv, NEW c \in Clients, connectSecond(c)
  PROVE  LET r == cl[c]
             t == cl'[c]
             s == Secondary(r.n, log[r.ver].bin)
         IN /\ r.pc = "connect2" /\ r.op = "PUT" /\ r.sec = NoSock /\ s \in Servers
            /\ UNCHANGED <<serverVars, log, stored, timeouts>>
            /\ \/ \E k \in Conns :
                    /\ s \in up /\ conn[k].phase = "free" /\ r.prim # NoSock
                    /\ conn' = [conn EXCEPT ![k] = Opened(s, c)]
                    /\ t.pc = "send" /\ t.prim = r.prim /\ t.sec = k /\ SameGet(t, r)
               \/ \E k \in Conns :
                    /\ s \in up /\ conn[k].phase = "free" /\ r.prim = NoSock
                    /\ conn' = [conn EXCEPT ![k] = Abandoned(Opened(s, c), "closed")]
                    /\ t = NextTurn(r)
               \/ /\ s \notin up /\ UNCHANGED conn /\ r.prim # NoSock
                  /\ t.pc = "send" /\ t.prim = r.prim /\ t.sec = NoSock /\ SameGet(t, r)
               \/ /\ s \notin up /\ UNCHANGED conn /\ r.prim = NoSock
                  /\ t = NextTurn(r)
<1> DEFINE r == cl[c]
           t == cl'[c]
           s == Secondary(r.n, log[r.ver].bin)
<1>1. r.pc = "connect2" /\ UNCHANGED <<serverVars, log, stored, timeouts>>
  BY DEF connectSecond
<1>2. /\ r \in Client /\ r.sec = NoSock /\ r.op = "PUT" /\ cl \in [Clients -> Client]
  BY <1>1, ClientFacts DEF SocketsOK, CommandOK
<1>3. s \in Servers
  BY <1>2, PutServers
<1>4. ASSUME NEW k \in Conns
      PROVE  LET u == [r EXCEPT !.pc = "send", !.sec = k]
             IN u.pc = "send" /\ u.prim = r.prim /\ u.sec = k /\ SameGet(u, r)
  BY <1>2 DEF Client, SameGet
<1>5. LET u == [r EXCEPT !.pc = "send"]
      IN u.pc = "send" /\ u.prim = r.prim /\ u.sec = NoSock /\ SameGet(u, r)
  BY <1>2 DEF Client, SameGet
<1> HIDE DEF s
<1>6. ASSUME NEW k \in Conns, cl' = [cl EXCEPT ![c].pc = "send", ![c].sec = k]
      PROVE  t.pc = "send" /\ t.prim = r.prim /\ t.sec = k /\ SameGet(t, r)
  <2> DEFINE u == [r EXCEPT !.pc = "send", !.sec = k]
  <2>1. t = u
    BY <1>2, <1>6 DEF Client
  <2>2. u.pc = "send" /\ u.prim = r.prim /\ u.sec = k /\ SameGet(u, r)
    BY <1>4
  <2> HIDE DEF u
  <2> QED
    BY <2>1, <2>2
<1>7. ASSUME cl' = [cl EXCEPT ![c] = [r EXCEPT !.pc = "send"]]
      PROVE  t.pc = "send" /\ t.prim = r.prim /\ t.sec = NoSock /\ SameGet(t, r)
  <2>1. t = [r EXCEPT !.pc = "send"]
    BY <1>2, <1>7
  <2> QED
    BY <1>5, <2>1
<1>8. ASSUME cl' = [cl EXCEPT ![c] = NextTurn(r)] PROVE t = NextTurn(r)
  BY <1>2, <1>8
<1>9. CASE s \in up
  <2>1. PICK k \in Conns :
          /\ FreeSlot(k)
          /\ IF r.prim # NoSock
             THEN /\ conn' = [conn EXCEPT ![k] = Opened(s, c)]
                  /\ cl' = [cl EXCEPT ![c].pc = "send", ![c].sec = k]
             ELSE /\ conn' = [conn EXCEPT ![k] = Abandoned(Opened(s, c), "closed")]
                  /\ cl' = [cl EXCEPT ![c] = NextTurn(r)]
    BY <1>9 DEF connectSecond, s
  <2>2. conn[k].phase = "free"
    BY <2>1 DEF FreeSlot
  <2>3. CASE r.prim # NoSock
    <3>1. t.pc = "send" /\ t.prim = r.prim /\ t.sec = k /\ SameGet(t, r)
      BY <1>6, <2>1, <2>3
    <3> QED
      BY <1>1, <1>2, <1>3, <1>9, <2>1, <2>2, <2>3, <3>1 DEF s
  <2>4. CASE r.prim = NoSock
    BY <1>1, <1>2, <1>3, <1>8, <1>9, <2>1, <2>2, <2>4 DEF s
  <2> QED
    BY <2>3, <2>4
<1>10. CASE s \notin up
  <2>1. /\ UNCHANGED conn
        /\ cl' = [cl EXCEPT ![c] = IF r.prim # NoSock THEN [r EXCEPT !.pc = "send"]
                                   ELSE NextTurn(r)]
    BY <1>10 DEF connectSecond, s
  <2>2. CASE r.prim # NoSock
    <3>1. t.pc = "send" /\ t.prim = r.prim /\ t.sec = NoSock /\ SameGet(t, r)
      BY <1>7, <2>1, <2>2
    <3> QED
      BY <1>1, <1>2, <1>3, <1>10, <2>1, <2>2, <3>1 DEF s
  <2>3. CASE r.prim = NoSock
    BY <1>1, <1>2, <1>3, <1>8, <1>10, <2>1, <2>3 DEF s
  <2> QED
    BY <2>2, <2>3
<1> QED
  BY <1>9, <1>10

(***************************************************************************)
(* A step in which client c moves on in its command with what it has.      *)
(***************************************************************************)
LEMMA PcFacts ==
  ASSUME StorageInv, NEW c \in Clients, NEW pc, cl' = [cl EXCEPT ![c].pc = pc]
  PROVE  /\ cl'[c].pc = pc /\ cl'[c].prim = cl[c].prim /\ cl'[c].sec = cl[c].sec
         /\ SameGet(cl'[c], cl[c])
<1>1. cl \in [Clients -> Client] /\ cl[c] \in Client
  BY ClientFacts
<1>2. cl'[c] = [cl[c] EXCEPT !.pc = pc]
  BY <1>1
<1> QED
  BY <1>1, <1>2 DEF Client, SameGet

LEMMA SendFacts ==
  ASSUME StorageInv, NEW c \in Clients, sendRequest(c)
  PROVE  LET r == cl[c]
             t == cl'[c]
             k == Sock(c)
         IN /\ r.pc \in {"send", "send2"} /\ t.pc = Sent(r.pc)
            /\ t.prim = r.prim /\ t.sec = r.sec /\ SameGet(t, r)
            /\ k # NoSock /\ k \in Conns
            /\ k = IF r.pc = "send" THEN r.prim ELSE r.sec
            /\ r.pc = "send2" => r.op = "PUT"
            /\ UNCHANGED <<serverVars, log, stored, timeouts>>
            /\ \/ /\ conn[k].phase = "request"
                  /\ \E q \in Connection :
                       /\ conn' = [conn EXCEPT ![k] = q]
                       /\ q.phase = "handle" /\ q.req = RequestOf(c)
                       /\ q.srv = conn[k].srv /\ q.cli = conn[k].cli
                       /\ q.peer = conn[k].peer /\ q.found = conn[k].found
                       /\ q.reply = conn[k].reply /\ q.i = conn[k].i
                       /\ q.flushed = conn[k].flushed
               \/ conn[k].phase = "reset" /\ UNCHANGED conn
<1> DEFINE r == cl[c]
           k == Sock(c)
           q == [conn[k] EXCEPT !.phase = "handle", !.req = RequestOf(c)]
<1>1. /\ r.pc \in {"send", "send2"} /\ k # NoSock
      /\ UNCHANGED <<serverVars, log, stored, timeouts>>
      /\ cl' = [cl EXCEPT ![c].pc = Sent(r.pc)]
  <2>1. cl' = [cl EXCEPT ![c].pc = Sent(@)]
    BY DEF sendRequest
  <2>2. cl' = [cl EXCEPT ![c].pc = Sent(r.pc)]
    BY <2>1
  <2> QED
    BY <2>2 DEF sendRequest
<1>2. /\ cl'[c].pc = Sent(r.pc) /\ cl'[c].prim = r.prim /\ cl'[c].sec = r.sec
      /\ SameGet(cl'[c], r)
  BY <1>1, PcFacts
<1>3. k = IF r.pc = "send" THEN r.prim ELSE r.sec
  BY <1>1 DEF Sock
<1>4. k \in Conns /\ conn \in [Conns -> Connection] /\ conn[k] \in Connection
  BY <1>1, <1>3, Sockets, ClientFacts
<1>5. r.pc = "send2" => r.op = "PUT"
  BY ClientFacts DEF CommandOK
<1>6. CASE /\ conn[k].phase = "request"
           /\ conn' = [conn EXCEPT ![k].phase = "handle", ![k].req = RequestOf(c)]
  <2>1. conn' = [conn EXCEPT ![k] = q] /\ q = conn'[k]
    BY <1>4, <1>6 DEF Connection
  <2>2. conn' \in [Conns -> Connection]
    BY StepHolds DEF StorageInv, TypeOK, ServerTypeOK, Next, ClientNext, Step
  <2>3. q \in Connection
    BY <1>4, <2>1, <2>2
  <2>4. /\ q.phase = "handle" /\ q.req = RequestOf(c)
        /\ q.srv = conn[k].srv /\ q.cli = conn[k].cli
        /\ q.peer = conn[k].peer /\ q.found = conn[k].found
        /\ q.reply = conn[k].reply /\ q.i = conn[k].i
        /\ q.flushed = conn[k].flushed
    BY <1>4 DEF Connection
  <2> HIDE DEF q
  <2> QED
    BY <1>1, <1>2, <1>3, <1>4, <1>5, <1>6, <2>1, <2>3, <2>4
<1>7. CASE conn[k].phase = "reset" /\ UNCHANGED conn
  BY <1>1, <1>2, <1>3, <1>4, <1>5, <1>7
<1> QED
  BY <1>6, <1>7 DEF sendRequest

LEMMA SpinFacts ==
  ASSUME StorageInv, NEW c \in Clients, sendRequestNoSock(c) \/ getResponseCut(c)
  PROVE  /\ cl'[c].pc = "spin" /\ cl'[c].prim = cl[c].prim /\ cl'[c].sec = cl[c].sec
         /\ SameGet(cl'[c], cl[c])
         /\ UNCHANGED <<conn, serverVars, log, stored, timeouts>>
         /\ \/ cl[c].pc \in {"send", "send2"} /\ Sock(c) = NoSock
            \/ Receiving(c) /\ conn[Sock(c)].phase = "cut"
<1>1. cl' = [cl EXCEPT ![c].pc = "spin"]
  BY DEF sendRequestNoSock, getResponseCut
<1> QED
  BY <1>1, PcFacts DEF sendRequestNoSock, getResponseCut

LEMMA ContinueFacts ==
  ASSUME StorageInv, NEW c \in Clients, NEW table, NEW got \in BOOLEAN,
         Continue(c, table, got)
  PROVE  LET r == cl[c]
             t == cl'[c]
             k == Sock(c)
         IN \/ /\ r.op = "PUT" /\ r.pc = "recv" /\ t.pc = "send2"
               /\ t.prim = r.prim /\ t.sec = r.sec /\ SameGet(t, r)
               /\ conn' = table
            \/ /\ r.op = "PUT" /\ r.pc = "recv2" /\ t = NextTurn(r)
               /\ conn' = Closing(table, {r.prim, r.sec})
            \/ /\ r.op = "GET"
               /\ t = IF got /\ table[k].reply = "ok" THEN Delivered(r, table[k].found)
                      ELSE NotDelivered(r)
               /\ conn' = Closing(table, {k})
            \/ /\ r.op = "LIST"
               /\ t = NextTurn([r EXCEPT !.listing = IF got THEN @ \cup table[k].list ELSE @])
               /\ conn' = IF r.n = 3 THEN Closing(table, {k}) ELSE Leaking(table, k)
            \/ /\ r.op = "MKDIR" /\ t = NextTurn(r)
               /\ conn' = Closing(table, {k})
<1> DEFINE r == cl[c]
           t == cl'[c]
           k == Sock(c)
<1>1. cl \in [Clients -> Client]
  BY ClientFacts
<1>2. ASSUME NEW u, cl' = [cl EXCEPT ![c] = u] PROVE t = u
  BY <1>1, <1>2
<1>3. CASE /\ r.op = "PUT" /\ r.pc = "recv" /\ cl' = [cl EXCEPT ![c].pc = "send2"]
           /\ conn' = table
  BY <1>3, PcFacts
<1>4. CASE /\ r.op = "PUT" /\ r.pc = "recv2" /\ cl' = [cl EXCEPT ![c] = NextTurn(r)]
           /\ conn' = Closing(table, {r.prim, r.sec})
  BY <1>2, <1>4
<1>5. CASE /\ r.op = "GET"
           /\ cl' = [cl EXCEPT ![c] = IF got /\ table[k].reply = "ok"
                                      THEN Delivered(r, table[k].found) ELSE NotDelivered(r)]
           /\ conn' = Closing(table, {k})
  BY <1>2, <1>5
<1>6. CASE /\ r.op = "LIST"
           /\ cl' = [cl EXCEPT ![c] = NextTurn(
                [r EXCEPT !.listing = IF got THEN @ \cup table[k].list ELSE @])]
           /\ conn' = IF r.n = 3 THEN Closing(table, {k}) ELSE Leaking(table, k)
  BY <1>2, <1>6
<1>7. CASE r.op = "MKDIR" /\ cl' = [cl EXCEPT ![c] = NextTurn(r)] /\ conn' = Closing(table, {k})
  BY <1>2, <1>7
<1> QED
  BY <1>3, <1>4, <1>5, <1>6, <1>7 DEF Continue

\* After an answer the client is at its second send or has no sockets.
LEMMA ContinueSettles ==
  ASSUME StorageInv, NEW c \in Clients, NEW table \in [Conns -> Connection],
         NEW got \in BOOLEAN, Continue(c, table, got), Sock(c) \in Conns,
         cl[c].pc \in {"recv", "recv2"}
  PROVE  \/ /\ cl[c].op = "PUT" /\ cl[c].pc = "recv" /\ cl'[c].pc = "send2"
            /\ cl'[c].prim = cl[c].prim /\ cl'[c].sec = cl[c].sec
            /\ SameGet(cl'[c], cl[c]) /\ conn' = table
         \/ Settled(cl'[c], cl[c])
<1> DEFINE r == cl[c]
           t == cl'[c]
           k == Sock(c)
<1>1. r \in Client /\ (r.op # "PUT" => r.sec = NoSock)
  BY ClientFacts DEF SocketsOK
<1>2. Settled(NextTurn(r), r)
  BY <1>1, TurnsSettle
<1>3. table[k].found \in [Pieces -> Content] /\ table[k].list \in SUBSET (Files \X Pieces)
  BY DEF Connection
<1>4. r.op = "GET" => Settled(NotDelivered(r), r) /\ Settled(Delivered(r, table[k].found), r)
  BY <1>1, <1>3, NotDeliveredOK, DeliveredOK
<1>5. ASSUME NEW l \in SUBSET (Files \X Pieces)
      PROVE  Settled(NextTurn([r EXCEPT !.listing = l]), r)
  <2> DEFINE a == [r EXCEPT !.listing = l]
  <2>1. a \in Client /\ a.op = r.op /\ a.file = r.file /\ a.ver = r.ver
    BY <1>1 DEF Client
  <2> HIDE DEF a
  <2>2. Settled(NextTurn(a), a)
    BY <2>1, TurnsSettle
  <2>3. Settled(NextTurn(a), r)
    BY <2>1, <2>2 DEF Settled
  <2> QED
    BY <2>3 DEF a
<1>6. ASSUME r.op = "LIST",
             t = NextTurn([r EXCEPT !.listing = IF got THEN @ \cup table[k].list ELSE @])
      PROVE  Settled(t, r)
  <2> DEFINE l == IF got THEN r.listing \cup table[k].list ELSE r.listing
  <2>1. l \in SUBSET (Files \X Pieces)
    BY <1>1, <1>3 DEF Client
  <2>2. t = NextTurn([r EXCEPT !.listing = l])
    BY <1>6
  <2> HIDE DEF l
  <2> QED
    BY <1>5, <2>1, <2>2
<1> QED
  BY <1>2, <1>4, <1>6, ContinueFacts

(***************************************************************************)
(* A client's step keeps its own exchange in order: what it reads is the   *)
(* answer to what it has sent on that socket.                              *)
(***************************************************************************)
LEMMA ClientExchange ==
  ASSUME StorageInv, ExchangesOK, NEW c \in Clients, Act(c)
  PROVE  ExchangeOK(c)'
<1> DEFINE r == cl[c]
           t == cl'[c]
<1>1. ExchangeOK(c) /\ conn \in [Conns -> Connection]
  BY ClientFacts DEF ExchangesOK
<1>2. ASSUME NEW s, NEW k \in Conns, conn' = [conn EXCEPT ![k] = Opened(s, c)]
      PROVE  conn'[k].phase = "request" /\ \A j \in Conns : j # k => conn'[j] = conn[j]
  BY <1>1, <1>2 DEF Opened, Free
<1>3. CASE Command(c)
  BY <1>3, CommandFacts, NoExchange
<1>4. CASE connectFirst(c)
  <2>1. \/ \E k \in Conns :
             /\ conn' = [conn EXCEPT ![k] = Opened(Target(c), c)]
             /\ t.pc \in {"connect2", "send"} /\ t.prim = k /\ t.sec = NoSock
        \/ t.prim = NoSock /\ t.sec = NoSock
    BY <1>4, ConnectFirstFacts
  <2>2. t.pc \notin {"recv", "recv2"}
    <3>1. Settled(NotDelivered(r), r) /\ Settled(NextTurn(r), r)
      BY <1>4, ConnectFirstFacts, ClientFacts, NotDeliveredOK, TurnsSettle
    <3> QED
      BY <1>4, <3>1, ConnectFirstFacts DEF Settled
  <2> QED
    BY <1>2, <2>1, <2>2 DEF ExchangeOK, Unasked
<1>5. CASE connectSecond(c)
  <2> DEFINE s == Secondary(r.n, log[r.ver].bin)
  <2>1. \/ \E k \in Conns :
             /\ conn[k].phase = "free" /\ r.prim # NoSock
             /\ conn' = [conn EXCEPT ![k] = Opened(s, c)]
             /\ t.pc = "send" /\ t.prim = r.prim /\ t.sec = k
        \/ t = NextTurn(r)
        \/ UNCHANGED conn /\ t.pc = "send" /\ t.prim = r.prim /\ t.sec = NoSock
    BY <1>5, ConnectSecondFacts
  <2>2. r.prim # NoSock => /\ r.prim \in Conns /\ conn[r.prim].phase # "free"
                           /\ Unasked(r.prim)
    BY <1>1, <1>5, Sockets, ConnectSecondFacts DEF ExchangeOK
  <2>3. CASE t = NextTurn(r)
    BY <2>3, ClientFacts, TurnsSettle, NoExchange DEF Settled
  <2>4. ASSUME NEW k \in Conns, conn[k].phase = "free", r.prim # NoSock,
               conn' = [conn EXCEPT ![k] = Opened(s, c)],
               t.pc = "send", t.prim = r.prim, t.sec = k
        PROVE  ExchangeOK(c)'
    <3>1. conn'[k].phase = "request" /\ \A j \in Conns : j # k => conn'[j] = conn[j]
      BY <1>2, <2>4
    <3>2. conn'[r.prim].phase \in {"request", "reset"}
      BY <2>2, <2>4, <3>1 DEF Unasked
    <3> QED
      BY <2>4, <3>1, <3>2 DEF ExchangeOK, Unasked
  <2>5. CASE UNCHANGED conn /\ t.pc = "send" /\ t.prim = r.prim /\ t.sec = NoSock
    BY <2>2, <2>5 DEF ExchangeOK, Unasked
  <2> QED
    BY <2>1, <2>3, <2>4, <2>5
<1>6. CASE sendRequest(c)
  <2>1. PICK k \in Conns : k = Sock(c)
    BY <1>6, SendFacts
  <2>2. /\ r.pc \in {"send", "send2"} /\ t.pc = Sent(r.pc) /\ SameGet(t, r)
        /\ t.prim = r.prim /\ t.sec = r.sec /\ k # NoSock
        /\ k = IF r.pc = "send" THEN r.prim ELSE r.sec
        /\ \/ \E q \in Connection :
                /\ conn' = [conn EXCEPT ![k] = q]
                /\ q.phase = "handle" /\ q.req = RequestOf(c)
           \/ conn[k].phase = "reset" /\ UNCHANGED conn
    BY <1>6, <2>1, SendFacts
  <2>3. RequestOf(c)' = RequestOf(c)
    BY <2>2 DEF RequestOf, SameGet
  <2>4. /\ \A j \in Conns : j # k => conn'[j] = conn[j]
        /\ \/ conn'[k].phase = "reset"
           \/ conn'[k].phase = "handle" /\ conn'[k].req = RequestOf(c)
    BY <1>1, <2>2
  <2>5. Asked(c, k)'
    BY <2>3, <2>4 DEF Asked
  <2>6. r.pc = "send" /\ r.sec # NoSock => Unasked(r.sec) /\ r.sec \in Conns /\ r.sec # k
    BY <1>1, <2>2, Sockets DEF ExchangeOK
  <2>7. r.pc = "send" /\ r.sec # NoSock => conn'[r.sec].phase \in {"request", "reset"}
    BY <2>4, <2>6 DEF Unasked
  <2>8. CASE r.pc = "send"
    <3>1. t.pc = "recv" /\ t.prim = k
      BY <2>2, <2>8 DEF Sent
    <3> QED
      BY <2>2, <2>5, <2>7, <2>8, <3>1 DEF ExchangeOK, Unasked
  <2>9. CASE r.pc = "send2"
    <3>1. t.pc = "recv2" /\ t.sec = k
      BY <2>2, <2>9 DEF Sent
    <3> QED
      BY <2>2, <2>5, <3>1 DEF ExchangeOK, Unasked
  <2> QED
    BY <2>2, <2>8, <2>9
<1>7. CASE sendRequestSigpipe(c)
  BY <1>7, SigpipeFacts, NoExchange
<1>8. CASE sendRequestNoSock(c) \/ getResponseCut(c)
  BY <1>8, SpinFacts DEF ExchangeOK
<1>9. CASE getResponse(c) \/ getResponseTimeout(c)
  <2>1. PICK table \in [Conns -> Connection], got \in BOOLEAN :
          ReadTable(c, table) /\ Continue(c, table, got)
    BY <1>9, Receives
  <2>2. Sock(c) \in Conns /\ r.pc \in {"recv", "recv2"}
    BY <1>9, Receives
  <2>3. CASE Settled(t, r)
    BY <2>3, NoExchange DEF Settled
  <2>4. CASE /\ r.op = "PUT" /\ r.pc = "recv" /\ t.pc = "send2"
             /\ t.prim = r.prim /\ t.sec = r.sec /\ conn' = table
    <3>1. r.sec # NoSock => r.sec \in Conns /\ r.sec # Sock(c) /\ Unasked(r.sec)
      BY <1>1, <2>4, Sockets DEF ExchangeOK, Sock
    <3>2. r.sec # NoSock => conn'[r.sec] = conn[r.sec]
      BY <2>1, <2>4, <3>1 DEF ReadTable
    <3> QED
      BY <2>4, <3>1, <3>2 DEF ExchangeOK, Unasked
  <2> QED
    BY <2>1, <2>2, <2>3, <2>4, ContinueSettles
<1> QED
  BY <1>3, <1>4, <1>5, <1>6, <1>7, <1>8, <1>9 DEF Act, Step

-----------------------------------------------------------------------------
\* handleGet.

(***************************************************************************)
(* handleGet's order of servers, field by field: after 0 comes 2 or 1,     *)
(* after 1 comes 3, and 1, 2 and 3 may be the last.                        *)
(***************************************************************************)
LEMMA GetTurnFacts ==
  ASSUME NEW r \in Client
  PROVE  /\ LET y == GetTurn(r, TRUE)
            IN /\ y.op = r.op /\ y.file = r.file /\ y.dir = r.dir
               /\ y.failed = r.failed /\ y.pieces = r.pieces /\ y.since = r.since
               /\ \/ r.n = 0 /\ y.pc = "connect" /\ y.n = 2
                  \/ r.n = 1 /\ y.pc = "connect" /\ y.n = 3
                  \/ r.n \in {2, 3} /\ y.pc = "prompt" /\ y.outcome = "complete"
         /\ LET z == GetTurn(r, FALSE)
            IN /\ z.op = r.op /\ z.file = r.file /\ z.dir = r.dir
               /\ z.failed = r.failed /\ z.pieces = r.pieces /\ z.since = r.since
               /\ \/ r.n \in {0, 2} /\ z.pc = "connect" /\ z.n = 1
                  \/ r.n \in {1, 3} /\ z.pc = "prompt" /\ z.outcome = "incomplete"
<1> DEFINE A(m) == [r EXCEPT !.pc = "connect", !.n = m, !.prim = NoSock]
           Same(t) == /\ t.op = r.op /\ t.file = r.file /\ t.dir = r.dir
                      /\ t.failed = r.failed /\ t.pieces = r.pieces /\ t.since = r.since
           y == GetTurn(r, TRUE)
           z == GetTurn(r, FALSE)
<1>1. ASSUME NEW m PROVE A(m).pc = "connect" /\ A(m).n = m /\ Same(A(m))
  BY DEF Client
<1>2. ASSUME NEW o
      PROVE  LET u == Finished(r, o)
             IN u.pc = "prompt" /\ u.outcome = o /\ Same(u)
  BY DEF Client, Finished
<1>3. r.n \in 0..3
  BY DEF Client
<1> HIDE DEF Same
<1>4. /\ r.n = 0 => y = A(2)
      /\ r.n = 1 => y = A(3)
      /\ r.n \in {2, 3} => y = Finished(r, "complete")
      /\ r.n \in {0, 2} => z = A(1)
      /\ r.n \in {1, 3} => z = Finished(r, "incomplete")
  BY DEF GetTurn
<1> HIDE DEF A, y, z
<1>5. /\ Same(y)
      /\ \/ r.n = 0 /\ y.pc = "connect" /\ y.n = 2
         \/ r.n = 1 /\ y.pc = "connect" /\ y.n = 3
         \/ r.n \in {2, 3} /\ y.pc = "prompt" /\ y.outcome = "complete"
  BY <1>1, <1>2, <1>3, <1>4
<1>6. /\ Same(z)
      /\ \/ r.n \in {0, 2} /\ z.pc = "connect" /\ z.n = 1
         \/ r.n \in {1, 3} /\ z.pc = "prompt" /\ z.outcome = "incomplete"
  BY <1>1, <1>2, <1>3, <1>4
<1> QED
  BY <1>5, <1>6 DEF Same, y, z

(***************************************************************************)
(* A server that did not deliver: handleGet goes on to the next one, or    *)
(* two neighbours have failed.                                             *)
(***************************************************************************)
LEMMA NotDeliveredGet ==
  ASSUME StorageInv, NEW c \in Clients, cl[c].op = "GET", TurnOK(c), LogGrows,
         cl'[c] = NotDelivered(cl[c])
  PROVE  GetOK(c)'
<1> DEFINE r == cl[c]
           t == cl'[c]
           a == [r EXCEPT !.failed = @ \cup {r.n}]
<1>1. r \in Client /\ r.n \in 0..3
  BY ClientFacts DEF Client
<1>2. /\ a \in Client /\ a.op = r.op /\ a.file = r.file /\ a.failed = r.failed \cup {r.n}
      /\ a.pieces = r.pieces /\ a.n = r.n
  BY <1>1 DEF Client, Servers
<1>3. t = GetTurn(a, FALSE)
  BY DEF NotDelivered
<1> HIDE DEF a
<1>4. /\ t.op = "GET" /\ t.file = r.file /\ t.failed = r.failed \cup {r.n}
      /\ t.pieces = r.pieces
      /\ \/ r.n \in {0, 2} /\ t.pc = "connect" /\ t.n = 1
         \/ r.n \in {1, 3} /\ t.pc = "prompt" /\ t.outcome = "incomplete"
  <2> DEFINE z == GetTurn(a, FALSE)
  <2>1. /\ z.op = a.op /\ z.file = a.file /\ z.failed = a.failed /\ z.pieces = a.pieces
        /\ \/ a.n \in {0, 2} /\ z.pc = "connect" /\ z.n = 1
           \/ a.n \in {1, 3} /\ z.pc = "prompt" /\ z.outcome = "incomplete"
    BY <1>2, GetTurnFacts
  <2> HIDE DEF z
  <2> QED
    BY <1>2, <1>3, <2>1 DEF z
<1>5. CASE r.n \in {0, 2} /\ t.pc = "connect" /\ t.n = 1
  <2>1. t.failed \in {{0}, {2}}
    BY <1>4, <1>5 DEF TurnOK
  <2> QED
    BY <1>4, <1>5, <2>1 DEF GetOK, TurnOK
<1>6. CASE r.n \in {1, 3} /\ t.pc = "prompt" /\ t.outcome = "incomplete"
  <2>1. r.failed \in {{0}, {2}}
    BY <1>6 DEF TurnOK
  <2>2. \E s \in Servers : {s, (s + 1) % 4} \subseteq t.failed
    <3>1. CASE r.n = 1 /\ r.failed = {0}
      <4>1. {0, (0 + 1) % 4} = {0, 1}
        OBVIOUS
      <4> QED
        BY <1>4, <3>1, <4>1 DEF Servers
    <3>2. CASE r.n = 1 /\ r.failed = {2}
      <4>1. {1, (1 + 1) % 4} = {1, 2}
        OBVIOUS
      <4> QED
        BY <1>4, <3>2, <4>1 DEF Servers
    <3>3. CASE r.n = 3 /\ r.failed = {0}
      <4>1. {3, (3 + 1) % 4} = {3, 0}
        OBVIOUS
      <4> QED
        BY <1>4, <3>3, <4>1 DEF Servers
    <3>4. CASE r.n = 3 /\ r.failed = {2}
      <4>1. {2, (2 + 1) % 4} = {2, 3}
        OBVIOUS
      <4> QED
        BY <1>4, <3>4, <4>1 DEF Servers
    <3> QED
      BY <1>6, <2>1, <3>1, <3>2, <3>3, <3>4
  <2> QED
    BY <1>4, <1>6, <2>2 DEF GetOK, ResultOK
<1> QED
  BY <1>4, <1>5, <1>6

(***************************************************************************)
(* A server that delivered: the two pieces of its answer are in the map.   *)
(***************************************************************************)
LEMMA DeliveredGet ==
  ASSUME StorageInv, NEW c \in Clients, cl[c].op = "GET", TurnOK(c), LogGrows,
         NEW found \in [Pieces -> Content], c \in Authorized, GetDone(found),
         \A i \in Pieces : found[i] # Absent => Placed(cl[c].n, cl[c].file, i),
         cl'[c] = Delivered(cl[c], found)
  PROVE  GetOK(c)'
<1> DEFINE r == cl[c]
           t == cl'[c]
           p == [i \in Pieces |-> IF found[i] # Absent THEN found[i] ELSE r.pieces[i]]
           a == [r EXCEPT !.pieces = p]
<1>1. r \in Client /\ r.n \in 0..3
  BY ClientFacts DEF Client
<1>2. /\ p \in [Pieces -> Content]
      /\ \A i \in Pieces : p[i] # Absent <=> found[i] # Absent \/ r.pieces[i] # Absent
  BY <1>1 DEF Client
<1>3. t = GetTurn(a, TRUE)
  BY DEF Delivered
<1> HIDE DEF p
<1>4. /\ a \in Client /\ a.op = r.op /\ a.file = r.file /\ a.failed = r.failed
      /\ a.pieces = p /\ a.n = r.n
  BY <1>1, <1>2 DEF Client
<1> HIDE DEF a
<1>5. /\ t.op = "GET" /\ t.file = r.file /\ t.failed = r.failed /\ t.pieces = p
      /\ \/ r.n = 0 /\ t.pc = "connect" /\ t.n = 2
         \/ r.n = 1 /\ t.pc = "connect" /\ t.n = 3
         \/ r.n \in {2, 3} /\ t.pc = "prompt" /\ t.outcome = "complete"
  <2> DEFINE y == GetTurn(a, TRUE)
  <2>1. /\ y.op = a.op /\ y.file = a.file /\ y.failed = a.failed /\ y.pieces = a.pieces
        /\ \/ a.n = 0 /\ y.pc = "connect" /\ y.n = 2
           \/ a.n = 1 /\ y.pc = "connect" /\ y.n = 3
           \/ a.n \in {2, 3} /\ y.pc = "prompt" /\ y.outcome = "complete"
    BY <1>4, GetTurnFacts
  <2> HIDE DEF y
  <2> QED
    BY <1>3, <1>4, <2>1 DEF y
<1>6. ASSUME NEW s, Brought(c, s) PROVE Brought(c, s)'
  <2>1. PICK i \in Pieces, j \in Pieces :
          /\ i # j
          /\ r.pieces[i] # Absent /\ Placed(s, r.file, i)
          /\ r.pieces[j] # Absent /\ Placed(s, r.file, j)
    BY <1>6 DEF Brought
  <2>2. Placed(s, r.file, i)' /\ Placed(s, r.file, j)' /\ p[i] # Absent /\ p[j] # Absent
    <3>1. ASSUME NEW f, f = r.file PROVE Placed(s, f, i)' /\ Placed(s, f, j)'
      BY <2>1, <3>1, PlacedStays
    <3> QED
      BY <1>2, <1>5, <2>1, <3>1
  <2> QED
    BY <1>5, <2>1, <2>2 DEF Brought
<1>7. ASSUME NEW s, s = r.n PROVE Brought(c, s)'
  <2>1. PICK i \in Pieces, j \in Pieces : i # j /\ found[i] # Absent /\ found[j] # Absent
    BY DEF GetDone
  <2>2. ASSUME NEW f, f = r.file PROVE Placed(s, f, i)' /\ Placed(s, f, j)'
    BY <1>7, <2>1, <2>2, PlacedStays
  <2>3. p[i] # Absent /\ p[j] # Absent
    BY <1>2, <2>1
  <2> QED
    BY <1>5, <2>1, <2>2, <2>3 DEF Brought
<1>8. CASE r.n = 0 /\ t.pc = "connect" /\ t.n = 2
  BY <1>5, <1>7, <1>8 DEF GetOK, TurnOK
<1>9. CASE r.n = 1 /\ t.pc = "connect" /\ t.n = 3
  BY <1>5, <1>7, <1>9 DEF GetOK, TurnOK
<1>10. CASE r.n \in {2, 3} /\ t.pc = "prompt" /\ t.outcome = "complete"
  BY <1>5, <1>6, <1>7, <1>10 DEF GetOK, TurnOK, ResultOK
<1> QED
  BY <1>5, <1>8, <1>9, <1>10

(***************************************************************************)
(* A client's step keeps its own GET in order.                             *)
(***************************************************************************)
LEMMA ClientGet ==
  ASSUME StorageInv, ExchangesOK, AnswersOK, GetsOK, NEW c \in Clients, Act(c)
  PROVE  GetOK(c)'
<1> DEFINE r == cl[c]
           t == cl'[c]
<1>1. GetOK(c) /\ ExchangeOK(c) /\ conn \in [Conns -> Connection] /\ LogGrows
  BY ClientFacts, ClientTouches DEF ExchangesOK, GetsOK
<1>2. ASSUME SameGet(t, r), r.pc # "prompt", t.pc # "prompt" PROVE GetOK(c)'
  <2>1. \A s : Brought(c, s) => Brought(c, s)'
    <3> SUFFICES ASSUME NEW s, Brought(c, s) PROVE Brought(c, s)'
      OBVIOUS
    <3>1. PICK i \in Pieces, j \in Pieces :
            /\ i # j /\ c \in Authorized
            /\ r.pieces[i] # Absent /\ Placed(s, r.file, i)
            /\ r.pieces[j] # Absent /\ Placed(s, r.file, j)
      BY DEF Brought
    <3>2. ASSUME NEW f, f = r.file PROVE Placed(s, f, i)' /\ Placed(s, f, j)'
      BY <1>1, <3>1, <3>2, PlacedStays
    <3> QED
      BY <1>2, <3>1, <3>2 DEF Brought, SameGet
  <2> QED
    BY <1>1, <1>2, <2>1 DEF GetOK, TurnOK, SameGet
<1>3. ASSUME t.op # "GET" PROVE GetOK(c)'
  BY <1>3 DEF GetOK
<1>4. CASE Command(c)
  BY <1>4, CommandFacts DEF GetOK, TurnOK
<1>5. ASSUME t = NextTurn(r), r.op # "GET" PROVE GetOK(c)'
  BY <1>3, <1>5, ClientFacts, TurnsSettle DEF Settled
<1>6. CASE connectFirst(c)
  <2>1. \/ SameGet(t, r) /\ r.pc # "prompt" /\ t.pc # "prompt"
        \/ r.op = "GET" /\ t = NotDelivered(r) /\ r.pc # "prompt"
        \/ r.op # "GET" /\ t = NextTurn(r)
    BY <1>6, ConnectFirstFacts
  <2> QED
    BY <1>1, <1>2, <1>5, <2>1, NotDeliveredGet DEF GetOK
<1>7. CASE connectSecond(c)
  <2>1. \/ SameGet(t, r) /\ r.pc # "prompt" /\ t.pc # "prompt"
        \/ r.op # "GET" /\ t = NextTurn(r)
    BY <1>7, ConnectSecondFacts
  <2> QED
    BY <1>2, <1>5, <2>1
<1>8. CASE sendRequest(c)
  <2>1. SameGet(t, r) /\ r.pc # "prompt" /\ t.pc # "prompt"
    BY <1>8, SendFacts DEF Sent
  <2> QED
    BY <1>2, <2>1
<1>9. CASE sendRequestSigpipe(c)
  BY <1>3, <1>9, SigpipeFacts
<1>10. CASE sendRequestNoSock(c) \/ getResponseCut(c)
  <2>1. SameGet(t, r) /\ r.pc # "prompt" /\ t.pc # "prompt"
    BY <1>10, SpinFacts DEF Receiving
  <2> QED
    BY <1>2, <2>1
<1>11. CASE getResponse(c) \/ getResponseTimeout(c)
  <2>1. PICK table \in [Conns -> Connection], got \in BOOLEAN :
          /\ ReadTable(c, table) /\ Continue(c, table, got)
          /\ got => conn[Sock(c)].phase = "done"
    BY <1>11, Receives
  <2>2. /\ Sock(c) \in Conns /\ r.pc \in {"recv", "recv2"}
        /\ r.pc = "recv2" => r.op = "PUT"
    BY <1>11, Receives
  <2>3. CASE r.op # "GET"
    <3>1. Settled(t, r) => t.op # "GET"
      BY <2>3 DEF Settled
    <3> QED
      BY <1>2, <1>3, <2>1, <2>2, <3>1, ContinueSettles
  <2>4. CASE r.op = "GET"
    <3> DEFINE k == Sock(c)
    <3>1. t = IF got /\ table[k].reply = "ok" THEN Delivered(r, table[k].found)
              ELSE NotDelivered(r)
      BY <2>1, <2>4, ContinueFacts
    <3>2. TurnOK(c)
      BY <1>1, <2>2, <2>4 DEF GetOK
    <3>3. r.pc = "recv" /\ k = r.prim
      BY <2>2, <2>4 DEF Sock
    <3>4. CASE got /\ table[k].reply = "ok"
      <4>1. conn[k].phase = "done" /\ table[k] = conn[k]
        BY <2>1, <2>2, <3>4 DEF ReadTable, Reads, Live
      <4>2. conn[k].req = RequestOf(c)
        BY <1>1, <3>3, <4>1 DEF ExchangeOK, Asked
      <4>3. /\ conn[k].req.method = "GET" /\ conn[k].req.file = r.file
            /\ conn[k].req.auth = (c \in Authorized)
        BY <2>4, <4>2 DEF RequestOf
      <4>4. conn[k].srv = r.n
        BY <2>4, <3>3, Sockets DEF Target
      <4>5. AnswerOK(conn[k]) /\ conn[k].found \in [Pieces -> Content]
        BY <1>1, <2>2 DEF AnswersOK, Connection
      <4>6. /\ c \in Authorized /\ GetDone(conn[k].found)
            /\ \A i \in Pieces : conn[k].found[i] # Absent => Placed(r.n, r.file, i)
        BY <3>4, <4>1, <4>3, <4>4, <4>5 DEF AnswerOK
      <4>7. t = Delivered(r, conn[k].found)
        BY <3>1, <3>4, <4>1
      <4> QED
        BY <1>1, <2>4, <3>2, <4>5, <4>6, <4>7, DeliveredGet
    <3>5. CASE ~(got /\ table[k].reply = "ok")
      BY <1>1, <2>4, <3>1, <3>2, <3>5, NotDeliveredGet
    <3> QED
      BY <3>4, <3>5
  <2> QED
    BY <2>3, <2>4
<1> QED
  BY <1>4, <1>6, <1>7, <1>8, <1>9, <1>10, <1>11 DEF Act, Step

LEMMA GetInvInit == Init => GetInv
<1> SUFFICES ASSUME Init PROVE GetInv
  OBVIOUS
<1>1. conn = [k \in Conns |-> Free] /\ cl = [c \in Clients |-> Prompt]
  BY DEF Init, NetInit, ClientInit
<1>2. AnswerOK(Free)
  BY DEF AnswerOK, Free, NoRequest
<1>3. Prompt.pc = "prompt" /\ Prompt.op = "none" /\ Prompt.prim = NoSock /\ Prompt.sec = NoSock
  BY DEF Prompt
<1>4. ExchangesOK /\ GetsOK
  BY <1>1, <1>3 DEF ExchangesOK, ExchangeOK, GetsOK, GetOK
<1> QED
  BY <1>1, <1>2, <1>4 DEF GetInv, AnswersOK

LEMMA GetInvStep == StorageInv /\ GetInv /\ [Next]_vars => GetInv'
<1> SUFFICES ASSUME StorageInv, GetInv, [Next]_vars PROVE GetInv'
  OBVIOUS
<1>1. CASE ServerNext
  BY <1>1, ServerExchanges, ServerAnswers, ServerGets DEF GetInv
<1>2. ASSUME NEW c \in Clients, Act(c) PROVE GetInv'
  <2>1. AnswersOK'
    BY <1>2, ClientAnswers DEF GetInv
  <2>2. ASSUME NEW d \in Clients PROVE ExchangeOK(d)' /\ GetOK(d)'
    <3>1. CASE d = c
      BY <1>2, <3>1, ClientExchange, ClientGet DEF GetInv
    <3>2. CASE d # c
      BY <1>2, <3>2, OthersKept DEF GetInv, ExchangesOK, GetsOK
    <3> QED
      BY <3>1, <3>2
  <2> QED
    BY <2>1, <2>2 DEF GetInv, ExchangesOK, GetsOK
<1>3. CASE UNCHANGED vars
  <2>1. UNCHANGED <<conn, cl, log>>
    BY <1>3 DEF vars, clientVars
  <2>2. ExchangesOK'
    BY <2>1 DEF GetInv, ExchangesOK, ExchangeOK, Asked, Unasked, RequestOf
  <2>3. AnswersOK' /\ GetsOK'
    BY <2>1 DEF GetInv, AnswersOK, AnswerOK, GetsOK, GetOK, TurnOK, ResultOK,
                Brought, Placed, PutsOf
  <2> QED
    BY <2>2, <2>3 DEF GetInv
<1> QED
  BY <1>1, <1>2, <1>3 DEF Next, ClientNext, Act

LEMMA GetInvHolds == Spec => [](StorageInv /\ GetInv)
<1> QED
  BY InitHolds, StepHolds, GetInvInit, GetInvStep, PTL DEF Spec

(***************************************************************************)
(* dfc gives up on a file only if two neighbouring servers, 3 and 0        *)
(* included, did not deliver: for any crashes, restarts, late answers,     *)
(* PUTs and other clients, handleGet's order of servers (dfc.cpp) tries    *)
(* every pair that could still have all the pieces.                        *)
(***************************************************************************)
THEOREM GetGivesUpRightly == Spec => []IncompleteMeansNeighboursFailed
<1>1. StorageInv /\ GetInv => IncompleteMeansNeighboursFailed
  BY DEF GetInv, GetsOK, GetOK, ResultOK, IncompleteMeansNeighboursFailed, Reports
<1> QED
  BY <1>1, GetInvHolds, PTL

(***************************************************************************)
(* The pieces that a file's MD5 modulo 4 puts on a server: two of them,    *)
(* and on the server after the next the other two.                         *)
(***************************************************************************)
LEMMA PiecesOf ==
  ASSUME NEW s \in 0..3, NEW i \in 0..3, NEW b \in 0..3, s \in Holders(i, b)
  PROVE  i = (s + 4 - b) % 4 \/ i = (s + 3 - b) % 4
<1>1. s = (i + b) % 4 \/ s = (i + b + 1) % 4
  BY DEF Holders, Primary, Secondary
<1>2. b = 0 \/ b = 1 \/ b = 2 \/ b = 3
  OBVIOUS
<1>3. i = 0 \/ i = 1 \/ i = 2 \/ i = 3
  OBVIOUS
<1> QED
  BY <1>1, <1>2, <1>3

LEMMA OppositePieces ==
  ASSUME NEW s \in {0, 1}, NEW b \in 0..3, NEW x \in 0..3
  PROVE  \/ x = (s + 4 - b) % 4 \/ x = (s + 3 - b) % 4
         \/ x = ((s + 2) + 4 - b) % 4 \/ x = ((s + 2) + 3 - b) % 4
<1>1. b = 0 \/ b = 1 \/ b = 2 \/ b = 3
  OBVIOUS
<1>2. x = 0 \/ x = 1 \/ x = 2 \/ x = 3
  OBVIOUS
<1> QED
  BY <1>1, <1>2

(***************************************************************************)
(* The answers of two opposite servers make up the file.                   *)
(***************************************************************************)
LEMMA OppositeServers ==
  ASSUME StorageInv, NEW c \in Clients, cl[c].file \in Files, SameBin(cl[c].file),
         NEW s \in {0, 1}, Brought(c, s), Brought(c, s + 2)
  PROVE  \A x \in Pieces : cl[c].pieces[x] # Absent
<1> DEFINE f == cl[c].file
           p == cl[c].pieces
<1>1. PICK i \in Pieces, j \in Pieces :
        /\ i # j
        /\ p[i] # Absent /\ Placed(s, f, i)
        /\ p[j] # Absent /\ Placed(s, f, j)
  BY DEF Brought
<1>2. PICK k \in Pieces, l \in Pieces :
        /\ k # l
        /\ p[k] # Absent /\ Placed(s + 2, f, k)
        /\ p[l] # Absent /\ Placed(s + 2, f, l)
  BY DEF Brought
<1>3. PICK v \in PutsOf(f) : s \in Holders(i, log[v].bin)
  BY <1>1 DEF Placed
<1> DEFINE b == log[v].bin
<1>4. b \in 0..3
  <2>1. v \in DOMAIN log /\ log \in Seq(PutRecord)
    BY DEF PutsOf, StorageInv, TypeOK, ClientTypeOK
  <2>2. log[v] \in PutRecord
    BY <2>1
  <2> QED
    BY <2>2 DEF PutRecord
<1>5. ASSUME NEW t, NEW y, Placed(t, f, y) PROVE t \in Holders(y, b)
  BY <1>5 DEF Placed, SameBin
<1> HIDE DEF b, p, f
<1>6. /\ i = (s + 4 - b) % 4 \/ i = (s + 3 - b) % 4
      /\ j = (s + 4 - b) % 4 \/ j = (s + 3 - b) % 4
  <2>1. s \in 0..3 /\ s \in Holders(i, b) /\ s \in Holders(j, b)
    BY <1>1, <1>5
  <2> QED
    BY <1>4, <2>1, PiecesOf DEF Pieces
<1>7. /\ k = ((s + 2) + 4 - b) % 4 \/ k = ((s + 2) + 3 - b) % 4
      /\ l = ((s + 2) + 4 - b) % 4 \/ l = ((s + 2) + 3 - b) % 4
  <2>1. s + 2 \in 0..3 /\ s + 2 \in Holders(k, b) /\ s + 2 \in Holders(l, b)
    BY <1>2, <1>5
  <2> QED
    BY <1>4, <2>1, PiecesOf DEF Pieces
<1>8. ASSUME NEW x \in Pieces PROVE p[x] # Absent
  <2>1. \/ x = (s + 4 - b) % 4 \/ x = (s + 3 - b) % 4
        \/ x = ((s + 2) + 4 - b) % 4 \/ x = ((s + 2) + 3 - b) % 4
    BY <1>4, OppositePieces DEF Pieces
  <2>2. x \in {i, j, k, l}
    BY <1>1, <1>2, <1>6, <1>7, <2>1
  <2> QED
    BY <1>1, <1>2, <2>2
<1> QED
  BY <1>8 DEF p

(***************************************************************************)
(* "GET complete" means that dfc was let in and has all four pieces, as    *)
(* long as the file was only stored under one MD5 modulo 4: under any      *)
(* crashes, restarts, late answers and concurrent PUTs, although           *)
(* sendGetRequest does not count what it received.                         *)
(***************************************************************************)
THEOREM CompleteGets == Spec => []CompleteGetHasAllPieces
<1>1. StorageInv /\ GetInv => CompleteGetHasAllPieces
  <2> SUFFICES ASSUME StorageInv, GetInv, NEW c \in Clients, Reports(c, "GET", "complete")
               PROVE  /\ c \in Authorized
                      /\ SameBin(cl[c].file) => \A i \in Pieces : cl[c].pieces[i] # Absent
    BY DEF CompleteGetHasAllPieces
  <2>1. (Brought(c, 0) /\ Brought(c, 2)) \/ (Brought(c, 1) /\ Brought(c, 3))
    BY DEF GetInv, GetsOK, GetOK, ResultOK, Reports
  <2>2. c \in Authorized
    BY <2>1 DEF Brought
  <2>3. cl[c].file \in Files
    BY ClientFacts DEF CommandOK, Reports
  <2>4. \E s \in {0, 1} : Brought(c, s) /\ Brought(c, s + 2)
    <3>1. 0 + 2 = 2 /\ 1 + 2 = 3
      OBVIOUS
    <3> QED
      BY <2>1, <3>1
  <2> QED
    BY <2>2, <2>3, <2>4, OppositeServers
<1> QED
  BY <1>1, GetInvHolds, PTL

-----------------------------------------------------------------------------
\* The system without faults.

(***************************************************************************)
(* Without faults the threads serve clients that wait for them, so that no *)
(* server dies of SIGPIPE.                                                 *)
(***************************************************************************)
LEMMA CalmServer ==
  ASSUME StorageInv, CalmInv, ServerNext
  PROVE  CalmInv'
<1>1. UNCHANGED <<cl, log, timeouts>>
  BY DEF ServerNext, clientVars
<1>2. conn \in [Conns -> Connection] /\ crashes \in Nat
  BY DEF StorageInv, TypeOK, ServerTypeOK
<1>3. ASSUME NEW k \in Conns, NEW q \in Connection,
             conn' = [conn EXCEPT ![k] = q], Served(conn[k], q),
             UNCHANGED <<up, crashes, died>>
      PROVE  CalmInv'
  <2> SUFFICES ASSUME NoFault, Calm PROVE Calm'
    BY <1>1, <1>3 DEF CalmInv, NoFault
  <2>1. Attended(k)
    BY <1>3 DEF Calm, Served, Live
  <2>2. /\ q.peer = "open" /\ q.cli = conn[k].cli
        /\ q.phase \in {"handle", "reading", "writing", "header", "body", "done"}
    BY <1>3, <2>1 DEF Served, Attended
  <2>3. ASSUME NEW j \in Conns, conn'[j].phase # "free" PROVE Attended(j)'
    <3>1. CASE j = k
      <4>1. conn'[j] = q
        BY <1>2, <1>3, <3>1
      <4> QED
        BY <1>1, <2>1, <2>2, <3>1, <4>1 DEF Attended
    <3>2. CASE j # k
      <4>1. conn'[j] = conn[j]
        BY <1>2, <1>3, <3>2
      <4> QED
        BY <1>1, <2>3, <4>1 DEF Calm, Attended
    <3> QED
      BY <3>1, <3>2
  <2>4. ASSUME NEW c \in Clients PROVE Connected(c)'
    <3>1. Connected(c)
      BY DEF Calm
    <3>2. ASSUME cl[c].pc \in {"send2", "recv2"} PROVE conn'[cl[c].prim].phase = "done"
      <4>1. cl[c].prim \in Conns /\ conn[cl[c].prim].peer = "open"
        BY <3>1, <3>2, Sockets DEF Connected
      <4> QED
        BY <3>1, <3>2, <4>1, ServerKeepsOpen DEF Connected, Kept
    <3> QED
      BY <1>1, <3>1, <3>2 DEF Connected
  <2> QED
    BY <1>3, <2>3, <2>4 DEF Calm
<1>4. ASSUME NEW s \in Servers, Crash(s) PROVE CalmInv'
  BY <1>2, <1>4 DEF Crash, Die, CalmInv, NoFault
<1>5. ASSUME NEW k \in Conns, sendBodySigpipe(k) PROVE CalmInv'
  <2>1. ~NoFault
    <3>1. conn[k].phase # "free" /\ conn[k].peer = "closed"
      BY <1>5 DEF sendBodySigpipe
    <3> QED
      BY <3>1 DEF CalmInv, Calm, Attended
  <2>2. ~(crashes = 0 /\ timeouts = 0)
    BY <2>1 DEF CalmInv, NoFault
  <2>3. UNCHANGED crashes /\ died' # {}
    BY <1>5 DEF sendBodySigpipe, Die
  <2> QED
    BY <1>1, <2>2, <2>3 DEF CalmInv, NoFault
<1>6. ASSUME NEW s \in Servers, Restart(s) PROVE CalmInv'
  <2>1. ~NoFault
    BY <1>6 DEF Restart, CalmInv, Calm
  <2> QED
    BY <1>1, <1>6, <2>1 DEF Restart, CalmInv, NoFault
<1> QED
  BY <1>3, <1>4, <1>5, <1>6, ServerMoves

\* A client's step concerns its own connections and the one it opens.
LEMMA CalmFrame ==
  ASSUME StorageInv, Calm, NEW c \in Clients, Act(c),
         \A k \in Conns :
           conn'[k].phase # "free" /\ (conn[k].phase = "free" \/ conn[k].cli = c)
             => Attended(k)',
         Connected(c)'
  PROVE  Calm'
<1>1. /\ \A k \in Conns : Touches(c, conn[k], conn'[k])
      /\ \A d \in Clients : d # c => cl'[d] = cl[d]
      /\ UNCHANGED up
  BY ClientTouches DEF serverVars
<1>2. ASSUME NEW k \in Conns, conn[k].phase # "free", conn[k].cli # c
      PROVE  conn'[k] = conn[k]
  BY <1>1, <1>2 DEF Touches
<1>3. ASSUME NEW k \in Conns, conn'[k].phase # "free" PROVE Attended(k)'
  <2>1. CASE conn[k].phase # "free" /\ conn[k].cli # c
    <3>1. conn'[k] = conn[k] /\ Attended(k)
      BY <1>2, <2>1 DEF Calm
    <3>2. PICK d \in Clients : conn[k].cli = d /\ k \in {cl[d].prim, cl[d].sec}
      BY <3>1 DEF Attended
    <3>3. cl'[d] = cl[d]
      BY <1>1, <2>1, <3>2
    <3> QED
      BY <3>1, <3>2, <3>3 DEF Attended
  <2> QED
    BY <1>3, <2>1
<1>4. ASSUME NEW d \in Clients, d # c PROVE Connected(d)'
  <2>1. Connected(d) /\ cl'[d] = cl[d]
    BY <1>1, <1>4 DEF Calm
  <2>2. cl[d].prim # NoSock => conn'[cl[d].prim] = conn[cl[d].prim]
    BY <1>2, <1>4, Sockets
  <2> QED
    BY <2>1, <2>2 DEF Connected
<1> QED
  BY <1>1, <1>3, <1>4 DEF Calm

(***************************************************************************)
(* Without faults every connection that a client asks for is made, every   *)
(* answer comes, and a connection is closed only after its thread is gone. *)
(***************************************************************************)
LEMMA CalmClient ==
  ASSUME StorageInv, Calm, NEW c \in Clients, Act(c), ~getResponseTimeout(c)
  PROVE  Calm'
<1> DEFINE r == cl[c]
           t == cl'[c]
<1>1. conn \in [Conns -> Connection] /\ up = Servers /\ Connected(c)
  BY ClientFacts DEF Calm
<1>2. ASSUME NEW k \in Conns, conn[k].phase # "free", conn[k].cli = c
      PROVE  k \in {r.prim, r.sec}
  BY <1>2 DEF Calm, Attended
<1>3. /\ r.prim \notin Conns <=> r.prim = NoSock
      /\ r.sec \notin Conns <=> r.sec = NoSock
  BY Sockets DEF NoSock, Conns
<1>4. ASSUME NEW s
      PROVE  Opened(s, c).phase = "request" /\ Opened(s, c).peer = "open" /\ Opened(s, c).cli = c
  BY DEF Opened, Free
<1>5. CASE Command(c)
  <2>1. /\ r.pc = "prompt" /\ t.pc \in {"connect", "gone"}
        /\ conn' = ClientGone(conn, c) \/ UNCHANGED conn
    BY <1>5, CommandFacts
  <2>2. r.prim = NoSock /\ r.sec = NoSock
    BY <2>1, ClientFacts DEF SocketsOK
  <2>3. ASSUME NEW k \in Conns PROVE conn[k].phase = "free" \/ conn[k].cli # c
    BY <1>2, <1>3, <2>2
  <2>4. ASSUME NEW k \in Conns, conn[k].phase = "free" PROVE conn'[k].phase = "free"
    <3>1. conn[k] = Free
      BY <2>4 DEF StorageInv, SlotsOK
    <3>2. conn'[k] = conn[k]
      BY <2>1, <3>1 DEF ClientGone, Free
    <3> QED
      BY <2>4, <3>2
  <2>5. Connected(c)'
    BY <2>1 DEF Connected
  <2> QED
    BY <2>3, <2>4, <2>5, CalmFrame
<1>6. CASE connectFirst(c)
  <2>1. Target(c) \in up
    BY <1>1, TargetServer
  <2>2. /\ r.prim = NoSock /\ r.sec = NoSock
        /\ \E k \in Conns :
             /\ conn' = [conn EXCEPT ![k] = Opened(Target(c), c)]
             /\ t.pc = IF r.op = "PUT" THEN "connect2" ELSE "send"
             /\ t.prim = k /\ SameGet(t, r)
    BY <1>6, <2>1, ConnectFirstFacts
  <2>3. PICK k \in Conns :
          /\ conn' = [conn EXCEPT ![k] = Opened(Target(c), c)]
          /\ t.pc = IF r.op = "PUT" THEN "connect2" ELSE "send"
          /\ t.prim = k /\ t.op = r.op
    BY <2>2 DEF SameGet
  <2>4. /\ conn'[k].phase = "request" /\ conn'[k].peer = "open" /\ conn'[k].cli = c
        /\ \A j \in Conns : j # k => conn'[j] = conn[j]
    <3> DEFINE o == Opened(Target(c), c)
    <3>1. conn' = [conn EXCEPT ![k] = o]
      BY <2>3
    <3>2. o.phase = "request" /\ o.peer = "open" /\ o.cli = c
      BY <1>4
    <3> HIDE DEF o
    <3>3. conn'[k] = o /\ \A j \in Conns : j # k => conn'[j] = conn[j]
      BY <1>1, <3>1
    <3> QED
      BY <3>2, <3>3
  <2>5. Attended(k)'
    BY <2>3, <2>4 DEF Attended
  <2>6. ASSUME NEW j \in Conns, conn[j].phase # "free" PROVE conn[j].cli # c
    BY <1>2, <1>3, <2>2, <2>6
  <2>7. k # NoSock
    BY DEF Conns, NoSock
  <2>8. Connected(c)'
    BY <2>3, <2>7 DEF Connected
  <2> QED
    BY <2>4, <2>5, <2>6, <2>8, CalmFrame
<1>7. CASE connectSecond(c)
  <2> DEFINE s == Secondary(r.n, log[r.ver].bin)
  <2>1. r.pc = "connect2" /\ r.prim # NoSock /\ r.sec = NoSock /\ s \in up
    BY <1>1, <1>7, ConnectSecondFacts DEF Connected
  <2>2. PICK k \in Conns :
          /\ conn[k].phase = "free"
          /\ conn' = [conn EXCEPT ![k] = Opened(s, c)]
          /\ t.pc = "send" /\ t.prim = r.prim /\ t.sec = k
    BY <1>7, <2>1, ConnectSecondFacts
  <2> HIDE DEF s
  <2>3. /\ conn'[k].phase = "request" /\ conn'[k].peer = "open" /\ conn'[k].cli = c
        /\ \A j \in Conns : j # k => conn'[j] = conn[j]
    <3> DEFINE o == Opened(s, c)
    <3>1. conn' = [conn EXCEPT ![k] = o]
      BY <2>2
    <3>2. o.phase = "request" /\ o.peer = "open" /\ o.cli = c
      BY <1>4
    <3> HIDE DEF o
    <3>3. conn'[k] = o /\ \A j \in Conns : j # k => conn'[j] = conn[j]
      BY <1>1, <3>1
    <3> QED
      BY <3>2, <3>3
  <2>4. Attended(k)'
    BY <2>2, <2>3 DEF Attended
  <2>5. ASSUME NEW j \in Conns, conn[j].phase # "free", conn[j].cli = c
        PROVE  Attended(j)'
    <3>1. j = r.prim /\ j # k
      BY <1>2, <1>3, <2>1, <2>2, <2>5
    <3>2. conn'[j] = conn[j] /\ Attended(j)
      BY <2>3, <2>5, <3>1 DEF Calm
    <3> QED
      BY <2>2, <2>5, <3>1, <3>2 DEF Attended
  <2>6. k # NoSock
    BY DEF Conns, NoSock
  <2>7. Connected(c)'
    BY <2>1, <2>2, <2>6 DEF Connected
  <2> QED
    BY <2>3, <2>4, <2>5, <2>7, CalmFrame
<1>8. CASE sendRequest(c)
  <2>1. PICK k \in Conns : k = Sock(c)
    BY <1>8, SendFacts
  <2>2. /\ r.pc \in {"send", "send2"} /\ t.pc = Sent(r.pc) /\ SameGet(t, r)
        /\ t.prim = r.prim /\ t.sec = r.sec
        /\ k = IF r.pc = "send" THEN r.prim ELSE r.sec
        /\ conn[k].phase \in {"request", "reset"}
    BY <1>8, <2>1, SendFacts
  <2>3. conn[k].cli = c /\ conn[k].peer = "open" /\ (k = r.sec => r.sec # r.prim)
    BY <1>3, <2>2, Sockets
  <2>4. conn[k].phase = "request"
    BY <2>2 DEF Calm, Attended
  <2>5. PICK q \in Connection :
          /\ conn' = [conn EXCEPT ![k] = q]
          /\ q.phase = "handle" /\ q.cli = c /\ q.peer = "open"
    BY <1>8, <2>1, <2>3, <2>4, SendFacts
  <2>6. conn'[k] = q /\ \A j \in Conns : j # k => conn'[j] = conn[j]
    BY <1>1, <2>5
  <2>7. ASSUME NEW j \in Conns, conn[j].phase # "free", conn[j].cli = c
        PROVE  Attended(j)'
    <3>1. j \in {t.prim, t.sec} /\ Attended(j)
      BY <1>2, <2>2, <2>7 DEF Calm
    <3>2. /\ conn'[j].phase \notin {"reset", "cut"} /\ conn'[j].peer = "open"
          /\ conn'[j].cli = c
      BY <2>5, <2>6, <2>7, <3>1 DEF Attended
    <3> QED
      BY <3>1, <3>2 DEF Attended
  <2>8. ASSUME NEW j \in Conns, conn[j].phase = "free" PROVE conn'[j].phase = "free"
    BY <2>4, <2>6, <2>8
  <2>9. Connected(c)'
    <3>1. CASE r.pc = "send"
      BY <1>1, <2>2, <3>1 DEF Connected, Sent, SameGet
    <3>2. CASE r.pc = "send2"
      <4>1. conn'[r.prim].phase = "done"
        BY <1>1, <1>3, <2>2, <2>3, <2>6, <3>2 DEF Connected
      <4> QED
        BY <1>1, <2>2, <3>2, <4>1 DEF Connected, Sent, SameGet
    <3> QED
      BY <2>2, <3>1, <3>2
  <2> QED
    BY <2>7, <2>8, <2>9, CalmFrame
<1>9. ~sendRequestSigpipe(c)
  <2> SUFFICES ASSUME sendRequestSigpipe(c) PROVE FALSE
    OBVIOUS
  <2>1. Sock(c) # NoSock /\ conn[Sock(c)].phase = "reset"
    BY SigpipeFacts
  <2>2. Sock(c) \in Conns
    BY <1>3, <2>1 DEF Sock
  <2> QED
    BY <2>1, <2>2 DEF Calm, Attended
<1>10. ~sendRequestNoSock(c) /\ ~getResponseCut(c)
  <2> SUFFICES ASSUME sendRequestNoSock(c) \/ getResponseCut(c) PROVE FALSE
    OBVIOUS
  <2>1. CASE r.pc \in {"send", "send2"} /\ Sock(c) = NoSock
    <3>1. r.pc = "send2" => r.op = "PUT"
      BY ClientFacts DEF CommandOK
    <3> QED
      BY <1>1, <2>1, <3>1 DEF Sock, Connected
  <2>2. CASE Receiving(c) /\ conn[Sock(c)].phase = "cut"
    <3>1. Sock(c) \in Conns
      BY <2>2, Sockets DEF Receiving, Sock
    <3> QED
      BY <2>2, <3>1 DEF Calm, Attended
  <2> QED
    BY <2>1, <2>2, SpinFacts
<1>11. CASE getResponse(c)
  <2>1. PICK table \in [Conns -> Connection], got \in BOOLEAN :
          /\ ReadTable(c, table) /\ Continue(c, table, got)
          /\ got => conn[Sock(c)].phase = "done"
          /\ ~got => getResponseTimeout(c) \/ conn[Sock(c)].phase = "reset"
    BY <1>11, Receives
  <2>2. PICK k \in Conns : k = Sock(c)
    BY <1>11, Receives
  <2>3. /\ r.pc \in {"recv", "recv2"} /\ conn[k].cli = c
        /\ k = IF r.pc = "recv" THEN r.prim ELSE r.sec
        /\ r.pc = "recv2" => r.op = "PUT"
    BY <1>11, <2>2, Receives DEF Sock
  <2>4. conn[k].phase = "done"
    BY <2>1, <2>2 DEF Calm, Attended
  <2>5. \A j \in Conns : table[j] = conn[j]
    BY <2>1, <2>2, <2>4 DEF ReadTable, Reads, Live
  <2>6. CASE /\ r.op = "PUT" /\ r.pc = "recv" /\ t.pc = "send2"
             /\ t.prim = r.prim /\ t.sec = r.sec /\ SameGet(t, r) /\ conn' = table
    <3>1. ASSUME NEW j \in Conns, conn[j].phase # "free", conn[j].cli = c
          PROVE  Attended(j)'
      <4>1. Attended(j) /\ j \in {t.prim, t.sec} /\ conn'[j] = conn[j]
        BY <1>2, <2>5, <2>6, <3>1 DEF Calm
      <4> QED
        BY <3>1, <4>1 DEF Attended
    <3>2. ASSUME NEW j \in Conns, conn[j].phase = "free" PROVE conn'[j].phase = "free"
      BY <2>5, <2>6, <3>2
    <3>3. Connected(c)'
      BY <1>1, <2>3, <2>4, <2>5, <2>6 DEF Connected, SameGet
    <3> QED
      BY <3>1, <3>2, <3>3, CalmFrame
  <2>7. CASE Settled(t, r)
    <3>1. \/ conn' = Closing(table, {r.prim, r.sec}) /\ r.pc = "recv2"
          \/ conn' = Closing(table, {k}) /\ r.op # "PUT"
          \/ conn' = Leaking(table, k) /\ r.op # "PUT"
      BY <2>1, <2>2, <2>3, <2>7, ContinueFacts DEF Settled
    <3>2. r.op # "PUT" => r.sec = NoSock
      BY Sockets
    <3>3. Abandoned(conn[k], "closed") = Free /\ Abandoned(conn[k], "leaked") = Free
      BY <2>4 DEF Abandoned, Live
    <3>4. ASSUME NEW j \in Conns, conn[j].phase # "free", conn[j].cli = c
          PROVE  conn'[j] = Free
      <4>1. j \in {r.prim, r.sec}
        BY <1>2, <3>4
      <4>2. CASE conn' = Closing(table, {r.prim, r.sec}) /\ r.pc = "recv2"
        <5>1. conn[r.prim].phase = "done" /\ conn[r.sec].phase = "done"
          BY <1>1, <2>3, <2>4, <4>2 DEF Connected
        <5>2. Abandoned(conn[j], "closed") = Free
          BY <4>1, <5>1 DEF Abandoned, Live
        <5> QED
          BY <2>5, <4>1, <4>2, <5>2 DEF Closing
      <4>3. CASE conn' = Closing(table, {k}) /\ r.op # "PUT"
        <5>1. j = k
          BY <1>3, <2>3, <3>2, <4>1, <4>3
        <5> QED
          BY <2>5, <3>3, <4>3, <5>1 DEF Closing
      <4>4. CASE conn' = Leaking(table, k) /\ r.op # "PUT"
        <5>1. j = k
          BY <1>3, <2>3, <3>2, <4>1, <4>4
        <5> QED
          BY <2>5, <3>3, <4>4, <5>1 DEF Leaking
      <4> QED
        BY <3>1, <4>2, <4>3, <4>4
    <3>5. ASSUME NEW j \in Conns, conn[j].phase = "free" PROVE conn'[j].phase = "free"
      <4>1. conn[j] = Free /\ Free.phase = "free"
        BY <3>5 DEF StorageInv, SlotsOK, Free
      <4>2. Abandoned(conn[j], "closed") = Free
        BY <4>1 DEF Abandoned, Live
      <4>3. j # k
        BY <2>4, <3>5
      <4>4. conn'[j] \in {table[j], Abandoned(table[j], "closed")}
        BY <3>1, <4>3 DEF Closing, Leaking
      <4>5. conn'[j] = Free
        BY <2>5, <4>1, <4>2, <4>4
      <4> QED
        BY <4>1, <4>5
    <3>6. Connected(c)'
      BY <2>7 DEF Connected, Settled
    <3>7. Free.phase = "free"
      BY DEF Free
    <3> QED
      BY <3>4, <3>5, <3>6, <3>7, CalmFrame
  <2> QED
    BY <2>1, <2>2, <2>3, <2>6, <2>7, ContinueSettles
<1> QED
  BY <1>5, <1>6, <1>7, <1>8, <1>9, <1>10, <1>11 DEF Act, Step

LEMMA CalmInit == Init => CalmInv
<1> SUFFICES ASSUME Init PROVE CalmInv
  OBVIOUS
<1>1. /\ conn = [k \in Conns |-> Free] /\ cl = [c \in Clients |-> Prompt]
      /\ up = Servers /\ died = {}
  BY DEF Init, NetInit, ClientInit, ServerInit
<1>2. Free.phase = "free" /\ Prompt.pc = "prompt"
  BY DEF Free, Prompt
<1>3. Calm
  BY <1>1, <1>2 DEF Calm, Connected
<1> QED
  BY <1>1, <1>3 DEF CalmInv

LEMMA CalmStep == StorageInv /\ CalmInv /\ [Next]_vars => CalmInv'
<1> SUFFICES ASSUME StorageInv, CalmInv, [Next]_vars PROVE CalmInv'
  OBVIOUS
<1>1. CASE ServerNext
  BY <1>1, CalmServer
<1>2. ASSUME NEW c \in Clients, Act(c) PROVE CalmInv'
  <2>1. UNCHANGED serverVars
    BY <1>2, ClientTouches
  <2>2. timeouts \in Nat
    BY <1>2, ClientFacts
  <2>3. CASE getResponseTimeout(c)
    <3>1. timeouts' # 0
      BY <2>2, <2>3 DEF getResponseTimeout
    <3> QED
      BY <3>1 DEF CalmInv, NoFault
  <2>4. CASE ~getResponseTimeout(c)
    <3>1. UNCHANGED timeouts
      BY <1>2, <2>4 DEF Act, Command, Step, startPut, startGet, startList, startMkDir,
           exit, connectFirst, connectSecond, sendRequest, sendRequestSigpipe,
           sendRequestNoSock, getResponse, getResponseCut
    <3>2. NoFault => Calm'
      BY <1>2, <2>4, CalmClient DEF CalmInv
    <3> QED
      BY <2>1, <3>1, <3>2 DEF CalmInv, NoFault, serverVars
  <2> QED
    BY <2>3, <2>4
<1>3. CASE UNCHANGED vars
  <2>1. UNCHANGED <<conn, cl, up, died, crashes, timeouts>>
    BY <1>3 DEF vars, clientVars, serverVars
  <2> QED
    BY <2>1 DEF CalmInv, NoFault, Calm, Attended, Connected
<1> QED
  BY <1>1, <1>2, <1>3 DEF Next, ClientNext, Act

(***************************************************************************)
(* Servers do not die of their clients: as long as nobody kills one and no *)
(* answer is late, all four stay up, for any number of clients that leave  *)
(* whenever they want and any number of connections: dfc closes a socket   *)
(* only after sendResponse has written the whole answer (dfs.cpp).         *)
(***************************************************************************)
THEOREM CalmServersStayUp == Spec => []ServersStayUp
<1>1. StorageInv /\ CalmInv => ServersStayUp
  BY DEF CalmInv, ServersStayUp, NoFault, Calm
<1> QED
  BY <1>1, InitHolds, StepHolds, CalmInit, CalmStep, PTL DEF Spec
=============================================================================
