---------------------------- MODULE DfsPutProofs ----------------------------
(***************************************************************************)
(* Proofs about what PUT leaves on the servers and what GET then returns,  *)
(* without faults and for one user who stores files and any number of      *)
(* others who read: any number of clients, files, directories, connections *)
(* and PUTs.  They rest on the invariants of DfsProofs and DfsGetProofs.   *)
(***************************************************************************)
EXTENDS DfsGetProofs

-----------------------------------------------------------------------------
\* Steps of the threads, as far as the piece files are concerned.

\* The piece file of connection k's request becomes x.
Puts(k, x) ==
  disk' = [disk EXCEPT ![conn[k].srv][conn[k].req.file][conn[k].req.piece] = x]

\* handlePutResponse opens the piece file.
Opens(k) ==
  /\ conn[k].phase = "handle" /\ conn[k].req.method = "PUT" /\ conn[k].req.auth
  /\ conn'[k].phase = "writing" /\ conn'[k].flushed = conn[k].flushed
  /\ Puts(k, Empty) /\ UNCHANGED dirs

\* An early flush.
Flushes(k) ==
  /\ conn[k].phase = "writing" /\ ~conn[k].flushed
  /\ conn'[k].phase = "writing" /\ conn'[k].flushed
  /\ Puts(k, IF disk[conn[k].srv][conn[k].req.file][conn[k].req.piece] = Empty
             THEN Part(conn[k].req.ver) ELSE Torn)
  /\ UNCHANGED dirs

\* The last write.
Saves(k) ==
  /\ conn[k].phase = "writing" /\ conn'[k].phase = "header"
  /\ conn'[k].flushed = conn[k].flushed
  /\ \E x \in Written(conn[k].req.ver,
                      disk[conn[k].srv][conn[k].req.file][conn[k].req.piece],
                      conn[k].flushed) : Puts(k, x)
  /\ UNCHANGED dirs

\* A step of handleGetResponse.
Searches(k) ==
  /\ Looks(conn[k], conn'[k])
  /\ UNCHANGED <<disk, dirs>>

\* Everything else.
Rests(k) ==
  /\ conn[k].phase \notin {"reading", "writing"}
  /\ conn[k].phase = "handle" /\ conn[k].req.auth /\ conn[k].req.method = "PUT" =>
       conn[k].req.dir \notin dirs[conn[k].srv]
  /\ \/ conn'[k] = Free
     \/ /\ conn'[k].phase \notin {"handle", "reading", "writing"}
        /\ conn'[k].found = conn[k].found
        /\ conn'[k].flushed = conn[k].flushed
  /\ UNCHANGED disk
  /\ \A s \in Servers : dirs[s] \subseteq dirs'[s]

Moves(k) ==
  /\ \A j \in Conns : j # k => conn'[j] = conn[j]
  /\ Served(conn[k], conn'[k])
  /\ Opens(k) \/ Flushes(k) \/ Saves(k) \/ Searches(k) \/ Rests(k)

(***************************************************************************)
(* PUT's handler, action by action.                                        *)
(***************************************************************************)
LEMMA PutMoves ==
  ASSUME StorageInv, NEW k \in Conns,
         handlePutResponse(k) \/ flushPiece(k) \/ saveVectorToFile(k)
  PROVE  Moves(k)
<1> DEFINE r == conn[k]
<1>1. r \in Connection /\ conn \in [Conns -> Connection] /\ RequestOK(r)
  BY DEF StorageInv, TypeOK, ServerTypeOK, RequestsOK
<1>2. ASSUME NEW p \in {"header", "writing"}, NEW y \in {"ok", r.reply}, NEW b \in BOOLEAN,
             r.phase \in {"handle", "writing"},
             conn' = [conn EXCEPT ![k] = [r EXCEPT !.phase = p, !.reply = y, !.flushed = b]]
      PROVE  /\ \A j \in Conns : j # k => conn'[j] = conn[j]
             /\ Served(r, conn'[k])
             /\ conn'[k].phase = p /\ conn'[k].found = r.found
             /\ conn'[k].flushed = b
  <2> DEFINE q == [r EXCEPT !.phase = p, !.reply = y, !.flushed = b]
  <2>1. /\ q.phase = p /\ q.found = r.found /\ q.flushed = b
        /\ q.srv = r.srv /\ q.cli = r.cli /\ q.peer = r.peer /\ q.req = r.req
    BY <1>1 DEF Connection
  <2> HIDE DEF q
  <2>2. conn' = [conn EXCEPT ![k] = q]
    BY <1>2 DEF q
  <2>3. conn'[k] = q /\ \A j \in Conns : j # k => conn'[j] = conn[j]
    BY <1>1, <2>2
  <2> QED
    BY <1>2, <2>1, <2>3 DEF Served, Live
<1>3. CASE handlePutResponse(k)
  <2>1. /\ r.phase = "handle" /\ r.req.auth /\ r.req.method = "PUT" /\ UNCHANGED dirs
        /\ \/ r.req.dir \in dirs[r.srv] /\ Puts(k, Empty)
              /\ conn' = [conn EXCEPT ![k].phase = "writing"]
           \/ r.req.dir \notin dirs[r.srv] /\ UNCHANGED disk
              /\ conn' = [conn EXCEPT ![k].phase = "header", ![k].reply = "ok"]
    BY <1>3 DEF handlePutResponse, Accepted, Answering, Puts
  <2>2. CASE r.req.dir \in dirs[r.srv]
    <3> conn' = [conn EXCEPT ![k].phase = "writing"]
      BY <2>1, <2>2
    <3>1. conn' = [conn EXCEPT ![k] = [r EXCEPT !.phase = "writing", !.reply = r.reply,
                                                !.flushed = r.flushed]]
      BY <1>1 DEF Connection
    <3>2. r.flushed \in BOOLEAN
      BY <1>1 DEF Connection
    <3>3. /\ \A j \in Conns : j # k => conn'[j] = conn[j]
          /\ Served(r, conn'[k]) /\ conn'[k].phase = "writing"
          /\ conn'[k].flushed = r.flushed
      BY <1>2, <2>1, <3>1, <3>2
    <3> QED
      BY <2>1, <2>2, <3>3 DEF Moves, Opens
  <2>3. CASE r.req.dir \notin dirs[r.srv]
    <3> conn' = [conn EXCEPT ![k].phase = "header", ![k].reply = "ok"]
      BY <2>1, <2>3
    <3>1. conn' = [conn EXCEPT ![k] = [r EXCEPT !.phase = "header", !.reply = "ok",
                                                !.flushed = r.flushed]]
      BY <1>1 DEF Connection
    <3>2. r.flushed \in BOOLEAN
      BY <1>1 DEF Connection
    <3>3. /\ \A j \in Conns : j # k => conn'[j] = conn[j]
          /\ Served(r, conn'[k]) /\ conn'[k].phase = "header"
          /\ conn'[k].flushed = r.flushed /\ conn'[k].found = r.found
      BY <1>2, <2>1, <3>1, <3>2
    <3> QED
      BY <2>1, <2>3, <3>3 DEF Moves, Rests
  <2> QED
    BY <2>2, <2>3
<1>4. CASE flushPiece(k)
  <2>1. /\ r.phase = "writing" /\ ~r.flushed /\ UNCHANGED dirs
        /\ conn' = [conn EXCEPT ![k].flushed = TRUE]
        /\ Puts(k, IF disk[r.srv][r.req.file][r.req.piece] = Empty
                   THEN Part(r.req.ver) ELSE Torn)
    BY <1>4 DEF flushPiece, Puts
  <2>2. conn' = [conn EXCEPT ![k] = [r EXCEPT !.phase = "writing", !.reply = r.reply,
                                              !.flushed = TRUE]]
    <3>1. conn' = [conn EXCEPT ![k].flushed = TRUE] /\ r.phase = "writing"
      BY <2>1
    <3>2. [r EXCEPT !.phase = "writing", !.reply = r.reply, !.flushed = TRUE]
            = [r EXCEPT !.flushed = TRUE]
      BY <1>1, <3>1 DEF Connection
    <3> QED
      BY <3>1, <3>2
  <2>3. /\ \A j \in Conns : j # k => conn'[j] = conn[j]
        /\ Served(r, conn'[k]) /\ conn'[k].phase = "writing"
        /\ conn'[k].flushed = TRUE
    BY <1>2, <2>1, <2>2
  <2> QED
    BY <2>1, <2>3 DEF Moves, Flushes
<1>5. CASE saveVectorToFile(k)
  <2>1. /\ r.phase = "writing" /\ UNCHANGED dirs
        /\ conn' = [conn EXCEPT ![k].phase = "header", ![k].reply = "ok"]
        /\ \E x \in Written(r.req.ver, disk[r.srv][r.req.file][r.req.piece], r.flushed) :
             Puts(k, x)
    BY <1>5 DEF saveVectorToFile, Puts, Answering
  <2>2. conn' = [conn EXCEPT ![k] = [r EXCEPT !.phase = "header", !.reply = "ok",
                                              !.flushed = r.flushed]]
    BY <1>1, <2>1 DEF Connection
  <2>3. r.flushed \in BOOLEAN
    BY <1>1 DEF Connection
  <2>4. /\ \A j \in Conns : j # k => conn'[j] = conn[j]
        /\ Served(r, conn'[k]) /\ conn'[k].phase = "header"
        /\ conn'[k].flushed = r.flushed
    BY <1>2, <2>1, <2>2, <2>3
  <2> QED
    BY <2>1, <2>4 DEF Moves, Saves
<1> QED
  BY <1>3, <1>4, <1>5

(***************************************************************************)
(* The other handlers, and the two sends.                                  *)
(***************************************************************************)
LEMMA RestMoves ==
  ASSUME StorageInv, NEW k \in Conns,
         \/ getEmptyRequest(k) \/ parseRequest(k) \/ handleListResponse(k)
         \/ handleMkdirResponse(k) \/ sendLength(k) \/ sendBody(k)
  PROVE  Moves(k)
<1> DEFINE r == conn[k]
<1>1. /\ r \in Connection /\ conn \in [Conns -> Connection]
      /\ dirs \in [Servers -> SUBSET Dirs]
  BY DEF StorageInv, TypeOK, ServerTypeOK
<1>2. PICK q \in Connection : conn' = [conn EXCEPT ![k] = q] /\ Served(r, q) /\ Plain(r, q)
  BY PlainServes
<1>3. conn'[k] = q /\ \A j \in Conns : j # k => conn'[j] = conn[j]
  BY <1>1, <1>2
<1>4. r.phase \in {"request", "handle", "header", "body"} /\ UNCHANGED disk
  BY DEF getEmptyRequest, parseRequest, handleListResponse, handleMkdirResponse,
         sendLength, sendBody, Accepted, serverVars
<1>5. r.phase = "handle" /\ r.req.auth => r.req.method \in {"LIST", "MKDIR"}
  BY DEF getEmptyRequest, parseRequest, handleListResponse, handleMkdirResponse,
         sendLength, sendBody, Accepted
<1>6. \A s \in Servers : dirs[s] \subseteq dirs'[s]
  <2>1. CASE handleMkdirResponse(k)
    <3>1. dirs' = [dirs EXCEPT ![r.srv] = @ \cup {r.req.dir}]
      BY <2>1 DEF handleMkdirResponse
    <3> QED
      BY <1>1, <3>1
  <2>2. CASE ~handleMkdirResponse(k)
    BY <2>2 DEF getEmptyRequest, parseRequest, handleListResponse, sendLength, sendBody,
         serverVars
  <2> QED
    BY <2>1, <2>2
<1>7. q = Free \/ (q.flushed = r.flushed /\ q.phase \in {"header", "body", "done"})
  <2>1. ASSUME NEW x, NEW y
        PROVE  LET h == [r EXCEPT !.phase = "header", !.reply = y]
                   l == [r EXCEPT !.phase = "header", !.list = x, !.reply = y]
               IN /\ h.flushed = r.flushed /\ h.phase = "header"
                  /\ l.flushed = r.flushed /\ l.phase = "header"
    BY <1>1 DEF Connection
  <2>2. /\ Ended(r) = Free \/ (Ended(r).flushed = r.flushed /\ Ended(r).phase = "done")
        /\ LET o == [r EXCEPT !.phase = "body"]
           IN o.flushed = r.flushed /\ o.phase = "body"
    BY <1>1 DEF Ended, Connection
  <2>3. CASE getEmptyRequest(k) \/ parseRequest(k) \/ handleMkdirResponse(k)
    <3>1. PICK y : conn' = [conn EXCEPT ![k].phase = "header", ![k].reply = y]
      BY <2>3 DEF getEmptyRequest, parseRequest, handleMkdirResponse, Answering
    <3>2. q = [r EXCEPT !.phase = "header", !.reply = y]
      BY <1>1, <1>3, <3>1
    <3> QED
      BY <2>1, <3>2
  <2>4. CASE handleListResponse(k)
    <3>1. PICK x, y : conn' = [conn EXCEPT ![k].phase = "header", ![k].list = x, ![k].reply = y]
      BY <2>4 DEF handleListResponse
    <3>2. q = [r EXCEPT !.phase = "header", !.list = x, !.reply = y]
      BY <1>1, <1>3, <3>1
    <3> QED
      BY <2>1, <3>2
  <2>5. CASE sendLength(k)
    <3>1. conn'[k] = IF r.reply = "empty" THEN Ended(r) ELSE [r EXCEPT !.phase = "body"]
      BY <1>1, <2>5 DEF sendLength
    <3> QED
      BY <1>3, <2>2, <3>1
  <2>6. CASE sendBody(k)
    <3>1. conn'[k] = Ended(r)
      BY <1>1, <2>6 DEF sendBody
    <3> QED
      BY <1>3, <2>2, <3>1
  <2> QED
    BY <2>3, <2>4, <2>5, <2>6
<1>8. q = Free \/ (q.phase \notin {"handle", "reading", "writing"} /\ q.found = r.found)
  BY <1>2, <1>7 DEF Plain
<1> QED
  BY <1>2, <1>3, <1>4, <1>5, <1>6, <1>7, <1>8 DEF Moves, Rests

(***************************************************************************)
(* Every step of a thread that does not die of SIGPIPE.                    *)
(***************************************************************************)
LEMMA ThreadMoves ==
  ASSUME StorageInv, NEW k \in Conns, Thread(k), ~sendBodySigpipe(k)
  PROVE  Moves(k)
<1>1. CASE handleGetResponse(k) \/ loadFileToVector(k)
  <2>1. conn \in [Conns -> Connection] /\ conn[k] \in Connection
    BY DEF StorageInv, TypeOK, ServerTypeOK
  <2>2. PICK q \in Connection :
          /\ conn' = [conn EXCEPT ![k] = q]
          /\ Served(conn[k], q) /\ Looks(conn[k], q) /\ UNCHANGED serverVars
    BY <1>1, GetServes
  <2>3. conn'[k] = q /\ \A j \in Conns : j # k => conn'[j] = conn[j]
    BY <2>1, <2>2
  <2> QED
    BY <2>2, <2>3 DEF Moves, Searches, serverVars
<1>2. CASE ~(handleGetResponse(k) \/ loadFileToVector(k))
  BY <1>2, PutMoves, RestMoves DEF Thread
<1> QED
  BY <1>1, <1>2

-----------------------------------------------------------------------------
\* The PUTs in the log and the requests they make.

LEMMA NextTurnFacts ==
  ASSUME NEW r \in Client
  PROVE  LET t == NextTurn(r)
         IN /\ t.op = r.op /\ t.file = r.file /\ t.dir = r.dir /\ t.ver = r.ver
            /\ t.pieces = r.pieces /\ t.since = r.since /\ t.listing = r.listing
            /\ t.prim = NoSock /\ t.sec = NoSock
            /\ \/ r.n < 3 /\ t.pc = "connect" /\ t.n = r.n + 1
               \/ r.n = 3 /\ t.pc = "prompt" /\ t.n = r.n
  BY DEF NextTurn, Finished, Client

\* The record that startPut appends to the log.
Typing(c, f, b) ==
  [file |-> f, bin |-> b, auth |-> c \in Authorized,
   room |-> \A s \in Servers : DirOf[f] \in dirs[s]]

\* What the user's command makes of the client's record.
LEMMA TypedFacts ==
  ASSUME StorageInv, NEW c \in Clients, Command(c)
  PROVE  LET t == cl'[c]
         IN \/ /\ t.op = "PUT" /\ t.pc = "connect" /\ "PUT" \in Workload[c] /\ t.n = 0
               /\ t.ver = Len(log) + 1 /\ t.file \in Files /\ t.dir = DirOf[t.file]
               /\ \E b \in Bins : log' = Append(log, Typing(c, t.file, b))
            \/ /\ t.op = "GET" /\ t.pc = "connect" /\ t.pieces = NoPieces
               /\ t.since = StoredOf(t.file) /\ UNCHANGED log
            \/ t.op \notin {"PUT", "GET"} /\ UNCHANGED log
<1>1. cl \in [Clients -> Client]
  BY ClientFacts
<1>2. CASE startPut(c)
  <2>1. PICK f \in Files, b \in Bins :
          /\ log' = Append(log, Typing(c, f, b))
          /\ cl' = [cl EXCEPT ![c] = [Begin("PUT", f, DirOf[f]) EXCEPT !.ver = Len(log) + 1]]
    BY <1>2 DEF startPut, Typing
  <2>2. cl'[c] = [Begin("PUT", f, DirOf[f]) EXCEPT !.ver = Len(log) + 1]
    BY <1>1, <2>1
  <2>3. LET t == [Begin("PUT", f, DirOf[f]) EXCEPT !.ver = Len(log) + 1]
        IN /\ t.op = "PUT" /\ t.pc = "connect" /\ t.n = 0 /\ t.ver = Len(log) + 1
           /\ t.file = f /\ t.dir = DirOf[f]
    BY DEF Begin, Prompt
  <2>4. "PUT" \in Workload[c]
    BY <1>2 DEF startPut, Typed
  <2> QED
    BY <2>1, <2>2, <2>3, <2>4
<1>3. CASE startGet(c)
  <2>1. PICK f \in Files :
          /\ UNCHANGED log
          /\ cl' = [cl EXCEPT ![c] = [Begin("GET", f, DirOf[f]) EXCEPT !.since = StoredOf(f)]]
    BY <1>3 DEF startGet
  <2>2. cl'[c] = [Begin("GET", f, DirOf[f]) EXCEPT !.since = StoredOf(f)]
    BY <1>1, <2>1
  <2>3. LET t == [Begin("GET", f, DirOf[f]) EXCEPT !.since = StoredOf(f)]
        IN /\ t.op = "GET" /\ t.pc = "connect" /\ t.pieces = NoPieces
           /\ t.since = StoredOf(f) /\ t.file = f
    BY DEF Begin, Prompt
  <2> QED
    BY <2>1, <2>2, <2>3
<1>4. CASE startList(c)
  <2>1. PICK d \in Dirs : UNCHANGED log /\ cl' = [cl EXCEPT ![c] = Begin("LIST", None, d)]
    BY <1>4 DEF startList
  <2>2. cl'[c] = Begin("LIST", None, d)
    BY <1>1, <2>1
  <2> QED
    BY <2>1, <2>2, BeginFacts
<1>5. CASE startMkDir(c)
  <2>1. PICK d \in Dirs : UNCHANGED log /\ cl' = [cl EXCEPT ![c] = Begin("MKDIR", None, d)]
    BY <1>5 DEF startMkDir
  <2>2. cl'[c] = Begin("MKDIR", None, d)
    BY <1>1, <2>1
  <2> QED
    BY <2>1, <2>2, BeginFacts
<1>6. CASE exit(c)
  <2>1. UNCHANGED log /\ cl' = [cl EXCEPT ![c] = [Prompt EXCEPT !.pc = "gone"]]
    BY <1>6 DEF exit
  <2>2. cl'[c] = [Prompt EXCEPT !.pc = "gone"]
    BY <1>1, <2>1
  <2> QED
    BY <2>1, <2>2, GoneType
<1> QED
  BY <1>2, <1>3, <1>4, <1>5, <1>6 DEF Command

\* A log that has grown by one record.
LEMMA LogAppended ==
  ASSUME log \in Seq(PutRecord), NEW e, log' = Append(log, e)
  PROVE  /\ DOMAIN log' = DOMAIN log \cup {Len(log) + 1}
         /\ Len(log) + 1 \notin DOMAIN log
         /\ \A v \in DOMAIN log : log'[v] = log[v] /\ v \in Nat /\ v < Len(log) + 1
         /\ log'[Len(log) + 1] = e
  OBVIOUS

(***************************************************************************)
(* Every command that goes on keeps its name, file, directory and version; *)
(* only the last answer of a PUT makes it a stored one.                    *)
(***************************************************************************)
Goes(c) ==
  LET r == cl[c]
      t == cl'[c]
  IN /\ UNCHANGED log
     /\ \/ t.op = "none" /\ UNCHANGED stored
        \/ /\ r.pc # "prompt"
           /\ t.op = r.op /\ t.file = r.file /\ t.dir = r.dir /\ t.ver = r.ver
           /\ t.since = r.since
           /\ \/ UNCHANGED stored
              \/ /\ r.op = "PUT" /\ t.pc = "prompt" /\ log[r.ver].auth
                 /\ stored' = stored \cup {r.ver}

LEMMA NotDeliveredKeeps ==
  ASSUME NEW r \in Client
  PROVE  LET t == NotDelivered(r)
         IN /\ t.op = r.op /\ t.file = r.file /\ t.dir = r.dir
            /\ t.pieces = r.pieces /\ t.since = r.since /\ t.pc \in {"connect", "prompt"}
<1> DEFINE y == [r EXCEPT !.failed = @ \cup {r.n}]
<1>1. /\ y \in Client
      /\ y.op = r.op /\ y.file = r.file /\ y.dir = r.dir
      /\ y.pieces = r.pieces /\ y.since = r.since
  BY DEF Client, Servers
<1>2. NotDelivered(r) = GetTurn(y, FALSE)
  BY DEF NotDelivered
<1> HIDE DEF y
<1>3. LET t == GetTurn(y, FALSE)
      IN /\ t.op = y.op /\ t.file = y.file /\ t.dir = y.dir
         /\ t.pieces = y.pieces /\ t.since = y.since /\ t.pc \in {"connect", "prompt"}
  BY <1>1, GetTurnFacts
<1> QED
  BY <1>1, <1>2, <1>3

LEMMA DeliveredKeeps ==
  ASSUME NEW r \in Client, NEW found \in [Pieces -> Content]
  PROVE  LET t == Delivered(r, found)
         IN /\ t.op = r.op /\ t.file = r.file /\ t.dir = r.dir
            /\ t.since = r.since /\ t.pc \in {"connect", "prompt"}
            /\ \A i \in Pieces : t.pieces[i] \in {found[i], r.pieces[i]}
            /\ \A i \in Pieces : t.pieces[i] = Absent => found[i] = Absent
<1> DEFINE p == [i \in Pieces |-> IF found[i] # Absent THEN found[i] ELSE r.pieces[i]]
           y == [r EXCEPT !.pieces = p]
<1>1. p \in [Pieces -> Content]
  BY DEF Client
<1>2. \A i \in Pieces : p[i] \in {found[i], r.pieces[i]} /\ (p[i] = Absent => found[i] = Absent)
  OBVIOUS
<1>3. Delivered(r, found) = GetTurn(y, TRUE)
  BY DEF Delivered
<1> HIDE DEF p
<1>4. /\ y.op = r.op /\ y.file = r.file /\ y.dir = r.dir /\ y.since = r.since
      /\ y.pieces = p
  BY DEF Client
<1>5. y \in Client
  BY <1>1 DEF Client
<1> HIDE DEF y
<1>6. LET t == GetTurn(y, TRUE)
      IN /\ t.op = y.op /\ t.file = y.file /\ t.dir = y.dir /\ t.since = y.since
         /\ t.pc \in {"connect", "prompt"} /\ t.pieces = y.pieces
  BY <1>5, GetTurnFacts
<1> QED
  BY <1>2, <1>3, <1>4, <1>6

LEMMA StepGoes ==
  ASSUME StorageInv, NEW c \in Clients, Step(c) \/ getResponseTimeout(c)
  PROVE  Goes(c)
<1> DEFINE r == cl[c]
           t == cl'[c]
<1>1. r \in Client /\ conn \in [Conns -> Connection]
  BY ClientFacts
<1>2. ASSUME SameGet(t, r), r.pc # "prompt", UNCHANGED <<log, stored>>
      PROVE  Goes(c)
  BY <1>2 DEF SameGet, Goes
<1>3. ASSUME NEW u \in Client, t = NextTurn(u), r.pc # "prompt",
             u.op = r.op, u.file = r.file, u.dir = r.dir, u.ver = r.ver, u.since = r.since
      PROVE  t.op = r.op /\ t.file = r.file /\ t.dir = r.dir /\ t.ver = r.ver
             /\ t.since = r.since
  BY <1>3, NextTurnFacts
<1>4. ASSUME t = NotDelivered(r), r.sec = NoSock
      PROVE  t.op = r.op /\ t.file = r.file /\ t.dir = r.dir /\ t.ver = r.ver
             /\ t.since = r.since
  <2>1. Settled(t, r)
    BY <1>1, <1>4, NotDeliveredOK
  <2> QED
    BY <1>1, <1>4, <2>1, NotDeliveredKeeps DEF Settled
<1>5. CASE connectFirst(c)
  <2>1. UNCHANGED <<log, stored>> /\ r.pc # "prompt" /\ r.sec = NoSock
    BY <1>5, ConnectFirstFacts
  <2>2. SameGet(t, r) \/ t = NotDelivered(r) \/ t = NextTurn(r)
    BY <1>5, ConnectFirstFacts
  <2> QED
    BY <1>1, <1>2, <1>3, <1>4, <2>1, <2>2 DEF Goes
<1>6. CASE connectSecond(c)
  <2>1. UNCHANGED <<log, stored>> /\ r.pc # "prompt"
    BY <1>6, ConnectSecondFacts
  <2>2. SameGet(t, r) \/ t = NextTurn(r)
    BY <1>6, ConnectSecondFacts
  <2> QED
    BY <1>1, <1>2, <1>3, <2>1, <2>2 DEF Goes
<1>7. CASE sendRequest(c)
  BY <1>2, <1>7, SendFacts
<1>8. CASE sendRequestSigpipe(c)
  BY <1>8, SigpipeFacts DEF Goes, sendRequestSigpipe
<1>9. CASE sendRequestNoSock(c) \/ getResponseCut(c)
  <2>1. SameGet(t, r) /\ UNCHANGED <<log, stored>> /\ r.pc # "prompt"
    BY <1>9, SpinFacts DEF Receiving
  <2> QED
    BY <1>2, <2>1
<1>10. CASE getResponse(c) \/ getResponseTimeout(c)
  <2>1. PICK table \in [Conns -> Connection], got \in BOOLEAN :
          Continue(c, table, got)
    BY <1>10, Receives
  <2>2. Sock(c) \in Conns /\ r.pc \in {"recv", "recv2"} /\ UNCHANGED log
    BY <1>10, Receives DEF getResponse, getResponseTimeout
  <2>3. t.op = r.op /\ t.file = r.file /\ t.dir = r.dir /\ t.ver = r.ver
        /\ t.since = r.since
    <3>1. CASE r.op = "PUT" \/ r.op = "MKDIR"
      <4>1. SameGet(t, r) \/ t = NextTurn(r)
        BY <2>1, <3>1, ContinueFacts
      <4> QED
        BY <1>1, <1>3, <2>2, <4>1 DEF SameGet
    <3>2. CASE r.op = "GET"
      <4>1. r.sec = NoSock
        BY <3>2, ClientFacts DEF SocketsOK
      <4>2. t = NotDelivered(r) \/ t = Delivered(r, table[Sock(c)].found)
        BY <2>1, <3>2, ContinueFacts
      <4>3. table[Sock(c)].found \in [Pieces -> Content]
        BY <2>1, <2>2 DEF Connection
      <4>4. ASSUME NEW x \in [Pieces -> Content], t = Delivered(r, x)
            PROVE  t.op = r.op /\ t.file = r.file /\ t.dir = r.dir /\ t.ver = r.ver
                   /\ t.since = r.since
        <5>1. Settled(t, r)
          BY <1>1, <4>1, <4>4, DeliveredOK
        <5> QED
          BY <1>1, <4>4, <5>1, DeliveredKeeps DEF Settled
      <4> QED
        BY <1>4, <4>1, <4>2, <4>3, <4>4
    <3>3. CASE r.op = "LIST"
      <4> DEFINE z == IF got THEN r.listing \cup table[Sock(c)].list ELSE r.listing
                 u == [r EXCEPT !.listing = z]
      <4>1. t = NextTurn([r EXCEPT !.listing = IF got THEN @ \cup table[Sock(c)].list ELSE @])
        BY <2>1, <3>3, ContinueFacts
      <4>2. t = NextTurn(u)
        BY <4>1
      <4>3. z \in SUBSET (Files \X Pieces)
        BY <1>1, <2>1, <2>2 DEF Client, Connection
      <4> HIDE DEF z
      <4>4. /\ u \in Client /\ u.op = r.op /\ u.file = r.file /\ u.dir = r.dir /\ u.ver = r.ver
            /\ u.since = r.since
        BY <1>1, <4>3 DEF Client
      <4> HIDE DEF u
      <4> QED
        BY <1>3, <2>2, <4>2, <4>4
    <3> QED
      BY <2>1, <3>1, <3>2, <3>3, ContinueFacts
  <2>4. CASE UNCHANGED stored
    BY <2>2, <2>3, <2>4 DEF Goes
  <2>5. CASE ~UNCHANGED stored
    <3>1. stored' = stored \cup {r.ver} /\ StoresAll(c)
      BY <1>10, <2>5 DEF getResponse, getResponseTimeout
    <3>2. r.op = "PUT" /\ r.pc = "recv2" /\ r.n = 3 /\ log[r.ver].auth
      BY <3>1 DEF StoresAll
    <3>3. t = NextTurn(r)
      BY <2>1, <3>2, ContinueFacts
    <3>4. t.pc = "prompt"
      BY <1>1, <3>2, <3>3, NextTurnFacts
    <3> QED
      BY <2>2, <2>3, <3>1, <3>2, <3>4 DEF Goes
  <2> QED
    BY <2>4, <2>5
<1> QED
  BY <1>5, <1>6, <1>7, <1>8, <1>9, <1>10 DEF Step

(***************************************************************************)
(* The servers' steps make directories and forget none, and a thread's     *)
(* request does not change.                                                *)
(***************************************************************************)
LEMMA DirsGrow ==
  ASSUME StorageInv, ServerNext
  PROVE  \A s \in Servers : dirs[s] \subseteq dirs'[s]
<1>1. dirs \in [Servers -> SUBSET Dirs]
  BY DEF StorageInv, TypeOK, ServerTypeOK
<1>2. ASSUME NEW k \in Conns, Thread(k), ~sendBodySigpipe(k)
      PROVE  \A s \in Servers : dirs[s] \subseteq dirs'[s]
  BY <1>2, ThreadMoves DEF Moves, Opens, Flushes, Saves, Searches, Rests
<1>3. ASSUME NEW k \in Conns, sendBodySigpipe(k) PROVE UNCHANGED dirs
  BY <1>3 DEF sendBodySigpipe, Die
<1>4. ASSUME NEW s \in Servers, Crash(s) PROVE UNCHANGED dirs
  BY <1>4 DEF Crash, Die
<1>5. ASSUME NEW s \in Servers, Restart(s)
      PROVE  \A x \in Servers : dirs[x] \subseteq dirs'[x]
  BY <1>1, <1>5 DEF Restart
<1> QED
  BY <1>2, <1>3, <1>4, <1>5 DEF ServerNext

LEMMA TypedServer ==
  ASSUME StorageInv, TypedInv, ServerNext
  PROVE  TypedInv'
<1>1. UNCHANGED <<cl, log, stored>> /\ conn \in [Conns -> Connection]
  BY DEF ServerNext, clientVars, StorageInv, TypeOK, ServerTypeOK
<1>2. LogOK'
  <2>1. \A v \in DOMAIN log : log[v].room => \A s \in Servers : DirOf[log[v].file] \in dirs'[s]
    BY DirsGrow DEF TypedInv, LogOK
  <2>2. (\A f \in Files : HasLast(f)) /\ \A v \in stored : log[v].auth
    BY DEF TypedInv, LogOK
  <2> QED
    BY <1>1, <2>1, <2>2 DEF LogOK, HasLast, PutsOf
<1>3. ASSUME NEW c \in Clients PROVE TypedOK(c)' /\ LatestOK(c)'
  BY <1>1 DEF TypedInv, TypedOK, LatestOK, Putting
<1>4. ASSUME NEW k \in Conns PROVE DirOK(conn[k])'
  <2>1. DirOK(conn[k]) /\ conn[k] \in Connection
    BY <1>1 DEF TypedInv
  <2>2. DirOK(Free)
    BY DEF DirOK, Free, NoRequest
  <2>3. ASSUME NEW j \in Conns, Thread(j), ~sendBodySigpipe(j) PROVE DirOK(conn'[k])
    <3>1. Moves(j)
      BY <2>3, ThreadMoves
    <3>2. CASE j # k
      BY <2>1, <3>1, <3>2 DEF Moves
    <3>3. CASE j = k
      <4>1. conn'[k] = Free \/ conn'[k].req = conn[k].req
        BY <3>1, <3>3 DEF Moves, Served
      <4>2. conn'[k] = Free \/ (conn'[k].phase \in {"handle", "reading"} => ~conn'[k].flushed)
        BY <2>1, <3>1, <3>3 DEF Moves, Opens, Flushes, Saves, Searches, Looks, Rests, DirOK
      <4> QED
        BY <2>1, <2>2, <4>1, <4>2 DEF DirOK
    <3> QED
      BY <3>2, <3>3
  <2>4. ASSUME NEW s, Die(s) PROVE DirOK(conn'[k])
    <3>1. conn'[k] = IF conn[k].srv = s THEN Severed(conn[k]) ELSE conn[k]
      BY <2>4 DEF Die, ServerGone
    <3>2. DirOK(Severed(conn[k]))
      BY <2>1, <2>2 DEF Severed, DirOK, Connection
    <3> QED
      BY <2>1, <3>1, <3>2
  <2>5. ASSUME NEW s, Restart(s) PROVE DirOK(conn'[k])
    BY <2>1, <2>5 DEF Restart
  <2>6. DirOK(conn'[k])
    BY <2>3, <2>4, <2>5 DEF ServerNext, sendBodySigpipe, Crash
  <2> QED
    BY <2>6 DEF DirOK
<1> QED
  BY <1>2, <1>3, <1>4 DEF TypedInv

\* There is one writer.
LEMMA OnlyWriter ==
  ASSUME OneWriter, NEW c \in Clients, NEW d \in Clients,
         TypedOK(c), TypedOK(d), Putting(c), Putting(d)
  PROVE  c = d
  BY DEF OneWriter, TypedOK, Putting

(***************************************************************************)
(* The log after a PUT command: the new one is the last.                   *)
(***************************************************************************)
LEMMA LogTyped ==
  ASSUME StorageInv, LogOK, NEW c \in Clients, NEW f \in Files, NEW b \in Bins,
         log' = Append(log, Typing(c, f, b)), UNCHANGED <<stored, dirs>>
  PROVE  LogOK'
<1>1. log \in Seq(PutRecord) /\ stored \subseteq DOMAIN log
  BY DEF StorageInv, TypeOK, ClientTypeOK
<1> DEFINE n == Len(log) + 1
           e == Typing(c, f, b)
<1>2. /\ DOMAIN log' = DOMAIN log \cup {n} /\ n \notin DOMAIN log
      /\ \A v \in DOMAIN log : log'[v] = log[v] /\ v \in Nat /\ v < n
      /\ log'[n] = e
  BY <1>1, LogAppended
<1>3. n \in Nat
  BY <1>1
<1>4. /\ e.file = f /\ (e.auth <=> c \in Authorized)
      /\ e.room => \A s \in Servers : DirOf[f] \in dirs[s]
  BY DEF Typing
<1> HIDE DEF n, e
<1>5. ASSUME NEW g \in Files PROVE HasLast(g)'
  <2>1. HasLast(g)
    BY DEF LogOK
  <2>2. CASE g = f /\ c \in Authorized
    <3>1. n \in PutsOf(g)' /\ \A w \in PutsOf(g)' : w <= n
      BY <1>2, <1>3, <1>4, <2>2 DEF PutsOf
    <3> QED
      BY <3>1 DEF HasLast
  <2>3. CASE ~(g = f /\ c \in Authorized)
    <3>1. \A v \in DOMAIN log : v \in PutsOf(g)' <=> v \in PutsOf(g)
      BY <1>2 DEF PutsOf
    <3>2. n \notin PutsOf(g)' /\ PutsOf(g)' \subseteq DOMAIN log' /\ PutsOf(g) \subseteq DOMAIN log
      BY <1>2, <1>4, <2>3 DEF PutsOf
    <3>3. PutsOf(g)' = PutsOf(g)
      BY <1>2, <3>1, <3>2
    <3> QED
      BY <2>1, <3>3 DEF HasLast
  <2> QED
    BY <2>2, <2>3
<1>6. \A v \in stored' : log'[v].auth
  BY <1>1, <1>2 DEF LogOK
<1>7. \A v \in DOMAIN log' : log'[v].room => \A s \in Servers : DirOf[log'[v].file] \in dirs'[s]
  BY <1>2, <1>4 DEF LogOK
<1> QED
  BY <1>5, <1>6, <1>7 DEF LogOK

(***************************************************************************)
(* A client's step: only the writer adds an accepted PUT to the log, and   *)
(* only when its last one is over.                                         *)
(***************************************************************************)
LEMMA TypedClient ==
  ASSUME StorageInv, GetInv, OneWriter, TypedInv, NEW c \in Clients, Act(c)
  PROVE  TypedInv'
<1> DEFINE r == cl[c]
           t == cl'[c]
<1>1. /\ log \in Seq(PutRecord) /\ stored \subseteq DOMAIN log
      /\ CommandOK(c) /\ conn \in [Conns -> Connection]
  BY ClientFacts DEF StorageInv, TypeOK, ClientTypeOK
<1>2. /\ \A k \in Conns : Touches(c, conn[k], conn'[k])
      /\ \A d \in Clients : d # c => cl'[d] = cl[d]
      /\ UNCHANGED <<disk, dirs>>
  BY ClientTouches DEF serverVars
<1>3. LogOK /\ TypedOK(c) /\ LatestOK(c)
  BY DEF TypedInv
<1>4. ASSUME NEW k \in Conns PROVE DirOK(conn[k])'
  <2>1. DirOK(conn[k]) /\ Touches(c, conn[k], conn'[k]) /\ AnswerOK(conn[k])
    BY <1>2 DEF TypedInv, GetInv, AnswersOK
  <2>2. DirOK(Free)
    BY DEF DirOK, Free, NoRequest
  <2>3. CASE conn'[k].req = RequestOf(c) /\ conn[k].phase = "request" /\ conn'[k].phase = "handle"
             /\ conn'[k].flushed = conn[k].flushed
    <3>1. ~conn'[k].flushed
      BY <2>1, <2>3 DEF AnswerOK
    <3>2. /\ conn'[k].req.method = r.op /\ conn'[k].req.dir = r.dir
          /\ conn'[k].req.file = r.file
      BY <2>3 DEF RequestOf
    <3> QED
      BY <1>3, <3>1, <3>2 DEF DirOK, TypedOK
  <2>4. CASE conn'[k].req = NoRequest /\ conn'[k].phase = "request"
    BY <2>4 DEF DirOK, NoRequest
  <2>5. CASE conn'[k] \in {conn[k], Free}
    BY <2>1, <2>2, <2>5 DEF DirOK
  <2>6. CASE conn'[k].req = conn[k].req /\ conn'[k].phase = conn[k].phase
             /\ conn'[k].flushed = conn[k].flushed
    BY <2>1, <2>6 DEF DirOK
  <2> QED
    BY <2>1, <2>3, <2>4, <2>5, <2>6 DEF Touches
<1>5. CASE Command(c)
  <2>1. UNCHANGED stored /\ r.pc = "prompt"
    BY <1>5, CommandFacts
  <2>2. CASE t.op = "PUT"
    <3>1. /\ "PUT" \in Workload[c] /\ t.ver = Len(log) + 1 /\ t.file \in Files
          /\ t.dir = DirOf[t.file]
      BY <1>5, <2>2, TypedFacts
    <3>2. PICK b \in Bins : log' = Append(log, Typing(c, t.file, b))
      BY <1>5, <2>2, TypedFacts
    <3>3. LogOK'
      BY <1>2, <1>3, <2>1, <3>1, <3>2, LogTyped
    <3>4. /\ DOMAIN log' = DOMAIN log \cup {t.ver} /\ t.ver \notin DOMAIN log
          /\ \A v \in DOMAIN log : log'[v] = log[v] /\ v \in Nat /\ v < t.ver
          /\ t.ver \in Nat
      BY <1>1, <3>1, <3>2, LogAppended
    <3>5. log'[t.ver].auth <=> c \in Authorized
      <4> DEFINE e == Typing(c, t.file, b)
      <4>1. log'[t.ver] = e
        BY <1>1, <3>1, <3>2, LogAppended
      <4>2. e.auth <=> c \in Authorized
        BY DEF Typing
      <4> HIDE DEF e
      <4> QED
        BY <4>1, <4>2
    <3>6. ASSUME NEW d \in Clients PROVE TypedOK(d)' /\ LatestOK(d)'
      <4>1. CASE d = c
        <5>1. t.ver \notin stored' /\ \A w \in DOMAIN log' : w <= t.ver
          BY <1>1, <2>1, <3>4
        <5>2. TypedOK(c)'
          BY <3>1 DEF TypedOK
        <5>3. LatestOK(c)'
          BY <5>1 DEF LatestOK
        <5> QED
          BY <4>1, <5>2, <5>3
      <4>2. CASE d # c
        <5>1. TypedOK(d) /\ LatestOK(d) /\ cl'[d] = cl[d]
          BY <1>2, <4>2 DEF TypedInv
        <5>2. Putting(d) => c \notin Authorized
          BY <3>1, <4>2, <5>1 DEF Putting, TypedOK, OneWriter
        <5> QED
          BY <2>1, <3>4, <3>5, <5>1, <5>2 DEF TypedOK, LatestOK, Putting
      <4> QED
        BY <4>1, <4>2
    <3> QED
      BY <1>4, <3>3, <3>6 DEF TypedInv
  <2>3. CASE t.op # "PUT"
    <3>1. UNCHANGED log
      BY <1>5, <2>3, TypedFacts
    <3>2. LogOK'
      BY <1>2, <1>3, <2>1, <3>1 DEF LogOK, HasLast, PutsOf
    <3>3. ASSUME NEW d \in Clients PROVE TypedOK(d)' /\ LatestOK(d)'
      <4>1. CASE d = c
        BY <2>3, <4>1 DEF TypedOK, LatestOK, Putting
      <4>2. CASE d # c
        BY <1>2, <2>1, <3>1, <4>2 DEF TypedInv, TypedOK, LatestOK, Putting
      <4> QED
        BY <4>1, <4>2
    <3> QED
      BY <1>4, <3>2, <3>3 DEF TypedInv
  <2> QED
    BY <2>2, <2>3
<1>6. CASE Step(c) \/ getResponseTimeout(c)
  <2>1. UNCHANGED log /\ Goes(c)
    BY <1>6, StepGoes DEF Goes
  <2>2. stored' \subseteq stored \cup {r.ver}
    BY <2>1 DEF Goes
  <2>3. stored' # stored => /\ r.op = "PUT" /\ log[r.ver].auth /\ r.pc # "prompt"
                            /\ t.pc = "prompt"
    BY <2>1 DEF Goes
  <2>4. stored' # stored => Putting(c)
    BY <1>1, <2>3 DEF CommandOK, Putting
  <2>5. LogOK'
    <3>1. \A v \in stored' : log[v].auth
      BY <1>3, <2>2, <2>3 DEF LogOK
    <3>2. /\ \A f \in Files : HasLast(f)
          /\ \A v \in DOMAIN log :
               log[v].room => \A s \in Servers : DirOf[log[v].file] \in dirs[s]
      BY <1>3 DEF LogOK
    <3> QED
      BY <1>2, <2>1, <3>1, <3>2 DEF LogOK, HasLast, PutsOf
  <2>6. ASSUME NEW d \in Clients PROVE TypedOK(d)' /\ LatestOK(d)'
    <3>1. CASE d = c
      <4>1. t.op = "PUT" =>
              /\ r.op = "PUT" /\ r.pc # "prompt" /\ t.ver = r.ver
              /\ t.file = r.file /\ t.dir = r.dir
        BY <2>1 DEF Goes
      <4>2. TypedOK(c)'
        BY <1>3, <4>1 DEF TypedOK
      <4>3. LatestOK(c)'
        BY <1>3, <2>1, <2>2, <2>3, <4>1 DEF LatestOK, Putting
      <4> QED
        BY <3>1, <4>2, <4>3
    <3>2. CASE d # c
      <4>1. TypedOK(d) /\ LatestOK(d) /\ cl'[d] = cl[d]
        BY <1>2, <3>2 DEF TypedInv
      <4>2. Putting(d) => UNCHANGED stored
        BY <1>3, <2>4, <3>2, <4>1, OnlyWriter
      <4> QED
        BY <2>1, <4>1, <4>2 DEF TypedOK, LatestOK, Putting
    <3> QED
      BY <3>1, <3>2
  <2> QED
    BY <1>4, <2>5, <2>6 DEF TypedInv
<1> QED
  BY <1>5, <1>6 DEF Act

-----------------------------------------------------------------------------
\* The threads and their clients without faults.

(***************************************************************************)
(* A thread that has its request works for a client that waits for it.     *)
(***************************************************************************)
LEMMA AtWork ==
  ASSUME StorageInv, GetInv, Calm, NEW k \in Conns,
         conn[k].phase \in {"handle", "reading", "writing", "header", "body"}
  PROVE  \E c \in Clients :
           /\ conn[k].req = RequestOf(c)
           /\ conn[k].cli = c
           /\ \/ cl[c].pc = "recv" /\ k = cl[c].prim
              \/ cl[c].pc = "recv2" /\ k = cl[c].sec
<1>1. PICK c \in Clients : conn[k].cli = c /\ k \in {cl[c].prim, cl[c].sec}
  BY DEF Calm, Attended
<1>2. ExchangeOK(c) /\ Connected(c) /\ SocketsOK(c) /\ cl[c] \in Client
  BY ClientFacts DEF GetInv, ExchangesOK, Calm
<1>3. k # NoSock
  BY DEF Conns, NoSock
<1>4. cl[c].pc \in {"connect2", "send", "recv", "send2", "recv2"}
  BY <1>1, <1>2, <1>3 DEF SocketsOK, Connected, Client
<1>5. CASE k = cl[c].prim
  <2>1. cl[c].pc \notin {"connect2", "send"}
    BY <1>2, <1>3, <1>5 DEF ExchangeOK, Unasked
  <2>2. cl[c].pc \notin {"send2", "recv2"}
    BY <1>2, <1>5 DEF Connected
  <2>3. Asked(c, k)
    BY <1>2, <1>4, <1>5, <2>1, <2>2 DEF ExchangeOK
  <2> QED
    BY <1>1, <1>4, <1>5, <2>1, <2>2, <2>3 DEF Asked
<1>6. CASE k = cl[c].sec
  <2>1. cl[c].pc \notin {"send", "recv", "send2"}
    BY <1>2, <1>3, <1>6 DEF ExchangeOK, Unasked
  <2>2. cl[c].pc # "connect2"
    BY <1>2, <1>3, <1>6 DEF SocketsOK
  <2>3. Asked(c, k)
    BY <1>2, <1>4, <1>6, <2>1, <2>2 DEF ExchangeOK
  <2> QED
    BY <1>1, <1>4, <1>6, <2>1, <2>2, <2>3 DEF Asked
<1> QED
  BY <1>1, <1>5, <1>6

(***************************************************************************)
(* A step of the servers that is no fault is one of a thread that lives.   *)
(***************************************************************************)
LEMMA CalmMoves ==
  ASSUME StorageInv, CalmInv, ServerNext, NoFault'
  PROVE  NoFault /\ Calm /\ \E k \in Conns : Moves(k)
<1>1. ASSUME NEW s \in Servers, Die(s) PROVE died' # {}
  BY <1>1 DEF Die
<1>2. UNCHANGED timeouts
  BY DEF ServerNext, clientVars
<1>3. NoFault /\ Calm
  <2>1. UNCHANGED died \/ died' # {}
    BY ServerMoves, <1>1 DEF Restart, Die
  <2> QED
    BY <1>2, <2>1 DEF NoFault, CalmInv
<1>4. ASSUME NEW s \in Servers PROVE ~Crash(s) /\ ~Restart(s)
  BY <1>1, <1>3 DEF Crash, Restart, Calm, NoFault
<1>5. ASSUME NEW k \in Conns PROVE ~sendBodySigpipe(k)
  BY <1>3, <1>5 DEF sendBodySigpipe, Calm, Attended
<1>6. PICK k \in Conns : Thread(k)
  BY <1>4 DEF ServerNext
<1> QED
  BY <1>3, <1>5, <1>6, ThreadMoves

-----------------------------------------------------------------------------
\* Steps of the threads on the piece files.

\* The two servers of a piece are different.
LEMMA TwoHolders ==
  ASSUME NEW n \in 0..3, NEW b \in 0..3
  PROVE  Primary(n, b) # Secondary(n, b)
  BY DEF Primary, Secondary

\* What the request of client c says.
LEMMA RequestFacts ==
  ASSUME NEW c
  PROVE  LET q == RequestOf(c)
         IN /\ q.method = cl[c].op /\ q.file = cl[c].file /\ q.dir = cl[c].dir
            /\ q.ver = cl[c].ver /\ (q.auth <=> c \in Authorized)
            /\ cl[c].op = "PUT" => q.piece = cl[c].n
  BY DEF RequestOf

\* The records of the log.
LEMMA LogFacts ==
  ASSUME StorageInv
  PROVE  /\ log \in Seq(PutRecord) /\ stored \subseteq DOMAIN log
         /\ \A w \in DOMAIN log :
              w \in Nat /\ log[w].file \in Files /\ log[w].bin \in 0..3
<1>1. log \in Seq(PutRecord) /\ stored \subseteq DOMAIN log
  BY DEF StorageInv, TypeOK, ClientTypeOK
<1>2. \A w \in DOMAIN log : w \in Nat /\ log[w] \in PutRecord
  BY <1>1
<1> QED
  BY <1>1, <1>2 DEF PutRecord

\* A version is fresh if it is newer than those in S.
LEMMA NewerIsFresh ==
  ASSUME NEW v \in Nat, NEW S \in SUBSET Nat, \A u \in S : u < v
  PROVE  FreshSince(Part(v), S) /\ FreshSince(Whole(v), S)
<1>1. \A u \in S : v >= u /\ v > u
  OBVIOUS
<1>2. Part(v).kind = "part" /\ Part(v).ver = v /\ Whole(v).kind = "whole" /\ Whole(v).ver = v
  BY DEF Part, Whole
<1> QED
  BY <1>1, <1>2 DEF FreshSince

\* Part of what a thread's step must keep: the other clients do not see it.
LEMMA OtherReaders ==
  ASSUME StorageInv, NEW k \in Conns, NEW c \in Clients, conn[k].cli = c,
         \A j \in Conns : j # k => conn'[j] = conn[j],
         UNCHANGED <<cl, log, stored>>,
         NEW d \in Clients, ReaderOK(d), cl[d].op = "GET" => d # c
  PROVE  ReaderOK(d)'
<1>1. cl[d].op = "GET" /\ cl[d].pc = "recv" => conn'[cl[d].prim] = conn[cl[d].prim]
  BY Sockets
<1> QED
  BY <1>1 DEF ReaderOK, StoredOf, SameBin, PutsOf

(***************************************************************************)
(* A thread that stores a piece works for the one PUT that is under way,   *)
(* which is the last of its file, and no other thread writes that file:    *)
(* what it reads of the file before it writes is what it wrote itself.     *)
(***************************************************************************)
LEMMA WriterMoves ==
  ASSUME StorageInv, GetInv, Calm, OneWriter, TypedInv, CopiesOK,
         NEW k \in Conns, Moves(k), Opens(k) \/ Flushes(k) \/ Saves(k),
         UNCHANGED clientVars
  PROVE  CopiesOK'
<1> DEFINE r == conn[k]
           s == r.srv
           f == r.req.file
           i == r.req.piece
           v == r.req.ver
<1>1. /\ conn \in [Conns -> Connection] /\ r \in Connection /\ RequestOK(r) /\ DirOK(r)
      /\ disk \in [Servers -> [Files -> [Pieces -> Content]]]
      /\ UNCHANGED <<cl, log, stored>>
  BY DEF StorageInv, TypeOK, ServerTypeOK, RequestsOK, TypedInv, clientVars
<1>2. /\ r.req.method = "PUT" /\ r.req.auth /\ r.phase \in {"handle", "writing"}
      /\ conn'[k].phase \in {"writing", "header"}
      /\ conn'[k].req = r.req /\ conn'[k].srv = s
  BY <1>1 DEF Opens, Flushes, Saves, RequestOK, Moves, Served, Free
<1>3. /\ s \in Servers /\ f \in Files /\ i \in Pieces
      /\ v \in DOMAIN log /\ log[v].file = f /\ log[v].auth
  BY <1>1, <1>2 DEF Connection, Request, RequestOK
<1>4. PICK c \in Clients :
        /\ r.req = RequestOf(c) /\ r.cli = c
        /\ \/ cl[c].pc = "recv" /\ k = cl[c].prim
           \/ cl[c].pc = "recv2" /\ k = cl[c].sec
  BY <1>2, AtWork
<1>5. /\ Putting(c) /\ f = cl[c].file /\ v = cl[c].ver /\ i = cl[c].n
  BY <1>2, <1>4, RequestFacts DEF Putting
<1>6. PutOK(c) /\ WriterOK(r)
  BY <1>4, <1>5 DEF CopiesOK, PutOK
<1>7. PICK x \in {Empty, Part(v), Whole(v)} :
        /\ disk' = [disk EXCEPT ![s][f][i] = x]
        /\ conn'[k].phase = "writing" => x = IF conn'[k].flushed THEN Part(v) ELSE Empty
        /\ conn'[k].phase = "header" => x = Whole(v)
  <2>1. CASE Opens(k)
    BY <1>1, <2>1 DEF Opens, Puts, DirOK
  <2>2. CASE Flushes(k)
    <3>1. disk[s][f][i] = Empty
      BY <1>6, <2>2 DEF Flushes, WriterOK
    <3> QED
      BY <2>2, <3>1 DEF Flushes, Puts
  <2>3. CASE Saves(k)
    <3>1. disk[s][f][i] = IF r.flushed THEN Part(v) ELSE Empty
      BY <1>6, <2>3 DEF Saves, WriterOK
    <3>2. Written(v, disk[s][f][i], r.flushed) = {Whole(v)}
      BY <3>1 DEF Written
    <3> QED
      BY <2>3, <3>2 DEF Saves, Puts
  <2> QED
    BY <2>1, <2>2, <2>3
<1>8. \A a \in Servers, g \in Files, j \in Pieces :
        disk'[a][g][j] = IF a = s /\ g = f /\ j = i THEN x ELSE disk[a][g][j]
  BY <1>1, <1>3, <1>7, SMTT(30)
<1>9. WriterOK(conn[k])'
  <2>1. disk'[s][f][i] = x
    BY <1>3, <1>8
  <2>2. /\ conn'[k].phase = "writing" => x = IF conn'[k].flushed THEN Part(v) ELSE Empty
        /\ conn'[k].phase = "header" => x = Whole(v)
    BY <1>7
  <2> QED
    BY <1>2, <2>1, <2>2 DEF WriterOK
<1>10. /\ v \notin stored /\ \A w \in DOMAIN log : log[w].auth => w <= v
       /\ \A d \in Clients : Putting(d) => d = c
  BY <1>5, OnlyWriter DEF TypedInv, LatestOK
<1>11. /\ log \in Seq(PutRecord) /\ stored \subseteq DOMAIN log
       /\ \A u \in stored : log[u].auth
  BY LogFacts DEF TypedInv, LogOK
<1>12. \A w \in DOMAIN log : w \in Nat /\ log[w].file \in Files /\ log[w].bin \in 0..3
  BY LogFacts
<1>13. LastCopied'
  <2> SUFFICES ASSUME NEW u \in stored, \A w \in PutsOf(log[u].file) : w <= u
               PROVE  Copied(log[u].file, u, 4)'
    BY <1>1 DEF LastCopied, PutsOf
  <2>1. log[u].file # f
    <3>1. SUFFICES ASSUME log[u].file = f PROVE FALSE
      OBVIOUS
    <3>2. v \in PutsOf(f) /\ u <= v
      BY <1>3, <1>10, <1>11 DEF PutsOf
    <3>3. u = v
      BY <1>3, <1>11, <1>12, <3>1, <3>2
    <3> QED
      BY <1>10, <3>3
  <2>2. Copied(log[u].file, u, 4)
    BY DEF CopiesOK, LastCopied
  <2>3. \A j \in Pieces : Holders(j, log[u].bin) \subseteq Servers
    BY <1>11, <1>12 DEF Holders, Primary, Secondary, Servers, Pieces
  <2>4. log[u].file \in Files
    BY <1>11, <1>12
  <2>5. ASSUME NEW j \in Pieces, NEW a \in Servers
        PROVE  disk'[a][log[u].file][j] = disk[a][log[u].file][j]
    BY <1>8, <2>1, <2>4
  <2> QED
    BY <1>1, <2>2, <2>3, <2>5 DEF Copied
<1>14. DiskFresh'
  <2> SUFFICES ASSUME NEW g \in Files, NEW a \in Servers, NEW j \in Pieces,
                      SameBin(g), Readable(disk'[a][g][j])
               PROVE  FreshSince(disk'[a][g][j], StoredOf(g))
    <3>1. \A g : (SameBin(g)' <=> SameBin(g)) /\ StoredOf(g)' = StoredOf(g)
      BY <1>1 DEF SameBin, PutsOf, StoredOf
    <3> QED
      BY <3>1 DEF DiskFresh
  <2>1. CASE a = s /\ g = f /\ j = i
    <3>1. disk'[a][g][j] \in {Part(v), Whole(v)}
      BY <1>8, <2>1 DEF Readable
    <3>2. \A u \in StoredOf(f) : u < v
      BY <1>3, <1>10, <1>11, <1>12 DEF StoredOf
    <3>3. v \in Nat /\ StoredOf(f) \in SUBSET Nat
      BY <1>3, <1>11, <1>12 DEF StoredOf
    <3>4. FreshSince(Part(v), StoredOf(f)) /\ FreshSince(Whole(v), StoredOf(f))
      BY <3>2, <3>3, NewerIsFresh
    <3> QED
      BY <2>1, <3>1, <3>4
  <2>2. CASE ~(a = s /\ g = f /\ j = i)
    BY <1>8, <2>2 DEF CopiesOK, DiskFresh
  <2> QED
    BY <2>1, <2>2
<1>15. PutOK(c)'
  <2> DEFINE n == cl[c].n
             b == log[v].bin
  <2>1. cl[c] \in Client /\ n \in 0..3 /\ b \in 0..3 /\ Target(c) = Primary(n, b)
    BY <1>3, <1>5, <1>12, ClientFacts DEF Target, Putting
  <2>2. \A j \in Pieces : Holders(j, b) \subseteq Servers
    BY <2>1 DEF Holders, Primary, Secondary, Servers, Pieces
  <2>3. Copied(f, v, n) =>
          \A j \in Pieces : j < n => \A a \in Holders(j, b) : disk'[a][f][j] = Whole(v)
    <3> SUFFICES ASSUME Copied(f, v, n), NEW j \in Pieces, j < n, NEW a \in Holders(j, b)
                 PROVE  disk'[a][f][j] = Whole(v)
      OBVIOUS
    <3>1. disk[a][f][j] = Whole(v) /\ a \in Servers /\ j # i
      BY <1>5, <2>1, <2>2 DEF Copied
    <3> QED
      BY <1>3, <1>8, <3>1
  <2>4. cl[c].pc = "recv2" => disk'[Target(c)][f][n] = disk[Target(c)][f][n]
    <3>1. cl[c].pc = "recv2" => s = Secondary(n, b)
      BY <1>4, <1>5, Sockets DEF NoSock, Conns
    <3>2. Primary(n, b) # Secondary(n, b) /\ Primary(n, b) \in Servers
      BY <2>1, TwoHolders DEF Primary, Servers
    <3>3. /\ cl[c].pc = "recv2" => Target(c) # s
          /\ Target(c) \in Servers /\ f \in Files /\ n \in Pieces
      BY <1>3, <1>5, <2>1, <3>1, <3>2
    <3> HIDE DEF n
    <3> QED
      BY <1>8, <3>3
  <2>5. cl[c].pc \in {"recv", "recv2"} /\ Target(c)' = Target(c)
    BY <1>1, <1>4 DEF Target
  <2>6. log[v].room =>
          /\ Copied(cl[c].file, cl[c].ver, cl[c].n)'
          /\ cl[c].pc = "recv2" => disk'[Target(c)'][cl'[c].file][cl'[c].n] = Whole(cl'[c].ver)
    <3>1. log[v].room => Copied(f, v, n)
                         /\ (cl[c].pc = "recv2" => disk[Target(c)][f][n] = Whole(v))
      BY <1>5, <1>6 DEF PutOK
    <3>2. log[v].room => \A j \in Pieces : j < n =>
                           \A a \in Holders(j, b) : disk'[a][f][j] = Whole(v)
      BY <2>3, <3>1
    <3>3. log[v].room /\ cl[c].pc = "recv2" => disk'[Target(c)'][f][n] = Whole(v)
      BY <2>4, <2>5, <3>1
    <3>4. /\ cl'[c].file = f /\ cl'[c].ver = v /\ cl'[c].n = n
          /\ cl[c].file = f /\ cl[c].ver = v /\ log' = log
      BY <1>1, <1>5
    <3>5. log[v].room => Copied(cl[c].file, cl[c].ver, cl[c].n)'
      BY <3>2, <3>4 DEF Copied
    <3> QED
      BY <3>3, <3>4, <3>5
  <2>7. /\ cl[c].pc = "recv" => WriterOK(conn[cl[c].prim])'
        /\ cl[c].pc = "recv2" => WriterOK(conn[cl[c].sec])'
    BY <1>1, <1>4, <1>9
  <2> QED
    BY <1>1, <1>5, <2>5, <2>6, <2>7 DEF PutOK
<1>16. ASSUME NEW d \in Clients PROVE PutOK(d)'
  <2>1. Putting(d)' => d = c
    BY <1>1, <1>10 DEF Putting
  <2>2. CASE d = c
    BY <1>15, <2>2
  <2>3. CASE d # c
    BY <2>1, <2>3 DEF PutOK
  <2> QED
    BY <2>2, <2>3
<1>17. ASSUME NEW d \in Clients PROVE ReaderOK(d)'
  <2>1. ReaderOK(d) /\ (cl[d].op = "GET" => d # c)
    BY <1>5 DEF CopiesOK, Putting
  <2> QED
    BY <1>1, <1>4, <2>1, OtherReaders DEF Moves
<1> QED
  BY <1>13, <1>14, <1>16, <1>17 DEF CopiesOK

(***************************************************************************)
(* When all PUTs of f are stored, the last one's pieces are where PUT      *)
(* places them, whole.                                                     *)
(***************************************************************************)
LEMMA AllStored ==
  ASSUME TypedInv, CopiesOK, NEW f \in Files, NEW s \in Servers, NEW i \in Pieces,
         Placed(s, f, i), SameBin(f), PutsOf(f) \subseteq StoredOf(f)
  PROVE  \E v \in PutsOf(f) : /\ \A w \in PutsOf(f) : w <= v
                              /\ disk[s][f][i] = Whole(v)
<1>1. PICK u \in PutsOf(f) : s \in Holders(i, log[u].bin)
  BY DEF Placed
<1>2. PICK v \in PutsOf(f) : \A w \in PutsOf(f) : w <= v
  BY <1>1 DEF TypedInv, LogOK, HasLast
<1>3. v \in stored /\ log[v].file = f
  BY <1>2 DEF StoredOf
<1>4. Copied(f, v, 4)
  BY <1>2, <1>3 DEF CopiesOK, LastCopied
<1>5. s \in Holders(i, log[v].bin)
  BY <1>1, <1>2 DEF SameBin
<1> QED
  BY <1>2, <1>4, <1>5 DEF Copied, Pieces

(***************************************************************************)
(* What the rest of a read makes of what was read before.                  *)
(***************************************************************************)
LEMMA LastReadSince ==
  ASSUME NEW x, NEW y \in Content, NEW puts \in SUBSET Nat, NEW S \in SUBSET Nat,
         BegunSince(y, puts, S),
         puts \subseteq S => \E v \in puts : (\A w \in puts : w <= v) /\ x = Whole(v),
         NEW z \in LastRead(y, x)
  PROVE  ReadSince(z, puts, S)
<1>1. /\ y.ver \in puts /\ y.ver \in Nat /\ y.kind \in {"part", "whole"}
      /\ \A v \in S : y.ver >= v
  BY DEF BegunSince
<1>2. /\ \A v : Part(v).kind = "part" /\ Whole(v).kind = "whole" /\ Whole(v).ver = v
      /\ \A v : Whole(v) # Empty /\ Whole(v) # Torn /\ \A w : Whole(v) # Part(w)
      /\ Torn.kind = "torn"
  BY DEF Part, Whole, Empty, Torn
<1>3. z \in {y, Torn, Whole(y.ver)}
  BY DEF LastRead
<1>4. CASE puts \subseteq S
  <2>1. PICK v \in puts : (\A w \in puts : w <= v) /\ x = Whole(v)
    BY <1>4
  <2>2. v <= y.ver /\ y.ver <= v /\ v \in Nat
    BY <1>1, <1>4, <2>1
  <2>3. v = y.ver
    BY <1>1, <2>2
  <2>4. z = Whole(y.ver)
    BY <1>2, <2>1, <2>3 DEF LastRead
  <2> QED
    BY <1>1, <1>2, <2>4 DEF ReadSince
<1>5. CASE ~(puts \subseteq S)
  <2>1. z.kind \in {"part", "whole"} => z.ver = y.ver
    <3>1. CASE z = Torn
      BY <1>2, <3>1
    <3>2. CASE z = Whole(y.ver)
      BY <1>2, <3>2
    <3> QED
      BY <1>3, <3>1, <3>2
  <2> QED
    BY <1>1, <1>5, <2>1 DEF ReadSince
<1> QED
  BY <1>4, <1>5

(***************************************************************************)
(* A step of handleGetResponse: a file is begun when it is fresh, and what *)
(* is there at the end of the read is not older; if no PUT is under way it *)
(* is the file that was begun.                                             *)
(***************************************************************************)
LEMMA SearchKeeps ==
  ASSUME StorageInv, GetInv, TypedInv, CopiesOK, NEW k \in Conns,
         Looks(conn[k], conn'[k]), NEW f, f = conn[k].req.file, SameBin(f),
         NEW S \in SUBSET StoredOf(f), SearchSince(conn[k], PutsOf(f), S)
  PROVE  SearchSince(conn'[k], PutsOf(f), S)
<1> DEFINE r == conn[k]
           q == conn'[k]
           x == PieceFile(r)
           P == PutsOf(f)
<1>1. /\ r \in Connection /\ r.i \in Pieces /\ r.found \in [Pieces -> Content]
      /\ f \in Files /\ r.srv \in Servers /\ r.req.method = "GET"
  BY DEF StorageInv, TypeOK, ServerTypeOK, Connection, RequestsOK, RequestOK, Looks
<1>2. P \in SUBSET Nat /\ S \in SUBSET Nat
  BY LogFacts DEF PutsOf, StoredOf
<1>3. x = disk[r.srv][f][r.i] /\ x \in Content
  BY <1>1 DEF PieceFile, StorageInv, TypeOK, ServerTypeOK
<1>4. CASE BeginsPiece(r, q)
  <2>1. PICK y \in FirstRead(x) : q.found = [r.found EXCEPT ![r.i] = y]
    BY <1>4 DEF BeginsPiece
  <2>2. Readable(x) /\ r.phase = "handle" /\ q.phase = "reading" /\ q.i = r.i
    BY <1>4 DEF BeginsPiece
  <2>3. FreshSince(x, StoredOf(f))
    BY <1>1, <1>3, <2>2 DEF CopiesOK, DiskFresh
  <2>4. x.kind \in {"part", "whole"} /\ \A v \in S : x.ver >= v
    <3>1. \A v \in S : x.ver \in Nat /\ v \in Nat
      BY <1>2, <1>3 DEF Content
    <3> QED
      BY <2>3, <3>1 DEF FreshSince
  <2>5. x.ver \in P
    <3>1. PICK d : d = disk[r.srv][f][r.i] /\ d # Absent
      BY <1>3, <2>2 DEF Readable
    <3>2. \E v \in P : d.kind \in {"part", "whole"} => v = d.ver
      BY <1>1, <3>1, ZenonT(40) DEF StorageInv, StoredWhereItBelongs, Belongs
    <3> QED
      BY <1>3, <2>4, <3>1, <3>2
  <2>6. y.kind \in {"part", "whole"} /\ y.ver = x.ver
    BY <2>1, <2>4 DEF FirstRead, Part
  <2>7. BegunSince(q.found[q.i], P, S)
    BY <1>1, <2>1, <2>2, <2>4, <2>5, <2>6 DEF BegunSince
  <2>8. AllSince(q.found, Pieces \ {q.i}, P, S)
    BY <1>1, <2>1, <2>2 DEF SearchSince, AllSince
  <2> QED
    BY <2>2, <2>7, <2>8 DEF SearchSince
<1>5. CASE EndsPiece(r, q.found) /\ Advances(r, q)
  <2>1. q.phase # "reading"
    BY <1>5 DEF Advances
  <2>2. CASE r.phase = "handle" /\ q.found = r.found
    BY <2>1, <2>2 DEF SearchSince
  <2>3. CASE r.phase = "reading"
    <3>1. PICK z \in LastRead(r.found[r.i], x) : q.found = [r.found EXCEPT ![r.i] = z]
      BY <1>5, <2>3 DEF EndsPiece
    <3>2. /\ AllSince(r.found, Pieces \ {r.i}, P, S)
          /\ BegunSince(r.found[r.i], P, S)
      BY <2>3 DEF SearchSince
    <3>3. Placed(r.srv, f, r.i)
      <4>1. r.found[r.i] # Absent
        BY <2>3 DEF GetInv, AnswersOK, AnswerOK, Readable
      <4> QED
        BY <1>1, <4>1 DEF GetInv, AnswersOK, AnswerOK
    <3>4. ASSUME P \subseteq S
          PROVE  \E v \in P : (\A w \in P : w <= v) /\ x = Whole(v)
      <4>1. P \subseteq StoredOf(f)
        BY <3>4
      <4>2. \E v \in P : (\A w \in P : w <= v) /\ disk[r.srv][f][r.i] = Whole(v)
        BY <1>1, <3>3, <4>1, AllStored
      <4> QED
        BY <1>3, <4>2
    <3>5. ReadSince(z, P, S)
      BY <1>1, <1>2, <3>2, <3>4, LastReadSince
    <3>6. AllSince(q.found, Pieces, P, S)
      BY <1>1, <3>1, <3>2, <3>5 DEF AllSince
    <3> QED
      BY <2>1, <3>6 DEF SearchSince
  <2> QED
    BY <1>5, <2>2, <2>3 DEF EndsPiece
<1> QED
  BY <1>4, <1>5 DEF Looks

(***************************************************************************)
(* A thread that leaves the piece files alone: it looks at one for a GET,  *)
(* or it answers.  A PUT that it answers without having opened the file is *)
(* one without room.                                                       *)
(***************************************************************************)
LEMMA QuietMoves ==
  ASSUME StorageInv, GetInv, Calm, TypedInv, CopiesOK,
         NEW k \in Conns, Moves(k), Searches(k) \/ Rests(k),
         UNCHANGED clientVars
  PROVE  CopiesOK'
<1> DEFINE r == conn[k]
           q == conn'[k]
<1>1. /\ conn \in [Conns -> Connection] /\ r \in Connection /\ RequestOK(r) /\ DirOK(r)
      /\ UNCHANGED <<cl, log, stored, disk>>
      /\ \A j \in Conns : j # k => conn'[j] = conn[j]
  BY DEF StorageInv, TypeOK, ServerTypeOK, RequestsOK, TypedInv, clientVars, Moves,
         Searches, Rests
<1>2. r.phase \in Live /\ r.peer = "open"
  <2>1. r.phase \in Live
    BY DEF Moves, Served
  <2> QED
    BY <2>1 DEF Calm, Attended, Live
<1>3. /\ q # Free /\ q.req = r.req /\ q.srv = r.srv
      /\ r.phase \in {"handle", "reading", "header", "body"}
  <2>1. /\ q.req = r.req /\ q.srv = r.srv /\ r.phase # "request"
        /\ q.phase \in {"handle", "reading", "writing", "header", "body", "done"}
    BY <1>2 DEF Moves, Served
  <2>2. r.phase # "writing"
    BY DEF Searches, Looks, Rests
  <2>3. q # Free
    BY <2>1 DEF Free
  <2> QED
    BY <1>2, <2>1, <2>2, <2>3 DEF Live
<1>4. PICK c \in Clients :
        /\ r.req = RequestOf(c) /\ r.cli = c
        /\ \/ cl[c].pc = "recv" /\ k = cl[c].prim
           \/ cl[c].pc = "recv2" /\ k = cl[c].sec
  BY <1>3, AtWork
<1>5. LastCopied'
  BY <1>1 DEF CopiesOK, LastCopied, Copied, PutsOf
<1>6. DiskFresh'
  <2>1. \A g : (SameBin(g)' <=> SameBin(g)) /\ StoredOf(g)' = StoredOf(g)
    BY <1>1 DEF SameBin, PutsOf, StoredOf
  <2> QED
    BY <1>1, <2>1 DEF CopiesOK, DiskFresh
<1>7. ASSUME NEW d \in Clients PROVE PutOK(d)'
  <2>1. PutOK(d)
    BY DEF CopiesOK
  <2>2. ASSUME WriterOK(r), r.req.method = "PUT", r.req.auth PROVE WriterOK(conn[k])'
    <3>1. Rests(k)
      BY <2>2 DEF Searches, Looks
    <3>2. q.phase \notin {"handle", "writing"} /\ r.phase # "reading"
      BY <1>3, <3>1 DEF Rests
    <3>3. CASE r.phase = "handle"
      <4>1. r.req.dir \notin dirs[r.srv]
        BY <2>2, <3>1, <3>3 DEF Rests
      <4>2. r.req.dir = DirOf[r.req.file] /\ r.srv \in Servers
        BY <1>1, <2>2 DEF DirOK, Connection
      <4>3. r.req.ver \in DOMAIN log /\ log[r.req.ver].file = r.req.file
        BY <1>1, <2>2 DEF RequestOK
      <4>4. ~log[r.req.ver].room
        BY <4>1, <4>2, <4>3 DEF TypedInv, LogOK
      <4> QED
        BY <1>1, <1>3, <3>2, <4>4 DEF WriterOK
    <3>4. CASE r.phase \in {"header", "body"}
      BY <1>1, <1>3, <2>2, <3>2, <3>4 DEF WriterOK
    <3> QED
      BY <1>3, <3>2, <3>3, <3>4
  <2>3. ASSUME NEW j \in Conns, Putting(d), conn[j].cli = d, WriterOK(conn[j])
        PROVE  WriterOK(conn[j])'
    <3>1. CASE j = k
      <4>1. r.req.method = "PUT" /\ r.req.auth
        BY <1>4, <2>3, <3>1, RequestFacts DEF Putting
      <4> QED
        BY <2>2, <2>3, <3>1, <4>1
    <3>2. CASE j # k
      BY <1>1, <2>3, <3>2 DEF WriterOK
    <3> QED
      BY <3>1, <3>2
  <2>4. Putting(d) =>
          /\ cl[d].pc = "recv" => WriterOK(conn[cl[d].prim])'
          /\ cl[d].pc = "recv2" => WriterOK(conn[cl[d].sec])'
    <3> SUFFICES ASSUME Putting(d)
                 PROVE  /\ cl[d].pc = "recv" => WriterOK(conn[cl[d].prim])'
                        /\ cl[d].pc = "recv2" => WriterOK(conn[cl[d].sec])'
      OBVIOUS
    <3>1. ASSUME cl[d].pc = "recv" PROVE WriterOK(conn[cl[d].prim])'
      <4>1. PICK j \in Conns : j = cl[d].prim /\ conn[j].cli = d
        BY <3>1, Sockets
      <4>2. WriterOK(conn[j])
        BY <2>1, <3>1, <4>1 DEF PutOK
      <4>3. WriterOK(conn[j])'
        BY <2>3, <4>1, <4>2
      <4> QED
        BY <1>1, <4>1, <4>3
    <3>2. ASSUME cl[d].pc = "recv2" PROVE WriterOK(conn[cl[d].sec])'
      <4>1. PICK j \in Conns : j = cl[d].sec /\ conn[j].cli = d
        BY <3>2, Sockets
      <4>2. WriterOK(conn[j])
        BY <2>1, <3>2, <4>1 DEF PutOK
      <4>3. WriterOK(conn[j])'
        BY <2>3, <4>1, <4>2
      <4> QED
        BY <1>1, <4>1, <4>3
    <3> QED
      BY <3>1, <3>2
  <2> QED
    BY <1>1, <2>1, <2>4 DEF PutOK, Putting, Copied, Target
<1>8. ASSUME NEW d \in Clients PROVE ReaderOK(d)'
  <2>1. ReaderOK(d)
    BY DEF CopiesOK
  <2>2. CASE cl[d].op = "GET" => d # c
    BY <1>1, <1>4, <2>1, <2>2, OtherReaders
  <2>3. CASE cl[d].op = "GET" /\ d = c
    <3>1. r.req.method = "GET" /\ r.req.file = cl[d].file
      BY <1>4, <2>3, RequestFacts
    <3>2. cl[d].pc = "recv" /\ k = cl[d].prim
      <4>1. cl[d].pc # "recv2"
        BY <2>3, ClientFacts DEF CommandOK
      <4> QED
        BY <1>4, <2>3, <4>1
    <3>3. ASSUME SameBin(cl[d].file)
          PROVE  SearchSince(q, PutsOf(cl[d].file), cl[d].since)
      <4>1. /\ SearchSince(r, PutsOf(cl[d].file), cl[d].since)
            /\ cl[d].since \subseteq StoredOf(cl[d].file)
        BY <2>1, <2>3, <3>2, <3>3 DEF ReaderOK
      <4>2. CASE Rests(k)
        <5>1. r.phase # "reading" /\ q.phase # "reading" /\ q.found = r.found
          BY <1>3, <4>2 DEF Rests
        <5> QED
          BY <4>1, <5>1 DEF SearchSince
      <4>3. CASE Searches(k)
        BY <3>1, <3>3, <4>1, <4>3, SearchKeeps DEF Searches
      <4> QED
        BY <4>2, <4>3
    <3>4. /\ SameBin(cl[d].file)' = SameBin(cl[d].file)
          /\ StoredOf(cl[d].file)' = StoredOf(cl[d].file)
          /\ PutsOf(cl[d].file)' = PutsOf(cl[d].file)
      BY <1>1 DEF SameBin, PutsOf, StoredOf
    <3> QED
      BY <1>1, <2>1, <2>3, <3>2, <3>3, <3>4 DEF ReaderOK
  <2> QED
    BY <2>2, <2>3
<1> QED
  BY <1>5, <1>6, <1>7, <1>8 DEF CopiesOK

(***************************************************************************)
(* Without faults every step of the servers keeps the copies in order.     *)
(***************************************************************************)
LEMMA CopiesServer ==
  ASSUME StorageInv, GetInv, CalmInv, PutInv, ServerNext, NoFault'
  PROVE  CopiesOK'
<1>1. Calm /\ OneWriter /\ TypedInv /\ CopiesOK /\ UNCHANGED clientVars
  BY CalmMoves DEF PutInv, ServerNext
<1>2. PICK k \in Conns : Moves(k)
  BY CalmMoves
<1> QED
  BY <1>1, <1>2, WriterMoves, QuietMoves DEF Moves

-----------------------------------------------------------------------------
\* Steps of the clients without faults.

\* What a PUT waits for is the answer to its own request.
LEMMA Waits ==
  ASSUME StorageInv, GetInv, Calm, NEW d \in Clients
  PROVE  /\ cl[d].pc = "recv" => conn[cl[d].prim].req = RequestOf(d)
         /\ cl[d].pc = "recv2" => conn[cl[d].sec].req = RequestOf(d)
         /\ cl[d].prim # NoSock => conn[cl[d].prim].phase # "reset"
         /\ cl[d].sec # NoSock => conn[cl[d].sec].phase # "reset"
<1>1. /\ cl[d].prim # NoSock => conn[cl[d].prim].phase # "reset"
      /\ cl[d].sec # NoSock => conn[cl[d].sec].phase # "reset"
  BY Sockets DEF Calm, Attended
<1> QED
  BY <1>1, Sockets DEF GetInv, ExchangesOK, ExchangeOK, Asked

\* A growing log.
LEMMA GrowingLog ==
  ASSUME LogGrows, NEW f
  PROVE  PutsOf(f) \subseteq PutsOf(f)' /\ (SameBin(f)' => SameBin(f))
<1>1. PutsOf(f) \subseteq PutsOf(f)' /\ \A v \in PutsOf(f) : log'[v] = log[v]
  BY DEF LogGrows, PutsOf
<1> QED
  BY <1>1 DEF SameBin

\* More PUTs do not make what was read older.
LEMMA SinceGrows ==
  ASSUME NEW P, NEW Q, P \subseteq Q, NEW S
  PROVE  /\ \A p, I : AllSince(p, I, P, S) => AllSince(p, I, Q, S)
         /\ \A r : SearchSince(r, P, S) => SearchSince(r, Q, S)
<1>1. \A x : ReadSince(x, P, S) => ReadSince(x, Q, S)
  BY DEF ReadSince
<1>2. \A y : BegunSince(y, P, S) => BegunSince(y, Q, S)
  BY DEF BegunSince
<1>3. \A p, I : AllSince(p, I, P, S) => AllSince(p, I, Q, S)
  BY <1>1 DEF AllSince
<1> QED
  BY <1>2, <1>3 DEF SearchSince

(***************************************************************************)
(* The clients that do not move.                                           *)
(***************************************************************************)
LEMMA CopiesOthers ==
  ASSUME StorageInv, GetInv, Calm, NEW c \in Clients, Act(c), NEW d \in Clients, d # c,
         stored \subseteq stored'
  PROVE  /\ PutOK(d) => PutOK(d)'
         /\ ReaderOK(d) => ReaderOK(d)'
<1>1. /\ cl'[d] = cl[d] /\ LogGrows /\ UNCHANGED disk
      /\ cl[d].pc = "recv" => conn'[cl[d].prim] = conn[cl[d].prim]
      /\ cl[d].pc = "recv2" => conn'[cl[d].sec] = conn[cl[d].sec]
  BY ClientTouches, OthersSockets DEF serverVars
<1>2. PutOK(d) => PutOK(d)'
  <2> SUFFICES ASSUME PutOK(d), Putting(d)' PROVE PutOK(d)'
    BY DEF PutOK
  <2>1. Putting(d) /\ cl[d].ver \in DOMAIN log /\ log'[cl[d].ver] = log[cl[d].ver]
    BY <1>1, ClientFacts DEF Putting, CommandOK, LogGrows
  <2>2. ASSUME NEW k, conn'[k] = conn[k], conn[k].req = RequestOf(d), WriterOK(conn[k])
        PROVE  WriterOK(conn[k])'
    <3>1. conn[k].req.ver = cl[d].ver
      BY <2>2, RequestFacts
    <3>2. log'[conn[k].req.ver] = log[conn[k].req.ver]
      BY <2>1, <3>1
    <3> QED
      BY <1>1, <2>2, <3>2 DEF WriterOK
  <2>3. /\ cl[d].pc = "recv" => WriterOK(conn[cl[d].prim])'
        /\ cl[d].pc = "recv2" => WriterOK(conn[cl[d].sec])'
    BY <1>1, <2>1, <2>2, Waits DEF PutOK
  <2>4. Target(d)' = Target(d)
    BY <1>1, <2>1 DEF Target
  <2>5. log[cl[d].ver].room =>
          /\ Copied(cl[d].file, cl[d].ver, cl[d].n)'
          /\ cl[d].pc \in {"send2", "recv2"} =>
               disk'[Target(d)'][cl[d].file][cl[d].n] = Whole(cl[d].ver)
    BY <1>1, <2>1, <2>4 DEF PutOK, Copied, serverVars
  <2> QED
    BY <1>1, <2>1, <2>3, <2>5 DEF PutOK
<1>3. ReaderOK(d) => ReaderOK(d)'
  <2>1. StoredOf(cl[d].file) \subseteq StoredOf(cl[d].file)'
    BY <1>1, LogFacts DEF StoredOf, LogGrows
  <2>2. SameBin(cl[d].file)' => SameBin(cl[d].file)
    <3>1. \A f : SameBin(f)' => SameBin(f)
      BY <1>1, GrowingLog
    <3>2. PICK f : f = cl[d].file
      OBVIOUS
    <3>3. SameBin(cl[d].file)' = SameBin(f)'
      BY <1>1, <3>2
    <3> QED
      BY <3>1, <3>2, <3>3
  <2>3. PICK P : P = PutsOf(cl[d].file)
    OBVIOUS
  <2>4. PICK Q : Q = PutsOf(cl[d].file)' /\ P \subseteq Q
    <3>1. PutsOf(cl[d].file) \subseteq PutsOf(cl[d].file)'
      BY <1>1 DEF LogGrows, PutsOf
    <3>2. PICK R : R = PutsOf(cl[d].file)'
      OBVIOUS
    <3> QED
      BY <2>3, <3>1, <3>2
  <2>5. /\ AllSince(cl[d].pieces, Pieces, P, cl[d].since) =>
             AllSince(cl[d].pieces, Pieces, Q, cl[d].since)
        /\ SearchSince(conn[cl[d].prim], P, cl[d].since) =>
             SearchSince(conn[cl[d].prim], Q, cl[d].since)
    BY <2>4, SinceGrows
  <2>6. SUFFICES ASSUME ReaderOK(d), cl[d].op = "GET"
                 PROVE  ReaderOK(d)'
    BY <1>1 DEF ReaderOK
  <2>7. cl[d].since \subseteq StoredOf(cl[d].file)'
    BY <2>1, <2>6 DEF ReaderOK
  <2>8. ASSUME SameBin(cl[d].file)'
        PROVE  AllSince(cl[d].pieces, Pieces, Q, cl[d].since)
    BY <2>2, <2>3, <2>5, <2>6, <2>8 DEF ReaderOK
  <2>9. ASSUME SameBin(cl[d].file)', cl[d].pc = "recv"
        PROVE  SearchSince(conn[cl[d].prim], Q, cl[d].since)
    BY <2>2, <2>3, <2>5, <2>6, <2>9 DEF ReaderOK
  <2> QED
    BY <1>1, <2>4, <2>7, <2>8, <2>9 DEF ReaderOK
<1> QED
  BY <1>2, <1>3

(***************************************************************************)
(* Piece n of a PUT is there once the second answer has come.              *)
(***************************************************************************)
LEMMA PieceCopied ==
  ASSUME StorageInv, GetInv, Calm, NEW c \in Clients, Putting(c), PutOK(c),
         cl[c].pc = "recv2", conn[cl[c].sec].phase = "done", log[cl[c].ver].room
  PROVE  Copied(cl[c].file, cl[c].ver, cl[c].n + 1)
<1> DEFINE r == cl[c]
           b == log[r.ver].bin
<1>1. /\ r.op = "PUT" /\ r.n \in 0..3 /\ r.ver \in DOMAIN log /\ r.sec # NoSock
      /\ conn[r.sec].srv = Secondary(r.n, b)
  BY ClientFacts, Sockets DEF Putting, CommandOK
<1>2. /\ conn[r.sec].req.file = r.file /\ conn[r.sec].req.ver = r.ver
      /\ conn[r.sec].req.piece = r.n
  BY <1>1, Waits, RequestFacts
<1>3. disk[Secondary(r.n, b)][r.file][r.n] = Whole(r.ver)
  BY <1>1, <1>2 DEF PutOK, WriterOK
<1>4. disk[Primary(r.n, b)][r.file][r.n] = Whole(r.ver)
  BY <1>1 DEF PutOK, Target
<1>5. Copied(r.file, r.ver, r.n)
  BY DEF PutOK
<1> SUFFICES ASSUME NEW i \in Pieces, i < r.n + 1, NEW s \in Holders(i, b)
             PROVE  disk[s][r.file][i] = Whole(r.ver)
  BY DEF Copied
<1>6. i < r.n \/ i = r.n
  BY <1>1 DEF Pieces
<1> QED
  BY <1>3, <1>4, <1>5, <1>6 DEF Copied, Holders

(***************************************************************************)
(* A PUT that becomes a stored one is there in full.                       *)
(***************************************************************************)
LEMMA StoresInFull ==
  ASSUME StorageInv, GetInv, Calm, TypedInv, CopiesOK, NEW c \in Clients, Act(c),
         stored' # stored
  PROVE  /\ cl[c].ver \in DOMAIN log /\ stored' = stored \cup {cl[c].ver}
         /\ UNCHANGED log /\ Putting(c)
         /\ log[cl[c].ver].file = cl[c].file
         /\ Copied(cl[c].file, cl[c].ver, 4)
<1> DEFINE r == cl[c]
<1>1. getResponse(c) /\ StoresAll(c)
  BY CommandFacts, ConnectFirstFacts, ConnectSecondFacts, SendFacts, SpinFacts
     DEF Act, Step, getResponse, sendRequestSigpipe, getResponseTimeout
<1>2. /\ r.op = "PUT" /\ r.pc = "recv2" /\ r.n = 3 /\ log[r.ver].auth /\ log[r.ver].room
      /\ stored' = stored \cup {r.ver} /\ UNCHANGED log
  BY <1>1 DEF StoresAll, getResponse
<1>3. r.ver \in DOMAIN log /\ log[r.ver].file = r.file /\ Putting(c)
  BY <1>2, ClientFacts DEF CommandOK, Putting
<1>4. conn[r.sec].phase = "done"
  BY <1>1, <1>2, Sockets, Waits DEF getResponse, Sock
<1>5. Copied(r.file, r.ver, r.n + 1)
  BY <1>2, <1>3, <1>4, PieceCopied DEF CopiesOK
<1> QED
  BY <1>2, <1>3, <1>5

(***************************************************************************)
(* The stored versions after a client's step.                              *)
(***************************************************************************)
LEMMA LastStays ==
  ASSUME StorageInv, GetInv, Calm, TypedInv, CopiesOK, NEW c \in Clients, Act(c)
  PROVE  LastCopied'
<1>1. LogGrows /\ UNCHANGED disk
  BY ClientTouches DEF serverVars
<1> SUFFICES ASSUME NEW u \in stored', \A w \in PutsOf(log[u].file)' : w <= u
             PROVE  Copied(log[u].file, u, 4)'
  BY DEF LastCopied
<1>2. CASE u \in stored
  <2>1. u \in DOMAIN log /\ log'[u] = log[u]
    BY <1>1, <1>2, LogFacts DEF LogGrows
  <2>2. \A w \in PutsOf(log[u].file) : w <= u
    <3>1. PICK f : f = log[u].file
      OBVIOUS
    <3>2. PutsOf(log[u].file)' = PutsOf(f)' /\ PutsOf(f) \subseteq PutsOf(f)'
      BY <1>1, <2>1, <3>1, GrowingLog
    <3> QED
      BY <3>1, <3>2
  <2>3. Copied(log[u].file, u, 4)
    BY <1>2, <2>2 DEF CopiesOK, LastCopied
  <2> QED
    BY <1>1, <2>1, <2>3 DEF Copied
<1>3. CASE u \notin stored
  <2>1. u = cl[c].ver /\ UNCHANGED log /\ log[u].file = cl[c].file /\ Copied(cl[c].file, u, 4)
    BY <1>3, StoresInFull
  <2> QED
    BY <1>1, <2>1 DEF Copied
<1> QED
  BY <1>2, <1>3

LEMMA FreshStays ==
  ASSUME StorageInv, GetInv, Calm, TypedInv, CopiesOK, NEW c \in Clients, Act(c)
  PROVE  DiskFresh'
<1>1. LogGrows /\ UNCHANGED disk
  BY ClientTouches DEF serverVars
<1> SUFFICES ASSUME NEW f \in Files, NEW s \in Servers, NEW i \in Pieces,
                    SameBin(f)', Readable(disk[s][f][i])
             PROVE  FreshSince(disk[s][f][i], StoredOf(f)')
  BY <1>1 DEF DiskFresh
<1>2. SameBin(f) /\ PutsOf(f) \subseteq PutsOf(f)'
  BY <1>1, GrowingLog
<1>3. FreshSince(disk[s][f][i], StoredOf(f))
  BY <1>2 DEF CopiesOK, DiskFresh
<1>4. \A u \in stored : u \in DOMAIN log /\ log'[u] = log[u]
  BY <1>1, LogFacts DEF LogGrows
<1>5. CASE UNCHANGED stored \/ cl[c].file # f
  <2>1. stored' # stored => stored' = stored \cup {cl[c].ver} /\ log'[cl[c].ver].file = cl[c].file
    BY StoresInFull
  <2>2. StoredOf(f)' \subseteq StoredOf(f)
    BY <1>4, <1>5, <2>1 DEF StoredOf
  <2> QED
    BY <1>3, <2>2 DEF FreshSince
<1>6. CASE stored' # stored /\ cl[c].file = f
  <2> DEFINE v == cl[c].ver
  <2>1. /\ v \in DOMAIN log /\ stored' = stored \cup {v} /\ UNCHANGED log
        /\ log[v].file = f /\ Copied(f, v, 4) /\ Putting(c)
    BY <1>6, StoresInFull
  <2>2. v \in Nat /\ log[v].auth /\ \A w \in DOMAIN log : log[w].auth => w <= v
    BY <2>1, ClientFacts, LogFacts DEF TypedInv, LatestOK, Putting, CommandOK
  <2>3. PICK w \in PutsOf(f) : s \in Holders(i, log[w].bin)
    BY DEF StorageInv, StoredWhereItBelongs, Belongs, Readable
  <2>4. s \in Holders(i, log[v].bin)
    BY <1>2, <2>1, <2>2, <2>3 DEF SameBin, PutsOf
  <2>5. disk[s][f][i] = Whole(v)
    BY <2>1, <2>4 DEF Copied, Pieces
  <2>6. \A u \in StoredOf(f)' : u \in Nat /\ v >= u
    <3>1. \A u \in stored' : u \in DOMAIN log /\ log[u].auth
      BY <2>1, <2>2, LogFacts DEF TypedInv, LogOK
    <3> QED
      BY <2>1, <2>2, <3>1, LogFacts DEF StoredOf
  <2> QED
    BY <2>5, <2>6 DEF FreshSince, Whole
<1> QED
  BY <1>5, <1>6

(***************************************************************************)
(* handlePut, step by step, without faults: the second send comes after    *)
(* the primary's answer, the next piece after the secondary's.             *)
(***************************************************************************)
LEMMA PutTurns ==
  ASSUME StorageInv, GetInv, Calm, CopiesOK, NEW c \in Clients,
         Act(c), ~getResponseTimeout(c)
  PROVE  PutOK(c)'
<1> DEFINE r == cl[c]
           t == cl'[c]
<1> SUFFICES ASSUME Putting(c)' PROVE PutOK(c)'
  BY DEF PutOK
<1>1. t.op = "PUT" /\ c \in Authorized /\ t.pc # "prompt" /\ UNCHANGED disk
  BY ClientTouches DEF Putting, serverVars
<1>2. CASE Command(c)
  <2>1. t.n = 0 /\ t.pc = "connect"
    BY <1>1, <1>2, TypedFacts
  <2>2. \A i \in Pieces : ~(i < 0)
    BY DEF Pieces
  <2> QED
    BY <2>1, <2>2 DEF PutOK, Copied
<1>3. CASE Step(c)
  <2>1. /\ r.op = "PUT" /\ t.file = r.file /\ t.ver = r.ver /\ UNCHANGED log
        /\ Putting(c) /\ PutOK(c)
    BY <1>1, <1>3, StepGoes DEF Goes, Putting, CopiesOK
  <2>2. r \in Client /\ r.n \in 0..3 /\ SocketsOK(c) /\ Connected(c) /\ up = Servers
        /\ conn \in [Conns -> Connection]
    BY ClientFacts DEF Calm
  <2>3. ASSUME t.n = r.n, t.pc \in {"connect2", "send", "spin"} PROVE PutOK(c)'
    BY <1>1, <2>1, <2>3 DEF PutOK, Copied
  <2>4. CASE connectFirst(c)
    <3>1. Target(c) \in up
      BY <2>2, TargetServer
    <3>2. t.pc = "connect2" /\ t.n = r.n
      BY <2>1, <2>4, <3>1, ConnectFirstFacts DEF SameGet
    <3> QED
      BY <2>3, <3>2
  <2>5. CASE connectSecond(c)
    <3>1. r.prim # NoSock
      BY <2>2, <2>5, ConnectSecondFacts DEF Connected
    <3>2. t.pc = "send" /\ t.n = r.n
      BY <2>5, <3>1, ConnectSecondFacts DEF SameGet
    <3> QED
      BY <2>3, <3>2
  <2>6. CASE sendRequest(c)
    <3>1. PICK k \in Conns : k = Sock(c)
      BY <2>6, SendFacts
    <3>2. /\ r.pc \in {"send", "send2"} /\ t.pc = Sent(r.pc) /\ SameGet(t, r)
          /\ t.prim = r.prim /\ t.sec = r.sec
          /\ k = IF r.pc = "send" THEN r.prim ELSE r.sec
      BY <2>6, <3>1, SendFacts
    <3>3. conn[k].phase # "reset"
      BY <3>1, <3>2, Waits DEF Conns, NoSock
    <3>4. conn'[k].phase = "handle"
      BY <2>2, <2>6, <3>1, <3>3, SendFacts
    <3>5. WriterOK(conn[k])'
      BY <3>4 DEF WriterOK
    <3>6. Target(c)' = Target(c) /\ t.n = r.n
      BY <2>1, <3>2 DEF Target, SameGet
    <3>7. CASE r.pc = "send"
      <4>1. t.pc = "recv" /\ t.prim = k
        BY <3>2, <3>7 DEF Sent
      <4>2. WriterOK(conn[cl[c].prim])'
        BY <3>5, <4>1
      <4> QED
        BY <1>1, <2>1, <3>6, <4>1, <4>2 DEF PutOK, Copied
    <3>8. CASE r.pc = "send2"
      <4>1. t.pc = "recv2" /\ t.sec = k
        BY <3>2, <3>8 DEF Sent
      <4>2. WriterOK(conn[cl[c].sec])'
        BY <3>5, <4>1
      <4> QED
        BY <1>1, <2>1, <3>6, <3>8, <4>1, <4>2 DEF PutOK, Copied
    <3> QED
      BY <3>2, <3>7, <3>8
  <2>7. CASE sendRequestSigpipe(c)
    BY <1>1, <2>7, SigpipeFacts
  <2>8. CASE sendRequestNoSock(c) \/ getResponseCut(c)
    BY <2>3, <2>8, SpinFacts DEF SameGet
  <2>9. CASE getResponse(c)
    <3>1. r.pc \in {"recv", "recv2"} /\ Sock(c) = IF r.pc = "recv" THEN r.prim ELSE r.sec
      BY <2>9 DEF getResponse, Receiving, Sock
    <3>2. conn[Sock(c)].phase = "done" /\ Continue(c, conn, TRUE)
      <4>1. conn[Sock(c)].phase # "reset"
        BY <3>1, Sockets, Waits
      <4> QED
        BY <2>9, <4>1 DEF getResponse
    <3>3. CASE r.pc = "recv"
      <4>1. t.pc = "send2" /\ SameGet(t, r)
        BY <2>1, <3>2, <3>3, ContinueFacts
      <4>2. /\ conn[r.prim].req = RequestOf(c) /\ conn[r.prim].phase = "done"
            /\ conn[r.prim].srv = Target(c)
        BY <3>1, <3>2, <3>3, Waits, Sockets
      <4>3. log[r.ver].room => disk[Target(c)][r.file][r.n] = Whole(r.ver)
        BY <2>1, <3>3, <4>2, RequestFacts DEF PutOK, WriterOK
      <4>4. Target(c)' = Target(c) /\ t.n = r.n
        BY <2>1, <4>1 DEF Target, SameGet
      <4> QED
        BY <1>1, <2>1, <4>1, <4>3, <4>4 DEF PutOK, Copied
    <3>4. CASE r.pc = "recv2"
      <4>1. t = NextTurn(r)
        BY <2>1, <3>2, <3>4, ContinueFacts
      <4>2. t.pc = "connect" /\ t.n = r.n + 1
        BY <1>1, <2>2, <4>1, NextTurnFacts
      <4>3. log[r.ver].room => Copied(r.file, r.ver, r.n + 1)
        BY <2>1, <3>1, <3>2, <3>4, PieceCopied
      <4> QED
        BY <1>1, <2>1, <4>2, <4>3 DEF PutOK, Copied
    <3> QED
      BY <3>1, <3>3, <3>4
  <2> QED
    BY <1>3, <2>4, <2>5, <2>6, <2>7, <2>8, <2>9 DEF Step
<1> QED
  BY <1>2, <1>3 DEF Act

(***************************************************************************)
(* handleGet: what it adds to the map was fresh when the thread read it.   *)
(***************************************************************************)
LEMMA ReadTurns ==
  ASSUME StorageInv, GetInv, Calm, CopiesOK, NEW c \in Clients,
         Act(c), ~getResponseTimeout(c)
  PROVE  ReaderOK(c)'
<1> DEFINE r == cl[c]
           t == cl'[c]
<1> SUFFICES ASSUME t.op = "GET" PROVE ReaderOK(c)'
  BY DEF ReaderOK
<1>1. CASE Command(c)
  <2>1. /\ t.pc = "connect" /\ t.pieces = NoPieces
        /\ t.since = StoredOf(t.file) /\ UNCHANGED <<log, stored>>
    BY <1>1, TypedFacts, CommandFacts
  <2>2. \A P : AllSince(t.pieces, Pieces, P, t.since)
    BY <2>1 DEF AllSince, NoPieces
  <2>3. t.since \subseteq StoredOf(cl[c].file)'
    BY <2>1 DEF StoredOf
  <2> QED
    BY <2>1, <2>2, <2>3 DEF ReaderOK
<1>2. CASE Step(c)
  <2>1. /\ r.op = "GET" /\ t.file = r.file /\ t.since = r.since /\ UNCHANGED log
        /\ stored \subseteq stored' /\ ReaderOK(c)
    BY <1>2, StepGoes DEF Goes, CopiesOK
  <2>2. r \in Client /\ up = Servers /\ r.sec = NoSock
    BY <2>1, ClientFacts DEF Calm, SocketsOK
  <2>3. /\ t.since \subseteq StoredOf(cl[c].file)'
        /\ SameBin(cl[c].file)' = SameBin(r.file)
        /\ PutsOf(cl[c].file)' = PutsOf(r.file)
    BY <2>1 DEF ReaderOK, StoredOf, SameBin, PutsOf
  <2> DEFINE P == PutsOf(r.file)
  <2>4. ASSUME SameBin(r.file) => AllSince(t.pieces, Pieces, P, t.since),
               SameBin(r.file) /\ t.pc = "recv" => SearchSince(conn'[t.prim], P, t.since)
        PROVE  ReaderOK(c)'
    BY <2>3, <2>4 DEF ReaderOK
  <2>5. ASSUME t.pieces = r.pieces
        PROVE  SameBin(r.file) => AllSince(t.pieces, Pieces, P, t.since)
    BY <2>1, <2>5 DEF ReaderOK
  <2>6. CASE connectFirst(c)
    <3>1. Target(c) \in up
      BY <2>2, TargetServer
    <3>2. t.pc = "send" /\ t.pieces = r.pieces
      BY <2>1, <2>6, <3>1, ConnectFirstFacts DEF SameGet
    <3> QED
      BY <2>4, <2>5, <3>2
  <2>7. CASE connectSecond(c)
    BY <2>1, <2>7, ConnectSecondFacts
  <2>8. CASE sendRequest(c)
    <3>1. PICK k \in Conns : k = Sock(c)
      BY <2>8, SendFacts
    <3>2. /\ r.pc = "send" /\ SameGet(t, r) /\ t.prim = k /\ k = r.prim
      BY <2>1, <2>8, <3>1, SendFacts
    <3>3. conn[k].phase # "reset"
      BY <3>1, <3>2, Waits DEF Conns, NoSock
    <3>4. /\ conn'[k].found = conn[k].found /\ conn[k].phase = "request"
          /\ conn'[k].phase = "handle"
      <4>1. conn \in [Conns -> Connection]
        BY ClientFacts
      <4> QED
        BY <2>8, <3>1, <3>3, <4>1, SendFacts
    <3>5. conn[k].found = NoPieces
      BY <3>4 DEF GetInv, AnswersOK, AnswerOK
    <3>6. SearchSince(conn'[t.prim], P, t.since)
      BY <3>2, <3>4, <3>5 DEF SearchSince, AllSince, NoPieces
    <3> QED
      BY <2>4, <2>5, <3>2, <3>6 DEF SameGet
  <2>9. CASE sendRequestSigpipe(c)
    BY <2>9, SigpipeFacts
  <2>10. CASE sendRequestNoSock(c) \/ getResponseCut(c)
    BY <2>4, <2>5, <2>10, SpinFacts DEF SameGet
  <2>11. CASE getResponse(c)
    <3>1. r.pc = "recv" /\ Sock(c) = r.prim /\ r.prim \in Conns
      BY <2>1, <2>11, Sockets, Receives DEF Sock
    <3>2. conn[r.prim].phase = "done" /\ Continue(c, conn, TRUE)
      <4>1. conn[Sock(c)].phase # "reset"
        BY <3>1, Sockets, Waits
      <4>2. conn[Sock(c)].phase = "done" /\ Continue(c, conn, TRUE)
        BY <2>11, <4>1 DEF getResponse
      <4> QED
        BY <3>1, <4>2
    <3>3. t = NotDelivered(r) \/ t = Delivered(r, conn[r.prim].found)
      BY <2>1, <3>1, <3>2, ContinueFacts
    <3>4. conn[r.prim].found \in [Pieces -> Content]
      BY <3>1, ClientFacts DEF Connection
    <3>5. t.pc \in {"connect", "prompt"}
      BY <2>2, <3>3, <3>4, NotDeliveredKeeps, DeliveredKeeps
    <3>6. SameBin(r.file) => AllSince(t.pieces, Pieces, P, t.since)
      <4>1. CASE t = NotDelivered(r)
        BY <2>2, <2>5, <4>1, NotDeliveredKeeps
      <4>2. CASE t = Delivered(r, conn[r.prim].found)
        <5>1. \A i \in Pieces : t.pieces[i] \in {conn[r.prim].found[i], r.pieces[i]}
          BY <2>2, <3>4, <4>2, DeliveredKeeps
        <5>2. SameBin(r.file) =>
                /\ AllSince(r.pieces, Pieces, P, r.since)
                /\ AllSince(conn[r.prim].found, Pieces, P, r.since)
          BY <2>1, <3>1, <3>2 DEF ReaderOK, SearchSince
        <5> QED
          BY <2>1, <5>1, <5>2 DEF AllSince
      <4> QED
        BY <3>3, <4>1, <4>2
    <3> QED
      BY <2>4, <3>5, <3>6
  <2> QED
    BY <1>2, <2>6, <2>7, <2>8, <2>9, <2>10, <2>11 DEF Step
<1> QED
  BY <1>1, <1>2 DEF Act

(***************************************************************************)
(* Without faults every step of a client keeps the copies in order.        *)
(***************************************************************************)
LEMMA CopiesClient ==
  ASSUME StorageInv, GetInv, Calm, TypedInv, CopiesOK, NEW c \in Clients,
         Act(c), ~getResponseTimeout(c)
  PROVE  CopiesOK'
<1>1. stored \subseteq stored'
  <2>1. CASE Command(c)
    BY <2>1, CommandFacts
  <2>2. CASE Step(c) \/ getResponseTimeout(c)
    BY <2>2, StepGoes DEF Goes
  <2> QED
    BY <2>1, <2>2 DEF Act
<1>2. ASSUME NEW d \in Clients PROVE PutOK(d)' /\ ReaderOK(d)'
  <2>1. PutOK(d) /\ ReaderOK(d)
    BY DEF CopiesOK
  <2>2. CASE d = c
    BY <2>2, PutTurns, ReadTurns
  <2>3. CASE d # c
    BY <1>1, <2>1, <2>3, CopiesOthers
  <2> QED
    BY <2>2, <2>3
<1> QED
  BY <1>2, LastStays, FreshStays DEF CopiesOK

-----------------------------------------------------------------------------
\* The invariant, and what it says.

LEMMA PutInvInit == OneWriter /\ Init => PutInv
<1> SUFFICES ASSUME OneWriter, Init PROVE PutInv
  OBVIOUS
<1>1. /\ conn = [k \in Conns |-> Free] /\ cl = [c \in Clients |-> Prompt]
      /\ log = <<>> /\ stored = {}
      /\ disk = [s \in Servers |-> [f \in Files |-> NoPieces]]
  BY DEF Init, NetInit, ServerInit, ClientInit
<1>2. Prompt.pc = "prompt" /\ Prompt.op = "none"
  BY DEF Prompt
<1>3. \A f : PutsOf(f) = {}
  BY <1>1 DEF PutsOf
<1>4. TypedInv
  <2>1. LogOK
    BY <1>1, <1>3 DEF LogOK, HasLast
  <2>2. \A c \in Clients : TypedOK(c) /\ LatestOK(c)
    BY <1>1, <1>2 DEF TypedOK, LatestOK, Putting
  <2>3. DirOK(Free)
    BY DEF DirOK, Free, NoRequest
  <2> QED
    BY <1>1, <2>1, <2>2, <2>3 DEF TypedInv
<1>5. LastCopied /\ \A c \in Clients : PutOK(c) /\ ReaderOK(c)
  BY <1>1, <1>2 DEF LastCopied, PutOK, Putting, ReaderOK
<1>6. DiskFresh
  BY <1>1 DEF DiskFresh, NoPieces, Readable
<1> QED
  BY <1>4, <1>5, <1>6 DEF PutInv, CopiesOK

LEMMA PutInvStep == StorageInv /\ GetInv /\ CalmInv /\ PutInv /\ [Next]_vars => PutInv'
<1> SUFFICES ASSUME StorageInv, GetInv, CalmInv, PutInv, [Next]_vars PROVE PutInv'
  OBVIOUS
<1>1. OneWriter /\ TypedInv /\ (NoFault => Calm /\ CopiesOK)
  BY DEF PutInv, CalmInv
<1>2. CASE ServerNext
  BY <1>1, <1>2, TypedServer, CopiesServer DEF PutInv, OneWriter
<1>3. ASSUME NEW c \in Clients, Act(c) PROVE PutInv'
  <2>1. TypedInv'
    BY <1>1, <1>3, TypedClient
  <2>2. ASSUME NoFault' PROVE CopiesOK'
    <3>1. UNCHANGED died /\ timeouts \in Nat
      BY <1>3, ClientFacts, ClientTouches DEF serverVars
    <3>2. ~getResponseTimeout(c)
      <4>1. getResponseTimeout(c) => timeouts' = timeouts + 1
        BY DEF getResponseTimeout
      <4>2. timeouts' = 0
        BY <2>2 DEF NoFault
      <4> QED
        BY <3>1, <4>1, <4>2
    <3>3. UNCHANGED timeouts
      BY <1>3, <3>2 DEF Act, Command, Step, startPut, startGet, startList, startMkDir,
         exit, connectFirst, connectSecond, sendRequest, sendRequestSigpipe,
         sendRequestNoSock, getResponse, getResponseCut
    <3>4. NoFault
      BY <2>2, <3>1, <3>3 DEF NoFault
    <3> QED
      BY <1>1, <1>3, <3>2, <3>4, CopiesClient
  <2> QED
    BY <1>1, <2>1, <2>2 DEF PutInv, OneWriter
<1>4. CASE UNCHANGED vars
  <2>1. UNCHANGED <<conn, disk, dirs, died, cl, log, stored, timeouts>>
    BY <1>4 DEF vars, serverVars, clientVars
  <2>2. TypedInv'
    BY <1>1, <2>1 DEF TypedInv, LogOK, HasLast, PutsOf, TypedOK, LatestOK, Putting, DirOK
  <2>3. CopiesOK => CopiesOK'
    <3>1. LastCopied => LastCopied'
      BY <2>1 DEF LastCopied, Copied, PutsOf
    <3>2. DiskFresh => DiskFresh'
      BY <2>1 DEF DiskFresh, SameBin, PutsOf, StoredOf
    <3>3. ASSUME NEW c \in Clients PROVE PutOK(c) => PutOK(c)'
      <4>1. /\ WriterOK(conn[cl[c].prim])' = WriterOK(conn[cl[c].prim])
            /\ WriterOK(conn[cl[c].sec])' = WriterOK(conn[cl[c].sec])
        BY <2>1 DEF WriterOK
      <4>2. /\ Putting(c)' = Putting(c) /\ Target(c)' = Target(c)
            /\ Copied(cl[c].file, cl[c].ver, cl[c].n)' = Copied(cl[c].file, cl[c].ver, cl[c].n)
        BY <2>1 DEF Putting, Target, Copied
      <4> QED
        BY <2>1, <4>1, <4>2 DEF PutOK
    <3>4. ASSUME NEW c \in Clients PROVE ReaderOK(c) => ReaderOK(c)'
      BY <2>1 DEF ReaderOK, SameBin, PutsOf, StoredOf
    <3> QED
      BY <3>1, <3>2, <3>3, <3>4 DEF CopiesOK
  <2> QED
    BY <1>1, <2>1, <2>2, <2>3 DEF PutInv, OneWriter, NoFault
<1> QED
  BY <1>2, <1>3, <1>4 DEF Next, ClientNext, Act

LEMMA PutInvHolds ==
  OneWriter /\ Spec => [](StorageInv /\ GetInv /\ CalmInv /\ PutInv)
<1> QED
  BY InitHolds, StepHolds, GetInvInit, GetInvStep, CalmInit, CalmStep, PutInvInit,
     PutInvStep, PTL DEF Spec

(***************************************************************************)
(* Without faults, and for one user who stores files, a PUT that has       *)
(* completed into an existing directory and is the last of its file is on  *)
(* both servers of every piece, whole: for any number of clients that      *)
(* read, files, connections and PUTs.  handlePut waits for the primary's   *)
(* answer before it sends to the secondary, and saveVectorToFile has       *)
(* closed the file before dfs answers.                                     *)
(***************************************************************************)
THEOREM PutsAreReplicated == OneWriter /\ Spec => []PutIsReplicated
<1>1. StorageInv /\ PutInv => PutIsReplicated
  <2> SUFFICES ASSUME StorageInv, PutInv, NEW f \in Files, NoFault,
                      PutsOf(f) # {}, LastPut(f) \in stored,
                      NEW i \in Pieces, NEW s \in Holders(i, log[LastPut(f)].bin)
               PROVE  disk[s][f][i] = Whole(LastPut(f))
    BY DEF PutIsReplicated
  <2>1. \E v \in PutsOf(f) : \A w \in PutsOf(f) : w <= v
    BY DEF PutInv, TypedInv, LogOK, HasLast
  <2>2. LastPut(f) \in PutsOf(f) /\ \A w \in PutsOf(f) : w <= LastPut(f)
    BY <2>1 DEF LastPut
  <2>3. log[LastPut(f)].file = f
    BY <2>2 DEF PutsOf
  <2>4. Copied(f, LastPut(f), 4)
    BY <2>2, <2>3 DEF PutInv, CopiesOK, LastCopied
  <2> QED
    BY <2>4 DEF Copied, Pieces
<1> QED
  BY <1>1, PutInvHolds, PTL

(***************************************************************************)
(* A GET does not go back in time, and a GET that no PUT overtakes returns *)
(* the last PUT's pieces, whole: without faults, for one user who stores   *)
(* files and any number who read, although loadFileToVector reads a piece  *)
(* file with several reads and a PUT may truncate and rewrite it between   *)
(* two of them.                                                            *)
(***************************************************************************)
THEOREM GetsAreFresh == OneWriter /\ Spec => []GetIsFresh
<1>1. CompleteGetHasAllPieces /\ PutInv => GetIsFresh
  <2> SUFFICES ASSUME CompleteGetHasAllPieces, PutInv, NEW c \in Clients,
                      Reports(c, "GET", "complete"), NoFault, SameBin(cl[c].file),
                      NEW i \in Pieces
               PROVE  ReadSince(cl[c].pieces[i], PutsOf(cl[c].file), cl[c].since)
    BY DEF GetIsFresh
  <2>1. cl[c].pieces[i] # Absent
    BY DEF CompleteGetHasAllPieces
  <2>2. AllSince(cl[c].pieces, Pieces, PutsOf(cl[c].file), cl[c].since)
    BY DEF PutInv, CopiesOK, ReaderOK, Reports
  <2> QED
    BY <2>1, <2>2 DEF AllSince
<1> QED
  BY <1>1, PutInvHolds, CompleteGets, PTL
=============================================================================
