--------------------------- MODULE DfsAloneProofs ---------------------------
(***************************************************************************)
(* Proofs about one client that is alone: what it stored survives the      *)
(* death of servers, and without faults LIST never shows a file in part.   *)
(* For any number of files, directories, connections, PUTs, crashes and    *)
(* restarts.  They rest on the invariants of the modules below.            *)
(***************************************************************************)
EXTENDS DfsPutProofs

-----------------------------------------------------------------------------
\* Deaths.

(***************************************************************************)
(* A server that is down has died, and so has the one behind a connection  *)
(* that was reset or cut.                                                  *)
(***************************************************************************)
LEMMA DeathsServer ==
  ASSUME StorageInv, DeathsOK, ServerNext
  PROVE  DeathsOK' /\ died \subseteq died'
<1>1. conn \in [Conns -> Connection] /\ up \subseteq Servers
  BY DEF StorageInv, TypeOK, ServerTypeOK
<1>2. ASSUME NEW k \in Conns, NEW q \in Connection, conn' = [conn EXCEPT ![k] = q],
             Served(conn[k], q), UNCHANGED <<up, died>>
      PROVE  DeathsOK' /\ died \subseteq died'
  <2>1. q.phase \notin {"reset", "cut"}
    BY <1>2 DEF Served, Free
  <2> QED
    BY <1>1, <1>2, <2>1 DEF DeathsOK
<1>3. ASSUME NEW s, Die(s) PROVE DeathsOK' /\ died \subseteq died'
  <2>1. up' = up \ {s} /\ died' = died \cup {s}
    BY <1>3 DEF Die
  <2>2. ASSUME NEW k \in Conns, conn'[k].phase \in {"reset", "cut"}
        PROVE  conn'[k].srv \in died'
    <3>1. conn'[k] = IF conn[k].srv = s THEN Severed(conn[k]) ELSE conn[k]
      BY <1>3 DEF Die, ServerGone
    <3>2. conn'[k] = Free \/ conn'[k].srv = conn[k].srv
      BY <1>1, <3>1 DEF Severed, Connection
    <3> QED
      BY <2>1, <2>2, <3>1, <3>2 DEF DeathsOK, Free
  <2> QED
    BY <2>1, <2>2 DEF DeathsOK
<1>4. ASSUME NEW s, Restart(s) PROVE DeathsOK' /\ died \subseteq died'
  BY <1>4 DEF Restart, DeathsOK
<1> QED
  BY <1>2, <1>3, <1>4, ServerMoves

LEMMA DeathsClient ==
  ASSUME StorageInv, DeathsOK, NEW c \in Clients, Act(c)
  PROVE  DeathsOK'
<1>1. UNCHANGED <<up, died>>
  BY ClientTouches DEF serverVars
<1>2. ASSUME NEW k \in Conns, conn'[k].phase \in {"reset", "cut"}
      PROVE  conn'[k] = conn[k]
  <2>1. Touches(c, conn[k], conn'[k])
    BY ClientTouches
  <2> QED
    BY <1>2, <2>1 DEF Touches, Free, Live
<1> QED
  BY <1>1, <1>2 DEF DeathsOK

-----------------------------------------------------------------------------
\* Requests that are being handled.

\* What a step of a client that sends no request does to a connection.
Lets(r, q) ==
  \/ q.phase = r.phase /\ q.list = r.list
  \/ q.phase \in {"free", "request"} /\ q.list = {}

LEMMA AbandonedLets ==
  ASSUME NEW r \in Connection, NEW q \in Connection, q = r \/ Reads(r, q), NEW how
  PROVE  Lets(r, q) /\ Lets(r, Abandoned(q, how))
<1>1. q.phase = r.phase /\ q.list = r.list
  BY DEF Reads, Connection
<1>2. Free.phase = "free" /\ Free.list = {}
  BY DEF Free
<1>3. LET a == [q EXCEPT !.peer = how] IN a.phase = q.phase /\ a.list = q.list
  BY DEF Connection
<1> QED
  BY <1>1, <1>2, <1>3 DEF Lets, Abandoned

LEMMA ClientLets ==
  ASSUME StorageInv, NEW c \in Clients, Act(c), ~sendRequest(c)
  PROVE  \A k \in Conns : Lets(conn[k], conn'[k])
<1> SUFFICES ASSUME NEW k \in Conns PROVE Lets(conn[k], conn'[k])
  OBVIOUS
<1>1. conn \in [Conns -> Connection] /\ conn[k] \in Connection
  BY ClientFacts
<1>2. conn'[k] = conn[k] => Lets(conn[k], conn'[k])
  BY DEF Lets
<1>3. ASSUME conn' = ClientGone(conn, c) PROVE Lets(conn[k], conn'[k])
  <2>1. conn'[k] \in {conn[k], Abandoned(conn[k], "closed")}
    BY <1>3 DEF ClientGone
  <2> QED
    BY <1>1, <2>1, AbandonedLets
<1>4. ASSUME NEW s, NEW j \in Conns,
             \/ conn' = [conn EXCEPT ![j] = Opened(s, c)]
             \/ conn' = [conn EXCEPT ![j] = Abandoned(Opened(s, c), "closed")]
      PROVE  Lets(conn[k], conn'[k])
  <2>1. LET o == Opened(s, c)
            a == [o EXCEPT !.peer = "closed"]
        IN o.phase = "request" /\ o.list = {} /\ a.phase = "request" /\ a.list = {}
    BY DEF Opened, Free
  <2>2. Abandoned(Opened(s, c), "closed") = [Opened(s, c) EXCEPT !.peer = "closed"]
    BY <2>1 DEF Abandoned, Live
  <2>3. j # k => conn'[k] = conn[k]
    BY <1>1, <1>4
  <2>4. j = k => conn'[k] \in {Opened(s, c), [Opened(s, c) EXCEPT !.peer = "closed"]}
    BY <1>1, <1>4, <2>2
  <2> QED
    BY <1>2, <2>1, <2>3, <2>4 DEF Lets
<1>5. CASE Command(c) \/ sendRequestSigpipe(c)
  BY <1>2, <1>3, <1>5, CommandFacts, SigpipeFacts
<1>6. CASE connectFirst(c)
  BY <1>2, <1>4, <1>6, ConnectFirstFacts
<1>7. CASE connectSecond(c)
  BY <1>2, <1>4, <1>7, ConnectSecondFacts
<1>8. CASE sendRequestNoSock(c) \/ getResponseCut(c)
  BY <1>2, <1>8, SpinFacts
<1>9. CASE getResponse(c) \/ getResponseTimeout(c)
  <2>1. PICK table \in [Conns -> Connection], got \in BOOLEAN :
          ReadTable(c, table) /\ Continue(c, table, got)
    BY <1>9, Receives
  <2>2. table[k] = conn[k] \/ Reads(conn[k], table[k])
    BY <2>1 DEF ReadTable
  <2>3. conn'[k] \in {table[k], Abandoned(table[k], "closed"), Abandoned(table[k], "leaked")}
    <3>1. \/ conn' = table \/ conn' = Leaking(table, Sock(c))
          \/ \E S : conn' = Closing(table, S)
      BY <2>1 DEF Continue
    <3> QED
      BY <2>1, <3>1 DEF Closing, Leaking
  <2> QED
    BY <1>1, <2>1, <2>2, <2>3, AbandonedLets
<1> QED
  BY <1>5, <1>6, <1>7, <1>8, <1>9 DEF Act, Step

(***************************************************************************)
(* Without late answers a request is handled only while its client waits:  *)
(* getResponse goes on only when the thread has answered or its server is  *)
(* dead.                                                                   *)
(***************************************************************************)
LEMMA HandledServer ==
  ASSUME StorageInv, HandledOK, ServerNext
  PROVE  HandledOK'
<1>1. UNCHANGED <<cl, timeouts>> /\ conn \in [Conns -> Connection]
  BY DEF ServerNext, clientVars, StorageInv, TypeOK, ServerTypeOK
<1>2. ASSUME NEW k \in Conns, conn'[k].phase \in {"handle", "reading", "writing"}
      PROVE  conn[k].phase \in {"handle", "reading", "writing"}
  <2>1. ASSUME NEW j \in Conns, Thread(j), ~sendBodySigpipe(j)
        PROVE  conn[k].phase \in {"handle", "reading", "writing"}
    <3>1. Moves(j)
      BY <2>1, ThreadMoves
    <3>2. CASE j # k
      BY <1>2, <3>1, <3>2 DEF Moves
    <3>3. CASE j = k
      <4>1. ~Rests(k)
        BY <1>2 DEF Rests, Free
      <4>2. Opens(k) \/ Flushes(k) \/ Saves(k) \/ Searches(k)
        BY <3>1, <3>3, <4>1 DEF Moves
      <4> QED
        BY <4>2 DEF Opens, Flushes, Saves, Searches, Looks
    <3> QED
      BY <3>2, <3>3
  <2>2. ASSUME NEW s, Die(s) PROVE conn[k].phase \in {"handle", "reading", "writing"}
    <3>1. conn'[k] \in {conn[k], Severed(conn[k])} /\ conn[k] \in Connection
      BY <1>1, <2>2 DEF Die, ServerGone
    <3> QED
      BY <1>2, <3>1 DEF Severed, Free, Connection, Live
  <2>3. ASSUME NEW s, Restart(s) PROVE conn[k].phase \in {"handle", "reading", "writing"}
    BY <1>2, <2>3 DEF Restart
  <2> QED
    BY <2>1, <2>2, <2>3 DEF ServerNext, sendBodySigpipe, Crash
<1> QED
  BY <1>1, <1>2 DEF HandledOK, WaitedFor, Receiving, Sock

\* A step of a client that is no late answer changes no count of them.
LEMMA NotLate ==
  ASSUME StorageInv, NEW c \in Clients, Act(c), timeouts' = 0
  PROVE  ~getResponseTimeout(c) /\ timeouts = 0
<1>1. timeouts \in Nat
  BY ClientFacts
<1>2. ~getResponseTimeout(c)
  <2>1. getResponseTimeout(c) => timeouts' = timeouts + 1
    BY DEF getResponseTimeout
  <2> QED
    BY <1>1, <2>1
<1>3. UNCHANGED timeouts
  BY <1>2 DEF Act, Command, Step, startPut, startGet, startList, startMkDir,
     exit, connectFirst, connectSecond, sendRequest, sendRequestSigpipe,
     sendRequestNoSock, getResponse, getResponseCut
<1> QED
  BY <1>2, <1>3

LEMMA HandledClient ==
  ASSUME StorageInv, Alone, HandledOK, NEW c \in Clients, Act(c)
  PROVE  HandledOK'
<1> SUFFICES ASSUME timeouts' = 0, NEW k \in Conns, conn'[k].phase \in {"handle", "reading", "writing"}
             PROVE  WaitedFor(k)'
  BY DEF HandledOK
<1>1. ~getResponseTimeout(c) /\ timeouts = 0
  BY NotLate
<1>2. ASSUME NEW j \in Conns, conn[j].phase \in {"handle", "reading", "writing"}
      PROVE  Receiving(c) /\ Sock(c) = j
  BY <1>1, <1>2 DEF HandledOK, WaitedFor, Alone
<1>3. ~getResponse(c)
  <2> SUFFICES ASSUME getResponse(c) PROVE FALSE
    OBVIOUS
  <2>1. conn[Sock(c)].phase \in {"done", "reset"}
    BY DEF getResponse
  <2>2. ~sendRequest(c)
    BY DEF getResponse, sendRequest, Receiving
  <2>3. conn[k].phase \in {"handle", "reading", "writing"}
    BY <2>2, ClientLets DEF Lets
  <2> QED
    BY <1>2, <2>1, <2>3
<1>4. CASE sendRequest(c)
  <2>1. cl[c].pc \in {"send", "send2"} /\ conn \in [Conns -> Connection]
    BY <1>4, ClientFacts DEF sendRequest
  <2>2. \A j \in Conns : conn[j].phase \notin {"handle", "reading", "writing"}
    BY <1>2, <2>1 DEF Receiving
  <2>3. \A j \in Conns : j # Sock(c) => conn'[j] = conn[j]
    BY <1>4, <2>1, SendFacts
  <2>4. k = Sock(c)
    BY <2>2, <2>3
  <2>5. Receiving(c)' /\ Sock(c)' = Sock(c)
    BY <1>4, SendFacts DEF Receiving, Sock, Sent
  <2> QED
    BY <2>4, <2>5 DEF WaitedFor
<1>5. CASE ~sendRequest(c)
  <2>1. conn[k].phase = conn'[k].phase
    BY <1>5, ClientLets DEF Lets
  <2>2. Receiving(c) /\ Sock(c) = k
    BY <1>2, <2>1
  <2>3. getResponseCut(c)
    BY <1>1, <1>3, <1>5, <2>2, CommandFacts, ConnectFirstFacts, ConnectSecondFacts
       DEF Act, Step, Receiving, sendRequestSigpipe, sendRequestNoSock
  <2> QED
    BY <2>1, <2>2, <2>3 DEF getResponseCut
<1> QED
  BY <1>4, <1>5

-----------------------------------------------------------------------------
\* Piece files do not go away.

\* The two kinds of step that the servers take, as far as disks and
\* connections are concerned.
LEMMA ServerKinds ==
  ASSUME StorageInv, ServerNext
  PROVE  \/ \E k \in Conns : Thread(k) /\ ~sendBodySigpipe(k) /\ Moves(k)
         \/ \E s : Die(s)
         \/ \E s \in Servers : Restart(s)
  BY ThreadMoves DEF ServerNext, sendBodySigpipe, Crash

\* A thread that writes changes one piece file at most.
LEMMA PutsOne ==
  ASSUME disk \in [Servers -> [Files -> [Pieces -> Content]]],
         NEW k \in Conns, NEW x, Puts(k, x),
         NEW s \in Servers, NEW f \in Files, NEW i \in Pieces
  PROVE  /\ disk'[s][f][i] \in {x, disk[s][f][i]}
         /\ f # conn[k].req.file => disk'[s][f][i] = disk[s][f][i]
<1> DEFINE a == conn[k].srv
           g == conn[k].req.file
           j == conn[k].req.piece
<1>1. disk' = [disk EXCEPT ![a] = [disk[a] EXCEPT ![g] = [disk[a][g] EXCEPT ![j] = x]]]
  BY DEF Puts
<1> HIDE DEF a, g, j
<1>2. disk[s] \in [Files -> [Pieces -> Content]] /\ disk[s][f] \in [Pieces -> Content]
  OBVIOUS
<1>3. CASE s # a
  BY <1>1, <1>3
<1>4. CASE s = a
  <2>1. disk'[s] = [disk[s] EXCEPT ![g] = [disk[s][g] EXCEPT ![j] = x]]
    BY <1>1, <1>4
  <2>2. CASE f # g
    BY <1>2, <2>1, <2>2
  <2>3. CASE f = g
    <3>1. disk'[s][f] = [disk[s][f] EXCEPT ![j] = x]
      BY <1>2, <2>1, <2>3
    <3> QED
      BY <1>2, <2>3, <3>1 DEF g
  <2> QED
    BY <2>2, <2>3 DEF g
<1> QED
  BY <1>3, <1>4 DEF g

LEMMA DiskStays ==
  ASSUME StorageInv, ServerNext, NEW s \in Servers, NEW f \in Files, NEW i \in Pieces,
         disk[s][f][i] # Absent
  PROVE  disk'[s][f][i] # Absent
<1>1. disk \in [Servers -> [Files -> [Pieces -> Content]]]
  BY DEF StorageInv, TypeOK, ServerTypeOK
<1>2. /\ Empty # Absent /\ Torn # Absent
      /\ \A v : Part(v) # Absent /\ Whole(v) # Absent
  BY DEF Empty, Torn, Part, Whole, Absent
<1>3. ASSUME NEW k \in Conns, NEW x, x # Absent, Puts(k, x)
      PROVE  disk'[s][f][i] # Absent
  <2>1. disk'[s][f][i] \in {x, disk[s][f][i]}
    BY <1>1, <1>3, PutsOne
  <2> QED
    BY <1>3, <2>1
<1>4. ASSUME NEW k \in Conns, Moves(k) PROVE disk'[s][f][i] # Absent
  <2>1. CASE Opens(k)
    BY <1>2, <1>3, <2>1 DEF Opens
  <2>2. CASE Flushes(k)
    BY <1>2, <1>3, <2>2 DEF Flushes
  <2>3. CASE Saves(k)
    <3>1. PICK x : x # Absent /\ Puts(k, x)
      BY <1>2, <2>3 DEF Saves, Written
    <3> QED
      BY <1>3, <3>1
  <2>4. CASE Searches(k) \/ Rests(k)
    BY <2>4 DEF Searches, Rests
  <2> QED
    BY <1>4, <2>1, <2>2, <2>3, <2>4 DEF Moves
<1>5. ASSUME NEW x, Die(x) PROVE UNCHANGED disk
  BY <1>5 DEF Die
<1>6. ASSUME NEW x, Restart(x) PROVE UNCHANGED disk
  BY <1>6 DEF Restart
<1> QED
  BY <1>4, <1>5, <1>6, ServerKinds

\* The servers of a piece.
LEMMA HoldersAreServers ==
  ASSUME NEW i \in Pieces, NEW b \in 0..3
  PROVE  Holders(i, b) \subseteq Servers
  BY DEF Holders, Primary, Secondary, Servers, Pieces

(***************************************************************************)
(* What a completed PUT stored stays on its servers, in whatever state     *)
(* later PUTs leave it.                                                    *)
(***************************************************************************)
LEMMA StoredServer ==
  ASSUME StorageInv, StoredOK, ServerNext
  PROVE  StoredOK'
<1>1. UNCHANGED <<log, stored>>
  BY DEF ServerNext, clientVars
<1>2. ASSUME NEW v \in stored PROVE Remains(v)'
  <2>1. log[v].file \in Files /\ log[v].bin \in 0..3 /\ Remains(v)
    BY LogFacts DEF StoredOK
  <2> SUFFICES ASSUME NEW i \in Pieces, NEW s \in Holders(i, log[v].bin)
               PROVE  disk'[s][log[v].file][i] # Absent
    BY <1>1 DEF Remains
  <2>2. s \in Servers
    BY <2>1, HoldersAreServers
  <2> QED
    BY <2>1, <2>2, DiskStays DEF Remains
<1> QED
  BY <1>1, <1>2 DEF StoredOK

LEMMA StoredClient ==
  ASSUME StorageInv, GetInv, CalmInv, PutInv, Alone, StoredOK, NEW c \in Clients, Act(c)
  PROVE  StoredOK'
<1>1. LogGrows /\ UNCHANGED <<disk, died>> /\ stored \subseteq DOMAIN log
      /\ log \in Seq(PutRecord)
  BY ClientTouches, LogFacts DEF serverVars
<1>2. ASSUME NEW v \in stored PROVE Remains(v)'
  BY <1>1 DEF StoredOK, Remains, LogGrows
<1>3. ASSUME NEW v \in stored', v \notin stored PROVE Remains(v)'
  <2>1. CASE Command(c)
    BY <1>3, <2>1, CommandFacts
  <2>2. CASE Step(c) \/ getResponseTimeout(c)
    <3>1. getResponse(c) /\ StoresAll(c)
      BY <1>3, <2>2, ConnectFirstFacts, ConnectSecondFacts, SendFacts, SpinFacts
         DEF Step, getResponse, sendRequestSigpipe, getResponseTimeout
    <3>2. Calm /\ TypedInv /\ CopiesOK
      BY <3>1 DEF StoresAll, NoFault, CalmInv, PutInv
    <3>3. /\ v = cl[c].ver /\ UNCHANGED log /\ log[v].file = cl[c].file
          /\ Copied(cl[c].file, v, 4)
      BY <1>3, <3>2, StoresInFull
    <3>4. Whole(v) # Absent
      BY DEF Whole, Absent
    <3> QED
      BY <1>1, <3>3, <3>4 DEF Remains, Copied, Pieces
  <2> QED
    BY <2>1, <2>2 DEF Act
<1>4. ASSUME NEW v \in DOMAIN log', log'[v].auth PROVE Clients \subseteq Authorized
  <2>1. CASE v \in DOMAIN log
    BY <1>1, <1>4, <2>1 DEF LogGrows, StoredOK
  <2>2. CASE v \notin DOMAIN log
    <3>1. Command(c)
      BY <1>4, <2>2, StepGoes DEF Act, Goes
    <3>2. PICK b \in Bins : log' = Append(log, Typing(c, cl'[c].file, b))
      BY <1>4, <2>2, <3>1, TypedFacts
    <3> DEFINE e == Typing(c, cl'[c].file, b)
    <3>3. e.auth => c \in Authorized
      BY DEF Typing
    <3>4. log'[v] = e
      <4>1. log' = Append(log, e)
        BY <3>2
      <4> HIDE DEF e
      <4> QED
        BY <1>1, <1>4, <2>2, <4>1, LogAppended
    <3>5. c \in Authorized
      BY <1>4, <3>3, <3>4
    <3> QED
      BY <3>5 DEF Alone
  <2> QED
    BY <2>1, <2>2
<1> QED
  BY <1>2, <1>3, <1>4 DEF StoredOK

-----------------------------------------------------------------------------
\* A GET of what was stored.

\* Every server is chosen for two pieces of a file.
LEMMA TwoPieces ==
  ASSUME NEW s \in Servers, NEW b \in 0..3
  PROVE  \E i, j \in Pieces : i # j /\ s \in Holders(i, b) /\ s \in Holders(j, b)
<1>1. b = 0 \/ b = 1 \/ b = 2 \/ b = 3
  OBVIOUS
<1>2. s = 0 \/ s = 1 \/ s = 2 \/ s = 3
  BY DEF Servers
<1> DEFINE i == (s + 4 - b) % 4
           j == (s + 3 - b) % 4
<1>3. i \in 0..3 /\ j \in 0..3 /\ i # j /\ (i + b) % 4 = s /\ (j + b + 1) % 4 = s
  <2>1. CASE b = 0
    BY <1>2, <2>1
  <2>2. CASE b = 1
    BY <1>2, <2>2
  <2>3. CASE b = 2
    BY <1>2, <2>3
  <2>4. CASE b = 3
    BY <1>2, <2>4
  <2> QED
    BY <1>1, <2>1, <2>2, <2>3, <2>4
<1> HIDE DEF i, j
<1> QED
  BY <1>3 DEF Holders, Primary, Secondary, Pieces

\* The thread of a GET that was let in.
LEMMA GetThread ==
  ASSUME StorageInv, NEW k \in Conns, Thread(k), ~sendBodySigpipe(k),
         conn[k].peer = "open", conn[k].req.method = "GET", conn[k].req.auth,
         conn[k].phase \in {"handle", "reading", "header", "body"}
  PROVE  /\ UNCHANGED disk
         /\ \/ conn'[k] \in Connection /\ Looks(conn[k], conn'[k])
            \/ /\ conn[k].phase \in {"header", "body"}
               /\ conn'[k].phase \in {"body", "done"} /\ conn'[k].reply = conn[k].reply
<1>1. conn \in [Conns -> Connection] /\ conn[k] \in Connection
  BY DEF StorageInv, TypeOK, ServerTypeOK
<1>2. CASE handleGetResponse(k) \/ loadFileToVector(k)
  <2>1. PICK q \in Connection :
          conn' = [conn EXCEPT ![k] = q] /\ Looks(conn[k], q) /\ UNCHANGED serverVars
    BY <1>2, GetLooks
  <2>2. conn'[k] = q
    BY <1>1, <2>1
  <2> QED
    BY <2>1, <2>2 DEF serverVars, Looks
<1>3. CASE sendLength(k) \/ sendBody(k)
  <2>1. /\ conn[k].phase \in {"header", "body"} /\ UNCHANGED disk
        /\ \/ conn'[k] = Ended(conn[k])
           \/ conn'[k] = [conn[k] EXCEPT !.phase = "body"]
    BY <1>1, <1>3 DEF sendLength, sendBody, serverVars
  <2>2. /\ Ended(conn[k]).phase = "done" /\ Ended(conn[k]).reply = conn[k].reply
        /\ [conn[k] EXCEPT !.phase = "body"].phase = "body"
        /\ [conn[k] EXCEPT !.phase = "body"].reply = conn[k].reply
    BY <1>1 DEF Ended, Connection
  <2> QED
    BY <2>1, <2>2
<1> QED
  BY <1>2, <1>3 DEF Thread, getEmptyRequest, parseRequest, handleListResponse,
     handlePutResponse, flushPiece, saveVectorToFile, handleMkdirResponse, Accepted

(***************************************************************************)
(* While a client that is alone GETs, and no answer was late, no thread    *)
(* writes, and the only request that is handled is its own.                *)
(***************************************************************************)
LEMMA GetAlone ==
  ASSUME StorageInv, GetInv, Alone, HandledOK, timeouts = 0, NEW c \in Clients,
         cl[c].op = "GET", NEW k \in Conns
  PROVE  /\ conn[k].phase # "writing"
         /\ conn[k].phase \in {"handle", "reading"} =>
              k = cl[c].prim /\ cl[c].pc = "recv" /\ conn[k].req.method = "GET"
<1> SUFFICES ASSUME conn[k].phase \in {"handle", "reading", "writing"}
             PROVE  /\ k = cl[c].prim /\ cl[c].pc = "recv" /\ conn[k].req.method = "GET"
                    /\ conn[k].phase # "writing"
  OBVIOUS
<1>1. Receiving(c) /\ Sock(c) = k
  BY DEF HandledOK, WaitedFor, Alone
<1>2. cl[c].pc = "recv" /\ k = cl[c].prim
  BY <1>1, ClientFacts DEF Receiving, CommandOK, Sock
<1>3. conn[k].req = RequestOf(c)
  BY <1>2 DEF GetInv, ExchangesOK, ExchangeOK, Asked
<1>4. conn[k].req.method = "GET"
  BY <1>3, RequestFacts
<1>5. conn[k].phase # "writing"
  BY <1>4 DEF StorageInv, RequestsOK, RequestOK
<1> QED
  BY <1>2, <1>4, <1>5

\* Without a writer, what is there can be read.
LEMMA ThereIsReadable ==
  ASSUME StorageInv, \A k \in Conns : conn[k].phase # "writing",
         NEW s \in Servers, s \notin died, NEW f \in Files, NEW i \in Pieces,
         disk[s][f][i] # Absent
  PROVE  Readable(disk[s][f][i])
  BY DEF StorageInv, UnfinishedHasWriter, Writes, Readable, Empty

(***************************************************************************)
(* handleGetResponse on a server that has never died: it passes no piece   *)
(* that is there, so of a stored file it finds two.                        *)
(***************************************************************************)
LEMMA SearchFinds ==
  ASSUME StorageInv, GetInv, Alone, HandledOK, StoredOK, NEW c \in Clients, SurvivesOK(c),
         GetsStored(c), cl[c].pc = "recv", SearchOK(c),
         conn[cl[c].prim].srv \notin died, conn[cl[c].prim].req.file = cl[c].file,
         NEW q \in Connection, Looks(conn[cl[c].prim], q)
  PROVE  /\ q.phase \in {"handle", "reading"} =>
              \A j \in Pieces :
                j < q.i /\ disk[conn[cl[c].prim].srv][cl[c].file][j] # Absent
                  => q.found[j] # Absent
         /\ q.phase \notin {"handle", "reading"} => q.phase = "header" /\ q.reply = "ok"
<1> DEFINE r == conn[cl[c].prim]
           f == cl[c].file
           s == r.srv
<1>1. /\ cl[c].op = "GET" /\ f \in Files /\ timeouts = 0 /\ cl[c].prim \in Conns
      /\ r \in Connection /\ s \in Servers /\ r.i \in 0..3 /\ r.found \in [Pieces -> Content]
  <2>1. cl[c].op = "GET" /\ f \in Files /\ timeouts = 0
    BY ClientFacts DEF GetsStored, CommandOK
  <2>2. r \in Connection /\ cl[c].prim \in Conns
    BY ClientFacts, Sockets
  <2> QED
    BY <2>1, <2>2 DEF Connection, Pieces
<1>2. \A k \in Conns : conn[k].phase # "writing"
  BY <1>1, GetAlone
<1>3. /\ \A i \in Pieces : r.found[i] # Absent => q.found[i] # Absent
      /\ q.phase # "reading" /\ Readable(disk[s][f][r.i]) => q.found[r.i] # Absent
  BY <1>1, LooksFound DEF GetInv, PieceFile
<1>4. ASSUME NEW j \in Pieces, j < r.i, disk[s][f][j] # Absent
      PROVE  q.found[j] # Absent
  BY <1>3, <1>4 DEF SearchOK, Looks
<1>5. CASE q.phase = "reading"
  <2>1. q.i = r.i
    BY <1>5 DEF Looks, BeginsPiece, Advances
  <2> QED
    BY <1>4, <1>5, <2>1
<1>6. CASE q.phase # "reading"
  <2>1. Advances(r, q)
    BY <1>6 DEF Looks, BeginsPiece
  <2>2. ASSUME NEW j \in Pieces, j < r.i + 1, disk[s][f][j] # Absent
        PROVE  q.found[j] # Absent
    <3>1. Readable(disk[s][f][j])
      BY <1>1, <1>2, <2>2, ThereIsReadable
    <3>2. j = r.i \/ j < r.i
      BY <1>1, <2>2 DEF Pieces
    <3> QED
      BY <1>3, <1>4, <1>6, <2>2, <3>1, <3>2
  <2>3. r.i = 3 => GetDone(q.found)
    <3> SUFFICES ASSUME r.i = 3 PROVE GetDone(q.found)
      OBVIOUS
    <3>1. PICK v \in cl[c].since : v \in StoredOf(f)
      BY DEF GetsStored, SurvivesOK
    <3>2. v \in stored /\ log[v].file = f /\ log[v].bin \in 0..3 /\ Remains(v)
      BY <3>1, LogFacts DEF StoredOf, StoredOK
    <3>3. PICK i \in Pieces, j \in Pieces :
            i # j /\ s \in Holders(i, log[v].bin) /\ s \in Holders(j, log[v].bin)
      BY <1>1, <3>2, TwoPieces
    <3>4. disk[s][f][i] # Absent /\ disk[s][f][j] # Absent
      BY <3>2, <3>3 DEF Remains
    <3>5. i < r.i + 1 /\ j < r.i + 1
      BY DEF Pieces
    <3>6. q.found[i] # Absent /\ q.found[j] # Absent
      BY <2>2, <3>4, <3>5
    <3> QED
      BY <3>3, <3>6 DEF GetDone
  <2>4. q.phase = "handle" => q.i = r.i + 1
    BY <2>1 DEF Advances
  <2>5. q.phase # "handle" => q.phase = "header" /\ q.reply = "ok"
    BY <2>1, <2>3 DEF Advances
  <2> QED
    BY <1>6, <2>2, <2>4, <2>5
<1> QED
  BY <1>5, <1>6

LEMMA SurvivesServer ==
  ASSUME StorageInv, GetInv, PutInv, SurviveInv, ServerNext, NEW c \in Clients
  PROVE  SurvivesOK(c)'
<1>1. /\ UNCHANGED <<cl, log, stored, timeouts>> /\ SurvivesOK(c) /\ died \subseteq died'
      /\ Alone /\ HandledOK /\ StoredOK /\ DeathsOK
  BY DeathsServer DEF ServerNext, clientVars, SurviveInv
<1>2. /\ cl[c].op = "GET" => cl[c].since \subseteq StoredOf(cl[c].file)'
      /\ GetsStored(c)' = GetsStored(c)
      /\ GetsStored(c) => cl[c].failed \subseteq died'
  BY <1>1 DEF SurvivesOK, StoredOf, GetsStored
<1> DEFINE p == cl[c].prim
           r == conn[p]
<1>3. ASSUME GetsStored(c), cl[c].pc = "recv", conn'[p].srv \notin died'
      PROVE  SearchOK(c)'
  <2>1. p \in Conns /\ r.peer = "open" /\ r.phase # "free" /\ r.srv = conn'[p].srv
    BY <1>3, Sockets, ServerKeepsOpen DEF Kept
  <2>2. r.srv \notin died /\ SearchOK(c) /\ cl[c].op = "GET" /\ timeouts = 0
        /\ cl[c].file \in Files /\ r \in Connection
    BY <1>1, <1>3, <2>1, ClientFacts DEF SurvivesOK, GetsStored, CommandOK
  <2>3. r.req = RequestOf(c) /\ r.phase \notin {"request", "reset", "cut"}
    BY <1>1, <1>3, <2>1, <2>2 DEF GetInv, ExchangesOK, ExchangeOK, Asked, DeathsOK
  <2>4. r.req.method = "GET" /\ r.req.file = cl[c].file /\ r.req.auth
    <3>1. PICK v \in cl[c].since : v \in StoredOf(cl[c].file)
      BY <1>1, <1>3 DEF GetsStored, SurvivesOK
    <3>2. v \in DOMAIN log /\ log[v].auth
      BY <3>1, LogFacts DEF StoredOf, PutInv, TypedInv, LogOK
    <3>3. c \in Authorized
      BY <1>1, <3>2 DEF StoredOK
    <3> QED
      BY <2>2, <2>3, <3>3, RequestFacts
  <2>5. ASSUME conn'[p] = r, UNCHANGED disk PROVE SearchOK(c)'
    BY <1>1, <2>2, <2>5 DEF SearchOK
  <2>6. ASSUME NEW k \in Conns, Thread(k), ~sendBodySigpipe(k), Moves(k)
        PROVE  SearchOK(c)'
    <3>1. CASE k # p
      <4>1. conn[k].phase \notin {"handle", "reading", "writing"}
        BY <1>1, <2>2, <3>1, GetAlone
      <4>2. UNCHANGED disk
        BY <2>6, <4>1 DEF Moves, Opens, Flushes, Saves, Searches, Looks, Rests
      <4> QED
        BY <2>1, <2>5, <2>6, <3>1, <4>2 DEF Moves
    <3>2. CASE k = p
      <4>1. r.phase \in {"handle", "reading", "header", "body"}
        <5>1. r.phase \in Live
          BY <2>6, <3>2 DEF Moves, Served
        <5>2. r.phase # "writing"
          BY <1>1, <2>1, <2>2, GetAlone
        <5> QED
          BY <2>3, <5>1, <5>2 DEF Live
      <4>2. /\ UNCHANGED disk
            /\ \/ conn'[p] \in Connection /\ Looks(r, conn'[p])
               \/ /\ r.phase \in {"header", "body"}
                  /\ conn'[p].phase \in {"body", "done"} /\ conn'[p].reply = r.reply
        BY <2>1, <2>4, <2>6, <3>2, <4>1, GetThread
      <4>3. CASE conn'[p] \in Connection /\ Looks(r, conn'[p])
        <5>1. /\ conn'[p].phase \in {"handle", "reading"} =>
                   \A j \in Pieces :
                     j < conn'[p].i /\ disk[r.srv][cl[c].file][j] # Absent
                       => conn'[p].found[j] # Absent
              /\ conn'[p].phase \notin {"handle", "reading"} => conn'[p].reply = "ok"
          BY <1>1, <1>3, <2>2, <2>4, <4>3, SearchFinds
        <5> QED
          BY <1>1, <2>1, <4>2, <5>1 DEF SearchOK
      <4>4. CASE /\ r.phase \in {"header", "body"}
                 /\ conn'[p].phase \in {"body", "done"} /\ conn'[p].reply = r.reply
        BY <1>1, <2>2, <4>1, <4>4 DEF SearchOK
      <4> QED
        BY <4>2, <4>3, <4>4
    <3> QED
      BY <3>1, <3>2
  <2>7. ASSUME NEW s, Die(s) PROVE SearchOK(c)'
    <3>1. r.srv # s /\ UNCHANGED disk
      BY <1>3, <2>1, <2>7 DEF Die
    <3>2. conn'[p] = r
      BY <2>1, <2>7, <3>1 DEF Die, ServerGone
    <3> QED
      BY <2>5, <3>1, <3>2
  <2>8. ASSUME NEW s, Restart(s) PROVE SearchOK(c)'
    BY <2>5, <2>8 DEF Restart
  <2> QED
    BY <2>6, <2>7, <2>8, ServerKinds
<1> QED
  BY <1>1, <1>2, <1>3 DEF SurvivesOK

\* What handleGet notes about a server that did or did not deliver.
LEMMA TurnsFail ==
  ASSUME NEW r \in Client
  PROVE  /\ NotDelivered(r).failed = r.failed \cup {r.n}
         /\ \A found \in [Pieces -> Content] : Delivered(r, found).failed = r.failed
<1> DEFINE y == [r EXCEPT !.failed = @ \cup {r.n}]
<1>1. y \in Client /\ y.failed = r.failed \cup {r.n}
  BY DEF Client, Servers
<1>2. NotDelivered(r) = GetTurn(y, FALSE)
  BY DEF NotDelivered
<1> HIDE DEF y
<1>3. NotDelivered(r).failed = r.failed \cup {r.n}
  BY <1>1, <1>2, GetTurnFacts
<1>4. ASSUME NEW found \in [Pieces -> Content]
      PROVE  Delivered(r, found).failed = r.failed
  <2> DEFINE p == [i \in Pieces |-> IF found[i] # Absent THEN found[i] ELSE r.pieces[i]]
             z == [r EXCEPT !.pieces = p]
  <2>1. p \in [Pieces -> Content]
    BY DEF Client
  <2>2. Delivered(r, found) = GetTurn(z, TRUE)
    BY DEF Delivered
  <2> HIDE DEF p
  <2>3. z \in Client /\ z.failed = r.failed
    BY <2>1 DEF Client
  <2> HIDE DEF z
  <2> QED
    BY <2>2, <2>3, GetTurnFacts
<1> QED
  BY <1>3, <1>4

(***************************************************************************)
(* A server that handleGet gives up on has died: nobody listened, or the   *)
(* connection was reset, or the answer was an ERROR for a file that is     *)
(* stored, which only a server that has died can send.                     *)
(***************************************************************************)
LEMMA SurvivesClient ==
  ASSUME StorageInv, GetInv, SurviveInv, NEW c \in Clients, Act(c)
  PROVE  SurvivesOK(c)'
<1> DEFINE r == cl[c]
           t == cl'[c]
<1>1. /\ SurvivesOK(c) /\ DeathsOK /\ UNCHANGED <<disk, died, up>>
      /\ r \in Client /\ conn \in [Conns -> Connection] /\ Target(c) \in Servers
  BY ClientFacts, ClientTouches, TargetServer DEF SurviveInv, serverVars
<1>2. CASE Command(c)
  <2>1. t.pc # "recv" /\ t.failed = {} /\ UNCHANGED stored
    BY <1>2, CommandFacts
  <2>2. t.op = "GET" => t.since = StoredOf(t.file) /\ UNCHANGED log
    BY <1>2, TypedFacts
  <2> QED
    BY <2>1, <2>2 DEF SurvivesOK, StoredOf
<1>3. CASE Step(c) \/ getResponseTimeout(c)
  <2> SUFFICES ASSUME t.op = "GET" PROVE SurvivesOK(c)'
    BY DEF SurvivesOK, GetsStored
  <2>1. /\ r.op = "GET" /\ t.file = r.file /\ t.since = r.since /\ UNCHANGED log
        /\ stored \subseteq stored' /\ r.pc # "prompt"
    BY <1>3, StepGoes DEF Goes
  <2>2. t.since \subseteq StoredOf(cl[c].file)'
    BY <1>1, <2>1 DEF SurvivesOK, StoredOf
  <2> SUFFICES ASSUME GetsStored(c)'
               PROVE  /\ t.failed \subseteq died
                      /\ t.pc = "recv" /\ conn'[t.prim].srv \notin died => SearchOK(c)'
    BY <1>1, <2>2 DEF SurvivesOK
  <2>3. ~getResponseTimeout(c) /\ GetsStored(c) /\ r.failed \subseteq died
    <3>1. timeouts' = 0
      BY DEF GetsStored
    <3> QED
      BY <1>1, <1>3, <2>1, <3>1, NotLate DEF Act, GetsStored, SurvivesOK
  <2>4. r.sec = NoSock /\ Target(c) = r.n
    BY <2>1, ClientFacts DEF SocketsOK, Target
  <2>5. ASSUME t = NotDelivered(r), r.n \in died
        PROVE  t.failed \subseteq died /\ t.pc # "recv"
    BY <1>1, <2>3, <2>5, TurnsFail, NotDeliveredKeeps
  <2>6. CASE connectFirst(c)
    <3>1. \/ t.pc = "send" /\ t.failed = r.failed
          \/ Target(c) \notin up /\ t = NotDelivered(r)
      BY <2>1, <2>6, ConnectFirstFacts DEF SameGet
    <3> QED
      BY <1>1, <2>3, <2>4, <2>5, <3>1 DEF DeathsOK
  <2>7. CASE connectSecond(c)
    BY <2>1, <2>7, ConnectSecondFacts
  <2>8. CASE sendRequest(c)
    <3>1. PICK k \in Conns : k = Sock(c)
      BY <2>8, SendFacts
    <3>2. r.pc = "send" /\ SameGet(t, r) /\ t.prim = k
      BY <2>1, <2>8, <3>1, SendFacts
    <3>3. CASE conn[k].phase = "reset" /\ UNCHANGED conn
      BY <1>1, <2>3, <3>2, <3>3 DEF DeathsOK, SameGet
    <3>4. CASE conn[k].phase = "request"
      <4>1. conn'[k].phase = "handle" /\ conn'[k].i = conn[k].i
        BY <1>1, <2>8, <3>1, <3>4, SendFacts
      <4>2. conn[k].i = 0
        BY <3>4 DEF GetInv, AnswersOK, AnswerOK
      <4>3. \A j \in Pieces : ~(j < 0)
        BY DEF Pieces
      <4>4. SearchOK(c)'
        BY <3>2, <4>1, <4>2, <4>3 DEF SearchOK
      <4> QED
        BY <2>3, <3>2, <4>4 DEF SameGet
    <3> QED
      BY <2>8, <3>1, <3>3, <3>4, SendFacts
  <2>9. CASE sendRequestSigpipe(c)
    BY <2>9, SigpipeFacts
  <2>10. CASE sendRequestNoSock(c) \/ getResponseCut(c)
    BY <2>3, <2>10, SpinFacts DEF SameGet
  <2>11. CASE getResponse(c)
    <3>1. /\ r.pc = "recv" /\ Sock(c) = r.prim /\ r.prim \in Conns
          /\ conn[r.prim].srv = r.n
      BY <2>1, <2>4, <2>11, Sockets, Receives DEF Sock
    <3>2. \/ conn[r.prim].phase = "done" /\ Continue(c, conn, TRUE)
          \/ conn[r.prim].phase = "reset" /\ Continue(c, conn, FALSE)
      BY <2>11, <3>1 DEF getResponse
    <3>3. \/ t = Delivered(r, conn[r.prim].found)
          \/ t = NotDelivered(r) /\ conn[r.prim].phase = "reset"
          \/ /\ t = NotDelivered(r) /\ conn[r.prim].phase = "done"
             /\ conn[r.prim].reply # "ok"
      BY <2>1, <3>1, <3>2, ContinueFacts
    <3>4. CASE t = Delivered(r, conn[r.prim].found)
      <4>1. conn[r.prim].found \in [Pieces -> Content]
        BY <1>1, <3>1 DEF Connection
      <4> QED
        BY <1>1, <2>3, <3>4, <4>1, TurnsFail, DeliveredKeeps
    <3>5. CASE t = NotDelivered(r) /\ conn[r.prim].phase = "reset"
      BY <1>1, <2>5, <3>1, <3>5 DEF DeathsOK
    <3>6. CASE /\ t = NotDelivered(r) /\ conn[r.prim].phase = "done"
               /\ conn[r.prim].reply # "ok"
      <4>1. r.n \in died
        BY <1>1, <2>3, <3>1, <3>6 DEF SurvivesOK, SearchOK
      <4> QED
        BY <2>5, <3>6, <4>1
    <3> QED
      BY <3>3, <3>4, <3>5, <3>6
  <2> QED
    BY <1>3, <2>3, <2>6, <2>7, <2>8, <2>9, <2>10, <2>11 DEF Step
<1> QED
  BY <1>2, <1>3 DEF Act

-----------------------------------------------------------------------------
\* What was stored survives.

LEMMA SurviveInit == Alone /\ Init => SurviveInv
<1> SUFFICES ASSUME Alone, Init PROVE SurviveInv
  OBVIOUS
<1>1. /\ conn = [k \in Conns |-> Free] /\ cl = [c \in Clients |-> Prompt]
      /\ log = <<>> /\ stored = {} /\ up = Servers
  BY DEF Init, NetInit, ServerInit, ClientInit
<1>2. Free.phase = "free" /\ Prompt.op = "none" /\ Prompt.pc = "prompt"
  BY DEF Free, Prompt
<1>3. DeathsOK /\ HandledOK
  BY <1>1, <1>2 DEF DeathsOK, HandledOK
<1>4. StoredOK
  BY <1>1 DEF StoredOK
<1>5. \A c \in Clients : SurvivesOK(c)
  BY <1>1, <1>2 DEF SurvivesOK, GetsStored
<1> QED
  BY <1>3, <1>4, <1>5 DEF SurviveInv

LEMMA SurviveStep ==
  StorageInv /\ GetInv /\ CalmInv /\ PutInv /\ SurviveInv /\ [Next]_vars => SurviveInv'
<1> SUFFICES ASSUME StorageInv, GetInv, CalmInv, PutInv, SurviveInv, [Next]_vars
             PROVE  SurviveInv'
  OBVIOUS
<1>1. Alone /\ DeathsOK /\ HandledOK /\ StoredOK
  BY DEF SurviveInv
<1>2. CASE ServerNext
  BY <1>1, <1>2, DeathsServer, HandledServer, StoredServer, SurvivesServer
     DEF SurviveInv, Alone
<1>3. ASSUME NEW c \in Clients, Act(c) PROVE SurviveInv'
  <2>1. \A d \in Clients : SurvivesOK(d)'
    BY <1>1, <1>3, SurvivesClient DEF Alone
  <2> QED
    BY <1>1, <1>3, <2>1, DeathsClient, HandledClient, StoredClient DEF SurviveInv, Alone
<1>4. CASE UNCHANGED vars
  <2>1. UNCHANGED <<conn, up, disk, died, cl, log, stored, timeouts>>
    BY <1>4 DEF vars, serverVars, clientVars
  <2>2. DeathsOK' /\ HandledOK' /\ StoredOK'
    BY <1>1, <2>1 DEF DeathsOK, HandledOK, WaitedFor, Receiving, Sock, StoredOK, Remains
  <2>3. ASSUME NEW c \in Clients PROVE SurvivesOK(c)'
    BY <2>1 DEF SurviveInv, SurvivesOK, StoredOf, GetsStored, SearchOK
  <2> QED
    BY <1>1, <2>2, <2>3 DEF SurviveInv, Alone
<1> QED
  BY <1>2, <1>3, <1>4 DEF Next, ClientNext, Act

\* A client that is alone is the only writer.
LEMMA AloneWrites == Alone => OneWriter
  BY StoreAssumption DEF Alone, OneWriter

LEMMA SurviveHolds ==
  Alone /\ Spec => [](StorageInv /\ GetInv /\ CalmInv /\ PutInv /\ SurviveInv)
<1> QED
  BY AloneWrites, PutInvHolds, SurviveInit, SurviveStep, PTL DEF Spec

(***************************************************************************)
(* What a client that is alone has stored survives the loss of servers: a  *)
(* GET of it gives up only if two neighbouring servers have died at some   *)
(* time or an answer was late, whatever PUTs that were broken off by a     *)
(* crash have left behind, for any number of files, connections, PUTs,     *)
(* crashes and restarts.  It takes handlePut's two copies of each piece,   *)
(* handleGet's order of servers and handleGetResponse's search together.   *)
(***************************************************************************)
THEOREM StoredFilesSurvive == Alone /\ Spec => []StoredFileSurvives
<1>1. StorageInv /\ GetInv /\ SurviveInv => StoredFileSurvives
  <2> SUFFICES ASSUME StorageInv, GetInv, SurviveInv, NEW c \in Clients,
                      Reports(c, "GET", "incomplete"), cl[c].since # {}, ~(timeouts > 0)
               PROVE  \E s \in Servers : {s, (s + 1) % 4} \subseteq died
    BY DEF StoredFileSurvives
  <2>1. timeouts = 0
    BY ClientFacts
  <2>2. cl[c].failed \subseteq died
    BY <2>1 DEF SurviveInv, SurvivesOK, GetsStored, Reports
  <2>3. \E s \in Servers : {s, (s + 1) % 4} \subseteq cl[c].failed
    BY DEF GetInv, GetsOK, GetOK, ResultOK, Reports
  <2> QED
    BY <2>2, <2>3
<1> QED
  BY <1>1, SurviveHolds, PTL

-----------------------------------------------------------------------------
\* LIST and MKDIR on the servers.

\* The thread of connection k answers a LIST.
Lists(k) ==
  /\ conn[k].phase = "handle" /\ conn[k].req.method = "LIST" /\ conn[k].req.auth
  /\ conn'[k].list = NamesOn(conn[k].srv, conn[k].req.dir)
  /\ conn'[k].phase = "header"
  /\ UNCHANGED dirs

\* It makes a directory.
Makes(k) ==
  /\ conn[k].phase = "handle" /\ conn[k].req.method = "MKDIR" /\ conn[k].req.auth
  /\ conn'[k].list = conn[k].list
  /\ conn'[k].phase = "header"
  /\ dirs' = [dirs EXCEPT ![conn[k].srv] = @ \cup {conn[k].req.dir}]

\* Everything else.
Passes(k) ==
  /\ conn[k].phase = "handle" /\ conn[k].req.auth => conn[k].req.method \notin {"LIST", "MKDIR"}
  /\ \/ conn'[k] = Free
     \/ /\ conn'[k].list = conn[k].list
        /\ conn'[k].phase \in {"request", "handle", "reading"} =>
             conn[k].phase \in {"handle", "reading"}
  /\ UNCHANGED dirs
  /\ \/ UNCHANGED disk
     \/ conn[k].phase = "writing"
     \/ conn[k].req.method = "PUT" /\ conn[k].req.auth /\ conn[k].req.dir \in dirs[conn[k].srv]

LEMMA ThreadLists ==
  ASSUME StorageInv, NEW k \in Conns, Thread(k), ~sendBodySigpipe(k)
  PROVE  \/ Lists(k) /\ UNCHANGED disk
         \/ Makes(k) /\ UNCHANGED disk
         \/ Passes(k)
<1>1. conn \in [Conns -> Connection] /\ conn[k] \in Connection
  BY DEF StorageInv, TypeOK, ServerTypeOK
<1>2. ASSUME NEW p \in {"header", "body", "done", "writing"}, NEW y
      PROVE  /\ LET a == [conn[k] EXCEPT !.phase = p, !.reply = y]
                IN a.list = conn[k].list /\ a.phase = p
             /\ LET b == [conn[k] EXCEPT !.phase = p]
                IN b.list = conn[k].list /\ b.phase = p
  BY <1>1 DEF Connection
<1>3. ASSUME NEW y, Answering(k, y)
      PROVE  conn'[k].list = conn[k].list /\ conn'[k].phase = "header"
  <2>1. conn'[k] = [conn[k] EXCEPT !.phase = "header", !.reply = y]
    BY <1>1, <1>3 DEF Answering
  <2> QED
    BY <1>2, <2>1
<1>4. CASE getEmptyRequest(k) \/ parseRequest(k)
  BY <1>3, <1>4 DEF getEmptyRequest, parseRequest, Passes, serverVars
<1>5. CASE handleListResponse(k)
  <2> DEFINE names == NamesOn(conn[k].srv, conn[k].req.dir)
  <2>1. PICK y : conn' = [conn EXCEPT ![k].phase = "header", ![k].list = names, ![k].reply = y]
    BY <1>5 DEF handleListResponse, NamesOn
  <2>2. conn'[k] = [conn[k] EXCEPT !.phase = "header", !.list = names, !.reply = y]
    BY <1>1, <2>1
  <2> HIDE DEF names
  <2>3. conn'[k].phase = "header" /\ conn'[k].list = names
    BY <1>1, <2>2 DEF Connection
  <2> QED
    BY <1>5, <2>3 DEF handleListResponse, Accepted, Lists, serverVars, names
<1>6. CASE handleGetResponse(k) \/ loadFileToVector(k)
  <2>1. PICK q \in Connection :
          conn' = [conn EXCEPT ![k] = q] /\ Looks(conn[k], q) /\ UNCHANGED serverVars
    BY <1>6, GetLooks
  <2>2. conn'[k] = q
    BY <1>1, <2>1
  <2> QED
    BY <2>1, <2>2 DEF Looks, Passes, serverVars
<1>7. CASE handlePutResponse(k)
  <2>1. /\ conn[k].phase = "handle" /\ conn[k].req.method = "PUT" /\ conn[k].req.auth
        /\ UNCHANGED dirs
    BY <1>7 DEF handlePutResponse, Accepted
  <2>2. \/ conn[k].req.dir \in dirs[conn[k].srv] /\ conn' = [conn EXCEPT ![k].phase = "writing"]
        \/ Answering(k, "ok") /\ UNCHANGED disk
    BY <1>7 DEF handlePutResponse
  <2>3. conn' = [conn EXCEPT ![k].phase = "writing"] =>
          conn'[k].list = conn[k].list /\ conn'[k].phase = "writing"
    BY <1>1, <1>2
  <2> QED
    BY <1>3, <2>1, <2>2, <2>3 DEF Passes
<1>8. CASE flushPiece(k)
  <2>1. /\ conn[k].phase = "writing" /\ UNCHANGED dirs
        /\ conn'[k] = [conn[k] EXCEPT !.flushed = TRUE]
    BY <1>1, <1>8 DEF flushPiece
  <2>2. conn'[k].list = conn[k].list /\ conn'[k].phase = "writing"
    BY <1>1, <2>1 DEF Connection
  <2> QED
    BY <2>1, <2>2 DEF Passes
<1>9. CASE saveVectorToFile(k)
  BY <1>3, <1>9 DEF saveVectorToFile, Passes
<1>10. CASE handleMkdirResponse(k)
  BY <1>3, <1>10 DEF handleMkdirResponse, Accepted, Makes
<1>11. CASE sendLength(k) \/ sendBody(k)
  <2>1. /\ conn[k].phase # "handle" /\ UNCHANGED <<disk, dirs>>
        /\ \/ conn'[k] = Ended(conn[k])
           \/ conn'[k] = [conn[k] EXCEPT !.phase = "body"]
    BY <1>1, <1>11 DEF sendLength, sendBody, serverVars
  <2>2. Ended(conn[k]) \in {Free, [conn[k] EXCEPT !.phase = "done"]}
    BY DEF Ended
  <2>3. \/ conn'[k] = Free
        \/ conn'[k].list = conn[k].list /\ conn'[k].phase \in {"body", "done"}
    BY <1>1, <2>1, <2>2 DEF Connection
  <2> QED
    BY <2>1, <2>3 DEF Passes
<1> QED
  BY <1>4, <1>5, <1>6, <1>7, <1>8, <1>9, <1>10, <1>11 DEF Thread

(***************************************************************************)
(* Without faults every step of the servers works on the request of the    *)
(* client that waits for it.                                               *)
(***************************************************************************)
LEMMA AloneMoves ==
  ASSUME StorageInv, GetInv, CalmInv, ServerNext, NoFault'
  PROVE  /\ NoFault /\ Calm
         /\ \E k \in Conns, c \in Clients :
              /\ Moves(k) /\ Thread(k) /\ ~sendBodySigpipe(k)
              /\ conn[k].phase \in {"handle", "reading", "writing", "header", "body"}
              /\ conn[k].req = RequestOf(c) /\ conn[k].peer = "open"
              /\ \/ cl[c].pc = "recv" /\ k = cl[c].prim
                 \/ cl[c].pc = "recv2" /\ k = cl[c].sec
<1>1. NoFault /\ Calm
  BY CalmMoves
<1>2. ASSUME NEW s PROVE ~Die(s)
  BY <1>2 DEF Die, NoFault
<1>3. ASSUME NEW s \in Servers PROVE ~Restart(s)
  BY <1>1, <1>3 DEF Restart, Calm
<1>4. PICK k \in Conns : Thread(k) /\ ~sendBodySigpipe(k) /\ Moves(k)
  BY <1>2, <1>3, ServerKinds
<1>5. conn[k].phase \in Live /\ conn[k].peer = "open" /\ conn[k].phase # "request"
  BY <1>1, <1>4 DEF Moves, Served, Calm, Attended, Live
<1>6. conn[k].phase \in {"handle", "reading", "writing", "header", "body"}
  BY <1>5 DEF Live
<1> QED
  BY <1>1, <1>4, <1>5, <1>6, AtWork

\* A thread that has not answered has no list.
LEMMA UnlistedServer ==
  ASSUME StorageInv, UnlistedOK, ServerNext
  PROVE  UnlistedOK'
<1> SUFFICES ASSUME NEW k \in Conns, conn'[k].phase \in {"request", "handle", "reading"}
             PROVE  conn'[k].list = {}
  BY DEF UnlistedOK
<1>1. conn[k] \in Connection
  BY DEF StorageInv, TypeOK, ServerTypeOK
<1>2. ASSUME NEW j \in Conns, Thread(j), ~sendBodySigpipe(j), Moves(j)
      PROVE  conn'[k].list = {}
  <2>1. CASE j # k
    BY <1>2, <2>1 DEF Moves, UnlistedOK
  <2>2. CASE j = k
    BY <1>2, <2>2, ThreadLists DEF Lists, Makes, Passes, UnlistedOK, Free
  <2> QED
    BY <2>1, <2>2
<1>3. ASSUME NEW s, Die(s) PROVE conn'[k].list = {}
  <2>1. conn'[k] \in {conn[k], Severed(conn[k])}
    BY <1>3 DEF Die, ServerGone
  <2> QED
    BY <1>1, <2>1 DEF Severed, UnlistedOK, Free, Connection, Live
<1>4. ASSUME NEW s, Restart(s) PROVE conn'[k].list = {}
  BY <1>4 DEF Restart, UnlistedOK
<1> QED
  BY <1>2, <1>3, <1>4, ServerKinds

LEMMA UnlistedClient ==
  ASSUME StorageInv, UnlistedOK, NEW c \in Clients, Act(c)
  PROVE  UnlistedOK'
<1> SUFFICES ASSUME NEW k \in Conns, conn'[k].phase \in {"request", "handle", "reading"}
             PROVE  conn'[k].list = {}
  BY DEF UnlistedOK
<1>1. CASE sendRequest(c)
  <2>1. conn \in [Conns -> Connection] /\ conn[k] \in Connection
    BY ClientFacts
  <2>2. \/ conn'[k] = conn[k]
        \/ /\ conn[k].phase = "request"
           /\ conn'[k] = [conn[k] EXCEPT !.phase = "handle", !.req = RequestOf(c)]
    BY <1>1, <2>1 DEF sendRequest
  <2>3. conn'[k].list = conn[k].list /\ conn[k].phase \in {"request", "handle", "reading"}
    BY <2>1, <2>2 DEF Connection
  <2> QED
    BY <2>3 DEF UnlistedOK
<1>2. CASE ~sendRequest(c)
  BY <1>2, ClientLets DEF Lets, UnlistedOK
<1> QED
  BY <1>1, <1>2

-----------------------------------------------------------------------------
\* The directories and the listings without faults: steps of the servers.

LEMMA ListServer ==
  ASSUME StorageInv, GetInv, CalmInv, PutInv, Alone, ListInv, ServerNext, NoFault',
         NEW c \in Clients
  PROVE  DirsOK(c)' /\ RoomOK(c)' /\ ListOK(c)'
<1>1. Calm /\ UNCHANGED <<cl, log>> /\ DirsOK(c) /\ RoomOK(c) /\ ListOK(c)
  BY AloneMoves DEF ListInv, ServerNext, clientVars
<1> DEFINE r == cl[c]
           p == r.prim
<1>0. PICK k \in Conns, d \in Clients :
        /\ Moves(k) /\ Thread(k) /\ ~sendBodySigpipe(k)
        /\ conn[k].phase \in {"handle", "reading", "writing", "header", "body"}
        /\ conn[k].req = RequestOf(d) /\ conn[k].peer = "open"
        /\ \/ cl[d].pc = "recv" /\ k = cl[d].prim
           \/ cl[d].pc = "recv2" /\ k = cl[d].sec
  BY AloneMoves
<1>2. /\ Moves(k) /\ Thread(k) /\ ~sendBodySigpipe(k)
      /\ conn[k].phase \in {"handle", "reading", "writing", "header", "body"}
      /\ conn[k].req = RequestOf(c) /\ conn[k].peer = "open"
      /\ \/ r.pc = "recv" /\ k = p
         \/ r.pc = "recv2" /\ k = r.sec
  <2>1. c = d
    BY DEF Alone
  <2> QED
    BY <1>0, <2>1
<1>3. /\ conn[k].req.method = r.op /\ conn[k].req.dir = r.dir
      /\ conn[k].req.auth <=> c \in Authorized
      /\ r.op # "PUT" => r.pc = "recv" /\ k = p /\ conn[k].srv = r.n
      /\ r.op # "none" /\ r.n \in Servers
  <2>1. /\ conn[k].req.method = r.op /\ conn[k].req.dir = r.dir
        /\ conn[k].req.auth <=> c \in Authorized
    BY <1>2, RequestFacts
  <2>2. r.op # "PUT" => r.pc = "recv" /\ k = p
    BY <1>2, ClientFacts DEF CommandOK
  <2>3. r.op # "PUT" => conn[k].srv = r.n
    BY <1>2, <2>2, Sockets DEF Target
  <2>4. r.op # "none" /\ r.n \in Servers
    BY <1>2, ClientFacts DEF CommandOK, Servers
  <2> QED
    BY <2>1, <2>2, <2>3, <2>4
<1>4. dirs \in [Servers -> SUBSET Dirs] /\ conn'[k] # Free
  BY <1>2, ServerKeepsOpen DEF StorageInv, TypeOK, ServerTypeOK, Kept, Free
<1>5. RoomOK(c)'
  <2>1. Putting(c) => UNCHANGED dirs
    BY <1>2, <1>3, ThreadLists DEF Putting, Lists, Makes, Passes
  <2> QED
    BY <1>1, <2>1 DEF RoomOK, Putting
<1>6. DirsOK(c)'
  <2>1. CASE Making(c)
    <3>1. /\ DirsAgree({r.dir}) /\ \A s \in Servers : s < r.n => r.dir \in dirs[s]
          /\ conn[k].phase # "handle" => r.dir \in dirs[r.n]
          /\ r.op = "MKDIR" /\ c \in Authorized /\ r.pc # "prompt"
      BY <1>1, <1>3, <2>1 DEF DirsOK, Making
    <3>2. \/ dirs' = [dirs EXCEPT ![r.n] = @ \cup {r.dir}]
          \/ UNCHANGED dirs /\ conn[k].phase # "handle"
      BY <1>2, <1>3, <3>1, ThreadLists DEF Lists, Makes, Passes
    <3>3. DirsAgree({r.dir})'
      BY <1>1, <1>3, <1>4, <3>1, <3>2 DEF DirsAgree
    <3>4. (\A s \in Servers : s < r.n => r.dir \in dirs'[s]) /\ r.dir \in dirs'[r.n]
      BY <1>3, <1>4, <3>1, <3>2
    <3> QED
      BY <1>1, <2>1, <3>3, <3>4 DEF DirsOK, Making, DirsAgree
  <2>2. CASE ~Making(c)
    <3>1. UNCHANGED dirs
      BY <1>2, <1>3, <2>2, ThreadLists DEF Making, Lists, Makes, Passes
    <3> QED
      BY <1>1, <2>2, <3>1 DEF DirsOK, Making, DirsAgree
  <2> QED
    BY <2>1, <2>2
<1>7. ListOK(c)'
  <2> SUFFICES ASSUME r.op = "LIST" PROVE ListOK(c)'
    BY <1>1 DEF ListOK
  <2>1. RequestOK(conn[k])
    BY DEF StorageInv, RequestsOK
  <2>2. UNCHANGED disk
    BY <1>2, <1>3, <2>1, ThreadLists DEF Lists, Makes, Passes, RequestOK
  <2>3. CASE c \in Authorized
    <3>1. conn'[p].list = NamesOn(r.n, r.dir) \/ conn'[p].phase = "handle"
      <4>1. CASE conn[p].phase = "handle"
        BY <1>2, <1>3, <2>3, <4>1, ThreadLists DEF Lists, Makes, Passes
      <4>2. CASE conn[p].phase # "handle"
        <5>1. conn[p].list = NamesOn(r.n, r.dir)
          BY <1>1, <1>3, <2>3, <4>2 DEF ListOK
        <5>2. conn'[p].list = conn[p].list
          BY <1>2, <1>3, <1>4, <4>2, ThreadLists DEF Lists, Makes, Passes
        <5> QED
          BY <5>1, <5>2
      <4> QED
        BY <4>1, <4>2
    <3>2. r.listing = NamesBefore(Seen(c), r.dir)
      BY <1>1, <2>3 DEF ListOK
    <3>3. /\ NamesBefore(Seen(c), cl[c].dir)' = NamesBefore(Seen(c), r.dir)
          /\ NamesOn(cl[c].n, cl[c].dir)' = NamesOn(r.n, r.dir)
      BY <1>1, <2>2 DEF Seen, NamesBefore, NamesOn
    <3> QED
      BY <1>1, <2>3, <3>1, <3>2, <3>3 DEF ListOK
  <2>4. CASE c \notin Authorized
    <3>1. conn'[p].list = conn[p].list
      BY <1>2, <1>3, <1>4, <2>4, ThreadLists DEF Lists, Makes, Passes
    <3> QED
      BY <1>1, <1>3, <2>4, <3>1 DEF ListOK
  <2> QED
    BY <2>3, <2>4
<1> QED
  BY <1>5, <1>6, <1>7

(***************************************************************************)
(* The first piece file of a name is opened by a PUT that will store all   *)
(* of them: its directory is there on every server, or on none.            *)
(***************************************************************************)
LEMMA AllOrNoneServer ==
  ASSUME StorageInv, GetInv, CalmInv, PutInv, ListInv, ServerNext, NoFault'
  PROVE  AllOrNone'
<1>1. /\ Calm /\ UNCHANGED <<cl, log>> /\ AllOrNone /\ CopiesOK
      /\ \A c \in Clients : RoomOK(c)
  BY AloneMoves DEF ListInv, ServerNext, clientVars, PutInv
<1>2. PICK k \in Conns, c \in Clients :
        /\ Moves(k) /\ Thread(k) /\ ~sendBodySigpipe(k)
        /\ conn[k].phase \in {"handle", "reading", "writing", "header", "body"}
        /\ conn[k].req = RequestOf(c)
        /\ \/ cl[c].pc = "recv" /\ k = cl[c].prim
           \/ cl[c].pc = "recv2" /\ k = cl[c].sec
  BY AloneMoves
<1> SUFFICES ASSUME NEW f \in Files
             PROVE  (AllThere(f) \/ NoneThere(f) \/ \E d \in Clients : PutInRoom(d, f))'
  BY DEF AllOrNone
<1>3. CASE AllThere(f)
  BY <1>3, DiskStays DEF AllThere
<1>4. CASE \E d \in Clients : PutInRoom(d, f)
  BY <1>1, <1>4 DEF PutInRoom, Putting
<1>5. CASE NoneThere(f) /\ UNCHANGED disk
  BY <1>5 DEF NoneThere
<1>6. CASE NoneThere(f) /\ ~UNCHANGED disk
  <2> DEFINE r == conn[k]
  <2>1. r \in Connection /\ RequestOK(r) /\ DirOK(r)
        /\ disk \in [Servers -> [Files -> [Pieces -> Content]]]
    BY DEF StorageInv, TypeOK, ServerTypeOK, RequestsOK, PutInv, TypedInv
  <2>2. r.req.method = "PUT" /\ r.req.auth
        /\ (r.phase = "writing" \/ r.req.dir \in dirs[r.srv])
    BY <1>2, <1>6, <2>1, ThreadLists DEF Lists, Makes, Passes, RequestOK
  <2>3. /\ Putting(c) /\ r.req.file = cl[c].file /\ cl[c].file \in Files
        /\ r.req.dir = DirOf[cl[c].file] /\ r.srv \in Servers /\ r.req.piece \in Pieces
    <3>1. cl[c].op = "PUT" /\ c \in Authorized /\ r.req.file = cl[c].file
      BY <1>2, <2>2, RequestFacts
    <3> QED
      BY <1>2, <2>1, <2>2, <3>1, ClientFacts
         DEF Putting, CommandOK, DirOK, Connection, Request
  <2>4. CASE r.req.file # f
    <3>1. \E x : Puts(k, x)
      BY <1>2, <1>6 DEF Moves, Opens, Flushes, Saves, Searches, Rests
    <3>2. \A s \in Servers, i \in Pieces : disk'[s][f][i] = disk[s][f][i]
      BY <2>1, <2>4, <3>1, PutsOne
    <3> QED
      BY <1>6, <3>2 DEF NoneThere
  <2>5. CASE r.req.file = f
    <3>1. r.phase # "writing"
      <4>1. WriterOK(r)
        BY <1>1, <1>2, <2>3 DEF CopiesOK, PutOK
      <4>2. disk[r.srv][f][r.req.piece] = Absent
        BY <1>6, <2>3 DEF NoneThere
      <4> QED
        BY <2>5, <4>1, <4>2 DEF WriterOK, Empty, Part, Absent
    <3>2. PutInRoom(c, f)
      BY <1>1, <2>2, <2>3, <2>5, <3>1 DEF RoomOK, PutInRoom
    <3> QED
      BY <1>4, <3>2
  <2> QED
    BY <2>4, <2>5
<1> QED
  BY <1>1, <1>3, <1>4, <1>5, <1>6 DEF AllOrNone

-----------------------------------------------------------------------------
\* Steps of the client without faults.

\* A command goes on without faults: it is not cut off, and it ends when the
\* last answer has come.
Proceeds(c) ==
  LET r == cl[c]
      t == cl'[c]
  IN \/ /\ t.pc \in {"connect2", "send", "spin", "send2", "recv2"}
        /\ t.n = r.n /\ t.listing = r.listing
     \/ /\ t.pc = "recv" /\ t.n = r.n /\ t.listing = r.listing
        /\ r.pc = "send" /\ t.prim = r.prim /\ r.prim \in Conns
        /\ conn[r.prim].phase = "request" /\ conn'[r.prim].phase = "handle"
     \/ /\ r.op = "PUT" /\ r.pc = "recv2" /\ t = NextTurn(r)
        /\ conn[r.sec].phase = "done"
     \/ /\ r.op = "GET" /\ t.pc \in {"connect", "prompt"}
     \/ /\ r.op = "LIST" /\ r.pc = "recv" /\ conn[r.prim].phase = "done"
        /\ t = NextTurn([r EXCEPT !.listing = @ \cup conn[r.prim].list])
     \/ /\ r.op = "MKDIR" /\ r.pc = "recv" /\ conn[r.prim].phase = "done"
        /\ t = NextTurn(r)

LEMMA StepProceeds ==
  ASSUME StorageInv, GetInv, Calm, NEW c \in Clients, Step(c)
  PROVE  /\ Proceeds(c) /\ cl[c].pc # "prompt"
         /\ cl'[c].op = cl[c].op /\ cl'[c].file = cl[c].file /\ cl'[c].dir = cl[c].dir
         /\ cl'[c].ver = cl[c].ver /\ UNCHANGED log
<1> DEFINE r == cl[c]
           t == cl'[c]
<1>1. r \in Client /\ up = Servers /\ SocketsOK(c) /\ Connected(c) /\ CommandOK(c)
      /\ conn \in [Conns -> Connection]
  BY ClientFacts DEF Calm
<1>2. ~sendRequestSigpipe(c)
  <2>1. /\ r.prim # NoSock => conn[r.prim].phase # "reset"
        /\ r.sec # NoSock => conn[r.sec].phase # "reset"
    BY Waits
  <2> QED
    BY <2>1, SigpipeFacts DEF Sock
<1>3. ASSUME t.op = r.op, Proceeds(c)
      PROVE  /\ Proceeds(c) /\ r.pc # "prompt"
             /\ t.op = r.op /\ t.file = r.file /\ t.dir = r.dir
             /\ t.ver = r.ver /\ UNCHANGED log
  <2>1. r.op # "none"
    <3>1. r.pc \notin {"prompt", "gone"}
      BY DEF Step, connectFirst, connectSecond, sendRequest, sendRequestSigpipe,
         sendRequestNoSock, getResponse, getResponseCut, Receiving
    <3> QED
      BY <1>1, <3>1 DEF CommandOK
  <2> QED
    BY <1>3, <2>1, StepGoes DEF Goes
<1>4. CASE connectFirst(c)
  <2>1. Target(c) \in up
    BY <1>1, TargetServer
  <2>2. t.pc \in {"connect2", "send"} /\ SameGet(t, r)
    BY <1>4, <2>1, ConnectFirstFacts
  <2> QED
    BY <1>3, <2>2 DEF Proceeds, SameGet
<1>5. CASE connectSecond(c)
  <2>1. t.pc = "send" /\ SameGet(t, r)
    BY <1>1, <1>5, ConnectSecondFacts DEF Connected
  <2> QED
    BY <1>3, <2>1 DEF Proceeds, SameGet
<1>6. CASE sendRequest(c)
  <2>1. PICK k \in Conns : k = Sock(c)
    BY <1>6, SendFacts
  <2>2. /\ r.pc \in {"send", "send2"} /\ t.pc = Sent(r.pc) /\ SameGet(t, r)
        /\ t.prim = r.prim /\ k = IF r.pc = "send" THEN r.prim ELSE r.sec
    BY <1>6, <2>1, SendFacts
  <2>3. conn[k].phase # "reset"
    BY <2>1, <2>2, Waits DEF Conns, NoSock
  <2>4. conn[k].phase = "request" /\ conn'[k].phase = "handle"
    BY <1>1, <1>6, <2>1, <2>3, SendFacts
  <2> QED
    BY <1>3, <2>2, <2>4 DEF Proceeds, SameGet, Sent
<1>7. CASE sendRequestNoSock(c) \/ getResponseCut(c)
  BY <1>3, <1>7, SpinFacts DEF Proceeds, SameGet
<1>8. CASE getResponse(c)
  <2>1. /\ r.pc \in {"recv", "recv2"} /\ Sock(c) \in Conns
        /\ Sock(c) = IF r.pc = "recv" THEN r.prim ELSE r.sec
    BY <1>8, Receives DEF Sock
  <2>2. conn[Sock(c)].phase = "done" /\ Continue(c, conn, TRUE)
    <3>1. conn[Sock(c)].phase # "reset"
      BY <2>1, Sockets, Waits
    <3> QED
      BY <1>8, <3>1 DEF getResponse
  <2>3. t.op = r.op
    BY <1>1, <2>1, <2>2, ContinueSettles DEF Settled, SameGet
  <2>4. r.op # "PUT" => r.pc = "recv"
    BY <1>1, <2>1 DEF CommandOK
  <2>5. CASE r.op = "GET"
    <3>1. t.pc \in {"connect", "prompt"}
      BY <1>1, <2>1, <2>2, <2>5, ContinueSettles DEF Settled
    <3> QED
      BY <1>3, <2>3, <2>5, <3>1 DEF Proceeds
  <2>6. CASE r.op # "GET"
    <3>1. \/ r.op = "PUT" /\ r.pc = "recv" /\ t.pc = "send2" /\ SameGet(t, r)
          \/ r.op = "PUT" /\ r.pc = "recv2" /\ t = NextTurn(r)
          \/ /\ r.op = "LIST"
             /\ t = NextTurn([r EXCEPT !.listing = @ \cup conn[Sock(c)].list])
          \/ r.op = "MKDIR" /\ t = NextTurn(r)
      BY <2>2, <2>6, ContinueFacts
    <3> QED
      BY <1>3, <2>1, <2>2, <2>3, <2>4, <3>1 DEF Proceeds, SameGet
  <2> QED
    BY <2>5, <2>6
<1> QED
  BY <1>2, <1>4, <1>5, <1>6, <1>7, <1>8 DEF Step

\* The record of a client that has typed LIST.
LEMMA ListTyped ==
  ASSUME StorageInv, NEW c \in Clients, Command(c), cl'[c].op = "LIST"
  PROVE  cl'[c].pc = "connect" /\ cl'[c].n = 0 /\ cl'[c].listing = {}
<1>1. cl \in [Clients -> Client]
  BY ClientFacts
<1>2. ASSUME NEW op, NEW f, NEW d, NEW v
      PROVE  [Begin(op, f, d) EXCEPT !.ver = v].op = op
             /\ [Begin(op, f, d) EXCEPT !.since = v].op = op
  BY DEF Begin, Prompt
<1>3. ~startPut(c) /\ ~startGet(c)
  <2>1. ASSUME startPut(c) PROVE FALSE
    <3>1. PICK f \in Files :
            cl' = [cl EXCEPT ![c] = [Begin("PUT", f, DirOf[f]) EXCEPT !.ver = Len(log) + 1]]
      BY <2>1 DEF startPut
    <3>2. cl'[c] = [Begin("PUT", f, DirOf[f]) EXCEPT !.ver = Len(log) + 1]
      BY <1>1, <3>1
    <3> QED
      BY <1>2, <3>2
  <2>2. ASSUME startGet(c) PROVE FALSE
    <3>1. PICK f \in Files :
            cl' = [cl EXCEPT ![c] = [Begin("GET", f, DirOf[f]) EXCEPT !.since = StoredOf(f)]]
      BY <2>2 DEF startGet
    <3>2. cl'[c] = [Begin("GET", f, DirOf[f]) EXCEPT !.since = StoredOf(f)]
      BY <1>1, <3>1
    <3> QED
      BY <1>2, <3>2
  <2> QED
    BY <2>1, <2>2
<1>4. ~startMkDir(c)
  BY <1>1, BeginFacts DEF startMkDir
<1>5. ~exit(c)
  BY <1>1, GoneType DEF exit
<1>6. PICK d \in Dirs : cl' = [cl EXCEPT ![c] = Begin("LIST", None, d)]
  BY <1>3, <1>4, <1>5 DEF Command, startList
<1>7. cl'[c] = Begin("LIST", None, d)
  BY <1>1, <1>6
<1> QED
  BY <1>7, BeginFacts

LEMMA DirsClient ==
  ASSUME StorageInv, GetInv, Calm, ListInv, NoFault, NEW c \in Clients,
         Act(c), ~getResponseTimeout(c)
  PROVE  DirsOK(c)' /\ RoomOK(c)'
<1> DEFINE r == cl[c]
           t == cl'[c]
<1>1. DirsOK(c) /\ RoomOK(c) /\ UNCHANGED dirs /\ r \in Client /\ r.n \in 0..3
      /\ dirs \in [Servers -> SUBSET Dirs]
  BY ClientFacts, ClientTouches DEF ListInv, serverVars, StorageInv, TypeOK, ServerTypeOK
<1>2. ASSUME Making(c)', DirsAgree({t.dir}), \A s \in Servers : s < t.n => t.dir \in dirs[s],
             t.pc = "recv" /\ conn'[t.prim].phase # "handle" => t.dir \in dirs[t.n]
      PROVE  DirsOK(c)'
  <2>1. DirsAgree({cl[c].dir})'
    BY <1>1, <1>2 DEF DirsAgree
  <2> QED
    BY <1>1, <1>2, <2>1 DEF DirsOK
<1>3. ASSUME ~Making(c)', DirsAgree({}) PROVE DirsOK(c)'
  <2>1. DirsAgree({})'
    BY <1>1, <1>3 DEF DirsAgree
  <2> QED
    BY <1>3, <2>1 DEF DirsOK
<1>4. CASE Command(c)
  <2>1. r.pc = "prompt" /\ t.n = 0 /\ t.pc # "recv"
    BY <1>4, CommandFacts
  <2>2. DirsAgree({}) /\ \A s \in Servers : ~(s < 0)
    BY <1>1, <2>1 DEF DirsOK, Making, Servers
  <2>3. DirsOK(c)'
    BY <1>1, <2>1, <2>2 DEF DirsOK, DirsAgree
  <2>4. RoomOK(c)'
    <3> SUFFICES ASSUME Putting(c)', NEW s \in Servers, DirOf[t.file] \in dirs[s]
                 PROVE  log'[t.ver].room
      BY <1>1 DEF RoomOK
    <3>1. PICK b \in Bins : log' = Append(log, Typing(c, t.file, b)) /\ t.ver = Len(log) + 1
      BY <1>4, TypedFacts DEF Putting
    <3> DEFINE e == Typing(c, t.file, b)
    <3>2. e.room
      BY <2>2 DEF Typing, DirsAgree
    <3>3. log'[t.ver] = e
      <4>1. log' = Append(log, e) /\ log \in Seq(PutRecord)
        BY <3>1, LogFacts
      <4> HIDE DEF e
      <4> QED
        BY <3>1, <4>1, LogAppended
    <3> QED
      BY <3>2, <3>3
  <2> QED
    BY <2>3, <2>4
<1>5. CASE Step(c)
  <2>1. /\ Proceeds(c) /\ r.pc # "prompt" /\ t.op = r.op /\ t.file = r.file
        /\ t.dir = r.dir /\ t.ver = r.ver /\ UNCHANGED log
    BY <1>5, StepProceeds
  <2>2. RoomOK(c)'
    BY <1>1, <2>1 DEF RoomOK, Putting
  <2>3. CASE ~Making(c)
    <3>1. ~Making(c)' /\ DirsAgree({})
      BY <1>1, <2>1, <2>3 DEF DirsOK, Making
    <3> QED
      BY <1>3, <2>2, <3>1
  <2>4. CASE Making(c)
    <3>1. /\ DirsAgree({r.dir}) /\ \A s \in Servers : s < r.n => r.dir \in dirs[s]
          /\ r.pc = "recv" /\ conn[r.prim].phase # "handle" => r.dir \in dirs[r.n]
          /\ r.op = "MKDIR" /\ c \in Authorized
      BY <1>1, <2>4 DEF DirsOK, Making
    <3>2. t.pc # "prompt" => Making(c)'
      BY <2>1, <3>1 DEF Making
    <3>3. CASE t.n = r.n /\ t.pc \notin {"recv", "prompt"}
      BY <1>2, <2>1, <2>2, <3>1, <3>2, <3>3
    <3>4. CASE t.n = r.n /\ t.pc = "recv" /\ conn'[t.prim].phase = "handle"
      BY <1>2, <2>1, <2>2, <3>1, <3>2, <3>4
    <3>5. CASE r.pc = "recv" /\ conn[r.prim].phase = "done" /\ t = NextTurn(r)
      <4>1. \A s \in Servers : s < r.n + 1 => r.dir \in dirs[s]
        BY <1>1, <3>1, <3>5 DEF Servers
      <4>2. CASE r.n < 3
        <5>1. t.pc = "connect" /\ t.n = r.n + 1
          BY <1>1, <3>5, <4>2, NextTurnFacts
        <5> QED
          BY <1>2, <2>1, <2>2, <3>1, <3>2, <4>1, <5>1
      <4>3. CASE r.n = 3
        <5>1. t.pc = "prompt"
          BY <1>1, <3>5, <4>3, NextTurnFacts
        <5>2. \A s \in Servers : r.dir \in dirs[s]
          BY <4>1, <4>3 DEF Servers
        <5>3. DirsAgree({})
          BY <3>1, <5>2 DEF DirsAgree
        <5> QED
          BY <1>3, <2>2, <5>1, <5>3 DEF Making
      <4> QED
        BY <1>1, <4>2, <4>3
    <3> QED
      BY <2>1, <3>1, <3>3, <3>4, <3>5 DEF Proceeds
  <2> QED
    BY <2>2, <2>3, <2>4
<1> QED
  BY <1>4, <1>5 DEF Act

\* A listing that has one more server in it.
LEMMA NamesNext ==
  ASSUME NEW n \in 0..3, NEW d
  PROVE  NamesBefore(n + 1, d) = NamesBefore(n, d) \cup NamesOn(n, d)
<1>1. ASSUME NEW s \in Servers PROVE s < n + 1 <=> (s < n \/ s = n)
  BY DEF Servers
<1>2. n \in Servers
  BY DEF Servers
<1>3. ASSUME NEW p PROVE p \in NamesBefore(n + 1, d) <=> p \in NamesBefore(n, d) \cup NamesOn(n, d)
  <2>1. p \in NamesOn(n, d) => p \in Files \X Pieces
    BY DEF NamesOn
  <2> QED
    BY <1>1, <1>2, <2>1 DEF NamesBefore
<1> QED
  BY <1>3

LEMMA ListClient ==
  ASSUME StorageInv, GetInv, Calm, ListInv, NoFault, NEW c \in Clients,
         Act(c), ~getResponseTimeout(c)
  PROVE  ListOK(c)'
<1> DEFINE r == cl[c]
           t == cl'[c]
<1> SUFFICES ASSUME t.op = "LIST" PROVE ListOK(c)'
  BY DEF ListOK
<1>1. ListOK(c) /\ UnlistedOK /\ UNCHANGED disk /\ r \in Client /\ r.n \in 0..3
  BY ClientFacts, ClientTouches DEF ListInv, serverVars
<1>2. \A n, d : NamesBefore(n, d)' = NamesBefore(n, d) /\ NamesOn(n, d)' = NamesOn(n, d)
  BY <1>1 DEF NamesBefore, NamesOn
<1>3. CASE Command(c)
  <2>1. t.pc = "connect" /\ t.n = 0 /\ t.listing = {}
    BY <1>3, ListTyped
  <2>2. \A s \in Servers : ~(s < 0)
    BY DEF Servers
  <2>3. NamesBefore(Seen(c), cl[c].dir)' = {}
    BY <2>1, <2>2 DEF Seen, NamesBefore
  <2> QED
    BY <2>1, <2>3 DEF ListOK
<1>4. CASE Step(c)
  <2>1. Proceeds(c) /\ r.pc # "prompt" /\ r.op = "LIST" /\ t.dir = r.dir
    BY <1>4, StepProceeds
  <2>2. Seen(c) = r.n
    BY <2>1 DEF Seen
  <2>3. /\ c \in Authorized =>
             /\ r.listing = NamesBefore(r.n, r.dir)
             /\ r.pc = "recv" /\ conn[r.prim].phase # "handle" =>
                  conn[r.prim].list = NamesOn(r.n, r.dir)
        /\ c \notin Authorized =>
             /\ r.listing = {}
             /\ r.pc = "recv" => conn[r.prim].list = {}
    BY <1>1, <2>1, <2>2 DEF ListOK
  <2>4. ASSUME NEW m, Seen(c)' = m,
               c \in Authorized => t.listing = NamesBefore(m, r.dir),
               c \notin Authorized => t.listing = {},
               t.pc = "recv" => conn'[t.prim].phase = "handle" /\ conn'[t.prim].list = {}
        PROVE  ListOK(c)'
    <3>1. NamesBefore(Seen(c), cl[c].dir)' = NamesBefore(m, r.dir)
      BY <1>1, <2>1, <2>4 DEF NamesBefore, NamesOn
    <3> QED
      BY <2>1, <2>4, <3>1 DEF ListOK
  <2>5. CASE t.n = r.n /\ t.listing = r.listing /\ t.pc \notin {"recv", "prompt"}
    <3>1. Seen(c)' = r.n
      BY <2>5 DEF Seen
    <3> QED
      BY <2>3, <2>4, <2>5, <3>1
  <2>6. CASE /\ t.pc = "recv" /\ t.n = r.n /\ t.listing = r.listing /\ t.prim \in Conns
             /\ conn'[t.prim].phase = "handle"
    <3>1. Seen(c)' = r.n
      BY <2>6 DEF Seen
    <3>2. conn'[t.prim].list = {}
      <4>1. UnlistedOK'
        BY <1>1, UnlistedClient
      <4> QED
        BY <2>6, <4>1 DEF UnlistedOK
    <3> QED
      BY <2>3, <2>4, <2>6, <3>1, <3>2
  <2>7. CASE /\ r.pc = "recv" /\ conn[r.prim].phase = "done"
             /\ t = NextTurn([r EXCEPT !.listing = @ \cup conn[r.prim].list])
    <3> DEFINE u == [r EXCEPT !.listing = @ \cup conn[r.prim].list]
    <3>1. u \in Client /\ u.n = r.n /\ u.listing = r.listing \cup conn[r.prim].list
      <4>1. conn[r.prim] \in Connection
        BY <2>7, Sockets, ClientFacts
      <4> QED
        BY <1>1, <4>1 DEF Client, Connection
    <3> HIDE DEF u
    <3>2. /\ t.listing = u.listing
          /\ \/ t.pc = "connect" /\ t.n = u.n + 1
             \/ t.pc = "prompt" /\ u.n = 3
      BY <2>7, <3>1, NextTurnFacts DEF u
    <3>3. Seen(c)' = r.n + 1
      BY <3>1, <3>2 DEF Seen
    <3>4. c \in Authorized => t.listing = NamesBefore(r.n + 1, r.dir)
      BY <1>1, <2>3, <2>7, <3>1, <3>2, NamesNext
    <3>5. c \notin Authorized => t.listing = {}
      BY <2>3, <2>7, <3>1, <3>2
    <3> QED
      BY <2>4, <3>2, <3>3, <3>4, <3>5
  <2> QED
    BY <2>1, <2>5, <2>6, <2>7 DEF Proceeds
<1> QED
  BY <1>3, <1>4 DEF Act

(***************************************************************************)
(* A PUT into a directory that exists leaves the file there in full.       *)
(***************************************************************************)
LEMMA AllOrNoneClient ==
  ASSUME StorageInv, GetInv, Calm, CopiesOK, Alone, AllOrNone, NEW c \in Clients,
         Act(c), ~getResponseTimeout(c)
  PROVE  AllOrNone'
<1> DEFINE r == cl[c]
           t == cl'[c]
<1> SUFFICES ASSUME NEW f \in Files
             PROVE  (AllThere(f) \/ NoneThere(f) \/ \E d \in Clients : PutInRoom(d, f))'
  BY DEF AllOrNone
<1>1. UNCHANGED disk /\ r \in Client
  BY ClientFacts, ClientTouches DEF serverVars
<1>2. AllThere(f)' = AllThere(f) /\ NoneThere(f)' = NoneThere(f)
  BY <1>1 DEF AllThere, NoneThere
<1>3. AllThere(f) \/ NoneThere(f) \/ PutInRoom(c, f)
  BY DEF AllOrNone, Alone
<1>4. ASSUME PutInRoom(c, f) PROVE AllThere(f) \/ PutInRoom(c, f)'
  <2>1. Putting(c) /\ r.file = f /\ log[r.ver].room /\ r.op = "PUT" /\ c \in Authorized
    BY <1>4 DEF PutInRoom, Putting
  <2>2. Step(c)
    BY <2>1, CommandFacts DEF Act, Putting
  <2>3. /\ Proceeds(c) /\ t.op = r.op /\ t.file = r.file /\ t.ver = r.ver /\ UNCHANGED log
    BY <2>2, StepProceeds
  <2>4. CASE t.pc # "prompt"
    BY <2>1, <2>3, <2>4 DEF PutInRoom, Putting
  <2>5. CASE t.pc = "prompt"
    <3>1. r.pc = "recv2" /\ t = NextTurn(r) /\ conn[r.sec].phase = "done"
      BY <2>1, <2>3, <2>5 DEF Proceeds
    <3>2. r.n = 3
      BY <1>1, <2>5, <3>1, NextTurnFacts
    <3>3. Copied(f, r.ver, 4)
      BY <2>1, <3>1, <3>2, PieceCopied DEF CopiesOK
    <3>4. Whole(r.ver) # Absent
      BY DEF Whole, Absent
    <3>5. log[r.ver].bin \in 0..3
      BY <2>1, ClientFacts, LogFacts DEF CommandOK
    <3>6. \A i \in Pieces : Primary(i, log[r.ver].bin) \in Servers
      BY <3>5, HoldersAreServers DEF Holders
    <3>7. ASSUME NEW i \in Pieces PROVE \E s \in Servers : disk[s][f][i] # Absent
      <4>1. i < 4 /\ Primary(i, log[r.ver].bin) \in Holders(i, log[r.ver].bin)
        BY DEF Pieces, Holders
      <4>2. disk[Primary(i, log[r.ver].bin)][f][i] = Whole(r.ver)
        BY <3>3, <4>1 DEF Copied
      <4> QED
        BY <3>4, <3>6, <4>2
    <3> QED
      BY <3>7 DEF AllThere
  <2> QED
    BY <2>4, <2>5
<1> QED
  BY <1>2, <1>3, <1>4

-----------------------------------------------------------------------------
\* The invariant of LIST, and what it says.

LEMMA ListInit == Init => ListInv
<1> SUFFICES ASSUME Init PROVE ListInv
  OBVIOUS
<1>1. /\ conn = [k \in Conns |-> Free] /\ cl = [c \in Clients |-> Prompt]
      /\ disk = [s \in Servers |-> [f \in Files |-> NoPieces]]
      /\ dirs = [s \in Servers |-> {Root}]
  BY DEF Init, NetInit, ServerInit, ClientInit
<1>2. Free.phase = "free" /\ Prompt.op = "none" /\ Prompt.pc = "prompt"
  BY DEF Free, Prompt
<1>3. UnlistedOK
  BY <1>1, <1>2 DEF UnlistedOK
<1>4. AllOrNone
  BY <1>1 DEF AllOrNone, NoneThere, NoPieces
<1>5. DirsAgree({})
  BY <1>1 DEF DirsAgree
<1>6. \A c \in Clients : DirsOK(c) /\ RoomOK(c) /\ ListOK(c)
  BY <1>1, <1>2, <1>5 DEF DirsOK, Making, RoomOK, Putting, ListOK
<1> QED
  BY <1>3, <1>4, <1>6 DEF ListInv

LEMMA ListStep ==
  StorageInv /\ GetInv /\ CalmInv /\ PutInv /\ Alone /\ ListInv /\ [Next]_vars => ListInv'
<1> SUFFICES ASSUME StorageInv, GetInv, CalmInv, PutInv, Alone, ListInv, [Next]_vars
             PROVE  ListInv'
  OBVIOUS
<1>1. UnlistedOK
  BY DEF ListInv
<1>2. CASE ServerNext
  BY <1>1, <1>2, UnlistedServer, ListServer, AllOrNoneServer DEF ListInv
<1>3. ASSUME NEW c \in Clients, Act(c) PROVE ListInv'
  <2>1. UnlistedOK'
    BY <1>1, <1>3, UnlistedClient
  <2>2. ASSUME NoFault'
        PROVE  AllOrNone' /\ \A d \in Clients : (DirsOK(d) /\ RoomOK(d) /\ ListOK(d))'
    <3>1. ~getResponseTimeout(c) /\ timeouts = 0
      BY <1>3, <2>2, NotLate DEF NoFault
    <3>2. NoFault
      BY <1>3, <2>2, <3>1, ClientTouches DEF NoFault, serverVars
    <3>3. Calm /\ CopiesOK /\ AllOrNone
      BY <3>2 DEF CalmInv, PutInv, ListInv
    <3>4. DirsOK(c)' /\ RoomOK(c)' /\ ListOK(c)'
      BY <1>3, <3>1, <3>2, <3>3, DirsClient, ListClient
    <3>5. AllOrNone'
      BY <1>3, <3>1, <3>3, AllOrNoneClient
    <3> QED
      BY <3>4, <3>5 DEF Alone
  <2> QED
    BY <2>1, <2>2 DEF ListInv
<1>4. CASE UNCHANGED vars
  <2>1. UNCHANGED <<conn, disk, dirs, died, cl, log, timeouts>>
    BY <1>4 DEF vars, serverVars, clientVars
  <2>2. UnlistedOK' /\ NoFault' = NoFault
    BY <1>1, <2>1 DEF UnlistedOK, NoFault
  <2>3. AllOrNone => AllOrNone'
    BY <2>1 DEF AllOrNone, AllThere, NoneThere, PutInRoom, Putting
  <2>4. ASSUME NEW c \in Clients, DirsOK(c), RoomOK(c), ListOK(c)
        PROVE  DirsOK(c)' /\ RoomOK(c)' /\ ListOK(c)'
    <3>1. DirsOK(c)'
      BY <2>1, <2>4 DEF DirsOK, Making, DirsAgree
    <3>2. RoomOK(c)'
      BY <2>1, <2>4 DEF RoomOK, Putting
    <3>3. /\ NamesBefore(Seen(c), cl[c].dir)' = NamesBefore(Seen(c), cl[c].dir)
          /\ NamesOn(cl[c].n, cl[c].dir)' = NamesOn(cl[c].n, cl[c].dir)
      BY <2>1 DEF NamesBefore, NamesOn, Seen
    <3>4. ListOK(c)'
      BY <2>1, <2>4, <3>3 DEF ListOK
    <3> QED
      BY <3>1, <3>2, <3>4
  <2> QED
    BY <2>2, <2>3, <2>4 DEF ListInv
<1> QED
  BY <1>2, <1>3, <1>4 DEF Next, ClientNext, Act

LEMMA ListHolds == Alone /\ Spec => [](StorageInv /\ Alone /\ ListInv)
<1>1. SurviveInv => Alone
  BY DEF SurviveInv
<1> QED
  BY <1>1, SurviveHolds, ListInit, ListStep, PTL DEF Spec

(***************************************************************************)
(* In a history without faults LIST never shows a client that is alone a   *)
(* file in part: MKDIR makes a directory on all four servers before the    *)
(* next command is typed, so that a PUT finds it on all or on none, and    *)
(* what handleList merges from four answers is the tree as it is.  For any *)
(* number of files, directories, connections and commands.                 *)
(***************************************************************************)
THEOREM ListsAreWhole == Alone /\ Spec => []ListIsAllOrNothing
<1>1. StorageInv /\ Alone /\ ListInv => ListIsAllOrNothing
  <2> SUFFICES ASSUME StorageInv, Alone, ListInv, NEW c \in Clients,
                      Reports(c, "LIST", "complete"), NoFault, NEW f \in Files
               PROVE  {i \in Pieces : <<f, i>> \in cl[c].listing} \in {{}, Pieces}
    BY DEF ListIsAllOrNothing
  <2>1. ListOK(c) /\ AllOrNone /\ cl[c].op = "LIST" /\ Seen(c) = 4
    BY DEF ListInv, Reports, Seen
  <2>2. CASE c \notin Authorized
    BY <2>1, <2>2 DEF ListOK
  <2>3. CASE c \in Authorized
    <3>1. cl[c].listing = NamesBefore(4, cl[c].dir)
      BY <2>1, <2>3 DEF ListOK
    <3>2. ASSUME NEW i \in Pieces
          PROVE  <<f, i>> \in cl[c].listing <=>
                   /\ DirOf[f] = cl[c].dir
                   /\ \E s \in Servers : disk[s][f][i] # Absent
      <4>1. <<f, i>> \in Files \X Pieces /\ \A s \in Servers : s < 4
        BY DEF Servers
      <4> QED
        BY <3>1, <4>1 DEF NamesBefore, NamesOn
    <3>3. AllThere(f) \/ NoneThere(f)
      BY <2>1 DEF AllOrNone, PutInRoom, Putting, Alone
    <3> QED
      BY <3>2, <3>3 DEF AllThere, NoneThere
  <2> QED
    BY <2>2, <2>3
<1> QED
  BY <1>1, ListHolds, PTL
=============================================================================
