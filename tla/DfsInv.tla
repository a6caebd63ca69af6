------------------------------- MODULE DfsInv -------------------------------
(***************************************************************************)
(* The inductive invariant of Dfs, part by part.                           *)
(***************************************************************************)
EXTENDS Dfs

\* A free slot is exactly Free, and a live thread has a client's end.
SlotsOK ==
  \A k \in Conns :
    /\ conn[k].phase = "free" => conn[k] = Free
    /\ conn[k].phase # "free" => conn[k].peer # "none"
    /\ conn[k].phase \in {"done", "reset", "cut"} => conn[k].peer = "open"

\* The command of client c is one that startPut or startGet could begin.
CommandOK(c) ==
  /\ cl[c].op \in {"PUT", "GET"} => cl[c].file \in Files
  /\ cl[c].op = "PUT" =>
       /\ cl[c].ver \in DOMAIN log
       /\ log[cl[c].ver].file = cl[c].file
       /\ log[cl[c].ver].auth = (c \in Authorized)
  /\ cl[c].pc \in {"connect2", "send2", "recv2"} => cl[c].op = "PUT"
  /\ cl[c].pc \notin {"prompt", "gone"} => cl[c].op # "none"

\* Client c holds connection k, and it leads to server s.
Holds(c, k, s) ==
  /\ conn[k].cli = c
  /\ conn[k].peer = "open"
  /\ conn[k].srv = s

\* The sockets of client c are its own, and lead where the command wants.
SocketsOK(c) ==
  /\ cl[c].prim # NoSock => Holds(c, cl[c].prim, Target(c))
  /\ cl[c].sec # NoSock =>
       /\ cl[c].op = "PUT"
       /\ Holds(c, cl[c].sec, Secondary(cl[c].n, log[cl[c].ver].bin))
       /\ cl[c].sec # cl[c].prim
  /\ cl[c].pc = "recv" => cl[c].prim # NoSock
  /\ cl[c].pc = "recv2" => cl[c].sec # NoSock
  /\ cl[c].pc \in {"prompt", "connect", "gone"} =>
       cl[c].prim = NoSock /\ cl[c].sec = NoSock
  /\ cl[c].pc = "connect2" => cl[c].sec = NoSock

ClientsOK == \A c \in Clients : CommandOK(c) /\ SocketsOK(c)

\* A request that a thread is handling names a file that exists for it, and
\* the request of a PUT was sent to a server that the PUT chose.
RequestOK(r) ==
  /\ r.req.method \in {"PUT", "GET"} => r.req.file \in Files
  /\ r.req.method = "PUT" =>
       /\ r.req.ver \in DOMAIN log
       /\ log[r.req.ver].file = r.req.file
       /\ log[r.req.ver].auth = r.req.auth
       /\ r.srv \in Holders(r.req.piece, log[r.req.ver].bin)
  /\ r.phase = "writing" => r.req.method = "PUT" /\ r.req.auth
  /\ r.phase = "reading" => r.req.method = "GET" /\ r.req.auth

RequestsOK == \A k \in Conns : RequestOK(conn[k])

StorageInv ==
  /\ TypeOK
  /\ SlotsOK
  /\ ClientsOK
  /\ RequestsOK
  /\ StoredWhereItBelongs
  /\ UnfinishedHasWriter

-----------------------------------------------------------------------------
\* What a client and the thread at the other end of its connection know of
\* each other, under any faults.

\* The request of client c was sent on connection k, or the server has died.
Asked(c, k) ==
  \/ conn[k].phase = "reset"
  \/ conn[k].phase # "request" /\ conn[k].req = RequestOf(c)

\* No request was sent on connection k yet.
Unasked(k) == conn[k].phase \in {"request", "reset"}

ExchangeOK(c) ==
  /\ cl[c].prim # NoSock /\ cl[c].pc \in {"connect2", "send"} => Unasked(cl[c].prim)
  /\ cl[c].sec # NoSock /\ cl[c].pc \in {"send", "recv", "send2"} => Unasked(cl[c].sec)
  /\ cl[c].pc = "recv" => Asked(c, cl[c].prim)
  /\ cl[c].pc = "recv2" => Asked(c, cl[c].sec)

\* Some accepted PUT of f chose server s for piece i.
Placed(s, f, i) == \E v \in PutsOf(f) : s \in Holders(i, log[v].bin)

\* What a thread has found so far belongs on its server, a file that it is
\* reading has data, and an answer SUCCESS to a GET has two pieces in it.
AnswerOK(r) ==
  /\ r.phase = "request" =>
       /\ r.req = NoRequest /\ r.reply = "none" /\ r.found = NoPieces
       /\ r.i = 0 /\ ~r.flushed
  /\ r.phase \in {"handle", "reading"} => r.reply = "none"
  /\ r.phase = "reading" => Readable(r.found[r.i])
  /\ r.req.method = "GET" =>
       /\ r.reply = "ok" => r.req.auth /\ GetDone(r.found)
       /\ \A i \in Pieces : r.found[i] # Absent => Placed(r.srv, r.req.file, i)

\* Client c has two pieces of its file from server s.
Brought(c, s) ==
  /\ c \in Authorized
  /\ \E i, j \in Pieces :
       /\ i # j
       /\ cl[c].pieces[i] # Absent /\ Placed(s, cl[c].file, i)
       /\ cl[c].pieces[j] # Absent /\ Placed(s, cl[c].file, j)

\* Where handleGet is in its order of servers says which have delivered and
\* which have not.
TurnOK(c) ==
  /\ cl[c].n = 0 => cl[c].failed = {}
  /\ cl[c].n = 2 => cl[c].failed = {} /\ Brought(c, 0)
  /\ cl[c].n \in {1, 3} => cl[c].failed \in {{0}, {2}}
  /\ cl[c].n = 3 => Brought(c, 1)

ResultOK(c) ==
  /\ cl[c].outcome = "complete" =>
       (Brought(c, 0) /\ Brought(c, 2)) \/ (Brought(c, 1) /\ Brought(c, 3))
  /\ cl[c].outcome = "incomplete" =>
       \E s \in Servers : {s, (s + 1) % 4} \subseteq cl[c].failed

GetOK(c) ==
  cl[c].op = "GET" =>
    IF cl[c].pc = "prompt" THEN ResultOK(c) ELSE TurnOK(c)

ExchangesOK == \A c \in Clients : ExchangeOK(c)
AnswersOK   == \A k \in Conns : AnswerOK(conn[k])
GetsOK      == \A c \in Clients : GetOK(c)

GetInv == ExchangesOK /\ AnswersOK /\ GetsOK

-----------------------------------------------------------------------------
\* The system without faults.

\* The thread of connection k has a client that waits for it.
Attended(k) ==
  /\ conn[k].phase \notin {"reset", "cut"}
  /\ conn[k].peer = "open"
  /\ \E c \in Clients : conn[k].cli = c /\ k \in {cl[c].prim, cl[c].sec}

\* Client c has the connections it wants.
Connected(c) ==
  /\ cl[c].pc # "spin"
  /\ cl[c].pc \notin {"prompt", "gone", "connect"} => cl[c].prim # NoSock
  /\ cl[c].pc \in {"send", "recv", "send2", "recv2"} /\ cl[c].op = "PUT" =>
       cl[c].sec # NoSock
  /\ cl[c].pc \in {"send2", "recv2"} => conn[cl[c].prim].phase = "done"

Calm ==
  /\ up = Servers
  /\ \A k \in Conns : conn[k].phase # "free" => Attended(k)
  /\ \A c \in Clients : Connected(c)

CalmInv ==
  /\ crashes = 0 /\ timeouts = 0 => died = {}
  /\ NoFault => Calm

-----------------------------------------------------------------------------
\* One user whom the servers know stores files; any number of others read.

OneWriter ==
  \A c, d \in Authorized :
    "PUT" \in Workload[c] /\ "PUT" \in Workload[d] => c = d

\* What is always true of the PUTs in the log and of the requests they make.
HasLast(f) ==
  PutsOf(f) # {} => \E v \in PutsOf(f) : \A w \in PutsOf(f) : w <= v

LogOK ==
  /\ \A f \in Files : HasLast(f)
  /\ \A v \in stored : log[v].auth
  /\ \A v \in DOMAIN log :
       log[v].room => \A s \in Servers : DirOf[log[v].file] \in dirs[s]

TypedOK(c) ==
  cl[c].op = "PUT" => "PUT" \in Workload[c] /\ cl[c].dir = DirOf[cl[c].file]

DirOK(r) ==
  /\ r.req.method = "PUT" => r.req.dir = DirOf[r.req.file]
  /\ r.phase \in {"handle", "reading"} => ~r.flushed

\* Client c is in the middle of a PUT that the servers accept, and that PUT is
\* the last of all.
Putting(c) == c \in Authorized /\ cl[c].op = "PUT" /\ cl[c].pc # "prompt"

LatestOK(c) ==
  Putting(c) =>
    /\ cl[c].ver \notin stored
    /\ \A w \in DOMAIN log : log[w].auth => w <= cl[c].ver

TypedInv ==
  /\ LogOK
  /\ \A c \in Clients : TypedOK(c) /\ LatestOK(c)
  /\ \A k \in Conns : DirOK(conn[k])

\* What the thread of a PUT has made of its piece file.
WriterOK(r) ==
  LET x == disk[r.srv][r.req.file][r.req.piece]
  IN /\ r.phase = "writing" => x = IF r.flushed THEN Part(r.req.ver) ELSE Empty
     /\ r.phase \in {"header", "body", "done"} /\ log[r.req.ver].room =>
          x = Whole(r.req.ver)

\* How much of version v of file f is there once n pieces were stored.
Copied(f, v, n) ==
  \A i \in Pieces : i < n => \A s \in Holders(i, log[v].bin) : disk[s][f][i] = Whole(v)

PutOK(c) ==
  Putting(c) =>
    /\ log[cl[c].ver].room => Copied(cl[c].file, cl[c].ver, cl[c].n)
    /\ log[cl[c].ver].room /\ cl[c].pc \in {"send2", "recv2"} =>
         disk[Target(c)][cl[c].file][cl[c].n] = Whole(cl[c].ver)
    /\ cl[c].pc = "recv" => WriterOK(conn[cl[c].prim])
    /\ cl[c].pc = "recv2" => WriterOK(conn[cl[c].sec])

\* A stored version that is the last of its file is there in full.
LastCopied ==
  \A v \in stored :
    (\A w \in PutsOf(log[v].file) : w <= v) => Copied(log[v].file, v, 4)

\* x is of one version, none of the versions in S is newer, and x is only in
\* part if it is newer than they are.
FreshSince(x, S) ==
  \/ x.kind = "whole" /\ \A v \in S : x.ver >= v
  \/ x.kind = "part" /\ \A v \in S : x.ver > v

DiskFresh ==
  \A f \in Files, s \in Servers, i \in Pieces :
    SameBin(f) /\ Readable(disk[s][f][i]) => FreshSince(disk[s][f][i], StoredOf(f))

\* What was read of the pieces in I is no older than S.
AllSince(pieces, I, puts, S) ==
  \A i \in I : pieces[i] # Absent => ReadSince(pieces[i], puts, S)

\* What was read so far of a piece file is of one PUT, and no older than S.
BegunSince(y, puts, S) ==
  /\ y.kind \in {"part", "whole"}
  /\ y.ver \in puts
  /\ \A v \in S : y.ver >= v

\* The same of all that the thread of r has read.
SearchSince(r, puts, S) ==
  IF r.phase = "reading"
  THEN /\ AllSince(r.found, Pieces \ {r.i}, puts, S)
       /\ BegunSince(r.found[r.i], puts, S)
  ELSE AllSince(r.found, Pieces, puts, S)

ReaderOK(c) ==
  cl[c].op = "GET" =>
    /\ cl[c].since \subseteq StoredOf(cl[c].file)
    /\ SameBin(cl[c].file) =>
         /\ AllSince(cl[c].pieces, Pieces, PutsOf(cl[c].file), cl[c].since)
         /\ cl[c].pc = "recv" =>
              SearchSince(conn[cl[c].prim], PutsOf(cl[c].file), cl[c].since)

CopiesOK == LastCopied /\ DiskFresh /\ \A c \in Clients : PutOK(c) /\ ReaderOK(c)

PutInv ==
  /\ OneWriter
  /\ TypedInv
  /\ NoFault => CopiesOK

-----------------------------------------------------------------------------
\* One client, alone.

Alone == \A c, d \in Clients : c = d

\* What is known of deaths: a server that is down, and one whose death a
\* client can still see, has died.
DeathsOK ==
  /\ Servers \ up \subseteq died
  /\ \A k \in Conns : conn[k].phase \in {"reset", "cut"} => conn[k].srv \in died

\* Without late answers a request is only handled while its client waits for
\* the answer.
WaitedFor(k) == \E c \in Clients : Receiving(c) /\ Sock(c) = k

HandledOK ==
  timeouts = 0 =>
    \A k \in Conns : conn[k].phase \in {"handle", "reading", "writing"} => WaitedFor(k)

\* Every piece of version v is on the servers that it was sent to, in whatever
\* state.
Remains(v) ==
  \A i \in Pieces : \A s \in Holders(i, log[v].bin) : disk[s][log[v].file][i] # Absent

StoredOK ==
  /\ \A v \in stored : Remains(v)
  /\ \A v \in DOMAIN log : log[v].auth => Clients \subseteq Authorized

\* The thread of server s that client c waits for has found every piece that
\* it has passed and that is there, and is reading one that it has found; its
\* answer, if it is ready, is SUCCESS.
SearchOK(c) ==
  LET r == conn[cl[c].prim]
  IN /\ r.phase \in {"handle", "reading"} =>
          \A j \in Pieces :
            j < r.i /\ disk[r.srv][cl[c].file][j] # Absent => r.found[j] # Absent
     /\ r.phase \in {"header", "body", "done"} => r.reply = "ok"

\* A GET of a file that was stored when it began.
GetsStored(c) == cl[c].op = "GET" /\ cl[c].since # {} /\ timeouts = 0

SurvivesOK(c) ==
  /\ cl[c].op = "GET" => cl[c].since \subseteq StoredOf(cl[c].file)
  /\ GetsStored(c) => cl[c].failed \subseteq died
  /\ GetsStored(c) /\ cl[c].pc = "recv" /\ conn[cl[c].prim].srv \notin died => SearchOK(c)

SurviveInv ==
  /\ Alone
  /\ DeathsOK
  /\ HandledOK
  /\ StoredOK
  /\ \A c \in Clients : SurvivesOK(c)

\* The directories of the four servers are the same, but for the one that a
\* MKDIR is making.
DirsAgree(S) == \A s, t \in Servers : dirs[s] \ S = dirs[t] \ S

Making(c) == cl[c].op = "MKDIR" /\ cl[c].pc # "prompt" /\ c \in Authorized

DirsOK(c) ==
  IF Making(c)
  THEN /\ DirsAgree({cl[c].dir})
       /\ \A s \in Servers : s < cl[c].n => cl[c].dir \in dirs[s]
       /\ cl[c].pc = "recv" /\ conn[cl[c].prim].phase # "handle" =>
            cl[c].dir \in dirs[cl[c].n]
  ELSE DirsAgree({})

\* If the directory of a PUT that is under way is there now, it was there when
\* the PUT was typed.
RoomOK(c) ==
  Putting(c) =>
    \A s \in Servers : DirOf[cl[c].file] \in dirs[s] => log[cl[c].ver].room

\* All pieces of f are on some server, or none is on any.
AllThere(f)  == \A i \in Pieces : \E s \in Servers : disk[s][f][i] # Absent
NoneThere(f) == \A i \in Pieces, s \in Servers : disk[s][f][i] = Absent

PutInRoom(c, f) == Putting(c) /\ cl[c].file = f /\ log[cl[c].ver].room

AllOrNone ==
  \A f \in Files :
    AllThere(f) \/ NoneThere(f) \/ \E c \in Clients : PutInRoom(c, f)

\* The names in directory d of server s, and of the servers before n.
NamesOn(s, d) ==
  {p \in Files \X Pieces : DirOf[p[1]] = d /\ disk[s][p[1]][p[2]] # Absent}

NamesBefore(n, d) ==
  {p \in Files \X Pieces : \E s \in Servers : s < n /\ p \in NamesOn(s, d)}

Seen(c) == IF cl[c].pc = "prompt" THEN 4 ELSE cl[c].n

ListOK(c) ==
  cl[c].op = "LIST" =>
    IF c \in Authorized
    THEN /\ cl[c].listing = NamesBefore(Seen(c), cl[c].dir)
         /\ cl[c].pc = "recv" /\ conn[cl[c].prim].phase # "handle" =>
              conn[cl[c].prim].list = NamesOn(cl[c].n, cl[c].dir)
    ELSE /\ cl[c].listing = {}
         /\ cl[c].pc = "recv" => conn[cl[c].prim].list = {}

UnlistedOK ==
  \A k \in Conns : conn[k].phase \in {"request", "handle", "reading"} => conn[k].list = {}

ListInv ==
  /\ UnlistedOK
  /\ NoFault =>
       /\ AllOrNone
       /\ \A c \in Clients : DirsOK(c) /\ RoomOK(c) /\ ListOK(c)
=============================================================================
