----------------------------- MODULE WebServer ------------------------------
(***************************************************************************)
(* The web server of PA2 (webServer.cpp): the accept loop of main, one     *)
(* connection_handler thread per connection with keep-alive and pipelined  *)
(* requests, and the shutdown after Ctrl+C.  A client is what its end of   *)
(* the connection does.                                                    *)
(***************************************************************************)
EXTENDS Integers, Sequences, FiniteSets

CONSTANTS
  Conns,         \* connections, each with the thread that serves it
  Wants,         \* per connection, the requests its client may send
  MaxRequests,   \* bound: per connection, the requests sent on it
  MaxStalls,     \* bound: sends that time out
  MaxFiles,      \* files the process can have open at once
  BufSize,       \* MSG_SIZE, the buffer a file is read through
  TagLen,        \* the length of </body>
  Rude,          \* bound: connections on which requests come in parts, sends time
                 \* out or the client hangs up
  MaxStray,      \* bound: bytes behind a full buffer up to the next NUL
  Patient        \* clients pipeline only what the server takes from a pipeline

\* What parseRequest makes of a request: the method, an error or not, HTTP/1.1
\* or not, the Connection header, and the file of the URI with its size and the
\* places at which the file contains </body>.
Request ==
  [method : {"GET", "POST", "OTHER"}, error : BOOLEAN, v11 : BOOLEAN,
   keepalive : BOOLEAN, file : {"none", "html", "binary"}, size : Nat, tags : SUBSET Nat]

ASSUME WebAssumption ==
  /\ IsFiniteSet(Conns)
  /\ \A c \in Conns : Wants[c] \subseteq Request
  /\ MaxRequests \in [Conns -> Nat]
  /\ MaxStalls \in Nat
  /\ MaxFiles \in Nat
  /\ BufSize \in Nat \ {0}
  /\ TagLen \in Nat \ {0}
  /\ MaxStray \in Nat
  /\ Rude \subseteq Conns
  /\ Patient \in BOOLEAN

VARIABLES
  main,           \* where the main thread is
  done,           \* set by ctrlc_handler
  thread_count,
  files,          \* the number of files the process has open
  stalls,         \* how many sends have timed out
  conn            \* the connections

vars == <<main, done, thread_count, files, stalls, conn>>

\* What recv at the end of the client's stream is parsed to: no method, an error.
NoRequest ==
  [method |-> "OTHER", error |-> TRUE, v11 |-> FALSE, keepalive |-> FALSE,
   file |-> "none", size |-> 0, tags |-> {}]

\* asked: all the client has sent; got: how many of these recv has returned
\* whole, part: what became of the next one if recv has returned a part of it;
\* at, last: the request being answered and the last one of its pipeline.
\* read: how much of the file has been read; buf: the bytes at pbuf, by their
\* place in the file; pos, rest: pbuf and file_read_size; body: the bytes sent,
\* as long as no send has timed out.
NoConn ==
  [pc |-> "none", peer |-> "open", asked |-> <<>>, got |-> 0, part |-> "none",
   at |-> 0, last |-> 0, cur |-> NoRequest, read |-> 0, buf |-> <<>>, pos |-> 0,
   rest |-> 0, body |-> <<>>, stalled |-> FALSE, answers |-> <<>>]

\* The thread of such a connection has counted itself and not yet uncounted.
Counted == {"recv", "reply", "body", "close"}

\* The socket of such a connection is open in the server.
Open == {"backlog", "created", "giveup"} \cup Counted

Init ==
  /\ main = "test"
  /\ done = FALSE
  /\ thread_count = 0
  /\ files = 0
  /\ stalls = 0
  /\ conn = [c \in Conns |-> NoConn]

\* What is left of a connection when its thread is gone.
Over(x, pc) ==
  [NoConn EXCEPT !.pc = pc, !.asked = x.asked, !.answers = x.answers,
                 !.stalled = x.stalled, !.part = x.part]

\* The kernel closes what belonged to the connections in cs.
CutOff(cs) ==
  conn' = [c \in Conns |->
            IF c \in cs /\ conn[c].pc \in Open
            THEN Over(conn[c], "cut") ELSE conn[c]]

Running == main \notin {"exited", "killed"}

-----------------------------------------------------------------------------
\* The main thread.

\* !done, the first half of the loop condition.
testDone ==
  /\ main = "test"
  /\ ~done
  /\ main' = "tested"
  /\ UNCHANGED <<done, thread_count, files, stalls, conn>>

\* The second half: main is in accept, where a signal interrupts it.
callAccept ==
  /\ main = "tested"
  /\ main' = "accept"
  /\ UNCHANGED <<done, thread_count, files, stalls, conn>>

\* accept returns a connection and the thread for it is created.
accept(c) ==
  /\ main = "accept"
  /\ conn[c].pc = "backlog"
  /\ main' = "test"
  /\ conn' = [conn EXCEPT ![c].pc = "created"]
  /\ UNCHANGED <<done, thread_count, files, stalls>>

\* SIGINT: ctrlc_handler runs; an accept that waits returns with EINTR and the
\* loop continues with its test.
ctrlc_handler ==
  /\ Running
  /\ done' = TRUE
  /\ main' = IF main = "accept" THEN "test" ELSE main
  /\ UNCHANGED <<thread_count, files, stalls, conn>>

\* The loop ends and closes the listening socket.
closeListening ==
  /\ main = "test"
  /\ done
  /\ main' = "wait"
  /\ CutOff({c \in Conns : conn[c].pc = "backlog"})
  /\ UNCHANGED <<done, thread_count, files, stalls>>

\* No thread is left to wait for: main returns, which ends the process.
exit ==
  /\ main = "wait"
  /\ thread_count <= 0
  /\ main' = "exited"
  /\ CutOff(Conns)
  /\ UNCHANGED <<done, thread_count, files, stalls>>

mainStep ==
  testDone \/ callAccept \/ closeListening \/ exit \/ \E c \in Conns : accept(c)

-----------------------------------------------------------------------------
\* connection_handler, for the connection c.

\* The server goes on in connection_handler with the record x for c.
Goes(c, x) ==
  /\ conn' = [conn EXCEPT ![c] = x]
  /\ UNCHANGED <<main, done>>

\* Mutant of threadStarts: the thread forgets to count itself.
threadStartsUncounted(c) ==
  /\ conn[c].pc = "created"
  /\ Goes(c, [conn[c] EXCEPT !.pc = "recv"])
  /\ UNCHANGED <<thread_count, files, stalls>>

threadStarts(c) ==
  /\ conn[c].pc = "created"
  /\ thread_count' = thread_count + 1
  /\ Goes(c, [conn[c] EXCEPT !.pc = "recv"])
  /\ UNCHANGED <<files, stalls>>

\* parseRequest takes b for a pipelined request behind a.
Chained(a, b) ==
  ~a.error /\ a.method = "GET" /\ a.v11 /\ a.keepalive /\ b.method = "GET"

\* Mutant of Pipeline: one request too many is taken for pipelined.
PipelineLong(s, i, j) == j - i + 2

\* Mutant of Pipeline: only the first request of a buffer is kept.
PipelineFirst(s, i, j) == 1

\* How many of the requests i..j of the stream s one call of parseRequest takes.
\* What stands behind them in the buffer is lost.
Pipeline(s, i, j) ==
  CHOOSE n \in 1 .. j - i + 1 :
    /\ \A k \in i .. i + n - 2 : Chained(s[k], s[k + 1])
    /\ i + n - 1 < j => ~Chained(s[i + n - 1], s[i + n])

\* What parseRequest makes of a request of which recv returned the first part:
\* an error without its version, a request that closes the connection without
\* its Connection header, or the request with at most some of its data missing.
\* Behind a pipeline less than GET is not looked at.  The rest, when it comes,
\* starts with no method and is an error.
Parts == {"error", "closing", "whole", "unseen"}

Cut(r, part) ==
  CASE part \in {"error", "rest"} -> [r EXCEPT !.error = TRUE]
    [] part = "closing"           -> [r EXCEPT !.keepalive = FALSE]
    [] OTHER                      -> r

\* The i-th request as parseRequest sees it.
Parsed(x, i) == IF i = x.got + 1 THEN Cut(x.asked[i], x.part) ELSE x.asked[i]

\* How many requests parseRequest has been given at least the beginning of.
Seen(x) == x.got + (IF x.part \in {"none", "unseen"} THEN 0 ELSE 1)

\* n requests are parsed and, if part says so, the beginning of another one.
recvParsed(x, n, part) ==
  LET y == [x EXCEPT !.got = @ + n, !.part = part]
  IN [y EXCEPT !.pc = "reply", !.at = x.got + 1, !.cur = Parsed(y, x.got + 1),
               !.last = x.got + Pipeline(x.asked, x.got + 1, Seen(y))]

\* recv returns what has arrived, or as much of it as its buffer takes: some
\* requests and perhaps the first part of the next one.
recvRequests(c, n, part) ==
  LET x == conn[c]
  IN /\ x.pc = "recv"
     /\ x.part = "none"
     /\ part # "none" => c \in Rude
     /\ n > 0 \/ part \in Parts \ {"unseen"}
     /\ x.got + n + (IF part = "none" THEN 0 ELSE 1) <= Len(x.asked)
     /\ Goes(c, recvParsed(x, n, part))
     /\ UNCHANGED <<thread_count, files, stalls>>

\* recv returns the rest of a request, with or without more requests: all that
\* is in the buffer is one error.
recvRest(c) ==
  LET x == conn[c]
      y == [x EXCEPT !.part = "rest"]
  IN /\ x.pc = "recv"
     /\ x.part # "none"
     /\ Goes(c, [y EXCEPT !.pc = "reply", !.at = x.got + 1, !.last = x.got + 1,
                          !.cur = Parsed(y, x.got + 1)])
     /\ UNCHANGED <<thread_count, files, stalls>>

\* All that the client has sent is read, or the rest of it is not here yet.
AllRead(x) == x.got + (IF x.part = "none" THEN 0 ELSE 1) = Len(x.asked)

\* recv returns 0: an empty request is parsed.
recvNothing(c) ==
  LET x == conn[c]
  IN /\ x.pc = "recv"
     /\ x.peer = "closed"
     /\ AllRead(x)
     /\ Goes(c, [x EXCEPT !.pc = "reply", !.at = 0, !.last = 0, !.cur = NoRequest])
     /\ UNCHANGED <<thread_count, files, stalls>>

\* Mutant of recvFailed: the socket has no receive timeout.
recvFailedOnReset(c) ==
  LET x == conn[c]
  IN /\ x.pc = "recv"
     /\ x.peer = "reset"
     /\ AllRead(x)
     /\ thread_count' = thread_count - 1
     /\ Goes(c, [x EXCEPT !.pc = "giveup"])
     /\ UNCHANGED <<files, stalls>>

\* recv returns -1, after KeepaliveTime or because the client has reset the
\* connection: the thread uncounts itself before it closes the socket.
recvFailed(c) ==
  LET x == conn[c]
  IN /\ x.pc = "recv"
     /\ x.peer # "closed"
     /\ AllRead(x)
     /\ thread_count' = thread_count - 1
     /\ Goes(c, [x EXCEPT !.pc = "giveup"])
     /\ UNCHANGED <<files, stalls>>

giveUp(c) ==
  /\ conn[c].pc = "giveup"
  /\ Goes(c, Over(conn[c], "ended"))
  /\ UNCHANGED <<thread_count, files, stalls>>

\* keepalive of the loop.  parseRequest returns an error before it has read the
\* headers.
KeepAlive(r) == ~r.error /\ r.keepalive

\* The buffer is done with.
Emptied(x) == [x EXCEPT !.body = <<>>, !.read = 0, !.buf = <<>>, !.pos = 0, !.rest = 0]

\* Mutant of Continue: requestptr is not moved to the next pipelined request.
ContinueSame(x) ==
  IF ~KeepAlive(x.cur) THEN [x EXCEPT !.pc = "close"]
  ELSE IF x.at = x.last THEN [x EXCEPT !.pc = "recv"]
  ELSE [x EXCEPT !.pc = "reply"]

\* The end of the loop's body: the next pipelined request, the next recv, or
\* the end of the loop.
Continue(x) ==
  IF ~KeepAlive(x.cur) THEN [x EXCEPT !.pc = "close"]
  ELSE IF x.at = x.last THEN [x EXCEPT !.pc = "recv"]
  ELSE [x EXCEPT !.at = x.at + 1, !.cur = Parsed(x, x.at + 1), !.pc = "reply"]

\* The client has its answer to the current request.
Answered(x, kind) ==
  IF x.at = 0 THEN x
  ELSE [x EXCEPT !.answers = Append(@, [req |-> x.at, kind |-> kind, body |-> x.body])]

\* An answer of one send, which is lost when it times out.
Message(x, kind, late) == Continue(IF late THEN x ELSE Answered(x, kind))

\* Bytes of an answer are places in the file, or one of these: the data of a
\* POST, which are one unit here, and what stands behind a buffer in memory.
Data == -1
Stray == -2

\* n bytes of the file from place b on, and k bytes behind them in memory.
Text(b, n, k) == [i \in 1 .. n + k |-> IF i <= n THEN b + i - 1 ELSE Stray]

\* The data are inserted behind the first p bytes of the text.
WithData(text, p) ==
  [i \in 1 .. Len(text) + 1 |->
     IF i <= p THEN text[i] ELSE IF i = p + 1 THEN Data ELSE text[i - 1]]

\* How much of the file fread returns behind its first b bytes.
Chunk(r, b) == IF r.size - b > BufSize THEN BufSize ELSE r.size - b

\* The places at which such a chunk holds </body> from its first to its last byte.
Tags(r, b) == {p \in 0 .. Chunk(r, b) - TagLen : b + p \in r.tags}

\* Where find sees </body> in a chunk with k stray bytes behind it: at the first
\* place in the chunk, or else perhaps in or across the stray bytes.
Places(r, b, k) ==
  IF Tags(r, b) # {} THEN {p \in Tags(r, b) : \A q \in Tags(r, b) : p <= q}
  ELSE IF k = 0 THEN {}
  ELSE {p \in 0 .. Chunk(r, b) + k - 1 : p + TagLen > Chunk(r, b)}

\* A buffer that is not full ends in a NUL; the string made of a full one goes on
\* in memory up to the next NUL.
Strays(r, b) == 0 .. (IF Chunk(r, b) = BufSize THEN MaxStray ELSE 0)

\* What is sent of a chunk: the chunk itself, or for a POST the string with the
\* data when </body> is found in it.
Buffers(r, b) ==
  (IF r.method = "POST" /\ Tags(r, b) # {} THEN {} ELSE {Text(b, Chunk(r, b), 0)})
  \cup
  (IF r.method = "POST"
   THEN UNION {{WithData(Text(b, Chunk(r, b), k), p) : p \in Places(r, b, k)} :
               k \in Strays(r, b)}
   ELSE {})

\* The next chunk has been read, and buf is to be sent of it.
Filled(x, buf) ==
  [x EXCEPT !.pc = "body", !.read = @ + Chunk(x.cur, @), !.buf = buf,
            !.pos = 0, !.rest = Len(buf)]

\* The file is opened.
Found(r) == r.file # "none" /\ files < MaxFiles

\* The one send of an error, a 404 or a 405, or the headers of a file.  It may
\* time out (late), which is only reported.  The file of a 405 stays open.
reply(c, late) ==
  LET x == [conn[c] EXCEPT !.stalled = @ \/ late]
  IN /\ x.pc = "reply"
     /\ x.peer # "reset"
     /\ late => c \in Rude /\ stalls < MaxStalls
     /\ stalls' = IF late THEN stalls + 1 ELSE stalls
     /\ \/ /\ x.cur.error
           /\ Goes(c, Message(x, "error", late))
           /\ UNCHANGED files
        \/ /\ ~x.cur.error /\ ~Found(x.cur)
           /\ Goes(c, Message(x, "404", late))
           /\ UNCHANGED files
        \/ /\ ~x.cur.error /\ Found(x.cur)
           /\ x.cur.method = "POST" /\ x.cur.file # "html"
           /\ Goes(c, Message(x, "405", late))
           /\ files' = files + 1
        \/ /\ ~x.cur.error /\ Found(x.cur)
           /\ x.cur.method = "GET" \/ x.cur.file = "html"
           /\ x.cur.size = 0
           /\ Goes(c, Continue(Answered(x, "file")))
           /\ UNCHANGED files
        \/ /\ ~x.cur.error /\ Found(x.cur)
           /\ x.cur.method = "GET" \/ x.cur.file = "html"
           /\ x.cur.size > 0
           /\ \E buf \in Buffers(x.cur, 0) : Goes(c, Filled(x, buf))
           /\ files' = files + 1
     /\ UNCHANGED thread_count

\* The byte at pbuf + p, which after a timeout may be one outside the buffer.
Byte(x, p) == IF p \in 0 .. Len(x.buf) - 1 THEN x.buf[p + 1] ELSE Stray

\* Mutant of Sent: every send starts at the beginning of the buffer.
SentAgain(x, n) ==
  [x EXCEPT !.body = IF x.stalled THEN @ ELSE @ \o [i \in 1..n |-> Byte(x, i - 1)],
            !.pos = @ + n, !.rest = @ - n]

\* send has taken n bytes from pbuf on.
Sent(x, n) ==
  [x EXCEPT !.body = IF x.stalled THEN @ ELSE @ \o [i \in 1..n |-> Byte(x, x.pos + i - 1)],
            !.pos = @ + n, !.rest = @ - n]

\* Mutant of fclose: the file stays open.
fcloseForgotten == UNCHANGED files

\* The file is closed behind its last byte.
fclose == files' = files - 1

\* A send in the loops of a file's body, with the next fread or the end of the
\* answer when the buffer has been sent.
sendBody(c, n) ==
  LET x == conn[c]
      y == Sent(x, n)
  IN /\ x.pc = "body"
     /\ x.peer # "reset"
     /\ \/ n < x.rest /\ Goes(c, y) /\ UNCHANGED files
        \/ /\ n = x.rest /\ x.read < x.cur.size
           /\ \E buf \in Buffers(x.cur, x.read) : Goes(c, Filled(y, buf))
           /\ UNCHANGED files
        \/ /\ n = x.rest /\ x.read >= x.cur.size
           /\ Goes(c, Continue(Emptied(Answered(y, "file"))))
           /\ fclose
     /\ UNCHANGED <<thread_count, stalls>>

\* send times out: its result -1 is added to pbuf and subtracted from the rest.
sendBodyLate(c) ==
  LET x == conn[c]
  IN /\ c \in Rude
     /\ x.pc = "body"
     /\ x.peer # "reset"
     /\ stalls < MaxStalls
     /\ stalls' = stalls + 1
     /\ Goes(c, [x EXCEPT !.pos = @ - 1, !.rest = @ + 1, !.body = <<>>,
                          !.stalled = TRUE])
     /\ UNCHANGED <<thread_count, files>>

\* send on a connection that the client has reset: SIGPIPE ends the process.
sendSigpipe(c) ==
  /\ conn[c].pc \in {"reply", "body"}
  /\ conn[c].peer = "reset"
  /\ main' = "killed"
  /\ CutOff(Conns)
  /\ UNCHANGED <<done, thread_count, files, stalls>>

\* Mutant of threadEnds: the thread stays counted.
threadEndsCounted(c) ==
  /\ conn[c].pc = "close"
  /\ Goes(c, Over(conn[c], "ended"))
  /\ UNCHANGED <<thread_count, files, stalls>>

\* closeSocket, and the thread is no longer counted.
threadEnds(c) ==
  /\ conn[c].pc = "close"
  /\ thread_count' = thread_count - 1
  /\ Goes(c, Over(conn[c], "ended"))
  /\ UNCHANGED <<files, stalls>>

connection_handler(c) ==
  \/ threadStarts(c)
  \/ \E n \in 0 .. Len(conn[c].asked) - conn[c].got, part \in Parts \cup {"none"} :
       recvRequests(c, n, part)
  \/ recvRest(c) \/ recvNothing(c) \/ recvFailed(c) \/ giveUp(c)
  \/ \E late \in BOOLEAN : reply(c, late)
  \/ \E n \in 1..conn[c].rest : sendBody(c, n)
  \/ sendBodyLate(c) \/ sendSigpipe(c) \/ threadEnds(c)

-----------------------------------------------------------------------------
\* The clients.  What one does before the thread of its connection runs makes no
\* difference until then, and is left until then.

connect(c) ==
  /\ main \in {"test", "tested", "accept"}
  /\ conn[c].pc = "none"
  /\ Goes(c, [conn[c] EXCEPT !.pc = "backlog"])

\* A request is sent, whether the thread is waiting for one or not.
ask(c, r) ==
  LET x == conn[c]
      n == Len(x.asked)
  IN /\ x.pc \in Counted
     /\ x.peer = "open"
     /\ n < MaxRequests[c]
     /\ Patient => \/ Len(x.answers) = n
                   \/ n > 0 /\ Chained(x.asked[n], r)
     /\ Goes(c, [x EXCEPT !.asked = Append(@, r)])

\* The client closes its end, after which what the server sends is answered
\* with a reset.
hangUp(c) ==
  /\ c \in Rude
  /\ conn[c].pc \in Counted
  /\ \/ conn[c].peer = "open" /\ Goes(c, [conn[c] EXCEPT !.peer = "closed"])
     \/ conn[c].peer = "closed" /\ Goes(c, [conn[c] EXCEPT !.peer = "reset"])

clientStep(c) ==
  /\ connect(c) \/ hangUp(c) \/ \E r \in Wants[c] : ask(c, r)
  /\ UNCHANGED <<thread_count, files, stalls>>

-----------------------------------------------------------------------------

Next ==
  \/ mainStep \/ ctrlc_handler
  \/ \E c \in Conns : connection_handler(c) \/ clientStep(c)

Spec == Init /\ [][Next]_vars

\* Every thread that can run is run, and clients read what they are sent.
\* Clients need not connect, ask or hang up, and nobody need type Ctrl+C.
Fairness ==
  /\ WF_vars(mainStep)
  /\ \A c \in Conns : WF_vars(connection_handler(c))

FairSpec == Spec /\ Fairness

-----------------------------------------------------------------------------

Pcs == {"none", "ended", "cut"} \cup Open

TypeOK ==
  /\ main \in {"test", "tested", "accept", "wait", "exited", "killed"}
  /\ done \in BOOLEAN
  /\ thread_count \in Int
  /\ files \in Nat
  /\ stalls \in 0..MaxStalls
  /\ \A c \in Conns :
       /\ conn[c].pc \in Pcs
       /\ conn[c].peer \in {"open", "closed", "reset"}
       /\ conn[c].cur \in Request
       /\ conn[c].got \in Nat /\ Seen(conn[c]) <= Len(conn[c].asked)
       /\ conn[c].at <= conn[c].last /\ conn[c].last <= Seen(conn[c])

(***************************************************************************)
(* When main returns, no thread that has begun is in the middle of a       *)
(* request: main waits for the threads to close after Ctrl+C.  The counter *)
(* must go up and down once on every way through connection_handler, also  *)
(* when recv fails.  A thread that was created and has not yet run, or one *)
(* that gave up its connection, is not waited for.                         *)
(***************************************************************************)
ExitWaits ==
  [][main' = "exited" /\ main # "exited" =>
       \A c \in Conns : conn[c].pc \notin Counted]_vars

\* The page with the data of the POST before its first </body>, if it has one.
Posted(r) ==
  LET places == {p \in r.tags : p + TagLen <= r.size}
  IN IF places = {} THEN Text(0, r.size, 0)
     ELSE WithData(Text(0, r.size, 0),
                   CHOOSE p \in places : \A q \in places : p <= q)

\* A body with the first n bytes of the file, each once and in their order.
HoldsFile(body, n) ==
  /\ \A i \in DOMAIN body : body[i] < n
  /\ \A i, j \in DOMAIN body :
       i < j /\ body[i] >= 0 /\ body[j] >= 0 => body[i] < body[j]
  /\ \A q \in 0 .. n - 1 : \E i \in DOMAIN body : body[i] = q

(***************************************************************************)
(* The body of every answer, over any number of buffers and partial sends: *)
(* that of a GET is the file; that of a POST is the file with the data at  *)
(* their place if the file is smaller than the buffer, and otherwise still *)
(* has every byte of the file once and in order, though the data may be    *)
(* missing or other bytes among them, where </body> lies across two        *)
(* buffers or a full buffer is taken for a string.  Not promised to a      *)
(* client to which a send timed out: the loop then goes back a byte.       *)
(***************************************************************************)
BodiesAreExact ==
  \A c \in Conns : \A i \in DOMAIN conn[c].answers :
    LET a == conn[c].answers[i]
        r == conn[c].asked[a.req]
    IN a.kind = "file" /\ ~conn[c].stalled =>
         /\ r.method # "POST" => a.body = Text(0, r.size, 0)
         /\ r.method = "POST" /\ r.size < BufSize => a.body = Posted(r)
         /\ HoldsFile(a.body, r.size)

(***************************************************************************)
(* While a thread waits for the next request it has answered every request *)
(* that it has read, also one of which it has read the beginning only: no  *)
(* request of a patient client is lost between recv, parseRequest and the  *)
(* list of pipelined requests, unless an answer itself timed out.          *)
(***************************************************************************)
NothingForgotten ==
  \A c \in Conns :
    Patient /\ conn[c].pc = "recv" /\ ~conn[c].stalled =>
      Len(conn[c].answers) = Seen(conn[c])

\* A POST to a file that is not html was asked for, by whomever.
AskedToPost ==
  \E c \in Conns : \E i \in DOMAIN conn[c].asked :
    conn[c].asked[i].method = "POST" /\ conn[c].asked[i].file = "binary"

(***************************************************************************)
(* A file that is there is reported as missing only if somebody tried to   *)
(* POST to a binary file before: the answer 405 leaves that file open, and *)
(* when the process can open no more files, fopen fails.  On all the other *)
(* ways the file is closed.  (For at most as many connections as files     *)
(* that may be open.)                                                      *)
(***************************************************************************)
NotFoundMeansMissing ==
  \A c \in Conns : \A i \in DOMAIN conn[c].answers :
    LET a == conn[c].answers[i]
    IN a.kind = "404" => conn[c].asked[a.req].file = "none" \/ AskedToPost

\* The numbers of the requests that were answered, in the order of the answers.
Numbers(answers) == [i \in DOMAIN answers |-> answers[i].req]

Service == INSTANCE HttpService WITH
  asked <- [c \in Conns |-> Len(conn[c].asked)],
  answered <- [c \in Conns |-> Numbers(conn[c].answers)],
  spoilt <- {c \in Conns : conn[c].stalled},
  parted <- {c \in Conns : conn[c].part # "none"},
  closed <- {c \in Conns : conn[c].pc \in {"ended", "cut"}}

(***************************************************************************)
(* The server implements HttpService for patient clients: the requests of  *)
(* a connection are answered once each and in order, whether they are      *)
(* pipelined or not and however many of them one recv returns.  When recv  *)
(* cuts a request, because it is in two segments or 2000 bytes end inside  *)
(* it, that request may be answered twice, the second time with an error,  *)
(* and nothing behind it is answered.                                      *)
(***************************************************************************)
ServesInOrder == Service!Spec

(***************************************************************************)
(* Every connection comes to its end: it is served until the client or the *)
(* server closes it, or until the client has been silent for too long.     *)
(***************************************************************************)
ConnectionsEnd ==
  \A c \in Conns : (conn[c].pc = "backlog") ~> (conn[c].pc \in {"ended", "cut"})

(***************************************************************************)
(* After Ctrl+C the process ends, unless the signal came after the test of *)
(* done and before accept: then main still waits for one more client.      *)
(***************************************************************************)
InterruptEnds == (done /\ main \notin {"tested", "accept"}) ~> ~Running
=============================================================================
