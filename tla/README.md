# Verification of the CSCI5273 programming assignments

This directory models and verifies the network programs of the repository: four
programming assignments in C and C++, each a client, a server or both.

## 1. Inventory

### The parts

| Part | Source | State it keeps | Operations |
|---|---|---|---|
| **dfc**, distributed file client | `PA3/dfc.cpp` | `Config` (four servers, user, password); per command: the piece or server index, two sockets, the pieces or names collected | PUT, GET, LIST, MKDIR, EXIT; `connectToServer`, `sendRequest`, `getResponse`, `closeSocket` |
| **dfs**, distributed file server | `PA3/dfs.cpp` | user table, a directory tree of piece files, one thread per connection | `getRequest`, `parseRequest`, `handle{List,Get,Put,Mkdir}Response`, `sendResponse` |
| getbin.py, openssl | `PA3/getbin.py` | - | MD5 modulo 4 of a file; salted AES |
| UDP client and server | `PA1/udp/*.c` | the text being sent and its sequence number, the buffer being filled; the server's directory | put, get, ls, exit: a command, its acknowledgement, then frames one at a time |
| web server | `PA2/webServer.cpp` | `done`, `thread_count`; per connection the requests read, the place in the file and in its buffer | accept loop, `connection_handler` with keep-alive and pipelined requests, `parseRequest`, `ctrlc_handler` and the shutdown |
| caching proxy | `PA4/webproxy.cpp` | a map from keys to responses with an expiry time and a mutex each; request and crawler threads | `requestCycle`, `fetchResponse`, `putInCache`, `crawlPage`, `getKey`; `cleanCache`, which is never started |
| earlier web servers | `PA2/webServer-1.*.cpp` | - | superseded snapshots, not built |
| valgrind 3.11.0, web pages | | - | third-party and assets |

### How they interact

The four assignments do not talk to each other. In PA3, a dfc process opens one
TCP connection per request to one of four dfs processes, sends a 16-byte length and
a body, waits at most one second (`SO_RCVTIMEO`) for the 16-byte length and the
body of the answer, and closes the socket. dfs starts a thread per connection; the
threads share nothing but the disk. dfc encrypts a file, cuts the ciphertext into
four pieces and sends piece *i* to the servers *(i + bin) mod 4* and
*(i + bin + 1) mod 4*, where *bin* is the MD5 of the file modulo 4. A GET asks
servers 0 and 2, and 1 and 3 when one of those does not deliver.

In PA1, the client sends a command until it is acknowledged. For a put it then sends
the file in frames of 91 characters, each with a sequence number, and waits for the
acknowledgement of each. For every other command the server sends `START` with the
length of its answer and, once that is acknowledged, the answer in frames. Both
sides send again whenever something arrives that they do not expect; nothing is sent
again after a time.

In PA2, the main thread accepts connections and creates a thread for each. The thread
reads what has arrived, which may be several requests, answers them one after the other,
a file through a buffer of 2000 bytes in as many sends as it takes, and reads again while
the requests ask to keep the connection. Threads and main share `thread_count`, `done`
and the process's table of open files. After Ctrl+C main closes the listening socket and
waits until no thread is counted.

In PA4, a thread per client looks its request up in the cache, or fetches it, sends it on
and stores it, and then starts a thread that fetches the page's links into the cache. The
key of an entry comes from the URL; the server that is asked comes from the Host header,
or from the host that the crawler cuts out of the link. All threads share the map; only
the replacement of an entry takes a lock, that of the entry which is replaced.

### What is hard

* **Interleavings**: several clients and one thread per request; a GET between the
  eight stores of a PUT; two threads in `saveVectorToFile` on one piece file, and a third
  that reads it, 8191 bytes at a time.
* **Failure**: a server dies at any point and restarts over the tree it left; a
  send on a connection whose other end is gone raises SIGPIPE, which neither
  program handles, so failures spread from client to server and back.
* **Timeouts**: dfc gives up after a second and goes on to its next request, while
  the server carries the first one out.
* **Placement**: a file stored twice with different bins leaves stale pieces.
* **Boundaries**: the four piece lengths in unsigned arithmetic; sequence numbers that
  wrap; a header one byte longer than its array; a tag that lies across two buffers.
* **Datagrams**: lost, duplicated, or left over from the command before, and read by
  a loop that expects something else.
* **Shutdown**: threads that count themselves, a signal that arrives between a test and
  the call it guards, clients that stay silent or reset their connection.
* **Streams**: requests cut and joined by `recv`, files cut by the buffer and by short
  sends, sends that time out.
* **A shared cache**: insertions without a lock, an entry replaced between its check and
  its use, a key whose memory is freed, two ways to compute the key of a page, and a
  server to ask that the key does not name.

`PROJECT.json` lists each hazard at its line with the properties that cover it.

### What makes each part correct

* PUT: the pieces partition the ciphertext, none is empty, each goes only to its two
  holders, and after a fault-free PUT both hold it whole.
* GET: "GET complete" means all pieces, none older than the last completed PUT, and none
  cut or torn unless
  a PUT of the file ran beside the GET; "incomplete" only when two neighbouring
  servers failed.
* LIST: a file is complete or absent when nothing failed.
* dfs: only authorised requests change or reveal anything; threads end; servers do
  not die of their clients; a half-written piece has a writer.
* UDP transfer: what is reported as sent is stored, answers are current, no text is
  mixed from two, commands end.
* dfs and dfc together: every command comes back to the prompt when nothing fails.
* Web server: the requests of a connection are answered once each and in order; a body is
  the file, byte by byte, or the page with the data of a POST; an existing file is found;
  connections end; main ends after Ctrl+C and not before the threads it has counted.
* Proxy: a client is sent the page it asked for, no older than its time to live; pages
  are cached where they are looked for; a failure does not replace a page unseen.

## 2. Modules

| Module | Models |
|---|---|
| `DfsSplit` | `handlePut`'s loop that cuts the ciphertext (own component, no network) |
| `DfsStore` | vocabulary shared by dfc and dfs: servers, pieces, placement, contents of a piece file, requests |
| `DfsNet` | the TCP connections and what the kernel does to them at `closeSocket`, `exit` and process death |
| `DfsServer` | dfs: one action per handler or socket call of `requestCycle`, plus crash and restart |
| `DfsClient` | dfc: the command loop; one action per socket call of a command |
| `Dfs` | the composition, its fairness, and all properties |
| `DfsInv` | the inductive invariants, part by part |
| `DfsSplitProofs` | the theorems about the split |
| `DfsProofs`, `DfsGetProofs`, `DfsPutProofs`, `DfsAloneProofs` | the theorems about dfc and dfs: types and placement; GET and the servers' survival; replication and freshness; a client that is alone |
| `UdpNet` | PA1's texts, frames, receive buffer and datagrams; the network |
| `UdpServer`, `UdpClient` | the two UDP programs: one action per `recvfrom`, with all that is sent before the next one |
| `Udp` | their composition, fairness and properties |
| `UdpProofs` | the theorems about PA1 |
| `HttpService` | abstract: what a web server promises on each connection |
| `WebServer` | PA2: main, `connection_handler` and the clients; shown to implement `HttpService` |
| `ProxyKey` | PA4's `getKey`, on sequences of characters |
| `Proxy` | PA4: `requestCycle` and `crawlPage` threads over the shared cache |
| `WebServerProofs`, `ProxyProofs` | the theorems about PA2 and PA4 |
| `MCDfsSplit`, `MCDfs`, `MCUdp`, `MCWebServer`, `MCProxy` | instances for TLC |

`DfsStore <- DfsNet <- DfsServer <- DfsClient <- Dfs <- DfsInv <- DfsProofs <-
DfsGetProofs <- DfsPutProofs <- DfsAloneProofs` (each extends the one before); `UdpNet <-
UdpServer <- UdpClient <- Udp <- UdpProofs` and `ProxyKey <- Proxy <- ProxyProofs`
likewise. `WebServer` instantiates `HttpService`.

### State and actions

A connection (`conn[k]`) is a slot in a bounded table and includes the thread that
serves it: `phase` is how far `requestCycle` has come, `peer` is the client's end.
`disk[s][f][i]` is the content of piece file *i* of file *f* on server *s*: absent,
empty (opened with truncation), part or whole of a version, or torn (two writers).
A *version* is one PUT command; because openssl salts the ciphertext, two PUTs of
the same bytes are different versions. `log` and `stored` are history variables:
which PUTs were typed, and which completed without any fault.

A client (`cl[c]`) is the record of the running command; `pc` is the socket call it
makes next. `n` is the loop index: the piece of a PUT, the server of the others.
The operators `NextTurn`, `GetTurn`, `Delivered`, `NotDelivered` and `Continue` are
what the command's code does between two socket calls.

dfs' handlers are one action each where they touch shared state once. `PUT` is three: open
and truncate (`handlePutResponse`), an early flush of the stream (`flushPiece`, may or may
not happen), the final write and close (`saveVectorToFile`). `GET` opens a piece file and
makes the first read in one step (`handleGetResponse`), and every further read in another
(`loadFileToVector`), so that writers come between two reads: what it has is then a prefix
of one version, or parts of two (torn). An answer is two sends (`sendLength`, `sendBody`),
because the client may go and the server may die in between. `sendBodySigpipe` is the
death of the whole server by SIGPIPE.

In the UDP modules `pc` names the `recvfrom` a program waits in. The channels are
what is in the network and in the receiver's socket buffer, in order; what arrives
at a full buffer (`MaxQueue`) is dropped. A text is a number of frames with an
identity: the version of a put, the names of a listing. `StrCpy` copies a frame to
the place its number says, together with the string's end, which falls on the first
character of the next place when the frame is full; `Filled` is the comparison of
`strlen` with the announced size. `SeqFrame` is the frame as the sender's build makes it,
`Carried` what that does to a whole text. `srvSave` is a step of its own, because the client
may have gone on by then. `sent` is a history variable: what the client reported with
"file sent successfully".

In `WebServer`, `conn[c]` is a connection with the thread that serves it and its client's
end. `asked` is all that the client has sent; `got`, `at` and `last` are how far `recv`,
the current request and the end of its pipeline have come in it. `recvRequests` returns
any number of the requests that have arrived, with or without the beginning of the next
one: `part` is what `parseRequest` makes of such a beginning (an error without its
version, a request that closes the connection without its Connection header, the request
itself, or nothing at all because less than `GET` stands behind a pipeline), and
`recvRest` is the `recv` of the rest, which begins with no method and is an error.
`Pipeline` is how many of the requests in the buffer `parseRequest` chains. `reply` is the
single send of an error, a 404, a 405 or the headers of a file, with `fopen` before it;
then `sendBody` is one `send` of the loops over the buffer, followed by the next `fread`
or by `fclose`. `read` is how much of the file has been read, `buf` the bytes at `pbuf` by
their place in the file, `pos` and `rest` are `pbuf` and `file_read_size`; `sendBodyLate`
adds the result -1 of a timed-out send to the last two, as the code does. For a POST every
buffer is made into a string and searched for `</body>` on its own (`Buffers`): a tag
across two buffers is not found (`Tags`), and a full buffer has no NUL, so that its string
goes on in memory (`Strays`), where the tag may be found as well (`Places`); what is found
makes the code send the whole string. `main` is where the main thread is; the two halves
of its loop condition are two steps, since a signal may fall between them. The refinement
maps a connection to the number of requests asked, the numbers of those answered, whether
a send has timed out (`HttpService` promises nothing then), whether a request has arrived
in parts (that one may be answered twice, and nothing behind it is) and whether it is
closed.

In `Proxy`, every client has a `requestCycle` thread and the `crawlPage` thread that it may
start. A page is the text of its absolute URL without the protocol, which is also the key
that `getKey` computes from it. `fetchResponse` asks the server `Contacted`: the Host
header's or the crawler's host, and the URL's only if there is none; it answers with what
it has itself under that path (`PageAt`), or nothing if there is no such server
(`Reaches`). An insertion of a new key is two steps, `beginInsert` and
`insertInCache`; a thread that uses the map between another one's two may miss the entry,
lose its own or end the process (`Disturbed`, `mapRace`), the outcomes of the data race on
`std::unordered_map`. `readPage` follows the pointer to the key that `requestCycle` left:
after that thread has returned, the memory may hold the key, another entry's key, or
neither (`nullEntry`). `fetchSigpipe` is the death of the process when a server resets the
connection before the request is sent. History variables are `lateStore`, an entry was
stored after its expiry time, and `spoiled`, the keys for whose URL another server than the
URL's was asked.

### Abstractions

Bytes, names and formats are left out; a request is what `parseRequest` extracts
from it. `getbin.py` yields any value of `Bins`; a password is right or wrong. A
request is sent in one step. A connection is made in one step. The slot for a new
connection is the lowest free one.

In PA1 sizes are counted in frames. A listing fits into one frame. A command is short
enough that `buffer + 8` is empty when the put loop takes it for a frame, as it does with the
command behind a put whose numbers wrapped.

`ClientLayout` and `ServerLayout` stand for the stack of each build: `sprintf` writes nine
bytes into the eight of `seqstring` and then of `ackstring` (`udp_client.c:165`,
`udp_server.c:303`), and the compiler decides what lies behind each.

* `"apart"`: the arrays do not touch, and a frame is what it should be.
* `"joined"`: `ackstring` is right behind `seqstring` and its first character takes the
  place of the NUL; both are printed, the number is read as before, and the text of the frame is
  shifted by the eight characters of the acknowledgement and loses its last eight.
* `"lost"`: `seqstring` is right behind `ackstring` and empty when it is used; the frame goes
  out without its header.

They are fixed per build, so they are constants. The makefile builds with
`gcc -g -O0`. One gcc for x86-64 that was tried lays the arrays out as `"lost"` with `-O0` and
as `"joined"` with `-O2`, and others may do otherwise, so every property says what it
promises for each. A text
that was shifted is marked so, once for all times that it was.

In PA2 a request is what `parseRequest` makes of it, or of the part of it that `recv`
returned; that it is cut at 2000 bytes or at the end of a segment is one choice. A request
is in two parts at most. The data of a POST are one unit. What stands in memory behind a
full buffer is `MaxStray` units at most. Only clients that read their connection are
modelled: what a client does before its thread runs makes no difference until then.
`Patient` restricts clients to pipelines that `parseRequest` takes entirely: GET requests
of HTTP/1.1 that keep the connection. `Rude` bounds the connections on which
requests are cut, sends time out and clients hang up; the others run beside them.

In PA4 the links of a page are a constant, in the order of their tags. A host is a name
without a port. A response is the page or nothing. The clock moves at any time.

## 3. Runs

| Run | Instance | Shows |
|---|---|---|
| `dfs_split` | every plaintext size from 0 up to a few hundred bytes | the pieces partition the file, none is empty |
| `dfs_quiet` | one client, two files (one in a subdirectory), no fault, fairness | replication, exact LIST, servers stay up, commands end, no deadlock |
| `dfs_faults` | one client, two PUTs, one crash with restarts or one late answer | what GET may report; what a stored file survives; abandoned requests are harmless to placement and content |
| `dfs_threads` | one crash, fairness | server threads end |
| `dfs_visitors` | a writer, and beside it a reader or a client with a wrong password | a GET, whose reads of a piece file the writer may overtake, never goes back in time, and its pieces are whole unless a PUT ran beside it; nothing is stored for the refused client or given to it |
| `dfs_down` | expected violation | see findings |
| `dfs_rebin` | expected violation | see findings |
| `udp` | two files of one to three frames with numbers from 0 to 1, so that a text of three wraps, a server whose frames are `"joined"`, two puts, every command, end of input, at most one loss and one duplicate anywhere, fairness | no text is put together from two, what is reported as sent is stored; while there was no fault also: answers are current, one frame at a time, commands end |
| `udp_loss` | expected violation | see findings |
| `web` | two connections; on one up to two pipelined GETs that `recv` joins or cuts, a timed-out send, a close or reset; on the other a GET of a file of two buffers, a POST to a page smaller than the buffer, to one with `</body>` across two buffers, or to a binary file; two files may be open; Ctrl+C at any time; fairness | implements `HttpService`; no request forgotten; bodies exact, or at least every byte of the file in order; 404 only for what is missing; main waits for its threads; connections end, and the process after Ctrl+C |
| `proxy` | two servers and three clients: one whose page links to a page beside it, to the server's home page without a path, and to a host that does not exist; one without a Host header; one that may have a foreign Host header; entries that expire, one failing fetch | answers are fresh; they are the right page and keys are uniform but for keys for which a foreign server was asked; empty responses only where a client saw them |
| `proxy_key` | expected violation: the link is a path from the root | see findings |

### Bounds

* `MaxConns` bounds connections that exist at once. A dfc process has at most two
  open; the rest are abandoned ones whose threads still run. A client that finds
  no slot waits; the bounds are chosen so that this happens only in runs with late
  answers or leaked LIST sockets, where it delays the client and excludes nothing
  but longer backlogs.
* `MaxPuts` = 2 where two versions matter (stale pieces, two writers): a third PUT
  only repeats the relation between an older and a newer one.
* `MaxCrashes` = 1 counts crashes from outside only. Deaths by SIGPIPE are not
  counted, so one crash reaches states with several dead servers.
* `MaxTimeouts` = 1: one abandoned request already runs beside a later one.
* `Bins` is a single value where placement is symmetric, two for `dfs_rebin`, all
  four in `dfs_quiet`.
* UDP: texts of one frame, of two (a first and a last) and of more (one in between);
  two versions of a file suffice to mix them. `MaxSeq` (9999 in the code) is 1, so that the
  number of a third frame is 0 again. The run has the client's arrays apart and the server's
  joined; all nine pairs of layouts were checked once, each with `MaxSeq` 0, 1 and 9.
  `MaxQueue` = 4 is never reached without faults.
* The constraint `OneFault` of `dfs_faults` excludes a crash and a late answer in one
  behaviour, and `OneVisitor` of `dfs_visitors` a command of the reader at the same time
  as one of the refused client; each kind is met everywhere.
* Web: a pipeline of two has a first and a last request, and either may be cut. A file of
  four units needs two buffers (`BufSize` = 3), the second one short; a tag of two
  (`TagLen`) at place 2 lies across them and at place 0 of a page of two in the first; one
  stray unit (`MaxStray`) completes a tag or not. With `MaxFiles` = 2 each connection can
  have a file open, and one 405 more than that makes `fopen` fail.
* Proxy: `TTL` = 0 and `MaxTime` = 1, so that an entry expires at the next tick, and tests
  and uses fall on both sides of it. Three threads are the smallest number with a check, a
  replacement and an insertion under way at once. Two servers suffice to ask the wrong
  one: a Host header names it, or it is what is left of the other's name when the crawler
  has cut the last character.
* `Workload` is what each user types; commands that cannot affect a run's
  properties are left out of it.

The theorems hold without any of these bounds.

### Deadlock

Deadlock is checked where it may not happen. The cfgs that say `CHECK_DEADLOCK FALSE`
contain a crash, a late answer or an EXIT, or a UDP fault or exit: a client that has
ended, or spins in a loop of a failing `send` or an empty `recv`, or waits in `recvfrom`,
is a real final state of the program. The web server and the proxy stop when the process
ends; and clients of the model come only once.

### Fairness

Weak fairness on `Step(c)` (a client between two prompts) and on `Thread(k)`: the
operating system runs every runnable process and thread. No fairness on what users
type, on crashes, restarts or late answers. In `Udp`, weak fairness on the steps of
each program; none on the user, on losses or duplicates. In `WebServer`, weak fairness on
main and on each connection's thread, and so on the clients reading what they are sent;
none on connecting, asking, hanging up or Ctrl+C. `Proxy` has no fairness: a fetch has no
timeout, a thread may stay in `getKey`, and nothing makes a request be answered.

## 4. Findings

* `dfs_down`: the comment at `dfc.cpp:244` says that a failed connection is "handled
  elsewhere". `handlePut` checks only the primary's socket; with the secondary of a
  piece down it sends on -1 and `sendRequest` never returns. `handleMkDir` does not
  check either.
* `dfs_rebin`: the comment at `dfc.cpp:576` says a GET that is not cut short finds
  the whole file. When a file was stored twice with different MD5 modulo 4, a server
  holds more than two pieces, returns the first two it finds, and dfc prints "GET
  complete" with a piece missing.
* `udp_loss`: the comment at `udp_client.c:132` speaks of a timeout; there is none, and
  one lost datagram stops both programs.
* `proxy_key`: the comment at `webproxy.cpp:663` calls the key uniform between client and
  crawl requests. `getKey` strips a leading slash with `substr( 1, length - 2 )`, which
  takes the last character too: the page behind the link `/b` is stored under `h/`, where
  a client's request for `http://h/b` does not find it.

Observed along the way, with no statement in the repository to hold against them:
one crash during a PUT can take the neighbouring server with it, because the
connection of the skipped piece is closed unused and the thread's answer raises
SIGPIPE; a PUT into a directory that does not exist reports success; two clients that
PUT one file at once may leave copies that differ; a server thread waits for ever
for the request of a client that hangs.

In the UDP transfer, reached by changing a constant of `UdpLoss.cfg`, which then shows
the counterexample:

* with a duplicate instead of a loss, a second copy of a put's last frame is answered
  as an unknown command; the server's `START` and the client's next command then
  cause each other for ever;
* with `"lost"` for a layout (the overlong `sprintf`, see Abstractions) no transfer in
  that direction ends on a perfect network; with `"joined"` transfers end, and the text is
  shifted by eight characters;
* with `MaxSeq` + 1 smaller than a text, as in `Udp.cfg`, the sequence numbers start again
  at 0, later frames overwrite the first, and a file reported as sent (`udp_client.c:198`)
  is never written: `SentIsStored` and `CommandsEnd` without their exemption of `Wraps`
  fail.

In the web server, reached by dropping the exemption of a property or a constant of
`WebServer.cfg`:

* a signal between the test of `done` and `accept` is lost (`InterruptEnds` without its
  exemption): main waits for one more client;
* after a timed-out send the body repeats a byte, or begins with one in front of the buffer
  (`BodiesAreExact` without `stalled`);
* with `Patient` = FALSE a POST that arrives together with a GET is dropped with the
  buffer (`NothingForgotten`, `ServesInOrder`);
* a request that `recv` cuts is answered, its rest is answered once more with an error that
  closes the connection, and what the client pipelined behind it is never answered
  (`ServesInOrder` without `parted`);
* a POST to a page with `</body>` across two buffers is sent the page without its data, and
  one to a page whose full buffer is taken for a string gets the bytes behind the buffer too
  (`BodiesAreExact` with `Posted` for pages of any size);
* the answer 405 leaves its file open, and a send to a client that has reset its connection
  ends the server;
* a thread that was created and has not counted itself is cut off when main returns.

Also, by reading: the Content-Length of a POST is that of the page with the data, so it is
wrong whenever the data are not inserted just once; and a client that keeps its connection
and stops reading keeps its thread in the send loop (`webServer.cpp:309-316`) for ever,
which `MaxStalls` bounds in the model.

In the proxy: a client whose Host header is not the URL's host, or a page with a link that
has no path (line 340 cuts the last character of its host), makes the proxy ask another
server and keep that answer under the key of the URL, whence other clients are sent it
(`UniformKeys` and `AnswersMatch` without `spoiled`: in the run, the page behind the link
`http://ho` is asked of the server `h`); a send to a server that has reset the connection
ends the process; a fetch that takes longer than the time to live stores an entry that has
expired, and a thread that had found the older one still fresh sends it (`AnswersAreFresh`
without `lateStore`); two threads inside the map, or a crawler that runs after its
`requestCycle` has returned, can end the process; a host that is empty, or of two
characters with a slash at the end, keeps `getKey` in its loop; an empty response is
cached and served; a refused request leaves its socket open.

After exit the UDP client waits for a `START` (`udp_client.c:201` says that it receives the
response), while the server sends `ACK EXIT` and is gone.

## 5. Proofs

`DfsSplitProofs` proves for every set of file sizes that the four pieces partition
the ciphertext (`SplitIsPartition`) and that none is empty (`SplitHasNoEmptyPiece`).
The invariant adds to the property what the loop knows at piece *i*: all pieces so
far have the full quarter length and the next length is the rest or a quarter. That
no piece is empty needs that the ciphertext is a multiple of 16 bytes, at least 32
(`EncryptedQuarters`).

`DfsProofs` proves for any clients, files, directories, connections, PUTs, crashes
and late answers:

* `TypeCorrect`: the type invariant;
* `StorageCorrect`: `StoredWhereItBelongs`;
* `WritersFinish`: `UnfinishedHasWriter`.

None is inductive alone. `StorageInv` (in `DfsInv`) adds: `SlotsOK` (a free slot is
exactly `Free`; a finished connection is still open at the client); `ClientsOK` (a
PUT's record agrees with the log; its sockets are its own and lead to the servers it
chose); `RequestsOK` (a request carries those facts to the server). The chain is:
the client's socket leads to a holder of the piece (`SocketsOK`), so the request does
(`SendStep`), so the write does (`WritingThread`). Server steps are handled through
`Evolves` and client steps through `Handled`, which say what a step may do to a
connection that is not its business; one lemma per action shows that it does no more.

`DfsGetProofs` proves, for the same generality:

* `GetGivesUpRightly`: `IncompleteMeansNeighboursFailed`, and `CompleteGets`:
  `CompleteGetHasAllPieces`. Inductive is `GetInv`: a GET's record says which servers it
  has asked and which of them failed, by its place in the order 0, 2, 1, 3; the request
  that a connection carries is the one its client is waiting with; and what a thread has
  found, and later what the client has, of a file with one bin are the two pieces which
  that server holds;
* `CalmServersStayUp`: `ServersStayUp`. Inductive is `CalmInv`: until the first crash or
  late answer every thread that still has to send has a client that waits for it.

`DfsPutProofs` proves, under `OneWriter` (of the users whom the servers know, one at most
types PUT; others, and refused clients, may type anything else):

* `PutsAreReplicated`: `PutIsReplicated`;
* `GetsAreFresh`: `GetIsFresh`.

`GetIsFresh` says two things of a complete GET: none of its pieces is older than the PUTs
stored when it began, and all of them are whole unless a PUT of the file was still under
way then or has begun since. A thread reads a piece file in many reads without a lock, so
neither follows from what is on the disk at one moment. Both follow from `PutInv`. The PUT
that is under way is the last in the log and not yet stored (`LatestOK`). While nothing
has failed: it has copied all the pieces before its current one (`PutOK`, `Copied`), the
file its thread writes is just what that thread has made of it (`WriterOK`), a stored
version that is its file's last is there in full (`LastCopied`), no piece file on a disk
is older than a stored PUT (`DiskFresh`), and so is nothing that a GET has received, that
a thread has found for it, or that a thread has read so far of the file it is reading,
counted from the PUTs that were stored when the GET began (`ReaderOK`); and if all PUTs
are among these, the rest of that file is still on the disk, whole and of the same
version. With two writers both properties fail, as the hazards say: their PUTs may reach
the two holders of a piece in different orders.

`DfsAloneProofs` proves, under `Alone` (one dfc process; the servers and their threads are
as many as before):

* `StoredFilesSurvive`: `StoredFileSurvives`, with crashes, restarts and SIGPIPE. From
  `SurviveInv`: what is down or resets a connection has died (`DeathsOK`); while no answer
  was late a request is only handled while its client waits for it (`HandledOK`), so that
  nobody writes during a GET; a stored version stays on the servers it was sent to
  (`StoredOK`); and the thread that a GET waits for, on a server that has never died, has
  found what it passed (`SearchOK`), whence a server that fails a GET has died
  (`SurvivesOK`). The piece file is there but may be unfinished after a crash, so the proof
  needs `UnfinishedHasWriter` server by server: one death must not excuse the others.
* `ListsAreWhole`: `ListIsAllOrNothing`. From `ListInv`: all four servers have the same
  directories but for the one that a MKDIR is making (`DirsOK`), so a PUT stores all of a
  file or nothing (`RoomOK`, `AllOrNone`); what LIST has collected is what the servers it
  has asked hold (`ListOK`).

With a second client both fail, as TLC shows at once: a LIST meets its PUT half done, and a
GET meets first one copy of a piece truncated and then, as the PUT goes on, the other.

`UdpProofs` proves for any number, lengths and contents of files:

* `UdpTypes`: the type invariant, under any losses and duplicates;
* `UdpAnswersAreCurrent` and `UdpStopAndWait`, under `Adequate`: no layout is `"lost"`, no
  text has more frames than there are sequence numbers (`Numbered`), and the socket buffer
  holds more than one datagram. Both programs' arrays may be apart or joined, in any
  combination; what is being sent is the text that the sender holds, and what the
  receiver's buffer holds is that text `Carried` (`Upload`, `Download`). Inductive is
  `TurnsInv`: while the network is without faults, the pair of the two programs and the
  two channels is in one of the turns of the exchange (command, acknowledgement, start,
  frame, acknowledgement of a frame, and the write of a file that races with the next
  command), and the buffer being filled holds the first frames of the text being sent.
  `AnswersAreCurrent` is also true of the builds and the texts that `Numbered` leaves out,
  where transfers stop; for those it is model-checked only;
* `UdpNothingMixed`: `NothingMixed`, for any numbers of losses and duplicates and any
  socket buffer, under `Numbered`. With faults the turns no longer hold: old datagrams
  stay in the channels, and a program sends again whenever something else than what it
  waits for arrives. `MixInv` therefore says less of the channels, only what losing and
  doubling keep (`ThinKeeps`): which datagrams a channel holds (`Within`), which kinds are
  behind which (`Behind`), and that a kind stays together (`Block`). The two programs are
  in one of ten phases (`Phases`). The point is `Transfer`: frames carry a number and no
  name, so it has to be shown that a receiver with an open buffer has only frames of this
  text in front of it, those of the previous number first, and that no acknowledgement of
  the current frame exists before its receiver has it (`Below`). A transfer begins only
  behind an acknowledgement that names the command (`AckCommand`), after which nothing
  older can come, and a side that has done its part (`Elsewhere`, `AnsweredEmpty`) can
  answer, but not begin, with what is left over.

`WebServerProofs` proves for any connections, requests, files, timed-out sends and buffer:

* `WebExitWaits`: `ExitWaits`. The invariant `WebInv` says that `thread_count` is the
  number of connections whose thread is between its first `recv` and its close
  (`CountStep`, `ConnStep`), as long as the process runs;
* `WebNothingForgotten` and `WebServesInOrder`: the order of the answers, and with it the
  refinement of `HttpService`, whether `recv` joins or cuts the requests. What is
  inductive is `ConnOK`: the request at hand is the one after those answered, its pipeline
  ends where `recv` has come to, the part of a request included (`Seen`), and what has
  been asked and not answered is one pipeline, which is why `parseRequest` takes all of it
  (`PipelineTakes`, which needs that a nonempty set of numbers has a least one). Behind a
  part there is only one more answer, an error, after which the connection closes. Every
  step is shown to be a step of one connection that is quiet, an `Ask`, the `Answer` in
  turn, an `AnswerAgain`, a `Part` or a `Spoil` (`Fine`, one lemma per group of actions),
  or one that only closes connections (`CutOffStep`);
* `WebBodiesAreExact`: `BodiesAreExact`, for every size of buffer and tag and every place
  of `</body>`. The part of `ConnOK` for it is `ExactOK`: what has been sent, with what
  `buf` still holds behind `pos`, is made of the first `read` bytes of the file, so that a
  partial send continues where the last one ended and the next `fread` where the buffer
  ended. For a GET these are the bytes themselves, for a POST to a page smaller than the
  buffer the page with its data, and for a larger page every byte once and in order
  (`HoldsFile`), whatever is among them. A timed-out send breaks exactly this, which is
  why the property exempts it;
* `WebTypes`: the type invariant, and `WebNotFoundMeansMissing`: `NotFoundMeansMissing`
  under `EnoughFiles` (as many files may be open as there are connections). `FilesInv`
  counts: at least as many files are open as bodies are being sent, and more only after a
  POST to a binary file. `Turns` says what a step of one connection may do to the count,
  the requests and the answers; a thread that finds no file to open is not sending one, so
  the bodies being sent are fewer than the connections.

`ProxyProofs` proves for any threads, pages, links, clock and time to live:

* `ProxyTypes` and `ProxyAnswersAreFresh`, from `FreshInv`: an entry expires a time to live
  after a clock reading not later than its birth (`EntryOK`), and a thread that has found
  its key finds it again with an entry at least as young as the one it checked, unless one
  was stored late (`HitOK`);
* `ProxyUniformKeys` and `ProxyAnswersMatch` under `PlainUrls`, the condition under which
  `getKey` is uniform: clients send absolute URLs, as clients of a proxy do, and no page
  links to a path from the root. Any Host header, any link without a path and any set of
  servers is allowed: what the theorems say is that asking a foreign server spoils the key of
  the URL asked for and no other (`spoiled`). From `PlainInv`: every URL that a thread
  looks up, fetches or stores is then absolute, so the page that the right server
  returns is its key (`PageAt`, `Site`). `proxy_key` shows that the condition is needed;
* `ProxyEmptyWasAnswered`: `EmptyWasAnswered`, from `EmptyInv`: a client is answered once,
  what its thread is about to store is that answer, and what a crawler is about to store
  is a page (`EmptyThread`).

Assumptions: `StoreAssumption`, `MaxConnsAssumption`, `MaxCrashesAssumption`,
`ClientAssumption`, `PlainSizesAssumption`, `WebAssumption`, `ProxyAssumption` and those
of the UDP modules, as weak as the types of the constants; and `Patient`, `EnoughFiles`,
`PlainUrls`, `OneWriter`, `Alone`, `Numbered` or `Adequate` where a theorem states it. The
runs' instances satisfy them. TLC checked the inductive invariants on the runs' instances
before they were proved.

Only model-checked: the liveness properties (`CommandsTerminate`, `ThreadsEnd`,
`CommandsEnd`, `SentIsStored`, `ConnectionsEnd`, `InterruptEnds`),
which rest on fairness and so on ENABLED, which the prover does not reach. Every other
property of a passing run is the subject of a theorem.

## 6. Not modelled

Reading the configuration files; command-line tokens; the early return when the local file
of a PUT is missing; the temporary ciphertext file; malformed requests, which dfc never
sends; a send of dfc that times out (`SO_SNDTIMEO`, `dfc.cpp:222`: its result -1 is added
to the pointer and to the size, lines 275-279); failures of `accept`; a client that dies
between the length and the body of its request; a host that vanishes without closing its
connections; names that make dfc's LIST parser fail; a failure of `getbin.py`.

PA1: two clients at once, whose datagrams the server does not tell apart; reordering in
the network; names or lines that do not fit their buffers; what a short command leaves
behind its end in the datagram; what else the nine bytes of a header may overwrite than
the other array (the next variable, or nothing at all), the number that `strtol` reads on
from there, and a text that, shifted, ends behind the end of the receiver's memory; a put
of a missing or empty file, which does nothing.

PA2: `getConfig` and start-up; a URI that names a directory, which `fopen` opens; errors
of `accept` other than the interrupted one; failures to create a thread; the four older
versions, which the makefile does not build.

PA4: `cleanCache`, whose start is commented out; failures of `accept`, after which the
loop spins; the branch for HTTP/1.1, which `parseRequest` makes unreachable; a response
that is cut off and cached; the NUL that a page in memory lacks at its end; sockets of
fetches, which are never closed; ports, also one that the crawler cuts with its host; a
request that `send` takes in parts (lines 467-475); the receive loop of a broken chunked
response, which does not end; an origin server that neither answers nor closes; a
timed-out send, since the sockets have no timeout; anchors behind links.

## 7. Plan

1. An abstract replicated store that `Dfs` implements while nothing fails.
2. Two dfc processes in one directory, with the temporary file they share.
3. A second client of the UDP server.
