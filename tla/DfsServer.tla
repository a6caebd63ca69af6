----------------------------- MODULE DfsServer ------------------------------
(***************************************************************************)
(* The four dfs processes (PA3/dfs.cpp).  The main thread of each accepts  *)
(* connections and starts a thread per connection; the threads share       *)
(* nothing but the server's directory tree, and take no lock on it.        *)
(***************************************************************************)
EXTENDS DfsNet

CONSTANT MaxCrashes   \* bound: servers killed from outside

ASSUME MaxCrashesAssumption == MaxCrashes \in Nat

VARIABLES
  up,        \* the servers that are running
  disk,      \* disk[s][f][i]: the file .<f>.<i> in server s's tree
  dirs,      \* dirs[s]: the directories in server s's tree
  crashes,   \* servers killed from outside so far
  died       \* history: the servers that have ever died

serverVars == <<up, disk, dirs, crashes, died>>

\* run.sh purges the trees and starts the servers; initAuthentication makes
\* the user's directory.
ServerInit ==
  /\ up = Servers
  /\ disk = [s \in Servers |-> [f \in Files |-> NoPieces]]
  /\ dirs = [s \in Servers |-> {Root}]
  /\ crashes = 0
  /\ died = {}

-----------------------------------------------------------------------------
\* The thread of connection k.

Answering(k, reply) ==
  conn' = [conn EXCEPT ![k].phase = "header", ![k].reply = reply]

\* Mutant of getEmptyRequest: the length is read in a loop until it is there.
getEmptyRequestWaits(k) ==
  /\ conn[k].phase = "request"
  /\ conn[k].peer = "closed"
  /\ UNCHANGED <<conn, serverVars>>

\* The connection was closed before a request came: getRequest finds no
\* number in the empty length and parseRequest answers EMPTY_REQUEST.
getEmptyRequest(k) ==
  /\ conn[k].phase = "request"
  /\ conn[k].peer = "closed"
  /\ Answering(k, "error")
  /\ UNCHANGED serverVars

\* Mutant of parseRequest: the refusal is not marked as one.
parseRequestUnmarked(k) ==
  /\ conn[k].phase = "handle"
  /\ ~conn[k].req.auth
  /\ Answering(k, "ok")
  /\ UNCHANGED serverVars

\* parseRequest finds no such username and password.
parseRequest(k) ==
  /\ conn[k].phase = "handle"
  /\ ~conn[k].req.auth
  /\ Answering(k, "error")
  /\ UNCHANGED serverVars

\* Mutant of Accepted: the password is not compared.
AcceptedAnyPassword(k, method) ==
  /\ conn[k].phase = "handle"
  /\ conn[k].req.method = method

\* A request that parseRequest accepted and requestCycle dispatches.
Accepted(k, method) ==
  /\ conn[k].phase = "handle"
  /\ conn[k].req.auth
  /\ conn[k].req.method = method

\* ls -A prints the piece files and, in the root, the subdirectories; when it
\* prints nothing the answer has no body.
handleListResponse(k) ==
  LET s == conn[k].srv
      d == conn[k].req.dir
      names == {p \in Files \X Pieces :
                  DirOf[p[1]] = d /\ disk[s][p[1]][p[2]] # Absent}
      nothing == names = {} /\ (d = Root => dirs[s] = {Root})
  IN /\ Accepted(k, "LIST")
     /\ conn' = [conn EXCEPT ![k].phase = "header", ![k].list = names,
                             ![k].reply = IF nothing THEN "empty" ELSE "ok"]
     /\ UNCHANGED serverVars

\* handleGetResponse has both data1 and data2.
GetDone(found) ==
  \E i, j \in Pieces : i # j /\ found[i] # Absent /\ found[j] # Absent

\* The end of a pass of the loop over the potential pieces; the first two that
\* have data are the answer.
NextPiece(r) ==
  CASE GetDone(r.found) -> [r EXCEPT !.phase = "header", !.reply = "ok"]
    [] ~GetDone(r.found) /\ r.i = 3 ->
         [r EXCEPT !.phase = "header", !.reply = "error"]
    [] OTHER -> [r EXCEPT !.phase = "handle", !.i = r.i + 1]

\* A pass of the loop: the piece file is opened and its first bytes are read.
handleGetResponse(k) ==
  LET r == conn[k]
      x == disk[r.srv][r.req.file][r.i]
  IN /\ Accepted(k, "GET")
     /\ \/ /\ Readable(x)
           /\ \E y \in FirstRead(x) :
                conn' = [conn EXCEPT ![k] = [r EXCEPT !.phase = "reading",
                                                      !.found[r.i] = y]]
        \/ /\ ~Readable(x)
           /\ conn' = [conn EXCEPT ![k] = NextPiece(r)]
     /\ UNCHANGED serverVars

\* The rest of the file is read, as it is by now.
loadFileToVector(k) ==
  LET r == conn[k]
      x == disk[r.srv][r.req.file][r.i]
  IN /\ r.phase = "reading"
     /\ \E y \in LastRead(r.found[r.i], x) :
          conn' = [conn EXCEPT ![k] = NextPiece([r EXCEPT !.found[r.i] = y])]
     /\ UNCHANGED serverVars

\* handlePutResponse opens the piece file, which truncates it.  In a directory
\* that does not exist nothing is opened or written, and the answer is SUCCESS
\* all the same.
handlePutResponse(k) ==
  LET s == conn[k].srv
      q == conn[k].req
  IN /\ Accepted(k, "PUT")
     /\ \/ /\ q.dir \in dirs[s]
           /\ disk' = [disk EXCEPT ![s][q.file][q.piece] = Empty]
           /\ conn' = [conn EXCEPT ![k].phase = "writing"]
        \/ /\ q.dir \notin dirs[s]
           /\ Answering(k, "ok")
           /\ UNCHANGED disk
     /\ UNCHANGED <<up, dirs, crashes, died>>

\* saveVectorToFile: the stream writes out a full buffer before the end.
flushPiece(k) ==
  LET s == conn[k].srv
      q == conn[k].req
      old == disk[s][q.file][q.piece]
  IN /\ conn[k].phase = "writing"
     /\ ~conn[k].flushed
     /\ disk' = [disk EXCEPT ![s][q.file][q.piece] =
                   IF old = Empty THEN Part(q.ver) ELSE Torn]
     /\ conn' = [conn EXCEPT ![k].flushed = TRUE]
     /\ UNCHANGED <<up, dirs, crashes, died>>

\* Mutant of Written: the last byte is not written.
WrittenShort(v, old, flushed) == {Part(v)}

\* What the file holds once version v is written to its end over old.  Two
\* writers have an offset each and overwrite one another.
Written(v, old, flushed) ==
  IF flushed
  THEN IF old = Part(v) THEN {Whole(v)} ELSE {Torn}
  ELSE IF old = Empty THEN {Whole(v)} ELSE {Whole(v), Torn}

\* Mutant of saveVectorToFile: the stream is not closed before the answer is
\* sent, so what is buffered is lost when the process dies.
saveVectorToFileUnclosed(k) ==
  /\ conn[k].phase = "writing"
  /\ Answering(k, "ok")
  /\ UNCHANGED serverVars

\* saveVectorToFile: the rest is written and the file is closed.
saveVectorToFile(k) ==
  LET s == conn[k].srv
      q == conn[k].req
  IN /\ conn[k].phase = "writing"
     /\ \E x \in Written(q.ver, disk[s][q.file][q.piece], conn[k].flushed) :
          disk' = [disk EXCEPT ![s][q.file][q.piece] = x]
     /\ Answering(k, "ok")
     /\ UNCHANGED <<up, dirs, crashes, died>>

handleMkdirResponse(k) ==
  /\ Accepted(k, "MKDIR")
  /\ dirs' = [dirs EXCEPT ![conn[k].srv] = @ \cup {conn[k].req.dir}]
  /\ Answering(k, "ok")
  /\ UNCHANGED <<up, disk, crashes, died>>

\* sendResponse sends the length; an empty answer is complete with it.
sendLength(k) ==
  /\ conn[k].phase = "header"
  /\ conn' = [conn EXCEPT ![k] = IF @.reply = "empty" THEN Ended(@)
                                 ELSE [@ EXCEPT !.phase = "body"]]
  /\ UNCHANGED serverVars

\* sendResponse sends the body, the socket is closed and the thread ends.
sendBody(k) ==
  /\ conn[k].phase = "body"
  /\ conn' = [conn EXCEPT ![k] = Ended(@)]
  /\ UNCHANGED serverVars

\* The process of server s ends, and with it all its threads.
Die(s) ==
  /\ up' = up \ {s}
  /\ died' = died \cup {s}
  /\ conn' = ServerGone(conn, s)
  /\ UNCHANGED <<disk, dirs>>

\* The client closed the connection and its reset arrived: sendResponse's
\* second send raises SIGPIPE.
sendBodySigpipe(k) ==
  /\ conn[k].phase = "body"
  /\ conn[k].peer = "closed"
  /\ ~conn[k].read
  /\ Die(conn[k].srv)
  /\ UNCHANGED crashes

Thread(k) ==
  \/ getEmptyRequest(k)
  \/ parseRequest(k)
  \/ handleListResponse(k)
  \/ handleGetResponse(k)
  \/ loadFileToVector(k)
  \/ handlePutResponse(k)
  \/ flushPiece(k)
  \/ saveVectorToFile(k)
  \/ handleMkdirResponse(k)
  \/ sendLength(k)
  \/ sendBody(k)
  \/ sendBodySigpipe(k)

-----------------------------------------------------------------------------
\* The process.

\* Server s is killed from outside.
Crash(s) ==
  /\ s \in up
  /\ crashes < MaxCrashes
  /\ crashes' = crashes + 1
  /\ Die(s)

\* Server s is started again over its old tree; initAuthentication makes sure
\* that the user's directory exists.
Restart(s) ==
  /\ s \notin up
  /\ up' = up \cup {s}
  /\ dirs' = [dirs EXCEPT ![s] = @ \cup {Root}]
  /\ UNCHANGED <<conn, disk, crashes, died>>

ServerTypeOK ==
  /\ up \subseteq Servers
  /\ disk \in [Servers -> [Files -> [Pieces -> Content]]]
  /\ dirs \in [Servers -> SUBSET Dirs]
  /\ crashes \in Nat
  /\ died \subseteq Servers
  /\ conn \in [Conns -> Connection]
=============================================================================
