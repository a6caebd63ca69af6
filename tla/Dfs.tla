-------------------------------- MODULE Dfs ---------------------------------
(***************************************************************************)
(* The distributed file system of PA3: dfc processes and four dfs servers  *)
(* over TCP, with servers that crash and restart and answers that come     *)
(* after the client's timeout.                                             *)
(***************************************************************************)
EXTENDS DfsClient

Init == NetInit /\ ServerInit /\ ClientInit

ClientNext ==
  \E c \in Clients : Command(c) \/ Step(c) \/ getResponseTimeout(c)

ServerNext ==
  /\ \/ \E k \in Conns : Thread(k)
     \/ \E s \in Servers : Crash(s) \/ Restart(s)
  /\ UNCHANGED clientVars

Next == ClientNext \/ ServerNext

Spec == Init /\ [][Next]_vars

\* The scheduler runs every thread and every client that is not waiting for
\* its user.  Users need not type anything, and servers need not crash, be
\* restarted or be slow.
Fairness ==
  /\ \A c \in Clients : WF_vars(Step(c))
  /\ \A k \in Conns : WF_vars(Thread(k) /\ UNCHANGED clientVars)

FairSpec == Spec /\ Fairness

-----------------------------------------------------------------------------

TypeOK == ServerTypeOK /\ ClientTypeOK

\* The PUTs of file f so far that the servers accept.
PutsOf(f) == {v \in DOMAIN log : log[v].file = f /\ log[v].auth}

\* Every PUT of f so far, finished or not, had the same MD5 modulo 4.
SameBin(f) == \A v, w \in PutsOf(f) : log[v].bin = log[w].bin

NoFault == died = {} /\ timeouts = 0

Reports(c, op, outcome) ==
  cl[c].pc = "prompt" /\ cl[c].op = op /\ cl[c].outcome = outcome

\* x may be what server s has of piece i of file f.
Belongs(s, f, i, x) ==
  \E v \in PutsOf(f) :
    /\ s \in Holders(i, log[v].bin)
    /\ x.kind \in {"part", "whole"} => v = x.ver

(***************************************************************************)
(* A piece file exists only on a server that some accepted PUT of that     *)
(* file, started before, chose for that piece; the bytes in it are from    *)
(* such a PUT.  handlePut opens two connections and sends on each, and     *)
(* after a timeout it goes on while the old request may still be handled:  *)
(* a piece sent on the wrong connection, or a request that parseRequest    *)
(* should have refused, would break it.                                    *)
(***************************************************************************)
StoredWhereItBelongs ==
  \A s \in Servers, f \in Files, i \in Pieces :
    disk[s][f][i] # Absent => Belongs(s, f, i, disk[s][f][i])

(***************************************************************************)
(* When dfc says "GET complete", it was let in and has all four pieces, as *)
(* long as the file was never stored under a different MD5 modulo 4:       *)
(* whatever crashes, restarts, timeouts and concurrent PUTs did, the two   *)
(* servers that answered hold complementary pieces.  dfs returns the first *)
(* two pieces it finds and dfc does not count what it received.            *)
(***************************************************************************)
CompleteGetHasAllPieces ==
  \A c \in Clients :
    Reports(c, "GET", "complete") =>
      /\ c \in Authorized
      /\ SameBin(cl[c].file) => \A i \in Pieces : cl[c].pieces[i] # Absent

(***************************************************************************)
(* dfc gives up on a file only if two neighbouring servers did not deliver *)
(* their pieces ("If any two consecutive servers are down, the file is     *)
(* incomplete", dfc.cpp:577), neighbouring including servers 3 and 0: no   *)
(* other combination of failures costs all the copies of a piece.          *)
(***************************************************************************)
IncompleteMeansNeighboursFailed ==
  \A c \in Clients :
    Reports(c, "GET", "incomplete") =>
      \E s \in Servers : {s, (s + 1) % 4} \subseteq cl[c].failed

LastPut(f) == CHOOSE v \in PutsOf(f) : \A w \in PutsOf(f) : w <= v

Storing(f) ==
  \E c \in Clients : cl[c].op = "PUT" /\ cl[c].file = f /\ cl[c].pc # "prompt"

(***************************************************************************)
(* Without faults, once a PUT has completed into an existing directory and *)
(* no other PUT of the file is under way, both servers that it chose for a *)
(* piece hold that PUT's piece, whole.  It needs that handlePut waits for  *)
(* the answers and that saveVectorToFile closes the file before the answer *)
(* is sent.  (For users who do not PUT one file at the same time.)         *)
(***************************************************************************)
PutIsReplicated ==
  \A f \in Files :
    /\ NoFault
    /\ ~Storing(f)
    /\ PutsOf(f) # {}
    /\ LastPut(f) \in stored
    => \A i \in Pieces : \A s \in Holders(i, log[LastPut(f)].bin) :
         disk[s][f][i] = Whole(LastPut(f))

\* The thread of connection k is writing that piece file.
Writes(k, s, f, i) ==
  /\ conn[k].phase = "writing"
  /\ conn[k].srv = s
  /\ conn[k].req.file = f
  /\ conn[k].req.piece = i

(***************************************************************************)
(* On a server that has never died, a piece file is truncated or           *)
(* unfinished only as long as a thread is still writing it, whatever       *)
(* happens to the other servers and whoever PUTs the same file at the same *)
(* time: threads that write one piece file take no lock, and a thread      *)
(* whose client gave up may write next to that of a later PUT.             *)
(***************************************************************************)
UnfinishedHasWriter ==
  \A s \in Servers, f \in Files, i \in Pieces :
    s \notin died /\ disk[s][f][i].kind \in {"empty", "part"} =>
      \E k \in Conns : Writes(k, s, f, i)

\* x may come of a read that began when the PUTs in S were stored, of those in
\* puts: nothing in it is older, and only next to a PUT that was not complete
\* by then is it cut short or torn.
ReadSince(x, puts, S) ==
  /\ x.kind \in {"part", "whole"} => \A v \in S : x.ver >= v
  /\ x.kind \in {"part", "torn"} => ~(puts \subseteq S)

(***************************************************************************)
(* A GET does not go back in time: without faults, and while the file's    *)
(* MD5 modulo 4 does not change, no piece that a complete GET returns is   *)
(* older than the last PUT that had completed when the GET began; and a    *)
(* GET that no PUT overtakes returns that PUT's pieces, whole, although    *)
(* loadFileToVector and saveVectorToFile take no lock.  Next to a PUT that *)
(* was still under way, or began during the GET, a piece may be cut short, *)
(* also one that had been whole, or mix the two PUTs' bytes, and dfc       *)
(* reports the GET as complete.  (For one writer and any number of         *)
(* readers.)                                                               *)
(***************************************************************************)
GetIsFresh ==
  \A c \in Clients :
    /\ Reports(c, "GET", "complete")
    /\ NoFault
    /\ SameBin(cl[c].file)
    => \A i \in Pieces : ReadSince(cl[c].pieces[i], PutsOf(cl[c].file), cl[c].since)

(***************************************************************************)
(* What a completed PUT stored survives the loss of servers, whatever      *)
(* later PUTs leave behind: a GET of it is incomplete only if two          *)
(* neighbouring servers have died at some time, or an answer was late.     *)
(* (For a client that is alone.)                                           *)
(***************************************************************************)
StoredFileSurvives ==
  \A c \in Clients :
    Reports(c, "GET", "incomplete") /\ cl[c].since # {} =>
      \/ \E s \in Servers : {s, (s + 1) % 4} \subseteq died
      \/ timeouts > 0

(***************************************************************************)
(* In a history without faults, LIST never calls a file "[incomplete]"     *)
(* (for a client that is alone).                                           *)
(***************************************************************************)
ListIsAllOrNothing ==
  \A c \in Clients :
    /\ Reports(c, "LIST", "complete")
    /\ NoFault
    => \A f \in Files :
         LET listed == {i \in Pieces : <<f, i>> \in cl[c].listing}
         IN listed \in {{}, Pieces}

(***************************************************************************)
(* When dfc does not return early from a GET, it has the whole file, as    *)
(* the comment on the order of the servers in handleGet implies.           *)
(***************************************************************************)
CompleteMeansComplete ==
  \A c \in Clients :
    Reports(c, "GET", "complete") => \A i \in Pieces : cl[c].pieces[i] # Absent

(***************************************************************************)
(* A failed connection is handled: no client ever sends on the socket -1   *)
(* (dfc.cpp:244).                                                          *)
(***************************************************************************)
ConnectFailureHandled ==
  \A c \in Clients :
    cl[c].pc \in {"send", "send2"} => Sock(c) # NoSock

(***************************************************************************)
(* Servers do not die of their clients: without crashes and late answers   *)
(* all four stay up.                                                       *)
(***************************************************************************)
ServersStayUp == crashes = 0 /\ timeouts = 0 => up = Servers

(***************************************************************************)
(* Every command comes back to the prompt (or was EXIT).                   *)
(***************************************************************************)
CommandsTerminate ==
  \A c \in Clients :
    (cl[c].pc # "prompt") ~> (cl[c].pc \in {"prompt", "gone"})

(***************************************************************************)
(* A server thread that has its request, or whose client has closed the    *)
(* connection without one, comes to its end, also when the client is no    *)
(* longer there to read the answer.  (A thread may wait for ever for the   *)
(* request of a client that hangs: getRequest has no timeout.)             *)
(***************************************************************************)
ThreadsEnd ==
  \A k \in Conns :
    (conn[k].phase \in Live /\ (conn[k].phase = "request" => conn[k].peer = "closed"))
      ~> (conn[k].phase \notin Live)
=============================================================================
