----------------------------- MODULE UdpServer ------------------------------
(***************************************************************************)
(* udp_server.c: a single loop that receives a command, acknowledges it,   *)
(* and then receives the frames of a put or sends the frames of an answer, *)
(* one at a time.                                                          *)
(***************************************************************************)
EXTENDS UdpNet

VARIABLES
  store,   \* the files in the server's directory
  srv      \* where the loop is

serverVars == <<store, srv>>

\* pc: the recvfrom that the server waits in (command, put, start, frames);
\* save, after the last frame of a put; gone after exit.
Server ==
  [pc : {"command", "put", "save", "start", "frames", "gone"},
   request : Datagrams, response : Text, i : Slots, seq : Nat,
   data : [Slots -> Frames]]

Idle ==
  [pc |-> "command", request |-> Command(NoCmd), response |-> NoText, i |-> 0,
   seq |-> 0, data |-> EmptyBuffer]

ServerInit ==
  /\ store = [f \in Files |-> NoText]
  /\ srv = Idle

\* Mutant of ServerReceives: the answer is sent before the loop and again in it.
ServerReceivesTwice(answers) ==
  /\ toServer' = Tail(toServer)
  /\ toClient' = Arriving(toClient, answers \o answers)
  /\ UNCHANGED <<losses, duplicates>>

\* One recvfrom, and what the server sends before the next one.
ServerReceives(answers) ==
  /\ toServer' = Tail(toServer)
  /\ toClient' = Arriving(toClient, answers)
  /\ UNCHANGED <<losses, duplicates>>

\* "ACK " and the request, whatever it was.
Echo(m) == AckCommand(m.cmd)

\* writegetresponse, writelsresponse, NOT RECOGNIZED.
Response(m) ==
  CASE m.cmd.op = "get" -> store[m.cmd.file]
    [] m.cmd.op = "ls"  -> ListText({f \in Files : store[f] # NoText})
    [] OTHER            -> Plain("error", IF Full(m.p) THEN 2 ELSE 1)

srvCommand ==
  LET m == Head(toServer)
  IN /\ srv.pc = "command"
     /\ toServer # <<>>
     /\ \/ /\ m.cmd.op = "put"
           /\ ServerReceives(<<Echo(m)>>)
           /\ srv' = [Idle EXCEPT !.pc = "put", !.request = m]
        \/ /\ m.cmd.op = "exit"
           /\ ServerReceives(<<Echo(m), AckExit>>)
           /\ srv' = [Idle EXCEPT !.pc = "gone"]
        \/ /\ m.cmd.op \notin {"put", "exit"}
           /\ ServerReceives(<<Echo(m), Start(Response(m).len)>>)
           /\ srv' = [Idle EXCEPT !.pc = "start", !.request = m,
                                  !.response = Response(m)]
     /\ UNCHANGED store

\* The receiving loop of put.  Only another put is recognised as no frame.
srvPut ==
  LET m == Head(toServer)
      data == StrCpy(srv.data, Number(m), Payload(m))
  IN /\ srv.pc = "put"
     /\ toServer # <<>>
     /\ \/ /\ m.cmd.op = "put"
           /\ ServerReceives(<<Echo(srv.request)>>)
           /\ UNCHANGED srv
        \/ /\ m.cmd.op # "put"
           /\ ServerReceives(<<AckSeq(Number(m))>>)
           /\ srv' = [srv EXCEPT
                !.data = data,
                !.pc = IF Filled(data, srv.request.cmd.len) THEN "save" ELSE "put"]
     /\ UNCHANGED store

\* Mutant of srvSave: a file that is there is not replaced.
srvSaveOnce ==
  LET cmd == srv.request.cmd
  IN /\ srv.pc = "save"
     /\ store' = [store EXCEPT ![cmd.file] =
                    IF @ = NoText THEN Contents(srv.data, cmd.len) ELSE @]
     /\ srv' = Idle
     /\ UNCHANGED netVars

\* The file is written after the last frame was acknowledged.
srvSave ==
  LET cmd == srv.request.cmd
  IN /\ srv.pc = "save"
     /\ store' = [store EXCEPT ![cmd.file] = Contents(srv.data, cmd.len)]
     /\ srv' = Idle
     /\ UNCHANGED netVars

\* The command is compared with the request; that of a get has lost its
\* newline by then.
srvStart ==
  LET m == Head(toServer)
      text == srv.response
  IN /\ srv.pc = "start"
     /\ toServer # <<>>
     /\ \/ /\ m = AckStart
           /\ text.len > 0
           /\ ServerReceives(<<SeqFrame(ServerLayout, 0, Frame(text, 0))>>)
           /\ srv' = [srv EXCEPT !.pc = "frames"]
        \/ /\ m = AckStart
           /\ text.len = 0
           /\ ServerReceives(<<>>)
           /\ srv' = Idle
        \/ /\ m = srv.request /\ m # AckStart /\ m.cmd.op # "get"
           /\ ServerReceives(<<Echo(m), Start(text.len)>>)
           /\ UNCHANGED srv
        \/ /\ m # AckStart /\ ~(m = srv.request /\ m.cmd.op # "get")
           /\ ServerReceives(<<Start(text.len)>>)
           /\ UNCHANGED srv
     /\ UNCHANGED store

\* Stop and wait: the next frame after the acknowledgement, the same frame
\* after anything else.
srvFrames ==
  LET m == Head(toServer)
      text == srv.response
      next == [srv EXCEPT !.i = @ + 1, !.seq = NextSeq(@)]
  IN /\ srv.pc = "frames"
     /\ toServer # <<>>
     /\ \/ /\ m = AckSeq(srv.seq)
           /\ next.i < text.len
           /\ ServerReceives(<<SeqFrame(ServerLayout, next.seq, Frame(text, next.i))>>)
           /\ srv' = next
        \/ /\ m = AckSeq(srv.seq)
           /\ next.i = text.len
           /\ ServerReceives(<<>>)
           /\ srv' = Idle
        \/ /\ m # AckSeq(srv.seq)
           /\ ServerReceives(<<SeqFrame(ServerLayout, srv.seq, Frame(text, srv.i))>>)
           /\ UNCHANGED srv
     /\ UNCHANGED store

ServerStep == srvCommand \/ srvPut \/ srvSave \/ srvStart \/ srvFrames

ServerTypeOK ==
  /\ store \in [Files -> Text]
  /\ srv \in Server
=============================================================================
