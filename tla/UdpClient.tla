----------------------------- MODULE UdpClient ------------------------------
(***************************************************************************)
(* udp_client.c: reads a command from the user, sends it until it is       *)
(* acknowledged, and then sends the frames of a put or receives the frames *)
(* of the answer.  No receive has a timeout: what is sent again is sent    *)
(* again because something else arrived.                                   *)
(***************************************************************************)
EXTENDS UdpServer

CONSTANTS
  Workload,   \* the commands that the user types
  FileLens,   \* the lengths, in frames, of the files that are put
  MaxPuts     \* bound: put commands

ASSUME WorkloadAssumption ==
  /\ Workload \subseteq {"put", "get", "ls", "other", "exit", "eof"}
  /\ FileLens \subseteq 1..MaxLen
  /\ MaxPuts \in Nat

VARIABLES
  cli,      \* where the program is
  puts,     \* put commands so far
  sent      \* history: the last text of each file reported as sent

clientVars == <<cli, puts, sent>>
vars == <<netVars, serverVars, clientVars>>

\* pc: prompt, the recvfrom that the client waits in (ack, frames, start,
\* data), or gone at the end of stdin.
Client ==
  [pc : {"prompt", "ack", "frames", "start", "data", "gone"},
   command : Datagrams, request : Text, i : Slots, seq : Nat,
   filesize : Slots, data : [Slots -> Frames],
   got : Text]             \* the answer to the last get or ls

ClientInit ==
  /\ cli = [pc |-> "prompt", command |-> Command(NoCmd), request |-> NoText,
            i |-> 0, seq |-> 0, filesize |-> 0, data |-> EmptyBuffer, got |-> NoText]
  /\ puts = 0
  /\ sent = [f \in Files |-> NoText]

\* One recvfrom, and what the client sends before the next one.
ClientReceives(answers) ==
  /\ toClient' = Tail(toClient)
  /\ toServer' = Arriving(toServer, answers)
  /\ UNCHANGED <<losses, duplicates>>

-----------------------------------------------------------------------------
\* The command loop.

Types(op) == cli.pc = "prompt" /\ op \in Workload

Sends(command, text) ==
  /\ cli' = [cli EXCEPT !.pc = "ack", !.command = Command(command),
                        !.request = text, !.i = 0, !.seq = 0, !.got = NoText]
  /\ toServer' = Arriving(toServer, <<Command(command)>>)
  /\ UNCHANGED <<toClient, losses, duplicates>>

\* A put of an empty or missing file does nothing.
typePut ==
  \E f \in Files, len \in FileLens :
    /\ Types("put")
    /\ puts < MaxPuts
    /\ puts' = puts + 1
    /\ Sends(Cmd("put", f, len), FileText(puts + 1, len))
    /\ UNCHANGED <<sent, serverVars>>

typeGet ==
  \E f \in Files :
    /\ Types("get")
    /\ Sends(Cmd("get", f, 0), NoText)
    /\ UNCHANGED <<puts, sent, serverVars>>

typeOther ==
  \E op \in {"ls", "other", "exit"} :
    /\ Types(op)
    /\ Sends(Cmd(op, None, 0), NoText)
    /\ UNCHANGED <<puts, sent, serverVars>>

endOfInput ==
  /\ Types("eof")
  /\ cli' = [cli EXCEPT !.pc = "gone"]
  /\ UNCHANGED <<puts, sent, netVars, serverVars>>

UserStep == typePut \/ typeGet \/ typeOther \/ endOfInput

-----------------------------------------------------------------------------

\* The command is sent again until its own acknowledgement arrives.
awaitAck ==
  LET m == Head(toClient)
      acked == m = AckCommand(cli.command.cmd)
      put == cli.command.cmd.op = "put"
  IN /\ cli.pc = "ack"
     /\ toClient # <<>>
     /\ \/ /\ acked /\ put
           /\ ClientReceives(<<SeqFrame(ClientLayout, 0, Frame(cli.request, 0))>>)
           /\ cli' = [cli EXCEPT !.pc = "frames"]
        \/ /\ acked /\ ~put
           /\ ClientReceives(<<>>)
           /\ cli' = [cli EXCEPT !.pc = "start"]
        \/ /\ ~acked
           /\ ClientReceives(<<cli.command>>)
           /\ UNCHANGED cli
     /\ UNCHANGED <<puts, sent, serverVars>>

\* The sending loop of put.
sendFrames ==
  LET m == Head(toClient)
      text == cli.request
      next == [cli EXCEPT !.i = @ + 1, !.seq = NextSeq(@)]
  IN /\ cli.pc = "frames"
     /\ toClient # <<>>
     /\ \/ /\ m = AckSeq(cli.seq)
           /\ next.i < text.len
           /\ ClientReceives(<<SeqFrame(ClientLayout, next.seq, Frame(text, next.i))>>)
           /\ cli' = next
           /\ UNCHANGED sent
        \/ /\ m = AckSeq(cli.seq)
           /\ next.i = text.len
           /\ ClientReceives(<<>>)
           /\ cli' = [next EXCEPT !.pc = "prompt"]
           /\ sent' = [sent EXCEPT ![cli.command.cmd.file] = text]
        \/ /\ m # AckSeq(cli.seq)
           /\ ClientReceives(<<SeqFrame(ClientLayout, cli.seq, Frame(text, cli.i))>>)
           /\ UNCHANGED <<cli, sent>>
     /\ UNCHANGED <<puts, serverVars>>

\* The head of the receiving loop: the text is there, or wait for a frame.
Receiving(filesize, data) ==
  IF Filled(data, filesize)
  THEN [cli EXCEPT !.pc = "prompt", !.filesize = filesize, !.data = data,
                   !.got = Contents(data, filesize)]
  ELSE [cli EXCEPT !.pc = "data", !.filesize = filesize, !.data = data]

\* Mutant of awaitStart: the buffer of the command before is used again.
awaitStartNoCalloc ==
  LET m == Head(toClient)
  IN /\ cli.pc = "start"
     /\ toClient # <<>>
     /\ \/ /\ m.type = "start"
           /\ ClientReceives(<<AckStart>>)
           /\ cli' = Receiving(m.n, cli.data)
        \/ /\ m.type # "start"
           /\ ClientReceives(<<>>)
           /\ UNCHANGED cli
     /\ UNCHANGED <<puts, sent, serverVars>>

awaitStart ==
  LET m == Head(toClient)
  IN /\ cli.pc = "start"
     /\ toClient # <<>>
     /\ \/ /\ m.type = "start"
           /\ ClientReceives(<<AckStart>>)
           /\ cli' = Receiving(m.n, EmptyBuffer)
        \/ /\ m.type # "start"
           /\ ClientReceives(<<>>)
           /\ UNCHANGED cli
     /\ UNCHANGED <<puts, sent, serverVars>>

receiveData ==
  LET m == Head(toClient)
  IN /\ cli.pc = "data"
     /\ toClient # <<>>
     /\ \/ /\ m.type = "start"
           /\ ClientReceives(<<AckStart>>)
           /\ cli' = Receiving(m.n, cli.data)
        \/ /\ m.type = "seq"
           /\ ClientReceives(<<AckSeq(m.n)>>)
           /\ cli' = Receiving(cli.filesize, StrCpy(cli.data, m.n, m.p))
        \/ /\ m.type \notin {"start", "seq"}
           /\ ClientReceives(<<>>)
           /\ UNCHANGED cli
     /\ UNCHANGED <<puts, sent, serverVars>>

ClientStep == awaitAck \/ sendFrames \/ awaitStart \/ receiveData

ClientTypeOK ==
  /\ cli \in Client
  /\ puts \in Nat
  /\ sent \in [Files -> Text]
=============================================================================
