-------------------------------- MODULE Udp ---------------------------------
(***************************************************************************)
(* The UDP file transfer of PA1: one client, the server, and a network     *)
(* that may lose and duplicate datagrams.                                  *)
(***************************************************************************)
EXTENDS UdpClient

Init == NetInit /\ ServerInit /\ ClientInit

NetStep == (Lose \/ Duplicate) /\ UNCHANGED <<serverVars, clientVars>>

Next ==
  \/ UserStep
  \/ ClientStep
  \/ ServerStep /\ UNCHANGED clientVars
  \/ NetStep

Spec == Init /\ [][Next]_vars

\* Both programs run; the user need not type, the network need not fail.
FairSpec ==
  /\ Spec
  /\ WF_vars(ClientStep)
  /\ WF_vars(ServerStep /\ UNCHANGED clientVars)

-----------------------------------------------------------------------------

TypeOK ==
  /\ toServer \in Seq(Datagrams)
  /\ toClient \in Seq(Datagrams)
  /\ losses \in Nat /\ duplicates \in Nat
  /\ ServerTypeOK
  /\ ClientTypeOK

Asked(op) == cli.pc = "prompt" /\ cli.command.cmd.op = op

\* The frames of both programs have their headers.
HeadersKept == "lost" \notin {ClientLayout, ServerLayout}

\* The sequence numbers start again at 0 within the text.
Wraps(t) == t.len > MaxSeq + 1

\* The network has neither lost nor duplicated anything.
Faultless == losses = 0 /\ duplicates = 0

(***************************************************************************)
(* On a network without faults, and in every build, a get that ends has    *)
(* the text of the last put of the file that the client reported as sent,  *)
(* and ls lists just those files.  The server acknowledges the last frame  *)
(* before it has written the file, so a get sent at once races with the    *)
(* write.  The text is as it was sent where the arrays of both programs    *)
(* are apart; where a sender's are joined it is shifted on the way (being  *)
(* shifted twice is not told from once); and where a header is lost, or    *)
(* the numbers of a file wrap around, no get that should return it ends.   *)
(***************************************************************************)
AnswersAreCurrent ==
  Faultless =>
    /\ Asked("get") =>
         cli.got = Carried(ServerLayout, Carried(ClientLayout, sent[cli.command.cmd.file]))
    /\ Asked("ls") =>
         cli.got = Carried(ServerLayout, ListText({f \in Files : sent[f] # NoText}))

(***************************************************************************)
(* On a network without faults there is never more than one frame or       *)
(* acknowledgement of a frame under way: the loops that send again on any  *)
(* unexpected datagram never have a reason to, and nothing of one command  *)
(* is left over for the next.                                              *)
(***************************************************************************)
Transfers(ch) == {i \in DOMAIN ch : ch[i].type \in {"seq", "headless", "ack seq"}}

StopAndWait ==
  Faultless =>
    /\ Cardinality(Transfers(toServer)) + Cardinality(Transfers(toClient)) <= 1
    /\ cli.pc = "prompt" => toClient = <<>>

(***************************************************************************)
(* No transfer is ever put together from frames of different texts,        *)
(* whatever the network lost or duplicated: frames carry no name of their  *)
(* transfer, only a number.                                                *)
(***************************************************************************)
NothingMixed ==
  /\ cli.got.kind # "mixed"
  /\ \A f \in Files : store[f].kind # "mixed"

(***************************************************************************)
(* What the client reported with "file sent successfully" (udp_client.c,   *)
(* line 198) is in the server's directory in the end, unless a later put   *)
(* has replaced it, whatever the network lost or duplicated: the client    *)
(* reports when the last frame is acknowledged and the server has yet to   *)
(* find its buffer full and write the file.  For a build that keeps the    *)
(* headers and a file whose numbers do not wrap around: of any other file  *)
(* that the client reports, the server never has the last frames.          *)
(***************************************************************************)
SentIsStored ==
  \A f \in Files, v \in 1..MaxPuts :
    (sent[f].ver = v /\ HeadersKept /\ ~Wraps(sent[f])) ~> (store[f].ver >= v)

Busy == cli.pc \notin {"prompt", "gone"}

(***************************************************************************)
(* As long as the network has no faults, every command but exit comes back *)
(* to the prompt, in a build that keeps the headers.  After a put whose    *)
(* numbers wrap around the server receives forever and answers nothing     *)
(* else.                                                                   *)
(***************************************************************************)
CommandsEnd ==
  (HeadersKept /\ Busy /\ cli.command.cmd.op # "exit")
    ~> (~Busy \/ ~Faultless \/ \E f \in Files : Wraps(sent[f]))

(***************************************************************************)
(* The client sends its command again after a timeout until it is          *)
(* acknowledged (udp_client.c:132), so a command ends although datagrams   *)
(* were lost.                                                              *)
(***************************************************************************)
CommandsOutliveLosses == (Busy /\ cli.command.cmd.op # "exit") ~> ~Busy
=============================================================================
