----------------------------- MODULE UdpProofs ------------------------------
(***************************************************************************)
(* Proofs about the UDP file transfer, for any files, lengths of texts,    *)
(* numbers of commands and faults of the network.                          *)
(***************************************************************************)
EXTENDS Udp, FiniteSetTheorems, SequenceTheorems, TLAPS

-----------------------------------------------------------------------------
\* Types.

\* What the programs send: a get names a file, and a START a length that fits.
Sendable ==
  {m \in Datagrams : /\ m.cmd.op = "get" => m.cmd.file \in Files
                     /\ m.type = "start" => m.n \in Slots}

\* The place in the text that is sent.
PlacesOK ==
  /\ srv.pc = "start" => srv.i = 0 /\ srv.seq = 0
  /\ srv.pc = "frames" => srv.i < srv.response.len
  /\ cli.pc = "ack" => cli.i = 0 /\ cli.seq = 0
  /\ cli.pc = "ack" /\ cli.command.cmd.op = "put" => cli.request.len > 0
  /\ cli.pc = "frames" => cli.i < cli.request.len

TypeInv ==
  /\ TypeOK
  /\ toServer \in Seq(Sendable) /\ toClient \in Seq(Sendable)
  /\ cli.command \in Sendable /\ srv.request \in Sendable
  /\ PlacesOK

LEMMA SlotsType == 0 \in Slots /\ 1 \in Slots /\ 2 \in Slots /\ Slots \subseteq Nat /\ MaxLen \in Nat
  BY NetAssumption DEF Slots

LEMMA NoTextType == NoText \in Text /\ NoText.len = 0 /\ Gap \in Frames
<1>1. NoText \in Text /\ NoText.len = 0
  BY SlotsType DEF NoText, Plain, Text, Slots
<1> QED
  BY <1>1, SlotsType DEF Gap, Frame, Frames

LEMMA TextTypes ==
  ASSUME NEW len \in Slots
  PROVE  /\ \A kind \in {"none", "file", "list", "error", "mixed"} : Plain(kind, len) \in Text
         /\ \A v \in Nat : FileText(v, len) \in Text /\ FileText(v, len).len = len
         /\ \A S \in SUBSET Files : ListText(S) \in Text /\ ListText(S).len = 1 /\ ListText(S).names = S
  BY SlotsType DEF Plain, FileText, ListText, Text, Slots

\* What becomes of a text on its way.
LEMMA CarriedFacts ==
  ASSUME NEW l \in Layouts, NEW t \in Text
  PROVE  /\ Carried(l, t) \in Text
         /\ Carried(l, t).len = t.len /\ Carried(l, t).kind = t.kind
         /\ Carried(l, t) = NoText <=> t = NoText
<1>1. t.len \in Nat
  BY SlotsType DEF Text, Slots
<1>2. CASE l = "joined" /\ t.len > 0
  <2>1. Carried(l, t) = [t EXCEPT !.shifted = TRUE]
    BY <1>2 DEF Carried
  <2>2. [t EXCEPT !.shifted = TRUE] \in Text /\ [t EXCEPT !.shifted = TRUE].len = t.len
        /\ [t EXCEPT !.shifted = TRUE].kind = t.kind
    BY DEF Text
  <2>3. Carried(l, t) \in Text /\ Carried(l, t).len = t.len /\ Carried(l, t).kind = t.kind
    BY <2>1, <2>2
  <2>4. t # NoText /\ Carried(l, t) # NoText
    <3> HIDE DEF NoText
    <3> QED
      BY <1>1, <1>2, <2>3, NoTextType
  <2> QED
    BY <2>3, <2>4
<1>3. CASE ~(l = "joined" /\ t.len > 0)
  BY <1>3 DEF Carried
<1> QED
  BY <1>2, <1>3

\* What arrives of a put, and of an answer; what is kept of the texts sent.
Upload      == Carried(ClientLayout, cli.request)
Download    == Carried(ServerLayout, srv.response)
Kept(files) == [f \in Files |-> Carried(ClientLayout, files[f])]

LEMMA KeptFacts ==
  ASSUME NEW files \in [Files -> Text]
  PROVE  /\ \A f \in Files : Kept(files)[f] = Carried(ClientLayout, files[f])
         /\ \A f \in Files : Kept(files)[f] = NoText <=> files[f] = NoText
         /\ \A f \in Files, t \in Text :
               Kept([files EXCEPT ![f] = t]) = [Kept(files) EXCEPT ![f] = Carried(ClientLayout, t)]
<1>1. \A f \in Files : Kept(files)[f] = Carried(ClientLayout, files[f])
  BY DEF Kept
<1>2. \A f \in Files : Kept(files)[f] = NoText <=> files[f] = NoText
  BY <1>1, CarriedFacts, NetAssumption
<1>3. ASSUME NEW f \in Files, NEW t \in Text
      PROVE  Kept([files EXCEPT ![f] = t]) = [Kept(files) EXCEPT ![f] = Carried(ClientLayout, t)]
  BY DEF Kept
<1> QED
  BY <1>1, <1>2, <1>3

\* A frame with its header, as it arrives.
SentFrame(t, i) == Datagram("seq", NoCmd, i, Frame(t, i))

LEMMA SentFrameFields ==
  ASSUME NEW t, NEW i
  PROVE  /\ SentFrame(t, i).type = "seq" /\ SentFrame(t, i).n = i
         /\ SentFrame(t, i).p = Frame(t, i)
         /\ SentFrame(t, i).cmd = NoCmd /\ NoCmd.op = "none"
  BY DEF SentFrame, Datagram, NoCmd, Cmd

LEMMA SeqFrames ==
  ASSUME HeadersKept, NEW l \in {ClientLayout, ServerLayout}, NEW t \in Text, t.len > 0, NEW i
  PROVE  SeqFrame(l, i, Frame(t, i)) = SentFrame(Carried(l, t), i)
<1>1. l \in {"apart", "joined"}
  BY NetAssumption DEF HeadersKept, Layouts
<1>2. CASE l = "apart"
  BY <1>2 DEF SeqFrame, SentFrame, Carried
<1>3. CASE l = "joined"
  <2>1. [Frame(t, i) EXCEPT !.text.shifted = TRUE] = Frame([t EXCEPT !.shifted = TRUE], i)
    <3>1. \A a : [[text |-> t, i |-> i] EXCEPT !.text = a] = [text |-> a, i |-> i]
      OBVIOUS
    <3>2. [[text |-> t, i |-> i] EXCEPT !.text.shifted = TRUE]
            = [[text |-> t, i |-> i] EXCEPT !.text = [t EXCEPT !.shifted = TRUE]]
      OBVIOUS
    <3> QED
      BY <3>1, <3>2 DEF Frame
  <2>2. Carried(l, t) = [t EXCEPT !.shifted = TRUE]
    BY <1>3 DEF Carried
  <2>3. SeqFrame(l, i, Frame(t, i)) = Datagram("seq", NoCmd, i, [Frame(t, i) EXCEPT !.text.shifted = TRUE])
    BY <1>3 DEF SeqFrame
  <2> QED
    BY <2>1, <2>2, <2>3 DEF SentFrame
<1> QED
  BY <1>1, <1>2, <1>3

LEMMA FrameType ==
  ASSUME NEW t \in Text, NEW i \in Slots
  PROVE  Frame(t, i) \in Frames
  BY DEF Frame, Frames

CmdType ==
  [op : {"none", "put", "get", "ls", "other", "exit"}, file : Files \cup {None}, len : 0..MaxLen]

LEMMA DatagramTypes ==
  /\ \A cmd \in CmdType : (cmd.op = "get" => cmd.file \in Files) =>
        Command(cmd) \in Sendable /\ AckCommand(cmd) \in Sendable
  /\ \A n \in Slots : Start(n) \in Sendable
  /\ AckStart \in Sendable /\ AckExit \in Sendable
  /\ \A n \in Nat : AckSeq(n) \in Sendable
  /\ \A l \in Layouts, n \in Nat, p \in Frames : SeqFrame(l, n, p) \in Sendable
<1>1. NoCmd \in CmdType /\ NoCmd.op = "none"
  BY SlotsType DEF NoCmd, Cmd, CmdType, Slots
<1>2. ASSUME NEW type \in {"command", "ack command", "start", "ack start", "seq", "headless",
                            "ack seq", "ack exit"},
             NEW cmd \in CmdType, NEW n \in Nat, NEW p \in Frames,
             cmd.op = "get" => cmd.file \in Files, type = "start" => n \in Slots
      PROVE  Datagram(type, cmd, n, p) \in Sendable
  BY <1>2 DEF Datagram, Sendable, Datagrams, CmdType
<1>3. 0 \in Nat /\ Gap \in Frames /\ Slots \subseteq Nat
  BY NoTextType, SlotsType
<1>4. \A cmd \in CmdType : (cmd.op = "get" => cmd.file \in Files) =>
        Command(cmd) \in Sendable /\ AckCommand(cmd) \in Sendable
  BY <1>2, <1>3 DEF Command, AckCommand
<1>5. \A n \in Slots : Start(n) \in Sendable
  BY <1>1, <1>2, <1>3 DEF Start
<1>6. AckStart \in Sendable /\ AckExit \in Sendable /\ \A n \in Nat : AckSeq(n) \in Sendable
  BY <1>1, <1>2, <1>3 DEF AckStart, AckExit, AckSeq
<1>7. ASSUME NEW l \in Layouts, NEW n \in Nat, NEW p \in Frames
      PROVE  SeqFrame(l, n, p) \in Sendable
  <2>1. [p EXCEPT !.text.shifted = TRUE] \in Frames
    BY DEF Frames, Text
  <2> QED
    BY <1>1, <1>2, <1>3, <2>1 DEF SeqFrame, Layouts
<1> QED
  BY <1>4, <1>5, <1>6, <1>7

\* What the channels hold stays sendable.
LEMMA ArrivingType ==
  ASSUME NEW ch \in Seq(Sendable), NEW ms \in Seq(Sendable)
  PROVE  Arriving(ch, ms) \in Seq(Sendable)
  BY NetAssumption DEF Arriving

LEMMA FaultType ==
  ASSUME NEW ch \in Seq(Sendable), NEW i \in DOMAIN ch
  PROVE  Without(ch, i) \in Seq(Sendable) /\ Twice(ch, i) \in Seq(Sendable)
  BY DEF Without, Twice

LEMMA HeadType ==
  ASSUME NEW ch \in Seq(Sendable), ch # <<>>
  PROVE  Head(ch) \in Sendable /\ Tail(ch) \in Seq(Sendable)
  OBVIOUS

LEMMA BufferTypes ==
  ASSUME NEW data \in [Slots -> Frames]
  PROVE  /\ EmptyBuffer \in [Slots -> Frames]
         /\ \A n : \A p \in Frames : StrCpy(data, n, p) \in [Slots -> Frames]
         /\ \A len \in Slots : Contents(data, len) \in Text
<1>1. EmptyBuffer \in [Slots -> Frames]
  BY NoTextType DEF EmptyBuffer
<1>2. ASSUME NEW n, NEW p \in Frames
      PROVE  StrCpy(data, n, p) \in [Slots -> Frames]
  BY NoTextType DEF StrCpy
<1>3. ASSUME NEW len \in Slots
      PROVE  Contents(data, len) \in Text
  <2>1. data[0].text \in Text
    BY SlotsType DEF Frames
  <2>2. Plain("mixed", len) \in Text
    BY TextTypes
  <2> QED
    BY <2>1, <2>2, NoTextType DEF Contents
<1> QED
  BY <1>1, <1>2, <1>3

LEMMA PayloadType ==
  ASSUME NEW m \in Sendable
  PROVE  /\ m \in Datagrams /\ m.cmd \in CmdType /\ m.n \in Nat /\ m.p \in Frames
         /\ Number(m) \in Nat /\ Payload(m) \in Frames
         /\ m.cmd.op = "get" => m.cmd.file \in Files
         /\ m.type = "start" => m.n \in Slots
         /\ Echo(m) \in Sendable
<1>1. /\ m \in Datagrams /\ m.cmd \in CmdType /\ m.n \in Nat /\ m.p \in Frames
      /\ m.cmd.op = "get" => m.cmd.file \in Files
      /\ m.type = "start" => m.n \in Slots
  BY DEF Sendable, Datagrams, CmdType
<1>2. Number(m) \in Nat /\ Payload(m) \in Frames
  BY <1>1, NoTextType DEF Number, Payload
<1>3. Echo(m) \in Sendable
  BY <1>1, DatagramTypes DEF Echo
<1> QED
  BY <1>1, <1>2, <1>3

LEMMA IdleType == Idle \in Server /\ Idle.pc = "command" /\ Idle.i = 0 /\ Idle.seq = 0
                  /\ Idle.request \in Sendable /\ Idle.data = EmptyBuffer /\ EmptyBuffer \in [Slots -> Frames]
<1>1. EmptyBuffer \in [Slots -> Frames]
  BY NoTextType DEF EmptyBuffer
<1>2. NoCmd \in CmdType /\ NoCmd.op # "get"
  BY SlotsType DEF NoCmd, Cmd, CmdType, Slots
<1>3. Command(NoCmd) \in Datagrams /\ Command(NoCmd) \in Sendable
  BY <1>2, DatagramTypes DEF Sendable
<1> QED
  BY <1>1, <1>3, NoTextType, SlotsType DEF Idle, Server

LEMMA InitTypes == Init => TypeInv
<1> SUFFICES ASSUME Init PROVE TypeInv
  OBVIOUS
<1>1. /\ store \in [Files -> Text] /\ sent \in [Files -> Text] /\ puts \in Nat
      /\ losses \in Nat /\ duplicates \in Nat
      /\ toServer = <<>> /\ toClient = <<>>
  BY NoTextType DEF Init, NetInit, ServerInit, ClientInit
<1>2. Command(NoCmd) \in Sendable
  BY SlotsType, DatagramTypes DEF NoCmd, Cmd, CmdType, Slots
<1>3. cli \in Client /\ cli.pc = "prompt" /\ cli.command \in Sendable
  BY <1>2, IdleType, NoTextType, SlotsType DEF Init, ClientInit, Client, Sendable
<1>4. srv \in Server /\ srv.pc = "command" /\ srv.request \in Sendable
  BY IdleType DEF Init, ServerInit
<1>5. <<>> \in Seq(Sendable) /\ <<>> \in Seq(Datagrams)
  OBVIOUS
<1> QED
  BY <1>1, <1>3, <1>4, <1>5 DEF TypeInv, TypeOK, ServerTypeOK, ClientTypeOK, PlacesOK

\* A step that keeps the parts of the type invariant.
LEMMA TypeStep ==
  ASSUME toServer' \in Seq(Sendable), toClient' \in Seq(Sendable), losses' \in Nat, duplicates' \in Nat,
         store' \in [Files -> Text], srv' \in Server, cli' \in Client, puts' \in Nat,
         sent' \in [Files -> Text], cli'.command \in Sendable, srv'.request \in Sendable, PlacesOK'
  PROVE  TypeInv'
<1>1. Seq(Sendable) \subseteq Seq(Datagrams)
  BY DEF Sendable
<1> QED
  BY <1>1 DEF TypeInv, TypeOK, ServerTypeOK, ClientTypeOK, Sendable

\* What the invariant says of the fields.
LEMMA Fields ==
  ASSUME TypeInv
  PROVE  /\ toServer \in Seq(Sendable) /\ toClient \in Seq(Sendable)
         /\ losses \in Nat /\ duplicates \in Nat /\ puts \in Nat
         /\ store \in [Files -> Text] /\ sent \in [Files -> Text]
         /\ srv \in Server /\ cli \in Client /\ cli.command \in Sendable /\ srv.request \in Sendable
         /\ srv.response \in Text /\ srv.i \in Slots /\ srv.seq \in Nat
         /\ srv.data \in [Slots -> Frames]
         /\ cli.request \in Text /\ cli.i \in Slots /\ cli.seq \in Nat /\ cli.filesize \in Slots
         /\ cli.data \in [Slots -> Frames] /\ cli.got \in Text
         /\ srv.response.len \in Slots /\ cli.request.len \in Slots
         /\ PlacesOK
<1>1. srv \in Server /\ cli \in Client
  BY DEF TypeInv, TypeOK, ServerTypeOK, ClientTypeOK
<1>2. /\ srv.response \in Text /\ srv.i \in Slots /\ srv.seq \in Nat
      /\ srv.data \in [Slots -> Frames]
  BY <1>1 DEF Server
<1>3. /\ cli.request \in Text /\ cli.i \in Slots /\ cli.seq \in Nat /\ cli.filesize \in Slots
      /\ cli.data \in [Slots -> Frames] /\ cli.got \in Text
  BY <1>1 DEF Client
<1>4. srv.response.len \in Slots /\ cli.request.len \in Slots
  BY <1>2, <1>3 DEF Text, Slots
<1> QED
  BY <1>1, <1>2, <1>3, <1>4 DEF TypeInv, TypeOK, ServerTypeOK, ClientTypeOK

LEMMA UploadFacts ==
  ASSUME TypeInv
  PROVE  /\ Upload \in Text /\ Upload.len = cli.request.len /\ Upload.kind = cli.request.kind
         /\ Download \in Text /\ Download.len = srv.response.len /\ Download.kind = srv.response.kind
  BY Fields, CarriedFacts, NetAssumption DEF Upload, Download

LEMMA ServerChannels ==
  ASSUME TypeInv, toServer # <<>>, NEW answers \in Seq(Sendable), ServerReceives(answers)
  PROVE  /\ toServer' \in Seq(Sendable) /\ toClient' \in Seq(Sendable)
         /\ losses' \in Nat /\ duplicates' \in Nat
  BY Fields, HeadType, ArrivingType DEF ServerReceives

LEMMA AnswerTypes ==
  /\ <<>> \in Seq(Sendable)
  /\ \A a \in Sendable : <<a>> \in Seq(Sendable)
  /\ \A a, b \in Sendable : <<a, b>> \in Seq(Sendable)
  OBVIOUS

LEMMA ServerTypes ==
  ASSUME TypeInv, toServer # <<>>, \E answers \in Seq(Sendable) : ServerReceives(answers),
         UNCHANGED clientVars, UNCHANGED store, srv' \in Server, srv'.request \in Sendable, PlacesOK'
  PROVE  TypeInv'
<1>1. /\ toServer' \in Seq(Sendable) /\ toClient' \in Seq(Sendable)
      /\ losses' \in Nat /\ duplicates' \in Nat
  BY ServerChannels
<1> QED
  BY <1>1, TypeStep, Fields DEF clientVars

LEMMA ClientChannels ==
  ASSUME TypeInv, toClient # <<>>, NEW answers \in Seq(Sendable), ClientReceives(answers)
  PROVE  /\ toServer' \in Seq(Sendable) /\ toClient' \in Seq(Sendable)
         /\ losses' \in Nat /\ duplicates' \in Nat
  BY Fields, HeadType, ArrivingType DEF ClientReceives

LEMMA ResponseType ==
  ASSUME TypeInv, NEW m \in Sendable
  PROVE  Response(m) \in Text /\ Response(m).len \in Slots
<1>1. m.cmd.op = "get" => m.cmd.file \in Files
  BY PayloadType
<1>2. store \in [Files -> Text]
  BY Fields
<1>3. Response(m) \in Text
  <2>1. \A S \in SUBSET Files : ListText(S) \in Text
    BY TextTypes, SlotsType
  <2>2. \A n \in {1, 2} : Plain("error", n) \in Text
    BY TextTypes, SlotsType
  <2> QED
    BY <1>1, <1>2, <2>1, <2>2 DEF Response
<1> QED
  BY <1>3 DEF Text, Slots

LEMMA SrvCommandTypes ==
  ASSUME TypeInv, srvCommand, UNCHANGED clientVars
  PROVE  TypeInv'
<1> DEFINE m == Head(toServer)
           t == Response(m)
<1>1. srv.pc = "command" /\ toServer # <<>> /\ UNCHANGED store
  BY DEF srvCommand
<1>2. m \in Sendable
  BY <1>1, Fields, HeadType
<1>3. m \in Datagrams /\ Echo(m) \in Sendable /\ t \in Text /\ t.len \in Slots
  BY <1>2, PayloadType, ResponseType
<1>4. Start(t.len) \in Sendable /\ AckExit \in Sendable
  BY <1>3, DatagramTypes
<1>5. \/ ServerReceives(<<Echo(m)>>) /\ srv' = [Idle EXCEPT !.pc = "put", !.request = m]
      \/ ServerReceives(<<Echo(m), AckExit>>) /\ srv' = [Idle EXCEPT !.pc = "gone"]
      \/ /\ ServerReceives(<<Echo(m), Start(t.len)>>)
         /\ srv' = [Idle EXCEPT !.pc = "start", !.request = m, !.response = t]
  BY DEF srvCommand
<1> HIDE DEF m, t
<1>6. \E answers \in Seq(Sendable) : ServerReceives(answers)
  BY <1>3, <1>4, <1>5, AnswerTypes, Zenon
<1>7. /\ srv' \in Server /\ srv'.pc \in {"put", "gone", "start"} /\ srv'.i = 0 /\ srv'.seq = 0
      /\ srv'.request \in Sendable
  BY <1>2, <1>3, <1>5, IdleType DEF Server
<1>8. PlacesOK'
  BY <1>7, Fields DEF PlacesOK, clientVars
<1> QED
  BY <1>1, <1>6, <1>7, <1>8, ServerTypes

LEMMA SrvPutTypes ==
  ASSUME TypeInv, srvPut, UNCHANGED clientVars
  PROVE  TypeInv'
<1> DEFINE m == Head(toServer)
           data == StrCpy(srv.data, Number(m), Payload(m))
<1>1. srv.pc = "put" /\ toServer # <<>> /\ UNCHANGED store
  BY DEF srvPut
<1>2. m \in Sendable
  BY <1>1, Fields, HeadType
<1>3. Number(m) \in Nat /\ data \in [Slots -> Frames]
  BY <1>2, PayloadType, Fields, BufferTypes
<1>4. AckSeq(Number(m)) \in Sendable
  BY <1>3, DatagramTypes
<1>5. Echo(srv.request) \in Sendable
  BY Fields, PayloadType
<1>6. \/ ServerReceives(<<Echo(srv.request)>>) /\ srv' = srv
      \/ /\ ServerReceives(<<AckSeq(Number(m))>>)
         /\ \E pc \in {"save", "put"} : srv' = [srv EXCEPT !.data = data, !.pc = pc]
  BY DEF srvPut
<1> HIDE DEF m, data
<1>7. \E answers \in Seq(Sendable) : ServerReceives(answers)
  BY <1>4, <1>5, <1>6, AnswerTypes, Zenon
<1>8. srv' \in Server /\ srv'.pc \in {"put", "save"} /\ srv'.request \in Sendable
  BY <1>1, <1>3, <1>6, Fields DEF Server
<1>9. PlacesOK'
  BY <1>8, Fields DEF PlacesOK, clientVars
<1> QED
  BY <1>1, <1>7, <1>8, <1>9, ServerTypes

LEMMA SrvSaveTypes ==
  ASSUME TypeInv, srvSave, UNCHANGED clientVars
  PROVE  TypeInv'
<1> DEFINE cmd == srv.request.cmd
           t == Contents(srv.data, cmd.len)
<1>1. t \in Text
  <2>1. cmd.len \in Slots
    BY Fields, PayloadType DEF CmdType, Slots
  <2> QED
    BY <2>1, Fields, BufferTypes
<1>2. store' = [store EXCEPT ![cmd.file] = t] /\ srv' = Idle /\ UNCHANGED netVars
  BY DEF srvSave
<1> HIDE DEF t
<1>3. store' \in [Files -> Text]
  BY <1>1, <1>2, Fields
<1>4. PlacesOK'
  BY <1>2, IdleType, Fields DEF PlacesOK, clientVars
<1> QED
  BY <1>2, <1>3, <1>4, IdleType, TypeStep, Fields DEF clientVars, netVars

LEMMA SrvStartTypes ==
  ASSUME TypeInv, srvStart, UNCHANGED clientVars
  PROVE  TypeInv'
<1> DEFINE m == Head(toServer)
           t == srv.response
<1>1. srv.pc = "start" /\ toServer # <<>> /\ UNCHANGED store /\ srv.i = 0
  BY Fields DEF srvStart, PlacesOK
<1>2. m \in Sendable /\ t \in Text /\ t.len \in Slots
  BY <1>1, Fields, HeadType
<1>3. Echo(m) \in Sendable
  BY <1>2, PayloadType
<1>4. Start(t.len) \in Sendable /\ SeqFrame(ServerLayout, 0, Frame(t, 0)) \in Sendable
  BY <1>2, DatagramTypes, FrameType, SlotsType, NetAssumption
<1>5. \/ t.len > 0 /\ ServerReceives(<<SeqFrame(ServerLayout, 0, Frame(t, 0))>>) /\ srv' = [srv EXCEPT !.pc = "frames"]
      \/ ServerReceives(<<>>) /\ srv' = Idle
      \/ ServerReceives(<<Echo(m), Start(t.len)>>) /\ srv' = srv
      \/ ServerReceives(<<Start(t.len)>>) /\ srv' = srv
  BY DEF srvStart
<1> HIDE DEF m
<1>6. \E answers \in Seq(Sendable) : ServerReceives(answers)
  BY <1>3, <1>4, <1>5, AnswerTypes, Zenon
<1>7. srv' \in Server /\ srv'.request \in Sendable
  BY <1>5, Fields, IdleType DEF Server
<1>8. PlacesOK'
  <2>1. CASE t.len > 0 /\ srv' = [srv EXCEPT !.pc = "frames"]
    <3>1. srv'.pc = "frames" /\ srv'.i = srv.i /\ srv'.response = t
      BY <2>1, Fields DEF Server
    <3> QED
      BY <1>1, <2>1, <3>1, Fields DEF PlacesOK, clientVars
  <2>2. CASE srv' = Idle
    BY <2>2, IdleType, Fields DEF PlacesOK, clientVars
  <2>3. CASE srv' = srv
    BY <2>3, Fields DEF PlacesOK, clientVars
  <2> QED
    BY <1>5, <2>1, <2>2, <2>3
<1> QED
  BY <1>1, <1>6, <1>7, <1>8, ServerTypes

LEMMA NextSeqType ==
  ASSUME NEW n \in Nat
  PROVE  NextSeq(n) \in Nat
  BY DEF NextSeq

LEMMA PlaceAfter ==
  ASSUME NEW i \in Slots, NEW len \in Slots, i < len
  PROVE  i + 1 \in Slots
  BY NetAssumption DEF Slots

LEMMA SrvFramesTypes ==
  ASSUME TypeInv, srvFrames, UNCHANGED clientVars
  PROVE  TypeInv'
<1> DEFINE t == srv.response
           next == [srv EXCEPT !.i = srv.i + 1, !.seq = NextSeq(srv.seq)]
<1>1. srv.pc = "frames" /\ toServer # <<>> /\ UNCHANGED store /\ srv.i < t.len
  BY Fields DEF srvFrames, PlacesOK
<1>2. t \in Text /\ t.len \in Slots /\ srv.i \in Slots /\ srv.seq \in Nat /\ srv.i + 1 \in Slots
  <2>1. t \in Text /\ t.len \in Slots /\ srv.i \in Slots /\ srv.seq \in Nat
    BY Fields
  <2> QED
    BY <1>1, <2>1, PlaceAfter
<1>3. next \in Server /\ next.pc = "frames" /\ next.i = srv.i + 1 /\ next.seq = NextSeq(srv.seq)
      /\ next.response = t /\ next.request \in Sendable
  BY <1>1, <1>2, NextSeqType, Fields DEF Server
<1>4. SeqFrame(ServerLayout, next.seq, Frame(t, next.i)) \in Sendable /\ SeqFrame(ServerLayout, srv.seq, Frame(t, srv.i)) \in Sendable
  BY <1>2, <1>3, NextSeqType, DatagramTypes, FrameType, NetAssumption
<1>5. \/ next.i < t.len /\ ServerReceives(<<SeqFrame(ServerLayout, next.seq, Frame(t, next.i))>>) /\ srv' = next
      \/ ServerReceives(<<>>) /\ srv' = Idle
      \/ ServerReceives(<<SeqFrame(ServerLayout, srv.seq, Frame(t, srv.i))>>) /\ srv' = srv
  BY Zenon DEF srvFrames
<1> HIDE DEF next
<1>6. \E answers \in Seq(Sendable) : ServerReceives(answers)
  BY <1>4, <1>5, AnswerTypes, Zenon
<1>7. srv' \in Server /\ srv'.request \in Sendable
  BY <1>3, <1>5, Fields, IdleType
<1>8. PlacesOK'
  BY <1>1, <1>3, <1>5, IdleType, Fields DEF PlacesOK, clientVars
<1> QED
  BY <1>1, <1>6, <1>7, <1>8, ServerTypes

-----------------------------------------------------------------------------

LEMMA ClientTypes ==
  ASSUME TypeInv, toClient # <<>>, \E answers \in Seq(Sendable) : ClientReceives(answers),
         UNCHANGED serverVars, UNCHANGED puts, cli' \in Client, cli'.command \in Sendable,
         sent' \in [Files -> Text], PlacesOK'
  PROVE  TypeInv'
<1>1. /\ toServer' \in Seq(Sendable) /\ toClient' \in Seq(Sendable)
      /\ losses' \in Nat /\ duplicates' \in Nat
  BY ClientChannels
<1> QED
  BY <1>1, TypeStep, Fields DEF serverVars

LEMMA SendsTypes ==
  ASSUME TypeInv, cli.pc = "prompt", NEW cmd \in CmdType, cmd.op = "get" => cmd.file \in Files,
         NEW t \in Text, cmd.op = "put" => t.len > 0, Sends(cmd, t),
         UNCHANGED <<sent, serverVars>>, puts' \in Nat
  PROVE  TypeInv'
<1>1. Command(cmd) \in Sendable /\ Command(cmd) \in Datagrams /\ Command(cmd).cmd = cmd
  BY DatagramTypes DEF Sendable, Command, Datagram
<1>2. /\ cli' \in Client /\ cli'.pc = "ack" /\ cli'.command = Command(cmd) /\ cli'.request = t
      /\ cli'.i = 0 /\ cli'.seq = 0
  BY <1>1, Fields, SlotsType, NoTextType DEF Sends, Client
<1>3. PlacesOK'
  BY <1>1, <1>2, Fields DEF PlacesOK, serverVars
<1>4. toServer' \in Seq(Sendable) /\ UNCHANGED <<toClient, losses, duplicates>>
  BY <1>1, Fields, AnswerTypes, ArrivingType DEF Sends
<1> QED
  BY <1>1, <1>2, <1>3, <1>4, Fields, TypeStep DEF serverVars

LEMMA UserTypes ==
  ASSUME TypeInv, UserStep
  PROVE  TypeInv'
<1>1. CASE typePut
  <2>1. PICK f \in Files, len \in FileLens :
          /\ cli.pc = "prompt" /\ puts' = puts + 1 /\ UNCHANGED <<sent, serverVars>>
          /\ Sends(Cmd("put", f, len), FileText(puts + 1, len))
    BY <1>1 DEF typePut, Types
  <2>2. len \in Slots /\ len > 0 /\ puts + 1 \in Nat
    <3>1. len \in 1..MaxLen /\ puts \in Nat
      BY Fields, WorkloadAssumption
    <3> QED
      BY <3>1, SlotsType DEF Slots
  <2>3. Cmd("put", f, len) \in CmdType /\ Cmd("put", f, len).op = "put"
    BY <2>2 DEF Cmd, CmdType, Slots
  <2>4. FileText(puts + 1, len) \in Text /\ FileText(puts + 1, len).len = len
    BY <2>2, TextTypes
  <2> QED
    BY <2>1, <2>2, <2>3, <2>4, SendsTypes
<1>2. CASE typeGet
  <2>1. PICK f \in Files : cli.pc = "prompt" /\ UNCHANGED <<puts, sent, serverVars>>
                           /\ Sends(Cmd("get", f, 0), NoText)
    BY <1>2 DEF typeGet, Types
  <2>2. Cmd("get", f, 0) \in CmdType /\ Cmd("get", f, 0).op = "get" /\ Cmd("get", f, 0).file \in Files
    BY SlotsType DEF Cmd, CmdType, Slots
  <2> QED
    BY <2>1, <2>2, Fields, NoTextType, SendsTypes
<1>3. CASE typeOther
  <2>1. PICK op \in {"ls", "other", "exit"} : cli.pc = "prompt" /\ UNCHANGED <<puts, sent, serverVars>>
                                              /\ Sends(Cmd(op, None, 0), NoText)
    BY <1>3 DEF typeOther, Types
  <2>2. Cmd(op, None, 0) \in CmdType /\ Cmd(op, None, 0).op \notin {"get", "put"}
    BY SlotsType DEF Cmd, CmdType, Slots
  <2> QED
    BY <2>1, <2>2, Fields, NoTextType, SendsTypes
<1>4. CASE endOfInput
  <2>1. cli' \in Client /\ cli'.pc = "gone" /\ cli'.command = cli.command
    BY <1>4, Fields DEF endOfInput, Client
  <2>2. PlacesOK'
    BY <1>4, <2>1, Fields DEF PlacesOK, endOfInput, serverVars
  <2> QED
    BY <1>4, <2>1, <2>2, Fields, TypeStep DEF endOfInput, serverVars, netVars
<1> QED
  BY <1>1, <1>2, <1>3, <1>4 DEF UserStep

LEMMA AwaitAckTypes ==
  ASSUME TypeInv, awaitAck
  PROVE  TypeInv'
<1>1. cli.pc = "ack" /\ toClient # <<>> /\ UNCHANGED <<puts, sent, serverVars>>
  BY DEF awaitAck
<1>2. SeqFrame(ClientLayout, 0, Frame(cli.request, 0)) \in Sendable
  BY Fields, SlotsType, FrameType, DatagramTypes, NetAssumption
<1>3. \/ /\ cli.command.cmd.op = "put" /\ ClientReceives(<<SeqFrame(ClientLayout, 0, Frame(cli.request, 0))>>)
         /\ cli' = [cli EXCEPT !.pc = "frames"]
      \/ ClientReceives(<<>>) /\ cli' = [cli EXCEPT !.pc = "start"]
      \/ ClientReceives(<<cli.command>>) /\ cli' = cli
  BY Zenon DEF awaitAck
<1>4. \E answers \in Seq(Sendable) : ClientReceives(answers)
  BY <1>2, <1>3, Fields, AnswerTypes, Zenon
<1>5. cli' \in Client /\ cli'.command \in Sendable
  BY <1>3, Fields DEF Client
<1>6. PlacesOK'
  <2>1. CASE cli.command.cmd.op = "put" /\ cli' = [cli EXCEPT !.pc = "frames"]
    <3>1. cli'.pc = "frames" /\ cli'.i = cli.i /\ cli'.request = cli.request
      BY <2>1, Fields DEF Client
    <3> QED
      BY <1>1, <2>1, <3>1, Fields DEF PlacesOK, serverVars
  <2>2. CASE cli' = [cli EXCEPT !.pc = "start"]
    <3>1. cli'.pc = "start"
      BY <2>2, Fields DEF Client
    <3> QED
      BY <1>1, <3>1, Fields DEF PlacesOK, serverVars
  <2>3. CASE cli' = cli
    BY <1>1, <2>3, Fields DEF PlacesOK, serverVars
  <2> QED
    BY <1>3, <2>1, <2>2, <2>3
<1> QED
  BY <1>1, <1>4, <1>5, <1>6, Fields, ClientTypes

LEMMA SendFramesTypes ==
  ASSUME TypeInv, sendFrames
  PROVE  TypeInv'
<1> DEFINE t == cli.request
           next == [cli EXCEPT !.i = cli.i + 1, !.seq = NextSeq(cli.seq)]
<1>1. cli.pc = "frames" /\ toClient # <<>> /\ UNCHANGED <<puts, serverVars>> /\ cli.i < t.len
  BY Fields DEF sendFrames, PlacesOK
<1>2. t \in Text /\ t.len \in Slots /\ cli.i \in Slots /\ cli.seq \in Nat /\ cli.i + 1 \in Slots
  <2>1. t \in Text /\ t.len \in Slots /\ cli.i \in Slots /\ cli.seq \in Nat
    BY Fields
  <2> QED
    BY <1>1, <2>1, PlaceAfter
<1>3. next \in Client /\ next.pc = "frames" /\ next.i = cli.i + 1 /\ next.seq = NextSeq(cli.seq)
      /\ next.request = t /\ next.command = cli.command
  BY <1>1, <1>2, NextSeqType, Fields DEF Client
<1>4. SeqFrame(ClientLayout, next.seq, Frame(t, next.i)) \in Sendable /\ SeqFrame(ClientLayout, cli.seq, Frame(t, cli.i)) \in Sendable
  BY <1>2, <1>3, NextSeqType, DatagramTypes, FrameType, NetAssumption
<1>5. \/ /\ next.i < t.len /\ ClientReceives(<<SeqFrame(ClientLayout, next.seq, Frame(t, next.i))>>)
         /\ cli' = next /\ sent' = sent
      \/ /\ ClientReceives(<<>>) /\ cli' = [next EXCEPT !.pc = "prompt"]
         /\ sent' = [sent EXCEPT ![cli.command.cmd.file] = t]
      \/ ClientReceives(<<SeqFrame(ClientLayout, cli.seq, Frame(t, cli.i))>>) /\ cli' = cli /\ sent' = sent
  BY Zenon DEF sendFrames
<1> HIDE DEF next
<1>6. \E answers \in Seq(Sendable) : ClientReceives(answers)
  BY <1>4, <1>5, AnswerTypes, Zenon
<1>7. cli' \in Client /\ cli'.command \in Sendable
  BY <1>3, <1>5, Fields DEF Client
<1>8. sent' \in [Files -> Text]
  BY <1>2, <1>5, Fields
<1>9. PlacesOK'
  <2>1. CASE next.i < t.len /\ cli' = next
    BY <1>1, <1>3, <2>1, Fields DEF PlacesOK, serverVars
  <2>2. CASE cli' = [next EXCEPT !.pc = "prompt"]
    <3>1. cli'.pc = "prompt"
      BY <1>3, <2>2 DEF Client
    <3> QED
      BY <1>1, <3>1, Fields DEF PlacesOK, serverVars
  <2>3. CASE cli' = cli
    BY <1>1, <2>3, Fields DEF PlacesOK, serverVars
  <2> QED
    BY <1>5, <2>1, <2>2, <2>3
<1> QED
  BY <1>1, <1>6, <1>7, <1>8, <1>9, ClientTypes

LEMMA ReceivingType ==
  ASSUME TypeInv, NEW filesize \in Slots, NEW data \in [Slots -> Frames]
  PROVE  LET y == Receiving(filesize, data)
         IN /\ y \in Client /\ y.pc \in {"prompt", "data"} /\ y.command = cli.command
            /\ y.filesize = filesize /\ y.data = data
            /\ Filled(data, filesize) => y.pc = "prompt" /\ y.got = Contents(data, filesize)
            /\ ~Filled(data, filesize) => y.pc = "data" /\ y.got = cli.got
<1>1. Contents(data, filesize) \in Text
  BY BufferTypes
<1>2. cli \in Client
  BY Fields
<1>3. CASE Filled(data, filesize)
  BY <1>1, <1>2, <1>3 DEF Receiving, Client
<1>4. CASE ~Filled(data, filesize)
  BY <1>2, <1>4 DEF Receiving, Client
<1> QED
  BY <1>3, <1>4

LEMMA ReceiveTypes ==
  ASSUME TypeInv, awaitStart \/ receiveData
  PROVE  TypeInv'
<1> DEFINE m == Head(toClient)
<1>1. /\ cli.pc \in {"start", "data"} /\ toClient # <<>> /\ UNCHANGED <<puts, sent, serverVars>>
  BY DEF awaitStart, receiveData
<1>2. m \in Sendable
  BY <1>1, Fields, HeadType
<1>3. m.n \in Nat /\ m.p \in Frames /\ (m.type = "start" => m.n \in Slots)
  BY <1>2, PayloadType
<1>4. AckStart \in Sendable /\ AckSeq(m.n) \in Sendable
  BY <1>3, DatagramTypes
<1>5. \/ m.type = "start" /\ ClientReceives(<<AckStart>>) /\ cli' = Receiving(m.n, EmptyBuffer)
      \/ m.type = "start" /\ ClientReceives(<<AckStart>>) /\ cli' = Receiving(m.n, cli.data)
      \/ /\ ClientReceives(<<AckSeq(m.n)>>)
         /\ cli' = Receiving(cli.filesize, StrCpy(cli.data, m.n, m.p))
      \/ ClientReceives(<<>>) /\ cli' = cli
  BY Zenon DEF awaitStart, receiveData
<1>6. StrCpy(cli.data, m.n, m.p) \in [Slots -> Frames] /\ EmptyBuffer \in [Slots -> Frames]
  BY <1>3, Fields, BufferTypes
<1> HIDE DEF m
<1>7. \E answers \in Seq(Sendable) : ClientReceives(answers)
  BY <1>4, <1>5, AnswerTypes, Zenon
<1>8. cli' \in Client /\ cli'.pc \in {"prompt", "start", "data"} /\ cli'.command = cli.command
  BY <1>1, <1>3, <1>5, <1>6, Fields, ReceivingType
<1>9. PlacesOK'
  BY <1>1, <1>8, Fields DEF PlacesOK, serverVars
<1> QED
  BY <1>1, <1>7, <1>8, <1>9, Fields, ClientTypes

LEMMA NetTypes ==
  ASSUME TypeInv, NetStep
  PROVE  TypeInv'
<1>1. PlacesOK' /\ UNCHANGED <<serverVars, clientVars>>
  BY Fields DEF NetStep, PlacesOK, serverVars, clientVars
<1>2. losses' \in Nat /\ duplicates' \in Nat
  BY Fields DEF NetStep, Lose, Duplicate
<1>3. ASSUME NEW ch \in Seq(Sendable), NEW i \in DOMAIN ch
      PROVE  Without(ch, i) \in Seq(Sendable) /\ Arriving(<<>>, Twice(ch, i)) \in Seq(Sendable)
  BY FaultType, ArrivingType, AnswerTypes
<1>4. ASSUME Lose PROVE toServer' \in Seq(Sendable) /\ toClient' \in Seq(Sendable)
  BY <1>3, <1>4, Fields, Zenon DEF Lose
<1>5. ASSUME Duplicate PROVE toServer' \in Seq(Sendable) /\ toClient' \in Seq(Sendable)
  BY <1>3, <1>5, Fields, Zenon DEF Duplicate
<1>6. toServer' \in Seq(Sendable) /\ toClient' \in Seq(Sendable)
  BY <1>4, <1>5 DEF NetStep
<1> QED
  BY <1>1, <1>2, <1>6, Fields, TypeStep DEF serverVars, clientVars

LEMMA NextTypes == TypeInv /\ [Next]_vars => TypeInv'
<1> SUFFICES ASSUME TypeInv, [Next]_vars PROVE TypeInv'
  OBVIOUS
<1>1. CASE UserStep
  BY <1>1, UserTypes
<1>2. CASE ClientStep
  BY <1>2, AwaitAckTypes, SendFramesTypes, ReceiveTypes DEF ClientStep
<1>3. CASE ServerStep /\ UNCHANGED clientVars
  BY <1>3, SrvCommandTypes, SrvPutTypes, SrvSaveTypes, SrvStartTypes, SrvFramesTypes DEF ServerStep
<1>4. CASE NetStep
  BY <1>4, NetTypes
<1>5. CASE UNCHANGED vars
  BY <1>5 DEF vars, netVars, serverVars, clientVars, TypeInv, TypeOK, ServerTypeOK, ClientTypeOK, PlacesOK
<1> QED
  BY <1>1, <1>2, <1>3, <1>4, <1>5 DEF Next

LEMMA TypeInvariant == Spec => []TypeInv
  BY InitTypes, NextTypes, PTL DEF Spec

(***************************************************************************)
(* Both programs, their buffers and all datagrams stay in their domains,   *)
(* whatever the network loses or duplicates: no place in a text and no     *)
(* announced size is larger than a text can be.                            *)
(***************************************************************************)
THEOREM UdpTypes == Spec => []TypeOK
<1>1. TypeInv => TypeOK
  BY DEF TypeInv
<1> QED
  BY <1>1, TypeInvariant, PTL

-----------------------------------------------------------------------------
\* A network without faults.

\* The builds keep the headers of their frames, and the numbers do not wrap
\* around within a text.
Numbered == HeadersKept /\ MaxLen <= MaxSeq + 1

\* A command also fits into a receive buffer behind an acknowledgement.
Adequate == Numbered /\ MaxQueue > 1

\* A buffer with the first n frames of t.
Prefix(t, n) == [j \in Slots |-> IF j < n THEN Frame(t, j) ELSE Gap]

\* The server has nothing more to send; it will come to the commands cmds with
\* these files in its directory.
ServerDone(cmds, files) ==
  \/ srv.pc = "command" /\ toServer = cmds /\ store = files
  \/ /\ srv.pc = "save" /\ toServer = cmds
     /\ files = [store EXCEPT ![srv.request.cmd.file] = Contents(srv.data, srv.request.cmd.len)]
  \/ /\ srv.pc = "start" /\ toServer = <<AckStart>> \o cmds /\ store = files
     /\ srv.response.len = 0
  \/ /\ srv.pc = "frames" /\ toServer = <<AckSeq(srv.seq)>> \o cmds /\ store = files
     /\ srv.i + 1 = srv.response.len

\* t is what the server should send for the command.
Answers(t) ==
  /\ cli.command.cmd.op = "get" => t = Carried(ClientLayout, sent[cli.command.cmd.file])
  /\ cli.command.cmd.op = "ls" => t = ListText({f \in Files : sent[f] # NoText})

\* t is what arrives of it.
Answered(t) ==
  /\ cli.command.cmd.op = "get" =>
       t = Carried(ServerLayout, Carried(ClientLayout, sent[cli.command.cmd.file]))
  /\ cli.command.cmd.op = "ls" =>
       t = Carried(ServerLayout, ListText({f \in Files : sent[f] # NoText}))

CommandOK ==
  LET cmd == cli.command.cmd
  IN /\ cli.command = Command(cmd)
     /\ cmd.op = "put" => cmd.file \in Files /\ cmd.len = cli.request.len

AtPrompt ==
  /\ cli.pc \in {"prompt", "gone"} /\ toClient = <<>>
  /\ ServerDone(<<>>, Kept(sent))
  /\ Answered(cli.got)

CommandSent ==
  /\ cli.pc = "ack" /\ toClient = <<>>
  /\ ServerDone(<<cli.command>>, Kept(sent))

PutAcked ==
  /\ cli.pc = "ack" /\ srv.pc = "put" /\ cli.command.cmd.op = "put"
  /\ toServer = <<>> /\ toClient = <<AckCommand(cli.command.cmd)>>
  /\ srv.request = cli.command /\ srv.data = EmptyBuffer
  /\ store = Kept(sent)

FrameSent ==
  /\ cli.pc = "frames" /\ srv.pc = "put" /\ cli.command.cmd.op = "put"
  /\ toServer = <<SentFrame(Upload, cli.i)>> /\ toClient = <<>>
  /\ cli.seq = cli.i
  /\ srv.request = cli.command /\ srv.data = Prefix(Upload, cli.i)
  /\ store = Kept(sent)

FrameAcked ==
  /\ cli.pc = "frames" /\ cli.command.cmd.op = "put"
  /\ toClient = <<AckSeq(cli.seq)>>
  /\ cli.seq = cli.i
  /\ \/ /\ srv.pc = "put" /\ toServer = <<>> /\ cli.i + 1 < cli.request.len
        /\ srv.request = cli.command /\ srv.data = Prefix(Upload, cli.i + 1)
        /\ store = Kept(sent)
     \/ /\ srv.pc \in {"save", "command"} /\ toServer = <<>> /\ cli.i + 1 = cli.request.len
        /\ ServerDone(<<>>, Kept([sent EXCEPT ![cli.command.cmd.file] = cli.request]))

Exiting ==
  /\ srv.pc = "gone" /\ toServer = <<>> /\ cli.command.cmd.op = "exit"
  /\ \/ cli.pc = "ack" /\ toClient = <<AckCommand(cli.command.cmd), AckExit>>
     \/ cli.pc = "start" /\ toClient \in {<<AckExit>>, <<>>}

Answering ==
  /\ srv.pc = "start" /\ cli.command.cmd.op \notin {"put", "exit"}
  /\ store = Kept(sent) /\ Answers(srv.response)
  /\ \/ /\ cli.pc = "ack" /\ toServer = <<>>
        /\ toClient = <<AckCommand(cli.command.cmd), Start(srv.response.len)>>
     \/ cli.pc = "start" /\ toServer = <<>> /\ toClient = <<Start(srv.response.len)>>
     \/ /\ cli.pc = "data" /\ toServer = <<AckStart>> /\ toClient = <<>>
        /\ srv.response.len > 0
        /\ cli.filesize = srv.response.len /\ cli.data = EmptyBuffer

AnswerFrames ==
  /\ srv.pc = "frames" /\ cli.pc = "data" /\ cli.command.cmd.op \notin {"put", "exit"}
  /\ store = Kept(sent) /\ Answers(srv.response)
  /\ srv.seq = srv.i
  /\ cli.filesize = srv.response.len
  /\ \/ /\ toServer = <<>> /\ toClient = <<SentFrame(Download, srv.i)>>
        /\ cli.data = Prefix(Download, srv.i)
     \/ /\ toServer = <<AckSeq(srv.seq)>> /\ toClient = <<>>
        /\ cli.data = Prefix(Download, srv.i + 1) /\ srv.i + 1 < srv.response.len

\* The client and the server take turns.
Turns ==
  /\ cli.pc \notin {"prompt", "gone"} => CommandOK
  /\ \/ AtPrompt \/ CommandSent \/ PutAcked \/ FrameSent \/ FrameAcked
     \/ Exiting \/ Answering \/ AnswerFrames

\* A text of no frames is no text.
Empties ==
  /\ \A f \in Files : sent[f].len = 0 => sent[f] = NoText
  /\ srv.pc \in {"start", "frames"} /\ srv.response.len = 0 => srv.response = NoText

TurnsInv == Adequate /\ TypeInv /\ (Faultless => Turns /\ Empties)

LEMMA Pair ==
  ASSUME NEW a, NEW b
  PROVE  <<a>> \o <<b>> = <<a, b>>
<1> DEFINE S == {a, b}
<1>1. <<a>> \in Seq(S) /\ <<b>> \in Seq(S) /\ <<a, b>> \in Seq(S) /\ Len(<<a, b>>) = 2
  OBVIOUS
<1>2. <<a>> \o <<b>> \in Seq(S) /\ Len(<<a>> \o <<b>>) = 2
  BY <1>1
<1>3. \A i \in 1..2 : (<<a>> \o <<b>>)[i] = <<a, b>>[i]
  BY <1>1
<1> HIDE DEF S
<1> QED
  BY <1>1, <1>2, <1>3, SeqEqual

LEMMA Tuples ==
  ASSUME NEW a, NEW b
  PROVE  /\ Head(<<a>>) = a /\ Tail(<<a>>) = <<>> /\ <<a>> # <<>>
         /\ Head(<<a, b>>) = a /\ Tail(<<a, b>>) = <<b>> /\ <<a, b>> # <<>>
         /\ <<a>> \o <<>> = <<a>> /\ <<a>> \o <<b>> = <<a, b>>
<1>1. Head(<<a>>) = a /\ Tail(<<a>>) = <<>> /\ <<a>> # <<>>
  OBVIOUS
<1>2. Head(<<a, b>>) = a /\ Tail(<<a, b>>) = <<b>> /\ <<a, b>> # <<>>
  OBVIOUS
<1>3. <<a>> \o <<>> = <<a>>
  OBVIOUS
<1> QED
  BY <1>1, <1>2, <1>3, Pair, Zenon

LEMMA Fits ==
  ASSUME Adequate, NEW a, NEW b
  PROVE  /\ Arriving(<<>>, <<>>) = <<>> /\ Arriving(<<a>>, <<>>) = <<a>>
         /\ Arriving(<<>>, <<a>>) = <<a>> /\ Arriving(<<>>, <<a, b>>) = <<a, b>>
         /\ Arriving(<<a>>, <<b>>) = <<a, b>>
<1> DEFINE S == {a, b}
<1>1. ASSUME NEW all \in Seq(S), Len(all) < 3
      PROVE  SubSeq(all, 1, IF Len(all) > MaxQueue THEN MaxQueue ELSE Len(all)) = all
  <2>1. SubSeq(all, 1, Len(all)) = all /\ Len(all) \in Nat
    OBVIOUS
  <2>2. ~(Len(all) > MaxQueue)
    BY <1>1, <2>1, NetAssumption DEF Adequate
  <2> QED
    BY <2>1, <2>2, Zenon
<1>2. <<>> \in Seq(S) /\ <<a>> \in Seq(S) /\ <<a, b>> \in Seq(S)
  OBVIOUS
<1>3. Len(<<>>) < 3 /\ Len(<<a>>) < 3 /\ Len(<<a, b>>) < 3
  OBVIOUS
<1>4. <<>> \o <<>> = <<>> /\ <<>> \o <<a>> = <<a>> /\ <<>> \o <<a, b>> = <<a, b>>
  OBVIOUS
<1> HIDE DEF S
<1>5. Arriving(<<>>, <<>>) = <<>> /\ Arriving(<<a>>, <<>>) = <<a>> /\ Arriving(<<>>, <<a>>) = <<a>>
  BY <1>1, <1>2, <1>3, <1>4, Tuples DEF Arriving
<1>6. Arriving(<<>>, <<a, b>>) = <<a, b>> /\ Arriving(<<a>>, <<b>>) = <<a, b>>
  BY <1>1, <1>2, <1>3, <1>4, Tuples DEF Arriving
<1> QED
  BY <1>5, <1>6

\* The datagrams differ.
LEMMA Kinds ==
  /\ \A cmd : /\ Command(cmd).type = "command" /\ Command(cmd).cmd = cmd
              /\ AckCommand(cmd).type = "ack command" /\ AckCommand(cmd).cmd = cmd
  /\ \A n : /\ Start(n).type = "start" /\ Start(n).n = n /\ Start(n).cmd = NoCmd
            /\ AckSeq(n).type = "ack seq" /\ AckSeq(n).cmd = NoCmd /\ AckSeq(n).n = n
  /\ \A u, i : /\ SentFrame(u, i).type = "seq" /\ SentFrame(u, i).cmd = NoCmd
               /\ SentFrame(u, i).n = i /\ SentFrame(u, i).p = Frame(u, i)
  /\ AckStart.type = "ack start" /\ AckStart.cmd = NoCmd
  /\ AckExit.type = "ack exit" /\ AckExit.cmd = NoCmd
  /\ NoCmd.op = "none"
  BY DEF Command, AckCommand, Start, AckStart, AckSeq, AckExit, SentFrame, Datagram, NoCmd, Cmd

\* The buffer of a text that arrives frame by frame.
LEMMA PrefixFacts ==
  ASSUME NEW t \in Text, NEW n \in Nat
  PROVE  /\ n < t.len => StrCpy(Prefix(t, n), n, Frame(t, n)) = Prefix(t, n + 1)
         /\ Filled(Prefix(t, n), t.len) <=> n >= t.len
         /\ n = t.len /\ n > 0 => Contents(Prefix(t, n), t.len) = t
         /\ EmptyBuffer = Prefix(t, 0)
<1>1. t.len \in Slots /\ t.len \in Nat /\ Slots = 0..MaxLen /\ MaxLen \in Nat /\ t.len <= MaxLen
  BY SlotsType, NetAssumption DEF Text, Slots
<1>2. \A j : Frame(t, j).text = t /\ Frame(t, j).i = j
  BY DEF Frame
<1>3. t.len > 0 => \A j : Frame(t, j) # Gap
  BY <1>1, <1>2, NoTextType DEF Gap, Frame
<1>4. \A j \in Slots : Prefix(t, n)[j] = IF j < n THEN Frame(t, j) ELSE Gap
  BY DEF Prefix
<1>5. ASSUME n < t.len
      PROVE  StrCpy(Prefix(t, n), n, Frame(t, n)) = Prefix(t, n + 1)
  <2>1. \A j \in Slots : StrCpy(Prefix(t, n), n, Frame(t, n))[j] = Prefix(t, n + 1)[j]
    <3> SUFFICES ASSUME NEW j \in Slots
                 PROVE  StrCpy(Prefix(t, n), n, Frame(t, n))[j] = Prefix(t, n + 1)[j]
      OBVIOUS
    <3>1. StrCpy(Prefix(t, n), n, Frame(t, n))[j] =
            CASE j = n -> Frame(t, n) [] j = n + 1 /\ Full(Frame(t, n)) -> Gap [] OTHER -> Prefix(t, n)[j]
      BY DEF StrCpy
    <3>2. Prefix(t, n + 1)[j] = IF j < n + 1 THEN Frame(t, j) ELSE Gap
      BY DEF Prefix
    <3>3. j \in Nat
      BY <1>1
    <3> QED
      BY <1>4, <3>1, <3>2, <3>3
  <2> QED
    BY <2>1 DEF StrCpy, Prefix
<1>6. Filled(Prefix(t, n), t.len) <=> n >= t.len
  <2>1. \A j \in 0..(t.len - 1) : j \in Slots /\ j \in Nat /\ j < t.len
    BY <1>1
  <2>2. ASSUME n >= t.len PROVE Filled(Prefix(t, n), t.len)
    <3> SUFFICES ASSUME NEW j \in 0..(t.len - 1)
                 PROVE  Prefix(t, n)[j] # Gap /\ (j < t.len - 1 => Full(Prefix(t, n)[j]))
      BY DEF Filled
    <3>1. Prefix(t, n)[j] = Frame(t, j)
      BY <1>1, <1>4, <2>1, <2>2
    <3>2. Frame(t, j) # Gap
      BY <1>1, <1>3, <2>1
    <3>3. j < t.len - 1 => Full(Frame(t, j))
      BY <1>1, <1>2, <2>1 DEF Full
    <3> QED
      BY <3>1, <3>2, <3>3
  <2>3. ASSUME n < t.len PROVE ~Filled(Prefix(t, n), t.len)
    <3>1. n \in 0..(t.len - 1) /\ Prefix(t, n)[n] = Gap
      BY <1>1, <1>4, <2>3
    <3> QED
      BY <3>1 DEF Filled
  <2> QED
    BY <1>1, <2>2, <2>3
<1>7. ASSUME n = t.len, n > 0 PROVE Contents(Prefix(t, n), t.len) = t
  <2>1. \A j \in 0..(t.len - 1) : Prefix(t, n)[j] = Frame(t, j)
    BY <1>1, <1>4, <1>7
  <2>2. Prefix(t, n)[0].text = t
    BY <1>1, <1>2, <1>7, <2>1
  <2> QED
    BY <1>1, <1>7, <2>1, <2>2 DEF Contents
<1>8. EmptyBuffer = Prefix(t, 0)
  BY <1>1 DEF EmptyBuffer, Prefix
<1> QED
  BY <1>5, <1>6, <1>7, <1>8

\* The steps of the server when it has nothing more to send.
LEMMA DoneStep ==
  ASSUME Adequate, TypeInv, NEW cmds, NEW files, cmds = <<>> \/ \E c : cmds = <<c>>,
         toClient = <<>> \/ \E c : toClient = <<c>>,
         ServerDone(cmds, files), srv.pc # "command", ServerStep
  PROVE  /\ srv' = Idle /\ toServer' = cmds /\ store' = files /\ toClient' = toClient
<1>1. Arriving(toClient, <<>>) = toClient
  BY Fits
<1>2. ASSUME NEW a PROVE Head(<<a>> \o cmds) = a /\ Tail(<<a>> \o cmds) = cmds
  <2>1. CASE cmds = <<>>
    <3>1. <<a>> \o <<>> = <<a>> /\ Head(<<a>>) = a /\ Tail(<<a>>) = <<>>
      OBVIOUS
    <3> QED
      BY <2>1, <3>1
  <2>2. ASSUME NEW c, cmds = <<c>> PROVE Head(<<a>> \o cmds) = a /\ Tail(<<a>> \o cmds) = cmds
    <3>1. Head(<<a, c>>) = a /\ Tail(<<a, c>>) = <<c>>
      OBVIOUS
    <3> QED
      BY <2>2, <3>1, Pair
  <2> QED
    BY <2>1, <2>2
<1>3. CASE srv.pc = "save"
  BY <1>3 DEF ServerDone, ServerStep, srvCommand, srvPut, srvSave, srvStart, srvFrames, netVars
<1>4. CASE srv.pc = "start"
  <2>1. toServer = <<AckStart>> \o cmds /\ store = files /\ srv.response.len = 0
    BY <1>4 DEF ServerDone
  <2>2. srvStart /\ Head(toServer) = AckStart
    BY <1>2, <1>4, <2>1 DEF ServerStep, srvCommand, srvPut, srvSave, srvFrames
  <2>3. ServerReceives(<<>>) /\ srv' = Idle /\ UNCHANGED store
    BY <2>1, <2>2 DEF srvStart
  <2> QED
    BY <1>1, <1>2, <2>1, <2>3 DEF ServerReceives
<1>5. CASE srv.pc = "frames"
  <2>1. toServer = <<AckSeq(srv.seq)>> \o cmds /\ store = files /\ srv.i + 1 = srv.response.len
    BY <1>5 DEF ServerDone
  <2>2. srvFrames /\ Head(toServer) = AckSeq(srv.seq)
    BY <1>2, <1>5, <2>1 DEF ServerStep, srvCommand, srvPut, srvSave, srvStart
  <2>3. ([srv EXCEPT !.i = @ + 1, !.seq = NextSeq(@)]).i = srv.i + 1
    BY Fields DEF Server
  <2>4. srv.response.len \in Nat
    BY Fields, SlotsType
  <2>5. ServerReceives(<<>>) /\ srv' = Idle /\ UNCHANGED store
    BY <2>1, <2>2, <2>3, <2>4 DEF srvFrames
  <2> QED
    BY <1>1, <1>2, <2>1, <2>5 DEF ServerReceives
<1> QED
  BY <1>3, <1>4, <1>5 DEF ServerDone

LEMMA NoServerStep ==
  ASSUME toServer = <<>>, srv.pc # "save"
  PROVE  ~ServerStep
  BY DEF ServerStep, srvCommand, srvPut, srvSave, srvStart, srvFrames

LEMMA NoClientStep ==
  ASSUME toClient = <<>> \/ cli.pc \in {"prompt", "gone"}
  PROVE  ~ClientStep
  BY DEF ClientStep, awaitAck, sendFrames, awaitStart, receiveData

LEMMA NoUserStep ==
  ASSUME cli.pc # "prompt"
  PROVE  ~UserStep
  BY DEF UserStep, typePut, typeGet, typeOther, endOfInput, Types

\* A state after a step that leaves the server free.
LEMMA DoneNext ==
  ASSUME NEW cmds, NEW files, srv' = Idle, toServer' = cmds, store' = files
  PROVE  srv'.pc = "command" /\ toServer' = cmds /\ store' = files
  BY IdleType

\* What a command of the user sends.
LEMMA SendsTurn ==
  ASSUME Adequate, TypeInv, AtPrompt, NEW c, NEW text, Sends(c, text), UNCHANGED <<sent, serverVars>>
  PROVE  /\ CommandSent'
         /\ cli'.command = Command(c) /\ cli'.request = text
<1>1. /\ cli'.command = Command(c) /\ cli'.request = text /\ cli'.pc = "ack"
  BY Fields DEF Sends, Client
<1>2. toClient' = <<>> /\ toServer' = Arriving(toServer, <<cli'.command>>)
  BY <1>1 DEF Sends, AtPrompt
<1>3. Arriving(<<>>, <<cli'.command>>) = <<cli'.command>>
  BY Fits
<1>4. ASSUME NEW a PROVE Arriving(<<a>> \o <<>>, <<cli'.command>>) = <<a>> \o <<cli'.command>>
  <2>1. <<a>> \o <<>> = <<a>>
    OBVIOUS
  <2>2. Arriving(<<a>>, <<cli'.command>>) = <<a, cli'.command>>
    BY Fits
  <2> QED
    BY <2>1, <2>2, Pair
<1>5. ServerDone(<<>>, Kept(sent))
  BY DEF AtPrompt
<1>6. ServerDone(<<cli.command>>, Kept(sent))'
  BY <1>2, <1>3, <1>4, <1>5 DEF ServerDone, serverVars
<1> QED
  BY <1>1, <1>2, <1>6 DEF CommandSent

LEMMA PromptTurn ==
  ASSUME Adequate, TypeInv, Empties, AtPrompt,
         UserStep \/ ClientStep \/ (ServerStep /\ UNCHANGED clientVars)
  PROVE  Turns' /\ Empties'
<1>1. ~ClientStep
  BY NoClientStep DEF AtPrompt
<1>2. CASE UserStep
  <2>1. UNCHANGED <<sent, serverVars>>
    BY <1>2 DEF UserStep, typePut, typeGet, typeOther, endOfInput
  <2>2. Empties'
    BY <2>1 DEF Empties, serverVars
  <2>3. CASE endOfInput
    <3>1. cli' = [cli EXCEPT !.pc = "gone"] /\ UNCHANGED netVars
      BY <2>3 DEF endOfInput
    <3>2. cli'.pc = "gone" /\ cli'.got = cli.got /\ cli'.command = cli.command
      BY <3>1, Fields DEF Client
    <3>3. AtPrompt'
      BY <2>1, <3>1, <3>2 DEF AtPrompt, Answered, ServerDone, netVars, serverVars
    <3> QED
      BY <2>2, <3>2, <3>3 DEF Turns
  <2>4. ASSUME NEW c, NEW text, Sends(c, text), c.op = "put" => c.file \in Files /\ c.len = text.len
        PROVE  Turns'
    <3>1. CommandSent' /\ cli'.command = Command(c) /\ cli'.request = text
      BY <2>1, <2>4, SendsTurn
    <3>2. cli'.command.cmd = c
      BY <3>1 DEF Command, Datagram
    <3> QED
      BY <2>4, <3>1, <3>2 DEF Turns, CommandOK
  <2>5. CASE typePut
    <3>1. PICK f \in Files, len \in FileLens : Sends(Cmd("put", f, len), FileText(puts + 1, len))
      BY <2>5 DEF typePut
    <3>2. FileText(puts + 1, len).len = len
      BY DEF FileText, Plain
    <3>3. Cmd("put", f, len).file = f /\ Cmd("put", f, len).len = len
      BY DEF Cmd
    <3> QED
      BY <2>2, <2>4, <3>1, <3>2, <3>3
  <2>6. CASE typeGet
    <3>1. PICK f \in Files : Sends(Cmd("get", f, 0), NoText)
      BY <2>6 DEF typeGet
    <3>2. Cmd("get", f, 0).op # "put"
      BY DEF Cmd
    <3> QED
      BY <2>2, <2>4, <3>1, <3>2
  <2>7. CASE typeOther
    <3>1. PICK op \in {"ls", "other", "exit"} : Sends(Cmd(op, None, 0), NoText)
      BY <2>7 DEF typeOther
    <3>2. Cmd(op, None, 0).op # "put"
      BY DEF Cmd
    <3> QED
      BY <2>2, <2>4, <3>1, <3>2
  <2> QED
    BY <1>2, <2>3, <2>5, <2>6, <2>7 DEF UserStep
<1>3. CASE ServerStep /\ UNCHANGED clientVars
  <2>1. ServerDone(<<>>, Kept(sent)) /\ toClient = <<>> /\ cli.pc \in {"prompt", "gone"}
    BY DEF AtPrompt
  <2>2. srv.pc # "command"
    BY <1>3, <2>1, NoServerStep DEF ServerDone
  <2>3. srv' = Idle /\ toServer' = <<>> /\ store' = Kept(sent) /\ toClient' = toClient
    BY <1>3, <2>1, <2>2, DoneStep
  <2>4. srv'.pc = "command" /\ UNCHANGED clientVars
    BY <1>3, <2>3, IdleType
  <2>5. AtPrompt'
    BY <2>3, <2>4 DEF AtPrompt, ServerDone, Answered, clientVars
  <2>6. Empties'
    BY <2>4 DEF Empties, clientVars
  <2> QED
    BY <2>1, <2>4, <2>5, <2>6 DEF Turns, clientVars
<1> QED
  BY <1>1, <1>2, <1>3

\* The server takes the command, or ends with the one before.
LEMMA SentTurn ==
  ASSUME Adequate, TypeInv, Empties, CommandOK, CommandSent,
         UserStep \/ ClientStep \/ (ServerStep /\ UNCHANGED clientVars)
  PROVE  Turns' /\ Empties'
<1> DEFINE cmd == cli.command.cmd
           t == Response(cli.command)
<1>1. ServerDone(<<cli.command>>, Kept(sent)) /\ toClient = <<>> /\ cli.pc = "ack"
  BY DEF CommandSent
<1>2. ServerStep /\ UNCHANGED clientVars
  BY <1>1, NoClientStep, NoUserStep
<1>3. CommandOK' /\ cli' = cli /\ sent' = sent
  BY <1>2 DEF CommandOK, clientVars
<1>4. CASE srv.pc # "command"
  <2>1. srv' = Idle /\ toServer' = <<cli.command>> /\ store' = Kept(sent) /\ toClient' = toClient
    BY <1>1, <1>2, <1>4, DoneStep
  <2>2. CommandSent'
    BY <1>1, <1>3, <2>1, IdleType DEF CommandSent, ServerDone
  <2>3. Empties'
    BY <1>3, <2>1, IdleType DEF Empties
  <2> QED
    BY <1>3, <2>2, <2>3 DEF Turns
<1>5. CASE srv.pc = "command"
  <2>1. toServer = <<cli.command>> /\ store = Kept(sent)
    BY <1>1, <1>5 DEF ServerDone
  <2>2. srvCommand /\ Head(toServer) = cli.command /\ Tail(toServer) = <<>>
    BY <1>2, <1>5, <2>1 DEF ServerStep, srvPut, srvSave, srvStart, srvFrames
  <2>3. toServer' = <<>> /\ store' = Kept(sent)
    BY <2>1, <2>2 DEF srvCommand, ServerReceives
  <2>4. Echo(cli.command) = AckCommand(cmd)
    BY DEF Echo
  <2>5. cli.command \in Sendable /\ cli.command \in Datagrams
    BY Fields DEF Sendable
  <2>6. CASE cmd.op = "put"
    <3>1. ServerReceives(<<Echo(cli.command)>>) /\ srv' = [Idle EXCEPT !.pc = "put", !.request = cli.command]
      BY <2>2, <2>6 DEF srvCommand
    <3>2. toClient' = <<AckCommand(cmd)>>
      BY <1>1, <2>4, <3>1, Fits DEF ServerReceives
    <3>3. srv'.pc = "put" /\ srv'.request = cli.command /\ srv'.data = EmptyBuffer
      BY <3>1, IdleType DEF Server
    <3>4. PutAcked'
      BY <1>1, <1>3, <2>3, <2>6, <3>2, <3>3 DEF PutAcked
    <3> QED
      BY <1>3, <3>3, <3>4 DEF Turns, Empties
  <2>7. CASE cmd.op = "exit"
    <3>1. ServerReceives(<<Echo(cli.command), AckExit>>) /\ srv' = [Idle EXCEPT !.pc = "gone"]
      BY <2>2, <2>7 DEF srvCommand
    <3>2. toClient' = <<AckCommand(cmd), AckExit>>
      BY <1>1, <2>4, <3>1, Fits DEF ServerReceives
    <3>3. srv'.pc = "gone"
      BY <3>1, IdleType DEF Server
    <3>4. Exiting'
      BY <1>1, <1>3, <2>3, <2>7, <3>2, <3>3 DEF Exiting
    <3> QED
      BY <1>3, <3>3, <3>4 DEF Turns, Empties
  <2>8. CASE cmd.op \notin {"put", "exit"}
    <3>1. /\ ServerReceives(<<Echo(cli.command), Start(t.len)>>)
          /\ srv' = [Idle EXCEPT !.pc = "start", !.request = cli.command, !.response = t]
      BY <2>2, <2>8 DEF srvCommand
    <3>2. toClient' = <<AckCommand(cmd), Start(t.len)>>
      BY <1>1, <2>4, <3>1, Fits DEF ServerReceives
    <3>3. srv'.pc = "start" /\ srv'.response = t
      BY <3>1, IdleType DEF Server
    <3>4. /\ cmd.op = "get" => t = Carried(ClientLayout, sent[cmd.file])
          /\ cmd.op = "ls" => t = ListText({f \in Files : sent[f] # NoText})
      <4>1. cmd.op = "get" => cmd.file \in Files
        BY <2>5, PayloadType
      <4>2. {f \in Files : store[f] # NoText} = {f \in Files : sent[f] # NoText}
        BY <2>1, Fields, KeptFacts
      <4> QED
        BY <2>1, <4>1, <4>2, Fields, KeptFacts DEF Response
    <3>5. t.len = 0 => t = NoText
      <4>1. CASE cmd.op = "get"
        <5>1. cmd.file \in Files
          BY <2>5, <4>1, PayloadType
        <5>2. sent[cmd.file] \in Text
          BY <5>1, Fields
        <5> QED
          BY <3>4, <4>1, <5>1, <5>2, CarriedFacts, NetAssumption DEF Empties
      <4>2. CASE cmd.op = "ls"
        BY <3>4, <4>2 DEF ListText, Plain
      <4>3. CASE cmd.op \notin {"get", "ls"}
        BY <4>3 DEF Response, Plain
      <4> QED
        BY <4>1, <4>2, <4>3
    <3> HIDE DEF t
    <3>6. Answers(srv.response)'
      BY <1>3, <3>3, <3>4 DEF Answers
    <3>7. Answering'
      BY <1>1, <1>3, <2>3, <2>8, <3>2, <3>3, <3>6 DEF Answering
    <3>8. Empties'
      BY <1>3, <3>3, <3>5 DEF Empties
    <3> QED
      BY <1>3, <3>7, <3>8 DEF Turns
  <2> QED
    BY <2>6, <2>7, <2>8
<1> QED
  BY <1>4, <1>5

\* The two programs hand a put over frame by frame.
LEMMA PutAckedTurn ==
  ASSUME Adequate, TypeInv, Empties, CommandOK, PutAcked,
         UserStep \/ ClientStep \/ (ServerStep /\ UNCHANGED clientVars)
  PROVE  Turns' /\ Empties'
<1> DEFINE m == AckCommand(cli.command.cmd)
<1>1. /\ cli.pc = "ack" /\ srv.pc = "put" /\ cli.command.cmd.op = "put"
      /\ toServer = <<>> /\ toClient = <<m>> /\ srv.request = cli.command
      /\ srv.data = EmptyBuffer /\ store = Kept(sent)
  BY DEF PutAcked
<1>2. ClientStep
  BY <1>1, NoServerStep, NoUserStep
<1>3. awaitAck /\ Head(toClient) = m /\ Tail(toClient) = <<>>
  BY <1>1, <1>2 DEF ClientStep, sendFrames, awaitStart, receiveData
<1>4. /\ ClientReceives(<<SeqFrame(ClientLayout, 0, Frame(cli.request, 0))>>)
      /\ cli' = [cli EXCEPT !.pc = "frames"] /\ UNCHANGED <<puts, sent, serverVars>>
  BY <1>1, <1>3 DEF awaitAck
<1>5. toClient' = <<>> /\ toServer' = <<SentFrame(Upload, 0)>>
  <2>1. SeqFrame(ClientLayout, 0, Frame(cli.request, 0)) = SentFrame(Upload, 0)
    BY <1>1, Fields, SeqFrames DEF Adequate, Numbered, PlacesOK, Upload
  <2> QED
    BY <1>1, <1>3, <1>4, <2>1, Fits DEF ClientReceives
<1>6. /\ cli'.pc = "frames" /\ cli'.command = cli.command /\ cli'.request = cli.request
      /\ cli'.i = 0 /\ cli'.seq = 0
  BY <1>1, <1>4, Fields DEF Client, PlacesOK
<1>7. EmptyBuffer = Prefix(Upload, 0)
  BY UploadFacts, PrefixFacts
<1>8. FrameSent'
  BY <1>1, <1>4, <1>5, <1>6, <1>7 DEF FrameSent, Upload, serverVars
<1>9. CommandOK' /\ Empties'
  BY <1>4, <1>6 DEF CommandOK, Empties, serverVars
<1> QED
  BY <1>8, <1>9 DEF Turns

LEMMA FrameSentTurn ==
  ASSUME Adequate, TypeInv, Empties, CommandOK, FrameSent,
         UserStep \/ ClientStep \/ (ServerStep /\ UNCHANGED clientVars)
  PROVE  Turns' /\ Empties'
<1> DEFINE t == Upload
           i == cli.i
           m == SentFrame(t, i)
           data == Prefix(t, i + 1)
<1>1. /\ cli.pc = "frames" /\ srv.pc = "put" /\ cli.command.cmd.op = "put"
      /\ toServer = <<m>> /\ toClient = <<>> /\ cli.seq = i /\ srv.request = cli.command
      /\ srv.data = Prefix(t, i) /\ store = Kept(sent)
  BY DEF FrameSent
<1>2. ServerStep /\ UNCHANGED clientVars
  BY <1>1, NoClientStep, NoUserStep
<1>3. srvPut /\ Head(toServer) = m /\ Tail(toServer) = <<>>
  BY <1>1, <1>2 DEF ServerStep, srvCommand, srvSave, srvStart, srvFrames
<1>4. t \in Text /\ i \in Nat /\ i < t.len /\ t.len \in Nat
  BY <1>1, Fields, SlotsType, UploadFacts DEF PlacesOK
<1>5. m.cmd.op # "put" /\ Number(m) = i /\ Payload(m) = Frame(t, i)
  <2>1. m.type = "seq" /\ m.cmd = NoCmd /\ m.n = i /\ m.p = Frame(t, i) /\ NoCmd.op = "none"
    BY SentFrameFields
  <2> HIDE DEF m
  <2> QED
    BY <1>1, <2>1 DEF Number, Payload
<1>6. StrCpy(srv.data, Number(m), Payload(m)) = data
  BY <1>1, <1>4, <1>5, PrefixFacts
<1>7. srv.request.cmd.len = t.len /\ t.len = cli.request.len
  BY <1>1, UploadFacts DEF CommandOK
<1> HIDE DEF m
<1>8. /\ ServerReceives(<<AckSeq(i)>>)
      /\ srv' = [srv EXCEPT !.data = data, !.pc = IF Filled(data, t.len) THEN "save" ELSE "put"]
      /\ UNCHANGED store
  BY <1>3, <1>5, <1>6, <1>7 DEF srvPut
<1>9. toServer' = <<>> /\ toClient' = <<AckSeq(i)>>
  BY <1>1, <1>3, <1>8, Fits DEF ServerReceives
<1>10. Filled(data, t.len) <=> i + 1 >= t.len
  BY <1>4, PrefixFacts
<1>11. srv'.data = data /\ srv'.request = cli.command /\ srv'.pc = IF Filled(data, t.len) THEN "save" ELSE "put"
  BY <1>1, <1>8, Fields DEF Server
<1>12. CASE i + 1 < t.len
  <2>1. srv'.pc = "put"
    BY <1>4, <1>10, <1>11, <1>12
  <2> QED
    BY <1>1, <1>2, <1>8, <1>9, <1>11, <1>7, <1>12, <2>1 DEF Turns, Empties, FrameAcked, Upload, CommandOK, clientVars
<1>13. CASE i + 1 = t.len
  <2>1. srv'.pc = "save"
    BY <1>4, <1>10, <1>11, <1>13
  <2>2. Contents(data, t.len) = t
    BY <1>4, <1>13, PrefixFacts
  <2>3. Kept([sent EXCEPT ![cli.command.cmd.file] = cli.request]) =
          [store EXCEPT ![cli.command.cmd.file] = Contents(data, t.len)]
    <3>1. cli.command.cmd.file \in Files
      BY <1>1 DEF CommandOK
    <3>2. sent \in [Files -> Text] /\ cli.request \in Text
      BY Fields
    <3>3. Kept([sent EXCEPT ![cli.command.cmd.file] = cli.request])
            = [Kept(sent) EXCEPT ![cli.command.cmd.file] = Upload]
      <4>1. \A f \in Files, u \in Text :
               Kept([sent EXCEPT ![f] = u]) = [Kept(sent) EXCEPT ![f] = Carried(ClientLayout, u)]
        BY <3>2, KeptFacts, Zenon
      <4> QED
        BY <3>1, <3>2, <4>1, Zenon DEF Upload
    <3> QED
      BY <1>1, <2>2, <3>3
  <2>4. ServerDone(<<>>, Kept([sent EXCEPT ![cli.command.cmd.file] = cli.request]))'
    <3>1. cli' = cli /\ sent' = sent /\ store' = store /\ srv'.request.cmd = cli.command.cmd
          /\ cli.command.cmd.len = t.len
      BY <1>1, <1>2, <1>7, <1>8, <1>11 DEF clientVars
    <3>2. Kept([sent' EXCEPT ![cli'.command.cmd.file] = cli'.request]) =
            [store' EXCEPT ![srv'.request.cmd.file] = Contents(srv'.data, srv'.request.cmd.len)]
      BY <1>11, <2>3, <3>1
    <3> QED
      BY <1>9, <2>1, <3>2 DEF ServerDone
  <2> QED
    BY <1>1, <1>2, <1>7, <1>9, <1>13, <2>1, <2>4 DEF Turns, Empties, FrameAcked, CommandOK, clientVars
<1> QED
  BY <1>4, <1>12, <1>13

LEMMA FrameAckedTurn ==
  ASSUME Adequate, TypeInv, Empties, CommandOK, FrameAcked,
         UserStep \/ ClientStep \/ (ServerStep /\ UNCHANGED clientVars)
  PROVE  Turns' /\ Empties'
<1> DEFINE t == cli.request
           i == cli.i
           f == cli.command.cmd.file
           next == [cli EXCEPT !.i = @ + 1, !.seq = NextSeq(@)]
<1>1. /\ cli.pc = "frames" /\ cli.command.cmd.op = "put" /\ toClient = <<AckSeq(cli.seq)>> /\ cli.seq = i
  BY DEF FrameAcked
<1>2. t \in Text /\ i \in Nat /\ i < t.len /\ t.len \in Nat /\ t.len <= MaxLen /\ MaxLen \in Nat /\ f \in Files
  BY <1>1, Fields, SlotsType DEF PlacesOK, Slots, CommandOK
<1>3. CASE ClientStep
  <2>1. sendFrames /\ Head(toClient) = AckSeq(cli.seq) /\ Tail(toClient) = <<>>
    BY <1>1, <1>3 DEF ClientStep, awaitAck, awaitStart, receiveData
  <2>2. next.i = i + 1 /\ next.pc = "frames" /\ next.command = cli.command /\ next.request = t
        /\ next.seq = NextSeq(i) /\ next \in [DOMAIN cli -> {cli[x] : x \in DOMAIN cli} \cup {next.i, next.seq}]
    BY <1>1, Fields DEF Client
  <2>3. CASE i + 1 < t.len
    <3>1. /\ ClientReceives(<<SeqFrame(ClientLayout, next.seq, Frame(t, next.i))>>) /\ cli' = next
          /\ UNCHANGED <<sent, serverVars>>
      BY <1>2, <2>1, <2>2, <2>3 DEF sendFrames
    <3>2. NextSeq(i) = i + 1
      BY <1>2, <2>3, NetAssumption DEF NextSeq, Adequate, Numbered
    <3>3. /\ srv.pc = "put" /\ toServer = <<>> /\ srv.request = cli.command /\ srv.data = Prefix(Upload, i + 1)
          /\ store = Kept(sent)
      BY <1>2, <2>3 DEF FrameAcked
    <3>4. toServer' = <<SentFrame(Upload, i + 1)>> /\ toClient' = <<>>
      <4>1. SeqFrame(ClientLayout, next.seq, Frame(t, next.i)) = SentFrame(Upload, i + 1)
        BY <1>2, <2>2, <3>2, SeqFrames DEF Adequate, Numbered, Upload
      <4> QED
        BY <2>1, <3>1, <3>3, <4>1, Fits DEF ClientReceives
    <3> HIDE DEF next
    <3>5. FrameSent'
      BY <1>1, <2>2, <3>1, <3>2, <3>3, <3>4 DEF FrameSent, Upload, serverVars
    <3> QED
      BY <2>2, <3>1, <3>5 DEF Turns, CommandOK, Empties, serverVars
  <2>4. CASE i + 1 = t.len
    <3>1. /\ ClientReceives(<<>>) /\ cli' = [next EXCEPT !.pc = "prompt"]
          /\ sent' = [sent EXCEPT ![f] = t] /\ UNCHANGED serverVars
      BY <1>2, <2>1, <2>2, <2>4 DEF sendFrames
    <3>2. cli'.pc = "prompt" /\ cli'.command = cli.command
      BY <3>1, Fields DEF Client
    <3>3. ServerDone(<<>>, Kept(sent'))
      BY <1>2, <2>4, <3>1 DEF FrameAcked
    <3>4. toServer' = toServer /\ toClient' = <<>>
      <4>1. toServer = <<>> \/ \E a : toServer = <<a>> \o <<>>
        BY <3>3 DEF ServerDone
      <4>2. \A a : <<a>> \o <<>> = <<a>>
        OBVIOUS
      <4>3. Arriving(toServer, <<>>) = toServer
        BY <4>1, <4>2, Fits
      <4> QED
        BY <2>1, <3>1, <4>3 DEF ClientReceives
    <3>5. ServerDone(<<>>, Kept(sent))'
      BY <3>1, <3>3, <3>4 DEF ServerDone, serverVars
    <3>6. AtPrompt'
      BY <1>1, <3>2, <3>4, <3>5 DEF AtPrompt, Answered
    <3>7. Empties'
      <4>1. \A g \in Files : sent'[g] = IF g = f THEN t ELSE sent[g]
        BY <3>1, Fields
      <4>2. t.len # 0
        BY <1>2
      <4> QED
        BY <3>1, <4>1, <4>2 DEF Empties, serverVars
    <3> QED
      BY <3>2, <3>6, <3>7 DEF Turns
  <2> QED
    BY <1>2, <2>3, <2>4
<1>4. CASE ServerStep /\ UNCHANGED clientVars
  <2>1. ~(srv.pc = "put" /\ toServer = <<>>)
    BY <1>4, NoServerStep
  <2>2. i + 1 = t.len /\ ServerDone(<<>>, Kept([sent EXCEPT ![f] = t]))
    BY <2>1 DEF FrameAcked
  <2>3. srv.pc # "command"
    BY <1>4, <2>2, NoServerStep DEF ServerDone
  <2>4. srv' = Idle /\ toServer' = <<>> /\ store' = Kept([sent EXCEPT ![f] = t]) /\ toClient' = toClient
    BY <1>1, <1>4, <2>2, <2>3, DoneStep
  <2>5. ServerDone(<<>>, Kept([sent EXCEPT ![cli.command.cmd.file] = cli.request]))'
    BY <1>4, <2>4, IdleType DEF ServerDone, clientVars
  <2>6. FrameAcked' /\ CommandOK'
    BY <1>1, <1>4, <2>2, <2>4, <2>5, IdleType DEF FrameAcked, CommandOK, clientVars
  <2>7. Empties'
    BY <1>4, <2>4, IdleType DEF Empties, clientVars
  <2> QED
    BY <2>6, <2>7 DEF Turns
<1> QED
  BY <1>1, <1>3, <1>4, NoUserStep

\* After exit the client waits for a START that does not come.
LEMMA ExitTurn ==
  ASSUME Adequate, TypeInv, Empties, CommandOK, Exiting,
         UserStep \/ ClientStep \/ (ServerStep /\ UNCHANGED clientVars)
  PROVE  Turns' /\ Empties'
<1> DEFINE m == AckCommand(cli.command.cmd)
<1>1. srv.pc = "gone" /\ toServer = <<>> /\ cli.command.cmd.op = "exit" /\ cli.pc \in {"ack", "start"}
  BY DEF Exiting
<1>2. ClientStep
  BY <1>1, NoServerStep, NoUserStep
<1>3. /\ cli.pc = "ack" => toClient = <<m, AckExit>>
      /\ cli.pc = "start" => toClient \in {<<AckExit>>, <<>>}
  BY DEF Exiting
<1>4. CASE cli.pc = "ack"
  <2>1. awaitAck /\ Head(toClient) = m /\ Tail(toClient) = <<AckExit>>
    <3>1. awaitAck
      BY <1>2, <1>4 DEF ClientStep, sendFrames, awaitStart, receiveData
    <3>2. Head(<<m, AckExit>>) = m /\ Tail(<<m, AckExit>>) = <<AckExit>>
      BY Tuples
    <3> QED
      BY <1>3, <1>4, <3>1, <3>2
  <2>2. ClientReceives(<<>>) /\ cli' = [cli EXCEPT !.pc = "start"] /\ UNCHANGED <<puts, sent, serverVars>>
    BY <1>1, <2>1 DEF awaitAck
  <2>3. toServer' = <<>> /\ toClient' = <<AckExit>>
    BY <1>1, <2>1, <2>2, Fits DEF ClientReceives
  <2>4. cli'.pc = "start" /\ cli'.command = cli.command /\ cli'.request = cli.request
    BY <2>2, Fields DEF Client
  <2>5. Exiting'
    BY <1>1, <2>2, <2>3, <2>4 DEF Exiting, serverVars
  <2> QED
    BY <2>2, <2>4, <2>5 DEF Turns, CommandOK, Empties, serverVars
<1>5. CASE cli.pc = "start"
  <2>1. toClient = <<AckExit>> /\ awaitStart
    BY <1>2, <1>3, <1>5, NoClientStep DEF ClientStep, awaitAck, sendFrames, receiveData
  <2>2. Head(toClient) = AckExit /\ Tail(toClient) = <<>> /\ AckExit.type # "start"
    <3>1. AckExit.type # "start"
      BY DEF AckExit, Datagram
    <3> QED
      BY <2>1, <3>1, Tuples
  <2>3. ClientReceives(<<>>) /\ cli' = cli /\ UNCHANGED <<puts, sent, serverVars>>
    BY <2>1, <2>2 DEF awaitStart
  <2>4. toServer' = <<>> /\ toClient' = <<>>
    BY <1>1, <2>2, <2>3, Fits DEF ClientReceives
  <2>5. Exiting'
    BY <1>1, <1>5, <2>3, <2>4 DEF Exiting, serverVars
  <2> QED
    BY <2>3, <2>5 DEF Turns, CommandOK, Empties, serverVars
<1> QED
  BY <1>1, <1>4, <1>5

\* An answer is announced.
LEMMA AnsweringTurn ==
  ASSUME Adequate, TypeInv, Empties, CommandOK, Answering,
         UserStep \/ ClientStep \/ (ServerStep /\ UNCHANGED clientVars)
  PROVE  Turns' /\ Empties'
<1> DEFINE m == AckCommand(cli.command.cmd)
           t == srv.response
<1>1. /\ srv.pc = "start" /\ cli.command.cmd.op \notin {"put", "exit"} /\ store = Kept(sent) /\ Answers(t)
      /\ cli.pc \in {"ack", "start", "data"}
  BY DEF Answering
<1>2. t \in Text /\ t.len \in Nat /\ srv.i = 0 /\ srv.seq = 0
  BY <1>1, Fields, SlotsType DEF PlacesOK
<1>3. /\ cli.pc = "ack" => toServer = <<>> /\ toClient = <<m, Start(t.len)>>
      /\ cli.pc = "start" => toServer = <<>> /\ toClient = <<Start(t.len)>>
      /\ cli.pc = "data" => /\ toServer = <<AckStart>> /\ toClient = <<>> /\ t.len > 0
                            /\ cli.filesize = t.len /\ cli.data = EmptyBuffer
  BY DEF Answering
<1>4. CASE cli.pc = "ack"
  <2>1. ClientStep
    BY <1>1, <1>3, <1>4, NoServerStep, NoUserStep
  <2>2. awaitAck /\ Head(toClient) = m /\ Tail(toClient) = <<Start(t.len)>>
    <3>1. awaitAck
      BY <1>4, <2>1 DEF ClientStep, sendFrames, awaitStart, receiveData
    <3>2. Head(<<m, Start(t.len)>>) = m /\ Tail(<<m, Start(t.len)>>) = <<Start(t.len)>>
      BY Tuples
    <3> QED
      BY <1>3, <1>4, <3>1, <3>2
  <2>3. ClientReceives(<<>>) /\ cli' = [cli EXCEPT !.pc = "start"] /\ UNCHANGED <<puts, sent, serverVars>>
    BY <1>1, <2>2 DEF awaitAck
  <2>4. toServer' = <<>> /\ toClient' = <<Start(t.len)>>
    BY <1>3, <1>4, <2>2, <2>3, Fits DEF ClientReceives
  <2>5. cli'.pc = "start" /\ cli'.command = cli.command /\ cli'.request = cli.request
    BY <2>3, Fields DEF Client
  <2>6. Answering'
    BY <1>1, <2>3, <2>4, <2>5 DEF Answering, Answers, serverVars
  <2> QED
    BY <2>3, <2>5, <2>6 DEF Turns, CommandOK, Empties, serverVars
<1>5. CASE cli.pc = "start"
  <2>1. ClientStep
    BY <1>1, <1>3, <1>5, NoServerStep, NoUserStep
  <2>2. awaitStart /\ Head(toClient) = Start(t.len) /\ Tail(toClient) = <<>>
    <3>1. awaitStart
      BY <1>5, <2>1 DEF ClientStep, sendFrames, awaitAck, receiveData
    <3> QED
      BY <1>3, <1>5, <3>1, Tuples
  <2>3. Start(t.len).type = "start" /\ Start(t.len).n = t.len
    BY DEF Start, Datagram
  <2>4. ClientReceives(<<AckStart>>) /\ cli' = Receiving(t.len, EmptyBuffer) /\ UNCHANGED <<puts, sent, serverVars>>
    BY <2>2, <2>3 DEF awaitStart
  <2>5. toServer' = <<AckStart>> /\ toClient' = <<>>
    BY <1>3, <1>5, <2>2, <2>4, Fits DEF ClientReceives
  <2>6. EmptyBuffer = Prefix(t, 0) /\ (Filled(Prefix(t, 0), t.len) <=> 0 >= t.len)
    BY <1>2, PrefixFacts
  <2>7. CASE t.len > 0
    <3>1. cli' = [cli EXCEPT !.pc = "data", !.filesize = t.len, !.data = EmptyBuffer]
      BY <1>2, <2>4, <2>6, <2>7 DEF Receiving
    <3>2. /\ cli'.pc = "data" /\ cli'.command = cli.command /\ cli'.request = cli.request
          /\ cli'.filesize = t.len /\ cli'.data = EmptyBuffer
      BY <3>1, Fields DEF Client
    <3>3. Answering'
      BY <1>1, <2>4, <2>5, <2>7, <3>2 DEF Answering, Answers, serverVars
    <3> QED
      BY <2>4, <3>2, <3>3 DEF Turns, CommandOK, Empties, serverVars
  <2>8. CASE t.len = 0
    <3>1. cli' = [cli EXCEPT !.pc = "prompt", !.filesize = t.len, !.data = EmptyBuffer,
                             !.got = Contents(EmptyBuffer, t.len)]
      BY <1>2, <2>4, <2>6, <2>8 DEF Receiving
    <3>2. Contents(EmptyBuffer, t.len) = Carried(ServerLayout, t)
      BY <1>1, <1>2, <2>8, NoTextType DEF Contents, Empties, Carried
    <3>3. cli'.pc = "prompt" /\ cli'.command = cli.command /\ cli'.got = Carried(ServerLayout, t)
      BY <3>1, <3>2, Fields DEF Client
    <3>4. <<AckStart>> = <<AckStart>> \o <<>>
      OBVIOUS
    <3>5. ServerDone(<<>>, Kept(sent))'
      BY <1>1, <2>4, <2>5, <2>8, <3>4 DEF ServerDone, serverVars
    <3>6. AtPrompt'
      BY <1>1, <2>4, <2>5, <3>3, <3>5 DEF AtPrompt, Answers, Answered
    <3> QED
      BY <2>4, <3>3, <3>6 DEF Turns, Empties, serverVars
  <2> QED
    BY <1>2, <2>7, <2>8
<1>6. CASE cli.pc = "data"
  <2>1. ServerStep /\ UNCHANGED clientVars
    BY <1>3, <1>6, NoClientStep, NoUserStep
  <2>2. srvStart /\ Head(toServer) = AckStart /\ Tail(toServer) = <<>>
    <3>1. srvStart
      BY <1>1, <2>1 DEF ServerStep, srvCommand, srvPut, srvSave, srvFrames
    <3> QED
      BY <1>3, <1>6, <3>1, Tuples
  <2>3. ServerReceives(<<SeqFrame(ServerLayout, 0, Frame(t, 0))>>) /\ srv' = [srv EXCEPT !.pc = "frames"] /\ UNCHANGED store
    BY <1>2, <1>3, <1>6, <2>2 DEF srvStart
  <2>4. toServer' = <<>> /\ toClient' = <<SentFrame(Download, 0)>>
    <3>1. SeqFrame(ServerLayout, 0, Frame(t, 0)) = SentFrame(Download, 0)
      BY <1>2, <1>3, <1>6, SeqFrames DEF Adequate, Numbered, Download
    <3> QED
      BY <1>3, <1>6, <2>2, <2>3, <3>1, Fits DEF ServerReceives
  <2>5. srv'.pc = "frames" /\ srv'.response = t /\ srv'.i = 0 /\ srv'.seq = 0
    BY <1>2, <2>3, Fields DEF Server
  <2>6. EmptyBuffer = Prefix(Download, 0)
    BY UploadFacts, PrefixFacts
  <2>7. AnswerFrames'
    BY <1>1, <1>3, <1>6, <2>1, <2>3, <2>4, <2>5, <2>6 DEF AnswerFrames, Answers, Download, clientVars
  <2> QED
    BY <1>1, <2>1, <2>5, <2>7 DEF Turns, CommandOK, Empties, clientVars
<1> QED
  BY <1>1, <1>4, <1>5, <1>6

\* An answer arrives frame by frame.
LEMMA AnswerFramesTurn ==
  ASSUME Adequate, TypeInv, Empties, CommandOK, AnswerFrames,
         UserStep \/ ClientStep \/ (ServerStep /\ UNCHANGED clientVars)
  PROVE  Turns' /\ Empties'
<1> DEFINE t == srv.response
           i == srv.i
           u == Download
           m == SentFrame(u, i)
           next == [srv EXCEPT !.i = @ + 1, !.seq = NextSeq(@)]
<1>1. /\ srv.pc = "frames" /\ cli.pc = "data" /\ cli.command.cmd.op \notin {"put", "exit"}
      /\ store = Kept(sent) /\ Answers(t) /\ srv.seq = i /\ cli.filesize = t.len
  BY DEF AnswerFrames
<1>2. t \in Text /\ i \in Nat /\ i < t.len /\ t.len \in Nat /\ t.len <= MaxLen /\ MaxLen \in Nat
  BY <1>1, Fields, SlotsType DEF PlacesOK, Slots
<1>u. u \in Text /\ u.len = t.len
  BY UploadFacts
<1>3. CASE toServer = <<>> /\ toClient = <<m>> /\ cli.data = Prefix(u, i)
  <2>1. ClientStep
    BY <1>1, <1>3, NoServerStep, NoUserStep
  <2>2. receiveData /\ Head(toClient) = m /\ Tail(toClient) = <<>>
    BY <1>1, <1>3, <2>1 DEF ClientStep, sendFrames, awaitAck, awaitStart
  <2>3. m.type = "seq" /\ m.n = i /\ m.p = Frame(u, i)
    BY SentFrameFields
  <2>4. StrCpy(cli.data, i, Frame(u, i)) = Prefix(u, i + 1)
    BY <1>2, <1>u, <1>3, PrefixFacts
  <2> HIDE DEF m
  <2>5. /\ ClientReceives(<<AckSeq(i)>>) /\ cli' = Receiving(t.len, Prefix(u, i + 1))
        /\ UNCHANGED <<puts, sent, serverVars>>
    BY <1>1, <2>2, <2>3, <2>4 DEF receiveData
  <2>6. toServer' = <<AckSeq(i)>> /\ toClient' = <<>>
    BY <1>3, <2>2, <2>5, Fits DEF ClientReceives
  <2>7. Filled(Prefix(u, i + 1), t.len) <=> i + 1 >= t.len
    BY <1>2, <1>u, PrefixFacts
  <2>8. CASE i + 1 < t.len
    <3>1. cli' = [cli EXCEPT !.pc = "data", !.filesize = t.len, !.data = Prefix(u, i + 1)]
      BY <1>2, <2>5, <2>7, <2>8 DEF Receiving
    <3>2. /\ cli'.pc = "data" /\ cli'.command = cli.command /\ cli'.request = cli.request
          /\ cli'.filesize = t.len /\ cli'.data = Prefix(u, i + 1)
      BY <3>1, Fields DEF Client
    <3>3. AnswerFrames'
      BY <1>1, <2>5, <2>6, <2>8, <3>2 DEF AnswerFrames, Answers, Download, serverVars
    <3> QED
      BY <2>5, <3>2, <3>3 DEF Turns, CommandOK, Empties, serverVars
  <2>9. CASE i + 1 = t.len
    <3>1. cli' = [cli EXCEPT !.pc = "prompt", !.filesize = t.len, !.data = Prefix(u, i + 1),
                             !.got = Contents(Prefix(u, i + 1), t.len)]
      BY <1>2, <2>5, <2>7, <2>9 DEF Receiving
    <3>2. Contents(Prefix(u, i + 1), t.len) = u
      BY <1>2, <1>u, <2>9, PrefixFacts
    <3>3. cli'.pc = "prompt" /\ cli'.command = cli.command /\ cli'.got = u
      BY <3>1, <3>2, Fields DEF Client
    <3>4. toServer' = <<AckSeq(srv.seq)>> \o <<>>
      <4>1. <<AckSeq(srv.seq)>> \o <<>> = <<AckSeq(srv.seq)>>
        OBVIOUS
      <4> QED
        BY <1>1, <2>6, <4>1
    <3>5. ServerDone(<<>>, Kept(sent))'
      BY <1>1, <2>5, <2>9, <3>4 DEF ServerDone, serverVars
    <3>6. AtPrompt'
      BY <1>1, <2>5, <2>6, <3>3, <3>5 DEF AtPrompt, Answers, Answered, Download
    <3> QED
      BY <2>5, <3>3, <3>6 DEF Turns, Empties, serverVars
  <2> QED
    BY <1>2, <2>8, <2>9
<1>4. CASE toServer = <<AckSeq(srv.seq)>> /\ toClient = <<>> /\ cli.data = Prefix(u, i + 1) /\ i + 1 < t.len
  <2>1. ServerStep /\ UNCHANGED clientVars
    BY <1>1, <1>4, NoClientStep, NoUserStep
  <2>2. srvFrames /\ Head(toServer) = AckSeq(srv.seq) /\ Tail(toServer) = <<>>
    BY <1>1, <1>4, <2>1 DEF ServerStep, srvCommand, srvPut, srvSave, srvStart
  <2>3. next.i = i + 1 /\ next.seq = NextSeq(i) /\ next.pc = "frames" /\ next.response = t
    BY <1>1, Fields DEF Server
  <2>4. NextSeq(i) = i + 1
    BY <1>2, <1>4, NetAssumption DEF NextSeq, Adequate, Numbered
  <2>5. ServerReceives(<<SeqFrame(ServerLayout, next.seq, Frame(t, next.i))>>) /\ srv' = next /\ UNCHANGED store
    BY <1>2, <1>4, <2>2, <2>3 DEF srvFrames
  <2> HIDE DEF next
  <2>6. toServer' = <<>> /\ toClient' = <<SentFrame(u, i + 1)>>
    <3>1. SeqFrame(ServerLayout, next.seq, Frame(t, next.i)) = SentFrame(u, i + 1)
      BY <1>2, <1>4, <2>3, <2>4, SeqFrames DEF Adequate, Numbered, Download
    <3> QED
      BY <1>4, <2>2, <2>5, <3>1, Fits DEF ServerReceives
  <2>7. AnswerFrames'
    BY <1>1, <1>4, <2>1, <2>3, <2>4, <2>5, <2>6 DEF AnswerFrames, Answers, Download, clientVars
  <2> QED
    BY <1>1, <2>1, <2>3, <2>5, <2>7 DEF Turns, CommandOK, Empties, clientVars
<1> QED
  BY <1>3, <1>4 DEF AnswerFrames

LEMMA TurnsInit == Init => Faultless /\ Turns /\ Empties
<1> SUFFICES ASSUME Init PROVE Faultless /\ Turns /\ Empties
  OBVIOUS
<1>1. srv.pc = "command" /\ store = Kept(sent) /\ toServer = <<>> /\ toClient = <<>> /\ Faultless
  <2>1. sent = [f \in Files |-> NoText] /\ store = sent
    BY DEF Init, ServerInit, ClientInit
  <2>2. Kept(sent) = sent
    BY <2>1, CarriedFacts, NetAssumption, NoTextType DEF Kept
  <2> QED
    BY <2>1, <2>2, IdleType DEF Init, NetInit, ServerInit, ClientInit, Faultless
<1>2. cli.pc = "prompt" /\ cli.command.cmd.op = "none"
  BY DEF Init, ClientInit, Command, Datagram, NoCmd, Cmd
<1>3. Empties
  BY <1>1 DEF Init, ClientInit, Empties
<1> QED
  BY <1>1, <1>2, <1>3 DEF Turns, AtPrompt, ServerDone, Answered

LEMMA TurnsNext == TurnsInv /\ [Next]_vars => TurnsInv'
<1> SUFFICES ASSUME TurnsInv, [Next]_vars PROVE TurnsInv'
  OBVIOUS
<1> Adequate
  BY DEF TurnsInv
<1>1. TypeInv'
  BY NextTypes DEF TurnsInv
<1>2. CASE UNCHANGED vars
  <2>1. /\ toServer' = toServer /\ toClient' = toClient /\ losses' = losses /\ duplicates' = duplicates
        /\ store' = store /\ srv' = srv /\ cli' = cli /\ sent' = sent
    BY <1>2 DEF vars, netVars, serverVars, clientVars
  <2>2. /\ AtPrompt' = AtPrompt /\ CommandSent' = CommandSent /\ PutAcked' = PutAcked /\ FrameSent' = FrameSent
        /\ FrameAcked' = FrameAcked
    BY <2>1 DEF AtPrompt, CommandSent, PutAcked, FrameSent, FrameAcked, ServerDone, Answered, Upload
  <2>3. Exiting' = Exiting /\ Answering' = Answering /\ AnswerFrames' = AnswerFrames
    BY <2>1 DEF Exiting, Answering, AnswerFrames, Answers, Download
  <2>4. CommandOK' = CommandOK /\ Empties' = Empties /\ Faultless' = Faultless
    BY <2>1 DEF CommandOK, Empties, Faultless
  <2>5. Turns' = Turns
    BY <2>1, <2>2, <2>3, <2>4 DEF Turns
  <2> QED
    BY <1>1, <2>4, <2>5 DEF TurnsInv
<1>3. CASE NetStep
  <2>1. losses' = losses + 1 \/ duplicates' = duplicates + 1
    BY <1>3 DEF NetStep, Lose, Duplicate
  <2>2. losses \in Nat /\ duplicates \in Nat
    BY Fields DEF TurnsInv
  <2>3. ~Faultless'
    BY <2>1, <2>2 DEF Faultless
  <2> QED
    BY <1>1, <2>3 DEF TurnsInv
<1>4. CASE UserStep \/ ClientStep \/ (ServerStep /\ UNCHANGED clientVars)
  <2>1. UNCHANGED <<losses, duplicates>>
    <3>1. UserStep => UNCHANGED <<losses, duplicates>>
      BY DEF UserStep, typePut, typeGet, typeOther, endOfInput, Sends, netVars
    <3>2. ClientStep => UNCHANGED <<losses, duplicates>>
      BY DEF ClientStep, awaitAck, sendFrames, awaitStart, receiveData, ClientReceives
    <3>3. ServerStep => UNCHANGED <<losses, duplicates>>
      BY DEF ServerStep, srvCommand, srvPut, srvSave, srvStart, srvFrames, ServerReceives, netVars
    <3> QED
      BY <1>4, <3>1, <3>2, <3>3
  <2>2. CASE Faultless
    <3>1. TypeInv /\ Turns /\ Empties
      BY <2>2 DEF TurnsInv
    <3>2. CommandOK \/ AtPrompt
      BY <3>1 DEF Turns, CommandSent, PutAcked, FrameSent, FrameAcked, Exiting, Answering, AnswerFrames
    <3>3. Turns' /\ Empties'
      <4>1. CASE AtPrompt
        BY <1>4, <3>1, <4>1, PromptTurn
      <4>2. CASE CommandOK /\ ~AtPrompt
        BY <1>4, <3>1, <4>2, SentTurn, PutAckedTurn, FrameSentTurn, FrameAckedTurn, ExitTurn, AnsweringTurn,
           AnswerFramesTurn DEF Turns
      <4> QED
        BY <3>2, <4>1, <4>2
    <3> QED
      BY <1>1, <3>3 DEF TurnsInv
  <2>3. CASE ~Faultless
    BY <1>1, <2>1, <2>3 DEF TurnsInv, Faultless
  <2> QED
    BY <2>2, <2>3
<1> QED
  BY <1>2, <1>3, <1>4 DEF Next

LEMMA TurnsInvariant == Adequate /\ Spec => []TurnsInv
<1>1. Adequate /\ Init => TurnsInv
  BY InitTypes, TurnsInit DEF TurnsInv
<1> QED
  BY <1>1, TurnsNext, PTL DEF Spec

(***************************************************************************)
(* On a network without faults a get brings what the last put of the file  *)
(* has sent, and ls lists just the files that were put, for any commands,  *)
(* receive buffers and texts of at most 10000 frames: the server, which    *)
(* writes a file after it has acknowledged its last frame, has written it  *)
(* before it takes the next command.  Where the build of a sender has its  *)
(* two arrays adjacent, in the order that keeps the header, the text is    *)
(* shifted on its way and complete nevertheless.                           *)
(***************************************************************************)
THEOREM UdpAnswersAreCurrent == Adequate /\ Spec => []AnswersAreCurrent
<1>1. TurnsInv => AnswersAreCurrent
  <2> SUFFICES ASSUME TurnsInv, Faultless, cli.pc = "prompt"
               PROVE  Answered(cli.got)
    BY DEF AnswersAreCurrent, Asked, Answered
  <2> QED
    BY DEF TurnsInv, Turns, AtPrompt, CommandSent, PutAcked, FrameSent, FrameAcked, Exiting, Answering, AnswerFrames
<1> QED
  BY <1>1, TurnsInvariant, PTL

LEMMA Domains ==
  ASSUME NEW a, NEW b
  PROVE  /\ DOMAIN <<>> = {}
         /\ DOMAIN <<a>> = {1} /\ <<a>>[1] = a
         /\ DOMAIN <<a, b>> = {1, 2} /\ <<a, b>>[1] = a /\ <<a, b>>[2] = b
<1>1. DOMAIN <<>> = {}
  OBVIOUS
<1>2. DOMAIN <<a>> = 1..1 /\ <<a>>[1] = a
  OBVIOUS
<1>3. DOMAIN <<a, b>> = 1..2 /\ <<a, b>>[1] = a /\ <<a, b>>[2] = b
  OBVIOUS
<1>4. 1..1 = {1} /\ 1..2 = {1, 2}
  OBVIOUS
<1> QED
  BY <1>1, <1>2, <1>3, <1>4

LEMMA TransfersFacts ==
  ASSUME NEW a, NEW b, b.type \notin {"seq", "headless", "ack seq"}
  PROVE  /\ Transfers(<<>>) = {}
         /\ Transfers(<<a>>) \subseteq {1} /\ Transfers(<<b>>) = {}
         /\ Transfers(<<a, b>>) \subseteq {1}
         /\ a.type \notin {"seq", "headless", "ack seq"} => Transfers(<<a, b>>) = {}
<1>1. Transfers(<<>>) = {}
  BY Domains DEF Transfers
<1>2. DOMAIN <<a>> = {1} /\ DOMAIN <<b>> = {1} /\ <<b>>[1] = b
  BY Domains
<1>3. DOMAIN <<a, b>> = {1, 2} /\ <<a, b>>[1] = a /\ <<a, b>>[2] = b
  BY Domains
<1>4. Transfers(<<a>>) \subseteq {1} /\ Transfers(<<b>>) = {}
  BY <1>2 DEF Transfers
<1>5. /\ Transfers(<<a, b>>) \subseteq {1}
      /\ a.type \notin {"seq", "headless", "ack seq"} => Transfers(<<a, b>>) = {}
  BY <1>3 DEF Transfers
<1> QED
  BY <1>1, <1>4, <1>5

LEMMA FewTransfers ==
  ASSUME NEW S, NEW T, S \subseteq {1}, T \subseteq {1}, S = {} \/ T = {}
  PROVE  Cardinality(S) + Cardinality(T) <= 1
<1>1. (S = {} \/ S = {1}) /\ (T = {} \/ T = {1})
  OBVIOUS
<1>2. Cardinality({}) = 0
  BY FS_EmptySet
<1>3. Cardinality({1}) = 1
  BY FS_Singleton
<1>4. Cardinality(S) \in {0, 1} /\ Cardinality(T) \in {0, 1}
  BY <1>1, <1>2, <1>3
<1>5. Cardinality(S) = 0 \/ Cardinality(T) = 0
  BY <1>2
<1> QED
  BY <1>4, <1>5

(***************************************************************************)
(* On a network without faults the two programs take turns: never more     *)
(* than one frame or acknowledgement of a frame is under way, and nothing  *)
(* of one command is left for the client when it asks for the next.        *)
(***************************************************************************)
THEOREM UdpStopAndWait == Adequate /\ Spec => []StopAndWait
<1>1. TurnsInv => StopAndWait
  <2> SUFFICES ASSUME TurnsInv, Faultless
               PROVE  /\ Cardinality(Transfers(toServer)) + Cardinality(Transfers(toClient)) <= 1
                      /\ cli.pc = "prompt" => toClient = <<>>
    BY DEF StopAndWait
  <2>1. Adequate /\ Turns
    BY DEF TurnsInv
  <2>2. cli.pc = "prompt" => toClient = <<>>
    BY <2>1 DEF Turns, AtPrompt, CommandSent, PutAcked, FrameSent, FrameAcked, Exiting, Answering, AnswerFrames
  <2>3. Transfers(<<>>) = {} /\ \A a : Transfers(<<a>>) \subseteq {1}
    <3>1. AckExit.type = "ack exit"
      BY Kinds
    <3> QED
      BY <3>1, TransfersFacts
  <2>4. ASSUME NEW c, c.type = "command", NEW files, ServerDone(<<>>, files) \/ ServerDone(<<c>>, files)
        PROVE  Transfers(toServer) \subseteq {1}
    <3>1. \A a : <<a>> \o <<>> = <<a>>
      OBVIOUS
    <3>2. \A a : <<a>> \o <<c>> = <<a, c>>
      BY Pair
    <3>3. toServer = <<>> \/ toServer = <<c>> \/ (\E a : toServer = <<a>>) \/ (\E a : toServer = <<a, c>>)
      BY <2>4, <3>1, <3>2 DEF ServerDone
    <3> QED
      BY <2>3, <2>4, <3>3, TransfersFacts
  <2>5. ASSUME NEW a, NEW b, a.type \notin {"seq", "headless", "ack seq"}, b.type \notin {"seq", "headless", "ack seq"}
        PROVE  Transfers(<<a>>) = {} /\ Transfers(<<a, b>>) = {}
    BY <2>5, TransfersFacts
  <2>6. /\ \A cmd : AckCommand(cmd).type = "ack command" /\ Command(cmd).type = "command"
        /\ \A n : Start(n).type = "start"
        /\ AckStart.type = "ack start" /\ AckExit.type = "ack exit"
    BY Kinds
  <2>7. /\ Transfers(toServer) \subseteq {1} /\ Transfers(toClient) \subseteq {1}
        /\ Transfers(toServer) = {} \/ Transfers(toClient) = {}
    <3>1. CASE AtPrompt
      BY <2>3, <2>4, <2>6, <3>1 DEF AtPrompt
    <3>2. CASE CommandSent
      <4>1. cli.command.type = "command"
        BY <2>1, <2>6, <3>2 DEF Turns, CommandSent, CommandOK
      <4> QED
        BY <2>3, <2>4, <3>2, <4>1 DEF CommandSent
    <3>3. CASE PutAcked
      BY <2>3, <3>3 DEF PutAcked
    <3>4. CASE FrameSent
      BY <2>3, <3>4 DEF FrameSent
    <3>5. CASE FrameAcked
      BY <2>3, <3>5 DEF FrameAcked
    <3>6. CASE Exiting
      BY <2>3, <2>5, <2>6, <3>6 DEF Exiting
    <3>7. CASE Answering
      BY <2>3, <2>5, <2>6, <3>7 DEF Answering
    <3>8. CASE AnswerFrames
      BY <2>3, <3>8 DEF AnswerFrames
    <3> QED
      BY <2>1, <3>1, <3>2, <3>3, <3>4, <3>5, <3>6, <3>7, <3>8 DEF Turns
  <2> QED
    BY <2>2, <2>7, FewTransfers
<1> QED
  BY <1>1, TurnsInvariant, PTL

-----------------------------------------------------------------------------
\* A network that loses and duplicates.

\* What can be said of a channel and stays true when datagrams are taken out of
\* it or doubled: what it holds, what may be behind what, and that datagrams of
\* a kind have no others between them.
Within(ch, S) == \A a \in DOMAIN ch : ch[a] \in S
Behind(ch, S, T) == \A a, b \in DOMAIN ch : a < b /\ ch[a] \in S => ch[b] \in T
Block(ch, S) ==
  \A a, b, c \in DOMAIN ch : a < b /\ b < c /\ ch[a] \in S /\ ch[c] \in S => ch[b] \in S

\* Datagrams without a command, acknowledgements of frames, and datagrams that
\* do not announce a text.
Bare == {m \in Sendable : m.cmd.op = "none"}
Acks == {m \in Bare : m.type = "ack seq"}
NoStart == {m \in Sendable : m.type # "start"}

\* The command that the client sends and sends again, the server's
\* acknowledgement of it, and what announces the answer.
Asking == IF cli.pc = "ack" THEN {cli.command} ELSE {}
Acked == AckCommand(cli.command.cmd)
Announced == Start(srv.response.len)

\* No acknowledgement of frame k or a later one.
Below(k) == {m \in Sendable : m.type = "ack seq" => m.n < k}

\* Frame i of t is being sent and the receiver, whose buffer is data, has the
\* first frames of t, this one perhaps included.  Frames of an earlier number
\* are under way only as long as it is not, and in front of it.

Transfer(t, i, first, frames, acks, data) ==
  /\ Within(frames, (IF i = 0 THEN first ELSE {SentFrame(t, i - 1)}) \cup {SentFrame(t, i)})
  /\ Behind(frames, {SentFrame(t, i)}, {SentFrame(t, i)})
  /\ \E k \in {i, i + 1} :
       /\ k < t.len /\ data = Prefix(t, k)
       /\ k = i + 1 => Within(frames, {SentFrame(t, i)})
       /\ Within(acks, Below(k))

\* The server has done with the client's command, or has not seen it.  It may
\* be answering a datagram that it has taken for a command.
Elsewhere ==
  \/ srv.pc \in {"command", "save", "frames"}
  \/ srv.pc = "start" /\ srv.request \in Bare

Apart ==
  /\ cli.pc \in {"prompt", "gone", "ack"} /\ Elsewhere
  /\ Within(toClient, Bare)
  /\ Within(toServer, Bare \cup Asking) /\ Behind(toServer, Asking, Asking)

\* The client has the answer, of no frames; the server waits for ACK START.
AnsweredEmpty ==
  /\ cli.pc \in {"prompt", "gone", "ack"}
  /\ srv.pc = "start" /\ srv.request.cmd.op = "get" /\ srv.response.len = 0
  /\ Within(toClient, Bare)
  /\ Within(toServer, {srv.request, AckStart} \cup Asking)
  /\ Behind(toServer, {AckStart}, {AckStart} \cup Asking) /\ Block(toServer, {AckStart})

\* The server has received the file and the client is not told.
Received ==
  /\ cli.pc = "frames" /\ cli.i + 1 = cli.request.len /\ Elsewhere
  /\ Within(toServer, Bare)
  /\ Within(toClient, Bare \cup {Acked}) /\ Behind(toClient, Bare, Bare)

PutAsked ==
  /\ cli.pc = "ack" /\ srv.pc = "put" /\ srv.request = cli.command
  /\ cli.command.cmd.op = "put"
  /\ Within(toServer, {cli.command})
  /\ Within(toClient, Bare \cup {Acked}) /\ Behind(toClient, {Acked}, {Acked})
  /\ srv.data = EmptyBuffer

Uploading ==
  /\ cli.pc = "frames" /\ srv.pc = "put" /\ srv.request = cli.command
  /\ Within(toClient, Acks \cup {Acked}) /\ Behind(toClient, Bare, Bare)
  /\ Transfer(Upload, cli.i, {cli.command}, toServer, toClient, srv.data)

AnswerAsked ==
  /\ cli.pc = "ack" /\ srv.pc = "start" /\ srv.request = cli.command
  /\ cli.command.cmd.op \notin {"put", "exit"}
  /\ srv.response.len = 0 => cli.command.cmd.op = "get"
  /\ Within(toServer, {cli.command})
  /\ Within(toClient, Bare \cup {Acked}) /\ Behind(toClient, {Acked}, {Acked, Announced})
  /\ cli.command.cmd.op = "get" => Block(toClient, {Acked})

AnswerAcked ==
  /\ cli.pc = "start" /\ srv.pc = "start" /\ srv.request = cli.command
  /\ Within(toServer, {cli.command})
  /\ Within(toClient, {Acked, Announced})
  /\ srv.response.len = 0 => /\ cli.command.cmd.op = "get"
                             /\ Behind(toClient, {Announced}, {Announced})

AnswerAwaited ==
  /\ cli.pc = "data" /\ srv.pc = "start" /\ srv.request = cli.command
  /\ Within(toServer, {cli.command, AckStart}) /\ Behind(toServer, {AckStart}, {AckStart})
  /\ Within(toClient, {Acked, Announced})
  /\ srv.response.len > 0 /\ cli.filesize = srv.response.len /\ cli.data = EmptyBuffer

Downloading ==
  /\ cli.pc = "data" /\ srv.pc = "frames"
  /\ Within(toServer, Bare)
  /\ cli.filesize = srv.response.len
  /\ Transfer(Download, srv.i, {Acked, Announced}, toClient, toServer, cli.data)

\* The server has left; the client waits for an answer that does not come.
Left ==
  /\ srv.pc = "gone" /\ cli.command.cmd.op = "exit"
  /\ \/ /\ cli.pc = "ack"
        /\ Within(toClient, Bare \cup {Acked}) /\ Behind(toClient, {Acked}, NoStart)
     \/ cli.pc = "start" /\ Within(toClient, NoStart)

Phases ==
  \/ Apart \/ AnsweredEmpty \/ Received \/ PutAsked \/ Uploading
  \/ AnswerAsked \/ AnswerAcked \/ AnswerAwaited \/ Downloading \/ Left

\* Every text that a program holds is whole.
Whole ==
  /\ \A f \in Files : store[f].kind # "mixed"
  /\ srv.response.kind # "mixed"
  /\ cli.got.kind # "mixed"
  /\ cli.request.kind # "mixed"
  /\ srv.pc = "save" => Contents(srv.data, srv.request.cmd.len).kind # "mixed"

\* Frame i goes out with number i, and what the client waits for is its command.
Numbers ==
  /\ srv.pc = "frames" => srv.seq = srv.i
  /\ cli.pc = "frames" => cli.seq = cli.i /\ cli.command.cmd.op = "put"
  /\ cli.pc \in {"ack", "frames", "start", "data"} => CommandOK /\ cli.command.cmd.op # "none"

MixInv == Numbered /\ TypeInv /\ Whole /\ Numbers /\ Phases

\* new is old with elements taken out or doubled.
Thins(new, old) ==
  \E g \in [DOMAIN new -> DOMAIN old] :
    \A a, b \in DOMAIN new : new[a] = old[g[a]] /\ (a < b => g[a] <= g[b])

\* What is said of a channel is kept.
LEMMA ThinKeeps ==
  ASSUME NEW new \in Seq(Sendable), NEW old \in Seq(Sendable), Thins(new, old)
  PROVE  /\ \A S : Within(old, S) => Within(new, S)
         /\ \A S, T : S \subseteq T /\ Behind(old, S, T) => Behind(new, S, T)
         /\ \A S : Block(old, S) => Block(new, S)
<1>1. PICK g \in [DOMAIN new -> DOMAIN old] :
        \A a, b \in DOMAIN new : new[a] = old[g[a]] /\ (a < b => g[a] <= g[b])
  BY DEF Thins
<1>2. \A a \in DOMAIN new : a \in Nat /\ g[a] \in DOMAIN old /\ g[a] \in Nat /\ new[a] = old[g[a]]
  BY <1>1
<1>3. ASSUME NEW S, Within(old, S) PROVE Within(new, S)
  BY <1>2, <1>3 DEF Within
<1>4. ASSUME NEW S, NEW T, S \subseteq T, Behind(old, S, T) PROVE Behind(new, S, T)
  <2> SUFFICES ASSUME NEW a \in DOMAIN new, NEW b \in DOMAIN new, a < b, new[a] \in S
               PROVE  new[b] \in T
    BY DEF Behind
  <2>1. g[a] <= g[b]
    BY <1>1
  <2>2. CASE g[a] = g[b]
    BY <1>2, <1>4, <2>2
  <2>3. CASE g[a] < g[b]
    BY <1>2, <1>4, <2>3 DEF Behind
  <2> QED
    BY <1>2, <2>1, <2>2, <2>3
<1>5. ASSUME NEW S, Block(old, S) PROVE Block(new, S)
  <2> SUFFICES ASSUME NEW a \in DOMAIN new, NEW b \in DOMAIN new, NEW c \in DOMAIN new,
                      a < b, b < c, new[a] \in S, new[c] \in S
               PROVE  new[b] \in S
    BY DEF Block
  <2>1. g[a] <= g[b] /\ g[b] <= g[c]
    BY <1>1
  <2>2. CASE g[a] = g[b] \/ g[b] = g[c]
    BY <1>2, <2>2
  <2>3. CASE g[a] < g[b] /\ g[b] < g[c]
    BY <1>2, <1>5, <2>3 DEF Block
  <2> QED
    BY <1>2, <2>1, <2>2, <2>3
<1> QED
  BY <1>3, <1>4, <1>5

\* The second part of a sequence.
LEMMA Joined ==
  ASSUME NEW s \in Seq(Sendable), NEW t \in Seq(Sendable), NEW a \in Nat, a > Len(s), a <= Len(s) + Len(t)
  PROVE  (s \o t)[a] = t[a - Len(s)]
<1>1. Len(s) \in Nat /\ Len(t) \in Nat /\ a \in 1..(Len(s) + Len(t))
  OBVIOUS
<1>2. (s \o t)[a] = IF a <= Len(s) THEN s[a] ELSE t[a - Len(s)]
  BY <1>1
<1> QED
  BY <1>1, <1>2

\* Receiving, losing, doubling and dropping take out or double.
LEMMA ChannelThins ==
  ASSUME NEW ch \in Seq(Sendable)
  PROVE  /\ Thins(ch, ch)
         /\ ch # <<>> => Thins(Tail(ch), ch)
         /\ Thins(Arriving(ch, <<>>), ch)
         /\ \A i \in DOMAIN ch : Thins(Without(ch, i), ch) /\ Thins(Arriving(<<>>, Twice(ch, i)), ch)
<1>1. DOMAIN ch = 1..Len(ch) /\ Len(ch) \in Nat /\ MaxQueue \in Nat
  BY NetAssumption
<1>2. Thins(ch, ch)
  <2> DEFINE g == [a \in DOMAIN ch |-> a]
  <2>1. g \in [DOMAIN ch -> DOMAIN ch] /\ \A a, b \in DOMAIN ch : ch[a] = ch[g[a]] /\ (a < b => g[a] <= g[b])
    BY <1>1
  <2> QED
    BY <2>1 DEF Thins
<1>3. ASSUME ch # <<>> PROVE Thins(Tail(ch), ch)
  <2> DEFINE new == Tail(ch)
             g == [a \in DOMAIN new |-> a + 1]
  <2>1. new \in Seq(Sendable) /\ Len(new) = Len(ch) - 1 /\ DOMAIN new = 1..(Len(ch) - 1)
        /\ \A a \in 1..(Len(ch) - 1) : new[a] = ch[a + 1]
    BY <1>3
  <2>2. g \in [DOMAIN new -> DOMAIN ch] /\ \A a, b \in DOMAIN new : new[a] = ch[g[a]] /\ (a < b => g[a] <= g[b])
    BY <1>1, <2>1
  <2> QED
    BY <2>2 DEF Thins
<1>4. Thins(Arriving(ch, <<>>), ch)
  <2> DEFINE n == IF Len(ch) > MaxQueue THEN MaxQueue ELSE Len(ch)
             new == Arriving(ch, <<>>)
             g == [a \in DOMAIN new |-> a]
  <2>1. n \in 0..Len(ch) /\ new = SubSeq(ch, 1, n)
    BY <1>1 DEF Arriving
  <2> HIDE DEF n
  <2>2. DOMAIN new = 1..n /\ \A a \in 1..n : new[a] = ch[a]
    BY <1>1, <2>1
  <2> HIDE DEF new
  <2>3. g \in [DOMAIN new -> DOMAIN ch] /\ \A a, b \in DOMAIN new : new[a] = ch[g[a]] /\ (a < b => g[a] <= g[b])
    BY <1>1, <2>1, <2>2
  <2> QED
    BY <2>3 DEF Thins, new
<1>5. ASSUME NEW i \in DOMAIN ch PROVE Thins(Without(ch, i), ch)
  <2> DEFINE new == Without(ch, i)
             g == [a \in DOMAIN new |-> IF a < i THEN a ELSE a + 1]
  <2>1. new \in Seq(Sendable) /\ Len(new) = Len(ch) - 1 /\ DOMAIN new = 1..(Len(ch) - 1)
    BY <1>1 DEF Without
  <2>2. \A a \in 1..(Len(ch) - 1) : a < i => new[a] = ch[a]
    BY <1>1 DEF Without
  <2>3. \A a \in 1..(Len(ch) - 1) : a >= i => new[a] = ch[a + 1]
    <3> SUFFICES ASSUME NEW a \in 1..(Len(ch) - 1), a >= i PROVE new[a] = ch[a + 1]
      OBVIOUS
    <3> DEFINE b == a - (i - 1)
    <3>1. i \in Nat /\ a \in Nat /\ b \in 1..(Len(ch) - i) /\ b + i = a + 1
      BY <1>1
    <3> DEFINE front == SubSeq(ch, 1, i - 1)
               rest == SubSeq(ch, i + 1, Len(ch))
    <3>2. front \in Seq(Sendable) /\ Len(front) = i - 1
      BY <1>1, <3>1
    <3>3. rest \in Seq(Sendable) /\ Len(rest) = Len(ch) - i /\ rest[b] = ch[b + i]
      <4>1. rest \in Seq(Sendable) /\ Len(rest) = Len(ch) - i
        BY <1>1, <3>1
      <4> HIDE DEF b
      <4>2. rest[b] = ch[b + i]
        BY <1>1, <3>1
      <4> QED
        BY <4>1, <4>2
    <3>4. (front \o rest)[a] = rest[b]
      <4> HIDE DEF front, rest
      <4>1. a > Len(front) /\ a <= Len(front) + Len(rest) /\ a - Len(front) = b
        BY <1>1, <3>1, <3>2, <3>3
      <4>2. (front \o rest)[a] = rest[a - Len(front)]
        BY <3>1, <3>2, <3>3, <4>1, Joined
      <4> QED
        BY <4>1, <4>2
    <3> QED
      BY <3>1, <3>3, <3>4 DEF Without
  <2> HIDE DEF new
  <2>4. g \in [DOMAIN new -> DOMAIN ch] /\ \A a, b \in DOMAIN new : new[a] = ch[g[a]] /\ (a < b => g[a] <= g[b])
    BY <1>1, <2>1, <2>2, <2>3
  <2> QED
    BY <2>4 DEF Thins, new
<1>6. ASSUME NEW i \in DOMAIN ch PROVE Thins(Arriving(<<>>, Twice(ch, i)), ch)
  <2> DEFINE two == Twice(ch, i)
             n == IF Len(two) > MaxQueue THEN MaxQueue ELSE Len(two)
             new == Arriving(<<>>, Twice(ch, i))
             g == [a \in DOMAIN new |-> IF a <= i THEN a ELSE a - 1]
  <2>1. two \in Seq(Sendable) /\ Len(two) = Len(ch) + 1
        /\ \A a \in 1..(Len(ch) + 1) : two[a] = ch[IF a <= i THEN a ELSE a - 1]
    <3>1. two \in Seq(Sendable) /\ Len(two) = Len(ch) + 1
      BY <1>1 DEF Twice
    <3>2. ASSUME NEW a \in 1..(Len(ch) + 1), a <= i PROVE two[a] = ch[a]
      BY <1>1, <3>2 DEF Twice
    <3>3. ASSUME NEW a \in 1..(Len(ch) + 1), a > i PROVE two[a] = ch[a - 1]
      BY <1>1, <3>3 DEF Twice
    <3> HIDE DEF two
    <3> QED
      BY <1>1, <3>1, <3>2, <3>3
  <2>2. <<>> \o two = two
    BY <2>1
  <2>3. new = SubSeq(two, 1, n)
    BY <2>2 DEF Arriving
  <2> HIDE DEF two
  <2>4. n \in 0..(Len(ch) + 1)
    BY <1>1, <2>1
  <2> HIDE DEF n, new
  <2>5. DOMAIN new = 1..n /\ \A a \in 1..n : new[a] = two[a]
    BY <1>1, <2>1, <2>3, <2>4
  <2>6. g \in [DOMAIN new -> DOMAIN ch] /\ \A a, b \in DOMAIN new : new[a] = ch[g[a]] /\ (a < b => g[a] <= g[b])
    BY <1>1, <2>1, <2>4, <2>5
  <2> QED
    BY <2>6 DEF Thins, new
<1> QED
  BY <1>2, <1>3, <1>4, <1>5, <1>6

\* What arrives is behind everything that is there.
LEMMA ArrivingFacts ==
  ASSUME NEW ch \in Seq(Sendable), NEW m \in Sendable
  PROVE  \A a \in DOMAIN Arriving(ch, <<m>>) :
           /\ a \in Nat
           /\ \/ a \in DOMAIN ch /\ Arriving(ch, <<m>>)[a] = ch[a]
              \/ a = Len(ch) + 1 /\ Arriving(ch, <<m>>)[a] = m
<1> DEFINE all == ch \o <<m>>
           n == IF Len(all) > MaxQueue THEN MaxQueue ELSE Len(all)
<1>1. all \in Seq(Sendable) /\ Len(all) = Len(ch) + 1 /\ Len(ch) \in Nat
      /\ all[Len(ch) + 1] = m /\ \A a \in 1..Len(ch) : all[a] = ch[a]
  OBVIOUS
<1>2. Arriving(ch, <<m>>) = SubSeq(all, 1, n)
  BY DEF Arriving
<1> HIDE DEF all
<1>3. n \in 0..Len(all)
  BY <1>1, NetAssumption
<1> HIDE DEF n
<1>4. DOMAIN SubSeq(all, 1, n) = 1..n /\ \A a \in 1..n : SubSeq(all, 1, n)[a] = all[a]
  BY <1>1, <1>3
<1>5. DOMAIN ch = 1..Len(ch)
  OBVIOUS
<1> QED
  BY <1>1, <1>2, <1>3, <1>4, <1>5

\* A datagram that may be there, and behind what is there, arrives.
LEMMA ArrivingKeeps ==
  ASSUME NEW ch \in Seq(Sendable), NEW m \in Sendable
  PROVE  /\ \A S : Within(ch, S) /\ m \in S => Within(Arriving(ch, <<m>>), S)
         /\ \A S, T : Behind(ch, S, T) /\ (m \in T \/ \A a \in DOMAIN ch : ch[a] \notin S)
                        => Behind(Arriving(ch, <<m>>), S, T)
         /\ \A S : Block(ch, S) /\ (m \notin S \/ \A a \in DOMAIN ch : ch[a] \notin S)
                        => Block(Arriving(ch, <<m>>), S)
<1> DEFINE new == Arriving(ch, <<m>>)
<1>1. /\ \A a \in DOMAIN new : /\ a \in Nat
                               /\ \/ a \in DOMAIN ch /\ new[a] = ch[a]
                                  \/ a = Len(ch) + 1 /\ new[a] = m
  BY ArrivingFacts
<1>2. DOMAIN ch = 1..Len(ch) /\ Len(ch) \in Nat
  OBVIOUS
<1> HIDE DEF new
<1>3. ASSUME NEW S, Within(ch, S), m \in S PROVE Within(new, S)
  BY <1>1, <1>3 DEF Within
<1>4. ASSUME NEW S, NEW T, Behind(ch, S, T), m \in T \/ \A a \in DOMAIN ch : ch[a] \notin S
      PROVE  Behind(new, S, T)
  <2> SUFFICES ASSUME NEW a \in DOMAIN new, NEW b \in DOMAIN new, a < b, new[a] \in S
               PROVE  new[b] \in T
    BY DEF Behind
  <2>1. a \in DOMAIN ch /\ new[a] = ch[a]
    BY <1>1, <1>2
  <2>2. CASE b \in DOMAIN ch /\ new[b] = ch[b]
    BY <1>4, <2>1, <2>2 DEF Behind
  <2>3. CASE new[b] = m
    BY <1>4, <2>1, <2>3
  <2> QED
    BY <1>1, <2>2, <2>3
<1>5. ASSUME NEW S, Block(ch, S), m \notin S \/ \A a \in DOMAIN ch : ch[a] \notin S
      PROVE  Block(new, S)
  <2> SUFFICES ASSUME NEW a \in DOMAIN new, NEW b \in DOMAIN new, NEW c \in DOMAIN new,
                      a < b, b < c, new[a] \in S, new[c] \in S
               PROVE  new[b] \in S
    BY DEF Block
  <2>1. a \in DOMAIN ch /\ new[a] = ch[a] /\ b \in DOMAIN ch /\ new[b] = ch[b]
    BY <1>1, <1>2
  <2>2. c \in DOMAIN ch /\ new[c] = ch[c]
    BY <1>1, <1>5, <2>1
  <2> QED
    BY <1>5, <2>1, <2>2 DEF Block
<1> QED
  BY <1>3, <1>4, <1>5 DEF new

\* Two datagrams arrive one after the other.
LEMMA ArrivingTwo ==
  ASSUME NEW ch \in Seq(Sendable), NEW m \in Sendable, NEW n \in Sendable
  PROVE  Arriving(ch, <<m, n>>) = Arriving(Arriving(ch, <<m>>), <<n>>)
<1> DEFINE Cut(s) == IF Len(s) > MaxQueue THEN MaxQueue ELSE Len(s)
           all == ch \o <<m, n>>
           one == ch \o <<m>>
           mid == SubSeq(one, 1, Cut(one))
           fin == mid \o <<n>>
<1>1. /\ all \in Seq(Sendable) /\ Len(all) = Len(ch) + 2 /\ Len(ch) \in Nat
      /\ one \in Seq(Sendable) /\ Len(one) = Len(ch) + 1 /\ MaxQueue \in Nat
  BY NetAssumption
<1>2. /\ all[Len(ch) + 1] = m /\ all[Len(ch) + 2] = n /\ one[Len(ch) + 1] = m
      /\ \A a \in 1..Len(ch) : all[a] = ch[a] /\ one[a] = ch[a]
  OBVIOUS
<1> HIDE DEF all, one
<1>3. /\ mid \in Seq(Sendable) /\ Len(mid) = Cut(one) /\ \A a \in 1..Cut(one) : mid[a] = one[a]
  BY <1>1
<1> HIDE DEF mid
<1>4. /\ fin \in Seq(Sendable) /\ Len(fin) = Len(mid) + 1 /\ fin[Len(mid) + 1] = n
      /\ \A a \in 1..Len(mid) : fin[a] = mid[a]
  BY <1>3
<1> HIDE DEF fin
<1>5. /\ SubSeq(fin, 1, Cut(fin)) \in Seq(Sendable) /\ Len(SubSeq(fin, 1, Cut(fin))) = Cut(fin)
      /\ \A a \in 1..Cut(fin) : SubSeq(fin, 1, Cut(fin))[a] = fin[a]
  BY <1>1, <1>3, <1>4
<1>6. /\ SubSeq(all, 1, Cut(all)) \in Seq(Sendable) /\ Len(SubSeq(all, 1, Cut(all))) = Cut(all)
      /\ \A a \in 1..Cut(all) : SubSeq(all, 1, Cut(all))[a] = all[a]
  BY <1>1
<1>7. Cut(all) = Cut(fin) /\ Cut(all) \in Nat
  BY <1>1, <1>3, <1>4
<1>8. \A a \in 1..Cut(all) : fin[a] = all[a]
  <2> SUFFICES ASSUME NEW a \in 1..Cut(all) PROVE fin[a] = all[a]
    OBVIOUS
  <2>1. CASE a <= Len(mid)
    <3>1. fin[a] = one[a] /\ a \in 1..(Len(ch) + 1)
      BY <1>1, <1>3, <1>4, <1>7, <2>1
    <3> QED
      BY <1>1, <1>2, <3>1
  <2>2. CASE a > Len(mid)
    BY <1>1, <1>2, <1>3, <1>4, <1>7, <2>2
  <2> QED
    BY <1>1, <1>3, <1>7, <2>1, <2>2
<1>9. SubSeq(all, 1, Cut(all)) = SubSeq(fin, 1, Cut(fin))
  BY <1>5, <1>6, <1>7, <1>8, SeqEqual
<1> QED
  BY <1>9 DEF Arriving, all, one, mid, fin

\* What is behind the head.
LEMMA HeadFacts ==
  ASSUME NEW ch \in Seq(Sendable), ch # <<>>
  PROVE  /\ Head(ch) \in Sendable /\ Tail(ch) \in Seq(Sendable)
         /\ \A S : Within(ch, S) => Head(ch) \in S
         /\ \A S, T : Behind(ch, S, T) /\ Head(ch) \in S => Within(Tail(ch), T)
         /\ \A S : Block(ch, S) /\ Head(ch) \in S
              => \A a, b \in DOMAIN Tail(ch) : a < b /\ Tail(ch)[a] \notin S => Tail(ch)[b] \notin S
<1>1. /\ Head(ch) = ch[1] /\ 1 \in DOMAIN ch /\ Len(ch) \in Nat
      /\ \A a \in DOMAIN Tail(ch) : a \in Nat /\ a > 0 /\ a + 1 \in DOMAIN ch /\ Tail(ch)[a] = ch[a + 1]
      /\ Head(ch) \in Sendable /\ Tail(ch) \in Seq(Sendable)
  OBVIOUS
<1>2. ASSUME NEW S, Within(ch, S) PROVE Head(ch) \in S
  BY <1>1, <1>2 DEF Within
<1>3. ASSUME NEW S, NEW T, Behind(ch, S, T), Head(ch) \in S PROVE Within(Tail(ch), T)
  BY <1>1, <1>3 DEF Within, Behind
<1>4. ASSUME NEW S, Block(ch, S), Head(ch) \in S, NEW a \in DOMAIN Tail(ch), NEW b \in DOMAIN Tail(ch),
             a < b, Tail(ch)[a] \notin S, Tail(ch)[b] \in S
      PROVE  FALSE
  <2>1. a + 1 \in DOMAIN ch /\ b + 1 \in DOMAIN ch /\ 1 < a + 1 /\ a + 1 < b + 1
    BY <1>1, <1>4
  <2> QED
    BY <1>1, <1>4, <2>1 DEF Block
<1> QED
  BY <1>1, <1>2, <1>3, <1>4

\* The same for a channel whose head is received or in which nothing arrives.
LEMMA TailKeeps ==
  ASSUME NEW ch \in Seq(Sendable), NEW new, new = Arriving(ch, <<>>) \/ (ch # <<>> /\ new = Tail(ch))
  PROVE  /\ new \in Seq(Sendable)
         /\ \A S : Within(ch, S) => Within(new, S)
         /\ \A S, T : S \subseteq T /\ Behind(ch, S, T) => Behind(new, S, T)
         /\ \A S : Block(ch, S) => Block(new, S)
<1>1. new \in Seq(Sendable)
  BY HeadType, ArrivingType, AnswerTypes
<1>2. Thins(new, ch)
  BY ChannelThins
<1> QED
  BY <1>1, <1>2, ThinKeeps

\* A channel that holds datagrams of S holds datagrams of a larger set.
LEMMA Wider ==
  ASSUME NEW ch, NEW S, NEW T, Within(ch, S), S \subseteq T
  PROVE  Within(ch, T)
  BY DEF Within

\* The datagrams of a transfer.
LEMMA Letters ==
  /\ \A n \in Nat : AckSeq(n) \in Bare /\ \A k \in Nat : AckSeq(n) \in Below(k) <=> n < k
  /\ AckStart \in Bare /\ AckExit \in Bare
  /\ \A n \in Slots : Start(n) \in Bare
  /\ \A m \in Sendable, k \in Nat : m.type # "ack seq" => m \in Below(k)
  /\ \A m \in Sendable : Echo(m) \in Sendable /\ (m.cmd.op = "none" => Echo(m) \in Bare)
<1>2. /\ \A n \in Nat : AckSeq(n) \in Sendable
      /\ AckStart \in Sendable /\ AckExit \in Sendable
      /\ \A n \in Slots : Start(n) \in Sendable
  BY DatagramTypes
<1>3. \A m \in Sendable : Echo(m) \in Sendable /\ Echo(m).cmd = m.cmd
  BY PayloadType, Kinds DEF Echo
<1>4. /\ \A n : AckSeq(n).type = "ack seq" /\ AckSeq(n).n = n /\ AckSeq(n).cmd = NoCmd
      /\ \A n : Start(n).cmd = NoCmd
      /\ AckStart.cmd = NoCmd /\ AckExit.cmd = NoCmd /\ NoCmd.op = "none"
  BY Kinds
<1>5. \A n \in Nat : AckSeq(n) \in Bare /\ \A k \in Nat : AckSeq(n) \in Below(k) <=> n < k
  BY <1>2, <1>4 DEF Bare, Below
<1>6. \A m \in Sendable, k \in Nat : m.type # "ack seq" => m \in Below(k)
  BY DEF Below
<1> QED
  <2>1. AckStart \in Bare /\ AckExit \in Bare /\ \A n \in Slots : Start(n) \in Bare
    BY <1>2, <1>4 DEF Bare
  <2>2. \A m \in Sendable : m.cmd.op = "none" => Echo(m) \in Bare
    BY <1>3 DEF Bare
  <2> QED
    BY <1>3, <1>5, <1>6, <2>1, <2>2

\* The frames of a text: datagrams of their own, told apart by their numbers.
LEMMA SentFrames ==
  ASSUME NEW t \in Text, NEW i \in Nat, i < t.len
  PROVE  /\ i \in Slots /\ i + 1 \in Slots /\ t.len \in Nat /\ t.len \in Slots
         /\ SentFrame(t, i) \in Sendable /\ SentFrame(t, i) \in Bare
         /\ SentFrame(t, i).type = "seq" /\ SentFrame(t, i).n = i /\ SentFrame(t, i).p = Frame(t, i)
         /\ SentFrame(t, i).cmd.op = "none"
         /\ Number(SentFrame(t, i)) = i /\ Payload(SentFrame(t, i)) = Frame(t, i)
<1>1. i \in Slots /\ i + 1 \in Slots /\ t.len \in Nat /\ t.len \in Slots
  BY SlotsType DEF Text, Slots
<1>2. SentFrame(t, i) \in Sendable
  <2>1. NoCmd \in CmdType /\ NoCmd.op = "none" /\ Frame(t, i) \in Frames
    BY <1>1, FrameType, SlotsType DEF NoCmd, Cmd, CmdType, Slots
  <2> QED
    BY <2>1 DEF SentFrame, Datagram, Sendable, Datagrams, CmdType
<1>3. /\ SentFrame(t, i).type = "seq" /\ SentFrame(t, i).n = i /\ SentFrame(t, i).p = Frame(t, i)
      /\ SentFrame(t, i).cmd.op = "none"
  BY SentFrameFields
<1> QED
  BY <1>1, <1>2, <1>3 DEF Number, Payload, Bare

\* A frame that is there already is copied once more.
LEMMA CopiedAgain ==
  ASSUME NEW t \in Text, NEW n \in Nat, n < t.len, NEW k \in {n, n + 1}
  PROVE  StrCpy(Prefix(t, k), n, Frame(t, n)) = Prefix(t, n + 1)
<1>1. CASE k = n
  BY <1>1, PrefixFacts
<1>2. CASE k = n + 1
  <2>1. Slots \subseteq Nat
    BY SlotsType
  <2>2. ASSUME NEW j \in Slots
        PROVE  StrCpy(Prefix(t, k), n, Frame(t, n))[j] = Prefix(t, n + 1)[j]
    <3>1. StrCpy(Prefix(t, k), n, Frame(t, n))[j] =
            CASE j = n -> Frame(t, n) [] j = n + 1 /\ Full(Frame(t, n)) -> Gap [] OTHER -> Prefix(t, k)[j]
      BY DEF StrCpy
    <3>2. Prefix(t, n + 1)[j] = IF j < n + 1 THEN Frame(t, j) ELSE Gap
      BY DEF Prefix
    <3> QED
      BY <1>2, <2>1, <3>1, <3>2
  <2> QED
    BY <2>2 DEF StrCpy, Prefix
<1> QED
  BY <1>1, <1>2

\* A transfer goes on when datagrams are lost or doubled.
LEMMA TransferKept ==
  ASSUME NEW t, NEW i, NEW first, NEW frames, NEW acks, NEW data, NEW frames2, NEW acks2,
         Transfer(t, i, first, frames, acks, data),
         \A S : Within(frames, S) => Within(frames2, S),
         \A S : Behind(frames, S, S) => Behind(frames2, S, S),
         \A k \in {i, i + 1} : Within(acks, Below(k)) => Within(acks2, Below(k))
  PROVE  Transfer(t, i, first, frames2, acks2, data)
  BY DEF Transfer

\* The sender sends the frame again.
LEMMA TransferAgain ==
  ASSUME Numbered, NEW t \in Text, NEW i \in Nat, i < t.len, NEW first, NEW frames \in Seq(Sendable),
         NEW acks, NEW data, NEW acks2, Transfer(t, i, first, frames, acks, data),
         \A k \in {i, i + 1} : Within(acks, Below(k)) => Within(acks2, Below(k))
  PROVE  Transfer(t, i, first, Arriving(frames, <<SentFrame(t, i)>>), acks2, data)
<1> DEFINE F == SentFrame(t, i)
           fs == Arriving(frames, <<F>>)
<1>1. F \in Sendable
  BY SentFrames
<1>2. \A S : F \in S => (Within(frames, S) => Within(fs, S)) /\ (Behind(frames, S, S) => Behind(fs, S, S))
  BY <1>1, ArrivingKeeps
<1> HIDE DEF fs
<1>3. Within(fs, (IF i = 0 THEN first ELSE {SentFrame(t, i - 1)}) \cup {F}) /\ Behind(fs, {F}, {F})
  BY <1>2 DEF Transfer
<1>4. \E k \in {i, i + 1} :
        /\ k < t.len /\ data = Prefix(t, k)
        /\ k = i + 1 => Within(fs, {F})
        /\ Within(acks2, Below(k))
  BY <1>2 DEF Transfer
<1> QED
  BY <1>3, <1>4 DEF Transfer, fs

\* The sender receives the acknowledgement and sends the next frame.
LEMMA TransferNext ==
  ASSUME Numbered, NEW t \in Text, NEW i \in Nat, i < t.len, NEW first, NEW frames \in Seq(Sendable),
         NEW acks \in Seq(Sendable), acks # <<>>, Head(acks) = AckSeq(i), NEW data,
         Transfer(t, i, first, frames, acks, data)
  PROVE  /\ i + 1 < t.len
         /\ Transfer(t, i + 1, first, Arriving(frames, <<SentFrame(t, i + 1)>>), Tail(acks), data)
<1> DEFINE F == SentFrame(t, i)
           G == SentFrame(t, i + 1)
           fs == Arriving(frames, <<G>>)
<1>1. PICK k \in {i, i + 1} : /\ k < t.len /\ data = Prefix(t, k)
                              /\ k = i + 1 => Within(frames, {F})
                              /\ Within(acks, Below(k))
  BY DEF Transfer
<1>2. AckSeq(i) \in Below(k)
  BY <1>1, HeadFacts
<1>3. k = i + 1
  <2>1. k \in Nat
    OBVIOUS
  <2>2. i < k
    BY <1>2, <2>1, Letters
  <2> QED
    BY <2>2
<1>4. G \in Sendable /\ F # G
  BY <1>1, <1>3, SentFrames
<1> HIDE DEF F, G
<1>5. Within(frames, {F, G})
  BY <1>1, <1>3, Wider
<1>6. Within(fs, {F, G})
  BY <1>4, <1>5, ArrivingKeeps
<1>7. Behind(frames, {G}, {G}) /\ \A a \in DOMAIN frames : frames[a] \notin {G}
  BY <1>1, <1>3, <1>4 DEF Behind, Within
<1>8. Behind(fs, {G}, {G})
  BY <1>4, <1>7, ArrivingKeeps
<1>9. Within(Tail(acks), Below(k))
  BY <1>1, TailKeeps
<1> HIDE DEF fs
<1>10. Within(fs, (IF i + 1 = 0 THEN first ELSE {SentFrame(t, (i + 1) - 1)}) \cup {G})
  <2>1. (IF i + 1 = 0 THEN first ELSE {SentFrame(t, (i + 1) - 1)}) \cup {G} = {F, G}
    BY DEF F
  <2> QED
    BY <1>6, <2>1
<1> QED
  BY <1>1, <1>3, <1>8, <1>9, <1>10 DEF Transfer, fs, G

\* The receiver receives a frame: it has the text, or the transfer goes on.
LEMMA TransferReceive ==
  ASSUME Numbered, NEW t \in Text, NEW i \in Nat, i < t.len, NEW first, \A m \in first : m.type # "seq",
         NEW frames \in Seq(Sendable), frames # <<>>, Head(frames).type = "seq",
         NEW acks \in Seq(Sendable), NEW data, Transfer(t, i, first, frames, acks, data)
  PROVE  LET n == Head(frames).n
             data2 == StrCpy(data, n, Head(frames).p)
         IN /\ n \in Nat /\ n < t.len /\ Head(frames) = SentFrame(t, n)
            /\ \/ /\ i + 1 = t.len /\ data2 = Prefix(t, t.len)
                  /\ Within(Tail(frames), {SentFrame(t, i)})
               \/ /\ Transfer(t, i, first, Tail(frames), Arriving(acks, <<AckSeq(n)>>), data2)
                  /\ ~Filled(data2, t.len)
<1> DEFINE F == SentFrame(t, i)
           m == Head(frames)
           prev == IF i = 0 THEN first ELSE {SentFrame(t, i - 1)}
           as == Arriving(acks, <<AckSeq(m.n)>>)
<1>1. m \in prev \cup {F} /\ Tail(frames) \in Seq(Sendable)
  BY HeadFacts DEF Transfer
<1>2. PICK k \in {i, i + 1} : /\ k < t.len /\ data = Prefix(t, k)
                              /\ k = i + 1 => Within(frames, {F})
                              /\ Within(acks, Below(k))
  BY DEF Transfer
<1>3. t.len \in Nat /\ F.n = i /\ F.p = Frame(t, i)
  BY SentFrames
<1>4. Within(frames, prev \cup {F}) /\ Behind(frames, {F}, {F})
  BY DEF Transfer
<1>5. Within(Tail(frames), prev \cup {F}) /\ Behind(Tail(frames), {F}, {F})
  <2> DEFINE P == prev \cup {F}
  <2>1. Within(frames, P)
    BY <1>4
  <2> HIDE DEF P, F
  <2>2. Within(Tail(frames), P) /\ Behind(Tail(frames), {F}, {F})
    BY <1>4, <2>1, TailKeeps
  <2> QED
    BY <2>2 DEF P
<1>6. CASE m = F
  <2>1. StrCpy(data, m.n, m.p) = Prefix(t, i + 1)
    BY <1>2, <1>3, <1>6, CopiedAgain
  <2>2. Within(Tail(frames), {F})
    BY <1>6, HeadFacts DEF Transfer
  <2>3. CASE i + 1 = t.len
    BY <1>3, <1>6, <2>1, <2>2, <2>3
  <2>4. CASE i + 1 < t.len
    <3>1. ~Filled(Prefix(t, i + 1), t.len)
      BY <1>3, <2>4, PrefixFacts
    <3>2. Within(acks, Below(i + 1))
      <4>1. Below(k) \subseteq Below(i + 1)
        <5> SUFFICES ASSUME NEW x \in Below(k) PROVE x \in Below(i + 1)
          OBVIOUS
        <5>1. x \in Sendable /\ (x.type = "ack seq" => x.n < k)
          BY DEF Below
        <5>2. x.n \in Nat
          BY <5>1, PayloadType
        <5>3. \A n \in Nat : n < k => n < i + 1
          OBVIOUS
        <5> QED
          BY <5>1, <5>2, <5>3 DEF Below
      <4> QED
        BY <1>2, <4>1, Wider
    <3>3. AckSeq(i) \in Below(i + 1) /\ AckSeq(i) \in Sendable
      <4>1. i + 1 \in Nat /\ i < i + 1
        OBVIOUS
      <4> QED
        BY <4>1, Letters, DatagramTypes
    <3>4. Within(as, Below(i + 1))
      BY <1>3, <1>6, <3>2, <3>3, ArrivingKeeps
    <3> HIDE DEF as
    <3>5. Transfer(t, i, first, Tail(frames), as, Prefix(t, i + 1))
      BY <1>5, <2>2, <2>4, <3>4 DEF Transfer
    <3> QED
      BY <1>3, <1>6, <2>1, <3>1, <3>5 DEF as
  <2> QED
    BY <1>3, <2>3, <2>4
<1>7. CASE m # F
  <2> DEFINE j == i - 1
  <2>1. i > 0 /\ m = SentFrame(t, j) /\ j \in Nat /\ j < t.len
    BY <1>1, <1>3, <1>7
  <2>2. k = i
    <3>1. ~Within(frames, {F})
      BY <1>7, HeadFacts
    <3> QED
      BY <1>2, <3>1
  <2>3. m.n = j /\ m.p = Frame(t, j)
    BY <2>1, SentFrames
  <2>4. StrCpy(data, m.n, m.p) = Prefix(t, i)
    <3>1. StrCpy(Prefix(t, i), j, Frame(t, j)) = Prefix(t, j + 1)
      BY <2>1, CopiedAgain
    <3>2. j + 1 = i
      OBVIOUS
    <3> QED
      BY <1>2, <2>2, <2>3, <3>1, <3>2
  <2>5. ~Filled(Prefix(t, i), t.len)
    BY <1>3, PrefixFacts
  <2>6. AckSeq(j) \in Below(i) /\ AckSeq(j) \in Sendable
    <3>1. j \in Nat /\ j < i
      BY <2>1
    <3> HIDE DEF j
    <3> QED
      BY <3>1, Letters, DatagramTypes
  <2>7. Within(as, Below(i))
    BY <1>2, <2>2, <2>3, <2>6, ArrivingKeeps
  <2> HIDE DEF as
  <2>8. Transfer(t, i, first, Tail(frames), as, Prefix(t, i))
    <3>1. /\ i < t.len /\ Prefix(t, i) = Prefix(t, i)
          /\ i = i + 1 => Within(Tail(frames), {F})
          /\ Within(as, Below(i))
      BY <2>7
    <3>2. \E l \in {i, i + 1} :
            /\ l < t.len /\ Prefix(t, i) = Prefix(t, l)
            /\ l = i + 1 => Within(Tail(frames), {F})
            /\ Within(as, Below(l))
      BY <3>1
    <3> QED
      BY <1>5, <3>2, Zenon DEF Transfer
  <2> QED
    BY <2>1, <2>3, <2>4, <2>5, <2>8 DEF as
<1> QED
  BY <1>6, <1>7

\* The first frame is sent.
LEMMA TransferBegins ==
  ASSUME Numbered, NEW t \in Text, 0 < t.len, NEW first, \A m \in first : m.type # "seq",
         NEW frames \in Seq(Sendable), Within(frames, first), NEW acks, Within(acks, Below(0))
  PROVE  Transfer(t, 0, first, Arriving(frames, <<SentFrame(t, 0)>>), acks, EmptyBuffer)
<1> DEFINE F == SentFrame(t, 0)
           fs == Arriving(frames, <<F>>)
<1>1. F \in Sendable /\ F \notin first
  BY SentFrames
<1>2. Within(frames, first \cup {F})
  BY Wider
<1>3. Within(fs, first \cup {F})
  BY <1>1, <1>2, ArrivingKeeps
<1>4. Behind(frames, {F}, {F}) /\ \A a \in DOMAIN frames : frames[a] \notin {F}
  BY <1>1 DEF Behind, Within
<1>5. Behind(fs, {F}, {F})
  BY <1>1, <1>4, ArrivingKeeps
<1>6. EmptyBuffer = Prefix(t, 0)
  BY PrefixFacts
<1> HIDE DEF fs
<1> QED
  BY <1>3, <1>5, <1>6 DEF Transfer, fs

\* The receiver has not the whole text.
LEMMA TransferUnfilled ==
  ASSUME NEW t \in Text, NEW i \in Nat, NEW first, NEW frames, NEW acks, NEW data,
         Transfer(t, i, first, frames, acks, data)
  PROVE  ~Filled(data, t.len)
<1>1. PICK k \in {i, i + 1} : k < t.len /\ data = Prefix(t, k)
  BY DEF Transfer
<1>2. t.len \in Nat
  BY SlotsType DEF Text, Slots
<1> QED
  BY <1>1, <1>2, PrefixFacts

-----------------------------------------------------------------------------
\* What a step of the server does.

\* What the server does with a datagram that it takes for a command.
LEMMA CommandOutcomes ==
  ASSUME Numbered, TypeInv, srvCommand
  PROVE  LET m == Head(toServer)
             acked == Arriving(toClient, <<Echo(m)>>)
         IN /\ srv.pc = "command" /\ toServer # <<>> /\ toServer' = Tail(toServer) /\ store' = store
            /\ m \in Sendable /\ acked \in Seq(Sendable)
            /\ \/ /\ m.cmd.op = "put" /\ toClient' = acked
                  /\ srv'.pc = "put" /\ srv'.request = m /\ srv'.response = NoText
                  /\ srv'.data = EmptyBuffer
               \/ /\ m.cmd.op = "exit" /\ toClient' = Arriving(acked, <<AckExit>>)
                  /\ srv'.pc = "gone" /\ srv'.response = NoText
               \/ /\ m.cmd.op \notin {"put", "exit"}
                  /\ toClient' = Arriving(acked, <<Start(Response(m).len)>>)
                  /\ srv'.pc = "start" /\ srv'.request = m /\ srv'.response = Response(m)
<1> DEFINE m == Head(toServer)
           t == Response(m)
<1>1. srv.pc = "command" /\ toServer # <<>> /\ UNCHANGED store
  BY DEF srvCommand
<1>2. m \in Sendable
  BY <1>1, Fields, HeadType
<1>3. m \in Datagrams /\ Echo(m) \in Sendable /\ t \in Text /\ t.len \in Slots
  BY <1>2, PayloadType, ResponseType
<1>4. Start(t.len) \in Sendable /\ AckExit \in Sendable
  BY <1>3, DatagramTypes
<1>5. \/ /\ m.cmd.op = "put" /\ ServerReceives(<<Echo(m)>>)
         /\ srv' = [Idle EXCEPT !.pc = "put", !.request = m]
      \/ /\ m.cmd.op = "exit" /\ ServerReceives(<<Echo(m), AckExit>>)
         /\ srv' = [Idle EXCEPT !.pc = "gone"]
      \/ /\ m.cmd.op \notin {"put", "exit"} /\ ServerReceives(<<Echo(m), Start(t.len)>>)
         /\ srv' = [Idle EXCEPT !.pc = "start", !.request = m, !.response = t]
  BY DEF srvCommand
<1> HIDE DEF m, t
<1>6. toClient \in Seq(Sendable) /\ Arriving(toClient, <<Echo(m)>>) \in Seq(Sendable)
  BY <1>3, Fields, ArrivingType, AnswerTypes
<1>7. /\ Arriving(toClient, <<Echo(m), AckExit>>) = Arriving(Arriving(toClient, <<Echo(m)>>), <<AckExit>>)
      /\ Arriving(toClient, <<Echo(m), Start(t.len)>>)
           = Arriving(Arriving(toClient, <<Echo(m)>>), <<Start(t.len)>>)
  BY <1>3, <1>4, <1>6, ArrivingTwo
<1>8. Idle \in Server /\ Idle.response = NoText /\ Idle.data = EmptyBuffer
  BY IdleType DEF Idle
<1>9. /\ toServer' = Tail(toServer)
      /\ \/ /\ m.cmd.op = "put" /\ toClient' = Arriving(toClient, <<Echo(m)>>)
            /\ srv' = [Idle EXCEPT !.pc = "put", !.request = m]
         \/ /\ m.cmd.op = "exit" /\ toClient' = Arriving(Arriving(toClient, <<Echo(m)>>), <<AckExit>>)
            /\ srv' = [Idle EXCEPT !.pc = "gone"]
         \/ /\ m.cmd.op \notin {"put", "exit"}
            /\ toClient' = Arriving(Arriving(toClient, <<Echo(m)>>), <<Start(t.len)>>)
            /\ srv' = [Idle EXCEPT !.pc = "start", !.request = m, !.response = t]
  BY <1>5, <1>7, Zenon DEF ServerReceives
<1>10. \/ /\ m.cmd.op = "put" /\ toClient' = Arriving(toClient, <<Echo(m)>>)
          /\ srv'.pc = "put" /\ srv'.request = m /\ srv'.response = NoText
          /\ srv'.data = EmptyBuffer
       \/ /\ m.cmd.op = "exit" /\ toClient' = Arriving(Arriving(toClient, <<Echo(m)>>), <<AckExit>>)
          /\ srv'.pc = "gone" /\ srv'.response = NoText
       \/ /\ m.cmd.op \notin {"put", "exit"}
          /\ toClient' = Arriving(Arriving(toClient, <<Echo(m)>>), <<Start(t.len)>>)
          /\ srv'.pc = "start" /\ srv'.request = m /\ srv'.response = t
  BY <1>8, <1>9 DEF Server
<1> QED
  BY <1>1, <1>2, <1>6, <1>9, <1>10 DEF m, t

\* What the server does while it waits for ACK START.
LEMMA StartOutcomes ==
  ASSUME Numbered, TypeInv, srvStart
  PROVE  LET m == Head(toServer)
             t == srv.response
         IN /\ srv.pc = "start" /\ toServer # <<>> /\ toServer' = Tail(toServer) /\ store' = store
            /\ m \in Sendable /\ Echo(m) \in Sendable /\ Arriving(toClient, <<Echo(m)>>) \in Seq(Sendable)
            /\ \/ /\ m = AckStart /\ t.len > 0 /\ toClient' = Arriving(toClient, <<SentFrame(Download, 0)>>)
                  /\ srv'.pc = "frames" /\ srv'.i = 0 /\ srv'.seq = 0
                  /\ srv'.response = t /\ srv'.request = srv.request /\ Download' = Download
               \/ m = AckStart /\ t.len = 0 /\ toClient' = Arriving(toClient, <<>>) /\ srv' = Idle
               \/ /\ m = srv.request /\ m # AckStart /\ m.cmd.op # "get" /\ srv' = srv
                  /\ toClient' = Arriving(Arriving(toClient, <<Echo(m)>>), <<Start(t.len)>>)
               \/ /\ m # AckStart /\ ~(m = srv.request /\ m.cmd.op # "get") /\ srv' = srv
                  /\ toClient' = Arriving(toClient, <<Start(t.len)>>)
<1> DEFINE m == Head(toServer)
           t == srv.response
<1>1. srv.pc = "start" /\ toServer # <<>> /\ UNCHANGED store /\ srv.i = 0 /\ srv.seq = 0
  BY Fields DEF srvStart, PlacesOK
<1>2. m \in Sendable /\ t \in Text /\ t.len \in Slots /\ toClient \in Seq(Sendable)
  BY <1>1, Fields, HeadType
<1>3. Echo(m) \in Sendable /\ Start(t.len) \in Sendable
  BY <1>2, PayloadType, DatagramTypes
<1>4. Arriving(toClient, <<Echo(m)>>) \in Seq(Sendable)
  BY <1>2, <1>3, ArrivingType, AnswerTypes
<1>5. Arriving(toClient, <<Echo(m), Start(t.len)>>)
        = Arriving(Arriving(toClient, <<Echo(m)>>), <<Start(t.len)>>)
  BY <1>2, <1>3, ArrivingTwo
<1>6. t.len > 0 => SeqFrame(ServerLayout, 0, Frame(t, 0)) = SentFrame(Download, 0)
  BY <1>2, SeqFrames DEF Numbered, Download
<1>7. \/ /\ m = AckStart /\ t.len > 0 /\ ServerReceives(<<SeqFrame(ServerLayout, 0, Frame(t, 0))>>)
         /\ srv' = [srv EXCEPT !.pc = "frames"]
      \/ m = AckStart /\ t.len = 0 /\ ServerReceives(<<>>) /\ srv' = Idle
      \/ /\ m = srv.request /\ m # AckStart /\ m.cmd.op # "get"
         /\ ServerReceives(<<Echo(m), Start(t.len)>>) /\ srv' = srv
      \/ /\ m # AckStart /\ ~(m = srv.request /\ m.cmd.op # "get")
         /\ ServerReceives(<<Start(t.len)>>) /\ srv' = srv
  BY Zenon DEF srvStart
<1> HIDE DEF m
<1>8. ASSUME srv' = [srv EXCEPT !.pc = "frames"]
      PROVE  /\ srv'.pc = "frames" /\ srv'.i = 0 /\ srv'.seq = 0 /\ srv'.response = t
             /\ srv'.request = srv.request /\ Download' = Download
  BY <1>1, <1>8, Fields DEF Server, Download
<1>9. /\ toServer' = Tail(toServer)
      /\ \/ /\ m = AckStart /\ t.len > 0 /\ toClient' = Arriving(toClient, <<SentFrame(Download, 0)>>)
            /\ srv' = [srv EXCEPT !.pc = "frames"]
         \/ m = AckStart /\ t.len = 0 /\ toClient' = Arriving(toClient, <<>>) /\ srv' = Idle
         \/ /\ m = srv.request /\ m # AckStart /\ m.cmd.op # "get" /\ srv' = srv
            /\ toClient' = Arriving(Arriving(toClient, <<Echo(m)>>), <<Start(t.len)>>)
         \/ /\ m # AckStart /\ ~(m = srv.request /\ m.cmd.op # "get") /\ srv' = srv
            /\ toClient' = Arriving(toClient, <<Start(t.len)>>)
  BY <1>5, <1>6, <1>7, Zenon DEF ServerReceives
<1> QED
  BY <1>1, <1>2, <1>3, <1>4, <1>8, <1>9, Zenon DEF m

\* The next number is the next place.
LEMMA NextNumber ==
  ASSUME Numbered, NEW i \in Nat, NEW len \in Slots, i + 1 < len
  PROVE  NextSeq(i) = i + 1
<1>1. len <= MaxLen /\ len \in Nat /\ MaxLen \in Nat /\ MaxSeq \in Nat
  BY NetAssumption DEF Slots
<1> QED
  BY <1>1 DEF Numbered, NextSeq

\* What the server does while it sends frames.
LEMMA FramesOutcomes ==
  ASSUME Numbered, TypeInv, Numbers, srvFrames
  PROVE  LET m == Head(toServer)
             t == Download
             i == srv.i
         IN /\ srv.pc = "frames" /\ toServer # <<>> /\ toServer' = Tail(toServer) /\ store' = store
            /\ m \in Sendable /\ t \in Text /\ i \in Nat /\ i < t.len
            /\ \/ /\ m = AckSeq(i) /\ i + 1 < t.len /\ toClient' = Arriving(toClient, <<SentFrame(t, i + 1)>>)
                  /\ srv'.pc = "frames" /\ srv'.i = i + 1 /\ srv'.seq = i + 1 /\ Download' = t
                  /\ srv'.response = srv.response
               \/ /\ m = AckSeq(i) /\ i + 1 = t.len /\ toClient' = Arriving(toClient, <<>>) /\ srv' = Idle
               \/ /\ m # AckSeq(i) /\ toClient' = Arriving(toClient, <<SentFrame(t, i)>>) /\ srv' = srv
<1> DEFINE m == Head(toServer)
           r == srv.response
           t == Download
           i == srv.i
           next == [srv EXCEPT !.i = srv.i + 1, !.seq = NextSeq(srv.seq)]
<1>1. srv.pc = "frames" /\ toServer # <<>> /\ UNCHANGED store /\ srv.i < r.len /\ srv.seq = i
  BY Fields DEF srvFrames, PlacesOK, Numbers
<1>2. /\ m \in Sendable /\ t \in Text /\ t.len \in Slots /\ i \in Slots /\ i \in Nat /\ t.len \in Nat
      /\ r \in Text /\ r.len = t.len
  BY <1>1, Fields, HeadType, SlotsType, UploadFacts
<1>3. next \in Server /\ next.pc = "frames" /\ next.i = i + 1 /\ next.seq = NextSeq(i) /\ next.response = r
  <2>1. i + 1 \in Slots /\ NextSeq(srv.seq) \in Nat
    BY <1>1, <1>2, PlaceAfter, NextSeqType
  <2> QED
    BY <1>1, <2>1, Fields DEF Server
<1>4. i + 1 < t.len => next.seq = i + 1
  BY <1>2, <1>3, NextNumber
<1>5. \/ /\ m = AckSeq(srv.seq) /\ next.i < r.len /\ ServerReceives(<<SeqFrame(ServerLayout, next.seq, Frame(r, next.i))>>)
         /\ srv' = next
      \/ m = AckSeq(srv.seq) /\ next.i = r.len /\ ServerReceives(<<>>) /\ srv' = Idle
      \/ m # AckSeq(srv.seq) /\ ServerReceives(<<SeqFrame(ServerLayout, srv.seq, Frame(r, srv.i))>>) /\ srv' = srv
  BY Zenon DEF srvFrames
<1>6. /\ SeqFrame(ServerLayout, i, Frame(r, i)) = SentFrame(t, i)
      /\ SeqFrame(ServerLayout, i + 1, Frame(r, i + 1)) = SentFrame(t, i + 1)
  BY <1>1, <1>2, SeqFrames DEF Numbered, Download
<1>u. srv' = next => Download' = t
  BY <1>3 DEF Download
<1> HIDE DEF next, m, t
<1>7. toServer' = Tail(toServer)
  BY <1>5 DEF ServerReceives
<1>8. \/ /\ m = AckSeq(i) /\ i + 1 < t.len /\ toClient' = Arriving(toClient, <<SentFrame(t, i + 1)>>)
         /\ srv'.pc = "frames" /\ srv'.i = i + 1 /\ srv'.seq = i + 1 /\ Download' = t
         /\ srv'.response = r
      \/ m = AckSeq(i) /\ i + 1 = t.len /\ toClient' = Arriving(toClient, <<>>) /\ srv' = Idle
      \/ m # AckSeq(i) /\ toClient' = Arriving(toClient, <<SentFrame(t, i)>>) /\ srv' = srv
  BY <1>1, <1>2, <1>3, <1>4, <1>5, <1>6, <1>u DEF ServerReceives
<1> QED
  BY <1>1, <1>2, <1>7, <1>8 DEF m, t

\* The answer to a command is whole where the files are.
LEMMA ResponseWhole ==
  ASSUME TypeInv, Whole, NEW m \in Sendable
  PROVE  /\ Response(m).kind # "mixed" /\ Response(m) \in Text /\ Response(m).len \in Slots
         /\ Response(m).len = 0 => m.cmd.op = "get"
<1>1. Response(m) \in Text /\ Response(m).len \in Slots
  BY ResponseType
<1>2. m.cmd.op = "get" => m.cmd.file \in Files
  BY PayloadType
<1>3. CASE m.cmd.op = "get"
  BY <1>1, <1>2, <1>3 DEF Response, Whole
<1>4. CASE m.cmd.op # "get"
  BY <1>1, <1>4 DEF Response, ListText, Plain
<1> QED
  BY <1>3, <1>4

\* The server's texts stay whole; what a put has brought is shown where it ends.
LEMMA ServerWhole ==
  ASSUME Numbered, TypeInv, Whole, Numbers, srv.pc # "put", ServerStep, UNCHANGED clientVars
  PROVE  Whole' /\ Numbers'
<1>1. cli' = cli
  BY DEF clientVars
<1>2. NoText.kind # "mixed" /\ Idle.response = NoText /\ Idle.pc = "command"
  BY DEF NoText, Plain, Idle
<1>3. ASSUME srv'.response.kind # "mixed", store' = store, srv'.pc # "save",
             srv'.pc = "frames" => srv'.seq = srv'.i
      PROVE  Whole' /\ Numbers'
  BY <1>1, <1>3 DEF Whole, Numbers, CommandOK
<1>4. srv.response.kind # "mixed"
  BY DEF Whole
<1>5. CASE srvCommand
  <2>1. Response(Head(toServer)).kind # "mixed"
    BY <1>5, CommandOutcomes, ResponseWhole
  <2> QED
    BY <1>2, <1>3, <1>5, <2>1, CommandOutcomes
<1>6. CASE srvSave
  <2> DEFINE cmd == srv.request.cmd
             t == Contents(srv.data, cmd.len)
  <2>1. store' = [store EXCEPT ![cmd.file] = t] /\ srv' = Idle /\ srv.pc = "save"
    BY <1>6 DEF srvSave
  <2>2. t.kind # "mixed"
    BY <2>1 DEF Whole
  <2> HIDE DEF t
  <2>3. \A f \in Files : store'[f].kind # "mixed"
    BY <2>1, <2>2, Fields DEF Whole
  <2>4. srv'.response.kind # "mixed" /\ srv'.pc = "command"
    BY <1>2, <2>1
  <2> QED
    BY <1>1, <2>3, <2>4 DEF Whole, Numbers, CommandOK
<1>7. CASE srvStart
  BY <1>2, <1>3, <1>4, <1>7, StartOutcomes
<1>8. CASE srvFrames
  <2>1. srv.seq = srv.i /\ srv.pc = "frames"
    BY <1>8 DEF srvFrames, Numbers
  <2> QED
    BY <1>2, <1>3, <1>4, <1>8, <2>1, FramesOutcomes
<1> QED
  BY <1>5, <1>6, <1>7, <1>8 DEF ServerStep, srvPut

\* Datagrams without a command arrive.
Quiet(ch, new) ==
  /\ new \in Seq(Sendable)
  /\ \A S : Bare \subseteq S /\ Within(ch, S) => Within(new, S)
  /\ Behind(ch, Bare, Bare) => Behind(new, Bare, Bare)

\* What does not name a command may arrive.
LEMMA QuietArriving ==
  ASSUME NEW ch \in Seq(Sendable)
  PROVE  /\ Quiet(ch, Arriving(ch, <<>>))
         /\ \A m \in Bare : Quiet(ch, Arriving(ch, <<m>>))
         /\ \A m, n \in Bare : Quiet(ch, Arriving(Arriving(ch, <<m>>), <<n>>))
<1>1. Bare \subseteq Sendable
  BY DEF Bare
<1>2. Quiet(ch, Arriving(ch, <<>>))
  BY TailKeeps DEF Quiet
<1>3. ASSUME NEW c \in Seq(Sendable), NEW m \in Bare PROVE Quiet(c, Arriving(c, <<m>>))
  <2>1. Arriving(c, <<m>>) \in Seq(Sendable)
    BY <1>1, ArrivingType, AnswerTypes
  <2>2. ASSUME NEW S, Bare \subseteq S, Within(c, S) PROVE Within(Arriving(c, <<m>>), S)
    BY <1>1, <2>2, ArrivingKeeps
  <2>3. Behind(c, Bare, Bare) => Behind(Arriving(c, <<m>>), Bare, Bare)
    BY <1>1, ArrivingKeeps
  <2> QED
    BY <2>1, <2>2, <2>3 DEF Quiet
<1>4. ASSUME NEW m \in Bare, NEW n \in Bare PROVE Quiet(ch, Arriving(Arriving(ch, <<m>>), <<n>>))
  <2>1. Quiet(ch, Arriving(ch, <<m>>)) /\ Arriving(ch, <<m>>) \in Seq(Sendable)
    BY <1>3 DEF Quiet
  <2>2. Quiet(Arriving(ch, <<m>>), Arriving(Arriving(ch, <<m>>), <<n>>))
    BY <1>3, <2>1
  <2> QED
    BY <2>1, <2>2 DEF Quiet
<1> QED
  BY <1>2, <1>3, <1>4

\* A server that is not with the client's command stays so, and sends nothing
\* that names a command, unless it takes one.
LEMMA ElsewhereStep ==
  ASSUME Numbered, TypeInv, Whole, Numbers, Elsewhere, ServerStep,
         srv.pc = "command" /\ toServer # <<>> => Head(toServer).cmd.op = "none"
  PROVE  /\ Elsewhere' /\ Quiet(toClient, toClient')
         /\ toServer' = toServer \/ (toServer # <<>> /\ toServer' = Tail(toServer))
<1>1. toClient \in Seq(Sendable) /\ toServer \in Seq(Sendable)
  BY Fields
<1>2. Idle.pc = "command"
  BY DEF Idle
<1>3. CASE srvCommand
  <2> DEFINE m == Head(toServer)
  <2>1. m \in Sendable /\ m.cmd.op = "none" /\ toServer # <<>> /\ toServer' = Tail(toServer)
    BY <1>3, CommandOutcomes
  <2>2. Echo(m) \in Bare /\ Start(Response(m).len) \in Bare
    BY <2>1, Letters, ResponseWhole
  <2>3. /\ toClient' = Arriving(Arriving(toClient, <<Echo(m)>>), <<Start(Response(m).len)>>)
        /\ srv'.pc = "start" /\ srv'.request = m
    BY <1>3, <2>1, CommandOutcomes
  <2>4. m \in Bare
    BY <2>1 DEF Bare
  <2> QED
    BY <1>1, <2>1, <2>2, <2>3, <2>4, QuietArriving DEF Elsewhere
<1>4. CASE srvSave
  <2>1. toServer' = toServer /\ toClient' = toClient /\ srv' = Idle
    BY <1>4 DEF srvSave, netVars
  <2> QED
    BY <1>1, <1>2, <2>1 DEF Elsewhere, Quiet
<1>5. CASE srvStart
  <2> DEFINE m == Head(toServer)
             t == srv.response
  <2>1. srv.pc = "start" /\ toServer # <<>> /\ toServer' = Tail(toServer)
    BY <1>5, StartOutcomes
  <2>2. srv.request \in Bare
    BY <2>1 DEF Elsewhere
  <2>3. Start(t.len) \in Bare /\ Echo(srv.request) \in Bare
    BY <2>2, Fields, Letters DEF Bare
  <2>4. t.len > 0 => SentFrame(Download, 0) \in Bare
    BY UploadFacts, SentFrames
  <2>5. Elsewhere'
    BY <1>2, <1>5, <2>2, StartOutcomes DEF Elsewhere
  <2>6. Quiet(toClient, toClient')
    BY <1>1, <1>5, <2>3, <2>4, StartOutcomes, QuietArriving
  <2> QED
    BY <2>1, <2>5, <2>6
<1>6. CASE srvFrames
  <2> DEFINE t == Download
             i == srv.i
  <2>1. /\ srv.pc = "frames" /\ toServer # <<>> /\ toServer' = Tail(toServer)
        /\ t \in Text /\ i \in Nat /\ i < t.len /\ i + 1 \in Nat
    BY <1>6, FramesOutcomes
  <2>2. SentFrame(t, i) \in Bare /\ (i + 1 < t.len => SentFrame(t, i + 1) \in Bare)
    BY <2>1, SentFrames
  <2>3. srv'.pc \in {"frames", "command"}
    BY <1>2, <1>6, <2>1, FramesOutcomes
  <2>4. Quiet(toClient, toClient')
    BY <1>1, <1>6, <2>2, FramesOutcomes, QuietArriving
  <2> QED
    BY <2>1, <2>3, <2>4 DEF Elsewhere
<1>7. ~srvPut
  BY DEF Elsewhere, srvPut
<1> QED
  BY <1>3, <1>4, <1>5, <1>6, <1>7 DEF ServerStep

\* The acknowledgement of the client's command, where there was none.
LEMMA AckArrives ==
  ASSUME Numbered, TypeInv, cli.command.cmd.op # "none", Within(toClient, Bare)
  PROVE  LET ch == Arriving(toClient, <<Acked>>)
         IN /\ Acked \in Sendable /\ Acked.type = "ack command" /\ Acked \notin Bare
            /\ ch \in Seq(Sendable) /\ Within(ch, Bare \cup {Acked})
            /\ \A T : Behind(ch, {Acked}, T)
            /\ Block(ch, {Acked})
<1> DEFINE ch == Arriving(toClient, <<Acked>>)
<1>1. toClient \in Seq(Sendable) /\ cli.command \in Sendable
  BY Fields
<1>2. Acked = Echo(cli.command) /\ Acked.cmd = cli.command.cmd /\ Acked.type = "ack command"
  BY DEF Acked, Echo, AckCommand, Datagram
<1>3. Acked \in Sendable /\ Acked \notin Bare
  BY <1>1, <1>2, PayloadType DEF Bare
<1>4. \A a \in DOMAIN toClient : toClient[a] \notin {Acked}
  BY <1>3 DEF Within
<1>5. (\A T : Behind(toClient, {Acked}, T)) /\ Block(toClient, {Acked})
  BY <1>4 DEF Behind, Block
<1>6. (\A T : Behind(ch, {Acked}, T)) /\ Block(ch, {Acked})
  BY <1>1, <1>3, <1>4, <1>5, ArrivingKeeps
<1>7. Within(toClient, Bare \cup {Acked})
  BY Wider
<1>8. Within(ch, Bare \cup {Acked}) /\ ch \in Seq(Sendable)
  BY <1>1, <1>3, <1>7, ArrivingKeeps, ArrivingType, AnswerTypes
<1> QED
  BY <1>2, <1>3, <1>6, <1>8

\* The file is received; whatever the server answers, it is no acknowledgement of a command.
LEMMA ReceivedServer ==
  ASSUME Numbered, TypeInv, Whole, Numbers, Received, ServerStep, UNCHANGED clientVars
  PROVE  Received'
<1>1. toServer \in Seq(Sendable) /\ cli' = cli
  BY Fields DEF clientVars
<1>2. toServer # <<>> => Head(toServer).cmd.op = "none"
  <2>1. toServer # <<>> => Head(toServer) \in Bare
    BY <1>1, HeadFacts DEF Received
  <2> QED
    BY <2>1 DEF Bare
<1>3. /\ Elsewhere' /\ Quiet(toClient, toClient')
      /\ toServer' = toServer \/ (toServer # <<>> /\ toServer' = Tail(toServer))
  BY <1>2, ElsewhereStep DEF Received
<1>4. Within(toServer', Bare)
  BY <1>1, <1>3, TailKeeps DEF Received
<1>5. Within(toClient', Bare \cup {Acked}) /\ Behind(toClient', Bare, Bare)
  BY <1>3 DEF Quiet, Received
<1> QED
  BY <1>1, <1>3, <1>4, <1>5 DEF Received, Acked

\* The server answers stray datagrams, or takes the client's command.
LEMMA ApartServer ==
  ASSUME Numbered, TypeInv, Whole, Numbers, Apart, ServerStep, UNCHANGED clientVars
  PROVE  Phases'
<1> DEFINE m == Head(toServer)
<1>1. /\ toServer \in Seq(Sendable) /\ toClient \in Seq(Sendable) /\ cli' = cli
      /\ Acked' = Acked /\ Asking' = Asking
  BY Fields DEF clientVars, Acked, Asking
<1>2. CASE srv.pc = "command" /\ toServer # <<>> => m.cmd.op = "none"
  <2>1. /\ Elsewhere' /\ Quiet(toClient, toClient')
        /\ toServer' = toServer \/ (toServer # <<>> /\ toServer' = Tail(toServer))
    BY <1>2, ElsewhereStep DEF Apart
  <2>2. Within(toServer', Bare \cup Asking) /\ Behind(toServer', Asking, Asking)
    BY <1>1, <2>1, TailKeeps DEF Apart
  <2>3. Within(toClient', Bare)
    BY <2>1 DEF Quiet, Apart
  <2> QED
    BY <1>1, <2>1, <2>2, <2>3 DEF Apart, Phases
<1>3. CASE srv.pc = "command" /\ toServer # <<>> /\ m.cmd.op # "none"
  <2>1. srvCommand
    BY <1>3 DEF ServerStep, srvPut, srvSave, srvStart, srvFrames
  <2>2. m \in Asking
    <3>1. m \in Bare \cup Asking
      BY <1>1, <1>3, HeadFacts DEF Apart
    <3> QED
      BY <1>3, <3>1 DEF Bare
  <2>3. cli.pc = "ack" /\ m = cli.command /\ Asking = {cli.command} /\ cli.command.cmd.op # "none"
    BY <1>3, <2>2 DEF Asking
  <2>4. Within(Tail(toServer), {cli.command})
    BY <1>1, <1>3, <2>2, <2>3, HeadFacts DEF Apart
  <2>5. Echo(m) = Acked
    BY <2>3 DEF Echo, Acked
  <2> DEFINE ch == Arriving(toClient, <<Acked>>)
  <2>6. /\ Acked \in Sendable /\ Acked.type = "ack command" /\ Acked \notin Bare
        /\ ch \in Seq(Sendable) /\ Within(ch, Bare \cup {Acked})
        /\ \A T : Behind(ch, {Acked}, T)
        /\ Block(ch, {Acked})
    BY <2>3, AckArrives DEF Apart
  <2>7. toServer' = Tail(toServer) /\ store' = store
    BY <2>1, CommandOutcomes
  <2> HIDE DEF m, ch
  <2>8. CASE cli.command.cmd.op = "put"
    <3>1. /\ toClient' = ch /\ srv'.pc = "put" /\ srv'.request = cli.command /\ srv'.data = EmptyBuffer
      BY <2>1, <2>3, <2>5, <2>8, CommandOutcomes DEF m, ch
    <3>2. PutAsked'
      BY <1>1, <2>3, <2>4, <2>6, <2>7, <2>8, <3>1 DEF PutAsked
    <3> QED
      BY <3>2 DEF Phases
  <2>9. CASE cli.command.cmd.op = "exit"
    <3>1. toClient' = Arriving(ch, <<AckExit>>) /\ srv'.pc = "gone"
      BY <2>1, <2>3, <2>5, <2>9, CommandOutcomes DEF m, ch
    <3>2. AckExit \in Sendable /\ AckExit \in Bare /\ AckExit \in NoStart
      BY Letters DEF Bare, NoStart, AckExit, Datagram
    <3>3. Within(toClient', Bare \cup {Acked}) /\ Behind(toClient', {Acked}, NoStart)
      BY <2>6, <3>1, <3>2, ArrivingKeeps
    <3>4. Left'
      BY <1>1, <2>3, <2>9, <3>1, <3>3 DEF Left
    <3> QED
      BY <3>4 DEF Phases
  <2>10. CASE cli.command.cmd.op \notin {"put", "exit"}
    <3> DEFINE t == Response(cli.command)
    <3>1. /\ toClient' = Arriving(ch, <<Start(t.len)>>)
          /\ srv'.pc = "start" /\ srv'.request = cli.command /\ srv'.response = t
      BY <2>1, <2>3, <2>5, <2>10, CommandOutcomes DEF m, ch
    <3>2. t.len \in Slots /\ (t.len = 0 => cli.command.cmd.op = "get")
      BY Fields, ResponseWhole
    <3>3. Start(t.len) \in Bare /\ Start(t.len) \in Sendable /\ Start(t.len) # Acked
      BY <2>6, <3>2, Letters DEF Bare
    <3>4. Announced' = Start(t.len)
      BY <3>1 DEF Announced
    <3> HIDE DEF t
    <3>5. /\ Within(toClient', Bare \cup {Acked}) /\ Behind(toClient', {Acked}, {Acked, Start(t.len)})
          /\ Block(toClient', {Acked})
      BY <2>6, <3>1, <3>3, ArrivingKeeps
    <3>6. AnswerAsked'
      BY <1>1, <2>3, <2>4, <2>7, <2>10, <3>1, <3>2, <3>4, <3>5 DEF AnswerAsked
    <3> QED
      BY <3>6 DEF Phases
  <2> QED
    BY <2>8, <2>9, <2>10
<1> QED
  BY <1>2, <1>3

\* What the client waits for is sendable and names its command.
LEMMA Waiting ==
  ASSUME Numbered, TypeInv, Numbers, cli.pc \in {"ack", "frames", "start", "data"}
  PROVE  /\ cli.command \in Sendable /\ cli.command.type = "command" /\ cli.command.cmd.op # "none"
         /\ cli.command # AckStart /\ cli.command \notin Bare
         /\ Acked \in Sendable /\ Acked.type = "ack command" /\ Acked \notin Bare
         /\ Echo(cli.command) = Acked
         /\ \A k \in Nat : Acked \in Below(k)
         /\ Announced \in Bare /\ Announced \in Sendable /\ Announced.type = "start" /\ Announced # Acked
         /\ cli.command.cmd.op = "put" => cli.command.cmd.len = cli.request.len
<1>1. CommandOK /\ cli.command.cmd.op # "none" /\ cli.command \in Sendable
  BY Fields DEF Numbers
<1>2. cli.command.type = "command" /\ (cli.command.cmd.op = "put" => cli.command.cmd.len = cli.request.len)
  BY <1>1 DEF CommandOK, Command, Datagram
<1>3. AckStart.type = "ack start"
  BY DEF AckStart, Datagram
<1>4. Acked = Echo(cli.command) /\ Acked.cmd = cli.command.cmd /\ Acked.type = "ack command"
  BY DEF Acked, Echo, AckCommand, Datagram
<1>5. Acked \in Sendable /\ Acked \notin Bare /\ cli.command \notin Bare
  BY <1>1, <1>4, PayloadType DEF Bare
<1>6. \A k \in Nat : Acked \in Below(k)
  BY <1>4, <1>5, Letters
<1>7. srv.response.len \in Slots
  BY Fields
<1>8. Announced \in Bare /\ Announced.type = "start"
  BY <1>7, Letters DEF Announced, Start, Datagram
<1> QED
  BY <1>1, <1>2, <1>3, <1>4, <1>5, <1>6, <1>8 DEF Bare

\* The server waits for frames and has the command once more.
LEMMA PutAskedServer ==
  ASSUME Numbered, TypeInv, Whole, Numbers, PutAsked, ServerStep, UNCHANGED clientVars
  PROVE  PutAsked' /\ Whole' /\ Numbers'
<1>1. /\ toServer \in Seq(Sendable) /\ toClient \in Seq(Sendable) /\ cli' = cli /\ Acked' = Acked
  BY Fields DEF clientVars, Acked
<1>2. srvPut /\ toServer # <<>>
  BY DEF PutAsked, ServerStep, srvCommand, srvPut, srvSave, srvStart, srvFrames
<1>3. Head(toServer) = cli.command
  BY <1>1, <1>2, HeadFacts DEF PutAsked
<1>4. Acked \in Sendable /\ Echo(cli.command) = Acked
  BY Waiting DEF PutAsked
<1>5. ServerReceives(<<Acked>>) /\ srv' = srv /\ store' = store
  BY <1>2, <1>3, <1>4, Zenon DEF srvPut, PutAsked
<1>6. Within(toServer', {cli.command})
  BY <1>1, <1>2, <1>5, TailKeeps DEF ServerReceives, PutAsked
<1>7. Within(toClient', Bare \cup {Acked}) /\ Behind(toClient', {Acked}, {Acked})
  BY <1>1, <1>4, <1>5, ArrivingKeeps DEF ServerReceives, PutAsked
<1>8. PutAsked'
  BY <1>1, <1>5, <1>6, <1>7 DEF PutAsked
<1> QED
  BY <1>1, <1>5, <1>8 DEF Whole, Numbers, CommandOK

\* The server waits for frames and has a frame, or the command once more.
LEMMA UploadServer ==
  ASSUME Numbered, TypeInv, Whole, Numbers, Uploading, ServerStep, UNCHANGED clientVars
  PROVE  Phases' /\ Whole' /\ Numbers'
<1> DEFINE m == Head(toServer)
           t == Upload
           i == cli.i
<1>1. /\ toServer \in Seq(Sendable) /\ toClient \in Seq(Sendable) /\ cli' = cli /\ Acked' = Acked
      /\ cli.pc = "frames" /\ srv.pc = "put" /\ srv.request = cli.command
      /\ Within(toClient, Acks \cup {Acked}) /\ Behind(toClient, Bare, Bare)
      /\ Transfer(t, i, {cli.command}, toServer, toClient, srv.data)
  BY Fields DEF clientVars, Acked, Uploading
<1>2. srvPut /\ toServer # <<>>
  BY <1>1 DEF ServerStep, srvCommand, srvPut, srvSave, srvStart, srvFrames
<1>3. t \in Text /\ i \in Nat /\ i < t.len /\ t.len \in Nat /\ t.kind # "mixed" /\ m \in Sendable
  BY <1>1, <1>2, Fields, UploadFacts, SlotsType, HeadFacts DEF PlacesOK, Whole
<1>4. /\ Acked \in Sendable /\ Acked \notin Bare /\ Echo(cli.command) = Acked
      /\ cli.command.type = "command" /\ cli.command.cmd.op = "put" /\ cli.command.cmd.len = t.len
      /\ \A k \in Nat : Acked \in Below(k)
  BY <1>1, Waiting, UploadFacts DEF Numbers
<1>5. CASE m.type = "seq"
  <2> DEFINE n == m.n
             data == StrCpy(srv.data, n, m.p)
             as == Arriving(toClient, <<AckSeq(n)>>)
  <2>1. /\ n \in Nat /\ n < t.len /\ m = SentFrame(t, n)
        /\ \/ /\ i + 1 = t.len /\ data = Prefix(t, t.len)
              /\ Within(Tail(toServer), {SentFrame(t, i)})
           \/ /\ Transfer(t, i, {cli.command}, Tail(toServer), as, data)
              /\ ~Filled(data, t.len)
    <3>1. \A x \in {cli.command} : x.type # "seq"
      BY <1>4
    <3> QED
      BY <1>1, <1>2, <1>3, <1>5, <3>1, TransferReceive
  <2>2. m.cmd.op # "put" /\ Number(m) = n /\ Payload(m) = m.p
    BY <1>3, <1>5, <2>1, SentFrames DEF Number, Payload
  <2>3. /\ ServerReceives(<<AckSeq(n)>>) /\ store' = store
        /\ srv' = [srv EXCEPT !.data = data, !.pc = IF Filled(data, t.len) THEN "save" ELSE "put"]
    BY <1>1, <1>2, <1>4, <2>2 DEF srvPut
  <2>4. toServer' = Tail(toServer) /\ toClient' = as
    BY <2>3 DEF ServerReceives
  <2>5. AckSeq(n) \in Sendable /\ AckSeq(n) \in Bare /\ AckSeq(n) \in Acks
    BY <2>1, Letters DEF Bare, Acks, AckSeq, Datagram
  <2> HIDE DEF data
  <2>6. /\ srv'.data = data /\ srv'.request = cli.command /\ srv'.response = srv.response
        /\ srv'.pc = IF Filled(data, t.len) THEN "save" ELSE "put"
    BY <1>1, <2>3, Fields DEF Server
  <2>7. Within(as, Acks \cup {Acked}) /\ Behind(as, Bare, Bare)
    BY <1>1, <2>5, ArrivingKeeps
  <2> HIDE DEF as, n
  <2>8. CASE Filled(data, t.len)
    <3>1. i + 1 = t.len /\ data = Prefix(t, t.len) /\ Within(Tail(toServer), {SentFrame(t, i)})
      BY <2>1, <2>8
    <3>2. Contents(data, t.len) = t
      BY <1>3, <3>1, PrefixFacts
    <3>3. Whole' /\ Numbers'
      BY <1>1, <1>3, <1>4, <2>3, <2>6, <2>8, <3>2 DEF Whole, Numbers, CommandOK
    <3>4. Within(toServer', Bare)
      <4>1. {SentFrame(t, i)} \subseteq Bare
        BY <1>3, SentFrames
      <4> QED
        BY <2>4, <3>1, <4>1, Wider
    <3>5. Within(toClient', Bare \cup {Acked})
      <4>1. Acks \cup {Acked} \subseteq Bare \cup {Acked}
        BY DEF Acks
      <4> QED
        BY <2>4, <2>7, <4>1, Wider
    <3>6. Received'
      BY <1>1, <2>4, <2>6, <2>7, <2>8, <3>1, <3>4, <3>5, UploadFacts DEF Received, Elsewhere
    <3> QED
      BY <3>3, <3>6 DEF Phases
  <2>9. CASE ~Filled(data, t.len)
    <3>1. Transfer(t, i, {cli.command}, Tail(toServer), as, data)
      <4>1. Filled(Prefix(t, t.len), t.len)
        BY <1>3, PrefixFacts
      <4> QED
        BY <2>1, <2>9, <4>1
    <3>2. Uploading'
      BY <1>1, <2>4, <2>6, <2>7, <2>9, <3>1 DEF Uploading, Upload
    <3>3. Whole' /\ Numbers'
      BY <1>1, <2>3, <2>6, <2>9 DEF Whole, Numbers, CommandOK
    <3> QED
      BY <3>2, <3>3 DEF Phases
  <2> QED
    BY <2>8, <2>9
<1>6. CASE m.type # "seq"
  <2>1. m = cli.command /\ i = 0
    <3>1. m \in (IF i = 0 THEN {cli.command} ELSE {SentFrame(t, i - 1)}) \cup {SentFrame(t, i)}
      BY <1>1, <1>2, HeadFacts DEF Transfer
    <3>2. SentFrame(t, i).type = "seq"
      BY <1>3, SentFrames
    <3>3. i > 0 => SentFrame(t, i - 1).type = "seq"
      <4> SUFFICES ASSUME i > 0 PROVE SentFrame(t, i - 1).type = "seq"
        OBVIOUS
      <4> DEFINE j == i - 1
      <4>1. j \in Nat /\ j < t.len
        BY <1>3
      <4> HIDE DEF j
      <4>2. SentFrame(t, j).type = "seq"
        BY <1>3, <4>1, SentFrames
      <4> QED
        BY <4>2 DEF j
    <3> QED
      BY <1>3, <1>6, <3>1, <3>2, <3>3
  <2>2. ServerReceives(<<Acked>>) /\ srv' = srv /\ store' = store
    BY <1>1, <1>2, <1>4, <2>1, Zenon DEF srvPut
  <2>3. toServer' = Tail(toServer) /\ toClient' = Arriving(toClient, <<Acked>>)
    BY <2>2 DEF ServerReceives
  <2>4. Within(toClient, {Acked})
    <3>1. PICK k \in {i, i + 1} : /\ k = i + 1 => Within(toServer, {SentFrame(t, i)})
                                  /\ Within(toClient, Below(k))
      BY <1>1 DEF Transfer
    <3>2. k = 0
      <4>1. SentFrame(t, i).type = "seq"
        BY <1>3, SentFrames
      <4>2. ~Within(toServer, {SentFrame(t, i)})
        BY <1>1, <1>2, <1>6, <4>1, HeadFacts
      <4> QED
        BY <2>1, <3>1, <4>2
    <3>3. ASSUME NEW x \in Acks \cup {Acked}, x \in Below(0) PROVE x = Acked
      <4>1. x \in Acks => x \in Sendable /\ x.type = "ack seq"
        BY DEF Acks, Bare
      <4>2. x \in Acks => x.n \in Nat
        BY <4>1, PayloadType
      <4>3. x \notin Acks
        <5>1. x.type = "ack seq" => x.n < 0
          BY <3>3 DEF Below
        <5>2. \A n \in Nat : ~(n < 0)
          OBVIOUS
        <5> QED
          BY <4>1, <4>2, <5>1, <5>2
      <4> QED
        BY <3>3, <4>3
    <3> QED
      BY <1>1, <3>1, <3>2, <3>3 DEF Within
  <2>5. Within(toClient', Acks \cup {Acked}) /\ Behind(toClient', Bare, Bare)
    <3>1. \A a \in DOMAIN toClient : toClient[a] \notin Bare
      BY <1>4, <2>4 DEF Within
    <3> QED
      BY <1>1, <1>4, <2>3, <3>1, ArrivingKeeps
  <2>6. Transfer(t, i, {cli.command}, toServer', toClient', srv.data)
    <3>1. \A S : Within(toServer, S) => Within(toServer', S)
      BY <1>1, <1>2, <2>3, TailKeeps
    <3>2. \A S : Behind(toServer, S, S) => Behind(toServer', S, S)
      BY <1>1, <1>2, <2>3, TailKeeps
    <3>3. \A k \in {i, i + 1} : Within(toClient, Below(k)) => Within(toClient', Below(k))
      BY <1>1, <1>3, <1>4, <2>3, ArrivingKeeps
    <3> QED
      BY <1>1, <3>1, <3>2, <3>3, TransferKept
  <2>7. Uploading'
    BY <1>1, <2>2, <2>5, <2>6 DEF Uploading, Upload
  <2> QED
    BY <1>1, <2>2, <2>7 DEF Phases, Whole, Numbers, CommandOK
<1> QED
  BY <1>5, <1>6

\* The server waits for the ACK START of an answer of no frames.
LEMMA AnsweredEmptyServer ==
  ASSUME Numbered, TypeInv, Whole, Numbers, AnsweredEmpty, ServerStep, UNCHANGED clientVars
  PROVE  Phases'
<1> DEFINE m == Head(toServer)
           A == {AckStart}
<1>1. /\ toServer \in Seq(Sendable) /\ toClient \in Seq(Sendable) /\ cli' = cli /\ Asking' = Asking
  BY Fields DEF clientVars, Asking
<1>2. srvStart /\ toServer # <<>>
  BY DEF AnsweredEmpty, ServerStep, srvCommand, srvPut, srvSave, srvStart, srvFrames
<1>3. /\ Within(toServer, {srv.request, AckStart} \cup Asking)
      /\ Behind(toServer, A, A \cup Asking) /\ Block(toServer, A)
      /\ srv.request.cmd.op = "get" /\ srv.response.len = 0
  BY DEF AnsweredEmpty
<1>4. AckStart \notin Asking
  BY Waiting DEF Asking
<1>5. CASE m = AckStart
  <2>1. toServer' = Tail(toServer) /\ toClient' = Arriving(toClient, <<>>) /\ srv' = Idle
    BY <1>2, <1>3, <1>5, StartOutcomes
  <2>2. Within(Tail(toServer), A \cup Asking)
    BY <1>1, <1>2, <1>3, <1>5, HeadFacts
  <2>3. \A a, b \in DOMAIN Tail(toServer) : a < b /\ Tail(toServer)[a] \notin A => Tail(toServer)[b] \notin A
    BY <1>1, <1>2, <1>3, <1>5, HeadFacts
  <2>4. Behind(toServer', Asking, Asking)
    BY <1>4, <2>1, <2>2, <2>3 DEF Behind, Within
  <2>5. Within(toServer', Bare \cup Asking)
    <3>1. A \cup Asking \subseteq Bare \cup Asking
      BY Letters
    <3> QED
      BY <2>1, <2>2, <3>1, Wider
  <2>6. Within(toClient', Bare)
    BY <1>1, <2>1, TailKeeps DEF AnsweredEmpty
  <2>7. srv'.pc = "command"
    BY <2>1, IdleType
  <2> QED
    BY <1>1, <2>4, <2>5, <2>6, <2>7 DEF Phases, Apart, AnsweredEmpty, Elsewhere
<1>6. CASE m # AckStart
  <2>1. toServer' = Tail(toServer) /\ toClient' = Arriving(toClient, <<Announced>>) /\ srv' = srv
    BY <1>2, <1>3, <1>6, StartOutcomes DEF Announced
  <2>2. Announced \in Bare /\ Announced \in Sendable
    BY Fields, Letters DEF Announced, Bare
  <2>3. Within(toClient', Bare)
    BY <1>1, <2>1, <2>2, ArrivingKeeps DEF AnsweredEmpty
  <2>4. /\ Within(toServer', {srv.request, AckStart} \cup Asking)
        /\ Behind(toServer', A, A \cup Asking) /\ Block(toServer', A)
    <3> DEFINE S == {srv.request, AckStart} \cup Asking
               T == A \cup Asking
    <3>1. Within(toServer, S) /\ Behind(toServer, A, T) /\ A \subseteq T /\ Block(toServer, A)
      BY <1>3
    <3> HIDE DEF S, T, A
    <3>2. Within(toServer', S) /\ Behind(toServer', A, T) /\ Block(toServer', A)
      BY <1>1, <1>2, <2>1, <3>1, TailKeeps
    <3> QED
      BY <3>2 DEF S, T
  <2> QED
    BY <1>1, <2>1, <2>3, <2>4 DEF Phases, AnsweredEmpty
<1> QED
  BY <1>5, <1>6

\* The server's answer to the command that it is answering.
LEMMA Repeats ==
  ASSUME Numbered, TypeInv, Numbers, srvStart, srv.request = cli.command,
         cli.pc \in {"ack", "start", "data"}, Head(toServer) = cli.command
  PROVE  /\ srv' = srv /\ toServer # <<>> /\ toServer' = Tail(toServer)
         /\ Arriving(toClient, <<Acked>>) \in Seq(Sendable)
         /\ \/ cli.command.cmd.op = "get" /\ toClient' = Arriving(toClient, <<Announced>>)
            \/ /\ cli.command.cmd.op # "get"
               /\ toClient' = Arriving(Arriving(toClient, <<Acked>>), <<Announced>>)
<1>1. cli.command # AckStart /\ Echo(cli.command) = Acked
  BY Waiting
<1> QED
  BY <1>1, StartOutcomes DEF Announced

\* The server has the command that it is answering once more.
LEMMA AnswerAskedServer ==
  ASSUME Numbered, TypeInv, Whole, Numbers, AnswerAsked, ServerStep, UNCHANGED clientVars
  PROVE  AnswerAsked'
<1>1. /\ toServer \in Seq(Sendable) /\ toClient \in Seq(Sendable) /\ cli' = cli /\ Acked' = Acked
  BY Fields DEF clientVars, Acked
<1>2. srvStart /\ toServer # <<>>
  BY DEF AnswerAsked, ServerStep, srvCommand, srvPut, srvSave, srvStart, srvFrames
<1>3. Head(toServer) = cli.command
  BY <1>1, <1>2, HeadFacts DEF AnswerAsked
<1>4. /\ Acked \in Sendable /\ Announced \in Sendable /\ Announced \in Bare /\ Announced # Acked
  BY Waiting DEF AnswerAsked
<1>5. /\ srv' = srv /\ toServer' = Tail(toServer)
      /\ Arriving(toClient, <<Acked>>) \in Seq(Sendable)
      /\ \/ cli.command.cmd.op = "get" /\ toClient' = Arriving(toClient, <<Announced>>)
         \/ /\ cli.command.cmd.op # "get"
            /\ toClient' = Arriving(Arriving(toClient, <<Acked>>), <<Announced>>)
  BY <1>2, <1>3, Repeats DEF AnswerAsked
<1>6. Within(toServer', {cli.command})
  BY <1>1, <1>2, <1>5, TailKeeps DEF AnswerAsked
<1> DEFINE T == {Acked, Announced}
<1>7. Within(toClient, Bare \cup {Acked}) /\ Behind(toClient, {Acked}, T)
  BY DEF AnswerAsked
<1>8. CASE cli.command.cmd.op = "get"
  <2>1. /\ Within(toClient', Bare \cup {Acked}) /\ Behind(toClient', {Acked}, T)
    BY <1>1, <1>4, <1>5, <1>7, <1>8, ArrivingKeeps
  <2>2. Block(toClient', {Acked})
    BY <1>1, <1>4, <1>5, <1>8, ArrivingKeeps DEF AnswerAsked
  <2> QED
    BY <1>1, <1>5, <1>6, <2>1, <2>2 DEF AnswerAsked, Announced
<1>9. CASE cli.command.cmd.op # "get"
  <2> DEFINE ch == Arriving(toClient, <<Acked>>)
  <2>1. Within(ch, Bare \cup {Acked}) /\ Behind(ch, {Acked}, T)
    BY <1>1, <1>4, <1>7, ArrivingKeeps
  <2> HIDE DEF ch
  <2>2. toClient' = Arriving(ch, <<Announced>>) /\ ch \in Seq(Sendable)
    BY <1>5, <1>9 DEF ch
  <2>3. Within(toClient', Bare \cup {Acked}) /\ Behind(toClient', {Acked}, T)
    BY <1>4, <2>1, <2>2, ArrivingKeeps
  <2> QED
    BY <1>1, <1>5, <1>6, <1>9, <2>3 DEF AnswerAsked, Announced
<1> QED
  BY <1>8, <1>9

\* The acknowledgement and the announcement arrive once more.
LEMMA RepeatsArrive ==
  ASSUME Numbered, TypeInv, Numbers, srvStart, srv.request = cli.command,
         cli.pc \in {"start", "data"}, Head(toServer) = cli.command, Within(toClient, {Acked, Announced})
  PROVE  /\ Within(toClient', {Acked, Announced})
         /\ cli.command.cmd.op = "get" /\ Behind(toClient, {Announced}, {Announced})
              => Behind(toClient', {Announced}, {Announced})
<1>1. toClient \in Seq(Sendable) /\ Acked \in Sendable /\ Announced \in Sendable
  BY Fields, Waiting
<1>2. /\ Arriving(toClient, <<Acked>>) \in Seq(Sendable)
      /\ \/ cli.command.cmd.op = "get" /\ toClient' = Arriving(toClient, <<Announced>>)
         \/ /\ cli.command.cmd.op # "get"
            /\ toClient' = Arriving(Arriving(toClient, <<Acked>>), <<Announced>>)
  BY Repeats
<1>3. CASE cli.command.cmd.op = "get"
  BY <1>1, <1>2, <1>3, ArrivingKeeps
<1>4. CASE cli.command.cmd.op # "get"
  <2> DEFINE ch == Arriving(toClient, <<Acked>>)
  <2>1. Within(ch, {Acked, Announced})
    BY <1>1, ArrivingKeeps
  <2> HIDE DEF ch
  <2>2. toClient' = Arriving(ch, <<Announced>>) /\ ch \in Seq(Sendable)
    BY <1>2, <1>4 DEF ch
  <2> QED
    BY <1>1, <1>4, <2>1, <2>2, ArrivingKeeps
<1> QED
  BY <1>3, <1>4

\* The same when the client has the acknowledgement.
LEMMA AnswerAckedServer ==
  ASSUME Numbered, TypeInv, Whole, Numbers, AnswerAcked, ServerStep, UNCHANGED clientVars
  PROVE  AnswerAcked'
<1>1. /\ toServer \in Seq(Sendable) /\ cli' = cli /\ Acked' = Acked
  BY Fields DEF clientVars, Acked
<1>2. srvStart /\ toServer # <<>>
  BY DEF AnswerAcked, ServerStep, srvCommand, srvPut, srvSave, srvStart, srvFrames
<1>3. Head(toServer) = cli.command
  BY <1>1, <1>2, HeadFacts DEF AnswerAcked
<1>4. srv' = srv /\ toServer' = Tail(toServer)
  BY <1>2, <1>3, Repeats DEF AnswerAcked
<1>5. Within(toServer', {cli.command})
  BY <1>1, <1>2, <1>4, TailKeeps DEF AnswerAcked
<1>6. /\ Within(toClient', {Acked, Announced})
      /\ cli.command.cmd.op = "get" /\ Behind(toClient, {Announced}, {Announced})
           => Behind(toClient', {Announced}, {Announced})
  BY <1>2, <1>3, RepeatsArrive DEF AnswerAcked
<1>7. Announced' = Announced
  BY <1>4 DEF Announced
<1> QED
  BY <1>1, <1>4, <1>5, <1>6, <1>7 DEF AnswerAcked

\* The client has the announcement; the server begins with the frames.
LEMMA AnswerAwaitedServer ==
  ASSUME Numbered, TypeInv, Whole, Numbers, AnswerAwaited, ServerStep, UNCHANGED clientVars
  PROVE  Phases'
<1> DEFINE t == Download
<1>1. /\ toServer \in Seq(Sendable) /\ toClient \in Seq(Sendable) /\ cli' = cli /\ Acked' = Acked
      /\ cli.pc = "data" /\ srv.request = cli.command /\ t.len > 0
      /\ cli.filesize = t.len /\ cli.data = EmptyBuffer /\ t \in Text
  BY Fields, UploadFacts DEF clientVars, Acked, AnswerAwaited
<1>2. srvStart /\ toServer # <<>>
  BY DEF AnswerAwaited, ServerStep, srvCommand, srvPut, srvSave, srvStart, srvFrames
<1>3. toServer' = Tail(toServer)
  BY <1>2, StartOutcomes
<1>4. CASE Head(toServer) = AckStart
  <2>1. /\ toClient' = Arriving(toClient, <<SentFrame(t, 0)>>)
        /\ srv'.pc = "frames" /\ srv'.i = 0 /\ srv'.response = srv.response /\ Download' = t
    BY <1>1, <1>2, <1>4, StartOutcomes, UploadFacts
  <2>2. Within(toServer', {AckStart})
    BY <1>1, <1>2, <1>3, <1>4, HeadFacts DEF AnswerAwaited
  <2>3. Within(toServer', Bare) /\ Within(toServer', Below(0))
    <3>1. AckStart \in Bare /\ AckStart.type # "ack seq"
      BY Letters DEF AckStart, Datagram
    <3>2. AckStart \in Below(0)
      BY <3>1 DEF Below, Bare
    <3> QED
      BY <2>2, <3>1, <3>2 DEF Within
  <2>4. \A x \in {Acked, Announced} : x.type # "seq"
    BY <1>1, Waiting
  <2>5. Transfer(t, 0, {Acked, Announced}, toClient', toServer', EmptyBuffer)
    BY <1>1, <2>1, <2>3, <2>4, TransferBegins DEF AnswerAwaited
  <2>6. Announced' = Announced
    BY <2>1 DEF Announced
  <2> QED
    BY <1>1, <2>1, <2>3, <2>5, <2>6, UploadFacts DEF Phases, Downloading
<1>5. CASE Head(toServer) # AckStart
  <2>1. Head(toServer) = cli.command
    <3>1. Head(toServer) \in {cli.command, AckStart}
      BY <1>1, <1>2, HeadFacts DEF AnswerAwaited
    <3> QED
      BY <1>5, <3>1
  <2>2. srv' = srv
    BY <1>1, <1>2, <2>1, Repeats
  <2>3. Within(toClient', {Acked, Announced})
    BY <1>1, <1>2, <2>1, RepeatsArrive DEF AnswerAwaited
  <2>4. Within(toServer', {cli.command, AckStart}) /\ Behind(toServer', {AckStart}, {AckStart})
    BY <1>1, <1>2, <1>3, TailKeeps DEF AnswerAwaited
  <2>5. Announced' = Announced
    BY <2>2 DEF Announced
  <2> QED
    BY <1>1, <2>2, <2>3, <2>4, <2>5, UploadFacts DEF Phases, AnswerAwaited
<1> QED
  BY <1>4, <1>5

\* The server sends the next frame, or the same again.
LEMMA DownloadServer ==
  ASSUME Numbered, TypeInv, Whole, Numbers, Downloading, ServerStep, UNCHANGED clientVars
  PROVE  Downloading'
<1> DEFINE t == Download
           i == srv.i
           first == {Acked, Announced}
<1>1. /\ toServer \in Seq(Sendable) /\ toClient \in Seq(Sendable) /\ cli' = cli /\ Acked' = Acked
      /\ cli.pc = "data" /\ srv.pc = "frames" /\ cli.filesize = t.len /\ Within(toServer, Bare)
      /\ Transfer(t, i, first, toClient, toServer, cli.data)
  BY Fields, UploadFacts DEF clientVars, Acked, Downloading
<1>2. srvFrames
  BY <1>1 DEF ServerStep, srvCommand, srvPut, srvSave, srvStart
<1>3. toServer # <<>> /\ toServer' = Tail(toServer) /\ t \in Text /\ i \in Nat /\ i < t.len
  BY <1>2, FramesOutcomes
<1>4. Within(toServer', Bare)
  BY <1>1, <1>3, TailKeeps
<1> HIDE DEF first
<1>5. CASE Head(toServer) = AckSeq(i)
  <2>1. /\ i + 1 < t.len
        /\ Transfer(t, i + 1, first, Arriving(toClient, <<SentFrame(t, i + 1)>>), Tail(toServer), cli.data)
    BY <1>1, <1>3, <1>5, TransferNext
  <2>2. /\ toClient' = Arriving(toClient, <<SentFrame(t, i + 1)>>)
        /\ srv'.pc = "frames" /\ srv'.i = i + 1 /\ Download' = t /\ srv'.response = srv.response
    BY <1>2, <1>5, <2>1, FramesOutcomes
  <2>3. first' = first
    BY <1>1, <2>2 DEF first, Announced
  <2> QED
    BY <1>1, <1>3, <1>4, <2>1, <2>2, <2>3, UploadFacts DEF Downloading, first
<1>6. CASE Head(toServer) # AckSeq(i)
  <2>1. toClient' = Arriving(toClient, <<SentFrame(t, i)>>) /\ srv' = srv
    BY <1>2, <1>6, FramesOutcomes
  <2>2. \A k \in {i, i + 1} : Within(toServer, Below(k)) => Within(Tail(toServer), Below(k))
    BY <1>1, <1>3, TailKeeps
  <2>3. Transfer(t, i, first, toClient', toServer', cli.data)
    BY <1>1, <1>3, <2>1, <2>2, TransferAgain
  <2>4. first' = first
    BY <1>1, <2>1 DEF first, Announced
  <2> QED
    BY <1>1, <1>4, <2>1, <2>3, <2>4, UploadFacts DEF Downloading, Download, first
<1> QED
  BY <1>5, <1>6

-----------------------------------------------------------------------------
\* What a step of the client does.

\* What the client does while it waits for the acknowledgement of its command.
LEMMA AckOutcomes ==
  ASSUME Numbered, TypeInv, Numbers, Whole, awaitAck
  PROVE  LET m == Head(toClient)
         IN /\ cli.pc = "ack" /\ toClient # <<>> /\ toClient' = Tail(toClient) /\ UNCHANGED serverVars
            /\ Whole' /\ Numbers'
            /\ \/ /\ m = Acked /\ cli.command.cmd.op = "put"
                  /\ toServer' = Arriving(toServer, <<SentFrame(Upload, 0)>>)
                  /\ cli'.pc = "frames" /\ cli'.i = 0 /\ cli'.request = cli.request
                  /\ cli'.command = cli.command /\ Upload' = Upload
               \/ /\ m = Acked /\ cli.command.cmd.op # "put" /\ toServer' = Arriving(toServer, <<>>)
                  /\ cli'.pc = "start" /\ cli'.command = cli.command
               \/ m # Acked /\ toServer' = Arriving(toServer, <<cli.command>>) /\ cli' = cli
<1> DEFINE m == Head(toClient)
<1>1. /\ cli.pc = "ack" /\ toClient # <<>> /\ UNCHANGED <<puts, sent, serverVars>>
      /\ cli.i = 0 /\ cli.seq = 0
  BY Fields DEF awaitAck, PlacesOK
<1>2. cli.command.cmd.op = "put" => SeqFrame(ClientLayout, 0, Frame(cli.request, 0)) = SentFrame(Upload, 0)
  BY <1>1, Fields, SeqFrames DEF Numbered, PlacesOK, Upload
<1>3. \/ /\ m = Acked /\ cli.command.cmd.op = "put"
         /\ ClientReceives(<<SentFrame(Upload, 0)>>) /\ cli' = [cli EXCEPT !.pc = "frames"]
      \/ /\ m = Acked /\ cli.command.cmd.op # "put"
         /\ ClientReceives(<<>>) /\ cli' = [cli EXCEPT !.pc = "start"]
      \/ m # Acked /\ ClientReceives(<<cli.command>>) /\ cli' = cli
  BY <1>2, Zenon DEF awaitAck, Acked
<1> HIDE DEF m
<1>4. ASSUME NEW pc \in {"frames", "start"}, cli' = [cli EXCEPT !.pc = pc]
      PROVE  /\ cli'.pc = pc /\ cli'.i = 0 /\ cli'.seq = 0 /\ cli'.request = cli.request
             /\ cli'.command = cli.command /\ cli'.got = cli.got /\ Upload' = Upload
  BY <1>1, <1>4, Fields DEF Client, Upload
<1>5. \/ /\ m = Acked /\ cli.command.cmd.op = "put"
         /\ toServer' = Arriving(toServer, <<SentFrame(Upload, 0)>>)
         /\ cli'.pc = "frames" /\ cli'.i = 0 /\ cli'.seq = 0 /\ cli'.request = cli.request
         /\ cli'.command = cli.command /\ cli'.got = cli.got /\ Upload' = Upload
      \/ /\ m = Acked /\ cli.command.cmd.op # "put" /\ toServer' = Arriving(toServer, <<>>)
         /\ cli'.pc = "start" /\ cli'.request = cli.request
         /\ cli'.command = cli.command /\ cli'.got = cli.got
      \/ m # Acked /\ toServer' = Arriving(toServer, <<cli.command>>) /\ cli' = cli
  BY <1>3, <1>4 DEF ClientReceives
<1>6. toClient' = Tail(toClient)
  BY <1>3 DEF ClientReceives
<1>7. store' = store /\ srv' = srv
  BY <1>1 DEF serverVars
<1>8. cli'.request = cli.request /\ cli'.got = cli.got
  BY <1>5
<1>9. Whole'
  BY <1>7, <1>8 DEF Whole
<1>10. Numbers'
  BY <1>1, <1>5, <1>7, <1>8 DEF Numbers, CommandOK
<1> QED
  BY <1>1, <1>5, <1>6, <1>9, <1>10 DEF m

\* What the client does while it sends frames.
LEMMA SendOutcomes ==
  ASSUME Numbered, TypeInv, Numbers, Whole, sendFrames
  PROVE  LET m == Head(toClient)
             t == Upload
             i == cli.i
         IN /\ cli.pc = "frames" /\ toClient # <<>> /\ toClient' = Tail(toClient) /\ UNCHANGED serverVars
            /\ t \in Text /\ i \in Nat /\ i < t.len /\ t.len \in Nat
            /\ Whole' /\ Numbers'
            /\ \/ /\ m = AckSeq(i) /\ i + 1 < t.len
                  /\ toServer' = Arriving(toServer, <<SentFrame(t, i + 1)>>)
                  /\ cli'.pc = "frames" /\ cli'.i = i + 1 /\ cli'.request = cli.request /\ Upload' = t
                  /\ cli'.command = cli.command
               \/ /\ m = AckSeq(i) /\ i + 1 = t.len /\ toServer' = Arriving(toServer, <<>>)
                  /\ cli'.pc = "prompt"
               \/ /\ m # AckSeq(i) /\ toServer' = Arriving(toServer, <<SentFrame(t, i)>>) /\ cli' = cli
<1> DEFINE m == Head(toClient)
           r == cli.request
           t == Upload
           i == cli.i
           next == [cli EXCEPT !.i = cli.i + 1, !.seq = NextSeq(cli.seq)]
<1>1. cli.pc = "frames" /\ toClient # <<>> /\ UNCHANGED <<puts, serverVars>> /\ i < r.len /\ cli.seq = i
  BY Fields DEF sendFrames, PlacesOK, Numbers
<1>2. t \in Text /\ t.len \in Slots /\ t.len \in Nat /\ i \in Slots /\ i \in Nat
      /\ r \in Text /\ r.len = t.len
  BY Fields, SlotsType, UploadFacts
<1>3. /\ next \in Client /\ next.pc = "frames" /\ next.i = i + 1 /\ next.seq = NextSeq(i)
      /\ next.request = r /\ next.command = cli.command /\ next.got = cli.got
  <2>1. i + 1 \in Slots /\ NextSeq(cli.seq) \in Nat
    BY <1>1, <1>2, PlaceAfter, NextSeqType
  <2> QED
    BY <1>1, <2>1, Fields DEF Client
<1>4. i + 1 < t.len => next.seq = i + 1
  BY <1>2, <1>3, NextNumber
<1>5. \/ /\ m = AckSeq(cli.seq) /\ next.i < r.len
         /\ ClientReceives(<<SeqFrame(ClientLayout, next.seq, Frame(r, next.i))>>) /\ cli' = next
      \/ /\ m = AckSeq(cli.seq) /\ next.i = r.len
         /\ ClientReceives(<<>>) /\ cli' = [next EXCEPT !.pc = "prompt"]
      \/ m # AckSeq(cli.seq) /\ ClientReceives(<<SeqFrame(ClientLayout, cli.seq, Frame(r, cli.i))>>) /\ cli' = cli
  BY Zenon DEF sendFrames
<1>6. /\ SeqFrame(ClientLayout, i, Frame(r, i)) = SentFrame(t, i)
      /\ SeqFrame(ClientLayout, i + 1, Frame(r, i + 1)) = SentFrame(t, i + 1)
  BY <1>1, <1>2, SeqFrames DEF Numbered, Upload
<1>u. cli' = next => Upload' = t
  BY <1>3 DEF Upload
<1> HIDE DEF next, m, t
<1>7. ASSUME cli' = [next EXCEPT !.pc = "prompt"]
      PROVE  cli'.pc = "prompt" /\ cli'.request = r /\ cli'.got = cli.got
  BY <1>3, <1>7 DEF Client
<1>8. toClient' = Tail(toClient)
  BY <1>5 DEF ClientReceives
<1>9. \/ /\ m = AckSeq(i) /\ i + 1 < t.len /\ toServer' = Arriving(toServer, <<SentFrame(t, i + 1)>>)
         /\ cli'.pc = "frames" /\ cli'.i = i + 1 /\ cli'.seq = i + 1 /\ cli'.request = r /\ Upload' = t
         /\ cli'.command = cli.command /\ cli'.got = cli.got
      \/ /\ m = AckSeq(i) /\ i + 1 = t.len /\ toServer' = Arriving(toServer, <<>>)
         /\ cli'.pc = "prompt" /\ cli'.request = r /\ cli'.got = cli.got
      \/ /\ m # AckSeq(i) /\ toServer' = Arriving(toServer, <<SentFrame(t, i)>>) /\ cli' = cli
  BY <1>1, <1>2, <1>3, <1>4, <1>5, <1>6, <1>7, <1>u DEF ClientReceives
<1>10. store' = store /\ srv' = srv
  BY <1>1 DEF serverVars
<1>11. cli'.request = r /\ cli'.got = cli.got
  BY <1>9
<1>12. Whole'
  BY <1>10, <1>11 DEF Whole
<1>13. Numbers'
  BY <1>1, <1>9, <1>10 DEF Numbers, CommandOK
<1> QED
  BY <1>1, <1>2, <1>8, <1>9, <1>12, <1>13 DEF m, t

\* The client has the text, or waits for more.
LEMMA ReceivingOutcomes ==
  ASSUME TypeInv, Numbers, Whole, cli.pc \in {"start", "data"}, UNCHANGED serverVars,
         NEW filesize \in Slots, NEW data \in [Slots -> Frames], cli' = Receiving(filesize, data),
         Filled(data, filesize) => Contents(data, filesize).kind # "mixed"
  PROVE  /\ Whole' /\ Numbers' /\ cli'.command = cli.command
         /\ cli'.filesize = filesize /\ cli'.data = data
         /\ cli'.pc = IF Filled(data, filesize) THEN "prompt" ELSE "data"
<1>1. /\ cli'.command = cli.command /\ cli'.filesize = filesize /\ cli'.data = data
      /\ Filled(data, filesize) => cli'.pc = "prompt" /\ cli'.got = Contents(data, filesize)
      /\ ~Filled(data, filesize) => cli'.pc = "data" /\ cli'.got = cli.got
  BY ReceivingType
<1>2. cli'.request = cli.request
  BY Fields DEF Receiving, Client
<1>3. store' = store /\ srv' = srv
  BY DEF serverVars
<1>4. Whole'
  BY <1>1, <1>2, <1>3 DEF Whole
<1>5. Numbers'
  BY <1>1, <1>2, <1>3 DEF Numbers, CommandOK
<1> QED
  BY <1>1, <1>4, <1>5

\* The client waits for the acknowledgement of its command.
LEMMA AwaitAckPhases ==
  ASSUME Numbered, TypeInv, Whole, Numbers, Phases, awaitAck
  PROVE  Phases'
<1> DEFINE m == Head(toClient)
           C == cli.command
<1>1. /\ toServer \in Seq(Sendable) /\ toClient \in Seq(Sendable)
      /\ cli.pc = "ack" /\ toClient # <<>> /\ toClient' = Tail(toClient)
      /\ srv' = srv /\ store' = store /\ Announced' = Announced
  BY Fields, AckOutcomes DEF serverVars, Announced
<1>2. /\ C \in Sendable /\ C.type = "command" /\ C.cmd.op # "none" /\ C # AckStart /\ C \notin Bare
      /\ Acked \in Sendable /\ Acked.type = "ack command" /\ Acked \notin Bare
      /\ \A k \in Nat : Acked \in Below(k)
      /\ Announced \in Bare /\ Announced \in Sendable /\ Announced # Acked
  BY <1>1, Waiting
<1>3. Asking = {C}
  BY <1>1 DEF Asking
<1>4. ASSUME m # Acked
      PROVE  /\ toServer' = Arriving(toServer, <<C>>) /\ cli' = cli /\ Acked' = Acked /\ Asking' = Asking
  BY <1>4, AckOutcomes DEF Acked, Asking
<1>5. ASSUME m = Acked, C.cmd.op # "put"
      PROVE  toServer' = Arriving(toServer, <<>>) /\ cli'.pc = "start" /\ cli'.command = C /\ Acked' = Acked
  BY <1>5, AckOutcomes DEF Acked
<1>6. CASE Apart
  <2>1. m \in Bare
    BY <1>1, <1>6, HeadFacts DEF Apart
  <2>2. toServer' = Arriving(toServer, <<C>>) /\ cli' = cli /\ Asking' = Asking
    BY <1>2, <1>4, <2>1
  <2>3. Within(toServer', Bare \cup Asking) /\ Behind(toServer', Asking, Asking)
    BY <1>1, <1>2, <1>3, <1>6, <2>2, ArrivingKeeps DEF Apart
  <2>4. Within(toClient', Bare)
    BY <1>1, <1>6, TailKeeps DEF Apart
  <2> QED
    BY <1>1, <1>6, <2>2, <2>3, <2>4 DEF Phases, Apart, Elsewhere
<1>7. CASE AnsweredEmpty
  <2>1. m \in Bare
    BY <1>1, <1>7, HeadFacts DEF AnsweredEmpty
  <2>2. toServer' = Arriving(toServer, <<C>>) /\ cli' = cli /\ Asking' = Asking
    BY <1>2, <1>4, <2>1
  <2>3. /\ Within(toServer', {srv.request, AckStart} \cup Asking)
        /\ Behind(toServer', {AckStart}, {AckStart} \cup Asking) /\ Block(toServer', {AckStart})
    <3> DEFINE A == {AckStart}
               S == {srv.request, AckStart} \cup Asking
               T == A \cup Asking
    <3>1. Within(toServer, S) /\ Behind(toServer, A, T) /\ Block(toServer, A)
      BY <1>7 DEF AnsweredEmpty
    <3>2. C \in S /\ C \in T /\ C \notin A
      BY <1>2, <1>3
    <3> HIDE DEF A, S, T
    <3>3. Within(toServer', S) /\ Behind(toServer', A, T) /\ Block(toServer', A)
      BY <1>1, <1>2, <2>2, <3>1, <3>2, ArrivingKeeps
    <3> QED
      BY <3>3 DEF A, S, T
  <2>4. Within(toClient', Bare)
    BY <1>1, <1>7, TailKeeps DEF AnsweredEmpty
  <2> QED
    BY <1>1, <1>7, <2>2, <2>3, <2>4 DEF Phases, AnsweredEmpty
<1>8. CASE PutAsked
  <2>1. CASE m = Acked
    <3> DEFINE t == Upload
    <3>1. /\ toServer' = Arriving(toServer, <<SentFrame(t, 0)>>)
          /\ cli'.pc = "frames" /\ cli'.i = 0 /\ Upload' = t /\ cli'.command = C
      BY <1>8, <2>1, AckOutcomes DEF PutAsked
    <3>2. Within(toClient', {Acked})
      BY <1>1, <1>8, <2>1, HeadFacts DEF PutAsked
    <3>3. Within(toClient', Acks \cup {Acked}) /\ Behind(toClient', Bare, Bare) /\ Within(toClient', Below(0))
      BY <1>2, <3>2 DEF Within, Behind
    <3>4. t \in Text /\ 0 < t.len
      BY <1>1, <1>8, Fields, UploadFacts, SlotsType DEF PlacesOK, PutAsked
    <3>5. \A x \in {C} : x.type # "seq"
      BY <1>2
    <3>6. Transfer(t, 0, {C}, toServer', toClient', srv.data)
      BY <1>1, <1>8, <3>1, <3>3, <3>4, <3>5, TransferBegins DEF PutAsked
    <3>7. Acked' = Acked
      BY <3>1 DEF Acked
    <3> QED
      BY <1>1, <1>8, <3>1, <3>3, <3>6, <3>7 DEF Phases, Uploading, PutAsked
  <2>2. CASE m # Acked
    <3>1. Within(toServer', {C})
      <4>1. Within(toServer, {C}) /\ toServer' = Arriving(toServer, <<C>>)
        BY <1>4, <1>8, <2>2 DEF PutAsked
      <4> QED
        BY <1>1, <1>2, <4>1, ArrivingKeeps
    <3>2. Within(toClient', Bare \cup {Acked}) /\ Behind(toClient', {Acked}, {Acked})
      BY <1>1, <1>8, TailKeeps DEF PutAsked
    <3> QED
      BY <1>1, <1>4, <1>8, <2>2, <3>1, <3>2 DEF Phases, PutAsked
  <2> QED
    BY <2>1, <2>2
<1>9. CASE AnswerAsked
  <2>1. CASE m = Acked
    <3>1. toServer' = Arriving(toServer, <<>>) /\ cli'.pc = "start" /\ cli'.command = C /\ Acked' = Acked
      BY <1>5, <1>9, <2>1 DEF AnswerAsked
    <3>2. Within(toServer', {C})
      BY <1>1, <1>9, <3>1, TailKeeps DEF AnswerAsked
    <3>3. Within(toClient', {Acked, Announced})
      BY <1>1, <1>9, <2>1, HeadFacts DEF AnswerAsked
    <3>4. ASSUME srv.response.len = 0 PROVE C.cmd.op = "get" /\ Behind(toClient', {Announced}, {Announced})
      <4>1. C.cmd.op = "get" /\ Block(toClient, {Acked})
        BY <1>9, <3>4 DEF AnswerAsked
      <4>2. \A a, b \in DOMAIN toClient' : a < b /\ toClient'[a] \notin {Acked} => toClient'[b] \notin {Acked}
        BY <1>1, <2>1, <4>1, HeadFacts
      <4> QED
        BY <1>2, <3>3, <4>1, <4>2 DEF Behind, Within
    <3>5. AnswerAcked'
      BY <1>1, <1>9, <3>1, <3>2, <3>3, <3>4 DEF AnswerAcked, AnswerAsked
    <3> QED
      BY <3>5 DEF Phases
  <2>2. CASE m # Acked
    <3>1. Within(toServer', {C})
      <4>1. Within(toServer, {C}) /\ toServer' = Arriving(toServer, <<C>>)
        BY <1>4, <1>9, <2>2 DEF AnswerAsked
      <4> QED
        BY <1>1, <1>2, <4>1, ArrivingKeeps
    <3>2. /\ Within(toClient', Bare \cup {Acked}) /\ Behind(toClient', {Acked}, {Acked, Announced})
          /\ C.cmd.op = "get" => Block(toClient', {Acked})
      BY <1>1, <1>9, TailKeeps DEF AnswerAsked
    <3>3. AnswerAsked'
      BY <1>1, <1>4, <1>9, <2>2, <3>1, <3>2 DEF AnswerAsked
    <3> QED
      BY <3>3 DEF Phases
  <2> QED
    BY <2>1, <2>2
<1>10. CASE Left
  <2>1. CASE m = Acked
    <3>1. cli'.pc = "start" /\ cli'.command = C
      BY <1>5, <1>10, <2>1 DEF Left
    <3>2. Within(toClient', NoStart)
      BY <1>1, <1>10, <2>1, HeadFacts DEF Left
    <3> QED
      BY <1>1, <1>10, <3>1, <3>2 DEF Phases, Left
  <2>2. CASE m # Acked
    <3>1. Acked \in NoStart
      BY <1>2 DEF NoStart
    <3>2. Within(toClient', Bare \cup {Acked}) /\ Behind(toClient', {Acked}, NoStart)
      BY <1>1, <1>10, <3>1, TailKeeps DEF Left
    <3> QED
      BY <1>1, <1>4, <1>10, <2>2, <3>2 DEF Phases, Left
  <2> QED
    BY <2>1, <2>2
<1> QED
  BY <1>1, <1>6, <1>7, <1>8, <1>9, <1>10
     DEF Phases, Received, Uploading, AnswerAcked, AnswerAwaited, Downloading

\* The client sends a file.
LEMMA SendFramesPhases ==
  ASSUME Numbered, TypeInv, Whole, Numbers, Phases, sendFrames
  PROVE  Phases'
<1> DEFINE m == Head(toClient)
           t == Upload
           i == cli.i
<1>1. /\ toServer \in Seq(Sendable) /\ toClient \in Seq(Sendable)
      /\ cli.pc = "frames" /\ toClient # <<>> /\ toClient' = Tail(toClient)
      /\ t \in Text /\ i \in Nat /\ i < t.len /\ t.len \in Nat
      /\ srv' = srv /\ store' = store
  BY Fields, SendOutcomes DEF serverVars
<1>2. SentFrame(t, i) \in Bare /\ SentFrame(t, i) \in Sendable /\ AckSeq(i) \in Bare
  BY <1>1, SentFrames, Letters
<1>3. CASE Received
  <2>1. CASE m = AckSeq(i)
    <3>1. toServer' = Arriving(toServer, <<>>) /\ cli'.pc = "prompt"
      BY <1>3, <2>1, SendOutcomes, UploadFacts DEF Received
    <3>2. Within(toClient', Bare)
      BY <1>1, <1>2, <1>3, <2>1, HeadFacts DEF Received
    <3>3. Asking' = {}
      BY <3>1 DEF Asking
    <3>4. Within(toServer', Bare)
      BY <1>1, <1>3, <3>1, TailKeeps DEF Received
    <3>5. Within(toServer', Bare \cup {}) /\ Behind(toServer', {}, {})
      BY <3>4 DEF Within, Behind
    <3> QED
      BY <1>1, <1>3, <3>1, <3>2, <3>3, <3>5 DEF Phases, Apart, Received, Elsewhere
  <2>2. CASE m # AckSeq(i)
    <3>1. toServer' = Arriving(toServer, <<SentFrame(t, i)>>) /\ cli' = cli
      BY <2>2, SendOutcomes
    <3>2. Within(toServer', Bare)
      BY <1>1, <1>2, <1>3, <3>1, ArrivingKeeps DEF Received
    <3>3. Within(toClient', Bare \cup {Acked}) /\ Behind(toClient', Bare, Bare)
      BY <1>1, <1>3, TailKeeps DEF Received
    <3> QED
      BY <1>1, <1>3, <3>1, <3>2, <3>3 DEF Phases, Received, Elsewhere, Acked
  <2> QED
    BY <2>1, <2>2
<1>4. CASE Uploading
  <2>1. Transfer(t, i, {cli.command}, toServer, toClient, srv.data)
    BY <1>4 DEF Uploading
  <2>2. Within(toClient', Acks \cup {Acked}) /\ Behind(toClient', Bare, Bare)
    BY <1>1, <1>4, TailKeeps DEF Uploading
  <2>3. CASE m = AckSeq(i)
    <3>1. /\ i + 1 < t.len
          /\ Transfer(t, i + 1, {cli.command}, Arriving(toServer, <<SentFrame(t, i + 1)>>), Tail(toClient), srv.data)
      BY <1>1, <2>1, <2>3, TransferNext
    <3>2. /\ toServer' = Arriving(toServer, <<SentFrame(t, i + 1)>>)
          /\ cli'.pc = "frames" /\ cli'.i = i + 1 /\ Upload' = t /\ cli'.command = cli.command
      BY <2>3, <3>1, SendOutcomes
    <3> QED
      BY <1>1, <1>4, <2>2, <3>1, <3>2 DEF Phases, Uploading, Acked
  <2>4. CASE m # AckSeq(i)
    <3>1. toServer' = Arriving(toServer, <<SentFrame(t, i)>>) /\ cli' = cli
      BY <2>4, SendOutcomes
    <3>2. \A k \in {i, i + 1} : Within(toClient, Below(k)) => Within(Tail(toClient), Below(k))
      BY <1>1, TailKeeps
    <3>3. Transfer(t, i, {cli.command}, toServer', toClient', srv.data)
      BY <1>1, <2>1, <3>1, <3>2, TransferAgain
    <3> QED
      BY <1>1, <1>4, <2>2, <3>1, <3>3 DEF Phases, Uploading, Upload, Acked
  <2> QED
    BY <2>3, <2>4
<1> QED
  BY <1>1, <1>3, <1>4
     DEF Phases, Apart, AnsweredEmpty, PutAsked, AnswerAsked, AnswerAcked, AnswerAwaited, Downloading, Left

\* The client waits for the announcement of the answer.
LEMMA AwaitStartPhases ==
  ASSUME Numbered, TypeInv, Whole, Numbers, Phases, awaitStart
  PROVE  Phases' /\ Whole' /\ Numbers'
<1> DEFINE m == Head(toClient)
           len == srv.response.len
<1>1. /\ toServer \in Seq(Sendable) /\ toClient \in Seq(Sendable) /\ cli.pc = "start" /\ toClient # <<>>
      /\ toClient' = Tail(toClient) /\ UNCHANGED serverVars /\ srv' = srv /\ store' = store /\ Announced' = Announced
  BY Fields DEF awaitStart, ClientReceives, serverVars, Announced
<1>2. \/ m.type = "start" /\ toServer' = Arriving(toServer, <<AckStart>>) /\ cli' = Receiving(m.n, EmptyBuffer)
      \/ m.type # "start" /\ toServer' = Arriving(toServer, <<>>) /\ cli' = cli
  BY Zenon DEF awaitStart, ClientReceives
<1>3. ASSUME cli' = cli PROVE Whole' /\ Numbers' /\ Acked' = Acked
  BY <1>1, <1>3 DEF Whole, Numbers, CommandOK, Acked
<1>4. CASE Left
  <2>1. m \in NoStart
    BY <1>1, <1>4, HeadFacts DEF Left
  <2>2. cli' = cli
    BY <1>2, <2>1 DEF NoStart
  <2>3. Within(toClient', NoStart)
    BY <1>1, <1>4, TailKeeps DEF Left
  <2> QED
    BY <1>1, <1>3, <1>4, <2>2, <2>3 DEF Phases, Left
<1>5. CASE AnswerAcked
  <2>1. m \in {Acked, Announced} /\ srv.pc = "start" /\ srv.request = cli.command
    BY <1>1, <1>5, HeadFacts DEF AnswerAcked
  <2>2. /\ Acked.type = "ack command" /\ Announced.type = "start" /\ Announced \in Bare
        /\ cli.command # AckStart
    BY <1>1, Waiting
  <2>3. CASE m = Acked
    <3>1. toServer' = Arriving(toServer, <<>>) /\ cli' = cli
      BY <1>2, <2>2, <2>3
    <3>2. Within(toServer', {cli.command})
      BY <1>1, <1>5, <3>1, TailKeeps DEF AnswerAcked
    <3>3. /\ Within(toClient', {Acked, Announced})
          /\ len = 0 => Behind(toClient', {Announced}, {Announced})
      BY <1>1, <1>5, TailKeeps DEF AnswerAcked
    <3>4. AnswerAcked'
      BY <1>1, <1>3, <1>5, <3>1, <3>2, <3>3 DEF AnswerAcked
    <3> QED
      BY <1>3, <3>1, <3>4 DEF Phases
  <2>4. CASE m # Acked
    <3>1. m = Announced /\ m.type = "start" /\ m.n = len
      <4>1. m = Announced
        BY <2>1, <2>4
      <4>2. Announced.n = len
        BY DEF Announced, Start, Datagram
      <4> QED
        BY <2>2, <4>1, <4>2
    <3>2. toServer' = Arriving(toServer, <<AckStart>>) /\ cli' = Receiving(len, EmptyBuffer)
      BY <1>2, <3>1
    <3>3. srv.response \in Text /\ len \in Slots /\ len \in Nat /\ EmptyBuffer \in [Slots -> Frames]
      BY Fields, SlotsType, IdleType
    <3>4. AckStart \in Sendable /\ AckStart \in Bare
      BY Letters, DatagramTypes
    <3>5. EmptyBuffer = Prefix(srv.response, 0)
      BY <3>3, PrefixFacts
    <3>6. Filled(EmptyBuffer, len) <=> len = 0
      <4>1. Filled(Prefix(srv.response, 0), len) <=> 0 >= len
        BY <3>3, PrefixFacts
      <4> QED
        BY <3>3, <3>5, <4>1
    <3>7. len = 0 => Contents(EmptyBuffer, len).kind # "mixed"
      BY DEF Contents, NoText, Plain
    <3>8. /\ Whole' /\ Numbers' /\ cli'.command = cli.command
          /\ cli'.filesize = len /\ cli'.data = EmptyBuffer
          /\ cli'.pc = IF Filled(EmptyBuffer, len) THEN "prompt" ELSE "data"
      BY <1>1, <3>2, <3>3, <3>6, <3>7, ReceivingOutcomes
    <3>9. Acked' = Acked
      BY <3>8 DEF Acked
    <3>10. Within(toServer, {cli.command}) /\ \A a \in DOMAIN toServer : toServer[a] \notin {AckStart}
      BY <1>5, <2>2 DEF AnswerAcked, Within
    <3> DEFINE S == {cli.command, AckStart}
    <3>11. Within(toServer, S) /\ Behind(toServer, {AckStart}, {AckStart}) /\ Block(toServer, {AckStart})
      BY <3>10 DEF Within, Behind, Block
    <3>12. Within(toServer', S) /\ Behind(toServer', {AckStart}, {AckStart}) /\ Block(toServer', {AckStart})
      BY <1>1, <3>2, <3>4, <3>10, <3>11, ArrivingKeeps
    <3>13. CASE len = 0
      <4>1. cli'.pc = "prompt"
        BY <3>6, <3>8, <3>13
      <4>2. Asking' = {}
        BY <4>1 DEF Asking
      <4>3. Within(toClient', {Announced})
        BY <1>1, <1>5, <3>1, <3>13, HeadFacts DEF AnswerAcked
      <4>4. Within(toClient', Bare)
        BY <2>2, <4>3 DEF Within
      <4>5. cli.command.cmd.op = "get"
        BY <1>5, <3>13 DEF AnswerAcked
      <4>6. {srv.request, AckStart} \cup {} = S /\ {AckStart} \cup {} = {AckStart}
        BY <2>1
      <4>7. AnsweredEmpty'
        BY <1>1, <2>1, <3>12, <3>13, <4>1, <4>2, <4>4, <4>5, <4>6 DEF AnsweredEmpty
      <4> QED
        BY <3>8, <4>7 DEF Phases
    <3>14. CASE len # 0
      <4>1. cli'.pc = "data" /\ len > 0
        BY <3>3, <3>6, <3>8, <3>14
      <4>2. Within(toClient', {Acked, Announced})
        BY <1>1, <1>5, TailKeeps DEF AnswerAcked
      <4>3. AnswerAwaited'
        BY <1>1, <2>1, <3>8, <3>9, <3>12, <4>1, <4>2 DEF AnswerAwaited
      <4> QED
        BY <3>8, <4>3 DEF Phases
    <3> QED
      BY <3>13, <3>14
  <2> QED
    BY <2>3, <2>4
<1> QED
  BY <1>1, <1>4, <1>5
     DEF Phases, Apart, AnsweredEmpty, Received, PutAsked, Uploading, AnswerAsked, AnswerAwaited, Downloading

\* The client receives the answer.
LEMMA ReceiveDataPhases ==
  ASSUME Numbered, TypeInv, Whole, Numbers, Phases, receiveData
  PROVE  Phases' /\ Whole' /\ Numbers'
<1> DEFINE m == Head(toClient)
           t == Download
<1>1. /\ toServer \in Seq(Sendable) /\ toClient \in Seq(Sendable) /\ cli.pc = "data" /\ toClient # <<>>
      /\ toClient' = Tail(toClient) /\ UNCHANGED serverVars /\ srv' = srv /\ store' = store /\ Announced' = Announced
      /\ t \in Text /\ t.len \in Slots /\ t.len \in Nat /\ t.kind # "mixed" /\ cli.data \in [Slots -> Frames]
  BY Fields, UploadFacts, SlotsType DEF receiveData, ClientReceives, serverVars, Announced, Whole
<1>2. \/ m.type = "start" /\ toServer' = Arriving(toServer, <<AckStart>>) /\ cli' = Receiving(m.n, cli.data)
      \/ /\ m.type = "seq" /\ toServer' = Arriving(toServer, <<AckSeq(m.n)>>)
         /\ cli' = Receiving(cli.filesize, StrCpy(cli.data, m.n, m.p))
      \/ m.type \notin {"start", "seq"} /\ toServer' = Arriving(toServer, <<>>) /\ cli' = cli
  BY Zenon DEF receiveData, ClientReceives
<1>3. ASSUME cli' = cli PROVE Whole' /\ Numbers' /\ Acked' = Acked
  BY <1>1, <1>3 DEF Whole, Numbers, CommandOK, Acked
<1>4. /\ Acked.type = "ack command" /\ Announced.type = "start" /\ Announced \in Bare
      /\ Announced.n = t.len
  BY <1>1, Waiting, UploadFacts DEF Announced, Start, Datagram
<1>5. AckStart \in Sendable /\ AckStart \in Bare /\ \A k \in Nat : AckStart \in Below(k)
  BY Letters, DatagramTypes DEF AckStart, Datagram
\* The announcement once more.
<1>6. ASSUME m = Announced, ~Filled(cli.data, t.len)
      PROVE  /\ Whole' /\ Numbers' /\ toServer' = Arriving(toServer, <<AckStart>>) /\ Acked' = Acked
             /\ cli'.command = cli.command /\ cli'.pc = "data"
             /\ cli'.filesize = t.len /\ cli'.data = cli.data
  <2>1. toServer' = Arriving(toServer, <<AckStart>>) /\ cli' = Receiving(t.len, cli.data)
    BY <1>2, <1>4, <1>6
  <2>2. /\ Whole' /\ Numbers' /\ cli'.command = cli.command /\ cli'.filesize = t.len /\ cli'.data = cli.data
        /\ cli'.pc = "data"
    BY <1>1, <1>6, <2>1, ReceivingOutcomes
  <2> QED
    BY <2>1, <2>2 DEF Acked
<1>7. CASE AnswerAwaited
  <2>1. m \in {Acked, Announced}
    BY <1>1, <1>7, HeadFacts DEF AnswerAwaited
  <2>2. Within(toClient', {Acked, Announced})
    BY <1>1, <1>7, TailKeeps DEF AnswerAwaited
  <2>3. CASE m = Acked
    <3>1. toServer' = Arriving(toServer, <<>>) /\ cli' = cli
      BY <1>2, <1>4, <2>3
    <3>2. Within(toServer', {cli.command, AckStart}) /\ Behind(toServer', {AckStart}, {AckStart})
      BY <1>1, <1>7, <3>1, TailKeeps DEF AnswerAwaited
    <3>3. AnswerAwaited'
      BY <1>1, <1>3, <1>7, <2>2, <3>1, <3>2 DEF AnswerAwaited
    <3> QED
      BY <1>3, <3>1, <3>3 DEF Phases
  <2>4. CASE m = Announced
    <3>1. ~Filled(cli.data, t.len)
      BY <1>1, <1>7, PrefixFacts, UploadFacts DEF AnswerAwaited
    <3>2. Within(toServer', {cli.command, AckStart}) /\ Behind(toServer', {AckStart}, {AckStart})
      BY <1>1, <1>5, <1>6, <1>7, <2>4, <3>1, ArrivingKeeps DEF AnswerAwaited
    <3>3. AnswerAwaited'
      BY <1>1, <1>6, <1>7, <2>2, <2>4, <3>1, <3>2, UploadFacts DEF AnswerAwaited
    <3> QED
      BY <1>6, <2>4, <3>1, <3>3 DEF Phases
  <2> QED
    BY <2>1, <2>3, <2>4
<1>8. CASE Downloading
  <2> DEFINE i == srv.i
             first == {Acked, Announced}
  <2>1. /\ srv.pc = "frames" /\ cli.filesize = t.len /\ Within(toServer, Bare)
        /\ Transfer(t, i, first, toClient, toServer, cli.data)
    BY <1>8, UploadFacts DEF Downloading
  <2>2. i \in Nat /\ i < t.len
    BY <2>1, Fields, UploadFacts, SlotsType DEF PlacesOK
  <2>3. ~Filled(cli.data, t.len)
    BY <1>1, <2>1, <2>2, TransferUnfilled
  <2>4. CASE m.type = "seq"
    <3> DEFINE n == m.n
               data == StrCpy(cli.data, n, m.p)
    <3>1. /\ n \in Nat /\ n < t.len /\ m = SentFrame(t, n)
          /\ \/ /\ i + 1 = t.len /\ data = Prefix(t, t.len)
                /\ Within(Tail(toClient), {SentFrame(t, i)})
             \/ /\ Transfer(t, i, first, Tail(toClient), Arriving(toServer, <<AckSeq(n)>>), data)
                /\ ~Filled(data, t.len)
      <4>1. \A x \in first : x.type # "seq"
        BY <1>4
      <4> HIDE DEF first
      <4> QED
        BY <1>1, <2>1, <2>2, <2>4, <4>1, TransferReceive
    <3>2. toServer' = Arriving(toServer, <<AckSeq(n)>>) /\ cli' = Receiving(t.len, data)
      BY <1>2, <2>1, <2>4
    <3>3. data \in [Slots -> Frames]
      <4>1. m \in Sendable
        BY <1>1, HeadFacts
      <4>2. m.p \in Frames
        BY <4>1, PayloadType
      <4> QED
        BY <1>1, <4>2, BufferTypes
    <3>4. AckSeq(n) \in Bare /\ AckSeq(n) \in Sendable
      BY <3>1, Letters, DatagramTypes
    <3>5. Within(toServer', Bare)
      BY <1>1, <2>1, <3>2, <3>4, ArrivingKeeps
    <3> HIDE DEF data, first, n
    <3>6. CASE Filled(data, t.len)
      <4>1. data = Prefix(t, t.len) /\ Within(toClient', {SentFrame(t, i)})
        BY <1>1, <3>1, <3>6
      <4>2. Contents(data, t.len) = t
        BY <1>1, <2>2, <4>1, PrefixFacts
      <4>3. Whole' /\ Numbers' /\ cli'.pc = "prompt"
        BY <1>1, <3>2, <3>3, <3>6, <4>2, ReceivingOutcomes
      <4>4. Asking' = {}
        BY <4>3 DEF Asking
      <4>5. Within(toClient', Bare)
        <5>1. {SentFrame(t, i)} \subseteq Bare
          BY <1>1, <2>2, SentFrames
        <5> QED
          BY <4>1, <5>1, Wider
      <4>6. Within(toServer', Bare \cup {}) /\ Behind(toServer', {}, {})
        BY <3>5 DEF Within, Behind
      <4>7. Apart'
        BY <1>1, <2>1, <4>3, <4>4, <4>5, <4>6 DEF Apart, Elsewhere
      <4> QED
        BY <4>3, <4>7 DEF Phases
    <3>7. CASE ~Filled(data, t.len)
      <4>1. Transfer(t, i, first, toClient', toServer', data)
        <5>1. Filled(Prefix(t, t.len), t.len)
          BY <1>1, PrefixFacts
        <5> QED
          BY <1>1, <3>1, <3>2, <3>7, <5>1
      <4>2. /\ Whole' /\ Numbers' /\ cli'.pc = "data" /\ cli'.command = cli.command
            /\ cli'.filesize = t.len /\ cli'.data = data
        BY <1>1, <3>2, <3>3, <3>7, ReceivingOutcomes
      <4>3. first' = first
        BY <1>1, <4>2 DEF first, Acked
      <4>4. Downloading'
        BY <1>1, <2>1, <3>5, <4>1, <4>2, <4>3, UploadFacts DEF Downloading, Download, first
      <4> QED
        BY <4>2, <4>4 DEF Phases
    <3> QED
      BY <3>6, <3>7
  <2>5. CASE m.type # "seq"
    <3>1. m \in {Acked, Announced}
      <4>1. m \in (IF i = 0 THEN first ELSE {SentFrame(t, i - 1)}) \cup {SentFrame(t, i)}
        BY <1>1, <2>1, HeadFacts DEF Transfer
      <4>2. SentFrame(t, i).type = "seq"
        BY <1>1, <2>2, SentFrames
      <4>3. ASSUME i # 0 PROVE SentFrame(t, i - 1).type = "seq"
        <5> DEFINE j == i - 1
        <5>1. j \in Nat /\ j < t.len
          BY <1>1, <2>2, <4>3
        <5> HIDE DEF j
        <5>2. SentFrame(t, j).type = "seq"
          BY <1>1, <5>1, SentFrames
        <5> QED
          BY <5>2 DEF j
      <4> QED
        BY <2>5, <4>1, <4>2, <4>3
    <3>2. \A S : Within(toClient, S) => Within(toClient', S)
      BY <1>1, TailKeeps
    <3>3. \A S : Behind(toClient, S, S) => Behind(toClient', S, S)
      BY <1>1, TailKeeps
    <3>4. /\ toServer' = Arriving(toServer, <<>>) \/ toServer' = Arriving(toServer, <<AckStart>>)
          /\ Whole' /\ Numbers' /\ Acked' = Acked
          /\ cli'.pc = "data" /\ cli'.filesize = t.len /\ cli'.data = cli.data
      <4>1. CASE m = Acked
        <5>1. toServer' = Arriving(toServer, <<>>) /\ cli' = cli
          BY <1>2, <1>4, <4>1
        <5> QED
          BY <1>1, <1>3, <2>1, <5>1
      <4>2. CASE m = Announced
        BY <1>6, <2>3, <4>2
      <4> QED
        BY <3>1, <4>1, <4>2
    <3>5. Within(toServer', Bare)
      <4>1. Within(Arriving(toServer, <<>>), Bare)
        BY <1>1, <2>1, TailKeeps
      <4>2. Within(Arriving(toServer, <<AckStart>>), Bare)
        BY <1>1, <1>5, <2>1, ArrivingKeeps
      <4> QED
        BY <3>4, <4>1, <4>2
    <3>6. \A k \in {i, i + 1} : Within(toServer, Below(k)) => Within(toServer', Below(k))
      <4>1. \A k \in {i, i + 1} : AckStart \in Below(k)
        BY <1>5, <2>2
      <4> QED
        BY <1>1, <1>5, <3>4, <4>1, ArrivingKeeps, TailKeeps
    <3> HIDE DEF first
    <3>7. Transfer(t, i, first, toClient', toServer', cli.data)
      BY <2>1, <3>2, <3>3, <3>6, TransferKept
    <3>8. first' = first
      BY <1>1, <3>4 DEF first
    <3>9. Downloading'
      BY <1>1, <2>1, <3>4, <3>5, <3>7, <3>8, UploadFacts DEF Downloading, Download, first
    <3> QED
      BY <3>4, <3>9 DEF Phases
  <2> QED
    BY <2>4, <2>5
<1> QED
  BY <1>1, <1>7, <1>8
     DEF Phases, Apart, AnsweredEmpty, Received, PutAsked, Uploading, AnswerAsked, AnswerAcked, Left

\* The user types a command, or the input ends.
LEMMA UserOutcomes ==
  ASSUME Numbered, TypeInv, Whole, Numbers, UserStep
  PROVE  /\ cli.pc = "prompt" /\ toClient' = toClient /\ UNCHANGED serverVars /\ Whole' /\ Numbers'
         /\ \/ cli'.pc = "gone" /\ toServer' = toServer
            \/ \E C \in Sendable :
                 /\ C.type = "command" /\ C.cmd.op # "none"
                 /\ cli'.pc = "ack" /\ cli'.command = C /\ toServer' = Arriving(toServer, <<C>>)
<1>1. ASSUME NEW cmd \in CmdType, NEW text, Sends(cmd, text), UNCHANGED serverVars, text.kind # "mixed",
             cmd.op # "none", cmd.op = "get" => cmd.file \in Files,
             cmd.op = "put" => cmd.file \in Files /\ cmd.len = text.len
      PROVE  /\ toClient' = toClient /\ Whole' /\ Numbers'
             /\ \E C \in Sendable :
                  /\ C.type = "command" /\ C.cmd.op # "none"
                  /\ cli'.pc = "ack" /\ cli'.command = C /\ toServer' = Arriving(toServer, <<C>>)
  <2> DEFINE C == Command(cmd)
  <2>1. C \in Sendable
    BY <1>1, DatagramTypes
  <2>2. C.type = "command" /\ C.cmd = cmd
    BY Kinds
  <2>3. /\ cli'.pc = "ack" /\ cli'.command = C /\ cli'.request = text /\ cli'.got = NoText
        /\ toServer' = Arriving(toServer, <<C>>) /\ toClient' = toClient
    <3>1. cli \in Client
      BY Fields
    <3> QED
      BY <1>1, <3>1 DEF Sends, Client
  <2> HIDE DEF C
  <2>4. NoText.kind # "mixed" /\ srv' = srv /\ store' = store
    BY <1>1 DEF NoText, Plain, serverVars
  <2>5. Whole'
    BY <1>1, <2>3, <2>4 DEF Whole
  <2>6. CommandOK'
    BY <1>1, <2>2, <2>3 DEF CommandOK, C
  <2>7. Numbers'
    BY <1>1, <2>2, <2>3, <2>4, <2>6 DEF Numbers
  <2> QED
    BY <1>1, <2>1, <2>2, <2>3, <2>5, <2>7
<1>2. NoText.kind # "mixed" /\ \A v, len : FileText(v, len).kind # "mixed" /\ FileText(v, len).len = len
  BY DEF NoText, FileText, Plain
<1>3. CASE typePut
  <2>1. PICK f \in Files, len \in FileLens :
          /\ cli.pc = "prompt" /\ Sends(Cmd("put", f, len), FileText(puts + 1, len)) /\ UNCHANGED serverVars
    BY <1>3 DEF typePut, Types
  <2> DEFINE cmd == Cmd("put", f, len)
  <2>2. cmd \in CmdType /\ cmd.op = "put" /\ cmd.file \in Files /\ cmd.len = len
    BY WorkloadAssumption, NetAssumption DEF Cmd, CmdType
  <2> HIDE DEF cmd
  <2> DEFINE text == FileText(puts + 1, len)
  <2>3. Sends(cmd, text) /\ text.kind # "mixed" /\ text.len = len
    BY <1>2, <2>1 DEF cmd
  <2> HIDE DEF text
  <2> QED
    BY <1>1, <2>1, <2>2, <2>3
<1>4. CASE typeGet
  <2>1. PICK f \in Files : cli.pc = "prompt" /\ Sends(Cmd("get", f, 0), NoText) /\ UNCHANGED serverVars
    BY <1>4 DEF typeGet, Types
  <2> DEFINE cmd == Cmd("get", f, 0)
  <2>2. cmd \in CmdType /\ cmd.op = "get" /\ cmd.file \in Files
    BY NetAssumption DEF Cmd, CmdType
  <2> HIDE DEF cmd
  <2>3. Sends(cmd, NoText)
    BY <2>1 DEF cmd
  <2> QED
    BY <1>1, <1>2, <2>1, <2>2, <2>3
<1>5. CASE typeOther
  <2>1. PICK op \in {"ls", "other", "exit"} :
          cli.pc = "prompt" /\ Sends(Cmd(op, None, 0), NoText) /\ UNCHANGED serverVars
    BY <1>5 DEF typeOther, Types
  <2> DEFINE cmd == Cmd(op, None, 0)
  <2>2. cmd \in CmdType /\ cmd.op \notin {"none", "get", "put"}
    BY NetAssumption DEF Cmd, CmdType
  <2> HIDE DEF cmd
  <2>3. Sends(cmd, NoText)
    BY <2>1 DEF cmd
  <2> QED
    BY <1>1, <1>2, <2>1, <2>2, <2>3
<1>6. CASE endOfInput
  <2>1. /\ cli.pc = "prompt" /\ toClient' = toClient /\ toServer' = toServer /\ UNCHANGED serverVars
        /\ srv' = srv /\ store' = store /\ cli' = [cli EXCEPT !.pc = "gone"]
    BY <1>6 DEF endOfInput, Types, netVars, serverVars
  <2>2. cli'.pc = "gone" /\ cli'.got = cli.got /\ cli'.request = cli.request
    <3>1. cli \in Client
      BY Fields
    <3> QED
      BY <2>1, <3>1 DEF Client
  <2>3. Whole' /\ Numbers'
    BY <2>1, <2>2 DEF Whole, Numbers
  <2> QED
    BY <2>1, <2>2, <2>3
<1> QED
  BY <1>3, <1>4, <1>5, <1>6 DEF UserStep

\* The phase after it.
LEMMA UserPhases ==
  ASSUME Numbered, TypeInv, Whole, Numbers, Phases, UserStep
  PROVE  Phases' /\ Whole' /\ Numbers'
<1>1. /\ cli.pc = "prompt" /\ toClient' = toClient /\ UNCHANGED serverVars /\ Whole' /\ Numbers'
      /\ \/ cli'.pc = "gone" /\ toServer' = toServer
         \/ \E C \in Sendable :
              /\ C.type = "command" /\ C.cmd.op # "none"
              /\ cli'.pc = "ack" /\ cli'.command = C /\ toServer' = Arriving(toServer, <<C>>)
  BY UserOutcomes
<1>2. srv' = srv /\ Asking = {} /\ toServer \in Seq(Sendable)
  BY <1>1, Fields DEF serverVars, Asking
<1>3. Apart \/ AnsweredEmpty
  BY <1>1 DEF Phases, Received, PutAsked, Uploading, AnswerAsked, AnswerAcked, AnswerAwaited, Downloading, Left
<1>4. CASE cli'.pc = "gone" /\ toServer' = toServer
  <2>1. Asking' = Asking
    BY <1>2, <1>4 DEF Asking
  <2>2. Apart => Apart'
    BY <1>1, <1>2, <1>4, <2>1 DEF Apart, Elsewhere
  <2>3. AnsweredEmpty => AnsweredEmpty'
    BY <1>1, <1>2, <1>4, <2>1 DEF AnsweredEmpty
  <2> QED
    BY <1>1, <1>3, <2>2, <2>3 DEF Phases
<1>5. ASSUME NEW C \in Sendable, C.type = "command", C.cmd.op # "none",
             cli'.pc = "ack", cli'.command = C, toServer' = Arriving(toServer, <<C>>)
      PROVE  Phases'
  <2>1. Asking' = {C} /\ C \notin Bare /\ C # AckStart
    <3>1. Asking' = {C}
      BY <1>5 DEF Asking
    <3>2. C \notin Bare
      BY <1>5 DEF Bare
    <3>3. AckStart.type = "ack start"
      BY DEF AckStart, Datagram
    <3> QED
      BY <1>5, <3>1, <3>2, <3>3
  <2>2. CASE Apart
    <3>1. Within(toServer, Bare)
      BY <1>2, <2>2 DEF Apart, Within
    <3> DEFINE S == Bare \cup {C}
    <3>2. Within(toServer, S) /\ C \in S
      BY <3>1 DEF Within
    <3>3. \A a \in DOMAIN toServer : toServer[a] \notin {C}
      BY <2>1, <3>1 DEF Within
    <3>4. Behind(toServer, {C}, {C})
      BY <3>3 DEF Behind
    <3>5. Within(toServer', S) /\ Behind(toServer', {C}, {C})
      BY <1>2, <1>5, <3>2, <3>4, ArrivingKeeps
    <3>6. Apart'
      BY <1>1, <1>2, <1>5, <2>1, <2>2, <3>5 DEF Apart, Elsewhere
    <3> QED
      BY <3>6 DEF Phases
  <2>3. CASE AnsweredEmpty
    <3> DEFINE S == {srv.request, AckStart}
               A == {AckStart}
    <3>1. Within(toServer, S) /\ Behind(toServer, A, A) /\ Block(toServer, A)
      <4>1. S \cup {} = S /\ A \cup {} = A
        OBVIOUS
      <4> QED
        BY <1>2, <2>3, <4>1 DEF AnsweredEmpty
    <3> HIDE DEF S, A
    <3>2. Within(toServer, S \cup {C}) /\ Behind(toServer, A, A \cup {C})
      BY <3>1 DEF Within, Behind
    <3>3. C \in S \cup {C} /\ C \in A \cup {C} /\ C \notin A
      BY <2>1 DEF A
    <3>4. Within(toServer', S \cup {C}) /\ Behind(toServer', A, A \cup {C}) /\ Block(toServer', A)
      BY <1>2, <1>5, <3>1, <3>2, <3>3, ArrivingKeeps
    <3>5. AnsweredEmpty'
      BY <1>1, <1>2, <1>5, <2>1, <2>3, <3>4 DEF AnsweredEmpty, S, A
    <3> QED
      BY <3>5 DEF Phases
  <2> QED
    BY <1>3, <2>2, <2>3
<1> QED
  BY <1>1, <1>4, <1>5

\* A step of the server, in whatever phase.
LEMMA ServerPhases ==
  ASSUME Numbered, TypeInv, Whole, Numbers, Phases, ServerStep, UNCHANGED clientVars
  PROVE  Phases' /\ Whole' /\ Numbers'
<1>1. srv.pc # "gone"
  BY DEF ServerStep, srvCommand, srvPut, srvSave, srvStart, srvFrames
<1>2. CASE PutAsked \/ Uploading
  BY <1>2, PutAskedServer, UploadServer DEF Phases
<1>3. CASE ~(PutAsked \/ Uploading)
  <2>1. srv.pc # "put"
    BY <1>3 DEF Phases, Apart, AnsweredEmpty, Received, AnswerAsked, AnswerAcked, AnswerAwaited,
                Downloading, Left, Elsewhere
  <2>2. Whole' /\ Numbers'
    BY <2>1, ServerWhole
  <2>3. Apart \/ AnsweredEmpty \/ Received \/ AnswerAsked \/ AnswerAcked \/ AnswerAwaited \/ Downloading
    BY <1>1, <1>3 DEF Phases, Left
  <2>4. Phases'
    <3>1. CASE Apart
      BY <3>1, ApartServer
    <3>2. CASE AnsweredEmpty
      BY <3>2, AnsweredEmptyServer
    <3>3. CASE Received
      BY <3>3, ReceivedServer DEF Phases
    <3>4. CASE AnswerAsked
      BY <3>4, AnswerAskedServer DEF Phases
    <3>5. CASE AnswerAcked
      BY <3>5, AnswerAckedServer DEF Phases
    <3>6. CASE AnswerAwaited
      BY <3>6, AnswerAwaitedServer
    <3>7. CASE Downloading
      BY <3>7, DownloadServer DEF Phases
    <3> QED
      BY <2>3, <3>1, <3>2, <3>3, <3>4, <3>5, <3>6, <3>7
  <2> QED
    BY <2>2, <2>4
<1> QED
  BY <1>2, <1>3

\* The network loses or doubles a datagram, or nothing happens.
LEMMA NetThins ==
  ASSUME TypeInv, NetStep \/ UNCHANGED vars
  PROVE  /\ cli' = cli /\ srv' = srv /\ store' = store
         /\ Thins(toServer', toServer) /\ Thins(toClient', toClient)
<1>1. toServer \in Seq(Sendable) /\ toClient \in Seq(Sendable)
  BY Fields
<1>2. cli' = cli /\ srv' = srv /\ store' = store
  BY DEF NetStep, vars, serverVars, clientVars
<1>3. /\ \/ toServer' = toServer
         \/ \E i \in DOMAIN toServer :
              toServer' = Without(toServer, i) \/ toServer' = Arriving(<<>>, Twice(toServer, i))
      /\ \/ toClient' = toClient
         \/ \E i \in DOMAIN toClient :
              toClient' = Without(toClient, i) \/ toClient' = Arriving(<<>>, Twice(toClient, i))
  <2>1. CASE UNCHANGED vars
    BY <2>1 DEF vars, netVars
  <2>2. CASE Lose
    BY <2>2 DEF Lose
  <2>3. CASE Duplicate
    BY <2>3 DEF Duplicate
  <2> QED
    BY <2>1, <2>2, <2>3 DEF NetStep
<1>4. Thins(toServer', toServer)
  BY <1>1, <1>3, ChannelThins
<1>5. Thins(toClient', toClient)
  BY <1>1, <1>3, ChannelThins
<1> QED
  BY <1>2, <1>4, <1>5

\* No phase minds losses and duplicates.
LEMMA NetPhases ==
  ASSUME Numbered, TypeInv, TypeInv', Whole, Numbers, Phases, NetStep \/ UNCHANGED vars
  PROVE  Phases' /\ Whole' /\ Numbers'
<1>1. /\ cli' = cli /\ srv' = srv /\ store' = store
      /\ Thins(toServer', toServer) /\ Thins(toClient', toClient)
  BY NetThins
<1>2. /\ toServer \in Seq(Sendable) /\ toClient \in Seq(Sendable)
      /\ toServer' \in Seq(Sendable) /\ toClient' \in Seq(Sendable)
  BY DEF TypeInv
<1>3. /\ \A S : Within(toServer, S) => Within(toServer', S)
      /\ \A S, T : S \subseteq T /\ Behind(toServer, S, T) => Behind(toServer', S, T)
      /\ \A S : Block(toServer, S) => Block(toServer', S)
  BY <1>1, <1>2, ThinKeeps
<1>4. /\ \A S : Within(toClient, S) => Within(toClient', S)
      /\ \A S, T : S \subseteq T /\ Behind(toClient, S, T) => Behind(toClient', S, T)
      /\ \A S : Block(toClient, S) => Block(toClient', S)
  BY <1>1, <1>2, ThinKeeps
<1>5. Asking' = Asking /\ Acked' = Acked /\ Announced' = Announced /\ (Elsewhere => Elsewhere')
  BY <1>1 DEF Asking, Acked, Announced, Elsewhere
<1>6. Whole' /\ Numbers'
  BY <1>1 DEF Whole, Numbers, CommandOK
<1>7. CASE Apart
  <2>1. /\ Within(toClient', Bare) /\ Within(toServer', Bare \cup Asking)
        /\ Behind(toServer', Asking, Asking)
    BY <1>3, <1>4, <1>7 DEF Apart
  <2>2. Apart'
    BY <1>1, <1>5, <1>7, <2>1 DEF Apart
  <2> QED
    BY <1>6, <2>2 DEF Phases
<1>8. CASE AnsweredEmpty
  <2>1. /\ Within(toClient', Bare) /\ Within(toServer', {srv.request, AckStart} \cup Asking)
        /\ Behind(toServer', {AckStart}, {AckStart} \cup Asking) /\ Block(toServer', {AckStart})
    BY <1>3, <1>4, <1>8 DEF AnsweredEmpty
  <2>2. AnsweredEmpty'
    BY <1>1, <1>5, <1>8, <2>1 DEF AnsweredEmpty
  <2> QED
    BY <1>6, <2>2 DEF Phases
<1>9. CASE Received
  <2>1. /\ Within(toServer', Bare) /\ Within(toClient', Bare \cup {Acked})
        /\ Behind(toClient', Bare, Bare)
    BY <1>3, <1>4, <1>9 DEF Received
  <2>2. Received'
    BY <1>1, <1>5, <1>9, <2>1 DEF Received
  <2> QED
    BY <1>6, <2>2 DEF Phases
<1>10. CASE PutAsked
  <2>1. /\ Within(toServer', {cli.command}) /\ Within(toClient', Bare \cup {Acked})
        /\ Behind(toClient', {Acked}, {Acked})
    BY <1>3, <1>4, <1>10 DEF PutAsked
  <2>2. PutAsked'
    BY <1>1, <1>5, <1>10, <2>1 DEF PutAsked
  <2> QED
    BY <1>6, <2>2 DEF Phases
<1>11. CASE Uploading
  <2>1. Transfer(Upload, cli.i, {cli.command}, toServer', toClient', srv.data)
    <3>1. Transfer(Upload, cli.i, {cli.command}, toServer, toClient, srv.data)
      BY <1>11 DEF Uploading
    <3> QED
      BY <1>3, <1>4, <3>1, TransferKept
  <2>2. Within(toClient', Acks \cup {Acked}) /\ Behind(toClient', Bare, Bare)
    BY <1>4, <1>11 DEF Uploading
  <2>3. Uploading'
    BY <1>1, <1>5, <1>11, <2>1, <2>2 DEF Uploading, Upload
  <2> QED
    BY <1>6, <2>3 DEF Phases
<1>12. CASE AnswerAsked
  <2>1. /\ Within(toServer', {cli.command}) /\ Within(toClient', Bare \cup {Acked})
        /\ Behind(toClient', {Acked}, {Acked, Announced})
        /\ cli.command.cmd.op = "get" => Block(toClient', {Acked})
    BY <1>3, <1>4, <1>12 DEF AnswerAsked
  <2>2. AnswerAsked'
    BY <1>1, <1>5, <1>12, <2>1 DEF AnswerAsked
  <2> QED
    BY <1>6, <2>2 DEF Phases
<1>13. CASE AnswerAcked
  <2>1. /\ Within(toServer', {cli.command}) /\ Within(toClient', {Acked, Announced})
        /\ srv.response.len = 0 => Behind(toClient', {Announced}, {Announced})
    BY <1>3, <1>4, <1>13 DEF AnswerAcked
  <2>2. AnswerAcked'
    BY <1>1, <1>5, <1>13, <2>1 DEF AnswerAcked
  <2> QED
    BY <1>6, <2>2 DEF Phases
<1>14. CASE AnswerAwaited
  <2>1. /\ Within(toServer', {cli.command, AckStart}) /\ Within(toClient', {Acked, Announced})
        /\ Behind(toServer', {AckStart}, {AckStart})
    BY <1>3, <1>4, <1>14 DEF AnswerAwaited
  <2>2. AnswerAwaited'
    BY <1>1, <1>5, <1>14, <2>1 DEF AnswerAwaited
  <2> QED
    BY <1>6, <2>2 DEF Phases
<1>15. CASE Downloading
  <2> DEFINE first == {Acked, Announced}
  <2>1. Transfer(Download, srv.i, first, toClient', toServer', cli.data)
    <3>1. Transfer(Download, srv.i, first, toClient, toServer, cli.data)
      BY <1>15 DEF Downloading
    <3> HIDE DEF first
    <3> QED
      BY <1>3, <1>4, <3>1, TransferKept
  <2>2. Within(toServer', Bare)
    BY <1>3, <1>15 DEF Downloading
  <2>3. Downloading'
    BY <1>1, <1>5, <1>15, <2>1, <2>2 DEF Downloading, Download
  <2> QED
    BY <1>6, <2>3 DEF Phases
<1>16. CASE Left
  <2>1. CASE cli.pc = "ack" /\ Within(toClient, Bare \cup {Acked}) /\ Behind(toClient, {Acked}, NoStart)
    <3>1. {Acked} \subseteq NoStart
      BY <2>1, Waiting DEF NoStart
    <3>2. Within(toClient', Bare \cup {Acked}) /\ Behind(toClient', {Acked}, NoStart)
      BY <1>4, <2>1, <3>1
    <3>3. Left'
      BY <1>1, <1>5, <1>16, <2>1, <3>2 DEF Left
    <3> QED
      BY <1>6, <3>3 DEF Phases
  <2>2. CASE cli.pc = "start" /\ Within(toClient, NoStart)
    <3>1. Left'
      BY <1>1, <1>4, <1>16, <2>2 DEF Left
    <3> QED
      BY <1>6, <3>1 DEF Phases
  <2> QED
    BY <1>16, <2>1, <2>2 DEF Left
<1> QED
  BY <1>6, <1>7, <1>8, <1>9, <1>10, <1>11, <1>12, <1>13, <1>14, <1>15, <1>16 DEF Phases

\* The invariant holds at the start, and every step keeps it.
LEMMA MixInit == Numbered /\ Init => MixInv
<1> SUFFICES ASSUME Numbered, Init PROVE MixInv
  OBVIOUS
<1>1. TypeInv
  BY InitTypes
<1>2. /\ toServer = <<>> /\ toClient = <<>> /\ store = [f \in Files |-> NoText] /\ srv = Idle
      /\ cli.pc = "prompt" /\ cli.request = NoText /\ cli.got = NoText
  BY DEF Init, NetInit, ServerInit, ClientInit
<1>3. NoText.kind # "mixed" /\ srv.pc = "command" /\ srv.response = NoText
  BY <1>2 DEF NoText, Plain, Idle
<1>4. Whole /\ Numbers
  BY <1>2, <1>3 DEF Whole, Numbers
<1>5. /\ \A S : Within(toServer, S) /\ Within(toClient, S)
      /\ \A S, T : Behind(toServer, S, T)
  BY <1>2 DEF Within, Behind
<1>6. Apart
  BY <1>2, <1>3, <1>5 DEF Apart, Elsewhere
<1> QED
  BY <1>1, <1>4, <1>6 DEF MixInv, Phases

LEMMA MixNext == MixInv /\ [Next]_vars => MixInv'
<1> SUFFICES ASSUME MixInv, [Next]_vars PROVE MixInv'
  OBVIOUS
<1>1. Numbered /\ TypeInv /\ Whole /\ Numbers /\ Phases
  BY DEF MixInv
<1>2. TypeInv' /\ Numbered'
  BY <1>1, NextTypes DEF Numbered
<1>3. Phases' /\ Whole' /\ Numbers'
  <2>1. CASE UserStep
    BY <1>1, <2>1, UserPhases
  <2>2. CASE ClientStep
    <3>1. CASE awaitAck
      BY <1>1, <3>1, AwaitAckPhases, AckOutcomes
    <3>2. CASE sendFrames
      BY <1>1, <3>2, SendFramesPhases, SendOutcomes
    <3>3. CASE awaitStart
      BY <1>1, <3>3, AwaitStartPhases
    <3>4. CASE receiveData
      BY <1>1, <3>4, ReceiveDataPhases
    <3> QED
      BY <2>2, <3>1, <3>2, <3>3, <3>4 DEF ClientStep
  <2>3. CASE ServerStep /\ UNCHANGED clientVars
    BY <1>1, <2>3, ServerPhases
  <2>4. CASE NetStep \/ UNCHANGED vars
    BY <1>1, <1>2, <2>4, NetPhases
  <2> QED
    BY <2>1, <2>2, <2>3, <2>4 DEF Next
<1> QED
  BY <1>2, <1>3 DEF MixInv

LEMMA MixInvariant == Numbered /\ Spec => []MixInv
<1>1. Numbered /\ Spec => []MixInv
  BY MixInit, MixNext, PTL DEF Spec
<1> QED
  BY <1>1

(***************************************************************************)
(* Whatever the network loses or delivers twice, and whenever a program    *)
(* sends a command, a frame or an acknowledgement again: the server never  *)
(* stores, and the client never shows, a text put together from the frames *)
(* of different texts.  This holds for every build that keeps the headers  *)
(* of its frames, with its texts shifted or not, and for texts of any      *)
(* length up to the point where the sequence number follows 9999 with 0.   *)
(***************************************************************************)
THEOREM UdpNothingMixed == Numbered /\ Spec => []NothingMixed
<1>1. MixInv => NothingMixed
  BY DEF MixInv, Whole, NothingMixed
<1> QED
  BY <1>1, MixInvariant, PTL
=============================================================================
