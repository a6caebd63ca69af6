------------------------------- MODULE UdpNet -------------------------------
(***************************************************************************)
(* What the UDP file transfer programs (PA1) say to each other, the        *)
(* network between them, and the buffer in which a receiver puts a text    *)
(* together.                                                               *)
(*                                                                         *)
(* A text (a file, a listing, an error message) is cut into FRAMES of 91   *)
(* characters, the last one shorter.  A frame carries its sequence number  *)
(* and the receiver copies it to that multiple of 91 in its buffer.        *)
(***************************************************************************)
EXTENDS Integers, Sequences, FiniteSets

CONSTANTS
  Files,          \* file names
  None,           \* no file
  MaxLen,         \* bound: frames in a text
  MaxSeq,         \* the sequence number after which 0 follows (9999)
  ClientLayout,   \* where the two programs' builds put seqstring and
  ServerLayout,   \*   ackstring
  MaxLosses,      \* bound: datagrams that the network loses
  MaxQueue,       \* datagrams that a socket's receive buffer holds
  MaxDuplicates   \* bound: datagrams that the network delivers twice

\* The two arrays on the stack: not adjacent, ackstring behind seqstring, or
\* seqstring behind ackstring.
Layouts == {"apart", "joined", "lost"}

ASSUME NetAssumption ==
  /\ None \notin Files
  /\ MaxLen \in Nat \ {0, 1}
  /\ MaxSeq \in Nat
  /\ ClientLayout \in Layouts
  /\ ServerLayout \in Layouts
  /\ MaxLosses \in Nat
  /\ MaxQueue \in Nat \ {0}
  /\ MaxDuplicates \in Nat

VARIABLES
  toServer, toClient,   \* datagrams under way, in order
  losses, duplicates    \* faults of the network so far

netVars == <<toServer, toClient, losses, duplicates>>

-----------------------------------------------------------------------------
\* Texts.

\* ver tells the texts of different put commands apart; names is what a
\* listing lists; shifted says that every frame of the text has eight foreign
\* characters in front and lacks its own from the 84th on.
Text ==
  [kind : {"none", "file", "list", "error", "mixed"}, ver : Nat,
   names : SUBSET Files, len : 0..MaxLen, shifted : BOOLEAN]

Plain(kind, len) ==
  [kind |-> kind, ver |-> 0, names |-> {}, len |-> len, shifted |-> FALSE]

NoText  == Plain("none", 0)     \* an empty or missing file
FileText(v, len) == [Plain("file", len) EXCEPT !.ver = v]
ListText(S) == [Plain("list", 1) EXCEPT !.names = S]

-----------------------------------------------------------------------------
\* The receiver's buffer, frame by frame.

Slots == 0..MaxLen

\* Frame i of text t.  Gap: the string has its end at this place.
Frame(t, i) == [text |-> t, i |-> i]
Gap == Frame(NoText, 0)

Frames == [text : Text, i : Slots]

Full(p) == p.i + 1 < p.text.len

EmptyBuffer == [j \in Slots |-> Gap]

\* strcpy(data + n * framesize, p): the end of a full frame falls on the first
\* character of the next place.
StrCpy(data, n, p) ==
  [j \in Slots |-> CASE j = n -> p
                     [] j = n + 1 /\ Full(p) -> Gap
                     [] OTHER -> data[j]]

\* strlen(data) >= filesize, for a text of len frames.
Filled(data, len) ==
  \A j \in 0..(len - 1) : data[j] # Gap /\ (j < len - 1 => Full(data[j]))

\* What the receiver then has.
Contents(data, len) ==
  IF len = 0 THEN NoText
  ELSE LET t == data[0].text
       IN IF t.len = len /\ \A j \in 0..(len - 1) : data[j] = Frame(t, j)
          THEN t ELSE Plain("mixed", len)

\* Mutant of NextSeq: the number is not increased.
NextSeqStays(n) == n

\* Mutant of NextSeq: the numbers go down.
NextSeqBack(n) == n - 1

NextSeq(n) == IF n = MaxSeq THEN 0 ELSE n + 1

-----------------------------------------------------------------------------
\* Datagrams.

\* The text of a command; a put says how long the file is.
Cmd(op, f, len) == [op |-> op, file |-> f, len |-> len]
NoCmd == Cmd("none", None, 0)

Datagrams ==
  [type : {"command", "ack command", "start", "ack start", "seq", "headless",
           "ack seq", "ack exit"},
   cmd : [op : {"none", "put", "get", "ls", "other", "exit"},
          file : Files \cup {None}, len : 0..MaxLen],
   n : Nat, p : Frames]

Datagram(type, cmd, n, p) == [type |-> type, cmd |-> cmd, n |-> n, p |-> p]

Command(cmd)    == Datagram("command", cmd, 0, Gap)
AckCommand(cmd) == Datagram("ack command", cmd, 0, Gap)
Start(len)      == Datagram("start", NoCmd, len, Gap)
AckStart        == Datagram("ack start", NoCmd, 0, Gap)
AckSeq(n)       == Datagram("ack seq", NoCmd, n, Gap)
AckExit         == Datagram("ack exit", NoCmd, 0, Gap)

\* sprintf writes nine bytes into seqstring and then into ackstring, of eight
\* bytes each.  With ackstring right behind, its first character takes the
\* place of seqstring's NUL: the frame goes out with both headers, and with 83
\* characters of text at most.  With seqstring right behind, it is empty when
\* it is used: the frame goes out without a header.
SeqFrame(layout, n, p) ==
  CASE layout = "apart"  -> Datagram("seq", NoCmd, n, p)
    [] layout = "joined" -> Datagram("seq", NoCmd, n, [p EXCEPT !.text.shifted = TRUE])
    [] layout = "lost"   -> Datagram("headless", NoCmd, 0, p)

\* What becomes of a text that is sent.
Carried(layout, t) ==
  IF layout = "joined" /\ t.len > 0 THEN [t EXCEPT !.shifted = TRUE] ELSE t

\* Mutant of Number: the number is read from the wrong place.
NumberMisread(m) == 0

\* What strtol reads after the first four characters, and strcpy after eight.
\* Neither finds anything in a short command; of a frame without its header
\* strcpy takes too little to fill the buffer.
Number(m)  == IF m.type \in {"seq", "ack seq"} THEN m.n ELSE 0
Payload(m) == IF m.type = "seq" THEN m.p ELSE Gap

-----------------------------------------------------------------------------
\* The network keeps the order; it may lose or duplicate.  What arrives at a
\* full receive buffer is dropped.

Arriving(ch, ms) ==
  LET all == ch \o ms
  IN SubSeq(all, 1, IF Len(all) > MaxQueue THEN MaxQueue ELSE Len(all))

Without(ch, i) == SubSeq(ch, 1, i - 1) \o SubSeq(ch, i + 1, Len(ch))
Twice(ch, i)   == SubSeq(ch, 1, i) \o SubSeq(ch, i, Len(ch))

Lose ==
  /\ losses < MaxLosses
  /\ losses' = losses + 1
  /\ \/ \E i \in DOMAIN toServer :
          toServer' = Without(toServer, i) /\ UNCHANGED toClient
     \/ \E i \in DOMAIN toClient :
          toClient' = Without(toClient, i) /\ UNCHANGED toServer
  /\ UNCHANGED duplicates

Duplicate ==
  /\ duplicates < MaxDuplicates
  /\ duplicates' = duplicates + 1
  /\ \/ \E i \in DOMAIN toServer :
          toServer' = Arriving(<<>>, Twice(toServer, i)) /\ UNCHANGED toClient
     \/ \E i \in DOMAIN toClient :
          toClient' = Arriving(<<>>, Twice(toClient, i)) /\ UNCHANGED toServer
  /\ UNCHANGED losses

NetInit ==
  /\ toServer = <<>> /\ toClient = <<>>
  /\ losses = 0 /\ duplicates = 0
=============================================================================
