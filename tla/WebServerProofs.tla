-------------------------- MODULE WebServerProofs ---------------------------
(***************************************************************************)
(* Proofs about the web server, for any number of connections, requests,   *)
(* files, timed-out sends and any size of the buffer.                      *)
(***************************************************************************)
EXTENDS WebServer, FiniteSetTheorems, WellFoundedInduction, TLAPS

Answer == [req : Nat, kind : {"error", "404", "405", "file"}, body : Seq(Int)]

ConnType ==
  [pc : Pcs, peer : {"open", "closed", "reset"}, asked : Seq(Request), got : Nat,
   part : Parts \cup {"none", "rest"}, at : Nat, last : Nat, cur : Request, read : Nat,
   buf : Seq(Int), pos : Int, rest : Int, body : Seq(Int), stalled : BOOLEAN,
   answers : Seq(Answer)]

\* The places of the requests: the one being answered is one of those that recv
\* has returned at least in part, and it is cur, or there is none and the client
\* is gone.  What is read behind a part is an error, the last answer.
PlacesOK(x) ==
  /\ x.at <= x.last /\ x.last <= Seen(x)
  /\ x.got + (IF x.part = "none" THEN 0 ELSE 1) <= Len(x.asked)
  /\ x.pc \in {"reply", "body"} =>
       \/ x.at = 0 /\ x.cur = NoRequest /\ x.pc = "reply"
       \/ x.at > 0 /\ x.cur = Parsed(x, x.at)
  /\ x.pc \in {"none", "backlog", "created"} =>
       x.got = 0 /\ x.asked = <<>> /\ x.answers = <<>> /\ x.part = "none"
  /\ x.part = "rest" =>
       x.pc # "recv" /\ (x.pc \in {"reply", "body"} => x.at = x.got + 1)

\* For patient clients: what is not answered yet is one pipeline, all of which
\* parseRequest takes.
RestIsPipeline(x) ==
  \A k \in Len(x.answers) + 1 .. Len(x.asked) - 1 : Chained(x.asked[k], x.asked[k + 1])

\* Every request so far has been answered once.
Numbered(x) == \A i \in 1 .. Len(x.answers) : x.answers[i].req = i

\* A request of which a part has been answered may be answered again.
OrderOK(x) ==
  /\ RestIsPipeline(x)
  /\ ~x.stalled /\ x.pc = "recv" => Len(x.answers) = Seen(x)
  /\ ~x.stalled /\ x.pc \in {"reply", "body"} /\ x.at > 0 =>
       /\ x.last = Seen(x)
       /\ Len(x.answers) = x.at - 1 \/ (x.part = "rest" /\ Len(x.answers) = x.at)
  /\ ~x.stalled /\ x.pc \in {"recv", "reply", "body"} => Numbered(x)

\* The body of an answer with the file of r is what BodiesAreExact promises.
BodyOK(r, body) ==
  /\ r.method # "POST" => body = Text(0, r.size, 0)
  /\ r.method = "POST" /\ r.size < BufSize => body = Posted(r)
  /\ HoldsFile(body, r.size)

\* The bodies sent so far are those of the files.
BodiesOK(x) ==
  \A i \in 1 .. Len(x.answers) :
    x.answers[i].kind = "file" =>
      /\ x.answers[i].req \in 1 .. Len(x.asked)
      /\ BodyOK(x.asked[x.answers[i].req], x.answers[i].body)

\* t has been sent when the first b bytes of the file have been.
TextOK(r, t, b) ==
  /\ t \in Seq(Int)
  /\ HoldsFile(t, b)
  /\ r.method # "POST" => t = Text(0, b, 0)
  /\ r.method = "POST" /\ r.size < BufSize =>
       (b = 0 /\ t = <<>>) \/ (b = r.size /\ t = Posted(r))

\* The buffer holds what is sent of the chunk at place b of the file, the part of
\* it before pbuf has been sent, and t has been sent before.
Buffered(x, b, t) ==
  /\ b < x.cur.size
  /\ TextOK(x.cur, t, b)
  /\ x.read = b + Chunk(x.cur, b)
  /\ x.buf \in Buffers(x.cur, b)
  /\ x.pos \in 0 .. Len(x.buf) /\ x.rest = Len(x.buf) - x.pos
  /\ Len(x.body) = Len(t) + x.pos
  /\ \A i \in 1 .. Len(t) : x.body[i] = t[i]
  /\ \A i \in 1 .. x.pos : x.body[Len(t) + i] = x.buf[i]

BufferOK(x) ==
  IF x.pc = "body" THEN \E b \in Nat : \E t \in Seq(Int) : Buffered(x, b, t)
  ELSE x.body = <<>> /\ x.read = 0

ExactOK(x) == ~x.stalled => BodiesOK(x) /\ BufferOK(x)

ConnOK(x) == x \in ConnType /\ PlacesOK(x) /\ (Patient => OrderOK(x)) /\ ExactOK(x)

CountedConns == {c \in Conns : conn[c].pc \in Counted}

\* The inductive invariant.
WebInv ==
  /\ main \in {"test", "tested", "accept", "wait", "exited", "killed"}
  /\ done \in BOOLEAN
  /\ stalls \in 0..MaxStalls
  /\ conn \in [Conns -> ConnType]
  /\ \A c \in Conns : ConnOK(conn[c])
  /\ thread_count \in Int
  /\ Running => thread_count = Cardinality(CountedConns)
  /\ ~Running => \A c \in Conns : conn[c].pc \notin Open

-----------------------------------------------------------------------------

LEMMA NoRequestType == NoRequest \in Request /\ NoRequest.error = TRUE
  BY DEF NoRequest, Request

LEMMA AnswersDomain ==
  ASSUME NEW x \in ConnType
  PROVE  DOMAIN x.answers = 1 .. Len(x.answers)
<1>1. x.answers \in Seq(Answer)
  BY DEF ConnType
<1> QED
  BY <1>1

LEMMA NoConnOK == ConnOK(NoConn)
<1>1. NoConn \in ConnType
  BY NoRequestType DEF NoConn, ConnType, Pcs
<1>2. PlacesOK(NoConn) /\ OrderOK(NoConn)
  BY DEF NoConn, PlacesOK, OrderOK, RestIsPipeline, Seen
<1>3. ExactOK(NoConn)
  BY DEF NoConn, ExactOK, BodiesOK, BufferOK
<1> QED
  BY <1>1, <1>2, <1>3 DEF ConnOK

\* A request of which a part was parsed is the same request in what its answer
\* depends on, unless it is an error.
LEMMA ParsedType ==
  ASSUME NEW x \in ConnType, NEW i \in 1 .. Len(x.asked)
  PROVE  LET r == Parsed(x, i)
         IN /\ r \in Request /\ r.method = x.asked[i].method /\ r.size = x.asked[i].size
            /\ r.tags = x.asked[i].tags /\ r.file = x.asked[i].file
            /\ i = x.got + 1 /\ x.part = "rest" => r.error
<1> DEFINE r == Parsed(x, i)
           s == x.asked[i]
<1>1. s \in Request /\ x.part \in Parts \cup {"none", "rest"}
  BY DEF ConnType
<1> HIDE DEF s
<1>2. \/ r = s /\ ~(i = x.got + 1 /\ x.part = "rest")
      \/ r = [s EXCEPT !.error = TRUE]
      \/ r = [s EXCEPT !.keepalive = FALSE] /\ ~(i = x.got + 1 /\ x.part = "rest")
  BY <1>1 DEF Parsed, Cut, Parts, s
<1> HIDE DEF r
<1>3. /\ r \in Request /\ r.method = s.method /\ r.size = s.size /\ r.tags = s.tags
      /\ r.file = s.file /\ (i = x.got + 1 /\ x.part = "rest" => r.error)
  BY <1>1, <1>2 DEF Request
<1> QED
  BY <1>3 DEF r, s

\* So the body of its answer is the same.
LEMMA ParsedBody ==
  ASSUME NEW x \in ConnType, NEW i \in 1 .. Len(x.asked), NEW body, BodyOK(Parsed(x, i), body)
  PROVE  BodyOK(x.asked[i], body)
<1> DEFINE r == Parsed(x, i)
           s == x.asked[i]
<1>1. r.method = s.method /\ r.size = s.size /\ r.tags = s.tags
  BY ParsedType
<1> HIDE DEF r, s
<1>2. Posted(r) = Posted(s)
  BY <1>1 DEF Posted
<1>3. BodyOK(r, body)
  BY DEF r
<1> QED
  BY <1>1, <1>2, <1>3 DEF BodyOK, s

\* A step that is not about bodies.
LEMMA SameBodies ==
  ASSUME NEW x, NEW y, ExactOK(x), y.asked = x.asked, y.answers = x.answers,
         y.stalled = x.stalled \/ y.stalled = TRUE, y.body = x.body, y.read = x.read,
         \/ x.pc # "body" /\ y.pc # "body"
         \/ /\ y.pc = x.pc /\ y.cur = x.cur /\ y.buf = x.buf
            /\ y.pos = x.pos /\ y.rest = x.rest
  PROVE  ExactOK(y)
  BY ZenonT(40) DEF ExactOK, BodiesOK, BufferOK, Buffered

\* The number of counted threads after the step of one of them.
LEMMA CountStep ==
  ASSUME NEW c \in Conns, NEW y, conn \in [Conns -> ConnType], conn' = [conn EXCEPT ![c] = y]
  PROVE  /\ Cardinality(CountedConns) \in Nat
         /\ (conn[c].pc \in Counted <=> y.pc \in Counted) =>
              Cardinality(CountedConns') = Cardinality(CountedConns)
         /\ conn[c].pc \notin Counted /\ y.pc \in Counted =>
              Cardinality(CountedConns') = Cardinality(CountedConns) + 1
         /\ conn[c].pc \in Counted /\ y.pc \notin Counted =>
              Cardinality(CountedConns') = Cardinality(CountedConns) - 1
<1>1. IsFiniteSet(CountedConns)
  BY WebAssumption, FS_Subset DEF CountedConns
<1>2. Cardinality(CountedConns) \in Nat
  BY <1>1, FS_CardinalityType
<1>3. \A d \in Conns : conn'[d] = IF d = c THEN y ELSE conn[d]
  OBVIOUS
<1>4. ASSUME conn[c].pc \in Counted <=> y.pc \in Counted
      PROVE  CountedConns' = CountedConns
  BY <1>3, <1>4 DEF CountedConns
<1>5. ASSUME conn[c].pc \notin Counted, y.pc \in Counted
      PROVE  CountedConns' = CountedConns \cup {c} /\ c \notin CountedConns
  BY <1>3, <1>5 DEF CountedConns
<1>6. ASSUME conn[c].pc \in Counted, y.pc \notin Counted
      PROVE  CountedConns' = CountedConns \ {c} /\ c \in CountedConns
  BY <1>3, <1>6 DEF CountedConns
<1> QED
  BY <1>1, <1>2, <1>4, <1>5, <1>6, FS_AddElement, FS_RemoveElement

\* A step of the connection c, with the record y after it, keeps the invariant
\* if it keeps the part about c and counts its thread.
LEMMA ConnStep ==
  ASSUME WebInv, NEW c \in Conns, NEW y, ConnOK(y), conn' = [conn EXCEPT ![c] = y],
         main' \in {"test", "tested", "accept", "wait"}, Running,
         done' \in BOOLEAN, stalls' \in 0..MaxStalls,
         \/ /\ conn[c].pc \in Counted <=> y.pc \in Counted
            /\ thread_count' = thread_count
         \/ /\ conn[c].pc \notin Counted /\ y.pc \in Counted
            /\ thread_count' = thread_count + 1
         \/ /\ conn[c].pc \in Counted /\ y.pc \notin Counted
            /\ thread_count' = thread_count - 1
  PROVE  WebInv'
<1>1. conn \in [Conns -> ConnType] /\ thread_count \in Int /\ thread_count = Cardinality(CountedConns)
  BY DEF WebInv
<1>2. thread_count' \in Int /\ thread_count' = Cardinality(CountedConns')
  <2> DEFINE n == Cardinality(CountedConns)
             m == Cardinality(CountedConns')
  <2>1. /\ n \in Nat
        /\ (conn[c].pc \in Counted <=> y.pc \in Counted) => m = n
        /\ conn[c].pc \notin Counted /\ y.pc \in Counted => m = n + 1
        /\ conn[c].pc \in Counted /\ y.pc \notin Counted => m = n - 1
    BY <1>1, CountStep, Zenon
  <2> HIDE DEF n, m
  <2>2. thread_count = n
    BY <1>1 DEF n
  <2>3. thread_count' \in Int /\ thread_count' = m
    BY <1>1, <2>1, <2>2
  <2> QED
    BY <2>3 DEF m
<1>3. y \in ConnType
  BY DEF ConnOK
<1>4. conn' \in [Conns -> ConnType] /\ \A d \in Conns : conn'[d] = IF d = c THEN y ELSE conn[d]
  BY <1>1, <1>3
<1>5. \A d \in Conns : ConnOK(conn'[d])
  BY <1>4 DEF WebInv
<1>6. Running'
  BY DEF Running
<1>7. \A d \in Conns : ConnOK(conn[d])'
  BY <1>5 DEF ConnOK, PlacesOK, OrderOK, RestIsPipeline, ConnType, ExactOK, BodiesOK, BufferOK,
              Buffered, Numbered, Seen, Parsed, Cut, TextOK
<1> QED
  BY <1>2, <1>4, <1>6, <1>7 DEF WebInv, CountedConns

-----------------------------------------------------------------------------
\* How many requests parseRequest takes.

LEMMA LeastNumber ==
  ASSUME NEW S \in SUBSET Nat, S # {}
  PROVE  \E n \in S : \A m \in S : n <= m
<1> DEFINE R == OpToRel(<, Nat)
<1>1. R = {ss \in Nat \X Nat : ss[1] < ss[2]}
  BY Zenon DEF OpToRel
<1>2. IsWellFoundedOn(R, Nat)
  BY NatLessThanWellFounded, Zenon
<1> HIDE DEF R
<1>3. PICK n \in S : \A m \in S : ~ (<<m, n>> \in R)
  BY <1>2, WFMin, Zenon
<1>4. ASSUME NEW m \in S
      PROVE  n <= m
  <2>1. ~(<<m, n>> \in R)
    BY <1>3
  <2> QED
    BY <1>1, <2>1
<1> QED
  BY <1>4

\* It takes at least one and at most all, and all of a pipeline.
LEMMA PipelineTakes ==
  ASSUME NEW s \in Seq(Request), NEW i \in Nat, NEW j \in Nat, i <= j
  PROVE  /\ Pipeline(s, i, j) \in 1 .. j - i + 1
         /\ (\A k \in i .. j - 1 : Chained(s[k], s[k + 1])) => Pipeline(s, i, j) = j - i + 1
<1> DEFINE P(n) == /\ \A k \in i .. i + n - 2 : Chained(s[k], s[k + 1])
                   /\ i + n - 1 < j => ~Chained(s[i + n - 1], s[i + n])
           S == {n \in 1 .. j - i + 1 : n = j - i + 1 \/ ~Chained(s[i + n - 1], s[i + n])}
<1>1. PICK n \in S : \A m \in S : n <= m
  <2>1. S \in SUBSET Nat /\ j - i + 1 \in S
    OBVIOUS
  <2> QED
    BY <2>1, LeastNumber, Zenon
<1>2. n \in 1 .. j - i + 1 /\ P(n)
  <2>1. n \in 1 .. j - i + 1 /\ (n = j - i + 1 \/ ~Chained(s[i + n - 1], s[i + n]))
    BY <1>1
  <2>2. ASSUME NEW k \in i .. i + n - 2
        PROVE  Chained(s[k], s[k + 1])
    <3>1. PICK m : m = k - i + 1
      OBVIOUS
    <3>2. m \in 1 .. j - i + 1 /\ m < n /\ i + m - 1 = k /\ i + m = k + 1
      BY <2>1, <2>2, <3>1
    <3>3. m \notin S
      BY <1>1, <3>2
    <3>4. Chained(s[i + m - 1], s[i + m])
      BY <3>2, <3>3
    <3> QED
      BY <3>2, <3>4
  <2>3. i + n - 1 < j => n # j - i + 1
    BY <2>1
  <2> QED
    BY <2>1, <2>2, <2>3
<1>3. Pipeline(s, i, j) = CHOOSE m \in 1 .. j - i + 1 : P(m)
  BY DEF Pipeline
<1> HIDE DEF P
<1>4. Pipeline(s, i, j) \in 1 .. j - i + 1 /\ P(Pipeline(s, i, j))
  BY <1>2, <1>3, Zenon
<1>5. ASSUME \A k \in i .. j - 1 : Chained(s[k], s[k + 1])
      PROVE  Pipeline(s, i, j) = j - i + 1
  <2> DEFINE m == Pipeline(s, i, j)
  <2>1. m \in 1 .. j - i + 1 /\ (i + m - 1 < j => ~Chained(s[i + m - 1], s[i + m]))
    BY <1>4 DEF P
  <2> HIDE DEF m
  <2>2. i + m - 1 < j => i + m - 1 \in i .. j - 1 /\ (i + m - 1) + 1 = i + m
    BY <2>1
  <2>3. ~(i + m - 1 < j)
    BY <1>5, <2>1, <2>2
  <2> QED
    BY <2>1, <2>3 DEF m
<1> QED
  BY <1>4, <1>5

-----------------------------------------------------------------------------
\* The texts of answers.

\* u has the n bytes of the file from place b on, once and in order.
PieceOK(u, b, n) ==
  /\ u \in Seq(Int)
  /\ \A i \in 1 .. Len(u) : u[i] < b + n /\ (u[i] >= 0 => u[i] >= b)
  /\ \A i, j \in 1 .. Len(u) : i < j /\ u[i] >= 0 /\ u[j] >= 0 => u[i] < u[j]
  /\ \A q \in b .. b + n - 1 : \E i \in 1 .. Len(u) : u[i] = q

LEMMA TextIsPiece ==
  ASSUME NEW b \in Nat, NEW n \in Nat, NEW k \in Nat
  PROVE  PieceOK(Text(b, n, k), b, n) /\ Len(Text(b, n, k)) = n + k
<1> DEFINE u == Text(b, n, k)
<1>1. u = [i \in 1 .. n + k |-> IF i <= n THEN b + i - 1 ELSE -2]
  BY DEF Text, Stray
<1>2. u \in Seq(Int) /\ Len(u) = n + k
  <2>1. \A i \in 1 .. n + k : (IF i <= n THEN b + i - 1 ELSE -2) \in Int
    OBVIOUS
  <2>2. u \in [1 .. n + k -> Int] /\ n + k \in Nat
    BY <1>1, <2>1
  <2> HIDE DEF u
  <2> QED
    BY <2>2
<1>3. \A i \in 1 .. n + k : u[i] = IF i <= n THEN b + i - 1 ELSE -2
  BY <1>1
<1> HIDE DEF u
<1>4. ASSUME NEW q \in b .. b + n - 1
      PROVE  \E i \in 1 .. n + k : u[i] = q
  <2>1. q - b + 1 \in 1 .. n + k /\ q - b + 1 <= n /\ b + (q - b + 1) - 1 = q
    OBVIOUS
  <2> QED
    BY <1>3, <2>1
<1>5. \A i \in 1 .. n + k : u[i] < b + n /\ (u[i] >= 0 => u[i] >= b)
  BY <1>3
<1>6. \A i, j \in 1 .. n + k : i < j /\ u[i] >= 0 /\ u[j] >= 0 => u[i] < u[j]
  BY <1>3
<1> QED
  BY <1>2, <1>4, <1>5, <1>6 DEF PieceOK, u

LEMMA WithDataIsPiece ==
  ASSUME NEW b \in Nat, NEW n \in Nat, NEW u, PieceOK(u, b, n), NEW p \in 0 .. Len(u)
  PROVE  PieceOK(WithData(u, p), b, n) /\ Len(WithData(u, p)) = Len(u) + 1
<1> DEFINE l == Len(u)
           w == WithData(u, p)
<1>1. u \in Seq(Int) /\ l \in Nat /\ \A i \in 1 .. l : u[i] \in Int
  BY DEF PieceOK
<1>2. w = [i \in 1 .. l + 1 |-> IF i <= p THEN u[i] ELSE IF i = p + 1 THEN -1 ELSE u[i - 1]]
  BY DEF WithData, Data
<1> HIDE DEF l
<1>p. p \in 0 .. l
  BY DEF l
<1>3. \A i \in 1 .. l + 1 : /\ i <= p => i \in 1 .. l
                            /\ i > p + 1 => i - 1 \in 1 .. l
  BY <1>1, <1>p
<1>4. \A i \in 1 .. l + 1 : /\ i <= p => w[i] = u[i]
                            /\ i = p + 1 => w[i] = -1
                            /\ i > p + 1 => w[i] = u[i - 1]
  BY <1>1, <1>2, <1>p
<1>5. w \in Seq(Int) /\ Len(w) = l + 1
  <2>1. \A i \in 1 .. l + 1 : w[i] \in Int
    <3> TAKE i \in 1 .. l + 1
    <3>1. i <= p \/ i = p + 1 \/ i > p + 1
      BY <1>p
    <3> QED
      BY <1>1, <1>3, <1>4, <3>1
  <2>2. w \in [1 .. l + 1 -> Int] /\ l + 1 \in Nat
    BY <1>1, <1>2, <2>1
  <2> HIDE DEF w
  <2> QED
    BY <2>2
<1> HIDE DEF w
<1>6. /\ \A i \in 1 .. l : u[i] < b + n /\ (u[i] >= 0 => u[i] >= b)
      /\ \A i, j \in 1 .. l : i < j /\ u[i] >= 0 /\ u[j] >= 0 => u[i] < u[j]
      /\ \A q \in b .. b + n - 1 : \E i \in 1 .. l : u[i] = q
  BY DEF PieceOK, l
<1> DEFINE old(i) == IF i <= p THEN i ELSE i - 1
\* A byte of w is the data or one of u, and these stand in the order of u.
<1>7. ASSUME NEW i \in 1 .. l + 1
      PROVE  w[i] = -1 \/ (i # p + 1 /\ old(i) \in 1 .. l /\ w[i] = u[old(i)])
  BY <1>p, <1>1, <1>3, <1>4
<1>8. \A i, j \in 1 .. l + 1 : i < j /\ i # p + 1 /\ j # p + 1 => old(i) < old(j)
  BY <1>p, <1>1
<1>9. \A i \in 1 .. l + 1 : w[i] < b + n /\ (w[i] >= 0 => w[i] >= b)
  <2> TAKE i \in 1 .. l + 1
  <2>1. CASE w[i] = -1
    BY <2>1
  <2>2. CASE i # p + 1 /\ old(i) \in 1 .. l /\ w[i] = u[old(i)]
    <3> HIDE DEF old
    <3> QED
      BY <1>6, <2>2
  <2> QED
    BY <1>7, <2>1, <2>2
<1>10. ASSUME NEW i \in 1 .. l + 1, NEW j \in 1 .. l + 1, i < j, w[i] >= 0, w[j] >= 0
       PROVE  w[i] < w[j]
  <2>0. w[i] # -1 /\ w[j] # -1
    BY <1>10
  <2>1. /\ i # p + 1 /\ old(i) \in 1 .. l /\ w[i] = u[old(i)]
        /\ j # p + 1 /\ old(j) \in 1 .. l /\ w[j] = u[old(j)]
    BY <1>7, <2>0
  <2>2. old(i) < old(j)
    BY <1>8, <1>10, <2>1
  <2> HIDE DEF old
  <2> QED
    BY <1>6, <1>10, <2>1, <2>2
<1>11. ASSUME NEW q \in b .. b + n - 1
       PROVE  \E i \in 1 .. l + 1 : w[i] = q
  <2>1. PICK i \in 1 .. l : u[i] = q
    BY <1>6
  <2>2. CASE i <= p
    BY <1>1, <1>4, <2>1, <2>2
  <2>3. CASE i > p
    <3>1. i + 1 \in 1 .. l + 1 /\ i + 1 > p + 1 /\ (i + 1) - 1 = i
      BY <1>p, <1>1, <2>3
    <3> QED
      BY <1>4, <2>1, <3>1
  <2> QED
    BY <1>p, <2>2, <2>3
<1> QED
  BY <1>5, <1>9, <1>10, <1>11 DEF PieceOK, w, l

\* What is sent of one chunk of a file.
LEMMA BufferIsPiece ==
  ASSUME NEW r \in Request, NEW b \in Nat, b < r.size, NEW u \in Buffers(r, b)
  PROVE  /\ Chunk(r, b) \in 1 .. r.size - b
         /\ PieceOK(u, b, Chunk(r, b))
         /\ Len(u) > 0
         /\ r.method # "POST" => u = Text(b, Chunk(r, b), 0)
         /\ r.method = "POST" /\ r.size < BufSize /\ b = 0 => Chunk(r, b) = r.size /\ u = Posted(r)
<1> DEFINE n == Chunk(r, b)
<1>1. r.size \in Nat /\ BufSize \in Nat \ {0} /\ TagLen \in Nat \ {0} /\ MaxStray \in Nat
  BY WebAssumption DEF Request
<1>2. n \in 1 .. r.size - b /\ n \in Nat /\ n <= BufSize
  BY <1>1 DEF Chunk
<1>3. PieceOK(Text(b, n, 0), b, n) /\ Len(Text(b, n, 0)) = n
  <2>1. n + 0 = n /\ 0 \in Nat
    BY <1>2
  <2> HIDE DEF n
  <2> QED
    BY <1>2, <2>1, TextIsPiece
<1>4. ASSUME NEW k \in Strays(r, b), NEW p \in Places(r, b, k)
      PROVE  PieceOK(WithData(Text(b, n, k), p), b, n) /\ Len(WithData(Text(b, n, k), p)) > 0
  <2>1. k \in Nat
    BY <1>1 DEF Strays
  <2>2. p \in 0 .. n + k
    <3>1. CASE Tags(r, b) # {}
      <4>1. p \in 0 .. n - TagLen
        BY <3>1 DEF Places, Tags
      <4> HIDE DEF n
      <4> QED
        BY <1>1, <1>2, <2>1, <4>1
    <3>2. CASE Tags(r, b) = {}
      <4>1. p \in 0 .. n + k - 1
        BY <3>2 DEF Places
      <4> HIDE DEF n
      <4> QED
        BY <1>1, <1>2, <2>1, <4>1
    <3> QED
      BY <3>1, <3>2
  <2> HIDE DEF n
  <2>3. PieceOK(Text(b, n, k), b, n) /\ Len(Text(b, n, k)) = n + k
    BY <1>2, <2>1, TextIsPiece
  <2>4. n + k + 1 > 0
    BY <1>2, <2>1
  <2> QED
    BY <1>2, <2>2, <2>3, <2>4, WithDataIsPiece
<1>5. \/ (r.method = "POST" => Tags(r, b) = {}) /\ u = Text(b, n, 0)
      \/ /\ r.method = "POST"
         /\ \E k \in Strays(r, b) : \E p \in Places(r, b, k) : u = WithData(Text(b, n, k), p)
  BY DEF Buffers
<1>6. PieceOK(u, b, n) /\ Len(u) > 0
  <2> HIDE DEF n
  <2> QED
    BY <1>2, <1>3, <1>4, <1>5
<1>7. r.method # "POST" => u = Text(b, n, 0)
  BY <1>5
<1>8. ASSUME r.method = "POST", r.size < BufSize, b = 0
      PROVE  n = r.size /\ u = Posted(r)
  <2> DEFINE places == {p \in r.tags : p + TagLen <= r.size}
             least(p) == p \in places /\ \A q \in places : p <= q
  <2>1. n = r.size /\ n # BufSize
    BY <1>1, <1>8 DEF Chunk
  <2>2. \A k \in Strays(r, b) : k = 0
    BY <2>1 DEF Strays
  <2>3. places \subseteq Nat
    BY DEF Request
  <2>4. Tags(r, b) = places
    <3>1. r.tags \subseteq Nat
      BY DEF Request
    <3>2. Tags(r, b) = {p \in 0 .. r.size - TagLen : p \in r.tags}
      BY <1>8, <2>1 DEF Tags
    <3> QED
      BY <1>1, <3>1, <3>2
  <2>5. CASE places = {}
    <3>1. Posted(r) = Text(0, n, 0)
      BY <2>1, <2>5 DEF Posted
    <3>2. \A k \in Strays(r, b) : Places(r, b, k) = {}
      BY <2>2, <2>4, <2>5 DEF Places
    <3>3. u = Text(b, n, 0)
      BY <1>5, <3>2
    <3> QED
      BY <1>8, <2>1, <3>1, <3>3
  <2>6. CASE places # {}
    <3>1. PICK p : least(p)
      BY <2>3, <2>6, LeastNumber, Zenon
    <3>2. \A q : least(q) => q = p
      BY <2>3, <3>1
    <3>3. (CHOOSE q \in places : \A m \in places : q <= m) = p
      BY <3>1, <3>2
    <3>4. Posted(r) = WithData(Text(0, n, 0), p)
      BY <2>1, <2>6, <3>3 DEF Posted
    <3>5. PICK k \in Strays(r, b) : \E q \in Places(r, b, k) : u = WithData(Text(b, n, k), q)
      BY <1>5, <1>8, <2>4, <2>6
    <3>6. PICK q \in Places(r, b, k) : u = WithData(Text(b, n, k), q)
      BY <3>5
    <3>7. k = 0
      BY <2>2
    <3>8. least(q)
      BY <2>4, <2>6 DEF Places
    <3>9. q = p
      BY <3>2, <3>8
    <3> QED
      BY <1>8, <2>1, <3>4, <3>6, <3>7, <3>9
  <2> QED
    BY <2>5, <2>6
<1> QED
  BY <1>2, <1>6, <1>7, <1>8

\* Nothing has been sent yet.
LEMMA TextStart ==
  ASSUME NEW r \in Request
  PROVE  /\ TextOK(r, <<>>, 0)
         /\ r.size = 0 => BodyOK(r, <<>>)
<1>1. Text(0, 0, 0) = <<>>
  BY DEF Text
<1>2. HoldsFile(<<>>, 0)
  BY DEF HoldsFile
<1>3. ASSUME r.size = 0
      PROVE  Posted(r) = <<>>
  <2>1. {p \in r.tags : p + TagLen <= r.size} = {}
    BY <1>3, WebAssumption DEF Request
  <2> QED
    BY <1>1, <1>3, <2>1 DEF Posted
<1>4. TextOK(r, <<>>, 0)
  BY <1>1, <1>2 DEF TextOK
<1> QED
  BY <1>1, <1>2, <1>3, <1>4 DEF BodyOK

\* The buffer u has been sent behind the text t, which makes the text v.
LEMMA TextNext ==
  ASSUME NEW r \in Request, NEW b \in Nat, b < r.size, NEW t, TextOK(r, t, b),
         NEW u \in Buffers(r, b), NEW v \in Seq(Int), Len(v) = Len(t) + Len(u),
         \A i \in 1 .. Len(t) : v[i] = t[i],
         \A i \in 1 .. Len(u) : v[Len(t) + i] = u[i]
  PROVE  TextOK(r, v, b + Chunk(r, b))
<1> DEFINE n == Chunk(r, b)
           l == Len(t)
           m == Len(u)
<1>1. /\ n \in 1 .. r.size - b /\ PieceOK(u, b, n) /\ r.size \in Nat
      /\ r.method # "POST" => u = Text(b, n, 0)
      /\ r.method = "POST" /\ r.size < BufSize /\ b = 0 => n = r.size /\ u = Posted(r)
  BY BufferIsPiece DEF Request
<1>2. t \in Seq(Int) /\ u \in Seq(Int) /\ l \in Nat /\ m \in Nat /\ DOMAIN t = 1 .. l
      /\ DOMAIN v = 1 .. l + m
  BY <1>1 DEF TextOK, PieceOK
<1>3. /\ \A i \in 1 .. l : t[i] < b
      /\ \A i, j \in 1 .. l : i < j /\ t[i] >= 0 /\ t[j] >= 0 => t[i] < t[j]
      /\ \A q \in 0 .. b - 1 : \E i \in 1 .. l : t[i] = q
  BY <1>2 DEF TextOK, HoldsFile
<1>4. /\ \A i \in 1 .. m : u[i] < b + n /\ (u[i] >= 0 => u[i] >= b)
      /\ \A i, j \in 1 .. m : i < j /\ u[i] >= 0 /\ u[j] >= 0 => u[i] < u[j]
      /\ \A q \in b .. b + n - 1 : \E i \in 1 .. m : u[i] = q
  BY <1>1 DEF PieceOK
<1>v. /\ \A i \in 1 .. l : v[i] = t[i] /\ i \in 1 .. l + m
      /\ \A i \in 1 .. m : v[l + i] = u[i] /\ l + i \in 1 .. l + m
      /\ \A i \in 1 .. l + m : v[i] \in Int
  BY <1>2
<1>n. n \in Nat
  BY <1>1
<1> HIDE DEF n, l, m
<1>5. ASSUME NEW i \in 1 .. l + m
      PROVE  \/ i \in 1 .. l /\ v[i] = t[i]
             \/ i - l \in 1 .. m /\ v[i] = u[i - l]
  <2>1. CASE i <= l
    BY <1>2, <1>v, <2>1
  <2>2. CASE i > l
    <3>1. i - l \in 1 .. m /\ l + (i - l) = i
      BY <1>2, <2>2
    <3> QED
      BY <1>v, <3>1
  <2> QED
    BY <1>2, <2>1, <2>2
<1>6. \A i \in 1 .. l + m : v[i] < b + n
  <2> TAKE i \in 1 .. l + m
  <2>1. CASE i \in 1 .. l /\ v[i] = t[i]
    <3>1. t[i] < b /\ t[i] \in Int
      BY <1>2, <1>3, <2>1
    <3> QED
      BY <1>n, <2>1, <3>1
  <2>2. CASE i - l \in 1 .. m /\ v[i] = u[i - l]
    BY <1>4, <2>2
  <2> QED
    BY <1>5, <2>1, <2>2
<1>7. ASSUME NEW i \in 1 .. l + m, NEW j \in 1 .. l + m, i < j, v[i] >= 0, v[j] >= 0
      PROVE  v[i] < v[j]
  <2>1. CASE j \in 1 .. l /\ v[j] = t[j]
    <3>1. i \in 1 .. l
      BY <1>2, <1>7, <2>1
    <3> QED
      BY <1>3, <1>7, <1>v, <2>1, <3>1
  <2>2. CASE j - l \in 1 .. m /\ v[j] = u[j - l]
    <3>1. CASE i \in 1 .. l /\ v[i] = t[i]
      <4>1. v[i] < b /\ v[j] >= b
        BY <1>3, <1>4, <1>7, <2>2, <3>1
      <4> QED
        BY <1>v, <4>1
    <3>2. CASE i - l \in 1 .. m /\ v[i] = u[i - l]
      <4>1. i - l < j - l
        BY <1>2, <1>7
      <4> QED
        BY <1>4, <1>7, <2>2, <3>2, <4>1
    <3> QED
      BY <1>5, <3>1, <3>2
  <2> QED
    BY <1>5, <2>1, <2>2
<1>8. ASSUME NEW q \in 0 .. (b + n) - 1
      PROVE  \E i \in 1 .. l + m : v[i] = q
  <2>1. CASE q < b
    <3>1. q \in 0 .. b - 1
      BY <1>n, <2>1
    <3> QED
      BY <1>3, <1>v, <3>1
  <2>2. CASE q >= b
    <3>1. q \in b .. b + n - 1
      BY <1>n, <2>2
    <3>2. PICK i \in 1 .. m : u[i] = q
      BY <1>4, <3>1
    <3> QED
      BY <1>v, <3>2
  <2> QED
    BY <1>n, <2>1, <2>2
<1>9. HoldsFile(v, b + n)
  BY <1>2, <1>6, <1>7, <1>8 DEF HoldsFile
<1>10. ASSUME r.method # "POST"
       PROVE  v = Text(0, b + n, 0)
  <2>1. t = Text(0, b, 0) /\ u = Text(b, n, 0)
    BY <1>1, <1>10 DEF TextOK
  <2>2. l = b /\ m = n
    <3>1. Len(Text(0, b, 0)) = b + 0
      BY TextIsPiece
    <3>2. Len(Text(b, n, 0)) = n + 0
      BY <1>n, TextIsPiece
    <3> QED
      BY <1>n, <2>1, <3>1, <3>2 DEF l, m
  <2>3. /\ \A i \in 1 .. l : t[i] = i - 1
        /\ \A i \in 1 .. m : u[i] = b + i - 1
    BY <1>n, <2>1, <2>2 DEF Text
  <2>4. \A i \in 1 .. b + n : v[i] = i - 1
    <3> TAKE i \in 1 .. b + n
    <3>1. i \in 1 .. l \/ i - l \in 1 .. m
      BY <1>n, <2>2
    <3>2. i \in 1 .. l => v[i] = i - 1
      BY <1>v, <2>3
    <3>3. i - l \in 1 .. m => v[i] = i - 1
      <4>1. ASSUME i - l \in 1 .. m
            PROVE  v[i] = i - 1
        <5>1. i \in 1 .. l + m /\ ~(i \in 1 .. l)
          BY <1>2, <1>n, <2>2, <4>1
        <5>2. v[i] = u[i - l]
          BY <1>5, <5>1
        <5>3. u[i - l] = b + (i - l) - 1 /\ b + (i - l) - 1 = i - 1
          BY <1>n, <2>2, <2>3, <4>1
        <5> QED
          BY <5>2, <5>3
      <4> QED
        BY <4>1
    <3> QED
      BY <3>1, <3>2, <3>3
  <2>5. DOMAIN v = 1 .. b + n
    BY <1>2, <2>2
  <2>6. Text(0, b + n, 0) = [i \in 1 .. b + n |-> i - 1]
    <3>1. (b + n) + 0 = b + n /\ \A i \in 1 .. b + n : i <= b + n /\ 0 + i - 1 = i - 1
      BY <1>n
    <3> QED
      BY <3>1 DEF Text
  <2>7. v = [i \in 1 .. b + n |-> v[i]]
    <3>1. v = [i \in DOMAIN v |-> v[i]]
      OBVIOUS
    <3> QED
      BY <2>5, <3>1, Zenon
  <2> QED
    BY <2>4, <2>6, <2>7
<1>11. ASSUME r.method = "POST", r.size < BufSize
       PROVE  b + n = r.size /\ v = Posted(r)
  <2>1. b = 0 /\ t = <<>>
    BY <1>11 DEF TextOK
  <2>2. n = r.size /\ u = Posted(r)
    BY <1>1, <1>11, <2>1 DEF n
  <2>3. l = 0
    BY <2>1 DEF l
  <2>4. DOMAIN v = 1 .. m /\ DOMAIN u = 1 .. m /\ \A i \in 1 .. m : v[i] = u[i]
    <3>1. 0 + m = m /\ \A i \in 1 .. m : 0 + i = i
      BY <1>2
    <3>2. DOMAIN u = 1 .. m
      BY <1>2 DEF m
    <3> QED
      BY <1>2, <1>v, <2>3, <3>1, <3>2
  <2>5. v = u
    <3>1. v = [i \in 1 .. m |-> v[i]] /\ u = [i \in 1 .. m |-> u[i]]
      BY <1>2, <2>4
    <3> QED
      BY <2>4, <3>1
  <2> QED
    BY <1>1, <2>1, <2>2, <2>5
<1> QED
  BY <1>9, <1>10, <1>11 DEF TextOK, n

-----------------------------------------------------------------------------
\* What the steps of a connection look like to HttpService, from its record x
\* to its record y.

Gone == {"ended", "cut"}

\* Nothing that HttpService knows of a part of a request.
SamePart(x, y) == (y.part = "none") <=> (x.part = "none")

\* A stuttering step, or the end of the connection.
Quiet(x, y) ==
  /\ y.asked = x.asked /\ y.answers = x.answers /\ y.stalled = x.stalled
  /\ SamePart(x, y)
  /\ x.pc \in Gone => y.pc \in Gone

Spoils(x, y) ==
  /\ y.stalled = TRUE
  /\ y.asked = x.asked /\ SamePart(x, y)
  /\ x.pc \notin Gone /\ y.pc \notin Gone

Asks(x, y) ==
  /\ Len(y.asked) = Len(x.asked) + 1
  /\ y.answers = x.answers /\ y.stalled = x.stalled /\ SamePart(x, y)
  /\ x.pc \notin Gone /\ y.pc \notin Gone

Begins(x, y) ==
  /\ y.part # "none"
  /\ y.asked = x.asked /\ y.answers = x.answers /\ y.stalled = x.stalled
  /\ x.pc \notin Gone /\ y.pc \notin Gone

Answers(x, y) ==
  /\ Numbered(x)
  /\ \E a \in Answer : y.answers = Append(x.answers, a) /\ a.req = Len(x.answers) + 1
  /\ Len(x.answers) < Len(x.asked)
  /\ y.asked = x.asked /\ y.stalled = x.stalled /\ SamePart(x, y)
  /\ x.pc \notin Gone /\ y.pc \notin Gone

AnswersAgain(x, y) ==
  /\ Numbered(x)
  /\ \E a \in Answer : y.answers = Append(x.answers, a) /\ a.req = Len(x.answers)
  /\ Len(x.answers) > 0
  /\ x.part # "none"
  /\ y.asked = x.asked /\ y.stalled = x.stalled /\ SamePart(x, y)
  /\ x.pc \notin Gone /\ y.pc \notin Gone

InOrder(x, y) ==
  \/ Quiet(x, y) \/ Spoils(x, y) \/ Asks(x, y) \/ Begins(x, y)
  \/ Answers(x, y) \/ AnswersAgain(x, y)

\* What is to be shown of a step.
Fine(x, y) == ConnOK(y) /\ (Patient => InOrder(x, y))

\* A new state of the thread, before or behind the requests, changes nothing.
LEMMA PcStep ==
  ASSUME NEW x, ConnOK(x), NEW pc, x.pc \in Open \cup {"none"},
         \/ x.pc = "recv" /\ pc = "giveup"
         \/ x.pc = "none" /\ pc = "backlog"
         \/ x.pc = "backlog" /\ pc = "created"
         \/ x.pc = "created" /\ pc = "recv"
  PROVE  Fine(x, [x EXCEPT !.pc = pc])
<1> DEFINE y == [x EXCEPT !.pc = pc]
<1>1. x \in ConnType /\ pc \in Pcs
  BY DEF ConnOK, Pcs, Open, Counted
<1>2. /\ y \in ConnType /\ y.pc = pc /\ y.asked = x.asked /\ y.answers = x.answers
      /\ y.stalled = x.stalled /\ y.got = x.got /\ y.part = x.part /\ y.at = x.at
      /\ y.last = x.last /\ y.body = x.body /\ y.read = x.read
  BY <1>1 DEF ConnType
<1> HIDE DEF y
<1>3. PlacesOK(y)
  BY <1>2 DEF ConnOK, PlacesOK, Seen
<1>4. Patient => OrderOK(y)
  BY <1>2 DEF ConnOK, OrderOK, RestIsPipeline, PlacesOK, Numbered, Seen
<1>5. Quiet(x, y)
  BY <1>2 DEF Quiet, SamePart, Open, Counted, Gone
<1>6. ExactOK(y)
  BY <1>2, SameBodies DEF ConnOK
<1> QED
  BY <1>2, <1>3, <1>4, <1>5, <1>6 DEF Fine, ConnOK, InOrder, y

\* The end of a thread, or of the process.
LEMMA OverStep ==
  ASSUME NEW x, ConnOK(x), NEW pc \in Gone
  PROVE  Fine(x, Over(x, pc)) /\ Over(x, pc).pc = pc
<1> DEFINE y == Over(x, pc)
<1>1. x \in ConnType /\ pc \in Pcs
  BY DEF ConnOK, Pcs, Gone
<1>2. /\ y \in ConnType /\ y.pc = pc /\ y.asked = x.asked /\ y.answers = x.answers
      /\ y.stalled = x.stalled /\ y.part = x.part /\ y.got = 0 /\ y.at = 0 /\ y.last = 0
      /\ y.body = <<>> /\ y.read = 0
  BY <1>1, NoConnOK DEF ConnOK, ConnType, Over, NoConn
<1> HIDE DEF y
<1>3. PlacesOK(y)
  <2>1. 0 <= Len(y.asked) /\ (x.part # "none" => 1 <= Len(y.asked))
    <3>1. x.got \in Nat /\ Len(x.asked) \in Nat
      BY <1>1 DEF ConnType
    <3> QED
      BY <1>2, <3>1 DEF ConnOK, PlacesOK
  <2> QED
    BY <1>2, <2>1 DEF PlacesOK, Seen, Gone
<1>4. Patient => OrderOK(y)
  BY <1>2 DEF ConnOK, OrderOK, RestIsPipeline, Gone
<1>5. Quiet(x, y)
  BY <1>2 DEF Quiet, SamePart
<1>6. ExactOK(y)
  BY <1>2 DEF ConnOK, ExactOK, BodiesOK, BufferOK, Gone
<1> QED
  BY <1>2, <1>3, <1>4, <1>5, <1>6 DEF Fine, ConnOK, InOrder, y

LEMMA RecvStep ==
  ASSUME NEW x, ConnOK(x), x.pc = "recv", x.part = "none",
         NEW n \in Nat, NEW part \in Parts \cup {"none"},
         n > 0 \/ part \in Parts \ {"unseen"},
         x.got + n + (IF part = "none" THEN 0 ELSE 1) <= Len(x.asked)
  PROVE  Fine(x, recvParsed(x, n, part)) /\ recvParsed(x, n, part).pc = "reply"
<1> DEFINE w == [x EXCEPT !.got = x.got + n, !.part = part]
           j == Seen(w)
           p == Pipeline(x.asked, x.got + 1, j)
           y == [w EXCEPT !.pc = "reply", !.at = x.got + 1, !.cur = Parsed(w, x.got + 1),
                          !.last = x.got + p]
<1>1. x \in ConnType /\ x.got \in Nat /\ x.asked \in Seq(Request)
  BY DEF ConnOK, ConnType
<1>2. /\ w \in ConnType /\ w.got = x.got + n /\ w.part = part /\ w.asked = x.asked
      /\ w.pc = x.pc /\ w.answers = x.answers /\ w.stalled = x.stalled /\ w.body = x.body
      /\ w.read = x.read
  <2>1. x.got + n \in Nat /\ part \in Parts \cup {"none", "rest"}
    BY <1>1
  <2>2. w \in ConnType
    BY <1>1, <2>1, ZenonT(40) DEF ConnType
  <2> QED
    BY <1>1, <2>2 DEF ConnType
<1>3. recvParsed(x, n, part) = y
  BY Zenon DEF recvParsed
<1> HIDE DEF w
<1>4. j \in Nat /\ x.got + 1 <= j /\ j <= Len(x.asked) /\ (part = "none" => j = x.got + n)
      /\ j = x.got + n + (IF part \in {"none", "unseen"} THEN 0 ELSE 1)
  BY <1>1, <1>2 DEF Seen, Parts
<1> HIDE DEF j
<1>5. /\ p \in 1 .. j - x.got
      /\ (\A k \in x.got + 1 .. j - 1 : Chained(x.asked[k], x.asked[k + 1])) => x.got + p = j
  <2>1. PICK i \in Nat : i = x.got + 1 /\ i <= j /\ j - i + 1 = j - x.got
    BY <1>1, <1>4
  <2>2. /\ Pipeline(x.asked, i, j) \in 1 .. j - i + 1
        /\ (\A k \in i .. j - 1 : Chained(x.asked[k], x.asked[k + 1])) =>
             Pipeline(x.asked, i, j) = j - i + 1
    BY <1>1, <1>4, <2>1, PipelineTakes
  <2>3. p = Pipeline(x.asked, i, j)
    BY <2>1, Zenon
  <2> HIDE DEF p
  <2> QED
    BY <1>1, <1>4, <2>1, <2>2, <2>3
<1> HIDE DEF p
<1>6. Parsed(w, x.got + 1) \in Request
  <2>1. x.got + 1 \in 1 .. Len(w.asked)
    BY <1>1, <1>2, <1>4
  <2> QED
    BY <1>2, <2>1, ParsedType
<1> DEFINE r == Parsed(w, x.got + 1)
<1>a. r \in Request
  BY <1>6
<1> HIDE DEF r
<1>7. /\ y \in ConnType /\ y.pc = "reply" /\ y.asked = x.asked /\ y.answers = x.answers
      /\ y.stalled = x.stalled /\ y.got = x.got + n /\ y.part = part /\ y.at = x.got + 1
      /\ y.last = x.got + p /\ y.cur = r /\ y.body = x.body /\ y.read = x.read
  <2>1. x.got + 1 \in Nat /\ x.got + p \in Nat /\ "reply" \in Pcs
    BY <1>1, <1>5 DEF Pcs, Open, Counted
  <2>2. y = [w EXCEPT !.pc = "reply", !.at = x.got + 1, !.cur = r, !.last = x.got + p]
    BY DEF r
  <2> QED
    BY <1>2, <1>a, <2>1, <2>2, ZenonT(40) DEF ConnType
<1> HIDE DEF y
<1>8. Seen(y) = j /\ r = Parsed(y, x.got + 1)
  BY <1>2, <1>7 DEF Seen, Parsed, j, r
<1>9. PlacesOK(y)
  <2>1. /\ y.at <= y.last /\ y.last <= Seen(y)
        /\ y.got + (IF part = "none" THEN 0 ELSE 1) <= Len(x.asked)
    BY <1>1, <1>4, <1>5, <1>7, <1>8
  <2>2. y.at > 0 /\ y.cur = Parsed(y, y.at) /\ y.part # "rest"
    BY <1>1, <1>7, <1>8 DEF Parts
  <2> QED
    BY <1>7, <2>1, <2>2 DEF PlacesOK
<1>10. ASSUME Patient
       PROVE  OrderOK(y)
  <2>1. RestIsPipeline(x) /\ (~x.stalled => Len(x.answers) = x.got /\ Numbered(x))
    BY <1>10, <1>1 DEF ConnOK, OrderOK, Seen
  <2>2. ASSUME ~x.stalled
        PROVE  x.got + p = j
    <3>1. \A k \in x.got + 1 .. j - 1 : k \in Len(x.answers) + 1 .. Len(x.asked) - 1
      BY <1>1, <1>4, <2>1, <2>2
    <3> QED
      BY <1>5, <2>1, <3>1 DEF RestIsPipeline
  <2> QED
    BY <1>1, <1>7, <1>8, <2>1, <2>2 DEF OrderOK, RestIsPipeline, Numbered
<1>11. Quiet(x, y) \/ Begins(x, y)
  BY <1>7 DEF Quiet, Begins, SamePart, Gone
<1>12. ExactOK(y)
  BY <1>7, SameBodies DEF ConnOK
<1> QED
  BY <1>3, <1>7, <1>9, <1>10, <1>11, <1>12 DEF Fine, ConnOK, InOrder

LEMMA RecvRestStep ==
  ASSUME NEW x, ConnOK(x), x.pc = "recv", x.part # "none"
  PROVE  LET w == [x EXCEPT !.part = "rest"]
             y == [w EXCEPT !.pc = "reply", !.at = x.got + 1, !.last = x.got + 1,
                            !.cur = Parsed(w, x.got + 1)]
         IN Fine(x, y) /\ y.pc = "reply"
<1> DEFINE w == [x EXCEPT !.part = "rest"]
           y == [w EXCEPT !.pc = "reply", !.at = x.got + 1, !.last = x.got + 1,
                          !.cur = Parsed(w, x.got + 1)]
<1>1. x \in ConnType /\ x.got \in Nat /\ x.asked \in Seq(Request)
  BY DEF ConnOK, ConnType
<1>2. /\ w \in ConnType /\ w.got = x.got /\ w.part = "rest" /\ w.asked = x.asked
      /\ w.pc = x.pc /\ w.answers = x.answers /\ w.stalled = x.stalled /\ w.body = x.body
      /\ w.read = x.read
  BY <1>1 DEF ConnType
<1> HIDE DEF w
<1>3. x.got + 1 \in 1 .. Len(x.asked)
  BY <1>1 DEF ConnOK, PlacesOK
<1> DEFINE r == Parsed(w, x.got + 1)
<1>4. r \in Request
  BY <1>2, <1>3, ParsedType
<1> HIDE DEF r
<1>5. /\ y \in ConnType /\ y.pc = "reply" /\ y.asked = x.asked /\ y.answers = x.answers
      /\ y.stalled = x.stalled /\ y.got = x.got /\ y.part = "rest" /\ y.at = x.got + 1
      /\ y.last = x.got + 1 /\ y.cur = r /\ y.body = x.body /\ y.read = x.read
  <2>1. x.got + 1 \in Nat /\ "reply" \in Pcs
    BY <1>1 DEF Pcs, Open, Counted
  <2>2. y = [w EXCEPT !.pc = "reply", !.at = x.got + 1, !.last = x.got + 1, !.cur = r]
    BY DEF r
  <2> QED
    BY <1>2, <1>4, <2>1, <2>2, ZenonT(40) DEF ConnType
<1> HIDE DEF y
<1>6. Seen(y) = x.got + 1 /\ r = Parsed(y, x.got + 1)
  BY <1>2, <1>5 DEF Seen, Parsed, r
<1>7. PlacesOK(y)
  BY <1>1, <1>3, <1>5, <1>6 DEF PlacesOK
<1>8. ASSUME Patient
      PROVE  OrderOK(y)
  <2>1. RestIsPipeline(x)
        /\ (~x.stalled => Len(x.answers) \in {x.got, x.got + 1} /\ Numbered(x))
    BY <1>8, <1>1 DEF ConnOK, OrderOK, Seen
  <2> QED
    BY <1>1, <1>5, <1>6, <2>1 DEF OrderOK, RestIsPipeline, Numbered
<1>9. Quiet(x, y)
  BY <1>5 DEF Quiet, SamePart, Gone
<1>10. ExactOK(y)
  BY <1>5, SameBodies DEF ConnOK
<1> QED
  BY <1>5, <1>7, <1>8, <1>9, <1>10 DEF Fine, ConnOK, InOrder, y, w

LEMMA RecvNothingStep ==
  ASSUME NEW x, ConnOK(x), x.pc = "recv"
  PROVE  Fine(x, [x EXCEPT !.pc = "reply", !.at = 0, !.last = 0, !.cur = NoRequest])
<1> DEFINE y == [x EXCEPT !.pc = "reply", !.at = 0, !.last = 0, !.cur = NoRequest]
<1>1. x \in ConnType
  BY DEF ConnOK
<1>2. /\ y \in ConnType /\ y.pc = "reply" /\ y.asked = x.asked /\ y.answers = x.answers
      /\ y.stalled = x.stalled /\ y.got = x.got /\ y.part = x.part /\ y.at = 0 /\ y.last = 0
      /\ y.cur = NoRequest /\ y.body = x.body /\ y.read = x.read
  BY <1>1, NoRequestType DEF ConnType, Pcs, Open, Counted
<1>3. x.got \in Nat
  BY <1>1 DEF ConnType
<1> HIDE DEF y
<1>4. PlacesOK(y)
  BY <1>2, <1>3 DEF ConnOK, PlacesOK, Seen
<1>5. Patient => OrderOK(y)
  BY <1>2 DEF ConnOK, OrderOK, RestIsPipeline, Numbered
<1>6. Quiet(x, y)
  BY <1>2 DEF Quiet, SamePart, Gone
<1>7. ExactOK(y)
  BY <1>2, SameBodies DEF ConnOK
<1> QED
  BY <1>2, <1>4, <1>5, <1>6, <1>7 DEF Fine, ConnOK, InOrder, y

\* A record whose current request has been answered, or whose answer is lost.
Done(x) ==
  /\ x \in ConnType /\ PlacesOK(x) /\ x.pc \in {"reply", "body"}
  /\ Patient => /\ RestIsPipeline(x)
                /\ ~x.stalled /\ x.at > 0 =>
                     /\ x.last = Seen(x)
                     /\ x.part # "rest" => Len(x.answers) = x.at /\ Numbered(x)
  /\ ~x.stalled => BodiesOK(x)

LEMMA ContinueStep ==
  ASSUME NEW x, Done(x), ~x.stalled => x.body = <<>> /\ x.read = 0
  PROVE  LET y == Continue(x)
         IN /\ ConnOK(y) /\ y.pc \in {"close", "recv", "reply"}
            /\ y.asked = x.asked /\ y.answers = x.answers /\ y.stalled = x.stalled
            /\ y.part = x.part
<1> DEFINE y == Continue(x)
<1>1. x \in ConnType /\ PlacesOK(x) /\ x.pc \in {"reply", "body"}
  BY DEF Done
<1>2. /\ x.at \in Nat /\ x.last \in Nat /\ x.got \in Nat /\ x.asked \in Seq(Request)
      /\ {"close", "recv", "reply"} \subseteq Pcs
  BY <1>1 DEF ConnType, Pcs, Open, Counted
<1>3. CASE ~KeepAlive(x.cur)
  <2>1. /\ y \in ConnType /\ y.pc = "close" /\ y.asked = x.asked /\ y.answers = x.answers
        /\ y.stalled = x.stalled /\ y.got = x.got /\ y.part = x.part /\ y.at = x.at
        /\ y.last = x.last /\ y.body = x.body /\ y.read = x.read
    BY <1>1, <1>2, <1>3 DEF Continue, ConnType
  <2> HIDE DEF y
  <2>2. PlacesOK(y)
    BY <1>1, <2>1 DEF PlacesOK, Seen
  <2>3. Patient => OrderOK(y)
    BY <2>1 DEF Done, OrderOK, RestIsPipeline
  <2>4. ExactOK(y)
    BY <2>1 DEF Done, ExactOK, BodiesOK, BufferOK
  <2> QED
    BY <2>1, <2>2, <2>3, <2>4 DEF ConnOK, y
<1>a. ASSUME KeepAlive(x.cur)
      PROVE  x.at > 0 /\ x.part # "rest"
  <2>1. x.at > 0 /\ x.cur = Parsed(x, x.at)
    BY <1>1, <1>a, NoRequestType DEF PlacesOK, KeepAlive
  <2>2. x.at \in 1 .. Len(x.asked) /\ (x.part = "rest" => x.at = x.got + 1)
    BY <1>1, <1>2, <2>1 DEF PlacesOK, Seen
  <2>3. x.part = "rest" => x.cur.error
    BY <1>1, <2>1, <2>2, ParsedType
  <2> QED
    BY <1>a, <2>1, <2>3 DEF KeepAlive
<1>4. CASE KeepAlive(x.cur) /\ x.at = x.last
  <2>1. /\ y \in ConnType /\ y.pc = "recv" /\ y.asked = x.asked /\ y.answers = x.answers
        /\ y.stalled = x.stalled /\ y.got = x.got /\ y.part = x.part /\ y.at = x.at
        /\ y.last = x.last /\ y.body = x.body /\ y.read = x.read
    BY <1>1, <1>2, <1>4 DEF Continue, ConnType
  <2> HIDE DEF y
  <2>3. PlacesOK(y)
    BY <1>1, <1>4, <1>a, <2>1 DEF PlacesOK, Seen
  <2>4. Patient => OrderOK(y)
    BY <1>4, <1>a, <2>1 DEF Done, OrderOK, RestIsPipeline, Numbered, Seen
  <2>5. ExactOK(y)
    BY <2>1 DEF Done, ExactOK, BodiesOK, BufferOK
  <2> QED
    BY <2>1, <2>3, <2>4, <2>5 DEF ConnOK, y
<1>5. CASE KeepAlive(x.cur) /\ x.at # x.last
  <2>1. x.at + 1 \in 1 .. Len(x.asked) /\ x.at + 1 \in Nat /\ x.at + 1 <= x.last
    BY <1>1, <1>2, <1>5 DEF PlacesOK, Seen
  <2> DEFINE r == Parsed(x, x.at + 1)
  <2>a. r \in Request
    BY <1>1, <2>1, ParsedType
  <2> HIDE DEF r
  <2>2. /\ y \in ConnType /\ y.pc = "reply" /\ y.asked = x.asked /\ y.answers = x.answers
        /\ y.stalled = x.stalled /\ y.got = x.got /\ y.part = x.part /\ y.at = x.at + 1
        /\ y.last = x.last /\ y.cur = r /\ y.body = x.body /\ y.read = x.read
    <3>1. y = [x EXCEPT !.at = x.at + 1, !.cur = r, !.pc = "reply"]
      BY <1>5 DEF Continue, r
    <3> QED
      BY <1>1, <1>2, <2>1, <2>a, <3>1, ZenonT(40) DEF ConnType
  <2> HIDE DEF y
  <2>3. r = Parsed(y, y.at) /\ Seen(y) = Seen(x)
    BY <2>2 DEF r, Parsed, Seen
  <2>4. PlacesOK(y)
    BY <1>1, <1>2, <1>5, <1>a, <2>1, <2>2, <2>3 DEF PlacesOK
  <2>5. Patient => OrderOK(y)
    BY <1>2, <1>5, <1>a, <2>2, <2>3 DEF Done, OrderOK, RestIsPipeline, Numbered
  <2>6. ExactOK(y)
    BY <2>2 DEF Done, ExactOK, BodiesOK, BufferOK
  <2> QED
    BY <2>2, <2>4, <2>5, <2>6 DEF ConnOK, y
<1> QED
  BY <1>3, <1>4, <1>5

\* The answer to the current request.
LEMMA AnsweredStep ==
  ASSUME NEW x, ConnOK(x), x.pc \in {"reply", "body"},
         NEW kind \in {"error", "404", "405", "file"},
         kind = "file" /\ ~x.stalled /\ x.at > 0 => BodyOK(x.cur, x.body)
  PROVE  LET y == Answered(x, kind)
         IN /\ Done(y) /\ y.body = x.body /\ y.read = x.read
            /\ Patient => \A z : /\ z.asked = y.asked /\ z.answers = y.answers
                                 /\ z.stalled = y.stalled /\ z.part = y.part /\ z.pc \notin Gone
                                 => InOrder(x, z)
<1> DEFINE a == [req |-> x.at, kind |-> kind, body |-> x.body]
           y == Answered(x, kind)
<1>1. x \in ConnType /\ PlacesOK(x)
  BY DEF ConnOK
<1>2. x.at \in Nat /\ x.answers \in Seq(Answer) /\ a \in Answer /\ x.asked \in Seq(Request)
      /\ x.last \in Nat /\ x.got \in Nat /\ x.stalled \in BOOLEAN
  BY <1>1 DEF ConnType, Answer
<1>3. CASE x.at = 0
  <2>1. y = x
    BY <1>3 DEF Answered
  <2>2. Done(x)
    BY <1>1, <1>3 DEF Done, ConnOK, OrderOK, ExactOK
  <2> QED
    BY <2>1, <2>2 DEF InOrder, Quiet, SamePart, Gone
<1>4. CASE x.at > 0
  <2>1. Append(x.answers, a) \in Seq(Answer) /\ Len(Append(x.answers, a)) = Len(x.answers) + 1
        /\ Len(x.answers) \in Nat /\ a.req = x.at
    BY <1>2
  <2>2. /\ y \in ConnType /\ y.pc = x.pc /\ y.asked = x.asked /\ y.answers = Append(x.answers, a)
        /\ y.stalled = x.stalled /\ y.got = x.got /\ y.part = x.part /\ y.at = x.at
        /\ y.last = x.last /\ y.cur = x.cur /\ y.body = x.body /\ y.read = x.read
    <3>1. y = [x EXCEPT !.answers = Append(x.answers, a)]
      BY <1>2, <1>4 DEF Answered
    <3> HIDE DEF y, a
    <3> QED
      BY <1>1, <2>1, <3>1 DEF ConnType
  <2>a. a.kind = kind /\ a.body = x.body
    OBVIOUS
  <2> HIDE DEF y, a
  <2>3. PlacesOK(y) /\ Seen(y) = Seen(x)
    BY <1>1, <2>2 DEF PlacesOK, Seen, Parsed
  <2>c. x.at \in 1 .. Len(x.asked) /\ x.cur = Parsed(x, x.at)
    BY <1>1, <1>2, <1>4 DEF PlacesOK, Seen
  <2>4. ASSUME Patient
        PROVE  /\ RestIsPipeline(y)
               /\ ~x.stalled => /\ x.last = Seen(x) /\ Numbered(x)
                                /\ \/ Len(x.answers) = x.at - 1
                                   \/ x.part = "rest" /\ Len(x.answers) = x.at
    BY <1>4, <2>1, <2>2, <2>4 DEF ConnOK, OrderOK, RestIsPipeline
  <2>d. ASSUME Patient, ~x.stalled, x.part # "rest"
        PROVE  Len(y.answers) = y.at /\ Numbered(y)
    <3>1. Len(x.answers) = x.at - 1 /\ Numbered(x)
      BY <2>4, <2>d
    <3>2. ASSUME NEW i \in 1 .. Len(x.answers) + 1
          PROVE  y.answers[i].req = i
      <4>1. CASE i = Len(x.answers) + 1
        BY <1>2, <2>1, <2>2, <3>1, <4>1
      <4>2. CASE i \in 1 .. Len(x.answers)
        BY <1>2, <2>2, <3>1, <4>2 DEF Numbered
      <4> QED
        BY <2>1, <3>2, <4>1, <4>2
    <3>3. Len(y.answers) = Len(x.answers) + 1
      BY <2>1, <2>2
    <3>4. Len(y.answers) = y.at
      BY <1>2, <2>1, <2>2, <3>1, <3>3
    <3>5. Numbered(y)
      BY <3>2, <3>3 DEF Numbered
    <3> QED
      BY <3>4, <3>5
  <2>b. ASSUME ~x.stalled
        PROVE  BodiesOK(y)
    <3>2. BodiesOK(x)
      BY <2>b DEF ConnOK, ExactOK
    <3>3. kind = "file" => BodyOK(x.asked[x.at], x.body)
      <4>1. ASSUME kind = "file"
            PROVE  BodyOK(x.asked[x.at], x.body)
        <5>1. BodyOK(Parsed(x, x.at), x.body)
          BY <1>4, <2>b, <2>c, <4>1
        <5> QED
          BY <1>1, <2>c, <5>1, ParsedBody
      <4> QED
        BY <4>1
    <3>4. ASSUME NEW i \in 1 .. Len(x.answers) + 1, y.answers[i].kind = "file"
          PROVE  /\ y.answers[i].req \in 1 .. Len(x.asked)
                 /\ BodyOK(x.asked[y.answers[i].req], y.answers[i].body)
      <4>1. CASE i = Len(x.answers) + 1
        <5>1. y.answers[i] = a
          BY <1>2, <2>2, <4>1
        <5> QED
          BY <2>1, <2>a, <2>c, <3>3, <3>4, <5>1
      <4>2. CASE i \in 1 .. Len(x.answers)
        <5>1. y.answers[i] = x.answers[i]
          BY <1>2, <2>2, <4>2
        <5> QED
          BY <3>2, <3>4, <4>2, <5>1 DEF BodiesOK
      <4> QED
        BY <2>1, <3>4, <4>1, <4>2
    <3> QED
      BY <2>1, <2>2, <3>4 DEF BodiesOK
  <2>5. Done(y)
    BY <1>2, <2>1, <2>2, <2>3, <2>4, <2>b, <2>d DEF Done
  <2>6. ASSUME Patient, NEW z, z.asked = y.asked, z.answers = y.answers, z.stalled = y.stalled,
               z.part = y.part, z.pc \notin Gone
        PROVE  InOrder(x, z)
    <3>0. SamePart(x, z)
      BY <2>2, <2>6 DEF SamePart
    <3>1. CASE x.stalled
      BY <1>2, <2>2, <2>6, <3>0, <3>1 DEF InOrder, Spoils, Gone
    <3>2. CASE ~x.stalled /\ Len(x.answers) = x.at - 1
      <4>1. a.req = Len(x.answers) + 1 /\ Len(x.answers) < Len(x.asked) /\ Numbered(x)
        BY <1>2, <2>1, <2>4, <2>6, <2>c, <3>2
      <4>2. a \in Answer
        BY <1>2
      <4> QED
        BY <2>2, <2>6, <3>0, <4>1, <4>2 DEF InOrder, Answers, Gone
    <3>3. CASE ~x.stalled /\ x.part = "rest" /\ Len(x.answers) = x.at
      <4>1. a.req = Len(x.answers) /\ Len(x.answers) > 0 /\ Numbered(x)
        BY <1>2, <1>4, <2>1, <2>4, <2>6, <3>3
      <4>2. a \in Answer
        BY <1>2
      <4> QED
        BY <2>2, <2>6, <3>0, <3>3, <4>1, <4>2 DEF InOrder, AnswersAgain, Gone
    <3> QED
      BY <2>4, <2>6, <3>1, <3>2, <3>3
  <2> QED
    BY <2>2, <2>5, <2>6 DEF y
<1> QED
  BY <1>2, <1>3, <1>4

-----------------------------------------------------------------------------
\* The steps of an answer.

\* A timed-out send spoils the connection and nothing else.
LEMMA LateStep ==
  ASSUME NEW w, ConnOK(w), w.pc \in {"reply", "body"}, NEW late \in BOOLEAN
  PROVE  LET x == [w EXCEPT !.stalled = @ \/ late]
         IN /\ ConnOK(x) /\ x.pc = w.pc /\ x.asked = w.asked /\ x.answers = w.answers
            /\ x.at = w.at /\ x.cur = w.cur /\ x.got = w.got /\ x.last = w.last
            /\ x.body = w.body /\ x.part = w.part /\ x.read = w.read
            /\ ~late => x.stalled = w.stalled
            /\ late => x.stalled = TRUE /\ Done(x)
<1> DEFINE x == [w EXCEPT !.stalled = @ \/ late]
<1>1. w \in ConnType /\ PlacesOK(w) /\ w.stalled \in BOOLEAN
  BY DEF ConnOK, ConnType
<1>2. (w.stalled \/ late) \in BOOLEAN /\ (late => (w.stalled \/ late) = TRUE)
      /\ (~late => (w.stalled \/ late) = w.stalled)
  BY <1>1, Zenon
<1>3. /\ x \in ConnType /\ x.pc = w.pc /\ x.asked = w.asked /\ x.answers = w.answers /\ x.at = w.at
      /\ x.cur = w.cur /\ x.got = w.got /\ x.last = w.last /\ x.stalled = (w.stalled \/ late)
      /\ x.part = w.part
      /\ x.body = w.body /\ x.read = w.read /\ x.buf = w.buf /\ x.pos = w.pos /\ x.rest = w.rest
  BY <1>1, <1>2 DEF ConnType
<1> HIDE DEF x
<1>4. PlacesOK(x)
  BY <1>1, <1>3 DEF PlacesOK, Seen, Parsed
<1>5. Patient => OrderOK(x)
  BY <1>2, <1>3 DEF ConnOK, OrderOK, RestIsPipeline, Seen, Numbered
<1>6. late => Done(x)
  BY <1>2, <1>3, <1>4, <1>5 DEF Done, OrderOK
<1>7. ExactOK(x)
  <2>1. x.stalled = w.stalled \/ x.stalled = TRUE
    BY <1>2, <1>3, Zenon
  <2> QED
    BY <1>3, <2>1, SameBodies DEF ConnOK
<1> QED
  BY <1>2, <1>3, <1>4, <1>5, <1>6, <1>7 DEF ConnOK, x

\* The loop goes on behind an answer: from w, with x between.
LEMMA AnswerStep ==
  ASSUME NEW w, ConnOK(w), NEW x, ConnOK(x), x.pc = "reply", w.pc = x.pc,
         x.asked = w.asked, x.answers = w.answers, x.part = w.part,
         x.stalled = w.stalled \/ x.stalled = TRUE,
         NEW kind \in {"error", "404", "405", "file"},
         kind = "file" => x.cur.size = 0
  PROVE  LET z == Continue(Answered(x, kind))
         IN Fine(w, z) /\ z.pc \in {"close", "recv", "reply"}
<1> DEFINE y == Answered(x, kind)
           z == Continue(y)
<1>0. ~x.stalled => x.body = <<>> /\ x.read = 0
  BY DEF ConnOK, ExactOK, BufferOK
<1>a. x.cur \in Request /\ x.pc \in {"reply", "body"}
  BY DEF ConnOK, ConnType
<1>1. Done(y) /\ y.body = x.body /\ y.read = x.read
      /\ (Patient => \A v : /\ v.asked = y.asked /\ v.answers = y.answers
                            /\ v.stalled = y.stalled /\ v.part = y.part /\ v.pc \notin Gone
                            => InOrder(x, v))
  <2>1. kind = "file" /\ ~x.stalled /\ x.at > 0 => BodyOK(x.cur, x.body)
    BY <1>0, <1>a, TextStart
  <2> QED
    BY <1>a, <2>1, AnsweredStep, Zenon
<1>3. y.asked = x.asked /\ y.stalled = x.stalled /\ y.part = x.part
  BY DEF Answered, ConnOK, ConnType
<1>2. /\ ConnOK(z) /\ z.pc \in {"close", "recv", "reply"} /\ z.asked = y.asked
      /\ z.answers = y.answers /\ z.stalled = y.stalled /\ z.part = y.part
  BY <1>0, <1>1, <1>3, ContinueStep
<1> HIDE DEF y, z
<1>4. Patient => InOrder(x, z)
  BY <1>1, <1>2 DEF Gone
<1>5. ASSUME Patient
      PROVE  InOrder(w, z)
  <2>1. CASE x.stalled = w.stalled
    BY <1>4, <1>5, <2>1 DEF InOrder, Quiet, Spoils, Asks, Begins, Answers, AnswersAgain,
                            SamePart, Numbered
  <2>2. CASE x.stalled = TRUE
    BY <1>2, <1>3, <2>2 DEF InOrder, Spoils, SamePart, Gone
  <2> QED
    BY <2>1, <2>2
<1> QED
  BY <1>2, <1>5 DEF Fine, y, z

\* Sending a file changes the buffer only.
LEMMA BufferStep ==
  ASSUME NEW x, ConnOK(x), x.pc \in {"reply", "body"}, x.at > 0,
         NEW y \in ConnType, y.pc = "body", y.asked = x.asked, y.answers = x.answers,
         y.got = x.got, y.part = x.part, y.at = x.at, y.last = x.last, y.cur = x.cur,
         y.stalled = x.stalled \/ y.stalled = TRUE, ExactOK(y)
  PROVE  Fine(x, y)
<1>1. PlacesOK(x) /\ x.stalled \in BOOLEAN
  BY DEF ConnOK, ConnType
<1>2. PlacesOK(y)
  BY <1>1 DEF PlacesOK, Seen, Parsed
<1>3. Patient => OrderOK(y)
  BY <1>1 DEF ConnOK, OrderOK, RestIsPipeline, Seen, Numbered
<1>4. InOrder(x, y)
  BY <1>1 DEF InOrder, Quiet, Spoils, SamePart, Gone
<1> QED
  BY <1>2, <1>3, <1>4 DEF Fine, ConnOK

\* The next chunk is read, at place b of the file.
LEMMA FilledStep ==
  ASSUME NEW x, x \in ConnType, NEW b \in Nat, b < x.cur.size, NEW buf \in Buffers(x.cur, b)
  PROVE  LET y == Filled(x, buf)
         IN /\ y \in ConnType /\ y.pc = "body" /\ y.asked = x.asked /\ y.answers = x.answers
            /\ y.got = x.got /\ y.part = x.part /\ y.at = x.at /\ y.last = x.last
            /\ y.cur = x.cur /\ y.stalled = x.stalled /\ y.body = x.body
            /\ (~x.stalled => BodiesOK(x) /\ x.read = b /\ TextOK(x.cur, x.body, b)) => ExactOK(y)
<1> DEFINE m == x.read + Chunk(x.cur, x.read)
           l == Len(buf)
           y == Filled(x, buf)
<1>1. /\ x.cur \in Request /\ x.cur.size \in Nat /\ x.read \in Nat /\ x.body \in Seq(Int)
      /\ BufSize \in Nat
  BY WebAssumption DEF ConnType, Request
<1>2. Chunk(x.cur, b) \in 1 .. x.cur.size - b /\ buf \in Seq(Int)
  BY <1>1, BufferIsPiece DEF PieceOK
<1>3. m \in Nat /\ l \in Nat /\ "body" \in Pcs
  BY <1>1, <1>2 DEF Chunk, Pcs, Open, Counted
<1>4. y = [x EXCEPT !.pc = "body", !.read = m, !.buf = buf, !.pos = 0, !.rest = l]
  BY DEF Filled
<1>5. y \in ConnType
  <2> HIDE DEF m, l, y
  <2>1. 0 \in Int /\ l \in Int
    BY <1>3
  <2> QED
    BY <1>2, <1>3, <1>4, <2>1, ZenonT(40) DEF ConnType
<1>6. /\ y.pc = "body" /\ y.asked = x.asked /\ y.answers = x.answers
      /\ y.got = x.got /\ y.part = x.part /\ y.at = x.at /\ y.last = x.last /\ y.cur = x.cur
      /\ y.stalled = x.stalled /\ y.body = x.body
      /\ y.read = m /\ y.buf = buf /\ y.pos = 0 /\ y.rest = l
  <2> HIDE DEF m, l, y
  <2> QED
    BY <1>4 DEF ConnType
<1>7. ASSUME ~x.stalled => BodiesOK(x) /\ x.read = b /\ TextOK(x.cur, x.body, b)
      PROVE  ExactOK(y)
  <2> HIDE DEF y
  <2>1. ASSUME ~x.stalled
        PROVE  Buffered(y, b, x.body)
    <3>1. m = b + Chunk(x.cur, b)
      BY <1>7, <2>1
    <3>2. 0 \in 0 .. l /\ l - 0 = l /\ Len(x.body) + 0 = Len(x.body) /\ (1 .. 0) = {}
      BY <1>1, <1>3
    <3> HIDE DEF m
    <3> QED
      BY <1>6, <1>7, <2>1, <3>1, <3>2 DEF Buffered
  <2>2. ~x.stalled => BufferOK(y)
    BY <1>1, <1>6, <2>1 DEF BufferOK
  <2> HIDE DEF m, l
  <2> QED
    BY <1>6, <1>7, <2>2 DEF ExactOK, BodiesOK
<1> HIDE DEF m, l
<1> QED
  BY <1>5, <1>6, <1>7

LEMMA Joined ==
  ASSUME NEW u \in Seq(Int), NEW t \in Seq(Int)
  PROVE  /\ u \o t \in Seq(Int) /\ Len(u \o t) = Len(u) + Len(t)
         /\ \A i \in 1 .. Len(u) : (u \o t)[i] = u[i]
         /\ \A i \in 1 .. Len(t) : (u \o t)[Len(u) + i] = t[i]
<1>1. u \o t \in Seq(Int) /\ Len(u \o t) = Len(u) + Len(t)
  OBVIOUS
<1>2. \A i \in 1 .. Len(u) : (u \o t)[i] = u[i]
  OBVIOUS
<1>3. ASSUME NEW i \in 1 .. Len(t)
      PROVE  (u \o t)[Len(u) + i] = t[i]
  OBVIOUS
<1> QED
  BY <1>1, <1>2, <1>3

\* Bytes of the buffer are sent.
LEMMA SentStep ==
  ASSUME NEW x, x \in ConnType, NEW n \in Nat
  PROVE  LET y == Sent(x, n)
         IN /\ y \in ConnType /\ y.pc = x.pc /\ y.asked = x.asked /\ y.answers = x.answers
            /\ y.got = x.got /\ y.part = x.part /\ y.at = x.at /\ y.last = x.last
            /\ y.cur = x.cur /\ y.stalled = x.stalled /\ y.read = x.read /\ y.buf = x.buf
            /\ y.pos = x.pos + n /\ y.rest = x.rest - n
            /\ x.pc = "body" /\ n <= x.rest /\ ExactOK(x) => ExactOK(y)
<1> DEFINE t == [i \in 1..n |-> Byte(x, x.pos + i - 1)]
           v == IF x.stalled THEN x.body ELSE x.body \o t
<1>1. /\ x.buf \in Seq(Int) /\ x.pos \in Int /\ x.rest \in Int /\ x.body \in Seq(Int)
  BY DEF ConnType
<1>2. \A p \in Int : Byte(x, p) \in Int
  BY <1>1 DEF Byte, Stray
<1>3. t \in Seq(Int) /\ Len(t) = n
  <2>1. ASSUME NEW i \in 1..n
        PROVE  Byte(x, x.pos + i - 1) \in Int
    <3>1. x.pos + i - 1 \in Int
      BY <1>1
    <3> QED
      BY <1>2, <3>1
  <2>2. t \in [1..n -> Int]
    BY <2>1
  <2> QED
    BY <2>2
<1> HIDE DEF t
<1>4. v \in Seq(Int) /\ x.pos + n \in Int /\ x.rest - n \in Int
  BY <1>1, <1>3
<1>5. Sent(x, n) = [x EXCEPT !.body = v, !.pos = x.pos + n, !.rest = x.rest - n]
  BY DEF Sent, t
<1> HIDE DEF v
<1> DEFINE y == Sent(x, n)
<1>6. y \in ConnType
  BY <1>4, <1>5, ZenonT(40) DEF ConnType
<1>7. /\ y.pc = x.pc /\ y.asked = x.asked /\ y.answers = x.answers
      /\ y.got = x.got /\ y.part = x.part /\ y.at = x.at /\ y.last = x.last /\ y.cur = x.cur
      /\ y.stalled = x.stalled
      /\ y.read = x.read /\ y.buf = x.buf /\ y.pos = x.pos + n /\ y.rest = x.rest - n
      /\ y.body = v
  BY <1>5 DEF ConnType
<1> HIDE DEF y
<1>8. ASSUME x.pc = "body", n <= x.rest, ExactOK(x), ~x.stalled
      PROVE  BodiesOK(y) /\ BufferOK(y)
  <2>1. BodiesOK(x) /\ BufferOK(x)
    BY <1>8 DEF ExactOK
  <2>2. PICK b \in Nat, u \in Seq(Int) : Buffered(x, b, u)
    BY <1>8, <2>1 DEF BufferOK
  <2>3. /\ x.pos \in 0 .. Len(x.buf) /\ x.rest = Len(x.buf) - x.pos
        /\ Len(x.body) = Len(u) + x.pos
        /\ \A i \in 1 .. Len(u) : x.body[i] = u[i]
        /\ \A i \in 1 .. x.pos : x.body[Len(u) + i] = x.buf[i]
        /\ Len(u) \in Nat /\ Len(x.buf) \in Nat
    BY <1>1, <2>2 DEF Buffered
  <2>4. x.pos + n \in 0 .. Len(x.buf) /\ x.rest - n = Len(x.buf) - (x.pos + n)
    <3>1. \A p, m, k \in Int :
            p \in 0 .. m /\ k = m - p /\ n <= k => p + n \in 0 .. m /\ k - n = m - (p + n)
      OBVIOUS
    <3>2. /\ x.pos \in 0 .. Len(x.buf) /\ x.rest = Len(x.buf) - x.pos /\ n <= x.rest
          /\ x.pos \in Int /\ x.rest \in Int /\ Len(x.buf) \in Int
      BY <1>1, <1>8, <2>3
    <3> QED
      BY <3>1, <3>2
  <2>5. v = x.body \o t
    BY <1>8 DEF v
  <2>6. /\ Len(v) = Len(u) + (x.pos + n)
        /\ \A i \in 1 .. Len(x.body) : v[i] = x.body[i]
        /\ \A i \in 1 .. n : v[Len(x.body) + i] = t[i]
    <3>1. /\ Len(v) = Len(x.body) + n
          /\ \A i \in 1 .. Len(x.body) : v[i] = x.body[i]
          /\ \A i \in 1 .. n : v[Len(x.body) + i] = t[i]
      BY <1>1, <1>3, <2>5, Joined, ZenonT(40)
    <3> QED
      BY <2>3, <3>1
  <2>7. \A i \in 1 .. Len(u) : v[i] = u[i]
    BY <2>3, <2>6
  <2>8. ASSUME NEW i \in 1 .. x.pos + n
        PROVE  v[Len(u) + i] = x.buf[i]
    <3>1. CASE i <= x.pos
      <4>1. i \in 1 .. x.pos /\ Len(u) + i \in 1 .. Len(x.body)
        BY <2>3, <2>8, <3>1
      <4> QED
        BY <2>3, <2>6, <4>1
    <3>2. CASE i > x.pos
      <4>1. PICK k \in 1 .. n : k = i - x.pos
        BY <2>3, <2>8, <3>2, SMTT(20)
      <4>2. Len(u) + i = Len(x.body) + k
        BY <2>3, <2>8, <4>1
      <4>3. t[k] = Byte(x, x.pos + k - 1)
        BY <4>1 DEF t
      <4>4. x.pos + k - 1 \in 0 .. Len(x.buf) - 1 /\ (x.pos + k - 1) + 1 = i
        <5>1. \A p, l \in Int : p \in 0 .. l /\ p + n \in 0 .. l =>
                p + k - 1 \in 0 .. l - 1 /\ (p + k - 1) + 1 = p + k
          OBVIOUS
        <5>2. x.pos \in Int /\ Len(x.buf) \in Int /\ x.pos + k = i
          BY <2>3, <2>8, <4>1
        <5> QED
          BY <2>3, <2>4, <5>1, <5>2
      <4>5. Byte(x, x.pos + k - 1) = x.buf[i]
        BY <4>4 DEF Byte
      <4> QED
        BY <2>6, <4>1, <4>2, <4>3, <4>5
    <3> QED
      BY <2>3, <2>8, <3>1, <3>2
  <2>9. Buffered(y, b, u)
    BY <1>7, <2>2, <2>4, <2>6, <2>7, <2>8 DEF Buffered
  <2>10. BufferOK(y)
    BY <1>7, <1>8, <2>2, <2>9 DEF BufferOK
  <2> QED
    BY <1>7, <2>1, <2>10 DEF BodiesOK
<1>9. x.pc = "body" /\ n <= x.rest /\ ExactOK(x) => ExactOK(y)
  BY <1>7, <1>8 DEF ExactOK
<1> QED
  BY <1>6, <1>7, <1>9 DEF y

\* When the buffer has been sent, all that was read of the file has been.
LEMMA BufferSent ==
  ASSUME NEW x, x \in ConnType, x.pc = "body", x.rest = 0, BufferOK(x)
  PROVE  TextOK(x.cur, x.body, x.read) /\ x.read \in Nat /\ x.read <= x.cur.size
<1>1. PICK b \in Nat, u \in Seq(Int) : Buffered(x, b, u)
  BY DEF BufferOK
<1>2. x.cur \in Request /\ x.body \in Seq(Int) /\ x.buf \in Seq(Int) /\ x.cur.size \in Nat
      /\ x.pos \in Int
  BY DEF ConnType, Request
<1>3. x.pos = Len(x.buf)
  BY <1>1, <1>2 DEF Buffered
<1>4. Chunk(x.cur, b) \in 1 .. x.cur.size - b
  BY <1>1, <1>2, BufferIsPiece DEF Buffered
<1>5. /\ b < x.cur.size /\ TextOK(x.cur, u, b) /\ x.buf \in Buffers(x.cur, b)
      /\ Len(x.body) = Len(u) + Len(x.buf)
      /\ \A i \in 1 .. Len(u) : x.body[i] = u[i]
      /\ \A i \in 1 .. Len(x.buf) : x.body[Len(u) + i] = x.buf[i]
      /\ x.read = b + Chunk(x.cur, b)
  BY <1>1, <1>3 DEF Buffered
<1>6. TextOK(x.cur, x.body, b + Chunk(x.cur, b))
  <2>1. ASSUME NEW r \in Request, NEW v \in Seq(Int), NEW w \in Buffers(r, b),
               b < r.size, TextOK(r, u, b), Len(v) = Len(u) + Len(w),
               \A i \in 1 .. Len(u) : v[i] = u[i],
               \A i \in 1 .. Len(w) : v[Len(u) + i] = w[i]
        PROVE  TextOK(r, v, b + Chunk(r, b))
    BY <2>1, TextNext
  <2> QED
    BY <1>2, <1>5, <2>1
<1> QED
  BY <1>2, <1>4, <1>5, <1>6

\* The text of the whole file is the body of its answer.
LEMMA TextWhole ==
  ASSUME NEW r \in Request, NEW t, TextOK(r, t, r.size)
  PROVE  BodyOK(r, t)
<1>1. CASE r.size > 0
  BY <1>1 DEF TextOK, BodyOK
<1>2. CASE r.size = 0
  <2>1. t = <<>> \/ r.method # "POST" \/ t = Posted(r) \/ ~(r.size < BufSize)
    BY DEF TextOK
  <2>2. BodyOK(r, <<>>)
    BY <1>2, TextStart
  <2> QED
    BY <1>2, <2>1, <2>2 DEF TextOK, BodyOK
<1> QED
  BY <1>1, <1>2 DEF Request

LEMMA EmptiedStep ==
  ASSUME NEW x, Done(x)
  PROVE  LET y == Emptied(x)
         IN /\ Done(y) /\ y.asked = x.asked /\ y.answers = x.answers /\ y.stalled = x.stalled
            /\ y.part = x.part /\ y.body = <<>> /\ y.read = 0
<1> DEFINE y == Emptied(x)
<1>1. x \in ConnType
  BY DEF Done
<1>2. y = [x EXCEPT !.body = <<>>, !.read = 0, !.buf = <<>>, !.pos = 0, !.rest = 0]
  BY DEF Emptied
<1>3. <<>> \in Seq(Int) /\ 0 \in Int /\ 0 \in Nat
  OBVIOUS
<1>4. y \in ConnType
  BY <1>1, <1>2, <1>3, ZenonT(40) DEF ConnType
<1>5. /\ y.pc = x.pc /\ y.asked = x.asked /\ y.answers = x.answers /\ y.got = x.got
      /\ y.part = x.part /\ y.at = x.at /\ y.last = x.last /\ y.cur = x.cur
      /\ y.stalled = x.stalled /\ y.body = <<>> /\ y.read = 0
  BY <1>1, <1>2 DEF ConnType
<1> HIDE DEF y
<1>6. Done(y)
  BY <1>4, <1>5 DEF Done, PlacesOK, RestIsPipeline, BodiesOK, Seen, Parsed, Numbered
<1> QED
  BY <1>5, <1>6 DEF y

-----------------------------------------------------------------------------
\* The actions.

\* A step of the connection c that leaves it with the record y, keeps what is to
\* be shown and counts the thread.
Steps(c, y) ==
  /\ Fine(conn[c], y)
  /\ conn' = [conn EXCEPT ![c] = y]
  /\ Running
  /\ main' \in {"test", "tested", "accept", "wait"}
  /\ done' \in BOOLEAN
  /\ stalls' \in 0..MaxStalls
  /\ \/ /\ conn[c].pc \in Counted <=> y.pc \in Counted
        /\ thread_count' = thread_count
     \/ /\ conn[c].pc \notin Counted /\ y.pc \in Counted
        /\ thread_count' = thread_count + 1
     \/ /\ conn[c].pc \in Counted /\ y.pc \notin Counted
        /\ thread_count' = thread_count - 1

LEMMA StepsInv ==
  ASSUME WebInv, NEW c \in Conns, NEW y, Steps(c, y)
  PROVE  WebInv'
  BY ConnStep DEF Steps, Fine

\* What the invariant says of the connection that steps.
LEMMA Stepping ==
  ASSUME WebInv, NEW c \in Conns
  PROVE  /\ ConnOK(conn[c]) /\ conn[c] \in ConnType /\ PlacesOK(conn[c])
         /\ conn[c].pc \in Open => Running /\ main \in {"test", "tested", "accept", "wait"}
         /\ done \in BOOLEAN /\ stalls \in 0..MaxStalls
         /\ conn = [conn EXCEPT ![c] = conn[c]]
  BY DEF WebInv, ConnOK, Running

LEMMA MainSteps ==
  ASSUME WebInv, NEW c \in Conns, accept(c) \/ (connect(c) /\ UNCHANGED <<thread_count, files, stalls>>)
  PROVE  \E y : Steps(c, y)
<1> DEFINE x == conn[c]
           y(pc) == [x EXCEPT !.pc = pc]
<1>1. x \in ConnType /\ ConnOK(x) /\ done \in BOOLEAN /\ stalls \in 0..MaxStalls
  BY Stepping
<1>2. \A pc \in Pcs : y(pc).pc = pc
  BY <1>1 DEF ConnType
<1>3. CASE accept(c)
  <2>1. Fine(x, y("created"))
    BY <1>1, <1>3, PcStep DEF accept, Open
  <2>2. conn' = [conn EXCEPT ![c] = y("created")]
    BY <1>3 DEF accept
  <2> QED
    BY <1>1, <1>2, <1>3, <2>1, <2>2 DEF accept, Steps, Running, Pcs, Open, Counted
<1>4. CASE connect(c) /\ UNCHANGED <<thread_count, files, stalls>>
  <2>1. Fine(x, y("backlog"))
    BY <1>1, <1>4, PcStep DEF connect
  <2> QED
    BY <1>1, <1>2, <1>4, <2>1 DEF connect, Goes, Steps, Running, Pcs, Open, Counted
<1> QED
  BY <1>3, <1>4

LEMMA RecvSteps ==
  ASSUME WebInv, NEW c \in Conns,
         \/ threadStarts(c) \/ recvRest(c) \/ recvNothing(c) \/ recvFailed(c) \/ giveUp(c)
         \/ threadEnds(c)
         \/ \E n \in 0 .. Len(conn[c].asked) - conn[c].got, part \in Parts \cup {"none"} :
              recvRequests(c, n, part)
  PROVE  \E y : Steps(c, y)
<1> DEFINE x == conn[c]
<1>1. /\ x \in ConnType /\ ConnOK(x) /\ done \in BOOLEAN /\ stalls \in 0..MaxStalls
      /\ x.pc \in Open => Running /\ main \in {"test", "tested", "accept", "wait"}
  BY Stepping
<1>2. CASE threadStarts(c)
  <2> DEFINE y == [x EXCEPT !.pc = "recv"]
  <2>1. Fine(x, y) /\ y.pc = "recv"
    BY <1>1, <1>2, PcStep DEF threadStarts, Open, ConnType
  <2> HIDE DEF y
  <2>2. conn' = [conn EXCEPT ![c] = y]
    BY <1>2 DEF threadStarts, Goes, y
  <2> QED
    BY <1>1, <1>2, <2>1, <2>2 DEF threadStarts, Goes, Steps, Open, Counted
<1>3. CASE recvNothing(c)
  <2> DEFINE y == [x EXCEPT !.pc = "reply", !.at = 0, !.last = 0, !.cur = NoRequest]
  <2>1. Fine(x, y) /\ y.pc = "reply"
    BY <1>1, <1>3, RecvNothingStep DEF recvNothing, ConnType
  <2> HIDE DEF y
  <2>2. conn' = [conn EXCEPT ![c] = y]
    BY <1>3 DEF recvNothing, Goes, y
  <2> QED
    BY <1>1, <1>3, <2>1, <2>2 DEF recvNothing, Goes, Steps, Open, Counted
<1>4. CASE recvFailed(c)
  <2> DEFINE y == [x EXCEPT !.pc = "giveup"]
  <2>1. Fine(x, y) /\ y.pc = "giveup"
    BY <1>1, <1>4, PcStep DEF recvFailed, Open, Counted, ConnType
  <2> HIDE DEF y
  <2>2. conn' = [conn EXCEPT ![c] = y]
    BY <1>4 DEF recvFailed, Goes, y
  <2> QED
    BY <1>1, <1>4, <2>1, <2>2 DEF recvFailed, Goes, Steps, Open, Counted
<1>5. CASE giveUp(c)
  <2> DEFINE y == Over(x, "ended")
  <2>1. Fine(x, y) /\ y.pc = "ended"
    BY <1>1, OverStep DEF Gone
  <2> HIDE DEF y
  <2>2. conn' = [conn EXCEPT ![c] = y]
    BY <1>5 DEF giveUp, Goes, y
  <2> QED
    BY <1>1, <1>5, <2>1, <2>2 DEF giveUp, Goes, Steps, Open, Counted
<1>6. CASE threadEnds(c)
  <2> DEFINE y == Over(x, "ended")
  <2>1. Fine(x, y) /\ y.pc = "ended"
    BY <1>1, OverStep DEF Gone
  <2> HIDE DEF y
  <2>2. conn' = [conn EXCEPT ![c] = y]
    BY <1>6 DEF threadEnds, Goes, y
  <2> QED
    BY <1>1, <1>6, <2>1, <2>2 DEF threadEnds, Goes, Steps, Open, Counted
<1>7. ASSUME NEW n \in 0 .. Len(x.asked) - x.got, NEW part \in Parts \cup {"none"},
             recvRequests(c, n, part)
      PROVE  \E y : Steps(c, y)
  <2> DEFINE y == recvParsed(x, n, part)
  <2>1. n \in Nat
    BY <1>1 DEF ConnType
  <2>2. /\ x.pc = "recv" /\ x.part = "none" /\ (n > 0 \/ part \in Parts \ {"unseen"})
        /\ x.got + n + (IF part = "none" THEN 0 ELSE 1) <= Len(x.asked)
        /\ Goes(c, y) /\ UNCHANGED <<thread_count, files, stalls>>
    BY <1>7, Zenon DEF recvRequests
  <2> HIDE DEF y, x
  <2>3. Fine(x, y) /\ y.pc = "reply"
    BY <1>1, <2>1, <2>2, RecvStep DEF y
  <2> QED
    BY <1>1, <2>2, <2>3 DEF Goes, Steps, Open, Counted, x
<1>8. CASE recvRest(c)
  <2> DEFINE w == [x EXCEPT !.part = "rest"]
             y == [w EXCEPT !.pc = "reply", !.at = x.got + 1, !.last = x.got + 1,
                            !.cur = Parsed(w, x.got + 1)]
  <2>1. /\ x.pc = "recv" /\ x.part # "none"
        /\ Goes(c, y) /\ UNCHANGED <<thread_count, files, stalls>>
    BY <1>8, Zenon DEF recvRest
  <2>2. Fine(x, y) /\ y.pc = "reply"
    <3> HIDE DEF x
    <3> QED
      BY <1>1, <2>1, RecvRestStep
  <2> HIDE DEF y
  <2> QED
    BY <1>1, <2>1, <2>2 DEF Goes, Steps, Open, Counted
<1> QED
  BY <1>2, <1>3, <1>4, <1>5, <1>6, <1>7, <1>8

LEMMA ReplySteps ==
  ASSUME WebInv, NEW c \in Conns, NEW late \in BOOLEAN, reply(c, late)
  PROVE  \E y : Steps(c, y)
<1> DEFINE w == conn[c]
           x == [w EXCEPT !.stalled = @ \/ late]
<1>1. /\ w \in ConnType /\ ConnOK(w) /\ done \in BOOLEAN /\ stalls \in 0..MaxStalls
      /\ w.pc \in Open => Running /\ main \in {"test", "tested", "accept", "wait"}
  BY Stepping
<1>2. w.pc = "reply"
  BY <1>1 DEF reply, ConnType
<1>3. /\ ConnOK(x) /\ x.pc = w.pc /\ x.asked = w.asked /\ x.answers = w.answers
      /\ x.at = w.at /\ x.cur = w.cur /\ x.got = w.got /\ x.last = w.last
      /\ x.body = w.body /\ x.part = w.part /\ x.read = w.read
      /\ ~late => x.stalled = w.stalled
      /\ late => x.stalled = TRUE /\ Done(x)
  <2>1. w.pc \in {"reply", "body"}
    BY <1>2
  <2>2. ConnOK(w)
    BY <1>1
  <2> HIDE DEF w
  <2> QED
    BY <2>1, <2>2, LateStep, Zenon
<1>4. stalls' \in 0..MaxStalls
  BY <1>1, WebAssumption DEF reply
<1>5. UNCHANGED thread_count
  BY DEF reply
<1>6. ASSUME NEW y, Goes(c, y), Fine(w, y), y.pc \in {"close", "recv", "reply", "body"}
      PROVE  Steps(c, y)
  BY <1>1, <1>2, <1>4, <1>5, <1>6 DEF Steps, Goes, Open, Counted
<1>7. ASSUME NEW kind \in {"error", "404", "405", "file"}, kind = "file" => x.cur.size = 0
      PROVE  LET z == Continue(Answered(x, kind))
             IN Fine(w, z) /\ z.pc \in {"close", "recv", "reply"}
  <2>1. x.stalled = w.stalled \/ x.stalled = TRUE
    BY <1>3
  <2> HIDE DEF x, w
  <2> QED
    BY <1>1, <1>2, <1>3, <1>7, <2>1, AnswerStep
<1>8. ASSUME NEW kind \in {"error", "404", "405"}
      PROVE  LET z == Message(x, kind, late)
             IN Fine(w, z) /\ z.pc \in {"close", "recv", "reply"}
  <2>1. CASE ~late
    BY <1>7, <1>8, <2>1 DEF Message
  <2>2. CASE late
    <3> DEFINE z == Continue(x)
    <3>1. /\ ConnOK(z) /\ z.pc \in {"close", "recv", "reply"}
          /\ z.asked = x.asked /\ z.answers = x.answers /\ z.stalled = x.stalled
          /\ z.part = x.part
      BY <1>3, <2>2, ContinueStep
    <3>2. Message(x, kind, late) = z
      BY <2>2 DEF Message
    <3> HIDE DEF z, x, w
    <3>3. Spoils(w, z)
      BY <1>2, <1>3, <2>2, <3>1 DEF Spoils, SamePart, Gone
    <3> QED
      BY <3>1, <3>2, <3>3 DEF Fine, InOrder
  <2> QED
    BY <2>1, <2>2
<1>9. CASE \/ \E kind \in {"error", "404", "405"} : Goes(c, Message(x, kind, late))
           \/ x.cur.size = 0 /\ Goes(c, Continue(Answered(x, "file")))
  <2> HIDE DEF x, w
  <2> QED
    BY <1>6, <1>7, <1>8, <1>9
<1>10. ASSUME ~x.cur.error, x.cur.size > 0, NEW buf \in Buffers(x.cur, 0), Goes(c, Filled(x, buf))
       PROVE  \E y : Steps(c, y)
  <2> DEFINE y == Filled(x, buf)
  <2>1. x \in ConnType
    BY <1>3 DEF ConnOK
  <2>2. x.at > 0
    BY <1>2, <1>3, <1>10, NoRequestType DEF ConnOK, PlacesOK, ConnType
  <2>3. Goes(c, y)
    BY <1>10
  <2>4. buf \in Buffers(x.cur, 0) /\ 0 < x.cur.size
    BY <1>10
  <2> HIDE DEF x, w
  <2>5. ~x.stalled => BodiesOK(x) /\ x.read = 0 /\ TextOK(x.cur, x.body, 0)
    <3>1. x.cur \in Request
      BY <2>1 DEF ConnType
    <3>2. TextOK(x.cur, <<>>, 0)
      BY <3>1, TextStart
    <3> QED
      BY <1>2, <1>3, <3>2 DEF ConnOK, ExactOK, BufferOK
  <2>6. /\ y \in ConnType /\ y.pc = "body" /\ y.asked = x.asked /\ y.answers = x.answers
        /\ y.got = x.got /\ y.part = x.part /\ y.at = x.at /\ y.last = x.last
        /\ y.cur = x.cur /\ y.stalled = x.stalled /\ ExactOK(y)
    BY <2>1, <2>4, <2>5, FilledStep
  <2> HIDE DEF y
  <2>7. Fine(w, y)
    BY <1>1, <1>2, <1>3, <2>2, <2>6, BufferStep
  <2> QED
    BY <1>6, <2>3, <2>6, <2>7
<1>11. \/ \E kind \in {"error", "404", "405"} : Goes(c, Message(x, kind, late))
       \/ x.cur.size = 0 /\ Goes(c, Continue(Answered(x, "file")))
       \/ /\ ~x.cur.error /\ x.cur.size > 0
          /\ \E buf \in Buffers(x.cur, 0) : Goes(c, Filled(x, buf))
  BY Zenon DEF reply
<1> QED
  BY <1>9, <1>10, <1>11

LEMMA SendSteps ==
  ASSUME WebInv, NEW c \in Conns,
         sendBodyLate(c) \/ \E n \in 1..conn[c].rest : sendBody(c, n)
  PROVE  \E y : Steps(c, y)
<1> DEFINE x == conn[c]
<1>1. /\ x \in ConnType /\ ConnOK(x) /\ done \in BOOLEAN /\ stalls \in 0..MaxStalls
      /\ x.pc \in Open => Running /\ main \in {"test", "tested", "accept", "wait"}
      /\ PlacesOK(x)
  BY Stepping
<1>2. x.pc = "body" /\ UNCHANGED thread_count
  BY DEF sendBody, sendBodyLate
<1>3. x.at > 0
  BY <1>1, <1>2 DEF PlacesOK
<1>4. stalls' \in 0..MaxStalls
  BY <1>1, WebAssumption DEF sendBody, sendBodyLate
<1>5. ASSUME NEW y, Goes(c, y), Fine(x, y), y.pc \in {"close", "recv", "reply", "body"}
      PROVE  Steps(c, y)
  BY <1>1, <1>2, <1>4, <1>5 DEF Steps, Goes, Open, Counted
<1>6. CASE sendBodyLate(c)
  <2> DEFINE y == [x EXCEPT !.pos = x.pos - 1, !.rest = x.rest + 1, !.body = <<>>, !.stalled = TRUE]
  <2>1. x.pos - 1 \in Int /\ x.rest + 1 \in Int /\ <<>> \in Seq(Int)
    <3>1. x.pos \in Int /\ x.rest \in Int
      BY <1>1 DEF ConnType
    <3> QED
      BY <3>1
  <2>2. y \in ConnType
    BY <1>1, <2>1 DEF ConnType
  <2>3. /\ y.pc = x.pc /\ y.asked = x.asked /\ y.answers = x.answers /\ y.got = x.got
        /\ y.part = x.part /\ y.at = x.at /\ y.last = x.last /\ y.cur = x.cur
        /\ y.stalled = TRUE
    BY <1>1 DEF ConnType
  <2>4. Goes(c, y)
    BY <1>1, <1>6 DEF sendBodyLate, ConnType
  <2> HIDE DEF x, y
  <2>a. ExactOK(y)
    BY <2>3 DEF ExactOK
  <2>5. Fine(x, y)
    BY <1>1, <1>2, <1>3, <2>2, <2>3, <2>a, BufferStep
  <2> QED
    BY <1>2, <1>5, <2>3, <2>4, <2>5
<1>7. ASSUME NEW n \in 1..x.rest, sendBody(c, n)
      PROVE  \E y : Steps(c, y)
  <2> DEFINE y == Sent(x, n)
  <2>1. n \in Nat /\ n <= x.rest
    BY <1>1 DEF ConnType
  <2>2. /\ y \in ConnType /\ y.pc = x.pc /\ y.asked = x.asked /\ y.answers = x.answers
        /\ y.got = x.got /\ y.part = x.part /\ y.at = x.at /\ y.last = x.last
        /\ y.cur = x.cur /\ y.stalled = x.stalled /\ y.read = x.read
        /\ y.rest = x.rest - n /\ ExactOK(y)
    <3>1. ExactOK(x)
      BY <1>1 DEF ConnOK
    <3> QED
      BY <1>1, <1>2, <2>1, <3>1, SentStep
  <2>3. \/ Goes(c, y)
        \/ /\ n = x.rest /\ x.read < x.cur.size
           /\ \E buf \in Buffers(x.cur, x.read) : Goes(c, Filled(y, buf))
        \/ /\ n = x.rest /\ x.read >= x.cur.size
           /\ Goes(c, Continue(Emptied(Answered(y, "file"))))
    BY <1>7, Zenon DEF sendBody
  <2> HIDE DEF x, y
  <2>4. Fine(x, y)
    BY <1>1, <1>2, <1>3, <2>2, BufferStep
  <2>5. ConnOK(y) /\ y.pc = "body" /\ y.cur \in Request /\ y.cur.size \in Nat /\ y.read \in Nat
    BY <1>2, <2>2, <2>4 DEF Fine, ConnType, Request
  \* The buffer has been sent to its end.
  <2>6. ASSUME n = x.rest, ~y.stalled
        PROVE  BodiesOK(y) /\ TextOK(y.cur, y.body, y.read) /\ y.read <= y.cur.size
    <3>1. y.rest = 0
      BY <2>1, <2>2, <2>6
    <3>2. BodiesOK(y) /\ BufferOK(y)
      BY <2>2, <2>6 DEF ExactOK
    <3> QED
      BY <2>2, <2>5, <3>1, <3>2, BufferSent
  <2>7. CASE Goes(c, y)
    BY <1>2, <1>5, <2>2, <2>4, <2>7
  <2>8. ASSUME n = x.rest, x.read < x.cur.size, NEW buf \in Buffers(x.cur, x.read),
               Goes(c, Filled(y, buf))
        PROVE  \E v : Steps(c, v)
    <3> DEFINE z == Filled(y, buf)
    <3>1. /\ y.read \in Nat /\ y.read < y.cur.size /\ buf \in Buffers(y.cur, y.read)
          /\ ~y.stalled => BodiesOK(y) /\ y.read = y.read /\ TextOK(y.cur, y.body, y.read)
      BY <2>2, <2>5, <2>6, <2>8
    <3>2. /\ z \in ConnType /\ z.pc = "body" /\ z.asked = y.asked /\ z.answers = y.answers
          /\ z.got = y.got /\ z.part = y.part /\ z.at = y.at /\ z.last = y.last
          /\ z.cur = y.cur /\ z.stalled = y.stalled /\ ExactOK(z)
      BY <2>2, <3>1, FilledStep
    <3>3. Goes(c, z)
      BY <2>8
    <3> HIDE DEF z
    <3>4. Fine(x, z)
      BY <1>1, <1>2, <1>3, <2>2, <3>2, BufferStep
    <3> QED
      BY <1>5, <3>2, <3>3, <3>4
  <2>9. CASE /\ n = x.rest /\ x.read >= x.cur.size
             /\ Goes(c, Continue(Emptied(Answered(y, "file"))))
    <3> DEFINE a == Answered(y, "file")
               e == Emptied(a)
               z == Continue(e)
    <3>1. ~y.stalled => BodyOK(y.cur, y.body)
      <4>1. ASSUME ~y.stalled
            PROVE  BodyOK(y.cur, y.body)
        <5>1. y.read = y.cur.size /\ TextOK(y.cur, y.body, y.read)
          BY <2>2, <2>5, <2>6, <2>9, <4>1
        <5> QED
          BY <2>5, <5>1, TextWhole
      <4> QED
        BY <4>1
    <3>2. Done(a) /\ (Patient => \A v : /\ v.asked = a.asked /\ v.answers = a.answers
                                        /\ v.stalled = a.stalled /\ v.part = a.part
                                        /\ v.pc \notin Gone
                                        => InOrder(y, v))
      BY <2>5, <3>1, AnsweredStep
    <3>3. /\ Done(e) /\ e.asked = a.asked /\ e.answers = a.answers /\ e.stalled = a.stalled
          /\ e.part = a.part /\ e.body = <<>> /\ e.read = 0
      BY <3>2, EmptiedStep
    <3>4. /\ ConnOK(z) /\ z.pc \in {"close", "recv", "reply"}
          /\ z.asked = e.asked /\ z.answers = e.answers /\ z.stalled = e.stalled
          /\ z.part = e.part
      BY <3>3, ContinueStep
    <3>5. Goes(c, z)
      BY <2>9
    <3> HIDE DEF z, e, a
    <3>6. Patient => InOrder(y, z)
      BY <3>2, <3>3, <3>4 DEF Gone
    <3>7. Patient => InOrder(x, z)
      BY <2>2, <3>6 DEF InOrder, Quiet, Spoils, Asks, Begins, Answers, AnswersAgain, SamePart,
                        Numbered
    <3> QED
      BY <1>5, <3>4, <3>5, <3>7 DEF Fine
  <2> QED
    BY <2>3, <2>7, <2>8, <2>9
<1> QED
  BY <1>6, <1>7

LEMMA ClientSteps ==
  ASSUME WebInv, NEW c \in Conns, UNCHANGED <<thread_count, files, stalls>>,
         hangUp(c) \/ \E r \in Wants[c] : ask(c, r)
  PROVE  \E y : Steps(c, y)
<1> DEFINE x == conn[c]
<1>1. /\ x \in ConnType /\ ConnOK(x) /\ done \in BOOLEAN /\ stalls \in 0..MaxStalls
      /\ x.pc \in Open => Running /\ main \in {"test", "tested", "accept", "wait"}
      /\ PlacesOK(x)
  BY Stepping
<1>2. x.pc \in Counted
  BY DEF hangUp, ask
<1>3. ASSUME NEW y, Goes(c, y), Fine(x, y), y.pc = x.pc
      PROVE  Steps(c, y)
  BY <1>1, <1>2, <1>3 DEF Steps, Goes, Open, Counted
<1>4. ASSUME NEW peer \in {"closed", "reset"}, Goes(c, [x EXCEPT !.peer = peer])
      PROVE  \E y : Steps(c, y)
  <2> DEFINE y == [x EXCEPT !.peer = peer]
  <2>1. y \in ConnType
    BY <1>1 DEF ConnType
  <2>2. /\ y.pc = x.pc /\ y.asked = x.asked /\ y.answers = x.answers /\ y.got = x.got
        /\ y.part = x.part /\ y.at = x.at /\ y.last = x.last /\ y.cur = x.cur
        /\ y.stalled = x.stalled /\ y.body = x.body /\ y.read = x.read /\ y.buf = x.buf
        /\ y.pos = x.pos /\ y.rest = x.rest
    BY <1>1 DEF ConnType
  <2>3. Goes(c, y)
    BY <1>4
  <2> HIDE DEF x, y
  <2>4. PlacesOK(y) /\ (Patient => OrderOK(y))
    BY <1>1, <2>2 DEF ConnOK, PlacesOK, OrderOK, RestIsPipeline, Seen, Parsed, Numbered
  <2>5. Quiet(x, y)
    BY <2>2 DEF Quiet, SamePart
  <2>6. ExactOK(y)
    BY <1>1, <2>2, SameBodies DEF ConnOK
  <2> QED
    BY <1>3, <2>1, <2>2, <2>3, <2>4, <2>5, <2>6 DEF Fine, ConnOK, InOrder
<1>5. ASSUME NEW r \in Wants[c], ask(c, r)
      PROVE  \E y : Steps(c, y)
  <2> DEFINE s == Append(x.asked, r)
             y == [x EXCEPT !.asked = s]
  <2>1. r \in Request /\ x.asked \in Seq(Request) /\ x.answers \in Seq(Answer)
        /\ x.at \in Nat /\ x.last \in Nat /\ x.got \in Nat
    BY <1>1, WebAssumption DEF ConnType
  <2>2. /\ s \in Seq(Request) /\ Len(s) = Len(x.asked) + 1 /\ s[Len(x.asked) + 1] = r
        /\ \A k \in 1 .. Len(x.asked) : s[k] = x.asked[k]
    BY <2>1
  <2>3. y \in ConnType
    BY <1>1, <2>2 DEF ConnType
  <2>4. /\ y.pc = x.pc /\ y.asked = s /\ y.answers = x.answers /\ y.got = x.got
        /\ y.part = x.part /\ y.at = x.at /\ y.last = x.last /\ y.cur = x.cur
        /\ y.stalled = x.stalled /\ y.body = x.body /\ y.read = x.read /\ y.buf = x.buf
        /\ y.pos = x.pos /\ y.rest = x.rest
    BY <1>1 DEF ConnType
  <2>5. /\ Goes(c, y)
        /\ Patient => \/ Len(x.answers) = Len(x.asked)
                      \/ Len(x.asked) > 0 /\ Chained(x.asked[Len(x.asked)], r)
    BY <1>5, Zenon DEF ask
  <2> HIDE DEF x, y, s
  <2>6. PlacesOK(y)
    <3>1. Seen(y) = Seen(x) /\ Seen(x) \in Nat
      BY <2>1, <2>4 DEF Seen
    <3>2. /\ x.at <= x.last /\ x.last <= Seen(x) /\ Seen(x) <= Len(x.asked)
          /\ x.got + (IF x.part = "none" THEN 0 ELSE 1) <= Len(x.asked)
          /\ Len(x.asked) \in Nat
      BY <1>1, <2>1 DEF PlacesOK, Seen
    <3>3. x.got + (IF x.part = "none" THEN 0 ELSE 1) <= Len(s)
      BY <2>1, <2>2, <3>2
    <3>4. ASSUME x.at > 0
          PROVE  Parsed(y, x.at) = Parsed(x, x.at)
      <4>1. x.at \in 1 .. Len(x.asked)
        BY <2>1, <3>1, <3>2, <3>4
      <4>2. s[x.at] = x.asked[x.at]
        BY <2>2, <4>1
      <4> QED
        BY <2>4, <4>2 DEF Parsed
    <3>5. x.pc \notin {"none", "backlog", "created"}
      BY <1>2 DEF Counted
    <3> QED
      BY <1>1, <2>4, <3>1, <3>2, <3>3, <3>4, <3>5 DEF PlacesOK
  <2>7. ASSUME Patient
        PROVE  RestIsPipeline(y)
    <3>1. Len(x.asked) \in Nat /\ Len(x.answers) \in Nat
      BY <2>1
    <3>2. RestIsPipeline(x)
      BY <1>1, <2>7 DEF ConnOK, OrderOK
    <3>3. ASSUME NEW k \in Len(x.answers) + 1 .. Len(s) - 1
          PROVE  Chained(s[k], s[k + 1])
      <4>1. CASE k < Len(x.asked)
        BY <2>2, <3>1, <3>2, <3>3, <4>1 DEF RestIsPipeline
      <4>2. CASE k = Len(x.asked)
        BY <2>2, <2>5, <2>7, <3>1, <3>3, <4>2
      <4> QED
        BY <2>2, <3>1, <3>3, <4>1, <4>2
    <3> QED
      BY <2>4, <3>3 DEF RestIsPipeline
  <2>8. Patient => OrderOK(y)
    BY <1>1, <2>4, <2>7 DEF ConnOK, OrderOK, Seen, Numbered
  <2>9. Asks(x, y)
    BY <1>2, <2>2, <2>4 DEF Asks, SamePart, Counted, Gone
  <2>10. ASSUME ~x.stalled
         PROVE  BodiesOK(y) /\ BufferOK(y)
    <3>1. BodiesOK(x) /\ BufferOK(x)
      BY <1>1, <2>10 DEF ConnOK, ExactOK
    <3>2. 1 .. Len(x.asked) \subseteq 1 .. Len(s)
      BY <2>1, <2>2
    <3>3. BodiesOK(y)
      <4>1. ASSUME NEW i \in 1 .. Len(x.answers), x.answers[i].kind = "file"
            PROVE  /\ x.answers[i].req \in 1 .. Len(s)
                   /\ BodyOK(s[x.answers[i].req], x.answers[i].body)
        <5> DEFINE q == x.answers[i].req
        <5>1. q \in 1 .. Len(x.asked) /\ BodyOK(x.asked[q], x.answers[i].body)
          BY <3>1, <4>1 DEF BodiesOK
        <5> HIDE DEF q
        <5>2. s[q] = x.asked[q] /\ q \in 1 .. Len(s)
          BY <2>2, <3>2, <5>1
        <5> QED
          BY <5>1, <5>2 DEF q
      <4> QED
        BY <2>4, <4>1 DEF BodiesOK
    <3>4. BufferOK(y)
      BY <2>4, <3>1 DEF BufferOK, Buffered
    <3> QED
      BY <3>3, <3>4
  <2>11. ExactOK(y)
    BY <2>4, <2>10 DEF ExactOK
  <2> QED
    BY <1>3, <2>3, <2>4, <2>5, <2>6, <2>8, <2>9, <2>11 DEF Fine, ConnOK, InOrder
<1> QED
  BY <1>4, <1>5 DEF hangUp

\* What the end of the process, or of the listening socket, leaves.
LEMMA CutOffStep ==
  ASSUME WebInv, NEW cs, CutOff(cs)
  PROVE  /\ conn' \in [Conns -> ConnType]
         /\ \A d \in Conns :
              /\ ConnOK(conn[d])' /\ Quiet(conn[d], conn'[d])
              /\ IF d \in cs /\ conn[d].pc \in Open
                 THEN conn'[d].pc = "cut" ELSE conn'[d].pc = conn[d].pc
<1>1. conn' = [d \in Conns |-> IF d \in cs /\ conn[d].pc \in Open
                               THEN Over(conn[d], "cut") ELSE conn[d]]
  BY DEF CutOff
<1>2. ASSUME NEW d \in Conns
      PROVE  /\ ConnOK(conn'[d]) /\ Quiet(conn[d], conn'[d])
             /\ IF d \in cs /\ conn[d].pc \in Open
                THEN conn'[d].pc = "cut" ELSE conn'[d].pc = conn[d].pc
  <2>1. ConnOK(conn[d])
    BY Stepping
  <2>2. CASE d \in cs /\ conn[d].pc \in Open
    <3> DEFINE y == Over(conn[d], "cut")
    <3>1. ConnOK(y) /\ y.pc = "cut"
      BY <2>1, OverStep DEF Gone, Fine
    <3>2. /\ y.asked = conn[d].asked /\ y.answers = conn[d].answers
          /\ y.stalled = conn[d].stalled /\ y.part = conn[d].part
      BY <2>1 DEF Over, NoConn, ConnOK, ConnType
    <3>3. conn'[d] = y
      BY <1>1, <2>2
    <3> HIDE DEF y
    <3> QED
      BY <2>2, <3>1, <3>2, <3>3 DEF Quiet, SamePart, Gone
  <2>3. CASE ~(d \in cs /\ conn[d].pc \in Open)
    <3>1. conn'[d] = conn[d]
      BY <1>1, <2>3
    <3> QED
      BY <2>1, <2>3, <3>1 DEF Quiet, SamePart
  <2> QED
    BY <2>2, <2>3
<1>3. \A d \in Conns : conn'[d] \in ConnType
  BY <1>2 DEF ConnOK
<1>4. \A d \in Conns : ConnOK(conn[d])'
  BY <1>2, ZenonT(40) DEF ConnOK, PlacesOK, OrderOK, RestIsPipeline, ConnType, ExactOK, BodiesOK, BufferOK,
              Buffered, Numbered, Seen, Parsed, Cut, TextOK
<1>5. conn' \in [Conns -> ConnType]
  <2>1. conn' = [d \in Conns |-> conn'[d]]
    BY <1>1
  <2> HIDE DEF ConnType
  <2> QED
    BY <1>3, <2>1
<1> QED
  BY <1>2, <1>4, <1>5

\* A step in which every connection is quiet.
AllQuiet == \A c \in Conns : Quiet(conn[c], conn'[c])

LEMMA InitInv == Init => WebInv
<1> SUFFICES ASSUME Init PROVE WebInv
  OBVIOUS
<1>1. \A c \in Conns : conn[c] = NoConn
  BY DEF Init
<1>2. NoConn \in ConnType /\ NoConn.pc = "none"
  BY NoConnOK DEF ConnOK, NoConn
<1>3. CountedConns = {}
  BY <1>1, <1>2 DEF CountedConns, Counted
<1>4. Cardinality(CountedConns) = 0
  BY <1>3, FS_EmptySet
<1>5. conn \in [Conns -> ConnType]
  BY <1>2 DEF Init
<1>6. \A c \in Conns : ConnOK(conn[c])
  BY <1>1, NoConnOK
<1>7. main = "test" /\ done \in BOOLEAN /\ thread_count = 0 /\ stalls \in 0..MaxStalls /\ Running
  <2>1. main = "test" /\ done = FALSE /\ thread_count = 0 /\ stalls = 0 /\ MaxStalls \in Nat
    BY WebAssumption DEF Init
  <2>2. 0 \in 0..MaxStalls /\ Running
    BY <2>1 DEF Running
  <2>3. FALSE \in BOOLEAN
    OBVIOUS
  <2> QED
    BY <2>1, <2>2, <2>3, Zenon
<1> QED
  BY <1>4, <1>5, <1>6, <1>7 DEF WebInv

\* Every step is one of a single connection, or quiet, and keeps the invariant.
LEMMA NextStep ==
  ASSUME WebInv, [Next]_vars
  PROVE  WebInv' /\ (AllQuiet \/ \E c \in Conns : \E y : Steps(c, y))
<1>1. CASE \E c \in Conns : \E y : Steps(c, y)
  BY <1>1, StepsInv
<1>2. CASE \/ testDone \/ callAccept \/ ctrlc_handler \/ UNCHANGED vars
  <2>1. conn' = conn /\ thread_count' = thread_count /\ stalls' = stalls
        /\ done' \in BOOLEAN
    BY <1>2 DEF testDone, callAccept, ctrlc_handler, vars, WebInv
  <2>2. (Running' <=> Running) /\ main' \in {"test", "tested", "accept", "wait", "exited", "killed"}
    BY <1>2 DEF testDone, callAccept, ctrlc_handler, vars, Running, WebInv
  <2>3. CountedConns' = CountedConns
    BY <2>1 DEF CountedConns
  <2>4. \A c \in Conns : ConnOK(conn[c])'
    BY <2>1 DEF WebInv, ConnOK, PlacesOK, OrderOK, RestIsPipeline, ConnType, ExactOK, BodiesOK, BufferOK
  <2>5. AllQuiet
    BY <2>1 DEF AllQuiet, Quiet, SamePart
  <2> QED
    BY <2>1, <2>2, <2>3, <2>4, <2>5 DEF WebInv
<1>3. CASE closeListening
  <2>1. CutOff({c \in Conns : conn[c].pc = "backlog"})
    BY <1>3 DEF closeListening
  <2>2. /\ conn' \in [Conns -> ConnType]
        /\ \A d \in Conns :
             /\ ConnOK(conn[d])' /\ Quiet(conn[d], conn'[d])
             /\ IF conn[d].pc = "backlog"
                THEN conn'[d].pc = "cut" ELSE conn'[d].pc = conn[d].pc
    BY <2>1, CutOffStep DEF Open
  <2>3. CountedConns' = CountedConns
    BY <2>2 DEF CountedConns, Counted
  <2>4. main' = "wait" /\ Running /\ Running' /\ UNCHANGED <<done, thread_count, stalls>>
    BY <1>3 DEF closeListening, Running
  <2> QED
    BY <2>2, <2>3, <2>4 DEF WebInv, AllQuiet
<1>4. CASE CutOff(Conns) /\ main' \in {"exited", "killed"} /\ UNCHANGED <<done, thread_count, stalls>>
  <2>1. /\ conn' \in [Conns -> ConnType]
        /\ \A d \in Conns :
             /\ ConnOK(conn[d])' /\ Quiet(conn[d], conn'[d])
             /\ IF conn[d].pc \in Open
                THEN conn'[d].pc = "cut" ELSE conn'[d].pc = conn[d].pc
    BY <1>4, CutOffStep
  <2>2. \A d \in Conns : conn'[d].pc \notin Open
    BY <2>1 DEF Open, Counted
  <2> QED
    BY <1>4, <2>1, <2>2 DEF WebInv, AllQuiet, Running
<1>5. ASSUME NEW c \in Conns, connection_handler(c) \/ clientStep(c)
      PROVE  \/ \E y : Steps(c, y)
             \/ CutOff(Conns) /\ main' \in {"exited", "killed"} /\ UNCHANGED <<done, thread_count, stalls>>
  <2>1. CASE sendSigpipe(c)
    BY <2>1 DEF sendSigpipe
  <2>2. CASE \E late \in BOOLEAN : reply(c, late)
    BY <2>2, ReplySteps
  <2>3. CASE sendBodyLate(c) \/ \E n \in 1..conn[c].rest : sendBody(c, n)
    BY <2>3, SendSteps
  <2>4. CASE \/ threadStarts(c) \/ recvRest(c) \/ recvNothing(c) \/ recvFailed(c) \/ giveUp(c)
             \/ threadEnds(c)
             \/ \E n \in 0 .. Len(conn[c].asked) - conn[c].got, part \in Parts \cup {"none"} :
                  recvRequests(c, n, part)
    BY <2>4, RecvSteps
  <2>5. CASE clientStep(c)
    BY <2>5, MainSteps, ClientSteps DEF clientStep
  <2> QED
    BY <1>5, <2>1, <2>2, <2>3, <2>4, <2>5 DEF connection_handler
<1>6. CASE exit
  BY <1>4, <1>6 DEF exit
<1>7. ASSUME NEW c \in Conns, accept(c)
      PROVE  \E y : Steps(c, y)
  BY <1>7, MainSteps
<1> QED
  BY <1>1, <1>2, <1>3, <1>4, <1>5, <1>6, <1>7 DEF Next, mainStep

-----------------------------------------------------------------------------

LEMMA WebInvariant == Spec => []WebInv
<1>1. WebInv /\ [Next]_vars => WebInv'
  BY NextStep
<1> QED
  BY InitInv, <1>1, PTL DEF Spec

(***************************************************************************)
(* main returns only when no thread that has counted itself is between its *)
(* first recv and its close: on every way through connection_handler the   *)
(* counter goes up once and down once.                                     *)
(***************************************************************************)
THEOREM WebExitWaits == Spec => ExitWaits
<1>1. ASSUME WebInv, [Next]_vars, main' = "exited", main # "exited"
      PROVE  \A c \in Conns : conn[c].pc \notin Counted
  <2>1. CASE exit
    <3>1. Running /\ thread_count = Cardinality(CountedConns) /\ thread_count <= 0
      BY <1>1, <2>1 DEF exit, WebInv, Running
    <3>2. IsFiniteSet(CountedConns)
      BY WebAssumption, FS_Subset DEF CountedConns
    <3>3. Cardinality(CountedConns) \in Nat
      BY <3>2, FS_CardinalityType
    <3>4. Cardinality(CountedConns) = 0
      BY <3>1, <3>3
    <3>5. CountedConns = {}
      BY <3>2, <3>4, FS_EmptySet
    <3> QED
      BY <3>5 DEF CountedConns
  <2>2. CASE ~exit
    <3>1. \/ main' # "exited"
          \/ \E c \in Conns : \E y : Steps(c, y)
          \/ \E c \in Conns : sendSigpipe(c)
      <4>1. CASE \E c \in Conns : connection_handler(c) \/ clientStep(c)
        <5>1. PICK c \in Conns : connection_handler(c) \/ clientStep(c)
          BY <4>1
        <5>2. CASE sendSigpipe(c)
          BY <5>2
        <5>3. CASE ~sendSigpipe(c)
          BY <1>1, <5>1, <5>3, ReplySteps, SendSteps, RecvSteps, MainSteps, ClientSteps
          DEF connection_handler, clientStep
        <5> QED
          BY <5>2, <5>3
      <4>2. CASE \E c \in Conns : accept(c)
        BY <1>1, <4>2, MainSteps
      <4>3. CASE testDone \/ callAccept \/ closeListening \/ ctrlc_handler \/ UNCHANGED vars
        BY <1>1, <4>3 DEF testDone, callAccept, closeListening, ctrlc_handler, vars
      <4> QED
        BY <1>1, <2>2, <4>1, <4>2, <4>3 DEF Next, mainStep
    <3> QED
      BY <1>1, <3>1 DEF Steps, sendSigpipe
  <2> QED
    BY <2>1, <2>2
<1>2. WebInv /\ [Next]_vars =>
        [main' = "exited" /\ main # "exited" => \A c \in Conns : conn[c].pc \notin Counted]_vars
  BY <1>1
<1> QED
  BY <1>2, WebInvariant, PTL DEF Spec, ExitWaits

(***************************************************************************)
(* A thread that waits in recv has answered every request of which it has  *)
(* read at least the beginning, however recv has cut or joined what came,  *)
(* for clients that pipeline only what parseRequest takes from a pipeline  *)
(* and read their answers in time.                                         *)
(***************************************************************************)
THEOREM WebNothingForgotten == Spec => []NothingForgotten
<1>1. WebInv => NothingForgotten
  BY DEF WebInv, ConnOK, OrderOK, NothingForgotten
<1> QED
  BY <1>1, WebInvariant, PTL

(***************************************************************************)
(* The body of an answer to a GET is the file, and that to a POST the file *)
(* with the data at their place if it is smaller than the buffer; of a     *)
(* larger file no byte is lost, repeated or moved, wherever the ends of    *)
(* the buffers fall in </body> and whatever stands behind them: for any    *)
(* size of file and buffer and any cut of the sends into partial ones,     *)
(* unless a send has timed out.                                            *)
(***************************************************************************)
THEOREM WebBodiesAreExact == Spec => []BodiesAreExact
<1>1. ASSUME WebInv, NEW c \in Conns, NEW i \in DOMAIN conn[c].answers,
             conn[c].answers[i].kind = "file", ~conn[c].stalled
      PROVE  BodyOK(conn[c].asked[conn[c].answers[i].req], conn[c].answers[i].body)
  <2>1. conn[c] \in ConnType /\ BodiesOK(conn[c])
    BY <1>1 DEF WebInv, ConnOK, ExactOK
  <2>2. i \in 1 .. Len(conn[c].answers)
    BY <1>1, <2>1, AnswersDomain
  <2> QED
    BY <1>1, <2>1, <2>2 DEF BodiesOK
<1>2. WebInv => BodiesAreExact
  BY <1>1 DEF BodiesAreExact, BodyOK
<1> QED
  BY <1>2, WebInvariant, PTL

-----------------------------------------------------------------------------
\* The refinement.

LEMMA NumbersAppend ==
  ASSUME NEW s \in Seq(Answer), NEW a \in Answer
  PROVE  /\ Numbers(s) \in Seq(Nat) /\ Len(Numbers(s)) = Len(s)
         /\ \A i \in 1 .. Len(s) : Numbers(s)[i] = s[i].req
         /\ Numbers(Append(s, a)) = Append(Numbers(s), a.req)
<1> DEFINE t == Append(s, a)
<1>1. Numbers(s) = [i \in 1 .. Len(s) |-> s[i].req] /\ \A i \in 1 .. Len(s) : s[i].req \in Nat
  <2>1. DOMAIN s = 1 .. Len(s) /\ \A i \in 1 .. Len(s) : s[i] \in Answer
    OBVIOUS
  <2>2. \A i \in 1 .. Len(s) : s[i].req \in Nat
    BY <2>1 DEF Answer
  <2> QED
    BY <2>1, <2>2 DEF Numbers
<1>2. Numbers(s) \in Seq(Nat) /\ Len(Numbers(s)) = Len(s)
  BY <1>1
<1>3. /\ t \in Seq(Answer) /\ DOMAIN t = 1 .. Len(s) + 1 /\ t[Len(s) + 1] = a
      /\ \A i \in 1 .. Len(s) : t[i] = s[i]
  OBVIOUS
<1> HIDE DEF t
<1>4. Numbers(t) = [i \in 1 .. Len(s) + 1 |-> t[i].req]
  BY <1>3 DEF Numbers
<1>a. a.req \in Nat
  BY DEF Answer
<1> DEFINE u == Append(Numbers(s), a.req)
<1>5. /\ u = [i \in 1 .. Len(s) + 1 |-> u[i]] /\ u[Len(s) + 1] = a.req
      /\ \A i \in 1 .. Len(s) : u[i] = s[i].req
  BY <1>1, <1>2, <1>a
<1> HIDE DEF u
<1>6. ASSUME NEW i \in 1 .. Len(s) + 1
      PROVE  t[i].req = u[i]
  <2>1. i \in 1 .. Len(s) \/ i = Len(s) + 1
    OBVIOUS
  <2> QED
    BY <1>3, <1>5, <2>1
<1> QED
  BY <1>1, <1>2, <1>4, <1>5, <1>6 DEF t, u

\* The state of HttpService.
Asked == [c \in Conns |-> Len(conn[c].asked)]
AnsweredNumbers == [c \in Conns |-> Numbers(conn[c].answers)]
Spoilt == {c \in Conns : conn[c].stalled}
Parted == {c \in Conns : conn[c].part # "none"}
Closed == {c \in Conns : conn[c].pc \in Gone}

LEMMA QuietRefines ==
  ASSUME WebInv, AllQuiet
  PROVE  Service!Close
<1>1. /\ Asked' = Asked /\ AnsweredNumbers' = AnsweredNumbers
      /\ Spoilt' = Spoilt /\ Parted' = Parted /\ Closed \subseteq Closed'
  BY DEF AllQuiet, Quiet, SamePart, Asked, AnsweredNumbers, Spoilt, Parted, Closed
<1> QED
  BY <1>1 DEF Service!Close, Asked, AnsweredNumbers, Spoilt, Parted, Closed, Gone

LEMMA StepsRefine ==
  ASSUME Patient, WebInv, NEW c \in Conns, NEW y, Steps(c, y)
  PROVE  Service!Next
<1> DEFINE x == conn[c]
<1>1. conn \in [Conns -> ConnType] /\ conn' = [conn EXCEPT ![c] = y] /\ InOrder(x, y)
      /\ x \in ConnType /\ y \in ConnType
  BY DEF WebInv, Steps, Fine, ConnOK
<1>2. \A d \in Conns : conn'[d] = IF d = c THEN y ELSE conn[d]
  BY <1>1
<1>3. CASE Quiet(x, y)
  <2>1. AllQuiet
    BY <1>2, <1>3 DEF AllQuiet, Quiet, SamePart
  <2> QED
    BY <2>1, QuietRefines DEF Service!Next
<1>4. CASE Spoils(x, y)
  <2>1. /\ Asked' = Asked /\ Spoilt' = Spoilt \cup {c}
        /\ Parted' = Parted /\ Closed' = Closed
    BY <1>2, <1>4 DEF Spoils, SamePart, Asked, Spoilt, Parted, Closed
  <2>2. \A d \in Conns \ {c} : AnsweredNumbers'[d] = AnsweredNumbers[d]
    BY <1>2 DEF AnsweredNumbers
  <2>3. Service!Spoil(c)
    BY <2>1, <2>2 DEF Service!Spoil, Asked, AnsweredNumbers, Spoilt, Parted, Closed, Gone
  <2> QED
    BY <2>3 DEF Service!Next
<1>5. CASE Asks(x, y)
  <2>1. /\ AnsweredNumbers' = AnsweredNumbers /\ Spoilt' = Spoilt
        /\ Parted' = Parted /\ Closed' = Closed
    BY <1>2, <1>5 DEF Asks, SamePart, AnsweredNumbers, Spoilt, Parted, Closed
  <2>2. Asked' = [Asked EXCEPT ![c] = @ + 1]
    BY <1>2, <1>5 DEF Asks, Asked
  <2>3. Service!Ask(c)
    BY <2>1, <2>2 DEF Service!Ask, Asked, AnsweredNumbers, Spoilt, Parted, Closed, Gone
  <2> QED
    BY <2>3 DEF Service!Next
<1>6. CASE Begins(x, y)
  <2>1. /\ Asked' = Asked /\ AnsweredNumbers' = AnsweredNumbers /\ Spoilt' = Spoilt
        /\ Parted' = Parted \cup {c} /\ Closed' = Closed
    BY <1>2, <1>6 DEF Begins, Asked, AnsweredNumbers, Spoilt, Parted, Closed
  <2>2. Service!Part(c)
    BY <2>1 DEF Service!Part, Asked, AnsweredNumbers, Spoilt, Parted, Closed, Gone
  <2> QED
    BY <2>2 DEF Service!Next
\* One more answer, to a request that is as many as there are answers or one more.
<1>7. ASSUME NEW a \in Answer, y.answers = Append(x.answers, a), Numbered(x),
             y.asked = x.asked, y.stalled = x.stalled, SamePart(x, y),
             x.pc \notin Gone, y.pc \notin Gone
      PROVE  /\ Asked' = Asked /\ Spoilt' = Spoilt /\ Parted' = Parted
             /\ Closed' = Closed /\ c \notin Closed
             /\ Service!InOrder(c)
             /\ Len(AnsweredNumbers[c]) = Len(x.answers) /\ Asked[c] = Len(x.asked)
             /\ AnsweredNumbers[c] \in Seq(Nat)
             /\ AnsweredNumbers' = [AnsweredNumbers EXCEPT ![c] = Append(@, a.req)]
  <2>1. Asked' = Asked /\ Spoilt' = Spoilt /\ Parted' = Parted /\ Closed' = Closed /\ c \notin Closed
    BY <1>2, <1>7 DEF SamePart, Asked, Spoilt, Parted, Closed
  <2>2. x.answers \in Seq(Answer)
    BY <1>1 DEF ConnType
  <2>3. /\ Numbers(x.answers) \in Seq(Nat) /\ Len(Numbers(x.answers)) = Len(x.answers)
        /\ \A i \in 1 .. Len(x.answers) : Numbers(x.answers)[i] = x.answers[i].req
        /\ Numbers(y.answers) = Append(Numbers(x.answers), a.req)
    BY <1>7, <2>2, NumbersAppend
  <2>4. /\ AnsweredNumbers[c] = Numbers(x.answers) /\ Asked[c] = Len(x.asked)
        /\ AnsweredNumbers' = [AnsweredNumbers EXCEPT ![c] = Numbers(y.answers)]
    BY <1>2 DEF AnsweredNumbers, Asked
  <2>5. \A i \in DOMAIN AnsweredNumbers[c] : AnsweredNumbers[c][i] = i
    <3>1. DOMAIN Numbers(x.answers) = 1 .. Len(x.answers)
      BY <2>3
    <3> QED
      BY <1>7, <2>3, <2>4, <3>1 DEF Numbered
  <2>6. Service!InOrder(c)
    BY <2>5 DEF Service!InOrder, AnsweredNumbers
  <2> QED
    BY <2>1, <2>3, <2>4, <2>6
<1>8. CASE Answers(x, y)
  <2>1. PICK a \in Answer : y.answers = Append(x.answers, a) /\ a.req = Len(x.answers) + 1
    BY <1>8 DEF Answers
  <2>2. Len(x.answers) < Len(x.asked)
    BY <1>8 DEF Answers
  <2>3. /\ Asked' = Asked /\ Spoilt' = Spoilt /\ Parted' = Parted
        /\ Closed' = Closed /\ c \notin Closed
        /\ Service!InOrder(c)
        /\ Len(AnsweredNumbers[c]) = Len(x.answers) /\ Asked[c] = Len(x.asked)
        /\ AnsweredNumbers' = [AnsweredNumbers EXCEPT ![c] = Append(@, a.req)]
    BY <1>7, <1>8, <2>1 DEF Answers
  <2>4. /\ Len(AnsweredNumbers[c]) < Asked[c]
        /\ AnsweredNumbers' = [AnsweredNumbers EXCEPT ![c] = Append(@, Len(@) + 1)]
    BY <2>1, <2>2, <2>3
  <2>5. Service!Answer(c)
    BY <2>3, <2>4 DEF Service!Answer, Asked, AnsweredNumbers, Spoilt, Parted, Closed, Gone
  <2> QED
    BY <2>5 DEF Service!Next
<1>9. CASE AnswersAgain(x, y)
  <2>1. PICK a \in Answer : y.answers = Append(x.answers, a) /\ a.req = Len(x.answers)
    BY <1>9 DEF AnswersAgain
  <2>2. Len(x.answers) > 0 /\ c \in Parted
    BY <1>9 DEF AnswersAgain, Parted
  <2>3. /\ Asked' = Asked /\ Spoilt' = Spoilt /\ Parted' = Parted
        /\ Closed' = Closed /\ c \notin Closed
        /\ Service!InOrder(c)
        /\ Len(AnsweredNumbers[c]) = Len(x.answers)
        /\ AnsweredNumbers[c] \in Seq(Nat)
        /\ AnsweredNumbers' = [AnsweredNumbers EXCEPT ![c] = Append(@, a.req)]
    BY <1>7, <1>9, <2>1 DEF AnswersAgain
  <2>4. /\ AnsweredNumbers[c] # <<>>
        /\ AnsweredNumbers' = [AnsweredNumbers EXCEPT ![c] = Append(@, Len(@))]
    <3>1. Len(AnsweredNumbers[c]) = a.req /\ Len(AnsweredNumbers[c]) > 0
      BY <2>1, <2>2, <2>3
    <3>2. AnsweredNumbers[c] # <<>>
      BY <3>1
    <3>3. AnsweredNumbers' = [AnsweredNumbers EXCEPT ![c] = Append(@, Len(@))]
      BY <2>3, <3>1
    <3> QED
      BY <3>2, <3>3
  <2>5. Service!AnswerAgain(c)
    BY <2>2, <2>3, <2>4
    DEF Service!AnswerAgain, Asked, AnsweredNumbers, Spoilt, Parted, Closed, Gone
  <2> QED
    BY <2>5 DEF Service!Next
<1> QED
  BY <1>1, <1>3, <1>4, <1>5, <1>6, <1>8, <1>9 DEF InOrder

(***************************************************************************)
(* For patient clients the server implements HttpService: every answer is  *)
(* the one to the next request in order, none is skipped or repeated, up   *)
(* to the end of the connection or the first send that times out.  Only a  *)
(* request that recv has cut may be answered twice, and then it is the     *)
(* last one of its connection that is answered.                            *)
(***************************************************************************)
THEOREM WebServesInOrder == Patient /\ Spec => ServesInOrder
<1>1. Init => Service!Init
  <2> SUFFICES ASSUME Init PROVE Service!Init
    OBVIOUS
  <2>1. \A c \in Conns : conn[c].asked = <<>> /\ conn[c].answers = <<>> /\ conn[c].stalled = FALSE
                         /\ conn[c].pc = "none" /\ conn[c].part = "none"
    BY DEF Init, NoConn
  <2>2. Asked = [c \in Conns |-> 0] /\ Spoilt = {} /\ Parted = {} /\ Closed = {}
    BY <2>1 DEF Asked, Spoilt, Parted, Closed, Gone
  <2>3. Numbers(<<>>) = <<>>
    BY DEF Numbers
  <2>4. AnsweredNumbers = [c \in Conns |-> <<>>]
    BY <2>1, <2>3 DEF AnsweredNumbers
  <2> QED
    BY <2>2, <2>4 DEF Service!Init, Asked, AnsweredNumbers, Spoilt, Parted, Closed, Gone
<1>2. Patient /\ WebInv /\ [Next]_vars => [Service!Next]_Service!vars
  BY NextStep, QuietRefines, StepsRefine DEF Service!Next
<1>3. Patient /\ [Next]_vars => Patient'
  OBVIOUS
<1> QED
  BY <1>1, <1>2, <1>3, WebInvariant, PTL DEF Spec, ServesInOrder, Service!Spec

-----------------------------------------------------------------------------
\* The open files.

\* The connections whose thread is sending a file, which is open meanwhile.
Sending == {c \in Conns : conn[c].pc = "body"}

\* The file of a body is open; what else is open, a POST has left open.
FilesInv ==
  /\ WebInv
  /\ files \in Nat
  /\ Running => Cardinality(Sending) <= files
  /\ Running /\ Cardinality(Sending) # files => AskedToPost

MissingOK(x) ==
  \A i \in 1 .. Len(x.answers) :
    x.answers[i].kind = "404" =>
      /\ x.answers[i].req \in 1 .. Len(x.asked)
      /\ x.asked[x.answers[i].req].file = "none" \/ AskedToPost

\* The process may have as many files open as there are connections.
EnoughFiles == Cardinality(Conns) <= MaxFiles

\* The inductive invariant for NotFoundMeansMissing.
MissingInv == FilesInv /\ EnoughFiles /\ \A c \in Conns : MissingOK(conn[c])

\* What a step of the connection c does to its files and answers.
AsksMore(x, y) == \E r \in Request : y.asked = Append(x.asked, r)

TellsMore(x, y) ==
  \E a \in Answer :
    /\ y.answers = Append(x.answers, a)
    /\ a.req \in 1 .. Len(x.asked)
    /\ a.kind = "404" =>
         x.pc # "body" /\ (x.asked[a.req].file = "none" \/ files >= MaxFiles)

Counts(x, y) ==
  \/ files' = files /\ (x.pc = "body" <=> y.pc = "body")
  \/ files' = files + 1 /\ x.pc # "body" /\ y.pc = "body"
  \/ files' = files - 1 /\ x.pc = "body" /\ y.pc # "body"
  \/ files' = files + 1 /\ x.pc # "body" /\ y.pc # "body" /\ AskedToPost

Turns(c, y) ==
  /\ conn' = [conn EXCEPT ![c] = y]
  /\ \/ y.asked = conn[c].asked /\ y.answers = conn[c].answers
     \/ y.asked = conn[c].asked /\ TellsMore(conn[c], y)
     \/ AsksMore(conn[c], y) /\ y.answers = conn[c].answers
  /\ Counts(conn[c], y)

\* The number of open files, before and after.
LEMMA SendingStep ==
  ASSUME NEW c \in Conns, NEW y, conn \in [Conns -> ConnType], conn' = [conn EXCEPT ![c] = y]
  PROVE  /\ Cardinality(Sending) \in Nat
         /\ conn[c].pc # "body" => Cardinality(Sending) < Cardinality(Conns)
         /\ (conn[c].pc = "body" <=> y.pc = "body") =>
              Cardinality(Sending') = Cardinality(Sending)
         /\ conn[c].pc # "body" /\ y.pc = "body" =>
              Cardinality(Sending') = Cardinality(Sending) + 1
         /\ conn[c].pc = "body" /\ y.pc # "body" =>
              Cardinality(Sending') = Cardinality(Sending) - 1
<1>1. IsFiniteSet(Sending) /\ IsFiniteSet(Conns)
  BY WebAssumption, FS_Subset DEF Sending
<1>2. Cardinality(Sending) \in Nat /\ Cardinality(Conns) \in Nat
  BY <1>1, FS_CardinalityType
<1>3. \A d \in Conns : conn'[d] = IF d = c THEN y ELSE conn[d]
  OBVIOUS
<1>4. ASSUME conn[c].pc = "body" <=> y.pc = "body"
      PROVE  Sending' = Sending
  BY <1>3, <1>4 DEF Sending
<1>5. ASSUME conn[c].pc # "body", y.pc = "body"
      PROVE  Sending' = Sending \cup {c} /\ c \notin Sending
  BY <1>3, <1>5 DEF Sending
<1>6. ASSUME conn[c].pc = "body", y.pc # "body"
      PROVE  Sending' = Sending \ {c} /\ c \in Sending
  BY <1>3, <1>6 DEF Sending
<1>7. ASSUME conn[c].pc # "body"
      PROVE  Cardinality(Sending) < Cardinality(Conns)
  <2>1. Sending \subseteq Conns /\ Sending # Conns
    BY <1>7 DEF Sending
  <2> QED
    BY <1>1, <1>2, <2>1, FS_Subset
<1> QED
  BY <1>1, <1>2, <1>4, <1>5, <1>6, <1>7, FS_AddElement, FS_RemoveElement

\* What was asked stays asked.
LEMMA StillAsked ==
  ASSUME WebInv, \A d \in Conns : \/ conn'[d].asked = conn[d].asked
                                  \/ AsksMore(conn[d], conn'[d])
  PROVE  AskedToPost => AskedToPost'
<1> SUFFICES ASSUME AskedToPost PROVE AskedToPost'
  OBVIOUS
<1>0. PICK d \in Conns : \E i \in DOMAIN conn[d].asked :
        conn[d].asked[i].method = "POST" /\ conn[d].asked[i].file = "binary"
  BY DEF AskedToPost
<1>1. PICK i \in DOMAIN conn[d].asked :
        conn[d].asked[i].method = "POST" /\ conn[d].asked[i].file = "binary"
  BY <1>0
<1>2. conn[d].asked \in Seq(Request)
  BY DEF WebInv, ConnType
<1>3. i \in DOMAIN conn'[d].asked /\ conn'[d].asked[i] = conn[d].asked[i]
  BY <1>1, <1>2 DEF AsksMore
<1> QED
  BY <1>1, <1>3 DEF AskedToPost

LEMMA TurnsFiles ==
  ASSUME FilesInv, WebInv', NEW c \in Conns, NEW y, Turns(c, y), Running
  PROVE  FilesInv' /\ (AskedToPost => AskedToPost')
<1>1. conn \in [Conns -> ConnType] /\ \A d \in Conns : conn'[d] = IF d = c THEN y ELSE conn[d]
  BY DEF FilesInv, WebInv, Turns
<1>2. AskedToPost => AskedToPost'
  BY <1>1, StillAsked DEF FilesInv, Turns
<1> DEFINE n == Cardinality(Sending)
           m == Cardinality(Sending')
<1>3. /\ n \in Nat
      /\ (conn[c].pc = "body" <=> y.pc = "body") => m = n
      /\ conn[c].pc # "body" /\ y.pc = "body" => m = n + 1
      /\ conn[c].pc = "body" /\ y.pc # "body" => m = n - 1
      /\ conn[c].pc = "body" => n > 0
  <2>1. conn' = [conn EXCEPT ![c] = y]
    BY DEF Turns
  <2>2. conn[c].pc = "body" => Sending # {}
    BY DEF Sending
  <2>3. IsFiniteSet(Sending)
    BY WebAssumption, FS_Subset DEF Sending
  <2>4. n \in Nat /\ (conn[c].pc = "body" => n # 0)
    BY <2>2, <2>3, FS_CardinalityType, FS_EmptySet
  <2>5. conn[c].pc = "body" => n > 0
    BY <2>4
  <2> QED
    BY <1>1, <2>1, <2>4, <2>5, SendingStep
<1>4. files \in Nat /\ n <= files /\ (n # files => AskedToPost)
  BY DEF FilesInv
<1> HIDE DEF n, m
<1>5. files' \in Nat /\ m <= files' /\ (m # files' => AskedToPost)
  BY <1>3, <1>4 DEF Turns, Counts
<1> QED
  BY <1>2, <1>5 DEF FilesInv, m, Sending

LEMMA TurnsMissing ==
  ASSUME MissingInv, WebInv', NEW c \in Conns, NEW y, Turns(c, y), Running
  PROVE  MissingInv'
<1>1. FilesInv /\ EnoughFiles /\ \A d \in Conns : MissingOK(conn[d])
  BY DEF MissingInv
<1>2. FilesInv' /\ (AskedToPost => AskedToPost')
  BY <1>1, TurnsFiles
<1>3. /\ conn \in [Conns -> ConnType] /\ conn[c] \in ConnType
      /\ conn' = [conn EXCEPT ![c] = y]
      /\ \A d \in Conns : conn'[d] = IF d = c THEN y ELSE conn[d]
  BY <1>1 DEF FilesInv, WebInv, Turns
<1> DEFINE x == conn[c]
<1>4. x.asked \in Seq(Request) /\ x.answers \in Seq(Answer) /\ MissingOK(x)
  BY <1>1, <1>3 DEF ConnType
<1>5. conn[c].pc # "body" /\ files >= MaxFiles => AskedToPost
  <2> DEFINE n == Cardinality(Sending)
             k == Cardinality(Conns)
  <2>1. n \in Nat /\ (x.pc # "body" => n < k)
    BY <1>3, SendingStep
  <2>2. k \in Nat /\ k <= MaxFiles /\ MaxFiles \in Nat
    BY <1>1, WebAssumption, FS_CardinalityType DEF EnoughFiles
  <2>3. files \in Nat /\ (n # files => AskedToPost)
    BY <1>1 DEF FilesInv
  <2> HIDE DEF n, k
  <2> QED
    BY <2>1, <2>2, <2>3
<1>6. ASSUME NEW i \in 1 .. Len(y.answers), y.answers[i].kind = "404"
      PROVE  /\ y.answers[i].req \in 1 .. Len(y.asked)
             /\ y.asked[y.answers[i].req].file = "none" \/ AskedToPost'
  <2> HIDE DEF x
  <2>1. CASE y.asked = x.asked /\ y.answers = x.answers
    BY <1>2, <1>4, <1>6, <2>1 DEF MissingOK
  <2>2. CASE y.asked = x.asked /\ TellsMore(x, y)
    <3>1. PICK a \in Answer :
            /\ y.answers = Append(x.answers, a)
            /\ a.req \in 1 .. Len(x.asked)
            /\ a.kind = "404" =>
                 x.pc # "body" /\ (x.asked[a.req].file = "none" \/ files >= MaxFiles)
      BY <2>2 DEF TellsMore
    <3>2. CASE i \in 1 .. Len(x.answers)
      <4>1. y.answers[i] = x.answers[i]
        BY <1>4, <3>1, <3>2
      <4> QED
        BY <1>2, <1>4, <1>6, <2>2, <3>2, <4>1 DEF MissingOK
    <3>3. CASE i = Len(x.answers) + 1
      <4>1. y.answers[i] = a
        BY <1>4, <3>1, <3>3
      <4> QED
        BY <1>2, <1>5, <1>6, <2>2, <3>1, <4>1 DEF x
    <3> QED
      BY <1>4, <1>6, <3>1, <3>2, <3>3
  <2>3. CASE AsksMore(x, y) /\ y.answers = x.answers
    <3>1. PICK r \in Request : y.asked = Append(x.asked, r)
      BY <2>3 DEF AsksMore
    <3>2. /\ \A q \in 1 .. Len(x.asked) : q \in 1 .. Len(y.asked) /\ y.asked[q] = x.asked[q]
      BY <1>4, <3>1
    <3>3. /\ x.answers[i].req \in 1 .. Len(x.asked)
          /\ x.asked[x.answers[i].req].file = "none" \/ AskedToPost
      BY <1>4, <1>6, <2>3 DEF MissingOK
    <3> QED
      BY <1>2, <2>3, <3>2, <3>3
  <2> QED
    BY <2>1, <2>2, <2>3 DEF Turns, x
<1>7. ASSUME NEW d \in Conns
      PROVE  MissingOK(conn[d])'
  <2>1. CASE d = c
    BY <1>3, <1>6, <2>1 DEF MissingOK
  <2>2. CASE d # c
    <3>1. conn'[d] = conn[d] /\ MissingOK(conn[d])
      BY <1>1, <1>3, <2>2
    <3> QED
      BY <1>2, <3>1 DEF MissingOK
  <2> QED
    BY <2>1, <2>2
<1>8. EnoughFiles'
  BY <1>1 DEF EnoughFiles
<1> QED
  BY <1>2, <1>7, <1>8 DEF MissingInv

\* The end of the loop's body and an answer, as far as files and answers go.
LEMMA ContinueKeeps ==
  ASSUME NEW x \in ConnType
  PROVE  LET y == Continue(x)
         IN /\ y.pc \in {"close", "recv", "reply"}
            /\ y.asked = x.asked /\ y.answers = x.answers
  BY DEF Continue, ConnType

LEMMA AnsweredKeeps ==
  ASSUME NEW x \in ConnType, NEW kind \in {"error", "404", "405", "file"}
  PROVE  LET y == Answered(x, kind)
         IN /\ y \in ConnType /\ y.asked = x.asked
            /\ IF x.at = 0 THEN y.answers = x.answers
               ELSE \E a \in Answer : /\ y.answers = Append(x.answers, a)
                                      /\ a.req = x.at /\ a.kind = kind
<1> DEFINE a == [req |-> x.at, kind |-> kind, body |-> x.body]
           y == Answered(x, kind)
<1>1. a \in Answer /\ a.req = x.at /\ a.kind = kind /\ x.answers \in Seq(Answer)
  BY DEF Answer, ConnType
<1>2. CASE x.at = 0
  BY <1>2 DEF Answered
<1>3. CASE x.at # 0
  <2>1. y = [x EXCEPT !.answers = Append(x.answers, a)]
    BY <1>3 DEF Answered
  <2>2. Append(x.answers, a) \in Seq(Answer)
    BY <1>1
  <2> HIDE DEF a, y
  <2>3. y \in ConnType /\ y.asked = x.asked /\ y.answers = Append(x.answers, a)
    BY <2>1, <2>2 DEF ConnType
  <2> QED
    BY <1>1, <1>3, <2>3 DEF y
<1> QED
  BY <1>2, <1>3

\* A thread that answers goes on behind its answer.
LEMMA TellsStep ==
  ASSUME NEW w, NEW x \in ConnType, x.asked = w.asked, x.answers = w.answers,
         x.at \in 0 .. Len(w.asked), NEW kind \in {"error", "404", "405", "file"},
         kind = "404" =>
           w.pc # "body" /\ (x.at # 0 => w.asked[x.at].file = "none" \/ files >= MaxFiles)
  PROVE  LET y == Continue(Answered(x, kind))
         IN /\ y.pc \in {"close", "recv", "reply"}
            /\ y.asked = w.asked
            /\ y.answers = w.answers \/ TellsMore(w, y)
<1> DEFINE z == Answered(x, kind)
           y == Continue(z)
<1>1. /\ z \in ConnType /\ z.asked = x.asked
      /\ IF x.at = 0 THEN z.answers = x.answers
         ELSE \E a \in Answer : /\ z.answers = Append(x.answers, a)
                                /\ a.req = x.at /\ a.kind = kind
  BY AnsweredKeeps
<1> HIDE DEF z
<1>2. y.pc \in {"close", "recv", "reply"} /\ y.asked = z.asked /\ y.answers = z.answers
  BY <1>1, ContinueKeeps
<1> HIDE DEF y
<1>3. CASE x.at = 0
  BY <1>1, <1>2, <1>3 DEF y, z
<1>4. CASE x.at # 0
  <2>1. PICK a \in Answer : z.answers = Append(x.answers, a) /\ a.req = x.at /\ a.kind = kind
    BY <1>1, <1>4
  <2>2. x.at \in 1 .. Len(w.asked)
    BY <1>4 DEF ConnType
  <2>3. TellsMore(w, y)
    BY <1>2, <1>4, <2>1, <2>2 DEF TellsMore
  <2> QED
    BY <1>1, <1>2, <2>3 DEF y, z
<1> QED
  BY <1>3, <1>4

\* The steps before and behind the requests, those of the client, and a send of
\* a body that times out.
LEMMA PlainTurns ==
  ASSUME WebInv, NEW c \in Conns, UNCHANGED files,
         \/ accept(c) \/ connect(c) \/ hangUp(c) \/ \E r \in Wants[c] : ask(c, r)
         \/ threadStarts(c) \/ recvRest(c) \/ recvNothing(c) \/ recvFailed(c) \/ giveUp(c)
         \/ threadEnds(c)
         \/ \E n \in 0 .. Len(conn[c].asked) - conn[c].got, part \in Parts \cup {"none"} :
              recvRequests(c, n, part)
         \/ sendBodyLate(c)
  PROVE  \E y : Turns(c, y)
<1> DEFINE x == conn[c]
<1>1. x \in ConnType /\ conn \in [Conns -> ConnType]
  BY DEF WebInv
<1>2. ASSUME NEW y, conn' = [conn EXCEPT ![c] = y], x.pc = "body" <=> y.pc = "body",
             y.asked = x.asked \/ AsksMore(x, y), y.answers = x.answers
      PROVE  Turns(c, y)
  BY <1>2 DEF Turns, Counts
<1>3. CASE accept(c)
  <2> DEFINE y == [x EXCEPT !.pc = "created"]
  <2>1. y.pc = "created" /\ y.asked = x.asked /\ y.answers = x.answers /\ x.pc = "backlog"
    BY <1>1, <1>3 DEF accept, ConnType
  <2>2. conn' = [conn EXCEPT ![c] = y]
    BY <1>1, <1>3 DEF accept
  <2> HIDE DEF y
  <2> QED
    BY <1>2, <2>1, <2>2
<1>4. CASE connect(c) \/ threadStarts(c) \/ recvFailed(c)
  <2>1. PICK pc \in {"backlog", "recv", "giveup"} :
          conn' = [conn EXCEPT ![c] = [x EXCEPT !.pc = pc]]
    BY <1>4 DEF connect, threadStarts, recvFailed, Goes
  <2> DEFINE y == [x EXCEPT !.pc = pc]
  <2>2. y.pc = pc /\ y.asked = x.asked /\ y.answers = x.answers /\ x.pc # "body"
    BY <1>1, <1>4 DEF connect, threadStarts, recvFailed, ConnType
  <2> HIDE DEF y
  <2> QED
    BY <1>2, <2>1, <2>2 DEF y
<1>5. CASE hangUp(c)
  <2>1. PICK peer : conn' = [conn EXCEPT ![c] = [x EXCEPT !.peer = peer]]
    BY <1>5 DEF hangUp, Goes
  <2> DEFINE y == [x EXCEPT !.peer = peer]
  <2>2. y.pc = x.pc /\ y.asked = x.asked /\ y.answers = x.answers
    BY <1>1 DEF ConnType
  <2> HIDE DEF y
  <2> QED
    BY <1>2, <2>1, <2>2 DEF y
<1>6. CASE \E r \in Wants[c] : ask(c, r)
  <2>1. PICK r \in Request : conn' = [conn EXCEPT ![c] = [x EXCEPT !.asked = Append(@, r)]]
    BY <1>6, WebAssumption DEF ask, Goes
  <2> DEFINE y == [x EXCEPT !.asked = Append(@, r)]
  <2>2. y.pc = x.pc /\ y.asked = Append(x.asked, r) /\ y.answers = x.answers
    BY <1>1 DEF ConnType
  <2>3. AsksMore(x, y)
    BY <2>2 DEF AsksMore
  <2> HIDE DEF y
  <2> QED
    BY <1>2, <2>1, <2>2, <2>3 DEF y
<1>7. CASE recvNothing(c)
  <2> DEFINE y == [x EXCEPT !.pc = "reply", !.at = 0, !.last = 0, !.cur = NoRequest]
  <2>1. y.pc = "reply" /\ y.asked = x.asked /\ y.answers = x.answers /\ x.pc = "recv"
    BY <1>1, <1>7 DEF recvNothing, ConnType
  <2>2. conn' = [conn EXCEPT ![c] = y]
    BY <1>7 DEF recvNothing, Goes
  <2> HIDE DEF y
  <2> QED
    BY <1>2, <2>1, <2>2
<1>8. CASE giveUp(c) \/ threadEnds(c)
  <2> DEFINE y == Over(x, "ended")
  <2>1. y.pc = "ended" /\ y.asked = x.asked /\ y.answers = x.answers /\ x.pc # "body"
    BY <1>1, <1>8 DEF giveUp, threadEnds, ConnType, Over, NoConn
  <2>2. conn' = [conn EXCEPT ![c] = y]
    BY <1>8 DEF giveUp, threadEnds, Goes
  <2> HIDE DEF y
  <2> QED
    BY <1>2, <2>1, <2>2
<1>9. CASE \E n \in 0 .. Len(conn[c].asked) - conn[c].got, part \in Parts \cup {"none"} :
             recvRequests(c, n, part)
  <2>1. PICK n \in 0 .. Len(x.asked) - x.got, part \in Parts \cup {"none"} : recvRequests(c, n, part)
    BY <1>9
  <2> DEFINE y == recvParsed(x, n, part)
  <2>2. conn' = [conn EXCEPT ![c] = y] /\ x.pc = "recv"
    BY <2>1 DEF recvRequests, Goes
  <2>3. y.pc = "reply" /\ y.asked = x.asked /\ y.answers = x.answers
    <3> DEFINE w == [x EXCEPT !.got = @ + n, !.part = part]
               r == Parsed(w, x.got + 1)
               p == x.got + Pipeline(x.asked, x.got + 1, Seen(w))
    <3>1. y = [w EXCEPT !.pc = "reply", !.at = x.got + 1, !.cur = r, !.last = p]
      BY Zenon DEF recvParsed
    <3> HIDE DEF r, p, y
    <3> QED
      BY <1>1, <3>1 DEF ConnType
  <2> HIDE DEF y
  <2> QED
    BY <1>2, <2>2, <2>3
<1>11. CASE recvRest(c)
  <2> DEFINE w == [x EXCEPT !.part = "rest"]
             r == Parsed(w, x.got + 1)
             y == [w EXCEPT !.pc = "reply", !.at = x.got + 1, !.last = x.got + 1, !.cur = r]
  <2>1. conn' = [conn EXCEPT ![c] = y] /\ x.pc = "recv"
    BY <1>11, Zenon DEF recvRest, Goes
  <2> HIDE DEF r
  <2>2. y.pc = "reply" /\ y.asked = x.asked /\ y.answers = x.answers
    BY <1>1 DEF ConnType
  <2> HIDE DEF y
  <2> QED
    BY <1>2, <2>1, <2>2
<1>10. CASE sendBodyLate(c)
  <2> DEFINE y == [x EXCEPT !.pos = @ - 1, !.rest = @ + 1, !.body = <<>>, !.stalled = TRUE]
  <2>1. y.pc = x.pc /\ y.asked = x.asked /\ y.answers = x.answers
    BY <1>1 DEF ConnType
  <2>2. conn' = [conn EXCEPT ![c] = y]
    BY <1>10 DEF sendBodyLate, Goes
  <2> HIDE DEF y
  <2> QED
    BY <1>2, <2>1, <2>2
<1> QED
  BY <1>3, <1>4, <1>5, <1>6, <1>7, <1>8, <1>9, <1>10, <1>11

\* The POST that is answered with 405 was asked for.
LEMMA PostWasAsked ==
  ASSUME WebInv, NEW c \in Conns, conn[c].pc = "reply", ~conn[c].cur.error,
         conn[c].cur.method = "POST", conn[c].cur.file \notin {"html", "none"}
  PROVE  AskedToPost
<1> DEFINE x == conn[c]
<1>1. x \in ConnType /\ PlacesOK(x)
  BY Stepping
<1>2. x.at > 0 /\ x.cur = Parsed(x, x.at)
  BY <1>1, NoRequestType DEF PlacesOK
<1>3. x.at \in 1 .. Len(x.asked) /\ 1 .. Len(x.asked) = DOMAIN x.asked
  BY <1>1, <1>2 DEF PlacesOK, ConnType, Seen
<1>4. x.cur.file = "binary"
  BY <1>1 DEF ConnType, Request
<1>5. x.asked[x.at].method = "POST" /\ x.asked[x.at].file = "binary"
  BY <1>1, <1>2, <1>3, <1>4, ParsedType
<1> QED
  BY <1>3, <1>5 DEF AskedToPost

LEMMA FilledKeeps ==
  ASSUME NEW x \in ConnType, NEW buf
  PROVE  LET y == Filled(x, buf)
         IN y.pc = "body" /\ y.asked = x.asked /\ y.answers = x.answers
  BY DEF Filled, ConnType

LEMMA ReplyTurns ==
  ASSUME WebInv, files \in Nat, NEW c \in Conns, NEW late \in BOOLEAN, reply(c, late)
  PROVE  \E y : Turns(c, y)
<1> DEFINE w == conn[c]
           x == [w EXCEPT !.stalled = @ \/ late]
<1>1. w \in ConnType /\ PlacesOK(w) /\ w.pc = "reply" /\ (w.stalled \/ late) \in BOOLEAN
  <2>1. w \in ConnType /\ PlacesOK(w)
    BY Stepping
  <2>2. w.pc = "reply"
    BY <2>1 DEF reply, ConnType
  <2> QED
    BY <2>1, <2>2
<1>2. /\ x \in ConnType /\ x.pc = w.pc /\ x.asked = w.asked /\ x.answers = w.answers
      /\ x.at = w.at /\ x.cur = w.cur
  BY <1>1 DEF ConnType
<1>3. x.at \in 0 .. Len(w.asked) /\ (x.at # 0 => x.cur.file = w.asked[x.at].file)
  <2>1. w.at \in Nat /\ w.last \in Nat /\ w.got \in Nat /\ Len(w.asked) \in Nat
    BY <1>1, SMTT(20) DEF ConnType
  <2>2. w.at \in 0 .. Len(w.asked) /\ (w.at = 0 \/ w.cur = Parsed(w, w.at))
    BY <1>1, <2>1 DEF PlacesOK, Seen
  <2>3. w.at # 0 => w.cur.file = w.asked[w.at].file
    BY <1>1, <2>1, <2>2, ParsedType
  <2> HIDE DEF x, w
  <2> QED
    BY <1>2, <2>2, <2>3
<1>4. MaxFiles \in Nat
  BY WebAssumption
<1>5. \/ \E kind \in {"error", "404"} :
           /\ Goes(c, Message(x, kind, late)) /\ files' = files
           /\ kind = "404" => ~Found(x.cur)
      \/ /\ Goes(c, Message(x, "405", late)) /\ files' = files + 1
         /\ ~x.cur.error /\ Found(x.cur) /\ x.cur.method = "POST" /\ x.cur.file # "html"
      \/ Goes(c, Continue(Answered(x, "file"))) /\ files' = files
      \/ \E buf : Goes(c, Filled(x, buf)) /\ files' = files + 1
  BY Zenon DEF reply
<1>6. ASSUME NEW kind \in {"error", "404", "405", "file"},
             kind = "404" => (x.at # 0 => w.asked[x.at].file = "none" \/ files >= MaxFiles)
      PROVE  LET y == Continue(Answered(x, kind))
             IN /\ y.pc \in {"close", "recv", "reply"}
                /\ y.asked = w.asked
                /\ y.answers = w.answers \/ TellsMore(w, y)
  <2> HIDE DEF x, w
  <2> QED
    BY <1>1, <1>2, <1>3, <1>6, TellsStep
<1>7. ASSUME NEW kind \in {"error", "404", "405"},
             kind = "404" => (x.at # 0 => w.asked[x.at].file = "none" \/ files >= MaxFiles)
      PROVE  LET y == Message(x, kind, late)
             IN /\ y.pc \in {"close", "recv", "reply"}
                /\ y.asked = w.asked
                /\ y.answers = w.answers \/ TellsMore(w, y)
  <2>1. CASE late
    <3>1. Message(x, kind, late) = Continue(x)
      BY <2>1 DEF Message
    <3> HIDE DEF x, w
    <3> QED
      BY <1>2, <3>1, ContinueKeeps
  <2>2. CASE ~late
    <3>1. Message(x, kind, late) = Continue(Answered(x, kind))
      BY <2>2 DEF Message
    <3> HIDE DEF x, w
    <3> QED
      BY <1>6, <1>7, <3>1
  <2> QED
    BY <2>1, <2>2
<1>8. ASSUME NEW y, Goes(c, y), y.pc \in {"close", "recv", "reply"}, y.asked = w.asked,
             y.answers = w.answers \/ TellsMore(w, y),
             files' = files \/ (files' = files + 1 /\ AskedToPost)
      PROVE  Turns(c, y)
  BY <1>1, <1>8 DEF Turns, Counts, Goes
<1>9. CASE \E kind \in {"error", "404"} :
             /\ Goes(c, Message(x, kind, late)) /\ files' = files
             /\ kind = "404" => ~Found(x.cur)
  <2>1. PICK kind \in {"error", "404"} :
          /\ Goes(c, Message(x, kind, late)) /\ files' = files
          /\ kind = "404" => ~Found(x.cur)
    BY <1>9
  <2>2. kind = "404" => (x.at # 0 => w.asked[x.at].file = "none" \/ files >= MaxFiles)
    BY <1>3, <1>4, <2>1 DEF Found
  <2> DEFINE y == Message(x, kind, late)
  <2>3. /\ y.pc \in {"close", "recv", "reply"} /\ y.asked = w.asked
        /\ y.answers = w.answers \/ TellsMore(w, y)
    BY <1>7, <2>2
  <2> HIDE DEF y
  <2> QED
    BY <1>8, <2>1, <2>3 DEF y
<1>10. CASE /\ Goes(c, Message(x, "405", late)) /\ files' = files + 1
            /\ ~x.cur.error /\ Found(x.cur) /\ x.cur.method = "POST" /\ x.cur.file # "html"
  <2>1. AskedToPost
    BY <1>1, <1>2, <1>10, PostWasAsked DEF Found
  <2> DEFINE y == Message(x, "405", late)
  <2>2. /\ y.pc \in {"close", "recv", "reply"} /\ y.asked = w.asked
        /\ y.answers = w.answers \/ TellsMore(w, y)
    BY <1>7
  <2> HIDE DEF y
  <2> QED
    BY <1>8, <1>10, <2>1, <2>2 DEF y
<1>11. CASE Goes(c, Continue(Answered(x, "file"))) /\ files' = files
  <2> DEFINE y == Continue(Answered(x, "file"))
  <2>1. /\ y.pc \in {"close", "recv", "reply"} /\ y.asked = w.asked
        /\ y.answers = w.answers \/ TellsMore(w, y)
    BY <1>6
  <2> HIDE DEF y
  <2> QED
    BY <1>8, <1>11, <2>1 DEF y
<1>12. ASSUME NEW buf, Goes(c, Filled(x, buf)), files' = files + 1
       PROVE  \E y : Turns(c, y)
  <2> DEFINE y == Filled(x, buf)
  <2>1. y.pc = "body" /\ y.asked = w.asked /\ y.answers = w.answers
    <3> HIDE DEF x, w
    <3> QED
      BY <1>2, FilledKeeps
  <2> HIDE DEF y
  <2>2. Turns(c, y)
    BY <1>1, <1>12, <2>1 DEF Turns, Counts, Goes, y
  <2> QED
    BY <2>2
<1> QED
  BY <1>5, <1>9, <1>10, <1>11, <1>12

LEMMA SendTurns ==
  ASSUME WebInv, NEW c \in Conns, NEW n \in 1..conn[c].rest, sendBody(c, n)
  PROVE  \E y : Turns(c, y)
<1> DEFINE x == conn[c]
           y == Sent(x, n)
<1>1. x \in ConnType /\ PlacesOK(x) /\ x.pc = "body" /\ n \in Nat
  <2>1. x \in ConnType /\ PlacesOK(x) /\ x.pc = "body"
    BY Stepping DEF sendBody
  <2> QED
    BY <2>1 DEF ConnType
<1>2. /\ y \in ConnType /\ y.pc = "body" /\ y.asked = x.asked /\ y.answers = x.answers
      /\ y.at = x.at
  BY <1>1, SentStep
<1>3. x.at \in 0 .. Len(x.asked)
  BY <1>1 DEF PlacesOK, ConnType, Seen
<1>4. \/ Goes(c, y) /\ files' = files
      \/ \E buf : Goes(c, Filled(y, buf)) /\ files' = files
      \/ Goes(c, Continue(Emptied(Answered(y, "file")))) /\ files' = files - 1
  BY Zenon DEF sendBody, fclose
<1> HIDE DEF x, y
<1>5. CASE Goes(c, y) /\ files' = files
  <2>1. Turns(c, y)
    BY <1>1, <1>2, <1>5 DEF Turns, Counts, Goes, x
  <2> QED
    BY <2>1
<1>6. ASSUME NEW buf, Goes(c, Filled(y, buf)), files' = files
      PROVE  \E z : Turns(c, z)
  <2> DEFINE z == Filled(y, buf)
  <2>1. z.pc = "body" /\ z.asked = x.asked /\ z.answers = x.answers
    BY <1>2, FilledKeeps
  <2> HIDE DEF z
  <2>2. Turns(c, z)
    BY <1>1, <1>6, <2>1 DEF Turns, Counts, Goes, x, z
  <2> QED
    BY <2>2
<1>7. CASE Goes(c, Continue(Emptied(Answered(y, "file")))) /\ files' = files - 1
  <2> DEFINE u == Answered(y, "file")
             v == Emptied(u)
             z == Continue(v)
  <2>1. /\ u \in ConnType /\ u.asked = y.asked
        /\ IF y.at = 0 THEN u.answers = y.answers
           ELSE \E a \in Answer : /\ u.answers = Append(y.answers, a)
                                  /\ a.req = y.at /\ a.kind = "file"
    BY <1>2, AnsweredKeeps
  <2> HIDE DEF u
  <2>2. v \in ConnType /\ v.asked = u.asked /\ v.answers = u.answers
    <3>1. <<>> \in Seq(Int) /\ 0 \in Int /\ 0 \in Nat
      OBVIOUS
    <3> QED
      BY <2>1, <3>1 DEF Emptied, ConnType
  <2> HIDE DEF v
  <2>3. z.pc \in {"close", "recv", "reply"} /\ z.asked = v.asked /\ z.answers = v.answers
    BY <2>2, ContinueKeeps
  <2>4. Goes(c, z)
    BY <1>7 DEF u, v
  <2> HIDE DEF z
  <2>5. z.answers = x.answers \/ TellsMore(x, z)
    <3>1. CASE y.at = 0
      BY <1>2, <2>1, <2>2, <2>3, <3>1
    <3>2. CASE y.at # 0
      <4>1. PICK a \in Answer : u.answers = Append(y.answers, a) /\ a.req = y.at /\ a.kind = "file"
        BY <2>1, <3>2
      <4>2. a.req \in 1 .. Len(x.asked)
        BY <1>2, <1>3, <3>2, <4>1
      <4> QED
        BY <1>2, <2>2, <2>3, <4>1, <4>2 DEF TellsMore
    <3> QED
      BY <3>1, <3>2
  <2>6. Turns(c, z)
    BY <1>1, <1>2, <1>7, <2>1, <2>2, <2>3, <2>4, <2>5 DEF Turns, Counts, Goes, x
  <2> QED
    BY <2>6
<1> QED
  BY <1>4, <1>5, <1>6, <1>7

\* A step that changes no file, no request and no answer.
LEMMA QuietFiles ==
  ASSUME FilesInv, WebInv', AllQuiet, UNCHANGED files,
         ~Running' \/ (Running /\ Sending' = Sending)
  PROVE  /\ FilesInv'
         /\ MissingInv => MissingInv'
<1>1. \A c \in Conns : conn'[c].asked = conn[c].asked /\ conn'[c].answers = conn[c].answers
  BY DEF AllQuiet, Quiet, SamePart
<1>2. AskedToPost' <=> AskedToPost
  BY <1>1 DEF AskedToPost
<1>3. FilesInv'
  BY <1>2 DEF FilesInv
<1>4. ASSUME MissingInv PROVE MissingInv'
  BY <1>1, <1>2, <1>3, <1>4 DEF MissingInv, MissingOK, EnoughFiles
<1> QED
  BY <1>3, <1>4

LEMMA FilesStep ==
  ASSUME FilesInv, [Next]_vars
  PROVE  FilesInv' /\ (MissingInv => MissingInv')
<1>1. WebInv /\ WebInv' /\ files \in Nat
  BY NextStep DEF FilesInv
<1>2. ASSUME NEW c \in Conns, NEW y, Turns(c, y), Running
      PROVE  FilesInv' /\ (MissingInv => MissingInv')
  BY <1>1, <1>2, TurnsFiles, TurnsMissing
<1>3. CASE testDone \/ callAccept \/ ctrlc_handler \/ UNCHANGED vars
  <2>1. conn' = conn /\ files' = files /\ (Running' <=> Running)
    BY <1>3 DEF testDone, callAccept, ctrlc_handler, vars, Running
  <2>2. AllQuiet /\ Sending' = Sending
    BY <2>1 DEF AllQuiet, Quiet, SamePart, Sending
  <2> QED
    BY <1>1, <2>1, <2>2, QuietFiles
<1>4. CASE closeListening
  <2>1. CutOff({c \in Conns : conn[c].pc = "backlog"}) /\ files' = files
    BY <1>4 DEF closeListening
  <2>2. \A d \in Conns :
          /\ Quiet(conn[d], conn'[d])
          /\ IF conn[d].pc = "backlog"
             THEN conn'[d].pc = "cut" ELSE conn'[d].pc = conn[d].pc
    BY <1>1, <2>1, CutOffStep DEF Open
  <2>3. Running /\ AllQuiet /\ Sending' = Sending
    BY <1>4, <2>2 DEF closeListening, Running, AllQuiet, Sending
  <2> QED
    BY <1>1, <2>1, <2>3, QuietFiles
<1>5. CASE CutOff(Conns) /\ main' \in {"exited", "killed"} /\ UNCHANGED files
  <2>1. AllQuiet
    BY <1>1, <1>5, CutOffStep DEF AllQuiet
  <2>2. ~Running'
    BY <1>5 DEF Running
  <2> QED
    BY <1>1, <1>5, <2>1, <2>2, QuietFiles
<1>6. ASSUME NEW c \in Conns, connection_handler(c) \/ clientStep(c) \/ accept(c)
      PROVE  FilesInv' /\ (MissingInv => MissingInv')
  <2>1. conn[c].pc \in Open => Running
    BY <1>1, Stepping
  <2>2. CASE sendSigpipe(c)
    BY <1>5, <2>2 DEF sendSigpipe
  <2>3. CASE \E late \in BOOLEAN : reply(c, late)
    <3>1. conn[c].pc = "reply"
      <4>1. conn[c] \in ConnType
        BY <1>1 DEF WebInv
      <4> QED
        BY <2>3, <4>1 DEF reply, ConnType
    <3>2. Running
      BY <2>1, <3>1 DEF Open, Counted
    <3> QED
      BY <1>1, <1>2, <2>3, <3>2, ReplyTurns
  <2>4. CASE \E n \in 1..conn[c].rest : sendBody(c, n)
    <3>1. Running
      BY <2>1, <2>4 DEF sendBody, Open, Counted
    <3> QED
      BY <1>1, <1>2, <2>4, <3>1, SendTurns
  <2>5. CASE \/ threadStarts(c) \/ recvRest(c) \/ recvNothing(c) \/ recvFailed(c) \/ giveUp(c)
             \/ threadEnds(c)
             \/ \E n \in 0 .. Len(conn[c].asked) - conn[c].got, part \in Parts \cup {"none"} :
                  recvRequests(c, n, part)
             \/ sendBodyLate(c)
    <3>1. files' = files
      BY <2>5 DEF threadStarts, recvRest, recvNothing, recvFailed, giveUp, threadEnds, recvRequests,
                  sendBodyLate
    <3>2. conn[c].pc \in Open
      BY <2>5 DEF threadStarts, recvRest, recvNothing, recvFailed, giveUp, threadEnds, recvRequests,
                  sendBodyLate, Open, Counted
    <3> QED
      BY <1>1, <1>2, <2>1, <2>5, <3>1, <3>2, PlainTurns
  <2>6. CASE clientStep(c) \/ accept(c)
    <3>1. files' = files
      BY <2>6 DEF clientStep, accept
    <3>2. Running
      BY <2>1, <2>6 DEF clientStep, accept, connect, hangUp, ask, Running, Open
    <3> QED
      BY <1>1, <1>2, <2>6, <3>1, <3>2, PlainTurns DEF clientStep
  <2> QED
    BY <1>6, <2>2, <2>3, <2>4, <2>5, <2>6 DEF connection_handler
<1>7. CASE exit
  BY <1>5, <1>7 DEF exit
<1> QED
  BY <1>3, <1>4, <1>6, <1>7 DEF Next, mainStep

LEMMA FilesInit == Init => FilesInv /\ (EnoughFiles => MissingInv)
<1> SUFFICES ASSUME Init PROVE FilesInv /\ (EnoughFiles => MissingInv)
  OBVIOUS
<1>1. \A c \in Conns : conn[c].pc = "none" /\ conn[c].answers = <<>>
  BY DEF Init, NoConn
<1>2. Sending = {} /\ files = 0
  BY <1>1 DEF Sending, Init
<1>3. Cardinality(Sending) = 0
  BY <1>2, FS_EmptySet
<1>4. FilesInv
  BY <1>2, <1>3, InitInv DEF FilesInv
<1> QED
  BY <1>1, <1>4 DEF MissingInv, MissingOK

(***************************************************************************)
(* Every state of the server is well-formed.  The counter of open files    *)
(* never goes below zero: a file is closed once, on the one way on which   *)
(* it was opened and not left open by a 405.                               *)
(***************************************************************************)
THEOREM WebTypes == Spec => []TypeOK
<1>1. ASSUME FilesInv, NEW c \in Conns
      PROVE  /\ conn[c].pc \in Pcs
             /\ conn[c].peer \in {"open", "closed", "reset"}
             /\ conn[c].cur \in Request
             /\ conn[c].got \in Nat /\ Seen(conn[c]) <= Len(conn[c].asked)
             /\ conn[c].at <= conn[c].last /\ conn[c].last <= Seen(conn[c])
  <2>1. conn[c] \in ConnType /\ PlacesOK(conn[c])
    BY <1>1, Stepping DEF FilesInv
  <2> QED
    BY <2>1, SMTT(20) DEF ConnType, PlacesOK, Seen
<1>2. FilesInv => TypeOK
  BY <1>1 DEF FilesInv, WebInv, TypeOK
<1>3. FilesInv /\ [Next]_vars => FilesInv'
  BY FilesStep
<1> QED
  BY <1>2, <1>3, FilesInit, PTL DEF Spec

(***************************************************************************)
(* As long as the process may open one file per connection, a file that is *)
(* there is reported as missing only after a POST to a binary file: on all *)
(* other ways through the answers, over any number of connections,         *)
(* requests and partial sends, as many files are open as bodies are being  *)
(* sent.                                                                   *)
(***************************************************************************)
THEOREM WebNotFoundMeansMissing == EnoughFiles /\ Spec => []NotFoundMeansMissing
<1>1. ASSUME MissingInv, NEW c \in Conns, NEW i \in DOMAIN conn[c].answers,
             conn[c].answers[i].kind = "404"
      PROVE  conn[c].asked[conn[c].answers[i].req].file = "none" \/ AskedToPost
  <2>1. conn[c] \in ConnType /\ MissingOK(conn[c])
    BY <1>1 DEF MissingInv, FilesInv, WebInv
  <2>2. i \in 1 .. Len(conn[c].answers)
    BY <1>1, <2>1, AnswersDomain
  <2> QED
    BY <1>1, <2>1, <2>2 DEF MissingOK
<1>2. MissingInv => NotFoundMeansMissing
  BY <1>1 DEF NotFoundMeansMissing
<1>3. MissingInv /\ [Next]_vars => MissingInv'
  BY FilesStep DEF MissingInv
<1> QED
  BY <1>2, <1>3, FilesInit, PTL DEF Spec
=============================================================================
