---------------------------- MODULE ProxyProofs -----------------------------
(***************************************************************************)
(* Proofs about the caching proxy, for any number of clients, any pages    *)
(* and links, any time to live and any number of failed fetches.           *)
(***************************************************************************)
EXTENDS Proxy, TLAPS

Fields ==
  {"pc", "host", "url", "html", "time", "resp", "sock", "answer", "from", "links"}

\* What holds for every entry of the cache: the response is not older than the
\* clock reading from which its expiry time was counted.
EntryOK(e) ==
  /\ e.born \in 0..now
  /\ e.expire \in TTL..(now + TTL)
  /\ e.born >= e.expire - TTL

\* Between its check and its send a thread relies on an entry that is still
\* there, and that was stored in time.
HitOK(x) ==
  /\ Key(x) \in DOMAIN cache
  /\ lateStore \/ cache[Key(x)].expire >= x.time

\* What holds for every thread.
ThreadOK(i, x) ==
  /\ DOMAIN x = Fields
  /\ x.pc \in Pcs
  /\ x.sock \in {"none", "open", "closed"}
  /\ i[2] = "crawl" => x.sock = "none"
  /\ x.time \in 0..now
  /\ x.resp.born \in 0..now
  /\ x.pc \in {"send", "put", "insert"} => x.resp.born >= x.time
  /\ x.pc = "hit" => HitOK(x)
  /\ x.sock = "closed" => lateStore \/ x.answer.born >= x.time - TTL

\* The inductive invariant for TypeOK and AnswersAreFresh.
FreshInv ==
  /\ now \in 0..MaxTime
  /\ alive \in BOOLEAN
  /\ lateStore \in BOOLEAN
  /\ failures \in 0..MaxFailures
  /\ \A k \in DOMAIN cache : EntryOK(cache[k])
  /\ th = [i \in Ids |-> th[i]]
  /\ \A i \in Ids : ThreadOK(i, th[i])

-----------------------------------------------------------------------------

LEMMA IdsFacts ==
  ASSUME NEW t \in Threads
  PROVE  /\ Serve(t) \in Ids /\ Crawl(t) \in Ids
         /\ Serve(t)[2] = "serve" /\ Crawl(t)[2] = "crawl"
  BY DEF Serve, Crawl, Ids

LEMMA NoThreadOK ==
  ASSUME NEW i \in Ids, now \in Nat
  PROVE  ThreadOK(i, NoThread)
  BY ProxyAssumption DEF ThreadOK, NoThread, NoResponse, Response, Fields, Pcs

\* A step of one thread that leaves the cache alone keeps the invariant if it
\* keeps it for that thread.
LEMMA ThreadStep ==
  ASSUME FreshInv, NEW i \in Ids, NEW x, ThreadOK(i, x), Goes(i, x),
         failures' \in 0..MaxFailures, UNCHANGED <<now, alive, cache, lateStore>>
  PROVE  FreshInv'
<1>1. th' = [j \in Ids |-> th'[j]] /\ \A j \in Ids : th'[j] = IF j = i THEN x ELSE th[j]
  BY DEF FreshInv, Goes
<1> QED
  BY <1>1 DEF FreshInv, ThreadOK, EntryOK, HitOK, Key

\* The same for the entry that a thread stores: if it has expired by now, this
\* is remembered, and otherwise every thread that relies on the entry may.
LEMMA StoreStep ==
  ASSUME FreshInv, NEW i \in Ids, th[i].pc \in {"put", "insert"},
         Stored(th[i]), Returns(i), UNCHANGED <<now, alive, failures>>
  PROVE  FreshInv'
<1> DEFINE x == th[i]
           e == Entry(x)
           y == [x EXCEPT !.resp = NoResponse,
                          !.pc = IF i[2] = "crawl" THEN "link" ELSE IF x.html THEN "spawn" ELSE "done"]
<1>1. ThreadOK(i, x) /\ TTL \in Nat /\ now \in Nat
  BY ProxyAssumption DEF FreshInv
<1>2. e.born = x.resp.born /\ e.expire = x.time + TTL
  BY DEF Entry
<1>3. EntryOK(e)
  <2>1. /\ x.time \in 0..now /\ x.resp.born \in 0..now
        /\ x.resp.born >= x.time
    BY <1>1 DEF ThreadOK
  <2> HIDE DEF x, e
  <2> QED
    BY <1>1, <1>2, <2>1 DEF EntryOK
<1>4. /\ DOMAIN cache' = DOMAIN cache \cup {Key(x)}
      /\ \A k \in DOMAIN cache' : cache'[k] = IF k = Key(x) THEN e ELSE cache[k]
  BY DEF Stored
<1>8. lateStore' \in BOOLEAN /\ (lateStore => lateStore') /\ (e.expire < now => lateStore')
  BY Zenon DEF Stored
<1> HIDE DEF e
<1>5. \A k \in DOMAIN cache' : EntryOK(cache[k])'
  BY <1>3, <1>4 DEF FreshInv, EntryOK
<1>6. /\ th' = [j \in Ids |-> th'[j]]
      /\ \A j \in Ids : th'[j] = IF j = i THEN y ELSE th[j]
  BY DEF FreshInv, Returns, Goes
<1>7. ThreadOK(i, y) /\ y.pc \notin {"send", "put", "insert", "hit"}
  BY <1>1 DEF ThreadOK, NoResponse, Response, Fields, Pcs
<1> HIDE DEF y
<1>9. ASSUME NEW j \in Ids, j # i
      PROVE  ThreadOK(j, th[j])'
  <2>1. ThreadOK(j, th[j]) /\ th'[j] = th[j]
    BY <1>6, <1>9 DEF FreshInv
  <2>2. th[j].pc = "hit" => HitOK(th[j])'
    <3>1. Key(th[j])' = Key(th[j])
      BY <2>1 DEF Key
    <3>2. ASSUME th[j].pc = "hit", Key(th[j]) = Key(x)
          PROVE  HitOK(th[j])'
      <4>1. Key(th[j])' \in DOMAIN cache' /\ cache'[Key(th[j])'] = e
        BY <1>4, <3>1, <3>2
      <4>2. th[j].time \in 0..now /\ (th[j].time)' = th[j].time
        BY <2>1 DEF ThreadOK
      <4>3. e.expire \in Nat /\ now \in Nat /\ (lateStore' \/ e.expire >= now)
        BY <1>1, <1>3, <1>8 DEF EntryOK
      <4> QED
        BY <4>1, <4>2, <4>3 DEF HitOK
    <3>3. ASSUME th[j].pc = "hit", Key(th[j]) # Key(x)
          PROVE  HitOK(th[j])'
      <4>1. HitOK(th[j])
        BY <2>1, <3>3 DEF ThreadOK
      <4>2. Key(th[j])' \in DOMAIN cache' /\ cache'[Key(th[j])'] = cache[Key(th[j])]
        BY <1>4, <3>1, <3>3, <4>1 DEF HitOK
      <4> QED
        BY <1>8, <2>1, <4>1, <4>2 DEF HitOK
    <3> QED
      BY <3>2, <3>3
  <2> QED
    BY <1>8, <2>1, <2>2 DEF ThreadOK
<1>10. ThreadOK(i, th[i])'
  <2>1. th'[i] = y
    BY <1>6
  <2> QED
    BY <1>7, <1>8, <2>1 DEF ThreadOK
<1> QED
  BY <1>5, <1>6, <1>8, <1>9, <1>10 DEF FreshInv

\* The facts about a thread that its steps start from.
LEMMA ThreadFacts ==
  ASSUME FreshInv, NEW i \in Ids
  PROVE  /\ ThreadOK(i, th[i]) /\ DOMAIN th[i] = Fields
         /\ now \in Nat /\ TTL \in Nat /\ th[i].time \in Nat
  BY ProxyAssumption DEF FreshInv, ThreadOK

LEMMA LookUpStep ==
  ASSUME FreshInv, NEW i \in Ids, lookUp(i), UNCHANGED <<now, alive>>
  PROVE  FreshInv'
<1> DEFINE x == th[i]
<1>1. ThreadOK(i, x) /\ DOMAIN x = Fields
  BY ThreadFacts
<1>2. failures' \in 0..MaxFailures
  BY DEF FreshInv, lookUp
<1>3. ASSUME NEW pc \in {"link", "fetch"}
      PROVE  ThreadOK(i, [x EXCEPT !.pc = pc])
  BY <1>1, <1>3 DEF ThreadOK, Fields, Pcs
<1>4. ASSUME Fresh(Key(x), x.time)
      PROVE  ThreadOK(i, [x EXCEPT !.pc = "hit"])
  <2> DEFINE y == [x EXCEPT !.pc = "hit"]
  <2>1. Key(y) = Key(x) /\ y.time = x.time
    BY <1>1 DEF Key, Fields
  <2>2. HitOK(y)
    BY <1>4, <2>1 DEF HitOK, Fresh
  <2> QED
    BY <1>1, <2>2 DEF ThreadOK, Fields, Pcs
<1> QED
  BY <1>2, <1>3, <1>4, ThreadStep DEF lookUp

LEMMA FetchStep ==
  ASSUME FreshInv, NEW i \in Ids, fetchResponse(i), UNCHANGED <<now, alive>>
  PROVE  FreshInv'
<1> DEFINE x == th[i]
<1>1. ThreadOK(i, x) /\ DOMAIN x = Fields /\ now \in Nat
  BY ThreadFacts
<1>2. failures' \in 0..MaxFailures
  BY ProxyAssumption DEF FreshInv, fetchResponse
<1>3. ASSUME NEW p, NEW pc \in {"send", "put", "link"}
      PROVE  ThreadOK(i, [x EXCEPT !.resp = Response(p, now), !.pc = pc])
  <2>1. Response(p, now).born = now
    BY DEF Response
  <2> HIDE DEF x
  <2> QED
    BY <1>1, <1>3, <2>1 DEF ThreadOK, Fields, Pcs
<1>4. PICK p : \E pc \in {"send", "put", "link"} :
        Goes(i, [x EXCEPT !.resp = Response(p, now), !.pc = pc])
  BY DEF fetchResponse, Fetched, Crawled
<1>5. UNCHANGED <<now, alive, cache, lateStore>>
  BY DEF fetchResponse
<1> QED
  BY <1>2, <1>3, <1>4, <1>5, ThreadStep

LEMMA PutStep ==
  ASSUME FreshInv, NEW i \in Ids, putInCache(i), UNCHANGED <<now, alive>>
  PROVE  FreshInv'
<1>1. ThreadOK(i, th[i]) /\ failures \in 0..MaxFailures
  BY ThreadFacts DEF FreshInv
<1>2. CASE replaceInCache(i)
  BY <1>2, StoreStep DEF replaceInCache
<1>3. CASE beginInsert(i)
  <2>1. ThreadOK(i, [th[i] EXCEPT !.pc = "insert"])
    BY <1>1, <1>3 DEF beginInsert, ThreadOK, Fields, Pcs
  <2> QED
    BY <1>1, <1>3, <2>1, ThreadStep DEF beginInsert
<1>4. CASE insertInCache(i)
  <2>1. CASE Stored(th[i])
    BY <1>4, <2>1, StoreStep DEF insertInCache
  <2>2. CASE UNCHANGED <<cache, lateStore>>
    <3> DEFINE y == [th[i] EXCEPT !.resp = NoResponse,
                       !.pc = IF i[2] = "crawl" THEN "link" ELSE IF th[i].html THEN "spawn" ELSE "done"]
    <3>1. ThreadOK(i, y)
      BY <1>1, ThreadFacts DEF ThreadOK, NoResponse, Response, Fields, Pcs
    <3> QED
      BY <1>1, <1>4, <2>2, <3>1, ThreadStep DEF insertInCache, Returns
  <2> QED
    BY <1>4, <2>1, <2>2 DEF insertInCache
<1> QED
  BY <1>2, <1>3, <1>4 DEF putInCache

LEMMA ServeStep ==
  ASSUME FreshInv, NEW t \in Threads, Serves(t)
  PROVE  FreshInv'
<1> DEFINE i == Serve(t)
           x == th[i]
<1>1. i \in Ids /\ Crawl(t) \in Ids /\ i # Crawl(t) /\ i[2] # "crawl"
  BY IdsFacts
<1>2. /\ ThreadOK(i, x) /\ DOMAIN x = Fields /\ failures \in 0..MaxFailures
      /\ now \in Nat /\ TTL \in Nat /\ x.time \in Nat
  BY <1>1, ThreadFacts DEF FreshInv
<1>3. UNCHANGED <<now, alive>>
  BY DEF Serves
<1>4. CASE sendFetched(t)
  <2>1. ThreadOK(i, Answered(x, x.resp, "put"))
    BY <1>1, <1>2, <1>4 DEF sendFetched, Answered, ThreadOK, Fields, Pcs
  <2> QED
    BY <1>1, <1>2, <1>3, <1>4, <2>1, ThreadStep DEF sendFetched
<1>5. CASE sendCached(t)
  <2> DEFINE e == cache[Key(x)]
  <2>1. HitOK(x) /\ EntryOK(e)
    BY <1>2, <1>5 DEF sendCached, ThreadOK, HitOK, FreshInv
  <2>2. lateStore \/ e.born >= x.time - TTL
    BY <1>2, <2>1 DEF HitOK, EntryOK
  <2>3. ThreadOK(i, Answered(x, Response(e.page, e.born), "done"))
    <3> HIDE DEF x
    <3> QED
      BY <1>1, <1>2, <2>2 DEF Answered, Response, ThreadOK, Fields, Pcs
  <2> QED
    BY <1>1, <1>2, <1>3, <1>5, <2>3, ThreadStep DEF sendCached
<1>6. CASE startCrawler(t)
  <2> DEFINE c == Crawl(t)
  <2>1. ThreadOK(i, [x EXCEPT !.pc = "return"]) /\ ThreadOK(c, [th[c] EXCEPT !.pc = "start"])
    BY <1>1, <1>2, ThreadFacts DEF ThreadOK, Fields, Pcs
  <2>2. \A j \in Ids : th'[j] = IF j = i THEN [x EXCEPT !.pc = "return"]
                                ELSE IF j = c THEN [th[c] EXCEPT !.pc = "start"] ELSE th[j]
    BY <1>1, <1>6 DEF startCrawler, FreshInv
  <2>3. th' = [j \in Ids |-> th'[j]]
    BY <1>6 DEF startCrawler, FreshInv
  <2>4. \A j \in Ids : ThreadOK(j, th'[j])
    BY <2>1, <2>2 DEF FreshInv
  <2> QED
    BY <1>3, <1>6, <2>3, <2>4 DEF startCrawler, FreshInv, ThreadOK, EntryOK, HitOK, Key
<1>7. CASE return(t)
  <2>1. ThreadOK(i, [x EXCEPT !.pc = "done"])
    BY <1>2 DEF ThreadOK, Fields, Pcs
  <2> QED
    BY <1>1, <1>2, <1>3, <1>7, <2>1, ThreadStep DEF return
<1>8. CASE lookUp(i) \/ fetchResponse(i) \/ putInCache(i)
  BY <1>1, <1>3, <1>8, LookUpStep, FetchStep, PutStep
<1> QED
  BY <1>4, <1>5, <1>6, <1>7, <1>8 DEF Serves, requestCycle

LEMMA CrawlStep ==
  ASSUME FreshInv, NEW t \in Threads, alive, crawlPage(t), UNCHANGED <<now, alive>>
  PROVE  FreshInv'
<1> DEFINE i == Crawl(t)
           x == th[i]
<1>1. i \in Ids /\ i[2] = "crawl"
  BY IdsFacts
<1>2. /\ ThreadOK(i, x) /\ DOMAIN x = Fields /\ failures \in 0..MaxFailures
      /\ now \in Nat /\ TTL \in Nat
  BY <1>1, ThreadFacts DEF FreshInv
<1>3. ThreadOK(i, NoThread) /\ DOMAIN NoThread = Fields
  BY <1>1, <1>2, NoThreadOK DEF NoThread, Fields
<1>4. CASE readPage(t)
  <2>1. PICK from, links : Goes(i, [NoThread EXCEPT !.pc = "link", !.from = from, !.links = links])
    BY <1>4 DEF readPage
  <2>2. ThreadOK(i, [NoThread EXCEPT !.pc = "link", !.from = from, !.links = links])
    BY <1>3 DEF ThreadOK, Fields, Pcs
  <2>3. UNCHANGED <<cache, failures, lateStore>>
    BY <1>4 DEF readPage
  <2> QED
    BY <1>1, <1>2, <2>1, <2>2, <2>3, ThreadStep
<1>5. CASE nextLink(t)
  <2>1. UNCHANGED <<cache, failures, lateStore>> /\ x.pc = "link"
    BY <1>5 DEF nextLink
  <2>2. \/ Goes(i, [NoThread EXCEPT !.pc = "done"])
        \/ \E ls : Goes(i, [x EXCEPT !.links = ls])
        \/ \E ls, u, h : \E pc \in {"stuck", "lookup"} :
             Goes(i, [x EXCEPT !.links = ls, !.url = u, !.host = h, !.time = now, !.pc = pc])
    BY <1>5 DEF nextLink
  <2>3. ThreadOK(i, [NoThread EXCEPT !.pc = "done"])
    BY <1>3 DEF ThreadOK, Fields, Pcs
  <2>4. ASSUME NEW ls
        PROVE  ThreadOK(i, [x EXCEPT !.links = ls])
    BY <1>2, <2>1 DEF ThreadOK, Fields, Pcs
  <2>5. ASSUME NEW ls, NEW u, NEW h, NEW pc \in {"stuck", "lookup"}
        PROVE  ThreadOK(i, [x EXCEPT !.links = ls, !.url = u, !.host = h, !.time = now, !.pc = pc])
    <3> HIDE DEF x
    <3> QED
      BY <1>1, <1>2, <2>5 DEF ThreadOK, Fields, Pcs
  <2> QED
    BY <1>1, <1>2, <2>1, <2>2, <2>3, <2>4, <2>5, ThreadStep
<1>6. CASE lookUp(i) \/ fetchResponse(i) \/ putInCache(i)
  BY <1>1, <1>6, LookUpStep, FetchStep, PutStep
<1> QED
  BY <1>4, <1>5, <1>6 DEF crawlPage

\* The end of the process keeps the invariant: nothing is left.
LEMMA DiesStep ==
  ASSUME FreshInv, dies, UNCHANGED now
  PROVE  FreshInv'
<1>1. now \in Nat /\ TTL \in Nat
  BY ProxyAssumption DEF FreshInv
<1>2. \A i \in Ids : th'[i] = NoThread /\ ThreadOK(i, NoThread)
  BY <1>1, NoThreadOK DEF dies
<1>3. \A i \in Ids : ThreadOK(i, th[i])'
  BY <1>2 DEF dies, ThreadOK, NoThread
<1>4. DOMAIN cache' = {} /\ th' = [i \in Ids |-> th'[i]]
  BY DEF dies, NoCache
<1> QED
  BY <1>3, <1>4 DEF FreshInv, dies

LEMMA ArriveStep ==
  ASSUME FreshInv, NEW t \in Threads, Arrives(t)
  PROVE  FreshInv'
<1> DEFINE i == Serve(t)
           x == th[i]
<1>1. i \in Ids /\ i[2] # "crawl"
  BY IdsFacts
<1>2. /\ ThreadOK(i, x) /\ DOMAIN x = Fields /\ failures \in 0..MaxFailures /\ now \in Nat
  BY <1>1, ThreadFacts DEF FreshInv
<1>3. UNCHANGED <<now, alive, cache, failures, lateStore>>
  BY DEF Arrives, refuse, getRequest
<1>4. CASE refuse(t)
  <2>1. ThreadOK(i, [x EXCEPT !.pc = "done", !.sock = "open"])
    BY <1>1, <1>2 DEF ThreadOK, Fields, Pcs
  <2> QED
    BY <1>1, <1>2, <1>3, <1>4, <2>1, ThreadStep DEF refuse
<1>5. CASE \E r \in Requests[t] : getRequest(t, r)
  <2>1. PICK h, u, html : \E pc \in {"stuck", "lookup"} :
          Goes(i, [x EXCEPT !.host = h, !.url = u, !.html = html, !.time = now, !.sock = "open",
                            !.pc = pc])
    BY <1>5 DEF getRequest
  <2>2. ASSUME NEW pc \in {"stuck", "lookup"}
        PROVE  ThreadOK(i, [x EXCEPT !.host = h, !.url = u, !.html = html, !.time = now,
                                     !.sock = "open", !.pc = pc])
    <3> HIDE DEF x
    <3> QED
      BY <1>1, <1>2, <2>2 DEF ThreadOK, Fields, Pcs
  <2> QED
    BY <1>1, <1>2, <1>3, <2>1, <2>2, ThreadStep
<1> QED
  BY <1>4, <1>5 DEF Arrives

LEMMA TickStep ==
  ASSUME FreshInv, tick
  PROVE  FreshInv'
<1>1. now \in Nat /\ TTL \in Nat /\ now' = now + 1 /\ now' \in 0..MaxTime
  BY ProxyAssumption DEF FreshInv, tick
<1>2. UNCHANGED <<alive, cache, th, failures, lateStore>>
  BY DEF tick
<1>3. \A k \in DOMAIN cache : EntryOK(cache[k])'
  BY <1>1, <1>2 DEF FreshInv, EntryOK
<1>4. \A i \in Ids : ThreadOK(i, th[i])'
  BY <1>1, <1>2 DEF FreshInv, ThreadOK, HitOK, Key
<1> QED
  BY <1>1, <1>2, <1>3, <1>4 DEF FreshInv

LEMMA FreshInvInit == Init => FreshInv
<1> SUFFICES ASSUME Init PROVE FreshInv
  OBVIOUS
<1>1. now \in Nat /\ now \in 0..MaxTime /\ failures \in 0..MaxFailures
  BY ProxyAssumption DEF Init
<1>2. \A i \in Ids : ThreadOK(i, th[i])
  BY <1>1, NoThreadOK DEF Init
<1>3. DOMAIN cache = {}
  BY DEF Init, NoCache
<1> QED
  BY <1>1, <1>2, <1>3 DEF FreshInv, Init

LEMMA FreshInvNext == FreshInv /\ [Next]_vars => FreshInv'
<1> SUFFICES ASSUME FreshInv, [Next]_vars PROVE FreshInv'
  OBVIOUS
<1>1. ASSUME NEW t \in Threads, Arrives(t) \/ Serves(t) \/ Crawls(t)
      PROVE  FreshInv'
  BY <1>1, ArriveStep, ServeStep, CrawlStep, DiesStep DEF Crawls, nullEntry
<1>2. CASE Breaks
  BY <1>2, DiesStep DEF Breaks, sendSigpipe, fetchSigpipe, mapRace
<1>3. CASE UNCHANGED vars
  BY <1>3 DEF vars, FreshInv, ThreadOK, EntryOK, HitOK, Key
<1> QED
  BY <1>1, <1>2, <1>3, TickStep DEF Next

(***************************************************************************)
(* The cache, the clock and every thread of webproxy.cpp stay in their     *)
(* domains; no clock reading and no response is of the future.             *)
(***************************************************************************)
THEOREM ProxyTypes == Spec => []TypeOK
<1>1. FreshInv => TypeOK
  <2> SUFFICES ASSUME FreshInv PROVE TypeOK
    OBVIOUS
  <2>1. \A k \in DOMAIN cache : cache[k].born \in 0..now /\ cache[k].expire \in 0..(now + TTL)
    BY ProxyAssumption DEF FreshInv, EntryOK
  <2> QED
    BY <2>1 DEF FreshInv, ThreadOK, TypeOK
<1> QED
  BY <1>1, FreshInvInit, FreshInvNext, PTL DEF Spec

(***************************************************************************)
(* No client of the proxy is sent a response older than the time to live,  *)
(* as long as no fetch took longer than that, whatever requestCycle and    *)
(* crawlPage threads replace in the cache between the check of an entry    *)
(* and its second look-up.                                                 *)
(***************************************************************************)
THEOREM ProxyAnswersAreFresh == Spec => []AnswersAreFresh
<1>1. FreshInv => AnswersAreFresh
  BY IdsFacts DEF FreshInv, ThreadOK, AnswersAreFresh
<1> QED
  BY <1>1, FreshInvInit, FreshInvNext, PTL DEF Spec

-----------------------------------------------------------------------------
\* What getKey is uniform for: clients send absolute URLs, as the clients of a
\* proxy do, and no page has a link that is a path from the root.
PlainLinks == {n \in Name : n.proto = TRUE \/ Find(n.text, Slash) # 1}

PlainUrls ==
  /\ \A t \in Threads : \A r \in Requests[t] : r.url.proto = TRUE
  /\ \A p \in DOMAIN Links : Links[p] \in Seq(PlainLinks)

\* Then every URL that a thread looks up, fetches or stores is absolute, and the
\* page is the URL's unless a foreign server was asked for it.
PlainEntry(k, e) == e.url.proto = TRUE /\ (e.page \in {<<>>, k} \/ k \in spoiled)

PlainThread(i, x) ==
  /\ x.pc \in {"lookup", "hit", "fetch", "send", "put", "insert"} => x.url.proto = TRUE
  /\ x.pc \in {"send", "put", "insert"} =>
       x.resp.page \in {<<>>, x.url.text} \/ x.url.text \in spoiled
  /\ i[2] = "serve" => x.answer.page \in {<<>>, PageOf(x)} \/ Key(x) \in spoiled
  /\ x.pc = "none" => x.answer.page = <<>>
  /\ i[2] = "crawl" /\ x.pc \in {"link", "lookup", "fetch", "put", "insert"} =>
       x.from.url.proto = TRUE /\ x.links \in Seq(PlainLinks)

\* The inductive invariant for UniformKeys and AnswersMatch.
PlainInv ==
  /\ PlainUrls
  /\ FreshInv
  /\ \A k \in DOMAIN cache : PlainEntry(k, cache[k])
  /\ \A i \in Ids : PlainThread(i, th[i])

LEMMA PlainKey ==
  ASSUME NEW x, x.url.proto = TRUE
  PROVE  Key(x) = x.url.text /\ PageOf(x) = x.url.text
  BY DEF Key, getKey, PageOf

\* PageOf and Key depend on the host and the URL only.
LEMMA SamePage ==
  ASSUME NEW x, NEW y, y.host = x.host, y.url = x.url
  PROVE  PageOf(y) = PageOf(x) /\ Key(y) = Key(x)
  BY DEF PageOf, Key

LEMMA PlainFacts ==
  ASSUME PlainInv, NEW i \in Ids
  PROVE  PlainThread(i, th[i]) /\ DOMAIN th[i] = Fields
  BY DEF PlainInv, FreshInv, ThreadOK

\* What is spoiled stays so.
LEMMA PlainStays ==
  ASSUME spoiled \subseteq spoiled'
  PROVE  /\ \A i, x : PlainThread(i, x) => PlainThread(i, x)'
         /\ \A k, e : PlainEntry(k, e) => PlainEntry(k, e)'
  BY DEF PlainThread, PlainEntry, PageOf, Key

\* A step of one thread that leaves the cache alone.
LEMMA PlainChange ==
  ASSUME PlainInv, FreshInv', NEW i \in Ids, NEW x, PlainThread(i, x)', Goes(i, x), UNCHANGED cache,
         spoiled \subseteq spoiled'
  PROVE  PlainInv'
<1>1. \A j \in Ids : th'[j] = IF j = i THEN x ELSE th[j]
  BY DEF PlainInv, FreshInv, Goes
<1>2. ASSUME NEW j \in Ids PROVE PlainThread(j, th[j])'
  <2>1. CASE j = i
    <3>1. th'[j] = x
      BY <1>1, <2>1
    <3> QED
      BY <2>1, <3>1 DEF PlainThread
  <2>2. CASE j # i
    <3>1. PICK y : y = th[j]
      OBVIOUS
    <3>2. PlainThread(j, y)
      BY <3>1 DEF PlainInv
    <3>3. PlainThread(j, y)'
      BY <3>2, PlainStays
    <3>4. th'[j] = y
      BY <1>1, <2>2, <3>1
    <3> QED
      BY <3>3, <3>4 DEF PlainThread
  <2> QED
    BY <2>1, <2>2
<1>3. ASSUME NEW k \in DOMAIN cache' PROVE PlainEntry(k, cache[k])'
  BY DEF PlainInv, PlainEntry
<1> QED
  BY <1>2, <1>3 DEF PlainInv, PlainUrls

LEMMA PlainThreadStep ==
  ASSUME PlainInv, FreshInv', NEW i \in Ids, NEW x, PlainThread(i, x), Goes(i, x),
         UNCHANGED <<cache, spoiled>>
  PROVE  PlainInv'
<1>1. spoiled \subseteq spoiled'
  OBVIOUS
<1>2. PlainThread(i, x)'
  BY <1>1, PlainStays
<1> QED
  BY <1>1, <1>2, PlainChange

LEMMA PlainLookUp ==
  ASSUME PlainInv, FreshInv', NEW i \in Ids, lookUp(i)
  PROVE  PlainInv'
<1> DEFINE x == th[i]
<1>1. PlainThread(i, x) /\ DOMAIN x = Fields /\ x.pc = "lookup"
  BY PlainFacts DEF lookUp
<1>2. PICK pc \in {"hit", "link", "fetch"} : Goes(i, [x EXCEPT !.pc = pc])
  BY DEF lookUp
<1>3. PageOf([x EXCEPT !.pc = pc]) = PageOf(x) /\ Key([x EXCEPT !.pc = pc]) = Key(x)
  BY <1>1, SamePage DEF Fields
<1>4. PlainThread(i, [x EXCEPT !.pc = pc])
  <2> HIDE DEF x
  <2> QED
    BY <1>1, <1>3 DEF PlainThread, Fields
<1> QED
  BY <1>2, <1>4, PlainThreadStep DEF lookUp

\* What arrives is the page, or nothing, or a foreign server was asked.
LEMMA PlainFetch ==
  ASSUME PlainInv, FreshInv', NEW i \in Ids, fetchResponse(i)
  PROVE  PlainInv'
<1> DEFINE x == th[i]
           url == x.url.text
<1>1. PlainThread(i, x) /\ DOMAIN x = Fields /\ x.pc = "fetch" /\ UNCHANGED cache
  BY PlainFacts DEF fetchResponse
<1>2. Key(x) = url /\ PageOf(x) = url /\ x.url.proto = TRUE
  BY <1>1, PlainKey DEF PlainThread
<1>3. spoiled \subseteq spoiled'
  BY DEF fetchResponse
<1>4. PICK p : /\ \E pc \in {"send", "put", "link"} :
                    Goes(i, [x EXCEPT !.resp = Response(p, now), !.pc = pc])
               /\ p \in {<<>>, url} \/ url \in spoiled'
  <2>1. CASE /\ Goes(i, Fetched(i, Response(PageAt(Contacted(x), x.url), now)))
             /\ spoiled' = spoiled \cup {k \in {Key(x)} : Misdirected(x)}
    <3>1. PageAt(Contacted(x), x.url) = url \/ url \in spoiled'
      BY <1>2, <2>1 DEF PageAt, Misdirected
    <3> QED
      BY <2>1, <3>1 DEF Fetched, Crawled
  <2>2. CASE Goes(i, Fetched(i, Response(<<>>, now)))
    BY <2>2 DEF Fetched, Crawled
  <2> QED
    BY <2>1, <2>2 DEF fetchResponse
<1>5. PICK pc \in {"send", "put", "link"} : Goes(i, [x EXCEPT !.resp = Response(p, now), !.pc = pc])
  BY <1>4
<1>6. PICK y : y = [x EXCEPT !.resp = Response(p, now), !.pc = pc]
  OBVIOUS
<1>7. /\ y.pc = pc /\ y.resp.page = p /\ y.url = x.url /\ y.answer = x.answer
      /\ y.from = x.from /\ y.links = x.links /\ PageOf(y) = PageOf(x) /\ Key(y) = Key(x)
  BY <1>1, <1>6, SamePage DEF Fields, Response
<1>8. PlainThread(i, y)'
  <2> HIDE DEF x
  <2> QED
    BY <1>1, <1>2, <1>3, <1>4, <1>7 DEF PlainThread, PageOf, Key
<1> QED
  BY <1>1, <1>3, <1>5, <1>6, <1>8, PlainChange

LEMMA PlainReturns ==
  ASSUME PlainInv, FreshInv', NEW i \in Ids, th[i].pc \in {"put", "insert"}, Returns(i),
         Stored(th[i]) \/ UNCHANGED cache, UNCHANGED spoiled
  PROVE  PlainInv'
<1> DEFINE x == th[i]
           y == [x EXCEPT !.resp = NoResponse,
                          !.pc = IF i[2] = "crawl" THEN "link" ELSE IF x.html THEN "spawn" ELSE "done"]
<1>1. PlainThread(i, x) /\ DOMAIN x = Fields /\ x.pc \in {"put", "insert"}
  BY PlainFacts
<1>2. PageOf(y) = PageOf(x) /\ Key(y) = Key(x)
  BY <1>1, SamePage DEF Fields
<1>3. PlainThread(i, y)
  <2>1. /\ y.pc \in {"link", "spawn", "done"} /\ (y.pc = "link" => i[2] = "crawl")
        /\ y.answer = x.answer /\ y.from = x.from /\ y.links = x.links
    BY <1>1 DEF Fields
  <2> HIDE DEF x, y
  <2> QED
    BY <1>1, <1>2, <2>1 DEF PlainThread
<1>4. \A j \in Ids : th'[j] = IF j = i THEN y ELSE th[j]
  BY DEF PlainInv, FreshInv, Returns, Goes
<1> HIDE DEF y
<1>5. \A j \in Ids : PlainThread(j, th[j])'
  <2>1. \A j \in Ids : PlainThread(j, th'[j])
    BY <1>3, <1>4 DEF PlainInv
  <2> QED
    BY <2>1 DEF PlainThread, PageOf, Key
<1>6. Key(x) = x.url.text /\ PlainEntry(Key(x), Entry(x))
  BY <1>1, PlainKey DEF PlainThread, PlainEntry, Entry
<1>7. \A k \in DOMAIN cache' : PlainEntry(k, cache[k])'
  BY <1>6 DEF Stored, PlainInv, PlainEntry
<1> QED
  BY <1>5, <1>7 DEF PlainInv, PlainUrls

LEMMA PlainPut ==
  ASSUME PlainInv, FreshInv', NEW i \in Ids, putInCache(i)
  PROVE  PlainInv'
<1>1. CASE replaceInCache(i) \/ insertInCache(i)
  BY <1>1, PlainReturns DEF replaceInCache, insertInCache
<1>2. CASE beginInsert(i)
  <2> DEFINE x == th[i]
             y == [x EXCEPT !.pc = "insert"]
  <2>1. PlainThread(i, x) /\ DOMAIN x = Fields /\ PageOf(y) = PageOf(x) /\ Key(y) = Key(x)
    BY PlainFacts, SamePage DEF Fields
  <2>2. PlainThread(i, y)
    BY <1>2, <2>1 DEF beginInsert, PlainThread, Fields
  <2> QED
    BY <1>2, <2>2, PlainThreadStep DEF beginInsert
<1> QED
  BY <1>1, <1>2 DEF putInCache

LEMMA PlainServe ==
  ASSUME PlainInv, FreshInv', NEW t \in Threads, requestCycle(t)
  PROVE  PlainInv'
<1> DEFINE i == Serve(t)
           x == th[i]
<1>1. i \in Ids /\ i[2] = "serve" /\ Crawl(t) \in Ids /\ i # Crawl(t)
  BY IdsFacts
<1>2. PlainThread(i, x) /\ DOMAIN x = Fields
  BY <1>1, PlainFacts
<1>3. ASSUME NEW r, NEW pc \in {"put", "done"}, r.page \in {<<>>, PageOf(x)} \/ Key(x) \in spoiled,
             pc = "put" => x.pc = "send"
      PROVE  PlainThread(i, Answered(x, r, pc))
  <2> DEFINE y == Answered(x, r, pc)
  <2>1. /\ y.pc = pc /\ y.answer = r /\ y.resp = x.resp
        /\ y.host = x.host /\ y.url = x.url
    BY <1>2 DEF Answered, Fields
  <2>2. PageOf(y) = PageOf(x) /\ Key(y) = Key(x)
    BY <2>1, SamePage
  <2>3. pc = "put" => y.url.proto = TRUE /\ (y.resp.page \in {<<>>, y.url.text} \/ y.url.text \in spoiled)
    BY <1>2, <1>3, <2>1 DEF PlainThread
  <2>4. y.answer.page \in {<<>>, PageOf(y)} \/ Key(y) \in spoiled
    BY <1>3, <2>1, <2>2
  <2> HIDE DEF x, i
  <2> QED
    BY <1>1, <1>3, <2>1, <2>3, <2>4 DEF PlainThread
<1>4. CASE sendFetched(t)
  <2>1. x.pc = "send" /\ (x.resp.page \in {<<>>, PageOf(x)} \/ Key(x) \in spoiled)
    BY <1>2, <1>4, PlainKey DEF sendFetched, PlainThread
  <2> QED
    BY <1>1, <1>3, <1>4, <2>1, PlainThreadStep DEF sendFetched
<1>5. CASE sendCached(t)
  <2> DEFINE e == cache[Key(x)]
  <2>1. x.pc = "hit" /\ Key(x) \in DOMAIN cache
    BY <1>1, <1>5, ThreadFacts DEF sendCached, PlainInv, ThreadOK, HitOK
  <2>2. Key(x) = PageOf(x)
    BY <1>2, <2>1, PlainKey DEF PlainThread
  <2>3. Response(e.page, e.born).page \in {<<>>, PageOf(x)} \/ Key(x) \in spoiled
    BY <2>1, <2>2 DEF PlainInv, PlainEntry, Response
  <2> QED
    BY <1>1, <1>3, <1>5, <2>3, PlainThreadStep DEF sendCached
<1>6. CASE startCrawler(t)
  <2> DEFINE c == Crawl(t)
             y == [x EXCEPT !.pc = "return"]
             z == [th[c] EXCEPT !.pc = "start"]
  <2>1. PlainThread(c, th[c]) /\ DOMAIN th[c] = Fields /\ c[2] = "crawl"
    BY <1>1, PlainFacts, IdsFacts
  <2>2. PageOf(y) = PageOf(x) /\ Key(y) = Key(x) /\ PlainThread(i, y)
    BY <1>1, <1>2, SamePage DEF PlainThread, Fields
  <2>3. PlainThread(c, z)
    BY <2>1 DEF PlainThread, Fields
  <2>4. \A j \in Ids : th'[j] = IF j = i THEN y ELSE IF j = c THEN z ELSE th[j]
    BY <1>1, <1>6 DEF startCrawler, PlainInv, FreshInv
  <2> HIDE DEF y, z
  <2>5. \A j \in Ids : PlainThread(j, th[j])'
    <3>1. \A j \in Ids : PlainThread(j, th'[j])
      BY <2>2, <2>3, <2>4 DEF PlainInv
    <3>2. UNCHANGED spoiled
      BY <1>6 DEF startCrawler
    <3> QED
      BY <3>1, <3>2 DEF PlainThread, PageOf, Key
  <2>6. \A k \in DOMAIN cache' : PlainEntry(k, cache[k])'
    BY <1>6 DEF startCrawler, PlainInv, PlainEntry
  <2> QED
    BY <2>5, <2>6 DEF PlainInv, PlainUrls
<1>7. CASE return(t)
  <2> DEFINE y == [x EXCEPT !.pc = "done"]
  <2>1. PageOf(y) = PageOf(x) /\ Key(y) = Key(x) /\ PlainThread(i, y)
    BY <1>1, <1>2, SamePage DEF PlainThread, Fields
  <2> QED
    BY <1>1, <1>7, <2>1, PlainThreadStep DEF return
<1>8. CASE lookUp(i) \/ fetchResponse(i) \/ putInCache(i)
  BY <1>1, <1>8, PlainLookUp, PlainFetch, PlainPut
<1> QED
  BY <1>4, <1>5, <1>6, <1>7, <1>8 DEF requestCycle

LEMMA PlainCrawl ==
  ASSUME PlainInv, FreshInv', NEW t \in Threads, crawlPage(t)
  PROVE  PlainInv'
<1> DEFINE i == Crawl(t)
           x == th[i]
<1>1. i \in Ids /\ i[2] = "crawl" /\ Serve(t) \in Ids
  BY IdsFacts
<1>2. PlainThread(i, x) /\ DOMAIN x = Fields
  BY <1>1, PlainFacts
<1>3. CASE readPage(t)
  <2>0. PICK k \in DOMAIN cache :
          LET e == cache[k]
          IN Goes(i, [NoThread EXCEPT !.pc = "link", !.from = [host |-> e.host, url |-> e.url],
                        !.links = IF e.page \in DOMAIN Links THEN Links[e.page] ELSE <<>>])
    BY <1>3, Zenon DEF readPage
  <2> DEFINE e == cache[k]
             from == [host |-> e.host, url |-> e.url]
             links == IF e.page \in DOMAIN Links THEN Links[e.page] ELSE <<>>
             y == [NoThread EXCEPT !.pc = "link", !.from = from, !.links = links]
  <2>1. from.url.proto = TRUE
    BY DEF PlainInv, PlainEntry
  <2>2. links \in Seq(PlainLinks)
    BY DEF PlainInv, PlainUrls
  <2>3. y.pc = "link" /\ y.from = from /\ y.links = links
    BY DEF NoThread
  <2>4. Goes(i, y) /\ UNCHANGED <<cache, spoiled>>
    BY <1>3, <2>0 DEF readPage
  <2> HIDE DEF y, from, links
  <2> QED
    BY <1>1, <2>1, <2>2, <2>3, <2>4, PlainThreadStep DEF PlainThread
<1>4. CASE nextLink(t)
  <2> DEFINE link == Head(x.links)
             url == Resolved(x.from, link)
             host == HostOf(x.from, url)
  <2>1. x.pc = "link" /\ x.from.url.proto = TRUE /\ x.links \in Seq(PlainLinks) /\ UNCHANGED <<cache, spoiled>>
    BY <1>1, <1>2, <1>4 DEF nextLink, PlainThread
  <2>2. CASE x.links = <<>> /\ Goes(i, [NoThread EXCEPT !.pc = "done"])
    <3>1. PlainThread(i, [NoThread EXCEPT !.pc = "done"])
      BY <1>1 DEF PlainThread, NoThread
    <3> QED
      BY <1>1, <2>1, <2>2, <3>1, PlainThreadStep
  <2>3. CASE x.links # <<>>
    <3>1. link \in PlainLinks /\ Tail(x.links) \in Seq(PlainLinks)
      BY <2>1, <2>3
    <3>2. url.proto = TRUE
      BY <2>1, <3>1 DEF Resolved, PlainLinks, Name
    <3>3. CASE Goes(i, [x EXCEPT !.links = Tail(@)])
      <4> DEFINE y == [x EXCEPT !.links = Tail(@)]
      <4>1. y.links = Tail(x.links) /\ y.pc = "link" /\ y.from = x.from
        BY <1>2, <2>1 DEF Fields
      <4> HIDE DEF y, x
      <4>2. PlainThread(i, y)
        BY <1>1, <2>1, <3>1, <4>1 DEF PlainThread
      <4> QED
        BY <1>1, <2>1, <3>3, <4>2, PlainThreadStep DEF y
    <3>4. ASSUME NEW pc \in {"stuck", "lookup"}
          PROVE  PlainThread(i, [x EXCEPT !.links = Tail(@), !.url = url, !.host = host,
                                          !.time = now, !.pc = pc])
      <4> DEFINE y == [x EXCEPT !.links = Tail(@), !.url = url, !.host = host, !.time = now, !.pc = pc]
      <4> HIDE DEF url, host
      <4>1. y.links = Tail(x.links) /\ y.pc = pc /\ y.from = x.from /\ y.url = url
        BY <1>2 DEF Fields
      <4> HIDE DEF y, x
      <4> QED
        BY <1>1, <2>1, <3>1, <3>2, <4>1 DEF PlainThread
    <3>5. \/ Goes(i, [x EXCEPT !.links = Tail(@)])
          \/ \E pc \in {"stuck", "lookup"} :
               Goes(i, [x EXCEPT !.links = Tail(@), !.url = url, !.host = host, !.time = now, !.pc = pc])
      BY <1>4, <2>3 DEF nextLink
    <3> QED
      BY <1>1, <2>1, <3>3, <3>4, <3>5, PlainThreadStep
  <2> QED
    BY <1>4, <2>2, <2>3 DEF nextLink
<1>5. CASE lookUp(i) \/ fetchResponse(i) \/ putInCache(i)
  BY <1>1, <1>5, PlainLookUp, PlainFetch, PlainPut
<1> QED
  BY <1>3, <1>4, <1>5 DEF crawlPage

LEMMA PlainArrive ==
  ASSUME PlainInv, FreshInv', NEW t \in Threads, Arrives(t)
  PROVE  PlainInv'
<1> DEFINE i == Serve(t)
           x == th[i]
<1>1. i \in Ids /\ i[2] = "serve"
  BY IdsFacts
<1>2. PlainThread(i, x) /\ DOMAIN x = Fields /\ x.pc = "none" /\ UNCHANGED <<cache, spoiled>>
  BY <1>1, PlainFacts DEF Arrives, refuse, getRequest
<1>3. x.answer.page = <<>>
  BY <1>2 DEF PlainThread
<1>4. CASE refuse(t)
  <2>1. PlainThread(i, [x EXCEPT !.pc = "done", !.sock = "open"])
    BY <1>1, <1>2, <1>3 DEF PlainThread, Fields
  <2> QED
    BY <1>1, <1>2, <1>4, <2>1, PlainThreadStep DEF refuse
<1>5. CASE \E r \in Requests[t] : getRequest(t, r)
  <2>1. PICK r \in Requests[t] : getRequest(t, r)
    BY <1>5
  <2> DEFINE pc == IF KeyDiverges(r.host, r.url) THEN "stuck" ELSE "lookup"
             y == [x EXCEPT !.host = r.host, !.url = r.url, !.html = r.html, !.time = now,
                            !.sock = "open", !.pc = pc]
  <2>2. r.url.proto = TRUE
    BY <2>1 DEF PlainInv, PlainUrls
  <2>3. Goes(i, y)
    BY <2>1 DEF getRequest
  <2>4. y.pc \in {"stuck", "lookup"} /\ y.url = r.url /\ y.answer = x.answer
    BY <1>2 DEF Fields
  <2> HIDE DEF y, x
  <2>5. PlainThread(i, y)
    BY <1>1, <1>3, <2>2, <2>4 DEF PlainThread
  <2> QED
    BY <1>1, <1>2, <2>3, <2>5, PlainThreadStep
<1> QED
  BY <1>4, <1>5 DEF Arrives

\* Steps that change no thread and nothing in the cache, and the end of the
\* process.
LEMMA PlainOther ==
  ASSUME PlainInv, FreshInv', dies \/ UNCHANGED <<cache, th, spoiled>>
  PROVE  PlainInv'
<1>1. CASE dies
  <2>1. DOMAIN cache' = {} /\ \A i \in Ids : th'[i] = NoThread
    BY <1>1 DEF dies, NoCache
  <2>2. NoThread.pc = "none" /\ NoThread.answer.page = <<>>
    BY DEF NoThread, NoResponse, Response
  <2>3. \A i \in Ids : PlainThread(i, th[i])'
    BY <2>1, <2>2 DEF PlainThread
  <2> QED
    BY <2>1, <2>3 DEF PlainInv, PlainUrls
<1>2. CASE UNCHANGED <<cache, th, spoiled>>
  BY <1>2 DEF PlainInv, PlainUrls, PlainEntry, PlainThread, PageOf, Key
<1> QED
  BY <1>1, <1>2

LEMMA PlainInvNext == PlainInv /\ [Next]_vars => PlainInv'
<1> SUFFICES ASSUME PlainInv, [Next]_vars PROVE PlainInv'
  OBVIOUS
<1>1. FreshInv'
  BY FreshInvNext DEF PlainInv
<1>2. ASSUME NEW t \in Threads, Arrives(t) \/ Serves(t) \/ Crawls(t)
      PROVE  PlainInv'
  BY <1>1, <1>2, PlainArrive, PlainServe, PlainCrawl, PlainOther DEF Serves, Crawls, nullEntry
<1>3. CASE Breaks \/ tick \/ UNCHANGED vars
  BY <1>1, <1>3, PlainOther DEF Breaks, sendSigpipe, fetchSigpipe, mapRace, tick, vars
<1> QED
  BY <1>2, <1>3 DEF Next

LEMMA PlainInvInit == PlainUrls /\ Init => PlainInv
<1> SUFFICES ASSUME PlainUrls, Init PROVE PlainInv
  OBVIOUS
<1>1. DOMAIN cache = {} /\ \A i \in Ids : th[i] = NoThread
  BY DEF Init, NoCache
<1>2. NoThread.pc = "none" /\ NoThread.answer.page = <<>>
  BY DEF NoThread, NoResponse, Response
<1>3. \A i \in Ids : PlainThread(i, th[i])
  BY <1>1, <1>2 DEF PlainThread
<1> QED
  BY <1>1, <1>3, FreshInvInit DEF PlainInv

(***************************************************************************)
(* The keys of getKey are uniform, for client requests and crawl requests, *)
(* as long as clients send absolute URLs and no link of a page is a path   *)
(* from the root (the run proxy_key shows what such a link does).  Any     *)
(* Host headers and links without a path are allowed: where they direct a  *)
(* fetch to a server that the URL does not name, this spoils the key of    *)
(* that URL, and no other key.                                             *)
(***************************************************************************)
THEOREM ProxyUniformKeys == PlainUrls /\ Spec => []UniformKeys
<1>1. PlainInv => UniformKeys
  BY DEF PlainInv, PlainEntry, UniformKeys
<1> QED
  BY <1>1, PlainInvInit, PlainInvNext, PTL DEF Spec

(***************************************************************************)
(* Under the same condition a client is sent the page it asked for or      *)
(* nothing, whichever thread fetched it and whenever it was replaced in    *)
(* the cache, as long as no thread has asked a foreign server for it.      *)
(***************************************************************************)
THEOREM ProxyAnswersMatch == PlainUrls /\ Spec => []AnswersMatch
<1>1. PlainInv => AnswersMatch
  BY IdsFacts DEF PlainInv, PlainThread, AnswersMatch
<1> QED
  BY <1>1, PlainInvInit, PlainInvNext, PTL DEF Spec

-----------------------------------------------------------------------------
\* Empty responses.

\* A client was sent the empty response that was fetched at time b.
Told(b) ==
  \E t \in Threads :
    th[Serve(t)].sock = "closed" /\ th[Serve(t)].answer = Response(<<>>, b)

\* A client is answered once, and what its thread is about to store is its
\* answer; a crawler is about to store a page.
EmptyThread(i, x) ==
  /\ i[2] = "serve" /\ x.pc \in {"none", "lookup", "fetch", "send", "hit"} => x.sock # "closed"
  /\ x.pc = "send" => x.resp = Response(x.resp.page, x.resp.born)
  /\ x.pc \in {"put", "insert"} =>
       IF i[2] = "serve"
       THEN x.sock = "closed" /\ x.answer = x.resp /\ x.resp = Response(x.resp.page, x.resp.born)
       ELSE x.resp.page # <<>>

\* The inductive invariant for EmptyWasAnswered.
EmptyInv ==
  /\ FreshInv
  /\ \A k \in DOMAIN cache : cache[k].page = <<>> => Told(cache[k].born)
  /\ \A i \in Ids : EmptyThread(i, th[i])

LEMMA EmptyFacts ==
  ASSUME EmptyInv, NEW i \in Ids
  PROVE  /\ EmptyThread(i, th[i]) /\ DOMAIN th[i] = Fields
         /\ i[2] = "crawl" => th[i].sock = "none"
         /\ i[2] \in {"serve", "crawl"}
  BY DEF EmptyInv, FreshInv, ThreadOK, Ids

\* A thread goes on with the record x; what its client was sent, it was sent.
LEMMA EmptyGoes ==
  ASSUME EmptyInv, NEW i \in Ids, NEW x, EmptyThread(i, x), Goes(i, x),
         th[i].sock = "closed" => x.sock = "closed" /\ x.answer = th[i].answer
  PROVE  /\ \A j \in Ids : EmptyThread(j, th[j])'
         /\ \A b : Told(b) => Told(b)'
<1>1. \A j \in Ids : th'[j] = IF j = i THEN x ELSE th[j]
  BY DEF EmptyInv, FreshInv, Goes
<1>2. \A j \in Ids : EmptyThread(j, th[j])'
  <2>1. \A j \in Ids : EmptyThread(j, th'[j])
    BY <1>1 DEF EmptyInv
  <2> QED
    BY <2>1 DEF EmptyThread
<1>3. ASSUME NEW b, Told(b)
      PROVE  Told(b)'
  <2>1. PICK t \in Threads :
          th[Serve(t)].sock = "closed" /\ th[Serve(t)].answer = Response(<<>>, b)
    BY <1>3 DEF Told
  <2>2. th'[Serve(t)].sock = "closed" /\ th'[Serve(t)].answer = Response(<<>>, b)
    BY <1>1, <2>1, IdsFacts
  <2> QED
    BY <2>2 DEF Told
<1> QED
  BY <1>2, <1>3

LEMMA EmptyThreadStep ==
  ASSUME EmptyInv, FreshInv', NEW i \in Ids, NEW x, EmptyThread(i, x), Goes(i, x),
         th[i].sock = "closed" => x.sock = "closed" /\ x.answer = th[i].answer,
         UNCHANGED cache
  PROVE  EmptyInv'
<1>1. \A j \in Ids : EmptyThread(j, th[j])'
  BY EmptyGoes
<1>2. \A b : Told(b) => Told(b)'
  BY EmptyGoes
<1>3. \A k \in DOMAIN cache' : cache'[k].page = <<>> => Told(cache[k].born)'
  BY <1>2 DEF EmptyInv, Told
<1> QED
  BY <1>1, <1>3 DEF EmptyInv

LEMMA EmptyLookUp ==
  ASSUME EmptyInv, FreshInv', NEW i \in Ids, lookUp(i)
  PROVE  EmptyInv'
<1> DEFINE x == th[i]
<1>1. EmptyThread(i, x) /\ DOMAIN x = Fields /\ x.pc = "lookup" /\ UNCHANGED cache
  BY EmptyFacts DEF lookUp
<1>2. PICK pc \in {"hit", "link", "fetch"} : Goes(i, [x EXCEPT !.pc = pc])
  BY DEF lookUp
<1> DEFINE y == [x EXCEPT !.pc = pc]
<1>3. y.pc = pc /\ y.sock = x.sock /\ y.answer = x.answer
  BY <1>1 DEF Fields
<1> HIDE DEF y, x
<1>4. EmptyThread(i, y)
  BY <1>1, <1>3 DEF EmptyThread
<1> QED
  BY <1>1, <1>2, <1>3, <1>4, EmptyThreadStep DEF x, y

LEMMA EmptyFetch ==
  ASSUME EmptyInv, FreshInv', NEW i \in Ids, fetchResponse(i)
  PROVE  EmptyInv'
<1> DEFINE x == th[i]
<1>1. EmptyThread(i, x) /\ DOMAIN x = Fields /\ x.pc = "fetch" /\ UNCHANGED cache
  BY EmptyFacts DEF fetchResponse
<1>2. PICK p : \E pc :
        /\ Goes(i, [x EXCEPT !.resp = Response(p, now), !.pc = pc])
        /\ \/ i[2] = "serve" /\ pc = "send"
           \/ i[2] # "serve" /\ pc = IF p = <<>> THEN "link" ELSE "put"
  BY DEF fetchResponse, Fetched, Crawled, Response
<1>3. PICK pc :
        /\ Goes(i, [x EXCEPT !.resp = Response(p, now), !.pc = pc])
        /\ \/ i[2] = "serve" /\ pc = "send"
           \/ i[2] # "serve" /\ pc = IF p = <<>> THEN "link" ELSE "put"
  BY <1>2
<1> DEFINE y == [x EXCEPT !.resp = Response(p, now), !.pc = pc]
<1>4. y.pc = pc /\ y.sock = x.sock /\ y.answer = x.answer /\ y.resp = Response(p, now)
  BY <1>1 DEF Fields
<1>5. Response(p, now).page = p /\ Response(p, now).born = now
  BY DEF Response
<1> HIDE DEF y, x
<1>6. EmptyThread(i, y)
  BY <1>1, <1>3, <1>4, <1>5 DEF EmptyThread
<1> QED
  BY <1>1, <1>3, <1>4, <1>6, EmptyThreadStep DEF x, y

\* A thread stores what its client was sent, or a page.
LEMMA EmptyReturns ==
  ASSUME EmptyInv, FreshInv', NEW i \in Ids, th[i].pc \in {"put", "insert"}, Returns(i),
         Stored(th[i]) \/ UNCHANGED cache
  PROVE  EmptyInv'
<1> DEFINE x == th[i]
           e == Entry(x)
           y == [x EXCEPT !.resp = NoResponse,
                          !.pc = IF i[2] = "crawl" THEN "link" ELSE IF x.html THEN "spawn" ELSE "done"]
<1>1. /\ EmptyThread(i, x) /\ DOMAIN x = Fields /\ x.pc \in {"put", "insert"}
      /\ i[2] \in {"serve", "crawl"}
  BY EmptyFacts
<1>2. y.pc \in {"link", "spawn", "done"} /\ y.sock = x.sock /\ y.answer = x.answer /\ Goes(i, y)
  BY <1>1 DEF Fields, Returns
<1> HIDE DEF y
<1>3. EmptyThread(i, y)
  BY <1>2 DEF EmptyThread
<1>4. \A j \in Ids : EmptyThread(j, th[j])'
  BY <1>2, <1>3, EmptyGoes
<1>5. \A b : Told(b) => Told(b)'
  BY <1>2, <1>3, EmptyGoes
<1>6. ASSUME e.page = <<>> PROVE Told(e.born)
  <2>1. e.page = x.resp.page /\ e.born = x.resp.born
    BY DEF Entry
  <2>2. i[2] = "serve" /\ x.sock = "closed" /\ x.answer = Response(<<>>, e.born)
    BY <1>1, <1>6, <2>1 DEF EmptyThread
  <2>3. PICK t \in Threads : i = Serve(t)
    BY <2>2 DEF Ids, Serve
  <2> QED
    BY <2>2, <2>3 DEF Told
<1>7. \A k \in DOMAIN cache' : cache'[k].page = <<>> => Told(cache'[k].born)
  <2>1. CASE UNCHANGED cache
    BY <2>1 DEF EmptyInv
  <2>2. CASE Stored(th[i])
    <3>1. \A k \in DOMAIN cache' : \/ cache'[k] = e
                                   \/ k \in DOMAIN cache /\ cache'[k] = cache[k]
      BY <2>2 DEF Stored
    <3> HIDE DEF e
    <3> QED
      BY <1>6, <3>1 DEF EmptyInv
  <2> QED
    BY <2>1, <2>2
<1>8. \A k \in DOMAIN cache' : cache'[k].page = <<>> => Told(cache[k].born)'
  <2> SUFFICES ASSUME NEW k \in DOMAIN cache', cache'[k].page = <<>>
               PROVE  Told(cache[k].born)'
    OBVIOUS
  <2>1. PICK b : b = cache'[k].born
    OBVIOUS
  <2>2. Told(b)'
    BY <1>5, <1>7, <2>1
  <2> QED
    BY <2>1, <2>2 DEF Told
<1> QED
  BY <1>4, <1>8 DEF EmptyInv

LEMMA EmptyPut ==
  ASSUME EmptyInv, FreshInv', NEW i \in Ids, putInCache(i)
  PROVE  EmptyInv'
<1>1. CASE replaceInCache(i) \/ insertInCache(i)
  BY <1>1, EmptyReturns DEF replaceInCache, insertInCache
<1>2. CASE beginInsert(i)
  <2> DEFINE x == th[i]
             y == [x EXCEPT !.pc = "insert"]
  <2>1. EmptyThread(i, x) /\ DOMAIN x = Fields /\ x.pc = "put" /\ UNCHANGED cache /\ Goes(i, y)
    BY <1>2, EmptyFacts DEF beginInsert
  <2>2. y.pc = "insert" /\ y.sock = x.sock /\ y.answer = x.answer /\ y.resp = x.resp
    BY <2>1 DEF Fields
  <2> HIDE DEF x, y
  <2>3. EmptyThread(i, y)
    BY <2>1, <2>2 DEF EmptyThread
  <2> QED
    BY <2>1, <2>2, <2>3, EmptyThreadStep DEF x
<1> QED
  BY <1>1, <1>2 DEF putInCache

LEMMA EmptyServe ==
  ASSUME EmptyInv, FreshInv', NEW t \in Threads, requestCycle(t)
  PROVE  EmptyInv'
<1> DEFINE i == Serve(t)
           x == th[i]
<1>1. i \in Ids /\ i[2] = "serve" /\ Crawl(t) \in Ids /\ i # Crawl(t)
  BY IdsFacts
<1>2. EmptyThread(i, x) /\ DOMAIN x = Fields
  BY <1>1, EmptyFacts
<1>3. ASSUME NEW r, NEW pc \in {"put", "done"}, Goes(i, Answered(x, r, pc)), UNCHANGED cache,
             \/ x.pc = "send" /\ r = x.resp
             \/ x.pc = "hit" /\ pc = "done"
      PROVE  EmptyInv'
  <2> DEFINE y == Answered(x, r, pc)
  <2>1. y.pc = pc /\ y.answer = r /\ y.sock = "closed" /\ y.resp = x.resp
    BY <1>2 DEF Answered, Fields
  <2>2. x.sock # "closed" /\ (x.pc = "send" => x.resp = Response(x.resp.page, x.resp.born))
    BY <1>1, <1>2, <1>3 DEF EmptyThread
  <2> HIDE DEF x, y, i
  <2>3. EmptyThread(i, y)
    BY <1>1, <1>3, <2>1, <2>2 DEF EmptyThread
  <2> QED
    BY <1>1, <1>3, <2>2, <2>3, EmptyThreadStep DEF x, y
<1>4. CASE sendFetched(t)
  BY <1>3, <1>4 DEF sendFetched
<1>5. CASE sendCached(t)
  BY <1>3, <1>5 DEF sendCached
<1>6. CASE startCrawler(t)
  <2> DEFINE c == Crawl(t)
             y == [x EXCEPT !.pc = "return"]
             z == [th[c] EXCEPT !.pc = "start"]
  <2>1. DOMAIN th[c] = Fields /\ th[c].sock = "none"
    BY <1>1, EmptyFacts, IdsFacts
  <2>2. \A j \in Ids : th'[j] = IF j = i THEN y ELSE IF j = c THEN z ELSE th[j]
    BY <1>1, <1>6 DEF startCrawler, EmptyInv, FreshInv
  <2>3. /\ y.pc = "return" /\ y.sock = x.sock /\ y.answer = x.answer
        /\ z.pc = "start" /\ z.sock = "none"
    BY <1>2, <2>1 DEF Fields
  <2>4. UNCHANGED cache
    BY <1>6 DEF startCrawler
  <2>5. EmptyThread(i, y) /\ EmptyThread(c, z)
    BY <2>3 DEF EmptyThread
  <2> HIDE DEF y, z
  <2>6. \A j \in Ids : EmptyThread(j, th[j])'
    <3>1. \A j \in Ids : EmptyThread(j, th'[j])
      BY <2>2, <2>5 DEF EmptyInv
    <3> QED
      BY <3>1 DEF EmptyThread
  <2>7. ASSUME NEW b, Told(b) PROVE Told(b)'
    <3>1. PICK u \in Threads :
            th[Serve(u)].sock = "closed" /\ th[Serve(u)].answer = Response(<<>>, b)
      BY <2>7 DEF Told
    <3>2. Serve(u) \in Ids /\ Serve(u) # c
      BY IdsFacts
    <3>3. th'[Serve(u)].sock = "closed" /\ th'[Serve(u)].answer = Response(<<>>, b)
      BY <2>2, <2>3, <3>1, <3>2
    <3> QED
      BY <3>3 DEF Told
  <2>8. \A k \in DOMAIN cache' : cache'[k].page = <<>> => Told(cache[k].born)'
    BY <2>4, <2>7 DEF EmptyInv, Told
  <2> QED
    BY <2>6, <2>8 DEF EmptyInv
<1>7. CASE return(t)
  <2> DEFINE y == [x EXCEPT !.pc = "done"]
  <2>1. y.pc = "done" /\ y.sock = x.sock /\ y.answer = x.answer /\ Goes(i, y) /\ UNCHANGED cache
    BY <1>2, <1>7 DEF Fields, return
  <2> HIDE DEF y
  <2>2. EmptyThread(i, y)
    BY <2>1 DEF EmptyThread
  <2> QED
    BY <1>1, <2>1, <2>2, EmptyThreadStep
<1>8. CASE lookUp(i) \/ fetchResponse(i) \/ putInCache(i)
  BY <1>1, <1>8, EmptyLookUp, EmptyFetch, EmptyPut
<1> QED
  BY <1>4, <1>5, <1>6, <1>7, <1>8 DEF requestCycle

LEMMA EmptyCrawl ==
  ASSUME EmptyInv, FreshInv', NEW t \in Threads, crawlPage(t)
  PROVE  EmptyInv'
<1> DEFINE i == Crawl(t)
           x == th[i]
<1>1. i \in Ids /\ i[2] = "crawl" /\ x.sock = "none" /\ DOMAIN x = Fields
  BY IdsFacts, EmptyFacts
<1>2. ASSUME NEW y, Goes(i, y), UNCHANGED cache, y.pc \in {"link", "stuck", "lookup", "done"}
      PROVE  EmptyInv'
  <2>1. EmptyThread(i, y)
    BY <1>1, <1>2 DEF EmptyThread
  <2> QED
    BY <1>1, <1>2, <2>1, EmptyThreadStep
<1>3. CASE readPage(t)
  <2>1. PICK from, links : Goes(i, [NoThread EXCEPT !.pc = "link", !.from = from, !.links = links])
    BY <1>3 DEF readPage
  <2>2. [NoThread EXCEPT !.pc = "link", !.from = from, !.links = links].pc = "link"
    BY DEF NoThread
  <2> QED
    BY <1>2, <1>3, <2>1, <2>2 DEF readPage
<1>4. CASE nextLink(t)
  <2>1. UNCHANGED cache /\ x.pc = "link"
    BY <1>4 DEF nextLink
  <2>2. \/ Goes(i, [NoThread EXCEPT !.pc = "done"])
        \/ \E ls : Goes(i, [x EXCEPT !.links = ls])
        \/ \E ls, u, h : \E pc \in {"stuck", "lookup"} :
             Goes(i, [x EXCEPT !.links = ls, !.url = u, !.host = h, !.time = now, !.pc = pc])
    BY <1>4 DEF nextLink
  <2>3. [NoThread EXCEPT !.pc = "done"].pc = "done"
    BY DEF NoThread
  <2>4. ASSUME NEW ls PROVE [x EXCEPT !.links = ls].pc = "link"
    BY <1>1, <2>1 DEF Fields
  <2>5. ASSUME NEW ls, NEW u, NEW h, NEW pc \in {"stuck", "lookup"}
        PROVE  [x EXCEPT !.links = ls, !.url = u, !.host = h, !.time = now, !.pc = pc].pc = pc
    BY <1>1 DEF Fields
  <2> HIDE DEF x
  <2>6. CASE Goes(i, [NoThread EXCEPT !.pc = "done"])
    BY <1>2, <2>1, <2>3, <2>6
  <2>7. CASE \E ls : Goes(i, [x EXCEPT !.links = ls])
    <3>1. PICK ls : Goes(i, [x EXCEPT !.links = ls])
      BY <2>7
    <3> DEFINE y == [x EXCEPT !.links = ls]
    <3>2. y.pc = "link"
      BY <2>4
    <3> HIDE DEF y
    <3> QED
      BY <1>2, <2>1, <3>1, <3>2 DEF y
  <2>8. CASE \E ls, u, h : \E pc \in {"stuck", "lookup"} :
               Goes(i, [x EXCEPT !.links = ls, !.url = u, !.host = h, !.time = now, !.pc = pc])
    <3>1. PICK ls, u, h : \E pc \in {"stuck", "lookup"} :
            Goes(i, [x EXCEPT !.links = ls, !.url = u, !.host = h, !.time = now, !.pc = pc])
      BY <2>8
    <3>2. PICK pc \in {"stuck", "lookup"} :
            Goes(i, [x EXCEPT !.links = ls, !.url = u, !.host = h, !.time = now, !.pc = pc])
      BY <3>1
    <3> DEFINE y == [x EXCEPT !.links = ls, !.url = u, !.host = h, !.time = now, !.pc = pc]
    <3>3. y.pc = pc
      BY <2>5
    <3> HIDE DEF y
    <3> QED
      BY <1>2, <2>1, <3>2, <3>3 DEF y
  <2> QED
    BY <2>2, <2>6, <2>7, <2>8
<1>5. CASE lookUp(i) \/ fetchResponse(i) \/ putInCache(i)
  BY <1>1, <1>5, EmptyLookUp, EmptyFetch, EmptyPut
<1> QED
  BY <1>3, <1>4, <1>5 DEF crawlPage

LEMMA EmptyArrive ==
  ASSUME EmptyInv, FreshInv', NEW t \in Threads, Arrives(t)
  PROVE  EmptyInv'
<1> DEFINE i == Serve(t)
           x == th[i]
<1>1. i \in Ids /\ i[2] = "serve"
  BY IdsFacts
<1>2. EmptyThread(i, x) /\ DOMAIN x = Fields /\ x.pc = "none" /\ UNCHANGED cache
  BY <1>1, EmptyFacts DEF Arrives, refuse, getRequest
<1>3. x.sock # "closed"
  BY <1>1, <1>2 DEF EmptyThread
<1>4. PICK y : Goes(i, y) /\ y.sock = "open" /\ y.pc \in {"done", "stuck", "lookup"}
  <2>1. CASE refuse(t)
    <3> DEFINE y == [x EXCEPT !.pc = "done", !.sock = "open"]
    <3>1. Goes(i, y)
      BY <2>1 DEF refuse
    <3>2. y.pc = "done" /\ y.sock = "open"
      BY <1>2 DEF Fields
    <3> HIDE DEF y
    <3> QED
      BY <3>1, <3>2
  <2>2. CASE \E r \in Requests[t] : getRequest(t, r)
    <3>1. PICK r \in Requests[t] : getRequest(t, r)
      BY <2>2
    <3> DEFINE pc == IF KeyDiverges(r.host, r.url) THEN "stuck" ELSE "lookup"
               y == [x EXCEPT !.host = r.host, !.url = r.url, !.html = r.html, !.time = now,
                              !.sock = "open", !.pc = pc]
    <3>2. Goes(i, y) /\ pc \in {"stuck", "lookup"}
      BY <3>1 DEF getRequest
    <3> HIDE DEF pc
    <3>3. y.pc = pc /\ y.sock = "open"
      BY <1>2 DEF Fields
    <3> HIDE DEF y
    <3> QED
      BY <3>2, <3>3
  <2> QED
    BY <2>1, <2>2 DEF Arrives
<1>5. EmptyThread(i, y)
  BY <1>4 DEF EmptyThread
<1> QED
  BY <1>1, <1>2, <1>3, <1>4, <1>5, EmptyThreadStep

LEMMA EmptyOther ==
  ASSUME EmptyInv, FreshInv', dies \/ UNCHANGED <<cache, th>>
  PROVE  EmptyInv'
<1>1. CASE dies
  <2>1. DOMAIN cache' = {} /\ \A i \in Ids : th'[i] = NoThread
    BY <1>1 DEF dies, NoCache
  <2>2. NoThread.pc = "none" /\ NoThread.sock = "none"
    BY DEF NoThread
  <2>3. \A i \in Ids : EmptyThread(i, th[i])'
    BY <2>1, <2>2 DEF EmptyThread
  <2> QED
    BY <2>1, <2>3 DEF EmptyInv
<1>2. CASE UNCHANGED <<cache, th>>
  BY <1>2 DEF EmptyInv, EmptyThread, Told
<1> QED
  BY <1>1, <1>2

LEMMA EmptyInvNext == EmptyInv /\ [Next]_vars => EmptyInv'
<1> SUFFICES ASSUME EmptyInv, [Next]_vars PROVE EmptyInv'
  OBVIOUS
<1>1. FreshInv'
  BY FreshInvNext DEF EmptyInv
<1>2. ASSUME NEW t \in Threads, Arrives(t) \/ Serves(t) \/ Crawls(t)
      PROVE  EmptyInv'
  BY <1>1, <1>2, EmptyArrive, EmptyServe, EmptyCrawl, EmptyOther DEF Serves, Crawls, nullEntry
<1>3. CASE Breaks \/ tick \/ UNCHANGED vars
  BY <1>1, <1>3, EmptyOther DEF Breaks, sendSigpipe, fetchSigpipe, mapRace, tick, vars
<1> QED
  BY <1>2, <1>3 DEF Next

LEMMA EmptyInvInit == Init => EmptyInv
<1> SUFFICES ASSUME Init PROVE EmptyInv
  OBVIOUS
<1>1. DOMAIN cache = {} /\ \A i \in Ids : th[i] = NoThread
  BY DEF Init, NoCache
<1>2. NoThread.pc = "none" /\ NoThread.sock = "none"
  BY DEF NoThread
<1>3. \A i \in Ids : EmptyThread(i, th[i])
  BY <1>1, <1>2 DEF EmptyThread
<1> QED
  BY <1>1, <1>3, FreshInvInit DEF EmptyInv

(***************************************************************************)
(* The crawler never replaces a page by a failure: every empty response in *)
(* the cache is one that a client was sent, for any requests, links and    *)
(* interleavings of the unlocked insertions.                               *)
(***************************************************************************)
THEOREM ProxyEmptyWasAnswered == Spec => []EmptyWasAnswered
<1>1. EmptyInv => EmptyWasAnswered
  BY DEF EmptyInv, Told, EmptyWasAnswered
<1> QED
  BY <1>1, EmptyInvInit, EmptyInvNext, PTL DEF Spec
=============================================================================
