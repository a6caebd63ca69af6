------------------------------- MODULE Proxy --------------------------------
(***************************************************************************)
(* The caching web proxy of PA4 (webproxy.cpp): a requestCycle thread per  *)
(* client, a crawlPage thread for the links of a page, and the cache that  *)
(* all of them share.                                                      *)
(***************************************************************************)
EXTENDS ProxyKey

CONSTANTS
  Threads,      \* clients, each with the thread that serves it
  Requests,     \* what each client may ask for: Host header, URI, and whether it is html
  Links,        \* Links[p]: the URLs in the href and src attributes of page p, if it has some
  Servers,      \* the names of the hosts that exist
  TTL,          \* CACHE_TTL
  MaxTime,      \* bound: the last value of the clock
  MaxFailures   \* bound: fetches that get no response

\* A host or a URL.
Name == [proto : BOOLEAN, text : Seq(STRING)]

ASSUME ProxyAssumption ==
  /\ \A t \in Threads : \A r \in Requests[t] :
       r.host \in Name /\ r.url \in Name /\ r.html \in BOOLEAN
  /\ \A p \in DOMAIN Links : p # <<>> /\ Links[p] \in Seq(Name)
  /\ Servers \subseteq Seq(STRING) \ {<<>>}
  /\ TTL \in Nat /\ MaxTime \in Nat /\ MaxFailures \in Nat

VARIABLES
  now,         \* time()
  alive,       \* the process has not been killed
  cache,       \* the entry of every key in the map
  th,          \* the threads
  failures,    \* how many fetches got no response
  lateStore,   \* history: an entry was stored after it had expired
  spoiled      \* history: the keys for which a foreign server was asked

vars == <<now, alive, cache, th, failures, lateStore, spoiled>>

\* A requestCycle thread, and the crawlPage thread that it may start.
Serve(t) == <<t, "serve">>
Crawl(t) == <<t, "crawl">>
Ids == Threads \X {"serve", "crawl"}

\* A response: the page it is of, <<>> if there is none, and the time at which
\* the origin server gave it.
Response(p, time) == [page |-> p, born |-> time]
NoResponse == Response(<<>>, 0)

NoName == [proto |-> FALSE, text |-> <<>>]

\* host, url: of the request or of the link being fetched; time: currentTime;
\* sock: the client's socket; answer: what the client was sent; asked: the page
\* it wanted.  from, links: host and url of the page that is crawled, and its
\* links still to visit.
NoThread ==
  [pc |-> "none", host |-> NoName, url |-> NoName, html |-> FALSE, time |-> 0,
   resp |-> NoResponse, sock |-> "none", answer |-> NoResponse,
   from |-> [host |-> NoName, url |-> NoName], links |-> <<>>]

NoCache == [k \in {} |-> NoResponse]

Init ==
  /\ now = 0
  /\ alive = TRUE
  /\ cache = NoCache
  /\ th = [i \in Ids |-> NoThread]
  /\ failures = 0
  /\ lateStore = FALSE
  /\ spoiled = {}

\* Thread i goes on with the record x.
Goes(i, x) == th' = [th EXCEPT ![i] = x]

-----------------------------------------------------------------------------
\* The cache, as both kinds of threads use it.

\* The page that a host and a URL stand for.
PageOf(x) == IF x.url.proto THEN x.url.text ELSE x.host.text \o x.url.text

Key(x) == getKey(x.host, x.url)

\* The CachedResponse that thread x makes of what it fetched.
Entry(x) ==
  [page |-> x.resp.page, born |-> x.resp.born, expire |-> x.time + TTL,
   host |-> x.host, url |-> x.url]

\* The host in an absolute URL.
Site(url) ==
  SubSeq(url.text, 1, (IF Find(url.text, Slash) = 0 THEN Len(url.text) + 1 ELSE Find(url.text, Slash)) - 1)

\* The server that is asked for a page: the one that the Host header or the
\* crawler names, and the URL's only if there is no such name.
Contacted(x) == IF x.host.text = <<>> /\ x.url.proto THEN Site(x.url) ELSE x.host.text

\* A name with a protocol in front is not found.
Reaches(x) == ~x.host.proto /\ Contacted(x) \in Servers

\* A server other than the one in the URL is asked.
Misdirected(x) == x.url.proto /\ Contacted(x) # Site(x.url)

\* What the server s answers when it is asked for url: the page, if it is one
\* of its own, and otherwise what it has itself at that path.
PageAt(s, url) ==
  IF ~url.proto THEN s \o url.text
  ELSE IF s = Site(url) THEN url.text
  ELSE s \o SubSeq(url.text, Len(Site(url)) + 1, Len(url.text))

\* Another thread is in the middle of an insertion, against which no lock
\* protects: what thread i then finds or stores in the map is undefined.
Disturbed(i) == \E j \in Ids \ {i} : th[j].pc = "insert"

\* Mutant of Fresh: the expiry time is not looked at.
FreshAlways(k, time) == k \in DOMAIN cache

\* The entry is in the map and has not expired.
Fresh(k, time) == k \in DOMAIN cache /\ cache[k].expire >= time

\* The conditions of requestCycle and crawlPage.  A disturbed map may not show
\* the entry.
lookUp(i) ==
  LET x == th[i]
  IN /\ x.pc = "lookup"
     /\ \/ Fresh(Key(x), x.time) /\ Goes(i, [x EXCEPT !.pc = IF i[2] = "serve" THEN "hit" ELSE "link"])
        \/ ~Fresh(Key(x), x.time) /\ Goes(i, [x EXCEPT !.pc = "fetch"])
        \/ Disturbed(i) /\ Goes(i, [x EXCEPT !.pc = "fetch"])
     /\ UNCHANGED <<cache, failures, lateStore, spoiled>>

\* Mutant of Crawled: the crawler stores empty responses too.
CrawledEmpty(x, r) == [x EXCEPT !.resp = r, !.pc = "put"]

\* The crawler stores a response if there is one.
Crawled(x, r) == [x EXCEPT !.resp = r, !.pc = IF r.page = <<>> THEN "link" ELSE "put"]

\* What thread i does with the response it has fetched.
Fetched(i, r) ==
  IF i[2] = "serve" THEN [th[i] EXCEPT !.resp = r, !.pc = "send"] ELSE Crawled(th[i], r)

\* fetchResponse: the server that is asked answers, or the response is empty
\* because the host is not found, the connection fails or nothing is received.
fetchResponse(i) ==
  LET x == th[i]
  IN /\ x.pc = "fetch"
     /\ \/ /\ Reaches(x)
           /\ Goes(i, Fetched(i, Response(PageAt(Contacted(x), x.url), now)))
           /\ spoiled' = spoiled \cup {k \in {Key(x)} : Misdirected(x)}
           /\ UNCHANGED failures
        \/ /\ ~Reaches(x)
           /\ Goes(i, Fetched(i, Response(<<>>, now)))
           /\ UNCHANGED <<failures, spoiled>>
        \/ /\ Reaches(x)
           /\ failures < MaxFailures
           /\ failures' = failures + 1
           /\ Goes(i, Fetched(i, Response(<<>>, now)))
           /\ UNCHANGED spoiled
     /\ UNCHANGED <<cache, lateStore>>

\* putInCache returns: the crawler goes on with its links, requestCycle starts a
\* crawler for an html page.
Returns(i) ==
  Goes(i, [th[i] EXCEPT !.resp = NoResponse,
                        !.pc = IF i[2] = "crawl" THEN "link"
                               ELSE IF th[i].html THEN "spawn" ELSE "done"])

\* cache[ key ] = cachedResponse
Stored(x) ==
  /\ cache' = [k \in DOMAIN cache \cup {Key(x)} |-> IF k = Key(x) THEN Entry(x) ELSE cache[k]]
  /\ lateStore' = (lateStore \/ Entry(x).expire < now)

\* An entry replaces another one, whose lock is held.
replaceInCache(i) ==
  /\ th[i].pc = "put"
  /\ Key(th[i]) \in DOMAIN cache
  /\ Stored(th[i])
  /\ Returns(i)
  /\ UNCHANGED <<failures, spoiled>>

\* A new key is inserted, without a lock.  Until insertInCache the thread is in
\* the middle of it; an insertion that was disturbed may be lost.
beginInsert(i) ==
  /\ th[i].pc = "put"
  /\ Key(th[i]) \notin DOMAIN cache
  /\ Goes(i, [th[i] EXCEPT !.pc = "insert"])
  /\ UNCHANGED <<cache, failures, lateStore, spoiled>>

insertInCache(i) ==
  /\ th[i].pc = "insert"
  /\ \/ Stored(th[i])
     \/ Disturbed(i) /\ UNCHANGED <<cache, lateStore>>
  /\ Returns(i)
  /\ UNCHANGED <<failures, spoiled>>

putInCache(i) == replaceInCache(i) \/ beginInsert(i) \/ insertInCache(i)

-----------------------------------------------------------------------------
\* requestCycle, for client t.

\* Mutant of getRequest: the clock is read ahead.
getRequestAhead(t, r) ==
  LET x == th[Serve(t)]
  IN /\ x.pc = "none"
     /\ Goes(Serve(t),
             [x EXCEPT !.host = r.host, !.url = r.url, !.html = r.html, !.time = now + 1,
                       !.sock = "open", !.pc = "lookup"])
     /\ UNCHANGED <<cache, failures, lateStore, spoiled>>

\* main has accepted the client and created the thread; getRequest receives the
\* request r and parseRequest accepts it.  Its key is computed, if getKey comes
\* to an end, and the clock is read.
getRequest(t, r) ==
  LET x == th[Serve(t)]
  IN /\ x.pc = "none"
     /\ Goes(Serve(t),
             [x EXCEPT !.host = r.host, !.url = r.url, !.html = r.html, !.time = now, !.sock = "open",
                       !.pc = IF KeyDiverges(r.host, r.url) THEN "stuck" ELSE "lookup"])
     /\ UNCHANGED <<cache, failures, lateStore, spoiled>>

\* parseRequest finds an error: it is sent, and the socket stays open.
refuse(t) ==
  /\ th[Serve(t)].pc = "none"
  /\ Goes(Serve(t), [th[Serve(t)] EXCEPT !.pc = "done", !.sock = "open"])
  /\ UNCHANGED <<cache, failures, lateStore, spoiled>>

\* The client is sent r and its socket is closed.
Answered(x, r, pc) == [x EXCEPT !.answer = r, !.sock = "closed", !.pc = pc]

\* sendResponse and closeSocket of a fetched response.
sendFetched(t) ==
  LET x == th[Serve(t)]
  IN /\ x.pc = "send"
     /\ Goes(Serve(t), Answered(x, x.resp, "put"))
     /\ UNCHANGED <<cache, failures, lateStore, spoiled>>

\* The same for the entry that is in the map by now.
sendCached(t) ==
  LET x == th[Serve(t)]
      e == cache[Key(x)]
  IN /\ x.pc = "hit"
     /\ Goes(Serve(t), Answered(x, Response(e.page, e.born), "done"))
     /\ UNCHANGED <<cache, failures, lateStore, spoiled>>

\* The crawler is given a pointer to the characters of this thread's key.
startCrawler(t) ==
  /\ th[Serve(t)].pc = "spawn"
  /\ th' = [th EXCEPT ![Serve(t)].pc = "return", ![Crawl(t)].pc = "start"]
  /\ UNCHANGED <<cache, failures, lateStore, spoiled>>

\* The thread returns, and its key is freed.
return(t) ==
  /\ th[Serve(t)].pc = "return"
  /\ Goes(Serve(t), [th[Serve(t)] EXCEPT !.pc = "done"])
  /\ UNCHANGED <<cache, failures, lateStore, spoiled>>

requestCycle(t) ==
  \/ sendFetched(t) \/ sendCached(t) \/ startCrawler(t) \/ return(t)
  \/ lookUp(Serve(t)) \/ fetchResponse(Serve(t)) \/ putInCache(Serve(t))

-----------------------------------------------------------------------------
\* crawlPage, for the page that client t was sent.

\* getHostUriAndDataFromCacheForCrawling.  When requestCycle has returned, the
\* memory of the key holds it still, or the key of any other entry.
readPage(t) ==
  /\ th[Crawl(t)].pc = "start"
  /\ \E k \in DOMAIN cache :
       LET e == cache[k]
       IN /\ k = Key(th[Serve(t)]) \/ th[Serve(t)].pc = "done"
          /\ Goes(Crawl(t),
                  [NoThread EXCEPT !.pc = "link", !.from = [host |-> e.host, url |-> e.url],
                                   !.links = IF e.page \in DOMAIN Links THEN Links[e.page] ELSE <<>>])
  /\ UNCHANGED <<cache, failures, lateStore, spoiled>>

\* The part of s up to its last slash.
Dir(s) ==
  LET at == {i \in DOMAIN s : s[i] = Slash}
  IN IF at = {} THEN <<>> ELSE SubSeq(s, 1, CHOOSE i \in at : \A j \in at : j <= i)

\* Mutant of Resolved: a relative path is taken from the root.
ResolvedFromRoot(from, link) ==
  IF link.proto THEN link
  ELSE [proto |-> FALSE, text |-> <<Slash>> \o link.text]

\* A relative path is taken relative to the page's own URL.
Resolved(from, link) ==
  IF link.proto \/ Find(link.text, Slash) = 1 THEN link
  ELSE [proto |-> from.url.proto, text |-> Dir(from.url.text) \o link.text]

\* The host is taken from an absolute URL; one without a path loses its last
\* character.
HostOf(from, url) ==
  LET end == IF Find(url.text, Slash) = 0 THEN Len(url.text) ELSE Find(url.text, Slash)
  IN IF url.proto THEN [proto |-> FALSE, text |-> SubSeq(url.text, 1, end - 1)]
     ELSE from.host

\* The next tag with a link, which is not an anchor in the same page, or the end.
nextLink(t) ==
  LET x == th[Crawl(t)]
      link == Head(x.links)
      url == Resolved(x.from, link)
      host == HostOf(x.from, url)
  IN /\ x.pc = "link"
     /\ \/ x.links = <<>> /\ Goes(Crawl(t), [NoThread EXCEPT !.pc = "done"])
        \/ /\ x.links # <<>>
           /\ IF ~link.proto /\ Find(link.text, Hash) = 1
              THEN Goes(Crawl(t), [x EXCEPT !.links = Tail(@)])
              ELSE Goes(Crawl(t), [x EXCEPT !.links = Tail(@), !.url = url, !.host = host, !.time = now,
                                            !.pc = IF KeyDiverges(host, url) THEN "stuck" ELSE "lookup"])
     /\ UNCHANGED <<cache, failures, lateStore, spoiled>>

crawlPage(t) ==
  \/ readPage(t) \/ nextLink(t)
  \/ lookUp(Crawl(t)) \/ fetchResponse(Crawl(t)) \/ putInCache(Crawl(t))

-----------------------------------------------------------------------------
\* The end of the process, and of all its threads and memory.

dies ==
  /\ alive' = FALSE
  /\ cache' = NoCache
  /\ th' = [i \in Ids |-> NoThread]
  /\ UNCHANGED <<failures, lateStore, spoiled>>

\* The client is gone when an error, a fetched or a cached response is sent to
\* it: SIGPIPE.  An empty response is not sent.
sendSigpipe(t) ==
  LET x == th[Serve(t)]
  IN /\ \/ x.pc = "none"
        \/ x.pc = "send" /\ x.resp.page # <<>>
        \/ x.pc = "hit" /\ cache[Key(x)].page # <<>>
     /\ dies

\* The server that was connected to resets the connection before it has the
\* request: send fails, the loop sends again, SIGPIPE.
fetchSigpipe(i) ==
  /\ th[i].pc = "fetch" /\ Reaches(th[i])
  /\ dies

\* The map is used while another thread inserts into it.
mapRace(i) ==
  /\ th[i].pc \in {"lookup", "hit", "put", "insert", "start"}
  /\ Disturbed(i)
  /\ dies

\* The crawler's key has been freed, or its entry was lost: operator [] then
\* makes a null entry, whose lock is taken.
nullEntry(t) ==
  /\ th[Crawl(t)].pc = "start"
  /\ th[Serve(t)].pc = "done" \/ Key(th[Serve(t)]) \notin DOMAIN cache
  /\ dies

-----------------------------------------------------------------------------

Serves(t) == alive /\ requestCycle(t) /\ UNCHANGED <<now, alive>>

Crawls(t) ==
  /\ alive
  /\ \/ crawlPage(t) /\ UNCHANGED alive
     \/ nullEntry(t)
  /\ UNCHANGED now

Arrives(t) ==
  /\ alive
  /\ refuse(t) \/ \E r \in Requests[t] : getRequest(t, r)
  /\ UNCHANGED <<now, alive>>

Breaks ==
  /\ alive
  /\ (\E t \in Threads : sendSigpipe(t)) \/ (\E i \in Ids : mapRace(i) \/ fetchSigpipe(i))
  /\ UNCHANGED now

tick ==
  /\ now < MaxTime
  /\ now' = now + 1
  /\ UNCHANGED <<alive, cache, th, failures, lateStore, spoiled>>

Next ==
  \/ \E t \in Threads : Arrives(t) \/ Serves(t) \/ Crawls(t)
  \/ Breaks \/ tick

Spec == Init /\ [][Next]_vars
-----------------------------------------------------------------------------

Pcs == {"none", "lookup", "hit", "fetch", "send", "put", "insert", "spawn", "return", "start",
        "link", "stuck", "done"}

TypeOK ==
  /\ now \in 0..MaxTime
  /\ alive \in BOOLEAN
  /\ lateStore \in BOOLEAN
  /\ failures \in 0..MaxFailures
  /\ \A k \in DOMAIN cache : cache[k].born \in 0..now /\ cache[k].expire \in 0..(now + TTL)
  /\ \A i \in Ids : th[i].pc \in Pcs /\ th[i].time \in 0..now /\ th[i].sock \in {"none", "open", "closed"}

(***************************************************************************)
(* No client is sent a response that the origin server gave more than the  *)
(* time to live before the request came, as long as no fetch took longer   *)
(* than that: the expiry time is counted from the clock read before the    *)
(* fetch, and sendCached looks the entry up again after the check, when    *)
(* another thread may have replaced it.  Holds for empty responses too,    *)
(* which are cached like others.                                           *)
(***************************************************************************)
AnswersAreFresh ==
  \A t \in Threads :
    LET x == th[Serve(t)]
    IN x.sock = "closed" => lateStore \/ x.answer.born >= x.time - TTL

(***************************************************************************)
(* getKey is uniform: a page is cached where the request of a client for   *)
(* that page, with its absolute URL, looks for it, whether a client or the *)
(* crawler has fetched it.  The keys for which a thread has asked a server *)
(* that the URL does not name are exempt: the Host header of a client      *)
(* decides, and the crawler cuts the host of a link without a path short.  *)
(* What such a fetch spoils is its own key, and no other.                  *)
(***************************************************************************)
UniformKeys ==
  \A k \in DOMAIN cache : cache[k].page \in {<<>>, k} \/ k \in spoiled

(***************************************************************************)
(* What a client is sent is the page that it asked for, or nothing,        *)
(* whoever has put it into the cache, unless a foreign server was asked    *)
(* for that page.                                                          *)
(***************************************************************************)
AnswersMatch ==
  \A t \in Threads :
    LET x == th[Serve(t)]
    IN x.answer.page \in {<<>>, PageOf(x)} \/ Key(x) \in spoiled

(***************************************************************************)
(* An empty response is in the cache only if a client was sent it: the     *)
(* crawler, which runs unseen, never replaces a page by a failure.         *)
(***************************************************************************)
EmptyWasAnswered ==
  \A k \in DOMAIN cache :
    cache[k].page = <<>> =>
      \E t \in Threads :
        /\ th[Serve(t)].sock = "closed"
        /\ th[Serve(t)].answer = Response(<<>>, cache[k].born)
=============================================================================
