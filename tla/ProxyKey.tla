------------------------------ MODULE ProxyKey ------------------------------
(***************************************************************************)
(* getKey of the caching proxy (PA4, webproxy.cpp).  A host or a URL is    *)
(* its text, a sequence of characters, without a leading "http://"; proto  *)
(* tells whether that stood in front of it.                                *)
(***************************************************************************)
EXTENDS Integers, Sequences

Slash == "/"
Hash == "#"

\* find( c ): the place of the first c in s, or 0.
Find(s, c) ==
  LET at == {i \in DOMAIN s : s[i] = c}
  IN IF at = {} THEN 0 ELSE CHOOSE i \in at : \A j \in at : i <= j

\* The host ends where its first slash is, as the first while loop tests it.  Of
\* an empty string find and length() - 1 are both npos.
EndsInSlash(host) == Find(host, Slash) = Len(host)

\* substr( 0, length - 2 ) leaves as it is what has fewer than two characters,
\* and what becomes empty is tested again: for these the loop has no end.
KeyDiverges(host, url) ==
  ~url.proto /\ EndsInSlash(host.text) /\ Len(host.text) <= 2

\* The first loop: a trailing slash goes, together with the character before it.
StripHost(host) ==
  IF EndsInSlash(host) THEN SubSeq(host, 1, Len(host) - 2) ELSE host

\* The text after n rounds of the second loop, each of which takes away the
\* first character and the last one.
Peeled(url, n) == SubSeq(url, n + 1, Len(url) - n)

StripUrl(url) ==
  LET ends == {n \in 0 .. Len(url) : Find(Peeled(url, n), Slash) # 1}
  IN Peeled(url, CHOOSE n \in ends : \A k \in ends : n <= k)

\* What follows the first "#", and the "#", is kept.
Anchor(url) ==
  IF Find(url, Hash) = 0 THEN url ELSE SubSeq(url, Find(url, Hash), Len(url))

\* Mutant of getKey: an absolute URL loses its last character.
getKeyShort(host, url) ==
  IF url.proto THEN SubSeq(url.text, 1, Len(url.text) - 1)
  ELSE StripHost(host.text) \o <<Slash>> \o Anchor(StripUrl(url.text))

getKey(host, url) ==
  IF url.proto THEN url.text
  ELSE StripHost(host.text) \o <<Slash>> \o Anchor(StripUrl(url.text))

=============================================================================
