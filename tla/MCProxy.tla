------------------------------ MODULE MCProxy -------------------------------
(***************************************************************************)
(* Instances of Proxy for TLC: a server ho with the html page /a, which    *)
(* links to the page /b and to the server's home page, and a server h.     *)
(***************************************************************************)
EXTENDS Proxy

CONSTANTS t1, t2, t3

Host == [proto |-> FALSE, text |-> <<"h", "o">>]
OtherHost == [proto |-> FALSE, text |-> <<"h">>]
Absolute(text) == [proto |-> TRUE, text |-> text]
Relative(text) == [proto |-> FALSE, text |-> text]

Home  == <<"h", "o">>
PageA == <<"h", "o", "/", "a">>
PageB == <<"h", "o", "/", "b">>

MCServers == {<<"h", "o">>, <<"h">>}

Ask(host, page, html) == [host |-> host, url |-> Absolute(page), html |-> html]

\* Clients of a proxy send absolute URLs.  t1 asks for the page with the links,
\* t2 for a linked page, without a Host header, and t3 for a linked page or for
\* one of them with the name of the other server as its Host header.
MCRequests ==
  [t \in Threads |->
     CASE t = t1 -> {Ask(Host, PageA, TRUE)}
       [] t = t2 -> {Ask(NoName, PageB, FALSE)}
       [] OTHER  -> {Ask(OtherHost, PageB, FALSE), Ask(Host, Home, FALSE)}]

\* A link relative to the page's directory, behind an anchor in the page; a link
\* without a path, whose host is cut to h; and a link to a host that there is not.
MCLinks ==
  [p \in {PageA} |->
     <<Relative(<<"#">>), Relative(<<"b">>), Absolute(Home), Absolute(<<"x", "/">>)>>]

\* The first link as a path.
RootLinks == [p \in {PageA} |-> <<Relative(<<"/", "b">>)>>]
=============================================================================
