---------------------------- MODULE MCWebServer -----------------------------
(***************************************************************************)
(* An instance of WebServer for TLC: what the clients may ask for.         *)
(***************************************************************************)
EXTENDS WebServer

CONSTANTS k1, k2

Get(keep, size) ==
  [method |-> "GET", error |-> FALSE, v11 |-> TRUE, keepalive |-> keep,
   file |-> "html", size |-> size, tags |-> {}]

Post(keep, file, size, tags) ==
  [Get(keep, size) EXCEPT !.method = "POST", !.file = file, !.tags = tags]

\* k1's client may send a pipeline.  k2's asks once: for a file of two buffers, or
\* it POSTs to a page smaller than the buffer, to one with </body> across two
\* buffers, or to a binary file.
MCWants ==
  [c \in Conns |->
     IF c = k1 THEN {Get(TRUE, 1)}
     ELSE {Get(FALSE, 4), Post(FALSE, "html", 2, {0}), Post(FALSE, "html", 4, {2}),
           Post(FALSE, "binary", 1, {})}]

MCMaxRequests == [c \in Conns |-> IF c = k1 THEN 2 ELSE 1]
=============================================================================
