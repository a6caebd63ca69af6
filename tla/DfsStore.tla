------------------------------ MODULE DfsStore ------------------------------
(***************************************************************************)
(* The vocabulary that dfc and dfs (PA3) share: the four servers, the four *)
(* pieces of a file, where PUT places a piece, what a piece file on a      *)
(* server's disk may hold, and what a request says.                        *)
(*                                                                         *)
(* Every PUT command is a VERSION, numbered from 1 in the order the users  *)
(* type them.  Two PUTs of the same bytes are two versions as well:        *)
(* encryptFile salts the ciphertext afresh, so pieces of different PUTs    *)
(* never fit together.                                                     *)
(***************************************************************************)
EXTENDS Integers, Sequences, FiniteSets

CONSTANTS
  Clients,      \* running dfc processes
  Authorized,   \* the clients whose username:password is in dfs.conf
  Files,        \* path and filename, as PUT and GET name them
  Dirs,         \* directories of the user
  Root,         \* the user's own directory, made by initAuthentication
  DirOf,        \* the directory of a file
  None          \* no file, no client

ASSUME StoreAssumption ==
  /\ Authorized \subseteq Clients
  /\ Root \in Dirs
  /\ DirOf \in [Files -> Dirs]
  /\ None \notin Files
  /\ None \notin Clients

Servers == 0..3
Pieces  == 0..3

-----------------------------------------------------------------------------
\* Placement.

\* Mutant of Secondary: the copy goes two servers further.
SecondaryOpposite(i, bin) == (i + bin + 2) % 4

\* Mutant of Secondary: the copy goes to the primary once more.
SecondarySame(i, bin) == (i + bin) % 4

\* The servers that PUT sends piece i to; bin is the file's MD5 modulo 4.
Primary(i, bin)   == (i + bin) % 4
Secondary(i, bin) == (i + bin + 1) % 4
Holders(i, bin)   == {Primary(i, bin), Secondary(i, bin)}

-----------------------------------------------------------------------------
\* The contents of a piece file .<filename>.<piece> on one server.

Absent   == [kind |-> "absent", ver |-> 0]   \* no such file
Empty    == [kind |-> "empty",  ver |-> 0]   \* truncated, nothing written yet
Torn     == [kind |-> "torn",   ver |-> 0]   \* bytes of several writers, or a hole
Part(v)  == [kind |-> "part",   ver |-> v]   \* a proper prefix of version v
Whole(v) == [kind |-> "whole",  ver |-> v]

Content == [kind : {"absent", "empty", "torn", "part", "whole"}, ver : Nat]

NoPieces == [i \in Pieces |-> Absent]

\* A vector with data can come of x: the file exists and is not empty.
Readable(x) == x # Absent /\ x # Empty

\* loadFileToVector reads through a buffer, as often as it takes to come to
\* the end of the file, and takes no lock.  FirstRead has what the reads that
\* find x may return, all of it or the beginning; what is read of a torn file
\* counts as torn.
FirstRead(x) == IF x.kind = "whole" THEN {x, Part(x.ver)} ELSE {x}

\* What the vector holds at the end of the file if y was read before and the
\* file now holds x.  In a file that was truncated or rewritten since, the
\* offset may be past the end, or in the middle of other bytes.
LastRead(y, x) ==
  CASE x = Empty -> {y}
    [] x = Part(y.ver) -> {y}
    [] x = Whole(y.ver) -> {x}
    [] x = Torn /\ y.kind = "part" -> {y, Torn, Whole(y.ver)}
    [] OTHER -> {y, Torn}

-----------------------------------------------------------------------------
\* What parseRequest takes from a request.  The client sends the request of
\* a PUT together with the piece; auth says whether parseRequest will find
\* the username with this password.
Request ==
  [method : {"none", "PUT", "GET", "LIST", "MKDIR"}, file : Files \cup {None},
   dir : Dirs, piece : Pieces, ver : Nat, auth : BOOLEAN]

NoRequest ==
  [method |-> "none", file |-> None, dir |-> Root, piece |-> 0, ver |-> 0,
   auth |-> FALSE]
=============================================================================
