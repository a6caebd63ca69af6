------------------------------- MODULE MCDfs --------------------------------
(***************************************************************************)
(* Instances of Dfs for TLC: files f1 in the user's directory and f2 in a  *)
(* subdirectory, and the commands that each client's user types.           *)
(***************************************************************************)
EXTENDS Dfs

CONSTANTS c1, c2, c3, f1, f2, sub

MCDirOf == [f \in Files |-> IF f = f1 THEN Root ELSE sub]

\* All commands that come back to the prompt.
Endless == [c \in Clients |-> {"PUT", "GET", "LIST", "MKDIR"}]

PutGet == [c \in Clients |-> {"PUT", "GET"}]

PutGetListExit == [c \in Clients |-> {"PUT", "GET", "LIST", "EXIT"}]

PutListMkdir == [c \in Clients |-> {"PUT", "LIST", "MKDIR"}]

\* c1 writes and c2 reads; c3 tries both.
Visitors ==
  [c \in Clients |-> CASE c = c1 -> {"PUT"} [] c = c2 -> {"GET"} [] OTHER -> {"PUT", "GET"}]

\* At most one fault: a crash or a late answer.
OneFault == crashes + timeouts <= 1

\* c2 and c3 are not in the middle of a command at the same time.
OneVisitor == cl[c2] = Prompt \/ cl[c3] = Prompt
=============================================================================
