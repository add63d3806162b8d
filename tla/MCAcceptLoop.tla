---------------------------- MODULE MCAcceptLoop ----------------------------
(***************************************************************************)
(* Small instances of AcceptLoop: a thread for each connection, a command  *)
(* that leaves its client in two sends, as the headers and the body of the *)
(* front end's do, a command that is forwarded and a page.                 *)
(***************************************************************************)
EXTENDS AcceptLoop

CONSTANTS c1, c2, c3

MCSegments == [c \in Clients |-> IF c = c1 THEN 2 ELSE 1]

MCKind == [c \in Clients |-> CASE c = c1 -> "command" [] c = c2 -> "forwarded" [] OTHER -> "page"]

\* The second client's method is neither GET nor POST.
OtherKind == [MCKind EXCEPT ![c2] = "other"]
=============================================================================
