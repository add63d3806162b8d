------------------------------ MODULE Service ------------------------------
(***************************************************************************)
(* What a server of this repository promises its clients, one connection   *)
(* each: a connection is taken from the backlog, read once, handled once,  *)
(* with no reply, one or some to what was read from it, and then closed.   *)
(* AcceptLoop and LoadBalancer implement it.                               *)
(***************************************************************************)
EXTENDS Naturals, Sequences

CONSTANTS
  Clients,
  MaxReplies  \* the most replies one request may be given

VARIABLES
  phase,     \* how far the server is with each connection
  answers    \* what each client was sent: whose request it answers

vars == <<phase, answers>>

Goes(c, from, to) == phase[c] = from /\ phase' = [phase EXCEPT ![c] = to]

Init ==
  /\ phase = [c \in Clients |-> "new"]
  /\ answers = [c \in Clients |-> << >>]

Connect(c) == Goes(c, "new", "waiting") /\ UNCHANGED answers
Accept(c)  == Goes(c, "waiting", "open") /\ UNCHANGED answers
Read(c)    == Goes(c, "open", "read") /\ UNCHANGED answers

\* The replies, none if the client has gone.
Answer(c) ==
  /\ Goes(c, "read", "answered")
  /\ \E n \in 0..MaxReplies : answers' = [answers EXCEPT ![c] = [i \in 1..n |-> c]]

Close(c) == Goes(c, "answered", "closed") /\ UNCHANGED answers

Next ==
  \E c \in Clients : Connect(c) \/ Accept(c) \/ Read(c) \/ Answer(c) \/ Close(c)

Spec == Init /\ [][Next]_vars
=============================================================================
