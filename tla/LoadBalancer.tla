---------------------------- MODULE LoadBalancer ----------------------------
(***************************************************************************)
(* loadbalancer.c: main reads the servers to forward to from the command   *)
(* line, beginServerListen starts a producer thread per connection, which  *)
(* reads the request, chooses a forwarder and queues the connection; the   *)
(* coordinator starts a consumer thread for each queued connection, which  *)
(* forwards the request and relays the answer.                             *)
(*                                                                         *)
(* A connection_t is named by the client it was accepted from; its owner   *)
(* is a producer, the queue or a consumer, and pc[c] says where it is.     *)
(* Servers behind the balancer are external: each connect may succeed or   *)
(* be refused, each connection may be answered, closed early or reset.     *)
(* The list behind the queue is the one of TailQueue; here it is a         *)
(* sequence.  strtok and the sizes of headers are abstracted.              *)
(***************************************************************************)
EXTENDS Naturals, Sequences, FiniteSets

CONSTANTS
  Clients,    \* a connection each
  Host,       \* of each client
  Fds,        \* descriptors the kernel has for connections
  Args,       \* how many servers the command line names
  Cookies,    \* the forwarderids that requests come with
  MaxPieces,  \* bound: reads the body of an answer takes
  NULL

ASSUME LoadBalancerAssumption ==
  /\ Fds \subseteq Nat /\ Cookies \subseteq Nat
  /\ Args \in Nat \ {0} /\ MaxPieces \in Nat
  /\ NULL \notin Clients \cup Fds \cup Nat \cup ({"client", "server"} \X Clients)

VARIABLES
  arg,         \* main: the argument setupForwardServers is at
  forwarders,  \* servers.forwarders: for each the argument it came from
  forwards,    \* numberofforwards of each
  table,       \* descriptors: the end of a connection each stands for
  pc, fd,      \* of each connection: where it is, clientfd
  sfd,         \* the consumer's socket to the forwarder
  index,       \* forwarderindex
  memory,      \* the connection and its request: "none", "live" or "freed"
  queue,       \* connections read, the oldest first
  client,      \* "new", "waiting" in the backlog, "open" or "left"
  request,     \* what the client sent
  received,    \* what the client was sent
  remote,      \* the server's end: how far its answer is
  pieces       \* of its body, not read yet

main   == <<arg, forwarders>>
thread == <<pc, fd, sfd, index, memory>>
peers  == <<client, request, received, remote, pieces>>
vars == <<main, forwards, table, thread, queue, peers>>

Serving == arg > Args /\ forwarders # << >>

Requests == [get : BOOLEAN, cookie : Cookies \cup {NULL}]

Parts == [of : Clients, part : {"headers", "body", "error"}]

\* The array main allocates: calloc(argc - 2), argc counting the program.
Slots == Args - 1

Free == {f \in Fds : table[f] = NULL}
LowestFree == CHOOSE f \in Free : \A g \in Free : f <= g

ClientEnd(c) == <<"client", c>>
ServerEnd(c) == <<"server", c>>

Goes(c, from, to) == pc[c] = from /\ pc' = [pc EXCEPT ![c] = to]

\* send or write of a part of c's answer on descriptor f.  Only a client that
\* is still there gets it: the servers make nothing of what they are sent.
Sends(c, f, part) ==
  received' =
    [d \in Clients |->
       IF f # NULL /\ table[f] = ClientEnd(d) /\ client[d] = "open"
       THEN Append(received[d], [of |-> c, part |-> part])
       ELSE received[d]]

-----------------------------------------------------------------------------
(* main.                                                                   *)

\* setupForwardServers: a server that can be connected to is appended.
Setup ==
  /\ arg <= Args
  /\ arg' = arg + 1
  /\ forwarders' \in {forwarders, Append(forwarders, arg)}
  /\ UNCHANGED <<forwards, table, thread, queue, peers>>

-----------------------------------------------------------------------------
(* Clients.                                                                *)

Connect(c) ==
  /\ Serving /\ client[c] = "new"
  /\ client' = [client EXCEPT ![c] = "waiting"]
  /\ UNCHANGED <<main, forwards, table, thread, queue, request, received, remote, pieces>>

Ask(c) ==
  /\ client[c] \in {"waiting", "open"} /\ request[c] = NULL
  /\ \E r \in Requests : request' = [request EXCEPT ![c] = r]
  /\ UNCHANGED <<main, forwards, table, thread, queue, client, received, remote, pieces>>

Leave(c) ==
  /\ client[c] = "open"
  /\ client' = [client EXCEPT ![c] = "left"]
  /\ UNCHANGED <<main, forwards, table, thread, queue, request, received, remote, pieces>>

-----------------------------------------------------------------------------
(* beginServerListen and the producer threads.                             *)

\* Without a free descriptor accept fails, and the connection_t with -1 that
\* is made all the same is answered to nobody and freed: a step of nothing.
Accept(c) ==
  /\ client[c] = "waiting" /\ Free # {}
  /\ client' = [client EXCEPT ![c] = "open"]
  /\ table' = [table EXCEPT ![LowestFree] = ClientEnd(c)]
  /\ fd' = [fd EXCEPT ![c] = LowestFree]
  /\ memory' = [memory EXCEPT ![c] = "live"]
  /\ Goes(c, "none", "read")
  /\ UNCHANGED <<main, forwards, sfd, index, queue, request, received, remote, pieces>>

\* Faulty variant: one server too many.
NamedOver(c) ==
  /\ request[c].cookie # NULL
  /\ request[c].cookie <= Len(forwarders)

\* httpGetForwardCookie names one of the servers (numbered from 0).
Named(c) ==
  /\ request[c].cookie # NULL
  /\ request[c].cookie < Len(forwarders)

\* A request that is no GET, or none because the client has gone, gets a 500.
ReadOther(c) ==
  /\ IF request[c] = NULL THEN client[c] = "left" ELSE ~request[c].get
  /\ Goes(c, "read", "refuse")
  /\ UNCHANGED <<main, forwards, table, fd, sfd, index, memory, queue, peers>>

\* The cookie's server, or any one and count it (pickforwarder).
ReadGet(c) ==
  /\ request[c] # NULL /\ request[c].get
  /\ IF Named(c)
     THEN /\ index' = [index EXCEPT ![c] = request[c].cookie + 1]
          /\ UNCHANGED forwards
     ELSE \E i \in DOMAIN forwarders :
            /\ index' = [index EXCEPT ![c] = i]
            /\ forwards' = [forwards EXCEPT ![i] = @ + 1]
  /\ Goes(c, "read", "enqueue")
  /\ UNCHANGED <<main, table, fd, sfd, memory, queue, peers>>

Enqueue(c) ==
  /\ Goes(c, "enqueue", "queued")
  /\ queue' = Append(queue, c)
  /\ UNCHANGED <<main, forwards, table, fd, sfd, index, memory, peers>>

-----------------------------------------------------------------------------
(* coordinatorForwardRequests.                                             *)

\* Faulty variant: the connection stays in the queue.
DispatchNot ==
  /\ queue # << >>
  /\ Goes(Head(queue), "queued", "connect")
  /\ UNCHANGED <<main, forwards, table, fd, sfd, index, memory, queue, peers>>

Dispatch ==
  /\ queue # << >>
  /\ Goes(Head(queue), "queued", "connect")
  /\ queue' = Tail(queue)
  /\ UNCHANGED <<main, forwards, table, fd, sfd, index, memory, peers>>

-----------------------------------------------------------------------------
(* consumerForwardSingleRequest and buffered_sr.                           *)

\* No descriptor for socket, or no server listens; the socket stays open.
ConnectFails(c) ==
  /\ Goes(c, "connect", "refuse")
  /\ IF Free = {}
     THEN UNCHANGED <<table, sfd>>
     ELSE /\ table' = [table EXCEPT ![LowestFree] = ServerEnd(c)]
          /\ sfd' = [sfd EXCEPT ![c] = LowestFree]
  /\ UNCHANGED <<main, forwards, fd, index, memory, queue, peers>>

ConnectServer(c) ==
  /\ Free # {}
  /\ Goes(c, "connect", "send")
  /\ table' = [table EXCEPT ![LowestFree] = ServerEnd(c)]
  /\ sfd' = [sfd EXCEPT ![c] = LowestFree]
  /\ remote' = [remote EXCEPT ![c] = "open"]
  /\ UNCHANGED <<main, forwards, fd, index, memory, queue, client, request, received, pieces>>

SendFails(c) ==
  /\ remote[c] = "reset"
  /\ Goes(c, "send", "refuse")
  /\ UNCHANGED <<main, forwards, table, fd, sfd, index, memory, queue, peers>>

SendRequest(c) ==
  /\ remote[c] = "open"
  /\ Goes(c, "send", "headers")
  /\ remote' = [remote EXCEPT ![c] = "asked"]
  /\ UNCHANGED <<main, forwards, table, fd, sfd, index, memory, queue, client, request,
                 received, pieces>>

\* readparseHTTPHeader finds the end of the headers; with the cookie added
\* they are sent on forwarderfd, the socket they came from.
Headers(c) ==
  /\ remote[c] \in {"replied", "ended"}
  /\ Goes(c, "headers", "relay")
  /\ Sends(c, sfd[c], "headers")
  /\ UNCHANGED <<main, forwards, table, fd, sfd, index, memory, queue, client, request,
                 remote, pieces>>

\* read returns 0 for ever: the loop for the end of the headers has no end.
HeadersSpin(c) ==
  /\ remote[c] = "broken"
  /\ Goes(c, "headers", "spin")
  /\ UNCHANGED <<main, forwards, table, fd, sfd, index, memory, queue, peers>>

\* Faulty variant: the piece is sent on the descriptor below.
RelayOther(c) ==
  /\ pieces[c] > 0
  /\ pieces' = [pieces EXCEPT ![c] = @ - 1]
  /\ Goes(c, "relay", "relay")
  /\ Sends(c, IF fd[c] - 1 \in Fds THEN fd[c] - 1 ELSE fd[c], "body")
  /\ UNCHANGED <<main, forwards, table, fd, sfd, index, memory, queue, client, request,
                 remote>>

\* A piece of the body; send may fail once the client has gone.
Relay(c) ==
  /\ pieces[c] > 0
  /\ pieces' = [pieces EXCEPT ![c] = @ - 1]
  /\ \/ Goes(c, "relay", "relay")
     \/ client[c] = "left" /\ Goes(c, "relay", "close")
  /\ Sends(c, fd[c], "body")
  /\ UNCHANGED <<main, forwards, table, fd, sfd, index, memory, queue, client, request,
                 remote>>

\* Faulty variant: an error ends the loop, the end of the answer does not.
RelayEndsOnError(c) ==
  /\ pieces[c] = 0 /\ remote[c] \in {"broken", "reset"}
  /\ Goes(c, "relay", "close")
  /\ UNCHANGED <<main, forwards, table, fd, sfd, index, memory, queue, peers>>

\* read returns 0 or -1.
RelayEnds(c) ==
  /\ pieces[c] = 0 /\ remote[c] \in {"ended", "broken", "reset"}
  /\ Goes(c, "relay", "close")
  /\ UNCHANGED <<main, forwards, table, fd, sfd, index, memory, queue, peers>>

\* Faulty variant: the socket to the server is not closed.
CloseClient(c) ==
  /\ Goes(c, "close", "free")
  /\ table' = [table EXCEPT ![fd[c]] = NULL]
  /\ UNCHANGED <<main, forwards, fd, sfd, index, memory, queue, peers>>

CloseBoth(c) ==
  /\ Goes(c, "close", "free")
  /\ table' = [table EXCEPT ![sfd[c]] = NULL, ![fd[c]] = NULL]
  /\ UNCHANGED <<main, forwards, fd, sfd, index, memory, queue, peers>>

\* free(connection->request), free(connection), and the thread ends.
Release(c) ==
  /\ Goes(c, "free", "done")
  /\ memory' = [memory EXCEPT ![c] = "freed"]
  /\ UNCHANGED <<main, forwards, table, fd, sfd, index, queue, peers>>

-----------------------------------------------------------------------------
(* sendHTTPError500, called by producers and consumers.                    *)

Write500(c) ==
  /\ Goes(c, "refuse", "refused")
  /\ Sends(c, fd[c], "error")
  /\ UNCHANGED <<main, forwards, table, fd, sfd, index, memory, queue, client, request,
                 remote, pieces>>

\* It closes and frees, and its caller ends the thread.
Close500(c) ==
  /\ Goes(c, "refused", "done")
  /\ table' = [table EXCEPT ![fd[c]] = NULL]
  /\ memory' = [memory EXCEPT ![c] = "freed"]
  /\ UNCHANGED <<main, forwards, fd, sfd, index, queue, peers>>

-----------------------------------------------------------------------------
(* The servers behind the balancer.                                        *)

Turns(c, from, to) ==
  /\ remote[c] = from /\ remote' = [remote EXCEPT ![c] = to]
  /\ UNCHANGED <<main, forwards, table, thread, queue, client, request, received>>

\* It answers with whole headers and a body of some pieces.
Answers(c) ==
  /\ Turns(c, "asked", "replied")
  /\ \E n \in 0..MaxPieces : pieces' = [pieces EXCEPT ![c] = n]

\* It closes or dies before the end of the headers.
Breaks(c) == Turns(c, "asked", "broken") /\ UNCHANGED pieces

\* It closes after its answer.
Ends(c) == Turns(c, "replied", "ended") /\ UNCHANGED pieces

\* It resets the connection before the request comes.
Resets(c) == Turns(c, "open", "reset") /\ UNCHANGED pieces

-----------------------------------------------------------------------------
Init ==
  /\ arg = 1 /\ forwarders = << >>
  /\ forwards = [i \in 1..Args |-> 0]
  /\ table = [f \in Fds |-> NULL]
  /\ pc = [c \in Clients |-> "none"]
  /\ fd = [c \in Clients |-> NULL] /\ sfd = [c \in Clients |-> NULL]
  /\ index = [c \in Clients |-> 0]
  /\ memory = [c \in Clients |-> "none"]
  /\ queue = << >>
  /\ client = [c \in Clients |-> "new"]
  /\ request = [c \in Clients |-> NULL]
  /\ received = [c \in Clients |-> << >>]
  /\ remote = [c \in Clients |-> "none"]
  /\ pieces = [c \in Clients |-> 0]

Producer(c) == ReadOther(c) \/ ReadGet(c) \/ Enqueue(c)
Consumer(c) ==
  \/ ConnectFails(c) \/ ConnectServer(c) \/ SendFails(c) \/ SendRequest(c)
  \/ Headers(c) \/ HeadersSpin(c) \/ Relay(c) \/ RelayEnds(c)
  \/ CloseBoth(c) \/ Release(c)
Error500(c) == Write500(c) \/ Close500(c)
Server(c)   == Answers(c) \/ Breaks(c) \/ Ends(c) \/ Resets(c)

Next ==
  \/ Setup
  \/ Dispatch
  \/ \E c \in Clients :
       \/ Connect(c) \/ Ask(c) \/ Leave(c)
       \/ Accept(c) \/ Producer(c) \/ Consumer(c) \/ Error500(c)
       \/ Server(c)

Spec == Init /\ [][Next]_vars

\* Threads keep running, and servers do what they do with a request in time.
FairSpec ==
  /\ Spec
  /\ WF_vars(Setup) /\ WF_vars(Dispatch)
  /\ \A c \in Clients :
       /\ WF_vars(Accept(c)) /\ WF_vars(Producer(c)) /\ WF_vars(Error500(c))
       /\ WF_vars(Consumer(c)) /\ WF_vars(Server(c))

-----------------------------------------------------------------------------
(* Properties.                                                             *)

PCs == {"none", "read", "refuse", "refused", "enqueue", "queued", "connect", "send",
        "headers", "spin", "relay", "close", "free", "done"}

\* The connection has a forwarder.
Chosen == {"enqueue", "queued", "connect", "send", "headers", "relay"}

MainTypeOK ==
  /\ arg \in 1..(Args + 1) /\ Len(forwarders) < arg
  /\ forwarders \in Seq(1..Args)
  /\ forwards \in [1..Args -> Nat]

ThreadTypeOK ==
  /\ pc \in [Clients -> PCs]
  /\ index \in [Clients -> 0..Len(forwarders)]
  /\ \A c \in Clients : pc[c] \in Chosen => index[c] > 0
  /\ memory \in [Clients -> {"none", "live", "freed"}]
  /\ queue \in Seq(Clients)

TableTypeOK ==
  /\ table \in [Fds -> ({"client", "server"} \X Clients) \cup {NULL}]
  /\ fd \in [Clients -> Fds \cup {NULL}] /\ sfd \in [Clients -> Fds \cup {NULL}]

PeersTypeOK ==
  /\ client \in [Clients -> {"new", "waiting", "open", "left"}]
  /\ request \in [Clients -> Requests \cup {NULL}]
  /\ received \in [Clients -> Seq(Parts)]
  /\ remote \in [Clients -> {"none", "open", "asked", "replied", "ended", "broken", "reset"}]
  /\ pieces \in [Clients -> 0..MaxPieces]

(* Descriptors, connections and counts are of their kinds, and every       *)
(* connection that is past its producer has a forwarder that exists.       *)
TypeOK == MainTypeOK /\ ThreadTypeOK /\ TableTypeOK /\ PeersTypeOK

(* A connection is in the queue once while it waits there and never again, *)
(* and its memory is freed when its last thread is done with it and not    *)
(* before: none is freed twice, used after it was freed, or left behind.   *)
(* The queue is one that loses nothing: what the two locks around its list *)
(* (loadbalancer.c:405, 439) let happen is TailQueue's, not this           *)
(* property's.                                                             *)
OneOwner ==
  /\ \A i, j \in DOMAIN queue : queue[i] = queue[j] => i = j
  /\ \A c \in Clients :
       /\ (\E i \in DOMAIN queue : queue[i] = c) <=> pc[c] = "queued"
       /\ memory[c] = CASE pc[c] = "none" -> "none"
                        [] pc[c] = "done" -> "freed"
                        [] OTHER -> "live"

\* A consumer gave c up with a socket open.
LeftOpen(c) == sfd[c] # NULL /\ pc[c] \in {"refuse", "refused", "done"}

(* Every client's descriptor is open from accept until its answer is over, *)
(* and every open socket to a server belongs to a consumer at work or to   *)
(* one that answered 500: those are never closed, and the others are.      *)
DescriptorsAccounted ==
  /\ \A c \in Clients :
       pc[c] \notin {"none", "free", "done"} <=> fd[c] # NULL /\ table[fd[c]] = ClientEnd(c)
  /\ \A f \in Fds, c \in Clients :
       table[f] = ServerEnd(c) =>
         /\ sfd[c] = f
         /\ \/ pc[c] \in {"send", "headers", "spin", "relay", "close"}
            \/ LeftOpen(c) /\ remote[c] \in {"none", "open", "reset"}

\* How far the balancer is with the connection of c.
PhaseOf(c) ==
  CASE pc[c] = "none" -> client[c]
    [] pc[c] = "read" -> "open"
    [] pc[c] \in {"free", "done"} -> "closed"
    [] pc[c] \in {"close", "refused"} \/ (pc[c] = "relay" /\ received[c] # << >>) -> "answered"
    [] OTHER -> "read"

\* Whose answer c was sent, all its parts taken together.
AnswersOf(c) ==
  LET all == received[c]
  IN  IF \A i \in DOMAIN all : all[i].of = c
      THEN IF all = << >> THEN << >> ELSE <<c>>
      ELSE [i \in DOMAIN all |-> all[i].of]

S == INSTANCE Service WITH phase <- [c \in Clients |-> PhaseOf(c)],
                           answers <- [c \in Clients |-> AnswersOf(c)],
                           MaxReplies <- 1

(* Each client is read, answered and closed in turn and once, with the     *)
(* answer to its own request or a 500, although descriptors of clients and *)
(* of servers are closed and given out again meanwhile.                    *)
ServesInTurn == S!Spec

(* Every request that was accepted comes to its end and its connection is  *)
(* closed, unless the server closed it within the headers of its answer:   *)
(* then the consumer reads for ever.  As in OneOwner, of a queue that      *)
(* loses nothing.                                                          *)
EachEnds ==
  \A c \in Clients :
    client[c] = "open" /\ request[c] # NULL
      ~> pc[c] = "done" \/ (pc[c] = "spin" /\ remote[c] = "broken")

-----------------------------------------------------------------------------
(* What comments say of the code and the code does not do.                 *)

(* loadbalancer.c:124 "The data is read back in buffers from the load      *)
(* server and sent back to the client.": a body comes after its headers.   *)
HeadersComeFirst ==
  \A c \in Clients : \A i \in DOMAIN received[c] :
    received[c][i].part = "body" => \E j \in 1..(i - 1) : received[c][j].part = "headers"

(* loadbalancer.c:314 "identical clients based on their IP are given the   *)
(* same backend server".                                                   *)
SameBackend ==
  \A c, d \in Clients :
    Host[c] = Host[d] /\ index[c] > 0 /\ index[d] > 0 => index[c] = index[d]

(* loadbalancer.h:36 "Counts the number of forwards": no server has been   *)
(* connected to more often than it is counted for.                         *)
CountsForwards ==
  \A i \in DOMAIN forwarders :
    Cardinality({c \in Clients : index[c] = i /\ remote[c] # "none"}) <= forwards[i]

(* loadbalancer.h:47 "An array of possible servers to forward to": every   *)
(* server taken has its place in the array.                                *)
ArrayHolds == Len(forwarders) <= Slots
=============================================================================
