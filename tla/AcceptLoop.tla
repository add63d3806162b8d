----------------------------- MODULE AcceptLoop -----------------------------
(***************************************************************************)
(* From a client's connect to the close of its connection (dkvstore.c):    *)
(* serverAcceptLoop, the thread it starts per connection, and              *)
(* requestWorker.  The loop keeps the accepted descriptor in one local     *)
(* variable and gives each thread the address of that variable.  The       *)
(* kernel hands out the lowest free descriptor and a closed one again.     *)
(*                                                                         *)
(* Parsing is left to HttpRequest, the list behind the queue to TailQueue: *)
(* here a packet is the descriptor to answer on, whose bytes were read and *)
(* how many segments of them, and the queue is a sequence that loses       *)
(* nothing (TailQueue says when that is so).  What requestHandle does with *)
(* a packet is the replies it writes, or that it writes none, never ends   *)
(* or kills the process.                                                   *)
(***************************************************************************)
EXTENDS Naturals, Sequences

CONSTANTS
  Clients,    \* a connection each
  Threads,    \* connection threads the loop may start
  Fds,        \* descriptors the kernel has for connections
  Segments,   \* in how many sends a client's request leaves it, the first
              \* with all its headers
  Kind,       \* of each client's request
  MaxReplies, \* the most replies a malformed command is given: three 400s at
              \* dkvstore.c:311-329 and the reply after them
  NULL

\* A page (GET), a command the server carries out itself, one a coordinator
\* forwards (its GET and SET), a POST that is no command, another method.
Kinds == {"page", "command", "forwarded", "malformed", "other"}

\* What is queued: a descriptor to answer on and what was read from whom.
Packets == [fd : Fds, from : Clients, size : Nat]

ASSUME AcceptAssumption ==
  /\ Fds \subseteq Nat
  /\ NULL \notin Clients \cup Threads \cup Fds \cup Packets
  /\ Segments \in [Clients -> Nat \ {0}]
  /\ Kind \in [Clients -> Kinds]
  /\ MaxReplies \in Nat \ {0}

VARIABLES
  clientfd,   \* the loop's variable, NULL for accept's -1
  loop,       \* "accept" or "create"
  table,      \* the process's descriptors: the connection each stands for
  pc, fd,     \* where each thread is and its own copy of the descriptor
  reading,    \* the connection its read() waits on
  queue,      \* packets read, the oldest first
  worker, job,
  client,     \* "new", "waiting" in the backlog, "open" or "left"
  sent,       \* segments sent by each client
  unread,     \* of these, segments no thread has read
  received,   \* the answers each client was sent
  status,     \* "ok" or "crashed"
  given,      \* history: the connection each thread was started for
  raced,      \* history: the variable changed before a thread had read it
  exhausted   \* history: accept found no free descriptor

threads == <<pc, fd, reading>>
peers   == <<client, sent, unread, received>>
vars == <<clientfd, loop, table, threads, queue, worker, job, peers,
          status, given, raced, exhausted>>

Ok == status = "ok"

Free == {f \in Fds : table[f] = NULL}
Open == {c \in Clients : \E f \in Fds : table[f] = c}

\* The lowest free descriptor.
LowestFree == CHOOSE f \in Free : \A g \in Free : f <= g

-----------------------------------------------------------------------------
(* Clients.                                                                *)

Connect(c) ==
  /\ Ok /\ client[c] = "new"
  /\ client' = [client EXCEPT ![c] = "waiting"]
  /\ UNCHANGED <<clientfd, loop, table, threads, queue, worker, job, sent, unread,
                 received, status, given, raced, exhausted>>

\* The next segment of the request.
Send(c) ==
  /\ Ok /\ client[c] \in {"waiting", "open"}
  /\ sent[c] < Segments[c]
  /\ sent' = [sent EXCEPT ![c] = @ + 1]
  /\ unread' = [unread EXCEPT ![c] = @ + 1]
  /\ UNCHANGED <<clientfd, loop, table, threads, queue, worker, job, client, received,
                 status, given, raced, exhausted>>

\* The client closes its end, with or without an answer.
Leave(c) ==
  /\ Ok /\ client[c] = "open"
  /\ client' = [client EXCEPT ![c] = "left"]
  /\ UNCHANGED <<clientfd, loop, table, threads, queue, worker, job, sent, unread,
                 received, status, given, raced, exhausted>>

-----------------------------------------------------------------------------
(* serverAcceptLoop.                                                       *)

\* A thread was started and has not read the variable.
Started(t) == pc[t] = "start"

Overwritten == raced' = (raced \/ \E t \in Threads : Started(t))

Accept(c) ==
  /\ Ok /\ loop = "accept" /\ client[c] = "waiting"
  /\ \E t \in Threads : pc[t] = "none"
  /\ Free # {}
  /\ clientfd' = LowestFree
  /\ table' = [table EXCEPT ![LowestFree] = c]
  /\ client' = [client EXCEPT ![c] = "open"]
  /\ loop' = "create"
  /\ Overwritten
  /\ UNCHANGED <<threads, queue, worker, job, sent, unread, received, status, given,
                 exhausted>>

\* No free descriptor: accept returns -1, the loop goes on with it.
AcceptFails ==
  /\ Ok /\ loop = "accept"
  /\ \E c \in Clients : client[c] = "waiting"
  /\ \E t \in Threads : pc[t] = "none"
  /\ Free = {}
  /\ clientfd' = NULL
  /\ loop' = "create"
  /\ exhausted' = TRUE
  /\ Overwritten
  /\ UNCHANGED <<table, threads, queue, worker, job, peers, status, given>>

\* pthread_create with the address of clientfd; one new thread is as good as
\* another.
Create(t) ==
  /\ Ok /\ loop = "create" /\ pc[t] = "none"
  /\ t = CHOOSE u \in Threads : pc[u] = "none"
  /\ pc' = [pc EXCEPT ![t] = "start"]
  /\ given' = [given EXCEPT ![t] = IF clientfd = NULL THEN NULL ELSE table[clientfd]]
  /\ loop' = "accept"
  /\ UNCHANGED <<clientfd, table, fd, reading, queue, worker, job, peers, status,
                 raced, exhausted>>

-----------------------------------------------------------------------------
(* serverHandleAccept and serverHandleRequest.                             *)

\* int clientfd = *data.
CopyFd(t) ==
  /\ Ok /\ Started(t)
  /\ pc' = [pc EXCEPT ![t] = "read"]
  /\ fd' = [fd EXCEPT ![t] = clientfd]
  /\ UNCHANGED <<clientfd, loop, table, reading, queue, worker, job, peers, status,
                 given, raced, exhausted>>

\* read() looks the descriptor up and waits on its connection; -1 and 0 do
\* not survive: the unsigned -1 becomes the length of a memcpy, and an empty
\* request has no first header.
BeginRead(t) ==
  LET c == IF fd[t] = NULL THEN NULL ELSE table[fd[t]]
  IN  /\ Ok /\ pc[t] = "read"
      /\ IF c = NULL
         THEN status' = "crashed" /\ UNCHANGED <<pc, reading>>
         ELSE /\ pc' = [pc EXCEPT ![t] = "wait"]
              /\ reading' = [reading EXCEPT ![t] = c]
              /\ UNCHANGED status
      /\ UNCHANGED <<clientfd, loop, table, fd, queue, worker, job, peers, given, raced,
                     exhausted>>

\* Faulty variant: one segment more is taken for read than has arrived.
EndReadOver(t) ==
  LET c == reading[t]
  IN  /\ Ok /\ pc[t] = "wait" /\ unread[c] > 0
      /\ queue' = Append(queue, [fd |-> fd[t], from |-> c, size |-> unread[c]])
      /\ unread' = [unread EXCEPT ![c] = 0 - 1]
      /\ pc' = [pc EXCEPT ![t] = "done"]
      /\ UNCHANGED <<clientfd, loop, table, fd, reading, worker, job, client, sent,
                     received, status, given, raced, exhausted>>

\* Faulty variant: the thread reads on until the connection ends.
EndReadAgain(t) ==
  LET c == reading[t]
  IN  /\ Ok /\ pc[t] = "wait" /\ unread[c] > 0
      /\ queue' = Append(queue, [fd |-> fd[t], from |-> c, size |-> unread[c]])
      /\ unread' = [unread EXCEPT ![c] = 0]
      /\ pc' = [pc EXCEPT ![t] = "read"]
      /\ UNCHANGED <<clientfd, loop, table, fd, reading, worker, job, client, sent,
                     received, status, given, raced, exhausted>>

\* One read takes what has arrived; the packet is parsed and queued and the
\* thread ends.
EndRead(t) ==
  LET c == reading[t]
  IN  /\ Ok /\ pc[t] = "wait" /\ unread[c] > 0
      /\ queue' = Append(queue, [fd |-> fd[t], from |-> c, size |-> unread[c]])
      /\ unread' = [unread EXCEPT ![c] = 0]
      /\ pc' = [pc EXCEPT ![t] = "done"]
      /\ UNCHANGED <<clientfd, loop, table, fd, reading, worker, job, client, sent,
                     received, status, given, raced, exhausted>>

\* The client has closed and nothing is left: read returns 0.
ReadEmpty(t) ==
  /\ Ok /\ pc[t] = "wait"
  /\ unread[reading[t]] = 0 /\ client[reading[t]] = "left"
  /\ status' = "crashed"
  /\ UNCHANGED <<clientfd, loop, table, threads, queue, worker, job, peers, given, raced,
                 exhausted>>

-----------------------------------------------------------------------------
(* requestWorker.                                                          *)

Take ==
  /\ Ok /\ worker = "take" /\ queue # << >>
  /\ job' = Head(queue)
  /\ queue' = Tail(queue)
  /\ worker' = "answer"
  /\ UNCHANGED <<clientfd, loop, table, threads, peers, status, given, raced, exhausted>>

\* Faulty variant: the descriptor is closed before the answer is written.
AnswerClosed ==
  /\ Ok /\ worker = "answer"
  /\ table' = [table EXCEPT ![job.fd] = NULL]
  /\ worker' = "close"
  /\ UNCHANGED <<clientfd, loop, threads, queue, job, peers, status, given, raced,
                 exhausted>>

\* The fields of a command are missing, or came after the read: 400s are
\* written and the process may die at the strcmp of a NULL.
Malformed(p) ==
  \/ Kind[p.from] = "malformed"
  \/ Kind[p.from] \in {"command", "forwarded"} /\ p.size < Segments[p.from]

\* How many replies requestHandle may write: a forward that fails writes none,
\* and a method that is neither GET nor POST leaves the packet without a type.
RepliesTo(p) ==
  IF Malformed(p) THEN 0..MaxReplies
  ELSE CASE Kind[p.from] = "forwarded" -> {0, 1}
         [] Kind[p.from] = "other"     -> {0}
         [] OTHER                      -> {1}

\* requestHandle writes to whatever connection the descriptor stands for now.
Answer ==
  LET c == table[job.fd]
  IN  /\ Ok /\ worker = "answer"
      /\ \E n \in RepliesTo(job) :
           received' = IF c # NULL /\ client[c] = "open"
                       THEN [received EXCEPT ![c] = @ \o [i \in 1..n |-> job.from]]
                       ELSE received
      /\ status' \in (IF Malformed(job) THEN {"ok", "crashed"} ELSE {"ok"})
      /\ worker' = "close"
      /\ UNCHANGED <<clientfd, loop, table, threads, queue, job, client, sent, unread,
                     given, raced, exhausted>>

\* The store a request was forwarded to never answers: the worker reads for
\* ever.  A SET without a value is forwarded too.
Hang ==
  /\ Ok /\ worker = "answer" /\ Kind[job.from] \in {"forwarded", "malformed"}
  /\ worker' = "stuck"
  /\ UNCHANGED <<clientfd, loop, table, threads, queue, job, peers, status, given, raced,
                 exhausted>>

\* Faulty variant: the descriptor stays open.
CloseNot ==
  /\ Ok /\ worker = "close"
  /\ job' = NULL
  /\ worker' = "take"
  /\ UNCHANGED <<clientfd, loop, table, threads, queue, peers, status, given, raced,
                 exhausted>>

Close ==
  /\ Ok /\ worker = "close"
  /\ table' = [table EXCEPT ![job.fd] = NULL]
  /\ job' = NULL
  /\ worker' = "take"
  /\ UNCHANGED <<clientfd, loop, threads, queue, peers, status, given, raced, exhausted>>

-----------------------------------------------------------------------------
Init ==
  /\ clientfd = NULL /\ loop = "accept"
  /\ table = [f \in Fds |-> NULL]
  /\ pc = [t \in Threads |-> "none"]
  /\ fd = [t \in Threads |-> NULL]
  /\ reading = [t \in Threads |-> NULL]
  /\ queue = << >> /\ worker = "take" /\ job = NULL
  /\ client = [c \in Clients |-> "new"]
  /\ sent = [c \in Clients |-> 0]
  /\ unread = [c \in Clients |-> 0]
  /\ received = [c \in Clients |-> << >>]
  /\ status = "ok"
  /\ given = [t \in Threads |-> NULL]
  /\ raced = FALSE /\ exhausted = FALSE

Listener == (\E c \in Clients : Accept(c)) \/ AcceptFails \/ (\E t \in Threads : Create(t))
Handler(t) == CopyFd(t) \/ BeginRead(t) \/ EndRead(t) \/ ReadEmpty(t)
Worker == Take \/ Answer \/ Hang \/ Close

Next ==
  \/ \E c \in Clients : Connect(c) \/ Send(c) \/ Leave(c)
  \/ Listener
  \/ \E t \in Threads : Handler(t)
  \/ Worker

Spec == Init /\ [][Next]_vars

\* Every thread of the server keeps running; clients need not do anything.
FairSpec ==
  /\ Spec
  /\ WF_vars(Listener) /\ WF_vars(Worker)
  /\ \A t \in Threads : WF_vars(Handler(t))
-----------------------------------------------------------------------------
(* Properties.                                                             *)

LoopTypeOK == clientfd \in Fds \cup {NULL} /\ loop \in {"accept", "create"}

TableTypeOK == table \in [Fds -> Clients \cup {NULL}]

ThreadTypeOK ==
  /\ pc \in [Threads -> {"none", "start", "read", "wait", "done"}]
  /\ fd \in [Threads -> Fds \cup {NULL}]
  /\ reading \in [Threads -> Clients \cup {NULL}]
  /\ \A t \in Threads : pc[t] = "wait" => fd[t] \in Fds /\ reading[t] \in Clients
  /\ given \in [Threads -> Clients \cup {NULL}]

WorkerTypeOK ==
  /\ queue \in Seq(Packets)
  /\ worker \in {"take", "answer", "stuck", "close"}
  /\ IF worker = "take" THEN job = NULL ELSE job \in Packets

PeersTypeOK ==
  /\ client \in [Clients -> {"new", "waiting", "open", "left"}]
  /\ sent \in [Clients -> Nat] /\ unread \in [Clients -> Nat]
  /\ received \in [Clients -> Seq(Clients)]

HistoryTypeOK ==
  status \in {"ok", "crashed"} /\ raced \in BOOLEAN /\ exhausted \in BOOLEAN

(* Descriptors, connections and counts are of their kinds; a packet has a  *)
(* descriptor, and the worker a packet exactly while it handles one.       *)
TypeOK ==
  /\ LoopTypeOK /\ TableTypeOK /\ ThreadTypeOK
  /\ WorkerTypeOK /\ PeersTypeOK /\ HistoryTypeOK

\* The descriptors that the threads, the loop and the worker will pass on or
\* close, NULL for none.
Hand(t) ==
  CASE Started(t) -> clientfd
    [] pc[t] \in {"read", "wait"} -> fd[t]
    [] OTHER -> NULL
LoopHand == IF loop = "create" THEN clientfd ELSE NULL
JobHand  == IF job = NULL THEN NULL ELSE job.fd

Holders(f) ==
  {<<"thread", t>> : t \in {u \in Threads : Hand(u) = f}}
    \cup {<<"packet", i>> : i \in {j \in DOMAIN queue : queue[j].fd = f}}
    \cup (IF LoopHand = f THEN {<<"loop", NULL>>} ELSE {})
    \cup (IF JobHand = f THEN {<<"worker", NULL>>} ELSE {})

(* Every open descriptor has exactly one holder: the accept loop, a thread, *)
(* a packet or the worker; a closed one has none.  No descriptor leaks and  *)
(* none is closed by two.  It is so until the loop overwrites its variable  *)
(* before a thread has read it.                                             *)
OneHolder ==
  ~raced =>
    \A f \in Fds : IF table[f] = NULL THEN Holders(f) = {}
                   ELSE \E h \in Holders(f) : Holders(f) = {h}

(* The server dies only of four things: the race, a lack of descriptors, a *)
(* client that connects and leaves without a byte, or a POST whose fields  *)
(* are missing or had not come when it was read.  A page, a whole command  *)
(* and a client that leaves after them never kill it.                      *)
CrashesOnlyWhen ==
  status = "crashed" =>
    \/ raced \/ exhausted
    \/ \E c \in Clients : client[c] = "left" /\ sent[c] = 0
    \/ job # NULL /\ Malformed(job)

\* How far the server is with the connection of c.
PhaseOf(c) ==
  IF client[c] \in {"new", "waiting"} THEN client[c]
  ELSE IF c \notin Open THEN "closed"
  ELSE IF job # NULL /\ job.from = c
       THEN IF worker = "close" THEN "answered" ELSE "read"
  ELSE IF \E i \in DOMAIN queue : queue[i].from = c THEN "read"
  ELSE "open"

S == INSTANCE Service WITH phase <- [c \in Clients |-> PhaseOf(c)],
                           answers <- received

(* Until the race, each connection is read, handled and closed in turn and *)
(* once, and is written nothing but replies to its own request, whatever   *)
(* descriptors are closed and given out again meanwhile.                   *)
ServesInTurn == S!Init /\ [][raced' \/ S!Next]_(S!vars)

\* A request that requestHandle replies to by itself, as soon as it is read.
HasReply(c) == Kind[c] = "page" \/ (Kind[c] = "command" /\ Segments[c] = 1)

(* A client that has sent such a request is answered, however many others  *)
(* say nothing or have no reply, unless it leaves, the server raced or     *)
(* died, or the worker waits for a store that never answers.               *)
EachAnswered ==
  \A c \in {d \in Clients : HasReply(d)} :
    client[c] # "new" /\ sent[c] > 0
      ~> received[c] # << >> \/ client[c] = "left" \/ raced \/ ~Ok \/ worker = "stuck"

-----------------------------------------------------------------------------
(* What comments say of the loop and the code does not do.                 *)

(* dkvstore.c:737 "Accept loop where each connection is passed onto a new  *)
(* thread.": a thread reads the connection it was started for.             *)
EachOwnThread ==
  \A t \in Threads : reading[t] # NULL => reading[t] = given[t]

(* dkvstore.c:628 "Reads a HTTP Request into a buffer, transforms it and   *)
(* finally enqueues it.": what is queued is a request, not its first part. *)
WholeRequests ==
  \A i \in DOMAIN queue : queue[i].size = Segments[queue[i].from]
=============================================================================
