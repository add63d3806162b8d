-------------------------- MODULE AcceptLoopProofs --------------------------
(***************************************************************************)
(* Proofs about AcceptLoop for any clients, threads, descriptors and       *)
(* requests in any number of segments.                                     *)
(***************************************************************************)
EXTENDS AcceptLoop, TLAPS, WellFoundedInduction

-----------------------------------------------------------------------------
(* The invariant.  Until the race:                                         *)

\* A new thread has not read the variable only while the loop waits in accept.
OneStart ==
  /\ \A t, u \in Threads : Started(t) /\ Started(u) => t = u
  /\ \A t \in Threads : Started(t) => loop = "accept"

\* No two hold the same descriptor,
OneHand ==
  /\ \A t, u \in Threads : Hand(t) # NULL /\ Hand(t) = Hand(u) => t = u
  /\ \A i, j \in DOMAIN queue : queue[i].fd = queue[j].fd => i = j
  /\ \A t \in Threads, i \in DOMAIN queue : Hand(t) # queue[i].fd
  /\ \A t \in Threads : Hand(t) # NULL => Hand(t) # LoopHand /\ Hand(t) # JobHand
  /\ \A i \in DOMAIN queue : queue[i].fd # LoopHand /\ queue[i].fd # JobHand
  /\ LoopHand # NULL => LoopHand # JobHand

\* what is held is open,
HandsOpen ==
  /\ \A t \in Threads : Hand(t) # NULL => table[Hand(t)] # NULL
  /\ \A i \in DOMAIN queue : table[queue[i].fd] = queue[i].from
  /\ LoopHand # NULL => table[LoopHand] # NULL
  /\ JobHand # NULL => table[JobHand] = job.from
  /\ \A t \in Threads : pc[t] = "wait" => table[fd[t]] = reading[t]

\* and what is open is held.
OpenHeld ==
  \A f \in Fds :
    table[f] # NULL =>
      \/ \E t \in Threads : Hand(t) = f
      \/ \E i \in DOMAIN queue : queue[i].fd = f
      \/ LoopHand = f \/ JobHand = f

\* A connection has one descriptor, from its accept on.
OneEnd ==
  /\ \A f, g \in Fds : table[f] # NULL /\ table[f] = table[g] => f = g
  /\ \A f \in Fds : table[f] # NULL => client[table[f]] \in {"open", "left"}

\* What the loop or a thread holds is not read yet, and is a descriptor unless
\* they have run out.
NotRead ==
  /\ \A c \in Clients : client[c] \in {"new", "waiting"} => unread[c] = sent[c]
  /\ \A t \in Threads : Hand(t) # NULL => unread[table[Hand(t)]] = sent[table[Hand(t)]]
  /\ LoopHand # NULL => unread[table[LoopHand]] = sent[table[LoopHand]]
  /\ \A t \in Threads : pc[t] \in {"start", "read"} /\ Hand(t) = NULL => exhausted
  /\ loop = "create" /\ LoopHand = NULL => exhausted

\* A client has its replies once the worker has written them, and its own only.
OwnAnswer ==
  \A c \in Clients :
    received[c] # << >> =>
      /\ client[c] \in {"open", "left"}
      /\ c \in Open => worker = "close" /\ job.from = c

Calm == OneStart /\ OneHand /\ HandsOpen /\ OpenHeld /\ OneEnd /\ NotRead /\ OwnAnswer

IInv == TypeOK /\ CrashesOnlyWhen /\ (~raced => Calm)

-----------------------------------------------------------------------------
(* Facts.                                                                  *)

LEMMA NullFacts ==
  /\ \A c \in Clients : c # NULL
  /\ \A f \in Fds : f # NULL
  /\ \A q \in Packets : q # NULL
  /\ Fds \subseteq Nat
BY AcceptAssumption

(* Sets of natural numbers have a least element.                           *)
LEMMA LeastExists ==
  ASSUME NEW set \in SUBSET Nat, set # {}
  PROVE  \E least \in set : \A x \in set : least <= x
<1>1. PICK least \in set : \A x \in set :
                              ~(<<x, least>> \in {pair \in Nat \X Nat : pair[1] < pair[2]})
  BY NatLessThanWellFounded, WFMin, Zenon DEF OpToRel
<1>2. \A x \in set : ~(x < least)
  BY <1>1
<1> QED
  BY <1>2

LEMMA LowestIsFree ==
  ASSUME Free # {}
  PROVE  LowestFree \in Fds /\ table[LowestFree] = NULL
<1>1. Free \in SUBSET Nat
  BY NullFacts DEF Free
<1>2. \E f \in Free : \A g \in Free : f <= g
  BY <1>1, LeastExists
<1>3. LowestFree \in Free
  BY <1>2 DEF LowestFree
<1> QED
  BY <1>3 DEF Free

LEMMA TypeFacts ==
  ASSUME TypeOK
  PROVE  /\ clientfd \in Fds \cup {NULL} /\ loop \in {"accept", "create"}
         /\ table \in [Fds -> Clients \cup {NULL}]
         /\ pc \in [Threads -> {"none", "start", "read", "wait", "done"}]
         /\ fd \in [Threads -> Fds \cup {NULL}]
         /\ reading \in [Threads -> Clients \cup {NULL}]
         /\ \A t \in Threads : pc[t] = "wait" => fd[t] \in Fds /\ reading[t] \in Clients
         /\ queue \in Seq(Packets)
         /\ worker = "take" => job = NULL
         /\ worker # "take" => job \in Packets
         /\ client \in [Clients -> {"new", "waiting", "open", "left"}]
         /\ sent \in [Clients -> Nat] /\ unread \in [Clients -> Nat]
         /\ received \in [Clients -> Seq(Clients)]
BY DEF TypeOK, LoopTypeOK, TableTypeOK, ThreadTypeOK, WorkerTypeOK, PeersTypeOK

LEMMA PacketFacts ==
  ASSUME NEW q \in Packets
  PROVE  q.fd \in Fds /\ q.from \in Clients /\ q # NULL
BY NullFacts DEF Packets

LEMMA AppendFacts ==
  ASSUME NEW set, NEW q \in Seq(set), NEW e \in set
  PROVE  /\ Append(q, e) \in Seq(set) /\ Append(q, e) # << >>
         /\ DOMAIN Append(q, e) = 1..(Len(q) + 1) /\ DOMAIN q = 1..Len(q) /\ Len(q) \in Nat
         /\ \A i \in DOMAIN q : Append(q, e)[i] = q[i]
         /\ Append(q, e)[Len(q) + 1] = e
OBVIOUS

LEMMA TailFacts ==
  ASSUME NEW set, NEW q \in Seq(set), q # << >>
  PROVE  /\ Tail(q) \in Seq(set) /\ Head(q) \in set /\ Head(q) = q[1] /\ Len(q) \in Nat \ {0}
         /\ DOMAIN Tail(q) = 1..(Len(q) - 1) /\ DOMAIN q = 1..Len(q)
         /\ \A i \in 1..(Len(q) - 1) : Tail(q)[i] = q[i + 1]
OBVIOUS

LEMMA CopiesFacts ==
  ASSUME NEW set, NEW e \in set, NEW n \in Nat, NEW q \in Seq(set)
  PROVE  /\ q \o [i \in 1..n |-> e] \in Seq(set)
         /\ << >> \o [i \in 1..n |-> e] = [i \in 1..n |-> e]
<1>1. [i \in 1..n |-> e] \in Seq(set)
  OBVIOUS
<1> QED
  BY <1>1

LEMMA RepliesFacts ==
  ASSUME NEW p \in Packets
  PROVE  RepliesTo(p) \subseteq 0..MaxReplies /\ MaxReplies \in Nat
BY AcceptAssumption DEF RepliesTo

LEMMA HandFacts ==
  ASSUME TypeOK
  PROVE  /\ \A t \in Threads : Hand(t) \in Fds \cup {NULL}
         /\ LoopHand \in Fds \cup {NULL} /\ JobHand \in Fds \cup {NULL}
         /\ \A t \in Threads : pc[t] = "wait" => Hand(t) = fd[t] /\ fd[t] \in Fds
         /\ worker # "take" => JobHand = job.fd /\ job.fd \in Fds /\ job.from \in Clients
         /\ worker = "take" => JobHand = NULL
         /\ \A i \in DOMAIN queue : queue[i].fd \in Fds /\ queue[i].from \in Clients
<1>1. ASSUME NEW t \in Threads
      PROVE  /\ Hand(t) \in Fds \cup {NULL}
             /\ pc[t] = "wait" => Hand(t) = fd[t] /\ fd[t] \in Fds
  BY TypeFacts DEF Hand, Started
<1>2. LoopHand \in Fds \cup {NULL}
  BY TypeFacts DEF LoopHand
<1>3. /\ worker # "take" => JobHand = job.fd /\ job.fd \in Fds /\ job.from \in Clients
      /\ worker = "take" => JobHand = NULL
  BY TypeFacts, PacketFacts DEF JobHand
<1>4. \A i \in DOMAIN queue : queue[i] \in Packets
  BY TypeFacts
<1> QED
  BY <1>1, <1>2, <1>3, <1>4, PacketFacts

-----------------------------------------------------------------------------
(* Types.                                                                  *)

LEMMA SameTypes ==
  ASSUME TypeOK
  PROVE  /\ UNCHANGED <<clientfd, loop>> => LoopTypeOK'
         /\ UNCHANGED table => TableTypeOK'
         /\ UNCHANGED <<threads, given>> => ThreadTypeOK'
         /\ UNCHANGED <<queue, worker, job>> => WorkerTypeOK'
         /\ UNCHANGED peers => PeersTypeOK'
         /\ UNCHANGED <<status, raced, exhausted>> => HistoryTypeOK'
<1>1. UNCHANGED <<clientfd, loop>> => LoopTypeOK'
  BY DEF TypeOK, LoopTypeOK
<1>2. UNCHANGED table => TableTypeOK'
  BY DEF TypeOK, TableTypeOK
<1>3. UNCHANGED <<threads, given>> => ThreadTypeOK'
  BY DEF TypeOK, ThreadTypeOK, threads
<1>4. UNCHANGED <<queue, worker, job>> => WorkerTypeOK'
  BY DEF TypeOK, WorkerTypeOK
<1>5. UNCHANGED peers => PeersTypeOK'
  BY DEF TypeOK, PeersTypeOK, peers
<1>6. UNCHANGED <<status, raced, exhausted>> => HistoryTypeOK'
  BY DEF TypeOK, HistoryTypeOK
<1> QED
  BY <1>1, <1>2, <1>3, <1>4, <1>5, <1>6

LEMMA ClientType ==
  ASSUME TypeOK, NEW c \in Clients, Connect(c) \/ Send(c) \/ Leave(c)
  PROVE  TypeOK'
<1>1. CASE Connect(c) \/ Leave(c)
  <2>1. PeersTypeOK'
    BY <1>1 DEF Connect, Leave, TypeOK, PeersTypeOK
  <2> QED
    BY <1>1, <2>1, SameTypes DEF Connect, Leave, TypeOK
<1>2. CASE Send(c)
  <2>1. sent' \in [Clients -> Nat] /\ unread' \in [Clients -> Nat]
    BY <1>2, TypeFacts DEF Send
  <2>2. PeersTypeOK'
    BY <1>2, <2>1 DEF Send, TypeOK, PeersTypeOK
  <2> QED
    BY <1>2, <2>2, SameTypes DEF Send, TypeOK
<1> QED
  BY <1>1, <1>2

LEMMA ListenerType ==
  ASSUME TypeOK, Listener
  PROVE  TypeOK'
<1>a. raced \in BOOLEAN /\ exhausted \in BOOLEAN
  BY DEF TypeOK, HistoryTypeOK
<1>1. ASSUME NEW c \in Clients, Accept(c) PROVE TypeOK'
  <2>1. LowestFree \in Fds
    BY <1>1, LowestIsFree DEF Accept
  <2>2. LoopTypeOK' /\ TableTypeOK'
    BY <1>1, <2>1, TypeFacts DEF Accept, LoopTypeOK, TableTypeOK
  <2>3. PeersTypeOK'
    BY <1>1 DEF Accept, TypeOK, PeersTypeOK
  <2>4. raced' \in BOOLEAN
    BY <1>1, <1>a DEF Accept, Overwritten
  <2>5. HistoryTypeOK'
    BY <1>1, <2>4 DEF Accept, TypeOK, HistoryTypeOK
  <2> QED
    BY <1>1, <2>2, <2>3, <2>5, SameTypes DEF Accept, TypeOK
<1>2. CASE AcceptFails
  <2>1. LoopTypeOK'
    BY <1>2 DEF AcceptFails, LoopTypeOK
  <2>2. raced' \in BOOLEAN
    BY <1>2, <1>a DEF AcceptFails, Overwritten
  <2>3. HistoryTypeOK'
    BY <1>2, <2>2 DEF AcceptFails, TypeOK, HistoryTypeOK
  <2> QED
    BY <1>2, <2>1, <2>3, SameTypes DEF AcceptFails, TypeOK
<1>3. ASSUME NEW t \in Threads, Create(t) PROVE TypeOK'
  <2>1. LoopTypeOK'
    BY <1>3, TypeFacts DEF Create, LoopTypeOK
  <2>2. given' \in [Threads -> Clients \cup {NULL}]
    <3>1. (IF clientfd = NULL THEN NULL ELSE table[clientfd]) \in Clients \cup {NULL}
      BY TypeFacts
    <3>2. given \in [Threads -> Clients \cup {NULL}]
      BY DEF TypeOK, ThreadTypeOK
    <3> QED
      BY <1>3, <3>1, <3>2 DEF Create
  <2>3. /\ pc' \in [Threads -> {"none", "start", "read", "wait", "done"}]
        /\ \A u \in Threads : pc'[u] = "wait" => pc[u] = "wait"
    BY <1>3, TypeFacts DEF Create
  <2>4. ThreadTypeOK'
    BY <1>3, <2>2, <2>3 DEF Create, TypeOK, ThreadTypeOK
  <2> QED
    BY <1>3, <2>1, <2>4, SameTypes DEF Create, TypeOK
<1> QED
  BY <1>1, <1>2, <1>3 DEF Listener

LEMMA HandlerType ==
  ASSUME TypeOK, NEW t \in Threads, Handler(t)
  PROVE  TypeOK'
<1>1. CASE CopyFd(t)
  <2>1. ThreadTypeOK'
    BY <1>1, TypeFacts DEF CopyFd, Started, TypeOK, ThreadTypeOK
  <2> QED
    BY <1>1, <2>1, SameTypes DEF CopyFd, TypeOK
<1>2. CASE BeginRead(t)
  <2> DEFINE c == IF fd[t] = NULL THEN NULL ELSE table[fd[t]]
  <2>1. CASE c = NULL
    <3>1. HistoryTypeOK' /\ UNCHANGED <<threads, given>>
      BY <1>2, <2>1 DEF BeginRead, TypeOK, HistoryTypeOK, threads
    <3> QED
      BY <1>2, <3>1, SameTypes DEF BeginRead, TypeOK
  <2>2. CASE c # NULL
    <3>1. c \in Clients /\ fd[t] \in Fds
      BY <2>2, TypeFacts
    <3>2. pc' = [pc EXCEPT ![t] = "wait"] /\ reading' = [reading EXCEPT ![t] = c]
          /\ UNCHANGED <<fd, given, status>>
      BY <1>2, <2>2 DEF BeginRead
    <3> HIDE DEF c
    <3>3. ThreadTypeOK'
      BY <3>1, <3>2 DEF TypeOK, ThreadTypeOK
    <3> QED
      BY <1>2, <3>2, <3>3, SameTypes DEF BeginRead, TypeOK
  <2> QED
    BY <2>1, <2>2
<1>3. CASE EndRead(t)
  <2>1. reading[t] \in Clients /\ fd[t] \in Fds
    BY <1>3, TypeFacts DEF EndRead
  <2>2. [fd |-> fd[t], from |-> reading[t], size |-> unread[reading[t]]] \in Packets
    BY <2>1, TypeFacts DEF Packets
  <2>3. queue' \in Seq(Packets)
    BY <1>3, <2>2, TypeFacts, AppendFacts DEF EndRead
  <2>4. WorkerTypeOK'
    BY <1>3, <2>3 DEF EndRead, TypeOK, WorkerTypeOK
  <2>5. unread' \in [Clients -> Nat]
    BY <1>3, TypeFacts DEF EndRead
  <2>6. PeersTypeOK'
    BY <1>3, <2>5 DEF EndRead, TypeOK, PeersTypeOK
  <2>7. ThreadTypeOK'
    BY <1>3 DEF EndRead, TypeOK, ThreadTypeOK
  <2> QED
    BY <1>3, <2>4, <2>6, <2>7, SameTypes DEF EndRead, TypeOK
<1>4. CASE ReadEmpty(t)
  <2>1. HistoryTypeOK'
    BY <1>4 DEF ReadEmpty, TypeOK, HistoryTypeOK
  <2> QED
    BY <1>4, <2>1, SameTypes DEF ReadEmpty, TypeOK
<1> QED
  BY <1>1, <1>2, <1>3, <1>4 DEF Handler

LEMMA WorkerType ==
  ASSUME TypeOK, Worker
  PROVE  TypeOK'
<1>1. CASE Take
  <2>1. queue' \in Seq(Packets) /\ job' \in Packets /\ worker' = "answer"
    BY <1>1, TypeFacts, TailFacts DEF Take
  <2>2. WorkerTypeOK'
    BY <2>1 DEF WorkerTypeOK
  <2> QED
    BY <1>1, <2>2, SameTypes DEF Take, TypeOK
<1>2. CASE Answer
  <2>1. job \in Packets /\ job.from \in Clients
    BY <1>2, HandFacts, TypeFacts DEF Answer
  <2>2. \A n \in RepliesTo(job), c \in Clients :
          received[c] \o [i \in 1..n |-> job.from] \in Seq(Clients)
    <3>1. RepliesTo(job) \subseteq Nat
      BY <2>1, RepliesFacts
    <3> QED
      BY <2>1, <3>1, TypeFacts, CopiesFacts
  <2>3. received' \in [Clients -> Seq(Clients)]
    <3>1. PICK n \in RepliesTo(job) :
            received' = IF table[job.fd] # NULL /\ client[table[job.fd]] = "open"
                        THEN [received EXCEPT ![table[job.fd]] = @ \o [i \in 1..n |-> job.from]]
                        ELSE received
      BY <1>2 DEF Answer
    <3>2. PICK d \in Clients \cup {NULL} : d = table[job.fd]
      BY <1>2, HandFacts, TypeFacts DEF Answer
    <3>3. CASE d \in Clients
      <4> DEFINE more == received[d] \o [i \in 1..n |-> job.from]
      <4>1. more \in Seq(Clients)
        BY <2>2, <3>3
      <4>2. received' \in {received, [received EXCEPT ![d] = more]}
        BY <3>1, <3>2
      <4> HIDE DEF more
      <4> QED
        BY <4>1, <4>2, TypeFacts
    <3>4. CASE d = NULL
      BY <3>1, <3>2, <3>4, TypeFacts
    <3> QED
      BY <3>3, <3>4
  <2>4. PeersTypeOK'
    BY <1>2, <2>3 DEF Answer, TypeOK, PeersTypeOK
  <2>5. WorkerTypeOK'
    BY <1>2 DEF Answer, TypeOK, WorkerTypeOK
  <2>6. HistoryTypeOK'
    BY <1>2 DEF Answer, TypeOK, HistoryTypeOK
  <2> QED
    BY <1>2, <2>4, <2>5, <2>6, SameTypes DEF Answer, TypeOK
<1>4. CASE Hang
  <2>1. WorkerTypeOK'
    BY <1>4 DEF Hang, TypeOK, WorkerTypeOK
  <2> QED
    BY <1>4, <2>1, SameTypes DEF Hang, TypeOK
<1>3. CASE Close
  <2>1. TableTypeOK'
    BY <1>3 DEF Close, TypeOK, TableTypeOK
  <2>2. WorkerTypeOK'
    BY <1>3 DEF Close, TypeOK, WorkerTypeOK
  <2> QED
    BY <1>3, <2>1, <2>2, SameTypes DEF Close, TypeOK
<1> QED
  BY <1>1, <1>2, <1>3, <1>4 DEF Worker

LEMMA TypeStep ==
  ASSUME TypeOK, [Next]_vars
  PROVE  TypeOK'
<1>1. CASE UNCHANGED vars
  BY <1>1, SameTypes DEF vars, TypeOK
<1>2. CASE Next
  BY <1>2, ClientType, ListenerType, HandlerType, WorkerType DEF Next
<1> QED
  BY <1>1, <1>2

-----------------------------------------------------------------------------
(* Who holds what.                                                         *)

\* What each thread holds after a step, as what it held before.
LEMMA HandsKept ==
  ASSUME NEW t \in Threads, pc'[t] = pc[t], fd'[t] = fd[t],
         Started(t) => clientfd' = clientfd
  PROVE  Hand(t)' = Hand(t)
BY DEF Hand, Started

\* Descriptors stay in order when no hand changes and none is opened or closed.
LEMMA HandsStay ==
  ASSUME OneHand, HandsOpen, OpenHeld,
         UNCHANGED <<table, queue, job>>,
         \A t \in Threads : Hand(t)' = Hand(t), LoopHand' = LoopHand,
         \A t \in Threads : pc'[t] = "wait" => table[fd'[t]] = reading'[t]
  PROVE  OneHand' /\ HandsOpen' /\ OpenHeld'
<1>1. JobHand' = JobHand
  BY DEF JobHand
<1>2. OneHand'
  BY <1>1 DEF OneHand
<1>3. HandsOpen'
  BY <1>1 DEF HandsOpen
<1>4. OpenHeld'
  BY <1>1 DEF OpenHeld
<1> QED
  BY <1>2, <1>3, <1>4

\* What the loop and the threads hold stays unread when none reads.
LEMMA UnreadStays ==
  ASSUME NotRead, HandsOpen, TypeOK,
         UNCHANGED <<table, loop, exhausted>>,
         \A t \in Threads : Hand(t)' = Hand(t), LoopHand' = LoopHand,
         \A t \in Threads : pc'[t] \in {"start", "read"} => pc[t] \in {"start", "read"},
         \A c \in Clients : unread[c] = sent[c] => unread'[c] = sent'[c],
         \A c \in Clients : client'[c] \in {"new", "waiting"} => client[c] \in {"new", "waiting"}
  PROVE  NotRead'
<1>1. \A t \in Threads : Hand(t) # NULL => table[Hand(t)] \in Clients
  BY HandFacts, TypeFacts DEF HandsOpen
<1>2. LoopHand # NULL => table[LoopHand] \in Clients
  BY HandFacts, TypeFacts DEF HandsOpen
<1> QED
  BY <1>1, <1>2 DEF NotRead

-----------------------------------------------------------------------------
(* Calm is kept.                                                           *)

LEMMA ClientCalm ==
  ASSUME TypeOK, Calm, NEW c \in Clients, Connect(c) \/ Send(c) \/ Leave(c)
  PROVE  Calm'
<1>1. /\ UNCHANGED <<clientfd, loop, table, pc, fd, reading, queue, worker, job, received,
                     raced, exhausted>>
      /\ \A d \in Clients : client'[d] \in {"new", "waiting"} <=> client[d] \in {"new", "waiting"}
      /\ \A d \in Clients : client'[d] \in {"open", "left"} <=> client[d] \in {"open", "left"}
  BY TypeFacts DEF Connect, Send, Leave, threads
<1>2. /\ \A t \in Threads : Hand(t)' = Hand(t)
      /\ LoopHand' = LoopHand /\ JobHand' = JobHand
      /\ \A t \in Threads : pc'[t] = "wait" => table[fd'[t]] = reading'[t]
  BY <1>1, HandsKept DEF LoopHand, JobHand, Calm, HandsOpen
<1>3. OneStart'
  BY <1>1 DEF Calm, OneStart, Started
<1>4. OneHand' /\ HandsOpen' /\ OpenHeld'
  BY <1>1, <1>2, HandsStay DEF Calm
<1>5. \A d \in Clients : unread[d] = sent[d] => unread'[d] = sent'[d]
  <2>1. CASE Connect(c) \/ Leave(c)
    BY <2>1 DEF Connect, Leave
  <2>2. CASE Send(c)
    BY <2>2, TypeFacts DEF Send
  <2> QED
    BY <2>1, <2>2
<1>6. NotRead'
  BY <1>1, <1>2, <1>5, UnreadStays DEF Calm
<1>7. \A f \in Fds : table[f] # NULL => table[f] \in Clients
  BY TypeFacts
<1>8. OneEnd'
  BY <1>1, <1>7 DEF Calm, OneEnd
<1>9. OwnAnswer'
  BY <1>1 DEF Calm, OwnAnswer, Open
<1> QED
  BY <1>3, <1>4, <1>6, <1>8, <1>9 DEF Calm

\* With no thread that has to read the variable, it can change.
LEMMA AcceptCalm ==
  ASSUME TypeOK, Calm, NEW c \in Clients, Accept(c), ~raced'
  PROVE  Calm'
<1> DEFINE f == LowestFree
<1>1. /\ UNCHANGED <<pc, fd, reading, queue, worker, job, sent, unread, received, exhausted>>
      /\ clientfd' = f /\ loop' = "create" /\ loop = "accept"
      /\ table' = [table EXCEPT ![f] = c]
      /\ client[c] = "waiting" /\ client' = [client EXCEPT ![c] = "open"]
  BY DEF Accept, threads
<1>2. \A t \in Threads : ~Started(t)
  BY DEF Accept, Overwritten
<1>3. f \in Fds /\ table[f] = NULL /\ f # NULL
  BY LowestIsFree, NullFacts DEF Accept
<1> HIDE DEF f
<1>4. /\ table'[f] = c
      /\ \A g \in Fds : g # f => table'[g] = table[g]
      /\ client'[c] = "open"
      /\ \A d \in Clients : d # c => client'[d] = client[d]
  BY <1>1, <1>3, TypeFacts
<1>5. /\ \A t \in Threads : Hand(t)' = Hand(t)
      /\ LoopHand = NULL /\ LoopHand' = f /\ JobHand' = JobHand
  BY <1>1, <1>2, <1>3, HandsKept DEF LoopHand, JobHand
<1>6. /\ \A t \in Threads : Hand(t) # f
      /\ \A i \in DOMAIN queue : queue[i].fd # f
      /\ JobHand # f
  <2>1. \A i \in DOMAIN queue : queue[i].from \in Clients
    BY HandFacts
  <2>2. JobHand # NULL => job.from \in Clients
    BY HandFacts
  <2> QED
    BY <1>3, <2>1, <2>2, NullFacts DEF Calm, HandsOpen
<1>7. OneStart'
  BY <1>1, <1>2 DEF OneStart, Started
<1>8. OneHand'
  BY <1>1, <1>5, <1>6 DEF Calm, OneHand
<1>9. HandsOpen'
  <2>1. \A t \in Threads : Hand(t)' # NULL => table'[Hand(t)'] # NULL
    BY <1>4, <1>5, <1>6, HandFacts DEF Calm, HandsOpen
  <2>2. \A i \in DOMAIN queue : table'[queue[i].fd] = queue[i].from
    BY <1>4, <1>6, HandFacts DEF Calm, HandsOpen
  <2>3. table'[LoopHand'] # NULL
    BY <1>4, <1>5, NullFacts
  <2>4. JobHand # NULL => table'[JobHand] = job.from
    BY <1>4, <1>6, HandFacts DEF Calm, HandsOpen
  <2>5. \A t \in Threads : pc[t] = "wait" => table'[fd[t]] = reading[t]
    BY <1>4, <1>6, HandFacts DEF Calm, HandsOpen
  <2> QED
    BY <1>1, <1>5, <2>1, <2>2, <2>3, <2>4, <2>5 DEF HandsOpen
<1>10. OpenHeld'
  BY <1>1, <1>4, <1>5, NullFacts DEF Calm, OpenHeld
<1>11. \A g \in Fds : table[g] # NULL => table[g] \in Clients /\ table[g] # c
  BY <1>1, TypeFacts DEF Calm, OneEnd
<1>12. OneEnd'
  <2>1. \A g, h \in Fds : table'[g] # NULL /\ table'[g] = table'[h] => g = h
    BY <1>4, <1>11 DEF Calm, OneEnd
  <2>2. \A g \in Fds : table'[g] # NULL => client'[table'[g]] \in {"open", "left"}
    BY <1>4, <1>11 DEF Calm, OneEnd
  <2> QED
    BY <2>1, <2>2 DEF OneEnd
<1>13. NotRead'
  <2>1. \A d \in Clients : client'[d] \in {"new", "waiting"} => unread[d] = sent[d]
    BY <1>4 DEF Calm, NotRead
  <2>2. \A t \in Threads : Hand(t) # NULL => unread[table'[Hand(t)]] = sent[table'[Hand(t)]]
    BY <1>4, <1>6, HandFacts DEF Calm, NotRead
  <2>3. unread[table'[f]] = sent[table'[f]]
    BY <1>1, <1>4 DEF Calm, NotRead
  <2>4. \A t \in Threads : pc[t] \in {"start", "read"} /\ Hand(t) = NULL => exhausted
    BY DEF Calm, NotRead
  <2> QED
    BY <1>1, <1>3, <1>5, <2>1, <2>2, <2>3, <2>4 DEF NotRead
<1>14. OwnAnswer'
  <2>1. received[c] = << >>
    BY <1>1 DEF Calm, OwnAnswer
  <2>2. \A d \in Clients : d # c => (d \in Open' => d \in Open)
    BY <1>3, <1>4 DEF Open
  <2> QED
    BY <1>1, <1>4, <2>1, <2>2 DEF Calm, OwnAnswer
<1> QED
  BY <1>7, <1>8, <1>9, <1>10, <1>12, <1>13, <1>14 DEF Calm

LEMMA AcceptFailsCalm ==
  ASSUME TypeOK, Calm, AcceptFails, ~raced'
  PROVE  Calm'
<1>1. /\ UNCHANGED <<table, pc, fd, reading, queue, worker, job, client, sent, unread, received>>
      /\ clientfd' = NULL /\ loop' = "create" /\ loop = "accept" /\ exhausted'
  BY DEF AcceptFails, threads, peers
<1>2. \A t \in Threads : ~Started(t)
  BY DEF AcceptFails, Overwritten
<1>3. /\ \A t \in Threads : Hand(t)' = Hand(t)
      /\ LoopHand = NULL /\ LoopHand' = NULL
      /\ \A t \in Threads : pc'[t] = "wait" => table[fd'[t]] = reading'[t]
  BY <1>1, <1>2, HandsKept DEF LoopHand, Calm, HandsOpen
<1>4. OneStart'
  BY <1>1, <1>2 DEF OneStart, Started
<1>5. OneHand' /\ HandsOpen' /\ OpenHeld'
  BY <1>1, <1>3, HandsStay DEF Calm
<1>6. NotRead'
  BY <1>1, <1>3 DEF Calm, NotRead
<1>7. OneEnd' /\ OwnAnswer'
  BY <1>1 DEF Calm, OneEnd, OwnAnswer, Open
<1> QED
  BY <1>4, <1>5, <1>6, <1>7 DEF Calm

LEMMA CreateCalm ==
  ASSUME TypeOK, Calm, NEW t \in Threads, Create(t)
  PROVE  Calm'
<1>1. /\ UNCHANGED <<clientfd, table, fd, reading, queue, worker, job, client, sent, unread,
                     received, exhausted>>
      /\ loop = "create" /\ loop' = "accept"
      /\ pc[t] = "none" /\ pc'[t] = "start"
      /\ \A u \in Threads : u # t => pc'[u] = pc[u]
  BY TypeFacts DEF Create, peers
<1>2. \A u \in Threads : ~Started(u)
  BY <1>1 DEF Calm, OneStart
<1>3. /\ \A u \in Threads : u # t => Hand(u)' = Hand(u)
      /\ Hand(t) = NULL /\ Hand(t)' = LoopHand
      /\ LoopHand' = NULL /\ JobHand' = JobHand
  <2>1. \A u \in Threads : u # t => Hand(u)' = Hand(u)
    BY <1>1, HandsKept
  <2> QED
    BY <1>1, <2>1 DEF Hand, Started, LoopHand, JobHand
<1>4. OneStart'
  BY <1>1, <1>2 DEF OneStart, Started
<1>5. OneHand'
  <2>1. \A u, v \in Threads : Hand(u)' # NULL /\ Hand(u)' = Hand(v)' => u = v
    BY <1>3 DEF Calm, OneHand
  <2>2. \A u \in Threads, i \in DOMAIN queue : Hand(u)' # queue[i].fd
    BY <1>3 DEF Calm, OneHand
  <2>3. \A u \in Threads : Hand(u)' # NULL => Hand(u)' # JobHand
    BY <1>3 DEF Calm, OneHand
  <2>4. \A i \in DOMAIN queue : queue[i].fd # NULL
    BY HandFacts, NullFacts
  <2> QED
    BY <1>1, <1>3, <2>1, <2>2, <2>3, <2>4 DEF Calm, OneHand
<1>6. HandsOpen'
  <2>1. \A u \in Threads : Hand(u)' # NULL => table[Hand(u)'] # NULL
    BY <1>3 DEF Calm, HandsOpen
  <2>2. \A u \in Threads : pc'[u] = "wait" => table[fd[u]] = reading[u]
    BY <1>1 DEF Calm, HandsOpen
  <2> QED
    BY <1>1, <1>3, <2>1, <2>2 DEF Calm, HandsOpen
<1>7. OpenHeld'
  BY <1>1, <1>3, NullFacts DEF Calm, OpenHeld
<1>8. NotRead'
  <2>1. \A u \in Threads : Hand(u)' # NULL => unread[table[Hand(u)']] = sent[table[Hand(u)']]
    BY <1>3 DEF Calm, NotRead
  <2>2. \A u \in Threads : pc'[u] \in {"start", "read"} /\ Hand(u)' = NULL => exhausted
    BY <1>1, <1>3 DEF Calm, NotRead
  <2> QED
    BY <1>1, <1>3, <2>1, <2>2 DEF Calm, NotRead
<1>9. OneEnd' /\ OwnAnswer'
  BY <1>1 DEF Calm, OneEnd, OwnAnswer, Open
<1> QED
  BY <1>4, <1>5, <1>6, <1>7, <1>8, <1>9 DEF Calm

LEMMA BeginCalm ==
  ASSUME TypeOK, Calm, NEW t \in Threads, CopyFd(t) \/ BeginRead(t) \/ ReadEmpty(t)
  PROVE  Calm'
<1>1. /\ UNCHANGED <<clientfd, loop, table, queue, worker, job, client, sent, unread, received,
                     exhausted>>
      /\ \A u \in Threads : u # t => pc'[u] = pc[u] /\ fd'[u] = fd[u] /\ reading'[u] = reading[u]
  BY TypeFacts DEF CopyFd, BeginRead, ReadEmpty, threads, peers
<1>2. /\ Hand(t)' = Hand(t)
      /\ pc'[t] \in {"start", "read"} => pc[t] \in {"start", "read"}
      /\ pc'[t] = "wait" => table[fd'[t]] = reading'[t]
      /\ Started(t)' => Started(t)
  <2>1. CASE CopyFd(t)
    BY <2>1, TypeFacts DEF CopyFd, Hand, Started
  <2>2. CASE BeginRead(t)
    <3>1. CASE pc'[t] = pc[t]
      BY <2>2, <3>1, TypeFacts DEF BeginRead, Hand, Started
    <3>2. CASE pc'[t] # pc[t]
      <4>1. pc[t] = "read" /\ pc'[t] = "wait" /\ fd' = fd
        BY <2>2, <3>2, TypeFacts DEF BeginRead
      <4>2. table[fd'[t]] = reading'[t]
        BY <2>2, <3>2, TypeFacts DEF BeginRead
      <4> QED
        BY <4>1, <4>2 DEF Hand, Started
    <3> QED
      BY <3>1, <3>2
  <2>3. CASE ReadEmpty(t)
    BY <2>3 DEF ReadEmpty, Hand, Started, threads, Calm, HandsOpen
  <2> QED
    BY <2>1, <2>2, <2>3
<1>3. /\ \A u \in Threads : Hand(u)' = Hand(u)
      /\ LoopHand' = LoopHand
      /\ \A u \in Threads : pc'[u] = "wait" => table[fd'[u]] = reading'[u]
      /\ \A u \in Threads : pc'[u] \in {"start", "read"} => pc[u] \in {"start", "read"}
      /\ \A u \in Threads : Started(u)' => Started(u)
  <2>1. \A u \in Threads : u # t => Hand(u)' = Hand(u) /\ (Started(u)' => Started(u))
    BY <1>1, HandsKept DEF Started
  <2>2. \A u \in Threads : u # t => (pc'[u] = "wait" => table[fd'[u]] = reading'[u])
    BY <1>1 DEF Calm, HandsOpen
  <2> QED
    BY <1>1, <1>2, <2>1, <2>2 DEF LoopHand
<1>4. OneStart'
  BY <1>1, <1>3 DEF Calm, OneStart
<1>5. OneHand' /\ HandsOpen' /\ OpenHeld'
  BY <1>1, <1>3, HandsStay DEF Calm
<1>6. NotRead'
  BY <1>1, <1>3, UnreadStays DEF Calm
<1>7. OneEnd' /\ OwnAnswer'
  BY <1>1 DEF Calm, OneEnd, OwnAnswer, Open
<1> QED
  BY <1>4, <1>5, <1>6, <1>7 DEF Calm

LEMMA EndReadCalm ==
  ASSUME TypeOK, Calm, NEW t \in Threads, EndRead(t)
  PROVE  Calm'
<1> DEFINE c == reading[t]
           f == fd[t]
           p == [fd |-> f, from |-> c, size |-> unread[c]]
<1>1. /\ UNCHANGED <<clientfd, loop, table, fd, reading, worker, job, client, sent, received,
                     exhausted>>
      /\ queue' = Append(queue, p)
      /\ unread' = [unread EXCEPT ![c] = 0]
      /\ pc[t] = "wait" /\ pc'[t] = "done"
      /\ \A u \in Threads : u # t => pc'[u] = pc[u]
  BY TypeFacts DEF EndRead
<1>2. /\ c \in Clients /\ f \in Fds /\ Hand(t) = f /\ table[f] = c /\ p.fd = f /\ p.from = c
      /\ p \in Packets
  BY <1>1, TypeFacts, HandFacts DEF Calm, HandsOpen, Packets
<1>3. /\ DOMAIN queue' = 1..(Len(queue) + 1) /\ DOMAIN queue = 1..Len(queue)
      /\ Len(queue) \in Nat
      /\ \A i \in DOMAIN queue : queue'[i] = queue[i]
      /\ queue'[Len(queue) + 1] = p
  BY <1>1, <1>2, TypeFacts, AppendFacts
<1>4. \A d \in Clients : unread'[d] = IF d = c THEN 0 ELSE unread[d]
  BY <1>1, TypeFacts
<1> HIDE DEF c, f, p
<1>5. \A i \in DOMAIN queue' : i \in DOMAIN queue \/ i = Len(queue) + 1
  BY <1>3
<1>6. \A i \in DOMAIN queue : i \in DOMAIN queue' /\ i # Len(queue) + 1
  BY <1>3
<1>7. Len(queue) + 1 \in DOMAIN queue'
  BY <1>3
<1>8. /\ \A u \in Threads : u # t => Hand(u)' = Hand(u)
      /\ Hand(t)' = NULL
      /\ LoopHand' = LoopHand /\ JobHand' = JobHand
  <2>1. \A u \in Threads : u # t => Hand(u)' = Hand(u)
    BY <1>1, HandsKept
  <2> QED
    BY <1>1, <2>1 DEF Hand, Started, LoopHand, JobHand
<1>9. OneStart'
  BY <1>1 DEF Calm, OneStart, Started
<1>10. /\ \A u \in Threads : Hand(u)' # f
       /\ \A i \in DOMAIN queue : queue[i].fd # f
       /\ LoopHand # f /\ JobHand # f
  BY <1>2, <1>8, NullFacts DEF Calm, OneHand
<1>11. OneHand'
  <2>1. \A u, v \in Threads : Hand(u)' # NULL /\ Hand(u)' = Hand(v)' => u = v
    BY <1>8 DEF Calm, OneHand
  <2>2. \A i, j \in DOMAIN queue' : queue'[i].fd = queue'[j].fd => i = j
    BY <1>2, <1>3, <1>5, <1>10 DEF Calm, OneHand
  <2>3. \A u \in Threads, i \in DOMAIN queue' : Hand(u)' # queue'[i].fd
    <3>1. \A i \in DOMAIN queue : queue[i].fd # NULL
      BY HandFacts, NullFacts
    <3> QED
      BY <1>2, <1>3, <1>5, <1>8, <1>10, <3>1 DEF Calm, OneHand
  <2>4. \A i \in DOMAIN queue' : queue'[i].fd # LoopHand /\ queue'[i].fd # JobHand
    BY <1>2, <1>3, <1>5, <1>10 DEF Calm, OneHand
  <2>5. \A u \in Threads : Hand(u)' # NULL => Hand(u)' # LoopHand /\ Hand(u)' # JobHand
    BY <1>8 DEF Calm, OneHand
  <2> QED
    BY <1>8, <2>1, <2>2, <2>3, <2>4, <2>5 DEF Calm, OneHand
<1>12. HandsOpen'
  <2>1. \A i \in DOMAIN queue' : table[queue'[i].fd] = queue'[i].from
    BY <1>2, <1>3, <1>5 DEF Calm, HandsOpen
  <2>2. \A u \in Threads : Hand(u)' # NULL => table[Hand(u)'] # NULL
    BY <1>8 DEF Calm, HandsOpen
  <2>3. \A u \in Threads : pc'[u] = "wait" => table[fd[u]] = reading[u]
    BY <1>1 DEF Calm, HandsOpen
  <2> QED
    BY <1>1, <1>8, <2>1, <2>2, <2>3 DEF Calm, HandsOpen
<1>13. OpenHeld'
  <2> SUFFICES ASSUME NEW g \in Fds, table[g] # NULL
               PROVE  \/ \E u \in Threads : Hand(u)' = g
                      \/ \E i \in DOMAIN queue' : queue'[i].fd = g
                      \/ LoopHand = g \/ JobHand = g
    BY <1>1, <1>8 DEF OpenHeld
  <2>1. CASE g = f
    BY <1>2, <1>3, <1>7, <2>1
  <2>2. CASE g # f
    BY <1>2, <1>3, <1>6, <1>8, <2>2 DEF Calm, OpenHeld
  <2> QED
    BY <2>1, <2>2
<1>14. OneEnd'
  BY <1>1 DEF Calm, OneEnd
<1>15. NotRead'
  <2>1. \A g \in Fds : table[g] = c => g = f
    BY <1>2, NullFacts DEF Calm, OneEnd
  <2>2. client[c] \in {"open", "left"}
    BY <1>2, NullFacts DEF Calm, OneEnd
  <2>3. \A g \in Fds : table[g] # NULL => table[g] \in Clients
    BY TypeFacts
  <2>4. \A d \in Clients : client[d] \in {"new", "waiting"} => unread'[d] = sent[d]
    BY <1>4, <2>2 DEF Calm, NotRead
  <2>5. \A u \in Threads : Hand(u)' # NULL => unread'[table[Hand(u)']] = sent[table[Hand(u)']]
    BY <1>4, <1>8, <1>10, <2>1, <2>3, HandFacts DEF Calm, NotRead, HandsOpen
  <2>6. LoopHand # NULL => unread'[table[LoopHand]] = sent[table[LoopHand]]
    BY <1>4, <1>10, <2>1, <2>3, HandFacts DEF Calm, NotRead, HandsOpen
  <2>7. \A u \in Threads : pc'[u] \in {"start", "read"} /\ Hand(u)' = NULL => exhausted
    BY <1>1, <1>8 DEF Calm, NotRead
  <2> QED
    BY <1>1, <1>8, <2>4, <2>5, <2>6, <2>7 DEF Calm, NotRead
<1>16. OwnAnswer'
  BY <1>1 DEF Calm, OwnAnswer, Open
<1> QED
  BY <1>9, <1>11, <1>12, <1>13, <1>14, <1>15, <1>16 DEF Calm

LEMMA TakeCalm ==
  ASSUME TypeOK, Calm, Take
  PROVE  Calm'
<1> DEFINE n == Len(queue)
<1>1. /\ UNCHANGED <<clientfd, loop, table, pc, fd, reading, client, sent, unread, received,
                     exhausted>>
      /\ worker = "take" /\ worker' = "answer"
      /\ queue' = Tail(queue) /\ job' = Head(queue)
  BY DEF Take, threads, peers
<1>2. /\ n \in Nat \ {0} /\ DOMAIN queue = 1..n /\ DOMAIN queue' = 1..(n - 1)
      /\ \A i \in DOMAIN queue' : queue'[i] = queue[i + 1]
      /\ job' = queue[1] /\ job' \in Packets
  BY <1>1, TypeFacts, TailFacts DEF Take
<1> HIDE DEF n
<1>3. /\ 1 \in DOMAIN queue
      /\ \A i \in DOMAIN queue' : i + 1 \in DOMAIN queue /\ i + 1 # 1
  BY <1>2
<1>4. \A i \in DOMAIN queue : i = 1 \/ \E j \in DOMAIN queue' : i = j + 1
  <2> SUFFICES ASSUME NEW i \in DOMAIN queue, i # 1
               PROVE  \E j \in DOMAIN queue' : i = j + 1
    OBVIOUS
  <2>1. i - 1 \in DOMAIN queue' /\ i = (i - 1) + 1
    BY <1>2
  <2> QED
    BY <2>1
<1>5. /\ \A t \in Threads : Hand(t)' = Hand(t)
      /\ LoopHand' = LoopHand
      /\ JobHand = NULL /\ JobHand' = queue[1].fd /\ queue[1].fd # NULL
  <2>1. \A t \in Threads : Hand(t)' = Hand(t)
    BY <1>1, HandsKept
  <2>2. job' # NULL
    BY <1>2, PacketFacts
  <2> QED
    BY <1>1, <1>2, <1>3, <2>1, <2>2, HandFacts, NullFacts DEF LoopHand, JobHand
<1>6. OneStart'
  BY <1>1 DEF Calm, OneStart, Started
<1>7. OneHand'
  <2>1. \A i, j \in DOMAIN queue' : queue'[i].fd = queue'[j].fd => i = j
    <3> SUFFICES ASSUME NEW i \in DOMAIN queue', NEW j \in DOMAIN queue',
                        queue'[i].fd = queue'[j].fd
                 PROVE  i = j
      OBVIOUS
    <3>1. i + 1 = j + 1
      BY <1>2, <1>3 DEF Calm, OneHand
    <3> QED
      BY <1>2, <3>1
  <2>2. \A t \in Threads, i \in DOMAIN queue' : Hand(t) # queue'[i].fd
    BY <1>2, <1>3 DEF Calm, OneHand
  <2>3. \A t \in Threads : Hand(t) # NULL => Hand(t) # LoopHand /\ Hand(t) # queue[1].fd
    BY <1>3 DEF Calm, OneHand
  <2>4. \A i \in DOMAIN queue' : queue'[i].fd # LoopHand /\ queue'[i].fd # queue[1].fd
    BY <1>2, <1>3 DEF Calm, OneHand
  <2>5. LoopHand # queue[1].fd
    BY <1>3 DEF Calm, OneHand
  <2>6. \A t, u \in Threads : Hand(t) # NULL /\ Hand(t) = Hand(u) => t = u
    BY DEF Calm, OneHand
  <2> QED
    BY <1>5, <2>1, <2>2, <2>3, <2>4, <2>5, <2>6 DEF OneHand
<1>8. HandsOpen'
  <2>1. \A i \in DOMAIN queue' : table[queue'[i].fd] = queue'[i].from
    BY <1>2, <1>3 DEF Calm, HandsOpen
  <2>2. table[queue[1].fd] = job'.from
    BY <1>2, <1>3 DEF Calm, HandsOpen
  <2> QED
    BY <1>1, <1>5, <2>1, <2>2 DEF Calm, HandsOpen
<1>9. OpenHeld'
  <2> SUFFICES ASSUME NEW g \in Fds, table[g] # NULL
               PROVE  \/ \E u \in Threads : Hand(u) = g
                      \/ \E i \in DOMAIN queue' : queue'[i].fd = g
                      \/ LoopHand = g \/ queue[1].fd = g
    BY <1>1, <1>5 DEF OpenHeld
  <2>1. ASSUME NEW i \in DOMAIN queue, queue[i].fd = g
        PROVE  (\E j \in DOMAIN queue' : queue'[j].fd = g) \/ queue[1].fd = g
    BY <1>2, <1>4, <2>1
  <2> QED
    BY <1>5, <2>1, NullFacts DEF Calm, OpenHeld
<1>10. OneEnd'
  BY <1>1 DEF Calm, OneEnd
<1>11. NotRead'
  BY <1>1, <1>5, UnreadStays DEF Calm
<1>12. OwnAnswer'
  BY <1>1 DEF Calm, OwnAnswer, Open
<1> QED
  BY <1>6, <1>7, <1>8, <1>9, <1>10, <1>11, <1>12 DEF Calm

\* The connection behind the descriptor is the one the packet was read from.
LEMMA AnswersOwn ==
  ASSUME TypeOK, Calm, Answer
  PROVE  /\ table[job.fd] = job.from /\ job.from \in Clients /\ job.fd \in Fds
         /\ JobHand = job.fd
         /\ job.from \in Open
         /\ received[job.from] = << >>
         /\ \/ UNCHANGED received
            \/ /\ client[job.from] = "open"
               /\ \E n \in 0..MaxReplies :
                    received' = [received EXCEPT ![job.from] = [i \in 1..n |-> job.from]]
<1>1. /\ worker = "answer" /\ JobHand = job.fd /\ job.fd \in Fds /\ job.from \in Clients
      /\ job \in Packets
  BY HandFacts, TypeFacts DEF Answer
<1>2. table[job.fd] = job.from
  BY <1>1, NullFacts DEF Calm, HandsOpen
<1>3. job.from \in Open
  BY <1>1, <1>2 DEF Open
<1>4. received[job.from] = << >>
  BY <1>1, <1>3 DEF Calm, OwnAnswer
<1>5. \A n \in 0..MaxReplies :
        received[job.from] \o [i \in 1..n |-> job.from] = [i \in 1..n |-> job.from]
  <2>1. << >> \in Seq(Clients) /\ MaxReplies \in Nat
    BY AcceptAssumption
  <2> QED
    BY <1>1, <1>4, <2>1, CopiesFacts
<1>6. CASE received' = received
  BY <1>1, <1>2, <1>3, <1>4, <1>6
<1>7. CASE received' # received
  <2>1. PICK n \in RepliesTo(job) :
          received' = IF table[job.fd] # NULL /\ client[table[job.fd]] = "open"
                      THEN [received EXCEPT ![table[job.fd]] = @ \o [i \in 1..n |-> job.from]]
                      ELSE received
    BY DEF Answer
  <2>2. n \in 0..MaxReplies
    BY <1>1, RepliesFacts
  <2>3. /\ client[job.from] = "open"
        /\ received' = [received EXCEPT ![job.from] = [i \in 1..n |-> job.from]]
    BY <1>2, <1>5, <1>7, <2>1, <2>2
  <2> QED
    BY <1>1, <1>2, <1>3, <1>4, <2>2, <2>3
<1> QED
  BY <1>6, <1>7

LEMMA AnswerCalm ==
  ASSUME TypeOK, Calm, Answer
  PROVE  Calm'
<1>1. /\ UNCHANGED <<clientfd, loop, table, pc, fd, reading, queue, job, client, sent, unread,
                     exhausted>>
      /\ worker' = "close"
  BY DEF Answer, threads
<1>2. /\ \A t \in Threads : Hand(t)' = Hand(t)
      /\ LoopHand' = LoopHand
      /\ \A t \in Threads : pc'[t] = "wait" => table[fd'[t]] = reading'[t]
  BY <1>1, HandsKept DEF LoopHand, Calm, HandsOpen
<1>3. OneStart' /\ OneEnd'
  BY <1>1 DEF Calm, OneStart, Started, OneEnd
<1>4. OneHand' /\ HandsOpen' /\ OpenHeld'
  BY <1>1, <1>2, HandsStay DEF Calm
<1>5. NotRead'
  BY <1>1, <1>2, UnreadStays DEF Calm
<1>6. OwnAnswer'
  <2> SUFFICES ASSUME NEW d \in Clients, received'[d] # << >>
               PROVE  client[d] \in {"open", "left"} /\ (d \in Open => job.from = d)
    BY <1>1 DEF OwnAnswer, Open
  <2>1. worker = "answer"
    BY DEF Answer
  <2>2. CASE received'[d] = received[d]
    BY <2>1, <2>2 DEF Calm, OwnAnswer
  <2>3. CASE received'[d] # received[d]
    BY <2>3, AnswersOwn, TypeFacts
  <2> QED
    BY <2>2, <2>3
<1> QED
  BY <1>3, <1>4, <1>5, <1>6 DEF Calm

\* A worker that waits for a store for ever holds what it held.
LEMMA HangCalm ==
  ASSUME TypeOK, Calm, Hang
  PROVE  Calm'
<1>1. /\ UNCHANGED <<clientfd, loop, table, pc, fd, reading, queue, job, client, sent, unread,
                     received, exhausted>>
      /\ worker = "answer" /\ worker' = "stuck"
  BY DEF Hang, threads, peers
<1>2. /\ \A t \in Threads : Hand(t)' = Hand(t)
      /\ LoopHand' = LoopHand
      /\ \A t \in Threads : pc'[t] = "wait" => table[fd'[t]] = reading'[t]
  BY <1>1, HandsKept DEF LoopHand, Calm, HandsOpen
<1>3. OneStart' /\ OneEnd'
  BY <1>1 DEF Calm, OneStart, Started, OneEnd
<1>4. OneHand' /\ HandsOpen' /\ OpenHeld'
  BY <1>1, <1>2, HandsStay DEF Calm
<1>5. NotRead'
  BY <1>1, <1>2, UnreadStays DEF Calm
<1>6. OwnAnswer'
  BY <1>1 DEF Calm, OwnAnswer, Open
<1> QED
  BY <1>3, <1>4, <1>5, <1>6 DEF Calm

LEMMA CloseCalm ==
  ASSUME TypeOK, Calm, Close
  PROVE  Calm'
<1> DEFINE f == job.fd
<1>1. /\ UNCHANGED <<clientfd, loop, pc, fd, reading, queue, client, sent, unread, received,
                     exhausted>>
      /\ worker = "close" /\ worker' = "take" /\ job' = NULL
      /\ table' = [table EXCEPT ![f] = NULL]
  BY DEF Close, threads, peers
<1>2. JobHand = f /\ f \in Fds /\ table[f] = job.from /\ job.from \in Clients
  BY <1>1, HandFacts, NullFacts DEF Calm, HandsOpen
<1> HIDE DEF f
<1>3. /\ table'[f] = NULL
      /\ \A g \in Fds : g # f => table'[g] = table[g]
  BY <1>1, <1>2, TypeFacts
<1>4. /\ \A t \in Threads : Hand(t)' = Hand(t)
      /\ LoopHand' = LoopHand /\ JobHand' = NULL
  BY <1>1, HandsKept DEF LoopHand, JobHand
<1>5. /\ \A t \in Threads : Hand(t) # f
      /\ \A i \in DOMAIN queue : queue[i].fd # f
      /\ LoopHand # f
  BY <1>2, NullFacts DEF Calm, OneHand
<1>6. OneStart'
  BY <1>1 DEF Calm, OneStart, Started
<1>7. OneHand'
  <2>1. \A i \in DOMAIN queue : queue[i].fd # NULL
    BY HandFacts, NullFacts
  <2> QED
    BY <1>1, <1>4, <2>1 DEF Calm, OneHand
<1>8. HandsOpen'
  <2>1. \A t \in Threads : Hand(t) # NULL => table'[Hand(t)] # NULL
    BY <1>3, <1>5, HandFacts DEF Calm, HandsOpen
  <2>2. \A i \in DOMAIN queue : table'[queue[i].fd] = queue[i].from
    BY <1>3, <1>5, HandFacts DEF Calm, HandsOpen
  <2>3. LoopHand # NULL => table'[LoopHand] # NULL
    BY <1>3, <1>5, HandFacts DEF Calm, HandsOpen
  <2>4. \A t \in Threads : pc[t] = "wait" => table'[fd[t]] = reading[t]
    BY <1>3, <1>5, HandFacts DEF Calm, HandsOpen
  <2> QED
    BY <1>1, <1>4, <2>1, <2>2, <2>3, <2>4 DEF HandsOpen
<1>9. OpenHeld'
  <2>1. \A g \in Fds : table'[g] # NULL => table[g] # NULL /\ g # f
    BY <1>3
  <2> QED
    BY <1>1, <1>2, <1>4, <2>1 DEF Calm, OpenHeld
<1>10. OneEnd'
  <2>1. \A g \in Fds : table'[g] # NULL => table'[g] = table[g]
    BY <1>3
  <2> QED
    BY <1>1, <2>1 DEF Calm, OneEnd
<1>11. NotRead'
  <2>1. \A t \in Threads : Hand(t) # NULL => table'[Hand(t)] = table[Hand(t)]
    BY <1>3, <1>5, HandFacts
  <2>2. LoopHand # NULL => table'[LoopHand] = table[LoopHand]
    BY <1>3, <1>5, HandFacts
  <2>3. \A t \in Threads : Hand(t) # NULL => unread[table'[Hand(t)]] = sent[table'[Hand(t)]]
    BY <2>1 DEF Calm, NotRead
  <2>4. LoopHand # NULL => unread[table'[LoopHand]] = sent[table'[LoopHand]]
    BY <2>2 DEF Calm, NotRead
  <2> QED
    BY <1>1, <1>4, <2>3, <2>4 DEF Calm, NotRead
<1>12. OwnAnswer'
  <2>1. \A g \in Fds : table[g] = job.from => g = f
    BY <1>2, NullFacts DEF Calm, OneEnd
  <2>2. \A d \in Clients : d \in Open' => d \in Open /\ d # job.from
    BY <1>3, <2>1, NullFacts DEF Open
  <2> QED
    BY <1>1, <2>2 DEF Calm, OwnAnswer
<1> QED
  BY <1>6, <1>7, <1>8, <1>9, <1>10, <1>11, <1>12 DEF Calm

-----------------------------------------------------------------------------
(* The invariant holds.                                                    *)

LEMMA RacedStays ==
  ASSUME Next, ~raced'
  PROVE  ~raced
<1>1. ASSUME NEW c \in Clients, Connect(c) \/ Send(c) \/ Leave(c) \/ Accept(c) PROVE ~raced
  BY <1>1 DEF Connect, Send, Leave, Accept, Overwritten
<1>2. CASE AcceptFails \/ Worker
  BY <1>2 DEF AcceptFails, Overwritten, Worker, Take, Answer, Hang, Close
<1>3. ASSUME NEW t \in Threads, Create(t) \/ Handler(t) PROVE ~raced
  BY <1>3 DEF Create, Handler, CopyFd, BeginRead, EndRead, ReadEmpty
<1> QED
  BY <1>1, <1>2, <1>3 DEF Next, Listener

LEMMA CalmStep ==
  ASSUME TypeOK, ~raced => Calm, ~raced', [Next]_vars
  PROVE  Calm'
<1>1. CASE UNCHANGED vars
  BY <1>1 DEF vars, threads, peers, Calm, OneStart, OneHand, HandsOpen, OpenHeld, OneEnd, NotRead,
              OwnAnswer, Open, Started, Hand, LoopHand, JobHand
<1>2. CASE Next
  <2>1. ~raced
    BY <1>2, RacedStays
  <2>2. Calm
    BY <2>1
  <2> QED
    BY <1>2, <2>2, ClientCalm, AcceptCalm, AcceptFailsCalm, CreateCalm, BeginCalm, EndReadCalm,
       TakeCalm, AnswerCalm, HangCalm, CloseCalm
       DEF Next, Listener, Handler, Worker
<1> QED
  BY <1>1, <1>2

LEMMA CrashesStep ==
  ASSUME IInv, [Next]_vars
  PROVE  CrashesOnlyWhen'
<1>1. CASE UNCHANGED vars
  BY <1>1 DEF vars, peers, IInv, CrashesOnlyWhen
<1>2. ASSUME NEW c \in Clients, Connect(c) \/ Send(c) \/ Leave(c) PROVE CrashesOnlyWhen'
  BY <1>2 DEF Connect, Send, Leave, Ok, CrashesOnlyWhen
<1>3. CASE Listener
  BY <1>3 DEF Listener, Accept, AcceptFails, Create, Ok, CrashesOnlyWhen
<1>4. CASE Worker
  <2>1. CASE Take \/ Hang \/ Close
    BY <2>1 DEF Take, Hang, Close, Ok, CrashesOnlyWhen
  <2>2. CASE Answer
    <3>1. job \in Packets /\ job # NULL /\ job' = job
      BY <2>2, TypeFacts, PacketFacts DEF Answer, IInv
    <3>2. status' = "crashed" => Malformed(job)
      BY <2>2 DEF Answer
    <3>3. Malformed(job)' <=> Malformed(job)
      BY <3>1 DEF Malformed
    <3> QED
      BY <3>1, <3>2, <3>3 DEF CrashesOnlyWhen
  <2> QED
    BY <1>4, <2>1, <2>2 DEF Worker
<1>5. ASSUME NEW t \in Threads, CopyFd(t) \/ EndRead(t) PROVE CrashesOnlyWhen'
  BY <1>5 DEF CopyFd, EndRead, Ok, CrashesOnlyWhen
<1>6. ASSUME NEW t \in Threads, BeginRead(t) PROVE CrashesOnlyWhen'
  <2>1. UNCHANGED <<raced, exhausted, client, sent>> /\ pc[t] = "read"
    BY <1>6 DEF BeginRead, peers
  <2>2. CASE raced
    BY <2>1, <2>2 DEF CrashesOnlyWhen
  <2>3. CASE fd[t] # NULL /\ table[fd[t]] # NULL
    BY <1>6, <2>3 DEF BeginRead, Ok, CrashesOnlyWhen
  <2>4. ASSUME ~raced, fd[t] = NULL \/ table[fd[t]] = NULL PROVE CrashesOnlyWhen'
    <3>1. Hand(t) = fd[t]
      BY <2>1 DEF Hand, Started
    <3>2. Hand(t) = NULL
      BY <2>4, <3>1 DEF IInv, Calm, HandsOpen
    <3>3. exhausted
      BY <2>1, <2>4, <3>2 DEF IInv, Calm, NotRead
    <3> QED
      BY <2>1, <3>3 DEF CrashesOnlyWhen
  <2> QED
    BY <2>2, <2>3, <2>4
<1>7. ASSUME NEW t \in Threads, ReadEmpty(t) PROVE CrashesOnlyWhen'
  <2>1. /\ UNCHANGED <<raced, exhausted, client, sent>> /\ pc[t] = "wait"
        /\ unread[reading[t]] = 0 /\ client[reading[t]] = "left"
    BY <1>7 DEF ReadEmpty, peers
  <2>2. reading[t] \in Clients /\ Hand(t) = fd[t] /\ fd[t] \in Fds
    BY <2>1, TypeFacts, HandFacts DEF IInv
  <2>3. CASE ~raced
    <3>1. table[fd[t]] = reading[t]
      BY <2>1, <2>3 DEF IInv, Calm, HandsOpen
    <3>2. sent[reading[t]] = 0
      BY <2>1, <2>2, <2>3, <3>1, NullFacts DEF IInv, Calm, NotRead
    <3> QED
      BY <2>1, <2>2, <3>2 DEF CrashesOnlyWhen
  <2> QED
    BY <2>1, <2>3 DEF CrashesOnlyWhen
<1> QED
  BY <1>1, <1>2, <1>3, <1>4, <1>5, <1>6, <1>7 DEF Next, Handler

LEMMA InitSafe == Init => IInv
<1> SUFFICES ASSUME Init
             PROVE  IInv
  OBVIOUS
<1>1. LoopTypeOK /\ TableTypeOK /\ HistoryTypeOK
  BY DEF Init, LoopTypeOK, TableTypeOK, HistoryTypeOK
<1>2. ThreadTypeOK
  BY DEF Init, ThreadTypeOK
<1>3. WorkerTypeOK
  BY DEF Init, WorkerTypeOK
<1>4. PeersTypeOK
  BY DEF Init, PeersTypeOK
<1>5. CrashesOnlyWhen
  BY DEF Init, CrashesOnlyWhen
<1>6. /\ \A t \in Threads : Hand(t) = NULL /\ ~Started(t)
      /\ LoopHand = NULL /\ JobHand = NULL /\ queue = << >>
  BY DEF Init, Hand, Started, LoopHand, JobHand
<1>7. OneStart /\ OneHand /\ HandsOpen
  BY <1>6 DEF Init, OneStart, OneHand, HandsOpen
<1>8. OpenHeld /\ OneEnd /\ OwnAnswer
  BY DEF Init, OpenHeld, OneEnd, OwnAnswer
<1>9. NotRead
  BY <1>6 DEF Init, NotRead
<1> QED
  BY <1>1, <1>2, <1>3, <1>4, <1>5, <1>7, <1>8, <1>9 DEF IInv, TypeOK, Calm

LEMMA NextSafe == IInv /\ [Next]_vars => IInv'
BY TypeStep, CrashesStep, CalmStep DEF IInv

LEMMA Invariant == Spec => []IInv
BY InitSafe, NextSafe, PTL DEF Spec

(* Descriptors, connections and counts stay of their kinds, and the worker *)
(* has a packet exactly while it handles one.                              *)
THEOREM TypeCorrect == Spec => []TypeOK
<1>1. IInv => TypeOK
  BY DEF IInv
<1> QED
  BY <1>1, Invariant, PTL

(* Without the race, the server dies only when it runs out of descriptors, *)
(* a client leaves without a byte, or the worker handles a POST whose      *)
(* fields are missing or had not come, whatever the other clients do.      *)
THEOREM CrashesCorrect == Spec => []CrashesOnlyWhen
<1>1. IInv => CrashesOnlyWhen
  BY DEF IInv
<1> QED
  BY <1>1, Invariant, PTL

LEMMA HolderOfOpen ==
  ASSUME TypeOK, Calm, NEW f \in Fds
  PROVE  IF table[f] = NULL THEN Holders(f) = {} ELSE \E h \in Holders(f) : Holders(f) = {h}
<1>1. f # NULL
  BY NullFacts
<1>2. CASE table[f] = NULL
  <2>1. /\ \A t \in Threads : Hand(t) # f
        /\ \A i \in DOMAIN queue : queue[i].fd # f
        /\ LoopHand # f /\ JobHand # f
    <3>1. \A i \in DOMAIN queue : queue[i].from # NULL
      BY HandFacts, NullFacts
    <3>2. JobHand # NULL => job.from # NULL
      BY HandFacts, NullFacts
    <3> QED
      BY <1>1, <1>2, <3>1, <3>2 DEF Calm, HandsOpen
  <2> QED
    BY <1>2, <2>1 DEF Holders
<1>3. CASE table[f] # NULL
  <2>1. ASSUME NEW t \in Threads, Hand(t) = f
        PROVE  Holders(f) = {<<"thread", t>>}
    <3>1. /\ \A u \in Threads : Hand(u) = f <=> u = t
          /\ \A i \in DOMAIN queue : queue[i].fd # f
          /\ LoopHand # f /\ JobHand # f
      BY <1>1, <2>1 DEF Calm, OneHand
    <3> QED
      BY <3>1 DEF Holders
  <2>2. ASSUME NEW i \in DOMAIN queue, queue[i].fd = f
        PROVE  Holders(f) = {<<"packet", i>>}
    <3>1. /\ \A u \in Threads : Hand(u) # f
          /\ \A j \in DOMAIN queue : queue[j].fd = f <=> j = i
          /\ LoopHand # f /\ JobHand # f
      BY <1>1, <2>2 DEF Calm, OneHand
    <3> QED
      BY <3>1 DEF Holders
  <2>3. CASE LoopHand = f
    <3>1. /\ \A u \in Threads : Hand(u) # f
          /\ \A j \in DOMAIN queue : queue[j].fd # f
          /\ JobHand # f
      BY <1>1, <2>3 DEF Calm, OneHand
    <3>2. Holders(f) = {<<"loop", NULL>>}
      BY <2>3, <3>1 DEF Holders
    <3> QED
      BY <1>3, <3>2
  <2>4. CASE JobHand = f
    <3>1. /\ \A u \in Threads : Hand(u) # f
          /\ \A j \in DOMAIN queue : queue[j].fd # f
          /\ LoopHand # f
      BY <1>1, <2>4 DEF Calm, OneHand
    <3>2. Holders(f) = {<<"worker", NULL>>}
      BY <2>4, <3>1 DEF Holders
    <3> QED
      BY <1>3, <3>2
  <2>5. \/ \E t \in Threads : Hand(t) = f
        \/ \E i \in DOMAIN queue : queue[i].fd = f
        \/ LoopHand = f \/ JobHand = f
    BY <1>3 DEF Calm, OpenHeld
  <2> QED
    BY <1>3, <2>1, <2>2, <2>3, <2>4, <2>5
<1> QED
  BY <1>2, <1>3

(* Until the race, each open descriptor is held by one of the loop, the    *)
(* threads, the packets and the worker, and a closed one by none.          *)
THEOREM OneHolderCorrect == Spec => []OneHolder
<1>1. IInv => OneHolder
  BY HolderOfOpen DEF IInv, OneHolder
<1> QED
  BY <1>1, Invariant, PTL

-----------------------------------------------------------------------------
(* The refinement of Service.                                              *)

Phase == [c \in Clients |-> PhaseOf(c)]

Queued(c) == \E i \in DOMAIN queue : queue[i].from = c

\* What the service sees of a connection that nothing of is changed.
LEMMA SeenSame ==
  ASSUME NEW c \in Clients,
         client'[c] \in {"new", "waiting"} \/ client[c] \in {"new", "waiting"}
           => client'[c] = client[c],
         c \in Open' <=> c \in Open,
         Queued(c)' <=> Queued(c),
         \/ UNCHANGED <<worker, job>>
         \/ (job # NULL => job.from # c) /\ (job' # NULL => job'.from # c)
  PROVE  PhaseOf(c)' = PhaseOf(c)
BY DEF PhaseOf, Queued

\* A step that the service sees of one connection at most is one of its steps.
LEMMA SeenStep ==
  ASSUME NEW c \in Clients,
         \A d \in Clients : d # c => PhaseOf(d)' = PhaseOf(d),
         \/ PhaseOf(c)' = PhaseOf(c) /\ UNCHANGED received
         \/ PhaseOf(c) = "new" /\ PhaseOf(c)' = "waiting" /\ UNCHANGED received
         \/ PhaseOf(c) = "waiting" /\ PhaseOf(c)' = "open" /\ UNCHANGED received
         \/ PhaseOf(c) = "open" /\ PhaseOf(c)' = "read" /\ UNCHANGED received
         \/ PhaseOf(c) = "answered" /\ PhaseOf(c)' = "closed" /\ UNCHANGED received
         \/ /\ PhaseOf(c) = "read" /\ PhaseOf(c)' = "answered"
            /\ \E n \in 0..MaxReplies : received' = [received EXCEPT ![c] = [i \in 1..n |-> c]]
  PROVE  [S!Next]_S!vars
<1>1. /\ Phase' = [Phase EXCEPT ![c] = PhaseOf(c)']
      /\ Phase[c] = PhaseOf(c)
  BY DEF Phase
<1>2. PhaseOf(c)' = PhaseOf(c) => Phase' = Phase
  BY <1>1 DEF Phase
<1>3. Phase' = Phase /\ received' = received => UNCHANGED S!vars
  BY DEF S!vars, Phase
<1>4. ASSUME received' = received,
             \/ Phase[c] = "new" /\ Phase' = [Phase EXCEPT ![c] = "waiting"]
             \/ Phase[c] = "waiting" /\ Phase' = [Phase EXCEPT ![c] = "open"]
             \/ Phase[c] = "open" /\ Phase' = [Phase EXCEPT ![c] = "read"]
             \/ Phase[c] = "answered" /\ Phase' = [Phase EXCEPT ![c] = "closed"]
      PROVE  S!Next
  BY <1>4 DEF S!Next, S!Connect, S!Accept, S!Read, S!Close, S!Goes, Phase
<1>5. ASSUME Phase[c] = "read", Phase' = [Phase EXCEPT ![c] = "answered"],
             \E n \in 0..MaxReplies : received' = [received EXCEPT ![c] = [i \in 1..n |-> c]]
      PROVE  S!Next
  BY <1>5 DEF S!Next, S!Answer, S!Goes, Phase
<1> QED
  BY <1>1, <1>2, <1>3, <1>4, <1>5

LEMMA InitImplements == Init => S!Init
BY DEF Init, S!Init, PhaseOf

LEMMA QuietImplements ==
  ASSUME UNCHANGED <<table, queue, worker, job, received>>,
         \A d \in Clients : client'[d] = client[d] \/ {client[d], client'[d]} \cap {"new", "waiting"} = {}
  PROVE  [S!Next]_S!vars
<1>1. \A d \in Clients : PhaseOf(d)' = PhaseOf(d)
  BY SeenSame DEF Open, Queued
<1> QED
  BY <1>1 DEF S!vars

\* Who has packets has a descriptor.
LEMMA PacketsOpen ==
  ASSUME TypeOK, Calm
  PROVE  /\ \A c \in Clients : Queued(c) => c \in Open
         /\ \A c \in Clients : job # NULL /\ job.from = c => c \in Open /\ JobHand = job.fd
         /\ \A c \in Clients : c \in Open => client[c] \in {"open", "left"}
<1>1. \A c \in Clients : Queued(c) => c \in Open
  BY HandFacts DEF Queued, Open, Calm, HandsOpen
<1>2. job # NULL => JobHand = job.fd /\ job.fd \in Fds
  BY TypeFacts, HandFacts
<1>3. \A c \in Clients : job # NULL /\ job.from = c => c \in Open
  BY <1>2, NullFacts DEF Open, Calm, HandsOpen
<1>4. \A c \in Clients : c \in Open => client[c] \in {"open", "left"}
  BY NullFacts DEF Open, Calm, OneEnd
<1> QED
  BY <1>1, <1>2, <1>3, <1>4

LEMMA AcceptImplements ==
  ASSUME TypeOK, Calm, NEW c \in Clients, Accept(c)
  PROVE  [S!Next]_S!vars
<1>1. /\ UNCHANGED <<queue, worker, job, received>>
      /\ client[c] = "waiting" /\ client'[c] = "open"
      /\ \A d \in Clients : d # c => client'[d] = client[d]
  BY TypeFacts DEF Accept
<1>2. LowestFree \in Fds /\ table[LowestFree] = NULL
  BY LowestIsFree DEF Accept
<1>3. /\ table'[LowestFree] = c
      /\ \A g \in Fds : g # LowestFree => table'[g] = table[g]
  BY <1>2, TypeFacts DEF Accept
<1>4. c \in Open' /\ \A d \in Clients : d # c => (d \in Open' <=> d \in Open)
  BY <1>2, <1>3, NullFacts DEF Open
<1>5. ~Queued(c) /\ (job # NULL => job.from # c)
  BY <1>1, PacketsOpen
<1>6. \A d \in Clients : d # c => PhaseOf(d)' = PhaseOf(d)
  BY <1>1, <1>4, SeenSame DEF Queued
<1>7. PhaseOf(c) = "waiting" /\ PhaseOf(c)' = "open"
  BY <1>1, <1>4, <1>5 DEF PhaseOf, Queued
<1> QED
  BY <1>1, <1>6, <1>7, SeenStep

LEMMA EndReadImplements ==
  ASSUME TypeOK, Calm, NEW t \in Threads, EndRead(t)
  PROVE  [S!Next]_S!vars
<1>a. reading[t] \in Clients
  BY TypeFacts DEF EndRead
<1>b. PICK c \in Clients : c = reading[t]
  BY <1>a
<1> DEFINE p == [fd |-> fd[t], from |-> c, size |-> unread[c]]
<1>1. /\ UNCHANGED <<table, worker, job, client, received>>
      /\ queue' = Append(queue, p)
      /\ fd[t] \in Fds /\ Hand(t) = fd[t] /\ table[fd[t]] = c
  BY <1>b, TypeFacts, HandFacts DEF EndRead, Calm, HandsOpen
<1>2. p \in Packets /\ p.from = c
  BY <1>1, TypeFacts DEF Packets
<1> HIDE DEF p
<1>3. /\ DOMAIN queue' = 1..(Len(queue) + 1) /\ DOMAIN queue = 1..Len(queue)
      /\ Len(queue) \in Nat
      /\ \A i \in DOMAIN queue : queue'[i] = queue[i]
      /\ queue'[Len(queue) + 1] = p
  BY <1>1, <1>2, TypeFacts, AppendFacts
<1>4. /\ \A i \in DOMAIN queue' : i \in DOMAIN queue \/ i = Len(queue) + 1
      /\ \A i \in DOMAIN queue : i \in DOMAIN queue'
      /\ Len(queue) + 1 \in DOMAIN queue'
  BY <1>3
<1>5. Queued(c)' /\ \A d \in Clients : d # c => (Queued(d)' <=> Queued(d))
  <2>1. Queued(c)'
    BY <1>2, <1>3, <1>4 DEF Queued
  <2>2. ASSUME NEW d \in Clients, d # c PROVE Queued(d)' <=> Queued(d)
    BY <1>2, <1>3, <1>4, <2>2 DEF Queued
  <2> QED
    BY <2>1, <2>2
<1>6. c \in Open /\ client[c] \in {"open", "left"}
  BY <1>1, PacketsOpen DEF Open
<1>7. \A g \in Fds : table[g] = c => g = fd[t]
  BY <1>1, NullFacts DEF Calm, OneEnd
<1>8. ~Queued(c)
  BY <1>1, <1>7, HandFacts DEF Queued, Calm, OneHand, HandsOpen
<1>9. job # NULL => job.from # c
  <2>1. job # NULL => JobHand = job.fd /\ job.fd \in Fds /\ table[job.fd] = job.from
    BY HandFacts, TypeFacts, NullFacts DEF Calm, HandsOpen
  <2> QED
    BY <1>1, <1>7, <2>1, NullFacts DEF Calm, OneHand
<1>10. \A d \in Clients : d # c => PhaseOf(d)' = PhaseOf(d)
  BY <1>1, <1>5, SeenSame DEF Open
<1>11. PhaseOf(c) = "open" /\ PhaseOf(c)' = "read"
  BY <1>1, <1>5, <1>6, <1>8, <1>9 DEF PhaseOf, Queued, Open
<1> QED
  BY <1>1, <1>10, <1>11, SeenStep

LEMMA TakeImplements ==
  ASSUME TypeOK, Calm, Take
  PROVE  [S!Next]_S!vars
<1> DEFINE n == Len(queue)
<1>1. /\ UNCHANGED <<table, client, received>>
      /\ worker' = "answer" /\ job = NULL
      /\ queue' = Tail(queue) /\ job' = Head(queue)
  BY TypeFacts DEF Take, peers
<1>2. /\ n \in Nat \ {0} /\ DOMAIN queue = 1..n /\ DOMAIN queue' = 1..(n - 1)
      /\ \A i \in DOMAIN queue' : queue'[i] = queue[i + 1]
      /\ job' = queue[1] /\ job' \in Packets
  BY <1>1, TypeFacts, TailFacts DEF Take
<1> HIDE DEF n
<1>3. job' # NULL /\ job'.from \in Clients /\ job'.from = queue[1].from
  BY <1>2, PacketFacts
<1>4. /\ \A i \in DOMAIN queue' : i + 1 \in DOMAIN queue
      /\ 1 \in DOMAIN queue
      /\ \A i \in DOMAIN queue : i = 1 \/ (i - 1 \in DOMAIN queue' /\ (i - 1) + 1 = i)
  BY <1>2
<1>5. \A d \in Clients : d # job'.from => (Queued(d)' <=> Queued(d))
  <2>1. ASSUME NEW d \in Clients, Queued(d)' PROVE Queued(d)
    BY <1>2, <1>4, <2>1 DEF Queued
  <2>2. ASSUME NEW d \in Clients, d # job'.from, Queued(d) PROVE Queued(d)'
    <3>1. PICK i \in DOMAIN queue : queue[i].from = d
      BY <2>2 DEF Queued
    <3>2. i - 1 \in DOMAIN queue' /\ queue'[i - 1].from = d
      BY <1>2, <1>3, <1>4, <2>2, <3>1
    <3> QED
      BY <3>2 DEF Queued
  <2> QED
    BY <2>1, <2>2
<1>6. \A d \in Clients : d # job'.from => PhaseOf(d)' = PhaseOf(d)
  BY <1>1, <1>5, SeenSame DEF Open
<1>7. Queued(job'.from) /\ job'.from \in Open
  BY <1>3, <1>4, PacketsOpen DEF Queued
<1>8. client[job'.from] \in {"open", "left"}
  BY <1>3, <1>7, PacketsOpen
<1>9. PhaseOf(job'.from) = "read"
  BY <1>1, <1>7, <1>8 DEF PhaseOf, Queued
<1>10. \A d \in Clients : d = job'.from => PhaseOf(d)' = "read"
  BY <1>1, <1>3, <1>7, <1>8 DEF PhaseOf, Open
<1> QED
  BY <1>1, <1>3, <1>6, <1>9, <1>10 DEF S!vars

LEMMA AnswerImplements ==
  ASSUME TypeOK, Calm, Answer
  PROVE  [S!Next]_S!vars
<1>a. job.from \in Clients
  BY AnswersOwn
<1>b. PICK c \in Clients : c = job.from
  BY <1>a
<1>1. /\ UNCHANGED <<table, client, queue, job>>
      /\ worker = "answer" /\ worker' = "close" /\ job # NULL
  BY TypeFacts, PacketFacts DEF Answer
<1>2. c \in Open /\ client[c] \in {"open", "left"}
  BY <1>b, AnswersOwn, PacketsOpen
<1>3. \A d \in Clients : d # c => PhaseOf(d)' = PhaseOf(d)
  BY <1>b, <1>1, SeenSame DEF Open, Queued
<1>4. PhaseOf(c) = "read"
  BY <1>b, <1>1, <1>2 DEF PhaseOf
<1>5. PhaseOf(c)' = "answered"
  BY <1>b, <1>1, <1>2 DEF PhaseOf, Open
<1>6. \E n \in 0..MaxReplies : received' = [received EXCEPT ![c] = [i \in 1..n |-> c]]
  <2>1. CASE UNCHANGED received
    <3>1. received[c] = << >> /\ MaxReplies \in Nat
      BY <1>b, AnswersOwn, AcceptAssumption
    <3>2. received[c] = [i \in 1..0 |-> c]
      BY <3>1
    <3>3. received' = [received EXCEPT ![c] = [i \in 1..0 |-> c]]
      BY <2>1, <3>2, TypeFacts
    <3>4. 0 \in 0..MaxReplies
      BY <3>1
    <3> QED
      BY <3>3, <3>4, Zenon
  <2> QED
    BY <1>b, <2>1, AnswersOwn
<1> QED
  BY <1>3, <1>4, <1>5, <1>6, SeenStep

LEMMA CloseImplements ==
  ASSUME TypeOK, Calm, Close
  PROVE  [S!Next]_S!vars
<1>a. /\ JobHand = job.fd /\ job.fd \in Fds /\ job.from \in Clients /\ job # NULL
      /\ worker = "close"
  BY HandFacts, TypeFacts, PacketFacts DEF Close
<1>b. PICK c \in Clients : c = job.from
  BY <1>a
<1>c. PICK f \in Fds : f = job.fd
  BY <1>a
<1>1. /\ UNCHANGED <<client, queue, received>> /\ job' = NULL
      /\ table[f] = c /\ table'[f] = NULL
      /\ \A g \in Fds : g # f => table'[g] = table[g]
  BY <1>a, <1>b, <1>c, TypeFacts, NullFacts DEF Close, peers, Calm, HandsOpen
<1>2. \A g \in Fds : table[g] = c => g = f
  BY <1>1, NullFacts DEF Calm, OneEnd
<1>3. c \in Open /\ client[c] \in {"open", "left"}
  BY <1>1, PacketsOpen DEF Open
<1>4. c \notin Open' /\ \A d \in Clients : d # c => (d \in Open' <=> d \in Open)
  BY <1>1, <1>2, NullFacts DEF Open
<1>5. \A d \in Clients : d # c => PhaseOf(d)' = PhaseOf(d)
  BY <1>b, <1>1, <1>4, SeenSame DEF Queued
<1>6. PhaseOf(c) = "answered"
  BY <1>a, <1>b, <1>3 DEF PhaseOf
<1>7. PhaseOf(c)' = "closed"
  BY <1>1, <1>3, <1>4 DEF PhaseOf
<1> QED
  BY <1>1, <1>5, <1>6, <1>7, SeenStep

LEMMA StepImplements ==
  ASSUME TypeOK, Calm, Next
  PROVE  [S!Next]_S!vars
<1>1. ASSUME NEW c \in Clients, Connect(c) PROVE [S!Next]_S!vars
  <2>1. /\ UNCHANGED <<table, queue, worker, job, received>>
        /\ client[c] = "new" /\ client'[c] = "waiting"
        /\ \A d \in Clients : d # c => client'[d] = client[d]
    BY <1>1, TypeFacts DEF Connect
  <2>2. \A d \in Clients : d # c => PhaseOf(d)' = PhaseOf(d)
    BY <2>1, SeenSame DEF Open, Queued
  <2>3. PhaseOf(c) = "new" /\ PhaseOf(c)' = "waiting"
    BY <2>1 DEF PhaseOf
  <2> QED
    BY <2>1, <2>2, <2>3, SeenStep
<1>2. ASSUME NEW c \in Clients, Send(c) \/ Leave(c) PROVE [S!Next]_S!vars
  <2>1. UNCHANGED <<table, queue, worker, job, received>>
    BY <1>2 DEF Send, Leave
  <2>2. \A d \in Clients : \/ client'[d] = client[d]
                           \/ {client[d], client'[d]} \cap {"new", "waiting"} = {}
    BY <1>2, TypeFacts DEF Send, Leave
  <2> QED
    BY <2>1, <2>2, QuietImplements
<1>3. CASE AcceptFails
  BY <1>3, QuietImplements DEF AcceptFails, peers
<1>4. ASSUME NEW t \in Threads, Create(t) \/ CopyFd(t) \/ BeginRead(t) \/ ReadEmpty(t)
      PROVE  [S!Next]_S!vars
  BY <1>4, QuietImplements DEF Create, CopyFd, BeginRead, ReadEmpty, peers
<1>5. CASE Hang
  <2>1. /\ UNCHANGED <<table, queue, job, client, received>>
        /\ worker = "answer" /\ worker' = "stuck"
    BY <1>5 DEF Hang, peers
  <2>2. \A d \in Clients : PhaseOf(d)' = PhaseOf(d)
    BY <2>1 DEF PhaseOf, Open
  <2> QED
    BY <2>1, <2>2 DEF S!vars
<1> QED
  BY <1>1, <1>2, <1>3, <1>4, <1>5, AcceptImplements, EndReadImplements, TakeImplements,
     AnswerImplements, CloseImplements
     DEF Next, Listener, Handler, Worker

(* Until the race, every connection is accepted, read, answered and closed *)
(* in turn, with the answer to its own request: the loop, its threads and  *)
(* the worker implement Service.                                           *)
THEOREM ServiceImplemented == Spec => ServesInTurn
<1>1. IInv /\ IInv' /\ [Next]_vars => [raced' \/ S!Next]_S!vars
  <2> SUFFICES ASSUME IInv, IInv', [Next]_vars, ~raced'
               PROVE  [S!Next]_S!vars
    OBVIOUS
  <2>1. CASE UNCHANGED vars
    BY <2>1 DEF vars, peers, S!vars, PhaseOf, Open
  <2>2. CASE Next
    <3>1. ~raced
      BY <2>2, RacedStays
    <3> QED
      BY <2>2, <3>1, StepImplements DEF IInv
  <2> QED
    BY <2>1, <2>2
<1> QED
  BY <1>1, InitImplements, Invariant, PTL DEF Spec, ServesInTurn
=============================================================================
