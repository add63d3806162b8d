------------------------- MODULE LoadBalancerProofs -------------------------
(***************************************************************************)
(* Proofs about LoadBalancer for any clients, descriptors, servers,        *)
(* cookies and sizes of answers.                                           *)
(***************************************************************************)
EXTENDS LoadBalancer, TLAPS, WellFoundedInduction

-----------------------------------------------------------------------------
(* The invariant.                                                          *)

\* A client's descriptor is the one its connection was accepted on.
ClientEndsOwn ==
  \A f \in Fds, c \in Clients : table[f] = ClientEnd(c) => fd[c] = f

\* Consumers at work have a socket of their own, connections before them none.
ServerEndsOwn ==
  \A c \in Clients :
    /\ pc[c] \in {"send", "headers", "spin", "relay", "close"}
         => sfd[c] # NULL /\ table[sfd[c]] = ServerEnd(c)
    /\ pc[c] \in {"none", "read", "enqueue", "queued", "connect"}
         => sfd[c] = NULL /\ remote[c] = "none"

\* Clients that are not accepted yet have no thread.
AcceptedOnly ==
  \A c \in Clients : client[c] \in {"new", "waiting"} <=> pc[c] = "none"

\* What a client was sent belongs to its request, and comes from the relay or
\* from a 500.
OwnAnswers ==
  \A c \in Clients :
    /\ \A i \in DOMAIN received[c] : received[c][i].of = c
    /\ received[c] # << >> => pc[c] \in {"relay", "close", "free", "refused", "done"}

IInv ==
  /\ TypeOK /\ OneOwner
  /\ DescriptorsAccounted /\ ClientEndsOwn /\ ServerEndsOwn
  /\ AcceptedOnly /\ OwnAnswers

-----------------------------------------------------------------------------
(* Facts.                                                                  *)

LEMMA ConstantFacts ==
  /\ Fds \subseteq Nat /\ Args \in Nat \ {0} /\ MaxPieces \in Nat
  /\ \A n \in Cookies : n \in Nat /\ n # NULL
  /\ NULL \notin Clients /\ NULL \notin Fds
  /\ \A c \in Clients : ClientEnd(c) # NULL /\ ServerEnd(c) # NULL
  /\ \A c, d \in Clients : ClientEnd(c) # ServerEnd(d)
  /\ \A c, d \in Clients : ClientEnd(c) = ClientEnd(d) => c = d
  /\ \A c, d \in Clients : ServerEnd(c) = ServerEnd(d) => c = d
BY LoadBalancerAssumption DEF ClientEnd, ServerEnd

(* Sets of natural numbers have a least element.                           *)
LEMMA LeastExists ==
  ASSUME NEW set \in SUBSET Nat, set # {}
  PROVE  \E least \in set : \A x \in set : least <= x
<1>1. PICK least \in set : \A x \in set :
                              ~(<<x, least>> \in {pair \in Nat \X Nat : pair[1] < pair[2]})
  BY NatLessThanWellFounded, WFMin, Zenon DEF OpToRel
<1>2. \A x \in set : ~(x < least)
  BY <1>1
<1> QED
  BY <1>2

LEMMA LowestIsFree ==
  ASSUME Free # {}
  PROVE  LowestFree \in Fds /\ table[LowestFree] = NULL
<1>1. Free \in SUBSET Nat
  BY ConstantFacts DEF Free
<1>2. \E f \in Free : \A g \in Free : f <= g
  BY <1>1, LeastExists
<1>3. LowestFree \in Free
  BY <1>2 DEF LowestFree
<1> QED
  BY <1>3 DEF Free

LEMMA TypeFacts ==
  ASSUME TypeOK
  PROVE  /\ pc \in [Clients -> PCs] /\ index \in [Clients -> 0..Len(forwarders)]
         /\ memory \in [Clients -> {"none", "live", "freed"}] /\ queue \in Seq(Clients)
         /\ table \in [Fds -> ({"client", "server"} \X Clients) \cup {NULL}]
         /\ fd \in [Clients -> Fds \cup {NULL}] /\ sfd \in [Clients -> Fds \cup {NULL}]
         /\ client \in [Clients -> {"new", "waiting", "open", "left"}]
         /\ request \in [Clients -> Requests \cup {NULL}]
         /\ received \in [Clients -> Seq(Parts)]
         /\ remote \in [Clients -> {"none", "open", "asked", "replied", "ended", "broken", "reset"}]
         /\ pieces \in [Clients -> 0..MaxPieces]
BY DEF TypeOK, ThreadTypeOK, TableTypeOK, PeersTypeOK

LEMMA AppendFacts ==
  ASSUME NEW Kind, NEW q \in Seq(Kind), NEW e \in Kind
  PROVE  /\ Append(q, e) \in Seq(Kind) /\ Append(q, e) # << >>
         /\ DOMAIN Append(q, e) = 1..(Len(q) + 1) /\ DOMAIN q = 1..Len(q) /\ Len(q) \in Nat
         /\ \A i \in DOMAIN q : Append(q, e)[i] = q[i]
         /\ Append(q, e)[Len(q) + 1] = e
OBVIOUS

LEMMA TailFacts ==
  ASSUME NEW Kind, NEW q \in Seq(Kind), q # << >>
  PROVE  /\ Tail(q) \in Seq(Kind) /\ Head(q) \in Kind /\ Head(q) = q[1] /\ Len(q) \in Nat \ {0}
         /\ DOMAIN Tail(q) = 1..(Len(q) - 1) /\ DOMAIN q = 1..Len(q)
         /\ \A i \in 1..(Len(q) - 1) : Tail(q)[i] = q[i + 1]
OBVIOUS

\* While a connection is answered its descriptor is its client's.
Answering(c) == pc[c] \notin {"none", "free", "done"}

LEMMA DescriptorFacts ==
  ASSUME IInv, NEW c \in Clients
  PROVE  /\ Answering(c) => fd[c] \in Fds /\ table[fd[c]] = ClientEnd(c)
         /\ pc[c] \in {"send", "headers", "spin", "relay", "close"}
              => sfd[c] \in Fds /\ table[sfd[c]] = ServerEnd(c)
BY TypeFacts DEF IInv, DescriptorsAccounted, ServerEndsOwn, Answering

\* What is written on a descriptor reaches its own client or none.
LEMMA SendsOwn ==
  ASSUME IInv, NEW c \in Clients, NEW f, NEW part, Sends(c, f, part),
         \/ f = fd[c] /\ Answering(c)
         \/ f = sfd[c] /\ pc[c] \in {"send", "headers", "spin", "relay", "close"}
  PROVE  /\ \A d \in Clients : d # c => received'[d] = received[d]
         /\ f = sfd[c] /\ pc[c] = "headers" => received'[c] = received[c]
         /\ \/ received'[c] = received[c]
            \/ received'[c] = Append(received[c], [of |-> c, part |-> part])
         /\ DOMAIN received' = Clients
<1>1. \A d \in Clients : received'[d] =
        IF f # NULL /\ table[f] = ClientEnd(d) /\ client[d] = "open"
        THEN Append(received[d], [of |-> c, part |-> part]) ELSE received[d]
  BY DEF Sends
<1>2. table[f] = ClientEnd(c) \/ table[f] = ServerEnd(c)
  BY DescriptorFacts
<1>3. f = sfd[c] /\ pc[c] = "headers" => table[f] = ServerEnd(c)
  BY DescriptorFacts
<1>4. DOMAIN received' = Clients
  BY DEF Sends
<1> QED
  BY <1>1, <1>2, <1>3, <1>4, ConstantFacts

-----------------------------------------------------------------------------
(* Types.                                                                  *)

LEMMA SameTypes ==
  ASSUME TypeOK
  PROVE  /\ UNCHANGED <<main, forwards>> => MainTypeOK'
         /\ UNCHANGED <<main, pc, index, memory, queue>> => ThreadTypeOK'
         /\ UNCHANGED <<table, fd, sfd>> => TableTypeOK'
         /\ UNCHANGED peers => PeersTypeOK'
<1>1. UNCHANGED <<main, forwards>> => MainTypeOK'
  BY DEF TypeOK, MainTypeOK, main
<1>2. UNCHANGED <<main, pc, index, memory, queue>> => ThreadTypeOK'
  BY DEF TypeOK, ThreadTypeOK, main
<1>3. UNCHANGED <<table, fd, sfd>> => TableTypeOK'
  BY DEF TypeOK, TableTypeOK
<1>4. UNCHANGED peers => PeersTypeOK'
  BY DEF TypeOK, PeersTypeOK, peers
<1> QED
  BY <1>1, <1>2, <1>3, <1>4

\* A thread goes on; it needs a forwarder only where it had one.
LEMMA GoesType ==
  ASSUME TypeOK, NEW c \in Clients, NEW to \in PCs, to \in Chosen => pc[c] \in Chosen,
         pc' = [pc EXCEPT ![c] = to], UNCHANGED <<main, index, queue>>,
         memory' \in {memory, [memory EXCEPT ![c] = "live"], [memory EXCEPT ![c] = "freed"]}
  PROVE  ThreadTypeOK'
<1>1. pc' \in [Clients -> PCs]
  BY DEF TypeOK, ThreadTypeOK
<1>2. memory' \in [Clients -> {"none", "live", "freed"}]
  BY DEF TypeOK, ThreadTypeOK
<1>3. \A d \in Clients : pc'[d] \in Chosen => index[d] > 0
  BY DEF TypeOK, ThreadTypeOK
<1> QED
  BY <1>1, <1>2, <1>3 DEF TypeOK, ThreadTypeOK, main

LEMMA SentType ==
  ASSUME TypeOK, NEW c \in Clients, NEW f, NEW part \in {"headers", "body", "error"},
         Sends(c, f, part)
  PROVE  received' \in [Clients -> Seq(Parts)]
<1>1. [of |-> c, part |-> part] \in Parts
  BY DEF Parts
<1>2. received \in [Clients -> Seq(Parts)]
  BY TypeFacts
<1>3. \A d \in Clients : Append(received[d], [of |-> c, part |-> part]) \in Seq(Parts)
  BY <1>1, <1>2, AppendFacts
<1> QED
  BY <1>2, <1>3 DEF Sends

LEMMA SetupType ==
  ASSUME TypeOK, Setup
  PROVE  TypeOK'
<1>1. forwarders \in Seq(1..Args) /\ arg \in 1..(Args + 1) /\ arg <= Args /\ arg' = arg + 1
      /\ Len(forwarders) < arg /\ Args \in Nat \ {0}
  BY ConstantFacts DEF Setup, TypeOK, MainTypeOK
<1>2. forwarders' \in Seq(1..Args) /\ Len(forwarders') \in {Len(forwarders), Len(forwarders) + 1}
  <2>1. arg \in 1..Args
    BY <1>1
  <2>2. Append(forwarders, arg) \in Seq(1..Args)
        /\ Len(Append(forwarders, arg)) = Len(forwarders) + 1
    BY <1>1, <2>1
  <2> QED
    BY <1>1, <2>2 DEF Setup
<1>3. Len(forwarders) \in Nat
  BY <1>1
<1>4. MainTypeOK'
  <2>1. arg' \in 1..(Args + 1)
    BY <1>1
  <2>2. Len(forwarders') < arg'
    <3>1. Len(forwarders') <= Len(forwarders) + 1
      BY <1>2, <1>3
    <3> QED
      BY <1>1, <1>2, <1>3, <3>1
  <2>3. forwards' \in [1..Args -> Nat]
    BY DEF Setup, TypeOK, MainTypeOK
  <2> QED
    BY <1>2, <2>1, <2>2, <2>3 DEF MainTypeOK
<1>5. ThreadTypeOK'
  <2>1. index' \in [Clients -> 0..Len(forwarders')]
    BY <1>2, <1>3 DEF Setup, TypeOK, ThreadTypeOK, thread
  <2> QED
    BY <2>1 DEF Setup, TypeOK, ThreadTypeOK, thread
<1> QED
  BY <1>4, <1>5, SameTypes DEF Setup, TypeOK, thread

LEMMA ClientType ==
  ASSUME TypeOK, NEW c \in Clients, Connect(c) \/ Ask(c) \/ Leave(c)
  PROVE  TypeOK'
<1>1. PeersTypeOK'
  BY DEF Connect, Ask, Leave, TypeOK, PeersTypeOK
<1> QED
  BY <1>1, SameTypes DEF Connect, Ask, Leave, TypeOK, thread

LEMMA AcceptType ==
  ASSUME TypeOK, NEW c \in Clients, Accept(c)
  PROVE  TypeOK'
<1>1. LowestFree \in Fds
  BY LowestIsFree DEF Accept
<1>2. ThreadTypeOK'
  BY GoesType DEF Accept, Goes, PCs, Chosen
<1>3. TableTypeOK'
  BY <1>1 DEF Accept, TypeOK, TableTypeOK, ClientEnd
<1>4. PeersTypeOK'
  BY DEF Accept, TypeOK, PeersTypeOK
<1> QED
  BY <1>2, <1>3, <1>4, SameTypes DEF Accept, TypeOK

LEMMA ReadGetType ==
  ASSUME TypeOK, NEW c \in Clients, ReadGet(c)
  PROVE  TypeOK'
<1>1. forwarders \in Seq(1..Args) /\ Len(forwarders) \in Nat
      /\ DOMAIN forwarders = 1..Len(forwarders) /\ Len(forwarders) <= Args /\ Args \in Nat
  BY ConstantFacts DEF TypeOK, MainTypeOK
<1>2. PICK i \in 1..Len(forwarders) :
        /\ index' = [index EXCEPT ![c] = i]
        /\ forwards' \in {forwards, [forwards EXCEPT ![i] = @ + 1]}
  <2>1. CASE Named(c)
    <3>1. request[c] \in Requests
      BY TypeFacts DEF ReadGet
    <3>2. request[c].cookie \in Nat /\ request[c].cookie + 1 \in 1..Len(forwarders)
      BY <1>1, <2>1, <3>1, ConstantFacts DEF Named, Requests
    <3> QED
      BY <2>1, <3>2 DEF ReadGet
  <2>2. CASE ~Named(c)
    BY <1>1, <2>2 DEF ReadGet
  <2> QED
    BY <2>1, <2>2
<1>3. MainTypeOK'
  <2>1. forwards' \in [1..Args -> Nat]
    <3>1. forwards \in [1..Args -> Nat]
      BY DEF TypeOK, MainTypeOK
    <3>2. \A j \in 1..Args : forwards[j] \in Nat /\ forwards[j] + 1 \in Nat
      BY <3>1
    <3>3. [forwards EXCEPT ![i] = @ + 1] \in [1..Args -> Nat]
      BY <3>1, <3>2
    <3> QED
      BY <1>2, <3>1, <3>3
  <2> QED
    BY <2>1 DEF ReadGet, TypeOK, MainTypeOK, main
<1>4. ThreadTypeOK'
  <2>1. pc' = [pc EXCEPT ![c] = "enqueue"]
        /\ UNCHANGED <<forwarders, memory, queue>>
    BY DEF ReadGet, Goes, main
  <2>2. index' \in [Clients -> 0..Len(forwarders)] /\ index'[c] > 0
        /\ \A d \in Clients : d # c => index'[d] = index[d]
    BY <1>1, <1>2, TypeFacts
  <2>3. pc' \in [Clients -> PCs]
    BY <2>1, TypeFacts DEF PCs
  <2>4. \A d \in Clients : d # c => pc'[d] = pc[d]
    BY <2>1, TypeFacts
  <2> QED
    BY <2>1, <2>2, <2>3, <2>4 DEF TypeOK, ThreadTypeOK
<1> QED
  BY <1>3, <1>4, SameTypes DEF ReadGet, TypeOK

LEMMA QueueType ==
  ASSUME TypeOK
  PROVE  /\ \A c \in Clients : Enqueue(c) => TypeOK'
         /\ Dispatch => TypeOK'
<1>1. ASSUME NEW c \in Clients, Enqueue(c) PROVE TypeOK'
  <2>1. queue' \in Seq(Clients)
    BY <1>1, TypeFacts, AppendFacts DEF Enqueue
  <2>2. pc' \in [Clients -> PCs] /\ \A d \in Clients : pc'[d] \in Chosen => pc[d] \in Chosen
    BY <1>1, TypeFacts DEF Enqueue, Goes, PCs, Chosen
  <2>3. ThreadTypeOK'
    BY <1>1, <2>1, <2>2 DEF Enqueue, TypeOK, ThreadTypeOK, main
  <2> QED
    BY <1>1, <2>3, SameTypes DEF Enqueue, TypeOK
<1>2. ASSUME Dispatch PROVE TypeOK'
  <2>1. queue' \in Seq(Clients)
    BY <1>2, TypeFacts, TailFacts DEF Dispatch
  <2>2. pc' \in [Clients -> PCs] /\ \A d \in Clients : pc'[d] \in Chosen => pc[d] \in Chosen
    BY <1>2, TypeFacts DEF Dispatch, Goes, PCs, Chosen
  <2>3. ThreadTypeOK'
    BY <1>2, <2>1, <2>2 DEF Dispatch, TypeOK, ThreadTypeOK, main
  <2> QED
    BY <1>2, <2>3, SameTypes DEF Dispatch, TypeOK
<1> QED
  BY <1>1, <1>2

LEMMA ConsumerType ==
  ASSUME TypeOK, NEW c \in Clients, ReadOther(c) \/ Consumer(c) \/ Error500(c)
  PROVE  TypeOK'
<1>1. CASE ReadOther(c) \/ SendFails(c) \/ HeadersSpin(c) \/ RelayEnds(c)
  <2>1. ThreadTypeOK'
    BY <1>1, GoesType DEF ReadOther, SendFails, HeadersSpin, RelayEnds, Goes, PCs, Chosen
  <2> QED
    BY <1>1, <2>1, SameTypes DEF ReadOther, SendFails, HeadersSpin, RelayEnds, TypeOK
<1>2. CASE ConnectFails(c)
  <2>1. ThreadTypeOK'
    BY <1>2, GoesType DEF ConnectFails, Goes, PCs, Chosen
  <2>2. TableTypeOK'
    <3>1. CASE Free = {}
      BY <1>2, <3>1, SameTypes DEF ConnectFails
    <3>2. CASE Free # {}
      BY <1>2, <3>2, LowestIsFree DEF ConnectFails, TypeOK, TableTypeOK, ServerEnd
    <3> QED
      BY <3>1, <3>2
  <2> QED
    BY <1>2, <2>1, <2>2, SameTypes DEF ConnectFails, TypeOK
<1>3. CASE ConnectServer(c)
  <2>1. ThreadTypeOK'
    BY <1>3, GoesType DEF ConnectServer, Goes, PCs, Chosen
  <2>2. TableTypeOK'
    BY <1>3, LowestIsFree DEF ConnectServer, TypeOK, TableTypeOK, ServerEnd
  <2>3. PeersTypeOK'
    BY <1>3 DEF ConnectServer, TypeOK, PeersTypeOK
  <2> QED
    BY <1>3, <2>1, <2>2, <2>3, SameTypes DEF ConnectServer, TypeOK
<1>4. CASE SendRequest(c)
  <2>1. ThreadTypeOK'
    BY <1>4, GoesType DEF SendRequest, Goes, PCs, Chosen
  <2>2. PeersTypeOK'
    BY <1>4 DEF SendRequest, TypeOK, PeersTypeOK
  <2> QED
    BY <1>4, <2>1, <2>2, SameTypes DEF SendRequest, TypeOK
<1>5. CASE Headers(c) \/ Write500(c)
  <2>1. ThreadTypeOK'
    BY <1>5, GoesType DEF Headers, Write500, Goes, PCs, Chosen
  <2>2. received' \in [Clients -> Seq(Parts)]
    BY <1>5, SentType DEF Headers, Write500
  <2>3. PeersTypeOK'
    BY <1>5, <2>2 DEF Headers, Write500, TypeOK, PeersTypeOK
  <2> QED
    BY <1>5, <2>1, <2>3, SameTypes DEF Headers, Write500, TypeOK
<1>6. CASE Relay(c)
  <2>1. ThreadTypeOK'
    BY <1>6, GoesType DEF Relay, Goes, PCs, Chosen
  <2>2. received' \in [Clients -> Seq(Parts)]
    BY <1>6, SentType DEF Relay
  <2>3. pieces' \in [Clients -> 0..MaxPieces]
    BY <1>6, TypeFacts, ConstantFacts DEF Relay
  <2>4. PeersTypeOK'
    BY <1>6, <2>2, <2>3 DEF Relay, TypeOK, PeersTypeOK
  <2> QED
    BY <1>6, <2>1, <2>4, SameTypes DEF Relay, TypeOK
<1>7. CASE CloseBoth(c) \/ Close500(c)
  <2>1. ThreadTypeOK'
    BY <1>7, GoesType DEF CloseBoth, Close500, Goes, PCs, Chosen
  <2>2. TableTypeOK'
    BY <1>7 DEF CloseBoth, Close500, TypeOK, TableTypeOK
  <2> QED
    BY <1>7, <2>1, <2>2, SameTypes DEF CloseBoth, Close500, TypeOK
<1>8. CASE Release(c)
  <2>1. ThreadTypeOK'
    BY <1>8, GoesType DEF Release, Goes, PCs, Chosen
  <2> QED
    BY <1>8, <2>1, SameTypes DEF Release, TypeOK
<1> QED
  BY <1>1, <1>2, <1>3, <1>4, <1>5, <1>6, <1>7, <1>8 DEF Consumer, Error500

LEMMA ServerType ==
  ASSUME TypeOK, NEW c \in Clients, Server(c)
  PROVE  TypeOK'
<1>1. /\ UNCHANGED <<main, forwards, table, thread, queue, client, request, received>>
      /\ remote' \in [Clients -> {"none", "open", "asked", "replied", "ended", "broken", "reset"}]
      /\ pieces' \in [Clients -> 0..MaxPieces]
  <2>1. PICK from, to \in {"open", "asked", "replied", "ended", "broken", "reset"} :
          Turns(c, from, to) /\ (UNCHANGED pieces \/ \E n \in 0..MaxPieces : pieces' = [pieces EXCEPT ![c] = n])
    BY DEF Server, Answers, Breaks, Ends, Resets
  <2>2. pieces' \in [Clients -> 0..MaxPieces]
    <3>1. pieces \in [Clients -> 0..MaxPieces]
      BY TypeFacts
    <3> QED
      BY <2>1, <3>1
  <2> QED
    BY <2>1, <2>2, TypeFacts DEF Turns
<1>2. PeersTypeOK'
  BY <1>1 DEF TypeOK, PeersTypeOK
<1> QED
  BY <1>1, <1>2, SameTypes DEF TypeOK, thread

LEMMA TypeStep ==
  ASSUME TypeOK, [Next]_vars
  PROVE  TypeOK'
<1>1. CASE UNCHANGED vars
  BY <1>1, SameTypes DEF vars, TypeOK, thread
<1>2. CASE Next
  BY <1>2, SetupType, ClientType, AcceptType, ReadGetType, QueueType, ConsumerType, ServerType
     DEF Next, Producer
<1> QED
  BY <1>1, <1>2

-----------------------------------------------------------------------------
(* The queue and the memory of connections.                                *)

\* A connection that is not queued before and after, with its memory as it is.
LEMMA OwnerKept ==
  ASSUME IInv, NEW c \in Clients, NEW to \in PCs \ {"none", "queued", "done"},
         pc[c] \notin {"none", "queued", "done"}, pc' = [pc EXCEPT ![c] = to],
         UNCHANGED <<queue, memory>>
  PROVE  OneOwner'
<1>1. \A d \in Clients :
        /\ pc'[d] = "queued" <=> pc[d] = "queued"
        /\ pc'[d] = "none" <=> pc[d] = "none"
        /\ pc'[d] = "done" <=> pc[d] = "done"
  BY TypeFacts DEF IInv
<1> QED
  BY <1>1 DEF IInv, OneOwner

\* It starts, or ends and is freed.
LEMMA OwnerChanged ==
  ASSUME IInv, NEW c \in Clients, pc[c] # "queued", UNCHANGED queue,
         \/ pc' = [pc EXCEPT ![c] = "read"] /\ memory' = [memory EXCEPT ![c] = "live"]
         \/ pc' = [pc EXCEPT ![c] = "done"] /\ memory' = [memory EXCEPT ![c] = "freed"]
  PROVE  OneOwner'
<1>1. \A d \in Clients : d # c => pc'[d] = pc[d] /\ memory'[d] = memory[d]
  BY TypeFacts DEF IInv
<1>2. \/ pc'[c] = "read" /\ memory'[c] = "live"
      \/ pc'[c] = "done" /\ memory'[c] = "freed"
  BY TypeFacts DEF IInv
<1> QED
  BY <1>1, <1>2 DEF IInv, OneOwner

LEMMA EnqueueOwner ==
  ASSUME IInv, NEW c \in Clients, Enqueue(c)
  PROVE  OneOwner'
<1>1. /\ pc[c] = "enqueue" /\ pc'[c] = "queued"
      /\ \A d \in Clients : d # c => pc'[d] = pc[d]
      /\ UNCHANGED memory
  BY TypeFacts DEF IInv, Enqueue, Goes
<1>2. /\ DOMAIN queue' = 1..(Len(queue) + 1) /\ DOMAIN queue = 1..Len(queue) /\ Len(queue) \in Nat
      /\ \A i \in DOMAIN queue : queue'[i] = queue[i]
      /\ queue'[Len(queue) + 1] = c
  <2>1. queue \in Seq(Clients) /\ queue' = Append(queue, c)
    BY TypeFacts DEF IInv, Enqueue
  <2> QED
    BY <2>1, AppendFacts
<1>3. \A i \in DOMAIN queue : queue[i] # c
  BY <1>1 DEF IInv, OneOwner
<1>4. \A i, j \in DOMAIN queue' : queue'[i] = queue'[j] => i = j
  BY <1>2, <1>3 DEF IInv, OneOwner
<1>5. ASSUME NEW d \in Clients
      PROVE  (\E i \in DOMAIN queue' : queue'[i] = d) <=> pc'[d] = "queued"
  <2>1. (\E i \in DOMAIN queue' : queue'[i] = d) <=> d = c \/ \E i \in DOMAIN queue : queue[i] = d
    BY <1>2
  <2>2. (\E i \in DOMAIN queue : queue[i] = d) <=> pc[d] = "queued"
    BY DEF IInv, OneOwner
  <2> QED
    BY <1>1, <2>1, <2>2
<1> QED
  BY <1>1, <1>4, <1>5 DEF IInv, OneOwner

LEMMA DispatchOwner ==
  ASSUME IInv, Dispatch
  PROVE  OneOwner'
<1> DEFINE c == Head(queue)
<1>1. /\ c \in Clients /\ c = queue[1]
      /\ DOMAIN queue' = 1..(Len(queue) - 1) /\ DOMAIN queue = 1..Len(queue)
      /\ Len(queue) \in Nat \ {0}
      /\ \A i \in 1..(Len(queue) - 1) : queue'[i] = queue[i + 1]
  BY TypeFacts, TailFacts DEF IInv, Dispatch
<1>2. pc[c] = "queued" /\ pc' = [pc EXCEPT ![c] = "connect"] /\ UNCHANGED memory
  BY DEF Dispatch, Goes
<1> HIDE DEF c
<1>3. pc'[c] = "connect" /\ \A d \in Clients : d # c => pc'[d] = pc[d]
  BY <1>1, <1>2, TypeFacts DEF IInv
<1>4. \A i, j \in DOMAIN queue' : queue'[i] = queue'[j] => i = j
  <2> SUFFICES ASSUME NEW i \in DOMAIN queue', NEW j \in DOMAIN queue', queue'[i] = queue'[j]
               PROVE  i = j
    OBVIOUS
  <2>1. i + 1 \in DOMAIN queue /\ j + 1 \in DOMAIN queue /\ queue[i + 1] = queue[j + 1]
    BY <1>1
  <2>2. i + 1 = j + 1
    BY <2>1 DEF IInv, OneOwner
  <2> QED
    BY <1>1, <2>2
<1>5. ASSUME NEW d \in Clients
      PROVE  (\E i \in DOMAIN queue' : queue'[i] = d) <=> pc'[d] = "queued"
  <2>1. (\E i \in DOMAIN queue : queue[i] = d) <=> pc[d] = "queued"
    BY DEF IInv, OneOwner
  <2>2. CASE d = c
    <3>1. ASSUME NEW i \in DOMAIN queue', queue'[i] = c PROVE FALSE
      <4>1. i + 1 \in DOMAIN queue /\ 1 \in DOMAIN queue /\ queue[i + 1] = queue[1]
        BY <1>1, <3>1
      <4>2. i + 1 = 1
        BY <4>1 DEF IInv, OneOwner
      <4> QED
        BY <1>1, <4>2
    <3> QED
      BY <1>3, <2>2, <3>1
  <2>3. CASE d # c
    <3>1. ASSUME NEW i \in DOMAIN queue, queue[i] = d
          PROVE  \E j \in DOMAIN queue' : queue'[j] = d
      <4>1. i # 1 /\ i - 1 \in DOMAIN queue' /\ queue'[i - 1] = queue[i]
        BY <1>1, <2>3, <3>1
      <4> QED
        BY <3>1, <4>1
    <3>2. ASSUME NEW i \in DOMAIN queue', queue'[i] = d
          PROVE  \E j \in DOMAIN queue : queue[j] = d
      <4>1. i + 1 \in DOMAIN queue /\ queue[i + 1] = d
        BY <1>1, <3>2
      <4> QED
        BY <4>1
    <3> QED
      BY <1>3, <2>1, <2>3, <3>1, <3>2
  <2> QED
    BY <2>2, <2>3
<1>6. ASSUME NEW d \in Clients
      PROVE  memory[d] = CASE pc'[d] = "none" -> "none"
                           [] pc'[d] = "done" -> "freed"
                           [] OTHER -> "live"
  BY <1>2, <1>3 DEF IInv, OneOwner
<1> QED
  BY <1>2, <1>4, <1>5, <1>6 DEF OneOwner

LEMMA OwnerStep ==
  ASSUME IInv, Next
  PROVE  OneOwner'
<1>1. CASE Setup
  BY <1>1 DEF IInv, Setup, OneOwner, thread
<1>2. ASSUME NEW c \in Clients, Connect(c) \/ Ask(c) \/ Leave(c) PROVE OneOwner'
  BY <1>2 DEF IInv, OneOwner, Connect, Ask, Leave, thread
<1>3. ASSUME NEW c \in Clients, Accept(c) \/ Release(c) \/ Close500(c) PROVE OneOwner'
  BY <1>3, OwnerChanged DEF Accept, Release, Close500, Goes
<1>4. ASSUME NEW c \in Clients, Enqueue(c) PROVE OneOwner'
  BY <1>4, EnqueueOwner
<1>5. CASE Dispatch
  BY <1>5, DispatchOwner
<1>6. ASSUME NEW c \in Clients,
             \/ ReadOther(c) \/ ReadGet(c) \/ ConnectFails(c) \/ ConnectServer(c)
             \/ SendFails(c) \/ SendRequest(c)
      PROVE  OneOwner'
  BY <1>6, OwnerKept DEF ReadOther, ReadGet, ConnectFails, ConnectServer, SendFails, SendRequest,
                         Goes, PCs
<1>7. ASSUME NEW c \in Clients,
             \/ Headers(c) \/ HeadersSpin(c) \/ Relay(c) \/ RelayEnds(c) \/ CloseBoth(c)
             \/ Write500(c)
      PROVE  OneOwner'
  BY <1>7, OwnerKept DEF Headers, HeadersSpin, Relay, RelayEnds, CloseBoth, Write500, Goes, PCs
<1>8. ASSUME NEW c \in Clients, Server(c) PROVE OneOwner'
  BY <1>8 DEF IInv, OneOwner, Server, Answers, Breaks, Ends, Resets, Turns, thread
<1> QED
  BY <1>1, <1>2, <1>3, <1>4, <1>5, <1>6, <1>7, <1>8 DEF Next, Producer, Consumer, Error500

-----------------------------------------------------------------------------
(* Descriptors.                                                            *)

\* Consumers with a socket, and connections before it.
AtWork == {"send", "headers", "spin", "relay", "close"}
Before == {"none", "read", "enqueue", "queued", "connect"}

Descriptors == DescriptorsAccounted /\ ClientEndsOwn /\ ServerEndsOwn

\* What Descriptors says, part by part.
LEMMA DescriptorParts ==
  Descriptors <=>
    /\ \A c \in Clients :
         /\ Answering(c) <=> fd[c] # NULL /\ table[fd[c]] = ClientEnd(c)
         /\ pc[c] \in AtWork => sfd[c] # NULL /\ table[sfd[c]] = ServerEnd(c)
         /\ pc[c] \in Before => sfd[c] = NULL /\ remote[c] = "none"
    /\ \A f \in Fds, c \in Clients :
         /\ table[f] = ClientEnd(c) => fd[c] = f
         /\ table[f] = ServerEnd(c) =>
              /\ sfd[c] = f
              /\ \/ pc[c] \in AtWork
                 \/ LeftOpen(c) /\ remote[c] \in {"none", "open", "reset"}
BY DEF Descriptors, DescriptorsAccounted, ClientEndsOwn, ServerEndsOwn, Answering, AtWork, Before

LEMMA PrimedParts ==
  Descriptors' <=>
    /\ \A c \in Clients :
         /\ Answering(c)' <=> fd'[c] # NULL /\ table'[fd'[c]] = ClientEnd(c)
         /\ pc'[c] \in AtWork => sfd'[c] # NULL /\ table'[sfd'[c]] = ServerEnd(c)
         /\ pc'[c] \in Before => sfd'[c] = NULL /\ remote'[c] = "none"
    /\ \A f \in Fds, c \in Clients :
         /\ table'[f] = ClientEnd(c) => fd'[c] = f
         /\ table'[f] = ServerEnd(c) =>
              /\ sfd'[c] = f
              /\ \/ pc'[c] \in AtWork
                 \/ LeftOpen(c)' /\ remote'[c] \in {"none", "open", "reset"}
BY DEF Descriptors, DescriptorsAccounted, ClientEndsOwn, ServerEndsOwn, Answering, AtWork, Before,
       ClientEnd, ServerEnd

\* A thread goes on without touching the table, to where it may have what it has.
LEMMA DescriptorsKept ==
  ASSUME IInv, NEW c \in Clients, NEW to, pc' = [pc EXCEPT ![c] = to],
         UNCHANGED <<table, fd, sfd>>,
         remote' = remote \/ (pc[c] \in AtWork /\ to \in AtWork /\ \A d \in Clients : d # c => remote'[d] = remote[d]),
         Answering(c) <=> to \notin {"none", "free", "done"},
         to \in AtWork => pc[c] \in AtWork, to \in Before => pc[c] \in Before,
         pc[c] \in AtWork => to \in AtWork \/ (to = "refuse" /\ remote[c] = "reset"),
         pc[c] \in {"refuse", "refused"} => to \in {"refuse", "refused"},
         pc[c] # "done"
  PROVE  Descriptors'
<1>1. pc'[c] = to /\ \A d \in Clients : d # c => pc'[d] = pc[d] /\ remote'[d] = remote[d]
  BY TypeFacts DEF IInv
<1>2. Descriptors
  BY DEF IInv, Descriptors
<1>3. ASSUME NEW d \in Clients
      PROVE  /\ Answering(d)' <=> fd[d] # NULL /\ table[fd[d]] = ClientEnd(d)
             /\ pc'[d] \in AtWork => sfd[d] # NULL /\ table[sfd[d]] = ServerEnd(d)
             /\ pc'[d] \in Before => sfd[d] = NULL /\ remote'[d] = "none"
  <2>1. CASE d = c
    <3>1. pc'[c] \in Before => remote' = remote
      BY <1>1 DEF AtWork, Before
    <3> QED
      BY <1>1, <1>2, <2>1, <3>1, DescriptorParts DEF Answering
  <2>2. CASE d # c
    BY <1>1, <1>2, <2>2, DescriptorParts DEF Answering
  <2> QED
    BY <2>1, <2>2
<1>4. ASSUME NEW f \in Fds, NEW d \in Clients, table[f] = ServerEnd(d)
      PROVE  /\ sfd[d] = f
             /\ \/ pc'[d] \in AtWork
                \/ LeftOpen(d)' /\ remote'[d] \in {"none", "open", "reset"}
  <2>1. /\ sfd[d] = f
        /\ pc[d] \in AtWork \/ (LeftOpen(d) /\ remote[d] \in {"none", "open", "reset"})
    BY <1>2, <1>4, DescriptorParts
  <2>2. sfd[d] # NULL
    BY <2>1, ConstantFacts
  <2>3. CASE d = c
    <3>1. CASE pc[c] \in AtWork
      BY <1>1, <2>1, <2>2, <2>3, <3>1 DEF LeftOpen, AtWork
    <3>2. CASE LeftOpen(c) /\ pc[c] \notin AtWork
      BY <1>1, <2>1, <2>2, <2>3, <3>2 DEF LeftOpen, AtWork
    <3> QED
      BY <2>1, <2>3, <3>1, <3>2
  <2>4. CASE d # c
    BY <1>1, <2>1, <2>4 DEF LeftOpen
  <2> QED
    BY <2>3, <2>4
<1>5. \A f \in Fds, d \in Clients : table[f] = ClientEnd(d) => fd[d] = f
  BY <1>2, DescriptorParts
<1> QED
  BY <1>3, <1>4, <1>5, PrimedParts

LEMMA AcceptDescriptors ==
  ASSUME IInv, NEW c \in Clients, Accept(c)
  PROVE  Descriptors'
<1> DEFINE l == LowestFree
<1>1. l \in Fds /\ table[l] = NULL
  BY LowestIsFree DEF Accept
<1>2. /\ table' = [table EXCEPT ![l] = ClientEnd(c)] /\ fd' = [fd EXCEPT ![c] = l]
      /\ pc[c] = "none" /\ pc' = [pc EXCEPT ![c] = "read"]
      /\ UNCHANGED <<sfd, remote>>
  BY DEF Accept, Goes
<1> HIDE DEF l
<1>3. Descriptors
  BY DEF IInv, Descriptors
<1>4. /\ table'[l] = ClientEnd(c) /\ \A f \in Fds : f # l => table'[f] = table[f]
      /\ fd'[c] = l /\ pc'[c] = "read"
      /\ \A d \in Clients : d # c => fd'[d] = fd[d] /\ pc'[d] = pc[d]
  BY <1>1, <1>2, TypeFacts DEF IInv
<1>5. \A d \in Clients :
        /\ fd[d] # NULL => fd[d] \in Fds
        /\ sfd[d] # NULL => sfd[d] \in Fds
  BY TypeFacts DEF IInv
<1>6. \A f \in Fds, d \in Clients : table[f] = ClientEnd(d) => d # c
  BY <1>2, <1>3, DescriptorParts, ConstantFacts DEF Answering
<1>7. ASSUME NEW d \in Clients
      PROVE  /\ Answering(d)' <=> fd'[d] # NULL /\ table'[fd'[d]] = ClientEnd(d)
             /\ pc'[d] \in AtWork => sfd[d] # NULL /\ table'[sfd[d]] = ServerEnd(d)
             /\ pc'[d] \in Before => sfd[d] = NULL /\ remote[d] = "none"
  <2>1. CASE d = c
    BY <1>1, <1>2, <1>3, <1>4, <2>1, DescriptorParts, ConstantFacts DEF Answering, AtWork, Before
  <2>2. CASE d # c
    <3>1. \A f \in Fds : /\ table'[f] = ClientEnd(d) <=> table[f] = ClientEnd(d)
                         /\ table[f] = ServerEnd(d) => table'[f] = ServerEnd(d)
      BY <1>1, <1>4, <2>2, ConstantFacts
    <3>2. Answering(d) <=> fd[d] # NULL /\ table'[fd[d]] = ClientEnd(d)
      BY <1>3, <1>5, <3>1, DescriptorParts
    <3>3. /\ pc[d] \in AtWork => sfd[d] # NULL /\ table'[sfd[d]] = ServerEnd(d)
          /\ pc[d] \in Before => sfd[d] = NULL /\ remote[d] = "none"
      BY <1>3, <1>5, <3>1, DescriptorParts
    <3> QED
      BY <1>4, <2>2, <3>2, <3>3 DEF Answering
  <2> QED
    BY <2>1, <2>2
<1>8. \A f \in Fds, d \in Clients : table'[f] = ClientEnd(d) => fd'[d] = f
  BY <1>3, <1>4, <1>6, DescriptorParts, ConstantFacts
<1>9. ASSUME NEW f \in Fds, NEW d \in Clients, table'[f] = ServerEnd(d)
      PROVE  /\ sfd[d] = f
             /\ \/ pc'[d] \in AtWork
                \/ LeftOpen(d)' /\ remote[d] \in {"none", "open", "reset"}
  <2>1. table[f] = ServerEnd(d)
    BY <1>4, <1>9, ConstantFacts
  <2>2. d # c
    BY <1>2, <1>3, <2>1, DescriptorParts DEF LeftOpen, AtWork
  <2> QED
    BY <1>2, <1>3, <1>4, <2>1, <2>2, DescriptorParts DEF LeftOpen
<1> QED
  BY <1>2, <1>7, <1>8, <1>9, PrimedParts

LEMMA ConnectDescriptors ==
  ASSUME IInv, NEW c \in Clients, ConnectFails(c) \/ ConnectServer(c), Free # {}
  PROVE  Descriptors'
<1> DEFINE l == LowestFree
<1>1. l \in Fds /\ table[l] = NULL
  BY LowestIsFree
<1>2. /\ table' = [table EXCEPT ![l] = ServerEnd(c)] /\ sfd' = [sfd EXCEPT ![c] = l]
      /\ pc[c] = "connect" /\ UNCHANGED fd
      /\ \/ pc' = [pc EXCEPT ![c] = "refuse"] /\ UNCHANGED remote
         \/ pc' = [pc EXCEPT ![c] = "send"] /\ remote' = [remote EXCEPT ![c] = "open"]
  BY DEF ConnectFails, ConnectServer, Goes, peers
<1> HIDE DEF l
<1>3. Descriptors
  BY DEF IInv, Descriptors
<1>4. /\ table'[l] = ServerEnd(c) /\ \A f \in Fds : f # l => table'[f] = table[f]
      /\ sfd'[c] = l
      /\ (pc'[c] = "refuse" /\ remote'[c] = remote[c]) \/ pc'[c] = "send"
      /\ \A d \in Clients : d # c => sfd'[d] = sfd[d] /\ pc'[d] = pc[d] /\ remote'[d] = remote[d]
  BY <1>1, <1>2, TypeFacts DEF IInv
<1>5. \A d \in Clients :
        /\ fd[d] # NULL => fd[d] \in Fds
        /\ sfd[d] # NULL => sfd[d] \in Fds
  BY TypeFacts DEF IInv
<1>6. /\ remote[c] = "none" /\ Answering(c)
      /\ \A f \in Fds, d \in Clients : table[f] = ServerEnd(d) => d # c
  BY <1>2, <1>3, DescriptorParts DEF LeftOpen, AtWork, Before, Answering
<1>7. ASSUME NEW d \in Clients
      PROVE  /\ Answering(d)' <=> fd[d] # NULL /\ table'[fd[d]] = ClientEnd(d)
             /\ pc'[d] \in AtWork => sfd'[d] # NULL /\ table'[sfd'[d]] = ServerEnd(d)
             /\ pc'[d] \in Before => sfd'[d] = NULL /\ remote'[d] = "none"
  <2>1. CASE d = c
    <3>1. fd[c] \in Fds /\ table[fd[c]] = ClientEnd(c) /\ fd[c] # l
      BY <1>1, <1>3, <1>5, <1>6, DescriptorParts, ConstantFacts
    <3> QED
      BY <1>1, <1>4, <2>1, <3>1, ConstantFacts DEF Answering, AtWork, Before
  <2>2. CASE d # c
    <3>1. \A f \in Fds : /\ table'[f] = ClientEnd(d) <=> table[f] = ClientEnd(d)
                         /\ table[f] = ServerEnd(d) => table'[f] = ServerEnd(d)
      BY <1>1, <1>4, <2>2, ConstantFacts
    <3>2. Answering(d) <=> fd[d] # NULL /\ table'[fd[d]] = ClientEnd(d)
      BY <1>3, <1>5, <3>1, DescriptorParts
    <3>3. /\ pc[d] \in AtWork => sfd[d] # NULL /\ table'[sfd[d]] = ServerEnd(d)
          /\ pc[d] \in Before => sfd[d] = NULL /\ remote[d] = "none"
      BY <1>3, <1>5, <3>1, DescriptorParts
    <3> QED
      BY <1>4, <2>2, <3>2, <3>3 DEF Answering
  <2> QED
    BY <2>1, <2>2
<1>8. \A f \in Fds, d \in Clients : table'[f] = ClientEnd(d) => fd[d] = f
  BY <1>3, <1>4, DescriptorParts, ConstantFacts
<1>9. ASSUME NEW f \in Fds, NEW d \in Clients, table'[f] = ServerEnd(d)
      PROVE  /\ sfd'[d] = f
             /\ \/ pc'[d] \in AtWork
                \/ LeftOpen(d)' /\ remote'[d] \in {"none", "open", "reset"}
  <2>1. CASE d = c
    <3>1. f = l
      BY <1>4, <1>6, <1>9, <2>1
    <3> QED
      BY <1>1, <1>4, <1>6, <2>1, <3>1, ConstantFacts DEF LeftOpen, AtWork
  <2>2. CASE d # c
    <3>1. table[f] = ServerEnd(d)
      BY <1>4, <1>9, <2>2, ConstantFacts
    <3> QED
      BY <1>3, <1>4, <2>2, <3>1, DescriptorParts DEF LeftOpen
  <2> QED
    BY <2>1, <2>2
<1> QED
  BY <1>2, <1>7, <1>8, <1>9, PrimedParts

LEMMA CloseDescriptors ==
  ASSUME IInv, NEW c \in Clients, CloseBoth(c) \/ Close500(c)
  PROVE  Descriptors'
<1>1. /\ \/ /\ pc[c] = "close" /\ pc' = [pc EXCEPT ![c] = "free"]
            /\ table' = [table EXCEPT ![sfd[c]] = NULL, ![fd[c]] = NULL]
         \/ /\ pc[c] = "refused" /\ pc' = [pc EXCEPT ![c] = "done"]
            /\ table' = [table EXCEPT ![fd[c]] = NULL]
      /\ UNCHANGED <<fd, sfd, remote>>
  BY DEF CloseBoth, Close500, Goes, peers
<1>2. Descriptors
  BY DEF IInv, Descriptors
<1>3. /\ fd[c] \in Fds /\ table[fd[c]] = ClientEnd(c)
      /\ pc[c] = "close" => sfd[c] \in Fds /\ table[sfd[c]] = ServerEnd(c)
  BY <1>1, DescriptorFacts DEF Answering
<1>4. /\ \A f \in Fds : table'[f] = IF f = fd[c] \/ (pc[c] = "close" /\ f = sfd[c])
                                  THEN NULL ELSE table[f]
      /\ pc'[c] = IF pc[c] = "close" THEN "free" ELSE "done"
      /\ \A d \in Clients : d # c => pc'[d] = pc[d]
  BY <1>1, <1>3, TypeFacts DEF IInv
<1>5. \A d \in Clients :
        /\ fd[d] # NULL => fd[d] \in Fds
        /\ sfd[d] # NULL => sfd[d] \in Fds
  BY TypeFacts DEF IInv
<1>6. ASSUME NEW d \in Clients
      PROVE  /\ Answering(d)' <=> fd[d] # NULL /\ table'[fd[d]] = ClientEnd(d)
             /\ pc'[d] \in AtWork => sfd[d] # NULL /\ table'[sfd[d]] = ServerEnd(d)
             /\ pc'[d] \in Before => sfd[d] = NULL /\ remote[d] = "none"
  <2>1. CASE d = c
    BY <1>3, <1>4, <2>1, ConstantFacts DEF Answering, AtWork, Before
  <2>2. CASE d # c
    <3>1. \A f \in Fds : table[f] \in {ClientEnd(d), ServerEnd(d)} => table'[f] = table[f]
      BY <1>3, <1>4, <2>2, ConstantFacts
    <3>2. \A f \in Fds : table'[f] = ClientEnd(d) => table[f] = ClientEnd(d)
      BY <1>4, ConstantFacts
    <3>3. Answering(d)' <=> fd[d] # NULL /\ table[fd[d]] = ClientEnd(d)
      BY <1>2, <1>4, <2>2, DescriptorParts DEF Answering
    <3>4. Answering(d)' <=> fd[d] # NULL /\ table'[fd[d]] = ClientEnd(d)
      BY <1>5, <3>1, <3>2, <3>3
    <3> QED
      BY <1>2, <1>4, <1>5, <2>2, <3>1, <3>4, DescriptorParts
  <2> QED
    BY <2>1, <2>2
<1>7. \A f \in Fds, d \in Clients : table'[f] = ClientEnd(d) => fd[d] = f
  BY <1>2, <1>4, DescriptorParts, ConstantFacts
<1>8. ASSUME NEW f \in Fds, NEW d \in Clients, table'[f] = ServerEnd(d)
      PROVE  /\ sfd[d] = f
             /\ \/ pc'[d] \in AtWork
                \/ LeftOpen(d)' /\ remote[d] \in {"none", "open", "reset"}
  <2>1. table[f] = ServerEnd(d) /\ ~(f = fd[c] \/ (pc[c] = "close" /\ f = sfd[c]))
    BY <1>4, <1>8, ConstantFacts
  <2>2. /\ sfd[d] = f
        /\ pc[d] \in AtWork \/ (LeftOpen(d) /\ remote[d] \in {"none", "open", "reset"})
    BY <1>2, <2>1, DescriptorParts
  <2>3. CASE d = c
    <3>1. pc[c] = "refused"
      BY <1>1, <2>1, <2>2, <2>3
    <3> QED
      BY <1>1, <1>4, <2>2, <2>3, <3>1 DEF LeftOpen, AtWork
  <2>4. CASE d # c
    BY <1>1, <1>4, <2>2, <2>4 DEF LeftOpen
  <2> QED
    BY <2>3, <2>4
<1> QED
  BY <1>1, <1>6, <1>7, <1>8, PrimedParts

LEMMA ReleaseDescriptors ==
  ASSUME IInv, NEW c \in Clients, Release(c)
  PROVE  Descriptors'
<1>1. /\ pc[c] = "free" /\ pc' = [pc EXCEPT ![c] = "done"]
      /\ UNCHANGED <<table, fd, sfd, remote>>
  BY DEF Release, Goes, peers
<1>2. pc'[c] = "done" /\ \A d \in Clients : d # c => pc'[d] = pc[d]
  BY <1>1, TypeFacts DEF IInv
<1>3. Descriptors
  BY DEF IInv, Descriptors
<1>4. \A f \in Fds : table[f] # ServerEnd(c)
  BY <1>1, <1>3, DescriptorParts DEF LeftOpen, AtWork
<1>5. ASSUME NEW d \in Clients
      PROVE  /\ Answering(d)' <=> Answering(d)
             /\ pc'[d] \in AtWork => pc[d] \in AtWork
             /\ pc'[d] \in Before => pc[d] \in Before
  BY <1>1, <1>2 DEF Answering, AtWork, Before
<1>6. ASSUME NEW f \in Fds, NEW d \in Clients, table[f] = ServerEnd(d)
      PROVE  /\ sfd[d] = f
             /\ \/ pc'[d] \in AtWork
                \/ LeftOpen(d)' /\ remote[d] \in {"none", "open", "reset"}
  BY <1>1, <1>2, <1>3, <1>4, <1>6, DescriptorParts DEF LeftOpen
<1>7. \A d \in Clients :
        /\ Answering(d)' <=> fd[d] # NULL /\ table[fd[d]] = ClientEnd(d)
        /\ pc'[d] \in AtWork => sfd[d] # NULL /\ table[sfd[d]] = ServerEnd(d)
        /\ pc'[d] \in Before => sfd[d] = NULL /\ remote[d] = "none"
  BY <1>3, <1>5, DescriptorParts
<1>8. \A f \in Fds, d \in Clients : table[f] = ClientEnd(d) => fd[d] = f
  BY <1>3, DescriptorParts
<1> QED
  BY <1>1, <1>6, <1>7, <1>8, PrimedParts

LEMMA ServerDescriptors ==
  ASSUME IInv, NEW c \in Clients, Server(c)
  PROVE  Descriptors'
<1>1. UNCHANGED <<pc, table, fd, sfd>>
  BY DEF Server, Answers, Breaks, Ends, Resets, Turns, thread
<1>2. /\ \A d \in Clients : d # c => remote'[d] = remote[d]
      /\ remote[c] # "none"
      /\ remote[c] \in {"none", "open", "reset"} => remote'[c] = "reset"
  BY TypeFacts DEF IInv, Server, Answers, Breaks, Ends, Resets, Turns
<1>3. Descriptors
  BY DEF IInv, Descriptors
<1>4. \A d \in Clients : pc[d] \in Before => remote'[d] = "none"
  BY <1>2, <1>3, DescriptorParts
<1>5. \A d \in Clients : (Answering(d)' <=> Answering(d)) /\ (LeftOpen(d)' <=> LeftOpen(d))
  BY <1>1 DEF Answering, LeftOpen
<1>6. \A f \in Fds, d \in Clients :
        table[f] = ServerEnd(d) =>
          /\ sfd[d] = f
          /\ pc[d] \in AtWork \/ (LeftOpen(d)' /\ remote'[d] \in {"none", "open", "reset"})
  BY <1>2, <1>3, <1>5, DescriptorParts
<1>7. \A d \in Clients :
        /\ Answering(d)' <=> fd[d] # NULL /\ table[fd[d]] = ClientEnd(d)
        /\ pc[d] \in AtWork => sfd[d] # NULL /\ table[sfd[d]] = ServerEnd(d)
        /\ pc[d] \in Before => sfd[d] = NULL /\ remote'[d] = "none"
  BY <1>3, <1>4, <1>5, DescriptorParts
<1>8. \A f \in Fds, d \in Clients : table[f] = ClientEnd(d) => fd[d] = f
  BY <1>3, DescriptorParts
<1> QED
  BY <1>1, <1>6, <1>7, <1>8, PrimedParts

LEMMA OtherDescriptors ==
  ASSUME IInv, UNCHANGED <<pc, table, fd, sfd, remote>>
  PROVE  Descriptors'
BY DEF IInv, Descriptors, DescriptorsAccounted, ClientEndsOwn, ServerEndsOwn, LeftOpen

LEMMA DescriptorsStep ==
  ASSUME IInv, Next
  PROVE  Descriptors'
<1>1. CASE Setup
  BY <1>1, OtherDescriptors DEF Setup, thread, peers
<1>2. ASSUME NEW c \in Clients, Connect(c) \/ Ask(c) \/ Leave(c) PROVE Descriptors'
  BY <1>2, OtherDescriptors DEF Connect, Ask, Leave, thread
<1>3. ASSUME NEW c \in Clients, Accept(c) PROVE Descriptors'
  BY <1>3, AcceptDescriptors
<1>4. ASSUME NEW c \in Clients, ReadOther(c) \/ ReadGet(c) \/ Enqueue(c) PROVE Descriptors'
  BY <1>4, DescriptorsKept
     DEF ReadOther, ReadGet, Enqueue, Goes, peers, AtWork, Before, Answering
<1>5. CASE Dispatch
  <2>1. Head(queue) \in Clients
    BY <1>5, TypeFacts, TailFacts DEF Dispatch, IInv
  <2> QED
    BY <1>5, <2>1, DescriptorsKept DEF Dispatch, Goes, peers, AtWork, Before, Answering
<1>6. ASSUME NEW c \in Clients, ConnectFails(c) \/ ConnectServer(c) PROVE Descriptors'
  <2>1. CASE Free # {}
    BY <1>6, <2>1, ConnectDescriptors
  <2>2. CASE Free = {}
    <3>1. /\ pc[c] = "connect" /\ pc' = [pc EXCEPT ![c] = "refuse"]
          /\ UNCHANGED <<table, fd, sfd, remote>>
      BY <1>6, <2>2 DEF ConnectFails, ConnectServer, Goes, peers
    <3> QED
      BY <3>1, DescriptorsKept DEF AtWork, Before, Answering
  <2> QED
    BY <2>1, <2>2
<1>7. ASSUME NEW c \in Clients, SendFails(c) \/ HeadersSpin(c) \/ RelayEnds(c) PROVE Descriptors'
  BY <1>7, DescriptorsKept DEF SendFails, HeadersSpin, RelayEnds, Goes, peers, AtWork, Before, Answering
<1>8. ASSUME NEW c \in Clients, SendRequest(c) PROVE Descriptors'
  <2>1. \A d \in Clients : d # c => remote'[d] = remote[d]
    BY <1>8, TypeFacts DEF SendRequest, IInv
  <2> QED
    BY <1>8, <2>1, DescriptorsKept DEF SendRequest, Goes, AtWork, Before, Answering
<1>9. ASSUME NEW c \in Clients, Headers(c) \/ Relay(c) \/ Write500(c) PROVE Descriptors'
  BY <1>9, DescriptorsKept DEF Headers, Relay, Write500, Goes, AtWork, Before, Answering
<1>10. ASSUME NEW c \in Clients, CloseBoth(c) \/ Close500(c) PROVE Descriptors'
  BY <1>10, CloseDescriptors
<1>11. ASSUME NEW c \in Clients, Release(c) PROVE Descriptors'
  BY <1>11, ReleaseDescriptors
<1>12. ASSUME NEW c \in Clients, Server(c) PROVE Descriptors'
  BY <1>12, ServerDescriptors
<1> QED
  BY <1>1, <1>2, <1>3, <1>4, <1>5, <1>6, <1>7, <1>8, <1>9, <1>10, <1>11, <1>12
     DEF Next, Producer, Consumer, Error500

-----------------------------------------------------------------------------
(* Answers.                                                                *)

\* Where something may have been sent.
Said == {"relay", "close", "free", "refused", "done"}

Answered == AcceptedOnly /\ OwnAnswers

\* A thread goes on without sending.
LEMMA AnsweredKept ==
  ASSUME IInv, NEW c \in Clients, NEW to \in PCs \ {"none"}, pc[c] # "none",
         pc' = [pc EXCEPT ![c] = to], pc[c] \in Said => to \in Said,
         UNCHANGED <<client, received>>
  PROVE  Answered'
<1>1. pc'[c] = to /\ \A d \in Clients : d # c => pc'[d] = pc[d]
  BY TypeFacts DEF IInv
<1>2. AcceptedOnly'
  BY <1>1 DEF IInv, AcceptedOnly
<1>3. OwnAnswers'
  BY <1>1 DEF IInv, OwnAnswers, Said
<1> QED
  BY <1>2, <1>3 DEF Answered

\* A thread sends.
LEMMA AnsweredSends ==
  ASSUME IInv, NEW c \in Clients, Headers(c) \/ Relay(c) \/ Write500(c)
  PROVE  Answered'
<1>1. PICK to \in {"relay", "close", "refused"}, part \in {"headers", "body", "error"} :
        /\ pc[c] \in {"headers", "relay", "refuse"}
        /\ pc' = [pc EXCEPT ![c] = to]
        /\ \/ pc[c] = "headers" /\ Sends(c, sfd[c], part)
           \/ Sends(c, fd[c], part)
        /\ UNCHANGED client
  BY DEF Headers, Relay, Write500, Goes
<1>2. pc'[c] = to /\ \A d \in Clients : d # c => pc'[d] = pc[d]
  BY <1>1, TypeFacts DEF IInv
<1>3. /\ \A d \in Clients : d # c => received'[d] = received[d]
      /\ \/ received'[c] = received[c]
         \/ received'[c] = Append(received[c], [of |-> c, part |-> part])
  <2>1. CASE pc[c] = "headers" /\ Sends(c, sfd[c], part)
    BY <2>1, SendsOwn
  <2>2. CASE Sends(c, fd[c], part)
    BY <1>1, <2>2, SendsOwn DEF Answering
  <2> QED
    BY <1>1, <2>1, <2>2
<1>4. AcceptedOnly'
  BY <1>1, <1>2 DEF IInv, AcceptedOnly
<1>5. ASSUME NEW d \in Clients
      PROVE  /\ \A i \in DOMAIN received'[d] : received'[d][i].of = d
             /\ received'[d] # << >> => pc'[d] \in {"relay", "close", "free", "refused", "done"}
  <2>1. CASE d # c
    BY <1>2, <1>3, <2>1 DEF IInv, OwnAnswers
  <2>2. CASE d = c
    <3>1. CASE received'[c] = received[c]
      BY <1>2, <2>2, <3>1 DEF IInv, OwnAnswers
    <3>2. CASE received'[c] = Append(received[c], [of |-> c, part |-> part])
      <4> DEFINE e == [of |-> c, part |-> part]
      <4>1. received[c] \in Seq(Parts) /\ e \in Parts /\ e.of = c
        BY TypeFacts DEF IInv, Parts
      <4> HIDE DEF e
      <4>2. \A i \in DOMAIN received[c] : received[c][i].of = c
        BY DEF IInv, OwnAnswers
      <4>3. \A i \in DOMAIN Append(received[c], e) : Append(received[c], e)[i].of = c
        BY <4>1, <4>2, AppendFacts
      <4> QED
        BY <1>2, <2>2, <3>2, <4>3 DEF e
    <3> QED
      BY <1>3, <3>1, <3>2
  <2> QED
    BY <2>1, <2>2
<1>6. OwnAnswers'
  BY <1>5 DEF OwnAnswers
<1> QED
  BY <1>4, <1>6 DEF Answered

LEMMA AnsweredStep ==
  ASSUME IInv, Next
  PROVE  Answered'
<1>1. CASE Setup
  BY <1>1 DEF IInv, Answered, AcceptedOnly, OwnAnswers, Setup, thread, peers
<1>2. ASSUME NEW c \in Clients, Connect(c) \/ Ask(c) \/ Leave(c) PROVE Answered'
  <2>1. UNCHANGED <<pc, received>>
    BY <1>2 DEF Connect, Ask, Leave, thread
  <2>2. \A d \in Clients : client'[d] \in {"new", "waiting"} <=> client[d] \in {"new", "waiting"}
    BY <1>2, TypeFacts DEF IInv, Connect, Ask, Leave
  <2> QED
    BY <2>1, <2>2 DEF IInv, Answered, AcceptedOnly, OwnAnswers
<1>3. ASSUME NEW c \in Clients, Accept(c) PROVE Answered'
  <2>1. /\ UNCHANGED received /\ pc[c] = "none"
        /\ pc'[c] = "read" /\ client'[c] = "open"
        /\ \A d \in Clients : d # c => pc'[d] = pc[d] /\ client'[d] = client[d]
    BY <1>3, TypeFacts DEF IInv, Accept, Goes
  <2>2. AcceptedOnly'
    BY <2>1 DEF IInv, AcceptedOnly
  <2>3. OwnAnswers'
    BY <2>1 DEF IInv, OwnAnswers
  <2> QED
    BY <2>2, <2>3 DEF Answered
<1>4. ASSUME NEW c \in Clients,
             \/ ReadOther(c) \/ ReadGet(c) \/ Enqueue(c) \/ ConnectFails(c) \/ ConnectServer(c)
             \/ SendFails(c) \/ SendRequest(c)
      PROVE  Answered'
  BY <1>4, AnsweredKept
     DEF ReadOther, ReadGet, Enqueue, ConnectFails, ConnectServer, SendFails, SendRequest,
         Goes, peers, PCs, Said
<1>5. CASE Dispatch
  <2>1. Head(queue) \in Clients
    BY <1>5, TypeFacts, TailFacts DEF Dispatch, IInv
  <2> QED
    BY <1>5, <2>1, AnsweredKept DEF Dispatch, Goes, peers, PCs, Said
<1>6. ASSUME NEW c \in Clients,
             \/ HeadersSpin(c) \/ RelayEnds(c) \/ CloseBoth(c) \/ Release(c) \/ Close500(c)
      PROVE  Answered'
  BY <1>6, AnsweredKept
     DEF HeadersSpin, RelayEnds, CloseBoth, Release, Close500, Goes, peers, PCs, Said
<1>7. ASSUME NEW c \in Clients, Headers(c) \/ Relay(c) \/ Write500(c) PROVE Answered'
  BY <1>7, AnsweredSends
<1>8. ASSUME NEW c \in Clients, Server(c) PROVE Answered'
  BY <1>8 DEF IInv, Answered, AcceptedOnly, OwnAnswers, Server, Answers, Breaks, Ends, Resets,
              Turns, thread
<1> QED
  BY <1>1, <1>2, <1>3, <1>4, <1>5, <1>6, <1>7, <1>8 DEF Next, Producer, Consumer, Error500

-----------------------------------------------------------------------------
(* The invariant holds.                                                    *)

LEMMA InitSafe == Init => IInv
<1> SUFFICES ASSUME Init
             PROVE  IInv
  OBVIOUS
<1>1. MainTypeOK
  BY ConstantFacts DEF Init, MainTypeOK
<1>2. ThreadTypeOK
  BY DEF Init, ThreadTypeOK, PCs, Chosen
<1>3. TableTypeOK
  BY DEF Init, TableTypeOK
<1>4. PeersTypeOK
  BY ConstantFacts DEF Init, PeersTypeOK
<1>5. OneOwner
  BY DEF Init, OneOwner
<1>6. Descriptors
  BY ConstantFacts, DescriptorParts DEF Init, Answering, AtWork, Before
<1>7. AcceptedOnly /\ OwnAnswers
  BY DEF Init, AcceptedOnly, OwnAnswers
<1> QED
  BY <1>1, <1>2, <1>3, <1>4, <1>5, <1>6, <1>7 DEF IInv, TypeOK, Descriptors

LEMMA NextSafe == IInv /\ [Next]_vars => IInv'
<1>1. ASSUME IInv, Next PROVE IInv'
  <2>1. TypeOK'
    BY <1>1, TypeStep DEF IInv
  <2> QED
    BY <1>1, <2>1, OwnerStep, DescriptorsStep, AnsweredStep DEF IInv, Descriptors, Answered
<1>2. ASSUME IInv, UNCHANGED vars PROVE IInv'
  <2>1. TypeOK'
    BY <1>2, TypeStep DEF IInv
  <2>2. OneOwner'
    BY <1>2 DEF IInv, OneOwner, vars, thread
  <2>3. Descriptors'
    BY <1>2, OtherDescriptors DEF vars, thread, peers
  <2>4. AcceptedOnly' /\ OwnAnswers'
    BY <1>2 DEF IInv, AcceptedOnly, OwnAnswers, vars, thread, peers
  <2> QED
    BY <2>1, <2>2, <2>3, <2>4 DEF IInv, Descriptors
<1> QED
  BY <1>1, <1>2

LEMMA Invariant == Spec => []IInv
BY InitSafe, NextSafe, PTL DEF Spec

(* Descriptors, connections and counts stay of their kinds, and a          *)
(* connection past its producer always has a forwarder that exists.        *)
THEOREM TypeCorrect == Spec => []TypeOK
<1>1. IInv => TypeOK
  BY DEF IInv
<1> QED
  BY <1>1, Invariant, PTL

(* However producers, the coordinator and consumers interleave, connection *)
(* and request are freed once, by the last thread that has them.           *)
THEOREM OneOwnerCorrect == Spec => []OneOwner
<1>1. IInv => OneOwner
  BY DEF IInv
<1> QED
  BY <1>1, Invariant, PTL

(* No descriptor of a client or a server is closed early or left open, but *)
(* for the sockets of consumers that answered 500.                         *)
THEOREM DescriptorsCorrect == Spec => []DescriptorsAccounted
<1>1. IInv => DescriptorsAccounted
  BY DEF IInv
<1> QED
  BY <1>1, Invariant, PTL

-----------------------------------------------------------------------------
(* The refinement of Service.                                              *)

Phase == [c \in Clients |-> PhaseOf(c)]
Sent  == [c \in Clients |-> AnswersOf(c)]

\* With no answer of another's, a client was sent its own or nothing.
LEMMA SentOwn ==
  ASSUME OwnAnswers, NEW c \in Clients
  PROVE  AnswersOf(c) = IF received[c] = << >> THEN << >> ELSE <<c>>
BY DEF OwnAnswers, AnswersOf

LEMMA SentOwnNext ==
  ASSUME OwnAnswers', NEW c \in Clients
  PROVE  AnswersOf(c)' = IF received'[c] = << >> THEN << >> ELSE <<c>>
BY DEF OwnAnswers, AnswersOf

\* What the service sees of a connection that nothing of is changed.
LEMMA SeenSame ==
  ASSUME NEW c \in Clients,
         pc'[c] = pc[c], received'[c] = received[c],
         pc[c] = "none" => client'[c] = client[c]
  PROVE  PhaseOf(c)' = PhaseOf(c) /\ AnswersOf(c)' = AnswersOf(c)
BY DEF PhaseOf, AnswersOf

\* A step that the service sees of one connection at most is one of its steps.
LEMMA SeenStep ==
  ASSUME NEW c \in Clients,
         \A d \in Clients : d # c => PhaseOf(d)' = PhaseOf(d) /\ AnswersOf(d)' = AnswersOf(d),
         \/ PhaseOf(c)' = PhaseOf(c) /\ AnswersOf(c)' = AnswersOf(c)
         \/ PhaseOf(c) = "new" /\ PhaseOf(c)' = "waiting" /\ AnswersOf(c)' = AnswersOf(c)
         \/ PhaseOf(c) = "waiting" /\ PhaseOf(c)' = "open" /\ AnswersOf(c)' = AnswersOf(c)
         \/ PhaseOf(c) = "open" /\ PhaseOf(c)' = "read" /\ AnswersOf(c)' = AnswersOf(c)
         \/ PhaseOf(c) = "answered" /\ PhaseOf(c)' = "closed" /\ AnswersOf(c)' = AnswersOf(c)
         \/ PhaseOf(c) = "read" /\ PhaseOf(c)' = "answered" /\ AnswersOf(c)' \in {<< >>, <<c>>}
  PROVE  [S!Next]_S!vars
<1>1. /\ Phase' = [Phase EXCEPT ![c] = PhaseOf(c)']
      /\ Phase[c] = PhaseOf(c)
  BY DEF Phase
<1>2. Sent' = [Sent EXCEPT ![c] = AnswersOf(c)']
  BY DEF Sent
<1>3. AnswersOf(c)' = AnswersOf(c) => Sent' = Sent
  BY <1>2 DEF Sent
<1>4. PhaseOf(c)' = PhaseOf(c) => Phase' = Phase
  BY <1>1 DEF Phase
<1>5. Phase' = Phase /\ Sent' = Sent => UNCHANGED S!vars
  BY DEF S!vars, Phase, Sent
<1>6. ASSUME Sent' = Sent,
             \/ Phase[c] = "new" /\ Phase' = [Phase EXCEPT ![c] = "waiting"]
             \/ Phase[c] = "waiting" /\ Phase' = [Phase EXCEPT ![c] = "open"]
             \/ Phase[c] = "open" /\ Phase' = [Phase EXCEPT ![c] = "read"]
             \/ Phase[c] = "answered" /\ Phase' = [Phase EXCEPT ![c] = "closed"]
      PROVE  S!Next
  BY <1>6 DEF S!Next, S!Connect, S!Accept, S!Read, S!Close, S!Goes, Phase, Sent
<1>7. ASSUME Phase[c] = "read", Phase' = [Phase EXCEPT ![c] = "answered"],
             AnswersOf(c)' \in {<< >>, <<c>>}
      PROVE  S!Next
  <2>1. << >> = [i \in 1..0 |-> c] /\ <<c>> = [i \in 1..1 |-> c]
    OBVIOUS
  <2>2. \E n \in 0..1 : Sent' = [Sent EXCEPT ![c] = [i \in 1..n |-> c]]
    <3>1. CASE AnswersOf(c)' = << >>
      <4>1. Sent' = [Sent EXCEPT ![c] = [i \in 1..0 |-> c]]
        BY <1>2, <2>1, <3>1
      <4>2. 0 \in 0..1
        OBVIOUS
      <4> QED
        BY <4>1, <4>2, Zenon
    <3>2. CASE AnswersOf(c)' = <<c>>
      <4>1. Sent' = [Sent EXCEPT ![c] = [i \in 1..1 |-> c]]
        BY <1>2, <2>1, <3>2
      <4>2. 1 \in 0..1
        OBVIOUS
      <4> QED
        BY <4>1, <4>2, Zenon
    <3> QED
      BY <1>7, <3>1, <3>2
  <2> QED
    BY <1>7, <2>2 DEF S!Next, S!Answer, S!Goes, Phase, Sent
<1> QED
  BY <1>1, <1>2, <1>3, <1>4, <1>5, <1>6, <1>7

LEMMA InitImplements == Init => S!Init
BY DEF Init, S!Init, PhaseOf, AnswersOf

LEMMA StepImplements ==
  ASSUME IInv, IInv', Next
  PROVE  [S!Next]_S!vars
<1>1. CASE Setup
  <2>1. \A d \in Clients : PhaseOf(d)' = PhaseOf(d) /\ AnswersOf(d)' = AnswersOf(d)
    BY <1>1, SeenSame DEF Setup, thread, peers
  <2> QED
    BY <2>1 DEF S!vars
<1>2. ASSUME NEW c \in Clients, Ask(c) \/ Leave(c) \/ Server(c) PROVE [S!Next]_S!vars
  <2>1. UNCHANGED <<pc, received>>
    BY <1>2 DEF Ask, Leave, Server, Answers, Breaks, Ends, Resets, Turns, thread
  <2>2. \A d \in Clients : pc[d] = "none" => client'[d] = client[d]
    BY <1>2, TypeFacts
       DEF IInv, AcceptedOnly, Ask, Leave, Server, Answers, Breaks, Ends, Resets, Turns
  <2>3. \A d \in Clients : PhaseOf(d)' = PhaseOf(d) /\ AnswersOf(d)' = AnswersOf(d)
    BY <2>1, <2>2, SeenSame
  <2> QED
    BY <2>3 DEF S!vars
<1>3. ASSUME NEW c \in Clients, Connect(c) PROVE [S!Next]_S!vars
  <2>1. /\ UNCHANGED <<pc, received>>
        /\ client[c] = "new" /\ client'[c] = "waiting" /\ pc[c] = "none"
        /\ \A d \in Clients : d # c => client'[d] = client[d]
    BY <1>3, TypeFacts DEF IInv, AcceptedOnly, Connect, thread
  <2>2. PhaseOf(c) = "new" /\ PhaseOf(c)' = "waiting"
    BY <2>1 DEF PhaseOf
  <2>3. AnswersOf(c)' = AnswersOf(c)
    BY <2>1 DEF AnswersOf
  <2> QED
    BY <2>1, <2>2, <2>3, SeenSame, SeenStep
<1>4. ASSUME NEW c \in Clients, Accept(c) PROVE [S!Next]_S!vars
  <2>1. /\ UNCHANGED received /\ pc[c] = "none" /\ pc'[c] = "read"
        /\ client[c] = "waiting" /\ client'[c] = "open"
        /\ \A d \in Clients : d # c => client'[d] = client[d] /\ pc'[d] = pc[d]
    BY <1>4, TypeFacts DEF IInv, Accept, Goes
  <2>2. PhaseOf(c) = "waiting" /\ PhaseOf(c)' = "open"
    BY <2>1 DEF PhaseOf
  <2>3. AnswersOf(c)' = AnswersOf(c)
    BY <2>1 DEF AnswersOf
  <2> QED
    BY <2>1, <2>2, <2>3, SeenSame, SeenStep
<1>5. ASSUME NEW c \in Clients, NEW to \in PCs, pc[c] # "none", pc' = [pc EXCEPT ![c] = to],
             UNCHANGED <<client, received>>,
             \/ pc[c] = "read" /\ to \in {"refuse", "enqueue"}
             \/ pc[c] \in {"enqueue", "queued", "connect", "send", "headers"}
                /\ to \in {"queued", "connect", "send", "headers", "spin", "refuse"}
             \/ pc[c] = "relay" /\ to = "close"
             \/ pc[c] \in {"close", "refused"} /\ to \in {"free", "done"}
             \/ pc[c] = "free" /\ to = "done"
      PROVE  [S!Next]_S!vars
  <2>1. pc'[c] = to /\ \A d \in Clients : d # c => pc'[d] = pc[d]
    BY <1>5, TypeFacts DEF IInv
  <2>2. client[c] \notin {"new", "waiting"} /\ (received[c] # << >> => pc[c] \in Said)
    BY <1>5 DEF IInv, AcceptedOnly, OwnAnswers, Said
  <2>3. AnswersOf(c)' = AnswersOf(c)
    BY <1>5 DEF AnswersOf
  <2>4. \/ PhaseOf(c)' = PhaseOf(c)
        \/ PhaseOf(c) = "open" /\ PhaseOf(c)' = "read"
        \/ PhaseOf(c) = "answered" /\ PhaseOf(c)' = "closed"
        \/ PhaseOf(c) = "read" /\ PhaseOf(c)' = "answered"
    BY <1>5, <2>1, <2>2 DEF PhaseOf, Said
  <2>5. AnswersOf(c)' \in {<< >>, <<c>>}
    BY <2>3, SentOwn DEF IInv
  <2> QED
    BY <1>5, <2>1, <2>3, <2>4, <2>5, SeenSame, SeenStep
<1>6. ASSUME NEW c \in Clients,
             \/ ReadOther(c) \/ ReadGet(c) \/ Enqueue(c) \/ ConnectFails(c) \/ ConnectServer(c)
             \/ SendFails(c) \/ SendRequest(c)
      PROVE  [S!Next]_S!vars
  BY <1>5, <1>6
     DEF ReadOther, ReadGet, Enqueue, ConnectFails, ConnectServer, SendFails, SendRequest,
         Goes, peers, PCs
<1>7. ASSUME NEW c \in Clients,
             \/ HeadersSpin(c) \/ RelayEnds(c) \/ CloseBoth(c) \/ Release(c) \/ Close500(c)
      PROVE  [S!Next]_S!vars
  BY <1>5, <1>7
     DEF HeadersSpin, RelayEnds, CloseBoth, Release, Close500, Goes, peers, PCs
<1>8. CASE Dispatch
  <2>1. Head(queue) \in Clients
    BY <1>8, TypeFacts, TailFacts DEF Dispatch, IInv
  <2> QED
    BY <1>5, <1>8, <2>1 DEF Dispatch, Goes, peers, PCs
<1>9. ASSUME NEW c \in Clients, Headers(c) \/ Relay(c) \/ Write500(c) PROVE [S!Next]_S!vars
  <2>1. /\ UNCHANGED client
        /\ \A d \in Clients : d # c => pc'[d] = pc[d]
        /\ \/ pc[c] = "headers" /\ pc'[c] = "relay"
           \/ pc[c] = "relay" /\ pc'[c] \in {"relay", "close"}
           \/ pc[c] = "refuse" /\ pc'[c] = "refused"
    BY <1>9, TypeFacts DEF IInv, Headers, Relay, Write500, Goes
  <2>2. /\ \A d \in Clients : d # c => received'[d] = received[d]
        /\ pc[c] = "headers" => received'[c] = received[c]
        /\ received'[c] = << >> => received[c] = << >>
    <3>1. CASE Headers(c)
      BY <3>1, SendsOwn DEF Headers, Goes
    <3>2. CASE Relay(c) \/ Write500(c)
      <4>1. PICK part \in {"body", "error"} : Sends(c, fd[c], part) /\ pc[c] \in {"relay", "refuse"}
        BY <3>2 DEF Relay, Write500, Goes
      <4>2. /\ \A d \in Clients : d # c => received'[d] = received[d]
            /\ \/ received'[c] = received[c]
               \/ received'[c] = Append(received[c], [of |-> c, part |-> part])
        BY <4>1, SendsOwn DEF Answering
      <4>3. Append(received[c], [of |-> c, part |-> part]) # << >>
        <5>1. received[c] \in Seq(Parts)
          BY TypeFacts DEF IInv
        <5>2. [of |-> c, part |-> part] \in Parts
          BY DEF Parts
        <5> QED
          BY <5>1, <5>2, AppendFacts
      <4> QED
        BY <4>1, <4>2, <4>3
    <3> QED
      BY <1>9, <3>1, <3>2
  <2>3. client[c] \notin {"new", "waiting"} /\ (received[c] # << >> => pc[c] \in Said)
    BY <2>1 DEF IInv, AcceptedOnly, OwnAnswers, Said
  <2>4. /\ AnswersOf(c) = IF received[c] = << >> THEN << >> ELSE <<c>>
        /\ AnswersOf(c)' = IF received'[c] = << >> THEN << >> ELSE <<c>>
    BY SentOwn, SentOwnNext DEF IInv
  <2>5. \/ PhaseOf(c)' = PhaseOf(c) /\ AnswersOf(c)' = AnswersOf(c)
        \/ PhaseOf(c) = "read" /\ PhaseOf(c)' = "answered" /\ AnswersOf(c)' \in {<< >>, <<c>>}
    <3>1. PhaseOf(c) = IF received[c] = << >> THEN "read" ELSE "answered"
      <4>1. CASE received[c] = << >>
        BY <2>1, <4>1 DEF PhaseOf
      <4>2. CASE received[c] # << >>
        <5>1. pc[c] = "relay"
          BY <2>1, <2>3, <4>2 DEF Said
        <5> QED
          BY <4>2, <5>1 DEF PhaseOf
      <4> QED
        BY <4>1, <4>2
    <3>2. PhaseOf(c)' = IF received'[c] = << >> /\ pc'[c] = "relay" THEN "read" ELSE "answered"
      BY <2>1, <2>3 DEF PhaseOf
    <3> QED
      BY <2>2, <2>4, <3>1, <3>2
  <2>6. \A d \in Clients : d # c => PhaseOf(d)' = PhaseOf(d) /\ AnswersOf(d)' = AnswersOf(d)
    BY <2>1, <2>2, SeenSame
  <2> QED
    BY <2>5, <2>6, SeenStep
<1> QED
  BY <1>1, <1>2, <1>3, <1>4, <1>6, <1>7, <1>8, <1>9 DEF Next, Producer, Consumer, Error500

(* Every client is accepted, read, answered and closed in turn, with       *)
(* nothing of another client's answer: the balancer implements Service.    *)
THEOREM ServiceImplemented == Spec => ServesInTurn
<1>1. IInv /\ IInv' /\ [Next]_vars => [S!Next]_S!vars
  <2>1. ASSUME UNCHANGED vars PROVE UNCHANGED S!vars
    BY <2>1 DEF vars, thread, peers, S!vars, PhaseOf, AnswersOf
  <2> QED
    BY <2>1, StepImplements
<1> QED
  BY <1>1, InitImplements, Invariant, PTL DEF Spec, ServesInTurn, S!Spec
=============================================================================
