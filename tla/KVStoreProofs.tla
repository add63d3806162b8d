--------------------------- MODULE KVStoreProofs ---------------------------
(***************************************************************************)
(* Proofs about KVStore for any keys, values, stores, places and order on  *)
(* the ring, and for any number of failures.                               *)
(***************************************************************************)
EXTENDS KVStore, TLAPS, WellFoundedInduction

-----------------------------------------------------------------------------
(* The invariant.                                                          *)

\* What is forwarded is on the ring, and the worker reads from the store at
\* the address recorded with its key.
Linked ==
  /\ job # NULL => route[job.key] # NULL
  /\ worker = "read" => route[job.key] = Address(link.store)

\* An answer on its way is still true, or its store has lost the key.
AnswerTrue ==
  worker = "read" =>
    /\ link.state = "answered" /\ job.op = "SET" /\ link.code = 200
         => data[link.store][job.key] = job.value
    /\ link.state = "answered" /\ job.op = "GET" /\ ~restarted
         => /\ link.value = data[link.store][job.key]
            /\ link.value # NULL => link.code = 200
    /\ link.state = "stale" /\ job.op = "GET" /\ home[job.key] = link.store
         => job.key \in lost

\* The worker's SET has not reached its store.
SetUnderWay == job # NULL /\ job.op = "SET" /\ (worker = "connect" \/ link.state = "sent")

\* Until the coordinator loses its ring, a key is sent by SET once in its life.
SentOnce ==
  ~restarted =>
    /\ orphan = NULL
    /\ \A k \in Keys, s \in Stores :
         route[k] = NULL \/ (SetUnderWay /\ job.key = k) => data[s][k] = NULL

\* Acknowledged keys were acknowledged by a store, and are sent to it again.
RoutedHome ==
  \A k \in Keys :
    acked[k] # NULL =>
      /\ home[k] \in Stores
      /\ ~restarted /\ k \notin moved => route[k] = Address(home[k])

Safe == Linked /\ AnswerTrue /\ SentOnce /\ RoutedHome /\ AckedHeld /\ OneCopy

IInv == TypeOK /\ Safe

-----------------------------------------------------------------------------
(* Addresses and owners.                                                   *)

(* Sets of natural numbers have a least element.                           *)
LEMMA LeastExists ==
  ASSUME NEW set \in SUBSET Nat, set # {}
  PROVE  \E least \in set : \A x \in set : least <= x
<1>1. PICK least \in set : \A x \in set :
                              ~(<<x, least>> \in {pair \in Nat \X Nat : pair[1] < pair[2]})
  BY NatLessThanWellFounded, WFMin, Zenon DEF OpToRel
<1>2. \A x \in set : ~(x < least)
  BY <1>1
<1> QED
  BY <1>2

LEMMA OwnerType ==
  ASSUME NEW k \in Keys, NEW ring \in SUBSET Stores, ring # {}
  PROVE  Owner(k, ring) \in ring
<1> DEFINE S == {n \in DOMAIN Order[k] : Order[k][n] \in ring}
<1>1. Order[k] \in Seq(Stores) /\ DOMAIN Order[k] \subseteq Nat
  BY KVAssumption
<1>2. S # {} /\ S \in SUBSET Nat
  BY <1>1, KVAssumption
<1>3. PICK i \in S : \A n \in S : i <= n
  BY <1>2, LeastExists
<1>4. \A m \in DOMAIN Order[k] : m < i => Order[k][m] \notin ring
  BY <1>1, <1>3
<1> QED
  BY <1>3, <1>4 DEF Owner

LEMMA AddressFacts ==
  ASSUME place \in Places
  PROVE  /\ \A s, t \in Stores : <<place[s][1], place[t][2]>> # NULL
         /\ \A s \in Stores : Address(s) = <<place[s][1], place[s][2]>>
         /\ \A s, t \in Stores : Address(s) = Address(t) => s = t
<1>1. \A s, t \in Stores : <<place[s][1], place[t][2]>> # NULL
  <2> SUFFICES ASSUME NEW s \in Stores, NEW t \in Stores
               PROVE  <<place[s][1], place[t][2]>> # NULL
    OBVIOUS
  <2> DEFINE Parts == {p[u][i] : p \in Places, u \in Stores, i \in 1..2}
  <2>1. place[s][1] \in Parts /\ place[t][2] \in Parts
    OBVIOUS
  <2>2. \A a, b \in Parts : NULL # <<a, b>>
    BY KVAssumption
  <2> QED
    BY <2>1, <2>2
<1> QED
  BY <1>1, KVAssumption DEF Address

LEMMA NullFacts ==
  /\ NULL \notin Values /\ NULL \notin Stores /\ NULL \notin Keys
  /\ NULL \notin Requests /\ NULL \notin Answers
  /\ Initial \subseteq Stores /\ MaxLeaks \in Nat \ {0} /\ MaxFaults \in Nat
BY KVAssumption

\* What is recorded with a key.
Recorded(r) == \E s, t \in Stores : r = <<place[s][1], place[t][2]>>

LEMMA RoutesType ==
  ASSUME TypeOK, NEW s \in Stores
  PROVE  /\ \A k \in Keys : RouteAdded(s)[k] = route[k] \/ (k \in Placed /\ Recorded(RouteAdded(s)[k]))
         /\ \A k \in Keys : RouteDeleted(s)[k] = route[k] \/ (k \in Placed /\ Recorded(RouteDeleted(s)[k]))
<1>1. ASSUME NEW k \in Keys
      PROVE  RouteAdded(s)[k] = route[k] \/ (k \in Placed /\ Recorded(RouteAdded(s)[k]))
  BY AddressFacts DEF RouteAdded, TypeOK, RingTypeOK, Recorded
<1>2. ASSUME NEW k \in Keys
      PROVE  RouteDeleted(s)[k] = route[k] \/ (k \in Placed /\ Recorded(RouteDeleted(s)[k]))
  <2> DEFINE rest == servers \ {s}
  <2>1. CASE k \in Placed /\ rest # {} /\ Owner(k, servers) = s
    <3>1. rest \in SUBSET Stores /\ rest # {}
      BY <2>1 DEF TypeOK, RingTypeOK
    <3>a. Owner(k, rest) \in Stores
      <4> HIDE DEF rest
      <4> QED BY <3>1, OwnerType
    <3>2. PICK t, u \in Stores : route[k] = <<place[t][1], place[u][2]>>
      BY <2>1 DEF TypeOK, RingTypeOK
    <3>3. RouteDeleted(s)[k] = <<place[Owner(k, rest)][1], place[u][2]>>
      BY <2>1, <3>2 DEF RouteDeleted
    <3> QED
      BY <2>1, <3>a, <3>3 DEF Recorded
  <2>2. CASE ~(k \in Placed /\ rest # {} /\ Owner(k, servers) = s)
    BY <2>2 DEF RouteDeleted
  <2> QED
    BY <2>1, <2>2
<1> QED
  BY <1>1, <1>2

-----------------------------------------------------------------------------
(* Types.                                                                  *)

LEMMA RequestFacts ==
  ASSUME NEW r \in Requests
  PROVE  r # NULL /\ r.key \in Keys /\ r.op \in {"SET", "GET"}
         /\ (r.op = "SET" => r.value \in Values)
BY NullFacts DEF Requests

LEMMA JobFacts ==
  ASSUME TypeOK
  PROVE  /\ (worker \in {"connect", "read"} => job \in Requests)
         /\ (worker \in {"take", "spin"} => job = NULL)
         /\ (worker = "read" <=> link.state # "none")
BY NullFacts DEF TypeOK, WorkerTypeOK, LinkTypeOK

\* The parts of the type invariant that a step leaves alone.
LEMMA SameTypes ==
  ASSUME TypeOK
  PROVE  /\ UNCHANGED <<place, servers, route>> => RingTypeOK'
         /\ UNCHANGED <<worker, job, leaked>> => WorkerTypeOK'
         /\ UNCHANGED <<worker, link, orphan>> => LinkTypeOK'
         /\ UNCHANGED <<up, data>> => StoreTypeOK'
         /\ UNCHANGED <<acked, home, lost, moved, restarted, faults>> => HistoryTypeOK'
<1>1. UNCHANGED <<place, servers, route>> => RingTypeOK'
  BY DEF TypeOK, RingTypeOK, Placed
<1>2. UNCHANGED <<worker, job, leaked>> => WorkerTypeOK'
  BY DEF TypeOK, WorkerTypeOK
<1>3. UNCHANGED <<worker, link, orphan>> => LinkTypeOK'
  BY DEF TypeOK, LinkTypeOK
<1>4. UNCHANGED <<up, data>> => StoreTypeOK'
  BY DEF TypeOK, StoreTypeOK
<1>5. UNCHANGED <<acked, home, lost, moved, restarted, faults>> => HistoryTypeOK'
  BY DEF TypeOK, HistoryTypeOK
<1> QED
  BY <1>1, <1>2, <1>3, <1>4, <1>5

\* The worker goes on without a connection, and had none.
LEMMA NoConnection ==
  ASSUME TypeOK, worker # "read", worker' # "read", UNCHANGED <<link, orphan>>
  PROVE  LinkTypeOK'
BY DEF TypeOK, LinkTypeOK

LEMMA JobTaken ==
  ASSUME TypeOK, UNCHANGED leaked
  PROVE  /\ worker' = "connect" /\ job' \in Requests => WorkerTypeOK'
         /\ worker' \in {"take", "spin"} /\ job' = NULL => WorkerTypeOK'
BY RequestFacts DEF TypeOK, WorkerTypeOK

LEMMA SetType ==
  ASSUME TypeOK, UNCHANGED place, NEW k \in Keys, NEW v \in Values, Set(k, v)
  PROVE  TypeOK'
<1>1. servers \in SUBSET Stores /\ servers # {}
  BY DEF Set, TypeOK, RingTypeOK
<1>2. Owner(k, servers) \in Stores
  BY <1>1, OwnerType
<1>3. Recorded(Address(Owner(k, servers)))
  BY <1>2, AddressFacts DEF Recorded, TypeOK, RingTypeOK
<1>4. RingTypeOK'
  BY <1>3 DEF Set, TypeOK, RingTypeOK, Placed, Recorded
<1>5. job' \in Requests
  BY DEF Set, Requests
<1>6. WorkerTypeOK' /\ LinkTypeOK'
  BY <1>5, JobTaken, NoConnection DEF Set
<1> QED
  BY <1>4, <1>6, SameTypes DEF Set, TypeOK, history

LEMMA RingChangedType ==
  ASSUME TypeOK, UNCHANGED place, NEW s \in Stores, worker = "take",
         UNCHANGED <<worker, job, leaked, up, data, link, orphan, acked, home, lost,
                     restarted, faults>>,
         servers' \subseteq Stores, route' \in {RouteAdded(s), RouteDeleted(s)}, Moves
  PROVE  TypeOK'
<1>1. DOMAIN route' = Keys
  BY DEF RouteAdded, RouteDeleted
<1>2. ASSUME NEW l \in Keys, route'[l] # NULL
      PROVE  Recorded(route'[l])
  BY <1>2, RoutesType DEF TypeOK, RingTypeOK, Placed, Recorded
<1>3. RingTypeOK'
  BY <1>1, <1>2 DEF TypeOK, RingTypeOK, Placed, Recorded
<1>4. HistoryTypeOK'
  BY DEF TypeOK, HistoryTypeOK, Moves
<1> QED
  BY <1>3, <1>4, SameTypes DEF TypeOK

LEMMA ArrivesType ==
  ASSUME TypeOK, UNCHANGED place, Arrives
  PROVE  TypeOK'
<1>1. ASSUME NEW k \in Keys, SetSpins(k) PROVE TypeOK'
  BY <1>1, SameTypes, JobFacts, JobTaken, NoConnection DEF SetSpins, TypeOK, ringVars, history
<1>2. ASSUME NEW k \in Keys, Get(k) PROVE TypeOK'
  <2>1. CASE route[k] = NULL
    BY <1>2, <2>1, SameTypes DEF Get, TypeOK, ringVars, history
  <2>2. CASE route[k] # NULL
    <3>1. job' \in Requests
      BY <1>2, <2>2 DEF Get, Requests
    <3>2. WorkerTypeOK' /\ LinkTypeOK'
      BY <1>2, <2>2, <3>1, JobTaken, NoConnection DEF Get
    <3> QED
      BY <1>2, <3>2, SameTypes DEF Get, TypeOK, ringVars, history
  <2> QED
    BY <2>1, <2>2
<1>3. ASSUME NEW k \in Keys, NEW v \in Values, Set(k, v) PROVE TypeOK'
  BY <1>3, SetType
<1>4. ASSUME NEW k \in Keys, NEW v \in Values, SetRefused(k, v) PROVE TypeOK'
  BY <1>4, SameTypes DEF SetRefused, TypeOK, ringVars, history
<1>5. ASSUME NEW s \in Stores, Add(s) PROVE TypeOK'
  <2>1. CASE s \in servers
    BY <1>5, <2>1, SameTypes DEF Add, TypeOK, ringVars
  <2>2. CASE s \notin servers
    BY <1>5, <2>2, RingChangedType DEF Add, TypeOK, RingTypeOK
  <2> QED
    BY <2>1, <2>2
<1>6. ASSUME NEW s \in Stores, Del(s) PROVE TypeOK'
  <2>1. CASE s \notin servers
    BY <1>6, <2>1, SameTypes DEF Del, TypeOK, ringVars
  <2>2. CASE s \in servers
    BY <1>6, <2>2, RingChangedType DEF Del, TypeOK, RingTypeOK
  <2> QED
    BY <2>1, <2>2
<1>7. ASSUME NEW op \in {"REM", "SYNC"}, Other(op) PROVE TypeOK'
  BY <1>7, SameTypes DEF Other, TypeOK, ringVars, history
<1> QED
  BY <1>1, <1>2, <1>3, <1>4, <1>5, <1>6, <1>7 DEF Arrives

LEMMA NoLinkType == NoLink \in Links /\ NoLink.state = "none"
BY DEF NoLink, Links, Codes

\* The worker gives its request up, or is told the answer.
LEMMA WorkerFree ==
  ASSUME TypeOK, worker' = "take", job' = NULL, leaked' \in 0..MaxLeaks,
         UNCHANGED orphan, link' = NoLink \/ (worker = "connect" /\ link' = link)
  PROVE  WorkerTypeOK' /\ LinkTypeOK'
<1>1. WorkerTypeOK'
  BY DEF WorkerTypeOK
<1>2. LinkTypeOK'
  BY NoLinkType DEF TypeOK, LinkTypeOK
<1> QED
  BY <1>1, <1>2

LEMMA ForwardType ==
  ASSUME TypeOK, UNCHANGED place, Forward
  PROVE  TypeOK'
<1>a. leaked \in 0..MaxLeaks /\ (leaked < MaxLeaks => leaked + 1 \in 0..MaxLeaks)
  BY NullFacts DEF TypeOK, WorkerTypeOK
<1>1. CASE Unresolved
  BY <1>1, <1>a, WorkerFree, SameTypes DEF Unresolved, Unanswered, TypeOK, ringVars, history
<1>2. CASE Refused
  BY <1>2, <1>a, WorkerFree, SameTypes DEF Refused, Unanswered, TypeOK, ringVars, history
<1>3. CASE Connect
  <2>1. PICK s \in Stores : link' = [NoLink EXCEPT !.store = s, !.state = "sent"]
    BY <1>3 DEF Connect, Resolve, TypeOK, RingTypeOK
  <2>2. link' \in Links /\ link'.state = "sent" /\ link'.store \in Stores
    <3>1. link' = [store |-> s, state |-> "sent", code |-> 0, value |-> NULL]
      BY <2>1 DEF NoLink
    <3> QED
      BY <3>1 DEF Links, Codes
  <2>3. LinkTypeOK'
    BY <1>3, <2>2 DEF Connect, TypeOK, LinkTypeOK
  <2>4. WorkerTypeOK'
    BY <1>3, JobFacts, RequestFacts DEF Connect, TypeOK, WorkerTypeOK
  <2> QED
    BY <1>3, <2>3, <2>4, SameTypes DEF Connect, TypeOK, ringVars, history
<1>4. CASE Return
  <2>1. job.key \in Keys /\ (job.op = "SET" => job.value \in Values)
    BY <1>4, JobFacts, RequestFacts DEF Return
  <2>2. link.store \in Stores \cup {NULL}
    BY DEF TypeOK, LinkTypeOK, Links
  <2>3. HistoryTypeOK'
    BY <1>4, <2>1, <2>2 DEF Return, Acknowledges, TypeOK, HistoryTypeOK
  <2>4. WorkerTypeOK' /\ LinkTypeOK'
    BY <1>4, <1>a, WorkerFree DEF Return
  <2> QED
    BY <1>4, <2>3, <2>4, SameTypes DEF Return, TypeOK, ringVars
<1>5. CASE ReturnNothing
  BY <1>5, <1>a, WorkerFree, SameTypes DEF ReturnNothing, Unanswered, TypeOK, ringVars, history
<1> QED
  BY <1>1, <1>2, <1>3, <1>4, <1>5 DEF Forward

LEMMA StoredFacts ==
  ASSUME StoreTypeOK, NEW s \in Stores, NEW r \in Requests
  PROVE  /\ Stored(s, r) \in [Stores -> [Keys -> Values \cup {NULL}]]
         /\ \A t \in Stores, k \in Keys : data[t][k] # NULL => Stored(s, r)[t][k] = data[t][k]
         /\ \A t \in Stores, k \in Keys :
              ~(r.op = "SET" /\ t = s /\ k = r.key) => Stored(s, r)[t][k] = data[t][k]
         /\ r.op = "SET" /\ data[s][r.key] = NULL => Stored(s, r)[s][r.key] = r.value
<1>1. r.key \in Keys /\ (r.op = "SET" => r.value \in Values)
  BY RequestFacts
<1>2. data \in [Stores -> [Keys -> Values \cup {NULL}]]
  BY DEF StoreTypeOK
<1> QED
  BY <1>1, <1>2 DEF Stored

LEMMA HandleType ==
  ASSUME TypeOK, UNCHANGED place, NEW s \in Stores, Handle(s)
  PROVE  TypeOK'
<1>1. worker = "read" /\ job \in Requests
  BY JobFacts DEF Handle
<1>2. StoreTypeOK'
  BY <1>1, StoredFacts DEF Handle, TypeOK, StoreTypeOK
<1>3. data[s][job.key] \in Values \cup {NULL}
  BY <1>1, RequestFacts DEF TypeOK, StoreTypeOK
<1>4. job.op \in {"SET", "GET"} /\ (job.op = "SET" => job.value \in Values)
  BY <1>1, RequestFacts
<1>5. link' \in Links /\ link'.state = "answered" /\ link'.store \in Stores
  <2>1. PICK code \in Codes, v \in Values \cup {NULL} :
          link' = [link EXCEPT !.state = "answered", !.code = code, !.value = v]
    <3> DEFINE held == data[s][job.key]
               code == CASE job.op = "SET" -> IF held = NULL THEN 200 ELSE 400
                         [] job.op = "GET" -> IF held = NULL THEN 404 ELSE 200
               v == IF job.op = "SET" THEN job.value ELSE held
    <3>1. code \in Codes
      BY <1>4 DEF Codes
    <3>2. v \in Values \cup {NULL}
      BY <1>3, <1>4
    <3>3. link' = [link EXCEPT !.state = "answered", !.code = code, !.value = v]
      BY DEF Handle
    <3> HIDE DEF code, v
    <3> QED
      BY <3>1, <3>2, <3>3
  <2>2. link \in Links /\ link.store = s
    BY DEF Handle, TypeOK, LinkTypeOK
  <2> QED
    BY <2>1, <2>2 DEF Links
<1>6. LinkTypeOK'
  BY <1>1, <1>5 DEF Handle, TypeOK, LinkTypeOK
<1> QED
  BY <1>2, <1>6, SameTypes DEF Handle, TypeOK, ringVars, history

LEMMA OrphanType ==
  ASSUME TypeOK, UNCHANGED place, HandleOrphan
  PROVE  TypeOK'
<1>1. orphan.store \in Stores /\ orphan.request \in Requests
  BY DEF HandleOrphan, TypeOK, LinkTypeOK
<1>2. StoreTypeOK'
  BY <1>1, StoredFacts DEF HandleOrphan, TypeOK, StoreTypeOK
<1>3. LinkTypeOK'
  BY DEF HandleOrphan, TypeOK, LinkTypeOK
<1> QED
  BY <1>2, <1>3, SameTypes DEF HandleOrphan, TypeOK, ringVars, history

\* A failure changes what is on its way from a store to the coordinator.
LEMMA LinkChanged ==
  ASSUME TypeOK, UNCHANGED worker, orphan' = orphan \/ orphan' = NULL,
         NEW state \in {"sent", "ignored", "answered", "stale", "reset"},
         link' = link \/ (link.state # "none" /\ link' = [link EXCEPT !.state = state])
  PROVE  LinkTypeOK'
<1>1. link' \in Links
  <2>1. link \in Links
    BY DEF TypeOK, LinkTypeOK
  <2>2. [link EXCEPT !.state = state] \in Links
    BY <2>1 DEF Links
  <2> QED
    BY <2>1, <2>2
<1>2. (link'.state = "none" <=> link.state = "none") /\ link'.store = link.store
  BY DEF TypeOK, LinkTypeOK, Links
<1>3. orphan' \in [store : Stores, request : Requests] \cup {NULL}
  BY DEF TypeOK, LinkTypeOK
<1> QED
  BY <1>1, <1>2, <1>3 DEF TypeOK, LinkTypeOK

LEMMA FailureType ==
  ASSUME TypeOK, UNCHANGED place, Failure
  PROVE  TypeOK'
<1>a. Fails => faults' \in 0..MaxFaults
  BY NullFacts DEF Fails, TypeOK, HistoryTypeOK
<1>1. ASSUME NEW s \in Stores, Ignore(s) PROVE TypeOK'
  <2>1. LinkTypeOK'
    BY <1>1, LinkChanged DEF Ignore
  <2>2. HistoryTypeOK'
    BY <1>1, <1>a DEF Ignore, TypeOK, HistoryTypeOK
  <2> QED
    BY <1>1, <2>1, <2>2, SameTypes DEF Ignore, TypeOK, ringVars
<1>2. ASSUME NEW s \in Stores, Crash(s) PROVE TypeOK'
  <2>1. LinkTypeOK'
    BY <1>2, LinkChanged DEF Crash, Outdated
  <2>2. StoreTypeOK'
    BY <1>2 DEF Crash, TypeOK, StoreTypeOK
  <2>3. HistoryTypeOK'
    BY <1>2, <1>a DEF Crash, TypeOK, HistoryTypeOK
  <2> QED
    BY <1>2, <2>1, <2>2, <2>3, SameTypes DEF Crash, TypeOK, ringVars
<1>3. ASSUME NEW s \in Stores, Restart(s) PROVE TypeOK'
  <2>1. StoreTypeOK'
    BY <1>3 DEF Restart, TypeOK, StoreTypeOK
  <2> QED
    BY <1>3, <2>1, SameTypes DEF Restart, TypeOK, ringVars, history
<1>4. ASSUME NEW s \in Stores, NEW k \in Keys, RemoveAt(s, k) PROVE TypeOK'
  <2>1. LinkTypeOK'
    BY <1>4, LinkChanged DEF RemoveAt, Outdated
  <2>2. StoreTypeOK'
    BY <1>4 DEF RemoveAt, TypeOK, StoreTypeOK
  <2>3. HistoryTypeOK'
    BY <1>4, <1>a DEF RemoveAt, TypeOK, HistoryTypeOK
  <2> QED
    BY <1>4, <2>1, <2>2, <2>3, SameTypes DEF RemoveAt, TypeOK, ringVars
<1>5. CASE RestartCoordinator
  <2>1. orphan' \in [store : Stores, request : Requests] \cup {NULL}
    <3>1. CASE link.state = "sent"
      <4>1. job \in Requests /\ link.store \in Stores
        BY <3>1, JobFacts DEF TypeOK, LinkTypeOK
      <4> QED
        BY <1>5, <3>1, <4>1 DEF RestartCoordinator
    <3>2. CASE link.state # "sent"
      BY <1>5, <3>2 DEF RestartCoordinator
    <3> QED
      BY <3>1, <3>2
  <2>2. RingTypeOK'
    BY <1>5, NullFacts DEF RestartCoordinator, Placed, TypeOK, RingTypeOK
  <2>3. WorkerTypeOK'
    BY <1>5, NullFacts DEF RestartCoordinator, WorkerTypeOK
  <2>4. LinkTypeOK'
    BY <1>5, <2>1, NoLinkType DEF RestartCoordinator, LinkTypeOK
  <2>5. HistoryTypeOK'
    BY <1>5, <1>a DEF RestartCoordinator, TypeOK, HistoryTypeOK
  <2> QED
    BY <1>5, <2>2, <2>3, <2>4, <2>5, SameTypes DEF RestartCoordinator, TypeOK
<1> QED
  BY <1>1, <1>2, <1>3, <1>4, <1>5 DEF Failure

LEMMA TypeStep ==
  ASSUME TypeOK, [Next]_vars
  PROVE  TypeOK'
<1>1. CASE UNCHANGED vars
  BY <1>1, SameTypes DEF vars, TypeOK, ringVars, history
<1>2. CASE Next
  BY <1>2, ArrivesType, ForwardType, HandleType, OrphanType, FailureType DEF Next
<1> QED
  BY <1>1, <1>2

-----------------------------------------------------------------------------
(* Every step keeps the invariant.                                         *)

LEMMA TypeFacts ==
  ASSUME TypeOK
  PROVE  /\ place \in Places /\ DOMAIN route = Keys
         /\ data \in [Stores -> [Keys -> Values \cup {NULL}]]
         /\ acked \in [Keys -> Values \cup {NULL}]
         /\ home \in [Keys -> Stores \cup {NULL}]
         /\ restarted \in BOOLEAN
BY DEF TypeOK, RingTypeOK, StoreTypeOK, HistoryTypeOK

\* The parts of the invariant that a step leaves alone.
LEMMA SameParts ==
  ASSUME IInv
  PROVE  /\ UNCHANGED <<place, job, route, worker, link>> => Linked'
         /\ UNCHANGED <<worker, link, job, data, restarted, home, lost>> => AnswerTrue'
         /\ UNCHANGED <<restarted, orphan, route, job, worker, link, data>> => SentOnce'
         /\ UNCHANGED <<place, acked, home, restarted, moved, route>> => RoutedHome'
         /\ UNCHANGED <<acked, home, lost, data>> => AckedHeld'
         /\ UNCHANGED <<restarted, data>> => OneCopy'
<1>1. UNCHANGED <<place, job, route, worker, link>> => Linked'
  BY DEF IInv, Safe, Linked, Address
<1>2. UNCHANGED <<worker, link, job, data, restarted, home, lost>> => AnswerTrue'
  BY DEF IInv, Safe, AnswerTrue
<1>3. UNCHANGED <<restarted, orphan, route, job, worker, link, data>> => SentOnce'
  BY DEF IInv, Safe, SentOnce, SetUnderWay
<1>4. UNCHANGED <<place, acked, home, restarted, moved, route>> => RoutedHome'
  BY DEF IInv, Safe, RoutedHome, Address
<1>5. UNCHANGED <<acked, home, lost, data>> => AckedHeld'
  BY DEF IInv, Safe, AckedHeld
<1>6. UNCHANGED <<restarted, data>> => OneCopy'
  BY DEF IInv, Safe, OneCopy
<1> QED
  BY <1>1, <1>2, <1>3, <1>4, <1>5, <1>6

\* A worker without a request and a connection knows nothing.
LEMMA WorkerIdle ==
  ASSUME IInv, job' = NULL, worker' # "read"
  PROVE  /\ Linked' /\ AnswerTrue'
         /\ UNCHANGED <<restarted, orphan, route, data>> => SentOnce'
BY DEF IInv, Safe, Linked, AnswerTrue, SentOnce, SetUnderWay

LEMMA InitSafe ==
  ASSUME Init
  PROVE  IInv
<1>1. RingTypeOK
  BY NullFacts DEF Init, RingTypeOK, Placed
<1>2. WorkerTypeOK
  BY NullFacts DEF Init, WorkerTypeOK
<1>3. LinkTypeOK
  BY NoLinkType DEF Init, LinkTypeOK
<1>4. StoreTypeOK
  BY DEF Init, StoreTypeOK
<1>5. HistoryTypeOK
  <2>1. /\ acked \in [Keys -> Values \cup {NULL}] /\ home \in [Keys -> Stores \cup {NULL}]
        /\ lost \subseteq Keys /\ moved \subseteq Keys
    BY DEF Init
  <2>2. restarted \in BOOLEAN
    BY DEF Init
  <2>3. faults \in 0..MaxFaults
    BY NullFacts DEF Init
  <2> QED
    BY <2>1, <2>2, <2>3 DEF HistoryTypeOK
<1>6. Safe
  BY DEF Init, Safe, Linked, AnswerTrue, SentOnce, SetUnderWay, RoutedHome, AckedHeld, OneCopy
<1> QED
  BY <1>1, <1>2, <1>3, <1>4, <1>5, <1>6 DEF IInv, TypeOK

LEMMA SetSafe ==
  ASSUME IInv, UNCHANGED place, NEW k \in Keys, NEW v \in Values, Set(k, v)
  PROVE  Safe'
<1> DEFINE s == Owner(k, servers)
<1>1. s \in Stores
  <2>1. servers \in SUBSET Stores /\ servers # {}
    BY DEF IInv, Set, TypeOK, RingTypeOK
  <2> QED
    BY <2>1, OwnerType
<1>2. Address(s) # NULL
  BY <1>1, AddressFacts, TypeFacts DEF IInv
<1> HIDE DEF s
<1>3. /\ route[k] = NULL /\ worker' = "connect"
      /\ route' = [route EXCEPT ![k] = Address(s)]
      /\ job' = [op |-> "SET", key |-> k, value |-> v]
      /\ UNCHANGED <<data, link, orphan, acked, home, lost, moved, restarted>>
  BY DEF Set, history, s
<1>4. Linked' /\ AnswerTrue'
  BY <1>2, <1>3, TypeFacts DEF IInv, Linked, AnswerTrue
<1>5. SentOnce'
  BY <1>2, <1>3, TypeFacts DEF IInv, Safe, SentOnce, SetUnderWay
<1>6. RoutedHome'
  <2> SUFFICES ASSUME NEW l \in Keys, acked[l] # NULL
               PROVE  /\ home[l] \in Stores
                      /\ ~restarted /\ l \notin moved => route'[l] = Address(home[l])
    BY <1>3 DEF RoutedHome, Address
  <2>1. home[l] \in Stores /\ (~restarted /\ l \notin moved => route[l] = Address(home[l]))
    BY DEF IInv, Safe, RoutedHome
  <2>2. Address(home[l]) # NULL
    BY <2>1, AddressFacts, TypeFacts DEF IInv
  <2> QED
    BY <1>3, <2>1, <2>2, TypeFacts DEF IInv
<1> QED
  BY <1>3, <1>4, <1>5, <1>6, SameParts DEF Safe

LEMMA RingChangedSafe ==
  ASSUME IInv, UNCHANGED place, NEW s \in Stores, worker = "take",
         UNCHANGED <<worker, job, data, link, orphan, acked, home, lost, restarted>>,
         route' \in {RouteAdded(s), RouteDeleted(s)}, Moves
  PROVE  Safe'
<1>1. job = NULL
  BY JobFacts DEF IInv
<1>2. ASSUME NEW k \in Keys
      PROVE  /\ route'[k] = NULL => route[k] = NULL
             /\ k \notin moved' => k \notin moved /\ route'[k] = route[k]
  <2>1. route'[k] = route[k] \/ Recorded(route'[k])
    BY RoutesType DEF IInv
  <2>2. Recorded(route'[k]) => route'[k] # NULL
    BY AddressFacts, TypeFacts DEF IInv, Recorded
  <2> QED
    BY <2>1, <2>2 DEF Moves
<1>3. Linked' /\ AnswerTrue'
  BY <1>1, WorkerIdle
<1>4. SentOnce'
  BY <1>1, <1>2 DEF IInv, Safe, SentOnce, SetUnderWay
<1>5. RoutedHome'
  BY <1>2 DEF IInv, Safe, RoutedHome, Address
<1> QED
  BY <1>3, <1>4, <1>5, SameParts DEF Safe

LEMMA ArrivesSafe ==
  ASSUME IInv, UNCHANGED place, Arrives
  PROVE  Safe'
<1>1. ASSUME NEW k \in Keys, SetSpins(k) PROVE Safe'
  <2>1. job = NULL
    BY <1>1, JobFacts DEF IInv, SetSpins
  <2> QED
    BY <1>1, <2>1, WorkerIdle, SameParts DEF SetSpins, Safe, ringVars, history
<1>2. ASSUME NEW k \in Keys, Get(k) PROVE Safe'
  <2>1. CASE route[k] = NULL
    BY <1>2, <2>1, SameParts DEF Get, Safe, ringVars, history
  <2>2. CASE route[k] # NULL
    <3>1. /\ job' = [op |-> "GET", key |-> k, value |-> NULL] /\ worker' = "connect"
          /\ UNCHANGED <<route, data, link, orphan, acked, home, lost, moved, restarted>>
      BY <1>2, <2>2 DEF Get, ringVars, history
    <3>2. Linked' /\ AnswerTrue'
      BY <2>2, <3>1 DEF Linked, AnswerTrue
    <3>3. SentOnce'
      BY <3>1 DEF IInv, Safe, SentOnce, SetUnderWay
    <3> QED
      BY <3>1, <3>2, <3>3, SameParts DEF Safe
  <2> QED
    BY <2>1, <2>2
<1>3. ASSUME NEW k \in Keys, NEW v \in Values, Set(k, v) PROVE Safe'
  BY <1>3, SetSafe
<1>4. ASSUME NEW k \in Keys, NEW v \in Values, SetRefused(k, v) PROVE Safe'
  BY <1>4, SameParts DEF SetRefused, Safe, ringVars, history
<1>5. ASSUME NEW s \in Stores, Add(s) PROVE Safe'
  <2>1. CASE s \in servers
    BY <1>5, <2>1, SameParts DEF Add, Safe, ringVars
  <2>2. CASE s \notin servers
    BY <1>5, <2>2, RingChangedSafe DEF Add
  <2> QED
    BY <2>1, <2>2
<1>6. ASSUME NEW s \in Stores, Del(s) PROVE Safe'
  <2>1. CASE s \notin servers
    BY <1>6, <2>1, SameParts DEF Del, Safe, ringVars
  <2>2. CASE s \in servers
    BY <1>6, <2>2, RingChangedSafe DEF Del
  <2> QED
    BY <2>1, <2>2
<1>7. ASSUME NEW op \in {"REM", "SYNC"}, Other(op) PROVE Safe'
  BY <1>7, SameParts DEF Other, Safe, ringVars, history
<1> QED
  BY <1>1, <1>2, <1>3, <1>4, <1>5, <1>6, <1>7 DEF Arrives

LEMMA ReturnSafe ==
  ASSUME IInv, UNCHANGED place, Return
  PROVE  Safe'
<1>1. /\ worker = "read" /\ worker' = "take" /\ job' = NULL
      /\ link.state \in {"answered", "stale"}
      /\ UNCHANGED <<route, data, orphan, moved, restarted>>
  BY DEF Return, ringVars
<1>2. job \in Requests /\ job.key \in Keys /\ link.store \in Stores
  BY <1>1, JobFacts, RequestFacts DEF IInv, TypeOK, LinkTypeOK
<1>3. Linked' /\ AnswerTrue' /\ SentOnce'
  BY <1>1, WorkerIdle
<1>4. CASE ~Acknowledges
  <2>1. UNCHANGED <<acked, home, lost>>
    BY <1>4 DEF Return
  <2> QED
    BY <1>1, <1>3, <2>1, SameParts DEF Safe
<1>5. CASE Acknowledges
  <2>1. /\ acked' = [acked EXCEPT ![job.key] = job.value]
        /\ home' = [home EXCEPT ![job.key] = link.store]
        /\ lost' = IF link.state = "stale" THEN lost \cup {job.key} ELSE lost \ {job.key}
    BY <1>5 DEF Return
  <2>2. RoutedHome'
    BY <1>1, <1>2, <2>1, TypeFacts DEF IInv, Safe, RoutedHome, Linked, Address
  <2>3. AckedHeld'
    <3> SUFFICES ASSUME NEW k \in Keys, acked'[k] # NULL, k \notin lost'
                 PROVE  data[home'[k]][k] = acked'[k]
      BY <1>1 DEF AckedHeld
    <3>1. CASE k = job.key
      BY <1>1, <1>2, <1>5, <2>1, <3>1, TypeFacts DEF IInv, Safe, AnswerTrue, Acknowledges
    <3>2. CASE k # job.key
      BY <1>2, <2>1, <3>2, TypeFacts DEF IInv, Safe, AckedHeld
    <3> QED
      BY <3>1, <3>2
  <2> QED
    BY <1>1, <1>3, <2>2, <2>3, SameParts DEF Safe
<1> QED
  BY <1>4, <1>5

LEMMA ForwardSafe ==
  ASSUME IInv, UNCHANGED place, Forward
  PROVE  Safe'
<1>1. CASE Unresolved
  BY <1>1, WorkerIdle, SameParts DEF Unresolved, Unanswered, Safe, ringVars, history
<1>2. CASE Refused
  BY <1>2, WorkerIdle, SameParts DEF Refused, Unanswered, Safe, ringVars, history
<1>3. CASE Connect
  <2>1. PICK s \in servers : /\ Address(s) = route[job.key]
                             /\ link' = [NoLink EXCEPT !.store = s, !.state = "sent"]
    BY <1>3 DEF Connect, Resolve
  <2>2. link'.state = "sent" /\ link'.store = s
    BY <2>1 DEF NoLink
  <2>3. /\ worker = "connect" /\ worker' = "read"
        /\ UNCHANGED <<route, job, data, orphan, acked, home, lost, moved, restarted>>
    BY <1>3 DEF Connect, ringVars, history
  <2>4. Linked' /\ AnswerTrue'
    BY <2>1, <2>2, <2>3 DEF IInv, Safe, Linked, AnswerTrue, Address
  <2>5. SentOnce'
    BY <2>2, <2>3 DEF IInv, Safe, SentOnce, SetUnderWay
  <2> QED
    BY <2>3, <2>4, <2>5, SameParts DEF Safe
<1>4. CASE Return
  BY <1>4, ReturnSafe
<1>5. CASE ReturnNothing
  BY <1>5, WorkerIdle, SameParts DEF ReturnNothing, Unanswered, Safe, ringVars, history
<1> QED
  BY <1>1, <1>2, <1>3, <1>4, <1>5 DEF Forward

\* A store that handles a SET changes no value that is held.
LEMMA StoredHeld ==
  ASSUME IInv, NEW s \in Stores, NEW r \in Requests, data' = Stored(s, r),
         UNCHANGED <<acked, home, lost>>
  PROVE  AckedHeld'
<1> SUFFICES ASSUME NEW k \in Keys, acked[k] # NULL, k \notin lost
             PROVE  data'[home[k]][k] = acked[k]
  BY DEF AckedHeld
<1>1. home[k] \in Stores /\ data[home[k]][k] = acked[k]
  BY DEF IInv, Safe, AckedHeld, RoutedHome
<1> QED
  BY <1>1, StoredFacts DEF IInv, TypeOK

LEMMA HandleSafe ==
  ASSUME IInv, UNCHANGED place, NEW s \in Stores, Handle(s)
  PROVE  Safe'
<1> DEFINE held == data[s][job.key]
<1>1. /\ worker = "read" /\ job \in Requests /\ job.key \in Keys /\ job # NULL
      /\ job.op \in {"SET", "GET"} /\ (job.op = "SET" => job.value \in Values)
      /\ link.store = s /\ link.state = "sent"
  BY JobFacts, RequestFacts DEF IInv, Handle
<1>2. /\ data' = Stored(s, job)
      /\ UNCHANGED <<worker, job, route, orphan, acked, home, lost, moved, restarted>>
  BY DEF Handle, ringVars, history
<1>3. /\ link'.state = "answered" /\ link'.store = s
      /\ job.op = "SET" => (link'.code = 200 => held = NULL)
      /\ job.op = "GET" => link'.value = held /\ (held # NULL => link'.code = 200)
  <2>1. link \in Links
    BY DEF IInv, TypeOK, LinkTypeOK
  <2> QED
    BY <1>1, <2>1 DEF Handle, Links
<1>4. /\ \A t \in Stores, k \in Keys :
           ~(job.op = "SET" /\ t = s /\ k = job.key) => data'[t][k] = data[t][k]
      /\ job.op = "SET" /\ held = NULL => data'[s][job.key] = job.value
  <2>1. StoreTypeOK /\ job \in Requests
    BY <1>1, JobFacts DEF IInv, TypeOK, Handle
  <2> QED
    BY <1>2, <2>1, StoredFacts
<1> HIDE DEF held
<1>5. Linked'
  BY <1>1, <1>2, <1>3 DEF IInv, Safe, Linked, Address
<1>6. AnswerTrue'
  <2>1. job.op = "GET" => data'[s][job.key] = held
    BY <1>1, <1>4 DEF held
  <2> QED
    BY <1>1, <1>2, <1>3, <1>4, <2>1 DEF AnswerTrue
<1>7. SentOnce'
  BY <1>1, <1>2, <1>3, <1>4 DEF IInv, Safe, SentOnce, SetUnderWay, Linked
<1>8. AckedHeld'
  BY <1>1, <1>2, StoredHeld
<1>9. OneCopy'
  <2> SUFFICES ASSUME ~restarted, NEW k \in Keys, NEW t \in Stores, NEW u \in Stores,
                      data'[t][k] # NULL, data'[u][k] # NULL
               PROVE  t = u
    BY <1>2 DEF OneCopy
  <2>1. CASE job.op = "SET" /\ k = job.key
    BY <1>1, <1>4, <2>1 DEF IInv, Safe, SentOnce, SetUnderWay
  <2>2. CASE ~(job.op = "SET" /\ k = job.key)
    BY <1>4, <2>2 DEF IInv, Safe, OneCopy
  <2> QED
    BY <2>1, <2>2
<1> QED
  BY <1>2, <1>5, <1>6, <1>7, <1>8, <1>9, SameParts DEF Safe

LEMMA OrphanSafe ==
  ASSUME IInv, UNCHANGED place, HandleOrphan
  PROVE  Safe'
<1>1. orphan.store \in Stores /\ orphan.request \in Requests /\ restarted
  BY DEF HandleOrphan, IInv, TypeOK, LinkTypeOK, Safe, SentOnce
<1>2. /\ data' = Stored(orphan.store, orphan.request) \/ data' = data
      /\ UNCHANGED <<worker, job, route, link, acked, home, lost, moved, restarted>>
  BY DEF HandleOrphan, ringVars, history
<1>3. SentOnce' /\ OneCopy'
  BY <1>1, <1>2 DEF SentOnce, OneCopy
<1>4. AckedHeld'
  BY <1>1, <1>2, StoredHeld, SameParts
<1>5. AnswerTrue'
  <2>1. ASSUME worker = "read", link.state = "answered", job.op = "SET", link.code = 200
        PROVE  data'[link.store][job.key] = job.value
    <3>1. link.store \in Stores /\ job.key \in Keys /\ job.value # NULL
      BY <2>1, JobFacts, RequestFacts, NullFacts DEF IInv, TypeOK, LinkTypeOK
    <3>2. data[link.store][job.key] = job.value
      BY <2>1 DEF IInv, Safe, AnswerTrue
    <3> QED
      BY <1>1, <1>2, <3>1, <3>2, StoredFacts DEF IInv, TypeOK
  <2> QED
    BY <1>1, <1>2, <2>1 DEF IInv, Safe, AnswerTrue
<1> QED
  BY <1>2, <1>3, <1>4, <1>5, SameParts DEF Safe

\* A store forgets some of its keys: all when it dies, one when it is told to
\* remove it.  What it had answered is outdated.
LEMMA ForgetSafe ==
  ASSUME IInv, UNCHANGED <<place, worker, job, route, acked, home, moved, restarted>>,
         NEW s \in Stores, NEW ks \in SUBSET Keys,
         \A t \in Stores, k \in Keys :
           data'[t][k] = IF t = s /\ k \in ks THEN NULL ELSE data[t][k],
         lost' = lost \cup {k \in ks : home[k] = s},
         orphan' = orphan \/ orphan' = NULL,
         \/ link' = Outdated(s, ks)
         \/ link.state \in {"sent", "ignored"} /\ link' = [link EXCEPT !.state = "reset"]
  PROVE  Safe'
<1>1. link \in Links
  BY DEF IInv, TypeOK, LinkTypeOK
<1>2. /\ link'.store = link.store /\ link'.code = link.code /\ link'.value = link.value
      /\ link'.state = "sent" => link.state = "sent"
      /\ link'.state = "answered" =>
           link.state = "answered" /\ ~(link.store = s /\ job.key \in ks)
      /\ link'.state = "stale" =>
           link.state = "stale" \/ (link.store = s /\ job.key \in ks)
  BY <1>1 DEF Outdated, Links
<1>3. Linked'
  BY <1>2 DEF IInv, Safe, Linked, Address
<1>4. AnswerTrue'
  <2> SUFFICES ASSUME worker = "read" PROVE AnswerTrue'
    BY DEF AnswerTrue
  <2>1. link.store \in Stores /\ job.key \in Keys
    BY JobFacts, RequestFacts DEF IInv, TypeOK, LinkTypeOK
  <2>2. link'.state = "answered" => data'[link.store][job.key] = data[link.store][job.key]
    BY <1>2, <2>1
  <2> QED
    BY <1>2, <2>1, <2>2 DEF IInv, Safe, AnswerTrue
<1>5. SentOnce'
  BY <1>2 DEF IInv, Safe, SentOnce, SetUnderWay
<1>6. RoutedHome'
  BY SameParts
<1>7. AckedHeld'
  BY DEF IInv, Safe, AckedHeld, RoutedHome
<1>8. OneCopy'
  BY DEF IInv, Safe, OneCopy
<1> QED
  BY <1>3, <1>4, <1>5, <1>6, <1>7, <1>8 DEF Safe

LEMMA FailureSafe ==
  ASSUME IInv, UNCHANGED place, Failure
  PROVE  Safe'
<1>1. ASSUME NEW s \in Stores, Ignore(s) PROVE Safe'
  <2>1. /\ link' = [link EXCEPT !.state = "ignored"]
        /\ UNCHANGED <<route, worker, job, data, orphan, acked, home, lost, moved, restarted>>
    BY <1>1 DEF Ignore, ringVars
  <2>2. link'.state = "ignored" /\ link'.store = link.store
    BY <2>1 DEF IInv, TypeOK, LinkTypeOK, Links
  <2>3. Linked' /\ AnswerTrue' /\ SentOnce'
    BY <2>1, <2>2 DEF IInv, Safe, Linked, AnswerTrue, SentOnce, SetUnderWay, Address
  <2> QED
    BY <2>1, <2>3, SameParts DEF Safe
<1>2. ASSUME NEW s \in Stores, Crash(s) PROVE Safe'
  <2>1. \A t \in Stores, k \in Keys :
          data'[t][k] = IF t = s /\ k \in Keys THEN NULL ELSE data[t][k]
    BY <1>2, TypeFacts DEF Crash, IInv
  <2>2. /\ lost' = lost \cup {k \in Keys : home[k] = s}
        /\ orphan' = orphan \/ orphan' = NULL
        /\ \/ link' = Outdated(s, Keys)
           \/ link.state \in {"sent", "ignored"} /\ link' = [link EXCEPT !.state = "reset"]
        /\ UNCHANGED <<worker, job, route, acked, home, moved, restarted>>
    BY <1>2 DEF Crash, ringVars
  <2> QED
    BY <2>1, <2>2, ForgetSafe
<1>3. ASSUME NEW s \in Stores, Restart(s) PROVE Safe'
  BY <1>3, SameParts DEF Restart, Safe, ringVars, history
<1>4. ASSUME NEW s \in Stores, NEW k \in Keys, RemoveAt(s, k) PROVE Safe'
  <2>1. \A t \in Stores, l \in Keys :
          data'[t][l] = IF t = s /\ l \in {k} THEN NULL ELSE data[t][l]
    BY <1>4, TypeFacts DEF RemoveAt, IInv
  <2>2. /\ lost' = lost \cup {l \in {k} : home[l] = s}
        /\ link' = Outdated(s, {k})
        /\ UNCHANGED <<worker, job, route, orphan, acked, home, moved, restarted>>
    BY <1>4 DEF RemoveAt, ringVars
  <2> QED
    BY <2>1, <2>2, ForgetSafe
<1>5. CASE RestartCoordinator
  <2>1. /\ worker' = "take" /\ job' = NULL /\ restarted'
        /\ UNCHANGED <<data, acked, home, lost, moved>>
    BY <1>5 DEF RestartCoordinator
  <2>2. SentOnce' /\ OneCopy'
    BY <2>1 DEF SentOnce, OneCopy
  <2>3. RoutedHome'
    BY <2>1 DEF IInv, Safe, RoutedHome
  <2> QED
    BY <2>1, <2>2, <2>3, WorkerIdle, SameParts DEF Safe
<1> QED
  BY <1>1, <1>2, <1>3, <1>4, <1>5 DEF Failure

LEMMA NextSafe ==
  ASSUME IInv, [Next]_vars
  PROVE  IInv'
<1>1. TypeOK'
  BY TypeStep DEF IInv
<1>2. CASE UNCHANGED vars
  BY <1>1, <1>2, SameParts DEF vars, IInv, Safe, ringVars, history
<1>3. CASE Next
  BY <1>1, <1>3, ArrivesSafe, ForwardSafe, HandleSafe, OrphanSafe, FailureSafe DEF Next, IInv
<1> QED
  BY <1>2, <1>3

LEMMA Invariant == Spec => []IInv
<1>1. Init => IInv
  BY InitSafe
<1>2. IInv /\ [Next]_vars => IInv'
  BY NextSafe
<1> QED
  BY <1>1, <1>2, PTL DEF Spec

-----------------------------------------------------------------------------
(* What follows.                                                           *)

(* Requests, connection, tables and ring keep their types, so the worker   *)
(* never reads from a connection it has not, or forwards no request.       *)
THEOREM TypeCorrect == Spec => []TypeOK
<1>1. IInv => TypeOK
  BY DEF IInv
<1> QED
  BY <1>1, Invariant, PTL

(* A value that was acknowledged stays at the store that took it until the *)
(* store dies or is told to remove it, whatever the coordinator goes       *)
(* through.                                                                *)
THEOREM AckedStaysHeld == Spec => []AckedHeld
<1>1. IInv => AckedHeld
  BY DEF IInv, Safe
<1> QED
  BY <1>1, Invariant, PTL

(* No key is at two stores while the coordinator keeps its ring: what it   *)
(* refuses in SET makes up for never moving data.                          *)
THEOREM OneCopyCorrect == Spec => []OneCopy
<1>1. IInv => OneCopy
  BY DEF IInv, Safe
<1> QED
  BY <1>1, Invariant, PTL

\* The answer to a GET on its way is the acknowledged value.
LEMMA ReturnsAcknowledged ==
  ASSUME IInv, NEW k \in Keys, Return, AnswersGet(k)
  PROVE  reply'.code = 200 /\ reply'.value = acked[k]
<1>1. /\ worker = "read" /\ link.state \in {"answered", "stale"}
      /\ reply' = Answer(job.op, job.key, link.code, link.value, "none")
  BY DEF Return
<1>2. /\ job.op = "GET" /\ job.key = k /\ reply'.code = link.code /\ reply'.value = link.value
  BY <1>1 DEF Answer, AnswersGet
<1>3. link.store \in Stores /\ home[k] \in Stores
  BY <1>1, JobFacts DEF IInv, TypeOK, LinkTypeOK, Safe, RoutedHome, AnswersGet
<1>4. Address(link.store) = Address(home[k])
  BY <1>1, <1>2 DEF IInv, Safe, Linked, RoutedHome, AnswersGet
<1>5. link.store = home[k]
  BY <1>3, <1>4, AddressFacts, TypeFacts DEF IInv
<1>6. link.state = "answered"
  BY <1>1, <1>2, <1>5 DEF IInv, Safe, AnswerTrue, AnswersGet
<1>7. data[home[k]][k] = acked[k]
  BY DEF IInv, Safe, AckedHeld, AnswersGet
<1>8. link.value = acked[k] /\ (link.value # NULL => link.code = 200)
  BY <1>1, <1>2, <1>5, <1>6, <1>7 DEF IInv, Safe, AnswerTrue, AnswersGet
<1> QED
  BY <1>2, <1>8 DEF AnswersGet

LEMMA GetStep ==
  ASSUME IInv, UNCHANGED place, NEW k \in Keys, Next, AnswersGet(k)
  PROVE  reply'.code = 200 /\ reply'.value = acked[k]
<1>a. reply' # reply /\ reply'.op = "GET" /\ reply'.key = k /\ reply'.code # 0
  BY DEF AnswersGet
<1>1. ASSUME NEW l \in Keys, Get(l) PROVE FALSE
  <2>1. l = k /\ route[k] = NULL
    BY <1>1, <1>a DEF Get, Replies, Answer
  <2>2. home[k] \in Stores /\ route[k] = Address(home[k])
    BY DEF IInv, Safe, RoutedHome, AnswersGet
  <2> QED
    BY <2>1, <2>2, AddressFacts, TypeFacts DEF IInv
<1>2. ASSUME NEW l \in Keys, NEW v \in Values, Set(l, v) \/ SetRefused(l, v) PROVE FALSE
  BY <1>2, <1>a DEF Set, SetRefused, Replies, Answer
<1>3. ASSUME NEW s \in Stores, Add(s) \/ Del(s) PROVE FALSE
  BY <1>3, <1>a DEF Add, Del, Replies, Answer
<1>4. ASSUME NEW op \in {"REM", "SYNC"}, Other(op) PROVE FALSE
  BY <1>4, <1>a DEF Other, Replies, Answer
<1>5. ASSUME NEW l \in Keys, SetSpins(l) PROVE FALSE
  BY <1>5, <1>a DEF SetSpins
<1>6. CASE Arrives
  BY <1>6, <1>1, <1>2, <1>3, <1>4, <1>5 DEF Arrives
<1>7. CASE Unresolved \/ Refused \/ ReturnNothing
  BY <1>7, <1>a DEF Unresolved, Refused, ReturnNothing, Unanswered, Answer
<1>8. CASE Connect
  BY <1>8, <1>a DEF Connect
<1>9. CASE Return
  BY <1>9, ReturnsAcknowledged
<1>10. CASE (\E s \in Stores : Handle(s)) \/ HandleOrphan
  BY <1>10, <1>a DEF Handle, HandleOrphan
<1>11. CASE Failure
  BY <1>11, <1>a DEF Failure, Ignore, Crash, Restart, RemoveAt, RestartCoordinator
<1> QED
  BY <1>6, <1>7, <1>8, <1>9, <1>10, <1>11 DEF Next, Forward

(* A GET never misses an acknowledged value, nor finds another, unless the *)
(* store lost it, ADD or DEL moved the key or the ring was lost.           *)
THEOREM GetsCorrect == Spec => GetsAcknowledged
<1>1. IInv /\ [Next]_vars =>
        [\A k \in Keys : AnswersGet(k) => reply'.code = 200 /\ reply'.value = acked[k]]_vars
  BY GetStep DEF Next
<1> QED
  BY <1>1, Invariant, PTL DEF Spec, GetsAcknowledged

-----------------------------------------------------------------------------
(* Coordinator and stores together are one map.                            *)

\* A value is at the store its key is sent to, unless ADD or DEL moved the key.
DataRouted ==
  ~restarted =>
    \A k \in Keys \ moved, s \in Stores : data[s][k] # NULL => route[k] = Address(s)

\* Before the first failure every store runs and gives the answer due.
Quiet ==
  faults = 0 =>
    /\ ~restarted /\ orphan = NULL /\ leaked = 0
    /\ \A s \in Stores : up[s]
    /\ link.state \in {"none", "sent", "answered"}
    /\ link.state = "answered" =>
         /\ job.op = "SET" => link.code = 200 /\ link.value = job.value
         /\ job.op = "GET" => link.code = IF link.value = NULL THEN 404 ELSE 200

LInv == IInv /\ DataRouted /\ Quiet

LEMMA DataRoutedStep ==
  ASSUME IInv, DataRouted, [Next]_vars
  PROVE  DataRouted'
<1> SUFFICES ASSUME ~restarted', NEW k \in Keys, k \notin moved', NEW s \in Stores,
                    data'[s][k] # NULL
             PROVE  route'[k] = Address(s)'
  BY DEF DataRouted
<1>a. Address(s)' = Address(s) /\ DOMAIN route = Keys
  BY TypeFacts DEF IInv, Next, vars, Address
<1>b. ~restarted /\ k \notin moved /\ data[s][k] # NULL => route[k] = Address(s)
  BY DEF DataRouted
<1>1. CASE UNCHANGED vars
  BY <1>a, <1>b, <1>1 DEF vars, ringVars, history
<1>2. ASSUME NEW l \in Keys, SetSpins(l) \/ Get(l) PROVE route'[k] = Address(s)'
  BY <1>a, <1>b, <1>2 DEF SetSpins, Get, ringVars, history
<1>3. ASSUME NEW l \in Keys, NEW v \in Values, Set(l, v) PROVE route'[k] = Address(s)'
  <2>1. /\ route[l] = NULL /\ ~restarted /\ k \notin moved /\ data[s][k] # NULL
        /\ k # l => route'[k] = route[k]
    BY <1>3, <1>a DEF Set, history
  <2>2. k # l
    BY <2>1 DEF IInv, Safe, SentOnce
  <2> QED
    BY <1>a, <1>b, <2>1, <2>2
<1>4. ASSUME NEW l \in Keys, NEW v \in Values, SetRefused(l, v) PROVE route'[k] = Address(s)'
  BY <1>a, <1>b, <1>4 DEF SetRefused, ringVars, history
<1>5. ASSUME NEW t \in Stores, Add(t) \/ Del(t) PROVE route'[k] = Address(s)'
  <2>1. UNCHANGED <<restarted, data>>
    BY <1>5 DEF Add, Del
  <2>2. UNCHANGED <<ringVars, moved>> \/ Moves
    BY <1>5 DEF Add, Del
  <2>3. k \notin moved /\ route'[k] = route[k]
    BY <2>2 DEF Moves, ringVars
  <2> QED
    BY <1>a, <1>b, <2>1, <2>3
<1>6. ASSUME NEW op \in {"REM", "SYNC"}, Other(op) PROVE route'[k] = Address(s)'
  BY <1>a, <1>b, <1>6 DEF Other, ringVars, history
<1>7. CASE Forward
  <2>1. CASE Unresolved
    BY <1>a, <1>b, <2>1 DEF Unresolved, ringVars, history
  <2>2. CASE Refused
    BY <1>a, <1>b, <2>2 DEF Refused, ringVars, history
  <2>3. CASE Connect
    BY <1>a, <1>b, <2>3 DEF Connect, ringVars, history
  <2>4. CASE Return
    BY <1>a, <1>b, <2>4 DEF Return, ringVars
  <2>5. CASE ReturnNothing
    BY <1>a, <1>b, <2>5 DEF ReturnNothing, ringVars, history
  <2> QED
    BY <1>7, <2>1, <2>2, <2>3, <2>4, <2>5 DEF Forward
<1>8. ASSUME NEW t \in Stores, Handle(t) PROVE route'[k] = Address(s)'
  <2>1. /\ job \in Requests /\ worker = "read" /\ link.store = t
        /\ data' = Stored(t, job) /\ UNCHANGED <<route, moved, restarted>>
    BY <1>8, JobFacts DEF IInv, Handle, ringVars, history
  <2>2. CASE job.op = "SET" /\ s = t /\ k = job.key
    BY <1>a, <2>1, <2>2 DEF IInv, Safe, Linked
  <2>3. CASE ~(job.op = "SET" /\ s = t /\ k = job.key)
    <3>1. data'[s][k] = data[s][k]
      BY <2>1, <2>3, StoredFacts DEF IInv, TypeOK
    <3> QED
      BY <1>a, <1>b, <2>1, <3>1
  <2> QED
    BY <2>2, <2>3
<1>9. CASE HandleOrphan
  BY <1>9 DEF HandleOrphan, history, IInv, Safe, SentOnce
<1>10. CASE Failure
  <2>1. ~RestartCoordinator
    BY DEF RestartCoordinator
  <2>2. UNCHANGED <<route, moved, restarted>>
    BY <1>10, <2>1 DEF Failure, Ignore, Crash, Restart, RemoveAt, ringVars, history
  <2>3. \/ data' = data
        \/ \E t \in Stores : data' = [data EXCEPT ![t] = [l \in Keys |-> NULL]]
        \/ \E t \in Stores, l \in Keys : data' = [data EXCEPT ![t][l] = NULL]
    BY <1>10, <2>1 DEF Failure, Ignore, Crash, Restart, RemoveAt
  <2>4. data[s][k] # NULL
    BY <2>3, TypeFacts DEF IInv
  <2> QED
    BY <1>a, <1>b, <2>2, <2>4
<1> QED
  BY <1>1, <1>2, <1>3, <1>4, <1>5, <1>6, <1>7, <1>8, <1>9, <1>10 DEF Next, Arrives

LEMMA QuietStep ==
  ASSUME IInv, Quiet, [Next]_vars
  PROVE  Quiet'
<1> SUFFICES ASSUME faults' = 0
             PROVE  Quiet'
  BY DEF Quiet
<1>a. faults \in Nat
  BY NullFacts DEF IInv, TypeOK, HistoryTypeOK
<1>b. ~(Fails)
  BY <1>a DEF Fails
<1>1. CASE UNCHANGED vars
  BY <1>1 DEF vars, ringVars, history, Quiet
<1>2. CASE Arrives
  <2>1. UNCHANGED <<restarted, orphan, leaked, up, link, faults>> /\ worker = "take"
    BY <1>2 DEF Arrives, SetSpins, Get, Set, SetRefused, Add, Del, Other, ringVars, history
  <2>2. link.state = "none"
    BY <2>1 DEF IInv, TypeOK, LinkTypeOK
  <2> QED
    BY <2>1, <2>2 DEF Quiet
<1>3. CASE Unresolved
  <2>1. link.state = "none"
    BY <1>3 DEF Unresolved, IInv, TypeOK, LinkTypeOK
  <2> QED
    BY <1>3, <2>1 DEF Unresolved, ringVars, history, Quiet
<1>4. CASE Refused
  BY <1>4 DEF Refused, Resolve, history, Quiet, IInv, TypeOK, RingTypeOK
<1>5. CASE Connect
  <2>1. link'.state = "sent" /\ UNCHANGED <<restarted, orphan, leaked, up, faults>>
    BY <1>5 DEF Connect, NoLink, history
  <2> QED
    BY <2>1 DEF Quiet
<1>6. CASE Return \/ ReturnNothing
  <2>1. link'.state = "none" /\ UNCHANGED <<restarted, orphan, leaked, up, faults>>
    BY <1>6 DEF Return, ReturnNothing, NoLink, history
  <2> QED
    BY <2>1 DEF Quiet
<1>7. ASSUME NEW s \in Stores, Handle(s) PROVE Quiet'
  <2>1. /\ job \in Requests /\ job.key \in Keys /\ job.op \in {"SET", "GET"} /\ worker = "read"
        /\ link.state = "sent" /\ link \in Links
        /\ UNCHANGED <<job, restarted, orphan, leaked, up, faults>>
    BY <1>7, JobFacts, RequestFacts DEF Handle, IInv, TypeOK, LinkTypeOK, history
  <2>2. job.op = "SET" => data[s][job.key] = NULL
    BY <2>1, RequestFacts DEF IInv, Safe, SentOnce, SetUnderWay, Quiet
  <2>3. /\ link'.state = "answered"
        /\ job.op = "SET" => link'.code = 200 /\ link'.value = job.value
        /\ job.op = "GET" => link'.code = IF link'.value = NULL THEN 404 ELSE 200
    BY <1>7, <2>1, <2>2 DEF Handle, Links
  <2> QED
    BY <2>1, <2>3 DEF Quiet
<1>8. CASE HandleOrphan
  BY <1>8 DEF HandleOrphan, history, Quiet
<1>9. CASE Failure
  <2>1. PICK s \in Stores : Restart(s)
    BY <1>9, <1>b DEF Failure, Ignore, Crash, RemoveAt, RestartCoordinator
  <2> QED
    BY <2>1 DEF Restart, history, Quiet
<1> QED
  BY <1>1, <1>2, <1>3, <1>4, <1>5, <1>6, <1>7, <1>8, <1>9 DEF Next, Forward

LEMMA CalmInvariant == Spec => []LInv
<1>1. Init => DataRouted /\ Quiet
  BY DEF Init, DataRouted, Quiet, NoLink
<1>2. LInv /\ [Next]_vars => LInv'
  BY NextSafe, DataRoutedStep, QuietStep DEF LInv
<1>3. Init => LInv
  BY <1>1, InitSafe DEF LInv
<1> QED
  BY <1>2, <1>3, PTL DEF Spec

\* A SET of k is being forwarded.
Setting(k) == job # NULL /\ job.op = "SET" /\ job.key = k

LEMMA ChooseOnly ==
  ASSUME NEW d, NEW k, NEW s \in Stores, d[s][k] # NULL,
         \A t \in Stores : d[t][k] # NULL => t = s
  PROVE  (CHOOSE t \in Stores : d[t][k] # NULL) = s
OBVIOUS

\* What the map holds, before and after a step.
LEMMA HeldValue ==
  ASSUME IInv, IInv', ~restarted, ~restarted', NEW k \in Keys
  PROVE  /\ \A s \in Stores : data[s][k] # NULL /\ ~Setting(k) => Held(k) = data[s][k]
         /\ \A s \in Stores : data'[s][k] # NULL /\ ~Setting(k)' => Held(k)' = data'[s][k]
         /\ (\A s \in Stores : data[s][k] = NULL) \/ Setting(k) => Held(k) = NULL
         /\ (\A s \in Stores : data'[s][k] = NULL) \/ Setting(k)' => Held(k)' = NULL
<1>1. ASSUME NEW s \in Stores, data[s][k] # NULL, ~Setting(k)
      PROVE  Held(k) = data[s][k]
  <2>1. (CHOOSE t \in Stores : data[t][k] # NULL) = s
    BY <1>1, ChooseOnly DEF IInv, Safe, OneCopy
  <2> QED
    BY <1>1, <2>1 DEF Held, Setting
<1>2. ASSUME NEW s \in Stores, data'[s][k] # NULL, ~Setting(k)'
      PROVE  Held(k)' = data'[s][k]
  <2>1. (CHOOSE t \in Stores : data'[t][k] # NULL) = s
    BY <1>2, ChooseOnly DEF IInv, Safe, OneCopy
  <2> QED
    BY <1>2, <2>1 DEF Held, Setting
<1>3. (\A s \in Stores : data[s][k] = NULL) \/ Setting(k) => Held(k) = NULL
  BY DEF Held, Setting
<1>4. (\A s \in Stores : data'[s][k] = NULL) \/ Setting(k)' => Held(k)' = NULL
  BY DEF Held, Setting
<1> QED
  BY <1>1, <1>2, <1>3, <1>4

LEMMA HeldSame ==
  ASSUME IInv, IInv', ~restarted, ~restarted', NEW k \in Keys,
         \A s \in Stores : data'[s][k] = data[s][k],
         Setting(k)' <=> Setting(k)
  PROVE  Held(k)' = Held(k)
<1>1. CASE \E s \in Stores : data[s][k] # NULL /\ ~Setting(k)
  BY <1>1, HeldValue
<1>2. CASE ~\E s \in Stores : data[s][k] # NULL /\ ~Setting(k)
  BY <1>2, HeldValue
<1> QED
  BY <1>1, <1>2

\* The map before and after a step.
Map == [k \in Keys |-> Held(k)]

\* A step that answers nobody and changes nothing clients can count on.
LEMMA Stutters ==
  ASSUME UNCHANGED reply, \A k \in Keys : Held(k)' = Held(k)
  PROVE  UNCHANGED KV!vars
BY DEF KV!vars, Told

\* An answer to a request for the ring, or for none of the coordinator's.
LEMMA OtherAnswered ==
  ASSUME \A k \in Keys : Held(k)' = Held(k), NEW op \in {"REM", "SYNC", "ADD", "DEL"},
         NEW code \in Codes, Replies(op, NULL, code, NULL)
  PROVE  KV!Next
<1>1. reply' # NULL
  BY NullFacts DEF Replies, Answer, Answers
<1>2. Told' = [op |-> "other", key |-> NULL, code |-> 400, value |-> NULL]
  BY <1>1 DEF Told, Replies, Answer
<1> QED
  BY <1>2 DEF KV!Next, KV!Other, KV!Reply

LEMMA ArrivesRefines ==
  ASSUME LInv, LInv', UNCHANGED place, Arrives, ~restarted
  PROVE  KV!Next \/ UNCHANGED KV!vars
<1>a. IInv /\ IInv' /\ ~restarted' /\ job = NULL /\ UNCHANGED data
  <2>1. worker = "take" /\ UNCHANGED <<restarted, data>>
    BY DEF Arrives, SetSpins, Get, Set, SetRefused, Add, Del, Other, history
  <2> QED
    BY <2>1, JobFacts DEF LInv, IInv
<1>b. (\A k \in Keys : ~Setting(k)') => \A k \in Keys : Held(k)' = Held(k)
  BY <1>a, HeldSame DEF Setting
<1>1. ASSUME NEW k \in Keys, SetSpins(k) PROVE UNCHANGED KV!vars
  BY <1>1, <1>a, <1>b, Stutters DEF SetSpins, Setting
<1>2. ASSUME NEW k \in Keys, Get(k) PROVE KV!Next \/ UNCHANGED KV!vars
  <2>1. CASE route[k] = NULL
    <3>1. Replies("GET", k, 404, NULL) /\ \A l \in Keys : Held(l)' = Held(l)
      BY <1>2, <1>a, <1>b, <2>1 DEF Get, Setting
    <3>2. Held(k) = NULL
      BY <1>a, <2>1, HeldValue DEF IInv, Safe, SentOnce
    <3>3. reply' # NULL
      BY <3>1, NullFacts DEF Replies, Answer, Answers, Codes
    <3>4. Told' = [op |-> "GET", key |-> k, code |-> 404, value |-> NULL]
      BY <3>1, <3>3 DEF Told, Replies, Answer
    <3>5. KV!Get(k)
      BY <3>1, <3>2, <3>4 DEF KV!Get, KV!Reply
    <3> QED
      BY <3>5 DEF KV!Next
  <2>2. CASE route[k] # NULL
    <3>1. job'.op = "GET" /\ UNCHANGED reply
      BY <1>2, <2>2 DEF Get
    <3> QED
      BY <1>b, <3>1, Stutters DEF Setting
  <2> QED
    BY <2>1, <2>2
<1>3. ASSUME NEW k \in Keys, NEW v \in Values, Set(k, v) PROVE UNCHANGED KV!vars
  <2>1. /\ route[k] = NULL /\ UNCHANGED reply
        /\ job' = [op |-> "SET", key |-> k, value |-> v]
    BY <1>3 DEF Set
  <2>2. \A s \in Stores : data[s][k] = NULL
    BY <1>a, <2>1 DEF IInv, Safe, SentOnce
  <2>3. Held(k)' = Held(k)
    BY <1>a, <2>2, HeldValue
  <2>4. ASSUME NEW l \in Keys, l # k PROVE Held(l)' = Held(l)
    <3>1. ~Setting(l) /\ ~Setting(l)'
      BY <1>a, <2>1, <2>4 DEF Setting
    <3> QED
      BY <1>a, <3>1, HeldSame
  <2> QED
    BY <2>1, <2>3, <2>4, Stutters
<1>4. ASSUME NEW k \in Keys, NEW v \in Values, SetRefused(k, v) PROVE KV!Next
  <2>1. Replies("SET", k, 404, v) /\ \A l \in Keys : Held(l)' = Held(l)
    BY <1>4, <1>a, <1>b DEF SetRefused, Setting
  <2>2. reply' # NULL
    BY <2>1, NullFacts DEF Replies, Answer, Answers, Codes
  <2>3. Told' = [op |-> "SET", key |-> k, code |-> 400, value |-> v]
    BY <2>1, <2>2 DEF Told, Replies, Answer
  <2>4. KV!Refuse(k, v)
    BY <2>1, <2>3 DEF KV!Refuse, KV!Reply
  <2> QED
    BY <2>4 DEF KV!Next
<1>5. ASSUME NEW s \in Stores, Add(s) \/ Del(s) PROVE KV!Next
  <2>1. PICK op \in {"ADD", "DEL"}, code \in Codes : Replies(op, NULL, code, NULL)
    BY <1>5 DEF Add, Del, Codes
  <2>2. job' = NULL
    BY <1>5, <1>a DEF Add, Del
  <2> QED
    BY <1>b, <2>1, <2>2, OtherAnswered DEF Setting
<1>6. ASSUME NEW op \in {"REM", "SYNC"}, Other(op) PROVE KV!Next
  <2>1. PICK code \in Codes : Replies(op, NULL, code, NULL)
    BY <1>6 DEF Other, Codes
  <2>2. job' = NULL
    BY <1>6, <1>a DEF Other
  <2> QED
    BY <1>b, <2>1, <2>2, OtherAnswered DEF Setting
<1> QED
  BY <1>1, <1>2, <1>3, <1>4, <1>5, <1>6 DEF Arrives

LEMMA ReturnRefines ==
  ASSUME LInv, LInv', UNCHANGED place, Return, faults = 0, moved = {}
  PROVE  KV!Next
<1>a. PICK k \in Keys : k = job.key
  BY JobFacts, RequestFacts DEF LInv, IInv, Return
<1>1. /\ worker = "read" /\ job' = NULL /\ UNCHANGED <<data, restarted>>
      /\ reply' = Answer(job.op, k, link.code, link.value, "none")
  BY <1>a DEF Return
<1>2. /\ job \in Requests /\ job # NULL /\ k \in Keys /\ job.op \in {"SET", "GET"}
      /\ job.op = "SET" => job.value \in Values
  BY <1>1, JobFacts, RequestFacts DEF LInv, IInv
<1>3. link.store \in Stores /\ link \in Links
  BY <1>1 DEF LInv, IInv, TypeOK, LinkTypeOK
<1>4. /\ link.state = "answered" /\ ~restarted /\ ~restarted'
      /\ job.op = "SET" => link.code = 200 /\ link.value = job.value
      /\ job.op = "GET" => link.code = IF link.value = NULL THEN 404 ELSE 200
  <2>1. link.state = "answered"
    BY DEF Return, LInv, Quiet
  <2> QED
    BY <1>1, <2>1 DEF LInv, Quiet
<1>5. IInv /\ IInv'
  BY DEF LInv
<1>6. reply' # NULL
  <2>1. link.code \in Codes /\ link.value \in Values \cup {NULL}
    BY <1>3 DEF Links
  <2>2. reply' \in Answers
    BY <1>1, <1>2, <2>1 DEF Answer, Answers
  <2> QED
    BY <2>2, NullFacts
<1>7. Told' = [op |-> job.op, key |-> k, code |-> link.code, value |-> link.value]
  <2>1. /\ reply'.op = job.op /\ reply'.key = k
        /\ reply'.code = link.code /\ reply'.value = link.value
    BY <1>1 DEF Answer
  <2>2. link.code # 404 \/ job.op # "SET"
    BY <1>4
  <2> QED
    BY <1>2, <1>6, <2>1, <2>2 DEF Told
<1>8. ASSUME NEW l \in Keys, job.op = "GET" \/ l # k PROVE Held(l)' = Held(l)
  <2>1. ~Setting(l) /\ ~Setting(l)'
    BY <1>a, <1>1, <1>8 DEF Setting
  <2> QED
    BY <1>1, <1>4, <1>5, <2>1, HeldSame
<1>9. CASE job.op = "SET"
  <2>1. data[link.store][k] = job.value /\ job.value # NULL
    BY <1>a, <1>1, <1>2, <1>4, <1>5, <1>9, NullFacts DEF IInv, Safe, AnswerTrue
  <2>2. Setting(k) /\ ~Setting(k)'
    BY <1>a, <1>1, <1>2, <1>9 DEF Setting
  <2>3. Held(k) = NULL /\ Held(k)' = job.value
    BY <1>1, <1>2, <1>3, <1>4, <1>5, <2>1, <2>2, HeldValue
  <2>4. [l \in Keys |-> Held(l)'] = [[l \in Keys |-> Held(l)] EXCEPT ![k] = job.value]
    BY <1>8, <2>3
  <2>5. KV!Set(k, job.value)
    BY <1>2, <1>4, <1>7, <1>9, <2>3, <2>4 DEF KV!Set, KV!Reply
  <2> QED
    BY <1>2, <1>9, <2>5 DEF KV!Next
<1>10. CASE job.op = "GET"
  <2>1. link.value = data[link.store][k]
    BY <1>a, <1>1, <1>4, <1>5, <1>10 DEF IInv, Safe, AnswerTrue
  <2>2. ~Setting(k)
    BY <1>a, <1>10 DEF Setting
  <2>3. Held(k) = link.value
    <3>1. CASE link.value # NULL
      BY <1>2, <1>3, <1>4, <1>5, <2>1, <2>2, <3>1, HeldValue
    <3>2. CASE link.value = NULL
      <4>1. ASSUME NEW s \in Stores, data[s][k] # NULL PROVE FALSE
        <5>1. route[k] = Address(s)
          BY <1>2, <1>4, <4>1 DEF LInv, DataRouted
        <5>2. route[k] = Address(link.store)
          BY <1>a, <1>1, <1>5 DEF IInv, Safe, Linked
        <5>3. s = link.store
          BY <1>3, <1>5, <5>1, <5>2, AddressFacts, TypeFacts DEF IInv
        <5> QED
          BY <2>1, <3>2, <4>1, <5>3
      <4> QED
        BY <1>2, <1>4, <1>5, <3>2, <4>1, HeldValue
    <3> QED
      BY <3>1, <3>2
  <2>4. \A l \in Keys : Held(l)' = Held(l)
    BY <1>8, <1>10
  <2>5. KV!Get(k)
    BY <1>2, <1>4, <1>7, <1>10, <2>3, <2>4 DEF KV!Get, KV!Reply
  <2> QED
    BY <1>2, <2>5 DEF KV!Next
<1> QED
  BY <1>2, <1>9, <1>10

LEMMA StepRefines ==
  ASSUME LInv, LInv', Next, Calm'
  PROVE  KV!Next \/ UNCHANGED KV!vars
<1>a. faults \in Nat /\ moved \subseteq Keys /\ UNCHANGED place
  BY NullFacts DEF LInv, IInv, TypeOK, HistoryTypeOK, Next
<1>b. faults = 0 /\ moved = {}
  <2>1. (UNCHANGED faults \/ faults' = faults + 1) /\ (UNCHANGED moved \/ Moves)
    <3>1. CASE Arrives
      BY <3>1 DEF Arrives, SetSpins, Get, Set, SetRefused, Add, Del, Other, history
    <3>2. CASE Unresolved
      BY <3>2 DEF Unresolved, history
    <3>3. CASE Refused
      BY <3>3 DEF Refused, history
    <3>4. CASE Connect
      BY <3>4 DEF Connect, history
    <3>5. CASE Return
      BY <3>5 DEF Return
    <3>6. CASE ReturnNothing
      BY <3>6 DEF ReturnNothing, history
    <3>7. ASSUME NEW s \in Stores, Handle(s) PROVE UNCHANGED <<faults, moved>>
      BY <3>7 DEF Handle, history
    <3>8. CASE HandleOrphan
      BY <3>8 DEF HandleOrphan, history
    <3>9. ASSUME Failure PROVE (UNCHANGED faults \/ Fails) /\ UNCHANGED moved
      <4>1. ASSUME NEW s \in Stores, Ignore(s) PROVE Fails /\ UNCHANGED moved
        BY <4>1 DEF Ignore
      <4>2. ASSUME NEW s \in Stores, Crash(s) PROVE Fails /\ UNCHANGED moved
        BY <4>2 DEF Crash
      <4>3. ASSUME NEW s \in Stores, Restart(s) PROVE UNCHANGED <<faults, moved>>
        BY <4>3 DEF Restart, history
      <4>4. ASSUME NEW s \in Stores, NEW k \in Keys, RemoveAt(s, k)
            PROVE  Fails /\ UNCHANGED moved
        BY <4>4 DEF RemoveAt
      <4>5. CASE RestartCoordinator
        BY <4>5 DEF RestartCoordinator
      <4> QED
        BY <3>9, <4>1, <4>2, <4>3, <4>4, <4>5 DEF Failure
    <3> QED
      BY <3>1, <3>2, <3>3, <3>4, <3>5, <3>6, <3>7, <3>8, <3>9 DEF Next, Forward, Fails
  <2> QED
    BY <1>a, <2>1 DEF Calm, Moves
<1>c. /\ ~restarted /\ orphan = NULL /\ leaked = 0 /\ \A s \in Stores : up[s]
      /\ link.state \in {"none", "sent", "answered"}
      /\ IInv /\ IInv' /\ ~restarted'
  BY <1>b DEF LInv, Quiet, Calm
<1>d. UNCHANGED <<job, data, reply>> => UNCHANGED KV!vars
  <2> SUFFICES ASSUME UNCHANGED <<job, data, reply>> PROVE UNCHANGED KV!vars
    OBVIOUS
  <2>1. \A k \in Keys : Held(k)' = Held(k)
    BY <1>c, HeldSame DEF Setting
  <2> QED
    BY <2>1, Stutters
<1>1. CASE Arrives
  BY <1>1, <1>a, <1>c, ArrivesRefines
<1>2. CASE Unresolved
  <2>1. PICK k \in Keys : k = job.key /\ route[k] # NULL
    BY <1>2, <1>c, JobFacts, RequestFacts DEF Unresolved, IInv, Safe, Linked
  <2>2. route' = route /\ servers' = servers /\ Resolve(route[k]) = {}
    BY <1>2, <1>c, <2>1, NullFacts DEF Unresolved, ringVars
  <2>3. Resolve(route[k])' # {}
    BY <2>1, <2>2 DEF Calm, Placed
  <2> QED
    BY <1>a, <2>2, <2>3 DEF Resolve, Address
<1>3. CASE Refused
  BY <1>3, <1>c DEF Refused, Resolve, IInv, TypeOK, RingTypeOK
<1>4. CASE Connect
  BY <1>4, <1>d DEF Connect
<1>5. CASE Return
  BY <1>5, <1>a, <1>b, ReturnRefines
<1>6. CASE ReturnNothing
  BY <1>6, <1>c DEF ReturnNothing
<1>7. ASSUME NEW s \in Stores, Handle(s) PROVE UNCHANGED KV!vars
  <2>1. /\ job \in Requests /\ job # NULL /\ job.key \in Keys
        /\ data' = Stored(s, job) /\ UNCHANGED <<job, reply>>
    BY <1>7, <1>c, JobFacts, RequestFacts DEF Handle, IInv
  <2>2. ASSUME NEW l \in Keys PROVE Held(l)' = Held(l)
    <3>1. CASE Setting(l)
      BY <1>c, <2>1, <3>1, HeldValue DEF Setting
    <3>2. CASE ~Setting(l)
      <4>1. \A t \in Stores : data'[t][l] = data[t][l]
        BY <1>c, <2>1, <3>2, StoredFacts DEF Setting, IInv, TypeOK
      <4>2. Setting(l)' <=> Setting(l)
        BY <2>1 DEF Setting
      <4> QED
        BY <1>c, <4>1, <4>2, HeldSame
    <3> QED
      BY <3>1, <3>2
  <2> QED
    BY <2>1, <2>2, Stutters
<1>8. CASE HandleOrphan
  BY <1>8, <1>c DEF HandleOrphan
<1>9. CASE Failure
  <2>1. ~Fails
    BY <1>b DEF Fails, Calm
  <2>2. PICK s \in Stores : Restart(s)
    BY <1>9, <2>1 DEF Failure, Ignore, Crash, RemoveAt, RestartCoordinator
  <2> QED
    BY <1>d, <2>2 DEF Restart
<1> QED
  BY <1>1, <1>2, <1>3, <1>4, <1>5, <1>6, <1>7, <1>8, <1>9 DEF Next, Forward

(* Before the first failure, and while every key is sent where it was set, *)
(* coordinator and stores answer their clients as one map would: a SET     *)
(* takes effect when its answer is returned, and a GET finds just that.    *)
THEOREM MapImplemented == Spec => ActsAsOneMap
<1>1. Init => KV!Init
  <2> SUFFICES ASSUME Init PROVE KV!Init
    OBVIOUS
  <2>1. ASSUME NEW k \in Keys PROVE Held(k) = NULL
    BY DEF Init, Held
  <2>2. Told = NULL
    BY DEF Init, Told
  <2> QED
    BY <2>1, <2>2 DEF KV!Init
<1>2. LInv /\ LInv' /\ [Next]_vars => [~Calm' \/ KV!Next]_(KV!vars)
  <2> SUFFICES ASSUME LInv, LInv', [Next]_vars, Calm'
               PROVE  KV!Next \/ UNCHANGED KV!vars
    OBVIOUS
  <2>1. CASE Next
    BY <2>1, StepRefines
  <2>2. CASE UNCHANGED vars
    <3>1. \A k \in Keys : Held(k)' = Held(k)
      BY <2>2 DEF vars, Held
    <3> QED
      BY <2>2, <3>1, Stutters DEF vars
  <2> QED
    BY <2>1, <2>2
<1> QED
  BY <1>1, <1>2, CalmInvariant, PTL DEF Spec, ActsAsOneMap
=============================================================================
