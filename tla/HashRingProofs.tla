--------------------------- MODULE HashRingProofs ---------------------------
(***************************************************************************)
(* Proofs about HashRing for every ring size, set of servers, weights,     *)
(* keys and hash function.                                                 *)
(***************************************************************************)
EXTENDS HashRing, TLAPS, FiniteSetTheorems, WellFoundedInduction

-----------------------------------------------------------------------------
(* The tree operators build trees (RingTree).                              *)

LEMMA PointerFacts ==
  /\ Size \in Nat /\ Size > 0
  /\ Null \in Pointers /\ Wild \in Pointers
  /\ Places \subseteq Pointers /\ Places \subseteq Slots
  /\ Null \notin Places /\ Wild \notin Places
  /\ \A p \in Pointers : p \in Places \/ p = Null \/ p = Wild
BY SizeAssumption DEF Places, Null, Wild, Pointers, Slots

LEMMA AllocatedType ==
  ASSUME NEW t \in Trees, NEW h \in Places
  PROVE  Allocated(t, h) \in Trees
BY PointerFacts DEF Trees, Allocated

LEMMA InsertedType ==
  ASSUME NEW t \in Trees, NEW h \in Places, NEW cur \in Pointers
  PROVE  Inserted(t, h, cur) \in Trees
BY PointerFacts DEF Trees, Inserted

LEMMA FreedType ==
  ASSUME NEW t \in Trees, NEW h \in Places
  PROVE  Freed(t, h) \in Trees
BY PointerFacts DEF Trees, Freed

LEMMA LeafRemovedType ==
  ASSUME NEW t \in Trees, NEW h \in Places
  PROVE  LeafRemoved(t, h) \in Trees
BY PointerFacts DEF Trees, LeafRemoved

LEMMA PairRemovedType ==
  ASSUME NEW t \in Trees, NEW h \in Places, NEW s \in Pointers
  PROVE  PairRemoved(t, h, s) \in Trees
<1> DEFINE cut  == [t EXCEPT !.left[t.parent[s]] = Null]
<1> DEFINE left == cut.left[h]
<1> DEFINE up   == [p \in Places |-> IF p \in {left, cut.right[h]} THEN s
                                     ELSE IF p = s THEN cut.parent[h]
                                     ELSE cut.parent[p]]
<1> DEFINE hung == [cut EXCEPT !.right[s] = cut.right[h],
                               !.left[s]  = IF left = Null THEN @ ELSE left,
                               !.parent   = up]
<1>1. cut \in Trees
  BY PointerFacts DEF Trees
<1>2. left \in Pointers /\ cut.right[h] \in Pointers /\ cut.parent[h] \in Pointers
  BY <1>1 DEF Trees
<1> HIDE DEF cut, left
<1>3. up \in [Places -> Pointers]
  BY <1>1, <1>2 DEF Trees
<1> HIDE DEF up
<1>4. hung \in Trees
  BY <1>1, <1>2, <1>3 DEF Trees
<1>5. [hung EXCEPT !.root = s] \in Trees
  BY <1>4 DEF Trees
<1> QED
  BY <1>4, <1>5 DEF PairRemoved, cut, left, up

LEMMA SingleRemovedType ==
  ASSUME NEW t \in Trees, NEW h \in Places
  PROVE  SingleRemoved(t, h) \in Trees
BY PointerFacts DEF Trees, SingleRemoved

LEMMA RemovedType ==
  ASSUME NEW t \in Trees, NEW h \in Places, NEW s \in Pointers
  PROVE  Removed(t, h, s) \in Trees
BY LeafRemovedType, PairRemovedType, SingleRemovedType DEF Removed

-----------------------------------------------------------------------------
(* Slots, and the sets of servers and keys among them.                     *)

LEMMA SlotsFinite ==
  /\ IsFiniteSet(Slots)
  /\ \A S \in SUBSET Slots : IsFiniteSet(S) /\ Cardinality(S) \in Nat
<1>1. IsFiniteSet(Slots)
  BY PointerFacts, FS_Interval DEF Slots
<1> QED
  BY <1>1, FS_Subset, FS_CardinalityType

LEMMA SlotSetsFinite ==
  ASSUME NEW elems, NEW h
  PROVE  /\ ServersOf(elems) \subseteq Slots /\ KeysOf(elems) \subseteq Slots
         /\ NodesArray(elems) \subseteq ServersOf(elems)
         /\ Arc(elems, h) \subseteq Slots
         /\ IsFiniteSet(ServersOf(elems)) /\ Cardinality(ServersOf(elems)) \in Nat
         /\ IsFiniteSet(KeysOf(elems)) /\ Cardinality(KeysOf(elems)) \in Nat
         /\ IsFiniteSet(NodesArray(elems)) /\ Cardinality(NodesArray(elems)) \in Nat
         /\ Cardinality(NodesArray(elems)) <= Cardinality(ServersOf(elems))
         /\ Cardinality(Arc(elems, h)) \in Nat
<1>1. /\ ServersOf(elems) \subseteq Slots /\ KeysOf(elems) \subseteq Slots
      /\ NodesArray(elems) \subseteq ServersOf(elems)
      /\ Arc(elems, h) \subseteq Slots
  BY PointerFacts DEF ServersOf, KeysOf, NodesArray, Arc, Slots
<1>2. NodesArray(elems) \subseteq Slots
  BY <1>1
<1>3. Cardinality(NodesArray(elems)) <= Cardinality(ServersOf(elems))
  BY <1>1, SlotsFinite, FS_Subset
<1> QED
  BY <1>1, <1>2, <1>3, SlotsFinite

LEMMA Around ==
  ASSUME NEW x \in Int
  PROVE  x % (Size + 1) \in Slots
<1>1. \A y \in Nat \ {0} : x % y \in 0 .. y - 1
  BY SMT
<1> QED
  BY <1>1, PointerFacts DEF Slots

LEMMA ClockInSlots ==
  ASSUME NEW h \in Slots, NEW i \in Slots
  PROVE  Clock(h, i) \in Slots
BY Around, PointerFacts DEF Clock, Slots

(* Walking down from a slot of a ring with a server, some server is met    *)
(* first, so the CHOOSE of Owner picks one.                                *)
LEMMA OwnerIsServer ==
  ASSUME NEW elems, NEW i \in Slots, ServersOf(elems) # {}
  PROVE  /\ Owner(elems, i) \in ServersOf(elems)
         /\ \A g \in ServersOf(elems) : Clock(Owner(elems, i), i) <= Clock(g, i)
<1> DEFINE S == ServersOf(elems)
           Nearer(h) == {g \in S : Clock(g, i) < Clock(h, i)}
           T == {Nearer(h) : h \in S}
           R == StrictSubsetOrdering(S)
<1>1. IsFiniteSet(S) /\ S \subseteq Slots
  BY SlotSetsFinite
<1>2. \A h \in S : Clock(h, i) \in Int
  BY <1>1, ClockInSlots, PointerFacts DEF Slots
<1>3. T \subseteq SUBSET S /\ T # {}
  OBVIOUS
<1>4. IsWellFoundedOn(R, SUBSET S)
  BY <1>1, FS_StrictSubsetOrderingWellFounded, FS_FiniteSubsetsOfFinite
<1>5. PICK D \in T : \A E \in T : ~(<<E, D>> \in R)
  <2> HIDE DEF S, T, R
  <2> QED
    BY <1>3, <1>4, WFMin
<1>6. PICK h \in S : D = Nearer(h)
  BY <1>5
<1>7. \A g \in S : Clock(h, i) <= Clock(g, i)
  <2> SUFFICES ASSUME NEW g \in S, Clock(g, i) < Clock(h, i)
               PROVE  FALSE
    BY <1>2
  <2>1. g \in Nearer(h) /\ g \notin Nearer(g)
    BY <1>2
  <2>2. Nearer(g) \subseteq Nearer(h)
    BY <1>2
  <2>3. <<Nearer(g), Nearer(h)>> \in R
    BY <2>1, <2>2 DEF StrictSubsetOrdering
  <2> QED
    BY <2>3, <1>5, <1>6
<1> QED
  BY <1>7 DEF Owner

-----------------------------------------------------------------------------
(* Names, frames and elements.                                             *)

LEMMA NameTypes ==
  /\ MaxWeight \in Nat
  /\ \A ip \in Ips : <<ip, Plain>> \in Names
  /\ \A ip \in Ips, n \in 0 .. MaxWeight - 1 : <<ip, n>> \in Names
  /\ \A name \in Names : name[1] \in Ips
BY RingAssumption DEF Plain, Names

LEMMA SlotOfType ==
  ASSUME RingTypeOK, NEW name \in Names, NEW port \in Ports
  PROVE  SlotOf(name, port) \in Places
BY DEF RingTypeOK, SlotOf

LEMMA FrameStack ==
  /\ \A w \in Seq(Frames) : w # << >> => Head(w) \in Frames /\ Tail(w) \in Seq(Frames)
  /\ \A f \in Frames, w \in Seq(Frames) : <<f>> \o w \in Seq(Frames)
  /\ << >> \in Seq(Frames)
<1> DEFINE S == Frames
<1> HIDE DEF S
<1>1. \A w \in Seq(S) : w # << >> => Head(w) \in S /\ Tail(w) \in Seq(S)
  OBVIOUS
<1>2. \A f \in S, w \in Seq(S) : <<f>> \o w \in Seq(S)
  OBVIOUS
<1> QED
  BY <1>1, <1>2 DEF S

LEMMA NewFrame ==
  ASSUME NEW op \in {"add", "del"}, NEW h \in Places, NEW e \in ServerElements
  PROVE  Frame(op, h, e) \in Frames
BY NameTypes, PointerFacts DEF Frame, Frames

(* The ring's operators keep the type of every slot.                       *)
SameKinds(a, b) == \A s \in Slots : a[s].type = b[s].type

LEMMA SameKindsSets ==
  ASSUME NEW a, NEW b, SameKinds(a, b)
  PROVE  ServersOf(a) = ServersOf(b) /\ KeysOf(a) = KeysOf(b)
BY DEF SameKinds, ServersOf, KeysOf

LEMMA ElementKinds ==
  /\ \A e \in Elements : e.type = "server" <=> e \in ServerElements
  /\ \A e \in Elements : e.type = "key" <=> e \in KeyElements
  /\ \A e \in Elements : e.type = "empty" <=> e = Empty
  /\ \A e \in ServerElements : e.type = "server"
  /\ \A e \in KeyElements : e.type = "key"
  /\ \A e \in Unplaced : e.type = "key"
  /\ Empty.type = "empty" /\ Empty \in Elements
BY DEF Elements, ServerElements, KeyElements, Unplaced, Empty

LEMMA RangesUpdatedType ==
  ASSUME NEW elems \in [Slots -> Elements]
  PROVE  /\ RangesUpdated(elems) \in [Slots -> Elements]
         /\ SameKinds(RangesUpdated(elems), elems)
<1> SUFFICES ASSUME NEW h \in Slots
             PROVE  /\ RangesUpdated(elems)[h] \in Elements
                    /\ RangesUpdated(elems)[h].type = elems[h].type
  BY DEF RangesUpdated, SameKinds
<1>1. CASE h \in NodesArray(elems)
  <2>1. elems[h] \in ServerElements
    BY <1>1, ElementKinds DEF NodesArray
  <2>2. RangeEnd(elems, h) \in Slots
    <3>1. h + Cardinality(Arc(elems, h)) \in Int
      BY SlotSetsFinite DEF Slots
    <3> QED
      BY <3>1, Around DEF RangeEnd
  <2>3. [elems[h] EXCEPT !.rangeend = RangeEnd(elems, h)] \in ServerElements
    BY <2>1, <2>2 DEF ServerElements
  <2> QED
    BY <1>1, <2>1, <2>3, ElementKinds DEF RangesUpdated, Elements
<1>2. CASE h \notin NodesArray(elems)
  BY <1>2 DEF RangesUpdated
<1> QED
  BY <1>1, <1>2

LEMMA RemappedAddType ==
  ASSUME NEW elems \in [Slots -> Elements], NEW h, NEW e \in ServerElements
  PROVE  /\ RemappedAdd(elems, h, e) \in [Slots -> Elements]
         /\ SameKinds(RemappedAdd(elems, h, e), elems)
<1> SUFFICES ASSUME NEW i \in Slots
             PROVE  /\ RemappedAdd(elems, h, e)[i] \in Elements
                    /\ RemappedAdd(elems, h, e)[i].type = elems[i].type
  BY DEF RemappedAdd, SameKinds
<1>1. CASE i \in RangeOf(elems, h) /\ elems[i].type = "key"
  <2>1. elems[i] \in KeyElements
    BY <1>1, ElementKinds
  <2>2. [elems[i] EXCEPT !.store = e.ip, !.port = e.port] \in KeyElements
    BY <2>1 DEF KeyElements, ServerElements
  <2> QED
    BY <1>1, <2>1, <2>2, ElementKinds DEF RemappedAdd, Elements
<1>2. CASE ~(i \in RangeOf(elems, h) /\ elems[i].type = "key")
  BY <1>2 DEF RemappedAdd
<1> QED
  BY <1>1, <1>2

LEMMA RemappedDelType ==
  ASSUME NEW elems \in [Slots -> Elements], NEW h \in Slots, ServersOf(elems) # {}
  PROVE  /\ RemappedDel(elems, h) \in [Slots -> Elements]
         /\ SameKinds(RemappedDel(elems, h), elems)
<1>1. elems[Owner(elems, h)] \in ServerElements
  BY OwnerIsServer, ElementKinds DEF ServersOf
<1> SUFFICES ASSUME NEW i \in Slots
             PROVE  /\ RemappedDel(elems, h)[i] \in Elements
                    /\ RemappedDel(elems, h)[i].type = elems[i].type
  BY DEF RemappedDel, SameKinds
<1>2. CASE i \in Arc(elems, h) /\ elems[i].type = "key"
  <2>1. elems[i] \in KeyElements
    BY <1>2, ElementKinds
  <2>2. [elems[i] EXCEPT !.store = elems[Owner(elems, h)].ip] \in KeyElements
    BY <1>1, <2>1 DEF KeyElements, ServerElements
  <2> QED
    BY <1>2, <2>1, <2>2, ElementKinds DEF RemappedDel, Elements
<1>3. CASE ~(i \in Arc(elems, h) /\ elems[i].type = "key")
  BY <1>3 DEF RemappedDel
<1> QED
  BY <1>2, <1>3

LEMMA ForwardedType ==
  ASSUME NEW elems \in [Slots -> Elements], NEW s \in Slots
  PROVE  /\ Forwarded(elems, s) \in [Slots -> Elements]
         /\ SameKinds(Forwarded(elems, s), elems)
<1> DEFINE h == SlotOf(elems[s].store, elems[s].port)
           cut == [elems EXCEPT ![h].ip = <<@[1], Plain>>]
<1> HIDE DEF h
<1>1. CASE elems[h].type = "server" /\ h \in Slots
  <2>1. elems[h] \in ServerElements
    BY <1>1, ElementKinds
  <2>2. [elems[h] EXCEPT !.ip = <<@[1], Plain>>] \in ServerElements
    BY <2>1, NameTypes DEF ServerElements
  <2>3. cut \in [Slots -> Elements] /\ SameKinds(cut, elems)
    BY <1>1, <2>1, <2>2, ElementKinds DEF Elements, SameKinds
  <2> QED
    BY <1>1, <2>3 DEF Forwarded, h
<1>2. CASE h \notin Slots
  <2>1. cut = elems
    BY <1>2
  <2> QED
    BY <2>1 DEF Forwarded, h, SameKinds
<1>3. CASE elems[h].type # "server"
  BY <1>3 DEF Forwarded, h, SameKinds
<1> QED
  BY <1>1, <1>2, <1>3

-----------------------------------------------------------------------------
(* The inductive invariant, the parts of it a step changes, and the calls. *)

IInv == TypeOK /\ CountersExact

\* What the slots must still satisfy: CountersExact by the elements alone.
Counts(elems, n, c, sh) ==
  /\ sh \subseteq KeysOf(elems)
  /\ n = Cardinality(ServersOf(elems)) + Cardinality(sh)
  /\ c = n + Cardinality(KeysOf(elems))

LEMMA CountsKept ==
  ASSUME NEW a, NEW b, NEW n, NEW c, NEW sh, SameKinds(a, b), Counts(b, n, c, sh)
  PROVE  Counts(a, n, c, sh)
BY SameKindsSets DEF Counts

(* Putting a server into an empty slot.                                    *)
LEMMA CountsServerAdded ==
  ASSUME NEW elems \in [Slots -> Elements], NEW h \in Slots, elems[h].type = "empty",
         NEW e \in ServerElements, NEW n \in Nat, NEW c \in Nat, NEW sh,
         Counts(elems, n, c, sh)
  PROVE  Counts([elems EXCEPT ![h] = e], n + 1, c + 1, sh)
<1> DEFINE new == [elems EXCEPT ![h] = e]
<1>1. ServersOf(new) = ServersOf(elems) \cup {h} /\ h \notin ServersOf(elems)
  BY ElementKinds DEF ServersOf
<1>2. KeysOf(new) = KeysOf(elems)
  BY ElementKinds DEF KeysOf
<1>3. Cardinality(ServersOf(new)) = Cardinality(ServersOf(elems)) + 1
  BY <1>1, SlotSetsFinite, FS_AddElement
<1>4. Cardinality(sh) \in Nat
  BY SlotsFinite, SlotSetsFinite DEF Counts
<1> QED
  BY <1>2, <1>3, <1>4, SlotSetsFinite DEF Counts

(* Emptying a server's slot.                                               *)
LEMMA CountsServerRemoved ==
  ASSUME NEW elems \in [Slots -> Elements], NEW h \in Slots, elems[h].type = "server",
         NEW n \in Nat, NEW c \in Nat, NEW sh, Counts(elems, n, c, sh)
  PROVE  /\ Counts([elems EXCEPT ![h] = Empty], n - 1, c - 1, sh)
         /\ n - 1 \in Nat /\ c - 1 \in Nat
<1> DEFINE new == [elems EXCEPT ![h] = Empty]
<1>1. ServersOf(new) = ServersOf(elems) \ {h} /\ h \in ServersOf(elems)
  BY ElementKinds DEF ServersOf
<1>2. KeysOf(new) = KeysOf(elems)
  BY ElementKinds DEF KeysOf
<1>3. Cardinality(ServersOf(new)) = Cardinality(ServersOf(elems)) - 1
  BY <1>1, SlotSetsFinite, FS_RemoveElement
<1>4. Cardinality(sh) \in Nat
  BY SlotsFinite, SlotSetsFinite DEF Counts
<1>5. Cardinality(ServersOf(new)) \in Nat /\ Cardinality(KeysOf(elems)) \in Nat
  BY SlotSetsFinite
<1>6. Counts(new, n - 1, c - 1, sh)
  BY <1>2, <1>3, <1>4, <1>5, SlotSetsFinite DEF Counts
<1> QED
  BY <1>4, <1>5, <1>6, <1>2 DEF Counts

(* Putting a key into a slot without one, over a server or not.            *)
LEMMA CountsKeyAdded ==
  ASSUME NEW elems \in [Slots -> Elements], NEW h \in Slots, elems[h].type # "key",
         NEW e \in KeyElements \cup Unplaced, NEW n \in Nat, NEW c \in Nat, NEW sh,
         Counts(elems, n, c, sh)
  PROVE  Counts([elems EXCEPT ![h] = e], n, c + 1,
                IF elems[h].type = "server" THEN sh \cup {h} ELSE sh)
<1> DEFINE new == [elems EXCEPT ![h] = e]
           after == IF elems[h].type = "server" THEN sh \cup {h} ELSE sh
<1>1. e.type = "key"
  BY ElementKinds
<1>2. KeysOf(new) = KeysOf(elems) \cup {h} /\ h \notin KeysOf(elems)
  BY <1>1 DEF KeysOf
<1>3. Cardinality(KeysOf(new)) = Cardinality(KeysOf(elems)) + 1
  BY <1>2, SlotSetsFinite, FS_AddElement
<1>4. IsFiniteSet(sh) /\ Cardinality(sh) \in Nat /\ h \notin sh
  BY <1>2, SlotsFinite, SlotSetsFinite DEF Counts
<1>5. ServersOf(new) = ServersOf(elems) \ {h}
  BY <1>1 DEF ServersOf
<1>6. Cardinality(ServersOf(new)) + Cardinality(after)
        = Cardinality(ServersOf(elems)) + Cardinality(sh)
  <2>1. CASE elems[h].type = "server"
    <3>1. h \in ServersOf(elems)
      BY <2>1 DEF ServersOf
    <3>2. Cardinality(ServersOf(elems) \ {h}) = Cardinality(ServersOf(elems)) - 1
      BY <3>1, SlotSetsFinite, FS_RemoveElement
    <3>3. Cardinality(after) = Cardinality(sh) + 1
      BY <2>1, <1>4, FS_AddElement
    <3>4. Cardinality(ServersOf(elems)) \in Nat
      BY SlotSetsFinite
    <3> HIDE DEF new, after
    <3> QED
      BY <3>2, <3>3, <3>4, <1>4, <1>5
  <2>2. CASE elems[h].type # "server"
    BY <2>2, <1>5 DEF ServersOf
  <2> QED
    BY <2>1, <2>2
<1>7. after \subseteq KeysOf(new)
  BY <1>2 DEF Counts
<1>8. Counts(new, n, c + 1, after)
  <2> HIDE DEF new, after
  <2> QED
    BY <1>3, <1>6, <1>7, SlotSetsFinite DEF Counts
<1> QED
  BY <1>8

LEMMA CountsNow ==
  ASSUME IInv, status # "spinning"
  PROVE  /\ Counts(elements, numberofservers, count, shadowed)
         /\ elements \in [Slots -> Elements]
         /\ numberofservers \in Nat /\ count \in Nat
BY DEF IInv, TypeOK, RingTypeOK, CountersExact, Counts

LEMMA CountsThen ==
  ASSUME Counts(elements', numberofservers', count', shadowed')
  PROVE  CountersExact'
BY DEF CountersExact, Counts

(* A step that leaves the ring alone keeps what is said of it.             *)
LEMMA RingKept ==
  ASSUME IInv, status # "spinning", UNCHANGED <<ring, shadowed>>
  PROVE  RingTypeOK' /\ CountersExact'
BY DEF IInv, TypeOK, RingTypeOK, CountersExact, ring, ServersOf, KeysOf

LEMMA RoutesType ==
  ASSUME IInv, status # "spinning"
  PROVE  Routes(elements) \in [Slots -> Addresses \cup {NULL}]
<1> SUFFICES ASSUME NEW s \in Slots
             PROVE  Route(elements, s) \in Addresses \cup {NULL}
  BY DEF Routes
<1> DEFINE h == SlotOf(elements[s].store, elements[s].port)
<1>1. CASE elements[s].type = "key" /\ elements[h].type = "server"
  <2>1. elements[s] \in KeyElements
    BY <1>1, CountsNow, ElementKinds
  <2>2. h \in Slots
    BY <2>1, SlotOfType, PointerFacts DEF IInv, TypeOK, KeyElements
  <2>3. elements[h] \in ServerElements
    BY <1>1, <2>2, CountsNow, ElementKinds
  <2>4. Address(elements[h]) \in Addresses
    BY <2>3, NameTypes DEF Address, Addresses, ServerElements
  <2> QED
    BY <1>1, <2>4 DEF Route
<1>2. CASE ~(elements[s].type = "key" /\ elements[h].type = "server")
  BY <1>2 DEF Route
<1> QED
  BY <1>1, <1>2

LEMMA EnterAddInv ==
  ASSUME IInv, status = "ok", UNCHANGED <<status, shadowed>>,
         NEW name \in Names, NEW port \in Ports, NEW weight \in 0 .. MaxWeight,
         NEW below \in Seq(Frames), EnterAdd(name, port, weight, below)
  PROVE  RingTypeOK' /\ CountersExact' /\ work' \in Seq(Frames)
<1> DEFINE h == SlotOf(name, port)
<1>1. h \in Places /\ h \in Slots
  BY SlotOfType, PointerFacts DEF IInv, TypeOK
<1>2. CASE elements[h].type # "empty"
  BY <1>2, RingKept DEF EnterAdd
<1>3. CASE elements[h].type = "empty"
  <2>1. PICK virtual \in Uninit :
          LET e == Server(name, port, weight, virtual)
          IN  /\ elements' = [elements EXCEPT ![h] = e]
              /\ work' = <<Frame("add", h, e)>> \o below
    BY <1>3 DEF EnterAdd
  <2> DEFINE e == Server(name, port, weight, virtual)
  <2>2. e \in ServerElements
    BY RingAssumption, PointerFacts DEF Server, ServerElements, Slots
  <2>3. /\ count' = count + 1 /\ numberofservers' = numberofservers + 1
        /\ tree' = Allocated(tree, h) /\ fn' = fn
    BY <1>3 DEF EnterAdd
  <2> HIDE DEF e, h
  <2>4. work' \in Seq(Frames)
    BY <1>1, <2>1, <2>2, NewFrame, FrameStack DEF e
  <2>5. Counts(elements', numberofservers', count', shadowed')
    BY <1>1, <1>3, <2>1, <2>2, <2>3, CountsNow, CountsServerAdded DEF e
  <2>6. RingTypeOK'
    <3>1. elements' \in [Slots -> Elements]
      BY <1>1, <2>1, <2>2, CountsNow, ElementKinds DEF e, Elements
    <3>2. tree' \in Trees
      BY <1>1, <2>3, AllocatedType DEF IInv, TypeOK, RingTypeOK
    <3> QED
      BY <2>3, <3>1, <3>2 DEF IInv, TypeOK, RingTypeOK
  <2> QED
    BY <2>4, <2>5, <2>6, CountsThen
<1> QED
  BY <1>2, <1>3

LEMMA EnterRemoveInv ==
  ASSUME IInv, status = "ok", UNCHANGED <<status, shadowed>>,
         NEW name \in Names, NEW port \in Ports,
         NEW below \in Seq(Frames), EnterRemove(name, port, below)
  PROVE  RingTypeOK' /\ CountersExact' /\ work' \in Seq(Frames)
<1> DEFINE h == SlotOf(name, port)
<1>1. h \in Places /\ h \in Slots
  BY SlotOfType, PointerFacts DEF IInv, TypeOK
<1>2. CASE elements[h].type # "server"
  BY <1>2, RingKept DEF EnterRemove
<1>3. CASE elements[h].type = "server"
  <2>1. /\ elements' = [elements EXCEPT ![h] = Empty]
        /\ count' = count - 1 /\ numberofservers' = numberofservers - 1
        /\ work' = <<Frame("del", h, elements[h])>> \o below
        /\ tree' = tree /\ fn' = fn
    BY <1>3 DEF EnterRemove
  <2> HIDE DEF h
  <2>2. work' \in Seq(Frames)
    BY <1>1, <1>3, <2>1, CountsNow, ElementKinds, NewFrame, FrameStack
  <2>3. /\ Counts(elements', numberofservers', count', shadowed')
        /\ numberofservers' \in Nat /\ count' \in Nat
    BY <1>1, <1>3, <2>1, CountsNow, CountsServerRemoved
  <2>4. RingTypeOK'
    <3>1. elements' \in [Slots -> Elements]
      BY <1>1, <2>1, CountsNow, ElementKinds
    <3> QED
      BY <2>1, <2>3, <3>1 DEF IInv, TypeOK, RingTypeOK
  <2> QED
    BY <2>2, <2>3, <2>4, CountsThen
<1> QED
  BY <1>2, <1>3

-----------------------------------------------------------------------------
(* Each action keeps the invariant.                                        *)

LEMMA InvParts ==
  ASSUME RingTypeOK', WorkTypeOK', HistoryTypeOK', CountersExact'
  PROVE  IInv'
BY DEF IInv, TypeOK

LEMMA HistoryKept ==
  ASSUME IInv, UNCHANGED history
  PROVE  HistoryTypeOK'
BY DEF IInv, TypeOK, HistoryTypeOK, history

LEMMA RequestHistory ==
  ASSUME IInv, status = "ok", NEW ip \in Ips, NEW port \in Ports, Remember(ip, port),
         UNCHANGED <<shadowed, stale, torn>>
  PROVE  HistoryTypeOK'
BY RoutesType DEF IInv, TypeOK, HistoryTypeOK, Remember, Addresses

LEMMA AddServerInv ==
  ASSUME IInv, NEW r \in AddRequests, AddServer(r[1], r[2], r[3])
  PROVE  IInv'
<1>1. r[1] \in Ips /\ r[2] \in Ports /\ r[3] \in 0 .. MaxWeight
  BY RingAssumption
<1>2. /\ status = "ok" /\ UNCHANGED <<status, shadowed, stale, torn>>
      /\ EnterAdd(<<r[1], Plain>>, r[2], r[3], << >>) /\ Remember(r[1], r[2])
  BY DEF AddServer, Idle
<1>3. RingTypeOK' /\ CountersExact' /\ work' \in Seq(Frames)
  <2>1. <<r[1], Plain>> \in Names /\ UNCHANGED <<status, shadowed>>
    BY <1>1, <1>2, NameTypes
  <2> QED
    BY <1>1, <1>2, <2>1, EnterAddInv, FrameStack
<1>4. HistoryTypeOK'
  BY <1>1, <1>2, RequestHistory
<1> QED
  BY <1>2, <1>3, <1>4, InvParts DEF WorkTypeOK

LEMMA DelServerInv ==
  ASSUME IInv, NEW r \in DelRequests, DelServer(r[1], r[2])
  PROVE  IInv'
<1>1. r[1] \in Ips /\ r[2] \in Ports
  BY RingAssumption
<1>2. /\ status = "ok" /\ UNCHANGED <<status, shadowed, stale, torn>>
      /\ EnterRemove(<<r[1], Plain>>, r[2], << >>) /\ Remember(r[1], r[2])
  BY DEF DelServer, Idle
<1>3. RingTypeOK' /\ CountersExact' /\ work' \in Seq(Frames)
  <2>1. <<r[1], Plain>> \in Names /\ UNCHANGED <<status, shadowed>>
    BY <1>1, <1>2, NameTypes
  <2> QED
    BY <1>1, <1>2, <2>1, EnterRemoveInv, FrameStack
<1>4. HistoryTypeOK'
  BY <1>1, <1>2, RequestHistory
<1> QED
  BY <1>2, <1>3, <1>4, InvParts DEF WorkTypeOK

LEMMA SetKeyInv ==
  ASSUME IInv, NEW k \in Keys, SetKey(k)
  PROVE  IInv'
<1> DEFINE h      == fn.key[k]
           placed == [elements EXCEPT ![h] = Key(k, NULL, NULL)]
           owner  == elements[Owner(placed, h)]
           e      == Key(k, owner.ip, owner.port)
           set    == [elements EXCEPT ![h] = e]
<1>1. /\ status = "ok" /\ elements[h].type # "key" /\ ServersOf(placed) # {}
      /\ elements' = Forwarded([placed EXCEPT ![h] = e], h)
      /\ count' = count + 1
      /\ shadowed' = IF elements[h].type = "server" THEN shadowed \cup {h} ELSE shadowed
      /\ UNCHANGED <<numberofservers, tree, fn, work, status, stale, torn, before>>
  BY DEF SetKey, Idle
<1>2. h \in Places /\ h \in Slots /\ elements \in [Slots -> Elements]
  BY <1>1, CountsNow, PointerFacts DEF IInv, TypeOK, RingTypeOK
<1>3. owner \in ServerElements
  <2>1. Owner(placed, h) \in ServersOf(placed)
    BY <1>1, <1>2, OwnerIsServer
  <2>2. \A g \in Slots : placed[g].type = "server" => elements[g].type = "server"
    BY <1>2 DEF Key
  <2>3. Owner(placed, h) \in Slots /\ elements[Owner(placed, h)].type = "server"
    BY <2>1, <2>2 DEF ServersOf
  <2> QED
    BY <2>3, <1>2, ElementKinds
<1>4. e \in KeyElements
  BY <1>3 DEF Key, KeyElements, ServerElements
<1>5. [placed EXCEPT ![h] = e] = set
  BY <1>2
<1>6. set \in [Slots -> Elements]
  BY <1>2, <1>4 DEF Elements
<1> HIDE DEF h, placed, owner, e
<1>7. elements' \in [Slots -> Elements] /\ SameKinds(elements', set)
  BY <1>1, <1>2, <1>5, <1>6, ForwardedType
<1>8. Counts(set, numberofservers, count + 1, shadowed')
  BY <1>1, <1>2, <1>4, CountsNow, CountsKeyAdded
<1>9. CountersExact'
  BY <1>1, <1>7, <1>8, CountsKept, CountsThen
<1>10. RingTypeOK' /\ WorkTypeOK'
  <2>1. WorkTypeOK'
    BY <1>1 DEF IInv, TypeOK, WorkTypeOK
  <2>2. count' \in Nat /\ numberofservers' \in Nat
    BY <1>1 DEF IInv, TypeOK, RingTypeOK
  <2> QED
    BY <1>1, <1>7, <2>1, <2>2 DEF IInv, TypeOK, RingTypeOK
<1>11. HistoryTypeOK'
  BY <1>1, <1>2 DEF IInv, TypeOK, HistoryTypeOK
<1> QED
  BY <1>9, <1>10, <1>11, InvParts

LEMMA SetKeySpinsInv ==
  ASSUME IInv, NEW k \in Keys, SetKeySpins(k)
  PROVE  IInv'
<1> DEFINE h == fn.key[k]
           e == Key(k, NULL, NULL)
<1>1. /\ status = "ok" /\ elements[h].type # "key"
      /\ elements' = [elements EXCEPT ![h] = e]
      /\ ServersOf([elements EXCEPT ![h] = e]) = {}
      /\ status' = "spinning"
      /\ shadowed' = IF elements[h].type = "server" THEN shadowed \cup {h} ELSE shadowed
      /\ UNCHANGED <<count, numberofservers, tree, fn, work, stale, torn, before>>
  BY DEF SetKeySpins, Idle
<1>2. h \in Places /\ h \in Slots
  BY PointerFacts DEF IInv, TypeOK, RingTypeOK
<1>3. e \in Unplaced
  BY DEF Key, Unplaced
<1> HIDE DEF h, e
<1>4. Counts(elements', numberofservers, count + 1, shadowed')
  BY <1>1, <1>2, <1>3, CountsNow, CountsKeyAdded
<1>5. CountersExact'
  BY <1>1, <1>4 DEF Counts, CountersExact
<1>6. elements' \in [Slots -> Elements \cup Unplaced]
  BY <1>1, <1>2, <1>3, CountsNow
<1>7. RingTypeOK' /\ WorkTypeOK'
  BY <1>1, <1>6 DEF IInv, TypeOK, RingTypeOK, WorkTypeOK
<1>8. HistoryTypeOK'
  BY <1>1, <1>2 DEF IInv, TypeOK, HistoryTypeOK
<1> QED
  BY <1>1, <1>5, <1>7, <1>8, InvParts

LEMMA GetKeyInv ==
  ASSUME IInv, NEW k \in Keys, GetKey(k)
  PROVE  IInv'
<1>1. /\ status = "ok" /\ elements' = Forwarded(elements, fn.key[k])
      /\ UNCHANGED <<count, numberofservers, tree, fn, work, status, history>>
  BY DEF GetKey, Idle
<1>2. fn.key[k] \in Slots
  BY PointerFacts DEF IInv, TypeOK, RingTypeOK
<1>3. elements' \in [Slots -> Elements] /\ SameKinds(elements', elements)
  BY <1>1, <1>2, CountsNow, ForwardedType
<1>4. CountersExact'
  BY <1>1, <1>3, CountsNow, CountsKept, CountsThen DEF history
<1>5. RingTypeOK' /\ WorkTypeOK'
  BY <1>1, <1>3 DEF IInv, TypeOK, RingTypeOK, WorkTypeOK
<1> QED
  BY <1>1, <1>4, <1>5, HistoryKept, InvParts

(* The call on top of the stack.                                           *)
LEMMA TopFrame ==
  ASSUME IInv, work # << >>
  PROVE  /\ Top \in Frames /\ Below \in Seq(Frames)
         /\ Top.at \in Places /\ Top.at \in Slots /\ Top.e \in ServerElements
         /\ Top.i \in 0 .. MaxWeight /\ Top.cur \in Pointers
         /\ Top.e.ip[1] \in Ips /\ Top.e.port \in Ports
         /\ Top.e.numberofvirtualnodes \in 0 .. MaxWeight
<1>1. Top \in Frames /\ Below \in Seq(Frames)
  BY FrameStack DEF IInv, TypeOK, WorkTypeOK, Top, Below
<1>2. /\ Top.at \in Places /\ Top.e \in ServerElements
      /\ Top.i \in 0 .. MaxWeight /\ Top.cur \in Pointers
  BY <1>1 DEF Frames
<1>3. /\ Top.e.ip \in Names /\ Top.e.port \in Ports
      /\ Top.e.numberofvirtualnodes \in 0 .. MaxWeight
  BY <1>2 DEF ServerElements
<1> QED
  BY <1>1, <1>2, <1>3, NameTypes, PointerFacts

LEMMA NextVirtual ==
  ASSUME IInv, work # << >>, Top.i < Top.e.numberofvirtualnodes
  PROVE  Counted \in Seq(Frames) /\ <<Top.e.ip[1], Top.i>> \in Names
<1>1. Top.i + 1 \in 0 .. MaxWeight /\ Top.i \in 0 .. MaxWeight - 1
  BY TopFrame, NameTypes
<1>2. [Top EXCEPT !.i = @ + 1] \in Frames
  BY <1>1, TopFrame DEF Frames
<1> QED
  BY <1>1, <1>2, TopFrame, FrameStack, NameTypes DEF Counted

(* A step that only moves the call on top along.                           *)
LEMMA MovedFrame ==
  ASSUME IInv, status = "ok", work # << >>, NEW f \in Frames, work' = <<f>> \o Below,
         UNCHANGED <<ring, status, history>>
  PROVE  IInv'
<1>1. work' \in Seq(Frames)
  BY TopFrame, FrameStack
<1>2. RingTypeOK' /\ CountersExact'
  BY RingKept DEF history
<1> QED
  BY <1>1, <1>2, HistoryKept, InvParts DEF WorkTypeOK

LEMMA AddVirtualInv ==
  ASSUME IInv, AddVirtual
  PROVE  IInv'
<1>1. /\ status = "ok" /\ work # << >> /\ Top.i < Top.e.numberofvirtualnodes
      /\ EnterAdd(<<Top.e.ip[1], Top.i>>, Top.e.port, 0, Counted)
      /\ UNCHANGED <<status, history>>
  BY DEF AddVirtual, In
<1>2. UNCHANGED <<status, shadowed>> /\ 0 \in 0 .. MaxWeight
  BY <1>1, NameTypes DEF history
<1>3. RingTypeOK' /\ CountersExact' /\ work' \in Seq(Frames)
  BY <1>1, <1>2, TopFrame, NextVirtual, EnterAddInv
<1> QED
  BY <1>1, <1>3, HistoryKept, InvParts DEF WorkTypeOK

LEMMA RemoveVirtualInv ==
  ASSUME IInv, RemoveVirtual
  PROVE  IInv'
<1>1. /\ status = "ok" /\ work # << >> /\ Top.i < Top.e.numberofvirtualnodes
      /\ \/ EnterRemove(<<Top.e.ip[1], Top.i>>, Top.e.port, Counted)
         \/ work' = Counted /\ UNCHANGED ring
      /\ UNCHANGED <<status, history>>
  BY DEF RemoveVirtual, In
<1>2. UNCHANGED <<status, shadowed>>
  BY <1>1 DEF history
<1>3. RingTypeOK' /\ CountersExact' /\ work' \in Seq(Frames)
  <2>1. CASE EnterRemove(<<Top.e.ip[1], Top.i>>, Top.e.port, Counted)
    BY <1>1, <1>2, <2>1, TopFrame, NextVirtual, EnterRemoveInv
  <2>2. CASE work' = Counted /\ UNCHANGED ring
    BY <1>1, <1>2, <2>2, NextVirtual, RingKept
  <2> QED
    BY <1>1, <2>1, <2>2
<1> QED
  BY <1>1, <1>3, HistoryKept, InvParts DEF WorkTypeOK

LEMMA WalkInv ==
  ASSUME IInv, BeginInsert \/ InsertStep \/ BeginRemove \/ FindMinStep
  PROVE  IInv'
<1>1. tree.root \in Pointers /\ \A p \in Places : /\ tree.left[p] \in Pointers
                                                   /\ tree.right[p] \in Pointers
  BY DEF IInv, TypeOK, RingTypeOK, Trees
<1>2. CASE BeginInsert
  <2>1. [Top EXCEPT !.phase = "tree", !.cur = tree.root] \in Frames
    BY <1>1, <1>2, TopFrame DEF BeginInsert, In, Frames
  <2> QED
    BY <1>2, <2>1, MovedFrame DEF BeginInsert, In
<1>3. CASE InsertStep
  <2>1. [Top EXCEPT !.cur = Child(tree, Top.cur, Top.at)] \in Frames
    BY <1>1, <1>3, TopFrame DEF InsertStep, In, Frames, Child
  <2> QED
    BY <1>3, <2>1, MovedFrame DEF InsertStep, In
<1>4. CASE BeginRemove
  <2>1. [Top EXCEPT !.phase = "tree",
                    !.cur = IF HasPair(tree, Top.at) THEN tree.right[Top.at] ELSE Null]
          \in Frames
    BY <1>1, <1>4, TopFrame, PointerFacts DEF BeginRemove, In, Frames
  <2> QED
    BY <1>4, <2>1, MovedFrame DEF BeginRemove, In
<1>5. CASE FindMinStep
  <2>1. [Top EXCEPT !.cur = tree.left[@]] \in Frames
    BY <1>1, <1>5, TopFrame DEF FindMinStep, In, Frames
  <2> QED
    BY <1>5, <2>1, MovedFrame DEF FindMinStep, In
<1> QED
  BY <1>2, <1>3, <1>4, <1>5

LEMMA UndefinedInv ==
  ASSUME IInv, WildPointer \/ ArrayUnwritten
  PROVE  IInv'
<1>1. /\ status = "ok" /\ status' = "undefined"
      /\ UNCHANGED <<ring, work, history>>
  BY DEF WildPointer, ArrayUnwritten, In, Undefined
<1>2. RingTypeOK' /\ CountersExact'
  BY <1>1, RingKept DEF history
<1> QED
  BY <1>1, <1>2, HistoryKept, InvParts DEF IInv, TypeOK, WorkTypeOK

LEMMA ForgetType ==
  ASSUME IInv, Forget
  PROVE  before' \in [addr : Addresses \cup {NULL},
                     routes : [Slots -> Addresses \cup {NULL}]]
BY DEF IInv, TypeOK, HistoryTypeOK, Forget, NoRequest

\* addvirtualnodes' write to the element, whatever the slot holds.
LEMMA MarkedType ==
  ASSUME NEW elems \in [Slots -> Elements], NEW h \in Slots
  PROVE  LET marked == [elems EXCEPT ![h].isvirtualnode = TRUE]
         IN  marked \in [Slots -> Elements] /\ SameKinds(marked, elems)
<1> DEFINE e == [elems[h] EXCEPT !.isvirtualnode = TRUE]
<1>1. e \in Elements /\ e.type = elems[h].type
  <2>1. CASE elems[h] \in ServerElements
    BY <2>1 DEF ServerElements, Elements
  <2>2. CASE elems[h] \in KeyElements
    <3>1. e = elems[h]
      BY <2>2 DEF KeyElements
    <3> QED
      BY <3>1
  <2>3. CASE elems[h] = Empty
    <3>1. e = elems[h]
      BY <2>3 DEF Empty
    <3> QED
      BY <3>1
  <2> QED
    BY <2>1, <2>2, <2>3 DEF Elements
<1> HIDE DEF e
<1>2. [elems EXCEPT ![h] = e] \in [Slots -> Elements] /\ SameKinds([elems EXCEPT ![h] = e], elems)
  BY <1>1 DEF SameKinds
<1> QED
  BY <1>2 DEF e

(* Ranges and remapping leave every slot its kind of element.              *)
LEMMA FinishAddKinds ==
  ASSUME IInv, FinishAdd
  PROVE  elements' \in [Slots -> Elements] /\ SameKinds(elements', elements)
<1> DEFINE h        == Top.at
           ranged   == RangesUpdated(elements)
           remapped == IF numberofservers > 1 THEN RemappedAdd(ranged, h, Top.e) ELSE ranged
           marked   == [remapped EXCEPT ![h].isvirtualnode = TRUE]
<1>1. /\ status = "ok" /\ work # << >>
      /\ elements' = IF Below = << >> THEN remapped ELSE marked
  BY DEF FinishAdd, In
<1>2. elements \in [Slots -> Elements]
  BY <1>1, CountsNow
<1>3. ranged \in [Slots -> Elements] /\ SameKinds(ranged, elements)
  BY <1>2, RangesUpdatedType
<1> HIDE DEF ranged
<1>4. remapped \in [Slots -> Elements] /\ SameKinds(remapped, elements)
  BY <1>1, <1>3, TopFrame, RemappedAddType DEF SameKinds
<1> HIDE DEF remapped
<1>5. marked \in [Slots -> Elements] /\ SameKinds(marked, elements)
  BY <1>1, <1>4, TopFrame, MarkedType DEF SameKinds
<1> HIDE DEF marked
<1> QED
  BY <1>1, <1>4, <1>5

LEMMA FinishAddInv ==
  ASSUME IInv, FinishAdd
  PROVE  IInv'
<1>1. /\ status = "ok" /\ work # << >>
      /\ tree' = Inserted(tree, Top.at, Top.cur)
      /\ work' = Below
      /\ stale' \subseteq stale
      /\ UNCHANGED <<count, numberofservers, fn, status, shadowed, torn>>
      /\ Forget
  BY DEF FinishAdd, In
<1>2. elements' \in [Slots -> Elements] /\ SameKinds(elements', elements)
  BY FinishAddKinds
<1>3. CountersExact'
  BY <1>1, <1>2, CountsNow, CountsKept, CountsThen
<1>4. tree' \in Trees
  BY <1>1, TopFrame, InsertedType DEF IInv, TypeOK, RingTypeOK
<1>5. RingTypeOK'
  BY <1>1, <1>2, <1>4 DEF IInv, TypeOK, RingTypeOK
<1>6. WorkTypeOK'
  BY <1>1, TopFrame DEF IInv, TypeOK, WorkTypeOK
<1>7. HistoryTypeOK'
  BY <1>1, ForgetType DEF IInv, TypeOK, HistoryTypeOK
<1> QED
  BY <1>3, <1>5, <1>6, <1>7, InvParts

LEMMA FinishRemoveKinds ==
  ASSUME IInv, FinishRemove
  PROVE  elements' \in [Slots -> Elements] /\ SameKinds(elements', elements)
<1> DEFINE h      == Top.at
           ranged == RangesUpdated(elements)
<1>1. /\ status = "ok" /\ work # << >>
      /\ ArrayFits(elements, numberofservers)
      /\ IF numberofservers > 0 THEN elements' = RemappedDel(ranged, h)
                                ELSE elements' = elements
  BY DEF FinishRemove, In
<1>2. elements \in [Slots -> Elements] /\ numberofservers \in Nat
  BY <1>1, CountsNow
<1>3. ranged \in [Slots -> Elements] /\ SameKinds(ranged, elements)
  BY <1>2, RangesUpdatedType
<1> HIDE DEF ranged
<1>4. CASE numberofservers > 0
  <2>1. NodesArray(elements) # {}
    <3>1. Cardinality(NodesArray(elements)) # 0
      BY <1>1, <1>4 DEF ArrayFits
    <3> QED
      BY <3>1, FS_EmptySet
  <2>2. ServersOf(ranged) # {}
    BY <1>3, <2>1, SlotSetsFinite, SameKindsSets
  <2> QED
    BY <1>1, <1>3, <1>4, <2>2, TopFrame, RemappedDelType DEF SameKinds
<1>5. CASE ~(numberofservers > 0)
  BY <1>1, <1>2, <1>5 DEF SameKinds
<1> QED
  BY <1>4, <1>5

LEMMA FinishRemoveInv ==
  ASSUME IInv, FinishRemove
  PROVE  IInv'
<1>1. /\ status = "ok" /\ work # << >>
      /\ tree' = Freed(Removed(tree, Top.at, Top.cur), Top.at)
      /\ work' = Below
      /\ torn' = (torn \/ Tears(tree, Top.at, Top.cur))
      /\ \/ stale' = stale \ Arc(elements, Top.at)
         \/ stale' = stale \cup KeysOf(elements)
      /\ UNCHANGED <<count, numberofservers, fn, status, shadowed>>
      /\ Forget
  BY DEF FinishRemove, In
<1>2. elements' \in [Slots -> Elements] /\ SameKinds(elements', elements)
  BY FinishRemoveKinds
<1>3. CountersExact'
  BY <1>1, <1>2, CountsNow, CountsKept, CountsThen
<1>4. tree' \in Trees
  BY <1>1, TopFrame, RemovedType, FreedType DEF IInv, TypeOK, RingTypeOK
<1>5. RingTypeOK'
  BY <1>1, <1>2, <1>4 DEF IInv, TypeOK, RingTypeOK
<1>6. WorkTypeOK'
  BY <1>1, TopFrame DEF IInv, TypeOK, WorkTypeOK
<1>7. HistoryTypeOK'
  <2>1. stale' \subseteq Slots
    BY <1>1, SlotSetsFinite DEF IInv, TypeOK, HistoryTypeOK
  <2>2. torn' \in BOOLEAN
    BY <1>1
  <2> QED
    BY <1>1, <2>1, <2>2, ForgetType DEF IInv, TypeOK, HistoryTypeOK
<1> QED
  BY <1>3, <1>5, <1>6, <1>7, InvParts

-----------------------------------------------------------------------------
(* The theorems.                                                           *)

LEMMA InitInv ==
  ASSUME Init
  PROVE  IInv
<1>1. ServersOf(elements) = {} /\ KeysOf(elements) = {}
  BY DEF Init, ServersOf, KeysOf, Empty
<1>2. CountersExact
  BY <1>1, FS_EmptySet DEF Init, CountersExact
<1>3. RingTypeOK
  <2>1. elements \in [Slots -> Elements]
    BY DEF Init, Elements
  <2>2. tree \in Trees
    BY PointerFacts DEF Init, EmptyTree, Trees
  <2> QED
    BY <2>1, <2>2, RingAssumption DEF Init, RingTypeOK
<1>4. WorkTypeOK
  BY FrameStack DEF Init, WorkTypeOK
<1>5. HistoryTypeOK
  BY DEF Init, HistoryTypeOK, NoRequest
<1> QED
  BY <1>2, <1>3, <1>4, <1>5 DEF IInv, TypeOK

LEMMA NextInv ==
  ASSUME IInv, [Next]_vars
  PROVE  IInv'
<1>1. ASSUME NEW r \in AddRequests, AddServer(r[1], r[2], r[3]) PROVE IInv'
  BY <1>1, AddServerInv
<1>2. ASSUME NEW r \in DelRequests, DelServer(r[1], r[2]) PROVE IInv'
  BY <1>2, DelServerInv
<1>3. ASSUME NEW k \in Keys, SetKey(k) \/ SetKeySpins(k) \/ GetKey(k) PROVE IInv'
  BY <1>3, SetKeyInv, SetKeySpinsInv, GetKeyInv
<1>4. CASE Worker
  BY <1>4, AddVirtualInv, WalkInv, FinishAddInv, RemoveVirtualInv, FinishRemoveInv,
     UndefinedInv DEF Worker
<1>5. CASE UNCHANGED vars
  BY <1>5 DEF vars, ring, history, IInv, TypeOK, RingTypeOK, WorkTypeOK, HistoryTypeOK,
     CountersExact, ServersOf, KeysOf
<1> QED
  BY <1>1, <1>2, <1>3, <1>4, <1>5 DEF Next, Request

(* The inductive invariant holds of every behaviour.                       *)
THEOREM Invariant == Spec => []IInv
<1>1. Init => IInv
  BY InitInv
<1>2. IInv /\ [Next]_vars => IInv'
  BY NextInv
<1> QED
  BY <1>1, <1>2, PTL DEF Spec

(* The ring, the worker's stack and the history keep their types, through  *)
(* the code's wild pointers and nested calls too.                          *)
THEOREM TypeCorrect == Spec => []TypeOK
<1>1. IInv => TypeOK
  BY DEF IInv
<1> QED
  BY <1>1, Invariant, PTL

(* The counters of the ring are exact however calls nest, names collide    *)
(* and keys overwrite servers.                                             *)
THEOREM CountersCorrect == Spec => []CountersExact
<1>1. IInv => CountersExact
  BY DEF IInv
<1> QED
  BY <1>1, Invariant, PTL

(* generatenodesarray never writes past the array it has allocated.        *)
ArrayNeverOverrun == Cardinality(NodesArray(elements)) <= numberofservers

THEOREM ArrayCorrect == Spec => []ArrayNeverOverrun
<1>1. IInv => ArrayNeverOverrun
  <2> SUFFICES ASSUME IInv PROVE ArrayNeverOverrun
    OBVIOUS
  <2>1. IsFiniteSet(shadowed) /\ Cardinality(shadowed) \in Nat
    BY SlotsFinite, PointerFacts DEF IInv, TypeOK, HistoryTypeOK
  <2> QED
    BY <2>1, SlotSetsFinite DEF IInv, CountersExact, ArrayNeverOverrun
<1> QED
  BY <1>1, Invariant, PTL

-----------------------------------------------------------------------------
(* Distances on the ring.                                                  *)

LEMMA Wraps ==
  ASSUME NEW N \in Nat \ {0}
  PROVE  /\ \A x \in 0 .. N - 1 : x % N = x
         /\ \A x \in N .. 2 * N - 1 : x % N = x - N
<1>1. ASSUME NEW x \in 0 .. N - 1 PROVE x % N = x
  BY SMT
<1>2. ASSUME NEW x \in N .. 2 * N - 1 PROVE x % N = x - N
  BY SMT
<1> QED
  BY <1>1, <1>2

LEMMA ClockIs ==
  ASSUME NEW h \in Slots, NEW i \in Slots
  PROVE  Clock(h, i) = IF i >= h THEN i - h ELSE i - h + Size + 1
<1> DEFINE N == Size + 1
<1>1. N \in Nat \ {0} /\ h \in 0 .. N - 1 /\ i \in 0 .. N - 1
  BY PointerFacts DEF Slots
<1>2. /\ \A x \in 0 .. N - 1 : x % N = x
      /\ \A x \in N .. 2 * N - 1 : x % N = x - N
  BY <1>1, Wraps
<1>3. Clock(h, i) = (i - h + N) % N
  BY <1>1, PointerFacts DEF Clock
<1>4. i - h + N = i - h + Size + 1
  BY <1>1, PointerFacts
<1> HIDE DEF N
<1>5. CASE i >= h
  <2>1. i - h + N \in N .. 2 * N - 1
    BY <1>1, <1>5
  <2> QED
    BY <1>1, <1>2, <1>3, <1>5, <2>1
<1>6. CASE ~(i >= h)
  <2>1. i - h + N \in 0 .. N - 1
    BY <1>1, <1>6
  <2> QED
    BY <1>2, <1>3, <1>4, <1>6, <2>1
<1> QED
  BY <1>5, <1>6

\* The slot k steps up from h.
Ahead(h, k) == (h + k) % (Size + 1)

LEMMA AheadIs ==
  ASSUME NEW h \in Slots, NEW k \in Slots
  PROVE  /\ Ahead(h, k) \in Slots
         /\ Clock(h, Ahead(h, k)) = k
<1> DEFINE N == Size + 1
<1>1. N \in Nat \ {0} /\ h \in 0 .. N - 1 /\ k \in 0 .. N - 1 /\ Slots = 0 .. N - 1
  BY PointerFacts DEF Slots
<1>2. /\ \A x \in 0 .. N - 1 : x % N = x
      /\ \A x \in N .. 2 * N - 1 : x % N = x - N
  BY <1>1, Wraps
<1>3. Ahead(h, k) = (h + k) % N
  BY DEF Ahead
<1> HIDE DEF N
<1>4. Ahead(h, k) = IF h + k < N THEN h + k ELSE h + k - N
  <2>1. CASE h + k < N
    BY <1>1, <1>2, <1>3, <2>1
  <2>2. CASE ~(h + k < N)
    <3>1. h + k \in N .. 2 * N - 1
      BY <1>1, <2>2
    <3>2. PICK x \in N .. 2 * N - 1 : x = h + k
      BY <3>1
    <3>3. x % N = x - N
      BY <1>2
    <3> QED
      BY <1>1, <1>3, <2>2, <3>2, <3>3
  <2> QED
    BY <2>1, <2>2
<1>5. Ahead(h, k) \in Slots
  BY <1>1, <1>4
<1>6. N = Size + 1 /\ Size \in Nat
  BY PointerFacts DEF N
<1> QED
  BY <1>1, <1>4, <1>5, <1>6, ClockIs

LEMMA AheadClock ==
  ASSUME NEW h \in Slots, NEW i \in Slots
  PROVE  Ahead(h, Clock(h, i)) = i
<1>1. Clock(h, i) \in Slots
  BY ClockInSlots
<1>2. PICK j \in Slots : j = Ahead(h, Clock(h, i)) /\ Clock(h, j) = Clock(h, i)
  BY <1>1, AheadIs
<1>3. /\ Clock(h, i) = IF i >= h THEN i - h ELSE i - h + Size + 1
      /\ Clock(h, j) = IF j >= h THEN j - h ELSE j - h + Size + 1
  BY ClockIs
<1>4. i = j
  BY <1>2, <1>3, PointerFacts DEF Slots
<1> QED
  BY <1>2, <1>4

-----------------------------------------------------------------------------
(* The stretch above a server.                                             *)

\* The stretch has the slots nearer than the next server, which is d steps up.
LEMMA ArcCount ==
  ASSUME NEW elems, NEW h \in Slots, NEW d \in 1 .. Size + 1,
         Arc(elems, h) = {i \in Slots \ {h} : Clock(h, i) < d}
  PROVE  Cardinality(Arc(elems, h)) = d - 1
<1> DEFINE f == [k \in 1 .. d - 1 |-> Ahead(h, k)]
           A == Arc(elems, h)
<1>1. \A k \in 1 .. d - 1 : k \in Slots /\ k < d /\ k # 0
  BY PointerFacts DEF Slots
<1>2. \A k \in 1 .. d - 1 : f[k] \in Slots /\ Clock(h, f[k]) = k
  BY <1>1, AheadIs
<1>3. Clock(h, h) = 0
  BY ClockIs, PointerFacts DEF Slots
<1>4. \A k \in 1 .. d - 1 : f[k] \in A
  BY <1>1, <1>2, <1>3
<1>5. \A i \in A : Clock(h, i) \in 1 .. d - 1 /\ f[Clock(h, i)] = i
  <2> SUFFICES ASSUME NEW i \in A
               PROVE  Clock(h, i) \in 1 .. d - 1 /\ f[Clock(h, i)] = i
    OBVIOUS
  <2>1. i \in Slots /\ i # h /\ Clock(h, i) < d
    OBVIOUS
  <2>2. Clock(h, i) \in 1 .. d - 1
    BY <2>1, ClockIs, PointerFacts DEF Slots
  <2> QED
    BY <2>1, <2>2, AheadClock
<1>6. f \in [1 .. d - 1 -> A]
  BY <1>4
<1> HIDE DEF f, A
<1>7. \A k, l \in 1 .. d - 1 : f[k] = f[l] => k = l
  BY <1>2
<1>8. f \in Bijection(1 .. d - 1, A)
  BY <1>5, <1>6, <1>7 DEF Bijection, Injection, Surjection, IsInjective
<1>9. IsFiniteSet(1 .. d - 1) /\ Cardinality(1 .. d - 1) = d - 1
  BY FS_Interval
<1>10. Cardinality(1 .. d - 1) = Cardinality(A)
  BY <1>8, <1>9, FS_Bijection DEF ExistsBijection
<1> QED
  BY <1>9, <1>10 DEF A

(* Sets of natural numbers have a least element.                           *)
LEMMA LeastExists ==
  ASSUME NEW set \in SUBSET Nat, set # {}
  PROVE  \E least \in set : \A x \in set : least <= x
<1>1. PICK least \in set : \A x \in set :
                              ~(<<x, least>> \in {pair \in Nat \X Nat : pair[1] < pair[2]})
  BY NatLessThanWellFounded, WFMin, Zenon DEF OpToRel
<1>2. \A x \in set : ~(x < least)
  BY <1>1
<1> QED
  BY <1>2

\* The distance to the next server, all the way around for a server alone.
LEMMA NextServer ==
  ASSUME NEW elems, NEW h \in ServersOf(elems)
  PROVE  \E d \in 1 .. Size + 1 :
           \A i \in Slots : Clock(h, i) < d <=> \A g \in ServersOf(elems) \ {h} : Clock(h, i) < Clock(h, g)
<1> DEFINE others == ServersOf(elems) \ {h}
<1>1. h \in Slots /\ others \subseteq Slots /\ h \notin others
  BY DEF ServersOf
<1>2. \A i \in Slots : Clock(h, i) \in Nat /\ Clock(h, i) <= Size
  <2>1. \A k \in Slots : k \in Nat /\ k <= Size
    BY DEF Slots
  <2> QED
    BY <1>1, <2>1, ClockInSlots
<1> HIDE DEF others
<1>3. CASE others = {}
  <2>1. Size + 1 \in 1 .. Size + 1 /\ \A i \in Slots : Clock(h, i) < Size + 1
    BY <1>2, PointerFacts
  <2> QED
    BY <1>3, <2>1 DEF others
<1>4. CASE others # {}
  <2> DEFINE D == {Clock(h, g) : g \in others}
  <2>1. D \in SUBSET Nat /\ D # {}
    BY <1>1, <1>2, <1>4
  <2>2. PICK d \in D : \A e \in D : d <= e
    BY <2>1, LeastExists
  <2>3. PICK g \in others : d = Clock(h, g)
    BY <2>2
  <2>4. d \in 1 .. Size + 1
    BY <1>1, <2>3, ClockIs, PointerFacts DEF Slots
  <2>5. \A i \in Slots : Clock(h, i) < d <=> \A e \in others : Clock(h, i) < Clock(h, e)
    <3>1. \A e \in others : d <= Clock(h, e)
      BY <2>2
    <3> QED
      BY <1>1, <1>2, <2>3, <3>1
  <2> QED
    BY <2>4, <2>5 DEF others
<1> QED
  BY <1>3, <1>4

\* A server's range, read as lookups read it, is the stretch up to the next.
LEMMA RangeIsStretch ==
  ASSUME NEW elems, NEW h \in ServersOf(elems), NEW s \in Slots
  PROVE  Clock(h, s) <= Clock(h, RangeEnd(elems, h))
           <=> \A g \in ServersOf(elems) \ {h} : Clock(h, s) < Clock(h, g)
<1>1. h \in Slots
  BY DEF ServersOf
<1>2. PICK d \in 1 .. Size + 1 :
        \A i \in Slots : Clock(h, i) < d <=> \A g \in ServersOf(elems) \ {h} : Clock(h, i) < Clock(h, g)
  BY NextServer
<1>3. Arc(elems, h) = {i \in Slots \ {h} : Clock(h, i) < d}
  BY <1>2 DEF Arc
<1>4. Cardinality(Arc(elems, h)) = d - 1
  BY <1>1, <1>3, ArcCount
<1>5. d - 1 \in Slots
  BY PointerFacts DEF Slots
<1>6. RangeEnd(elems, h) = Ahead(h, d - 1)
  BY <1>4 DEF RangeEnd, Ahead
<1>7. Clock(h, RangeEnd(elems, h)) = d - 1
  BY <1>1, <1>5, <1>6, AheadIs
<1>8. Clock(h, s) \in Int
  BY <1>1, ClockInSlots, PointerFacts DEF Slots
<1> QED
  BY <1>2, <1>7, <1>8

-----------------------------------------------------------------------------
(* Ranges that are up to date are a partition of the slots.                *)

Ranged(elems) == \A h \in ServersOf(elems) : elems[h].rangeend = RangeEnd(elems, h)

\* The server met first walking down from s is the one whose stretch has s.
LEMMA OwnersStretch ==
  ASSUME NEW elems, NEW s \in Slots, ServersOf(elems) # {}
  PROVE  \E h \in ServersOf(elems) : \A g \in ServersOf(elems) :
           (\A o \in ServersOf(elems) \ {g} : Clock(g, s) < Clock(g, o)) <=> g = h
<1> DEFINE h == Owner(elems, s)
<1>1. h \in ServersOf(elems) /\ \A g \in ServersOf(elems) : Clock(h, s) <= Clock(g, s)
  BY OwnerIsServer
<1> HIDE DEF h
<1>2. \A g \in ServersOf(elems) : g \in Slots
  BY DEF ServersOf
<1>3. \A g \in Slots : g \in 0 .. Size
  BY DEF Slots
<1>4. ASSUME NEW o \in ServersOf(elems) \ {h} PROVE Clock(h, s) < Clock(h, o)
  <2>1. /\ Clock(h, s) = IF s >= h THEN s - h ELSE s - h + Size + 1
        /\ Clock(h, o) = IF o >= h THEN o - h ELSE o - h + Size + 1
        /\ Clock(o, s) = IF s >= o THEN s - o ELSE s - o + Size + 1
    BY <1>1, <1>2, ClockIs
  <2> QED
    BY <1>1, <1>2, <1>3, <2>1, PointerFacts
<1>5. ASSUME NEW g \in ServersOf(elems) \ {h} PROVE ~(Clock(g, s) < Clock(g, h))
  <2>1. /\ Clock(h, s) = IF s >= h THEN s - h ELSE s - h + Size + 1
        /\ Clock(g, h) = IF h >= g THEN h - g ELSE h - g + Size + 1
        /\ Clock(g, s) = IF s >= g THEN s - g ELSE s - g + Size + 1
    BY <1>1, <1>2, ClockIs
  <2> QED
    BY <1>1, <1>2, <1>3, <2>1, PointerFacts
<1> QED
  BY <1>1, <1>4, <1>5

LEMMA RangedPartitions ==
  ASSUME NEW elems, ServersOf(elems) # {}, Ranged(elems), NEW s \in Slots
  PROVE  \E h \in ServersOf(elems) : \A g \in ServersOf(elems) :
           Clock(g, s) <= Clock(g, elems[g].rangeend) <=> g = h
<1>1. \A g \in ServersOf(elems) :
        Clock(g, s) <= Clock(g, elems[g].rangeend)
          <=> \A o \in ServersOf(elems) \ {g} : Clock(g, s) < Clock(g, o)
  BY RangeIsStretch DEF Ranged
<1> QED
  BY <1>1, OwnersStretch

-----------------------------------------------------------------------------
(* Requests leave ranges up to date.                                       *)

\* Same kinds in all slots, same ranges of the servers.
SameRanges(a, b) ==
  SameKinds(a, b) /\ \A h \in ServersOf(b) : a[h].rangeend = b[h].rangeend

LEMMA RangedKept ==
  ASSUME NEW a, NEW b, SameRanges(a, b), Ranged(b)
  PROVE  Ranged(a)
<1>1. ServersOf(a) = ServersOf(b)
  BY SameKindsSets DEF SameRanges
<1>2. \A h \in ServersOf(b) : RangeEnd(a, h) = RangeEnd(b, h)
  BY <1>1 DEF RangeEnd, Arc
<1> QED
  BY <1>1, <1>2 DEF Ranged, SameRanges

\* updateranges brings every server's range up to date when none stands on the
\* slot past the array.
LEMMA UpdatedIsRanged ==
  ASSUME NEW elems \in [Slots -> Elements], NodesArray(elems) = ServersOf(elems)
  PROVE  Ranged(RangesUpdated(elems))
<1>1. ServersOf(RangesUpdated(elems)) = ServersOf(elems)
  BY RangesUpdatedType, SameKindsSets
<1>2. ASSUME NEW h \in ServersOf(elems)
      PROVE  RangesUpdated(elems)[h].rangeend = RangeEnd(RangesUpdated(elems), h)
  <2>1. RangeEnd(RangesUpdated(elems), h) = RangeEnd(elems, h)
    BY <1>1 DEF RangeEnd, Arc
  <2>2. elems[h] \in ServerElements /\ h \in Slots
    BY ElementKinds DEF ServersOf
  <2>3. RangesUpdated(elems)[h] = [elems[h] EXCEPT !.rangeend = RangeEnd(elems, h)]
    BY <2>2 DEF RangesUpdated
  <2> QED
    BY <2>1, <2>2, <2>3 DEF ServerElements
<1> QED
  BY <1>1, <1>2 DEF Ranged

\* Keys change store, servers nothing.
LEMMA RemappedAddRanges ==
  ASSUME NEW elems \in [Slots -> Elements], NEW h, NEW e \in ServerElements
  PROVE  SameRanges(RemappedAdd(elems, h, e), elems)
<1>1. \A g \in ServersOf(elems) : RemappedAdd(elems, h, e)[g] = elems[g]
  BY DEF RemappedAdd, ServersOf
<1> QED
  BY <1>1, RemappedAddType DEF SameRanges

LEMMA RemappedDelRanges ==
  ASSUME NEW elems \in [Slots -> Elements], NEW h \in Slots, ServersOf(elems) # {}
  PROVE  SameRanges(RemappedDel(elems, h), elems)
<1>1. \A g \in ServersOf(elems) : RemappedDel(elems, h)[g] = elems[g]
  BY DEF RemappedDel, ServersOf
<1> QED
  BY <1>1, RemappedDelType DEF SameRanges

\* Cutting a server's name leaves its range.
LEMMA ForwardedRanges ==
  ASSUME NEW elems \in [Slots -> Elements], NEW s \in Slots
  PROVE  SameRanges(Forwarded(elems, s), elems)
<1> DEFINE h == SlotOf(elems[s].store, elems[s].port)
<1> HIDE DEF h
<1>1. ASSUME NEW g \in ServersOf(elems)
      PROVE  Forwarded(elems, s)[g].rangeend = elems[g].rangeend
  <2>1. CASE elems[h].type = "server"
    <3>1. Forwarded(elems, s) = [elems EXCEPT ![h].ip = <<@[1], Plain>>]
      BY <2>1 DEF Forwarded, h
    <3>2. g \in Slots /\ elems[g] \in ServerElements
      BY ElementKinds DEF ServersOf
    <3>3. CASE g = h
      <4>1. Forwarded(elems, s)[g] = [elems[g] EXCEPT !.ip = <<@[1], Plain>>]
        BY <3>1, <3>2, <3>3
      <4> QED
        BY <3>2, <4>1 DEF ServerElements
    <3>4. CASE g # h
      BY <3>1, <3>2, <3>4
    <3> QED
      BY <3>3, <3>4
  <2>2. CASE elems[h].type # "server"
    BY <2>2 DEF Forwarded, h
  <2> QED
    BY <2>1, <2>2
<1> QED
  BY <1>1, ForwardedType DEF SameRanges

\* Between requests, as long as no key stands on a server's slot, ranges are up
\* to date.
RangesFresh == Idle /\ shadowed = {} => Ranged(elements)

LEMMA Pushed ==
  ASSUME NEW f, NEW w \in Seq(Frames)
  PROVE  <<f>> \o w # << >>
<1> DEFINE F == Frames \cup {f}
<1>1. f \in F /\ w \in Seq(F)
  OBVIOUS
<1> HIDE DEF F
<1> QED
  BY <1>1

LEMMA NotIdle ==
  ASSUME NEW f, NEW w \in Seq(Frames), work' = <<f>> \o w
  PROVE  RangesFresh'
BY Pushed DEF RangesFresh, Idle

LEMMA RequestRanges ==
  ASSUME IInv, RangesFresh, Request
  PROVE  RangesFresh'
<1>1. ASSUME NEW r \in AddRequests, AddServer(r[1], r[2], r[3]) PROVE RangesFresh'
  <2>1. CASE UNCHANGED <<elements, status, shadowed, work>>
    BY <2>1 DEF RangesFresh, Idle, ServersOf, RangeEnd, Arc, Ranged
  <2>2. CASE ~UNCHANGED <<elements, status, shadowed, work>>
    <3>1. \E f : work' = <<f>> \o << >>
      BY <1>1, <2>2 DEF AddServer, Idle, EnterAdd, ring
    <3> QED
      BY <3>1, FrameStack, NotIdle
  <2> QED
    BY <2>1, <2>2
<1>2. ASSUME NEW r \in DelRequests, DelServer(r[1], r[2]) PROVE RangesFresh'
  <2>1. CASE UNCHANGED <<elements, status, shadowed, work>>
    BY <2>1 DEF RangesFresh, Idle, ServersOf, RangeEnd, Arc, Ranged
  <2>2. CASE ~UNCHANGED <<elements, status, shadowed, work>>
    <3>1. \E f : work' = <<f>> \o << >>
      BY <1>2, <2>2 DEF DelServer, Idle, EnterRemove, ring
    <3> QED
      BY <3>1, FrameStack, NotIdle
  <2> QED
    BY <2>1, <2>2
<1>3. ASSUME NEW k \in Keys, SetKey(k) PROVE RangesFresh'
  <2> SUFFICES ASSUME shadowed' = {}
               PROVE  Ranged(elements')
    BY DEF RangesFresh, Ranged, ServersOf, RangeEnd, Arc
  <2> DEFINE h      == fn.key[k]
             placed == [elements EXCEPT ![h] = Key(k, NULL, NULL)]
             owner  == elements[Owner(placed, h)]
             e      == Key(k, owner.ip, owner.port)
             set    == [elements EXCEPT ![h] = e]
  <2>1. /\ Idle /\ ServersOf(placed) # {}
        /\ elements' = Forwarded([placed EXCEPT ![h] = e], h)
        /\ shadowed' = IF elements[h].type = "server" THEN shadowed \cup {h} ELSE shadowed
    BY <1>3 DEF SetKey
  <2>2. shadowed = {} /\ elements[h].type # "server" /\ Ranged(elements)
    BY <2>1 DEF RangesFresh
  <2>3. h \in Slots /\ elements \in [Slots -> Elements]
    BY <2>1, CountsNow, PointerFacts DEF Idle, IInv, TypeOK, RingTypeOK
  <2>4. [placed EXCEPT ![h] = e] = set
    BY <2>3
  <2>5. owner \in ServerElements
    <3>1. Owner(placed, h) \in ServersOf(placed)
      BY <2>1, <2>3, OwnerIsServer
    <3>2. \A g \in Slots : placed[g].type = "server" => elements[g].type = "server"
      BY <2>3 DEF Key
    <3>3. Owner(placed, h) \in Slots /\ elements[Owner(placed, h)].type = "server"
      BY <3>1, <3>2 DEF ServersOf
    <3> QED
      BY <2>3, <3>3, ElementKinds
  <2>6. e \in KeyElements /\ e.type = "key"
    BY <2>5 DEF Key, KeyElements, ServerElements
  <2> HIDE DEF h, placed, owner, e
  <2>7. set \in [Slots -> Elements]
    BY <2>3, <2>6 DEF Elements
  <2>8. /\ ServersOf(set) = ServersOf(elements)
        /\ \A g \in ServersOf(elements) : set[g] = elements[g]
    BY <2>2, <2>3, <2>6 DEF ServersOf
  <2>9. Ranged(set)
    BY <2>2, <2>8 DEF Ranged, RangeEnd, Arc
  <2>10. elements' = Forwarded(set, h)
    BY <2>1, <2>4
  <2> HIDE DEF set
  <2>11. SameRanges(elements', set)
    BY <2>3, <2>7, <2>10, ForwardedRanges
  <2> QED
    BY <2>9, <2>11, RangedKept
<1>4. ASSUME NEW k \in Keys, SetKeySpins(k) PROVE RangesFresh'
  BY <1>4 DEF SetKeySpins, RangesFresh, Idle
<1>5. ASSUME NEW k \in Keys, GetKey(k) PROVE RangesFresh'
  <2>1. Idle /\ elements' = Forwarded(elements, fn.key[k]) /\ shadowed' = shadowed
    BY <1>5 DEF GetKey, history
  <2>2. fn.key[k] \in Slots /\ elements \in [Slots -> Elements]
    BY <2>1, CountsNow, PointerFacts DEF Idle, IInv, TypeOK, RingTypeOK
  <2>3. SameRanges(elements', elements)
    BY <2>1, <2>2, ForwardedRanges
  <2>4. shadowed' = {} => Ranged(elements')
    BY <2>1, <2>3, RangedKept DEF RangesFresh
  <2> QED
    BY <2>4 DEF RangesFresh, Ranged, ServersOf, RangeEnd, Arc
<1> QED
  BY <1>1, <1>2, <1>3, <1>4, <1>5 DEF Request

LEMMA ServersCounted ==
  ASSUME IInv, shadowed = {}
  PROVE  numberofservers = Cardinality(ServersOf(elements))
<1>1. Cardinality(shadowed) = 0
  BY FS_EmptySet
<1>2. numberofservers = Cardinality(ServersOf(elements)) + Cardinality(shadowed)
  BY DEF IInv, CountersExact
<1>3. Cardinality(ServersOf(elements)) \in Nat
  BY SlotSetsFinite
<1> QED
  BY <1>1, <1>2, <1>3

\* The array the code allocated is full only when no server stands past it.
LEMMA ArrayHoldsServers ==
  ASSUME IInv, ArrayFits(elements, numberofservers), shadowed = {}
  PROVE  NodesArray(elements) = ServersOf(elements)
<1>1. Cardinality(NodesArray(elements)) = Cardinality(ServersOf(elements))
  BY ServersCounted DEF ArrayFits
<1> QED
  BY <1>1, SlotSetsFinite, FS_Subset

LEMMA FinishAddRanges ==
  ASSUME IInv, FinishAdd
  PROVE  RangesFresh'
<1> SUFFICES ASSUME Below = << >>, shadowed' = {}
             PROVE  Ranged(elements')
  BY DEF FinishAdd, RangesFresh, Idle, Ranged, ServersOf, RangeEnd, Arc
<1> DEFINE ranged   == RangesUpdated(elements)
           remapped == IF numberofservers > 1 THEN RemappedAdd(ranged, Top.at, Top.e) ELSE ranged
<1>1. /\ status = "ok" /\ work # << >> /\ ArrayFits(elements, numberofservers)
      /\ shadowed = {} /\ elements' = remapped
  BY DEF FinishAdd, In
<1>2. elements \in [Slots -> Elements]
  BY <1>1, CountsNow
<1>3. ranged \in [Slots -> Elements] /\ Ranged(ranged)
  BY <1>1, <1>2, ArrayHoldsServers, UpdatedIsRanged, RangesUpdatedType
<1> HIDE DEF ranged
<1>4. SameRanges(remapped, ranged)
  <2>1. CASE numberofservers > 1
    BY <1>1, <1>3, <2>1, TopFrame, RemappedAddRanges
  <2>2. CASE ~(numberofservers > 1)
    BY <2>2 DEF SameRanges, SameKinds
  <2> QED
    BY <2>1, <2>2
<1> HIDE DEF remapped
<1> QED
  BY <1>1, <1>3, <1>4, RangedKept

LEMMA FinishRemoveRanges ==
  ASSUME IInv, FinishRemove
  PROVE  RangesFresh'
<1> SUFFICES ASSUME shadowed' = {}
             PROVE  Ranged(elements')
  BY DEF RangesFresh, Ranged, ServersOf, RangeEnd, Arc
<1> DEFINE ranged == RangesUpdated(elements)
<1>1. /\ status = "ok" /\ work # << >> /\ ArrayFits(elements, numberofservers)
      /\ shadowed = {}
      /\ elements' = IF numberofservers > 0 THEN RemappedDel(ranged, Top.at) ELSE elements
  BY DEF FinishRemove, In
<1>2. elements \in [Slots -> Elements] /\ numberofservers \in Nat
  BY <1>1, CountsNow
<1>3. numberofservers = Cardinality(ServersOf(elements))
  BY <1>1, ServersCounted
<1>4. ranged \in [Slots -> Elements] /\ Ranged(ranged) /\ ServersOf(ranged) = ServersOf(elements)
  BY <1>1, <1>2, ArrayHoldsServers, UpdatedIsRanged, RangesUpdatedType, SameKindsSets
<1> HIDE DEF ranged
<1>5. CASE numberofservers > 0
  <2>1. ServersOf(ranged) # {}
    BY <1>3, <1>4, <1>5, FS_EmptySet
  <2>2. SameRanges(elements', ranged)
    BY <1>1, <1>4, <1>5, <2>1, TopFrame, RemappedDelRanges
  <2> QED
    BY <1>4, <2>2, RangedKept
<1>6. CASE ~(numberofservers > 0)
  <2>1. ServersOf(elements) = {}
    BY <1>2, <1>3, <1>6, SlotSetsFinite, FS_EmptySet
  <2> QED
    BY <1>1, <1>6, <2>1 DEF Ranged
<1> QED
  BY <1>5, <1>6

LEMMA WorkerRanges ==
  ASSUME IInv, Worker
  PROVE  RangesFresh'
<1>1. CASE AddVirtual \/ RemoveVirtual
  <2>1. /\ work # << >> /\ Top.i < Top.e.numberofvirtualnodes
        /\ work' = Counted \/ \E f : work' = <<f>> \o Counted
    BY <1>1 DEF AddVirtual, RemoveVirtual, In, EnterAdd, EnterRemove
  <2>2. Counted \in Seq(Frames)
    BY <2>1, NextVirtual
  <2>3. CASE work' = Counted
    BY <2>1, <2>3, TopFrame, NotIdle DEF Counted
  <2>4. CASE \E f : work' = <<f>> \o Counted
    BY <2>2, <2>4, NotIdle
  <2> QED
    BY <2>1, <2>3, <2>4
<1>2. CASE BeginInsert \/ InsertStep \/ BeginRemove \/ FindMinStep
  <2>1. work # << >> /\ \E f : work' = <<f>> \o Below
    BY <1>2 DEF BeginInsert, InsertStep, BeginRemove, FindMinStep, In
  <2> QED
    BY <2>1, TopFrame, NotIdle
<1>3. CASE WildPointer \/ ArrayUnwritten
  BY <1>3 DEF WildPointer, ArrayUnwritten, Undefined, RangesFresh, Idle
<1> QED
  BY <1>1, <1>2, <1>3, FinishAddRanges, FinishRemoveRanges DEF Worker

LEMMA RangesInvariant == Spec => []RangesFresh
<1>1. Init => RangesFresh
  BY DEF Init, RangesFresh, Ranged, ServersOf, Empty
<1>2. IInv /\ RangesFresh /\ [Next]_vars => RangesFresh'
  <2>1. ASSUME UNCHANGED vars, RangesFresh PROVE RangesFresh'
    BY <2>1 DEF vars, ring, history, RangesFresh, Idle, Ranged, ServersOf, RangeEnd, Arc
  <2> QED
    BY <2>1, RequestRanges, WorkerRanges DEF Next
<1> QED
  BY <1>1, <1>2, Invariant, PTL DEF Spec

(* Between requests, every slot lies in the range of exactly one server,   *)
(* for every ring, whatever was added, removed, set and cut before, as     *)
(* long as no key stands on a server's slot.                               *)
THEOREM RangesCorrect == Spec => []RangesPartition
<1>1. RangesFresh => RangesPartition
  BY RangedPartitions DEF RangesFresh, RangesPartition
<1> QED
  BY <1>1, RangesInvariant, PTL
=============================================================================
