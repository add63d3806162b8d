------------------------------ MODULE HashRing ------------------------------
(***************************************************************************)
(* The coordinator's hash ring (hashring.h) as the request worker drives   *)
(* it (dkvstore.c: requestHandle, coordinator_requestForward,              *)
(* serverBecomeCoordinator).  Requests arrive in any order; the calls one  *)
(* request makes (addserver and removeserver call themselves for virtual   *)
(* nodes, and walk the tree) are a stack of frames, one step per call and  *)
(* per pointer followed, so that a walk which never ends is a behaviour.   *)
(***************************************************************************)
EXTENDS Integers, Sequences, FiniteSets, RingTree

CONSTANTS
  Ips,          \* IP addresses of stores
  Ports,        \* their ports
  Keys,         \* keys clients use
  MaxWeight,    \* bound on a server's number of virtual nodes
  Functions,    \* the hash functions considered, each a possible r->fn
  AddRequests,  \* <<ip, port, weight>> a client may ADD
  DelRequests,  \* <<ip, port>> a client may DEL
  Uninit,       \* what isvirtualnode may hold before it is written
  Terminated,   \* whether the name copied without its NUL reads back intact
  NULL

Plain == -1                              \* a name without a "-i" suffix
Names == Ips \X (-1 .. MaxWeight - 1)    \* "ip" or "ip-i"
Slots == 0 .. Size

ASSUME RingAssumption ==
  /\ MaxWeight \in Nat
  /\ \A f \in Functions : /\ f.server \in [Names \X Ports -> Places]
                          /\ f.key \in [Keys -> Places]
  /\ AddRequests \subseteq Ips \X Ports \X (0 .. MaxWeight)
  /\ DelRequests \subseteq Ips \X Ports
  /\ Uninit \subseteq BOOLEAN /\ Uninit # {}
  /\ Terminated \subseteq BOOLEAN /\ Terminated # {}
  /\ NULL \notin Names /\ NULL \notin Ports

VARIABLES
  elements,         \* r->elements: what each slot holds
  count,            \* r->count
  numberofservers,  \* r->numberofservers
  tree,             \* r->tree and the elements' pointers
  fn,               \* r->fn, never changed
  work,             \* the worker's calls, the innermost first
  status,           \* "ok", "spinning" in addstore_iterative, or "undefined"
  shadowed,         \* history: server slots a key has overwritten
  stale,            \* history: keys left when the last server went
  torn,             \* history: bst_remove has spliced a pair wrongly
  before            \* history: where keys went when the request began

ring    == <<elements, count, numberofservers, tree, fn>>
history == <<shadowed, stale, torn, before>>
vars    == <<ring, work, status, history>>

-----------------------------------------------------------------------------
(* Elements of the ring and where they stand.                              *)

Empty == [type |-> "empty"]

Server(name, port, weight, virtual) ==
  [type |-> "server", ip |-> name, port |-> port, rangeend |-> 0,
   numberofvirtualnodes |-> weight, isvirtualnode |-> virtual]

Key(k, store, port) ==
  [type |-> "key", key |-> k, store |-> store, port |-> port]

ServerElements == [type : {"server"}, ip : Names, port : Ports,
                   rangeend : Slots, numberofvirtualnodes : 0 .. MaxWeight,
                   isvirtualnode : BOOLEAN]
KeyElements    == [type : {"key"}, key : Keys, store : Names, port : Ports]
Elements       == {Empty} \cup ServerElements \cup KeyElements

\* A key while its store is looked for.
Unplaced == [type : {"key"}, key : Keys, store : {NULL}, port : {NULL}]

ServersOf(elems) == {h \in Slots : elems[h].type = "server"}
KeysOf(elems)    == {h \in Slots : elems[h].type = "key"}

\* Steps from slot h to slot i, upward and around.
Clock(h, i) == (i - h + Size + 1) % (Size + 1)

\* The server met first when walking down from slot i.
Owner(elems, i) ==
  LET servers == ServersOf(elems)
  IN  CHOOSE h \in servers : \A g \in servers : Clock(h, i) <= Clock(g, i)

\* The slots from h up to the next server, h itself when it is alone.
Arc(elems, h) ==
  LET others == ServersOf(elems) \ {h}
  IN  {i \in Slots \ {h} : \A g \in others : Clock(h, i) < Clock(h, g)}

\* Faulty variant: the range takes in the next server's slot.
RangeEndLong(elems, h) == (h + Cardinality(Arc(elems, h)) + 1) % (Size + 1)

\* The last slot of that stretch.
RangeEnd(elems, h) == (h + Cardinality(Arc(elems, h))) % (Size + 1)

\* Where addserver and lookupserver look for the server <name, port>.
SlotOf(name, port) == fn.server[<<name, port>>]

Idle    == status = "ok" /\ work = << >>
Top     == Head(work)
Below   == Tail(work)

-----------------------------------------------------------------------------
(* Where a key is sent: coordinator_requestForward looks the key's store   *)
(* up by name and port, and connects to that element's ip up to its "-".   *)

Address(server) == <<server.ip[1], server.port>>

Route(elems, s) ==
  LET h == SlotOf(elems[s].store, elems[s].port)
  IN  IF elems[s].type = "key" /\ elems[h].type = "server"
      THEN Address(elems[h]) ELSE NULL

Routes(elems) == [s \in Slots |-> Route(elems, s)]

\* strtok cuts the "-i" off the name kept in the ring.
Forwarded(elems, s) ==
  LET h == SlotOf(elems[s].store, elems[s].port)
  IN  IF elems[h].type = "server"
      THEN [elems EXCEPT ![h].ip = <<@[1], Plain>>]
      ELSE elems

-----------------------------------------------------------------------------
(* Ranges and remapping.                                                   *)

\* generatenodesarray scans slots 0 .. size - 1.
NodesArray(elems) == {h \in 0 .. Size - 1 : elems[h].type = "server"}

\* The array was allocated for numberofservers entries: fewer leave its end
\* unwritten for updateranges to read, more run past it.
ArrayFits(elems, n) == Cardinality(NodesArray(elems)) = n

RangesUpdated(elems) ==
  LET servers == NodesArray(elems)
  IN  [h \in Slots |-> IF h \in servers
                       THEN [elems[h] EXCEPT !.rangeend = RangeEnd(elems, h)]
                       ELSE elems[h]]

\* Faulty variant: the last slot of the range is left out.
RangeOfShort(elems, h) ==
  {i \in Slots \ {h} : Clock(h, i) < Clock(h, elems[h].rangeend)}

\* Slots from h + 1 to the element's rangeend.
RangeOf(elems, h) ==
  {i \in Slots \ {h} : Clock(h, i) <= Clock(h, elems[h].rangeend)}

\* Faulty variant: every key of the ring goes to the new server.
RemappedAddAll(elems, h, e) ==
  [i \in Slots |-> IF elems[i].type = "key"
                   THEN [elems[i] EXCEPT !.store = e.ip, !.port = e.port]
                   ELSE elems[i]]

\* Every key in the new server's range takes its name and port.
RemappedAdd(elems, h, e) ==
  LET range == RangeOf(elems, h)
  IN  [i \in Slots |-> IF i \in range /\ elems[i].type = "key"
                       THEN [elems[i] EXCEPT !.store = e.ip, !.port = e.port]
                       ELSE elems[i]]

\* Keys above the removed server take the name of the server below it; the
\* port is written through the removed element, not through the key.
RemappedDel(elems, h) ==
  LET above == Arc(elems, h)
      owner == elems[Owner(elems, h)]
  IN  [i \in Slots |-> IF i \in above /\ elems[i].type = "key"
                       THEN [elems[i] EXCEPT !.store = owner.ip]
                       ELSE elems[i]]

-----------------------------------------------------------------------------
(* A frame is a call of addserver or removeserver in progress: the element *)
(* e it works for, at slot at; virtual nodes done so far; the phase; and   *)
(* where its walk of the tree stands.                                      *)

Frame(op, h, e) ==
  [op |-> op, at |-> h, e |-> e, i |-> 0, phase |-> "virtual", cur |-> Null]

Frames == [op : {"add", "del"}, at : Places, e : ServerElements,
           i : 0 .. MaxWeight, phase : {"virtual", "tree"}, cur : Pointers]

\* Faulty variant: the server is counted before the collision is seen.
EnterAddCounted(name, port, weight, below) ==
  LET h == SlotOf(name, port)
  IN  /\ IF elements[h].type # "empty"
         THEN work' = below /\ UNCHANGED <<elements, tree>>
         ELSE /\ elements' = [elements EXCEPT ![h] = Server(name, port, weight, FALSE)]
              /\ work' = <<Frame("add", h, Server(name, port, weight, FALSE))>> \o below
              /\ tree' = Allocated(tree, h)
      /\ count' = count + 1
      /\ numberofservers' = numberofservers + 1
      /\ UNCHANGED fn

\* hashring_addserver up to its loop over virtual nodes; a taken slot is a
\* collision and returns NULL.
EnterAdd(name, port, weight, below) ==
  LET h == SlotOf(name, port)
  IN  \/ /\ elements[h].type # "empty"
         /\ work' = below
         /\ UNCHANGED ring
      \/ /\ elements[h].type = "empty"
         /\ \E virtual \in Uninit :
              LET e == Server(name, port, weight, virtual)
              IN  /\ elements' = [elements EXCEPT ![h] = e]
                  /\ work' = <<Frame("add", h, e)>> \o below
         /\ count' = count + 1
         /\ numberofservers' = numberofservers + 1
         /\ tree' = Allocated(tree, h)
         /\ UNCHANGED fn

\* Faulty variant: the counters go down even when the lookup failed.
EnterRemoveUnchecked(name, port, below) ==
  LET h == SlotOf(name, port)
  IN  /\ IF elements[h].type # "server"
         THEN work' = below /\ UNCHANGED elements
         ELSE /\ elements' = [elements EXCEPT ![h] = Empty]
              /\ work' = <<Frame("del", h, elements[h])>> \o below
      /\ count' = count - 1
      /\ numberofservers' = numberofservers - 1
      /\ UNCHANGED <<tree, fn>>

\* hashring_removeserver up to the virtual nodes; without a server in the
\* slot it fails.
EnterRemove(name, port, below) ==
  LET h == SlotOf(name, port)
  IN  \/ /\ elements[h].type # "server"
         /\ work' = below
         /\ UNCHANGED ring
      \/ /\ elements[h].type = "server"
         /\ elements' = [elements EXCEPT ![h] = Empty]
         /\ count' = count - 1
         /\ numberofservers' = numberofservers - 1
         /\ work' = <<Frame("del", h, elements[h])>> \o below
         /\ UNCHANGED <<tree, fn>>

\* The program did something undefined: whatever follows is not modelled.
Undefined == status' = "undefined" /\ UNCHANGED <<ring, work, history>>

-----------------------------------------------------------------------------
(* Requests: the worker takes the next one when the last has returned.     *)

NoRequest == [addr |-> NULL, routes |-> [s \in Slots |-> NULL]]

Remember(ip, port) ==
  before' = IF work' = << >> THEN before
            ELSE [addr |-> <<ip, port>>, routes |-> Routes(elements)]

Forget == before' = IF work' = << >> THEN NoRequest ELSE before

\* ADD, and the stores named on the command line.
AddServer(ip, port, weight) ==
  /\ Idle
  /\ EnterAdd(<<ip, Plain>>, port, weight, << >>)
  /\ Remember(ip, port)
  /\ UNCHANGED <<status, shadowed, stale, torn>>

\* DEL.
DelServer(ip, port) ==
  /\ Idle
  /\ EnterRemove(<<ip, Plain>>, port, << >>)
  /\ Remember(ip, port)
  /\ UNCHANGED <<status, shadowed, stale, torn>>

\* SET: hashring_addkey, refused when the slot holds any key; a server in the
\* slot is overwritten.  The store is the server below, then the request is
\* forwarded.
SetKey(k) ==
  LET h == fn.key[k]
      placed == [elements EXCEPT ![h] = Key(k, NULL, NULL)]
      owner == elements[Owner(placed, h)]
  IN  /\ Idle
      /\ elements[h].type # "key"
      /\ ServersOf(placed) # {}
      /\ elements' = Forwarded([placed EXCEPT ![h] = Key(k, owner.ip, owner.port)], h)
      /\ count' = count + 1
      /\ shadowed' = IF elements[h].type = "server" THEN shadowed \cup {h} ELSE shadowed
      /\ UNCHANGED <<numberofservers, tree, fn, work, status, stale, torn, before>>

\* Without a server the walk of addstore_iterative goes around for ever.
SetKeySpins(k) ==
  LET h == fn.key[k]
      placed == [elements EXCEPT ![h] = Key(k, NULL, NULL)]
  IN  /\ Idle
      /\ elements[h].type # "key"
      /\ ServersOf(placed) = {}
      /\ elements' = placed
      /\ status' = "spinning"
      /\ shadowed' = IF elements[h].type = "server" THEN shadowed \cup {h} ELSE shadowed
      /\ UNCHANGED <<count, numberofservers, tree, fn, work, stale, torn, before>>

\* GET: any key in the slot will do; it is only forwarded.
GetKey(k) ==
  /\ Idle
  /\ elements[fn.key[k]].type = "key"
  /\ elements' = Forwarded(elements, fn.key[k])
  /\ UNCHANGED <<count, numberofservers, tree, fn, work, status, history>>

-----------------------------------------------------------------------------
(* The worker inside hashring_addserver and hashring_removeserver.         *)

In(op, phase) ==
  /\ status = "ok" /\ work # << >>
  /\ Top.op = op /\ Top.phase = phase

Counted == <<[Top EXCEPT !.i = @ + 1]>> \o Below

AddVirtual ==
  /\ In("add", "virtual")
  /\ Top.i < Top.e.numberofvirtualnodes
  /\ EnterAdd(<<Top.e.ip[1], Top.i>>, Top.e.port, 0, Counted)
  /\ UNCHANGED <<status, history>>

BeginInsert ==
  /\ In("add", "virtual")
  /\ Top.i = Top.e.numberofvirtualnodes
  /\ work' = <<[Top EXCEPT !.phase = "tree", !.cur = tree.root]>> \o Below
  /\ UNCHANGED <<ring, status, history>>

\* The insertion's walk is over: the tree is empty, or cur has no child there.
Landed ==
  \/ Top.cur = Null
  \/ Top.cur \in Places /\ (Top.cur = Top.at \/ Child(tree, Top.cur, Top.at) = Null)

InsertStep ==
  /\ In("add", "tree")
  /\ Top.cur \in Places /\ ~Landed
  /\ work' = <<[Top EXCEPT !.cur = Child(tree, Top.cur, Top.at)]>> \o Below
  /\ UNCHANGED <<ring, status, history>>

\* The rest of addserver; addvirtualnodes marks the element on return.
FinishAdd ==
  LET h == Top.at
      ranged == RangesUpdated(elements)
      remapped == IF numberofservers > 1 THEN RemappedAdd(ranged, h, Top.e) ELSE ranged
  IN  /\ In("add", "tree") /\ Landed
      /\ ArrayFits(elements, numberofservers)
      /\ tree' = Inserted(tree, h, Top.cur)
      /\ elements' = IF Below = << >> THEN remapped
                     ELSE [remapped EXCEPT ![h].isvirtualnode = TRUE]
      /\ work' = Below
      /\ stale' = IF numberofservers > 1 THEN stale \ RangeOf(ranged, h) ELSE stale
      /\ UNCHANGED <<count, numberofservers, fn, status, shadowed, torn>>
      /\ Forget

\* A virtual node is looked for under a name copied without its NUL; when the
\* name does not read back intact nothing is found.
RemoveVirtual ==
  /\ In("del", "virtual")
  /\ ~Top.e.isvirtualnode /\ Top.i < Top.e.numberofvirtualnodes
  /\ \E intact \in Terminated :
       IF intact THEN EnterRemove(<<Top.e.ip[1], Top.i>>, Top.e.port, Counted)
                 ELSE work' = Counted /\ UNCHANGED ring
  /\ UNCHANGED <<status, history>>

BeginRemove ==
  /\ In("del", "virtual")
  /\ Top.e.isvirtualnode \/ Top.i = Top.e.numberofvirtualnodes
  /\ work' = <<[Top EXCEPT !.phase = "tree",
                           !.cur = IF HasPair(tree, Top.at) THEN tree.right[Top.at]
                                   ELSE Null]>> \o Below
  /\ UNCHANGED <<ring, status, history>>

\* bst_findmin has reached the smallest element, or was not called.
Least == Top.cur = Null \/ (Top.cur \in Places /\ tree.left[Top.cur] = Null)

\* Faulty variant: the loop forgets to move down.
FindMinStepStays ==
  /\ In("del", "tree")
  /\ Top.cur \in Places /\ ~Least
  /\ UNCHANGED vars

FindMinStep ==
  /\ In("del", "tree")
  /\ Top.cur \in Places /\ ~Least
  /\ work' = <<[Top EXCEPT !.cur = tree.left[@]]>> \o Below
  /\ UNCHANGED <<ring, status, history>>

\* bst_remove is right about two children only at the root, and then only
\* for a successor that is a leaf further down.
Tears(t, h, s) ==
  /\ HasPair(t, h)
  /\ ~(t.parent[h] = Null /\ s # t.right[h] /\ IsLeaf(t, s))

\* The rest of removeserver.
FinishRemove ==
  LET h == Top.at
      ranged == RangesUpdated(elements)
  IN  /\ In("del", "tree") /\ Least
      /\ ArrayFits(elements, numberofservers)
      /\ ~RemoveFaults(tree, h, Top.cur)
      /\ tree' = Freed(Removed(tree, h, Top.cur), h)
      /\ work' = Below
      /\ torn' = (torn \/ Tears(tree, h, Top.cur))
      /\ IF numberofservers > 0
         THEN elements' = RemappedDel(ranged, h) /\ stale' = stale \ Arc(elements, h)
         ELSE elements' = elements /\ stale' = stale \cup KeysOf(elements)
      /\ UNCHANGED <<count, numberofservers, fn, status, shadowed>>
      /\ Forget

\* A walk or bst_remove follows a pointer into freed or unwritten memory.
WildPointer ==
  /\ In("add", "tree") \/ In("del", "tree")
  /\ \/ Top.cur = Wild
     \/ Top.op = "del" /\ Least /\ RemoveFaults(tree, Top.at, Top.cur)
  /\ Undefined

\* updateranges reads entries of the servers array nobody wrote.
ArrayUnwritten ==
  /\ \/ In("add", "tree") /\ Landed
     \/ In("del", "tree") /\ Least /\ ~RemoveFaults(tree, Top.at, Top.cur)
  /\ ~ArrayFits(elements, numberofservers)
  /\ Undefined

-----------------------------------------------------------------------------
Init ==
  /\ elements = [s \in Slots |-> Empty]
  /\ count = 0
  /\ numberofservers = 0
  /\ tree = EmptyTree
  /\ fn \in Functions
  /\ work = << >>
  /\ status = "ok"
  /\ shadowed = {} /\ stale = {} /\ torn = FALSE
  /\ before = NoRequest

Request ==
  \/ \E r \in AddRequests : AddServer(r[1], r[2], r[3])
  \/ \E r \in DelRequests : DelServer(r[1], r[2])
  \/ \E k \in Keys : SetKey(k) \/ SetKeySpins(k) \/ GetKey(k)

Worker ==
  \/ AddVirtual \/ BeginInsert \/ InsertStep \/ FinishAdd
  \/ RemoveVirtual \/ BeginRemove \/ FindMinStep \/ FinishRemove
  \/ WildPointer \/ ArrayUnwritten

Next == Request \/ Worker

Spec == Init /\ [][Next]_vars

\* The worker thread runs on; clients need not send anything.
FairSpec == Spec /\ WF_vars(Worker)

-----------------------------------------------------------------------------
(* Properties.                                                             *)

Addresses == Ips \X Ports

RingTypeOK ==
  /\ elements \in [Slots -> Elements \cup Unplaced]
  /\ status # "spinning" => elements \in [Slots -> Elements]
  /\ count \in Nat /\ numberofservers \in Nat
  /\ tree \in Trees
  /\ fn.server \in [Names \X Ports -> Places] /\ fn.key \in [Keys -> Places]

WorkTypeOK ==
  /\ work \in Seq(Frames)
  /\ status \in {"ok", "spinning", "undefined"}

HistoryTypeOK ==
  /\ shadowed \subseteq Places /\ stale \subseteq Slots /\ torn \in BOOLEAN
  /\ before \in [addr : Addresses \cup {NULL},
                 routes : [Slots -> Addresses \cup {NULL}]]

(* Every field of the ring, of the worker's calls and of the history has   *)
(* its type.                                                               *)
TypeOK == RingTypeOK /\ WorkTypeOK /\ HistoryTypeOK

(* Through every nested call, numberofservers counts the server elements   *)
(* in the slots and those a key has overwritten, and count counts the keys *)
(* as well.  So neither wraps below zero, and the servers array is never   *)
(* smaller than what generatenodesarray writes into it.                    *)
CountersExact ==
  /\ shadowed \subseteq KeysOf(elements)
  /\ numberofservers = Cardinality(ServersOf(elements)) + Cardinality(shadowed)
  /\ status # "spinning" => count = numberofservers + Cardinality(KeysOf(elements))

(* Between requests, every slot lies in the range of exactly one server.   *)
RangesPartition ==
  LET servers == ServersOf(elements)
      InRange(s, h) == Clock(h, s) <= Clock(h, elements[h].rangeend)
  IN  Idle /\ shadowed = {} /\ servers # {} =>
        \A s \in Slots : \E h \in servers : \A g \in servers : InRange(s, g) <=> g = h

(* A virtual node whose server is no longer in the ring.                   *)
Orphan(h) ==
  /\ elements[h].isvirtualnode
  /\ LET p == SlotOf(<<elements[h].ip[1], Plain>>, elements[h].port)
     IN  ~(elements[p].type = "server" /\ Address(elements[p]) = Address(elements[h]))

(* Between requests, the coordinator sends a key to the server that owns   *)
(* its slot, whatever was added, removed, remapped and cut by strtok since *)
(* the key was set.  Keys that saw the ring empty, and ranges of orphans,  *)
(* are the exceptions the code leaves.                                     *)
RoutedToOwner ==
  Idle /\ shadowed = {} =>
    \A s \in KeysOf(elements) \ stale :
      \/ Orphan(Owner(elements, s))
      \/ Route(elements, s) = Address(elements[Owner(elements, s)])

(* Between requests, the tree is a search tree of the servers' hashes as   *)
(* long as bst_remove has not spliced two children wrongly.                *)
TreeHoldsServers ==
  Idle /\ ~torn => IsSearchTree(tree, ServersOf(elements) \cup shadowed)

(* Undefined behaviour needs a key on a server's slot, a server on the     *)
(* slot past the array, or a torn tree.                                    *)
UndefinedOnlyAfter ==
  status = "undefined" =>
    shadowed # {} \/ torn \/ elements[Size].type = "server"

(* The names that requests look for in the ring.                           *)
UsedNames ==
  {n \in Names \X Ports :
     \/ \E r \in AddRequests : n[1][1] = r[1] /\ n[1][2] < r[3] /\ n[2] = r[2]
     \/ \E r \in DelRequests : n = <<<<r[1], Plain>>, r[2]>>}

(* No two names in use hash to the same place.                             *)
Distinct == \A a, b \in UsedNames : fn.server[a] = fn.server[b] => a = b

MovesOnlyItsKeys ==
  work # << >> /\ work' = << >> /\ Distinct =>
    LET after == Routes(elements)'
        OwnerAfter(s) == Address(elements'[Owner(elements', s)])
    IN  \A s \in KeysOf(elements) \ stale :
          \/ before.routes[s] \in {NULL, after[s]}
          \/ Top.op = "add" /\ before.addr = after[s] /\ before.addr = OwnerAfter(s)
          \/ Top.op = "del" /\ before.addr = before.routes[s]

(* Consistent hashing: when names do not collide, adding a server moves    *)
(* only keys of slots it now owns, and only to it; removing a server moves *)
(* only its own keys.                                                      *)
MinimalMovement == [][MovesOnlyItsKeys]_vars

(* Every request the worker starts on it also finishes, unless the tree    *)
(* was torn.                                                               *)
RequestsFinish == work # << >> ~> (work = << >> \/ status = "undefined" \/ torn)

-----------------------------------------------------------------------------
(* What comments and the README say of the ring and the code does not do.  *)

(* hashring.h:533: "Iteratively remap stores for keys upon insertion and   *)
(* or deletion of a node".  After any request, a key whose range passed to *)
(* another server is sent to that server.                                  *)
KeysRemapped ==
  Idle /\ shadowed = {} /\ stale = {} =>
    \A s \in KeysOf(elements) :
      Route(elements, s) = Address(elements[Owner(elements, s)])

(* hashring.h:99: "Binary search tree representation of hash values of     *)
(* servers".                                                               *)
TreeRepresentsServers ==
  Idle /\ shadowed = {} => IsSearchTree(tree, ServersOf(elements))

(* hashring.h:754: "Removes a server from the hash ring and deletes the    *)
(* appropiate virtual nodes".                                              *)
VirtualNodesDeleted ==
  Idle /\ shadowed = {} => \A h \in ServersOf(elements) : ~Orphan(h)

(* README.md:118: "Insertion and deletion of stores will trigger remapping *)
(* of keys & existing store ranges", also for a key the ring still holds   *)
(* from before it was empty.                                               *)
InsertionRemaps ==
  Idle /\ shadowed = {} /\ ServersOf(elements) # {} =>
    \A s \in KeysOf(elements) : Route(elements, s) # NULL
=============================================================================
