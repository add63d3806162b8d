# System Design Concepts in TLA+

The repository holds a distributed key-value system (`src/src/dkvstore.c`,
which runs as a *store* or as a *coordinator*), a load balancer
(`src/src/loadbalancer.c`), the data structures they use
(`src/src/include/hashring.h`, `hashtable.h`), a web front end and an empty
rate limiter. This directory specifies the parts with state of their own,
model-checks them with TLC on small instances and proves what matters most
for every instance with TLAPS.

## The system

| part | state | operations |
|---|---|---|
| hash ring (`hashring.h`) | `elements` (a slot holds nothing, a server or a key), `count`, `numberofservers`, a binary search tree threaded through the server elements, an array of server hashes rebuilt for each change | `hashring_addserver`, `hashring_removeserver` (both call themselves once per virtual node), `hashring_addkey`, `hashring_lookupkey`, `hashring_lookupserver` |
| hash table (`hashtable.h`) | buckets of linked items, `count` | `hashtable_insert`, `_lookup`, `_remove` |
| request queue (`dkvstore.c`, again in `loadbalancer.c`) | a TAILQ, its size, `read_lock`, `write_lock` | insert at the head under `write_lock`, remove at the tail under `read_lock` |
| store | one hash table, one request queue | SET, GET, REM |
| coordinator | one hash ring, one request queue, a connection to a store while it forwards | ADD, DEL change the ring; SET, GET look the key's store up and forward the request to it |
| accept loop, connection threads | one variable for the accepted descriptor, a descriptor per connection | accept, start a thread, read a request, parse it, put it in the queue |
| request parsing (`requestParse`, `requestHandle`) | the text, cut in place; `strtok`'s one static position | headers, data, the command and its fields |
| load balancer | forwarders with a use count each, request queue, a `connection_t` per client with its request | read a request, pick a forwarder, forward it in a thread of its own, relay the answer |
| front end, containers, rate limiter | none | - |

How they interact. `serverAcceptLoop` starts a thread per connection; the
thread reads and parses one request and inserts it in the queue. The single
`requestWorker` (`MAX_WORKERS` is 1) polls the queue, handles a request to the
end, closes the connection and takes the next. In a coordinator, handling a SET
or GET means looking the key up in the ring, connecting to the store found
there, and copying its answer back. So the ring and the table are used by one
thread; the queue, the accept loop's variable, the process's descriptors and
`strtok`'s position are shared by all; and coordinator and store share nothing
but the requests they exchange. The balancer has a producer thread per
connection, one coordinator thread that takes connections off the queue, and a
consumer thread for each of them.

What is hard here:

- the queue is one list under *two* locks, so insertions and removals
  interleave statement by statement, with entries allocated and freed meanwhile;
- a thread is given the *address* of the accept loop's variable, and the kernel
  gives out closed descriptors again at once;
- threads that parse share the position of `strtok`, and one request takes a
  dozen calls of it;
- one ADD or DEL is a nest of calls, each of which changes slots, counters,
  tree, server array, ranges and keys, and may stop at a collision;
- slots hold servers and keys alike, hashes collide, ranges wrap around;
- tree walks and the walk for a key's store end only if the structure is right;
- names are cut (`strtok`), copied without their end (`strncpy`), fields are
  read before they are written (`isvirtualnode`);
- a store is down, dies, restarts empty or hangs while the coordinator has its
  keys; the coordinator restarts without its ring while stores have theirs; a
  request it had sent may still arrive;
- in the balancer, memory and descriptors of a connection pass from thread to
  thread, and every error path closes and frees on its own.

What makes each part correct:

- ring: counters agree with slots; ranges split the ring; a key is sent to the
  server that owns its slot, after any history; adding or removing a server
  moves only the keys it must (consistent hashing); the tree is a search tree of
  the servers; every request ends;
- table: it answers like a map;
- queue: the links spell the queue, no thread follows a dangling pointer, requests
  are taken in order and every one is handled;
- accept loop and balancer: each connection is read, answered and closed in turn
  and once, with its own answer; each descriptor and each allocation has one
  owner at a time;
- parsing: a request is executed as its text says, and answered once;
- composition: an acknowledged value stays held and is found again, no key has
  two copies, coordinator and stores together act as one map, no request blocks
  the others for ever.

## Modules

| module | models | how |
|---|---|---|
| `RingTree` | the tree of `hashring.h`: `bst_insert`, `bst_remove` | a tree is a record of root and left, right, parent pointers; operators give the tree after an insertion or removal, as the code links it; `Wild` is a freed or unwritten pointer |
| `HashRing` | the ring and the requests that drive it | below |
| `KVMap` | abstract: a volatile map and its replies, what a store promises and what the whole system acts as | one action per request |
| `HashTable` | the store with its hash table | buckets are sequences; one action per request, since one worker handles them; implements `KVMap` |
| `TailQueue` | the request queue | one action per statement of the TAILQ macros, per thread |
| `Service` | abstract: what a server promises its connections | five phases per client |
| `AcceptLoop` | accept loop, connection threads, worker, descriptors | implements `Service` until threads race for the loop's variable |
| `HttpRequest` | parsing, in threads and worker | one action per call of `strtok` |
| `KVStore` | coordinator and stores with their failures | implements `KVMap` while nothing fails |
| `LoadBalancer` | the balancer, its clients and the servers behind it | implements `Service` |
| `MC...` | instances for TLC | |
| `HashRingProofs`, `RingTreeProofs`, `HashTableProofs`, `TailQueueProofs`, `KVStoreProofs`, `AcceptLoopProofs`, `LoadBalancerProofs`, `HttpRequestProofs` | theorems and their lemmas | |

How the modules compose. `HashRing` shows which store a key is sent to, and
`KVStore` takes from it that the ring is a map in which a key's owner is the
first server behind it; `HashTable` shows that a store is a `KVMap`, and
`KVStore` uses such maps as stores; `TailQueue` shows that the list is a queue,
and `AcceptLoop`, `HttpRequest` and `LoadBalancer` use a sequence; `HttpRequest`
shows that a text becomes the command it means, and the other modules start from
commands. Each of these steps has its exceptions, which the lower module states
(`tight`, `mixed`, `torn`, ...) and the upper one does not follow.

### HashRing

`AddServer`, `DelServer`, `SetKey`, `SetKeySpins` and `GetKey` are the requests
(`requestHandle`); a request starts only when the last has returned
(`requestWorker` is the only user of the ring). SET and GET are one step. ADD
and DEL push a *frame* on `work`, a stack of the calls of `hashring_addserver`
and `hashring_removeserver` in progress; a step is the entry of a call, its next
virtual node, one pointer of a tree walk, or the rest of the function after the
walk. A walk that never ends is thus a behaviour with infinitely many steps.

- `elements` is a function of slots 0 .. Size; servers and keys are records with
  the fields the code reads. Names are pairs of an ip and the virtual node's
  index (`Plain` for none). Strings, formats and messages are left out.
- The hash function is a constant of a run, any function from names and keys to
  1 .. Size, which is what `hashring_hash_jenkins` returns. It is chosen in
  `Init` from a set. `Slots` has one slot more than the array: `r->elements` has
  `size` entries, index `size` is one past it, and in the build that word is
  zero and writable (the array is large enough for `calloc` to map pages).
- What the code reads before writing is a choice: `Uninit` for `isvirtualnode`,
  `Terminated` for whether a name copied without its NUL reads back intact.
- When the code would follow a dangling or unwritten pointer or read the part of
  the servers array nobody wrote, `status` becomes `"undefined"` and the
  behaviour stops (`WildPointer`, `ArrayUnwritten`). When the walk for a store
  can meet no server it becomes `"spinning"`.
- The coordinator's use of a found element is `Route` (by which name and port the
  store is looked up and where the request goes) and `Forwarded` (`strtok` cuts
  the name kept in the ring).
- History variables (`shadowed`, `stale`, `torn`, `before`) record what
  happened, for the properties; no step depends on them.

### HashTable

One action per request of a store. A lookup, insertion or removal stops at the
first item with the key (`FirstMatch`). `Refuse` is the 400 for an existing key
or a failed `malloc`. `Other` is a command that is not the store's (400), HTTP GET
(200) and any other method, which is not answered: `requestParse` (dkvstore.c:260)
compares `h->type` with `HTTP_UNKNOWN` and does not assign it. `Restart` is a new
process: nothing is saved. `reply` keeps the request with its answer, so that the
refinement relates each answer to the request it was given to.

### TailQueue

`Producers` are connection threads from the `malloc` of their queue entry on;
`Workers` is the one `requestWorker`. Each statement of `TAILQ_INSERT_HEAD`,
`TAILQ_EMPTY`, `TAILQ_LAST` and `TAILQ_REMOVE` is a step; a statement that
follows a pointer it has just loaded (`head->first->prev = ...`, `TAILQ_LAST`) is
one step per load. A step that loads pointers only its own lock lets change is
not split further. Memory is taken as sequentially consistent; the program is
built without optimisation, so the compiler neither merges nor reorders the
accesses. `init_httprequestqueue` calls no `TAILQ_INIT`: the queue relies on
zeroed memory, so `tqh_last` is NULL until the first insertion. Entries are freed
by the worker and may be given out again. A step through a pointer to no live
entry makes `status` `"undefined"` and nothing else of the behaviour is modelled;
`prev` and `next` of a new entry hold `Junk` until written.

`size` is modelled with its load and its store; the program never reads it.
`tight` remembers whether an insertion and a removal were ever under way together
with fewer than two entries queued, `raced` whether two updates of `size`
overlapped.

### Service and AcceptLoop

`Service` is what a client can expect: its connection waits, is accepted, read,
handled and closed, each once, and it is written nothing but replies to its own
request: none, one or several, at most `MaxReplies`. `AcceptLoop` has the loop's variable `clientfd`, the threads
with their own copies, the kernel's table of descriptors (the lowest free one is
given, a closed one again), the queue and the worker. `Create` gives a thread the
address and `CopyFd` reads it, so the next `Accept` may come between. `BeginRead`
and `EndRead` are `read()` looking its descriptor up and coming back: a thread
that waits keeps its connection although the descriptor is closed and given out
again. A read of a closed descriptor, of `accept`'s -1 or of nothing ends in a
crash: the unsigned -1 is the length of a `memcpy`, and a text without a first
line is a null pointer. A request may leave its client in several sends, as the
front end's does; one read takes what has arrived. `Answer` writes to whatever
connection the descriptor stands for by then.

What `requestHandle` does with a packet depends on the `Kind` of the request and on
how much of it was read (`RepliesTo`). A page and a command that the server carries
out itself get one reply. A request that a coordinator forwards gets one or, when
the forward fails, none, and may keep the worker for ever if its store never answers
(`Hang`). A method other than GET and POST gets none. A POST whose fields are missing,
or had not come when it was read (`Malformed`), gets up to three 400s and a reply
after them, or kills the process: at the `strcmp` of a NULL (dkvstore.c:332), or as
a second 400 is written to a client that has gone. Texts are `HttpRequest`'s; here a
request is its kind and its number of segments. `raced`, `exhausted` and `given` are
history.

### HttpRequest

A text is a sequence of symbols (words, separators, `CR`, `LF`, `NUL`); buffers
hold texts, pointers are a buffer and a position, and `Strtok` writes its NUL into
the buffer and leaves its position in `saved`, for whoever calls it next. Threads
go through `requestParse`: line by line (`Header`), each header split in key and
value, the method, then the data as what is left of the buffer *by then*
(`Finish`). The worker goes through `requestHandle` as a list of scans still to
come (`todo`): the command, its field and data, then for ADD and DEL port and
weight behind the end of the ip, and in a coordinator the name of the store.
A tested pointer that is missing gets the client a 400 and the worker goes on, as
the code does; an untested one is a crash. `Data` is GET, SET and REM: a store and, for
REM, a coordinator reply by themselves; a coordinator passes GET and SET on, unless the
key is not, or cannot be put, on its ring (404) or no store is found for it (no reply).
`Forward` passes the store's answer on, or there is none. A 200 stands for whatever
the table, the ring or the store says; which of 200, 400 and 404 it is, is `HashTable`'s and
`KVStore`'s. The copy of the data has no NUL of its
own, so `Take` may find something behind it (`ranOn`). `mixed` remembers that a
thread's scan went on where another's had stopped. The table of headers is read by
nothing, and only its calls of `strtok` are modelled.

### KVStore

One coordinator, whose worker handles a request at a time, and stores at
addresses of their own (`place`: an ip and a port each, different for any two).
`Set` puts the key on the ring, `Connect` opens the connection, `Handle` is the
store, `Return` copies the answer. Between any two of these a store may die with
its table (`Crash`), start again empty (`Restart`) or be stopped and never answer
(`Ignore`), the coordinator may start again with the ring of its command line
(`RestartCoordinator`) while what it had sent still arrives (`HandleOrphan`), and
a client may remove a key at a store (`RemoveAt`). A refused connect leaves its
socket open (`leaked`). The ring is abstract: `Order[k]` is the order in which key
`k` meets the stores, `Owner` the first of them that is on the ring. `RouteAdded`
and `RouteDeleted` are `hashring_remapkeys_*`, with the port that
`hashring_remapkeys_del` does not change; data never moves. `acked`, `home`,
`lost`, `moved`, `restarted`, `faults` are history.

### LoadBalancer

`Setup` takes each server of the command line it can connect to. A connection is
named by its client; `pc` says which of the threads has it and how far that is:
the producer (`read`, `enqueue`), the queue, the coordinator thread
(`Dispatch`), the consumer (`connect` to `close` and `free`), or
`sendHTTPError500` on behalf of either. `table` is the process's descriptors with
both kinds of ends, so that a socket to a server can get the number a client's
connection had. The headers of an answer are sent on `forwarderfd`, the socket
they came from, the body on the client's: `Sends` delivers on whatever the
descriptor stands for. `memory` is the `connection_t` and its request, which the
code frees at the end of the consumer or in `sendHTTPError500`. Servers are
external: each may refuse, answer, reset, or close within the headers, after
which `readparseHTTPHeader` reads 0 for ever (`HeadersSpin`). Texts and sizes
of headers are abstracted: `readparseHTTPHeader` finds their end or does not. The
loop that relays a body ends when `read` returns 0 or -1 (`RelayEnds`), or `send` fails.
The queue is a sequence: `Enqueue` and `Dispatch` are one step each, and what the two
locks of loadbalancer.c:405 and :439 let happen on its list is for `TailQueue` to say,
not for `OneOwner` and `EachEnds`.

## Runs

All runs use two TLC workers and end within about two minutes. Deadlock
checking is off where the program may really stop or the model stops: at
undefined behaviour, at an endless walk or loop, at a crash, or when every client
has been served.

| run | shows | bounds |
|---|---|---|
| `ring_oneport` | counters, ranges, routing, minimal movement, tree; undefined behaviour starts only where the properties say | 7 slots, two stores on one port with at most one virtual node each, two keys, eleven hash functions: six that spread the names (each order of the tree's shapes) and five with collisions, keys on servers and a server past the array; any sequence of ADD, DEL, SET, GET |
| `ring_requests` | `RequestsFinish` under fairness, with five servers in the tree | 8 slots, two virtual nodes and one, fifteen hash functions: twelve orders that hang the tree to the left, to the right and in the middle, three with collisions |
| `table_map` | the table implements `KVMap`; sound buckets and count | two buckets, four keys of which three share one, two values |
| `queue_fifo` | list, order, size and faults; `RequestsHandled` under fairness | two connection threads, one worker, three requests, three entries; size modulo 8 |
| `accept_loop` | one holder per descriptor, what can crash the server, `Service` implemented until the race, `EachAnswered` under fairness | three clients, three threads, two descriptors: a command in two segments (so it may be read without its body), a request that is forwarded, a page; four replies at most |
| `http_requests` | requests are executed as their text says and answered once, or not at all when passed on; plain ones never crash the server | two threads and the worker, a store or a coordinator, the page and the five commands, PUT, nine requests with a part missing, one with too many headers, `MAX_HEADERS` 3; runs are followed until two scans mix |
| `kv_store` | acknowledged values stay held and are found, one copy, `KVMap` implemented while calm, `RequestEnds` under fairness | two stores on two machines or one, one key, two values, two failures, one leaked descriptor |
| `lb_serve` | one owner for memory and descriptors, `Service` implemented, `EachEnds` under fairness | two clients, three descriptors, two servers on the command line, a cookie that names one of them or none (by how many could be connected to), bodies of at most one piece |
| `ring_stale_port`, `queue_two_locks`, `accept_race`, `http_own_headers` | findings, below | as above |

Why the bounds are enough. A ring interaction needs at most two servers with a
virtual node each (four tree nodes: every shape with a pair, a single child and
a leaf, at the root and below), one key in a range that changes hands and one
that does not; wrap-around happens because keys and servers sit at both ends. A
hash table interaction needs three items in one list (first, middle, last) and
one elsewhere. In the queue, removal and insertion touch the same fields only
through the first and last entries, so two queued entries and a third being
inserted show both the safe overlap and, with fewer, the unsafe one; a second
connection thread shows what `write_lock` is for. Entries are reused within the
three requests. In `accept_loop` three clients on two descriptors make each
descriptor be closed, given out again and lacking. In `kv_store` keys do not
interact (each is handled by one request at a time and has its own place), so one
key is enough; a store that loses it, one that takes it over and two failures are
every combination of a dead store or coordinator with a later one. In `lb_serve`
two connections take four descriptors when both are forwarded, and there are
three: `socket` fails, and numbers move between clients and servers. `MaxPieces`
1 has a body in none or one further step, with `Relay` repeated for each.

Instead of symmetry, which liveness forbids, `Receive` of `TailQueue` and
`Create` of `AcceptLoop` take the first free request or thread: which one makes no
difference. The constants `MaxLeaks` (descriptors the coordinator has for
forwarding), `MaxFaults`, `MaxPieces`, `MaxHeaders`, `MaxReplies` (what the code can write to a
malformed command: three 400s and a reply), `FollowMixed`, `Modulus` and `Segments` are
the other bounds; `MAX_WORKERS` is 1 as in the code.

Fairness. Each assumption is weak fairness of a thread the kernel schedules and
that never blocks for ever within what is modelled; clients need not send
anything, stay or leave.

- `RequestsFinish`: the worker. `RequestsHandled`: each connection thread and the
  worker; mutexes are held for a few statements, and with three requests weak
  fairness is enough for the lock too.
- `EachAnswered`: the accept loop, each thread, the worker. A client that sends
  nothing keeps its thread and no other. The property is about pages and commands that
  leave their client in one segment (`HasReply`), since other requests may get no
  reply, and excepts a worker that waits for a store that never answers.
- `RequestEnds`: the coordinator's worker and each store that runs; the property
  itself excepts a store that was stopped (`Ignore`), because `read` has no
  timeout.
- `EachEnds`: the balancer's threads, and servers that answer, close or reset in
  time: they are external, and a server that keeps a connection silent keeps its
  consumer as it does in the code.

### Properties worth a word

- `RoutedToOwner` and `KeysRemapped`. With all stores on one port, or when the
  ring only grows, a key is always sent to the server that owns its slot. The
  exceptions are part of the property: keys left when the ring became empty
  (`stale`), ranges of orphaned virtual nodes, and rings in which a key has
  overwritten a server.
- `TreeHoldsServers`, `UndefinedOnlyAfter` say that everything up to the three
  named faults is right: removal of a leaf or of a node with one child, for one.
- `MinimalMovement` compares routes before a request with those after it. It
  assumes of the hash function that no two names requests look for collide
  (`Distinct`, over `UsedNames`: those ADD writes and those DEL looks up), since a
  DEL finds whatever server stands where its name hashes.
- `ListIsQueue`, `FaultsOnlyWhenTight`, `OldestFirst`, `RequestsHandled`: the two
  locks do behave as one as long as removal never meets insertion on fewer than
  two entries. On a queue that is mostly empty, as under light load, they do
  meet, and `queue_two_locks` shows what follows.
- `OneHolder` and `ServesInTurn` of `AcceptLoop` hold until the loop has
  overwritten its variable before a thread read it; `accept_race` shows the race
  itself.
- `AckedHeld`, `OneCopy`, `GetsAcknowledged` of `KVStore`: what an acknowledgement
  is worth. The exceptions are what the code does nothing about: the store died,
  someone removed the key there, ADD or DEL sent the key elsewhere, the ring was
  lost. That there are no others, through requests that are refused, reset,
  orphaned or leaked between, is the property.
- `ActsAsOneMap`: as long as nothing has failed or moved, coordinator and stores
  refine the map that a single store is, with a SET taking effect when it is
  answered.
- `DescriptorsAccounted` has the sockets of consumers that answered 500 as its
  one exception: the code leaves them open, until none are left.
- `EachEnds` has one exception, a server that closes within its headers: the
  consumer spins. It and `OneOwner` are of a queue that loses nothing.
- `CrashesOnlyWhen` of `AcceptLoop` names four causes: the race, a lack of descriptors,
  a client that leaves without a byte, a POST whose fields are missing or had not come.
- `Answered` of `HttpRequest`: a plain request gets one reply, unless a coordinator had
  to pass it on: then a store that is down or closes leaves the client without any.

### Findings

| run | what the code does | what it says |
|---|---|---|
| `ring_stale_port` | after DEL, remapped keys get the new server's ip but keep the old port: hashring.h:621 writes the port through the removed element | hashring.h:533 "Iteratively remap stores for keys upon insertion and or deletion of a node." |
| `queue_two_locks` | the worker can follow the `tqe_prev` of an entry before `TAILQ_INSERT_HEAD` has written it | dkvstore.h:124 "Mutex for synchronization" |
| `accept_race` | the loop accepts the next connection into the variable whose address the last thread was given and has not read (dkvstore.c:752) | dkvstore.c:737 "Accept loop where each connection is passed onto a new thread." |
| `http_own_headers` | `strtok` has one position for all threads, so a thread's next header can come from another's buffer (dkvstore.c:188) | dkvstore.c:141 "Parses a buffer containing a HTTP Request into a HTTP Structure by reading headers, HTTP data." |

Further disagreements. These configurations each check one more sentence of the
repository that the code does not keep; run by hand, each ends in the violation
described.

| configuration (module) | property | what the code does |
|---|---|---|
| `ring_torn_tree` (`MCHashRing`) | `TreeRepresentsServers` | hashring.h:252-288 splices a node with two children wrongly; :99 "Binary search tree representation of hash values of servers" |
| `ring_orphans` (`MCHashRing`) | `VirtualNodesDeleted` | hashring.h:726-733 copies names without their NUL, so a virtual node may not be found; :754 "deletes the appropiate virtual nodes" |
| `ring_refilled` (`MCHashRing`) | `InsertionRemaps` | keys that saw the ring empty are not remapped by the next ADD; README.md:118 |
| `accept_partial` (`MCAcceptLoop`) | `WholeRequests` | one read is taken for a request; dkvstore.c:628 |
| `kv_connect_500` (`MCKVStore`) | `RefusedIs500` | a refused connect closes the client's connection without an answer; dkvstore.c:542 "If connection fails return a HTTP 500" |
| `kv_set_again` (`MCKVStore`) | `RefusedSetIsHeld` | a key whose SET failed stays on the ring and is refused for ever, held by nobody; dkvstore.h:70 |
| `kv_sync` (`MCKVStore`) | `SyncFindsKeys` | SYNC does nothing; README.md "Sync keys between stores and coordinator" |
| `lb_array` (`MCLoadBalancer`) | `ArrayHolds` | the array has one element less than the command line names (loadbalancer.c:665); loadbalancer.h:47 |
| `lb_counts` (`MCLoadBalancer`) | `CountsForwards` | forwards by cookie are not counted; loadbalancer.h:36 |
| `lb_headers` (`MCLoadBalancer`) | `HeadersComeFirst` | headers are sent back to the server; loadbalancer.c:124 |
| `lb_session` (`MCLoadBalancer`) | `SameBackend` | the cookie is never the number of the chosen forwarder; loadbalancer.c:314 |
| `http_put` (`MCHttpRequest`) | `OtherMethodIs501` | `requestParse` compares where it should assign (dkvstore.c:260), so no reply is sent; :479 |
| `http_full` (`MCHttpRequest`) | `FullHeaders` | with a full array the last header is taken for data (dkvstore.c:175); dkvstore.h:95 |
| `http_documented` (`MCHttpRequest`) | `DocumentedFormat` | a request in the documented form, without an empty line, brings the server down; dkvstore.h:61 |
| `http_data_end` (`MCHttpRequest`) | `DataEnds` | the data has no NUL and is read on behind its end (dkvstore.c:305); dkvstore.h:101 |

## Proofs

Each proof module has facts about the constants and helpers first, then a lemma
per action (and per part of the invariant it can disturb), then the step, then
the theorems.

`HashRingProofs` proves, for every ring size, set of names, weights, keys, hash
function and choice of `Uninit` and `Terminated` (assumptions `SizeAssumption`,
`RingAssumption`):

- `TypeCorrect`: `Spec => []TypeOK`;
- `CountersCorrect`: `Spec => []CountersExact`;
- `ArrayCorrect`: the servers array is never overrun, which follows from the
  counters and is why they matter: `hashring_generatenodesarray` allocates
  `numberofservers` entries and writes one per server it meets.

The inductive invariant `IInv` is `TypeOK` with `CountersExact` and what is true
of a ring that spins or is undefined. Types alone are not inductive: that
`count - 1` is a natural number needs the exact counters, and those need that a
slot a key has overwritten still counts (`shadowed`). `Owner` is a `CHOOSE`
over the servers; lemma `OwnerIsServer` shows it picks one, by well-foundedness
of the distance around the ring.

`RangesCorrect`, in the same module, says, for every ring size, set of
servers and hash function, that between requests each slot lies in the range of
exactly one server. Three arguments meet. The slots that `Owner` gives a server
are the stretch from it up to the next server (`OwnersStretch`), and a stretch is
as long as the distance to its end (`ArcCount`, by a bijection). What
`hashring_updateranges` writes for each server in the array is that stretch
(`RangeIsStretch`). And the array holds every server when it is written: it has
`numberofservers` places, which is the number of servers while no key stands on
one's slot (`ArrayHoldsServers`, from `CountersExact`). The strengthening,
`RangesFresh`, is that no request ends with a stale range; it is where a call of
`hashring_updateranges` left out of ADD or DEL would show.

`RingTreeProofs` goes on from there, under the same assumptions, to the tree, the
calls in progress and the routes of keys.

- `TreeCorrect`: `Spec => []TreeHoldsServers`, and `UndefinedCorrect`:
  `Spec => []UndefinedOnlyAfter`. `IsSearchTree` compares sets that a recursive
  function (`Reached`) collects, and says nothing of a tree while a call changes
  it. The proofs use another view: a set `D[n]` of the nodes that hang at each
  node `n` (`Hangs`), which splits at `n` into what is less and what is greater.
  Insertion, removal of a leaf, of a node with one child, and of the root in the
  one case `bst_remove` gets right, each say what `D` becomes (`InsertedBelow`,
  `LeafHangs`, `SingleHangs`, `PairHangs`). That a tree with such sets is a
  search tree in the sense of `Reached` is shown without induction: a least step
  at which the sets would differ cannot exist (`LeastExists`). The strengthening
  `TInv` says, until the tree is torn, that it is a tree of the servers not
  waiting to be inserted and of those whose removal has taken the element but not
  yet the node (`NodesOf`), and where every walk stands (`WalkFits`);
  `CallsSound` says that the slots of calls in progress are apart, and hold a
  server while it is added and none while it is removed. Without it, `bst_insert`
  could meet its own node, or a removal a node that a nested call has freed.
- `RoutedCorrect`: `Spec => []RoutedToOwner`, from the hypothesis `PortsKept`: all
  stores are on one port, or none is ever removed. Without it the property is
  false: a removal writes a key's store and never its port, and
  `ring_stale_port` shows a key misrouted so. The strengthening `RoutesSound`
  says what the property does not mention: the name a key keeps leads to its
  owner, directly or after `strtok` has cut it (`Led`); a server stands where its
  name hashes, or has a cut name (`Known`); and once its call has returned it is
  marked as a virtual node unless its plain name hashes to it (`Marked`), so that
  a cut name that leads elsewhere is an orphan's. While calls are in progress this
  holds of the keys to which no call is nearer than their owner (`Settled`), since
  ADD and DEL remap at their end, the innermost call first. `FirstAdded` covers
  the keys a ring kept from before it was empty.
- `MovementCorrect`: `Spec => MinimalMovement`, from `PortsKept` as well. The
  property compares two states with a whole request between them, so the
  strengthening `MovesSound` says of every state within a request where a key may
  have gone by then. `AddMoves`: a key that is not sent where it was when ADD began
  is sent to the new address, and a server of that address owns its slot.
  `DelMoves`: a key that was sent elsewhere than to the server DEL removes is sent
  there still, or a call in progress has yet to rename it. What they rest on is that
  a request's calls are all for one address (`CallsUsed`) and that a server stands
  where the name it was added under hashes, even once its name is cut
  (`ServersUsed`); with `Distinct` that makes a lookup find the address it is for
  (`LookedUp`). Keys that keep a name from before the ring was empty need one fact
  more (`StaleAlone`): the server in whose range such a key lies has no virtual
  nodes, since with them it would not have been the first of the ring, and would
  have renamed the keys of its range when its own call returned.

`HashTableProofs` proves, for every number of buckets and hash function
(`TableAssumption`): `TypeCorrect`, `BucketsCorrect`, `CountCorrect`, and
`TableImplementsMap`: `Spec => KV!Spec`, with a key's value in the map the one its
bucket's walk finds. Uniqueness of keys in a bucket is the strengthening: with it
the first match is the only one, so an item put in front hides no other
(`InsertedInFront`) and one taken out uncovers none (`TakenOut`). Both are
lemmas about one list; `BucketReplaced` lifts them to the table.

`TailQueueProofs` proves, for any number of connection threads, workers, requests,
entries and any width of `size` (`QueueAssumption`): `TypeCorrect`, `ListCorrect`,
`FaultsCorrect`, `OrderCorrect` and `SizeCorrect`, so that more workers than
`MAX_WORKERS` says would not change what the two locks are good for. The invariant
`Calm` holds until `tight` and says what each word of the list is between any two
statements: `AtInsert` and `AtRemove` say for each place in the macros what the
thread has already changed, `NextLinks`, `PrevLinks` and `Ends` what the list is
but for that. Threads of one side exclude each other (`Alone`); threads of both
sides, while two entries are queued, work on different words (`MeetOnTwo`,
`Newest`, `Oldest`). `OwnedApart` says that an entry not yet or no longer queued
is in one thread's hands, which is why freeing it harms nobody. Steps that write
neither list nor heap share `QuietStep`; the others have a lemma each. `SizeCounts`
adds the insertions `size` does not count yet and the removals it counts
already; `ModNext` is the arithmetic of its overflow.

`KVStoreProofs` proves, for any stores, places, keys, values and number of
failures (`KVAssumption`: two stores never share both ip and port, and every key
meets every store on the ring): `TypeCorrect`, `AckedStaysHeld`,
`OneCopyCorrect`, `GetsCorrect`, an action property, and `MapImplemented`, the
refinement `Spec => ActsAsOneMap`. `AckedHeld` alone says too
little of a request under way. The strengthening `Safe` adds `Linked` (a
connection goes to a store at the key's recorded address), `AnswerTrue` (an
answer that is not stale is what the store's table says), `SentOnce` (as long as
the ring is kept, a key that is not on it, or whose SET is under way, is held by no
store) and `RoutedHome` (an acknowledged key that has not
moved is routed to the store that took it). `GetsCorrect` then says of a step
that answers a GET: the store that answered is the key's home (`AddressFacts`), its
table has the acknowledged value, and the answer is that value.
`MapImplemented` needs two invariants more: `DataRouted` (a value is at the store
its key is sent to, unless ADD or DEL moved the key) and `Quiet` (before the first
failure every store runs, no descriptor is leaked, and the answer on its way is the
one due). `HeldValue` reads the abstract map off the stores, where `OneCopy` makes
the choice of a store unique. Then every step is a stutter but the answers: a SET's
is `KV!Set`, as `SentOnce` leaves no store that could have refused it, and a GET's
404 is right because a value elsewhere would contradict `DataRouted`.

`LoadBalancerProofs` proves, for any clients, descriptors, servers, cookies and
sizes of answers (`LoadBalancerAssumption`): `TypeCorrect`, `OneOwnerCorrect`,
`DescriptorsCorrect`, and `ServiceImplemented`: `Spec => S!Spec`, so that every
step of producers, coordinator, consumers, clients and servers is a step of
`Service` or a stutter. The strengthening: `ClientEndsOwn` (a client's end is in
the table under the number its connection has, and no other), `ServerEndsOwn` (a
consumer at work has a socket of its own, a connection before it none),
`AcceptedOnly` and `OwnAnswers`. What is sent on a descriptor reaches the client
it was accepted for or nobody (`SendsOwn`); from that, answers are own answers.
`SeenStep` reduces the refinement to the phase of the one connection that a step
is about.

`AcceptLoopProofs` proves, for any clients, threads, descriptors and numbers of
segments (`AcceptAssumption`): `TypeCorrect`, `CrashesCorrect`, `OneHolderCorrect`
and `ServiceImplemented`: `Spec => ServesInTurn`, a step of the loop, a thread, the
worker or a client is a step of `Service`, a stutter, or one after the race.
`OneHolder` alone is not inductive: that nothing is closed twice depends on what
each holder will do with its descriptor later. The strengthening `Calm`, which
holds until the race: a new thread has not read the variable only while the loop
waits in accept (`OneStart`), no two hands have the same descriptor (`OneHand`),
what is held is open and what is open is held (`HandsOpen`, `OpenHeld`), a
connection has one descriptor from its accept on (`OneEnd`), what the loop or a
thread holds was not read (`NotRead`), and answers are own answers (`OwnAnswer`).
`CrashesCorrect` follows: a thread whose descriptor stands for a connection nobody has
read dies only if that client left without a byte, so what is left is a lack of
descriptors and, in the worker, a POST without its fields. The worker may also stop
for ever (`"stuck"`) with its packet in hand. There is one lemma per action or group of actions that
moves descriptors in the same way; `HandsStay` serves those that move none.

`HttpRequestProofs` proves `TypeCorrect` for any threads, any room for headers, any
texts and any mixing of scans: `StrtokType` says that a call of `strtok` stays in its
buffer, `Progress` what a thread has in hand at each place of the parser. The bound
on the headers needs the strengthening that a thread that looks for the next line has
room for it. It also proves `ExecutesCorrect`, `AnsweredCorrect` and
`CrashesCorrect`. They assume of the requests only what `FormAssumption` says of
their form: a plain request has headers that end with an empty line and fit in
`MAX_HEADERS`, whatever words stand in them, and is a page or a command as
`server.py` sends it, for any key, value, ip, port and weight; an incomplete one is
blank or has such headers and any data at all. Requests of other forms may be among
them: what is then no longer claimed is that the server survives.

None of the three is inductive: an answer is right because of what twelve earlier
calls of `strtok` have found. The strengthening `Understood` follows the text through
them. `ScansApart`: each thread goes on only in its own buffers, which is what `mixed`
being false is good for, so that a step leaves the texts of the others alone
(`OwnScan`, `UntouchedStays`). `AtLine`, `BehindLines`, `MethodFound` and `Packed` say
what the parser has found of a well-formed text at each of its places: the next line
and the size of those before it, so that behind the last the data is the body, as it
was read. `ScansDone` says the same of the worker after `k` of its scans: where the
copy of the data is cut, where each register points and where the next scan goes on;
`Fits` is what a table of places must satisfy for that to go on, `ScanStep` the step
from `k` to `k + 1`, and `CommandFits`, `AddFits` and `DelFits` that the tables do, for
every command. `QueuedOnce`, `Working` and `Served` count the replies of requests that
are not handled yet, are in the worker's hands and have left them (`Told`, `ToldOnce`:
one reply, or none if the worker took the request for one to pass on). Of an incomplete
request they say that its type is known once it is queued, and that is enough for an
answer.

Only model-checked: liveness, which is beyond the prover (fairness and ENABLED).

## Not modelled

- `hashring_removekey`, `hashring_addstore_bst`, `hashring_hash_djb2`,
  `hashring_showranges`, `hashtable_display`, `requestToBuffer`: nothing calls
  them. `hashring_destroy`, `hashtable_delete`, `exit_cleanup` and the balancer's
  teardown run after the threads have ended, which `program_doexit` (never set)
  would have to cause.
- Start-up, beyond what `Init`, `Restart`, `RestartCoordinator` and `Setup` say
  of it: sockets that cannot be bound, wrong arguments.
- `EINTR`, short writes, failures of `malloc` and `inet_ntop`; requests of 4096
  bytes and more, for which `serverHandleRequest` grows its buffer.
- Clients that reset their connection. They leave with FIN, so `read` returns 0 and one
  write after it succeeds. `write` at loadbalancer.c:304 has no `MSG_NOSIGNAL` and no
  test, so after a reset SIGPIPE would end the balancer; `sendHTTPCode` is the same in
  the servers, where only the second reply to a malformed command is modelled as fatal.
- In the balancer, the sharing of `strtok` between consumers, which `HttpRequest`
  shows for the store; the sizes of headers, and with them the stack buffer that more
  than `MAX_HEADER_SIZE` bytes of headers overrun (loadbalancer.c:54). Its queue is that of
  `TailQueue`, with the same two locks. `Named` reads the cookie's number exactly,
  although `indexStr` has no NUL of its own (loadbalancer.c:333-336) and `atoi` may read
  on.
- Memory that happens to hold what is needed. `hashring_create` (hashring.h:340-351)
  writes neither `count`, `numberofservers`, `tree` nor `servers` after its `malloc`; `Init` of
  `HashRing` has them 0 and NULL, as in a fresh process. `hashring_addvirtualnodes`
  copies a name without its NUL (hashring.h:471-472) and `AddVirtual` takes it as intact;
  only the same copy in the removal (`Terminated`) is a choice. `strncat` at
  dkvstore.c:168 writes a NUL one past the header's buffer, and `Header` does not.
- The web front end (stateless), the rate limiter (empty) and the scripts.

## What could follow

A specification of a server whose requests become commands in one step, implemented
by `HttpRequest` until scans mix, so that `KVStore` could take its commands from
texts; the theorems of `HttpRequestProofs` are what its refinement would need.
