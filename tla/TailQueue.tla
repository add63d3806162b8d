----------------------------- MODULE TailQueue -----------------------------
(***************************************************************************)
(* The request queue of dkvstore.c: a TAILQ (sys/queue.h) that connection  *)
(* threads insert into under write_lock and request workers remove from    *)
(* under read_lock.  The locks are different ones, so an insertion and a   *)
(* removal interleave; a step is one statement of a queue macro, or one    *)
(* load or store where the statement follows a pointer it has loaded.      *)
(*                                                                         *)
(* A place is where a next pointer is stored: in an entry, or HEAD for     *)
(* tqh_first.  tqh_last and tqe_prev hold places.  TAILQ_LAST reads the    *)
(* word after a place: an entry's tqe_prev, or tqh_last for HEAD.          *)
(***************************************************************************)
EXTENDS Integers, Sequences, FiniteSets

CONSTANTS
  Producers,  \* connection threads alive at a time (serverHandleAccept)
  Workers,    \* requestWorker threads
  Requests,   \* the requests clients send
  Entries,    \* addresses malloc gives to queue entries
  Modulus,    \* one more than the largest size_t
  NULL, HEAD,
  Junk        \* what malloc leaves in a new entry

ASSUME QueueAssumption ==
  /\ Producers \cap Workers = {}
  /\ NULL \notin Producers \cup Workers \cup Entries
  /\ {HEAD, Junk} \cap Entries = {}
  /\ HEAD # Junk /\ HEAD # NULL /\ Junk # NULL
  /\ Modulus \in Nat \ {0}

Threads == Producers \cup Workers
Sizes   == 0 .. Modulus - 1

VARIABLES
  first, last,  \* tqh_first, tqh_last
  next, prev,   \* tqe_next, tqe_prev of each entry
  packet,       \* the request an entry holds
  live,         \* entries allocated and not freed
  size,         \* http_queue->size
  writeLock, readLock,
  pc,           \* the statement each thread is at
  elm, at, n,   \* its entry, the place it follows, the size it loaded
  sent, handled,
  status,       \* "ok" or "undefined"
  fifo,         \* history: the entries queued, the oldest first
  tight,        \* history: removal met insertion with less than two queued
  raced         \* history: two updates of size overlapped

list   == <<first, last, next, prev>>
heap   == <<packet, live>>
locks  == <<writeLock, readLock>>
local  == <<elm, at, n>>
others == <<sent, handled, status>>
vars   == <<list, heap, size, locks, pc, local, others, fifo, tight, raced>>

-----------------------------------------------------------------------------
Inserting(t) == pc[t] \in {"linkNext", "reload", "relink", "setLast", "setFirst", "setPrev"}
Removing(t)  == pc[t] \in {"empty", "readLast", "readPrev", "readEntry", "loadSize",
                           "storeSize", "readNext", "takeNext", "takeLast", "unlink"}

\* The statement thread t is at goes through a pointer to no live entry.
Dangling(t) ==
  \/ pc[t] = "relink" /\ at[t] \notin live
  \/ pc[t] \in {"readPrev", "readEntry"} /\ at[t] \notin live \cup {HEAD}
  \/ pc[t] \in {"setPrev", "readNext", "takeNext", "takeLast", "unlink", "handle"}
       /\ elm[t] \notin live
  \/ pc[t] = "takeNext" /\ next[elm[t]] \notin live
  \/ pc[t] = "unlink" /\ prev[elm[t]] \notin live \cup {HEAD}

\* Thread t goes from one statement to another.
Moves(t, from, to) ==
  /\ status = "ok"
  /\ pc[t] = from /\ ~Dangling(t)
  /\ pc' = [pc EXCEPT ![t] = to]

\* What the program does after that is not modelled.
Fault(t) ==
  /\ status = "ok" /\ Dangling(t)
  /\ status' = "undefined"
  /\ UNCHANGED <<list, heap, size, locks, pc, local, sent, handled, fifo>>

-----------------------------------------------------------------------------
(* serverHandleRequest, from the malloc of the entry.                      *)

\* One request, or one free address that no pointer holds, is as good as another.
Unsent == CHOOSE r \in Requests : r \notin sent
Held(e) ==
  \/ e \in {first, last} \/ \E i \in DOMAIN fifo : fifo[i] = e
  \/ \E x \in live : next[x] = e \/ prev[x] = e
  \/ \E t \in Threads : at[t] = e \/ elm[t] = e
Allocates(e) ==
  /\ e \notin live
  /\ ~Held(e) => e = CHOOSE x \in Entries \ live : ~Held(x)

Receive(p, r, e) ==
  /\ Moves(p, "idle", "lock")
  /\ r \notin sent /\ r = Unsent
  /\ Allocates(e)
  /\ sent' = sent \cup {r}
  /\ live' = live \cup {e}
  /\ packet' = [packet EXCEPT ![e] = r]
  /\ next' = [next EXCEPT ![e] = Junk]
  /\ prev' = [prev EXCEPT ![e] = Junk]
  /\ elm' = [elm EXCEPT ![p] = e]
  /\ UNCHANGED <<first, last, size, locks, at, n, handled, status, fifo>>

\* Faulty variant: the connection threads do not exclude each other.
LockWriteNot(p) ==
  /\ Moves(p, "lock", "linkNext")
  /\ UNCHANGED <<list, heap, size, locks, local, others, fifo>>

LockWrite(p) ==
  /\ Moves(p, "lock", "linkNext")
  /\ writeLock = NULL /\ writeLock' = p
  /\ UNCHANGED <<list, heap, size, readLock, local, others, fifo>>

\* TAILQ_INSERT_HEAD: if ((elm->next = head->first) != NULL) ...
LinkNext(p) ==
  /\ Moves(p, "linkNext", IF first = NULL THEN "setLast" ELSE "reload")
  /\ next' = [next EXCEPT ![elm[p]] = first]
  /\ UNCHANGED <<first, last, prev, heap, size, locks, local, others, fifo>>

\* ... head->first->prev = &elm->next, which loads first again,
Reload(p) ==
  /\ Moves(p, "reload", "relink")
  /\ at' = [at EXCEPT ![p] = first]
  /\ UNCHANGED <<list, heap, size, locks, elm, n, others, fifo>>

Relink(p) ==
  /\ Moves(p, "relink", "setFirst")
  /\ prev' = [prev EXCEPT ![at[p]] = elm[p]]
  /\ UNCHANGED <<first, last, next, heap, size, locks, local, others, fifo>>

\* ... else head->last = &elm->next,
SetLast(p) ==
  /\ Moves(p, "setLast", "setFirst")
  /\ last' = elm[p]
  /\ UNCHANGED <<first, next, prev, heap, size, locks, local, others, fifo>>

\* head->first = elm,
SetFirst(p) ==
  /\ Moves(p, "setFirst", "setPrev")
  /\ first' = elm[p]
  /\ fifo' = Append(fifo, elm[p])
  /\ UNCHANGED <<last, next, prev, heap, size, locks, local, others>>

\* elm->prev = &head->first.
SetPrev(p) ==
  /\ Moves(p, "setPrev", "loadSize")
  /\ prev' = [prev EXCEPT ![elm[p]] = HEAD]
  /\ UNCHANGED <<first, last, next, heap, size, locks, local, others, fifo>>

\* size++ here and size-- in the worker load, then store.
LoadSize(t) ==
  /\ Moves(t, "loadSize", "storeSize")
  /\ n' = [n EXCEPT ![t] = size]
  /\ UNCHANGED <<list, heap, size, locks, elm, at, others, fifo>>

StoreMore(p) ==
  /\ Moves(p, "storeSize", "unlock")
  /\ size' = (n[p] + 1) % Modulus
  /\ UNCHANGED <<list, heap, locks, local, others, fifo>>

\* The thread ends; another connection has its turn.
UnlockWrite(p) ==
  /\ Moves(p, "unlock", "idle")
  /\ writeLock' = NULL
  /\ elm' = [elm EXCEPT ![p] = NULL]
  /\ at' = [at EXCEPT ![p] = NULL]
  /\ n' = [n EXCEPT ![p] = 0]
  /\ UNCHANGED <<list, heap, size, readLock, others, fifo>>

-----------------------------------------------------------------------------
(* requestWorker, one turn of its loop.                                    *)

LockRead(w) ==
  /\ Moves(w, "lock", "empty")
  /\ readLock = NULL /\ readLock' = w
  /\ UNCHANGED <<list, heap, size, writeLock, local, others, fifo>>

\* Faulty variant: a queue of one entry is taken for an empty one.
CheckEmptyOne(w) ==
  /\ Moves(w, "empty", IF first = NULL \/ last = first THEN "unlock" ELSE "readLast")
  /\ UNCHANGED <<list, heap, size, locks, local, others, fifo>>

\* TAILQ_EMPTY.
CheckEmpty(w) ==
  /\ Moves(w, "empty", IF first = NULL THEN "unlock" ELSE "readLast")
  /\ UNCHANGED <<list, heap, size, locks, local, others, fifo>>

\* TAILQ_LAST: the place tqh_last names,
ReadLast(w) ==
  /\ Moves(w, "readLast", "readPrev")
  /\ at' = [at EXCEPT ![w] = last]
  /\ UNCHANGED <<list, heap, size, locks, elm, n, others, fifo>>

\* the word after it,
ReadPrev(w) ==
  /\ Moves(w, "readPrev", "readEntry")
  /\ at' = [at EXCEPT ![w] = IF @ = HEAD THEN last ELSE prev[@]]
  /\ UNCHANGED <<list, heap, size, locks, elm, n, others, fifo>>

\* Faulty variant: TAILQ_FIRST.
ReadEntryFirst(w) ==
  /\ Moves(w, "readEntry", "loadSize")
  /\ elm' = [elm EXCEPT ![w] = first]
  /\ UNCHANGED <<list, heap, size, locks, at, n, others, fifo>>

\* and the entry found at the place that word names.
ReadEntry(w) ==
  LET h == IF at[w] = HEAD THEN first ELSE next[at[w]]
  IN  /\ Moves(w, "readEntry", IF h = NULL THEN "unlock" ELSE "loadSize")
      /\ elm' = [elm EXCEPT ![w] = h]
      /\ UNCHANGED <<list, heap, size, locks, at, n, others, fifo>>

\* Faulty variant: a size that may fall below zero.
StoreLessSigned(w) ==
  /\ Moves(w, "storeSize", "readNext")
  /\ size' = n[w] - 1
  /\ UNCHANGED <<list, heap, locks, local, others, fifo>>

\* Faulty variant: the size stays.
StoreLessNot(w) ==
  /\ Moves(w, "storeSize", "readNext")
  /\ UNCHANGED <<list, heap, size, locks, local, others, fifo>>

StoreLess(w) ==
  /\ Moves(w, "storeSize", "readNext")
  /\ size' = (n[w] - 1) % Modulus
  /\ UNCHANGED <<list, heap, locks, local, others, fifo>>

\* Faulty variant: the entry is freed before it is removed.
ReadNextFreed(w) ==
  /\ Moves(w, "readNext", IF next[elm[w]] = NULL THEN "takeLast" ELSE "takeNext")
  /\ live' = live \ {elm[w]}
  /\ UNCHANGED <<list, packet, size, locks, local, others, fifo>>

\* TAILQ_REMOVE: if (elm->next != NULL) ...
ReadNext(w) ==
  /\ Moves(w, "readNext", IF next[elm[w]] = NULL THEN "takeLast" ELSE "takeNext")
  /\ UNCHANGED <<list, heap, size, locks, local, others, fifo>>

\* ... elm->next->prev = elm->prev,
TakeNext(w) ==
  /\ Moves(w, "takeNext", "unlink")
  /\ prev' = [prev EXCEPT ![next[elm[w]]] = prev[elm[w]]]
  /\ UNCHANGED <<first, last, next, heap, size, locks, local, others, fifo>>

\* ... else head->last = elm->prev,
TakeLast(w) ==
  /\ Moves(w, "takeLast", "unlink")
  /\ last' = prev[elm[w]]
  /\ UNCHANGED <<first, next, prev, heap, size, locks, local, others, fifo>>

\* Queue q without its entry e.
Without(q, e) ==
  IF \E i \in DOMAIN q : q[i] = e
  THEN LET k == CHOOSE i \in DOMAIN q : q[i] = e
       IN  [i \in 1 .. Len(q) - 1 |-> IF i < k THEN q[i] ELSE q[i + 1]]
  ELSE q

\* *elm->prev = elm->next.
Unlink(w) ==
  LET p == prev[elm[w]]
  IN  /\ Moves(w, "unlink", "unlock")
      /\ first' = IF p = HEAD THEN next[elm[w]] ELSE first
      /\ next' = IF p = HEAD THEN next ELSE [next EXCEPT ![p] = next[elm[w]]]
      /\ fifo' = Without(fifo, elm[w])
      /\ UNCHANGED <<last, prev, heap, size, locks, local, others>>

UnlockRead(w) ==
  /\ Moves(w, "unlock", IF elm[w] = NULL THEN "lock" ELSE "handle")
  /\ readLock' = NULL
  /\ UNCHANGED <<list, heap, size, writeLock, local, others, fifo>>

\* free(h), whose words are junk from then on; then the request is handled and
\* its connection closed.
Handle(w) ==
  /\ Moves(w, "handle", "lock")
  /\ live' = live \ {elm[w]}
  /\ next' = [next EXCEPT ![elm[w]] = Junk]
  /\ prev' = [prev EXCEPT ![elm[w]] = Junk]
  /\ packet' = [packet EXCEPT ![elm[w]] = NULL]
  /\ handled' = handled \cup {packet[elm[w]]}
  /\ elm' = [elm EXCEPT ![w] = NULL]
  /\ at' = [at EXCEPT ![w] = NULL]
  /\ n' = [n EXCEPT ![w] = 0]
  /\ UNCHANGED <<first, last, size, locks, sent, status, fifo>>

-----------------------------------------------------------------------------
Init ==
  /\ first = NULL /\ last = NULL           \* the queue lies in zeroed memory
  /\ next = [e \in Entries |-> Junk]
  /\ prev = [e \in Entries |-> Junk]
  /\ packet = [e \in Entries |-> NULL]
  /\ live = {}
  /\ size = 0
  /\ writeLock = NULL /\ readLock = NULL
  /\ pc = [t \in Threads |-> IF t \in Producers THEN "idle" ELSE "lock"]
  /\ elm = [t \in Threads |-> NULL]
  /\ at = [t \in Threads |-> NULL]
  /\ n = [t \in Threads |-> 0]
  /\ sent = {} /\ handled = {}
  /\ status = "ok"
  /\ fifo = << >>
  /\ tight = FALSE /\ raced = FALSE

Producer(p) ==
  \/ LockWrite(p) \/ LinkNext(p) \/ Reload(p) \/ Relink(p) \/ SetLast(p)
  \/ SetFirst(p) \/ SetPrev(p) \/ LoadSize(p) \/ StoreMore(p) \/ UnlockWrite(p)
  \/ Fault(p)

Worker(w) ==
  \/ LockRead(w) \/ CheckEmpty(w) \/ ReadLast(w) \/ ReadPrev(w) \/ ReadEntry(w)
  \/ LoadSize(w) \/ StoreLess(w) \/ ReadNext(w) \/ TakeNext(w) \/ TakeLast(w)
  \/ Unlink(w) \/ UnlockRead(w) \/ Handle(w) \/ Fault(w)

\* An insertion and a removal are under way on less than two entries.
Tight ==
  /\ Len(fifo) < 2
  /\ \E p \in Producers, w \in Workers : Inserting(p) /\ Removing(w)

\* Two threads have loaded size and not stored it.
Racing ==
  \E s, t \in Threads : s # t /\ pc[s] = "storeSize" /\ pc[t] = "storeSize"

Observed == tight' = (tight \/ Tight') /\ raced' = (raced \/ Racing')

Next ==
  /\ \/ \E p \in Producers, r \in Requests, e \in Entries : Receive(p, r, e)
     \/ \E p \in Producers : Producer(p)
     \/ \E w \in Workers : Worker(w)
  /\ Observed

Spec == Init /\ [][Next]_vars

\* Every thread keeps running; clients need not send.
FairSpec ==
  /\ Spec
  /\ \A p \in Producers : WF_vars(Producer(p) /\ Observed)
  /\ \A w \in Workers : WF_vars(Worker(w) /\ Observed)

-----------------------------------------------------------------------------
(* Properties.                                                             *)

PCs == {"idle", "lock", "linkNext", "reload", "relink", "setLast", "setFirst",
        "setPrev", "empty", "readLast", "readPrev", "readEntry", "loadSize",
        "storeSize", "readNext", "takeNext", "takeLast", "unlink", "unlock", "handle"}

(* Pointers are entries, places or junk, the counter has its width, locks  *)
(* are held by threads of their side.                                      *)
TypeOK ==
  /\ first \in Entries \cup {NULL, Junk}
  /\ last \in Entries \cup {NULL, HEAD, Junk}
  /\ next \in [Entries -> Entries \cup {NULL, Junk}]
  /\ prev \in [Entries -> Entries \cup {HEAD, Junk}]
  /\ packet \in [Entries -> Requests \cup {NULL}]
  /\ live \subseteq Entries
  /\ size \in Sizes
  /\ writeLock \in Producers \cup {NULL} /\ readLock \in Workers \cup {NULL}
  /\ pc \in [Threads -> PCs]
  /\ elm \in [Threads -> Entries \cup {NULL, Junk}]
  /\ at \in [Threads -> Entries \cup {NULL, HEAD, Junk}]
  /\ n \in [Threads -> Sizes]
  /\ sent \subseteq Requests /\ handled \subseteq sent
  /\ status \in {"ok", "undefined"}
  /\ fifo \in Seq(Entries)
  /\ tight \in BOOLEAN /\ raced \in BOOLEAN

Settled == \A t \in Threads : ~Inserting(t) /\ ~Removing(t)

(* When no thread is inside and no removal has met an insertion on fewer   *)
(* than two entries, the links in both directions, the head and the tail   *)
(* spell the queue, with its oldest entry last: two locks do as one.       *)
ListIsQueue ==
  LET len == Len(fifo)
  IN  Settled /\ ~tight =>
        /\ \A i \in 1 .. len :
             /\ fifo[i] \in live
             /\ next[fifo[i]] = IF i = 1 THEN NULL ELSE fifo[i - 1]
             /\ prev[fifo[i]] = IF i = len THEN HEAD ELSE fifo[i + 1]
        /\ first = IF len = 0 THEN NULL ELSE fifo[len]
        /\ last \in IF len = 0 THEN {NULL, HEAD} ELSE {fifo[1]}

(* No thread follows a pointer to a freed entry, or one nobody wrote,      *)
(* unless a removal met an insertion on fewer than two entries.            *)
FaultsOnlyWhenTight == status = "undefined" => tight

(* size is the number of entries queued as long as no size++ overlapped    *)
(* with a size--: the two locks do not exclude each other.                 *)
SizeIsLength ==
  Settled /\ ~tight /\ ~raced /\ (\A t \in Threads : pc[t] \notin {"loadSize", "storeSize"})
    => size = Len(fifo) % Modulus

(* A worker takes the request that has been queued longest.                *)
TakesOldest ==
  \A w \in Workers : Unlink(w) /\ ~tight => fifo # << >> /\ elm[w] = fifo[1]

OldestFirst == [][TakesOldest]_vars

(* Every request a connection thread has received is handled, unless a     *)
(* removal met an insertion on fewer than two entries.                     *)
RequestsHandled == \A r \in Requests : r \in sent ~> (r \in handled \/ tight)

(* dkvstore.h:124 says of each of the two locks "Mutex for synchronization" *)
(* and loadbalancer.c:33 of the same queue "Is lockable by a read and/or   *)
(* write mutex": the threads that take them use the queue safely.          *)
Synchronized == status = "ok"
=============================================================================
