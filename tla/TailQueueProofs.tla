---------------------------- MODULE TailQueueProofs ----------------------------
(***************************************************************************)
(* Proofs about TailQueue for any number of connection threads, workers,   *)
(* requests and entries.                                                   *)
(***************************************************************************)
EXTENDS TailQueue, TLAPS, WellFoundedInduction

-----------------------------------------------------------------------------
(* The invariant.                                                          *)

InsertPCs == {"linkNext", "reload", "relink", "setLast", "setFirst", "setPrev"}
RemovePCs == {"empty", "readLast", "readPrev", "readEntry", "loadSize", "storeSize",
              "readNext", "takeNext", "takeLast", "unlink"}

ProducerPCs == InsertPCs \cup {"idle", "lock", "loadSize", "storeSize", "unlock"}
WorkerPCs   == RemovePCs \cup {"lock", "unlock", "handle"}

\* A thread between its lock and its unlock holds the lock of its side.
Exclusive ==
  /\ \A p \in Producers :
       pc[p] \in ProducerPCs /\ (pc[p] \notin {"idle", "lock"} <=> writeLock = p)
  /\ \A w \in Workers :
       pc[w] \in WorkerPCs /\ (pc[w] \notin {"lock", "handle"} <=> readLock = w)

\* A connection thread has an entry; an entry in memory holds a request.
EntriesHold ==
  /\ \A p \in Producers : pc[p] # "idle" => elm[p] \in Entries
  /\ \A e \in live : packet[e] \in sent

TypeInv == TypeOK /\ Exclusive /\ EntriesHold

\* The entries queued are in memory, each queued once.
QueueLive ==
  /\ \A i \in DOMAIN fifo : fifo[i] \in live
  /\ \A i, j \in DOMAIN fifo : fifo[i] = fifo[j] => i = j

\* Thread t has an entry that nobody else can reach: not yet or no longer queued.
Owns(t) ==
  \/ t \in Producers /\ pc[t] \in {"lock", "linkNext", "reload", "relink", "setLast", "setFirst"}
  \/ t \in Workers /\ pc[t] \in {"unlock", "handle"} /\ elm[t] # NULL

OwnedApart ==
  \A t \in Threads : Owns(t) =>
    /\ elm[t] \in live
    /\ \A i \in DOMAIN fifo : fifo[i] # elm[t]
    /\ \A s \in Threads : Owns(s) /\ elm[s] = elm[t] => s = t

\* What next and prev of the entries queued, first and last hold at any time:
\* an insertion works at the newest entry, a removal at the oldest.
NextLinks ==
  \A i \in DOMAIN fifo : next[fifo[i]] = IF i = 1 THEN NULL ELSE fifo[i - 1]

PrevLinks ==
  /\ \A i \in DOMAIN fifo : i < Len(fifo) => prev[fifo[i]] = fifo[i + 1]
  /\ fifo # << >> /\ (\A p \in Producers : pc[p] \notin {"setFirst", "setPrev"})
       => prev[fifo[Len(fifo)]] = HEAD

Ends ==
  /\ first = IF fifo = << >> THEN NULL ELSE fifo[Len(fifo)]
  /\ fifo # << >> /\ (\A w \in Workers : pc[w] # "unlink") => last = fifo[1]
  /\ fifo = << >> /\ (\A p \in Producers : pc[p] # "setFirst") => last \in {NULL, HEAD}

\* The place of the entry that follows the oldest.
Second == IF Len(fifo) = 1 THEN HEAD ELSE fifo[2]

AtInsert(p) ==
  /\ pc[p] \in {"reload", "relink", "setLast", "setFirst"} => next[elm[p]] = first
  /\ pc[p] \in {"reload", "relink"} => fifo # << >>
  /\ pc[p] = "relink" => at[p] = first
  /\ pc[p] = "setLast" => fifo = << >>
  /\ pc[p] = "setFirst" => IF fifo = << >> THEN last = elm[p] ELSE prev[first] = elm[p]
  /\ pc[p] = "setPrev" => fifo # << >> /\ elm[p] = first

AtRemove(w) ==
  /\ pc[w] \in {"lock", "empty", "readLast", "readPrev", "readEntry"} => elm[w] = NULL
  /\ pc[w] \in RemovePCs \ {"empty"} => fifo # << >>
  /\ pc[w] = "readPrev" => at[w] = fifo[1]
  /\ pc[w] = "readEntry" => at[w] = Second
  /\ pc[w] \in {"loadSize", "storeSize", "readNext", "takeLast", "unlink"} => elm[w] = fifo[1]
  /\ pc[w] # "takeNext"
  /\ pc[w] = "unlink" => last = Second
  /\ pc[w] = "handle" => elm[w] # NULL

Calm ==
  /\ status = "ok" /\ ~Tight
  /\ QueueLive /\ OwnedApart
  /\ NextLinks /\ PrevLinks /\ Ends
  /\ \A p \in Producers : AtInsert(p)
  /\ \A w \in Workers : AtRemove(w)

QueueInv == TypeInv /\ (~tight => Calm)

\* Insertions that size does not count yet, and removals it counts already.
Unsized == {"setPrev", "loadSize", "storeSize"}
Presized == {"readNext", "takeLast", "unlink"}
Uncounted == IF \E p \in Producers : pc[p] \in Unsized THEN 1 ELSE 0
Discounted == IF \E w \in Workers : pc[w] \in Presized THEN 1 ELSE 0

Counts ==
  /\ size = (Len(fifo) - Uncounted - Discounted) % Modulus
  /\ \A t \in Threads : pc[t] = "storeSize" => n[t] = size

SizeCounts == ~tight /\ ~raced => ~Racing /\ Counts

IInv == QueueInv /\ SizeCounts

-----------------------------------------------------------------------------
(* Facts.                                                                  *)

LEMMA ConstantFacts ==
  /\ Producers \cap Workers = {} /\ Threads = Producers \cup Workers
  /\ NULL \notin Threads \cup Entries /\ HEAD \notin Entries /\ Junk \notin Entries
  /\ HEAD # NULL /\ HEAD # Junk /\ Junk # NULL
  /\ Modulus \in Nat \ {0} /\ 0 \in Sizes
BY QueueAssumption DEF Threads, Sizes

LEMMA SizesWrap ==
  ASSUME NEW i \in Int
  PROVE  i % Modulus \in Sizes
BY ConstantFacts DEF Sizes

\* One thread of a side is at work on the queue at a time.
LEMMA Alone ==
  ASSUME TypeInv
  PROVE  /\ \A p, q \in Producers :
              pc[p] \notin {"idle", "lock"} /\ pc[q] \notin {"idle", "lock"} => p = q
         /\ \A v, w \in Workers :
              pc[v] \notin {"lock", "handle"} /\ pc[w] \notin {"lock", "handle"} => v = w
BY DEF TypeInv, Exclusive

LEMMA AppendFacts ==
  ASSUME NEW q \in Seq(Entries), NEW e \in Entries
  PROVE  /\ Append(q, e) \in Seq(Entries) /\ Append(q, e) # << >>
         /\ Len(q) \in Nat /\ DOMAIN q = 1 .. Len(q)
         /\ Len(Append(q, e)) = Len(q) + 1
         /\ DOMAIN Append(q, e) = 1 .. Len(q) + 1
         /\ \A i \in DOMAIN q : Append(q, e)[i] = q[i]
         /\ Append(q, e)[Len(q) + 1] = e
OBVIOUS

LEMMA WithoutFacts ==
  ASSUME NEW q \in Seq(Entries), NEW e
  PROVE  /\ Without(q, e) \in Seq(Entries)
         /\ q # << >> /\ q[1] = e /\ (\A i, j \in DOMAIN q : q[i] = q[j] => i = j)
              => /\ Len(q) \in Nat /\ Len(q) >= 1
                 /\ Len(Without(q, e)) = Len(q) - 1
                 /\ DOMAIN Without(q, e) = 1 .. Len(q) - 1
                 /\ \A i \in 1 .. Len(q) - 1 : Without(q, e)[i] = q[i + 1]
<1>0. Len(q) \in Nat /\ DOMAIN q = 1 .. Len(q) /\ \A i \in DOMAIN q : q[i] \in Entries
  OBVIOUS
<1>1. CASE \E i \in DOMAIN q : q[i] = e
  <2> DEFINE k == CHOOSE i \in DOMAIN q : q[i] = e
             m == Len(q) - 1
             r == [i \in 1 .. m |-> IF i < k THEN q[i] ELSE q[i + 1]]
  <2>1. k \in DOMAIN q /\ q[k] = e
    BY <1>1
  <2>2. Without(q, e) = r /\ m \in Nat /\ k \in Int
    BY <1>0, <1>1, <2>1 DEF Without
  <2>3. \A i \in 1 .. m : r[i] = IF i < k THEN q[i] ELSE q[i + 1]
    OBVIOUS
  <2>4. \A i \in 1 .. m : r[i] \in Entries
    BY <1>0, <2>3
  <2>5. r \in [1 .. m -> Entries]
    BY <2>4
  <2>6. r \in Seq(Entries) /\ Len(r) = m /\ DOMAIN r = 1 .. m
    BY <2>2, <2>5
  <2>7. ASSUME q[1] = e, \A i, j \in DOMAIN q : q[i] = q[j] => i = j
        PROVE  \A i \in 1 .. m : r[i] = q[i + 1]
    <3>1. k = 1
      BY <1>0, <2>1, <2>7
    <3> HIDE DEF k, r
    <3> QED
      BY <2>2, <2>3, <3>1
  <2>8. Len(q) >= 1
    BY <1>0, <1>1
  <2> HIDE DEF k, r
  <2> QED
    BY <1>0, <2>2, <2>6, <2>7, <2>8
<1>2. CASE ~\E i \in DOMAIN q : q[i] = e
  <2>1. Without(q, e) = q
    BY <1>2 DEF Without
  <2>2. q # << >> => 1 \in DOMAIN q
    BY <1>0
  <2> QED
    BY <1>2, <2>1, <2>2
<1> QED
  BY <1>1, <1>2

-----------------------------------------------------------------------------
(* Types, locks and entries.                                               *)

LEMMA ReceiveTypes ==
  ASSUME TypeInv, NEW p \in Producers, NEW r \in Requests, NEW e \in Entries,
         Receive(p, r, e), tight' \in BOOLEAN, raced' \in BOOLEAN
  PROVE  TypeInv'
<1> USE ConstantFacts DEF TypeInv
<1>1. TypeOK'
  BY DEF TypeOK, Receive, Moves, PCs, locks
<1>2. Exclusive'
  BY DEF TypeOK, Exclusive, Receive, Moves, locks, ProducerPCs, WorkerPCs, InsertPCs, RemovePCs
<1>3. EntriesHold'
  BY DEF TypeOK, EntriesHold, Receive, Moves
<1> QED
  BY <1>1, <1>2, <1>3

LEMMA ProducerTypes ==
  ASSUME TypeInv, NEW p \in Producers, Producer(p),
         tight' \in BOOLEAN, raced' \in BOOLEAN
  PROVE  TypeInv'
<1> USE ConstantFacts DEF TypeInv, others, list, heap, locks, local
<1>1. CASE LockWrite(p)
  <2>1. TypeOK'
    BY <1>1 DEF TypeOK, LockWrite, Moves, Dangling, PCs, Sizes, EntriesHold
  <2>2. Exclusive'
    BY <1>1 DEF TypeOK, LockWrite, Moves, Exclusive, ProducerPCs, WorkerPCs, InsertPCs, RemovePCs
  <2>3. EntriesHold'
    BY <1>1 DEF TypeOK, LockWrite, Moves, EntriesHold
  <2> QED
    BY <2>1, <2>2, <2>3
<1>2. CASE LinkNext(p)
  <2>1. TypeOK'
    BY <1>2 DEF TypeOK, LinkNext, Moves, Dangling, PCs, Sizes, EntriesHold
  <2>2. Exclusive'
    BY <1>2 DEF TypeOK, LinkNext, Moves, Exclusive, ProducerPCs, WorkerPCs, InsertPCs, RemovePCs
  <2>3. EntriesHold'
    BY <1>2 DEF TypeOK, LinkNext, Moves, EntriesHold
  <2> QED
    BY <2>1, <2>2, <2>3
<1>3. CASE Reload(p)
  <2>1. TypeOK'
    BY <1>3 DEF TypeOK, Reload, Moves, Dangling, PCs, Sizes, EntriesHold
  <2>2. Exclusive'
    BY <1>3 DEF TypeOK, Reload, Moves, Exclusive, ProducerPCs, WorkerPCs, InsertPCs, RemovePCs
  <2>3. EntriesHold'
    BY <1>3 DEF TypeOK, Reload, Moves, EntriesHold
  <2> QED
    BY <2>1, <2>2, <2>3
<1>4. CASE Relink(p)
  <2>1. TypeOK'
    BY <1>4 DEF TypeOK, Relink, Moves, Dangling, PCs, Sizes, EntriesHold
  <2>2. Exclusive'
    BY <1>4 DEF TypeOK, Relink, Moves, Exclusive, ProducerPCs, WorkerPCs, InsertPCs, RemovePCs
  <2>3. EntriesHold'
    BY <1>4 DEF TypeOK, Relink, Moves, EntriesHold
  <2> QED
    BY <2>1, <2>2, <2>3
<1>5. CASE SetLast(p)
  <2>1. TypeOK'
    BY <1>5 DEF TypeOK, SetLast, Moves, Dangling, PCs, Sizes, EntriesHold
  <2>2. Exclusive'
    BY <1>5 DEF TypeOK, SetLast, Moves, Exclusive, ProducerPCs, WorkerPCs, InsertPCs, RemovePCs
  <2>3. EntriesHold'
    BY <1>5 DEF TypeOK, SetLast, Moves, EntriesHold
  <2> QED
    BY <2>1, <2>2, <2>3
<1>6. CASE SetFirst(p)
  <2>1. TypeOK'
    <3>1. elm[p] \in Entries
      BY <1>6 DEF SetFirst, Moves, EntriesHold
    <3>2. fifo' \in Seq(Entries)
      BY <1>6, <3>1, AppendFacts DEF SetFirst, TypeOK
    <3> QED
      BY <1>6, <3>1, <3>2 DEF TypeOK, SetFirst, Moves, PCs
  <2>2. Exclusive'
    BY <1>6 DEF TypeOK, SetFirst, Moves, Exclusive, ProducerPCs, WorkerPCs, InsertPCs, RemovePCs
  <2>3. EntriesHold'
    BY <1>6 DEF TypeOK, SetFirst, Moves, EntriesHold
  <2> QED
    BY <2>1, <2>2, <2>3
<1>7. CASE SetPrev(p)
  <2>1. TypeOK'
    BY <1>7 DEF TypeOK, SetPrev, Moves, Dangling, PCs, Sizes, EntriesHold
  <2>2. Exclusive'
    BY <1>7 DEF TypeOK, SetPrev, Moves, Exclusive, ProducerPCs, WorkerPCs, InsertPCs, RemovePCs
  <2>3. EntriesHold'
    BY <1>7 DEF TypeOK, SetPrev, Moves, EntriesHold
  <2> QED
    BY <2>1, <2>2, <2>3
<1>8. CASE LoadSize(p)
  <2>1. TypeOK'
    BY <1>8 DEF TypeOK, LoadSize, Moves, Dangling, PCs, Sizes, EntriesHold
  <2>2. Exclusive'
    BY <1>8 DEF TypeOK, LoadSize, Moves, Exclusive, ProducerPCs, WorkerPCs, InsertPCs, RemovePCs
  <2>3. EntriesHold'
    BY <1>8 DEF TypeOK, LoadSize, Moves, EntriesHold
  <2> QED
    BY <2>1, <2>2, <2>3
<1>9. CASE StoreMore(p)
  <2>1. TypeOK'
    <3>1. n[p] + 1 \in Int
      BY <1>9 DEF StoreMore, TypeOK, Sizes
    <3>2. size' \in Sizes
      BY <1>9, <3>1, SizesWrap DEF StoreMore
    <3> QED
      BY <1>9, <3>2 DEF TypeOK, StoreMore, Moves, PCs
  <2>2. Exclusive'
    BY <1>9 DEF TypeOK, StoreMore, Moves, Exclusive, ProducerPCs, WorkerPCs, InsertPCs, RemovePCs
  <2>3. EntriesHold'
    BY <1>9 DEF TypeOK, StoreMore, Moves, EntriesHold
  <2> QED
    BY <2>1, <2>2, <2>3
<1>10. CASE UnlockWrite(p)
  <2>1. TypeOK'
    BY <1>10 DEF TypeOK, UnlockWrite, Moves, Dangling, PCs, Sizes, EntriesHold
  <2>2. Exclusive'
    <3>1. pc[p] = "unlock" /\ writeLock' = NULL /\ UNCHANGED readLock
          /\ pc' = [pc EXCEPT ![p] = "idle"]
      BY <1>10 DEF UnlockWrite, Moves
    <3>2. \A w \in Workers : pc'[w] = pc[w]
      BY <3>1 DEF TypeOK
    <3>3. \A q \in Producers : q # p => pc'[q] = pc[q] /\ pc[q] \in {"idle", "lock"}
      BY <3>1 DEF TypeOK, Exclusive
    <3>4. pc'[p] = "idle"
      BY <3>1 DEF TypeOK
    <3> QED
      BY <3>1, <3>2, <3>3, <3>4 DEF Exclusive, ProducerPCs, WorkerPCs, InsertPCs, RemovePCs
  <2>3. EntriesHold'
    BY <1>10 DEF TypeOK, UnlockWrite, Moves, EntriesHold
  <2> QED
    BY <2>1, <2>2, <2>3
<1>11. CASE Fault(p)
  <2>1. TypeOK'
    BY <1>11 DEF TypeOK, Fault, Moves, Dangling, PCs, Sizes, EntriesHold
  <2>2. Exclusive'
    BY <1>11 DEF TypeOK, Fault, Moves, Exclusive, ProducerPCs, WorkerPCs, InsertPCs, RemovePCs
  <2>3. EntriesHold'
    BY <1>11 DEF TypeOK, Fault, Moves, EntriesHold
  <2> QED
    BY <2>1, <2>2, <2>3
<1> QED
  BY <1>1, <1>2, <1>3, <1>4, <1>5, <1>6, <1>7, <1>8, <1>9, <1>10, <1>11 DEF Producer

LEMMA WorkerTypes ==
  ASSUME TypeInv, NEW w \in Workers, Worker(w),
         tight' \in BOOLEAN, raced' \in BOOLEAN
  PROVE  TypeInv'
<1> USE ConstantFacts DEF TypeInv, others, list, heap, locks, local
<1>1. CASE LockRead(w)
  <2>1. TypeOK'
    BY <1>1 DEF TypeOK, LockRead, Moves, Dangling, PCs, Sizes, EntriesHold
  <2>2. Exclusive'
    <3>1. pc[w] = "lock" /\ pc' = [pc EXCEPT ![w] = "empty"]
          /\ readLock = NULL /\ readLock' = w /\ UNCHANGED writeLock
      BY <1>1 DEF LockRead, Moves
    <3>2. \A q \in Producers : pc'[q] = pc[q]
      BY <3>1 DEF TypeOK
    <3>3. \A v \in Workers : v # w => pc'[v] = pc[v] /\ pc[v] \in {"lock", "handle"}
      BY <3>1 DEF TypeOK, Exclusive
    <3>4. pc'[w] = "empty"
      BY <3>1 DEF TypeOK
    <3> QED
      BY <3>1, <3>2, <3>3, <3>4 DEF Exclusive, ProducerPCs, WorkerPCs, InsertPCs, RemovePCs
  <2>3. EntriesHold'
    BY <1>1 DEF TypeOK, LockRead, Moves, EntriesHold
  <2> QED
    BY <2>1, <2>2, <2>3
<1>2. CASE CheckEmpty(w)
  <2>1. TypeOK'
    BY <1>2 DEF TypeOK, CheckEmpty, Moves, Dangling, PCs, Sizes, EntriesHold
  <2>2. Exclusive'
    BY <1>2 DEF TypeOK, CheckEmpty, Moves, Exclusive, ProducerPCs, WorkerPCs, InsertPCs, RemovePCs
  <2>3. EntriesHold'
    BY <1>2 DEF TypeOK, CheckEmpty, Moves, EntriesHold
  <2> QED
    BY <2>1, <2>2, <2>3
<1>3. CASE ReadLast(w)
  <2>1. TypeOK'
    BY <1>3 DEF TypeOK, ReadLast, Moves, Dangling, PCs, Sizes, EntriesHold
  <2>2. Exclusive'
    BY <1>3 DEF TypeOK, ReadLast, Moves, Exclusive, ProducerPCs, WorkerPCs, InsertPCs, RemovePCs
  <2>3. EntriesHold'
    BY <1>3 DEF TypeOK, ReadLast, Moves, EntriesHold
  <2> QED
    BY <2>1, <2>2, <2>3
<1>4. CASE ReadPrev(w)
  <2>1. TypeOK'
    BY <1>4 DEF TypeOK, ReadPrev, Moves, Dangling, PCs, Sizes, EntriesHold
  <2>2. Exclusive'
    BY <1>4 DEF TypeOK, ReadPrev, Moves, Exclusive, ProducerPCs, WorkerPCs, InsertPCs, RemovePCs
  <2>3. EntriesHold'
    BY <1>4 DEF TypeOK, ReadPrev, Moves, EntriesHold
  <2> QED
    BY <2>1, <2>2, <2>3
<1>5. CASE ReadEntry(w)
  <2>1. TypeOK'
    BY <1>5 DEF TypeOK, ReadEntry, Moves, Dangling, PCs, Sizes, EntriesHold
  <2>2. Exclusive'
    BY <1>5 DEF TypeOK, ReadEntry, Moves, Exclusive, ProducerPCs, WorkerPCs, InsertPCs, RemovePCs
  <2>3. EntriesHold'
    BY <1>5 DEF TypeOK, ReadEntry, Moves, EntriesHold
  <2> QED
    BY <2>1, <2>2, <2>3
<1>6. CASE LoadSize(w)
  <2>1. TypeOK'
    BY <1>6 DEF TypeOK, LoadSize, Moves, Dangling, PCs, Sizes, EntriesHold
  <2>2. Exclusive'
    BY <1>6 DEF TypeOK, LoadSize, Moves, Exclusive, ProducerPCs, WorkerPCs, InsertPCs, RemovePCs
  <2>3. EntriesHold'
    BY <1>6 DEF TypeOK, LoadSize, Moves, EntriesHold
  <2> QED
    BY <2>1, <2>2, <2>3
<1>7. CASE StoreLess(w)
  <2>1. TypeOK'
    <3>1. n[w] - 1 \in Int
      BY <1>7 DEF StoreLess, TypeOK, Sizes
    <3>2. size' \in Sizes
      BY <1>7, <3>1, SizesWrap DEF StoreLess
    <3> QED
      BY <1>7, <3>2 DEF TypeOK, StoreLess, Moves, PCs
  <2>2. Exclusive'
    <3>1. pc[w] = "storeSize" /\ pc' = [pc EXCEPT ![w] = "readNext"] /\ UNCHANGED locks
      BY <1>7 DEF StoreLess, Moves
    <3> QED
      BY <3>1 DEF TypeOK, Exclusive, ProducerPCs, WorkerPCs, InsertPCs, RemovePCs
  <2>3. EntriesHold'
    BY <1>7 DEF TypeOK, StoreLess, Moves, EntriesHold
  <2> QED
    BY <2>1, <2>2, <2>3
<1>8. CASE ReadNext(w)
  <2>1. TypeOK'
    BY <1>8 DEF TypeOK, ReadNext, Moves, Dangling, PCs, Sizes, EntriesHold
  <2>2. Exclusive'
    BY <1>8 DEF TypeOK, ReadNext, Moves, Exclusive, ProducerPCs, WorkerPCs, InsertPCs, RemovePCs
  <2>3. EntriesHold'
    BY <1>8 DEF TypeOK, ReadNext, Moves, EntriesHold
  <2> QED
    BY <2>1, <2>2, <2>3
<1>9. CASE TakeNext(w)
  <2>1. TypeOK'
    BY <1>9 DEF TypeOK, TakeNext, Moves, Dangling, PCs, Sizes, EntriesHold
  <2>2. Exclusive'
    BY <1>9 DEF TypeOK, TakeNext, Moves, Exclusive, ProducerPCs, WorkerPCs, InsertPCs, RemovePCs
  <2>3. EntriesHold'
    BY <1>9 DEF TypeOK, TakeNext, Moves, EntriesHold
  <2> QED
    BY <2>1, <2>2, <2>3
<1>10. CASE TakeLast(w)
  <2>1. TypeOK'
    BY <1>10 DEF TypeOK, TakeLast, Moves, Dangling, PCs, Sizes, EntriesHold
  <2>2. Exclusive'
    BY <1>10 DEF TypeOK, TakeLast, Moves, Exclusive, ProducerPCs, WorkerPCs, InsertPCs, RemovePCs
  <2>3. EntriesHold'
    BY <1>10 DEF TypeOK, TakeLast, Moves, EntriesHold
  <2> QED
    BY <2>1, <2>2, <2>3
<1>11. CASE Unlink(w)
  <2>1. TypeOK'
    <3>1. fifo' \in Seq(Entries)
      BY <1>11, WithoutFacts DEF Unlink, TypeOK
    <3>2. next[elm[w]] \in Entries \cup {NULL, Junk}
      BY <1>11 DEF Unlink, Moves, Dangling, TypeOK
    <3>3. first' \in Entries \cup {NULL, Junk} /\ next' \in [Entries -> Entries \cup {NULL, Junk}]
      BY <1>11, <3>2 DEF Unlink, TypeOK
    <3> QED
      BY <1>11, <3>1, <3>3 DEF TypeOK, Unlink, Moves, PCs
  <2>2. Exclusive'
    BY <1>11 DEF TypeOK, Unlink, Moves, Exclusive, ProducerPCs, WorkerPCs, InsertPCs, RemovePCs
  <2>3. EntriesHold'
    BY <1>11 DEF TypeOK, Unlink, Moves, EntriesHold
  <2> QED
    BY <2>1, <2>2, <2>3
<1>12. CASE UnlockRead(w)
  <2>1. TypeOK'
    BY <1>12 DEF TypeOK, UnlockRead, Moves, Dangling, PCs, Sizes, EntriesHold
  <2>2. Exclusive'
    <3>1. pc[w] = "unlock" /\ readLock' = NULL /\ UNCHANGED writeLock
          /\ pc' = [pc EXCEPT ![w] = IF elm[w] = NULL THEN "lock" ELSE "handle"]
      BY <1>12 DEF UnlockRead, Moves
    <3>2. \A q \in Producers : pc'[q] = pc[q]
      BY <3>1 DEF TypeOK
    <3>3. \A v \in Workers : v # w => pc'[v] = pc[v] /\ pc[v] \in {"lock", "handle"}
      BY <3>1 DEF TypeOK, Exclusive
    <3>4. pc'[w] \in {"lock", "handle"}
      BY <3>1 DEF TypeOK
    <3> QED
      BY <3>1, <3>2, <3>3, <3>4 DEF Exclusive, ProducerPCs, WorkerPCs, InsertPCs, RemovePCs
  <2>3. EntriesHold'
    BY <1>12 DEF TypeOK, UnlockRead, Moves, EntriesHold
  <2> QED
    BY <2>1, <2>2, <2>3
<1>13. CASE Handle(w)
  <2>1. TypeOK'
    BY <1>13 DEF TypeOK, Handle, Moves, Dangling, PCs, Sizes, EntriesHold
  <2>2. Exclusive'
    BY <1>13 DEF TypeOK, Handle, Moves, Exclusive, ProducerPCs, WorkerPCs, InsertPCs, RemovePCs
  <2>3. EntriesHold'
    BY <1>13 DEF TypeOK, Handle, Moves, EntriesHold
  <2> QED
    BY <2>1, <2>2, <2>3
<1>14. CASE Fault(w)
  <2>1. TypeOK'
    BY <1>14 DEF TypeOK, Fault, Moves, Dangling, PCs, Sizes, EntriesHold
  <2>2. Exclusive'
    BY <1>14 DEF TypeOK, Fault, Moves, Exclusive, ProducerPCs, WorkerPCs, InsertPCs, RemovePCs
  <2>3. EntriesHold'
    BY <1>14 DEF TypeOK, Fault, Moves, EntriesHold
  <2> QED
    BY <2>1, <2>2, <2>3
<1> QED
  BY <1>1, <1>2, <1>3, <1>4, <1>5, <1>6, <1>7, <1>8, <1>9, <1>10, <1>11, <1>12, <1>13,
     <1>14 DEF Worker

LEMMA TypeStep ==
  ASSUME TypeInv, [Next]_vars
  PROVE  TypeInv'
<1>1. CASE UNCHANGED vars
  BY <1>1 DEF vars, list, heap, locks, local, others, TypeInv, TypeOK, Exclusive, EntriesHold
<1>2. CASE Next
  <2>1. tight' \in BOOLEAN /\ raced' \in BOOLEAN
    BY <1>2 DEF Next, Observed, TypeInv, TypeOK
  <2>2. CASE \E p \in Producers, r \in Requests, e \in Entries : Receive(p, r, e)
    BY <2>1, <2>2, ReceiveTypes
  <2>3. CASE \E p \in Producers : Producer(p)
    BY <2>1, <2>3, ProducerTypes
  <2>4. CASE \E w \in Workers : Worker(w)
    BY <2>1, <2>4, WorkerTypes
  <2> QED
    BY <1>2, <2>2, <2>3, <2>4 DEF Next
<1> QED
  BY <1>1, <1>2

LEMMA TypeInit == Init => TypeInv
<1> SUFFICES ASSUME Init PROVE TypeInv
  OBVIOUS
<1>1. \A p \in Producers : pc[p] = "idle" /\ p \in Threads
  BY ConstantFacts DEF Init
<1>2. \A w \in Workers : pc[w] = "lock" /\ w \notin Producers
  BY ConstantFacts DEF Init
<1>3. TypeOK
  <2>1. fifo \in Seq(Entries)
    BY DEF Init
  <2>2. pc \in [Threads -> PCs]
    BY DEF Init, PCs
  <2> QED
    BY <2>1, <2>2, ConstantFacts DEF Init, TypeOK
<1>4. Exclusive
  BY <1>1, <1>2, ConstantFacts DEF Init, Exclusive, ProducerPCs, WorkerPCs
<1>5. EntriesHold
  BY <1>1 DEF Init, EntriesHold
<1> QED
  BY <1>3, <1>4, <1>5 DEF TypeInv

LEMMA TypesInvariant == Spec => []TypeInv
<1>1. Spec => []TypeInv
  BY TypeInit, TypeStep, PTL DEF Spec
<1> QED
  BY <1>1

(* Pointers are entries, places or junk, size keeps its width, and each    *)
(* lock is held by a thread of its side.                                   *)
THEOREM TypeCorrect == Spec => []TypeOK
<1>1. TypeInv => TypeOK
  BY DEF TypeInv
<1> QED
  BY <1>1, TypesInvariant, PTL

-----------------------------------------------------------------------------
(* The queue until an insertion and a removal meet on less than two        *)
(* entries.                                                                *)

LEMMA QueueFacts ==
  ASSUME TypeInv, Calm
  PROVE  /\ Len(fifo) \in Nat /\ DOMAIN fifo = 1 .. Len(fifo)
         /\ fifo # << >> <=> Len(fifo) >= 1
         /\ \A i \in DOMAIN fifo : fifo[i] \in Entries /\ fifo[i] \in live /\ fifo[i] # NULL
         /\ first = NULL <=> fifo = << >>
         /\ fifo # << >> => first = fifo[Len(fifo)]
<1>1. Len(fifo) \in Nat /\ DOMAIN fifo = 1 .. Len(fifo)
      /\ (fifo # << >> <=> Len(fifo) >= 1) /\ \A i \in DOMAIN fifo : fifo[i] \in Entries
  BY DEF TypeInv, TypeOK
<1> QED
  BY <1>1, ConstantFacts DEF Calm, QueueLive, Ends

\* An insertion and a removal under way leave two entries at least.
LEMMA MeetOnTwo ==
  ASSUME TypeInv, ~Tight, NEW p \in Producers, NEW w \in Workers,
         pc[p] \in InsertPCs, pc[w] \in RemovePCs
  PROVE  Len(fifo) \in Nat /\ Len(fifo) >= 2
<1>1. Inserting(p) /\ Removing(w)
  BY DEF Inserting, Removing, InsertPCs, RemovePCs
<1>2. Len(fifo) \in Nat
  BY DEF TypeInv, TypeOK
<1> QED
  BY <1>1, <1>2 DEF Tight

\* A step that writes neither list nor heap, of a thread whose entry stays its own.
Quiet(t, to) ==
  /\ UNCHANGED <<first, last, next, prev, live, fifo, status>>
  /\ pc' = [pc EXCEPT ![t] = to]
  /\ \A s \in Threads : s # t => elm'[s] = elm[s] /\ at'[s] = at[s]

LEMMA QuietStep ==
  ASSUME TypeInv, Calm, ~Tight', NEW t \in Threads, NEW to, Quiet(t, to),
         {pc[t], to} \cap {"setFirst", "setPrev", "unlink"} = {},
         Owns(t)' => Owns(t) /\ elm'[t] = elm[t],
         t \in Producers => AtInsert(t)',
         t \in Workers => AtRemove(t)'
  PROVE  Calm'
<1>0. /\ pc'[t] = to /\ \A s \in Threads : s # t => pc'[s] = pc[s]
      /\ UNCHANGED <<first, last, next, prev, live, fifo, status>>
      /\ \A s \in Threads : s # t => elm'[s] = elm[s] /\ at'[s] = at[s]
      /\ Producers \subseteq Threads /\ Workers \subseteq Threads
      /\ pc[t] \notin {"setFirst", "setPrev", "unlink"}
      /\ to \notin {"setFirst", "setPrev", "unlink"}
  BY ConstantFacts DEF Quiet, TypeInv, TypeOK
<1>1. status' = "ok" /\ QueueLive' /\ NextLinks'
  BY <1>0 DEF Calm, QueueLive, NextLinks
<1>2. OwnedApart'
  <2>1. \A s \in Threads : Owns(s)' => Owns(s) /\ elm'[s] = elm[s]
    BY <1>0 DEF Owns
  <2> QED
    BY <1>0, <2>1 DEF Calm, OwnedApart
<1>3. PrevLinks' /\ Ends'
  BY <1>0 DEF Calm, PrevLinks, Ends
<1>4. \A p \in Producers : AtInsert(p)'
  BY <1>0 DEF Calm, AtInsert
<1>5. \A w \in Workers : AtRemove(w)'
  BY <1>0 DEF Calm, AtRemove, Second
<1> QED
  BY <1>1, <1>2, <1>3, <1>4, <1>5 DEF Calm

LEMMA QuietProducer ==
  ASSUME TypeInv, Calm, ~Tight', NEW p \in Producers,
         LockWrite(p) \/ Reload(p) \/ LoadSize(p) \/ StoreMore(p) \/ UnlockWrite(p)
  PROVE  Calm'
<1> USE ConstantFacts, QueueFacts DEF list, heap, locks, local, others
<1>1. CASE LockWrite(p)
  <2> DEFINE to == "linkNext"
  <2>1. Quiet(p, to) /\ {pc[p], to} \cap {"setFirst", "setPrev", "unlink"} = {}
    BY <1>1 DEF Quiet, LockWrite, Moves, TypeInv, TypeOK
  <2>2. Owns(p)' => Owns(p) /\ elm'[p] = elm[p]
    BY <1>1 DEF Owns, LockWrite, Moves, TypeInv, TypeOK, Calm, AtInsert
  <2>3. AtInsert(p)'
    BY <1>1 DEF AtInsert, LockWrite, Moves, TypeInv, TypeOK, Calm
  <2> QED
    BY <2>1, <2>2, <2>3, QuietStep
<1>2. CASE Reload(p)
  <2> DEFINE to == "relink"
  <2>1. Quiet(p, to) /\ {pc[p], to} \cap {"setFirst", "setPrev", "unlink"} = {}
    BY <1>2 DEF Quiet, Reload, Moves, TypeInv, TypeOK
  <2>2. Owns(p)' => Owns(p) /\ elm'[p] = elm[p]
    BY <1>2 DEF Owns, Reload, Moves, TypeInv, TypeOK, Calm, AtInsert
  <2>3. AtInsert(p)'
    BY <1>2 DEF AtInsert, Reload, Moves, TypeInv, TypeOK, Calm
  <2> QED
    BY <2>1, <2>2, <2>3, QuietStep
<1>3. CASE LoadSize(p)
  <2> DEFINE to == "storeSize"
  <2>1. Quiet(p, to) /\ {pc[p], to} \cap {"setFirst", "setPrev", "unlink"} = {}
    BY <1>3 DEF Quiet, LoadSize, Moves, TypeInv, TypeOK
  <2>2. Owns(p)' => Owns(p) /\ elm'[p] = elm[p]
    BY <1>3 DEF Owns, LoadSize, Moves, TypeInv, TypeOK, Calm, AtInsert
  <2>3. AtInsert(p)'
    BY <1>3 DEF AtInsert, LoadSize, Moves, TypeInv, TypeOK, Calm
  <2> QED
    BY <2>1, <2>2, <2>3, QuietStep
<1>4. CASE StoreMore(p)
  <2> DEFINE to == "unlock"
  <2>1. Quiet(p, to) /\ {pc[p], to} \cap {"setFirst", "setPrev", "unlink"} = {}
    BY <1>4 DEF Quiet, StoreMore, Moves, TypeInv, TypeOK
  <2>2. Owns(p)' => Owns(p) /\ elm'[p] = elm[p]
    BY <1>4 DEF Owns, StoreMore, Moves, TypeInv, TypeOK, Calm, AtInsert
  <2>3. AtInsert(p)'
    BY <1>4 DEF AtInsert, StoreMore, Moves, TypeInv, TypeOK, Calm
  <2> QED
    BY <2>1, <2>2, <2>3, QuietStep
<1>5. CASE UnlockWrite(p)
  <2> DEFINE to == "idle"
  <2>1. Quiet(p, to) /\ {pc[p], to} \cap {"setFirst", "setPrev", "unlink"} = {}
    BY <1>5 DEF Quiet, UnlockWrite, Moves, TypeInv, TypeOK
  <2>2. Owns(p)' => Owns(p) /\ elm'[p] = elm[p]
    BY <1>5 DEF Owns, UnlockWrite, Moves, TypeInv, TypeOK, Calm, AtInsert
  <2>3. AtInsert(p)'
    BY <1>5 DEF AtInsert, UnlockWrite, Moves, TypeInv, TypeOK, Calm
  <2> QED
    BY <2>1, <2>2, <2>3, QuietStep
<1> QED
  BY <1>1, <1>2, <1>3, <1>4, <1>5

\* What a removal finds at the tail.
LEMMA Oldest ==
  ASSUME TypeInv, Calm, NEW w \in Workers, pc[w] \in RemovePCs \ {"empty"}
  PROVE  /\ fifo # << >> /\ 1 \in DOMAIN fifo /\ fifo[1] \in Entries /\ fifo[1] \in live
         /\ next[fifo[1]] = NULL /\ prev[fifo[1]] = Second
         /\ pc[w] # "unlink" => last = fifo[1]
         /\ IF Len(fifo) = 1
            THEN Second = HEAD /\ first = fifo[1]
            ELSE /\ Second = fifo[2] /\ 2 \in DOMAIN fifo
                 /\ fifo[2] \in Entries /\ fifo[2] \in live /\ next[fifo[2]] = fifo[1]
<1>1. fifo # << >>
  BY DEF Calm, AtRemove
<1>2. /\ Len(fifo) \in Nat /\ Len(fifo) >= 1 /\ 1 \in DOMAIN fifo
      /\ Len(fifo) # 1 => 2 \in DOMAIN fifo
  BY <1>1, QueueFacts
<1>3. /\ fifo[1] \in Entries /\ fifo[1] \in live
      /\ Len(fifo) # 1 => fifo[2] \in Entries /\ fifo[2] \in live
  BY <1>2, QueueFacts
<1>4. next[fifo[1]] = NULL /\ (Len(fifo) # 1 => next[fifo[2]] = fifo[1])
  BY <1>2 DEF Calm, NextLinks
<1>5. prev[fifo[1]] = Second
  <2>1. CASE Len(fifo) = 1
    <3>1. \A p \in Producers : pc[p] \notin {"setFirst", "setPrev"}
      BY <2>1, MeetOnTwo DEF Calm, InsertPCs
    <3> QED
      BY <1>1, <2>1, <3>1 DEF Calm, PrevLinks, Second
  <2>2. CASE Len(fifo) # 1
    BY <1>2, <2>2 DEF Calm, PrevLinks, Second
  <2> QED
    BY <2>1, <2>2
<1>6. pc[w] # "unlink" => last = fifo[1]
  <2> SUFFICES ASSUME pc[w] # "unlink" PROVE last = fifo[1]
    OBVIOUS
  <2>1. \A v \in Workers : pc[v] # "unlink"
    BY Alone DEF RemovePCs
  <2> QED
    BY <1>1, <2>1 DEF Calm, Ends
<1>7. Len(fifo) = 1 => first = fifo[1]
  BY <1>1 DEF Calm, Ends
<1> QED
  BY <1>1, <1>2, <1>3, <1>4, <1>5, <1>6, <1>7 DEF Second

LEMMA QuietWorker ==
  ASSUME TypeInv, Calm, ~Tight', NEW w \in Workers,
         \/ LockRead(w) \/ CheckEmpty(w) \/ ReadLast(w) \/ ReadPrev(w) \/ ReadEntry(w)
         \/ LoadSize(w) \/ StoreLess(w) \/ ReadNext(w) \/ UnlockRead(w)
  PROVE  Calm'
<1> USE ConstantFacts, QueueFacts DEF list, heap, locks, local, others
<1>1. CASE LockRead(w)
  <2> DEFINE to == "empty"
  <2>1. Quiet(w, to) /\ {pc[w], to} \cap {"setFirst", "setPrev", "unlink"} = {}
    BY <1>1 DEF Quiet, LockRead, Moves, TypeInv, TypeOK
  <2>2. Owns(w)' => Owns(w) /\ elm'[w] = elm[w]
    BY <1>1 DEF Owns, LockRead, Moves, TypeInv, TypeOK, Calm, AtRemove
  <2>3. AtRemove(w)'
    BY <1>1 DEF AtRemove, LockRead, Moves, TypeInv, TypeOK, Calm, RemovePCs, Second
  <2> QED
    BY <2>1, <2>2, <2>3, QuietStep
<1>2. CASE CheckEmpty(w)
  <2> DEFINE to == IF first = NULL THEN "unlock" ELSE "readLast"
  <2>1. Quiet(w, to) /\ {pc[w], to} \cap {"setFirst", "setPrev", "unlink"} = {}
    BY <1>2 DEF Quiet, CheckEmpty, Moves, TypeInv, TypeOK
  <2>2. Owns(w)' => Owns(w) /\ elm'[w] = elm[w]
    BY <1>2 DEF Owns, CheckEmpty, Moves, TypeInv, TypeOK, Calm, AtRemove
  <2>3. AtRemove(w)'
    BY <1>2 DEF AtRemove, CheckEmpty, Moves, TypeInv, TypeOK, Calm, RemovePCs, Second
  <2> QED
    BY <2>1, <2>2, <2>3, QuietStep
<1>3. CASE ReadLast(w)
  <2> DEFINE to == "readPrev"
  <2>1. Quiet(w, to) /\ {pc[w], to} \cap {"setFirst", "setPrev", "unlink"} = {}
    BY <1>3 DEF Quiet, ReadLast, Moves, TypeInv, TypeOK
  <2>2. Owns(w)' => Owns(w) /\ elm'[w] = elm[w]
    BY <1>3 DEF Owns, ReadLast, Moves, TypeInv, TypeOK, Calm, AtRemove
  <2>3. AtRemove(w)'
    BY <1>3, Oldest DEF AtRemove, ReadLast, Moves, TypeInv, TypeOK, Calm, RemovePCs, Second
  <2> QED
    BY <2>1, <2>2, <2>3, QuietStep
<1>4. CASE ReadPrev(w)
  <2> DEFINE to == "readEntry"
  <2>1. Quiet(w, to) /\ {pc[w], to} \cap {"setFirst", "setPrev", "unlink"} = {}
    BY <1>4 DEF Quiet, ReadPrev, Moves, TypeInv, TypeOK
  <2>2. Owns(w)' => Owns(w) /\ elm'[w] = elm[w]
    BY <1>4 DEF Owns, ReadPrev, Moves, TypeInv, TypeOK, Calm, AtRemove
  <2>3. AtRemove(w)'
    BY <1>4, Oldest DEF AtRemove, ReadPrev, Moves, TypeInv, TypeOK, Calm, RemovePCs, Second
  <2> QED
    BY <2>1, <2>2, <2>3, QuietStep
<1>5. CASE ReadEntry(w)
  <2> DEFINE to == "loadSize"
  <2>0. /\ pc[w] = "readEntry" /\ at[w] = Second
        /\ (IF at[w] = HEAD THEN first ELSE next[at[w]]) = fifo[1] /\ fifo[1] # NULL
    BY <1>5, Oldest DEF ReadEntry, Moves, Calm, AtRemove, RemovePCs
  <2>1. Quiet(w, to) /\ {pc[w], to} \cap {"setFirst", "setPrev", "unlink"} = {}
    BY <1>5, <2>0 DEF Quiet, ReadEntry, Moves, TypeInv, TypeOK
  <2>2. Owns(w)' => Owns(w) /\ elm'[w] = elm[w]
    BY <1>5 DEF Owns, ReadEntry, Moves, TypeInv, TypeOK, Calm, AtRemove
  <2>3. AtRemove(w)'
    BY <1>5, <2>0, Oldest DEF AtRemove, ReadEntry, Moves, TypeInv, TypeOK, Calm, RemovePCs, Second
  <2> QED
    BY <2>1, <2>2, <2>3, QuietStep
<1>6. CASE LoadSize(w)
  <2> DEFINE to == "storeSize"
  <2>1. Quiet(w, to) /\ {pc[w], to} \cap {"setFirst", "setPrev", "unlink"} = {}
    BY <1>6 DEF Quiet, LoadSize, Moves, TypeInv, TypeOK
  <2>2. Owns(w)' => Owns(w) /\ elm'[w] = elm[w]
    BY <1>6 DEF Owns, LoadSize, Moves, TypeInv, TypeOK, Calm, AtRemove
  <2>3. AtRemove(w)'
    BY <1>6 DEF AtRemove, LoadSize, Moves, TypeInv, TypeOK, Calm, RemovePCs, Second
  <2> QED
    BY <2>1, <2>2, <2>3, QuietStep
<1>7. CASE StoreLess(w)
  <2> DEFINE to == "readNext"
  <2>1. Quiet(w, to) /\ {pc[w], to} \cap {"setFirst", "setPrev", "unlink"} = {}
    BY <1>7 DEF Quiet, StoreLess, Moves, TypeInv, TypeOK
  <2>2. Owns(w)' => Owns(w) /\ elm'[w] = elm[w]
    BY <1>7 DEF Owns, StoreLess, Moves, TypeInv, TypeOK, Calm, AtRemove
  <2>3. AtRemove(w)'
    BY <1>7 DEF AtRemove, StoreLess, Moves, TypeInv, TypeOK, Calm, RemovePCs, Second
  <2> QED
    BY <2>1, <2>2, <2>3, QuietStep
<1>8. CASE ReadNext(w)
  <2> DEFINE to == "takeLast"
  <2>0. pc[w] = "readNext" /\ elm[w] = fifo[1] /\ next[elm[w]] = NULL
    BY <1>8, Oldest DEF ReadNext, Moves, Calm, AtRemove, RemovePCs
  <2>1. Quiet(w, to) /\ {pc[w], to} \cap {"setFirst", "setPrev", "unlink"} = {}
    BY <1>8, <2>0 DEF Quiet, ReadNext, Moves, TypeInv, TypeOK
  <2>2. Owns(w)' => Owns(w) /\ elm'[w] = elm[w]
    BY <1>8 DEF Owns, ReadNext, Moves, TypeInv, TypeOK, Calm, AtRemove
  <2>3. AtRemove(w)'
    BY <1>8, <2>0, Oldest DEF AtRemove, ReadNext, Moves, TypeInv, TypeOK, Calm, RemovePCs, Second
  <2> QED
    BY <2>1, <2>2, <2>3, QuietStep
<1>9. CASE UnlockRead(w)
  <2> DEFINE to == IF elm[w] = NULL THEN "lock" ELSE "handle"
  <2>1. Quiet(w, to) /\ {pc[w], to} \cap {"setFirst", "setPrev", "unlink"} = {}
    BY <1>9 DEF Quiet, UnlockRead, Moves, TypeInv, TypeOK
  <2>2. Owns(w)' => Owns(w) /\ elm'[w] = elm[w]
    BY <1>9 DEF Owns, UnlockRead, Moves, TypeInv, TypeOK, Calm, AtRemove
  <2>3. AtRemove(w)'
    BY <1>9 DEF AtRemove, UnlockRead, Moves, TypeInv, TypeOK, Calm, RemovePCs, Second
  <2> QED
    BY <2>1, <2>2, <2>3, QuietStep
<1> QED
  BY <1>1, <1>2, <1>3, <1>4, <1>5, <1>6, <1>7, <1>8, <1>9

\* What an insertion finds: its entry is its own, the other connection threads
\* wait, and the newest entry is not the one a removal takes.
LEMMA Newest ==
  ASSUME TypeInv, Calm, NEW p \in Producers, pc[p] \in InsertPCs
  PROVE  /\ elm[p] \in Entries
         /\ pc[p] # "setPrev" => elm[p] \in live /\ \A i \in DOMAIN fifo : fifo[i] # elm[p]
         /\ \A q \in Producers : q # p => pc[q] \in {"idle", "lock"}
         /\ \A w \in Workers : pc[w] \in RemovePCs => Len(fifo) >= 2
         /\ fifo # << >> => Len(fifo) \in DOMAIN fifo /\ first = fifo[Len(fifo)]
<1>1. elm[p] \in Entries
  BY DEF TypeInv, EntriesHold, InsertPCs
<1>2. pc[p] # "setPrev" => elm[p] \in live /\ \A i \in DOMAIN fifo : fifo[i] # elm[p]
  BY ConstantFacts DEF Calm, OwnedApart, Owns, InsertPCs
<1>3. \A q \in Producers : q # p => pc[q] \in {"idle", "lock"}
  BY Alone DEF InsertPCs
<1>4. \A w \in Workers : pc[w] \in RemovePCs => Len(fifo) >= 2
  BY MeetOnTwo DEF Calm
<1>5. fifo # << >> => Len(fifo) \in DOMAIN fifo /\ first = fifo[Len(fifo)]
  BY QueueFacts
<1> QED
  BY <1>1, <1>2, <1>3, <1>4, <1>5

\* A new entry's words are nobody else's.
LEMMA ReceiveCalm ==
  ASSUME TypeInv, Calm, ~Tight', NEW p \in Producers, NEW r \in Requests, NEW e \in Entries,
         Receive(p, r, e)
  PROVE  Calm'
<1> USE ConstantFacts, QueueFacts DEF list, heap, locks, local, others
<1>0. /\ pc[p] = "idle" /\ pc'[p] = "lock" /\ \A s \in Threads : s # p => pc'[s] = pc[s]
      /\ elm'[p] = e /\ \A s \in Threads : s # p => elm'[s] = elm[s]
      /\ e \notin live /\ live' = live \cup {e}
      /\ \A x \in Entries : x # e => next'[x] = next[x] /\ prev'[x] = prev[x]
      /\ UNCHANGED <<first, last, fifo, at, status>>
  BY DEF Receive, Moves, Allocates, TypeInv, TypeOK
<1>1. QueueLive' /\ \A i \in DOMAIN fifo : fifo[i] # e
  BY <1>0 DEF Calm, QueueLive
<1>2. OwnedApart'
  <2>1. \A s \in Threads : s # p /\ Owns(s)' =>
          Owns(s) /\ elm'[s] = elm[s] /\ elm[s] \in live /\ elm[s] # e
    BY <1>0 DEF Calm, OwnedApart, Owns
  <2>2. \A s \in Threads : s # p /\ Owns(s)' => elm'[s] # elm'[p]
    BY <1>0, <2>1
  <2> QED
    BY <1>0, <1>1, <2>1, <2>2 DEF Calm, OwnedApart
<1>3. NextLinks'
  BY <1>0, <1>1 DEF Calm, NextLinks
<1>4. PrevLinks'
  <2>1. \A q \in Producers : pc'[q] \in {"setFirst", "setPrev"} <=> pc[q] \in {"setFirst", "setPrev"}
    BY <1>0
  <2>2. \A i \in DOMAIN fifo : prev'[fifo[i]] = prev[fifo[i]]
    BY <1>0, <1>1
  <2> QED
    BY <1>0, <2>1, <2>2 DEF Calm, PrevLinks
<1>5. Ends'
  BY <1>0 DEF Calm, Ends
<1>6. \A q \in Producers : AtInsert(q)'
  <2> SUFFICES ASSUME NEW q \in Producers, q # p PROVE AtInsert(q)'
    BY <1>0 DEF AtInsert
  <2>1. pc[q] \in {"reload", "relink", "setLast", "setFirst"} => elm[q] \in Entries /\ elm[q] # e
    BY <1>0, Newest DEF InsertPCs
  <2>2. fifo # << >> => first \in Entries /\ first # e
    BY <1>1
  <2> QED
    BY <1>0, <2>1, <2>2 DEF Calm, AtInsert
<1>7. \A w \in Workers : AtRemove(w)'
  BY <1>0 DEF Calm, AtRemove, Second
<1> QED
  BY <1>0, <1>1, <1>2, <1>3, <1>4, <1>5, <1>6, <1>7 DEF Calm

\* A step of an insertion that leaves head, queue and every entry's owner alone.
Writes(p, from, to) ==
  /\ pc[p] = from /\ pc'[p] = to /\ \A s \in Threads : s # p => pc'[s] = pc[s]
  /\ UNCHANGED <<live, fifo, elm, at, status>>

LEMMA WritesKeep ==
  ASSUME TypeInv, Calm, NEW p \in Producers, NEW from \in InsertPCs, NEW to,
         Writes(p, from, to),
         <<from, to>> \in {<<"linkNext", "reload">>, <<"linkNext", "setLast">>,
           <<"relink", "setFirst">>, <<"setLast", "setFirst">>, <<"setPrev", "loadSize">>}
  PROVE  /\ QueueLive' /\ OwnedApart' /\ status' = "ok"
         /\ \A q \in Producers : q # p => pc[q] \in {"idle", "lock"} /\ pc'[q] = pc[q] /\ AtInsert(q)'
         /\ UNCHANGED last => \A w \in Workers : AtRemove(w)'
<1> USE ConstantFacts
<1>1. QueueLive' /\ status' = "ok"
  BY DEF Calm, QueueLive, Writes
<1>2. OwnedApart'
  <2>1. Owns(p)' => Owns(p)
    BY DEF Owns, Writes, InsertPCs
  <2>2. \A s \in Threads : Owns(s)' => Owns(s) /\ elm'[s] = elm[s]
    BY <2>1 DEF Owns, Writes
  <2> QED
    BY <2>2 DEF Calm, OwnedApart, Writes
<1>3. \A q \in Producers : q # p => pc[q] \in {"idle", "lock"} /\ pc'[q] = pc[q]
  BY Newest DEF Writes
<1>4. \A q \in Producers : q # p => AtInsert(q)'
  BY <1>3 DEF AtInsert
<1>5. ASSUME UNCHANGED last PROVE \A w \in Workers : AtRemove(w)'
  BY <1>5 DEF Calm, AtRemove, Second, Writes
<1> QED
  BY <1>1, <1>2, <1>3, <1>4, <1>5

LEMMA LinkNextCalm ==
  ASSUME TypeInv, Calm, ~Tight', NEW p \in Producers, LinkNext(p)
  PROVE  Calm'
<1> USE ConstantFacts
<1> DEFINE to == IF first = NULL THEN "setLast" ELSE "reload"
<1>0. /\ Writes(p, "linkNext", to)
      /\ \A x \in Entries : x # elm[p] => next'[x] = next[x]
      /\ elm[p] \in Entries => next'[elm[p]] = first
      /\ UNCHANGED <<first, last, prev>>
  BY DEF LinkNext, Moves, Writes, TypeInv, TypeOK, list, heap, local, others
<1>1. pc[p] = "linkNext" /\ "linkNext" \in InsertPCs
  BY <1>0 DEF Writes, InsertPCs
<1>2. /\ QueueLive' /\ OwnedApart' /\ status' = "ok"
      /\ \A q \in Producers : q # p => AtInsert(q)' /\ pc'[q] = pc[q]
      /\ \A w \in Workers : AtRemove(w)'
  BY <1>0, <1>1, WritesKeep
<1>3. elm[p] \in Entries /\ \A i \in DOMAIN fifo : fifo[i] # elm[p] /\ fifo[i] \in Entries
  BY <1>1, Newest, QueueFacts
<1>4. NextLinks'
  BY <1>0, <1>3 DEF Calm, NextLinks, Writes
<1>5. PrevLinks' /\ Ends'
  BY <1>0, <1>1, <1>2 DEF Calm, PrevLinks, Ends, Writes
<1>6. AtInsert(p)'
  BY <1>0, <1>3, QueueFacts DEF AtInsert, Writes
<1> QED
  BY <1>2, <1>4, <1>5, <1>6 DEF Calm

LEMMA RelinkCalm ==
  ASSUME TypeInv, Calm, ~Tight', NEW p \in Producers, Relink(p)
  PROVE  Calm'
<1> USE ConstantFacts
<1>0. /\ Writes(p, "relink", "setFirst")
      /\ \A x \in Entries : x # at[p] => prev'[x] = prev[x]
      /\ at[p] \in Entries => prev'[at[p]] = elm[p]
      /\ UNCHANGED <<first, last, next>>
  BY DEF Relink, Moves, Writes, TypeInv, TypeOK, list, heap, local, others
<1>1. pc[p] = "relink" /\ "relink" \in InsertPCs
  BY <1>0 DEF Writes, InsertPCs
<1>2. /\ QueueLive' /\ OwnedApart' /\ status' = "ok"
      /\ \A q \in Producers : q # p => AtInsert(q)' /\ pc'[q] = pc[q]
      /\ \A w \in Workers : AtRemove(w)'
  BY <1>0, <1>1, WritesKeep
<1>3. fifo # << >> /\ at[p] = first /\ next[elm[p]] = first
  BY <1>1 DEF Calm, AtInsert
<1>4. /\ Len(fifo) \in DOMAIN fifo /\ at[p] = fifo[Len(fifo)] /\ at[p] \in Entries
      /\ \A i \in DOMAIN fifo : i < Len(fifo) => fifo[i] # at[p] /\ fifo[i] \in Entries
  BY <1>1, <1>3, Newest, QueueFacts DEF Calm, QueueLive
<1>5. NextLinks' /\ Ends'
  BY <1>0, <1>1, <1>2, <1>3 DEF Calm, NextLinks, Ends, Writes
<1>6. PrevLinks'
  BY <1>0, <1>4 DEF Calm, PrevLinks, Writes
<1>7. AtInsert(p)'
  BY <1>0, <1>3, <1>4 DEF AtInsert, Writes
<1> QED
  BY <1>2, <1>5, <1>6, <1>7 DEF Calm

LEMMA SetLastCalm ==
  ASSUME TypeInv, Calm, ~Tight', NEW p \in Producers, SetLast(p)
  PROVE  Calm'
<1> USE ConstantFacts
<1>0. /\ Writes(p, "setLast", "setFirst")
      /\ last' = elm[p] /\ UNCHANGED <<first, next, prev>>
  BY DEF SetLast, Moves, Writes, TypeInv, TypeOK, list, heap, local, others
<1>1. pc[p] = "setLast" /\ "setLast" \in InsertPCs
  BY <1>0 DEF Writes, InsertPCs
<1>2. /\ QueueLive' /\ OwnedApart' /\ status' = "ok"
      /\ \A q \in Producers : q # p => AtInsert(q)'
  BY <1>0, <1>1, WritesKeep
<1>3. fifo = << >> /\ first = NULL /\ next[elm[p]] = first
  BY <1>1, QueueFacts DEF Calm, AtInsert
<1>4. NextLinks' /\ PrevLinks'
  BY <1>0, <1>3 DEF Calm, NextLinks, PrevLinks, Writes
<1>5. Ends'
  BY <1>0, <1>3 DEF Ends, Writes
<1>6. AtInsert(p)'
  BY <1>0, <1>3 DEF AtInsert, Writes
<1>7. \A w \in Workers : AtRemove(w)'
  BY <1>0, <1>3 DEF Calm, AtRemove, Writes, RemovePCs
<1> QED
  BY <1>2, <1>4, <1>5, <1>6, <1>7 DEF Calm

LEMMA SetPrevCalm ==
  ASSUME TypeInv, Calm, ~Tight', NEW p \in Producers, SetPrev(p)
  PROVE  Calm'
<1> USE ConstantFacts
<1>0. /\ Writes(p, "setPrev", "loadSize")
      /\ \A x \in Entries : x # elm[p] => prev'[x] = prev[x]
      /\ elm[p] \in Entries => prev'[elm[p]] = HEAD
      /\ UNCHANGED <<first, last, next>>
  BY DEF SetPrev, Moves, Writes, TypeInv, TypeOK, list, heap, local, others
<1>1. pc[p] = "setPrev" /\ "setPrev" \in InsertPCs
  BY <1>0 DEF Writes, InsertPCs
<1>2. /\ QueueLive' /\ OwnedApart' /\ status' = "ok"
      /\ \A q \in Producers : q # p => AtInsert(q)' /\ pc[q] \in {"idle", "lock"}
      /\ \A w \in Workers : AtRemove(w)'
  BY <1>0, <1>1, WritesKeep
<1>3. fifo # << >> /\ elm[p] = first
  BY <1>1 DEF Calm, AtInsert
<1>4. /\ Len(fifo) \in DOMAIN fifo /\ elm[p] = fifo[Len(fifo)] /\ elm[p] \in Entries
      /\ \A i \in DOMAIN fifo : i < Len(fifo) => fifo[i] # elm[p] /\ fifo[i] \in Entries
  BY <1>1, <1>3, Newest, QueueFacts DEF Calm, QueueLive
<1>5. NextLinks' /\ Ends'
  BY <1>0, <1>3 DEF Calm, NextLinks, Ends, Writes
<1>6. PrevLinks'
  BY <1>0, <1>4 DEF Calm, PrevLinks, Writes
<1>7. AtInsert(p)'
  BY <1>0 DEF AtInsert, Writes
<1> QED
  BY <1>2, <1>5, <1>6, <1>7 DEF Calm

LEMMA SetFirstCalm ==
  ASSUME TypeInv, Calm, ~Tight', NEW p \in Producers, SetFirst(p)
  PROVE  Calm'
<1> USE ConstantFacts
<1> DEFINE L == Len(fifo)
<1>0. /\ pc[p] = "setFirst" /\ pc'[p] = "setPrev" /\ \A s \in Threads : s # p => pc'[s] = pc[s]
      /\ first' = elm[p] /\ fifo' = Append(fifo, elm[p])
      /\ UNCHANGED <<last, next, prev, live, elm, at, status>>
  BY DEF SetFirst, Moves, TypeInv, TypeOK, list, heap, local, others
<1>1. /\ elm[p] \in Entries /\ elm[p] \in live /\ \A i \in DOMAIN fifo : fifo[i] # elm[p]
      /\ \A q \in Producers : q # p => pc[q] \in {"idle", "lock"}
      /\ \A w \in Workers : pc[w] \in RemovePCs => L >= 2
      /\ fifo # << >> => first = fifo[L]
  BY <1>0, Newest DEF InsertPCs
<1>2. /\ L \in Nat /\ DOMAIN fifo = 1 .. L /\ (fifo # << >> <=> L >= 1)
      /\ first = NULL <=> fifo = << >>
  BY QueueFacts
<1>3. /\ fifo' # << >> /\ Len(fifo)' = L + 1 /\ DOMAIN fifo' = 1 .. L + 1
      /\ \A i \in 1 .. L : fifo'[i] = fifo[i]
      /\ fifo'[L + 1] = elm[p]
  BY <1>0, <1>1, <1>2, AppendFacts DEF TypeInv, TypeOK
<1>4. /\ next[elm[p]] = first
      /\ IF fifo = << >> THEN last = elm[p] ELSE prev[first] = elm[p]
  BY <1>0 DEF Calm, AtInsert
<1> HIDE DEF L
<1>5. QueueLive'
  BY <1>0, <1>1, <1>2, <1>3 DEF Calm, QueueLive
<1>6. OwnedApart'
  <2>1. \A s \in Threads : Owns(s)' => Owns(s) /\ elm'[s] = elm[s] /\ s # p
    BY <1>0 DEF Owns
  <2>2. Owns(p)
    BY <1>0 DEF Owns
  <2>3. \A s \in Threads : Owns(s)' => elm[s] # elm[p]
    BY <2>1, <2>2 DEF Calm, OwnedApart
  <2>4. \A s \in Threads : Owns(s)' => \A i \in DOMAIN fifo' : fifo'[i] # elm'[s]
    BY <1>2, <1>3, <2>1, <2>3 DEF Calm, OwnedApart
  <2> QED
    BY <1>0, <2>1, <2>4 DEF Calm, OwnedApart
<1>7. NextLinks'
  BY <1>0, <1>1, <1>2, <1>3, <1>4 DEF Calm, NextLinks
<1>8. PrevLinks'
  <2>1. ASSUME NEW i \in 1 .. L PROVE prev[fifo[i]] = fifo'[i + 1]
    <3>1. CASE i = L
      BY <1>1, <1>2, <1>3, <1>4, <3>1
    <3>2. CASE i # L
      BY <1>2, <1>3, <3>2 DEF Calm, PrevLinks, L
    <3> QED
      BY <3>1, <3>2
  <2> QED
    BY <1>0, <1>2, <1>3, <2>1 DEF PrevLinks
<1>9. Ends'
  <2>1. (\A w \in Workers : pc'[w] # "unlink") => last = fifo'[1]
    BY <1>0, <1>2, <1>3, <1>4 DEF Calm, Ends
  <2> QED
    BY <1>0, <1>3, <2>1 DEF Ends
<1>10. \A q \in Producers : AtInsert(q)'
  BY <1>0, <1>1, <1>3 DEF AtInsert
<1>11. \A w \in Workers : AtRemove(w)'
  <2> SUFFICES ASSUME NEW w \in Workers PROVE AtRemove(w)'
    OBVIOUS
  <2>1. pc'[w] = pc[w] /\ elm'[w] = elm[w] /\ at'[w] = at[w] /\ AtRemove(w)
    BY <1>0 DEF Calm
  <2>2. CASE pc[w] \in RemovePCs
    <3>1. fifo'[1] = fifo[1] /\ Second' = Second
      BY <1>1, <1>2, <1>3, <2>2 DEF Second, L
    <3> QED
      BY <1>0, <1>3, <2>1, <3>1 DEF AtRemove
  <2>3. CASE pc[w] \notin RemovePCs
    BY <2>1, <2>3 DEF AtRemove, RemovePCs
  <2> QED
    BY <2>2, <2>3
<1> QED
  BY <1>0, <1>5, <1>6, <1>7, <1>8, <1>9, <1>10, <1>11 DEF Calm

LEMMA TakeLastCalm ==
  ASSUME TypeInv, Calm, ~Tight', NEW w \in Workers, TakeLast(w)
  PROVE  Calm'
<1> USE ConstantFacts
<1>0. /\ pc[w] = "takeLast" /\ pc'[w] = "unlink" /\ \A s \in Threads : s # w => pc'[s] = pc[s]
      /\ last' = prev[elm[w]]
      /\ UNCHANGED <<first, next, prev, live, fifo, elm, at, status>>
  BY DEF TakeLast, Moves, TypeInv, TypeOK, list, heap, local, others
<1>1. fifo # << >> /\ elm[w] = fifo[1] /\ prev[fifo[1]] = Second
  BY <1>0, Oldest DEF Calm, AtRemove, RemovePCs
<1>2. status' = "ok" /\ QueueLive' /\ NextLinks' /\ PrevLinks'
  BY <1>0 DEF Calm, QueueLive, NextLinks, PrevLinks
<1>3. OwnedApart'
  <2>1. \A s \in Threads : Owns(s)' => Owns(s)
    BY <1>0 DEF Owns
  <2> QED
    BY <1>0, <2>1 DEF Calm, OwnedApart
<1>4. Ends'
  BY <1>0, <1>1 DEF Calm, Ends
<1>5. \A p \in Producers : AtInsert(p)'
  BY <1>0, <1>1 DEF Calm, AtInsert
<1>6. \A v \in Workers : AtRemove(v)'
  <2>1. \A v \in Workers : v # w => pc[v] \in {"lock", "handle"}
    BY <1>0, Alone
  <2> QED
    BY <1>0, <1>1, <2>1 DEF Calm, AtRemove, Second, RemovePCs
<1> QED
  BY <1>2, <1>3, <1>4, <1>5, <1>6 DEF Calm

LEMMA UnlinkCalm ==
  ASSUME TypeInv, Calm, ~Tight', NEW w \in Workers, Unlink(w)
  PROVE  Calm'
<1> USE ConstantFacts
<1> DEFINE L == Len(fifo)
<1>1. /\ pc[w] = "unlink" /\ pc'[w] = "unlock" /\ \A s \in Threads : s # w => pc'[s] = pc[s]
      /\ UNCHANGED <<last, prev, live, elm, at, status>>
  BY DEF Unlink, Moves, TypeInv, TypeOK, list, heap, local, others
<1>2. /\ elm[w] = fifo[1] /\ last = Second
      /\ fifo # << >> /\ fifo[1] \in live /\ next[fifo[1]] = NULL /\ prev[fifo[1]] = Second
      /\ IF L = 1 THEN Second = HEAD ELSE Second = fifo[2] /\ fifo[2] \in Entries /\ 2 \in DOMAIN fifo
  BY <1>1, Oldest DEF Calm, AtRemove, RemovePCs
<1>3. /\ L \in Nat /\ L >= 1 /\ DOMAIN fifo = 1 .. L
      /\ \A i \in 1 .. L : fifo[i] \in Entries
  BY <1>2, QueueFacts
<1>4. /\ Len(fifo)' = L - 1 /\ DOMAIN fifo' = 1 .. L - 1 /\ fifo' \in Seq(Entries)
      /\ \A i \in 1 .. L - 1 : fifo'[i] = fifo[i + 1]
  BY <1>2, WithoutFacts DEF Unlink, TypeInv, TypeOK, Calm, QueueLive
<1>5. fifo' = << >> <=> L = 1
  BY <1>3, <1>4
<1>6. L = 1 => first' = NULL
  BY <1>2 DEF Unlink
<1>7. L # 1 => /\ first' = first /\ next'[fifo[2]] = NULL
               /\ \A x \in Entries : x # fifo[2] => next'[x] = next[x]
  BY <1>2 DEF Unlink, TypeInv, TypeOK
<1> HIDE DEF L
<1>8. \A i \in DOMAIN fifo' : i \in 1 .. L - 1 /\ i + 1 \in DOMAIN fifo /\ fifo'[i] = fifo[i + 1]
  BY <1>3, <1>4
<1>9. QueueLive'
  <2>1. ASSUME NEW i \in DOMAIN fifo', NEW j \in DOMAIN fifo', fifo'[i] = fifo'[j]
        PROVE  i = j
    <3>1. i + 1 \in DOMAIN fifo /\ j + 1 \in DOMAIN fifo /\ fifo[i + 1] = fifo[j + 1]
      BY <1>8, <2>1
    <3>2. i + 1 = j + 1
      BY <3>1 DEF Calm, QueueLive
    <3> QED
      BY <1>8, <3>2
  <2>2. \A i \in DOMAIN fifo' : fifo'[i] \in live
    BY <1>8 DEF Calm, QueueLive
  <2> QED
    BY <1>1, <2>1, <2>2 DEF QueueLive
<1>10. OwnedApart'
  <2>1. \A s \in Threads : s # w /\ Owns(s)' => Owns(s) /\ elm'[s] = elm[s] /\ elm[s] # elm[w]
    BY <1>1, <1>2, <1>3 DEF Owns, Calm, OwnedApart
  <2>2. \A i \in 1 .. L - 1 : fifo[i + 1] # elm[w]
    BY <1>2, <1>3 DEF Calm, QueueLive
  <2>3. ASSUME NEW s \in Threads, Owns(s)', NEW i \in DOMAIN fifo'
        PROVE  fifo'[i] # elm'[s]
    <3>1. i \in 1 .. L - 1 /\ i + 1 \in DOMAIN fifo /\ fifo'[i] = fifo[i + 1]
      BY <1>8
    <3>2. fifo[i + 1] # elm[s]
      BY <2>1, <2>2, <2>3, <3>1 DEF Calm, OwnedApart
    <3> QED
      BY <1>1, <3>1, <3>2
  <2>4. \A s \in Threads : Owns(s)' => elm'[s] \in live'
    BY <1>1, <1>2, <2>1 DEF Calm, OwnedApart
  <2> QED
    BY <1>1, <2>1, <2>3, <2>4 DEF Calm, OwnedApart
<1>11. NextLinks'
  <2> SUFFICES ASSUME NEW i \in DOMAIN fifo'
               PROVE  next'[fifo'[i]] = IF i = 1 THEN NULL ELSE fifo'[i - 1]
    BY DEF NextLinks
  <2>1. /\ i \in 1 .. L - 1 /\ i + 1 \in 1 .. L /\ fifo'[i] = fifo[i + 1] /\ L # 1
        /\ i # 1 => i - 1 \in 1 .. L - 1 /\ fifo'[i - 1] = fifo[i - 1 + 1] /\ i - 1 + 1 = i
    BY <1>3, <1>4, <1>8
  <2>2. CASE i = 1
    BY <1>7, <2>1, <2>2
  <2>3. CASE i # 1
    <3>1. fifo[i + 1] \in Entries /\ next[fifo[i + 1]] = fifo[i]
      BY <1>3, <2>1, <2>3 DEF Calm, NextLinks
    <3>2. fifo[i + 1] # fifo[2]
      BY <1>2, <1>3, <2>1, <2>3 DEF Calm, QueueLive
    <3> QED
      BY <1>7, <2>1, <2>3, <3>1, <3>2
  <2> QED
    BY <2>2, <2>3
<1>12. PrevLinks'
  <2>1. \A i \in DOMAIN fifo' : i < L - 1 => prev[fifo'[i]] = fifo'[i + 1]
    BY <1>3, <1>4 DEF Calm, PrevLinks, L
  <2>2. fifo' # << >> => fifo'[L - 1] = fifo[L]
    BY <1>3, <1>4, <1>5
  <2> QED
    BY <1>1, <1>2, <1>4, <2>1, <2>2 DEF Calm, PrevLinks, L
<1>13. Ends'
  <2>1. first' = IF fifo' = << >> THEN NULL ELSE fifo'[L - 1]
    BY <1>2, <1>3, <1>4, <1>5, <1>6, <1>7 DEF Calm, Ends, L
  <2>2. last = IF fifo' = << >> THEN HEAD ELSE fifo'[1]
    BY <1>2, <1>3, <1>4, <1>5
  <2> QED
    BY <1>1, <1>4, <2>1, <2>2 DEF Ends
<1>14. \A p \in Producers : AtInsert(p)'
  <2> SUFFICES ASSUME NEW p \in Producers, pc[p] \in InsertPCs PROVE AtInsert(p)'
    BY <1>1 DEF AtInsert, InsertPCs
  <2>1. /\ L >= 2 /\ elm[p] \in Entries
        /\ pc[p] # "setPrev" => elm[p] # fifo[2]
    BY <1>1, <1>2, <1>3, Newest DEF RemovePCs, L
  <2>2. AtInsert(p) /\ fifo' # << >> /\ first' = first
        /\ (pc[p] # "setPrev" => next'[elm[p]] = next[elm[p]])
    BY <1>3, <1>5, <1>7, <2>1 DEF Calm
  <2> QED
    BY <1>1, <1>2, <2>2 DEF AtInsert
<1>15. \A v \in Workers : AtRemove(v)'
  <2>1. \A v \in Workers : v # w => pc[v] \in {"lock", "handle"}
    BY <1>1, Alone
  <2> QED
    BY <1>1, <2>1 DEF Calm, AtRemove, RemovePCs
<1> QED
  BY <1>1, <1>9, <1>10, <1>11, <1>12, <1>13, <1>14, <1>15 DEF Calm

\* A freed entry is in no list and no other thread's hands.
LEMMA HandleCalm ==
  ASSUME TypeInv, Calm, ~Tight', NEW w \in Workers, Handle(w)
  PROVE  Calm'
<1> USE ConstantFacts, QueueFacts
<1> DEFINE e == elm[w]
<1>0. /\ pc[w] = "handle" /\ pc'[w] = "lock" /\ \A s \in Threads : s # w => pc'[s] = pc[s]
      /\ elm'[w] = NULL /\ at'[w] = NULL
      /\ \A s \in Threads : s # w => elm'[s] = elm[s] /\ at'[s] = at[s]
      /\ live' = live \ {e}
      /\ \A x \in Entries : x # e => next'[x] = next[x] /\ prev'[x] = prev[x]
      /\ UNCHANGED <<first, last, fifo, status>>
  BY DEF Handle, Moves, TypeInv, TypeOK
<1>1. /\ Owns(w) /\ \A i \in DOMAIN fifo : fifo[i] # e
      /\ \A s \in Threads : s # w /\ Owns(s) => elm[s] # e
  <2>1. Owns(w)
    BY <1>0 DEF Owns, Calm, AtRemove
  <2> QED
    BY <2>1 DEF Calm, OwnedApart
<1> HIDE DEF e
<1>2. QueueLive' /\ NextLinks'
  BY <1>0, <1>1 DEF Calm, QueueLive, NextLinks
<1>3. OwnedApart'
  <2>1. \A s \in Threads : Owns(s)' => s # w /\ Owns(s) /\ elm'[s] = elm[s] /\ elm[s] # e
    BY <1>0, <1>1 DEF Owns
  <2> QED
    BY <1>0, <2>1 DEF Calm, OwnedApart
<1>4. PrevLinks'
  <2>1. \A p \in Producers : pc'[p] = pc[p]
    BY <1>0
  <2>2. \A i \in DOMAIN fifo : prev'[fifo[i]] = prev[fifo[i]]
    BY <1>0, <1>1
  <2> QED
    BY <1>0, <2>1, <2>2 DEF Calm, PrevLinks
<1>5. Ends'
  BY <1>0 DEF Calm, Ends
<1>6. \A p \in Producers : AtInsert(p)'
  <2> SUFFICES ASSUME NEW p \in Producers PROVE AtInsert(p)'
    OBVIOUS
  <2>1. pc'[p] = pc[p] /\ elm'[p] = elm[p] /\ at'[p] = at[p] /\ AtInsert(p)
    BY <1>0 DEF Calm
  <2>2. pc[p] \in {"reload", "relink", "setLast", "setFirst"} => elm[p] \in Entries /\ elm[p] # e
    BY <1>1, Newest DEF Owns, InsertPCs
  <2>3. fifo # << >> => first \in Entries /\ first # e
    BY <1>1
  <2> QED
    BY <1>0, <2>1, <2>2, <2>3 DEF AtInsert
<1>7. \A v \in Workers : AtRemove(v)'
  BY <1>0 DEF Calm, AtRemove, Second, RemovePCs
<1> QED
  BY <1>0, <1>2, <1>3, <1>4, <1>5, <1>6, <1>7 DEF Calm

\* No thread follows a pointer to no live entry.
LEMMA NeverDangling ==
  ASSUME TypeInv, Calm, NEW t \in Threads
  PROVE  ~Dangling(t)
<1> USE ConstantFacts
<1>1. CASE t \in Producers
  <2>1. pc[t] \in ProducerPCs
    BY <1>1 DEF TypeInv, Exclusive
  <2>2. pc[t] = "relink" => at[t] \in live
    BY <1>1, Newest, QueueFacts DEF Calm, AtInsert, InsertPCs
  <2>3. pc[t] = "setPrev" => elm[t] \in live
    BY <1>1, Newest, QueueFacts DEF Calm, AtInsert, InsertPCs
  <2> QED
    BY <2>1, <2>2, <2>3 DEF Dangling, ProducerPCs, InsertPCs
<1>2. CASE t \in Workers
  <2>1. pc[t] \in WorkerPCs /\ AtRemove(t) /\ pc[t] # "takeNext"
    BY <1>2 DEF TypeInv, Exclusive, Calm, AtRemove
  <2>2. pc[t] = "readPrev" => at[t] \in live
    BY <1>2, <2>1, Oldest DEF AtRemove, RemovePCs
  <2>3. pc[t] = "readEntry" => at[t] \in live \cup {HEAD}
    BY <1>2, <2>1, Oldest DEF AtRemove, RemovePCs
  <2>4. pc[t] \in {"readNext", "takeLast", "unlink"} => elm[t] \in live
    BY <1>2, <2>1, Oldest DEF AtRemove, RemovePCs
  <2>5. pc[t] = "unlink" => prev[elm[t]] \in live \cup {HEAD}
    BY <1>2, <2>1, Oldest DEF AtRemove, RemovePCs
  <2>6. pc[t] = "handle" => elm[t] \in live
    BY <1>2, <2>1 DEF AtRemove, Owns, Calm, OwnedApart
  <2> QED
    BY <2>1, <2>2, <2>3, <2>4, <2>5, <2>6 DEF Dangling, WorkerPCs, RemovePCs
<1> QED
  BY <1>1, <1>2

LEMMA CalmStep ==
  ASSUME TypeInv, ~tight => Calm, [Next]_vars
  PROVE  ~tight' => Calm'
<1> SUFFICES ASSUME ~tight' PROVE Calm'
  OBVIOUS
<1>1. CASE UNCHANGED vars
  BY <1>1 DEF vars, list, heap, locks, local, others, Calm, Tight, Inserting, Removing,
     QueueLive, OwnedApart, Owns, NextLinks, PrevLinks, Ends, AtInsert, AtRemove, Second
<1>2. CASE Next
  <2>1. Calm /\ ~Tight'
    BY <1>2 DEF Next, Observed
  <2>2. \A t \in Threads : ~Fault(t)
    BY <2>1, NeverDangling DEF Fault
  <2>3. \A w \in Workers : ~TakeNext(w)
    BY <2>1 DEF TakeNext, Moves, Calm, AtRemove
  <2>4. CASE \E p \in Producers, r \in Requests, e \in Entries : Receive(p, r, e)
    BY <2>1, <2>4, ReceiveCalm
  <2>5. ASSUME NEW p \in Producers, Producer(p) PROVE Calm'
    BY <2>1, <2>2, <2>5, QuietProducer, LinkNextCalm, RelinkCalm, SetLastCalm, SetFirstCalm,
       SetPrevCalm, ConstantFacts DEF Producer
  <2>6. ASSUME NEW w \in Workers, Worker(w) PROVE Calm'
    BY <2>1, <2>2, <2>3, <2>6, QuietWorker, TakeLastCalm, UnlinkCalm, HandleCalm,
       ConstantFacts DEF Worker
  <2> QED
    BY <1>2, <2>4, <2>5, <2>6 DEF Next
<1> QED
  BY <1>1, <1>2

LEMMA CalmInit == Init => Calm
<1> SUFFICES ASSUME Init PROVE Calm
  OBVIOUS
<1>1. /\ \A p \in Producers : pc[p] = "idle"
      /\ \A w \in Workers : pc[w] = "lock" /\ elm[w] = NULL
  BY ConstantFacts DEF Init
<1>2. fifo = << >> /\ DOMAIN fifo = {} /\ first = NULL /\ last = NULL /\ status = "ok"
  BY DEF Init
<1>3. ~Tight
  BY <1>1 DEF Tight, Inserting
<1>4. QueueLive /\ NextLinks /\ PrevLinks /\ Ends
  BY <1>2 DEF QueueLive, NextLinks, PrevLinks, Ends
<1>5. OwnedApart
  BY <1>1 DEF OwnedApart, Owns
<1>6. (\A p \in Producers : AtInsert(p)) /\ (\A w \in Workers : AtRemove(w))
  BY <1>1 DEF AtInsert, AtRemove, RemovePCs
<1> QED
  BY <1>2, <1>3, <1>4, <1>5, <1>6 DEF Calm

LEMMA QueueInvariant == Spec => []QueueInv
<1>1. Init => QueueInv
  BY TypeInit, CalmInit DEF QueueInv
<1>2. QueueInv /\ [Next]_vars => QueueInv'
  BY TypeStep, CalmStep DEF QueueInv
<1> QED
  BY <1>1, <1>2, PTL DEF Spec

(* When no thread is inside, the links in both directions, the head and    *)
(* the tail spell the queue, oldest entry last, for any number of threads  *)
(* under the two locks, as long as no removal has met an insertion on      *)
(* fewer than two entries.                                                 *)
THEOREM ListCorrect == Spec => []ListIsQueue
<1>1. QueueInv => ListIsQueue
  <2> SUFFICES ASSUME TypeInv, Calm, Settled PROVE ListIsQueue
    BY DEF QueueInv, ListIsQueue
  <2>1. /\ \A p \in Producers : pc[p] \notin {"setFirst", "setPrev"}
        /\ \A w \in Workers : pc[w] # "unlink"
    BY ConstantFacts DEF Settled, Inserting, Removing
  <2>2. \A i \in 1 .. Len(fifo) :
          /\ fifo[i] \in live
          /\ next[fifo[i]] = IF i = 1 THEN NULL ELSE fifo[i - 1]
          /\ prev[fifo[i]] = IF i = Len(fifo) THEN HEAD ELSE fifo[i + 1]
    <3> SUFFICES ASSUME NEW i \in 1 .. Len(fifo)
                 PROVE  /\ fifo[i] \in live
                        /\ next[fifo[i]] = IF i = 1 THEN NULL ELSE fifo[i - 1]
                        /\ prev[fifo[i]] = IF i = Len(fifo) THEN HEAD ELSE fifo[i + 1]
      OBVIOUS
    <3>1. Len(fifo) \in Int
      BY QueueFacts
    <3>2. i # Len(fifo) => i < Len(fifo)
      BY <3>1
    <3>3. i \in DOMAIN fifo /\ fifo # << >>
      BY QueueFacts
    <3> QED
      BY <2>1, <3>2, <3>3 DEF Calm, QueueLive, NextLinks, PrevLinks
  <2>3. /\ first = IF Len(fifo) = 0 THEN NULL ELSE fifo[Len(fifo)]
        /\ last \in IF Len(fifo) = 0 THEN {NULL, HEAD} ELSE {fifo[1]}
    BY <2>1, QueueFacts DEF Calm, Ends
  <2> QED
    BY <2>2, <2>3 DEF ListIsQueue
<1> QED
  BY <1>1, QueueInvariant, PTL

(* No thread follows a pointer to a freed entry, or one nobody wrote,      *)
(* unless a removal met an insertion on fewer than two entries.            *)
THEOREM FaultsCorrect == Spec => []FaultsOnlyWhenTight
<1>1. QueueInv => FaultsOnlyWhenTight
  BY DEF QueueInv, Calm, FaultsOnlyWhenTight
<1> QED
  BY <1>1, QueueInvariant, PTL

(* A worker takes the request that has been queued longest.                *)
THEOREM OrderCorrect == Spec => OldestFirst
<1>1. QueueInv /\ [Next]_vars => [TakesOldest]_vars
  <2> SUFFICES ASSUME TypeInv, Calm, NEW w \in Workers, Unlink(w)
               PROVE  fifo # << >> /\ elm[w] = fifo[1]
    BY DEF QueueInv, TakesOldest
  <2>1. pc[w] = "unlink"
    BY DEF Unlink, Moves
  <2> QED
    BY <2>1 DEF Calm, AtRemove, RemovePCs
<1> QED
  BY <1>1, QueueInvariant, PTL DEF Spec, OldestFirst

-----------------------------------------------------------------------------
(* The counter.                                                            *)

(* Sets of natural numbers have a least element.                           *)
LEMMA LeastExists ==
  ASSUME NEW set \in SUBSET Nat, set # {}
  PROVE  \E least \in set : \A x \in set : least <= x
<1>1. PICK least \in set : \A x \in set :
                              ~(<<x, least>> \in {pair \in Nat \X Nat : pair[1] < pair[2]})
  BY NatLessThanWellFounded, WFMin, Zenon DEF OpToRel
<1>2. \A x \in set : ~(x < least)
  BY <1>1
<1> QED
  BY <1>2

LEMMA Divides ==
  ASSUME NEW M \in Nat \ {0}, NEW x \in Int
  PROVE  \E q \in Int, r \in 0 .. M - 1 : x = q * M + r
<1> DEFINE S == {r \in Nat : \E q \in Int : x = q * M + r}
<1>1. S # {}
  <2>1. CASE x >= 0
    <3>1. x = 0 * M + x /\ x \in Nat /\ 0 \in Int
      BY <2>1
    <3>2. \E q \in Int : x = q * M + x
      BY <3>1, Zenon
    <3> QED
      BY <3>1, <3>2
  <2>2. CASE x < 0
    <3> DEFINE r == (-x) * (M - 1)
    <3>1. r \in Nat
      BY <2>2
    <3>2. x = x * M + r
      OBVIOUS
    <3> HIDE DEF r
    <3> QED
      BY <3>1, <3>2
  <2> HIDE DEF S
  <2> QED
    BY <2>1, <2>2
<1>2. S \in SUBSET Nat
  OBVIOUS
<1>3. PICK m \in S : \A r \in S : m <= r
  <2> HIDE DEF S
  <2> QED
    BY <1>1, <1>2, LeastExists
<1>4. PICK q \in Int : x = q * M + m
  OBVIOUS
<1>5. m < M
  <2> SUFFICES ASSUME m >= M PROVE FALSE
    BY <1>2
  <2>1. m - M \in Nat /\ x = (q + 1) * M + (m - M) /\ q + 1 \in Int
    BY <1>2, <1>4
  <2>2. m - M \in S
    BY <2>1
  <2>3. m <= m - M
    <3> HIDE DEF S
    <3> QED
      BY <1>3, <2>2
  <2>4. m \in Nat
    BY <1>2
  <2> HIDE DEF S
  <2> QED
    BY <2>3, <2>4
<1> QED
  BY <1>2, <1>4, <1>5

LEMMA Remains ==
  ASSUME NEW M \in Nat \ {0}, NEW q \in Int, NEW r \in 0 .. M - 1
  PROVE  (q * M + r) % M = r
BY SMT

LEMMA ModNext ==
  ASSUME NEW M \in Nat \ {0}, NEW x \in Int
  PROVE  /\ ((x % M) + 1) % M = (x + 1) % M
         /\ ((x % M) - 1) % M = (x - 1) % M
<1>1. PICK q \in Int, r \in 0 .. M - 1 : x = q * M + r
  BY Divides
<1>2. x % M = r
  BY <1>1, Remains
<1>3. (r + 1) % M = (x + 1) % M
  <2>1. CASE r + 1 < M
    <3>1. x + 1 = q * M + (r + 1) /\ r + 1 = 0 * M + (r + 1) /\ r + 1 \in 0 .. M - 1
      BY <1>1, <2>1
    <3>2. (q * M + (r + 1)) % M = r + 1 /\ (0 * M + (r + 1)) % M = r + 1
      BY <3>1, Remains
    <3> QED
      BY <3>1, <3>2, Zenon
  <2>2. CASE r + 1 = M
    <3>1. x + 1 = (q + 1) * M + 0 /\ r + 1 = 1 * M + 0 /\ 0 \in 0 .. M - 1 /\ q + 1 \in Int
      BY <1>1, <2>2
    <3>2. ((q + 1) * M + 0) % M = 0 /\ (1 * M + 0) % M = 0
      BY <3>1, Remains
    <3> QED
      BY <3>1, <3>2, Zenon
  <2> QED
    BY <2>1, <2>2
<1>4. (r - 1) % M = (x - 1) % M
  <2>1. CASE r >= 1
    <3>1. x - 1 = q * M + (r - 1) /\ r - 1 = 0 * M + (r - 1) /\ r - 1 \in 0 .. M - 1
      BY <1>1, <2>1
    <3>2. (q * M + (r - 1)) % M = r - 1 /\ (0 * M + (r - 1)) % M = r - 1
      BY <3>1, Remains
    <3> QED
      BY <3>1, <3>2, Zenon
  <2>2. CASE r = 0
    <3>1. x - 1 = (q - 1) * M + (M - 1) /\ r - 1 = (-1) * M + (M - 1)
          /\ M - 1 \in 0 .. M - 1 /\ q - 1 \in Int /\ -1 \in Int
      BY <1>1, <2>2
    <3>2. ((q - 1) * M + (M - 1)) % M = M - 1 /\ ((-1) * M + (M - 1)) % M = M - 1
      BY <3>1, Remains
    <3> QED
      BY <3>1, <3>2, Zenon
  <2> QED
    BY <2>1, <2>2
<1> QED
  BY <1>2, <1>3, <1>4

LEMMA BalanceFacts ==
  ASSUME TypeInv
  PROVE  Len(fifo) \in Nat /\ Uncounted \in {0, 1} /\ Discounted \in {0, 1}
         /\ Len(fifo) - Uncounted - Discounted \in Int
BY DEF TypeInv, TypeOK, Uncounted, Discounted

\* A step of thread t changes nobody else's counter and place.
Steps(t) ==
  \A s \in Threads : s # t => pc'[s] = pc[s] /\ n'[s] = n[s]

\* Steps that change neither queue nor size, nor whether size is due.
LEMMA BalanceKept ==
  ASSUME Counts, NEW t \in Threads, Steps(t), UNCHANGED <<fifo, size>>,
         t \in Producers => (pc[t] \in Unsized <=> pc'[t] \in Unsized),
         t \in Workers => (pc[t] \in Presized <=> pc'[t] \in Presized),
         pc'[t] = "storeSize" => n'[t] = size
  PROVE  Counts'
<1>1. Uncounted' = Uncounted /\ Discounted' = Discounted
  BY ConstantFacts DEF Uncounted, Discounted, Steps
<1>2. \A s \in Threads : pc'[s] = "storeSize" => n'[s] = size
  BY DEF Counts, Steps
<1> QED
  BY <1>1, <1>2 DEF Counts

LEMMA ProducerKeeps ==
  ASSUME TypeInv, Counts, NEW p \in Producers,
         \/ \E r \in Requests, e \in Entries : Receive(p, r, e)
         \/ LockWrite(p) \/ LinkNext(p) \/ Reload(p) \/ Relink(p) \/ SetLast(p)
         \/ SetPrev(p) \/ LoadSize(p) \/ UnlockWrite(p)
  PROVE  Counts'
<1> USE ConstantFacts DEF list, heap, locks, local, others
<1>1. Steps(p) /\ UNCHANGED <<fifo, size>> /\ (pc'[p] = "storeSize" => n'[p] = size)
  BY DEF Steps, Receive, LockWrite, LinkNext, Reload, Relink, SetLast, SetPrev, LoadSize,
     UnlockWrite, Moves, TypeInv, TypeOK
<1>2. pc[p] \in Unsized <=> pc'[p] \in Unsized
  BY DEF Receive, LockWrite, LinkNext, Reload, Relink, SetLast, SetPrev, LoadSize,
     UnlockWrite, Moves, TypeInv, TypeOK, Unsized
<1> QED
  BY <1>1, <1>2, BalanceKept

LEMMA WorkerKeeps ==
  ASSUME TypeInv, Calm, Counts, NEW w \in Workers,
         \/ LockRead(w) \/ CheckEmpty(w) \/ ReadLast(w) \/ ReadPrev(w) \/ ReadEntry(w)
         \/ LoadSize(w) \/ ReadNext(w) \/ TakeLast(w) \/ UnlockRead(w) \/ Handle(w)
  PROVE  Counts'
<1> USE ConstantFacts DEF list, heap, locks, local, others
<1>1. Steps(w) /\ UNCHANGED <<fifo, size>> /\ (pc'[w] = "storeSize" => n'[w] = size)
  BY DEF Steps, LockRead, CheckEmpty, ReadLast, ReadPrev, ReadEntry, LoadSize, ReadNext,
     TakeLast, UnlockRead, Handle, Moves, TypeInv, TypeOK
<1>2. ReadNext(w) => next[elm[w]] = NULL
  BY Oldest DEF ReadNext, Moves, Calm, AtRemove, RemovePCs
<1>3. pc[w] \in Presized <=> pc'[w] \in Presized
  BY <1>2 DEF LockRead, CheckEmpty, ReadLast, ReadPrev, ReadEntry, LoadSize, ReadNext,
     TakeLast, UnlockRead, Handle, Moves, TypeInv, TypeOK, Presized
<1> QED
  BY <1>1, <1>3, BalanceKept

LEMMA SetFirstCounts ==
  ASSUME TypeInv, Counts, NEW p \in Producers, SetFirst(p)
  PROVE  Counts'
<1> USE ConstantFacts
<1>1. /\ pc[p] = "setFirst" /\ pc'[p] = "setPrev" /\ Steps(p)
      /\ fifo' = Append(fifo, elm[p]) /\ size' = size
  BY DEF SetFirst, Moves, Steps, TypeInv, TypeOK, locks, local, others
<1>2. Len(fifo)' = Len(fifo) + 1
  BY <1>1, AppendFacts DEF TypeInv, TypeOK, EntriesHold
<1>3. Uncounted = 0 /\ Uncounted' = 1
  BY <1>1, Alone DEF Uncounted, Unsized
<1>4. Discounted' = Discounted
  BY <1>1 DEF Discounted, Steps
<1>5. \A s \in Threads : pc'[s] = "storeSize" => n'[s] = size'
  BY <1>1 DEF Counts, Steps
<1>6. Len(fifo)' - Uncounted' - Discounted' = Len(fifo) - Uncounted - Discounted
  BY <1>2, <1>3, <1>4, BalanceFacts
<1> QED
  BY <1>1, <1>5, <1>6 DEF Counts

LEMMA UnlinkCounts ==
  ASSUME TypeInv, Calm, Counts, NEW w \in Workers, Unlink(w)
  PROVE  Counts'
<1> USE ConstantFacts
<1>1. pc[w] = "unlink" /\ pc'[w] = "unlock" /\ Steps(w) /\ size' = size
  BY DEF Unlink, Moves, Steps, TypeInv, TypeOK, locks, local, others
<1>2. fifo # << >> /\ elm[w] = fifo[1]
  BY <1>1 DEF Calm, AtRemove, RemovePCs
<1>3. Len(fifo)' = Len(fifo) - 1
  BY <1>2, WithoutFacts DEF Unlink, TypeInv, TypeOK, Calm, QueueLive
<1>4. Discounted = 1 /\ Discounted' = 0
  BY <1>1, Alone DEF Discounted, Presized, Steps
<1>5. Uncounted' = Uncounted
  BY <1>1 DEF Uncounted, Steps
<1>6. \A s \in Threads : pc'[s] = "storeSize" => n'[s] = size'
  BY <1>1 DEF Counts, Steps
<1>7. Len(fifo)' - Uncounted' - Discounted' = Len(fifo) - Uncounted - Discounted
  BY <1>3, <1>4, <1>5, BalanceFacts
<1> QED
  BY <1>1, <1>6, <1>7 DEF Counts

LEMMA StoreMoreCounts ==
  ASSUME TypeInv, Counts, ~Racing, NEW p \in Producers, StoreMore(p)
  PROVE  Counts'
<1> USE ConstantFacts
<1> DEFINE due == Len(fifo) - Uncounted - Discounted
<1>1. /\ pc[p] = "storeSize" /\ pc'[p] = "unlock" /\ Steps(p) /\ fifo' = fifo
      /\ size' = (n[p] + 1) % Modulus
  BY DEF StoreMore, Moves, Steps, TypeInv, TypeOK, locks, local, others
<1>2. size' = (due + 1) % Modulus
  BY <1>1, BalanceFacts, ModNext DEF Counts
<1>3. Uncounted = 1 /\ Uncounted' = 0
  BY <1>1, Alone DEF Uncounted, Unsized, Steps
<1>4. Discounted' = Discounted
  BY <1>1 DEF Discounted, Steps
<1>5. due' = due + 1
  BY <1>1, <1>3, <1>4, BalanceFacts
<1>6. \A s \in Threads : pc'[s] # "storeSize"
  BY <1>1 DEF Racing, Steps
<1> QED
  BY <1>2, <1>5, <1>6 DEF Counts

LEMMA StoreLessCounts ==
  ASSUME TypeInv, Counts, ~Racing, NEW w \in Workers, StoreLess(w)
  PROVE  Counts'
<1> USE ConstantFacts
<1> DEFINE due == Len(fifo) - Uncounted - Discounted
<1>1. /\ pc[w] = "storeSize" /\ pc'[w] = "readNext" /\ Steps(w) /\ fifo' = fifo
      /\ size' = (n[w] - 1) % Modulus
  BY DEF StoreLess, Moves, Steps, TypeInv, TypeOK, locks, local, others
<1>2. size' = (due - 1) % Modulus
  BY <1>1, BalanceFacts, ModNext DEF Counts
<1>3. Discounted = 0 /\ Discounted' = 1
  BY <1>1, Alone DEF Discounted, Presized
<1>4. Uncounted' = Uncounted
  BY <1>1 DEF Uncounted, Steps
<1>5. due' = due - 1
  BY <1>1, <1>3, <1>4, BalanceFacts
<1>6. \A s \in Threads : pc'[s] # "storeSize"
  BY <1>1 DEF Racing, Steps
<1> QED
  BY <1>2, <1>5, <1>6 DEF Counts

LEMMA CountsStep ==
  ASSUME QueueInv, SizeCounts, [Next]_vars
  PROVE  SizeCounts'
<1> SUFFICES ASSUME ~tight', ~raced' PROVE ~Racing' /\ Counts'
  BY DEF SizeCounts
<1>1. CASE UNCHANGED vars
  BY <1>1 DEF vars, list, heap, locks, local, others, SizeCounts, Racing, Counts, Uncounted, Discounted
<1>2. CASE Next
  <2>1. TypeInv /\ Calm /\ Counts /\ ~Racing /\ ~Racing'
    BY <1>2 DEF Next, Observed, QueueInv, SizeCounts
  <2>2. \A t \in Threads : ~Fault(t)
    BY <2>1, NeverDangling DEF Fault
  <2>3. \A w \in Workers : ~TakeNext(w)
    BY <2>1 DEF TakeNext, Moves, Calm, AtRemove
  <2>4. CASE \E p \in Producers, r \in Requests, e \in Entries : Receive(p, r, e)
    BY <2>1, <2>4, ProducerKeeps
  <2>5. ASSUME NEW p \in Producers, Producer(p) PROVE Counts'
    BY <2>1, <2>2, <2>5, ProducerKeeps, SetFirstCounts, StoreMoreCounts, ConstantFacts DEF Producer
  <2>6. ASSUME NEW w \in Workers, Worker(w) PROVE Counts'
    BY <2>1, <2>2, <2>3, <2>6, WorkerKeeps, UnlinkCounts, StoreLessCounts, ConstantFacts DEF Worker
  <2> QED
    BY <1>2, <2>1, <2>4, <2>5, <2>6 DEF Next
<1> QED
  BY <1>1, <1>2

(* size is the number of entries queued when no thread is inside, as long  *)
(* as no size++ overlapped with a size-- and no removal met an insertion   *)
(* on fewer than two entries.                                              *)
THEOREM SizeCorrect == Spec => []SizeIsLength
<1>1. Init => SizeCounts
  <2> SUFFICES ASSUME Init PROVE ~Racing /\ Counts
    BY DEF SizeCounts
  <2>1. \A t \in Threads : pc[t] \in {"idle", "lock"}
    BY DEF Init
  <2>2. Uncounted = 0 /\ Discounted = 0 /\ ~Racing
    BY <2>1, ConstantFacts DEF Uncounted, Discounted, Racing, Unsized, Presized
  <2>3. size = 0 /\ Len(fifo) = 0
    BY DEF Init
  <2>4. (0 * Modulus + 0) % Modulus = 0
    BY ConstantFacts, Remains
  <2>5. (Len(fifo) - Uncounted - Discounted) % Modulus = 0
    BY <2>2, <2>3, <2>4, ConstantFacts
  <2> QED
    BY <2>1, <2>2, <2>3, <2>5 DEF Counts
<1>2. IInv /\ [Next]_vars => IInv'
  BY TypeStep, CalmStep, CountsStep DEF IInv, QueueInv
<1>3. Init => IInv
  BY <1>1, TypeInit, CalmInit DEF IInv, QueueInv
<1>4. IInv => SizeIsLength
  <2> SUFFICES ASSUME TypeInv, Counts, Settled,
                      \A t \in Threads : pc[t] \notin {"loadSize", "storeSize"}
               PROVE  size = Len(fifo) % Modulus
    BY DEF IInv, QueueInv, SizeCounts, SizeIsLength
  <2>1. Uncounted = 0 /\ Discounted = 0
    BY ConstantFacts DEF Settled, Inserting, Removing, Uncounted, Discounted, Unsized, Presized
  <2>2. Len(fifo) - Uncounted - Discounted = Len(fifo)
    BY <2>1, BalanceFacts
  <2> QED
    BY <2>2 DEF Counts
<1> QED
  BY <1>2, <1>3, <1>4, PTL DEF Spec
=============================================================================
