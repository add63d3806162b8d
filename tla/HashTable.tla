----------------------------- MODULE HashTable -----------------------------
(***************************************************************************)
(* A store: the hash table of hashtable.h and the requests requestHandle   *)
(* (dkvstore.c) answers from it.  One worker handles one request at a      *)
(* time, so a request is one step.  A bucket is its linked list, first     *)
(* item first; walks along it stop at the first item with the key.         *)
(***************************************************************************)
EXTENDS Naturals, Sequences, FiniteSets

CONSTANTS
  Keys, Values, NULL,
  Size,     \* table->size
  Hash      \* table->hashmethod

ASSUME TableAssumption ==
  /\ Size \in Nat \ {0}
  /\ Hash \in [Keys -> Nat]
  /\ NULL \notin Values

VARIABLES
  buckets,  \* table->buckets
  count,    \* table->count
  reply     \* the last request and its reply

vars == <<buckets, count, reply>>

Indexes == 0 .. Size - 1
Items   == [key : Keys, value : Values]

Index(k)  == Hash[k] % Size
Bucket(k) == buckets[Index(k)]

Matches(b, k) == {i \in DOMAIN b : b[i].key = k}

\* hashtable_lookup: where it stops in the bucket.
FirstMatch(b, k) == CHOOSE i \in Matches(b, k) : \A j \in Matches(b, k) : i <= j

\* The value it finds.
Lookup(b, k) == IF Matches(b, k) = {} THEN NULL ELSE b[FirstMatch(b, k)].value

Exists(k) == Matches(Bucket(k), k) # {}

\* v is the value set or found.
Reply(op, k, code, v) == [op |-> op, key |-> k, code |-> code, value |-> v]

Without(b, i) ==
  [j \in 1 .. Len(b) - 1 |-> IF j < i THEN b[j] ELSE b[j + 1]]

\* Faulty variant: the item goes to the bucket after its own.
InsertedElsewhere(k, v) ==
  [buckets EXCEPT ![(Hash[k] + 1) % Size] = <<[key |-> k, value |-> v]>> \o @]

\* LIST_INSERT_HEAD.
InsertedItem(k, v) ==
  [buckets EXCEPT ![Index(k)] = <<[key |-> k, value |-> v]>> \o @]

\* Faulty variant: the first item of the bucket is removed.
RemovedFirst(k) == [buckets EXCEPT ![Index(k)] = Tail(@)]

\* LIST_REMOVE of the item found.
RemovedItem(k) == [buckets EXCEPT ![Index(k)] = Without(@, FirstMatch(@, k))]

-----------------------------------------------------------------------------
\* GET.
Get(k) ==
  /\ reply' = Reply("GET", k, IF Exists(k) THEN 200 ELSE 404, Lookup(Bucket(k), k))
  /\ UNCHANGED <<buckets, count>>

\* Faulty variant: the lookup before the insertion is left out.
SetUnchecked(k, v) ==
  /\ buckets' = InsertedItem(k, v)
  /\ count' = count + 1
  /\ reply' = Reply("SET", k, 200, v)

\* SET: hashtable_insert.
Set(k, v) ==
  /\ ~Exists(k)
  /\ buckets' = InsertedItem(k, v)
  /\ count' = count + 1
  /\ reply' = Reply("SET", k, 200, v)

\* SET when the key exists or malloc returns NULL; without memory any SET may
\* be refused.
Refuse(k, v) ==
  /\ reply' = Reply("SET", k, 400, v)
  /\ UNCHANGED <<buckets, count>>

\* Faulty variant: the count goes down before the lookup.
RemoveMissingCounted(k) ==
  /\ ~Exists(k)
  /\ count' = count - 1
  /\ reply' = Reply("REM", k, 404, NULL)
  /\ UNCHANGED buckets

\* REM of a key the table does not hold.
RemoveMissing(k) ==
  /\ ~Exists(k)
  /\ reply' = Reply("REM", k, 404, NULL)
  /\ UNCHANGED <<buckets, count>>

\* Faulty variant: the count stays.
RemoveUncounted(k) ==
  /\ Exists(k)
  /\ buckets' = RemovedItem(k)
  /\ reply' = Reply("REM", k, 200, NULL)
  /\ UNCHANGED count

\* REM: hashtable_remove.
Remove(k) ==
  /\ Exists(k)
  /\ buckets' = RemovedItem(k)
  /\ count' = count - 1
  /\ reply' = Reply("REM", k, 200, NULL)

\* Commands that are not the store's get 400, HTTP GET 200.  A method that is
\* neither POST nor GET gets no reply: requestParse compares h->type with
\* HTTP_UNKNOWN, it does not assign it.
Other ==
  /\ reply' \in {Reply("other", NULL, code, NULL) : code \in {200, 400}} \cup {NULL}
  /\ UNCHANGED <<buckets, count>>

\* serverBecomeStore: the table is created anew, nothing was saved.
Restart ==
  /\ buckets' = [i \in Indexes |-> << >>]
  /\ count' = 0
  /\ reply' = NULL

Init ==
  /\ buckets = [i \in Indexes |-> << >>]
  /\ count = 0
  /\ reply = NULL

Next ==
  \/ \E k \in Keys : Get(k) \/ RemoveMissing(k) \/ Remove(k)
  \/ \E k \in Keys, v \in Values : Set(k, v) \/ Refuse(k, v)
  \/ Other
  \/ Restart

Spec == Init /\ [][Next]_vars

-----------------------------------------------------------------------------
(* Properties.                                                             *)

Replies == [op : {"GET", "SET", "REM", "other"}, key : Keys \cup {NULL},
            code : {200, 400, 404}, value : Values \cup {NULL}]

(* Buckets hold lists of items, the count is natural, a reply is one the   *)
(* protocol has.                                                           *)
TypeOK ==
  /\ buckets \in [Indexes -> Seq(Items)]
  /\ count \in Nat
  /\ reply \in {NULL} \cup Replies

Unique(b) == \A i, j \in DOMAIN b : b[i].key = b[j].key => i = j

(* Every item lies in its key's bucket and no key has two, so the item     *)
(* hashtable_remove frees was the only one hashtable_lookup could find.    *)
BucketsSound ==
  \A n \in Indexes :
    /\ \A i \in DOMAIN buckets[n] : Index(buckets[n][i].key) = n
    /\ Unique(buckets[n])

Stored == {k \in Keys : Exists(k)}

(* The count is the number of keys the table holds.                        *)
CountsStored == count = Cardinality(Stored)

\* The map the buckets stand for.
dict == [k \in Keys |-> Lookup(Bucket(k), k)]

KV == INSTANCE KVMap

(* The table answers every request as a map from keys to values would,     *)
(* however keys collide and in whatever order items come and go.           *)
ImplementsMap == KV!Spec
=============================================================================
