-------------------------- MODULE HashTableProofs --------------------------
(***************************************************************************)
(* Proofs about HashTable for every set of keys and values, number of      *)
(* buckets and hash function: each bucket behaves as a small map, so the   *)
(* table behaves as one map (KVMap), and the count is the map's size.      *)
(***************************************************************************)
EXTENDS HashTable, TLAPS, FiniteSetTheorems

-----------------------------------------------------------------------------
(* One bucket.                                                             *)

LEMMA FirstMatchUnique ==
  ASSUME NEW b \in Seq(Items), Unique(b), NEW i \in DOMAIN b
  PROVE  FirstMatch(b, b[i].key) = i
<1>1. Matches(b, b[i].key) = {i}
  BY DEF Matches, Unique
<1>2. i \in Nat
  OBVIOUS
<1> QED
  BY <1>1, <1>2 DEF FirstMatch

LEMMA LookupFinds ==
  ASSUME NEW b \in Seq(Items), Unique(b), NEW i \in DOMAIN b
  PROVE  Lookup(b, b[i].key) = b[i].value
BY FirstMatchUnique DEF Lookup, Matches

LEMMA LookupMisses ==
  ASSUME NEW b, NEW k, \A i \in DOMAIN b : b[i].key # k
  PROVE  Lookup(b, k) = NULL
BY DEF Lookup, Matches

LEMMA LookupType ==
  ASSUME NEW b \in Seq(Items), Unique(b), NEW k \in Keys
  PROVE  /\ Lookup(b, k) \in Values \cup {NULL}
         /\ Lookup(b, k) = NULL <=> Matches(b, k) = {}
<1>1. CASE Matches(b, k) = {}
  BY <1>1 DEF Lookup
<1>2. CASE Matches(b, k) # {}
  <2>1. PICK i \in DOMAIN b : b[i].key = k
    BY <1>2 DEF Matches
  <2>2. Lookup(b, k) = b[i].value
    BY <2>1, LookupFinds
  <2>3. b[i] \in Items
    OBVIOUS
  <2> QED
    BY <1>2, <2>2, <2>3, TableAssumption DEF Items
<1> QED
  BY <1>1, <1>2

(* A new item in front of the list is found, and hides no other.           *)
LEMMA InsertedInFront ==
  ASSUME NEW b \in Seq(Items), Unique(b), NEW it \in Items,
         Matches(b, it.key) = {}
  PROVE  LET c == <<it>> \o b
         IN  /\ c \in Seq(Items) /\ Unique(c)
             /\ \A i \in DOMAIN c : c[i] = it \/ \E j \in DOMAIN b : c[i] = b[j]
             /\ \A k \in Keys :
                  Lookup(c, k) = IF k = it.key THEN it.value ELSE Lookup(b, k)
<1> DEFINE c == <<it>> \o b
<1>1. c \in Seq(Items) /\ Len(c) = Len(b) + 1
  OBVIOUS
<1>2. c[1] = it /\ \A i \in DOMAIN b : i + 1 \in DOMAIN c /\ c[i + 1] = b[i]
  OBVIOUS
<1>3. \A i \in DOMAIN c : i = 1 \/ (i - 1 \in DOMAIN b /\ c[i] = b[i - 1])
  OBVIOUS
<1>4. \A j \in DOMAIN b : b[j].key # it.key
  BY DEF Matches
<1> HIDE DEF c
<1>5. 1 \in DOMAIN c
  BY <1>1
<1>6. Unique(c)
  <2> SUFFICES ASSUME NEW i \in DOMAIN c, NEW j \in DOMAIN c, c[i].key = c[j].key
               PROVE  i = j
    BY DEF Unique
  <2>1. i \in Nat /\ j \in Nat
    BY <1>1
  <2>2. CASE i = 1 \/ j = 1
    BY <1>2, <1>3, <1>4, <2>2
  <2>3. CASE i # 1 /\ j # 1
    <3>1. i - 1 = j - 1
      BY <1>3, <2>3 DEF Unique
    <3> QED
      BY <2>1, <3>1
  <2> QED
    BY <2>2, <2>3
<1>7. ASSUME NEW k \in Keys
      PROVE  Lookup(c, k) = IF k = it.key THEN it.value ELSE Lookup(b, k)
  <2>1. CASE k = it.key
    BY <1>1, <1>2, <1>5, <1>6, <2>1, LookupFinds
  <2>2. CASE k # it.key /\ \E j \in DOMAIN b : b[j].key = k
    <3>1. PICK j \in DOMAIN b : b[j].key = k
      BY <2>2
    <3>2. Lookup(b, k) = b[j].value
      BY <3>1, LookupFinds
    <3>3. Lookup(c, k) = c[j + 1].value
      BY <1>1, <1>2, <1>6, <3>1, LookupFinds
    <3> QED
      BY <1>2, <2>2, <3>2, <3>3
  <2>3. CASE k # it.key /\ \A j \in DOMAIN b : b[j].key # k
    <3>1. \A i \in DOMAIN c : c[i].key # k
      BY <1>2, <1>3, <2>3
    <3> QED
      BY <2>3, <3>1, LookupMisses
  <2> QED
    BY <2>1, <2>2, <2>3
<1> QED
  BY <1>1, <1>2, <1>3, <1>6, <1>7 DEF c

(* The item taken out is no longer found, the others still are.            *)
LEMMA TakenOut ==
  ASSUME NEW b \in Seq(Items), Unique(b), NEW n \in DOMAIN b
  PROVE  LET c == Without(b, n)
         IN  /\ c \in Seq(Items) /\ Unique(c)
             /\ \A i \in DOMAIN c : \E j \in DOMAIN b : c[i] = b[j]
             /\ \A k \in Keys :
                  Lookup(c, k) = IF k = b[n].key THEN NULL ELSE Lookup(b, k)
<1> DEFINE c == Without(b, n)
           at(i) == IF i < n THEN i ELSE i + 1
<1>1. DOMAIN b = 1 .. Len(b) /\ Len(b) \in Nat /\ n \in 1 .. Len(b)
  OBVIOUS
<1>2. c \in Seq(Items) /\ DOMAIN c = 1 .. Len(b) - 1
  <2>1. c = [j \in 1 .. Len(b) - 1 |-> IF j < n THEN b[j] ELSE b[j + 1]]
    BY DEF Without
  <2>2. \A j \in 1 .. Len(b) - 1 : (IF j < n THEN b[j] ELSE b[j + 1]) \in Items
    BY <1>1
  <2>3. c \in [1 .. Len(b) - 1 -> Items]
    BY <2>1, <2>2
  <2>4. Len(b) - 1 \in Nat
    BY <1>1
  <2> QED
    BY <2>3, <2>4
<1>3. \A i \in DOMAIN c : at(i) \in DOMAIN b /\ at(i) # n /\ c[i] = b[at(i)]
  BY <1>1, <1>2 DEF Without
<1>4. \A j \in DOMAIN b \ {n} : \E i \in DOMAIN c : at(i) = j
  <2> TAKE j \in DOMAIN b \ {n}
  <2>1. CASE j < n
    BY <1>1, <1>2, <2>1
  <2>2. CASE j > n
    <3>1. j - 1 \in DOMAIN c /\ at(j - 1) = j
      BY <1>1, <1>2, <2>2
    <3> QED
      BY <3>1
  <2> QED
    BY <1>1, <2>1, <2>2
<1>5. \A i, j \in DOMAIN c : at(i) = at(j) => i = j
  BY <1>1, <1>2
<1> HIDE DEF c, at
<1>6. Unique(c)
  BY <1>3, <1>5 DEF Unique
<1>7. ASSUME NEW k \in Keys
      PROVE  Lookup(c, k) = IF k = b[n].key THEN NULL ELSE Lookup(b, k)
  <2>1. CASE k = b[n].key
    <3>1. \A i \in DOMAIN c : c[i].key # k
      BY <1>3, <2>1 DEF Unique
    <3> QED
      BY <2>1, <3>1, LookupMisses
  <2>2. CASE k # b[n].key /\ \E j \in DOMAIN b : b[j].key = k
    <3>1. PICK j \in DOMAIN b : b[j].key = k
      BY <2>2
    <3>2. PICK i \in DOMAIN c : at(i) = j
      BY <1>4, <2>2, <3>1
    <3>3. c[i] = b[j]
      BY <1>3, <3>2
    <3>4. Lookup(b, k) = b[j].value
      BY <3>1, LookupFinds
    <3>5. Lookup(c, k) = c[i].value
      BY <1>2, <1>6, <3>1, <3>3, LookupFinds
    <3> QED
      BY <2>2, <3>3, <3>4, <3>5
  <2>3. CASE k # b[n].key /\ \A j \in DOMAIN b : b[j].key # k
    <3>1. \A i \in DOMAIN c : c[i].key # k
      BY <1>3, <2>3
    <3> QED
      BY <2>3, <3>1, LookupMisses
  <2> QED
    BY <2>1, <2>2, <2>3
<1> QED
  BY <1>2, <1>3, <1>6, <1>7 DEF c

-----------------------------------------------------------------------------
(* The table.                                                              *)

IInv ==
  /\ TypeOK
  /\ BucketsSound
  /\ IsFiniteSet(Stored) /\ CountsStored

LEMMA IndexType ==
  ASSUME NEW k \in Keys
  PROVE  Index(k) \in Indexes
BY TableAssumption DEF Index, Indexes

LEMMA DictType ==
  ASSUME TypeOK, BucketsSound
  PROVE  /\ dict \in [Keys -> Values \cup {NULL}]
         /\ Stored = {k \in Keys : dict[k] # NULL}
<1>1. \A k \in Keys : Bucket(k) \in Seq(Items) /\ Unique(Bucket(k))
  BY IndexType DEF TypeOK, BucketsSound, Bucket
<1>2. \A k \in Keys : /\ dict[k] = Lookup(Bucket(k), k)
                      /\ dict[k] \in Values \cup {NULL}
                      /\ Exists(k) <=> dict[k] # NULL
  BY <1>1, LookupType DEF dict, Exists
<1> QED
  BY <1>2 DEF dict, Stored

LEMMA StoredIn ==
  ASSUME NEW B \in [Indexes -> Seq(Items)], \A n \in Indexes : Unique(B[n])
  PROVE  {k \in Keys : Matches(B[Index(k)], k) # {}}
           = {k \in Keys : Lookup(B[Index(k)], k) # NULL}
<1>1. \A k \in Keys : B[Index(k)] \in Seq(Items) /\ Unique(B[Index(k)])
  BY IndexType
<1> QED
  BY <1>1, LookupType

LEMMA StoredThen ==
  ASSUME buckets' \in [Indexes -> Seq(Items)], BucketsSound'
  PROVE  Stored' = {k \in Keys : dict'[k] # NULL}
<1>1. \A n \in Indexes : Unique(buckets'[n])
  BY DEF BucketsSound, Unique
<1>2. {k \in Keys : Matches(buckets'[Index(k)], k) # {}}
        = {k \in Keys : Lookup(buckets'[Index(k)], k) # NULL}
  BY <1>1, StoredIn
<1>3. \A k \in Keys : dict'[k] = Lookup(buckets'[Index(k)], k)
  BY DEF dict, Bucket, Index, Lookup, Matches, FirstMatch
<1>4. Stored' = {k \in Keys : Matches(buckets'[Index(k)], k) # {}}
  BY DEF Stored, Exists, Bucket, Index, Matches
<1> QED
  BY <1>2, <1>3, <1>4

(* Replacing one bucket by another that differs in the lookup of one key   *)
(* changes the map at that key.                                            *)
LEMMA BucketReplaced ==
  ASSUME TypeOK, BucketsSound, NEW k \in Keys, NEW c \in Seq(Items), NEW x,
         Unique(c), \A i \in DOMAIN c : Index(c[i].key) = Index(k),
         \A m \in Keys : Lookup(c, m) = IF m = k THEN x ELSE Lookup(Bucket(k), m),
         buckets' = [buckets EXCEPT ![Index(k)] = c]
  PROVE  /\ buckets' \in [Indexes -> Seq(Items)]
         /\ BucketsSound'
         /\ dict' = [dict EXCEPT ![k] = x]
<1>1. buckets' \in [Indexes -> Seq(Items)]
  BY DEF TypeOK
<1>2. \A n \in Indexes : buckets'[n] = IF n = Index(k) THEN c ELSE buckets[n]
  BY DEF TypeOK
<1>3. BucketsSound'
  BY <1>2 DEF BucketsSound, Index, Unique
<1>4. \A m \in Keys : Lookup(Bucket(m)', m) = IF m = k THEN x ELSE Lookup(Bucket(m), m)
  <2> TAKE m \in Keys
  <2>1. Bucket(m)' = IF Index(m) = Index(k) THEN c ELSE Bucket(m)
    BY <1>2, IndexType DEF Bucket, Index
  <2>2. CASE Index(m) = Index(k)
    <3>1. Bucket(m) = Bucket(k)
      BY <2>2 DEF Bucket
    <3> QED
      BY <2>1, <2>2, <3>1
  <2>3. CASE Index(m) # Index(k)
    BY <2>1, <2>3
  <2> QED
    BY <2>2, <2>3
<1>5. dict' = [m \in Keys |-> Lookup(Bucket(m)', m)]
  BY DEF dict, Lookup, Matches, FirstMatch
<1> QED
  BY <1>1, <1>3, <1>4, <1>5 DEF dict

LEMMA ReplyType ==
  ASSUME NEW op \in {"GET", "SET", "REM", "other"}, NEW k \in Keys \cup {NULL},
         NEW code \in {200, 400, 404}, NEW v \in Values \cup {NULL}
  PROVE  Reply(op, k, code, v) \in Replies
BY DEF Reply, Replies

LEMMA SetStep ==
  ASSUME IInv, NEW k \in Keys, NEW v \in Values, Set(k, v)
  PROVE  IInv' /\ dict[k] = NULL /\ dict' = [dict EXCEPT ![k] = v]
<1> DEFINE it == [key |-> k, value |-> v]
           c  == <<it>> \o Bucket(k)
<1>1. Bucket(k) \in Seq(Items) /\ Unique(Bucket(k)) /\ it \in Items
  <2>1. it \in Items
    BY DEF Items
  <2>2. Bucket(k) \in Seq(Items) /\ Unique(Bucket(k))
    BY IndexType DEF IInv, TypeOK, BucketsSound, Bucket
  <2> QED
    BY <2>1, <2>2
<1>2. Matches(Bucket(k), it.key) = {}
  BY DEF Set, Exists
<1>3. /\ c \in Seq(Items) /\ Unique(c)
      /\ \A i \in DOMAIN c : c[i] = it \/ \E j \in DOMAIN Bucket(k) : c[i] = Bucket(k)[j]
      /\ \A m \in Keys : Lookup(c, m) = IF m = k THEN v ELSE Lookup(Bucket(k), m)
  BY <1>1, <1>2, InsertedInFront
<1>4. buckets' = [buckets EXCEPT ![Index(k)] = c]
  BY DEF Set, InsertedItem, Bucket
<1>5. \A j \in DOMAIN Bucket(k) : Index(Bucket(k)[j].key) = Index(k)
  BY IndexType DEF IInv, BucketsSound, Bucket
<1> HIDE DEF c
<1>6. \A i \in DOMAIN c : Index(c[i].key) = Index(k)
  BY <1>3, <1>5
<1>7. /\ buckets' \in [Indexes -> Seq(Items)] /\ BucketsSound'
      /\ dict' = [dict EXCEPT ![k] = v]
  BY <1>3, <1>4, <1>6, BucketReplaced DEF IInv
<1>8. dict[k] = NULL
  BY <1>2 DEF dict, Lookup
<1>9. TypeOK'
  BY <1>7, ReplyType DEF IInv, TypeOK, Set
<1>10. Stored' = Stored \cup {k} /\ k \notin Stored
  <2>1. Stored = {m \in Keys : dict[m] # NULL} /\ dict \in [Keys -> Values \cup {NULL}]
    BY DictType DEF IInv
  <2>2. Stored' = {m \in Keys : dict'[m] # NULL}
    BY <1>7, StoredThen
  <2> HIDE DEF dict, Stored
  <2>3. \A m \in Keys : dict'[m] = IF m = k THEN v ELSE dict[m]
    BY <1>7, <2>1
  <2> QED
    BY <1>8, <2>1, <2>2, <2>3, TableAssumption
<1>11. IsFiniteSet(Stored)' /\ CountsStored'
  BY <1>10, FS_AddElement DEF IInv, CountsStored, Set
<1> QED
  BY <1>7, <1>8, <1>9, <1>11 DEF IInv

LEMMA RemoveStep ==
  ASSUME IInv, NEW k \in Keys, Remove(k)
  PROVE  IInv' /\ dict[k] # NULL /\ dict' = [dict EXCEPT ![k] = NULL]
<1> DEFINE n == FirstMatch(Bucket(k), k)
           c == Without(Bucket(k), n)
<1>1. Bucket(k) \in Seq(Items) /\ Unique(Bucket(k))
  BY IndexType DEF IInv, TypeOK, BucketsSound, Bucket
<1>2. n \in DOMAIN Bucket(k) /\ Bucket(k)[n].key = k
  <2>1. PICK i \in DOMAIN Bucket(k) : Bucket(k)[i].key = k
    BY DEF Remove, Exists, Matches
  <2> QED
    BY <1>1, <2>1, FirstMatchUnique
<1>3. /\ c \in Seq(Items) /\ Unique(c)
      /\ \A i \in DOMAIN c : \E j \in DOMAIN Bucket(k) : c[i] = Bucket(k)[j]
      /\ \A m \in Keys : Lookup(c, m) = IF m = k THEN NULL ELSE Lookup(Bucket(k), m)
  BY <1>1, <1>2, TakenOut
<1>4. buckets' = [buckets EXCEPT ![Index(k)] = c]
  BY DEF Remove, RemovedItem, Bucket
<1>5. \A j \in DOMAIN Bucket(k) : Index(Bucket(k)[j].key) = Index(k)
  BY IndexType DEF IInv, BucketsSound, Bucket
<1> HIDE DEF c
<1>6. \A i \in DOMAIN c : Index(c[i].key) = Index(k)
  BY <1>3, <1>5
<1>7. /\ buckets' \in [Indexes -> Seq(Items)] /\ BucketsSound'
      /\ dict' = [dict EXCEPT ![k] = NULL]
  BY <1>3, <1>4, <1>6, BucketReplaced DEF IInv
<1>8. Stored = {m \in Keys : dict[m] # NULL} /\ dict \in [Keys -> Values \cup {NULL}]
  BY DictType DEF IInv
<1>9. k \in Stored /\ dict[k] # NULL
  BY <1>8 DEF Remove, Stored
<1>10. Stored' = Stored \ {k}
  <2>1. Stored' = {m \in Keys : dict'[m] # NULL}
    BY <1>7, StoredThen
  <2> HIDE DEF dict, Stored
  <2>2. \A m \in Keys : dict'[m] = IF m = k THEN NULL ELSE dict[m]
    BY <1>7, <1>8
  <2> QED
    BY <1>8, <2>1, <2>2
<1>11. IsFiniteSet(Stored)' /\ CountsStored'
  BY <1>9, <1>10, FS_RemoveElement DEF IInv, CountsStored, Remove
<1>12. count' \in Nat
  BY <1>11, FS_CardinalityType DEF CountsStored
<1>13. TypeOK'
  BY <1>7, <1>12, ReplyType DEF TypeOK, Remove
<1> QED
  BY <1>7, <1>9, <1>11, <1>13 DEF IInv

LEMMA InitStep ==
  ASSUME buckets = [i \in Indexes |-> << >>], count = 0, reply = NULL
  PROVE  IInv /\ dict = [k \in Keys |-> NULL]
<1>1. \A k \in Keys : Matches(Bucket(k), k) = {} /\ Lookup(Bucket(k), k) = NULL
  BY IndexType DEF Bucket, Matches, Lookup
<1>2. Stored = {}
  BY <1>1 DEF Stored, Exists
<1>3. TypeOK /\ BucketsSound
  BY DEF TypeOK, BucketsSound, Unique
<1> QED
  BY <1>1, <1>2, <1>3, FS_EmptySet DEF IInv, CountsStored, dict

LEMMA RestartStep ==
  ASSUME Restart
  PROVE  IInv' /\ dict' = [k \in Keys |-> NULL]
<1>1. \A k \in Keys : buckets'[Index(k)] = << >>
  BY IndexType DEF Restart
<1>2. TypeOK' /\ BucketsSound'
  BY DEF Restart, TypeOK, BucketsSound, Unique
<1>3. \A k \in Keys : Matches(Bucket(k), k)' = {} /\ Lookup(Bucket(k), k)' = NULL
  BY <1>1 DEF Bucket, Index, Matches, Lookup
<1>4. Stored' = {} /\ dict' = [k \in Keys |-> NULL]
  BY <1>3 DEF Stored, Exists, dict
<1> QED
  BY <1>2, <1>4, FS_EmptySet DEF IInv, CountsStored, Restart

LEMMA QuietStep ==
  ASSUME IInv, UNCHANGED <<buckets, count>>,
         reply' \in {NULL} \cup Replies
  PROVE  IInv' /\ dict' = dict
<1>1. \A k \in Keys : Bucket(k)' = Bucket(k)
  BY DEF Bucket, Index
<1>2. Stored' = Stored
  BY <1>1 DEF Stored, Exists, Matches
<1>3. dict' = dict
  BY <1>1 DEF dict
<1>4. TypeOK' /\ BucketsSound'
  BY DEF IInv, TypeOK, BucketsSound, Unique, Index
<1> QED
  BY <1>2, <1>3, <1>4 DEF IInv, CountsStored

(* Every step keeps the invariant and is a step of the map.                *)
LEMMA NextStep ==
  ASSUME IInv, [Next]_vars
  PROVE  IInv' /\ [KV!Next]_(KV!vars)
<1> USE DEF KV!Next, KV!vars, KV!Reply, Reply
<1>1. ASSUME NEW k \in Keys, Get(k) PROVE IInv' /\ KV!Get(k)
  <2>1. Bucket(k) \in Seq(Items) /\ Unique(Bucket(k))
    BY IndexType DEF IInv, TypeOK, BucketsSound, Bucket
  <2>2. dict[k] = Lookup(Bucket(k), k) /\ (Exists(k) <=> dict[k] # NULL)
    BY <2>1, LookupType DEF dict, Exists
  <2>3. reply' = Reply("GET", k, IF dict[k] = NULL THEN 404 ELSE 200, dict[k])
    BY <1>1, <2>2 DEF Get
  <2>4. dict[k] \in Values \cup {NULL}
    BY <2>1, <2>2, LookupType
  <2>5. IInv' /\ dict' = dict
    BY <1>1, <2>3, <2>4, QuietStep, ReplyType DEF Get
  <2> QED
    BY <2>3, <2>5 DEF KV!Get
<1>2. ASSUME NEW k \in Keys, RemoveMissing(k) PROVE IInv' /\ KV!Remove(k)
  <2>1. dict[k] = NULL
    BY <1>2 DEF RemoveMissing, Exists, dict, Lookup
  <2>2. IInv' /\ dict' = dict
    BY <1>2, QuietStep, ReplyType DEF RemoveMissing
  <2>3. dict \in [Keys -> Values \cup {NULL}]
    BY DictType DEF IInv
  <2> HIDE DEF dict
  <2>4. dict = [dict EXCEPT ![k] = NULL]
    BY <2>1, <2>3
  <2> QED
    BY <1>2, <2>1, <2>2, <2>4 DEF RemoveMissing, KV!Remove
<1>3. ASSUME NEW k \in Keys, Remove(k) PROVE IInv' /\ KV!Remove(k)
  BY <1>3, RemoveStep DEF Remove, KV!Remove
<1>4. ASSUME NEW k \in Keys, NEW v \in Values, Set(k, v) PROVE IInv' /\ KV!Set(k, v)
  BY <1>4, SetStep DEF Set, KV!Set
<1>5. ASSUME NEW k \in Keys, NEW v \in Values, Refuse(k, v)
      PROVE  IInv' /\ KV!Refuse(k, v)
  BY <1>5, QuietStep, ReplyType DEF Refuse, KV!Refuse
<1>6. CASE Other
  BY <1>6, QuietStep, ReplyType DEF Other, KV!Other
<1>7. CASE Restart
  BY <1>7, RestartStep DEF Restart, KV!Restart
<1>8. CASE UNCHANGED vars
  BY <1>8, QuietStep DEF vars, IInv, TypeOK
<1> QED
  BY <1>1, <1>2, <1>3, <1>4, <1>5, <1>6, <1>7, <1>8 DEF Next

LEMMA Invariant == Spec => []IInv
<1>1. Init => IInv
  BY InitStep DEF Init
<1>2. IInv /\ [Next]_vars => IInv'
  BY NextStep
<1> QED
  BY <1>1, <1>2, PTL DEF Spec

(* The table's lists, count and replies keep their types.                  *)
THEOREM TypeCorrect == Spec => []TypeOK
<1>1. IInv => TypeOK
  BY DEF IInv
<1> QED
  BY <1>1, Invariant, PTL

(* No key is ever twice in the table or in another key's bucket.           *)
THEOREM BucketsCorrect == Spec => []BucketsSound
<1>1. IInv => BucketsSound
  BY DEF IInv
<1> QED
  BY <1>1, Invariant, PTL

(* The count is the number of keys held, through collisions and removals.  *)
THEOREM CountCorrect == Spec => []CountsStored
<1>1. IInv => CountsStored
  BY DEF IInv
<1> QED
  BY <1>1, Invariant, PTL

(* The hash table implements the map of KVMap: every reply is the one the  *)
(* map gives, for every table size and hash function.                      *)
THEOREM TableImplementsMap == Spec => ImplementsMap
<1>1. Init => KV!Init
  BY InitStep DEF Init, KV!Init
<1>2. IInv /\ [Next]_vars => [KV!Next]_(KV!vars)
  BY NextStep
<1> QED
  BY <1>1, <1>2, Invariant, PTL DEF Spec, ImplementsMap, KV!Spec
=============================================================================
