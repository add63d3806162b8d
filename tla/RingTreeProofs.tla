--------------------------- MODULE RingTreeProofs ---------------------------
(***************************************************************************)
(* Proofs about the tree of HashRing's ring and the calls that change it:  *)
(* it is a search tree of exactly the servers, the worker meets undefined  *)
(* behaviour only after the ring has gone wrong in a known way, a key's    *)
(* name leads to the server that owns it, and a request moves only the     *)
(* keys it must.                                                           *)
(***************************************************************************)
EXTENDS HashRingProofs

-----------------------------------------------------------------------------
(* The tree's shape.  D[n] is the set of nodes that hang at n.             *)

(* What hangs on the left of n is what hangs at n and is less.             *)
HangsLeft(t, N, D, n) ==
  IF t.left[n] = Null THEN \A m \in D[n] : n <= m
  ELSE /\ t.left[n] \in N /\ t.parent[t.left[n]] = n
       /\ \A m \in N : m \in D[t.left[n]] <=> m \in D[n] /\ m < n

(* What hangs on the right of n is what hangs at n and is greater.         *)
HangsRight(t, N, D, n) ==
  IF t.right[n] = Null THEN \A m \in D[n] : m <= n
  ELSE /\ t.right[n] \in N /\ t.parent[t.right[n]] = n
       /\ \A m \in N : m \in D[t.right[n]] <=> m \in D[n] /\ n < m

(* A node hanging at n, other than n, is a child of a node hanging at n.   *)
LinkedUp(t, D, n) ==
  \A m \in D[n] :
    /\ D[m] \subseteq D[n]
    /\ m # n => /\ t.parent[m] \in D[n]
                /\ m \in {t.left[t.parent[m]], t.right[t.parent[m]]}

HangsAt(t, N, D, n) ==
  n \in D[n] /\ HangsLeft(t, N, D, n) /\ HangsRight(t, N, D, n) /\ LinkedUp(t, D, n)

(* Every node hangs at the root, which has no parent.                      *)
Rooted(t, N, D) ==
  IF N = {} THEN t.root = Null
  ELSE t.root \in N /\ D[t.root] = N /\ t.parent[t.root] = Null

(* The tree holds exactly N, and D says what hangs where.                  *)
Hangs(t, N, D) ==
  /\ N \subseteq Places /\ D \in [N -> SUBSET N]
  /\ Rooted(t, N, D)
  /\ \A n \in N : HangsAt(t, N, D, n)

\* The walk of the insertion of h is where h belongs.
Fits(D, cur, h) ==
  \A n \in DOMAIN D : cur \in D[n] /\ n # cur => (h < n <=> cur < n)

LEMMA PlacesAreNumbers ==
  /\ \A p \in Places : p \in Nat /\ p # Null /\ p # Wild
  /\ Null \in Nat /\ Wild \in Nat /\ Null # Wild
BY SizeAssumption DEF Places, Null, Wild

LEMMA HangsFacts ==
  ASSUME NEW t, NEW N, NEW D, Hangs(t, N, D)
  PROVE  /\ N \subseteq Places
         /\ \A n \in N : /\ D[n] \subseteq N /\ n \in D[n]
                         /\ t.left[n] = Null \/ t.left[n] \in N
                         /\ t.right[n] = Null \/ t.right[n] \in N
                         /\ t.parent[n] = Null <=> n = t.root
                         /\ t.parent[n] # Null => t.parent[n] \in N
         /\ N # {} => t.root \in N /\ D[t.root] = N /\ t.parent[t.root] = Null
<1>1. N \subseteq Places /\ \A n \in N : D[n] \subseteq N /\ n \in D[n]
  BY DEF Hangs, HangsAt
<1>2. \A n \in N : /\ t.left[n] = Null \/ t.left[n] \in N
                   /\ t.right[n] = Null \/ t.right[n] \in N
  BY DEF Hangs, HangsAt, HangsLeft, HangsRight
<1>3. N # {} => t.root \in N /\ D[t.root] = N /\ t.parent[t.root] = Null
  BY DEF Hangs, Rooted
<1>4. \A n \in N : n # t.root => t.parent[n] \in N
  BY <1>3 DEF Hangs, HangsAt, LinkedUp
<1> QED
  BY <1>1, <1>2, <1>3, <1>4, PlacesAreNumbers

(* A node is the left or the right child of its parent, and only one.      *)
LEMMA ParentFacts ==
  ASSUME NEW t, NEW N, NEW D, Hangs(t, N, D), NEW n \in N
  PROVE  /\ n # t.root => /\ t.parent[n] \in N
                          /\ \/ t.left[t.parent[n]] = n /\ n < t.parent[n]
                                /\ t.right[t.parent[n]] # n
                             \/ t.right[t.parent[n]] = n /\ t.parent[n] < n
                                /\ t.left[t.parent[n]] # n
         /\ t.left[n] # Null => t.parent[t.left[n]] = n /\ t.left[n] < n
         /\ t.right[n] # Null => t.parent[t.right[n]] = n /\ n < t.right[n]
<1>1. ASSUME NEW p \in N
      PROVE  /\ t.left[p] # Null => t.parent[t.left[p]] = p /\ t.left[p] < p
             /\ t.right[p] # Null => t.parent[t.right[p]] = p /\ p < t.right[p]
  BY HangsFacts DEF Hangs, HangsAt, HangsLeft, HangsRight
<1>2. ASSUME n # t.root
      PROVE  /\ t.parent[n] \in N
             /\ n \in {t.left[t.parent[n]], t.right[t.parent[n]]}
  BY <1>2, HangsFacts DEF Hangs, HangsAt, LinkedUp
<1> QED
  BY <1>1, <1>2, HangsFacts, PlacesAreNumbers

(* Only the pointers of the nodes matter.                                  *)
LEMMA HangsElsewhere ==
  ASSUME NEW t, NEW u, NEW N, NEW D, Hangs(t, N, D), u.root = t.root,
         \A n \in N : /\ u.left[n] = t.left[n] /\ u.right[n] = t.right[n]
                      /\ u.parent[n] = t.parent[n]
  PROVE  Hangs(u, N, D)
<1>1. N \subseteq Places /\ D \in [N -> SUBSET N] /\ Rooted(u, N, D)
  BY DEF Hangs, Rooted
<1>2. ASSUME NEW n \in N
      PROVE  HangsAt(u, N, D, n)
  <2>1. HangsAt(t, N, D, n) /\ D[n] \subseteq N
    BY HangsFacts DEF Hangs
  <2>2. HangsLeft(u, N, D, n) /\ HangsRight(u, N, D, n)
    BY <2>1 DEF HangsAt, HangsLeft, HangsRight
  <2>3. LinkedUp(u, D, n)
    BY <2>1 DEF HangsAt, LinkedUp
  <2> QED
    BY <2>1, <2>2, <2>3 DEF HangsAt
<1> QED
  BY <1>1, <1>2 DEF Hangs

(* A block that is not of the tree can be allocated and freed.             *)
LEMMA AllocatedHangs ==
  ASSUME NEW t \in Trees, NEW N, NEW D, Hangs(t, N, D), NEW h \in Places, h \notin N
  PROVE  Hangs(Allocated(t, h), N, D)
<1>1. \A n \in N : n \in Places /\ n # h
  BY HangsFacts
<1> QED
  BY <1>1, HangsElsewhere DEF Allocated, Trees

LEMMA FreedHangs ==
  ASSUME NEW t \in Trees, NEW N, NEW D, Hangs(t, N, D), NEW h \in Places, h \notin N
  PROVE  Hangs(Freed(t, h), N, D)
<1>1. \A n \in N : n \in Places /\ n # h
  BY HangsFacts
<1>2. t.root # h
  <2>1. t.root = Null \/ t.root \in N
    BY DEF Hangs, Rooted
  <2> QED
    BY <2>1, PlacesAreNumbers
<1>3. \A n \in N : t.left[n] # h /\ t.right[n] # h /\ t.parent[n] # h
  BY HangsFacts, PlacesAreNumbers
<1>4. /\ Freed(t, h).root = t.root
      /\ \A n \in N : /\ Freed(t, h).left[n] = t.left[n]
                      /\ Freed(t, h).right[n] = t.right[n]
                      /\ Freed(t, h).parent[n] = t.parent[n]
  BY <1>1, <1>2, <1>3 DEF Freed
<1> QED
  BY <1>4, HangsElsewhere

-----------------------------------------------------------------------------
(* bst_insert.                                                             *)

(* The walk to where h belongs starts at the root and goes down a child.   *)
LEMMA FitsAtRoot ==
  ASSUME NEW t, NEW N, NEW D, Hangs(t, N, D), N # {}, NEW h
  PROVE  Fits(D, t.root, h)
<1> SUFFICES ASSUME NEW n \in N, t.root \in D[n], n # t.root
             PROVE  FALSE
  BY DEF Fits, Hangs
<1>1. t.parent[t.root] \in D[n]
  BY DEF Hangs, HangsAt, LinkedUp
<1> QED
  BY <1>1, HangsFacts, PlacesAreNumbers

LEMMA FitsBelow ==
  ASSUME NEW t, NEW N, NEW D, Hangs(t, N, D), NEW h \in Places, NEW cur \in N, cur # h,
         Fits(D, cur, h), Child(t, cur, h) # Null
  PROVE  Child(t, cur, h) \in N /\ Fits(D, Child(t, cur, h), h)
<1> DEFINE c == Child(t, cur, h)
<1>1. c \in N /\ t.parent[c] = cur
  BY HangsFacts, ParentFacts DEF Child
<1>2. IF h > cur THEN c > cur ELSE c < cur
  BY ParentFacts DEF Child
<1>3. c \in D[cur]
  BY <1>1, HangsFacts DEF Child, Hangs, HangsAt, HangsLeft, HangsRight
<1>4. ASSUME NEW n \in N, c \in D[n], n # c
      PROVE  h < n <=> c < n
  <2>1. cur \in D[n]
    BY <1>1, <1>4 DEF Hangs, HangsAt, LinkedUp
  <2>2. CASE n = cur
    BY <2>2, <1>1, <1>2, HangsFacts, PlacesAreNumbers
  <2>3. CASE n # cur
    <3>1. h < n <=> cur < n
      BY <2>1, <2>3 DEF Fits, Hangs
    <3>2. cur \in Nat /\ n \in Nat /\ c \in Nat
      BY <1>1, HangsFacts, PlacesAreNumbers
    <3>3. CASE cur < n
      <4>1. t.left[n] \in N /\ cur \in D[t.left[n]]
        BY <2>1, <3>2, <3>3 DEF Hangs, HangsAt, HangsLeft
      <4>2. c \in D[t.left[n]]
        BY <1>3, <4>1 DEF Hangs, HangsAt, LinkedUp
      <4>3. c < n
        BY <1>1, <4>1, <4>2, PlacesAreNumbers, HangsFacts DEF Hangs, HangsAt, HangsLeft
      <4> QED
        BY <3>1, <3>3, <4>3
    <3>4. CASE n < cur
      <4>1. t.right[n] \in N /\ cur \in D[t.right[n]]
        BY <2>1, <3>2, <3>4 DEF Hangs, HangsAt, HangsRight
      <4>2. c \in D[t.right[n]]
        BY <1>3, <4>1 DEF Hangs, HangsAt, LinkedUp
      <4>3. n < c
        BY <1>1, <4>1, <4>2, PlacesAreNumbers, HangsFacts DEF Hangs, HangsAt, HangsRight
      <4> QED
        BY <3>1, <3>2, <3>4, <4>3
    <3> QED
      BY <2>3, <3>2, <3>3, <3>4
  <2> QED
    BY <2>2, <2>3
<1> QED
  BY <1>1, <1>4 DEF Fits, Hangs

(* What hangs on either side of a node, said of the node.                  *)
LEMMA SideFacts ==
  ASSUME NEW t, NEW N, NEW D, Hangs(t, N, D), NEW n \in N
  PROVE  /\ t.left[n] = Null => \A m \in D[n] : n <= m
         /\ t.left[n] # Null => \A m \in N : m \in D[t.left[n]] <=> m \in D[n] /\ m < n
         /\ t.right[n] = Null => \A m \in D[n] : m <= n
         /\ t.right[n] # Null => \A m \in N : m \in D[t.right[n]] <=> m \in D[n] /\ n < m
BY DEF Hangs, HangsAt, HangsLeft, HangsRight

(* Following parent pointers from below n one stays below n.               *)
LEMMA UpFacts ==
  ASSUME NEW t, NEW N, NEW D, Hangs(t, N, D), NEW n \in N, NEW m \in D[n]
  PROVE  /\ m \in N /\ D[m] \subseteq D[n]
         /\ m # n => /\ t.parent[m] \in D[n] /\ t.parent[m] \in N
                     /\ m \in {t.left[t.parent[m]], t.right[t.parent[m]]}
<1>1. D[n] \subseteq N
  BY HangsFacts
<1>2. LinkedUp(t, D, n)
  BY DEF Hangs, HangsAt
<1> QED
  BY <1>1, <1>2 DEF LinkedUp

(* bst_insert: the first node, and a leaf below the end of the walk.       *)
LEMMA InsertedFirst ==
  ASSUME NEW t \in Trees, NEW D, Hangs(t, {}, D), NEW h \in Places, IsLeaf(t, h)
  PROVE  \E E : Hangs(Inserted(t, h, Null), {h}, E)
<1> DEFINE u == Inserted(t, h, Null)
           M == {h}
           E == [n \in M |-> M]
<1>1. u.root = h /\ u.left[h] = Null /\ u.right[h] = Null /\ u.parent[h] = Null
  BY DEF Inserted, IsLeaf, Trees
<1>2. M \subseteq Places /\ h \in M /\ M # {} /\ \A n \in M : n = h
  OBVIOUS
<1>3. h \in Nat
  BY PlacesAreNumbers
<1> HIDE DEF u, M
<1>4. E \in [M -> SUBSET M] /\ E[h] = M
  BY <1>2
<1> HIDE DEF E
<1>5. Rooted(u, M, E)
  BY <1>1, <1>2, <1>4 DEF Rooted
<1>6. HangsLeft(u, M, E, h) /\ HangsRight(u, M, E, h)
  BY <1>1, <1>2, <1>3, <1>4 DEF HangsLeft, HangsRight
<1>7. LinkedUp(u, E, h)
  BY <1>2, <1>4 DEF LinkedUp
<1>8. Hangs(u, M, E)
  BY <1>2, <1>4, <1>5, <1>6, <1>7 DEF Hangs, HangsAt
<1> QED
  BY <1>8 DEF u, M

LEMMA InsertedBelow ==
  ASSUME NEW t \in Trees, NEW N, NEW D, Hangs(t, N, D), NEW h \in Places, h \notin N,
         IsLeaf(t, h), NEW cur \in N, Fits(D, cur, h), Child(t, cur, h) = Null
  PROVE  \E E : Hangs(Inserted(t, h, cur), N \cup {h}, E)
<1> DEFINE u == Inserted(t, h, cur)
           M == N \cup {h}
           E == [n \in M |-> IF n = h THEN {h}
                             ELSE IF cur \in D[n] THEN D[n] \cup {h} ELSE D[n]]
<1>1. /\ cur \in Places /\ cur # h /\ cur # Null
      /\ \A n \in N : n \in Places /\ n # h /\ D[n] \subseteq N /\ n \in Nat /\ n # Null
      /\ h \in Nat /\ h # Null
  BY HangsFacts, PlacesAreNumbers
<1>2. /\ u.root = t.root
      /\ u.left[h] = Null /\ u.right[h] = Null /\ u.parent[h] = cur
      /\ \A n \in N : /\ u.parent[n] = t.parent[n]
                      /\ n # cur => u.left[n] = t.left[n] /\ u.right[n] = t.right[n]
      /\ h > cur => t.right[cur] = Null /\ u.right[cur] = h /\ u.left[cur] = t.left[cur]
      /\ ~(h > cur) => t.left[cur] = Null /\ u.left[cur] = h /\ u.right[cur] = t.right[cur]
  BY <1>1 DEF Inserted, IsLeaf, Trees, Child
<1>3. /\ E[h] = {h}
      /\ \A n \in N : E[n] = IF cur \in D[n] THEN D[n] \cup {h} ELSE D[n]
      /\ E \in [M -> SUBSET M]
  BY <1>1
<1>4. /\ cur \in D[cur] /\ \A n \in N : n \in D[n]
      /\ h \in M /\ N \subseteq M /\ \A m \in M : m \in N \/ m = h
  BY HangsFacts
<1>5. Rooted(u, M, E)
  <2>1. D[t.root] = N /\ t.root \in N /\ t.parent[t.root] = Null
    BY HangsFacts
  <2> QED
    BY <1>2, <1>3, <2>1 DEF Rooted
<1>6. M \subseteq Places
  BY <1>1
<1> HIDE DEF u, E, M
<1>7. HangsAt(u, M, E, h)
  <2>1. HangsLeft(u, M, E, h) /\ HangsRight(u, M, E, h)
    BY <1>2, <1>3, <1>1 DEF HangsLeft, HangsRight
  <2>2. LinkedUp(u, E, h)
    BY <1>3 DEF LinkedUp
  <2> QED
    BY <2>1, <2>2, <1>3 DEF HangsAt
<1>8. ASSUME NEW n \in N
      PROVE  HangsAt(u, M, E, n)
  <2>1. /\ t.left[n] = Null \/ t.left[n] \in N
        /\ t.right[n] = Null \/ t.right[n] \in N
        /\ t.left[n] # Null => t.parent[t.left[n]] = n /\ t.left[n] < n
        /\ t.right[n] # Null => t.parent[t.right[n]] = n /\ n < t.right[n]
    BY HangsFacts, ParentFacts
  <2>2. /\ t.left[n] = Null => \A m \in D[n] : n <= m
        /\ t.left[n] # Null => \A m \in N : m \in D[t.left[n]] <=> m \in D[n] /\ m < n
    BY SideFacts
  <2>3. /\ t.right[n] = Null => \A m \in D[n] : m <= n
        /\ t.right[n] # Null => \A m \in N : m \in D[t.right[n]] <=> m \in D[n] /\ n < m
    BY SideFacts
  <2>4. /\ cur \in D[n] /\ n # cur => (h < n <=> cur < n)
        /\ n \in Nat /\ h \in Nat /\ cur \in Nat /\ n \in D[n] /\ n # h
    BY <1>1, <1>4 DEF Fits, Hangs
  <2>5. /\ \A m \in M : m \in E[n] <=> m \in D[n] \/ (m = h /\ cur \in D[n])
        /\ \A m \in E[n] : m \in D[n] \/ (m = h /\ cur \in D[n])
        /\ h \notin D[n]
    BY <1>1, <1>3, <1>4
  <2>6. \A l \in N : /\ \A m \in M : m \in E[l] <=> m \in D[l] \/ (m = h /\ cur \in D[l])
                     /\ h \notin D[l]
    BY <1>1, <1>3, <1>4
  <2>7. HangsLeft(u, M, E, n)
    <3>1. CASE n = cur /\ ~(h > cur)
      <4>1. u.left[n] = h /\ u.parent[h] = n /\ t.left[n] = Null
        BY <3>1, <1>2
      <4>2. \A m \in M : m \in E[h] <=> m \in E[n] /\ m < n
        BY <3>1, <4>1, <2>2, <2>4, <2>5, <1>1, <1>3, <1>4
      <4> QED
        BY <4>1, <4>2, <1>1, <1>4 DEF HangsLeft
    <3>2. CASE u.left[n] = t.left[n]
      <4>1. CASE t.left[n] = Null
        <5>1. \A m \in E[n] : n <= m
          BY <4>1, <3>2, <2>2, <2>4, <2>5, <1>1, <1>2
        <5> QED
          BY <5>1, <4>1, <3>2 DEF HangsLeft
      <4>2. CASE t.left[n] # Null
        <5> DEFINE l == t.left[n]
        <5>1. l \in N /\ u.parent[l] = n /\ \A m \in N : m \in D[l] <=> m \in D[n] /\ m < n
          BY <4>2, <2>1, <2>2, <1>2
        <5> HIDE DEF l
        <5>2. cur \in D[l] <=> cur \in D[n] /\ cur < n
          BY <5>1
        <5>3. cur \in D[n] => (h < n <=> cur < n)
          <6>1. n = cur => h > cur
            BY <3>2, <1>2, <4>2
          <6> QED
            BY <6>1, <2>4
        <5>4. \A m \in M : m \in E[l] <=> m \in E[n] /\ m < n
          BY <5>1, <5>2, <5>3, <2>5, <2>6, <1>4
        <5> QED
          BY <5>1, <5>4, <4>2, <3>2, <1>4 DEF HangsLeft, l
      <4> QED
        BY <4>1, <4>2
    <3> QED
      BY <3>1, <3>2, <1>2
  <2>8. HangsRight(u, M, E, n)
    <3>1. CASE n = cur /\ h > cur
      <4>1. u.right[n] = h /\ u.parent[h] = n /\ t.right[n] = Null
        BY <3>1, <1>2
      <4>2. \A m \in M : m \in E[h] <=> m \in E[n] /\ n < m
        BY <3>1, <4>1, <2>3, <2>4, <2>5, <1>1, <1>3, <1>4
      <4> QED
        BY <4>1, <4>2, <1>1, <1>4 DEF HangsRight
    <3>2. CASE u.right[n] = t.right[n]
      <4>0. n = cur => ~(h > cur) \/ t.right[n] = h
        BY <3>2, <1>2
      <4>1. CASE t.right[n] = Null
        <5>1. \A m \in E[n] : m <= n
          BY <4>0, <4>1, <3>2, <2>3, <2>4, <2>5, <1>1, <1>2
        <5> QED
          BY <5>1, <4>1, <3>2 DEF HangsRight
      <4>2. CASE t.right[n] # Null
        <5> DEFINE l == t.right[n]
        <5>1. l \in N /\ u.parent[l] = n /\ \A m \in N : m \in D[l] <=> m \in D[n] /\ n < m
          BY <4>2, <2>1, <2>3, <1>2
        <5> HIDE DEF l
        <5>2. cur \in D[l] <=> cur \in D[n] /\ n < cur
          BY <5>1
        <5>3. cur \in D[n] => (n < h <=> n < cur)
          <6>1. n = cur => ~(n < h)
            BY <4>2, <1>2, <2>4
          <6> QED
            BY <6>1, <2>4, <1>1
        <5>4. \A m \in M : m \in E[l] <=> m \in E[n] /\ n < m
          BY <5>1, <5>2, <5>3, <2>5, <2>6, <1>4
        <5> QED
          BY <5>1, <5>4, <4>2, <3>2, <1>4 DEF HangsRight, l
      <4> QED
        BY <4>1, <4>2
    <3> QED
      BY <3>1, <3>2, <1>2
  <2>9. LinkedUp(u, E, n)
    <3> SUFFICES ASSUME NEW m \in E[n]
                 PROVE  /\ E[m] \subseteq E[n]
                        /\ m # n => /\ u.parent[m] \in E[n]
                                    /\ m \in {u.left[u.parent[m]], u.right[u.parent[m]]}
      BY DEF LinkedUp
    <3>1. CASE m = h
      <4>1. cur \in D[n]
        BY <3>1, <2>5
      <4>2. m \in {u.left[cur], u.right[cur]}
        BY <3>1, <1>2
      <4> QED
        BY <3>1, <4>1, <4>2, <1>2, <1>3
    <3>2. CASE m # h
      <4>1. m \in D[n] /\ m \in N
        BY <3>2, <1>1, <2>5
      <4>2. /\ D[m] \subseteq D[n]
            /\ m # n => /\ t.parent[m] \in D[n] /\ t.parent[m] \in N
                        /\ m \in {t.left[t.parent[m]], t.right[t.parent[m]]}
        BY <4>1, UpFacts
      <4>3. E[m] \subseteq E[n]
        BY <4>1, <4>2, <1>3
      <4>4. ASSUME m # n
            PROVE  /\ u.parent[m] \in E[n]
                   /\ m \in {u.left[u.parent[m]], u.right[u.parent[m]]}
        <5>1. u.parent[m] = t.parent[m] /\ m # Null
          BY <4>1, <1>1, <1>2
        <5>2. u.parent[m] \in E[n]
          BY <4>2, <4>4, <5>1, <1>3
        <5>3. m \in {u.left[t.parent[m]], u.right[t.parent[m]]}
          BY <4>2, <4>4, <5>1, <1>2
        <5> QED
          BY <5>1, <5>2, <5>3
      <4> QED
        BY <4>3, <4>4
    <3> QED
      BY <3>1, <3>2
  <2> QED
    BY <2>5, <2>7, <2>8, <2>9, <2>4, <1>4 DEF HangsAt
<1>9. Hangs(u, M, E)
  BY <1>3, <1>4, <1>5, <1>6, <1>7, <1>8 DEF Hangs
<1> QED
  BY <1>9 DEF u, M

-----------------------------------------------------------------------------
(* bst_remove.                                                             *)

(* bst_delete: a leaf, a node with one child, and the pair it splices.     *)
LEMMA LeafHangs ==
  ASSUME NEW t \in Trees, NEW N, NEW D, Hangs(t, N, D), NEW h \in N, IsLeaf(t, h)
  PROVE  \E E : Hangs(LeafRemoved(t, h), N \ {h}, E)
<1> DEFINE u == LeafRemoved(t, h)
           up == t.parent[h]
           M == N \ {h}
           E == [n \in M |-> D[n] \ {h}]
<1>1. /\ h \in Places /\ h # Null /\ D[h] = {h}
      /\ \A n \in N : n \in Places /\ n \in Nat /\ D[n] \subseteq N /\ n \in D[n]
      /\ t.left[h] = Null /\ t.right[h] = Null
  <2>1. h \in D[h] /\ \A m \in D[h] : h <= m /\ m <= h /\ m \in Nat /\ h \in Nat
    BY HangsFacts, PlacesAreNumbers DEF Hangs, HangsAt, HangsLeft, HangsRight, IsLeaf
  <2> QED
    BY <2>1, HangsFacts, PlacesAreNumbers DEF IsLeaf
<1>2. CASE up = Null
  <2>1. N = {h}
    BY <1>1, <1>2, HangsFacts
  <2>2. u.root = Null /\ M = {}
    BY <1>2, <2>1 DEF LeafRemoved, Trees
  <2> HIDE DEF u
  <2>3. Hangs(u, M, E)
    BY <2>2 DEF Hangs, Rooted
  <2> QED
    BY <2>3 DEF u
<1>3. CASE up # Null
  <2>1. /\ up \in N /\ up # h /\ h # t.root
        /\ \/ t.left[up] = h /\ h < up /\ t.right[up] # h
           \/ t.right[up] = h /\ up < h /\ t.left[up] # h
    BY <1>1, <1>3, HangsFacts, ParentFacts
  <2>2. /\ u.root = t.root
        /\ \A n \in N : /\ u.parent[n] = t.parent[n]
                        /\ n # up => u.left[n] = t.left[n] /\ u.right[n] = t.right[n]
        /\ u.left[up] = IF t.left[up] = h THEN Null ELSE t.left[up]
        /\ u.right[up] = IF t.right[up] = h THEN Null ELSE t.right[up]
    BY <1>1, <1>3, <2>1 DEF LeafRemoved, Trees
  <2>3. \A n \in M : E[n] = D[n] \ {h} /\ n \in E[n]
    BY <1>1
  <2>4. M \subseteq Places /\ E \in [M -> SUBSET M] /\ Rooted(u, M, E)
    <3>1. t.root \in N /\ D[t.root] = N /\ t.parent[t.root] = Null
      BY HangsFacts
    <3> QED
      BY <3>1, <1>1, <2>1, <2>2 DEF Rooted
  <2> HIDE DEF u, E
  <2>5. ASSUME NEW n \in M
        PROVE  HangsAt(u, M, E, n)
    <3>1. HangsAt(t, N, D, n) /\ n \in N /\ n # h
      BY DEF Hangs
    <3>2. HangsLeft(u, M, E, n)
      <4>1. CASE t.left[n] = h
        <5>1. n = up
          BY <4>1, <3>1, <1>1, ParentFacts
        <5>2. \A m \in D[n] : m < n => m = h
          BY <4>1, <3>1, <1>1 DEF HangsAt, HangsLeft
        <5> QED
          BY <5>1, <5>2, <4>1, <2>2, <2>3, <3>1, <1>1 DEF HangsLeft
      <4>2. CASE t.left[n] # h
        <5>1. u.left[n] = t.left[n]
          BY <4>2, <2>2, <3>1
        <5> QED
          BY <5>1, <4>2, <2>2, <2>3, <3>1, <1>1 DEF HangsAt, HangsLeft
      <4> QED
        BY <4>1, <4>2
    <3>3. HangsRight(u, M, E, n)
      <4>1. CASE t.right[n] = h
        <5>1. n = up
          BY <4>1, <3>1, <1>1, ParentFacts
        <5>2. \A m \in D[n] : n < m => m = h
          BY <4>1, <3>1, <1>1 DEF HangsAt, HangsRight
        <5> QED
          BY <5>1, <5>2, <4>1, <2>2, <2>3, <3>1, <1>1 DEF HangsRight
      <4>2. CASE t.right[n] # h
        <5>1. u.right[n] = t.right[n]
          BY <4>2, <2>2, <3>1
        <5> QED
          BY <5>1, <4>2, <2>2, <2>3, <3>1, <1>1 DEF HangsAt, HangsRight
      <4> QED
        BY <4>1, <4>2
    <3>4. LinkedUp(u, E, n)
      <4> SUFFICES ASSUME NEW m \in E[n]
                   PROVE  /\ E[m] \subseteq E[n]
                          /\ m # n => /\ u.parent[m] \in E[n]
                                      /\ m \in {u.left[u.parent[m]], u.right[u.parent[m]]}
        BY DEF LinkedUp
      <4>1. m \in D[n] /\ m \in M
        BY <2>3, <1>1
      <4>2. D[m] \subseteq D[n]
        BY <4>1, <3>1 DEF HangsAt, LinkedUp
      <4>3. m # n => /\ t.parent[m] \in D[n] /\ t.parent[m] \in N
                     /\ m \in {t.left[t.parent[m]], t.right[t.parent[m]]}
        BY <4>1, <3>1, <1>1 DEF HangsAt, LinkedUp
      <4>4. m # n => t.parent[m] # h
        BY <4>1, <4>3, <1>1, PlacesAreNumbers
      <4>5. m # h
        BY <4>1
      <4> QED
        BY <4>1, <4>2, <4>3, <4>4, <4>5, <2>2, <2>3
    <3> QED
      BY <3>2, <3>3, <3>4, <2>3 DEF HangsAt
  <2>6. Hangs(u, M, E)
    BY <2>4, <2>5 DEF Hangs
  <2> QED
    BY <2>6 DEF u
<1> QED
  BY <1>2, <1>3

LEMMA SingleHangs ==
  ASSUME NEW t \in Trees, NEW N, NEW D, Hangs(t, N, D), NEW h \in N,
         ~IsLeaf(t, h), ~HasPair(t, h)
  PROVE  \E E : Hangs(SingleRemoved(t, h), N \ {h}, E)
<1> DEFINE u == SingleRemoved(t, h)
           c == IF t.left[h] # Null THEN t.left[h] ELSE t.right[h]
           up == t.parent[h]
           M == N \ {h}
           E == [n \in M |-> D[n] \ {h}]
<1>1. /\ h \in Places /\ h # Null
      /\ \A n \in N : n \in Places /\ n \in Nat /\ D[n] \subseteq N /\ n \in D[n] /\ n # Null
  BY HangsFacts, PlacesAreNumbers
<1>2. /\ c \in N /\ c # h /\ t.parent[c] = h
      /\ \A m \in N : m \in D[h] <=> m = h \/ m \in D[c]
      /\ h \notin D[c]
  <2>1. CASE t.left[h] # Null /\ t.right[h] = Null
    <3>1. c = t.left[h] /\ c \in N /\ t.parent[c] = h /\ c < h
      BY <2>1, HangsFacts, ParentFacts
    <3>2. \A m \in N : (m \in D[c] <=> m \in D[h] /\ m < h) /\ (m \in D[h] => m <= h)
      BY <2>1, <3>1, <1>1, SideFacts
    <3> HIDE DEF c
    <3> QED
      BY <3>1, <3>2, <1>1
  <2>2. CASE t.left[h] = Null /\ t.right[h] # Null
    <3>1. c = t.right[h] /\ c \in N /\ t.parent[c] = h /\ h < c
      BY <2>2, HangsFacts, ParentFacts
    <3>2. \A m \in N : (m \in D[c] <=> m \in D[h] /\ h < m) /\ (m \in D[h] => h <= m)
      BY <2>2, <3>1, <1>1, SideFacts
    <3> HIDE DEF c
    <3> QED
      BY <3>1, <3>2, <1>1
  <2> QED
    BY <2>1, <2>2 DEF IsLeaf, HasPair
<1>3. \A n \in M : /\ n \in N /\ n # h /\ E[n] = D[n] \ {h} /\ n \in E[n] /\ E[n] \subseteq M
  BY <1>1
<1>4. M \subseteq Places /\ E \in [M -> SUBSET M] /\ \A m : m \in M <=> m \in N /\ m # h
  BY <1>1
<1>5. /\ u.parent[c] = up
      /\ \A n \in N : n # c => u.parent[n] = t.parent[n]
      /\ up = Null => u.root = c /\ u.left = t.left /\ u.right = t.right
  BY <1>1, <1>2 DEF SingleRemoved, Trees
<1>6. up # Null =>
        /\ up \in N /\ up # h /\ h # t.root /\ u.root = t.root
        /\ \A n \in N \ {up} : u.left[n] = t.left[n] /\ u.right[n] = t.right[n]
        /\ \/ t.left[up] = h /\ t.right[up] # h /\ u.left[up] = c /\ u.right[up] = t.right[up]
           \/ t.left[up] # h /\ t.right[up] = h /\ u.left[up] = t.left[up] /\ u.right[up] = c
  <2> SUFFICES ASSUME up # Null
               PROVE  /\ up \in N /\ up # h /\ h # t.root /\ u.root = t.root
                      /\ \A n \in N \ {up} : u.left[n] = t.left[n] /\ u.right[n] = t.right[n]
                      /\ \/ /\ t.left[up] = h /\ t.right[up] # h
                            /\ u.left[up] = c /\ u.right[up] = t.right[up]
                         \/ /\ t.left[up] # h /\ t.right[up] = h
                            /\ u.left[up] = t.left[up] /\ u.right[up] = c
    OBVIOUS
  <2>1. /\ up \in N /\ up # h /\ h # t.root
        /\ \/ t.left[up] = h /\ t.right[up] # h
           \/ t.right[up] = h /\ t.left[up] # h
    BY HangsFacts, ParentFacts, PlacesAreNumbers, <1>1
  <2>2. up \in Places
    BY <2>1, <1>1
  <2> QED
    BY <2>1, <2>2, <1>1 DEF SingleRemoved, Trees
<1>7. \A n \in N : t.left[n] = h \/ t.right[n] = h => n = up
  BY <1>1, ParentFacts
<1> HIDE DEF u, c, M, E
<1>8. Rooted(u, M, E)
  <2>1. CASE up = Null
    <3>1. h = t.root /\ D[h] = N
      BY <2>1, HangsFacts
    <3>2. c \in M /\ E[c] = D[c] \ {h}
      BY <1>2, <1>3, <1>4
    <3>3. E[c] = M
      <4>1. \A m \in N : m \in D[c] <=> m # h
        BY <3>1, <1>2
      <4> QED
        BY <3>2, <4>1, <1>2, <1>1, <1>4
    <3> QED
      BY <2>1, <3>2, <3>3, <1>5 DEF Rooted
  <2>2. CASE up # Null
    <3>1. t.root \in M /\ D[t.root] = N /\ t.parent[t.root] = Null
      BY <2>2, <1>4, <1>6, HangsFacts
    <3>2. t.root # c
      BY <3>1, <1>1, <1>2
    <3>3. E[t.root] = M
      BY <3>1, <1>3 DEF M
    <3> QED
      BY <2>2, <3>1, <3>2, <3>3, <1>4, <1>5, <1>6 DEF Rooted
  <2> QED
    BY <2>1, <2>2
<1>9. ASSUME NEW n \in M
      PROVE  HangsAt(u, M, E, n)
  <2>1. /\ n \in N /\ n # h /\ n \in E[n]
        /\ t.left[n] = Null \/ t.left[n] \in N
        /\ t.right[n] = Null \/ t.right[n] \in N
        /\ t.left[n] # Null => t.parent[t.left[n]] = n /\ t.left[n] < n
        /\ t.right[n] # Null => t.parent[t.right[n]] = n /\ n < t.right[n]
    BY <1>3, HangsFacts, ParentFacts
  <2>2. /\ t.left[n] = Null => \A m \in D[n] : n <= m
        /\ t.left[n] # Null => \A m \in N : m \in D[t.left[n]] <=> m \in D[n] /\ m < n
        /\ t.right[n] = Null => \A m \in D[n] : m <= n
        /\ t.right[n] # Null => \A m \in N : m \in D[t.right[n]] <=> m \in D[n] /\ n < m
    BY <2>1, SideFacts
  <2>3. c \in M /\ \A m \in M : m \in E[c] <=> m \in D[h]
    BY <1>1, <1>2, <1>3, <1>4
  <2>4. HangsLeft(u, M, E, n)
    <3>1. CASE t.left[n] = h
      <4>1. n = up /\ up # Null
        BY <3>1, <2>1, <1>7, <1>1
      <4>2. u.left[n] = c /\ u.parent[c] = n
        BY <3>1, <4>1, <1>5, <1>6
      <4>3. \A m \in M : m \in D[h] <=> m \in D[n] /\ m < n
        BY <3>1, <2>2, <1>1, <1>4
      <4>4. \A m \in M : m \in E[c] <=> m \in E[n] /\ m < n
        BY <4>3, <2>1, <2>3, <1>3, <1>4
      <4> QED
        BY <4>2, <4>4, <2>3, <1>1, <1>2 DEF HangsLeft
    <3>2. CASE t.left[n] # h
      <4>1. u.left[n] = t.left[n]
        BY <3>2, <2>1, <1>5, <1>6
      <4>2. CASE t.left[n] = Null
        BY <4>1, <4>2, <2>2, <2>1, <1>3 DEF HangsLeft
      <4>3. CASE t.left[n] # Null
        <5> DEFINE l == t.left[n]
        <5>1. l \in M /\ t.parent[l] = n
          BY <3>2, <4>3, <2>1, <1>4
        <5>2. u.parent[l] = n
          BY <5>1, <2>1, <1>2, <1>4, <1>5
        <5>3. \A m \in M : m \in E[l] <=> m \in E[n] /\ m < n
          BY <5>1, <4>3, <2>1, <2>2, <1>3, <1>4
        <5> QED
          BY <5>1, <5>2, <5>3, <4>1, <4>3 DEF HangsLeft
      <4> QED
        BY <4>2, <4>3
    <3> QED
      BY <3>1, <3>2
  <2>5. HangsRight(u, M, E, n)
    <3>1. CASE t.right[n] = h
      <4>1. n = up /\ up # Null
        BY <3>1, <2>1, <1>7, <1>1
      <4>2. u.right[n] = c /\ u.parent[c] = n
        BY <3>1, <4>1, <1>5, <1>6
      <4>3. \A m \in M : m \in D[h] <=> m \in D[n] /\ n < m
        BY <3>1, <2>2, <1>1, <1>4
      <4>4. \A m \in M : m \in E[c] <=> m \in E[n] /\ n < m
        BY <4>3, <2>1, <2>3, <1>3, <1>4
      <4> QED
        BY <4>2, <4>4, <2>3, <1>1, <1>2 DEF HangsRight
    <3>2. CASE t.right[n] # h
      <4>1. u.right[n] = t.right[n]
        BY <3>2, <2>1, <1>5, <1>6
      <4>2. CASE t.right[n] = Null
        BY <4>1, <4>2, <2>2, <2>1, <1>3 DEF HangsRight
      <4>3. CASE t.right[n] # Null
        <5> DEFINE l == t.right[n]
        <5>1. l \in M /\ t.parent[l] = n
          BY <3>2, <4>3, <2>1, <1>4
        <5>2. u.parent[l] = n
          BY <5>1, <2>1, <1>2, <1>4, <1>5
        <5>3. \A m \in M : m \in E[l] <=> m \in E[n] /\ n < m
          BY <5>1, <4>3, <2>1, <2>2, <1>3, <1>4
        <5> QED
          BY <5>1, <5>2, <5>3, <4>1, <4>3 DEF HangsRight
      <4> QED
        BY <4>2, <4>3
    <3> QED
      BY <3>1, <3>2
  <2>6. LinkedUp(u, E, n)
    <3> SUFFICES ASSUME NEW m \in E[n]
                 PROVE  /\ E[m] \subseteq E[n]
                        /\ m # n => /\ u.parent[m] \in E[n]
                                    /\ m \in {u.left[u.parent[m]], u.right[u.parent[m]]}
      BY DEF LinkedUp
    <3>1. m \in D[n] /\ m \in M /\ m # h /\ m \in N
      BY <1>3, <1>4
    <3>2. /\ D[m] \subseteq D[n]
          /\ m # n => /\ t.parent[m] \in D[n] /\ t.parent[m] \in N
                      /\ m \in {t.left[t.parent[m]], t.right[t.parent[m]]}
      BY <3>1, <2>1, UpFacts
    <3>3. E[m] \subseteq E[n]
      BY <3>1, <3>2, <1>3
    <3>4. ASSUME m # n, m = c
          PROVE  u.parent[m] \in E[n] /\ m \in {u.left[u.parent[m]], u.right[u.parent[m]]}
      <4>1. h \in D[n]
        BY <3>2, <3>4, <1>2
      <4>2. /\ up \in D[n] /\ up \in N
        BY <4>1, <2>1, UpFacts
      <4>3. up # Null /\ up # h
        BY <4>2, <1>1, <1>6
      <4> QED
        BY <3>4, <4>2, <4>3, <2>1, <1>3, <1>5, <1>6
    <3>5. ASSUME m # n, m # c
          PROVE  u.parent[m] \in E[n] /\ m \in {u.left[u.parent[m]], u.right[u.parent[m]]}
      <4> DEFINE q == t.parent[m]
      <4>1. q \in D[n] /\ q \in N /\ u.parent[m] = q /\ m \in {t.left[q], t.right[q]}
        BY <3>1, <3>2, <3>5, <1>5
      <4>2. q # h
        <5>1. CASE t.left[h] # Null
          <6>1. c = t.left[h] /\ t.right[h] = Null
            BY <5>1 DEF c, HasPair
          <6> QED
            BY <6>1, <4>1, <3>1, <3>5, <1>1
        <5>2. CASE t.left[h] = Null
          <6>1. c = t.right[h]
            BY <5>2 DEF c
          <6> QED
            BY <6>1, <5>2, <4>1, <3>1, <3>5, <1>1
        <5> QED
          BY <5>1, <5>2
      <4> HIDE DEF q
      <4>3. q \in E[n]
        BY <4>1, <4>2, <2>1, <1>3
      <4>4. m \in {u.left[q], u.right[q]}
        BY <4>1, <3>1, <1>5, <1>6
      <4> QED
        BY <4>1, <4>3, <4>4
    <3> QED
      BY <3>3, <3>4, <3>5
  <2> QED
    BY <2>1, <2>4, <2>5, <2>6 DEF HangsAt
<1>10. Hangs(u, M, E)
  BY <1>4, <1>8, <1>9 DEF Hangs
<1> QED
  BY <1>10 DEF u, M

\* bst_findmin, called on the right subtree of h, has its least element at or
\* below cur.
Lessens(t, D, cur, h) ==
  /\ cur \in D[t.right[h]]
  /\ \A m \in D[t.right[h]] : m < cur => m \in D[cur]

(* bst_findmin starts in, stays on and ends at the least of the subtree.   *)
LEMMA LessensFirst ==
  ASSUME NEW t, NEW N, NEW D, Hangs(t, N, D), NEW h \in N, t.right[h] # Null
  PROVE  Lessens(t, D, t.right[h], h)
BY HangsFacts DEF Lessens

LEMMA LessensNext ==
  ASSUME NEW t, NEW N, NEW D, Hangs(t, N, D), NEW h \in N, t.right[h] # Null,
         NEW cur, Lessens(t, D, cur, h), t.left[cur] # Null
  PROVE  Lessens(t, D, t.left[cur], h)
<1> DEFINE r == t.right[h]
           l == t.left[cur]
<1>1. r \in N /\ cur \in D[r] /\ \A m \in D[r] : m < cur => m \in D[cur]
  BY HangsFacts DEF Lessens
<1>2. cur \in N /\ D[cur] \subseteq D[r]
  BY <1>1, UpFacts
<1>3. l \in N /\ l < cur
  BY <1>2, HangsFacts, ParentFacts
<1>4. \A m \in N : m \in D[l] <=> m \in D[cur] /\ m < cur
  BY <1>2, SideFacts
<1>5. \A m \in N : m \in Nat /\ m \in D[m] /\ D[m] \subseteq N
  BY HangsFacts, PlacesAreNumbers
<1>6. l \in D[r]
  BY <1>2, <1>3, <1>4, <1>5
<1>7. ASSUME NEW m \in D[r], m < l
      PROVE  m \in D[l]
  <2>1. m \in N /\ m < cur
    BY <1>1, <1>2, <1>3, <1>5, <1>7
  <2> QED
    BY <2>1, <1>1, <1>4
<1> QED
  BY <1>6, <1>7 DEF Lessens

LEMMA LessensLast ==
  ASSUME NEW t, NEW N, NEW D, Hangs(t, N, D), NEW h \in N, t.right[h] # Null,
         NEW s, Lessens(t, D, s, h), t.left[s] = Null
  PROVE  s \in N /\ s \in D[t.right[h]] /\ \A m \in D[t.right[h]] : s <= m
<1> DEFINE r == t.right[h]
<1>1. r \in N /\ s \in D[r] /\ \A m \in D[r] : m < s => m \in D[s]
  BY HangsFacts DEF Lessens
<1>2. s \in N /\ \A m \in D[r] : m \in N
  BY <1>1, UpFacts
<1>3. \A m \in D[s] : s <= m
  BY <1>2, SideFacts
<1>4. \A m \in N : m \in Nat
  BY HangsFacts, PlacesAreNumbers
<1> QED
  BY <1>1, <1>2, <1>3, <1>4

(* A pair at the root whose successor is a leaf is replaced by it.         *)
LEMMA PairHangs ==
  ASSUME NEW t \in Trees, NEW N, NEW D, Hangs(t, N, D), NEW h \in N,
         HasPair(t, h), t.parent[h] = Null, NEW s \in N, s # t.right[h], IsLeaf(t, s),
         s \in D[t.right[h]], \A m \in D[t.right[h]] : s <= m
  PROVE  \E E : Hangs(PairRemoved(t, h, s), N \ {h}, E)
<1> DEFINE u == PairRemoved(t, h, s)
           l == t.left[h]
           r == t.right[h]
           q == t.parent[s]
           M == N \ {h}
           E == [n \in M |-> IF n = s THEN M ELSE D[n] \ {s}]
<1>1. /\ h \in Places /\ h = t.root /\ D[h] = N
      /\ \A n \in N : /\ n \in Places /\ n \in Nat /\ n # Null
                      /\ D[n] \subseteq N /\ n \in D[n]
  BY HangsFacts, PlacesAreNumbers
<1>2. /\ l \in N /\ l < h /\ t.parent[l] = h
      /\ r \in N /\ h < r /\ t.parent[r] = h
      /\ \A m \in N : m \in D[l] <=> m < h
      /\ \A m \in N : m \in D[r] <=> h < m
  BY <1>1, HangsFacts, ParentFacts, SideFacts DEF HasPair
<1>3. D[s] = {s} /\ h < s /\ s \in Places
  <2>1. \A m \in D[s] : s <= m /\ m <= s /\ m \in Nat
    BY <1>1, SideFacts DEF IsLeaf
  <2> QED
    BY <2>1, <1>1, <1>2
<1>4. q \in N /\ q \in D[r] /\ q # h /\ q # s /\ t.left[q] = s /\ t.right[q] # s
  <2>1. q \in D[r] /\ q \in N
    BY <1>2, UpFacts
  <2>2. s # t.root
    BY <1>1, <1>3
  <2>3. s <= q
    BY <2>1
  <2>4. \/ t.left[q] = s /\ s < q /\ t.right[q] # s
        \/ t.right[q] = s /\ q < s /\ t.left[q] # s
    BY <2>2, ParentFacts
  <2> QED
    BY <2>1, <2>3, <2>4, <1>1, <1>2
<1>5. /\ u.root = s /\ u.left[s] = l /\ u.right[s] = r /\ u.parent[s] = Null
      /\ u.parent[l] = s /\ u.parent[r] = s
      /\ u.left[q] = Null /\ u.right[q] = t.right[q]
      /\ \A n \in M \ {s, q} : u.left[n] = t.left[n] /\ u.right[n] = t.right[n]
      /\ \A n \in M \ {s, l, r} : u.parent[n] = t.parent[n]
  <2>1. l # Null /\ r # Null /\ s # l /\ s # r /\ l # r /\ l \in Places /\ r \in Places
    BY <1>1, <1>2, <1>3
  <2>2. q \in Places /\ s \in Places /\ h \in Places /\ q # s /\ q # h
    BY <1>1, <1>4
  <2> DEFINE cut == [t EXCEPT !.left[q] = Null]
             up  == [p \in Places |-> IF p \in {l, r} THEN s
                                      ELSE IF p = s THEN t.parent[h]
                                      ELSE t.parent[p]]
             hung == [cut EXCEPT !.right[s] = r, !.left[s] = l, !.parent = up]
  <2>3. /\ cut.left[h] = l /\ cut.right[h] = r /\ cut.parent = t.parent
        /\ cut.right = t.right /\ cut.left = [t.left EXCEPT ![q] = Null]
        /\ cut.root = t.root /\ cut \in Trees
    BY <2>2, PointerFacts DEF Trees
  <2>4. u = [hung EXCEPT !.root = s]
    <3>1. u = [[cut EXCEPT !.right[s] = cut.right[h],
                           !.left[s]  = IF cut.left[h] = Null THEN @ ELSE cut.left[h],
                           !.parent   = [p \in Places |->
                                           IF p \in {cut.left[h], cut.right[h]} THEN s
                                           ELSE IF p = s THEN cut.parent[h]
                                           ELSE cut.parent[p]]] EXCEPT !.root = s]
      BY DEF PairRemoved
    <3> HIDE DEF cut, u
    <3>2. [p \in Places |-> IF p \in {cut.left[h], cut.right[h]} THEN s
                            ELSE IF p = s THEN cut.parent[h]
                            ELSE cut.parent[p]] = up
      BY <2>3
    <3> HIDE DEF up
    <3> QED
      BY <2>1, <2>3, <3>1, <3>2
  <2> HIDE DEF cut, u
  <2>5. up \in [Places -> Pointers]
    BY <1>1, <1>3, <2>2, PointerFacts DEF Trees
  <2>6. /\ u.root = s
        /\ u.left = [cut.left EXCEPT ![s] = l] /\ u.right = [cut.right EXCEPT ![s] = r]
        /\ u.parent = up
    <3> HIDE DEF up
    <3> QED
      BY <2>3, <2>4, <2>5 DEF Trees
  <2>7. /\ t.left \in [Places -> Pointers] /\ t.right \in [Places -> Pointers]
        /\ \A n \in M : n \in Places
    BY <1>1 DEF Trees
  <2>8. /\ u.left[s] = l /\ u.right[s] = r
        /\ u.left[q] = Null /\ u.right[q] = t.right[q]
        /\ \A n \in M \ {s, q} : u.left[n] = t.left[n] /\ u.right[n] = t.right[n]
    BY <2>2, <2>3, <2>6, <2>7
  <2>9. /\ u.parent[s] = Null /\ u.parent[l] = s /\ u.parent[r] = s
        /\ \A n \in M \ {s, l, r} : u.parent[n] = t.parent[n]
    BY <2>1, <2>2, <2>6, <2>7
  <2> QED
    BY <2>6, <2>8, <2>9
<1>6. /\ M \subseteq Places /\ E \in [M -> SUBSET M] /\ s \in M /\ q \in M /\ l \in M /\ r \in M
      /\ E[s] = M /\ \A n \in M \ {s} : E[n] = D[n] \ {s}
      /\ \A m : m \in M <=> m \in N /\ m # h
  <2>1. \A n \in N \ {h} : h \notin D[n]
    <3> SUFFICES ASSUME NEW n \in N, n # h, h \in D[n]
                 PROVE  FALSE
      OBVIOUS
    <3>1. t.parent[h] \in N
      BY UpFacts
    <3> QED
      BY <3>1, <1>1
  <2>2. s \in M /\ q \in M /\ l \in M /\ r \in M
    BY <1>1, <1>2, <1>3, <1>4
  <2> QED
    BY <2>1, <2>2, <1>1
<1>7. Rooted(u, M, E)
  BY <1>5, <1>6 DEF Rooted
<1>8. /\ l # s /\ l # h /\ r # s /\ r # h /\ l # Null /\ r # Null
      /\ \A m \in M : m # h /\ (m < h <=> m < s)
      /\ \A m \in M : m # s => (h < m <=> s < m)
  <2>1. \A m \in M : m # h /\ m \in Nat /\ m \in N /\ (h < m => s <= m)
    BY <1>1, <1>2, <1>6
  <2>2. h \in Nat /\ s \in Nat /\ h < s
    BY <1>1, <1>3
  <2> HIDE DEF M
  <2> QED
    BY <2>1, <2>2, <1>1, <1>2
<1> HIDE DEF u, E, M, l, r, q
<1>9. HangsAt(u, M, E, s)
  <2>1. \A m \in M : m \in E[l] <=> m \in E[s] /\ m < s
    BY <1>1, <1>2, <1>3, <1>6, <1>8
  <2>2. \A m \in M : m \in E[r] <=> m \in E[s] /\ s < m
    BY <1>1, <1>2, <1>3, <1>6, <1>8
  <2>3. HangsLeft(u, M, E, s) /\ HangsRight(u, M, E, s)
    BY <2>1, <2>2, <1>5, <1>6, <1>8 DEF HangsLeft, HangsRight
  <2>4. ASSUME NEW m \in M
        PROVE  /\ E[m] \subseteq E[s]
               /\ m # s => u.parent[m] \in E[s] /\ m \in {u.left[u.parent[m]], u.right[u.parent[m]]}
    <3>1. E[m] \subseteq E[s]
      BY <1>6
    <3>2. CASE m \in {s, l, r}
      BY <3>1, <3>2, <1>5, <1>6
    <3>3. CASE m \notin {s, l, r}
      <4> DEFINE p == t.parent[m]
      <4>1. p \in N /\ m \in {t.left[p], t.right[p]} /\ u.parent[m] = p
        BY <3>3, <1>1, <1>5, <1>6, ParentFacts
      <4>2. p # h /\ p # s
        BY <4>1, <3>3, <1>1, <1>6 DEF IsLeaf, l, r
      <4> HIDE DEF p
      <4>3. m \in {u.left[p], u.right[p]}
        BY <4>1, <4>2, <3>3, <1>4, <1>5, <1>6
      <4> QED
        BY <3>1, <4>1, <4>2, <4>3, <1>6
    <3> QED
      BY <3>2, <3>3
  <2>5. LinkedUp(u, E, s)
    BY <2>4, <1>6 DEF LinkedUp
  <2> QED
    BY <2>3, <2>5, <1>6 DEF HangsAt
<1>10. ASSUME NEW n \in M, n # s
       PROVE  HangsAt(u, M, E, n)
  <2>1. /\ n \in N /\ n # h /\ n \in E[n] /\ h \notin D[n]
        /\ E[n] = D[n] \ {s}
        /\ t.left[n] = Null \/ t.left[n] \in N
        /\ t.right[n] = Null \/ t.right[n] \in N
        /\ t.left[n] # Null => t.parent[t.left[n]] = n /\ t.left[n] < n
        /\ t.right[n] # Null => t.parent[t.right[n]] = n /\ n < t.right[n]
    <3>1. /\ n \in N /\ n # h /\ n \in E[n] /\ E[n] = D[n] \ {s}
      BY <1>1, <1>6, <1>10
    <3>2. h \notin D[n]
      <4>1. h \in D[n] => t.parent[h] \in N
        BY <3>1, UpFacts
      <4> QED
        BY <4>1, <1>1
    <3> QED
      BY <3>1, <3>2, HangsFacts, ParentFacts
  <2>2. /\ t.left[n] = Null => \A m \in D[n] : n <= m
        /\ t.left[n] # Null => \A m \in N : m \in D[t.left[n]] <=> m \in D[n] /\ m < n
        /\ t.right[n] = Null => \A m \in D[n] : m <= n
        /\ t.right[n] # Null => \A m \in N : m \in D[t.right[n]] <=> m \in D[n] /\ n < m
    BY <2>1, SideFacts
  <2>3. ASSUME NEW c \in N, t.parent[c] = n, c # s
        PROVE  c \in M /\ u.parent[c] = n /\ E[c] = D[c] \ {s} /\ c # Null
    BY <2>3, <2>1, <1>1, <1>2, <1>5, <1>6, <1>10
  <2>4. HangsLeft(u, M, E, n)
    <3>1. CASE n = q
      <4>1. \A m \in E[n] : n <= m
        BY <3>1, <2>1, <2>2, <1>1, <1>3, <1>4
      <4> QED
        BY <4>1, <3>1, <1>5 DEF HangsLeft
    <3>2. CASE n # q
      <4>1. u.left[n] = t.left[n]
        BY <3>2, <1>5, <1>10
      <4>2. CASE t.left[n] = Null
        BY <4>1, <4>2, <2>2, <2>1 DEF HangsLeft
      <4>3. CASE t.left[n] # Null
        <5>1. t.left[n] # s
          BY <3>2, <4>3, <2>1 DEF q
        <5>2. \A m \in M : m \in E[t.left[n]] <=> m \in E[n] /\ m < n
          BY <4>3, <5>1, <2>1, <2>2, <2>3, <1>6
        <5> QED
          BY <5>1, <5>2, <4>1, <4>3, <2>1, <2>3 DEF HangsLeft
      <4> QED
        BY <4>2, <4>3
    <3> QED
      BY <3>1, <3>2
  <2>5. HangsRight(u, M, E, n)
    <3>1. u.right[n] = t.right[n]
      BY <1>5, <1>10
    <3>2. CASE t.right[n] = Null
      BY <3>1, <3>2, <2>2, <2>1 DEF HangsRight
    <3>3. CASE t.right[n] # Null
      <4>1. t.right[n] # s
        BY <3>3, <2>1, <1>4 DEF q
      <4>2. \A m \in M : m \in E[t.right[n]] <=> m \in E[n] /\ n < m
        BY <3>3, <4>1, <2>1, <2>2, <2>3, <1>6
      <4> QED
        BY <4>1, <4>2, <3>1, <3>3, <2>1, <2>3 DEF HangsRight
    <3> QED
      BY <3>2, <3>3
  <2>6. LinkedUp(u, E, n)
    <3> SUFFICES ASSUME NEW m \in E[n]
                 PROVE  /\ E[m] \subseteq E[n]
                        /\ m # n => /\ u.parent[m] \in E[n]
                                    /\ m \in {u.left[u.parent[m]], u.right[u.parent[m]]}
      BY DEF LinkedUp
    <3>1. m \in D[n] /\ m \in M /\ m # s /\ m \in N /\ E[m] = D[m] \ {s}
      BY <2>1, <1>1, <1>6
    <3>2. /\ D[m] \subseteq D[n]
          /\ m # n => /\ t.parent[m] \in D[n] /\ t.parent[m] \in N
                      /\ m \in {t.left[t.parent[m]], t.right[t.parent[m]]}
      BY <3>1, <2>1, UpFacts
    <3>3. ASSUME m # n
          PROVE  u.parent[m] \in E[n] /\ m \in {u.left[u.parent[m]], u.right[u.parent[m]]}
      <4> DEFINE p == t.parent[m]
      <4>1. p \in D[n] /\ p \in N /\ m \in {t.left[p], t.right[p]} /\ m # Null
        BY <3>1, <3>2, <3>3, <1>1
      <4>2. p # h /\ p # s /\ m # l /\ m # r
        BY <4>1, <2>1, <1>2 DEF IsLeaf
      <4>3. u.parent[m] = p
        BY <4>2, <3>1, <1>5
      <4> HIDE DEF p
      <4>4. m \in {u.left[p], u.right[p]} /\ p \in E[n]
        BY <4>1, <4>2, <3>1, <2>1, <1>4, <1>5, <1>6
      <4> QED
        BY <4>3, <4>4
    <3> QED
      BY <3>1, <3>2, <3>3, <2>1
  <2> QED
    BY <2>1, <2>4, <2>5, <2>6 DEF HangsAt
<1>11. Hangs(u, M, E)
  BY <1>6, <1>7, <1>9, <1>10 DEF Hangs
<1> QED
  BY <1>11 DEF u, M

(* What bst_remove needs of its walk: s is the least of the right subtree   *)
(* when h has two children.                                                *)
LEMMA RemovedHangs ==
  ASSUME NEW t \in Trees, NEW N, NEW D, Hangs(t, N, D), NEW h \in N, NEW s \in Pointers,
         HasPair(t, h) => Lessens(t, D, s, h) /\ t.left[s] = Null
  PROVE  /\ ~RemoveFaults(t, h, s)
         /\ ~Tears(t, h, s) => \E E : Hangs(Freed(Removed(t, h, s), h), N \ {h}, E)
<1>1. h \in Places
  BY HangsFacts
<1>2. HasPair(t, h) => /\ s \in N /\ s \in D[t.right[h]]
                       /\ \A m \in D[t.right[h]] : s <= m
  BY LessensLast DEF HasPair
<1>3. ~RemoveFaults(t, h, s)
  <2>1. t.parent[h] # Wild /\ t.left[h] # Wild /\ t.right[h] # Wild
    BY HangsFacts, PlacesAreNumbers
  <2>2. ASSUME HasPair(t, h)
        PROVE  t.parent[s] \notin {Null, Wild}
    <3>1. s \in N /\ s \in D[t.right[h]] /\ t.right[h] \in N
      BY <1>2, <2>2, HangsFacts DEF HasPair
    <3>2. t.parent[s] \in N
      <4>1. CASE s = t.right[h]
        BY <4>1, <2>2, ParentFacts DEF HasPair
      <4>2. CASE s # t.right[h]
        BY <4>2, <3>1, UpFacts
      <4> QED
        BY <4>1, <4>2
    <3> QED
      BY <3>2, HangsFacts, PlacesAreNumbers
  <2> QED
    BY <2>1, <2>2 DEF RemoveFaults
<1>4. ASSUME ~Tears(t, h, s)
      PROVE  \E E : Hangs(Freed(Removed(t, h, s), h), N \ {h}, E)
  <2>1. PICK E : Hangs(Removed(t, h, s), N \ {h}, E)
    <3>1. CASE IsLeaf(t, h)
      BY <3>1, LeafHangs DEF Removed
    <3>2. CASE HasPair(t, h)
      <4>1. t.parent[h] = Null /\ s # t.right[h] /\ IsLeaf(t, s)
        BY <3>2, <1>4 DEF Tears
      <4>2. ~IsLeaf(t, h)
        BY <3>2 DEF IsLeaf, HasPair
      <4> QED
        BY <3>2, <4>1, <4>2, <1>2, PairHangs DEF Removed
    <3>3. CASE ~IsLeaf(t, h) /\ ~HasPair(t, h)
      BY <3>3, SingleHangs DEF Removed
    <3> QED
      BY <3>1, <3>2, <3>3
  <2>2. Removed(t, h, s) \in Trees
    BY <1>1, RemovedType
  <2> QED
    BY <1>1, <2>1, <2>2, FreedHangs
<1> QED
  BY <1>3, <1>4

-----------------------------------------------------------------------------
(* What is reached from a node.                                            *)

(* The children of the nodes of S.                                         *)
Kids(t, S) == UNION {{t.left[p], t.right[p]} : p \in S \cap Places}

(* f[i] is what is reached from n in at most i steps (Reached in RingTree). *)
IsWalk(t, n, f, k) ==
  f = [i \in 0 .. k |-> IF i = 0 THEN {n} ELSE f[i - 1] \cup Kids(t, f[i - 1])]

(* Reached, whose steps are a function of their number.                    *)
LEMMA WalkFacts ==
  ASSUME NEW t, NEW n, NEW f, NEW k \in Nat, IsWalk(t, n, f, k)
  PROVE  /\ f[0] = {n}
         /\ \A i \in 0 .. k : i # 0 => f[i] = f[i - 1] \cup Kids(t, f[i - 1])
<1> DEFINE g == [i \in 0 .. k |-> IF i = 0 THEN {n} ELSE f[i - 1] \cup Kids(t, f[i - 1])]
<1>1. f = g
  BY DEF IsWalk
<1>2. \A i \in 0 .. k : g[i] = IF i = 0 THEN {n} ELSE f[i - 1] \cup Kids(t, f[i - 1])
  OBVIOUS
<1> HIDE DEF g
<1>3. 0 \in 0 .. k
  OBVIOUS
<1> QED
  BY <1>1, <1>2, <1>3

LEMMA WalkExists ==
  ASSUME NEW t, NEW n
  PROVE  \A k \in Nat : \E f : IsWalk(t, n, f, k)
<1> DEFINE B == {k \in Nat : ~\E f : IsWalk(t, n, f, k)}
<1> SUFFICES ASSUME B # {}
             PROVE  FALSE
  OBVIOUS
<1>1. PICK k \in B : \A j \in B : k <= j
  BY LeastExists
<1>2. k \in Nat /\ ~\E f : IsWalk(t, n, f, k)
  OBVIOUS
<1>3. CASE k = 0
  <2> DEFINE f == [i \in 0 .. 0 |-> {n}]
             g == [i \in 0 .. 0 |-> IF i = 0 THEN {n} ELSE f[i - 1] \cup Kids(t, f[i - 1])]
  <2>1. f = g
    OBVIOUS
  <2> HIDE DEF f
  <2>2. IsWalk(t, n, f, 0)
    BY <2>1 DEF IsWalk
  <2> QED
    BY <2>2, <1>2, <1>3
<1>4. CASE k # 0
  <2>1. k - 1 \in Nat /\ ~(k <= k - 1)
    BY <1>2, <1>4
  <2>2. PICK e : IsWalk(t, n, e, k - 1)
    BY <2>1, <1>1
  <2> DEFINE f == [i \in 0 .. k |-> IF i = k THEN e[k - 1] \cup Kids(t, e[k - 1]) ELSE e[i]]
             g == [i \in 0 .. k |-> IF i = 0 THEN {n} ELSE f[i - 1] \cup Kids(t, f[i - 1])]
  <2>3. /\ e[0] = {n}
        /\ \A i \in 0 .. k - 1 : i # 0 => e[i] = e[i - 1] \cup Kids(t, e[i - 1])
    BY <2>1, <2>2, WalkFacts
  <2>4. /\ \A i \in 0 .. k - 1 : f[i] = e[i]
        /\ f[k] = e[k - 1] \cup Kids(t, e[k - 1])
        /\ f = [i \in 0 .. k |-> f[i]]
    BY <1>2, <1>4
  <2> HIDE DEF f
  <2>5. ASSUME NEW i \in 0 .. k
        PROVE  f[i] = IF i = 0 THEN {n} ELSE f[i - 1] \cup Kids(t, f[i - 1])
    <3>1. CASE i = k
      BY <3>1, <1>2, <1>4, <2>4
    <3>2. CASE i # k /\ i # 0
      <4>1. i \in 0 .. k - 1 /\ i - 1 \in 0 .. k - 1
        BY <3>2, <1>2
      <4> QED
        BY <3>2, <4>1, <2>3, <2>4
    <3>3. CASE i = 0 /\ i # k
      <4>1. 0 \in 0 .. k - 1
        BY <2>1
      <4>2. f[0] = {n}
        BY <4>1, <2>3, <2>4
      <4> QED
        BY <3>3, <4>2
    <3> QED
      BY <3>1, <3>2, <3>3
  <2>6. f = g
    BY <2>4, <2>5
  <2>7. IsWalk(t, n, f, k)
    BY <2>6 DEF IsWalk
  <2> QED
    BY <2>7, <1>2
<1> QED
  BY <1>3, <1>4

LEMMA ReachedByWalk ==
  ASSUME NEW t, NEW n
  PROVE  \E f : IsWalk(t, n, f, Size) /\ Reached(t, n) = f[Size] \ {Null}
<1> DEFINE Steps == CHOOSE f : IsWalk(t, n, f, Size)
<1>1. IsWalk(t, n, Steps, Size)
  BY SizeAssumption, WalkExists
<1>2. Reached(t, n) = Steps[Size] \ {Null}
  BY DEF Reached, IsWalk, Kids
<1> QED
  BY <1>1, <1>2

(* An element below n other than n: a node with more below it is its      *)
(* parent, so a set of nodes closed under children misses none.           *)
LEMMA ParentHoldsMore ==
  ASSUME NEW t, NEW N, NEW D, Hangs(t, N, D), NEW n \in N, NEW m \in D[n], m # n
  PROVE  /\ t.parent[m] \in D[n]
         /\ Cardinality(D[m]) < Cardinality(D[t.parent[m]])
         /\ Cardinality(D[m]) \in 0 .. Size /\ Cardinality(D[t.parent[m]]) \in 0 .. Size
<1> DEFINE p == t.parent[m]
<1>1. /\ p \in D[n] /\ p \in N /\ m \in N /\ m \in {t.left[p], t.right[p]} /\ m # Null
  BY UpFacts, HangsFacts, PlacesAreNumbers
<1> HIDE DEF p
<1>2. m \in D[m] /\ p \in D[p] /\ p \in Nat /\ D[m] \subseteq Places /\ D[p] \subseteq Places
  BY <1>1, HangsFacts, PlacesAreNumbers
<1>3. m \in D[p] /\ p \notin D[m]
  <2>1. CASE m = t.left[p]
    BY <2>1, <1>1, <1>2, SideFacts
  <2>2. CASE m = t.right[p]
    BY <2>2, <1>1, <1>2, SideFacts
  <2> QED
    BY <1>1, <2>1, <2>2
<1>4. D[m] \subseteq D[p]
  BY <1>1, <1>3, UpFacts
<1>5. IsFiniteSet(Places) /\ Cardinality(Places) = Size
  BY SizeAssumption, FS_Interval DEF Places
<1>6. IsFiniteSet(D[p]) /\ IsFiniteSet(D[m])
  BY <1>2, <1>5, FS_Subset
<1>7. Cardinality(D[m]) < Cardinality(D[p])
  BY <1>2, <1>3, <1>4, <1>6, FS_Subset, FS_CardinalityType
<1>8. Cardinality(D[m]) \in Nat /\ Cardinality(D[p]) \in Nat
  BY <1>6, FS_CardinalityType
<1>9. Cardinality(D[m]) <= Size /\ Cardinality(D[p]) <= Size
  BY <1>2, <1>5, FS_Subset
<1> QED
  BY <1>1, <1>7, <1>8, <1>9, SizeAssumption DEF p

(* What is closed under children holds all that hangs: of what it misses,  *)
(* take the node with the most hanging at it; its parent is not missed.    *)
LEMMA ClosedReachesAll ==
  ASSUME NEW t, NEW N, NEW D, Hangs(t, N, D), NEW n \in N,
         NEW C, n \in C, Kids(t, C) \subseteq C
  PROVE  D[n] \subseteq C
<1> DEFINE Lost == {m \in D[n] : m \notin C}
           Short == {Size - Cardinality(D[m]) : m \in Lost}
<1> SUFFICES ASSUME Lost # {}
             PROVE  FALSE
  OBVIOUS
<1>1. ASSUME NEW m \in Lost
      PROVE  /\ t.parent[m] \in Lost
             /\ Cardinality(D[m]) < Cardinality(D[t.parent[m]])
             /\ Cardinality(D[m]) \in 0 .. Size
             /\ Cardinality(D[t.parent[m]]) \in 0 .. Size
  <2>1. m \in D[n] /\ m # n /\ m \notin C
    OBVIOUS
  <2>2. /\ t.parent[m] \in D[n] /\ t.parent[m] \in N
        /\ m \in {t.left[t.parent[m]], t.right[t.parent[m]]}
    BY <2>1, UpFacts
  <2>3. t.parent[m] \notin C
    BY <2>1, <2>2, HangsFacts DEF Kids
  <2> QED
    BY <2>1, <2>2, <2>3, ParentHoldsMore
<1>2. Short \subseteq Nat /\ Short # {}
  BY <1>1, SizeAssumption
<1>3. PICK d \in Short : \A e \in Short : d <= e
  <2> HIDE DEF Short
  <2> QED
    BY <1>2, LeastExists
<1>4. PICK m \in Lost : d = Size - Cardinality(D[m])
  BY <1>3
<1>5. Size - Cardinality(D[t.parent[m]]) \in Short
  BY <1>1
<1>6. d <= Size - Cardinality(D[t.parent[m]])
  BY <1>3, <1>5
<1> QED
  BY <1>1, <1>4, <1>6, SizeAssumption

(* From a node exactly what hangs at it is reached: every step of the walk *)
(* that finds nothing new has found all.                                   *)
LEMMA ReachedIsHung ==
  ASSUME NEW t, NEW N, NEW D, Hangs(t, N, D), NEW n \in N
  PROVE  Reached(t, n) = D[n]
<1>1. PICK f : IsWalk(t, n, f, Size) /\ Reached(t, n) = f[Size] \ {Null}
  BY ReachedByWalk
<1>2. /\ f[0] = {n}
      /\ \A i \in 0 .. Size : i # 0 => f[i] = f[i - 1] \cup Kids(t, f[i - 1])
  BY <1>1, SizeAssumption, WalkFacts
<1>3. D[n] \subseteq N /\ n \in D[n] /\ N \subseteq Places /\ Null \notin N
  BY HangsFacts, PlacesAreNumbers
<1>4. ASSUME NEW S, S \subseteq D[n] \cup {Null}
      PROVE  Kids(t, S) \subseteq D[n] \cup {Null}
  <2> SUFFICES ASSUME NEW p \in S \cap Places, NEW c \in {t.left[p], t.right[p]}, c # Null
               PROVE  c \in D[n]
    BY DEF Kids
  <2>1. p \in D[n] /\ p \in N
    BY <1>3, <1>4, PlacesAreNumbers
  <2>2. c \in N /\ c \in D[c]
    BY <2>1, HangsFacts
  <2>3. c \in D[p]
    BY <2>1, <2>2, SideFacts
  <2> QED
    BY <2>1, <2>3, UpFacts
<1>5. \A i \in 0 .. Size : f[i] \subseteq D[n] \cup {Null}
  <2> DEFINE B == {i \in 0 .. Size : ~(f[i] \subseteq D[n] \cup {Null})}
  <2> SUFFICES ASSUME B # {}
               PROVE  FALSE
    OBVIOUS
  <2>1. PICK i \in B : \A j \in B : i <= j
    <3>1. B \in SUBSET Nat
      BY SizeAssumption
    <3> QED
      BY <3>1, LeastExists
  <2>2. i # 0
    BY <1>2, <1>3
  <2>3. i - 1 \in 0 .. Size /\ ~(i <= i - 1) /\ i \in 0 .. Size
    BY <2>2, SizeAssumption
  <2>4. f[i - 1] \subseteq D[n] \cup {Null}
    BY <2>1, <2>3
  <2>5. f[i] \subseteq D[n] \cup {Null}
    BY <2>2, <2>3, <2>4, <1>2, <1>4
  <2> QED
    BY <2>5
<1> DEFINE S(i) == f[i] \ {Null}
<1>6. IsFiniteSet(Places) /\ Cardinality(Places) = Size
  BY SizeAssumption, FS_Interval DEF Places
<1>7. ASSUME NEW i \in 0 .. Size
      PROVE  S(i) \subseteq D[n] /\ IsFiniteSet(S(i)) /\ Cardinality(S(i)) \in Nat
             /\ Cardinality(S(i)) <= Size
  <2>1. S(i) \subseteq D[n] /\ S(i) \subseteq Places
    BY <1>3, <1>5
  <2> HIDE DEF S
  <2> QED
    BY <2>1, <1>6, FS_Subset, FS_CardinalityType
<1>8. \A i \in 0 .. Size : n \in f[i] /\ (S(i) = D[n] \/ i + 1 <= Cardinality(S(i)))
  <2> DEFINE P(i) == n \in f[i] /\ (S(i) = D[n] \/ i + 1 <= Cardinality(S(i)))
             B == {i \in 0 .. Size : ~P(i)}
  <2> SUFFICES ASSUME B # {}
               PROVE  FALSE
    OBVIOUS
  <2>1. PICK i \in B : \A j \in B : i <= j
    <3>1. B \in SUBSET Nat
      BY SizeAssumption
    <3> HIDE DEF B
    <3> QED
      BY <3>1, LeastExists
  <2>2. i # 0
    <3>1. S(0) = {n}
      BY <1>2, <1>3
    <3>2. Cardinality(S(0)) = 1
      BY <3>1, FS_Singleton
    <3>3. P(0)
      BY <1>2, <3>2
    <3> QED
      BY <3>3
  <2>3. i - 1 \in 0 .. Size /\ ~(i <= i - 1) /\ i \in 0 .. Size
    BY <2>2, SizeAssumption
  <2>4. P(i - 1)
    BY <2>1, <2>3
  <2>5. f[i] = f[i - 1] \cup Kids(t, f[i - 1])
    BY <2>2, <2>3, <1>2
  <2>6. n \in f[i] /\ S(i - 1) \subseteq S(i)
    BY <2>4, <2>5
  <2>7. CASE Kids(t, f[i - 1]) \subseteq f[i - 1] \cup {Null}
    <3> DEFINE C == f[i - 1] \cup {Null}
    <3>1. Kids(t, C) \subseteq C /\ n \in C
      BY <2>4, <2>7, PlacesAreNumbers DEF Kids
    <3>2. D[n] \subseteq C
      <4> HIDE DEF C
      <4> QED
        BY <3>1, ClosedReachesAll
    <3>3. D[n] \subseteq S(i)
      BY <3>2, <2>5, <1>3
    <3>4. S(i) = D[n]
      BY <3>3, <2>3, <1>7
    <3> QED
      BY <3>4, <2>6
  <2>8. CASE ~(Kids(t, f[i - 1]) \subseteq f[i - 1] \cup {Null})
    <3>1. PICK c : c \in Kids(t, f[i - 1]) /\ c \notin f[i - 1] /\ c # Null
      BY <2>8
    <3>2. c \in S(i) /\ c \notin S(i - 1)
      BY <3>1, <2>5
    <3>3. /\ IsFiniteSet(S(i)) /\ IsFiniteSet(S(i - 1)) /\ S(i) \subseteq D[n]
          /\ Cardinality(S(i)) \in Nat /\ Cardinality(S(i - 1)) \in Nat
      BY <2>3, <1>7
    <3>4. S(i - 1) # D[n]
      BY <3>2, <3>3
    <3>5. i <= Cardinality(S(i - 1))
      <4> HIDE DEF S
      <4> QED
        BY <3>4, <2>4, <2>3
    <3>6. Cardinality(S(i - 1)) < Cardinality(S(i))
      <4> HIDE DEF S
      <4> QED
        BY <3>2, <3>3, <2>6, FS_Subset, FS_CardinalityType
    <3>7. i + 1 <= Cardinality(S(i))
      <4> HIDE DEF S
      <4> QED
        BY <3>3, <3>5, <3>6, <2>3
    <3> QED
      BY <3>7, <2>6
  <2> QED
    BY <2>7, <2>8
<1>9. S(Size) = D[n]
  <2>1. Size \in 0 .. Size
    BY SizeAssumption
  <2>2. Cardinality(S(Size)) <= Size /\ Cardinality(S(Size)) \in Nat
    BY <2>1, <1>7
  <2>3. S(Size) = D[n] \/ Size + 1 <= Cardinality(S(Size))
    BY <2>1, <1>8
  <2> HIDE DEF S
  <2> QED
    BY <2>2, <2>3, SizeAssumption
<1> QED
  BY <1>1, <1>9

(* Nothing is reached from a null pointer.                                 *)
LEMMA ReachedFromNull ==
  ASSUME NEW t
  PROVE  Reached(t, Null) = {}
<1>1. PICK f : IsWalk(t, Null, f, Size) /\ Reached(t, Null) = f[Size] \ {Null}
  BY ReachedByWalk
<1>2. /\ f[0] = {Null}
      /\ \A i \in 0 .. Size : i # 0 => f[i] = f[i - 1] \cup Kids(t, f[i - 1])
  BY <1>1, SizeAssumption, WalkFacts
<1>3. \A i \in 0 .. Size : f[i] = {Null}
  <2> DEFINE B == {i \in 0 .. Size : f[i] # {Null}}
  <2> SUFFICES ASSUME B # {}
               PROVE  FALSE
    OBVIOUS
  <2>1. PICK i \in B : \A j \in B : i <= j
    <3>1. B \in SUBSET Nat
      BY SizeAssumption
    <3> QED
      BY <3>1, LeastExists
  <2>2. i # 0
    BY <1>2
  <2>3. i - 1 \in 0 .. Size /\ ~(i <= i - 1) /\ i \in 0 .. Size
    BY <2>2, SizeAssumption
  <2>4. f[i - 1] = {Null}
    BY <2>1, <2>3
  <2>5. Kids(t, {Null}) = {}
    BY PlacesAreNumbers DEF Kids
  <2> QED
    BY <2>2, <2>3, <2>4, <2>5, <1>2
<1> QED
  BY <1>1, <1>3, SizeAssumption

(* A tree in which D hangs is the search tree the property asks for.       *)
LEMMA HangsSearchTree ==
  ASSUME NEW t, NEW N, NEW D, Hangs(t, N, D)
  PROVE  IsSearchTree(t, N)
<1>1. Reached(t, t.root) = N
  <2>1. CASE N = {}
    BY <2>1, ReachedFromNull DEF Hangs, Rooted
  <2>2. CASE N # {}
    BY <2>2, HangsFacts, ReachedIsHung
  <2> QED
    BY <2>1, <2>2
<1>2. N \subseteq Places /\ (N # {} => t.parent[t.root] = Null)
  BY HangsFacts
<1>3. ASSUME NEW n \in N
      PROVE  /\ \A m \in Reached(t, t.left[n])  : m < n
             /\ \A m \in Reached(t, t.right[n]) : m > n
             /\ \A c \in {t.left[n], t.right[n]} \ {Null} : t.parent[c] = n
  <2>1. \A c \in {t.left[n], t.right[n]} \ {Null} : t.parent[c] = n
    BY ParentFacts
  <2>2. \A m \in Reached(t, t.left[n]) : m < n
    <3>1. CASE t.left[n] = Null
      BY <3>1, ReachedFromNull
    <3>2. CASE t.left[n] # Null
      <4>1. t.left[n] \in N /\ Reached(t, t.left[n]) = D[t.left[n]] /\ D[t.left[n]] \subseteq N
        BY <3>2, HangsFacts, ReachedIsHung
      <4> QED
        BY <3>2, <4>1, SideFacts
    <3> QED
      BY <3>1, <3>2
  <2>3. \A m \in Reached(t, t.right[n]) : m > n
    <3>1. CASE t.right[n] = Null
      BY <3>1, ReachedFromNull
    <3>2. CASE t.right[n] # Null
      <4>1. t.right[n] \in N /\ Reached(t, t.right[n]) = D[t.right[n]] /\ D[t.right[n]] \subseteq N
        BY <3>2, HangsFacts, ReachedIsHung
      <4>2. \A m \in D[t.right[n]] : n < m
        BY <3>2, <4>1, SideFacts
      <4>3. n \in Nat /\ \A m \in N : m \in Nat
        BY HangsFacts, PlacesAreNumbers
      <4> QED
        BY <4>1, <4>2, <4>3
    <3> QED
      BY <3>1, <3>2
  <2> QED
    BY <2>1, <2>2, <2>3
<1> QED
  BY <1>1, <1>2, <1>3 DEF IsSearchTree

-----------------------------------------------------------------------------
(* The calls in progress and the tree they find.                           *)

(* The slots of the calls in progress.                                     *)
Ats(w) == {w[i].at : i \in DOMAIN w}

\* The calls of one request add or remove, each for a slot of its own; the
\* outer ones wait among their virtual nodes.
CallsFit(elems, w) ==
  /\ \A i, j \in DOMAIN w : w[i].at = w[j].at => i = j
  /\ \A i \in DOMAIN w :
       /\ w[i].op = w[1].op
       /\ i # 1 => w[i].phase = "virtual"
       /\ elems[w[i].at].type = IF w[i].op = "add" THEN "server" ELSE "empty"

\* An added server is in the ring before it is in the tree, and a removed one
\* out of the ring before it is out of the tree.
NodesOf(elems, sh, w) ==
  IF w # << >> /\ Head(w).op = "add"
  THEN (ServersOf(elems) \cup sh) \ Ats(w)
  ELSE ServersOf(elems) \cup sh \cup Ats(w)

\* Where the walk of the innermost call stands.
WalkFits(t, N, D, f) ==
  f.phase = "tree" =>
    IF f.op = "add"
    THEN IF N = {} THEN f.cur = Null ELSE f.cur \in N /\ Fits(D, f.cur, f.at)
    ELSE IF HasPair(t, f.at) THEN Lessens(t, D, f.cur, f.at) ELSE f.cur = Null

(* The tree between two steps of the worker, its calls included.           *)
TreeFits(t, N, D, w) ==
  /\ Hangs(t, N, D)
  /\ w # << >> /\ Head(w).op = "add" => \A a \in Ats(w) : IsLeaf(t, a)
  /\ w # << >> => WalkFits(t, N, D, Head(w))

(* The calls in progress fit the array of the ring.                        *)
CallsSound == CallsFit(elements, work)

(* Until a pair is spliced wrongly, the tree is what the calls have built. *)
TreeSound ==
  status # "undefined" /\ ~torn =>
    \E D : TreeFits(tree, NodesOf(elements, shadowed, work), D, work)

(* The inductive invariant of the tree.                                    *)
TInv == IInv /\ CallsSound /\ TreeSound

(* Stacks of frames.                                                       *)
LEMMA StackFacts ==
  ASSUME NEW w \in Seq(Frames)
  PROVE  /\ \A i \in DOMAIN w : w[i] \in Frames /\ i \in Nat
         /\ w # << >> => /\ 1 \in DOMAIN w /\ Head(w) = w[1]
                         /\ Tail(w) \in Seq(Frames)
                         /\ \A i \in DOMAIN Tail(w) : i + 1 \in DOMAIN w /\ Tail(w)[i] = w[i + 1]
                         /\ \A i \in DOMAIN w : i # 1 => /\ i - 1 \in DOMAIN Tail(w)
                                                         /\ Tail(w)[i - 1] = w[i]
         /\ \A f \in Frames :
              LET g == <<f>> \o w
              IN  /\ g \in Seq(Frames) /\ g # << >> /\ Head(g) = f /\ Tail(g) = w /\ g[1] = f
                  /\ \A i \in DOMAIN g : i \in Nat /\ (i # 1 => i - 1 \in DOMAIN w /\ g[i] = w[i - 1])
                  /\ 1 \in DOMAIN g
                  /\ \A i \in DOMAIN w : i + 1 \in DOMAIN g /\ g[i + 1] = w[i]
<1> DEFINE S == Frames
<1> HIDE DEF S
<1>1. \A i \in DOMAIN w : w[i] \in S /\ i \in Nat
  BY DEF S
<1>2. ASSUME w # << >>
      PROVE  /\ 1 \in DOMAIN w /\ Head(w) = w[1] /\ Tail(w) \in Seq(S)
             /\ \A i \in DOMAIN Tail(w) : i + 1 \in DOMAIN w /\ Tail(w)[i] = w[i + 1]
             /\ \A i \in DOMAIN w : i # 1 => /\ i - 1 \in DOMAIN Tail(w)
                                             /\ Tail(w)[i - 1] = w[i]
  <2>1. w \in Seq(S) /\ Len(w) \in Nat /\ DOMAIN w = 1 .. Len(w) /\ Len(w) # 0
    BY <1>2 DEF S
  <2>2. /\ Tail(w) \in Seq(S) /\ Len(Tail(w)) = Len(w) - 1
        /\ DOMAIN Tail(w) = 1 .. Len(w) - 1
        /\ \A i \in 1 .. Len(w) - 1 : Tail(w)[i] = w[i + 1]
    BY <1>2, <2>1
  <2> QED
    BY <1>2, <2>1, <2>2
<1>3. ASSUME NEW f \in S
      PROVE  LET g == <<f>> \o w
             IN  /\ g \in Seq(S) /\ g # << >> /\ Head(g) = f /\ Tail(g) = w /\ g[1] = f
                 /\ \A i \in DOMAIN g : i \in Nat /\ (i # 1 => i - 1 \in DOMAIN w /\ g[i] = w[i - 1])
                 /\ 1 \in DOMAIN g
                 /\ \A i \in DOMAIN w : i + 1 \in DOMAIN g /\ g[i + 1] = w[i]
  <2> DEFINE g == <<f>> \o w
  <2>1. w \in Seq(S) /\ Len(w) \in Nat /\ DOMAIN w = 1 .. Len(w)
    BY DEF S
  <2>2. /\ g \in Seq(S) /\ Len(g) = Len(w) + 1 /\ DOMAIN g = 1 .. Len(w) + 1
        /\ g[1] = f /\ \A i \in 1 .. Len(w) : g[i + 1] = w[i]
    BY <2>1
  <2>3. Tail(g) = w /\ Head(g) = f /\ g # << >>
    BY <2>1
  <2> HIDE DEF g
  <2>4. \A i \in DOMAIN g : i \in Nat /\ (i # 1 => i - 1 \in DOMAIN w /\ g[i] = w[i - 1])
    <3> SUFFICES ASSUME NEW i \in DOMAIN g, i # 1
                 PROVE  i - 1 \in DOMAIN w /\ g[i] = w[i - 1]
      BY <2>1, <2>2
    <3>1. i - 1 \in 1 .. Len(w) /\ (i - 1) + 1 = i
      BY <2>1, <2>2
    <3> QED
      BY <3>1, <2>1, <2>2
  <2> QED
    BY <2>1, <2>2, <2>3, <2>4 DEF g
<1> QED
  BY <1>1, <1>2, <1>3 DEF S

(* A call is pushed on a stack of calls, and popped from one.              *)
LEMMA AtsPushed ==
  ASSUME NEW w \in Seq(Frames), NEW f \in Frames
  PROVE  Ats(<<f>> \o w) = Ats(w) \cup {f.at}
<1> DEFINE g == <<f>> \o w
<1>1. /\ g[1] = f /\ 1 \in DOMAIN g
      /\ \A i \in DOMAIN g : i \in Nat /\ (i # 1 => i - 1 \in DOMAIN w /\ g[i] = w[i - 1])
      /\ \A i \in DOMAIN w : i + 1 \in DOMAIN g /\ g[i + 1] = w[i]
  BY StackFacts
<1> HIDE DEF g
<1>2. Ats(g) \subseteq Ats(w) \cup {f.at}
  BY <1>1 DEF Ats
<1>3. Ats(w) \cup {f.at} \subseteq Ats(g)
  BY <1>1 DEF Ats
<1> QED
  BY <1>2, <1>3 DEF g

LEMMA CallsPushed ==
  ASSUME NEW w \in Seq(Frames), NEW elems, NEW after, NEW f \in Frames,
         CallsFit(elems, w), f.at \notin Ats(w),
         w # << >> => Head(w).op = f.op /\ Head(w).phase = "virtual",
         after[f.at].type = IF f.op = "add" THEN "server" ELSE "empty",
         \A s \in Slots \ {f.at} : after[s].type = elems[s].type
  PROVE  CallsFit(after, <<f>> \o w)
<1> DEFINE g == <<f>> \o w
<1>1. /\ g[1] = f /\ 1 \in DOMAIN g
      /\ \A i \in DOMAIN g : i \in Nat /\ (i # 1 => i - 1 \in DOMAIN w /\ g[i] = w[i - 1])
      /\ \A i \in DOMAIN w : /\ i + 1 \in DOMAIN g /\ g[i + 1] = w[i]
                            /\ w[i] \in Frames /\ i \in Nat
  BY StackFacts
<1>2. w # << >> => 1 \in DOMAIN w /\ Head(w) = w[1]
  BY StackFacts
<1>3. \A i \in DOMAIN w : w # << >> /\ w[i].at # f.at /\ w[i].at \in Slots /\ w[i].at \in Ats(w)
  BY <1>1, PointerFacts DEF Ats, Frames
<1> HIDE DEF g
<1>5. ASSUME NEW i \in DOMAIN g, NEW j \in DOMAIN g, g[i].at = g[j].at
      PROVE  i = j
  <2>1. CASE i = 1 \/ j = 1
    BY <2>1, <1>1, <1>3, <1>5
  <2>2. CASE i # 1 /\ j # 1
    <3>1. i - 1 = j - 1
      BY <2>2, <1>1, <1>5 DEF CallsFit
    <3> QED
      BY <3>1, <1>1
  <2> QED
    BY <2>1, <2>2
<1>6. ASSUME NEW i \in DOMAIN g
      PROVE  /\ g[i].op = g[1].op
             /\ i # 1 => g[i].phase = "virtual"
             /\ after[g[i].at].type = IF g[i].op = "add" THEN "server" ELSE "empty"
  <2>1. CASE i = 1
    BY <2>1, <1>1
  <2>2. CASE i # 1
    <3> DEFINE j == i - 1
    <3>1. j \in DOMAIN w /\ g[i] = w[j]
      BY <2>2, <1>1
    <3> HIDE DEF j
    <3>2. /\ w[j].op = w[1].op /\ (j # 1 => w[j].phase = "virtual")
          /\ elems[w[j].at].type = IF w[j].op = "add" THEN "server" ELSE "empty"
      BY <3>1 DEF CallsFit
    <3>3. w[1].op = f.op /\ w[1].phase = "virtual"
      BY <3>1, <1>2, <1>3
    <3>4. after[w[j].at].type = elems[w[j].at].type
      BY <3>1, <1>3
    <3> QED
      BY <2>2, <3>1, <3>2, <3>3, <3>4, <1>1
  <2> QED
    BY <2>1, <2>2
<1>7. CallsFit(after, g)
  BY <1>5, <1>6 DEF CallsFit
<1> QED
  BY <1>7 DEF g

LEMMA Popped ==
  ASSUME NEW w \in Seq(Frames), NEW elems, w # << >>, CallsFit(elems, w)
  PROVE  /\ CallsFit(elems, Tail(w))
         /\ Ats(w) = Ats(Tail(w)) \cup {Head(w).at} /\ Head(w).at \notin Ats(Tail(w))
         /\ Tail(w) # << >> => /\ Head(Tail(w)).op = Head(w).op
                               /\ Head(Tail(w)).phase = "virtual"
<1> DEFINE v == Tail(w)
<1>1. /\ v \in Seq(Frames) /\ 1 \in DOMAIN w /\ Head(w) = w[1]
      /\ \A i \in DOMAIN v : i + 1 \in DOMAIN w /\ v[i] = w[i + 1] /\ i \in Nat
      /\ \A i \in DOMAIN w : i \in Nat /\ (i # 1 => i - 1 \in DOMAIN v /\ v[i - 1] = w[i])
      /\ v # << >> => 1 \in DOMAIN v /\ Head(v) = v[1]
  BY StackFacts
<1> HIDE DEF v
<1>2. 0 \notin DOMAIN v
  BY <1>1
<1>3. Ats(w) = Ats(v) \cup {Head(w).at}
  <2>1. Ats(w) \subseteq Ats(v) \cup {Head(w).at}
    <3> SUFFICES ASSUME NEW i \in DOMAIN w
                 PROVE  w[i].at \in Ats(v) \cup {Head(w).at}
      BY DEF Ats
    <3>1. CASE i = 1
      BY <3>1, <1>1
    <3>2. CASE i # 1
      <4>1. i - 1 \in DOMAIN v /\ v[i - 1].at = w[i].at
        BY <3>2, <1>1
      <4> QED
        BY <4>1 DEF Ats
    <3> QED
      BY <3>1, <3>2
  <2>2. Ats(v) \cup {Head(w).at} \subseteq Ats(w)
    BY <1>1 DEF Ats
  <2> QED
    BY <2>1, <2>2
<1>4. \A i \in DOMAIN v : v[i].at # w[1].at
  BY <1>1, <1>2 DEF CallsFit
<1>5. \A i \in DOMAIN v : /\ v[i].op = w[1].op /\ v[i].phase = "virtual"
                          /\ elems[v[i].at].type = IF v[i].op = "add" THEN "server" ELSE "empty"
  BY <1>1, <1>2 DEF CallsFit
<1>6. CallsFit(elems, v)
  <2>1. ASSUME NEW i \in DOMAIN v, NEW j \in DOMAIN v, v[i].at = v[j].at
        PROVE  i = j
    <3>1. /\ i + 1 \in DOMAIN w /\ j + 1 \in DOMAIN w /\ i \in Nat /\ j \in Nat
          /\ w[i + 1].at = w[j + 1].at
      BY <2>1, <1>1
    <3>2. i + 1 = j + 1
      BY <3>1 DEF CallsFit
    <3> QED
      BY <3>1, <3>2
  <2>2. \A i \in DOMAIN v : v[i].op = v[1].op
    <3>1. ASSUME NEW i \in DOMAIN v
          PROVE  1 \in DOMAIN v
      BY <1>1
    <3> QED
      BY <3>1, <1>5
  <2> QED
    BY <2>1, <2>2, <1>5 DEF CallsFit
<1>7. Head(w).at \notin Ats(v)
  BY <1>1, <1>4 DEF Ats
<1>8. v # << >> => Head(v).op = Head(w).op /\ Head(v).phase = "virtual"
  BY <1>1, <1>5
<1> QED
  BY <1>3, <1>6, <1>7, <1>8 DEF v

(* Only the call on top changes, and neither what it does nor for which    *)
(* slot.                                                                   *)
LEMMA Moved ==
  ASSUME NEW w \in Seq(Frames), NEW elems, w # << >>, CallsFit(elems, w),
         NEW f \in Frames, f.op = Head(w).op, f.at = Head(w).at
  PROVE  /\ CallsFit(elems, <<f>> \o Tail(w)) /\ Ats(<<f>> \o Tail(w)) = Ats(w)
         /\ <<f>> \o Tail(w) \in Seq(Frames) /\ <<f>> \o Tail(w) # << >>
         /\ Head(<<f>> \o Tail(w)) = f
<1> DEFINE v == Tail(w)
<1>1. v \in Seq(Frames) /\ 1 \in DOMAIN w /\ Head(w) = w[1]
  BY StackFacts
<1>2. elems[f.at].type = IF f.op = "add" THEN "server" ELSE "empty"
  BY <1>1 DEF CallsFit
<1>3. /\ CallsFit(elems, v) /\ Ats(w) = Ats(v) \cup {f.at} /\ f.at \notin Ats(v)
      /\ v # << >> => Head(v).op = f.op /\ Head(v).phase = "virtual"
  BY Popped
<1> HIDE DEF v
<1>4. CallsFit(elems, <<f>> \o v) /\ Ats(<<f>> \o v) = Ats(v) \cup {f.at}
  BY <1>1, <1>2, <1>3, CallsPushed, AtsPushed
<1>5. <<f>> \o v \in Seq(Frames) /\ <<f>> \o v # << >> /\ Head(<<f>> \o v) = f
  BY <1>1, StackFacts
<1> QED
  BY <1>3, <1>4, <1>5 DEF v

(* What is to be in the tree, by what the calls in progress do.            *)
LEMMA NodesFacts ==
  ASSUME NEW elems, NEW sh, NEW w \in Seq(Frames)
  PROVE  /\ w = << >> => NodesOf(elems, sh, w) = ServersOf(elems) \cup sh
         /\ (w # << >> => Head(w).op = "add")
              => NodesOf(elems, sh, w) = (ServersOf(elems) \cup sh) \ Ats(w)
         /\ (w # << >> => Head(w).op = "del")
              => NodesOf(elems, sh, w) = ServersOf(elems) \cup sh \cup Ats(w)
<1>1. Ats(<< >>) = {}
  BY DEF Ats
<1> QED
  BY <1>1 DEF NodesOf

LEMMA SlotsOfCalls ==
  ASSUME NEW w \in Seq(Frames), NEW elems, CallsFit(elems, w)
  PROVE  /\ Ats(w) \subseteq Places
         /\ w # << >> => /\ Head(w).at \in Ats(w) /\ Head(w).at \in Places
                         /\ Head(w).op \in {"add", "del"}
         /\ \A a \in Ats(w) : elems[a].type = IF Head(w).op = "add" THEN "server" ELSE "empty"
<1>1. /\ \A i \in DOMAIN w : w[i] \in Frames
      /\ w # << >> => 1 \in DOMAIN w /\ Head(w) = w[1]
  BY StackFacts
<1>2. Ats(w) \subseteq Places
  BY <1>1 DEF Ats, Frames
<1>3. w # << >> => /\ Head(w).at \in Ats(w) /\ Head(w).at \in Places
                   /\ Head(w).op \in {"add", "del"}
  BY <1>1 DEF Ats, Frames
<1>4. ASSUME NEW i \in DOMAIN w
      PROVE  elems[w[i].at].type = IF Head(w).op = "add" THEN "server" ELSE "empty"
  <2>1. w # << >>
    OBVIOUS
  <2>2. w[i].op = w[1].op /\ elems[w[i].at].type = IF w[i].op = "add" THEN "server" ELSE "empty"
    BY DEF CallsFit
  <2> QED
    BY <2>1, <2>2, <1>1
<1> QED
  BY <1>2, <1>3, <1>4 DEF Ats

(* A server enters the ring: the tree does not hold it yet.                *)
LEMMA EnterAddTree ==
  ASSUME IInv, status = "ok", UNCHANGED shadowed, NEW name \in Names, NEW port \in Ports,
         NEW weight \in 0 .. MaxWeight, NEW below \in Seq(Frames),
         EnterAdd(name, port, weight, below), CallsFit(elements, below),
         below # << >> => Head(below).op = "add" /\ Head(below).phase = "virtual",
         NEW D, TreeFits(tree, NodesOf(elements, shadowed, below), D, below)
  PROVE  TreeFits(tree', NodesOf(elements', shadowed', work'), D, work')
<1> DEFINE h == SlotOf(name, port)
           N == NodesOf(elements, shadowed, below)
<1>1. h \in Places /\ h \in Slots
  BY SlotOfType, PointerFacts DEF IInv, TypeOK
<1>2. CASE elements[h].type # "empty"
  BY <1>2 DEF EnterAdd, ring
<1>3. CASE elements[h].type = "empty"
  <2>1. PICK virtual \in Uninit :
          LET e == Server(name, port, weight, virtual)
          IN  /\ elements' = [elements EXCEPT ![h] = e]
              /\ work' = <<Frame("add", h, e)>> \o below
    BY <1>3 DEF EnterAdd
  <2> DEFINE e == Server(name, port, weight, virtual)
             f == Frame("add", h, e)
  <2>2. tree' = Allocated(tree, h) /\ tree \in Trees
    BY <1>3 DEF EnterAdd, IInv, TypeOK, RingTypeOK
  <2>3. e \in ServerElements /\ e.type = "server"
    BY RingAssumption, PointerFacts DEF Server, ServerElements, Slots
  <2> HIDE DEF e, h
  <2>4. f \in Frames /\ f.at = h /\ f.op = "add" /\ f.phase = "virtual"
    BY <1>1, <2>3, NewFrame DEF Frame
  <2> HIDE DEF f
  <2>5. work' = <<f>> \o below /\ elements' = [elements EXCEPT ![h] = e]
    BY <2>1 DEF f, e
  <2>6. elements \in [Slots -> Elements] /\ h \notin shadowed
    BY <1>1, <1>3, CountsNow DEF Counts, KeysOf
  <2>7. h \notin Ats(below) /\ \A a \in Ats(below) : a \in Places /\ a # h
    <3>1. \A a \in Ats(below) : a \in Places /\ below # << >>
      BY SlotsOfCalls DEF Ats
    <3>2. \A a \in Ats(below) : elements[a].type = "server"
      BY <3>1, SlotsOfCalls
    <3> QED
      BY <3>1, <3>2, <1>3
  <2>8. \A s \in Slots : elements'[s].type = IF s = h THEN "server" ELSE elements[s].type
    BY <2>3, <2>5, <2>6
  <2>9. /\ Ats(work') = Ats(below) \cup {h}
        /\ work' \in Seq(Frames) /\ work' # << >> /\ Head(work') = f
    BY <2>4, <2>5, AtsPushed, StackFacts
  <2>10. N = (ServersOf(elements) \cup shadowed) \ Ats(below)
    BY NodesFacts
  <2>11. NodesOf(elements', shadowed', work') = N
    <3>1. ServersOf(elements') = ServersOf(elements) \cup {h} /\ h \notin ServersOf(elements)
      BY <1>1, <1>3, <2>8 DEF ServersOf
    <3>2. NodesOf(elements', shadowed', work')
            = (ServersOf(elements') \cup shadowed') \ Ats(work')
      BY <2>4, <2>9, NodesFacts
    <3> HIDE DEF N
    <3> QED
      BY <3>1, <3>2, <2>6, <2>9, <2>10
  <2>12. h \notin N
    BY <1>3, <2>6, <2>10 DEF ServersOf
  <2> HIDE DEF N
  <2>13. Hangs(tree', N, D)
    BY <1>1, <2>2, <2>12, AllocatedHangs DEF TreeFits, N
  <2>14. \A a \in Ats(work') : IsLeaf(tree', a)
    <3>1. IsLeaf(tree', h)
      BY <1>1, <2>2 DEF Allocated, IsLeaf, Trees
    <3>2. \A a \in Ats(below) : IsLeaf(tree, a)
      BY <2>7 DEF TreeFits, Ats
    <3>3. \A a \in Ats(below) : IsLeaf(tree', a)
      BY <1>1, <2>2, <2>7, <3>2 DEF Allocated, IsLeaf, Trees
    <3> QED
      BY <2>9, <3>1, <3>3
  <2>15. WalkFits(tree', N, D, Head(work'))
    BY <2>4, <2>9 DEF WalkFits
  <2> QED
    BY <2>11, <2>13, <2>14, <2>15 DEF TreeFits
<1> QED
  BY <1>2, <1>3

(* hashring_add claims a free slot before it calls itself or bst_insert.   *)
LEMMA EnterAddCalls ==
  ASSUME IInv, status = "ok", NEW name \in Names, NEW port \in Ports,
         NEW weight \in 0 .. MaxWeight, NEW below \in Seq(Frames),
         EnterAdd(name, port, weight, below), CallsFit(elements, below),
         below # << >> => Head(below).op = "add" /\ Head(below).phase = "virtual"
  PROVE  CallsFit(elements', work')
<1> DEFINE h == SlotOf(name, port)
<1>1. h \in Places /\ h \in Slots
  BY SlotOfType, PointerFacts DEF IInv, TypeOK
<1>2. CASE elements[h].type # "empty"
  BY <1>2 DEF EnterAdd, ring
<1>3. CASE elements[h].type = "empty"
  <2>1. PICK virtual \in Uninit :
          LET e == Server(name, port, weight, virtual)
          IN  /\ elements' = [elements EXCEPT ![h] = e]
              /\ work' = <<Frame("add", h, e)>> \o below
    BY <1>3 DEF EnterAdd
  <2> DEFINE e == Server(name, port, weight, virtual)
             f == Frame("add", h, e)
  <2>2. e \in ServerElements /\ e.type = "server"
    BY RingAssumption, PointerFacts DEF Server, ServerElements, Slots
  <2> HIDE DEF e, h
  <2>3. f \in Frames /\ f.at = h /\ f.op = "add"
    BY <1>1, <2>2, NewFrame DEF Frame
  <2> HIDE DEF f
  <2>4. work' = <<f>> \o below /\ elements' = [elements EXCEPT ![h] = e]
    BY <2>1 DEF f, e
  <2>5. \A s \in Slots : elements'[s].type = IF s = h THEN "server" ELSE elements[s].type
    BY <2>2, <2>4, CountsNow
  <2>6. h \notin Ats(below)
    <3>1. \A a \in Ats(below) : below # << >>
      BY DEF Ats
    <3>2. \A a \in Ats(below) : elements[a].type = "server"
      BY <3>1, SlotsOfCalls
    <3> QED
      BY <3>2, <1>3
  <2>7. /\ elements'[f.at].type = IF f.op = "add" THEN "server" ELSE "empty"
        /\ \A s \in Slots \ {f.at} : elements'[s].type = elements[s].type
    BY <1>1, <2>3, <2>5
  <2>8. CallsFit(elements', <<f>> \o below)
    BY <2>3, <2>6, <2>7, CallsPushed
  <2> QED
    BY <2>4, <2>8
<1> QED
  BY <1>2, <1>3

(* A server leaves the ring: the tree still holds it.                      *)
LEMMA EnterRemoveTree ==
  ASSUME IInv, status = "ok", UNCHANGED shadowed, NEW name \in Names, NEW port \in Ports,
         NEW below \in Seq(Frames), EnterRemove(name, port, below), CallsFit(elements, below),
         below # << >> => Head(below).op = "del" /\ Head(below).phase = "virtual"
  PROVE  /\ CallsFit(elements', work')
         /\ \A D : TreeFits(tree, NodesOf(elements, shadowed, below), D, below)
                   => TreeFits(tree', NodesOf(elements', shadowed', work'), D, work')
<1> DEFINE h == SlotOf(name, port)
           N == NodesOf(elements, shadowed, below)
           f == Frame("del", h, elements[h])
<1>1. h \in Places /\ h \in Slots
  BY SlotOfType, PointerFacts DEF IInv, TypeOK
<1>2. CASE elements[h].type # "server"
  BY <1>2 DEF EnterRemove, ring
<1>3. CASE elements[h].type = "server"
  <2>1. /\ elements' = [elements EXCEPT ![h] = Empty]
        /\ work' = <<f>> \o below /\ tree' = tree
    BY <1>3 DEF EnterRemove
  <2> HIDE DEF h
  <2>2. elements \in [Slots -> Elements] /\ elements[h] \in ServerElements
    BY <1>1, <1>3, CountsNow, ElementKinds
  <2>3. f \in Frames /\ f.at = h /\ f.op = "del" /\ f.phase = "virtual"
    BY <1>1, <2>2, NewFrame DEF Frame
  <2> HIDE DEF f
  <2>4. h \notin Ats(below)
    <3>1. \A a \in Ats(below) : below # << >>
      BY DEF Ats
    <3>2. \A a \in Ats(below) : elements[a].type = "empty"
      BY <3>1, SlotsOfCalls
    <3> QED
      BY <3>2, <1>3
  <2>5. \A s \in Slots : elements'[s].type = IF s = h THEN "empty" ELSE elements[s].type
    BY <2>1, <2>2, ElementKinds
  <2>6. CallsFit(elements', work')
    <3>1. /\ elements'[f.at].type = IF f.op = "add" THEN "server" ELSE "empty"
          /\ \A s \in Slots \ {f.at} : elements'[s].type = elements[s].type
      BY <1>1, <2>3, <2>5
    <3>2. CallsFit(elements', <<f>> \o below)
      BY <2>3, <2>4, <3>1, CallsPushed
    <3> QED
      BY <2>1, <3>2
  <2>7. /\ Ats(work') = Ats(below) \cup {h}
        /\ work' \in Seq(Frames) /\ work' # << >> /\ Head(work') = f
    BY <2>1, <2>3, AtsPushed, StackFacts
  <2>8. NodesOf(elements', shadowed', work') = N
    <3>1. ServersOf(elements') = ServersOf(elements) \ {h} /\ h \in ServersOf(elements)
      BY <1>1, <1>3, <2>5 DEF ServersOf
    <3>2. NodesOf(elements', shadowed', work')
            = ServersOf(elements') \cup shadowed' \cup Ats(work')
      BY <2>3, <2>7, NodesFacts
    <3>3. N = ServersOf(elements) \cup shadowed \cup Ats(below)
      BY NodesFacts
    <3> HIDE DEF N
    <3> QED
      BY <3>1, <3>2, <3>3, <2>7
  <2> HIDE DEF N
  <2>9. ASSUME NEW D, TreeFits(tree, N, D, below)
        PROVE  TreeFits(tree', N, D, work')
    BY <2>1, <2>3, <2>7, <2>9 DEF TreeFits, WalkFits
  <2> QED
    BY <2>6, <2>8, <2>9 DEF N
<1> QED
  BY <1>2, <1>3

-----------------------------------------------------------------------------
(* Each action keeps the tree.                                             *)

(* The innermost call and those below it.                                  *)
LEMMA WorkFacts ==
  ASSUME TInv, work # << >>
  PROVE  /\ work \in Seq(Frames) /\ Top \in Frames /\ Below \in Seq(Frames)
         /\ CallsFit(elements, work) /\ Top.at \in Ats(work)
         /\ Top = Head(work) /\ Below = Tail(work)
         /\ tree \in Trees
BY TopFrame, SlotsOfCalls DEF TInv, CallsSound, IInv, TypeOK, RingTypeOK, WorkTypeOK, Top, Below

LEMMA BelowFits ==
  ASSUME TInv, work # << >>
  PROVE  /\ CallsFit(elements, Below) /\ Below \in Seq(Frames)
         /\ Ats(work) = Ats(Below) \cup {Top.at} /\ Top.at \notin Ats(Below)
         /\ Below # << >> => Head(Below).op = Top.op /\ Head(Below).phase = "virtual"
         /\ Top.at \in Places /\ Top.cur \in Pointers
<1>1. work \in Seq(Frames) /\ CallsFit(elements, work)
  BY WorkFacts
<1>2. /\ CallsFit(elements, Tail(work))
      /\ Ats(work) = Ats(Tail(work)) \cup {Head(work).at} /\ Head(work).at \notin Ats(Tail(work))
      /\ Tail(work) # << >> => /\ Head(Tail(work)).op = Head(work).op
                               /\ Head(Tail(work)).phase = "virtual"
  BY <1>1, Popped
<1>3. Top = Head(work) /\ Below = Tail(work) /\ Top \in Frames /\ Below \in Seq(Frames)
  BY WorkFacts
<1>4. Top.at \in Places /\ Top.cur \in Pointers
  BY <1>3 DEF Frames
<1> QED
  BY <1>2, <1>3, <1>4

(* The call on top moves: the same nodes, and only its walk to look at.    *)
LEMMA MovedTree ==
  ASSUME TInv, status = "ok", work # << >>, NEW f \in Frames, f.op = Top.op, f.at = Top.at,
         work' = <<f>> \o Below, UNCHANGED <<elements, tree, shadowed, torn>>,
         ~torn => \A D : TreeFits(tree, NodesOf(elements, shadowed, work), D, work)
                           => WalkFits(tree, NodesOf(elements, shadowed, work), D, f)
  PROVE  CallsSound' /\ TreeSound'
<1>1. /\ CallsFit(elements, work') /\ Ats(work') = Ats(work)
      /\ work' # << >> /\ Head(work') = f
  <2>1. f.op = Head(work).op /\ f.at = Head(work).at /\ work' = <<f>> \o Tail(work)
    BY WorkFacts
  <2> QED
    BY <2>1, WorkFacts, Moved
<1>2. CallsSound'
  BY <1>1 DEF CallsSound
<1>3. NodesOf(elements', shadowed', work') = NodesOf(elements, shadowed, work)
  BY <1>1 DEF NodesOf, Top
<1>4. ASSUME ~torn
      PROVE  \E D : TreeFits(tree', NodesOf(elements', shadowed', work'), D, work')
  <2> DEFINE N == NodesOf(elements, shadowed, work)
  <2>1. PICK D : TreeFits(tree, N, D, work)
    BY <1>4 DEF TInv, TreeSound
  <2>2. WalkFits(tree, N, D, f)
    BY <1>4, <2>1
  <2> HIDE DEF N
  <2>3. TreeFits(tree, N, D, work')
    BY <2>1, <2>2, <1>1 DEF TreeFits, Top
  <2> QED
    BY <2>3, <1>3 DEF N
<1>5. TreeSound'
  BY <1>4 DEF TreeSound
<1> QED
  BY <1>2, <1>5

(* One lemma for each step of the worker.                                  *)
LEMMA BeginInsertTree ==
  ASSUME TInv, BeginInsert
  PROVE  CallsSound' /\ TreeSound'
<1> DEFINE f == [Top EXCEPT !.phase = "tree", !.cur = tree.root]
           N == NodesOf(elements, shadowed, work)
<1>1. /\ status = "ok" /\ work # << >> /\ Top.op = "add" /\ work' = <<f>> \o Below
      /\ UNCHANGED <<elements, tree, shadowed, torn>>
  BY DEF BeginInsert, In, ring, history
<1>2. /\ f \in Frames /\ f.op = Top.op /\ f.at = Top.at
      /\ f.phase = "tree" /\ f.cur = tree.root
  BY <1>1, WorkFacts DEF Frames, Trees
<1> HIDE DEF f
<1>3. ASSUME NEW D, TreeFits(tree, N, D, work)
      PROVE  WalkFits(tree, N, D, f)
  <2>1. Hangs(tree, N, D)
    BY <1>3 DEF TreeFits
  <2> HIDE DEF N
  <2>2. N = {} => tree.root = Null
    BY <2>1 DEF Hangs, Rooted
  <2>3. N # {} => tree.root \in N /\ Fits(D, tree.root, f.at)
    BY <2>1, HangsFacts, FitsAtRoot
  <2> QED
    BY <2>2, <2>3, <1>1, <1>2 DEF WalkFits
<1> QED
  BY <1>1, <1>2, <1>3, MovedTree

LEMMA InsertStepTree ==
  ASSUME TInv, InsertStep
  PROVE  CallsSound' /\ TreeSound'
<1> DEFINE c == Child(tree, Top.cur, Top.at)
           f == [Top EXCEPT !.cur = c]
           N == NodesOf(elements, shadowed, work)
<1>1. /\ status = "ok" /\ work # << >> /\ Top.op = "add" /\ Top.phase = "tree"
      /\ Top.cur \in Places /\ ~Landed /\ work' = <<f>> \o Below
      /\ UNCHANGED <<elements, tree, shadowed, torn>>
  BY DEF InsertStep, In, ring, history
<1>2. /\ f \in Frames /\ f.op = Top.op /\ f.at = Top.at
      /\ f.phase = "tree" /\ f.cur = c
  BY <1>1, WorkFacts DEF Frames, Trees, Child
<1> HIDE DEF f
<1>3. ASSUME NEW D, TreeFits(tree, N, D, work)
      PROVE  WalkFits(tree, N, D, f)
  <2>1. Hangs(tree, N, D) /\ WalkFits(tree, N, D, Top)
    BY <1>1, <1>3 DEF TreeFits, Top
  <2>2. Top.cur # Top.at /\ c # Null /\ Top.cur # Null /\ Top.at \in Places
    BY <1>1, WorkFacts, TopFrame DEF Landed, TInv
  <2> HIDE DEF N, c
  <2>3. N # {} /\ Top.cur \in N /\ Fits(D, Top.cur, Top.at)
    BY <2>1, <2>2, <1>1 DEF WalkFits
  <2>4. c \in N /\ Fits(D, c, Top.at)
    BY <2>1, <2>2, <2>3, FitsBelow DEF c
  <2> QED
    BY <2>3, <2>4, <1>1, <1>2 DEF WalkFits
<1> QED
  BY <1>1, <1>2, <1>3, MovedTree

LEMMA BeginRemoveTree ==
  ASSUME TInv, BeginRemove
  PROVE  CallsSound' /\ TreeSound'
<1> DEFINE c == IF HasPair(tree, Top.at) THEN tree.right[Top.at] ELSE Null
           f == [Top EXCEPT !.phase = "tree", !.cur = c]
           N == NodesOf(elements, shadowed, work)
<1>1. /\ status = "ok" /\ work # << >> /\ Top.op = "del" /\ work' = <<f>> \o Below
      /\ UNCHANGED <<elements, tree, shadowed, torn>>
  BY DEF BeginRemove, In, ring, history
<1>2. /\ f \in Frames /\ f.op = Top.op /\ f.at = Top.at
      /\ f.phase = "tree" /\ f.cur = c
  BY <1>1, WorkFacts, PointerFacts DEF Frames, Trees
<1> HIDE DEF f
<1>3. ASSUME NEW D, TreeFits(tree, N, D, work)
      PROVE  WalkFits(tree, N, D, f)
  <2>1. Hangs(tree, N, D)
    BY <1>3 DEF TreeFits
  <2>2. Top.at \in N
    BY <1>1, WorkFacts DEF NodesOf
  <2>3. IF HasPair(tree, Top.at) THEN Lessens(tree, D, c, Top.at) ELSE c = Null
    BY <2>1, <2>2, LessensFirst DEF HasPair
  <2> QED
    BY <2>3, <1>1, <1>2 DEF WalkFits
<1> QED
  BY <1>1, <1>2, <1>3, MovedTree

LEMMA FindMinStepTree ==
  ASSUME TInv, FindMinStep
  PROVE  CallsSound' /\ TreeSound'
<1> DEFINE c == tree.left[Top.cur]
           f == [Top EXCEPT !.cur = c]
           N == NodesOf(elements, shadowed, work)
<1>1. /\ status = "ok" /\ work # << >> /\ Top.op = "del" /\ Top.phase = "tree"
      /\ Top.cur \in Places /\ c # Null /\ work' = <<f>> \o Below
      /\ UNCHANGED <<elements, tree, shadowed, torn>>
  BY DEF FindMinStep, In, Least, ring, history
<1>2. /\ f \in Frames /\ f.op = Top.op /\ f.at = Top.at
      /\ f.phase = "tree" /\ f.cur = c
  BY <1>1, WorkFacts DEF Frames, Trees
<1> HIDE DEF f
<1>3. ASSUME NEW D, TreeFits(tree, N, D, work)
      PROVE  WalkFits(tree, N, D, f)
  <2>1. Hangs(tree, N, D) /\ WalkFits(tree, N, D, Top)
    BY <1>1, <1>3 DEF TreeFits, Top
  <2>2. Top.at \in N
    BY <1>1, WorkFacts DEF NodesOf
  <2> HIDE DEF N
  <2>3. HasPair(tree, Top.at) /\ Lessens(tree, D, Top.cur, Top.at)
    BY <2>1, <1>1, PlacesAreNumbers DEF WalkFits
  <2>4. Lessens(tree, D, c, Top.at)
    BY <2>1, <2>2, <2>3, <1>1, LessensNext DEF HasPair
  <2> QED
    BY <2>3, <2>4, <1>1, <1>2 DEF WalkFits
<1> QED
  BY <1>1, <1>2, <1>3, MovedTree

(* A call that counts its next virtual node waits as before.               *)
LEMMA CountedFits ==
  ASSUME TInv, work # << >>, Top.phase = "virtual", Top.i < Top.e.numberofvirtualnodes
  PROVE  /\ Counted \in Seq(Frames) /\ CallsFit(elements, Counted) /\ Counted # << >>
         /\ Head(Counted).op = Top.op /\ Head(Counted).phase = "virtual"
         /\ \A D : TreeFits(tree, NodesOf(elements, shadowed, work), D, work)
                   => TreeFits(tree, NodesOf(elements, shadowed, Counted), D, Counted)
<1> DEFINE f == [Top EXCEPT !.i = @ + 1]
<1>1. f \in Frames /\ f.op = Top.op /\ f.at = Top.at /\ f.phase = "virtual"
  <2>1. Top.i + 1 \in 0 .. MaxWeight
    BY TopFrame, NameTypes DEF TInv
  <2> QED
    BY <2>1, WorkFacts DEF Frames
<1> HIDE DEF f
<1>2. Counted = <<f>> \o Tail(work)
  BY WorkFacts DEF Counted, f
<1>3. /\ CallsFit(elements, Counted) /\ Ats(Counted) = Ats(work)
      /\ Counted \in Seq(Frames) /\ Counted # << >> /\ Head(Counted) = f
  BY <1>1, <1>2, WorkFacts, Moved
<1>4. NodesOf(elements, shadowed, Counted) = NodesOf(elements, shadowed, work)
  BY <1>1, <1>3 DEF NodesOf, Top
<1>5. ASSUME NEW N, NEW D, TreeFits(tree, N, D, work)
      PROVE  TreeFits(tree, N, D, Counted)
  BY <1>1, <1>3, <1>5 DEF TreeFits, WalkFits, Top
<1> QED
  BY <1>1, <1>3, <1>4, <1>5

(* A tree that is not torn has its hanging sets.                           *)
LEMMA TreeFound ==
  ASSUME TInv, status = "ok", ~torn
  PROVE  \E D : TreeFits(tree, NodesOf(elements, shadowed, work), D, work)
BY DEF TInv, TreeSound

LEMMA AddServerTree ==
  ASSUME TInv, NEW r \in AddRequests, AddServer(r[1], r[2], r[3])
  PROVE  CallsSound' /\ TreeSound'
<1>1. /\ status = "ok" /\ work = << >> /\ UNCHANGED <<shadowed, torn>>
      /\ EnterAdd(<<r[1], Plain>>, r[2], r[3], << >>)
  BY DEF AddServer, Idle
<1>2. /\ <<r[1], Plain>> \in Names /\ r[2] \in Ports /\ r[3] \in 0 .. MaxWeight
      /\ << >> \in Seq(Frames) /\ CallsFit(elements, << >>) /\ IInv
  BY <1>1, RingAssumption, NameTypes, FrameStack DEF CallsFit, TInv
<1>3. CallsFit(elements', work')
  BY <1>1, <1>2, EnterAddCalls
<1>4. ASSUME NEW D, TreeFits(tree, NodesOf(elements, shadowed, << >>), D, << >>)
      PROVE  TreeFits(tree', NodesOf(elements', shadowed', work'), D, work')
  BY <1>1, <1>2, <1>4, EnterAddTree
<1> QED
  BY <1>1, <1>3, <1>4, TreeFound DEF CallsSound, TreeSound

LEMMA DelServerTree ==
  ASSUME TInv, NEW r \in DelRequests, DelServer(r[1], r[2])
  PROVE  CallsSound' /\ TreeSound'
<1>1. /\ status = "ok" /\ work = << >> /\ UNCHANGED <<shadowed, torn>>
      /\ EnterRemove(<<r[1], Plain>>, r[2], << >>)
  BY DEF DelServer, Idle
<1>2. /\ <<r[1], Plain>> \in Names /\ r[2] \in Ports
      /\ << >> \in Seq(Frames) /\ CallsFit(elements, << >>) /\ IInv
  BY <1>1, RingAssumption, NameTypes, FrameStack DEF CallsFit, TInv
<1>3. /\ CallsFit(elements', work')
      /\ \A D : TreeFits(tree, NodesOf(elements, shadowed, << >>), D, << >>)
                => TreeFits(tree', NodesOf(elements', shadowed', work'), D, work')
  BY <1>1, <1>2, EnterRemoveTree
<1> QED
  BY <1>1, <1>3, TreeFound DEF CallsSound, TreeSound

LEMMA AddVirtualTree ==
  ASSUME TInv, AddVirtual
  PROVE  CallsSound' /\ TreeSound'
<1>1. /\ status = "ok" /\ work # << >> /\ Top.op = "add" /\ Top.phase = "virtual"
      /\ Top.i < Top.e.numberofvirtualnodes /\ UNCHANGED <<shadowed, torn>>
      /\ EnterAdd(<<Top.e.ip[1], Top.i>>, Top.e.port, 0, Counted)
  BY DEF AddVirtual, In, history
<1>2. /\ <<Top.e.ip[1], Top.i>> \in Names /\ Top.e.port \in Ports /\ 0 \in 0 .. MaxWeight
      /\ Counted \in Seq(Frames) /\ CallsFit(elements, Counted) /\ IInv
      /\ Head(Counted).op = "add" /\ Head(Counted).phase = "virtual"
  BY <1>1, NextVirtual, TopFrame, NameTypes, CountedFits DEF TInv
<1>3. CallsFit(elements', work')
  BY <1>1, <1>2, EnterAddCalls
<1>4. ASSUME NEW D, TreeFits(tree, NodesOf(elements, shadowed, Counted), D, Counted)
      PROVE  TreeFits(tree', NodesOf(elements', shadowed', work'), D, work')
  BY <1>1, <1>2, <1>4, EnterAddTree
<1>5. \A D : TreeFits(tree, NodesOf(elements, shadowed, work), D, work)
            => TreeFits(tree, NodesOf(elements, shadowed, Counted), D, Counted)
  BY <1>1, CountedFits
<1> QED
  BY <1>1, <1>3, <1>4, <1>5, TreeFound DEF CallsSound, TreeSound

LEMMA RemoveVirtualTree ==
  ASSUME TInv, RemoveVirtual
  PROVE  CallsSound' /\ TreeSound'
<1>1. /\ status = "ok" /\ work # << >> /\ Top.op = "del" /\ Top.phase = "virtual"
      /\ Top.i < Top.e.numberofvirtualnodes /\ UNCHANGED <<shadowed, torn>>
      /\ \/ EnterRemove(<<Top.e.ip[1], Top.i>>, Top.e.port, Counted)
         \/ work' = Counted /\ UNCHANGED ring
  BY DEF RemoveVirtual, In, history
<1>2. /\ <<Top.e.ip[1], Top.i>> \in Names /\ Top.e.port \in Ports
      /\ Counted \in Seq(Frames) /\ CallsFit(elements, Counted) /\ IInv
      /\ Head(Counted).op = "del" /\ Head(Counted).phase = "virtual"
  BY <1>1, NextVirtual, TopFrame, CountedFits DEF TInv
<1>3. /\ CallsFit(elements', work')
      /\ \A D : TreeFits(tree, NodesOf(elements, shadowed, Counted), D, Counted)
                => TreeFits(tree', NodesOf(elements', shadowed', work'), D, work')
  <2>1. CASE EnterRemove(<<Top.e.ip[1], Top.i>>, Top.e.port, Counted)
    BY <1>1, <1>2, <2>1, EnterRemoveTree
  <2>2. CASE work' = Counted /\ UNCHANGED ring
    BY <1>1, <1>2, <2>2 DEF ring
  <2> QED
    BY <1>1, <2>1, <2>2
<1>4. \A D : TreeFits(tree, NodesOf(elements, shadowed, work), D, work)
            => TreeFits(tree, NodesOf(elements, shadowed, Counted), D, Counted)
  BY <1>1, CountedFits
<1> QED
  BY <1>1, <1>3, <1>4, TreeFound DEF CallsSound, TreeSound

(* Keys come and go on the ring without touching the tree.                 *)
LEMMA KeysTree ==
  ASSUME TInv, status = "ok", work = << >>, UNCHANGED <<tree, work, torn>>,
         ServersOf(elements') \cup shadowed' = ServersOf(elements) \cup shadowed
  PROVE  CallsSound' /\ TreeSound'
<1>1. NodesOf(elements', shadowed', work') = NodesOf(elements, shadowed, work)
  BY DEF NodesOf
<1>2. CallsSound'
  BY DEF CallsSound, CallsFit
<1> QED
  BY <1>1, <1>2, TreeFound DEF TreeSound

LEMMA SetKeyTree ==
  ASSUME TInv, NEW k \in Keys, SetKey(k) \/ SetKeySpins(k) \/ GetKey(k)
  PROVE  CallsSound' /\ TreeSound'
<1> DEFINE h == fn.key[k]
<1>1. status = "ok" /\ work = << >> /\ UNCHANGED <<tree, work, torn>>
  BY DEF SetKey, SetKeySpins, GetKey, Idle, history
<1>2. h \in Slots /\ elements \in [Slots -> Elements]
  BY <1>1, CountsNow, PointerFacts DEF TInv, IInv, TypeOK, RingTypeOK
<1>3. CASE GetKey(k)
  <2>1. elements' = Forwarded(elements, h) /\ shadowed' = shadowed
    BY <1>3 DEF GetKey, history
  <2>2. ServersOf(elements') = ServersOf(elements)
    BY <2>1, <1>2, ForwardedType, SameKindsSets
  <2> QED
    BY <1>1, <2>1, <2>2, KeysTree
<1>4. ASSUME NEW set \in [Slots -> Elements \cup Unplaced], set[h].type = "key",
             \A s \in Slots \ {h} : set[s] = elements[s], SameKinds(elements', set),
             shadowed' = IF elements[h].type = "server" THEN shadowed \cup {h} ELSE shadowed
      PROVE  CallsSound' /\ TreeSound'
  <2>1. ServersOf(elements') = ServersOf(set)
    BY <1>4, SameKindsSets
  <2>2. ServersOf(set) \cup shadowed' = ServersOf(elements) \cup shadowed
    BY <1>2, <1>4 DEF ServersOf
  <2> QED
    BY <1>1, <2>1, <2>2, KeysTree
<1>5. CASE SetKeySpins(k)
  <2> DEFINE e == Key(k, NULL, NULL)
             set == [elements EXCEPT ![h] = e]
  <2>1. /\ elements' = set
        /\ shadowed' = IF elements[h].type = "server" THEN shadowed \cup {h} ELSE shadowed
    BY <1>5 DEF SetKeySpins
  <2>2. e \in Unplaced /\ e.type = "key"
    BY DEF Key, Unplaced
  <2> HIDE DEF h, e
  <2>3. /\ set \in [Slots -> Elements \cup Unplaced] /\ set[h].type = "key"
        /\ \A s \in Slots \ {h} : set[s] = elements[s]
    BY <2>2, <1>2
  <2>4. SameKinds(elements', set)
    BY <2>1 DEF SameKinds
  <2> HIDE DEF set
  <2> QED
    BY <2>1, <2>3, <2>4, <1>4
<1>6. CASE SetKey(k)
  <2> DEFINE placed == [elements EXCEPT ![h] = Key(k, NULL, NULL)]
             owner  == elements[Owner(placed, h)]
             e      == Key(k, owner.ip, owner.port)
             set    == [elements EXCEPT ![h] = e]
  <2>1. /\ elements[h].type # "key" /\ ServersOf(placed) # {}
        /\ elements' = Forwarded([placed EXCEPT ![h] = e], h)
        /\ shadowed' = IF elements[h].type = "server" THEN shadowed \cup {h} ELSE shadowed
    BY <1>6 DEF SetKey
  <2>2. owner \in ServerElements
    <3>1. Owner(placed, h) \in ServersOf(placed)
      BY <2>1, <1>2, OwnerIsServer
    <3>2. \A g \in Slots : placed[g].type = "server" => elements[g].type = "server"
      BY <1>2 DEF Key
    <3>3. Owner(placed, h) \in Slots /\ elements[Owner(placed, h)].type = "server"
      BY <3>1, <3>2 DEF ServersOf
    <3> QED
      BY <3>3, <1>2, ElementKinds
  <2>3. e \in KeyElements /\ e.type = "key"
    BY <2>2 DEF Key, KeyElements, ServerElements
  <2>4. [placed EXCEPT ![h] = e] = set
    BY <1>2
  <2> HIDE DEF h, placed, owner, e
  <2>5. /\ set \in [Slots -> Elements] /\ set[h].type = "key"
        /\ \A s \in Slots \ {h} : set[s] = elements[s]
    BY <2>3, <1>2 DEF Elements
  <2> HIDE DEF set
  <2>6. SameKinds(elements', set) /\ set \in [Slots -> Elements \cup Unplaced]
    BY <2>1, <2>4, <2>5, <1>2, ForwardedType
  <2> QED
    BY <2>1, <2>5, <2>6, <1>4
<1> QED
  BY <1>3, <1>5, <1>6

(* An insertion changes no block but its own and its parent.               *)
LEMMA InsertedElsewhere ==
  ASSUME NEW t \in Trees, NEW h \in Places, NEW cur \in Pointers, NEW a \in Places, a # cur,
         IsLeaf(t, a)
  PROVE  IsLeaf(Inserted(t, h, cur), a)
BY DEF Inserted, IsLeaf, Trees

LEMMA FinishAddTree ==
  ASSUME TInv, FinishAdd
  PROVE  CallsSound' /\ TreeSound'
<1> DEFINE h == Top.at
           N == NodesOf(elements, shadowed, work)
<1>1. /\ status = "ok" /\ work # << >> /\ Top.op = "add" /\ Top.phase = "tree" /\ Landed
      /\ tree' = Inserted(tree, h, Top.cur) /\ work' = Below
      /\ UNCHANGED <<shadowed, torn>>
  BY DEF FinishAdd, In
<1>2. /\ elements \in [Slots -> Elements] /\ SameKinds(elements', elements)
      /\ ServersOf(elements') = ServersOf(elements)
  BY <1>1, CountsNow, FinishAddKinds, SameKindsSets DEF TInv
<1>3. /\ CallsFit(elements, Below) /\ Ats(work) = Ats(Below) \cup {h} /\ h \notin Ats(Below)
      /\ Below # << >> => Head(Below).op = "add" /\ Head(Below).phase = "virtual"
      /\ Below \in Seq(Frames) /\ h \in Places /\ Top.cur \in Pointers
  BY <1>1, BelowFits
<1>4. Ats(work) \subseteq Places /\ \A a \in Ats(work) : elements[a].type = "server"
  BY <1>1, WorkFacts, SlotsOfCalls
<1>5. CallsSound'
  <2>1. \A i \in DOMAIN Below : Below[i].at \in Slots
    BY <1>3, <1>4, PointerFacts DEF Ats
  <2> QED
    BY <2>1, <1>1, <1>2, <1>3 DEF CallsSound, CallsFit, SameKinds
<1>6. ASSUME ~torn
      PROVE  \E E : TreeFits(tree', NodesOf(elements', shadowed', work'), E, work')
  <2>1. PICK D : TreeFits(tree, N, D, work)
    BY <1>1, <1>6, TreeFound
  <2>2. N = (ServersOf(elements) \cup shadowed) \ Ats(work)
    BY <1>1, WorkFacts DEF NodesOf
  <2>3. NodesOf(elements', shadowed', work') = N \cup {h}
    <3>1. NodesOf(elements', shadowed', work')
            = (ServersOf(elements') \cup shadowed') \ Ats(work')
      BY <1>1, <1>3, NodesFacts
    <3>2. h \in ServersOf(elements)
      BY <1>3, <1>4, PointerFacts DEF ServersOf
    <3> HIDE DEF N, h
    <3> QED
      BY <3>1, <3>2, <2>2, <1>1, <1>2, <1>3
  <2> HIDE DEF N, h
  <2>4. /\ Hangs(tree, N, D) /\ \A a \in Ats(work) : IsLeaf(tree, a)
        /\ IF N = {} THEN Top.cur = Null ELSE Top.cur \in N /\ Fits(D, Top.cur, h)
    BY <2>1, <1>1, WorkFacts DEF TreeFits, WalkFits, h
  <2>5. h \notin N /\ IsLeaf(tree, h) /\ tree \in Trees
    BY <2>2, <2>4, <1>1, <1>3, WorkFacts
  <2>6. PICK E : Hangs(tree', N \cup {h}, E)
    <3>1. CASE N = {}
      <4>1. Hangs(tree, {}, D) /\ Top.cur = Null /\ h \in Places
        BY <3>1, <2>4, <1>3 DEF h
      <4>2. \E E : Hangs(Inserted(tree, h, Null), {h}, E)
        BY <4>1, <2>5, InsertedFirst
      <4>3. tree' = Inserted(tree, h, Null) /\ N \cup {h} = {h}
        BY <3>1, <4>1, <1>1 DEF h
      <4> QED
        BY <4>2, <4>3
    <3>2. CASE N # {}
      <4>1. Child(tree, Top.cur, h) = Null
        BY <3>2, <2>4, <2>5, <1>1, HangsFacts, PlacesAreNumbers DEF Landed, h
      <4> QED
        BY <3>2, <4>1, <2>4, <2>5, <1>1, <1>3, InsertedBelow
    <3> QED
      BY <3>1, <3>2
  <2>7. \A a \in Ats(work') : IsLeaf(tree', a)
    <3> SUFFICES ASSUME NEW a \in Ats(Below)
                 PROVE  IsLeaf(tree', a)
      BY <1>1
    <3>1. a \in Ats(work) /\ a \in Places /\ a # Null /\ a \notin N
      BY <1>3, <1>4, <2>2, PlacesAreNumbers
    <3>2. a # Top.cur
      BY <3>1, <2>4
    <3> QED
      BY <3>1, <3>2, <2>4, <2>5, <1>1, <1>3, InsertedElsewhere
  <2>8. work' # << >> => WalkFits(tree', N \cup {h}, E, Head(work'))
    BY <1>1, <1>3 DEF WalkFits
  <2>9. TreeFits(tree', N \cup {h}, E, work')
    BY <2>6, <2>7, <2>8 DEF TreeFits
  <2> QED
    BY <2>3, <2>9
<1> QED
  BY <1>1, <1>5, <1>6 DEF TreeSound

(* What the worker knows when bst_findmin has returned.                    *)
LEMMA RemovalFits ==
  ASSUME TInv, In("del", "tree"), Least, NEW D,
         TreeFits(tree, NodesOf(elements, shadowed, work), D, work)
  PROVE  /\ Hangs(tree, NodesOf(elements, shadowed, work), D)
         /\ Top.at \in NodesOf(elements, shadowed, work)
         /\ HasPair(tree, Top.at) => /\ Lessens(tree, D, Top.cur, Top.at)
                                     /\ tree.left[Top.cur] = Null
         /\ Top.cur \in Pointers /\ tree \in Trees
<1> DEFINE N == NodesOf(elements, shadowed, work)
<1>1. status = "ok" /\ work # << >> /\ Top.op = "del" /\ Top.phase = "tree"
  BY DEF In
<1>2. Hangs(tree, N, D) /\ WalkFits(tree, N, D, Top)
  BY <1>1 DEF TreeFits, Top
<1>3. Top.at \in N
  BY <1>1, WorkFacts DEF NodesOf
<1> HIDE DEF N
<1>4. ASSUME HasPair(tree, Top.at)
      PROVE  Lessens(tree, D, Top.cur, Top.at) /\ tree.left[Top.cur] = Null
  <2>1. Lessens(tree, D, Top.cur, Top.at)
    BY <1>1, <1>2, <1>4 DEF WalkFits
  <2>2. tree.right[Top.at] \in N
    BY <1>2, <1>3, <1>4, HangsFacts DEF HasPair
  <2>3. Top.cur \in N
    BY <2>1, <2>2, <1>2, HangsFacts DEF Lessens
  <2>4. Top.cur # Null
    BY <2>3, <1>2, HangsFacts, PlacesAreNumbers
  <2> QED
    BY <2>1, <2>4 DEF Least
<1> QED
  BY <1>1, <1>2, <1>3, <1>4, WorkFacts, TopFrame DEF TInv, N

LEMMA FinishRemoveTree ==
  ASSUME TInv, FinishRemove
  PROVE  CallsSound' /\ TreeSound'
<1> DEFINE h == Top.at
           N == NodesOf(elements, shadowed, work)
<1>1. /\ status = "ok" /\ work # << >> /\ Top.op = "del" /\ In("del", "tree") /\ Least
      /\ tree' = Freed(Removed(tree, h, Top.cur), h) /\ work' = Below
      /\ torn' = (torn \/ Tears(tree, h, Top.cur)) /\ shadowed' = shadowed
  BY DEF FinishRemove, In
<1>2. /\ elements \in [Slots -> Elements] /\ SameKinds(elements', elements)
      /\ ServersOf(elements') = ServersOf(elements) /\ shadowed \subseteq KeysOf(elements)
  BY <1>1, CountsNow, FinishRemoveKinds, SameKindsSets DEF TInv, Counts
<1>3. /\ CallsFit(elements, Below) /\ Ats(work) = Ats(Below) \cup {h} /\ h \notin Ats(Below)
      /\ Below # << >> => Head(Below).op = "del" /\ Head(Below).phase = "virtual"
      /\ Below \in Seq(Frames) /\ h \in Places
  BY <1>1, BelowFits
<1>4. Ats(work) \subseteq Places /\ \A a \in Ats(work) : elements[a].type = "empty"
  BY <1>1, WorkFacts, SlotsOfCalls
<1>5. CallsSound'
  <2>1. \A i \in DOMAIN Below : Below[i].at \in Slots
    BY <1>3, <1>4, PointerFacts DEF Ats
  <2> QED
    BY <2>1, <1>1, <1>2, <1>3 DEF CallsSound, CallsFit, SameKinds
<1>6. ASSUME ~torn'
      PROVE  \E E : TreeFits(tree', NodesOf(elements', shadowed', work'), E, work')
  <2>1. ~torn /\ ~Tears(tree, h, Top.cur)
    BY <1>1, <1>6
  <2>2. PICK D : TreeFits(tree, N, D, work)
    BY <1>1, <2>1, TreeFound
  <2>3. NodesOf(elements', shadowed', work') = N \ {h}
    <3>1. NodesOf(elements', shadowed', work')
            = ServersOf(elements') \cup shadowed' \cup Ats(work')
      BY <1>1, <1>3, NodesFacts
    <3>2. N = ServersOf(elements) \cup shadowed \cup Ats(work)
      BY <1>1, WorkFacts, NodesFacts
    <3>3. h \notin ServersOf(elements) /\ h \notin shadowed
      BY <1>2, <1>3, <1>4 DEF ServersOf, KeysOf
    <3> HIDE DEF N, h
    <3> QED
      BY <3>1, <3>2, <3>3, <1>1, <1>2, <1>3
  <2>4. PICK E : Hangs(tree', N \ {h}, E)
    <3>1. /\ Hangs(tree, N, D) /\ h \in N /\ tree \in Trees /\ Top.cur \in Pointers
          /\ HasPair(tree, h) => Lessens(tree, D, Top.cur, h) /\ tree.left[Top.cur] = Null
      BY <1>1, <2>2, RemovalFits
    <3> HIDE DEF N, h
    <3> QED
      BY <3>1, <2>1, <1>1, RemovedHangs
  <2>5. TreeFits(tree', N \ {h}, E, work')
    BY <2>4, <1>1, <1>3 DEF TreeFits, WalkFits
  <2> QED
    BY <2>3, <2>5
<1> QED
  BY <1>1, <1>5, <1>6 DEF TreeSound

(* Undefined behaviour is a state of its own: nothing more is claimed.     *)
LEMMA UndefinedTree ==
  ASSUME TInv, WildPointer \/ ArrayUnwritten
  PROVE  CallsSound' /\ TreeSound'
BY DEF WildPointer, ArrayUnwritten, Undefined, ring, TInv, CallsSound, TreeSound

(* Every step keeps the invariant, and the empty ring has it.              *)
LEMMA NextTree ==
  ASSUME TInv, [Next]_vars
  PROVE  TInv'
<1>1. IInv'
  BY NextInv DEF TInv
<1>2. ASSUME NEW r \in AddRequests, AddServer(r[1], r[2], r[3]) PROVE CallsSound' /\ TreeSound'
  BY <1>2, AddServerTree
<1>3. ASSUME NEW r \in DelRequests, DelServer(r[1], r[2]) PROVE CallsSound' /\ TreeSound'
  BY <1>3, DelServerTree
<1>4. ASSUME NEW k \in Keys, SetKey(k) \/ SetKeySpins(k) \/ GetKey(k)
      PROVE  CallsSound' /\ TreeSound'
  BY <1>4, SetKeyTree
<1>5. ASSUME Worker PROVE CallsSound' /\ TreeSound'
  <2>1. CASE AddVirtual \/ RemoveVirtual
    BY <2>1, AddVirtualTree, RemoveVirtualTree
  <2>2. CASE BeginInsert \/ InsertStep
    BY <2>2, BeginInsertTree, InsertStepTree
  <2>3. CASE BeginRemove \/ FindMinStep
    BY <2>3, BeginRemoveTree, FindMinStepTree
  <2>4. CASE FinishAdd \/ FinishRemove
    BY <2>4, FinishAddTree, FinishRemoveTree
  <2>5. CASE WildPointer \/ ArrayUnwritten
    BY <2>5, UndefinedTree
  <2> QED
    BY <1>5, <2>1, <2>2, <2>3, <2>4, <2>5 DEF Worker
<1>6. ASSUME UNCHANGED vars PROVE CallsSound' /\ TreeSound'
  <2>1. UNCHANGED <<elements, tree, work, status, shadowed, torn>>
    BY <1>6 DEF vars, ring, history
  <2> QED
    BY <2>1 DEF TInv, CallsSound, TreeSound
<1> QED
  BY <1>1, <1>2, <1>3, <1>4, <1>5, <1>6 DEF Next, Request, TInv

LEMMA InitTree ==
  ASSUME Init
  PROVE  TInv
<1>1. NodesOf(elements, shadowed, work) = {}
  BY DEF Init, NodesOf, Ats, ServersOf, Empty
<1>2. CallsSound
  BY DEF Init, CallsSound, CallsFit
<1>3. Hangs(tree, {}, << >>)
  <2>1. << >> \in [{} -> SUBSET {}]
    OBVIOUS
  <2> QED
    BY <2>1 DEF Init, EmptyTree, Hangs, Rooted
<1>4. TreeFits(tree, {}, << >>, work)
  BY <1>3 DEF Init, TreeFits
<1> QED
  BY <1>1, <1>2, <1>4, InitInv DEF TInv, TreeSound

(* The ring of hashring.h always has a tree that fits its array and the    *)
(* calls in progress, unless the splice of a pair has torn it.             *)
THEOREM TreeInvariant == Spec => []TInv
<1>1. Init => TInv
  BY InitTree
<1>2. TInv /\ [Next]_vars => TInv'
  BY NextTree
<1> QED
  BY <1>1, <1>2, PTL DEF Spec

(* Between requests the tree is a search tree of exactly the servers,      *)
(* linked both ways, as long as no pair has been spliced wrongly.          *)
THEOREM TreeCorrect == Spec => []TreeHoldsServers
<1>1. TInv => TreeHoldsServers
  <2> SUFFICES ASSUME TInv, Idle, ~torn
               PROVE  IsSearchTree(tree, ServersOf(elements) \cup shadowed)
    BY DEF TreeHoldsServers
  <2>1. status = "ok" /\ work = << >>
    BY DEF Idle
  <2>2. PICK D : TreeFits(tree, NodesOf(elements, shadowed, work), D, work)
    BY <2>1, TreeFound
  <2>3. NodesOf(elements, shadowed, work) = ServersOf(elements) \cup shadowed
    BY <2>1, FrameStack, NodesFacts
  <2> QED
    BY <2>2, <2>3, HangsSearchTree DEF TreeFits
<1> QED
  BY <1>1, TreeInvariant, PTL

(* The worker follows a pointer into freed or unwritten memory only in a   *)
(* torn tree, and reads past the array only when a key has hidden a server *)
(* or one stands on the last slot.                                         *)
THEOREM UndefinedCorrect == Spec => []UndefinedOnlyAfter
<1>1. Init => UndefinedOnlyAfter
  BY DEF Init, UndefinedOnlyAfter
<1>2. ASSUME TInv, UndefinedOnlyAfter, [Next]_vars
      PROVE  UndefinedOnlyAfter'
  <2>1. CASE UNCHANGED vars
    BY <2>1, <1>2 DEF vars, ring, history, UndefinedOnlyAfter
  <2>2. CASE Request
    <3>1. status' # "undefined"
      <4>1. ASSUME NEW r \in AddRequests, AddServer(r[1], r[2], r[3]) PROVE status' # "undefined"
        BY <4>1 DEF AddServer, Idle
      <4>2. ASSUME NEW r \in DelRequests, DelServer(r[1], r[2]) PROVE status' # "undefined"
        BY <4>2 DEF DelServer, Idle
      <4>3. ASSUME NEW k \in Keys, SetKey(k) \/ SetKeySpins(k) \/ GetKey(k)
            PROVE  status' # "undefined"
        BY <4>3 DEF SetKey, SetKeySpins, GetKey, Idle
      <4> QED
        BY <2>2, <4>1, <4>2, <4>3 DEF Request
    <3> QED
      BY <3>1 DEF UndefinedOnlyAfter
  <2>3. CASE Worker /\ ~WildPointer /\ ~ArrayUnwritten
    <3>1. status' # "undefined"
      BY <2>3 DEF Worker, AddVirtual, BeginInsert, InsertStep, FinishAdd, RemoveVirtual,
         BeginRemove, FindMinStep, FinishRemove, In
    <3> QED
      BY <3>1 DEF UndefinedOnlyAfter
  <2>4. CASE WildPointer
    <3>1. status = "ok" /\ work # << >> /\ UNCHANGED <<ring, history>>
      BY <2>4 DEF WildPointer, In, Undefined
    <3>2. ASSUME ~torn
          PROVE  FALSE
      <4> DEFINE N == NodesOf(elements, shadowed, work)
      <4>1. PICK D : TreeFits(tree, N, D, work)
        BY <1>2, <3>1, <3>2, TreeFound
      <4>2. CASE In("add", "tree")
        <5>1. Hangs(tree, N, D) /\ (Top.cur = Null \/ Top.cur \in N) /\ Top.op = "add"
          BY <4>1, <4>2 DEF In, TreeFits, WalkFits, Top
        <5>2. Top.cur # Wild
          BY <5>1, HangsFacts, PlacesAreNumbers
        <5> QED
          BY <5>1, <5>2, <2>4 DEF WildPointer
      <4>3. CASE In("del", "tree") /\ Least
        <5>1. /\ Hangs(tree, N, D) /\ Top.at \in N /\ tree \in Trees /\ Top.cur \in Pointers
              /\ HasPair(tree, Top.at) => /\ Lessens(tree, D, Top.cur, Top.at)
                                          /\ tree.left[Top.cur] = Null
          BY <1>2, <4>1, <4>3, RemovalFits
        <5> HIDE DEF N
        <5>2. ~RemoveFaults(tree, Top.at, Top.cur)
          BY <5>1, RemovedHangs
        <5>3. Top.cur # Wild
          BY <4>3, PlacesAreNumbers DEF Least
        <5> QED
          BY <5>2, <5>3, <2>4 DEF WildPointer
      <4>4. CASE In("del", "tree") /\ ~Least
        <5>1. Top.cur = Wild /\ Top.op = "del" /\ Top.phase = "tree"
          BY <2>4, <4>4 DEF WildPointer, In
        <5>2. Hangs(tree, N, D) /\ WalkFits(tree, N, D, Top) /\ Top.at \in N
          BY <1>2, <3>1, <4>1, <5>1, WorkFacts DEF TreeFits, Top, NodesOf
        <5> HIDE DEF N
        <5> QED
          <6>1. HasPair(tree, Top.at) /\ Top.cur \in D[tree.right[Top.at]]
            BY <5>1, <5>2, PlacesAreNumbers DEF WalkFits, Lessens
          <6>2. tree.right[Top.at] \in N
            BY <5>2, <6>1, HangsFacts DEF HasPair
          <6>3. Top.cur \in Places
            BY <5>2, <6>1, <6>2, HangsFacts
          <6> QED
            BY <5>1, <6>3, PlacesAreNumbers
      <4> QED
        BY <2>4, <4>2, <4>3, <4>4 DEF WildPointer
    <3> QED
      BY <3>1, <3>2 DEF history, UndefinedOnlyAfter
  <2>5. CASE ArrayUnwritten
    <3>1. /\ status = "ok" /\ UNCHANGED <<ring, history>>
          /\ ~ArrayFits(elements, numberofservers)
      BY <2>5 DEF ArrayUnwritten, In, Undefined
    <3>2. ASSUME shadowed = {}, elements[Size].type # "server"
          PROVE  FALSE
      <4>1. NodesArray(elements) = ServersOf(elements)
        BY <3>2, SizeAssumption DEF NodesArray, ServersOf, Slots
      <4>2. numberofservers = Cardinality(ServersOf(elements))
        BY <1>2, <3>2, FS_EmptySet, SlotSetsFinite DEF TInv, IInv, CountersExact
      <4> QED
        BY <3>1, <4>1, <4>2 DEF ArrayFits
    <3> QED
      BY <3>1, <3>2 DEF ring, history, UndefinedOnlyAfter
  <2> QED
    BY <2>1, <2>2, <2>3, <2>4, <2>5, <1>2 DEF Next
<1> QED
  BY <1>1, <1>2, TreeInvariant, PTL DEF Spec

-----------------------------------------------------------------------------
(* Nearer and further below a slot.                                        *)

LEMMA ClockFacts ==
  /\ \A a, s \in Slots : Clock(a, s) \in Nat
  /\ \A a, b, s \in Slots : Clock(a, s) = Clock(b, s) => a = b
<1>1. ASSUME NEW a \in Slots, NEW s \in Slots
      PROVE  Clock(a, s) \in Nat
  BY ClockInSlots DEF Slots
<1>2. ASSUME NEW a \in Slots, NEW b \in Slots, NEW s \in Slots, Clock(a, s) = Clock(b, s)
      PROVE  a = b
  <2>1. /\ Clock(a, s) = IF s >= a THEN s - a ELSE s - a + Size + 1
        /\ Clock(b, s) = IF s >= b THEN s - b ELSE s - b + Size + 1
    BY ClockIs
  <2>2. a \in 0 .. Size /\ b \in 0 .. Size /\ s \in 0 .. Size /\ Size \in Nat
    BY PointerFacts DEF Slots
  <2>3. (IF s >= a THEN s - a ELSE s - a + Size + 1) = (IF s >= b THEN s - b ELSE s - b + Size + 1)
    BY <1>2, <2>1
  <2> QED
    BY <2>2, <2>3
<1> QED
  BY <1>1, <1>2

(* Walking down from s, h is met before g, or h lies on the way up from g. *)
LEMMA ClockSum ==
  ASSUME NEW h \in Slots, NEW g \in Slots, NEW s \in Slots, g # h
  PROVE  /\ Clock(h, s) < Clock(h, g) <=> Clock(h, s) < Clock(g, s)
         /\ Clock(h, s) < Clock(g, s) => Clock(g, s) = Clock(g, h) + Clock(h, s)
<1>1. /\ Clock(h, s) = IF s >= h THEN s - h ELSE s - h + Size + 1
      /\ Clock(h, g) = IF g >= h THEN g - h ELSE g - h + Size + 1
      /\ Clock(g, s) = IF s >= g THEN s - g ELSE s - g + Size + 1
      /\ Clock(g, h) = IF h >= g THEN h - g ELSE h - g + Size + 1
  BY ClockIs
<1>2. h \in 0 .. Size /\ g \in 0 .. Size /\ s \in 0 .. Size /\ Size \in Nat
  BY PointerFacts DEF Slots
<1> QED
  BY <1>1, <1>2

(* The stretch above h is what h is the nearest to.                        *)
LEMMA ArcIs ==
  ASSUME NEW elems, NEW h \in Slots, NEW s \in Slots, s # h
  PROVE  s \in Arc(elems, h) <=> \A g \in ServersOf(elems) \ {h} : Clock(h, s) < Clock(g, s)
<1>1. \A g \in ServersOf(elems) \ {h} : g \in Slots /\ g # h
  BY DEF ServersOf
<1> QED
  BY <1>1, ClockSum DEF Arc

(* What is not in the stretch above h has a server nearer.                 *)
LEMMA NotInArc ==
  ASSUME NEW elems, NEW h \in Slots, NEW s \in Slots, s # h, s \notin Arc(elems, h)
  PROVE  \E g \in ServersOf(elems) \ {h} : Clock(g, s) < Clock(h, s)
<1>1. PICK g \in ServersOf(elems) \ {h} : ~(Clock(h, s) < Clock(g, s))
  BY ArcIs
<1>2. g \in Slots /\ g # h
  BY DEF ServersOf
<1>3. Clock(h, s) \in Nat /\ Clock(g, s) \in Nat /\ Clock(h, s) # Clock(g, s)
  BY <1>2, ClockFacts
<1> QED
  BY <1>1, <1>3

LEMMA RangeIsArc ==
  ASSUME NEW elems, Ranged(elems), NEW h \in ServersOf(elems)
  PROVE  RangeOf(elems, h) = Arc(elems, h)
<1>1. h \in Slots
  BY DEF ServersOf
<1>2. ASSUME NEW s \in Slots
      PROVE  Clock(h, s) <= Clock(h, elems[h].rangeend)
               <=> \A g \in ServersOf(elems) \ {h} : Clock(h, s) < Clock(h, g)
  BY <1>2, RangeIsStretch DEF Ranged
<1> QED
  BY <1>2 DEF RangeOf, Arc

-----------------------------------------------------------------------------
(* Names, keys and the servers they lead to.                               *)

(* The server o is the first met walking down from s.                      *)
Owns(elems, o, s) ==
  o \in ServersOf(elems) /\ \A g \in ServersOf(elems) : Clock(o, s) <= Clock(g, s)

(* The name a key keeps leads to o: directly, or cut to that of its store. *)
Led(elems, s, o) ==
  /\ elems[s].store[1] = elems[o].ip[1] /\ elems[s].port = elems[o].port
  /\ SlotOf(elems[s].store, elems[s].port) = o \/ elems[s].store[2] = Plain

(* A server stands where its name hashes, unless strtok has cut the name.  *)
Known(elems, h) ==
  SlotOf(elems[h].ip, elems[h].port) = h \/ elems[h].ip[2] = Plain

(* A server whose call has returned is marked when it is a virtual node.   *)
Marked(elems, h) ==
  SlotOf(<<elems[h].ip[1], Plain>>, elems[h].port) = h \/ elems[h].isvirtualnode

(* No slot of a call in progress is nearer than the owner.                 *)
Settled(elems, w, s) ==
  \A a \in Ats(w) : \E g \in ServersOf(elems) : Clock(g, s) < Clock(a, s)

ServersNamed(elems, w) ==
  \A h \in ServersOf(elems) : Known(elems, h) /\ (h \notin Ats(w) => Marked(elems, h))

(* Calls that add: the element is as it was written, and the outermost one *)
(* is for a store.                                                         *)
CallsNamed(elems, w) ==
  \A i \in DOMAIN w : w[i].op = "add" =>
    /\ elems[w[i].at].ip = w[i].e.ip /\ elems[w[i].at].port = w[i].e.port
    /\ SlotOf(w[i].e.ip, w[i].e.port) = w[i].at
    /\ i + 1 \notin DOMAIN w => w[i].e.ip[2] = Plain

KeysLed(elems, w, st) ==
  \A s \in KeysOf(elems) \ st :
    Settled(elems, w, s) => \E o \in Slots : Owns(elems, o, s) /\ Led(elems, s, o)

(* As long as a ring that was empty has only servers being added, its keys *)
(* are those it kept.                                                      *)
FirstAdded(elems, w, st) ==
  w # << >> /\ Head(w).op = "add" /\ ServersOf(elems) \subseteq Ats(w) => KeysOf(elems) \subseteq st

RoutesFit(elems, w, st) ==
  /\ ServersNamed(elems, w) /\ CallsNamed(elems, w)
  /\ KeysLed(elems, w, st) /\ FirstAdded(elems, w, st)
  /\ w # << >> /\ DelRequests = {} => Head(w).op = "add"

RoutesSound == status = "ok" /\ shadowed = {} => RoutesFit(elements, work, stale)

LEMMA RoutesThen ==
  ASSUME fn' = fn, status' = "ok" /\ shadowed' = {} => RoutesFit(elements', work', stale')
  PROVE  RoutesSound'
BY DEF RoutesSound, RoutesFit, ServersNamed, CallsNamed, KeysLed, FirstAdded, Known, Marked, Led,
       SlotOf, Owns, Settled

LEMMA OwnerIs ==
  ASSUME NEW elems, NEW s \in Slots, NEW o, Owns(elems, o, s)
  PROVE  Owner(elems, s) = o
<1> DEFINE x == Owner(elems, s)
<1>1. x \in ServersOf(elems) /\ \A g \in ServersOf(elems) : Clock(x, s) <= Clock(g, s)
  BY OwnerIsServer DEF Owns
<1> HIDE DEF x
<1>2. x \in Slots /\ o \in Slots /\ Clock(x, s) <= Clock(o, s) /\ Clock(o, s) <= Clock(x, s)
  BY <1>1 DEF Owns, ServersOf
<1>3. Clock(x, s) \in Nat /\ Clock(o, s) \in Nat
  BY <1>2, ClockFacts
<1>4. Clock(x, s) = Clock(o, s)
  BY <1>2, <1>3
<1>5. x = o
  BY <1>2, <1>4, ClockFacts
<1> QED
  BY <1>5 DEF x

(* A name that leads to the owner is looked up to the owner's address.     *)
LEMMA LedIsRouted ==
  ASSUME NEW elems \in [Slots -> Elements], NEW s \in KeysOf(elems), NEW o \in ServersOf(elems),
         Led(elems, s, o), Marked(elems, o)
  PROVE  \/ Route(elems, s) = Address(elems[o])
         \/ /\ elems[o].isvirtualnode
            /\ LET p == SlotOf(<<elems[o].ip[1], Plain>>, elems[o].port)
               IN  /\ elems[s].store = <<elems[o].ip[1], Plain>>
                   /\ Route(elems, s) = IF elems[p].type = "server" THEN Address(elems[p]) ELSE NULL
<1>1. elems[s].type = "key" /\ elems[o].type = "server" /\ elems[s] \in KeyElements
  BY ElementKinds DEF KeysOf, ServersOf
<1>2. elems[s].store = <<elems[s].store[1], elems[s].store[2]>>
  BY <1>1 DEF KeyElements, Names
<1>3. CASE SlotOf(elems[s].store, elems[s].port) = o
  BY <1>1, <1>3 DEF Route
<1>4. CASE SlotOf(elems[s].store, elems[s].port) # o
  <2>1. elems[s].store = <<elems[o].ip[1], Plain>> /\ elems[s].port = elems[o].port
    BY <1>2, <1>4 DEF Led
  <2>2. elems[o].isvirtualnode
    BY <1>4, <2>1 DEF Marked
  <2> QED
    BY <1>1, <2>1, <2>2 DEF Route
<1> QED
  BY <1>3, <1>4

LEMMA SoundlyRouted ==
  ASSUME IInv, RoutesSound
  PROVE  RoutedToOwner
<1> SUFFICES ASSUME Idle, shadowed = {}, NEW s \in KeysOf(elements) \ stale
             PROVE  \/ Orphan(Owner(elements, s))
                    \/ Route(elements, s) = Address(elements[Owner(elements, s)])
  BY DEF RoutedToOwner
<1>1. /\ status = "ok" /\ work = << >> /\ elements \in [Slots -> Elements]
      /\ RoutesFit(elements, << >>, stale)
  BY CountsNow DEF Idle, RoutesSound
<1>2. Ats(<< >>) = {}
  BY DEF Ats
<1>3. PICK o \in Slots : Owns(elements, o, s) /\ Led(elements, s, o)
  BY <1>1, <1>2 DEF RoutesFit, KeysLed, Settled
<1>4. Owner(elements, s) = o /\ o \in ServersOf(elements)
  BY <1>3, OwnerIs DEF Owns, KeysOf
<1>5. Marked(elements, o)
  BY <1>1, <1>2, <1>4 DEF RoutesFit, ServersNamed
<1>6. CASE Route(elements, s) = Address(elements[o])
  BY <1>4, <1>6
<1>7. CASE Route(elements, s) # Address(elements[o])
  <2>1. /\ elements[o].isvirtualnode
        /\ LET p == SlotOf(<<elements[o].ip[1], Plain>>, elements[o].port)
           IN  Route(elements, s) = IF elements[p].type = "server" THEN Address(elements[p]) ELSE NULL
    BY <1>1, <1>3, <1>4, <1>5, <1>7, LedIsRouted
  <2> QED
    BY <1>4, <1>7, <2>1 DEF Orphan
<1> QED
  BY <1>6, <1>7

-----------------------------------------------------------------------------
(* A server enters the ring.                                               *)

LEMMA AddedRoutes ==
  ASSUME NEW elems \in [Slots -> Elements], NEW w \in Seq(Frames), NEW st,
         CallsFit(elems, w), RoutesFit(elems, w, st), w # << >> => Head(w).op = "add",
         NEW h \in Slots, elems[h].type = "empty", NEW e \in ServerElements,
         NEW f \in Frames, f.op = "add", f.at = h, f.e = e,
         SlotOf(e.ip, e.port) = h, w = << >> => e.ip[2] = Plain
  PROVE  RoutesFit([elems EXCEPT ![h] = e], <<f>> \o w, st)
<1> DEFINE after == [elems EXCEPT ![h] = e]
           g     == <<f>> \o w
<1>1. /\ g[1] = f /\ 1 \in DOMAIN g /\ g # << >> /\ Head(g) = f
      /\ \A i \in DOMAIN g : i \in Nat /\ (i # 1 => i - 1 \in DOMAIN w /\ g[i] = w[i - 1])
      /\ \A i \in DOMAIN w : i + 1 \in DOMAIN g /\ g[i + 1] = w[i] /\ w[i] \in Frames /\ i \in Nat
  BY StackFacts
<1>2. Ats(g) = Ats(w) \cup {h}
  BY AtsPushed
<1>3. /\ \A s \in Slots : after[s] = IF s = h THEN e ELSE elems[s]
      /\ e.type = "server" /\ elems[h].type # "key"
  BY ElementKinds
<1>4. \A a \in Ats(w) : a \in Slots /\ elems[a].type = "server" /\ a # h /\ w # << >>
  <2>1. \A a \in Ats(w) : w # << >>
    BY DEF Ats
  <2>2. \A a \in Ats(w) : elems[a].type = "server" /\ a \in Places
    BY <2>1, SlotsOfCalls
  <2> QED
    BY <2>1, <2>2, PointerFacts
<1> HIDE DEF g, after
<1>5. ServersOf(after) = ServersOf(elems) \cup {h} /\ h \notin ServersOf(elems)
  BY <1>3 DEF ServersOf
<1>6. KeysOf(after) = KeysOf(elems) /\ h \notin KeysOf(elems)
  BY <1>3 DEF KeysOf
<1>7. ServersNamed(after, g)
  <2>1. ASSUME NEW x \in ServersOf(elems)
        PROVE  Known(after, x) /\ (x \notin Ats(g) => Marked(after, x))
    <3>1. after[x] = elems[x]
      BY <1>3, <1>5 DEF ServersOf
    <3> QED
      BY <3>1, <1>2 DEF RoutesFit, ServersNamed, Known, Marked
  <2>2. Known(after, h) /\ h \in Ats(g)
    BY <1>2, <1>3 DEF Known
  <2> QED
    BY <2>1, <2>2, <1>5 DEF ServersNamed
<1>8. CallsNamed(after, g)
  <2> SUFFICES ASSUME NEW i \in DOMAIN g, g[i].op = "add"
               PROVE  /\ after[g[i].at].ip = g[i].e.ip /\ after[g[i].at].port = g[i].e.port
                      /\ SlotOf(g[i].e.ip, g[i].e.port) = g[i].at
                      /\ i + 1 \notin DOMAIN g => g[i].e.ip[2] = Plain
    BY DEF CallsNamed
  <2>1. CASE i = 1
    <3>1. w # << >> => 1 \in DOMAIN w
      BY StackFacts
    <3> QED
      BY <1>1, <1>3, <2>1, <3>1
  <2>2. CASE i # 1
    <3> DEFINE j == i - 1
    <3>1. j \in DOMAIN w /\ g[i] = w[j] /\ j \in Nat /\ j + 1 = i
      BY <1>1, <2>2
    <3> HIDE DEF j
    <3>2. /\ elems[w[j].at].ip = w[j].e.ip /\ elems[w[j].at].port = w[j].e.port
          /\ SlotOf(w[j].e.ip, w[j].e.port) = w[j].at
          /\ j + 1 \notin DOMAIN w => w[j].e.ip[2] = Plain
      BY <3>1 DEF RoutesFit, CallsNamed
    <3>3. w[j].at \in Ats(w)
      BY <3>1 DEF Ats
    <3>4. after[w[j].at] = elems[w[j].at]
      BY <3>3, <1>3, <1>4
    <3>5. j + 1 \in DOMAIN w => i + 1 \in DOMAIN g
      BY <1>1, <3>1
    <3> QED
      BY <3>1, <3>2, <3>4, <3>5
  <2> QED
    BY <2>1, <2>2
<1>9. KeysLed(after, g, st)
  <2> SUFFICES ASSUME NEW s \in KeysOf(elems) \ st, Settled(after, g, s)
               PROVE  \E o \in Slots : Owns(after, o, s) /\ Led(after, s, o)
    BY <1>6 DEF KeysLed
  <2>1. s \in Slots /\ \A x \in Slots : Clock(x, s) \in Nat
    BY ClockFacts DEF KeysOf
  <2>2. \A x \in ServersOf(elems) : x \in Slots
    BY DEF ServersOf
  <2>3. PICK y \in ServersOf(elems) : Clock(y, s) < Clock(h, s)
    BY <1>2, <1>5, <2>1 DEF Settled
  <2>4. Settled(elems, w, s)
    <3> SUFFICES ASSUME NEW a \in Ats(w)
                 PROVE  \E x \in ServersOf(elems) : Clock(x, s) < Clock(a, s)
      BY DEF Settled
    <3>1. PICK x \in ServersOf(elems) \cup {h} : Clock(x, s) < Clock(a, s)
      BY <1>2, <1>5 DEF Settled
    <3>2. CASE x = h
      BY <3>1, <3>2, <2>1, <2>2, <2>3, <1>4
    <3> QED
      BY <3>1, <3>2
  <2>5. PICK o \in Slots : Owns(elems, o, s) /\ Led(elems, s, o)
    BY <2>4 DEF RoutesFit, KeysLed
  <2>6. Owns(after, o, s)
    BY <1>5, <2>1, <2>2, <2>3, <2>5 DEF Owns
  <2>7. Led(after, s, o)
    <3>1. o # h /\ s # h
      BY <1>5, <1>6, <2>5 DEF Owns
    <3> QED
      BY <3>1, <1>3, <2>1, <2>5 DEF Led
  <2> QED
    BY <2>6, <2>7
<1>10. FirstAdded(after, g, st)
  <2> SUFFICES ASSUME ServersOf(elems) \subseteq Ats(w)
               PROVE  KeysOf(elems) \subseteq st
    BY <1>2, <1>5, <1>6 DEF FirstAdded
  <2>1. CASE w # << >>
    BY <2>1 DEF RoutesFit, FirstAdded
  <2>2. CASE w = << >>
    <3>1. Ats(w) = {}
      BY <2>2 DEF Ats
    <3> QED
      BY <3>1 DEF RoutesFit, KeysLed, Settled, Owns
  <2> QED
    BY <2>1, <2>2
<1>11. RoutesFit(after, g, st)
  BY <1>1, <1>7, <1>8, <1>9, <1>10 DEF RoutesFit
<1> QED
  BY <1>11 DEF after, g

-----------------------------------------------------------------------------
(* A server leaves the ring.                                               *)

LEMMA RemovedRoutes ==
  ASSUME NEW elems \in [Slots -> Elements], NEW w \in Seq(Frames), NEW st,
         CallsFit(elems, w), RoutesFit(elems, w, st), w # << >> => Head(w).op = "del",
         NEW h \in Slots, elems[h].type = "server", DelRequests # {},
         NEW f \in Frames, f.op = "del", f.at = h
  PROVE  RoutesFit([elems EXCEPT ![h] = Empty], <<f>> \o w, st)
<1> DEFINE after == [elems EXCEPT ![h] = Empty]
           g     == <<f>> \o w
<1>1. /\ g[1] = f /\ g # << >> /\ Head(g) = f
      /\ \A i \in DOMAIN g : i # 1 => i - 1 \in DOMAIN w /\ g[i] = w[i - 1]
      /\ w # << >> => Head(w) = w[1]
  BY StackFacts
<1>2. Ats(g) = Ats(w) \cup {h}
  BY AtsPushed
<1>3. \A s \in Slots : after[s] = IF s = h THEN Empty ELSE elems[s]
  OBVIOUS
<1>4. \A i \in DOMAIN g : g[i].op # "add"
  BY <1>1 DEF CallsFit
<1> HIDE DEF g, after
<1>5. ServersOf(after) = ServersOf(elems) \ {h} /\ h \in ServersOf(elems)
  BY <1>3, ElementKinds DEF ServersOf
<1>6. KeysOf(after) = KeysOf(elems) /\ h \notin KeysOf(elems)
  BY <1>3, ElementKinds DEF KeysOf
<1>7. ServersNamed(after, g)
  <2>1. ASSUME NEW x \in ServersOf(elems), x # h
        PROVE  Known(after, x) /\ (x \notin Ats(g) => Marked(after, x))
    <3>1. after[x] = elems[x]
      BY <1>3, <2>1 DEF ServersOf
    <3> QED
      BY <3>1, <1>2 DEF RoutesFit, ServersNamed, Known, Marked
  <2> QED
    BY <2>1, <1>5 DEF ServersNamed
<1>8. CallsNamed(after, g)
  BY <1>4 DEF CallsNamed
<1>9. KeysLed(after, g, st)
  <2> SUFFICES ASSUME NEW s \in KeysOf(elems) \ st, Settled(after, g, s)
               PROVE  \E o \in Slots : Owns(after, o, s) /\ Led(after, s, o)
    BY <1>6 DEF KeysLed
  <2>1. s \in Slots /\ \A x \in Slots : Clock(x, s) \in Nat
    BY ClockFacts DEF KeysOf
  <2>2. \A x \in ServersOf(elems) : x \in Slots
    BY DEF ServersOf
  <2>3. PICK y \in ServersOf(elems) : Clock(y, s) < Clock(h, s)
    BY <1>2, <1>5, <2>1 DEF Settled
  <2>4. Settled(elems, w, s)
    BY <1>2, <1>5 DEF Settled
  <2>5. PICK o \in Slots : Owns(elems, o, s) /\ Led(elems, s, o)
    BY <2>4 DEF RoutesFit, KeysLed
  <2>6. o # h
    BY <2>1, <2>2, <2>3, <2>5 DEF Owns
  <2>7. Owns(after, o, s)
    BY <1>5, <2>5, <2>6 DEF Owns
  <2>8. Led(after, s, o)
    BY <1>3, <1>6, <2>1, <2>5, <2>6 DEF Led
  <2> QED
    BY <2>7, <2>8
<1>10. FirstAdded(after, g, st)
  BY <1>1 DEF FirstAdded
<1>11. RoutesFit(after, g, st)
  BY <1>1, <1>7, <1>8, <1>9, <1>10 DEF RoutesFit
<1> QED
  BY <1>11 DEF after, g

-----------------------------------------------------------------------------
(* The call on top moves, and names are cut.                               *)

LEMMA MovedRoutes ==
  ASSUME NEW elems, NEW w \in Seq(Frames), NEW st, w # << >>,
         CallsFit(elems, w), RoutesFit(elems, w, st),
         NEW f \in Frames, f.op = Head(w).op, f.at = Head(w).at, f.e = Head(w).e
  PROVE  RoutesFit(elems, <<f>> \o Tail(w), st)
<1> DEFINE v == Tail(w)
           g == <<f>> \o v
<1>1. Ats(g) = Ats(w) /\ g # << >> /\ Head(g) = f
  BY Moved
<1>2. /\ 1 \in DOMAIN w /\ Head(w) = w[1] /\ v \in Seq(Frames)
      /\ \A i \in DOMAIN v : i + 1 \in DOMAIN w /\ v[i] = w[i + 1] /\ i \in Nat
      /\ \A i \in DOMAIN w : i \in Nat /\ (i # 1 => i - 1 \in DOMAIN v)
  BY StackFacts
<1>3. /\ g[1] = f
      /\ \A i \in DOMAIN g : i \in Nat /\ (i # 1 => i - 1 \in DOMAIN v /\ g[i] = v[i - 1])
      /\ 1 \in DOMAIN g /\ \A i \in DOMAIN v : i + 1 \in DOMAIN g
  BY <1>2, StackFacts
<1> HIDE DEF g, v
<1>4. \A i \in DOMAIN g : /\ i \in DOMAIN w /\ i \in Nat
                          /\ g[i].op = w[i].op /\ g[i].at = w[i].at /\ g[i].e = w[i].e
  <2> SUFFICES ASSUME NEW i \in DOMAIN g
               PROVE  /\ i \in DOMAIN w /\ i \in Nat
                      /\ g[i].op = w[i].op /\ g[i].at = w[i].at /\ g[i].e = w[i].e
    OBVIOUS
  <2>1. CASE i = 1
    BY <2>1, <1>2, <1>3
  <2>2. CASE i # 1
    <3>1. i - 1 \in DOMAIN v /\ g[i] = v[i - 1] /\ i \in Nat
      BY <2>2, <1>3
    <3>2. (i - 1) + 1 \in DOMAIN w /\ g[i] = w[(i - 1) + 1] /\ (i - 1) + 1 = i
      BY <3>1, <1>2
    <3> QED
      BY <3>1, <3>2
  <2> QED
    BY <2>1, <2>2
<1>5. \A i \in DOMAIN w : i \in DOMAIN g
  <2> SUFFICES ASSUME NEW i \in DOMAIN w, i # 1
               PROVE  i \in DOMAIN g
    BY <1>3
  <2>1. i - 1 \in DOMAIN v /\ i \in Nat
    BY <1>2
  <2>2. (i - 1) + 1 \in DOMAIN g /\ (i - 1) + 1 = i
    BY <2>1, <1>3
  <2> QED
    BY <2>2
<1>6. CallsNamed(elems, g)
  BY <1>4, <1>5 DEF RoutesFit, CallsNamed
<1>7. ServersNamed(elems, g) /\ KeysLed(elems, g, st) /\ FirstAdded(elems, g, st)
  BY <1>1 DEF RoutesFit, ServersNamed, KeysLed, Settled, FirstAdded
<1>8. RoutesFit(elems, g, st)
  BY <1>1, <1>6, <1>7 DEF RoutesFit
<1> QED
  BY <1>8 DEF g, v

(* The same keys, and servers whose names may have been cut.               *)
CutFrom(a, b) ==
  /\ SameKinds(a, b)
  /\ \A s \in KeysOf(b) : a[s] = b[s]
  /\ \A h \in ServersOf(b) :
       /\ a[h].ip[1] = b[h].ip[1] /\ a[h].port = b[h].port
       /\ a[h].isvirtualnode = b[h].isvirtualnode
       /\ a[h].numberofvirtualnodes = b[h].numberofvirtualnodes
       /\ a[h].ip = b[h].ip \/ a[h].ip[2] = Plain

LEMMA CutRoutes ==
  ASSUME NEW a, NEW b, CutFrom(a, b), NEW st, RoutesFit(b, << >>, st)
  PROVE  RoutesFit(a, << >>, st)
<1>1. ServersOf(a) = ServersOf(b) /\ KeysOf(a) = KeysOf(b)
  BY SameKindsSets DEF CutFrom
<1>2. Ats(<< >>) = {}
  BY DEF Ats
<1>3. ServersNamed(a, << >>)
  BY <1>1, <1>2 DEF RoutesFit, ServersNamed, Known, Marked, CutFrom
<1>4. KeysLed(a, << >>, st)
  BY <1>1, <1>2 DEF RoutesFit, KeysLed, Settled, Owns, Led, CutFrom
<1> QED
  BY <1>3, <1>4 DEF RoutesFit, CallsNamed, FirstAdded

LEMMA ForwardedCuts ==
  ASSUME NEW elems \in [Slots -> Elements], NEW s \in Slots
  PROVE  CutFrom(Forwarded(elems, s), elems)
<1> DEFINE h == SlotOf(elems[s].store, elems[s].port)
<1> HIDE DEF h
<1>1. CASE elems[h].type = "server"
  <2>1. Forwarded(elems, s) = [elems EXCEPT ![h].ip = <<@[1], Plain>>]
    BY <1>1 DEF Forwarded, h
  <2>2. ASSUME NEW g \in Slots, g # h
        PROVE  Forwarded(elems, s)[g] = elems[g]
    BY <2>1, <2>2
  <2>3. ASSUME NEW g \in Slots, g = h
        PROVE  LET a == Forwarded(elems, s)[g]
                   b == elems[g]
               IN  /\ b.type = "server" /\ a.type = "server" /\ a.ip = <<b.ip[1], Plain>>
                   /\ a.port = b.port /\ a.isvirtualnode = b.isvirtualnode
                   /\ a.numberofvirtualnodes = b.numberofvirtualnodes
    <3>1. Forwarded(elems, s)[g] = [elems[g] EXCEPT !.ip = <<@[1], Plain>>]
      BY <2>1, <2>3
    <3>2. elems[g] \in ServerElements
      BY <1>1, <2>3, ElementKinds
    <3> QED
      BY <3>1, <3>2 DEF ServerElements
  <2>4. ASSUME NEW g \in Slots
        PROVE  LET a == Forwarded(elems, s)[g]
                   b == elems[g]
               IN  /\ a.type = b.type /\ (b.type = "key" => a = b)
                   /\ b.type = "server" =>
                        /\ a.ip[1] = b.ip[1] /\ a.port = b.port /\ a.isvirtualnode = b.isvirtualnode
                        /\ a.numberofvirtualnodes = b.numberofvirtualnodes
                        /\ a.ip = b.ip \/ a.ip[2] = Plain
    BY <2>2, <2>3
  <2> QED
    BY <2>4 DEF CutFrom, SameKinds, KeysOf, ServersOf
<1>2. CASE elems[h].type # "server"
  BY <1>2 DEF Forwarded, h, CutFrom, SameKinds
<1> QED
  BY <1>1, <1>2

-----------------------------------------------------------------------------
(* What the end of a call writes.                                          *)

LEMMA UpdatedNames ==
  ASSUME NEW elems \in [Slots -> Elements]
  PROVE  /\ \A g \in ServersOf(elems) :
              /\ RangesUpdated(elems)[g].ip = elems[g].ip
              /\ RangesUpdated(elems)[g].port = elems[g].port
              /\ RangesUpdated(elems)[g].isvirtualnode = elems[g].isvirtualnode
              /\ RangesUpdated(elems)[g].numberofvirtualnodes = elems[g].numberofvirtualnodes
         /\ \A s \in KeysOf(elems) : RangesUpdated(elems)[s] = elems[s]
<1>1. \A g \in Slots : RangesUpdated(elems)[g] = IF g \in NodesArray(elems)
                                                 THEN [elems[g] EXCEPT !.rangeend = RangeEnd(elems, g)]
                                                 ELSE elems[g]
  BY DEF RangesUpdated
<1>2. ASSUME NEW g \in ServersOf(elems)
      PROVE  /\ RangesUpdated(elems)[g].ip = elems[g].ip
             /\ RangesUpdated(elems)[g].port = elems[g].port
             /\ RangesUpdated(elems)[g].isvirtualnode = elems[g].isvirtualnode
             /\ RangesUpdated(elems)[g].numberofvirtualnodes = elems[g].numberofvirtualnodes
  <2>1. g \in Slots /\ elems[g] \in ServerElements
    BY ElementKinds DEF ServersOf
  <2> QED
    BY <2>1, <1>1 DEF ServerElements
<1>3. ASSUME NEW s \in KeysOf(elems)
      PROVE  RangesUpdated(elems)[s] = elems[s]
  <2>1. s \in Slots /\ s \notin NodesArray(elems)
    BY DEF KeysOf, NodesArray
  <2> QED
    BY <2>1, <1>1
<1> QED
  BY <1>2, <1>3

LEMMA FinishAddWrites ==
  ASSUME IInv, FinishAdd, shadowed = {}, Top.at \in ServersOf(elements)
  PROVE  /\ \A g \in ServersOf(elements) :
              /\ elements'[g].ip = elements[g].ip /\ elements'[g].port = elements[g].port
              /\ elements[g].isvirtualnode => elements'[g].isvirtualnode
              /\ elements'[g].numberofvirtualnodes = elements[g].numberofvirtualnodes
         /\ Below # << >> => elements'[Top.at].isvirtualnode
         /\ \A s \in KeysOf(elements) :
              IF numberofservers > 1 /\ s \in Arc(elements, Top.at)
              THEN elements'[s].store = Top.e.ip /\ elements'[s].port = Top.e.port
              ELSE elements'[s] = elements[s]
         /\ stale' = IF numberofservers > 1 THEN stale \ Arc(elements, Top.at) ELSE stale
<1> DEFINE h        == Top.at
           ranged   == RangesUpdated(elements)
           remapped == IF numberofservers > 1 THEN RemappedAdd(ranged, h, Top.e) ELSE ranged
           marked   == [remapped EXCEPT ![h].isvirtualnode = TRUE]
<1>1. /\ status = "ok" /\ work # << >> /\ ArrayFits(elements, numberofservers)
      /\ elements' = IF Below = << >> THEN remapped ELSE marked
      /\ stale' = IF numberofservers > 1 THEN stale \ RangeOf(ranged, h) ELSE stale
  BY DEF FinishAdd, In
<1>2. elements \in [Slots -> Elements] /\ Top.e \in ServerElements /\ h \in Slots
  BY <1>1, CountsNow, TopFrame
<1>3. /\ ranged \in [Slots -> Elements] /\ Ranged(ranged)
      /\ ServersOf(ranged) = ServersOf(elements) /\ KeysOf(ranged) = KeysOf(elements)
  BY <1>1, <1>2, ArrayHoldsServers, UpdatedIsRanged, RangesUpdatedType, SameKindsSets
<1>4. /\ \A g \in ServersOf(elements) : /\ ranged[g].ip = elements[g].ip
                                        /\ ranged[g].port = elements[g].port
                                        /\ ranged[g].isvirtualnode = elements[g].isvirtualnode
                                        /\ ranged[g].numberofvirtualnodes
                                             = elements[g].numberofvirtualnodes
      /\ \A s \in KeysOf(elements) : ranged[s] = elements[s]
  BY <1>2, UpdatedNames
<1>5. RangeOf(ranged, h) = Arc(elements, h)
  <2>1. Arc(ranged, h) = Arc(elements, h)
    BY <1>3 DEF Arc
  <2> QED
    BY <2>1, <1>3, RangeIsArc
<1> HIDE DEF ranged
<1>6. /\ remapped \in [Slots -> Elements] /\ SameKinds(remapped, ranged)
  BY <1>2, <1>3, RemappedAddType DEF SameKinds
<1>7. \A g \in ServersOf(elements) : g \in Slots /\ remapped[g] = ranged[g] /\ remapped[g] \in ServerElements
  BY <1>3, ElementKinds DEF ServersOf, RemappedAdd
<1>8. ASSUME NEW s \in KeysOf(elements)
      PROVE  IF numberofservers > 1 /\ s \in Arc(elements, h)
             THEN remapped[s].store = Top.e.ip /\ remapped[s].port = Top.e.port
             ELSE remapped[s] = elements[s]
  <2>1. s \in Slots /\ ranged[s] \in KeyElements /\ ranged[s].type = "key" /\ ranged[s] = elements[s]
    BY <1>3, <1>4, ElementKinds DEF KeysOf
  <2>2. CASE numberofservers > 1
    <3>1. remapped[s] = IF s \in Arc(elements, h)
                        THEN [ranged[s] EXCEPT !.store = Top.e.ip, !.port = Top.e.port]
                        ELSE ranged[s]
      BY <2>1, <2>2, <1>5 DEF RemappedAdd
    <3> QED
      BY <3>1, <2>1, <2>2 DEF KeyElements
  <2>3. CASE ~(numberofservers > 1)
    BY <2>1, <2>3
  <2> QED
    BY <2>2, <2>3
<1> HIDE DEF remapped
<1>9. /\ \A g \in Slots : g # h => marked[g] = remapped[g]
      /\ marked[h] = [remapped[h] EXCEPT !.isvirtualnode = TRUE]
  BY <1>2, <1>6
<1>10. /\ marked[h].ip = remapped[h].ip /\ marked[h].port = remapped[h].port
       /\ marked[h].isvirtualnode
       /\ marked[h].numberofvirtualnodes = remapped[h].numberofvirtualnodes
  BY <1>7, <1>9 DEF ServerElements
<1>11. \A s \in KeysOf(elements) : s \in Slots /\ s # h
  BY DEF KeysOf, ServersOf
<1> HIDE DEF marked
<1>12. ASSUME NEW g \in ServersOf(elements)
       PROVE  /\ elements'[g].ip = elements[g].ip /\ elements'[g].port = elements[g].port
              /\ elements[g].isvirtualnode => elements'[g].isvirtualnode
              /\ elements'[g].numberofvirtualnodes = elements[g].numberofvirtualnodes
  <2>1. CASE Below = << >> \/ g # h
    <3>1. elements'[g] = remapped[g]
      BY <2>1, <1>1, <1>7, <1>9
    <3> QED
      BY <3>1, <1>4, <1>7
  <2>2. CASE Below # << >> /\ g = h
    BY <2>2, <1>1, <1>4, <1>7, <1>10
  <2> QED
    BY <2>1, <2>2
<1>13. \A s \in KeysOf(elements) : elements'[s] = remapped[s]
  BY <1>1, <1>9, <1>11
<1>14. Below # << >> => elements'[h].isvirtualnode
  BY <1>1, <1>10
<1> QED
  BY <1>1, <1>5, <1>8, <1>12, <1>13, <1>14

LEMMA FinishRemoveWrites ==
  ASSUME IInv, FinishRemove, shadowed = {}
  PROVE  /\ \A g \in ServersOf(elements) :
              /\ elements'[g].ip = elements[g].ip /\ elements'[g].port = elements[g].port
              /\ elements'[g].isvirtualnode = elements[g].isvirtualnode
              /\ elements'[g].numberofvirtualnodes = elements[g].numberofvirtualnodes
         /\ \A s \in KeysOf(elements) :
              IF numberofservers > 0 /\ s \in Arc(elements, Top.at)
              THEN /\ elements'[s].store = elements[Owner(elements, Top.at)].ip
                   /\ elements'[s].port = elements[s].port
              ELSE elements'[s] = elements[s]
         /\ stale' = IF numberofservers > 0 THEN stale \ Arc(elements, Top.at)
                     ELSE stale \cup KeysOf(elements)
         /\ numberofservers > 0 => ServersOf(elements) # {}
<1> DEFINE h      == Top.at
           ranged == RangesUpdated(elements)
<1>1. /\ status = "ok" /\ work # << >> /\ ArrayFits(elements, numberofservers)
      /\ IF numberofservers > 0
         THEN elements' = RemappedDel(ranged, h) /\ stale' = stale \ Arc(elements, h)
         ELSE elements' = elements /\ stale' = stale \cup KeysOf(elements)
  BY DEF FinishRemove, In
<1>2. elements \in [Slots -> Elements] /\ h \in Slots
  BY <1>1, CountsNow, TopFrame
<1>3. /\ ranged \in [Slots -> Elements]
      /\ ServersOf(ranged) = ServersOf(elements) /\ KeysOf(ranged) = KeysOf(elements)
  BY <1>2, RangesUpdatedType, SameKindsSets
<1>4. /\ \A g \in ServersOf(elements) : /\ ranged[g].ip = elements[g].ip
                                        /\ ranged[g].port = elements[g].port
                                        /\ ranged[g].isvirtualnode = elements[g].isvirtualnode
                                        /\ ranged[g].numberofvirtualnodes
                                             = elements[g].numberofvirtualnodes
      /\ \A s \in KeysOf(elements) : ranged[s] = elements[s]
  BY <1>2, UpdatedNames
<1>5. Arc(ranged, h) = Arc(elements, h) /\ Owner(ranged, h) = Owner(elements, h)
  BY <1>3 DEF Arc, Owner
<1>6. numberofservers > 0 => ServersOf(elements) # {}
  <2>1. numberofservers = Cardinality(ServersOf(elements))
    BY ServersCounted
  <2> QED
    BY <2>1, FS_EmptySet
<1> HIDE DEF ranged
<1>7. CASE numberofservers > 0
  <2>1. Owner(elements, h) \in ServersOf(elements)
    BY <1>2, <1>6, <1>7, OwnerIsServer
  <2>2. ranged[Owner(elements, h)].ip = elements[Owner(elements, h)].ip
    BY <2>1, <1>4
  <2>3. \A s \in Slots : elements'[s] = IF s \in Arc(elements, h) /\ ranged[s].type = "key"
                                        THEN [ranged[s] EXCEPT !.store = ranged[Owner(elements, h)].ip]
                                        ELSE ranged[s]
    BY <1>1, <1>5, <1>7 DEF RemappedDel
  <2>4. \A g \in ServersOf(elements) : elements'[g] = ranged[g]
    BY <2>3, <1>3 DEF ServersOf
  <2>5. ASSUME NEW s \in KeysOf(elements)
        PROVE  IF s \in Arc(elements, h)
               THEN /\ elements'[s].store = elements[Owner(elements, h)].ip
                    /\ elements'[s].port = elements[s].port
               ELSE elements'[s] = elements[s]
    <3>1. s \in Slots /\ ranged[s] \in KeyElements /\ ranged[s].type = "key" /\ ranged[s] = elements[s]
      BY <1>3, <1>4, ElementKinds DEF KeysOf
    <3>2. elements'[s] = IF s \in Arc(elements, h)
                         THEN [ranged[s] EXCEPT !.store = ranged[Owner(elements, h)].ip]
                         ELSE ranged[s]
      BY <3>1, <2>3
    <3> QED
      BY <3>1, <3>2, <2>2 DEF KeyElements
  <2> QED
    BY <2>4, <2>5, <1>1, <1>4, <1>6, <1>7
<1>8. CASE ~(numberofservers > 0)
  BY <1>1, <1>8
<1> QED
  BY <1>7, <1>8

-----------------------------------------------------------------------------
(* Calls begin.                                                            *)

LEMMA EnterAddRoutes ==
  ASSUME IInv, status = "ok", NEW name \in Names, NEW port \in Ports,
         NEW weight \in 0 .. MaxWeight, NEW below \in Seq(Frames),
         EnterAdd(name, port, weight, below), CallsFit(elements, below),
         below # << >> => Head(below).op = "add",
         RoutesFit(elements, below, stale), below = << >> => name[2] = Plain
  PROVE  RoutesFit(elements', work', stale) /\ fn' = fn
<1> DEFINE h == SlotOf(name, port)
<1>1. h \in Places /\ h \in Slots
  BY SlotOfType, PointerFacts DEF IInv, TypeOK
<1>2. CASE elements[h].type # "empty"
  BY <1>2 DEF EnterAdd, ring
<1>3. CASE elements[h].type = "empty"
  <2>1. PICK virtual \in Uninit :
          LET e == Server(name, port, weight, virtual)
          IN  /\ elements' = [elements EXCEPT ![h] = e]
              /\ work' = <<Frame("add", h, e)>> \o below
    BY <1>3 DEF EnterAdd
  <2> DEFINE e == Server(name, port, weight, virtual)
             f == Frame("add", h, e)
  <2>2. e \in ServerElements /\ e.ip = name /\ e.port = port
    BY RingAssumption, PointerFacts DEF Server, ServerElements, Slots
  <2>3. fn' = fn /\ SlotOf(e.ip, e.port) = h
    BY <1>3, <2>2 DEF EnterAdd
  <2> HIDE DEF e, h
  <2>4. f \in Frames /\ f.at = h /\ f.op = "add" /\ f.e = e
    BY <1>1, <2>2, NewFrame DEF Frame
  <2> HIDE DEF f
  <2>5. work' = <<f>> \o below /\ elements' = [elements EXCEPT ![h] = e]
    BY <2>1 DEF f, e
  <2>6. elements \in [Slots -> Elements]
    BY CountsNow
  <2>7. RoutesFit([elements EXCEPT ![h] = e], <<f>> \o below, stale)
    BY <1>1, <1>3, <2>2, <2>3, <2>4, <2>6, AddedRoutes
  <2> QED
    BY <2>3, <2>5, <2>7
<1> QED
  BY <1>2, <1>3

LEMMA EnterRemoveRoutes ==
  ASSUME IInv, status = "ok", NEW name \in Names, NEW port \in Ports,
         NEW below \in Seq(Frames), EnterRemove(name, port, below), CallsFit(elements, below),
         below # << >> => Head(below).op = "del",
         RoutesFit(elements, below, stale), DelRequests # {}
  PROVE  RoutesFit(elements', work', stale) /\ fn' = fn
<1> DEFINE h == SlotOf(name, port)
           f == Frame("del", h, elements[h])
<1>1. h \in Places /\ h \in Slots
  BY SlotOfType, PointerFacts DEF IInv, TypeOK
<1>2. CASE elements[h].type # "server"
  BY <1>2 DEF EnterRemove, ring
<1>3. CASE elements[h].type = "server"
  <2>1. /\ elements' = [elements EXCEPT ![h] = Empty]
        /\ work' = <<f>> \o below /\ fn' = fn
    BY <1>3 DEF EnterRemove
  <2> HIDE DEF h
  <2>2. elements \in [Slots -> Elements] /\ elements[h] \in ServerElements
    BY <1>1, <1>3, CountsNow, ElementKinds
  <2>3. f \in Frames /\ f.at = h /\ f.op = "del"
    BY <1>1, <2>2, NewFrame DEF Frame
  <2> HIDE DEF f
  <2>4. RoutesFit([elements EXCEPT ![h] = Empty], <<f>> \o below, stale)
    BY <1>1, <1>3, <2>2, <2>3, RemovedRoutes
  <2> QED
    BY <2>1, <2>4
<1> QED
  BY <1>2, <1>3

(* The call on top has counted one more virtual node.                      *)
LEMMA CountedRoutes ==
  ASSUME TInv, work # << >>, Top.i < Top.e.numberofvirtualnodes, RoutesFit(elements, work, stale)
  PROVE  /\ Counted \in Seq(Frames) /\ CallsFit(elements, Counted) /\ Counted # << >>
         /\ Head(Counted).op = Top.op /\ RoutesFit(elements, Counted, stale)
<1> DEFINE f == [Top EXCEPT !.i = @ + 1]
<1>1. Top \in Frames /\ Top = Head(work) /\ Below = Tail(work) /\ work \in Seq(Frames)
      /\ CallsFit(elements, work)
  BY WorkFacts
<1>2. Counted \in Seq(Frames) /\ Counted = <<f>> \o Tail(work)
  BY <1>1, NextVirtual DEF Counted, TInv
<1>3. f \in Frames /\ f.op = Top.op /\ f.at = Top.at /\ f.e = Top.e
  <2>1. Top.i + 1 \in 0 .. MaxWeight
    BY TopFrame, NameTypes DEF TInv
  <2> QED
    BY <1>1, <2>1 DEF Frames
<1> HIDE DEF f
<1>4. /\ CallsFit(elements, <<f>> \o Tail(work)) /\ <<f>> \o Tail(work) # << >>
      /\ Head(<<f>> \o Tail(work)) = f
  BY <1>1, <1>3, Moved
<1>5. RoutesFit(elements, <<f>> \o Tail(work), stale)
  BY <1>1, <1>3, MovedRoutes
<1> QED
  BY <1>2, <1>3, <1>4, <1>5

LEMMA VirtualRoutes ==
  ASSUME TInv, RoutesSound, AddVirtual \/ RemoveVirtual
  PROVE  RoutesSound'
<1> SUFFICES ASSUME shadowed' = {}
             PROVE  RoutesFit(elements', work', stale') /\ fn' = fn
  <2>1. fn' = fn
    <3>1. CASE AddVirtual
      BY <3>1 DEF AddVirtual, EnterAdd, ring
    <3>2. CASE RemoveVirtual
      <4>1. \/ EnterRemove(<<Top.e.ip[1], Top.i>>, Top.e.port, Counted)
            \/ UNCHANGED ring
        BY <3>2 DEF RemoveVirtual
      <4> QED
        BY <4>1 DEF EnterRemove, ring
    <3> QED
      BY <3>1, <3>2
  <2> QED
    BY <2>1, RoutesThen
<1>1. /\ status = "ok" /\ work # << >> /\ Top.i < Top.e.numberofvirtualnodes
      /\ shadowed = {} /\ stale' = stale
  BY DEF AddVirtual, RemoveVirtual, In, history
<1>2. RoutesFit(elements, work, stale)
  BY <1>1 DEF RoutesSound
<1>3. /\ Counted \in Seq(Frames) /\ CallsFit(elements, Counted) /\ Counted # << >>
      /\ Head(Counted).op = Top.op /\ RoutesFit(elements, Counted, stale)
  BY <1>1, <1>2, CountedRoutes
<1>4. /\ <<Top.e.ip[1], Top.i>> \in Names /\ Top.e.port \in Ports /\ 0 \in 0 .. MaxWeight
  BY <1>1, NextVirtual, TopFrame, NameTypes DEF TInv
<1>5. CASE AddVirtual
  <2>1. EnterAdd(<<Top.e.ip[1], Top.i>>, Top.e.port, 0, Counted) /\ Top.op = "add"
    BY <1>5 DEF AddVirtual, In
  <2> QED
    BY <1>1, <1>3, <1>4, <2>1, EnterAddRoutes DEF TInv
<1>6. CASE RemoveVirtual
  <2>1. /\ \/ EnterRemove(<<Top.e.ip[1], Top.i>>, Top.e.port, Counted)
           \/ work' = Counted /\ UNCHANGED ring
        /\ Top.op = "del"
    BY <1>6 DEF RemoveVirtual, In
  <2>2. DelRequests # {}
    BY <1>1, <1>2, <2>1 DEF RoutesFit, Top
  <2>3. CASE EnterRemove(<<Top.e.ip[1], Top.i>>, Top.e.port, Counted)
    BY <1>1, <1>3, <1>4, <2>1, <2>2, <2>3, EnterRemoveRoutes DEF TInv
  <2>4. CASE work' = Counted /\ UNCHANGED ring
    BY <1>1, <1>3, <2>4 DEF ring
  <2> QED
    BY <2>1, <2>3, <2>4
<1> QED
  BY <1>5, <1>6

(* A walk of the tree only moves the call on top.                          *)
LEMMA Walked ==
  ASSUME TInv, BeginInsert \/ InsertStep \/ BeginRemove \/ FindMinStep
  PROVE  /\ status = "ok" /\ work # << >>
         /\ UNCHANGED <<elements, fn, stale, shadowed, before>>
         /\ \E f \in Frames :
              work' = <<f>> \o Below /\ f.op = Top.op /\ f.at = Top.at /\ f.e = Top.e
<1>0. /\ status = "ok" /\ work # << >>
      /\ UNCHANGED <<elements, fn, stale, shadowed, before>>
  BY DEF BeginInsert, InsertStep, BeginRemove, FindMinStep, In, ring, history
<1> SUFFICES \E f \in Frames :
               work' = <<f>> \o Below /\ f.op = Top.op /\ f.at = Top.at /\ f.e = Top.e
  BY <1>0
<1>1. /\ Top \in Frames /\ Top.cur \in Pointers /\ Top.at \in Places /\ Null \in Pointers
      /\ tree.root \in Pointers
      /\ \A p \in Places : tree.left[p] \in Pointers /\ tree.right[p] \in Pointers
  BY <1>0, TopFrame, PointerFacts DEF TInv, IInv, TypeOK, RingTypeOK, Trees
<1>2. CASE BeginInsert
  <2> DEFINE f == [Top EXCEPT !.phase = "tree", !.cur = tree.root]
  <2>1. f \in Frames /\ f.op = Top.op /\ f.at = Top.at /\ f.e = Top.e
    BY <1>1 DEF Frames
  <2> QED
    BY <2>1, <1>2 DEF BeginInsert
<1>3. CASE InsertStep
  <2> DEFINE f == [Top EXCEPT !.cur = Child(tree, Top.cur, Top.at)]
  <2>1. Child(tree, Top.cur, Top.at) \in Pointers
    BY <1>1, <1>3 DEF InsertStep, Child
  <2>2. f \in Frames /\ f.op = Top.op /\ f.at = Top.at /\ f.e = Top.e
    BY <1>1, <2>1 DEF Frames
  <2> QED
    BY <2>2, <1>3 DEF InsertStep
<1>4. CASE BeginRemove
  <2> DEFINE c == IF HasPair(tree, Top.at) THEN tree.right[Top.at] ELSE Null
             f == [Top EXCEPT !.phase = "tree", !.cur = c]
  <2>1. c \in Pointers
    BY <1>1
  <2>2. work' = <<f>> \o Below
    BY <1>4 DEF BeginRemove
  <2> HIDE DEF c
  <2>3. f \in Frames /\ f.op = Top.op /\ f.at = Top.at /\ f.e = Top.e
    BY <1>1, <2>1 DEF Frames
  <2> QED
    BY <2>2, <2>3
<1>5. CASE FindMinStep
  <2> DEFINE f == [Top EXCEPT !.cur = tree.left[@]]
  <2>1. tree.left[Top.cur] \in Pointers
    BY <1>1, <1>5 DEF FindMinStep
  <2>2. f \in Frames /\ f.op = Top.op /\ f.at = Top.at /\ f.e = Top.e
    BY <1>1, <2>1 DEF Frames
  <2> QED
    BY <2>2, <1>5 DEF FindMinStep
<1> QED
  BY <1>2, <1>3, <1>4, <1>5

LEMMA WalkRoutes ==
  ASSUME TInv, RoutesSound, BeginInsert \/ InsertStep \/ BeginRemove \/ FindMinStep
  PROVE  RoutesSound'
<1>1. PICK f \in Frames : work' = <<f>> \o Below /\ f.op = Top.op /\ f.at = Top.at /\ f.e = Top.e
  BY Walked
<1>2. /\ status = "ok" /\ work # << >>
      /\ UNCHANGED <<elements, fn, stale, shadowed>>
  BY Walked
<1>3. ASSUME shadowed = {}
      PROVE  RoutesFit(elements, <<f>> \o Tail(work), stale)
  <2>1. /\ RoutesFit(elements, work, stale) /\ work \in Seq(Frames) /\ CallsFit(elements, work)
        /\ Top = Head(work)
    BY <1>2, <1>3, WorkFacts DEF RoutesSound
  <2> QED
    BY <1>1, <1>2, <2>1, MovedRoutes
<1>4. work' = <<f>> \o Tail(work)
  BY <1>1 DEF Below
<1> QED
  BY <1>2, <1>3, <1>4, RoutesThen

-----------------------------------------------------------------------------
(* Calls end.                                                              *)

LEMMA FinishAddRoutes ==
  ASSUME TInv, RoutesSound, FinishAdd
  PROVE  RoutesSound'
<1> DEFINE h == Top.at
<1>1. /\ status = "ok" /\ work # << >> /\ Top.op = "add" /\ work' = Below
      /\ fn' = fn /\ shadowed' = shadowed
  BY DEF FinishAdd, In
<1> SUFFICES ASSUME shadowed = {}
             PROVE  RoutesFit(elements', Below, stale')
  BY <1>1, RoutesThen
<1>2. RoutesFit(elements, work, stale) /\ IInv
  BY <1>1 DEF RoutesSound, TInv
<1>3. /\ CallsFit(elements, Below) /\ Ats(work) = Ats(Below) \cup {h} /\ h \notin Ats(Below)
      /\ Below # << >> => Head(Below).op = "add"
      /\ h \in Slots
  BY <1>1, BelowFits, TopFrame DEF TInv
<1>4. /\ Top \in Frames /\ Top = work[1] /\ 1 \in DOMAIN work /\ Below = Tail(work)
      /\ \A i \in DOMAIN Below : i + 1 \in DOMAIN work /\ Below[i] = work[i + 1] /\ i \in Nat
      /\ \A i \in DOMAIN work : i # 1 => i - 1 \in DOMAIN Below
  <2>1. work \in Seq(Frames) /\ Top = Head(work) /\ Below = Tail(work) /\ Below \in Seq(Frames)
    BY <1>1, WorkFacts
  <2> QED
    BY <1>1, <2>1, StackFacts
<1>5. h \in ServersOf(elements)
  <2>1. elements[h].type = "server"
    BY <1>1, <1>4 DEF TInv, CallsSound, CallsFit
  <2> QED
    BY <1>3, <2>1 DEF ServersOf
<1>6. SameKinds(elements', elements)
  BY <1>2, FinishAddKinds
<1>7. ServersOf(elements') = ServersOf(elements) /\ KeysOf(elements') = KeysOf(elements)
  BY <1>6, SameKindsSets
<1>8. /\ elements[h].ip = Top.e.ip /\ elements[h].port = Top.e.port
      /\ SlotOf(Top.e.ip, Top.e.port) = h
      /\ Below = << >> => Top.e.ip[2] = Plain
  <2>1. Below = << >> => 2 \notin DOMAIN work
    <3>1. ASSUME 2 \in DOMAIN work
          PROVE  Below # << >>
      <4>1. 2 - 1 \in DOMAIN Below
        BY <1>4, <3>1
      <4> QED
        BY <4>1
    <3> QED
      BY <3>1
  <2> QED
    BY <1>1, <1>2, <1>4, <2>1 DEF RoutesFit, CallsNamed
<1>9. /\ \A g \in ServersOf(elements) :
           /\ elements'[g].ip = elements[g].ip /\ elements'[g].port = elements[g].port
           /\ elements[g].isvirtualnode => elements'[g].isvirtualnode
      /\ Below # << >> => elements'[h].isvirtualnode
      /\ \A s \in KeysOf(elements) :
           IF numberofservers > 1 /\ s \in Arc(elements, h)
           THEN elements'[s].store = Top.e.ip /\ elements'[s].port = Top.e.port
           ELSE elements'[s] = elements[s]
      /\ stale' = IF numberofservers > 1 THEN stale \ Arc(elements, h) ELSE stale
  BY <1>2, <1>5, FinishAddWrites
<1> HIDE DEF h
<1>10. ServersNamed(elements', Below)
  <2>1. ASSUME NEW g \in ServersOf(elements)
        PROVE  Known(elements', g)
    BY <1>2, <1>9 DEF RoutesFit, ServersNamed, Known
  <2>2. ASSUME NEW g \in ServersOf(elements), g \notin Ats(Below)
        PROVE  Marked(elements', g)
    <3>1. CASE g # h
      BY <1>2, <1>3, <1>9, <2>2, <3>1 DEF RoutesFit, ServersNamed, Marked
    <3>2. CASE g = h /\ Below # << >>
      BY <1>9, <3>2 DEF Marked
    <3>3. CASE g = h /\ Below = << >>
      <4>1. Top.e.ip \in Names
        BY <1>1, <1>2, TopFrame DEF ServerElements
      <4>2. <<Top.e.ip[1], Plain>> = Top.e.ip
        BY <1>8, <3>3, <4>1 DEF Names
      <4> QED
        BY <1>5, <1>8, <1>9, <3>3, <4>2 DEF Marked
    <3> QED
      BY <3>1, <3>2, <3>3
  <2> QED
    BY <2>1, <2>2, <1>7 DEF ServersNamed
<1>11. CallsNamed(elements', Below)
  <2> SUFFICES ASSUME NEW i \in DOMAIN Below, Below[i].op = "add"
               PROVE  /\ elements'[Below[i].at].ip = Below[i].e.ip
                      /\ elements'[Below[i].at].port = Below[i].e.port
                      /\ SlotOf(Below[i].e.ip, Below[i].e.port) = Below[i].at
                      /\ i + 1 \notin DOMAIN Below => Below[i].e.ip[2] = Plain
    BY DEF CallsNamed
  <2> DEFINE j == i + 1
  <2>1. j \in DOMAIN work /\ Below[i] = work[j] /\ (j + 1 \in DOMAIN work => i + 1 \in DOMAIN Below)
    <3>1. i \in Nat /\ j \in DOMAIN work /\ Below[i] = work[j]
      BY <1>4
    <3>2. j + 1 # 1 /\ (j + 1) - 1 = i + 1
      BY <3>1
    <3> QED
      BY <3>1, <3>2, <1>4
  <2> HIDE DEF j
  <2>2. /\ elements[work[j].at].ip = work[j].e.ip /\ elements[work[j].at].port = work[j].e.port
        /\ SlotOf(work[j].e.ip, work[j].e.port) = work[j].at
        /\ j + 1 \notin DOMAIN work => work[j].e.ip[2] = Plain
    BY <1>2, <2>1 DEF RoutesFit, CallsNamed
  <2>3. work[j].at \in ServersOf(elements)
    <3>1. work[j].at \in Ats(Below)
      BY <2>1 DEF Ats
    <3>2. Below # << >>
      OBVIOUS
    <3>3. Below \in Seq(Frames)
      BY <1>1, BelowFits
    <3>4. elements[work[j].at].type = "server" /\ work[j].at \in Places
      BY <1>3, <3>1, <3>2, <3>3, SlotsOfCalls
    <3> QED
      BY <3>4, PointerFacts DEF ServersOf
  <2> QED
    BY <1>9, <2>1, <2>2, <2>3
<1>12. KeysLed(elements', Below, stale')
  <2> SUFFICES ASSUME NEW s \in KeysOf(elements), s \notin stale', Settled(elements', Below, s)
               PROVE  \E o \in Slots : Owns(elements', o, s) /\ Led(elements', s, o)
    BY <1>7 DEF KeysLed
  <2>1. s \in Slots /\ s # h
    BY <1>5 DEF KeysOf, ServersOf
  <2>2. CASE ~(numberofservers > 1)
    <3>1. ServersOf(elements) = {h}
      <4>1. Cardinality(ServersOf(elements)) <= 1 /\ IsFiniteSet(ServersOf(elements))
        BY <1>2, <2>2, ServersCounted, SlotSetsFinite
      <4>2. \A g \in ServersOf(elements) : g = h
        BY <4>1, <1>5, FS_CardinalityType, FS_Singleton, FS_RemoveElement, FS_EmptySet
      <4> QED
        BY <4>2, <1>5
    <3>2. KeysOf(elements) \subseteq stale
      BY <1>1, <1>2, <1>3, <3>1 DEF RoutesFit, FirstAdded, Top
    <3> QED
      BY <1>9, <2>2, <3>2
  <2>3. CASE numberofservers > 1 /\ s \in Arc(elements, h)
    <3>1. \A g \in ServersOf(elements) : Clock(h, s) <= Clock(g, s)
      <4>1. \A g \in ServersOf(elements) \ {h} : Clock(h, s) < Clock(g, s)
        BY <1>3, <2>1, <2>3, ArcIs DEF h
      <4>2. \A g \in ServersOf(elements) : Clock(g, s) \in Nat
        BY <2>1, ClockFacts DEF ServersOf
      <4>3. Clock(h, s) \in Nat
        BY <4>2, <1>5
      <4> QED
        BY <4>1, <4>2, <4>3
    <3>2. Owns(elements', h, s)
      BY <1>5, <1>7, <3>1 DEF Owns
    <3>3. elements'[s].store = Top.e.ip /\ elements'[s].port = Top.e.port
      BY <1>9, <2>3
    <3>4. elements'[h].ip = Top.e.ip /\ elements'[h].port = Top.e.port
      BY <1>5, <1>8, <1>9
    <3>5. Led(elements', s, h)
      BY <1>8, <3>3, <3>4 DEF Led
    <3> QED
      BY <3>2, <3>5, <1>3 DEF h
  <2>4. CASE numberofservers > 1 /\ s \notin Arc(elements, h)
    <3>1. PICK y \in ServersOf(elements) \ {h} : Clock(y, s) < Clock(h, s)
      BY <1>3, <2>1, <2>4, NotInArc DEF h
    <3>2. Settled(elements, work, s)
      BY <1>3, <1>7, <3>1 DEF Settled
    <3>3. s \notin stale
      BY <1>9, <2>4
    <3>4. PICK o \in Slots : Owns(elements, o, s) /\ Led(elements, s, o)
      BY <1>2, <3>2, <3>3 DEF RoutesFit, KeysLed
    <3>5. Owns(elements', o, s)
      BY <1>7, <3>4 DEF Owns
    <3>6. Led(elements', s, o)
      <4>1. elements'[s] = elements[s]
        BY <1>9, <2>4
      <4>2. elements'[o].ip = elements[o].ip /\ elements'[o].port = elements[o].port
        BY <1>9, <3>4 DEF Owns
      <4> QED
        BY <3>4, <4>1, <4>2 DEF Led
    <3> QED
      BY <3>5, <3>6
  <2> QED
    BY <2>2, <2>3, <2>4
<1>13. FirstAdded(elements', Below, stale')
  BY <1>3, <1>5, <1>7 DEF FirstAdded, h
<1>14. Below # << >> => Head(Below).op = "add"
  BY <1>3
<1> QED
  BY <1>10, <1>11, <1>12, <1>13, <1>14 DEF RoutesFit

(* Stores may be on different ports only when none is ever removed: the    *)
(* port of a key is not written when its server is.                        *)
PortsKept == (\A p, q \in Ports : p = q) \/ DelRequests = {}

LEMMA FinishRemoveRoutes ==
  ASSUME PortsKept, TInv, RoutesSound, FinishRemove
  PROVE  RoutesSound'
<1> DEFINE h == Top.at
<1>1. /\ status = "ok" /\ work # << >> /\ Top.op = "del" /\ work' = Below
      /\ fn' = fn /\ shadowed' = shadowed
  BY DEF FinishRemove, In
<1> SUFFICES ASSUME shadowed = {}
             PROVE  RoutesFit(elements', Below, stale')
  BY <1>1, RoutesThen
<1>2. RoutesFit(elements, work, stale) /\ IInv
  BY <1>1 DEF RoutesSound, TInv
<1>3. /\ CallsFit(elements, Below) /\ Ats(work) = Ats(Below) \cup {h}
      /\ Below # << >> => Head(Below).op = "del"
      /\ h \in Slots /\ Below \in Seq(Frames)
  BY <1>1, BelowFits, TopFrame DEF TInv
<1>4. \A p, q \in Ports : p = q
  BY <1>1, <1>2 DEF PortsKept, RoutesFit, Top
<1>5. \A a \in Ats(work) : elements[a].type = "empty" /\ a \notin ServersOf(elements)
  <2>1. \A a \in Ats(work) : elements[a].type = "empty"
    BY <1>1, WorkFacts, SlotsOfCalls
  <2> QED
    BY <2>1 DEF ServersOf
<1>6. SameKinds(elements', elements) /\ elements \in [Slots -> Elements] /\ elements' \in [Slots -> Elements]
  BY <1>1, <1>2, FinishRemoveKinds, CountsNow
<1>7. ServersOf(elements') = ServersOf(elements) /\ KeysOf(elements') = KeysOf(elements)
  BY <1>6, SameKindsSets
<1>8. /\ \A g \in ServersOf(elements) :
           /\ elements'[g].ip = elements[g].ip /\ elements'[g].port = elements[g].port
           /\ elements'[g].isvirtualnode = elements[g].isvirtualnode
      /\ \A s \in KeysOf(elements) :
           IF numberofservers > 0 /\ s \in Arc(elements, h)
           THEN /\ elements'[s].store = elements[Owner(elements, h)].ip
                /\ elements'[s].port = elements[s].port
           ELSE elements'[s] = elements[s]
      /\ stale' = IF numberofservers > 0 THEN stale \ Arc(elements, h)
                  ELSE stale \cup KeysOf(elements)
      /\ numberofservers > 0 => ServersOf(elements) # {}
  BY <1>2, FinishRemoveWrites
<1>9. h \in Ats(work)
  BY <1>3
<1> HIDE DEF h
<1>10. ServersNamed(elements', Below)
  BY <1>2, <1>5, <1>7, <1>8 DEF RoutesFit, ServersNamed, Known, Marked
<1>11. CallsNamed(elements', Below)
  <2>1. \A i \in DOMAIN Below : 1 \in DOMAIN Below /\ Head(Below) = Below[1] /\ Below # << >>
    BY <1>3, StackFacts
  <2>2. \A i \in DOMAIN Below : Below[i].op = "del"
    BY <2>1, <1>3 DEF CallsFit
  <2> QED
    BY <2>2 DEF CallsNamed
<1>12. KeysLed(elements', Below, stale')
  <2> SUFFICES ASSUME NEW s \in KeysOf(elements), s \notin stale', Settled(elements', Below, s)
               PROVE  \E o \in Slots : Owns(elements', o, s) /\ Led(elements', s, o)
    BY <1>7 DEF KeysLed
  <2>1. /\ numberofservers > 0 /\ s \in Slots /\ s # h
        /\ elements[s] \in KeyElements /\ elements'[s] \in KeyElements
    BY <1>5, <1>6, <1>7, <1>8, <1>9, ElementKinds DEF KeysOf
  <2>2. CASE s \in Arc(elements, h)
    <3> DEFINE o == Owner(elements, h)
    <3>1. o \in ServersOf(elements) /\ \A g \in ServersOf(elements) : Clock(o, h) <= Clock(g, h)
      BY <1>3, <1>8, <2>1, OwnerIsServer DEF h
    <3>2. elements'[s].store = elements[o].ip
      BY <1>8, <2>1, <2>2
    <3> HIDE DEF o
    <3>3. o \in Slots /\ elements[o] \in ServerElements
      BY <1>6, <3>1, ElementKinds DEF ServersOf
    <3>4. \A g \in ServersOf(elements) : Clock(o, s) <= Clock(g, s)
      <4>1. \A g \in ServersOf(elements) : g \in Slots /\ g # h
        BY <1>5, <1>9 DEF ServersOf
      <4>2. \A g \in ServersOf(elements) : Clock(h, s) < Clock(g, s)
        BY <1>3, <2>1, <2>2, <4>1, ArcIs DEF h
      <4>3. \A g \in ServersOf(elements) : Clock(g, s) = Clock(g, h) + Clock(h, s)
        BY <1>3, <2>1, <4>1, <4>2, ClockSum DEF h
      <4>4. Clock(h, s) \in Nat /\ \A g \in ServersOf(elements) : Clock(g, h) \in Nat
        BY <1>3, <2>1, <4>1, ClockFacts DEF h
      <4> QED
        BY <3>1, <4>3, <4>4
    <3>5. Owns(elements', o, s)
      BY <1>7, <3>1, <3>4 DEF Owns
    <3>6. elements'[s].port = elements'[o].port
      <4>1. elements'[s].port \in Ports /\ elements'[o].port \in Ports
        BY <1>8, <2>1, <3>1, <3>3 DEF KeyElements, ServerElements
      <4> QED
        BY <1>4, <4>1
    <3>7. Led(elements', s, o)
      BY <1>2, <1>8, <3>1, <3>2, <3>6 DEF Led, RoutesFit, ServersNamed, Known
    <3> QED
      BY <3>3, <3>5, <3>7
  <2>3. CASE s \notin Arc(elements, h)
    <3>1. PICK y \in ServersOf(elements) \ {h} : Clock(y, s) < Clock(h, s)
      BY <1>3, <2>1, <2>3, NotInArc DEF h
    <3>2. Settled(elements, work, s)
      BY <1>3, <1>7, <3>1 DEF Settled
    <3>3. s \notin stale
      BY <1>8, <2>1, <2>3
    <3>4. PICK o \in Slots : Owns(elements, o, s) /\ Led(elements, s, o)
      BY <1>2, <3>2, <3>3 DEF RoutesFit, KeysLed
    <3>5. Owns(elements', o, s)
      BY <1>7, <3>4 DEF Owns
    <3>6. Led(elements', s, o)
      <4>1. elements'[s] = elements[s]
        BY <1>8, <2>3
      <4>2. elements'[o].ip = elements[o].ip /\ elements'[o].port = elements[o].port
        BY <1>8, <3>4 DEF Owns
      <4> QED
        BY <3>4, <4>1, <4>2 DEF Led
    <3> QED
      BY <3>5, <3>6
  <2> QED
    BY <2>2, <2>3
<1>13. FirstAdded(elements', Below, stale')
  BY <1>3 DEF FirstAdded
<1>14. Below # << >> /\ DelRequests = {} => Head(Below).op = "add"
  BY <1>1, <1>2 DEF RoutesFit, Top
<1> QED
  BY <1>10, <1>11, <1>12, <1>13, <1>14 DEF RoutesFit

-----------------------------------------------------------------------------
(* Requests.                                                               *)

LEMMA ServerRequestRoutes ==
  ASSUME TInv, RoutesSound,
         \/ \E r \in AddRequests : AddServer(r[1], r[2], r[3])
         \/ \E r \in DelRequests : DelServer(r[1], r[2])
  PROVE  RoutesSound'
<1>1. << >> \in Seq(Frames) /\ CallsFit(elements, << >>)
  BY FrameStack DEF CallsFit
<1>2. ASSUME NEW r \in AddRequests, AddServer(r[1], r[2], r[3])
      PROVE  RoutesSound'
  <2>1. /\ status = "ok" /\ work = << >> /\ stale' = stale /\ shadowed' = shadowed
        /\ EnterAdd(<<r[1], Plain>>, r[2], r[3], << >>)
    BY <1>2 DEF AddServer, Idle
  <2>2. /\ <<r[1], Plain>> \in Names /\ r[2] \in Ports /\ r[3] \in 0 .. MaxWeight
        /\ <<r[1], Plain>>[2] = Plain
    BY RingAssumption, NameTypes
  <2>3. fn' = fn
    BY <2>1 DEF EnterAdd, ring
  <2>4. shadowed = {} => RoutesFit(elements', work', stale)
    BY <1>1, <2>1, <2>2, EnterAddRoutes DEF TInv, RoutesSound
  <2> QED
    BY <2>1, <2>3, <2>4, RoutesThen
<1>3. ASSUME NEW r \in DelRequests, DelServer(r[1], r[2])
      PROVE  RoutesSound'
  <2>1. /\ status = "ok" /\ work = << >> /\ stale' = stale /\ shadowed' = shadowed
        /\ EnterRemove(<<r[1], Plain>>, r[2], << >>)
    BY <1>3 DEF DelServer, Idle
  <2>2. <<r[1], Plain>> \in Names /\ r[2] \in Ports /\ DelRequests # {}
    BY RingAssumption, NameTypes
  <2>3. fn' = fn
    BY <2>1 DEF EnterRemove, ring
  <2>4. shadowed = {} => RoutesFit(elements', work', stale)
    BY <1>1, <2>1, <2>2, EnterRemoveRoutes DEF TInv, RoutesSound
  <2> QED
    BY <2>1, <2>3, <2>4, RoutesThen
<1> QED
  BY <1>2, <1>3

LEMMA SetKeyRoutes ==
  ASSUME TInv, RoutesSound, NEW k \in Keys, SetKey(k)
  PROVE  RoutesSound'
<1> DEFINE h      == fn.key[k]
           placed == [elements EXCEPT ![h] = Key(k, NULL, NULL)]
           owner  == elements[Owner(placed, h)]
           e      == Key(k, owner.ip, owner.port)
           set    == [elements EXCEPT ![h] = e]
<1>1. /\ status = "ok" /\ work = << >> /\ ServersOf(placed) # {} /\ elements[h].type # "key"
      /\ elements' = Forwarded([placed EXCEPT ![h] = e], h)
      /\ shadowed' = IF elements[h].type = "server" THEN shadowed \cup {h} ELSE shadowed
      /\ fn' = fn /\ work' = work /\ stale' = stale
  BY DEF SetKey, Idle
<1> SUFFICES ASSUME shadowed' = {}
             PROVE  RoutesFit(elements', << >>, stale)
  BY <1>1, RoutesThen
<1>2. shadowed = {} /\ elements[h].type # "server" /\ RoutesFit(elements, << >>, stale)
  BY <1>1 DEF RoutesSound
<1>3. h \in Slots /\ elements \in [Slots -> Elements]
  BY <1>1, CountsNow, PointerFacts DEF TInv, IInv, TypeOK, RingTypeOK
<1>4. [placed EXCEPT ![h] = e] = set
  BY <1>3
<1>5. ServersOf(placed) = ServersOf(elements)
  BY <1>2, <1>3 DEF Key, ServersOf
<1> DEFINE o == Owner(placed, h)
<1>6. o \in ServersOf(elements) /\ \A g \in ServersOf(elements) : Clock(o, h) <= Clock(g, h)
  BY <1>1, <1>3, <1>5, OwnerIsServer
<1>7. elements[o] \in ServerElements /\ o \in Slots
  BY <1>3, <1>6, ElementKinds DEF ServersOf
<1>8. /\ e \in KeyElements /\ e.type = "key"
      /\ e.store = elements[o].ip /\ e.port = elements[o].port
  BY <1>7 DEF Key, KeyElements, ServerElements
<1> HIDE DEF h, placed, owner, e, o
<1>9. \A s \in Slots : set[s] = IF s = h THEN e ELSE elements[s]
  BY <1>3
<1>10. set \in [Slots -> Elements]
  BY <1>3, <1>8 DEF Elements
<1>11. elements' = Forwarded(set, h)
  BY <1>1, <1>4
<1> HIDE DEF set
<1>12. ServersOf(set) = ServersOf(elements) /\ KeysOf(set) = KeysOf(elements) \cup {h}
  BY <1>2, <1>3, <1>8, <1>9 DEF ServersOf, KeysOf
<1>13. \A g \in ServersOf(elements) : set[g] = elements[g]
  BY <1>2, <1>9 DEF ServersOf
<1>14. Ats(<< >>) = {}
  BY DEF Ats
<1>15. ServersNamed(set, << >>)
  BY <1>2, <1>12, <1>13 DEF RoutesFit, ServersNamed, Known, Marked
<1>16. KeysLed(set, << >>, stale)
  <2>1. ASSUME NEW s \in KeysOf(elements) \ stale
        PROVE  \E x \in Slots : Owns(set, x, s) /\ Led(set, s, x)
    <3>1. PICK x \in Slots : Owns(elements, x, s) /\ Led(elements, s, x)
      BY <1>2, <1>14 DEF RoutesFit, KeysLed, Settled
    <3>2. set[s] = elements[s] /\ set[x] = elements[x]
      BY <1>1, <1>9, <1>13, <3>1 DEF KeysOf, Owns, h
    <3> QED
      BY <3>1, <3>2, <1>12 DEF Owns, Led
  <2>2. Owns(set, o, h) /\ Led(set, h, o)
    <3>1. Known(elements, o)
      BY <1>2, <1>6 DEF RoutesFit, ServersNamed
    <3>2. set[h] = e /\ set[o] = elements[o]
      BY <1>3, <1>6, <1>9, <1>13
    <3> QED
      BY <3>1, <3>2, <1>6, <1>8, <1>12 DEF Owns, Led, Known
  <2> QED
    BY <2>1, <2>2, <1>7, <1>12 DEF KeysLed
<1>17. RoutesFit(set, << >>, stale)
  BY <1>15, <1>16 DEF RoutesFit, CallsNamed, FirstAdded
<1> QED
  BY <1>3, <1>10, <1>11, <1>17, ForwardedCuts, CutRoutes

LEMMA GetKeyRoutes ==
  ASSUME TInv, RoutesSound, NEW k \in Keys, GetKey(k)
  PROVE  RoutesSound'
<1>1. /\ status = "ok" /\ work = << >> /\ elements' = Forwarded(elements, fn.key[k])
      /\ work' = work /\ fn' = fn /\ stale' = stale /\ shadowed' = shadowed
  BY DEF GetKey, Idle, history
<1>2. fn.key[k] \in Slots /\ elements \in [Slots -> Elements]
  BY <1>1, CountsNow, PointerFacts DEF TInv, IInv, TypeOK, RingTypeOK
<1>3. shadowed = {} => RoutesFit(elements', << >>, stale)
  BY <1>1, <1>2, ForwardedCuts, CutRoutes DEF RoutesSound
<1> QED
  BY <1>1, <1>3, RoutesThen

LEMMA NextRoutes ==
  ASSUME PortsKept, TInv, RoutesSound, [Next]_vars
  PROVE  RoutesSound'
<1>1. CASE UNCHANGED vars
  <2>1. /\ elements' = elements /\ work' = work /\ stale' = stale /\ fn' = fn
        /\ status' = status /\ shadowed' = shadowed
    BY <1>1 DEF vars, ring, history
  <2> QED
    BY <2>1, RoutesThen DEF RoutesSound
<1>2. ASSUME NEW k \in Keys, SetKeySpins(k)
      PROVE  RoutesSound'
  BY <1>2 DEF SetKeySpins, RoutesSound
<1>3. CASE WildPointer \/ ArrayUnwritten
  BY <1>3 DEF WildPointer, ArrayUnwritten, Undefined, RoutesSound
<1>4. CASE Worker
  BY <1>3, <1>4, VirtualRoutes, WalkRoutes, FinishAddRoutes, FinishRemoveRoutes DEF Worker
<1>5. CASE Request
  BY <1>2, <1>5, ServerRequestRoutes, SetKeyRoutes, GetKeyRoutes DEF Request
<1> QED
  BY <1>1, <1>4, <1>5 DEF Next

LEMMA RoutesInvariant ==
  ASSUME PortsKept
  PROVE  Spec => []RoutesSound
<1>1. Init => RoutesSound
  <2> SUFFICES ASSUME Init
               PROVE  RoutesFit(elements, << >>, stale)
    BY DEF Init, RoutesSound
  <2>1. ServersOf(elements) = {} /\ KeysOf(elements) = {}
    BY DEF Init, ServersOf, KeysOf, Empty
  <2> QED
    BY <2>1 DEF RoutesFit, ServersNamed, CallsNamed, KeysLed, FirstAdded
<1>2. TInv /\ RoutesSound /\ [Next]_vars => RoutesSound'
  BY NextRoutes
<1> QED
  BY <1>1, <1>2, TreeInvariant, PTL DEF Spec

(* Between requests a key is sent to the server that owns its slot, except *)
(* for ranges of orphans and keys that saw the ring empty, when all stores *)
(* are on one port or none is removed.                                     *)
THEOREM RoutedCorrect ==
  ASSUME PortsKept
  PROVE  Spec => []RoutedToOwner
<1>1. IInv /\ RoutesSound => RoutedToOwner
  BY SoundlyRouted
<1> QED
  BY <1>1, Invariant, RoutesInvariant, PTL

-----------------------------------------------------------------------------
(* Names in use.                                                           *)

(* What a server counts as its virtual nodes, an ADD asked for.            *)
Bought(e) ==
  \/ e.numberofvirtualnodes = 0
  \/ <<e.ip[1], e.port, e.numberofvirtualnodes>> \in AddRequests

(* A server stands where the name it was added under hashes.               *)
AddedAs(e, h, v) ==
  /\ <<<<e.ip[1], v>>, e.port>> \in UsedNames /\ SlotOf(<<e.ip[1], v>>, e.port) = h
  /\ Bought(e) /\ (e.numberofvirtualnodes # 0 => v = Plain)

ServersUsed(elems) == \A h \in ServersOf(elems) : \E v : AddedAs(elems[h], h, v)

(* The calls of a request are for one address, and virtual nodes have none *)
(* of their own.                                                           *)
CallsUsed(w, b) ==
  /\ DOMAIN w \subseteq {1, 2}
  /\ 2 \in DOMAIN w => w[1].e.numberofvirtualnodes = 0
  /\ \A i \in DOMAIN w :
       /\ Address(w[i].e) = b.addr /\ Bought(w[i].e)
       /\ i + 1 \notin DOMAIN w => w[i].at = SlotOf(<<w[i].e.ip[1], Plain>>, w[i].e.port)

(* The servers of the ring and those being removed, with their addresses.  *)
Nodes(elems, w) == ServersOf(elems) \cup Ats(w)

NodeAddress(elems, b, n) == IF elems[n].type = "server" THEN Address(elems[n]) ELSE b.addr

(* No other node has the address of n, and n is no virtual node.           *)
Alone(elems, w, b, n) ==
  LET a == NodeAddress(elems, b, n)
  IN  /\ n = SlotOf(<<a[1], Plain>>, a[2])
      /\ \A g \in Nodes(elems, w) : NodeAddress(elems, b, g) = a => g = n

(* A key that kept its name in an empty ring is in the range of a server   *)
(* without virtual nodes: with them it would not have been the first, and  *)
(* would have renamed the keys of its range.                               *)
StaleAlone(elems, w, st, b) ==
  /\ st \subseteq KeysOf(elems)
  /\ \A s \in st : \A n \in Nodes(elems, w) :
       (\A g \in Nodes(elems, w) : Clock(n, s) <= Clock(g, s)) =>
         \/ w # << >> /\ Head(w).op = "add" /\ n \in Ats(w)
         \/ Alone(elems, w, b, n)

(* Keys that have moved since ADD began are sent to the new server.        *)
AddMoves(elems, b) ==
  \A s \in KeysOf(elems) :
    \/ b.routes[s] \in {NULL, Route(elems, s)}
    \/ /\ Route(elems, s) = b.addr
       /\ \E o \in Slots : Owns(elems, o, s) /\ Address(elems[o]) = b.addr

(* Keys that have moved since DEL began, or that will, were sent to the    *)
(* server it removes.                                                      *)
DelMoves(elems, w, st, b) ==
  \A s \in KeysOf(elems) \ st :
    \/ b.routes[s] \in {NULL, b.addr}
    \/ Settled(elems, w, s) /\ b.routes[s] = Route(elems, s)

(* What holds within a request and between requests as long as no key      *)
(* stands on a server.                                                     *)
MovesFit(elems, w, st, b) ==
  /\ ServersUsed(elems) /\ CallsUsed(w, b) /\ StaleAlone(elems, w, st, b)
  /\ w # << >> /\ Head(w).op = "add" => AddMoves(elems, b)
  /\ w # << >> /\ Head(w).op = "del" => DelMoves(elems, w, st, b)

MovesSound ==
  status = "ok" /\ shadowed = {} /\ Distinct => MovesFit(elements, work, stale, before)

LEMMA MovesThen ==
  ASSUME fn' = fn,
         status' = "ok" /\ shadowed' = {} /\ Distinct => MovesFit(elements', work', stale', before')
  PROVE  MovesSound'
<1>1. \A name, port : SlotOf(name, port)' = SlotOf(name, port)
  BY DEF SlotOf
<1>2. ServersUsed(elements)' <=> ServersUsed(elements')
  BY DEF ServersUsed, AddedAs, SlotOf
<1>3. CallsUsed(work, before)' <=> CallsUsed(work', before')
  BY DEF CallsUsed, SlotOf
<1>4. StaleAlone(elements, work, stale, before)' <=> StaleAlone(elements', work', stale', before')
  BY DEF StaleAlone, Alone, NodeAddress, SlotOf
<1>5. AddMoves(elements, before)' <=> AddMoves(elements', before')
  BY DEF AddMoves, Route, SlotOf
<1>6. DelMoves(elements, work, stale, before)' <=> DelMoves(elements', work', stale', before')
  BY DEF DelMoves, Route, SlotOf
<1>7. Distinct' <=> Distinct
  BY DEF Distinct
<1> QED
  BY <1>2, <1>3, <1>4, <1>5, <1>6, <1>7 DEF MovesSound, MovesFit

LEMMA UsedIsPlain ==
  ASSUME NEW i, NEW v, NEW p, <<<<i, v>>, p>> \in UsedNames
  PROVE  <<<<i, Plain>>, p>> \in UsedNames
<1>1. <<i, v>> \in Names /\ p \in Ports /\ i \in Ips
  BY DEF UsedNames, Names
<1>2. <<<<i, Plain>>, p>> \in Names \X Ports
  BY <1>1, NameTypes
<1>3. CASE \E r \in DelRequests : <<<<i, v>>, p>> = <<<<r[1], Plain>>, r[2]>>
  BY <1>2, <1>3 DEF UsedNames
<1>4. CASE \E r \in AddRequests : i = r[1] /\ v < r[3] /\ p = r[2]
  <2>1. PICK r \in AddRequests : i = r[1] /\ v < r[3] /\ p = r[2]
    BY <1>4
  <2>2. Plain < r[3]
    BY RingAssumption DEF Plain
  <2> QED
    BY <1>2, <2>1, <2>2 DEF UsedNames
<1> QED
  BY <1>3, <1>4 DEF UsedNames

LEMMA NamesOfRequests ==
  /\ \A r \in AddRequests : \A v \in -1 .. MaxWeight - 1 :
       v < r[3] => <<<<r[1], v>>, r[2]>> \in UsedNames
  /\ \A r \in AddRequests : Plain < r[3]
  /\ \A r \in DelRequests : <<<<r[1], Plain>>, r[2]>> \in UsedNames
<1>1. ASSUME NEW r \in AddRequests, NEW v \in -1 .. MaxWeight - 1, v < r[3]
      PROVE  <<<<r[1], v>>, r[2]>> \in UsedNames
  <2>1. <<<<r[1], v>>, r[2]>> \in Names \X Ports
    BY RingAssumption DEF Names
  <2> QED
    BY <1>1, <2>1 DEF UsedNames
<1>2. ASSUME NEW r \in DelRequests
      PROVE  <<<<r[1], Plain>>, r[2]>> \in UsedNames
  <2>1. <<<<r[1], Plain>>, r[2]>> \in Names \X Ports
    BY RingAssumption, NameTypes
  <2> QED
    BY <2>1 DEF UsedNames
<1>3. \A r \in AddRequests : Plain < r[3]
  BY RingAssumption DEF Plain
<1> QED
  BY <1>1, <1>2, <1>3

(* What a lookup of a name in use finds has that name's address.           *)
LEMMA LookedUp ==
  ASSUME Distinct, NEW elems, ServersUsed(elems), NEW i, NEW v, NEW p,
         <<<<i, v>>, p>> \in UsedNames, SlotOf(<<i, v>>, p) \in ServersOf(elems)
  PROVE  LET e == elems[SlotOf(<<i, v>>, p)]
         IN  /\ Address(e) = <<i, p>> /\ e.ip[1] = i /\ e.port = p
             /\ Bought(e) /\ (e.numberofvirtualnodes # 0 => v = Plain)
<1> DEFINE h == SlotOf(<<i, v>>, p)
           e == elems[h]
<1>1. PICK x : AddedAs(e, h, x)
  BY DEF ServersUsed
<1>2. fn.server[<<<<e.ip[1], x>>, e.port>>] = fn.server[<<<<i, v>>, p>>]
  BY <1>1 DEF AddedAs, SlotOf
<1> HIDE DEF e, h
<1>3. <<<<e.ip[1], x>>, e.port>> = <<<<i, v>>, p>>
  BY <1>1, <1>2 DEF AddedAs, Distinct
<1>4. e.ip[1] = i /\ x = v /\ e.port = p
  BY <1>3
<1>5. Address(e) = <<i, p>> /\ e.ip[1] = i /\ e.port = p
      /\ Bought(e) /\ (e.numberofvirtualnodes # 0 => v = Plain)
  BY <1>1, <1>4 DEF AddedAs, Address
<1> QED
  BY <1>5 DEF e, h

(* A key of a server's range is sent to the server's address or nowhere.   *)
LEMMA LedToAddress ==
  ASSUME TypeOK, Distinct, NEW elems \in [Slots -> Elements], ServersUsed(elems),
         NEW s \in KeysOf(elems), NEW o \in ServersOf(elems), Led(elems, s, o), Marked(elems, o)
  PROVE  Route(elems, s) \in {NULL, Address(elems[o])}
<1> DEFINE i == elems[o].ip[1]
           q == elems[o].port
           p == SlotOf(<<i, Plain>>, q)
<1>1. \/ Route(elems, s) = Address(elems[o])
      \/ Route(elems, s) = IF elems[p].type = "server" THEN Address(elems[p]) ELSE NULL
  BY LedIsRouted
<1>2. PICK v : AddedAs(elems[o], o, v)
  BY DEF ServersUsed
<1>3. <<<<i, Plain>>, q>> \in UsedNames
  BY <1>2, UsedIsPlain DEF AddedAs
<1>4. ASSUME elems[p].type = "server"
      PROVE  Address(elems[p]) = Address(elems[o])
  <2>1. p \in ServersOf(elems)
    <3>1. elems[o] \in ServerElements
      BY ElementKinds DEF ServersOf
    <3>2. <<i, Plain>> \in Names /\ q \in Ports
      BY <3>1, NameTypes DEF ServerElements
    <3>3. p \in Slots
      BY <3>2, SlotOfType, PointerFacts DEF TypeOK
    <3> QED
      BY <3>3, <1>4 DEF ServersOf
  <2> QED
    BY <1>3, <2>1, LookedUp DEF Address
<1> QED
  BY <1>1, <1>4

-----------------------------------------------------------------------------
(* The calls of a request.                                                 *)

LEMMA UsedPushed ==
  ASSUME NEW w \in Seq(Frames), NEW b, CallsUsed(w, b), NEW f \in Frames,
         Address(f.e) = b.addr, Bought(f.e),
         w = << >> => f.at = SlotOf(<<f.e.ip[1], Plain>>, f.e.port),
         w # << >> => 2 \notin DOMAIN w /\ f.e.numberofvirtualnodes = 0
  PROVE  CallsUsed(<<f>> \o w, b)
<1> DEFINE g == <<f>> \o w
<1>1. /\ g[1] = f /\ 1 \in DOMAIN g
      /\ \A i \in DOMAIN g : i \in Nat /\ (i # 1 => i - 1 \in DOMAIN w /\ g[i] = w[i - 1])
      /\ \A i \in DOMAIN w : i + 1 \in DOMAIN g /\ g[i + 1] = w[i]
      /\ w # << >> => 1 \in DOMAIN w
  BY StackFacts
<1> HIDE DEF g
<1>2. DOMAIN w \subseteq {1} /\ \A i \in DOMAIN w : w # << >>
  BY DEF CallsUsed
<1>3. \A i \in DOMAIN g : i = 1 \/ (i = 2 /\ 1 \in DOMAIN w /\ g[2] = w[1])
  <2> SUFFICES ASSUME NEW i \in DOMAIN g, i # 1
               PROVE  i = 2 /\ 1 \in DOMAIN w /\ g[2] = w[1]
    OBVIOUS
  <2>1. i \in Nat /\ i - 1 \in DOMAIN w /\ g[i] = w[i - 1]
    BY <1>1
  <2>2. i - 1 = 1
    BY <2>1, <1>2
  <2>3. i = 2
    BY <2>1, <2>2
  <2> QED
    BY <2>1, <2>2, <2>3
<1>4. 2 \in DOMAIN g => g[1].e.numberofvirtualnodes = 0
  BY <1>1, <1>2, <1>3
<1>5. ASSUME NEW i \in DOMAIN g
      PROVE  /\ Address(g[i].e) = b.addr /\ Bought(g[i].e)
             /\ i + 1 \notin DOMAIN g => g[i].at = SlotOf(<<g[i].e.ip[1], Plain>>, g[i].e.port)
  <2>1. CASE i = 1
    <3>1. w # << >> => i + 1 \in DOMAIN g
      BY <2>1, <1>1
    <3> QED
      BY <2>1, <3>1, <1>1
  <2>2. CASE i = 2
    <3>1. 1 \in DOMAIN w /\ g[i] = w[1]
      BY <2>2, <1>3
    <3>2. 1 + 1 \notin DOMAIN w
      BY <1>2
    <3> QED
      BY <3>1, <3>2 DEF CallsUsed
  <2> QED
    BY <2>1, <2>2, <1>3
<1>6. CallsUsed(g, b)
  BY <1>3, <1>4, <1>5 DEF CallsUsed
<1> QED
  BY <1>6 DEF g

LEMMA UsedPopped ==
  ASSUME NEW w \in Seq(Frames), w # << >>, NEW b, CallsUsed(w, b)
  PROVE  /\ CallsUsed(Tail(w), b) /\ 2 \notin DOMAIN Tail(w)
         /\ Address(Head(w).e) = b.addr /\ Bought(Head(w).e)
         /\ Tail(w) = << >> => Head(w).at = SlotOf(<<Head(w).e.ip[1], Plain>>, Head(w).e.port)
         /\ Tail(w) # << >> => Head(w).e.numberofvirtualnodes = 0
<1> DEFINE v == Tail(w)
<1>1. /\ 1 \in DOMAIN w /\ Head(w) = w[1] /\ v \in Seq(Frames)
      /\ \A i \in DOMAIN v : i + 1 \in DOMAIN w /\ v[i] = w[i + 1] /\ i \in Nat
      /\ \A i \in DOMAIN w : i # 1 => i - 1 \in DOMAIN v
      /\ v # << >> => 1 \in DOMAIN v
  BY StackFacts
<1> HIDE DEF v
<1>2. \A i \in DOMAIN v : i = 1
  <2> SUFFICES ASSUME NEW i \in DOMAIN v
               PROVE  i = 1
    OBVIOUS
  <2>1. i + 1 \in {1, 2} /\ i \in Nat
    BY <1>1 DEF CallsUsed
  <2>2. i # 0
    <3>1. ASSUME i = 0
          PROVE  FALSE
      <4>1. v # << >> /\ v \in Seq(Frames)
        BY <1>1
      <4>2. DOMAIN v = 1 .. Len(v) /\ Len(v) \in Nat
        BY <4>1
      <4> QED
        BY <3>1, <4>2
    <3> QED
      BY <3>1
  <2> QED
    BY <2>1, <2>2
<1>3. 2 \in DOMAIN w <=> v # << >>
  <2>1. 2 \in DOMAIN w => 2 - 1 \in DOMAIN v
    BY <1>1
  <2>2. v # << >> => 1 + 1 \in DOMAIN w
    BY <1>1
  <2>3. 1 \in DOMAIN v => v # << >>
    OBVIOUS
  <2> QED
    BY <2>1, <2>2, <2>3
<1>4. 3 \notin DOMAIN w
  BY DEF CallsUsed
<1>5. ASSUME NEW i \in DOMAIN v
      PROVE  /\ Address(v[i].e) = b.addr /\ Bought(v[i].e)
             /\ v[i].at = SlotOf(<<v[i].e.ip[1], Plain>>, v[i].e.port)
  <2>1. i = 1 /\ 2 \in DOMAIN w /\ v[i] = w[2]
    BY <1>1, <1>2
  <2>2. 2 + 1 \notin DOMAIN w
    BY <1>4
  <2> QED
    BY <2>1, <2>2 DEF CallsUsed
<1>6. CallsUsed(v, b) /\ 2 \notin DOMAIN v
  BY <1>2, <1>5 DEF CallsUsed
<1>7. /\ Address(w[1].e) = b.addr /\ Bought(w[1].e)
      /\ 1 + 1 \notin DOMAIN w => w[1].at = SlotOf(<<w[1].e.ip[1], Plain>>, w[1].e.port)
      /\ 2 \in DOMAIN w => w[1].e.numberofvirtualnodes = 0
  BY <1>1 DEF CallsUsed
<1> QED
  BY <1>1, <1>3, <1>6, <1>7 DEF v

LEMMA UsedMoved ==
  ASSUME NEW w \in Seq(Frames), w # << >>, NEW b, CallsUsed(w, b),
         NEW f \in Frames, f.at = Head(w).at, f.e = Head(w).e
  PROVE  CallsUsed(<<f>> \o Tail(w), b)
<1> DEFINE v == Tail(w)
<1>1. /\ CallsUsed(v, b) /\ 2 \notin DOMAIN v /\ v \in Seq(Frames)
      /\ Address(f.e) = b.addr /\ Bought(f.e)
      /\ v = << >> => f.at = SlotOf(<<f.e.ip[1], Plain>>, f.e.port)
      /\ v # << >> => f.e.numberofvirtualnodes = 0
  BY UsedPopped, StackFacts
<1> HIDE DEF v
<1>2. CallsUsed(<<f>> \o v, b)
  BY <1>1, UsedPushed
<1> QED
  BY <1>2 DEF v

(* The slots of calls stand for the request's address.                     *)
LEMMA CallsAddress ==
  ASSUME NEW w \in Seq(Frames), NEW elems, NEW b, CallsFit(elems, w), CallsUsed(w, b),
         CallsNamed(elems, w), NEW a \in Ats(w)
  PROVE  NodeAddress(elems, b, a) = b.addr
<1>1. PICK i \in DOMAIN w : a = w[i].at
  BY DEF Ats
<1>2. Address(w[i].e) = b.addr /\ w[i].op = w[1].op
  BY DEF CallsUsed, CallsFit
<1>3. CASE w[i].op = "add"
  <2>1. Address(elems[a]) = Address(w[i].e)
    BY <1>1, <1>3 DEF CallsNamed, Address
  <2> QED
    BY <1>2, <2>1 DEF NodeAddress
<1>4. CASE w[i].op # "add"
  BY <1>1, <1>4 DEF CallsFit, NodeAddress
<1> QED
  BY <1>3, <1>4

-----------------------------------------------------------------------------
(* A server enters the ring.                                               *)

LEMMA AddedMoves ==
  ASSUME NEW elems \in [Slots -> Elements], NEW w \in Seq(Frames), NEW st, NEW b,
         CallsFit(elems, w), w # << >> => Head(w).op = "add",
         CallsNamed(elems, w),
         ServersUsed(elems), CallsUsed(w, b), StaleAlone(elems, w, st, b), AddMoves(elems, b),
         NEW h \in Slots, elems[h].type = "empty", NEW e \in ServerElements,
         NEW f \in Frames, f.op = "add", f.at = h, f.e = e,
         Address(e) = b.addr, \E v : AddedAs(e, h, v),
         w = << >> => h = SlotOf(<<e.ip[1], Plain>>, e.port),
         w # << >> => 2 \notin DOMAIN w /\ e.numberofvirtualnodes = 0
  PROVE  MovesFit([elems EXCEPT ![h] = e], <<f>> \o w, st, b)
<1> DEFINE after == [elems EXCEPT ![h] = e]
           g     == <<f>> \o w
<1>1. g # << >> /\ Head(g) = f /\ Ats(g) = Ats(w) \cup {h}
  BY StackFacts, AtsPushed
<1>2. /\ \A s \in Slots : after[s] = IF s = h THEN e ELSE elems[s]
      /\ e.type = "server" /\ elems[h].type # "key" /\ elems[h].type # "server"
  BY ElementKinds
<1>3. \A a \in Ats(w) : a \in ServersOf(elems)
  <2>1. \A a \in Ats(w) : w # << >>
    BY DEF Ats
  <2>2. \A a \in Ats(w) : elems[a].type = "server" /\ a \in Places
    BY <2>1, SlotsOfCalls
  <2> QED
    BY <2>2, PointerFacts DEF ServersOf
<1>4. CallsUsed(g, b)
  BY UsedPushed DEF AddedAs
<1> HIDE DEF g, after
<1>5. ServersOf(after) = ServersOf(elems) \cup {h} /\ h \notin ServersOf(elems)
  BY <1>2 DEF ServersOf
<1>6. KeysOf(after) = KeysOf(elems) /\ h \notin KeysOf(elems)
  BY <1>2 DEF KeysOf
<1>7. \A x \in ServersOf(elems) : x \in Slots /\ x # h /\ after[x] = elems[x]
  BY <1>2, <1>5 DEF ServersOf
<1>8. ServersUsed(after)
  BY <1>2, <1>5, <1>7 DEF ServersUsed
<1>9. /\ Nodes(elems, w) = ServersOf(elems) /\ Nodes(after, g) = ServersOf(elems) \cup {h}
      /\ \A x \in ServersOf(elems) : NodeAddress(after, b, x) = NodeAddress(elems, b, x)
      /\ NodeAddress(after, b, h) = b.addr
  BY <1>1, <1>2, <1>3, <1>5, <1>7 DEF Nodes, NodeAddress
<1>10. StaleAlone(after, g, st, b)
  <2> SUFFICES ASSUME NEW s \in st, NEW n \in Nodes(after, g), n \notin Ats(g),
                      \A x \in Nodes(after, g) : Clock(n, s) <= Clock(x, s)
               PROVE  Alone(after, g, b, n)
    BY <1>1, <1>6 DEF StaleAlone
  <2>1. n \in ServersOf(elems) /\ n # h /\ n \notin Ats(w)
    BY <1>1, <1>9
  <2>2. Alone(elems, w, b, n)
    BY <2>1, <1>9 DEF StaleAlone
  <2>3. NodeAddress(elems, b, n) # b.addr
    <3> SUFFICES ASSUME NodeAddress(elems, b, n) = b.addr
                 PROVE  FALSE
      OBVIOUS
    <3>1. CASE w = << >>
      <4>1. b.addr[1] = e.ip[1] /\ b.addr[2] = e.port
        BY DEF Address
      <4> QED
        BY <3>1, <4>1, <2>1, <2>2 DEF Alone
    <3>2. CASE w # << >>
      <4>1. PICK a \in Ats(w) : TRUE
        BY <3>2, SlotsOfCalls
      <4>2. a \in ServersOf(elems) /\ NodeAddress(elems, b, a) = b.addr
        BY <1>3, CallsAddress
      <4>3. a = n
        BY <2>2, <4>2, <1>9 DEF Alone
      <4> QED
        BY <2>1, <4>3
    <3> QED
      BY <3>1, <3>2
  <2> QED
    BY <2>1, <2>2, <2>3, <1>9 DEF Alone
<1>11. AddMoves(after, b)
  <2> SUFFICES ASSUME NEW s \in KeysOf(elems)
               PROVE  \/ b.routes[s] \in {NULL, Route(after, s)}
                      \/ /\ Route(after, s) = b.addr
                         /\ \E o \in Slots : Owns(after, o, s) /\ Address(after[o]) = b.addr
    BY <1>6 DEF AddMoves
  <2> DEFINE x == SlotOf(elems[s].store, elems[s].port)
  <2>1. s \in Slots /\ s # h /\ after[s] = elems[s] /\ elems[s].type = "key"
    BY <1>2, <1>6 DEF KeysOf
  <2>2. x # h => Route(after, s) = Route(elems, s)
    <3>1. x # h => after[x] = elems[x]
      BY DEF after
    <3> QED
      BY <3>1, <2>1 DEF Route
  <2>3. x = h => Route(elems, s) = NULL /\ Route(after, s) = b.addr
    BY <1>2, <2>1 DEF Route
  <2> HIDE DEF x
  <2>4. CASE b.routes[s] \in {NULL, Route(elems, s)}
    BY <2>2, <2>3, <2>4
  <2>5. CASE /\ Route(elems, s) = b.addr
             /\ \E o \in Slots : Owns(elems, o, s) /\ Address(elems[o]) = b.addr
    <3>1. PICK o \in Slots : Owns(elems, o, s) /\ Address(elems[o]) = b.addr
      BY <2>5
    <3>2. \A y \in Slots : Clock(y, s) \in Nat
      BY <2>1, ClockFacts
    <3>3. CASE Clock(h, s) <= Clock(o, s)
      <4>1. Owns(after, h, s)
        BY <1>5, <1>7, <3>1, <3>2, <3>3 DEF Owns
      <4>2. Address(after[h]) = b.addr
        BY <1>2
      <4> QED
        BY <2>2, <2>3, <2>5, <4>1, <4>2
    <3>4. CASE ~(Clock(h, s) <= Clock(o, s))
      <4>1. Clock(o, s) <= Clock(h, s)
        BY <3>2, <3>4
      <4>2. Owns(after, o, s) /\ Address(after[o]) = b.addr
        BY <1>5, <1>7, <3>1, <4>1 DEF Owns
      <4> QED
        BY <2>2, <2>3, <2>5, <4>2
    <3> QED
      BY <3>3, <3>4
  <2> QED
    BY <2>4, <2>5 DEF AddMoves
<1>12. MovesFit(after, g, st, b)
  BY <1>1, <1>4, <1>8, <1>10, <1>11 DEF MovesFit
<1> QED
  BY <1>12 DEF after, g

-----------------------------------------------------------------------------
(* A server leaves the ring.                                               *)

LEMMA RemovedMoves ==
  ASSUME TypeOK, Distinct,
         NEW elems \in [Slots -> Elements], NEW w \in Seq(Frames), NEW st, NEW b,
         CallsFit(elems, w), w # << >> => Head(w).op = "del", RoutesFit(elems, w, st),
         ServersUsed(elems), CallsUsed(w, b), StaleAlone(elems, w, st, b),
         DelMoves(elems, w, st, b),
         NEW h \in Slots, elems[h].type = "server", Address(elems[h]) = b.addr,
         NEW f \in Frames, f.op = "del", f.at = h, f.e = elems[h],
         w = << >> => h = SlotOf(<<f.e.ip[1], Plain>>, f.e.port),
         w # << >> => 2 \notin DOMAIN w /\ f.e.numberofvirtualnodes = 0
  PROVE  MovesFit([elems EXCEPT ![h] = Empty], <<f>> \o w, st, b)
<1> DEFINE after == [elems EXCEPT ![h] = Empty]
           g     == <<f>> \o w
<1>1. g # << >> /\ Head(g) = f /\ Ats(g) = Ats(w) \cup {h}
  BY StackFacts, AtsPushed
<1>2. \A s \in Slots : after[s] = IF s = h THEN Empty ELSE elems[s]
  OBVIOUS
<1>3. \A a \in Ats(w) : a \in Slots /\ elems[a].type = "empty"
  <2>1. \A a \in Ats(w) : w # << >>
    BY DEF Ats
  <2>2. \A a \in Ats(w) : elems[a].type = "empty" /\ a \in Places
    BY <2>1, SlotsOfCalls
  <2> QED
    BY <2>2, PointerFacts
<1>4. h \in ServersOf(elems)
  BY DEF ServersOf
<1>5. CallsUsed(g, b)
  <2>1. Bought(elems[h])
    BY <1>4 DEF ServersUsed, AddedAs
  <2> QED
    BY <2>1, UsedPushed
<1> HIDE DEF g, after
<1>6. ServersOf(after) = ServersOf(elems) \ {h}
  BY <1>2, ElementKinds DEF ServersOf
<1>7. KeysOf(after) = KeysOf(elems) /\ h \notin KeysOf(elems)
  BY <1>2, ElementKinds DEF KeysOf
<1>8. \A x \in ServersOf(elems) : x \in Slots /\ (x # h => after[x] = elems[x])
  BY <1>2 DEF ServersOf
<1>9. ServersUsed(after)
  BY <1>6, <1>8 DEF ServersUsed
<1>10. /\ Nodes(after, g) = Nodes(elems, w)
       /\ \A x \in Nodes(elems, w) : NodeAddress(after, b, x) = NodeAddress(elems, b, x)
  <2>1. Nodes(after, g) = Nodes(elems, w)
    BY <1>1, <1>4, <1>6 DEF Nodes
  <2>2. ASSUME NEW x \in Nodes(elems, w)
        PROVE  NodeAddress(after, b, x) = NodeAddress(elems, b, x)
    <3>1. x \in Slots
      BY <1>3, <1>8 DEF Nodes
    <3> QED
      BY <3>1, <1>2, ElementKinds DEF NodeAddress
  <2> QED
    BY <2>1, <2>2
<1>11. StaleAlone(after, g, st, b)
  <2> SUFFICES ASSUME NEW s \in st, NEW n \in Nodes(after, g),
                      \A x \in Nodes(after, g) : Clock(n, s) <= Clock(x, s)
               PROVE  Alone(after, g, b, n)
    BY <1>7 DEF StaleAlone
  <2>1. Alone(elems, w, b, n)
    BY <1>10 DEF StaleAlone
  <2> QED
    BY <2>1, <1>10 DEF Alone
<1>12. DelMoves(after, g, st, b)
  <2> SUFFICES ASSUME NEW s \in KeysOf(elems) \ st, b.routes[s] \notin {NULL, b.addr}
               PROVE  Settled(after, g, s) /\ b.routes[s] = Route(after, s)
    BY <1>7 DEF DelMoves
  <2>1. Settled(elems, w, s) /\ b.routes[s] = Route(elems, s)
    BY DEF DelMoves
  <2>2. s \in Slots /\ elems[s].type = "key" /\ after[s] = elems[s]
    BY <1>2, <1>7 DEF KeysOf
  <2>3. PICK o \in Slots : Owns(elems, o, s) /\ Led(elems, s, o)
    BY <2>1 DEF RoutesFit, KeysLed
  <2>4. o \in ServersOf(elems) /\ o \notin Ats(w)
    BY <1>3, <2>3 DEF Owns, ServersOf
  <2>5. o # h
    <3> SUFFICES ASSUME o = h
                 PROVE  FALSE
      OBVIOUS
    <3>1. Marked(elems, o)
      BY <2>4 DEF RoutesFit, ServersNamed
    <3>2. Route(elems, s) \in {NULL, Address(elems[o])}
      BY <2>3, <2>4, <3>1, LedToAddress
    <3> QED
      BY <3>2, <2>1
  <2>6. Settled(after, g, s)
    <3>1. \A y \in Slots : Clock(y, s) \in Nat
      BY <2>2, ClockFacts
    <3>2. Clock(o, s) < Clock(h, s)
      <4>1. Clock(o, s) <= Clock(h, s) /\ Clock(o, s) # Clock(h, s)
        BY <2>2, <2>3, <2>5, <1>4, ClockFacts DEF Owns
      <4> QED
        BY <4>1, <3>1
    <3>3. ASSUME NEW a \in Ats(w)
          PROVE  Clock(o, s) < Clock(a, s)
      <4>1. PICK y \in ServersOf(elems) : Clock(y, s) < Clock(a, s)
        BY <2>1 DEF Settled
      <4>2. Clock(o, s) <= Clock(y, s) /\ y \in Slots
        BY <2>3, <1>8 DEF Owns
      <4> QED
        BY <4>1, <4>2, <3>1, <1>3
    <3> QED
      BY <3>2, <3>3, <1>1, <1>6, <2>4, <2>5 DEF Settled
  <2>7. Route(after, s) = Route(elems, s)
    <3> DEFINE x == SlotOf(elems[s].store, elems[s].port)
    <3>1. CASE x = h
      <4>1. Route(elems, s) = b.addr
        BY <2>2, <3>1 DEF Route
      <4> QED
        BY <4>1, <2>1
    <3>2. CASE x # h
      <4>1. after[x] = elems[x]
        BY <3>2 DEF after
      <4> QED
        BY <4>1, <2>2 DEF Route
    <3> QED
      BY <3>1, <3>2
  <2> QED
    BY <2>1, <2>6, <2>7
<1>13. MovesFit(after, g, st, b)
  BY <1>1, <1>5, <1>9, <1>11, <1>12 DEF MovesFit
<1> QED
  BY <1>13 DEF after, g

-----------------------------------------------------------------------------
(* The call on top moves, and names are cut.                               *)

LEMMA ToppedMoves ==
  ASSUME NEW elems, NEW w \in Seq(Frames), NEW st, NEW b, w # << >>,
         CallsFit(elems, w), MovesFit(elems, w, st, b),
         NEW f \in Frames, f.op = Head(w).op, f.at = Head(w).at, f.e = Head(w).e
  PROVE  MovesFit(elems, <<f>> \o Tail(w), st, b)
<1> DEFINE g == <<f>> \o Tail(w)
<1>1. Ats(g) = Ats(w) /\ g # << >> /\ Head(g) = f
  BY Moved
<1>2. CallsUsed(g, b)
  BY UsedMoved DEF MovesFit
<1> HIDE DEF g
<1>3. StaleAlone(elems, g, st, b)
  BY <1>1 DEF MovesFit, StaleAlone, Alone, Nodes
<1>4. DelMoves(elems, w, st, b) => DelMoves(elems, g, st, b)
  BY <1>1 DEF DelMoves, Settled
<1>5. MovesFit(elems, g, st, b)
  BY <1>1, <1>2, <1>3, <1>4 DEF MovesFit
<1> QED
  BY <1>5 DEF g

(* Between requests nothing is remembered.                                 *)
LEMMA RestMoves ==
  ASSUME NEW elems, NEW st, NEW b, NEW c, MovesFit(elems, << >>, st, b)
  PROVE  MovesFit(elems, << >>, st, c)
<1>1. Nodes(elems, << >>) = ServersOf(elems)
  BY DEF Nodes, Ats
<1>2. \A x \in ServersOf(elems) : NodeAddress(elems, b, x) = NodeAddress(elems, c, x)
  BY DEF NodeAddress, ServersOf
<1>3. StaleAlone(elems, << >>, st, c)
  BY <1>1, <1>2 DEF MovesFit, StaleAlone, Alone
<1> QED
  BY <1>3 DEF MovesFit, CallsUsed

LEMMA CutMoves ==
  ASSUME NEW a, NEW e, CutFrom(a, e), NEW st, NEW b, MovesFit(e, << >>, st, b)
  PROVE  MovesFit(a, << >>, st, b)
<1>1. ServersOf(a) = ServersOf(e) /\ KeysOf(a) = KeysOf(e)
  BY SameKindsSets DEF CutFrom
<1>2. Nodes(a, << >>) = ServersOf(e) /\ Nodes(e, << >>) = ServersOf(e)
  BY <1>1 DEF Nodes, Ats
<1>3. \A x \in ServersOf(e) : NodeAddress(a, b, x) = NodeAddress(e, b, x)
  BY <1>1 DEF NodeAddress, ServersOf, CutFrom, Address
<1>4. StaleAlone(a, << >>, st, b)
  BY <1>1, <1>2, <1>3 DEF MovesFit, StaleAlone, Alone
<1>5. ServersUsed(a)
  <2> SUFFICES ASSUME NEW h \in ServersOf(e)
               PROVE  \E v : AddedAs(a[h], h, v)
    BY <1>1 DEF ServersUsed
  <2>1. PICK v : AddedAs(e[h], h, v)
    BY DEF MovesFit, ServersUsed
  <2>2. /\ a[h].ip[1] = e[h].ip[1] /\ a[h].port = e[h].port
        /\ a[h].numberofvirtualnodes = e[h].numberofvirtualnodes
    BY DEF CutFrom
  <2> QED
    BY <2>1, <2>2 DEF AddedAs, Bought
<1> QED
  BY <1>4, <1>5 DEF MovesFit, CallsUsed

-----------------------------------------------------------------------------
(* Calls end.                                                              *)

(* A key that is not renamed is sent where it was.                         *)
LEMMA SentAsBefore ==
  ASSUME TypeOK, NEW e \in [Slots -> Elements], NEW a \in [Slots -> Elements], SameKinds(a, e),
         \A g \in ServersOf(e) : a[g].ip = e[g].ip /\ a[g].port = e[g].port,
         NEW s \in KeysOf(e), a[s] = e[s]
  PROVE  Route(a, s) = Route(e, s)
<1> DEFINE x == SlotOf(e[s].store, e[s].port)
<1>1. e[s] \in KeyElements /\ e[s].type = "key"
  BY ElementKinds DEF KeysOf
<1>2. x \in Slots
  BY <1>1, SlotOfType, PointerFacts DEF TypeOK, KeyElements
<1> HIDE DEF x
<1>3. a[x].type = e[x].type
  BY <1>2 DEF SameKinds
<1>4. e[x].type = "server" => Address(a[x]) = Address(e[x])
  BY <1>2 DEF ServersOf, Address
<1>5. Route(a, s) = IF a[x].type = "server" THEN Address(a[x]) ELSE NULL
  BY <1>1 DEF Route, x
<1>6. Route(e, s) = IF e[x].type = "server" THEN Address(e[x]) ELSE NULL
  BY <1>1 DEF Route, x
<1> QED
  BY <1>3, <1>4, <1>5, <1>6

(* Names and numbers of servers stay, so they stay as they were added.     *)
LEMMA UsedAsBefore ==
  ASSUME NEW e, NEW a, ServersUsed(e), ServersOf(a) = ServersOf(e),
         \A g \in ServersOf(e) : /\ a[g].ip = e[g].ip /\ a[g].port = e[g].port
                                  /\ a[g].numberofvirtualnodes = e[g].numberofvirtualnodes
  PROVE  ServersUsed(a)
<1> SUFFICES ASSUME NEW h \in ServersOf(e)
             PROVE  \E v : AddedAs(a[h], h, v)
  BY DEF ServersUsed
<1>1. PICK v : AddedAs(e[h], h, v)
  BY DEF ServersUsed
<1>2. /\ a[h].ip = e[h].ip /\ a[h].port = e[h].port
      /\ a[h].numberofvirtualnodes = e[h].numberofvirtualnodes
  OBVIOUS
<1> QED
  BY <1>1, <1>2 DEF AddedAs, Bought

LEMMA FinishAddMoves ==
  ASSUME TInv, RoutesSound, MovesSound, FinishAdd, shadowed = {}, Distinct
  PROVE  MovesFit(elements', Below, stale', before) /\ AddMoves(elements', before)
<1> DEFINE h == Top.at
<1>1. status = "ok" /\ work # << >> /\ Top.op = "add"
  BY DEF FinishAdd, In
<1>2. /\ RoutesFit(elements, work, stale) /\ MovesFit(elements, work, stale, before) /\ IInv
      /\ TypeOK /\ elements \in [Slots -> Elements]
  BY <1>1, CountsNow DEF RoutesSound, MovesSound, TInv, IInv
<1>3. /\ CallsFit(elements, Below) /\ Below \in Seq(Frames) /\ Ats(work) = Ats(Below) \cup {h}
      /\ Below # << >> => Head(Below).op = "add"
      /\ h \in Slots
  BY <1>1, BelowFits, TopFrame DEF TInv
<1>4. /\ work \in Seq(Frames) /\ CallsFit(elements, work)
      /\ Top = Head(work) /\ Below = Tail(work) /\ Top = work[1] /\ 1 \in DOMAIN work
      /\ Top.e \in ServerElements
  BY <1>1, <1>2, WorkFacts, StackFacts, TopFrame
<1>5. \A a \in Ats(work) : a \in ServersOf(elements) /\ NodeAddress(elements, before, a) = before.addr
  <2>1. \A a \in Ats(work) : elements[a].type = "server" /\ a \in Places
    BY <1>1, <1>4, SlotsOfCalls
  <2>2. \A a \in Ats(work) : NodeAddress(elements, before, a) = before.addr
    BY <1>2, <1>4, CallsAddress DEF RoutesFit, MovesFit
  <2> QED
    BY <2>1, <2>2, PointerFacts DEF ServersOf
<1>6. h \in ServersOf(elements) /\ Address(elements[h]) = before.addr
  BY <1>3, <1>5 DEF NodeAddress, ServersOf
<1>7. SameKinds(elements', elements) /\ elements' \in [Slots -> Elements]
  BY <1>1, <1>2, FinishAddKinds
<1>8. ServersOf(elements') = ServersOf(elements) /\ KeysOf(elements') = KeysOf(elements)
  BY <1>7, SameKindsSets
<1>9. /\ \A g \in ServersOf(elements) :
           /\ elements'[g].ip = elements[g].ip /\ elements'[g].port = elements[g].port
           /\ elements'[g].numberofvirtualnodes = elements[g].numberofvirtualnodes
      /\ \A s \in KeysOf(elements) :
           IF numberofservers > 1 /\ s \in Arc(elements, h)
           THEN elements'[s].store = Top.e.ip /\ elements'[s].port = Top.e.port
           ELSE elements'[s] = elements[s]
      /\ stale' = IF numberofservers > 1 THEN stale \ Arc(elements, h) ELSE stale
  BY <1>2, <1>6, FinishAddWrites
<1>10. SlotOf(Top.e.ip, Top.e.port) = h
  BY <1>1, <1>2, <1>4 DEF RoutesFit, CallsNamed
<1>11. /\ CallsUsed(Below, before)
       /\ Below = << >> => h = SlotOf(<<Top.e.ip[1], Plain>>, Top.e.port)
       /\ Address(Top.e) = before.addr
  BY <1>1, <1>2, <1>4, UsedPopped DEF MovesFit
<1> HIDE DEF h
<1>12. ServersUsed(elements')
  BY <1>2, <1>8, <1>9, UsedAsBefore DEF MovesFit
<1>13. /\ Nodes(elements, work) = ServersOf(elements) /\ Nodes(elements', Below) = ServersOf(elements)
       /\ \A x \in ServersOf(elements) : NodeAddress(elements', before, x) = NodeAddress(elements, before, x)
  <2>1. Nodes(elements, work) = ServersOf(elements) /\ Nodes(elements', Below) = ServersOf(elements)
    BY <1>3, <1>5, <1>8 DEF Nodes
  <2>2. ASSUME NEW x \in ServersOf(elements)
        PROVE  NodeAddress(elements', before, x) = NodeAddress(elements, before, x)
    <3>1. x \in ServersOf(elements') /\ elements'[x].ip = elements[x].ip /\ elements'[x].port = elements[x].port
      BY <1>8, <1>9
    <3>2. elements'[x].type = "server" /\ elements[x].type = "server"
      BY <3>1 DEF ServersOf
    <3> QED
      BY <3>1, <3>2 DEF NodeAddress, Address
  <2> QED
    BY <2>1, <2>2
<1>14. \A x \in Slots, y \in Slots : Clock(x, y) \in Nat
  BY ClockFacts
<1>15. StaleAlone(elements', Below, stale', before)
  <2>1. stale \subseteq KeysOf(elements) /\ stale' \subseteq stale
    BY <1>2, <1>9 DEF MovesFit, StaleAlone
  <2>2. \A n \in Ats(Below) : Below # << >>
    BY DEF Ats
  <2> SUFFICES ASSUME NEW s \in stale', NEW n \in ServersOf(elements), n \notin Ats(Below),
                      \A x \in ServersOf(elements) : Clock(n, s) <= Clock(x, s)
               PROVE  Alone(elements', Below, before, n)
    BY <1>3, <1>8, <1>13, <2>1, <2>2 DEF StaleAlone
  <2>3. s \in Slots /\ s # h /\ s \in stale
    BY <1>6, <2>1 DEF KeysOf, ServersOf
  <2>4. CASE n # h
    <3>1. Alone(elements, work, before, n)
      BY <1>2, <1>3, <1>13, <2>3, <2>4 DEF MovesFit, StaleAlone
    <3> QED
      BY <3>1, <1>13 DEF Alone
  <2>5. CASE n = h
    <3>1. ~(numberofservers > 1)
      <4> SUFFICES ASSUME numberofservers > 1
                   PROVE  FALSE
        OBVIOUS
      <4>1. s \notin Arc(elements, h)
        BY <1>9
      <4>2. PICK y \in ServersOf(elements) \ {h} : Clock(y, s) < Clock(h, s)
        BY <1>3, <2>3, <4>1, NotInArc DEF h
      <4>3. y \in Slots /\ h \in Slots
        BY <1>6 DEF ServersOf
      <4> QED
        BY <2>3, <2>5, <4>2, <4>3, <1>14
    <3>2. ServersOf(elements) = {h}
      <4>1. Cardinality(ServersOf(elements)) <= 1 /\ IsFiniteSet(ServersOf(elements))
        BY <1>2, <3>1, ServersCounted, SlotSetsFinite
      <4>2. \A g \in ServersOf(elements) : g = h
        BY <4>1, <1>6, FS_CardinalityType, FS_Singleton, FS_RemoveElement, FS_EmptySet
      <4> QED
        BY <4>2, <1>6
    <3>3. Below = << >>
      <4> SUFFICES ASSUME Below # << >>
                   PROVE  FALSE
        OBVIOUS
      <4>1. Head(Below).at \in Ats(Below)
        BY <1>3, SlotsOfCalls
      <4>2. Head(Below).at = h
        BY <1>3, <1>5, <3>2, <4>1
      <4> QED
        BY <2>5, <4>1, <4>2
    <3>4. before.addr[1] = Top.e.ip[1] /\ before.addr[2] = Top.e.port
      BY <1>11 DEF Address
    <3>5. NodeAddress(elements', before, n) = before.addr
      BY <1>3, <1>5, <1>13, <2>5
    <3> QED
      BY <3>2, <3>3, <3>4, <3>5, <1>11, <1>13, <2>5 DEF Alone
  <2> QED
    BY <2>4, <2>5
<1>16. AddMoves(elements', before)
  <2> SUFFICES ASSUME NEW s \in KeysOf(elements)
               PROVE  \/ before.routes[s] \in {NULL, Route(elements', s)}
                      \/ /\ Route(elements', s) = before.addr
                         /\ \E o \in Slots : /\ Owns(elements', o, s)
                                              /\ Address(elements'[o]) = before.addr
    BY <1>8 DEF AddMoves
  <2>1. s \in Slots /\ s # h /\ elements'[s].type = "key"
    BY <1>6, <1>8 DEF KeysOf, ServersOf
  <2>2. Address(elements'[h]) = before.addr /\ elements'[h].type = "server"
    BY <1>6, <1>8, <1>9 DEF Address, ServersOf
  <2>3. CASE numberofservers > 1 /\ s \in Arc(elements, h)
    <3>1. Route(elements', s) = before.addr
      BY <1>9, <1>10, <2>1, <2>2, <2>3 DEF Route
    <3>2. \A g \in ServersOf(elements) : Clock(h, s) <= Clock(g, s)
      <4>1. \A g \in ServersOf(elements) \ {h} : Clock(h, s) < Clock(g, s)
        BY <1>3, <2>1, <2>3, ArcIs DEF h
      <4>2. \A g \in ServersOf(elements) : Clock(g, s) \in Nat
        BY <2>1, <1>14 DEF ServersOf
      <4> QED
        BY <4>1, <4>2, <1>6
    <3>3. Owns(elements', h, s)
      BY <1>6, <1>8, <3>2 DEF Owns
    <3> QED
      BY <1>3, <2>2, <3>1, <3>3 DEF h
  <2>4. CASE ~(numberofservers > 1 /\ s \in Arc(elements, h))
    <3>1. Route(elements', s) = Route(elements, s)
      <4>1. elements'[s] = elements[s]
        BY <1>9, <2>4
      <4> QED
        BY <4>1, <1>2, <1>7, <1>9, SentAsBefore
    <3>2. \/ before.routes[s] \in {NULL, Route(elements, s)}
          \/ /\ Route(elements, s) = before.addr
             /\ \E o \in Slots : Owns(elements, o, s) /\ Address(elements[o]) = before.addr
      BY <1>1, <1>2, <1>4 DEF MovesFit, AddMoves
    <3>3. ASSUME NEW o \in Slots, Owns(elements, o, s), Address(elements[o]) = before.addr
          PROVE  Owns(elements', o, s) /\ Address(elements'[o]) = before.addr
      <4>1. o \in ServersOf(elements) /\ Owns(elements', o, s)
        BY <1>8, <3>3 DEF Owns
      <4> QED
        BY <4>1, <3>3, <1>9 DEF Address
    <3> QED
      BY <3>1, <3>2, <3>3
  <2> QED
    BY <2>3, <2>4
<1>17. Below # << >> => Head(Below).op = "add"
  BY <1>3
<1> QED
  BY <1>11, <1>12, <1>15, <1>16, <1>17 DEF MovesFit

LEMMA FinishRemoveMoves ==
  ASSUME TInv, RoutesSound, MovesSound, FinishRemove, shadowed = {}, Distinct
  PROVE  /\ MovesFit(elements', Below, stale', before)
         /\ \A s \in KeysOf(elements) \ stale :
              before.routes[s] \in {NULL, before.addr, Route(elements', s)}
<1> DEFINE h == Top.at
<1>1. status = "ok" /\ work # << >> /\ Top.op = "del"
  BY DEF FinishRemove, In
<1>2. /\ RoutesFit(elements, work, stale) /\ MovesFit(elements, work, stale, before) /\ IInv
      /\ TypeOK /\ elements \in [Slots -> Elements]
  BY <1>1, CountsNow DEF RoutesSound, MovesSound, TInv, IInv
<1>3. /\ CallsFit(elements, Below) /\ Below \in Seq(Frames) /\ Ats(work) = Ats(Below) \cup {h}
      /\ h \notin Ats(Below)
      /\ Below # << >> => Head(Below).op = "del"
      /\ h \in Slots
  BY <1>1, BelowFits, TopFrame DEF TInv
<1>4. /\ work \in Seq(Frames) /\ CallsFit(elements, work) /\ Top = Head(work) /\ Below = Tail(work)
  BY <1>1, WorkFacts
<1>5. \A a \in Ats(work) : /\ a \in Slots /\ elements[a].type = "empty" /\ a \notin ServersOf(elements)
                            /\ NodeAddress(elements, before, a) = before.addr
  <2>1. \A a \in Ats(work) : elements[a].type = "empty" /\ a \in Places
    BY <1>1, <1>4, SlotsOfCalls
  <2> QED
    BY <2>1, PointerFacts DEF ServersOf, NodeAddress
<1>6. SameKinds(elements', elements) /\ elements' \in [Slots -> Elements]
  BY <1>1, <1>2, FinishRemoveKinds
<1>7. ServersOf(elements') = ServersOf(elements) /\ KeysOf(elements') = KeysOf(elements)
  BY <1>6, SameKindsSets
<1>8. /\ \A g \in ServersOf(elements) :
           /\ elements'[g].ip = elements[g].ip /\ elements'[g].port = elements[g].port
           /\ elements'[g].numberofvirtualnodes = elements[g].numberofvirtualnodes
      /\ \A s \in KeysOf(elements) :
           ~(numberofservers > 0 /\ s \in Arc(elements, h)) => elements'[s] = elements[s]
      /\ stale' = IF numberofservers > 0 THEN stale \ Arc(elements, h)
                  ELSE stale \cup KeysOf(elements)
  BY <1>2, FinishRemoveWrites
<1>9. /\ CallsUsed(Below, before) /\ 2 \notin DOMAIN Below
  BY <1>1, <1>2, <1>4, UsedPopped DEF MovesFit
<1>10. \A a \in Ats(Below) : /\ a = SlotOf(<<before.addr[1], Plain>>, before.addr[2])
                              /\ \A c \in Ats(Below) : c = a
  <2> SUFFICES ASSUME NEW a \in Ats(Below)
               PROVE  a = SlotOf(<<before.addr[1], Plain>>, before.addr[2])
    OBVIOUS
  <2>1. PICK i \in DOMAIN Below : a = Below[i].at
    BY DEF Ats
  <2>2. i = 1 /\ 1 + 1 \notin DOMAIN Below
    BY <1>9 DEF CallsUsed
  <2>3. a = SlotOf(<<Below[i].e.ip[1], Plain>>, Below[i].e.port) /\ Address(Below[i].e) = before.addr
    BY <1>9, <2>1, <2>2 DEF CallsUsed
  <2>4. before.addr[1] = Below[i].e.ip[1] /\ before.addr[2] = Below[i].e.port
    BY <2>3 DEF Address
  <2> QED
    BY <2>3, <2>4
<1> HIDE DEF h
<1>11. h \in Ats(work)
  BY <1>3
<1>12. ServersUsed(elements')
  BY <1>2, <1>7, <1>8, UsedAsBefore DEF MovesFit
<1>13. /\ Nodes(elements', Below) \subseteq Nodes(elements, work)
       /\ Nodes(elements, work) = Nodes(elements', Below) \cup {h}
       /\ \A x \in Nodes(elements, work) :
            NodeAddress(elements', before, x) = NodeAddress(elements, before, x)
       /\ \A x \in Nodes(elements, work) : x \in Slots
  <2>1. /\ Nodes(elements, work) = ServersOf(elements) \cup Ats(Below) \cup {h}
        /\ Nodes(elements', Below) = ServersOf(elements) \cup Ats(Below)
    BY <1>3, <1>7 DEF Nodes, h
  <2>2. ASSUME NEW x \in Nodes(elements, work)
        PROVE  /\ x \in Slots
               /\ NodeAddress(elements', before, x) = NodeAddress(elements, before, x)
    <3>1. x \in Slots
      BY <1>5 DEF Nodes, ServersOf
    <3>2. elements'[x].type = elements[x].type
      BY <1>6, <3>1 DEF SameKinds
    <3>3. elements[x].type = "server" => Address(elements'[x]) = Address(elements[x])
      BY <1>8, <3>1 DEF Address, ServersOf
    <3> QED
      BY <3>1, <3>2, <3>3 DEF NodeAddress
  <2> QED
    BY <2>1, <2>2
<1>14. \A x \in Slots, y \in Slots : Clock(x, y) \in Nat
  BY ClockFacts
<1>15. stale \subseteq KeysOf(elements) /\ \A s \in KeysOf(elements) : s \in Slots /\ s # h
  BY <1>2, <1>5, <1>11 DEF MovesFit, StaleAlone, KeysOf
<1>16. numberofservers = 0 => ServersOf(elements) = {}
  BY <1>2, ServersCounted, SlotSetsFinite, FS_EmptySet
<1>17. StaleAlone(elements', Below, stale', before)
  <2>1. stale' \subseteq KeysOf(elements)
    BY <1>8, <1>15
  <2> SUFFICES ASSUME NEW s \in stale', NEW n \in Nodes(elements', Below),
                      \A x \in Nodes(elements', Below) : Clock(n, s) <= Clock(x, s)
               PROVE  Alone(elements', Below, before, n)
    BY <1>7, <2>1 DEF StaleAlone
  <2>2. s \in KeysOf(elements) /\ s \in Slots /\ s # h
    BY <1>15, <2>1
  <2>3. CASE numberofservers > 0
    <3>1. s \in stale /\ s \notin Arc(elements, h)
      BY <1>8, <2>3
    <3>2. PICK y \in ServersOf(elements) \ {h} : Clock(y, s) < Clock(h, s)
      BY <1>3, <2>2, <3>1, NotInArc DEF h
    <3>3. y \in Nodes(elements', Below)
      BY <1>7 DEF Nodes
    <3>4. Clock(n, s) <= Clock(h, s)
      BY <1>13, <1>14, <2>2, <3>2, <3>3
    <3>5. \A x \in Nodes(elements, work) : Clock(n, s) <= Clock(x, s)
      BY <1>13, <3>4
    <3>6. Alone(elements, work, before, n)
      BY <1>1, <1>2, <1>4, <1>13, <3>1, <3>5 DEF MovesFit, StaleAlone
    <3> QED
      BY <3>6, <1>13 DEF Alone
  <2>4. CASE ~(numberofservers > 0)
    <3>1. numberofservers = 0
      BY <2>4, <1>2, CountsNow, <1>1
    <3>2. Nodes(elements', Below) = Ats(Below)
      BY <1>7, <1>16, <3>1 DEF Nodes
    <3>3. n \in Ats(Below) /\ NodeAddress(elements', before, n) = before.addr
      BY <3>2, <1>3, <1>5, <1>13
    <3> QED
      BY <3>2, <3>3, <1>10 DEF Alone
  <2> QED
    BY <2>3, <2>4
<1>18. \A s \in KeysOf(elements) \ stale :
         \/ before.routes[s] \in {NULL, before.addr}
         \/ Settled(elements', Below, s) /\ before.routes[s] = Route(elements', s)
  <2> SUFFICES ASSUME NEW s \in KeysOf(elements) \ stale,
                      before.routes[s] \notin {NULL, before.addr}
               PROVE  Settled(elements', Below, s) /\ before.routes[s] = Route(elements', s)
    OBVIOUS
  <2>1. Settled(elements, work, s) /\ before.routes[s] = Route(elements, s)
    BY <1>1, <1>2, <1>4 DEF MovesFit, DelMoves
  <2>2. s \in Slots /\ s # h
    BY <1>15
  <2>3. s \notin Arc(elements, h)
    <3>1. PICK y \in ServersOf(elements) : Clock(y, s) < Clock(h, s)
      BY <1>11, <2>1 DEF Settled
    <3>2. y # h /\ y \in Slots
      BY <1>5, <1>11, <3>1 DEF ServersOf
    <3>3. Clock(y, s) \in Nat /\ Clock(h, s) \in Nat /\ ~(Clock(h, s) < Clock(y, s))
      BY <1>3, <1>14, <2>2, <3>1, <3>2 DEF h
    <3> QED
      BY <1>3, <2>2, <3>1, <3>2, <3>3, ArcIs DEF h
  <2>4. Route(elements', s) = Route(elements, s)
    <3>1. elements'[s] = elements[s]
      BY <1>8, <2>3
    <3> QED
      BY <3>1, <1>2, <1>6, <1>8, SentAsBefore
  <2>5. Settled(elements', Below, s)
    BY <1>3, <1>7, <2>1 DEF Settled
  <2> QED
    BY <2>1, <2>4, <2>5
<1>19. Below # << >> => KeysOf(elements) \ stale' \subseteq KeysOf(elements) \ stale
  <2> SUFFICES ASSUME Below # << >>, NEW s \in stale, numberofservers > 0, s \in Arc(elements, h)
               PROVE  FALSE
    BY <1>8
  <2>1. s \in Slots /\ s # h
    BY <1>15
  <2>2. PICK p \in Ats(Below) : TRUE
    BY <1>3, SlotsOfCalls
  <2>3. p \in Ats(work) /\ p # h /\ p \in Slots
    BY <1>3, <1>5, <2>2 DEF h
  <2>4. Nodes(elements, work) = ServersOf(elements) \cup {h, p}
    BY <1>3, <1>10 DEF Nodes, h
  <2>5. \A g \in ServersOf(elements) : g \in Slots /\ Clock(h, s) < Clock(g, s)
    <3>1. \A g \in ServersOf(elements) : g \in Slots /\ g # h
      BY <1>5, <1>11 DEF ServersOf
    <3> QED
      BY <3>1, <1>3, <2>1, ArcIs DEF h
  <2>6. Clock(h, s) \in Nat /\ Clock(p, s) \in Nat /\ \A g \in ServersOf(elements) : Clock(g, s) \in Nat
    BY <1>3, <1>14, <2>1, <2>3, <2>5 DEF h
  <2>7. \E n \in {h, p} : \A x \in Nodes(elements, work) : Clock(n, s) <= Clock(x, s)
    <3>1. CASE Clock(h, s) <= Clock(p, s)
      BY <3>1, <2>4, <2>5, <2>6
    <3>2. CASE Clock(p, s) <= Clock(h, s)
      BY <3>2, <2>4, <2>5, <2>6
    <3> QED
      BY <3>1, <3>2, <2>6
  <2>8. PICK n \in {h, p} : \A x \in Nodes(elements, work) : Clock(n, s) <= Clock(x, s)
    BY <2>7
  <2>9. Alone(elements, work, before, n)
    BY <1>1, <1>2, <1>4, <2>4, <2>8 DEF MovesFit, StaleAlone
  <2>10. NodeAddress(elements, before, h) = NodeAddress(elements, before, p)
    BY <1>5, <1>11, <2>3
  <2> QED
    BY <2>3, <2>4, <2>8, <2>9, <2>10 DEF Alone
<1>20. Below # << >> => DelMoves(elements', Below, stale', before)
  BY <1>7, <1>18, <1>19 DEF DelMoves
<1> QED
  BY <1>3, <1>9, <1>12, <1>17, <1>18, <1>20 DEF MovesFit

-----------------------------------------------------------------------------
(* Calls begin and move on.                                                *)

LEMMA EnterAddMoves ==
  ASSUME IInv, status = "ok", Distinct, NEW name \in Names, NEW port \in Ports,
         NEW weight \in 0 .. MaxWeight, NEW below \in Seq(Frames), NEW b,
         EnterAdd(name, port, weight, below), CallsFit(elements, below),
         below # << >> => Head(below).op = "add", RoutesFit(elements, below, stale),
         MovesFit(elements, below, stale, b), AddMoves(elements, b),
         <<name, port>> \in UsedNames, <<name[1], port>> = b.addr,
         weight = 0 \/ <<name[1], port, weight>> \in AddRequests,
         below = << >> => name[2] = Plain,
         below # << >> => 2 \notin DOMAIN below /\ weight = 0
  PROVE  MovesFit(elements', work', stale, b)
<1> DEFINE h == SlotOf(name, port)
<1>1. h \in Places /\ h \in Slots
  BY SlotOfType, PointerFacts DEF IInv, TypeOK
<1>2. CASE elements[h].type # "empty"
  BY <1>2 DEF EnterAdd, ring
<1>3. CASE elements[h].type = "empty"
  <2>1. PICK virtual \in Uninit :
          LET e == Server(name, port, weight, virtual)
          IN  /\ elements' = [elements EXCEPT ![h] = e]
              /\ work' = <<Frame("add", h, e)>> \o below
    BY <1>3 DEF EnterAdd
  <2> DEFINE e == Server(name, port, weight, virtual)
             f == Frame("add", h, e)
  <2>2. /\ e \in ServerElements /\ e.ip = name /\ e.port = port
        /\ e.numberofvirtualnodes = weight
    BY RingAssumption, PointerFacts DEF Server, ServerElements, Slots
  <2>3. name = <<name[1], name[2]>>
    BY DEF Names
  <2>4. weight # 0 => name[2] = Plain
    OBVIOUS
  <2> HIDE DEF e
  <2>5. AddedAs(e, h, name[2])
    <3>1. <<<<e.ip[1], name[2]>>, e.port>> = <<name, port>>
      BY <2>2, <2>3
    <3>2. Bought(e)
      BY <2>2 DEF Bought
    <3>3. SlotOf(<<e.ip[1], name[2]>>, e.port) = h
      BY <2>2, <2>3
    <3> QED
      BY <2>2, <2>4, <3>1, <3>2, <3>3 DEF AddedAs
  <2>6. Address(e) = b.addr
    BY <2>2 DEF Address
  <2>7. below = << >> => h = SlotOf(<<e.ip[1], Plain>>, e.port)
    BY <2>2, <2>3
  <2> HIDE DEF h
  <2>8. f \in Frames /\ f.at = h /\ f.op = "add" /\ f.e = e
    BY <1>1, <2>2, NewFrame DEF Frame
  <2> HIDE DEF f
  <2>9. work' = <<f>> \o below /\ elements' = [elements EXCEPT ![h] = e]
    BY <2>1 DEF f, e
  <2>10. /\ elements \in [Slots -> Elements] /\ CallsNamed(elements, below)
         /\ ServersUsed(elements) /\ CallsUsed(below, b) /\ StaleAlone(elements, below, stale, b)
         /\ \E v : AddedAs(e, h, v)
    BY <2>5, CountsNow DEF RoutesFit, MovesFit
  <2>11. MovesFit([elements EXCEPT ![h] = e], <<f>> \o below, stale, b)
    BY <1>1, <1>3, <2>2, <2>6, <2>7, <2>8, <2>10, AddedMoves
  <2> QED
    BY <2>9, <2>11
<1> QED
  BY <1>2, <1>3

LEMMA EnterRemoveMoves ==
  ASSUME IInv, status = "ok", Distinct, NEW name \in Names, NEW port \in Ports,
         NEW below \in Seq(Frames), NEW b,
         EnterRemove(name, port, below), CallsFit(elements, below),
         below # << >> => Head(below).op = "del", RoutesFit(elements, below, stale),
         MovesFit(elements, below, stale, b), DelMoves(elements, below, stale, b),
         <<name, port>> \in UsedNames, <<name[1], port>> = b.addr,
         below = << >> => name[2] = Plain,
         below # << >> => 2 \notin DOMAIN below /\ name[2] # Plain
  PROVE  MovesFit(elements', work', stale, b)
<1> DEFINE h == SlotOf(name, port)
           f == Frame("del", h, elements[h])
<1>1. h \in Places /\ h \in Slots
  BY SlotOfType, PointerFacts DEF IInv, TypeOK
<1>2. CASE elements[h].type # "server"
  BY <1>2 DEF EnterRemove, ring
<1>3. CASE elements[h].type = "server"
  <2>1. /\ elements' = [elements EXCEPT ![h] = Empty]
        /\ work' = <<f>> \o below
    BY <1>3 DEF EnterRemove
  <2>2. elements \in [Slots -> Elements] /\ elements[h] \in ServerElements
    BY <1>1, <1>3, CountsNow, ElementKinds
  <2>3. name = <<name[1], name[2]>>
    BY DEF Names
  <2>4. /\ Address(elements[h]) = <<name[1], port>>
        /\ elements[h].ip[1] = name[1] /\ elements[h].port = port
        /\ elements[h].numberofvirtualnodes # 0 => name[2] = Plain
    <3>1. h \in ServersOf(elements)
      BY <1>1, <1>3 DEF ServersOf
    <3>2. SlotOf(<<name[1], name[2]>>, port) = h /\ <<<<name[1], name[2]>>, port>> \in UsedNames
      BY <2>3
    <3> HIDE DEF h, f
    <3>3. ServersUsed(elements)
      BY DEF MovesFit
    <3>4. LET d == elements[SlotOf(<<name[1], name[2]>>, port)]
          IN  /\ Address(d) = <<name[1], port>> /\ d.ip[1] = name[1] /\ d.port = port
              /\ d.numberofvirtualnodes # 0 => name[2] = Plain
      BY <3>1, <3>2, <3>3, LookedUp
    <3> QED
      BY <3>2, <3>4
  <2>5. below = << >> => h = SlotOf(<<elements[h].ip[1], Plain>>, elements[h].port)
    BY <2>3, <2>4
  <2> HIDE DEF h
  <2>6. f \in Frames /\ f.at = h /\ f.op = "del" /\ f.e = elements[h]
    BY <1>1, <2>2, NewFrame DEF Frame
  <2> HIDE DEF f
  <2>7. below # << >> => 2 \notin DOMAIN below /\ f.e.numberofvirtualnodes = 0
    BY <2>4, <2>6
  <2>8. /\ TypeOK /\ ServersUsed(elements) /\ CallsUsed(below, b)
        /\ StaleAlone(elements, below, stale, b) /\ Address(elements[h]) = b.addr
    BY <2>4 DEF MovesFit, IInv
  <2>9. below = << >> => h = SlotOf(<<f.e.ip[1], Plain>>, f.e.port)
    BY <2>5, <2>6
  <2>10. MovesFit([elements EXCEPT ![h] = Empty], <<f>> \o below, stale, b)
    BY <1>1, <1>3, <2>2, <2>6, <2>7, <2>8, <2>9, RemovedMoves
  <2> QED
    BY <2>1, <2>10
<1> QED
  BY <1>2, <1>3

LEMMA CountedMoves ==
  ASSUME TInv, work # << >>, Top.i < Top.e.numberofvirtualnodes,
         MovesFit(elements, work, stale, before)
  PROVE  MovesFit(elements, Counted, stale, before) /\ 2 \notin DOMAIN Counted
<1> DEFINE f == [Top EXCEPT !.i = @ + 1]
<1>1. Top \in Frames /\ Top = Head(work) /\ Below = Tail(work) /\ work \in Seq(Frames)
      /\ CallsFit(elements, work)
  BY WorkFacts
<1>2. Counted = <<f>> \o Tail(work) /\ Counted[1] = f
  BY <1>1 DEF Counted
<1>3. f \in Frames /\ f.op = Top.op /\ f.at = Top.at /\ f.e = Top.e
  <2>1. Top.i + 1 \in 0 .. MaxWeight
    BY TopFrame, NameTypes DEF TInv
  <2> QED
    BY <1>1, <2>1 DEF Frames
<1> HIDE DEF f
<1>4. MovesFit(elements, <<f>> \o Tail(work), stale, before)
  BY <1>1, <1>3, ToppedMoves
<1>5. 2 \in DOMAIN Counted => f.e.numberofvirtualnodes = 0
  BY <1>2, <1>4 DEF MovesFit, CallsUsed
<1>6. Top.e.numberofvirtualnodes # 0
  BY TopFrame, NameTypes DEF TInv
<1> QED
  BY <1>2, <1>3, <1>4, <1>5, <1>6

LEMMA VirtualMoves ==
  ASSUME TInv, RoutesSound, MovesSound, AddVirtual \/ RemoveVirtual
  PROVE  MovesSound'
<1>1. fn' = fn
  <2>1. CASE AddVirtual
    BY <2>1 DEF AddVirtual, EnterAdd, ring
  <2>2. CASE RemoveVirtual
    <3>1. \/ EnterRemove(<<Top.e.ip[1], Top.i>>, Top.e.port, Counted)
          \/ UNCHANGED ring
      BY <2>2 DEF RemoveVirtual
    <3> QED
      BY <3>1 DEF EnterRemove, ring
  <2> QED
    BY <2>1, <2>2
<1>2. /\ status = "ok" /\ work # << >> /\ Top.i < Top.e.numberofvirtualnodes
      /\ UNCHANGED <<stale, shadowed, before>>
  BY DEF AddVirtual, RemoveVirtual, In, history
<1> SUFFICES ASSUME shadowed = {}, Distinct
             PROVE  MovesFit(elements', work', stale, before)
  BY <1>1, <1>2, MovesThen
<1>3. RoutesFit(elements, work, stale) /\ MovesFit(elements, work, stale, before)
  BY <1>2 DEF RoutesSound, MovesSound
<1>4. /\ Counted \in Seq(Frames) /\ CallsFit(elements, Counted) /\ Counted # << >>
      /\ Head(Counted).op = Top.op /\ RoutesFit(elements, Counted, stale)
      /\ MovesFit(elements, Counted, stale, before) /\ 2 \notin DOMAIN Counted
  BY <1>2, <1>3, CountedRoutes, CountedMoves
<1> DEFINE name == <<Top.e.ip[1], Top.i>>
           port == Top.e.port
           n == Top.e.numberofvirtualnodes
<1>5. name \in Names /\ port \in Ports /\ 0 \in 0 .. MaxWeight
  BY <1>2, NextVirtual, TopFrame, NameTypes DEF TInv
<1>6. Top.i \in Nat /\ n \in Nat /\ Top.i < n /\ Top.i \in -1 .. MaxWeight - 1
  BY <1>2, TopFrame, NameTypes DEF TInv
<1>7. Address(Top.e) = before.addr /\ Bought(Top.e)
  BY <1>2, <1>3, UsedPopped, WorkFacts DEF MovesFit
<1>8. <<name, port>> \in UsedNames
  <2>1. n # 0
    BY <1>6
  <2>2. <<Top.e.ip[1], port, n>> \in AddRequests
    BY <1>7, <2>1 DEF Bought
  <2> HIDE DEF n, port
  <2>3. <<Top.e.ip[1], port, n>>[1] = Top.e.ip[1] /\ <<Top.e.ip[1], port, n>>[2] = port
        /\ <<Top.e.ip[1], port, n>>[3] = n
    OBVIOUS
  <2> QED
    BY <1>6, <2>2, <2>3, NamesOfRequests
<1>9. <<name[1], port>> = before.addr /\ name[2] # Plain /\ IInv
  BY <1>6, <1>7 DEF Address, Plain, TInv
<1>10. CASE AddVirtual
  <2>1. EnterAdd(name, port, 0, Counted) /\ Top.op = "add"
    BY <1>10 DEF AddVirtual, In
  <2>2. AddMoves(elements, before)
    BY <1>4, <2>1 DEF MovesFit
  <2> HIDE DEF name, port
  <2> QED
    BY <1>2, <1>4, <1>5, <1>8, <1>9, <2>1, <2>2, EnterAddMoves
<1>11. CASE RemoveVirtual
  <2>1. /\ \/ EnterRemove(name, port, Counted)
           \/ work' = Counted /\ UNCHANGED ring
        /\ Top.op = "del"
    BY <1>11 DEF RemoveVirtual, In
  <2>2. DelMoves(elements, Counted, stale, before)
    BY <1>4, <2>1 DEF MovesFit
  <2> HIDE DEF name, port
  <2>3. CASE EnterRemove(name, port, Counted)
    BY <1>2, <1>4, <1>5, <1>8, <1>9, <2>1, <2>2, <2>3, EnterRemoveMoves
  <2>4. CASE work' = Counted /\ UNCHANGED ring
    BY <1>4, <2>4 DEF ring
  <2> QED
    BY <2>1, <2>3, <2>4
<1> QED
  BY <1>10, <1>11

LEMMA WalkMoves ==
  ASSUME TInv, MovesSound, BeginInsert \/ InsertStep \/ BeginRemove \/ FindMinStep
  PROVE  MovesSound'
<1>1. PICK f \in Frames : work' = <<f>> \o Below /\ f.op = Top.op /\ f.at = Top.at /\ f.e = Top.e
  BY Walked
<1>2. /\ status = "ok" /\ work # << >>
      /\ UNCHANGED <<elements, fn, stale, shadowed, before>>
  BY Walked
<1>3. ASSUME shadowed = {}, Distinct
      PROVE  MovesFit(elements, <<f>> \o Tail(work), stale, before)
  <2>1. /\ MovesFit(elements, work, stale, before)
        /\ work \in Seq(Frames) /\ CallsFit(elements, work) /\ Top = Head(work)
    BY <1>2, <1>3, WorkFacts DEF MovesSound
  <2> QED
    BY <1>1, <1>2, <2>1, ToppedMoves
<1>4. work' = <<f>> \o Tail(work)
  BY <1>1 DEF Below
<1> QED
  BY <1>2, <1>3, <1>4, MovesThen

-----------------------------------------------------------------------------
(* Requests.                                                               *)

(* What a request remembers is where the keys go when it begins.           *)
LEMMA Remembered ==
  ASSUME NEW ip, NEW port, NEW st,
         MovesFit(elements, << >>, st, before)
  PROVE  LET b == [addr |-> <<ip, port>>, routes |-> Routes(elements)]
         IN  /\ MovesFit(elements, << >>, st, b)
             /\ AddMoves(elements, b) /\ DelMoves(elements, << >>, st, b)
<1> DEFINE b == [addr |-> <<ip, port>>, routes |-> Routes(elements)]
<1>1. MovesFit(elements, << >>, st, b)
  BY RestMoves
<1>2. \A s \in KeysOf(elements) : b.routes[s] = Route(elements, s)
  BY DEF Routes, KeysOf
<1> HIDE DEF b
<1>3. \A s \in Slots : Settled(elements, << >>, s)
  BY DEF Settled, Ats
<1>4. AddMoves(elements, b)
  BY <1>2 DEF AddMoves
<1>5. DelMoves(elements, << >>, st, b)
  BY <1>2, <1>3 DEF DelMoves, KeysOf
<1> QED
  BY <1>1, <1>4, <1>5 DEF b

LEMMA ServerRequestMoves ==
  ASSUME TInv, RoutesSound, MovesSound,
         \/ \E r \in AddRequests : AddServer(r[1], r[2], r[3])
         \/ \E r \in DelRequests : DelServer(r[1], r[2])
  PROVE  MovesSound'
<1>1. << >> \in Seq(Frames) /\ CallsFit(elements, << >>)
  BY FrameStack DEF CallsFit
<1>2. ASSUME NEW r \in AddRequests, AddServer(r[1], r[2], r[3])
      PROVE  MovesSound'
  <2> DEFINE name == <<r[1], Plain>>
             b == [addr |-> <<r[1], r[2]>>, routes |-> Routes(elements)]
  <2>1. /\ status = "ok" /\ work = << >> /\ stale' = stale /\ shadowed' = shadowed
        /\ EnterAdd(name, r[2], r[3], << >>)
        /\ before' = IF work' = << >> THEN before ELSE b
    BY <1>2 DEF AddServer, Remember, Idle
  <2>2. /\ name \in Names /\ r[2] \in Ports /\ r[3] \in 0 .. MaxWeight
        /\ name[1] = r[1] /\ name[2] = Plain /\ <<r[1], r[2], r[3]>> = r
    BY RingAssumption, NameTypes
  <2>3. fn' = fn
    BY <2>1 DEF EnterAdd, ring
  <2>4. <<name, r[2]>> \in UsedNames
    <3>1. Plain < r[3] /\ Plain \in -1 .. MaxWeight - 1
      BY NamesOfRequests, NameTypes DEF Plain
    <3> QED
      BY <3>1, NamesOfRequests
  <2>5. ASSUME shadowed = {}, Distinct
        PROVE  MovesFit(elements', work', stale, before')
    <3>1. RoutesFit(elements, << >>, stale) /\ MovesFit(elements, << >>, stale, before)
      BY <2>1, <2>5 DEF RoutesSound, MovesSound
    <3>2. /\ MovesFit(elements, << >>, stale, b) /\ AddMoves(elements, b)
          /\ <<name[1], r[2]>> = b.addr /\ IInv
      BY <2>2, <3>1, Remembered DEF TInv
    <3> HIDE DEF b, name
    <3>3. MovesFit(elements', work', stale, b)
      BY <1>1, <2>1, <2>2, <2>4, <2>5, <3>1, <3>2, EnterAddMoves
    <3> QED
      BY <2>1, <3>3, RestMoves
  <2> QED
    BY <2>1, <2>3, <2>5, MovesThen
<1>3. ASSUME NEW r \in DelRequests, DelServer(r[1], r[2])
      PROVE  MovesSound'
  <2> DEFINE name == <<r[1], Plain>>
             b == [addr |-> <<r[1], r[2]>>, routes |-> Routes(elements)]
  <2>1. /\ status = "ok" /\ work = << >> /\ stale' = stale /\ shadowed' = shadowed
        /\ EnterRemove(name, r[2], << >>)
        /\ before' = IF work' = << >> THEN before ELSE b
    BY <1>3 DEF DelServer, Remember, Idle
  <2>2. /\ name \in Names /\ r[2] \in Ports /\ name[1] = r[1] /\ name[2] = Plain
    BY RingAssumption, NameTypes
  <2>3. fn' = fn
    BY <2>1 DEF EnterRemove, ring
  <2>4. <<name, r[2]>> \in UsedNames
    BY NamesOfRequests
  <2>5. ASSUME shadowed = {}, Distinct
        PROVE  MovesFit(elements', work', stale, before')
    <3>1. RoutesFit(elements, << >>, stale) /\ MovesFit(elements, << >>, stale, before)
      BY <2>1, <2>5 DEF RoutesSound, MovesSound
    <3>2. /\ MovesFit(elements, << >>, stale, b) /\ DelMoves(elements, << >>, stale, b)
          /\ <<name[1], r[2]>> = b.addr /\ IInv
      BY <2>2, <3>1, Remembered DEF TInv
    <3> HIDE DEF b, name
    <3>3. MovesFit(elements', work', stale, b)
      BY <1>1, <2>1, <2>2, <2>4, <2>5, <3>1, <3>2, EnterRemoveMoves
    <3> QED
      BY <2>1, <3>3, RestMoves
  <2> QED
    BY <2>1, <2>3, <2>5, MovesThen
<1> QED
  BY <1>2, <1>3

LEMMA SetKeyMoves ==
  ASSUME TInv, MovesSound, NEW k \in Keys, SetKey(k)
  PROVE  MovesSound'
<1> DEFINE h      == fn.key[k]
           placed == [elements EXCEPT ![h] = Key(k, NULL, NULL)]
           owner  == elements[Owner(placed, h)]
           e      == Key(k, owner.ip, owner.port)
           set    == [elements EXCEPT ![h] = e]
<1>1. /\ status = "ok" /\ work = << >> /\ ServersOf(placed) # {} /\ elements[h].type # "key"
      /\ elements' = Forwarded([placed EXCEPT ![h] = e], h)
      /\ shadowed' = IF elements[h].type = "server" THEN shadowed \cup {h} ELSE shadowed
      /\ UNCHANGED <<fn, work, stale, before>>
  BY DEF SetKey, Idle
<1> SUFFICES ASSUME shadowed' = {}, Distinct
             PROVE  MovesFit(elements', << >>, stale, before)
  BY <1>1, MovesThen
<1>2. shadowed = {} /\ elements[h].type # "server" /\ MovesFit(elements, << >>, stale, before)
  BY <1>1 DEF MovesSound
<1>3. h \in Slots /\ elements \in [Slots -> Elements]
  BY <1>1, CountsNow, PointerFacts DEF TInv, IInv, TypeOK, RingTypeOK
<1>4. [placed EXCEPT ![h] = e] = set
  BY <1>3
<1>5. ServersOf(placed) = ServersOf(elements)
  BY <1>2, <1>3 DEF Key, ServersOf
<1> DEFINE o == Owner(placed, h)
<1>6. o \in ServersOf(elements)
  BY <1>1, <1>3, <1>5, OwnerIsServer
<1>7. elements[o] \in ServerElements /\ o \in Slots
  BY <1>3, <1>6, ElementKinds DEF ServersOf
<1>8. e \in KeyElements /\ e.type = "key"
  BY <1>7 DEF Key, KeyElements, ServerElements
<1> HIDE DEF h, placed, owner, e, o
<1>9. \A s \in Slots : set[s] = IF s = h THEN e ELSE elements[s]
  BY <1>3
<1>10. set \in [Slots -> Elements] /\ elements' = Forwarded(set, h)
  BY <1>1, <1>3, <1>4, <1>8 DEF Elements
<1> HIDE DEF set
<1>11. ServersOf(set) = ServersOf(elements) /\ KeysOf(set) = KeysOf(elements) \cup {h}
  BY <1>2, <1>3, <1>8, <1>9 DEF ServersOf, KeysOf
<1>12. \A g \in ServersOf(elements) : set[g] = elements[g]
  BY <1>2, <1>9 DEF ServersOf
<1>13. ServersUsed(set)
  BY <1>2, <1>11, <1>12 DEF MovesFit, ServersUsed
<1>14. StaleAlone(set, << >>, stale, before)
  <2>1. Nodes(elements, << >>) = ServersOf(elements) /\ Nodes(set, << >>) = ServersOf(elements)
    BY <1>11 DEF Nodes, Ats
  <2>2. \A n \in ServersOf(elements) :
          NodeAddress(set, before, n) = NodeAddress(elements, before, n)
    BY <1>12 DEF NodeAddress
  <2>3. \A n \in ServersOf(elements) :
          Alone(elements, << >>, before, n) => Alone(set, << >>, before, n)
    BY <2>1, <2>2 DEF Alone
  <2>4. StaleAlone(elements, << >>, stale, before)
    BY <1>2 DEF MovesFit
  <2> QED
    BY <2>1, <2>3, <2>4, <1>11 DEF StaleAlone
<1>15. MovesFit(set, << >>, stale, before)
  BY <1>2, <1>13, <1>14 DEF MovesFit, CallsUsed
<1> QED
  BY <1>3, <1>10, <1>15, ForwardedCuts, CutMoves

LEMMA GetKeyMoves ==
  ASSUME TInv, MovesSound, NEW k \in Keys, GetKey(k)
  PROVE  MovesSound'
<1>1. /\ status = "ok" /\ work = << >> /\ elements' = Forwarded(elements, fn.key[k])
      /\ UNCHANGED <<work, fn, stale, shadowed, before>>
  BY DEF GetKey, Idle, history
<1>2. fn.key[k] \in Slots /\ elements \in [Slots -> Elements]
  BY <1>1, CountsNow, PointerFacts DEF TInv, IInv, TypeOK, RingTypeOK
<1>3. shadowed = {} /\ Distinct => MovesFit(elements', << >>, stale, before)
  BY <1>1, <1>2, ForwardedCuts, CutMoves DEF MovesSound
<1> QED
  BY <1>1, <1>3, MovesThen

LEMMA FinishMoves ==
  ASSUME TInv, RoutesSound, MovesSound, FinishAdd \/ FinishRemove
  PROVE  MovesSound'
<1>1. CASE FinishAdd
  <2>1. /\ fn' = fn /\ shadowed' = shadowed /\ work' = Below
        /\ before' = IF Below = << >> THEN NoRequest ELSE before
    BY <1>1 DEF FinishAdd, Forget
  <2>2. ASSUME shadowed = {}, Distinct
        PROVE  MovesFit(elements', Below, stale', before)
    BY <1>1, <2>2, FinishAddMoves
  <2>3. ASSUME shadowed = {}, Distinct
        PROVE  MovesFit(elements', Below, stale', before')
    BY <2>1, <2>2, <2>3, RestMoves
  <2> QED
    BY <2>1, <2>3, MovesThen
<1>2. CASE FinishRemove
  <2>1. /\ fn' = fn /\ shadowed' = shadowed /\ work' = Below
        /\ before' = IF Below = << >> THEN NoRequest ELSE before
    BY <1>2 DEF FinishRemove, Forget
  <2>2. ASSUME shadowed = {}, Distinct
        PROVE  MovesFit(elements', Below, stale', before)
    BY <1>2, <2>2, FinishRemoveMoves
  <2>3. ASSUME shadowed = {}, Distinct
        PROVE  MovesFit(elements', Below, stale', before')
    BY <2>1, <2>2, <2>3, RestMoves
  <2> QED
    BY <2>1, <2>3, MovesThen
<1> QED
  BY <1>1, <1>2

LEMMA NextMoves ==
  ASSUME TInv, RoutesSound, MovesSound, [Next]_vars
  PROVE  MovesSound'
<1>1. CASE UNCHANGED vars
  <2>1. UNCHANGED <<elements, work, stale, fn, status, shadowed, before>>
    BY <1>1 DEF vars, ring, history
  <2> QED
    BY <2>1, MovesThen DEF MovesSound
<1>2. ASSUME NEW k \in Keys, SetKeySpins(k)
      PROVE  MovesSound'
  BY <1>2 DEF SetKeySpins, MovesSound
<1>3. CASE WildPointer \/ ArrayUnwritten
  BY <1>3 DEF WildPointer, ArrayUnwritten, Undefined, MovesSound
<1>4. CASE Worker
  BY <1>3, <1>4, VirtualMoves, WalkMoves, FinishMoves DEF Worker
<1>5. CASE Request
  BY <1>2, <1>5, ServerRequestMoves, SetKeyMoves, GetKeyMoves DEF Request
<1> QED
  BY <1>1, <1>4, <1>5 DEF Next

LEMMA MovesInvariant ==
  ASSUME PortsKept
  PROVE  Spec => []MovesSound
<1>1. Init => MovesSound
  <2> SUFFICES ASSUME Init
               PROVE  MovesFit(elements, << >>, stale, before)
    BY DEF Init, MovesSound
  <2>1. ServersOf(elements) = {} /\ stale = {}
    BY DEF Init, ServersOf, Empty
  <2> QED
    BY <2>1 DEF MovesFit, ServersUsed, CallsUsed, StaleAlone
<1>2. TInv /\ RoutesSound /\ MovesSound /\ [Next]_vars => MovesSound'
  BY NextMoves
<1> QED
  BY <1>1, <1>2, TreeInvariant, RoutesInvariant, PTL DEF Spec

-----------------------------------------------------------------------------
(* A request has ended.                                                    *)

(* Only the return of the outermost call ends a request.                   *)
LEMMA RequestEnds ==
  ASSUME TInv, work # << >>, work' = << >>, [Next]_vars
  PROVE  FinishAdd \/ FinishRemove
<1>1. ~UNCHANGED vars
  BY DEF vars
<1>2. ~Request
  BY DEF Request, AddServer, DelServer, SetKey, SetKeySpins, GetKey, Idle
<1>3. ~AddVirtual /\ ~RemoveVirtual
  <2>1. \A w : <<w>> \o Counted # << >>
    BY FrameStack, NextVirtual, StackFacts DEF Counted
  <2>2. Counted # << >>
    BY TopFrame, StackFacts DEF Counted, TInv
  <2> QED
    BY <2>1, <2>2 DEF AddVirtual, RemoveVirtual, EnterAdd, EnterRemove, ring
<1>4. ASSUME BeginInsert \/ InsertStep \/ BeginRemove \/ FindMinStep
      PROVE  FALSE
  <2>1. PICK f \in Frames : work' = <<f>> \o Below
    BY <1>4, Walked
  <2>2. Below \in Seq(Frames)
    BY TopFrame DEF TInv
  <2> QED
    BY <2>1, <2>2, StackFacts
<1>5. ~WildPointer /\ ~ArrayUnwritten
  BY DEF WildPointer, ArrayUnwritten, Undefined
<1> QED
  BY <1>1, <1>2, <1>3, <1>4, <1>5 DEF Next, Worker

(* A call that returns found the array filled, so no key is on a server.   *)
LEMMA FinishesUnshadowed ==
  ASSUME IInv, FinishAdd \/ FinishRemove
  PROVE  shadowed = {}
<1>1. ArrayFits(elements, numberofservers) /\ status = "ok"
  BY DEF FinishAdd, FinishRemove, In
<1>2. /\ numberofservers = Cardinality(ServersOf(elements)) + Cardinality(shadowed)
      /\ shadowed \subseteq KeysOf(elements)
  BY <1>1, CountsNow DEF Counts
<1>3. /\ NodesArray(elements) \subseteq ServersOf(elements) /\ IsFiniteSet(ServersOf(elements))
      /\ Cardinality(ServersOf(elements)) \in Nat /\ IsFiniteSet(KeysOf(elements))
      /\ Cardinality(NodesArray(elements)) \in Nat
  BY SlotSetsFinite
<1>4. Cardinality(NodesArray(elements)) <= Cardinality(ServersOf(elements))
  BY <1>3, FS_Subset
<1>5. IsFiniteSet(shadowed) /\ Cardinality(shadowed) \in Nat
  BY <1>2, <1>3, FS_Subset, FS_CardinalityType
<1>6. Cardinality(shadowed) = 0
  BY <1>1, <1>2, <1>3, <1>4, <1>5 DEF ArrayFits
<1> QED
  BY <1>5, <1>6, FS_EmptySet

LEMMA SoundlyMoved ==
  ASSUME TInv, RoutesSound, MovesSound, [Next]_vars
  PROVE  MovesOnlyItsKeys
<1> SUFFICES ASSUME work # << >>, work' = << >>, Distinct, NEW s \in KeysOf(elements) \ stale
             PROVE  LET after == Routes(elements)'
                        ownerAfter == Address(elements'[Owner(elements', s)])
                    IN  \/ before.routes[s] \in {NULL, after[s]}
                        \/ Top.op = "add" /\ before.addr = after[s] /\ before.addr = ownerAfter
                        \/ Top.op = "del" /\ before.addr = before.routes[s]
  BY DEF MovesOnlyItsKeys
<1>1. /\ FinishAdd \/ FinishRemove
      /\ shadowed = {}
  BY RequestEnds, FinishesUnshadowed DEF TInv
<1>2. fn' = fn /\ s \in Slots
  BY <1>1 DEF FinishAdd, FinishRemove, KeysOf
<1>3. Routes(elements)'[s] = Route(elements', s)
  BY <1>2 DEF Routes, Route, SlotOf
<1>4. CASE FinishAdd
  <2>1. AddMoves(elements', before)
    BY <1>1, <1>4, FinishAddMoves
  <2>2. s \in KeysOf(elements')
    BY <1>4, FinishAddKinds, SameKindsSets DEF TInv
  <2>3. \/ before.routes[s] \in {NULL, Route(elements', s)}
        \/ /\ Route(elements', s) = before.addr
           /\ \E o \in Slots : Owns(elements', o, s) /\ Address(elements'[o]) = before.addr
    BY <2>1, <2>2 DEF AddMoves
  <2>4. \A o \in Slots : Owns(elements', o, s) => Owner(elements', s) = o
    BY <1>2, OwnerIs
  <2>5. Top.op = "add"
    BY <1>4 DEF FinishAdd, In
  <2> QED
    BY <1>3, <2>3, <2>4, <2>5
<1>5. CASE FinishRemove
  <2>1. before.routes[s] \in {NULL, before.addr, Route(elements', s)}
    BY <1>1, <1>5, FinishRemoveMoves
  <2>2. Top.op = "del"
    BY <1>5 DEF FinishRemove, In
  <2> QED
    BY <1>3, <2>1, <2>2
<1> QED
  BY <1>1, <1>4, <1>5

(* When names in use do not collide, adding a server moves only keys of    *)
(* slots it then owns, and only to it, and removing one moves only its own *)
(* keys, when all stores are on one port or none is removed.               *)
THEOREM MovementCorrect ==
  ASSUME PortsKept
  PROVE  Spec => MinimalMovement
<1>1. TInv /\ RoutesSound /\ MovesSound /\ [Next]_vars => MovesOnlyItsKeys
  BY SoundlyMoved
<1> QED
  BY <1>1, TreeInvariant, RoutesInvariant, MovesInvariant, PTL DEF Spec, MinimalMovement
=============================================================================
