------------------------------ MODULE RingTree ------------------------------
(***************************************************************************)
(* The binary search tree that threads the server elements of the hash     *)
(* ring (hashring.h: bst_insert, bst_remove).  A tree is a value: the root *)
(* pointer and, for every place of the ring, the left, right and parent    *)
(* pointers of the server element whose hash is that place.  The walks     *)
(* down the tree are steps of HashRing; this module holds what the steps   *)
(* do to the pointers.                                                     *)
(***************************************************************************)
EXTENDS Naturals

CONSTANT Size               \* r->size, and the largest value r->fn returns

ASSUME SizeAssumption == Size \in Nat \ {0}

Places == 1 .. Size         \* hashring_hash_jenkins returns 1 .. size
Null   == 0                 \* NULL: no element has hash 0
Wild   == Size + 1          \* a freed element, or memory never written

Pointers == Places \cup {Null, Wild}

Trees == [root   : Pointers,
          left   : [Places -> Pointers],
          right  : [Places -> Pointers],
          parent : [Places -> Pointers]]

EmptyTree == [root   |-> Null,
              left   |-> [p \in Places |-> Null],
              right  |-> [p \in Places |-> Null],
              parent |-> [p \in Places |-> Null]]

(***************************************************************************)
(* A new element: its children are cleared, its parent is not.             *)
(***************************************************************************)
Allocated(t, h) == [t EXCEPT !.left[h] = Null, !.right[h] = Null,
                             !.parent[h] = Wild]

(***************************************************************************)
(* Freeing an element leaves every pointer to it dangling.                 *)
(***************************************************************************)
Freed(t, h) ==
  LET Dangle(p) == IF p = h THEN Wild ELSE p
      Clear(f)  == [p \in Places |-> IF p = h THEN Null ELSE Dangle(f[p])]
  IN  [root |-> Dangle(t.root), left |-> Clear(t.left),
       right |-> Clear(t.right), parent |-> Clear(t.parent)]

(***************************************************************************)
(* The child the insertion of h looks at in cur.                           *)
(***************************************************************************)
Child(t, cur, h) == IF h > cur THEN t.right[cur] ELSE t.left[cur]

(***************************************************************************)
(* bst_insert once its walk ended at cur: cur is Null for the empty tree;  *)
(* an equal hash is left out.                                              *)
(***************************************************************************)
Inserted(t, h, cur) ==
  IF cur = Null   THEN [t EXCEPT !.root = h, !.parent[h] = Null]
  ELSE IF cur = h THEN t
  ELSE IF h > cur THEN [t EXCEPT !.right[cur] = h, !.parent[h] = cur]
                  ELSE [t EXCEPT !.left[cur] = h, !.parent[h] = cur]

IsLeaf(t, h)  == t.left[h] = Null /\ t.right[h] = Null
HasPair(t, h) == t.left[h] # Null /\ t.right[h] # Null

\* Faulty variant: only the left pointer of the parent is looked at.
LeafRemovedLeft(t, h) ==
  LET up == t.parent[h]
  IN  IF up = Null THEN [t EXCEPT !.root = Null]
      ELSE [t EXCEPT !.left[up] = IF @ = h THEN Null ELSE @]

(***************************************************************************)
(* bst_remove, case 1: a leaf is unhooked from its parent.                 *)
(***************************************************************************)
LeafRemoved(t, h) ==
  LET up == t.parent[h]
      Unhook(child) == IF child = h THEN Null ELSE child
  IN  IF up = Null
      THEN [t EXCEPT !.root = Null]
      ELSE [t EXCEPT !.left[up] = Unhook(@), !.right[up] = Unhook(@)]

(***************************************************************************)
(* bst_remove, case 2: s, the smallest element of the right subtree, takes *)
(* the place of h.  The code cuts s off at the LEFT of its parent even     *)
(* when s is the right child of h itself, drops the right subtree of s,    *)
(* and, when h has a parent, leaves that parent's child pointer at h.      *)
(***************************************************************************)
PairRemoved(t, h, s) ==
  LET cut  == [t EXCEPT !.left[t.parent[s]] = Null]
      left == cut.left[h]
      hung == [cut EXCEPT !.right[s] = cut.right[h],
                          !.left[s]  = IF left = Null THEN @ ELSE left,
                          !.parent   = [p \in Places |->
                                          IF p \in {left, cut.right[h]} THEN s
                                          ELSE IF p = s THEN cut.parent[h]
                                          ELSE @[p]]]
  IN  IF t.parent[h] = Null THEN [hung EXCEPT !.root = s] ELSE hung

\* Faulty variant: the child keeps its old parent.
SingleRemovedParent(t, h) ==
  LET child == IF t.left[h] # Null THEN t.left[h] ELSE t.right[h]
      up    == t.parent[h]
  IN  IF up = Null           THEN [t EXCEPT !.root = child]
      ELSE IF t.left[up] = h THEN [t EXCEPT !.left[up] = child]
                             ELSE [t EXCEPT !.right[up] = child]

(***************************************************************************)
(* bst_remove, case 3: the only child takes the place of h.                *)
(***************************************************************************)
SingleRemoved(t, h) ==
  LET child == IF t.left[h] # Null THEN t.left[h] ELSE t.right[h]
      up    == t.parent[h]
      lower == [t EXCEPT !.parent[child] = up]
  IN  IF up = Null           THEN [lower EXCEPT !.root = child]
      ELSE IF t.left[up] = h THEN [lower EXCEPT !.left[up] = child]
                             ELSE [lower EXCEPT !.right[up] = child]

Removed(t, h, s) ==
  IF IsLeaf(t, h)       THEN LeafRemoved(t, h)
  ELSE IF HasPair(t, h) THEN PairRemoved(t, h, s)
                        ELSE SingleRemoved(t, h)

(***************************************************************************)
(* bst_remove follows a pointer that leads nowhere (s is Null unless h has *)
(* two children).                                                          *)
(***************************************************************************)
RemoveFaults(t, h, s) ==
  \/ t.parent[h] = Wild
  \/ ~IsLeaf(t, h) /\ Wild \in {t.left[h], t.right[h]}
  \/ HasPair(t, h) /\ t.parent[s] \in {Null, Wild}

(***************************************************************************)
(* What the tree should be: a search tree of the given elements, linked    *)
(* both ways.  Step i of the walk knows what lies at most i below n.       *)
(***************************************************************************)
Reached(t, n) ==
  LET Kids(S) == UNION {{t.left[p], t.right[p]} : p \in S \cap Places}
      Steps[i \in 0 .. Size] ==
        IF i = 0 THEN {n} ELSE Steps[i - 1] \cup Kids(Steps[i - 1])
  IN  Steps[Size] \ {Null}

IsSearchTree(t, nodes) ==
  /\ Reached(t, t.root) = nodes
  /\ nodes \subseteq Places
  /\ nodes # {} => t.parent[t.root] = Null
  /\ \A n \in nodes :
       /\ \A m \in Reached(t, t.left[n])  : m < n
       /\ \A m \in Reached(t, t.right[n]) : m > n
       /\ \A c \in {t.left[n], t.right[n]} \ {Null} : t.parent[c] = n
=============================================================================
