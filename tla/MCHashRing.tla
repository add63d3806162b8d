----------------------------- MODULE MCHashRing -----------------------------
(***************************************************************************)
(* Small instances of HashRing for TLC.  A hash function is given as a     *)
(* placement: the places of the server names the requests use, in a fixed  *)
(* order, then those of the keys k1 and k2.                                *)
(***************************************************************************)
EXTENDS HashRing, TLC

CONSTANTS i1, i2, p1, p2, k1, k2

MCIps    == {i1, i2}
MCKeys   == {k1, k2}
OnePort  == {p1}
TwoPorts == {p1, p2}

\* The names of i1 and i2 at the given ports, with n and m virtual nodes.
NamesOf(ip, port, n) == [j \in 1 .. n + 1 |-> <<<<ip, j - 2>>, port>>]
Ids(port, n, m)      == NamesOf(i1, p1, n) \o NamesOf(i2, port, m)

\* Names that no request uses go to place 1.
Placed(ids, Prts, q) ==
  [server |-> [id \in Names \X Prts |->
                 IF \E n \in DOMAIN ids : ids[n] = id
                 THEN q[CHOOSE n \in DOMAIN ids : ids[n] = id] ELSE 1],
   key    |-> (k1 :> q[Len(ids) + 1] @@ k2 :> q[Len(ids) + 2])]

Adds(port, n, m) == {<<i1, p1, w>> : w \in {0, n}} \cup {<<i2, port, w>> : w \in {0, m}}

-----------------------------------------------------------------------------
(* Adding and removing, size 6, one virtual node each.  In Spread the      *)
(* servers go to four places in orders that give the tree its different    *)
(* shapes, the keys between them and on the place past the array.  In      *)
(* Clashes names collide, keys fall on servers, a server on that place.    *)
Spread ==
  {<<1, 2, 4, 5, 3, 6>>, <<2, 4, 1, 5, 3, 6>>, <<4, 1, 5, 2, 3, 6>>,
   <<5, 2, 1, 4, 3, 6>>, <<4, 5, 2, 1, 3, 6>>, <<4, 3, 5, 2, 6, 1>>}
Clashes ==
  {<<2, 4, 5, 2, 3, 6>>, <<2, 4, 4, 1, 3, 6>>, <<2, 4, 5, 1, 2, 3>>,
   <<1, 3, 4, 5, 2, 2>>, <<2, 6, 4, 5, 1, 3>>}

OnePortFunctions == {Placed(Ids(p1, 1, 1), OnePort, q) : q \in Spread \cup Clashes}
SpreadFunctions  == {Placed(Ids(p1, 1, 1), OnePort, q) : q \in Spread}
OnePortAdds      == Adds(p1, 1, 1)
OnePortRemoves   == {<<i1, p1>>, <<i2, p1>>}

TwoPortFunctions == {Placed(Ids(p2, 1, 1), TwoPorts, q) : q \in Spread}
TwoPortAdds      == Adds(p2, 1, 1)
TwoPortRemoves   == {<<i1, p1>>, <<i2, p2>>}

-----------------------------------------------------------------------------
(* Size 7, two virtual nodes and one, five servers in the tree: names in   *)
(* orders that hang it to the left, to the right and in the middle, and    *)
(* names that collide.                                                     *)
WideFunctions ==
  {Placed(Ids(p1, 2, 1), OnePort, q \o <<4, 7>>) : q \in
     {<<2, 5, 3, 1, 6>>, <<5, 2, 6, 3, 1>>, <<3, 1, 2, 6, 5>>, <<6, 5, 3, 2, 1>>,
      <<1, 2, 3, 5, 6>>, <<3, 6, 1, 5, 2>>, <<5, 1, 3, 2, 6>>, <<2, 6, 3, 5, 1>>,
      <<3, 5, 6, 1, 2>>, <<6, 1, 5, 2, 3>>, <<2, 3, 5, 6, 1>>, <<5, 6, 2, 1, 3>>,
      <<2, 4, 5, 2, 6>>, <<5, 3, 3, 1, 5>>,
      <<2, 3, 2, 5, 7>>}}
WideAdds == Adds(p1, 2, 1)
=============================================================================
