------------------------------- MODULE BTree -------------------------------
(***************************************************************************)
(* The binary tree of data ranges of a file (datas/btree.c).  A tree maps  *)
(* the positions of its elements to their key and data; a position is the  *)
(* sequence of the turns that lead there from the root, which is at <<>>.  *)
(* In the trees of the generator key is the start of a range and data its  *)
(* end.                                                                    *)
(*                                                                         *)
(* Every algorithm of btree.c that recurses goes the same way: left of an  *)
(* element with a greater key and right of any other, until something      *)
(* makes it stop.  An operator says where it does and what it does there.  *)
(***************************************************************************)
EXTENDS Integers, Sequences

Sides == {"left", "right"}
EmptyTree == <<>>

(* The elements, and the places where one can be added.                    *)
Positions(b) == {<<>>} \cup {Append(p, side) : p \in DOMAIN b, side \in Sides}

Turn(elem, key) == IF elem.key > key THEN "left" ELSE "right"

(* Where the search for a key comes along, up to a place without element.  *)
Way(b, key) ==
  {p \in Positions(b) :
     \A i \in 1 .. Len(p) : p[i] = Turn(b[SubSeq(p, 1, i - 1)], key)}

(* The position on a way that is reached before the others.                *)
First(stops) == CHOOSE p \in stops : \A q \in stops : Len(p) <= Len(q)

(* btreelem_new, or a change of the element that is there.                 *)
Put(b, p, key, data) ==
  [q \in DOMAIN b \cup {p} |->
     IF q = p THEN [key |-> key, data |-> data] ELSE b[q]]

(* btree_insert: a key that is there keeps its data.                       *)
InsertElem(b, key, data) ==
  LET p == First({q \in Way(b, key) : q \notin DOMAIN b \/ b[q].key = key}) IN
  IF p \in DOMAIN b THEN b ELSE Put(b, p, key, data)

(* Faulty variant: an element makes way for a range that starts before it, *)
(* also when that range ends earlier.                                      *)
StopsLosing(b, p, start, end) ==
  p \in DOMAIN b =>
    IF b[p].key > start THEN Append(p, "left") \notin DOMAIN b
    ELSE b[p].key = start \/ b[p].data >= start

(* Where btree_ensure_range_l stops: at an element that reaches up to      *)
(* start, at one that begins after start, has nothing to its left and ends *)
(* by end, or where there is none.                                         *)
Stops(b, p, start, end) ==
  p \in DOMAIN b =>
    IF b[p].key > start
    THEN Append(p, "left") \notin DOMAIN b /\ b[p].data <= end
    ELSE b[p].key = start \/ b[p].data >= start

(* btree_ensure_range_l: that element is made longer or is widened, or a   *)
(* new one is made; neighbours are not merged.                             *)
EnsureRange(b, start, end) ==
  LET p == First({q \in Way(b, start) : Stops(b, q, start, end)}) IN
  IF p \in DOMAIN b /\ b[p].key <= start
  THEN Put(b, p, b[p].key, IF b[p].data < end THEN end ELSE b[p].data)
  ELSE Put(b, p, start, end)

(* btree_has_range_l: one element that covers all of the range.            *)
HasRange(b, start, end) ==
  \E p \in Way(b, start) \cap DOMAIN b : b[p].key <= start /\ b[p].data >= end

(* What btree_run_cb2 calls back with, in whatever order.                  *)
Ranges(b) == {[start |-> b[p].key, end |-> b[p].data] : p \in DOMAIN b}

-----------------------------------------------------------------------------
Below(p, q) == Len(p) < Len(q) /\ SubSeq(q, 1, Len(p)) = p

(* Every element hangs below another, smaller keys to its left and greater *)
(* ones to its right.                                                      *)
SearchTree(b) ==
  /\ \A p \in DOMAIN b : \A i \in 1 .. Len(p) : SubSeq(p, 1, i - 1) \in DOMAIN b
  /\ \A p, q \in DOMAIN b : Below(p, q) =>
       IF q[Len(p) + 1] = "left" THEN b[q].key < b[p].key ELSE b[q].key > b[p].key

(* The bytes that the ranges cover.                                        *)
Covered(b) == UNION {b[p].key .. b[p].data - 1 : p \in DOMAIN b}
=============================================================================
