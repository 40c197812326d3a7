----------------------------- MODULE VsizeProofs -----------------------------
(***************************************************************************)
(* What the generator finds out about the files of a capture, for every    *)
(* set of paths and descriptors and for reads and writes of every size:    *)
(* the trees of data ranges cover exactly what they should, and no path or *)
(* parent that the replay needs is forgotten.                              *)
(***************************************************************************)
EXTENDS Vsize, SequenceTheorems, WellFoundedInduction, TLAPS

-----------------------------------------------------------------------------
(* Trees of data ranges.                                                   *)
Places == Seq(Sides)
Elems == [key : Int, data : Int]
Trees == UNION {[D -> Elems] : D \in SUBSET Places}

(* No element is infinitely far from the root: every search comes to its   *)
(* end.                                                                    *)
Shallow(b) == \E n \in Nat : \A p \in DOMAIN b : Len(p) <= n

IsTree(b) == b \in Trees /\ SearchTree(b) /\ Shallow(b)

LEMMA TreeIs ==
  ASSUME NEW b \in Trees
  PROVE  /\ DOMAIN b \subseteq Places
         /\ \A p \in DOMAIN b : b[p] \in Elems /\ b[p].key \in Int /\ b[p].data \in Int
<1>1. PICK D \in SUBSET Places : b \in [D -> Elems]
  BY DEF Trees
<1> QED
  BY <1>1 DEF Elems

LEMMA EmptyTreeIs == IsTree(EmptyTree) /\ DOMAIN EmptyTree = {}
<1>1. DOMAIN EmptyTree = {} /\ EmptyTree \in [{} -> Elems]
  BY DEF EmptyTree
<1>2. EmptyTree \in Trees
  BY <1>1 DEF Trees
<1>3. Shallow(EmptyTree)
  BY <1>1 DEF Shallow
<1> QED
  BY <1>1, <1>2, <1>3 DEF IsTree, SearchTree

(* c is b but for the element at p.                                        *)
IsPut(c, b, p, key, data) ==
  /\ c \in Trees
  /\ DOMAIN c = DOMAIN b \cup {p}
  /\ c[p].key = key /\ c[p].data = data
  /\ \A q \in DOMAIN b : q # p => c[q] = b[q]

LEMMA PutIs ==
  ASSUME NEW b \in Trees, NEW p \in Places, NEW key \in Int, NEW data \in Int
  PROVE  IsPut(Put(b, p, key, data), b, p, key, data)
<1> DEFINE D == DOMAIN b \cup {p}
           c == Put(b, p, key, data)
<1>1. c = [q \in D |-> IF q = p THEN [key |-> key, data |-> data] ELSE b[q]]
  BY DEF Put
<1>2. D \in SUBSET Places /\ [key |-> key, data |-> data] \in Elems
  BY TreeIs DEF Elems
<1>3. \A q \in D : (IF q = p THEN [key |-> key, data |-> data] ELSE b[q]) \in Elems
  BY <1>2, TreeIs
<1>4. c \in [D -> Elems]
  BY <1>1, <1>3
<1>5. c \in Trees
  BY <1>2, <1>4 DEF Trees
<1> QED
  BY <1>1, <1>5 DEF IsPut

LEMMA PutNotEmpty ==
  ASSUME NEW b, NEW p, NEW key, NEW data
  PROVE  Put(b, p, key, data) # EmptyTree
<1>1. p \in DOMAIN Put(b, p, key, data)
  BY DEF Put
<1> QED
  BY <1>1, EmptyTreeIs

(* The least-number principle, for the lengths of places.                  *)
LEMMA LeastOf ==
  ASSUME NEW S, S \subseteq Nat, S # {}
  PROVE  \E x \in S : \A y \in S : x <= y
<1>1. PICK x \in S : \A y \in S : ~(<< y, x >> \in OpToRel(<, Nat))
  BY NatLessThanWellFounded, WFMin
<1>2. ASSUME NEW y \in S PROVE x <= y
  <2>1. x \in Nat /\ y \in Nat /\ ~(<< y, x >> \in OpToRel(<, Nat))
    BY <1>1
  <2>2. x \in Nat /\ y \in Nat /\ ~(y < x)
    BY <2>1 DEF OpToRel
  <2> QED
    BY <2>2
<1> QED
  BY <1>2

LEMMA FirstIs ==
  ASSUME NEW stops, stops \subseteq Places, stops # {}
  PROVE  First(stops) \in stops /\ \A q \in stops : Len(First(stops)) <= Len(q)
<1> DEFINE S == {Len(p) : p \in stops}
<1>1. \A p \in stops : Len(p) \in Nat
  BY DEF Places
<1>2. S \subseteq Nat /\ S # {}
  BY <1>1
<1> HIDE DEF S
<1>3. PICK x \in S : \A y \in S : x <= y
  BY <1>2, LeastOf
<1>4. PICK p \in stops : x = Len(p)
  BY <1>3 DEF S
<1>5. \A q \in stops : Len(p) <= Len(q)
  BY <1>3, <1>4 DEF S
<1> QED
  BY <1>4, <1>5 DEF First

(* The search for a key comes to every place by the places before it.      *)
LEMMA PositionIs ==
  ASSUME NEW b, IsTree(b), NEW p \in Positions(b)
  PROVE  /\ p \in Places
         /\ \A i \in 1 .. Len(p) : SubSeq(p, 1, i - 1) \in DOMAIN b
<1>1. b \in Trees /\ SearchTree(b)
  BY DEF IsTree
<1>2. CASE p = << >>
  BY <1>2 DEF Places
<1>3. CASE p # << >>
  <2>1. PICK q \in DOMAIN b, side \in Sides : p = Append(q, side)
    BY <1>3 DEF Positions
  <2>2. q \in Places
    BY <1>1, TreeIs
  <2>3. p \in Places /\ Len(p) = Len(q) + 1 /\ \A j \in 1 .. Len(q) : p[j] = q[j]
    BY <2>1, <2>2 DEF Places
  <2>4. ASSUME NEW i \in 1 .. Len(p) PROVE SubSeq(p, 1, i - 1) \in DOMAIN b
    <3>1. CASE i = Len(p)
      <4>1. SubSeq(p, 1, i - 1) = q
        BY <2>1, <2>2, <2>3, <3>1 DEF Places
      <4> QED
        BY <4>1
    <3>2. CASE i # Len(p)
      <4>1. i \in 1 .. Len(q) /\ i - 1 <= Len(q)
        BY <2>2, <2>3, <3>2 DEF Places
      <4>2. SubSeq(p, 1, i - 1) = SubSeq(q, 1, i - 1)
        BY <2>1, <2>2, <2>3, <4>1 DEF Places
      <4> QED
        BY <1>1, <4>1, <4>2 DEF SearchTree
    <3> QED
      BY <3>1, <3>2
  <2> QED
    BY <2>3, <2>4
<1> QED
  BY <1>2, <1>3

LEMMA NodeIsPosition ==
  ASSUME NEW b, IsTree(b), NEW p \in DOMAIN b
  PROVE  p \in Positions(b)
<1>1. b \in Trees /\ SearchTree(b) /\ p \in Seq(Sides)
  BY TreeIs DEF IsTree, Places
<1>2. CASE p = << >>
  BY <1>2 DEF Positions
<1>3. CASE p # << >>
  <2>1. Len(p) \in Nat /\ Len(p) >= 1 /\ p[Len(p)] \in Sides
    BY <1>1, <1>3
  <2>2. SubSeq(p, 1, Len(p) - 1) \in DOMAIN b
    BY <1>1, <2>1 DEF SearchTree
  <2>3. p = Append(SubSeq(p, 1, Len(p) - 1), p[Len(p)])
    BY <1>1, <2>1
  <2> DEFINE q == SubSeq(p, 1, Len(p) - 1)
             side == p[Len(p)]
  <2>4. side \in Sides /\ q \in DOMAIN b /\ p = Append(q, side)
    BY <2>1, <2>2, <2>3
  <2> HIDE DEF q, side
  <2>5. Append(q, side) \in Positions(b)
    BY <2>4 DEF Positions
  <2> QED
    BY <2>4, <2>5
<1> QED
  BY <1>2, <1>3

LEMMA WayIs ==
  ASSUME NEW b, IsTree(b), NEW key \in Int, NEW p \in Way(b, key),
         NEW i \in 1 .. Len(p)
  PROVE  /\ SubSeq(p, 1, i - 1) \in Way(b, key)
         /\ SubSeq(p, 1, i - 1) \in DOMAIN b
         /\ p[i] = Turn(b[SubSeq(p, 1, i - 1)], key)
<1>1. p \in Positions(b)
      /\ \A j \in 1 .. Len(p) : p[j] = Turn(b[SubSeq(p, 1, j - 1)], key)
  BY DEF Way
<1>2. p \in Places /\ SubSeq(p, 1, i - 1) \in DOMAIN b
  BY <1>1, PositionIs
<1> DEFINE q == SubSeq(p, 1, i - 1)
<1>3. q \in Positions(b)
  BY <1>2, NodeIsPosition
<1>4. p \in Seq(Sides) /\ Len(p) \in Nat /\ i \in Nat /\ Len(q) = i - 1
      /\ \A j \in 1 .. i - 1 : q[j] = p[j]
  BY <1>2 DEF Places
<1>5. ASSUME NEW j \in 1 .. Len(q) PROVE q[j] = Turn(b[SubSeq(q, 1, j - 1)], key)
  <2>1. j \in 1 .. Len(p) /\ q[j] = p[j]
    BY <1>4
  <2>2. SubSeq(q, 1, j - 1) = SubSeq(p, 1, j - 1)
    BY <1>4, <2>1
  <2> QED
    BY <1>1, <2>1, <2>2
<1> HIDE DEF q
<1>6. q \in Way(b, key)
  BY <1>3, <1>5 DEF Way
<1> QED
  BY <1>1, <1>2, <1>6 DEF q

LEMMA WayGoesOn ==
  ASSUME NEW b, IsTree(b), NEW key \in Int, NEW p \in Way(b, key), p \in DOMAIN b
  PROVE  Append(p, Turn(b[p], key)) \in Way(b, key)
<1> DEFINE side == Turn(b[p], key)
           q == Append(p, side)
<1>1. side \in Sides
  BY DEF Turn, Sides
<1>2. q \in Positions(b)
  BY <1>1 DEF Positions
<1>3. b \in Trees /\ p \in Seq(Sides)
  BY TreeIs DEF IsTree, Places
<1>4. Len(q) = Len(p) + 1 /\ Len(p) \in Nat /\ q[Len(p) + 1] = side
      /\ q \in Seq(Sides) /\ \A j \in 1 .. Len(p) : q[j] = p[j]
  BY <1>1, <1>3
<1>5. ASSUME NEW j \in 1 .. Len(q) PROVE q[j] = Turn(b[SubSeq(q, 1, j - 1)], key)
  <2>1. CASE j = Len(p) + 1
    <3>1. SubSeq(q, 1, j - 1) = p
      BY <1>3, <1>4, <2>1
    <3> QED
      BY <1>4, <2>1, <3>1
  <2>2. CASE j # Len(p) + 1
    <3>1. j \in 1 .. Len(p)
      BY <1>4, <2>2
    <3>2. SubSeq(q, 1, j - 1) = SubSeq(p, 1, j - 1)
      BY <1>3, <1>4, <3>1
    <3>3. q[j] = p[j] /\ p[j] = Turn(b[SubSeq(p, 1, j - 1)], key)
      BY <1>4, <3>1, WayIs
    <3> HIDE DEF q, side
    <3> QED
      BY <3>2, <3>3
  <2> QED
    BY <2>1, <2>2
<1> HIDE DEF q
<1>6. q \in Way(b, key)
  BY <1>2, <1>5 DEF Way
<1> QED
  BY <1>6 DEF q

LEMMA WayEnds ==
  ASSUME NEW b, IsTree(b), NEW key \in Int
  PROVE  \E p \in Way(b, key) : p \notin DOMAIN b
<1> SUFFICES ASSUME \A p \in Way(b, key) : p \in DOMAIN b PROVE FALSE
  OBVIOUS
<1>1. PICK n \in Nat : \A p \in DOMAIN b : Len(p) <= n
  BY DEF IsTree, Shallow
<1> DEFINE S == {n - Len(p) : p \in Way(b, key)}
<1>2. \A p \in Way(b, key) : p \in Seq(Sides) /\ Len(p) \in Nat /\ Len(p) <= n
  BY <1>1, TreeIs DEF IsTree, Places
<1>3. << >> \in Way(b, key)
  BY DEF Way, Positions
<1>4. S \subseteq Nat /\ S # {}
  BY <1>2, <1>3
<1> HIDE DEF S
<1>5. PICK x \in S : \A y \in S : x <= y
  BY <1>4, LeastOf
<1>6. PICK p \in Way(b, key) : x = n - Len(p)
  BY <1>5 DEF S
<1> DEFINE q == Append(p, Turn(b[p], key))
<1>7. q \in Way(b, key) /\ Len(q) = Len(p) + 1
  <2>1. q \in Way(b, key)
    BY WayGoesOn
  <2> QED
    BY <1>2, <2>1
<1> HIDE DEF q
<1>8. n - Len(q) \in S
  BY <1>7 DEF S
<1> QED
  BY <1>2, <1>5, <1>6, <1>7, <1>8

-----------------------------------------------------------------------------
(* A new element at the end of the way.                                    *)
LEMMA PutShallow ==
  ASSUME NEW b \in Trees, Shallow(b), NEW p \in Places,
         NEW key \in Int, NEW data \in Int
  PROVE  Shallow(Put(b, p, key, data))
<1>1. PICK n \in Nat : \A q \in DOMAIN b : Len(q) <= n
  BY DEF Shallow
<1> DEFINE m == n + Len(p)
<1>2. Len(p) \in Nat /\ m \in Nat
  BY DEF Places
<1>3. \A q \in DOMAIN b : Len(q) \in Nat
  BY TreeIs DEF Places
<1>4. \A q \in DOMAIN b \cup {p} : Len(q) <= m
  BY <1>1, <1>2, <1>3
<1>5. DOMAIN Put(b, p, key, data) = DOMAIN b \cup {p}
  BY DEF Put
<1> HIDE DEF m
<1> QED
  BY <1>2, <1>4, <1>5 DEF Shallow

(* What a place below another has to say about the places between.         *)
LEMMA BelowIs ==
  ASSUME NEW b, IsTree(b), NEW q \in DOMAIN b, NEW p \in Places, Below(p, q)
  PROVE  /\ Len(p) \in Nat /\ Len(p) + 1 \in 1 .. Len(q)
         /\ q[Len(p) + 1] \in Sides
         /\ p \in DOMAIN b
         /\ Append(p, q[Len(p) + 1]) = q \/ Append(p, q[Len(p) + 1]) \in DOMAIN b
<1>1. b \in Trees /\ SearchTree(b) /\ q \in Seq(Sides) /\ p \in Seq(Sides)
  BY TreeIs DEF IsTree, Places
<1>2. Len(p) \in Nat /\ Len(q) \in Nat /\ Len(p) < Len(q) /\ SubSeq(q, 1, Len(p)) = p
  BY <1>1 DEF Below
<1>3. Len(p) + 1 \in 1 .. Len(q) /\ q[Len(p) + 1] \in Sides
  BY <1>1, <1>2
<1>4. SubSeq(q, 1, Len(p) + 1 - 1) \in DOMAIN b
  BY <1>1, <1>3 DEF SearchTree
<1>5. p \in DOMAIN b
  <2>1. Len(p) + 1 - 1 = Len(p)
    BY <1>2
  <2> QED
    BY <1>2, <1>4, <2>1
<1>6. Append(p, q[Len(p) + 1]) = SubSeq(q, 1, Len(p) + 1)
  BY <1>1, <1>2, <1>3
<1>7. CASE Len(p) + 1 = Len(q)
  <2>1. SubSeq(q, 1, Len(p) + 1) = q
    BY <1>1, <1>7
  <2> QED
    BY <1>2, <1>3, <1>5, <1>6, <2>1
<1>8. CASE Len(p) + 1 # Len(q)
  <2>1. Len(p) + 2 \in 1 .. Len(q)
    BY <1>2, <1>3, <1>8
  <2>2. SubSeq(q, 1, Len(p) + 2 - 1) \in DOMAIN b
    BY <1>1, <2>1 DEF SearchTree
  <2>3. SubSeq(q, 1, Len(p) + 1) \in DOMAIN b
    BY <1>2, <2>2
  <2> QED
    BY <1>2, <1>3, <1>5, <1>6, <2>3
<1> QED
  BY <1>7, <1>8

(* The elements above a place on the way to key: key is on their side.     *)
LEMMA AboveWay ==
  ASSUME NEW b, IsTree(b), NEW key \in Int, NEW p \in Way(b, key),
         NEW q \in Places, Below(q, p)
  PROVE  /\ q \in DOMAIN b /\ q \in Way(b, key) /\ Len(q) < Len(p)
         /\ p[Len(q) + 1] = Turn(b[q], key)
<1>1. p \in Seq(Sides) /\ q \in Seq(Sides)
  BY PositionIs DEF Way, Places
<1>2. Len(q) \in Nat /\ Len(p) \in Nat /\ Len(q) < Len(p) /\ SubSeq(p, 1, Len(q)) = q
  BY <1>1 DEF Below
<1>3. Len(q) + 1 \in 1 .. Len(p) /\ Len(q) + 1 - 1 = Len(q)
  BY <1>2
<1>4. /\ SubSeq(p, 1, Len(q) + 1 - 1) \in Way(b, key)
      /\ SubSeq(p, 1, Len(q) + 1 - 1) \in DOMAIN b
      /\ p[Len(q) + 1] = Turn(b[SubSeq(p, 1, Len(q) + 1 - 1)], key)
  BY <1>3, WayIs
<1> QED
  BY <1>2, <1>3, <1>4

LEMMA PutNewTree ==
  ASSUME NEW b, IsTree(b), NEW key \in Int, NEW data \in Int,
         NEW p \in Way(b, key), p \notin DOMAIN b,
         \A q \in Way(b, key) : Len(q) < Len(p) => b[q].key # key
  PROVE  IsTree(Put(b, p, key, data))
<1> DEFINE c == Put(b, p, key, data)
<1>0. c = Put(b, p, key, data)
  OBVIOUS
<1> HIDE DEF c
<1>1. b \in Trees /\ SearchTree(b) /\ Shallow(b) /\ p \in Places /\ p \in Positions(b)
  BY PositionIs DEF Way, IsTree
<1>2. /\ c \in Trees /\ DOMAIN c = DOMAIN b \cup {p}
      /\ c[p].key = key /\ \A q \in DOMAIN b : c[q] = b[q]
  <2>1. IsPut(c, b, p, key, data)
    BY <1>0, <1>1, PutIs
  <2> QED
    BY <2>1 DEF IsPut
<1>3. Shallow(c)
  BY <1>0, <1>1, PutShallow
<1>4. ASSUME NEW q \in DOMAIN c, NEW i \in 1 .. Len(q)
      PROVE  SubSeq(q, 1, i - 1) \in DOMAIN c
  <2>1. CASE q \in DOMAIN b
    BY <1>1, <1>2, <2>1 DEF SearchTree
  <2>2. CASE q = p
    BY <1>1, <1>2, <2>2, PositionIs
  <2> QED
    BY <1>2, <2>1, <2>2
<1>5. ASSUME NEW q \in DOMAIN c, NEW r \in DOMAIN c, Below(q, r)
      PROVE  IF r[Len(q) + 1] = "left" THEN c[r].key < c[q].key ELSE c[r].key > c[q].key
  <2>1. q \in Places /\ r \in Places
    BY <1>2, TreeIs
  <2>2. CASE r \in DOMAIN b
    <3>1. q \in DOMAIN b
      BY <1>5, <2>1, <2>2, BelowIs
    <3> QED
      BY <1>1, <1>2, <1>5, <2>2, <3>1 DEF SearchTree
  <2>3. CASE r = p
    <3>1. /\ q \in DOMAIN b /\ q \in Way(b, key) /\ Len(q) < Len(p)
          /\ p[Len(q) + 1] = Turn(b[q], key)
      BY <1>5, <2>1, <2>3, AboveWay
    <3>2. b[q].key # key /\ b[q].key \in Int /\ c[q].key = b[q].key /\ c[r].key = key
      BY <1>1, <1>2, <2>3, <3>1, TreeIs
    <3> QED
      BY <2>3, <3>1, <3>2 DEF Turn
  <2> QED
    BY <1>2, <2>2, <2>3
<1>6. SearchTree(c)
  BY <1>4, <1>5 DEF SearchTree
<1>7. IsTree(c)
  BY <1>2, <1>3, <1>6 DEF IsTree
<1> QED
  BY <1>7 DEF c

(* An element with nothing to its left may begin earlier.                  *)
LEMMA PutWiderTree ==
  ASSUME NEW b, IsTree(b), NEW key \in Int, NEW data \in Int,
         NEW p \in Way(b, key), p \in DOMAIN b, b[p].key > key,
         Append(p, "left") \notin DOMAIN b,
         \A q \in Way(b, key) : Len(q) < Len(p) => b[q].key # key
  PROVE  IsTree(Put(b, p, key, data))
<1> DEFINE c == Put(b, p, key, data)
<1>0. c = Put(b, p, key, data)
  OBVIOUS
<1> HIDE DEF c
<1>1. b \in Trees /\ SearchTree(b) /\ Shallow(b) /\ p \in Places
  BY PositionIs DEF Way, IsTree
<1>2. /\ c \in Trees /\ DOMAIN c = DOMAIN b
      /\ c[p].key = key /\ \A q \in DOMAIN b : q # p => c[q] = b[q]
  <2>1. IsPut(c, b, p, key, data)
    BY <1>0, <1>1, PutIs
  <2>2. DOMAIN b \cup {p} = DOMAIN b
    OBVIOUS
  <2> QED
    BY <2>1, <2>2 DEF IsPut
<1>3. Shallow(c)
  BY <1>0, <1>1, PutShallow
<1>4. ASSUME NEW q \in DOMAIN c, NEW r \in DOMAIN c, Below(q, r)
      PROVE  IF r[Len(q) + 1] = "left" THEN c[r].key < c[q].key ELSE c[r].key > c[q].key
  <2>1. /\ q \in Places /\ r \in Places /\ q # r
        /\ b[q].key \in Int /\ b[r].key \in Int /\ b[p].key \in Int
    BY <1>1, <1>2, <1>4, TreeIs DEF Below, Places
  <2>2. IF r[Len(q) + 1] = "left" THEN b[r].key < b[q].key ELSE b[r].key > b[q].key
    BY <1>1, <1>2, <1>4 DEF SearchTree
  <2>3. CASE q # p /\ r # p
    BY <1>2, <2>2, <2>3
  <2>4. CASE r = p
    <3>1. /\ q \in Way(b, key) /\ Len(q) < Len(p)
          /\ p[Len(q) + 1] = Turn(b[q], key)
      BY <1>4, <2>1, <2>4, AboveWay
    <3>2. b[q].key # key /\ c[q].key = b[q].key /\ c[r].key = key
      BY <1>2, <2>1, <2>4, <3>1
    <3> QED
      BY <2>1, <2>4, <3>1, <3>2 DEF Turn
  <2>5. CASE q = p
    <3>1. r[Len(p) + 1] # "left"
      <4>1. SUFFICES ASSUME r[Len(p) + 1] = "left" PROVE FALSE
        OBVIOUS
      <4>2. Append(p, "left") = r
        BY <1>2, <1>4, <2>1, <2>5, <4>1, BelowIs
      <4> QED
        BY <1>2, <4>2
    <3>2. b[r].key > b[p].key
      BY <2>2, <2>5, <3>1
    <3> QED
      BY <1>2, <2>1, <2>5, <3>1, <3>2
  <2> QED
    BY <2>3, <2>4, <2>5
<1>5. SearchTree(c)
  BY <1>1, <1>2, <1>4 DEF SearchTree
<1>6. IsTree(c)
  BY <1>2, <1>3, <1>5 DEF IsTree
<1> QED
  BY <1>6 DEF c

LEMMA PutSameTree ==
  ASSUME NEW b, IsTree(b), NEW p \in DOMAIN b, NEW data \in Int
  PROVE  IsTree(Put(b, p, b[p].key, data))
<1> DEFINE c == Put(b, p, b[p].key, data)
<1>0. c = Put(b, p, b[p].key, data)
  OBVIOUS
<1> HIDE DEF c
<1>1. b \in Trees /\ SearchTree(b) /\ Shallow(b) /\ p \in Places /\ b[p].key \in Int
  BY TreeIs DEF IsTree
<1>2. /\ c \in Trees /\ DOMAIN c = DOMAIN b
      /\ c[p].key = b[p].key /\ \A q \in DOMAIN b : q # p => c[q] = b[q]
  <2>1. IsPut(c, b, p, b[p].key, data)
    BY <1>0, <1>1, PutIs
  <2>2. DOMAIN b \cup {p} = DOMAIN b
    OBVIOUS
  <2> QED
    BY <2>1, <2>2 DEF IsPut
<1>3. Shallow(c)
  BY <1>0, <1>1, PutShallow
<1>4. \A q \in DOMAIN b : c[q].key = b[q].key
  BY <1>2
<1>5. SearchTree(c)
  BY <1>1, <1>2, <1>4 DEF SearchTree
<1>6. IsTree(c)
  BY <1>2, <1>3, <1>5 DEF IsTree
<1> QED
  BY <1>6 DEF c

-----------------------------------------------------------------------------
(* What the operations on trees do to the bytes that are covered.          *)
LEMMA CoveredIs ==
  ASSUME NEW b, NEW c
  PROVE  c \in Covered(b) <=> \E p \in DOMAIN b : c \in b[p].key .. b[p].data - 1
BY DEF Covered

(* A changed or new element covers what the old one did, and the range.    *)
LEMMA PutCovers ==
  ASSUME NEW b \in Trees, NEW p \in Places, NEW key \in Int, NEW data \in Int,
         NEW start \in Int, NEW end \in Int,
         p \in DOMAIN b =>
           key .. data - 1 = (b[p].key .. b[p].data - 1) \cup (start .. end - 1),
         p \notin DOMAIN b => key = start /\ data = end
  PROVE  Covered(Put(b, p, key, data)) = Covered(b) \cup (start .. end - 1)
<1> DEFINE d == Put(b, p, key, data)
<1>0. d = Put(b, p, key, data)
  OBVIOUS
<1> HIDE DEF d
<1>1. /\ DOMAIN d = DOMAIN b \cup {p} /\ d[p].key = key /\ d[p].data = data
      /\ \A q \in DOMAIN b : q # p => d[q] = b[q]
  <2>1. IsPut(d, b, p, key, data)
    BY <1>0, PutIs
  <2> QED
    BY <2>1 DEF IsPut
<1>2. ASSUME NEW c \in Covered(d) PROVE c \in Covered(b) \cup (start .. end - 1)
  <2>1. PICK q \in DOMAIN d : c \in d[q].key .. d[q].data - 1
    BY CoveredIs
  <2>2. CASE q = p
    <3>1. c \in key .. data - 1
      BY <1>1, <2>1, <2>2
    <3> QED
      BY <3>1, CoveredIs
  <2>3. CASE q # p
    <3>1. q \in DOMAIN b /\ d[q] = b[q]
      BY <1>1, <2>1, <2>3
    <3> QED
      BY <2>1, <3>1, CoveredIs
  <2> QED
    BY <2>2, <2>3
<1>3. ASSUME NEW c \in Covered(b) PROVE c \in Covered(d)
  <2>1. PICK q \in DOMAIN b : c \in b[q].key .. b[q].data - 1
    BY CoveredIs
  <2>2. q \in DOMAIN d
    BY <1>1
  <2>3. c \in d[q].key .. d[q].data - 1
    <3>1. CASE q = p
      <4>1. c \in key .. data - 1
        BY <2>1, <3>1
      <4> QED
        BY <1>1, <3>1, <4>1
    <3>2. CASE q # p
      BY <1>1, <2>1, <3>2
    <3> QED
      BY <3>1, <3>2
  <2> QED
    BY <2>2, <2>3, CoveredIs
<1>4. ASSUME NEW c \in start .. end - 1 PROVE c \in Covered(d)
  <2>1. c \in d[p].key .. d[p].data - 1
    <3>1. c \in key .. data - 1
      OBVIOUS
    <3> QED
      BY <1>1, <3>1
  <2> QED
    BY <1>1, <2>1, CoveredIs
<1>5. Covered(d) = Covered(b) \cup (start .. end - 1)
  BY <1>2, <1>3, <1>4
<1> QED
  BY <1>5 DEF d

(* btree_ensure_range_l keeps the search tree, and the tree covers the     *)
(* range in addition, no byte less and no byte more.                       *)
LEMMA EnsureRangeIs ==
  ASSUME NEW b, IsTree(b), NEW start \in Int, NEW end \in Int, start < end
  PROVE  /\ IsTree(EnsureRange(b, start, end))
         /\ EnsureRange(b, start, end) # EmptyTree
         /\ Covered(EnsureRange(b, start, end)) = Covered(b) \cup (start .. end - 1)
<1> DEFINE stops == {q \in Way(b, start) : Stops(b, q, start, end)}
           p == First(stops)
<1>1. b \in Trees
  BY DEF IsTree
<1>2. \A q \in Way(b, start) : q \in Places
  BY PositionIs DEF Way
<1>3. PICK q \in Way(b, start) : q \notin DOMAIN b
  BY WayEnds
<1>4. q \in stops
  BY <1>3 DEF Stops
<1>5. stops \subseteq Places
  BY <1>2
<1>6. p \in stops /\ \A r \in stops : Len(p) <= Len(r)
  BY <1>4, <1>5, FirstIs
<1>7. p \in Way(b, start) /\ p \in Places /\ Stops(b, p, start, end)
  BY <1>5, <1>6
<1>8. ASSUME NEW r \in Way(b, start), Len(r) < Len(p) PROVE b[r].key # start
  <2>1. r \notin stops
    BY <1>2, <1>6, <1>8 DEF Places
  <2>2. ~Stops(b, r, start, end)
    BY <2>1
  <2>3. r \in DOMAIN b /\ b[r].key \in Int
    BY <1>1, <2>2, TreeIs DEF Stops
  <2> QED
    BY <2>2, <2>3 DEF Stops
<1>9. EnsureRange(b, start, end) =
        IF p \in DOMAIN b /\ b[p].key <= start
        THEN Put(b, p, b[p].key, IF b[p].data < end THEN end ELSE b[p].data)
        ELSE Put(b, p, start, end)
  BY DEF EnsureRange
<1> HIDE DEF p, stops
<1>10. CASE p \notin DOMAIN b
  <2>1. EnsureRange(b, start, end) = Put(b, p, start, end)
    BY <1>9, <1>10
  <2>2. IsTree(Put(b, p, start, end))
    BY <1>7, <1>8, <1>10, PutNewTree
  <2>3. Covered(Put(b, p, start, end)) = Covered(b) \cup (start .. end - 1)
    <3>1. start \in Int /\ end \in Int
      OBVIOUS
    <3> QED
      BY <1>1, <1>7, <1>10, <3>1, PutCovers
  <2>4. Put(b, p, start, end) # EmptyTree
    BY PutNotEmpty
  <2> QED
    BY <2>1, <2>2, <2>3, <2>4
<1>11. CASE p \in DOMAIN b /\ b[p].key > start
  <2>1. b[p].key \in Int /\ b[p].data \in Int
    BY <1>1, <1>11, TreeIs
  <2>2. Append(p, "left") \notin DOMAIN b /\ b[p].data <= end
    BY <1>7, <1>11 DEF Stops
  <2>3. EnsureRange(b, start, end) = Put(b, p, start, end)
    BY <1>9, <1>11, <2>1
  <2>4. IsTree(Put(b, p, start, end))
    BY <1>7, <1>8, <1>11, <2>2, PutWiderTree
  <2>5. start .. end - 1 = (b[p].key .. b[p].data - 1) \cup (start .. end - 1)
    BY <1>11, <2>1, <2>2
  <2>6. Covered(Put(b, p, start, end)) = Covered(b) \cup (start .. end - 1)
    BY <1>1, <1>7, <1>11, <2>5, PutCovers
  <2>7. Put(b, p, start, end) # EmptyTree
    BY PutNotEmpty
  <2> QED
    BY <2>3, <2>4, <2>6, <2>7
<1>12. CASE p \in DOMAIN b /\ b[p].key <= start
  <2> DEFINE data == IF b[p].data < end THEN end ELSE b[p].data
  <2>1. b[p].key \in Int /\ b[p].data \in Int /\ data \in Int
    BY <1>1, <1>12, TreeIs
  <2>2. b[p].key = start \/ b[p].data >= start
    BY <1>7, <1>12, <2>1 DEF Stops
  <2>3. EnsureRange(b, start, end) = Put(b, p, b[p].key, data)
    BY <1>9, <1>12
  <2>4. b[p].key .. data - 1 = (b[p].key .. b[p].data - 1) \cup (start .. end - 1)
    BY <1>12, <2>1, <2>2
  <2> HIDE DEF data
  <2>5. IsTree(Put(b, p, b[p].key, data))
    BY <1>12, <2>1, PutSameTree
  <2>6. Covered(Put(b, p, b[p].key, data)) = Covered(b) \cup (start .. end - 1)
    BY <1>1, <1>7, <1>12, <2>1, <2>4, PutCovers
  <2>7. Put(b, p, b[p].key, data) # EmptyTree
    BY PutNotEmpty
  <2> QED
    BY <2>3, <2>5, <2>6, <2>7
<1>13. p \in DOMAIN b => b[p].key \in Int
  BY <1>1, TreeIs
<1> QED
  BY <1>10, <1>11, <1>12, <1>13

(* The first element of a tree.                                            *)
LEMMA InsertFirstIs ==
  ASSUME NEW data \in Int
  PROVE  /\ IsTree(InsertElem(EmptyTree, 0, data))
         /\ Covered(InsertElem(EmptyTree, 0, data)) = 0 .. data - 1
<1> DEFINE b == EmptyTree
           stops == {q \in Way(b, 0) : q \notin DOMAIN b \/ b[q].key = 0}
           p == First(stops)
<1>1. IsTree(b) /\ DOMAIN b = {} /\ b \in Trees
  BY EmptyTreeIs DEF IsTree
<1> HIDE DEF b
<1>2. << >> \in Way(b, 0)
  BY DEF Way, Positions
<1>3. \A q \in Way(b, 0) : q \in Places
  BY <1>1, PositionIs DEF Way
<1>4. p \in stops
  BY <1>1, <1>2, <1>3, FirstIs
<1>5. p \in Way(b, 0) /\ p \in Places /\ p \notin DOMAIN b
  BY <1>1, <1>3, <1>4
<1>6. \A q \in Way(b, 0) : Len(q) < Len(p) => b[q].key # 0
  <2> SUFFICES ASSUME NEW q \in Way(b, 0), Len(q) < Len(p) PROVE FALSE
    OBVIOUS
  <2>1. q \in Places /\ Len(q) \in Nat /\ Len(p) \in Nat /\ p \in Seq(Sides)
    BY <1>3, <1>5 DEF Places
  <2>2. Len(p) \in 1 .. Len(p)
    BY <2>1
  <2>3. SubSeq(p, 1, Len(p) - 1) \in DOMAIN b
    BY <1>1, <1>5, <2>2, WayIs
  <2> QED
    BY <1>1, <2>3
<1>7. InsertElem(b, 0, data) = Put(b, p, 0, data)
  BY <1>5 DEF InsertElem
<1> HIDE DEF p, stops
<1>8. IsTree(Put(b, p, 0, data))
  BY <1>1, <1>5, <1>6, PutNewTree
<1>9. Covered(Put(b, p, 0, data)) = Covered(b) \cup (0 .. data - 1)
  BY <1>1, <1>5, PutCovers
<1>10. Covered(b) = {}
  BY <1>1 DEF Covered
<1> QED
  BY <1>7, <1>8, <1>9, <1>10 DEF b

(* btree_has_range_l finds only ranges that are covered.                   *)
LEMMA HasRangeIs ==
  ASSUME NEW b \in Trees, NEW start \in Int, NEW end \in Int,
         HasRange(b, start, end)
  PROVE  start .. end - 1 \subseteq Covered(b)
<1>1. PICK p \in DOMAIN b : b[p].key <= start /\ b[p].data >= end
  BY DEF HasRange
<1>2. b[p].key \in Int /\ b[p].data \in Int
  BY TreeIs
<1>3. start .. end - 1 \subseteq b[p].key .. b[p].data - 1
  BY <1>1, <1>2
<1> QED
  BY <1>3, CoveredIs

-----------------------------------------------------------------------------
(* What is known of one path.                                              *)
Kinds == {"unknown", "file", "dir", "link"}
Vsizes ==
  [fresh : BOOLEAN, required : BOOLEAN, kind : Kinds, unsure : BOOLEAN,
   link_target : BOOLEAN, bytes : Int, read_ranges : Trees, write_ranges : Trees]

(* w has the data of v, and must exist if v must.                          *)
SameData(v, w) ==
  /\ v.required => w.required
  /\ w.bytes = v.bytes
  /\ w.read_ranges = v.read_ranges /\ w.write_ranges = v.write_ranges

LEMMA VsizeIsKnown == None \notin Vsizes
<1> SUFFICES ASSUME None \in Vsizes PROVE FALSE
  OBVIOUS
<1>1. "fresh" \in DOMAIN None
  BY DEF Vsizes
<1>2. DOMAIN None = {}
  BY DEF None
<1> QED
  BY <1>1, <1>2

LEMMA NewVsizeIs ==
  /\ NewVsize \in Vsizes /\ NewVsize.fresh = TRUE /\ NewVsize.bytes = 0
  /\ NewVsize.read_ranges = EmptyTree /\ NewVsize.write_ranges = EmptyTree
<1>1. EmptyTree \in Trees
  BY EmptyTreeIs DEF IsTree
<1> HIDE DEF EmptyTree
<1>2. NoRanges = EmptyTree
  BY DEF NoRanges
<1> QED
  BY <1>1, <1>2 DEF NewVsize, Vsizes, Kinds

(* The macros leave the data alone, and all but one the updates.           *)
LEMMA MacrosKeep ==
  ASSUME NEW v \in Vsizes
  PROVE  /\ SetFile(v) \in Vsizes /\ SameData(v, SetFile(v)) /\ SetFile(v).fresh = v.fresh
         /\ SetDir(v) \in Vsizes /\ SameData(v, SetDir(v)) /\ SetDir(v).fresh = v.fresh
         /\ SetLink(v) \in Vsizes /\ SameData(v, SetLink(v)) /\ SetLink(v).fresh = v.fresh
         /\ SetUnsure(v) \in Vsizes /\ SameData(v, SetUnsure(v))
         /\ SetUnsure(v).fresh = v.fresh
         /\ SetRequired(v) \in Vsizes /\ SameData(v, SetRequired(v))
         /\ SetRequired(v).fresh = v.fresh
         /\ Updated(v) \in Vsizes /\ SameData(v, Updated(v)) /\ Updated(v).fresh = FALSE
<1>1. SetFile(v) \in Vsizes /\ SameData(v, SetFile(v)) /\ SetFile(v).fresh = v.fresh
  BY DEF Vsizes, Kinds, SetFile, SameData
<1>2. SetDir(v) \in Vsizes /\ SameData(v, SetDir(v)) /\ SetDir(v).fresh = v.fresh
  BY DEF Vsizes, Kinds, SetDir, SameData
<1>3. SetLink(v) \in Vsizes /\ SameData(v, SetLink(v)) /\ SetLink(v).fresh = v.fresh
  BY DEF Vsizes, Kinds, SetLink, SameData
<1>4. SetUnsure(v) \in Vsizes /\ SameData(v, SetUnsure(v)) /\ SetUnsure(v).fresh = v.fresh
  BY DEF Vsizes, Kinds, SetUnsure, SameData
<1>5. SetRequired(v) \in Vsizes /\ SameData(v, SetRequired(v))
      /\ SetRequired(v).fresh = v.fresh
  BY DEF Vsizes, Kinds, SetRequired, SameData
<1>6. Updated(v) \in Vsizes /\ SameData(v, Updated(v)) /\ Updated(v).fresh = FALSE
  BY DEF Vsizes, Kinds, Updated, SameData
<1> QED
  BY <1>1, <1>2, <1>3, <1>4, <1>5, <1>6

(* w is what an operation that is not about data makes of v.               *)
Keeps(v, w) == w \in Vsizes /\ SameData(v, w)

LEMMA KeepsOn ==
  ASSUME NEW u, NEW v, NEW w, Keeps(u, v), Keeps(v, w)
  PROVE  Keeps(u, w)
BY DEF Keeps, SameData

LEMMA FileOrDirKeeps ==
  ASSUME NEW v \in Vsizes
  PROVE  Keeps(v, FileOrDir(v)) /\ Keeps(v, RequiredFileOrDir(v))
<1>1. ASSUME NEW u \in Vsizes PROVE Keeps(u, FileOrDir(u))
  <2>1. Keeps(u, SetFile(u)) /\ SetFile(u) \in Vsizes
    BY MacrosKeep DEF Keeps
  <2>2. Keeps(SetFile(u), SetUnsure(SetFile(u)))
    BY <2>1, MacrosKeep DEF Keeps
  <2> QED
    BY <2>1, <2>2, KeepsOn DEF FileOrDir
<1>2. Keeps(v, SetRequired(v)) /\ SetRequired(v) \in Vsizes
  BY MacrosKeep DEF Keeps
<1>3. Keeps(v, FileOrDir(SetRequired(v)))
  BY <1>1, <1>2, KeepsOn
<1> QED
  BY <1>1, <1>3 DEF RequiredFileOrDir

-----------------------------------------------------------------------------
(* What the operations on paths do to the map.                             *)
Maps == [Paths -> Vsizes \cup {None}]

(* A path that takes part in something has a parent in the map, or is in   *)
(* it as a parent.                                                         *)
HasParent(vs, x) ==
  Parent[x] = x \/ vs[Parent[x]] # None \/ \E y \in Paths : vs[y] # None /\ Parent[y] = x
ParentsIn(vs) ==
  \A x \in Paths : vs[x] # None /\ ~vs[x].fresh => HasParent(vs, x)

(* ws has what vs has, and perhaps more, with the same data.               *)
Grows(vs, ws) ==
  /\ ws \in Maps
  /\ \A x \in Paths : vs[x] # None =>
       /\ ws[x] # None /\ SameData(vs[x], ws[x])
       /\ ~vs[x].fresh => ~ws[x].fresh
  /\ \A x \in Paths : vs[x] = None /\ ws[x] # None => SameData(NewVsize, ws[x])
  /\ ParentsIn(vs) => ParentsIn(ws)

LEMMA GrowsNot ==
  ASSUME NEW vs \in Maps
  PROVE  Grows(vs, vs)
BY DEF Grows, SameData

LEMMA GrowsOn ==
  ASSUME NEW us, NEW vs, NEW ws, Grows(us, vs), Grows(vs, ws)
  PROVE  Grows(us, ws)
<1>1. /\ vs \in Maps /\ ws \in Maps
      /\ (ParentsIn(us) => ParentsIn(vs)) /\ (ParentsIn(vs) => ParentsIn(ws))
  BY DEF Grows
<1>2. ASSUME NEW x \in Paths, us[x] # None
      PROVE  /\ ws[x] # None /\ SameData(us[x], ws[x])
             /\ ~us[x].fresh => ~ws[x].fresh
  BY <1>2 DEF Grows, SameData
<1>3. ASSUME NEW x \in Paths, us[x] = None, ws[x] # None
      PROVE  SameData(NewVsize, ws[x])
  <2>1. CASE vs[x] = None
    BY <1>3, <2>1 DEF Grows
  <2>2. CASE vs[x] # None
    BY <1>3, <2>2 DEF Grows, SameData
  <2> QED
    BY <2>1, <2>2
<1> QED
  BY <1>1, <1>2, <1>3 DEF Grows

(* One path is met, or changes.                                            *)
LEMMA PathGrows ==
  ASSUME NEW vs \in Maps, NEW x \in Paths, NEW w \in Vsizes,
         vs[x] # None => SameData(vs[x], w),
         vs[x] = None => SameData(NewVsize, w),
         vs[x] # None /\ ~vs[x].fresh => ~w.fresh,
         ~w.fresh => HasParent(vs, x) \/ (vs[x] # None /\ ~vs[x].fresh)
  PROVE  /\ Grows(vs, [vs EXCEPT ![x] = w])
         /\ [vs EXCEPT ![x] = w][x] = w
<1> DEFINE ws == [vs EXCEPT ![x] = w]
<1>1. ws \in Maps /\ ws[x] = w /\ \A y \in Paths : y # x => ws[y] = vs[y]
  BY DEF Maps
<1>2. w # None
  BY VsizeIsKnown
<1> HIDE DEF ws
<1>3. \A y \in Paths : vs[y] # None => ws[y] # None
  BY <1>1, <1>2
<1>4. ASSUME NEW y \in Paths, HasParent(vs, y) PROVE HasParent(ws, y)
  BY <1>3, <1>4, ParentAssumption DEF HasParent
<1>5. ASSUME ParentsIn(vs), NEW y \in Paths, ws[y] # None, ~ws[y].fresh
      PROVE  HasParent(ws, y)
  <2>1. HasParent(vs, y)
    BY <1>1, <1>5 DEF ParentsIn
  <2> QED
    BY <1>4, <2>1
<1>6. ParentsIn(vs) => ParentsIn(ws)
  BY <1>5 DEF ParentsIn
<1>7. \A y \in Paths : SameData(vs[y], vs[y])
  BY DEF SameData
<1>8. Grows(vs, ws)
  BY <1>1, <1>2, <1>6, <1>7 DEF Grows
<1> QED
  BY <1>1, <1>8 DEF ws

LEMMA ByPathGrows ==
  ASSUME NEW vs \in Maps, NEW x \in Paths
  PROVE  Grows(vs, VsizeByPath(vs, x)) /\ VsizeByPath(vs, x)[x] # None
<1>1. CASE vs[x] = None
  <2>1. SameData(NewVsize, NewVsize)
    BY DEF SameData
  <2>2. /\ Grows(vs, [vs EXCEPT ![x] = NewVsize])
        /\ [vs EXCEPT ![x] = NewVsize][x] = NewVsize
    BY <1>1, <2>1, NewVsizeIs, PathGrows
  <2> QED
    BY <1>1, <2>2, NewVsizeIs, VsizeIsKnown DEF VsizeByPath
<1>2. CASE vs[x] # None
  BY <1>2, GrowsNot DEF VsizeByPath
<1> QED
  BY <1>1, <1>2

(* init_parent_dir: afterwards the parent is known.                        *)
LEMMA InitParentDirGrows ==
  ASSUME NEW vs \in Maps, NEW x \in Paths, vs[x] # None
  PROVE  /\ Grows(vs, InitParentDir(vs, x))
         /\ InitParentDir(vs, x)[Parent[x]] # None
         /\ InitParentDir(vs, x)[x] # None
<1> DEFINE p == Parent[x]
           ws == InitParentDir(vs, x)
<1>1. p \in Paths
  BY ParentAssumption
<1>2. HasParent(vs, p)
  BY DEF HasParent
<1>3. Grows(vs, ws) /\ ws[p] # None
  <2>1. CASE vs[p] = None
    <3> DEFINE w == Updated(SetDir(SetRequired(NewVsize)))
    <3>1. SetRequired(NewVsize) \in Vsizes /\ SameData(NewVsize, SetRequired(NewVsize))
      BY NewVsizeIs, MacrosKeep
    <3>2. /\ SetDir(SetRequired(NewVsize)) \in Vsizes
          /\ SameData(NewVsize, SetDir(SetRequired(NewVsize)))
      BY <3>1, MacrosKeep DEF SameData
    <3>3. w \in Vsizes /\ SameData(NewVsize, w) /\ w.fresh = FALSE
      BY <3>2, MacrosKeep DEF SameData
    <3>4. ws = [vs EXCEPT ![p] = w]
      BY <2>1 DEF InitParentDir
    <3> HIDE DEF w, ws
    <3>5. Grows(vs, [vs EXCEPT ![p] = w]) /\ [vs EXCEPT ![p] = w][p] = w
      BY <1>1, <1>2, <2>1, <3>3, PathGrows
    <3> QED
      BY <3>3, <3>4, <3>5, VsizeIsKnown
  <2>2. CASE vs[p] # None /\ vs[p].unsure
    <3> DEFINE w == Updated(SetDir(vs[p]))
    <3>1. vs[p] \in Vsizes
      BY <1>1, <2>2 DEF Maps
    <3>2. SetDir(vs[p]) \in Vsizes /\ SameData(vs[p], SetDir(vs[p]))
      BY <3>1, MacrosKeep
    <3>3. w \in Vsizes /\ SameData(vs[p], w) /\ w.fresh = FALSE
      BY <3>2, MacrosKeep DEF SameData
    <3>4. ws = [vs EXCEPT ![p] = w]
      BY <2>2 DEF InitParentDir
    <3> HIDE DEF w, ws
    <3>5. Grows(vs, [vs EXCEPT ![p] = w]) /\ [vs EXCEPT ![p] = w][p] = w
      BY <1>1, <1>2, <2>2, <3>3, PathGrows
    <3> QED
      BY <3>3, <3>4, <3>5, VsizeIsKnown
  <2>3. CASE vs[p] # None /\ ~vs[p].unsure
    <3>1. ws = vs
      BY <2>3 DEF InitParentDir
    <3> QED
      BY <2>3, <3>1, GrowsNot
  <2> QED
    BY <2>1, <2>2, <2>3
<1> HIDE DEF ws
<1>4. ws[x] # None
  BY <1>3 DEF Grows
<1> QED
  BY <1>3, <1>4 DEF ws

(* The map after an operation that met x.                                  *)
Meets(vs, ws, x) == Grows(vs, ws) /\ ws[x] # None /\ ~ws[x].fresh

LEMMA MeetsAfter ==
  ASSUME NEW us, NEW vs, NEW ws, NEW x, Grows(us, vs), Meets(vs, ws, x)
  PROVE  Meets(us, ws, x)
BY GrowsOn DEF Meets

LEMMA MeetsBefore ==
  ASSUME NEW us, NEW vs, NEW ws, NEW x \in Paths, Meets(us, vs, x), Grows(vs, ws)
  PROVE  Meets(us, ws, x)
<1>1. Grows(us, ws)
  BY GrowsOn DEF Meets
<1>2. vs[x] # None /\ ~vs[x].fresh
  BY DEF Meets
<1> QED
  BY <1>1, <1>2 DEF Meets, Grows

(* What FirstTime does, with w for what Change makes of the path.          *)
LEMMA FirstTimeMeets ==
  ASSUME NEW vs \in Maps, NEW x \in Paths, vs[x] # None, NEW w,
         Keeps(InitParentDir(vs, x)[x], w)
  PROVE  Meets(vs, [InitParentDir(vs, x) EXCEPT ![x] = Updated(w)], x)
<1> DEFINE us == InitParentDir(vs, x)
           ws == [us EXCEPT ![x] = Updated(w)]
<1>1. Grows(vs, us) /\ us[Parent[x]] # None /\ us[x] # None /\ us \in Maps
  BY InitParentDirGrows DEF Grows
<1>2. Keeps(us[x], w)
  OBVIOUS
<1> HIDE DEF us
<1>3. w \in Vsizes /\ SameData(us[x], w)
  BY <1>2 DEF Keeps
<1>4. Updated(w) \in Vsizes /\ SameData(us[x], Updated(w)) /\ ~Updated(w).fresh
  BY <1>3, MacrosKeep DEF SameData
<1>5. HasParent(us, x)
  BY <1>1 DEF HasParent
<1>6. Grows(us, ws) /\ ws[x] = Updated(w)
  BY <1>1, <1>4, <1>5, PathGrows
<1>7. Grows(vs, ws)
  BY <1>1, <1>6, GrowsOn
<1>8. ws[x] # None
  BY <1>4, <1>6, VsizeIsKnown
<1>9. ~ws[x].fresh
  BY <1>4, <1>6
<1>10. Meets(vs, ws, x)
  BY <1>7, <1>8, <1>9 DEF Meets
<1> QED
  BY <1>10 DEF us

(* A path that is known and was met before does not change.                *)
LEMMA MetMeets ==
  ASSUME NEW vs \in Maps, NEW x \in Paths, vs[x] # None, ~vs[x].fresh
  PROVE  Meets(vs, vs, x)
BY GrowsNot DEF Meets

(* A path that is known and was met before changes.                        *)
LEMMA ChangeMeets ==
  ASSUME NEW vs \in Maps, NEW x \in Paths, vs[x] # None, ~vs[x].fresh, NEW w,
         Keeps(vs[x], w), ~w.fresh
  PROVE  Meets(vs, [vs EXCEPT ![x] = w], x)
<1> DEFINE ws == [vs EXCEPT ![x] = w]
<1>1. w \in Vsizes /\ SameData(vs[x], w)
  BY DEF Keeps
<1>2. Grows(vs, ws) /\ ws[x] = w
  BY <1>1, PathGrows
<1>3. w # None
  BY <1>1, VsizeIsKnown
<1> HIDE DEF ws
<1>4. Meets(vs, ws, x)
  BY <1>2, <1>3 DEF Meets
<1> QED
  BY <1>4 DEF ws

LEMMA KnownIs ==
  ASSUME NEW vs \in Maps, NEW x \in Paths, vs[x] # None
  PROVE  vs[x] \in Vsizes
BY DEF Maps

LEMMA ParentDirIs ==
  ASSUME NEW vs \in Maps, NEW x \in Paths, vs[x] # None
  PROVE  InitParentDir(vs, x)[x] \in Vsizes
<1>1. InitParentDir(vs, x) \in Maps /\ InitParentDir(vs, x)[x] # None
  BY InitParentDirGrows DEF Grows
<1> QED
  BY <1>1, KnownIs

LEMMA StatMeets ==
  ASSUME NEW vs \in Maps, NEW x \in Paths, vs[x] # None
  PROVE  Meets(vs, VsizeStat(vs, x), x)
<1> DEFINE v == InitParentDir(vs, x)[x]
<1>1. Keeps(v, RequiredFileOrDir(v))
  BY ParentDirIs, FileOrDirKeeps
<1>2. CASE vs[x].fresh
  <2>1. VsizeStat(vs, x) =
          [InitParentDir(vs, x) EXCEPT ![x] = Updated(RequiredFileOrDir(v))]
    BY <1>2 DEF VsizeStat, FirstTime
  <2> QED
    BY <1>1, <2>1, FirstTimeMeets
<1>3. CASE ~vs[x].fresh
  <2>1. VsizeStat(vs, x) = vs
    BY <1>3 DEF VsizeStat, FirstTime
  <2> QED
    BY <1>3, <2>1, MetMeets
<1> QED
  BY <1>2, <1>3

LEMMA MkdirMeets ==
  ASSUME NEW vs \in Maps, NEW x \in Paths, vs[x] # None
  PROVE  Meets(vs, VsizeMkdir(vs, x), x)
<1> DEFINE v == InitParentDir(vs, x)[x]
<1>1. Keeps(v, SetDir(v))
  BY ParentDirIs, MacrosKeep DEF Keeps
<1>2. CASE vs[x].fresh
  <2>1. VsizeMkdir(vs, x) = [InitParentDir(vs, x) EXCEPT ![x] = Updated(SetDir(v))]
    BY <1>2 DEF VsizeMkdir, FirstTime
  <2> QED
    BY <1>1, <2>1, FirstTimeMeets
<1>3. CASE ~vs[x].fresh
  <2>1. VsizeMkdir(vs, x) = vs
    BY <1>3 DEF VsizeMkdir, FirstTime
  <2> QED
    BY <1>3, <2>1, MetMeets
<1> QED
  BY <1>2, <1>3

LEMMA RmdirMeets ==
  ASSUME NEW vs \in Maps, NEW x \in Paths, vs[x] # None
  PROVE  Meets(vs, VsizeRmdir(vs, x), x)
<1> DEFINE v == InitParentDir(vs, x)[x]
<1>1. Keeps(v, SetDir(SetRequired(v)))
  <2>1. Keeps(v, SetRequired(v)) /\ SetRequired(v) \in Vsizes
    BY ParentDirIs, MacrosKeep DEF Keeps
  <2>2. Keeps(SetRequired(v), SetDir(SetRequired(v)))
    BY <2>1, MacrosKeep DEF Keeps
  <2> QED
    BY <2>1, <2>2, KeepsOn
<1>2. CASE vs[x].fresh
  <2>1. VsizeRmdir(vs, x) =
          [InitParentDir(vs, x) EXCEPT ![x] = Updated(SetDir(SetRequired(v)))]
    BY <1>2 DEF VsizeRmdir, FirstTime
  <2> QED
    BY <1>1, <2>1, FirstTimeMeets
<1>3. CASE ~vs[x].fresh
  <2>1. VsizeRmdir(vs, x) = vs
    BY <1>3 DEF VsizeRmdir, FirstTime
  <2> QED
    BY <1>3, <2>1, MetMeets
<1> QED
  BY <1>2, <1>3

LEMMA UnlinkMeets ==
  ASSUME NEW vs \in Maps, NEW x \in Paths, vs[x] # None
  PROVE  Meets(vs, VsizeUnlink(vs, x), x)
<1> DEFINE v == InitParentDir(vs, x)[x]
           w == IF v.kind = "dir" THEN SetRequired(v) ELSE RequiredFileOrDir(v)
<1>1. Keeps(v, w)
  <2>1. Keeps(v, SetRequired(v)) /\ Keeps(v, RequiredFileOrDir(v))
    BY ParentDirIs, FileOrDirKeeps, MacrosKeep DEF Keeps
  <2> QED
    BY <2>1
<1>2. CASE vs[x].fresh
  <2>1. VsizeUnlink(vs, x) = [InitParentDir(vs, x) EXCEPT ![x] = Updated(w)]
    BY <1>2 DEF VsizeUnlink, FirstTime
  <2> HIDE DEF w
  <2> QED
    BY <1>1, <2>1, FirstTimeMeets
<1>3. CASE ~vs[x].fresh
  <2>1. VsizeUnlink(vs, x) = vs
    BY <1>3 DEF VsizeUnlink, FirstTime
  <2> QED
    BY <1>3, <2>1, MetMeets
<1> QED
  BY <1>2, <1>3

LEMMA RenameMeets ==
  ASSUME NEW vs \in Maps, NEW x \in Paths, vs[x] # None, NEW y \in Paths
  PROVE  Meets(vs, VsizeRename(vs, x, y), x)
<1> DEFINE us == VsizeStat(vs, x)
           ws == VsizeByPath(us, y)
           v == InitParentDir(ws, y)[y]
<1>1. Meets(vs, us, x) /\ us \in Maps
  BY StatMeets DEF Meets, Grows
<1>2. VsizeRename(vs, x, y) = FirstTime(ws, y, FileOrDir)
  BY DEF VsizeRename, VsizeStat
<1> HIDE DEF us
<1>3. Grows(us, ws) /\ ws[y] # None /\ ws \in Maps
  BY <1>1, ByPathGrows DEF Grows
<1> HIDE DEF ws
<1>4. Keeps(v, FileOrDir(v))
  BY <1>3, ParentDirIs, FileOrDirKeeps
<1>5. Grows(ws, VsizeRename(vs, x, y))
  <2>1. CASE ws[y].fresh
    <3>1. VsizeRename(vs, x, y) = [InitParentDir(ws, y) EXCEPT ![y] = Updated(FileOrDir(v))]
      BY <1>2, <2>1 DEF FirstTime
    <3>2. Meets(ws, VsizeRename(vs, x, y), y)
      BY <1>3, <1>4, <3>1, FirstTimeMeets
    <3> QED
      BY <3>2 DEF Meets
  <2>2. CASE ~ws[y].fresh
    <3>1. VsizeRename(vs, x, y) = ws
      BY <1>2, <2>2 DEF FirstTime
    <3> QED
      BY <1>3, <3>1, GrowsNot
  <2> QED
    BY <2>1, <2>2
<1>6. Grows(us, VsizeRename(vs, x, y))
  BY <1>3, <1>5, GrowsOn
<1> QED
  BY <1>1, <1>6, MeetsBefore

LEMMA SymlinkMeets ==
  ASSUME NEW vs \in Maps, NEW x \in Paths, vs[x] # None
  PROVE  Meets(vs, VsizeSymlink(vs, x), x)
<1> DEFINE us == IF vs[x].fresh THEN InitParentDir(vs, x) ELSE vs
           w == [Updated(SetLink(SetRequired(us[x]))) EXCEPT !.link_target = TRUE]
           ws == [us EXCEPT ![x] = w]
<1>1. VsizeSymlink(vs, x) = ws
  BY DEF VsizeSymlink
<1>2. Grows(vs, us) /\ us \in Maps /\ us[x] # None
  BY InitParentDirGrows, GrowsNot DEF Grows
<1>3. vs[x].fresh => HasParent(us, x)
  BY InitParentDirGrows DEF HasParent
<1>4. ~vs[x].fresh => ~us[x].fresh
  OBVIOUS
<1> HIDE DEF us
<1>5. us[x] \in Vsizes
  BY <1>2, KnownIs
<1>6. SetRequired(us[x]) \in Vsizes /\ SameData(us[x], SetRequired(us[x]))
  BY <1>5, MacrosKeep
<1>7. /\ SetLink(SetRequired(us[x])) \in Vsizes
      /\ SameData(us[x], SetLink(SetRequired(us[x])))
  BY <1>6, MacrosKeep DEF SameData
<1> DEFINE u == Updated(SetLink(SetRequired(us[x])))
<1>8. u \in Vsizes /\ SameData(us[x], u) /\ u.fresh = FALSE
  BY <1>7, MacrosKeep DEF SameData
<1>9. w = [u EXCEPT !.link_target = TRUE]
  OBVIOUS
<1> HIDE DEF w, u
<1>10. w \in Vsizes /\ SameData(us[x], w) /\ ~w.fresh
  BY <1>8, <1>9 DEF Vsizes, SameData
<1>11. Grows(us, ws) /\ ws[x] = w
  BY <1>2, <1>3, <1>4, <1>10, PathGrows
<1>12. w # None
  BY <1>10, VsizeIsKnown
<1> HIDE DEF ws
<1>13. Meets(us, ws, x)
  BY <1>10, <1>11, <1>12 DEF Meets
<1> QED
  BY <1>1, <1>2, <1>13, MeetsAfter

LEMMA OpenMeets ==
  ASSUME NEW vs \in Maps, NEW x \in Paths, vs[x] # None,
         NEW flags \in SUBSET {"O_DIRECTORY", "O_CREAT"}
  PROVE  Meets(vs, VsizeOpen(vs, x, flags), x)
<1> DEFINE v == InitParentDir(vs, x)[x]
<1>1. v \in Vsizes
  BY ParentDirIs
<1>2. Keeps(v, SetDir(SetRequired(v))) /\ Keeps(v, RequiredFileOrDir(v)) /\ Keeps(v, v)
  <2> HIDE DEF v
  <2>1. Keeps(v, SetRequired(v)) /\ SetRequired(v) \in Vsizes
    BY <1>1, MacrosKeep DEF Keeps
  <2>2. Keeps(SetRequired(v), SetDir(SetRequired(v)))
    BY <2>1, MacrosKeep DEF Keeps
  <2>3. Keeps(v, v)
    BY <1>1 DEF Keeps, SameData
  <2> QED
    BY <1>1, <2>1, <2>2, <2>3, KeepsOn, FileOrDirKeeps
<1>3. CASE vs[x].fresh
  <2>1. CASE "O_DIRECTORY" \in flags
    <3>1. VsizeOpen(vs, x, flags) =
            [InitParentDir(vs, x) EXCEPT ![x] = Updated(SetDir(SetRequired(v)))]
      BY <1>3, <2>1 DEF VsizeOpen, FirstTime
    <3> QED
      BY <1>2, <3>1, FirstTimeMeets
  <2>2. CASE flags = {}
    <3>1. VsizeOpen(vs, x, flags) =
            [InitParentDir(vs, x) EXCEPT ![x] = Updated(RequiredFileOrDir(v))]
      BY <1>3, <2>2 DEF VsizeOpen, FirstTime
    <3> QED
      BY <1>2, <3>1, FirstTimeMeets
  <2>3. CASE "O_DIRECTORY" \notin flags /\ flags # {}
    <3>1. VsizeOpen(vs, x, flags) = [InitParentDir(vs, x) EXCEPT ![x] = Updated(v)]
      BY <1>3, <2>3 DEF VsizeOpen, FirstTime
    <3> QED
      BY <1>2, <3>1, FirstTimeMeets
  <2> QED
    BY <2>1, <2>2, <2>3
<1>4. CASE ~vs[x].fresh /\ vs[x].unsure /\ "O_DIRECTORY" \in flags
  <2>1. VsizeOpen(vs, x, flags) = [vs EXCEPT ![x] = SetDir(vs[x])]
    BY <1>4 DEF VsizeOpen
  <2> DEFINE w == SetDir(vs[x])
  <2>2. Keeps(vs[x], w) /\ w.fresh = vs[x].fresh
    BY KnownIs, MacrosKeep DEF Keeps
  <2>3. ~w.fresh
    BY <1>4, <2>2
  <2> HIDE DEF w
  <2>4. Meets(vs, [vs EXCEPT ![x] = w], x)
    BY <1>4, <2>2, <2>3, ChangeMeets
  <2> QED
    BY <2>1, <2>4 DEF w
<1>5. CASE ~vs[x].fresh /\ ~(vs[x].unsure /\ "O_DIRECTORY" \in flags)
  <2>1. VsizeOpen(vs, x, flags) = vs
    BY <1>5 DEF VsizeOpen
  <2> QED
    BY <1>5, <2>1, MetMeets
<1> QED
  BY <1>3, <1>4, <1>5

-----------------------------------------------------------------------------
(* What reads and writes make of a path: was holds the bytes that were     *)
(* written or counted before, ask the ones that read_ranges is to cover.   *)
DataIs(v, was, ask) ==
  /\ v \in Vsizes
  /\ IsTree(v.read_ranges) /\ IsTree(v.write_ranges)
  /\ v.bytes >= -1
  /\ v.bytes = -1 => v.read_ranges # NoRanges \/ v.write_ranges # NoRanges
  /\ 0 .. v.bytes - 1 \subseteq was
  /\ Covered(v.write_ranges) \subseteq was
  /\ v.read_ranges # NoRanges =>
       Covered(v.read_ranges) # {} /\ Covered(v.read_ranges) = ask

(* What was read behind a hole must exist; a tree of written ranges is     *)
(* only made by a write.                                                   *)
UsedIs(v, wrote) ==
  /\ v.read_ranges # NoRanges => v.required
  /\ v.write_ranges # NoRanges => wrote # {}

LEMMA SameUsed ==
  ASSUME NEW v, NEW w, NEW wrote, UsedIs(v, wrote), SameData(v, w)
  PROVE  UsedIs(w, wrote)
BY DEF UsedIs, SameData

LEMMA NewUsed ==
  ASSUME NEW wrote
  PROVE  UsedIs(NewVsize, wrote)
BY NewVsizeIs DEF UsedIs, NoRanges

LEMMA VsizeFields ==
  ASSUME NEW v \in Vsizes
  PROVE  /\ v.fresh \in BOOLEAN /\ v.required \in BOOLEAN /\ v.bytes \in Int
         /\ v.read_ranges \in Trees /\ v.write_ranges \in Trees
BY DEF Vsizes

LEMMA SameDataIs ==
  ASSUME NEW v, NEW w \in Vsizes, NEW was, NEW ask, DataIs(v, was, ask), SameData(v, w)
  PROVE  DataIs(w, was, ask)
BY DEF DataIs, SameData

LEMMA MoreData ==
  ASSUME NEW v, NEW was, NEW more, NEW ask, DataIs(v, was, ask)
  PROVE  DataIs(v, was \cup more, ask)
BY DEF DataIs

LEMMA NewData ==
  ASSUME NEW was, NEW ask
  PROVE  DataIs(NewVsize, was, ask)
<1>1. IsTree(EmptyTree) /\ DOMAIN EmptyTree = {}
  BY EmptyTreeIs
<1> HIDE DEF EmptyTree
<1>2. Covered(EmptyTree) = {}
  BY <1>1 DEF Covered
<1>3. NoRanges = EmptyTree
  BY DEF NoRanges
<1>4. 0 .. NewVsize.bytes - 1 = {} /\ NewVsize.bytes >= -1 /\ NewVsize.bytes # -1
  BY NewVsizeIs
<1> QED
  BY <1>1, <1>2, <1>3, <1>4, NewVsizeIs DEF DataIs

(* Of a path without a tree bytes may become more, not beyond the bytes.   *)
LEMMA BytesData ==
  ASSUME NEW v, NEW was, NEW ask, DataIs(v, was, ask),
         NEW offset \in Nat, NEW bytes \in Nat \ {0},
         offset <= v.bytes \/ offset = 0
  PROVE  DataIs([v EXCEPT !.bytes = bytes], was \cup BytesFrom(offset, bytes), ask)
<1> DEFINE w == [v EXCEPT !.bytes = bytes]
<1>1. /\ v \in Vsizes /\ v.bytes \in Int /\ v.bytes >= -1 /\ 0 .. v.bytes - 1 \subseteq was
  BY VsizeFields DEF DataIs
<1>2. /\ w \in Vsizes /\ w.bytes = bytes
      /\ w.read_ranges = v.read_ranges /\ w.write_ranges = v.write_ranges
  BY <1>1 DEF Vsizes
<1> HIDE DEF w
<1>3. 0 .. bytes - 1 \subseteq was \cup BytesFrom(offset, bytes)
  <2> SUFFICES ASSUME NEW i \in 0 .. bytes - 1 PROVE i \in was \cup BytesFrom(offset, bytes)
    OBVIOUS
  <2>1. CASE i < offset
    <3>1. i \in 0 .. v.bytes - 1
      BY <1>1, <2>1
    <3> QED
      BY <1>1, <3>1
  <2>2. CASE i >= offset
    <3>1. i \in offset .. offset + bytes - 1
      BY <2>2
    <3> QED
      BY <3>1 DEF BytesFrom
  <2> QED
    BY <2>1, <2>2
<1>4. w.bytes >= -1 /\ w.bytes # -1
  BY <1>2
<1>5. Covered(w.write_ranges) \subseteq was \cup BytesFrom(offset, bytes)
  BY <1>2 DEF DataIs
<1>6. DataIs(w, was \cup BytesFrom(offset, bytes), ask)
  BY <1>2, <1>3, <1>4, <1>5 DEF DataIs
<1> QED
  BY <1>6 DEF w

(* The first hole: the tree covers what was there before, and the range.   *)
LEMMA FirstHole ==
  ASSUME NEW data \in Int, NEW offset \in Nat, NEW bytes \in Nat \ {0}
  PROVE  LET b == EnsureRange(InsertElem(EmptyTree, 0, data), offset, offset + bytes) IN
         /\ IsTree(b) /\ b # NoRanges
         /\ Covered(b) = BytesFrom(0, data) \cup BytesFrom(offset, bytes)
<1> DEFINE a == InsertElem(EmptyTree, 0, data)
<1>1. IsTree(a) /\ Covered(a) = 0 .. data - 1
  BY InsertFirstIs
<1> HIDE DEF a
<1>2. offset \in Int /\ offset + bytes \in Int /\ offset < offset + bytes
  OBVIOUS
<1>3. /\ IsTree(EnsureRange(a, offset, offset + bytes))
      /\ EnsureRange(a, offset, offset + bytes) # EmptyTree
      /\ Covered(EnsureRange(a, offset, offset + bytes))
           = Covered(a) \cup (offset .. offset + bytes - 1)
  BY <1>1, <1>2, EnsureRangeIs
<1>4. 0 + data - 1 = data - 1
  OBVIOUS
<1> QED
  BY <1>1, <1>3, <1>4 DEF a, BytesFrom, NoRanges

LEMMA MoreRange ==
  ASSUME NEW b, IsTree(b), NEW offset \in Nat, NEW bytes \in Nat \ {0}
  PROVE  /\ IsTree(EnsureRange(b, offset, offset + bytes))
         /\ EnsureRange(b, offset, offset + bytes) # NoRanges
         /\ Covered(EnsureRange(b, offset, offset + bytes))
              = Covered(b) \cup BytesFrom(offset, bytes)
<1>1. offset \in Int /\ offset + bytes \in Int /\ offset < offset + bytes
  OBVIOUS
<1> QED
  BY <1>1, EnsureRangeIs DEF BytesFrom, NoRanges

LEMMA BytesNotEmpty ==
  ASSUME NEW offset \in Nat, NEW bytes \in Nat \ {0}
  PROVE  offset \in BytesFrom(offset, bytes)
BY DEF BytesFrom

(* A path with a new tree, or with another size.                           *)
LEMMA NewReadRanges ==
  ASSUME NEW v \in Vsizes, NEW b \in Trees
  PROVE  LET w == [v EXCEPT !.read_ranges = b] IN
         /\ w \in Vsizes /\ w.bytes = v.bytes
         /\ w.read_ranges = b /\ w.write_ranges = v.write_ranges
BY DEF Vsizes

LEMMA NewWriteRanges ==
  ASSUME NEW v \in Vsizes, NEW b \in Trees
  PROVE  LET w == [v EXCEPT !.write_ranges = b] IN
         /\ w \in Vsizes /\ w.bytes = v.bytes
         /\ w.read_ranges = v.read_ranges /\ w.write_ranges = b
BY DEF Vsizes

LEMMA NewBytes ==
  ASSUME NEW v \in Vsizes, NEW bytes \in Int
  PROVE  LET w == [v EXCEPT !.bytes = bytes] IN
         /\ w \in Vsizes /\ w.bytes = bytes
         /\ w.read_ranges = v.read_ranges /\ w.write_ranges = v.write_ranges
BY DEF Vsizes

(* vsize_ensure_data_range for a read.                                   *)
LEMMA ReadData ==
  ASSUME NEW v, NEW was, NEW ask, DataIs(v, was, ask),
         NEW offset \in Nat, NEW bytes \in Nat \ {0}
  PROVE  DataIs(EnsureDataRange(v, "read_ranges", offset, bytes),
                was \cup BytesFrom(offset, bytes),
                AskedOf(v, "read_ranges", ask, offset, bytes))
<1> DEFINE w == EnsureDataRange(v, "read_ranges", offset, bytes)
           after == was \cup BytesFrom(offset, bytes)
           asks == AskedOf(v, "read_ranges", ask, offset, bytes)
<1> SUFFICES DataIs(w, after, asks)
  OBVIOUS
<1>1. /\ v \in Vsizes /\ v.bytes \in Int /\ v.bytes >= -1
      /\ 0 .. v.bytes - 1 \subseteq was /\ Covered(v.write_ranges) \subseteq was
      /\ IsTree(v.write_ranges) /\ IsTree(v.read_ranges)
      /\ HoleBytes \in Nat
  BY VsizeFields, SizesAssumption DEF DataIs
<1>2. CASE v.read_ranges # NoRanges
  <2> DEFINE b == EnsureRange(v.read_ranges, offset, offset + bytes)
  <2>1. w = [v EXCEPT !.read_ranges = b] /\ asks = ask \cup BytesFrom(offset, bytes)
    BY <1>2 DEF EnsureDataRange, AskedOf
  <2>2. /\ IsTree(b) /\ b # NoRanges
        /\ Covered(b) = Covered(v.read_ranges) \cup BytesFrom(offset, bytes)
    BY <1>1, MoreRange
  <2> HIDE DEF b, w
  <2>3. b \in Trees
    BY <2>2 DEF IsTree
  <2>4. /\ w \in Vsizes /\ w.bytes = v.bytes
        /\ w.read_ranges = b /\ w.write_ranges = v.write_ranges
    BY <1>1, <2>1, <2>3, NewReadRanges
  <2>5. Covered(b) = asks /\ Covered(b) # {}
    BY <1>2, <2>1, <2>2, BytesNotEmpty DEF DataIs
  <2> HIDE DEF asks
  <2>6. 0 .. w.bytes - 1 \subseteq after /\ Covered(w.write_ranges) \subseteq after
    BY <1>1, <2>4
  <2>7. w.bytes >= -1 /\ IsTree(w.read_ranges) /\ IsTree(w.write_ranges)
    BY <1>1, <2>2, <2>4
  <2>8. /\ w.read_ranges # NoRanges /\ Covered(w.read_ranges) # {}
        /\ Covered(w.read_ranges) = asks
    BY <2>2, <2>4, <2>5
  <2> QED
    BY <2>4, <2>6, <2>7, <2>8 DEF DataIs
<1>3. CASE v.read_ranges = NoRanges /\ ~(offset > 0 /\ offset > v.bytes)
  <2>1. asks = ask
    BY <1>3 DEF AskedOf
  <2>2. w = v \/ w = [v EXCEPT !.bytes = bytes]
    <3>1. CASE offset = 0
      <4>1. w = IF v.bytes + HoleBytes < bytes THEN [v EXCEPT !.bytes = bytes] ELSE v
        BY <1>3, <3>1 DEF EnsureDataRange
      <4> HIDE DEF w
      <4> QED
        BY <4>1
    <3>2. CASE offset # 0
      <4>1. offset <= v.bytes
        BY <1>1, <1>3, <3>2
      <4>2. w = IF v.bytes < bytes THEN [v EXCEPT !.bytes = bytes] ELSE v
        BY <1>3, <3>2, <4>1 DEF EnsureDataRange
      <4> HIDE DEF w
      <4> QED
        BY <4>2
    <3> QED
      BY <3>1, <3>2
  <2>3. DataIs(v, after, ask)
    BY MoreData
  <2>4. DataIs([v EXCEPT !.bytes = bytes], after, ask)
    BY <1>1, <1>3, BytesData
  <2> HIDE DEF w, asks
  <2> QED
    BY <2>1, <2>2, <2>3, <2>4
<1>4. CASE v.read_ranges = NoRanges /\ offset > 0 /\ offset > v.bytes
  <2> DEFINE b == EnsureRange(InsertElem(EmptyTree, 0, v.bytes), offset, offset + bytes)
             u == [v EXCEPT !.read_ranges = b]
  <2>1. w = [u EXCEPT !.bytes = -1]
    <3>1. offset # 0 /\ ~(offset <= v.bytes)
      BY <1>1, <1>4
    <3>2. w = [v EXCEPT !.read_ranges = b, !.bytes = -1]
      BY <1>4, <3>1 DEF EnsureDataRange
    <3> HIDE DEF b, w
    <3> QED
      BY <3>2
  <2>2. asks = BytesFrom(0, v.bytes) \cup BytesFrom(offset, bytes)
    BY <1>4 DEF AskedOf
  <2>3. /\ IsTree(b) /\ b # NoRanges
        /\ Covered(b) = BytesFrom(0, v.bytes) \cup BytesFrom(offset, bytes)
    BY <1>1, FirstHole
  <2> HIDE DEF b, w
  <2>4. b \in Trees
    BY <2>3 DEF IsTree
  <2>5. /\ u \in Vsizes /\ u.bytes = v.bytes
        /\ u.read_ranges = b /\ u.write_ranges = v.write_ranges
    BY <1>1, <2>4, NewReadRanges
  <2> HIDE DEF u
  <2>6. /\ w \in Vsizes /\ w.bytes = -1
        /\ w.read_ranges = b /\ w.write_ranges = v.write_ranges
    BY <2>1, <2>5, NewBytes
  <2>7. Covered(b) # {} /\ Covered(b) = asks
    BY <2>2, <2>3, BytesNotEmpty
  <2> HIDE DEF asks
  <2>8. 0 .. w.bytes - 1 \subseteq after /\ Covered(w.write_ranges) \subseteq after
    BY <1>1, <2>6
  <2>9. w.bytes >= -1 /\ IsTree(w.read_ranges) /\ IsTree(w.write_ranges)
    BY <1>1, <2>3, <2>6
  <2>10. /\ w.read_ranges # NoRanges /\ Covered(w.read_ranges) # {}
         /\ Covered(w.read_ranges) = asks
    BY <2>3, <2>6, <2>7
  <2> QED
    BY <2>6, <2>8, <2>9, <2>10 DEF DataIs
<1> QED
  BY <1>2, <1>3, <1>4

(* vsize_ensure_data_range for a write.                                  *)
LEMMA WriteData ==
  ASSUME NEW v, NEW was, NEW ask, DataIs(v, was, ask),
         NEW offset \in Nat, NEW bytes \in Nat \ {0}
  PROVE  DataIs(EnsureDataRange(v, "write_ranges", offset, bytes),
                was \cup BytesFrom(offset, bytes),
                ask)
<1> DEFINE w == EnsureDataRange(v, "write_ranges", offset, bytes)
           after == was \cup BytesFrom(offset, bytes)
           asks == ask
<1> SUFFICES DataIs(w, after, asks)
  OBVIOUS
<1>1. /\ v \in Vsizes /\ v.bytes \in Int /\ v.bytes >= -1
      /\ 0 .. v.bytes - 1 \subseteq was /\ Covered(v.write_ranges) \subseteq was
      /\ IsTree(v.write_ranges) /\ IsTree(v.read_ranges)
      /\ HoleBytes \in Nat
  BY VsizeFields, SizesAssumption DEF DataIs
<1>2. CASE v.write_ranges # NoRanges
  <2> DEFINE b == EnsureRange(v.write_ranges, offset, offset + bytes)
  <2>1. w = [v EXCEPT !.write_ranges = b]
    BY <1>2 DEF EnsureDataRange
  <2>2. /\ IsTree(b) /\ b # NoRanges
        /\ Covered(b) = Covered(v.write_ranges) \cup BytesFrom(offset, bytes)
    BY <1>1, MoreRange
  <2> HIDE DEF b, w
  <2>3. b \in Trees
    BY <2>2 DEF IsTree
  <2>4. /\ w \in Vsizes /\ w.bytes = v.bytes
        /\ w.read_ranges = v.read_ranges /\ w.write_ranges = b
    BY <1>1, <2>1, <2>3, NewWriteRanges
  <2>5. Covered(b) \subseteq after /\ 0 .. v.bytes - 1 \subseteq after
    BY <1>1, <2>2
  <2> HIDE DEF after
  <2>6. 0 .. w.bytes - 1 \subseteq after /\ Covered(w.write_ranges) \subseteq after
    BY <2>4, <2>5
  <2>7. w.bytes >= -1 /\ IsTree(w.read_ranges) /\ IsTree(w.write_ranges)
    BY <1>1, <2>2, <2>4
  <2>8. w.write_ranges # NoRanges
    BY <2>2, <2>4
  <2>9. w.read_ranges # NoRanges =>
          Covered(w.read_ranges) # {} /\ Covered(w.read_ranges) = ask
    BY <2>4 DEF DataIs
  <2> QED
    BY <2>4, <2>6, <2>7, <2>8, <2>9 DEF DataIs
<1>3. CASE v.write_ranges = NoRanges /\ ~(offset > 0 /\ offset > v.bytes)
  <2>1. asks = ask
    OBVIOUS
  <2>2. w = v \/ w = [v EXCEPT !.bytes = bytes]
    <3>1. CASE offset = 0
      <4>1. w = IF v.bytes + HoleBytes < bytes THEN [v EXCEPT !.bytes = bytes] ELSE v
        BY <1>3, <3>1 DEF EnsureDataRange
      <4> HIDE DEF w
      <4> QED
        BY <4>1
    <3>2. CASE offset # 0
      <4>1. offset <= v.bytes
        BY <1>1, <1>3, <3>2
      <4>2. w = IF v.bytes < bytes THEN [v EXCEPT !.bytes = bytes] ELSE v
        BY <1>3, <3>2, <4>1 DEF EnsureDataRange
      <4> HIDE DEF w
      <4> QED
        BY <4>2
    <3> QED
      BY <3>1, <3>2
  <2>3. DataIs(v, after, ask)
    BY MoreData
  <2>4. DataIs([v EXCEPT !.bytes = bytes], after, ask)
    BY <1>1, <1>3, BytesData
  <2> HIDE DEF w, asks
  <2> QED
    BY <2>1, <2>2, <2>3, <2>4
<1>4. CASE v.write_ranges = NoRanges /\ offset > 0 /\ offset > v.bytes
  <2> DEFINE b == EnsureRange(InsertElem(EmptyTree, 0, v.bytes), offset, offset + bytes)
             u == [v EXCEPT !.write_ranges = b]
  <2>1. w = [u EXCEPT !.bytes = -1]
    <3>1. offset # 0 /\ ~(offset <= v.bytes)
      BY <1>1, <1>4
    <3>2. w = [v EXCEPT !.write_ranges = b, !.bytes = -1]
      BY <1>4, <3>1 DEF EnsureDataRange
    <3> HIDE DEF b, w
    <3> QED
      BY <3>2
  <2>2. BytesFrom(0, v.bytes) = 0 .. v.bytes - 1
    BY <1>1 DEF BytesFrom
  <2>3. /\ IsTree(b) /\ b # NoRanges
        /\ Covered(b) = BytesFrom(0, v.bytes) \cup BytesFrom(offset, bytes)
    BY <1>1, FirstHole
  <2> HIDE DEF b, w
  <2>4. b \in Trees
    BY <2>3 DEF IsTree
  <2>5. /\ u \in Vsizes /\ u.bytes = v.bytes
        /\ u.read_ranges = v.read_ranges /\ u.write_ranges = b
    BY <1>1, <2>4, NewWriteRanges
  <2> HIDE DEF u
  <2>6. /\ w \in Vsizes /\ w.bytes = -1
        /\ w.read_ranges = v.read_ranges /\ w.write_ranges = b
    BY <2>1, <2>5, NewBytes
  <2>7. Covered(b) \subseteq after
    BY <1>1, <2>2, <2>3
  <2> HIDE DEF after
  <2>8. 0 .. w.bytes - 1 \subseteq after /\ Covered(w.write_ranges) \subseteq after
    BY <2>6, <2>7
  <2>9. w.bytes >= -1 /\ IsTree(w.read_ranges) /\ IsTree(w.write_ranges)
    BY <1>1, <2>3, <2>6
  <2>10. w.write_ranges # NoRanges
    BY <2>3, <2>6
  <2>11. w.read_ranges # NoRanges =>
           Covered(w.read_ranges) # {} /\ Covered(w.read_ranges) = ask
    BY <2>6 DEF DataIs
  <2> QED
    BY <2>6, <2>8, <2>9, <2>10, <2>11 DEF DataIs
<1> QED
  BY <1>2, <1>3, <1>4

-----------------------------------------------------------------------------
(* The inductive invariant.                                                *)
Opened == [path : Paths, offset : Nat]

TypeInv ==
  /\ vsize \in Maps
  /\ fds \in [Fds -> Opened \cup {None}]
  /\ written \in [Paths -> SUBSET Int] /\ counted \in [Paths -> SUBSET Int]
  /\ skipped \in [Paths -> SUBSET Int] /\ asked \in [Paths -> SUBSET Int]

(* What a path needs of data, before a read that is not counted.           *)
Had(x) == written[x] \cup counted[x]

DataInv ==
  \A x \in Paths :
    /\ vsize[x] # None =>
         DataIs(vsize[x], Had(x), asked[x]) /\ UsedIs(vsize[x], written[x])
    /\ skipped[x] \subseteq Had(x) /\ asked[x] \subseteq Had(x)

(* The path of a descriptor was met when it was opened.                    *)
OpenInv ==
  \A f \in Fds : fds[f] # None =>
    vsize[fds[f].path] # None /\ ~vsize[fds[f].path].fresh

(* Nothing happens after the INIT section was written.                     *)
InitLinesOf(vs) == UNION {InitLines(x, vs[x]) : x \in {y \in Paths : vs[y] # None}}
InitInv == init # None => init[1] = InitLinesOf(vsize)

VsizeInv == TypeInv /\ DataInv /\ OpenInv /\ ParentsIn(vsize) /\ InitInv

LEMMA OpenedIs == None \notin Opened
<1> SUFFICES ASSUME None \in Opened PROVE FALSE
  OBVIOUS
<1>1. "path" \in DOMAIN None
  BY DEF Opened
<1>2. DOMAIN None = {}
  BY DEF None
<1> QED
  BY <1>1, <1>2

LEMMA InitHolds == Init => VsizeInv
<1> SUFFICES ASSUME Init PROVE VsizeInv
  OBVIOUS
<1> USE DEF Init
<1>1. TypeInv
  BY DEF TypeInv, Maps
<1>2. DataInv
  BY DEF DataInv
<1>3. OpenInv
  BY DEF OpenInv
<1>4. ParentsIn(vsize)
  BY DEF ParentsIn
<1>5. InitInv
  BY DEF InitInv
<1> QED
  BY <1>1, <1>2, <1>3, <1>4, <1>5 DEF VsizeInv

(* A step that only makes the map grow, and keeps open what was met.       *)
LEMMA GrowthHolds ==
  ASSUME VsizeInv, Grows(vsize, vsize'), init = None,
         UNCHANGED <<gvars, init>>,
         fds' \in [Fds -> Opened \cup {None}],
         \A f \in Fds : fds'[f] # None =>
           \/ fds[f] # None /\ fds'[f].path = fds[f].path
           \/ vsize'[fds'[f].path] # None /\ ~vsize'[fds'[f].path].fresh
  PROVE  VsizeInv'
<1>1. /\ TypeInv /\ DataInv /\ OpenInv /\ ParentsIn(vsize) /\ InitInv
  BY DEF VsizeInv
<1>2. written' = written /\ counted' = counted /\ skipped' = skipped /\ asked' = asked
  BY DEF gvars
<1>3. vsize' \in Maps
  BY DEF Grows
<1>4. TypeInv'
  BY <1>1, <1>2, <1>3 DEF TypeInv
<1>5. DataInv'
  <2> SUFFICES ASSUME NEW x \in Paths
      PROVE  /\ vsize'[x] # None =>
                  DataIs(vsize'[x], Had(x), asked[x]) /\ UsedIs(vsize'[x], written[x])
             /\ skipped[x] \subseteq Had(x) /\ asked[x] \subseteq Had(x)
    BY <1>2 DEF DataInv, Had
  <2>1. skipped[x] \subseteq Had(x) /\ asked[x] \subseteq Had(x)
    BY <1>1 DEF DataInv
  <2>2. ASSUME vsize'[x] # None
        PROVE  DataIs(vsize'[x], Had(x), asked[x]) /\ UsedIs(vsize'[x], written[x])
    <3>1. vsize'[x] \in Vsizes
      BY <1>3, <2>2, KnownIs
    <3>2. CASE vsize[x] = None
      <4>1. SameData(NewVsize, vsize'[x])
        BY <2>2, <3>2 DEF Grows
      <4> QED
        BY <3>1, <4>1, NewData, SameDataIs, NewUsed, SameUsed
    <3>3. CASE vsize[x] # None
      <4>1. /\ SameData(vsize[x], vsize'[x]) /\ DataIs(vsize[x], Had(x), asked[x])
            /\ UsedIs(vsize[x], written[x])
        BY <1>1, <3>3 DEF Grows, DataInv
      <4> QED
        BY <3>1, <4>1, SameDataIs, SameUsed
    <3> QED
      BY <3>2, <3>3
  <2> QED
    BY <2>1, <2>2
<1>6. OpenInv'
  <2> SUFFICES ASSUME NEW f \in Fds, fds'[f] # None
      PROVE  vsize'[fds'[f].path] # None /\ ~vsize'[fds'[f].path].fresh
    BY DEF OpenInv
  <2>1. CASE fds[f] # None /\ fds'[f].path = fds[f].path
    <3>1. fds[f].path \in Paths
      BY <1>1, <2>1 DEF TypeInv, Opened
    <3>2. vsize[fds[f].path] # None /\ ~vsize[fds[f].path].fresh
      BY <1>1, <2>1 DEF OpenInv
    <3> QED
      BY <2>1, <3>1, <3>2 DEF Grows
  <2>2. CASE vsize'[fds'[f].path] # None /\ ~vsize'[fds'[f].path].fresh
    BY <2>2
  <2> QED
    BY <2>1, <2>2
<1>7. ParentsIn(vsize)'
  <2>1. ParentsIn(vsize')
    BY <1>1 DEF Grows
  <2> QED
    BY <2>1 DEF ParentsIn, HasParent
<1>8. InitInv'
  BY DEF InitInv
<1> QED
  BY <1>4, <1>5, <1>6, <1>7, <1>8 DEF VsizeInv

(* The lines with a path: Op makes ws of the map in which the path is.     *)
LEMMA PathLineHolds ==
  ASSUME VsizeInv, NEW x \in Paths, NEW ws, init = None,
         Meets(VsizeByPath(vsize, x), ws, x),
         vsize' = ws \/ vsize' = VsizeByPath(vsize, x),
         UNCHANGED <<fds, gvars, init>>
  PROVE  VsizeInv'
<1>1. TypeInv
  BY DEF VsizeInv
<1>2. Grows(vsize, VsizeByPath(vsize, x))
  BY <1>1, ByPathGrows DEF TypeInv
<1>3. Grows(vsize, ws)
  BY <1>2, GrowsOn DEF Meets
<1>4. Grows(vsize, vsize')
  BY <1>2, <1>3
<1>5. fds' = fds /\ fds \in [Fds -> Opened \cup {None}] /\ UNCHANGED <<gvars, init>>
  BY <1>1 DEF TypeInv
<1> QED
  BY <1>4, <1>5, GrowthHolds

LEMMA ByPathIs ==
  ASSUME VsizeInv, NEW x \in Paths
  PROVE  VsizeByPath(vsize, x) \in Maps /\ VsizeByPath(vsize, x)[x] # None
BY ByPathGrows DEF VsizeInv, TypeInv, Grows

LEMMA StatHolds == ASSUME VsizeInv, NEW x \in Paths, Stat(x) PROVE VsizeInv'
<1> DEFINE us == VsizeByPath(vsize, x)
<1>1. Meets(us, VsizeStat(us, x), x)
  BY ByPathIs, StatMeets
<1>2. /\ vsize' = VsizeStat(us, x) \/ vsize' = us
      /\ init = None /\ UNCHANGED <<fds, gvars, init>>
  BY DEF Stat, PathLine, Step
<1> QED
  BY <1>1, <1>2, PathLineHolds

LEMMA ReadlinkHolds == ASSUME VsizeInv, NEW x \in Paths, Readlink(x) PROVE VsizeInv'
<1> DEFINE us == VsizeByPath(vsize, x)
<1>1. Meets(us, VsizeStat(us, x), x) /\ Meets(us, VsizeSymlink(us, x), x)
  BY ByPathIs, StatMeets, SymlinkMeets
<1>2. /\ vsize' = VsizeStat(us, x) \/ vsize' = VsizeSymlink(us, x) \/ vsize' = us
      /\ init = None /\ UNCHANGED <<fds, gvars, init>>
  BY DEF Readlink, PathLine, Step
<1> QED
  BY <1>1, <1>2, PathLineHolds

LEMMA MkdirHolds == ASSUME VsizeInv, NEW x \in Paths, Mkdir(x) PROVE VsizeInv'
<1> DEFINE us == VsizeByPath(vsize, x)
<1>1. Meets(us, VsizeMkdir(us, x), x)
  BY ByPathIs, MkdirMeets
<1>2. /\ vsize' = VsizeMkdir(us, x) \/ vsize' = us
      /\ init = None /\ UNCHANGED <<fds, gvars, init>>
  BY DEF Mkdir, PathLine, Step
<1> QED
  BY <1>1, <1>2, PathLineHolds

LEMMA RmdirHolds == ASSUME VsizeInv, NEW x \in Paths, Rmdir(x) PROVE VsizeInv'
<1> DEFINE us == VsizeByPath(vsize, x)
<1>1. Meets(us, VsizeRmdir(us, x), x)
  BY ByPathIs, RmdirMeets
<1>2. /\ vsize' = VsizeRmdir(us, x) \/ vsize' = us
      /\ init = None /\ UNCHANGED <<fds, gvars, init>>
  BY DEF Rmdir, PathLine, Step
<1> QED
  BY <1>1, <1>2, PathLineHolds

LEMMA UnlinkHolds == ASSUME VsizeInv, NEW x \in Paths, Unlink(x) PROVE VsizeInv'
<1> DEFINE us == VsizeByPath(vsize, x)
<1>1. Meets(us, VsizeUnlink(us, x), x)
  BY ByPathIs, UnlinkMeets
<1>2. /\ vsize' = VsizeUnlink(us, x) \/ vsize' = us
      /\ init = None /\ UNCHANGED <<fds, gvars, init>>
  BY DEF Unlink, PathLine, Step
<1> QED
  BY <1>1, <1>2, PathLineHolds

LEMMA RenameHolds ==
  ASSUME VsizeInv, NEW x \in Paths, NEW y \in Paths, Rename(x, y)
  PROVE  VsizeInv'
<1> DEFINE us == VsizeByPath(vsize, x)
<1>1. Meets(us, VsizeRename(us, x, y), x)
  BY ByPathIs, RenameMeets
<1>2. /\ vsize' = VsizeRename(us, x, y) \/ vsize' = us
      /\ init = None /\ UNCHANGED <<fds, gvars, init>>
  BY DEF Rename, PathLine, Step
<1> QED
  BY <1>1, <1>2, PathLineHolds

LEMMA OpenHolds ==
  ASSUME VsizeInv, NEW f \in Fds, NEW x \in Paths,
         NEW flags \in SUBSET {"O_DIRECTORY", "O_CREAT"}, Open(f, x, flags)
  PROVE  VsizeInv'
<1> DEFINE us == VsizeByPath(vsize, x)
           ws == VsizeOpen(us, x, flags)
           o == [path |-> x, offset |-> 0]
<1>1. /\ vsize' = ws /\ fds' = [fds EXCEPT ![f] = o]
      /\ init = None /\ UNCHANGED <<gvars, init>>
  BY DEF Open, Step
<1>2. Meets(us, ws, x)
  BY ByPathIs, OpenMeets
<1>3. vsize \in Maps /\ fds \in [Fds -> Opened \cup {None}]
  BY DEF VsizeInv, TypeInv
<1>4. Grows(vsize, us)
  BY <1>3, ByPathGrows
<1> HIDE DEF us, ws
<1>5. Grows(vsize, vsize')
  BY <1>1, <1>2, <1>4, GrowsOn DEF Meets
<1>6. o \in Opened /\ o.path = x
  BY DEF Opened
<1> HIDE DEF o
<1>7. fds' \in [Fds -> Opened \cup {None}] /\ fds'[f] = o
      /\ \A g \in Fds : g # f => fds'[g] = fds[g]
  BY <1>1, <1>3, <1>6
<1>8. ASSUME NEW g \in Fds, fds'[g] # None
      PROVE  \/ fds[g] # None /\ fds'[g].path = fds[g].path
             \/ vsize'[fds'[g].path] # None /\ ~vsize'[fds'[g].path].fresh
  <2>1. CASE g = f
    BY <1>1, <1>2, <1>6, <1>7, <2>1 DEF Meets
  <2>2. CASE g # f
    BY <1>7, <1>8, <2>2
  <2> QED
    BY <2>1, <2>2
<1> QED
  BY <1>1, <1>5, <1>7, <1>8, GrowthHolds

(* A descriptor that is open, and its path.                                *)
LEMMA OpenedPath ==
  ASSUME VsizeInv, NEW f \in Fds, fds[f] # None
  PROVE  /\ fds[f] \in Opened /\ fds[f].path \in Paths /\ fds[f].offset \in Nat
         /\ vsize[fds[f].path] \in Vsizes
         /\ vsize[fds[f].path] # None /\ ~vsize[fds[f].path].fresh
<1>1. fds[f] \in Opened /\ fds[f].path \in Paths /\ fds[f].offset \in Nat
  BY DEF VsizeInv, TypeInv, Opened
<1>2. vsize[fds[f].path] # None /\ ~vsize[fds[f].path].fresh
  BY DEF VsizeInv, OpenInv
<1> QED
  BY <1>1, <1>2, KnownIs DEF VsizeInv, TypeInv

LEMMA CloseHolds == ASSUME VsizeInv, NEW f \in Fds, Close(f) PROVE VsizeInv'
<1> DEFINE x == fds[f].path
           w == Updated(vsize[x])
<1>1. /\ fds[f] # None /\ init = None /\ UNCHANGED <<gvars, init>>
      /\ vsize' = [VsizeByPath(vsize, x) EXCEPT ![x] = Updated(@)]
      /\ fds' = [fds EXCEPT ![f] = None]
  BY DEF Close, Step
<1>2. x \in Paths /\ vsize[x] \in Vsizes /\ vsize[x] # None /\ ~vsize[x].fresh
  BY <1>1, OpenedPath
<1>3. vsize \in Maps /\ fds \in [Fds -> Opened \cup {None}]
  BY DEF VsizeInv, TypeInv
<1>4. vsize' = [vsize EXCEPT ![x] = w]
  BY <1>1, <1>2 DEF VsizeByPath
<1>5. Keeps(vsize[x], w) /\ ~w.fresh
  BY <1>2, MacrosKeep DEF Keeps
<1> HIDE DEF x, w
<1>6. Grows(vsize, vsize')
  BY <1>2, <1>3, <1>4, <1>5, ChangeMeets DEF Meets
<1>7. /\ fds' \in [Fds -> Opened \cup {None}]
      /\ \A g \in Fds : fds'[g] = None \/ fds'[g] = fds[g]
  BY <1>1, <1>3
<1>8. \A g \in Fds : fds'[g] # None => fds[g] # None /\ fds'[g].path = fds[g].path
  BY <1>7
<1> QED
  BY <1>1, <1>6, <1>7, <1>8, GrowthHolds

LEMMA SeekHolds ==
  ASSUME VsizeInv, NEW f \in Fds, NEW n \in Nat, Seek(f, n)
  PROVE  VsizeInv'
<1> DEFINE x == fds[f].path
           w == Updated(vsize[x])
<1>1. /\ fds[f] # None /\ init = None /\ UNCHANGED <<gvars, init>>
      /\ vsize' = [vsize EXCEPT ![x] = Updated(@)]
      /\ fds' = [fds EXCEPT ![f].offset = n]
  BY DEF Seek, Step
<1>2. /\ x \in Paths /\ vsize[x] \in Vsizes /\ vsize[x] # None /\ ~vsize[x].fresh
      /\ fds[f] \in Opened
  BY <1>1, OpenedPath
<1>3. vsize \in Maps /\ fds \in [Fds -> Opened \cup {None}]
  BY DEF VsizeInv, TypeInv
<1>4. vsize' = [vsize EXCEPT ![x] = w]
  BY <1>1, <1>2
<1>5. Keeps(vsize[x], w) /\ ~w.fresh
  BY <1>2, MacrosKeep DEF Keeps
<1>6. [fds[f] EXCEPT !.offset = n] \in Opened /\ [fds[f] EXCEPT !.offset = n].path = x
  BY <1>2 DEF Opened
<1> DEFINE o == [fds[f] EXCEPT !.offset = n]
<1>7. fds' = [fds EXCEPT ![f] = o]
  BY <1>1
<1> HIDE DEF o, w
<1>8. /\ fds' \in [Fds -> Opened \cup {None}] /\ fds'[f] = o
      /\ \A g \in Fds : g # f => fds'[g] = fds[g]
  BY <1>3, <1>6, <1>7 DEF o
<1>9. \A g \in Fds : fds'[g] # None => fds[g] # None /\ fds'[g].path = fds[g].path
  BY <1>1, <1>6, <1>8 DEF o
<1> HIDE DEF x
<1>10. Grows(vsize, vsize')
  BY <1>2, <1>3, <1>4, <1>5, ChangeMeets DEF Meets
<1> QED
  BY <1>1, <1>8, <1>9, <1>10, GrowthHolds

(* A step that makes w of the data of an open file.                        *)
LEMMA DataStepHolds ==
  ASSUME VsizeInv, NEW f \in Fds, fds[f] # None, NEW x \in Paths, x = fds[f].path,
         NEW w \in Vsizes, ~w.fresh, NEW n \in Nat, init = None, init' = init,
         vsize' = [vsize EXCEPT ![x] = w],
         fds' = [fds EXCEPT ![f].offset = n],
         written' \in [Paths -> SUBSET Int], counted' \in [Paths -> SUBSET Int],
         skipped' \in [Paths -> SUBSET Int], asked' \in [Paths -> SUBSET Int],
         DataIs(w, written'[x] \cup counted'[x], asked'[x]), UsedIs(w, written'[x]),
         skipped'[x] \subseteq written'[x] \cup counted'[x],
         asked'[x] \subseteq written'[x] \cup counted'[x],
         \A y \in Paths : y # x =>
           /\ written'[y] = written[y] /\ counted'[y] = counted[y]
           /\ skipped'[y] = skipped[y] /\ asked'[y] = asked[y]
  PROVE  VsizeInv'
<1>1. /\ TypeInv /\ DataInv /\ OpenInv /\ ParentsIn(vsize) /\ InitInv
  BY DEF VsizeInv
<1>2. /\ fds[f] \in Opened /\ vsize[x] # None /\ ~vsize[x].fresh
  BY OpenedPath
<1>3. w # None
  BY VsizeIsKnown
<1>4. /\ vsize' \in Maps /\ vsize'[x] = w
      /\ \A y \in Paths : y # x => vsize'[y] = vsize[y]
  BY <1>1 DEF TypeInv, Maps
<1> DEFINE o == [fds[f] EXCEPT !.offset = n]
<1>5. o \in Opened /\ o.path = x
  BY <1>2 DEF Opened
<1>6. fds' = [fds EXCEPT ![f] = o]
  OBVIOUS
<1> HIDE DEF o
<1>7. /\ fds' \in [Fds -> Opened \cup {None}] /\ fds'[f] = o
      /\ \A g \in Fds : g # f => fds'[g] = fds[g]
  BY <1>1, <1>5, <1>6 DEF TypeInv
<1>8. TypeInv'
  BY <1>4, <1>7 DEF TypeInv
<1>9. DataInv'
  <2> SUFFICES ASSUME NEW y \in Paths
      PROVE  /\ vsize'[y] # None =>
                  /\ DataIs(vsize'[y], written'[y] \cup counted'[y], asked'[y])
                  /\ UsedIs(vsize'[y], written'[y])
             /\ skipped'[y] \subseteq written'[y] \cup counted'[y]
             /\ asked'[y] \subseteq written'[y] \cup counted'[y]
    BY DEF DataInv, Had
  <2>1. CASE y = x
    BY <1>4, <2>1
  <2>2. CASE y # x
    <3>1. /\ vsize[y] # None =>
               /\ DataIs(vsize[y], written[y] \cup counted[y], asked[y])
               /\ UsedIs(vsize[y], written[y])
          /\ skipped[y] \subseteq written[y] \cup counted[y]
          /\ asked[y] \subseteq written[y] \cup counted[y]
      BY <1>1 DEF DataInv, Had
    <3>2. /\ vsize'[y] = vsize[y] /\ written'[y] = written[y] /\ counted'[y] = counted[y]
          /\ skipped'[y] = skipped[y] /\ asked'[y] = asked[y]
      BY <1>4, <2>2
    <3> QED
      BY <3>1, <3>2
  <2> QED
    BY <2>1, <2>2
<1>10. \A y \in Paths : vsize[y] # None =>
         vsize'[y] # None /\ (~vsize[y].fresh => ~vsize'[y].fresh)
  BY <1>3, <1>4
<1>11. OpenInv'
  <2> SUFFICES ASSUME NEW g \in Fds, fds'[g] # None
      PROVE  vsize'[fds'[g].path] # None /\ ~vsize'[fds'[g].path].fresh
    BY DEF OpenInv
  <2>1. fds[g] # None /\ fds'[g].path = fds[g].path
    BY <1>5, <1>7
  <2>2. fds[g].path \in Paths /\ vsize[fds[g].path] # None /\ ~vsize[fds[g].path].fresh
    BY <2>1, OpenedPath
  <2> QED
    BY <1>10, <2>1, <2>2
<1>12. ParentsIn(vsize)'
  <2> SUFFICES ASSUME NEW y \in Paths, vsize'[y] # None, ~vsize'[y].fresh
      PROVE  HasParent(vsize', y)
    BY DEF ParentsIn, HasParent
  <2>1. HasParent(vsize, y)
    BY <1>1, <1>2, <1>4 DEF ParentsIn
  <2> QED
    BY <1>10, <2>1, ParentAssumption DEF HasParent
<1>13. InitInv'
  BY DEF InitInv
<1> QED
  BY <1>8, <1>9, <1>11, <1>12, <1>13 DEF VsizeInv

LEMMA BytesAreInts ==
  ASSUME NEW offset \in Int, NEW bytes \in Int
  PROVE  BytesFrom(offset, bytes) \in SUBSET Int
BY DEF BytesFrom

(* One path of a table of bytes changes.                                   *)
LEMMA TableChange ==
  ASSUME NEW t \in [Paths -> SUBSET Int], NEW x \in Paths, NEW S \in SUBSET Int
  PROVE  /\ [t EXCEPT ![x] = S] \in [Paths -> SUBSET Int]
         /\ [t EXCEPT ![x] = S][x] = S
         /\ \A y \in Paths : y # x => [t EXCEPT ![x] = S][y] = t[y]
OBVIOUS

(* The bytes that a read asks for were there before, or are read now.      *)
LEMMA AskedData ==
  ASSUME NEW v, NEW was, NEW ask, DataIs(v, was, ask), ask \subseteq was,
         NEW offset \in Nat, NEW bytes \in Nat \ {0}
  PROVE  AskedOf(v, "read_ranges", ask, offset, bytes)
           \subseteq was \cup BytesFrom(offset, bytes)
<1>1. v.bytes \in Int /\ 0 .. v.bytes - 1 \subseteq was
  BY VsizeFields DEF DataIs
<1>2. BytesFrom(0, v.bytes) = 0 .. v.bytes - 1
  BY <1>1 DEF BytesFrom
<1> QED
  BY <1>1, <1>2 DEF AskedOf

(* A read changes nothing of the ranges that were written, and a write     *)
(* nothing of those that were read.                                        *)
LEMMA ReadKeepsWritten ==
  ASSUME NEW v \in Vsizes, NEW offset, NEW bytes
  PROVE  EnsureDataRange(v, "read_ranges", offset, bytes).write_ranges = v.write_ranges
BY DEF EnsureDataRange, Vsizes

LEMMA WriteKeepsRead ==
  ASSUME NEW v \in Vsizes, NEW offset, NEW bytes
  PROVE  LET w == EnsureDataRange(v, "write_ranges", offset, bytes) IN
         w.read_ranges = v.read_ranges /\ w.required = v.required
BY DEF EnsureDataRange, Vsizes

LEMMA ReadHolds ==
  ASSUME VsizeInv, NEW f \in Fds, NEW n \in Nat \ {0}, Read(f, n)
  PROVE  VsizeInv'
<1> DEFINE x == fds[f].path
           offset == fds[f].offset
           v == vsize[x]
           now == BytesFrom(offset, n)
           w == VsizeRead(v, offset, n)
           known == WrittenBefore(v, offset, n)
           asks == AskedOf(v, "read_ranges", asked[x], offset, n)
<1>1. /\ fds[f] # None /\ init = None /\ init' = init /\ written' = written
      /\ vsize' = [vsize EXCEPT ![x] = w]
      /\ fds' = [fds EXCEPT ![f].offset = offset + n]
      /\ counted' = IF known THEN counted ELSE [counted EXCEPT ![x] = counted[x] \cup now]
      /\ skipped' = IF known THEN [skipped EXCEPT ![x] = skipped[x] \cup now] ELSE skipped
      /\ asked' = IF known THEN asked ELSE [asked EXCEPT ![x] = asks]
  BY DEF Read, Step
<1>2. /\ x \in Paths /\ offset \in Nat /\ v \in Vsizes /\ v # None /\ ~v.fresh
  BY <1>1, OpenedPath
<1>3. /\ written \in [Paths -> SUBSET Int] /\ counted \in [Paths -> SUBSET Int]
      /\ skipped \in [Paths -> SUBSET Int] /\ asked \in [Paths -> SUBSET Int]
      /\ DataIs(v, written[x] \cup counted[x], asked[x]) /\ UsedIs(v, written[x])
      /\ skipped[x] \subseteq written[x] \cup counted[x]
      /\ asked[x] \subseteq written[x] \cup counted[x]
  BY <1>2 DEF VsizeInv, TypeInv, DataInv, Had
<1>4. now \in SUBSET Int /\ BytesFrom(0, v.bytes) \in SUBSET Int
  BY <1>2, BytesAreInts, VsizeFields
<1>5. asks \in SUBSET Int
  BY <1>2, <1>3, <1>4 DEF AskedOf
<1>6. CASE known
  <2>1. w = Updated(v)
    BY <1>6 DEF VsizeRead
  <2>2. w \in Vsizes /\ SameData(v, w) /\ ~w.fresh
    BY <1>2, <2>1, MacrosKeep
  <2>3. now \subseteq written[x] \cup counted[x]
    <3>1. HasRange(v.write_ranges, offset, offset + n)
      BY <1>6 DEF WrittenBefore
    <3>2. v.write_ranges \in Trees /\ offset \in Int /\ offset + n \in Int
      BY <1>2, VsizeFields
    <3>3. offset .. offset + n - 1 \subseteq Covered(v.write_ranges)
      BY <3>1, <3>2, HasRangeIs
    <3> QED
      BY <1>3, <3>3 DEF DataIs, BytesFrom
  <2>4. DataIs(w, written[x] \cup counted[x], asked[x]) /\ UsedIs(w, written[x])
    BY <1>3, <2>2, SameDataIs, SameUsed
  <2> HIDE DEF now, w, known, v, asks
  <2>5. counted' = counted /\ asked' = asked
        /\ skipped' = [skipped EXCEPT ![x] = skipped[x] \cup now]
    BY <1>1, <1>6
  <2>6. skipped[x] \cup now \in SUBSET Int
    BY <1>2, <1>3, <1>4
  <2> HIDE DEF x
  <2>7. /\ skipped' \in [Paths -> SUBSET Int] /\ skipped'[x] = skipped[x] \cup now
        /\ \A y \in Paths : y # x => skipped'[y] = skipped[y]
    BY <1>2, <1>3, <2>5, <2>6, TableChange
  <2>8. /\ skipped'[x] \subseteq written'[x] \cup counted'[x]
        /\ asked'[x] \subseteq written'[x] \cup counted'[x]
    BY <1>1, <1>3, <2>3, <2>5, <2>7
  <2>9. DataIs(w, written'[x] \cup counted'[x], asked'[x]) /\ UsedIs(w, written'[x])
    BY <1>1, <2>4, <2>5
  <2>10. x = fds[f].path
    BY DEF x
  <2>11. offset + n \in Nat
    BY <1>2
  <2> HIDE DEF offset
  <2>12. /\ x \in Paths /\ w \in Vsizes /\ ~w.fresh /\ fds[f] # None
         /\ vsize' = [vsize EXCEPT ![x] = w]
         /\ fds' = [fds EXCEPT ![f].offset = offset + n]
         /\ init = None /\ init' = init
    BY <1>1, <1>2, <2>2
  <2>13. /\ written' \in [Paths -> SUBSET Int] /\ counted' \in [Paths -> SUBSET Int]
         /\ skipped' \in [Paths -> SUBSET Int] /\ asked' \in [Paths -> SUBSET Int]
         /\ \A y \in Paths : y # x =>
              /\ written'[y] = written[y] /\ counted'[y] = counted[y]
              /\ skipped'[y] = skipped[y] /\ asked'[y] = asked[y]
    BY <1>1, <1>3, <2>5, <2>7
  <2> QED
    BY <2>8, <2>9, <2>10, <2>11, <2>12, <2>13, DataStepHolds
<1>7. CASE ~known
  <2> DEFINE u == EnsureDataRange(v, "read_ranges", offset, n)
  <2>1. w = Updated(SetFile(SetRequired(u)))
    BY <1>7 DEF VsizeRead
  <2>2. DataIs(u, (written[x] \cup counted[x]) \cup now, asks)
    BY <1>2, <1>3, ReadData
  <2>3. u \in Vsizes
    BY <2>2 DEF DataIs
  <2> HIDE DEF u, w
  <2>4. SetRequired(u) \in Vsizes /\ SameData(u, SetRequired(u))
    BY <2>3, MacrosKeep
  <2>5. SetFile(SetRequired(u)) \in Vsizes /\ SameData(u, SetFile(SetRequired(u)))
    BY <2>4, MacrosKeep DEF SameData
  <2>6. w \in Vsizes /\ SameData(u, w) /\ ~w.fresh
    BY <2>1, <2>5, MacrosKeep DEF SameData
  <2>7. DataIs(w, (written[x] \cup counted[x]) \cup now, asks)
    BY <2>2, <2>6, SameDataIs
  <2>19. asks \subseteq (written[x] \cup counted[x]) \cup now
    BY <1>2, <1>3, AskedData
  <2>20. UsedIs(w, written[x])
    <3>1. w.write_ranges = v.write_ranges
      BY <1>2, <2>3, <2>6, ReadKeepsWritten DEF SameData, u
    <3>2. SetRequired(u).required
      BY <2>3 DEF SetRequired, Vsizes
    <3>3. w.required
      BY <2>1, <2>4, <2>5, <3>2, MacrosKeep DEF SameData
    <3> QED
      BY <1>3, <3>1, <3>3 DEF UsedIs
  <2> HIDE DEF now, known, v, asks
  <2>8. /\ skipped' = skipped /\ asked' = [asked EXCEPT ![x] = asks]
        /\ counted' = [counted EXCEPT ![x] = counted[x] \cup now]
    BY <1>1, <1>7
  <2>9. counted[x] \cup now \in SUBSET Int
    BY <1>2, <1>3, <1>4
  <2> HIDE DEF x
  <2>10. /\ counted' \in [Paths -> SUBSET Int] /\ counted'[x] = counted[x] \cup now
         /\ \A y \in Paths : y # x => counted'[y] = counted[y]
    BY <1>2, <1>3, <2>8, <2>9, TableChange
  <2>11. /\ asked' \in [Paths -> SUBSET Int] /\ asked'[x] = asks
         /\ \A y \in Paths : y # x => asked'[y] = asked[y]
    BY <1>2, <1>3, <1>5, <2>8, TableChange
  <2>12. written'[x] \cup counted'[x] = (written[x] \cup counted[x]) \cup now
    BY <1>1, <2>10
  <2>13. /\ skipped'[x] \subseteq written'[x] \cup counted'[x]
         /\ asked'[x] \subseteq written'[x] \cup counted'[x]
    BY <1>3, <2>8, <2>11, <2>12, <2>19
  <2>14. DataIs(w, written'[x] \cup counted'[x], asked'[x]) /\ UsedIs(w, written'[x])
    BY <1>1, <2>7, <2>11, <2>12, <2>20
  <2>15. x = fds[f].path
    BY DEF x
  <2>16. offset + n \in Nat
    BY <1>2
  <2> HIDE DEF offset
  <2>17. /\ x \in Paths /\ w \in Vsizes /\ ~w.fresh /\ fds[f] # None
         /\ vsize' = [vsize EXCEPT ![x] = w]
         /\ fds' = [fds EXCEPT ![f].offset = offset + n]
         /\ init = None /\ init' = init
    BY <1>1, <1>2, <2>6
  <2>18. /\ written' \in [Paths -> SUBSET Int] /\ counted' \in [Paths -> SUBSET Int]
         /\ skipped' \in [Paths -> SUBSET Int] /\ asked' \in [Paths -> SUBSET Int]
         /\ \A y \in Paths : y # x =>
              /\ written'[y] = written[y] /\ counted'[y] = counted[y]
              /\ skipped'[y] = skipped[y] /\ asked'[y] = asked[y]
    BY <1>1, <1>3, <2>8, <2>10, <2>11
  <2> QED
    BY <2>13, <2>14, <2>15, <2>16, <2>17, <2>18, DataStepHolds
<1> QED
  BY <1>6, <1>7

LEMMA WriteHolds ==
  ASSUME VsizeInv, NEW f \in Fds, NEW n \in Nat \ {0}, Write(f, n)
  PROVE  VsizeInv'
<1> DEFINE x == fds[f].path
           offset == fds[f].offset
           v == vsize[x]
           now == BytesFrom(offset, n)
           u == EnsureDataRange(v, "write_ranges", offset, n)
           w == VsizeWrite(v, offset, n)
<1>1. /\ fds[f] # None /\ init = None /\ init' = init
      /\ counted' = counted /\ skipped' = skipped /\ asked' = asked
      /\ vsize' = [vsize EXCEPT ![x] = w]
      /\ fds' = [fds EXCEPT ![f].offset = offset + n]
      /\ written' = [written EXCEPT ![x] = written[x] \cup now]
  BY DEF Write, Step
<1>2. /\ x \in Paths /\ offset \in Nat /\ v \in Vsizes
  BY <1>1, OpenedPath
<1>3. /\ written \in [Paths -> SUBSET Int] /\ counted \in [Paths -> SUBSET Int]
      /\ skipped \in [Paths -> SUBSET Int] /\ asked \in [Paths -> SUBSET Int]
      /\ DataIs(v, written[x] \cup counted[x], asked[x]) /\ UsedIs(v, written[x])
      /\ skipped[x] \subseteq written[x] \cup counted[x]
      /\ asked[x] \subseteq written[x] \cup counted[x]
  BY <1>1, OpenedPath DEF VsizeInv, TypeInv, DataInv, Had
<1>4. now \in SUBSET Int
  BY <1>2, BytesAreInts
<1>5. w = Updated(u)
  BY DEF VsizeWrite
<1>6. DataIs(u, (written[x] \cup counted[x]) \cup now, asked[x])
  BY <1>2, <1>3, WriteData
<1>7. u \in Vsizes
  BY <1>6 DEF DataIs
<1>17. u.read_ranges = v.read_ranges /\ u.required = v.required
  BY <1>2, WriteKeepsRead
<1>18. offset \in now
  BY <1>2, BytesNotEmpty
<1> HIDE DEF u, w
<1>8. w \in Vsizes /\ SameData(u, w) /\ ~w.fresh
  BY <1>5, <1>7, MacrosKeep
<1>9. DataIs(w, (written[x] \cup counted[x]) \cup now, asked[x])
  BY <1>6, <1>8, SameDataIs
<1>19. UsedIs(w, written[x] \cup now)
  BY <1>3, <1>8, <1>17, <1>18 DEF UsedIs, SameData
<1> HIDE DEF now, v
<1>10. written[x] \cup now \in SUBSET Int
  BY <1>2, <1>3, <1>4
<1>11. x = fds[f].path
  OBVIOUS
<1> HIDE DEF x
<1>12. /\ written' \in [Paths -> SUBSET Int] /\ written'[x] = written[x] \cup now
       /\ \A y \in Paths : y # x => written'[y] = written[y]
  BY <1>1, <1>2, <1>3, <1>10, TableChange
<1>13. written'[x] \cup counted'[x] = (written[x] \cup counted[x]) \cup now
  BY <1>1, <1>12
<1>14. /\ skipped'[x] \subseteq written'[x] \cup counted'[x]
       /\ asked'[x] \subseteq written'[x] \cup counted'[x]
  BY <1>1, <1>3, <1>13
<1>15. DataIs(w, written'[x] \cup counted'[x], asked'[x]) /\ UsedIs(w, written'[x])
  BY <1>1, <1>9, <1>12, <1>13, <1>19
<1>16. offset + n \in Nat
  BY <1>2
<1> HIDE DEF offset
<1> QED
  BY <1>1, <1>2, <1>3, <1>8, <1>11, <1>12, <1>14, <1>15, <1>16, DataStepHolds

LEMMA WriteInitHolds == ASSUME VsizeInv, WriteInit PROVE VsizeInv'
<1>1. /\ TypeInv /\ DataInv /\ OpenInv /\ ParentsIn(vsize)
  BY DEF VsizeInv
<1>2. /\ vsize' = vsize /\ fds' = fds /\ init' = <<InitLinesOf(vsize)>>
      /\ written' = written /\ counted' = counted /\ skipped' = skipped /\ asked' = asked
  BY DEF WriteInit, InitLinesOf, gvars
<1>3. TypeInv' /\ DataInv' /\ OpenInv' /\ ParentsIn(vsize)'
  BY <1>1, <1>2 DEF TypeInv, DataInv, Had, OpenInv, ParentsIn, HasParent
<1>4. InitInv'
  BY <1>2 DEF InitInv, InitLinesOf
<1> QED
  BY <1>3, <1>4 DEF VsizeInv

LEMMA StutterHolds == ASSUME VsizeInv, UNCHANGED vars PROVE VsizeInv'
<1>1. /\ TypeInv /\ DataInv /\ OpenInv /\ ParentsIn(vsize) /\ InitInv
  BY DEF VsizeInv
<1>2. /\ vsize' = vsize /\ fds' = fds /\ init' = init
      /\ written' = written /\ counted' = counted /\ skipped' = skipped /\ asked' = asked
  BY DEF vars, gvars
<1>3. TypeInv' /\ DataInv' /\ OpenInv' /\ ParentsIn(vsize)'
  BY <1>1, <1>2 DEF TypeInv, DataInv, Had, OpenInv, ParentsIn, HasParent
<1>4. InitInv'
  BY <1>1, <1>2 DEF InitInv, InitLinesOf
<1> QED
  BY <1>3, <1>4 DEF VsizeInv

LEMMA NextHolds == VsizeInv /\ [Next]_vars => VsizeInv'
<1> SUFFICES ASSUME VsizeInv, [Next]_vars PROVE VsizeInv'
  OBVIOUS
<1>1. ASSUME NEW x \in Paths,
             \/ Stat(x) \/ Readlink(x) \/ Mkdir(x) \/ Rmdir(x) \/ Unlink(x)
      PROVE  VsizeInv'
  BY <1>1, StatHolds, ReadlinkHolds, MkdirHolds, RmdirHolds, UnlinkHolds
<1>2. ASSUME NEW x \in Paths, NEW y \in Paths, Rename(x, y) PROVE VsizeInv'
  BY <1>2, RenameHolds
<1>3. ASSUME NEW x \in Paths, NEW f \in Fds,
             NEW flags \in SUBSET {"O_DIRECTORY", "O_CREAT"}, Open(f, x, flags)
      PROVE  VsizeInv'
  BY <1>3, OpenHolds
<1>4. ASSUME NEW f \in Fds, Close(f) PROVE VsizeInv'
  BY <1>4, CloseHolds
<1>5. ASSUME NEW f \in Fds, NEW n \in 1 .. MaxBytes, Read(f, n) \/ Write(f, n)
      PROVE  VsizeInv'
  <2>1. n \in Nat \ {0}
    BY SizesAssumption
  <2> QED
    BY <1>5, <2>1, ReadHolds, WriteHolds
<1>6. ASSUME NEW f \in Fds, NEW n \in 0 .. MaxOffset, Seek(f, n) PROVE VsizeInv'
  <2>1. n \in Nat
    BY SizesAssumption
  <2> QED
    BY <1>6, <2>1, SeekHolds
<1> QED
  BY <1>1, <1>2, <1>3, <1>4, <1>5, <1>6, WriteInitHolds, StutterHolds DEF Next

(* The invariant holds in every state of every capture.                    *)
THEOREM VsizeStaysSound == Spec => []VsizeInv
BY InitHolds, NextHolds, PTL DEF Spec

-----------------------------------------------------------------------------
(* btree_ensure_range_l neither loses nor adds a byte, and keeps the order *)
(* of the keys: read_ranges covers what was read since the first hole.     *)
THEOREM RangesStayExact == Spec => []RangesExact
<1>1. VsizeInv => RangesExact
  BY DEF VsizeInv, DataInv, DataIs, IsTree, RangesExact, Known
<1> QED
  BY <1>1, VsizeStaysSound, PTL

(* No read is taken as one of the capture's own bytes that is not.         *)
THEOREM SkippedReadsStayKnown == Spec => []SkippedReadsKnown
<1>1. VsizeInv => SkippedReadsKnown
  BY DEF VsizeInv, DataInv, Had, SkippedReadsKnown, Known
<1> QED
  BY <1>1, VsizeStaysSound, PTL

(* init_parent_dir is called for every path that takes part in something.  *)
THEOREM ParentStaysKnown == Spec => []ParentKnown
<1>1. VsizeInv => ParentKnown
  BY DEF VsizeInv, ParentsIn, HasParent, ParentKnown, Known
<1> QED
  BY <1>1, VsizeStaysSound, PTL

(* The lines of a path are about it, cover only bytes that were written or *)
(* counted, and cover what its tree does.                                  *)
LEMMA LinesCover ==
  ASSUME NEW v, NEW was, NEW ask, NEW x, DataIs(v, was, ask), ask \subseteq was
  PROVE  /\ \A l \in InitLines(x, v) :
              l.path = x /\ BytesFrom(l.start, l.bytes) \subseteq was
         /\ v.required /\ v.read_ranges # NoRanges /\ ~v.link_target =>
              UNION {BytesFrom(l.start, l.bytes) : l \in InitLines(x, v)} = ask
<1>1. /\ v \in Vsizes /\ v.bytes \in Int /\ v.read_ranges \in Trees
      /\ 0 .. v.bytes - 1 \subseteq was
  BY VsizeFields DEF DataIs
<1>2. \A start, bytes :
        /\ InitLine(x, v, start, bytes).path = x
        /\ InitLine(x, v, start, bytes).start = start
        /\ InitLine(x, v, start, bytes).bytes = bytes
  BY DEF InitLine
<1>3. BytesFrom(0, 0) = {} /\ BytesFrom(0, v.bytes) = 0 .. v.bytes - 1
  BY <1>1 DEF BytesFrom
<1>4. CASE ~v.required
  <2>1. InitLines(x, v) = {}
    BY <1>4 DEF InitLines
  <2> QED
    BY <1>4, <2>1
<1>5. CASE v.required /\ v.kind = "link" /\ v.link_target
  <2>1. InitLines(x, v) = {InitLine(x, v, 0, 0)}
    BY <1>5 DEF InitLines
  <2> QED
    BY <1>2, <1>3, <1>5, <2>1
<1>6. CASE v.required /\ ~(v.kind = "link" /\ v.link_target) /\ v.read_ranges # NoRanges
  <2> DEFINE b == v.read_ranges
             line(p) == InitLine(x, v, b[p].key, b[p].data - b[p].key)
             at(p) == b[p].key .. b[p].data - 1
  <2>1. \A p \in DOMAIN b : b[p].key \in Int /\ b[p].data \in Int
    BY <1>1, TreeIs
  <2>2. ASSUME NEW l \in InitLines(x, v)
        PROVE  \E p \in DOMAIN b : l = line(p)
    <3>1. PICK r \in Ranges(b) : l = InitLine(x, v, r.start, r.end - r.start)
      BY <1>6, <2>2 DEF InitLines
    <3>2. PICK p \in DOMAIN b : r = [start |-> b[p].key, end |-> b[p].data]
      BY <3>1 DEF Ranges
    <3> QED
      BY <3>1, <3>2
  <2>3. ASSUME NEW p \in DOMAIN b, b[p].data > b[p].key
        PROVE  line(p) \in InitLines(x, v)
    <3> DEFINE r == [start |-> b[p].key, end |-> b[p].data]
    <3>1. r \in Ranges(b) /\ r.end > r.start
      BY <2>3 DEF Ranges
    <3>2. InitLine(x, v, r.start, r.end - r.start) \in InitLines(x, v)
      BY <1>6, <3>1 DEF InitLines
    <3> QED
      BY <3>2
  <2>4. \A p \in DOMAIN b : line(p).path = x /\ BytesFrom(line(p).start, line(p).bytes) = at(p)
    <3> TAKE p \in DOMAIN b
    <3>1. line(p).path = x /\ line(p).start = b[p].key /\ line(p).bytes = b[p].data - b[p].key
      BY <1>2
    <3>2. b[p].key + (b[p].data - b[p].key) - 1 = b[p].data - 1
      BY <2>1
    <3> QED
      BY <3>1, <3>2 DEF BytesFrom
  <2>5. Covered(b) = ask
    BY <1>6 DEF DataIs
  <2>6. \A p \in DOMAIN b : at(p) \subseteq ask
    BY <2>5 DEF Covered
  <2>7. ASSUME NEW c \in ask
        PROVE  c \in UNION {BytesFrom(l.start, l.bytes) : l \in InitLines(x, v)}
    <3>1. PICK p \in DOMAIN b : c \in at(p)
      BY <2>5, CoveredIs
    <3>2. b[p].data > b[p].key
      BY <2>1, <3>1
    <3>3. line(p) \in InitLines(x, v) /\ c \in BytesFrom(line(p).start, line(p).bytes)
      BY <2>3, <2>4, <3>1, <3>2
    <3> HIDE DEF line
    <3> QED
      BY <3>3
  <2> HIDE DEF b, line, at
  <2>8. \A l \in InitLines(x, v) : l.path = x /\ BytesFrom(l.start, l.bytes) \subseteq ask
    BY <2>2, <2>4, <2>6
  <2> QED
    BY <2>7, <2>8
<1>7. CASE /\ v.required /\ ~(v.kind = "link" /\ v.link_target)
           /\ v.read_ranges = NoRanges
  <2>1. InitLines(x, v) \subseteq {InitLine(x, v, 0, v.bytes)}
    BY <1>7 DEF InitLines
  <2> QED
    BY <1>1, <1>2, <1>3, <1>7, <2>1
<1> QED
  BY <1>4, <1>5, <1>6, <1>7

(* A required path that was never written to has a line: there is a size,  *)
(* or the tree of what was read.                                           *)
LEMMA RequiredHasLine ==
  ASSUME NEW v, NEW was, NEW ask, DataIs(v, was, ask), UsedIs(v, {}), v.required, NEW x
  PROVE  InitLines(x, v) # {}
<1>1. v \in Vsizes /\ v.bytes \in Int /\ v.bytes >= -1 /\ v.read_ranges \in Trees
  BY VsizeFields DEF DataIs
<1>2. CASE v.kind = "link" /\ v.link_target
  BY <1>2 DEF InitLines
<1>3. CASE ~(v.kind = "link" /\ v.link_target) /\ v.read_ranges # NoRanges
  <2>1. PICK c : c \in Covered(v.read_ranges)
    BY <1>3 DEF DataIs
  <2>2. PICK p \in DOMAIN v.read_ranges :
          c \in v.read_ranges[p].key .. v.read_ranges[p].data - 1
    BY <2>1, CoveredIs
  <2> DEFINE r == [start |-> v.read_ranges[p].key, end |-> v.read_ranges[p].data]
  <2>3. r \in Ranges(v.read_ranges)
    BY <2>2 DEF Ranges
  <2>4. r.end > r.start
    BY <1>1, <2>2, TreeIs
  <2> HIDE DEF r
  <2>5. InitLine(x, v, r.start, r.end - r.start) \in InitLines(x, v)
    BY <1>3, <2>3, <2>4 DEF InitLines
  <2> QED
    BY <2>5
<1>4. CASE ~(v.kind = "link" /\ v.link_target) /\ v.read_ranges = NoRanges
  <2>1. v.write_ranges = NoRanges
    BY DEF UsedIs
  <2>2. v.bytes >= 0
    BY <1>1, <1>4, <2>1 DEF DataIs
  <2> QED
    BY <1>4, <2>2 DEF InitLines
<1> QED
  BY <1>2, <1>3, <1>4

(* The INIT section asks for nothing that the capture did not use, for all *)
(* of what was read behind a hole, and for every path that must exist and  *)
(* was not written.                                                        *)
THEOREM InitSectionStaysExact == Spec => []InitSectionExact
<1>1. VsizeInv => InitSectionExact
  <2> SUFFICES ASSUME VsizeInv, init # None, NEW x \in Known
      PROVE  /\ InitData(x) \subseteq written[x] \cup counted[x]
             /\ vsize[x].read_ranges # NoRanges /\ ~vsize[x].link_target =>
                  InitData(x) = asked[x]
             /\ vsize[x].required /\ written[x] = {} => LinesOf(x) # {}
    BY DEF InitSectionExact
  <2>1. x \in Paths /\ vsize[x] # None
    BY DEF Known
  <2>2. \A y \in Paths : vsize[y] # None =>
          /\ DataIs(vsize[y], Had(y), asked[y]) /\ UsedIs(vsize[y], written[y])
          /\ asked[y] \subseteq Had(y)
    BY DEF VsizeInv, DataInv
  <2>3. init[1] = InitLinesOf(vsize)
    BY DEF VsizeInv, InitInv
  <2>4. \A y \in Paths : vsize[y] # None => \A l \in InitLines(y, vsize[y]) : l.path = y
    BY <2>2, LinesCover
  <2>5. LinesOf(x) = InitLines(x, vsize[x])
    <3>1. ASSUME NEW l \in LinesOf(x) PROVE l \in InitLines(x, vsize[x])
      <4>1. PICK y \in Paths : vsize[y] # None /\ l \in InitLines(y, vsize[y])
        BY <2>3 DEF LinesOf, InitLinesOf
      <4>2. y = x
        BY <2>4, <4>1 DEF LinesOf
      <4> QED
        BY <4>1, <4>2
    <3>2. ASSUME NEW l \in InitLines(x, vsize[x]) PROVE l \in LinesOf(x)
      BY <2>1, <2>3, <2>4 DEF LinesOf, InitLinesOf
    <3> QED
      BY <3>1, <3>2
  <2>6. InitData(x) = UNION {BytesFrom(l.start, l.bytes) : l \in InitLines(x, vsize[x])}
    BY <2>5 DEF InitData
  <2>7. InitData(x) \subseteq Had(x)
    BY <2>1, <2>2, <2>6, LinesCover
  <2>8. ASSUME vsize[x].read_ranges # NoRanges, ~vsize[x].link_target
        PROVE  InitData(x) = asked[x]
    <3>1. vsize[x].required
      BY <2>1, <2>2, <2>8 DEF UsedIs
    <3> QED
      BY <2>1, <2>2, <2>6, <2>8, <3>1, LinesCover
  <2>9. ASSUME vsize[x].required, written[x] = {} PROVE LinesOf(x) # {}
    BY <2>1, <2>2, <2>5, <2>9, RequiredHasLine
  <2> QED
    BY <2>7, <2>8, <2>9 DEF Had
<1> QED
  BY <1>1, VsizeStaysSound, PTL
=============================================================================
