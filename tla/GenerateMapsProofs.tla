------------------------- MODULE GenerateMapsProofs -------------------------
(***************************************************************************)
(* The maps of the generator, for every hash, every size of the maps and   *)
(* arrays, all processes, descriptors and paths: every key is stored once, *)
(* where it is looked for, and the maps do what plain functions would.     *)
(***************************************************************************)
EXTENDS GenerateMaps, SequenceTheorems, FiniteSetTheorems,
        WellFoundedInduction, TLAPS

-----------------------------------------------------------------------------
(* Lists of pairs in which no key comes twice.                             *)
Pairs(K) == [key : K, data : Nat \ {0}]
UniqueKeys(l) == \A i, j \in 1 .. Len(l) : l[i].key = l[j].key => i = j
IsList(l, K) == l \in Seq(Pairs(K)) /\ UniqueKeys(l)

LEMMA PairIs ==
  ASSUME NEW K, NEW k \in K, NEW d \in Nat \ {0}
  PROVE  Pair(k, d) \in Pairs(K)
BY DEF Pair, Pairs

LEMMA PairHas == \A k, d : Pair(k, d).key = k /\ Pair(k, d).data = d
BY DEF Pair

LEMMA HasKeyIs ==
  ASSUME NEW K, NEW l \in Seq(Pairs(K)), NEW k
  PROVE  HasKey(l, k) <=> \E i \in 1 .. Len(l) : l[i].key = k
BY DEF HasKey

(* ListGet finds the data of a key that is there, and else 0.              *)
LEMMA ListGetThere ==
  ASSUME NEW K, NEW l, IsList(l, K), NEW i \in 1 .. Len(l)
  PROVE  /\ ListGet(l, l[i].key) = l[i].data
         /\ HasKey(l, l[i].key)
         /\ l[i].key \in K /\ l[i].data \in Nat \ {0}
<1> DEFINE k == l[i].key
<1>1. l \in Seq(Pairs(K)) /\ DOMAIN l = 1 .. Len(l)
  BY DEF IsList
<1>2. HasKey(l, k)
  BY <1>1 DEF HasKey
<1> DEFINE c == CHOOSE j \in DOMAIN l : l[j].key = k
<1>3. c \in DOMAIN l /\ l[c].key = k
  BY <1>1
<1>4. c = i
  BY <1>1, <1>3 DEF IsList, UniqueKeys
<1>5. ListGet(l, k) = l[c].data
  BY <1>2 DEF ListGet
<1>6. l[i] \in Pairs(K)
  BY <1>1, ElementOfSeq
<1>7. k \in K /\ l[i].data \in Nat \ {0}
  BY <1>6 DEF Pairs
<1> QED
  BY <1>2, <1>4, <1>5, <1>7

LEMMA ListGetNone ==
  ASSUME NEW l, NEW k, ~HasKey(l, k)
  PROVE  ListGet(l, k) = 0
BY DEF ListGet

(* The lists l and m, as functions from keys to data.                      *)
LEMMA ListGetIs ==
  ASSUME NEW K, NEW l, IsList(l, K), NEW k \in K, NEW d \in Nat \ {0}
  PROVE  ListGet(l, k) = d <=> \E i \in 1 .. Len(l) : l[i] = Pair(k, d)
<1>1. CASE HasKey(l, k)
  <2>1. PICK i \in 1 .. Len(l) : l[i].key = k
    BY <1>1, HasKeyIs DEF IsList
  <2>2. /\ ListGet(l, k) = l[i].data /\ l[i] \in Pairs(K)
    BY <2>1, ListGetThere, ElementOfSeq DEF IsList
  <2>3. ASSUME ListGet(l, k) = d PROVE l[i] = Pair(k, d)
    BY <2>1, <2>2, <2>3 DEF Pair, Pairs
  <2>4. ASSUME NEW j \in 1 .. Len(l), l[j] = Pair(k, d)
        PROVE  ListGet(l, k) = d
    <3>1. l[j].key = k /\ l[j].data = d
      BY <2>4, PairHas
    <3> QED
      BY <3>1, ListGetThere
  <2> QED
    BY <2>3, <2>4
<1>2. CASE ~HasKey(l, k)
  <2>1. ListGet(l, k) = 0
    BY <1>2, ListGetNone
  <2>2. ASSUME NEW j \in 1 .. Len(l), l[j] = Pair(k, d)
        PROVE  FALSE
    <3>1. l[j].key = k
      BY <2>2, PairHas
    <3> QED
      BY <3>1, <1>2, HasKeyIs DEF IsList
  <2> QED
    BY <2>1, <2>2
<1> QED
  BY <1>1, <1>2

LEMMA ConcatIs ==
  ASSUME NEW S, NEW p \in Seq(S), NEW q \in Seq(S)
  PROVE  /\ p \o q \in Seq(S)
         /\ Len(p \o q) = Len(p) + Len(q)
         /\ \A i \in 1 .. Len(p) : (p \o q)[i] = p[i]
         /\ \A i \in 1 .. Len(q) : (p \o q)[Len(p) + i] = q[i]
<1>1. Len(p) \in Nat /\ Len(q) \in Nat
  OBVIOUS
<1>2. /\ p \o q \in Seq(S)
      /\ Len(p \o q) = Len(p) + Len(q)
      /\ \A i \in 1 .. Len(p) + Len(q) :
           (p \o q)[i] = IF i <= Len(p) THEN p[i] ELSE q[i - Len(p)]
  BY ConcatProperties
<1>3. ASSUME NEW i \in 1 .. Len(p)
      PROVE  (p \o q)[i] = p[i]
  BY <1>1, <1>2
<1>4. ASSUME NEW i \in 1 .. Len(q)
      PROVE  (p \o q)[Len(p) + i] = q[i]
  <2>1. /\ Len(p) + i \in 1 .. Len(p) + Len(q)
        /\ ~(Len(p) + i <= Len(p)) /\ (Len(p) + i) - Len(p) = i
    BY <1>1
  <2> QED
    BY <1>2, <2>1
<1> QED
  BY <1>2, <1>3, <1>4

(* A list with one more pair in front.                                     *)
LEMMA ListInsertIs ==
  ASSUME NEW K, NEW l, IsList(l, K), NEW k \in K, ~HasKey(l, k),
         NEW d \in Nat \ {0}
  PROVE  /\ IsList(ListInsert(l, k, d), K)
         /\ \A j \in K : ListGet(ListInsert(l, k, d), j) =
                           IF j = k THEN d ELSE ListGet(l, j)
<1> DEFINE m == <<Pair(k, d)>> \o l
<1>1. ListInsert(l, k, d) = m
  BY DEF ListInsert
<1>2. l \in Seq(Pairs(K)) /\ Pair(k, d) \in Pairs(K) /\ Len(l) \in Nat
  BY PairIs DEF IsList
<1>3. /\ m \in Seq(Pairs(K)) /\ Len(m) = Len(l) + 1
      /\ m[1] = Pair(k, d)
      /\ \A i \in 1 .. Len(l) : m[i + 1] = l[i]
  <2>1. <<Pair(k, d)>> \in Seq(Pairs(K)) /\ Len(<<Pair(k, d)>>) = 1
    BY <1>2
  <2> DEFINE p == <<Pair(k, d)>>
  <2>2. p[1] = Pair(k, d)
    OBVIOUS
  <2>3. p \in Seq(Pairs(K)) /\ Len(p) = 1 /\ m = p \o l
    BY <2>1
  <2> HIDE DEF p, m
  <2>4. p \in Seq(Pairs(K)) /\ l \in Seq(Pairs(K))
    BY <1>2, <2>3
  <2>5. /\ p \o l \in Seq(Pairs(K)) /\ Len(p \o l) = Len(p) + Len(l)
        /\ \A i \in 1 .. Len(p) : (p \o l)[i] = p[i]
        /\ \A i \in 1 .. Len(l) : (p \o l)[Len(p) + i] = l[i]
    BY <2>4, ConcatIs
  <2>6. \A i \in 1 .. Len(l) : 1 + i = i + 1
    OBVIOUS
  <2> QED
    BY <1>2, <2>2, <2>3, <2>5, <2>6
<1> HIDE DEF m
<1>4. \A i \in 1 .. Len(m) : i = 1 \/ (i - 1 \in 1 .. Len(l) /\ m[i] = l[i - 1])
  <2> TAKE i \in 1 .. Len(m)
  <2>1. CASE i = 1
    BY <2>1
  <2>2. CASE i # 1
    <3>1. i - 1 \in 1 .. Len(l) /\ (i - 1) + 1 = i
      BY <1>2, <1>3, <2>2
    <3>2. m[(i - 1) + 1] = l[i - 1]
      BY <1>3, <3>1
    <3> QED
      BY <3>1, <3>2
  <2> QED
    BY <2>1, <2>2
<1>5. \A i \in 1 .. Len(l) : l[i].key # k
  BY <1>2, HasKeyIs
<1>6. m[1].key = k /\ m[1].data = d
  BY <1>3, PairHas
<1>7. UniqueKeys(m)
  <2> SUFFICES ASSUME NEW i \in 1 .. Len(m), NEW j \in 1 .. Len(m),
                      m[i].key = m[j].key
               PROVE  i = j
    BY DEF UniqueKeys
  <2>1. CASE i = 1 \/ j = 1
    BY SMTT(30), <1>4, <1>5, <1>6, <2>1
  <2>2. CASE i # 1 /\ j # 1
    <3>1. /\ i - 1 \in 1 .. Len(l) /\ j - 1 \in 1 .. Len(l)
          /\ l[i - 1].key = l[j - 1].key
      BY <1>4, <2>2
    <3>2. i - 1 = j - 1
      BY <3>1 DEF IsList, UniqueKeys
    <3> QED
      BY <3>2
  <2> QED
    BY <2>1, <2>2
<1>8. IsList(m, K)
  BY <1>3, <1>7 DEF IsList
<1>9. ASSUME NEW j \in K
      PROVE  ListGet(m, j) = IF j = k THEN d ELSE ListGet(l, j)
  <2>1. CASE j = k
    <3>1. 1 \in 1 .. Len(m)
      BY <1>2, <1>3
    <3> QED
      BY <1>6, <1>8, <2>1, <3>1, ListGetThere
  <2>2. CASE j # k /\ HasKey(l, j)
    <3>1. PICK i \in 1 .. Len(l) : l[i].key = j
      BY <1>2, <2>2, HasKeyIs
    <3>2. i + 1 \in 1 .. Len(m) /\ m[i + 1] = l[i]
      BY <1>2, <1>3
    <3>3. ListGet(m, j) = l[i].data /\ ListGet(l, j) = l[i].data
      BY <1>8, <3>1, <3>2, ListGetThere
    <3> QED
      BY <2>2, <3>3
  <2>3. CASE j # k /\ ~HasKey(l, j)
    <3>1. ~HasKey(m, j)
      <4> SUFFICES ASSUME NEW i \in 1 .. Len(m), m[i].key = j
                   PROVE  FALSE
        BY <1>3, HasKeyIs
      <4>1. i # 1
        BY <1>6, <2>3
      <4> QED
        BY SMTT(30), <1>2, <1>4, <2>3, <4>1, HasKeyIs
    <3> QED
      BY <2>3, <3>1, ListGetNone
  <2> QED
    BY <2>1, <2>2, <2>3
<1> QED
  BY <1>1, <1>8, <1>9

(* Where list_key_remove stops.                                            *)
LEMMA ListRemoveAt ==
  ASSUME NEW K, NEW l, IsList(l, K), NEW k, HasKey(l, k)
  PROVE  \E p \in 1 .. Len(l) :
           /\ l[p].key = k
           /\ ListRemove(l, k) = SubSeq(l, 1, p - 1) \o SubSeq(l, p + 1, Len(l))
<1> DEFINE I == {i \in 1 .. Len(l) : l[i].key = k}
<1>1. PICK p \in 1 .. Len(l) : l[p].key = k
  BY HasKeyIs DEF IsList
<1>2. I = {p}
  BY <1>1 DEF IsList, UniqueKeys
<1>3. Min({p}) = p
  BY DEF Min
<1> QED
  BY <1>1, <1>2, <1>3 DEF ListRemove, RemoveFirstMatch, SelectInSeq, RemoveAt

(* A list without the pair of a key.                                       *)
LEMMA ListRemoveIs ==
  ASSUME NEW K, NEW l, IsList(l, K), NEW k \in K
  PROVE  /\ IsList(ListRemove(l, k), K)
         /\ \A j \in K : ListGet(ListRemove(l, k), j) =
                           IF j = k THEN 0 ELSE ListGet(l, j)
<1>1. CASE ~HasKey(l, k)
  <2>1. ListRemove(l, k) = l
    <3>1. ~\E i \in 1 .. Len(l) : l[i].key = k
      BY <1>1, HasKeyIs DEF IsList
    <3> QED
      BY <3>1 DEF ListRemove, RemoveFirstMatch
  <2>2. ListGet(l, k) = 0
    BY <1>1, ListGetNone
  <2> QED
    BY <2>1, <2>2
<1>2. CASE HasKey(l, k)
  <2>1. PICK p \in 1 .. Len(l) :
          /\ l[p].key = k
          /\ ListRemove(l, k) = SubSeq(l, 1, p - 1) \o SubSeq(l, p + 1, Len(l))
    BY <1>2, ListRemoveAt
  <2> DEFINE n == Len(l)
             s == SubSeq(l, 1, p - 1)
             t == SubSeq(l, p + 1, n)
             m == s \o t
  <2>2. l \in Seq(Pairs(K)) /\ n \in Nat /\ p \in 1 .. n
    BY DEF IsList
  <2>3. /\ s \in Seq(Pairs(K)) /\ Len(s) = p - 1
        /\ \A i \in 1 .. p - 1 : s[i] = l[i]
    <3>1. /\ s \in Seq(Pairs(K))
          /\ Len(s) = IF 1 <= p - 1 THEN p - 1 - 1 + 1 ELSE 0
          /\ \A i \in 1 .. p - 1 - 1 + 1 : s[i] = l[1 + i - 1]
      BY <2>2, SubSeqProperties
    <3> HIDE DEF s
    <3> QED
      BY <2>2, <3>1
  <2>4. /\ t \in Seq(Pairs(K)) /\ Len(t) = n - p
        /\ \A i \in 1 .. n - p : t[i] = l[p + i]
    <3>1. /\ t \in Seq(Pairs(K))
          /\ Len(t) = IF p + 1 <= n THEN n - (p + 1) + 1 ELSE 0
          /\ \A i \in 1 .. n - (p + 1) + 1 : t[i] = l[p + 1 + i - 1]
      BY <2>2, SubSeqProperties
    <3> HIDE DEF t
    <3> QED
      BY <2>2, <3>1
  <2> HIDE DEF n, s, t
  <2>5. /\ m \in Seq(Pairs(K)) /\ Len(m) = Len(s) + Len(t)
        /\ \A i \in 1 .. Len(s) : m[i] = s[i]
        /\ \A i \in 1 .. Len(t) : m[Len(s) + i] = t[i]
    BY SMTT(30), <2>3, <2>4, ConcatIs
  <2>6. ListRemove(l, k) = m
    BY <2>1 DEF s, t, n
  <2> HIDE DEF m
  <2> DEFINE Old(i) == IF i < p THEN i ELSE i + 1
  <2>7. Len(m) = n - 1
    BY <2>2, <2>3, <2>4, <2>5
  <2>8. ASSUME NEW i \in 1 .. n - 1
        PROVE  m[i] = l[Old(i)] /\ Old(i) \in 1 .. n /\ Old(i) # p
    <3>1. CASE i < p
      <4>1. i \in 1 .. p - 1
        BY <2>2, <3>1
      <4> QED
        BY SMTT(30), <2>2, <2>3, <2>5, <3>1, <4>1
    <3>2. CASE ~(i < p)
      <4>1. i - p + 1 \in 1 .. n - p /\ (p - 1) + (i - p + 1) = i /\ p + (i - p + 1) = i + 1
        BY <2>2, <3>2
      <4>2. m[(p - 1) + (i - p + 1)] = t[i - p + 1] /\ t[i - p + 1] = l[p + (i - p + 1)]
        BY SMTT(30), <2>3, <2>4, <2>5, <4>1
      <4>3. Old(i) = i + 1 /\ i + 1 \in 1 .. n /\ i + 1 # p
        BY <2>2, <3>2
      <4> HIDE DEF Old
      <4> QED
        BY <4>1, <4>2, <4>3
    <3> QED
      BY <3>1, <3>2
  <2>9. \A i, j \in 1 .. n - 1 : Old(i) = Old(j) => i = j
    BY <2>2
  <2>10. ASSUME NEW j \in 1 .. n, j # p
         PROVE  \E i \in 1 .. n - 1 : Old(i) = j
    <3>1. CASE j < p
      <4>1. j \in 1 .. n - 1 /\ Old(j) = j
        BY <2>2, <3>1
      <4> QED
        BY <4>1
    <3>2. CASE j > p
      <4>1. j - 1 \in 1 .. n - 1 /\ Old(j - 1) = j
        BY <2>2, <3>2
      <4> QED
        BY <4>1
    <3> QED
      BY <2>2, <2>10, <3>1, <3>2
  <2> HIDE DEF Old
  <2>11. IsList(m, K)
    <3> SUFFICES ASSUME NEW i \in 1 .. n - 1, NEW j \in 1 .. n - 1,
                        m[i].key = m[j].key
                 PROVE  i = j
      BY <2>5, <2>7 DEF IsList, UniqueKeys
    <3>1. l[Old(i)].key = l[Old(j)].key /\ Old(i) \in 1 .. Len(l) /\ Old(j) \in 1 .. Len(l)
      BY <2>8 DEF n
    <3>2. Old(i) = Old(j)
      BY <3>1 DEF IsList, UniqueKeys
    <3> QED
      BY <2>9, <3>2
  <2>12. ASSUME NEW j \in K
         PROVE  ListGet(m, j) = IF j = k THEN 0 ELSE ListGet(l, j)
    <3>1. CASE \E i \in 1 .. n - 1 : m[i].key = j
      <4>1. PICK i \in 1 .. n - 1 : m[i].key = j
        BY <3>1
      <4>2. i \in 1 .. Len(m) /\ Old(i) \in 1 .. Len(l) /\ Old(i) # p /\ m[i] = l[Old(i)]
        BY <2>7, <2>8 DEF n
      <4>3. ListGet(m, j) = m[i].data
        BY <2>11, <4>1, <4>2, ListGetThere
      <4>4. ListGet(l, j) = l[Old(i)].data
        BY <4>1, <4>2, ListGetThere
      <4>5. j # k
        BY <2>1, <4>1, <4>2 DEF IsList, UniqueKeys
      <4> QED
        BY <4>2, <4>3, <4>4, <4>5
    <3>2. CASE ~\E i \in 1 .. n - 1 : m[i].key = j
      <4>1. ~HasKey(m, j)
        BY <2>5, <2>7, <3>2, HasKeyIs
      <4>2. ASSUME j # k PROVE ~HasKey(l, j)
        <5> SUFFICES ASSUME NEW i \in 1 .. n, l[i].key = j
                     PROVE  FALSE
          BY <2>2, HasKeyIs DEF n
        <5>1. PICK h \in 1 .. n - 1 : Old(h) = i
          BY <2>1, <2>10, <4>2
        <5> QED
          BY <2>8, <3>2, <5>1
      <4>3. ListGet(m, j) = 0
        BY <4>1, ListGetNone
      <4>4. ASSUME j # k PROVE ListGet(l, j) = 0
        BY <4>2, <4>4, ListGetNone
      <4> QED
        BY <4>3, <4>4
    <3> QED
      BY <3>1, <3>2
  <2> QED
    BY <2>6, <2>11, <2>12
<1> QED
  BY <1>1, <1>2

-----------------------------------------------------------------------------
(* The slots: at most one single pair, or a list, never both.              *)
IsSlot(s, K) ==
  /\ s = [single |-> s.single, list |-> s.list]
  /\ \/ s.list = <<>> /\ IsList(s.single, K) /\ Len(s.single) <= 1
     \/ s.single = <<>> /\ s.list = <<s.list[1]>> /\ IsList(s.list[1], K)

LEMMA EmptyList ==
  ASSUME NEW K
  PROVE  /\ IsList(<<>>, K) /\ Len(<<>>) = 0
         /\ \A k : ~HasKey(<<>>, k) /\ ListGet(<<>>, k) = 0
<1>1. <<>> \in Seq(Pairs(K)) /\ Len(<<>>) = 0
  OBVIOUS
<1>2. \A k : ~HasKey(<<>>, k)
  BY DEF HasKey
<1> QED
  BY <1>1, <1>2, ListGetNone DEF IsList, UniqueKeys

(* The two kinds of slots and the list that each stands for.               *)
LEMMA SlotPairsIs ==
  ASSUME NEW K, NEW s, IsSlot(s, K)
  PROVE  /\ IsList(SlotPairs(s), K)
         /\ \/ s.list = <<>> /\ SlotPairs(s) = s.single /\ Len(s.single) <= 1
            \/ s.single = <<>> /\ s.list # <<>> /\ SlotPairs(s) = s.list[1]
<1>1. CASE s.list = <<>> /\ IsList(s.single, K) /\ Len(s.single) <= 1
  BY <1>1 DEF SlotPairs
<1>2. CASE s.single = <<>> /\ s.list = <<s.list[1]>> /\ IsList(s.list[1], K)
  <2>1. s.list # <<>>
    BY <1>2
  <2>2. s.list[1] \o <<>> = s.list[1]
    BY <1>2, ConcatEmptySeq DEF IsList
  <2> QED
    BY <1>2, <2>1, <2>2 DEF SlotPairs
<1> QED
  BY <1>1, <1>2 DEF IsSlot

LEMMA SlotOfList ==
  ASSUME NEW K, NEW l, IsList(l, K)
  PROVE  LET s == [single |-> <<>>, list |-> <<l>>] IN IsSlot(s, K) /\ SlotPairs(s) = l
<1> DEFINE s == [single |-> <<>>, list |-> <<l>>]
<1>1. /\ s.single = <<>> /\ s.list = <<l>> /\ s.list[1] = l /\ s.list # <<>>
      /\ s = [single |-> s.single, list |-> s.list]
  OBVIOUS
<1> HIDE DEF s
<1>2. IsSlot(s, K)
  BY <1>1 DEF IsSlot
<1>3. SlotPairs(s) = l
  BY <1>1, <1>2, SlotPairsIs
<1> QED
  BY <1>2, <1>3 DEF s

LEMMA SlotOfSingle ==
  ASSUME NEW K, NEW l, IsList(l, K), Len(l) <= 1
  PROVE  LET s == [single |-> l, list |-> <<>>] IN IsSlot(s, K) /\ SlotPairs(s) = l
<1> DEFINE s == [single |-> l, list |-> <<>>]
<1>1. s.single = l /\ s.list = <<>> /\ s = [single |-> s.single, list |-> s.list]
  OBVIOUS
<1> HIDE DEF s
<1>2. IsSlot(s, K) /\ SlotPairs(s) = l
  BY <1>1 DEF IsSlot, SlotPairs
<1> QED
  BY <1>2 DEF s

LEMMA SingleList ==
  ASSUME NEW K, NEW l, IsList(l, K), Len(l) <= 1, l # <<>>
  PROVE  /\ Len(l) = 1 /\ l[1].key \in K /\ l = <<Pair(l[1].key, l[1].data)>>
         /\ \A k : HasKey(l, k) <=> l[1].key = k
<1>1. l \in Seq(Pairs(K)) /\ Len(l) \in Nat /\ Len(l) # 0
  BY EmptySeq DEF IsList
<1>2. Len(l) = 1
  <2>1. \A n \in Nat : n # 0 /\ n <= 1 => n = 1
    OBVIOUS
  <2> QED
    BY Zenon, <1>1, <2>1
<1>3. l[1] \in Pairs(K)
  BY <1>1, <1>2, ElementOfSeq
<1>4. l[1].key \in K /\ l[1] = Pair(l[1].key, l[1].data)
  BY <1>3 DEF Pairs, Pair
<1>5. l = <<l[1]>>
  BY <1>1, <1>2
<1>6. \A k : HasKey(l, k) <=> l[1].key = k
  BY <1>1, <1>2, HasKeyIs
<1> QED
  BY <1>2, <1>4, <1>5, <1>6

-----------------------------------------------------------------------------
(* Maps: A[k] is the address of the key k, of n.  Got(h, A, k) is what     *)
(* hmap_get finds.                                                         *)
Got(h, A, k) == ListGet(SlotPairs(h[A[k]]), k)
IsMap(h, K, A, n) ==
  /\ h = [a \in 0 .. n - 1 |-> h[a]]
  /\ \A a \in 0 .. n - 1 : IsSlot(h[a], K)
  /\ \A a \in 0 .. n - 1 : \A k \in K : ListGet(SlotPairs(h[a]), k) # 0 => A[k] = a

LEMMA HmapGetIs ==
  ASSUME NEW K, NEW n \in Nat, NEW A \in [K -> 0 .. n - 1],
         NEW h, IsMap(h, K, A, n), NEW k \in K
  PROVE  HmapGet(h, A[k], k) = Got(h, A, k) /\ Got(h, A, k) \in Nat
<1> DEFINE s == h[A[k]]
           l == SlotPairs(s)
<1>1. IsSlot(s, K)
  BY DEF IsMap
<1>2. /\ IsList(l, K)
      /\ \/ s.list = <<>> /\ l = s.single /\ Len(s.single) <= 1
         \/ s.single = <<>> /\ s.list # <<>> /\ l = s.list[1]
  BY <1>1, SlotPairsIs
<1>3. HmapGet(h, A[k], k) = IF HasKey(s.single, k) THEN s.single[1].data
                            ELSE IF s.list # <<>> THEN ListGet(s.list[1], k) ELSE 0
  BY DEF HmapGet
<1>4. Got(h, A, k) = ListGet(l, k)
  BY DEF Got
<1> HIDE DEF s, l
<1>5. ListGet(l, k) \in Nat
  <2>1. CASE HasKey(l, k)
    BY SMTT(30), <1>2, <2>1, HasKeyIs, ListGetThere DEF IsList
  <2>2. CASE ~HasKey(l, k)
    BY <2>2, ListGetNone
  <2> QED
    BY <2>1, <2>2
<1>6. CASE s.list = <<>> /\ l = s.single /\ Len(s.single) <= 1
  <2>1. CASE l = <<>>
    BY <1>3, <1>4, <1>6, <2>1, EmptyList
  <2>2. CASE l # <<>> /\ HasKey(l, k)
    <3>1. 1 \in 1 .. Len(l) /\ l[1].key = k
      BY <1>2, <1>6, <2>2, SingleList
    <3> QED
      BY <1>2, <1>3, <1>4, <1>6, <2>2, <3>1, ListGetThere
  <2>3. CASE ~HasKey(l, k)
    BY <1>3, <1>4, <1>6, <2>3, ListGetNone
  <2> QED
    BY <2>1, <2>2, <2>3
<1>7. CASE s.single = <<>> /\ s.list # <<>> /\ l = s.list[1]
  <2>1. ~HasKey(s.single, k)
    BY <1>7 DEF HasKey
  <2> QED
    BY <1>3, <1>4, <1>5, <1>7, <2>1
<1> QED
  BY <1>2, <1>4, <1>5, <1>6, <1>7

(* The slot t has what s has, except that the key k has the data d.        *)
Sets(t, s, K, k, d) ==
  \A j \in K : ListGet(SlotPairs(t), j) = IF j = k THEN d ELSE ListGet(SlotPairs(s), j)

(* The same of maps.                                                       *)
MapSets(g, h, K, A, k, d) ==
  \A j \in K : Got(g, A, j) = IF j = k THEN d ELSE Got(h, A, j)

(* A map in which one slot has another list of pairs.                      *)
LEMMA SlotReplaced ==
  ASSUME NEW K, NEW n \in Nat, NEW A \in [K -> 0 .. n - 1],
         NEW h, IsMap(h, K, A, n), NEW k \in K, NEW d \in Nat,
         NEW s, IsSlot(s, K), NEW g, g = [h EXCEPT ![A[k]] = s],
         Sets(s, h[A[k]], K, k, d)
  PROVE  IsMap(g, K, A, n) /\ MapSets(g, h, K, A, k, d)
<1>1. /\ h = [a \in 0 .. n - 1 |-> h[a]]
      /\ \A a \in 0 .. n - 1 : IsSlot(h[a], K)
      /\ \A a \in 0 .. n - 1 : \A j \in K :
           ListGet(SlotPairs(h[a]), j) # 0 => A[j] = a
  BY DEF IsMap
<1>2. A[k] \in 0 .. n - 1
  OBVIOUS
<1>3. /\ g = [a \in 0 .. n - 1 |-> g[a]]
      /\ \A a \in 0 .. n - 1 : g[a] = IF a = A[k] THEN s ELSE h[a]
  BY <1>1, <1>2
<1>4. IsMap(g, K, A, n)
  <2>1. ASSUME NEW a \in 0 .. n - 1
        PROVE  IsSlot(g[a], K)
    BY <1>1, <1>3
  <2>2. ASSUME NEW a \in 0 .. n - 1, NEW j \in K, ListGet(SlotPairs(g[a]), j) # 0
        PROVE  A[j] = a
    <3>1. CASE a = A[k] /\ j = k
      BY <3>1
    <3>2. CASE a = A[k] /\ j # k
      BY <1>1, <1>3, <2>2, <3>2 DEF Sets
    <3>3. CASE a # A[k]
      BY <1>1, <1>3, <2>2, <3>3
    <3> QED
      BY <3>1, <3>2, <3>3
  <2> QED
    BY <1>3, <2>1, <2>2 DEF IsMap
<1>5. ASSUME NEW j \in K
      PROVE  Got(g, A, j) = IF j = k THEN d ELSE Got(h, A, j)
  <2>1. A[j] \in 0 .. n - 1
    OBVIOUS
  <2>2. CASE A[j] = A[k]
    <3>1. Got(g, A, j) = ListGet(SlotPairs(s), j) /\ Got(h, A, j) = ListGet(SlotPairs(h[A[k]]), j)
      BY <1>3, <2>1, <2>2 DEF Got
    <3> QED
      BY <3>1 DEF Sets
  <2>3. CASE A[j] # A[k]
    <3>1. Got(g, A, j) = Got(h, A, j) /\ j # k
      BY <1>3, <2>1, <2>3 DEF Got
    <3> QED
      BY <3>1
  <2> QED
    BY <2>2, <2>3
<1> QED
  BY <1>4, <1>5 DEF MapSets

(* hmap_insert of a key that is not there.                                 *)
LEMMA HmapInsertIs ==
  ASSUME NEW K, NEW n \in Nat, NEW A \in [K -> 0 .. n - 1],
         NEW h, IsMap(h, K, A, n), NEW k \in K, NEW d \in Nat \ {0},
         Got(h, A, k) = 0
  PROVE  LET g == HmapInsert(h, A[k], k, d) IN
         IsMap(g, K, A, n) /\ MapSets(g, h, K, A, k, d)
<1> DEFINE g == HmapInsert(h, A[k], k, d)
           s == h[A[k]]
           l == SlotPairs(s)
           m == ListInsert(l, k, d)
<1>1. /\ IsSlot(s, K) /\ A[k] \in 0 .. n - 1
      /\ h = [a \in 0 .. n - 1 |-> h[a]]
  BY DEF IsMap
<1>2. /\ IsList(l, K)
      /\ \/ s.list = <<>> /\ l = s.single /\ Len(s.single) <= 1
         \/ s.single = <<>> /\ s.list # <<>> /\ l = s.list[1]
  BY <1>1, SlotPairsIs
<1>3. ~HasKey(l, k)
  <2>1. ListGet(l, k) = 0
    BY DEF Got
  <2> HIDE DEF l
  <2> SUFFICES ASSUME HasKey(l, k)
               PROVE  FALSE
    OBVIOUS
  <2>2. PICK i \in 1 .. Len(l) : l[i].key = k
    BY <1>2, HasKeyIs DEF IsList
  <2>3. ListGet(l, k) = l[i].data /\ l[i].data \in Nat \ {0}
    BY <1>2, <2>2, ListGetThere
  <2> QED
    BY <2>1, <2>3
<1>4. /\ IsList(m, K)
      /\ \A j \in K : ListGet(m, j) = IF j = k THEN d ELSE ListGet(l, j)
  <2> HIDE DEF l
  <2> QED
    BY <1>2, <1>3, ListInsertIs
<1>5. \E t : IsSlot(t, K) /\ SlotPairs(t) = m /\ g = [h EXCEPT ![A[k]] = t]
  <2>1. CASE s.list = <<>> /\ l = s.single /\ l # <<>>
    <3> DEFINE t == [single |-> <<>>, list |-> <<m>>]
    <3>1. IsSlot(t, K) /\ SlotPairs(t) = m
      <4> HIDE DEF m
      <4> QED
        BY <1>4, SlotOfList
    <3>2. Len(l) <= 1 /\ l[1].key # k
      <4> HIDE DEF l
      <4>1. Len(l) <= 1
        BY <1>2, <2>1
      <4>2. l[1].key # k
        BY <1>2, <1>3, <2>1, <4>1, SingleList
      <4> QED
        BY <4>1, <4>2
    <3>3. g = [h EXCEPT ![A[k]] = t]
      <4>1. s.single # <<>> /\ s.single[1].key # k /\ ListInsert(s.single, k, d) = m
        BY <2>1, <3>2
      <4> HIDE DEF m
      <4> QED
        BY <4>1 DEF HmapInsert
    <3> QED
      BY <3>1, <3>3
  <2>2. CASE s.list = <<>> /\ l = s.single /\ l = <<>>
    <3> DEFINE p == <<Pair(k, d)>>
               t == [single |-> p, list |-> <<>>]
    <3>1. m = p
      <4>1. m = p \o <<>> /\ p \in Seq(Pairs(K))
        BY <1>3, <2>2, PairIs DEF ListInsert
      <4> QED
        BY <4>1, ConcatEmptySeq
    <3>2. IsSlot(t, K) /\ SlotPairs(t) = m
      <4>1. Len(p) <= 1
        OBVIOUS
      <4> HIDE DEF m, p
      <4> QED
        BY <1>4, <3>1, <4>1, SlotOfSingle
    <3>3. g = [h EXCEPT ![A[k]] = t]
      <4>1. s.single = <<>> /\ s.list = <<>> /\ s = [single |-> s.single, list |-> s.list]
        BY <1>1, <2>2 DEF IsSlot
      <4>2. t = [s EXCEPT !.single = p]
        BY <4>1
      <4>3. g = [h EXCEPT ![A[k]] = [s EXCEPT !.single = p]]
        BY <4>1 DEF HmapInsert
      <4> QED
        BY <4>2, <4>3
    <3> QED
      BY <3>2, <3>3
  <2>3. CASE s.single = <<>> /\ s.list # <<>> /\ l = s.list[1]
    <3> DEFINE t == [single |-> <<>>, list |-> <<m>>]
    <3>1. IsSlot(t, K) /\ SlotPairs(t) = m
      <4> HIDE DEF m
      <4> QED
        BY <1>4, SlotOfList
    <3>2. s = [single |-> <<>>, list |-> <<l>>]
      BY <1>1, <2>3 DEF IsSlot
    <3>3. g = [h EXCEPT ![A[k]] = [s EXCEPT !.list = [s.list EXCEPT ![1] = m]]]
      BY <2>3 DEF HmapInsert
    <3>4. [s EXCEPT !.list = [s.list EXCEPT ![1] = m]] = t
      <4> HIDE DEF m, l
      <4>1. s.list = <<l>>
        BY <3>2
      <4>2. [s.list EXCEPT ![1] = m] = <<m>>
        BY <4>1
      <4> QED
        BY <3>2, <4>2
    <3> QED
      BY <3>1, <3>3, <3>4
  <2> QED
    BY <1>2, <2>1, <2>2, <2>3
<1>6. PICK t : IsSlot(t, K) /\ SlotPairs(t) = m /\ g = [h EXCEPT ![A[k]] = t]
  BY <1>5
<1>7. Sets(t, h[A[k]], K, k, d)
  <2>1. \A j \in K : ListGet(m, j) = IF j = k THEN d ELSE ListGet(l, j)
    BY <1>4
  <2> HIDE DEF m
  <2> QED
    BY <1>6, <2>1 DEF Sets
<1> HIDE DEF g, m, l, s
<1>8. d \in Nat
  OBVIOUS
<1>9. IsMap(g, K, A, n) /\ MapSets(g, h, K, A, k, d)
  BY <1>6, <1>7, <1>8, SlotReplaced
<1> QED
  BY <1>9 DEF g

(* hmap_remove of a key that is there: only then a single pair is its own. *)
LEMMA HmapRemoveIs ==
  ASSUME NEW K, NEW n \in Nat, NEW A \in [K -> 0 .. n - 1],
         NEW h, IsMap(h, K, A, n), NEW k \in K, Got(h, A, k) # 0
  PROVE  LET g == HmapRemove(h, A[k], k) IN
         IsMap(g, K, A, n) /\ MapSets(g, h, K, A, k, 0)
<1> DEFINE g == HmapRemove(h, A[k], k)
           s == h[A[k]]
           l == SlotPairs(s)
<1>1. /\ IsSlot(s, K) /\ A[k] \in 0 .. n - 1
      /\ h = [a \in 0 .. n - 1 |-> h[a]]
  BY DEF IsMap
<1>2. /\ IsList(l, K)
      /\ \/ s.list = <<>> /\ l = s.single /\ Len(s.single) <= 1
         \/ s.single = <<>> /\ s.list # <<>> /\ l = s.list[1]
  BY <1>1, SlotPairsIs
<1>3. HasKey(l, k)
  <2>1. ListGet(l, k) # 0
    BY DEF Got
  <2> HIDE DEF l
  <2> QED
    BY <2>1, ListGetNone
<1>4. \E t : IsSlot(t, K) /\ Sets(t, s, K, k, 0) /\ g = [h EXCEPT ![A[k]] = t]
  <2>1. CASE s.list = <<>> /\ l = s.single /\ Len(s.single) <= 1
    <3> DEFINE t == [single |-> <<>>, list |-> <<>>]
    <3>1. IsSlot(t, K) /\ SlotPairs(t) = <<>>
      BY EmptyList, SlotOfSingle
    <3>2. l # <<>>
      <4> HIDE DEF l
      <4> QED
        BY <1>3 DEF HasKey
    <3>3. g = [h EXCEPT ![A[k]] = t]
      <4>1. s.single # <<>> /\ s.list = <<>> /\ s = [single |-> s.single, list |-> s.list]
        BY <1>1, <2>1, <3>2 DEF IsSlot
      <4>2. t = [s EXCEPT !.single = <<>>]
        BY <4>1
      <4>3. g = [h EXCEPT ![A[k]] = [s EXCEPT !.single = <<>>]]
        BY <4>1 DEF HmapRemove
      <4> QED
        BY <4>2, <4>3
    <3>4. ASSUME NEW j \in K
          PROVE  ListGet(SlotPairs(t), j) = IF j = k THEN 0 ELSE ListGet(l, j)
      <4>1. ListGet(SlotPairs(t), j) = 0
        BY <3>1, EmptyList
      <4>2. j # k => ListGet(l, j) = 0
        <5> HIDE DEF l
        <5>1. Len(l) <= 1
          BY <2>1
        <5> QED
          BY <1>2, <1>3, <3>2, <5>1, SingleList, ListGetNone
      <4> QED
        BY <4>1, <4>2
    <3> QED
      BY <3>1, <3>3, <3>4 DEF Sets
  <2>2. CASE s.single = <<>> /\ s.list # <<>> /\ l = s.list[1]
    <3> DEFINE m == ListRemove(l, k)
               t == [single |-> <<>>, list |-> <<m>>]
    <3>1. IsList(m, K) /\ \A j \in K : ListGet(m, j) = IF j = k THEN 0 ELSE ListGet(l, j)
      <4> HIDE DEF l
      <4> QED
        BY <1>2, ListRemoveIs
    <3>2. IsSlot(t, K) /\ SlotPairs(t) = m
      <4> HIDE DEF m
      <4> QED
        BY SMTT(30), <3>1, SlotOfList
    <3>3. s = [single |-> <<>>, list |-> <<l>>]
      BY <1>1, <2>2 DEF IsSlot
    <3>4. g = [h EXCEPT ![A[k]] = [s EXCEPT !.list = [s.list EXCEPT ![1] = m]]]
      BY <2>2 DEF HmapRemove
    <3>5. [s EXCEPT !.list = [s.list EXCEPT ![1] = m]] = t
      <4> HIDE DEF m, l
      <4>1. s.list = <<l>>
        BY <3>3
      <4>2. [s.list EXCEPT ![1] = m] = <<m>>
        BY <4>1
      <4> QED
        BY <3>3, <4>2
    <3>6. Sets(t, s, K, k, 0)
      <4> HIDE DEF t, m
      <4> QED
        BY <3>1, <3>2 DEF Sets
    <3> QED
      BY <3>2, <3>4, <3>5, <3>6
  <2> QED
    BY <1>2, <2>1, <2>2
<1>5. PICK t : IsSlot(t, K) /\ Sets(t, s, K, k, 0) /\ g = [h EXCEPT ![A[k]] = t]
  BY <1>4
<1> HIDE DEF g
<1>6. IsMap(g, K, A, n) /\ MapSets(g, h, K, A, k, 0)
  BY <1>5, SlotReplaced
<1> QED
  BY <1>6 DEF g

LEMMA HmapNewIs ==
  ASSUME NEW K, NEW n \in Nat, NEW A \in [K -> 0 .. n - 1]
  PROVE  /\ IsMap(HmapNew(n), K, A, n)
         /\ \A k \in K : Got(HmapNew(n), A, k) = 0
<1> DEFINE h == HmapNew(n)
<1>1. /\ h = [a \in 0 .. n - 1 |-> h[a]]
      /\ \A a \in 0 .. n - 1 : h[a] = EmptySlot
  BY DEF HmapNew
<1>2. IsSlot(EmptySlot, K) /\ SlotPairs(EmptySlot) = <<>>
  BY EmptyList, SlotOfSingle DEF EmptySlot
<1>3. \A k : ListGet(<<>>, k) = 0
  BY EmptyList
<1> HIDE DEF h
<1>4. IsMap(h, K, A, n)
  BY <1>1, <1>2, <1>3 DEF IsMap
<1>5. ASSUME NEW k \in K
      PROVE  Got(h, A, k) = 0
  BY <1>1, <1>2, <1>3 DEF Got
<1> QED
  BY <1>4, <1>5 DEF h

-----------------------------------------------------------------------------
(* The array map.  A position in range has a cell of its own in one of the *)
(* arrays, and there are no others that are used.                          *)
LEMMA Division ==
  ASSUME NEW p \in Nat, NEW u \in Nat \ {0}
  PROVE  /\ p \div u \in Nat /\ p % u \in 0 .. u - 1 /\ p % u \in Nat
         /\ p = u * (p \div u) + (p % u)
BY SMTT(30)

LEMMA Multiples ==
  ASSUME NEW a \in Nat, NEW b \in Nat, NEW c \in Nat \ {0}
  PROVE  /\ a * c \in Nat
         /\ a < b => a * c < b * c
         /\ a * c = b * c => a = b
         /\ c * a < c * b => a < b
BY SMTT(30)

LEMMA Multiple ==
  ASSUME NEW a \in Nat, NEW u \in Nat \ {0}
  PROVE  (u * a) \div u = a
<1>1. /\ u * a \in Nat
  BY SMTT(30)
<1>2. /\ (u * a) \div u \in Nat /\ (u * a) % u \in 0 .. u - 1
      /\ u * a = u * ((u * a) \div u) + ((u * a) % u)
  BY Zenon, <1>1, Division
<1> DEFINE q == (u * a) \div u
           r == (u * a) % u
<1> HIDE DEF q, r
<1>3. q \in Nat /\ r \in Nat /\ r < u /\ u * a = u * q + r
  BY <1>2 DEF q, r
<1>4. u * (a - q) = r
  BY SMTT(30), <1>3
<1>5. a - q >= 1 => u * (a - q) >= u
  BY SMTT(30), <1>3
<1>6. a - q <= -1 => u * (a - q) < 0
  BY SMTT(30), <1>3
<1>7. a = q
  BY <1>3, <1>4, <1>5, <1>6
<1> QED
  BY <1>7 DEF q

LEMMA RoundUpIs ==
  ASSUME NEW size \in Nat \ {0}
  PROVE  \E n \in Nat \ {0} :
           /\ RoundUp(size) = Unit * n /\ RoundUp(size) \div Unit = n
           /\ RoundUp(size) \in Nat \ {0} /\ size <= RoundUp(size)
<1> DEFINE q == size \div Unit
           r == size % Unit
<1>1. /\ Unit \in Nat \ {0} /\ q \in Nat /\ r \in 0 .. Unit - 1
      /\ size = Unit * q + r
  BY UnitAssumption, Division
<1>2. RoundUp(size) = IF r = 0 THEN size ELSE Unit * (1 + q)
  BY DEF RoundUp
<1> HIDE DEF q, r
<1> DEFINE n == IF r = 0 THEN q ELSE 1 + q
<1>3. RoundUp(size) = Unit * n /\ n \in Nat \ {0} /\ size <= RoundUp(size)
  <2>1. CASE r = 0
    <3>1. q # 0
      BY SMTT(30), <1>1, <2>1
    <3> QED
      BY SMTT(30), <1>1, <1>2, <2>1, <3>1
  <2>2. CASE r # 0
    <3>1. Unit * (1 + q) = Unit * q + Unit
      BY SMTT(30), <1>1
    <3> QED
      BY SMTT(30), <1>1, <1>2, <2>2, <3>1
  <2> QED
    BY <2>1, <2>2
<1> HIDE DEF n
<1>4. RoundUp(size) \div Unit = n
  BY <1>1, <1>3, Multiple
<1>5. RoundUp(size) \in Nat \ {0}
  BY SMTT(30), <1>1, <1>3
<1> QED
  BY <1>3, <1>4, <1>5

(* The cells of the array map of a size.                                   *)
Rows(size) == 0 .. NumArrays(size) - 1
Columns == 0 .. ArrayLength - 1

LEMMA CellIs ==
  ASSUME NEW size \in Nat \ {0}, NEW p \in 0 .. RoundUp(size) - 1
  PROVE  Cell(p)[1] \in Rows(size) /\ Cell(p)[2] \in Columns
<1>1. PICK n \in Nat \ {0} :
        /\ RoundUp(size) = Unit * n /\ RoundUp(size) \div Unit = n
        /\ RoundUp(size) \in Nat \ {0}
  BY RoundUpIs
<1> DEFINE q == p \div Unit
           r == p % Unit
<1>2. p \in Nat /\ p < Unit * n
  BY <1>1
<1>3. /\ Unit \in Nat \ {0} /\ Times \in Nat \ {0}
      /\ q \in Nat /\ r \in 0 .. Unit - 1 /\ p = Unit * q + r
  BY <1>2, UnitAssumption, Division
<1>4. Cell(p)[1] = q * Times /\ Cell(p)[2] = r * Times
  BY DEF Cell
<1> HIDE DEF q, r
<1>5. NumArrays(size) = n * Times
  BY <1>1 DEF NumArrays
<1>6. q < n
  <2>1. Unit * q \in Nat /\ Unit * n \in Nat
    BY SMTT(30), <1>3
  <2>2. Unit * q < Unit * n
    BY <1>2, <1>3, <2>1
  <2> QED
    BY <1>3, <2>2, Multiples
<1>7. q * Times \in Nat /\ n * Times \in Nat /\ q * Times < n * Times
  BY <1>3, <1>6, Multiples
<1>8. r * Times \in Nat /\ Unit * Times \in Nat /\ r * Times < Unit * Times
  <2>1. r \in Nat /\ Unit \in Nat /\ r < Unit
    BY <1>3
  <2> QED
    BY <1>3, <2>1, Multiples
<1>9. q * Times \in Rows(size)
  <2>1. \A a, b \in Nat : a < b => a \in 0 .. b - 1
    OBVIOUS
  <2> QED
    BY <1>5, <1>7, <2>1 DEF Rows
<1>10. r * Times \in Columns
  <2>1. \A a, b \in Nat : a < b => a \in 0 .. b - 1
    OBVIOUS
  <2> QED
    BY <1>8, <2>1 DEF Columns, ArrayLength
<1> QED
  BY <1>4, <1>9, <1>10

LEMMA CellsApart ==
  ASSUME NEW p \in Nat, NEW q \in Nat,
         Cell(p)[1] = Cell(q)[1], Cell(p)[2] = Cell(q)[2]
  PROVE  p = q
<1>1. /\ p \div Unit \in Nat /\ p % Unit \in Nat
      /\ p = Unit * (p \div Unit) + (p % Unit)
  BY Zenon, UnitAssumption, Division
<1>2. /\ q \div Unit \in Nat /\ q % Unit \in Nat
      /\ q = Unit * (q \div Unit) + (q % Unit)
  BY Zenon, UnitAssumption, Division
<1>3. /\ (p \div Unit) * Times = (q \div Unit) * Times
      /\ (p % Unit) * Times = (q % Unit) * Times
  BY DEF Cell
<1>4. p \div Unit = q \div Unit /\ p % Unit = q % Unit
  BY <1>1, <1>2, <1>3, UnitAssumption, Multiples
<1> QED
  BY <1>1, <1>2, <1>4

(* An array map of values in V or 0.                                       *)
IsAmap(a, size, V) ==
  /\ a = [size |-> RoundUp(size), arrays |-> a.arrays]
  /\ a.arrays \in [Rows(size) -> [Columns -> V]]

LEMMA AmapNewIs ==
  ASSUME NEW size \in Nat \ {0}, NEW V, 0 \in V
  PROVE  /\ IsAmap(AmapNew(size), size, V)
         /\ \A i \in Rows(size), j \in Columns : AmapNew(size).arrays[i][j] = 0
<1> DEFINE f == [i \in Rows(size) |-> [j \in Columns |-> 0]]
<1>1. AmapNew(size) = [size |-> RoundUp(size), arrays |-> f]
  BY DEF AmapNew, Rows, Columns
<1>2. f \in [Rows(size) -> [Columns -> V]] /\ \A i \in Rows(size), j \in Columns : f[i][j] = 0
  OBVIOUS
<1> HIDE DEF f
<1> QED
  BY <1>1, <1>2 DEF IsAmap

LEMMA AmapSetIs ==
  ASSUME NEW size \in Nat \ {0}, NEW V, NEW a, IsAmap(a, size, V),
         NEW p \in 0 .. RoundUp(size) - 1, NEW v \in V
  PROVE  LET b == AmapSet(a, p, v) IN
         /\ IsAmap(b, size, V)
         /\ \A i \in Rows(size), j \in Columns :
              b.arrays[i][j] = IF i = Cell(p)[1] /\ j = Cell(p)[2] THEN v
                               ELSE a.arrays[i][j]
<1> DEFINE i0 == Cell(p)[1]
           j0 == Cell(p)[2]
           f == a.arrays
           g == [f EXCEPT ![i0][j0] = v]
           b == AmapSet(a, p, v)
<1>1. i0 \in Rows(size) /\ j0 \in Columns
  BY CellIs
<1>2. a = [size |-> RoundUp(size), arrays |-> f] /\ f \in [Rows(size) -> [Columns -> V]]
  BY DEF IsAmap
<1>3. b = [a EXCEPT !.arrays = g]
  BY DEF AmapSet
<1> HIDE DEF i0, j0, f, b
<1>4. /\ g \in [Rows(size) -> [Columns -> V]]
      /\ \A i \in Rows(size), j \in Columns :
           g[i][j] = IF i = i0 /\ j = j0 THEN v ELSE f[i][j]
  BY <1>1, <1>2
<1> HIDE DEF g
<1>5. b = [size |-> RoundUp(size), arrays |-> g]
  BY <1>2, <1>3
<1> QED
  BY <1>4, <1>5 DEF IsAmap, b, i0, j0, f

LEMMA AmapGetIs ==
  ASSUME NEW size \in Nat \ {0}, NEW V, NEW a, IsAmap(a, size, V),
         NEW p \in 0 .. RoundUp(size) - 1
  PROVE  InRange(a, p) /\ AmapGet(a, p) = a.arrays[Cell(p)[1]][Cell(p)[2]]
<1>1. RoundUp(size) \in Nat
  BY RoundUpIs
<1> QED
  BY <1>1 DEF IsAmap, InRange, AmapGet

-----------------------------------------------------------------------------
(* The addresses of descriptors, virtual descriptors and paths.            *)
Numbers == Nat \ {0}
FdAddr == [f \in Fds |-> AddrL(f)]
VfdAddr == [m \in Numbers |-> AddrL(m)]
PathAddr == [x \in Paths |-> Addr(x)]

LEMMA AddressesAre ==
  /\ MapSize \in Nat /\ MaxProcesses \in Nat
  /\ FdAddr \in [Fds -> 0 .. MapSize - 1]
  /\ VfdAddr \in [Numbers -> 0 .. MapSize - 1]
  /\ PathAddr \in [Paths -> 0 .. MaxProcesses - 1]
<1>1. MapSize \in Nat \ {0} /\ MaxProcesses \in Nat \ {0}
  BY MapsAssumption
<1>2. ASSUME NEW k \in Nat
      PROVE  AddrL(k) \in 0 .. MapSize - 1
  BY Zenon, <1>1, Division DEF AddrL
<1>3. ASSUME NEW x \in Paths
      PROVE  Addr(x) \in 0 .. MaxProcesses - 1
  <2>1. Hash[x] \in Nat
    BY HashAssumption
  <2> QED
    BY Zenon, <1>1, <2>1, Division DEF Addr
<1>4. Fds \subseteq Nat /\ Numbers \subseteq Nat
  BY PidsAssumption DEF Numbers
<1>5. FdAddr \in [Fds -> 0 .. MapSize - 1]
  BY <1>2, <1>4 DEF FdAddr
<1>6. VfdAddr \in [Numbers -> 0 .. MapSize - 1]
  BY <1>2, <1>4 DEF VfdAddr
<1>7. PathAddr \in [Paths -> 0 .. MaxProcesses - 1]
  BY <1>3 DEF PathAddr
<1> QED
  BY <1>1, <1>5, <1>6, <1>7

-----------------------------------------------------------------------------
(* A process: what fd_map says, and that vfd_map has an object of the same *)
(* number for it and no others.                                            *)
FdOf(gp, f) == Got(gp.fd_map, FdAddr, f)
VfdOf(gp, m) == Got(gp.vfd_map, VfdAddr, m)
Linked(gp, num) ==
  /\ \A f \in Fds : FdOf(gp, f) # 0 => VfdOf(gp, FdOf(gp, f)) # 0
  /\ \A m \in Numbers : VfdOf(gp, m) # 0 =>
       VfdOf(gp, m) = m /\ m <= num /\ \E f \in Fds : FdOf(gp, f) = m
  /\ \A f, g \in Fds : FdOf(gp, f) = FdOf(gp, g) /\ FdOf(gp, f) # 0 => f = g
HasMaps(gp) ==
  /\ IsMap(gp.fd_map, Fds, FdAddr, MapSize)
  /\ IsMap(gp.vfd_map, Numbers, VfdAddr, MapSize)
IsProcess(gp, num) == HasMaps(gp) /\ Linked(gp, num)

(* What the operations find in the maps of a process.                      *)
LEMMA FoundIs ==
  ASSUME NEW gp, HasMaps(gp)
  PROVE  /\ \A f \in Fds : /\ HmapGet(gp.fd_map, AddrL(f), f) = FdOf(gp, f)
                           /\ FdOf(gp, f) \in Nat
         /\ \A m \in Numbers : /\ HmapGet(gp.vfd_map, AddrL(m), m) = VfdOf(gp, m)
                               /\ VfdOf(gp, m) \in Nat
<1>1. ASSUME NEW f \in Fds
      PROVE  HmapGet(gp.fd_map, AddrL(f), f) = FdOf(gp, f) /\ FdOf(gp, f) \in Nat
  <2>1. AddrL(f) = FdAddr[f]
    BY DEF FdAddr
  <2>2. HmapGet(gp.fd_map, FdAddr[f], f) = FdOf(gp, f) /\ FdOf(gp, f) \in Nat
    BY AddressesAre, HmapGetIs DEF HasMaps, FdOf
  <2> QED
    BY <2>1, <2>2
<1>2. ASSUME NEW m \in Numbers
      PROVE  HmapGet(gp.vfd_map, AddrL(m), m) = VfdOf(gp, m) /\ VfdOf(gp, m) \in Nat
  <2>1. AddrL(m) = VfdAddr[m]
    BY DEF VfdAddr
  <2>2. HmapGet(gp.vfd_map, VfdAddr[m], m) = VfdOf(gp, m) /\ VfdOf(gp, m) \in Nat
    BY AddressesAre, HmapGetIs DEF HasMaps, VfdOf
  <2> QED
    BY <2>1, <2>2
<1> QED
  BY <1>1, <1>2

LEMMA VfdByRealfdIs ==
  ASSUME NEW gp, NEW num, IsProcess(gp, num), NEW f \in Fds
  PROVE  /\ VfdByRealfd(gp, f) = FdOf(gp, f) /\ FdOf(gp, f) \in Nat
         /\ HmapGet(gp.fd_map, AddrL(f), f) = FdOf(gp, f)
         /\ FdOf(gp, f) # 0 =>
              /\ FdOf(gp, f) \in Numbers /\ FdOf(gp, f) <= num
              /\ VfdOf(gp, FdOf(gp, f)) = FdOf(gp, f)
              /\ HmapGet(gp.vfd_map, AddrL(FdOf(gp, f)), FdOf(gp, f)) = FdOf(gp, f)
<1> DEFINE m == FdOf(gp, f)
<1>1. HmapGet(gp.fd_map, AddrL(f), f) = m /\ m \in Nat
  BY FoundIs DEF IsProcess
<1>2. ASSUME m # 0
      PROVE  /\ m \in Numbers /\ VfdOf(gp, m) = m /\ m <= num
             /\ HmapGet(gp.vfd_map, AddrL(m), m) = m
  <2>1. m \in Numbers
    BY <1>1, <1>2 DEF Numbers
  <2>2. VfdOf(gp, m) # 0
    BY <1>2 DEF IsProcess, Linked
  <2> HIDE DEF m
  <2>3. VfdOf(gp, m) = m /\ m <= num
    BY <2>1, <2>2 DEF IsProcess, Linked
  <2>4. HmapGet(gp.vfd_map, AddrL(m), m) = m
    BY <2>1, <2>3, FoundIs DEF IsProcess
  <2> QED
    BY <2>1, <2>3, <2>4
<1>3. VfdByRealfd(gp, f) = m
  BY <1>1, <1>2 DEF VfdByRealfd
<1> QED
  BY <1>1, <1>2, <1>3

LEMMA NewProcess ==
  ASSUME NEW num \in Nat
  PROVE  IsProcess(GprocessNew, num) /\ \A f \in Fds : FdOf(GprocessNew, f) = 0
<1>1. /\ IsMap(GprocessNew.fd_map, Fds, FdAddr, MapSize)
      /\ \A f \in Fds : FdOf(GprocessNew, f) = 0
  BY AddressesAre, HmapNewIs DEF GprocessNew, FdOf
<1>2. /\ IsMap(GprocessNew.vfd_map, Numbers, VfdAddr, MapSize)
      /\ \A m \in Numbers : VfdOf(GprocessNew, m) = 0
  BY AddressesAre, HmapNewIs DEF GprocessNew, VfdOf
<1> QED
  BY <1>1, <1>2 DEF IsProcess, HasMaps, Linked

(* One more virtual descriptor changes nothing for a process.              *)
LEMMA ProcessLater ==
  ASSUME NEW num \in Nat, NEW later \in Nat, num <= later,
         NEW gp, IsProcess(gp, num)
  PROVE  IsProcess(gp, later)
<1>1. \A m \in Numbers : m <= num => m <= later
  BY DEF Numbers
<1> QED
  BY <1>1 DEF IsProcess, Linked

LEMMA ForgetVfdIs ==
  ASSUME NEW num \in Nat, NEW gp, IsProcess(gp, num),
         NEW f \in Fds, FdOf(gp, f) # 0
  PROVE  /\ IsProcess(ForgetVfd(gp, f), num)
         /\ \A g \in Fds : FdOf(ForgetVfd(gp, f), g) = IF g = f THEN 0 ELSE FdOf(gp, g)
<1> DEFINE m == FdOf(gp, f)
           fm == HmapRemove(gp.fd_map, FdAddr[f], f)
           vm == HmapRemove(gp.vfd_map, VfdAddr[m], m)
           new == ForgetVfd(gp, f)
<1>1. /\ HmapGet(gp.fd_map, AddrL(f), f) = m /\ m \in Numbers
      /\ VfdOf(gp, m) = m /\ m # 0
  BY VfdByRealfdIs
<1>2. AddrL(f) = FdAddr[f] /\ AddrL(m) = VfdAddr[m]
  BY <1>1 DEF FdAddr, VfdAddr
<1>3. new = [fd_map |-> fm, vfd_map |-> vm]
  BY <1>1, <1>2 DEF ForgetVfd
<1> HIDE DEF m
<1>4. /\ IsMap(fm, Fds, FdAddr, MapSize)
      /\ MapSets(fm, gp.fd_map, Fds, FdAddr, f, 0)
  <2>1. Got(gp.fd_map, FdAddr, f) # 0
    BY DEF FdOf
  <2> QED
    BY <2>1, AddressesAre, HmapRemoveIs DEF IsProcess, HasMaps
<1>5. /\ IsMap(vm, Numbers, VfdAddr, MapSize)
      /\ MapSets(vm, gp.vfd_map, Numbers, VfdAddr, m, 0)
  <2>1. Got(gp.vfd_map, VfdAddr, m) # 0
    BY <1>1 DEF VfdOf
  <2> QED
    BY <1>1, <2>1, AddressesAre, HmapRemoveIs DEF IsProcess, HasMaps
<1> HIDE DEF fm, vm, new
<1>6. \A g \in Fds : FdOf(new, g) = IF g = f THEN 0 ELSE FdOf(gp, g)
  BY <1>3, <1>4 DEF MapSets, FdOf
<1>7. \A i \in Numbers : VfdOf(new, i) = IF i = m THEN 0 ELSE VfdOf(gp, i)
  BY <1>3, <1>5 DEF MapSets, VfdOf
<1>8. HasMaps(new)
  BY <1>3, <1>4, <1>5 DEF HasMaps
<1>9. FdOf(gp, f) = m
  BY DEF m
<1>10. Linked(gp, num)
  BY DEF IsProcess
<1>11. ASSUME NEW g \in Fds, FdOf(new, g) # 0
       PROVE  VfdOf(new, FdOf(new, g)) # 0
  <2>1. g # f /\ FdOf(new, g) = FdOf(gp, g) /\ FdOf(gp, g) # m
    BY <1>6, <1>9, <1>10, <1>11 DEF Linked
  <2>2. FdOf(gp, g) \in Numbers /\ VfdOf(gp, FdOf(gp, g)) # 0
    BY <1>11, <2>1, VfdByRealfdIs
  <2> QED
    BY <1>7, <2>1, <2>2
<1>12. ASSUME NEW i \in Numbers, VfdOf(new, i) # 0
       PROVE  VfdOf(new, i) = i /\ i <= num /\ \E g \in Fds : FdOf(new, g) = i
  <2>1. i # m /\ VfdOf(new, i) = VfdOf(gp, i)
    BY <1>7, <1>12
  <2>2. VfdOf(gp, i) = i /\ i <= num
    BY <1>10, <1>12, <2>1 DEF Linked
  <2>3. PICK g \in Fds : FdOf(gp, g) = i
    BY <1>10, <1>12, <2>1 DEF Linked
  <2>4. FdOf(new, g) = i
    BY <1>6, <1>9, <2>1, <2>3
  <2> QED
    BY <2>1, <2>2, <2>4
<1>13. \A g, h \in Fds : FdOf(new, g) = FdOf(new, h) /\ FdOf(new, g) # 0 => g = h
  BY <1>6, <1>10 DEF Linked
<1>14. IsProcess(new, num)
  BY <1>8, <1>11, <1>12, <1>13 DEF IsProcess, Linked
<1> QED
  BY <1>6, <1>14 DEF new

(* The new virtual descriptor that an open makes.                          *)
Created(gp, f, m) ==
  [fd_map |-> HmapInsert(gp.fd_map, AddrL(f), f, m),
   vfd_map |-> HmapInsert(gp.vfd_map, AddrL(m), m, m)]

LEMMA CreatedIs ==
  ASSUME NEW num \in Nat, NEW gp, IsProcess(gp, num),
         NEW f \in Fds, FdOf(gp, f) = 0
  PROVE  /\ IsProcess(Created(gp, f, num + 1), num + 1)
         /\ \A g \in Fds : FdOf(Created(gp, f, num + 1), g) =
                             IF g = f THEN num + 1 ELSE FdOf(gp, g)
<1> DEFINE m == num + 1
           fm == HmapInsert(gp.fd_map, FdAddr[f], f, m)
           vm == HmapInsert(gp.vfd_map, VfdAddr[m], m, m)
           new == Created(gp, f, m)
<1>1. m \in Numbers /\ m \in Nat \ {0} /\ m # 0 /\ ~(m <= num)
  BY DEF Numbers
<1>2. Linked(gp, num)
  BY DEF IsProcess
<1>3. \A i \in Numbers : i <= num => i <= m
  BY DEF Numbers
<1> HIDE DEF m
<1>4. AddrL(f) = FdAddr[f] /\ AddrL(m) = VfdAddr[m]
  BY <1>1 DEF FdAddr, VfdAddr
<1>5. new = [fd_map |-> fm, vfd_map |-> vm]
  BY <1>4 DEF Created
<1>6. /\ IsMap(fm, Fds, FdAddr, MapSize)
      /\ MapSets(fm, gp.fd_map, Fds, FdAddr, f, m)
  <2>1. Got(gp.fd_map, FdAddr, f) = 0
    BY DEF FdOf
  <2> QED
    BY <1>1, <2>1, AddressesAre, HmapInsertIs DEF IsProcess, HasMaps
<1>7. VfdOf(gp, m) = 0
  BY <1>1, <1>2 DEF Linked
<1>8. /\ IsMap(vm, Numbers, VfdAddr, MapSize)
      /\ MapSets(vm, gp.vfd_map, Numbers, VfdAddr, m, m)
  <2>1. Got(gp.vfd_map, VfdAddr, m) = 0
    BY <1>7 DEF VfdOf
  <2> QED
    BY <1>1, <2>1, AddressesAre, HmapInsertIs DEF IsProcess, HasMaps
<1> HIDE DEF fm, vm, new
<1>9. \A g \in Fds : FdOf(new, g) = IF g = f THEN m ELSE FdOf(gp, g)
  BY <1>5, <1>6 DEF MapSets, FdOf
<1>10. \A i \in Numbers : VfdOf(new, i) = IF i = m THEN m ELSE VfdOf(gp, i)
  BY <1>5, <1>8 DEF MapSets, VfdOf
<1>11. HasMaps(new)
  BY <1>5, <1>6, <1>8 DEF HasMaps
<1>12. ASSUME NEW g \in Fds
       PROVE  FdOf(gp, g) # m
  <2>1. CASE FdOf(gp, g) = 0
    BY <1>1, <2>1
  <2>2. CASE FdOf(gp, g) # 0
    <3>1. FdOf(gp, g) <= num
      BY <2>2, VfdByRealfdIs
    <3> QED
      BY <1>1, <3>1
  <2> QED
    BY <2>1, <2>2
<1>13. ASSUME NEW g \in Fds, FdOf(new, g) # 0
       PROVE  VfdOf(new, FdOf(new, g)) # 0
  <2>1. CASE g = f
    BY <1>1, <1>9, <1>10, <2>1
  <2>2. CASE g # f
    <3>1. FdOf(new, g) = FdOf(gp, g)
      BY <1>9, <2>2
    <3>2. FdOf(gp, g) \in Numbers /\ VfdOf(gp, FdOf(gp, g)) # 0
      BY <1>13, <3>1, VfdByRealfdIs
    <3> QED
      BY <1>10, <1>1, <3>1, <3>2
  <2> QED
    BY <2>1, <2>2
<1>14. ASSUME NEW i \in Numbers, VfdOf(new, i) # 0
       PROVE  VfdOf(new, i) = i /\ i <= m /\ \E g \in Fds : FdOf(new, g) = i
  <2>1. CASE i = m
    <3>1. m <= m
      BY <1>1
    <3> QED
      BY <1>9, <1>10, <2>1, <3>1
  <2>2. CASE i # m
    <3>1. VfdOf(new, i) = VfdOf(gp, i)
      BY <1>10, <2>2
    <3>2. VfdOf(gp, i) = i /\ i <= num
      BY <1>2, <1>14, <3>1 DEF Linked
    <3>3. PICK g \in Fds : FdOf(gp, g) = i
      BY <1>2, <1>14, <3>1 DEF Linked
    <3>4. g # f /\ i # 0
      BY <3>3 DEF Numbers
    <3> QED
      BY <1>3, <1>9, <3>1, <3>2, <3>3, <3>4
  <2> QED
    BY <2>1, <2>2
<1>15. \A g, h \in Fds : FdOf(new, g) = FdOf(new, h) /\ FdOf(new, g) # 0 => g = h
  BY <1>2, <1>9, <1>12 DEF Linked
<1>16. IsProcess(new, m)
  BY <1>11, <1>13, <1>14, <1>15 DEF IsProcess, Linked
<1> QED
  BY <1>9, <1>16 DEF new, m

-----------------------------------------------------------------------------
(* Sequences of whatever it is.                                            *)
IsSeq(s) == s \in Seq(ToSet(s))

LEMMA SeqIs ==
  ASSUME NEW S, NEW s \in Seq(S)
  PROVE  IsSeq(s) /\ Len(s) \in Nat /\ DOMAIN s = 1 .. Len(s)
<1>1. Len(s) \in Nat /\ DOMAIN s = 1 .. Len(s) /\ s = [i \in 1 .. Len(s) |-> s[i]]
  OBVIOUS
<1>2. \A i \in 1 .. Len(s) : s[i] \in ToSet(s)
  BY <1>1 DEF ToSet
<1>3. s \in Seq(ToSet(s))
  BY <1>1, <1>2
<1> QED
  BY <1>1, <1>3 DEF IsSeq

IsAppend(u, s, e) ==
  /\ IsSeq(u) /\ Len(s) \in Nat /\ Len(u) = Len(s) + 1
  /\ \A i \in 1 .. Len(s) : u[i] = s[i]
  /\ u[Len(s) + 1] = e

LEMMA AppendIs ==
  ASSUME NEW s, IsSeq(s), NEW e
  PROVE  IsAppend(Append(s, e), s, e)
<1> DEFINE S == ToSet(s) \cup {e}
<1>1. s \in Seq(S) /\ e \in S
  BY DEF IsSeq
<1> HIDE DEF S
<1>2. /\ Append(s, e) \in Seq(S) /\ Len(Append(s, e)) = Len(s) + 1 /\ Len(s) \in Nat
      /\ \A i \in 1 .. Len(s) : Append(s, e)[i] = s[i]
      /\ Append(s, e)[Len(s) + 1] = e
  BY <1>1, AppendProperties
<1>3. IsSeq(Append(s, e))
  BY <1>2, SeqIs
<1> QED
  BY <1>2, <1>3 DEF IsAppend

IsUpdate(u, s, k, e) ==
  /\ IsSeq(u) /\ Len(u) = Len(s)
  /\ \A i \in 1 .. Len(s) : u[i] = IF i = k THEN e ELSE s[i]

LEMMA UpdateIs ==
  ASSUME NEW s, IsSeq(s), NEW k \in 1 .. Len(s), NEW e
  PROVE  IsUpdate([s EXCEPT ![k] = e], s, k, e)
<1> DEFINE S == ToSet(s) \cup {e}
<1>1. s \in Seq(S) /\ e \in S
  BY DEF IsSeq
<1> HIDE DEF S
<1>2. /\ [s EXCEPT ![k] = e] \in Seq(S) /\ Len([s EXCEPT ![k] = e]) = Len(s)
      /\ \A i \in 1 .. Len(s) : [s EXCEPT ![k] = e][i] = IF i = k THEN e ELSE s[i]
  BY <1>1, ExceptSeq
<1>3. IsSeq([s EXCEPT ![k] = e])
  BY <1>2, SeqIs
<1> QED
  BY <1>2, <1>3 DEF IsUpdate


-----------------------------------------------------------------------------
(* pid_map and the objects that it points to: num is the last virtual      *)
(* descriptor.                                                             *)
Objects(gs, num) ==
  /\ IsSeq(gs)
  /\ \A i \in 1 .. Len(gs) :
       gs[i] # <<>> => gs[i] = <<gs[i][1]>> /\ IsProcess(gs[i][1], num)
InUse(pm, gs) ==
  \A i \in Rows(MaxProcesses), j \in Columns :
    pm.arrays[i][j] # 0 =>
      pm.arrays[i][j] \in 1 .. Len(gs) /\ gs[pm.arrays[i][j]] # <<>>
OneCell(pm) ==
  \A i, k \in Rows(MaxProcesses) : \A j, l \in Columns :
    pm.arrays[i][j] # 0 /\ pm.arrays[i][j] = pm.arrays[k][l] => i = k /\ j = l
Reached(pm, gs) ==
  \A n \in 1 .. Len(gs) : gs[n] # <<>> =>
    \E i \in Rows(MaxProcesses), j \in Columns : pm.arrays[i][j] = n
World(pm, gs, num) ==
  /\ num \in Nat
  /\ IsAmap(pm, MaxProcesses, Nat)
  /\ Objects(gs, num)
  /\ InUse(pm, gs)
  /\ OneCell(pm)
  /\ Reached(pm, gs)

MappedIn(pm, gs, p, f) ==
  IF AmapGet(pm, p) = 0 THEN 0 ELSE VfdByRealfd(gs[AmapGet(pm, p)][1], f)

(* The object of a process is its own.                                     *)
LEMMA WorldGet ==
  ASSUME NEW pm, NEW gs, NEW num, World(pm, gs, num), NEW p \in Nat
  PROVE  LET n == AmapGet(pm, p) IN
         /\ n \in Nat
         /\ n # 0 => /\ InRange(pm, p) /\ n \in 1 .. Len(gs)
                     /\ gs[n] = <<gs[n][1]>> /\ gs[n] # <<>>
                     /\ IsProcess(gs[n][1], num)
         /\ \A f \in Fds : MappedIn(pm, gs, p, f) = IF n = 0 THEN 0 ELSE FdOf(gs[n][1], f)
         /\ \A q \in Nat : n # 0 /\ AmapGet(pm, q) = n => q = p
<1> DEFINE n == AmapGet(pm, p)
<1>1. /\ MaxProcesses \in Nat \ {0} /\ RoundUp(MaxProcesses) \in Nat
      /\ IsAmap(pm, MaxProcesses, Nat) /\ pm.size = RoundUp(MaxProcesses)
      /\ pm.arrays \in [Rows(MaxProcesses) -> [Columns -> Nat]]
  BY MapsAssumption, RoundUpIs DEF World, IsAmap
<1>2. ASSUME NEW q \in Nat
      PROVE  IF InRange(pm, q)
             THEN /\ AmapGet(pm, q) = pm.arrays[Cell(q)[1]][Cell(q)[2]]
                  /\ Cell(q)[1] \in Rows(MaxProcesses) /\ Cell(q)[2] \in Columns
             ELSE AmapGet(pm, q) = 0
  <2>1. CASE InRange(pm, q)
    <3>1. q \in 0 .. RoundUp(MaxProcesses) - 1
      BY <1>1, <2>1 DEF InRange
    <3> QED
      BY <1>1, <2>1, <3>1, CellIs, AmapGetIs
  <2>2. CASE ~InRange(pm, q)
    BY <2>2 DEF AmapGet
  <2> QED
    BY <2>1, <2>2
<1> DEFINE i == Cell(p)[1]
           j == Cell(p)[2]
<1>3. n \in Nat
  BY <1>1, <1>2
<1>4. ASSUME n # 0
      PROVE  /\ InRange(pm, p) /\ n \in 1 .. Len(gs)
             /\ gs[n] = <<gs[n][1]>> /\ gs[n] # <<>>
             /\ IsProcess(gs[n][1], num)
  <2>1. InRange(pm, p) /\ n = pm.arrays[i][j] /\ i \in Rows(MaxProcesses) /\ j \in Columns
    BY <1>2, <1>4
  <2> HIDE DEF n, i, j
  <2>2. n \in 1 .. Len(gs) /\ gs[n] # <<>>
    BY <1>4, <2>1 DEF World, InUse
  <2> QED
    BY <2>1, <2>2 DEF World, Objects
<1>5. ASSUME NEW f \in Fds
      PROVE  MappedIn(pm, gs, p, f) = IF n = 0 THEN 0 ELSE FdOf(gs[n][1], f)
  <2>1. CASE n = 0
    BY <2>1 DEF MappedIn
  <2>2. CASE n # 0
    <3>1. MappedIn(pm, gs, p, f) = VfdByRealfd(gs[n][1], f)
      BY <2>2 DEF MappedIn
    <3>2. VfdByRealfd(gs[n][1], f) = FdOf(gs[n][1], f)
      BY <1>4, <2>2, VfdByRealfdIs
    <3> QED
      BY <2>2, <3>1, <3>2
  <2> QED
    BY <2>1, <2>2
<1>6. ASSUME NEW q \in Nat, n # 0, AmapGet(pm, q) = n
      PROVE  q = p
  <2> DEFINE k == Cell(q)[1]
             l == Cell(q)[2]
  <2>1. /\ n = pm.arrays[i][j] /\ i \in Rows(MaxProcesses) /\ j \in Columns
        /\ n = pm.arrays[k][l] /\ k \in Rows(MaxProcesses) /\ l \in Columns
    BY <1>2, <1>6
  <2>2. i = k /\ j = l
    <3>1. OneCell(pm) /\ n # 0
      BY <1>6 DEF World
    <3> HIDE DEF n, i, j, k, l
    <3>2. /\ pm.arrays[i][j] # 0 /\ pm.arrays[i][j] = pm.arrays[k][l]
          /\ i \in Rows(MaxProcesses) /\ j \in Columns
          /\ k \in Rows(MaxProcesses) /\ l \in Columns
      BY <2>1, <3>1
    <3> QED
      BY SMTT(30), <3>1, <3>2 DEF OneCell
  <2> QED
    BY <2>2, CellsApart
<1> QED
  BY <1>3, <1>4, <1>5, <1>6

(* What a process has comes from its object.                               *)
MapsFromObjects(pm, gs) ==
  \A q \in Nat, f \in Fds :
    MappedIn(pm, gs, q, f) = IF AmapGet(pm, q) = 0 THEN 0
                             ELSE FdOf(gs[AmapGet(pm, q)][1], f)

LEMMA WorldMaps ==
  ASSUME NEW pm, NEW gs, NEW num, World(pm, gs, num)
  PROVE  MapsFromObjects(pm, gs)
BY WorldGet DEF MapsFromObjects

(* The process p has the object gp, and the others have what they had.     *)
NowHas(pm, new, gs, p, gp) ==
  \A q \in Nat, f \in Fds :
    MappedIn(pm, new, q, f) = IF q = p THEN FdOf(gp, f) ELSE MappedIn(pm, gs, q, f)

(* Another object for a process.                                           *)
LEMMA WorldReplaced ==
  ASSUME NEW pm, NEW gs, NEW num, World(pm, gs, num), NEW p \in Nat,
         NEW n, n = AmapGet(pm, p), n # 0, NEW later \in Nat, num <= later,
         NEW gp, IsProcess(gp, later), NEW new, new = [gs EXCEPT ![n] = <<gp>>]
  PROVE  World(pm, new, later) /\ NowHas(pm, new, gs, p, gp)
<1>1. num \in Nat /\ n \in 1 .. Len(gs) /\ IsSeq(gs) /\ n # 0
  BY WorldGet DEF World, Objects
<1>2. /\ IsSeq(new) /\ Len(new) = Len(gs)
      /\ new[n] = <<gp>>
      /\ \A i \in 1 .. Len(gs) : i # n => new[i] = gs[i]
  <2>1. IsUpdate(new, gs, n, <<gp>>)
    BY <1>1, UpdateIs
  <2> QED
    BY <1>1, <2>1 DEF IsUpdate
<1>3. new[n] # <<>> /\ new[n][1] = gp
  <2>1. <<gp>> # <<>> /\ <<gp>>[1] = gp
    OBVIOUS
  <2> QED
    BY <1>2, <2>1
<1>4. Objects(new, later)
  <2>1. ASSUME NEW i \in 1 .. Len(new), new[i] # <<>>
        PROVE  new[i] = <<new[i][1]>> /\ IsProcess(new[i][1], later)
    <3>1. CASE i = n
      BY <1>2, <1>3, <3>1
    <3>2. CASE i # n
      <4>1. new[i] = gs[i] /\ IsProcess(gs[i][1], num) /\ gs[i] = <<gs[i][1]>>
        BY <1>2, <2>1, <3>2 DEF World, Objects
      <4> QED
        BY <1>1, <4>1, ProcessLater
    <3> QED
      BY <3>1, <3>2
  <2> QED
    BY <1>2, <2>1 DEF Objects
<1>5. InUse(pm, new)
  BY <1>2, <1>3 DEF World, InUse
<1>6. Reached(pm, new)
  <2>1. ASSUME NEW i \in 1 .. Len(new), new[i] # <<>>
        PROVE  gs[i] # <<>>
    <3>1. gs[n] # <<>>
      BY <1>1, WorldGet
    <3> QED
      BY <1>2, <2>1, <3>1
  <2> QED
    BY <1>2, <2>1 DEF World, Reached
<1>7. World(pm, new, later)
  BY <1>4, <1>5, <1>6 DEF World
<1>8. ASSUME NEW q \in Nat, NEW f \in Fds
      PROVE  MappedIn(pm, new, q, f) = IF q = p THEN FdOf(gp, f)
                                       ELSE MappedIn(pm, gs, q, f)
  <2> DEFINE m == AmapGet(pm, q)
  <2>1. /\ MappedIn(pm, new, q, f) = IF m = 0 THEN 0 ELSE FdOf(new[m][1], f)
        /\ MappedIn(pm, gs, q, f) = IF m = 0 THEN 0 ELSE FdOf(gs[m][1], f)
        /\ m # 0 => m \in 1 .. Len(gs)
    <3>1. MapsFromObjects(pm, new) /\ MapsFromObjects(pm, gs)
      BY <1>7, WorldMaps
    <3>2. m # 0 => m \in 1 .. Len(gs)
      BY WorldGet
    <3> QED
      BY <3>1, <3>2 DEF MapsFromObjects
  <2>2. m = n => q = p
    BY <1>1, WorldGet
  <2>3. q = p => m = n
    OBVIOUS
  <2> HIDE DEF m
  <2>4. CASE q = p
    BY <1>1, <1>3, <2>1, <2>3, <2>4
  <2>5. CASE q # p
    <3>1. m # 0 => new[m] = gs[m]
      BY <1>2, <2>1, <2>2, <2>5
    <3> QED
      BY <2>1, <2>5, <3>1
  <2> QED
    BY <2>4, <2>5
<1> QED
  BY <1>7, <1>8 DEF NowHas

(* The process p has no object, and the others have what they had.         *)
NowWithout(less, pm, new, gs, p) ==
  \A q \in Nat, f \in Fds :
    MappedIn(less, new, q, f) = IF q = p THEN 0 ELSE MappedIn(pm, gs, q, f)

(* The object of a process goes, and pid_map does not point to it.         *)
LEMMA WorldRemoved ==
  ASSUME NEW pm, NEW gs, NEW num, World(pm, gs, num), NEW p \in Nat,
         NEW n, n = AmapGet(pm, p), n # 0,
         NEW new, new = [gs EXCEPT ![n] = <<>>],
         NEW less, less = AmapUnset(pm, p)
  PROVE  World(less, new, num) /\ NowWithout(less, pm, new, gs, p)
<1> DEFINE i0 == Cell(p)[1]
           j0 == Cell(p)[2]
<1>1. /\ num \in Nat /\ n \in 1 .. Len(gs) /\ IsSeq(gs) /\ n # 0 /\ n \in Nat
      /\ InRange(pm, p)
  BY WorldGet DEF World, Objects
<1>2. /\ MaxProcesses \in Nat \ {0} /\ RoundUp(MaxProcesses) \in Nat
      /\ IsAmap(pm, MaxProcesses, Nat) /\ pm.size = RoundUp(MaxProcesses)
  BY MapsAssumption, RoundUpIs DEF World, IsAmap
<1>3. p \in 0 .. RoundUp(MaxProcesses) - 1
  BY <1>1, <1>2 DEF InRange
<1>4. i0 \in Rows(MaxProcesses) /\ j0 \in Columns /\ pm.arrays[i0][j0] = n
  BY <1>2, <1>3, CellIs, AmapGetIs
<1>5. /\ IsAmap(less, MaxProcesses, Nat)
      /\ \A i \in Rows(MaxProcesses), j \in Columns :
           less.arrays[i][j] = IF i = i0 /\ j = j0 THEN 0 ELSE pm.arrays[i][j]
  BY <1>2, <1>3, AmapSetIs DEF AmapUnset
<1>6. /\ IsSeq(new) /\ Len(new) = Len(gs) /\ new[n] = <<>>
      /\ \A i \in 1 .. Len(gs) : i # n => new[i] = gs[i]
  <2>1. IsUpdate(new, gs, n, <<>>)
    BY <1>1, UpdateIs
  <2> QED
    BY <1>1, <2>1 DEF IsUpdate
<1> HIDE DEF i0, j0
<1>7. Objects(new, num)
  <2>1. ASSUME NEW i \in 1 .. Len(new), new[i] # <<>>
        PROVE  new[i] = <<new[i][1]>> /\ IsProcess(new[i][1], num)
    <3>1. i # n
      BY <1>6, <2>1
    <3>2. new[i] = gs[i] /\ IsProcess(gs[i][1], num) /\ gs[i] = <<gs[i][1]>>
      BY <1>6, <2>1, <3>1 DEF World, Objects
    <3> QED
      BY <3>2
  <2> QED
    BY <1>6, <2>1 DEF Objects
<1>8. ASSUME NEW i \in Rows(MaxProcesses), NEW j \in Columns, less.arrays[i][j] # 0
      PROVE  /\ less.arrays[i][j] = pm.arrays[i][j] /\ less.arrays[i][j] # n
             /\ less.arrays[i][j] \in 1 .. Len(gs) /\ gs[less.arrays[i][j]] # <<>>
  <2>1. ~(i = i0 /\ j = j0) /\ less.arrays[i][j] = pm.arrays[i][j]
    BY <1>5, <1>8
  <2>2. pm.arrays[i][j] # n
    <3>1. OneCell(pm)
      BY DEF World
    <3> QED
      BY <1>1, <1>4, <2>1, <3>1 DEF OneCell
  <2>3. InUse(pm, gs)
    BY DEF World
  <2> QED
    BY <1>8, <2>1, <2>2, <2>3 DEF InUse
<1>9. InUse(less, new)
  BY <1>6, <1>8 DEF InUse
<1>10. OneCell(less)
  <2> SUFFICES ASSUME NEW i \in Rows(MaxProcesses), NEW k \in Rows(MaxProcesses),
                      NEW j \in Columns, NEW l \in Columns,
                      less.arrays[i][j] # 0, less.arrays[i][j] = less.arrays[k][l]
               PROVE  i = k /\ j = l
    BY DEF OneCell
  <2>1. /\ pm.arrays[i][j] # 0 /\ pm.arrays[i][j] = pm.arrays[k][l]
    BY <1>8
  <2>2. OneCell(pm)
    BY DEF World
  <2> QED
    BY SMTT(30), <2>1, <2>2 DEF OneCell
<1>11. Reached(less, new)
  <2> SUFFICES ASSUME NEW m \in 1 .. Len(new), new[m] # <<>>
               PROVE  \E i \in Rows(MaxProcesses), j \in Columns : less.arrays[i][j] = m
    BY DEF Reached
  <2>1. m # n /\ gs[m] # <<>> /\ m \in 1 .. Len(gs)
    BY <1>6
  <2>2. PICK i \in Rows(MaxProcesses), j \in Columns : pm.arrays[i][j] = m
    BY <2>1 DEF World, Reached
  <2>3. ~(i = i0 /\ j = j0)
    BY <1>4, <2>1, <2>2
  <2>4. less.arrays[i][j] = m
    BY <1>5, <2>2, <2>3
  <2> QED
    BY <2>4
<1>12. World(less, new, num)
  BY <1>1, <1>5, <1>7, <1>9, <1>10, <1>11 DEF World
<1>13. ASSUME NEW q \in Nat
       PROVE  AmapGet(less, q) = IF q = p THEN 0 ELSE AmapGet(pm, q)
  <2>1. CASE InRange(pm, q)
    <3>1. q \in 0 .. RoundUp(MaxProcesses) - 1
      BY <1>2, <2>1 DEF InRange
    <3> DEFINE i == Cell(q)[1]
               j == Cell(q)[2]
    <3>2. /\ AmapGet(pm, q) = pm.arrays[i][j] /\ AmapGet(less, q) = less.arrays[i][j]
          /\ i \in Rows(MaxProcesses) /\ j \in Columns
      BY <1>2, <1>5, <3>1, CellIs, AmapGetIs
    <3>3. q = p <=> i = i0 /\ j = j0
      BY CellsApart DEF i0, j0
    <3> HIDE DEF i, j
    <3> QED
      BY <1>5, <3>2, <3>3
  <2>2. CASE ~InRange(pm, q)
    <3>1. q # p /\ less.size = pm.size
      BY <1>1, <1>2, <1>5, <2>2 DEF IsAmap
    <3>2. ~InRange(less, q)
      BY <2>2, <3>1 DEF InRange
    <3> QED
      BY <2>2, <3>1, <3>2 DEF AmapGet
  <2> QED
    BY <2>1, <2>2
<1>14. ASSUME NEW q \in Nat, NEW f \in Fds
       PROVE  MappedIn(less, new, q, f) = IF q = p THEN 0 ELSE MappedIn(pm, gs, q, f)
  <2> DEFINE m == AmapGet(pm, q)
             k == AmapGet(less, q)
  <2>1. MappedIn(less, new, q, f) = IF k = 0 THEN 0 ELSE FdOf(new[k][1], f)
    <3>1. MapsFromObjects(less, new)
      BY <1>12, WorldMaps
    <3> QED
      BY <3>1 DEF MapsFromObjects
  <2>2. /\ MappedIn(pm, gs, q, f) = IF m = 0 THEN 0 ELSE FdOf(gs[m][1], f)
        /\ m # 0 => m \in 1 .. Len(gs)
    <3>1. MapsFromObjects(pm, gs)
      BY WorldMaps
    <3>2. m # 0 => m \in 1 .. Len(gs)
      BY WorldGet
    <3> QED
      BY <3>1, <3>2 DEF MapsFromObjects
  <2>3. m = n => q = p
    BY <1>1, WorldGet
  <2>4. k = IF q = p THEN 0 ELSE m
    BY <1>13
  <2> HIDE DEF m, k
  <2>5. CASE q = p
    BY <2>1, <2>4, <2>5
  <2>6. CASE q # p
    <3>1. m # 0 => new[m] = gs[m]
      BY <1>6, <2>2, <2>3, <2>6
    <3> QED
      BY <2>1, <2>2, <2>4, <2>6, <3>1
  <2> QED
    BY <2>5, <2>6
<1> QED
  BY <1>12, <1>14 DEF NowWithout

(* A new object, with a place in pid_map.                                  *)
LEMMA WorldNew ==
  ASSUME NEW pm, NEW gs, NEW num, World(pm, gs, num), NEW p \in Nat,
         InRange(pm, p), AmapGet(pm, p) = 0
  PROVE  LET new == Append(gs, <<GprocessNew>>)
             more == AmapSet(pm, p, Len(gs) + 1)
         IN  /\ World(more, new, num)
             /\ AmapGet(more, p) = Len(gs) + 1
             /\ \A q \in Nat, f \in Fds : MappedIn(more, new, q, f) = MappedIn(pm, gs, q, f)
<1> DEFINE n == Len(gs) + 1
           new == Append(gs, <<GprocessNew>>)
           more == AmapSet(pm, p, n)
           i0 == Cell(p)[1]
           j0 == Cell(p)[2]
<1>1. IsSeq(gs) /\ num \in Nat /\ Objects(gs, num) /\ InUse(pm, gs) /\ OneCell(pm)
      /\ Reached(pm, gs)
  BY DEF World, Objects
<1>2. /\ IsSeq(new) /\ Len(gs) \in Nat /\ Len(new) = n
      /\ \A i \in 1 .. Len(gs) : new[i] = gs[i]
      /\ new[n] = <<GprocessNew>>
  BY <1>1, AppendIs DEF IsAppend
<1>3. /\ n \in Nat /\ n # 0 /\ n \notin 1 .. Len(gs) /\ n \in 1 .. n
      /\ \A i \in 1 .. n : i = n \/ i \in 1 .. Len(gs)
      /\ \A i \in 1 .. Len(gs) : i \in 1 .. n
  BY <1>2
<1>4. new[n] # <<>> /\ new[n][1] = GprocessNew /\ new[n] = <<new[n][1]>>
  <2> DEFINE o == <<GprocessNew>>
  <2>1. o # <<>> /\ o[1] = GprocessNew /\ o = <<o[1]>>
    OBVIOUS
  <2> HIDE DEF new, o
  <2>2. new[n] = o
    BY <1>2 DEF o
  <2> QED
    BY <2>1, <2>2
<1>5. /\ MaxProcesses \in Nat \ {0} /\ RoundUp(MaxProcesses) \in Nat
      /\ IsAmap(pm, MaxProcesses, Nat) /\ pm.size = RoundUp(MaxProcesses)
  BY MapsAssumption, RoundUpIs DEF World, IsAmap
<1>6. p \in 0 .. RoundUp(MaxProcesses) - 1
  BY <1>5 DEF InRange
<1>7. i0 \in Rows(MaxProcesses) /\ j0 \in Columns /\ pm.arrays[i0][j0] = 0
  BY <1>5, <1>6, CellIs, AmapGetIs
<1> HIDE DEF n
<1>8. /\ IsAmap(more, MaxProcesses, Nat)
      /\ \A i \in Rows(MaxProcesses), j \in Columns :
           more.arrays[i][j] = IF i = i0 /\ j = j0 THEN n ELSE pm.arrays[i][j]
  BY <1>3, <1>5, <1>6, AmapSetIs
<1> HIDE DEF new, more, i0, j0
<1>9. Objects(new, num)
  <2>1. ASSUME NEW i \in 1 .. Len(new), new[i] # <<>>
        PROVE  new[i] = <<new[i][1]>> /\ IsProcess(new[i][1], num)
    <3>1. CASE i = n
      BY <1>1, <1>4, <3>1, NewProcess
    <3>2. CASE i \in 1 .. Len(gs)
      BY <1>1, <1>2, <2>1, <3>2 DEF Objects
    <3> QED
      BY <1>2, <1>3, <3>1, <3>2
  <2> QED
    BY <1>2, <2>1 DEF Objects
<1>10. ASSUME NEW i \in Rows(MaxProcesses), NEW j \in Columns, more.arrays[i][j] # 0
       PROVE  IF i = i0 /\ j = j0 THEN more.arrays[i][j] = n
              ELSE /\ more.arrays[i][j] = pm.arrays[i][j]
                   /\ more.arrays[i][j] \in 1 .. Len(gs)
                   /\ gs[more.arrays[i][j]] # <<>>
  BY SMTT(30), <1>1, <1>8, <1>10 DEF InUse
<1>11. InUse(more, new)
  <2> SUFFICES ASSUME NEW i \in Rows(MaxProcesses), NEW j \in Columns,
                      more.arrays[i][j] # 0
               PROVE  more.arrays[i][j] \in 1 .. Len(new) /\ new[more.arrays[i][j]] # <<>>
    BY DEF InUse
  <2>1. CASE i = i0 /\ j = j0
    BY <1>2, <1>3, <1>4, <1>10, <2>1
  <2>2. CASE ~(i = i0 /\ j = j0)
    BY <1>2, <1>3, <1>10, <2>2
  <2> QED
    BY <2>1, <2>2
<1>12. OneCell(more)
  <2> SUFFICES ASSUME NEW i \in Rows(MaxProcesses), NEW k \in Rows(MaxProcesses),
                      NEW j \in Columns, NEW l \in Columns,
                      more.arrays[i][j] # 0, more.arrays[i][j] = more.arrays[k][l]
               PROVE  i = k /\ j = l
    BY DEF OneCell
  <2>1. (i = i0 /\ j = j0) <=> (k = i0 /\ l = j0)
    BY <1>3, <1>10
  <2>2. CASE ~(i = i0 /\ j = j0)
    <3>1. pm.arrays[i][j] # 0 /\ pm.arrays[i][j] = pm.arrays[k][l]
      BY <1>10, <2>1, <2>2
    <3> QED
      BY SMTT(30), <1>1, <3>1 DEF OneCell
  <2> QED
    BY <2>1, <2>2
<1>13. Reached(more, new)
  <2> SUFFICES ASSUME NEW m \in 1 .. Len(new), new[m] # <<>>
               PROVE  \E i \in Rows(MaxProcesses), j \in Columns : more.arrays[i][j] = m
    BY DEF Reached
  <2>1. CASE m = n
    BY <1>7, <1>8, <2>1
  <2>2. CASE m \in 1 .. Len(gs)
    <3>1. PICK i \in Rows(MaxProcesses), j \in Columns : pm.arrays[i][j] = m
      BY <1>1, <1>2, <2>2 DEF Reached
    <3>2. ~(i = i0 /\ j = j0)
      BY <1>7, <2>2, <3>1
    <3> QED
      BY <1>8, <3>1, <3>2
  <2> QED
    BY <1>2, <1>3, <2>1, <2>2
<1>14. World(more, new, num)
  BY <1>1, <1>8, <1>9, <1>11, <1>12, <1>13 DEF World
<1>15. ASSUME NEW q \in Nat
       PROVE  AmapGet(more, q) = IF q = p THEN n ELSE AmapGet(pm, q)
  <2>1. CASE InRange(pm, q)
    <3>1. q \in 0 .. RoundUp(MaxProcesses) - 1
      BY <1>5, <2>1 DEF InRange
    <3> DEFINE i == Cell(q)[1]
               j == Cell(q)[2]
    <3>2. /\ AmapGet(pm, q) = pm.arrays[i][j] /\ AmapGet(more, q) = more.arrays[i][j]
          /\ i \in Rows(MaxProcesses) /\ j \in Columns
      BY <1>5, <1>8, <3>1, CellIs, AmapGetIs
    <3>3. q = p <=> i = i0 /\ j = j0
      BY CellsApart DEF i0, j0
    <3> HIDE DEF i, j
    <3> QED
      BY <1>8, <3>2, <3>3
  <2>2. CASE ~InRange(pm, q)
    <3>1. q # p /\ more.size = pm.size
      BY <1>5, <1>8, <2>2 DEF IsAmap
    <3>2. ~InRange(more, q)
      BY <2>2, <3>1 DEF InRange
    <3> QED
      BY <2>2, <3>1, <3>2 DEF AmapGet
  <2> QED
    BY <2>1, <2>2
<1>16. ASSUME NEW q \in Nat, NEW f \in Fds
       PROVE  MappedIn(more, new, q, f) = MappedIn(pm, gs, q, f)
  <2> DEFINE m == AmapGet(pm, q)
             k == AmapGet(more, q)
  <2>1. MappedIn(more, new, q, f) = IF k = 0 THEN 0 ELSE FdOf(new[k][1], f)
    BY <1>14, WorldGet
  <2>2. /\ MappedIn(pm, gs, q, f) = IF m = 0 THEN 0 ELSE FdOf(gs[m][1], f)
        /\ m # 0 => m \in 1 .. Len(gs)
    BY WorldGet
  <2>3. k = IF q = p THEN n ELSE m
    BY <1>15
  <2>4. q = p => m = 0
    OBVIOUS
  <2> HIDE DEF m, k
  <2>5. CASE q = p
    <3>1. FdOf(GprocessNew, f) = 0
      BY NewProcess
    <3> QED
      BY <1>4, <2>1, <2>2, <2>3, <2>4, <2>5, <3>1
  <2>6. CASE q # p
    BY <1>2, <2>1, <2>2, <2>3, <2>6
  <2> QED
    BY <2>5, <2>6
<1>17. AmapGet(more, p) = n
  BY <1>15
<1> QED
  BY <1>14, <1>16, <1>17 DEF new, more, n

-----------------------------------------------------------------------------
(* The maps of paths.                                                      *)
IdIn(v, x) == Got(v, PathAddr, x)
PathsOK(v, num) ==
  /\ num \in Nat
  /\ IsMap(v, Paths, PathAddr, MaxProcesses)
  /\ \A x \in Paths : IdIn(v, x) <= num
  /\ \A x, y \in Paths : IdIn(v, x) # 0 /\ IdIn(v, x) = IdIn(v, y) => x = y

MapsInv ==
  /\ World(pid_map, gprocess, num_mapped_fds)
  /\ PathsOK(vsize_map, num_vsizes)

LEMMA IdIs ==
  ASSUME NEW v, NEW num, PathsOK(v, num), NEW x \in Paths
  PROVE  HmapGet(v, Addr(x), x) = IdIn(v, x) /\ IdIn(v, x) \in Nat
<1>1. Addr(x) = PathAddr[x]
  BY DEF PathAddr
<1>2. HmapGet(v, PathAddr[x], x) = IdIn(v, x) /\ IdIn(v, x) \in Nat
  BY AddressesAre, HmapGetIs DEF PathsOK, IdIn
<1> QED
  BY <1>1, <1>2

NowMet(w, v, x, n) ==
  \A y \in Paths : IdIn(w, y) = IF y = x THEN n ELSE IdIn(v, y)

(* A path that is met for the first time.                                  *)
LEMMA PathMet ==
  ASSUME NEW v, NEW num, PathsOK(v, num), NEW x \in Paths, IdIn(v, x) = 0,
         NEW n, n = num + 1, NEW w, w = HmapInsert(v, Addr(x), x, n)
  PROVE  PathsOK(w, n) /\ NowMet(w, v, x, n)
<1>1. /\ num \in Nat /\ n \in Nat \ {0} /\ n \in Nat /\ n # 0 /\ ~(n <= num) /\ n <= n
      /\ \A i \in Nat : i <= num => i <= n
  BY DEF PathsOK
<1>2. w = HmapInsert(v, PathAddr[x], x, n)
  BY DEF PathAddr
<1>3. IsMap(w, Paths, PathAddr, MaxProcesses) /\ MapSets(w, v, Paths, PathAddr, x, n)
  <2>1. Got(v, PathAddr, x) = 0
    BY DEF IdIn
  <2> QED
    BY <1>1, <1>2, <2>1, AddressesAre, HmapInsertIs DEF PathsOK
<1>4. \A y \in Paths : IdIn(w, y) = IF y = x THEN n ELSE IdIn(v, y)
  BY <1>3 DEF MapSets, IdIn
<1>5. \A y \in Paths : IdIn(v, y) \in Nat /\ IdIn(v, y) <= num
  BY IdIs DEF PathsOK
<1>6. ASSUME NEW y \in Paths
      PROVE  IdIn(w, y) <= n
  BY <1>1, <1>4, <1>5
<1>7. ASSUME NEW y \in Paths, NEW z \in Paths,
             IdIn(w, y) # 0, IdIn(w, y) = IdIn(w, z)
      PROVE  y = z
  BY <1>1, <1>4, <1>5, <1>7 DEF PathsOK
<1>8. PathsOK(w, n)
  BY <1>1, <1>3, <1>6, <1>7 DEF PathsOK
<1> QED
  BY <1>4, <1>8 DEF NowMet

-----------------------------------------------------------------------------
(* What is there once generate_gprocess_by_realpid has been called.        *)
LEMMA Ensured ==
  ASSUME MapsInv, NEW p \in Nat, InRange(pid_map, p)
  PROVE  LET pm == PidMapWith(p)
             gs == ObjectsWith(p)
             n == ObjectOf(p)
         IN  /\ World(pm, gs, num_mapped_fds)
             /\ AmapGet(pm, p) = n /\ n # 0
             /\ IsProcess(gs[n][1], num_mapped_fds)
             /\ \A q \in Nat, f \in Fds :
                  MappedIn(pm, gs, q, f) = MappedTo(q, f)
             /\ \A f \in Fds : FdOf(gs[n][1], f) = MappedTo(p, f)
<1> DEFINE pm == PidMapWith(p)
           gs == ObjectsWith(p)
           n == ObjectOf(p)
<1>1. World(pid_map, gprocess, num_mapped_fds)
  BY DEF MapsInv
<1>2. /\ World(pm, gs, num_mapped_fds) /\ AmapGet(pm, p) = n /\ n # 0
      /\ \A q \in Nat, f \in Fds :
           MappedIn(pm, gs, q, f) = MappedIn(pid_map, gprocess, q, f)
  <2>1. CASE Known(p)
    <3>1. pm = pid_map /\ gs = gprocess /\ n = AmapGet(pid_map, p)
      BY <2>1 DEF PidMapWith, ObjectsWith, ObjectOf
    <3>2. n # 0
      BY <2>1, <3>1 DEF Known
    <3> HIDE DEF pm, gs, n
    <3> QED
      BY <1>1, <3>1, <3>2
  <2>2. CASE ~Known(p)
    <3>1. /\ pm = AmapSet(pid_map, p, Len(gprocess) + 1)
          /\ gs = Append(gprocess, <<GprocessNew>>)
          /\ n = Len(gprocess) + 1
      BY <2>2 DEF PidMapWith, ObjectsWith, ObjectOf
    <3>2. AmapGet(pid_map, p) = 0
      BY <2>2 DEF Known
    <3>3. n # 0
      <4>1. IsSeq(gprocess)
        BY <1>1 DEF World, Objects
      <4>2. Len(gprocess) \in Nat
        BY <4>1, AppendIs DEF IsAppend
      <4> QED
        BY <3>1, <4>2
    <3> HIDE DEF pm, gs, n
    <3> QED
      BY <1>1, <3>1, <3>2, <3>3, WorldNew
  <2> QED
    BY <2>1, <2>2
<1> HIDE DEF pm, gs, n
<1>3. /\ IsProcess(gs[n][1], num_mapped_fds)
      /\ \A f \in Fds : MappedIn(pm, gs, p, f) = FdOf(gs[n][1], f)
  <2>1. MapsFromObjects(pm, gs)
    BY <1>2, WorldMaps
  <2>2. IsProcess(gs[n][1], num_mapped_fds)
    BY <1>2, WorldGet
  <2> QED
    BY <1>2, <2>1, <2>2 DEF MapsFromObjects
<1>4. \A q \in Nat, f \in Fds :
        MappedIn(pid_map, gprocess, q, f) = MappedTo(q, f)
  BY DEF MappedIn, MappedTo
<1> QED
  BY <1>2, <1>3, <1>4 DEF pm, gs, n

LEMMA PidsAre ==
  /\ \A p \in Pids : p \in Nat
  /\ \A f \in Fds : f \in Nat /\ f # 0
BY PidsAssumption

LEMMA MapsInvInit ==
  ASSUME Init
  PROVE  /\ MapsInv
         /\ \A p \in Nat, f \in Fds : MappedTo(p, f) = 0
         /\ \A x \in Paths : IdIn(vsize_map, x) = 0
<1>1. MaxProcesses \in Nat \ {0}
  BY MapsAssumption
<1>2. /\ pid_map = AmapNew(MaxProcesses) /\ gprocess = <<>> /\ num_mapped_fds = 0
      /\ vsize_map = HmapNew(MaxProcesses) /\ num_vsizes = 0
  BY DEF Init
<1>3. IsAmap(pid_map, MaxProcesses, Nat)
      /\ \A i \in Rows(MaxProcesses), j \in Columns : pid_map.arrays[i][j] = 0
  BY <1>1, <1>2, AmapNewIs
<1>4. IsSeq(gprocess) /\ Len(gprocess) = 0
  <2>1. <<>> \in Seq({}) /\ Len(<<>>) = 0
    OBVIOUS
  <2> QED
    BY <1>2, <2>1, SeqIs
<1>5. World(pid_map, gprocess, num_mapped_fds)
  BY <1>2, <1>3, <1>4 DEF World, Objects, InUse, OneCell, Reached
<1>6. /\ IsMap(vsize_map, Paths, PathAddr, MaxProcesses)
      /\ \A x \in Paths : IdIn(vsize_map, x) = 0
  BY <1>2, AddressesAre, HmapNewIs DEF IdIn
<1>7. PathsOK(vsize_map, num_vsizes)
  BY <1>2, <1>6 DEF PathsOK
<1>8. ASSUME NEW p \in Nat, NEW f \in Fds
      PROVE  MappedTo(p, f) = 0
  <2>1. AmapGet(pid_map, p) \notin 1 .. Len(gprocess)
    BY <1>4
  <2>2. AmapGet(pid_map, p) = 0
    BY <1>5, <2>1, WorldGet
  <2> QED
    BY <2>2 DEF MappedTo
<1> QED
  BY <1>5, <1>6, <1>7, <1>8 DEF MapsInv

-----------------------------------------------------------------------------
(* The steps: each keeps the invariant, and does to the descriptors and    *)
(* paths what it would do to plain functions.                              *)
LEMMA UseStep ==
  ASSUME MapsInv, NEW p \in Pids, NEW f \in Fds, Use(p, f)
  PROVE  /\ MapsInv'
         /\ \A q \in Nat, g \in Fds : MappedTo(q, g)' = MappedTo(q, g)
         /\ seen' = <<MappedTo(p, f)>>
<1> DEFINE pm == PidMapWith(p)
           gs == ObjectsWith(p)
           n == ObjectOf(p)
<1>1. /\ p \in Nat /\ InRange(pid_map, p)
      /\ pid_map' = pm /\ gprocess' = gs
      /\ num_mapped_fds' = num_mapped_fds
      /\ vsize_map' = vsize_map /\ num_vsizes' = num_vsizes
      /\ seen' = <<VfdByRealfd(gs[n][1], f)>>
  BY PidsAre DEF Use, EventOf, paths
<1>2. /\ World(pm, gs, num_mapped_fds)
      /\ IsProcess(gs[n][1], num_mapped_fds)
      /\ \A q \in Nat, g \in Fds : MappedIn(pm, gs, q, g) = MappedTo(q, g)
      /\ \A g \in Fds : FdOf(gs[n][1], g) = MappedTo(p, g)
  BY <1>1, Ensured
<1> HIDE DEF pm, gs, n
<1>3. MapsInv'
  BY <1>1, <1>2 DEF MapsInv
<1>4. ASSUME NEW q \in Nat, NEW g \in Fds
      PROVE  MappedTo(q, g)' = MappedIn(pm, gs, q, g)
  BY <1>1 DEF MappedTo, MappedIn
<1>5. VfdByRealfd(gs[n][1], f) = MappedTo(p, f)
  BY <1>2, VfdByRealfdIs
<1> QED
  BY <1>1, <1>2, <1>3, <1>4, <1>5

LEMMA OpenStep ==
  ASSUME MapsInv, NEW p \in Pids, NEW f \in Fds, Open(p, f)
  PROVE  /\ MapsInv'
         /\ \A q \in Nat, g \in Fds :
              MappedTo(q, g)' = IF q = p /\ g = f THEN num_mapped_fds + 1
                                ELSE MappedTo(q, g)
         /\ num_mapped_fds' = num_mapped_fds + 1
         /\ seen' = IF MappedTo(p, f) = 0 THEN <<>> ELSE <<MappedTo(p, f)>>
<1> DEFINE pm == PidMapWith(p)
           gs == ObjectsWith(p)
           n == ObjectOf(p)
           gp == gs[n][1]
           old == HmapGet(gp.fd_map, AddrL(f), f)
           free == IF old # 0 THEN ForgetVfd(gp, f) ELSE gp
           m == num_mapped_fds + 1
           new == Created(free, f, m)
<1>1. /\ p \in Nat /\ InRange(pid_map, p)
      /\ pid_map' = pm /\ gprocess' = [gs EXCEPT ![n] = <<new>>]
      /\ num_mapped_fds' = m
      /\ vsize_map' = vsize_map /\ num_vsizes' = num_vsizes
      /\ seen' = IF old # 0 THEN <<HmapGet(gp.vfd_map, AddrL(old), old)>> ELSE <<>>
  BY PidsAre DEF Open, EventOf, paths, Created
<1>2. /\ World(pm, gs, num_mapped_fds)
      /\ AmapGet(pm, p) = n /\ n # 0
      /\ IsProcess(gp, num_mapped_fds)
      /\ \A q \in Nat, g \in Fds : MappedIn(pm, gs, q, g) = MappedTo(q, g)
      /\ \A g \in Fds : FdOf(gp, g) = MappedTo(p, g)
  BY <1>1, Ensured
<1>3. num_mapped_fds \in Nat /\ m \in Nat /\ num_mapped_fds <= m
  BY DEF MapsInv, World
<1> HIDE DEF pm, gs, n, gp
<1>4. /\ old = FdOf(gp, f)
      /\ old # 0 => HmapGet(gp.vfd_map, AddrL(old), old) = old
  BY <1>2, VfdByRealfdIs
<1> HIDE DEF old
<1>5. /\ IsProcess(free, num_mapped_fds)
      /\ \A g \in Fds : FdOf(free, g) = IF g = f THEN 0 ELSE FdOf(gp, g)
  <2>1. CASE old = 0
    BY <1>2, <1>4, <2>1
  <2>2. CASE old # 0
    BY <1>2, <1>3, <1>4, <2>2, ForgetVfdIs
  <2> QED
    BY <2>1, <2>2
<1> HIDE DEF free
<1>6. /\ IsProcess(new, m)
      /\ \A g \in Fds : FdOf(new, g) = IF g = f THEN m ELSE FdOf(free, g)
  BY <1>3, <1>5, CreatedIs
<1> HIDE DEF new, m
<1>7. World(pm, gprocess', m) /\ NowHas(pm, gprocess', gs, p, new)
  BY <1>1, <1>2, <1>3, <1>6, WorldReplaced
<1>8. MapsInv'
  BY <1>1, <1>7 DEF MapsInv
<1>9. ASSUME NEW q \in Nat, NEW g \in Fds
      PROVE  MappedTo(q, g)' = IF q = p /\ g = f THEN m ELSE MappedTo(q, g)
  <2>1. MappedTo(q, g)' = MappedIn(pid_map', gprocess', q, g)
    BY DEF MappedTo, MappedIn
  <2>2. MappedTo(q, g)' = IF q = p THEN FdOf(new, g) ELSE MappedTo(q, g)
    BY <1>1, <1>2, <1>7, <2>1 DEF NowHas
  <2>3. FdOf(new, g) = IF g = f THEN m ELSE MappedTo(p, g)
    BY <1>2, <1>5, <1>6
  <2> QED
    BY <2>2, <2>3
<1>10. seen' = IF MappedTo(p, f) = 0 THEN <<>> ELSE <<MappedTo(p, f)>>
  BY <1>1, <1>2, <1>4
<1> QED
  BY <1>1, <1>8, <1>9, <1>10 DEF m

LEMMA CloseStep ==
  ASSUME MapsInv, NEW p \in Pids, NEW f \in Fds, Close(p, f)
  PROVE  /\ MapsInv'
         /\ \A q \in Nat, g \in Fds :
              MappedTo(q, g)' = IF q = p /\ g = f THEN 0 ELSE MappedTo(q, g)
         /\ MappedTo(p, f) # 0
         /\ seen' = <<MappedTo(p, f)>>
<1> DEFINE gs == ObjectsWith(p)
           n == ObjectOf(p)
           gp == gs[n][1]
           new == ForgetVfd(gp, f)
<1>1. /\ p \in Nat /\ InRange(pid_map, p)
      /\ VfdByRealfd(gp, f) # 0
      /\ pid_map' = pid_map /\ gprocess' = [gprocess EXCEPT ![n] = <<new>>]
      /\ num_mapped_fds' = num_mapped_fds
      /\ vsize_map' = vsize_map /\ num_vsizes' = num_vsizes
      /\ seen' = <<VfdByRealfd(gp, f)>>
  BY PidsAre DEF Close, EventOf, paths
<1>2. /\ IsProcess(gp, num_mapped_fds)
      /\ \A g \in Fds : FdOf(gp, g) = MappedTo(p, g)
  BY <1>1, Ensured
<1>3. num_mapped_fds \in Nat /\ num_mapped_fds <= num_mapped_fds
      /\ World(pid_map, gprocess, num_mapped_fds)
  BY DEF MapsInv, World
<1> HIDE DEF gp
<1>4. VfdByRealfd(gp, f) = MappedTo(p, f) /\ FdOf(gp, f) # 0 /\ MappedTo(p, f) # 0
  BY <1>1, <1>2, VfdByRealfdIs
<1>5. AmapGet(pid_map, p) # 0 /\ n = AmapGet(pid_map, p)
  <2>1. AmapGet(pid_map, p) # 0
    BY <1>4 DEF MappedTo
  <2> QED
    BY <2>1 DEF ObjectOf, Known
<1> HIDE DEF n
<1>6. /\ IsProcess(new, num_mapped_fds)
      /\ \A g \in Fds : FdOf(new, g) = IF g = f THEN 0 ELSE FdOf(gp, g)
  BY <1>2, <1>3, <1>4, ForgetVfdIs
<1> HIDE DEF new
<1>7. /\ World(pid_map, gprocess', num_mapped_fds)
      /\ NowHas(pid_map, gprocess', gprocess, p, new)
  BY <1>1, <1>3, <1>5, <1>6, WorldReplaced
<1>8. MapsInv'
  BY <1>1, <1>7 DEF MapsInv
<1>9. ASSUME NEW q \in Nat, NEW g \in Fds
      PROVE  MappedTo(q, g)' = IF q = p /\ g = f THEN 0 ELSE MappedTo(q, g)
  <2>1. /\ MappedTo(q, g)' = MappedIn(pid_map', gprocess', q, g)
        /\ MappedTo(q, g) = MappedIn(pid_map, gprocess, q, g)
    BY DEF MappedTo, MappedIn
  <2>2. MappedTo(q, g)' = IF q = p THEN FdOf(new, g) ELSE MappedTo(q, g)
    BY <1>1, <1>7, <2>1 DEF NowHas
  <2>3. FdOf(new, g) = IF g = f THEN 0 ELSE MappedTo(p, g)
    BY <1>2, <1>6
  <2> QED
    BY <2>2, <2>3
<1> QED
  BY <1>1, <1>4, <1>8, <1>9

LEMMA ExitGroupStep ==
  ASSUME MapsInv, NEW p \in Pids, ExitGroup(p)
  PROVE  /\ MapsInv'
         /\ \A q \in Nat, g \in Fds : MappedTo(q, g)' = IF q = p THEN 0 ELSE MappedTo(q, g)
<1> DEFINE pm == PidMapWith(p)
           gs == ObjectsWith(p)
           n == ObjectOf(p)
<1>1. /\ p \in Nat /\ InRange(pid_map, p)
      /\ pid_map' = AmapUnset(pm, p) /\ gprocess' = [gs EXCEPT ![n] = <<>>]
      /\ num_mapped_fds' = num_mapped_fds
      /\ vsize_map' = vsize_map /\ num_vsizes' = num_vsizes
  BY PidsAre DEF ExitGroup, EventOf, paths
<1>2. /\ World(pm, gs, num_mapped_fds)
      /\ AmapGet(pm, p) = n /\ n # 0
      /\ \A q \in Nat, g \in Fds : MappedIn(pm, gs, q, g) = MappedTo(q, g)
  BY <1>1, Ensured
<1> HIDE DEF pm, gs, n
<1>3. /\ World(pid_map', gprocess', num_mapped_fds)
      /\ NowWithout(pid_map', pm, gprocess', gs, p)
  BY <1>1, <1>2, WorldRemoved
<1>4. MapsInv'
  BY <1>1, <1>3 DEF MapsInv
<1>5. ASSUME NEW q \in Nat, NEW g \in Fds
      PROVE  MappedTo(q, g)' = IF q = p THEN 0 ELSE MappedTo(q, g)
  <2>1. MappedTo(q, g)' = MappedIn(pid_map', gprocess', q, g)
    BY DEF MappedTo, MappedIn
  <2> QED
    BY <1>2, <1>3, <2>1 DEF NowWithout
<1> QED
  BY <1>4, <1>5

LEMMA VsizeByPathStep ==
  ASSUME MapsInv, NEW x \in Paths, VsizeByPath(x)
  PROVE  LET met == IdIn(vsize_map, x) # 0 IN
         /\ MapsInv'
         /\ \A y \in Paths :
              IdIn(vsize_map, y)' = IF ~met /\ y = x THEN num_vsizes + 1
                                    ELSE IdIn(vsize_map, y)
         /\ num_vsizes' = IF met THEN num_vsizes ELSE num_vsizes + 1
         /\ seen' = <<IdIn(vsize_map, x)'>>
         /\ UNCHANGED processes
<1> DEFINE v == HmapGet(vsize_map, Addr(x), x)
           n == num_vsizes + 1
           w == HmapInsert(vsize_map, Addr(x), x, n)
<1>1. /\ PathsOK(vsize_map, num_vsizes) /\ World(pid_map, gprocess, num_mapped_fds)
      /\ v = IdIn(vsize_map, x)
  BY IdIs DEF MapsInv
<1>2. /\ UNCHANGED processes
      /\ seen' = IF v # 0 THEN <<v>> ELSE <<n>>
      /\ num_vsizes' = IF v # 0 THEN num_vsizes ELSE n
      /\ vsize_map' = IF v # 0 THEN vsize_map ELSE w
  BY DEF VsizeByPath
<1>3. v = 0 => PathsOK(w, n) /\ NowMet(w, vsize_map, x, n)
  BY <1>1, PathMet
<1> HIDE DEF v, w, n
<1>4. PathsOK(vsize_map', num_vsizes')
  BY <1>1, <1>2, <1>3
<1>5. World(pid_map', gprocess', num_mapped_fds')
  BY <1>1, <1>2 DEF processes
<1>6. MapsInv'
  BY <1>4, <1>5 DEF MapsInv
<1>7. ASSUME NEW y \in Paths
      PROVE  IdIn(vsize_map, y)' = IF v = 0 /\ y = x THEN n ELSE IdIn(vsize_map, y)
  <2>1. IdIn(vsize_map, y)' = IdIn(vsize_map', y)
    BY DEF IdIn, Got, PathAddr
  <2> QED
    BY <1>2, <1>3, <2>1 DEF NowMet
<1> QED
  BY <1>1, <1>2, <1>6, <1>7 DEF n

LEMMA NothingMoves ==
  ASSUME MapsInv, UNCHANGED <<processes, paths>>
  PROVE  /\ MapsInv'
         /\ \A q \in Nat, g \in Fds : MappedTo(q, g)' = MappedTo(q, g)
         /\ \A y \in Paths : IdIn(vsize_map, y)' = IdIn(vsize_map, y)
<1>1. /\ pid_map' = pid_map /\ gprocess' = gprocess /\ num_mapped_fds' = num_mapped_fds
      /\ vsize_map' = vsize_map /\ num_vsizes' = num_vsizes
  BY DEF processes, paths
<1>2. MapsInv'
  BY <1>1 DEF MapsInv
<1>3. \A q \in Nat, g \in Fds : MappedTo(q, g)' = MappedTo(q, g)
  BY <1>1 DEF MappedTo
<1>4. \A y \in Paths : IdIn(vsize_map, y)' = IdIn(vsize_map, y)
  BY <1>1 DEF IdIn, Got, PathAddr
<1> QED
  BY <1>2, <1>3, <1>4

LEMMA MapsInvNext ==
  ASSUME MapsInv, [Next]_vars
  PROVE  MapsInv'
<1>1. ASSUME NEW p \in Pids, NEW f \in Fds, Open(p, f)
      PROVE  MapsInv'
  BY <1>1, OpenStep
<1>2. ASSUME NEW p \in Pids, NEW f \in Fds, Use(p, f)
      PROVE  MapsInv'
  BY <1>2, UseStep
<1>3. ASSUME NEW p \in Pids, NEW f \in Fds, Close(p, f)
      PROVE  MapsInv'
  BY <1>3, CloseStep
<1>4. ASSUME NEW p \in Pids, ExitGroup(p)
      PROVE  MapsInv'
  BY <1>4, ExitGroupStep
<1>5. ASSUME NEW p \in Pids, PidTooLarge(p)
      PROVE  MapsInv'
  BY <1>5, NothingMoves DEF PidTooLarge
<1>6. ASSUME NEW x \in Paths, VsizeByPath(x)
      PROVE  MapsInv'
  BY <1>6, VsizeByPathStep
<1>7. ASSUME WriteInit
      PROVE  MapsInv'
  BY <1>7, NothingMoves DEF WriteInit
<1>8. ASSUME UNCHANGED vars
      PROVE  MapsInv'
  BY <1>8, NothingMoves DEF vars
<1> QED
  BY <1>1, <1>2, <1>3, <1>4, <1>5, <1>6, <1>7, <1>8 DEF Next

(* The maps and their slots are as the operations expect to find them      *)
(* (hmap.c, amap.c), whatever was inserted and removed before.             *)
THEOREM MapsStaySound == Spec => []MapsInv
<1>1. Init => MapsInv
  BY MapsInvInit
<1>2. MapsInv /\ [Next]_vars => MapsInv'
  BY MapsInvNext
<1> QED
  BY <1>1, <1>2, PTL DEF Spec

-----------------------------------------------------------------------------
(* The invariant says where the keys are.                                  *)
LEMMA KeysApart ==
  ASSUME NEW K, NEW A, NEW n, NEW h, IsMap(h, K, A, n), NEW a \in DOMAIN h
  PROVE  LET l == SlotPairs(h[a]) IN
         /\ h[a].single = <<>> \/ h[a].list = <<>>
         /\ \A i, j \in DOMAIN l : /\ l[i].key \in K /\ A[l[i].key] = a
                                   /\ i # j => l[i].key # l[j].key
<1> DEFINE l == SlotPairs(h[a])
<1>1. a \in 0 .. n - 1 /\ IsSlot(h[a], K)
  <2>1. h = [b \in 0 .. n - 1 |-> h[b]] /\ \A b \in 0 .. n - 1 : IsSlot(h[b], K)
    BY DEF IsMap
  <2>2. DOMAIN h = 0 .. n - 1
    BY <2>1
  <2> QED
    BY <2>1, <2>2
<1>2. h[a].single = <<>> \/ h[a].list = <<>>
  BY <1>1 DEF IsSlot
<1>3. IsList(l, K)
  BY <1>1, SlotPairsIs
<1> HIDE DEF l
<1>4. DOMAIN l = 1 .. Len(l)
  BY <1>3 DEF IsList
<1>5. ASSUME NEW i \in DOMAIN l, NEW j \in DOMAIN l
      PROVE  /\ l[i].key \in K /\ A[l[i].key] = a
             /\ i # j => l[i].key # l[j].key
  <2>1. /\ l[i].key \in K /\ ListGet(l, l[i].key) # 0
    <3>1. ListGet(l, l[i].key) = l[i].data /\ l[i].key \in K /\ l[i].data \in Nat \ {0}
      BY <1>3, <1>4, ListGetThere
    <3> QED
      BY <3>1
  <2>2. A[l[i].key] = a
    BY <1>1, <2>1 DEF IsMap, l
  <2>3. i # j => l[i].key # l[j].key
    BY <1>3, <1>4 DEF IsList, UniqueKeys
  <2> QED
    BY <2>1, <2>2, <2>3
<1> QED
  BY <1>2, <1>5 DEF l

LEMMA MapsInvKeys ==
  ASSUME MapsInv
  PROVE  KeysInOnePlace
<1>1. /\ IsAmap(pid_map, MaxProcesses, Nat) /\ Objects(gprocess, num_mapped_fds)
      /\ InUse(pid_map, gprocess) /\ OneCell(pid_map) /\ Reached(pid_map, gprocess)
      /\ IsMap(vsize_map, Paths, PathAddr, MaxProcesses)
  BY DEF MapsInv, World, PathsOK
<1>2. DOMAIN gprocess = 1 .. Len(gprocess)
  BY <1>1, SeqIs DEF Objects, IsSeq
<1>3. Stored(pid_map) = {c \in Rows(MaxProcesses) \X Columns : pid_map.arrays[c[1]][c[2]] # 0}
  <2>1. pid_map.arrays \in [Rows(MaxProcesses) -> [Columns -> Nat]]
    BY <1>1 DEF IsAmap
  <2>2. /\ DOMAIN pid_map.arrays = Rows(MaxProcesses)
        /\ \A i \in Rows(MaxProcesses) : DOMAIN pid_map.arrays[i] = Columns
    BY <2>1
  <2>3. UNION {{i} \X DOMAIN pid_map.arrays[i] : i \in DOMAIN pid_map.arrays}
          = Rows(MaxProcesses) \X Columns
    BY <2>2
  <2> QED
    BY <2>3 DEF Stored
<1>4. ASSUME NEW c \in Stored(pid_map)
      PROVE  /\ c[1] \in Rows(MaxProcesses) /\ c[2] \in Columns /\ c = <<c[1], c[2]>>
             /\ pid_map.arrays[c[1]][c[2]] # 0
  BY <1>3
<1>5. ASSUME NEW c \in Stored(pid_map)
      PROVE  /\ pid_map.arrays[c[1]][c[2]] \in DOMAIN gprocess
             /\ gprocess[pid_map.arrays[c[1]][c[2]]] # <<>>
  BY <1>1, <1>2, <1>4 DEF InUse
<1>6. ASSUME NEW c \in Stored(pid_map), NEW d \in Stored(pid_map), c # d
      PROVE  pid_map.arrays[c[1]][c[2]] # pid_map.arrays[d[1]][d[2]]
  <2>1. ~(c[1] = d[1] /\ c[2] = d[2])
    BY <1>4, <1>6
  <2> QED
    BY SMTT(30), <1>1, <1>4, <2>1 DEF OneCell
<1>7. ASSUME NEW n \in DOMAIN gprocess, gprocess[n] # <<>>
      PROVE  \E c \in Stored(pid_map) : pid_map.arrays[c[1]][c[2]] = n
  <2>1. n # 0
    BY <1>2
  <2>2. PICK i \in Rows(MaxProcesses), j \in Columns : pid_map.arrays[i][j] = n
    BY <1>1, <1>2, <1>7 DEF Reached
  <2> DEFINE c == <<i, j>>
  <2>3. c[1] = i /\ c[2] = j /\ c \in Rows(MaxProcesses) \X Columns
    OBVIOUS
  <2> HIDE DEF c
  <2>4. c \in Stored(pid_map)
    BY <1>3, <2>1, <2>2, <2>3
  <2> QED
    BY <2>2, <2>3, <2>4
<1>8. WellFormed(vsize_map, Addr)
  <2>1. \A x \in Paths : PathAddr[x] = Addr(x)
    BY DEF PathAddr
  <2> QED
    BY <1>1, <2>1, KeysApart DEF WellFormed
<1>9. ASSUME NEW n \in DOMAIN gprocess, gprocess[n] # <<>>
      PROVE  /\ WellFormed(gprocess[n][1].fd_map, AddrL)
             /\ WellFormed(gprocess[n][1].vfd_map, AddrL)
  <2>1. /\ IsMap(gprocess[n][1].fd_map, Fds, FdAddr, MapSize)
        /\ IsMap(gprocess[n][1].vfd_map, Numbers, VfdAddr, MapSize)
    BY <1>1, <1>2, <1>9 DEF Objects, IsProcess, HasMaps
  <2>2. /\ \A f \in Fds : FdAddr[f] = AddrL(f)
        /\ \A m \in Numbers : VfdAddr[m] = AddrL(m)
    BY DEF FdAddr, VfdAddr
  <2> QED
    BY <2>1, <2>2, KeysApart DEF WellFormed
<1> QED
  BY <1>5, <1>6, <1>7, <1>8, <1>9 DEF KeysInOnePlace

(* A key is stored once in a hash map, at its own address, in a slot with  *)
(* either a pair or a list; every process that is there is in pid_map      *)
(* once, and no other (hmap.c, amap.c, gprocess.c).                        *)
THEOREM KeysInOnePlaceHolds == Spec => []KeysInOnePlace
<1>1. MapsInv => KeysInOnePlace
  BY MapsInvKeys
<1> QED
  BY <1>1, MapsStaySound, PTL

-----------------------------------------------------------------------------
(* What the first number has, and with every number the next, all have.    *)
LEMMA UpTo ==
  ASSUME NEW S, NEW a \in Nat, NEW b \in Nat, a \in S,
         \A i \in a .. b - 1 : i \in S => i + 1 \in S
  PROVE  \A i \in a .. b : i \in S
<1> DEFINE T == {i \in a .. b : i \notin S}
<1>1. CASE T # {}
  <2>1. T \subseteq Nat
    OBVIOUS
  <2>2. PICK x \in T : \A y \in T : ~(<<y, x>> \in OpToRel(<, Nat))
    <3> HIDE DEF T
    <3> QED
      BY <1>1, <2>1, NatLessThanWellFounded, WFMin
  <2>3. x \in a .. b /\ x \notin S /\ x # a
    OBVIOUS
  <2>4. x - 1 \in a .. b - 1 /\ x - 1 \in Nat /\ (x - 1) + 1 = x /\ x - 1 < x /\ x \in Nat
    BY <2>3
  <2>5. x - 1 \notin T
    BY <2>2, <2>4 DEF OpToRel
  <2> QED
    BY <2>3, <2>4, <2>5
<1>2. CASE T = {}
  BY <1>2
<1> QED
  BY <1>1, <1>2


(* FlattenSeq's function of lists, up to the n-th of them.                 *)
IsFlat(t, v, n) == t = [i \in 1 .. n |-> IF i = 1 THEN v[i] ELSE t[i - 1] \o v[i]]

LEMMA FlatIs ==
  ASSUME NEW n \in Nat \ {0}, NEW S, NEW v \in [1 .. n -> Seq(S)]
  PROVE  \E t : IsFlat(t, v, n) /\ FlattenSeq(v) = t[n]
<1> DEFINE Ns == {k \in 1 .. n : \E t : IsFlat(t, v, k)}
<1>1. 1 \in Ns
  <2>1. IsFlat([i \in 1 .. 1 |-> v[i]], v, 1)
    BY DEF IsFlat
  <2> QED
    BY <2>1
<1>2. ASSUME NEW k \in 1 .. n - 1, k \in Ns
      PROVE  k + 1 \in Ns
  <2>1. PICK t : IsFlat(t, v, k)
    BY <1>2
  <2> DEFINE u == [i \in 1 .. k + 1 |-> IF i = k + 1 THEN t[k] \o v[k + 1] ELSE t[i]]
  <2>2. ASSUME NEW i \in 1 .. k + 1
        PROVE  u[i] = IF i = 1 THEN v[i] ELSE u[i - 1] \o v[i]
    <3>1. CASE i = k + 1
      <4>1. i - 1 = k /\ i # 1 /\ k \in 1 .. k + 1 /\ k # k + 1
        BY <3>1
      <4>2. u[i] = t[k] \o v[k + 1] /\ u[k] = t[k]
        BY <3>1, <4>1
      <4> QED
        BY <3>1, <4>1, <4>2
    <3>2. CASE i = 1
      <4>1. u[i] = t[i] /\ t[i] = v[i]
        BY <2>1, <3>2 DEF IsFlat
      <4> QED
        BY <3>2, <4>1
    <3>3. CASE i \in 2 .. k
      <4>1. i \in 1 .. k /\ i # 1 /\ i # k + 1 /\ i - 1 # k + 1 /\ i - 1 \in 1 .. k + 1
        BY <3>3
      <4>2. u[i] = t[i] /\ t[i] = t[i - 1] \o v[i] /\ u[i - 1] = t[i - 1]
        BY <2>1, <4>1 DEF IsFlat
      <4> QED
        BY <4>1, <4>2
    <3> QED
      BY <3>1, <3>2, <3>3
  <2>3. IsFlat(u, v, k + 1)
    BY <2>2 DEF IsFlat
  <2>4. k + 1 \in 1 .. n
    OBVIOUS
  <2> HIDE DEF u
  <2> QED
    BY <2>3, <2>4
<1>3. n \in Ns
  <2>1. 1 \in Nat /\ n \in Nat /\ n \in 1 .. n
    OBVIOUS
  <2> HIDE DEF Ns
  <2> QED
    BY <1>1, <1>2, <2>1, UpTo
<1>4. Len(v) = n /\ n # 0
  OBVIOUS
<1> DEFINE c == CHOOSE t : IsFlat(t, v, Len(v))
<1>5. IsFlat(c, v, n)
  BY <1>3, <1>4
<1>6. FlattenSeq(v) = c[Len(v)]
  BY <1>4 DEF FlattenSeq, IsFlat
<1> QED
  BY <1>4, <1>5, <1>6

LEMMA ListGetIsNat ==
  ASSUME NEW K, NEW l, IsList(l, K), NEW k \in K
  PROVE  ListGet(l, k) \in Nat
<1>1. CASE HasKey(l, k)
  BY SMTT(30), <1>1, HasKeyIs, ListGetThere DEF IsList
<1>2. CASE ~HasKey(l, k)
  BY <1>2, ListGetNone
<1> QED
  BY <1>1, <1>2

(* Two lists without a common key.                                         *)
LEMMA JoinIs ==
  ASSUME NEW K, NEW l, IsList(l, K), NEW m, IsList(m, K),
         \A k \in K : ListGet(l, k) = 0 \/ ListGet(m, k) = 0
  PROVE  /\ IsList(l \o m, K)
         /\ \A k \in K : ListGet(l \o m, k) =
                           IF ListGet(l, k) # 0 THEN ListGet(l, k) ELSE ListGet(m, k)
<1> DEFINE j == l \o m
<1>1. /\ l \in Seq(Pairs(K)) /\ m \in Seq(Pairs(K))
      /\ Len(l) \in Nat /\ Len(m) \in Nat
  BY DEF IsList
<1>2. /\ j \in Seq(Pairs(K)) /\ Len(j) = Len(l) + Len(m)
      /\ \A i \in 1 .. Len(l) : j[i] = l[i]
      /\ \A i \in 1 .. Len(m) : j[Len(l) + i] = m[i]
  BY <1>1, ConcatIs
<1> HIDE DEF j
<1>3. ASSUME NEW i \in 1 .. Len(j)
      PROVE  i \in 1 .. Len(l) \/ \E n \in 1 .. Len(m) : i = Len(l) + n
  <2>1. CASE i <= Len(l)
    BY <2>1
  <2>2. CASE ~(i <= Len(l))
    <3>1. i - Len(l) \in 1 .. Len(m) /\ i = Len(l) + (i - Len(l))
      BY <1>1, <1>2, <2>2
    <3> QED
      BY <3>1
  <2> QED
    BY <2>1, <2>2
<1>4. ASSUME NEW i \in 1 .. Len(l), NEW n \in 1 .. Len(m)
      PROVE  l[i].key # m[n].key
  <2>1. /\ ListGet(l, l[i].key) # 0 /\ l[i].key \in K
        /\ ListGet(m, m[n].key) # 0
    BY ListGetThere
  <2> QED
    BY <2>1
<1>5. ASSUME NEW a \in 1 .. Len(j), NEW b \in 1 .. Len(j), j[a].key = j[b].key
      PROVE  a = b
  <2>1. CASE a \in 1 .. Len(l) /\ b \in 1 .. Len(l)
    BY <1>2, <1>5, <2>1 DEF IsList, UniqueKeys
  <2>2. ASSUME NEW n \in 1 .. Len(m), b = Len(l) + n, a \in 1 .. Len(l)
        PROVE  FALSE
    BY SMTT(30), <1>2, <1>4, <1>5, <2>2
  <2>3. ASSUME NEW n \in 1 .. Len(m), a = Len(l) + n, b \in 1 .. Len(l)
        PROVE  FALSE
    BY SMTT(30), <1>2, <1>4, <1>5, <2>3
  <2>4. ASSUME NEW n \in 1 .. Len(m), a = Len(l) + n,
               NEW o \in 1 .. Len(m), b = Len(l) + o
        PROVE  a = b
    <3>1. m[n].key = m[o].key
      BY <1>2, <1>5, <2>4
    <3>2. n = o
      BY <3>1 DEF IsList, UniqueKeys
    <3> QED
      BY <2>4, <3>2
  <2> QED
    BY <1>3, <2>1, <2>2, <2>3, <2>4
<1>6. IsList(j, K)
  BY <1>2, <1>5 DEF IsList, UniqueKeys
<1>7. ASSUME NEW k \in K
      PROVE  ListGet(j, k) = IF ListGet(l, k) # 0 THEN ListGet(l, k) ELSE ListGet(m, k)
  <2>1. ListGet(j, k) \in Nat /\ ListGet(l, k) \in Nat /\ ListGet(m, k) \in Nat
    BY <1>6, ListGetIsNat
  <2>2. ASSUME NEW d \in Nat \ {0}, ListGet(l, k) = d
        PROVE  ListGet(j, k) = d
    <3>1. PICK i \in 1 .. Len(l) : l[i] = Pair(k, d)
      BY <2>2, ListGetIs
    <3>2. i \in 1 .. Len(j) /\ j[i] = Pair(k, d)
      BY <1>1, <1>2, <3>1
    <3> QED
      BY <1>6, <3>2, ListGetIs
  <2>3. ASSUME NEW d \in Nat \ {0}, ListGet(m, k) = d
        PROVE  ListGet(j, k) = d
    <3>1. PICK n \in 1 .. Len(m) : m[n] = Pair(k, d)
      BY <2>3, ListGetIs
    <3>2. Len(l) + n \in 1 .. Len(j) /\ j[Len(l) + n] = Pair(k, d)
      BY <1>1, <1>2, <3>1
    <3> QED
      BY <1>6, <3>2, ListGetIs
  <2>4. ASSUME NEW d \in Nat \ {0}, ListGet(j, k) = d
        PROVE  ListGet(l, k) = d \/ ListGet(m, k) = d
    <3>1. PICK i \in 1 .. Len(j) : j[i] = Pair(k, d)
      BY <1>6, <2>4, ListGetIs
    <3>2. CASE i \in 1 .. Len(l)
      <4>1. l[i] = Pair(k, d)
        BY <1>2, <3>1, <3>2
      <4> QED
        BY <3>2, <4>1, ListGetIs
    <3>3. ASSUME NEW n \in 1 .. Len(m), i = Len(l) + n
          PROVE  ListGet(m, k) = d
      <4>1. m[n] = Pair(k, d)
        BY <1>2, <3>1, <3>3
      <4> QED
        BY <4>1, ListGetIs
    <3> QED
      BY <1>3, <3>2, <3>3
  <2> QED
    BY <2>1, <2>2, <2>3, <2>4
<1> QED
  BY <1>6, <1>7 DEF j

(* The callbacks meet what the map has.                                    *)
LEMMA VisitIs ==
  ASSUME NEW K, NEW n \in Nat \ {0}, NEW A \in [K -> 0 .. n - 1],
         NEW h, IsMap(h, K, A, n)
  PROVE  /\ IsList(HmapRunCb(h), K)
         /\ \A k \in K : ListGet(HmapRunCb(h), k) = Got(h, A, k)
<1> DEFINE v == [i \in 1 .. n |-> SlotPairs(h[i - 1])]
<1>1. /\ \A a \in 0 .. n - 1 : IsList(SlotPairs(h[a]), K)
      /\ \A a \in 0 .. n - 1 : \A k \in K : ListGet(SlotPairs(h[a]), k) # 0 => A[k] = a
  BY SlotPairsIs DEF IsMap
<1>2. HmapRunCb(h) = FlattenSeq(v)
  <2>1. DOMAIN h = 0 .. n - 1
    <3>1. h = [a \in 0 .. n - 1 |-> h[a]]
      BY DEF IsMap
    <3> QED
      BY <3>1
  <2>2. Cardinality(DOMAIN h) = n
    <3>1. Cardinality(0 .. n - 1) = IF 0 > n - 1 THEN 0 ELSE (n - 1) - 0 + 1
      BY FS_Interval
    <3> QED
      BY <2>1, <3>1
  <2> QED
    BY <2>2 DEF HmapRunCb
<1>3. v \in [1 .. n -> Seq(Pairs(K))]
  <2>1. \A i \in 1 .. n : i - 1 \in 0 .. n - 1
    OBVIOUS
  <2> QED
    BY <1>1, <2>1 DEF IsList
<1>4. \A i \in 1 .. n : v[i] = SlotPairs(h[i - 1])
  OBVIOUS
<1> HIDE DEF v
<1>5. PICK t : IsFlat(t, v, n) /\ FlattenSeq(v) = t[n]
  BY <1>3, FlatIs
<1> DEFINE Upto(i, k) == IF A[k] < i THEN Got(h, A, k) ELSE 0
           Ns == {i \in 1 .. n : /\ IsList(t[i], K)
                                 /\ \A k \in K : ListGet(t[i], k) = Upto(i, k)}
<1>6. 1 \in Ns
  <2>1. 1 \in 1 .. n /\ 0 \in 0 .. n - 1
    OBVIOUS
  <2>2. t[1] = SlotPairs(h[0])
    <3>1. t[1] = v[1] /\ 1 - 1 = 0
      BY <1>5, <2>1 DEF IsFlat
    <3> QED
      BY <1>4, <2>1, <3>1
  <2>3. ASSUME NEW k \in K
        PROVE  ListGet(t[1], k) = Upto(1, k)
    <3>1. CASE A[k] = 0
      BY <2>2, <3>1 DEF Got
    <3>2. CASE A[k] # 0
      <4>1. ~(A[k] < 1)
        BY <3>2
      <4>2. ListGet(t[1], k) = 0
        BY <1>1, <2>1, <2>2, <3>2
      <4> QED
        BY <4>1, <4>2
    <3> QED
      BY <3>1, <3>2
  <2> QED
    BY <1>1, <2>1, <2>2, <2>3
<1>7. ASSUME NEW i \in 1 .. n - 1, i \in Ns
      PROVE  i + 1 \in Ns
  <2> DEFINE l == SlotPairs(h[i])
  <2>1. /\ i + 1 \in 1 .. n /\ i + 1 # 1 /\ (i + 1) - 1 = i /\ i \in 0 .. n - 1
        /\ i \in 1 .. n
    OBVIOUS
  <2>2. t[i + 1] = t[i] \o l
    <3>1. t[i + 1] = t[i] \o v[i + 1]
      BY <1>5, <2>1 DEF IsFlat
    <3> QED
      BY <1>4, <2>1, <3>1
  <2>3. /\ IsList(l, K) /\ IsList(t[i], K)
        /\ \A k \in K : ListGet(l, k) # 0 => A[k] = i
        /\ \A k \in K : ListGet(t[i], k) = Upto(i, k)
    BY <1>1, <1>7, <2>1
  <2>4. \A k \in K : A[k] = i => ListGet(l, k) = Got(h, A, k)
    BY DEF Got
  <2> HIDE DEF l
  <2>5. ASSUME NEW k \in K
        PROVE  ListGet(t[i], k) = 0 \/ ListGet(l, k) = 0
    <3>1. CASE A[k] = i
      <4>1. ~(A[k] < i)
        BY <3>1
      <4> QED
        BY <2>3, <4>1
    <3>2. CASE A[k] # i
      BY <2>3, <3>2
    <3> QED
      BY <3>1, <3>2
  <2>6. /\ IsList(t[i + 1], K)
        /\ \A k \in K : ListGet(t[i + 1], k) =
                          IF ListGet(t[i], k) # 0 THEN ListGet(t[i], k) ELSE ListGet(l, k)
    BY <2>2, <2>3, <2>5, JoinIs
  <2>7. ASSUME NEW k \in K
        PROVE  ListGet(t[i + 1], k) = Upto(i + 1, k)
    <3>1. CASE A[k] = i
      <4>1. A[k] < i + 1 /\ ~(A[k] < i)
        BY <3>1
      <4> QED
        BY <2>3, <2>4, <2>6, <3>1, <4>1
    <3>2. CASE A[k] # i
      <4>1. A[k] < i + 1 <=> A[k] < i
        BY <3>2
      <4>2. ListGet(l, k) = 0
        BY <2>3, <3>2
      <4> QED
        BY <2>3, <2>6, <4>1, <4>2
    <3> QED
      BY <3>1, <3>2
  <2> QED
    BY <2>1, <2>6, <2>7
<1>8. n \in Ns
  <2>1. 1 \in Nat /\ n \in Nat /\ n \in 1 .. n
    OBVIOUS
  <2> HIDE DEF Ns
  <2> QED
    BY <1>6, <1>7, <2>1, UpTo
<1>9. \A k \in K : A[k] < n
  OBVIOUS
<1> QED
  BY <1>2, <1>5, <1>8, <1>9

(* The data of a list is a visit that meets each of them once.             *)
LEMMA DataIs ==
  ASSUME NEW K, NEW l, IsList(l, K),
         NEW T, T = {ListGet(l, k) : k \in K} \ {0},
         \A k, j \in K : ListGet(l, k) # 0 /\ ListGet(l, k) = ListGet(l, j) => k = j
  PROVE  Table!MeetsOnce(Data(l), T)
<1> DEFINE D == 1 .. Len(l)
           f == Data(l)
<1>1. l \in Seq(Pairs(K)) /\ DOMAIN l = D /\ Len(l) \in Nat
  BY DEF IsList
<1>2. f = [i \in D |-> l[i].data]
  BY <1>1 DEF Data
<1>3. ASSUME NEW i \in D
      PROVE  /\ f[i] = l[i].data /\ l[i].key \in K
             /\ f[i] = ListGet(l, l[i].key) /\ f[i] # 0 /\ f[i] \in T
  <2>1. f[i] = l[i].data
    BY <1>2
  <2>2. ListGet(l, l[i].key) = l[i].data /\ l[i].key \in K /\ l[i].data \in Nat \ {0}
    BY ListGetThere
  <2> QED
    BY <2>1, <2>2
<1>4. f \in [D -> T]
  BY <1>2, <1>3
<1> HIDE DEF f
<1>5. ASSUME NEW i \in D, NEW j \in D, f[i] = f[j]
      PROVE  i = j
  <2>1. l[i].key = l[j].key
    BY <1>3, <1>5
  <2> QED
    BY <2>1 DEF IsList, UniqueKeys
<1>6. ASSUME NEW d \in T
      PROVE  \E i \in D : f[i] = d
  <2>1. PICK k \in K : ListGet(l, k) = d
    OBVIOUS
  <2>2. d \in Nat \ {0}
    BY <2>1, ListGetIsNat
  <2>3. PICK i \in D : l[i] = Pair(k, d)
    BY <2>1, <2>2, ListGetIs
  <2> QED
    BY <1>3, <2>3, PairHas
<1>7. f \in Seq(T) /\ Len(f) = Len(l)
  BY <1>1, <1>4
<1> QED
  BY <1>5, <1>6, <1>7 DEF Table!MeetsOnce, f

(* The end of a process meets each of its virtual descriptors once.        *)
LEMMA VfdVisit ==
  ASSUME NEW num, NEW gp, IsProcess(gp, num)
  PROVE  Table!MeetsOnce(Data(HmapRunCb(gp.vfd_map)), {FdOf(gp, f) : f \in Fds} \ {0})
<1> DEFINE l == HmapRunCb(gp.vfd_map)
           T == {ListGet(l, m) : m \in Numbers} \ {0}
<1>1. /\ IsMap(gp.vfd_map, Numbers, VfdAddr, MapSize) /\ Linked(gp, num)
      /\ MapSize \in Nat \ {0} /\ VfdAddr \in [Numbers -> 0 .. MapSize - 1]
  BY AddressesAre, MapsAssumption DEF IsProcess, HasMaps
<1>2. IsList(l, Numbers) /\ \A m \in Numbers : ListGet(l, m) = VfdOf(gp, m)
  BY <1>1, VisitIs DEF VfdOf
<1> HIDE DEF l
<1>3. \A m, o \in Numbers : ListGet(l, m) # 0 /\ ListGet(l, m) = ListGet(l, o) => m = o
  BY <1>1, <1>2 DEF Linked
<1>4. Table!MeetsOnce(Data(l), T)
  BY <1>2, <1>3, DataIs
<1>5. T = {FdOf(gp, f) : f \in Fds} \ {0}
  <2>1. ASSUME NEW m \in Numbers, ListGet(l, m) # 0
        PROVE  \E f \in Fds : FdOf(gp, f) = ListGet(l, m)
    BY <1>1, <1>2, <2>1 DEF Linked
  <2>2. ASSUME NEW f \in Fds, FdOf(gp, f) # 0
        PROVE  \E m \in Numbers : ListGet(l, m) = FdOf(gp, f)
    <3>1. FdOf(gp, f) \in Numbers /\ VfdOf(gp, FdOf(gp, f)) = FdOf(gp, f)
      BY <2>2, VfdByRealfdIs
    <3> QED
      BY <1>2, <3>1
  <2> QED
    BY <2>1, <2>2
<1> HIDE DEF T
<1> QED
  BY <1>4, <1>5 DEF l

(* The end of the file meets each path once.                               *)
LEMMA PathVisit ==
  ASSUME MapsInv
  PROVE  Table!MeetsOnce(Data(HmapRunCb(vsize_map)), {IdIn(vsize_map, x) : x \in Paths} \ {0})
<1> DEFINE l == HmapRunCb(vsize_map)
           T == {ListGet(l, x) : x \in Paths} \ {0}
<1>1. /\ PathsOK(vsize_map, num_vsizes)
      /\ IsMap(vsize_map, Paths, PathAddr, MaxProcesses)
      /\ MaxProcesses \in Nat \ {0} /\ PathAddr \in [Paths -> 0 .. MaxProcesses - 1]
  BY AddressesAre, MapsAssumption DEF MapsInv, PathsOK
<1>2. IsList(l, Paths) /\ \A x \in Paths : ListGet(l, x) = IdIn(vsize_map, x)
  BY <1>1, VisitIs DEF IdIn
<1> HIDE DEF l
<1>3. \A x, y \in Paths : ListGet(l, x) # 0 /\ ListGet(l, x) = ListGet(l, y) => x = y
  BY <1>1, <1>2 DEF PathsOK
<1>4. Table!MeetsOnce(Data(l), T)
  BY <1>2, <1>3, DataIs
<1>5. T = {IdIn(vsize_map, x) : x \in Paths} \ {0}
  BY <1>2
<1> HIDE DEF T
<1> QED
  BY <1>4, <1>5 DEF l

-----------------------------------------------------------------------------
(* The maps as the plain functions of ProcessTable.                        *)
TableOf == [p \in Pids |-> [f \in Fds |-> MappedTo(p, f)]]
IdsOf == [x \in Paths |-> HmapGet(vsize_map, Addr(x), x)]

LEMMA IdsAre ==
  ASSUME MapsInv, NEW x \in Paths
  PROVE  IdsOf[x] = IdIn(vsize_map, x)
BY IdIs DEF IdsOf, MapsInv

LEMMA TableInit ==
  ASSUME Init
  PROVE  Table!Init
<1>1. TableOf = [p \in Pids |-> Table!Free]
  BY MapsInvInit, PidsAre DEF TableOf, Table!Free
<1>2. IdsOf = [x \in Paths |-> 0]
  <2>1. \A x \in Paths : HmapGet(vsize_map, Addr(x), x) = 0
    BY MapsInvInit, IdsAre DEF IdsOf
  <2> QED
    BY <2>1 DEF IdsOf
<1> QED
  BY <1>1, <1>2 DEF Init, Table!Init, TableOf, IdsOf

LEMMA TableStays ==
  ASSUME \A q \in Nat, g \in Fds : MappedTo(q, g)' = MappedTo(q, g)
  PROVE  TableOf' = TableOf
BY PidsAre DEF TableOf

LEMMA IdsStay ==
  ASSUME UNCHANGED paths
  PROVE  IdsOf' = IdsOf
BY DEF IdsOf, paths

LEMMA TableOpen ==
  ASSUME MapsInv, NEW p \in Pids, NEW f \in Fds, Open(p, f)
  PROVE  Table!Open(p, f)
<1>1. /\ \A q \in Nat, g \in Fds :
           MappedTo(q, g)' = IF q = p /\ g = f THEN num_mapped_fds + 1 ELSE MappedTo(q, g)
      /\ num_mapped_fds' = num_mapped_fds + 1
      /\ seen' = IF MappedTo(p, f) = 0 THEN <<>> ELSE <<MappedTo(p, f)>>
  BY OpenStep
<1>2. UNCHANGED <<paths, stopped>>
  BY DEF Open, EventOf
<1>3. TableOf' = [TableOf EXCEPT ![p][f] = num_mapped_fds + 1]
  BY <1>1, PidsAre DEF TableOf
<1>4. TableOf[p][f] = MappedTo(p, f)
  BY DEF TableOf
<1>5. UNCHANGED <<IdsOf, num_vsizes, stopped>>
  BY <1>2, IdsStay DEF paths
<1> QED
  BY <1>1, <1>3, <1>4, <1>5 DEF Table!Open, Table!paths, TableOf, IdsOf

LEMMA TableUse ==
  ASSUME MapsInv, NEW p \in Pids, NEW f \in Fds, Use(p, f)
  PROVE  Table!Use(p, f)
<1>1. /\ \A q \in Nat, g \in Fds : MappedTo(q, g)' = MappedTo(q, g)
      /\ seen' = <<MappedTo(p, f)>>
  BY UseStep
<1>2. UNCHANGED <<paths, stopped, num_mapped_fds>>
  BY DEF Use, EventOf
<1>3. TableOf' = TableOf /\ TableOf[p][f] = MappedTo(p, f)
  <2>1. TableOf' = TableOf
    BY <1>1, TableStays
  <2> QED
    BY <2>1 DEF TableOf
<1>4. UNCHANGED <<IdsOf, num_vsizes, stopped>>
  BY <1>2, IdsStay DEF paths
<1> QED
  BY <1>1, <1>2, <1>3, <1>4
     DEF Table!Use, Table!descriptors, Table!paths, TableOf, IdsOf

LEMMA TableClose ==
  ASSUME MapsInv, NEW p \in Pids, NEW f \in Fds, Close(p, f)
  PROVE  Table!Close(p, f)
<1>1. /\ \A q \in Nat, g \in Fds :
           MappedTo(q, g)' = IF q = p /\ g = f THEN 0 ELSE MappedTo(q, g)
      /\ MappedTo(p, f) # 0
      /\ seen' = <<MappedTo(p, f)>>
  BY CloseStep
<1>2. UNCHANGED <<paths, stopped, num_mapped_fds>>
  BY DEF Close, EventOf
<1>3. TableOf' = [TableOf EXCEPT ![p][f] = 0]
  BY <1>1, PidsAre DEF TableOf
<1>4. TableOf[p][f] = MappedTo(p, f)
  BY DEF TableOf
<1>5. UNCHANGED <<IdsOf, num_vsizes, stopped>>
  BY <1>2, IdsStay DEF paths
<1> QED
  BY <1>1, <1>2, <1>3, <1>4, <1>5 DEF Table!Close, Table!paths, TableOf, IdsOf

LEMMA TableExitGroup ==
  ASSUME MapsInv, NEW p \in Pids, ExitGroup(p)
  PROVE  Table!ExitGroup(p)
<1> DEFINE gp == ObjectsWith(p)[ObjectOf(p)][1]
           T == {TableOf[p][f] : f \in Fds} \ {0}
<1>1. \A q \in Nat, g \in Fds : MappedTo(q, g)' = IF q = p THEN 0 ELSE MappedTo(q, g)
  BY ExitGroupStep
<1>2. /\ p \in Nat /\ InRange(pid_map, p)
      /\ UNCHANGED <<paths, stopped, num_mapped_fds>>
      /\ seen' = Data(HmapRunCb(gp.vfd_map))
  BY PidsAre DEF ExitGroup, EventOf
<1>3. /\ IsProcess(gp, num_mapped_fds)
      /\ \A f \in Fds : FdOf(gp, f) = MappedTo(p, f)
  BY <1>2, Ensured
<1> HIDE DEF gp
<1>4. TableOf' = [TableOf EXCEPT ![p] = [f \in Fds |-> 0]]
  BY <1>1, PidsAre DEF TableOf
<1>5. Table!MeetsOnce(seen', T)
  <2>1. Table!MeetsOnce(seen', {FdOf(gp, f) : f \in Fds} \ {0})
    BY <1>2, <1>3, VfdVisit
  <2>2. T = {FdOf(gp, f) : f \in Fds} \ {0}
    BY <1>3 DEF TableOf
  <2> HIDE DEF T
  <2> QED
    BY <2>1, <2>2
<1>6. UNCHANGED <<IdsOf, num_vsizes, stopped>>
  BY <1>2, IdsStay DEF paths
<1> QED
  BY <1>2, <1>4, <1>5, <1>6
     DEF Table!ExitGroup, Table!MeetsOnce, Table!paths, Table!Free, TableOf, IdsOf

LEMMA TableMeetPath ==
  ASSUME MapsInv, NEW x \in Paths, VsizeByPath(x)
  PROVE  Table!MeetPath(x)
<1> DEFINE met == IdIn(vsize_map, x) # 0
           n == num_vsizes + 1
<1>1. /\ MapsInv'
      /\ \A y \in Paths : IdIn(vsize_map, y)' =
                            IF ~met /\ y = x THEN n ELSE IdIn(vsize_map, y)
      /\ num_vsizes' = IF met THEN num_vsizes ELSE n
      /\ seen' = <<IdIn(vsize_map, x)'>>
      /\ UNCHANGED processes
  BY VsizeByPathStep
<1>2. /\ \A y \in Paths : IdsOf[y] = IdIn(vsize_map, y)
      /\ \A y \in Paths : IdsOf'[y] = IdIn(vsize_map, y)'
  <2>1. \A y \in Paths : IdsOf[y] = IdIn(vsize_map, y)
    BY IdsAre
  <2>2. \A y \in Paths : HmapGet(vsize_map', Addr(y), y) = IdIn(vsize_map', y)
    BY <1>1, IdIs DEF MapsInv
  <2>3. \A y \in Paths : IdsOf'[y] = IdIn(vsize_map, y)'
    BY <2>2 DEF IdsOf, Addr, IdIn, Got, PathAddr
  <2> QED
    BY <2>1, <2>3
<1>3. IdsOf = [y \in Paths |-> IdsOf[y]] /\ IdsOf' = [y \in Paths |-> IdsOf'[y]]
  BY DEF IdsOf
<1>4. met <=> IdsOf[x] # 0
  BY <1>2
<1> HIDE DEF met, n
<1>5. IdsOf' = IF IdsOf[x] # 0 THEN IdsOf ELSE [IdsOf EXCEPT ![x] = n]
  <2>1. ASSUME NEW y \in Paths
        PROVE  IdsOf'[y] = IF ~met /\ y = x THEN n ELSE IdsOf[y]
    BY <1>1, <1>2
  <2> QED
    BY <1>3, <1>4, <2>1
<1>6. seen' = <<IdsOf'[x]>>
  BY <1>1, <1>2
<1>7. UNCHANGED <<TableOf, num_mapped_fds, stopped>>
  <2>1. UNCHANGED <<pid_map, gprocess, num_mapped_fds, stopped>>
    BY <1>1 DEF processes, VsizeByPath
  <2>2. TableOf' = TableOf
    BY <2>1 DEF TableOf, MappedTo
  <2> QED
    BY <2>1, <2>2
<1> QED
  BY <1>1, <1>4, <1>5, <1>6, <1>7 DEF Table!MeetPath, Table!descriptors, TableOf, IdsOf, n

LEMMA TableVisitPaths ==
  ASSUME MapsInv, WriteInit
  PROVE  Table!VisitPaths
<1> DEFINE T == {IdsOf[x] : x \in Paths} \ {0}
<1>1. /\ UNCHANGED <<processes, paths, stopped>>
      /\ seen' = Data(HmapRunCb(vsize_map))
  BY DEF WriteInit
<1>2. Table!MeetsOnce(seen', T)
  <2>1. Table!MeetsOnce(seen', {IdIn(vsize_map, x) : x \in Paths} \ {0})
    BY <1>1, PathVisit
  <2>2. T = {IdIn(vsize_map, x) : x \in Paths} \ {0}
    BY IdsAre
  <2> HIDE DEF T
  <2> QED
    BY <2>1, <2>2
<1>3. UNCHANGED <<TableOf, IdsOf, num_mapped_fds, num_vsizes, stopped>>
  <2>1. TableOf' = TableOf
    BY <1>1, NothingMoves, TableStays
  <2> QED
    BY <1>1, <2>1, IdsStay DEF processes, paths
<1> QED
  BY <1>2, <1>3 DEF Table!VisitPaths, Table!MeetsOnce, Table!descriptors, Table!paths, TableOf, IdsOf

LEMMA TableStop ==
  ASSUME MapsInv, NEW p \in Pids, PidTooLarge(p)
  PROVE  Table!Stop
<1>1. UNCHANGED <<processes, paths, seen>> /\ stopped' = TRUE
  BY DEF PidTooLarge
<1>2. UNCHANGED <<TableOf, IdsOf, num_mapped_fds, num_vsizes>>
  <2>1. TableOf' = TableOf
    BY <1>1, NothingMoves, TableStays
  <2> QED
    BY <1>1, <2>1, IdsStay DEF processes, paths
<1> QED
  BY <1>1, <1>2 DEF Table!Stop, Table!descriptors, Table!paths, TableOf, IdsOf

LEMMA TableNext ==
  ASSUME MapsInv, [Next]_vars
  PROVE  [Table!Next]_(Table!vars)
<1>1. ASSUME Next
      PROVE  ~stopped
  <2>1. ASSUME NEW p \in Pids, NEW f \in Fds, Open(p, f) \/ Use(p, f) \/ Close(p, f)
        PROVE  ~stopped
    BY <2>1 DEF Open, Use, Close, EventOf, Step
  <2>2. ASSUME NEW p \in Pids, ExitGroup(p) \/ PidTooLarge(p)
        PROVE  ~stopped
    BY <2>2 DEF ExitGroup, PidTooLarge, EventOf, Step
  <2>3. ASSUME NEW x \in Paths, VsizeByPath(x)
        PROVE  ~stopped
    BY <2>3 DEF VsizeByPath, Step
  <2>4. WriteInit => ~stopped
    BY DEF WriteInit, Step
  <2> QED
    BY <1>1, <2>1, <2>2, <2>3, <2>4 DEF Next
<1>2. ASSUME NEW p \in Pids, NEW f \in Fds, Open(p, f) \/ Use(p, f) \/ Close(p, f)
      PROVE  Table!Open(p, f) \/ Table!Use(p, f) \/ Table!Close(p, f)
  BY <1>2, TableOpen, TableUse, TableClose
<1>3. ASSUME NEW p \in Pids, ExitGroup(p) \/ PidTooLarge(p)
      PROVE  Table!ExitGroup(p) \/ Table!Stop
  BY <1>3, TableExitGroup, TableStop
<1>4. ASSUME NEW x \in Paths, VsizeByPath(x)
      PROVE  Table!MeetPath(x)
  BY <1>4, TableMeetPath
<1>5. ASSUME WriteInit
      PROVE  Table!VisitPaths
  BY <1>5, TableVisitPaths
<1>6. ASSUME Next
      PROVE  Table!Next
  BY <1>1, <1>2, <1>3, <1>4, <1>5, <1>6 DEF Next, Table!Next
<1>7. ASSUME UNCHANGED vars
      PROVE  UNCHANGED Table!vars
  <2>1. UNCHANGED <<processes, paths, seen, stopped>>
    BY <1>7 DEF vars
  <2>2. UNCHANGED <<TableOf, IdsOf, num_mapped_fds, num_vsizes, seen, stopped>>
    <3>1. TableOf' = TableOf
      BY <2>1, NothingMoves, TableStays
    <3> QED
      BY <2>1, <3>1, IdsStay DEF processes, paths
  <2> QED
    BY <2>2 DEF Table!vars, TableOf, IdsOf
<1>8. CASE Next
  BY <1>6, <1>8
<1>9. CASE UNCHANGED vars
  BY <1>7, <1>9
<1> QED
  BY <1>8, <1>9

(* The array map and the hash maps of the generator do what plain          *)
(* functions would: no entry is lost, doubled or reached by another key,   *)
(* and the callbacks meet every entry once (hmap.c, amap.c, list.c).       *)
THEOREM MapsAreFunctions == Spec => ImplementsProcessTable
<1>1. Init => Table!Init
  BY TableInit
<1>2. MapsInv /\ [Next]_vars => [Table!Next]_(Table!vars)
  BY TableNext
<1> QED
  BY <1>1, <1>2, MapsStaySound, PTL DEF Spec, ImplementsProcessTable, Table!Spec
=============================================================================
