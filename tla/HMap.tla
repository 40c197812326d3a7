-------------------------------- MODULE HMap --------------------------------
(***************************************************************************)
(* The hash map and the list of its collisions (datas/hmap.c, list.c).     *)
(* There is one version for strings and one for longs, which differ in how *)
(* the address of a key is found; here the address is a parameter.         *)
(*                                                                         *)
(* A slot has one pair of key and data, or a list of pairs: the list is    *)
(* made at the first collision and stays, however short it gets.           *)
(***************************************************************************)
EXTENDS Integers, Sequences, FiniteSets, SequencesExt

Pair(key, data) == [key |-> key, data |-> data]
HasKey(l, key) == \E i \in DOMAIN l : l[i].key = key

(* list_key_insert: in front, unless the key is there.                     *)
ListInsert(l, key, data) ==
  IF HasKey(l, key) THEN l ELSE <<Pair(key, data)>> \o l

(* list_key_remove, which stops at the first match.                        *)
ListRemove(l, key) == RemoveFirstMatch(l, LAMBDA e : e.key = key)

(* list_key_get, 0 for NULL.                                               *)
ListGet(l, key) ==
  IF HasKey(l, key) THEN l[CHOOSE i \in DOMAIN l : l[i].key = key].data ELSE 0

(* single is h->data[addr] with h->keys[addr], and list is h->l[addr];     *)
(* <<>> is NULL.                                                           *)
EmptySlot == [single |-> <<>>, list |-> <<>>]
HmapNew(size) == [addr \in 0 .. size - 1 |-> EmptySlot]

(* Faulty variant: the pair that was there first does not get to the list. *)
HmapInsertForgetful(h, addr, key, data) ==
  LET s == h[addr] IN
  CASE s.single # <<>> ->
         IF s.single[1].key = key THEN h
         ELSE [h EXCEPT ![addr].list = <<ListInsert(<<>>, key, data)>>]
    [] s.single = <<>> /\ s.list # <<>> ->
         [h EXCEPT ![addr].list[1] = ListInsert(@, key, data)]
    [] s.single = <<>> /\ s.list = <<>> ->
         [h EXCEPT ![addr].single = <<Pair(key, data)>>]

(* hmap_insert: a key that is there keeps its data.                        *)
HmapInsert(h, addr, key, data) ==
  LET s == h[addr]
      collision == ListInsert(s.single, key, data) IN
  CASE s.single # <<>> /\ s.single[1].key = key -> h
    [] s.single # <<>> /\ s.single[1].key # key ->
         [h EXCEPT ![addr] = [single |-> <<>>, list |-> <<collision>>]]
    [] s.single = <<>> /\ s.list # <<>> ->
         [h EXCEPT ![addr].list[1] = ListInsert(@, key, data)]
    [] s.single = <<>> /\ s.list = <<>> ->
         [h EXCEPT ![addr].single = <<Pair(key, data)>>]

(* hmap_remove does not look at the key of a single pair.                  *)
HmapRemove(h, addr, key) ==
  CASE h[addr].single # <<>> -> [h EXCEPT ![addr].single = <<>>]
    [] h[addr].single = <<>> /\ h[addr].list # <<>> ->
         [h EXCEPT ![addr].list[1] = ListRemove(@, key)]
    [] OTHER -> h

HmapGet(h, addr, key) ==
  CASE HasKey(h[addr].single, key) -> h[addr].single[1].data
    [] ~HasKey(h[addr].single, key) /\ h[addr].list # <<>> ->
         ListGet(h[addr].list[1], key)
    [] OTHER -> 0

SlotPairs(s) == IF s.list = <<>> THEN s.single ELSE s.list[1] \o s.single

(* hmap_run_cb, with list_run_cb: the pairs in the order of the callbacks. *)
HmapRunCb(h) ==
  FlattenSeq([i \in 1 .. Cardinality(DOMAIN h) |-> SlotPairs(h[i - 1])])
=============================================================================
