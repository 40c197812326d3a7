---------------------------- MODULE CaptureProofs ----------------------------
(***************************************************************************)
(* The arrays of the capture script, for every number of threads, calls,   *)
(* skipped probes and array sizes: what a line prints belongs to the call  *)
(* that the line is about.                                                 *)
(***************************************************************************)
EXTENDS IoRiot, FiniteSetTheorems, SequenceTheorems, WellFoundedInduction, TLAPS

(* The calls, each a record made by Enter, and the lines.                  *)
IsSeq(s) == s \in Seq(ToSet(s))
CallOK(c) ==
  /\ c = [thread |-> c.thread, name |-> c.name, fd |-> c.fd, path |-> c.path,
          seen |-> c.seen, file |-> c.file, ret |-> c.ret]
  /\ c.thread \in Threads /\ c.seen \in BOOLEAN
  /\ c.seen => armed /\ Process[c.thread] \in Wanted /\ c.name \in Probed
MadeOK == IsSeq(made) /\ \A i \in 1 .. Len(made) : CallOK(made[i])

(* The threads, the call that each is in, and the counters.                *)
InCall(t) == call[t] # 0
ThreadsOK ==
  /\ call \in [Threads -> 0 .. Len(made)]
  /\ \A t \in Threads : InCall(t) => made[call[t]].thread = t
  /\ executed \subseteq {t \in Threads : InCall(t)}
  /\ skips \in Nat /\ crowd \in Nat
  /\ IsSeq(printed)

(* The entry is one of the call that its thread is in, or of an earlier    *)
(* one whose return was skipped, and then the entry of this one was too.   *)
Entry == [key : Threads \X Probed, id : Nat]
Left(t, n, id) ==
  /\ skips > 0
  /\ InCall(t) /\ made[call[t]].name = n =>
       ~made[call[t]].seen /\ skips > 1 /\ id < call[t]
EntryOf(a, t, n, id) ==
  /\ id \in 1 .. Len(made) /\ made[id].seen
  /\ made[id].thread = t /\ made[id].name = n /\ a \in Saved[n]
  /\ call[t] = id \/ Left(t, n, id)
EntryOK(a, e) == EntryOf(a, e.key[1], e.key[2], e.id)

UniqueKeys(es) == \A i, j \in 1 .. Len(es) : es[i].key = es[j].key => i = j
IsArray(es) == es \in Seq(Entry) /\ UniqueKeys(es)

EntriesOK ==
  /\ entries = [a \in Arrays |-> entries[a]]
  /\ \A a \in Arrays : IsArray(entries[a])
  /\ \A a \in Arrays : \A i \in 1 .. Len(entries[a]) : EntryOK(a, entries[a][i])

(* What the probe at the entry of a call has saved is there until its      *)
(* return, unless probes were skipped or there were too many calls.        *)
KeptOf(t) ==
  InCall(t) /\ made[call[t]].seen =>
    \A a \in Saved[made[call[t]].name] :
      \/ Has(entries[a], Key(t, made[call[t]].name))
      \/ skips > 0 \/ crowd > MapCap
EntriesKept == \A t \in Threads : KeptOf(t)

(* One argument of a line.                                                 *)
ArgOK(l, a) ==
  LET c == l.args[a] IN
  \/ c = l.id
  \/ c = 0 /\ (~made[l.id].seen \/ skips > 0 \/ crowd > MapCap)
  \/ /\ skips > 1 /\ ~made[l.id].seen /\ c \in 1 .. l.id - 1
     /\ made[c].thread = made[l.id].thread /\ made[c].name = l.name
LineOK(l) == \A a \in DOMAIN l.args : l.id \in 1 .. Len(made) /\ ArgOK(l, a)
LinesOK == \A i \in 1 .. Len(printed) : LineOK(printed[i])

CaptureInv == MadeOK /\ ThreadsOK /\ EntriesOK /\ EntriesKept /\ LinesOK


-----------------------------------------------------------------------------
(* Sequences whose elements have no common type.                           *)

LEMMA SeqIs ==
  ASSUME NEW S, NEW s \in Seq(S)
  PROVE  IsSeq(s) /\ Len(s) \in Nat /\ DOMAIN s = 1 .. Len(s)
<1>1. Len(s) \in Nat /\ DOMAIN s = 1 .. Len(s) /\ s = [i \in 1 .. Len(s) |-> s[i]]
  OBVIOUS
<1>2. \A i \in 1 .. Len(s) : s[i] \in ToSet(s)
  BY <1>1 DEF ToSet
<1>3. s \in Seq(ToSet(s))
  BY <1>1, <1>2
<1> QED
  BY <1>1, <1>3 DEF IsSeq

IsAppend(u, s, e) ==
  /\ IsSeq(u) /\ Len(s) \in Nat /\ Len(u) = Len(s) + 1
  /\ \A i \in 1 .. Len(s) : u[i] = s[i]
  /\ u[Len(s) + 1] = e

LEMMA AppendIs ==
  ASSUME NEW s, IsSeq(s), NEW e
  PROVE  IsAppend(Append(s, e), s, e)
<1> DEFINE S == ToSet(s) \cup {e}
<1>1. s \in Seq(S) /\ e \in S
  BY DEF IsSeq
<1> HIDE DEF S
<1>2. /\ Append(s, e) \in Seq(S) /\ Len(Append(s, e)) = Len(s) + 1 /\ Len(s) \in Nat
      /\ \A i \in 1 .. Len(s) : Append(s, e)[i] = s[i]
      /\ Append(s, e)[Len(s) + 1] = e
  BY <1>1, AppendProperties
<1>3. IsSeq(Append(s, e))
  BY <1>2, SeqIs
<1> QED
  BY <1>2, <1>3 DEF IsAppend

IsUpdate(u, s, k, e) ==
  /\ IsSeq(u) /\ Len(u) = Len(s)
  /\ \A i \in 1 .. Len(s) : u[i] = IF i = k THEN e ELSE s[i]

LEMMA UpdateIs ==
  ASSUME NEW s, IsSeq(s), NEW k \in 1 .. Len(s), NEW e
  PROVE  IsUpdate([s EXCEPT ![k] = e], s, k, e)
<1> DEFINE S == ToSet(s) \cup {e}
<1>1. s \in Seq(S) /\ e \in S
  BY DEF IsSeq
<1> HIDE DEF S
<1>2. /\ [s EXCEPT ![k] = e] \in Seq(S) /\ Len([s EXCEPT ![k] = e]) = Len(s)
      /\ \A i \in 1 .. Len(s) : [s EXCEPT ![k] = e][i] = IF i = k THEN e ELSE s[i]
  BY <1>1, ExceptSeq
<1>3. IsSeq([s EXCEPT ![k] = e])
  BY <1>2, SeqIs
<1> QED
  BY <1>2, <1>3 DEF IsUpdate

-----------------------------------------------------------------------------
(* The arrays: an entry is taken out, put in, deleted and found.           *)

Reduced(ds, es, p) ==
  /\ ds \in Seq(Entry) /\ Len(ds) = Len(es) - 1
  /\ \A i \in 1 .. Len(es) - 1 : ds[i] = IF i < p THEN es[i] ELSE es[i + 1]

LEMMA TailReduces ==
  ASSUME NEW es \in Seq(Entry), Len(es) > 0
  PROVE  Reduced(Tail(es), es, 1)
<1>1. es # << >>
  OBVIOUS
<1>2. /\ Tail(es) \in Seq(Entry) /\ Len(Tail(es)) = Len(es) - 1 /\ Len(es) \in Nat
      /\ \A i \in 1 .. Len(Tail(es)) : Tail(es)[i] = es[i + 1]
  BY <1>1, HeadTailProperties
<1> QED
  BY <1>2 DEF Reduced

LEMMA RemoveReduces ==
  ASSUME NEW es \in Seq(Entry), NEW p \in 1 .. Len(es)
  PROVE  Reduced(RemoveAt(es, p), es, p)
<1> DEFINE s == SubSeq(es, 1, p - 1)
           t == SubSeq(es, p + 1, Len(es))
           n == Len(es)
<1>1. n \in Nat /\ p \in Int /\ 1 <= p /\ p <= n
  OBVIOUS
<1>2. (\A i \in 1 .. p - 1 : es[i] \in Entry) /\ (\A i \in p + 1 .. n : es[i] \in Entry)
  BY <1>1
<1>3. /\ s \in Seq(Entry) /\ Len(s) = p - 1
      /\ \A i \in 1 .. p - 1 : s[i] = es[i]
  <2>1. /\ s \in Seq(Entry)
        /\ Len(s) = IF 1 <= p - 1 THEN p - 1 - 1 + 1 ELSE 0
        /\ \A i \in 1 .. p - 1 - 1 + 1 : s[i] = es[1 + i - 1]
    BY <1>1, <1>2, SubSeqProperties
  <2> HIDE DEF s
  <2> QED
    BY <1>1, <2>1
<1>4. /\ t \in Seq(Entry) /\ Len(t) = n - p
      /\ \A i \in 1 .. n - p : t[i] = es[p + i]
  <2>1. /\ t \in Seq(Entry)
        /\ Len(t) = IF p + 1 <= n THEN n - (p + 1) + 1 ELSE 0
        /\ \A i \in 1 .. n - (p + 1) + 1 : t[i] = es[p + 1 + i - 1]
    BY <1>1, <1>2, SubSeqProperties
  <2> HIDE DEF t
  <2> QED
    BY SMTT(30), <1>1, <2>1
<1> HIDE DEF s, t
<1> DEFINE u == s \o t
<1>5. /\ u \in Seq(Entry) /\ Len(u) = Len(s) + Len(t)
      /\ \A i \in 1 .. Len(s) + Len(t) : u[i] = IF i <= Len(s) THEN s[i] ELSE t[i - Len(s)]
  BY <1>3, <1>4, ConcatProperties
<1> HIDE DEF u
<1>6. Len(u) = n - 1
  BY <1>1, <1>3, <1>4, <1>5
<1>7. ASSUME NEW i \in 1 .. n - 1
      PROVE  u[i] = IF i < p THEN es[i] ELSE es[i + 1]
  <2>1. i \in 1 .. Len(s) + Len(t)
    BY <1>1, <1>3, <1>4
  <2>2. CASE i < p
    <3>1. i <= Len(s) /\ i \in 1 .. p - 1
      BY <1>1, <1>3, <2>2
    <3> QED
      BY <1>3, <1>5, <2>1, <2>2, <3>1
  <2>3. CASE ~(i < p)
    <3>1. ~(i <= Len(s)) /\ i - Len(s) = i - (p - 1) /\ i - (p - 1) \in 1 .. n - p
          /\ p + (i - (p - 1)) = i + 1
      BY <1>1, <1>3, <2>3
    <3>2. u[i] = t[i - (p - 1)]
      BY <1>5, <2>1, <3>1
    <3> QED
      BY <1>4, <2>3, <3>1, <3>2
  <2> QED
    BY <2>2, <2>3
<1>8. RemoveAt(es, p) = u
  BY DEF RemoveAt, u, s, t
<1>9. Reduced(u, es, p)
  BY <1>5, <1>6, <1>7 DEF Reduced
<1> QED
  BY <1>8, <1>9

LEMMA ReducedIs ==
  ASSUME NEW es, IsArray(es), NEW p \in 1 .. Len(es), NEW ds, Reduced(ds, es, p)
  PROVE  /\ IsArray(ds)
         /\ \A i \in 1 .. Len(ds) : /\ ds[i].key # es[p].key
                                    /\ \E j \in 1 .. Len(es) : ds[i] = es[j]
         /\ \A j \in 1 .. Len(es) : j # p => \E i \in 1 .. Len(ds) : ds[i] = es[j]
<1>1. /\ es \in Seq(Entry) /\ Len(es) \in Nat
      /\ \A i, j \in 1 .. Len(es) : es[i].key = es[j].key => i = j
  BY DEF IsArray, UniqueKeys
<1>2. /\ ds \in Seq(Entry) /\ Len(ds) = Len(es) - 1
      /\ \A i \in 1 .. Len(es) - 1 : ds[i] = IF i < p THEN es[i] ELSE es[i + 1]
  BY DEF Reduced
<1> DEFINE Old(i) == IF i < p THEN i ELSE i + 1
<1>3. \A i \in 1 .. Len(ds) : /\ Old(i) \in 1 .. Len(es) /\ Old(i) # p
                              /\ ds[i] = es[Old(i)]
  BY SMTT(30), <1>1, <1>2
<1>4. \A i, j \in 1 .. Len(ds) : Old(i) = Old(j) => i = j
  BY <1>1, <1>2
<1> HIDE DEF Old
<1>5. UniqueKeys(ds)
  BY SMTT(30), <1>1, <1>3, <1>4 DEF UniqueKeys
<1>6. \A i \in 1 .. Len(ds) : /\ ds[i].key # es[p].key
                              /\ \E j \in 1 .. Len(es) : ds[i] = es[j]
  BY <1>1, <1>3
<1>7. ASSUME NEW j \in 1 .. Len(es), j # p
      PROVE  \E i \in 1 .. Len(ds) : ds[i] = es[j]
  <2>1. CASE j < p
    BY SMTT(30), <1>1, <1>2, <2>1
  <2>2. CASE ~(j < p)
    <3>1. j - 1 \in 1 .. Len(es) - 1 /\ ~(j - 1 < p) /\ j - 1 + 1 = j
      BY <1>1, <1>7, <2>2
    <3> QED
      BY <1>2, <3>1
  <2> QED
    BY <2>1, <2>2
<1> QED
  BY <1>2, <1>5, <1>6, <1>7 DEF IsArray

LEMMA AtIs ==
  ASSUME NEW es, IsArray(es), NEW key
  PROVE  /\ Has(es, key) <=> \E i \in 1 .. Len(es) : es[i].key = key
         /\ Has(es, key) => At(es, key) \in 1 .. Len(es) /\ es[At(es, key)].key = key
<1>1. DOMAIN es = 1 .. Len(es)
  BY DEF IsArray
<1> QED
  BY <1>1 DEF Has, At

(* After a put the key has the new value; another key may be lost only if  *)
(* the array was full.                                                     *)
IsPut(ps, es, key, id) ==
  /\ IsArray(ps)
  /\ \A i \in 1 .. Len(ps) : \/ ps[i] = [key |-> key, id |-> id]
                             \/ /\ ps[i].key # key
                                /\ \E j \in 1 .. Len(es) : ps[i] = es[j]
  /\ Has(ps, key)
  /\ \A k : Has(es, k) => Has(ps, k) \/ (Len(es) = MapCap /\ ~Has(es, key))

LEMMA PutAtIs ==
  ASSUME NEW es, IsArray(es), NEW key \in Threads \X Probed, NEW id \in Nat,
         Has(es, key)
  PROVE  IsPut(Put(es, key, id), es, key, id)
<1> DEFINE p == At(es, key)
           ps == [es EXCEPT ![p].id = id]
           e == [key |-> key, id |-> id]
<1>1. /\ es \in Seq(Entry) /\ Len(es) \in Nat
      /\ \A i, j \in 1 .. Len(es) : es[i].key = es[j].key => i = j
  BY DEF IsArray, UniqueKeys
<1>2. p \in 1 .. Len(es) /\ es[p].key = key
  BY AtIs
<1>3. e \in Entry /\ e.key = key
  BY DEF Entry
<1> HIDE DEF p
<1>4. [es[p] EXCEPT !.id = id] = e
  <2>1. es[p] \in Entry
    BY <1>1, <1>2
  <2>2. PICK k \in Threads \X Probed, i \in Nat : es[p] = [key |-> k, id |-> i]
    BY <2>1 DEF Entry
  <2> QED
    BY <1>2, <2>2 DEF e
<1>5. ps = [es EXCEPT ![p] = e]
  BY <1>1, <1>4
<1> HIDE DEF e, ps
<1>6. /\ ps \in Seq(Entry) /\ Len(ps) = Len(es)
      /\ \A i \in 1 .. Len(es) : ps[i] = IF i = p THEN e ELSE es[i]
  BY <1>1, <1>2, <1>3, <1>5, ExceptSeq
<1>7. \A i \in 1 .. Len(es) : ps[i].key = es[i].key
  BY <1>2, <1>3, <1>6
<1>8. UniqueKeys(ps)
  BY <1>1, <1>6, <1>7 DEF UniqueKeys
<1>9. IsArray(ps)
  BY <1>6, <1>8 DEF IsArray
<1>10. \A i \in 1 .. Len(ps) : \/ ps[i] = e
                               \/ /\ ps[i].key # key
                                  /\ \E j \in 1 .. Len(es) : ps[i] = es[j]
  BY <1>1, <1>2, <1>6
<1>11. \A k : Has(es, k) => Has(ps, k)
  BY <1>6, <1>7, <1>9, AtIs
<1>12. Put(es, key, id) = ps
  BY DEF Put, ps, p
<1>13. IsPut(ps, es, key, id)
  BY <1>9, <1>10, <1>11 DEF IsPut, e
<1> QED
  BY <1>12, <1>13

LEMMA PutNewIs ==
  ASSUME NEW es, IsArray(es), NEW key \in Threads \X Probed, NEW id \in Nat,
         ~Has(es, key)
  PROVE  IsPut(Put(es, key, id), es, key, id)
<1> DEFINE ds == IF Len(es) = MapCap THEN Tail(es) ELSE es
           e == [key |-> key, id |-> id]
           ps == Append(ds, e)
<1>1. es \in Seq(Entry) /\ Len(es) \in Nat
  BY DEF IsArray
<1>2. e \in Entry /\ e.key = key
  BY DEF Entry
<1>3. \A i \in 1 .. Len(es) : es[i].key # key
  BY AtIs
<1>4. /\ IsArray(ds)
      /\ \A i \in 1 .. Len(ds) : \E j \in 1 .. Len(es) : ds[i] = es[j]
      /\ \A k : Has(es, k) => Has(ds, k) \/ Len(es) = MapCap
  <2>1. CASE Len(es) = MapCap
    <3>1. Len(es) > 0 /\ 1 \in 1 .. Len(es)
      BY <1>1, <2>1, CaptureAssumption
    <3>2. Reduced(ds, es, 1)
      BY <1>1, <2>1, <3>1, TailReduces
    <3> HIDE DEF ds
    <3> QED
      BY <2>1, <3>1, <3>2, ReducedIs
  <2>2. CASE Len(es) # MapCap
    <3>1. ds = es
      BY <2>2
    <3> QED
      BY <3>1
  <2> QED
    BY <2>1, <2>2
<1> HIDE DEF e, ds
<1>5. ds \in Seq(Entry) /\ \A i, j \in 1 .. Len(ds) : ds[i].key = ds[j].key => i = j
  BY <1>4 DEF IsArray, UniqueKeys
<1>6. /\ ps \in Seq(Entry) /\ Len(ps) = Len(ds) + 1 /\ Len(ds) \in Nat
      /\ \A i \in 1 .. Len(ds) : ps[i] = ds[i]
      /\ ps[Len(ds) + 1] = e
  BY <1>2, <1>5, AppendProperties
<1> HIDE DEF ps
<1>7. \A i \in 1 .. Len(ps) : i \in 1 .. Len(ds) \/ i = Len(ds) + 1
  BY <1>6
<1>8. \A i \in 1 .. Len(ds) : ds[i].key # key
  BY <1>3, <1>4
<1>9. UniqueKeys(ps)
  BY SMTT(30), <1>2, <1>5, <1>6, <1>7, <1>8 DEF UniqueKeys
<1>10. IsArray(ps)
  BY <1>6, <1>9 DEF IsArray
<1>11. \A i \in 1 .. Len(ps) : \/ ps[i] = e
                               \/ /\ ps[i].key # key
                                  /\ \E j \in 1 .. Len(es) : ps[i] = es[j]
  BY <1>4, <1>6, <1>7, <1>8
<1>12. Has(ps, key)
  BY <1>2, <1>6, <1>10, AtIs
<1>13. \A k : Has(ds, k) => Has(ps, k)
  <2>1. \A i \in 1 .. Len(ds) : i \in 1 .. Len(ps)
    BY <1>6
  <2> QED
    BY SMTT(30), <1>4, <1>6, <1>10, <2>1, AtIs
<1>14. Put(es, key, id) = ps
  BY DEF Put, ps, ds, e
<1>15. IsPut(ps, es, key, id)
  BY <1>4, <1>10, <1>11, <1>12, <1>13 DEF IsPut, e
<1> QED
  BY <1>14, <1>15

LEMMA PutIs ==
  ASSUME NEW es, IsArray(es), NEW key \in Threads \X Probed, NEW id \in Nat
  PROVE  IsPut(Put(es, key, id), es, key, id)
BY PutAtIs, PutNewIs

IsDeleted(ds, es, key) ==
  /\ IsArray(ds)
  /\ \A i \in 1 .. Len(ds) : /\ ds[i].key # key
                             /\ \E j \in 1 .. Len(es) : ds[i] = es[j]
  /\ \A k : k # key /\ Has(es, k) => Has(ds, k)

LEMMA DeleteIs ==
  ASSUME NEW es, IsArray(es), NEW key
  PROVE  IsDeleted(Delete(es, key), es, key)
<1>1. CASE ~Has(es, key)
  <2>1. Delete(es, key) = es
    BY <1>1 DEF Delete
  <2>2. \A i \in 1 .. Len(es) : es[i].key # key
    BY <1>1, AtIs
  <2> QED
    BY <2>1, <2>2 DEF IsDeleted
<1>2. CASE Has(es, key)
  <2> DEFINE p == At(es, key)
             ds == Delete(es, key)
  <2>1. p \in 1 .. Len(es) /\ es[p].key = key /\ es \in Seq(Entry)
    BY <1>2, AtIs DEF IsArray
  <2>2. ds = RemoveAt(es, p)
    BY <1>2 DEF Delete
  <2> HIDE DEF p, ds
  <2>3. Reduced(ds, es, p)
    BY <2>1, <2>2, RemoveReduces
  <2>4. /\ IsArray(ds)
        /\ \A i \in 1 .. Len(ds) : /\ ds[i].key # key
                                   /\ \E j \in 1 .. Len(es) : ds[i] = es[j]
        /\ \A j \in 1 .. Len(es) : j # p => \E i \in 1 .. Len(ds) : ds[i] = es[j]
    BY <2>1, <2>3, ReducedIs
  <2>5. ASSUME NEW k, k # key, Has(es, k)
        PROVE  Has(ds, k)
    <3>1. PICK j \in 1 .. Len(es) : es[j].key = k
      BY <2>5, AtIs
    <3>2. PICK i \in 1 .. Len(ds) : ds[i] = es[j]
      BY <2>1, <2>4, <2>5, <3>1
    <3> QED
      BY <2>4, <3>1, <3>2, AtIs
  <2>6. IsDeleted(ds, es, key)
    BY <2>4, <2>5 DEF IsDeleted
  <2> QED
    BY <2>6 DEF ds
<1> QED
  BY <1>1, <1>2

LEMMA FindIs ==
  ASSUME NEW es, IsArray(es), NEW key
  PROVE  \/ ~Has(es, key) /\ Find(es, key) = 0
         \/ \E i \in 1 .. Len(es) : es[i].key = key /\ Find(es, key) = es[i].id
BY AtIs DEF Find

-----------------------------------------------------------------------------
(* What every step keeps: the calls made, but for what came of them, and   *)
(* that the counters do not go down.                                       *)
CallsSame ==
  /\ Len(made) \in Nat /\ Len(made)' \in Nat /\ Len(made) <= Len(made)'
  /\ \A i \in 1 .. Len(made) : /\ made'[i].thread = made[i].thread
                               /\ made'[i].name = made[i].name
                               /\ made'[i].seen = made[i].seen
  /\ skips \in Nat /\ skips' \in Nat /\ skips <= skips'
  /\ crowd \in Nat /\ crowd' \in Nat /\ crowd <= crowd'

LEMMA LineStays ==
  ASSUME CallsSame, NEW l, LineOK(l)
  PROVE  LineOK(l)'
<1> SUFFICES ASSUME NEW a \in DOMAIN l.args
             PROVE  l.id \in 1 .. Len(made)' /\ ArgOK(l, a)'
  BY DEF LineOK
<1> DEFINE c == l.args[a]
           id == l.id
<1>1. id \in 1 .. Len(made) /\ ArgOK(l, a)
  BY DEF LineOK
<1>2. /\ id \in 1 .. Len(made)'
      /\ made'[id].thread = made[id].thread /\ made'[id].seen = made[id].seen
  BY <1>1 DEF CallsSame
<1>3. CASE c = id
  BY <1>2, <1>3 DEF ArgOK
<1>4. CASE c = 0 /\ (~made[id].seen \/ skips > 0 \/ crowd > MapCap)
  <2>1. ~made'[id].seen \/ skips' > 0 \/ crowd' > MapCap
    BY <1>2, <1>4, CaptureAssumption DEF CallsSame
  <2> QED
    BY <1>2, <1>4, <2>1 DEF ArgOK
<1>5. CASE /\ skips > 1 /\ ~made[id].seen /\ c \in 1 .. id - 1
           /\ made[c].thread = made[id].thread /\ made[c].name = l.name
  <2>1. c \in 1 .. Len(made) /\ skips' > 1
    BY <1>1, <1>5 DEF CallsSame
  <2>2. made'[c].thread = made[c].thread /\ made'[c].name = made[c].name
    BY <2>1 DEF CallsSame
  <2> QED
    BY <1>2, <1>5, <2>1, <2>2 DEF ArgOK
<1> QED
  BY <1>1, <1>2, <1>3, <1>4, <1>5 DEF ArgOK

LEMMA LinesStay ==
  ASSUME LinesOK, CallsSame, printed' = printed
  PROVE  LinesOK'
<1>1. ASSUME NEW i \in 1 .. Len(printed)'
      PROVE  LineOK(printed[i])'
  <2> DEFINE k == printed'[i]
  <2>1. k = printed[i] /\ i \in 1 .. Len(printed)
    OBVIOUS
  <2>2. LineOK(k)
    BY <2>1 DEF LinesOK
  <2> HIDE DEF k
  <2>3. ASSUME NEW m, LineOK(m) PROVE LineOK(m)'
    BY <2>3, LineStays
  <2>4. \A m : LineOK(m) => LineOK(m)'
    BY <2>3
  <2> QED
    BY <2>2, <2>4 DEF k
<1> QED
  BY <1>1 DEF LinesOK

LEMMA LinesGrow ==
  ASSUME LinesOK, CallsSame, IsSeq(printed), NEW l, printed' = Append(printed, l), LineOK(l)'
  PROVE  LinesOK' /\ IsSeq(printed)'
<1>1. IsAppend(printed', printed, l)
  BY AppendIs
<1>2. ASSUME NEW i \in 1 .. Len(printed)'
      PROVE  LineOK(printed[i])'
  <2> DEFINE k == printed'[i]
  <2>1. CASE i \in 1 .. Len(printed)
    <3>1. k = printed[i] /\ LineOK(printed[i])
      BY <1>1, <2>1 DEF LinesOK, IsAppend
    <3>2. LineOK(k)
      BY <3>1
    <3> HIDE DEF k
    <3>3. ASSUME NEW m, LineOK(m) PROVE LineOK(m)'
      BY <3>3, LineStays
    <3>4. \A m : LineOK(m) => LineOK(m)'
      BY <3>3
    <3> QED
      BY <3>2, <3>4 DEF k
  <2>2. CASE i = Len(printed) + 1
    <3>1. k = l
      BY <1>1, <2>2 DEF IsAppend
    <3> QED
      BY <3>1 DEF LineOK, ArgOK
  <2> QED
    BY <1>1, <2>1, <2>2 DEF IsAppend
<1>3. LinesOK'
  BY <1>2 DEF LinesOK
<1> QED
  BY <1>1, <1>3 DEF IsAppend

(* An entry stays what it is as long as its thread does not go on.         *)
LEMMA EntryStays ==
  ASSUME MadeOK, ThreadsOK, CallsSame,
         NEW a, NEW t \in Threads, NEW n, NEW id, EntryOf(a, t, n, id), call'[t] = call[t]
  PROVE  EntryOf(a, t, n, id)'
<1>1. /\ id \in 1 .. Len(made) /\ made[id].seen
      /\ made[id].thread = t /\ made[id].name = n /\ a \in Saved[n]
      /\ call[t] = id \/ Left(t, n, id)
  BY DEF EntryOf
<1>2. /\ id \in 1 .. Len(made)' /\ made'[id].seen
      /\ made'[id].thread = t /\ made'[id].name = n
  BY <1>1 DEF CallsSame
<1>3. ASSUME Left(t, n, id) PROVE Left(t, n, id)'
  <2>1. skips > 0 /\ skips' > 0 /\ (skips > 1 => skips' > 1)
    BY <1>3 DEF Left, CallsSame
  <2>2. InCall(t)' = InCall(t)
    BY DEF InCall
  <2>3. ASSUME InCall(t)
        PROVE  made'[call[t]].name = made[call[t]].name /\ made'[call[t]].seen = made[call[t]].seen
    <3>1. call[t] \in 1 .. Len(made)
      BY <2>3 DEF ThreadsOK, InCall, CallsSame
    <3> QED
      BY <3>1 DEF CallsSame
  <2> QED
    BY <1>3, <2>1, <2>2, <2>3 DEF Left
<1> QED
  BY <1>1, <1>2, <1>3 DEF EntryOf

(* A key that is in an array names a thread and a call that saves in it.   *)
LEMMA EntryIs ==
  ASSUME EntriesOK, NEW a \in Arrays, NEW i \in 1 .. Len(entries[a])
  PROVE  LET e == entries[a][i] IN
         /\ e.key \in Threads \X Probed /\ e.key[1] \in Threads
         /\ e.key = Key(e.key[1], e.key[2]) /\ e.id \in Nat
         /\ EntryOf(a, e.key[1], e.key[2], e.id)
<1> DEFINE e == entries[a][i]
<1>1. entries[a] \in Seq(Entry) /\ EntryOK(a, e)
  BY DEF EntriesOK, IsArray
<1>2. e \in Entry
  BY <1>1
<1>3. e.key \in Threads \X Probed /\ e.id \in Nat
  BY <1>2 DEF Entry
<1> QED
  BY <1>1, <1>3 DEF EntryOK, Key

-----------------------------------------------------------------------------
(* A probe that takes out the oldest entry of a full array, while none was *)
(* skipped, has as many calls in progress as there are entries, and its    *)
(* own.                                                                    *)
LEMMA Crowded ==
  ASSUME MadeOK, ThreadsOK, EntriesOK, NEW t \in Threads, call[t] = 0,
         NEW a \in Arrays, Len(entries[a]) = MapCap, skips = 0
  PROVE  Cardinality({u \in Threads : call[u] # 0} \cup {t}) > MapCap
<1> DEFINE es == entries[a]
           Busy == {u \in Threads : call[u] # 0}
           f == [i \in 1 .. MapCap |-> es[i].key[1]]
<1>1. IsFiniteSet(Busy) /\ t \notin Busy
  BY CaptureAssumption, FS_Subset
<1>2. Cardinality(Busy) \in Nat /\ Cardinality(Busy \cup {t}) = Cardinality(Busy) + 1
  BY <1>1, FS_AddElement, FS_CardinalityType
<1>3. MapCap \in Nat /\ IsFiniteSet(1 .. MapCap) /\ Cardinality(1 .. MapCap) = MapCap
  <2>1. MapCap \in Nat \ {0}
    BY CaptureAssumption
  <2>2. Cardinality(1 .. MapCap) = IF 1 > MapCap THEN 0 ELSE MapCap - 1 + 1
    BY <2>1, FS_Interval
  <2> QED
    BY <2>1, <2>2, FS_Interval
<1>4. ASSUME NEW i \in 1 .. MapCap
      PROVE  LET u == es[i].key[1] IN
             u \in Busy /\ es[i].key = Key(u, made[call[u]].name)
  <2> DEFINE e == es[i]
             u == e.key[1]
             n == e.key[2]
  <2>1. u \in Threads /\ e.key = Key(u, n) /\ EntryOf(a, u, n, e.id)
    BY EntryIs
  <2>2. e.id \in 1 .. Len(made) /\ made[e.id].name = n /\ call[u] = e.id
    BY <2>1 DEF EntryOf, Left
  <2>3. call[u] # 0
    BY <2>2
  <2> QED
    BY <2>1, <2>2, <2>3
<1>5. UniqueKeys(es)
  BY DEF EntriesOK, IsArray
<1> HIDE DEF Busy, es
<1>6. f \in Injection(1 .. MapCap, Busy)
  <2>1. f \in [1 .. MapCap -> Busy]
    BY <1>4
  <2>2. \A i, j \in 1 .. MapCap : f[i] = f[j] => i = j
    BY SMTT(30), <1>4, <1>5 DEF UniqueKeys, es
  <2> QED
    BY <2>1, <2>2 DEF Injection, IsInjective
<1>7. Cardinality(1 .. MapCap) <= Cardinality(Busy)
  BY <1>1, <1>6, FS_Injection
<1> DEFINE c == Cardinality(Busy)
           d == Cardinality(Busy \cup {t})
<1>8. c \in Nat /\ d = c + 1 /\ MapCap <= c
  BY <1>2, <1>3, <1>7
<1> HIDE DEF c, d
<1>9. d > MapCap
  BY <1>3, <1>8
<1> QED
  BY <1>9 DEF d, Busy

-----------------------------------------------------------------------------
LEMMA CaptureInvInit == Init => CaptureInv
<1> SUFFICES ASSUME CaptureInit PROVE CaptureInv
  BY DEF Init
<1>1. << >> \in Seq({}) /\ Len(<< >>) = 0
  OBVIOUS
<1>2. IsSeq(<< >>)
  BY <1>1, SeqIs
<1>3. MadeOK
  BY <1>1, <1>2 DEF CaptureInit, MadeOK
<1>4. ThreadsOK
  BY <1>1, <1>2 DEF CaptureInit, ThreadsOK, InCall
<1>5. IsArray(<< >>)
  BY <1>1 DEF IsArray, UniqueKeys
<1>6. EntriesOK
  BY <1>1, <1>5 DEF CaptureInit, EntriesOK
<1>7. EntriesKept
  BY DEF CaptureInit, EntriesKept, KeptOf, InCall
<1>8. LinesOK
  BY <1>1 DEF CaptureInit, LinesOK
<1> QED
  BY <1>3, <1>4, <1>6, <1>7, <1>8 DEF CaptureInv

(* A step that leaves the arrays alone, and every thread where it is.      *)
LEMMA CallsStay ==
  ASSUME CaptureInv, MadeOK', CallsSame, Len(made)' = Len(made),
         call' = call, entries' = entries, executed' \subseteq {t \in Threads : InCall(t)}
  PROVE  EntriesOK' /\ EntriesKept' /\ (IsSeq(printed)' => ThreadsOK')
<1> USE DEF CaptureInv
<1>1. \A t \in Threads : InCall(t) => call[t] \in 1 .. Len(made)
  BY DEF ThreadsOK, InCall, CallsSame
<1>2. IsSeq(printed)' => ThreadsOK'
  BY <1>1 DEF ThreadsOK, InCall, CallsSame
<1>3. ASSUME NEW a \in Arrays, NEW i \in 1 .. Len(entries[a])
      PROVE  EntryOK(a, entries[a][i])'
  <2> DEFINE e == entries[a][i]
             t == e.key[1]
             n == e.key[2]
             id == e.id
  <2>1. t \in Threads /\ EntryOf(a, t, n, id)
    BY EntryIs
  <2>a. call'[t] = call[t] /\ e = entries'[a][i]
    OBVIOUS
  <2> HIDE DEF t, n, id
  <2>2. ASSUME NEW u \in Threads, NEW m, NEW k, EntryOf(a, u, m, k)
        PROVE  EntryOf(a, u, m, k)'
    BY <2>2, EntryStays
  <2>3. \A u \in Threads : \A m, k : EntryOf(a, u, m, k) => EntryOf(a, u, m, k)'
    BY <2>2
  <2> QED
    BY <2>1, <2>3, <2>a DEF EntryOK, t, n, id
<1>4. EntriesOK'
  BY <1>3 DEF EntriesOK, IsArray, UniqueKeys
<1>5. ASSUME NEW t \in Threads
      PROVE  KeptOf(t)'
  <2> SUFFICES ASSUME InCall(t)', made'[call'[t]].seen,
                      NEW a \in Saved[made'[call'[t]].name]
               PROVE  \/ Has(entries'[a], Key(t, made'[call'[t]].name))
                      \/ skips' > 0 \/ crowd' > MapCap
    BY DEF KeptOf
  <2>1. InCall(t) /\ call[t] \in 1 .. Len(made)
    BY <1>1 DEF InCall
  <2>2. made[call[t]].seen /\ made'[call'[t]].name = made[call[t]].name
    BY <2>1 DEF CallsSame
  <2>3. \/ Has(entries[a], Key(t, made[call[t]].name))
        \/ skips > 0 \/ crowd > MapCap
    BY <2>1, <2>2 DEF EntriesKept, KeptOf
  <2> QED
    BY <2>2, <2>3, CaptureAssumption DEF CallsSame
<1> QED
  BY <1>2, <1>4, <1>5 DEF EntriesKept

-----------------------------------------------------------------------------
LEMMA SizesAre ==
  ASSUME MadeOK, ThreadsOK
  PROVE  /\ Len(made) \in Nat /\ skips \in Nat /\ crowd \in Nat
         /\ \A t \in Threads : InCall(t) => call[t] \in 1 .. Len(made)
<1>1. Len(made) \in Nat
  BY SeqIs DEF MadeOK, IsSeq
<1> QED
  BY <1>1 DEF ThreadsOK, InCall

LEMMA BeginStep ==
  ASSUME CaptureInv, Begin
  PROVE  CaptureInv'
<1> USE DEF CaptureInv
<1>1. UNCHANGED <<made, call, executed, entries, printed, skips, crowd>> /\ armed'
  BY DEF Begin, kernel
<1>2. MadeOK'
  BY <1>1 DEF MadeOK, CallOK
<1>3. CallsSame
  BY <1>1, SizesAre DEF CallsSame
<1>4. ThreadsOK'
  BY <1>1 DEF ThreadsOK, InCall
<1>5. EntriesOK' /\ EntriesKept'
  BY <1>1, <1>2, <1>3, CallsStay DEF ThreadsOK
<1> QED
  BY <1>1, <1>2, <1>3, <1>4, <1>5, LinesStay

(* A result is noted in a call.                                            *)
LEMMA NoteResult ==
  ASSUME CaptureInv, NEW k \in 1 .. Len(made), NEW d, CallOK(d),
         d.thread = made[k].thread, d.name = made[k].name, d.seen = made[k].seen,
         made' = [made EXCEPT ![k] = d],
         UNCHANGED <<call, armed, entries, printed, skips, crowd>>,
         executed' \subseteq {t \in Threads : InCall(t)}
  PROVE  CaptureInv'
<1> USE DEF CaptureInv
<1>1. IsUpdate(made', made, k, d) /\ Len(made) \in Nat
  BY UpdateIs, SizesAre DEF MadeOK
<1>2. /\ IsSeq(made)' /\ Len(made)' = Len(made)
      /\ \A i \in 1 .. Len(made) : made'[i] = IF i = k THEN d ELSE made[i]
  BY <1>1 DEF IsUpdate
<1>3. ASSUME NEW i \in 1 .. Len(made)'
      PROVE  CallOK(made[i])'
  <2>1. made'[i] = d \/ (made'[i] = made[i] /\ CallOK(made[i]))
    BY <1>2 DEF MadeOK
  <2> QED
    BY <2>1 DEF CallOK
<1>4. MadeOK'
  BY <1>2, <1>3 DEF MadeOK
<1>5. CallsSame
  BY <1>2, SizesAre DEF CallsSame
<1>6. IsSeq(printed)'
  BY DEF ThreadsOK
<1>7. EntriesOK' /\ EntriesKept' /\ ThreadsOK'
  BY <1>2, <1>4, <1>5, <1>6, CallsStay
<1> QED
  BY <1>4, <1>5, <1>7, LinesStay

LEMMA ExecuteStep ==
  ASSUME CaptureInv, NEW t \in Threads, Execute(t)
  PROVE  CaptureInv'
<1> USE DEF CaptureInv
<1> DEFINE k == call[t]
           c == made[k]
<1>1. /\ k # 0 /\ executed' = executed \cup {t}
      /\ UNCHANGED <<call, armed, entries, printed, skips, crowd>>
  BY DEF Execute
<1>2. k \in 1 .. Len(made) /\ CallOK(c)
  BY <1>1, SizesAre DEF InCall, MadeOK
<1>3. executed' \subseteq {u \in Threads : InCall(u)}
  BY <1>1 DEF ThreadsOK, InCall
<1>4. \/ made' = made
      \/ \E r : made' = [made EXCEPT ![k].ret = r]
      \/ \E f : made' = [made EXCEPT ![k].file = f]
  BY DEF Execute
<1>5. c = [thread |-> c.thread, name |-> c.name, fd |-> c.fd, path |-> c.path,
           seen |-> c.seen, file |-> c.file, ret |-> c.ret]
  BY <1>2 DEF CallOK
<1>6. IsSeq(made) /\ DOMAIN made = 1 .. Len(made)
  BY SeqIs DEF MadeOK, IsSeq
<1>7. CASE made' = made
  <2>1. MadeOK'
    BY <1>1, <1>7 DEF MadeOK, CallOK
  <2>2. CallsSame
    BY <1>1, <1>7, SizesAre DEF CallsSame
  <2>3. IsSeq(printed)'
    BY <1>1 DEF ThreadsOK
  <2>4. EntriesOK' /\ EntriesKept' /\ ThreadsOK'
    BY <1>1, <1>3, <1>7, <2>1, <2>2, <2>3, CallsStay
  <2> QED
    BY <1>1, <2>1, <2>2, <2>4, LinesStay
<1>8. ASSUME NEW r, made' = [made EXCEPT ![k].ret = r]
      PROVE  CaptureInv'
  <2> DEFINE d == [c EXCEPT !.ret = r]
  <2>1. made' = [made EXCEPT ![k] = d]
    BY <1>8
  <2>2. d = [thread |-> c.thread, name |-> c.name, fd |-> c.fd, path |-> c.path,
             seen |-> c.seen, file |-> c.file, ret |-> r]
    BY <1>5
  <2> HIDE DEF d
  <2>3. CallOK(d) /\ d.thread = c.thread /\ d.name = c.name /\ d.seen = c.seen
    BY <1>2, <2>2 DEF CallOK
  <2> QED
    BY <1>1, <1>2, <1>3, <2>1, <2>3, NoteResult
<1>9. ASSUME NEW f, made' = [made EXCEPT ![k].file = f]
      PROVE  CaptureInv'
  <2> DEFINE d == [c EXCEPT !.file = f]
  <2>1. made' = [made EXCEPT ![k] = d]
    BY <1>9
  <2>2. d = [thread |-> c.thread, name |-> c.name, fd |-> c.fd, path |-> c.path,
             seen |-> c.seen, file |-> f, ret |-> c.ret]
    BY <1>5
  <2> HIDE DEF d
  <2>3. CallOK(d) /\ d.thread = c.thread /\ d.name = c.name /\ d.seen = c.seen
    BY <1>2, <2>2 DEF CallOK
  <2> QED
    BY <1>1, <1>2, <1>3, <2>1, <2>3, NoteResult
<1> QED
  BY <1>4, <1>7, <1>8, <1>9

LEMMA ExitGroupStep ==
  ASSUME CaptureInv, NEW t \in Threads, ExitGroup(t)
  PROVE  CaptureInv'
<1> USE DEF CaptureInv
<1> DEFINE l == [pid |-> Process[t], name |-> "exit_group", id |-> 0, ret |-> 0,
                 args |-> <<>>]
<1>1. PICK skip \in {0, 1} :
        /\ skips' = skips + skip
        /\ printed' = Append(printed, l) \/ printed' = printed
  BY DEF ExitGroup
<1>2. UNCHANGED <<made, call, executed, armed, entries, crowd>>
  BY DEF ExitGroup
<1>3. MadeOK'
  BY <1>2 DEF MadeOK, CallOK
<1>4. CallsSame
  BY <1>1, <1>2, SizesAre DEF CallsSame
<1>5. LineOK(l)'
  BY DEF LineOK
<1> HIDE DEF l
<1>6. LinesOK' /\ IsSeq(printed)'
  <2>1. CASE printed' = printed
    BY <1>4, <2>1, LinesStay DEF ThreadsOK
  <2>2. ASSUME NEW m, printed' = Append(printed, m), LineOK(m)'
        PROVE  LinesOK' /\ IsSeq(printed)'
    BY <1>4, <2>2, LinesGrow DEF ThreadsOK
  <2> QED
    BY <1>1, <1>5, <2>1, <2>2
<1>7. executed' \subseteq {u \in Threads : InCall(u)}
  BY <1>2 DEF ThreadsOK
<1>8. EntriesOK' /\ EntriesKept' /\ ThreadsOK'
  BY <1>2, <1>3, <1>4, <1>6, <1>7, CallsStay
<1> QED
  BY <1>3, <1>6, <1>8

-----------------------------------------------------------------------------
(* The return of a call.  An entry of it stays only if the probe was       *)
(* skipped.                                                                *)
LEMMA ReturnEntry ==
  ASSUME MadeOK, ThreadsOK, CallsSame, made' = made,
         NEW t \in Threads, call[t] # 0, call' = [call EXCEPT ![t] = 0],
         NEW a, NEW u \in Threads, NEW m, NEW id, EntryOf(a, u, m, id),
         u = t /\ m = made[call[t]].name => skips' > 0
  PROVE  EntryOf(a, u, m, id)'
<1>1. CASE u # t
  <2>1. call'[u] = call[u]
    BY <1>1 DEF ThreadsOK
  <2> QED
    BY <2>1, EntryStays
<1>2. CASE u = t
  <2>1. ~InCall(u)'
    BY <1>2 DEF ThreadsOK, InCall
  <2>2. skips' > 0
    <3>1. CASE m = made[call[t]].name
      BY <1>2, <3>1
    <3>2. CASE m # made[call[t]].name
      <4>1. skips > 0
        BY <1>2, <3>2 DEF EntryOf, Left
      <4> QED
        BY <4>1 DEF CallsSame
    <3> QED
      BY <3>1, <3>2
  <2>3. Left(u, m, id)'
    BY <2>1, <2>2 DEF Left
  <2> QED
    BY <2>3 DEF EntryOf
<1> QED
  BY <1>1, <1>2

(* What it prints.                                                         *)
LEMMA ReturnArg ==
  ASSUME CaptureInv, NEW t \in Threads, call[t] # 0, NEW l,
         l.id = call[t], l.name = made[call[t]].name,
         NEW a \in Arrays, a \in Saved[l.name],
         a \in DOMAIN l.args, l.args[a] = Find(entries[a], Key(t, l.name))
  PROVE  l.id \in 1 .. Len(made) /\ ArgOK(l, a)
<1> USE DEF CaptureInv
<1> DEFINE es == entries[a]
           key == Key(t, l.name)
<1>1. l.id \in 1 .. Len(made) /\ made[l.id].thread = t
  BY SizesAre DEF ThreadsOK, InCall
<1>2. IsArray(es)
  BY DEF EntriesOK
<1>3. CASE ~Has(es, key) /\ l.args[a] = 0
  <2>1. made[l.id].seen => skips > 0 \/ crowd > MapCap
    BY <1>3 DEF EntriesKept, KeptOf, InCall
  <2> QED
    BY <1>1, <1>3, <2>1 DEF ArgOK
<1>4. ASSUME NEW i \in 1 .. Len(es), es[i].key = key, l.args[a] = es[i].id
      PROVE  ArgOK(l, a)
  <2> DEFINE id == es[i].id
  <2>1. EntryOf(a, t, l.name, id)
    BY <1>4, EntryIs DEF Key
  <2>2. CASE call[t] = id
    BY <1>4, <2>2 DEF ArgOK
  <2>3. CASE Left(t, l.name, id)
    <3>1. skips > 1 /\ ~made[l.id].seen /\ id < l.id
      BY <2>3 DEF Left, InCall
    <3>2. /\ id \in 1 .. Len(made) /\ made[id].thread = t /\ made[id].name = l.name
      BY <2>1 DEF EntryOf
    <3>3. id \in 1 .. l.id - 1
      BY SMTT(30), <1>1, <3>1, <3>2, SizesAre
    <3> QED
      BY <1>1, <1>4, <3>1, <3>2, <3>3 DEF ArgOK
  <2> QED
    BY <2>1, <2>2, <2>3 DEF EntryOf
<1> QED
  BY <1>1, <1>2, <1>3, <1>4, FindIs

LEMMA ReturnStep ==
  ASSUME CaptureInv, NEW t \in Threads, Return(t)
  PROVE  CaptureInv'
<1> USE DEF CaptureInv
<1> DEFINE k == call[t]
           n == made[k].name
           args == [a \in Saved[n] |-> Find(entries[a], Key(t, n))]
           l == [pid |-> Process[t], name |-> n, id |-> k, ret |-> made[k].ret,
                 args |-> args]
           rest == [a \in Arrays |-> IF a \in Saved[n] THEN Delete(entries[a], Key(t, n))
                                                       ELSE entries[a]]
<1>1. PICK skip \in {0, 1} :
        LET probed == armed /\ Process[t] \in Wanted /\ n \in Probed /\ skip = 0 IN
        /\ skips' = skips + skip
        /\ IF ~probed THEN UNCHANGED <<printed, entries>>
           ELSE printed' = Append(printed, l) /\ entries' = rest
  BY DEF Return
<1>2. /\ t \in executed /\ executed' = executed \ {t}
      /\ call' = [call EXCEPT ![t] = 0] /\ UNCHANGED <<made, armed, crowd>>
  BY DEF Return
<1>3. k # 0 /\ k \in 1 .. Len(made) /\ made[k].thread = t /\ CallOK(made[k])
  BY <1>2, SizesAre DEF ThreadsOK, InCall, MadeOK
<1>4. MadeOK'
  BY <1>2 DEF MadeOK, CallOK
<1>5. CallsSame
  BY <1>1, <1>2, SizesAre DEF CallsSame
<1>6. \A u \in Threads : call'[u] = IF u = t THEN 0 ELSE call[u]
  BY <1>2 DEF ThreadsOK
<1>7. IsSeq(printed)' => ThreadsOK'
  <2>1. call' \in [Threads -> 0 .. Len(made)']
    BY <1>2, SizesAre DEF ThreadsOK
  <2>2. \A u \in Threads : InCall(u)' => made'[call'[u]].thread = u
    BY <1>2, <1>6 DEF ThreadsOK, InCall
  <2>3. executed' \subseteq {u \in Threads : InCall(u)'}
    BY <1>2, <1>6 DEF ThreadsOK, InCall
  <2>4. skips' \in Nat /\ crowd' \in Nat
    BY <1>5 DEF CallsSame
  <2> QED
    BY <2>1, <2>2, <2>3, <2>4 DEF ThreadsOK
<1> DEFINE probed == armed /\ Process[t] \in Wanted /\ n \in Probed /\ skip = 0
<1>8. ~probed /\ made[k].seen => skips' > 0
  BY <1>1, <1>3, SizesAre DEF CallOK
<1>9. ASSUME ~probed PROVE EntriesOK' /\ EntriesKept' /\ LinesOK' /\ IsSeq(printed)'
  <2>1. entries' = entries /\ printed' = printed
    BY <1>1, <1>9
  <2>2. ASSUME NEW a \in Arrays, NEW i \in 1 .. Len(entries[a])
        PROVE  EntryOK(a, entries[a][i])'
    <3> DEFINE e == entries[a][i]
               u == e.key[1]
               m == e.key[2]
               id == e.id
    <3>1. u \in Threads /\ EntryOf(a, u, m, id)
      BY EntryIs
    <3>2. u = t /\ m = n => skips' > 0
      <4>1. SUFFICES ASSUME u = t, m = n PROVE skips' > 0
        OBVIOUS
      <4>2. CASE call[t] = id
        BY SMTT(30), <1>8, <1>9, <3>1, <4>1, <4>2 DEF EntryOf
      <4>3. CASE Left(u, m, id)
        BY <1>5, <4>3 DEF Left, CallsSame
      <4> QED
        BY <3>1, <4>1, <4>2, <4>3 DEF EntryOf
    <3>3. e = entries'[a][i]
      BY <2>1
    <3> HIDE DEF u, m, id
    <3>4. ASSUME NEW w \in Threads, NEW x, NEW y, EntryOf(a, w, x, y),
                 w = t /\ x = n => skips' > 0
          PROVE  EntryOf(a, w, x, y)'
      BY <1>2, <1>3, <1>5, <3>4, ReturnEntry
    <3>5. \A w \in Threads : \A x, y :
            EntryOf(a, w, x, y) /\ (w = t /\ x = n => skips' > 0) => EntryOf(a, w, x, y)'
      BY <3>4
    <3> QED
      BY <3>1, <3>2, <3>3, <3>5 DEF EntryOK, u, m, id
  <2>3. EntriesOK'
    BY <2>1, <2>2 DEF EntriesOK, IsArray, UniqueKeys
  <2>4. ASSUME NEW u \in Threads PROVE KeptOf(u)'
    <3>1. CASE u = t
      BY <1>6, <3>1 DEF KeptOf, InCall
    <3>2. CASE u # t
      <4>1. call'[u] = call[u]
        BY <1>6, <3>2
      <4>2. KeptOf(u)
        BY DEF EntriesKept
      <4> QED
        BY <1>2, <1>5, <2>1, <4>1, <4>2, CaptureAssumption DEF KeptOf, InCall, CallsSame
    <3> QED
      BY <3>1, <3>2
  <2> QED
    BY <1>5, <2>1, <2>3, <2>4, LinesStay DEF EntriesKept, ThreadsOK
<1>10. ASSUME probed PROVE EntriesOK' /\ EntriesKept' /\ LinesOK' /\ IsSeq(printed)'
  <2>1. entries' = rest /\ printed' = Append(printed, l) /\ skips' = skips /\ n \in Probed
    BY <1>1, <1>10, SizesAre
  <2>2. \A a \in Saved[n] : a \in Arrays
    BY <2>1 DEF Arrays
  <2>3. ASSUME NEW a \in Saved[n]
        PROVE  IsDeleted(entries'[a], entries[a], Key(t, n))
    BY <2>1, <2>2, DeleteIs DEF EntriesOK
  <2>4. ASSUME NEW a \in Arrays
        PROVE  /\ IsArray(entries'[a])
               /\ \A i \in 1 .. Len(entries'[a]) :
                    /\ entries'[a][i].key # Key(t, n) \/ a \notin Saved[n]
                    /\ \E j \in 1 .. Len(entries[a]) : entries'[a][i] = entries[a][j]
               /\ \A x : x # Key(t, n) /\ Has(entries[a], x) => Has(entries'[a], x)
    <3>1. CASE a \in Saved[n]
      BY <2>3, <3>1 DEF IsDeleted
    <3>2. CASE a \notin Saved[n]
      <4>1. entries'[a] = entries[a]
        BY <2>1, <3>2
      <4> QED
        BY <3>2, <4>1 DEF EntriesOK
    <3> QED
      BY <3>1, <3>2
  <2>5. ASSUME NEW a \in Arrays, NEW i \in 1 .. Len(entries'[a])
        PROVE  EntryOK(a, entries[a][i])'
    <3>1. PICK j \in 1 .. Len(entries[a]) : entries'[a][i] = entries[a][j]
      BY <2>4
    <3> DEFINE e == entries[a][j]
               u == e.key[1]
               m == e.key[2]
               id == e.id
    <3>2. u \in Threads /\ e.key = Key(u, m) /\ EntryOf(a, u, m, id)
      BY EntryIs
    <3>3. ~(u = t /\ m = n)
      BY SMTT(30), <2>4, <3>1, <3>2 DEF EntryOf
    <3>4. e = entries'[a][i]
      BY <3>1
    <3> HIDE DEF u, m, id
    <3>5. ASSUME NEW w \in Threads, NEW x, NEW y, EntryOf(a, w, x, y), ~(w = t /\ x = n)
          PROVE  EntryOf(a, w, x, y)'
      BY <1>2, <1>3, <1>5, <3>5, ReturnEntry
    <3>6. \A w \in Threads : \A x, y :
            EntryOf(a, w, x, y) /\ ~(w = t /\ x = n) => EntryOf(a, w, x, y)'
      BY <3>5
    <3> QED
      BY <3>2, <3>3, <3>4, <3>6 DEF EntryOK, u, m, id
  <2>6. entries' = [a \in Arrays |-> entries'[a]]
    BY <2>1
  <2>7. EntriesOK'
    BY SMTT(30), <2>4, <2>5, <2>6 DEF EntriesOK, IsArray, UniqueKeys
  <2>8. ASSUME NEW u \in Threads PROVE KeptOf(u)'
    <3>1. CASE u = t
      BY <1>6, <3>1 DEF KeptOf, InCall
    <3>2. CASE u # t
      <4>1. call'[u] = call[u]
        BY <1>6, <3>2
      <4> SUFFICES ASSUME InCall(u), made[call[u]].seen,
                          NEW a \in Saved[made[call[u]].name]
                   PROVE  \/ Has(entries'[a], Key(u, made[call[u]].name))
                          \/ skips' > 0 \/ crowd' > MapCap
        BY <1>2, <4>1 DEF KeptOf, InCall
      <4>2. \/ Has(entries[a], Key(u, made[call[u]].name))
            \/ skips > 0 \/ crowd > MapCap
        BY DEF EntriesKept, KeptOf
      <4>3. CallOK(made[call[u]])
        BY SizesAre DEF MadeOK
      <4>4. a \in Arrays
        BY <4>3 DEF CallOK, Arrays
      <4>5. Key(u, made[call[u]].name) # Key(t, n)
        BY <3>2 DEF Key
      <4> QED
        BY <1>2, <2>1, <2>4, <4>2, <4>4, <4>5
    <3> QED
      BY <3>1, <3>2
  <2>9. ASSUME NEW a \in DOMAIN l.args
        PROVE  l.id \in 1 .. Len(made) /\ ArgOK(l, a)
    <3>1. a \in Saved[n] /\ a \in Arrays /\ l.args[a] = Find(entries[a], Key(t, n))
      BY <2>2
    <3>2. l.id = call[t] /\ l.name = made[call[t]].name
      OBVIOUS
    <3> HIDE DEF l
    <3> QED
      BY <1>3, <2>9, <3>1, <3>2, ReturnArg
  <2>10. LineOK(l)
    BY <2>9 DEF LineOK
  <2> HIDE DEF l
  <2>11. ASSUME NEW m, LineOK(m), printed' = Append(printed, m)
         PROVE  LinesOK' /\ IsSeq(printed)'
    <3>1. LineOK(m)'
      BY <1>5, <2>11, LineStays
    <3> QED
      BY <1>5, <2>11, <3>1, LinesGrow DEF ThreadsOK
  <2>12. LinesOK' /\ IsSeq(printed)'
    BY <2>1, <2>10, <2>11
  <2> QED
    BY <2>7, <2>8, <2>12 DEF EntriesKept
<1> QED
  BY <1>4, <1>7, <1>9, <1>10

-----------------------------------------------------------------------------
(* A call begins.  An entry that its thread has left under its name stays  *)
(* only if the probe is skipped: the second one that was.                  *)
LEMMA EnterEntry ==
  ASSUME MadeOK, ThreadsOK, CallsSame,
         NEW t \in Threads, call[t] = 0, NEW c, NEW k,
         k = Len(made) + 1, IsAppend(made', made, c), call' = [call EXCEPT ![t] = k],
         NEW a, NEW u \in Threads, NEW m, NEW id, EntryOf(a, u, m, id),
         u = t /\ m = c.name => ~c.seen /\ skips' = skips + 1
  PROVE  EntryOf(a, u, m, id)'
<1>1. CASE u # t
  <2>1. call'[u] = call[u]
    BY <1>1 DEF ThreadsOK
  <2> QED
    BY <2>1, EntryStays
<1>2. CASE u = t
  <2>1. /\ id \in 1 .. Len(made) /\ made[id].seen
        /\ made[id].thread = t /\ made[id].name = m /\ a \in Saved[m]
    BY <1>2 DEF EntryOf
  <2>2. skips > 0
    BY <1>2, <2>1 DEF EntryOf, Left
  <2>3. call'[t] = k /\ made'[k] = c /\ id < k /\ InCall(t)'
    BY <2>1, SizesAre DEF ThreadsOK, InCall, IsAppend
  <2>4. /\ id \in 1 .. Len(made)' /\ made'[id].seen
        /\ made'[id].thread = t /\ made'[id].name = m
    BY <2>1 DEF CallsSame
  <2>5. Left(t, m, id)'
    BY <1>2, <2>2, <2>3, SizesAre DEF Left, CallsSame
  <2> QED
    BY <1>2, <2>1, <2>4, <2>5 DEF EntryOf
<1> QED
  BY <1>1, <1>2

LEMMA EnterStep ==
  ASSUME CaptureInv, NEW t \in Threads, Enter(t)
  PROVE  CaptureInv'
<1> USE DEF CaptureInv
<1> DEFINE p == Process[t]
           k == Len(made) + 1
           Busy == {u \in Threads : call[u] # 0} \cup {t}
           Probe(n, skip) == armed /\ p \in Wanted /\ n \in Probed /\ skip = 0
           Made(n, f, x, skip) == [thread |-> t, name |-> n, fd |-> f, path |-> x,
                                   seen |-> Probe(n, skip), file |-> NoFile, ret |-> 0]
           With(n) == [a \in Arrays |-> IF a \in Saved[n]
                                        THEN Put(entries[a], Key(t, n), k)
                                        ELSE entries[a]]
<1>1. /\ call[t] = 0 /\ call' = [call EXCEPT ![t] = k]
      /\ crowd' = IF Cardinality(Busy) > crowd THEN Cardinality(Busy) ELSE crowd
      /\ UNCHANGED <<executed, armed, printed>>
  BY DEF Enter
<1>2. PICK n \in program.calls \ {"exit_group"} :
      \E f \in IF Takes(n, "FD") THEN known[p] ELSE {0} :
      \E x \in IF n \in Opens THEN CapturedPaths ELSE {NoFile} :
      \E skip \in 0 .. IF armed THEN program.skips - skips ELSE 0 :
       LET seen == Probe(n, skip) IN
       /\ n = "close" =>
            \A u \in Threads : Process[u] = p /\ call[u] # 0 => made[call[u]].fd # f
       /\ skip \in {0, 1}
       /\ skips' = skips + skip
       /\ made' = Append(made, Made(n, f, x, skip))
       /\ known' = IF n = "close" THEN [known EXCEPT ![p] = @ \ {f}] ELSE known
       /\ entries' = IF ~seen THEN entries ELSE With(n)
  BY DEF Enter
<1>b. PICK f \in IF Takes(n, "FD") THEN known[p] ELSE {0} :
      \E x \in IF n \in Opens THEN CapturedPaths ELSE {NoFile} :
      \E skip \in 0 .. IF armed THEN program.skips - skips ELSE 0 :
       /\ skip \in {0, 1}
       /\ skips' = skips + skip
       /\ made' = Append(made, Made(n, f, x, skip))
       /\ entries' = IF ~Probe(n, skip) THEN entries ELSE With(n)
  BY SMTT(30), <1>2
<1>3. PICK x \in IF n \in Opens THEN CapturedPaths ELSE {NoFile} :
      \E skip \in 0 .. IF armed THEN program.skips - skips ELSE 0 :
       /\ skip \in {0, 1}
       /\ skips' = skips + skip
       /\ made' = Append(made, Made(n, f, x, skip))
       /\ entries' = IF ~Probe(n, skip) THEN entries ELSE With(n)
  BY <1>b
<1>a. PICK skip \in {0, 1} :
        /\ skips' = skips + skip
        /\ made' = Append(made, Made(n, f, x, skip))
        /\ entries' = IF ~Probe(n, skip) THEN entries ELSE With(n)
  BY <1>3
<1> DEFINE c == Made(n, f, x, skip)
           probed == Probe(n, skip)
<1>4. /\ c = [thread |-> c.thread, name |-> c.name, fd |-> c.fd, path |-> c.path,
              seen |-> c.seen, file |-> c.file, ret |-> c.ret]
      /\ c.thread = t /\ c.name = n /\ c.seen = probed /\ CallOK(c)
  <2>1. probed \in BOOLEAN
    OBVIOUS
  <2>2. /\ c = [thread |-> c.thread, name |-> c.name, fd |-> c.fd, path |-> c.path,
                seen |-> c.seen, file |-> c.file, ret |-> c.ret]
        /\ c.thread = t /\ c.name = n /\ c.seen = probed
    OBVIOUS
  <2> QED
    BY <2>1, <2>2 DEF CallOK
<1>5. made' = Append(made, c)
  BY <1>a
<1> HIDE DEF c
<1>6. IsAppend(made', made, c)
  BY <1>5, AppendIs DEF MadeOK
<1>7. /\ IsSeq(made)' /\ Len(made)' = k /\ Len(made) \in Nat
      /\ \A i \in 1 .. Len(made) : made'[i] = made[i]
      /\ made'[k] = c
  BY <1>6 DEF IsAppend
<1>8. MadeOK'
  <2>1. ASSUME NEW i \in 1 .. Len(made)' PROVE CallOK(made[i])'
    <3>1. CallOK(made'[i])
      BY <1>4, <1>7 DEF MadeOK
    <3> QED
      BY <1>1, <3>1 DEF CallOK
  <2> QED
    BY <1>7, <2>1 DEF MadeOK
<1>9. Cardinality(Busy) \in Nat
  <2>1. IsFiniteSet({u \in Threads : call[u] # 0})
    BY CaptureAssumption, FS_Subset
  <2>2. IsFiniteSet(Busy)
    BY <2>1, FS_AddElement
  <2> QED
    BY <2>2, FS_CardinalityType
<1> DEFINE busy == Cardinality(Busy)
<1>10. busy \in Nat /\ crowd \in Nat /\ crowd' = IF busy > crowd THEN busy ELSE crowd
  BY <1>1, <1>9, SizesAre
<1> HIDE DEF busy
<1>11. CallsSame
  BY <1>a, <1>7, <1>10, SizesAre DEF CallsSame
<1>12. \A u \in Threads : call'[u] = IF u = t THEN k ELSE call[u]
  BY <1>1 DEF ThreadsOK
<1>13. ThreadsOK'
  <2>1. call' \in [Threads -> 0 .. Len(made)']
    BY <1>1, <1>7 DEF ThreadsOK
  <2>2. ASSUME NEW u \in Threads, InCall(u)' PROVE made'[call'[u]].thread = u
    <3>1. CASE u = t
      BY <1>4, <1>7, <1>12, <3>1
    <3>2. CASE u # t
      <4>1. call'[u] = call[u] /\ call[u] \in 1 .. Len(made) /\ made[call[u]].thread = u
        BY <1>12, <2>2, <3>2, SizesAre DEF ThreadsOK, InCall
      <4> QED
        BY <1>7, <4>1
    <3> QED
      BY <3>1, <3>2
  <2>3. executed' \subseteq {u \in Threads : InCall(u)'}
    BY <1>1, <1>7, <1>12 DEF ThreadsOK, InCall
  <2>4. skips' \in Nat /\ crowd' \in Nat
    BY <1>11 DEF CallsSame
  <2> QED
    BY <1>1, <2>1, <2>2, <2>3, <2>4 DEF ThreadsOK
<1>14. ASSUME NEW a, NEW u \in Threads, NEW m, NEW id, EntryOf(a, u, m, id),
              u = t /\ m = n => ~probed /\ skips' = skips + 1
       PROVE  EntryOf(a, u, m, id)'
  BY <1>1, <1>4, <1>6, <1>11, <1>14, EnterEntry
<1>15. probed => n \in Probed /\ \A a \in Saved[n] : a \in Arrays
  BY DEF Arrays
<1>16. Key(t, n) = << t, n >>
  BY DEF Key
<1>17. ASSUME NEW a \in Arrays, probed, a \in Saved[n]
       PROVE  IsPut(entries'[a], entries[a], Key(t, n), k)
  <2>1. entries'[a] = Put(entries[a], Key(t, n), k)
    BY <1>a, <1>17
  <2>2. IsArray(entries[a]) /\ Key(t, n) \in Threads \X Probed /\ k \in Nat
    BY <1>7, <1>15, <1>16, <1>17 DEF EntriesOK
  <2> QED
    BY <2>1, <2>2, PutIs
<1>18. ASSUME NEW a \in Arrays, ~(probed /\ a \in Saved[n])
       PROVE  entries'[a] = entries[a]
  BY <1>a, <1>18
<1>19. ASSUME NEW a \in Arrays
       PROVE  IsArray(entries'[a])
  <2>1. CASE probed /\ a \in Saved[n]
    BY <1>17, <2>1 DEF IsPut
  <2>2. CASE ~(probed /\ a \in Saved[n])
    BY <1>18, <2>2 DEF EntriesOK
  <2> QED
    BY <2>1, <2>2
<1>20. ~probed /\ armed /\ p \in Wanted /\ n \in Probed => skips' = skips + 1
  BY <1>a, SizesAre
<1>21. ASSUME NEW a \in Arrays, NEW j \in 1 .. Len(entries[a]),
              probed /\ a \in Saved[n] => entries[a][j].key # Key(t, n),
              NEW i \in 1 .. Len(entries'[a]), entries'[a][i] = entries[a][j]
       PROVE  EntryOK(a, entries[a][i])'
  <2> DEFINE e == entries[a][j]
             u == e.key[1]
             m == e.key[2]
             id == e.id
  <2>1. u \in Threads /\ e.key = Key(u, m) /\ EntryOf(a, u, m, id)
    BY EntryIs
  <2>2. u = t /\ m = n => ~probed /\ skips' = skips + 1
    <3> SUFFICES ASSUME u = t, m = n PROVE ~probed /\ skips' = skips + 1
      OBVIOUS
    <3>1. a \in Saved[n] /\ id \in 1 .. Len(made) /\ made[id].seen
          /\ made[id].thread = t /\ made[id].name = n
      BY <2>1 DEF EntryOf
    <3>2. ~probed
      BY <1>21, <2>1, <3>1
    <3>3. CallOK(made[id])
      BY <3>1 DEF MadeOK
    <3>4. armed /\ p \in Wanted /\ n \in Probed
      BY <3>1, <3>3 DEF CallOK
    <3> QED
      BY <1>20, <3>2, <3>4
  <2> HIDE DEF u, m, id
  <2>3. e = entries'[a][i]
    BY <1>21
  <2>4. \A w \in Threads : \A y, z :
          EntryOf(a, w, y, z) /\ (w = t /\ y = n => ~probed /\ skips' = skips + 1)
            => EntryOf(a, w, y, z)'
    BY <1>14
  <2> HIDE DEF probed
  <2> QED
    BY <2>1, <2>2, <2>3, <2>4 DEF EntryOK, u, m, id
<1>22. ASSUME NEW a \in Arrays, NEW i \in 1 .. Len(entries'[a])
       PROVE  EntryOK(a, entries[a][i])'
  <2>1. CASE ~(probed /\ a \in Saved[n])
    <3>1. entries'[a] = entries[a]
      BY <1>18, <2>1
    <3> QED
      BY <1>21, <2>1, <3>1
  <2>2. CASE probed /\ a \in Saved[n]
    <3>1. IsPut(entries'[a], entries[a], Key(t, n), k)
      BY <1>17, <2>2
    <3>2. CASE entries'[a][i] = [key |-> Key(t, n), id |-> k]
      <4>1. /\ entries'[a][i].key[1] = t /\ entries'[a][i].key[2] = n
            /\ entries'[a][i].id = k
        BY <1>16, <3>2
      <4>2. /\ k \in 1 .. Len(made)' /\ made'[k].seen /\ made'[k].thread = t
            /\ made'[k].name = n /\ a \in Saved[n] /\ call'[t] = k
        <5>1. k \in 1 .. Len(made)' /\ call'[t] = k
          BY <1>7, <1>12
        <5>2. made'[k] = c /\ c.seen /\ c.thread = t /\ c.name = n
          BY <1>4, <1>7, <2>2
        <5> QED
          BY <2>2, <5>1, <5>2
      <4> QED
        BY <4>1, <4>2 DEF EntryOK, EntryOf
    <3>3. ASSUME NEW j \in 1 .. Len(entries[a]), entries'[a][i] = entries[a][j],
                 entries'[a][i].key # Key(t, n)
          PROVE  EntryOK(a, entries[a][i])'
      BY <1>21, <3>3
    <3> QED
      BY <3>1, <3>2, <3>3 DEF IsPut
  <2> QED
    BY <2>1, <2>2
<1>23. entries' = [a \in Arrays |-> entries'[a]]
  <2>1. entries' = entries \/ entries' = With(n)
    BY <1>a
  <2> QED
    BY <2>1 DEF EntriesOK
<1>24. EntriesOK'
  BY <1>19, <1>22, <1>23 DEF EntriesOK
<1>25. ASSUME NEW u \in Threads PROVE KeptOf(u)'
  <2>1. CASE u = t
    <3>1. made'[call'[u]] = c
      BY <1>7, <1>12, <2>1
    <3> SUFFICES ASSUME probed, NEW a \in Saved[n]
                 PROVE  Has(entries'[a], Key(t, n))
      BY <1>4, <2>1, <3>1 DEF KeptOf
    <3> QED
      BY <1>15, <1>17 DEF IsPut
  <2>2. CASE u # t
    <3>1. call'[u] = call[u]
      BY <1>12, <2>2
    <3> SUFFICES ASSUME InCall(u)', made'[call'[u]].seen,
                        NEW a \in Saved[made'[call'[u]].name]
                 PROVE  \/ Has(entries'[a], Key(u, made'[call'[u]].name))
                        \/ skips' > 0 \/ crowd' > MapCap
      BY DEF KeptOf
    <3>2. InCall(u) /\ call[u] \in 1 .. Len(made)
      BY <3>1, SizesAre DEF InCall
    <3> DEFINE m == made[call[u]].name
    <3>3. made'[call'[u]].name = m /\ made[call[u]].seen /\ CallOK(made[call[u]])
      BY <1>7, <3>1, <3>2 DEF MadeOK
    <3>4. a \in Arrays
      BY <3>3 DEF CallOK, Arrays
    <3>5. \/ Has(entries[a], Key(u, m))
          \/ skips > 0 \/ crowd > MapCap
      BY <3>2, <3>3 DEF EntriesKept, KeptOf
    <3>6. CASE skips > 0 \/ crowd > MapCap
      <4>1. skips' > 0 \/ crowd' > MapCap
        BY <1>11, <3>6, CaptureAssumption DEF CallsSame
      <4> QED
        BY <4>1
    <3>7. CASE Has(entries[a], Key(u, m)) /\ Has(entries'[a], Key(u, m))
      BY <3>3, <3>7
    <3>8. CASE Has(entries[a], Key(u, m)) /\ ~Has(entries'[a], Key(u, m)) /\ skips = 0
      <4>1. probed /\ a \in Saved[n]
        BY <1>18, <3>4, <3>8
      <4>2. Len(entries[a]) = MapCap
        BY <1>17, <3>4, <3>8, <4>1 DEF IsPut
      <4>3. Cardinality(Busy) > MapCap
        BY <1>1, <3>4, <3>8, <4>2, Crowded
      <4>4. busy > MapCap
        BY <4>3 DEF busy
      <4> QED
        BY <1>10, <4>4, CaptureAssumption
    <3>9. skips > 0 \/ skips = 0
      BY SizesAre
    <3> QED
      BY <3>5, <3>6, <3>7, <3>8, <3>9
  <2> QED
    BY <2>1, <2>2
<1>26. LinesOK'
  BY <1>1, <1>11, LinesStay
<1> QED
  BY <1>8, <1>13, <1>24, <1>25, <1>26 DEF EntriesKept

-----------------------------------------------------------------------------
LEMMA CaptureInvNext == CaptureInv /\ [Next]_vars => CaptureInv'
<1> SUFFICES ASSUME CaptureInv, [Next]_vars PROVE CaptureInv'
  OBVIOUS
<1>1. CASE CaptureNext
  BY SMTT(30), <1>1, BeginStep, EnterStep, ExecuteStep, ReturnStep, ExitGroupStep DEF CaptureNext
<1>2. CASE UNCHANGED cvars
  <2>1. UNCHANGED <<program, table, known, made, call, executed, exiting,
                    armed, entries, printed, skips, crowd>>
    BY <1>2 DEF cvars, kernel
  <2>2. MadeOK'
    BY <2>1 DEF CaptureInv, MadeOK, CallOK
  <2>3. ThreadsOK'
    BY <2>1 DEF CaptureInv, ThreadsOK, InCall
  <2>4. EntriesOK'
    <3>1. made' = made /\ call' = call /\ skips' = skips /\ entries' = entries
      BY <2>1
    <3>2. EntriesOK
      BY DEF CaptureInv
    <3>3. entries' = [a \in Arrays |-> entries'[a]]
      BY ZenonT(60), <2>1, <3>2 DEF EntriesOK
    <3>4. \A a \in Arrays : IsArray(entries'[a])
      BY ZenonT(60), <2>1, <3>2 DEF EntriesOK
    <3>5. ASSUME NEW a \in Arrays, NEW i \in 1 .. Len(entries'[a])
          PROVE  EntryOK(a, entries[a][i])'
      <4>1. EntryOK(a, entries[a][i])
        BY ZenonT(60), <3>1, <3>2 DEF EntriesOK
      <4> QED
        BY ZenonT(60), <3>1, <4>1 DEF EntryOK, EntryOf, Left, InCall
    <3> QED
      BY ZenonT(60), <3>3, <3>4, <3>5 DEF EntriesOK, IsArray, UniqueKeys
  <2>5. EntriesKept'
    BY <2>1 DEF CaptureInv, EntriesKept, KeptOf, InCall
  <2>6. LinesOK'
    BY SMTT(30), <2>1 DEF CaptureInv, LinesOK, LineOK, ArgOK
  <2> QED
    BY <2>2, <2>3, <2>4, <2>5, <2>6 DEF CaptureInv
<1> QED
  BY <1>1, <1>2 DEF Next, RunCapture, vars

LEMMA CaptureInvHolds == Spec => []CaptureInv
<1> QED
  BY CaptureInvInit, CaptureInvNext, PTL DEF Spec

(* A line of the capture prints the arguments of the call it is about,     *)
(* whatever the other threads do between its entry and its return, and     *)
(* misses one, or has one of an earlier call, only when the arrays were    *)
(* too small or probes were skipped (ioriot.stp:105-132).                  *)
THEOREM ArgumentsOfTheCallHolds == Spec => []ArgumentsOfTheCall
<1>1. ASSUME CaptureInv PROVE ArgumentsOfTheCall
  <2>1. IsSeq(printed) /\ LinesOK
    BY <1>1 DEF CaptureInv, ThreadsOK
  <2>2. ToSet(printed) = {printed[i] : i \in 1 .. Len(printed)}
    BY <2>1, SeqIs DEF IsSeq, ToSet
  <2>3. ASSUME NEW l \in ToSet(printed), NEW a \in DOMAIN l.args PROVE ArgOK(l, a)
    BY <2>1, <2>2, <2>3 DEF LinesOK, LineOK
  <2> QED
    BY <2>3 DEF ArgumentsOfTheCall, ArgOK
<1> QED
  BY <1>1, CaptureInvHolds, PTL

-----------------------------------------------------------------------------
(* Descriptors: what a call in progress takes, closes or gets, and what    *)
(* the kernel has.  A number that threads know is open, and nobody is      *)
(* getting or closing it, but for a close that has taken effect before.    *)

Uses(t, p, f) == InCall(t) /\ Process[t] = p /\ made[call[t]].fd = f
Closes(t, p, f) == Uses(t, p, f) /\ made[call[t]].name = "close"
Closing(t, p, f) == Closes(t, p, f) /\ t \notin executed
Gets(t, p, f) == t \in executed /\ Process[t] = p /\ made[call[t]].ret = f

KnownOK(p, f) ==
  f \in known[p] =>
    /\ table[p][f] # NoFile
    /\ \A t \in Threads : ~Gets(t, p, f) /\ ~Closing(t, p, f)
UserOK(t, p, f) ==
  Uses(t, p, f) /\ made[call[t]].name # "close" =>
    /\ f \in known[p]
    /\ t \in executed /\ made[call[t]].name \notin Opens => made[call[t]].file = table[p][f]
GetterOK(t, p, f) ==
  Gets(t, p, f) =>
    /\ table[p][f] # NoFile
    /\ made[call[t]].name \in Opens => table[p][f] = made[call[t]].path
    /\ \A u \in Threads : (Gets(u, p, f) => u = t) /\ ~Closing(u, p, f)
CloserOK(t, p, f) ==
  Closing(t, p, f) =>
    table[p][f] # NoFile /\ \A u \in Threads : Closing(u, p, f) => u = t
NumberOK(p, f) ==
  /\ KnownOK(p, f)
  /\ \A t \in Threads : UserOK(t, p, f) /\ GetterOK(t, p, f) /\ CloserOK(t, p, f)

TakesOK(i) ==
  /\ made[i].fd \in Numbers \cup {0}
  /\ made[i].name = "close" => made[i].fd # 0
  /\ made[i].name = "socket" => made[i].fd = 0
  /\ made[i].name \in Opens => made[i].path \in CapturedPaths
KernelOK ==
  /\ table = [p \in Processes |-> table[p]]
  /\ \A p \in Processes : table[p] = [f \in Numbers |-> table[p][f]]
  /\ known \in [Processes -> SUBSET Numbers]
  /\ \A i \in 1 .. Len(made) : TakesOK(i)
  /\ \A t \in Threads : InCall(t) =>
       /\ made[call[t]].ret \in Numbers \cup {0}
       /\ t \notin executed => made[call[t]].ret = 0
NumbersOK == \A p \in Processes : \A f \in Numbers : NumberOK(p, f)

(* The lines.  Only those of calls that are over are there.                *)
IsLine(l) ==
  /\ armed /\ l.pid \in Processes \cap Wanted
  /\ \/ l.name = "exit_group" /\ l.args = <<>>
     \/ /\ l.name \in Probed /\ DOMAIN l.args = Saved[l.name]
        /\ l.id \in 1 .. Len(made) /\ \A t \in Threads : call[t] # l.id
PrintedOK == \A i \in 1 .. Len(printed) : IsLine(printed[i])

(* Line j is the last one about f before line i, and it opens a path.      *)
About(l, p, f) ==
  /\ l.pid = p
  /\ \/ l.name = "exit_group"
     \/ l.name \in Opens \cup {"close"} /\ PrintedFd(l) = f
LastOpen(i, j, p, f) ==
  /\ j \in 1 .. i - 1
  /\ printed[j].name \in Opens /\ printed[j].args["PATH"] # 0
  /\ About(printed[j], p, f)
  /\ \A k \in j + 1 .. i - 1 : ~About(printed[k], p, f)
PathOf(j) == made[printed[j].args["PATH"]].path
Lost(i, p, f) == \E k \in 1 .. i - 1 : CloseLost(printed[k], p, f)

(* What the lines before i say of f is so, or it is being closed.          *)
BelievedOK(i, p, f) ==
  \A j \in 1 .. i - 1 : LastOpen(i, j, p, f) =>
    \/ Lost(i, p, f)
    \/ \E t \in Threads : Closes(t, p, f) /\ made[call[t]].seen
    \/ f \in known[p] /\ table[p][f] = PathOf(j)
BeliefsOK ==
  skips = 0 => \A i \in {Len(printed) + 1} :
    \A p \in Processes : \A f \in Numbers : BelievedOK(i, p, f)

(* What line i has used is what the lines before it say.                   *)
RightAt(i, p, f) ==
  printed[i].name \notin Opens \cup {"close"}
  /\ printed[i].pid = p /\ PrintedFd(printed[i]) = f =>
       \A j \in 1 .. i - 1 : LastOpen(i, j, p, f) =>
         \/ Lost(i, p, f)
         \/ \E t \in Threads : Closes(t, p, f)
         \/ made[printed[i].id].file = PathOf(j)
RightOK ==
  skips = 0 => \A i \in {Len(printed)} \ {0} :
    \A p \in Processes : \A f \in Numbers : RightAt(i, p, f)

DescriptorInv ==
  KernelOK /\ NumbersOK /\ PrintedOK /\ BeliefsOK /\ RightOK

-----------------------------------------------------------------------------
(* What is saved of open, openat, creat and close.                         *)

LEMMA SavesIs ==
  ASSUME NEW n, NEW S, << n, S >> \in AllArgs, NEW a \in S
  PROVE  n \in Probed /\ a \in Saved[n]
<1> DEFINE s == << n, S >>
<1>1. s[1] = n /\ s[2] = S /\ s \in {r \in AllArgs : r[1] = n}
  OBVIOUS
<1>2. n \in Probed
  BY <1>1 DEF Probed
<1>3. Saved[n] = UNION {r[2] : r \in {q \in AllArgs : q[1] = n}}
  BY <1>2 DEF Saved
<1> HIDE DEF s
<1> QED
  BY <1>1, <1>2, <1>3

LEMMA OpensAndClose ==
  /\ "close" \in Probed /\ "FD" \in Saved["close"]
  /\ \A n \in Opens : n \in Probed /\ "PATH" \in Saved[n]
  /\ "close" \notin Opens /\ "exit_group" \notin Opens /\ "socket" \notin Opens
<1>1. << "close", {"FD"} >> \in AllArgs
  BY DEF AllArgs, CloseArgs, Each
<1>2. << "open", {"PATH", "FLAGS", "MODE"} >> \in AllArgs
  BY DEF AllArgs, OpenArgs, Each
<1>3. << "openat", {"FD", "PATH", "FLAGS", "MODE"} >> \in AllArgs
  BY DEF AllArgs, OpenArgs, Each
<1>4. << "creat", {"PATH", "MODE"} >> \in AllArgs
  BY DEF AllArgs, WriteArgs, Each
<1>5. "close" \in Probed /\ "FD" \in Saved["close"]
  BY <1>1, SavesIs
<1>6. "open" \in Probed /\ "PATH" \in Saved["open"]
  BY <1>2, SavesIs
<1>7. "openat" \in Probed /\ "PATH" \in Saved["openat"]
  BY <1>3, SavesIs
<1>8. "creat" \in Probed /\ "PATH" \in Saved["creat"]
  BY <1>4, SavesIs
<1> QED
  BY <1>5, <1>6, <1>7, <1>8 DEF Opens

-----------------------------------------------------------------------------
(* The descriptors.  A step that leaves a number alone changes at most a   *)
(* thread that neither gets nor closes it, and uses it as it may.          *)

CallSame(u) ==
  /\ InCall(u)' <=> InCall(u)
  /\ InCall(u) => made'[call'[u]] = made[call[u]]
  /\ u \in executed' <=> u \in executed

LEMMA SameCall ==
  ASSUME ThreadsOK, NEW u \in Threads, CallSame(u), NEW p, NEW f
  PROVE  /\ Uses(u, p, f)' <=> Uses(u, p, f)
         /\ Closing(u, p, f)' <=> Closing(u, p, f)
         /\ Gets(u, p, f)' <=> Gets(u, p, f)
         /\ u \in executed => InCall(u)
BY DEF CallSame, Uses, Closes, Closing, Gets, ThreadsOK

LEMMA NumberStays ==
  ASSUME ThreadsOK, NEW p, NEW f, NumberOK(p, f),
         f \in known'[p] <=> f \in known[p], table'[p][f] = table[p][f],
         \A u \in Threads :
           \/ CallSame(u)
           \/ ~Gets(u, p, f)' /\ ~Closing(u, p, f)' /\ UserOK(u, p, f)'
  PROVE  NumberOK(p, f)'
<1>1. ASSUME NEW u \in Threads, Gets(u, p, f)' \/ Closing(u, p, f)'
      PROVE  CallSame(u) /\ (Gets(u, p, f)' => Gets(u, p, f) /\ InCall(u))
                         /\ (Closing(u, p, f)' => Closing(u, p, f))
  <2>1. CallSame(u)
    BY <1>1
  <2>2. /\ Closing(u, p, f)' <=> Closing(u, p, f)
        /\ Gets(u, p, f)' <=> Gets(u, p, f)
        /\ u \in executed => InCall(u)
    BY <2>1, SameCall
  <2> QED
    BY <2>1, <2>2 DEF Gets
<1>2. KnownOK(p, f)'
  BY <1>1 DEF NumberOK, KnownOK
<1>3. ASSUME NEW t \in Threads PROVE UserOK(t, p, f)'
  <2>1. CASE CallSame(t)
    <3>1. Uses(t, p, f)' <=> Uses(t, p, f)
      BY <2>1, SameCall
    <3> QED
      BY <2>1, <3>1 DEF NumberOK, UserOK, CallSame, Uses
  <2> QED
    BY <2>1
<1>4. ASSUME NEW t \in Threads PROVE GetterOK(t, p, f)'
  <2> SUFFICES ASSUME Gets(t, p, f)' PROVE GetterOK(t, p, f)'
    BY DEF GetterOK
  <2>1. Gets(t, p, f) /\ made'[call'[t]] = made[call[t]]
    BY <1>1 DEF CallSame
  <2>2. GetterOK(t, p, f)
    BY DEF NumberOK
  <2> QED
    BY <1>1, <2>1, <2>2 DEF GetterOK
<1>5. ASSUME NEW t \in Threads PROVE CloserOK(t, p, f)'
  <2> SUFFICES ASSUME Closing(t, p, f)' PROVE CloserOK(t, p, f)'
    BY DEF CloserOK
  <2>1. Closing(t, p, f)
    BY <1>1
  <2>2. CloserOK(t, p, f)
    BY DEF NumberOK
  <2> QED
    BY <1>1, <2>1, <2>2 DEF CloserOK
<1> QED
  BY <1>2, <1>3, <1>4, <1>5 DEF NumberOK

(* A close of a number begins.                                             *)
LEMMA EnterClose ==
  ASSUME ThreadsOK, NEW t \in Threads, NEW p, NEW f, NumberOK(p, f),
         f \in known[p], f \notin known'[p], table'[p][f] = table[p][f],
         \A u \in Threads : ~Uses(u, p, f),
         \A u \in Threads : u = t \/ CallSame(u),
         made'[call'[t]].name = "close", t \notin executed'
  PROVE  NumberOK(p, f)'
<1>1. /\ table[p][f] # NoFile
      /\ \A u \in Threads : ~Gets(u, p, f) /\ ~Closing(u, p, f)
  BY DEF NumberOK, KnownOK
<1>2. ASSUME NEW u \in Threads
      PROVE  ~Gets(u, p, f)' /\ (Closing(u, p, f)' => u = t) /\ (Uses(u, p, f)' => u = t)
  <2>1. CASE u = t
    BY <2>1 DEF Gets
  <2>2. CASE CallSame(u)
    BY <1>1, <2>2, SameCall
  <2> QED
    BY <2>1, <2>2
<1>3. KnownOK(p, f)'
  BY DEF KnownOK
<1>4. \A u \in Threads : UserOK(u, p, f)'
  BY <1>2 DEF UserOK
<1>5. \A u \in Threads : GetterOK(u, p, f)'
  BY <1>2 DEF GetterOK
<1>6. \A u \in Threads : CloserOK(u, p, f)'
  BY <1>1, <1>2 DEF CloserOK
<1> QED
  BY <1>3, <1>4, <1>5, <1>6 DEF NumberOK

(* A call gets a free number.                                              *)
LEMMA ExecuteGet ==
  ASSUME ThreadsOK, NEW t \in Threads, NEW p, NEW f, NumberOK(p, f),
         table[p][f] = NoFile, table'[p][f] # NoFile, known' = known,
         \A u \in Threads : u = t \/ CallSame(u),
         Uses(t, p, f)' => Uses(t, p, f), made[call[t]].name # "close",
         t \in executed',
         made'[call'[t]].name \in Opens => table'[p][f] = made'[call'[t]].path
  PROVE  NumberOK(p, f)'
<1>1. /\ f \notin known[p]
      /\ \A u \in Threads : ~Gets(u, p, f) /\ ~Closing(u, p, f)
      /\ \A u \in Threads : Uses(u, p, f) => made[call[u]].name = "close"
  BY DEF NumberOK, KnownOK, UserOK, GetterOK, CloserOK
<1>2. ASSUME NEW u \in Threads
      PROVE  /\ Gets(u, p, f)' => u = t
             /\ ~Closing(u, p, f)'
             /\ Uses(u, p, f)' => made'[call'[u]].name = "close"
  <2>1. CASE u = t
    BY <1>1, <2>1 DEF Closing
  <2>2. CASE CallSame(u)
    BY <1>1, <2>2, SameCall DEF CallSame, Uses
  <2> QED
    BY <2>1, <2>2
<1>3. KnownOK(p, f)'
  BY <1>1 DEF KnownOK
<1>4. \A u \in Threads : UserOK(u, p, f)'
  BY <1>2 DEF UserOK
<1>5. \A u \in Threads : GetterOK(u, p, f)'
  BY <1>2 DEF GetterOK
<1>6. \A u \in Threads : CloserOK(u, p, f)'
  BY <1>2 DEF CloserOK
<1> QED
  BY <1>3, <1>4, <1>5, <1>6 DEF NumberOK

(* A close takes effect.                                                   *)
LEMMA ExecuteClose ==
  ASSUME ThreadsOK, NEW t \in Threads, NEW p, NEW f, NumberOK(p, f),
         Closing(t, p, f), known' = known,
         \A u \in Threads : u = t \/ CallSame(u),
         made'[call'[t]].name = "close", t \in executed', ~Gets(t, p, f)'
  PROVE  NumberOK(p, f)'
<1>1. /\ f \notin known[p]
      /\ \A u \in Threads : ~Gets(u, p, f)
      /\ \A u \in Threads : Closing(u, p, f) => u = t
      /\ \A u \in Threads : Uses(u, p, f) => made[call[u]].name = "close"
  BY DEF NumberOK, KnownOK, UserOK, GetterOK, CloserOK
<1>2. ASSUME NEW u \in Threads
      PROVE  /\ ~Gets(u, p, f)'
             /\ ~Closing(u, p, f)'
             /\ Uses(u, p, f)' => made'[call'[u]].name = "close"
  <2>1. CASE u = t
    BY <1>1, <2>1 DEF Closing
  <2>2. CASE u # t /\ CallSame(u)
    BY <1>1, <2>2, SameCall DEF CallSame, Uses
  <2> QED
    BY <2>1, <2>2
<1>3. KnownOK(p, f)'
  BY <1>1 DEF KnownOK
<1>4. \A u \in Threads : UserOK(u, p, f)'
  BY <1>2 DEF UserOK
<1>5. \A u \in Threads : GetterOK(u, p, f)'
  BY <1>2 DEF GetterOK
<1>6. \A u \in Threads : CloserOK(u, p, f)'
  BY <1>2 DEF CloserOK
<1> QED
  BY <1>3, <1>4, <1>5, <1>6 DEF NumberOK

(* The threads learn the number that a call has got.                       *)
LEMMA ReturnGet ==
  ASSUME ThreadsOK, NEW t \in Threads, NEW p, NEW f, NumberOK(p, f),
         Gets(t, p, f), table' = table,
         \A u \in Threads : u = t \/ CallSame(u),
         ~InCall(t)', t \notin executed'
  PROVE  NumberOK(p, f)'
<1>1. /\ table[p][f] # NoFile /\ f \notin known[p]
      /\ \A u \in Threads : (Gets(u, p, f) => u = t) /\ ~Closing(u, p, f)
      /\ \A u \in Threads : Uses(u, p, f) => made[call[u]].name = "close"
  BY DEF NumberOK, KnownOK, UserOK, GetterOK
<1>2. ASSUME NEW u \in Threads
      PROVE  /\ ~Gets(u, p, f)'
             /\ ~Closing(u, p, f)'
             /\ Uses(u, p, f)' => made'[call'[u]].name = "close"
  <2>1. CASE u = t
    BY <2>1 DEF Closing, Closes, Uses, Gets
  <2>2. CASE u # t /\ CallSame(u)
    BY <1>1, <2>2, SameCall DEF CallSame, Uses
  <2> QED
    BY <2>1, <2>2
<1>3. KnownOK(p, f)'
  BY <1>1, <1>2 DEF KnownOK
<1>4. \A u \in Threads : UserOK(u, p, f)'
  BY <1>2 DEF UserOK
<1>5. \A u \in Threads : GetterOK(u, p, f)'
  BY <1>2 DEF GetterOK
<1>6. \A u \in Threads : CloserOK(u, p, f)'
  BY <1>2 DEF CloserOK
<1> QED
  BY <1>3, <1>4, <1>5, <1>6 DEF NumberOK

LEMMA SocketUnprobed == "socket" \notin Probed
<1> SUFFICES ASSUME NEW s \in AllArgs PROVE s[1] # "socket"
  BY DEF Probed
<1>1. ASSUME NEW N, NEW a, "socket" \notin N, s \in Each(N, a) PROVE s[1] # "socket"
  BY <1>1 DEF Each
<1>2. ASSUME s \in OpenArgs \cup SeekArgs \cup WriteArgs \cup UnlinkArgs \cup RenameArgs
      PROVE  s[1] # "socket"
  BY <1>1, <1>2 DEF OpenArgs, SeekArgs, WriteArgs, UnlinkArgs, RenameArgs
<1>3. ASSUME s \in ReadArgs \cup LinkArgs \cup SyncArgs \cup CloseArgs \cup DirArgs
      PROVE  s[1] # "socket"
  BY <1>1, <1>3 DEF ReadArgs, LinkArgs, SyncArgs, CloseArgs, DirArgs
<1>4. ASSUME s \in StatArgs \cup ModeArgs \cup OwnerArgs \cup MemoryArgs
      PROVE  s[1] # "socket"
  BY <1>1, <1>4 DEF StatArgs, ModeArgs, OwnerArgs, MemoryArgs
<1> QED
  BY <1>2, <1>3, <1>4 DEF AllArgs

-----------------------------------------------------------------------------
(* What the actions do to the calls and the numbers.                       *)

(* The calls keep what they were made with, and what came of them once     *)
(* they are over.                                                          *)
Over(id) == \A u \in Threads : call[u] # id
CallKept(i) ==
  /\ made'[i].thread = made[i].thread /\ made'[i].name = made[i].name
  /\ made'[i].fd = made[i].fd /\ made'[i].path = made[i].path
  /\ made'[i].seen = made[i].seen
  /\ Over(i) => Over(i)' /\ made'[i].file = made[i].file
CallsKept ==
  /\ Len(made) \in Nat /\ Len(made)' \in Nat /\ Len(made) <= Len(made)'
  /\ \A i \in 1 .. Len(made) : CallKept(i)

(* Only thread t goes on; the call that it is in.                          *)
Others(t) == \A u \in Threads : u = t \/ CallSame(u)
Now(t) == made[call[t]]

LEMMA EnterFacts ==
  ASSUME CaptureInv, NEW t \in Threads, Enter(t)
  PROVE  /\ CallsKept /\ Others(t)
         /\ Len(made)' = Len(made) + 1 /\ call'[t] = Len(made) + 1 
         /\ ~InCall(t) /\ t \notin executed' /\ InCall(t)' /\ Now(t)'.ret = 0
         /\ UNCHANGED <<table, executed, armed, printed>> /\ (skips' = 0 => skips = 0)
         /\ Now(t)'.fd \in IF Takes(Now(t)'.name, "FD") THEN known[Process[t]] ELSE {0}
         /\ Now(t)'.name \in Opens => Now(t)'.path \in CapturedPaths
         /\ Now(t)'.name = "close" =>
               /\ known' = [known EXCEPT ![Process[t]] = @ \ {Now(t)'.fd}]
               /\ \A u \in Threads : ~Uses(u, Process[t], Now(t)'.fd)
               /\ skips' = 0 /\ armed /\ Process[t] \in Wanted => Now(t)'.seen
         /\ Now(t)'.name # "close" => known' = known
<1> USE DEF CaptureInv
<1> DEFINE p == Process[t]
           k == Len(made) + 1
           Probe(n, skip) == armed /\ p \in Wanted /\ n \in Probed /\ skip = 0
           Made(n, f, x, skip) == [thread |-> t, name |-> n, fd |-> f, path |-> x,
                                   seen |-> Probe(n, skip), file |-> NoFile, ret |-> 0]
<1>1. /\ call[t] = 0 /\ call' = [call EXCEPT ![t] = k]
      /\ UNCHANGED <<table, executed, armed, printed>>
  BY DEF Enter
<1>2. PICK n \in program.calls \ {"exit_group"} :
      \E f \in IF Takes(n, "FD") THEN known[p] ELSE {0} :
      \E x \in IF n \in Opens THEN CapturedPaths ELSE {NoFile} :
      \E skip \in 0 .. IF armed THEN program.skips - skips ELSE 0 :
       LET seen == Probe(n, skip) IN
       /\ n = "close" =>
            \A u \in Threads : Process[u] = p /\ call[u] # 0 => made[call[u]].fd # f
       /\ skip \in {0, 1}
       /\ skips' = skips + skip
       /\ made' = Append(made, Made(n, f, x, skip))
       /\ known' = IF n = "close" THEN [known EXCEPT ![p] = @ \ {f}] ELSE known
       /\ entries' = IF ~seen THEN entries
                     ELSE [a \in Arrays |-> IF a \in Saved[n] THEN Put(entries[a], Key(t, n), k)
                                            ELSE entries[a]]
  BY DEF Enter
<1>3. PICK f \in IF Takes(n, "FD") THEN known[p] ELSE {0} :
      \E x \in IF n \in Opens THEN CapturedPaths ELSE {NoFile} :
      \E skip \in 0 .. IF armed THEN program.skips - skips ELSE 0 :
       /\ n = "close" =>
            \A u \in Threads : Process[u] = p /\ call[u] # 0 => made[call[u]].fd # f
       /\ skip \in {0, 1}
       /\ skips' = skips + skip
       /\ made' = Append(made, Made(n, f, x, skip))
       /\ known' = IF n = "close" THEN [known EXCEPT ![p] = @ \ {f}] ELSE known
  BY ZenonT(120), <1>2
<1>4. PICK x \in IF n \in Opens THEN CapturedPaths ELSE {NoFile} :
      \E skip \in 0 .. IF armed THEN program.skips - skips ELSE 0 :
       /\ n = "close" =>
            \A u \in Threads : Process[u] = p /\ call[u] # 0 => made[call[u]].fd # f
       /\ skip \in {0, 1}
       /\ skips' = skips + skip
       /\ made' = Append(made, Made(n, f, x, skip))
       /\ known' = IF n = "close" THEN [known EXCEPT ![p] = @ \ {f}] ELSE known
  BY <1>3
<1>5. PICK skip \in {0, 1} :
       /\ n = "close" =>
            \A u \in Threads : Process[u] = p /\ call[u] # 0 => made[call[u]].fd # f
       /\ skips' = skips + skip
       /\ made' = Append(made, Made(n, f, x, skip))
       /\ known' = IF n = "close" THEN [known EXCEPT ![p] = @ \ {f}] ELSE known
  BY <1>4
<1> DEFINE c == Made(n, f, x, skip)
<1>6. /\ c.name = n /\ c.fd = f /\ c.path = x /\ c.ret = 0
      /\ armed /\ p \in Wanted /\ n \in Probed /\ skip = 0 => c.seen
  OBVIOUS
<1>7. made' = Append(made, c)
  BY <1>5
<1> HIDE DEF c
<1>8. IsAppend(made', made, c)
  BY <1>7, AppendIs DEF MadeOK
<1>9. /\ Len(made)' = k /\ Len(made) \in Nat
      /\ \A i \in 1 .. Len(made) : made'[i] = made[i]
      /\ made'[k] = c
  BY <1>8 DEF IsAppend
<1>10. \A u \in Threads : call'[u] = IF u = t THEN k ELSE call[u]
  BY <1>1 DEF ThreadsOK
<1>11. CallsKept
  <2>1. ASSUME NEW i \in 1 .. Len(made) PROVE CallKept(i)
    <3>1. Over(i) => Over(i)'
      BY <1>9, <1>10 DEF Over
    <3> QED
      BY <1>9, <3>1 DEF CallKept
  <2> QED
    BY <1>9, <2>1 DEF CallsKept
<1>12. Others(t)
  <2> SUFFICES ASSUME NEW u \in Threads, u # t PROVE CallSame(u)
    BY DEF Others
  <2>1. InCall(u) => call[u] \in 1 .. Len(made)
    BY SizesAre
  <2> QED
    BY <1>1, <1>9, <1>10, <2>1 DEF CallSame, InCall
<1>13. Now(t)' = c /\ ~InCall(t) /\ InCall(t)' /\ call'[t] = k
  BY <1>1, <1>9, <1>10 DEF Now, InCall
<1>14. t \notin executed'
  BY <1>1, <1>13 DEF ThreadsOK
<1>15. skips' = 0 => skips = 0 /\ skip = 0
  BY <1>5, SizesAre
<1>16. n = "close" => \A u \in Threads : ~Uses(u, p, f)
  BY <1>5 DEF Uses, InCall
<1>17. f \in IF Takes(n, "FD") THEN known[p] ELSE {0}
  BY <1>3
<1>18. n \in Opens => x \in CapturedPaths
  BY <1>4
<1> HIDE DEF Made, Probe
<1> QED
  BY <1>1, <1>5, <1>6, <1>9, <1>11, <1>12, <1>13, <1>14, <1>15, <1>16, <1>17, <1>18,
     OpensAndClose

(* The lowest of a set of numbers, and the last of a set of lines.         *)
LEMMA MinIs ==
  ASSUME NEW S, S \subseteq Nat, S # {}
  PROVE  Min(S) \in S /\ \A y \in S : Min(S) <= y
<1>1. PICK x \in S : \A y \in S : ~(<< y, x >> \in OpToRel(<, Nat))
  BY NatLessThanWellFounded, WFMin
<1>2. ASSUME NEW y \in S PROVE x <= y
  <2>1. x \in Nat /\ y \in Nat /\ ~(<< y, x >> \in OpToRel(<, Nat))
    BY <1>1
  <2>2. x \in Nat /\ y \in Nat /\ ~(y < x)
    BY <2>1 DEF OpToRel
  <2> QED
    BY <2>2
<1> QED
  BY <1>2 DEF Min

LEMMA MaxIs ==
  ASSUME NEW n \in Nat, NEW S, S \subseteq 1 .. n, S # {}
  PROVE  Max(S) \in S /\ \A y \in S : y <= Max(S)
<1> DEFINE T == {n - s : s \in S}
<1>1. T \subseteq Nat /\ T # {}
  <2>1. PICK s \in S : TRUE
    OBVIOUS
  <2>2. n - s \in T /\ \A r \in S : n - r \in Nat
    OBVIOUS
  <2> QED
    BY <2>2
<1> HIDE DEF T
<1>2. Min(T) \in T /\ \A y \in T : Min(T) <= y
  BY <1>1, MinIs
<1>3. PICK x \in S : Min(T) = n - x
  BY <1>2 DEF T
<1>4. \A y \in S : x >= y
  BY <1>2, <1>3 DEF T
<1>5. Max(S) \in S /\ \A y \in S : Max(S) >= y
  BY <1>4 DEF Max
<1> QED
  BY <1>5

LEMMA ExecuteFacts ==
  ASSUME CaptureInv, KernelOK, NEW t \in Threads, Execute(t)
  PROVE  /\ CallsKept /\ Others(t) /\ Len(made)' = Len(made)
         /\ InCall(t) /\ t \notin executed /\ t \in executed'
         /\ UNCHANGED <<known, call, armed, printed, skips>>
         /\ Now(t)'.name = Now(t).name /\ Now(t)'.fd = Now(t).fd /\ Now(t)'.path = Now(t).path
         /\ \/ /\ Now(t).name \in Opens \cup {"socket"}
               /\ \E f \in Numbers :
                    /\ table[Process[t]][f] = NoFile
                    /\ table' = [table EXCEPT ![Process[t]][f] =
                                   IF Now(t).name = "socket" THEN "socket" ELSE Now(t).path]
                    /\ Now(t)'.ret = f
            \/ Now(t).name \in Opens /\ table' = table /\ Now(t)'.ret = Now(t).ret
            \/ /\ Now(t).name \notin Opens \cup {"socket"} /\ Now(t)'.ret = Now(t).ret
               /\ table' = IF Now(t).name = "close"
                           THEN [table EXCEPT ![Process[t]][Now(t).fd] = NoFile] ELSE table
               /\ Now(t).fd # 0 => Now(t)'.file = table[Process[t]][Now(t).fd]
<1> USE DEF CaptureInv
<1> DEFINE k == call[t]
           c == made[k]
           p == Process[t]
           free == {f \in Numbers : table[p][f] = NoFile}
           Result(d) ==
             \/ /\ c.name \in Opens \cup {"socket"}
                /\ \E f \in Numbers :
                     /\ table[p][f] = NoFile
                     /\ table' = [table EXCEPT ![p][f] =
                                    IF c.name = "socket" THEN "socket" ELSE c.path]
                     /\ d.ret = f
             \/ c.name \in Opens /\ table' = table /\ d.ret = c.ret
             \/ /\ c.name \notin Opens \cup {"socket"} /\ d.ret = c.ret
                /\ table' = IF c.name = "close" THEN [table EXCEPT ![p][c.fd] = NoFile] ELSE table
                /\ c.fd # 0 => d.file = table[p][c.fd]
           Like(d) ==
             /\ d.thread = c.thread /\ d.name = c.name /\ d.seen = c.seen
             /\ d.fd = c.fd /\ d.path = c.path
<1>1. /\ k # 0 /\ t \notin executed /\ executed' = executed \cup {t}
      /\ UNCHANGED <<known, call, armed, printed, skips>>
  BY DEF Execute
<1>2. k \in 1 .. Len(made) /\ CallOK(c)
  BY <1>1, SizesAre DEF InCall, MadeOK
<1>3. c = [thread |-> c.thread, name |-> c.name, fd |-> c.fd, path |-> c.path,
           seen |-> c.seen, file |-> c.file, ret |-> c.ret]
  BY <1>2 DEF CallOK
<1>4. IsSeq(made) /\ DOMAIN made = 1 .. Len(made) /\ Len(made) \in Nat
  BY SeqIs DEF MadeOK, IsSeq
<1>a. made = [made EXCEPT ![k] = c]
  <2>1. made = [i \in 1 .. Len(made) |-> made[i]]
    BY <1>4 DEF IsSeq
  <2> QED
    BY <1>2, <2>1
<1>5. free # {} => Min(free) \in free
  <2>1. free \subseteq Nat
    BY ZenonT(40), CaptureAssumption
  <2> HIDE DEF free
  <2> QED
    BY <2>1, MinIs
<1>6. \E d : made' = [made EXCEPT ![k] = d] /\ Like(d) /\ Result(d)
  <2>1. CASE /\ c.name \in Opens \cup {"socket"} /\ free # {}
             /\ table' = [table EXCEPT ![p][Min(free)] =
                                    IF c.name = "socket" THEN "socket" ELSE c.path]
             /\ made' = [made EXCEPT ![k].ret = Min(free)]
    <3> DEFINE d == [c EXCEPT !.ret = Min(free)]
    <3>1. made' = [made EXCEPT ![k] = d]
      BY <2>1
    <3>2. d = [thread |-> c.thread, name |-> c.name, fd |-> c.fd, path |-> c.path,
               seen |-> c.seen, file |-> c.file, ret |-> Min(free)]
      BY <1>3
    <3>3. PICK f \in Numbers : f = Min(free) /\ table[p][f] = NoFile
      BY <1>5, <2>1
    <3> HIDE DEF d
    <3>4. Like(d) /\ Result(d)
      BY <2>1, <3>2, <3>3
    <3> QED
      BY <3>1, <3>4
  <2>2. CASE c.name \in Opens /\ table' = table /\ made' = made
    <3>1. made' = [made EXCEPT ![k] = c]
      BY <1>a, <2>2
    <3> QED
      BY <2>2, <3>1
  <2>3. CASE /\ c.name \notin Opens \cup {"socket"}
             /\ table' = IF c.name = "close" THEN [table EXCEPT ![p][c.fd] = NoFile] ELSE table
             /\ made' = IF c.fd = 0 THEN made ELSE [made EXCEPT ![k].file = table[p][c.fd]]
    <3>1. CASE c.fd = 0
      <4>1. made' = [made EXCEPT ![k] = c]
        BY SMTT(30), <1>a, <2>3, <3>1
      <4> QED
        BY <2>3, <3>1, <4>1
    <3>2. CASE c.fd # 0
      <4> DEFINE d == [c EXCEPT !.file = table[p][c.fd]]
      <4>1. made' = [made EXCEPT ![k] = d]
        BY <2>3, <3>2
      <4>2. d = [thread |-> c.thread, name |-> c.name, fd |-> c.fd, path |-> c.path,
                 seen |-> c.seen, file |-> table[p][c.fd], ret |-> c.ret]
        BY <1>3
      <4> HIDE DEF d
      <4>3. Like(d) /\ Result(d)
        BY SMTT(30), <2>3, <4>2
      <4> QED
        BY <4>1, <4>3
    <3> QED
      BY <3>1, <3>2
  <2> QED
    BY <2>1, <2>2, <2>3 DEF Execute
<1>7. PICK d : made' = [made EXCEPT ![k] = d] /\ Like(d) /\ Result(d)
  BY <1>6
<1>8. IsUpdate(made', made, k, d)
  BY <1>2, <1>7, UpdateIs DEF MadeOK
<1>9. /\ Len(made)' = Len(made)
      /\ \A i \in 1 .. Len(made) : made'[i] = IF i = k THEN d ELSE made[i]
  BY <1>8 DEF IsUpdate
<1>10. CallsKept
  <2>1. ASSUME NEW i \in 1 .. Len(made) PROVE CallKept(i)
    <3>1. Over(i) => Over(i)' /\ i # k
      BY <1>1 DEF Over
    <3> QED
      BY <1>7, <1>9, <3>1 DEF CallKept
  <2> QED
    BY <1>4, <1>9, <2>1 DEF CallsKept
<1>11. Others(t)
  <2> SUFFICES ASSUME NEW u \in Threads, u # t PROVE CallSame(u)
    BY DEF Others
  <2>1. InCall(u) => call[u] \in 1 .. Len(made) /\ made[call[u]].thread = u
    BY SizesAre DEF ThreadsOK
  <2>2. made[k].thread = t
    BY <1>1 DEF ThreadsOK, InCall
  <2> QED
    BY <1>1, <1>9, <2>1, <2>2 DEF CallSame, InCall
<1>12. Now(t)' = d /\ Now(t) = c /\ InCall(t)
  BY <1>1, <1>2, <1>9 DEF Now, InCall
<1> HIDE DEF k, c, free
<1> QED
  BY <1>1, <1>7, <1>9, <1>10, <1>11, <1>12

LEMMA ReturnFacts ==
  ASSUME CaptureInv, NEW t \in Threads, Return(t)
  PROVE  /\ CallsKept /\ Others(t) /\ made' = made
         /\ InCall(t) /\ t \in executed /\ ~InCall(t)' /\ t \notin executed'
         /\ \A id : id = call[t] => Over(id)'
         /\ UNCHANGED <<table, armed>> /\ (skips' = 0 => skips = 0)
         /\ known' = IF Now(t).ret = 0 THEN known
                     ELSE [known EXCEPT ![Process[t]] = @ \cup {Now(t).ret}]
<1> USE DEF CaptureInv
<1>1. PICK skip \in {0, 1} : skips' = skips + skip
  BY DEF Return
<1>2. /\ t \in executed /\ executed' = executed \ {t}
      /\ call' = [call EXCEPT ![t] = 0] /\ UNCHANGED <<made, table, armed>>
      /\ known' = IF Now(t).ret = 0 THEN known
                  ELSE [known EXCEPT ![Process[t]] = @ \cup {Now(t).ret}]
  BY DEF Return, Now
<1>3. \A u \in Threads : call'[u] = IF u = t THEN 0 ELSE call[u]
  BY <1>2 DEF ThreadsOK
<1>4. InCall(t) /\ ~InCall(t)'
  BY <1>2, <1>3 DEF InCall, ThreadsOK
<1>5. \A u \in Threads : InCall(u) => call[u] \in 1 .. Len(made) /\ made[call[u]].thread = u
  BY SizesAre DEF ThreadsOK
<1>6. ASSUME NEW id, id = call[t] PROVE Over(id)'
  BY <1>2, <1>3, <1>4, <1>5, <1>6 DEF Over, InCall
<1>7. CallsKept
  <2>1. ASSUME NEW i \in 1 .. Len(made) PROVE CallKept(i)
    <3>1. Over(i) => Over(i)'
      BY <1>3 DEF Over
    <3> QED
      BY <1>2, <3>1 DEF CallKept
  <2> QED
    BY <1>2, <2>1, SizesAre DEF CallsKept
<1>8. Others(t)
  BY <1>2, <1>3 DEF Others, CallSame, InCall
<1>9. skips' = 0 => skips = 0
  BY <1>1, SizesAre
<1> QED
  BY <1>2, <1>4, <1>6, <1>7, <1>8, <1>9

-----------------------------------------------------------------------------
(* Every action keeps what is so of the numbers.                           *)

LEMMA TakesStay ==
  ASSUME KernelOK, CallsKept, NEW i \in 1 .. Len(made)
  PROVE  TakesOK(i)'
BY DEF KernelOK, CallsKept, CallKept, TakesOK

LEMMA NumbersKept ==
  ASSUME ThreadsOK, NumbersOK, UNCHANGED <<table, known>>,
         \A u \in Threads : CallSame(u)
  PROVE  NumbersOK'
<1> SUFFICES ASSUME NEW p \in Processes, NEW f \in Numbers PROVE NumberOK(p, f)'
  BY DEF NumbersOK
<1>1. NumberOK(p, f)
  BY DEF NumbersOK
<1> QED
  BY <1>1, NumberStays

LEMMA EnterNumbers ==
  ASSUME CaptureInv, KernelOK, NumbersOK, NEW t \in Threads, Enter(t)
  PROVE  KernelOK' /\ NumbersOK'
<1> USE DEF CaptureInv
<1> DEFINE q == Process[t]
           n == Now(t)'.name
           g == Now(t)'.fd
<1>1. /\ CallsKept /\ Others(t)
      /\ Len(made)' = Len(made) + 1 /\ call'[t] = Len(made) + 1
      /\ ~InCall(t) /\ t \notin executed' /\ InCall(t)' /\ Now(t)'.ret = 0
      /\ UNCHANGED <<table, executed>>
      /\ g \in IF Takes(n, "FD") THEN known[q] ELSE {0}
      /\ n \in Opens => Now(t)'.path \in CapturedPaths
      /\ n = "close" => /\ known' = [known EXCEPT ![q] = @ \ {g}]
                        /\ \A u \in Threads : ~Uses(u, q, g)
      /\ n # "close" => known' = known
  BY EnterFacts
<1>2. q \in Processes /\ known \in [Processes -> SUBSET Numbers] /\ 0 \notin Numbers
  BY CaptureAssumption DEF Processes, KernelOK
<1>3. Now(t)' = made'[Len(made) + 1] /\ Now(t)' = made'[call'[t]] /\ Len(made) \in Nat
  BY <1>1, SizesAre DEF Now
<1>4. /\ \A i : i = Len(made) + 1 => TakesOK(i)'
      /\ n = "close" => g \in known[q]
  <2>1. n = "close" => Takes(n, "FD")
    BY DEF Takes
  <2>2. n = "socket" => ~Takes(n, "FD")
    BY SocketUnprobed DEF Takes
  <2> QED
    BY <1>1, <1>2, <1>3, <2>1, <2>2 DEF TakesOK
<1> HIDE DEF n, g
<1>5. KernelOK'
  <2>1. table' = [p \in Processes |-> table'[p]]
        /\ \A p \in Processes : table'[p] = [f \in Numbers |-> table'[p][f]]
    BY <1>1 DEF KernelOK
  <2>2. known' \in [Processes -> SUBSET Numbers]
    BY <1>1, <1>2
  <2>3. ASSUME NEW i \in 1 .. Len(made)' PROVE TakesOK(i)'
    <3>1. i \in 1 .. Len(made) \/ i = Len(made) + 1
      BY <1>1, <1>3
    <3> QED
      BY <1>1, <1>4, <3>1, TakesStay
  <2>4. ASSUME NEW u \in Threads, InCall(u)'
        PROVE  /\ made'[call'[u]].ret \in Numbers \cup {0}
               /\ u \notin executed' => made'[call'[u]].ret = 0
    <3>1. CASE u = t
      BY <1>1, <1>3, <3>1
    <3>2. CASE CallSame(u)
      BY <1>1, <2>4, <3>2 DEF KernelOK, CallSame
    <3> QED
      BY <1>1, <3>1, <3>2 DEF Others
  <2> QED
    BY <2>1, <2>2, <2>3, <2>4 DEF KernelOK
<1>6. ASSUME NEW p \in Processes, NEW f \in Numbers
      PROVE  NumberOK(p, f)'
  <2>1. NumberOK(p, f)
    BY DEF NumbersOK
  <2>2. CASE n = "close" /\ p = q /\ f = g
    <3>1. f \in known[p] /\ f \notin known'[p] /\ table'[p][f] = table[p][f]
      BY <1>1, <1>2, <1>4, <2>2
    <3>2. \A u \in Threads : ~Uses(u, p, f)
      BY <1>1, <2>2
    <3>3. made'[call'[t]].name = "close"
      BY <1>3, <2>2 DEF n
    <3> QED
      BY <1>1, <2>1, <3>1, <3>2, <3>3, EnterClose DEF Others
  <2>3. CASE ~(n = "close" /\ p = q /\ f = g)
    <3>1. f \in known'[p] <=> f \in known[p]
      BY <1>1, <1>2, <2>3
    <3>2. ~Gets(t, p, f)'
      BY <1>1 DEF Gets
    <3>3. n # "close" => ~Closing(t, p, f)' /\ UserOK(t, p, f)'
      <4> SUFFICES ASSUME n # "close" PROVE ~Closing(t, p, f)' /\ UserOK(t, p, f)'
        OBVIOUS
      <4>1. ~Closing(t, p, f)'
        BY <1>3 DEF Closing, Closes, n
      <4>2. Uses(t, p, f)' => p = q /\ f = g
        BY <1>3 DEF Uses, g
      <4>3. f = g => f \in known[q]
        BY <1>1, <1>2
      <4> QED
        BY <1>1, <4>1, <4>2, <4>3 DEF UserOK
    <3>4. n = "close" => ~Closing(t, p, f)' /\ UserOK(t, p, f)'
      <4> SUFFICES ASSUME n = "close" PROVE ~Closing(t, p, f)' /\ UserOK(t, p, f)'
        OBVIOUS
      <4>1. made'[call'[t]].name = "close" /\ made'[call'[t]].fd = g
        BY <1>3 DEF n, g
      <4> QED
        BY <2>3, <4>1 DEF Closing, Closes, Uses, UserOK
    <3>5. \A u \in Threads :
            \/ CallSame(u)
            \/ ~Gets(u, p, f)' /\ ~Closing(u, p, f)' /\ UserOK(u, p, f)'
      BY <1>1, <3>2, <3>3, <3>4 DEF Others
    <3> QED
      BY <1>1, <2>1, <3>1, <3>5, NumberStays
  <2> QED
    BY <2>2, <2>3
<1> QED
  BY <1>5, <1>6 DEF NumbersOK

LEMMA ExecuteNumbers ==
  ASSUME CaptureInv, KernelOK, NumbersOK, NEW t \in Threads, Execute(t)
  PROVE  KernelOK' /\ NumbersOK'
<1> USE DEF CaptureInv
<1> DEFINE q == Process[t]
           c == Now(t)
<1>1. /\ CallsKept /\ Others(t) /\ Len(made)' = Len(made)
      /\ InCall(t) /\ t \notin executed /\ t \in executed'
      /\ UNCHANGED <<known, call>>
      /\ Now(t)'.name = c.name /\ Now(t)'.fd = c.fd /\ Now(t)'.path = c.path
      /\ \/ /\ c.name \in Opens \cup {"socket"}
            /\ \E f \in Numbers :
                 /\ table[q][f] = NoFile
                 /\ table' = [table EXCEPT ![q][f] =
                                IF c.name = "socket" THEN "socket" ELSE c.path]
                 /\ Now(t)'.ret = f
         \/ c.name \in Opens /\ table' = table /\ Now(t)'.ret = c.ret
         \/ /\ c.name \notin Opens \cup {"socket"} /\ Now(t)'.ret = c.ret
            /\ table' = IF c.name = "close" THEN [table EXCEPT ![q][c.fd] = NoFile] ELSE table
            /\ c.fd # 0 => Now(t)'.file = table[q][c.fd]
  BY ExecuteFacts
<1>2. /\ q \in Processes /\ known \in [Processes -> SUBSET Numbers] /\ 0 \notin Numbers
      /\ table = [p \in Processes |-> table[p]]
      /\ \A p \in Processes : table[p] = [f \in Numbers |-> table[p][f]]
  BY CaptureAssumption DEF Processes, KernelOK
<1>3. /\ c = made[call[t]] /\ Now(t)' = made'[call'[t]] /\ InCall(t)'
      /\ call[t] \in 1 .. Len(made)
  BY SMTT(30), <1>1, SizesAre DEF Now, InCall
<1>4. c.ret = 0 /\ TakesOK(call[t])
  BY <1>1, <1>3 DEF KernelOK
<1>5. /\ c.fd \in Numbers \cup {0} /\ (c.name = "close" => c.fd # 0)
      /\ (c.name = "socket" => c.fd = 0)
      /\ (c.name \in Opens => c.path \in CapturedPaths)
  BY <1>3, <1>4 DEF TakesOK
<1> DEFINE d == Now(t)'
<1>6. /\ d.name = c.name /\ d.fd = c.fd /\ d.path = c.path
      /\ d = made'[call'[t]]
  BY <1>1, <1>3
<1> HIDE DEF c, d
<1>7. KernelOK'
  <2>1. table' = [p \in Processes |-> table'[p]]
        /\ \A p \in Processes : table'[p] = [f \in Numbers |-> table'[p][f]]
    <3>1. CASE table' = table
      BY <1>2, <3>1
    <3>2. CASE \E g, v : table' = [table EXCEPT ![q][g] = v]
      BY SMTT(30), <1>2, <3>2
    <3>3. table' = table \/ \E g, v : table' = [table EXCEPT ![q][g] = v]
      <4>1. CASE \E f \in Numbers :
                   table' = [table EXCEPT ![q][f] =
                               IF c.name = "socket" THEN "socket" ELSE c.path]
        BY <4>1
      <4>2. CASE table' = [table EXCEPT ![q][c.fd] = NoFile]
        BY <4>2
      <4> QED
        BY <1>1, <4>1, <4>2
    <3> QED
      BY <3>1, <3>2, <3>3
  <2>2. ASSUME NEW i \in 1 .. Len(made)' PROVE TakesOK(i)'
    BY <1>1, TakesStay
  <2>3. d.ret \in Numbers \cup {0}
    BY <1>1, <1>4 DEF d
  <2>4. ASSUME NEW u \in Threads, InCall(u)'
        PROVE  /\ made'[call'[u]].ret \in Numbers \cup {0}
               /\ u \notin executed' => made'[call'[u]].ret = 0
    <3>1. CASE u = t
      BY <1>1, <1>6, <2>3, <3>1
    <3>2. CASE CallSame(u)
      BY SMTT(30), <1>1, <2>4, <3>2 DEF KernelOK, CallSame
    <3> QED
      BY <1>1, <3>1, <3>2 DEF Others
  <2> QED
    BY <1>1, <1>2, <2>1, <2>2, <2>4 DEF KernelOK
<1>8. ASSUME NEW p, NEW f \in Numbers
      PROVE  /\ Uses(t, p, f)' <=> Uses(t, p, f)
             /\ Uses(t, p, f) => p = q /\ f = c.fd
             /\ ~Closing(t, p, f)'
             /\ Closing(t, p, f) <=> p = q /\ f = c.fd /\ c.name = "close"
             /\ Gets(t, p, f)' => p = q /\ f = d.ret
  BY <1>1, <1>3, <1>6 DEF Uses, Closing, Closes, Gets, c
<1>9. ASSUME NEW p \in Processes, NEW f \in Numbers,
             table'[p][f] = table[p][f], d.ret # f \/ p # q,
             \/ c.name \in Opens \cup {"socket"}
             \/ c.name = "close"
             \/ c.fd # 0 => d.file = table[q][c.fd]
      PROVE  NumberOK(p, f)'
  <2>1. NumberOK(p, f)
    BY DEF NumbersOK
  <2>2. UserOK(t, p, f)'
    <3> SUFFICES ASSUME Uses(t, p, f)', made'[call'[t]].name # "close"
                 PROVE  /\ f \in known'[p]
                        /\ made'[call'[t]].name \notin Opens =>
                             made'[call'[t]].file = table'[p][f]
      BY DEF UserOK
    <3>1. p = q /\ f = c.fd /\ f # 0 /\ c.name # "close" /\ Uses(t, p, f)
      BY <1>2, <1>6, <1>8
    <3>2. f \in known[p]
      BY <1>3, <2>1, <3>1 DEF NumberOK, UserOK
    <3>3. c.name \notin Opens => d.file = table[p][f]
      BY <1>5, <1>9, <3>1
    <3> QED
      BY <1>1, <1>6, <1>9, <3>2, <3>3
  <2>3. ~Gets(t, p, f)' /\ ~Closing(t, p, f)'
    BY <1>8, <1>9
  <2>4. \A u \in Threads :
          \/ CallSame(u)
          \/ ~Gets(u, p, f)' /\ ~Closing(u, p, f)' /\ UserOK(u, p, f)'
    BY <1>1, <2>2, <2>3 DEF Others
  <2>5. f \in known'[p] <=> f \in known[p]
    BY <1>1
  <2> QED
    BY <1>9, <2>1, <2>4, <2>5, NumberStays
<1>10. ASSUME NEW g \in Numbers, c.name \in Opens \cup {"socket"}, table[q][g] = NoFile,
              table' = [table EXCEPT ![q][g] =
                          IF c.name = "socket" THEN "socket" ELSE c.path],
              d.ret = g
       PROVE  NumbersOK'
  <2> DEFINE v == IF c.name = "socket" THEN "socket" ELSE c.path
  <2>1. v # NoFile /\ (c.name \in Opens => v = c.path) /\ c.name # "close"
    BY <1>5, <1>10, PathsAssumption, OpensAndClose DEF NoFile
  <2> HIDE DEF v
  <2>2. \A p \in Processes : \A f \in Numbers :
          table'[p][f] = IF p = q /\ f = g THEN v ELSE table[p][f]
    <3>1. table' = [table EXCEPT ![q][g] = v]
      BY <1>10 DEF v
    <3> QED
      BY <1>2, <3>1
  <2>3. ASSUME NEW p \in Processes, NEW f \in Numbers PROVE NumberOK(p, f)'
    <3>1. CASE p = q /\ f = g
      <4>1. NumberOK(p, f)
        BY DEF NumbersOK
      <4>2. table[p][f] = NoFile /\ table'[p][f] = v
        BY <1>10, <2>2, <3>1
      <4>3. Uses(t, p, f)' => Uses(t, p, f)
        BY <1>8
      <4>4. made[call[t]].name # "close"
        BY <1>3, <2>1
      <4>5. made'[call'[t]].name \in Opens => table'[p][f] = made'[call'[t]].path
        BY <1>6, <2>1, <4>2
      <4>6. known' = known /\ t \in executed' /\ \A u \in Threads : u = t \/ CallSame(u)
        BY <1>1 DEF Others
      <4> QED
        BY <2>1, <4>1, <4>2, <4>3, <4>4, <4>5, <4>6, ExecuteGet
    <3>2. CASE ~(p = q /\ f = g)
      BY <1>9, <1>10, <2>2, <3>2
    <3> QED
      BY <3>1, <3>2
  <2> QED
    BY <2>3 DEF NumbersOK
<1>11. ASSUME table' = table, d.ret = c.ret,
              c.name \in Opens \cup {"socket"} \/ (c.fd # 0 => d.file = table[q][c.fd])
       PROVE  NumbersOK'
  BY <1>2, <1>4, <1>9, <1>11 DEF NumbersOK
<1>12. ASSUME c.name = "close", table' = [table EXCEPT ![q][c.fd] = NoFile],
              d.ret = c.ret
       PROVE  NumbersOK'
  <2>1. c.fd \in Numbers /\ d.ret = 0
    BY <1>4, <1>5, <1>12
  <2>2. \A p \in Processes : \A f \in Numbers :
          table'[p][f] = IF p = q /\ f = c.fd THEN NoFile ELSE table[p][f]
    BY <1>2, <1>12, <2>1
  <2>3. ASSUME NEW p \in Processes, NEW f \in Numbers PROVE NumberOK(p, f)'
    <3>1. CASE p = q /\ f = c.fd
      <4>1. NumberOK(p, f)
        BY DEF NumbersOK
      <4>2. Closing(t, p, f)
        BY <1>8, <1>12, <3>1
      <4>3. ~Gets(t, p, f)'
        BY <1>2, <1>8, <2>1
      <4>4. made'[call'[t]].name = "close"
        BY <1>6, <1>12
      <4>5. known' = known /\ t \in executed' /\ \A u \in Threads : u = t \/ CallSame(u)
        BY <1>1 DEF Others
      <4> QED
        BY <4>1, <4>2, <4>3, <4>4, <4>5, ExecuteClose
    <3>2. CASE ~(p = q /\ f = c.fd)
      BY <1>2, <1>9, <1>12, <2>1, <2>2, <3>2
    <3> QED
      BY <3>1, <3>2
  <2> QED
    BY <2>3 DEF NumbersOK
<1>13. NumbersOK'
  <2>1. CASE /\ c.name \in Opens \cup {"socket"}
             /\ \E f \in Numbers :
                  /\ table[q][f] = NoFile
                  /\ table' = [table EXCEPT ![q][f] =
                                 IF c.name = "socket" THEN "socket" ELSE c.path]
                  /\ d.ret = f
    BY <1>10, <2>1
  <2>2. CASE c.name \in Opens /\ table' = table /\ d.ret = c.ret
    BY <1>11, <2>2
  <2>3. CASE /\ c.name \notin Opens \cup {"socket"} /\ d.ret = c.ret
             /\ table' = IF c.name = "close" THEN [table EXCEPT ![q][c.fd] = NoFile] ELSE table
             /\ c.fd # 0 => d.file = table[q][c.fd]
    BY <1>11, <1>12, <2>3
  <2> QED
    BY <1>1, <2>1, <2>2, <2>3 DEF d
<1> QED
  BY <1>7, <1>13

LEMMA ReturnNumbers ==
  ASSUME CaptureInv, KernelOK, NumbersOK, NEW t \in Threads, Return(t)
  PROVE  KernelOK' /\ NumbersOK'
<1> USE DEF CaptureInv
<1> DEFINE q == Process[t]
           r == Now(t).ret
<1>1. /\ CallsKept /\ Others(t) /\ made' = made
      /\ InCall(t) /\ t \in executed /\ ~InCall(t)' /\ t \notin executed'
      /\ UNCHANGED table
      /\ known' = IF r = 0 THEN known ELSE [known EXCEPT ![q] = @ \cup {r}]
  BY ReturnFacts
<1>2. /\ q \in Processes /\ known \in [Processes -> SUBSET Numbers] /\ 0 \notin Numbers
      /\ r \in Numbers \cup {0} /\ r = made[call[t]].ret
  BY <1>1, CaptureAssumption DEF Processes, KernelOK, Now
<1> HIDE DEF r
<1>3. KernelOK'
  <2>1. table' = [p \in Processes |-> table'[p]]
        /\ \A p \in Processes : table'[p] = [f \in Numbers |-> table'[p][f]]
    BY <1>1 DEF KernelOK
  <2>2. known' \in [Processes -> SUBSET Numbers]
    BY <1>1, <1>2
  <2>3. ASSUME NEW i \in 1 .. Len(made)' PROVE TakesOK(i)'
    BY <1>1, TakesStay
  <2>4. ASSUME NEW u \in Threads, InCall(u)'
        PROVE  /\ made'[call'[u]].ret \in Numbers \cup {0}
               /\ u \notin executed' => made'[call'[u]].ret = 0
    <3>1. u # t
      BY <1>1, <2>4
    <3>2. CallSame(u)
      BY <1>1, <3>1 DEF Others
    <3> QED
      BY <2>4, <3>2 DEF KernelOK, CallSame
  <2> QED
    BY <2>1, <2>2, <2>3, <2>4 DEF KernelOK
<1>4. ASSUME NEW p \in Processes, NEW f \in Numbers PROVE NumberOK(p, f)'
  <2>1. NumberOK(p, f)
    BY DEF NumbersOK
  <2>2. CASE p = q /\ f = r
    <3>1. Gets(t, p, f)
      BY <1>1, <1>2, <2>2 DEF Gets
    <3> QED
      BY <1>1, <2>1, <3>1, ReturnGet DEF Others
  <2>3. CASE ~(p = q /\ f = r)
    <3>1. f \in known'[p] <=> f \in known[p]
      BY <1>1, <1>2, <2>3
    <3>2. ~Gets(t, p, f)' /\ ~Closing(t, p, f)' /\ UserOK(t, p, f)'
      BY <1>1 DEF Gets, Closing, Closes, Uses, UserOK
    <3>3. \A u \in Threads :
            \/ CallSame(u)
            \/ ~Gets(u, p, f)' /\ ~Closing(u, p, f)' /\ UserOK(u, p, f)'
      BY <1>1, <3>2 DEF Others
    <3> QED
      BY <1>1, <2>1, <3>1, <3>3, NumberStays
  <2> QED
    BY <2>2, <2>3
<1> QED
  BY <1>3, <1>4 DEF NumbersOK

LEMMA StillNumbers ==
  ASSUME CaptureInv, KernelOK, NumbersOK, UNCHANGED <<table, known, made, call, executed>>
  PROVE  KernelOK' /\ NumbersOK'
<1>1. \A u \in Threads : CallSame(u)
  BY DEF CallSame, InCall
<1>2. NumbersOK'
  BY <1>1, NumbersKept DEF CaptureInv
<1>3. KernelOK'
  BY DEF KernelOK, TakesOK, InCall
<1> QED
  BY <1>2, <1>3

-----------------------------------------------------------------------------
(* The lines.  What is printed says the same after every step.             *)

LEMMA LineArgs ==
  ASSUME CaptureInv, skips = 0, NEW i \in 1 .. Len(printed), NEW a \in DOMAIN printed[i].args
  PROVE  printed[i].id \in 1 .. Len(made) /\ printed[i].args[a] \in {0, printed[i].id}
<1>1. LineOK(printed[i])
  BY DEF CaptureInv, LinesOK
<1> QED
  BY <1>1 DEF LineOK, ArgOK

LEMMA FdSame ==
  ASSUME CaptureInv, CallsKept, skips = 0,
         NEW i \in 1 .. Len(printed), printed'[i] = printed[i]
  PROVE  PrintedFd(printed[i])' = PrintedFd(printed[i])
<1> DEFINE l == printed[i]
           id == l.args["FD"]
<1>1. ASSUME "FD" \in DOMAIN l.args, id # 0
      PROVE  made'[id].fd = made[id].fd
  <2>1. id \in 1 .. Len(made)
    BY <1>1, LineArgs
  <2> HIDE DEF id
  <2> QED
    BY <2>1 DEF CallsKept, CallKept
<1> QED
  BY <1>1 DEF PrintedFd

LEMMA LineSame ==
  ASSUME CaptureInv, PrintedOK, CallsKept, skips = 0,
         NEW i \in 1 .. Len(printed), printed'[i] = printed[i], NEW p, NEW f
  PROVE  /\ About(printed[i], p, f)' <=> About(printed[i], p, f)
         /\ CloseLost(printed[i], p, f)' <=> CloseLost(printed[i], p, f)
         /\ printed[i].name \in Opens /\ printed[i].args["PATH"] # 0 => PathOf(i)' = PathOf(i)
<1> DEFINE l == printed[i]
<1>1. About(printed[i], p, f)' <=> About(printed[i], p, f)
  <2>1. PrintedFd(printed[i])' = PrintedFd(printed[i])
    BY FdSame
  <2> QED
    BY <2>1 DEF About
<1>2. IsLine(l)
  BY DEF PrintedOK
<1>3. CloseLost(printed[i], p, f)' <=> CloseLost(printed[i], p, f)
  <2> SUFFICES ASSUME l.name = "close"
               PROVE  CloseLost(printed[i], p, f)' <=> CloseLost(printed[i], p, f)
    BY DEF CloseLost
  <2>1. l.id \in 1 .. Len(made)
    BY <1>2 DEF IsLine
  <2>2. made'[l.id].seen = made[l.id].seen /\ made'[l.id].fd = made[l.id].fd
    BY <2>1 DEF CallsKept, CallKept
  <2> QED
    BY <2>2 DEF CloseLost
<1>4. ASSUME l.name \in Opens, l.args["PATH"] # 0 PROVE PathOf(i)' = PathOf(i)
  <2>1. "PATH" \in DOMAIN l.args
    BY <1>2, <1>4, OpensAndClose DEF IsLine
  <2>2. l.args["PATH"] \in 1 .. Len(made)
    BY <1>4, <2>1, LineArgs
  <2>3. made'[l.args["PATH"]].path = made[l.args["PATH"]].path
    BY <2>2 DEF CallsKept, CallKept
  <2> QED
    BY <2>3 DEF PathOf
<1> QED
  BY <1>1, <1>3, <1>4

LEMMA BeforeSame ==
  ASSUME CaptureInv, PrintedOK, CallsKept, skips = 0, Len(printed) \in Nat,
         \A k \in 1 .. Len(printed) : printed'[k] = printed[k],
         NEW i \in 1 .. Len(printed) + 1, NEW p, NEW f
  PROVE  /\ \A j : LastOpen(i, j, p, f)' <=> LastOpen(i, j, p, f)
         /\ \A j : LastOpen(i, j, p, f) => PathOf(j)' = PathOf(j)
         /\ Lost(i, p, f)' <=> Lost(i, p, f)
<1>1. \A k \in 1 .. i - 1 : k \in 1 .. Len(printed)
  OBVIOUS
<1>2. ASSUME NEW k \in 1 .. i - 1
      PROVE  /\ printed'[k] = printed[k]
             /\ About(printed[k], p, f)' <=> About(printed[k], p, f)
             /\ CloseLost(printed[k], p, f)' <=> CloseLost(printed[k], p, f)
             /\ printed[k].name \in Opens /\ printed[k].args["PATH"] # 0 => PathOf(k)' = PathOf(k)
  <2>1. k \in 1 .. Len(printed)
    BY <1>1
  <2> QED
    BY <2>1, LineSame
<1>3. Lost(i, p, f)' <=> Lost(i, p, f)
  BY <1>2 DEF Lost
<1>4. ASSUME NEW j, LastOpen(i, j, p, f) \/ LastOpen(i, j, p, f)'
      PROVE  (LastOpen(i, j, p, f)' <=> LastOpen(i, j, p, f)) /\ PathOf(j)' = PathOf(j)
  <2>1. j \in 1 .. i - 1 /\ \A k \in j + 1 .. i - 1 : k \in 1 .. i - 1
    BY <1>4 DEF LastOpen
  <2>2. LastOpen(i, j, p, f)' <=> LastOpen(i, j, p, f)
    BY <1>2, <2>1 DEF LastOpen
  <2>3. printed[j].name \in Opens /\ printed[j].args["PATH"] # 0
    BY <1>4, <2>2 DEF LastOpen
  <2> QED
    BY <1>2, <2>1, <2>2, <2>3
<1> QED
  BY <1>3, <1>4

-----------------------------------------------------------------------------
(* A step that prints nothing.  A number that the lines say is open stays  *)
(* so unless its close begins, and that is seen; nothing of a captured     *)
(* process returns.                                                        *)

LEMMA LineStaysLine ==
  ASSUME PrintedOK, CallsKept, armed => armed',
         NEW i \in 1 .. Len(printed), printed'[i] = printed[i]
  PROVE  IsLine(printed[i])'
<1> DEFINE l == printed[i]
<1>1. IsLine(l)
  BY DEF PrintedOK
<1>2. ASSUME l.id \in 1 .. Len(made), \A u \in Threads : call[u] # l.id
      PROVE  l.id \in 1 .. Len(made)' /\ \A u \in Threads : call'[u] # l.id
  BY SMTT(30), <1>2 DEF CallsKept, CallKept, Over
<1> QED
  BY <1>1, <1>2 DEF IsLine

(* A close of f goes on.                                                   *)
ClosesOn(p, f) ==
  \A u \in Threads : Closes(u, p, f) =>
    Closes(u, p, f)' /\ (made[call[u]].seen => made'[call'[u]].seen)
(* f stays open, or its close begins, and is seen.                         *)
StaysOpen(p, f) ==
  f \in known[p] =>
    \/ f \in known'[p] /\ table'[p][f] = table[p][f]
    \/ \E u \in Threads : Closes(u, p, f)' /\ made'[call'[u]].seen

LEMMA QuietStep ==
  ASSUME CaptureInv, PrintedOK, BeliefsOK, RightOK, CallsKept, printed' = printed,
         armed => armed', skips' = 0 => skips = 0,
         \A p \in Processes \cap Wanted : \A f \in Numbers :
           skips' = 0 /\ armed => ClosesOn(p, f) /\ StaysOpen(p, f)
  PROVE  PrintedOK' /\ BeliefsOK' /\ RightOK'
<1>1. Len(printed) \in Nat /\ \A k \in 1 .. Len(printed) : printed'[k] = printed[k]
  BY SeqIs DEF CaptureInv, ThreadsOK, IsSeq
<1>a. ASSUME skips = 0, NEW i \in 1 .. Len(printed) + 1, NEW p, NEW f, NEW j, LastOpen(i, j, p, f)'
      PROVE  LastOpen(i, j, p, f) /\ PathOf(j)' = PathOf(j) /\ (Lost(i, p, f)' <=> Lost(i, p, f))
  BY <1>1, <1>a, BeforeSame
<1>2. PrintedOK'
  BY LineStaysLine DEF PrintedOK
<1>3. BeliefsOK'
  <2> SUFFICES ASSUME skips' = 0, NEW i, i = Len(printed) + 1,
                      NEW p \in Processes, NEW f \in Numbers, NEW j \in 1 .. i - 1,
                      LastOpen(i, j, p, f)'
               PROVE  \/ Lost(i, p, f)'
                      \/ \E t \in Threads : Closes(t, p, f)' /\ made'[call'[t]].seen
                      \/ f \in known'[p] /\ table'[p][f] = PathOf(j)'
    BY DEF BeliefsOK, BelievedOK
  <2>1. skips = 0 /\ i \in 1 .. Len(printed) + 1
    BY <1>1
  <2>2. LastOpen(i, j, p, f) /\ PathOf(j)' = PathOf(j) /\ (Lost(i, p, f)' <=> Lost(i, p, f))
    BY <1>a, <2>1
  <2>3. j \in 1 .. Len(printed) /\ IsLine(printed[j]) /\ printed[j].pid = p
    BY <1>1, <2>2 DEF PrintedOK, LastOpen, About
  <2>4. armed /\ p \in Processes \cap Wanted
    BY <2>3 DEF IsLine
  <2>5. ClosesOn(p, f) /\ StaysOpen(p, f)
    BY <2>4
  <2>6. \/ Lost(i, p, f)
        \/ \E t \in Threads : Closes(t, p, f) /\ made[call[t]].seen
        \/ f \in known[p] /\ table[p][f] = PathOf(j)
    BY <2>1, <2>2 DEF BeliefsOK, BelievedOK
  <2> QED
    BY <2>2, <2>5, <2>6 DEF ClosesOn, StaysOpen
<1>4. RightOK'
  <2> SUFFICES ASSUME skips' = 0, NEW i, i = Len(printed), i # 0,
                      NEW p \in Processes, NEW f \in Numbers, NEW j \in 1 .. i - 1,
                      printed'[i].name \notin Opens \cup {"close"},
                      printed'[i].pid = p, PrintedFd(printed[i])' = f,
                      LastOpen(i, j, p, f)'
               PROVE  \/ Lost(i, p, f)'
                      \/ \E t \in Threads : Closes(t, p, f)'
                      \/ made'[printed'[i].id].file = PathOf(j)'
    BY DEF RightOK, RightAt
  <2>1. skips = 0 /\ i \in 1 .. Len(printed) /\ i \in 1 .. Len(printed) + 1
    BY <1>1
  <2>2. LastOpen(i, j, p, f) /\ PathOf(j)' = PathOf(j) /\ (Lost(i, p, f)' <=> Lost(i, p, f))
    BY <1>a, <2>1
  <2>3. PrintedFd(printed[i]) = f /\ printed'[i] = printed[i]
    BY <1>1, <2>1, FdSame
  <2>4. IsLine(printed[i])
    BY <2>1 DEF PrintedOK
  <2>5. armed /\ p \in Processes \cap Wanted
    BY <2>3, <2>4 DEF IsLine
  <2>6. ClosesOn(p, f)
    BY <2>5
  <2>7. \/ Lost(i, p, f)
        \/ \E t \in Threads : Closes(t, p, f)
        \/ made[printed[i].id].file = PathOf(j)
    BY <2>1, <2>2, <2>3 DEF RightOK, RightAt
  <2>8. made'[printed[i].id].file = made[printed[i].id].file
    <3>1. printed[i].args # << >>
      BY <2>3, CaptureAssumption DEF PrintedFd
    <3>2. printed[i].id \in 1 .. Len(made) /\ Over(printed[i].id)
      BY <2>4, <3>1 DEF IsLine, Over
    <3> QED
      BY <3>2 DEF CallsKept, CallKept
  <2> QED
    BY <2>2, <2>3, <2>6, <2>7, <2>8 DEF ClosesOn
<1> QED
  BY <1>2, <1>3, <1>4

-----------------------------------------------------------------------------
(* A step that prints line l.  What it does to a number that others close, *)
(* or that the lines say is open; what it says itself; and what it used.   *)

LineKeeps(l, p, f) ==
  ~About(l, p, f)' =>
    /\ \A u \in Threads : Closes(u, p, f) /\ made[call[u]].seen =>
         CloseLost(l, p, f)' \/ (Closes(u, p, f)' /\ made'[call'[u]].seen)
    /\ f \in known[p] => f \in known'[p] /\ table'[p][f] = table[p][f]
LineOpens(l, p, f) ==
  About(l, p, f)' /\ l.name \in Opens /\ l.args["PATH"] # 0 =>
    f \in known'[p] /\ table'[p][f] = made'[l.args["PATH"]].path
LineUses(l, p, f) ==
  l.name \notin Opens \cup {"close"} /\ l.pid = p /\ PrintedFd(l)' = f =>
    /\ \A u \in Threads : Closes(u, p, f) => Closes(u, p, f)'
    /\ f \in known[p] => made'[l.id].file = table[p][f]

LEMMA PrintStep ==
  ASSUME CaptureInv, PrintedOK, BeliefsOK, CallsKept, NEW l, printed' = Append(printed, l),
         armed => armed', skips' = 0 => skips = 0, IsLine(l)',
         \A p \in Processes : \A f \in Numbers :
           skips' = 0 => LineKeeps(l, p, f) /\ LineOpens(l, p, f) /\ LineUses(l, p, f)
  PROVE  PrintedOK' /\ BeliefsOK' /\ RightOK'
<1>1. IsAppend(printed', printed, l)
  BY AppendIs DEF CaptureInv, ThreadsOK
<1>2. /\ Len(printed) \in Nat /\ Len(printed)' = Len(printed) + 1
      /\ \A k \in 1 .. Len(printed) : printed'[k] = printed[k]
      /\ \A k : k = Len(printed) + 1 => printed'[k] = l
  BY <1>1 DEF IsAppend
<1>a. ASSUME skips = 0, NEW i, i = Len(printed) + 1, NEW p, NEW f
      PROVE  /\ \A j : LastOpen(i, j, p, f)' =>
                         LastOpen(i, j, p, f) /\ PathOf(j)' = PathOf(j)
             /\ Lost(i, p, f)' <=> Lost(i, p, f)
  <2>1. i \in 1 .. Len(printed) + 1
    BY <1>2, <1>a
  <2> QED
    BY <1>2, <1>a, <2>1, BeforeSame
<1>3. PrintedOK'
  <2>1. ASSUME NEW k \in 1 .. Len(printed)' PROVE IsLine(printed[k])'
    <3>1. CASE k \in 1 .. Len(printed)
      BY <1>2, <3>1, LineStaysLine
    <3>2. CASE k = Len(printed) + 1
      <4>1. printed'[k] = l
        BY <1>2, <3>2
      <4> QED
        BY <4>1 DEF IsLine
    <3> QED
      BY <1>2, <3>1, <3>2
  <2> QED
    BY <2>1 DEF PrintedOK
<1>4. BeliefsOK'
  <2> SUFFICES ASSUME skips' = 0, NEW i, i = Len(printed)' + 1,
                      NEW p \in Processes, NEW f \in Numbers, NEW j \in 1 .. i - 1,
                      LastOpen(i, j, p, f)'
               PROVE  \/ Lost(i, p, f)'
                      \/ \E t \in Threads : Closes(t, p, f)' /\ made'[call'[t]].seen
                      \/ f \in known'[p] /\ table'[p][f] = PathOf(j)'
    BY DEF BeliefsOK, BelievedOK
  <2>1. PICK n : n = Len(printed) + 1
    OBVIOUS
  <2>2. n \in Nat /\ i = n + 1 /\ printed'[n] = l /\ n \in 1 .. i - 1
    BY <1>2, <2>1
  <2>3. skips = 0 /\ LineKeeps(l, p, f) /\ LineOpens(l, p, f)
    OBVIOUS
  <2>4. CASE j = n
    <3>1. l.name \in Opens /\ l.args["PATH"] # 0 /\ About(l, p, f)'
      BY <2>2, <2>4 DEF LastOpen, About, PrintedFd
    <3>2. PathOf(j)' = made'[l.args["PATH"]].path
      BY <2>2, <2>4 DEF PathOf
    <3> QED
      BY <2>3, <3>1, <3>2 DEF LineOpens
  <2>5. CASE j # n
    <3>1. j \in 1 .. n - 1 /\ n \in j + 1 .. i - 1 /\ \A k \in j + 1 .. n - 1 : k \in j + 1 .. i - 1
      BY <2>2, <2>5
    <3>2. LastOpen(n, j, p, f)' /\ ~About(l, p, f)'
      <4>1. ~About(printed[n], p, f)'
        BY <3>1 DEF LastOpen
      <4>2. ~About(l, p, f)'
        BY <2>2, <4>1 DEF About, PrintedFd
      <4> QED
        BY <3>1, <4>2 DEF LastOpen
    <3>3. LastOpen(n, j, p, f) /\ PathOf(j)' = PathOf(j) /\ (Lost(n, p, f)' <=> Lost(n, p, f))
      BY <1>a, <2>1, <2>3, <3>2
    <3>4. \/ Lost(n, p, f)
          \/ \E t \in Threads : Closes(t, p, f) /\ made[call[t]].seen
          \/ f \in known[p] /\ table[p][f] = PathOf(j)
      BY <2>1, <2>3, <3>1, <3>3 DEF BeliefsOK, BelievedOK
    <3>5. Lost(n, p, f)' \/ CloseLost(l, p, f)' => Lost(i, p, f)'
      <4>1. \A k \in 1 .. n - 1 : k \in 1 .. i - 1
        BY <2>2
      <4>2. CloseLost(l, p, f)' => CloseLost(printed[n], p, f)'
        BY <2>2 DEF CloseLost
      <4> QED
        BY <2>2, <4>1, <4>2 DEF Lost
    <3> QED
      BY <2>3, <3>2, <3>3, <3>4, <3>5 DEF LineKeeps
  <2> QED
    BY <2>4, <2>5
<1>5. RightOK'
  <2> SUFFICES ASSUME skips' = 0, NEW i, i = Len(printed)',
                      NEW p \in Processes, NEW f \in Numbers, NEW j \in 1 .. i - 1,
                      printed'[i].name \notin Opens \cup {"close"},
                      printed'[i].pid = p, PrintedFd(printed[i])' = f,
                      LastOpen(i, j, p, f)'
               PROVE  \/ Lost(i, p, f)'
                      \/ \E t \in Threads : Closes(t, p, f)'
                      \/ made'[printed'[i].id].file = PathOf(j)'
    BY DEF RightOK, RightAt
  <2>1. i = Len(printed) + 1 /\ printed'[i] = l /\ skips = 0
    BY <1>2
  <2>2. LastOpen(i, j, p, f) /\ PathOf(j)' = PathOf(j) /\ (Lost(i, p, f)' <=> Lost(i, p, f))
    BY <1>a, <2>1
  <2>3. PrintedFd(l)' = f
    BY <2>1 DEF PrintedFd
  <2>4. LineUses(l, p, f)
    OBVIOUS
  <2>5. \/ Lost(i, p, f)
        \/ \E t \in Threads : Closes(t, p, f)
        \/ f \in known[p] /\ table[p][f] = PathOf(j)
    BY <2>1, <2>2 DEF BeliefsOK, BelievedOK
  <2> QED
    BY <2>1, <2>2, <2>3, <2>4, <2>5 DEF LineUses
<1> QED
  BY <1>3, <1>4, <1>5

LEMMA EnterLines ==
  ASSUME CaptureInv, DescriptorInv, NEW t \in Threads, Enter(t)
  PROVE  PrintedOK' /\ BeliefsOK' /\ RightOK'
<1> USE DEF CaptureInv, DescriptorInv
<1> DEFINE q == Process[t]
           n == Now(t)'.name
           g == Now(t)'.fd
<1>1. /\ CallsKept /\ Others(t) /\ ~InCall(t) /\ InCall(t)'
      /\ UNCHANGED <<table, armed, printed>> /\ (skips' = 0 => skips = 0)
      /\ n = "close" =>
           /\ known' = [known EXCEPT ![q] = @ \ {g}]
           /\ skips' = 0 /\ armed /\ q \in Wanted => Now(t)'.seen
      /\ n # "close" => known' = known
  BY EnterFacts
<1>2. Now(t)' = made'[call'[t]] /\ q \in Processes /\ known \in [Processes -> SUBSET Numbers]
  BY DEF Now, Processes, KernelOK
<1>3. ASSUME NEW p \in Processes \cap Wanted, NEW f \in Numbers, skips' = 0, armed
      PROVE  ClosesOn(p, f) /\ StaysOpen(p, f)
  <2>1. ASSUME NEW u \in Threads, Closes(u, p, f)
        PROVE  Closes(u, p, f)' /\ (made[call[u]].seen => made'[call'[u]].seen)
    <3>1. InCall(u) /\ CallSame(u)
      BY <1>1, <2>1 DEF Closes, Uses, Others
    <3> QED
      BY <2>1, <3>1 DEF Closes, Uses, CallSame
  <2>2. CASE n = "close" /\ p = q /\ f = g
    <3>1. made'[call'[t]].name = "close" /\ made'[call'[t]].fd = f /\ made'[call'[t]].seen
      BY <1>1, <1>2, <1>3, <2>2
    <3>2. Closes(t, p, f)'
      BY <1>1, <2>2, <3>1 DEF Closes, Uses
    <3> QED
      BY <2>1, <3>1, <3>2 DEF ClosesOn, StaysOpen
  <2>3. CASE ~(n = "close" /\ p = q /\ f = g)
    <3>1. f \in known[p] => f \in known'[p]
      BY <1>1, <1>2, <2>3
    <3> QED
      BY <1>1, <2>1, <3>1 DEF ClosesOn, StaysOpen
  <2> QED
    BY <2>2, <2>3
<1> QED
  BY <1>1, <1>3, QuietStep

LEMMA ExecuteLines ==
  ASSUME CaptureInv, DescriptorInv, NEW t \in Threads, Execute(t)
  PROVE  PrintedOK' /\ BeliefsOK' /\ RightOK'
<1> USE DEF CaptureInv, DescriptorInv
<1> DEFINE q == Process[t]
           c == Now(t)
<1>1. /\ CallsKept /\ Others(t) /\ InCall(t) /\ t \notin executed
      /\ UNCHANGED <<known, call, armed, printed, skips>>
      /\ \/ \E g \in Numbers : \E v :
              table[q][g] = NoFile /\ table' = [table EXCEPT ![q][g] = v]
         \/ table' = table
         \/ c.name = "close" /\ table' = [table EXCEPT ![q][c.fd] = NoFile]
  <2>1. ASSUME NEW g \in Numbers, table[q][g] = NoFile,
               table' = [table EXCEPT ![q][g] =
                           IF c.name = "socket" THEN "socket" ELSE c.path]
        PROVE  \E v : table[q][g] = NoFile /\ table' = [table EXCEPT ![q][g] = v]
    BY <2>1
  <2>2. \/ \E g \in Numbers :
             /\ table[q][g] = NoFile
             /\ table' = [table EXCEPT ![q][g] =
                            IF c.name = "socket" THEN "socket" ELSE c.path]
        \/ table' = table
        \/ c.name = "close" /\ table' = [table EXCEPT ![q][c.fd] = NoFile]
    BY ExecuteFacts
  <2>3. /\ CallsKept /\ Others(t) /\ InCall(t) /\ t \notin executed
        /\ UNCHANGED <<known, call, armed, printed, skips>>
    BY ExecuteFacts
  <2> QED
    BY <2>1, <2>2, <2>3
<1>2. /\ c = made[call[t]] /\ q \in Processes
      /\ \A u \in Threads : InCall(u) => call[u] \in 1 .. Len(made)
      /\ \A p \in Processes : table[p] = [f \in Numbers |-> table[p][f]]
      /\ table = [p \in Processes |-> table[p]]
  BY SizesAre DEF Now, Processes, KernelOK
<1> HIDE DEF c
<1>3. ASSUME NEW p \in Processes \cap Wanted, NEW f \in Numbers, skips' = 0, armed
      PROVE  ClosesOn(p, f) /\ StaysOpen(p, f)
  <2>1. ASSUME NEW u \in Threads, Closes(u, p, f)
        PROVE  Closes(u, p, f)' /\ (made[call[u]].seen => made'[call'[u]].seen)
    <3>1. InCall(u) /\ call[u] \in 1 .. Len(made)
      BY <1>2, <2>1 DEF Closes, Uses
    <3>2. CallKept(call[u]) /\ call'[u] = call[u]
      BY <1>1, <3>1 DEF CallsKept
    <3>3. /\ made'[call[u]].name = made[call[u]].name /\ made'[call[u]].fd = made[call[u]].fd
          /\ made'[call[u]].seen = made[call[u]].seen
      BY <3>2 DEF CallKept
    <3> QED
      BY <2>1, <3>2, <3>3 DEF Closes, Uses, InCall
  <2>2. ASSUME f \in known[p] PROVE table'[p][f] = table[p][f]
    <3>1. table[p][f] # NoFile /\ ~Closing(t, p, f)
      BY <2>2 DEF NumbersOK, NumberOK, KnownOK
    <3>2. p = q /\ f = c.fd => c.name # "close"
      BY <1>1, <1>2, <3>1 DEF Closing, Closes, Uses
    <3>3. ASSUME NEW g \in Numbers, NEW v, table[q][g] = NoFile,
                 table' = [table EXCEPT ![q][g] = v]
          PROVE  table'[p][f] = table[p][f]
      BY <1>2, <3>1, <3>3
    <3>4. ASSUME c.name = "close", table' = [table EXCEPT ![q][c.fd] = NoFile]
          PROVE  table'[p][f] = table[p][f]
      BY <1>2, <3>2, <3>4
    <3> QED
      BY <1>1, <3>3, <3>4
  <2> QED
    BY <1>1, <2>1, <2>2 DEF ClosesOn, StaysOpen
<1> QED
  BY <1>1, <1>3, QuietStep

LEMMA ReturnLines ==
  ASSUME CaptureInv, DescriptorInv, NEW t \in Threads, Return(t)
  PROVE  PrintedOK' /\ BeliefsOK' /\ RightOK'
<1> USE DEF CaptureInv, DescriptorInv
<1> DEFINE q == Process[t]
           k == call[t]
           c == Now(t)
           args == [a \in Saved[c.name] |-> Find(entries[a], Key(t, c.name))]
           line == [pid |-> q, name |-> c.name, id |-> k, ret |-> c.ret, args |-> args]
<1>1. /\ CallsKept /\ Others(t) /\ made' = made
      /\ InCall(t) /\ t \in executed /\ ~InCall(t)'
      /\ \A id : id = k => Over(id)'
      /\ UNCHANGED <<table, armed>> /\ (skips' = 0 => skips = 0)
      /\ known' = IF c.ret = 0 THEN known ELSE [known EXCEPT ![q] = @ \cup {c.ret}]
  BY ReturnFacts
<1>2. PICK skip \in {0, 1} :
        LET probed == armed /\ q \in Wanted /\ c.name \in Probed /\ skip = 0 IN
        /\ skips' = skips + skip
        /\ IF ~probed THEN UNCHANGED printed
           ELSE printed' = Append(printed, line)
  BY DEF Return, Now
<1>3. /\ c = made[k] /\ q \in Processes /\ k \in 1 .. Len(made)
      /\ known \in [Processes -> SUBSET Numbers] /\ 0 \notin Numbers
      /\ CallOK(c)
  BY <1>1, SizesAre, CaptureAssumption DEF Now, Processes, KernelOK, MadeOK
<1>4. skips' = 0 => skip = 0
  BY <1>2, SizesAre
<1>5. \A p \in Processes : \A f \in Numbers : f \in known[p] => f \in known'[p]
  BY <1>1, <1>3
<1>6. ASSUME NEW u \in Threads, NEW p, NEW f, Closes(u, p, f), u # t
      PROVE  Closes(u, p, f)' /\ (made[call[u]].seen => made'[call'[u]].seen)
  <2>1. InCall(u) /\ CallSame(u)
    BY <1>1, <1>6 DEF Closes, Uses, Others
  <2> QED
    BY <1>6, <2>1 DEF Closes, Uses, CallSame
<1>7. CASE ~(armed /\ q \in Wanted /\ c.name \in Probed /\ skip = 0)
  <2>1. printed' = printed
    BY <1>2, <1>7
  <2>2. ASSUME NEW p \in Processes \cap Wanted, NEW f \in Numbers, skips' = 0, armed
        PROVE  ClosesOn(p, f) /\ StaysOpen(p, f)
    <3>1. ~Closes(t, p, f)
      BY <1>3, <1>4, <1>7, <2>2, OpensAndClose DEF Closes, Uses
    <3> QED
      BY <1>1, <1>5, <1>6, <3>1 DEF ClosesOn, StaysOpen
  <2> QED
    BY <1>1, <2>1, <2>2, QuietStep
<1>8. CASE armed /\ q \in Wanted /\ c.name \in Probed /\ skip = 0
  <2>1. printed' = Append(printed, line)
    BY <1>2, <1>8
  <2>2. PICK l : l = line
    OBVIOUS
  <2>3. /\ l.pid = q /\ l.name = c.name /\ l.id = k /\ l.ret = c.ret
        /\ l.args = args /\ DOMAIN l.args = Saved[c.name]
    BY <2>2
  <2> HIDE DEF c, args, line
  <2>4. IsLine(l)'
    BY <1>1, <1>3, <1>8, <2>3 DEF IsLine, Over
  <2>5. ASSUME skips' = 0, NEW a \in DOMAIN l.args PROVE l.args[a] \in {0, k}
    <3>1. a \in Arrays /\ a \in Saved[l.name] /\ l.args[a] = Find(entries[a], Key(t, l.name))
      BY <1>8, <2>3, <2>5 DEF args, Arrays
    <3>2. ArgOK(l, a)
      BY <1>1, <1>3, <2>3, <2>5, <3>1, ReturnArg DEF InCall, c, Now
    <3> QED
      BY <1>1, <2>3, <2>5, <3>2 DEF ArgOK
  <2>6. ASSUME NEW p \in Processes, NEW f \in Numbers, skips' = 0
        PROVE  LineKeeps(l, p, f) /\ LineOpens(l, p, f) /\ LineUses(l, p, f)
    <3>1. NumberOK(p, f)
      BY DEF NumbersOK
    <3>2. LineKeeps(l, p, f)
      <4> SUFFICES ASSUME ~About(l, p, f)',
                          NEW u \in Threads, Closes(u, p, f), made[call[u]].seen
                   PROVE  CloseLost(l, p, f)' \/ (Closes(u, p, f)' /\ made'[call'[u]].seen)
        BY <1>1, <1>5 DEF LineKeeps
      <4>1. CASE u # t
        BY <1>6, <4>1
      <4>2. CASE u = t
        <5>1. l.name = "close" /\ l.pid = p /\ made'[k].fd = f /\ made'[k].seen
          BY <1>1, <1>3, <2>3, <4>2 DEF Closes, Uses
        <5>2. "FD" \in DOMAIN l.args
          BY <2>3, <5>1, OpensAndClose
        <5>3. l.args["FD"] # k
          <6> SUFFICES ASSUME l.args["FD"] = k PROVE FALSE
            OBVIOUS
          <6>1. k # 0 /\ PrintedFd(l)' = made'[k].fd
            BY <1>3, <5>1, <5>2, OpensAndClose DEF PrintedFd
          <6> QED
            BY <5>1, <6>1 DEF About
        <5>4. l.args["FD"] = 0
          BY <2>5, <2>6, <5>2, <5>3
        <5> QED
          BY <2>3, <5>1, <5>4 DEF CloseLost
      <4> QED
        BY <4>1, <4>2
    <3>3. LineOpens(l, p, f)
      <4> SUFFICES ASSUME About(l, p, f)', l.name \in Opens, l.args["PATH"] # 0
                   PROVE  f \in known'[p] /\ table'[p][f] = made'[l.args["PATH"]].path
        BY DEF LineOpens
      <4>1. p = q /\ f = c.ret
        BY <2>3, OpensAndClose DEF About, PrintedFd
      <4>2. l.args["PATH"] = k
        BY <1>8, <2>3, <2>5, <2>6, OpensAndClose
      <4>3. Gets(t, p, f)
        BY <1>1, <1>3, <4>1 DEF Gets
      <4>4. table[p][f] = c.path
        BY <1>3, <2>3, <3>1, <4>3 DEF NumberOK, GetterOK
      <4>5. f \in known'[p]
        BY <1>1, <1>3, <4>1
      <4> QED
        BY <1>1, <1>3, <4>2, <4>4, <4>5
    <3>4. LineUses(l, p, f)
      <4> SUFFICES ASSUME l.name \notin Opens \cup {"close"}, l.pid = p, PrintedFd(l)' = f
                   PROVE  /\ \A u \in Threads : Closes(u, p, f) => Closes(u, p, f)'
                          /\ made'[l.id].file = table[p][f]
        BY DEF LineUses
      <4>1. ~Closes(t, p, f)
        BY <1>3, <2>3 DEF Closes
      <4>2. "FD" \in DOMAIN l.args /\ l.args["FD"] # 0 /\ f = made'[l.args["FD"]].fd
        BY <1>3 DEF PrintedFd
      <4>3. l.args["FD"] = k
        BY <2>5, <2>6, <4>2
      <4>4. Uses(t, p, f)
        BY <1>1, <1>3, <2>3, <4>2, <4>3 DEF Uses
      <4>5. c.file = table[p][f]
        BY <1>1, <1>3, <2>3, <3>1, <4>4 DEF NumberOK, UserOK
      <4> QED
        BY <1>1, <1>3, <1>6, <2>3, <4>1, <4>5
    <3> QED
      BY <3>2, <3>3, <3>4
  <2> QED
    BY <1>1, <2>1, <2>2, <2>4, <2>6, PrintStep
<1> QED
  BY <1>7, <1>8

(* The calls and the numbers stay as they are.                             *)
LEMMA StillFacts ==
  ASSUME CaptureInv, UNCHANGED <<table, known, made, call, executed>>
  PROVE  /\ CallsKept
         /\ \A p, f : ClosesOn(p, f) /\ StaysOpen(p, f)
<1>1. Len(made) \in Nat
  BY SizesAre DEF CaptureInv
<1>2. \A i \in 1 .. Len(made) : CallKept(i)
  BY DEF CallKept, Over
<1>3. \A u \in Threads : \A p, f : Closes(u, p, f) => Closes(u, p, f)'
  BY DEF Closes, Uses, InCall
<1> QED
  BY <1>1, <1>2, <1>3 DEF CallsKept, ClosesOn, StaysOpen

LEMMA BeginDescriptors ==
  ASSUME CaptureInv, DescriptorInv, Begin
  PROVE  DescriptorInv'
<1>1. UNCHANGED <<table, known, made, call, executed, printed, skips>> /\ armed'
  BY DEF Begin, kernel
<1>2. KernelOK' /\ NumbersOK'
  BY <1>1, StillNumbers DEF DescriptorInv
<1>3. CallsKept /\ \A p, f : ClosesOn(p, f) /\ StaysOpen(p, f)
  BY <1>1, StillFacts
<1>4. PrintedOK' /\ BeliefsOK' /\ RightOK'
  BY <1>1, <1>3, QuietStep DEF DescriptorInv
<1> QED
  BY <1>2, <1>4 DEF DescriptorInv

LEMMA ExitGroupDescriptors ==
  ASSUME CaptureInv, DescriptorInv, NEW t \in Threads, ExitGroup(t)
  PROVE  DescriptorInv'
<1> USE DEF DescriptorInv
<1> DEFINE q == Process[t]
           line == [pid |-> q, name |-> "exit_group", id |-> 0, ret |-> 0, args |-> <<>>]
<1>1. PICK skip \in {0, 1} :
        /\ skips' = skips + skip
        /\ printed' = IF armed /\ q \in Wanted /\ skip = 0 THEN Append(printed, line)
                      ELSE printed
  BY DEF ExitGroup
<1>2. UNCHANGED <<table, known, made, call, executed, armed>>
  BY DEF ExitGroup
<1>3. KernelOK' /\ NumbersOK'
  BY <1>2, StillNumbers
<1>4. CallsKept /\ \A p, f : ClosesOn(p, f) /\ StaysOpen(p, f)
  BY <1>2, StillFacts
<1>5. skips' = 0 => skips = 0
  BY <1>1, SizesAre DEF CaptureInv
<1>6. CASE ~(armed /\ q \in Wanted /\ skip = 0)
  <2>1. printed' = printed
    BY <1>1, <1>6
  <2>2. PrintedOK' /\ BeliefsOK' /\ RightOK'
    BY <1>2, <1>4, <1>5, <2>1, QuietStep
  <2> QED
    BY <1>3, <2>2
<1>7. CASE armed /\ q \in Wanted /\ skip = 0
  <2>1. PICK l : l = line /\ printed' = Append(printed, l)
    BY <1>1, <1>7
  <2>2. l.pid = q /\ l.name = "exit_group" /\ l.args = << >>
    BY <2>1
  <2>3. q \in Processes
    BY DEF Processes
  <2> HIDE DEF line
  <2>4. IsLine(l)'
    BY <1>2, <1>7, <2>2, <2>3 DEF IsLine
  <2>5. PrintedFd(l)' = 0
    BY <2>2, OpensAndClose DEF PrintedFd
  <2>6. ASSUME NEW p \in Processes, NEW f \in Numbers
        PROVE  LineKeeps(l, p, f) /\ LineOpens(l, p, f) /\ LineUses(l, p, f)
    <3>1. LineKeeps(l, p, f)
      BY <1>2, <1>4 DEF LineKeeps, ClosesOn
    <3>2. LineOpens(l, p, f)
      BY <2>2, OpensAndClose DEF LineOpens
    <3>3. LineUses(l, p, f)
      BY <2>5, CaptureAssumption DEF LineUses
    <3> QED
      BY <3>1, <3>2, <3>3
  <2>7. PrintedOK' /\ BeliefsOK' /\ RightOK'
    BY <1>2, <1>4, <1>5, <2>1, <2>4, <2>6, PrintStep
  <2> QED
    BY <1>3, <2>7
<1> QED
  BY <1>6, <1>7

LEMMA DescriptorInvInit == Init => DescriptorInv
<1> SUFFICES ASSUME CaptureInit PROVE DescriptorInv
  BY DEF Init
<1>1. Len(<< >>) = 0
  OBVIOUS
<1>2. /\ table = [p \in Processes |-> table[p]]
      /\ \A p \in Processes : table[p] = [f \in Numbers |-> table[p][f]]
  BY DEF CaptureInit
<1>3. /\ known = [p \in Processes |-> {f \in Numbers : table[p][f] # NoFile}]
      /\ made = << >> /\ printed = << >> /\ executed = {}
      /\ \A t \in Threads : ~InCall(t)
  BY DEF CaptureInit, InCall
<1>4. KernelOK
  BY <1>1, <1>2, <1>3 DEF KernelOK
<1>5. NumbersOK
  <2> SUFFICES ASSUME NEW p \in Processes, NEW f \in Numbers PROVE NumberOK(p, f)
    BY DEF NumbersOK
  <2>1. \A t \in Threads : ~Uses(t, p, f) /\ ~Closing(t, p, f) /\ ~Gets(t, p, f)
    BY <1>3 DEF Uses, Closing, Closes, Gets
  <2> QED
    BY <1>3, <2>1 DEF NumberOK, KnownOK, UserOK, GetterOK, CloserOK
<1>6. PrintedOK /\ BeliefsOK /\ RightOK
  BY <1>1, <1>3 DEF PrintedOK, BeliefsOK, BelievedOK, RightOK
<1> QED
  BY <1>4, <1>5, <1>6 DEF DescriptorInv

LEMMA DescriptorInvNext == CaptureInv /\ DescriptorInv /\ [Next]_vars => DescriptorInv'
<1> SUFFICES ASSUME CaptureInv, DescriptorInv, [Next]_vars PROVE DescriptorInv'
  OBVIOUS
<1>1. ASSUME NEW t \in Threads, Enter(t) \/ Execute(t) \/ Return(t)
      PROVE  DescriptorInv'
  <2>1. KernelOK' /\ NumbersOK'
    BY <1>1, EnterNumbers, ExecuteNumbers, ReturnNumbers DEF DescriptorInv
  <2>2. PrintedOK' /\ BeliefsOK' /\ RightOK'
    BY <1>1, EnterLines, ExecuteLines, ReturnLines
  <2> QED
    BY <2>1, <2>2 DEF DescriptorInv
<1>2. CASE CaptureNext
  BY <1>1, <1>2, BeginDescriptors, ExitGroupDescriptors DEF CaptureNext
<1>3. CASE UNCHANGED cvars
  <2>1. UNCHANGED <<table, known, made, call, executed, printed, skips, armed>>
    BY <1>3 DEF cvars, kernel
  <2>2. KernelOK' /\ NumbersOK'
    BY <2>1, StillNumbers DEF DescriptorInv
  <2>3. CallsKept /\ \A p, f : ClosesOn(p, f) /\ StaysOpen(p, f)
    BY <2>1, StillFacts
  <2>4. PrintedOK' /\ BeliefsOK' /\ RightOK'
    BY <2>1, <2>3, QuietStep DEF DescriptorInv
  <2> QED
    BY <2>2, <2>4 DEF DescriptorInv
<1> QED
  BY <1>2, <1>3 DEF Next, RunCapture, vars

(* What an I/O of the capture uses is what the opens and closes printed    *)
(* before it say, or nothing that they say, whichever threads race and     *)
(* whichever calls are not probed, for every number of them and every size *)
(* of the arrays; the exceptions are the ones that the property names.     *)
THEOREM RightFileOrNoneHolds == Spec => []RightFileOrNone
<1>1. ASSUME CaptureInv, DescriptorInv PROVE RightFileOrNone
  <2> DEFINE i == Len(printed)
             l == printed[i]
             f == PrintedFd(l)
             p == l.pid
             about == {j \in 1 .. i - 1 :
                        /\ printed[j].pid = p
                        /\ \/ printed[j].name = "exit_group"
                           \/ /\ printed[j].name \in Opens \cup {"close"}
                              /\ PrintedFd(printed[j]) = f}
             m == Max(about)
  <2> SUFFICES ASSUME skips = 0, i > 0, l.name \notin Opens \cup {"close"}, f # 0
               PROVE  \/ FileByLines(i, p, f) \in {NoFile, Cwd, made[l.id].file}
                      \/ \E j \in 1 .. i - 1 : CloseLost(printed[j], p, f)
                      \/ \E t \in Threads : /\ call[t] # 0 /\ Process[t] = p
                                            /\ made[call[t]].name = "close"
                                            /\ made[call[t]].fd = f
    BY DEF RightFileOrNone
  <2>1. i \in Nat /\ i \in 1 .. Len(printed)
    BY <1>1, SeqIs DEF CaptureInv, ThreadsOK, IsSeq
  <2>2. p \in Processes /\ f \in Numbers
    <3>1. IsLine(l)
      BY <1>1, <2>1 DEF DescriptorInv, PrintedOK
    <3>2. "FD" \in DOMAIN l.args /\ l.args["FD"] # 0 /\ f = made[l.args["FD"]].fd
      BY DEF PrintedFd
    <3>3. l.args["FD"] \in 1 .. Len(made)
      BY <1>1, <2>1, <3>2, LineArgs
    <3>4. TakesOK(l.args["FD"])
      BY <1>1, <3>3 DEF DescriptorInv, KernelOK
    <3> QED
      BY <3>1, <3>2, <3>4 DEF IsLine, TakesOK
  <2>3. RightAt(i, p, f)
    BY <1>1, <2>1, <2>2 DEF DescriptorInv, RightOK
  <2>4. FileByLines(i, p, f) = IF about = {} \/ printed[m].name \notin Opens THEN NoFile
                               ELSE PrintedPath(printed[m])
    BY SMTT(30) DEF FileByLines
  <2>5. CASE about = {} \/ printed[m].name \notin Opens \/ printed[m].args["PATH"] = 0
    BY <2>4, <2>5 DEF PrintedPath
  <2>6. CASE about # {} /\ printed[m].name \in Opens /\ printed[m].args["PATH"] # 0
    <3>1. m \in about /\ \A j \in about : j <= m
      <4>1. about \subseteq 1 .. i
        BY <2>1
      <4> HIDE DEF about, i
      <4> QED
        BY <2>1, <2>6, <4>1, MaxIs
    <3>2. \A j \in 1 .. i - 1 : j \in about <=> About(printed[j], p, f)
      BY SMTT(30) DEF About
    <3>3. m \in 1 .. i - 1
      BY <3>1
    <3> HIDE DEF about, m, i, l, p, f
    <3>4. LastOpen(i, m, p, f)
      BY <2>1, <2>6, <3>1, <3>2, <3>3 DEF LastOpen
    <3>5. \/ Lost(i, p, f)
          \/ \E t \in Threads : Closes(t, p, f)
          \/ made[l.id].file = PathOf(m)
      BY <2>3, <3>3, <3>4 DEF RightAt, l, p, f
    <3>6. FileByLines(i, p, f) = PathOf(m)
      BY <2>4, <2>6 DEF PrintedPath, PathOf
    <3> QED
      BY <3>5, <3>6 DEF Lost, Closes, Uses, InCall
  <2> QED
    BY <2>5, <2>6
<1>2. CaptureInv /\ DescriptorInv /\ [Next]_vars => DescriptorInv'
  BY DescriptorInvNext
<1> QED
  BY <1>1, <1>2, DescriptorInvInit, CaptureInvHolds, PTL DEF Spec
=============================================================================
