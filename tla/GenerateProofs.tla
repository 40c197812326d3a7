--------------------------- MODULE GenerateProofs ---------------------------
(***************************************************************************)
(* The files that the generator writes are well formed, for every capture: *)
(* any number of processes, descriptors and paths, any sequence of events, *)
(* any size of vfd_buffer.  ReplayWorkerProofs assumes of a file what is   *)
(* proved here.                                                            *)
(***************************************************************************)
EXTENDS Generate, SequenceTheorems, TLAPS

-----------------------------------------------------------------------------
(* Paths: a number, once given, stays.                                     *)

Vsizes == [id : [Paths -> Nat], num : Nat, updated : [Paths -> BOOLEAN]]

(* The numbers that v has are those that w has.                            *)
Keeps(v, w) == \A y \in Paths : v.id[y] # 0 => w.id[y] = v.id[y]

LEMMA WithPathNumbers ==
  ASSUME NEW v \in Vsizes, NEW x \in Paths
  PROVE  /\ WithPath(v, x) \in Vsizes
         /\ WithPath(v, x).id[x] # 0
         /\ Keeps(v, WithPath(v, x))
<1>1. CASE v.id[x] # 0
  BY <1>1 DEF WithPath, Keeps
<1>2. CASE v.id[x] = 0
  <2>1. WithPath(v, x) = [id |-> [v.id EXCEPT ![x] = v.num + 1],
                          num |-> v.num + 1, updated |-> v.updated]
    BY <1>2 DEF WithPath, Vsizes
  <2> QED
    BY <1>2, <2>1 DEF Vsizes, Keeps
<1> QED
  BY <1>1, <1>2

LEMMA UpdatedNumbers ==
  ASSUME NEW v \in Vsizes, NEW x \in Paths
  PROVE  Updated(v, x) \in Vsizes /\ Updated(v, x).id = v.id
BY DEF Vsizes, Updated

LEMMA FirstUpdateNumbers ==
  ASSUME NEW v \in Vsizes, NEW x \in Paths
  PROVE  FirstUpdate(v, x) \in Vsizes /\ Keeps(v, FirstUpdate(v, x))
<1> DEFINE y == Parent[x]
<1>1. y \in Paths
  BY ParentAssumption
<1>2. WithPath(v, y) \in Vsizes /\ Keeps(v, WithPath(v, y))
  BY <1>1, WithPathNumbers
<1>3. /\ Updated(WithPath(v, y), y) \in Vsizes
      /\ Keeps(v, Updated(WithPath(v, y), y))
  BY <1>1, <1>2, UpdatedNumbers DEF Keeps
<1>4. WithParent(v, x) \in Vsizes /\ Keeps(v, WithParent(v, x))
  BY <1>3 DEF WithParent, Keeps
<1>5. Updated(WithParent(v, x), x) \in Vsizes /\ Keeps(v, Updated(WithParent(v, x), x))
  BY <1>4, UpdatedNumbers DEF Keeps
<1> QED
  BY <1>5 DEF FirstUpdate, Keeps

-----------------------------------------------------------------------------
(* The maps of the processes, the objects and the buffer, as they are at   *)
(* some point of the writer's work: fm and vm stand for fd_map and vfd_map,*)
(* ob for the vfd_s objects, buf for vfd_buffer, num for num_mapped_fds.   *)

MapTypes(fm, vm, ob, buf, num) ==
  /\ fm \in [Pids -> [Fds -> Numbers \cup {0}]]
  /\ vm \in [Pids -> [Numbers -> Vfds \cup {None}]]
  /\ ob \in [Vfds -> [mapped_fd : Numbers, path : Paths] \cup {None}]
  /\ buf \in Seq(Vfds)
  /\ num \in Nat

(* An object is in one entry, and an entry in one process.                 *)
OneEntry(vm) ==
  /\ \A p, q \in Pids, m, n \in Numbers :
       vm[p][m] # None /\ vm[p][m] = vm[q][n] => p = q /\ m = n
  /\ \A p, q \in Pids, m \in Numbers :
       vm[p][m] # None /\ vm[q][m] # None => p = q

(* What is in an entry bears its number and is not in the buffer.          *)
EntriesGood(vm, ob, buf, num) ==
  \A p \in Pids, m \in Numbers :
    vm[p][m] # None => /\ m <= num
                       /\ ob[vm[p][m]] # None
                       /\ ob[vm[p][m]].mapped_fd = m
                       /\ \A i \in 1 .. Len(buf) : buf[i] # vm[p][m]

BufferGood(ob, buf) ==
  \A i, j \in 1 .. Len(buf) : /\ ob[buf[i]] # None
                              /\ buf[i] = buf[j] => i = j

Agree(fm, vm) ==
  \A p \in Pids :
    /\ \A f \in Fds : fm[p][f] # 0 => vm[p][fm[p][f]] # None
    /\ \A m \in Numbers : vm[p][m] # None => \E f \in Fds : fm[p][f] = m
    /\ \A f, g \in Fds : fm[p][f] = fm[p][g] /\ fm[p][f] # 0 => f = g

MapsOK(fm, vm, ob, buf, num) ==
  /\ MapTypes(fm, vm, ob, buf, num)
  /\ OneEntry(vm)
  /\ EntriesGood(vm, ob, buf, num)
  /\ BufferGood(ob, buf)
  /\ Agree(fm, vm)

LEMMA NumbersFacts ==
  /\ Numbers \subseteq Nat \ {0}
  /\ 0 \notin Numbers
BY NumbersAssumption DEF Numbers, FirstFds

(* A descriptor is taken out of both maps, and its object put back.        *)
LEMMA RemoveKeepsMaps ==
  ASSUME NEW fm, NEW vm, NEW ob, NEW buf, NEW num,
         MapsOK(fm, vm, ob, buf, num),
         NEW p \in Pids, NEW f \in Fds, fm[p][f] # 0,
         NEW ob2, NEW buf2,
         \/ buf2 = Append(buf, vm[p][fm[p][f]]) /\ ob2 = ob
         \/ buf2 = buf /\ ob2 = [ob EXCEPT ![vm[p][fm[p][f]]] = None]
  PROVE  MapsOK([fm EXCEPT ![p][f] = 0],
                [vm EXCEPT ![p] = [vm[p] EXCEPT ![fm[p][f]] = None]],
                ob2, buf2, num)
<1> DEFINE m == fm[p][f]
           o == vm[p][m]
           fm2 == [fm EXCEPT ![p][f] = 0]
           vm2 == [vm EXCEPT ![p] = [vm[p] EXCEPT ![m] = None]]
<1>1. /\ m \in Numbers /\ o \in Vfds /\ o # None
      /\ ob[o] # None /\ \A i \in 1 .. Len(buf) : buf[i] # o
  BY NoneAssumption DEF MapsOK, MapTypes, Agree, EntriesGood
<1>2. /\ fm2 \in [Pids -> [Fds -> Numbers \cup {0}]]
      /\ \A q \in Pids, g \in Fds :
           fm2[q][g] = IF q = p /\ g = f THEN 0 ELSE fm[q][g]
  BY DEF MapsOK, MapTypes
<1>3. /\ vm2 \in [Pids -> [Numbers -> Vfds \cup {None}]]
      /\ \A q \in Pids, n \in Numbers :
           vm2[q][n] = IF q = p /\ n = m THEN None ELSE vm[q][n]
  BY SMTT(30), <1>1 DEF MapsOK, MapTypes
<1>4. /\ ob2 \in [Vfds -> [mapped_fd : Numbers, path : Paths] \cup {None}]
      /\ \A q \in Vfds : q # o => ob2[q] = ob[q]
      /\ ob2[o] = None \/ ob2[o] = ob[o]
  BY SMTT(30), <1>1 DEF MapsOK, MapTypes
<1>5. /\ buf2 \in Seq(Vfds)
      /\ Len(buf2) \in Nat
      /\ \A i \in 1 .. Len(buf2) :
           \/ i \in 1 .. Len(buf) /\ buf2[i] = buf[i]
           \/ i = Len(buf) + 1 /\ buf2[i] = o /\ ob2 = ob
  <2>1. buf \in Seq(Vfds) /\ Len(buf) \in Nat
    BY DEF MapsOK, MapTypes
  <2>2. CASE buf2 = buf
    BY <2>1, <2>2
  <2>3. CASE buf2 = Append(buf, o) /\ ob2 = ob
    <3>1. /\ Append(buf, o) \in Seq(Vfds)
          /\ Len(Append(buf, o)) = Len(buf) + 1
          /\ \A i \in 1 .. Len(buf) + 1 :
               Append(buf, o)[i] = IF i <= Len(buf) THEN buf[i] ELSE o
      BY SMTT(30), <1>1, <2>1
    <3> QED
      BY <2>1, <2>3, <3>1
  <2> QED
    BY <2>2, <2>3
<1>6. OneEntry(vm2)
  BY SMTT(30), <1>3 DEF MapsOK, OneEntry
<1>7. EntriesGood(vm2, ob2, buf2, num)
  <2> SUFFICES ASSUME NEW q \in Pids, NEW n \in Numbers, vm2[q][n] # None
               PROVE  /\ n <= num
                      /\ ob2[vm2[q][n]] # None
                      /\ ob2[vm2[q][n]].mapped_fd = n
                      /\ \A i \in 1 .. Len(buf2) : buf2[i] # vm2[q][n]
    BY DEF EntriesGood
  <2>1. vm2[q][n] = vm[q][n] /\ ~(q = p /\ n = m) /\ vm[q][n] \in Vfds
    BY <1>3
  <2>2. vm[q][n] # o
    BY SMTT(30), <1>1, <2>1 DEF MapsOK, OneEntry
  <2>3. ob2[vm2[q][n]] = ob[vm[q][n]]
    BY <1>4, <2>1, <2>2
  <2> QED
    BY SMTT(30), <1>5, <2>1, <2>2, <2>3 DEF MapsOK, EntriesGood
<1>8. BufferGood(ob2, buf2)
  <2> SUFFICES ASSUME NEW i \in 1 .. Len(buf2), NEW j \in 1 .. Len(buf2)
               PROVE  ob2[buf2[i]] # None /\ (buf2[i] = buf2[j] => i = j)
    BY DEF BufferGood
  <2>1. ob2[buf2[i]] # None
    <3>1. CASE i \in 1 .. Len(buf) /\ buf2[i] = buf[i]
      BY <1>1, <1>4, <3>1 DEF MapsOK, MapTypes, BufferGood
    <3>2. CASE i = Len(buf) + 1 /\ buf2[i] = o /\ ob2 = ob
      BY <1>1, <3>2
    <3> QED
      BY SMTT(30), <1>5, <3>1, <3>2
  <2>2. buf2[i] = buf2[j] => i = j
    BY SMTT(30), <1>1, <1>5 DEF MapsOK, BufferGood
  <2> QED
    BY <2>1, <2>2
<1>9. Agree(fm2, vm2)
  <2> SUFFICES ASSUME NEW q \in Pids
               PROVE  /\ \A g \in Fds : fm2[q][g] # 0 => vm2[q][fm2[q][g]] # None
                      /\ \A n \in Numbers :
                           vm2[q][n] # None => \E g \in Fds : fm2[q][g] = n
                      /\ \A g, h \in Fds :
                           fm2[q][g] = fm2[q][h] /\ fm2[q][g] # 0 => g = h
    BY DEF Agree
  <2>1. ASSUME NEW g \in Fds, fm2[q][g] # 0
        PROVE  vm2[q][fm2[q][g]] # None
    BY <1>2, <1>3, <2>1 DEF MapsOK, MapTypes, Agree
  <2>2. ASSUME NEW n \in Numbers, vm2[q][n] # None
        PROVE  \E g \in Fds : fm2[q][g] = n
    <3>1. vm[q][n] # None /\ ~(q = p /\ n = m)
      BY <1>3, <2>2
    <3>2. PICK g \in Fds : fm[q][g] = n
      BY <3>1 DEF MapsOK, Agree
    <3> QED
      BY <1>2, <3>1, <3>2
  <2>3. \A g, h \in Fds : fm2[q][g] = fm2[q][h] /\ fm2[q][g] # 0 => g = h
    BY <1>2 DEF MapsOK, Agree
  <2> QED
    BY ZenonT(60), <2>1, <2>2, <2>3
<1> QED
  BY <1>2, <1>3, <1>4, <1>5, <1>6, <1>7, <1>8, <1>9 DEF MapsOK, MapTypes

(* A free descriptor gets the next number, and an object from the head of  *)
(* the buffer, or a new one.                                               *)
LEMMA CreateKeepsMaps ==
  ASSUME NEW fm, NEW vm, NEW ob, NEW buf, NEW num,
         MapsOK(fm, vm, ob, buf, num), num + 1 \in Numbers,
         NEW p \in Pids, NEW f \in Fds, fm[p][f] = 0, NEW x \in Paths,
         NEW o \in Vfds,
         IF buf = << >> THEN ob[o] = None ELSE o = Head(buf)
  PROVE  MapsOK([fm EXCEPT ![p][f] = num + 1],
                [vm EXCEPT ![p] = [vm[p] EXCEPT ![num + 1] = o]],
                [ob EXCEPT ![o] = [mapped_fd |-> num + 1, path |-> x]],
                IF buf = << >> THEN buf ELSE Tail(buf), num + 1)
<1> DEFINE m == num + 1
           fm2 == [fm EXCEPT ![p][f] = m]
           vm2 == [vm EXCEPT ![p] = [vm[p] EXCEPT ![m] = o]]
           ob2 == [ob EXCEPT ![o] = [mapped_fd |-> m, path |-> x]]
           buf2 == IF buf = << >> THEN buf ELSE Tail(buf)
<1>0. num \in Nat /\ m \in Numbers /\ buf \in Seq(Vfds) /\ o # None
  BY NoneAssumption DEF MapsOK, MapTypes
<1>1. \A q \in Pids, n \in Numbers : vm[q][n] # o
  BY <1>0 DEF MapsOK, MapTypes, EntriesGood
<1>2. \A q \in Pids : vm[q][m] = None
  BY <1>0 DEF MapsOK, EntriesGood
<1>3. /\ fm2 \in [Pids -> [Fds -> Numbers \cup {0}]]
      /\ \A q \in Pids, g \in Fds :
           fm2[q][g] = IF q = p /\ g = f THEN m ELSE fm[q][g]
  BY DEF MapsOK, MapTypes
<1>4. /\ vm2 \in [Pids -> [Numbers -> Vfds \cup {None}]]
      /\ \A q \in Pids, n \in Numbers :
           vm2[q][n] = IF q = p /\ n = m THEN o ELSE vm[q][n]
  BY DEF MapsOK, MapTypes
<1>5. /\ ob2 \in [Vfds -> [mapped_fd : Numbers, path : Paths] \cup {None}]
      /\ \A q \in Vfds : q # o => ob2[q] = ob[q]
      /\ ob2[o] = [mapped_fd |-> m, path |-> x]
      /\ ob2[o] # None
  BY <1>0, NoneAssumption, NumbersFacts DEF MapsOK, MapTypes
<1>6. /\ buf2 \in Seq(Vfds)
      /\ Len(buf2) \in Nat
      /\ \A i \in 1 .. Len(buf2) :
           i + 1 \in 1 .. Len(buf) /\ buf2[i] = buf[i + 1]
      /\ \A i \in 1 .. Len(buf2) : buf2[i] # o
  <2>1. CASE buf = << >>
    BY <1>0, <2>1
  <2>2. CASE buf # << >>
    <3>1. /\ Tail(buf) \in Seq(Vfds)
          /\ Len(buf) \in Nat \ {0} /\ Len(Tail(buf)) = Len(buf) - 1
          /\ \A i \in 1 .. Len(buf) - 1 : Tail(buf)[i] = buf[i + 1]
          /\ o = buf[1]
      BY <1>0, <2>2
    <3>2. \A i \in 1 .. Len(buf) - 1 : buf[i + 1] # buf[1]
      BY <3>1 DEF MapsOK, BufferGood
    <3> QED
      BY <2>2, <3>1, <3>2
  <2> QED
    BY <2>1, <2>2
<1>7. OneEntry(vm2)
  <2> SUFFICES ASSUME NEW q \in Pids, NEW r \in Pids,
                      NEW i \in Numbers, NEW j \in Numbers, vm2[q][i] # None
               PROVE  /\ vm2[q][i] = vm2[r][j] => q = r /\ i = j
                      /\ vm2[r][i] # None => q = r
    BY DEF OneEntry
  <2>1. CASE q = p /\ i = m
    BY <1>0, <1>1, <1>2, <1>4, <2>1
  <2>2. CASE ~(q = p /\ i = m)
    <3>1. vm2[q][i] = vm[q][i] /\ i # m
      BY <1>2, <1>4, <2>2
    <3> QED
      BY <1>0, <1>1, <1>4, <3>1 DEF MapsOK, OneEntry
  <2> QED
    BY <2>1, <2>2
<1>8. EntriesGood(vm2, ob2, buf2, m)
  <2> SUFFICES ASSUME NEW q \in Pids, NEW n \in Numbers, vm2[q][n] # None
               PROVE  /\ n <= m
                      /\ ob2[vm2[q][n]] # None
                      /\ ob2[vm2[q][n]].mapped_fd = n
                      /\ \A i \in 1 .. Len(buf2) : buf2[i] # vm2[q][n]
    BY DEF EntriesGood
  <2>1. CASE q = p /\ n = m
    BY <1>0, <1>4, <1>5, <1>6, <2>1
  <2>2. CASE ~(q = p /\ n = m)
    <3>1. vm2[q][n] = vm[q][n] /\ vm[q][n] \in Vfds /\ vm[q][n] # o
      BY <1>1, <1>4, <2>2
    <3>2. /\ n <= num /\ ob[vm[q][n]] # None /\ ob[vm[q][n]].mapped_fd = n
          /\ \A i \in 1 .. Len(buf) : buf[i] # vm[q][n]
      BY <3>1 DEF MapsOK, EntriesGood
    <3> QED
      BY SMTT(30), <1>0, <1>5, <1>6, <3>1, <3>2, NumbersFacts
  <2> QED
    BY <2>1, <2>2
<1>9. BufferGood(ob2, buf2)
  <2> SUFFICES ASSUME NEW i \in 1 .. Len(buf2), NEW j \in 1 .. Len(buf2)
               PROVE  ob2[buf2[i]] # None /\ (buf2[i] = buf2[j] => i = j)
    BY DEF BufferGood
  <2>1. /\ ob[buf[i + 1]] # None /\ (buf[i + 1] = buf[j + 1] => i + 1 = j + 1)
    BY <1>6 DEF MapsOK, BufferGood
  <2>2. buf2[i] \in Vfds
    BY <1>6
  <2> QED
    BY <1>5, <1>6, <2>1, <2>2
<1>10. Agree(fm2, vm2)
  <2> SUFFICES ASSUME NEW q \in Pids
               PROVE  /\ \A g \in Fds : fm2[q][g] # 0 => vm2[q][fm2[q][g]] # None
                      /\ \A n \in Numbers :
                           vm2[q][n] # None => \E g \in Fds : fm2[q][g] = n
                      /\ \A g, h \in Fds :
                           fm2[q][g] = fm2[q][h] /\ fm2[q][g] # 0 => g = h
    BY DEF Agree
  <2>1. ASSUME NEW g \in Fds, fm2[q][g] # 0
        PROVE  vm2[q][fm2[q][g]] # None
    BY <1>0, <1>3, <1>4, <2>1 DEF MapsOK, MapTypes, Agree
  <2>2. ASSUME NEW n \in Numbers, vm2[q][n] # None
        PROVE  \E g \in Fds : fm2[q][g] = n
    <3>1. CASE q = p /\ n = m
      BY <1>3, <3>1
    <3>2. CASE ~(q = p /\ n = m)
      <4>1. vm[q][n] # None
        BY <1>4, <2>2, <3>2
      <4>2. PICK g \in Fds : fm[q][g] = n
        BY <4>1 DEF MapsOK, Agree
      <4>3. n # 0
        BY NumbersFacts
      <4> QED
        BY <1>3, <4>2, <4>3
    <3> QED
      BY <3>1, <3>2
  <2>3. \A g, h \in Fds : fm2[q][g] = fm2[q][h] /\ fm2[q][g] # 0 => g = h
    <3>1. \A g \in Fds : fm[q][g] # m
      <4> SUFFICES ASSUME NEW g \in Fds, fm[q][g] = m PROVE FALSE
        OBVIOUS
      <4>1. m # 0
        BY <1>0, NumbersFacts
      <4> QED
        BY <1>2, <4>1 DEF MapsOK, Agree
    <3> QED
      BY <1>3, <3>1 DEF MapsOK, Agree
  <2> QED
    BY <2>1, <2>2, <2>3
<1> QED
  BY <1>0, <1>3, <1>4, <1>5, <1>6, <1>7, <1>8, <1>9, <1>10 DEF MapsOK, MapTypes

-----------------------------------------------------------------------------
(* The lines.                                                              *)

Lines == [op : Ops, vsize : Nat, pid : Nat, fd : Numbers \cup {0}]

WellFormed(f) ==
  /\ FdHasOnePath(f)
  /\ OpenComesFirst(f)
  /\ CloseComesLast(f)
  /\ \A i \in DOMAIN f : f[i].fd = 0 <=> f[i].op = "path"

(* The lines have opened m for the path with the number id, and not closed *)
(* it yet.                                                                 *)
OpenIn(m, id, f) ==
  /\ id # 0
  /\ \E i \in DOMAIN f : f[i].fd = m
  /\ \A i \in DOMAIN f : f[i].fd = m => f[i].op # "close" /\ f[i].vsize = id

LEMMA AppendFacts ==
  ASSUME NEW f \in Seq(Lines), NEW l \in Lines
  PROVE  /\ Append(f, l) \in Seq(Lines)
         /\ DOMAIN f = 1 .. Len(f) /\ Len(f) \in Nat
         /\ DOMAIN Append(f, l) = 1 .. Len(f) + 1
         /\ \A i \in 1 .. Len(f) : Append(f, l)[i] = f[i]
         /\ Append(f, l)[Len(f) + 1] = l
OBVIOUS

(* A line says nothing of the other descriptors.                           *)
LEMMA OthersStayOpen ==
  ASSUME NEW f \in Seq(Lines), NEW l \in Lines, NEW m, NEW id,
         OpenIn(m, id, f), l.fd = m => l.op # "close" /\ l.vsize = id
  PROVE  OpenIn(m, id, Append(f, l))
<1>1. PICK i \in DOMAIN f : f[i].fd = m
  BY DEF OpenIn
<1>2. i \in DOMAIN Append(f, l) /\ Append(f, l)[i].fd = m
  BY <1>1, AppendFacts
<1>3. \A j \in DOMAIN Append(f, l) :
        Append(f, l)[j].fd = m
          => Append(f, l)[j].op # "close" /\ Append(f, l)[j].vsize = id
  BY AppendFacts DEF OpenIn
<1> QED
  BY <1>2, <1>3 DEF OpenIn

(* Three kinds of lines may follow: one without a descriptor, the open of  *)
(* a new one, and one on a descriptor that is open, with its path.         *)
MayFollow(f, l) ==
  \/ l.op = "path" /\ l.fd = 0
  \/ /\ l.op = "open" /\ l.fd # 0
     /\ \A i \in DOMAIN f : f[i].fd # l.fd
  \/ /\ l.op \in {"use", "close"} /\ l.fd # 0
     /\ OpenIn(l.fd, l.vsize, f)

LEMMA WellFormedAppend ==
  ASSUME NEW f \in Seq(Lines), NEW l \in Lines, WellFormed(f), MayFollow(f, l)
  PROVE  WellFormed(Append(f, l))
<1> DEFINE g == Append(f, l)
           n == Len(f) + 1
<1>1. /\ DOMAIN f = 1 .. Len(f) /\ Len(f) \in Nat
      /\ DOMAIN g = 1 .. n
      /\ \A i \in 1 .. Len(f) : g[i] = f[i]
      /\ g[n] = l
  BY AppendFacts
<1> HIDE DEF g
<1>2. FdHasOnePath(g)
  BY SMTT(30), <1>1 DEF FdHasOnePath, WellFormed, MayFollow, OpenIn
<1>3. OpenComesFirst(g)
  <2> SUFFICES ASSUME NEW i \in 1 .. n, g[i].fd # 0
               PROVE  g[i].op = "open" <=> \A j \in 1 .. i - 1 : g[j].fd # g[i].fd
    BY <1>1 DEF OpenComesFirst
  <2>1. CASE i \in 1 .. Len(f)
    BY SMTT(30), <1>1, <2>1 DEF WellFormed, OpenComesFirst
  <2>2. CASE i = n
    <3>1. CASE l.op = "open" /\ \A j \in DOMAIN f : f[j].fd # l.fd
      BY <1>1, <2>2, <3>1
    <3>2. CASE l.op # "open" /\ OpenIn(l.fd, l.vsize, f)
      BY <1>1, <2>2, <3>2 DEF OpenIn
    <3> QED
      BY <1>1, <2>2, <3>1, <3>2 DEF MayFollow
  <2> QED
    BY <1>1, <2>1, <2>2
<1>4. CloseComesLast(g)
  <2> SUFFICES ASSUME NEW i \in 1 .. n, NEW j \in 1 .. n,
                      g[j].op = "close", g[i].fd = g[j].fd
               PROVE  i <= j
    BY <1>1 DEF CloseComesLast
  <2>1. CASE i \in 1 .. Len(f) /\ j \in 1 .. Len(f)
    BY SMTT(30), <1>1, <2>1 DEF WellFormed, CloseComesLast
  <2>2. CASE j = n
    BY <1>1, <2>2
  <2>3. CASE i = n /\ j \in 1 .. Len(f)
    <3>1. f[j].op = "close" /\ f[j].fd = l.fd /\ f[j].fd # 0
      BY <1>1, <2>3 DEF WellFormed
    <3> QED
      BY <1>1, <2>3, <3>1 DEF MayFollow, OpenIn
  <2> QED
    BY <1>1, <2>1, <2>2, <2>3
<1>5. \A i \in DOMAIN g : g[i].fd = 0 <=> g[i].op = "path"
  BY <1>1 DEF WellFormed, MayFollow
<1> QED
  BY <1>2, <1>3, <1>4, <1>5 DEF WellFormed, g

-----------------------------------------------------------------------------
(* The inductive invariant.                                                *)

(* Every descriptor in the maps vm is open in the lines f, for the path    *)
(* that its object bears; of the process e only those in l are.            *)
LiveIn(vm, ob, ids, f, e, l) ==
  \A p \in Pids, m \in Numbers :
    vm[p][m] # None /\ (p = e => m \in l)
      => OpenIn(m, ids[ob[vm[p][m]].path], f)

(* No line is ahead of the count of descriptors.                           *)
Counted(f, num) == \A i \in DOMAIN f : f[i].fd <= num

ExitOK ==
  /\ exiting = None => left = {}
  /\ exiting # None => \A m \in left : vfd_map[exiting][m] # None

IInv ==
  /\ TypeOK
  /\ MapsOK(fd_map, vfd_map, vfd, vfd_buffer, num_mapped_fds)
  /\ ExitOK
  /\ WellFormed(replay)
  /\ Counted(replay, num_mapped_fds)
  /\ LiveIn(vfd_map, vfd, vsizes.id, replay, exiting, left)

LEMMA InitIInv == Init => IInv
<1> SUFFICES ASSUME Init PROVE IInv
  OBVIOUS
<1>1. TypeOK
  BY NumbersAssumption DEF Init, TypeOK, FirstFds
<1>2. MapsOK(fd_map, vfd_map, vfd, vfd_buffer, num_mapped_fds)
  BY DEF Init, MapsOK, MapTypes, OneEntry, EntriesGood, BufferGood, Agree,
         FirstFds
<1>3. ExitOK /\ LiveIn(vfd_map, vfd, vsizes.id, replay, exiting, left)
  BY DEF Init, ExitOK, LiveIn
<1>4. WellFormed(replay) /\ Counted(replay, num_mapped_fds)
  BY DEF Init, WellFormed, Counted, FdHasOnePath, OpenComesFirst,
         CloseComesLast
<1> QED
  BY <1>1, <1>2, <1>3, <1>4 DEF IInv

(* What every event does.                                                  *)
LEMMA EventFacts ==
  ASSUME IInv, NEW p \in Pids, Event(p)
  PROVE  /\ exiting = None /\ left = {}
         /\ lineno' \in 0 .. MaxLines
         /\ pid_map' \in [Pids -> Nat] /\ num_mapped_pids' \in Nat
         /\ MappedPid(p) \in Nat
         /\ num_mapped_fds \in FirstFds .. FirstFds + lineno'
         /\ num_mapped_fds + 1 \in FirstFds .. FirstFds + lineno'
         /\ num_mapped_fds + 1 \in Numbers
<1>1. MappedPid(p) \in Nat
  BY DEF IInv, TypeOK, MappedPid
<1> QED
  BY SMTT(30), <1>1, NumbersAssumption
     DEF IInv, TypeOK, Event, GprocessByRealpid, ExitOK, Numbers, FirstFds

(* A descriptor that is found has an object with its number and its path.  *)
LEMMA LookupFacts ==
  ASSUME IInv, NEW p \in Pids, NEW f \in Fds, VfdByRealfd(p, f) # None
  PROVE  LET o == VfdByRealfd(p, f)
         IN  /\ fd_map[p][f] \in Numbers /\ fd_map[p][f] # 0
             /\ o = vfd_map[p][fd_map[p][f]] /\ o \in Vfds
             /\ vfd[o].mapped_fd = fd_map[p][f] /\ vfd[o].path \in Paths
             /\ exiting = None
                  => OpenIn(fd_map[p][f], vsizes.id[vfd[o].path], replay)
<1> DEFINE m == fd_map[p][f]
           o == VfdByRealfd(p, f)
<1>1. m \in Numbers /\ m # 0 /\ o = vfd_map[p][m] /\ o \in Vfds
  BY DEF IInv, MapsOK, MapTypes, VfdByRealfd
<1>2. vfd[o] # None /\ vfd[o].mapped_fd = m /\ vfd[o].path \in Paths
  BY SMTT(30), <1>1 DEF IInv, MapsOK, MapTypes, EntriesGood
<1>3. ASSUME exiting = None
      PROVE  OpenIn(m, vsizes.id[vfd[o].path], replay)
  <2>1. p # exiting
    BY SMTT(30), <1>3, NoneAssumption
  <2> QED
    BY SMTT(30), <1>1, <2>1 DEF IInv, LiveIn
<1> QED
  BY <1>1, <1>2, <1>3

(* Numbers that are kept keep the descriptors open.                        *)
LEMMA KeepsLive ==
  ASSUME NEW vm \in [Pids -> [Numbers -> Vfds \cup {None}]],
         NEW ob \in [Vfds -> [mapped_fd : Numbers, path : Paths] \cup {None}],
         NEW v \in Vsizes, NEW w \in Vsizes, Keeps(v, w),
         \A p \in Pids, m \in Numbers : vm[p][m] # None => ob[vm[p][m]] # None,
         NEW f, NEW e, NEW l, LiveIn(vm, ob, v.id, f, e, l)
  PROVE  LiveIn(vm, ob, w.id, f, e, l)
<1> SUFFICES ASSUME NEW p \in Pids, NEW m \in Numbers,
                    vm[p][m] # None, p = e => m \in l
             PROVE  OpenIn(m, w.id[ob[vm[p][m]].path], f)
  BY DEF LiveIn
<1>1. OpenIn(m, v.id[ob[vm[p][m]].path], f) /\ ob[vm[p][m]].path \in Paths
  BY SMTT(30) DEF LiveIn
<1>2. w.id[ob[vm[p][m]].path] = v.id[ob[vm[p][m]].path]
  BY <1>1 DEF OpenIn, Keeps
<1> QED
  BY <1>1, <1>2

(* A line keeps the descriptors open that it does not close.               *)
LEMMA LineKeepsLive ==
  ASSUME NEW vm, NEW ob, NEW ids, NEW f \in Seq(Lines), NEW e, NEW l,
         LiveIn(vm, ob, ids, f, e, l), NEW n \in Lines,
         \A p \in Pids, m \in Numbers :
           vm[p][m] # None /\ (p = e => m \in l) /\ m = n.fd
             => n.op # "close" /\ n.vsize = ids[ob[vm[p][m]].path]
  PROVE  LiveIn(vm, ob, ids, Append(f, n), e, l)
<1> SUFFICES ASSUME NEW p \in Pids, NEW m \in Numbers,
                    vm[p][m] # None, p = e => m \in l
             PROVE  OpenIn(m, ids[ob[vm[p][m]].path], Append(f, n))
  BY DEF LiveIn
<1>1. OpenIn(m, ids[ob[vm[p][m]].path], f)
  BY DEF LiveIn
<1> QED
  BY <1>1, OthersStayOpen

LEMMA CountedAppend ==
  ASSUME NEW f \in Seq(Lines), NEW n \in Lines, NEW i \in Nat, NEW j \in Nat,
         Counted(f, i), i <= j, n.fd <= j
  PROVE  Counted(Append(f, n), j)
<1>1. \A a \in Lines : a.fd \in Nat
  <2>1. \A m \in Numbers \cup {0} : m \in Nat
    BY NumbersFacts
  <2> QED
    BY <2>1 DEF Lines
<1>2. \A k \in 1 .. Len(f) : f[k] \in Lines
  OBVIOUS
<1>3. \A k \in 1 .. Len(f) : f[k].fd \in Nat /\ f[k].fd <= i
  BY <1>1, <1>2, AppendFacts DEF Counted
<1>4. \A k \in 1 .. Len(f) : Append(f, n)[k].fd <= j
  BY SMTT(30), <1>3, AppendFacts
<1> QED
  BY <1>4, AppendFacts DEF Counted

(* A line that says the name of a file, or one about a descriptor that is  *)
(* in the map of a process.                                                *)
PathOrUse(n) ==
  \/ n.op = "path" /\ n.fd = 0
  \/ /\ n.op = "use" /\ n.fd \in Numbers
     /\ OpenIn(n.fd, n.vsize, replay)
     /\ \E q \in Pids :
          vfd_map[q][n.fd] # None
            /\ n.vsize = vsizes.id[vfd[vfd_map[q][n.fd]].path]

(* An event that writes a line and leaves the descriptors as they are.     *)
LEMMA LineKeepsIInv ==
  ASSUME IInv, NEW p \in Pids, Event(p), UNCHANGED <<descriptors, exit>>,
         vsizes' \in Vsizes, Keeps(vsizes, vsizes'),
         NEW n \in Lines, replay' = Append(replay, n),
         PathOrUse(n)
  PROVE  IInv'
<1>1. /\ exiting = None /\ left = {}
      /\ replay \in Seq(Lines) /\ vsizes \in Vsizes
      /\ num_mapped_fds \in Nat
  <2>1. exiting = None /\ left = {}
    BY EventFacts
  <2>2. replay \in Seq(Lines)
    BY DEF IInv, TypeOK, Lines
  <2>3. vsizes \in Vsizes
    BY DEF IInv, TypeOK, Vsizes
  <2>4. num_mapped_fds \in Nat
    BY SMTT(30), EventFacts DEF FirstFds
  <2> QED
    BY <2>1, <2>2, <2>3, <2>4
<1>2. UNCHANGED <<fd_map, vfd_map, num_mapped_fds, vfd, vfd_buffer,
                  exiting, left>>
  BY DEF descriptors, exit
<1>3. replay' \in Seq(Lines)
  BY <1>1, AppendFacts
<1>4. TypeOK'
  BY <1>2, <1>3, EventFacts DEF IInv, TypeOK, Lines, Vsizes
<1>5. MapsOK(fd_map, vfd_map, vfd, vfd_buffer, num_mapped_fds)'
  BY <1>2 DEF IInv
<1>6. ExitOK'
  BY <1>1, <1>2 DEF ExitOK
<1>7. WellFormed(replay)'
  <2>1. MayFollow(replay, n)
    BY NumbersFacts DEF MayFollow, PathOrUse
  <2> QED
    BY SMTT(30), <1>1, <2>1, WellFormedAppend DEF IInv
<1>8. Counted(replay, num_mapped_fds)'
  <2>1. n.fd <= num_mapped_fds
    <3>1. CASE n.fd = 0
      BY <1>1, <3>1
    <3>2. CASE OpenIn(n.fd, n.vsize, replay)
      <4>1. Counted(replay, num_mapped_fds)
        BY DEF IInv
      <4>2. PICK i \in DOMAIN replay : replay[i].fd = n.fd
        BY <3>2 DEF OpenIn
      <4>3. replay[i].fd <= num_mapped_fds
        BY <4>1, <4>2 DEF Counted
      <4> QED
        BY <4>2, <4>3
    <3> QED
      BY <3>1, <3>2 DEF PathOrUse
  <2>2. Counted(replay, num_mapped_fds)
    BY DEF IInv
  <2>3. num_mapped_fds <= num_mapped_fds
    BY <1>1
  <2>4. Counted(Append(replay, n), num_mapped_fds)
    BY <1>1, <2>1, <2>2, <2>3, CountedAppend
  <2> QED
    BY SMTT(30), <1>2, <2>4
<1>9. LiveIn(vfd_map, vfd, vsizes.id, replay, exiting, left)'
  <2>1. LiveIn(vfd_map, vfd, vsizes.id, Append(replay, n), exiting, left)
    <3>1. \A q \in Pids, m \in Numbers :
            vfd_map[q][m] # None /\ (q = exiting => m \in left) /\ m = n.fd
              => n.op # "close" /\ n.vsize = vsizes.id[vfd[vfd_map[q][m]].path]
      <4> SUFFICES ASSUME NEW q \in Pids, NEW m \in Numbers,
                          vfd_map[q][m] # None, m = n.fd
                   PROVE  /\ n.op # "close"
                          /\ n.vsize = vsizes.id[vfd[vfd_map[q][m]].path]
        BY SMTT(30)
      <4>0. n.fd # 0
        BY ZenonT(60), NumbersFacts
      <4>1. n.op = "use"
        BY ZenonT(60), <4>0 DEF PathOrUse
      <4>2. PICK r \in Pids :
              /\ vfd_map[r][m] # None
              /\ n.vsize = vsizes.id[vfd[vfd_map[r][m]].path]
        BY SMTT(30), <4>1 DEF PathOrUse
      <4>3. q = r
        <5>1. OneEntry(vfd_map)
          BY DEF IInv, MapsOK
        <5> QED
          BY <4>2, <5>1 DEF OneEntry
      <4> QED
        BY <4>1, <4>2, <4>3
    <3> QED
      BY <1>1, <3>1, LineKeepsLive DEF IInv
  <2>2. LiveIn(vfd_map, vfd, vsizes'.id, Append(replay, n), exiting, left)
    <3>1. \A q \in Pids, m \in Numbers :
            vfd_map[q][m] # None => vfd[vfd_map[q][m]] # None
      BY DEF IInv, MapsOK, EntriesGood
    <3> QED
      BY <1>1, <2>1, <3>1, KeepsLive DEF IInv, MapsOK, MapTypes
  <2> QED
    BY <1>2, <2>2
<1> QED
  BY <1>4, <1>5, <1>6, <1>7, <1>8, <1>9 DEF IInv

(* A line that Gioop_write writes.                                         *)
LEMMA LineFacts ==
  ASSUME NEW op \in Ops, NEW id \in Nat, NEW p, MappedPid(p) \in Nat,
         NEW m \in Numbers \cup {0}
  PROVE  /\ Line(op, id, p, m) \in Lines
         /\ Line(op, id, p, m).op = op /\ Line(op, id, p, m).vsize = id
         /\ Line(op, id, p, m).fd = m
BY SMTT(30) DEF Line, Lines

LEMMA UseKeepsIInv ==
  ASSUME IInv, NEW p \in Pids, NEW f \in Fds, NEW b \in BOOLEAN, Use(p, f, b)
  PROVE  IInv'
<1> DEFINE o == VfdByRealfd(p, f)
           x == vfd[o].path
           m == vfd[o].mapped_fd
           v == WithPath(vsizes, x)
           n == Line("use", v.id[x], p, m)
<1>1. Event(p) /\ o # None /\ exiting = None
  BY DEF Use, Event
<1>2. /\ m = fd_map[p][f] /\ m \in Numbers /\ x \in Paths
      /\ o = vfd_map[p][m] /\ OpenIn(m, vsizes.id[x], replay)
  BY <1>1, LookupFacts
<1>3. vsizes \in Vsizes
  BY DEF IInv, TypeOK, Vsizes
<1>4. v = vsizes
  BY <1>2 DEF OpenIn, WithPath
<1>5. vsizes' \in Vsizes /\ Keeps(vsizes, vsizes')
  BY <1>2, <1>3, <1>4, UpdatedNumbers DEF Use, Keeps
<1>6. v.id[x] \in Nat
  BY SMTT(30), <1>2, <1>3, <1>4 DEF Vsizes
<1>7. n \in Lines /\ n.op = "use" /\ n.vsize = vsizes.id[x] /\ n.fd = m
  BY SMTT(30), <1>1, <1>2, <1>4, <1>6, LineFacts, EventFacts DEF Ops
<1>8. replay' = Append(replay, n) /\ UNCHANGED <<descriptors, exit>>
  BY DEF Use
<1> HIDE DEF n, v
<1> QED
  BY <1>1, <1>2, <1>5, <1>7, <1>8, LineKeepsIInv DEF PathOrUse

LEMMA PathOpKeepsIInv ==
  ASSUME IInv, NEW p \in Pids, NEW x \in Paths, NEW b \in BOOLEAN, PathOp(p, x, b)
  PROVE  IInv'
<1> DEFINE v == WithPath(vsizes, x)
           n == Line("path", v.id[x], p, 0)
<1>1. vsizes \in Vsizes
  BY DEF IInv, TypeOK, Vsizes
<1>2. v \in Vsizes /\ Keeps(vsizes, v) /\ v.id[x] \in Nat
  BY <1>1, WithPathNumbers DEF Vsizes
<1>3. FirstUpdate(v, x) \in Vsizes /\ Keeps(v, FirstUpdate(v, x))
  BY <1>2, FirstUpdateNumbers
<1>4. vsizes' \in Vsizes /\ Keeps(vsizes, vsizes')
  BY <1>2, <1>3 DEF PathOp, Keeps
<1>5. Event(p)
  BY DEF PathOp
<1>6. n \in Lines /\ n.op = "path" /\ n.fd = 0
  BY SMTT(30), <1>2, <1>5, EventFacts, LineFacts DEF Ops
<1>7. replay' = Append(replay, n) /\ UNCHANGED <<descriptors, exit>>
  BY DEF PathOp
<1> HIDE DEF n
<1> QED
  BY <1>4, <1>5, <1>6, <1>7, LineKeepsIInv DEF PathOrUse

LEMMA RenameKeepsIInv ==
  ASSUME IInv, NEW p \in Pids, NEW x \in Paths, NEW y \in Paths, Rename(p, x, y)
  PROVE  IInv'
<1> DEFINE v == WithPath(vsizes, x)
           w == WithPath(v, y)
           n == Line("path", v.id[x], p, 0)
<1>1. vsizes \in Vsizes
  BY DEF IInv, TypeOK, Vsizes
<1>2. v \in Vsizes /\ Keeps(vsizes, v) /\ v.id[x] \in Nat
  BY <1>1, WithPathNumbers DEF Vsizes
<1>3. w \in Vsizes /\ Keeps(v, w)
  BY <1>2, WithPathNumbers
<1>4. FirstUpdate(w, x) \in Vsizes /\ Keeps(w, FirstUpdate(w, x))
  BY <1>3, FirstUpdateNumbers
<1>5. /\ FirstUpdate(FirstUpdate(w, x), y) \in Vsizes
      /\ Keeps(FirstUpdate(w, x), FirstUpdate(FirstUpdate(w, x), y))
  BY <1>4, FirstUpdateNumbers
<1>6. vsizes' = FirstUpdate(FirstUpdate(w, x), y) /\ Event(p)
  BY DEF Rename
<1>7. vsizes' \in Vsizes /\ Keeps(vsizes, vsizes')
  BY <1>2, <1>3, <1>4, <1>5, <1>6 DEF Keeps
<1>8. n \in Lines /\ n.op = "path" /\ n.fd = 0
  BY <1>2, <1>6, EventFacts, LineFacts DEF Ops
<1>9. replay' = Append(replay, n) /\ UNCHANGED <<descriptors, exit>>
  BY DEF Rename
<1> HIDE DEF n
<1> QED
  BY <1>6, <1>7, <1>8, <1>9, LineKeepsIInv DEF PathOrUse

LEMMA SyncKeepsIInv ==
  ASSUME IInv, NEW p \in Pids, Sync(p)
  PROVE  IInv'
<1> DEFINE n == Line("path", 0, p, 0)
<1>1. vsizes' \in Vsizes /\ Keeps(vsizes, vsizes')
  BY DEF IInv, TypeOK, Vsizes, Sync, Keeps
<1>2. Event(p) /\ replay' = Append(replay, n) /\ UNCHANGED <<descriptors, exit>>
  BY DEF Sync
<1>3. n \in Lines /\ n.op = "path" /\ n.fd = 0
  BY <1>2, EventFacts, LineFacts DEF Ops
<1> HIDE DEF n
<1> QED
  BY <1>1, <1>2, <1>3, LineKeepsIInv DEF PathOrUse

(* A descriptor leaves the maps, and its close is written.                 *)
LEMMA RemoveKeepsLive ==
  ASSUME NEW fm, NEW vm, NEW ob, NEW buf, NEW num, NEW ids,
         NEW f \in Seq(Lines), NEW e,
         MapsOK(fm, vm, ob, buf, num), LiveIn(vm, ob, ids, f, e, {}),
         NEW p \in Pids, NEW m \in Numbers, vm[p][m] # None,
         NEW ob2, ob2 = ob \/ ob2 = [ob EXCEPT ![vm[p][m]] = None],
         NEW n \in Lines, n.fd = m
  PROVE  LiveIn([vm EXCEPT ![p] = [vm[p] EXCEPT ![m] = None]], ob2, ids,
                Append(f, n), e, {})
<1> DEFINE vm2 == [vm EXCEPT ![p] = [vm[p] EXCEPT ![m] = None]]
<1>1. /\ vm \in [Pids -> [Numbers -> Vfds \cup {None}]]
      /\ ob \in [Vfds -> [mapped_fd : Numbers, path : Paths] \cup {None}]
  BY DEF MapsOK, MapTypes
<1>2. \A q \in Pids, i \in Numbers :
        vm2[q][i] = IF q = p /\ i = m THEN None ELSE vm[q][i]
  BY <1>1
<1> HIDE DEF vm2
<1>3. LiveIn(vm2, ob2, ids, f, e, {})
  <2> SUFFICES ASSUME NEW q \in Pids, NEW i \in Numbers,
                      vm2[q][i] # None, q # e
               PROVE  OpenIn(i, ids[ob2[vm2[q][i]].path], f)
    BY DEF LiveIn
  <2>1. vm2[q][i] = vm[q][i] /\ ~(q = p /\ i = m)
    BY <1>2
  <2>2. vm[q][i] # vm[p][m] /\ vm[q][i] \in Vfds
    BY <1>1, <2>1 DEF MapsOK, OneEntry
  <2>3. ob2[vm[q][i]] = ob[vm[q][i]]
    BY <1>1, <2>2
  <2> QED
    BY <2>1, <2>3 DEF LiveIn
<1>4. \A q \in Pids : vm2[q][m] = None
  BY <1>2 DEF MapsOK, OneEntry
<1> QED
  BY <1>3, <1>4, LineKeepsLive DEF vm2

(* A descriptor enters the maps, and its open is written.                  *)
LEMMA CreateKeepsLive ==
  ASSUME NEW fm, NEW vm, NEW ob, NEW buf, NEW num, NEW ids,
         NEW f \in Seq(Lines), NEW e,
         MapsOK(fm, vm, ob, buf, num), LiveIn(vm, ob, ids, f, e, {}),
         NEW p \in Pids, NEW x \in Paths, NEW m \in Numbers, m = num + 1,
         NEW o \in Vfds,
         IF buf = << >> THEN ob[o] = None ELSE o = Head(buf),
         Counted(f, num),
         NEW n \in Lines, n.fd = m, n.op = "open", n.vsize = ids[x], ids[x] # 0
  PROVE  LiveIn([vm EXCEPT ![p] = [vm[p] EXCEPT ![m] = o]],
                [ob EXCEPT ![o] = [mapped_fd |-> m, path |-> x]], ids,
                Append(f, n), e, {})
<1> DEFINE vm2 == [vm EXCEPT ![p] = [vm[p] EXCEPT ![m] = o]]
           ob2 == [ob EXCEPT ![o] = [mapped_fd |-> m, path |-> x]]
<1>1. /\ vm \in [Pids -> [Numbers -> Vfds \cup {None}]]
      /\ ob \in [Vfds -> [mapped_fd : Numbers, path : Paths] \cup {None}]
      /\ buf \in Seq(Vfds) /\ num \in Nat
  BY DEF MapsOK, MapTypes
<1>2. \A q \in Pids, i \in Numbers :
        vm2[q][i] = IF q = p /\ i = m THEN o ELSE vm[q][i]
  BY <1>1
<1>3. ob2[o].path = x /\ \A q \in Vfds : q # o => ob2[q] = ob[q]
  BY <1>1
<1>4. \A q \in Pids, i \in Numbers : vm[q][i] # o
  BY SMTT(30), <1>1, NoneAssumption DEF MapsOK, EntriesGood
<1> HIDE DEF vm2, ob2
<1> SUFFICES ASSUME NEW q \in Pids, NEW i \in Numbers, vm2[q][i] # None, q # e
             PROVE  OpenIn(i, ids[ob2[vm2[q][i]].path], Append(f, n))
  BY DEF LiveIn, vm2, ob2
<1>5. CASE q = p /\ i = m
  <2>1. \A j \in DOMAIN f : f[j].fd # m
    BY SMTT(30), <1>1 DEF Counted
  <2>2. OpenIn(m, ids[x], Append(f, n))
    BY SMTT(30), <2>1, AppendFacts DEF OpenIn
  <2> QED
    BY <1>2, <1>3, <1>5, <2>2
<1>6. CASE ~(q = p /\ i = m)
  <2>1. vm2[q][i] = vm[q][i] /\ vm[q][i] \in Vfds /\ vm[q][i] # o
    BY <1>1, <1>2, <1>4, <1>6
  <2>2. OpenIn(i, ids[ob2[vm2[q][i]].path], f)
    BY <1>3, <2>1 DEF LiveIn
  <2>3. i # m
    BY <1>1, <2>1 DEF MapsOK, EntriesGood
  <2> QED
    BY <2>2, <2>3, OthersStayOpen
<1> QED
  BY <1>5, <1>6

LEMMA NoLineKeepsIInv ==
  ASSUME IInv, NEW p \in Pids, NoLine(p)
  PROVE  IInv'
<1>1. Event(p) /\ UNCHANGED <<descriptors, vsizes, replay, exit>>
  BY DEF NoLine
<1>2. TypeOK'
  BY <1>1, EventFacts DEF IInv, TypeOK, descriptors, exit
<1> QED
  BY <1>1, <1>2 DEF IInv, ExitOK, descriptors, exit

LEMMA RefusedKeepsIInv ==
  ASSUME IInv, Refused
  PROVE  IInv'
<1>1. TypeOK'
  BY NumbersAssumption
     DEF IInv, TypeOK, Refused, processes, descriptors, exit, FirstFds
<1> QED
  BY <1>1 DEF IInv, ExitOK, Refused, descriptors, exit

LEMMA ExitGroupKeepsIInv ==
  ASSUME IInv, NEW p \in Pids, ExitGroup(p)
  PROVE  IInv'
<1>1. /\ Event(p) /\ UNCHANGED <<descriptors, vsizes, replay>>
      /\ exiting' = p /\ left' = {m \in Numbers : vfd_map[p][m] # None}
  BY DEF ExitGroup
<1>2. TypeOK'
  BY <1>1, EventFacts DEF IInv, TypeOK, descriptors
<1>3. ExitOK'
  BY <1>1, NoneAssumption DEF ExitOK, descriptors
<1>4. LiveIn(vfd_map, vfd, vsizes.id, replay, exiting, left)'
  <2>1. \A q \in Pids : q # exiting
    BY <1>1, EventFacts, NoneAssumption
  <2> QED
    BY <1>1, <2>1 DEF IInv, LiveIn, descriptors
<1> QED
  BY <1>1, <1>2, <1>3, <1>4 DEF IInv, descriptors

(* The object goes to the buffer, or is destroyed.                         *)
LEMMA PutBack ==
  ASSUME NEW o
  PROVE  \/ BufferWith(o) = Append(vfd_buffer, o) /\ VfdWithout(o) = vfd
         \/ BufferWith(o) = vfd_buffer /\ VfdWithout(o) = [vfd EXCEPT ![o] = None]
BY DEF BufferWith, VfdWithout

(* The types, once the parts of the state are what they should be.         *)
LEMMA TypesAfterEvent ==
  ASSUME IInv, NEW p \in Pids, Event(p), UNCHANGED exit,
         MapsOK(fd_map, vfd_map, vfd, vfd_buffer, num_mapped_fds)',
         num_mapped_fds' \in FirstFds .. FirstFds + lineno',
         vsizes' \in Vsizes, replay' \in Seq(Lines)
  PROVE  TypeOK' /\ ExitOK'
BY EventFacts, NoneAssumption
   DEF IInv, TypeOK, MapsOK, MapTypes, Vsizes, Lines, exit, ExitOK

LEMMA CloseKeepsIInv ==
  ASSUME IInv, NEW p \in Pids, NEW f \in Fds, NEW b \in BOOLEAN, Close(p, f, b)
  PROVE  IInv'
<1> DEFINE o == VfdByRealfd(p, f)
           x == vfd[o].path
           m == vfd[o].mapped_fd
           v == WithPath(vsizes, x)
           n == Line("close", v.id[x], p, m)
<1>1. Event(p) /\ o # None /\ exiting = None /\ left = {} /\ UNCHANGED exit
  BY EventFacts DEF Close, exit
<1>2. /\ m = fd_map[p][f] /\ m \in Numbers /\ m # 0 /\ x \in Paths
      /\ o = vfd_map[p][m] /\ OpenIn(m, vsizes.id[x], replay)
  BY <1>1, LookupFacts
<1>3. vsizes \in Vsizes /\ replay \in Seq(Lines) /\ num_mapped_fds \in Nat
  BY DEF IInv, TypeOK, Vsizes, Lines, FirstFds
<1>4. v = vsizes
  BY <1>2 DEF OpenIn, WithPath
<1>5. vsizes' \in Vsizes /\ vsizes'.id = vsizes.id
  BY <1>2, <1>3, <1>4, UpdatedNumbers DEF Close
<1>6. v.id[x] \in Nat
  BY SMTT(30), <1>2, <1>3, <1>4 DEF Vsizes
<1>7. n \in Lines /\ n.op = "close" /\ n.vsize = vsizes.id[x] /\ n.fd = m
  BY <1>1, <1>2, <1>4, <1>6, LineFacts, EventFacts DEF Ops
<1>8. /\ replay' = Append(replay, n)
      /\ fd_map' = [fd_map EXCEPT ![p][f] = 0]
      /\ vfd_map' = [vfd_map EXCEPT ![p] = [vfd_map[p] EXCEPT ![m] = None]]
      /\ vfd_buffer' = BufferWith(o) /\ vfd' = VfdWithout(o)
      /\ num_mapped_fds' = num_mapped_fds
  BY DEF Close
<1> HIDE DEF n, v, m, x
<1>9. MapsOK(fd_map, vfd_map, vfd, vfd_buffer, num_mapped_fds)'
  <2>1. MapsOK(fd_map, vfd_map, vfd, vfd_buffer, num_mapped_fds)
    BY DEF IInv
  <2>2. MapsOK(fd_map', vfd_map', vfd', vfd_buffer', num_mapped_fds)
    BY ZenonT(120), <1>2, <1>8, <2>1, PutBack, RemoveKeepsMaps
  <2> QED
    BY <1>8, <2>2
<1>10. replay' \in Seq(Lines)
  BY <1>3, <1>7, <1>8
<1>11. TypeOK' /\ ExitOK'
  BY <1>1, <1>5, <1>8, <1>9, <1>10, EventFacts, TypesAfterEvent
<1>12. WellFormed(replay)'
  <2>1. MayFollow(replay, n)
    BY <1>2, <1>7 DEF MayFollow
  <2> QED
    BY <1>3, <1>7, <1>8, <2>1, WellFormedAppend DEF IInv
<1>13. Counted(replay, num_mapped_fds)'
  <2>1. n.fd <= num_mapped_fds
    BY <1>2, <1>7 DEF OpenIn, IInv, Counted
  <2> QED
    BY <1>3, <1>7, <1>8, <2>1, CountedAppend DEF IInv
<1>14. LiveIn(vfd_map, vfd, vsizes.id, replay, exiting, left)'
  <2>1. vfd' = vfd \/ vfd' = [vfd EXCEPT ![vfd_map[p][m]] = None]
    BY <1>2, <1>8, PutBack
  <2>2. /\ LiveIn(vfd_map, vfd, vsizes.id, replay, exiting, {})
        /\ MapsOK(fd_map, vfd_map, vfd, vfd_buffer, num_mapped_fds)
        /\ vfd_map[p][m] # None
    BY <1>1, <1>2 DEF IInv
  <2>3. LiveIn([vfd_map EXCEPT ![p] = [vfd_map[p] EXCEPT ![m] = None]], vfd',
               vsizes.id, Append(replay, n), exiting, {})
    BY ZenonT(40), <1>2, <1>3, <1>7, <2>1, <2>2, RemoveKeepsLive
  <2> QED
    BY <1>1, <1>5, <1>8, <2>3 DEF exit
<1> QED
  BY <1>9, <1>11, <1>12, <1>13, <1>14 DEF IInv

LEMMA OpenKeepsIInv ==
  ASSUME IInv, NEW p \in Pids, NEW f \in Fds, NEW x \in Paths, Open(p, f, x)
  PROVE  IInv'
<1> DEFINE v == WithPath(vsizes, x)
           m == num_mapped_fds + 1
           n == Line("open", v.id[x], p, m)
<1>1. Event(p) /\ exiting = None /\ left = {} /\ UNCHANGED exit
  BY EventFacts DEF Open, exit
<1>2. vsizes \in Vsizes /\ replay \in Seq(Lines) /\ num_mapped_fds \in Nat
  BY SMTT(30) DEF IInv, TypeOK, Vsizes, Lines, FirstFds
<1>3. v \in Vsizes /\ v.id[x] \in Nat /\ v.id[x] # 0 /\ Keeps(vsizes, v)
  BY <1>2, WithPathNumbers DEF Vsizes
<1>4. /\ vsizes' \in Vsizes /\ Keeps(vsizes, vsizes')
      /\ vsizes'.id[x] = v.id[x]
  BY SMTT(30), <1>3, FirstUpdateNumbers DEF Open, Keeps
<1>5. m \in Numbers /\ m \in FirstFds .. FirstFds + lineno' /\ m # 0
  BY <1>1, EventFacts, NumbersFacts
<1>6. n \in Lines /\ n.op = "open" /\ n.vsize = v.id[x] /\ n.fd = m
  BY <1>1, <1>3, <1>5, LineFacts, EventFacts DEF Ops
<1>7. fd_map[p][f] = 0
  BY DEF Open, VfdByRealfd, IInv, MapsOK, Agree
<1>8. replay' = Append(replay, n)
  BY DEF Open
<1>9. PICK o \in Vfds :
        /\ IF vfd_buffer = << >> THEN vfd[o] = None ELSE o = Head(vfd_buffer)
        /\ vfd_buffer' = IF vfd_buffer = << >> THEN vfd_buffer ELSE Tail(vfd_buffer)
        /\ vfd' = [vfd EXCEPT ![o] = [mapped_fd |-> m, path |-> x]]
        /\ vfd_map' = [vfd_map EXCEPT ![p] = [vfd_map[p] EXCEPT ![m] = o]]
        /\ fd_map' = [fd_map EXCEPT ![p][f] = m]
        /\ num_mapped_fds' = m
  BY DEF Open, CreateVfd
<1> HIDE DEF n, v
<1>10. MapsOK(fd_map, vfd_map, vfd, vfd_buffer, num_mapped_fds)'
  BY ZenonT(60), <1>5, <1>7, <1>9, CreateKeepsMaps DEF IInv
<1>11. replay' \in Seq(Lines)
  BY <1>2, <1>6, <1>8
<1>12. TypeOK' /\ ExitOK'
  BY <1>1, <1>4, <1>5, <1>9, <1>10, <1>11, TypesAfterEvent
<1>13. WellFormed(replay)'
  <2>1. \A i \in DOMAIN replay : replay[i].fd # m
    BY <1>2 DEF IInv, Counted
  <2>2. MayFollow(replay, n)
    BY <1>5, <1>6, <2>1 DEF MayFollow
  <2> QED
    BY <1>2, <1>6, <1>8, <2>2, WellFormedAppend DEF IInv
<1>14. Counted(replay, num_mapped_fds)'
  BY SMTT(30), <1>2, <1>6, <1>8, <1>9, CountedAppend DEF IInv
<1>15. LiveIn(vfd_map, vfd, vsizes.id, replay, exiting, left)'
  <2>1. \A q \in Pids, i \in Numbers :
          vfd_map[q][i] # None => vfd[vfd_map[q][i]] # None
    BY DEF IInv, MapsOK, EntriesGood
  <2>2. LiveIn(vfd_map, vfd, vsizes'.id, replay, exiting, {})
    BY <1>1, <1>2, <1>4, <2>1, KeepsLive DEF IInv, MapsOK, MapTypes
  <2>3. LiveIn(vfd_map', vfd', vsizes'.id, replay', exiting, {})
    BY ZenonT(40), <1>2, <1>3, <1>4, <1>5, <1>6, <1>8, <1>9, <2>2, CreateKeepsLive DEF IInv
  <2> QED
    BY <1>1, <2>3 DEF exit
<1> QED
  BY <1>10, <1>12, <1>13, <1>14, <1>15 DEF IInv

LEMMA OpenAgainKeepsIInv ==
  ASSUME IInv, NEW p \in Pids, NEW f \in Fds, NEW x \in Paths, OpenAgain(p, f, x)
  PROVE  IInv'
<1> DEFINE old == VfdByRealfd(p, f)
           k == fd_map[p][f]
           q == vfd[old].path
           v == WithPath(vsizes, q)
           w == WithPath(Updated(v, q), x)
           m == num_mapped_fds + 1
           c == Line("close", v.id[q], p, k)
           n == Line("open", w.id[x], p, m)
           fm == [fd_map EXCEPT ![p][f] = 0]
           vm == [vfd_map EXCEPT ![p] = [vfd_map[p] EXCEPT ![k] = None]]
           ob == VfdWithout(old)
           buf == BufferWith(old)
<1>1. /\ Event(p) /\ old # None /\ exiting = None /\ left = {}
      /\ UNCHANGED exit
  BY EventFacts DEF OpenAgain, exit
<1>2. /\ k \in Numbers /\ k # 0 /\ q \in Paths /\ old = vfd_map[p][k]
      /\ OpenIn(k, vsizes.id[q], replay)
  BY <1>1, LookupFacts
<1>3. vsizes \in Vsizes /\ replay \in Seq(Lines) /\ num_mapped_fds \in Nat
  BY DEF IInv, TypeOK, Vsizes, Lines, FirstFds
<1>4. v = vsizes /\ vsizes.id[q] # 0 /\ vsizes.id[q] \in Nat
  BY <1>2, <1>3 DEF OpenIn, WithPath, Vsizes
<1>5. Updated(v, q) \in Vsizes /\ Updated(v, q).id = vsizes.id
  BY <1>2, <1>3, <1>4, UpdatedNumbers
<1>6. w \in Vsizes /\ w.id[x] \in Nat /\ w.id[x] # 0 /\ Keeps(vsizes, w)
  BY SMTT(30), <1>5, WithPathNumbers DEF Keeps, Vsizes
<1>7. vsizes' = FirstUpdate(w, x)
  BY SMTT(30) DEF OpenAgain
<1>8. /\ vsizes' \in Vsizes /\ Keeps(vsizes, vsizes')
      /\ vsizes'.id[x] = w.id[x] /\ vsizes'.id[q] = vsizes.id[q]
  BY ZenonT(60), <1>2, <1>4, <1>6, <1>7, FirstUpdateNumbers DEF Keeps
<1>9. m \in Numbers /\ m \in FirstFds .. FirstFds + lineno' /\ m # 0
  BY <1>1, EventFacts, NumbersFacts
<1> HIDE DEF q, v
<1>10. c \in Lines /\ c.op = "close" /\ c.vsize = vsizes.id[q] /\ c.fd = k
  BY SMTT(30), <1>1, <1>2, <1>4, LineFacts, EventFacts DEF Ops
<1>11. n \in Lines /\ n.op = "open" /\ n.vsize = w.id[x] /\ n.fd = m
  BY <1>1, <1>6, <1>9, LineFacts, EventFacts DEF Ops
<1>12. replay' = Append(Append(replay, c), n)
  BY SMTT(30) DEF OpenAgain, q, v
<1>13. PICK o \in Vfds :
         /\ IF buf = << >> THEN ob[o] = None ELSE o = Head(buf)
         /\ vfd_buffer' = IF buf = << >> THEN buf ELSE Tail(buf)
         /\ vfd' = [ob EXCEPT ![o] = [mapped_fd |-> m, path |-> x]]
         /\ vfd_map' = [vfd_map EXCEPT ![p] =
                          [[vfd_map[p] EXCEPT ![k] = None] EXCEPT ![m] = o]]
         /\ fd_map' = [fd_map EXCEPT ![p][f] = m]
         /\ num_mapped_fds' = m
  BY DEF OpenAgain, CreateVfd
<1>14. \/ buf = Append(vfd_buffer, old) /\ ob = vfd
       \/ buf = vfd_buffer /\ ob = [vfd EXCEPT ![old] = None]
  BY PutBack
<1> HIDE DEF old, w, c, n, ob, buf
<1>15. /\ fm[p][f] = 0
       /\ fd_map' = [fm EXCEPT ![p][f] = m]
       /\ vfd_map' = [vm EXCEPT ![p] = [vm[p] EXCEPT ![m] = o]]
  BY <1>13 DEF IInv, TypeOK
<1>16. MapsOK(fm, vm, ob, buf, num_mapped_fds)
  BY <1>2, <1>14, RemoveKeepsMaps DEF IInv
<1> DEFINE g == Append(replay, c)
<1>17. /\ LiveIn(vfd_map, vfd, vsizes'.id, replay, exiting, {})
       /\ MapsOK(fd_map, vfd_map, vfd, vfd_buffer, num_mapped_fds)
  <2>1. \A r \in Pids, i \in Numbers :
          vfd_map[r][i] # None => vfd[vfd_map[r][i]] # None
    BY DEF IInv, MapsOK, EntriesGood
  <2> QED
    BY <1>1, <1>3, <1>8, <2>1, KeepsLive DEF IInv, MapsOK, MapTypes
<1>18. LiveIn(vm, ob, vsizes'.id, g, exiting, {})
  <2>1. vfd_map[p][k] # None
    BY <1>1, <1>2
  <2>2. ob = vfd \/ ob = [vfd EXCEPT ![vfd_map[p][k]] = None]
    BY <1>2, <1>14
  <2>3. k \in Numbers /\ c \in Lines /\ c.fd = k
    BY <1>2, <1>10
  <2> HIDE DEF k
  <2> QED
    BY ZenonT(120), <1>3, <1>17, <2>1, <2>2, <2>3, RemoveKeepsLive
<1>19. g \in Seq(Lines) /\ WellFormed(g) /\ Counted(g, num_mapped_fds)
  <2>1. MayFollow(replay, c)
    BY <1>2, <1>10 DEF MayFollow
  <2>2. c.fd <= num_mapped_fds
    BY <1>2, <1>10 DEF OpenIn, IInv, Counted
  <2> QED
    BY <1>3, <1>10, <2>1, <2>2, WellFormedAppend, CountedAppend DEF IInv
<1> HIDE DEF fm, vm, g
<1>20. MapsOK(fd_map, vfd_map, vfd, vfd_buffer, num_mapped_fds)'
  <2>1. MapsOK([fm EXCEPT ![p][f] = m],
               [vm EXCEPT ![p] = [vm[p] EXCEPT ![m] = o]],
               [ob EXCEPT ![o] = [mapped_fd |-> m, path |-> x]],
               IF buf = << >> THEN buf ELSE Tail(buf), m)
    BY ZenonT(60), <1>9, <1>13, <1>15, <1>16, CreateKeepsMaps
  <2> QED
    BY <1>13, <1>15, <2>1
<1>21. replay' = Append(g, n) /\ replay' \in Seq(Lines)
  BY <1>11, <1>12, <1>19 DEF g
<1>22. TypeOK' /\ ExitOK'
  BY <1>1, <1>8, <1>9, <1>13, <1>20, <1>21, TypesAfterEvent
<1>23. WellFormed(replay)'
  <2>1. \A i \in DOMAIN g : g[i].fd # m
    BY <1>3, <1>19 DEF Counted
  <2>2. MayFollow(g, n)
    BY <1>9, <1>11, <2>1 DEF MayFollow
  <2> QED
    BY <1>11, <1>19, <1>21, <2>2, WellFormedAppend
<1>24. Counted(replay, num_mapped_fds)'
  BY SMTT(30), <1>3, <1>11, <1>13, <1>19, <1>21, CountedAppend
<1>25. LiveIn(vfd_map, vfd, vsizes.id, replay, exiting, left)'
  <2>1. n.vsize = vsizes'.id[x] /\ vsizes'.id[x] # 0
    BY <1>6, <1>8, <1>11
  <2>2. IF buf = << >> THEN ob[o] = None ELSE o = Head(buf)
    BY <1>13
  <2>3. LiveIn([vm EXCEPT ![p] = [vm[p] EXCEPT ![m] = o]],
               [ob EXCEPT ![o] = [mapped_fd |-> m, path |-> x]],
               vsizes'.id, Append(g, n), exiting, {})
    BY ZenonT(60), <1>9, <1>11, <1>16, <1>18, <1>19, <2>1, <2>2, CreateKeepsLive
  <2> QED
    BY <1>1, <1>13, <1>15, <1>21, <2>3 DEF exit
<1> QED
  BY <1>20, <1>22, <1>23, <1>24, <1>25 DEF IInv

-----------------------------------------------------------------------------
(* The end of a process.                                                   *)

LEMMA CloseOnExitKeepsIInv ==
  ASSUME IInv, CloseOnExit
  PROVE  IInv'
<1>1. PICK m \in left :
        LET o == vfd_map[exiting][m]
            x == vfd[o].path
            v == WithPath(vsizes, x)
        IN  /\ left' = left \ {m}
            /\ vsizes' = Updated(v, x)
            /\ replay' = Append(replay, Line("close", v.id[x], exiting,
                                             vfd[o].mapped_fd))
            /\ UNCHANGED <<lineno, processes, descriptors, exiting>>
  BY DEF CloseOnExit
<1> DEFINE o == vfd_map[exiting][m]
           x == vfd[o].path
           v == WithPath(vsizes, x)
           n == Line("close", v.id[x], exiting, m)
<1>2. m \in Numbers /\ exiting \in Pids /\ o # None
  BY DEF IInv, TypeOK, ExitOK
<1>3. /\ o \in Vfds /\ vfd[o] # None /\ vfd[o].mapped_fd = m /\ x \in Paths
      /\ OpenIn(m, vsizes.id[x], replay)
  BY <1>2 DEF IInv, MapsOK, MapTypes, EntriesGood, LiveIn
<1>4. /\ vsizes \in Vsizes /\ replay \in Seq(Lines) /\ num_mapped_fds \in Nat
      /\ MappedPid(exiting) \in Nat
  BY <1>2 DEF IInv, TypeOK, Vsizes, Lines, FirstFds, MappedPid
<1>5. v = vsizes
  BY SMTT(30), <1>3 DEF OpenIn, WithPath
<1>6. vsizes' \in Vsizes /\ vsizes'.id = vsizes.id
  <2>1. vsizes' = Updated(vsizes, x)
    BY <1>1, <1>5
  <2> QED
    BY <1>3, <1>4, <2>1, UpdatedNumbers
<1>7. n \in Lines /\ n.op = "close" /\ n.vsize = vsizes.id[x] /\ n.fd = m
  <2>1. vsizes.id[x] \in Nat
    BY <1>3, <1>4 DEF Vsizes
  <2>2. "close" \in Ops /\ m \in Numbers \cup {0}
    BY <1>2 DEF Ops
  <2> DEFINE id == vsizes.id[x]
  <2>3. n = Line("close", id, exiting, m) /\ id \in Nat
    BY <1>5, <2>1
  <2> HIDE DEF n, id
  <2>4. /\ Line("close", id, exiting, m) \in Lines
        /\ Line("close", id, exiting, m).op = "close"
        /\ Line("close", id, exiting, m).vsize = id
        /\ Line("close", id, exiting, m).fd = m
    BY SMTT(30), <1>4, <2>2, <2>3, LineFacts
  <2>5. n \in Lines /\ n.op = "close" /\ n.vsize = id /\ n.fd = m
    BY SMTT(30), <2>3, <2>4
  <2> QED
    BY SMTT(30), <2>5 DEF id
<1>8. /\ replay' = Append(replay, n) /\ left' = left \ {m}
      /\ UNCHANGED <<lineno, pid_map, num_mapped_pids, fd_map, vfd_map,
                     num_mapped_fds, vfd, vfd_buffer, exiting>>
  BY <1>1, <1>3 DEF processes, descriptors
<1> HIDE DEF n, v, x, o
<1>9. replay' \in Seq(Lines)
  BY <1>4, <1>7, <1>8
<1>10. TypeOK'
  BY <1>6, <1>8, <1>9 DEF IInv, TypeOK, Vsizes, Lines
<1>11. MapsOK(fd_map, vfd_map, vfd, vfd_buffer, num_mapped_fds)'
  BY <1>8 DEF IInv
<1>12. ExitOK'
  BY <1>8 DEF IInv, ExitOK
<1>13. WellFormed(replay)'
  <2>1. MayFollow(replay, n)
    BY <1>2, <1>3, <1>7, NumbersFacts DEF MayFollow
  <2> QED
    BY <1>4, <1>7, <1>8, <2>1, WellFormedAppend DEF IInv
<1>14. Counted(replay, num_mapped_fds)'
  <2>1. n.fd <= num_mapped_fds
    BY <1>3, <1>7 DEF OpenIn, IInv, Counted
  <2> QED
    BY <1>4, <1>7, <1>8, <2>1, CountedAppend DEF IInv
<1>15. LiveIn(vfd_map, vfd, vsizes.id, replay, exiting, left)'
  <2>1. LiveIn(vfd_map, vfd, vsizes.id, replay, exiting, left \ {m})
    BY DEF IInv, LiveIn
  <2>2. \A q \in Pids, i \in Numbers :
          ~(vfd_map[q][i] # None /\ (q = exiting => i \in left \ {m})
              /\ i = n.fd)
    BY <1>2, <1>7 DEF IInv, MapsOK, OneEntry, o
  <2>3. LiveIn(vfd_map, vfd, vsizes.id, Append(replay, n), exiting, left \ {m})
    BY <1>4, <1>7, <2>1, <2>2, LineKeepsLive
  <2> QED
    BY <1>6, <1>8, <2>3
<1> QED
  BY SMTT(30), <1>10, <1>11, <1>12, <1>13, <1>14, <1>15 DEF IInv

LEMMA GprocessDestroyKeepsIInv ==
  ASSUME IInv, GprocessDestroy
  PROVE  IInv'
<1> DEFINE e == exiting
           Gone(o) == \E m \in Numbers : vfd_map[e][m] = o
<1>1. /\ e \in Pids /\ left = {} /\ left' = {} /\ exiting' = None
      /\ pid_map' = [pid_map EXCEPT ![e] = 0]
      /\ fd_map' = [fd_map EXCEPT ![e] = [f \in Fds |-> 0]]
      /\ vfd_map' = [vfd_map EXCEPT ![e] = [m \in Numbers |-> None]]
      /\ vfd' = [o \in Vfds |-> IF Gone(o) THEN None ELSE vfd[o]]
      /\ UNCHANGED <<lineno, num_mapped_pids, num_mapped_fds, vfd_buffer,
                     vsizes, replay>>
  BY DEF GprocessDestroy, IInv, TypeOK
<1>2. /\ fd_map' \in [Pids -> [Fds -> Numbers \cup {0}]]
      /\ \A q \in Pids, g \in Fds :
           fd_map'[q][g] = IF q = e THEN 0 ELSE fd_map[q][g]
  BY <1>1 DEF IInv, MapsOK, MapTypes
<1>3. /\ vfd_map' \in [Pids -> [Numbers -> Vfds \cup {None}]]
      /\ \A q \in Pids, n \in Numbers :
           vfd_map'[q][n] = IF q = e THEN None ELSE vfd_map[q][n]
  BY <1>1 DEF IInv, MapsOK, MapTypes
<1>4. vfd' \in [Vfds -> [mapped_fd : Numbers, path : Paths] \cup {None}]
  BY <1>1 DEF IInv, MapsOK, MapTypes
<1>5. \A q \in Pids, n \in Numbers :
        vfd_map'[q][n] # None
          => /\ q # e /\ vfd_map'[q][n] = vfd_map[q][n]
             /\ vfd_map[q][n] \in Vfds /\ vfd'[vfd_map[q][n]] = vfd[vfd_map[q][n]]
  <2> SUFFICES ASSUME NEW q \in Pids, NEW n \in Numbers, vfd_map'[q][n] # None
               PROVE  /\ q # e /\ vfd_map'[q][n] = vfd_map[q][n]
                      /\ vfd_map[q][n] \in Vfds
                      /\ vfd'[vfd_map[q][n]] = vfd[vfd_map[q][n]]
    OBVIOUS
  <2>1. q # e /\ vfd_map'[q][n] = vfd_map[q][n] /\ vfd_map[q][n] \in Vfds
    BY <1>3 DEF IInv, MapsOK, MapTypes
  <2>2. ~Gone(vfd_map[q][n])
    BY <1>1, <1>3, <2>1 DEF IInv, MapsOK, OneEntry
  <2> QED
    BY <1>1, <2>1, <2>2
<1>6. \A i \in 1 .. Len(vfd_buffer) :
        vfd_buffer[i] \in Vfds /\ vfd'[vfd_buffer[i]] = vfd[vfd_buffer[i]]
  <2> SUFFICES ASSUME NEW i \in 1 .. Len(vfd_buffer)
               PROVE  /\ vfd_buffer[i] \in Vfds
                      /\ vfd'[vfd_buffer[i]] = vfd[vfd_buffer[i]]
    OBVIOUS
  <2>1. vfd_buffer[i] \in Vfds
    BY DEF IInv, MapsOK, MapTypes
  <2>2. ~Gone(vfd_buffer[i])
    BY <1>1, <2>1, NoneAssumption DEF IInv, MapsOK, EntriesGood
  <2> QED
    BY <1>1, <2>1, <2>2
<1> HIDE DEF Gone, e
<1>7. OneEntry(vfd_map)'
  BY <1>5 DEF IInv, MapsOK, OneEntry
<1>8. EntriesGood(vfd_map, vfd, vfd_buffer, num_mapped_fds)'
  BY <1>1, <1>5 DEF IInv, MapsOK, EntriesGood
<1>9. BufferGood(vfd, vfd_buffer)'
  BY <1>1, <1>6 DEF IInv, MapsOK, BufferGood
<1>10. Agree(fd_map, vfd_map)'
  <2> SUFFICES ASSUME NEW q \in Pids
               PROVE  /\ \A f \in Fds :
                           fd_map'[q][f] # 0 => vfd_map'[q][fd_map'[q][f]] # None
                      /\ \A m \in Numbers :
                           vfd_map'[q][m] # None => \E f \in Fds : fd_map'[q][f] = m
                      /\ \A f, g \in Fds :
                           fd_map'[q][f] = fd_map'[q][g] /\ fd_map'[q][f] # 0
                             => f = g
    BY DEF Agree
  <2>1. CASE q = e
    BY <1>2, <1>3, <2>1
  <2>2. CASE q # e
    BY <1>2, <1>3, <2>2 DEF IInv, MapsOK, MapTypes, Agree
  <2> QED
    BY <2>1, <2>2
<1>11. MapsOK(fd_map, vfd_map, vfd, vfd_buffer, num_mapped_fds)'
  BY <1>1, <1>2, <1>3, <1>4, <1>7, <1>8, <1>9, <1>10 DEF IInv, MapsOK, MapTypes
<1>12. TypeOK'
  BY SMTT(30), <1>1, <1>2, <1>3, <1>4 DEF IInv, TypeOK
<1>13. ExitOK'
  BY <1>1 DEF ExitOK
<1>14. LiveIn(vfd_map, vfd, vsizes.id, replay, exiting, left)'
  BY <1>1, <1>5 DEF IInv, LiveIn, e
<1> QED
  BY <1>1, <1>11, <1>12, <1>13, <1>14 DEF IInv

-----------------------------------------------------------------------------
LEMMA NextIInv == IInv /\ [Next]_vars => IInv'
<1> SUFFICES ASSUME IInv, [Next]_vars PROVE IInv'
  OBVIOUS
<1>1. ASSUME NEW p \in Pids, ProcessEvent(p)
      PROVE  IInv'
  <2>1. ASSUME NEW f \in Fds, NEW x \in Paths, Open(p, f, x)
        PROVE  IInv'
    BY <2>1, OpenKeepsIInv
  <2>2. ASSUME NEW f \in Fds, NEW x \in Paths, OpenAgain(p, f, x)
        PROVE  IInv'
    BY <2>2, OpenAgainKeepsIInv
  <2>3. ASSUME NEW f \in Fds, NEW b \in BOOLEAN, Use(p, f, b)
        PROVE  IInv'
    BY <2>3, UseKeepsIInv
  <2>4. ASSUME NEW f \in Fds, NEW b \in BOOLEAN, Close(p, f, b)
        PROVE  IInv'
    BY <2>4, CloseKeepsIInv
  <2>5. ASSUME NEW x \in Paths, NEW b \in BOOLEAN, PathOp(p, x, b)
        PROVE  IInv'
    BY <2>5, PathOpKeepsIInv
  <2>6. ASSUME NEW x \in Paths, NEW y \in Paths, Rename(p, x, y)
        PROVE  IInv'
    BY <2>6, RenameKeepsIInv
  <2>7. CASE Sync(p)
    BY <2>7, SyncKeepsIInv
  <2>8. CASE NoLine(p)
    BY <2>8, NoLineKeepsIInv
  <2>9. CASE ExitGroup(p)
    BY <2>9, ExitGroupKeepsIInv
  <2> QED
    BY <1>1, <2>1, <2>2, <2>3, <2>4, <2>5, <2>6, <2>7, <2>8, <2>9
       DEF ProcessEvent
<1>2. CASE Refused
  BY <1>2, RefusedKeepsIInv
<1>3. CASE CloseOnExit
  BY <1>3, CloseOnExitKeepsIInv
<1>4. CASE GprocessDestroy
  BY <1>4, GprocessDestroyKeepsIInv
<1>5. CASE UNCHANGED vars
  BY <1>5 DEF vars, processes, descriptors, exit, IInv, TypeOK, ExitOK
<1> QED
  BY <1>1, <1>2, <1>3, <1>4, <1>5 DEF Next

LEMMA AlwaysIInv == Spec => []IInv
BY InitIInv, NextIInv, PTL DEF Spec

(* Every variable stays in its range.                                      *)
THEOREM TypeCorrect == Spec => []TypeOK
<1>1. IInv => TypeOK
  BY DEF IInv
<1> QED
  BY <1>1, AlwaysIInv, PTL

(* Whatever the capture has lost, the lines that gioop.c has written are   *)
(* such as the replayer needs them: a virtual descriptor is opened once,   *)
(* first, for one path, and closed last.                                   *)
THEOREM FilesWellFormed == Spec => []DescriptorsWellFormed
<1>1. IInv => DescriptorsWellFormed
  BY DEF IInv, WellFormed, DescriptorsWellFormed
<1> QED
  BY <1>1, AlwaysIInv, PTL

(* The recycling of vfd_s objects through vfd_buffer never leaves one      *)
(* object under two descriptors.                                           *)
THEOREM VfdsInOnePlace == Spec => []VfdInOnePlace
<1>1. IInv => VfdInOnePlace
  <2> SUFFICES ASSUME IInv PROVE VfdInOnePlace
    OBVIOUS
  <2>1. DOMAIN vfd_buffer = 1 .. Len(vfd_buffer)
    BY DEF IInv, TypeOK
  <2> QED
    BY <2>1 DEF IInv, MapsOK, OneEntry, EntriesGood, BufferGood, VfdInOnePlace
<1> QED
  BY <1>1, AlwaysIInv, PTL

(* fd_map and vfd_map of a process hold the same descriptors, so that the  *)
(* writer only removes keys that are there.                                *)
THEOREM MapsStayAgree == Spec => []MapsAgree
<1>1. IInv => MapsAgree
  BY DEF IInv, MapsOK, Agree, MapsAgree
<1> QED
  BY <1>1, AlwaysIInv, PTL

-----------------------------------------------------------------------------
(* The numbers of the paths and of the processes.                          *)

(* No two paths have one number, and the count covers all.                 *)
IdsOK(v) ==
  /\ v \in Vsizes
  /\ \A x \in Paths : v.id[x] <= v.num
  /\ \A x, y \in Paths : v.id[x] # 0 /\ v.id[x] = v.id[y] => x = y

(* From v to w paths may have got numbers.                                 *)
Grown(v, w) == IdsOK(w) /\ Keeps(v, w) /\ v.num <= w.num

LEMMA GrownSelf ==
  ASSUME NEW v, IdsOK(v)
  PROVE  Grown(v, v)
BY DEF Grown, Keeps, IdsOK, Vsizes

LEMMA GrownTwice ==
  ASSUME NEW u \in Vsizes, NEW v \in Vsizes, NEW w, Grown(u, v), Grown(v, w)
  PROVE  Grown(u, w)
<1>1. w \in Vsizes
  BY DEF Grown, IdsOK
<1> QED
  BY <1>1 DEF Grown, Keeps, Vsizes

LEMMA WithPathGrows ==
  ASSUME NEW v, IdsOK(v), NEW x \in Paths
  PROVE  Grown(v, WithPath(v, x)) /\ WithPath(v, x).id[x] \in Nat \ {0}
<1>1. v \in Vsizes /\ v.num \in Nat /\ \A y \in Paths : v.id[y] \in Nat
  BY DEF IdsOK, Vsizes
<1>2. /\ WithPath(v, x) \in Vsizes /\ WithPath(v, x).id[x] # 0
      /\ Keeps(v, WithPath(v, x))
  BY <1>1, WithPathNumbers
<1>3. CASE v.id[x] # 0
  BY <1>1, <1>2, <1>3 DEF WithPath, Grown, IdsOK
<1>4. CASE v.id[x] = 0
  <2>1. WithPath(v, x) = [id |-> [v.id EXCEPT ![x] = v.num + 1],
                          num |-> v.num + 1, updated |-> v.updated]
    BY <1>1, <1>4 DEF WithPath, Vsizes
  <2>2. \A y \in Paths :
          WithPath(v, x).id[y] = IF y = x THEN v.num + 1 ELSE v.id[y]
    BY <1>1, <2>1 DEF Vsizes
  <2>3. WithPath(v, x).num = v.num + 1
    BY <2>1
  <2>4. IdsOK(WithPath(v, x))
    BY <1>1, <1>2, <2>2, <2>3 DEF IdsOK
  <2> QED
    BY <1>1, <1>2, <2>2, <2>3, <2>4 DEF Grown
<1> QED
  BY <1>3, <1>4

LEMMA UpdatedGrows ==
  ASSUME NEW v, IdsOK(v), NEW x \in Paths
  PROVE  Grown(v, Updated(v, x))
<1>1. /\ v \in Vsizes /\ Updated(v, x) \in Vsizes /\ Updated(v, x).id = v.id
  BY UpdatedNumbers DEF IdsOK
<1>2. Updated(v, x).num = v.num /\ v.num \in Nat
  BY <1>1 DEF Updated, Vsizes
<1> QED
  BY <1>1, <1>2 DEF Grown, IdsOK, Keeps

LEMMA FirstUpdateGrows ==
  ASSUME NEW v, IdsOK(v), NEW x \in Paths
  PROVE  Grown(v, FirstUpdate(v, x))
<1> DEFINE y == Parent[x]
<1>1. y \in Paths /\ v \in Vsizes
  BY ParentAssumption DEF IdsOK
<1>2. Grown(v, WithPath(v, y)) /\ IdsOK(WithPath(v, y)) /\ WithPath(v, y) \in Vsizes
  BY <1>1, WithPathGrows DEF Grown, IdsOK
<1>3. Grown(v, Updated(WithPath(v, y), y))
  BY <1>1, <1>2, UpdatedGrows, GrownTwice
<1>4. Grown(v, v)
  BY <1>1 DEF Grown, Keeps, IdsOK, Vsizes
<1>5. Grown(v, WithParent(v, x)) /\ IdsOK(WithParent(v, x)) /\ WithParent(v, x) \in Vsizes
  BY <1>3, <1>4 DEF WithParent, Grown, IdsOK
<1>6. Grown(v, Updated(WithParent(v, x), x))
  BY <1>1, <1>5, UpdatedGrows, GrownTwice
<1> QED
  BY <1>4, <1>6 DEF FirstUpdate

(* A line bears the number of a path, or none.                             *)
Numbered(n, v) == n = 0 \/ \E x \in Paths : v.id[x] = n

PidsOK ==
  /\ \A p \in Pids : pid_map[p] <= num_mapped_pids
  /\ exiting # None => pid_map[exiting] # 0

NumInv ==
  /\ IdsOK(vsizes)
  /\ PidsOK
  /\ \A i \in DOMAIN replay : /\ Numbered(replay[i].vsize, vsizes)
                              /\ replay[i].pid \in 1 .. num_mapped_pids

LEMMA NumberedGrows ==
  ASSUME NEW v, NEW w, Grown(v, w), NEW n, Numbered(n, v)
  PROVE  Numbered(n, w)
BY DEF Grown, Keeps, Numbered

(* The process of the event has a number.                                  *)
LEMMA EventPids ==
  ASSUME IInv, NumInv, NEW p \in Pids, Event(p)
  PROVE  /\ \A q \in Pids : pid_map'[q] <= num_mapped_pids'
         /\ pid_map'[p] # 0
         /\ MappedPid(p) \in 1 .. num_mapped_pids'
         /\ num_mapped_pids \in Nat /\ num_mapped_pids' \in Nat
         /\ num_mapped_pids <= num_mapped_pids'
<1>1. /\ pid_map \in [Pids -> Nat] /\ num_mapped_pids \in Nat
      /\ \A q \in Pids : pid_map[q] <= num_mapped_pids
  BY DEF IInv, TypeOK, NumInv, PidsOK
<1>2. MappedPid(p) \in 1 .. num_mapped_pids' /\ num_mapped_pids' \in Nat
      /\ num_mapped_pids <= num_mapped_pids'
  BY <1>1 DEF Event, GprocessByRealpid, MappedPid
<1>3. \A q \in Pids : pid_map'[q] = IF q = p THEN MappedPid(p) ELSE pid_map[q]
  BY <1>1 DEF Event, GprocessByRealpid
<1> QED
  BY <1>1, <1>2, <1>3

(* Lines that are written with the numbers of known paths.                 *)
LEMMA LineKeepsNumbers ==
  ASSUME NEW f \in Seq(Lines), NEW v, NEW w, Grown(v, w), NEW i \in Nat,
         NEW j \in Nat, i <= j,
         \A k \in DOMAIN f : Numbered(f[k].vsize, v) /\ f[k].pid \in 1 .. i,
         NEW n \in Lines, Numbered(n.vsize, w), n.pid \in 1 .. j
  PROVE  \A k \in DOMAIN Append(f, n) :
           Numbered(Append(f, n)[k].vsize, w) /\ Append(f, n)[k].pid \in 1 .. j
<1>1. \A k \in DOMAIN f : Numbered(f[k].vsize, w) /\ f[k].pid \in 1 .. j
  BY NumberedGrows
<1> QED
  BY <1>1, AppendFacts

-----------------------------------------------------------------------------
(* What the handlers write, in terms of paths.                             *)

LEMMA StateFacts ==
  ASSUME IInv
  PROVE  /\ replay \in Seq(Lines) /\ vsizes \in Vsizes
         /\ num_mapped_fds \in Nat /\ num_mapped_pids \in Nat
         /\ pid_map \in [Pids -> Nat]
BY SMTT(60) DEF IInv, TypeOK, Lines, Vsizes, FirstFds

(* The line of an open bears the new number and the number of the path.    *)
LEMMA OpenLines ==
  ASSUME IInv, NumInv, NEW p \in Pids, NEW f \in Fds, NEW x \in Paths, Open(p, f, x)
  PROVE  /\ Event(p) /\ Grown(vsizes, vsizes')
         /\ num_mapped_fds' = num_mapped_fds + 1
         /\ num_mapped_fds + 1 \in Numbers
         /\ \E n \in Lines :
              /\ replay' = Append(replay, n)
              /\ n.op = "open" /\ n.fd = num_mapped_fds + 1 /\ n.pid = MappedPid(p)
              /\ n.vsize = vsizes'.id[x] /\ n.vsize # 0
<1> DEFINE v == WithPath(vsizes, x)
           m == num_mapped_fds + 1
           n == Line("open", v.id[x], p, m)
<1>1. Event(p) /\ num_mapped_fds' = m
  BY DEF Open, CreateVfd
<1>2. Grown(vsizes, v) /\ v.id[x] \in Nat \ {0} /\ IdsOK(v) /\ v \in Vsizes
  BY WithPathGrows DEF NumInv, Grown, IdsOK
<1>3. vsizes' = FirstUpdate(v, x) /\ replay' = Append(replay, n)
  BY DEF Open
<1>4. Grown(v, vsizes')
  BY <1>2, <1>3, FirstUpdateGrows
<1>5. Grown(vsizes, vsizes') /\ vsizes'.id[x] = v.id[x]
  BY <1>2, <1>4, GrownTwice, StateFacts DEF Grown, Keeps
<1>6. m \in Numbers /\ MappedPid(p) \in Nat
  BY <1>1, EventFacts
<1>7. n \in Lines /\ n.op = "open" /\ n.vsize = v.id[x] /\ n.fd = m
      /\ n.pid = MappedPid(p)
  BY SMTT(30), <1>2, <1>6, LineFacts DEF Ops, Line
<1> QED
  BY <1>1, <1>2, <1>3, <1>5, <1>6, <1>7

(* The path of a descriptor that is open has its number already.           *)
LEMMA FoundPath ==
  ASSUME IInv, NumInv, NEW p \in Pids, NEW f \in Fds,
         VfdByRealfd(p, f) # None, exiting = None
  PROVE  LET o == VfdByRealfd(p, f)
         IN  /\ fd_map[p][f] \in Numbers /\ fd_map[p][f] # 0
             /\ vfd_map[p][fd_map[p][f]] # None
             /\ o = vfd_map[p][fd_map[p][f]] /\ o \in Vfds
             /\ vfd[o].mapped_fd = fd_map[p][f] /\ vfd[o].path \in Paths
             /\ vsizes.id[vfd[o].path] \in Nat \ {0}
             /\ WithPath(vsizes, vfd[o].path) = vsizes
             /\ Grown(vsizes, vsizes) /\ Grown(vsizes, Updated(vsizes, vfd[o].path))
<1> DEFINE o == VfdByRealfd(p, f)
<1>1. /\ fd_map[p][f] \in Numbers /\ fd_map[p][f] # 0
      /\ o = vfd_map[p][fd_map[p][f]] /\ o \in Vfds /\ o # None
      /\ vfd[o].mapped_fd = fd_map[p][f] /\ vfd[o].path \in Paths
      /\ OpenIn(fd_map[p][f], vsizes.id[vfd[o].path], replay)
  BY SMTT(30), LookupFacts
<1> HIDE DEF o
<1>2. vsizes.id[vfd[o].path] \in Nat \ {0} /\ WithPath(vsizes, vfd[o].path) = vsizes
  BY ZenonT(40), <1>1, StateFacts DEF OpenIn, WithPath, Vsizes
<1>3. Grown(vsizes, vsizes) /\ Grown(vsizes, Updated(vsizes, vfd[o].path))
  BY <1>1, GrownSelf, UpdatedGrows DEF NumInv
<1> QED
  BY <1>1, <1>2, <1>3 DEF o

(* An open of a descriptor that was not closed writes its close before.    *)
LEMMA OpenAgainLines ==
  ASSUME IInv, NumInv, NEW p \in Pids, NEW f \in Fds, NEW x \in Paths,
         OpenAgain(p, f, x)
  PROVE  /\ Event(p) /\ Grown(vsizes, vsizes') /\ VfdByRealfd(p, f) # None
         /\ num_mapped_fds' = num_mapped_fds + 1
         /\ num_mapped_fds + 1 \in Numbers
         /\ \E c, n \in Lines :
              /\ replay' = Append(Append(replay, c), n)
              /\ c.op = "close" /\ c.fd = fd_map[p][f] /\ c.pid = MappedPid(p)
              /\ c.vsize = vsizes.id[vfd[VfdByRealfd(p, f)].path]
              /\ n.op = "open" /\ n.fd = num_mapped_fds + 1 /\ n.pid = MappedPid(p)
              /\ n.vsize = vsizes'.id[x] /\ n.vsize # 0
<1> DEFINE q == vfd[VfdByRealfd(p, f)].path
           k == fd_map[p][f]
           u == Updated(vsizes, q)
           w == WithPath(u, x)
           m == num_mapped_fds + 1
           c == Line("close", vsizes.id[q], p, k)
           n == Line("open", w.id[x], p, m)
<1>1. /\ Event(p) /\ num_mapped_fds' = m /\ VfdByRealfd(p, f) # None
      /\ exiting = None
  BY DEF OpenAgain, CreateVfd, Event
<1>2. /\ k \in Numbers /\ q \in Paths /\ vsizes.id[q] \in Nat
      /\ WithPath(vsizes, q) = vsizes /\ Grown(vsizes, u)
  BY <1>1, FoundPath
<1>3. vsizes' = FirstUpdate(w, x) /\ replay' = Append(Append(replay, c), n)
  BY <1>2 DEF OpenAgain
<1>4. m \in Numbers /\ MappedPid(p) \in Nat
  BY <1>1, EventFacts
<1>5. c \in Lines /\ c.op = "close" /\ c.vsize = vsizes.id[q] /\ c.fd = k
      /\ c.pid = MappedPid(p)
  BY <1>2, <1>4, LineFacts DEF Ops, Line
<1> HIDE DEF q, k, u
<1>6. IdsOK(u) /\ u \in Vsizes /\ vsizes \in Vsizes
  BY <1>2, StateFacts DEF Grown, IdsOK
<1>7. Grown(u, w) /\ w.id[x] \in Nat \ {0} /\ IdsOK(w) /\ w \in Vsizes
  BY <1>6, WithPathGrows DEF Grown, IdsOK
<1>8. Grown(w, vsizes')
  BY <1>3, <1>7, FirstUpdateGrows
<1>9. Grown(vsizes, vsizes') /\ vsizes'.id[x] = w.id[x]
  <2>1. Grown(vsizes, w)
    BY <1>2, <1>6, <1>7, GrownTwice
  <2> QED
    BY <1>6, <1>7, <1>8, <2>1, GrownTwice DEF Grown, Keeps
<1>10. n \in Lines /\ n.op = "open" /\ n.vsize = w.id[x] /\ n.fd = m
      /\ n.pid = MappedPid(p)
  BY SMTT(30), <1>4, <1>7, LineFacts DEF Ops, Line
<1> HIDE DEF w, c, n
<1> QED
  BY <1>1, <1>3, <1>4, <1>5, <1>7, <1>9, <1>10 DEF q, k

LEMMA UseLines ==
  ASSUME IInv, NumInv, NEW p \in Pids, NEW f \in Fds, NEW b \in BOOLEAN, Use(p, f, b)
  PROVE  /\ Event(p) /\ Grown(vsizes, vsizes') /\ VfdByRealfd(p, f) # None
         /\ \E n \in Lines :
              /\ replay' = Append(replay, n)
              /\ n.op = "use" /\ n.fd = fd_map[p][f] /\ n.pid = MappedPid(p)
              /\ n.vsize = vsizes.id[vfd[VfdByRealfd(p, f)].path]
<1> DEFINE q == vfd[VfdByRealfd(p, f)].path
           k == fd_map[p][f]
           n == Line("use", vsizes.id[q], p, k)
<1>1. Event(p) /\ VfdByRealfd(p, f) # None /\ exiting = None
  BY DEF Use, Event
<1>2. /\ k \in Numbers /\ vsizes.id[q] \in Nat
      /\ vfd[VfdByRealfd(p, f)].mapped_fd = k
      /\ WithPath(vsizes, q) = vsizes
      /\ Grown(vsizes, vsizes) /\ Grown(vsizes, Updated(vsizes, q))
  BY <1>1, FoundPath
<1>3. replay' = Append(replay, n) /\ Grown(vsizes, vsizes')
  BY <1>2 DEF Use
<1>4. n \in Lines /\ n.op = "use" /\ n.vsize = vsizes.id[q] /\ n.fd = k
      /\ n.pid = MappedPid(p)
  BY SMTT(30), <1>1, <1>2, EventFacts, LineFacts DEF Ops, Line
<1> QED
  BY <1>1, <1>3, <1>4

LEMMA CloseLines ==
  ASSUME IInv, NumInv, NEW p \in Pids, NEW f \in Fds, NEW b \in BOOLEAN, Close(p, f, b)
  PROVE  /\ Event(p) /\ Grown(vsizes, vsizes') /\ VfdByRealfd(p, f) # None
         /\ num_mapped_fds' = num_mapped_fds
         /\ \E n \in Lines :
              /\ replay' = Append(replay, n)
              /\ n.op = "close" /\ n.fd = fd_map[p][f] /\ n.pid = MappedPid(p)
              /\ n.vsize = vsizes.id[vfd[VfdByRealfd(p, f)].path]
<1> DEFINE q == vfd[VfdByRealfd(p, f)].path
           k == fd_map[p][f]
           n == Line("close", vsizes.id[q], p, k)
<1>1. Event(p) /\ VfdByRealfd(p, f) # None /\ exiting = None
      /\ num_mapped_fds' = num_mapped_fds
  BY DEF Close, Event
<1>2. /\ k \in Numbers /\ vsizes.id[q] \in Nat
      /\ vfd[VfdByRealfd(p, f)].mapped_fd = k
      /\ WithPath(vsizes, q) = vsizes
      /\ Grown(vsizes, vsizes) /\ Grown(vsizes, Updated(vsizes, q))
  BY <1>1, FoundPath
<1>3. replay' = Append(replay, n) /\ Grown(vsizes, vsizes')
  BY <1>2 DEF Close
<1>4. n \in Lines /\ n.op = "close" /\ n.vsize = vsizes.id[q] /\ n.fd = k
      /\ n.pid = MappedPid(p)
  BY <1>1, <1>2, EventFacts, LineFacts DEF Ops, Line
<1> QED
  BY <1>1, <1>3, <1>4

LEMMA PathOpLines ==
  ASSUME IInv, NumInv, NEW p \in Pids, NEW x \in Paths, NEW b \in BOOLEAN,
         PathOp(p, x, b)
  PROVE  /\ Event(p) /\ Grown(vsizes, vsizes')
         /\ \E n \in Lines :
              /\ replay' = Append(replay, n)
              /\ n.op = "path" /\ n.fd = 0 /\ n.pid = MappedPid(p)
              /\ n.vsize = vsizes'.id[x] /\ n.vsize # 0
<1> DEFINE v == WithPath(vsizes, x)
           n == Line("path", v.id[x], p, 0)
<1>1. Event(p) /\ replay' = Append(replay, n)
  BY DEF PathOp
<1>2. Grown(vsizes, v) /\ v.id[x] \in Nat \ {0} /\ IdsOK(v) /\ v \in Vsizes
  BY WithPathGrows DEF NumInv, Grown, IdsOK
<1>3. Grown(v, v) /\ Grown(v, FirstUpdate(v, x))
  BY <1>2, GrownSelf, FirstUpdateGrows
<1>4. Grown(v, vsizes')
  BY <1>3 DEF PathOp
<1>5. Grown(vsizes, vsizes') /\ vsizes'.id[x] = v.id[x]
  BY <1>2, <1>4, GrownTwice, StateFacts DEF Grown, Keeps
<1>6. n \in Lines /\ n.op = "path" /\ n.vsize = v.id[x] /\ n.fd = 0
      /\ n.pid = MappedPid(p)
  BY <1>1, <1>2, EventFacts, LineFacts DEF Ops, Line
<1> QED
  BY <1>1, <1>2, <1>5, <1>6

LEMMA RenameLines ==
  ASSUME IInv, NumInv, NEW p \in Pids, NEW x \in Paths, NEW y \in Paths, Rename(p, x, y)
  PROVE  /\ Event(p) /\ Grown(vsizes, vsizes')
         /\ \E n \in Lines :
              /\ replay' = Append(replay, n)
              /\ n.op = "path" /\ n.fd = 0 /\ n.pid = MappedPid(p)
              /\ n.vsize = vsizes'.id[x] /\ n.vsize # 0
<1> DEFINE v == WithPath(vsizes, x)
           w == WithPath(v, y)
           n == Line("path", v.id[x], p, 0)
<1>1. /\ Event(p) /\ replay' = Append(replay, n)
      /\ vsizes' = FirstUpdate(FirstUpdate(w, x), y)
  BY DEF Rename
<1>2. Grown(vsizes, v) /\ v.id[x] \in Nat \ {0} /\ IdsOK(v) /\ v \in Vsizes
  BY WithPathGrows DEF NumInv, Grown, IdsOK
<1>3. Grown(v, w) /\ IdsOK(w) /\ w \in Vsizes
  BY <1>2, WithPathGrows DEF Grown, IdsOK
<1>4. /\ Grown(w, FirstUpdate(w, x)) /\ IdsOK(FirstUpdate(w, x))
      /\ FirstUpdate(w, x) \in Vsizes
  BY <1>3, FirstUpdateGrows DEF Grown, IdsOK
<1>5. Grown(FirstUpdate(w, x), vsizes')
  BY <1>1, <1>4, FirstUpdateGrows
<1>6. Grown(v, vsizes')
  BY <1>2, <1>3, <1>4, <1>5, GrownTwice
<1>7. Grown(vsizes, vsizes') /\ vsizes'.id[x] = v.id[x]
  BY <1>2, <1>6, GrownTwice, StateFacts DEF Grown, Keeps
<1>8. n \in Lines /\ n.op = "path" /\ n.vsize = v.id[x] /\ n.fd = 0
      /\ n.pid = MappedPid(p)
  BY SMTT(30), <1>1, <1>2, EventFacts, LineFacts DEF Ops, Line
<1> QED
  BY <1>1, <1>2, <1>7, <1>8

LEMMA CloseOnExitLines ==
  ASSUME IInv, NumInv, CloseOnExit
  PROVE  /\ exiting \in Pids /\ Grown(vsizes, vsizes')
         /\ UNCHANGED <<lineno, processes, descriptors, exiting>>
         /\ \E m \in left, n \in Lines :
              /\ m \in Numbers /\ vfd_map[exiting][m] # None
              /\ left' = left \ {m}
              /\ replay' = Append(replay, n)
              /\ n.op = "close" /\ n.fd = m /\ n.pid = MappedPid(exiting)
              /\ n.vsize = vsizes.id[vfd[vfd_map[exiting][m]].path]
              /\ vfd[vfd_map[exiting][m]].path \in Paths
              /\ n.vsize # 0
<1>1. PICK m \in left :
        LET o == vfd_map[exiting][m]
            x == vfd[o].path
            v == WithPath(vsizes, x)
        IN  /\ left' = left \ {m}
            /\ vsizes' = Updated(v, x)
            /\ replay' = Append(replay, Line("close", v.id[x], exiting,
                                             vfd[o].mapped_fd))
            /\ UNCHANGED <<lineno, processes, descriptors, exiting>>
  BY DEF CloseOnExit
<1> DEFINE o == vfd_map[exiting][m]
           x == vfd[o].path
           n == Line("close", vsizes.id[x], exiting, m)
<1>2. m \in Numbers /\ exiting \in Pids /\ o # None
  BY DEF IInv, TypeOK, ExitOK
<1>3. /\ o \in Vfds /\ vfd[o] # None /\ vfd[o].mapped_fd = m /\ x \in Paths
      /\ OpenIn(m, vsizes.id[x], replay)
  BY SMTT(30), <1>2 DEF IInv, MapsOK, MapTypes, EntriesGood, LiveIn
<1>4. WithPath(vsizes, x) = vsizes /\ vsizes.id[x] \in Nat \ {0}
      /\ MappedPid(exiting) \in Nat
  BY SMTT(30), <1>2, <1>3, StateFacts DEF OpenIn, WithPath, Vsizes, MappedPid
<1>5. Grown(vsizes, vsizes')
  BY <1>1, <1>3, <1>4, UpdatedGrows DEF NumInv
<1>6. n \in Lines /\ n.op = "close" /\ n.vsize = vsizes.id[x] /\ n.fd = m
      /\ n.pid = MappedPid(exiting)
  BY SMTT(30), <1>2, <1>4, LineFacts DEF Ops, Line
<1>7. replay' = Append(replay, n)
  BY <1>1, <1>3, <1>4
<1> QED
  BY ZenonT(40), <1>1, <1>2, <1>3, <1>4, <1>5, <1>6, <1>7

-----------------------------------------------------------------------------
(* The numbers in the lines are those of known paths and processes.        *)

LEMMA InitNumInv == Init => NumInv
<1> SUFFICES ASSUME Init PROVE NumInv
  OBVIOUS
<1>1. IdsOK(vsizes)
  BY DEF Init, IdsOK, Vsizes
<1> QED
  BY <1>1 DEF Init, NumInv, PidsOK

(* An event that writes one line.                                          *)
LEMMA LineKeepsNumInv ==
  ASSUME IInv, NumInv, NEW p \in Pids, Event(p), UNCHANGED exit,
         Grown(vsizes, vsizes'),
         NEW n \in Lines, replay' = Append(replay, n), n.pid = MappedPid(p),
         Numbered(n.vsize, vsizes')
  PROVE  NumInv'
<1>1. IdsOK(vsizes)'
  BY DEF Grown
<1>2. PidsOK'
  BY EventPids, EventFacts DEF PidsOK, exit
<1>3. \A k \in DOMAIN replay' : /\ Numbered(replay'[k].vsize, vsizes')
                                /\ replay'[k].pid \in 1 .. num_mapped_pids'
  BY ZenonT(60), EventPids, StateFacts, LineKeepsNumbers DEF NumInv
<1> QED
  BY <1>1, <1>2, <1>3 DEF NumInv

(* An event that writes two.                                               *)
LEMMA LinesKeepNumInv ==
  ASSUME IInv, NumInv, NEW p \in Pids, Event(p), UNCHANGED exit,
         Grown(vsizes, vsizes'),
         NEW c \in Lines, NEW n \in Lines,
         replay' = Append(Append(replay, c), n),
         c.pid = MappedPid(p), n.pid = MappedPid(p),
         Numbered(c.vsize, vsizes'), Numbered(n.vsize, vsizes')
  PROVE  NumInv'
<1>1. IdsOK(vsizes)'
  BY DEF Grown
<1>2. PidsOK'
  BY EventPids, EventFacts DEF PidsOK, exit
<1>3. /\ Append(replay, c) \in Seq(Lines)
      /\ num_mapped_pids' \in Nat /\ num_mapped_pids' <= num_mapped_pids'
  BY EventPids, StateFacts, AppendFacts
<1>4. \A k \in DOMAIN Append(replay, c) :
        /\ Numbered(Append(replay, c)[k].vsize, vsizes')
        /\ Append(replay, c)[k].pid \in 1 .. num_mapped_pids'
  BY EventPids, StateFacts, LineKeepsNumbers DEF NumInv
<1>5. \A k \in DOMAIN replay' : /\ Numbered(replay'[k].vsize, vsizes')
                                /\ replay'[k].pid \in 1 .. num_mapped_pids'
  BY ZenonT(60), <1>1, <1>3, <1>4, EventPids, GrownSelf, LineKeepsNumbers
<1> QED
  BY <1>1, <1>2, <1>5 DEF NumInv

LEMMA NextNumInv == IInv /\ NumInv /\ [Next]_vars => NumInv'
<1> SUFFICES ASSUME IInv, NumInv, [Next]_vars PROVE NumInv'
  OBVIOUS
<1>0. \A x \in Paths : Numbered(vsizes.id[x], vsizes) /\ Numbered(vsizes'.id[x], vsizes')
  BY DEF Numbered
<1>1. ASSUME NEW p \in Pids, NEW f \in Fds, NEW x \in Paths, Open(p, f, x)
      PROVE  NumInv'
  <2>1. UNCHANGED exit
    BY <1>1 DEF Open
  <2> QED
    BY <1>0, <1>1, <2>1, OpenLines, LineKeepsNumInv
<1>2. ASSUME NEW p \in Pids, NEW f \in Fds, NEW x \in Paths, OpenAgain(p, f, x)
      PROVE  NumInv'
  <2>1. UNCHANGED exit
    BY <1>2 DEF OpenAgain
  <2>2. vfd[VfdByRealfd(p, f)].path \in Paths
    BY <1>2, LookupFacts, OpenAgainLines
  <2>3. Numbered(vsizes.id[vfd[VfdByRealfd(p, f)].path], vsizes')
    BY <1>0, <1>2, <2>2, OpenAgainLines, NumberedGrows
  <2> QED
    BY <1>0, <1>2, <2>1, <2>3, OpenAgainLines, LinesKeepNumInv
<1>3. ASSUME NEW p \in Pids, NEW f \in Fds, NEW b \in BOOLEAN,
             Use(p, f, b) \/ Close(p, f, b)
      PROVE  NumInv'
  <2>1. UNCHANGED exit
    BY <1>3 DEF Use, Close
  <2>2. /\ Event(p) /\ Grown(vsizes, vsizes') /\ VfdByRealfd(p, f) # None
        /\ \E n \in Lines :
              /\ replay' = Append(replay, n) /\ n.pid = MappedPid(p)
              /\ n.vsize = vsizes.id[vfd[VfdByRealfd(p, f)].path]
    BY <1>3, UseLines, CloseLines
  <2>3. vfd[VfdByRealfd(p, f)].path \in Paths
    BY <2>2, LookupFacts
  <2>4. Numbered(vsizes.id[vfd[VfdByRealfd(p, f)].path], vsizes')
    BY <1>0, <2>2, <2>3, NumberedGrows
  <2> QED
    BY <2>1, <2>2, <2>4, LineKeepsNumInv
<1>4. ASSUME NEW p \in Pids, NEW x \in Paths, NEW b \in BOOLEAN, PathOp(p, x, b)
      PROVE  NumInv'
  <2>1. UNCHANGED exit
    BY <1>4 DEF PathOp
  <2> QED
    BY <1>0, <1>4, <2>1, PathOpLines, LineKeepsNumInv
<1>5. ASSUME NEW p \in Pids, NEW x \in Paths, NEW y \in Paths, Rename(p, x, y)
      PROVE  NumInv'
  <2>1. UNCHANGED exit
    BY <1>5 DEF Rename
  <2> QED
    BY <1>0, <1>5, <2>1, RenameLines, LineKeepsNumInv
<1>6. ASSUME NEW p \in Pids, Sync(p)
      PROVE  NumInv'
  <2> DEFINE n == Line("path", 0, p, 0)
  <2>1. Event(p) /\ replay' = Append(replay, n) /\ UNCHANGED <<vsizes, exit>>
    BY <1>6 DEF Sync
  <2>2. n \in Lines /\ n.vsize = 0 /\ n.pid = MappedPid(p)
    BY <2>1, EventFacts, LineFacts DEF Ops, Line
  <2>3. Grown(vsizes, vsizes') /\ Numbered(n.vsize, vsizes')
    BY <2>1, <2>2, GrownSelf DEF NumInv, Numbered
  <2> QED
    BY <2>1, <2>2, <2>3, LineKeepsNumInv
<1>7. ASSUME NEW p \in Pids, NoLine(p) \/ ExitGroup(p)
      PROVE  NumInv'
  <2>1. Event(p) /\ UNCHANGED <<vsizes, replay>>
    BY <1>7 DEF NoLine, ExitGroup
  <2>2. exiting' = None \/ exiting' = p
    BY <1>7, <2>1, EventFacts DEF NoLine, ExitGroup, exit
  <2>3. PidsOK'
    BY <2>1, <2>2, EventPids DEF PidsOK
  <2>4. \A k \in DOMAIN replay : replay[k].pid \in 1 .. num_mapped_pids'
    BY <2>1, EventPids DEF NumInv
  <2> QED
    BY <2>1, <2>3, <2>4 DEF NumInv
<1>8. CASE Refused
  BY <1>8 DEF Refused, NumInv, PidsOK, processes, exit
<1>9. CASE CloseOnExit
  <2>1. /\ exiting \in Pids /\ Grown(vsizes, vsizes')
        /\ UNCHANGED <<pid_map, num_mapped_pids, exiting>>
    BY <1>9, CloseOnExitLines DEF processes
  <2>2. PICK n \in Lines :
          /\ replay' = Append(replay, n) /\ n.pid = MappedPid(exiting)
          /\ \E x \in Paths : n.vsize = vsizes.id[x]
    BY <1>9, CloseOnExitLines
  <2>3. n.pid \in 1 .. num_mapped_pids
    BY <2>1, <2>2, StateFacts, NoneAssumption DEF NumInv, PidsOK, MappedPid
  <2>4. Numbered(n.vsize, vsizes')
    BY <1>0, <2>1, <2>2, NumberedGrows
  <2>5. num_mapped_pids <= num_mapped_pids
    BY StateFacts
  <2>6. \A k \in DOMAIN replay' : /\ Numbered(replay'[k].vsize, vsizes')
                                  /\ replay'[k].pid \in 1 .. num_mapped_pids
    BY ZenonT(60), <2>1, <2>2, <2>3, <2>4, <2>5, StateFacts, LineKeepsNumbers DEF NumInv
  <2> QED
    BY <2>1, <2>6 DEF NumInv, PidsOK, Grown
<1>10. CASE GprocessDestroy
  <2>1. /\ exiting \in Pids /\ exiting' = None
        /\ pid_map' = [pid_map EXCEPT ![exiting] = 0]
        /\ UNCHANGED <<num_mapped_pids, vsizes, replay>>
    BY <1>10 DEF GprocessDestroy, IInv, TypeOK
  <2>2. PidsOK'
    BY <2>1, StateFacts DEF NumInv, PidsOK
  <2> QED
    BY <2>1, <2>2 DEF NumInv
<1>11. CASE UNCHANGED vars
  BY <1>11 DEF vars, processes, exit, NumInv, PidsOK
<1> QED
  BY <1>1, <1>2, <1>3, <1>4, <1>5, <1>6, <1>7, <1>8, <1>9, <1>10, <1>11
     DEF Next, ProcessEvent

LEMMA AlwaysNumInv == Spec => [](IInv /\ NumInv)
<1>1. IInv /\ NumInv /\ [Next]_vars => (IInv /\ NumInv)'
  BY NextIInv, NextNumInv
<1>2. Init => IInv /\ NumInv
  BY InitIInv, InitNumInv
<1> QED
  BY <1>1, <1>2, PTL DEF Spec

(* The sizes in the header cover every number in the lines, for any        *)
(* capture: the replayer's maps, which are as large as the header says,    *)
(* have an entry for each.                                                 *)
THEOREM HeaderCovers == Spec => []HeaderCoversLines
<1>1. IInv /\ NumInv => HeaderCoversLines
  <2> SUFFICES ASSUME IInv, NumInv PROVE HeaderCoversLines
    OBVIOUS
  <2>1. \A i \in DOMAIN replay : replay[i].vsize <= vsizes.num
    BY StateFacts DEF NumInv, IdsOK, Numbered, Vsizes
  <2> QED
    BY <2>1 DEF NumInv, IdsOK, IInv, Counted, HeaderCoversLines
<1> QED
  BY <1>1, AlwaysNumInv, PTL

-----------------------------------------------------------------------------
(* What a replay of the lines has open is what the processes hold.         *)

Does(op, m, f) == \E i \in DOMAIN f : f[i].op = op /\ f[i].fd = m
IsOpen(m, f) == Does("open", m, f) /\ ~Does("close", m, f)

(* Of the process e only what is in l is held.                             *)
HeldIn(m, vm, e, l) == \E p \in Pids : vm[p][m] # None /\ (p = e => m \in l)

OpenIsHeld ==
  \A m \in Numbers : IsOpen(m, replay) <=> HeldIn(m, vfd_map, exiting, left)

LEMMA IsOpenAppend ==
  ASSUME NEW f \in Seq(Lines), NEW n \in Lines, NEW m
  PROVE  IsOpen(m, Append(f, n)) <=>
           /\ IsOpen(m, f) \/ (n.op = "open" /\ n.fd = m /\ ~Does("close", m, f))
           /\ ~(n.op = "close" /\ n.fd = m)
<1>1. /\ DOMAIN f = 1 .. Len(f) /\ Len(f) \in Nat
      /\ DOMAIN Append(f, n) = 1 .. Len(f) + 1
      /\ \A i \in 1 .. Len(f) : Append(f, n)[i] = f[i]
      /\ Append(f, n)[Len(f) + 1] = n
  BY AppendFacts
<1>2. ASSUME NEW op
      PROVE  Does(op, m, Append(f, n)) <=> Does(op, m, f) \/ (n.op = op /\ n.fd = m)
  <2>1. ASSUME NEW i \in DOMAIN f, f[i].op = op, f[i].fd = m
        PROVE  Does(op, m, Append(f, n))
    <3>1. i \in DOMAIN Append(f, n) /\ Append(f, n)[i] = f[i]
      BY <1>1
    <3> QED
      BY <2>1, <3>1 DEF Does
  <2>2. ASSUME n.op = op, n.fd = m
        PROVE  Does(op, m, Append(f, n))
    <3>1. Len(f) + 1 \in DOMAIN Append(f, n)
      BY <1>1
    <3> QED
      BY <1>1, <2>2, <3>1 DEF Does
  <2>3. ASSUME NEW i \in DOMAIN Append(f, n),
               Append(f, n)[i].op = op, Append(f, n)[i].fd = m
        PROVE  Does(op, m, f) \/ (n.op = op /\ n.fd = m)
    <3>1. CASE i \in 1 .. Len(f)
      BY <1>1, <2>3, <3>1 DEF Does
    <3>2. CASE i = Len(f) + 1
      BY <1>1, <2>3, <3>2
    <3> QED
      BY <1>1, <3>1, <3>2
  <2> QED
    BY <2>1, <2>2, <2>3 DEF Does
<1> QED
  BY <1>2 DEF IsOpen

(* A number that is still to be given is in no line and in no map.         *)
LEMMA NextIsNew ==
  ASSUME IInv, NEW m \in Numbers, m = num_mapped_fds + 1
  PROVE  /\ \A op : ~Does(op, m, replay)
         /\ \A q \in Pids : vfd_map[q][m] = None
<1>1. num_mapped_fds \in Nat
  BY StateFacts
<1>2. \A i \in DOMAIN replay : replay[i].fd <= num_mapped_fds
  BY DEF IInv, Counted
<1>3. ASSUME NEW i \in DOMAIN replay
      PROVE  replay[i].fd # m
  BY <1>1, <1>2, SMT
<1>4. \A q \in Pids : vfd_map[q][m] # None => m <= num_mapped_fds
  BY DEF IInv, MapsOK, EntriesGood
<1> QED
  BY <1>1, <1>3, <1>4 DEF Does

(* A line that neither opens nor closes.                                   *)
LEMMA OtherLineKeepsOpen ==
  ASSUME IInv, OpenIsHeld, NEW n \in Lines, replay' = Append(replay, n),
         n.op \notin {"open", "close"}, UNCHANGED <<vfd_map, exiting, left>>
  PROVE  OpenIsHeld'
BY StateFacts, IsOpenAppend DEF OpenIsHeld, HeldIn

(* The maps after an open.                                                 *)
LEMMA CreatedEntry ==
  ASSUME IInv, NEW p \in Pids, NEW f, NEW x, NEW buf, NEW ob,
         NEW map \in [Numbers -> Vfds \cup {None}],
         num_mapped_fds + 1 \in Numbers, CreateVfd(p, f, x, map, buf, ob)
  PROVE  /\ vfd_map'[p][num_mapped_fds + 1] # None
         /\ \A q \in Pids, i \in Numbers :
              i # num_mapped_fds + 1
                => vfd_map'[q][i] = IF q = p THEN map[i] ELSE vfd_map[q][i]
<1> DEFINE m == num_mapped_fds + 1
<1>1. PICK o \in Vfds : vfd_map' = [vfd_map EXCEPT ![p] = [map EXCEPT ![m] = o]]
  BY DEF CreateVfd
<1>2. vfd_map \in [Pids -> [Numbers -> Vfds \cup {None}]] /\ o # None
  BY NoneAssumption DEF IInv, TypeOK
<1> QED
  BY <1>1, <1>2

(* An open line for a new number, which the process now holds.             *)
LEMMA OpenKeepsOpen ==
  ASSUME IInv, OpenIsHeld, exiting = None, UNCHANGED exit,
         NEW p \in Pids, NEW f \in Fds, NEW x \in Paths, Open(p, f, x), NumInv
  PROVE  OpenIsHeld'
<1> DEFINE m == num_mapped_fds + 1
<1>1. PICK n \in Lines : replay' = Append(replay, n) /\ n.op = "open" /\ n.fd = m
  BY OpenLines
<1>2. m \in Numbers
  BY OpenLines
<1>3. /\ vfd_map'[p][m] # None
      /\ \A q \in Pids, i \in Numbers : i # m => vfd_map'[q][i] = vfd_map[q][i]
  <2>1. CreateVfd(p, f, x, vfd_map[p], vfd_buffer, vfd)
    BY DEF Open
  <2>2. vfd_map[p] \in [Numbers -> Vfds \cup {None}]
    BY DEF IInv, TypeOK
  <2> QED
    BY <1>2, <2>1, <2>2, CreatedEntry
<1>4. exiting' = None /\ \A q \in Pids : q # None
  BY NoneAssumption DEF exit
<1> HIDE DEF m
<1> SUFFICES ASSUME NEW i \in Numbers
             PROVE  IsOpen(i, replay') <=> HeldIn(i, vfd_map', exiting', left')
  BY DEF OpenIsHeld
<1>5. CASE i = m
  <2>1. ~Does("close", m, replay)
    BY <1>2, NextIsNew DEF m
  <2> QED
    BY <1>1, <1>3, <1>4, <1>5, <2>1, StateFacts, IsOpenAppend DEF HeldIn
<1>6. CASE i # m
  <2>1. IsOpen(i, replay') <=> IsOpen(i, replay)
    BY <1>1, <1>6, StateFacts, IsOpenAppend
  <2>2. HeldIn(i, vfd_map', exiting', left') <=> HeldIn(i, vfd_map, exiting, left)
    BY <1>3, <1>4, <1>6 DEF HeldIn
  <2> QED
    BY <2>1, <2>2 DEF OpenIsHeld
<1> QED
  BY <1>5, <1>6

LEMMA OpenAgainKeepsOpen ==
  ASSUME IInv, NumInv, OpenIsHeld, exiting = None, UNCHANGED exit,
         NEW p \in Pids, NEW f \in Fds, NEW x \in Paths, OpenAgain(p, f, x)
  PROVE  OpenIsHeld'
<1> DEFINE m == num_mapped_fds + 1
           k == fd_map[p][f]
<1>1. PICK c \in Lines, n \in Lines :
        /\ replay' = Append(Append(replay, c), n)
        /\ c.op = "close" /\ c.fd = k /\ n.op = "open" /\ n.fd = m
  BY OpenAgainLines
<1>2. m \in Numbers /\ VfdByRealfd(p, f) # None
  BY OpenAgainLines
<1>3. k \in Numbers /\ vfd_map[p][k] # None
  BY <1>2, LookupFacts
<1>4. k # m
  BY <1>2, <1>3, NextIsNew
<1>5. /\ vfd_map'[p][m] # None
      /\ \A q \in Pids, i \in Numbers :
           i # m => vfd_map'[q][i] = IF q = p /\ i = k THEN None ELSE vfd_map[q][i]
  <2> DEFINE map == [vfd_map[p] EXCEPT ![k] = None]
  <2>1. \E buf, ob : CreateVfd(p, f, x, map, buf, ob)
    BY DEF OpenAgain
  <2>2. vfd_map[p] \in [Numbers -> Vfds \cup {None}]
    BY DEF IInv, TypeOK
  <2>3. /\ map \in [Numbers -> Vfds \cup {None}]
        /\ \A i \in Numbers : map[i] = IF i = k THEN None ELSE vfd_map[p][i]
    BY <1>3, <2>2
  <2> HIDE DEF map, k
  <2> QED
    BY <1>2, <2>1, <2>3, CreatedEntry
<1>6. \A q \in Pids : q # p => vfd_map[q][k] = None
  BY <1>3 DEF IInv, MapsOK, OneEntry
<1>7. exiting' = None /\ \A q \in Pids : q # None
  BY NoneAssumption DEF exit
<1>8. /\ replay \in Seq(Lines) /\ Append(replay, c) \in Seq(Lines)
      /\ ~Does("close", m, replay)
  BY <1>2, StateFacts, NextIsNew, AppendFacts
<1> HIDE DEF m, k
<1>9. ~Does("close", m, Append(replay, c))
  <2>1. DOMAIN Append(replay, c) = 1 .. Len(replay) + 1 /\ Len(replay) \in Nat
        /\ DOMAIN replay = 1 .. Len(replay)
        /\ \A i \in 1 .. Len(replay) : Append(replay, c)[i] = replay[i]
        /\ Append(replay, c)[Len(replay) + 1] = c
    BY <1>8, AppendFacts
  <2> QED
    BY <1>1, <1>4, <1>8, <2>1 DEF Does
<1> SUFFICES ASSUME NEW i \in Numbers
             PROVE  IsOpen(i, replay') <=> HeldIn(i, vfd_map', exiting', left')
  BY DEF OpenIsHeld
<1>10. CASE i = m
  <2>1. IsOpen(m, replay')
    <3>1. IsOpen(m, Append(Append(replay, c), n))
      BY <1>1, <1>8, <1>9, IsOpenAppend
    <3> QED
      BY <1>1, <3>1
  <2>2. HeldIn(m, vfd_map', exiting', left')
    BY <1>5, <1>7 DEF HeldIn
  <2> QED
    BY <1>10, <2>1, <2>2
<1>11. CASE i = k
  <2>1. ~IsOpen(i, replay')
    BY ZenonT(120), <1>1, <1>4, <1>8, <1>11, IsOpenAppend
  <2>2. ~HeldIn(i, vfd_map', exiting', left')
    BY <1>3, <1>4, <1>5, <1>6, <1>11 DEF HeldIn
  <2> QED
    BY <2>1, <2>2
<1>12. CASE i # m /\ i # k
  <2>1. IsOpen(i, replay') <=> IsOpen(i, replay)
    BY <1>1, <1>8, <1>12, IsOpenAppend
  <2>2. HeldIn(i, vfd_map', exiting', left') <=> HeldIn(i, vfd_map, exiting, left)
    BY <1>5, <1>7, <1>12 DEF HeldIn
  <2> QED
    BY <2>1, <2>2 DEF OpenIsHeld
<1> QED
  BY <1>10, <1>11, <1>12

LEMMA CloseKeepsOpen ==
  ASSUME IInv, NumInv, OpenIsHeld, exiting = None, UNCHANGED exit,
         NEW p \in Pids, NEW f \in Fds, NEW b \in BOOLEAN, Close(p, f, b)
  PROVE  OpenIsHeld'
<1> DEFINE k == fd_map[p][f]
<1>1. PICK n \in Lines : replay' = Append(replay, n) /\ n.op = "close" /\ n.fd = k
  BY CloseLines
<1>2. /\ k \in Numbers /\ vfd_map[p][k] # None
      /\ vfd[VfdByRealfd(p, f)].mapped_fd = k
  BY CloseLines, LookupFacts
<1>3. \A q \in Pids, i \in Numbers :
        vfd_map'[q][i] = IF q = p /\ i = k THEN None ELSE vfd_map[q][i]
  BY <1>2 DEF Close, IInv, TypeOK
<1>4. \A q \in Pids : q # p => vfd_map[q][k] = None
  BY <1>2 DEF IInv, MapsOK, OneEntry
<1>5. exiting' = None /\ \A q \in Pids : q # None
  BY NoneAssumption DEF exit
<1> HIDE DEF k
<1> SUFFICES ASSUME NEW i \in Numbers
             PROVE  IsOpen(i, replay') <=> HeldIn(i, vfd_map', exiting', left')
  BY DEF OpenIsHeld
<1>6. CASE i = k
  <2>1. ~IsOpen(i, replay')
    BY <1>1, <1>6, StateFacts, IsOpenAppend
  <2> QED
    BY <1>2, <1>3, <1>4, <1>6, <2>1 DEF HeldIn
<1>7. CASE i # k
  <2>1. IsOpen(i, replay') <=> IsOpen(i, replay)
    BY <1>1, <1>7, StateFacts, IsOpenAppend
  <2>2. HeldIn(i, vfd_map', exiting', left') <=> HeldIn(i, vfd_map, exiting, left)
    BY <1>3, <1>5, <1>7 DEF HeldIn
  <2> QED
    BY <2>1, <2>2 DEF OpenIsHeld
<1> QED
  BY <1>6, <1>7

LEMMA CloseOnExitKeepsOpen ==
  ASSUME IInv, NumInv, OpenIsHeld, CloseOnExit
  PROVE  OpenIsHeld'
<1>1. PICK m \in left, n \in Lines :
        /\ m \in Numbers /\ vfd_map[exiting][m] # None /\ left' = left \ {m}
        /\ replay' = Append(replay, n) /\ n.op = "close" /\ n.fd = m
  BY CloseOnExitLines
<1>2. exiting \in Pids /\ UNCHANGED <<vfd_map, exiting>>
  BY CloseOnExitLines DEF descriptors
<1>3. \A q \in Pids : q # exiting => vfd_map[q][m] = None
  BY <1>1, <1>2 DEF IInv, MapsOK, OneEntry
<1> SUFFICES ASSUME NEW i \in Numbers
             PROVE  IsOpen(i, replay') <=> HeldIn(i, vfd_map', exiting', left')
  BY DEF OpenIsHeld
<1>4. CASE i = m
  <2>1. ~IsOpen(i, replay')
    BY <1>1, <1>4, StateFacts, IsOpenAppend
  <2> QED
    BY <1>1, <1>2, <1>3, <1>4, <2>1 DEF HeldIn
<1>5. CASE i # m
  <2>1. IsOpen(i, replay') <=> IsOpen(i, replay)
    BY <1>1, <1>5, StateFacts, IsOpenAppend
  <2>2. HeldIn(i, vfd_map', exiting', left') <=> HeldIn(i, vfd_map, exiting, left)
    BY <1>1, <1>2, <1>5 DEF HeldIn
  <2> QED
    BY <2>1, <2>2 DEF OpenIsHeld
<1> QED
  BY <1>4, <1>5

LEMMA NextOpenIsHeld == IInv /\ NumInv /\ OpenIsHeld /\ [Next]_vars => OpenIsHeld'
<1> SUFFICES ASSUME IInv, NumInv, OpenIsHeld, [Next]_vars PROVE OpenIsHeld'
  OBVIOUS
<1>1. ASSUME NEW p \in Pids, NEW f \in Fds, NEW x \in Paths, Open(p, f, x)
      PROVE  OpenIsHeld'
  BY SMTT(30), <1>1, OpenKeepsOpen DEF Open, Event
<1>2. ASSUME NEW p \in Pids, NEW f \in Fds, NEW x \in Paths, OpenAgain(p, f, x)
      PROVE  OpenIsHeld'
  BY <1>2, OpenAgainKeepsOpen DEF OpenAgain, Event
<1>3. ASSUME NEW p \in Pids, NEW f \in Fds, NEW b \in BOOLEAN, Close(p, f, b)
      PROVE  OpenIsHeld'
  BY <1>3, CloseKeepsOpen DEF Close, Event
<1>4. ASSUME NEW p \in Pids, NEW f \in Fds, NEW b \in BOOLEAN, Use(p, f, b)
      PROVE  OpenIsHeld'
  <2>1. UNCHANGED <<vfd_map, exiting, left>>
    BY <1>4 DEF Use, descriptors, exit
  <2> QED
    BY <1>4, <2>1, UseLines, OtherLineKeepsOpen
<1>5. ASSUME NEW p \in Pids, NEW x \in Paths, NEW b \in BOOLEAN, PathOp(p, x, b)
      PROVE  OpenIsHeld'
  <2>1. UNCHANGED <<vfd_map, exiting, left>>
    BY <1>5 DEF PathOp, descriptors, exit
  <2> QED
    BY <1>5, <2>1, PathOpLines, OtherLineKeepsOpen
<1>6. ASSUME NEW p \in Pids, NEW x \in Paths, NEW y \in Paths, Rename(p, x, y)
      PROVE  OpenIsHeld'
  <2>1. UNCHANGED <<vfd_map, exiting, left>>
    BY <1>6 DEF Rename, descriptors, exit
  <2> QED
    BY <1>6, <2>1, RenameLines, OtherLineKeepsOpen
<1>7. ASSUME NEW p \in Pids, Sync(p)
      PROVE  OpenIsHeld'
  <2> DEFINE n == Line("path", 0, p, 0)
  <2>1. Event(p) /\ replay' = Append(replay, n)
        /\ UNCHANGED <<vfd_map, exiting, left>>
    BY <1>7 DEF Sync, descriptors, exit
  <2>2. n \in Lines /\ n.op = "path"
    BY SMTT(30), <2>1, EventFacts, LineFacts DEF Ops
  <2> QED
    BY <2>1, <2>2, OtherLineKeepsOpen
<1>8. ASSUME NEW p \in Pids, ExitGroup(p)
      PROVE  OpenIsHeld'
  <2>1. /\ exiting = None /\ exiting' = p
        /\ left' = {m \in Numbers : vfd_map[p][m] # None}
        /\ UNCHANGED <<vfd_map, replay>>
    BY <1>8 DEF ExitGroup, Event, descriptors
  <2>2. \A m \in Numbers :
          HeldIn(m, vfd_map, p, left') <=> HeldIn(m, vfd_map, exiting, left)
    BY <2>1, NoneAssumption DEF HeldIn
  <2> QED
    BY <2>1, <2>2 DEF OpenIsHeld
<1>9. CASE GprocessDestroy
  <2>1. /\ exiting \in Pids /\ left = {} /\ exiting' = None
        /\ vfd_map' = [vfd_map EXCEPT ![exiting] = [m \in Numbers |-> None]]
        /\ UNCHANGED replay
    BY <1>9 DEF GprocessDestroy, IInv, TypeOK
  <2>2. \A q \in Pids, m \in Numbers :
          vfd_map'[q][m] = IF q = exiting THEN None ELSE vfd_map[q][m]
    BY <2>1 DEF IInv, TypeOK
  <2>3. \A m \in Numbers :
          HeldIn(m, vfd_map', exiting', left') <=> HeldIn(m, vfd_map, exiting, left)
    BY <2>1, <2>2, NoneAssumption DEF HeldIn
  <2> QED
    BY <2>1, <2>3 DEF OpenIsHeld
<1>10. ASSUME UNCHANGED <<vfd_map, exiting, left, replay>>
       PROVE  OpenIsHeld'
  BY <1>10 DEF OpenIsHeld
<1>11. ASSUME NEW p \in Pids, NoLine(p)
       PROVE  OpenIsHeld'
  BY <1>10, <1>11 DEF NoLine, descriptors, exit
<1>12. CASE Refused \/ UNCHANGED vars
  BY <1>10, <1>12 DEF Refused, vars, descriptors, exit
<1>13. CASE CloseOnExit
  BY <1>13, CloseOnExitKeepsOpen
<1> QED
  BY <1>1, <1>2, <1>3, <1>4, <1>5, <1>6, <1>7, <1>8, <1>9, <1>11, <1>12, <1>13
     DEF Next, ProcessEvent

(* Whatever the capture has lost, every descriptor that the lines open is  *)
(* closed by them or still held by the one process that can close it.      *)
THEOREM NothingIsForgotten == Spec => []NothingForgotten
<1>1. Init => OpenIsHeld
  BY DEF Init, OpenIsHeld, IsOpen, Does, HeldIn
<1>2. IInv /\ OpenIsHeld => NothingForgotten
  <2> SUFFICES ASSUME IInv, OpenIsHeld PROVE NothingForgotten
    OBVIOUS
  <2>1. /\ \A m : m \in Did("open") \ Did("close") <=> IsOpen(m, replay)
        /\ \A m : m \in UNION {Held(p) : p \in Pids}
                    <=> m \in Numbers /\ HeldIn(m, vfd_map, exiting, left)
    BY DEF Did, Does, IsOpen, Held, HeldIn
  <2>2. \A m : IsOpen(m, replay) => m \in Numbers
    <3>1. \A i \in DOMAIN replay : /\ replay[i] \in Lines
                                   /\ replay[i].fd = 0 <=> replay[i].op = "path"
      BY StateFacts DEF IInv, WellFormed
    <3> QED
      BY <3>1 DEF IsOpen, Does, Lines
  <2> QED
    BY <2>1, <2>2 DEF OpenIsHeld, NothingForgotten
<1> QED
  BY <1>1, <1>2, NextOpenIsHeld, AlwaysNumInv, PTL DEF Spec

-----------------------------------------------------------------------------
(* The writer implements the plain table of descriptors.                   *)

(* The table and the log that stand for the writer's state.                *)
Table == [p \in Pids |-> [f \in Fds |-> TableEntry(p, f)]]
PathIn(v, n) == IF n = 0 THEN None ELSE CHOOSE x \in Paths : v.id[x] = n
Row(v, l) == [op |-> l.op, no |-> l.fd, path |-> PathIn(v, l.vsize)]
LogOf(v, f) == [i \in DOMAIN f |-> Row(v, f[i])]

(* A path's number leads to the path, also after others have got theirs.   *)
LEMMA PathOfId ==
  ASSUME NEW v, IdsOK(v), NEW x \in Paths, v.id[x] # 0
  PROVE  PathIn(v, v.id[x]) = x
<1> DEFINE y == CHOOSE z \in Paths : v.id[z] = v.id[x]
<1>1. y \in Paths /\ v.id[y] = v.id[x]
  OBVIOUS
<1> HIDE DEF y
<1>2. y = x
  BY <1>1 DEF IdsOK
<1> QED
  BY <1>2 DEF y, PathIn

LEMMA PathStays ==
  ASSUME NEW v, IdsOK(v), NEW w, Grown(v, w), NEW n, Numbered(n, v)
  PROVE  PathIn(w, n) = PathIn(v, n)
<1>1. CASE n = 0
  BY <1>1 DEF PathIn
<1>2. CASE n # 0
  <2>1. PICK x \in Paths : v.id[x] = n
    BY <1>2 DEF Numbered
  <2>2. w.id[x] = n /\ IdsOK(w)
    BY <1>2, <2>1 DEF Grown, Keeps
  <2> QED
    BY <1>2, <2>1, <2>2, PathOfId
<1> QED
  BY <1>1, <1>2

LEMMA LogIsSeq ==
  ASSUME NEW v, NEW f \in Seq(Lines)
  PROVE  /\ \E S : LogOf(v, f) \in Seq(S)
         /\ DOMAIN LogOf(v, f) = 1 .. Len(f)
         /\ Len(LogOf(v, f)) = Len(f) /\ Len(f) \in Nat
         /\ \A i \in 1 .. Len(f) : LogOf(v, f)[i] = Row(v, f[i])
<1>1. DOMAIN f = 1 .. Len(f) /\ Len(f) \in Nat
  OBVIOUS
<1> DEFINE S == {Row(v, f[i]) : i \in 1 .. Len(f)}
<1>2. LogOf(v, f) \in [1 .. Len(f) -> S]
  BY <1>1 DEF LogOf
<1>3. LogOf(v, f) \in Seq(S)
  BY <1>1, <1>2
<1>4. /\ DOMAIN LogOf(v, f) = 1 .. Len(f)
      /\ \A i \in 1 .. Len(f) : LogOf(v, f)[i] = Row(v, f[i])
  BY <1>1 DEF LogOf
<1> HIDE DEF S
<1>5. Len(LogOf(v, f)) = Len(f)
  BY <1>1, <1>3, <1>4, LenProperties
<1>6. \E R : LogOf(v, f) \in Seq(R)
  BY <1>3
<1> QED
  BY <1>1, <1>4, <1>5, <1>6

(* A line more in the file is a line more in the log.                      *)
LEMMA LogAppend ==
  ASSUME NEW f \in Seq(Lines), NEW n \in Lines, NEW v, IdsOK(v), NEW w, Grown(v, w),
         \A i \in DOMAIN f : Numbered(f[i].vsize, v)
  PROVE  LogOf(w, Append(f, n)) = Append(LogOf(v, f), Row(w, n))
<1> DEFINE g == Append(f, n)
           a == LogOf(w, g)
           k == LogOf(v, f)
           b == Append(k, Row(w, n))
<1>1. /\ g \in Seq(Lines) /\ Len(f) \in Nat /\ Len(g) = Len(f) + 1
      /\ \A i \in 1 .. Len(f) : g[i] = f[i]
      /\ g[Len(f) + 1] = n
      /\ DOMAIN f = 1 .. Len(f)
  BY AppendFacts
<1>2. PICK S : k \in Seq(S)
  BY LogIsSeq
<1>3. PICK T : a \in Seq(T)
  BY <1>1, LogIsSeq
<1>4. /\ Len(k) = Len(f)
      /\ \A i \in 1 .. Len(f) : k[i] = Row(v, f[i])
  BY LogIsSeq
<1>5. /\ Len(a) = Len(f) + 1
      /\ \A i \in 1 .. Len(f) + 1 : a[i] = Row(w, g[i])
  BY ZenonT(60), <1>1, LogIsSeq
<1>6. \A i \in 1 .. Len(f) : Row(w, f[i]) = Row(v, f[i])
  BY <1>1, PathStays DEF Row
<1> HIDE DEF a, k
<1>7. /\ b \in Seq(S \cup {Row(w, n)}) /\ Len(b) = Len(f) + 1
      /\ \A i \in 1 .. Len(f) : b[i] = k[i]
      /\ b[Len(f) + 1] = Row(w, n)
  <2>1. k \in Seq(S \cup {Row(w, n)})
    BY <1>2
  <2> QED
    BY <1>1, <1>2, <1>4, <2>1, AppendProperties
<1> HIDE DEF b, g
<1>8. \A i \in 1 .. Len(a) : a[i] = b[i]
  <2> SUFFICES ASSUME NEW i \in 1 .. Len(f) + 1 PROVE a[i] = b[i]
    BY <1>5
  <2>1. CASE i \in 1 .. Len(f)
    BY SMTT(30), <1>1, <1>4, <1>5, <1>6, <1>7, <2>1
  <2>2. CASE i = Len(f) + 1
    BY <1>1, <1>5, <1>7, <2>2
  <2> QED
    BY <1>1, <2>1, <2>2
<1>9. /\ a \in Seq(S \cup T \cup {Row(w, n)})
      /\ b \in Seq(S \cup T \cup {Row(w, n)})
  BY <1>3, <1>7
<1>10. a = b
  BY <1>5, <1>7, <1>8, <1>9, SeqEqual
<1> QED
  BY <1>10 DEF a, b, g, k

-----------------------------------------------------------------------------
(* What the maps say of a descriptor.                                      *)

EntryIn(fm, vm, ob, q, g) ==
  IF fm[q][g] = 0 THEN None ELSE [no |-> fm[q][g], path |-> ob[vm[q][fm[q][g]]].path]

(* TableEntry, for maps at any point of the writer's work.                 *)
Looked(fm, vm, ob, e, l, q, g) ==
  LET o == IF fm[q][g] = 0 THEN None ELSE vm[q][fm[q][g]]
  IN  IF o = None \/ (q = e /\ fm[q][g] \notin l)
      THEN None
      ELSE [no |-> ob[o].mapped_fd, path |-> ob[o].path]

LEMMA LookedIs ==
  ASSUME NEW fm, NEW vm, NEW ob, NEW buf, NEW num, MapsOK(fm, vm, ob, buf, num),
         NEW e, NEW l, NEW q \in Pids, NEW g \in Fds
  PROVE  Looked(fm, vm, ob, e, l, q, g) =
           IF q = e /\ fm[q][g] \notin l THEN None ELSE EntryIn(fm, vm, ob, q, g)
<1>1. CASE fm[q][g] = 0
  BY SMTT(30), <1>1 DEF Looked, EntryIn
<1>2. CASE fm[q][g] # 0
  <2>1. /\ fm[q][g] \in Numbers /\ vm[q][fm[q][g]] # None
        /\ ob[vm[q][fm[q][g]]].mapped_fd = fm[q][g]
    BY <1>2 DEF MapsOK, MapTypes, Agree, EntriesGood
  <2> QED
    BY <1>2, <2>1 DEF Looked, EntryIn
<1> QED
  BY <1>1, <1>2

(* The entries of the table, before a step and after it.                   *)
LEMMA TableEntryIs ==
  ASSUME IInv, IInv', NEW q \in Pids, NEW g \in Fds
  PROVE  /\ TableEntry(q, g) =
              IF q = exiting /\ fd_map[q][g] \notin left THEN None
              ELSE EntryIn(fd_map, vfd_map, vfd, q, g)
         /\ TableEntry(q, g)' =
              IF q = exiting' /\ fd_map'[q][g] \notin left' THEN None
              ELSE EntryIn(fd_map', vfd_map', vfd', q, g)
<1>1. /\ TableEntry(q, g) = Looked(fd_map, vfd_map, vfd, exiting, left, q, g)
      /\ TableEntry(q, g)' = Looked(fd_map', vfd_map', vfd', exiting', left', q, g)
  BY DEF TableEntry, VfdByRealfd, Looked
<1>2. /\ MapsOK(fd_map, vfd_map, vfd, vfd_buffer, num_mapped_fds)
      /\ MapsOK(fd_map', vfd_map', vfd', vfd_buffer', num_mapped_fds')
  BY DEF IInv
<1> QED
  BY <1>1, <1>2, LookedIs

(* The entries after a removal.                                            *)
Removed(fm, vm, ob, buf, num, p, f, fm2, vm2, ob2) ==
  /\ MapsOK(fm, vm, ob, buf, num)
  /\ fm[p][f] # 0
  /\ fm2 = [fm EXCEPT ![p][f] = 0]
  /\ vm2 = [vm EXCEPT ![p] = [vm[p] EXCEPT ![fm[p][f]] = None]]
  /\ ob2 = ob \/ ob2 = [ob EXCEPT ![vm[p][fm[p][f]]] = None]

LEMMA RemoveEntry ==
  ASSUME NEW fm, NEW vm, NEW ob, NEW buf, NEW num, NEW p \in Pids, NEW f \in Fds,
         NEW fm2, NEW vm2, NEW ob2,
         Removed(fm, vm, ob, buf, num, p, f, fm2, vm2, ob2),
         NEW q \in Pids, NEW g \in Fds
  PROVE  EntryIn(fm2, vm2, ob2, q, g)
           = IF q = p /\ g = f THEN None ELSE EntryIn(fm, vm, ob, q, g)
<1> DEFINE m == fm[p][f]
           k == fm[q][g]
<1>1. /\ m \in Numbers /\ vm[p][m] # None /\ vm[p][m] \in Vfds
      /\ k \in Numbers \cup {0}
      /\ fm2[q][g] = IF q = p /\ g = f THEN 0 ELSE k
      /\ \A n \in Numbers : vm2[q][n] = IF q = p /\ n = m THEN None ELSE vm[q][n]
      /\ MapsOK(fm, vm, ob, buf, num)
  BY DEF Removed, MapsOK, MapTypes, Agree
<1>2. CASE (q = p /\ g = f) \/ k = 0
  BY SMTT(30), <1>1, <1>2 DEF EntryIn
<1>3. CASE ~(q = p /\ g = f) /\ k # 0
  <2>1. k \in Numbers /\ vm[q][k] # None /\ vm[q][k] \in Vfds /\ ~(q = p /\ k = m)
    BY <1>1, <1>3 DEF MapsOK, MapTypes, Agree
  <2>2. vm[q][k] # vm[p][m]
    BY <1>1, <2>1 DEF MapsOK, OneEntry
  <2>3. ob2[vm[q][k]] = ob[vm[q][k]]
    BY <1>1, <2>1, <2>2 DEF MapsOK, MapTypes, Removed
  <2>4. fm2[q][g] = k /\ vm2[q][k] = vm[q][k]
    BY <1>1, <1>3, <2>1
  <2> QED
    BY <1>3, <2>3, <2>4 DEF EntryIn
<1> QED
  BY <1>2, <1>3

(* The entries after a free descriptor has got the next number.            *)
Created(fm, vm, ob, buf, num, p, f, x, m, o, fm2, vm2, ob2) ==
  /\ MapsOK(fm, vm, ob, buf, num)
  /\ m \in Numbers /\ m = num + 1 /\ fm[p][f] = 0
  /\ IF buf = << >> THEN ob[o] = None ELSE o = Head(buf)
  /\ fm2 = [fm EXCEPT ![p][f] = m]
  /\ vm2 = [vm EXCEPT ![p] = [vm[p] EXCEPT ![m] = o]]
  /\ ob2 = [ob EXCEPT ![o] = [mapped_fd |-> m, path |-> x]]

LEMMA CreateEntry ==
  ASSUME NEW fm, NEW vm, NEW ob, NEW buf, NEW num, NEW p \in Pids, NEW f \in Fds,
         NEW x \in Paths, NEW m, NEW o \in Vfds, NEW fm2, NEW vm2, NEW ob2,
         Created(fm, vm, ob, buf, num, p, f, x, m, o, fm2, vm2, ob2),
         NEW q \in Pids, NEW g \in Fds
  PROVE  EntryIn(fm2, vm2, ob2, q, g)
           = IF q = p /\ g = f THEN [no |-> m, path |-> x]
             ELSE EntryIn(fm, vm, ob, q, g)
<1> DEFINE k == fm[q][g]
<1>0. /\ num \in Nat /\ buf \in Seq(Vfds) /\ m # 0 /\ o # None /\ m \in Numbers
      /\ m = num + 1 /\ MapsOK(fm, vm, ob, buf, num)
  BY NumbersFacts, NoneAssumption DEF Created, MapsOK, MapTypes
<1>1. \A r \in Pids, n \in Numbers : vm[r][n] # o
  BY SMTT(30), <1>0 DEF Created, MapsOK, MapTypes, EntriesGood
<1>2. /\ k \in Numbers \cup {0}
      /\ fm2[q][g] = IF q = p /\ g = f THEN m ELSE k
      /\ \A n \in Numbers : vm2[q][n] = IF q = p /\ n = m THEN o ELSE vm[q][n]
      /\ ob2[o] = [mapped_fd |-> m, path |-> x]
      /\ \A z \in Vfds : z # o => ob2[z] = ob[z]
  BY <1>0 DEF Created, MapsOK, MapTypes
<1>3. CASE q = p /\ g = f
  BY <1>0, <1>2, <1>3 DEF EntryIn
<1>4. CASE ~(q = p /\ g = f) /\ k = 0
  BY <1>2, <1>4 DEF EntryIn
<1>5. CASE ~(q = p /\ g = f) /\ k # 0
  <2>1. k \in Numbers /\ vm[q][k] # None /\ vm[q][k] \in Vfds /\ k <= num
    BY <1>0, <1>2, <1>5 DEF MapsOK, MapTypes, Agree, EntriesGood
  <2>2. k # m
    BY <1>0, <2>1, NumbersFacts
  <2>3. fm2[q][g] = k /\ vm2[q][k] = vm[q][k] /\ ob2[vm[q][k]] = ob[vm[q][k]]
    BY <1>1, <1>2, <1>5, <2>1, <2>2
  <2> QED
    BY <1>5, <2>3 DEF EntryIn
<1> QED
  BY <1>3, <1>4, <1>5

-----------------------------------------------------------------------------
(* What every action does to the table.                                    *)

LEMMA NobodyExits ==
  ASSUME IInv, exiting = None, UNCHANGED exit
  PROVE  \A q \in Pids : q # exiting /\ q # exiting'
BY NoneAssumption DEF exit

LEMMA OpenTable ==
  ASSUME IInv, IInv', NumInv, exiting = None, UNCHANGED exit,
         NEW p \in Pids, NEW f \in Fds, NEW x \in Paths, Open(p, f, x),
         NEW q \in Pids, NEW g \in Fds
  PROVE  TableEntry(q, g)' =
           IF q = p /\ g = f THEN [no |-> num_mapped_fds + 1, path |-> x]
           ELSE TableEntry(q, g)
<1> DEFINE m == num_mapped_fds + 1
<1>1. /\ m \in Numbers /\ m = num_mapped_fds + 1
      /\ MapsOK(fd_map, vfd_map, vfd, vfd_buffer, num_mapped_fds)
  BY OpenLines DEF IInv
<1>2. fd_map[p][f] = 0
  BY DEF Open, VfdByRealfd, IInv, MapsOK, Agree
<1>3. PICK o \in Vfds : Created(fd_map, vfd_map, vfd, vfd_buffer, num_mapped_fds,
                                p, f, x, m, o, fd_map', vfd_map', vfd')
  BY <1>1, <1>2 DEF Open, CreateVfd, Created
<1> HIDE DEF m
<1>4. EntryIn(fd_map', vfd_map', vfd', q, g) =
        IF q = p /\ g = f THEN [no |-> m, path |-> x]
        ELSE EntryIn(fd_map, vfd_map, vfd, q, g)
  BY <1>3, CreateEntry
<1> QED
  BY <1>4, NobodyExits, TableEntryIs DEF m

(* The old descriptor leaves the maps before the new one comes.            *)
LEMMA OpenAgainTable ==
  ASSUME IInv, IInv', NumInv, exiting = None, UNCHANGED exit,
         NEW p \in Pids, NEW f \in Fds, NEW x \in Paths, OpenAgain(p, f, x),
         NEW q \in Pids, NEW g \in Fds
  PROVE  TableEntry(q, g)' =
           IF q = p /\ g = f THEN [no |-> num_mapped_fds + 1, path |-> x]
           ELSE TableEntry(q, g)
<1> DEFINE m == num_mapped_fds + 1
           k == fd_map[p][f]
           old == VfdByRealfd(p, f)
           fm == [fd_map EXCEPT ![p][f] = 0]
           vm == [vfd_map EXCEPT ![p] = [vfd_map[p] EXCEPT ![k] = None]]
           ob == VfdWithout(old)
           buf == BufferWith(old)
<1>1. m \in Numbers /\ old # None /\ m = num_mapped_fds + 1
  BY OpenAgainLines
<1>2. /\ MapsOK(fd_map, vfd_map, vfd, vfd_buffer, num_mapped_fds)
      /\ k # 0 /\ old = vfd_map[p][k]
  BY <1>1, LookupFacts DEF IInv
<1>3. /\ \/ buf = Append(vfd_buffer, vfd_map[p][k]) /\ ob = vfd
         \/ buf = vfd_buffer /\ ob = [vfd EXCEPT ![vfd_map[p][k]] = None]
      /\ ob = vfd \/ ob = [vfd EXCEPT ![vfd_map[p][k]] = None]
  BY SMTT(30), <1>2, PutBack
<1> HIDE DEF ob, buf
<1>4. MapsOK(fm, vm, ob, buf, num_mapped_fds)
  BY <1>2, <1>3, RemoveKeepsMaps
<1>5. EntryIn(fm, vm, ob, q, g) =
        IF q = p /\ g = f THEN None ELSE EntryIn(fd_map, vfd_map, vfd, q, g)
  <2>1. Removed(fd_map, vfd_map, vfd, vfd_buffer, num_mapped_fds, p, f, fm, vm, ob)
    BY SMTT(30), <1>2, <1>3 DEF Removed
  <2> HIDE DEF fm, vm
  <2> QED
    BY <2>1, RemoveEntry
<1>6. PICK o \in Vfds :
        /\ IF buf = << >> THEN ob[o] = None ELSE o = Head(buf)
        /\ vfd' = [ob EXCEPT ![o] = [mapped_fd |-> m, path |-> x]]
        /\ vfd_map' = [vfd_map EXCEPT ![p] =
                         [[vfd_map[p] EXCEPT ![k] = None] EXCEPT ![m] = o]]
        /\ fd_map' = [fd_map EXCEPT ![p][f] = m]
  BY DEF OpenAgain, CreateVfd, ob, buf
<1>7. /\ fd_map' = [fm EXCEPT ![p][f] = m]
      /\ vfd_map' = [vm EXCEPT ![p] = [vm[p] EXCEPT ![m] = o]]
      /\ fm[p][f] = 0
  BY <1>2, <1>6 DEF MapsOK, MapTypes
<1> HIDE DEF fm, vm, k, m
<1>8. EntryIn(fd_map', vfd_map', vfd', q, g) =
        IF q = p /\ g = f THEN [no |-> m, path |-> x]
        ELSE EntryIn(fm, vm, ob, q, g)
  <2>1. Created(fm, vm, ob, buf, num_mapped_fds, p, f, x, m, o,
                fd_map', vfd_map', vfd')
    BY <1>1, <1>4, <1>6, <1>7 DEF Created
  <2> QED
    BY <2>1, CreateEntry
<1> QED
  BY <1>5, <1>8, NobodyExits, TableEntryIs DEF m

LEMMA CloseTable ==
  ASSUME IInv, IInv', NumInv, exiting = None, UNCHANGED exit,
         NEW p \in Pids, NEW f \in Fds, NEW b \in BOOLEAN, Close(p, f, b),
         NEW q \in Pids, NEW g \in Fds
  PROVE  TableEntry(q, g)' =
           IF q = p /\ g = f THEN None ELSE TableEntry(q, g)
<1> DEFINE k == fd_map[p][f]
           old == VfdByRealfd(p, f)
<1>1. old # None
  BY DEF Close
<1>2. /\ MapsOK(fd_map, vfd_map, vfd, vfd_buffer, num_mapped_fds)
      /\ k \in Numbers /\ k # 0 /\ old = vfd_map[p][k] /\ vfd[old].mapped_fd = k
  BY SMTT(30), <1>1, LookupFacts DEF IInv
<1>3. /\ vfd' = vfd \/ vfd' = [vfd EXCEPT ![vfd_map[p][k]] = None]
      /\ fd_map' = [fd_map EXCEPT ![p][f] = 0]
      /\ vfd_map' = [vfd_map EXCEPT ![p] = [vfd_map[p] EXCEPT ![k] = None]]
  BY <1>2, PutBack DEF Close
<1>4. EntryIn(fd_map', vfd_map', vfd', q, g) =
        IF q = p /\ g = f THEN None ELSE EntryIn(fd_map, vfd_map, vfd, q, g)
  <2>1. Removed(fd_map, vfd_map, vfd, vfd_buffer, num_mapped_fds, p, f,
                fd_map', vfd_map', vfd')
    BY <1>2, <1>3 DEF Removed
  <2> QED
    BY SMTT(30), <2>1, RemoveEntry
<1> QED
  BY <1>4, NobodyExits, TableEntryIs

LEMMA SameTable ==
  ASSUME UNCHANGED <<descriptors, exit>>
  PROVE  Table' = Table
BY DEF descriptors, exit, Table, TableEntry, VfdByRealfd

(* At first an exit changes nothing: all that is open is left to close.    *)
LEMMA ExitGroupTable ==
  ASSUME IInv, IInv', NEW p \in Pids, ExitGroup(p)
  PROVE  Table' = Table
<1>1. /\ exiting = None /\ exiting' = p
      /\ left' = {m \in Numbers : vfd_map[p][m] # None}
      /\ UNCHANGED <<fd_map, vfd_map, vfd>>
  BY DEF ExitGroup, Event, descriptors
<1> SUFFICES ASSUME NEW q \in Pids, NEW g \in Fds
             PROVE  TableEntry(q, g)' = TableEntry(q, g)
  BY DEF Table
<1>2. TableEntry(q, g) = EntryIn(fd_map, vfd_map, vfd, q, g)
  BY SMTT(30), <1>1, NoneAssumption, TableEntryIs
<1>3. CASE q = p /\ fd_map[q][g] \notin left'
  <2>1. fd_map[q][g] = 0
    BY <1>1, <1>3 DEF IInv, MapsOK, MapTypes, Agree
  <2> QED
    BY <1>1, <1>2, <1>3, <2>1, TableEntryIs DEF EntryIn
<1>4. CASE ~(q = p /\ fd_map[q][g] \notin left')
  BY <1>1, <1>2, <1>4, TableEntryIs
<1> QED
  BY <1>3, <1>4

(* When all is closed, the process goes without a trace.                   *)
LEMMA GprocessDestroyTable ==
  ASSUME IInv, IInv', GprocessDestroy
  PROVE  Table' = Table
<1> DEFINE Gone(o) == \E m \in Numbers : vfd_map[exiting][m] = o
<1>1. /\ exiting \in Pids /\ left = {} /\ exiting' = None
      /\ fd_map' = [fd_map EXCEPT ![exiting] = [f \in Fds |-> 0]]
      /\ vfd_map' = [vfd_map EXCEPT ![exiting] = [m \in Numbers |-> None]]
      /\ vfd' = [o \in Vfds |-> IF Gone(o) THEN None ELSE vfd[o]]
  BY DEF GprocessDestroy, IInv, TypeOK
<1>2. /\ fd_map \in [Pids -> [Fds -> Numbers \cup {0}]]
      /\ vfd_map \in [Pids -> [Numbers -> Vfds \cup {None}]]
  BY DEF IInv, TypeOK
<1> SUFFICES ASSUME NEW q \in Pids, NEW g \in Fds
             PROVE  TableEntry(q, g)' = TableEntry(q, g)
  BY DEF Table
<1> DEFINE k == fd_map[q][g]
<1>3. q # exiting' /\ k \in Numbers \cup {0}
  BY SMTT(30), <1>1, <1>2, NoneAssumption
<1>4. CASE q = exiting
  BY ZenonT(60), <1>1, <1>2, <1>3, <1>4, TableEntryIs DEF EntryIn
<1>5. CASE q # exiting
  <2>1. fd_map'[q][g] = k /\ vfd_map'[q] = vfd_map[q]
    BY <1>1, <1>2, <1>5
  <2>2. CASE k = 0
    BY <1>3, <1>5, <2>1, <2>2, TableEntryIs DEF EntryIn
  <2>3. CASE k # 0
    <3>1. k \in Numbers /\ vfd_map[q][k] # None /\ vfd_map[q][k] \in Vfds
      BY <1>2, <1>3, <2>3 DEF IInv, MapsOK, Agree
    <3>2. ~Gone(vfd_map[q][k])
      <4>1. OneEntry(vfd_map)
        BY DEF IInv, MapsOK
      <4>2. \A m \in Numbers : vfd_map[exiting][m] # vfd_map[q][k]
        BY SMTT(30), <1>1, <1>5, <3>1, <4>1 DEF OneEntry
      <4> QED
        BY <4>2
    <3>3. vfd'[vfd_map[q][k]] = vfd[vfd_map[q][k]]
      BY <1>1, <3>1, <3>2
    <3> QED
      <4>1. EntryIn(fd_map', vfd_map', vfd', q, g) = EntryIn(fd_map, vfd_map, vfd, q, g)
        BY <2>1, <3>3 DEF EntryIn
      <4> QED
        BY <1>3, <1>5, <4>1, TableEntryIs
  <2> QED
    BY <2>2, <2>3
<1> QED
  BY <1>4, <1>5

(* One close at the exit of a process takes out one entry.                 *)
LEMMA CloseOnExitTable ==
  ASSUME IInv, IInv', NEW m \in left, left' = left \ {m}, exiting \in Pids,
         UNCHANGED <<descriptors, exiting>>
  PROVE  \E f \in Fds :
           /\ fd_map[exiting][f] = m
           /\ TableEntry(exiting, f) =
                [no |-> m, path |-> vfd[vfd_map[exiting][m]].path]
           /\ \A q \in Pids, g \in Fds :
                TableEntry(q, g)' = IF q = exiting /\ g = f THEN None
                                    ELSE TableEntry(q, g)
<1>1. /\ m \in Numbers /\ vfd_map[exiting][m] # None
      /\ UNCHANGED <<fd_map, vfd_map, vfd, exiting>>
  BY SMTT(30), NoneAssumption DEF IInv, TypeOK, ExitOK, descriptors
<1>2. PICK f \in Fds : fd_map[exiting][f] = m
  BY <1>1 DEF IInv, MapsOK, Agree
<1>3. m # 0
  BY <1>1, NumbersFacts
<1>4. TableEntry(exiting, f) = [no |-> m, path |-> vfd[vfd_map[exiting][m]].path]
  BY <1>2, <1>3, TableEntryIs DEF EntryIn
<1>5. ASSUME NEW q \in Pids, NEW g \in Fds
      PROVE  TableEntry(q, g)' = IF q = exiting /\ g = f THEN None
                                 ELSE TableEntry(q, g)
  <2>1. CASE q # exiting
    BY <1>1, <2>1, TableEntryIs
  <2>2. CASE q = exiting /\ g = f
    BY <1>1, <1>2, <2>2, TableEntryIs
  <2>3. CASE q = exiting /\ g # f
    <3>1. fd_map[q][g] # m
      BY <1>2, <1>3, <2>3 DEF IInv, MapsOK, Agree
    <3> QED
      BY <1>1, <2>3, <3>1, TableEntryIs
  <2> QED
    BY <2>1, <2>2, <2>3
<1> QED
  BY <1>2, <1>4, <1>5

-----------------------------------------------------------------------------
(* Every step of the writer is a step of the table, or none.               *)

Log == LogOf(vsizes, replay)

(* The log of the refinement mapping.                                      *)
MappedLog == [i \in DOMAIN replay |->
                [op |-> replay[i].op, no |-> replay[i].fd,
                 path |-> PathOf(replay[i].vsize)]]

LEMMA LogIs == MappedLog = Log /\ MappedLog' = Log'
BY DEF MappedLog, Log, LogOf, Row, PathIn, PathOf

LEMMA TableWith ==
  ASSUME NEW p \in Pids, NEW f \in Fds, NEW E,
         \A q \in Pids, g \in Fds :
           TableEntry(q, g)' = IF q = p /\ g = f THEN E ELSE TableEntry(q, g)
  PROVE  Table' = [Table EXCEPT ![p][f] = E]
BY DEF Table

(* A line with the number of a path says the path.                         *)
LEMMA RowIs ==
  ASSUME NEW v, IdsOK(v), NEW n, NEW x \in Paths, n.vsize = v.id[x], n.vsize # 0
  PROVE  Row(v, n) = [op |-> n.op, no |-> n.fd, path |-> x]
BY PathOfId DEF Row

LEMMA LogWith ==
  ASSUME IInv, NumInv, Grown(vsizes, vsizes'), NEW n \in Lines,
         replay' = Append(replay, n)
  PROVE  Log' = Append(Log, Row(vsizes', n))
<1>1. \A i \in DOMAIN replay : Numbered(replay[i].vsize, vsizes)
  BY DEF NumInv
<1>2. IdsOK(vsizes) /\ replay \in Seq(Lines)
  BY StateFacts DEF NumInv
<1> QED
  BY <1>1, <1>2, LogAppend DEF Log

LEMMA LogWithTwo ==
  ASSUME IInv, NumInv, Grown(vsizes, vsizes'), NEW c \in Lines, NEW n \in Lines,
         replay' = Append(Append(replay, c), n), Numbered(c.vsize, vsizes')
  PROVE  Log' = Append(Append(Log, Row(vsizes', c)), Row(vsizes', n))
<1> DEFINE f == Append(replay, c)
<1>1. \A i \in DOMAIN replay : Numbered(replay[i].vsize, vsizes)
  BY DEF NumInv
<1>2. IdsOK(vsizes) /\ replay \in Seq(Lines)
  BY StateFacts DEF NumInv
<1>3. LogOf(vsizes', f) = Append(Log, Row(vsizes', c))
  BY <1>1, <1>2, LogAppend DEF Log
<1>4. /\ f \in Seq(Lines)
      /\ \A i \in DOMAIN f : Numbered(f[i].vsize, vsizes')
  BY <1>1, <1>2, AppendFacts, NumberedGrows
<1>5. IdsOK(vsizes') /\ Grown(vsizes', vsizes')
  BY GrownSelf DEF Grown
<1> HIDE DEF f
<1>6. LogOf(vsizes', Append(f, n)) = Append(LogOf(vsizes', f), Row(vsizes', n))
  BY SMTT(30), <1>4, <1>5, LogAppend
<1> QED
  BY <1>3, <1>6 DEF Log, f

(* The entry of a descriptor that is found.                                *)
LEMMA FoundEntry ==
  ASSUME IInv, IInv', NumInv, NEW p \in Pids, NEW f \in Fds,
         VfdByRealfd(p, f) # None, exiting = None, Grown(vsizes, vsizes')
  PROVE  LET x == vfd[VfdByRealfd(p, f)].path
         IN  /\ Table[p][f] = [no |-> fd_map[p][f], path |-> x]
             /\ Table[p][f] # None
             /\ x \in Paths /\ vsizes.id[x] # 0 /\ vsizes'.id[x] = vsizes.id[x]
<1> DEFINE x == vfd[VfdByRealfd(p, f)].path
           k == fd_map[p][f]
<1>1. /\ k \in Numbers /\ k # 0 /\ x \in Paths /\ vsizes.id[x] # 0
      /\ x = vfd[vfd_map[p][k]].path
  BY FoundPath
<1>2. p # exiting
  BY SMTT(30), NoneAssumption
<1>3. Table[p][f] = [no |-> k, path |-> x]
  BY <1>1, <1>2, TableEntryIs DEF Table, EntryIn
<1> HIDE DEF x, k
<1>4. Table[p][f] # None
  <2>1. k \in Nat
    BY <1>1, NumbersFacts
  <2>2. [no |-> k, path |-> x] \in [no : Nat, path : Paths]
    BY <1>1, <2>1
  <2> QED
    BY <1>3, <2>2, NoneAssumption
<1>5. vsizes'.id[x] = vsizes.id[x]
  BY SMTT(30), <1>1 DEF Grown, Keeps
<1> QED
  BY <1>1, <1>3, <1>4, <1>5 DEF x, k

LEMMA OpenMaps ==
  ASSUME IInv, IInv', NumInv, NEW p \in Pids, NEW f \in Fds, NEW x \in Paths,
         Open(p, f, x)
  PROVE  Abstract!Open(p, f, x)
<1> DEFINE e == [no |-> num_mapped_fds + 1, path |-> x]
<1>1. exiting = None /\ UNCHANGED exit /\ VfdByRealfd(p, f) = None
  BY DEF Open, Event
<1>2. Table' = [Table EXCEPT ![p][f] = e]
  <2>1. \A q \in Pids, g \in Fds :
          TableEntry(q, g)' = IF q = p /\ g = f THEN e ELSE TableEntry(q, g)
    BY <1>1, OpenTable
  <2> QED
    BY <2>1, TableWith
<1>3. Table[p][f] = None
  BY <1>1 DEF Table, TableEntry
<1>4. num_mapped_fds' = num_mapped_fds + 1
  BY OpenLines
<1>5. Log' = Append(Log, [op |-> "open", no |-> num_mapped_fds + 1, path |-> x])
  <2>1. PICK n \in Lines :
          /\ replay' = Append(replay, n)
          /\ n.op = "open" /\ n.fd = num_mapped_fds + 1
          /\ n.vsize = vsizes'.id[x] /\ n.vsize # 0
    BY OpenLines
  <2>2. Grown(vsizes, vsizes') /\ IdsOK(vsizes')
    BY SMTT(30), OpenLines DEF Grown
  <2> QED
    BY <2>1, <2>2, RowIs, LogWith
<1> QED
  BY <1>2, <1>3, <1>4, <1>5, LogIs
     DEF Abstract!Open, Abstract!Entry, Abstract!Line, Table, MappedLog

LEMMA OpenAgainMaps ==
  ASSUME IInv, IInv', NumInv, NEW p \in Pids, NEW f \in Fds, NEW x \in Paths,
         OpenAgain(p, f, x)
  PROVE  Abstract!OpenAgain(p, f, x)
<1> DEFINE m == num_mapped_fds + 1
           e == [no |-> m, path |-> x]
           y == vfd[VfdByRealfd(p, f)].path
           k == fd_map[p][f]
<1>1. exiting = None /\ UNCHANGED exit /\ VfdByRealfd(p, f) # None
  BY DEF OpenAgain, Event
<1>2. Table' = [Table EXCEPT ![p][f] = e]
  <2>1. \A q \in Pids, g \in Fds :
          TableEntry(q, g)' = IF q = p /\ g = f THEN e ELSE TableEntry(q, g)
    BY <1>1, OpenAgainTable
  <2> QED
    BY <2>1, TableWith
<1>3. /\ Grown(vsizes, vsizes') /\ IdsOK(vsizes') /\ num_mapped_fds' = m
  BY OpenAgainLines DEF Grown
<1>4. /\ Table[p][f] = [no |-> k, path |-> y] /\ Table[p][f] # None
      /\ y \in Paths /\ vsizes.id[y] # 0 /\ vsizes'.id[y] = vsizes.id[y]
  BY <1>1, <1>3, FoundEntry
<1>5. Log' = Append(Append(Log, [op |-> "close", no |-> k, path |-> y]),
                    [op |-> "open", no |-> m, path |-> x])
  <2>1. PICK c \in Lines, n \in Lines :
          /\ replay' = Append(Append(replay, c), n)
          /\ c.op = "close" /\ c.fd = k /\ c.vsize = vsizes.id[y]
          /\ n.op = "open" /\ n.fd = m /\ n.vsize = vsizes'.id[x] /\ n.vsize # 0
    BY OpenAgainLines
  <2> HIDE DEF y, k, m
  <2>2. Numbered(c.vsize, vsizes')
    BY <1>4, <2>1 DEF Numbered
  <2>3. /\ Row(vsizes', c) = [op |-> "close", no |-> k, path |-> y]
        /\ Row(vsizes', n) = [op |-> "open", no |-> m, path |-> x]
    BY <1>3, <1>4, <2>1, RowIs
  <2> QED
    BY <1>3, <2>1, <2>2, <2>3, LogWithTwo
<1> HIDE DEF y, k
<1>6. Log' = Append(Append(Log, [op |-> "close", no |-> Table[p][f].no,
                                 path |-> Table[p][f].path]),
                    [op |-> "open", no |-> m, path |-> x])
  BY <1>4, <1>5
<1>7. Table[p][f] # None /\ num_mapped_fds' = num_mapped_fds + 1
  BY <1>3, <1>4
<1> QED
  BY <1>2, <1>6, <1>7, LogIs
     DEF Abstract!OpenAgain, Abstract!Entry, Abstract!Line, Table, MappedLog

LEMMA UseMaps ==
  ASSUME IInv, IInv', NumInv, NEW p \in Pids, NEW f \in Fds, NEW b \in BOOLEAN,
         Use(p, f, b)
  PROVE  Abstract!Use(p, f)
<1> DEFINE y == vfd[VfdByRealfd(p, f)].path
           k == fd_map[p][f]
<1>1. /\ exiting = None /\ VfdByRealfd(p, f) # None
      /\ UNCHANGED <<descriptors, exit>>
  BY DEF Use, Event
<1>2. Table' = Table /\ num_mapped_fds' = num_mapped_fds
  BY <1>1, SameTable DEF descriptors
<1>3. Grown(vsizes, vsizes') /\ IdsOK(vsizes')
  BY UseLines DEF Grown
<1>4. /\ Table[p][f] = [no |-> k, path |-> y] /\ Table[p][f] # None
      /\ y \in Paths /\ vsizes.id[y] # 0 /\ vsizes'.id[y] = vsizes.id[y]
  BY <1>1, <1>3, FoundEntry
<1>5. PICK n \in Lines : /\ replay' = Append(replay, n)
                         /\ n.op = "use" /\ n.fd = k /\ n.vsize = vsizes.id[y]
  BY UseLines
<1> HIDE DEF y, k
<1>6. Row(vsizes', n) = [op |-> "use", no |-> k, path |-> y]
  BY <1>3, <1>4, <1>5, RowIs
<1>7. Log' = Append(Log, [op |-> "use", no |-> k, path |-> y])
  BY <1>3, <1>5, <1>6, LogWith
<1>8. Table[p][f] # None
      /\ Log' = Append(Log, [op |-> "use", no |-> Table[p][f].no,
                             path |-> Table[p][f].path])
  BY SMTT(30), <1>4, <1>7
<1> QED
  BY <1>2, <1>8, LogIs DEF Abstract!Use, Abstract!Line, Table, MappedLog

LEMMA CloseMaps ==
  ASSUME IInv, IInv', NumInv, NEW p \in Pids, NEW f \in Fds, NEW b \in BOOLEAN,
         Close(p, f, b)
  PROVE  Abstract!Close(p, f)
<1> DEFINE y == vfd[VfdByRealfd(p, f)].path
           k == fd_map[p][f]
<1>1. exiting = None /\ VfdByRealfd(p, f) # None /\ UNCHANGED exit
  BY DEF Close, Event
<1>2. Table' = [Table EXCEPT ![p][f] = None]
  BY <1>1, CloseTable, TableWith
<1>3. Grown(vsizes, vsizes') /\ IdsOK(vsizes') /\ num_mapped_fds' = num_mapped_fds
  BY CloseLines DEF Grown
<1>4. /\ Table[p][f] = [no |-> k, path |-> y] /\ Table[p][f] # None
      /\ y \in Paths /\ vsizes.id[y] # 0 /\ vsizes'.id[y] = vsizes.id[y]
  BY <1>1, <1>3, FoundEntry
<1>5. PICK n \in Lines : /\ replay' = Append(replay, n)
                         /\ n.op = "close" /\ n.fd = k /\ n.vsize = vsizes.id[y]
  BY CloseLines
<1> HIDE DEF y, k
<1>6. Row(vsizes', n) = [op |-> "close", no |-> k, path |-> y]
  BY <1>3, <1>4, <1>5, RowIs
<1>7. Log' = Append(Log, [op |-> "close", no |-> k, path |-> y])
  BY <1>3, <1>5, <1>6, LogWith
<1>8. Table[p][f] # None /\ num_mapped_fds' = num_mapped_fds
      /\ Log' = Append(Log, [op |-> "close", no |-> Table[p][f].no,
                             path |-> Table[p][f].path])
  BY <1>3, <1>4, <1>7
<1> QED
  BY <1>2, <1>8, LogIs DEF Abstract!Close, Abstract!Line, Table, MappedLog

(* The close that an exit inserts is a close of one open descriptor.       *)
LEMMA CloseOnExitMaps ==
  ASSUME IInv, IInv', NumInv, CloseOnExit
  PROVE  \E p \in Pids, f \in Fds : Abstract!Close(p, f)
<1>1. PICK m \in left, n \in Lines :
        /\ m \in Numbers /\ left' = left \ {m} /\ replay' = Append(replay, n)
        /\ n.op = "close" /\ n.fd = m
        /\ n.vsize = vsizes.id[vfd[vfd_map[exiting][m]].path]
        /\ vfd[vfd_map[exiting][m]].path \in Paths
        /\ n.vsize # 0
  BY CloseOnExitLines
<1> DEFINE y == vfd[vfd_map[exiting][m]].path
<1>2. /\ exiting \in Pids /\ Grown(vsizes, vsizes') /\ IdsOK(vsizes')
      /\ UNCHANGED <<descriptors, exiting>>
  BY SMTT(30), CloseOnExitLines DEF Grown
<1>3. PICK f \in Fds :
        /\ TableEntry(exiting, f) = [no |-> m, path |-> y]
        /\ \A q \in Pids, g \in Fds :
             TableEntry(q, g)' = IF q = exiting /\ g = f THEN None
                                 ELSE TableEntry(q, g)
  BY <1>1, <1>2, CloseOnExitTable
<1> HIDE DEF y
<1>4. Table' = [Table EXCEPT ![exiting][f] = None]
  BY SMTT(30), <1>2, <1>3, TableWith
<1>5. Table[exiting][f] = [no |-> m, path |-> y] /\ y \in Paths
  BY <1>1, <1>2, <1>3 DEF Table, y
<1>6. Table[exiting][f] # None
  BY SMTT(30), <1>1, <1>5, NumbersFacts, NoneAssumption
<1>7. Row(vsizes', n) = [op |-> "close", no |-> m, path |-> y]
  <2>1. vsizes'.id[y] = vsizes.id[y]
    BY SMTT(30), <1>1, <1>2, <1>5 DEF Grown, Keeps, y
  <2> QED
    BY SMTT(30), <1>1, <1>2, <1>5, <2>1, RowIs DEF y
<1>8. Log' = Append(Log, [op |-> "close", no |-> m, path |-> y])
  BY <1>1, <1>2, <1>7, LogWith
<1>9. num_mapped_fds' = num_mapped_fds
  BY <1>2 DEF descriptors
<1>10. Log' = Append(Log, [op |-> "close", no |-> Table[exiting][f].no,
                           path |-> Table[exiting][f].path])
  BY SMTT(30), <1>5, <1>8
<1>11. Abstract!Close(exiting, f)
  BY <1>4, <1>6, <1>9, <1>10, LogIs
     DEF Abstract!Close, Abstract!Line, Table, MappedLog
<1> QED
  BY <1>2, <1>11

(* Lines without a descriptor.                                             *)
LEMMA PathLineMaps ==
  ASSUME IInv, NumInv, Grown(vsizes, vsizes'), UNCHANGED <<descriptors, exit>>,
         NEW n \in Lines, replay' = Append(replay, n), n.op = "path", n.fd = 0,
         NEW x, PathIn(vsizes', n.vsize) = x
  PROVE  Abstract!PathOp(x)
<1>1. Log' = Append(Log, [op |-> "path", no |-> 0, path |-> x])
  BY LogWith DEF Row
<1>2. Table' = Table /\ num_mapped_fds' = num_mapped_fds
  BY SameTable DEF descriptors
<1> QED
  BY <1>1, <1>2, LogIs
     DEF Abstract!PathOp, Abstract!Entry, Abstract!Line, Table, MappedLog

(* Nothing is written.                                                     *)
LEMMA StutterMaps ==
  ASSUME Table' = Table, UNCHANGED <<num_mapped_fds, vsizes, replay>>
  PROVE  UNCHANGED Abstract!vars
<1>1. MappedLog' = MappedLog
  BY LogIs DEF Log
<1> QED
  BY <1>1 DEF Abstract!vars, Table, MappedLog

LEMMA NextMaps ==
  ASSUME IInv, IInv', NumInv, [Next]_vars
  PROVE  [Abstract!Next]_(Abstract!vars)
<1>1. ASSUME NEW p \in Pids, NEW f \in Fds, NEW x \in Paths,
             Open(p, f, x) \/ OpenAgain(p, f, x)
      PROVE  Abstract!Next
  BY <1>1, OpenMaps, OpenAgainMaps DEF Abstract!Next
<1>2. ASSUME NEW p \in Pids, NEW f \in Fds, NEW b \in BOOLEAN,
             Use(p, f, b) \/ Close(p, f, b)
      PROVE  Abstract!Next
  BY <1>2, UseMaps, CloseMaps DEF Abstract!Next
<1>3. ASSUME NEW p \in Pids, NEW x \in Paths, NEW b \in BOOLEAN, NEW z \in Paths,
             PathOp(p, x, b) \/ Rename(p, x, z)
      PROVE  Abstract!Next
  <2>1. UNCHANGED <<descriptors, exit>>
    BY <1>3 DEF PathOp, Rename
  <2>2. Grown(vsizes, vsizes') /\ IdsOK(vsizes')
    BY <1>3, PathOpLines, RenameLines DEF Grown
  <2>3. PICK n \in Lines : /\ replay' = Append(replay, n)
                           /\ n.op = "path" /\ n.fd = 0
                           /\ n.vsize = vsizes'.id[x] /\ n.vsize # 0
    BY <1>3, PathOpLines, RenameLines
  <2>4. PathIn(vsizes', n.vsize) = x
    BY <2>2, <2>3, PathOfId
  <2>5. Abstract!PathOp(x)
    BY <2>1, <2>2, <2>3, <2>4, PathLineMaps
  <2> QED
    BY <2>5 DEF Abstract!Next
<1>4. ASSUME NEW p \in Pids, Sync(p)
      PROVE  Abstract!Next
  <2> DEFINE n == Line("path", 0, p, 0)
  <2>1. /\ Event(p) /\ replay' = Append(replay, n)
        /\ UNCHANGED <<vsizes, descriptors, exit>>
    BY <1>4 DEF Sync
  <2>2. n \in Lines /\ n.vsize = 0 /\ n.op = "path" /\ n.fd = 0
    BY SMTT(30), <2>1, EventFacts, LineFacts DEF Ops
  <2>3. Grown(vsizes, vsizes') /\ PathIn(vsizes', n.vsize) = None
    BY <2>1, <2>2, GrownSelf DEF NumInv, PathIn
  <2> HIDE DEF n
  <2>4. Abstract!PathOp(None)
    BY <2>1, <2>2, <2>3, PathLineMaps
  <2> QED
    BY <2>4 DEF Abstract!Next
<1>5. ASSUME NEW p \in Pids, NoLine(p) \/ ExitGroup(p)
      PROVE  UNCHANGED Abstract!vars
  <2>1. UNCHANGED <<num_mapped_fds, vsizes, replay>>
    BY <1>5 DEF NoLine, ExitGroup, descriptors
  <2>2. Table' = Table
    BY <1>5, SameTable, ExitGroupTable DEF NoLine
  <2> QED
    BY <2>1, <2>2, StutterMaps
<1>6. CASE Refused \/ UNCHANGED vars
  <2>1. UNCHANGED <<num_mapped_fds, vsizes, replay>>
    BY <1>6 DEF Refused, vars, descriptors
  <2>2. Table' = Table
    BY <1>6, SameTable DEF Refused, vars
  <2> QED
    BY <2>1, <2>2, StutterMaps
<1>7. CASE CloseOnExit
  BY <1>7, CloseOnExitMaps DEF Abstract!Next
<1>8. CASE GprocessDestroy
  <2>1. UNCHANGED <<num_mapped_fds, vsizes, replay>>
    BY <1>8 DEF GprocessDestroy
  <2> QED
    BY <1>8, <2>1, GprocessDestroyTable, StutterMaps
<1>9. ASSUME NEW p \in Pids, ProcessEvent(p)
      PROVE  [Abstract!Next]_(Abstract!vars)
  BY <1>1, <1>2, <1>3, <1>4, <1>5, <1>9 DEF ProcessEvent
<1> QED
  BY <1>6, <1>7, <1>8, <1>9 DEF Next

LEMMA InitMaps == Init => Abstract!Init
<1> SUFFICES ASSUME Init PROVE Abstract!Init
  OBVIOUS
<1>1. \A p \in Pids, f \in Fds : TableEntry(p, f) = None
  BY DEF Init, TableEntry, VfdByRealfd
<1>2. MappedLog = << >>
  BY DEF Init, MappedLog
<1>3. num_mapped_fds = FirstFds
  BY DEF Init
<1> QED
  BY <1>1, <1>2, <1>3 DEF Abstract!Init, MappedLog

(* With all its maps, recycled objects and numbers of paths the writer     *)
(* does what a plain table of descriptors would do: every event reaches    *)
(* its own descriptor, under the number and the path of its open, and no   *)
(* other.                                                                  *)
THEOREM TableImplemented == Spec => ImplementsTable
<1>1. IInv /\ IInv' /\ NumInv /\ [Next]_vars => [Abstract!Next]_(Abstract!vars)
  BY NextMaps
<1> QED
  BY <1>1, InitMaps, AlwaysNumInv, PTL DEF Spec, ImplementsTable, Abstract!Spec

=============================================================================
