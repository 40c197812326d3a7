---------------------------- MODULE GenerateMaps ----------------------------
(***************************************************************************)
(* The maps of the generator as they lie in memory: pid_map is an array    *)
(* map of processes, a process has the hash maps fd_map and vfd_map        *)
(* (generate/gprocess.c), and vsize_map is a hash map of paths.  The       *)
(* module Generate takes them for functions; here they are collisions,     *)
(* lists, arrays and indices, used in the order in which gprocess.c,       *)
(* generate.c and gioop.c use them.                                        *)
(***************************************************************************)
EXTENDS HMap, AMap

CONSTANTS Pids,          (* process ids, some of them too large            *)
          Fds,           (* descriptors, above 0                           *)
          Paths,         (* the paths                                      *)
          Hash,          (* Hash[x]: the hash of the string x              *)
          MaxProcesses,  (* _MAX_PROCESSES                                 *)
          MapSize,       (* the size of fd_map and vfd_map: 1024           *)
          MaxEvents      (* bound: the number of events                    *)

ASSUME PidsAssumption == Pids \subseteq Nat /\ Fds \subseteq Nat \ {0}
ASSUME MapsAssumption == /\ MaxProcesses \in Nat \ {0}
                         /\ MapSize \in Nat \ {0}
                         /\ MaxEvents \in Nat
ASSUME HashAssumption == Hash \in [Paths -> Nat]

VARIABLES
  pid_map,           (* generate_s.pid_map: the objects' mapped_pid        *)
  gprocess,          (* the gprocess_s objects by mapped_pid, each made    *)
                     (* once; <<>> after gprocess_destroy                  *)
  num_mapped_fds,    (* generate_s.num_mapped_fds, from 0                  *)
  vsize_map,         (* generate_s.vsize_map: the objects' ids             *)
  num_vsizes,        (* generate_s.num_vsizes                              *)
  seen,              (* the data that the last event found in the maps     *)
  events,            (* how many events there were                         *)
  stopped            (* Error() has ended the program                      *)

processes == <<pid_map, gprocess, num_mapped_fds>>
paths == <<vsize_map, num_vsizes>>
vars == <<processes, paths, seen, events, stopped>>

Init ==
  /\ pid_map = AmapNew(MaxProcesses)
  /\ gprocess = <<>>
  /\ num_mapped_fds = 0
  /\ vsize_map = HmapNew(MaxProcesses)
  /\ num_vsizes = 0
  /\ seen = <<>>
  /\ events = 0
  /\ stopped = FALSE

Step == ~stopped /\ events < MaxEvents /\ events' = events + 1

(* hmap_get_addr_l and hmap_get_addr.                                      *)
AddrL(key) == key % MapSize
Addr(x) == Hash[x] % MaxProcesses

-----------------------------------------------------------------------------
GprocessNew == [fd_map |-> HmapNew(MapSize), vfd_map |-> HmapNew(MapSize)]

(* generate_gprocess_by_realpid: the object of p, and what is there of     *)
(* objects and of pid_map when it has been made if need be.                *)
Known(p) == AmapGet(pid_map, p) # 0
ObjectOf(p) == IF Known(p) THEN AmapGet(pid_map, p) ELSE Len(gprocess) + 1
ObjectsWith(p) ==
  IF Known(p) THEN gprocess ELSE Append(gprocess, <<GprocessNew>>)
PidMapWith(p) == IF Known(p) THEN pid_map ELSE AmapSet(pid_map, p, Len(gprocess) + 1)

(* amap_set has refused the pid, which is an Error.                        *)
PidTooLarge(p) ==
  /\ Step
  /\ ~InRange(pid_map, p)
  /\ stopped' = TRUE
  /\ UNCHANGED <<processes, paths, seen>>

EventOf(p) == Step /\ InRange(pid_map, p) /\ UNCHANGED <<paths, stopped>>

(* What gprocess_create_vfd_by_realfd and gioop_close take out.            *)
ForgetVfd(gp, f) ==
  LET m == HmapGet(gp.fd_map, AddrL(f), f) IN
  [fd_map |-> HmapRemove(gp.fd_map, AddrL(f), f),
   vfd_map |-> HmapRemove(gp.vfd_map, AddrL(m), m)]

(* gprocess_create_vfd_by_realfd; the data of vfd_map is the mapped_fd of  *)
(* the vfd_s object.                                                       *)
Open(p, f) ==
  LET gp == ObjectsWith(p)[ObjectOf(p)][1]
      old == HmapGet(gp.fd_map, AddrL(f), f)
      free == IF old # 0 THEN ForgetVfd(gp, f) ELSE gp
      m == num_mapped_fds + 1 IN
  /\ EventOf(p)
  /\ seen' = IF old # 0 THEN <<HmapGet(gp.vfd_map, AddrL(old), old)>> ELSE <<>>
  /\ num_mapped_fds' = m
  /\ pid_map' = PidMapWith(p)
  /\ gprocess' = [ObjectsWith(p) EXCEPT ![ObjectOf(p)] =
                    <<[fd_map |-> HmapInsert(free.fd_map, AddrL(f), f, m),
                       vfd_map |-> HmapInsert(free.vfd_map, AddrL(m), m, m)]>>]

(* gprocess_vfd_by_realfd: the mapped_fd of the object, 0 if there is none.*)
VfdByRealfd(gp, f) ==
  LET m == HmapGet(gp.fd_map, AddrL(f), f) IN
  IF m = 0 THEN 0 ELSE HmapGet(gp.vfd_map, AddrL(m), m)

Use(p, f) ==
  /\ EventOf(p)
  /\ pid_map' = PidMapWith(p)
  /\ gprocess' = ObjectsWith(p)
  /\ seen' = <<VfdByRealfd(ObjectsWith(p)[ObjectOf(p)][1], f)>>
  /\ UNCHANGED num_mapped_fds

(* gioop_close                                                             *)
Close(p, f) ==
  LET gp == ObjectsWith(p)[ObjectOf(p)][1] IN
  /\ EventOf(p)
  /\ VfdByRealfd(gp, f) # 0
  /\ seen' = <<VfdByRealfd(gp, f)>>
  /\ gprocess' = [gprocess EXCEPT ![ObjectOf(p)] = <<ForgetVfd(gp, f)>>]
  /\ UNCHANGED <<pid_map, num_mapped_fds>>

Data(pairs) == [i \in DOMAIN pairs |-> pairs[i].data]

(* gioop_exit_group: the callbacks on vfd_map, then amap_unset and         *)
(* gprocess_destroy.                                                       *)
ExitGroup(p) ==
  /\ EventOf(p)
  /\ seen' = Data(HmapRunCb(ObjectsWith(p)[ObjectOf(p)][1].vfd_map))
  /\ pid_map' = AmapUnset(PidMapWith(p), p)
  /\ gprocess' = [ObjectsWith(p) EXCEPT ![ObjectOf(p)] = <<>>]
  /\ UNCHANGED num_mapped_fds

(* generate_vsize_by_path                                                  *)
VsizeByPath(x) ==
  LET v == HmapGet(vsize_map, Addr(x), x) IN
  /\ Step
  /\ seen' = IF v # 0 THEN <<v>> ELSE <<num_vsizes + 1>>
  /\ num_vsizes' = IF v # 0 THEN num_vsizes ELSE num_vsizes + 1
  /\ vsize_map' = IF v # 0 THEN vsize_map
                  ELSE HmapInsert(vsize_map, Addr(x), x, num_vsizes + 1)
  /\ UNCHANGED <<processes, stopped>>

(* The callbacks on vsize_map that write the INIT section.                 *)
WriteInit ==
  /\ Step
  /\ seen' = Data(HmapRunCb(vsize_map))
  /\ UNCHANGED <<processes, paths, stopped>>

Next ==
  \/ \E p \in Pids, f \in Fds : Open(p, f) \/ Use(p, f) \/ Close(p, f)
  \/ \E p \in Pids : ExitGroup(p) \/ PidTooLarge(p)
  \/ \E x \in Paths : VsizeByPath(x)
  \/ WriteInit

Spec == Init /\ [][Next]_vars

-----------------------------------------------------------------------------
Stored(a) == {c \in UNION {{i} \X DOMAIN a.arrays[i] : i \in DOMAIN a.arrays} :
                a.arrays[c[1]][c[2]] # 0}

(* A key of a hash map is stored once, at its own address; a slot has a    *)
(* single pair or a list, never both: hmap_remove_l, which takes a single  *)
(* pair for the one that is asked for, and hmap_run_cb rely on it.  Every  *)
(* process that has not been destroyed is in pid_map once, and no other.   *)
WellFormed(h, A(_)) ==
  /\ \A a \in DOMAIN h : h[a].single = <<>> \/ h[a].list = <<>>
  /\ \A a \in DOMAIN h :
       LET l == SlotPairs(h[a]) IN
       \A i, j \in DOMAIN l : A(l[i].key) = a /\ (i # j => l[i].key # l[j].key)
KeysInOnePlace ==
  /\ \A c, d \in Stored(pid_map) :
       LET i == pid_map.arrays[c[1]][c[2]] IN
       /\ i \in DOMAIN gprocess /\ gprocess[i] # <<>>
       /\ c # d => i # pid_map.arrays[d[1]][d[2]]
  /\ \A i \in DOMAIN gprocess :
       gprocess[i] # <<>> => \E c \in Stored(pid_map) : pid_map.arrays[c[1]][c[2]] = i
  /\ WellFormed(vsize_map, Addr)
  /\ \A i \in DOMAIN gprocess : gprocess[i] # <<>> =>
       /\ WellFormed(gprocess[i][1].fd_map, AddrL)
       /\ WellFormed(gprocess[i][1].vfd_map, AddrL)

(* What the maps say a descriptor of a process is mapped to.               *)
MappedTo(p, f) ==
  IF AmapGet(pid_map, p) = 0 THEN 0
  ELSE VfdByRealfd(gprocess[AmapGet(pid_map, p)][1], f)

Table == INSTANCE ProcessTable
  WITH table <- [p \in Pids |-> [f \in Fds |-> MappedTo(p, f)]],
       opened <- num_mapped_fds,
       ids <- [x \in Paths |-> HmapGet(vsize_map, Addr(x), x)],
       num <- num_vsizes

(* The maps do what plain functions would: whatever collides, is removed   *)
(* and comes back, no entry is lost, doubled or reached by another key,    *)
(* and the callbacks at the end of a process and of the file meet every    *)
(* entry once.                                                             *)
ImplementsProcessTable == Table!Spec
=============================================================================
