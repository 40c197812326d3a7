------------------------------ MODULE Generate ------------------------------
(***************************************************************************)
(* The writer thread of the generator: it turns the events of a .capture   *)
(* file into the lines of a .replay file (generate/gioop.c, gprocess.c,    *)
(* vfd.c, and the maps of generate.c).                                     *)
(*                                                                         *)
(* A captured process is known by its pid and reuses the numbers of its    *)
(* descriptors.  The replay opens every descriptor under a number of its   *)
(* own, so the writer keeps for each process two maps: fd_map from real to *)
(* virtual descriptors, and vfd_map from virtual descriptors to vfd_s      *)
(* objects, which are recycled through vfd_buffer.  Paths are numbered in  *)
(* the order in which they are first met.  SystemTap loses events, so any  *)
(* sequence of them may come.                                              *)
(*                                                                         *)
(* An event is one step, but for exit_group, which writes a line per       *)
(* descriptor.  Which of the about forty handlers an event reaches matters *)
(* only by what it does to the maps; what the handlers record of sizes and *)
(* file types is left to the vsize objects.                                *)
(***************************************************************************)
EXTENDS ReplayFile, FiniteSets

CONSTANTS
  Pids,         (* the process ids in the capture                          *)
  Fds,          (* the real descriptors in the capture, above 0            *)
  Paths,        (* the paths                                               *)
  Parent,       (* Parent[x]: dirname(x)                                   *)
  Vfds,         (* the memory for vfd_s objects                            *)
  BufferCap,    (* what vfd_buffer holds: 1023                             *)
  MaxLines,     (* bound: the number of lines of the capture               *)
  None          (* the null pointer                                        *)

ASSUME ParentAssumption == Parent \in [Paths -> Paths]
ASSUME NumbersAssumption == BufferCap \in Nat /\ MaxLines \in Nat
ASSUME NoneAssumption ==
  None \notin Vfds \cup Pids \cup [mapped_fd : Nat, path : Paths]
                  \cup [no : Nat, path : Paths]

VARIABLES
  lineno,            (* generate_s.lineno                                  *)
  pid_map,           (* pid_map[p]: the mapped_pid of p's process object,  *)
                     (* 0 if there is none                                 *)
  num_mapped_pids,   (* generate_s.num_mapped_pids                         *)
  fd_map,            (* fd_map[p]: gprocess_s.fd_map, 0 for no entry       *)
  vfd_map,           (* vfd_map[p]: gprocess_s.vfd_map, None for no entry  *)
  num_mapped_fds,    (* generate_s.num_mapped_fds                          *)
  vfd,               (* vfd[o]: the vfd_s object o, None if not allocated  *)
  vfd_buffer,        (* generate_s.vfd_buffer                              *)
  vsizes,            (* generate_s.vsize_map and num_vsizes: the ids, how  *)
                     (* many, and which objects have updates > 0           *)
  replay,            (* the lines of the .replay file                      *)
  exiting,           (* the pid whose exit_group is under way, or None     *)
  left               (* the virtual descriptors it has still to close      *)

processes == <<pid_map, num_mapped_pids>>
descriptors == <<fd_map, vfd_map, num_mapped_fds, vfd, vfd_buffer>>
exit == <<exiting, left>>
vars == <<lineno, processes, descriptors, vsizes, replay, exit>>

(* generate_new: the first virtual descriptor is the one after this.       *)
FirstFds == 10

(* The numbers that virtual descriptors can have in a capture this long.   *)
Numbers == FirstFds + 1 .. FirstFds + MaxLines

Init ==
  /\ lineno = 0
  /\ pid_map = [p \in Pids |-> 0]
  /\ num_mapped_pids = 0
  /\ fd_map = [p \in Pids |-> [f \in Fds |-> 0]]
  /\ vfd_map = [p \in Pids |-> [m \in Numbers |-> None]]
  /\ num_mapped_fds = FirstFds
  /\ vfd = [o \in Vfds |-> None]
  /\ vfd_buffer = << >>
  /\ vsizes = [id |-> [x \in Paths |-> 0], num |-> 0,
               updated |-> [x \in Paths |-> FALSE]]
  /\ replay = << >>
  /\ exiting = None
  /\ left = {}

-----------------------------------------------------------------------------
(* Paths.                                                                  *)

(* Faulty variant: the count of the paths is not kept.                     *)
WithPathUncounted(v, x) ==
  IF v.id[x] # 0 THEN v ELSE [v EXCEPT !.id[x] = v.num + 1]

(* generate_vsize_by_path: a path that is new gets the next number.        *)
WithPath(v, x) ==
  IF v.id[x] # 0
  THEN v
  ELSE [v EXCEPT !.id[x] = v.num + 1, !.num = @ + 1]

(* v->updates++                                                            *)
Updated(v, x) == [v EXCEPT !.updated[x] = TRUE]

(* init_parent_dir: the parent directory gets a number, too.               *)
WithParent(v, x) ==
  IF v.id[Parent[x]] # 0
  THEN v
  ELSE Updated(WithPath(v, Parent[x]), Parent[x])

(* What a vsize_... function does at the first update of a path.           *)
FirstUpdate(v, x) ==
  IF v.updated[x] THEN v ELSE Updated(WithParent(v, x), x)

-----------------------------------------------------------------------------
(* Processes.                                                              *)

(* The mapped_pid of p's process object, which is made if there is none.   *)
MappedPid(p) == IF pid_map[p] # 0 THEN pid_map[p] ELSE num_mapped_pids + 1

(* generate_gprocess_by_realpid                                            *)
GprocessByRealpid(p) ==
  /\ pid_map' = [pid_map EXCEPT ![p] = MappedPid(p)]
  /\ num_mapped_pids' =
       IF pid_map[p] # 0 THEN num_mapped_pids ELSE num_mapped_pids + 1

(* The writer takes the next event, which is of the process p.             *)
Event(p) ==
  /\ exiting = None
  /\ lineno < MaxLines
  /\ lineno' = lineno + 1
  /\ GprocessByRealpid(p)

(* Gioop_write: the id is that of the task's vsize object.                 *)
Line(op, id, p, m) ==
  [op |-> op, vsize |-> id, pid |-> MappedPid(p), fd |-> m]

-----------------------------------------------------------------------------
(* Descriptors.                                                            *)

(* gprocess_vfd_by_realfd                                                  *)
VfdByRealfd(p, f) ==
  IF fd_map[p][f] = 0 THEN None ELSE vfd_map[p][fd_map[p][f]]

(* Faulty variant: the buffer takes objects that were destroyed.           *)
BufferAnyway(o) == Append(vfd_buffer, o)

(* vfd_buffer and the objects after rbuffer_insert(g->vfd_buffer, o), or   *)
(* after vfd_destroy(o) if the buffer is full.                             *)
BufferWith(o) ==
  IF Len(vfd_buffer) < BufferCap THEN Append(vfd_buffer, o) ELSE vfd_buffer
VfdWithout(o) ==
  IF Len(vfd_buffer) < BufferCap THEN vfd ELSE [vfd EXCEPT ![o] = None]

(* Faulty variant: the number is counted up a second time.                 *)
CreateVfdCountedTwice(p, f, x, map, buffer, objects) ==
  LET m == num_mapped_fds + 1
  IN  \E o \in Vfds :
        /\ IF buffer = << >> THEN objects[o] = None ELSE o = Head(buffer)
        /\ vfd_buffer' = IF buffer = << >> THEN buffer ELSE Tail(buffer)
        /\ vfd' = [objects EXCEPT ![o] = [mapped_fd |-> m, path |-> x]]
        /\ vfd_map' = [vfd_map EXCEPT ![p] = [map EXCEPT ![m] = o]]
        /\ fd_map' = [fd_map EXCEPT ![p][f] = m]
        /\ num_mapped_fds' = m + 1

(* Faulty variant: a recycled object keeps the path it had.                *)
CreateVfdOldPath(p, f, x, map, buffer, objects) ==
  LET m == num_mapped_fds + 1
  IN  \E o \in Vfds :
        /\ IF buffer = << >> THEN objects[o] = None ELSE o = Head(buffer)
        /\ vfd_buffer' = IF buffer = << >> THEN buffer ELSE Tail(buffer)
        /\ vfd' = [objects EXCEPT ![o] =
                     [mapped_fd |-> m,
                      path |-> IF buffer = << >> THEN x ELSE @.path]]
        /\ vfd_map' = [vfd_map EXCEPT ![p] = [map EXCEPT ![m] = o]]
        /\ fd_map' = [fd_map EXCEPT ![p][f] = m]
        /\ num_mapped_fds' = m

(* The end of gprocess_create_vfd_by_realfd: a recycled object, or a new   *)
(* one, becomes the vfd_s of the next virtual descriptor.  The arguments   *)
(* are the map, the buffer and the objects as they are at that point.      *)
CreateVfd(p, f, x, map, buffer, objects) ==
  LET m == num_mapped_fds + 1
  IN  \E o \in Vfds :
        /\ IF buffer = << >> THEN objects[o] = None ELSE o = Head(buffer)
        /\ vfd_buffer' = IF buffer = << >> THEN buffer ELSE Tail(buffer)
        /\ vfd' = [objects EXCEPT ![o] = [mapped_fd |-> m, path |-> x]]
        /\ vfd_map' = [vfd_map EXCEPT ![p] = [map EXCEPT ![m] = o]]
        /\ fd_map' = [fd_map EXCEPT ![p][f] = m]
        /\ num_mapped_fds' = m

(* gioop_open, gioop_openat and gioop_creat of a descriptor that is not    *)
(* open as far as the capture tells.                                       *)
Open(p, f, x) ==
  LET v == WithPath(vsizes, x)
  IN  /\ Event(p)
      /\ VfdByRealfd(p, f) = None
      /\ CreateVfd(p, f, x, vfd_map[p], vfd_buffer, vfd)
      /\ vsizes' = FirstUpdate(v, x)
      /\ replay' = Append(replay, Line("open", v.id[x], p, num_mapped_fds + 1))
      /\ UNCHANGED exit

(* The capture missed the close of the descriptor: a close is inserted.    *)
OpenAgain(p, f, x) ==
  LET old == VfdByRealfd(p, f)
      m == fd_map[p][f]
      q == vfd[old].path
      v == WithPath(vsizes, q)
      w == WithPath(Updated(v, q), x)
  IN  /\ Event(p)
      /\ old # None
      /\ CreateVfd(p, f, x, [vfd_map[p] EXCEPT ![m] = None],
                   BufferWith(old), VfdWithout(old))
      /\ vsizes' = FirstUpdate(w, x)
      /\ replay' = Append(Append(replay, Line("close", v.id[q], p, m)),
                          Line("open", w.id[x], p, num_mapped_fds + 1))
      /\ UNCHANGED exit

(* The handlers of the calls on a descriptor: gioop_read, gioop_fstat, ... *)
(* They write the number and the path of the object; what moves the offset *)
(* or the size counts as an update of the path.                            *)
Use(p, f, update) ==
  LET o == VfdByRealfd(p, f)
      x == vfd[o].path
      v == WithPath(vsizes, x)
  IN  /\ Event(p)
      /\ o # None
      /\ vsizes' = IF update THEN Updated(v, x) ELSE v
      /\ replay' = Append(replay, Line("use", v.id[x], p, vfd[o].mapped_fd))
      /\ UNCHANGED <<descriptors, exit>>

(* Faulty variant: a close that failed leaves the descriptor open.         *)
CloseIfSuccessful(p, f, success) ==
  LET o == VfdByRealfd(p, f)
      x == vfd[o].path
      m == vfd[o].mapped_fd
      v == WithPath(vsizes, x)
  IN  /\ Event(p)
      /\ o # None
      /\ vsizes' = IF success THEN Updated(v, x) ELSE v
      /\ replay' = Append(replay, Line("close", v.id[x], p, m))
      /\ IF success
         THEN /\ fd_map' = [fd_map EXCEPT ![p][f] = 0]
              /\ vfd_map' = [vfd_map EXCEPT ![p][m] = None]
              /\ vfd_buffer' = BufferWith(o)
              /\ vfd' = VfdWithout(o)
         ELSE UNCHANGED <<fd_map, vfd_map, vfd_buffer, vfd>>
      /\ UNCHANGED <<num_mapped_fds, exit>>

(* Faulty variant: the real descriptor stays in fd_map.                    *)
CloseHalf(p, f, success) ==
  LET o == VfdByRealfd(p, f)
      x == vfd[o].path
      m == vfd[o].mapped_fd
      v == WithPath(vsizes, x)
  IN  /\ Event(p)
      /\ o # None
      /\ vsizes' = IF success THEN Updated(v, x) ELSE v
      /\ replay' = Append(replay, Line("close", v.id[x], p, m))
      /\ vfd_map' = [vfd_map EXCEPT ![p][m] = None]
      /\ vfd_buffer' = BufferWith(o)
      /\ vfd' = VfdWithout(o)
      /\ UNCHANGED <<fd_map, num_mapped_fds, exit>>

(* gioop_close: the descriptor is gone whether the call succeeded or not.  *)
Close(p, f, success) ==
  LET o == VfdByRealfd(p, f)
      x == vfd[o].path
      m == vfd[o].mapped_fd
      v == WithPath(vsizes, x)
  IN  /\ Event(p)
      /\ o # None
      /\ vsizes' = IF success THEN Updated(v, x) ELSE v
      /\ replay' = Append(replay, Line("close", v.id[x], p, m))
      /\ fd_map' = [fd_map EXCEPT ![p][f] = 0]
      /\ vfd_map' = [vfd_map EXCEPT ![p][m] = None]
      /\ vfd_buffer' = BufferWith(o)
      /\ vfd' = VfdWithout(o)
      /\ UNCHANGED <<num_mapped_fds, exit>>

-----------------------------------------------------------------------------
(* Events without a descriptor.                                            *)

(* The handlers of the calls on a path: gioop_stat, gioop_mkdir, ...       *)
PathOp(p, x, success) ==
  LET v == WithPath(vsizes, x)
  IN  /\ Event(p)
      /\ vsizes' = IF success THEN FirstUpdate(v, x) ELSE v
      /\ replay' = Append(replay, Line("path", v.id[x], p, 0))
      /\ UNCHANGED <<descriptors, exit>>

(* gioop_rename and its variants that succeed (the ones that fail are like *)
(* a PathOp that fails).                                                   *)
Rename(p, x, y) ==
  LET v == WithPath(vsizes, x)
  IN  /\ Event(p)
      /\ vsizes' = FirstUpdate(FirstUpdate(WithPath(v, y), x), y)
      /\ replay' = Append(replay, Line("path", v.id[x], p, 0))
      /\ UNCHANGED <<descriptors, exit>>

(* gioop_sync: a line without a path.                                      *)
Sync(p) ==
  /\ Event(p)
  /\ replay' = Append(replay, Line("path", 0, p, 0))
  /\ UNCHANGED <<descriptors, vsizes, exit>>

(* An event that has no line: an ignored call, an unknown one, one without *)
(* the values its handler needs, or on a descriptor that is not open.      *)
NoLine(p) ==
  /\ Event(p)
  /\ UNCHANGED <<descriptors, vsizes, replay, exit>>

(* The parser has refused the line: the writer does not look at it.        *)
Refused ==
  /\ exiting = None
  /\ lineno < MaxLines
  /\ lineno' = lineno + 1
  /\ UNCHANGED <<processes, descriptors, vsizes, replay, exit>>

-----------------------------------------------------------------------------
(* exit_group.                                                             *)

(* Faulty variant: the process goes without closing anything.              *)
ExitSilently(p) ==
  /\ Event(p)
  /\ exiting' = p
  /\ left' = {}
  /\ UNCHANGED <<descriptors, vsizes, replay>>

(* The descriptors to close are those in vfd_map.                          *)
ExitGroup(p) ==
  /\ Event(p)
  /\ exiting' = p
  /\ left' = {m \in Numbers : vfd_map[p][m] # None}
  /\ UNCHANGED <<descriptors, vsizes, replay>>

(* gioop_close_all_vfd_cb for one entry of vfd_map; the order is that of   *)
(* the hash map.                                                           *)
CloseOnExit ==
  \E m \in left :
    LET o == vfd_map[exiting][m]
        x == vfd[o].path
        v == WithPath(vsizes, x)
    IN  /\ left' = left \ {m}
        /\ vsizes' = Updated(v, x)
        /\ replay' = Append(replay, Line("close", v.id[x], exiting,
                                         vfd[o].mapped_fd))
        /\ UNCHANGED <<lineno, processes, descriptors, exiting>>

(* amap_unset(g->pid_map, t->pid) and gprocess_destroy                     *)
GprocessDestroy ==
  /\ exiting # None
  /\ left = {}
  /\ pid_map' = [pid_map EXCEPT ![exiting] = 0]
  /\ fd_map' = [fd_map EXCEPT ![exiting] = [f \in Fds |-> 0]]
  /\ vfd_map' = [vfd_map EXCEPT ![exiting] = [m \in Numbers |-> None]]
  /\ vfd' = [o \in Vfds |->
               IF \E m \in Numbers : vfd_map[exiting][m] = o
               THEN None ELSE vfd[o]]
  /\ exiting' = None
  /\ UNCHANGED <<lineno, num_mapped_pids, num_mapped_fds, vfd_buffer, vsizes,
                 replay, left>>

-----------------------------------------------------------------------------
ProcessEvent(p) ==
  \/ \E f \in Fds, x \in Paths : Open(p, f, x) \/ OpenAgain(p, f, x)
  \/ \E f \in Fds, b \in BOOLEAN : Use(p, f, b) \/ Close(p, f, b)
  \/ \E x \in Paths, b \in BOOLEAN : PathOp(p, x, b)
  \/ \E x, y \in Paths : Rename(p, x, y)
  \/ Sync(p)
  \/ NoLine(p)
  \/ ExitGroup(p)

Next ==
  \/ \E p \in Pids : ProcessEvent(p)
  \/ Refused
  \/ CloseOnExit
  \/ GprocessDestroy

Spec == Init /\ [][Next]_vars

-----------------------------------------------------------------------------
(* The range of every variable.                                            *)
TypeOK ==
  /\ lineno \in 0 .. MaxLines
  /\ pid_map \in [Pids -> Nat]
  /\ num_mapped_pids \in Nat
  /\ fd_map \in [Pids -> [Fds -> Numbers \cup {0}]]
  /\ vfd_map \in [Pids -> [Numbers -> Vfds \cup {None}]]
  /\ num_mapped_fds \in FirstFds .. FirstFds + lineno
  /\ vfd \in [Vfds -> [mapped_fd : Numbers, path : Paths] \cup {None}]
  /\ vfd_buffer \in Seq(Vfds)
  /\ vsizes \in [id : [Paths -> Nat], num : Nat,
                 updated : [Paths -> BOOLEAN]]
  /\ replay \in Seq([op : Ops, vsize : Nat, pid : Nat,
                     fd : Numbers \cup {0}])
  /\ exiting \in Pids \cup {None}
  /\ left \subseteq Numbers

(* What the replayer assumes of a file holds at every moment: a virtual    *)
(* descriptor is opened once, for one path, before anything else is done   *)
(* to it, and nothing is done to it after its close, whatever events the   *)
(* capture lost (gprocess.h promises a unique number for every open).      *)
DescriptorsWellFormed ==
  /\ FdHasOnePath(replay)
  /\ OpenComesFirst(replay)
  /\ CloseComesLast(replay)

(* The descriptors a replay of the lines has open are those that the maps  *)
(* of the processes hold: nothing that was opened is forgotten without a   *)
(* close, neither by a second open of the same number nor by the end of    *)
(* the process.                                                            *)
Did(op) == {replay[i].fd : i \in {j \in DOMAIN replay : replay[j].op = op}}
Held(p) == {m \in Numbers : vfd_map[p][m] # None /\ (p = exiting => m \in left)}
NothingForgotten == Did("open") \ Did("close") = UNION {Held(p) : p \in Pids}

(* A vfd_s object is in one place: the entry of one process for the one    *)
(* descriptor whose number it bears, or once in vfd_buffer.  Otherwise the *)
(* next open would change the path and the number under another            *)
(* descriptor's feet.                                                      *)
VfdInOnePlace ==
  /\ \A p, q \in Pids, m, n \in Numbers :
       vfd_map[p][m] # None /\ vfd_map[p][m] = vfd_map[q][n]
         => p = q /\ m = n
  /\ \A p \in Pids, m \in Numbers :
       vfd_map[p][m] # None
         => /\ vfd[vfd_map[p][m]] # None
            /\ vfd[vfd_map[p][m]].mapped_fd = m
            /\ \A i \in DOMAIN vfd_buffer : vfd_buffer[i] # vfd_map[p][m]
  /\ \A i, j \in DOMAIN vfd_buffer :
       /\ vfd[vfd_buffer[i]] # None
       /\ vfd_buffer[i] = vfd_buffer[j] => i = j

(* The two maps of a process agree.  hmap_remove_l takes out whatever      *)
(* single element it finds at the key's address, so the writer may only    *)
(* remove keys that are there.                                             *)
MapsAgree ==
  \A p \in Pids :
    /\ \A f \in Fds : fd_map[p][f] # 0 => vfd_map[p][fd_map[p][f]] # None
    /\ \A m \in Numbers :
         vfd_map[p][m] # None => \E f \in Fds : fd_map[p][f] = m
    /\ \A f, g \in Fds : fd_map[p][f] = fd_map[p][g] /\ fd_map[p][f] # 0 => f = g

(* The numbers in the lines are covered by the sizes in the header, from   *)
(* which the replayer makes its maps, and no two paths have one number.    *)
HeaderCoversLines ==
  /\ \A i \in DOMAIN replay :
       /\ replay[i].vsize <= vsizes.num
       /\ replay[i].pid \in 1 .. num_mapped_pids
       /\ replay[i].fd <= num_mapped_fds
  /\ \A x, y \in Paths :
       vsizes.id[x] # 0 /\ vsizes.id[x] = vsizes.id[y] => x = y

(* The path with a number.                                                 *)
PathOf(n) == IF n = 0 THEN None ELSE CHOOSE x \in Paths : vsizes.id[x] = n

(* What the maps and the objects say a descriptor stands for.              *)
TableEntry(p, f) ==
  IF VfdByRealfd(p, f) = None \/ (p = exiting /\ fd_map[p][f] \notin left)
  THEN None
  ELSE [no |-> vfd[VfdByRealfd(p, f)].mapped_fd,
        path |-> vfd[VfdByRealfd(p, f)].path]

Abstract == INSTANCE DescriptorTable
  WITH First <- FirstFds,
       table <- [p \in Pids |-> [f \in Fds |-> TableEntry(p, f)]],
       opened <- num_mapped_fds,
       log <- [i \in DOMAIN replay |->
                 [op |-> replay[i].op, no |-> replay[i].fd,
                  path |-> PathOf(replay[i].vsize)]]

(* The writer does to descriptors what a plain table of descriptors would: *)
(* no event reaches another descriptor than its own.                       *)
ImplementsTable == Abstract!Spec
=============================================================================
