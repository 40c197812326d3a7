------------------------------ MODULE InitMode ------------------------------
(***************************************************************************)
(* ioriot -i: making what the INIT section of a .replay file lists         *)
(* (init/init.c, ithread.c, itask.c, with the helpers of utils/futils.c).  *)
(* The main thread reads the lines and gives every one, as a task, to the  *)
(* thread of its mount point; finished tasks come back through one queue.  *)
(* Before that the trees of earlier tests are moved away (mounts.c).       *)
(*                                                                         *)
(* The trees of different mount points are apart, so what a task does to   *)
(* the file system is one step.                                            *)
(***************************************************************************)
EXTENDS Integers, Sequences, FiniteSets, SequencesExt, FiniteSetsExt

CONSTANTS
  InitSections,  (* the INIT sections: sequences of lines                  *)
  FsPaths,       (* the paths in them, and the directories above           *)
  Chain,         (* Chain[x]: the directories above x, and x               *)
  Mount,         (* Mount[x]: mounts_get_mountnumber                       *)
  QueueCap,      (* what the queue of a thread holds: 1023                 *)
  ReuseCap,      (* what reuse_queue holds: 4095                           *)
  ITasks,        (* the memory for itask_s objects                         *)
  OldTrees       (* what earlier tests may have left                       *)

InitLine ==
  [kind : {"dir", "file", "link"}, path : FsPaths, offset : Nat, bytes : Nat]

ASSUME InitAssumption ==
  /\ InitSections \subseteq Seq(InitLine)
  /\ QueueCap \in Nat \ {0} /\ ReuseCap \in Nat
  /\ \A tree \in OldTrees : tree = [x \in FsPaths |-> tree[x]]

(* A chain is on one mount point, and is longer by its path than that of   *)
(* the directory of the path.                                              *)
ASSUME ChainAssumption ==
  \A x \in FsPaths :
    /\ x \in Chain[x] /\ Chain[x] \subseteq FsPaths /\ IsFiniteSet(Chain[x])
    /\ \A y \in Chain[x] : Mount[y] = Mount[x]
    /\ \/ Cardinality(Chain[x]) = 1
       \/ \E d \in FsPaths : Chain[d] = Chain[x] \ {x}

Mounts == {Mount[x] : x \in FsPaths}

VARIABLES
  section,      (* the INIT section                                        *)
  ipc,          (* where init_run is                                       *)
  next_line,    (* the line it is at                                       *)
  itask,        (* its local task                                          *)
  task_of,      (* task_of[k]: line and stats of task k, None if k is free *)
  reuse_queue,  (* init_s.reuse_queue                                      *)
  queue,        (* queue[m]: the queue of m's thread                       *)
  iterminate,   (* iterminate[m]: ithread_s.terminate                      *)
  iteam,        (* the threads not joined yet, the last one made last      *)
  icur,         (* icur[m]: the task that m's thread has taken             *)
  itpc,         (* itpc[m]: where m's thread is                            *)
  fs,           (* fs[x]: what is there, by its kind, size and data        *)
  totals,       (* the statistics that init_run prints                     *)
  lost          (* what was counted in tasks that were destroyed           *)

imain == <<section, ipc, next_line, itask, iterminate, iteam, totals>>
ithreads == <<queue, icur, itpc>>
ivars == <<imain, ithreads, task_of, reuse_queue, fs, lost>>

None == <<>>
Absent == [kind |-> "absent", size |-> 0, data |-> {}]
NoStats == [dirs |-> 0, files |-> 0, sizes |-> 0]
Plus(a, b) == [n \in DOMAIN a |-> a[n] + b[n]]

InitStart ==
  /\ section \in InitSections
  /\ ipc = "trash"
  /\ next_line = 1
  /\ itask = None
  /\ task_of = [k \in ITasks |-> None]
  /\ reuse_queue = <<>>
  /\ queue = [m \in Mounts |-> <<>>]
  /\ iterminate = [m \in Mounts |-> FALSE]
  /\ iteam = <<>>
  /\ icur = [m \in Mounts |-> None]
  /\ itpc = [m \in Mounts |-> "none"]
  /\ fs \in OldTrees
  /\ totals = NoStats
  /\ lost = NoStats

-----------------------------------------------------------------------------
(* The file system.  A result is a file system and what was counted.       *)

(* mkdir_p: what is a regular file makes way for a directory.              *)
MakeDirs(f, x) ==
  LET new == {d \in Chain[x] : f[d].kind # "dir"} IN
  [fs |-> [d \in FsPaths |-> IF d \in new THEN [Absent EXCEPT !.kind = "dir"] ELSE f[d]],
   stats |-> [NoStats EXCEPT !.dirs = Cardinality(new)]]

(* The directory of a path with its own chain.                             *)
ParentOf(x) == CHOOSE d \in FsPaths : Chain[d] = Chain[x] \ {x}
WithParent(f, x) ==
  IF Cardinality(Chain[x]) = 1 THEN [fs |-> f, stats |-> NoStats]
  ELSE MakeDirs(f, ParentOf(x))

(* append_random_to_file and write_random_to_file.  Fill_with_stuff leaves *)
(* the last byte out; "w" empties the file first.                          *)
Written(f, l) ==
  IF l.bytes = 0 THEN f
  ELSE IF l.offset = 0
       THEN [f EXCEPT !.size = @ + l.bytes - 1,
                      !.data = @ \cup f.size .. f.size + l.bytes - 2]
  ELSE [f EXCEPT !.size = IF l.bytes = 1 THEN 0 ELSE l.offset + l.bytes - 1,
                 !.data = l.offset .. l.offset + l.bytes - 2]

(* ensure_file_exists, with the "42" for a file that is new, and the data. *)
MakeFile(f, l) ==
  LET p == WithParent(f, l.path)
      new == [kind |-> "file", size |-> 2, data |-> 0 .. 1] IN
  IF f[l.path].kind = "file"
  THEN [fs |-> [f EXCEPT ![l.path] = Written(@, l)],
        stats |-> [NoStats EXCEPT !.files = 1, !.sizes = l.bytes]]
  ELSE IF p.fs[l.path].kind = "dir" THEN p
  ELSE [fs |-> [p.fs EXCEPT ![l.path] = Written(new, l)],
        stats |-> [p.stats EXCEPT !.files = 1, !.sizes = l.bytes]]

(* ensure_relative_symlink_exists of a target inside the replay root.      *)
MakeLink(f, l) ==
  LET p == WithParent(f, l.path) IN
  IF p.fs[l.path].kind = "dir" THEN p
  ELSE [fs |-> [p.fs EXCEPT ![l.path] = [Absent EXCEPT !.kind = "link"]],
        stats |-> [p.stats EXCEPT !.files = 1]]

(* ithread_run_task                                                        *)
RunTask(f, l) ==
  CASE l.kind = "dir" -> MakeDirs(f, l.path)
    [] l.kind = "link" -> MakeLink(f, l)
    [] l.kind = "file" -> MakeFile(f, l)

-----------------------------------------------------------------------------
(* What earlier tests have left                                            *)

NoTree == [x \in FsPaths |-> Absent]

(* mounts_trash: the trees are renamed.  mounts_purge is never called here,*)
(* as main does nothing but clean up when it is given -P (main.c:238).     *)
Trash ==
  /\ ipc = "trash"
  /\ fs' = NoTree
  /\ ipc' = "read"
  /\ UNCHANGED <<section, next_line, itask, iterminate, iteam, totals, ithreads,
                 task_of, reuse_queue, lost>>

-----------------------------------------------------------------------------
(* init_run                                                                *)

(* Faulty variant: the statistics of a recycled task stay in it.           *)
GetItaskUnreset ==
  \/ /\ reuse_queue # <<>>
     /\ itask' = <<Head(reuse_queue)>>
     /\ reuse_queue' = Tail(reuse_queue)
     /\ totals' = Plus(totals, task_of[Head(reuse_queue)].stats)
     /\ task_of' = [task_of EXCEPT ![Head(reuse_queue)].line = section[next_line]]
  \/ /\ reuse_queue = <<>>
     /\ \E k \in ITasks :
          /\ task_of[k] = None
          /\ itask' = <<k>>
          /\ task_of' = [task_of EXCEPT ![k] =
                           [line |-> section[next_line], stats |-> NoStats]]
     /\ UNCHANGED <<reuse_queue, totals>>

(* A task that has come back, whose statistics are added up and set to 0   *)
(* (itask_extract_stats), or a new one.                                    *)
GetItask ==
  LET fresh == [line |-> section[next_line], stats |-> NoStats] IN
  \/ /\ reuse_queue # <<>>
     /\ itask' = <<Head(reuse_queue)>>
     /\ reuse_queue' = Tail(reuse_queue)
     /\ totals' = Plus(totals, task_of[Head(reuse_queue)].stats)
     /\ task_of' = [task_of EXCEPT ![Head(reuse_queue)] = fresh]
  \/ /\ reuse_queue = <<>>
     /\ \E k \in ITasks :
          /\ task_of[k] = None
          /\ itask' = <<k>>
          /\ task_of' = [task_of EXCEPT ![k] = fresh]
     /\ UNCHANGED <<reuse_queue, totals>>

ReadInitLine ==
  /\ ipc = "read" /\ next_line <= Len(section)
  /\ GetItask
  /\ ipc' = "insert"
  /\ UNCHANGED <<section, next_line, iterminate, iteam, ithreads, fs, lost>>

(* Faulty variant: the threads take turns.                                 *)
ThreadByTurns(x) ==
  LET n == next_line % Cardinality(Mounts) IN
  CHOOSE m \in Mounts : Cardinality({o \in Mounts : o < m}) = n

(* The thread of a path: amap_get(i->threads_map, mnr).                    *)
ThreadOf(x) == Mount[x]

(* ithread_new and ithread_start, at the first path of a mount point.      *)
StartIthread ==
  LET m == ThreadOf(section[next_line].path) IN
  /\ ipc = "insert" /\ itpc[m] = "none"
  /\ itpc' = [itpc EXCEPT ![m] = "loop"]
  /\ iteam' = Append(iteam, m)
  /\ UNCHANGED <<section, ipc, next_line, itask, iterminate, totals, queue, icur,
                 task_of, reuse_queue, fs, lost>>

(* rbuffer_insert, tried again for as long as the queue is full.           *)
InsertItask ==
  LET m == ThreadOf(section[next_line].path) IN
  /\ ipc = "insert" /\ itpc[m] # "none"
  /\ Len(queue[m]) < QueueCap
  /\ queue' = [queue EXCEPT ![m] = Append(@, itask[1])]
  /\ itask' = None
  /\ next_line' = next_line + 1
  /\ ipc' = "read"
  /\ UNCHANGED <<section, iterminate, iteam, totals, icur, itpc, task_of,
                 reuse_queue, fs, lost>>

(* ithread_terminate of the thread on top of the stack.                    *)
TerminateIthread ==
  /\ \/ ipc = "read" /\ next_line > Len(section)
     \/ ipc = "joined"
  /\ iteam # <<>>
  /\ iterminate' = [iterminate EXCEPT ![Last(iteam)] = TRUE]
  /\ ipc' = "join"
  /\ UNCHANGED <<section, next_line, itask, iteam, totals, ithreads, task_of,
                 reuse_queue, fs, lost>>

JoinIthread ==
  /\ ipc = "join"
  /\ itpc[Last(iteam)] = "ended"
  /\ iteam' = Front(iteam)
  /\ ipc' = "joined"
  /\ UNCHANGED <<section, next_line, itask, iterminate, totals, ithreads, task_of,
                 reuse_queue, fs, lost>>

(* All lines are given away, and all threads are joined.                   *)
AllJoined == iteam = <<>> /\ (ipc = "joined" \/ (ipc = "read" /\ next_line > Len(section)))

(* A task in reuse_queue is counted and destroyed.                         *)
CountItask ==
  /\ AllJoined
  /\ reuse_queue # <<>>
  /\ totals' = Plus(totals, task_of[Head(reuse_queue)].stats)
  /\ task_of' = [task_of EXCEPT ![Head(reuse_queue)] = None]
  /\ reuse_queue' = Tail(reuse_queue)
  /\ UNCHANGED <<section, ipc, next_line, itask, iterminate, iteam, ithreads, fs, lost>>

(* There are no more, and init_run returns.                                *)
FinishInit ==
  /\ AllJoined
  /\ reuse_queue = <<>>
  /\ ipc' = "success"
  /\ UNCHANGED <<section, next_line, itask, iterminate, iteam, totals, ithreads,
                 task_of, reuse_queue, fs, lost>>

-----------------------------------------------------------------------------
(* ithread_pthread_start                                                   *)

TakeItask(m) ==
  /\ itpc[m] \in {"loop", "drain"} /\ icur[m] = None
  /\ queue[m] # <<>>
  /\ icur' = [icur EXCEPT ![m] = <<Head(queue[m])>>]
  /\ queue' = [queue EXCEPT ![m] = Tail(@)]
  /\ UNCHANGED <<imain, itpc, task_of, reuse_queue, fs, lost>>

(* ithread_run_task, and the task goes to reuse_queue or is destroyed.     *)
RunItask(m) ==
  LET k == icur[m][1]
      result == RunTask(fs, task_of[k].line)
      counted == Plus(task_of[k].stats, result.stats)
      full == Len(reuse_queue) = ReuseCap IN
  /\ icur[m] # None
  /\ fs' = result.fs
  /\ icur' = [icur EXCEPT ![m] = None]
  /\ task_of' = [task_of EXCEPT ![k] = IF full THEN None ELSE [@ EXCEPT !.stats = counted]]
  /\ reuse_queue' = IF full THEN reuse_queue ELSE Append(reuse_queue, k)
  /\ lost' = IF full THEN Plus(lost, counted) ELSE lost
  /\ UNCHANGED <<imain, queue, itpc>>

(* while (!t->terminate), and once more what has come in the meantime.     *)
TestIterminate(m) ==
  /\ itpc[m] = "test"
  /\ itpc' = [itpc EXCEPT ![m] = IF iterminate[m] THEN "drain" ELSE "loop"]
  /\ UNCHANGED <<imain, queue, icur, task_of, reuse_queue, fs, lost>>

QueueEmpty(m) ==
  /\ itpc[m] \in {"loop", "drain"} /\ icur[m] = None
  /\ queue[m] = <<>>
  /\ itpc' = [itpc EXCEPT ![m] = IF @ = "loop" THEN "test" ELSE "ended"]
  /\ UNCHANGED <<imain, queue, icur, task_of, reuse_queue, fs, lost>>

(* A header or a line that is wrong, a directory that cannot be made, a    *)
(* file that cannot be opened: Error or Errno ends the process.            *)
InitError ==
  /\ ipc' = "error"
  /\ UNCHANGED <<section, next_line, itask, iterminate, iteam, totals, ithreads,
                 task_of, reuse_queue, fs, lost>>

InitNext ==
  /\ ipc \notin {"success", "error"}
  /\ \/ Trash \/ ReadInitLine \/ StartIthread \/ InsertItask
     \/ TerminateIthread \/ JoinIthread \/ CountItask \/ FinishInit
     \/ InitError
     \/ \E m \in Mounts : \/ TakeItask(m) \/ RunItask(m)
                          \/ TestIterminate(m) \/ QueueEmpty(m)

-----------------------------------------------------------------------------
(* What the first i lines of a section make when one thread works them off *)
(* in their order.                                                         *)
Worked(s) ==
  LET worked[i \in 0 .. Len(s)] ==
        IF i = 0 THEN [fs |-> NoTree, stats |-> NoStats]
        ELSE LET one == RunTask(worked[i - 1].fs, s[i])
             IN  [fs |-> one.fs, stats |-> Plus(worked[i - 1].stats, one.stats)]
  IN  worked

OneAfterAnother == Worked(section)[Len(section)]

(* However the threads are scheduled, whatever queues are full, whichever  *)
(* tasks are recycled and whatever earlier tests have left, a successful   *)
(* init leaves the files that the lines make one after another, and no     *)
(* others: the ranges of one file come in their order, and nothing is left *)
(* in a queue (init.c:216-230, ithread.c:29-50).                           *)
SameAsOneThread == ipc = "success" => fs = OneAfterAnother.fs

(* vsize.h of the files in the INIT section: "It is very likely the case   *)
(* that the test requires a file of a certain size already to be present,  *)
(* so it can be read from disk." - after a successful init a file that is  *)
(* still one has the data of every line about it, whichever lines came     *)
(* after, but for the last byte, which Fill_with_stuff leaves out.         *)
RangesInitialised ==
  ipc = "success" =>
    \A l \in ToSet(section) : l.kind = "file" /\ fs[l.path].kind = "file" =>
      l.offset .. l.offset + l.bytes - 2 \subseteq fs[l.path].data

(* No statistic is lost or doubled: what init_run prints, what tasks still *)
(* carry and what was in tasks destroyed because reuse_queue was full make *)
(* up, at the end, what the lines make.                                    *)
StatsAddUp ==
  ipc = "success" => Plus(totals, lost) = OneAfterAnother.stats
                     /\ \A k \in ITasks : task_of[k] = None
=============================================================================
