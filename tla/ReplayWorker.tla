---------------------------- MODULE ReplayWorker ----------------------------
(***************************************************************************)
(* One worker process of the replayer: rworker_process_lines and the       *)
(* pthreads it feeds (replay/rworker.c, replay/rthread.c), the task        *)
(* objects that both recycle (replay/rtask.c), and what the I/O handlers   *)
(* do to the table of open virtual file descriptors (replay/rioop.c).      *)
(*                                                                         *)
(* The worker reads the .replay file and gives every line to the thread    *)
(* that is responsible for the line's path (its vsize).  A thread that ran *)
(* out of tasks offers itself in rthread_buffer for other paths.  The      *)
(* worker never takes rthread_buffer_mutex or task_buffer_mutex: it is the *)
(* one consumer of both rings, and of each thread's task ring it is the    *)
(* one producer.  That such a ring is a FIFO queue whose operations are    *)
(* atomic is what module RBuffer shows.                                    *)
(***************************************************************************)
EXTENDS ReplayFile, FiniteSets

CONSTANTS
  Files,         (* the .replay files: sequences of replay lines           *)
  Fds,           (* the virtual file descriptors, from 1 on                *)
  MaxThreads,    (* the largest num_threads_per_worker considered          *)
  TaskRing,      (* TASK_BUFFER_PER_THREAD                                 *)
  Tasks,         (* the memory for task objects                            *)
  NumWorkers,    (* options_s.num_workers                                  *)
  WorkerNum,     (* rworker_s.rworker_num                                  *)
  NumVsizes,     (* num_vsizes of the file's header                        *)
  AmapUnit,      (* the size of an amap is a multiple of this: 1024        *)
  None           (* the null pointer                                       *)

(* A line of the file: the path it is about, what it does, and the virtual *)
(* descriptor it does it to (0 where it names none).                       *)
Line == [vsize : Nat, op : Ops, fd : Fds \cup {0}]

ASSUME FilesAssumption ==
  \A f \in Files : /\ f \in Seq(Line)
                   /\ FdHasOnePath(f)
                   /\ \A i \in DOMAIN f : f[i].vsize <= NumVsizes
                                          /\ (f[i].op = "path" <=> f[i].fd = 0)
ASSUME NumbersAssumption ==
  /\ MaxThreads \in Nat \ {0} /\ TaskRing \in Nat \ {0}
  /\ NumWorkers \in Nat \ {0} /\ WorkerNum \in 0 .. NumWorkers - 1
  /\ NumVsizes \in Nat /\ AmapUnit \in Nat \ {0}
  /\ Fds \subseteq Nat \ {0}
ASSUME NoneAssumption == None \notin Tasks /\ None \notin Nat

Threads == 1 .. MaxThreads
Vsizes == 0 .. NumVsizes

VARIABLES
  file,             (* the .replay file                                    *)
  nthreads,         (* options_s.num_threads_per_worker                    *)
  wpc,              (* where rworker_process_lines is                      *)
  lineno,           (* its local lineno: the lines read so far             *)
  wt,               (* its local t: the thread of the current line         *)
  wtask,            (* its local task                                      *)
  all_threads,      (* its local stack of threads, the top last            *)
  ioops,            (* rworker_stats_s.ioops                               *)
  rthread_map,      (* rworker_s.rthread_map                               *)
  rthread_buffer,   (* rworker_s.rthread_buffer                            *)
  rthread_mutex,    (* the holder of rworker_s.rthread_buffer_mutex        *)
  task_buffer,      (* rworker_s.task_buffer                               *)
  line,             (* line[k]: the line number in task object k,          *)
                    (* 0 while k is not allocated                          *)
  tasks,            (* tasks[t]: rthread_s.tasks                           *)
  terminate,        (* terminate[t]: rthread_s.terminate                   *)
  tpc,              (* tpc[t]: where thread t is                           *)
  ret,              (* ret[t]: where rthread_process_task returns to       *)
  cur,              (* cur[t]: the task that t processes                   *)
  vfd,              (* vfd[t]: the vfd_s that t looked up                  *)
  fds_map,          (* the descriptors that have a vfd_s in fds_map        *)
  destroyed,        (* the descriptors whose vfd_s was destroyed           *)
  done              (* history: the lines whose I/O operation is done      *)

options == <<file, nthreads>>
worker == <<wpc, lineno, wt, wtask, all_threads, ioops, rthread_map>>
idle == <<rthread_buffer, rthread_mutex>>
recycling == <<task_buffer, line>>
fds == <<vfd, fds_map, destroyed>>
vars == <<options, worker, idle, recycling, tasks, terminate, tpc, ret, cur,
          fds, done>>

SingleThreaded == nthreads = 1

(* The worker is not responsible for the other workers' lines.             *)
Mine(i) == file[i].vsize % NumWorkers = WorkerNum

(* amap_new rounds the size up to the next multiple of AmapUnit, unless it *)
(* is one; amap_set ignores a position that is not below the size.         *)
AmapSize(n) == IF n % AmapUnit = 0 THEN n ELSE AmapUnit * (1 + n \div AmapUnit)
Storable(v) == v < AmapSize(NumVsizes)

(* Faulty variant: rbuffer_new with one slot less than it needs.           *)
RthreadBufferTooSmall == Len(rthread_buffer) = nthreads - 2

(* The rings hold one pointer less than their size.                        *)
RthreadBufferFull == Len(rthread_buffer) = nthreads - 1
TaskBufferFull == Len(task_buffer) = nthreads * TaskRing - 1
TaskRingFull(t) == Len(tasks[t]) = TaskRing - 1

-----------------------------------------------------------------------------
(* rworker_new, and the start of rworker_process_lines.                    *)
Init ==
  /\ file \in Files
  /\ nthreads \in Threads
  /\ wpc = "read"
  /\ lineno = 0
  /\ wt = None
  /\ wtask = None
  /\ all_threads = << >>
  /\ ioops = 0
  /\ rthread_map = [v \in Vsizes |-> None]
  /\ rthread_buffer = << >>
  /\ rthread_mutex = None
  /\ task_buffer = << >>
  /\ line = [k \in Tasks |-> 0]
  /\ tasks = [t \in Threads |-> << >>]
  /\ terminate = [t \in Threads |-> FALSE]
  /\ tpc = [t \in Threads |-> "none"]
  /\ ret = [t \in Threads |-> "none"]
  /\ cur = [t \in Threads |-> None]
  /\ vfd = [t \in Threads |-> None]
  /\ fds_map = {}
  /\ destroyed = {}
  /\ done = {}

-----------------------------------------------------------------------------
(* The worker.                                                             *)

(* getline: another worker's line is skipped.                              *)
ReadLine ==
  /\ wpc = "read"
  /\ lineno < Len(file)
  /\ lineno' = lineno + 1
  /\ wpc' = IF Mine(lineno + 1) THEN "pick" ELSE "read"
  /\ UNCHANGED <<options, wt, wtask, all_threads, ioops, rthread_map, idle,
                 recycling, tasks, terminate, tpc, ret, cur, fds, done>>

(* The INIT section or the end of the file.                                *)
EndOfLines ==
  /\ wpc = "read"
  /\ lineno = Len(file)
  /\ wpc' = "join"
  /\ UNCHANGED <<options, lineno, wt, wtask, all_threads, ioops, rthread_map,
                 idle, recycling, tasks, terminate, tpc, ret, cur, fds, done>>

Vsize == file[lineno].vsize

(* With one thread per worker the worker makes one thread object, for      *)
(* which no pthread is started, and runs every task itself.                *)
UseSingleThread ==
  /\ wpc = "pick"
  /\ SingleThreaded
  /\ wt' = 1
  /\ tpc' = [tpc EXCEPT ![1] = "inline"]
  /\ wpc' = "task"
  /\ UNCHANGED <<options, lineno, wtask, all_threads, ioops, rthread_map, idle,
                 recycling, tasks, terminate, ret, cur, fds, done>>

(* The thread that is responsible for this path already.                   *)
PickMapped ==
  /\ wpc = "pick"
  /\ ~SingleThreaded
  /\ rthread_map[Vsize] # None
  /\ wt' = rthread_map[Vsize]
  /\ wpc' = "task"
  /\ UNCHANGED <<options, lineno, wtask, all_threads, ioops, rthread_map, idle,
                 recycling, tasks, terminate, tpc, ret, cur, fds, done>>

Unmapped ==
  /\ ~SingleThreaded
  /\ rthread_map[Vsize] = None

(* Faulty variant: the thread is not entered in rthread_map.               *)
MapNothing(t) == UNCHANGED rthread_map

(* amap_set(w->rthread_map, vsize_id, t)                                   *)
MapVsize(t) ==
  rthread_map' = IF Storable(Vsize) THEN [rthread_map EXCEPT ![Vsize] = t]
                                    ELSE rthread_map

(* A thread that offered itself takes the path over, at the first try or   *)
(* after the worker waited for it.                                         *)
RecycleThread ==
  /\ wpc = "waitpop" \/ (wpc = "pick" /\ Unmapped)
  /\ rthread_buffer # << >>
  /\ wt' = Head(rthread_buffer)
  /\ rthread_buffer' = Tail(rthread_buffer)
  /\ MapVsize(Head(rthread_buffer))
  /\ wpc' = "task"
  /\ UNCHANGED <<options, lineno, wtask, all_threads, ioops, rthread_mutex,
                 recycling, tasks, terminate, tpc, ret, cur, fds, done>>

(* No thread offered itself and there are as many as may be: wait.         *)
AwaitThread ==
  /\ wpc = "pick"
  /\ Unmapped
  /\ rthread_buffer = << >>
  /\ nthreads <= Len(all_threads)
  /\ wpc' = "waitpop"
  /\ UNCHANGED <<options, lineno, wt, wtask, all_threads, ioops, rthread_map,
                 idle, recycling, tasks, terminate, tpc, ret, cur, fds, done>>

(* Faulty variant: one thread more than there may be.                      *)
CreateThreadTooMany ==
  /\ wpc = "pick"
  /\ Unmapped
  /\ rthread_buffer = << >>
  /\ LET t == Len(all_threads) + 1
     IN  /\ tpc' = [tpc EXCEPT ![t] = "wait"]
         /\ all_threads' = Append(all_threads, t)
         /\ wt' = t
         /\ MapVsize(t)
  /\ wpc' = "task"
  /\ UNCHANGED <<options, lineno, wtask, ioops, idle, recycling, tasks,
                 terminate, ret, cur, fds, done>>

(* rthread_new starts a pthread for the path.                              *)
CreateThread ==
  /\ wpc = "pick"
  /\ Unmapped
  /\ rthread_buffer = << >>
  /\ nthreads > Len(all_threads)
  /\ LET t == Len(all_threads) + 1
     IN  /\ tpc' = [tpc EXCEPT ![t] = "wait"]
         /\ all_threads' = Append(all_threads, t)
         /\ wt' = t
         /\ MapVsize(t)
  /\ wpc' = "task"
  /\ UNCHANGED <<options, lineno, wtask, ioops, idle, recycling, tasks,
                 terminate, ret, cur, fds, done>>

(* A recycled task object, or else a new one, is filled with the line.     *)
GetTask ==
  /\ wpc = "task"
  /\ \/ /\ task_buffer # << >>
        /\ wtask' = Head(task_buffer)
        /\ task_buffer' = Tail(task_buffer)
     \/ /\ task_buffer = << >>
        /\ \E k \in Tasks : line[k] = 0 /\ wtask' = k
        /\ UNCHANGED task_buffer
  /\ line' = [line EXCEPT ![wtask'] = lineno]
  /\ ioops' = ioops + 1
  /\ wpc' = "insert"
  /\ UNCHANGED <<options, lineno, wt, all_threads, rthread_map, idle, tasks,
                 terminate, tpc, ret, cur, fds, done>>

(* Faulty variant: a task that does not fit into the ring is dropped.      *)
InsertOrDrop ==
  /\ wpc = "insert"
  /\ ~SingleThreaded
  /\ tasks' = IF TaskRingFull(wt) THEN tasks
              ELSE [tasks EXCEPT ![wt] = Append(@, wtask)]
  /\ wtask' = None
  /\ wpc' = "read"
  /\ UNCHANGED <<options, lineno, wt, all_threads, ioops, rthread_map, idle,
                 recycling, terminate, tpc, ret, cur, fds, done>>

(* rthread_insert_task, tried again for as long as the thread's ring is    *)
(* full.                                                                   *)
InsertTask ==
  /\ wpc = "insert"
  /\ ~SingleThreaded
  /\ ~TaskRingFull(wt)
  /\ tasks' = [tasks EXCEPT ![wt] = Append(@, wtask)]
  /\ wtask' = None
  /\ wpc' = "read"
  /\ UNCHANGED <<options, lineno, wt, all_threads, ioops, rthread_map, idle,
                 recycling, terminate, tpc, ret, cur, fds, done>>

(* In a single-threaded worker rthread_insert_task processes the task.     *)
RunInline ==
  /\ wpc = "insert"
  /\ SingleThreaded
  /\ cur' = [cur EXCEPT ![wt] = wtask]
  /\ ret' = [ret EXCEPT ![wt] = "inline"]
  /\ tpc' = [tpc EXCEPT ![wt] = "run"]
  /\ wtask' = None
  /\ wpc' = "inline"
  /\ UNCHANGED <<options, lineno, wt, all_threads, ioops, rthread_map, idle,
                 recycling, tasks, terminate, fds, done>>

InlineDone ==
  /\ wpc = "inline"
  /\ tpc[wt] = "inline"
  /\ wpc' = "read"
  /\ UNCHANGED <<options, lineno, wt, wtask, all_threads, ioops, rthread_map,
                 idle, recycling, tasks, terminate, tpc, ret, cur, fds, done>>

(* rthread_terminate of the thread on top of the stack ...                 *)
TerminateThread ==
  /\ wpc = "join"
  /\ all_threads # << >>
  /\ wt' = all_threads[Len(all_threads)]
  /\ all_threads' = SubSeq(all_threads, 1, Len(all_threads) - 1)
  /\ terminate' = [terminate EXCEPT ![wt'] = TRUE]
  /\ wpc' = "joining"
  /\ UNCHANGED <<options, lineno, wtask, ioops, rthread_map, idle, recycling,
                 tasks, tpc, ret, cur, fds, done>>

(* ... which returns when pthread_join does, and rthread_destroy.          *)
JoinThread ==
  /\ wpc = "joining"
  /\ tpc[wt] = "exit"
  /\ tpc' = [tpc EXCEPT ![wt] = "freed"]
  /\ wpc' = "join"
  /\ UNCHANGED <<options, lineno, wt, wtask, all_threads, ioops, rthread_map,
                 idle, recycling, tasks, terminate, ret, cur, fds, done>>

(* All threads are joined and the worker returns SUCCESS.                  *)
Finish ==
  /\ wpc = "join"
  /\ all_threads = << >>
  /\ wpc' = "done"
  /\ UNCHANGED <<options, lineno, wt, wtask, all_threads, ioops, rthread_map,
                 idle, recycling, tasks, terminate, tpc, ret, cur, fds, done>>

-----------------------------------------------------------------------------
(* The threads: rthread_pthread_start.                                     *)

Goto(t, to) == tpc' = [tpc EXCEPT ![t] = to]

(* The wait for a task or for the end.                                     *)
LeaveWait(t) ==
  /\ tpc[t] = "wait"
  /\ tasks[t] # << >> \/ terminate[t]
  /\ Goto(t, "drain")
  /\ UNCHANGED <<options, worker, idle, recycling, tasks, terminate, ret, cur,
                 fds, done>>

(* A task is taken from the ring and processed.  The ring is emptied in    *)
(* the loop and once more before the thread ends.                          *)
TakeTask(t) ==
  /\ tpc[t] \in {"drain", "last"}
  /\ tasks[t] # << >>
  /\ cur' = [cur EXCEPT ![t] = Head(tasks[t])]
  /\ tasks' = [tasks EXCEPT ![t] = Tail(@)]
  /\ ret' = [ret EXCEPT ![t] = tpc[t]]
  /\ Goto(t, "run")
  /\ UNCHANGED <<options, worker, idle, recycling, terminate, fds, done>>

Drained(t) ==
  /\ tpc[t] = "drain"
  /\ tasks[t] = << >>
  /\ Goto(t, "idle")
  /\ UNCHANGED <<options, worker, idle, recycling, tasks, terminate, ret, cur,
                 fds, done>>

(* The head of the idle loop: a thread that has a task again, or that      *)
(* shall terminate, leaves it.                                             *)
Idle(t) ==
  /\ tpc[t] = "idle"
  /\ Goto(t, IF terminate[t] \/ tasks[t] # << >> THEN "check" ELSE "recheck")
  /\ UNCHANGED <<options, worker, idle, recycling, tasks, terminate, ret, cur,
                 fds, done>>

(* The second look, a millisecond later.                                   *)
Recheck(t) ==
  /\ tpc[t] = "recheck"
  /\ Goto(t, IF tasks[t] # << >> THEN "check" ELSE "lock")
  /\ UNCHANGED <<options, worker, idle, recycling, tasks, terminate, ret, cur,
                 fds, done>>

LockRthreadBuffer(t) ==
  /\ tpc[t] = "lock"
  /\ rthread_mutex = None
  /\ rthread_mutex' = t
  /\ Goto(t, "locked")
  /\ UNCHANGED <<options, worker, rthread_buffer, recycling, tasks, terminate,
                 ret, cur, fds, done>>

(* The third look, under the mutex.                                        *)
LookLocked(t) ==
  /\ tpc[t] = "locked"
  /\ \/ /\ tasks[t] # << >>
        /\ rthread_mutex' = None
        /\ Goto(t, "check")
     \/ /\ tasks[t] = << >>
        /\ Goto(t, "offer")
        /\ UNCHANGED rthread_mutex
  /\ UNCHANGED <<options, worker, rthread_buffer, recycling, tasks, terminate,
                 ret, cur, fds, done>>

(* Faulty variant: the thread does not notice that the ring was full.      *)
OfferOnce(t) ==
  /\ tpc[t] = "offer"
  /\ rthread_mutex' = None
  /\ rthread_buffer' = IF RthreadBufferFull THEN rthread_buffer
                       ELSE Append(rthread_buffer, t)
  /\ Goto(t, "check")
  /\ UNCHANGED <<options, worker, recycling, tasks, terminate, ret, cur, fds,
                 done>>

(* The thread offers itself in rthread_buffer; if the ring is full it goes *)
(* round the idle loop again.                                              *)
Offer(t) ==
  /\ tpc[t] = "offer"
  /\ rthread_mutex' = None
  /\ \/ /\ ~RthreadBufferFull
        /\ rthread_buffer' = Append(rthread_buffer, t)
        /\ Goto(t, "check")
     \/ /\ RthreadBufferFull
        /\ Goto(t, "idle")
        /\ UNCHANGED rthread_buffer
  /\ UNCHANGED <<options, worker, recycling, tasks, terminate, ret, cur, fds,
                 done>>

(* do { ... } while (!t->terminate)                                        *)
CheckTerminate(t) ==
  /\ tpc[t] = "check"
  /\ Goto(t, IF terminate[t] THEN "last" ELSE "wait")
  /\ UNCHANGED <<options, worker, idle, recycling, tasks, terminate, ret, cur,
                 fds, done>>

(* Faulty variant: the thread ends without emptying its ring.              *)
ExitAtOnce(t) ==
  /\ tpc[t] = "last"
  /\ Goto(t, "exit")
  /\ UNCHANGED <<options, worker, idle, recycling, tasks, terminate, ret, cur,
                 fds, done>>

Exit(t) ==
  /\ tpc[t] = "last"
  /\ tasks[t] = << >>
  /\ Goto(t, "exit")
  /\ UNCHANGED <<options, worker, idle, recycling, tasks, terminate, ret, cur,
                 fds, done>>

-----------------------------------------------------------------------------
(* rthread_process_task: the I/O handlers of rioop.c, by what they do to   *)
(* the table of virtual file descriptors.                                  *)

Op(t) == file[line[cur[t]]].op
Fd(t) == file[line[cur[t]]].fd

(* The handler returns.                                                    *)
HandlerDone(t) ==
  /\ Goto(t, "recycle")
  /\ done' = done \cup {line[cur[t]]}

(* An operation on a path touches no descriptor.                           *)
PathOp(t) ==
  /\ tpc[t] = "run"
  /\ Op(t) = "path"
  /\ HandlerDone(t)
  /\ UNCHANGED <<options, worker, idle, recycling, tasks, terminate, ret, cur,
                 fds>>

(* rioop_open enters a vfd_s in fds_map, unless the system call fails or   *)
(* amap_set has no room for the descriptor.                                *)
Open(t) ==
  /\ tpc[t] = "run"
  /\ Op(t) = "open"
  /\ fds_map' \in {fds_map, fds_map \cup {Fd(t)}}
  /\ HandlerDone(t)
  /\ UNCHANGED <<options, worker, idle, recycling, tasks, terminate, ret, cur,
                 vfd, destroyed>>

(* Every other operation on a descriptor looks the vfd_s up, without       *)
(* fds_map_mutex, and returns if there is none ...                         *)
LookupFd(t) ==
  /\ tpc[t] = "run"
  /\ Op(t) = "use"
  /\ \/ /\ Fd(t) \in fds_map
        /\ vfd' = [vfd EXCEPT ![t] = Fd(t)]
        /\ Goto(t, "use")
        /\ UNCHANGED done
     \/ /\ Fd(t) \notin fds_map
        /\ HandlerDone(t)
        /\ UNCHANGED vfd
  /\ UNCHANGED <<options, worker, idle, recycling, tasks, terminate, ret, cur,
                 fds_map, destroyed>>

(* ... and then reads the descriptor and the directory stream in it.       *)
UseFd(t) ==
  /\ tpc[t] = "use"
  /\ vfd' = [vfd EXCEPT ![t] = None]
  /\ HandlerDone(t)
  /\ UNCHANGED <<options, worker, idle, recycling, tasks, terminate, ret, cur,
                 fds_map, destroyed>>

(* rioop_close takes the vfd_s out of fds_map under fds_map_mutex ...      *)
UnsetFd(t) ==
  /\ tpc[t] = "run"
  /\ Op(t) = "close"
  /\ \/ /\ Fd(t) \in fds_map
        /\ fds_map' = fds_map \ {Fd(t)}
        /\ vfd' = [vfd EXCEPT ![t] = Fd(t)]
        /\ Goto(t, "close")
        /\ UNCHANGED done
     \/ /\ Fd(t) \notin fds_map
        /\ HandlerDone(t)
        /\ UNCHANGED <<fds_map, vfd>>
  /\ UNCHANGED <<options, worker, idle, recycling, tasks, terminate, ret, cur,
                 destroyed>>

(* ... and closes and destroys it after it released the mutex.             *)
DestroyFd(t) ==
  /\ tpc[t] = "close"
  /\ destroyed' = destroyed \cup {vfd[t]}
  /\ vfd' = [vfd EXCEPT ![t] = None]
  /\ HandlerDone(t)
  /\ UNCHANGED <<options, worker, idle, recycling, tasks, terminate, ret, cur,
                 fds_map>>

(* Faulty variant: the task object is freed although it was recycled.      *)
RecycleAndFree(t) ==
  /\ tpc[t] = "recycle"
  /\ task_buffer' = IF TaskBufferFull THEN task_buffer
                    ELSE Append(task_buffer, cur[t])
  /\ line' = [line EXCEPT ![cur[t]] = 0]
  /\ cur' = [cur EXCEPT ![t] = None]
  /\ Goto(t, ret[t])
  /\ UNCHANGED <<options, worker, idle, tasks, terminate, ret, fds, done>>

(* Under task_buffer_mutex: the task object is put into task_buffer, or    *)
(* freed when that is full.                                                *)
RecycleTask(t) ==
  /\ tpc[t] = "recycle"
  /\ \/ /\ ~TaskBufferFull
        /\ task_buffer' = Append(task_buffer, cur[t])
        /\ UNCHANGED line
     \/ /\ TaskBufferFull
        /\ line' = [line EXCEPT ![cur[t]] = 0]
        /\ UNCHANGED task_buffer
  /\ cur' = [cur EXCEPT ![t] = None]
  /\ Goto(t, ret[t])
  /\ UNCHANGED <<options, worker, idle, tasks, terminate, ret, fds, done>>

-----------------------------------------------------------------------------
PickThread == \/ UseSingleThread \/ PickMapped \/ RecycleThread
              \/ AwaitThread \/ CreateThread

WorkerStep ==
  \/ ReadLine \/ EndOfLines \/ PickThread
  \/ GetTask \/ InsertTask \/ RunInline \/ InlineDone
  \/ TerminateThread \/ JoinThread \/ Finish

ProcessTask(t) == \/ PathOp(t) \/ Open(t) \/ LookupFd(t) \/ UseFd(t)
                  \/ UnsetFd(t) \/ DestroyFd(t) \/ RecycleTask(t)

IdleLoop(t) == \/ Idle(t) \/ Recheck(t) \/ LockRthreadBuffer(t)
               \/ LookLocked(t) \/ Offer(t)

ThreadStep(t) ==
  \/ LeaveWait(t) \/ TakeTask(t) \/ Drained(t) \/ IdleLoop(t)
  \/ CheckTerminate(t) \/ Exit(t) \/ ProcessTask(t)

(* The worker has returned and its threads are gone.                       *)
Terminated == wpc = "done" /\ UNCHANGED vars

Next == WorkerStep \/ (\E t \in Threads : ThreadStep(t)) \/ Terminated

Spec == Init /\ [][Next]_vars

(* The kernel runs the worker and every thread.  The lock needs strong     *)
(* fairness: between two tries each holder sleeps for a millisecond with   *)
(* the mutex free, so that a waiter gets it sooner or later.               *)
Fairness ==
  /\ WF_vars(WorkerStep)
  /\ \A t \in Threads : WF_vars(ThreadStep(t)) /\ SF_vars(LockRthreadBuffer(t))

FairSpec == Spec /\ Fairness

-----------------------------------------------------------------------------
Running == {"run", "use", "close"}
ThreadPCs == Running \cup {"none", "inline", "wait", "drain", "recycle", "idle",
                           "recheck", "lock", "locked", "offer", "check", "last",
                           "exit", "freed"}
WorkerPCs == {"read", "pick", "waitpop", "task", "insert", "inline", "join",
              "joining", "done"}

(* The range of every variable.                                            *)
TypeOK ==
  /\ file \in Files
  /\ nthreads \in Threads
  /\ wpc \in WorkerPCs
  /\ lineno \in 0 .. Len(file)
  /\ wt \in Threads \cup {None}
  /\ wtask \in Tasks \cup {None}
  /\ all_threads \in Seq(1 .. nthreads)
  /\ ioops \in Nat
  /\ rthread_map \in [Vsizes -> Threads \cup {None}]
  /\ rthread_buffer \in Seq(Threads)
  /\ rthread_mutex \in Threads \cup {None}
  /\ task_buffer \in Seq(Tasks)
  /\ line \in [Tasks -> 0 .. Len(file)]
  /\ tasks \in [Threads -> Seq(Tasks)]
  /\ terminate \in [Threads -> BOOLEAN]
  /\ tpc \in [Threads -> ThreadPCs]
  /\ ret \in [Threads -> {"none", "inline", "drain", "last"}]
  /\ cur \in [Threads -> Tasks \cup {None}]
  /\ vfd \in [Threads -> Fds \cup {None}]
  /\ fds_map \subseteq Fds
  /\ destroyed \subseteq Fds
  /\ done \subseteq 1 .. Len(file)

(* The operations on one path are replayed one at a time, each once, and   *)
(* in the order of the file, however often threads are recycled and        *)
(* whichever threads run meanwhile.                                        *)
VsizeOrder ==
  \A t \in Threads : tpc[t] \in Running =>
    LET i == line[cur[t]]
    IN  /\ i > 0 /\ i \notin done
        /\ \A j \in 1 .. i - 1 : file[j].vsize = file[i].vsize => j \in done

(* No handler reads a vfd_s that another one has destroyed: the per-FD     *)
(* ownership on which rioop_close relies (rioop.c:358).                    *)
NoUseAfterDestroy ==
  \A t \in Threads : tpc[t] \in {"use", "close"} => vfd[t] \notin destroyed

Positions(s, k) == {i \in DOMAIN s : s[i] = k}

(* The places from which task object k can be reached.                     *)
Places(k) ==
  {<<"worker", 0, 0>> : x \in {wtask} \cap {k}}
  \cup {<<"thread", t, 0>> : t \in {u \in Threads : cur[u] = k}}
  \cup {<<"buffer", 0, i>> : i \in Positions(task_buffer, k)}
  \cup UNION {{<<"ring", t, i>> : i \in Positions(tasks[t], k)} : t \in Threads}

(* A task object is in exactly one place while it is allocated and in none *)
(* once it is freed: it is never filled with a new line while a thread     *)
(* works on it, never freed twice and never lost.                          *)
TaskInOnePlace ==
  \A k \in Tasks : Cardinality(Places(k)) = IF line[k] = 0 THEN 0 ELSE 1

(* rthread_destroy does not find any task left (its Error at rthread.c:194 *)
(* never strikes), and the worker gives no task to a thread that has ended.*)
NoTaskLeft ==
  \A t \in Threads : tpc[t] \in {"exit", "freed"} => tasks[t] = << >>

(* When the worker reports SUCCESS, every line it is responsible for was   *)
(* replayed, and the statistics say so.                                    *)
AllLinesReplayed ==
  wpc = "done" =>
    LET mine == {i \in DOMAIN file : Mine(i)}
    IN  done = mine /\ ioops = Cardinality(mine)

(* A thread that sleeps without a task is known to the worker: it is in    *)
(* rthread_buffer, or the worker is about to give it a task.  Otherwise    *)
(* the thread would be lost, and a worker whose threads are all lost would *)
(* wait at rworker.c:252 for ever.                                         *)
NoThreadLost ==
  \A t \in Threads :
    tpc[t] = "wait" /\ tasks[t] = << >> /\ ~terminate[t]
      => \/ \E i \in DOMAIN rthread_buffer : rthread_buffer[i] = t
         \/ wt = t /\ wpc \in {"task", "insert"}

(* The worker comes to its end: it never waits for ever for a free thread, *)
(* for room in a ring or for a thread to end.                              *)
WorkerFinishes == <>(wpc = "done")
=============================================================================
