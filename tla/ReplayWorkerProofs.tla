------------------------- MODULE ReplayWorkerProofs -------------------------
(***************************************************************************)
(* What one worker of the replayer guarantees for every .replay file and   *)
(* every number of threads, ring sizes and task objects.                   *)
(***************************************************************************)
EXTENDS ReplayWorker, SequenceTheorems, FiniteSetTheorems, TLAPS

Busy == Running \cup {"recycle"}

(* What the program counters say about the local variables.                *)
ControlInv ==
  /\ wpc = "insert" <=> wtask # None
  /\ wpc \in {"pick", "waitpop", "task", "insert"} => lineno > 0
  /\ wpc \in {"task", "insert", "inline", "joining"} => wt \in Threads
  /\ \A t \in Threads : tpc[t] \in Busy <=> cur[t] # None
  /\ \A t \in Threads : tpc[t] \in {"use", "close"} <=> vfd[t] # None
  /\ \A t \in Threads : tpc[t] \in Busy => ret[t] # "none"

(* A thread that was not started does nothing, except that the only thread *)
(* of a single-threaded worker processes a task while the worker waits.    *)
StartInv ==
  /\ SingleThreaded => all_threads = << >>
  /\ wpc \notin {"join", "joining", "done"} =>
       \A t \in Threads : t > Len(all_threads) =>
         tpc[t] \in {"none", "inline"} \/ (wpc = "inline" /\ t = wt)

(* No task object is held twice: by the worker, by a thread, in a thread's *)
(* ring or in task_buffer.                                                 *)
HeldOnce ==
  /\ \A t, u \in Threads : cur[t] = cur[u] /\ cur[t] # None => t = u
  /\ \A t \in Threads : cur[t] = wtask => wtask = None
  /\ \A t, u \in Threads : \A i \in DOMAIN tasks[t], j \in DOMAIN tasks[u] :
       tasks[t][i] = tasks[u][j] => t = u /\ i = j
  /\ \A t, u \in Threads : \A i \in DOMAIN tasks[u] : tasks[u][i] # cur[t]
  /\ \A u \in Threads : \A i \in DOMAIN tasks[u] : tasks[u][i] # wtask
  /\ \A i, j \in DOMAIN task_buffer : task_buffer[i] = task_buffer[j] => i = j
  /\ \A i \in DOMAIN task_buffer :
       /\ task_buffer[i] # wtask
       /\ \A t \in Threads : task_buffer[i] # cur[t]
       /\ \A t \in Threads : \A j \in DOMAIN tasks[t] : task_buffer[i] # tasks[t][j]

(* What is held is allocated.                                              *)
Allocated ==
  /\ wtask # None => line[wtask] # 0
  /\ \A t \in Threads : cur[t] # None => line[cur[t]] # 0
  /\ \A t \in Threads : \A i \in DOMAIN tasks[t] : line[tasks[t][i]] # 0
  /\ \A i \in DOMAIN task_buffer : line[task_buffer[i]] # 0

TypeInv == TypeOK /\ ControlInv /\ StartInv /\ HeldOnce /\ Allocated

-----------------------------------------------------------------------------
(* The part of ControlInv about the threads; a thread that goes from one   *)
(* place where it has no task to another keeps it.                         *)
ThreadsControl ==
  /\ \A t \in Threads : tpc[t] \in Busy <=> cur[t] # None
  /\ \A t \in Threads : tpc[t] \in {"use", "close"} <=> vfd[t] # None
  /\ \A t \in Threads : tpc[t] \in Busy => ret[t] # "none"

IdleMove(t, to) ==
  /\ tpc' = [tpc EXCEPT ![t] = to]
  /\ tpc[t] \in {"none", "inline", "locked", "offer"}
  /\ to \in {"wait", "check", "offer", "idle"}
  /\ UNCHANGED <<cur, vfd, ret>>

LEMMA IdleMoveControl ==
  ASSUME TypeOK, ControlInv, NEW t \in Threads, NEW to, IdleMove(t, to)
  PROVE  ThreadsControl'
<1>1. \A u \in Threads : tpc'[u] = IF u = t THEN to ELSE tpc[u]
  BY DEF IdleMove, TypeOK
<1>2. /\ tpc[t] \notin Busy /\ tpc[t] \notin {"use", "close"}
      /\ to \notin Busy /\ to \notin {"use", "close"}
      /\ UNCHANGED <<cur, vfd, ret>>
  BY DEF IdleMove, Busy, Running
<1> QED
  BY <1>1, <1>2 DEF ControlInv, ThreadsControl

(* The worker has read a line and has not handed it over yet.              *)
Dispatching == wpc \in {"pick", "waitpop", "task", "insert"}

(* The last line that was handed over, or skipped.                         *)
Limit == IF Dispatching THEN lineno - 1 ELSE lineno

(* The thread that is responsible for a path.                              *)
Owner(v) == IF SingleThreaded THEN 1 ELSE rthread_map[v]

(* Only the thread that is responsible for a line's path gets the line.    *)
OwnerInv ==
  /\ \A t \in Threads : cur[t] # None => Owner(file[line[cur[t]]].vsize) = t
  /\ \A t \in Threads : \A i \in DOMAIN tasks[t] :
       Owner(file[line[tasks[t][i]]].vsize) = t
  /\ wpc \in {"task", "insert"} => Owner(Vsize) = wt
  /\ wpc = "waitpop" => Unmapped
  /\ SingleThreaded => \A t \in Threads : tasks[t] = << >>

(* A thread has its lines in the order of the file.                        *)
RankInv ==
  /\ done \subseteq 1 .. Limit
  /\ wpc = "insert" => line[wtask] = lineno
  /\ \A t \in Threads : cur[t] # None =>
       /\ line[cur[t]] <= Limit
       /\ \A i \in DOMAIN tasks[t] : line[cur[t]] < line[tasks[t][i]]
  /\ \A t \in Threads : \A i \in DOMAIN tasks[t] :
       /\ line[tasks[t][i]] <= Limit
       /\ \A j \in DOMAIN tasks[t] : i < j => line[tasks[t][i]] < line[tasks[t][j]]

(* All lines handed over are this worker's.                                *)
MineInv ==
  /\ Dispatching => Mine(lineno)
  /\ \A t \in Threads : cur[t] # None => Mine(line[cur[t]])
  /\ \A t \in Threads : \A i \in DOMAIN tasks[t] : Mine(line[tasks[t][i]])

(* Line j is in the hands of thread t and not replayed yet.                *)
Waiting(t, j) ==
  \/ tpc[t] \in Running /\ line[cur[t]] = j
  \/ \E i \in DOMAIN tasks[t] : line[tasks[t][i]] = j

(* A line that was handed over is either replayed or in somebody's hands.  *)
PendingInv ==
  /\ \A t \in Threads : \A j \in done : ~Waiting(t, j)
  /\ \A j \in 1 .. Limit : Mine(j) => j \in done \/ \E t \in Threads : Waiting(t, j)

OrderInv == OwnerInv /\ RankInv /\ MineInv /\ PendingInv

(* rthread_map has room for every path of the file.                        *)
AllStorable == \A f \in Files : \A i \in DOMAIN f : Storable(f[i].vsize)

-----------------------------------------------------------------------------
(* A queue that an element is taken from or added to.                      *)
LEMMA TailElements ==
  ASSUME NEW S, NEW s \in Seq(S), s # << >>
  PROVE  /\ Head(s) \in S /\ Head(s) = s[1] /\ 1 \in DOMAIN s
         /\ Tail(s) \in Seq(S)
         /\ DOMAIN Tail(s) = 1 .. Len(s) - 1
         /\ DOMAIN s = 1 .. Len(s)
         /\ Len(s) \in Nat
         /\ \A i \in DOMAIN Tail(s) : i + 1 \in DOMAIN s /\ Tail(s)[i] = s[i + 1]
  BY HeadTailProperties

LEMMA AppendElements ==
  ASSUME NEW S, NEW s \in Seq(S), NEW e \in S
  PROVE  /\ Append(s, e) \in Seq(S)
         /\ DOMAIN Append(s, e) = 1 .. Len(s) + 1
         /\ DOMAIN s = 1 .. Len(s)
         /\ Len(s) \in Nat
         /\ \A i \in DOMAIN s : Append(s, e)[i] = s[i]
         /\ Append(s, e)[Len(s) + 1] = e
  BY AppendProperties

THEOREM InitTypeInv == Init => TypeInv
<1> SUFFICES ASSUME Init PROVE TypeInv
  OBVIOUS
<1> USE NumbersAssumption, NoneAssumption, FilesAssumption DEF Init
<1>1. TypeOK
  BY DEF TypeOK, Threads, Vsizes, Busy, Running, WorkerPCs, ThreadPCs
<1>2. ControlInv
  BY DEF ControlInv, Threads, Vsizes, Busy, Running, WorkerPCs, ThreadPCs
<1>3. StartInv
  BY DEF StartInv, Threads, Vsizes, Busy, Running, WorkerPCs, ThreadPCs
<1>4. HeldOnce
  BY DEF HeldOnce, Threads, Vsizes, Busy, Running, WorkerPCs, ThreadPCs
<1>5. Allocated
  BY DEF Allocated, Threads, Vsizes, Busy, Running, WorkerPCs, ThreadPCs
<1> QED
  BY <1>1, <1>2, <1>3, <1>4, <1>5 DEF TypeInv

(* The lines of the file.                                                  *)
LEMMA FileFacts ==
  ASSUME TypeInv
  PROVE  /\ file \in Seq(Line) /\ Len(file) \in Nat /\ DOMAIN file = 1 .. Len(file)
         /\ \A i \in 1 .. Len(file) :
              /\ file[i].vsize \in Vsizes
              /\ file[i].fd \in Fds \cup {0}
              /\ file[i].op = "path" <=> file[i].fd = 0
<1>1. file \in Files
  BY DEF TypeInv, TypeOK
<1>2. file \in Seq(Line) /\ Len(file) \in Nat /\ DOMAIN file = 1 .. Len(file)
  BY <1>1, FilesAssumption
<1>3. ASSUME NEW i \in 1 .. Len(file)
      PROVE  /\ file[i].vsize \in Vsizes
             /\ file[i].fd \in Fds \cup {0}
             /\ file[i].op = "path" <=> file[i].fd = 0
  <2>1. file[i] \in Line
    BY <1>2
  <2>2. file[i].vsize <= NumVsizes /\ (file[i].op = "path" <=> file[i].fd = 0)
    BY <1>1, <1>2, FilesAssumption
  <2> QED
    BY <2>1, <2>2, NumbersAssumption DEF Line, Vsizes
<1> QED
  BY <1>2, <1>3

(* The task objects that somebody holds, and their lines.                  *)
LEMMA HeldFacts ==
  ASSUME TypeInv
  PROVE  /\ \A u \in Threads : cur[u] # None =>
              cur[u] \in Tasks /\ line[cur[u]] \in 1 .. Len(file)
         /\ \A u \in Threads : \A i \in DOMAIN tasks[u] :
              tasks[u][i] \in Tasks /\ line[tasks[u][i]] \in 1 .. Len(file)
         /\ \A i \in DOMAIN task_buffer : task_buffer[i] \in Tasks
  BY SMTT(30), FileFacts DEF TypeInv, TypeOK, Allocated

(* The task object that the worker fills was in nobody's hands.            *)
LEMMA GetTaskEffect ==
  ASSUME TypeInv, GetTask
  PROVE  /\ wtask' \in Tasks
         /\ line' = [line EXCEPT ![wtask'] = lineno]
         /\ lineno \in 1 .. Len(file)
         /\ task_buffer' \in Seq(Tasks)
         /\ \A i \in DOMAIN task_buffer' :
              /\ task_buffer'[i] # wtask'
              /\ \E j \in DOMAIN task_buffer : task_buffer'[i] = task_buffer[j]
         /\ \A i, j \in DOMAIN task_buffer' : task_buffer'[i] = task_buffer'[j] => i = j
         /\ \A t \in Threads : cur[t] # wtask'
         /\ \A t \in Threads : \A i \in DOMAIN tasks[t] : tasks[t][i] # wtask'
<1>0. TypeOK /\ ControlInv /\ HeldOnce /\ Allocated
  BY DEF TypeInv
<1> USE <1>0, NoneAssumption DEF GetTask
<1>a. /\ wtask' \in Tasks
      /\ line' = [line EXCEPT ![wtask'] = lineno]
      /\ lineno \in 1 .. Len(file)
  <2>1. CASE task_buffer # << >>
    BY <2>1, TailElements DEF TypeOK, ControlInv
  <2>2. CASE task_buffer = << >>
    BY <2>2 DEF TypeOK, ControlInv
  <2> QED
    BY <2>1, <2>2
<1>b. /\ task_buffer' \in Seq(Tasks)
      /\ \A i \in DOMAIN task_buffer' :
           /\ task_buffer'[i] # wtask'
           /\ \E j \in DOMAIN task_buffer : task_buffer'[i] = task_buffer[j]
      /\ \A i, j \in DOMAIN task_buffer' : task_buffer'[i] = task_buffer'[j] => i = j
  <2>1. CASE task_buffer # << >>
    <3>1. /\ wtask' = Head(task_buffer)
          /\ task_buffer' = Tail(task_buffer)
      BY <2>1
    <3>2. /\ DOMAIN task_buffer = 1 .. Len(task_buffer)
          /\ Len(task_buffer) \in Nat
          /\ wtask' = task_buffer[1] /\ 1 \in DOMAIN task_buffer
          /\ task_buffer' \in Seq(Tasks)
          /\ DOMAIN task_buffer' = 1 .. Len(task_buffer) - 1
          /\ \A i \in DOMAIN task_buffer' :
               i + 1 \in DOMAIN task_buffer /\ task_buffer'[i] = task_buffer[i + 1]
      BY <2>1, <3>1, TailElements DEF TypeOK
    <3> QED
      BY SMTT(30), <3>2 DEF HeldOnce
  <2>2. CASE task_buffer = << >>
    BY <2>2 DEF TypeOK
  <2> QED
    BY <2>1, <2>2
<1>c. /\ \A t \in Threads : cur[t] # wtask'
      /\ \A t \in Threads : \A i \in DOMAIN tasks[t] : tasks[t][i] # wtask'
  <2>1. CASE task_buffer # << >>
    BY SMTT(30), <2>1, TailElements DEF TypeOK, HeldOnce
  <2>2. CASE task_buffer = << >>
    BY <2>2, <1>a DEF TypeOK, Allocated
  <2> QED
    BY <2>1, <2>2
<1> QED
  BY <1>a, <1>b, <1>c

(* The new task is behind all others in the ring.                          *)
LEMMA InsertTaskEffect ==
  ASSUME TypeInv, InsertTask
  PROVE  /\ wt \in Threads /\ wtask \in Tasks
         /\ DOMAIN tasks[wt] = 1 .. Len(tasks[wt]) /\ Len(tasks[wt]) \in Nat
         /\ tasks' \in [Threads -> Seq(Tasks)]
         /\ \A t \in Threads : \A i \in DOMAIN tasks[t] :
              i \in DOMAIN tasks'[t] /\ tasks'[t][i] = tasks[t][i]
         /\ \E i \in DOMAIN tasks'[wt] : tasks'[wt][i] = wtask
         /\ \A t \in Threads : \A i \in DOMAIN tasks'[t] :
              \/ i \in DOMAIN tasks[t] /\ tasks'[t][i] = tasks[t][i]
              \/ t = wt /\ i = Len(tasks[wt]) + 1 /\ tasks'[t][i] = wtask
<1>0. TypeOK /\ ControlInv
  BY DEF TypeInv
<1> USE <1>0, NoneAssumption DEF InsertTask
<1>a. wt \in Threads /\ wtask \in Tasks
  BY DEF ControlInv, TypeOK
<1>b. /\ Append(tasks[wt], wtask) \in Seq(Tasks)
      /\ DOMAIN Append(tasks[wt], wtask) = 1 .. Len(tasks[wt]) + 1
      /\ DOMAIN tasks[wt] = 1 .. Len(tasks[wt])
      /\ Len(tasks[wt]) \in Nat
      /\ \A i \in DOMAIN tasks[wt] : Append(tasks[wt], wtask)[i] = tasks[wt][i]
      /\ Append(tasks[wt], wtask)[Len(tasks[wt]) + 1] = wtask
  BY SMTT(30), <1>a, AppendElements DEF TypeOK
<1>c. /\ tasks' \in [Threads -> Seq(Tasks)]
      /\ \A t \in Threads : \A i \in DOMAIN tasks[t] :
           i \in DOMAIN tasks'[t] /\ tasks'[t][i] = tasks[t][i]
      /\ \E i \in DOMAIN tasks'[wt] : tasks'[wt][i] = wtask
      /\ \A t \in Threads : \A i \in DOMAIN tasks'[t] :
           \/ i \in DOMAIN tasks[t] /\ tasks'[t][i] = tasks[t][i]
           \/ t = wt /\ i = Len(tasks[wt]) + 1 /\ tasks'[t][i] = wtask
  <2>1. tasks \in [Threads -> Seq(Tasks)]
    BY DEF TypeOK
  <2>2. tasks' = [tasks EXCEPT ![wt] = Append(tasks[wt], wtask)]
    OBVIOUS
  <2>3. \A t \in Threads :
          tasks'[t] = IF t = wt THEN Append(tasks[wt], wtask) ELSE tasks[t]
    BY <2>1, <2>2
  <2>4. tasks' \in [Threads -> Seq(Tasks)]
    BY <1>a, <1>b, <2>1, <2>2
  <2> QED
    BY <1>a, <1>b, <2>3, <2>4
<1> QED
  BY <1>a, <1>b, <1>c

(* The head of the ring is in the hands of the thread.                     *)
LEMMA TakeTaskEffect ==
  ASSUME TypeInv, NEW t \in Threads, TakeTask(t)
  PROVE  /\ tasks[t] \in Seq(Tasks) /\ tasks[t] # << >>
         /\ cur[t] = None /\ vfd[t] = None
         /\ tpc[t] \in {"drain", "last"}
         /\ Head(tasks[t]) \in Tasks /\ Head(tasks[t]) = tasks[t][1]
         /\ 1 \in DOMAIN tasks[t]
         /\ Tail(tasks[t]) \in Seq(Tasks)
         /\ DOMAIN Tail(tasks[t]) = 1 .. Len(tasks[t]) - 1
         /\ DOMAIN tasks[t] = 1 .. Len(tasks[t])
         /\ Len(tasks[t]) \in Nat
         /\ \A i \in DOMAIN Tail(tasks[t]) :
              i + 1 \in DOMAIN tasks[t] /\ Tail(tasks[t])[i] = tasks[t][i + 1]
         /\ tasks' = [tasks EXCEPT ![t] = Tail(tasks[t])]
         /\ cur' = [cur EXCEPT ![t] = tasks[t][1]]
         /\ tasks[t][1] \in Tasks
         /\ ret' = [ret EXCEPT ![t] = tpc[t]]
         /\ tpc' = [tpc EXCEPT ![t] = "run"]
         /\ \A u \in Threads : \A i \in DOMAIN tasks'[u] :
              \/ u # t /\ i \in DOMAIN tasks[u] /\ tasks'[u][i] = tasks[u][i]
              \/ /\ u = t /\ i \in Nat /\ i + 1 \in DOMAIN tasks[u] /\ i + 1 # 1
                 /\ tasks'[u][i] = tasks[u][i + 1]
         /\ \A u \in Threads : cur'[u] = IF u = t THEN tasks[t][1] ELSE cur[u]
<1>0. TypeOK /\ ControlInv
  BY DEF TypeInv
<1> USE NoneAssumption
<1>a. /\ tasks[t] \in Seq(Tasks) /\ tasks[t] # << >>
      /\ cur[t] = None /\ vfd[t] = None
      /\ tpc[t] \in {"drain", "last"}
  BY <1>0 DEF TakeTask, TypeOK, ControlInv, Busy, Running
<1>b. /\ Head(tasks[t]) \in Tasks /\ Head(tasks[t]) = tasks[t][1]
      /\ 1 \in DOMAIN tasks[t]
      /\ Tail(tasks[t]) \in Seq(Tasks)
      /\ DOMAIN Tail(tasks[t]) = 1 .. Len(tasks[t]) - 1
      /\ DOMAIN tasks[t] = 1 .. Len(tasks[t])
      /\ Len(tasks[t]) \in Nat
      /\ \A i \in DOMAIN Tail(tasks[t]) :
           i + 1 \in DOMAIN tasks[t] /\ Tail(tasks[t])[i] = tasks[t][i + 1]
  BY <1>a, TailElements
<1>c. /\ tasks' = [tasks EXCEPT ![t] = Tail(tasks[t])]
      /\ cur' = [cur EXCEPT ![t] = tasks[t][1]]
      /\ tasks[t][1] \in Tasks
      /\ ret' = [ret EXCEPT ![t] = tpc[t]]
      /\ tpc' = [tpc EXCEPT ![t] = "run"]
  BY <1>0, <1>b DEF TakeTask, TypeOK, Goto
<1>d. \A u \in Threads : \A i \in DOMAIN tasks'[u] :
        \/ u # t /\ i \in DOMAIN tasks[u] /\ tasks'[u][i] = tasks[u][i]
        \/ /\ u = t /\ i \in Nat /\ i + 1 \in DOMAIN tasks[u] /\ i + 1 # 1
           /\ tasks'[u][i] = tasks[u][i + 1]
  <2> SUFFICES ASSUME NEW u \in Threads, NEW i \in DOMAIN tasks'[u]
               PROVE  \/ u # t /\ i \in DOMAIN tasks[u] /\ tasks'[u][i] = tasks[u][i]
                      \/ /\ u = t /\ i \in Nat /\ i + 1 \in DOMAIN tasks[u] /\ i + 1 # 1
                         /\ tasks'[u][i] = tasks[u][i + 1]
    OBVIOUS
  <2>0. tasks \in [Threads -> Seq(Tasks)]
    BY <1>0 DEF TypeOK
  <2>1. CASE u = t
    <3>1. tasks'[u] = Tail(tasks[t])
      BY <1>c, <2>0, <2>1
    <3> QED
      BY <1>b, <2>1, <3>1
  <2>2. CASE u # t
    BY <1>c, <2>0, <2>2
  <2> QED
    BY <2>1, <2>2
<1>e. \A u \in Threads : cur'[u] = IF u = t THEN tasks[t][1] ELSE cur[u]
  BY <1>0, <1>c DEF TypeOK
<1> QED
  BY <1>a, <1>b, <1>c, <1>d, <1>e

(* Every step keeps the invariant, one action at a time.                   *)
THEOREM NextTypeInv == TypeInv /\ [Next]_vars => TypeInv'
<1> SUFFICES ASSUME TypeInv, [Next]_vars
             PROVE  TypeInv'
  OBVIOUS
<1> USE NumbersAssumption, NoneAssumption
<1>a. TypeOK /\ ControlInv /\ StartInv /\ HeldOnce /\ Allocated
  BY DEF TypeInv
<1>b. file \in Seq(Line) /\ Len(file) \in Nat /\ DOMAIN file = 1 .. Len(file)
  BY FileFacts
<1>c. \A i \in 1 .. Len(file) :
        /\ file[i].vsize \in Vsizes
        /\ file[i].fd \in Fds \cup {0}
        /\ file[i].op = "path" <=> file[i].fd = 0
  BY FileFacts
<1>d. \A u \in Threads : cur[u] # None =>
        cur[u] \in Tasks /\ line[cur[u]] \in 1 .. Len(file)
  BY HeldFacts
<1>e. /\ \A u \in Threads : \A i \in DOMAIN tasks[u] : tasks[u][i] \in Tasks
      /\ \A i \in DOMAIN task_buffer : task_buffer[i] \in Tasks
  BY HeldFacts
<1> USE DEF Threads, Vsizes, Busy, Running, SingleThreaded
<1>1. ASSUME ReadLine
     PROVE  TypeInv'
  <2> USE <1>1, <1>a DEF ReadLine, options, worker, idle, recycling, fds
  <2>1. TypeOK'
    <3>1. wpc' \in WorkerPCs
      BY DEF WorkerPCs
    <3>2. lineno' \in 0 .. Len(file)
      BY SMTT(30), <1>b DEF TypeOK
    <3> QED
      BY <3>1, <3>2 DEF TypeOK
  <2>2. ControlInv'
    BY DEF ControlInv, TypeOK
  <2>3. StartInv'
    BY DEF StartInv, TypeOK, ControlInv
  <2>4. HeldOnce'
    BY DEF HeldOnce, TypeOK, ControlInv
  <2>5. Allocated'
    BY DEF Allocated, TypeOK, ControlInv, HeldOnce
  <2> QED
    BY <2>1, <2>2, <2>3, <2>4, <2>5 DEF TypeInv
<1>2. ASSUME EndOfLines
     PROVE  TypeInv'
  <2> USE <1>2, <1>a DEF EndOfLines, options, worker, idle, recycling, fds
  <2>1. TypeOK'
    BY DEF TypeOK, WorkerPCs, ThreadPCs, ControlInv
  <2>2. ControlInv'
    BY DEF ControlInv, TypeOK
  <2>3. StartInv'
    BY DEF StartInv, TypeOK, ControlInv
  <2>4. HeldOnce'
    BY DEF HeldOnce, TypeOK, ControlInv
  <2>5. Allocated'
    BY DEF Allocated, TypeOK, ControlInv, HeldOnce
  <2> QED
    BY <2>1, <2>2, <2>3, <2>4, <2>5 DEF TypeInv
<1>3. ASSUME UseSingleThread
     PROVE  TypeInv'
  <2> USE <1>3, <1>a DEF UseSingleThread, options, worker, idle, recycling, fds
  <2>a. 1 \in Threads /\ Len(all_threads) = 0 /\ tpc[1] \in {"none", "inline"}
    BY DEF TypeOK, StartInv
  <2>1. TypeOK'
    BY DEF TypeOK, WorkerPCs, ThreadPCs, ControlInv
  <2>2. ControlInv'
    BY <2>a DEF ControlInv, TypeOK
  <2>3. StartInv'
    BY DEF StartInv, TypeOK, ControlInv
  <2>4. HeldOnce'
    BY DEF HeldOnce, TypeOK, ControlInv, StartInv
  <2>5. Allocated'
    BY DEF Allocated, TypeOK, ControlInv, HeldOnce, StartInv
  <2> QED
    BY <2>1, <2>2, <2>3, <2>4, <2>5 DEF TypeInv
<1>4. ASSUME PickMapped
     PROVE  TypeInv'
  <2> USE <1>4, <1>a DEF PickMapped, options, worker, idle, recycling, fds, Vsize
  <2>a. rthread_map[Vsize] \in Threads
    BY SMTT(30), <1>b, <1>c DEF TypeOK, ControlInv
  <2>1. TypeOK'
    BY <2>a DEF TypeOK, WorkerPCs
  <2>2. ControlInv'
    BY <2>a DEF ControlInv, TypeOK
  <2>3. StartInv'
    BY DEF StartInv, TypeOK, ControlInv
  <2>4. HeldOnce'
    BY DEF HeldOnce, TypeOK, ControlInv
  <2>5. Allocated'
    BY DEF Allocated, TypeOK, ControlInv, HeldOnce
  <2> QED
    BY <2>1, <2>2, <2>3, <2>4, <2>5 DEF TypeInv
<1>5. ASSUME RecycleThread
     PROVE  TypeInv'
  <2> USE <1>5, <1>a DEF RecycleThread, options, worker, idle, recycling, fds, MapVsize, Vsize, Unmapped
  <2>a. /\ Head(rthread_buffer) \in Threads
        /\ Tail(rthread_buffer) \in Seq(Threads)
    BY TailElements DEF TypeOK
  <2>1. TypeOK'
    BY <2>a DEF TypeOK, WorkerPCs
  <2>2. ControlInv'
    BY <2>a DEF ControlInv, TypeOK
  <2>3. StartInv'
    BY DEF StartInv, TypeOK, ControlInv
  <2>4. HeldOnce'
    BY DEF HeldOnce, TypeOK, ControlInv
  <2>5. Allocated'
    BY DEF Allocated, TypeOK, ControlInv, HeldOnce
  <2> QED
    BY <2>1, <2>2, <2>3, <2>4, <2>5 DEF TypeInv
<1>6. ASSUME AwaitThread
     PROVE  TypeInv'
  <2> USE <1>6, <1>a DEF AwaitThread, options, worker, idle, recycling, fds, Unmapped
  <2>1. TypeOK'
    BY DEF TypeOK, WorkerPCs, ThreadPCs, ControlInv
  <2>2. ControlInv'
    BY DEF ControlInv, TypeOK
  <2>3. StartInv'
    BY DEF StartInv, TypeOK, ControlInv
  <2>4. HeldOnce'
    BY DEF HeldOnce, TypeOK, ControlInv
  <2>5. Allocated'
    BY DEF Allocated, TypeOK, ControlInv, HeldOnce
  <2> QED
    BY <2>1, <2>2, <2>3, <2>4, <2>5 DEF TypeInv
<1>7. ASSUME CreateThread
     PROVE  TypeInv'
  <2> USE <1>7, <1>a DEF CreateThread, options, worker, idle, recycling, fds, MapVsize, Vsize, Unmapped
  <2>a. /\ Len(all_threads) \in Nat
        /\ Len(all_threads) + 1 \in 1 .. nthreads
        /\ Len(all_threads) + 1 \in Threads
        /\ tpc[Len(all_threads) + 1] \in {"none", "inline"}
    BY SMTT(30) DEF TypeOK, StartInv
  <2>b. /\ Append(all_threads, Len(all_threads) + 1) \in Seq(1 .. nthreads)
        /\ Len(Append(all_threads, Len(all_threads) + 1)) = Len(all_threads) + 1
    BY <2>a, AppendProperties DEF TypeOK
  <2>1. TypeOK'
    BY <2>a, <2>b DEF TypeOK, WorkerPCs, ThreadPCs
  <2>2. ControlInv'
    <3>1. IdleMove(Len(all_threads) + 1, "wait")
      BY <2>a DEF IdleMove
    <3>2. ThreadsControl'
      BY <2>a, <3>1, IdleMoveControl
    <3>3. /\ wpc = "pick" /\ wpc' = "task" /\ wt' \in Threads
          /\ UNCHANGED <<lineno, wtask>>
      BY <2>a
    <3> QED
      BY <3>2, <3>3 DEF ControlInv, ThreadsControl
  <2>3. StartInv'
    <3>1. /\ Len(all_threads') = Len(all_threads) + 1 /\ ~SingleThreaded'
          /\ \A t \in Threads : t # Len(all_threads) + 1 => tpc'[t] = tpc[t]
      BY <2>a, <2>b DEF TypeOK, SingleThreaded
    <3>2. /\ \A t \in Threads : t > Len(all_threads) =>
                tpc[t] \in {"none", "inline"}
          /\ \A t \in Threads : t \in Nat
      BY DEF StartInv, Threads
    <3> QED
      BY <2>a, <3>1, <3>2 DEF StartInv
  <2>4. HeldOnce'
    BY DEF HeldOnce, TypeOK, ControlInv, StartInv
  <2>5. Allocated'
    BY DEF Allocated, TypeOK, ControlInv, HeldOnce, StartInv
  <2> QED
    BY <2>1, <2>2, <2>3, <2>4, <2>5 DEF TypeInv
<1>8. ASSUME GetTask
     PROVE  TypeInv'
  <2> USE <1>8, <1>a DEF GetTask, options, worker, idle, recycling, fds
  <2>a. /\ wtask' \in Tasks
        /\ line' = [line EXCEPT ![wtask'] = lineno]
        /\ lineno \in 1 .. Len(file)
    BY GetTaskEffect
  <2>b. /\ task_buffer' \in Seq(Tasks)
        /\ \A i \in DOMAIN task_buffer' :
             /\ task_buffer'[i] # wtask'
             /\ \E j \in DOMAIN task_buffer : task_buffer'[i] = task_buffer[j]
        /\ \A i, j \in DOMAIN task_buffer' : task_buffer'[i] = task_buffer'[j] => i = j
    BY GetTaskEffect
  <2>c. /\ \A t \in Threads : cur[t] # wtask'
        /\ \A t \in Threads : \A i \in DOMAIN tasks[t] : tasks[t][i] # wtask'
    BY GetTaskEffect
  <2>1. TypeOK'
    <3>1. line' \in [Tasks -> 0 .. Len(file)]
      BY <1>b, <2>a DEF TypeOK
    <3>2. ioops' \in Nat
      BY DEF TypeOK
    <3> QED
      BY <2>a, <2>b, <3>1, <3>2 DEF TypeOK, WorkerPCs
  <2>2. ControlInv'
    BY <2>a DEF ControlInv, TypeOK
  <2>3. StartInv'
    BY DEF StartInv, TypeOK, ControlInv
  <2>4. HeldOnce'
    BY <2>a, <2>b, <2>c DEF HeldOnce
  <2>5. Allocated'
    <3>1. \A k \in Tasks : line'[k] = IF k = wtask' THEN lineno ELSE line[k]
      BY <2>a DEF TypeOK
    <3>2. \A i \in DOMAIN task_buffer' : line'[task_buffer'[i]] # 0
      BY <1>e, <2>b, <3>1 DEF Allocated
    <3> QED
      BY <1>d, <1>e, <2>a, <2>c, <3>1, <3>2 DEF Allocated
  <2> QED
    BY <2>1, <2>2, <2>3, <2>4, <2>5 DEF TypeInv
<1>9. ASSUME InsertTask
     PROVE  TypeInv'
  <2> USE <1>9, <1>a DEF InsertTask, options, worker, idle, recycling, fds
  <2>a. wt \in Threads /\ wtask \in Tasks
    BY InsertTaskEffect
  <2>c. /\ tasks' \in [Threads -> Seq(Tasks)]
        /\ \A t \in Threads : \A i \in DOMAIN tasks'[t] :
             \/ i \in DOMAIN tasks[t] /\ tasks'[t][i] = tasks[t][i]
             \/ t = wt /\ i = Len(tasks[wt]) + 1 /\ tasks'[t][i] = wtask
    BY InsertTaskEffect
  <2>1. TypeOK'
    BY <2>c DEF TypeOK, WorkerPCs
  <2>2. ControlInv'
    BY DEF ControlInv, TypeOK
  <2>3. StartInv'
    BY DEF StartInv, TypeOK, ControlInv
  <2>4. HeldOnce'
    <3> USE DEF HeldOnce
    <3>1. wtask' = None /\ wtask # None
      BY <2>a
    <3>2. \A t, u \in Threads : \A i \in DOMAIN tasks'[t], j \in DOMAIN tasks'[u] :
            tasks'[t][i] = tasks'[u][j] => t = u /\ i = j
      BY <2>c
    <3>3. \A u \in Threads : \A i \in DOMAIN tasks'[u] :
            tasks'[u][i] # None /\ \A t \in Threads : tasks'[u][i] # cur[t]
      BY <1>e, <2>a, <2>c, <3>1
    <3>4. \A i \in DOMAIN task_buffer :
            /\ task_buffer[i] # None
            /\ \A t \in Threads : \A j \in DOMAIN tasks'[t] : task_buffer[i] # tasks'[t][j]
      BY <1>e, <2>a, <2>c
    <3> QED
      BY SMTT(30), <3>1, <3>2, <3>3, <3>4
  <2>5. Allocated'
    <3>1. wtask' = None /\ wtask # None /\ line' = line /\ cur' = cur
          /\ task_buffer' = task_buffer
      BY <2>a
    <3>2. \A t \in Threads : \A i \in DOMAIN tasks'[t] : line[tasks'[t][i]] # 0
      BY <2>c, <3>1 DEF Allocated
    <3> QED
      BY <3>1, <3>2 DEF Allocated
  <2> QED
    BY <2>1, <2>2, <2>3, <2>4, <2>5 DEF TypeInv
<1>10. ASSUME RunInline
     PROVE  TypeInv'
  <2> USE <1>10, <1>a DEF RunInline, options, worker, idle, recycling, fds
  <2>a. wt \in Threads /\ wtask \in Tasks /\ tpc[wt] \in {"none", "inline"}
    BY DEF ControlInv, StartInv, TypeOK
  <2>1. TypeOK'
    BY DEF TypeOK, WorkerPCs, ThreadPCs, ControlInv
  <2>2. ControlInv'
    BY SMTT(30), <2>a DEF ControlInv, TypeOK
  <2>3. StartInv'
    BY DEF StartInv, TypeOK, ControlInv
  <2>4. HeldOnce'
    <3> USE DEF HeldOnce
    <3>1. /\ cur' = [cur EXCEPT ![wt] = wtask]
          /\ wtask' = None /\ tasks' = tasks /\ task_buffer' = task_buffer
      OBVIOUS
    <3>a. /\ \A t \in Threads : cur'[t] = IF t = wt THEN wtask ELSE cur[t]
          /\ None \notin Tasks
      BY <3>1, NumbersAssumption DEF TypeOK
    <3>2. \A u \in Threads : \A i \in DOMAIN tasks[u] :
            tasks[u][i] # None /\ \A t \in Threads : tasks[u][i] # cur'[t]
      <4>1. \A u \in Threads : \A i \in DOMAIN tasks[u] : tasks[u][i] \in Tasks
        BY DEF TypeOK
      <4> QED
        BY <3>a, <4>1
    <3>3. \A i \in DOMAIN task_buffer :
            task_buffer[i] # None /\ \A t \in Threads : task_buffer[i] # cur'[t]
      <4>1. \A i \in DOMAIN task_buffer : task_buffer[i] \in Tasks
        BY DEF TypeOK
      <4> QED
        BY <3>a, <4>1
    <3>4. \A t, u \in Threads : cur'[t] = cur'[u] /\ cur'[t] # None => t = u
      BY <2>a, <3>a
    <3> QED
      BY <3>1, <3>2, <3>3, <3>4
  <2>5. Allocated'
    BY SMTT(30) DEF Allocated, TypeOK, ControlInv, HeldOnce, StartInv
  <2> QED
    BY <2>1, <2>2, <2>3, <2>4, <2>5 DEF TypeInv
<1>11. ASSUME InlineDone
     PROVE  TypeInv'
  <2> USE <1>11, <1>a DEF InlineDone, options, worker, idle, recycling, fds
  <2>1. TypeOK'
    BY DEF TypeOK, WorkerPCs, ThreadPCs, ControlInv
  <2>2. ControlInv'
    BY DEF ControlInv, TypeOK, StartInv
  <2>3. StartInv'
    BY DEF StartInv, TypeOK, ControlInv
  <2>4. HeldOnce'
    BY DEF HeldOnce, TypeOK, ControlInv, StartInv
  <2>5. Allocated'
    BY DEF Allocated, TypeOK, ControlInv, HeldOnce, StartInv
  <2> QED
    BY <2>1, <2>2, <2>3, <2>4, <2>5 DEF TypeInv
<1>12. ASSUME TerminateThread
     PROVE  TypeInv'
  <2> USE <1>12, <1>a DEF TerminateThread, options, worker, idle, recycling, fds
  <2>x. all_threads \in Seq(1 .. nthreads) /\ nthreads \in Threads
    BY DEF TypeOK
  <2>y. Len(all_threads) \in Nat /\ Len(all_threads) # 0
    BY <2>x, EmptySeq, LenProperties
  <2>a. /\ Len(all_threads) \in 1 .. Len(all_threads)
        /\ all_threads[Len(all_threads)] \in Threads
        /\ SubSeq(all_threads, 1, Len(all_threads) - 1) \in Seq(1 .. nthreads)
    <3>1. Len(all_threads) \in 1 .. Len(all_threads)
      BY <2>y
    <3>2. all_threads[Len(all_threads)] \in 1 .. nthreads
      BY <2>x, <3>1, ElementOfSeq
    <3>3. SubSeq(all_threads, 1, Len(all_threads) - 1) \in Seq(1 .. nthreads)
      <4>1. \A i \in 1 .. Len(all_threads) - 1 : all_threads[i] \in 1 .. nthreads
        BY SMTT(30), <2>x, <2>y, ElementOfSeq
      <4> QED
        BY <2>y, <4>1, SubSeqProperties
    <3> QED
      BY <2>x, <3>1, <3>2, <3>3
  <2>1. TypeOK'
    BY <2>a DEF TypeOK, WorkerPCs
  <2>2. ControlInv'
    BY <2>a DEF ControlInv, TypeOK
  <2>3. StartInv'
    BY DEF StartInv, TypeOK, ControlInv
  <2>4. HeldOnce'
    BY DEF HeldOnce, TypeOK, ControlInv
  <2>5. Allocated'
    BY DEF Allocated, TypeOK, ControlInv, HeldOnce
  <2> QED
    BY <2>1, <2>2, <2>3, <2>4, <2>5 DEF TypeInv
<1>13. ASSUME JoinThread
     PROVE  TypeInv'
  <2> USE <1>13, <1>a DEF JoinThread, options, worker, idle, recycling, fds
  <2>1. TypeOK'
    BY DEF TypeOK, WorkerPCs, ThreadPCs, ControlInv
  <2>2. ControlInv'
    BY ZenonT(40) DEF ControlInv, TypeOK
  <2>3. StartInv'
    BY DEF StartInv, TypeOK, ControlInv
  <2>4. HeldOnce'
    BY DEF HeldOnce, TypeOK, ControlInv
  <2>5. Allocated'
    BY DEF Allocated, TypeOK, ControlInv, HeldOnce
  <2> QED
    BY <2>1, <2>2, <2>3, <2>4, <2>5 DEF TypeInv
<1>14. ASSUME Finish
     PROVE  TypeInv'
  <2> USE <1>14, <1>a DEF Finish, options, worker, idle, recycling, fds
  <2>1. TypeOK'
    BY DEF TypeOK, WorkerPCs, ThreadPCs, ControlInv
  <2>2. ControlInv'
    BY DEF ControlInv, TypeOK
  <2>3. StartInv'
    BY DEF StartInv, TypeOK, ControlInv
  <2>4. HeldOnce'
    BY DEF HeldOnce, TypeOK, ControlInv
  <2>5. Allocated'
    BY DEF Allocated, TypeOK, ControlInv, HeldOnce
  <2> QED
    BY <2>1, <2>2, <2>3, <2>4, <2>5 DEF TypeInv
<1>15. ASSUME NEW t \in Threads, LeaveWait(t)
     PROVE  TypeInv'
  <2> USE <1>15, <1>a DEF LeaveWait, options, worker, idle, recycling, fds, Goto
  <2>1. TypeOK'
    BY DEF TypeOK, WorkerPCs, ThreadPCs, ControlInv
  <2>2. ControlInv'
    BY ZenonT(40) DEF ControlInv, TypeOK
  <2>3. StartInv'
    BY DEF StartInv, TypeOK, ControlInv
  <2>4. HeldOnce'
    BY DEF HeldOnce, TypeOK, ControlInv
  <2>5. Allocated'
    BY DEF Allocated, TypeOK, ControlInv, HeldOnce
  <2> QED
    BY <2>1, <2>2, <2>3, <2>4, <2>5 DEF TypeInv
<1>16. ASSUME NEW t \in Threads, TakeTask(t)
     PROVE  TypeInv'
  <2>a. /\ tasks[t] \in Seq(Tasks) /\ tasks[t] # << >>
        /\ cur[t] = None /\ vfd[t] = None
        /\ tpc[t] \in {"drain", "last"}
    BY <1>16, TakeTaskEffect
  <2>b. /\ Head(tasks[t]) \in Tasks /\ Head(tasks[t]) = tasks[t][1]
        /\ 1 \in DOMAIN tasks[t]
        /\ Tail(tasks[t]) \in Seq(Tasks)
        /\ DOMAIN Tail(tasks[t]) = 1 .. Len(tasks[t]) - 1
        /\ DOMAIN tasks[t] = 1 .. Len(tasks[t])
        /\ Len(tasks[t]) \in Nat
        /\ \A i \in DOMAIN Tail(tasks[t]) :
             i + 1 \in DOMAIN tasks[t] /\ Tail(tasks[t])[i] = tasks[t][i + 1]
    BY <1>16, TakeTaskEffect
  <2>c. /\ tasks' = [tasks EXCEPT ![t] = Tail(tasks[t])]
        /\ cur' = [cur EXCEPT ![t] = tasks[t][1]]
        /\ tasks[t][1] \in Tasks
        /\ ret' = [ret EXCEPT ![t] = tpc[t]]
        /\ tpc' = [tpc EXCEPT ![t] = "run"]
    BY <1>16, TakeTaskEffect
  <2>d. \A u \in Threads : \A i \in DOMAIN tasks'[u] :
          \/ u # t /\ i \in DOMAIN tasks[u] /\ tasks'[u][i] = tasks[u][i]
          \/ /\ u = t /\ i \in Nat /\ i + 1 \in DOMAIN tasks[u] /\ i + 1 # 1
             /\ tasks'[u][i] = tasks[u][i + 1]
    BY <1>16, TakeTaskEffect
  <2>e. \A u \in Threads : cur'[u] = IF u = t THEN tasks[t][1] ELSE cur[u]
    BY <1>16, TakeTaskEffect
  <2>z. /\ UNCHANGED <<file, nthreads, wpc, lineno, wt, wtask, all_threads, ioops>>
        /\ UNCHANGED <<rthread_map, rthread_buffer, rthread_mutex, task_buffer>>
        /\ UNCHANGED <<line, terminate, vfd, fds_map, destroyed, done>>
    BY <1>16 DEF TakeTask, options, worker, idle, recycling, fds
  <2>1. TypeOK'
    <3>1. tpc' \in [Threads -> ThreadPCs]
      BY <1>a, <2>c DEF TypeOK, ThreadPCs
    <3>2. /\ tasks' \in [Threads -> Seq(Tasks)]
          /\ cur' \in [Threads -> Tasks \cup {None}]
          /\ ret' \in [Threads -> {"none", "inline", "drain", "last"}]
      BY <1>a, <2>a, <2>b, <2>c DEF TypeOK
    <3> QED
      BY <1>a, <2>z, <3>1, <3>2 DEF TypeOK
  <2>2. ControlInv'
    BY <1>a, <2>a, <2>c, <2>z DEF ControlInv, TypeOK
  <2>3. StartInv'
    BY <1>a, <2>a, <2>c, <2>z DEF StartInv, TypeOK
  <2>4. HeldOnce'
    <3>2. \A u, v \in Threads : cur'[u] = cur'[v] /\ cur'[u] # None => u = v
      BY <1>a, <2>a, <2>b, <2>e DEF HeldOnce
    <3>3. \A u \in Threads : cur'[u] = wtask => wtask = None
      BY <1>a, <2>a, <2>b, <2>e DEF HeldOnce
    <3>4. \A u, v \in Threads : \A i \in DOMAIN tasks'[u], j \in DOMAIN tasks'[v] :
            tasks'[u][i] = tasks'[v][j] => u = v /\ i = j
      BY <1>a, <2>d DEF HeldOnce
    <3>5. \A u, v \in Threads : \A i \in DOMAIN tasks'[u] : tasks'[u][i] # cur'[v]
      BY <1>a, <2>b, <2>d, <2>e DEF HeldOnce
    <3>6. \A u \in Threads : \A i \in DOMAIN tasks'[u] : tasks'[u][i] # wtask
      BY <1>a, <2>d DEF HeldOnce
    <3>7. \A i \in DOMAIN task_buffer :
            /\ \A u \in Threads : task_buffer[i] # cur'[u]
            /\ \A u \in Threads : \A j \in DOMAIN tasks'[u] :
                 task_buffer[i] # tasks'[u][j]
      BY SMTT(30), <1>a, <2>b, <2>d, <2>e DEF HeldOnce
    <3> QED
      BY <1>a, <2>z, <3>2, <3>3, <3>4, <3>5, <3>6, <3>7 DEF HeldOnce
  <2>5. Allocated'
    BY SMTT(30), <1>a, <2>b, <2>d, <2>e, <2>z DEF Allocated
  <2> QED
    BY <2>1, <2>2, <2>3, <2>4, <2>5 DEF TypeInv
<1>17. ASSUME NEW t \in Threads, Drained(t)
     PROVE  TypeInv'
  <2> USE <1>17, <1>a DEF Drained, options, worker, idle, recycling, fds, Goto
  <2>1. TypeOK'
    BY DEF TypeOK, WorkerPCs, ThreadPCs, ControlInv
  <2>2. ControlInv'
    BY DEF ControlInv, TypeOK
  <2>3. StartInv'
    BY DEF StartInv, TypeOK, ControlInv
  <2>4. HeldOnce'
    BY DEF HeldOnce, TypeOK, ControlInv
  <2>5. Allocated'
    BY DEF Allocated, TypeOK, ControlInv, HeldOnce
  <2> QED
    BY <2>1, <2>2, <2>3, <2>4, <2>5 DEF TypeInv
<1>18. ASSUME NEW t \in Threads, Idle(t)
     PROVE  TypeInv'
  <2> USE <1>18, <1>a DEF Idle, options, worker, idle, recycling, fds, Goto
  <2>1. TypeOK'
    BY DEF TypeOK, WorkerPCs, ThreadPCs, ControlInv
  <2>2. ControlInv'
    BY DEF ControlInv, TypeOK
  <2>3. StartInv'
    BY DEF StartInv, TypeOK, ControlInv
  <2>4. HeldOnce'
    BY DEF HeldOnce, TypeOK, ControlInv
  <2>5. Allocated'
    BY DEF Allocated, TypeOK, ControlInv, HeldOnce
  <2> QED
    BY <2>1, <2>2, <2>3, <2>4, <2>5 DEF TypeInv
<1>19. ASSUME NEW t \in Threads, Recheck(t)
     PROVE  TypeInv'
  <2> USE <1>19, <1>a DEF Recheck, options, worker, idle, recycling, fds, Goto
  <2>1. TypeOK'
    BY DEF TypeOK, WorkerPCs, ThreadPCs, ControlInv
  <2>2. ControlInv'
    BY DEF ControlInv, TypeOK
  <2>3. StartInv'
    BY DEF StartInv, TypeOK, ControlInv
  <2>4. HeldOnce'
    BY DEF HeldOnce, TypeOK, ControlInv
  <2>5. Allocated'
    BY DEF Allocated, TypeOK, ControlInv, HeldOnce
  <2> QED
    BY <2>1, <2>2, <2>3, <2>4, <2>5 DEF TypeInv
<1>20. ASSUME NEW t \in Threads, LockRthreadBuffer(t)
     PROVE  TypeInv'
  <2> USE <1>20, <1>a DEF LockRthreadBuffer, options, worker, idle, recycling, fds, Goto
  <2>1. TypeOK'
    BY DEF TypeOK, WorkerPCs, ThreadPCs, ControlInv
  <2>2. ControlInv'
    BY DEF ControlInv, TypeOK
  <2>3. StartInv'
    BY DEF StartInv, TypeOK, ControlInv
  <2>4. HeldOnce'
    BY DEF HeldOnce, TypeOK, ControlInv
  <2>5. Allocated'
    BY DEF Allocated, TypeOK, ControlInv, HeldOnce
  <2> QED
    BY <2>1, <2>2, <2>3, <2>4, <2>5 DEF TypeInv
<1>21. ASSUME NEW t \in Threads, LookLocked(t)
     PROVE  TypeInv'
  <2> USE <1>21, <1>a DEF LookLocked, options, worker, idle, recycling, fds, Goto
  <2>1. TypeOK'
    <3>1. CASE tasks[t] # << >>
      BY <3>1 DEF TypeOK, ThreadPCs
    <3>2. CASE tasks[t] = << >>
      BY <3>2 DEF TypeOK, ThreadPCs
    <3> QED
      BY <3>1, <3>2
  <2>2. ControlInv'
    <3>1. IdleMove(t, "check") \/ IdleMove(t, "offer")
      BY DEF IdleMove
    <3>2. ThreadsControl'
      BY <3>1, IdleMoveControl
    <3> QED
      BY <3>2 DEF ControlInv, ThreadsControl
  <2>3. StartInv'
    BY ZenonT(40) DEF StartInv, TypeOK, ControlInv
  <2>4. HeldOnce'
    BY DEF HeldOnce, TypeOK, ControlInv
  <2>5. Allocated'
    BY DEF Allocated, TypeOK, ControlInv, HeldOnce
  <2> QED
    BY <2>1, <2>2, <2>3, <2>4, <2>5 DEF TypeInv
<1>22. ASSUME NEW t \in Threads, Offer(t)
     PROVE  TypeInv'
  <2> USE <1>22, <1>a DEF Offer, options, worker, idle, recycling, fds, Goto
  <2>1. TypeOK'
    <3>1. CASE RthreadBufferFull
      BY <3>1 DEF TypeOK, ThreadPCs
    <3>2. CASE ~RthreadBufferFull
      <4>1. Append(rthread_buffer, t) \in Seq(Threads)
        BY AppendElements DEF TypeOK
      <4>2. tpc' \in [Threads -> ThreadPCs]
        BY ZenonT(40), <3>2 DEF TypeOK, ThreadPCs
      <4> QED
        BY <3>2, <4>1, <4>2 DEF TypeOK
    <3> QED
      BY <3>1, <3>2
  <2>2. ControlInv'
    <3>1. IdleMove(t, "check") \/ IdleMove(t, "idle")
      BY DEF IdleMove
    <3>2. ThreadsControl'
      BY <3>1, IdleMoveControl
    <3> QED
      BY <3>2 DEF ControlInv, ThreadsControl
  <2>3. StartInv'
    BY DEF StartInv, TypeOK, ControlInv
  <2>4. HeldOnce'
    BY DEF HeldOnce, TypeOK, ControlInv
  <2>5. Allocated'
    BY DEF Allocated, TypeOK, ControlInv, HeldOnce
  <2> QED
    BY <2>1, <2>2, <2>3, <2>4, <2>5 DEF TypeInv
<1>23. ASSUME NEW t \in Threads, CheckTerminate(t)
     PROVE  TypeInv'
  <2> USE <1>23, <1>a DEF CheckTerminate, options, worker, idle, recycling, fds, Goto
  <2>1. TypeOK'
    BY DEF TypeOK, WorkerPCs, ThreadPCs, ControlInv
  <2>2. ControlInv'
    BY DEF ControlInv, TypeOK
  <2>3. StartInv'
    BY DEF StartInv, TypeOK, ControlInv
  <2>4. HeldOnce'
    BY DEF HeldOnce, TypeOK, ControlInv
  <2>5. Allocated'
    BY DEF Allocated, TypeOK, ControlInv, HeldOnce
  <2> QED
    BY <2>1, <2>2, <2>3, <2>4, <2>5 DEF TypeInv
<1>24. ASSUME NEW t \in Threads, Exit(t)
     PROVE  TypeInv'
  <2> USE <1>24, <1>a DEF Exit, options, worker, idle, recycling, fds, Goto
  <2>1. TypeOK'
    BY DEF TypeOK, WorkerPCs, ThreadPCs, ControlInv
  <2>2. ControlInv'
    BY DEF ControlInv, TypeOK
  <2>3. StartInv'
    BY DEF StartInv, TypeOK, ControlInv
  <2>4. HeldOnce'
    BY DEF HeldOnce, TypeOK, ControlInv
  <2>5. Allocated'
    BY DEF Allocated, TypeOK, ControlInv, HeldOnce
  <2> QED
    BY <2>1, <2>2, <2>3, <2>4, <2>5 DEF TypeInv
<1>25. ASSUME NEW t \in Threads, PathOp(t)
     PROVE  TypeInv'
  <2> USE <1>25, <1>a DEF PathOp, options, worker, idle, recycling, fds, Goto, HandlerDone, Op, Fd
  <2>a. /\ cur[t] \in Tasks /\ line[cur[t]] \in 1 .. Len(file)
        /\ tpc' = [tpc EXCEPT ![t] = "recycle"]
        /\ done' = done \cup {line[cur[t]]}
    BY <1>d DEF ControlInv
  <2>1. TypeOK'
    <3>1. tpc' \in [Threads -> ThreadPCs]
      BY <2>a DEF TypeOK, ThreadPCs
    <3> QED
      BY <2>a, <3>1 DEF TypeOK
  <2>2. ControlInv'
    BY DEF ControlInv, TypeOK
  <2>3. StartInv'
    BY DEF StartInv, TypeOK, ControlInv
  <2>4. HeldOnce'
    BY DEF HeldOnce, TypeOK, ControlInv
  <2>5. Allocated'
    BY DEF Allocated, TypeOK, ControlInv, HeldOnce
  <2> QED
    BY <2>1, <2>2, <2>3, <2>4, <2>5 DEF TypeInv
<1>26. ASSUME NEW t \in Threads, Open(t)
     PROVE  TypeInv'
  <2> USE <1>26, <1>a DEF Open, options, worker, idle, recycling, fds, Goto, HandlerDone, Op, Fd
  <2>a. /\ cur[t] \in Tasks /\ line[cur[t]] \in 1 .. Len(file)
        /\ tpc' = [tpc EXCEPT ![t] = "recycle"]
        /\ done' = done \cup {line[cur[t]]}
    BY <1>d DEF ControlInv
  <2>1. TypeOK'
    <3>1. tpc' \in [Threads -> ThreadPCs]
      BY <2>a DEF TypeOK, ThreadPCs
    <3>2. fds_map' \subseteq Fds
      <4>1. file[line[cur[t]]].fd \in Fds
        BY <1>c, <2>a
      <4> QED
        BY <4>1 DEF TypeOK
    <3> QED
      BY <2>a, <3>1, <3>2 DEF TypeOK
  <2>2. ControlInv'
    BY DEF ControlInv, TypeOK
  <2>3. StartInv'
    BY DEF StartInv, TypeOK, ControlInv
  <2>4. HeldOnce'
    BY DEF HeldOnce, TypeOK, ControlInv
  <2>5. Allocated'
    BY DEF Allocated, TypeOK, ControlInv, HeldOnce
  <2> QED
    BY <2>1, <2>2, <2>3, <2>4, <2>5 DEF TypeInv
<1>27. ASSUME NEW t \in Threads, LookupFd(t)
     PROVE  TypeInv'
  <2> USE <1>27, <1>a DEF LookupFd, options, worker, idle, recycling, fds, Goto, HandlerDone, Op, Fd
  <2>a. cur[t] \in Tasks /\ line[cur[t]] \in 1 .. Len(file) /\ vfd[t] = None
    BY <1>d DEF ControlInv
  <2>b. \/ /\ Fd(t) \in Fds
           /\ vfd' = [vfd EXCEPT ![t] = Fd(t)]
           /\ tpc' = [tpc EXCEPT ![t] = "use"]
           /\ fds_map' \subseteq fds_map
           /\ done' = done
        \/ /\ vfd' = vfd
           /\ tpc' = [tpc EXCEPT ![t] = "recycle"]
           /\ fds_map' = fds_map
           /\ done' = done \cup {line[cur[t]]}
    BY DEF TypeOK
  <2>1. TypeOK'
    BY ZenonT(40), <2>a, <2>b DEF TypeOK, ThreadPCs
  <2>2. ControlInv'
    <3>1. CASE tpc' = [tpc EXCEPT ![t] = "use"]
      <4>1. /\ vfd' = [vfd EXCEPT ![t] = Fd(t)] /\ Fd(t) \in Fds /\ Fd(t) # None
        BY ZenonT(40), <2>b, <3>1 DEF TypeOK
      <4> QED
        BY ZenonT(40), <2>a, <3>1, <4>1 DEF ControlInv, TypeOK
    <3>2. CASE tpc' = [tpc EXCEPT ![t] = "recycle"]
      <4>1. vfd' = vfd
        BY <2>b, <3>2 DEF TypeOK
      <4> QED
        BY <2>a, <3>2, <4>1 DEF ControlInv, TypeOK
    <3> QED
      BY <2>b, <3>1, <3>2
  <2>3. StartInv'
    BY <2>b DEF StartInv, TypeOK
  <2>4. HeldOnce'
    BY DEF HeldOnce, TypeOK, ControlInv
  <2>5. Allocated'
    BY DEF Allocated, TypeOK, ControlInv, HeldOnce
  <2> QED
    BY <2>1, <2>2, <2>3, <2>4, <2>5 DEF TypeInv
<1>28. ASSUME NEW t \in Threads, UseFd(t)
     PROVE  TypeInv'
  <2> USE <1>28, <1>a DEF UseFd, options, worker, idle, recycling, fds, Goto, HandlerDone, Op, Fd
  <2>a. /\ cur[t] \in Tasks /\ line[cur[t]] \in 1 .. Len(file)
        /\ tpc' = [tpc EXCEPT ![t] = "recycle"]
        /\ done' = done \cup {line[cur[t]]}
    BY <1>d DEF ControlInv
  <2>1. TypeOK'
    <3>1. tpc' \in [Threads -> ThreadPCs]
      BY <2>a DEF TypeOK, ThreadPCs
    <3> QED
      BY <2>a, <3>1 DEF TypeOK
  <2>2. ControlInv'
    BY DEF ControlInv, TypeOK
  <2>3. StartInv'
    BY DEF StartInv, TypeOK, ControlInv
  <2>4. HeldOnce'
    BY DEF HeldOnce, TypeOK, ControlInv
  <2>5. Allocated'
    BY DEF Allocated, TypeOK, ControlInv, HeldOnce
  <2> QED
    BY <2>1, <2>2, <2>3, <2>4, <2>5 DEF TypeInv
<1>29. ASSUME NEW t \in Threads, UnsetFd(t)
     PROVE  TypeInv'
  <2> USE <1>29, <1>a DEF UnsetFd, options, worker, idle, recycling, fds, Goto, HandlerDone, Op, Fd
  <2>a. cur[t] \in Tasks /\ line[cur[t]] \in 1 .. Len(file) /\ vfd[t] = None
    BY <1>d DEF ControlInv
  <2>b. \/ /\ Fd(t) \in Fds
           /\ vfd' = [vfd EXCEPT ![t] = Fd(t)]
           /\ tpc' = [tpc EXCEPT ![t] = "close"]
           /\ fds_map' \subseteq fds_map
           /\ done' = done
        \/ /\ vfd' = vfd
           /\ tpc' = [tpc EXCEPT ![t] = "recycle"]
           /\ fds_map' = fds_map
           /\ done' = done \cup {line[cur[t]]}
    BY DEF TypeOK
  <2>1. TypeOK'
    BY ZenonT(40), <2>a, <2>b DEF TypeOK, ThreadPCs
  <2>2. ControlInv'
    <3>1. CASE tpc' = [tpc EXCEPT ![t] = "close"]
      <4>1. /\ vfd' = [vfd EXCEPT ![t] = Fd(t)] /\ Fd(t) \in Fds /\ Fd(t) # None
        BY ZenonT(40), <2>b, <3>1 DEF TypeOK
      <4> QED
        BY ZenonT(40), <2>a, <3>1, <4>1 DEF ControlInv, TypeOK
    <3>2. CASE tpc' = [tpc EXCEPT ![t] = "recycle"]
      <4>1. vfd' = vfd
        BY <2>b, <3>2 DEF TypeOK
      <4> QED
        BY ZenonT(40), <2>a, <3>2, <4>1 DEF ControlInv, TypeOK
    <3> QED
      BY <2>b, <3>1, <3>2
  <2>3. StartInv'
    BY <2>b DEF StartInv, TypeOK
  <2>4. HeldOnce'
    BY DEF HeldOnce, TypeOK, ControlInv
  <2>5. Allocated'
    BY DEF Allocated, TypeOK, ControlInv, HeldOnce
  <2> QED
    BY <2>1, <2>2, <2>3, <2>4, <2>5 DEF TypeInv
<1>30. ASSUME NEW t \in Threads, DestroyFd(t)
     PROVE  TypeInv'
  <2> USE <1>30, <1>a DEF DestroyFd, options, worker, idle, recycling, fds, Goto, HandlerDone, Op, Fd
  <2>a. /\ cur[t] \in Tasks /\ line[cur[t]] \in 1 .. Len(file)
        /\ tpc' = [tpc EXCEPT ![t] = "recycle"]
        /\ done' = done \cup {line[cur[t]]}
    BY <1>d DEF ControlInv
  <2>1. TypeOK'
    <3>1. tpc' \in [Threads -> ThreadPCs]
      BY <2>a DEF TypeOK, ThreadPCs
    <3>2. destroyed' \subseteq Fds
      BY DEF TypeOK, ControlInv
    <3> QED
      BY <2>a, <3>1, <3>2 DEF TypeOK
  <2>2. ControlInv'
    BY DEF ControlInv, TypeOK
  <2>3. StartInv'
    BY DEF StartInv, TypeOK, ControlInv
  <2>4. HeldOnce'
    BY DEF HeldOnce, TypeOK, ControlInv
  <2>5. Allocated'
    BY DEF Allocated, TypeOK, ControlInv, HeldOnce
  <2> QED
    BY <2>1, <2>2, <2>3, <2>4, <2>5 DEF TypeInv
<1>31. ASSUME NEW t \in Threads, RecycleTask(t)
     PROVE  TypeInv'
  <2>a. /\ tpc[t] = "recycle" /\ vfd[t] = None
        /\ cur[t] \in Tasks /\ line[cur[t]] # 0
        /\ cur' = [cur EXCEPT ![t] = None]
        /\ tpc' = [tpc EXCEPT ![t] = ret[t]]
    BY <1>31, <1>a, <1>d DEF ControlInv, RecycleTask, Goto
  <2>x. ret[t] \in {"inline", "drain", "last"}
    BY <1>31, <1>a DEF ControlInv, TypeOK, RecycleTask
  <2>y. tpc' \in [Threads -> ThreadPCs]
    BY <1>a, <2>a, <2>x DEF TypeOK, ThreadPCs
  <2>z. /\ UNCHANGED <<file, nthreads, wpc, lineno, wt, wtask, all_threads, ioops>>
        /\ UNCHANGED <<rthread_map, rthread_buffer, rthread_mutex, tasks, terminate>>
        /\ UNCHANGED <<ret, vfd, fds_map, destroyed, done>>
    BY <1>31 DEF RecycleTask, options, worker, idle, fds
  <2>e. \A u \in Threads : cur'[u] = IF u = t THEN None ELSE cur[u]
    BY <1>a, <2>a DEF TypeOK
  <2>f. task_buffer \in Seq(Tasks)
    BY <1>a DEF TypeOK
  <2>b. ASSUME ~TaskBufferFull
        PROVE  TypeOK' /\ HeldOnce' /\ Allocated'
    <3>1. /\ task_buffer' = Append(task_buffer, cur[t]) /\ line' = line
      BY <1>31, <2>b DEF RecycleTask
    <3>2. /\ task_buffer' \in Seq(Tasks)
          /\ \A i \in DOMAIN task_buffer' :
               \/ i \in DOMAIN task_buffer /\ task_buffer'[i] = task_buffer[i]
               \/ i = Len(task_buffer) + 1 /\ task_buffer'[i] = cur[t]
      <4>1. /\ Append(task_buffer, cur[t]) \in Seq(Tasks)
            /\ DOMAIN Append(task_buffer, cur[t]) = 1 .. Len(task_buffer) + 1
            /\ DOMAIN task_buffer = 1 .. Len(task_buffer)
            /\ Len(task_buffer) \in Nat
            /\ \A i \in DOMAIN task_buffer :
                 Append(task_buffer, cur[t])[i] = task_buffer[i]
            /\ Append(task_buffer, cur[t])[Len(task_buffer) + 1] = cur[t]
        BY <2>a, <2>f, AppendElements
      <4> QED
        BY <3>1, <4>1
    <3>3. TypeOK'
      BY <1>a, <2>a, <2>y, <2>z, <3>1, <3>2 DEF TypeOK
    <3>4. HeldOnce'
      <4>1. \A i, j \in DOMAIN task_buffer' : task_buffer'[i] = task_buffer'[j] => i = j
        BY <1>a, <3>2 DEF HeldOnce
      <4>2. \A i \in DOMAIN task_buffer' :
              /\ task_buffer'[i] # wtask
              /\ \A u \in Threads : task_buffer'[i] # cur'[u]
        BY <1>a, <1>e, <2>a, <2>e, <3>2, NoneAssumption DEF HeldOnce
      <4>3. \A i \in DOMAIN task_buffer' :
              \A u \in Threads : \A j \in DOMAIN tasks[u] : task_buffer'[i] # tasks[u][j]
        BY <1>a, <3>2 DEF HeldOnce
      <4>4. \A u, v \in Threads : cur'[u] = cur'[v] /\ cur'[u] # None => u = v
        BY <1>a, <1>e, <2>e DEF HeldOnce
      <4>5. \A u \in Threads : cur'[u] = wtask => wtask = None
        BY <1>a, <1>e, <2>e DEF HeldOnce
      <4>6. \A u, v \in Threads : \A i \in DOMAIN tasks[u] : tasks[u][i] # cur'[v]
        BY <1>a, <1>e, <2>e DEF HeldOnce
      <4>7. wtask' = wtask /\ tasks' = tasks
        BY <2>z
      <4> QED
        BY <1>a, <4>1, <4>2, <4>3, <4>4, <4>5, <4>6, <4>7 DEF HeldOnce
    <3>5. Allocated'
      BY SMTT(60), <1>a, <2>a, <2>z, <3>1, <3>2 DEF Allocated, TypeOK
    <3> QED
      BY <3>3, <3>4, <3>5
  <2>c. ASSUME TaskBufferFull
        PROVE  TypeOK' /\ HeldOnce' /\ Allocated'
    <3>1. task_buffer' = task_buffer /\ line' = [line EXCEPT ![cur[t]] = 0]
      BY <1>31, <2>c DEF RecycleTask
    <3>2. TypeOK'
      <4>1. file' = file /\ file \in Seq(Line) /\ Len(file) \in Nat
        BY <1>b, <2>z
      <4>2. line' \in [Tasks -> 0 .. Len(file)]
        <5>1. 0 \in 0 .. Len(file)
          BY <4>1
        <5> QED
          BY <1>a, <3>1, <5>1 DEF TypeOK
      <4> QED
        BY <1>a, <2>a, <2>y, <2>z, <3>1, <4>1, <4>2 DEF TypeOK
    <3>3. HeldOnce'
      <4>1. \A u, v \in Threads : cur'[u] = cur'[v] /\ cur'[u] # None => u = v
        BY <1>a, <1>e, <2>e DEF HeldOnce
      <4>2. \A u \in Threads : cur'[u] = wtask => wtask = None
        BY <1>a, <1>e, <2>e DEF HeldOnce
      <4>3. \A u, v \in Threads : \A i \in DOMAIN tasks[u] : tasks[u][i] # cur'[v]
        BY <1>a, <1>e, <2>e DEF HeldOnce
      <4>4. \A i \in DOMAIN task_buffer : \A u \in Threads : task_buffer[i] # cur'[u]
        BY <1>a, <1>e, <2>e DEF HeldOnce
      <4>5. wtask' = wtask /\ tasks' = tasks /\ task_buffer' = task_buffer
        BY <2>z, <3>1
      <4> QED
        BY <1>a, <4>1, <4>2, <4>3, <4>4, <4>5 DEF HeldOnce
    <3>4. Allocated'
      <4>1. \A k \in Tasks : k # cur[t] => line'[k] = line[k]
        BY <1>a, <3>1 DEF TypeOK
      <4>2. wtask # None => wtask # cur[t] /\ wtask \in Tasks
        BY <1>a DEF HeldOnce, TypeOK
      <4>3. \A u \in Threads : cur'[u] # None => cur'[u] # cur[t] /\ cur'[u] \in Tasks
        BY <1>a, <1>d, <2>e DEF HeldOnce
      <4>4. \A u \in Threads : \A i \in DOMAIN tasks[u] : tasks[u][i] # cur[t]
        BY <1>a DEF HeldOnce
      <4>5. \A i \in DOMAIN task_buffer : task_buffer[i] # cur[t]
        BY <1>a DEF HeldOnce
      <4>6. \A u \in Threads : cur'[u] # None => cur'[u] = cur[u]
        BY <2>e
      <4> QED
        BY <1>a, <1>e, <2>z, <3>1, <4>1, <4>2, <4>3, <4>4, <4>5, <4>6 DEF Allocated
    <3> QED
      BY <3>2, <3>3, <3>4
  <2>1. TypeOK'
    BY <2>b, <2>c
  <2>2. ControlInv'
    BY SMTT(30), <1>a, <2>a, <2>x, <2>z DEF ControlInv, TypeOK
  <2>3. StartInv'
    BY <1>a, <2>a, <2>z DEF StartInv, TypeOK
  <2>4. HeldOnce'
    BY <2>b, <2>c
  <2>5. Allocated'
    BY <2>b, <2>c
  <2> QED
    BY <2>1, <2>2, <2>3, <2>4, <2>5 DEF TypeInv
<1>32. ASSUME UNCHANGED vars
     PROVE  TypeInv'
  <2>1. UNCHANGED <<file, nthreads, wpc, lineno, wt, wtask, all_threads, ioops,
                    rthread_map, rthread_buffer, rthread_mutex, task_buffer,
                    line, tasks, terminate, tpc, ret, cur, vfd, fds_map,
                    destroyed, done>>
    BY <1>32 DEF vars, options, worker, idle, recycling, fds
  <2>2. TypeOK'
    BY <1>a, <2>1 DEF TypeOK
  <2>3. ControlInv'
    BY <1>a, <2>1 DEF ControlInv
  <2>4. StartInv'
    BY <1>a, <2>1 DEF StartInv
  <2>5. HeldOnce'
    BY <1>a, <2>1 DEF HeldOnce
  <2>6. Allocated'
    BY <1>a, <2>1 DEF Allocated
  <2> QED
    BY <2>2, <2>3, <2>4, <2>5, <2>6 DEF TypeInv
<1> QED
  BY <1>1, <1>2, <1>3, <1>4, <1>5, <1>6, <1>7, <1>8, <1>9, <1>10, <1>11, <1>12, <1>13, <1>14, <1>15, <1>16, <1>17, <1>18, <1>19, <1>20, <1>21, <1>22, <1>23, <1>24, <1>25, <1>26, <1>27, <1>28, <1>29, <1>30, <1>31, <1>32 DEF Next, WorkerStep, PickThread,
     ThreadStep, IdleLoop, ProcessTask, Terminated

THEOREM TypeInvariance == Spec => []TypeInv
<1>1. Init => TypeInv
  BY InitTypeInv
<1>2. TypeInv /\ [Next]_vars => TypeInv'
  BY NextTypeInv
<1> QED
  BY <1>1, <1>2, PTL DEF Spec

(* Every variable keeps to its range (rworker.c, rthread.c and rioop.c).   *)
THEOREM TypeCorrect == Spec => []TypeOK
<1>1. TypeInv => TypeOK
  BY DEF TypeInv
<1> QED
  BY <1>1, TypeInvariance, PTL

-----------------------------------------------------------------------------
(* Steps that touch neither tasks nor lines keep the order.                *)
LEMMA OrderKept ==
  ASSUME OrderInv,
         UNCHANGED <<file, nthreads, lineno, wtask, line, tasks, cur, done>>,
         rthread_map' = rthread_map,
         wpc' = "insert" => wpc = "insert",
         wpc' \in {"task", "insert"} => Owner(Vsize) = wt',
         wpc' = "waitpop" => Unmapped,
         Dispatching' <=> Dispatching,
         \A t \in Threads : tpc'[t] \in Running <=> tpc[t] \in Running
  PROVE  OrderInv'
<1> USE DEF OrderInv
<1>0. /\ file' = file /\ nthreads' = nthreads /\ lineno' = lineno /\ wtask' = wtask
      /\ line' = line /\ tasks' = tasks /\ cur' = cur /\ done' = done
      /\ Limit' = Limit
  BY DEF Limit
<1>1. OwnerInv'
  BY <1>0 DEF OwnerInv, Owner, SingleThreaded, Vsize, Unmapped
<1>2. RankInv'
  BY <1>0 DEF RankInv
<1>3. MineInv'
  BY <1>0 DEF MineInv, Mine
<1>4. \A t \in Threads : \A j : Waiting(t, j)' <=> Waiting(t, j)
  BY <1>0 DEF Waiting
<1>5. \A j : Mine(j)' <=> Mine(j)
  BY <1>0 DEF Mine
<1>6. PendingInv'
  BY <1>0, <1>4, <1>5 DEF PendingInv
<1> QED
  BY <1>1, <1>2, <1>3, <1>6

(* A handler that returns takes its line from "in hand" to "replayed".     *)
LEMMA HandlerKeepsOrder ==
  ASSUME TypeInv, OrderInv, NEW t \in Threads, tpc[t] \in Running,
         UNCHANGED <<file, nthreads, wpc, lineno, wt, wtask, rthread_map>>,
         UNCHANGED <<line, tasks, cur>>,
         HandlerDone(t)
  PROVE  OrderInv'
<1> DEFINE i == line[cur[t]]
<1>0. /\ file' = file /\ nthreads' = nthreads /\ wpc' = wpc /\ lineno' = lineno
      /\ wt' = wt /\ wtask' = wtask /\ rthread_map' = rthread_map
      /\ line' = line /\ tasks' = tasks /\ cur' = cur
      /\ tpc' = [tpc EXCEPT ![t] = "recycle"] /\ tpc \in [Threads -> ThreadPCs]
      /\ done' = done \cup {i}
      /\ Limit' = Limit /\ (Dispatching' <=> Dispatching)
  BY DEF HandlerDone, Goto, Limit, Dispatching, TypeInv, TypeOK
<1>a. OwnerInv /\ RankInv /\ MineInv /\ PendingInv
  BY DEF OrderInv
<1>1. OwnerInv'
  BY <1>0, <1>a DEF OwnerInv, Owner, SingleThreaded, Vsize, Unmapped
<1>2. cur[t] # None /\ i \in 1 .. Len(file) /\ i <= Limit /\ lineno \in Nat
  BY SMTT(30), <1>a, HeldFacts DEF TypeInv, TypeOK, ControlInv, Busy, RankInv
<1>3. RankInv'
  <2>1. Limit \in Int /\ Len(file) \in Nat
    BY <1>2, FileFacts DEF Limit
  <2>2. i \in 1 .. Limit
    BY <1>2, <2>1
  <2>3. done' \subseteq 1 .. Limit
    BY <1>0, <1>a, <2>2 DEF RankInv
  <2> HIDE DEF i
  <2> QED
    BY <1>0, <1>a, <2>3 DEF RankInv
<1>4. MineInv'
  BY <1>0, <1>a DEF MineInv, Mine
<1>5. \A u \in Threads : u # t => tpc'[u] = tpc[u]
  BY <1>0
<1>6. ~Waiting(t, i)'
  BY <1>0, <1>a, <1>2, HeldFacts DEF Waiting, Running, RankInv
<1>7. \A u \in Threads : u # t => ~Waiting(u, i)
  BY <1>a, <1>2 DEF Waiting, OwnerInv, TypeInv, ControlInv, Busy
<1>8. \A u \in Threads : \A j : Waiting(u, j)' => Waiting(u, j)
  BY <1>0, <1>5 DEF Waiting, Running
<1>9. \A u \in Threads : \A j : Waiting(u, j) /\ j # i => Waiting(u, j)'
  BY <1>0, <1>5 DEF Waiting, Running
<1>10. \A u \in Threads : \A j \in done' : ~Waiting(u, j)'
  <2> SUFFICES ASSUME NEW u \in Threads, NEW j \in done', Waiting(u, j)'
               PROVE  FALSE
    OBVIOUS
  <2>1. Waiting(u, j)
    BY <1>8
  <2>2. j = i
    BY <1>0, <1>a, <2>1 DEF PendingInv
  <2>3. u = t
    BY <1>7, <2>1, <2>2
  <2> QED
    BY <1>6, <2>2, <2>3
<1>11. \A j \in 1 .. Limit' : Mine(j)' =>
         j \in done' \/ \E u \in Threads : Waiting(u, j)'
  <2>1. \A j : Mine(j)' <=> Mine(j)
    BY <1>0 DEF Mine
  <2> QED
    BY <1>0, <1>a, <1>9, <2>1 DEF PendingInv
<1> QED
  BY <1>1, <1>3, <1>4, <1>10, <1>11 DEF OrderInv, PendingInv

(* At the start nothing is handed over.                                    *)
THEOREM InitOrderInv == Init => OrderInv
  BY NumbersAssumption, NoneAssumption
     DEF Init, OrderInv, OwnerInv, RankInv, MineInv, PendingInv, Waiting, Limit,
         Dispatching, Running

(* Every step keeps the order, if rthread_map has room for every path.     *)
THEOREM NextOrderInv ==
  AllStorable /\ TypeInv /\ OrderInv /\ [Next]_vars => OrderInv'
<1> SUFFICES ASSUME AllStorable, TypeInv, OrderInv, [Next]_vars
             PROVE  OrderInv'
  OBVIOUS
<1> USE NumbersAssumption, NoneAssumption
<1>a. TypeOK /\ ControlInv /\ StartInv /\ HeldOnce /\ Allocated
  BY DEF TypeInv
<1>b. OwnerInv /\ RankInv /\ MineInv /\ PendingInv
  BY DEF OrderInv
<1>c. file \in Seq(Line) /\ Len(file) \in Nat /\ DOMAIN file = 1 .. Len(file)
  BY FileFacts
<1>d. Dispatching => lineno \in 1 .. Len(file) /\ Vsize \in Vsizes /\ Storable(Vsize)
  <2>1. ASSUME Dispatching
        PROVE  lineno \in 1 .. Len(file)
    BY <1>a, <1>c, <2>1 DEF Dispatching, ControlInv, TypeOK
  <2>2. \A i \in 1 .. Len(file) : file[i].vsize \in Vsizes /\ Storable(file[i].vsize)
    BY <1>a, <1>c, FileFacts DEF TypeOK, AllStorable
  <2> QED
    BY <2>1, <2>2 DEF Vsize
<1>e. \A u \in Threads : (tpc[u] \in Busy <=> cur[u] # None) /\ tpc \in [Threads -> ThreadPCs]
  BY <1>a DEF ControlInv, TypeOK
<1>f. /\ \A u \in Threads : cur[u] # None =>
           /\ cur[u] \in Tasks /\ line[cur[u]] \in 1 .. Len(file)
           /\ file[line[cur[u]]].vsize \in Vsizes
      /\ \A u \in Threads : \A i \in DOMAIN tasks[u] :
           /\ tasks[u][i] \in Tasks /\ line[tasks[u][i]] \in 1 .. Len(file)
           /\ file[line[tasks[u][i]]].vsize \in Vsizes
  BY HeldFacts, FileFacts
<1>1. ASSUME ReadLine
     PROVE  OrderInv'
  <2>1. /\ UNCHANGED <<file, nthreads, wtask, rthread_map, line, tasks, cur, tpc, done>>
        /\ lineno' = lineno + 1 /\ lineno \in Nat
        /\ ~Dispatching
        /\ wpc' = IF Mine(lineno + 1) THEN "pick" ELSE "read"
    BY <1>1, <1>a DEF ReadLine, options, idle, recycling, fds, Dispatching, TypeOK
  <2>2. Limit = lineno /\ Limit' = IF Mine(lineno + 1) THEN lineno ELSE lineno + 1
    BY <2>1 DEF Limit, Dispatching
  <2>3. OwnerInv'
    BY <1>b, <2>1 DEF OwnerInv, Owner, SingleThreaded
  <2>4. RankInv'
    BY <1>b, <1>f, <2>1, <2>2 DEF RankInv
  <2>5. \A j : Mine(j)' <=> Mine(j)
    BY <2>1 DEF Mine
  <2>6. MineInv'
    BY <1>b, <2>1, <2>5 DEF MineInv, Dispatching
  <2>7. \A u \in Threads : \A j : Waiting(u, j)' <=> Waiting(u, j)
    BY <2>1 DEF Waiting
  <2>8. \A j \in 1 .. Limit' : Mine(j) => j \in 1 .. Limit
    BY <2>1, <2>2
  <2>9. PendingInv'
    BY <1>b, <2>1, <2>5, <2>7, <2>8 DEF PendingInv
  <2> QED
    BY <2>3, <2>4, <2>6, <2>9 DEF OrderInv
<1>2. ASSUME EndOfLines
     PROVE  OrderInv'
  BY <1>2, OrderKept DEF EndOfLines, options, worker, idle, recycling, fds, Dispatching
<1>3. ASSUME UseSingleThread
     PROVE  OrderInv'
  <2>1. 1 \in Threads /\ tpc[1] \in {"none", "inline"}
    BY <1>3, <1>a DEF UseSingleThread, TypeOK, StartInv, SingleThreaded, Threads
  <2>2. Owner(Vsize) = wt'
    BY <1>3 DEF UseSingleThread, Owner
  <2>3. \A u \in Threads : tpc'[u] \in Running <=> tpc[u] \in Running
    BY <1>3, <1>e, <2>1 DEF UseSingleThread, Running
  <2> QED
    BY <1>3, <2>1, <2>2, <2>3, OrderKept DEF UseSingleThread, options, worker, idle, recycling, fds, Dispatching
<1>4. ASSUME PickMapped
     PROVE  OrderInv'
  <2>1. wt' = rthread_map[Vsize] /\ ~SingleThreaded
    BY <1>4 DEF PickMapped
  <2>2. Owner(Vsize) = wt'
    BY <2>1 DEF Owner
  <2> QED
    BY <1>4, <2>1, <2>2, OrderKept DEF PickMapped, options, worker, idle, recycling, fds, Dispatching
<1>5. ASSUME AwaitThread
     PROVE  OrderInv'
  BY <1>5, OrderKept DEF AwaitThread, options, worker, idle, recycling, fds, Dispatching, Unmapped
<1>6. ASSUME InlineDone
     PROVE  OrderInv'
  BY <1>6, OrderKept DEF InlineDone, options, worker, idle, recycling, fds, Dispatching
<1>7. ASSUME TerminateThread
     PROVE  OrderInv'
  BY <1>7, OrderKept DEF TerminateThread, options, worker, idle, recycling, fds, Dispatching
<1>8. ASSUME JoinThread
     PROVE  OrderInv'
  <2>3. \A u \in Threads : tpc'[u] \in Running <=> tpc[u] \in Running
    BY <1>8, <1>e DEF JoinThread, Running
  <2> QED
    BY <1>8, <2>3, OrderKept DEF JoinThread, options, worker, idle, recycling, fds, Dispatching
<1>9. ASSUME Finish
     PROVE  OrderInv'
  BY <1>9, OrderKept DEF Finish, options, worker, idle, recycling, fds, Dispatching
<1>10. ASSUME RecycleThread
     PROVE  OrderInv'
  <2>1. /\ UNCHANGED <<file, nthreads, lineno, wtask, line, tasks, cur, done>>
        /\ ~SingleThreaded /\ rthread_map[Vsize] = None
        /\ wt' \in Threads
        /\ rthread_map' = [rthread_map EXCEPT ![Vsize] = wt']
        /\ wpc' = "task" /\ wpc \in {"pick", "waitpop"}
    <3>1. Head(rthread_buffer) \in Threads
      BY <1>10, <1>a, TailElements DEF RecycleThread, TypeOK
    <3>2. rthread_map[Vsize] = None /\ ~SingleThreaded
      BY <1>10, <1>b DEF RecycleThread, Unmapped, OwnerInv
    <3> QED
      BY <1>10, <1>d, <3>1, <3>2
         DEF RecycleThread, MapVsize, options, recycling, fds, Dispatching
  <2>2. \A u \in Threads : tpc'[u] \in Running <=> tpc[u] \in Running
    BY <1>10, <1>a, <1>e DEF RecycleThread, Running, StartInv
  <2>3. Dispatching /\ Dispatching' /\ Limit' = Limit
    BY <2>1 DEF Dispatching, Limit
  <2>4. \A v \in Vsizes : Owner(v) \in Threads => Owner(v)' = Owner(v)
    BY <1>a, <2>1 DEF Owner, SingleThreaded, TypeOK, Threads
  <2>5. Owner(Vsize)' = wt'
    <3>1. Vsize' = Vsize
      BY <2>1 DEF Vsize
    <3>2. nthreads' = nthreads /\ rthread_map'[Vsize] = wt'
      BY <1>a, <1>d, <2>1, <2>3 DEF TypeOK
    <3> QED
      BY <2>1, <3>1, <3>2 DEF Owner, SingleThreaded
  <2>6. OwnerInv'
    BY <1>b, <1>f, <2>1, <2>4, <2>5 DEF OwnerInv, Vsize, SingleThreaded
  <2>7. RankInv'
    BY <1>b, <2>1, <2>3 DEF RankInv
  <2>8. MineInv'
    BY <1>b, <2>1, <2>3 DEF MineInv, Mine
  <2>9. \A u \in Threads : \A j : Waiting(u, j)' <=> Waiting(u, j)
    BY <2>1, <2>2 DEF Waiting
  <2>10. \A j : Mine(j)' <=> Mine(j)
    BY <2>1 DEF Mine
  <2>11. PendingInv'
    BY <1>b, <2>1, <2>3, <2>9, <2>10 DEF PendingInv
  <2> QED
    BY <2>6, <2>7, <2>8, <2>11 DEF OrderInv
<1>11. ASSUME CreateThread
     PROVE  OrderInv'
  <2>1. /\ UNCHANGED <<file, nthreads, lineno, wtask, line, tasks, cur, done>>
        /\ ~SingleThreaded /\ rthread_map[Vsize] = None
        /\ wt' \in Threads
        /\ rthread_map' = [rthread_map EXCEPT ![Vsize] = wt']
        /\ wpc' = "task" /\ wpc \in {"pick", "waitpop"}
        /\ wt' = Len(all_threads) + 1 /\ Len(all_threads) \in Nat /\ wpc = "pick"
    <3>1. Len(all_threads) \in Nat /\ Len(all_threads) + 1 \in Threads
      BY SMTT(30), <1>11, <1>a DEF CreateThread, TypeOK, Threads
    <3> QED
      BY <1>11, <1>d, <3>1
         DEF CreateThread, Unmapped, MapVsize, options, recycling, fds, Dispatching
  <2>2. \A u \in Threads : tpc'[u] \in Running <=> tpc[u] \in Running
    BY <1>11, <1>a, <1>e, <2>1 DEF CreateThread, Running, StartInv
  <2>3. Dispatching /\ Dispatching' /\ Limit' = Limit
    BY <2>1 DEF Dispatching, Limit
  <2>4. \A v \in Vsizes : Owner(v) \in Threads => Owner(v)' = Owner(v)
    BY <1>a, <2>1 DEF Owner, SingleThreaded, TypeOK, Threads
  <2>5. Owner(Vsize)' = wt'
    <3>1. Vsize' = Vsize
      BY <2>1 DEF Vsize
    <3>2. nthreads' = nthreads /\ rthread_map'[Vsize] = wt'
      BY <1>a, <1>d, <2>1, <2>3 DEF TypeOK
    <3> QED
      BY <2>1, <3>1, <3>2 DEF Owner, SingleThreaded
  <2>6. OwnerInv'
    BY <1>b, <1>f, <2>1, <2>4, <2>5 DEF OwnerInv, Vsize, SingleThreaded
  <2>7. RankInv'
    BY <1>b, <2>1, <2>3 DEF RankInv
  <2>8. MineInv'
    BY <1>b, <2>1, <2>3 DEF MineInv, Mine
  <2>9. \A u \in Threads : \A j : Waiting(u, j)' <=> Waiting(u, j)
    BY <2>1, <2>2 DEF Waiting
  <2>10. \A j : Mine(j)' <=> Mine(j)
    BY <2>1 DEF Mine
  <2>11. PendingInv'
    BY <1>b, <2>1, <2>3, <2>9, <2>10 DEF PendingInv
  <2> QED
    BY <2>6, <2>7, <2>8, <2>11 DEF OrderInv
<1>12. ASSUME GetTask
     PROVE  OrderInv'
  <2>1. /\ UNCHANGED <<file, nthreads, lineno, wt, rthread_map, tasks, cur, tpc, done>>
        /\ wpc = "task" /\ wpc' = "insert"
    BY <1>12 DEF GetTask, options, idle, fds
  <2>2. /\ wtask' \in Tasks /\ line' = [line EXCEPT ![wtask'] = lineno]
        /\ \A u \in Threads : cur[u] # wtask'
        /\ \A u \in Threads : \A i \in DOMAIN tasks[u] : tasks[u][i] # wtask'
    BY <1>12, GetTaskEffect
  <2>3. /\ line'[wtask'] = lineno
        /\ \A u \in Threads : cur[u] # None => line'[cur[u]] = line[cur[u]]
        /\ \A u \in Threads : \A i \in DOMAIN tasks[u] : line'[tasks[u][i]] = line[tasks[u][i]]
    BY <1>a, <1>f, <2>2 DEF TypeOK
  <2>4. Limit' = Limit /\ Dispatching /\ Dispatching'
    BY <2>1 DEF Limit, Dispatching
  <2>5. OwnerInv'
    BY <1>b, <2>1, <2>3 DEF OwnerInv, Owner, SingleThreaded, Vsize
  <2>6. RankInv'
    BY <1>b, <2>1, <2>3, <2>4 DEF RankInv
  <2>7. MineInv'
    BY <1>b, <2>1, <2>3, <2>4 DEF MineInv, Mine
  <2>8. \A u \in Threads : \A j : Waiting(u, j)' <=> Waiting(u, j)
    BY <1>e, <2>1, <2>3 DEF Waiting, Busy
  <2>9. \A j : Mine(j)' <=> Mine(j)
    BY <2>1 DEF Mine
  <2>10. PendingInv'
    BY <1>b, <2>1, <2>4, <2>8, <2>9 DEF PendingInv
  <2> QED
    BY <2>5, <2>6, <2>7, <2>10 DEF OrderInv
<1>13. ASSUME InsertTask
     PROVE  OrderInv'
  <2>1. /\ UNCHANGED <<file, nthreads, lineno, wt, rthread_map, line, cur, tpc, done>>
        /\ wpc = "insert" /\ wpc' = "read" /\ ~SingleThreaded
    BY <1>13 DEF InsertTask, options, idle, recycling, fds
  <2>2. /\ wt \in Threads /\ wtask \in Tasks
        /\ DOMAIN tasks[wt] = 1 .. Len(tasks[wt]) /\ Len(tasks[wt]) \in Nat
        /\ \A t \in Threads : \A i \in DOMAIN tasks[t] :
             i \in DOMAIN tasks'[t] /\ tasks'[t][i] = tasks[t][i]
        /\ \E i \in DOMAIN tasks'[wt] : tasks'[wt][i] = wtask
        /\ \A t \in Threads : \A i \in DOMAIN tasks'[t] :
             \/ i \in DOMAIN tasks[t] /\ tasks'[t][i] = tasks[t][i]
             \/ t = wt /\ i = Len(tasks[wt]) + 1 /\ tasks'[t][i] = wtask
    BY <1>13, InsertTaskEffect
  <2>3. /\ Limit = lineno - 1 /\ Limit' = lineno /\ Dispatching /\ ~Dispatching'
        /\ lineno \in 1 .. Len(file)
    BY <1>d, <2>1 DEF Limit, Dispatching
  <2>4. line[wtask] = lineno /\ Owner(file[lineno].vsize) = wt /\ Mine(lineno)
    BY <1>b, <2>1, <2>3 DEF RankInv, OwnerInv, MineInv, Vsize
  <2>5. OwnerInv'
    BY <1>b, <2>1, <2>2, <2>4 DEF OwnerInv, Owner, SingleThreaded
  <2>6. RankInv'
    <3>1. done \subseteq 1 .. lineno
      BY <1>b, <2>3 DEF RankInv
    <3>2. \A t \in Threads : cur[t] # None =>
            /\ line[cur[t]] <= lineno
            /\ \A i \in DOMAIN tasks'[t] : line[cur[t]] < line[tasks'[t][i]]
      BY <1>b, <1>f, <2>2, <2>3, <2>4 DEF RankInv
    <3>3. \A t \in Threads : \A i \in DOMAIN tasks'[t] : line[tasks'[t][i]] <= lineno
      BY SMTT(30), <1>b, <1>f, <2>2, <2>3, <2>4 DEF RankInv
    <3>4. \A t \in Threads : \A i, j \in DOMAIN tasks'[t] :
            i < j => line[tasks'[t][i]] < line[tasks'[t][j]]
      BY SMTT(30), <1>b, <1>f, <2>2, <2>3, <2>4 DEF RankInv
    <3> QED
      BY <2>1, <2>3, <3>1, <3>2, <3>3, <3>4 DEF RankInv
  <2>7. \A j : Mine(j)' <=> Mine(j)
    BY <2>1 DEF Mine
  <2>8. MineInv'
    BY <1>b, <2>1, <2>2, <2>3, <2>4, <2>7 DEF MineInv
  <2>9. \A u \in Threads : \A j :
          Waiting(u, j)' <=> Waiting(u, j) \/ (u = wt /\ j = lineno)
    BY <2>1, <2>2, <2>4 DEF Waiting
  <2>10. lineno \notin done
    BY <1>b, <2>3 DEF RankInv
  <2>11. \A j \in 1 .. lineno : j \in 1 .. Limit \/ j = lineno
    BY <2>3
  <2>12. PendingInv'
    BY <1>b, <2>1, <2>2, <2>3, <2>7, <2>9, <2>10, <2>11 DEF PendingInv
  <2> QED
    BY <2>5, <2>6, <2>8, <2>12 DEF OrderInv
<1>14. ASSUME RunInline
     PROVE  OrderInv'
  <2>1. /\ UNCHANGED <<file, nthreads, lineno, wt, rthread_map, line, tasks, done>>
        /\ wpc = "insert" /\ wpc' = "inline" /\ SingleThreaded
        /\ cur' = [cur EXCEPT ![wt] = wtask] /\ tpc' = [tpc EXCEPT ![wt] = "run"]
    BY <1>14 DEF RunInline, options, idle, recycling, fds
  <2>2. /\ wt \in Threads /\ wtask \in Tasks
        /\ \A u \in Threads : tasks[u] = << >>
        /\ tpc[wt] \in {"none", "inline"}
    <3>1. all_threads = << >>
      BY <1>a, <2>1 DEF StartInv
    <3>2. wt \in Threads /\ wtask \in Tasks
      BY <1>a, <2>1 DEF ControlInv, TypeOK
    <3>3. wt > Len(all_threads)
      BY <3>1, <3>2 DEF Threads
    <3>4. tpc[wt] \in {"none", "inline"}
      BY <1>a, <2>1, <3>2, <3>3 DEF StartInv
    <3> QED
      BY <1>b, <2>1, <3>2, <3>4 DEF OwnerInv
  <2>3. /\ \A u \in Threads : cur'[u] = IF u = wt THEN wtask ELSE cur[u]
        /\ \A u \in Threads : tpc'[u] = IF u = wt THEN "run" ELSE tpc[u]
    BY <1>a, <2>1, <2>2 DEF TypeOK
  <2>4. /\ Limit = lineno - 1 /\ Limit' = lineno /\ Dispatching /\ ~Dispatching'
        /\ lineno \in 1 .. Len(file)
    BY <1>d, <2>1 DEF Limit, Dispatching
  <2>5. line[wtask] = lineno /\ Owner(file[lineno].vsize) = wt /\ Mine(lineno)
    BY <1>b, <2>1, <2>4 DEF RankInv, OwnerInv, MineInv, Vsize
  <2>6. OwnerInv'
    BY <1>b, <2>1, <2>2, <2>3, <2>5 DEF OwnerInv, Owner, SingleThreaded
  <2>7. RankInv'
    <3>1. done \subseteq 1 .. lineno
      BY <1>b, <2>4 DEF RankInv
    <3>2. \A u \in Threads : cur'[u] # None => line[cur'[u]] <= lineno
      BY <1>b, <1>f, <2>3, <2>4, <2>5 DEF RankInv
    <3> QED
      BY <2>1, <2>2, <2>4, <3>1, <3>2 DEF RankInv
  <2>8. \A j : Mine(j)' <=> Mine(j)
    BY <2>1 DEF Mine
  <2>9. MineInv'
    BY <1>b, <2>1, <2>3, <2>4, <2>5, <2>8 DEF MineInv
  <2>10. \A u \in Threads : \A j :
           Waiting(u, j)' <=> Waiting(u, j) \/ (u = wt /\ j = lineno)
    BY <2>1, <2>2, <2>3, <2>5 DEF Waiting, Running
  <2>11. lineno \notin done
    BY <1>b, <2>4 DEF RankInv
  <2>12. \A j \in 1 .. lineno : j \in 1 .. Limit \/ j = lineno
    BY <2>4
  <2>13. PendingInv'
    BY <1>b, <2>1, <2>2, <2>4, <2>8, <2>10, <2>11, <2>12 DEF PendingInv
  <2> QED
    BY <2>6, <2>7, <2>9, <2>13 DEF OrderInv
<1>15. ASSUME NEW t \in Threads, TakeTask(t)
     PROVE  OrderInv'
  <2>1. /\ UNCHANGED <<file, nthreads, wpc, lineno, wt, wtask, rthread_map, line, done>>
        /\ Limit' = Limit /\ (Dispatching' <=> Dispatching)
    BY <1>15 DEF TakeTask, options, worker, idle, recycling, fds, Limit, Dispatching
  <2>2. /\ tasks[t] # << >> /\ cur[t] = None /\ tpc[t] \in {"drain", "last"}
        /\ 1 \in DOMAIN tasks[t] /\ DOMAIN tasks[t] = 1 .. Len(tasks[t])
        /\ Len(tasks[t]) \in Nat /\ tasks[t][1] \in Tasks
        /\ tpc' = [tpc EXCEPT ![t] = "run"]
        /\ \A u \in Threads : \A i \in DOMAIN tasks'[u] :
             \/ u # t /\ i \in DOMAIN tasks[u] /\ tasks'[u][i] = tasks[u][i]
             \/ /\ u = t /\ i \in Nat /\ i + 1 \in DOMAIN tasks[u] /\ i + 1 # 1
                /\ tasks'[u][i] = tasks[u][i + 1]
        /\ \A u \in Threads : cur'[u] = IF u = t THEN tasks[t][1] ELSE cur[u]
    BY <1>15, TakeTaskEffect
  <2>3. /\ \A u \in Threads : tpc'[u] = IF u = t THEN "run" ELSE tpc[u]
        /\ \A i \in DOMAIN tasks[t] :
             i = 1 \/ (i - 1 \in DOMAIN tasks'[t] /\ tasks'[t][i - 1] = tasks[t][i])
        /\ \A u \in Threads : u # t => tasks'[u] = tasks[u]
    <3>1. /\ tasks' = [tasks EXCEPT ![t] = Tail(tasks[t])]
          /\ DOMAIN Tail(tasks[t]) = 1 .. Len(tasks[t]) - 1
          /\ \A i \in DOMAIN Tail(tasks[t]) : Tail(tasks[t])[i] = tasks[t][i + 1]
      BY <1>15, TakeTaskEffect
    <3>2. tasks'[t] = Tail(tasks[t]) /\ \A u \in Threads : u # t => tasks'[u] = tasks[u]
      BY <1>a, <3>1 DEF TypeOK
    <3> QED
      BY SMTT(30), <1>e, <2>2, <3>1, <3>2
  <2>4. OwnerInv'
    <3>1. ~SingleThreaded
      BY <1>b, <2>2 DEF OwnerInv
    <3> QED
      BY <1>b, <2>1, <2>2, <3>1 DEF OwnerInv, Owner, SingleThreaded, Vsize, Unmapped
  <2>5. RankInv'
    <3>1. \A u \in Threads : cur'[u] # None =>
            /\ line[cur'[u]] <= Limit
            /\ \A i \in DOMAIN tasks'[u] : line[cur'[u]] < line[tasks'[u][i]]
      BY SMTT(30), <1>b, <2>2 DEF RankInv
    <3>2. \A u \in Threads : \A i \in DOMAIN tasks'[u] :
            /\ line[tasks'[u][i]] <= Limit
            /\ \A j \in DOMAIN tasks'[u] : i < j => line[tasks'[u][i]] < line[tasks'[u][j]]
      BY SMTT(30), <1>b, <2>2 DEF RankInv
    <3> QED
      BY <1>b, <2>1, <3>1, <3>2 DEF RankInv
  <2>6. \A j : Mine(j)' <=> Mine(j)
    BY <2>1 DEF Mine
  <2>7. MineInv'
    BY <1>b, <2>1, <2>2, <2>6 DEF MineInv
  <2>8. \A u \in Threads : \A j : Waiting(u, j)' <=> Waiting(u, j)
    <3> SUFFICES ASSUME NEW u \in Threads, NEW j
                 PROVE  Waiting(u, j)' <=> Waiting(u, j)
      OBVIOUS
    <3>1. CASE u # t
      BY <2>1, <2>2, <2>3, <3>1 DEF Waiting
    <3>2. CASE u = t
      <4>1. Waiting(t, j)' <=>
              line[tasks[t][1]] = j \/ \E i \in DOMAIN tasks'[t] : line[tasks'[t][i]] = j
        BY <2>1, <2>2, <2>3 DEF Waiting, Running
      <4>2. Waiting(t, j) <=> \E i \in DOMAIN tasks[t] : line[tasks[t][i]] = j
        BY <2>2 DEF Waiting, Running
      <4>3. \A i \in DOMAIN tasks'[t] :
              i + 1 \in DOMAIN tasks[t] /\ tasks'[t][i] = tasks[t][i + 1]
        BY <2>2
      <4>4. ASSUME Waiting(t, j)'
            PROVE  Waiting(t, j)
        BY <2>2, <4>1, <4>2, <4>3, <4>4
      <4>5. ASSUME Waiting(t, j)
            PROVE  Waiting(t, j)'
        <5>1. PICK i \in DOMAIN tasks[t] : line[tasks[t][i]] = j
          BY <4>2, <4>5
        <5>2. CASE i = 1
          BY <4>1, <5>1, <5>2
        <5>3. CASE i # 1
          BY <2>3, <4>1, <5>1, <5>3
        <5> QED
          BY <5>2, <5>3
      <4> QED
        BY <3>2, <4>4, <4>5
    <3> QED
      BY <3>1, <3>2
  <2>9. PendingInv'
    BY <1>b, <2>1, <2>6, <2>8 DEF PendingInv
  <2> QED
    BY <2>4, <2>5, <2>7, <2>9 DEF OrderInv
<1>16. ASSUME NEW t \in Threads, LeaveWait(t)
     PROVE  OrderInv'
  <2>1. \A u \in Threads : tpc'[u] \in Running <=> tpc[u] \in Running
    BY <1>16, <1>e DEF LeaveWait, Goto, Running
  <2> QED
    BY <1>16, <1>b, <2>1, OrderKept
       DEF LeaveWait, options, worker, idle, recycling, fds, Dispatching, OwnerInv, Owner, Vsize
<1>17. ASSUME NEW t \in Threads, Drained(t)
     PROVE  OrderInv'
  <2>1. \A u \in Threads : tpc'[u] \in Running <=> tpc[u] \in Running
    BY <1>17, <1>e DEF Drained, Goto, Running
  <2> QED
    BY <1>17, <1>b, <2>1, OrderKept
       DEF Drained, options, worker, idle, recycling, fds, Dispatching, OwnerInv, Owner, Vsize
<1>18. ASSUME NEW t \in Threads, Idle(t)
     PROVE  OrderInv'
  <2>1. \A u \in Threads : tpc'[u] \in Running <=> tpc[u] \in Running
    BY <1>18, <1>e DEF Idle, Goto, Running
  <2> QED
    BY <1>18, <1>b, <2>1, OrderKept
       DEF Idle, options, worker, idle, recycling, fds, Dispatching, OwnerInv, Owner, Vsize
<1>19. ASSUME NEW t \in Threads, Recheck(t)
     PROVE  OrderInv'
  <2>1. \A u \in Threads : tpc'[u] \in Running <=> tpc[u] \in Running
    BY <1>19, <1>e DEF Recheck, Goto, Running
  <2> QED
    BY <1>19, <1>b, <2>1, OrderKept
       DEF Recheck, options, worker, idle, recycling, fds, Dispatching, OwnerInv, Owner, Vsize
<1>20. ASSUME NEW t \in Threads, LockRthreadBuffer(t)
     PROVE  OrderInv'
  <2>1. \A u \in Threads : tpc'[u] \in Running <=> tpc[u] \in Running
    BY <1>20, <1>e DEF LockRthreadBuffer, Goto, Running
  <2> QED
    BY <1>20, <1>b, <2>1, OrderKept
       DEF LockRthreadBuffer, options, worker, idle, recycling, fds, Dispatching, OwnerInv, Owner, Vsize
<1>21. ASSUME NEW t \in Threads, LookLocked(t)
     PROVE  OrderInv'
  <2>1. \A u \in Threads : tpc'[u] \in Running <=> tpc[u] \in Running
    BY <1>21, <1>e DEF LookLocked, Goto, Running
  <2> QED
    BY <1>21, <1>b, <2>1, OrderKept
       DEF LookLocked, options, worker, idle, recycling, fds, Dispatching, OwnerInv, Owner, Vsize
<1>22. ASSUME NEW t \in Threads, Offer(t)
     PROVE  OrderInv'
  <2>1. \A u \in Threads : tpc'[u] \in Running <=> tpc[u] \in Running
    BY <1>22, <1>e DEF Offer, Goto, Running
  <2> QED
    BY <1>22, <1>b, <2>1, OrderKept
       DEF Offer, options, worker, idle, recycling, fds, Dispatching, OwnerInv, Owner, Vsize
<1>23. ASSUME NEW t \in Threads, CheckTerminate(t)
     PROVE  OrderInv'
  <2>1. \A u \in Threads : tpc'[u] \in Running <=> tpc[u] \in Running
    BY <1>23, <1>e DEF CheckTerminate, Goto, Running
  <2> QED
    BY <1>23, <1>b, <2>1, OrderKept
       DEF CheckTerminate, options, worker, idle, recycling, fds, Dispatching, OwnerInv, Owner, Vsize
<1>24. ASSUME NEW t \in Threads, Exit(t)
     PROVE  OrderInv'
  <2>1. \A u \in Threads : tpc'[u] \in Running <=> tpc[u] \in Running
    BY <1>24, <1>e DEF Exit, Goto, Running
  <2> QED
    BY <1>24, <1>b, <2>1, OrderKept
       DEF Exit, options, worker, idle, recycling, fds, Dispatching, OwnerInv, Owner, Vsize
<1>25. ASSUME NEW t \in Threads, PathOp(t)
     PROVE  OrderInv'
  BY <1>25, HandlerKeepsOrder
     DEF PathOp, Running, options, worker, idle, recycling, fds
<1>26. ASSUME NEW t \in Threads, Open(t)
     PROVE  OrderInv'
  BY <1>26, HandlerKeepsOrder
     DEF Open, Running, options, worker, idle, recycling, fds
<1>27. ASSUME NEW t \in Threads, UseFd(t)
     PROVE  OrderInv'
  BY <1>27, HandlerKeepsOrder
     DEF UseFd, Running, options, worker, idle, recycling, fds
<1>28. ASSUME NEW t \in Threads, DestroyFd(t)
     PROVE  OrderInv'
  BY <1>28, HandlerKeepsOrder
     DEF DestroyFd, Running, options, worker, idle, recycling, fds
<1>29. ASSUME NEW t \in Threads, LookupFd(t)
     PROVE  OrderInv'
  <2>1. CASE HandlerDone(t)
    BY <1>29, <2>1, HandlerKeepsOrder
       DEF LookupFd, Running, options, worker, idle, recycling, fds
  <2>2. CASE Goto(t, "use") /\ UNCHANGED done
    <3>1. \A u \in Threads : tpc'[u] \in Running <=> tpc[u] \in Running
      BY <1>29, <1>e, <2>2 DEF LookupFd, Goto, Running
    <3> QED
      BY <1>29, <1>b, <2>2, <3>1, OrderKept
         DEF LookupFd, options, worker, idle, recycling, fds, Dispatching, OwnerInv, Owner, Vsize
  <2> QED
    BY <1>29, <2>1, <2>2 DEF LookupFd
<1>30. ASSUME NEW t \in Threads, UnsetFd(t)
     PROVE  OrderInv'
  <2>1. CASE HandlerDone(t)
    BY <1>30, <2>1, HandlerKeepsOrder
       DEF UnsetFd, Running, options, worker, idle, recycling, fds
  <2>2. CASE Goto(t, "close") /\ UNCHANGED done
    <3>1. \A u \in Threads : tpc'[u] \in Running <=> tpc[u] \in Running
      BY <1>30, <1>e, <2>2 DEF UnsetFd, Goto, Running
    <3> QED
      BY <1>30, <1>b, <2>2, <3>1, OrderKept
         DEF UnsetFd, options, worker, idle, recycling, fds, Dispatching, OwnerInv, Owner, Vsize
  <2> QED
    BY <1>30, <2>1, <2>2 DEF UnsetFd
<1>31. ASSUME NEW t \in Threads, RecycleTask(t)
     PROVE  OrderInv'
  <2>1. /\ UNCHANGED <<file, nthreads, wpc, lineno, wt, wtask, rthread_map, tasks, done>>
        /\ Limit' = Limit /\ (Dispatching' <=> Dispatching)
    BY <1>31 DEF RecycleTask, options, worker, idle, fds, Limit, Dispatching
  <2>2. /\ tpc[t] = "recycle" /\ cur[t] \in Tasks
        /\ \A k \in Tasks : k # cur[t] => line'[k] = line[k]
    BY <1>31, <1>a, <1>f DEF RecycleTask, TypeOK, ControlInv, Busy
  <2>3. /\ \A u \in Threads : cur'[u] = IF u = t THEN None ELSE cur[u]
        /\ \A u \in Threads : tpc'[u] = IF u = t THEN ret[t] ELSE tpc[u]
        /\ ret[t] \notin Running
    BY <1>31, <1>a DEF RecycleTask, Goto, TypeOK, Running
  <2>4. /\ wtask # None => line'[wtask] = line[wtask]
        /\ \A u \in Threads : cur'[u] # None =>
             cur[u] # None /\ cur'[u] = cur[u] /\ line'[cur'[u]] = line[cur[u]]
        /\ \A u \in Threads : \A i \in DOMAIN tasks[u] : line'[tasks[u][i]] = line[tasks[u][i]]
    BY SMTT(30), <1>a, <1>f, <2>2, <2>3 DEF HeldOnce, TypeOK
  <2>5. OwnerInv'
    BY <1>b, <2>1, <2>4 DEF OwnerInv, Owner, SingleThreaded, Vsize, Unmapped
  <2>6. RankInv'
    BY <1>a, <1>b, <2>1, <2>4 DEF RankInv, ControlInv
  <2>7. \A j : Mine(j)' <=> Mine(j)
    BY <2>1 DEF Mine
  <2>8. MineInv'
    BY <1>b, <2>1, <2>4, <2>7 DEF MineInv
  <2>9. \A u \in Threads : \A j : Waiting(u, j)' <=> Waiting(u, j)
    BY <1>e, <2>1, <2>2, <2>3, <2>4 DEF Waiting, Busy, Running
  <2>10. PendingInv'
    BY <1>b, <2>1, <2>7, <2>9 DEF PendingInv
  <2> QED
    BY <2>5, <2>6, <2>8, <2>10 DEF OrderInv
<1>32. ASSUME UNCHANGED vars
     PROVE  OrderInv'
  BY <1>32, <1>b, OrderKept
     DEF vars, options, worker, idle, recycling, fds, Dispatching, OwnerInv, Owner, Vsize
<1> QED
  BY <1>1, <1>2, <1>3, <1>4, <1>5, <1>6, <1>7, <1>8, <1>9, <1>10, <1>11, <1>12, <1>13, <1>14, <1>15, <1>16, <1>17, <1>18, <1>19, <1>20, <1>21, <1>22, <1>23, <1>24, <1>25, <1>26, <1>27, <1>28, <1>29, <1>30, <1>31, <1>32 DEF Next, WorkerStep, PickThread,
     ThreadStep, IdleLoop, ProcessTask, Terminated

(* The order holds throughout.                                             *)
THEOREM OrderInvariance ==
  ASSUME AllStorable
  PROVE  Spec => [](TypeInv /\ OrderInv)
<1>1. Init => OrderInv
  BY InitOrderInv
<1>2. TypeInv /\ OrderInv /\ [Next]_vars => OrderInv'
  BY NextOrderInv
<1> QED
  BY <1>1, <1>2, TypeInvariance, PTL DEF Spec

(* A line of another path's owner cannot be waiting here, and the owner's  *)
(* lines wait in order: so nothing before a running line is outstanding.   *)
LEMMA OrderGivesVsizeOrder ==
  ASSUME TypeInv, OrderInv
  PROVE  VsizeOrder
<1> SUFFICES ASSUME NEW t \in Threads, tpc[t] \in Running
             PROVE  /\ line[cur[t]] > 0 /\ line[cur[t]] \notin done
                    /\ \A j \in 1 .. line[cur[t]] - 1 :
                         file[j].vsize = file[line[cur[t]]].vsize => j \in done
  BY DEF VsizeOrder
<1> DEFINE i == line[cur[t]]
<1>1. /\ cur[t] # None /\ i \in 1 .. Len(file) /\ i <= Limit /\ Len(file) \in Nat
      /\ Limit \in Int /\ Mine(i)
      /\ Owner(file[i].vsize) = t
  BY SMTT(30), HeldFacts, FileFacts
     DEF TypeInv, TypeOK, ControlInv, OrderInv, OwnerInv, RankInv, MineInv, Limit, Busy
<1>2. i \notin done
  BY DEF OrderInv, PendingInv, Waiting
<1>3. ASSUME NEW j \in 1 .. i - 1, file[j].vsize = file[i].vsize
      PROVE  j \in done
  <2> SUFFICES ASSUME j \notin done
               PROVE  FALSE
    OBVIOUS
  <2>1. j \in 1 .. Limit /\ j < i
    BY <1>1
  <2>2. Mine(j)
    BY <1>1, <1>3 DEF Mine
  <2>3. PICK u \in Threads : Waiting(u, j)
    BY <2>1, <2>2 DEF OrderInv, PendingInv
  <2>4. CASE tpc[u] \in Running /\ line[cur[u]] = j
    <3>1. Owner(file[j].vsize) = u
      BY <2>4 DEF OrderInv, OwnerInv, TypeInv, ControlInv, Busy
    <3> QED
      BY <1>1, <1>3, <2>1, <2>4, <3>1
  <2>5. CASE \E k \in DOMAIN tasks[u] : line[tasks[u][k]] = j
    <3>1. PICK k \in DOMAIN tasks[u] : line[tasks[u][k]] = j
      BY <2>5
    <3>2. Owner(file[j].vsize) = u
      BY <3>1 DEF OrderInv, OwnerInv
    <3>3. u = t
      BY <1>1, <1>3, <3>2
    <3>4. i < j
      BY <1>1, <3>1, <3>3 DEF OrderInv, RankInv
    <3> QED
      BY <1>1, <2>1, <3>4
  <2> QED
    BY <2>3, <2>4, <2>5 DEF Waiting
<1> QED
  BY <1>1, <1>2, <1>3

(* Every path's operations are replayed one at a time and in the order of  *)
(* the file, for every file whose paths rthread_map has room for, however  *)
(* many threads, ring slots and task objects there are.                    *)
THEOREM VsizeOrderHolds ==
  ASSUME AllStorable
  PROVE  Spec => []VsizeOrder
<1>1. TypeInv /\ OrderInv => VsizeOrder
  BY OrderGivesVsizeOrder
<1> QED
  BY <1>1, OrderInvariance, PTL

-----------------------------------------------------------------------------
(* The order of the lines of one path is what protects the vfd_s objects:  *)
(* rioop_close destroys an object after it released fds_map_mutex, and the *)
(* other handlers read it without the mutex (rioop.c:66-68, 354-380).      *)

(* Nothing follows the close of a descriptor in a file: the generator      *)
(* recycles the vfd when it writes the close and numbers the next open     *)
(* afresh (generate/gprocess.c:46-83, generate/gioop.c:262-281).           *)
ClosesLast == \A f \in Files : CloseComesLast(f)

Using == {"use", "close"}

(* A handler's vfd is its line's.                                          *)
VfdInv ==
  \A t \in Threads :
    /\ tpc[t] \in Using => vfd[t] = Fd(t)
    /\ tpc[t] = "close" => Op(t) = "close"

(* Only a close that is done destroyed a vfd.                              *)
DestroyedInv ==
  \A d \in destroyed : \E j \in done : file[j].op = "close" /\ file[j].fd = d

(* What is before a replayed line of the same path was replayed as well.   *)
DoneClosed ==
  \A j \in done : \A i \in 1 .. j - 1 : file[i].vsize = file[j].vsize => i \in done

FdInv == VfdInv /\ DestroyedInv /\ DoneClosed

-----------------------------------------------------------------------------
(* Steps between which no handler looks up, uses or destroys a vfd.        *)
LEMMA FdsKept ==
  ASSUME FdInv, UNCHANGED <<file, vfd, destroyed, done>>,
         \A u \in Threads : tpc'[u] \in Using =>
           tpc'[u] = tpc[u] /\ line'[cur'[u]] = line[cur[u]]
  PROVE  FdInv'
<1>1. VfdInv'
  BY DEF FdInv, VfdInv, Fd, Op, Using
<1>2. DestroyedInv'
  BY DEF FdInv, DestroyedInv
<1>3. DoneClosed'
  BY DEF FdInv, DoneClosed
<1> QED
  BY <1>1, <1>2, <1>3 DEF FdInv

(* A handler that returns has replayed its line after all earlier lines of *)
(* the same path, and has destroyed at most the vfd that its line closes.  *)
LEMMA HandlerKeepsFds ==
  ASSUME TypeInv, OrderInv, FdInv, NEW t \in Threads, tpc[t] \in Running,
         HandlerDone(t), UNCHANGED <<file, line, cur>>,
         \A u \in Threads : u # t => vfd'[u] = vfd[u],
         \A d \in destroyed' : d \in destroyed \/ (Op(t) = "close" /\ d = Fd(t))
  PROVE  FdInv'
<1>0. /\ file' = file /\ line' = line /\ cur' = cur
      /\ done' = done \cup {line[cur[t]]}
      /\ \A u \in Threads : tpc'[u] = IF u = t THEN "recycle" ELSE tpc[u]
  BY DEF HandlerDone, Goto, TypeInv, TypeOK
<1>1. VfdInv'
  BY <1>0 DEF FdInv, VfdInv, Fd, Op, Using
<1>2. DestroyedInv'
  BY <1>0 DEF FdInv, DestroyedInv, Fd, Op
<1>3. \A j \in 1 .. line[cur[t]] - 1 :
        file[j].vsize = file[line[cur[t]]].vsize => j \in done
  BY OrderGivesVsizeOrder DEF VsizeOrder
<1>4. DoneClosed'
  BY <1>0, <1>3 DEF FdInv, DoneClosed
<1> QED
  BY <1>1, <1>2, <1>4 DEF FdInv

(* At the start nothing is looked up, destroyed or replayed.               *)
THEOREM InitFdInv == Init => FdInv
  BY DEF Init, FdInv, VfdInv, DestroyedInv, DoneClosed, Using

(* Every step keeps what is known about the vfd_s objects.                 *)
THEOREM NextFdInv ==
  TypeInv /\ OrderInv /\ FdInv /\ [Next]_vars => FdInv'
<1> SUFFICES ASSUME TypeInv, OrderInv, FdInv, [Next]_vars
             PROVE  FdInv'
  OBVIOUS
<1> USE NumbersAssumption, NoneAssumption
<1>a. TypeOK /\ ControlInv /\ StartInv /\ HeldOnce
  BY DEF TypeInv
<1>b. \A u \in Threads : tpc[u] \in Using =>
        cur[u] # None /\ cur[u] \in Tasks /\ tpc[u] \in Running
  BY <1>a, HeldFacts DEF ControlInv, Busy, Running, Using
<1>1. ASSUME ReadLine
     PROVE  FdInv'
  BY <1>1, FdsKept DEF ReadLine, options, worker, idle, recycling, fds
<1>2. ASSUME EndOfLines
     PROVE  FdInv'
  BY <1>2, FdsKept DEF EndOfLines, options, worker, idle, recycling, fds
<1>3. ASSUME PickMapped
     PROVE  FdInv'
  BY <1>3, FdsKept DEF PickMapped, options, worker, idle, recycling, fds
<1>4. ASSUME RecycleThread
     PROVE  FdInv'
  BY <1>4, FdsKept DEF RecycleThread, options, worker, idle, recycling, fds
<1>5. ASSUME AwaitThread
     PROVE  FdInv'
  BY <1>5, FdsKept DEF AwaitThread, options, worker, idle, recycling, fds
<1>6. ASSUME InsertTask
     PROVE  FdInv'
  BY <1>6, FdsKept DEF InsertTask, options, worker, idle, recycling, fds
<1>7. ASSUME InlineDone
     PROVE  FdInv'
  BY <1>7, FdsKept DEF InlineDone, options, worker, idle, recycling, fds
<1>8. ASSUME TerminateThread
     PROVE  FdInv'
  BY <1>8, FdsKept DEF TerminateThread, options, worker, idle, recycling, fds
<1>9. ASSUME Finish
     PROVE  FdInv'
  BY <1>9, FdsKept DEF Finish, options, worker, idle, recycling, fds
<1>10. ASSUME UseSingleThread
     PROVE  FdInv'
  BY <1>10, <1>a, FdsKept DEF UseSingleThread, options, worker, idle, recycling, fds, TypeOK, Using
<1>11. ASSUME CreateThread
     PROVE  FdInv'
  BY <1>11, <1>a, FdsKept DEF CreateThread, options, worker, idle, recycling, fds, TypeOK, Using
<1>12. ASSUME JoinThread
     PROVE  FdInv'
  BY <1>12, <1>a, FdsKept DEF JoinThread, options, worker, idle, recycling, fds, TypeOK, Using
<1>13. ASSUME GetTask
     PROVE  FdInv'
  <2>1. \A u \in Threads : tpc[u] \in Using => line'[cur[u]] = line[cur[u]]
    BY <1>13, <1>a, <1>b, GetTaskEffect DEF TypeOK
  <2> QED
    BY <1>13, <2>1, FdsKept DEF GetTask, options, idle, fds
<1>14. ASSUME RunInline
     PROVE  FdInv'
  <2>1. \A u \in Threads : tpc'[u] \in Using => u # wt /\ tpc'[u] = tpc[u] /\ cur'[u] = cur[u]
    BY <1>14, <1>a DEF RunInline, TypeOK, Using
  <2> QED
    BY <1>14, <2>1, FdsKept DEF RunInline, options, recycling, fds
<1>15. ASSUME NEW t \in Threads, TakeTask(t)
     PROVE  FdInv'
  <2>1. \A u \in Threads : tpc'[u] \in Using => u # t /\ tpc'[u] = tpc[u] /\ cur'[u] = cur[u]
    BY <1>15, <1>a DEF TakeTask, Goto, TypeOK, Using
  <2> QED
    BY <1>15, <2>1, FdsKept DEF TakeTask, options, recycling, fds
<1>16. ASSUME NEW t \in Threads, LeaveWait(t)
     PROVE  FdInv'
  <2>1. \A u \in Threads : tpc'[u] \in Using => tpc'[u] = tpc[u]
    BY <1>16, <1>a DEF LeaveWait, Goto, TypeOK, Using
  <2> QED
    BY <1>16, <2>1, FdsKept DEF LeaveWait, options, worker, idle, recycling, fds
<1>17. ASSUME NEW t \in Threads, Drained(t)
     PROVE  FdInv'
  <2>1. \A u \in Threads : tpc'[u] \in Using => tpc'[u] = tpc[u]
    BY <1>17, <1>a DEF Drained, Goto, TypeOK, Using
  <2> QED
    BY <1>17, <2>1, FdsKept DEF Drained, options, worker, idle, recycling, fds
<1>18. ASSUME NEW t \in Threads, Idle(t)
     PROVE  FdInv'
  <2>1. \A u \in Threads : tpc'[u] \in Using => tpc'[u] = tpc[u]
    BY <1>18, <1>a DEF Idle, Goto, TypeOK, Using
  <2> QED
    BY <1>18, <2>1, FdsKept DEF Idle, options, worker, idle, recycling, fds
<1>19. ASSUME NEW t \in Threads, Recheck(t)
     PROVE  FdInv'
  <2>1. \A u \in Threads : tpc'[u] \in Using => tpc'[u] = tpc[u]
    BY <1>19, <1>a DEF Recheck, Goto, TypeOK, Using
  <2> QED
    BY <1>19, <2>1, FdsKept DEF Recheck, options, worker, idle, recycling, fds
<1>20. ASSUME NEW t \in Threads, LockRthreadBuffer(t)
     PROVE  FdInv'
  <2>1. \A u \in Threads : tpc'[u] \in Using => tpc'[u] = tpc[u]
    BY <1>20, <1>a DEF LockRthreadBuffer, Goto, TypeOK, Using
  <2> QED
    BY <1>20, <2>1, FdsKept DEF LockRthreadBuffer, options, worker, idle, recycling, fds
<1>21. ASSUME NEW t \in Threads, LookLocked(t)
     PROVE  FdInv'
  <2>1. \A u \in Threads : tpc'[u] \in Using => tpc'[u] = tpc[u]
    BY <1>21, <1>a DEF LookLocked, Goto, TypeOK, Using
  <2> QED
    BY <1>21, <2>1, FdsKept DEF LookLocked, options, worker, idle, recycling, fds
<1>22. ASSUME NEW t \in Threads, Offer(t)
     PROVE  FdInv'
  <2>1. \A u \in Threads : tpc'[u] \in Using => tpc'[u] = tpc[u]
    BY SMTT(30), <1>22, <1>a DEF Offer, Goto, TypeOK, Using
  <2> QED
    BY <1>22, <2>1, FdsKept DEF Offer, options, worker, idle, recycling, fds
<1>23. ASSUME NEW t \in Threads, CheckTerminate(t)
     PROVE  FdInv'
  <2>1. \A u \in Threads : tpc'[u] \in Using => tpc'[u] = tpc[u]
    BY <1>23, <1>a DEF CheckTerminate, Goto, TypeOK, Using
  <2> QED
    BY <1>23, <2>1, FdsKept DEF CheckTerminate, options, worker, idle, recycling, fds
<1>24. ASSUME NEW t \in Threads, Exit(t)
     PROVE  FdInv'
  <2>1. \A u \in Threads : tpc'[u] \in Using => tpc'[u] = tpc[u]
    BY <1>24, <1>a DEF Exit, Goto, TypeOK, Using
  <2> QED
    BY <1>24, <2>1, FdsKept DEF Exit, options, worker, idle, recycling, fds
<1>25. ASSUME NEW t \in Threads, PathOp(t)
     PROVE  FdInv'
  BY <1>25, HandlerKeepsFds DEF PathOp, options, worker, recycling, fds, Running
<1>26. ASSUME NEW t \in Threads, Open(t)
     PROVE  FdInv'
  BY <1>26, HandlerKeepsFds DEF Open, options, worker, recycling, Running
<1>27. ASSUME NEW t \in Threads, UseFd(t)
     PROVE  FdInv'
  <2>1. \A u \in Threads : u # t => vfd'[u] = vfd[u]
    BY <1>27, <1>a DEF UseFd, TypeOK
  <2> QED
    BY <1>27, <2>1, HandlerKeepsFds DEF UseFd, options, recycling, Running
<1>28. ASSUME NEW t \in Threads, DestroyFd(t)
     PROVE  FdInv'
  <2>1. \A u \in Threads : u # t => vfd'[u] = vfd[u]
    BY <1>28, <1>a DEF DestroyFd, TypeOK
  <2>2. \A d \in destroyed' : d \in destroyed \/ (Op(t) = "close" /\ d = Fd(t))
    BY <1>28 DEF DestroyFd, FdInv, VfdInv, Using
  <2> QED
    BY <1>28, <2>1, <2>2, HandlerKeepsFds DEF DestroyFd, options, recycling, Running
<1>29. ASSUME NEW t \in Threads, LookupFd(t)
     PROVE  FdInv'
  <2>1. CASE Fd(t) \in fds_map
    <3>1. /\ file' = file /\ line' = line /\ cur' = cur
          /\ done' = done /\ destroyed' = destroyed
          /\ \A u \in Threads : vfd'[u] = IF u = t THEN Fd(t) ELSE vfd[u]
          /\ \A u \in Threads : tpc'[u] = IF u = t THEN "use" ELSE tpc[u]
          /\ Op(t) = "use"
      BY <1>29, <1>a, <2>1 DEF LookupFd, Goto, options, recycling, TypeOK
    <3>2. VfdInv'
      BY <3>1 DEF FdInv, VfdInv, Fd, Op, Using
    <3> QED
      BY <3>1, <3>2 DEF FdInv, DestroyedInv, DoneClosed
  <2>2. CASE Fd(t) \notin fds_map
    BY <1>29, <2>2, HandlerKeepsFds DEF LookupFd, options, recycling, Running
  <2> QED
    BY <2>1, <2>2
<1>30. ASSUME NEW t \in Threads, UnsetFd(t)
     PROVE  FdInv'
  <2>1. CASE Fd(t) \in fds_map
    <3>1. /\ file' = file /\ line' = line /\ cur' = cur
          /\ done' = done /\ destroyed' = destroyed
          /\ \A u \in Threads : vfd'[u] = IF u = t THEN Fd(t) ELSE vfd[u]
          /\ \A u \in Threads : tpc'[u] = IF u = t THEN "close" ELSE tpc[u]
          /\ Op(t) = "close"
      BY <1>30, <1>a, <2>1 DEF UnsetFd, Goto, options, recycling, TypeOK
    <3>2. VfdInv'
      BY <3>1 DEF FdInv, VfdInv, Fd, Op, Using
    <3> QED
      BY <3>1, <3>2 DEF FdInv, DestroyedInv, DoneClosed
  <2>2. CASE Fd(t) \notin fds_map
    BY <1>30, <2>2, HandlerKeepsFds DEF UnsetFd, options, recycling, Running
  <2> QED
    BY <2>1, <2>2
<1>31. ASSUME NEW t \in Threads, RecycleTask(t)
     PROVE  FdInv'
  <2>1. /\ tpc[t] = "recycle" /\ ret[t] \notin Using
        /\ \A u \in Threads : tpc'[u] = IF u = t THEN ret[t] ELSE tpc[u]
        /\ \A u \in Threads : u # t => cur'[u] = cur[u]
    BY <1>31, <1>a DEF RecycleTask, Goto, TypeOK, Using
  <2>2. \A u \in Threads : u # t /\ cur[u] # None => line'[cur[u]] = line[cur[u]]
    BY SMTT(30), <1>31, <1>a, HeldFacts DEF RecycleTask, HeldOnce, TypeOK
  <2> QED
    BY <1>31, <1>b, <2>1, <2>2, FdsKept DEF RecycleTask, options, fds
<1>32. ASSUME UNCHANGED vars
     PROVE  FdInv'
  BY <1>32, FdsKept DEF vars, options, worker, idle, recycling, fds
<1> QED
  BY <1>1, <1>2, <1>3, <1>4, <1>5, <1>6, <1>7, <1>8, <1>9, <1>10, <1>11, <1>12, <1>13, <1>14, <1>15, <1>16, <1>17, <1>18, <1>19, <1>20, <1>21, <1>22, <1>23, <1>24, <1>25, <1>26, <1>27, <1>28, <1>29, <1>30, <1>31, <1>32
     DEF Next, WorkerStep, PickThread, ThreadStep, IdleLoop, ProcessTask, Terminated

(* A handler that uses a vfd has a line before the close of that vfd, so   *)
(* that the close cannot have been replayed.                               *)
LEMMA OrderProtectsVfds ==
  ASSUME ClosesLast, TypeInv, OrderInv, FdInv
  PROVE  NoUseAfterDestroy
<1> SUFFICES ASSUME NEW t \in Threads, tpc[t] \in Using, vfd[t] \in destroyed
             PROVE  FALSE
  BY DEF NoUseAfterDestroy, Using
<1> DEFINE i == line[cur[t]]
<1>1. i \in 1 .. Len(file) /\ i \notin done
  BY OrderGivesVsizeOrder, HeldFacts
     DEF VsizeOrder, Running, Using, TypeInv, ControlInv, Busy
<1>2. vfd[t] = file[i].fd
  BY DEF FdInv, VfdInv, Fd
<1>3. PICK j \in done : file[j].op = "close" /\ file[j].fd = file[i].fd
  BY <1>2 DEF FdInv, DestroyedInv
<1>4. j \in 1 .. Len(file) /\ file \in Files /\ DOMAIN file = 1 .. Len(file)
      /\ Len(file) \in Nat
  BY FileFacts DEF TypeInv, TypeOK
<1>5. i <= j /\ file[j].fd # 0
  BY <1>1, <1>3, <1>4, FileFacts DEF ClosesLast, CloseComesLast
<1>6. file[i].vsize = file[j].vsize
  BY <1>1, <1>3, <1>4, <1>5, FilesAssumption DEF FdHasOnePath
<1>7. i \in 1 .. j - 1
  BY <1>1, <1>3, <1>4, <1>5
<1> QED
  BY <1>1, <1>6, <1>7 DEF FdInv, DoneClosed

(* No handler uses a vfd_s that another one has destroyed, although the    *)
(* look-up takes no mutex and the destruction happens after the mutex was  *)
(* released: whatever threads, rings and task objects there are, provided  *)
(* that rthread_map has room for every path and that a file has nothing on *)
(* a descriptor after its close.                                           *)
THEOREM VfdsOutliveTheirUsers ==
  ASSUME AllStorable, ClosesLast
  PROVE  Spec => []NoUseAfterDestroy
<1>1. Init => FdInv
  BY InitFdInv
<1>2. TypeInv /\ OrderInv /\ FdInv /\ [Next]_vars => FdInv'
  BY NextFdInv
<1>3. TypeInv /\ OrderInv /\ FdInv => NoUseAfterDestroy
  BY OrderProtectsVfds
<1> QED
  BY <1>1, <1>2, <1>3, OrderInvariance, PTL DEF Spec

-----------------------------------------------------------------------------
(* How a worker comes to its end: no task is left behind or lost, no       *)
(* thread is forgotten, and every line was replayed.  Unlike the order of  *)
(* the lines above this does not need an rthread_map with room for every   *)
(* path.                                                                   *)

(* The worker has read all lines and terminates its threads.               *)
Ending == wpc \in {"join", "joining", "done"}

(* all_threads holds the threads in the order in which they were started.  *)
(* One that is not on it has not been started, or has been joined or is    *)
(* about to be.                                                            *)
StackInv ==
  /\ \A i \in DOMAIN all_threads : all_threads[i] = i
  /\ \A t \in Threads : t <= Len(all_threads) =>
       tpc[t] \notin {"none", "inline", "freed"}
  /\ Ending => \A t \in Threads : t > Len(all_threads) =>
       tpc[t] \in {"none", "inline", "freed"} \/ (wpc = "joining" /\ t = wt)
  /\ wpc = "joining" => wt = Len(all_threads) + 1
  /\ wpc = "done" => all_threads = << >>

(* A thread ends only when it was told to, which happens after the last    *)
(* line was handed over.                                                   *)
TermInv ==
  /\ Ending => lineno = Len(file)
  /\ \A t \in Threads : terminate[t] => Ending
  /\ \A t \in Threads :
       tpc[t] \in {"last", "exit", "freed"} \/ (tpc[t] \in Busy /\ ret[t] = "last")
         => terminate[t]

(* A single-threaded worker uses no ring and no pthread.                   *)
SingleInv ==
  /\ wpc = "inline" => SingleThreaded
  /\ SingleThreaded => \A t \in Threads :
       /\ tpc[t] \in Busy \cup {"none", "inline"}
       /\ ret[t] \in {"none", "inline"}
       /\ tasks[t] = << >>
  /\ ~SingleThreaded => \A t \in Threads : tpc[t] # "inline" /\ ret[t] # "inline"

(* A thread that was not started, or has ended, has no task.               *)
RingInv ==
  \A t \in Threads : tpc[t] \in {"none", "inline", "exit", "freed"} => tasks[t] = << >>

(* While lines are handed over, the worker knows only threads that it has  *)
(* started.                                                                *)
KnownInv ==
  ~Ending /\ ~SingleThreaded =>
    /\ \A v \in Vsizes : rthread_map[v] # None =>
         rthread_map[v] \in 1 .. Len(all_threads)
    /\ \A i \in DOMAIN rthread_buffer : rthread_buffer[i] \in 1 .. Len(all_threads)
    /\ wpc \in {"task", "insert"} => wt \in 1 .. Len(all_threads)

(* Thread t is in rthread_buffer, or is about to get a task.               *)
Offered(t) ==
  \/ \E i \in DOMAIN rthread_buffer : rthread_buffer[i] = t
  \/ wt = t /\ wpc \in {"task", "insert"}

(* A thread that found no work has made itself known.                      *)
IdleInv ==
  \A t \in Threads :
    tpc[t] \in {"check", "wait"} /\ tasks[t] = << >> /\ ~terminate[t] => Offered(t)

EndInv == StackInv /\ TermInv /\ SingleInv /\ RingInv /\ KnownInv /\ IdleInv

(* Somebody holds task object k.                                           *)
Held(k) ==
  \/ wtask = k
  \/ \E t \in Threads : cur[t] = k
  \/ \E t \in Threads : \E i \in DOMAIN tasks[t] : tasks[t][i] = k
  \/ \E i \in DOMAIN task_buffer : task_buffer[i] = k

(* No allocated task object is lost.                                       *)
AllHeld == \A k \in Tasks : line[k] # 0 => Held(k)

(* The last line that the statistics count, if it is this worker's.        *)
CountedTo == IF wpc \in {"pick", "waitpop", "task"} THEN lineno - 1 ELSE lineno

(* Of the lines up to the n-th, those that this worker is responsible for. *)
MineUpTo(n) == {i \in 1 .. n : Mine(i)}

(* What was handed over is this worker's.                                  *)
HandedInv ==
  /\ \A j \in done : j <= Limit /\ Mine(j)
  /\ \A t \in Threads : cur[t] # None => line[cur[t]] <= Limit /\ Mine(line[cur[t]])
  /\ \A t \in Threads : \A i \in DOMAIN tasks[t] :
       line[tasks[t][i]] <= Limit /\ Mine(line[tasks[t][i]])
  /\ wpc = "insert" => line[wtask] = lineno
  /\ Dispatching => Mine(lineno)

(* Every line of this worker's that was handed over is in somebody's hands *)
(* or replayed.                                                            *)
CoveredInv ==
  \A j \in 1 .. Limit : Mine(j) => j \in done \/ \E t \in Threads : Waiting(t, j)

(* Every line of this worker's is counted once, when it is filled in.      *)
CountInv == ioops = Cardinality(MineUpTo(CountedTo))

CoverInv == HandedInv /\ CoveredInv /\ CountInv

-----------------------------------------------------------------------------
(* An element that is not taken from the queue moves up.                   *)
LEMMA TailShift ==
  ASSUME NEW S, NEW s \in Seq(S), s # << >>
  PROVE  \A i \in DOMAIN s :
           i = 1 \/ (i - 1 \in DOMAIN Tail(s) /\ Tail(s)[i - 1] = s[i])
<1>1. /\ DOMAIN Tail(s) = 1 .. Len(s) - 1
      /\ DOMAIN s = 1 .. Len(s) /\ Len(s) \in Nat
      /\ \A i \in DOMAIN Tail(s) : Tail(s)[i] = s[i + 1]
  BY TailElements
<1>2. ASSUME NEW i \in 1 .. Len(s), i # 1
      PROVE  i - 1 \in 1 .. Len(s) - 1 /\ (i - 1) + 1 = i
  BY <1>1, <1>2
<1> QED
  BY <1>1, <1>2

THEOREM InitEndInv == Init => EndInv
<1> SUFFICES ASSUME Init PROVE EndInv
  OBVIOUS
<1> USE NumbersAssumption DEF Init
<1>1. StackInv
  BY DEF StackInv, Ending, Threads
<1>2. TermInv
  BY DEF TermInv, Ending, Threads, Busy, Running
<1>3. SingleInv
  BY DEF SingleInv
<1>4. RingInv
  BY DEF RingInv
<1>5. KnownInv
  BY DEF KnownInv
<1>6. IdleInv
  BY DEF IdleInv
<1> QED
  BY <1>1, <1>2, <1>3, <1>4, <1>5, <1>6 DEF EndInv

(* A started thread goes on, and may offer itself.                         *)
LEMMA MoveKeepsEnd ==
  ASSUME TypeInv, EndInv, NEW t \in Threads, NEW to \in ThreadPCs,
         UNCHANGED <<file, nthreads, wpc, lineno, wt, all_threads, rthread_map,
                     terminate, ret, tasks>>,
         \/ rthread_buffer' = rthread_buffer
         \/ rthread_buffer' = Append(rthread_buffer, t) /\ ~SingleThreaded,
         tpc' = [tpc EXCEPT ![t] = to],
         tpc[t] \notin {"none", "inline", "exit", "freed"},
         to \notin {"none", "inline", "freed"},
         to \in {"last", "exit"} => terminate[t],
         to \in Busy => tpc[t] \in Busy,
         SingleThreaded => to \in Busy,
         to = "exit" => tasks[t] = << >>,
         to \in {"check", "wait"} /\ tasks[t] = << >> /\ ~terminate[t] => Offered(t)'
  PROVE  EndInv'
<1>1. /\ file' = file /\ nthreads' = nthreads /\ wpc' = wpc /\ lineno' = lineno
      /\ wt' = wt /\ all_threads' = all_threads /\ rthread_map' = rthread_map
      /\ terminate' = terminate /\ ret' = ret /\ tasks' = tasks
      /\ \A u \in Threads : tpc'[u] = IF u = t THEN to ELSE tpc[u]
      /\ Ending' = Ending /\ SingleThreaded' = SingleThreaded
  BY DEF TypeInv, TypeOK, Ending, SingleThreaded
<1>2. StackInv'
  BY <1>1 DEF EndInv, StackInv
<1>3. TermInv'
  BY <1>1 DEF EndInv, TermInv
<1>4. SingleInv'
  BY <1>1 DEF EndInv, SingleInv
<1>5. RingInv'
  BY <1>1 DEF EndInv, RingInv
<1>6. /\ \A i \in DOMAIN rthread_buffer' :
           rthread_buffer'[i] = t \/ \E j \in DOMAIN rthread_buffer :
                                       rthread_buffer'[i] = rthread_buffer[j]
      /\ \A j \in DOMAIN rthread_buffer :
           j \in DOMAIN rthread_buffer' /\ rthread_buffer'[j] = rthread_buffer[j]
  <2>1. CASE rthread_buffer' = rthread_buffer
    BY <2>1
  <2>2. CASE rthread_buffer' = Append(rthread_buffer, t) /\ ~SingleThreaded
    <3>1. /\ DOMAIN rthread_buffer' = 1 .. Len(rthread_buffer) + 1
          /\ DOMAIN rthread_buffer = 1 .. Len(rthread_buffer)
          /\ Len(rthread_buffer) \in Nat
          /\ \A i \in DOMAIN rthread_buffer : rthread_buffer'[i] = rthread_buffer[i]
          /\ rthread_buffer'[Len(rthread_buffer) + 1] = t
      BY SMTT(30), <2>2, AppendElements DEF TypeInv, TypeOK
    <3>2. \A i \in DOMAIN rthread_buffer' :
            i \in DOMAIN rthread_buffer \/ i = Len(rthread_buffer) + 1
      BY <3>1
    <3>3. \A i \in DOMAIN rthread_buffer : i \in DOMAIN rthread_buffer'
      BY <3>1
    <3> QED
      BY <3>1, <3>2, <3>3
  <2> QED
    BY <2>1, <2>2
<1>7. KnownInv'
  <2>1. ~Ending /\ ~SingleThreaded => t \in 1 .. Len(all_threads)
    <3>1. all_threads \in Seq(1 .. nthreads) /\ t \in Nat /\ 1 <= t
      BY NumbersAssumption DEF TypeInv, TypeOK, Threads
    <3> QED
      BY <3>1 DEF TypeInv, StartInv, EndInv, SingleInv, Ending
  <2> QED
    BY <1>1, <1>6, <2>1 DEF EndInv, KnownInv
<1>8. IdleInv'
  BY <1>1, <1>6 DEF EndInv, IdleInv, Offered
<1> QED
  BY <1>2, <1>3, <1>4, <1>5, <1>7, <1>8 DEF EndInv

(* The stack of threads, the end and the idle threads, step by step.       *)
THEOREM NextEndInv == TypeInv /\ EndInv /\ [Next]_vars => EndInv'
<1> SUFFICES ASSUME TypeInv, EndInv, [Next]_vars
             PROVE  EndInv'
  OBVIOUS
<1>a. TypeOK /\ ControlInv /\ StartInv
  BY DEF TypeInv
<1>b. StackInv /\ TermInv /\ SingleInv /\ RingInv /\ KnownInv /\ IdleInv
  BY DEF EndInv
<1> USE NoneAssumption
<1>1. ASSUME ReadLine
     PROVE  EndInv'
  <2>1. StackInv'
    BY <1>1, <1>a, <1>b
       DEF ReadLine, options, worker, idle, recycling, fds,
           StackInv, Ending, Threads
  <2>2. TermInv'
    BY <1>1, <1>a, <1>b
       DEF ReadLine, options, worker, idle, recycling, fds,
           TermInv, Ending, Busy, Running
  <2>3. SingleInv'
    BY <1>1, <1>a, <1>b
       DEF ReadLine, options, worker, idle, recycling, fds,
           SingleInv, SingleThreaded, Busy, Running
  <2>4. RingInv'
    BY <1>1, <1>a, <1>b
       DEF ReadLine, options, worker, idle, recycling, fds,
           RingInv, Ending
  <2>5. KnownInv'
    BY <1>1, <1>a, <1>b
       DEF ReadLine, options, worker, idle, recycling, fds,
           KnownInv, Ending, SingleThreaded, Threads
  <2>6. IdleInv'
    BY <1>1, <1>a, <1>b
       DEF ReadLine, options, worker, idle, recycling, fds,
           IdleInv, Offered
  <2> QED
    BY <2>1, <2>2, <2>3, <2>4, <2>5, <2>6 DEF EndInv
<1>2. ASSUME EndOfLines
     PROVE  EndInv'
  <2>1. StackInv'
    BY <1>2, <1>a, <1>b DEF EndOfLines, StartInv, StackInv, Ending
  <2>2. TermInv'
    BY <1>2, <1>a, <1>b
       DEF EndOfLines, options, worker, idle, recycling, fds,
           TermInv, Ending, Busy, Running
  <2>3. SingleInv'
    BY <1>2, <1>a, <1>b
       DEF EndOfLines, options, worker, idle, recycling, fds,
           SingleInv, SingleThreaded, Busy, Running
  <2>4. RingInv'
    BY <1>2, <1>a, <1>b
       DEF EndOfLines, options, worker, idle, recycling, fds,
           RingInv, Ending
  <2>5. KnownInv'
    BY <1>2, <1>a, <1>b
       DEF EndOfLines, options, worker, idle, recycling, fds,
           KnownInv, Ending, SingleThreaded, Threads
  <2>6. IdleInv'
    BY <1>2, <1>a, <1>b
       DEF EndOfLines, options, worker, idle, recycling, fds,
           IdleInv, Offered
  <2> QED
    BY <2>1, <2>2, <2>3, <2>4, <2>5, <2>6 DEF EndInv
<1>3. ASSUME UseSingleThread
     PROVE  EndInv'
  <2>0. /\ nthreads' = nthreads /\ wpc = "pick" /\ wpc' = "task" /\ SingleThreaded
        /\ all_threads' = all_threads /\ all_threads = << >> /\ tasks' = tasks
        /\ \A t \in Threads : tpc'[t] = IF t = 1 THEN "inline" ELSE tpc[t]
        /\ \A t \in Threads : tasks[t] = << >>
    BY <1>3, <1>a, <1>b DEF UseSingleThread, options, TypeOK, StartInv, SingleInv
  <2>1. StackInv'
    BY <2>0, NumbersAssumption DEF StackInv, Ending, Threads
  <2>2. TermInv'
    BY <1>3, <1>a, <1>b
       DEF UseSingleThread, options, worker, idle, recycling, fds,
           TermInv, Ending, Busy, Running
  <2>3. SingleInv'
    BY <1>3, <1>a, <1>b
       DEF UseSingleThread, options, worker, idle, recycling, fds,
           SingleInv, SingleThreaded, Busy, Running
  <2>4. RingInv'
    BY <2>0 DEF RingInv
  <2>5. KnownInv'
    BY <1>3, <1>a, <1>b
       DEF UseSingleThread, options, worker, idle, recycling, fds,
           KnownInv, Ending, SingleThreaded, Threads
  <2>6. IdleInv'
    BY <1>3, <1>a, <1>b
       DEF UseSingleThread, options, worker, idle, recycling, fds,
           IdleInv, Offered
  <2> QED
    BY <2>1, <2>2, <2>3, <2>4, <2>5, <2>6 DEF EndInv
<1>4. ASSUME PickMapped
     PROVE  EndInv'
  <2>0. Vsize \in Vsizes
    BY <1>4, <1>a, FileFacts DEF PickMapped, Vsize, TypeOK, ControlInv
  <2>1. StackInv'
    BY <1>4, <1>a, <1>b
       DEF PickMapped, options, worker, idle, recycling, fds,
           StackInv, Ending, Threads
  <2>2. TermInv'
    BY <1>4, <1>a, <1>b
       DEF PickMapped, options, worker, idle, recycling, fds,
           TermInv, Ending, Busy, Running
  <2>3. SingleInv'
    BY <1>4, <1>a, <1>b
       DEF PickMapped, options, worker, idle, recycling, fds,
           SingleInv, SingleThreaded, Busy, Running
  <2>4. RingInv'
    BY <1>4, <1>a, <1>b
       DEF PickMapped, options, worker, idle, recycling, fds,
           RingInv, Ending
  <2>5. KnownInv'
    BY <1>4, <1>b, <2>0 DEF PickMapped, options, idle, KnownInv, Ending, SingleThreaded
  <2>6. IdleInv'
    BY <1>4, <1>a, <1>b
       DEF PickMapped, options, worker, idle, recycling, fds,
           IdleInv, Offered
  <2> QED
    BY <2>1, <2>2, <2>3, <2>4, <2>5, <2>6 DEF EndInv
<1>5. ASSUME RecycleThread
     PROVE  EndInv'
  <2>0. /\ wpc \in {"pick", "waitpop"} /\ wpc' = "task" /\ nthreads' = nthreads
        /\ all_threads' = all_threads /\ tpc' = tpc /\ tasks' = tasks
        /\ terminate' = terminate
    BY <1>5 DEF RecycleThread, options
  <2>a. /\ 1 \in DOMAIN rthread_buffer /\ wt' = rthread_buffer[1]
        /\ DOMAIN rthread_buffer = 1 .. Len(rthread_buffer)
        /\ Len(rthread_buffer) \in Nat
        /\ DOMAIN rthread_buffer' = 1 .. Len(rthread_buffer) - 1
        /\ \A i \in DOMAIN rthread_buffer' :
             i + 1 \in DOMAIN rthread_buffer /\ rthread_buffer'[i] = rthread_buffer[i + 1]
    BY <1>5, <1>a, TailElements DEF RecycleThread, TypeOK
  <2>b. \A v \in Vsizes : rthread_map'[v] = rthread_map[v] \/ rthread_map'[v] = wt'
    BY <1>5, <1>a DEF RecycleThread, MapVsize, TypeOK
  <2>c. \A i \in DOMAIN rthread_buffer :
          i = 1 \/ (i - 1 \in DOMAIN rthread_buffer'
                      /\ rthread_buffer'[i - 1] = rthread_buffer[i])
    BY <2>a
  <2>1. StackInv'
    BY <1>5, <1>a, <1>b
       DEF RecycleThread, options, worker, idle, recycling, fds,
           StackInv, Ending, Threads
  <2>2. TermInv'
    BY <1>5, <1>a, <1>b
       DEF RecycleThread, options, worker, idle, recycling, fds,
           TermInv, Ending, Busy, Running
  <2>3. SingleInv'
    BY <1>5, <1>a, <1>b
       DEF RecycleThread, options, worker, idle, recycling, fds,
           SingleInv, SingleThreaded, Busy, Running
  <2>4. RingInv'
    BY <1>5, <1>a, <1>b
       DEF RecycleThread, options, worker, idle, recycling, fds,
           RingInv, Ending
  <2>5. KnownInv'
    <3>1. ~Ending /\ ~SingleThreaded /\ (~Ending /\ ~SingleThreaded)' =>
            \A i \in DOMAIN rthread_buffer : rthread_buffer[i] \in 1 .. Len(all_threads)
      BY <1>b DEF KnownInv
    <3>2. ~Ending /\ (SingleThreaded' <=> SingleThreaded)
      BY <2>0 DEF Ending, SingleThreaded
    <3> QED
      BY <1>b, <2>0, <2>a, <2>b, <3>1, <3>2 DEF KnownInv
  <2>6. IdleInv'
    <3> SUFFICES ASSUME NEW t \in Threads, Offered(t)
                 PROVE  Offered(t)'
      BY <1>b, <2>0 DEF IdleInv
    <3> QED
      BY <2>0, <2>a, <2>c DEF Offered
  <2> QED
    BY <2>1, <2>2, <2>3, <2>4, <2>5, <2>6 DEF EndInv
<1>6. ASSUME AwaitThread
     PROVE  EndInv'
  <2>1. StackInv'
    BY <1>6, <1>a, <1>b
       DEF AwaitThread, options, worker, idle, recycling, fds,
           StackInv, Ending, Threads
  <2>2. TermInv'
    BY <1>6, <1>a, <1>b
       DEF AwaitThread, options, worker, idle, recycling, fds,
           TermInv, Ending, Busy, Running
  <2>3. SingleInv'
    BY <1>6, <1>a, <1>b
       DEF AwaitThread, options, worker, idle, recycling, fds,
           SingleInv, SingleThreaded, Busy, Running
  <2>4. RingInv'
    BY <1>6, <1>a, <1>b
       DEF AwaitThread, options, worker, idle, recycling, fds,
           RingInv, Ending
  <2>5. KnownInv'
    BY <1>6, <1>a, <1>b
       DEF AwaitThread, options, worker, idle, recycling, fds,
           KnownInv, Ending, SingleThreaded, Threads
  <2>6. IdleInv'
    BY <1>6, <1>a, <1>b
       DEF AwaitThread, options, worker, idle, recycling, fds,
           IdleInv, Offered
  <2> QED
    BY <2>1, <2>2, <2>3, <2>4, <2>5, <2>6 DEF EndInv
<1>7. ASSUME CreateThread
     PROVE  EndInv'
  <2> DEFINE n == Len(all_threads)
  <2>0. /\ wpc = "pick" /\ wpc' = "task" /\ nthreads' = nthreads /\ ~SingleThreaded
        /\ tasks' = tasks /\ terminate' = terminate /\ wt' = n + 1
        /\ rthread_buffer' = rthread_buffer /\ rthread_buffer = << >>
        /\ n \in Nat /\ n + 1 \in Threads /\ ret' = ret
    BY SMTT(30), <1>7, <1>a, NumbersAssumption
       DEF CreateThread, Unmapped, options, idle, TypeOK, Threads
  <2>a. \A t \in Threads : tpc'[t] = IF t = n + 1 THEN "wait" ELSE tpc[t]
    BY <1>7, <1>a DEF CreateThread, TypeOK
  <2>b. /\ DOMAIN all_threads' = 1 .. n + 1 /\ DOMAIN all_threads = 1 .. n
        /\ Len(all_threads') = n + 1
        /\ \A i \in DOMAIN all_threads : all_threads'[i] = all_threads[i]
        /\ all_threads'[n + 1] = n + 1
    <3>1. /\ all_threads \in Seq(1 .. nthreads) /\ n + 1 \in 1 .. nthreads
          /\ all_threads' = Append(all_threads, n + 1)
      BY <1>7, <1>a, <2>0 DEF CreateThread, TypeOK, Threads
    <3> QED
      BY <2>0, <3>1, AppendProperties
  <2>c. \A v \in Vsizes : rthread_map'[v] = rthread_map[v] \/ rthread_map'[v] = n + 1
    BY <1>7, <1>a DEF CreateThread, MapVsize, TypeOK
  <2> HIDE DEF n
  <2>1. StackInv'
    <3>1. \A i \in DOMAIN all_threads' : all_threads'[i] = i
      BY <1>b, <2>0, <2>b DEF StackInv
    <3>2. \A t \in Threads : t <= n + 1 => t <= n \/ t = n + 1
      BY <2>0 DEF Threads
    <3>3. \A t \in Threads : t <= n => tpc[t] \notin {"none", "inline", "freed"}
      BY <1>b DEF StackInv, n
    <3> QED
      BY <2>0, <2>a, <2>b, <3>1, <3>2, <3>3 DEF StackInv, Ending
  <2>2. TermInv'
    BY <1>7, <1>a, <1>b
       DEF CreateThread, options, worker, idle, recycling, fds,
           TermInv, Ending, Busy, Running
  <2>3. SingleInv'
    BY <1>b, <2>0, <2>a DEF SingleInv, SingleThreaded
  <2>4. RingInv'
    BY <1>7, <1>a, <1>b
       DEF CreateThread, options, worker, idle, recycling, fds,
           RingInv, Ending
  <2>5. KnownInv'
    <3>1. \A v \in Vsizes : rthread_map[v] # None => rthread_map[v] \in 1 .. n
      BY <1>b, <2>0 DEF KnownInv, Ending, n
    <3> QED
      BY <2>0, <2>b, <2>c, <3>1 DEF KnownInv
  <2>6. IdleInv'
    BY <1>7, <1>a, <1>b
       DEF CreateThread, options, worker, idle, recycling, fds,
           IdleInv, Offered
  <2> QED
    BY <2>1, <2>2, <2>3, <2>4, <2>5, <2>6 DEF EndInv
<1>8. ASSUME GetTask
     PROVE  EndInv'
  <2>1. StackInv'
    BY <1>8, <1>a, <1>b
       DEF GetTask, options, worker, idle, recycling, fds,
           StackInv, Ending, Threads
  <2>2. TermInv'
    BY <1>8, <1>a, <1>b
       DEF GetTask, options, worker, idle, recycling, fds,
           TermInv, Ending, Busy, Running
  <2>3. SingleInv'
    BY <1>8, <1>a, <1>b
       DEF GetTask, options, worker, idle, recycling, fds,
           SingleInv, SingleThreaded, Busy, Running
  <2>4. RingInv'
    BY <1>8, <1>a, <1>b
       DEF GetTask, options, worker, idle, recycling, fds,
           RingInv, Ending
  <2>5. KnownInv'
    BY <1>8, <1>a, <1>b
       DEF GetTask, options, worker, idle, recycling, fds,
           KnownInv, Ending, SingleThreaded, Threads
  <2>6. IdleInv'
    BY <1>8, <1>a, <1>b
       DEF GetTask, options, worker, idle, recycling, fds,
           IdleInv, Offered
  <2> QED
    BY <2>1, <2>2, <2>3, <2>4, <2>5, <2>6 DEF EndInv
<1>9. ASSUME InsertTask
     PROVE  EndInv'
  <2>0. /\ wpc = "insert" /\ wpc' = "read" /\ ~SingleThreaded
        /\ UNCHANGED <<tpc, terminate, rthread_buffer>>
        /\ wt \in Threads /\ \E i \in DOMAIN tasks'[wt] : tasks'[wt][i] = wtask
        /\ \A t \in Threads : t # wt => tasks'[t] = tasks[t]
    BY SMTT(30), <1>9, <1>a, InsertTaskEffect DEF InsertTask, idle, TypeOK
  <2>1. StackInv'
    BY <1>9, <1>a, <1>b
       DEF InsertTask, options, worker, idle, recycling, fds,
           StackInv, Ending, Threads
  <2>2. TermInv'
    BY <1>9, <1>a, <1>b
       DEF InsertTask, options, worker, idle, recycling, fds,
           TermInv, Ending, Busy, Running
  <2>3. SingleInv'
    BY <1>9, <1>a, <1>b
       DEF InsertTask, options, worker, idle, recycling, fds,
           SingleInv, SingleThreaded, Busy, Running
  <2>4. RingInv'
    <3>1. wt <= Len(all_threads) /\ ~Ending
      BY <1>b, <2>0 DEF KnownInv, Ending
    <3>2. tpc[wt] \notin {"none", "inline", "exit", "freed"}
      BY <1>b, <2>0, <3>1 DEF StackInv, TermInv
    <3> QED
      BY <1>b, <2>0, <3>2 DEF RingInv
  <2>5. KnownInv'
    BY <1>9, <1>a, <1>b
       DEF InsertTask, options, worker, idle, recycling, fds,
           KnownInv, Ending, SingleThreaded, Threads
  <2>6. IdleInv'
    <3>1. tasks'[wt] # << >>
      BY <2>0
    <3> QED
      BY <1>b, <2>0, <3>1 DEF IdleInv, Offered
  <2> QED
    BY <2>1, <2>2, <2>3, <2>4, <2>5, <2>6 DEF EndInv
<1>10. ASSUME RunInline
     PROVE  EndInv'
  <2>0. /\ wpc' = "inline" /\ wt \in Threads /\ wpc = "insert"
        /\ UNCHANGED <<file, lineno, terminate, rthread_buffer, tasks>>
        /\ \A t \in Threads : tpc'[t] = IF t = wt THEN "run" ELSE tpc[t]
        /\ \A t \in Threads : ret'[t] = IF t = wt THEN "inline" ELSE ret[t]
        /\ \A t \in Threads : tpc[t] \notin {"check", "wait"}
    BY <1>10, <1>a, <1>b
       DEF RunInline, options, idle, TypeOK, ControlInv, SingleInv, Busy, Running
  <2>1. StackInv'
    BY <1>10, <1>a, <1>b
       DEF RunInline, options, worker, idle, recycling, fds,
           StackInv, Ending, Threads
  <2>2. TermInv'
    BY <1>b, <2>0 DEF TermInv, Ending, Busy, Running
  <2>3. SingleInv'
    BY <1>10, <1>a, <1>b
       DEF RunInline, options, worker, idle, recycling, fds,
           SingleInv, SingleThreaded, Busy, Running
  <2>4. RingInv'
    BY <1>10, <1>a, <1>b
       DEF RunInline, options, worker, idle, recycling, fds,
           RingInv, Ending
  <2>5. KnownInv'
    BY <1>10, <1>a, <1>b
       DEF RunInline, options, worker, idle, recycling, fds,
           KnownInv, Ending, SingleThreaded, Threads
  <2>6. IdleInv'
    BY <2>0 DEF IdleInv
  <2> QED
    BY <2>1, <2>2, <2>3, <2>4, <2>5, <2>6 DEF EndInv
<1>11. ASSUME InlineDone
     PROVE  EndInv'
  <2>1. StackInv'
    BY <1>11, <1>a, <1>b
       DEF InlineDone, options, worker, idle, recycling, fds,
           StackInv, Ending, Threads
  <2>2. TermInv'
    BY <1>11, <1>a, <1>b
       DEF InlineDone, options, worker, idle, recycling, fds,
           TermInv, Ending, Busy, Running
  <2>3. SingleInv'
    BY <1>11, <1>a, <1>b
       DEF InlineDone, options, worker, idle, recycling, fds,
           SingleInv, SingleThreaded, Busy, Running
  <2>4. RingInv'
    BY <1>11, <1>a, <1>b
       DEF InlineDone, options, worker, idle, recycling, fds,
           RingInv, Ending
  <2>5. KnownInv'
    BY <1>11, <1>a, <1>b
       DEF InlineDone, options, worker, idle, recycling, fds,
           KnownInv, Ending, SingleThreaded, Threads
  <2>6. IdleInv'
    BY <1>11, <1>a, <1>b
       DEF InlineDone, options, worker, idle, recycling, fds,
           IdleInv, Offered
  <2> QED
    BY <2>1, <2>2, <2>3, <2>4, <2>5, <2>6 DEF EndInv
<1>12. ASSUME TerminateThread
     PROVE  EndInv'
  <2>1. StackInv'
    BY <1>12, <1>a, <1>b
       DEF TerminateThread, options, worker, idle, recycling, fds,
           StackInv, Ending, Threads
  <2>2. TermInv'
    BY <1>12, <1>a, <1>b
       DEF TerminateThread, options, worker, idle, recycling, fds,
           TermInv, Ending, Busy, Running
  <2>3. SingleInv'
    BY <1>12, <1>a, <1>b
       DEF TerminateThread, options, worker, idle, recycling, fds,
           SingleInv, SingleThreaded, Busy, Running
  <2>4. RingInv'
    BY <1>12, <1>a, <1>b
       DEF TerminateThread, options, worker, idle, recycling, fds,
           RingInv, Ending
  <2>5. KnownInv'
    BY <1>12, <1>a, <1>b
       DEF TerminateThread, options, worker, idle, recycling, fds,
           KnownInv, Ending, SingleThreaded, Threads
  <2>6. IdleInv'
    BY <1>12, <1>a, <1>b
       DEF TerminateThread, options, worker, idle, recycling, fds,
           IdleInv, Offered
  <2> QED
    BY <2>1, <2>2, <2>3, <2>4, <2>5, <2>6 DEF EndInv
<1>13. ASSUME JoinThread
     PROVE  EndInv'
  <2>1. StackInv'
    <3>1. /\ wpc = "joining" /\ wpc' = "join" /\ all_threads' = all_threads
          /\ wt = Len(all_threads) + 1 /\ Len(all_threads) \in Nat
          /\ \A t \in Threads : tpc'[t] = IF t = wt THEN "freed" ELSE tpc[t]
      BY <1>13, <1>a, <1>b DEF JoinThread, StackInv, TypeOK
    <3> QED
      BY <1>b, <3>1 DEF StackInv, Ending, Threads
  <2>2. TermInv'
    BY <1>13, <1>a, <1>b
       DEF JoinThread, options, worker, idle, recycling, fds,
           TermInv, Ending, Busy, Running
  <2>3. SingleInv'
    BY <1>13, <1>a, <1>b
       DEF JoinThread, options, worker, idle, recycling, fds,
           SingleInv, SingleThreaded, Busy, Running
  <2>4. RingInv'
    BY <1>13, <1>a, <1>b
       DEF JoinThread, options, worker, idle, recycling, fds,
           RingInv, Ending
  <2>5. KnownInv'
    BY <1>13, <1>a, <1>b
       DEF JoinThread, options, worker, idle, recycling, fds,
           KnownInv, Ending, SingleThreaded, Threads
  <2>6. IdleInv'
    BY <1>13, <1>a, <1>b
       DEF JoinThread, options, worker, idle, recycling, fds,
           IdleInv, Offered
  <2> QED
    BY <2>1, <2>2, <2>3, <2>4, <2>5, <2>6 DEF EndInv
<1>14. ASSUME Finish
     PROVE  EndInv'
  <2>1. StackInv'
    BY <1>14, <1>a, <1>b
       DEF Finish, options, worker, idle, recycling, fds,
           StackInv, Ending, Threads
  <2>2. TermInv'
    BY <1>14, <1>a, <1>b
       DEF Finish, options, worker, idle, recycling, fds,
           TermInv, Ending, Busy, Running
  <2>3. SingleInv'
    BY <1>14, <1>a, <1>b
       DEF Finish, options, worker, idle, recycling, fds,
           SingleInv, SingleThreaded, Busy, Running
  <2>4. RingInv'
    BY <1>14, <1>a, <1>b
       DEF Finish, options, worker, idle, recycling, fds,
           RingInv, Ending
  <2>5. KnownInv'
    BY <1>14, <1>a, <1>b
       DEF Finish, options, worker, idle, recycling, fds,
           KnownInv, Ending, SingleThreaded, Threads
  <2>6. IdleInv'
    BY <1>14, <1>a, <1>b
       DEF Finish, options, worker, idle, recycling, fds,
           IdleInv, Offered
  <2> QED
    BY <2>1, <2>2, <2>3, <2>4, <2>5, <2>6 DEF EndInv
<1>15. ASSUME NEW t \in Threads, TakeTask(t)
     PROVE  EndInv'
  <2>0. /\ UNCHANGED <<file, nthreads, wpc, lineno, wt, all_threads, terminate,
                       rthread_buffer>>
        /\ tpc[t] \in {"drain", "last"} /\ tasks[t] # << >>
        /\ \A u \in Threads : tpc'[u] = IF u = t THEN "run" ELSE tpc[u]
        /\ \A u \in Threads : ret'[u] = IF u = t THEN tpc[t] ELSE ret[u]
        /\ \A u \in Threads : u # t => tasks'[u] = tasks[u]
    <3>1. /\ tpc[t] \in {"drain", "last"} /\ tasks[t] # << >>
          /\ tasks' = [tasks EXCEPT ![t] = Tail(tasks[t])]
          /\ ret' = [ret EXCEPT ![t] = tpc[t]]
          /\ tpc' = [tpc EXCEPT ![t] = "run"]
      BY <1>15, TakeTaskEffect
    <3> QED
      BY <1>15, <1>a, <3>1 DEF TakeTask, options, worker, idle, TypeOK
  <2>1. StackInv'
    BY <1>b, <2>0 DEF StackInv, Ending, Threads
  <2>2. TermInv'
    BY <1>b, <2>0 DEF TermInv, Ending, Busy, Running
  <2>3. SingleInv'
    BY <1>b, <2>0 DEF SingleInv, SingleThreaded, Busy, Running
  <2>4. RingInv'
    BY <1>b, <2>0 DEF RingInv, Ending
  <2>5. KnownInv'
    BY <1>15, <1>a, <1>b
       DEF TakeTask, options, worker, idle, recycling, fds,
           KnownInv, Ending, SingleThreaded, Threads
  <2>6. IdleInv'
    BY <1>b, <2>0 DEF IdleInv, Offered
  <2> QED
    BY <2>1, <2>2, <2>3, <2>4, <2>5, <2>6 DEF EndInv
<1>16. ASSUME NEW t \in Threads, RecycleTask(t)
     PROVE  EndInv'
  <2>0. /\ UNCHANGED <<file, nthreads, wpc, lineno, wt, all_threads, terminate,
                       rthread_buffer, tasks, ret>>
        /\ tpc[t] = "recycle" /\ ret[t] \in {"inline", "drain", "last"}
        /\ \A u \in Threads : tpc'[u] = IF u = t THEN ret[t] ELSE tpc[u]
    BY <1>16, <1>a
       DEF RecycleTask, Goto, options, worker, idle, TypeOK, ControlInv, Busy
  <2>1. StackInv'
    <3>1. ret[t] = "inline" => all_threads = << >>
      BY <1>a, <1>b DEF SingleInv, StartInv
    <3>2. t > Len(all_threads) /\ Ending => wpc = "joining" /\ t = wt
      BY <1>b, <2>0 DEF StackInv
    <3>3. t <= Len(all_threads) => ret[t] # "inline"
      BY <3>1 DEF Threads
    <3> QED
      BY <1>b, <2>0, <3>2, <3>3 DEF StackInv, Ending
  <2>2. TermInv'
    BY <1>b, <2>0 DEF TermInv, Ending, Busy, Running
  <2>3. SingleInv'
    BY <1>b, <2>0 DEF SingleInv, SingleThreaded, Busy, Running
  <2>4. RingInv'
    <3>1. ret[t] = "inline" => tasks[t] = << >>
      BY <1>b DEF SingleInv
    <3> QED
      BY <1>b, <2>0, <3>1 DEF RingInv
  <2>5. KnownInv'
    BY <1>16, <1>a, <1>b
       DEF RecycleTask, options, worker, idle, recycling, fds,
           KnownInv, Ending, SingleThreaded, Threads
  <2>6. IdleInv'
    BY <1>b, <2>0 DEF IdleInv, Offered
  <2> QED
    BY <2>1, <2>2, <2>3, <2>4, <2>5, <2>6 DEF EndInv
<1>17. ASSUME UNCHANGED vars
     PROVE  EndInv'
  BY <1>17, <1>b
     DEF vars, options, worker, idle, recycling, fds, EndInv, StackInv, TermInv, SingleInv, RingInv, KnownInv,
         IdleInv, Offered, Ending, SingleThreaded
<1>18. ASSUME NEW t \in Threads, LeaveWait(t)
     PROVE  EndInv'
  <2> DEFINE to == "drain"
  <2>1. /\ tpc' = [tpc EXCEPT ![t] = to]
        /\ tpc[t] \notin {"none", "inline", "exit", "freed"}
        /\ to \in ThreadPCs \ {"none", "inline", "freed"}
        /\ to \in {"last", "exit"} => terminate[t]
        /\ to \in Busy => tpc[t] \in Busy
        /\ SingleThreaded => to \in Busy
        /\ to = "exit" => tasks[t] = << >>
    BY <1>18, <1>b
       DEF LeaveWait, Goto, HandlerDone, ThreadPCs, Busy, Running, SingleInv, TermInv
  <2>2. /\ UNCHANGED <<file, nthreads, wpc, lineno, wt, all_threads, rthread_map,
                       terminate, ret, tasks>>
        /\ rthread_buffer' = rthread_buffer
    BY <1>18 DEF LeaveWait, options, worker, idle, recycling, fds
  <2>3. to \in {"check", "wait"} /\ tasks[t] = << >> /\ ~terminate[t] => Offered(t)'
    BY <1>18, <1>b, <2>2 DEF LeaveWait, IdleInv, Offered
  <2> HIDE DEF to
  <2> QED
    BY <2>1, <2>2, <2>3, MoveKeepsEnd
<1>19. ASSUME NEW t \in Threads, Drained(t)
     PROVE  EndInv'
  <2> DEFINE to == "idle"
  <2>1. /\ tpc' = [tpc EXCEPT ![t] = to]
        /\ tpc[t] \notin {"none", "inline", "exit", "freed"}
        /\ to \in ThreadPCs \ {"none", "inline", "freed"}
        /\ to \in {"last", "exit"} => terminate[t]
        /\ to \in Busy => tpc[t] \in Busy
        /\ SingleThreaded => to \in Busy
        /\ to = "exit" => tasks[t] = << >>
    BY <1>19, <1>b
       DEF Drained, Goto, HandlerDone, ThreadPCs, Busy, Running, SingleInv, TermInv
  <2>2. /\ UNCHANGED <<file, nthreads, wpc, lineno, wt, all_threads, rthread_map,
                       terminate, ret, tasks>>
        /\ rthread_buffer' = rthread_buffer
    BY <1>19 DEF Drained, options, worker, idle, recycling, fds
  <2>3. to \in {"check", "wait"} /\ tasks[t] = << >> /\ ~terminate[t] => Offered(t)'
    BY <1>19, <1>b, <2>2 DEF Drained, IdleInv, Offered
  <2> HIDE DEF to
  <2> QED
    BY <2>1, <2>2, <2>3, MoveKeepsEnd
<1>20. ASSUME NEW t \in Threads, Idle(t)
     PROVE  EndInv'
  <2> DEFINE to == IF terminate[t] \/ tasks[t] # << >> THEN "check" ELSE "recheck"
  <2>1. /\ tpc' = [tpc EXCEPT ![t] = to]
        /\ tpc[t] \notin {"none", "inline", "exit", "freed"}
        /\ to \in ThreadPCs \ {"none", "inline", "freed"}
        /\ to \in {"last", "exit"} => terminate[t]
        /\ to \in Busy => tpc[t] \in Busy
        /\ SingleThreaded => to \in Busy
        /\ to = "exit" => tasks[t] = << >>
    BY <1>20, <1>b
       DEF Idle, Goto, HandlerDone, ThreadPCs, Busy, Running, SingleInv, TermInv
  <2>2. /\ UNCHANGED <<file, nthreads, wpc, lineno, wt, all_threads, rthread_map,
                       terminate, ret, tasks>>
        /\ rthread_buffer' = rthread_buffer
    BY <1>20 DEF Idle, options, worker, idle, recycling, fds
  <2>3. to \in {"check", "wait"} /\ tasks[t] = << >> /\ ~terminate[t] => Offered(t)'
    BY <1>20, <1>b, <2>2 DEF Idle, IdleInv, Offered
  <2> HIDE DEF to
  <2> QED
    BY <2>1, <2>2, <2>3, MoveKeepsEnd
<1>21. ASSUME NEW t \in Threads, Recheck(t)
     PROVE  EndInv'
  <2> DEFINE to == IF tasks[t] # << >> THEN "check" ELSE "lock"
  <2>1. /\ tpc' = [tpc EXCEPT ![t] = to]
        /\ tpc[t] \notin {"none", "inline", "exit", "freed"}
        /\ to \in ThreadPCs \ {"none", "inline", "freed"}
        /\ to \in {"last", "exit"} => terminate[t]
        /\ to \in Busy => tpc[t] \in Busy
        /\ SingleThreaded => to \in Busy
        /\ to = "exit" => tasks[t] = << >>
    BY <1>21, <1>b
       DEF Recheck, Goto, HandlerDone, ThreadPCs, Busy, Running, SingleInv, TermInv
  <2>2. /\ UNCHANGED <<file, nthreads, wpc, lineno, wt, all_threads, rthread_map,
                       terminate, ret, tasks>>
        /\ rthread_buffer' = rthread_buffer
    BY <1>21 DEF Recheck, options, worker, idle, recycling, fds
  <2>3. to \in {"check", "wait"} /\ tasks[t] = << >> /\ ~terminate[t] => Offered(t)'
    BY <1>21, <1>b, <2>2 DEF Recheck, IdleInv, Offered
  <2> HIDE DEF to
  <2> QED
    BY <2>1, <2>2, <2>3, MoveKeepsEnd
<1>22. ASSUME NEW t \in Threads, LockRthreadBuffer(t)
     PROVE  EndInv'
  <2> DEFINE to == "locked"
  <2>1. /\ tpc' = [tpc EXCEPT ![t] = to]
        /\ tpc[t] \notin {"none", "inline", "exit", "freed"}
        /\ to \in ThreadPCs \ {"none", "inline", "freed"}
        /\ to \in {"last", "exit"} => terminate[t]
        /\ to \in Busy => tpc[t] \in Busy
        /\ SingleThreaded => to \in Busy
        /\ to = "exit" => tasks[t] = << >>
    BY <1>22, <1>b
       DEF LockRthreadBuffer, Goto, HandlerDone, ThreadPCs, Busy, Running, SingleInv, TermInv
  <2>2. /\ UNCHANGED <<file, nthreads, wpc, lineno, wt, all_threads, rthread_map,
                       terminate, ret, tasks>>
        /\ rthread_buffer' = rthread_buffer
    BY <1>22 DEF LockRthreadBuffer, options, worker, idle, recycling, fds
  <2>3. to \in {"check", "wait"} /\ tasks[t] = << >> /\ ~terminate[t] => Offered(t)'
    BY <1>22, <1>b, <2>2 DEF LockRthreadBuffer, IdleInv, Offered
  <2> HIDE DEF to
  <2> QED
    BY <2>1, <2>2, <2>3, MoveKeepsEnd
<1>23. ASSUME NEW t \in Threads, CheckTerminate(t)
     PROVE  EndInv'
  <2> DEFINE to == IF terminate[t] THEN "last" ELSE "wait"
  <2>1. /\ tpc' = [tpc EXCEPT ![t] = to]
        /\ tpc[t] \notin {"none", "inline", "exit", "freed"}
        /\ to \in ThreadPCs \ {"none", "inline", "freed"}
        /\ to \in {"last", "exit"} => terminate[t]
        /\ to \in Busy => tpc[t] \in Busy
        /\ SingleThreaded => to \in Busy
        /\ to = "exit" => tasks[t] = << >>
    BY <1>23, <1>b
       DEF CheckTerminate, Goto, HandlerDone, ThreadPCs, Busy, Running, SingleInv, TermInv
  <2>2. /\ UNCHANGED <<file, nthreads, wpc, lineno, wt, all_threads, rthread_map,
                       terminate, ret, tasks>>
        /\ rthread_buffer' = rthread_buffer
    BY <1>23 DEF CheckTerminate, options, worker, idle, recycling, fds
  <2>3. to \in {"check", "wait"} /\ tasks[t] = << >> /\ ~terminate[t] => Offered(t)'
    BY <1>23, <1>b, <2>2 DEF CheckTerminate, IdleInv, Offered
  <2> HIDE DEF to
  <2> QED
    BY <2>1, <2>2, <2>3, MoveKeepsEnd
<1>24. ASSUME NEW t \in Threads, Exit(t)
     PROVE  EndInv'
  <2> DEFINE to == "exit"
  <2>1. /\ tpc' = [tpc EXCEPT ![t] = to]
        /\ tpc[t] \notin {"none", "inline", "exit", "freed"}
        /\ to \in ThreadPCs \ {"none", "inline", "freed"}
        /\ to \in {"last", "exit"} => terminate[t]
        /\ to \in Busy => tpc[t] \in Busy
        /\ SingleThreaded => to \in Busy
        /\ to = "exit" => tasks[t] = << >>
    BY <1>24, <1>b
       DEF Exit, Goto, HandlerDone, ThreadPCs, Busy, Running, SingleInv, TermInv
  <2>2. /\ UNCHANGED <<file, nthreads, wpc, lineno, wt, all_threads, rthread_map,
                       terminate, ret, tasks>>
        /\ rthread_buffer' = rthread_buffer
    BY <1>24 DEF Exit, options, worker, idle, recycling, fds
  <2>3. to \in {"check", "wait"} /\ tasks[t] = << >> /\ ~terminate[t] => Offered(t)'
    BY <1>24, <1>b, <2>2 DEF Exit, IdleInv, Offered
  <2> HIDE DEF to
  <2> QED
    BY <2>1, <2>2, <2>3, MoveKeepsEnd
<1>25. ASSUME NEW t \in Threads, PathOp(t)
     PROVE  EndInv'
  <2> DEFINE to == "recycle"
  <2>1. /\ tpc' = [tpc EXCEPT ![t] = to]
        /\ tpc[t] \notin {"none", "inline", "exit", "freed"}
        /\ to \in ThreadPCs \ {"none", "inline", "freed"}
        /\ to \in {"last", "exit"} => terminate[t]
        /\ to \in Busy => tpc[t] \in Busy
        /\ SingleThreaded => to \in Busy
        /\ to = "exit" => tasks[t] = << >>
    BY <1>25, <1>b
       DEF PathOp, Goto, HandlerDone, ThreadPCs, Busy, Running, SingleInv, TermInv
  <2>2. /\ UNCHANGED <<file, nthreads, wpc, lineno, wt, all_threads, rthread_map,
                       terminate, ret, tasks>>
        /\ rthread_buffer' = rthread_buffer
    BY <1>25 DEF PathOp, options, worker, idle, recycling, fds
  <2>3. to \in {"check", "wait"} /\ tasks[t] = << >> /\ ~terminate[t] => Offered(t)'
    BY <1>25, <1>b, <2>2 DEF PathOp, IdleInv, Offered
  <2> HIDE DEF to
  <2> QED
    BY <2>1, <2>2, <2>3, MoveKeepsEnd
<1>26. ASSUME NEW t \in Threads, Open(t)
     PROVE  EndInv'
  <2> DEFINE to == "recycle"
  <2>1. /\ tpc' = [tpc EXCEPT ![t] = to]
        /\ tpc[t] \notin {"none", "inline", "exit", "freed"}
        /\ to \in ThreadPCs \ {"none", "inline", "freed"}
        /\ to \in {"last", "exit"} => terminate[t]
        /\ to \in Busy => tpc[t] \in Busy
        /\ SingleThreaded => to \in Busy
        /\ to = "exit" => tasks[t] = << >>
    BY <1>26, <1>b
       DEF Open, Goto, HandlerDone, ThreadPCs, Busy, Running, SingleInv, TermInv
  <2>2. /\ UNCHANGED <<file, nthreads, wpc, lineno, wt, all_threads, rthread_map,
                       terminate, ret, tasks>>
        /\ rthread_buffer' = rthread_buffer
    BY <1>26 DEF Open, options, worker, idle, recycling, fds
  <2>3. to \in {"check", "wait"} /\ tasks[t] = << >> /\ ~terminate[t] => Offered(t)'
    BY <1>26, <1>b, <2>2 DEF Open, IdleInv, Offered
  <2> HIDE DEF to
  <2> QED
    BY <2>1, <2>2, <2>3, MoveKeepsEnd
<1>27. ASSUME NEW t \in Threads, UseFd(t)
     PROVE  EndInv'
  <2> DEFINE to == "recycle"
  <2>1. /\ tpc' = [tpc EXCEPT ![t] = to]
        /\ tpc[t] \notin {"none", "inline", "exit", "freed"}
        /\ to \in ThreadPCs \ {"none", "inline", "freed"}
        /\ to \in {"last", "exit"} => terminate[t]
        /\ to \in Busy => tpc[t] \in Busy
        /\ SingleThreaded => to \in Busy
        /\ to = "exit" => tasks[t] = << >>
    BY <1>27, <1>b
       DEF UseFd, Goto, HandlerDone, ThreadPCs, Busy, Running, SingleInv, TermInv
  <2>2. /\ UNCHANGED <<file, nthreads, wpc, lineno, wt, all_threads, rthread_map,
                       terminate, ret, tasks>>
        /\ rthread_buffer' = rthread_buffer
    BY <1>27 DEF UseFd, options, worker, idle, recycling, fds
  <2>3. to \in {"check", "wait"} /\ tasks[t] = << >> /\ ~terminate[t] => Offered(t)'
    BY <1>27, <1>b, <2>2 DEF UseFd, IdleInv, Offered
  <2> HIDE DEF to
  <2> QED
    BY <2>1, <2>2, <2>3, MoveKeepsEnd
<1>28. ASSUME NEW t \in Threads, DestroyFd(t)
     PROVE  EndInv'
  <2> DEFINE to == "recycle"
  <2>1. /\ tpc' = [tpc EXCEPT ![t] = to]
        /\ tpc[t] \notin {"none", "inline", "exit", "freed"}
        /\ to \in ThreadPCs \ {"none", "inline", "freed"}
        /\ to \in {"last", "exit"} => terminate[t]
        /\ to \in Busy => tpc[t] \in Busy
        /\ SingleThreaded => to \in Busy
        /\ to = "exit" => tasks[t] = << >>
    BY <1>28, <1>b
       DEF DestroyFd, Goto, HandlerDone, ThreadPCs, Busy, Running, SingleInv, TermInv
  <2>2. /\ UNCHANGED <<file, nthreads, wpc, lineno, wt, all_threads, rthread_map,
                       terminate, ret, tasks>>
        /\ rthread_buffer' = rthread_buffer
    BY <1>28 DEF DestroyFd, options, worker, idle, recycling, fds
  <2>3. to \in {"check", "wait"} /\ tasks[t] = << >> /\ ~terminate[t] => Offered(t)'
    BY <1>28, <1>b, <2>2 DEF DestroyFd, IdleInv, Offered
  <2> HIDE DEF to
  <2> QED
    BY <2>1, <2>2, <2>3, MoveKeepsEnd
<1>29. ASSUME NEW t \in Threads, LookLocked(t)
     PROVE  EndInv'
  <2> SUFFICES ASSUME NEW to \in {"check", "offer"}, tpc' = [tpc EXCEPT ![t] = to]
               PROVE  EndInv'
    BY <1>29 DEF LookLocked, Goto, HandlerDone
  <2>1. /\ tpc[t] \notin {"none", "inline", "exit", "freed"}
        /\ to \in ThreadPCs \ {"none", "inline", "freed", "last", "exit"}
        /\ to \in Busy => tpc[t] \in Busy
        /\ SingleThreaded => to \in Busy
    BY <1>29, <1>b DEF LookLocked, Goto, HandlerDone, ThreadPCs, Busy, Running, SingleInv
  <2>2. /\ UNCHANGED <<file, nthreads, wpc, lineno, wt, all_threads, rthread_map,
                       terminate, ret, tasks>>
        /\ \/ rthread_buffer' = rthread_buffer
           \/ rthread_buffer' = Append(rthread_buffer, t) /\ ~SingleThreaded
    BY <1>29, <1>b DEF LookLocked, SingleInv, Busy, Running, options, worker, idle, recycling, fds
  <2>3. to \in {"check", "wait"} /\ tasks[t] = << >> /\ ~terminate[t] => Offered(t)'
    BY <1>29, <1>a, <1>b, <2>2 DEF LookLocked, Goto, TypeOK, IdleInv, Offered
  <2> QED
    BY <2>1, <2>2, <2>3, MoveKeepsEnd
<1>30. ASSUME NEW t \in Threads, Offer(t)
     PROVE  EndInv'
  <2> SUFFICES ASSUME NEW to \in {"check", "idle"}, tpc' = [tpc EXCEPT ![t] = to]
               PROVE  EndInv'
    BY <1>30 DEF Offer, Goto, HandlerDone
  <2>1. /\ tpc[t] \notin {"none", "inline", "exit", "freed"}
        /\ to \in ThreadPCs \ {"none", "inline", "freed", "last", "exit"}
        /\ to \in Busy => tpc[t] \in Busy
        /\ SingleThreaded => to \in Busy
    BY <1>30, <1>b DEF Offer, Goto, HandlerDone, ThreadPCs, Busy, Running, SingleInv
  <2>2. /\ UNCHANGED <<file, nthreads, wpc, lineno, wt, all_threads, rthread_map,
                       terminate, ret, tasks>>
        /\ \/ rthread_buffer' = rthread_buffer
           \/ rthread_buffer' = Append(rthread_buffer, t) /\ ~SingleThreaded
    BY <1>30, <1>b DEF Offer, SingleInv, Busy, Running, options, worker, idle, recycling, fds
  <2>3. to \in {"check", "wait"} /\ tasks[t] = << >> /\ ~terminate[t] => Offered(t)'
    BY SMTT(30), <1>30, <1>a, <1>b, <2>2 DEF Offer, Goto, TypeOK, IdleInv, Offered
  <2> QED
    BY <2>1, <2>2, <2>3, MoveKeepsEnd
<1>31. ASSUME NEW t \in Threads, LookupFd(t)
     PROVE  EndInv'
  <2> SUFFICES ASSUME NEW to \in {"use", "recycle"}, tpc' = [tpc EXCEPT ![t] = to]
               PROVE  EndInv'
    BY <1>31 DEF LookupFd, Goto, HandlerDone
  <2>1. /\ tpc[t] \notin {"none", "inline", "exit", "freed"}
        /\ to \in ThreadPCs \ {"none", "inline", "freed", "last", "exit"}
        /\ to \in Busy => tpc[t] \in Busy
        /\ SingleThreaded => to \in Busy
    BY <1>31, <1>b DEF LookupFd, Goto, HandlerDone, ThreadPCs, Busy, Running, SingleInv
  <2>2. /\ UNCHANGED <<file, nthreads, wpc, lineno, wt, all_threads, rthread_map,
                       terminate, ret, tasks>>
        /\ \/ rthread_buffer' = rthread_buffer
           \/ rthread_buffer' = Append(rthread_buffer, t) /\ ~SingleThreaded
    BY <1>31, <1>b DEF LookupFd, SingleInv, Busy, Running, options, worker, idle, recycling, fds
  <2>3. to \in {"check", "wait"} /\ tasks[t] = << >> /\ ~terminate[t] => Offered(t)'
    BY <1>31, <1>a, <1>b, <2>2 DEF LookupFd, Goto, TypeOK, IdleInv, Offered
  <2> QED
    BY <2>1, <2>2, <2>3, MoveKeepsEnd
<1>32. ASSUME NEW t \in Threads, UnsetFd(t)
     PROVE  EndInv'
  <2> SUFFICES ASSUME NEW to \in {"close", "recycle"}, tpc' = [tpc EXCEPT ![t] = to]
               PROVE  EndInv'
    BY <1>32 DEF UnsetFd, Goto, HandlerDone
  <2>1. /\ tpc[t] \notin {"none", "inline", "exit", "freed"}
        /\ to \in ThreadPCs \ {"none", "inline", "freed", "last", "exit"}
        /\ to \in Busy => tpc[t] \in Busy
        /\ SingleThreaded => to \in Busy
    BY <1>32, <1>b DEF UnsetFd, Goto, HandlerDone, ThreadPCs, Busy, Running, SingleInv
  <2>2. /\ UNCHANGED <<file, nthreads, wpc, lineno, wt, all_threads, rthread_map,
                       terminate, ret, tasks>>
        /\ \/ rthread_buffer' = rthread_buffer
           \/ rthread_buffer' = Append(rthread_buffer, t) /\ ~SingleThreaded
    BY <1>32, <1>b DEF UnsetFd, SingleInv, Busy, Running, options, worker, idle, recycling, fds
  <2>3. to \in {"check", "wait"} /\ tasks[t] = << >> /\ ~terminate[t] => Offered(t)'
    BY <1>32, <1>a, <1>b, <2>2 DEF UnsetFd, Goto, TypeOK, IdleInv, Offered
  <2> QED
    BY <2>1, <2>2, <2>3, MoveKeepsEnd
<1> QED
  BY <1>1, <1>2, <1>3, <1>4, <1>5, <1>6, <1>7, <1>8, <1>9, <1>10, <1>11, <1>12, <1>13, <1>14, <1>15, <1>16, <1>17, <1>18, <1>19, <1>20, <1>21, <1>22, <1>23, <1>24, <1>25, <1>26, <1>27, <1>28, <1>29, <1>30, <1>31, <1>32
     DEF Next, WorkerStep, PickThread, ThreadStep, IdleLoop, ProcessTask, Terminated

THEOREM EndInvariance == Spec => [](TypeInv /\ EndInv)
<1>1. Init => EndInv
  BY InitEndInv
<1>2. TypeInv /\ EndInv /\ [Next]_vars => EndInv'
  BY NextEndInv
<1> QED
  BY <1>1, <1>2, TypeInvariance, PTL DEF Spec

(* When a thread has ended and is destroyed there is no task left in its   *)
(* ring, and the worker gives it none (rthread.c:194).                     *)
THEOREM NoTaskLeftHolds == Spec => []NoTaskLeft
<1>1. TypeInv /\ EndInv => NoTaskLeft
  BY DEF EndInv, RingInv, NoTaskLeft
<1> QED
  BY <1>1, EndInvariance, PTL

(* A thread that sleeps without a task is in rthread_buffer, or the worker *)
(* is about to give it one (rthread.c:100-125, rworker.c:252).             *)
THEOREM NoThreadLostHolds == Spec => []NoThreadLost
<1>1. TypeInv /\ EndInv => NoThreadLost
  BY DEF EndInv, IdleInv, Offered, NoThreadLost
<1> QED
  BY <1>1, EndInvariance, PTL

-----------------------------------------------------------------------------
(* Every task object stays in somebody's hands until it is freed.          *)
THEOREM NextAllHeld == TypeInv /\ AllHeld /\ [Next]_vars => AllHeld'
<1> SUFFICES ASSUME TypeInv, AllHeld, [Next]_vars, NEW k \in Tasks, line'[k] # 0
             PROVE  Held(k)'
  BY DEF AllHeld
<1>a. TypeOK /\ ControlInv
  BY DEF TypeInv
<1>b. StartInv
  BY DEF TypeInv
<1> USE NoneAssumption
<1>1. ASSUME UNCHANGED <<line, wtask, cur, tasks, task_buffer>>
      PROVE  Held(k)'
  BY <1>1 DEF AllHeld, Held
<1>2. CASE GetTask
  <2>1. /\ wtask = None /\ UNCHANGED <<cur, tasks>>
        /\ line' = [line EXCEPT ![wtask'] = lineno]
    BY <1>2, <1>a DEF GetTask, ControlInv
  <2>2. CASE k = wtask'
    BY <2>2 DEF Held
  <2>3. CASE k # wtask'
    <3>1. Held(k)
      BY <1>a, <2>1, <2>3 DEF AllHeld, TypeOK
    <3>2. ASSUME NEW i \in DOMAIN task_buffer, task_buffer[i] = k
          PROVE  \E j \in DOMAIN task_buffer' : task_buffer'[j] = k
      <4>1. CASE task_buffer # << >>
        <5>1. wtask' = task_buffer[1] /\ task_buffer' = Tail(task_buffer)
          BY <1>2, <1>a, <4>1, TailElements DEF GetTask, TypeOK
        <5> QED
          BY <1>a, <2>3, <3>2, <4>1, <5>1, TailShift DEF TypeOK
      <4>2. CASE task_buffer = << >>
        BY <1>2, <3>2, <4>2 DEF GetTask
      <4> QED
        BY <4>1, <4>2
    <3> QED
      BY <2>1, <3>1, <3>2 DEF Held
  <2> QED
    BY <2>2, <2>3
<1>3. CASE InsertTask
  <2>1. /\ \A t \in Threads : \A i \in DOMAIN tasks[t] :
             i \in DOMAIN tasks'[t] /\ tasks'[t][i] = tasks[t][i]
        /\ wt \in Threads /\ \E i \in DOMAIN tasks'[wt] : tasks'[wt][i] = wtask
        /\ UNCHANGED <<line, cur, task_buffer>>
    BY <1>3, InsertTaskEffect DEF InsertTask, recycling
  <2> QED
    BY <2>1 DEF AllHeld, Held
<1>4. CASE RunInline
  <2>1. /\ UNCHANGED <<line, tasks, task_buffer>> /\ wt \in Threads
        /\ cur[wt] = None
        /\ cur'[wt] = wtask /\ \A t \in Threads : t # wt => cur'[t] = cur[t]
    <3>1. /\ wt \in Threads /\ wpc = "insert" /\ Len(all_threads) = 0 /\ wt > 0
      BY <1>4, <1>a, <1>b DEF RunInline, ControlInv, StartInv, Threads
    <3>2. cur[wt] = None
      BY <1>a, <1>b, <3>1 DEF StartInv, ControlInv, Busy, Running
    <3> QED
      BY <1>4, <1>a, <3>1, <3>2 DEF RunInline, recycling, TypeOK
  <2> QED
    BY <2>1 DEF AllHeld, Held
<1>5. ASSUME NEW t \in Threads, TakeTask(t)
      PROVE  Held(k)'
  <2>1. /\ UNCHANGED <<line, wtask, task_buffer>> /\ cur[t] = None
        /\ \A u \in Threads : cur'[u] = IF u = t THEN tasks[t][1] ELSE cur[u]
    BY <1>5, TakeTaskEffect DEF TakeTask, worker, recycling
  <2>2. /\ tasks'[t] = Tail(tasks[t])
        /\ \A u \in Threads : u # t => tasks'[u] = tasks[u]
        /\ \A i \in DOMAIN tasks[t] :
             i = 1 \/ (i - 1 \in DOMAIN tasks'[t] /\ tasks'[t][i - 1] = tasks[t][i])
    <3>1. /\ tasks' = [tasks EXCEPT ![t] = Tail(tasks[t])]
          /\ tasks[t] \in Seq(Tasks) /\ tasks[t] # << >>
      BY <1>5, TakeTaskEffect
    <3>2. tasks'[t] = Tail(tasks[t]) /\ \A u \in Threads : u # t => tasks'[u] = tasks[u]
      BY <1>a, <3>1 DEF TypeOK
    <3> QED
      BY ZenonT(40), <3>1, <3>2, TailShift
  <2>3. ASSUME NEW u \in Threads, NEW i \in DOMAIN tasks[u], tasks[u][i] = k
        PROVE  Held(k)'
    <3>1. CASE u = t /\ i = 1
      <4>1. cur'[t] = k
        BY <2>1, <2>3, <3>1
      <4> QED
        BY <4>1 DEF Held
    <3>2. CASE u = t /\ i # 1
      <4>1. i - 1 \in DOMAIN tasks'[t] /\ tasks'[t][i - 1] = k
        BY <2>2, <2>3, <3>2
      <4> QED
        BY <4>1 DEF Held
    <3>3. CASE u # t
      <4>1. i \in DOMAIN tasks'[u] /\ tasks'[u][i] = k
        BY <2>2, <2>3, <3>3
      <4> QED
        BY <4>1 DEF Held
    <3> QED
      BY <3>1, <3>2, <3>3
  <2>4. ASSUME NEW u \in Threads, cur[u] = k
        PROVE  Held(k)'
    BY <1>a, <2>1, <2>4 DEF Held, TypeOK
  <2> QED
    BY <2>1, <2>3, <2>4 DEF AllHeld, Held
<1>6. ASSUME NEW t \in Threads, RecycleTask(t)
      PROVE  Held(k)'
  <2>1. /\ UNCHANGED <<wtask, tasks>> /\ cur[t] \in Tasks
        /\ \A u \in Threads : u # t => cur'[u] = cur[u]
    BY <1>6, <1>a DEF RecycleTask, worker, TypeOK, ControlInv, Busy
  <2>2. CASE task_buffer' = Append(task_buffer, cur[t]) /\ line' = line
    <3>1. /\ DOMAIN task_buffer' = 1 .. Len(task_buffer) + 1
          /\ DOMAIN task_buffer = 1 .. Len(task_buffer) /\ Len(task_buffer) \in Nat
          /\ \A i \in DOMAIN task_buffer : task_buffer'[i] = task_buffer[i]
          /\ task_buffer'[Len(task_buffer) + 1] = cur[t]
      BY SMTT(30), <1>a, <2>1, <2>2, AppendElements DEF TypeOK
    <3>2. \A i \in DOMAIN task_buffer : i \in DOMAIN task_buffer'
      BY <3>1
    <3>3. \E i \in DOMAIN task_buffer' : task_buffer'[i] = cur[t]
      BY <3>1
    <3> QED
      BY <2>1, <2>2, <3>1, <3>2, <3>3 DEF AllHeld, Held
  <2>3. CASE line' = [line EXCEPT ![cur[t]] = 0] /\ task_buffer' = task_buffer
    <3>1. k # cur[t] /\ line[k] # 0
      BY <1>a, <2>1, <2>3 DEF TypeOK
    <3> QED
      BY <2>1, <2>3, <3>1 DEF AllHeld, Held
  <2> QED
    BY <1>6, <2>2, <2>3 DEF RecycleTask
<1> QED
  BY <1>1, <1>2, <1>3, <1>4, <1>5, <1>6
     DEF Next, WorkerStep, PickThread, ThreadStep, IdleLoop, ProcessTask, Terminated,
         ReadLine, EndOfLines, UseSingleThread, PickMapped, RecycleThread,
         AwaitThread, CreateThread, InlineDone, TerminateThread, JoinThread, Finish,
         LeaveWait, Drained, Idle, Recheck, LockRthreadBuffer, LookLocked, Offer,
         CheckTerminate, Exit, PathOp, Open, LookupFd, UseFd, UnsetFd, DestroyFd,
         vars, options, worker, idle, recycling, fds

(* The places of a task object, one by one.                                *)
LEMMA PlaceFacts ==
  ASSUME NEW k, NEW p
  PROVE  p \in Places(k) <=>
           \/ p = <<"worker", 0, 0>> /\ wtask = k
           \/ \E t \in Threads : p = <<"thread", t, 0>> /\ cur[t] = k
           \/ \E i \in DOMAIN task_buffer :
                p = <<"buffer", 0, i>> /\ task_buffer[i] = k
           \/ \E t \in Threads : \E i \in DOMAIN tasks[t] :
                p = <<"ring", t, i>> /\ tasks[t][i] = k
<1>1. p \in {<<"worker", 0, 0>> : x \in {wtask} \cap {k}}
        <=> p = <<"worker", 0, 0>> /\ wtask = k
  OBVIOUS
<1>2. p \in {<<"thread", t, 0>> : t \in {u \in Threads : cur[u] = k}}
        <=> \E t \in Threads : p = <<"thread", t, 0>> /\ cur[t] = k
  OBVIOUS
<1>3. p \in {<<"buffer", 0, i>> : i \in Positions(task_buffer, k)}
        <=> \E i \in DOMAIN task_buffer : p = <<"buffer", 0, i>> /\ task_buffer[i] = k
  BY DEF Positions
<1>4. p \in UNION {{<<"ring", t, i>> : i \in Positions(tasks[t], k)} : t \in Threads}
        <=> \E t \in Threads : \E i \in DOMAIN tasks[t] :
              p = <<"ring", t, i>> /\ tasks[t][i] = k
  BY DEF Positions
<1> QED
  BY <1>1, <1>2, <1>3, <1>4 DEF Places

(* A task object that two places hold would be held twice.                 *)
LEMMA OnePlaceAtMost ==
  ASSUME TypeInv, NEW k \in Tasks, NEW p \in Places(k), NEW q \in Places(k)
  PROVE  p = q
<1>a. HeldOnce
  BY DEF TypeInv
<1> USE NoneAssumption
<1>1. CASE p = <<"worker", 0, 0>> /\ wtask = k
  BY <1>a, <1>1, PlaceFacts DEF HeldOnce
<1>2. ASSUME NEW t \in Threads, p = <<"thread", t, 0>>, cur[t] = k
      PROVE  p = q
  BY <1>a, <1>2, PlaceFacts DEF HeldOnce
<1>3. ASSUME NEW i \in DOMAIN task_buffer, p = <<"buffer", 0, i>>, task_buffer[i] = k
      PROVE  p = q
  BY <1>a, <1>3, PlaceFacts DEF HeldOnce
<1>4. ASSUME NEW t \in Threads, NEW i \in DOMAIN tasks[t],
             p = <<"ring", t, i>>, tasks[t][i] = k
      PROVE  p = q
  BY <1>a, <1>4, PlaceFacts DEF HeldOnce
<1> QED
  BY <1>1, <1>2, <1>3, <1>4, PlaceFacts

(* A task object is in exactly one place while it is allocated, and in     *)
(* none once it is freed, however the worker and its threads recycle it    *)
(* (rthread.c:49-70, rworker.c:267-276).                                   *)
THEOREM TaskInOnePlaceHolds == Spec => []TaskInOnePlace
<1>1. Init => AllHeld
  BY DEF Init, AllHeld
<1>2. TypeInv /\ AllHeld /\ [Next]_vars => AllHeld'
  BY NextAllHeld
<1>3. ASSUME TypeInv, AllHeld
      PROVE  TaskInOnePlace
  <2> SUFFICES ASSUME NEW k \in Tasks
               PROVE  Cardinality(Places(k)) = IF line[k] = 0 THEN 0 ELSE 1
    BY DEF TaskInOnePlace
  <2>1. CASE line[k] = 0
    <3>1. /\ wtask # k
          /\ \A t \in Threads : cur[t] # k
          /\ \A t \in Threads : \A i \in DOMAIN tasks[t] : tasks[t][i] # k
          /\ \A i \in DOMAIN task_buffer : task_buffer[i] # k
      BY <1>3, <2>1, NoneAssumption DEF TypeInv, Allocated
    <3>2. \A p : p \notin Places(k)
      BY <3>1, PlaceFacts
    <3>3. Places(k) = {}
      BY <3>2
    <3> QED
      BY <2>1, <3>3, FS_EmptySet
  <2>2. CASE line[k] # 0
    <3>1. Held(k)
      BY <1>3, <2>2 DEF AllHeld
    <3>2. PICK p : p \in Places(k)
      BY <3>1, PlaceFacts DEF Held
    <3>3. \A q \in Places(k) : q = p
      BY <1>3, <3>2, OnePlaceAtMost
    <3>4. Places(k) = {p}
      BY <3>2, <3>3
    <3> QED
      BY <2>2, <3>4, FS_Singleton
  <2> QED
    BY <2>1, <2>2
<1> QED
  BY <1>1, <1>2, <1>3, TypeInvariance, PTL DEF Spec

-----------------------------------------------------------------------------
(* Nothing is handed over, and no handler returns.                         *)
LEMMA CoverKept ==
  ASSUME CoverInv,
         UNCHANGED <<file, lineno, wtask, ioops, line, tasks, cur, done>>,
         wpc' = "insert" => wpc = "insert",
         Dispatching' <=> Dispatching,
         CountedTo' = CountedTo,
         \A t \in Threads : tpc'[t] \in Running <=> tpc[t] \in Running
  PROVE  CoverInv'
<1>1. /\ file' = file /\ lineno' = lineno /\ wtask' = wtask /\ ioops' = ioops
      /\ line' = line /\ tasks' = tasks /\ cur' = cur /\ done' = done
      /\ Limit' = Limit
  BY DEF Limit
<1>2. \A j : Mine(j)' <=> Mine(j)
  BY <1>1 DEF Mine
<1>3. HandedInv'
  BY <1>1, <1>2 DEF CoverInv, HandedInv
<1>4. \A t \in Threads : \A j : Waiting(t, j)' <=> Waiting(t, j)
  BY <1>1 DEF Waiting
<1>5. CoveredInv'
  BY <1>1, <1>2, <1>4 DEF CoverInv, CoveredInv
<1>6. MineUpTo(CountedTo)' = MineUpTo(CountedTo)
  BY <1>1, <1>2 DEF MineUpTo
<1>7. CountInv'
  BY <1>1, <1>6 DEF CoverInv, CountInv
<1> QED
  BY <1>3, <1>5, <1>7 DEF CoverInv

(* The worker hands its task over: line wtask is in the hands of wt.       *)
LEMMA HandOver ==
  ASSUME TypeInv, CoverInv, wpc = "insert", ~Dispatching',
         wt \in Threads, wtask \in Tasks,
         UNCHANGED <<file, lineno, ioops, line, done>>,
         \A t \in Threads : \A j :
           Waiting(t, j)' <=> Waiting(t, j) \/ (t = wt /\ j = line[wtask]),
         \A t \in Threads : cur'[t] = cur[t] \/ cur'[t] = wtask,
         \A t \in Threads : \A i \in DOMAIN tasks'[t] :
           \/ i \in DOMAIN tasks[t] /\ tasks'[t][i] = tasks[t][i]
           \/ tasks'[t][i] = wtask
  PROVE  CoverInv'
<1>1. /\ file' = file /\ lineno' = lineno /\ ioops' = ioops
      /\ line' = line /\ done' = done
      /\ Dispatching /\ lineno \in 1 .. Len(file) /\ Len(file) \in Nat
      /\ Limit = lineno - 1 /\ Limit' = lineno
      /\ CountedTo = lineno /\ CountedTo' = lineno
  BY FileFacts
     DEF TypeInv, TypeOK, ControlInv, Limit, Dispatching, CountedTo
<1>2. \A j : Mine(j)' <=> Mine(j)
  BY <1>1 DEF Mine
<1>3. line[wtask] = lineno /\ Mine(lineno)
  BY <1>1 DEF CoverInv, HandedInv
<1>4. HandedInv'
  <2>1. \A j \in done : j <= lineno /\ Mine(j)
    <3>1. \A j \in done : j \in Int
      BY <1>1 DEF TypeInv, TypeOK
    <3> QED
      BY <1>1, <3>1 DEF CoverInv, HandedInv
  <2>2. \A t \in Threads : cur'[t] # None =>
          line[cur'[t]] <= lineno /\ Mine(line[cur'[t]])
    BY <1>1, <1>3, HeldFacts DEF CoverInv, HandedInv
  <2>3. \A t \in Threads : \A i \in DOMAIN tasks'[t] :
          line[tasks'[t][i]] <= lineno /\ Mine(line[tasks'[t][i]])
    BY <1>1, <1>3, HeldFacts DEF CoverInv, HandedInv
  <2>4. wpc' # "insert"
    BY DEF Dispatching
  <2> QED
    BY <1>1, <1>2, <2>1, <2>2, <2>3, <2>4 DEF HandedInv
<1>5. CoveredInv'
  <2>1. \A j \in 1 .. lineno : j \in 1 .. Limit \/ j = lineno
    BY <1>1
  <2> QED
    BY <1>1, <1>2, <1>3, <2>1 DEF CoverInv, CoveredInv
<1>6. MineUpTo(CountedTo)' = MineUpTo(CountedTo)
  BY <1>1, <1>2 DEF MineUpTo
<1>7. CountInv'
  BY <1>1, <1>6 DEF CoverInv, CountInv
<1> QED
  BY <1>4, <1>5, <1>7 DEF CoverInv

(* A handler that returns takes its line from "in hand" to "replayed".     *)
LEMMA HandlerKeepsCover ==
  ASSUME TypeInv, CoverInv, NEW t \in Threads, tpc[t] \in Running,
         UNCHANGED <<file, wpc, lineno, wtask, ioops, line, tasks, cur>>,
         HandlerDone(t)
  PROVE  CoverInv'
<1> DEFINE i == line[cur[t]]
<1>1. /\ file' = file /\ wpc' = wpc /\ lineno' = lineno /\ wtask' = wtask
      /\ ioops' = ioops /\ line' = line /\ tasks' = tasks /\ cur' = cur
      /\ done' = done \cup {i}
      /\ \A u \in Threads : tpc'[u] = IF u = t THEN "recycle" ELSE tpc[u]
      /\ Limit' = Limit /\ (Dispatching' <=> Dispatching) /\ CountedTo' = CountedTo
  BY DEF HandlerDone, Goto, Limit, Dispatching, CountedTo, TypeInv, TypeOK
<1>2. \A j : Mine(j)' <=> Mine(j)
  BY <1>1 DEF Mine
<1>3. cur[t] # None /\ i <= Limit /\ Mine(i)
  BY DEF CoverInv, HandedInv, TypeInv, ControlInv, Busy
<1> HIDE DEF i
<1>4. HandedInv'
  BY <1>1, <1>2, <1>3 DEF CoverInv, HandedInv
<1>5. \A u \in Threads : \A j : Waiting(u, j) /\ j # i => Waiting(u, j)'
  BY <1>1 DEF Waiting, Running, i
<1>6. CoveredInv'
  BY <1>1, <1>2, <1>5 DEF CoverInv, CoveredInv
<1>7. MineUpTo(CountedTo)' = MineUpTo(CountedTo)
  BY <1>1, <1>2 DEF MineUpTo
<1>8. CountInv'
  BY <1>1, <1>7 DEF CoverInv, CountInv
<1> QED
  BY <1>4, <1>6, <1>8 DEF CoverInv

(* One more line, which is this worker's or not.                           *)
LEMMA MineUpToNext ==
  ASSUME NEW n \in Nat
  PROVE  /\ IsFiniteSet(MineUpTo(n)) /\ Cardinality(MineUpTo(n)) \in Nat
         /\ Cardinality(MineUpTo(n + 1)) =
              Cardinality(MineUpTo(n)) + (IF Mine(n + 1) THEN 1 ELSE 0)
<1>1. IsFiniteSet(1 .. n)
  BY FS_Interval
<1>2. MineUpTo(n) \subseteq 1 .. n
  BY DEF MineUpTo
<1>3. IsFiniteSet(MineUpTo(n))
  BY <1>1, <1>2, FS_Subset
<1>4. \A i : i \in 1 .. n + 1 <=> i \in 1 .. n \/ i = n + 1
  OBVIOUS
<1>5. CASE Mine(n + 1)
  <2>1. MineUpTo(n + 1) = MineUpTo(n) \cup {n + 1}
    BY <1>4, <1>5 DEF MineUpTo
  <2>2. n + 1 \notin MineUpTo(n)
    BY <1>2
  <2> QED
    BY <1>3, <1>5, <2>1, <2>2, FS_AddElement, FS_CardinalityType
<1>6. CASE ~Mine(n + 1)
  <2>1. MineUpTo(n + 1) = MineUpTo(n)
    BY <1>4, <1>6 DEF MineUpTo
  <2> QED
    BY <1>3, <1>6, <2>1, FS_CardinalityType
<1> QED
  BY <1>3, <1>5, <1>6, FS_CardinalityType

(* Every step keeps track of every line.                                   *)
THEOREM NextCoverInv == TypeInv /\ EndInv /\ CoverInv /\ [Next]_vars => CoverInv'
<1> SUFFICES ASSUME TypeInv, EndInv, CoverInv, [Next]_vars
             PROVE  CoverInv'
  OBVIOUS
<1> USE NoneAssumption
<1>a. TypeOK /\ ControlInv /\ StartInv /\ HeldOnce
  BY DEF TypeInv
<1>b. HandedInv /\ CoveredInv /\ CountInv
  BY DEF CoverInv
<1>c. Len(file) \in Nat /\ lineno \in 0 .. Len(file)
  BY <1>a, FileFacts DEF TypeOK
<1>d. \A u \in Threads : tpc[u] \in Busy <=> cur[u] # None
  BY <1>a DEF ControlInv
<1>1. ASSUME ReadLine
      PROVE  CoverInv'
  <2>1. /\ UNCHANGED <<file, wtask, ioops, line, tasks, cur, tpc, done>>
        /\ lineno' = lineno + 1 /\ wpc = "read"
        /\ wpc' = IF Mine(lineno + 1) THEN "pick" ELSE "read"
    BY <1>1 DEF ReadLine, options, idle, recycling, fds
  <2>2. /\ ~Dispatching /\ Limit = lineno /\ CountedTo = lineno
        /\ (Dispatching' <=> Mine(lineno + 1))
        /\ Limit' = IF Mine(lineno + 1) THEN lineno ELSE lineno + 1
        /\ CountedTo' = Limit'
    BY <1>c, <2>1 DEF Limit, CountedTo, Dispatching
  <2>3. \A j : Mine(j)' <=> Mine(j)
    BY <2>1 DEF Mine
  <2>4. HandedInv'
    <3>1. \A j \in done : j <= Limit'
      <4>1. \A j \in done : j \in Int /\ j <= lineno
        BY <1>a, <1>b, <2>2 DEF TypeOK, HandedInv
      <4> QED
        BY <1>c, <2>2, <4>1
    <3>2. /\ \A t \in Threads : cur[t] # None => line[cur[t]] <= Limit'
          /\ \A t \in Threads : \A i \in DOMAIN tasks[t] : line[tasks[t][i]] <= Limit'
      BY <1>b, <1>c, <2>2, HeldFacts DEF HandedInv
    <3> QED
      BY <1>b, <2>1, <2>2, <2>3, <3>1, <3>2 DEF HandedInv
  <2>5. \A u \in Threads : \A j : Waiting(u, j)' <=> Waiting(u, j)
    BY <2>1 DEF Waiting
  <2>6. \A j \in 1 .. Limit' : Mine(j) => j \in 1 .. Limit
    BY <1>c, <2>2
  <2>7. CoveredInv'
    BY <1>b, <2>1, <2>3, <2>5, <2>6 DEF CoveredInv
  <2>8. Cardinality(MineUpTo(CountedTo)') = Cardinality(MineUpTo(CountedTo))
    <3>1. MineUpTo(CountedTo)' = MineUpTo(CountedTo')
      BY <2>3 DEF MineUpTo
    <3>2. Cardinality(MineUpTo(lineno + 1)) =
            Cardinality(MineUpTo(lineno)) + (IF Mine(lineno + 1) THEN 1 ELSE 0)
          /\ Cardinality(MineUpTo(lineno)) \in Nat
      BY <1>c, MineUpToNext
    <3> QED
      BY <2>2, <3>1, <3>2
  <2>9. CountInv'
    BY <1>b, <2>1, <2>8 DEF CountInv
  <2> QED
    BY <2>4, <2>7, <2>9 DEF CoverInv
<1>2. ASSUME GetTask
      PROVE  CoverInv'
  <2>1. /\ UNCHANGED <<file, lineno, tasks, cur, tpc, done>>
        /\ wpc = "task" /\ wpc' = "insert" /\ ioops' = ioops + 1
    BY <1>2 DEF GetTask, options, idle, fds
  <2>2. /\ wtask' \in Tasks /\ line' = [line EXCEPT ![wtask'] = lineno]
        /\ \A u \in Threads : cur[u] # wtask'
        /\ \A u \in Threads : \A i \in DOMAIN tasks[u] : tasks[u][i] # wtask'
    BY <1>2, GetTaskEffect
  <2>3. /\ line'[wtask'] = lineno
        /\ \A u \in Threads : cur[u] # None => line'[cur[u]] = line[cur[u]]
        /\ \A u \in Threads : \A i \in DOMAIN tasks[u] :
             line'[tasks[u][i]] = line[tasks[u][i]]
    BY <1>a, <2>2, HeldFacts DEF TypeOK
  <2>4. /\ Limit' = Limit /\ Dispatching /\ Dispatching'
        /\ CountedTo = lineno - 1 /\ CountedTo' = lineno
    BY <2>1 DEF Limit, Dispatching, CountedTo
  <2>5. \A j : Mine(j)' <=> Mine(j)
    BY <2>1 DEF Mine
  <2>6. HandedInv'
    BY <1>b, <2>1, <2>3, <2>4, <2>5 DEF HandedInv
  <2>7. \A u \in Threads : \A j : Waiting(u, j)' <=> Waiting(u, j)
    BY <1>d, <2>1, <2>3 DEF Waiting, Busy
  <2>8. CoveredInv'
    BY <1>b, <2>1, <2>4, <2>5, <2>7 DEF CoveredInv
  <2>9. Cardinality(MineUpTo(CountedTo)') = Cardinality(MineUpTo(CountedTo)) + 1
    <3>1. MineUpTo(CountedTo)' = MineUpTo(lineno)
      BY <2>4, <2>5 DEF MineUpTo
    <3>2. lineno - 1 \in Nat /\ (lineno - 1) + 1 = lineno /\ Mine(lineno)
      BY <1>a, <1>b, <1>c, <2>1, <2>4 DEF ControlInv, HandedInv
    <3>3. Cardinality(MineUpTo((lineno - 1) + 1)) =
            Cardinality(MineUpTo(lineno - 1)) + (IF Mine((lineno - 1) + 1) THEN 1 ELSE 0)
      BY <3>2, MineUpToNext
    <3> QED
      BY <2>4, <3>1, <3>2, <3>3
  <2>10. CountInv'
    BY <1>b, <2>1, <2>9 DEF CountInv
  <2> QED
    BY <2>6, <2>8, <2>10 DEF CoverInv
<1>3. ASSUME InsertTask
      PROVE  CoverInv'
  <2>1. /\ UNCHANGED <<file, lineno, ioops, line, cur, tpc, done>>
        /\ wpc = "insert" /\ ~Dispatching'
    BY <1>3 DEF InsertTask, options, recycling, Dispatching
  <2>2. /\ wt \in Threads /\ wtask \in Tasks
        /\ \A t \in Threads : \A i \in DOMAIN tasks[t] :
             i \in DOMAIN tasks'[t] /\ tasks'[t][i] = tasks[t][i]
        /\ \E i \in DOMAIN tasks'[wt] : tasks'[wt][i] = wtask
        /\ \A t \in Threads : \A i \in DOMAIN tasks'[t] :
             \/ i \in DOMAIN tasks[t] /\ tasks'[t][i] = tasks[t][i]
             \/ t = wt /\ tasks'[t][i] = wtask
    BY <1>3, InsertTaskEffect
  <2>3. \A t \in Threads : \A j :
          Waiting(t, j)' <=> Waiting(t, j) \/ (t = wt /\ j = line[wtask])
    BY <2>1, <2>2 DEF Waiting
  <2>4. \A t \in Threads : \A i \in DOMAIN tasks'[t] :
          \/ i \in DOMAIN tasks[t] /\ tasks'[t][i] = tasks[t][i]
          \/ tasks'[t][i] = wtask
    BY <2>2
  <2>5. \A t \in Threads : cur'[t] = cur[t] \/ cur'[t] = wtask
    BY <2>1
  <2> QED
    BY <2>1, <2>2, <2>3, <2>4, <2>5, HandOver
<1>4. ASSUME RunInline
      PROVE  CoverInv'
  <2>1. /\ UNCHANGED <<file, lineno, ioops, line, tasks, done>>
        /\ wpc = "insert" /\ ~Dispatching' /\ SingleThreaded
        /\ cur' = [cur EXCEPT ![wt] = wtask] /\ tpc' = [tpc EXCEPT ![wt] = "run"]
    BY <1>4 DEF RunInline, options, recycling, Dispatching
  <2>2. /\ wt \in Threads /\ wtask \in Tasks
        /\ \A t \in Threads : cur'[t] = IF t = wt THEN wtask ELSE cur[t]
        /\ \A t \in Threads : tpc'[t] = IF t = wt THEN "run" ELSE tpc[t]
    BY <1>a, <2>1 DEF ControlInv, TypeOK
  <2>3. tpc[wt] \notin Running
    <3>1. Len(all_threads) = 0 /\ wt > 0
      BY <1>a, <2>1, <2>2 DEF StartInv, Threads
    <3> QED
      BY <1>a, <2>1, <2>2, <3>1 DEF StartInv, Running
  <2>4. \A t \in Threads : \A j :
          Waiting(t, j)' <=> Waiting(t, j) \/ (t = wt /\ j = line[wtask])
    BY <2>1, <2>2, <2>3 DEF Waiting, Running
  <2>5. \A t \in Threads : cur'[t] = cur[t] \/ cur'[t] = wtask
    BY <2>2
  <2>6. \A t \in Threads : \A i \in DOMAIN tasks'[t] :
          \/ i \in DOMAIN tasks[t] /\ tasks'[t][i] = tasks[t][i]
          \/ tasks'[t][i] = wtask
    BY <2>1
  <2> QED
    BY <2>1, <2>2, <2>4, <2>5, <2>6, HandOver
<1>5. ASSUME NEW t \in Threads, TakeTask(t)
      PROVE  CoverInv'
  <2>1. /\ UNCHANGED <<file, wpc, lineno, wtask, ioops, line, done>>
        /\ Limit' = Limit /\ (Dispatching' <=> Dispatching) /\ CountedTo' = CountedTo
    BY <1>5 DEF TakeTask, options, worker, recycling, Limit, Dispatching, CountedTo
  <2>2. /\ cur[t] = None /\ tpc[t] \in {"drain", "last"} /\ 1 \in DOMAIN tasks[t]
        /\ tasks[t] \in Seq(Tasks) /\ tasks[t] # << >>
        /\ tasks' = [tasks EXCEPT ![t] = Tail(tasks[t])]
        /\ tpc' = [tpc EXCEPT ![t] = "run"]
        /\ tasks[t][1] \in Tasks
        /\ \A u \in Threads : \A i \in DOMAIN tasks'[u] :
             \E j \in DOMAIN tasks[u] : tasks'[u][i] = tasks[u][j]
        /\ \A u \in Threads : cur'[u] = IF u = t THEN tasks[t][1] ELSE cur[u]
    BY <1>5, TakeTaskEffect
  <2>3. /\ tasks'[t] = Tail(tasks[t])
        /\ \A u \in Threads : u # t => tasks'[u] = tasks[u]
        /\ \A u \in Threads : tpc'[u] = IF u = t THEN "run" ELSE tpc[u]
    BY <1>a, <2>2 DEF TypeOK
  <2>4. \A j : Mine(j)' <=> Mine(j)
    BY <2>1 DEF Mine
  <2>5. HandedInv'
    <3>1. \A u \in Threads : \A i \in DOMAIN tasks'[u] :
            line[tasks'[u][i]] <= Limit /\ Mine(line[tasks'[u][i]])
      BY <1>b, <2>2 DEF HandedInv
    <3>2. \A u \in Threads : cur'[u] # None =>
            line[cur'[u]] <= Limit /\ Mine(line[cur'[u]])
      BY <1>b, <2>2 DEF HandedInv
    <3> QED
      BY <1>b, <2>1, <2>4, <3>1, <3>2 DEF HandedInv
  <2>6. ASSUME NEW u \in Threads, NEW j, Waiting(u, j)
        PROVE  Waiting(u, j)'
    <3>1. CASE u # t
      BY <2>1, <2>2, <2>3, <2>6, <3>1 DEF Waiting
    <3>2. CASE u = t
      <4>1. PICK i \in DOMAIN tasks[t] : line[tasks[t][i]] = j
        BY <2>2, <2>6, <3>2 DEF Waiting, Running
      <4>2. CASE i = 1
        BY <2>1, <2>2, <2>3, <3>2, <4>1, <4>2 DEF Waiting, Running
      <4>3. CASE i # 1
        <5>1. \A m \in DOMAIN tasks[t] :
                m = 1 \/ (m - 1 \in DOMAIN Tail(tasks[t])
                            /\ Tail(tasks[t])[m - 1] = tasks[t][m])
          BY <2>2, TailShift
        <5>2. i - 1 \in DOMAIN tasks'[t] /\ line'[tasks'[t][i - 1]] = j
          BY <2>1, <2>3, <4>1, <4>3, <5>1
        <5>3. \E m \in DOMAIN tasks'[t] : line'[tasks'[t][m]] = j
          BY <5>2
        <5> QED
          BY <3>2, <5>3 DEF Waiting
      <4> QED
        BY <4>2, <4>3
    <3> QED
      BY <3>1, <3>2
  <2>7. CoveredInv'
    BY <1>b, <2>1, <2>4, <2>6 DEF CoveredInv
  <2>8. MineUpTo(CountedTo)' = MineUpTo(CountedTo)
    BY <2>1, <2>4 DEF MineUpTo
  <2>9. CountInv'
    BY <1>b, <2>1, <2>8 DEF CountInv
  <2> QED
    BY <2>5, <2>7, <2>9 DEF CoverInv
<1>6. ASSUME NEW t \in Threads, RecycleTask(t)
      PROVE  CoverInv'
  <2>1. /\ UNCHANGED <<file, wpc, lineno, wtask, ioops, tasks, done>>
        /\ Limit' = Limit /\ (Dispatching' <=> Dispatching) /\ CountedTo' = CountedTo
    BY <1>6 DEF RecycleTask, options, worker, Limit, Dispatching, CountedTo
  <2>2. /\ tpc[t] = "recycle" /\ cur[t] \in Tasks
        /\ \A k \in Tasks : k # cur[t] => line'[k] = line[k]
    BY <1>6, <1>a DEF RecycleTask, TypeOK, ControlInv, Busy
  <2>3. /\ \A u \in Threads : cur'[u] = IF u = t THEN None ELSE cur[u]
        /\ \A u \in Threads : tpc'[u] = IF u = t THEN ret[t] ELSE tpc[u]
        /\ ret[t] \notin Running
    BY <1>6, <1>a DEF RecycleTask, Goto, TypeOK, Running
  <2>4. /\ wtask # None => line'[wtask] = line[wtask]
        /\ \A u \in Threads : cur'[u] # None =>
             cur[u] # None /\ cur'[u] = cur[u] /\ line'[cur'[u]] = line[cur[u]]
        /\ \A u \in Threads : \A i \in DOMAIN tasks[u] :
             line'[tasks[u][i]] = line[tasks[u][i]]
    BY SMTT(30), <1>a, <2>2, <2>3, HeldFacts DEF HeldOnce, TypeOK
  <2>5. \A j : Mine(j)' <=> Mine(j)
    BY <2>1 DEF Mine
  <2>6. HandedInv'
    BY <1>a, <1>b, <2>1, <2>4, <2>5 DEF HandedInv, ControlInv
  <2>7. \A u \in Threads : \A j : Waiting(u, j)' <=> Waiting(u, j)
    BY <1>d, <2>1, <2>2, <2>3, <2>4 DEF Waiting, Busy, Running
  <2>8. CoveredInv'
    BY <1>b, <2>1, <2>5, <2>7 DEF CoveredInv
  <2>9. MineUpTo(CountedTo)' = MineUpTo(CountedTo)
    BY <2>1, <2>5 DEF MineUpTo
  <2>10. CountInv'
    BY <1>b, <2>1, <2>9 DEF CountInv
  <2> QED
    BY <2>6, <2>8, <2>10 DEF CoverInv
<1>7. ASSUME EndOfLines
      PROVE  CoverInv'
  BY <1>7, CoverKept
     DEF EndOfLines, options, worker, idle, recycling, fds, Dispatching, CountedTo
<1>8. ASSUME PickMapped
      PROVE  CoverInv'
  BY <1>8, CoverKept
     DEF PickMapped, options, worker, idle, recycling, fds, Dispatching, CountedTo
<1>9. ASSUME RecycleThread
      PROVE  CoverInv'
  BY <1>9, CoverKept
     DEF RecycleThread, options, worker, idle, recycling, fds, Dispatching, CountedTo
<1>10. ASSUME AwaitThread
      PROVE  CoverInv'
  BY <1>10, CoverKept
     DEF AwaitThread, options, worker, idle, recycling, fds, Dispatching, CountedTo
<1>11. ASSUME InlineDone
      PROVE  CoverInv'
  BY <1>11, CoverKept
     DEF InlineDone, options, worker, idle, recycling, fds, Dispatching, CountedTo
<1>12. ASSUME TerminateThread
      PROVE  CoverInv'
  BY <1>12, CoverKept
     DEF TerminateThread, options, worker, idle, recycling, fds, Dispatching, CountedTo
<1>13. ASSUME Finish
      PROVE  CoverInv'
  BY <1>13, CoverKept
     DEF Finish, options, worker, idle, recycling, fds, Dispatching, CountedTo
<1>14. ASSUME UseSingleThread
      PROVE  CoverInv'
  <2>1. \A u \in Threads : tpc'[u] \in Running <=> tpc[u] \in Running
    BY SMTT(30), <1>14, <1>a DEF UseSingleThread, Running, TypeOK, StartInv, Threads
  <2> QED
    BY <1>14, <2>1, CoverKept
       DEF UseSingleThread, options, worker, idle, recycling, fds, Dispatching, CountedTo
<1>15. ASSUME CreateThread
      PROVE  CoverInv'
  <2>1. \A u \in Threads : tpc'[u] \in Running <=> tpc[u] \in Running
    <3>1. /\ wpc = "pick" /\ Len(all_threads) \in Nat
          /\ Len(all_threads) + 1 \in Threads
          /\ tpc' = [tpc EXCEPT ![Len(all_threads) + 1] = "wait"]
      BY <1>15, <1>a, NumbersAssumption DEF CreateThread, TypeOK, Threads
    <3>2. tpc[Len(all_threads) + 1] \in {"none", "inline"}
      BY <1>a, <3>1 DEF StartInv
    <3> QED
      BY <1>a, <3>1, <3>2 DEF Running, TypeOK
  <2> QED
    BY <1>15, <2>1, CoverKept
       DEF CreateThread, options, worker, idle, recycling, fds, Dispatching, CountedTo
<1>16. ASSUME JoinThread
      PROVE  CoverInv'
  <2>1. \A u \in Threads : tpc'[u] \in Running <=> tpc[u] \in Running
    BY <1>16, <1>a DEF JoinThread, Running, TypeOK, ControlInv
  <2> QED
    BY <1>16, <2>1, CoverKept
       DEF JoinThread, options, worker, idle, recycling, fds, Dispatching, CountedTo
<1>17. ASSUME UNCHANGED vars
      PROVE  CoverInv'
  BY <1>17, CoverKept DEF vars, options, worker, idle, recycling, fds, Dispatching, CountedTo
<1>18. ASSUME NEW t \in Threads, LeaveWait(t)
      PROVE  CoverInv'
  <2>1. \A u \in Threads : tpc'[u] \in Running <=> tpc[u] \in Running
    BY <1>18, <1>a DEF LeaveWait, Goto, Running, TypeOK
  <2> QED
    BY <1>18, <2>1, CoverKept
       DEF LeaveWait, options, worker, idle, recycling, fds, Dispatching, CountedTo
<1>19. ASSUME NEW t \in Threads, Drained(t)
      PROVE  CoverInv'
  <2>1. \A u \in Threads : tpc'[u] \in Running <=> tpc[u] \in Running
    BY <1>19, <1>a DEF Drained, Goto, Running, TypeOK
  <2> QED
    BY <1>19, <2>1, CoverKept
       DEF Drained, options, worker, idle, recycling, fds, Dispatching, CountedTo
<1>20. ASSUME NEW t \in Threads, Idle(t)
      PROVE  CoverInv'
  <2>1. \A u \in Threads : tpc'[u] \in Running <=> tpc[u] \in Running
    BY <1>20, <1>a DEF Idle, Goto, Running, TypeOK
  <2> QED
    BY <1>20, <2>1, CoverKept
       DEF Idle, options, worker, idle, recycling, fds, Dispatching, CountedTo
<1>21. ASSUME NEW t \in Threads, Recheck(t)
      PROVE  CoverInv'
  <2>1. \A u \in Threads : tpc'[u] \in Running <=> tpc[u] \in Running
    BY <1>21, <1>a DEF Recheck, Goto, Running, TypeOK
  <2> QED
    BY <1>21, <2>1, CoverKept
       DEF Recheck, options, worker, idle, recycling, fds, Dispatching, CountedTo
<1>22. ASSUME NEW t \in Threads, LockRthreadBuffer(t)
      PROVE  CoverInv'
  <2>1. \A u \in Threads : tpc'[u] \in Running <=> tpc[u] \in Running
    BY <1>22, <1>a DEF LockRthreadBuffer, Goto, Running, TypeOK
  <2> QED
    BY <1>22, <2>1, CoverKept
       DEF LockRthreadBuffer, options, worker, idle, recycling, fds, Dispatching, CountedTo
<1>23. ASSUME NEW t \in Threads, LookLocked(t)
      PROVE  CoverInv'
  <2>1. \A u \in Threads : tpc'[u] \in Running <=> tpc[u] \in Running
    BY SMTT(30), <1>23, <1>a DEF LookLocked, Goto, Running, TypeOK
  <2> QED
    BY <1>23, <2>1, CoverKept
       DEF LookLocked, options, worker, idle, recycling, fds, Dispatching, CountedTo
<1>24. ASSUME NEW t \in Threads, Offer(t)
      PROVE  CoverInv'
  <2>1. \A u \in Threads : tpc'[u] \in Running <=> tpc[u] \in Running
    BY SMTT(30), <1>24, <1>a DEF Offer, Goto, Running, TypeOK
  <2> QED
    BY <1>24, <2>1, CoverKept
       DEF Offer, options, worker, idle, recycling, fds, Dispatching, CountedTo
<1>25. ASSUME NEW t \in Threads, CheckTerminate(t)
      PROVE  CoverInv'
  <2>1. \A u \in Threads : tpc'[u] \in Running <=> tpc[u] \in Running
    BY <1>25, <1>a DEF CheckTerminate, Goto, Running, TypeOK
  <2> QED
    BY <1>25, <2>1, CoverKept
       DEF CheckTerminate, options, worker, idle, recycling, fds, Dispatching, CountedTo
<1>26. ASSUME NEW t \in Threads, Exit(t)
      PROVE  CoverInv'
  <2>1. \A u \in Threads : tpc'[u] \in Running <=> tpc[u] \in Running
    BY <1>26, <1>a DEF Exit, Goto, Running, TypeOK
  <2> QED
    BY <1>26, <2>1, CoverKept
       DEF Exit, options, worker, idle, recycling, fds, Dispatching, CountedTo
<1>27. ASSUME NEW t \in Threads, PathOp(t)
      PROVE  CoverInv'
  BY <1>27, HandlerKeepsCover
     DEF PathOp, Running, options, worker, idle, recycling, fds
<1>28. ASSUME NEW t \in Threads, Open(t)
      PROVE  CoverInv'
  BY <1>28, HandlerKeepsCover
     DEF Open, Running, options, worker, idle, recycling, fds
<1>29. ASSUME NEW t \in Threads, UseFd(t)
      PROVE  CoverInv'
  BY <1>29, HandlerKeepsCover
     DEF UseFd, Running, options, worker, idle, recycling, fds
<1>30. ASSUME NEW t \in Threads, DestroyFd(t)
      PROVE  CoverInv'
  BY <1>30, HandlerKeepsCover
     DEF DestroyFd, Running, options, worker, idle, recycling, fds
<1>31. ASSUME NEW t \in Threads, LookupFd(t)
      PROVE  CoverInv'
  <2>1. CASE HandlerDone(t)
    BY <1>31, <2>1, HandlerKeepsCover
       DEF LookupFd, Running, options, worker, idle, recycling, fds
  <2>2. CASE Goto(t, "use") /\ UNCHANGED done
    <3>1. \A u \in Threads : tpc'[u] \in Running <=> tpc[u] \in Running
      BY <1>31, <1>a, <2>2 DEF LookupFd, Goto, Running, TypeOK
    <3> QED
      BY <1>31, <2>2, <3>1, CoverKept
         DEF LookupFd, options, worker, idle, recycling, fds, Dispatching, CountedTo
  <2> QED
    BY <1>31, <2>1, <2>2 DEF LookupFd
<1>32. ASSUME NEW t \in Threads, UnsetFd(t)
      PROVE  CoverInv'
  <2>1. CASE HandlerDone(t)
    BY <1>32, <2>1, HandlerKeepsCover
       DEF UnsetFd, Running, options, worker, idle, recycling, fds
  <2>2. CASE Goto(t, "close") /\ UNCHANGED done
    <3>1. \A u \in Threads : tpc'[u] \in Running <=> tpc[u] \in Running
      BY <1>32, <1>a, <2>2 DEF UnsetFd, Goto, Running, TypeOK
    <3> QED
      BY <1>32, <2>2, <3>1, CoverKept
         DEF UnsetFd, options, worker, idle, recycling, fds, Dispatching, CountedTo
  <2> QED
    BY <1>32, <2>1, <2>2 DEF UnsetFd
<1> QED
  BY <1>1, <1>2, <1>3, <1>4, <1>5, <1>6, <1>7, <1>8, <1>9, <1>10, <1>11,
     <1>12, <1>13, <1>14, <1>15, <1>16, <1>17, <1>18, <1>19, <1>20, <1>21, <1>22,
     <1>23, <1>24, <1>25, <1>26, <1>27, <1>28, <1>29, <1>30, <1>31, <1>32
     DEF Next, WorkerStep, PickThread, ThreadStep, IdleLoop, ProcessTask, Terminated

(* At the end all threads are joined, so that no line is in hand.          *)
LEMMA EndGivesAllLines ==
  ASSUME TypeInv, EndInv, CoverInv
  PROVE  AllLinesReplayed
<1> SUFFICES ASSUME wpc = "done"
             PROVE  /\ done = {i \in DOMAIN file : Mine(i)}
                    /\ ioops = Cardinality({i \in DOMAIN file : Mine(i)})
  BY DEF AllLinesReplayed
<1>1. /\ lineno = Len(file) /\ Limit = Len(file) /\ CountedTo = Len(file)
      /\ DOMAIN file = 1 .. Len(file)
  BY FileFacts DEF EndInv, TermInv, Ending, Limit, Dispatching, CountedTo
<1>2. \A t \in Threads : tpc[t] \in {"none", "inline", "freed"}
  BY DEF EndInv, StackInv, Ending, Threads
<1>3. \A t \in Threads : \A j : ~Waiting(t, j)
  BY <1>2 DEF Waiting, Running, EndInv, RingInv
<1>4. \A j \in 1 .. Len(file) : Mine(j) => j \in done
  BY <1>1, <1>3 DEF CoverInv, CoveredInv
<1>5. done \subseteq 1 .. Len(file) /\ \A j \in done : Mine(j)
  BY DEF CoverInv, HandedInv, TypeInv, TypeOK
<1>6. MineUpTo(CountedTo) = {i \in DOMAIN file : Mine(i)}
  BY <1>1 DEF MineUpTo
<1> QED
  BY <1>1, <1>4, <1>5, <1>6 DEF CoverInv, CountInv

(* When the worker reports SUCCESS it has replayed every line that it is   *)
(* responsible for and no other, and its statistics say so; for every      *)
(* file, also one whose rthread_map has no room for its last path.         *)
THEOREM AllLinesReplayedHolds == Spec => []AllLinesReplayed
<1>1. Init => CoverInv
  <2> SUFFICES ASSUME Init PROVE CoverInv
    OBVIOUS
  <2>1. HandedInv /\ CoveredInv
    BY NoneAssumption DEF Init, HandedInv, CoveredInv, Limit, Dispatching
  <2>2. MineUpTo(CountedTo) = {}
    BY DEF Init, MineUpTo, CountedTo
  <2>3. CountInv
    BY <2>2, FS_EmptySet DEF Init, CountInv
  <2> QED
    BY <2>1, <2>3 DEF CoverInv
<1>2. TypeInv /\ EndInv /\ CoverInv /\ [Next]_vars => CoverInv'
  BY NextCoverInv
<1>3. TypeInv /\ EndInv /\ CoverInv => AllLinesReplayed
  BY EndGivesAllLines
<1> QED
  BY <1>1, <1>2, <1>3, EndInvariance, PTL DEF Spec

=============================================================================
