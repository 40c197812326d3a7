-------------------------- MODULE GeneratePipeline --------------------------
(***************************************************************************)
(* The three threads of ioriot -g (generate/generate.c, gparser.c,         *)
(* gwriter.c, gtask.c).  The reader reads the lines of the .capture file   *)
(* into task objects and hands them to the parser; the parser takes a line *)
(* apart and hands the task to the writer; the writer appends a line to    *)
(* the .replay file, or refuses it, and gives the object back for reuse.   *)
(* Each hand-over is a ring buffer with one producer and one consumer,     *)
(* which RBuffer shows to be a bounded queue: here it is one.              *)
(*                                                                         *)
(* Of a line only what becomes of it is kept: how lines are taken apart    *)
(* and what is written is the subject of Gparser and of Generate.          *)
(***************************************************************************)
EXTENDS Integers, SequencesExt, FiniteSetsExt

CONSTANTS MaxLines,    (* how many lines the .capture file has at most     *)
          QueueCap,    (* what the queues of parser and writer hold        *)
          ReuseCap,    (* what generate_s.reuse_queue holds                *)
          Tasks,       (* gtask_s objects of the heap                      *)
          None

ASSUME SizesAssumption ==
  /\ MaxLines \in Nat
  /\ QueueCap \in Nat \ {0}
  /\ ReuseCap \in Nat \ {0}
ASSUME TasksAssumption ==
  /\ None \notin Tasks
  /\ IsFiniteSet(Tasks) /\ Cardinality(Tasks) >= MaxLines

(* What becomes of a line: it is skipped by the reader, refused by the     *)
(* parser, refused by the writer, or accepted.  The number of an accepted  *)
(* line stands in the file for what the writer writes of it: one line, and *)
(* with some opens and exit_group the closes that go with them.            *)
Kinds == {"comment", "unparsable", "unknown", "good"}

Stages == {"parser", "writer"}

(* What stands for the line #INIT in the file.                             *)
InitSection == 0

VARIABLES capture,     (* the lines of the .capture file                   *)
          pos,         (* lines read, those that start with # included     *)
          lineno,      (* generate_s.lineno                                *)
          filtered,    (* generate_s.num_lines_filtered                    *)
          rpc,         (* where generate_run is                            *)
          rtask,       (* its local t, or None                             *)
          pc,          (* pc[s]: where the thread of stage s is            *)
          cur,         (* cur[s]: its local t, or None                     *)
          terminate,   (* gparser_s.terminate and gwriter_s.terminate      *)
          queue,       (* gparser_s.queue and gwriter_s.queue              *)
          reuse,       (* generate_s.reuse_queue                           *)
          line,        (* line[t]: the line of t, 0 outside of the heap    *)
          ret,         (* ret[t]: gtask_s.ret                              *)
          lost,        (* objects reuse_queue had no room for              *)
          file,        (* the .replay file after its header: lines, #INIT  *)
          num_lines    (* the header's count of lines, 0 before it is there*)

rvars == <<pos, lineno, filtered, rpc, rtask, num_lines>>
svars == <<pc, cur>>
vars == <<capture, rvars, svars, terminate, queue, reuse, line, ret, lost, file>>

Init ==
  /\ capture \in UNION {[1 .. n -> Kinds] : n \in 0 .. MaxLines}
  /\ pos = 0
  /\ lineno = 0
  /\ filtered = 0
  /\ rpc = "read"
  /\ rtask = None
  /\ pc = [s \in Stages |-> "poll"]
  /\ cur = [s \in Stages |-> None]
  /\ terminate = [s \in Stages |-> FALSE]
  /\ queue = [s \in Stages |-> <<>>]
  /\ reuse = <<>>
  /\ line = [t \in Tasks |-> 0]
  /\ ret = [t \in Tasks |-> "SUCCESS"]
  /\ lost = {}
  /\ file = <<>>
  /\ num_lines = 0

Allocated == {t \in Tasks : line[t] # 0}

-----------------------------------------------------------------------------
(* The reader.                                                             *)

SkipComment ==
  /\ rpc = "read" /\ rtask = None
  /\ pos < Len(capture) /\ capture[pos + 1] = "comment"
  /\ pos' = pos + 1
  /\ UNCHANGED <<capture, lineno, filtered, rpc, rtask, num_lines, svars,
                 terminate, queue, reuse, line, ret, lost, file>>

(* gtask_new: the heap has room for every line; which address it returns   *)
(* makes no difference.                                                    *)
GtaskNew == CHOOSE t \in Tasks : t \notin Allocated

(* gtask_init: the object t gets the line that is being read.              *)
GtaskInit(t) ==
  /\ rtask' = t
  /\ line' = [line EXCEPT ![t] = pos + 1]
  /\ ret' = [ret EXCEPT ![t] = "SUCCESS"]

(* Faulty variant: the reader counts after it has reset the task.          *)
CountReset(t) == filtered' = filtered

(* The count of lines that parser or writer refused grows when a task that *)
(* came back is looked at.                                                 *)
CountRefused(t) ==
  filtered' = IF ret[t] = "SUCCESS" THEN filtered ELSE filtered + 1

ReadLine ==
  /\ rpc = "read" /\ rtask = None
  /\ pos < Len(capture) /\ capture[pos + 1] # "comment"
  /\ pos' = pos + 1
  /\ lineno' = lineno + 1
  /\ \/ /\ reuse = <<>>
        /\ GtaskInit(GtaskNew)
        /\ UNCHANGED <<filtered, reuse>>
     \/ /\ reuse # <<>>
        /\ CountRefused(Head(reuse))
        /\ GtaskInit(Head(reuse))
        /\ reuse' = Tail(reuse)
  /\ UNCHANGED <<capture, rpc, num_lines, svars, terminate, queue, lost, file>>

(* rbuffer_insert_wait: there is room in the parser's queue.               *)
PassToParser ==
  /\ rtask # None
  /\ Len(queue["parser"]) < QueueCap
  /\ queue' = [queue EXCEPT !["parser"] = Append(@, rtask)]
  /\ rtask' = None
  /\ UNCHANGED <<capture, pos, lineno, filtered, rpc, num_lines, svars,
                 terminate, reuse, line, ret, lost, file>>

(* Faulty variant: the parser is waited for but not told to stop.          *)
JoinOnly ==
  /\ rpc = "read" /\ rtask = None /\ pos = Len(capture)
  /\ rpc' = "join_parser"
  /\ UNCHANGED <<capture, pos, lineno, filtered, rtask, num_lines, svars,
                 terminate, queue, reuse, line, ret, lost, file>>

(* The end of the .capture file: gparser_terminate, first half.            *)
EndOfFile ==
  /\ rpc = "read" /\ rtask = None /\ pos = Len(capture)
  /\ terminate' = [terminate EXCEPT !["parser"] = TRUE]
  /\ rpc' = "join_parser"
  /\ UNCHANGED <<capture, pos, lineno, filtered, rtask, num_lines, svars,
                 queue, reuse, line, ret, lost, file>>

(* The parser has ended; gwriter_terminate, first half.                    *)
ParserJoined ==
  /\ rpc = "join_parser" /\ pc["parser"] = "exit"
  /\ terminate' = [terminate EXCEPT !["writer"] = TRUE]
  /\ rpc' = "join_writer"
  /\ UNCHANGED <<capture, pos, lineno, filtered, rtask, num_lines, svars,
                 queue, reuse, line, ret, lost, file>>

WriterJoined ==
  /\ rpc = "join_writer" /\ pc["writer"] = "exit"
  /\ rpc' = "collect"
  /\ UNCHANGED <<capture, pos, lineno, filtered, rtask, num_lines, svars,
                 terminate, queue, reuse, line, ret, lost, file>>

(* The statistics of the tasks that are left in reuse_queue.               *)
CollectTask ==
  /\ rpc = "collect" /\ reuse # <<>>
  /\ CountRefused(Head(reuse))
  /\ line' = [line EXCEPT ![Head(reuse)] = 0]
  /\ reuse' = Tail(reuse)
  /\ UNCHANGED <<capture, pos, lineno, rpc, rtask, num_lines, svars,
                 terminate, queue, ret, lost, file>>

(* The INIT section and the header end the .replay file.                   *)
WriteHeader ==
  /\ rpc = "collect" /\ reuse = <<>>
  /\ file' = Append(file, InitSection)
  /\ num_lines' = lineno - filtered
  /\ rpc' = "done"
  /\ UNCHANGED <<capture, pos, lineno, filtered, rtask, svars, terminate,
                 queue, reuse, line, ret, lost>>

-----------------------------------------------------------------------------
(* The two stages have the same loop: take tasks while there are some,     *)
(* look at terminate, and once it is set take what is left.                *)

TakeTask(s) ==
  /\ cur[s] = None /\ pc[s] \in {"poll", "drain"}
  /\ queue[s] # <<>>
  /\ cur' = [cur EXCEPT ![s] = Head(queue[s])]
  /\ queue' = [queue EXCEPT ![s] = Tail(@)]
  /\ UNCHANGED <<capture, rvars, pc, terminate, reuse, line, ret, lost, file>>

QueueEmpty(s) ==
  /\ cur[s] = None /\ pc[s] \in {"poll", "drain"}
  /\ queue[s] = <<>>
  /\ pc' = [pc EXCEPT ![s] = IF @ = "poll" THEN "test" ELSE "exit"]
  /\ UNCHANGED <<capture, rvars, cur, terminate, queue, reuse, line, ret,
                 lost, file>>

(* Faulty variant: a stage that is told to stop does not look again.       *)
LeaveLoopAtOnce(s) ==
  /\ pc[s] = "test"
  /\ pc' = [pc EXCEPT ![s] = IF terminate[s] THEN "exit" ELSE "poll"]
  /\ UNCHANGED <<capture, rvars, cur, terminate, queue, reuse, line, ret,
                 lost, file>>

TestTerminate(s) ==
  /\ pc[s] = "test"
  /\ pc' = [pc EXCEPT ![s] = IF terminate[s] THEN "drain" ELSE "poll"]
  /\ UNCHANGED <<capture, rvars, cur, terminate, queue, reuse, line, ret,
                 lost, file>>

Kind(t) == capture[line[t]]

(* gparser_extract, and the wait for room in the writer's queue.  Before   *)
(* there is room the result is in the task of the parser alone.            *)
ParserPasses ==
  LET t == cur["parser"] IN
  /\ t # None
  /\ Len(queue["writer"]) < QueueCap
  /\ ret' = [ret EXCEPT ![t] = IF Kind(t) = "unparsable" THEN "ERROR" ELSE @]
  /\ queue' = [queue EXCEPT !["writer"] = Append(@, t)]
  /\ cur' = [cur EXCEPT !["parser"] = None]
  /\ UNCHANGED <<capture, rvars, pc, terminate, reuse, line, lost, file>>

(* gioop_run for the task of the writer: nothing for a line the parser     *)
(* refused, otherwise a line of the file or a refusal.                     *)
GioopRun(t) ==
  LET good == ret[t] = "SUCCESS" /\ Kind(t) = "good" IN
  /\ file' = IF good THEN Append(file, line[t]) ELSE file
  /\ ret' = [ret EXCEPT ![t] = IF good THEN "SUCCESS" ELSE "ERROR"]

(* Faulty variant: the object is in the queue twice.                       *)
GiveBackTwice(t) ==
  reuse' = IF Len(reuse) < ReuseCap THEN <<t>> \o Append(reuse, t) ELSE reuse

(* rbuffer_insert into reuse_queue, whose answer nobody looks at.          *)
GiveBack(t) ==
  reuse' = IF Len(reuse) < ReuseCap THEN Append(reuse, t) ELSE reuse

WriterRuns ==
  LET t == cur["writer"] IN
  /\ t # None
  /\ GioopRun(t)
  /\ GiveBack(t)
  /\ lost' = IF Len(reuse) < ReuseCap THEN lost ELSE lost \cup {t}
  /\ cur' = [cur EXCEPT !["writer"] = None]
  /\ UNCHANGED <<capture, rvars, pc, terminate, queue, line>>

-----------------------------------------------------------------------------
Reader == \/ SkipComment \/ ReadLine \/ PassToParser
          \/ EndOfFile \/ ParserJoined \/ WriterJoined
          \/ CollectTask \/ WriteHeader
Stage(s) == TakeTask(s) \/ QueueEmpty(s) \/ TestTerminate(s)
Parser == Stage("parser") \/ ParserPasses
Writer == Stage("writer") \/ WriterRuns

Next == Reader \/ Parser \/ Writer

(* Three POSIX threads that the scheduler of the kernel runs again and     *)
(* again; none holds a lock.                                               *)
Fairness == WF_vars(Reader) /\ WF_vars(Parser) /\ WF_vars(Writer)

Spec == Init /\ [][Next]_vars
FairSpec == Spec /\ Fairness

-----------------------------------------------------------------------------
Good == {i \in DOMAIN capture : capture[i] = "good"}

(* The tasks on their way from the reader to the file, the next one first. *)
One(t) == IF t = None THEN << >> ELSE << t >>
Pipe == One(cur["writer"]) \o queue["writer"] \o One(cur["parser"])
          \o queue["parser"] \o One(rtask)

(* The .replay file has what comes of the lines of the capture that neither*)
(* thread refused, each once and in their order, whatever the threads do   *)
(* in between, and when generate_run ends none is missing and #INIT is     *)
(* after the last of them: generate.c:156-178 ends the threads in the      *)
(* order in which they pass tasks on.                                      *)
FileInOrder ==
  LET n == IF rpc = "done" THEN Len(file) - 1 ELSE Len(file)
      written == {file[i] : i \in 1 .. n}
  IN  /\ \A i, j \in 1 .. n : i < j => file[i] < file[j]
      /\ written \subseteq Good
      /\ \A i \in Good, j \in written : i < j => i \in written
      /\ rpc = "done" => written = Good /\ file[n + 1] = InitSection

(* Every task object in use is in exactly one place: with one thread, at   *)
(* one position of one queue, or lost.  The reader thus never fills an     *)
(* object that a queue or another thread still holds (gtask_init on what   *)
(* reuse_queue returned, generate.c:137-143).                              *)
TaskInOnePlace ==
  LET held == Pipe \o reuse IN
  /\ IsInjective(held)
  /\ lost \cap ToSet(held) = {}
  /\ Allocated = lost \cup ToSet(held)

(* The header counts the lines that were accepted, and beyond them only    *)
(* refused lines whose task was lost because reuse_queue was full: a line  *)
(* is not counted as refused twice, or missed because its task was reset   *)
(* (generate.c:140-142, 166-168, 197).                                     *)
HeaderCounts ==
  rpc = "done" =>
    num_lines = Cardinality(Good) + Cardinality({t \in lost : ret[t] = "ERROR"})

(* generate_run comes to its end: no thread waits for ever for room in the *)
(* queue of another, or for one that has stopped.                          *)
GenerateFinishes == <>(rpc = "done")
=============================================================================
