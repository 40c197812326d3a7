-------------------------------- MODULE IoRiot --------------------------------
(***************************************************************************)
(* The processes of ioriot -c, -T, -P, -i, -r and -R (main.c, capture.c,   *)
(* cleanup.c, replay/replay.c, rstats.c).  -c runs the SystemTap script    *)
(* until it ends.  -P has a process remove the files of earlier tests on   *)
(* every mount point.  -R runs the init in a child process, waits for      *)
(* it, and replays if it was successful.  The replay forks its workers,    *)
(* waits for all of them and adds up their statistics, which lie in shared *)
(* memory; with one worker it does the work itself.                        *)
(*                                                                         *)
(* What a worker does with its lines is the subject of ReplayWorker; here  *)
(* it counts them.                                                         *)
(***************************************************************************)
EXTENDS InitMode, SystemTap

CONSTANTS ReplayFiles,   (* the vsize ids of the lines of .replay files    *)
          MaxWorkers,    (* the largest num_workers considered             *)
          MaxPurgers     (* max_purgers of mounts_purge: 16 or more        *)

(* A run without a capture.                                                *)
Idle == [calls |-> {}, who |-> {}, max |-> 0, early |-> 0, skips |-> 0]

ASSUME ReplayAssumption == /\ Idle \in Programs
                           /\ <<>> \in InitSections /\ <<>> \in ReplayFiles
                           /\ \A f \in ReplayFiles : f \in Seq(Nat)
                           /\ MaxWorkers \in Nat \ {0}
                           /\ MaxPurgers \in Nat \ {0, 1}

VARIABLES mode,          (* the option                                     *)
          lines,         (* the .replay file                               *)
          num_workers,   (* options_s.num_workers                          *)
          mpc,           (* where main and replay_run are                  *)
          topurge,       (* the mount points mounts_purge has still to do  *)
          purgers,       (* those whose purger process runs                *)
          init_status,   (* main's local init_status                       *)
          forked,        (* how many workers replay_run has made           *)
          wstate,        (* wstate[w]: "none", "running", "ended", and     *)
                         (* "reaped" once wait has reported it             *)
          wexit,         (* wexit[w]: the wait status of worker w          *)
          left,          (* left[w]: lines that w has still to do          *)
          wioops,        (* wioops[w]: its rworker_stats_s.ioops           *)
          status,        (* replay_run's local status, and main's ret      *)
          ioops,         (* rstats_s.ioops                                 *)
          stacked,       (* the size of all_worker_stats: the statistics   *)
                         (* of the first so many workers                   *)
          exit_code,     (* what the parent of ioriot sees, or -1          *)
          failed         (* history: some process or fork has failed       *)

options == <<mode, lines, num_workers>>
purge == <<topurge, purgers>>
workers == <<wstate, wexit, left, wioops>>
totalling == <<ioops, stacked>>
mvars == <<options, mpc, purge, init_status, forked, workers, status, totalling,
           exit_code, failed>>
vars == <<ivars, cvars, mvars>>

SUCCESS == 0
ERROR == 2
Workers == 1 .. MaxWorkers

(* The status that wait reports of exit(s), and of a signal; the code that *)
(* is left of a status given to exit.                                      *)
WaitStatus(s) == 256 * s
SIGSEGV == 11
ExitCode(s) == s % 256

Init ==
  /\ InitStart
  /\ CaptureInit
  /\ mode \in {"-c", "-T", "-P", "-i", "-r", "-R"}
  /\ mode = "-c" <=> program # Idle
  /\ lines \in ReplayFiles
  /\ num_workers \in Workers
  /\ mode \in {"-c", "-T", "-P"} => lines = <<>> /\ num_workers = 1
  /\ mode \notin {"-i", "-R"} => section = <<>>
  /\ mode \in {"-c", "-r"} => fs = NoTree
  /\ mpc = CASE mode = "-c" -> "capture"
             [] mode \in {"-T", "-P"} -> "cleanup"
             [] mode = "-r" -> "replay"
             [] mode \in {"-i", "-R"} -> "init"
  /\ topurge = Mounts
  /\ purgers = {}
  /\ init_status = SUCCESS
  /\ forked = 0
  /\ wstate = [w \in Workers |-> "none"]
  /\ wexit = [w \in Workers |-> SUCCESS]
  /\ left = [w \in Workers |-> {}]
  /\ wioops = [w \in Workers |-> 0]
  /\ status = SUCCESS
  /\ ioops = 0
  /\ stacked = 0
  /\ exit_code = -1
  /\ failed = FALSE

-----------------------------------------------------------------------------
(* main                                                                    *)

(* The init, in a child process with -R, in this one with -i.              *)
RunInit ==
  /\ mpc = "init"
  /\ InitNext
  /\ failed' = (failed \/ ipc' = "error")
  /\ UNCHANGED <<purge, options, mpc, init_status, forked, workers, status, totalling,
                 exit_code>>

End(s) == mpc' = "ended" /\ exit_code' = ExitCode(s)

(* capture_run: staprun runs until it is told to stop, or an hour is over. *)
CaptureEnds ==
  /\ mpc = "capture" /\ armed
  /\ End(SUCCESS)
  /\ UNCHANGED <<purge, ivars, options, init_status, forked, workers, status, totalling, failed>>

(* It cannot be started, or reports a failure.                             *)
CaptureFails ==
  /\ mpc = "capture"
  /\ failed' = TRUE
  /\ status' = ERROR
  /\ End(ERROR)
  /\ UNCHANGED <<purge, ivars, options, init_status, forked, workers, totalling>>

(* mounts_trash                                                            *)
TrashAll ==
  /\ mpc = "cleanup" /\ mode = "-T"
  /\ fs' = NoTree
  /\ End(SUCCESS)
  /\ UNCHANGED <<imain, ithreads, task_of, reuse_queue, lost, options, purge,
                 init_status, forked, workers, status, totalling, failed>>

(* mounts_purge forks a process for the next mount point, when one may run.*)
StartPurger ==
  /\ mpc = "cleanup" /\ mode = "-P" /\ topurge # {}
  /\ Cardinality(purgers) + 1 < MaxPurgers
  /\ purgers' = purgers \cup {Min(topurge)}
  /\ topurge' = topurge \ {Min(topurge)}
  /\ UNCHANGED <<ivars, options, mpc, init_status, forked, workers, status, totalling,
                 exit_code, failed>>

(* A purger: ensure_dir_empty, and exit(0).                                *)
Purge(m) ==
  /\ m \in purgers
  /\ fs' = [z \in FsPaths |-> IF Mount[z] = m THEN Absent ELSE fs[z]]
  /\ purgers' = purgers \ {m}
  /\ UNCHANGED <<imain, ithreads, task_of, reuse_queue, lost, options, mpc, topurge,
                 init_status, forked, workers, status, totalling, exit_code, failed>>

(* It cannot remove a file; nobody looks at its status.                    *)
PurgerFails(m) ==
  /\ m \in purgers
  /\ purgers' = purgers \ {m}
  /\ failed' = TRUE
  /\ UNCHANGED <<ivars, options, mpc, topurge, init_status, forked, workers, status,
                 totalling, exit_code>>

(* Faulty variant: nobody waits for the purgers.                           *)
PurgeEndsAtOnce ==
  /\ mpc = "cleanup" /\ mode = "-P" /\ topurge = {}
  /\ End(SUCCESS)
  /\ UNCHANGED <<ivars, options, purge, init_status, forked, workers, status, totalling,
                 failed>>

(* while (wait(&cleaner_status) > 0)                                       *)
PurgeEnds ==
  /\ mpc = "cleanup" /\ mode = "-P" /\ topurge = {} /\ purgers = {}
  /\ End(SUCCESS)
  /\ UNCHANGED <<ivars, options, purge, init_status, forked, workers, status, totalling,
                 failed>>

(* A tree cannot be moved, or fork fails; purgers that run go on.          *)
CleanupFails ==
  /\ mpc = "cleanup"
  /\ failed' = TRUE
  /\ status' = ERROR
  /\ End(ERROR)
  /\ UNCHANGED <<ivars, options, purge, init_status, forked, workers, totalling>>

InitResult == IF ipc = "success" THEN SUCCESS ELSE ERROR

(* -i: the status of init_run is the one of main.                          *)
InitEnds ==
  /\ mpc = "init" /\ mode = "-i"
  /\ ipc \in {"success", "error"}
  /\ status' = InitResult
  /\ End(InitResult)
  /\ UNCHANGED <<purge, ivars, options, init_status, forked, workers, totalling,
                 failed>>

(* Faulty variant: the replay follows in any case.                         *)
InitWaitedAnyway ==
  /\ mpc = "init" /\ mode = "-R"
  /\ ipc \in {"success", "error"}
  /\ init_status' = WaitStatus(InitResult)
  /\ mpc' = "replay"
  /\ UNCHANGED <<purge, ivars, options, forked, workers, status, totalling, exit_code,
                 failed>>

(* -R: waitpid, and Cleanup_unless(SUCCESS, init_status).                  *)
InitWaited ==
  /\ mpc = "init" /\ mode = "-R"
  /\ ipc \in {"success", "error"}
  /\ init_status' = WaitStatus(InitResult)
  /\ IF init_status' = SUCCESS
     THEN mpc' = "replay" /\ UNCHANGED <<status, exit_code>>
     ELSE status' = init_status' /\ End(init_status')
  /\ UNCHANGED <<purge, ivars, options, forked, workers, totalling, failed>>

(* -R, and fork has failed: there is no child to wait for, and init_status *)
(* is read without ever having been written; here it is 0 or it is not.    *)
InitForkFails ==
  /\ mpc = "init" /\ mode = "-R"
  /\ ipc = "trash"
  /\ ipc' = "unforked"
  /\ failed' = TRUE
  /\ init_status' \in {SUCCESS, 1}
  /\ IF init_status' = SUCCESS
     THEN mpc' = "replay" /\ UNCHANGED <<status, exit_code>>
     ELSE status' = init_status' /\ End(init_status')
  /\ UNCHANGED <<purge, options, section, next_line, itask, iterminate, iteam,
                 totals, ithreads, task_of, reuse_queue, fs, lost, forked,
                 workers, totalling>>

-----------------------------------------------------------------------------
(* replay_run                                                              *)

(* The lines of worker number w - 1: rworker_process_lines.                *)
LinesOf(w) == {i \in DOMAIN lines : lines[i] % num_workers = w - 1}

(* The next worker: a child, or with one worker replay_run itself.         *)
StartWorker ==
  /\ mpc = "replay" /\ forked < num_workers
  /\ forked' = forked + 1
  /\ stacked' = stacked + 1
  /\ wstate' = [wstate EXCEPT ![forked + 1] = "running"]
  /\ left' = [left EXCEPT ![forked + 1] = LinesOf(forked + 1)]
  /\ UNCHANGED <<purge, ivars, options, mpc, init_status, wexit, wioops, status, ioops,
                 exit_code, failed>>

(* fork fails: Errno ends ioriot; workers that run already go on.          *)
WorkerForkFails ==
  /\ mpc = "replay" /\ forked < num_workers /\ num_workers > 1
  /\ failed' = TRUE
  /\ status' = ERROR
  /\ End(ERROR)
  /\ UNCHANGED <<purge, ivars, options, init_status, forked, workers, totalling>>

AllForked ==
  /\ mpc = "replay" /\ forked = num_workers
  /\ mpc' = "wait"
  /\ UNCHANGED <<purge, ivars, options, init_status, forked, workers, status,
                 totalling, exit_code, failed>>

(* A worker does a line and counts it.                                     *)
WorkerLine(w) ==
  /\ wstate[w] = "running"
  /\ \E i \in left[w] : /\ \A j \in left[w] : i <= j
                        /\ left' = [left EXCEPT ![w] = @ \ {i}]
  /\ wioops' = [wioops EXCEPT ![w] = @ + 1]
  /\ UNCHANGED <<purge, ivars, options, mpc, init_status, forked, wstate, wexit,
                 status, totalling, exit_code, failed>>

(* exit(status): rworker_process_lines returns SUCCESS or does not return. *)
WorkerExits(w) ==
  /\ wstate[w] = "running" /\ left[w] = {}
  /\ wstate' = [wstate EXCEPT ![w] = "ended"]
  /\ wexit' = [wexit EXCEPT ![w] = WaitStatus(SUCCESS)]
  /\ UNCHANGED <<purge, ivars, options, mpc, init_status, forked, left, wioops,
                 status, totalling, exit_code, failed>>

(* Error() or a signal ends a worker; the only one ends ioriot with it.    *)
WorkerFails(w) ==
  /\ wstate[w] = "running"
  /\ failed' = TRUE
  /\ wstate' = [wstate EXCEPT ![w] = "ended"]
  /\ \E s \in {WaitStatus(ERROR), SIGSEGV} : wexit' = [wexit EXCEPT ![w] = s]
  /\ IF num_workers > 1 THEN UNCHANGED <<mpc, exit_code, status>>
     ELSE status' = ERROR /\ End(ERROR)
  /\ UNCHANGED <<purge, ivars, options, init_status, forked, left, wioops, totalling>>

(* Faulty variant: the wait ends with the first worker.                    *)
WaitForOne ==
  /\ mpc = "wait"
  /\ \E w \in Workers :
       /\ wstate[w] = "ended"
       /\ wstate' = [wstate EXCEPT ![w] = "reaped"]
       /\ status' = IF wexit[w] # SUCCESS THEN wexit[w] ELSE status
  /\ mpc' = "stats"
  /\ UNCHANGED <<purge, ivars, options, init_status, forked, wexit, left, wioops, totalling,
                 exit_code, failed>>

(* wait: a status that is not SUCCESS becomes the one of replay_run.       *)
ReapWorker ==
  /\ mpc = "wait"
  /\ \E w \in Workers :
       /\ wstate[w] = "ended"
       /\ wstate' = [wstate EXCEPT ![w] = "reaped"]
       /\ status' = IF wexit[w] # SUCCESS THEN wexit[w] ELSE status
  /\ UNCHANGED <<purge, ivars, options, mpc, init_status, forked, wexit, left, wioops,
                 totalling, exit_code, failed>>

(* wait has no more children to report.                                    *)
AllReaped ==
  /\ mpc = "wait"
  /\ \A w \in Workers : wstate[w] \in {"none", "reaped"}
  /\ mpc' = "stats"
  /\ UNCHANGED <<purge, ivars, options, init_status, forked, workers, status,
                 totalling, exit_code, failed>>

(* stack_pop and rstats_add_from_worker, as long as there are some.        *)
AddStats ==
  /\ mpc = "stats" /\ stacked > 0
  /\ ioops' = ioops + wioops[stacked]
  /\ stacked' = stacked - 1
  /\ UNCHANGED <<purge, ivars, options, mpc, init_status, forked, workers, status,
                 exit_code, failed>>

(* replay_run and main return.                                             *)
ReplayReturns ==
  /\ mpc = "stats" /\ stacked = 0
  /\ End(status)
  /\ UNCHANGED <<purge, ivars, options, init_status, forked, workers, status,
                 totalling, failed>>

Worker(w) == WorkerLine(w) \/ WorkerExits(w) \/ WorkerFails(w)

RunCapture == mpc = "capture" /\ CaptureNext /\ UNCHANGED <<ivars, mvars>>

Next ==
  \/ RunCapture
  \/ /\ \/ CaptureEnds \/ CaptureFails
        \/ TrashAll \/ StartPurger \/ PurgeEnds \/ CleanupFails
        \/ \E m \in Mounts : Purge(m) \/ PurgerFails(m)
        \/ RunInit \/ InitEnds \/ InitWaited \/ InitForkFails
        \/ StartWorker \/ WorkerForkFails \/ AllForked
        \/ \E w \in Workers : Worker(w)
        \/ ReapWorker \/ AllReaped \/ AddStats \/ ReplayReturns
     /\ UNCHANGED cvars

Spec == Init /\ [][Next]_vars

-----------------------------------------------------------------------------
(* When ioriot -P or -T is done and nothing has failed, nothing is left of *)
(* earlier tests on any mount point, however many purgers may run at a     *)
(* time: ioriot waits for all of them (mounts.c:323-350).                  *)
CleanedUp ==
  mpc = "ended" /\ mode \in {"-P", "-T"} /\ ~failed => fs = NoTree

(* With -R nothing is replayed before the init has made all the files, and *)
(* never after an init that failed: "Only proceed if initialisation was    *)
(* successfull!" (main.c:265).  The exception is an init process that      *)
(* could not be forked.                                                    *)
ReplayAfterInit ==
  mode = "-R" /\ forked > 0 =>
    \/ ipc = "success" /\ fs = OneAfterAnother.fs
    \/ ipc = "unforked"

(* When nothing has failed, the statistics of a replay count every line of *)
(* the file once: no line belongs to two workers, and none is still being  *)
(* done when the statistics are added up (replay.c:195-227).               *)
EveryLineCounted ==
  mpc = "ended" /\ mode \in {"-r", "-R"} /\ ~failed => ioops = Len(lines)

(* "@return SUCCESS if everything went fine" (replay.h:29), and main       *)
(* returns that as "The exit code" (main.c): who calls ioriot sees 0 if    *)
(* and only if no process has failed.                                      *)
ExitCodeTells == mpc = "ended" => (exit_code = 0 <=> ~failed)
=============================================================================
