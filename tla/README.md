# A TLA+ development of I/O Riot

I/O Riot captures the file system calls of a Linux machine with SystemTap,
translates the capture into a `.replay` file, creates the files the replay
needs, and replays the calls with many processes and threads. This directory
holds TLA+ models of its program `ioriot` (`src/ioriot/src`), the TLC
configurations that check them, and proofs for the TLA+ proof system. Paths
below are relative to `src/ioriot/src`.

## The system

| Part | State | Operations | Talks to |
|---|---|---|---|
| ring buffer (`datas/rbuffer.c`) | `ring`, `read_pos`, `write_pos` | insert, has_next, get_next, without a lock | one consumer thread, one producer thread or several around a mutex |
| replay worker (`replay/rworker.c`) | thread of each path (`rthread_map`), idle threads (`rthread_buffer`), free tasks (`task_buffer`), a stack of all threads | read a line, pick or create or wait for a thread, hand the task over, terminate and join | its threads, through one task ring per thread and the two shared rings |
| replay thread (`replay/rthread.c`) | `tasks`, `terminate` | wait, drain, offer itself when idle, last drain, exit | the worker, the I/O handlers |
| task objects (`replay/rtask.c`) | line number, path number, text | new, update, destroy | allocated by the worker, recycled or freed by the threads |
| I/O handlers (`replay/rioop.c`, `vfd.c`) | `fds_map`: virtual descriptor to `vfd_s` | open, close, and everything that uses a descriptor or a path | all threads of a worker (of all workers: `fds_map` is one array) |
| replay master (`replay/replay.c`, `main.c`) | exit status of each child | fork workers, wait, collect statistics | workers, by fork, wait and shared memory |
| generator (`generate/*.c`) | maps of pids, descriptors, virtual descriptors and paths; three rings; line counters | parse an event, write a replay line, close what was left open, INIT section, header | three threads: reader, parser, writer |
| virtual sizes (`generate/vsize.c`, `datas/btree.c`) | bytes, required and touched flags, ranges read | one operation per kind of system call | the generator's writer; the INIT section |
| init mode (`init/*.c`) | one thread and queue per mount point, a queue of finished tasks | create directories, links and files | the replay file's INIT section |
| containers (`datas/amap.c`, `hmap.c`, `btree.c`, `list.c`, `stack.c`) | arrays, buckets, trees | set, get, unset, insert, remove | everybody; no locks of their own |
| line parser (`generate/gparser.c`) | the start of the capture | take a line apart, refuse it or pass it on | mounts; the generator's writer |
| mounts (`mounts.c`) | tables of supported and ignored mount points | read `/proc/mounts`, transform paths and targets of links, trash, purge | parser, init, clean-up |
| capture (`capture/capture.c`, `../../systemtap/src/*.stp`) | arrays of arguments by thread and call | a probe at the entry and one at the return of 51 system calls | the kernel; the `.capture` file |
| header (`meta/meta.c`), options, utilities | files and strings | I/O | |

What is hard: the lock-free rings; threads that are recycled from one path to
another while the worker may be handing them a task; task objects that travel
between threads; `vfd_s` objects that are looked up without a lock and destroyed
outside it; threads that must notice the end of the file after their last task;
a generator that must keep its three queues, its counters and its descriptor
tables consistent although the capture loses events; files that must be required
for the replay after long sequences of calls; processes whose failure must reach
the exit status; a capture whose probes see calls that overlap and miss others;
paths that must stay apart after they were rewritten. `PROJECT.json` lists these hazards line by line.

What makes the parts correct:

- ring buffer: a FIFO queue whose calls are atomic; the two sides never touch
  the same slot.
- worker and threads: the lines of one path are replayed one at a time, in the
  order of the file, every line once; no task object is lost, freed twice or
  filled while in use; no `vfd_s` is used after it was destroyed; no thread is
  lost; the worker ends.
- generator: a virtual descriptor is opened once, belongs to one path, and is
  closed last; numbers stay below the sizes in the header; the header counts the
  lines; nothing queued is lost when the threads terminate.
- parser and mounts: different files stay different, links lead where they led,
  unsupported file systems are filtered out, times keep their distance.
- virtual sizes, INIT: what the replay reads is there, and large enough; threads
  make what one thread would make.
- containers: what was set is what is got, and no other key changes.
- master: no replay without a successful init, every line counted, a failure
  seen by the caller.
- capture: a line has the arguments of its own call, and the descriptor in it is
  the file the call was about.

## Modules

| Module | What it is |
|---|---|
| `BoundedQueue` | abstract: a FIFO queue of at most `Capacity` pointers with atomic calls |
| `RBuffer` | `datas/rbuffer.c`, one access to a shared field per step; its refinement mapping to `BoundedQueue` |
| `RBufferProofs` | its invariant, and that it implements `BoundedQueue`, for every size |
| `ReplayFile` | what the generator promises of the lines of a `.replay` file and the replayer relies on |
| `ReplayWorker` | one worker process with its threads, task objects and descriptor table |
| `MCReplayWorker` | the finite instances: the `.replay` files TLC enumerates |
| `ReplayWorkerProofs` | types, control, ownership, order, that the order per path protects the `vfd_s` objects, and that no task, thread or line is lost, for every file and every size |
| `DescriptorTable` | abstract: a table of open descriptors per process, a fresh number for every open, and a log |
| `Generate` | the writer of the generator: events to lines, with the maps of processes, descriptors and paths; its refinement mapping to `DescriptorTable` |
| `MCGenerate` | a finite instance: two processes, a directory and a file |
| `GenerateProofs` | that the maps stay consistent, the lines well formed, the header large enough, and that it implements `DescriptorTable`, for every capture |
| `GeneratePipeline`, `MCGeneratePipeline` | reader, parser and writer threads of `ioriot -g`: hand-over, recycling, termination, line counts |
| `GeneratePipelineProofs` | that the three threads write every accepted line once and in order, for every capture and every length of the queues |
| `Mounts` | the tables of mount points, and the functions on paths |
| `Gparser`, `MCGparser` | the parser on one line after the other; extends `Mounts` |
| `BTree` | the search tree of ranges, as a function from positions to elements |
| `Vsize`, `MCVsize` | what the generator finds out about files, up to the INIT section; extends `BTree` |
| `VsizeProofs` | that the trees cover exactly what was read, and that no path or parent the replay needs is forgotten, for every capture |
| `HMap`, `AMap` | hash map with lists, two-level array map, as functions |
| `ProcessTable` | abstract: the same maps as plain functions |
| `GenerateMaps`, `MCGenerateMaps` | the maps of the generator in memory; extends `HMap` and `AMap`; its refinement mapping to `ProcessTable` |
| `GenerateMapsProofs` | that the maps in memory do what plain functions would, for every hash and all sizes |
| `InitMode` | `ioriot -i`: main thread, threads per mount point, file system |
| `SystemTap` | the capture script, with the kernel and the captured threads around it |
| `IoRiot`, `MCIoRiot` | the processes of `ioriot` by its options, composed of `InitMode`, `SystemTap` and the replay master |
| `IoRiotProofs` | that clean-up leaves nothing, that no worker starts before the init, that every line is counted, and that an init with any number of threads is that of one thread, for every section, every set of paths and all sizes |
| `CaptureProofs` | that a line of the capture has the arguments of its own call, for any number of threads, calls and skipped probes, and that an I/O is taken for one on its own file or none |

### RBuffer

`rbuffer_insert` is `CallInsert`, then `InsertFull` or `InsertNotFull`,
`StoreSlot`, `PublishWrite`; `rbuffer_get_next` is `GetEmpty`, or `GetNotEmpty`,
`LoadSlot`, `ClearSlot`, `PublishRead`. Each of these makes at most one access
that another thread can see. `rbuffer_has_next` reads the same two fields once
and is the predicate `HasNext`. The program is built without optimisation and
`rbuffer.h:22-24` refuses anything but x86_64, so stores are seen in program
order; a load may overtake an earlier store to another address, but each side
stores one position, which the other side only reads as a bound, so a late
store only makes the other side see the ring fuller or emptier than it is.
A mutex around the producers covers the rings that have several
(`task_buffer`, `rthread_buffer`).

The abstract queue is `queue <- Queue`, the slots strictly between the two
positions; an insert takes effect at `PublishWrite`, a get at `PublishRead`.

### ReplayWorker

`wpc` is the place in `rworker_process_lines`, `tpc[t]` the one in
`rthread_pthread_start` and the handler it calls. The rings are sequences and
their calls single steps: that is what `RBuffer` shows. A line of the file is a
record of its path, its kind and its descriptor; the file is chosen at the
start and never changes. The throttle, the statistics output, the text of lines
and the process objects (all of which share one `fds_map`) are left out.

- The line loop is `ReadLine` and `EndOfLines`; the choice of the thread is
  `UseSingleThread`, `PickMapped`, `RecycleThread`, `AwaitThread`,
  `CreateThread`, and each of the last three ends in `amap_set(rthread_map)`,
  which does nothing when the map is too small (`MapVsize`).
- `GetTask`, `InsertTask` and `RunInline` fill a task object and hand it over.
- `LeaveWait`, `TakeTask`, `Drained`, `Idle`, `Recheck`, `LockRthreadBuffer`,
  `LookLocked`, `Offer`, `CheckTerminate`, `Exit` are the thread. The flag
  `terminate` is read at each of the four places the code reads it.
- A handler is `PathOp`, `Open`, `LookupFd` then `UseFd`, or `UnsetFd` then
  `DestroyFd`, by what it does to `fds_map`. What happens under `fds_map_mutex`
  is one step; the look-up, which takes no mutex, and the use are two.
- `RecycleTask` is the end of `rthread_process_task`, under `task_buffer_mutex`.

Every thread object of the program is a number below `MaxThreads + 1`, a task
object is a model value whose `line` is 0 while it is not allocated. `destroyed`
and `done` are history variables.

### Generate

An event of the capture is one step of the writer thread (`gioop_run`), chosen
freely: SystemTap loses calls, so any sequence may come, of any pids and
descriptors. `exit_group` is the exception: `ExitGroup`, one `CloseOnExit` per
entry of `vfd_map` in any order (a hash map decides it), then `GprocessDestroy`.

| Action | Code |
|---|---|
| `Open`, `OpenAgain` | `gioop_open`, `_openat`, `_creat` with `gprocess_create_vfd_by_realfd`, without and with the inserted close |
| `Use` | the handlers of calls on a descriptor; `update` says whether the path's `updates` is counted up (more than zero bytes moved, a seek that succeeded) |
| `Close` | `gioop_close`, whatever the call returned |
| `PathOp`, `Rename`, `Sync` | the handlers of calls on paths, and `sync` |
| `NoLine` | an event that makes a process object and nothing else: ignored calls, unknown ones, missing values, descriptors that are not open |
| `Refused` | a task that the parser has marked as failed |

Descriptors 0 and below never reach a handler (`gparser.c:211`), so `Fds` stands
for the numbers above 0, and a failed open has no line. `pid_map[p]` is the
number of p's process object, `vfd_map[p]` and `fd_map[p]` its two maps, `vfd`
the memory of the `vfd_s` objects and `vfd_buffer` the ring of those to be
recycled. `vsizes` has of every path its number, and whether it had an update,
which decides whether the parent directory is numbered, too. Sizes, ranges and
file types are left out. An open that finds no memory is not enabled, as
`Malloc` ends the program.

`ReplayFile` joins the two halves of the program: `DescriptorsWellFormed` says of
the lines written so far what `MCReplayWorker` requires of the files TLC
enumerates and `ReplayWorkerProofs` assumes of all files.

### GeneratePipeline

The rings are bounded sequences, as `RBuffer` shows. `rpc` is the place in
`generate_run`; the two other threads have the same loop, so `TakeTask`,
`QueueEmpty` and `TestTerminate` have the stage as a parameter, and
`ParserPasses` and `WriterRuns` are what differs. Of a line only its fate is
kept: a comment, refused by the parser, refused by the writer, or accepted. The
header's `num_lines` counts accepted lines: closes that `Generate` inserts are in
the file but not in it (it is only used to print a percentage, `rworker.c:321`).
`GiveBack` ignores whether the ring had room, as `gwriter.c:39` does.

### Mounts, Gparser

An absolute path is a sequence of components, a component a sequence of letters:
`mounts.c:441` compares names without looking for the end of a component, and
`StartsWith` does the same. `ReadMount` reads a line of `/proc/mounts`,
`MountError` is the end of a program that finds too many supported mount points,
`ParseLine` is `gparser_extract` with all it calls. The first time a line gives is
the start of the capture even if the line is refused. The number of unsupported
mount points is not checked (`mounts.c:204`): one more than `ignore_mps` has room
for is stored over the field behind it (`Overrun`), what follows is undefined, and
the model stops there (`pc = "undefined"`).

The history variable `proc_mounts` keeps all the table, for the view of the kernel
on a path: it is on the mount point with the longest name, by components, that
begins it once `.`, `..` and empty components are gone (`OnMount`). `OnSupported`
says so of the file system, and `NoUnsupportedMount` compares it with what the
program, which knows letters only, let pass.

### Vsize, BTree

`Step` is one line of the capture; `Stat`, `Readlink`, `Mkdir`, `Rmdir`, `Unlink`,
`Rename`, `Open`, `Close`, `Read`, `Write` and `Seek` are the handlers with what
they call in `vsize.c`. A tree of ranges is a function from positions,
which are the sequences of turns from the root, to the key and data of the element
there. All algorithms of `btree.c` that recurse take the same way, so that none
needs a recursive operator here: `Way` is where the search for a key comes along,
and an algorithm is given by where on it it stops (`Stops`) and what it puts there.
`written`, `counted`, `skipped` and `asked` are history variables that say what
really happened to the bytes. `WriteInit` visits all paths; `LinesOf` and `InitData`
are the lines about a path in the INIT section and the bytes they ask for.

### HMap, AMap, GenerateMaps

A slot of a hash map holds a single pair or a list; `hmap_remove_l` does not
compare the key of a single pair. A position of an array map is split by two
macros without parentheses, `1024*8`, so that the array is `position / 1024 * 8`
and the index `position % 1024 * 8`: different positions still get different
cells, which `ImplementsProcessTable` relies on. `GenerateMaps` calls the maps in
the order in which `gprocess.c`, `generate.c` and `gioop.c` do.

### InitMode, SystemTap, IoRiot

`ipc` is the place in `init_run`, `itpc[m]` the one in the thread of mount point
`m`. `RunTask` is what one line does to the file system: `mkdir_p`,
`ensure_file_exists`, `write_random_to_file` (which truncates and writes one byte
less) or a link, and which statistics it counts. `Trash` moves earlier trees away.
`GetItask` recycles a task that came back, after its statistics were added up;
when all threads are joined `CountItask` does the same with each task that is left
in `reuse_queue`, and `FinishInit` returns when there is none. `Worked(s)[i]` is
the reference: the file system and the statistics after the first `i` lines of
`s`, worked off by one thread. Two facts about paths are assumed by name
(`ChainAssumption`): the directories above a path are on its mount point, and the
chain of a path is that of its directory and the path.

In `SystemTap` a thread of a captured program is between calls, in a call that
has not taken effect, or in one that has: `Enter`, `Execute`, `Return`. The probes
run in `Enter` and `Return`, unless the script does not run yet or SystemTap skips
them. `Saved` lists which arrays a probe writes; the model is one `Enter` and one
`Return` for all calls. The kernel and the programs are external and as permissive
as programs without descriptor races of their own are: a thread uses descriptors
that some call of its process has returned, and closes none that is in use.

`IoRiot` chooses one of the options `-c`, `-T`, `-P`, `-i`, `-r`, `-R` in `Init`
and runs the parts the option runs. Every child process and every fork may fail.
`wait` reports `256 * status`, or the number of a signal; `exit` keeps one byte.

## Runs

| Run | Checks | Result |
|---|---|---|
| `rbuffer` | `TypeOK`, `SidesApart`, `HasNextStable`, `ImplementsQueue` | holds |
| `worker` | `TypeOK`, `VsizeOrder`, `NoUseAfterDestroy`, `TaskInOnePlace`, `NoTaskLeft`, `AllLinesReplayed`, `NoThreadLost`, no deadlock | holds |
| `worker_live` | `WorkerFinishes` under `FairSpec` | holds |
| `generate` | `TypeOK`, `DescriptorsWellFormed`, `NothingForgotten`, `VfdInOnePlace`, `MapsAgree`, `HeaderCoversLines`, `ImplementsTable` | holds |
| `pipeline` | `FileInOrder`, `TaskInOnePlace`, `HeaderCounts`; `GenerateFinishes` under `FairSpec` | holds |
| `parser` | `PathsApart`, `NoUnsupportedMount`, `SymlinkResolves`, `TimesKeepDistance` | holds |
| `vsize` | `RangesExact`, `SkippedReadsKnown`, `ParentKnown`, `InitSectionExact` | holds |
| `maps` | `KeysInOnePlace`, `ImplementsProcessTable` | holds |
| `ioriot` | `CleanedUp`, `SameAsOneThread`, `StatsAddUp`, `ReplayAfterInit`, `EveryLineCounted`, `ArgumentsOfTheCall`, `RightFileOrNone` | holds |
| `worker_map_end` | `NoUseAfterDestroy` with a full `rthread_map` | violated: a finding |
| `vsize_hole` | `RequiredIsInitialised` | violated: a finding |
| `ioriot_exit` | `ExitCodeTells` | violated: a finding |

Further configurations, which are not among the runs of `PROJECT.json`, show other
places where the code departs from its comments, each within seconds:

| Configuration | Module | Property that it violates |
|---|---|---|
| `MCGparserCrash.cfg` | `MCGparser` | `TargetRefusedSafely` (`mounts.h:154`) |
| `MCGparserRoot.cfg` | `MCGparser` | `AllFiltered` (`mounts.h:35-36`), root on an unsupported file system |
| `MCGparserDot.cfg` | `MCGparser` | `AllFiltered`, root on a supported one |
| `MCGparserMounts.cfg` | `MCGparser` | `IgnoredMountsFit` (`mounts.h:46`) |
| `MCVsizeGrow.cfg` | `MCVsize` | `ReadSizeIsThere` (`vsize.h:28-29`) |
| `MCIoRiotRanges.cfg` | `MCIoRiot` | `RangesInitialised` (`futils.h:94`) |

Bounds. `rbuffer`: four slots, two producers, three pointers; the positions wrap,
the ring fills up and empties, and a full ring holds three different pointers,
so a wrong order would show. `worker`: all files of four lines about up to three
paths and one descriptor that is opened, used and closed; one or two threads,
rings of one task, `task_buffer` of one or three objects. Two threads and three
paths are the least for which a thread is recycled while another path's lines
wait; a ring of one task is full after the first; four lines let a thread be
offered, picked by way of `rthread_map` and recycled. TASK_BUFFER_PER_THREAD is
512 and 128 threads are the default: the proofs cover these. `worker_live` has a
fourth path number, of another worker, so that lines are skipped. The unit of
`amap_new`, 1024, is 4 in the runs that pass and 2 in `worker_map_end`, where
two paths are a whole multiple of it. `generate`: all captures of five events of
two processes with two descriptors each. Five events open a number again after
its close was lost, close it, open it once more with a recycled object and use
it, with the other process in between; or end a process and start another with
the same pid. Three objects and a buffer of one make the buffer overflow; an open
that needs a fourth object is beyond the bound. The capture is finite and the
writer stops at its end, so deadlock is not checked there.

`pipeline`: up to four lines of all four kinds, queues of one task each, so that
every thread has to wait for every other one, and `reuse_queue` overflows. More
lines only repeat this. `parser`: the tables of mount points nest supported and
unsupported ones, have one whose name begins another, lack a root, have an unsupported one, and are
one entry too long for either array (`MaxMounts` is 3 for 1024 in the code); two
lines show what one leaves to the next. Every path of eight
meets every other, and every target of six: with `..`, `.`, `//`, and outside of
everything. `vsize`: six events of one descriptor, offsets and lengths up to
three, holes of up to one byte ignored (10 MB in the code). Six are an open, a
write, a seek and three reads, from which a tree with three ranges follows that a
fourth one joins. `maps`: three keys and two slots, so that two must share one;
the two lengths of the array map are 2 and 2, for pids up to 3 of which 3 is
rounded up to 4. Five events collide, remove and insert again. `ioriot`: three
INIT lines on two mount points with queues of one task and three task objects, so
that `reuse_queue` overflows; three lines for one or two workers; `MaxPurgers` of
two makes `-P` wait between forks. Captures of two to four calls: two threads that
race for a number, calls before the capture starts, one or two probes skipped, three
threads with arrays of two entries, and any two of all the probed calls. Two
processes in `Wanted` and two numbers are the least in which keys, numbers and
processes can be confused. `x`, `y` and `t1`, `t2` are interchangeable in every
definition, so `ioriot`, which checks no liveness, uses them as a symmetry.
`ioriot` and `ioriot_exit` end, as do `parser`, `vsize`, `vsize_hole` and `maps`, and a
capture is finite in `pipeline`: they are run without the deadlock check.

Exceptions that properties make are behaviour of the code, and written there: a
path that was first met as somebody's parent has no parent looked after
(`vsize.c:101`); a required path that the capture wrote to may have no INIT line,
and the size of a file without holes may fall short of what was read
(`InitSectionExact` claims neither; `vsize_hole` and `MCVsizeGrow.cfg` show both); a
path on an unsupported root is passed on (`mounts.c:203`, `MCGparserRoot.cfg`);
a task that `reuse_queue` has no room for is not counted as
refused (`gwriter.c:39`); a path with a lone `.` is not normalised
(`mounts.c:30`, `MCGparserDot.cfg`); the replay follows an init that could not be forked when the
uninitialised `init_status` happens to be 0 (`main.c:262`); a number printed while
its close is being made by another thread may be the old file or the new one
(`ioriot.stp:629`).

The findings, and what the further configurations show. Path numbers start at 1 (`generate.c:252`) and `rworker_new` makes
`rthread_map` with `amap_new(num_vsizes)`, which rounds up to a multiple of 1024
but not beyond one. With 1024, 2048, ... paths the last number is not below the
size, `amap_set` returns -1 and `rworker.c:275` ignores it. The lines of that
path then go to any idle thread, each time anew: their order is lost, and a
handler may use a `vfd_s` that the close, run by another thread, has destroyed;
`rioop.c:358` relies on this never happening. `fds_map` has the same limit, by
which a descriptor is not entered at all: `Open` allows that outcome.

When the path of a symbolic link is on a supported mount point and its target on
none, `mounts_transform_path` leaves the result NULL and returns true;
`mounts.c:514` then searches a null pointer, although the function is documented
to return false. `MCGparserCrash.cfg` reaches that call.

The status of a child process is used as a `status_e` (`replay.c:195-199`,
`main.c:254-266`): a child that ended with `Error()` has status 512, whose low
byte, all that remains after `exit`, is 0. `ioriot_exit` shows a failed worker or
init that the caller of `ioriot` takes for a success. A purger that fails is not
even looked at (`mounts.c:349`).

What the mounts object is to filter out (`mounts.h:35-36`) is passed on in two
cases. An unsupported root is left out of `ignore_mps` (`mounts.c:203`), as every
path begins with `/`; then nothing refuses a path that is on no other mount point
(`MCGparserRoot.cfg`). And `/./proc/x` begins with no ignored name, as a path is only
normalised when it has `..` or `//` in it (`mounts.c:30`, `MCGparserDot.cfg`).
`MCGparserMounts.cfg` shows the missing check of `mounts.c:204`: `opts` lies behind the
array (`mounts.h:46-47`).

The size of a file that is written or read one piece after the other is not
followed. `v->bytes` is 0 at first and stays 0 when the first access at offset 0 is
of 10 MB or less (`vsize.c:209`). If the first is a write, the next write, behind
it, then seems to leave a hole: `v->bytes` becomes -1, the tree of writes has the
data, and `generate.c:232` writes no INIT line although the file may be required
(`vsize_hole`: opened without `O_CREAT`, so that its open will fail in the replay).
Within a known size, an access is compared by its length and not by its end
(`vsize.c:217-219`): two reads of 2 bytes give a file of 2 (`MCVsizeGrow.cfg`; with the
holes of 10 MB of the code the reads have to be longer than that). A file read
behind a hole gets one INIT line for each range, and each line with an offset
truncates what the lines before have written (`futils.c:150`, called at
`ithread.c:99`): `MCIoRiotRanges.cfg`. `SameAsOneThread` does not see this, as one
thread does the same; it is about the schedule only.

Fairness. The worker and every thread are scheduled (weak fairness of each). A
thread that waits for `rthread_buffer_mutex` gets it in the end although others
take it again and again (strong fairness): every holder sleeps for a millisecond
between two tries with the mutex free (`rthread.c:116`). No fairness is assumed
of the outcome of a system call. In `pipeline` each of the three threads has weak
fairness: none holds a lock, and each polls with a sleep in between. `InitMode`
and `IoRiot` state no fairness, as no liveness is checked of them.

## Proofs

All proofs are checked by TLAPS with Z3, Zenon and LS4; each holds for every
value of the constants that satisfies the modules' named assumptions.

- `RBufferProofs`: the inductive invariant `IInv` says which slots are empty:
  those outside the stretch between the positions, where a producer that has
  stored but not published, and a consumer that has cleared but not published,
  are each off by one. `SidesApart` and `HasNextStable` follow;
  `RingImplementsQueue` maps `PublishWrite` to `Put`, `PublishRead` to `Take`,
  the refusals to `Refuse` and `TakeNothing`, and all else to stutters.
- `ReplayWorkerProofs.TypeCorrect`: types need to know what the program counters
  say of the local variables (`ControlInv`), which threads were started
  (`StartInv`), that no task object is held twice (`HeldOnce`) and that what is
  held is allocated (`Allocated`).
- `ReplayWorkerProofs.VsizeOrderHolds`, from the assumption `AllStorable` that
  `rthread_map` has room for every path (without it the run `worker_map_end`
  shows the opposite). `OwnerInv`: a line is only ever in the hands of the thread
  `rthread_map` names for its path, and entries never change once made, however
  often the thread is recycled. `RankInv`: a thread's line in hand and its ring
  are in the order of the file. `PendingInv`: a line that was handed over is
  replayed or in somebody's hands, not both. So an earlier line of the same path
  that is not replayed would have to be in the ring of the same thread, behind a
  later one.
- `ReplayWorkerProofs.VfdsOutliveTheirUsers`: from the same assumption and
  `ClosesLast` (no line on a descriptor after its close), `NoUseAfterDestroy`.
  What is before a replayed line of the same path is replayed (`DoneClosed`), and
  a vfd is destroyed only by the close of its descriptor (`DestroyedInv`).

- The second half of `ReplayWorkerProofs`, without `AllStorable`: `EndInv` follows the threads. They are
  on the stack in the order of their numbers, and only joined ones are off it
  (`StackInv`); a thread ends only when `terminate` is set, which is after the last
  line was handed over (`TermInv`); its ring is empty then (`RingInv`); one that
  found no work is in `rthread_buffer` or about to get a task (`IdleInv`).
  `NoThreadLostHolds` follows. `CoverInv` follows the lines: each line handed over
  is replayed or in a thread's hands, and was counted once; with nothing in any
  hands at the end this is `AllLinesReplayedHolds`. `AllHeld` says that an
  allocated task object is with the worker, a thread, a ring or `task_buffer`,
  and `HeldOnce` that it is with one of them only: `TaskInOnePlaceHolds`,
  `NoTaskLeftHolds`.

- `GenerateProofs`: `IInv` joins the maps and the lines. `MapsOK`: a `vfd_s`
  object is in one entry or in the buffer and bears the number of its entry, and
  the two maps of a process hold the same descriptors. `LiveIn`: every descriptor
  in the maps is open in the lines, under the number of the path its object bears
  (of a process that is ending, only those still to be closed). `Counted`: no line
  is ahead of `num_mapped_fds`, so that the next number is new. The inserted close
  is a removal and a creation in one step, and so are its lemmas
  (`RemoveKeepsMaps`, `CreateKeepsMaps`, `RemoveKeepsLive`, `CreateKeepsLive`).
  `FilesWellFormed`, `VfdsInOnePlace` and `MapsStayAgree` follow.
  `NumInv` adds that no two paths have one number, that the count of paths covers
  all numbers given (and so for processes), and that the lines use no others: `HeaderCovers`. With `FilesWellFormed` these are the
  three things that `FilesAssumption` asks of a file. `OpenIsHeld` is the converse of `LiveIn`: what is open in
  the lines is in the maps (`NothingIsForgotten`). `TableImplemented` takes each
  event to the step of `DescriptorTable` it stands for: a call that opens what was
  open already is the abstract `OpenAgain`, `CloseOnExit` one abstract
  close, and an event without a line a stutter. A fresh number is one that no
  line has (`Counted`).

- `GeneratePipelineProofs`: the local tasks and queues of the stages, put end to
  end, are one sequence, `Pipe`. A stage that takes a task from its queue or hands it
  over leaves `Pipe` as it is; only a line that is read adds to it and only a line
  that is written takes from it. `PipeInv` says that `Pipe` and `reuse_queue` hold
  a task at most once (`PlaceInv`), that the file and then `Pipe` are in the order
  of the capture with no accepted line missing (`OrderInv`), that a thread that
  has ended left nothing (`EndInv`), and that the refused lines not yet counted
  are those whose tasks are still in use (`CountInv`). `FileInOrderHolds`,
  `TaskInOnePlaceHolds` and `HeaderCountsHolds` follow.

- `IoRiotProofs`: `PurgeInv` says that whatever is still on a mount point has its
  purger before it, or running, and that none runs when `-P` has ended; `TrashInv`
  and `InitFirst` are its counterparts for `-T` and `-R`. `CleanedUpHolds` and
  `ReplayWaitsForInit` follow. Assumed of the file system is only that a tree is a
  function of the paths (`InitAssumption`). `CountInv` says that the master's sum is
  that of the lines of the workers it has stacked: `EveryLineCountedHolds`. The
  lines belong to the worker that their number leaves as a remainder, so that the
  shares of the workers are apart and together are the file.

- `CaptureProofs.ArgumentsOfTheCallHolds`: `EntriesOK` says whose an entry of an
  array is: of the call that its thread is in, or of an earlier call of the same
  name whose return was skipped; then, if the thread is in a call of that name
  again, the entry probe of that one was skipped as well, for the probe writes
  the same arrays anew (`Left`). `EntriesKept` is the other half: what the probe at the entry saved is there at
  the return, if none was skipped and no array was full. Assumed is only what is
  named in `SystemTap`: finitely many threads, and which arrays a call uses.

- `CaptureProofs.RightFileOrNoneHolds`: the invariant `DescriptorInv`, on top of
  `CaptureInv`, has two halves. `NumbersOK` is the kernel and the programs: a number
  that threads know is open and nobody is getting or closing it, a call that uses
  one knows it, and one number is got, or closed, by one call at a time. Each action
  disturbs it at one number only, where a lemma of its own says how (`EnterClose`,
  `ExecuteGet`, `ExecuteClose`, `ReturnGet`); elsewhere `NumberStays` applies.
  `BeliefsOK` is the lines: where the last line about a number is an open, that
  file is open as it, or a close of it that will be printed is in progress. A step
  that prints nothing keeps that (`QuietStep`), and so does one that prints a line
  (`PrintStep`). The property needs the exceptions it names: with arrays so small
  that the entry of a `close` is pushed out, its line has no number, and an open
  printed before it is believed for ever (`CloseLost`). The proof attempt showed
  this one; the run `ioriot`, with three threads for arrays of two, is too small to
  reach it, and TLC finds it with arrays of one entry. `PathsAssumption` only
  keeps the stand-in for a closed descriptor apart from the paths.

- `IoRiotProofs`, the init mode: `InitModeInv` says how far each mount point is. There is a line
  `upto[m]` such that the lines of `m` up to it are done and the later ones that
  were read are in the hands of `m`'s thread, in their order (`Handed`); and the
  files of `m` are those of `Worked(section)[upto[m]]` (`AsFar`). A thread that runs
  a task moves `upto[m]` to the line of the task (`RunLine`, `FarMoves`): what a
  line does to, and counts of, a tree depends on nothing but the files of its mount
  point (`RunTaskLocal`), and lines of other mount points leave them alone
  (`OthersIdle`). At the end no thread has a line left: `SameAsOneThreadHolds`.
  `ThreadOK` and `MainOK` carry the termination (a thread is told to end only after
  the last line was given away, and looks into its queue once more), `TasksOK`
  that a task is in one place and that one to be done has counted nothing.
  `Balanced(upto)` equates, for every statistic, the sum of what was printed,
  lost and is carried by tasks in `reuse_queue` with that of the lines done, where
  a line counts what it counts when one thread does it; with `NoneLost` (a task
  that is not free is with `init_run`, a thread or in a queue) `StatsAddUpHolds`
  follows. The sums are recursive functions, and what is needed of them (that
  they grow by what is added, and that equal terms make equal sums) is proved
  from the well-foundedness of `<` (`UpTo`). `ReplayAfterInitHolds` joins
  `SameAsOneThreadHolds` and `ReplayWaitsForInit`.

- `GenerateMapsProofs`: `MapsInv` says what the operations rely on. `IsSlot`: a
  slot has one pair or a list in which no key comes twice, and `IsMap`: every pair
  is in the slot of its address; from these the lemmas `HmapGetIs`, `HmapInsertIs`
  and `HmapRemoveIs` say what the operations do to the function from keys to data
  that the map stands for (`Got`). An insertion asks that the key is new, and a
  removal that it is there: `hmap_remove_l` does not look at the key of a single
  pair, and `Linked` is why this does no harm: a number is in `vfd_map` only if
  `fd_map` leads to it, and from one descriptor. `CellIs` and `CellsApart` say that
  the cells of an `AMap` are inside the arrays and different for different
  positions, although the macro has no parentheses; `OneCell`, `InUse` and
  `Reached` tie cells and objects together, one to one (`WorldReplaced`,
  `WorldNew`, `WorldRemoved`). `VisitIs` takes `hmap_run_cb` slot by slot: no pair
  is left out and none met twice. Then every event of the maps is the step of
  `ProcessTable` of the same name, a pid that is too large its `Stop`:
  `KeysInOnePlaceHolds` and `MapsAreFunctions`. Nothing is assumed of the hash
  but that it is a natural number.

- `VsizeProofs` starts with the trees. A tree is `Shallow`, that is, no element is
  infinitely deep, so every search ends (`WayEnds`, by the least number of turns
  that is not one of an element), and at one place. `EnsureRangeIs`: the tree
  stays a search tree, and the bytes it covers are those it covered and those of
  the new range. The hard case is an element that is widened to the left: it has
  nothing to its left, so no key lies between the old and the new one, and it ends
  within the new range. `VsizeInv` has one part for each property. `DataInv` says
  that the size and the trees of a path stand for bytes that were written or read,
  and the tree of reads for exactly those asked for: `RangesStayExact`,
  `SkippedReadsStayKnown`. `ParentsIn` says that a path that was not met as a parent
  only has a known one; `init_parent_dir` adds paths and takes none away (`Grows`),
  whatever it finds on its way up (`PathGrows`, `InitParentDirGrows`):
  `ParentStaysKnown`. `InitInv` ties the INIT section to the sizes it was written
  from. `UsedIs` says that a path with a tree of reads is required and one with a
  tree of writes was written to. `LinesCover` takes a tree to its lines, one for each
  element, and `RequiredHasLine` says who has a line at all:
  `InitSectionStaysExact`. Nothing is assumed of the paths but that each
  has a parent (`ParentAssumption`), and of the sizes only that they are numbers.

Only model-checked:

- liveness (`WorkerFinishes`, `GenerateFinishes`), which is out of the prover's
  reach;
- the properties of `parser`: its paths are sequences of letters, taken apart and
  put together by folds and recursive functions, over which the prover has no
  induction.

That a sequence is what a ring does is proved in `RBufferProofs` and used in
`ReplayWorker`, `GeneratePipeline` and `InitMode` by construction, not by a
composed theorem.

## Not modelled

- The arguments, flags and results of the replayed system calls (`rioop.c`), and
  process objects, which add no state.
- The text of the header (`meta.c`): its numbers are checked, its length is not.
- Load average, time ahead and duration in the statistics, the speed throttle,
  privileges, owners and modes of files, options other than the ones that choose a
  mode, printing.
- `mounts_init`, which makes the working directories, and the names of file
  systems in `/proc/mounts`.
- In the capture: `dup2` onto a number in use and `fork`, which have no probe and
  would need the kernel's tables shared or copied; how relative paths are
  completed (`ioriot.stp:54-94`, with the directory at the time of the return).
- The unit tests.
