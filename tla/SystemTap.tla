------------------------------- MODULE SystemTap -------------------------------
(***************************************************************************)
(* ioriot -c: the capture (systemtap/src/ioriot.stp).  A probe at the      *)
(* entry of a system call saves its arguments in global arrays, under the  *)
(* thread and the name of the call; a probe at its return takes them out   *)
(* and prints the line.  javaioriot.stp and targetedioriot.stp differ in   *)
(* the processes they want.                                                *)
(*                                                                         *)
(* The kernel and the captured programs are external: threads that use     *)
(* only descriptors which a call has returned to them, and close none that *)
(* is in use.  "socket" stands for the calls without a probe that take     *)
(* the number of a descriptor.  Left out are dup2 onto a number in use,    *)
(* fork, and relative paths, which are resolved when a call returns.       *)
(***************************************************************************)
EXTENDS Integers, Sequences, FiniteSets, SequencesExt, FiniteSetsExt

CONSTANTS
  Threads,        (* the threads that make system calls                    *)
  Process,        (* Process[t]: the process of thread t                   *)
  Wanted,         (* the processes whose calls are captured                *)
  CapturedPaths,  (* the paths they open                                   *)
  Numbers,        (* the numbers of descriptors                            *)
  MapCap,         (* what an array holds: 8096                             *)
  Programs        (* what is captured: the system calls, who makes them,   *)
                  (* and bounds: max on how many are made, early on those  *)
                  (* made before the capture starts, skips on probes that  *)
                  (* SystemTap does not run when it is overloaded          *)

ASSUME CaptureAssumption ==
  /\ IsFiniteSet(Threads)
  /\ \A t \in Threads : Process[t] \notin Threads
  /\ Numbers \subseteq Nat \ {0}
  /\ MapCap \in Nat \ {0}

Processes == {Process[t] : t \in Threads}

-----------------------------------------------------------------------------
(* What the probes save of every call, besides the time.                   *)

Each(names, arrays) == {<<n, arrays>> : n \in names}

OpenArgs == Each({"open"}, {"PATH", "FLAGS", "MODE"})
       \cup Each({"openat"}, {"FD", "PATH", "FLAGS", "MODE"})
SeekArgs == Each({"lseek", "llseek"}, {"FD", "OFFSET", "WHENCE"})
       \cup Each({"fcntl"}, {"FD", "CMD", "ARG"})
WriteArgs == Each({"creat"}, {"PATH", "MODE"}) \cup Each({"write", "writev"}, {"FD"})
UnlinkArgs == Each({"unlink"}, {"PATH"}) \cup Each({"unlinkat"}, {"FD", "PATH", "FLAGS"})
RenameArgs == Each({"rename"}, {"PATH", "PATH2"})
         \cup Each({"renameat", "renameat2"}, {"FD", "FD2", "PATH", "PATH2"})
ReadArgs == Each({"read", "readv", "readdir"}, {"FD"})
       \cup Each({"readahead"}, {"FD", "OFFSET", "COUNT"})
LinkArgs == Each({"readlink"}, {"PATH", "ADDR"})
       \cup Each({"readlinkat"}, {"FD", "PATH", "ADDR"})
SyncArgs == Each({"fdatasync", "fsync", "syncfs"}, {"FD"}) \cup Each({"sync"}, {})
       \cup Each({"sync_file_range"}, {"FD", "OFFSET", "NBYTES"})

(* Faulty variant: nobody thought of close.                                *)
CloseArgsUnprobed == Each({"getdents"}, {"FD", "COUNT"})

CloseArgs == Each({"close"}, {"FD"}) \cup Each({"getdents"}, {"FD", "COUNT"})
DirArgs == Each({"mkdir"}, {"PATH", "MODE"}) \cup Each({"rmdir"}, {"PATH"})
      \cup Each({"mkdirat"}, {"FD", "PATH", "MODE"})
StatArgs == Each({"stat", "lstat", "statfs", "statfs64"}, {"PATH"})
       \cup Each({"fstat", "fstatfs", "fstatfs64"}, {"FD"})
       \cup Each({"fstatat"}, {"FD", "PATH", "FLAGS"})
ModeArgs == Each({"chmod"}, {"PATH", "MODE"}) \cup Each({"fchmodat"}, {"FD", "PATH", "MODE"})
       \cup Each({"fchmod"}, {"FD", "MODE"})
OwnerArgs ==
  Each({"chown", "chown16", "lchown", "lchown16"}, {"PATH", "OWNER", "GROUP"})
  \cup Each({"fchown", "fchown16"}, {"FD", "OWNER", "GROUP"})
  \cup Each({"fchownat"}, {"FD", "PATH", "OWNER", "GROUP", "FLAGS"})
MemoryArgs == Each({"mmap2"}, {"ADDR", "LEN", "PROT", "FLAGS", "FD", "PGOFF"})
         \cup Each({"mremap"}, {"ADDR", "ADDR2", "NEWSIZE", "FLAGS"})
         \cup Each({"munmap"}, {"ADDR", "LEN"}) \cup Each({"msync"}, {"ADDR", "LEN", "FLAGS"})

(* By the name of the call.                                                *)
AllArgs == OpenArgs \cup SeekArgs \cup WriteArgs \cup UnlinkArgs \cup RenameArgs \cup ReadArgs
      \cup LinkArgs \cup SyncArgs \cup CloseArgs \cup DirArgs \cup StatArgs \cup ModeArgs
      \cup OwnerArgs \cup MemoryArgs
Probed == {s[1] : s \in AllArgs}
Saved == [n \in Probed |-> UNION {s[2] : s \in {r \in AllArgs : r[1] = n}}]
Opens == {"open", "openat", "creat"}

(* The arguments of a call itself, whether it is probed or not.            *)
Takes(n, a) == IF n = "close" THEN a = "FD" ELSE n \in Probed /\ a \in Saved[n]

VARIABLES
  program,   (* what the threads make                                      *)
  table,     (* table[p][f]: the file that is open as f in process p       *)
  known,     (* known[p]: the descriptors that threads of p use            *)
  made,      (* the calls so far: their arguments and what came of them    *)
  call,      (* call[t]: the call that thread t is in, its place in made   *)
  executed,  (* the threads whose call has taken effect                    *)
  exiting,   (* the processes that have called exit_group                  *)
  armed,     (* the script runs                                            *)
  entries,   (* entries[a]: the array ENTRY_a, the oldest entry first      *)
  printed,   (* the .capture file                                          *)
  skips,     (* how many probes were skipped                               *)
  crowd      (* history: the most calls in progress at a time              *)

kernel == <<program, table, known, made, call, executed, exiting>>
cvars == <<kernel, armed, entries, printed, skips, crowd>>

Arrays == UNION {Saved[n] : n \in Probed}
NoFile == "no file"
Cwd == "working directory"

ASSUME PathsAssumption == NoFile \notin CapturedPaths

(* Descriptors may be open before the capture starts, if calls are.        *)
CaptureInit ==
  /\ program \in Programs
  /\ \E open \in [{Process[t] : t \in program.who} ->
                   {NoFile} \cup IF program.early > 0 THEN CapturedPaths ELSE {}] :
       table = [p \in Processes |-> [f \in Numbers |->
                  IF f = Min(Numbers) /\ p \in DOMAIN open THEN open[p] ELSE NoFile]]
  /\ known = [p \in Processes |-> {f \in Numbers : table[p][f] # NoFile}]
  /\ made = <<>>
  /\ call = [t \in Threads |-> 0]
  /\ executed = {}
  /\ exiting = {}
  /\ armed = FALSE
  /\ entries = [a \in Arrays |-> <<>>]
  /\ printed = <<>>
  /\ skips = 0
  /\ crowd = 0

-----------------------------------------------------------------------------
(* The arrays.  One that is full gives up its oldest entry.                *)

(* Faulty variant: the threads of a process share their entries.           *)
KeyByProcess(t, n) == <<Process[t], n>>

Key(t, n) == <<t, n>>

Has(es, key) == \E i \in DOMAIN es : es[i].key = key
At(es, key) == CHOOSE i \in DOMAIN es : es[i].key = key

Put(es, key, id) ==
  IF Has(es, key) THEN [es EXCEPT ![At(es, key)].id = id]
  ELSE Append(IF Len(es) = MapCap THEN Tail(es) ELSE es, [key |-> key, id |-> id])

(* The call whose argument is found; 0 if there is none.                   *)
Find(es, key) == IF Has(es, key) THEN es[At(es, key)].id ELSE 0

Delete(es, key) == IF Has(es, key) THEN RemoveAt(es, At(es, key)) ELSE es

(* probe begin                                                             *)
Begin ==
  /\ ~armed
  /\ Len(made) <= program.early
  /\ armed' = TRUE
  /\ UNCHANGED <<kernel, entries, printed, skips, crowd>>

(* A call begins, and its probe saves what it is called with.              *)
Enter(t) ==
  LET p == Process[t]
      id == Len(made) + 1
      here == {u \in Threads : call[u] # 0} \cup {t} IN
  /\ t \in program.who /\ call[t] = 0 /\ p \notin exiting
  /\ id <= program.max
  /\ \E n \in program.calls \ {"exit_group"} :
     \E f \in IF Takes(n, "FD") THEN known[p] ELSE {0} :
     \E x \in IF n \in Opens THEN CapturedPaths ELSE {NoFile} :
     \E skip \in 0 .. IF armed THEN program.skips - skips ELSE 0 :
       LET probed == armed /\ p \in Wanted /\ n \in Probed /\ skip = 0 IN
       /\ n = "close" =>
            \A u \in Threads : Process[u] = p /\ call[u] # 0 => made[call[u]].fd # f
       /\ skip \in {0, 1}
       /\ skips' = skips + skip
       /\ made' = Append(made, [thread |-> t, name |-> n, fd |-> f, path |-> x,
                                seen |-> probed, file |-> NoFile, ret |-> 0])
       /\ known' = IF n = "close" THEN [known EXCEPT ![p] = @ \ {f}] ELSE known
       /\ entries' = IF ~probed THEN entries
                     ELSE [a \in Arrays |-> IF a \in Saved[n]
                                            THEN Put(entries[a], Key(t, n), id)
                                            ELSE entries[a]]
  /\ call' = [call EXCEPT ![t] = id]
  /\ crowd' = IF Cardinality(here) > crowd THEN Cardinality(here) ELSE crowd
  /\ UNCHANGED <<program, table, executed, exiting, armed, printed>>

(* It takes effect: an open, unless it fails, gets the lowest free number. *)
Execute(t) ==
  LET p == Process[t]
      c == made[call[t]]
      free == {f \in Numbers : table[p][f] = NoFile}
      new == IF c.name = "socket" THEN "socket" ELSE c.path IN
  /\ call[t] # 0 /\ t \notin executed
  /\ executed' = executed \cup {t}
  /\ \/ /\ c.name \in Opens \cup {"socket"} /\ free # {}
        /\ table' = [table EXCEPT ![p][Min(free)] = new]
        /\ made' = [made EXCEPT ![call[t]].ret = Min(free)]
     \/ /\ c.name \in Opens
        /\ UNCHANGED <<table, made>>
     \/ /\ c.name \notin Opens \cup {"socket"}
        /\ table' = IF c.name = "close" THEN [table EXCEPT ![p][c.fd] = NoFile] ELSE table
        /\ made' = IF c.fd = 0 THEN made
                   ELSE [made EXCEPT ![call[t]].file = table[p][c.fd]]
  /\ UNCHANGED <<program, known, call, exiting, armed, entries, printed, skips, crowd>>

(* It returns, and its probe prints the line and deletes the entries.      *)
Return(t) ==
  LET p == Process[t]
      c == made[call[t]]
      key == Key(t, c.name) IN
  /\ t \in executed
  /\ \E skip \in 0 .. IF armed THEN program.skips - skips ELSE 0 :
       LET probed == armed /\ p \in Wanted /\ c.name \in Probed /\ skip = 0 IN
       /\ skip \in {0, 1}
       /\ skips' = skips + skip
       /\ IF ~probed THEN UNCHANGED <<printed, entries>>
          ELSE /\ printed' = Append(printed,
                    [pid |-> p, name |-> c.name, id |-> call[t], ret |-> c.ret,
                     args |-> [a \in Saved[c.name] |-> Find(entries[a], key)]])
               /\ entries' = [a \in Arrays |-> IF a \in Saved[c.name]
                                               THEN Delete(entries[a], key)
                                               ELSE entries[a]]
  /\ known' = IF c.ret = 0 THEN known ELSE [known EXCEPT ![p] = @ \cup {c.ret}]
  /\ call' = [call EXCEPT ![t] = 0]
  /\ executed' = executed \ {t}
  /\ UNCHANGED <<program, table, made, exiting, armed, crowd>>

(* exit_group has a probe at its entry only.  The other threads of the     *)
(* process still come back from the calls they are in.                     *)
ExitGroup(t) ==
  LET p == Process[t] IN
  /\ "exit_group" \in program.calls
  /\ t \in program.who /\ call[t] = 0 /\ p \notin exiting
  /\ exiting' = exiting \cup {p}
  /\ \E skip \in 0 .. IF armed THEN program.skips - skips ELSE 0 :
       /\ skip \in {0, 1}
       /\ skips' = skips + skip
       /\ printed' = IF armed /\ p \in Wanted /\ skip = 0
                     THEN Append(printed, [pid |-> p, name |-> "exit_group", id |-> 0,
                                           ret |-> 0, args |-> <<>>])
                     ELSE printed
  /\ UNCHANGED <<program, table, known, made, call, executed, armed, entries, crowd>>

CaptureNext ==
  \/ Begin
  \/ \E t \in Threads : Enter(t) \/ Execute(t) \/ Return(t) \/ ExitGroup(t)

-----------------------------------------------------------------------------
(* Every argument that a line prints is one of the call that the line is   *)
(* about, although the entries of all threads share the arrays.  It is     *)
(* missing, and printed as 0 or "", only if the call began before the      *)
(* capture, if more calls were in progress than an array holds, or if some *)
(* probe was skipped: its own, or the one at the return of another call,   *)
(* whose entry stays in the array and takes the room of this one.  It is   *)
(* one of another call only if two probes were skipped, the one at the     *)
(* return of that call and the one at the entry of this; and never one of  *)
(* another thread or of a call of another name.                            *)
ArgumentsOfTheCall ==
  \A l \in ToSet(printed) : \A a \in DOMAIN l.args :
    LET c == l.args[a] IN
    \/ c = l.id
    \/ c = 0 /\ (~made[l.id].seen \/ skips > 0 \/ crowd > MapCap)
    \/ /\ skips > 1 /\ ~made[l.id].seen /\ c \in 1 .. l.id - 1
       /\ made[c].thread = made[l.id].thread /\ made[c].name = l.name

(* The number that a line has for "d=", and the path that it opens.        *)
PrintedFd(l) ==
  IF l.name \in Opens THEN l.ret
  ELSE IF "FD" \notin DOMAIN l.args \/ l.args["FD"] = 0 THEN 0
  ELSE made[l.args["FD"]].fd
PrintedPath(l) == IF l.args["PATH"] = 0 THEN Cwd ELSE made[l.args["PATH"]].path

(* What the generator takes descriptor f of p to be at line i.             *)
FileByLines(i, p, f) ==
  LET about == {j \in 1 .. i - 1 :
                  /\ printed[j].pid = p
                  /\ \/ printed[j].name = "exit_group"
                     \/ printed[j].name \in Opens \cup {"close"} /\ PrintedFd(printed[j]) = f} IN
  IF about = {} \/ printed[Max(about)].name \notin Opens THEN NoFile
  ELSE PrintedPath(printed[Max(about)])

(* A close of f that began with its probe, and whose line has no number.   *)
CloseLost(l, p, f) ==
  /\ l.pid = p /\ l.name = "close"
  /\ made[l.id].seen /\ made[l.id].fd = f
  /\ l.args["FD"] = 0

(* An I/O that the capture shows on a descriptor is taken, by the opens    *)
(* and closes printed before it, for one on the file it was made on, or    *)
(* for one on no file, whatever ran before the capture, whichever calls    *)
(* take numbers unseen and in whichever order the probes of racing threads *)
(* print.  Unless a probe was skipped, or the path of the open or the      *)
(* number of a close was lost, when an array was full; and unless the      *)
(* number is just being closed by another thread, whose line comes when    *)
(* the close returns (ioriot.stp:629).                                     *)
RightFileOrNone ==
  LET i == Len(printed) IN
  skips = 0 /\ i > 0 =>
    LET l == printed[i]
        f == PrintedFd(l) IN
    l.name \notin Opens \cup {"close"} /\ f # 0 =>
      \/ FileByLines(i, l.pid, f) \in {NoFile, Cwd, made[l.id].file}
      \/ \E j \in 1 .. i - 1 : CloseLost(printed[j], l.pid, f)
      \/ \E t \in Threads : /\ call[t] # 0 /\ Process[t] = l.pid
                            /\ made[call[t]].name = "close" /\ made[call[t]].fd = f
=============================================================================
