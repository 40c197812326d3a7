------------------------------- MODULE Vsize -------------------------------
(***************************************************************************)
(* What the writer of ioriot -g finds out about the files of a capture     *)
(* (generate/vsize.c, with the handlers of generate/gioop.c that call it): *)
(* which paths must exist before the replay, as what, and with which data. *)
(* At the end it writes that down as the INIT section of the .replay file. *)
(*                                                                         *)
(* A descriptor is in use as long as the maps of Generate have an entry    *)
(* for it.  Paths that differ are different files.                         *)
(***************************************************************************)
EXTENDS BTree, FiniteSets

CONSTANTS Paths,       (* the paths of the capture                         *)
          Parent,      (* Parent[x]: dirname of x                          *)
          Fds,         (* descriptors                                      *)
          HoleBytes,   (* IGNORE_FILE_HOLE_BYTES                           *)
          MaxBytes,    (* reads and writes of up to so many bytes          *)
          MaxOffset,   (* and offsets of up to this                        *)
          MaxEvents    (* how long a capture is                            *)

ASSUME SizesAssumption ==
  /\ HoleBytes \in Nat /\ MaxBytes \in Nat \ {0}
  /\ MaxOffset \in Nat /\ MaxEvents \in Nat
ASSUME ParentAssumption == Parent \in [Paths -> Paths]

VARIABLES vsize,       (* generate_s.vsize_map: None or the vsize_s of x   *)
          fds,         (* fds[f]: None or the path and offset of its vfd_s *)
          written,     (* written[x]: bytes that the capture wrote before  *)
          counted,     (* counted[x]: bytes that x was told it must have   *)
          skipped,     (* bytes read that x was not told of, as written    *)
          asked,       (* asked[x]: what x.read_ranges was to cover        *)
          events,      (* how many lines were processed                    *)
          init         (* the INIT section, or None                        *)

gvars == <<written, counted, skipped, asked>>
vars == <<vsize, fds, gvars, events, init>>

None == <<>>
NoRanges == EmptyTree          (* a tree that exists is never empty *)

(* vsize_new.  fresh stands for updates = 0.                               *)
NewVsize ==
  [fresh |-> TRUE, required |-> FALSE, kind |-> "unknown", unsure |-> FALSE,
   link_target |-> FALSE, bytes |-> 0,
   read_ranges |-> NoRanges, write_ranges |-> NoRanges]

Init ==
  /\ vsize = [x \in Paths |-> None]
  /\ fds = [f \in Fds |-> None]
  /\ written = [x \in Paths |-> {}]
  /\ counted = [x \in Paths |-> {}]
  /\ asked = [x \in Paths |-> {}]
  /\ skipped = [x \in Paths |-> {}]
  /\ events = 0
  /\ init = None

-----------------------------------------------------------------------------
(* The macros of vsize.c.                                                  *)
SetFile(v) == [v EXCEPT !.kind = "file", !.unsure = FALSE]
SetDir(v) == [v EXCEPT !.kind = "dir", !.unsure = FALSE]
SetLink(v) == [v EXCEPT !.kind = "link", !.unsure = FALSE]
SetUnsure(v) == [v EXCEPT !.unsure = TRUE]
SetRequired(v) == [v EXCEPT !.required = TRUE]
Updated(v) == [v EXCEPT !.fresh = FALSE]

(* generate_vsize_by_path: the vsize_s of a path, made when it is missing. *)
VsizeByPath(vs, x) == IF vs[x] = None THEN [vs EXCEPT ![x] = NewVsize] ELSE vs

(* Faulty variant: only a parent that is known already is looked after.    *)
InitParentDirKnown(vs, x) ==
  LET p == Parent[x] IN
  IF vs[p] # None /\ vs[p].unsure THEN [vs EXCEPT ![p] = Updated(SetDir(@))]
  ELSE vs

(* init_parent_dir: a parent nobody has met must exist, as a directory; of *)
(* one that might be a file this is known now.                             *)
InitParentDir(vs, x) ==
  LET p == Parent[x] IN
  IF vs[p] = None
  THEN [vs EXCEPT ![p] = Updated(SetDir(SetRequired(NewVsize)))]
  ELSE IF vs[p].unsure THEN [vs EXCEPT ![p] = Updated(SetDir(@))]
  ELSE vs

(* What most calls do to a path they meet for the first time: Change gives *)
(* the path its kind once its parent is looked after.                      *)
FirstTime(vs, x, Change(_)) ==
  IF vs[x].fresh
  THEN [InitParentDir(vs, x) EXCEPT ![x] = Updated(Change(@))]
  ELSE vs

FileOrDir(v) == SetUnsure(SetFile(v))
RequiredFileOrDir(v) == FileOrDir(SetRequired(v))

(* vsize_open; flags tell O_DIRECTORY and O_CREAT.                         *)
VsizeOpen(vs, x, flags) ==
  LET first(v) == CASE "O_DIRECTORY" \in flags -> SetDir(SetRequired(v))
                    [] flags = {}              -> RequiredFileOrDir(v)
                    [] OTHER                   -> v IN
  IF vs[x].fresh THEN FirstTime(vs, x, first)
  ELSE IF vs[x].unsure /\ "O_DIRECTORY" \in flags
       THEN [vs EXCEPT ![x] = SetDir(@)]
  ELSE vs

VsizeStat(vs, x) == FirstTime(vs, x, RequiredFileOrDir)
VsizeMkdir(vs, x) == FirstTime(vs, x, SetDir)
VsizeRmdir(vs, x) == FirstTime(vs, x, LAMBDA v : SetDir(SetRequired(v)))
VsizeUnlink(vs, x) == FirstTime(vs, x, LAMBDA v :
                        IF v.kind = "dir" THEN SetRequired(v) ELSE RequiredFileOrDir(v))
VsizeRename(vs, x, y) ==
  FirstTime(VsizeByPath(FirstTime(vs, x, RequiredFileOrDir), y), y, FileOrDir)

VsizeSymlink(vs, x) ==
  LET ws == IF vs[x].fresh THEN InitParentDir(vs, x) ELSE vs IN
  [ws EXCEPT ![x] = [Updated(SetLink(SetRequired(@))) EXCEPT !.link_target = TRUE]]

(* vsize_ensure_data_range for one of the two trees.  As long as there is  *)
(* none, bytes is the size of the data; it grows to the number of bytes,   *)
(* not to the end of them.  The first hole makes a tree.                   *)
EnsureDataRange(v, ranges, offset, bytes) ==
  IF v[ranges] # NoRanges
  THEN [v EXCEPT ![ranges] = EnsureRange(@, offset, offset + bytes)]
  ELSE IF offset = 0
       THEN IF v.bytes + HoleBytes < bytes THEN [v EXCEPT !.bytes = bytes] ELSE v
  ELSE IF offset <= v.bytes
       THEN IF v.bytes < bytes THEN [v EXCEPT !.bytes = bytes] ELSE v
  ELSE [v EXCEPT ![ranges] = EnsureRange(InsertElem(EmptyTree, 0, v.bytes),
                                         offset, offset + bytes),
                 !.bytes = -1]

(* Faulty variant: only the first byte is looked up.                       *)
WrittenBeforeStart(v, offset, bytes) ==
  v.write_ranges # NoRanges /\ HasRange(v.write_ranges, offset, offset + 1)

(* Bytes that the capture itself wrote need not be there before: vsize_read*)
(* takes one range of write_ranges for this.                               *)
WrittenBefore(v, offset, bytes) ==
  v.write_ranges # NoRanges /\ HasRange(v.write_ranges, offset, offset + bytes)

VsizeRead(v, offset, bytes) ==
  IF WrittenBefore(v, offset, bytes) THEN Updated(v)
  ELSE Updated(SetFile(SetRequired(EnsureDataRange(v, "read_ranges", offset, bytes))))
VsizeWrite(v, offset, bytes) ==
  Updated(EnsureDataRange(v, "write_ranges", offset, bytes))

-----------------------------------------------------------------------------
(* The lines.  An operation that failed only makes the vsize_s.            *)

Step == init = None /\ events < MaxEvents /\ events' = events + 1

PathLine(x, Op(_, _)) ==
  /\ Step
  /\ \E succeeded \in BOOLEAN :
       vsize' = IF succeeded THEN Op(VsizeByPath(vsize, x), x)
                ELSE VsizeByPath(vsize, x)
  /\ UNCHANGED <<fds, gvars, init>>

(* gioop_stat, statfs, statfs64, fstatat, lstat, chmod, chown, lchown.     *)
Stat(x) == PathLine(x, VsizeStat)

(* gioop_readlink and readlinkat: with a target the parser could rewrite,  *)
(* or without.                                                             *)
Readlink(x) == PathLine(x, VsizeSymlink) \/ PathLine(x, VsizeStat)

(* gioop_mkdir, mkdirat.                                                   *)
Mkdir(x) == PathLine(x, VsizeMkdir)

(* gioop_rmdir.                                                            *)
Rmdir(x) == PathLine(x, VsizeRmdir)

(* gioop_unlink, unlinkat.                                                 *)
Unlink(x) == PathLine(x, VsizeUnlink)

(* gioop_rename, renameat, renameat2.                                      *)
Rename(x, y) == PathLine(x, LAMBDA vs, z : VsizeRename(vs, z, y))

(* gioop_open, openat, creat: a new vfd_s, or one of vfd_buffer that       *)
(* vfd_update has reset, at offset 0.                                      *)
Open(f, x, flags) ==
  /\ Step
  /\ vsize' = VsizeOpen(VsizeByPath(vsize, x), x, flags)
  /\ fds' = [fds EXCEPT ![f] = [path |-> x, offset |-> 0]]
  /\ UNCHANGED <<gvars, init>>

(* gioop_close, and the close when a process ends.                         *)
Close(f) ==
  /\ Step /\ fds[f] # None
  /\ vsize' = [VsizeByPath(vsize, fds[f].path) EXCEPT ![fds[f].path] = Updated(@)]
  /\ fds' = [fds EXCEPT ![f] = None]
  /\ UNCHANGED <<gvars, init>>

BytesFrom(offset, bytes) == offset .. offset + bytes - 1

(* The bytes of which a tree of v's is to cover the given ones, too.       *)
AskedOf(v, ranges, before, offset, bytes) ==
  IF v[ranges] # NoRanges THEN before \cup BytesFrom(offset, bytes)
  ELSE IF offset > 0 /\ offset > v.bytes
       THEN BytesFrom(0, v.bytes) \cup BytesFrom(offset, bytes)
  ELSE before

(* gioop_read, readv with bytes > 0.                                       *)
Read(f, bytes) ==
  LET x == fds[f].path
      offset == fds[f].offset
      v == vsize[x]
      known == WrittenBefore(v, offset, bytes) IN
  /\ Step /\ fds[f] # None
  /\ vsize' = [vsize EXCEPT ![x] = VsizeRead(@, offset, bytes)]
  /\ fds' = [fds EXCEPT ![f].offset = offset + bytes]
  /\ counted' = IF known THEN counted
                ELSE [counted EXCEPT ![x] = @ \cup BytesFrom(offset, bytes)]
  /\ skipped' = IF known THEN [skipped EXCEPT ![x] = @ \cup BytesFrom(offset, bytes)]
                ELSE skipped
  /\ asked' = IF known THEN asked
              ELSE [asked EXCEPT ![x] = AskedOf(v, "read_ranges", @, offset, bytes)]
  /\ UNCHANGED <<written, init>>

(* gioop_write, writev with bytes > 0.                                     *)
Write(f, bytes) ==
  LET x == fds[f].path
      offset == fds[f].offset IN
  /\ Step /\ fds[f] # None
  /\ vsize' = [vsize EXCEPT ![x] = VsizeWrite(@, offset, bytes)]
  /\ fds' = [fds EXCEPT ![f].offset = offset + bytes]
  /\ written' = [written EXCEPT ![x] = @ \cup BytesFrom(offset, bytes)]
  /\ UNCHANGED <<counted, skipped, asked, init>>

(* gioop_lseek, llseek that succeeded.                                     *)
Seek(f, offset) ==
  /\ Step /\ fds[f] # None
  /\ vsize' = [vsize EXCEPT ![fds[f].path] = Updated(@)]
  /\ fds' = [fds EXCEPT ![f].offset = offset]
  /\ UNCHANGED <<gvars, init>>

-----------------------------------------------------------------------------
(* generate_write_init_cb and _write_ranges_cb: the lines of one path.     *)
InitLine(x, v, start, bytes) ==
  [path |-> x, kind |-> v.kind, start |-> start, bytes |-> bytes]

(* Faulty variant: the end of a range is taken for its length.             *)
InitLinesToEnd(x, v) ==
  IF ~v.required THEN {}
  ELSE IF v.read_ranges # NoRanges
       THEN {InitLine(x, v, r.start, r.end) : r \in Ranges(v.read_ranges)}
  ELSE IF v.bytes >= 0 THEN {InitLine(x, v, 0, v.bytes)}
  ELSE {}

InitLines(x, v) ==
  IF ~v.required THEN {}
  ELSE IF v.kind = "link" /\ v.link_target THEN {InitLine(x, v, 0, 0)}
  ELSE IF v.read_ranges # NoRanges
       THEN {InitLine(x, v, r.start, r.end - r.start) :
               r \in {s \in Ranges(v.read_ranges) : s.end > s.start}}
  ELSE IF v.bytes >= 0 THEN {InitLine(x, v, 0, v.bytes)}
  ELSE {}

(* The INIT section, one callback for every path of vsize_map.             *)
WriteInit ==
  /\ init = None
  /\ init' = <<UNION {InitLines(x, vsize[x]) : x \in {y \in Paths : vsize[y] # None}}>>
  /\ UNCHANGED <<vsize, fds, gvars, events>>

Next ==
  \/ \E x \in Paths : \/ Stat(x) \/ Readlink(x) \/ Mkdir(x) \/ Rmdir(x) \/ Unlink(x)
                      \/ \E y \in Paths : Rename(x, y)
                      \/ \E f \in Fds, flags \in SUBSET {"O_DIRECTORY", "O_CREAT"} :
                           Open(f, x, flags)
  \/ \E f \in Fds : \/ Close(f)
                    \/ \E n \in 1 .. MaxBytes : Read(f, n) \/ Write(f, n)
                    \/ \E n \in 0 .. MaxOffset : Seek(f, n)
  \/ WriteInit

Spec == Init /\ [][Next]_vars

-----------------------------------------------------------------------------
Known == {x \in Paths : vsize[x] # None}

(* After any sequence of reads, writes and seeks read_ranges is a search   *)
(* tree and covers exactly the bytes that were read since the first hole,  *)
(* and what was there before it: ranges that touch, overlap or contain     *)
(* each other lose nothing and add nothing (btree.c:161-206).              *)
RangesExact ==
  \A x \in Known : vsize[x].read_ranges # NoRanges =>
    /\ SearchTree(vsize[x].read_ranges)
    /\ Covered(vsize[x].read_ranges) = asked[x]

(* A read that is not counted, because its bytes are taken as written by   *)
(* the capture itself, reads only bytes that the capture wrote, or read    *)
(* and counted before (vsize.c:251-256).                                   *)
SkippedReadsKnown ==
  \A x \in Known : skipped[x] \subseteq written[x] \cup counted[x]

(* Every path that took part in an operation that succeeded has a parent   *)
(* that is known, too: "This function ensures that the parent directory    *)
(* exists as a vsize object!" (vsize.h).  A path that was itself met first *)
(* as such a parent is the exception: nothing looks after its own parent.  *)
ParentKnown ==
  \A x \in Known : ~vsize[x].fresh /\ Parent[x] # x =>
    \/ vsize[Parent[x]] # None
    \/ \E y \in Known : Parent[y] = x

LinesOf(x) == {l \in init[1] : l.path = x}
InitData(x) == UNION {BytesFrom(l.start, l.bytes) : l \in LinesOf(x)}

(* The INIT section agrees with what the capture did to the files: it asks *)
(* for no byte that the capture did not read or write itself; of a file    *)
(* that was read behind a hole it asks for exactly the bytes that were     *)
(* asked for since; and a path that must exist is there if the capture     *)
(* never wrote to it (vsize.c:205-245 and generate.c:208-238).             *)
InitSectionExact ==
  init # None =>
    \A x \in Known :
      /\ InitData(x) \subseteq written[x] \cup counted[x]
      /\ vsize[x].read_ranges # NoRanges /\ ~vsize[x].link_target =>
           InitData(x) = asked[x]
      /\ vsize[x].required /\ written[x] = {} => LinesOf(x) # {}

(* vsize.h of required: "True if init mode will create this file/dir" -    *)
(* every such path has a line in the INIT section, also when the capture   *)
(* wrote to it.                                                            *)
RequiredIsInitialised ==
  init # None => \A x \in Known : vsize[x].required => LinesOf(x) # {}

(* vsize.h of the virtual size: "the test requires a file of a certain     *)
(* size already to be present, so it can be read from disk" - a file that  *)
(* the capture only read reaches, by its lines in the INIT section, up to  *)
(* the last byte read, but for as many as a hole may have that is ignored. *)
ReadSizeIsThere ==
  init # None =>
    \A x \in Known : written[x] = {} /\ vsize[x].kind = "file" =>
      counted[x] \subseteq
        UNION {BytesFrom(0, l.start + l.bytes + HoleBytes) : l \in LinesOf(x)}
=============================================================================
