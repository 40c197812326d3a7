------------------------------ MODULE Gparser ------------------------------
(***************************************************************************)
(* How the parser of ioriot -g takes a line of the .capture file apart     *)
(* (generate/gparser.c), with the mount points it was started with: from   *)
(* the tokens of a line to the task of the writer, or to its refusal.      *)
(* Only the parser thread does this, one line after the other; from line   *)
(* to line it keeps generate_s.start_time.                                 *)
(*                                                                         *)
(* A token K=V is a record [key, number, n, op, text]: whether V is a      *)
(* number and which, the operation, the path or the target of a link.      *)
(***************************************************************************)
EXTENDS Mounts, FiniteSets

CONSTANTS ProcMounts,  (* the contents /proc/mounts may have               *)
          Lines,       (* the lines of a .capture file, as tokens          *)
          MaxLines,    (* how many lines a file has at most                *)
          MaxTokens    (* MAX_TOKENS                                       *)

ASSUME MaxTokensAssumption == MaxTokens \in Nat
ASSUME MaxLinesAssumption == MaxLines \in Nat

VARIABLES proc_mounts, (* what /proc/mounts contained, for the properties  *)
          pc,          (* where the program is                             *)
          unread,      (* lines of /proc/mounts that are not read yet      *)
          start_time,  (* generate_s.start_time, -1 before it is known     *)
          parsed,      (* lines parsed                                     *)
          passed       (* the tasks that go to the writer, with their line *)

vars == <<mvars, proc_mounts, pc, unread, start_time, parsed, passed>>

(* The keys whose value must be a number, and those of them that may not   *)
(* be given again once the value is other than -1.                         *)
NumberKeys == {"b", "c", "d", "f", "m", "O", "W", "s", "t", "F", "G"}
OnceKeys == {"b", "c", "d"}
SkippedKeys == {"a", "A", "T", "D"}
Keys == NumberKeys \cup SkippedKeys \cup {"i", "o", "p", "P"}

NoText == [abs |-> FALSE, comps |-> <<>>]

(* gtask_init: nothing is known of the line.                               *)
NewTask(start) ==
  [ret |-> "SUCCESS", start |-> start, value |-> [k \in NumberKeys |-> -1],
   pid |-> -1, op |-> "", path |-> NoText, path2 |-> NoText]

(* Mapped time: the first time that any line gives is 0.                   *)
Elapsed(t, tok) ==
  LET start == IF t.start = -1 THEN tok.n ELSE t.start IN
  [t EXCEPT !.start = start, !.value["t"] = tok.n - start]

(* gparser_extract_tok.                                                    *)
ExtractTok(t, tok) ==
  CASE \/ tok.key \notin Keys
       \/ tok.key \in NumberKeys \cup {"i"} /\ ~tok.number
       \/ tok.key \in OnceKeys /\ t.value[tok.key] # -1
       \/ tok.key = "i" /\ tok.n < 0      -> [t EXCEPT !.ret = "ERROR"]
    [] tok.key = "t"                      -> Elapsed(t, tok)
    [] tok.key = "i"                      -> [t EXCEPT !.pid = tok.n]
    [] tok.key = "o"                      -> [t EXCEPT !.op = tok.op]
    [] tok.key = "p"                      -> [t EXCEPT !.path = tok.text]
    [] tok.key = "P"                      -> [t EXCEPT !.path2 = tok.text]
    [] tok.key \in SkippedKeys            -> t
    [] OTHER                              -> [t EXCEPT !.value[tok.key] = tok.n]

(* The loop of gparser_extract: up to the first token that is refused, or  *)
(* that is one too many.                                                   *)
ExtractTokens(line, start) ==
  LET n == IF Len(line) > MaxTokens THEN MaxTokens ELSE Len(line)
      t == FoldLeft(LAMBDA acc, tok : IF acc.ret = "SUCCESS"
                                      THEN ExtractTok(acc, tok) ELSE acc,
                    NewTask(start), SubSeq(line, 1, n)) IN
  IF Len(line) > MaxTokens THEN [t EXCEPT !.ret = "ERROR"] ELSE t

(* The values no line can do without.  A time of -1 counts as missing.     *)
Mandatory(t) == t.pid >= 0 /\ t.op # "" /\ t.value["t"] # -1

Given(text) == text # NoText
Absolute(p) == [abs |-> TRUE, comps |-> p]
Relative(p) == [abs |-> FALSE, comps |-> p]

(* A path of the line, replaced if it is on a mount point.                 *)
Replayed(text) ==
  LET r == TransformPath(text.comps).path_r IN
  IF ~Given(text) \/ r = Nowhere THEN text ELSE Absolute(r)
Ignored(text) == Given(text) /\ ~TransformPath(text.comps).ok

IsReadlink(t) == t.op \in {"readlink", "readlinkat"}

(* The target of a symbolic link that was read.                            *)
LinkTarget(t) ==
  IF ~Given(t.path) THEN [what |-> "no", target_r |-> <<>>]
  ELSE TransformSymlinkTarget(t.path.comps, Replayed(t.path).comps, t.path2)

(* What gparser_extract does with a line whose tokens are all right.       *)
WithPaths(t) ==
  LET link == LinkTarget(t)
      new == [t EXCEPT !.path = Replayed(t.path)] IN
  IF ~Mandatory(t) \/ Ignored(t.path) THEN [t EXCEPT !.ret = "ERROR"]
  ELSE IF ~Given(t.path2) THEN new
  ELSE IF IsReadlink(t)
       THEN CASE link.what = "ok" -> [new EXCEPT !.path2 = Relative(link.target_r)]
              [] link.what = "no" -> [new EXCEPT !.path2 = NoText]
              [] OTHER            -> [new EXCEPT !.ret = "crash"]
  ELSE IF Ignored(t.path2) THEN [new EXCEPT !.ret = "ERROR"]
  ELSE [new EXCEPT !.path2 = Replayed(t.path2)]

Extract(line) ==
  LET t == ExtractTokens(line, start_time) IN
  IF t.ret = "SUCCESS" THEN WithPaths(t) ELSE t

-----------------------------------------------------------------------------
Init ==
  /\ mps = <<>> /\ ignore_mps = <<>>
  /\ pc = "mounts"
  /\ proc_mounts \in ProcMounts
  /\ unread = proc_mounts
  /\ start_time = -1
  /\ parsed = 0
  /\ passed = {}

(* mounts_read.  What the program does after an overrun is undefined.      *)
ReadMount ==
  /\ pc = "mounts" /\ unread # <<>>
  /\ AddMount(Head(unread))
  /\ unread' = Tail(unread)
  /\ pc' = IF Overrun(ignore_mps') THEN "undefined" ELSE pc
  /\ UNCHANGED <<proc_mounts, start_time, parsed, passed>>

MountError ==
  /\ pc = "mounts" /\ unread # <<>>
  /\ TooManyMounts(Head(unread))
  /\ pc' = "error"
  /\ UNCHANGED <<mvars, proc_mounts, unread, start_time, parsed, passed>>

MountsRead ==
  /\ pc = "mounts" /\ unread = <<>>
  /\ pc' = "parse"
  /\ UNCHANGED <<mvars, proc_mounts, unread, start_time, parsed, passed>>

(* Faulty variant: the start is kept in the task, not in generate_s.       *)
ForgetStart(t) == start_time

(* The time that the following lines count from.                           *)
NewStart(t) == t.start

(* gparser_extract.  A crash ends the program.                             *)
ParseLine(line) ==
  LET t == Extract(line) IN
  /\ pc = "parse" /\ parsed < MaxLines
  /\ start_time' = NewStart(t)
  /\ parsed' = parsed + 1
  /\ passed' = IF t.ret = "SUCCESS" THEN passed \cup {[line |-> line, task |-> t]}
               ELSE passed
  /\ pc' = IF t.ret = "crash" THEN "crash" ELSE pc
  /\ UNCHANGED <<mvars, proc_mounts, unread>>

Next ==
  \/ ReadMount \/ MountError \/ MountsRead
  \/ \E line \in Lines : ParseLine(line)

Spec == Init /\ [][Next]_vars

-----------------------------------------------------------------------------
(* The texts that a line gives for a key; the last one counts.             *)
TextOf(line, key) ==
  LET ts == SelectSeq(line, LAMBDA tok : tok.key = key) IN
  IF ts = <<>> THEN NoText ELSE Last(ts).text
CapturedPath(x) == TextOf(x.line, "p")
CapturedPath2(x) == TextOf(x.line, "P")

(* The paths of the lines that were passed on, as captured and as they     *)
(* will be replayed; those on no mount point stay what they are.           *)
Images ==
  {<<CapturedPath(x), x.task.path>> : x \in passed}
    \cup {<<CapturedPath2(x), x.task.path2>> : x \in {y \in passed : ~IsReadlink(y.task)}}
MappedImages ==
  {i \in Images : Given(i[1]) /\ NormalizePath(i[1].comps) # Nowhere
                  /\ Fitting(NormalizePath(i[1].comps)) # {}}

(* Two captured paths are replayed on the same path only if they are the   *)
(* same after .. and // are gone, although mount points are compared       *)
(* without regard to the ends of names and the last one that fits is used  *)
(* (mounts.c:437-463): no two files of the captured host share a file in   *)
(* the replay, and no file is two.                                         *)
PathsApart ==
  \A i, j \in MappedImages :
    i[2] = j[2] <=> NormalizePath(i[1].comps) = NormalizePath(j[1].comps)

PlainPath(text) == Dot \notin ToSet(text.comps)

(* The mount point a path is on, as the kernel sees it: of all lines of    *)
(* /proc/mounts the one with the longest mount point whose components, not *)
(* letters, begin the path.                                                *)
Above(p) == {l \in ToSet(proc_mounts) : IsPrefix(l.mp, Simplify(p))}
OnMount(p) == CHOOSE l \in Above(p) : \A m \in Above(p) : Len(m.mp) <= Len(l.mp)
OnSupported(text) ==
  Above(text.comps) # {} /\ OnMount(text.comps).supported

(* The root is of an unsupported file system and the path on it.           *)
OnUnsupportedRoot(text) ==
  OnMount(text.comps) = [mp |-> <<>>, supported |-> FALSE]

(* A line that is passed on was captured on a supported file system, as    *)
(* the kernel sees it, and will be replayed on one, although the program   *)
(* compares letters and looks at unsupported mount points first, wherever  *)
(* they are, also behind .. and // (mounts.c:428-441).  There are two      *)
(* exceptions.  An unsupported root is not among the mount points that are *)
(* ignored (mounts.c:203): a path on it is passed on, as captured or with  *)
(* a replay path on a supported file system whose mount point begins it.   *)
(* And a path with a lone . is not normalised.                             *)
NoUnsupportedMount ==
  \A i \in Images :
    Given(i[1]) /\ PlainPath(i[1]) =>
      \/ OnSupported(i[1]) /\ OnSupported(i[2])
      \/ OnUnsupportedRoot(i[1]) /\ (i[2] = i[1] \/ OnSupported(i[2]))

(* mounts.h of the mounts object: "All I/O operations on invalid file      *)
(* systems are being filtered out!" - without these exceptions.            *)
AllFiltered ==
  \A i \in Images : Given(i[1]) => OnSupported(i[1])

(* mounts.h: "The ignored mp paths", for which there is as much room as    *)
(* for the others, whose number is checked (mounts.c:208).                 *)
IgnoredMountsFit == Len(ignore_mps) <= MaxMounts

(* A replayed symbolic link leads to the replay path of what the captured  *)
(* link led to: the .. that _mounts_relative_path counts cancel against    *)
(* the directory of the link that also has .ioriot/NAME in it              *)
(* (mounts.c:518-519).  A lone . in the path of the link breaks the count  *)
(* and is left out.                                                        *)
SymlinkResolves ==
  \A x \in passed :
    IsReadlink(x.task) /\ Given(x.task.path2) /\ PlainPath(CapturedPath(x)) =>
      Simplify(Dirname(x.task.path.comps) \o x.task.path2.comps)
        = Simplify(TransformPath(TargetAbs(CapturedPath(x).comps,
                                           CapturedPath2(x))).path_r)

CapturedTime(x) == Last(SelectSeq(x.line, LAMBDA tok : tok.key = "t")).n

(* The times of the lines that are passed on are as far apart as they were *)
(* captured, also when the line that set the start was refused: the        *)
(* replayer waits for these times (gparser.c:286-291).                     *)
TimesKeepDistance ==
  \A x, y \in passed :
    x.task.value["t"] - y.task.value["t"] = CapturedTime(x) - CapturedTime(y)

(* mounts.h of mounts_transform_symlink_target: "@return False if the      *)
(* target can not be rewritten safely" - the function returns.             *)
TargetRefusedSafely == pc # "crash"
=============================================================================
