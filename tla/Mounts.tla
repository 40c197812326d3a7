------------------------------- MODULE Mounts -------------------------------
(***************************************************************************)
(* The mount points of ioriot (mounts.c): which of them /proc/mounts gives *)
(* to the program, and where a captured path is replayed.  Nothing but the *)
(* table of mount points is state; the rest are functions of it.           *)
(*                                                                         *)
(* An absolute path is the sequence of its components, / is <<>>.  The     *)
(* program compares paths as strings and thus does not see where a         *)
(* component ends: a component is a sequence of letters, or <<>> between   *)
(* the slashes of //.                                                      *)
(***************************************************************************)
EXTENDS Integers, SequencesExt

CONSTANTS MaxMounts,   (* MAX_MOUNTPOINTS                                  *)
          Nowhere      (* what is not an absolute path: ".", or NULL       *)

ASSUME MaxMountsAssumption == MaxMounts \in Nat \ {0}

VARIABLES mps,         (* mounts_s.mps, count entries                      *)
          ignore_mps   (* mounts_s.ignore_mps                              *)

mvars == <<mps, ignore_mps>>

(* The name of the test, and the directories the program adds to a path.   *)
Name == <<"N">>
IoriotDir == <<".ioriot">>

DotDot == <<".", ".">>
Dot == <<".">>

-----------------------------------------------------------------------------
(* mounts_read, one line [mp, supported] of /proc/mounts.  The root of an  *)
(* unsupported file system is in neither table.  The other unsupported     *)
(* ones are not counted against the room there is for them.                *)
AddMount(l) ==
  \/ /\ l.supported /\ Len(mps) < MaxMounts
     /\ mps' = Append(mps, l.mp)
     /\ UNCHANGED ignore_mps
  \/ /\ ~l.supported
     /\ ignore_mps' = IF l.mp = <<>> THEN ignore_mps ELSE Append(ignore_mps, l.mp)
     /\ UNCHANGED mps

(* More mount points than the table holds: the program ends.               *)
TooManyMounts(l) == l.supported /\ Len(mps) >= MaxMounts

(* One entry was written behind the end of the array ignore_mps, over opts *)
(* and what is behind mounts_s.                                            *)
Overrun(ignored) == Len(ignored) > MaxMounts

-----------------------------------------------------------------------------
(* The components that strtok_r returns, . dropped and .. resolved.        *)
Simplify(p) ==
  FoldLeft(LAMBDA stack, c : IF c = DotDot
                             THEN IF stack = <<>> THEN stack ELSE Front(stack)
                             ELSE IF c \in {Dot, <<>>} THEN stack
                             ELSE Append(stack, c),
           <<>>, p)

(* Faulty variant: the path is taken as it was captured.                   *)
NormalizeNothing(p) == p

(* strstr finds the .. inside of a name, too.                              *)
TwoDots(c) == \E i \in 1 .. Len(c) - 1 : SubSeq(c, i, i + 1) = DotDot

(* _mounts_normalize_path.  Only .. and // are a reason to look closer, so *)
(* that /a/./b stays as it is; what leads to / becomes the relative path . *)
NormalizePath(p) ==
  IF \A c \in ToSet(p) : c # <<>> /\ ~TwoDots(c) THEN p
  ELSE IF Simplify(p) = <<>> THEN Nowhere ELSE Simplify(p)

(* strncmp of a path with a mount point: the last component of the mount   *)
(* point may be the beginning of a longer name.                            *)
StartsWith(p, mp) ==
  \/ mp = <<>>
  \/ /\ Len(mp) <= Len(p)
     /\ IsPrefix(Front(mp), p)
     /\ IsPrefix(Last(mp), p[Len(mp)])

(* What follows the mount point in the path: the rest of the component in  *)
(* which it ends, and the components after it.                             *)
RestOfName(p, mp) ==
  SubSeq(p[Len(mp)], Len(Last(mp)) + 1, Len(p[Len(mp)]))
RestOfPath(p, mp) == SubSeq(p, Len(mp) + 1, Len(p))

(* mounts_ignore_path.  What begins with /tmp/namespace- is ignored, too.  *)
Namespaces == <<<<"tmp">>, <<"namespace-">>>>

IgnorePath(p) ==
  p # Nowhere
    /\ \E mp \in ToSet(ignore_mps) \cup {Namespaces} : StartsWith(p, mp)

(* mounts_get_mountnumber: the last mount point that fits, or the first.   *)
Fitting(p) == {i \in 1 .. Len(mps) : p # Nowhere /\ StartsWith(p, mps[i])}
GetMountnumber(p) == IF Fitting(p) = {} THEN 1 ELSE Max(Fitting(p))

(* Faulty variant: what remains of the last component is cut off.          *)
InsertNameOnly(p, mp) ==
  IF mp = <<>> THEN <<IoriotDir, Name>> \o p
  ELSE mp \o <<IoriotDir, Name>> \o RestOfPath(p, mp)

(* The path with .ioriot/NAME behind its mount point.                      *)
InsertName(p, mp) ==
  IF mp = <<>> THEN <<IoriotDir, Name>> \o p
  ELSE mp \o <<IoriotDir, Name \o RestOfName(p, mp)>> \o RestOfPath(p, mp)

(* mounts_transform_path: whether the line is kept, and path_r.  A path on *)
(* no mount point is kept without a path_r.                                *)
TransformPath(path) ==
  LET p == NormalizePath(path) IN
  [ok |-> ~IgnorePath(p),
   path_r |-> IF IgnorePath(p) \/ Fitting(p) = {} THEN Nowhere
              ELSE InsertName(p, mps[GetMountnumber(p)])]

-----------------------------------------------------------------------------
(* dirname_r of an absolute path.                                          *)
Dirname(p) == IF p = <<>> THEN p ELSE Front(p)

(* _mounts_replay_root_from_transformed: strstr finds /.ioriot/NAME, also  *)
(* where NAME is the beginning of a longer name.                           *)
ReplayRoot(p) ==
  LET marks == {i \in 1 .. Len(p) - 1 :
                  p[i] = IoriotDir /\ IsPrefix(Name, p[i + 1])} IN
  IF marks = {} THEN Nowhere ELSE SubSeq(p, 1, Min(marks)) \o <<Name>>

(* Faulty variant: one .. too few.                                         *)
RelativePathShort(from, to) ==
  LET common == Len(LongestCommonPrefix({from, to})) IN
  [i \in 1 .. Len(from) - common - 1 |-> DotDot]
    \o SubSeq(to, common + 1, Len(to))

(* _mounts_relative_path.                                                  *)
RelativePath(from, to) ==
  LET common == Len(LongestCommonPrefix({from, to})) IN
  IF from = to THEN <<Dot>>
  ELSE [i \in 1 .. Len(from) - common |-> DotDot]
         \o SubSeq(to, common + 1, Len(to))

(* The captured target of a symbolic link: [abs, comps].                   *)
TargetAbs(link_path, target) ==
  NormalizePath(IF target.abs THEN target.comps
                ELSE Dirname(link_path) \o target.comps)

(* mounts_transform_symlink_target: "ok" and the new target, "no" when it  *)
(* cannot be rewritten, and "crash" for the NULL that                      *)
(* _mounts_replay_root_from_transformed gives to strstr when the target is *)
(* on no mount point.                                                      *)
TransformSymlinkTarget(link_path, link_path_r, target) ==
  LET abs == TargetAbs(link_path, target)
      to == IF abs = Nowhere THEN [ok |-> TRUE, path_r |-> Nowhere]
            ELSE TransformPath(abs)
      result(what, rel) == [what |-> what, target_r |-> rel] IN
  IF ~to.ok THEN result("no", <<>>)
  ELSE IF to.path_r = Nowhere THEN result("crash", <<>>)
  ELSE IF \/ ReplayRoot(link_path_r) = Nowhere
          \/ ReplayRoot(link_path_r) # ReplayRoot(to.path_r)
       THEN result("no", <<>>)
  ELSE result("ok", RelativePath(Dirname(link_path_r), to.path_r))
=============================================================================
