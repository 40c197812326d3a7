--------------------------- MODULE MCReplayWorker ---------------------------
EXTENDS ReplayWorker, TLC

CONSTANTS Length,      (* the number of lines of the files                 *)
          Paths        (* the paths they are about                         *)

MCLines == {l \in [vsize : Paths, op : Ops, fd : Fds \cup {0}] :
              l.op = "path" <=> l.fd = 0}

(* The generator numbers the paths in the order in which they appear       *)
(* (generate/generate.c:240-260); directories that it numbers only because *)
(* a file in them appeared, and that no line is about, are left aside.     *)
Numbered(f) ==
  \A i \in DOMAIN f : \A v \in Paths :
    v < f[i].vsize => \E j \in 1 .. i - 1 : f[j].vsize = v

MCFiles == {f \in [1 .. Length -> MCLines] :
              /\ FdHasOnePath(f) /\ OpenComesFirst(f) /\ CloseComesLast(f)
              /\ Numbered(f)}

TaskSymmetry == Permutations(Tasks)
=============================================================================
