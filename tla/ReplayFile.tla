----------------------------- MODULE ReplayFile -----------------------------
(***************************************************************************)
(* What the generator promises of the lines of a .replay file and the      *)
(* replayer relies on.  A file is a sequence of records with at least a    *)
(* path number vsize, a kind op, and a virtual descriptor fd, 0 where the  *)
(* line names none.                                                        *)
(***************************************************************************)
EXTENDS Integers, Sequences

(* The kinds of lines that differ in what they do to a virtual descriptor. *)
Ops == {"path", "open", "use", "close"}

(* Every line on a descriptor belongs to the path that was opened as that  *)
(* descriptor: the generator writes the path of the vfd, and a number is   *)
(* never used for a second open (generate/gprocess.c:46-83).               *)
FdHasOnePath(f) ==
  \A i, j \in DOMAIN f :
    f[i].fd = f[j].fd /\ f[i].fd # 0 => f[i].vsize = f[j].vsize

(* The first line on a descriptor opens it, and no other line does.        *)
OpenComesFirst(f) ==
  \A i \in DOMAIN f : f[i].fd # 0 =>
    (f[i].op = "open" <=> \A j \in 1 .. i - 1 : f[j].fd # f[i].fd)

(* The close of a descriptor comes last.                                   *)
CloseComesLast(f) ==
  \A i, j \in DOMAIN f :
    f[j].op = "close" /\ f[i].fd = f[j].fd => i <= j
=============================================================================
