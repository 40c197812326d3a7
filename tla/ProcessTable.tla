---------------------------- MODULE ProcessTable ----------------------------
(***************************************************************************)
(* What the maps of the generator promise: one plain function from process *)
(* and descriptor to virtual descriptor, one from paths to numbers, and    *)
(* visits that meet every entry once.                                      *)
(***************************************************************************)
EXTENDS Integers, Sequences

CONSTANTS Pids, Fds, Paths

VARIABLES table,     (* table[p][f]: a virtual descriptor, 0 if f is free  *)
          opened,    (* the last virtual descriptor                        *)
          ids,       (* ids[x]: the number of the path x, or 0             *)
          num,       (* the last number of a path                          *)
          seen,      (* what the last operation got to see                 *)
          stopped    (* the generator ended with an error                  *)

vars == <<table, opened, ids, num, seen, stopped>>
descriptors == <<table, opened>>
paths == <<ids, num>>

Free == [f \in Fds |-> 0]

(* A visit that meets every element of S once, in some order.              *)
MeetsOnce(visit, S) ==
  /\ visit \in Seq(S)
  /\ \A e \in S : \E i \in 1 .. Len(visit) : visit[i] = e
  /\ \A i, j \in 1 .. Len(visit) : visit[i] = visit[j] => i = j

Init ==
  /\ table = [p \in Pids |-> Free]
  /\ opened = 0
  /\ ids = [x \in Paths |-> 0]
  /\ num = 0
  /\ seen = <<>>
  /\ stopped = FALSE

Open(p, f) ==
  /\ table' = [table EXCEPT ![p][f] = opened + 1]
  /\ opened' = opened + 1
  /\ seen' = IF table[p][f] = 0 THEN <<>> ELSE <<table[p][f]>>
  /\ UNCHANGED <<paths, stopped>>

Use(p, f) ==
  /\ seen' = <<table[p][f]>>
  /\ UNCHANGED <<descriptors, paths, stopped>>

Close(p, f) ==
  /\ table[p][f] # 0
  /\ table' = [table EXCEPT ![p][f] = 0]
  /\ seen' = <<table[p][f]>>
  /\ UNCHANGED <<opened, paths, stopped>>

ExitGroup(p) ==
  /\ table' = [table EXCEPT ![p] = Free]
  /\ MeetsOnce(seen', {table[p][f] : f \in Fds} \ {0})
  /\ UNCHANGED <<opened, paths, stopped>>

MeetPath(x) ==
  /\ ids' = IF ids[x] # 0 THEN ids ELSE [ids EXCEPT ![x] = num + 1]
  /\ num' = IF ids[x] # 0 THEN num ELSE num + 1
  /\ seen' = <<ids'[x]>>
  /\ UNCHANGED <<descriptors, stopped>>

VisitPaths ==
  /\ MeetsOnce(seen', {ids[x] : x \in Paths} \ {0})
  /\ UNCHANGED <<descriptors, paths, stopped>>

Stop ==
  /\ stopped' = TRUE
  /\ UNCHANGED <<descriptors, paths, seen>>

Next ==
  /\ ~stopped
  /\ \/ \E p \in Pids, f \in Fds : Open(p, f) \/ Use(p, f) \/ Close(p, f)
     \/ \E p \in Pids : ExitGroup(p)
     \/ \E x \in Paths : MeetPath(x)
     \/ VisitPaths
     \/ Stop

Spec == Init /\ [][Next]_vars
=============================================================================
