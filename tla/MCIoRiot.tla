------------------------------ MODULE MCIoRiot ------------------------------
(* A finite instance of IoRiot: two mount points, each with a directory,   *)
(* and two captured processes.                                             *)
EXTENDS IoRiot

CONSTANTS a, b, af, bf
MCFsPaths == {a, b, af, bf}
MCChain == [x \in MCFsPaths |-> CASE x = a -> {a}
                                  [] x = b -> {b}
                                  [] x = af -> {a, af}
                                  [] x = bf -> {b, bf}]
MCMount == [x \in MCFsPaths |-> IF x \in {a, af} THEN 0 ELSE 1]

Line(k, x, off, n) == [kind |-> k, path |-> x, offset |-> off, bytes |-> n]

(* Two ranges of one file, the second with an offset, and a link in        *)
(* another tree; or a file that has to make way for a directory.           *)
MCInitSections ==
  {<<>>,
   <<Line("file", af, 0, 3), Line("file", af, 4, 2), Line("link", bf, 0, 0)>>,
   <<Line("file", a, 0, 1), Line("file", bf, 0, 2), Line("file", af, 0, 2)>>}
(* Nothing, or a file where a directory will be and one with other data.   *)
MCOldTrees ==
  {[z \in MCFsPaths |-> Absent],
   [z \in MCFsPaths |-> IF z = bf THEN [kind |-> "dir", size |-> 0, data |-> {}]
                        ELSE [kind |-> "file", size |-> 6, data |-> 0 .. 5]]}
MCReplayFiles == {<<>>, <<1, 2, 1>>}

CONSTANTS x, y, proc1, proc2, t1, t2, t3
MCThreads == {t1, t2, t3}
MCProcess == [t \in MCThreads |-> IF t = t3 THEN proc2 ELSE proc1]
Capture(cs, ts, max, early, n) ==
  [calls |-> cs, who |-> ts, max |-> max, early |-> early, skips |-> n]

(* Two threads that race about a number; the same with calls before the    *)
(* capture and a probe that is skipped; two probes that are skipped; more  *)
(* threads than an array has room for; and two calls of every kind.        *)
MCPrograms ==
  {Idle,
   Capture({"open", "read", "close", "socket"}, {t1, t2}, 4, 0, 0),
   Capture({"open", "read", "close", "exit_group"}, {t1, t2}, 3, 1, 1),
   Capture({"open", "close"}, {t1, t2}, 3, 0, 2),
   Capture({"open", "read"}, {t1, t2, t3}, 3, 0, 0),
   Capture(Probed, {t1, t2}, 2, 1, 0)}
MCNoPrograms == {Idle}
Symmetric == Permutations({x, y}) \cup Permutations({t1, t2})
=============================================================================
