----------------------------- MODULE MCGenerate -----------------------------
(* A finite instance of Generate: two processes that use the same numbers  *)
(* of descriptors, and a directory with one file.                          *)
EXTENDS Generate, TLC

CONSTANTS dir, file

MCPaths == {dir, file}
MCParent == [x \in MCPaths |-> dir]

Symmetry == Permutations(Pids) \cup Permutations(Fds) \cup Permutations(Vfds)
=============================================================================
