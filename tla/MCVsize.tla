------------------------------- MODULE MCVsize -------------------------------
(* A finite instance of Vsize: / with a file, and a directory with one.    *)
EXTENDS Vsize

MCPaths == {"/", "/d", "/d/f"}
MCParent == [x \in MCPaths |-> IF x = "/d/f" THEN "/d" ELSE "/"]
=============================================================================
