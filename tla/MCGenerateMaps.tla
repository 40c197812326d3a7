--------------------------- MODULE MCGenerateMaps ---------------------------
(* A finite instance of GenerateMaps: two paths whose hashes collide.      *)
EXTENDS GenerateMaps

CONSTANTS x1, x2
MCPaths == {x1, x2}
MCHash == [x \in MCPaths |-> 3]
=============================================================================
