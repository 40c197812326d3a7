------------------------- MODULE MCGeneratePipeline -------------------------
(* A finite instance of GeneratePipeline: one object for each line.        *)
EXTENDS GeneratePipeline

MCTasks == 1 .. MaxLines
=============================================================================
