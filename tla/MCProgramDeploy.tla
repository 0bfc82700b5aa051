--------------------------- MODULE MCProgramDeploy ---------------------------
(* Instances of ProgramDeploy for TLC: two runs, and images of two chunks  *)
(* with a partial one at the end and of one whole chunk.                   *)
EXTENDS ProgramDeploy, TLC

CONSTANTS r1, r2

MCRuns == {r1, r2}
MCBytes == {"a", "b", "c", "v", "w"}
MCImages == {<<"a", "b", "c">>, <<"v", "w">>}
RunSymmetry == Permutations(MCRuns)
=============================================================================
