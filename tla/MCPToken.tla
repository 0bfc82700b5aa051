------------------------------ MODULE MCPToken ------------------------------
(* Instances of PToken for TLC: three of the named instructions, one of    *)
(* them not guarded, two optional ones, and compute units at the edges  *)
(* of the comparisons.                                                     *)
EXTENDS PToken

MCNamed == <<"InitializeMint", "Transfer", "Approve">>
MCOptional == <<"UnwrapLamports", "Batch">>
MCGuarded == {"Transfer", "Approve"}
MCExpected == [i \in {"InitializeMint", "Transfer", "Approve"} |-> 100]
MCClassicCus == {1000, 1001}
MCPTokenCus == {89, 90, 110, 111}
=============================================================================
