--------------------------- MODULE MCRequirements ---------------------------
(* Instances of Requirements for TLC: a gate and two programs, one pinned  *)
(* to a hash and one not.                                                  *)
EXTENDS Requirements

MCGates == {"gate"}
MCPrograms == {"pinned", "free"}
MCHashes == {"good", "other"}
MCRequired == <<"gate", "pinned", "free">>
MCExpected == [p \in MCPrograms |-> IF p = "pinned" THEN "good" ELSE "any"]
=============================================================================
