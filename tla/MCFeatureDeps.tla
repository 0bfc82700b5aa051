---------------------------- MODULE MCFeatureDeps ----------------------------
(* Instances of FeatureDeps for TLC: every dependency graph on three ids   *)
(* whose lists hold at most two entries, with all ids known or one         *)
(* dangling, and with gates all different or one shared.                   *)
EXTENDS FeatureDeps

CONSTANTS a, b, c    \* the ids

MCIds == {a, b, c}
MCLists == {<<>>} \cup {<<x>> : x \in MCIds} \cup {<<x, y>> : x, y \in MCIds}
Different == [id \in MCIds |-> id]
Shared == [id \in MCIds |-> IF id = b THEN a ELSE id]
MCManifests ==
    [simds : {{a, b, c}, {a, b}}, dependsOn : [MCIds -> MCLists],
     address : {Different, Shared}]
=============================================================================
