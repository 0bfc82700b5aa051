--------------------------- MODULE MCSurfnetStart ---------------------------
(* Instances of SurfnetStart for TLC: two starts of a surfnet with two     *)
(* ports, on a machine with three.                                         *)
EXTENDS SurfnetStart

MCPorts == {8899, 8900, 9001}
=============================================================================
