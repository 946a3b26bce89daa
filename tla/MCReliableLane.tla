--------------------------- MODULE MCReliableLane ---------------------------
(* One sender and two receiving threads of either lane.                         *)
EXTENDS ReliableLane

CONSTANTS c1, c2
=============================================================================
