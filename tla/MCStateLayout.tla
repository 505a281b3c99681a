---------------------------- MODULE MCStateLayout ----------------------------
(* StateLayout for TLC: two processes, named in the cfgs.                   *)
EXTENDS StateLayout

CONSTANTS p1, p2
=============================================================================
