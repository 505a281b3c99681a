---------------------------- MODULE MCPiCacheKeep ----------------------------
(* PiCacheKeep for TLC: two processes, named in the cfgs.                   *)
EXTENDS PiCacheKeep, TLC

CONSTANTS p1, p2

Alike == Permutations(Procs)
=============================================================================
