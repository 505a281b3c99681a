------------------------------ MODULE MCKeepers ------------------------------
(* The two CacheKeeps side by side: Pi's, one session kept by one of several   *)
(* processes (PiCacheKeep), and OpenCode's, the sessions of one server kept by *)
(* its newest instance (SharedCacheKeep).  They share no state; the initial    *)
(* state says which of them runs.                                              *)
EXTENDS MCPiCacheKeep, SharedCacheKeep

CONSTANTS k1, k2

VARIABLE running

AlikeKeepers == {f @@ g : f \in Alike, g \in Permutations(KeepSessions)}

\* What does not run is at one of its initial states.
Resting == running # "opencode" => keepSaved = [s \in KeepSessions |-> 0]

KeepersInit == running \in {"pi", "opencode"} /\ Init /\ KeepInit /\ Resting

\* The horizon of the clock ends every behaviour of OpenCode's.
ClockStops == running = "opencode" /\ UNCHANGED <<vars, keepVars>>

KeepersNext ==
  \/ running = "pi" /\ Next /\ UNCHANGED keepVars
  \/ running = "opencode" /\ KeepNext /\ UNCHANGED vars
  \/ ClockStops

KeepersSpec == KeepersInit /\ [][KeepersNext /\ UNCHANGED running]_<<running, vars, keepVars>>
=============================================================================
