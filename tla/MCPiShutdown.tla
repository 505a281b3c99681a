---------------------------- MODULE MCPiShutdown ----------------------------
(* A Pi process's shutdown (PiCacheKeep) and the file of OpenCode's sidebar  *)
(* (SidebarLock), side by side for TLC.  They share no state; the initial     *)
(* state says which of them runs.                                             *)
EXTENDS MCPiCacheKeep, SidebarLock

VARIABLE running

shutdownVars == <<running, vars, sidebarVars>>

OneRouteTwoDisplays == <<[route |-> 1, display |-> 0], [route |-> 0, display |-> 2]>>

ShutdownInit == running \in {"pi", "sidebar"} /\ Init /\ SidebarInit

\* Every frame is written.
FramesWritten == running = "sidebar" /\ UNCHANGED <<vars, sidebarVars>>

ShutdownNext ==
  \/ running = "pi" /\ Next /\ UNCHANGED sidebarVars
  \/ running = "sidebar" /\ SidebarNext /\ UNCHANGED vars
  \/ FramesWritten

\* PiCacheKeep's fairness, for as long as it is the part that runs: the
\* sidebar's writers are promised nothing.
ShutdownFairness ==
  \A p \in Procs :
    /\ SF_vars(running = "pi" /\ (Claims(p) \/ Yields(p)))
    /\ WF_vars(running = "pi" /\ Task(p))
    /\ WF_vars(running = "pi" /\ SweepTask(p))

ShutdownSpec == ShutdownInit /\ [][ShutdownNext /\ UNCHANGED running]_shutdownVars /\ ShutdownFairness
=============================================================================
