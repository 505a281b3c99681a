---------------------------- MODULE MCLayoutPower ----------------------------
(* Three parts side by side: the move of the credential files when the machine *)
(* loses power (StateLayout), a session's message thread (MessageThreads), and *)
(* the enrollment of a host with the vault (Enrollment).  They share no state; *)
(* the initial state says which of them runs.                                  *)
EXTENDS MCStateLayout, MessageThreads, Enrollment

CONSTANTS r1, r2   \* the runs of setup

VARIABLE running

powerVars == <<running, vars, threadVars, enrollVars>>

\* What does not run is at one of its initial states.
Resting == running # "layout" => old.at = NoFiles

PowerInit == running \in {"layout", "thread", "enrollment"} /\ Init /\ ThreadsInit /\ EnrollInit /\ Resting

PowerNext ==
  \/ running = "layout" /\ Next /\ UNCHANGED <<threadVars, enrollVars>>
  \/ running = "thread" /\ ThreadsNext /\ UNCHANGED <<vars, enrollVars>>
  \/ running = "enrollment" /\ EnrollNext /\ UNCHANGED <<vars, threadVars>>

PowerSpec == PowerInit /\ [][PowerNext /\ UNCHANGED running]_powerVars
=============================================================================
