---------------------------- MODULE MCInstallation ----------------------------
(* What an interrupted change of an installation leaves, side by side: the     *)
(* move of the credential files next to a process of an older version          *)
(* (StateLayout), and a setup that was interrupted (Migration).  In these      *)
(* modules they share no state; the initial state says which of them runs.     *)
EXTENDS MCStateLayout, Migration

CONSTANT p3   \* a third process

VARIABLE running

installationVars == <<running, vars, migrationVars>>

\* What does not run is at one of its initial states.
AtRest ==
  /\ running # "layout" => old.at = NoFiles
  /\ running # "migration" => auth = NoLogin /\ legacy = NoLogin

InstallationInit == running \in {"layout", "migration"} /\ Init /\ MigrationInit /\ AtRest

InstallationNext ==
  \/ running = "layout" /\ Next /\ UNCHANGED migrationVars
  \/ running = "migration" /\ MigrationNext /\ UNCHANGED vars

\* The setup's fairness, for as long as it is the part that runs: otherwise it
\* never moves.
InstallationFairness ==
  /\ WF_migrationVars(running = "migration" /\ HostsStop)
  /\ WF_migrationVars(running = "migration" /\ SetupStep)
  /\ WF_migrationVars(running = "migration" /\ hosts # "none" /\ Dies)

InstallationSpec ==
  /\ InstallationInit
  /\ [][InstallationNext /\ UNCHANGED running]_installationVars
  /\ InstallationFairness
=============================================================================
