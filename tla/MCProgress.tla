----------------------------- MODULE MCProgress -----------------------------
(* What must eventually happen, side by side: calls settle and leases return   *)
(* (CredentialRefresh), and a window that ended is primed (PrimeWindow).  In   *)
(* these modules they share no state; the initial state says which of them     *)
(* runs.                                                                       *)
EXTENDS MCCredentialRefresh, PrimeWindow

VARIABLE running

progressVars == <<running, vars, primeVars>>

TwoLoadsAndOne == <<2, 1>>

\* What does not run is at one of its initial states.
AtRest ==
  /\ running # "refresh" =>
       meta = [r \in Row |-> NoEntry] /\ fresh = {} /\ \A r \in Row : pool[r].ident = NoId
  /\ running # "prime" => ~window.recalls

ProgressInit == running \in {"refresh", "prime"} /\ Init /\ PrimeInit /\ AtRest

ProgressNext ==
  \/ running = "refresh" /\ Next /\ UNCHANGED primeVars
  \/ running = "prime" /\ PrimeNext /\ UNCHANGED vars

\* Each part's fairness, for as long as it is the one that runs: the others
\* never move.
ProgressFairness ==
  /\ \A c \in Caller :
       /\ WF_vars(running = "refresh" /\ CallStep(c))
       /\ WF_vars(running = "refresh" /\ JobStep(c))
       /\ WF_vars(running = "refresh" /\ EvictStale(c))
  /\ \A p \in Primers : WF_primeVars(running = "prime" /\ TickStep(p))
  /\ \A reset \in 0 .. MaxResets : WF_primeVars(running = "prime" /\ SweepMarker(reset))

ProgressSpec == ProgressInit /\ [][ProgressNext /\ UNCHANGED running]_progressVars /\ ProgressFairness

\* A window that ended is asked for again (PrimeWindow).
WindowsArePrimed == running = "prime" => PrimedEventually
=============================================================================
