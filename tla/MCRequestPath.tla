---------------------------- MODULE MCRequestPath ----------------------------
(* Parts a request passes, side by side: the credential it is served           *)
(* (CredentialRefresh, with rows whose account is unknown or wrong), the       *)
(* session's pin (StickyRouting), the paid fallback (PaidFallback) and the     *)
(* relay (Relay).  In these modules they share no state; the initial state     *)
(* says which of them runs.                                                    *)
EXTENDS MCCredentialRefresh, StickyRouting, PaidFallback, Relay

VARIABLE running

pathVars == <<running, vars, stickyVars, paidVars, relayVars>>

PinOfTheFirst == <<2, 0>>
TwoAndOne == <<2, 1>>

\* What does not run is at one of its initial states.
Resting ==
  /\ running # "refresh" =>
       meta = [r \in Row |-> NoEntry] /\ fresh = {} /\ \A r \in Row : pool[r].ident = NoId
  /\ running # "sticky" => pins.seed = "none"
  /\ running # "paid" => storedUsage = 0
  /\ running # "relay" => kv.now = NoBody

PathInit ==
  /\ running \in {"refresh", "sticky", "paid", "relay"}
  /\ Init /\ StickyInit /\ PaidInit /\ RelayInit /\ Resting

\* Requests that are over leave nothing to do.
RequestsOver == running # "refresh" /\ UNCHANGED <<vars, stickyVars, paidVars, relayVars>>

PathNext ==
  \/ running = "refresh" /\ Next /\ UNCHANGED <<stickyVars, paidVars, relayVars>>
  \/ running = "sticky" /\ StickyNext /\ UNCHANGED <<vars, paidVars, relayVars>>
  \/ running = "paid" /\ PaidNext /\ UNCHANGED <<vars, stickyVars, relayVars>>
  \/ running = "relay" /\ RelayNext /\ UNCHANGED <<vars, stickyVars, paidVars>>
  \/ RequestsOver

PathSpec == PathInit /\ [][PathNext /\ UNCHANGED running]_pathVars
=============================================================================
