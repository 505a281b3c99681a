------------------------------ MODULE MCHandoff ------------------------------
(* Three small instances side by side: the handoff of provider leases between *)
(* rows of CredentialRefresh, a request of Pi with the accounts and the        *)
(* runtime that change under it (PiRequests), and the sends of OpenCode 2      *)
(* (V2Sends).  They share no state; the initial state says which of them runs. *)
EXTENDS MCCredentialRefresh, PiRequests, V2Sends

VARIABLE running

handoffVars == <<running, vars, piVars, v2Vars>>

OneFallback == <<"f1">>

\* What does not run is at one of its initial states.
Resting ==
  /\ running # "refresh" =>
       meta = [r \in Row |-> NoEntry] /\ fresh = {} /\ \A r \in Row : pool[r].ident = NoId
  /\ running # "pi" =>
       routingMode = "main-first" /\ \A s \in PiRoutes : behind[s] = [person |-> "p", says |-> TRUE]
  /\ running # "v2" => custody = "vault"

HandoffInit ==
  /\ running \in {"refresh", "pi", "v2"}
  /\ Init /\ PiInit /\ V2Init
  /\ Resting

\* Requests that are over leave nothing to do.
RequestsOver == running # "refresh" /\ UNCHANGED <<vars, piVars, v2Vars>>

HandoffNext ==
  \/ running = "refresh" /\ Next /\ UNCHANGED <<piVars, v2Vars>>
  \/ running = "pi" /\ PiRequestsNext /\ UNCHANGED <<vars, v2Vars>>
  \/ running = "v2" /\ V2Next /\ UNCHANGED <<vars, piVars>>
  \/ RequestsOver

HandoffSpec == HandoffInit /\ [][HandoffNext /\ UNCHANGED running]_handoffVars
=============================================================================
