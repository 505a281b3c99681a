----------------------------- MODULE MCProcesses -----------------------------
(* What two of a kind share, side by side: processes a row and its leases      *)
(* (CredentialRefresh), requests a vault account and its credential            *)
(* (VaultServing), requests a session's recovery round (FableRecovery).  The   *)
(* three share no state; the initial state says which of them runs.            *)
EXTENDS MCCredentialRefresh, VaultServing, FableRecovery

VARIABLE running

processVars == <<running, vars, vaultVars, recoveryVars>>

SocketAndDirect == <<"socket", "direct">>
TogetherOrApart == {<<1, 1>>, <<1, 2>>}

\* What does not run is at one of its initial states.
Resting ==
  /\ running # "refresh" =>
       meta = [r \in Row |-> NoEntry] /\ fresh = {} /\ \A r \in Row : pool[r].ident = NoId
  /\ running # "vault" => \A r \in VaultRequests : vaultCall[r].host = 1

ProcessInit ==
  /\ running \in {"refresh", "vault", "recovery"}
  /\ Init /\ VaultInit /\ RecoveryInit /\ Resting

\* Requests are over.
NothingLeft == running # "refresh" /\ UNCHANGED <<vars, vaultVars, recoveryVars>>

ProcessNext ==
  \/ running = "refresh" /\ Next /\ UNCHANGED <<vaultVars, recoveryVars>>
  \/ running = "vault" /\ VaultNext /\ UNCHANGED <<vars, recoveryVars>>
  \/ running = "recovery" /\ RecoveryNext /\ UNCHANGED <<vars, vaultVars>>
  \/ NothingLeft

ProcessSpec == ProcessInit /\ [][ProcessNext /\ UNCHANGED running]_processVars
=============================================================================
