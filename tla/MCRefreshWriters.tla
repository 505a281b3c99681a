-------------------------- MODULE MCRefreshWriters --------------------------
(* Two parts side by side: processes that write one row (CredentialRefresh),   *)
(* and the rounds of a session's requests (RequestRounds).  They share no      *)
(* state; the initial state says which of them runs.                           *)
EXTENDS MCCredentialRefresh, RequestRounds

VARIABLE running

writersVars == <<running, vars, roundVars>>

TwoOfOneTurn == "q1" :> 1 @@ "q2" :> 1 @@ "q3" :> 2
OneSharedTwoInOrder ==
  "sticky-balanced" :> <<"f1">> @@ "main-first" :> <<"f1", "f2">> @@ "fallback-first" :> <<"f1", "f2">>

\* What does not run is at one of its initial states.
Resting ==
  /\ running # "refresh" =>
       meta = [r \in Row |-> NoEntry] /\ fresh = {} /\ \A r \in Row : pool[r].ident = NoId
  /\ running # "rounds" => routing = [mode |-> "main-first", vault |-> FALSE]

WritersInit == running \in {"refresh", "rounds"} /\ Init /\ RoundsInit /\ Resting

\* Requests that are over leave nothing to do.
RoundsOver == running = "rounds" /\ UNCHANGED <<vars, roundVars>>

WritersNext ==
  \/ running = "refresh" /\ Next /\ UNCHANGED roundVars
  \/ running = "rounds" /\ RoundsNext /\ UNCHANGED vars
  \/ RoundsOver

WritersSpec == WritersInit /\ [][WritersNext /\ UNCHANGED running]_writersVars
=============================================================================
