-------------------------- MODULE MCRejectedToken --------------------------
(* CredentialRefresh with a history variable: the access tokens a call has    *)
(* heard to be rejected, in the job it consults when its admission read        *)
(* returns.                                                                    *)
EXTENDS MCCredentialRefresh

VARIABLE heard

HeardNow(c) ==
  IF cpc[c] = "admit" /\ cpc'[c] # "admit" /\ call[c].joined # NoCaller
    THEN barred'[call[c].joined] ELSE {}

HInit == Init /\ heard = [c \in Caller |-> {}]
HNext == Next /\ heard' = [c \in Caller |-> heard[c] \cup HeardNow(c)]
HSpec == HInit /\ [][HNext]_<<vars, heard>>

\* "Admission yields to other callers. A 401 recorded during that read must
\* prevent dispatch of the token it rejected" (authorize()): a call that found a
\* token rejected when its admission read returned is not handed that token.
RejectionPreventsDispatch ==
  \A c \in Caller : call[c].kind = "usable" => call[c].acc \notin heard[c]
============================================================================
