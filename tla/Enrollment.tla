----------------------------- MODULE Enrollment -----------------------------
(* Enrolling a host with the credential vault: setup's run                    *)
(* (native-enrollment.ts enrollNativeVaultForHost) and the ceremony it drives *)
(* (claustrum-enrollment.ts ClaustrumEnrollmentManager).  A run mints a       *)
(* secret, writes it down, proposes its hash, has the request approved and    *)
(* takes the token, which the vault hands out once.  The ceremony lock keeps  *)
(* the runs of two terminals apart, but it expires under a suspended run; the *)
(* run asks whether the lock is still its own right before each rename.  A    *)
(* secret, the request made with it and the token it earns have one number.   *)
EXTENDS Naturals

CONSTANTS Setups,      \* setup runs that can be under way at once
          NoHolder,    \* nobody holds the ceremony lock
          Abandoned,   \* the lock of a run that died
          MaxSecrets,  \* how many secrets are ever issued
          MayStall     \* whether a run may be suspended past its lock's TTL

ASSUME EnrollAssumption ==
  /\ MaxSecrets \in Nat
  /\ NoHolder \notin Setups /\ Abandoned \notin Setups

Secrets == 1 .. MaxSecrets

\* The ceremony state file: its phase ("none", "pending", "approved", "denied",
\* "refused" or "blocked"), and the secret and whether an id is known while
\* pending.  "refused" is blocked with a code setup may clear (superseded,
\* not_found, already_consumed), "blocked" is with any other.
NoState == [phase |-> "none", secret |-> 0, id |-> FALSE]
Pending(s, known) == [phase |-> "pending", secret |-> s, id |-> known]
Final(phase) == [phase |-> phase, secret |-> 0, id |-> FALSE]

VARIABLES tokenFile,   \* the token on disk, 0 for none
          stateFile,   \* the ceremony state on disk
          request,     \* per secret: what the vault knows of its request
          ceremony,    \* who holds the ceremony lock
          setup,       \* per run: where it is and what it holds
          issued,      \* secrets minted so far
          refusedFor   \* history: the secrets whose refusal was written down

enrollVars == <<tokenFile, stateFile, request, ceremony, setup, issued, refusedFor>>

\* at: the run's next step; image: the state it works on; pass: its second
\* reconcile; token: what the vault gave it and it has not written.
NewRun == [at |-> "off", image |-> NoState, pass |-> 1, token |-> 0]

EnrollInit ==
  /\ tokenFile = 0 /\ stateFile = NoState /\ issued = 0 /\ refusedFor = {}
  /\ request = [s \in Secrets |-> "none"]
  /\ ceremony = NoHolder
  /\ setup = [r \in Setups |-> NewRun]

Set(r, with) == setup' = [setup EXCEPT ![r] = with]
Go(r, step) == Set(r, [setup[r] EXCEPT !.at = step])
Work(r, step, image) == Set(r, [setup[r] EXCEPT !.at = step, !.image = image])
Over(r) == Set(r, NewRun)
HoldsCeremony(r) == ceremony = r
LeaveCeremony(r) == ceremony' = IF HoldsCeremony(r) THEN NoHolder ELSE ceremony

\* enrollNativeVaultForHost reads the status without the lock: a token means
\* approved, an idle or pending ceremony is taken up, a clearable refusal is
\* reset.  Any other refusal ends setup; the menu's reset clears those too.
StartSetup(r) ==
  /\ setup[r].at = "off" /\ tokenFile = 0
  /\ \/ stateFile.phase \in {"none", "pending"} /\ Work(r, "lock", NoState)
     \/ stateFile.phase \in {"denied", "refused", "blocked"} /\ Work(r, "clear", NoState)
  /\ UNCHANGED <<tokenFile, stateFile, request, ceremony, issued, refusedFor>>

\* acquireRefreshFileLock: a held lock answers busy, which ends the run.
Locked(r) ==
  \/ ceremony = NoHolder /\ ceremony' = r
  \/ ceremony # NoHolder /\ Over(r) /\ UNCHANGED ceremony

EnterCeremony(r) ==
  /\ setup[r].at = "lock"
  /\ Locked(r) /\ (ceremony' = r => Go(r, "read"))
  /\ UNCHANGED <<tokenFile, stateFile, request, issued, refusedFor>>

\* resetTerminal: under the lock, a token or a pending request is kept; what
\* is over is unlinked.  The reset is the whole effect of its run.
EnterReset(r) ==
  /\ setup[r].at = "clear"
  /\ Locked(r) /\ (ceremony' = r => Go(r, "reset"))
  /\ UNCHANGED <<tokenFile, stateFile, request, issued, refusedFor>>

ResetTerminal(r) ==
  /\ setup[r].at = "reset"
  /\ stateFile' = IF HoldsCeremony(r) /\ tokenFile = 0 /\ stateFile.phase # "pending"
                  THEN NoState ELSE stateFile
  /\ Over(r) /\ LeaveCeremony(r)
  /\ UNCHANGED <<tokenFile, request, issued, refusedFor>>

(* ---- reconcile ---- *)

\* Bug: proposes with the fresh secret and writes it down with the answer.
MintUnsaved(r) ==
  /\ issued < MaxSecrets /\ issued' = issued + 1
  /\ Work(r, "propose", Pending(issued + 1, FALSE))
  /\ UNCHANGED ceremony

\* A fresh secret is written down before the vault hears its hash.
MintSecret(r) ==
  /\ issued < MaxSecrets /\ issued' = issued + 1
  /\ Work(r, "save-secret", Pending(issued + 1, FALSE))
  /\ UNCHANGED ceremony

\* What the run finds on disk: a token settles an unfinished state; an approved
\* state without one is blocked; what is over is returned as it is.
ReadRecord(r) ==
  /\ setup[r].at = "read"
  /\ \/ /\ tokenFile # 0
        /\ \/ stateFile.phase \in {"none", "pending"}
              /\ Work(r, "save-final", Final("approved")) /\ UNCHANGED ceremony
           \/ stateFile.phase \notin {"none", "pending"} /\ Over(r) /\ LeaveCeremony(r)
        /\ UNCHANGED issued
     \/ /\ tokenFile = 0 /\ stateFile.phase = "approved"
        /\ Work(r, "save-final", Final("blocked")) /\ UNCHANGED <<ceremony, issued>>
     \/ /\ tokenFile = 0 /\ stateFile.phase \in {"denied", "refused", "blocked"}
        /\ Over(r) /\ LeaveCeremony(r) /\ UNCHANGED issued
     \/ tokenFile = 0 /\ stateFile.phase = "none" /\ MintSecret(r)
     \/ /\ tokenFile = 0 /\ stateFile.phase = "pending"
        /\ Work(r, IF stateFile.id THEN "poll" ELSE "propose", stateFile)
        /\ UNCHANGED <<ceremony, issued>>
  /\ UNCHANGED <<tokenFile, stateFile, request, refusedFor>>

\* writeStateAtomic: assertOwned is the last thing before the rename; a run
\* whose lock is gone throws and leaves the file as it is.
Saving == {"save-secret", "save-id", "save-final"}
AfterSave(step) == IF step = "save-secret" THEN "propose" ELSE "poll"

SaveState(r) ==
  LET step == setup[r].at IN
  /\ step \in Saving
  /\ \/ /\ HoldsCeremony(r) /\ stateFile' = setup[r].image
        /\ \/ step # "save-final" /\ Go(r, AfterSave(step)) /\ UNCHANGED ceremony
           \/ step = "save-final" /\ Over(r) /\ LeaveCeremony(r)
     \/ ~HoldsCeremony(r) /\ Over(r) /\ UNCHANGED <<stateFile, ceremony>>
  /\ refusedFor' = IF stateFile'.phase \in {"denied", "refused", "blocked"}
                   THEN refusedFor \union {stateFile.secret} ELSE refusedFor
  /\ UNCHANGED <<tokenFile, request, issued>>

\* enrollPropose.  The vault keeps one request per name: a newer one replaces
\* the one that is open, or is refused because of it (pending_exists).
OpenAt(s) == [x \in Secrets |->
               IF x = s THEN "open"
               ELSE IF request[x] \in {"open", "approved"} THEN "superseded" ELSE request[x]]
Asked(r) ==
  LET s == setup[r].image.secret IN
  request' = IF request[s] = "none" THEN OpenAt(s) ELSE request
ProposeRequest(r) ==
  /\ setup[r].at = "propose" /\ Asked(r)
  /\ Work(r, "save-id", [setup[r].image EXCEPT !.id = TRUE])
  /\ UNCHANGED <<tokenFile, stateFile, ceremony, issued, refusedFor>>

\* The vault refuses for good: the refusal replaces the ceremony's state.
ProposeRefused(r) ==
  /\ setup[r].at = "propose"
  /\ \E s \in Secrets : request[s] \in {"open", "approved"}
  /\ Work(r, "save-final", Final("blocked"))
  /\ UNCHANGED <<tokenFile, stateFile, request, ceremony, issued, refusedFor>>

\* A retryable failure ends the run with the request still to be proposed; the
\* vault may have taken it in all the same.
ProposeFails(r) ==
  /\ setup[r].at = "propose"
  /\ Asked(r) \/ UNCHANGED request
  /\ Over(r) /\ LeaveCeremony(r)
  /\ UNCHANGED <<tokenFile, stateFile, issued, refusedFor>>

\* enrollPoll.  The token is handed out once.
PollPending(r) ==
  /\ setup[r].at = "poll" /\ request[setup[r].image.secret] = "open"
  /\ IF setup[r].pass = 1 THEN Go(r, "approve") ELSE Over(r)
  /\ LeaveCeremony(r)
  /\ UNCHANGED <<tokenFile, stateFile, request, issued, refusedFor>>

PollToken(r) ==
  LET s == setup[r].image.secret IN
  /\ setup[r].at = "poll" /\ request[s] = "approved"
  /\ request' = [request EXCEPT ![s] = "taken"]
  /\ Set(r, [setup[r] EXCEPT !.at = "save-token", !.token = s])
  /\ UNCHANGED <<tokenFile, stateFile, ceremony, issued, refusedFor>>

PollRefused(r) ==
  LET found == request[setup[r].image.secret] IN
  /\ setup[r].at = "poll" /\ found \in {"denied", "superseded", "taken"}
  /\ Work(r, "save-final", Final(IF found = "denied" THEN "denied" ELSE "refused"))
  /\ UNCHANGED <<tokenFile, stateFile, request, ceremony, issued, refusedFor>>

\* A poll that fails for now; an answer that is lost takes the token with it.
PollFails(r) ==
  LET s == setup[r].image.secret IN
  /\ setup[r].at = "poll"
  /\ request' \in {request, [request EXCEPT ![s] = IF @ = "approved" THEN "taken" ELSE @]}
  /\ Over(r) /\ LeaveCeremony(r)
  /\ UNCHANGED <<tokenFile, stateFile, issued, refusedFor>>

\* Bug: renames the staged token without asking for the lock.
SaveTokenBlindly(r) ==
  /\ setup[r].at = "save-token"
  /\ tokenFile' = setup[r].token
  /\ Set(r, [setup[r] EXCEPT !.at = "save-final", !.image = Final("approved"), !.token = 0])
  /\ UNCHANGED <<stateFile, request, ceremony, issued, refusedFor>>

\* writeTokenAtomic stages the token and asks for the lock before the rename;
\* the approved state follows the token.
SaveToken(r) ==
  /\ setup[r].at = "save-token"
  /\ \/ /\ HoldsCeremony(r) /\ tokenFile' = setup[r].token
        /\ Set(r, [setup[r] EXCEPT !.at = "save-final", !.image = Final("approved"),
                                   !.token = 0])
     \/ ~HoldsCeremony(r) /\ Over(r) /\ UNCHANGED tokenFile
  /\ UNCHANGED <<stateFile, request, ceremony, issued, refusedFor>>

\* ck auth enroll approve on the request the first pass returned, then the
\* second pass; the command fails when the request is no longer open.
ApproveRequest(r) ==
  LET s == setup[r].image.secret IN
  /\ setup[r].at = "approve"
  /\ \/ /\ request[s] \in {"open", "approved"} /\ request' = [request EXCEPT ![s] = "approved"]
        /\ Set(r, [setup[r] EXCEPT !.at = "lock", !.pass = 2])
     \/ request[s] \notin {"open", "approved"} /\ Over(r) /\ UNCHANGED request
  /\ UNCHANGED <<tokenFile, stateFile, ceremony, issued, refusedFor>>

(* ---- the request's operator, crashes, suspended runs ---- *)

OperatorDenies(s) ==
  /\ request[s] = "open" /\ request' = [request EXCEPT ![s] = "denied"]
  /\ UNCHANGED <<tokenFile, stateFile, ceremony, setup, issued, refusedFor>>

SetupDies(r) ==
  /\ setup[r].at # "off" /\ Over(r)
  /\ ceremony' = IF HoldsCeremony(r) THEN Abandoned ELSE ceremony
  /\ UNCHANGED <<tokenFile, stateFile, request, issued, refusedFor>>

\* The lock expires: its run died, or was suspended and does not know.
CeremonyExpires ==
  /\ ceremony # NoHolder /\ (ceremony = Abandoned \/ MayStall)
  /\ ceremony' = NoHolder
  /\ UNCHANGED <<tokenFile, stateFile, request, setup, issued, refusedFor>>

EnrollNext ==
  \/ CeremonyExpires
  \/ \E s \in Secrets : OperatorDenies(s)
  \/ \E r \in Setups :
       \/ StartSetup(r) \/ EnterCeremony(r) \/ EnterReset(r) \/ ResetTerminal(r)
       \/ ReadRecord(r) \/ SaveState(r) \/ ProposeRequest(r) \/ ProposeRefused(r)
       \/ ProposeFails(r) \/ PollPending(r) \/ PollToken(r) \/ PollRefused(r)
       \/ PollFails(r) \/ SaveToken(r) \/ ApproveRequest(r) \/ SetupDies(r)

EnrollSpec == EnrollInit /\ [][EnrollNext]_enrollVars

(* ---- what must hold ---- *)

\* While the host has no token, a request that waits at the vault can be
\* finished by it: its secret is in the ceremony state, whichever run died or
\* was overtaken in between.  The exception is a request whose refusal the state
\* reported: a run that was suspended may still propose it after that.
NoOrphanRequest ==
  \A s \in Secrets :
    request[s] \in {"open", "approved"} =>
      \/ tokenFile # 0 \/ stateFile.secret = s
      \/ s \in refusedFor

\* The token of a finished enrollment is never replaced: a run that was
\* suspended with an older token in its hands finds its lock gone.
TokenStays == [][tokenFile # 0 => tokenFile' = tokenFile]_enrollVars
=============================================================================
