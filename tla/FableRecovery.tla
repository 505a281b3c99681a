----------------------------- MODULE FableRecovery -----------------------------
(***************************************************************************)
(* Recovery from a refusal of the content filter: for a bounded round of   *)
(* responses the session's requests go to the standby model, then the      *)
(* source is asked again, and each refusal that soon follows doubles the   *)
(* round.  Meanwhile the refused request is kept, and its cache warmed on  *)
(* the account it was sent on, for the source's return.                    *)
(*                                                                         *)
(* One session and its own requests (no subagent's).  A body stands for    *)
(* its model, its account and the history it carries: a history that was   *)
(* compacted or edited no longer starts with the prefix of those before    *)
(* it.  Requests carry a plan made before they were routed, and end after  *)
(* others began: the round they come back to may not be theirs.            *)
(*                                                                         *)
(* The standby model's own cache bridge is left out: a request uses it     *)
(* only on the account it was written on.                                  *)
(***************************************************************************)
EXTENDS Naturals, FiniteSets

CONSTANTS
  Sources,        \* the models whose refusals are recovered from, each its own family
  RecoveryOAuth,  \* the OAuth accounts
  StickyRecovery, \* whether routing is sticky: then a round is bound to the session's account
  RecoveryRequests,
  Unset,          \* what is not there
  FallbackTurns,  \* responses of the shortest round, and of a source that is trusted again
  IdleWarms,      \* warms of a kept request without a new user turn
  MaxRounds,      \* bounds of a run: refusals, and compactions
  MaxCompactions

ASSUME RecoveryAssumption ==
  /\ StickyRecovery \in BOOLEAN
  /\ FallbackTurns \in Nat \ {0} /\ IdleWarms \in Nat
  /\ MaxRounds \in Nat /\ MaxCompactions \in Nat

VARIABLES
  selected,   \* the model the session's requests last named
  history,    \* how often its history was compacted
  recovery,   \* the round of each source
  rounds,     \* rounds begun
  keepable,   \* the session's own CacheKeep target, while a refusal may keep it
  syncing,    \* kept requests on their way to become a target
  warmTarget, \* the target of each source's kept request
  warming,    \* the target a warm under way was built from
  answering,  \* each request
  ended,      \* how many of a round's own responses ended
  strayed     \* warms sent on another account than their round's: [account, bound]

recoveryVars == <<selected, history, recovery, rounds, keepable, syncing,
                  warmTarget, warming, answering, ended, strayed>>

NoPlan == [at |-> "new", model |-> Unset, downgraded |-> FALSE, cycle |-> 0, account |-> Unset, history |-> 0]

RecoveryInit ==
  /\ selected = Unset /\ history = 0 /\ rounds = 0
  /\ recovery = [m \in Sources |-> Unset]
  /\ keepable = Unset /\ syncing = {}
  /\ warmTarget = [m \in Sources |-> Unset] /\ warming = [m \in Sources |-> Unset]
  /\ answering = [r \in RecoveryRequests |-> NoPlan]
  /\ ended = [c \in 1 .. MaxRounds |-> 0]
  /\ strayed = {}

Has(m) == recovery[m] # Unset
KeptOf(m) == IF Has(m) THEN recovery[m].kept ELSE Unset
Forgotten(state) == IF state = Unset THEN Unset ELSE [state EXCEPT !.kept = Unset]
Unkept(m) == [recovery EXCEPT ![m] = Forgotten(recovery[m])]
Untracked(m) == [warmTarget EXCEPT ![m] = Unset]

\* Mutant: any round takes the responses of its source.
CurrentOfSource(p) == Has(p.model)

\* The round a request was planned in is the one its source is still in.
IsCurrent(p) == Has(p.model) /\ recovery[p.model].cycle = p.cycle

---------------------------------------------------------------------------
(* Requests.                                                               *)

\* A session that names another model starts over, and what its rounds kept
\* is dropped with them.
PlanRequest(r, m) ==
  /\ answering[r].at = "new"
  /\ LET over == selected \notin {Unset, m}
         left == IF over THEN [x \in Sources |-> Unset] ELSE recovery
         plan == [NoPlan EXCEPT !.at = "planned", !.model = m]
     IN  /\ recovery' = left
         /\ answering' = [answering EXCEPT ![r] =
              IF left[m] = Unset THEN plan
              ELSE [plan EXCEPT !.downgraded = left[m].remaining > 0, !.cycle = left[m].cycle]]
         /\ IF over THEN warmTarget' = [x \in Sources |-> Unset] /\ keepable' = Unset
            ELSE UNCHANGED <<warmTarget, keepable>>
  /\ selected' = m
  /\ UNCHANGED <<history, rounds, syncing, warming, ended, strayed>>

\* Mutant: the kept request survives the move of its round.
ReboundWithKept(state, a) == [state EXCEPT !.account = a]

\* A round that moves to another account leaves behind what it kept there.
Rebound(state, a) == [state EXCEPT !.account = a, !.kept = Unset]

\* The request is routed to an account, which binds its round in sticky
\* routing, and is sent with the history of now.  A kept request is given up
\* when this history lost its prefix, or when its account or target is gone
\* or caching is off.  A new turn of the user's starts the count of its warms
\* afresh.
SendRequest(r, a) ==
  /\ answering[r].at = "planned"
  /\ LET p == answering[r]
         binds == StickyRecovery /\ p.downgraded /\ IsCurrent(p) /\ recovery[p.model].account # a
         bound == IF binds THEN [recovery EXCEPT ![p.model] = Rebound(recovery[p.model], a)] ELSE recovery
         keeping == {m \in Sources : bound[m] # Unset /\ bound[m].kept # Unset}
         lost == {m \in keeping : bound[m].kept.history # history}
     IN  \E gone \in SUBSET keeping, newTurn \in BOOLEAN :
           /\ recovery' = [m \in Sources |->
                IF m \in lost \cup gone THEN Forgotten(bound[m])
                ELSE IF m \in keeping /\ newTurn THEN [bound[m] EXCEPT !.kept.warms = 0]
                ELSE bound[m]]
           /\ warmTarget' = [m \in Sources |->
                IF m \in lost \cup gone \/ (binds /\ m = p.model) THEN Unset ELSE warmTarget[m]]
  /\ answering' = [answering EXCEPT ![r].at = "sent", ![r].account = a, ![r].history = history]
  /\ UNCHANGED <<selected, history, rounds, keepable, syncing, warming, ended, strayed>>

\* The response is a success so far: its request becomes the session's target,
\* unless CacheKeep's policy refuses it.
AcceptRequest(r) ==
  /\ answering[r].at = "sent"
  /\ answering' = [answering EXCEPT ![r].at = "accepted"]
  /\ LET p == answering[r]
     IN  \/ keepable' = IF p.downgraded THEN Unset
                        ELSE [model |-> p.model, account |-> p.account, history |-> p.history]
         \/ UNCHANGED keepable
  /\ UNCHANGED <<selected, history, recovery, rounds, syncing, warmTarget, warming, ended, strayed>>

Ends(r) == answering' = [answering EXCEPT ![r] = [NoPlan EXCEPT !.at = "done"]]

\* Doubled with each refusal in a row, twice at most.
Granted(refusals) ==
  CASE refusals = 0 -> FallbackTurns [] refusals = 1 -> 2 * FallbackTurns [] OTHER -> 4 * FallbackTurns

\* The filter refuses the source's response: its round begins.  What the
\* session's target holds is kept, if it is of this source and account.
RefuseSource(r) ==
  /\ answering[r].at = "accepted" /\ ~answering[r].downgraded /\ rounds < MaxRounds
  /\ LET p == answering[r]
         before == recovery[p.model]
         refusals == IF before # Unset /\ before.successes < FallbackTurns THEN before.refusals + 1 ELSE 0
         keeps == keepable # Unset /\ keepable.model = p.model /\ keepable.account = p.account
     IN  /\ recovery' = [recovery EXCEPT ![p.model] =
              [remaining |-> Granted(refusals), refusals |-> refusals, successes |-> 0,
               cycle |-> rounds + 1, account |-> p.account,
               kept |-> IF keeps THEN [account |-> keepable.account, history |-> keepable.history, warms |-> 0] ELSE Unset]]
         /\ keepable' = IF keepable # Unset /\ keepable.model = p.model THEN Unset ELSE keepable
         /\ IF keeps THEN syncing' = syncing \cup {keepable} /\ UNCHANGED warmTarget
            ELSE warmTarget' = Untracked(p.model) /\ UNCHANGED syncing
  /\ rounds' = rounds + 1
  /\ Ends(r)
  /\ UNCHANGED <<selected, history, warming, ended, strayed>>

\* The source answers, or the provider's own fallback does in its place.
CompleteSource(r) ==
  /\ answering[r].at = "accepted" /\ ~answering[r].downgraded
  /\ LET p == answering[r]
     IN  IF ~IsCurrent(p) \/ recovery[p.model].remaining > 0
         THEN UNCHANGED <<recovery, warmTarget>>
         ELSE \/ /\ recovery' = [recovery EXCEPT ![p.model] =
                      [Forgotten(recovery[p.model]) EXCEPT
                        !.successes = IF recovery[p.model].successes < FallbackTurns THEN recovery[p.model].successes + 1
                                      ELSE recovery[p.model].successes]]
                 /\ warmTarget' = Untracked(p.model)
              \/ recovery' = [recovery EXCEPT ![p.model].successes = 0] /\ UNCHANGED warmTarget
  /\ Ends(r)
  /\ UNCHANGED <<selected, history, rounds, keepable, syncing, warming, ended, strayed>>

\* The standby model answers: a response of the round it was planned in.
CompleteStandby(r) ==
  /\ answering[r].at = "accepted" /\ answering[r].downgraded
  /\ LET p == answering[r]
     IN  /\ recovery' = IF IsCurrent(p) /\ recovery[p.model].remaining > 0
                        THEN [recovery EXCEPT ![p.model].remaining = @ - 1] ELSE recovery
         /\ ended' = [ended EXCEPT ![p.cycle] = @ + 1]
  /\ Ends(r)
  /\ UNCHANGED <<selected, history, rounds, keepable, syncing, warmTarget, warming, strayed>>

FailRequest(r) ==
  /\ answering[r].at \in {"planned", "sent", "accepted"} /\ Ends(r)
  /\ UNCHANGED <<selected, history, recovery, rounds, keepable, syncing, warmTarget, warming, ended, strayed>>

AskAgain(r) ==
  /\ answering[r].at = "done" /\ rounds < MaxRounds
  /\ answering' = [answering EXCEPT ![r] = NoPlan]
  /\ UNCHANGED <<selected, history, recovery, rounds, keepable, syncing, warmTarget, warming, ended, strayed>>

\* The history no longer starts with what was sent of it.
CompactHistory ==
  /\ history < MaxCompactions /\ history' = history + 1
  /\ UNCHANGED <<selected, recovery, rounds, keepable, syncing, warmTarget, warming, answering, ended, strayed>>

DeleteSession ==
  /\ selected # Unset /\ selected' = Unset
  /\ recovery' = [m \in Sources |-> Unset]
  /\ warmTarget' = [m \in Sources |-> Unset] /\ keepable' = Unset
  /\ UNCHANGED <<history, rounds, syncing, warming, answering, ended, strayed>>

---------------------------------------------------------------------------
(* The kept request's cache.                                               *)

\* What was kept is tracked once the accounts are loaded, whatever became of
\* its round; they may be unreadable, or their policy forbid it.
TrackKept(body) ==
  /\ body \in syncing /\ syncing' = syncing \ {body}
  /\ \/ warmTarget' = [warmTarget EXCEPT ![body.model] = body] /\ UNCHANGED recovery
     \/ recovery' = Unkept(body.model) /\ UNCHANGED warmTarget
     \/ UNCHANGED <<recovery, warmTarget>>
  /\ UNCHANGED <<selected, history, rounds, keepable, warming, answering, ended, strayed>>

\* CacheKeep gives targets up: they expire, fail, or have no room.
DropTarget(m) ==
  /\ warmTarget[m] # Unset /\ warmTarget' = Untracked(m)
  /\ UNCHANGED <<selected, history, recovery, rounds, keepable, syncing, warming, answering, ended, strayed>>

\* A warm is due.  It is for what the round keeps, and not for ever.
ValidateWarm(m) ==
  /\ warmTarget[m] # Unset /\ warming[m] = Unset
  /\ LET kept == KeptOf(m)
         valid == kept # Unset /\ kept.warms < IdleWarms /\ kept.history = warmTarget[m].history
     IN  IF valid THEN warming' = [warming EXCEPT ![m] = warmTarget[m]] /\ UNCHANGED <<recovery, warmTarget>>
         ELSE recovery' = Unkept(m) /\ warmTarget' = Untracked(m) /\ UNCHANGED warming
  /\ UNCHANGED <<selected, history, rounds, keepable, syncing, answering, ended, strayed>>

\* The account authorized for the warm is still the one of the kept request.
StillKept(m) == KeptOf(m) # Unset /\ KeptOf(m).account = warming[m].account

\* Its account is authorized, and the round asked again.  Only a warm that
\* succeeds counts.
SendWarm(m) ==
  /\ warming[m] # Unset /\ warming' = [warming EXCEPT ![m] = Unset]
  /\ IF StillKept(m)
     THEN /\ strayed' = IF warming[m].account = recovery[m].account THEN strayed
                        ELSE strayed \cup {[account |-> warming[m].account, bound |-> recovery[m].account]}
          /\ \/ recovery' = [recovery EXCEPT ![m].kept.warms = recovery[m].kept.warms + 1]
             \/ UNCHANGED recovery
          /\ UNCHANGED warmTarget
     ELSE recovery' = Unkept(m) /\ warmTarget' = Untracked(m) /\ UNCHANGED strayed
  /\ UNCHANGED <<selected, history, rounds, keepable, syncing, answering, ended>>

WarmRefused(m) ==
  /\ warming[m] # Unset /\ warming' = [warming EXCEPT ![m] = Unset]
  /\ UNCHANGED <<selected, history, recovery, rounds, keepable, syncing, warmTarget, answering, ended, strayed>>

---------------------------------------------------------------------------

RecoveryNext ==
  \/ \E r \in RecoveryRequests :
       \/ \E m \in Sources : PlanRequest(r, m)
       \/ \E a \in RecoveryOAuth : SendRequest(r, a)
       \/ AcceptRequest(r) \/ RefuseSource(r) \/ CompleteSource(r) \/ CompleteStandby(r)
       \/ FailRequest(r) \/ AskAgain(r)
  \/ CompactHistory \/ DeleteSession
  \/ \E body \in syncing : TrackKept(body)
  \/ \E m \in Sources : DropTarget(m) \/ ValidateWarm(m) \/ SendWarm(m) \/ WarmRefused(m)

RecoverySpec == RecoveryInit /\ [][RecoveryNext]_recoveryVars

---------------------------------------------------------------------------
(* Properties.                                                             *)

\* A round is as long as it was granted: what is left of it falls by the
\* standby's responses to requests planned in it, and by nothing else.  A
\* response to a request of an earlier round, which ends after the source was
\* asked again and refused again, does not bring the source back early.
RoundCountsItsOwn ==
  \A m \in Sources : Has(m) =>
    LET granted == Granted(recovery[m].refusals)
        own == ended[recovery[m].cycle]
    IN  recovery[m].remaining = IF own < granted THEN granted - own ELSE 0

\* A kept request is warmed only on the account its round is bound to: the
\* round may move to another between the keeping, the tracking, the check
\* before a warm and its sending.
WarmedWhereItServes == strayed = {}
=============================================================================
