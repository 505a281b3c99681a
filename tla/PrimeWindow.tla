----------------------------- MODULE PrimeWindow -----------------------------
(***************************************************************************)
(* One account's five-hour quota window, primed by one of many processes.  *)
(*                                                                         *)
(* A window opens with a request and ends by itself; its reset has a       *)
(* number, 0 for none known.  Once a reset has passed, every process's     *)
(* tick looks for the reset's marker file, polls the quota, claims the     *)
(* marker exclusively and sends one request.  A process knows the last     *)
(* reset from the account's stored quota, which any poll may refresh.      *)
(*                                                                         *)
(* From its poll on, a tick is assumed to end within the hours that a       *)
(* window or a marker lasts.                                               *)
(***************************************************************************)
EXTENDS Naturals, FiniteSets

CONSTANTS
  Primers,    \* processes
  MaxResets,  \* the bound of a run: windows that end
  MaxLoads,   \* the bound of a run: loads of the plugin, by process
  MaxFailures \* the bound of a run: polls and requests not made

ASSUME PrimeAssumption == MaxResets \in Nat /\ MaxLoads \in [Primers -> Nat] /\ MaxFailures \in Nat

VARIABLES
  window,   \* the provider's side: [open, ended, recalls, failures]
  stored,   \* the reset in the stored quota
  markers,  \* marker files, by reset; 0 is the bootstrap's
  enabled,  \* the persisted opt-in
  primer,   \* each process's manager and tick
  spent     \* requests sent since the last reset

primeVars == <<window, stored, markers, enabled, primer, spent>>

\* reset is the stored one the tick began with, claim the marker's; lease is
\* the manager's current plugin instance, old those not disposed of yet; off:
\* the process's own command turned priming off.
Resting == [at |-> "idle", reset |-> 0, claim |-> 0]
NewPrimer == [up |-> TRUE, stopped |-> FALSE, off |-> FALSE, lease |-> 1, old |-> {}, tick |-> Resting]

\* Between windows the provider reports the last reset, or none (recalls).
PrimeInit ==
  /\ window \in [open : {FALSE}, ended : {0}, recalls : BOOLEAN, failures : {0}]
  /\ stored = 0 /\ markers = {} /\ enabled = TRUE /\ spent = 0
  /\ primer = [p \in Primers |-> NewPrimer]


\* The reset a poll returns.
Report ==
  IF window.open THEN window.ended + 1 ELSE IF window.recalls THEN window.ended ELSE 0

PrimerAt(p, place) == primer[p].up /\ primer[p].tick.at = place
Moved(p, place) == primer' = [primer EXCEPT ![p].tick.at = place]
Rest(p) == primer' = [primer EXCEPT ![p].tick = Resting]
\* Nobody is about to claim or to send.
Quiet == \A p \in Primers : primer[p].tick.at \in {"idle", "look"}

---------------------------------------------------------------------------
(* A tick.                                                                 *)

Failing == window.failures < MaxFailures /\ window' = [window EXCEPT !.failures = @ + 1]

\* Due a minute after the stored reset, at once without one.
Due == stored <= window.ended

Tick(p) ==
  /\ PrimerAt(p, "idle") /\ ~primer[p].stopped /\ enabled /\ Due
  /\ primer' = [primer EXCEPT ![p].tick = [at |-> "look", reset |-> stored, claim |-> 0]]
  /\ UNCHANGED <<window, stored, markers, enabled, spent>>

\* The marker is there: somebody primed, or is about to.  Without a reset
\* any marker of the account counts.
AlreadyClaimed(reset) == reset \in markers \/ (reset = 0 /\ markers # {})

LookForMarker(p) ==
  /\ PrimerAt(p, "look")
  /\ IF AlreadyClaimed(primer[p].tick.reset) THEN Rest(p) ELSE Moved(p, "poll")
  /\ UNCHANGED <<window, stored, markers, enabled, spent>>

\* The poll fails or answers from a cache, or policy refuses.
Refrain(p) ==
  /\ PrimerAt(p, "poll") /\ Failing
  /\ Rest(p)
  /\ UNCHANGED <<stored, markers, enabled, spent>>

\* A window that is active needs no priming; nor does anything once turned off.
PollQuota(p) ==
  /\ PrimerAt(p, "poll")
  /\ IF window.open \/ primer[p].stopped \/ ~enabled THEN Rest(p)
     ELSE primer' = [primer EXCEPT ![p].tick.at = "claim",
                       ![p].tick.claim = IF Report # 0 THEN Report ELSE primer[p].tick.reset]
  /\ UNCHANGED <<window, stored, markers, enabled, spent>>

\* Mutant: the marker is looked for, not created exclusively.
ClaimableAlways(p) == TRUE

ResetClaimable(p) == primer[p].tick.claim \notin markers

Claim(p) ==
  /\ PrimerAt(p, "claim")
  /\ IF ResetClaimable(p)
     THEN Moved(p, "check") /\ markers' = markers \cup {primer[p].tick.claim}
     ELSE Rest(p) /\ UNCHANGED markers
  /\ UNCHANGED <<window, stored, enabled, spent>>

\* Off meanwhile: the claim is given up.  On: the bootstrap's marker goes
\* once a reset's is there.
CheckClaim(p) ==
  /\ PrimerAt(p, "check")
  /\ IF primer[p].stopped \/ ~enabled
     THEN Rest(p) /\ markers' = markers \ {primer[p].tick.claim}
     ELSE Moved(p, "fire") /\ markers' = IF primer[p].tick.claim = 0 THEN markers ELSE markers \ {0}
  /\ UNCHANGED <<window, stored, enabled, spent>>

\* Stopped while the bootstrap's marker was removed.
Withdraw(p) ==
  /\ PrimerAt(p, "fire") /\ primer[p].stopped /\ primer[p].tick.claim # 0
  /\ Rest(p)
  /\ markers' = markers \ {primer[p].tick.claim}
  /\ UNCHANGED <<window, stored, enabled, spent>>

\* The request opens a window, or fails; the marker stays: this reset counts
\* as attempted.
SendPrime(p) ==
  /\ PrimerAt(p, "fire")
  /\ Rest(p)
  /\ spent' = spent + 1
  /\ \E open \in {TRUE, window.open} : window' = [window EXCEPT !.open = open]
  /\ UNCHANGED <<stored, markers, enabled>>

\* No request is sent: no credential, or the process sees priming turned off.
PrimeFails(p) ==
  /\ PrimerAt(p, "fire") /\ Failing
  /\ Rest(p)
  /\ UNCHANGED <<stored, markers, enabled, spent>>

---------------------------------------------------------------------------
(* Around the ticks.                                                       *)

\* A quota poll of any process is stored.
StoreQuota ==
  /\ stored' = Report
  /\ UNCHANGED <<window, markers, enabled, primer, spent>>

OtherRequest ==
  /\ ~window.open
  /\ window' = [window EXCEPT !.open = TRUE]
  /\ UNCHANGED <<stored, markers, enabled, primer, spent>>

WindowEnds ==
  /\ window.open /\ window.ended < MaxResets /\ Quiet
  /\ window' = [window EXCEPT !.open = FALSE, !.ended = @ + 1]
  /\ spent' = 0
  /\ UNCHANGED <<stored, markers, enabled, primer>>

\* A marker six hours old goes: a later window's, or an attempt that opened none.
SweepMarker(reset) ==
  /\ reset \in markers /\ Quiet
  /\ reset < window.ended \/ ~window.open
  /\ markers' = markers \ {reset}
  /\ spent' = 0
  /\ UNCHANGED <<window, stored, enabled, primer>>

\* The command turns priming off or on, and this process's manager with it.
Toggle(p) ==
  /\ primer[p].up
  /\ enabled' = ~enabled
  /\ primer' = [primer EXCEPT ![p].stopped = enabled, ![p].off = enabled]
  /\ UNCHANGED <<window, stored, markers, spent>>

\* The host loads the plugin again: the new instance adopts the manager.
Reload(p) ==
  /\ primer[p].up /\ primer[p].lease < MaxLoads[p]
  /\ primer' = [primer EXCEPT ![p].lease = @ + 1, ![p].old = @ \cup {primer[p].lease},
                              ![p].stopped = @ /\ ~enabled, ![p].off = @ /\ ~enabled]
  /\ UNCHANGED <<window, stored, markers, enabled, spent>>

\* Mutant: whoever is disposed of releases the slot.
LastOfSlotAny(p, instance) == TRUE

LastOfSlot(p, instance) == instance = primer[p].lease

\* An instance is disposed of; the slot's last one stops the manager.
DisposePrimer(p, instance) ==
  /\ primer[p].up /\ instance \in primer[p].old
  /\ primer' = [primer EXCEPT ![p].old = @ \ {instance},
                              ![p].stopped = @ \/ LastOfSlot(p, instance)]
  /\ UNCHANGED <<window, stored, markers, enabled, spent>>

PrimerCrash(p) ==
  /\ primer[p].up /\ primer[p].tick.at # "idle" /\ primer[p].lease < MaxLoads[p]
  /\ primer' = [primer EXCEPT ![p] = [NewPrimer EXCEPT !.up = FALSE, !.lease = primer[p].lease + 1]]
  /\ UNCHANGED <<window, stored, markers, enabled, spent>>

PrimerStarts(p) ==
  /\ ~primer[p].up
  /\ primer' = [primer EXCEPT ![p].up = TRUE, ![p].stopped = ~enabled, ![p].off = ~enabled]
  /\ UNCHANGED <<window, stored, markers, enabled, spent>>

---------------------------------------------------------------------------

TickStep(p) ==
  Tick(p) \/ LookForMarker(p) \/ Refrain(p) \/ PollQuota(p) \/ Claim(p) \/ CheckClaim(p)
    \/ Withdraw(p) \/ SendPrime(p) \/ PrimeFails(p)

PrimeNext ==
  \/ \E p \in Primers :
       \/ TickStep(p) \/ Toggle(p) \/ Reload(p) \/ PrimerCrash(p) \/ PrimerStarts(p)
       \/ \E instance \in primer[p].old : DisposePrimer(p, instance)
  \/ StoreQuota \/ OtherRequest \/ WindowEnds
  \/ \E reset \in markers : SweepMarker(reset)

PrimeSpec == PrimeInit /\ [][PrimeNext]_primeVars

\* A live manager ticks every minute, and every tick sweeps.
PrimeFairness ==
  /\ \A p \in Primers : WF_primeVars(TickStep(p))
  /\ \A reset \in 0 .. MaxResets : WF_primeVars(SweepMarker(reset))

PrimeFairSpec == PrimeSpec /\ PrimeFairness

---------------------------------------------------------------------------
(* Properties.                                                             *)

\* No window is asked for twice: whichever processes tick at the same time,
\* crash, are turned off or reloaded between claim and request.  The provider
\* has to report the last reset between windows: where it reports none, a
\* process that reads the account's quota between another's poll and claim
\* claims the bootstrap's marker next to the reset's, and both send.
OnePrimeAReset == window.recalls => spent <= 1

\* A window that ended is asked for again, as long as priming is on and some
\* process lives that did not turn it off itself: claims of dead processes
\* are swept, and a disposed instance takes no successor's manager with it.
PrimedEventually ==
  ~window.open ~>
    window.open \/ spent > 0 \/ ~enabled \/ \A p \in Primers : ~primer[p].up \/ primer[p].off
=============================================================================
