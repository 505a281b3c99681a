----------------------------- MODULE PiCacheKeep -----------------------------
(***************************************************************************)
(* How Pi processes keep one session's prompt cache warm across restarts.  *)
(*                                                                         *)
(* A process that opens the session, or has a response of it accepted,     *)
(* claims it in a file; the owner restores the saved replay body, keeps    *)
(* the latest one in memory and writes it behind, and drains and releases  *)
(* on shutdown.  Every process also sweeps records that expired, whoever   *)
(* they belong to, and borrows the claim for as long as it looks at one.   *)
(* Claims last as long as their process: a dead process's claim is free.   *)
(*                                                                         *)
(* A body is a number, later ones are later acceptances; the first `stale` *)
(* of them are past their cache lifetime.  Other sessions of a process     *)
(* show only in that it sweeps.                                            *)
(***************************************************************************)
EXTENDS Naturals, Sequences

CONSTANTS
  Procs,    \* Pi processes
  Nobody,   \* the holder of a free claim
  Gone,     \* the holder of a claim whose process died
  Faults,   \* what may go wrong: "crash", "io", "lock"
  MaxBodies \* the bound of a run: bodies accepted in all

ASSUME PiAssumption ==
  /\ Nobody \notin Procs /\ Gone \notin Procs /\ Nobody # Gone
  /\ MaxBodies \in Nat

VARIABLES
  claim,   \* the claim file: who holds it, and for what
  saved,   \* the body in the session's record, 0 without one
  made,    \* how many bodies the provider has accepted
  stale,   \* how many of them have expired
  pi,      \* each process
  owed     \* the body the record will hold once its owner is done, 0 for none

vars == <<claim, saved, made, stale, pi, owed>>

Loads == {"restore", "sweep"}
NoLoad == [at |-> "idle", own |-> FALSE, body |-> 0]
FreeClaim == [by |-> Nobody, purpose |-> "none"]
ClaimOf(p, purpose) == [by |-> p, purpose |-> purpose]

\* start is startSession's progress; claiming and owns are the claims map
\* and the sessions map; queue is the store's chain, pending what a timer
\* will put there.
Fresh == [up |-> TRUE, stopping |-> FALSE, stop |-> "no", start |-> "none",
          claiming |-> FALSE, owns |-> FALSE, accepted |-> 0,
          load |-> [k \in Loads |-> NoLoad],
          target |-> 0, pending |-> 0, queue |-> <<>>, disabled |-> FALSE]

Init ==
  /\ claim = FreeClaim
  /\ saved = 0 /\ made = 0 /\ stale = 0 /\ owed = 0
  /\ pi = [p \in Procs |-> [Fresh EXCEPT !.up = FALSE]]

---------------------------------------------------------------------------
(* The claim file.                                                         *)

\* Mutant: a dead process's claim is not told from a live one's.
ClaimableUnheld == claim.by = Nobody

Claimable == claim.by \in {Nobody, Gone}
Swept == ~Claimable /\ claim.purpose = "sweep"

\* The claim's lock could not be taken in time.
LockFails == "lock" \in Faults

---------------------------------------------------------------------------
(* The store.                                                              *)

\* Mutant: the write waiting for its timer is not asked for.
DrainedQueueOnly(me) == me.queue = <<>>

Drained(me) == me.pending = 0 /\ me.queue = <<>>

\* The target's new body is to be written, unless the store gave up.
Changed(me, body) ==
  [me EXCEPT !.target = body, !.pending = IF me.disabled THEN @ ELSE body]
Owed(me, body) == IF me.disabled THEN owed ELSE body

Removed(me) == [me EXCEPT !.pending = 0, !.queue = Append(@, 0)]

\* The store gives up: nothing of it is written any more.
GivesUp(me) == [me EXCEPT !.disabled = TRUE, !.pending = 0, !.queue = <<>>]

\* What is on disk is all a successor of p can be given.
Settled(p) == IF claim = ClaimOf(p, "session") THEN saved ELSE owed

Flush(p) ==
  /\ pi[p].up /\ pi[p].pending # 0
  /\ pi' = [pi EXCEPT ![p].queue = Append(@, pi[p].pending), ![p].pending = 0]
  /\ UNCHANGED <<claim, saved, made, stale, owed>>

Write(p) ==
  /\ pi[p].up /\ pi[p].queue # <<>>
  /\ saved' = Head(pi[p].queue)
  /\ pi' = [pi EXCEPT ![p].queue = Tail(@)]
  /\ UNCHANGED <<claim, made, stale, owed>>

WriteFails(p) ==
  /\ "io" \in Faults
  /\ pi[p].up /\ pi[p].queue # <<>>
  /\ pi' = [pi EXCEPT ![p] = GivesUp(@)]
  /\ owed' = Settled(p)
  /\ UNCHANGED <<claim, saved, made, stale>>

---------------------------------------------------------------------------
(* Opening the session and claiming it.                                    *)

Boot(p) ==
  /\ ~pi[p].up
  /\ pi' = [pi EXCEPT ![p] = Fresh]
  /\ UNCHANGED <<claim, saved, made, stale, owed>>

\* A session or a turn starts.  The host waits for a shutdown to end first.
Open(p) ==
  /\ pi[p].up /\ pi[p].stop = "no" /\ pi[p].start = "none"
  /\ pi' = [pi EXCEPT ![p].stopping = FALSE,
                      ![p].start = IF pi[p].owns THEN "owner" ELSE "claim",
                      ![p].claiming = ~pi[p].owns]
  /\ UNCHANGED <<claim, saved, made, stale, owed>>

\* Tracks a body accepted earlier, unless it expired or its account changed.
Tracks(p, me, body) ==
  \/ /\ body > stale
     /\ pi' = [pi EXCEPT ![p] = Changed(me, body)]
     /\ owed' = Owed(me, body)
  \/ /\ pi' = [pi EXCEPT ![p] = me]
     /\ UNCHANGED owed

\* What waits for the claim goes on with it, an accepted body first.
Claims(p) ==
  /\ pi[p].claiming /\ Claimable
  /\ claim' = ClaimOf(p, "session")
  /\ LET me == [pi[p] EXCEPT !.claiming = FALSE, !.owns = TRUE, !.accepted = 0,
                             !.start = IF @ = "claim" THEN "owner" ELSE @]
     IN  Tracks(p, me, pi[p].accepted)
  /\ UNCHANGED <<saved, made, stale>>

\* Mutant: the session is entered though the claim was not had.
RefusedButEntered(me) ==
  [me EXCEPT !.claiming = FALSE, !.owns = TRUE, !.accepted = 0,
             !.start = IF @ = "claim" THEN "owner" ELSE @]

Refused(me) ==
  [me EXCEPT !.claiming = FALSE, !.accepted = 0,
             !.start = IF @ = "claim" THEN "other" ELSE @]

\* Another process keeps the session: this one does not warm it, and what
\* waited for the claim goes on without.
Yields(p) ==
  /\ pi[p].claiming /\ ~Claimable /\ ~Swept
  /\ pi' = [pi EXCEPT ![p] = Refused(@)]
  /\ UNCHANGED <<claim, saved, made, stale, owed>>

ClaimFails(p) ==
  /\ pi[p].claiming /\ LockFails
  /\ pi' = [pi EXCEPT ![p] = Refused(@)]
  /\ UNCHANGED <<claim, saved, made, stale, owed>>

---------------------------------------------------------------------------
(* A pass over the record: restoring it, or sweeping it away.              *)

Loading(p, k, at) == pi[p].up /\ pi[p].load[k].at = at

\* The pass comes to its next step, with the body it has read.
PassAt(me, k, at, own, body) ==
  [me EXCEPT !.load = [@ EXCEPT ![k] = [at |-> at, own |-> own, body |-> body]]]

LoadAt(p, k, at, body) ==
  pi' = [pi EXCEPT ![p] = PassAt(@, k, at, @.load[k].own, body)]

Loaded(me, k) ==
  [me EXCEPT !.load = [@ EXCEPT ![k] = NoLoad],
             !.start = IF k # "restore" THEN @ ELSE IF @ = "owner" THEN "done" ELSE "none"]

Begins(p, k) ==
  IF k = "restore" THEN pi[p].start \in {"owner", "other"} ELSE ~pi[p].stopping

\* Queued writes come first; then the record is looked for.
Look(p, k) ==
  /\ Loading(p, k, "idle") /\ Begins(p, k)
  /\ pi[p].queue = <<>>
  /\ IF pi[p].disabled \/ saved = 0
     THEN pi' = [pi EXCEPT ![p] = Loaded(@, k)]
     ELSE LoadAt(p, k, "access", 0)
  /\ UNCHANGED <<claim, saved, made, stale, owed>>

\* An owner may read its record until it has a target; a sweep that is part
\* of another session's restore (initial) may, too.  Anyone else borrows the
\* claim or leaves the record alone.
Access(p, k) ==
  /\ Loading(p, k, "access")
  /\ \E initial \in BOOLEAN :
       LET mine == pi[p].owns /\ pi[p].target = 0 /\ (k = "restore" \/ initial)
           borrows == ~pi[p].owns /\ Claimable IN
       /\ claim' = IF borrows THEN ClaimOf(p, "sweep") ELSE claim
       /\ IF mine \/ borrows
          THEN pi' = [pi EXCEPT ![p] = PassAt(@, k, "read", mine, 0)]
          ELSE pi' = [pi EXCEPT ![p] = Loaded(@, k)]
  /\ UNCHANGED <<saved, made, stale, owed>>

\* A lock that times out, here or when the claim is given back, ends the pass
\* and the use of the store.
AccessFails(p, k) ==
  /\ Loading(p, k, "access") /\ ~pi[p].owns /\ LockFails
  /\ pi' = [pi EXCEPT ![p] = Loaded(GivesUp(@), k)]
  /\ UNCHANGED <<claim, saved, made, stale, owed>>

Read(p, k) ==
  /\ Loading(p, k, "read")
  /\ LoadAt(p, k, IF saved = 0 THEN "release" ELSE "judge", saved)
  /\ UNCHANGED <<claim, saved, made, stale, owed>>

\* Only the owner's own restore adopts a record, and not one it has a target
\* for by now.
Restores(p, k) ==
  k = "restore" /\ pi[p].start = "owner" /\ ~pi[p].stopping /\ pi[p].target = 0

\* An expired record goes, and one the owner's account or policy rejects.
Drop(p, k) ==
  /\ Loading(p, k, "judge")
  /\ pi[p].load[k].body <= stale \/ Restores(p, k)
  /\ saved' = 0
  /\ LoadAt(p, k, "release", 0)
  /\ UNCHANGED <<claim, made, stale, owed>>

Leave(p, k) ==
  /\ Loading(p, k, "judge")
  /\ pi[p].load[k].body > stale /\ ~Restores(p, k)
  /\ LoadAt(p, k, "release", 0)
  /\ UNCHANGED <<claim, saved, made, stale, owed>>

Restore(p) ==
  /\ Loading(p, "restore", "judge")
  /\ Restores(p, "restore")
  /\ LET me == pi[p]
         found == me.load["restore"] IN
     /\ found.body > stale
     /\ pi' = [pi EXCEPT ![p] =
                 PassAt(Changed(me, found.body), "restore", "release", found.own, 0)]
     /\ owed' = Owed(me, found.body)
  /\ UNCHANGED <<claim, saved, made, stale>>

GiveBack(p, own) == ~own /\ claim = ClaimOf(p, "sweep")

Release(p, k) ==
  /\ Loading(p, k, "release")
  /\ claim' = IF GiveBack(p, pi[p].load[k].own) THEN FreeClaim ELSE claim
  /\ pi' = [pi EXCEPT ![p] = Loaded(@, k)]
  /\ UNCHANGED <<saved, made, stale, owed>>

ReleaseFails(p, k) ==
  /\ Loading(p, k, "release") /\ ~pi[p].load[k].own /\ LockFails
  /\ pi' = [pi EXCEPT ![p] = Loaded(GivesUp(@), k)]
  /\ UNCHANGED <<claim, saved, made, stale, owed>>

---------------------------------------------------------------------------
(* Keeping the session warm.                                               *)

\* A response of the session was accepted; without the claim it waits for it.
Accept(p) ==
  /\ pi[p].up /\ ~pi[p].stopping
  /\ made < MaxBodies
  /\ made' = made + 1
  /\ IF pi[p].owns
     THEN Tracks(p, pi[p], made + 1)
     ELSE /\ pi' = [pi EXCEPT ![p].accepted = made + 1, ![p].claiming = TRUE]
          /\ UNCHANGED owed
  /\ UNCHANGED <<claim, saved, stale>>

\* The manager's tick, which a shutdown waits for.
Ticking(p) == pi[p].up /\ pi[p].target # 0 /\ pi[p].stop \in {"no", "waiting"}

\* A replay was accepted: the same body with a later expiry.
Warm(p) ==
  /\ Ticking(p) /\ pi[p].target > stale /\ made < MaxBodies
  /\ made' = made + 1
  /\ pi' = [pi EXCEPT ![p] = Changed(@, made + 1)]
  /\ owed' = Owed(pi[p], made + 1)
  /\ UNCHANGED <<claim, saved, stale>>

\* Warming ends: the cache expired, a refusal, the schedule, the limits.  The
\* record goes with it, unless the process is shutting down.
EndWarming(p) ==
  /\ Ticking(p)
  /\ LET me == [pi[p] EXCEPT !.target = 0] IN
     IF pi[p].stopping
     THEN pi' = [pi EXCEPT ![p] = me] /\ UNCHANGED owed
     ELSE /\ pi' = [pi EXCEPT ![p] = IF me.disabled THEN me ELSE Removed(me)]
          /\ owed' = Owed(me, 0)
  /\ UNCHANGED <<claim, saved, made, stale>>

Expire ==
  /\ stale < made
  /\ stale' \in (stale + 1)..made
  /\ UNCHANGED <<claim, saved, made, pi, owed>>

---------------------------------------------------------------------------
(* Shutdown.                                                               *)

Stop(p) ==
  /\ pi[p].up /\ ~pi[p].stopping
  /\ pi' = [pi EXCEPT ![p].stopping = TRUE, ![p].stop = "waiting"]
  /\ UNCHANGED <<claim, saved, made, stale, owed>>

\* Starts, claims, tracking, a running tick and a running sweep end first.
StopDrains(p) ==
  /\ pi[p].up /\ pi[p].stop = "waiting"
  /\ pi[p].start \in {"none", "done"} /\ ~pi[p].claiming
  /\ \A k \in Loads : pi[p].load[k].at = "idle"
  /\ pi' = [pi EXCEPT ![p].stop = "draining"]
  /\ UNCHANGED <<claim, saved, made, stale, owed>>

\* Nothing is warmed any more, then the claim goes and everything is
\* forgotten; the process may open the session again.
StopReleases(p) ==
  /\ pi[p].up /\ pi[p].stop = "draining" /\ Drained(pi[p])
  /\ claim' = IF claim = ClaimOf(p, "session") THEN FreeClaim ELSE claim
  /\ pi' = [pi EXCEPT ![p] = [Fresh EXCEPT !.stopping = TRUE]]
  /\ UNCHANGED <<saved, made, stale, owed>>

\* The claim stays with the process, which forgets nothing and never opens
\* the session again: startSession finds the start that is done.
StopFails(p) ==
  /\ pi[p].up /\ pi[p].stop = "draining" /\ Drained(pi[p])
  /\ pi[p].owns /\ LockFails
  /\ pi' = [pi EXCEPT ![p].target = 0, ![p].stop = "no"]
  /\ UNCHANGED <<claim, saved, made, stale, owed>>

Crash(p) ==
  /\ "crash" \in Faults /\ pi[p].up
  /\ pi' = [pi EXCEPT ![p] = [Fresh EXCEPT !.up = FALSE]]
  /\ claim' = IF claim.by = p THEN [claim EXCEPT !.by = Gone] ELSE claim
  /\ owed' = Settled(p)
  /\ UNCHANGED <<saved, made, stale>>

---------------------------------------------------------------------------

LoadStep(p, k) ==
  Look(p, k) \/ Access(p, k) \/ AccessFails(p, k) \/ Read(p, k) \/ Drop(p, k) \/ Leave(p, k)
    \/ Release(p, k) \/ ReleaseFails(p, k)

StopStep(p) == StopDrains(p) \/ StopReleases(p) \/ StopFails(p)

Next ==
  \/ \E p \in Procs :
       \/ Boot(p) \/ Open(p) \/ Claims(p) \/ Yields(p) \/ ClaimFails(p)
       \/ \E k \in Loads : LoadStep(p, k)
       \/ Restore(p) \/ Accept(p) \/ Warm(p) \/ EndWarming(p)
       \/ Flush(p) \/ Write(p) \/ WriteFails(p) \/ Stop(p) \/ StopStep(p) \/ Crash(p)
  \/ Expire

Spec == Init /\ [][Next]_vars

\* A live process goes on with its tasks.  A claim attempt looks every 25 ms
\* and a sweep that holds the claim reads one record a minute, so an attempt
\* finds the claim free between two sweeps.
Task(p) == LoadStep(p, "restore") \/ Restore(p) \/ Flush(p) \/ Write(p) \/ StopStep(p)
SweepTask(p) == pi[p].load["sweep"].at # "idle" /\ LoadStep(p, "sweep")

FairSpec ==
  /\ Spec
  /\ \A p \in Procs :
       SF_vars(Claims(p) \/ Yields(p)) /\ WF_vars(Task(p)) /\ WF_vars(SweepTask(p))

---------------------------------------------------------------------------
(* Properties.                                                             *)

Purposes == {"none", "session", "sweep"}
Load == [at : {"idle", "access", "read", "judge", "release"}, own : BOOLEAN, body : Nat]
PiState ==
  [up : BOOLEAN, stopping : BOOLEAN, stop : {"no", "waiting", "draining"},
   start : {"none", "claim", "owner", "other", "done"}, claiming : BOOLEAN, owns : BOOLEAN,
   accepted : Nat, load : [Loads -> Load],
   target : Nat, pending : Nat, queue : Seq(Nat), disabled : BOOLEAN]

\* Every variable keeps its type.
TypeOK ==
  /\ claim \in [by : Procs \cup {Nobody, Gone}, purpose : Purposes]
  /\ saved \in Nat /\ made \in Nat /\ stale \in Nat /\ owed \in Nat
  /\ pi \in [Procs -> PiState]

\* Two live processes never keep the same session warm, whatever claims,
\* sweeps and shutdowns overlap; its keeper holds the claim.
OneKeeper ==
  \A p, q \in Procs :
    pi[p].target # 0 => /\ claim = ClaimOf(p, "session")
                        /\ pi[q].target # 0 => q = p

\* Whoever claims the session next finds the last body its keeper tracked or
\* no record, never an older body and none after warming was stopped: drains
\* come before releases, and a removal is not overtaken by a write that
\* waited.  After a crash, or once a store gave up, the last one written counts.
SuccessorFindsTheLatest == Claimable => saved \in {0, owed}

\* A process that holds the claim for a sweep is looking at the record.
Borrowed(me, k) == me.load[k].at \in {"read", "judge", "release"} /\ ~me.load[k].own
Sweeping(p) == \E k \in Loads : Borrowed(pi[p], k)

\* Sweeps borrow the claim only while reading one record, as the comment in
\* PiCacheKeepClaim.acquire says.  This does not hold of the code: a sweep
\* whose release times out on the claim's lock keeps the claim (ReleaseFails).
SweepsAreBrief == \A p \in Procs : claim = ClaimOf(p, "sweep") => Sweeping(p)

\* A shutdown ends: every start, claim, pass over the record, accepted body
\* and write it waits for does, unless a sweep left its claim behind.
ShutdownEnds ==
  \A p \in Procs : pi[p].stop # "no" ~> pi[p].stop = "no" \/ ~SweepsAreBrief
=============================================================================
