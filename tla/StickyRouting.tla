---------------------------- MODULE StickyRouting ----------------------------
(***************************************************************************)
(* The registry that pins a session to an account.                         *)
(*                                                                         *)
(* A router decides from its memory and publishes afterwards: a decision   *)
(* replaces the session's pending change and queues it; each publication   *)
(* waits for the file's lease, reads the file again and merges its own     *)
(* session.  Pins an earlier version left behind are imported by the same  *)
(* queue.                                                                  *)
(*                                                                         *)
(* Each router here routes one session, named after it, whose accounts are *)
(* numbers; 0 is no pin.  The choice between accounts is free.             *)
(***************************************************************************)
EXTENDS Naturals, Sequences

CONSTANTS
  Routers,      \* processes that route, and their sessions
  RouteAccounts, \* accounts a session can be pinned to
  OldPins,      \* the earlier version's pins, by session
  MaxDecisions  \* the bound of a run: decisions of each router

ASSUME StickyAssumption ==
  /\ RouteAccounts \subseteq Nat \ {0}
  /\ OldPins \in [Routers -> RouteAccounts \cup {0}]
  /\ MaxDecisions \in [Routers -> Nat]

VARIABLES
  pins,    \* the file: [pin, seed]
  lease,   \* who holds the file's lease
  router,  \* each router
  allowed  \* by session, the pins its last decision allows once it is published

stickyVars == <<pins, lease, router, allowed>>

Pinned == RouteAccounts \cup {0}
Unheld == {}

\* change is the session's pending change, numbered by decision; stage is
\* where the head of the queue is; copy is the file as that task read it.
NoChange == [n |-> 0, op |-> "none", pin |-> 0, queued |-> FALSE]
Idle == [stage |-> "idle", copy |-> [s \in Routers |-> 0]]
NewRouter == [change |-> NoChange, made |-> 0, queue |-> <<>>, work |-> Idle, imported |-> FALSE]

\* With local accounts the earlier version's pins are copied whenever a
\* process starts; with the vault's, once, which the file remembers.
Seeds == {"none", "pending", "complete"}

\* A session without a pin may be given its old one by an import.
Kept(s) == {pins.pin[s]} \cup IF pins.pin[s] = 0 THEN {OldPins[s]} ELSE {}

StickyInit ==
  /\ \E seed \in Seeds : pins = [pin |-> [s \in Routers |-> 0], seed |-> seed]
  /\ lease = Unheld
  /\ router = [r \in Routers |-> NewRouter]
  /\ allowed = [s \in Routers |-> Kept(s)]

---------------------------------------------------------------------------
(* Decisions.                                                              *)

\* A request reads the file again if its modification time is another one;
\* a pending change shows over what it read.
Shown(r) == IF router[r].change = NoChange THEN pins.pin[r] ELSE router[r].change.pin

\* The queue holds the numbers of changes; 0 is the import.
Import == 0

\* A change enters the queue unless it is in it.
Retried(me) ==
  IF me.change = NoChange \/ me.change.queued THEN me
  ELSE [me EXCEPT !.change.queued = TRUE, !.queue = Append(@, me.change.n)]

\* The decision takes the place of a pending one.
Decided(me, op, pin) ==
  LET n == me.made + 1
  IN  Retried([me EXCEPT !.made = n,
                         !.change = [n |-> n, op |-> op, pin |-> pin, queued |-> FALSE]])

\* The import is queued ahead of the first decision; the vault's also later,
\* while it is pending and once its roster is complete.
Importing(me) == [me EXCEPT !.imported = TRUE, !.queue = Append(@, Import)]
Prepared(me) ==
  IF me.imported THEN {me}
  ELSE {Importing(me)} \cup IF pins.seed = "none" THEN {} ELSE {me}

ChangeJob(r) == Head(router[r].queue)
RouterAt(r, stage) == router[r].queue # <<>> /\ router[r].work.stage = stage

\* The change is still the session's latest, or the task an import.
Current(r) == ChangeJob(r) \in {Import, router[r].change.n}

CanDecide(r) == router[r].made < MaxDecisions[r]

\* A request finds its pin good and last seen an hour ago: it is seen again.
\* Where the change it replaces was not published yet, the file may keep
\* what it has or is given: a touch moves no pin.  A write under way when that
\* change was made is over: its lease lasts ten seconds.
Touch(r) ==
  /\ CanDecide(r) /\ Shown(r) # 0
  /\ RouterAt(r, "write") => Current(r)
  /\ \E me \in Prepared(router[r]) :
       router' = [router EXCEPT ![r] = Decided(me, "touch", Shown(r))]
  /\ allowed' = IF router[r].change = NoChange THEN allowed
                ELSE [allowed EXCEPT ![r] = @ \cup Kept(r)]
  /\ UNCHANGED <<pins, lease>>

\* A request finds its pin good and recent: a change that failed is tried again.
RetainPin(r) ==
  /\ CanDecide(r) /\ Shown(r) # 0
  /\ \E me \in Prepared(router[r]) : router' = [router EXCEPT ![r] = Retried(me)]
  /\ UNCHANGED <<pins, lease, allowed>>

\* A request is given an account.
Assign(r, account) ==
  /\ CanDecide(r)
  /\ \E me \in Prepared(router[r]) :
       router' = [router EXCEPT ![r] = Decided(me, "assign", account)]
  /\ allowed' = [allowed EXCEPT ![r] = {account}]
  /\ UNCHANGED <<pins, lease>>

\* No account is left for the session, or the user resets it.  Nothing in
\* the file tells a pin taken away from one that never was: an import may
\* bring the old one back.
Clear(r) ==
  /\ CanDecide(r)
  /\ \E me \in Prepared(router[r]) :
       router' = [router EXCEPT ![r] = Decided(me, "delete", 0)]
  /\ allowed' = [allowed EXCEPT ![r] = {0, OldPins[r]}]
  /\ UNCHANGED <<pins, lease>>

---------------------------------------------------------------------------
(* Publication.                                                            *)

\* The queue goes on; a change that stays pending may be queued again.  An
\* import of the vault's pins that failed is made again.
Finished(r) ==
  [router[r] EXCEPT !.queue = Tail(@), !.work = Idle,
                    !.change.queued = @ /\ ChangeJob(r) # router[r].change.n,
                    !.imported = @ /\ (ChangeJob(r) = Import => pins.seed # "pending")]

Freed(r) == IF lease = {r} THEN Unheld ELSE lease

Skip(r) ==
  /\ RouterAt(r, "idle") /\ ~Current(r)
  /\ router' = [router EXCEPT ![r] = Finished(r)]
  /\ UNCHANGED <<pins, lease, allowed>>

Lock(r) ==
  /\ RouterAt(r, "idle") /\ Current(r) /\ lease = Unheld
  /\ lease' = {r}
  /\ router' = [router EXCEPT ![r].work.stage = "read"]
  /\ UNCHANGED <<pins, allowed>>

\* The lease is not free in time, or lost, or the file cannot be written:
\* the change stays pending, without a place in the queue.
Fail(r) ==
  /\ RouterAt(r, "idle") \/ RouterAt(r, "write")
  /\ router' = [router EXCEPT ![r] = Finished(r)]
  /\ lease' = Freed(r)
  /\ UNCHANGED <<pins, allowed>>

ReadPins(r) ==
  /\ RouterAt(r, "read")
  /\ router' = [router EXCEPT ![r].work = [stage |-> "merge", copy |-> pins.pin]]
  /\ UNCHANGED <<pins, lease, allowed>>

\* The session's change, or every pin the file lacks.
Merged(r) ==
  LET copy == router[r].work.copy
  IN  IF ChangeJob(r) # Import THEN [copy EXCEPT ![r] = router[r].change.pin]
      ELSE [s \in Routers |-> IF copy[s] = 0 THEN OldPins[s] ELSE copy[s]]

\* A touch of a pin the file does not have.
Moot(r) ==
  /\ ChangeJob(r) # Import /\ router[r].change.op = "touch"
  /\ router[r].work.copy[r] # router[r].change.pin

\* An import with nothing to add, or made already.
Imported(r) ==
  /\ ChangeJob(r) = Import
  /\ \/ pins.seed = "complete"
     \/ pins.seed = "none" /\ Merged(r) = router[r].work.copy

\* The change was superseded while the file was read, or is moot.
GiveUp(r) ==
  /\ RouterAt(r, "merge") /\ (~Current(r) \/ Moot(r) \/ Imported(r))
  /\ router' = [router EXCEPT ![r] =
                  [Finished(r) EXCEPT !.change = IF Current(r) /\ Moot(r) THEN NoChange ELSE @]]
  /\ lease' = Freed(r)
  /\ UNCHANGED <<pins, allowed>>

\* A decision taken while the merge is being written comes too late for it.
Merge(r) ==
  /\ RouterAt(r, "merge") /\ Current(r) /\ ~Moot(r) /\ ~Imported(r)
  /\ router' = [router EXCEPT ![r].work = [stage |-> "write", copy |-> Merged(r)]]
  /\ UNCHANGED <<pins, lease, allowed>>

\* Written aside, owned, renamed; the next decision reads the file again.
WritePins(r) ==
  /\ RouterAt(r, "write") /\ lease = {r}
  /\ pins' = [pin |-> router[r].work.copy,
              seed |-> IF ChangeJob(r) = Import /\ pins.seed = "pending" THEN "complete" ELSE pins.seed]
  /\ router' = [router EXCEPT ![r].work.stage = "settle"]
  /\ UNCHANGED <<lease, allowed>>

\* Mutant: the pending change goes although a later one took its place.
PublishedAny(r) == ChangeJob(r) # Import

Published(r) == ChangeJob(r) # Import /\ Current(r)

SettleChange(r) ==
  /\ RouterAt(r, "settle")
  /\ router' = [router EXCEPT ![r] =
                  [Finished(r) EXCEPT !.change = IF Published(r) THEN NoChange ELSE @]]
  /\ lease' = Freed(r)
  /\ UNCHANGED <<pins, allowed>>

\* A router that stalls for the lease's ten seconds loses it.
LoseLease(r) ==
  /\ lease = {r} /\ router[r].work.stage # "settle"
  /\ lease' = Unheld
  /\ UNCHANGED <<pins, router, allowed>>

\* The process dies with what it did not publish; its lease expires.
RouterCrash(r) ==
  /\ router[r].queue # <<>>
  /\ router' = [router EXCEPT ![r] = [NewRouter EXCEPT !.made = router[r].made]]
  /\ lease' = Freed(r)
  /\ allowed' = [allowed EXCEPT ![r] = Kept(r)]
  /\ UNCHANGED pins

---------------------------------------------------------------------------

PublishDecision(r) ==
  Skip(r) \/ Lock(r) \/ Fail(r) \/ ReadPins(r) \/ GiveUp(r) \/ Merge(r) \/ WritePins(r) \/ SettleChange(r)

StickyNext ==
  \E r \in Routers :
    \/ Touch(r) \/ RetainPin(r) \/ Clear(r)
    \/ \E account \in RouteAccounts : Assign(r, account)
    \/ PublishDecision(r)
    \/ LoseLease(r) \/ RouterCrash(r)

StickySpec == StickyInit /\ [][StickyNext]_stickyVars

---------------------------------------------------------------------------
(* Properties.                                                             *)

StickyTypeOK ==
  /\ pins \in [pin : [Routers -> Pinned], seed : Seeds]
  /\ lease \in SUBSET Routers
  /\ \A r \in Routers : router[r].made \in 0 .. MaxDecisions[r]
  /\ allowed \in [Routers -> SUBSET Pinned]

\* Once a router has nothing pending for its session, the file holds the
\* session's last decision: whatever was superseded in the queue, failed,
\* lost its lease, was imported, or published by another router meanwhile.
LastDecisionIsPublished ==
  \A s \in Routers : router[s].change = NoChange => pins.pin[s] \in allowed[s]
=============================================================================
