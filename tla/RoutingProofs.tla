---------------------------- MODULE RoutingProofs ----------------------------
(***************************************************************************)
(* Proofs about where a request is sent, for every value of the constants: *)
(*   DecisionsArePublished  a session's last decision and the file of pins *)
(*   PaidWhenSpent          when an API key may be used                    *)
(*   BodiesForwarded        the bodies the relay's worker sends            *)
(*                                                                         *)
(* The first two come from one inductive invariant each: what a router's   *)
(* pending change and the task under way are to the file, and by whose     *)
(* name a reading of main's quota goes.  PaidWhenSpent is about accounts   *)
(* that never become main's a second time; a run shows what happens else.  *)
(***************************************************************************)
EXTENDS StickyRouting, PaidFallback, Relay, TLAPS

---------------------------------------------------------------------------
(* StickyRouting.                                                          *)

Ops == {"none", "touch", "assign", "delete"}
Flags == BOOLEAN
WorkStages == {"idle", "read", "merge", "write", "settle"}
PinMaps == [Routers -> Pinned]
Changes == [n : Nat, op : Ops, pin : Pinned, queued : Flags]
Works == [stage : WorkStages, copy : PinMaps]
RouterStates == [change : Changes, made : Nat, queue : Seq(Nat), work : Works, imported : Flags]

StickyTypes ==
  /\ pins \in [pin : PinMaps, seed : Seeds]
  /\ router \in [Routers -> RouterStates]
  /\ allowed \in [Routers -> SUBSET Pinned]

\* What the file may come to have for a session where it has this pin now.
KeptFrom(s, p) == {p} \cup IF p = 0 THEN {OldPins[s]} ELSE {}

\* No task is for a change that was not made; and no change is numbered 0.
Numbered(me) ==
  /\ me.change.n <= me.made
  /\ me.change.n = 0 => me.change = NoChange
  /\ \A i \in 1 .. Len(me.queue) : me.queue[i] <= me.made

\* What a router that holds the lease will write: another session's pin only
\* as the file has it or an import gives it.
Prepares(r) ==
  LET me == router[r]
  IN  IF Head(me.queue) = Import
      THEN \A s \in Routers : me.work.copy[s] = IF pins.pin[s] = 0 THEN OldPins[s] ELSE pins.pin[s]
      ELSE /\ \A s \in Routers \ {r} : me.work.copy[s] = pins.pin[s]
           /\ Head(me.queue) = me.change.n => me.work.copy[r] = me.change.pin

\* The publication under way, against the file and its lease.
Publishing(r) ==
  LET me == router[r]
  IN  /\ me.work.stage # "idle" => me.queue # <<>> /\ (Head(me.queue) # Import => me.change.n # 0)
      /\ lease = {r} => me.work.stage # "idle"
      /\ me.work.stage = "settle" => lease = {r}
      /\ lease = {r} /\ me.work.stage = "merge" => me.work.copy = pins.pin
      /\ lease = {r} /\ me.work.stage = "write" => Prepares(r)
      /\ me.work.stage = "settle" /\ Head(me.queue) # Import /\ Head(me.queue) = me.change.n =>
           pins.pin[r] = me.change.pin

\* What the last decision allows: the pin it chose; and where nothing is
\* pending, or a touch is, what the file has or is about to be given.
Allows(r) ==
  LET me == router[r]
  IN  /\ me.change.n # 0 => KeptFrom(r, me.change.pin) \subseteq allowed[r]
      /\ me.change.n = 0 \/ me.change.op = "touch" => KeptFrom(r, pins.pin[r]) \subseteq allowed[r]
      /\ me.change.op = "touch" /\ lease = {r} /\ me.work.stage = "write" =>
           KeptFrom(r, me.work.copy[r]) \subseteq allowed[r]

StickyInv ==
  /\ StickyTypes
  /\ \A r \in Routers : Numbered(router[r]) /\ Publishing(r) /\ Allows(r)

LEMMA FlagValues == TRUE \in Flags /\ FALSE \in Flags
BY DEF Flags

LEMMA StageValues ==
  /\ \A stage \in {"idle", "read", "merge", "write", "settle"} : stage \in WorkStages
  /\ \A op \in {"none", "touch", "assign", "delete"} : op \in Ops
BY DEF WorkStages, Ops

LEMMA PinsKnown ==
  /\ \A s \in Routers : OldPins[s] \in Pinned
  /\ 0 \in Pinned /\ Pinned \subseteq Nat /\ Import \in Nat /\ Import = 0
BY StickyAssumption DEF Pinned, Import

LEMMA Queued ==
  ASSUME NEW q \in Seq(Nat), NEW n \in Nat, NEW made \in Nat, n <= made,
         \A i \in 1 .. Len(q) : q[i] <= made
  PROVE  /\ Append(q, n) \in Seq(Nat) /\ Append(q, n) # <<>>
         /\ q # <<>> => Head(Append(q, n)) = Head(q)
         /\ \A i \in 1 .. Len(Append(q, n)) : Append(q, n)[i] <= made
OBVIOUS

LEMMA Unqueued ==
  ASSUME NEW q \in Seq(Nat), NEW made \in Nat, q # <<>>, \A i \in 1 .. Len(q) : q[i] <= made
  PROVE  /\ Head(q) \in Nat /\ Head(q) <= made
         /\ Tail(q) \in Seq(Nat)
         /\ \A i \in 1 .. Len(Tail(q)) : Tail(q)[i] <= made
<1>1. Len(q) > 0 /\ Head(q) = q[1] /\ Tail(q) \in Seq(Nat) /\ Len(Tail(q)) = Len(q) - 1
  OBVIOUS
<1>2. \A i \in 1 .. Len(Tail(q)) : Tail(q)[i] = q[i + 1] /\ i + 1 \in 1 .. Len(q)
  BY <1>1
<1> QED
  BY <1>1, <1>2

LEMMA OneRouter ==
  ASSUME StickyInv, NEW r \in Routers
  PROVE  /\ router[r] \in RouterStates /\ Numbered(router[r]) /\ Publishing(r) /\ Allows(r)
         /\ allowed[r] \in SUBSET Pinned
BY DEF StickyInv, StickyTypes

LEMMA NoChangeType == NoChange \in Changes /\ NoChange.n = 0 /\ NoChange.op = "none" /\ NoChange.pin = 0
BY FlagValues, StageValues, PinsKnown DEF NoChange, Changes

\* A change that enters the queue does so behind the task under way.
Follows(x, me) ==
  /\ x \in RouterStates /\ Numbered(x) /\ x.made = me.made /\ x.work = me.work
  /\ me.queue # <<>> => x.queue # <<>> /\ Head(x.queue) = Head(me.queue)

LEMMA RetriedFollows ==
  ASSUME NEW me \in RouterStates, Numbered(me)
  PROVE  /\ Follows(Retried(me), me)
         /\ Retried(me).change.n = me.change.n /\ Retried(me).change.op = me.change.op
         /\ Retried(me).change.pin = me.change.pin
<1> DEFINE yes == TRUE
           change == [me.change EXCEPT !.queued = yes]
           queue == Append(me.queue, me.change.n)
           x == [me EXCEPT !.change = change, !.queue = queue]
<1>1. yes \in Flags
  BY FlagValues
<1> HIDE DEF yes
<1>2. me.change \in Changes /\ me.queue \in Seq(Nat) /\ me.made \in Nat /\ me.change.n \in Nat
  BY DEF RouterStates, Changes
<1>3. change \in Changes /\ change.n = me.change.n /\ change.op = me.change.op /\ change.pin = me.change.pin
  BY <1>1, <1>2 DEF Changes
<1>4. /\ queue \in Seq(Nat) /\ queue # <<>> /\ (me.queue # <<>> => Head(queue) = Head(me.queue))
      /\ \A i \in 1 .. Len(queue) : queue[i] <= me.made
  BY <1>2, Queued DEF Numbered
<1> HIDE DEF change, queue
<1>5. x \in RouterStates /\ x.change = change /\ x.queue = queue /\ x.made = me.made /\ x.work = me.work
  BY <1>3, <1>4 DEF RouterStates
<1>6. CASE me.change = NoChange \/ me.change.queued
  <2>1. Retried(me) = me
    BY <1>6 DEF Retried
  <2> QED
    BY <2>1 DEF Follows
<1>7. CASE ~(me.change = NoChange \/ me.change.queued)
  <2>1. Retried(me) = x
    BY <1>2, <1>7 DEF Retried, yes, change, queue, RouterStates
  <2>2. me.change.n # 0
    BY <1>7 DEF Numbered
  <2> HIDE DEF x
  <2>3. Numbered(x)
    BY <1>3, <1>4, <1>5, <2>2 DEF Numbered
  <2> QED
    BY <1>3, <1>4, <1>5, <2>1, <2>3 DEF Follows
<1> QED
  BY <1>6, <1>7

LEMMA PreparedFollows ==
  ASSUME NEW me \in RouterStates, Numbered(me), NEW x \in Prepared(me)
  PROVE  Follows(x, me) /\ x.change = me.change
<1> DEFINE yes == TRUE
           queue == Append(me.queue, Import)
           z == [me EXCEPT !.imported = yes, !.queue = queue]
<1>1. yes \in Flags /\ Importing(me) = z
  BY FlagValues DEF Importing, RouterStates
<1> HIDE DEF yes
<1>2. me.queue \in Seq(Nat) /\ me.made \in Nat /\ Import \in Nat /\ Import <= me.made
  BY PinsKnown DEF RouterStates
<1>3. /\ queue \in Seq(Nat) /\ queue # <<>> /\ (me.queue # <<>> => Head(queue) = Head(me.queue))
      /\ \A i \in 1 .. Len(queue) : queue[i] <= me.made
  BY <1>2, Queued DEF Numbered
<1> HIDE DEF queue
<1>4. z \in RouterStates /\ z.change = me.change /\ z.queue = queue /\ z.made = me.made /\ z.work = me.work
  BY <1>1, <1>3 DEF RouterStates
<1> HIDE DEF z
<1>5. Numbered(z)
  BY <1>3, <1>4 DEF Numbered
<1>6. x = me \/ x = z
  BY <1>1 DEF Prepared
<1> QED
  BY <1>3, <1>4, <1>5, <1>6 DEF Follows

LEMMA DecidedType ==
  ASSUME NEW me \in RouterStates, Numbered(me), NEW op \in {"touch", "assign", "delete"}, NEW p \in Pinned
  PROVE  LET x == Decided(me, op, p)
         IN  /\ x \in RouterStates /\ Numbered(x) /\ x.work = me.work /\ x.made = me.made + 1
             /\ x.change.n = me.made + 1 /\ x.change.op = op /\ x.change.pin = p
             /\ me.queue # <<>> => x.queue # <<>> /\ Head(x.queue) = Head(me.queue)
<1> DEFINE no == FALSE
           n == me.made + 1
           change == [n |-> n, op |-> op, pin |-> p, queued |-> no]
           x == [me EXCEPT !.made = n, !.change = change]
<1>1. no \in Flags /\ Decided(me, op, p) = Retried(x)
  BY FlagValues DEF Decided
<1> HIDE DEF no
<1>2. me.made \in Nat /\ n \in Nat /\ op \in Ops
  BY StageValues DEF RouterStates
<1>3. change \in Changes /\ change.n = n /\ change.op = op /\ change.pin = p
  BY <1>1, <1>2 DEF Changes
<1> HIDE DEF change
<1>4. x \in RouterStates /\ x.made = n /\ x.change = change /\ x.queue = me.queue /\ x.work = me.work
  BY <1>2, <1>3 DEF RouterStates
<1> HIDE DEF x
<1>5. Numbered(x)
  <2>1. \A i \in 1 .. Len(me.queue) : me.queue[i] \in Nat
    BY DEF RouterStates
  <2> QED
    BY <1>2, <1>3, <1>4, <2>1 DEF Numbered
<1>6. Follows(Retried(x), x) /\ Retried(x).change.n = n /\ Retried(x).change.op = op /\ Retried(x).change.pin = p
  BY <1>3, <1>4, <1>5, RetriedFollows
<1> QED
  BY <1>1, <1>4, <1>6 DEF Follows

LEMMA FinishedType ==
  ASSUME StickyInv, NEW r \in Routers, router[r].queue # <<>>
  PROVE  /\ Finished(r) \in RouterStates /\ Numbered(Finished(r)) /\ Finished(r).work = Idle
         /\ Finished(r).change.n = router[r].change.n /\ Finished(r).change.op = router[r].change.op
         /\ Finished(r).change.pin = router[r].change.pin /\ Finished(r).made = router[r].made
<1> DEFINE me == router[r]
           still == me.change.queued /\ ChangeJob(r) # me.change.n
           again == me.imported /\ (ChangeJob(r) = Import => pins.seed # "pending")
           change == [me.change EXCEPT !.queued = still]
           queue == Tail(me.queue)
           x == [me EXCEPT !.queue = queue, !.work = Idle, !.change = change]
           y == [x EXCEPT !.imported = again]
<1>1. me \in RouterStates /\ Numbered(me)
  BY OneRouter
<1>2. still \in Flags /\ again \in Flags
  BY <1>1 DEF RouterStates, Changes, Flags
<1>3. me.change \in Changes /\ me.queue \in Seq(Nat) /\ me.made \in Nat
  BY <1>1 DEF RouterStates
<1>4. me.change = NoChange => still = FALSE
  BY DEF NoChange
<1>5. Finished(r) = y
  BY <1>1 DEF Finished, RouterStates, Changes
<1>6. me.change = NoChange => change = NoChange
  <2>1. ASSUME me.change = NoChange PROVE change = NoChange
    <3> DEFINE no == FALSE
    <3>1. still = no /\ me.change.queued = no
      BY <1>4, <2>1 DEF NoChange
    <3> HIDE DEF no, still
    <3>2. [me.change EXCEPT !.queued = still] = me.change
      BY <1>3, <3>1 DEF Changes
    <3> QED
      BY <2>1, <3>2
  <2> QED
    BY <2>1
<1> HIDE DEF still, again
<1>7. change \in Changes /\ change.n = me.change.n /\ change.op = me.change.op /\ change.pin = me.change.pin
  BY <1>2, <1>3 DEF Changes
<1>8. queue \in Seq(Nat) /\ \A i \in 1 .. Len(queue) : queue[i] <= me.made
  BY <1>1, <1>3, Unqueued DEF Numbered
<1>9. Idle \in Works
  BY PinsKnown, StageValues DEF Idle, Works, PinMaps
<1> HIDE DEF change, queue
<1>10. x \in RouterStates /\ x.queue = queue /\ x.work = Idle /\ x.change = change /\ x.made = me.made
  BY <1>1, <1>7, <1>8, <1>9 DEF RouterStates
<1> HIDE DEF x
<1>11. y \in RouterStates /\ y.queue = queue /\ y.work = Idle /\ y.change = change /\ y.made = me.made
  BY <1>2, <1>10 DEF RouterStates
<1> HIDE DEF y
<1>12. Numbered(y)
  BY <1>1, <1>6, <1>7, <1>8, <1>11 DEF Numbered
<1> QED
  BY <1>5, <1>7, <1>11, <1>12

\* What a step of one router leaves of another's.
LEMMA OthersStand ==
  ASSUME StickyInv, NEW s \in Routers, router'[s] = router[s], allowed'[s] = allowed[s],
         lease = {s} => lease' = {s} /\ pins' = pins, lease' = {s} => lease = {s},
         KeptFrom(s, pins'.pin[s]) \subseteq KeptFrom(s, pins.pin[s])
  PROVE  Numbered(router[s])' /\ Publishing(s)' /\ Allows(s)'
<1>1. Numbered(router[s]) /\ Publishing(s) /\ Allows(s)
  BY OneRouter
<1>2. Numbered(router[s])'
  BY <1>1 DEF Numbered
<1>3. Publishing(s)'
  BY <1>1 DEF Publishing, Prepares
<1>4. Allows(s)'
  BY <1>1 DEF Allows
<1> QED
  BY <1>2, <1>3, <1>4

LEMMA StepKeeps ==
  ASSUME StickyInv, NEW r \in Routers, NEW x \in RouterStates, NEW granted \in SUBSET Pinned,
         router' = [router EXCEPT ![r] = x], allowed' = [allowed EXCEPT ![r] = granted],
         pins' \in [pin : PinMaps, seed : Seeds],
         \A s \in Routers \ {r} :
           /\ lease = {s} => lease' = {s} /\ pins' = pins
           /\ lease' = {s} => lease = {s}
           /\ KeptFrom(s, pins'.pin[s]) \subseteq KeptFrom(s, pins.pin[s]),
         Numbered(x), Publishing(r)', Allows(r)'
  PROVE  StickyInv'
<1>1. router \in [Routers -> RouterStates] /\ allowed \in [Routers -> SUBSET Pinned]
  BY DEF StickyInv, StickyTypes
<1>2. StickyTypes'
  BY <1>1 DEF StickyTypes
<1>3. ASSUME NEW s \in Routers PROVE Numbered(router[s])' /\ Publishing(s)' /\ Allows(s)'
  <2>1. CASE s = r
    <3>1. router'[r] = x
      BY <1>1
    <3> QED
      BY <2>1, <3>1 DEF Numbered
  <2>2. CASE s # r
    <3>1. router'[s] = router[s] /\ allowed'[s] = allowed[s]
      BY <1>1, <2>2
    <3> QED
      BY <2>2, <3>1, OthersStand
  <2> QED
    BY <2>1, <2>2
<1> QED
  BY <1>2, <1>3 DEF StickyInv

---------------------------------------------------------------------------
(* Decisions.                                                              *)

\* The task under way goes on after a decision; it is not for the new change.
LEMMA DecisionKeeps ==
  ASSUME StickyInv, NEW r \in Routers, NEW x \in RouterStates, NEW granted \in SUBSET Pinned,
         router' = [router EXCEPT ![r] = x], allowed' = [allowed EXCEPT ![r] = granted],
         UNCHANGED <<pins, lease>>, Numbered(x), x.work = router[r].work,
         router[r].queue # <<>> => x.queue # <<>> /\ Head(x.queue) = Head(router[r].queue),
         \/ x.change.n = router[r].change.n /\ x.change.pin = router[r].change.pin
         \/ x.change.n = router[r].made + 1,
         Allows(r)'
  PROVE  StickyInv'
<1> DEFINE me == router[r]
<1>1. me \in RouterStates /\ Numbered(me) /\ Publishing(r)
  BY OneRouter
<1>2. router'[r] = x /\ pins' \in [pin : PinMaps, seed : Seeds]
  BY DEF StickyInv, StickyTypes
<1>3. me.queue # <<>> => Head(me.queue) \in Nat /\ Head(me.queue) <= me.made
  BY <1>1, Unqueued DEF RouterStates, Numbered
<1>4. me.made \in Nat
  BY <1>1 DEF RouterStates
<1>5. me.queue # <<>> /\ Head(x.queue) = x.change.n =>
        Head(me.queue) = me.change.n /\ x.change.pin = me.change.pin
  BY <1>3, <1>4
<1>6. me.work.stage # "idle" =>
        /\ me.queue # <<>> /\ x.queue # <<>> /\ Head(x.queue) = Head(me.queue)
        /\ Head(x.queue) # Import => x.change.n # 0
  BY <1>1, <1>4 DEF Publishing
<1>7. lease = {r} /\ x.work.stage = "write" => Prepares(r)'
  <2>1. SUFFICES ASSUME lease = {r}, x.work.stage = "write" PROVE Prepares(r)'
    OBVIOUS
  <2>2. Prepares(r) /\ me.queue # <<>> /\ Head(x.queue) = Head(me.queue)
    BY <1>1, <1>6, <2>1 DEF Publishing
  <2> QED
    BY <1>2, <1>5, <2>2 DEF Prepares
<1>8. Publishing(r)'
  BY <1>1, <1>2, <1>5, <1>6, <1>7 DEF Publishing
<1> QED
  BY <1>2, <1>8, StepKeeps

LEMMA TouchKeeps ==
  ASSUME StickyInv, NEW r \in Routers, Touch(r)
  PROVE  StickyInv'
<1> DEFINE me == router[r]
           p == Shown(r)
           kept == KeptFrom(r, pins.pin[r])
           granted == IF me.change = NoChange THEN allowed[r] ELSE allowed[r] \cup kept
<1>1. PICK z \in Prepared(me) : router' = [router EXCEPT ![r] = Decided(z, "touch", p)]
  BY DEF Touch
<1> DEFINE x == Decided(z, "touch", p)
<1>2. me \in RouterStates /\ Numbered(me) /\ Publishing(r) /\ Allows(r) /\ allowed[r] \in SUBSET Pinned
  BY OneRouter
<1>3. pins.pin[r] \in Pinned /\ me.change.pin \in Pinned /\ p \in Pinned /\ p # 0
  BY <1>2 DEF Touch, Shown, StickyInv, StickyTypes, RouterStates, Changes, PinMaps
<1>4. Follows(z, me) /\ z.change = me.change
  BY <1>2, PreparedFollows
<1>5. /\ x \in RouterStates /\ Numbered(x) /\ x.work = me.work /\ x.change.n = me.made + 1
      /\ x.change.op = "touch" /\ x.change.pin = p
      /\ me.queue # <<>> => x.queue # <<>> /\ Head(x.queue) = Head(me.queue)
  <2> HIDE DEF p
  <2>1. z \in RouterStates /\ Numbered(z) /\ z.made = me.made /\ z.work = me.work
        /\ (me.queue # <<>> => z.queue # <<>> /\ Head(z.queue) = Head(me.queue))
    BY <1>4 DEF Follows
  <2>2. /\ x \in RouterStates /\ Numbered(x) /\ x.work = z.work /\ x.change.n = z.made + 1
        /\ x.change.op = "touch" /\ x.change.pin = p
        /\ z.queue # <<>> => x.queue # <<>> /\ Head(x.queue) = Head(z.queue)
    BY <1>3, <2>1, DecidedType
  <2> HIDE DEF x
  <2> QED
    BY <2>1, <2>2
<1> HIDE DEF x
<1>6. kept \in SUBSET Pinned /\ granted \in SUBSET Pinned
  BY <1>2, <1>3, PinsKnown DEF KeptFrom
<1>7. allowed' = [allowed EXCEPT ![r] = granted] /\ UNCHANGED <<pins, lease>>
  <2>1. Kept(r) = kept
    BY DEF Kept, KeptFrom
  <2>2. allowed = [allowed EXCEPT ![r] = allowed[r]]
    BY DEF StickyInv, StickyTypes
  <2> QED
    BY <2>1, <2>2 DEF Touch
<1>8. allowed[r] \subseteq granted /\ kept \subseteq granted
  BY <1>2, NoChangeType DEF Allows
<1>9. KeptFrom(r, p) \subseteq granted
  <2>1. CASE me.change = NoChange
    BY <1>8, <2>1 DEF Shown
  <2>2. CASE me.change # NoChange
    <3>1. p = me.change.pin /\ me.change.n # 0
      BY <1>2, <2>2 DEF Shown, Numbered
    <3> QED
      BY <1>2, <1>8, <3>1 DEF Allows
  <2> QED
    BY <2>1, <2>2
<1>10. me.work.stage = "write" /\ lease = {r} => KeptFrom(r, me.work.copy[r]) \subseteq granted
  <2>1. SUFFICES ASSUME me.work.stage = "write", lease = {r}
                 PROVE  KeptFrom(r, me.work.copy[r]) \subseteq granted
    OBVIOUS
  <2>2. me.queue # <<>> /\ Prepares(r) /\ (Head(me.queue) # Import => me.change.n # 0)
    BY <1>2, <2>1 DEF Publishing
  <2>3. Head(me.queue) \in {Import, me.change.n}
    BY <2>1, <2>2 DEF Touch, RouterAt, Current, ChangeJob
  <2>4. CASE Head(me.queue) = Import
    <3>1. me.work.copy[r] = IF pins.pin[r] = 0 THEN OldPins[r] ELSE pins.pin[r]
      BY <2>2, <2>4 DEF Prepares
    <3> QED
      BY <1>8, <3>1 DEF KeptFrom
  <2>5. CASE Head(me.queue) # Import
    <3>1. me.work.copy[r] = me.change.pin /\ me.change.n # 0
      BY <2>2, <2>3, <2>5 DEF Prepares
    <3> QED
      BY <1>2, <1>8, <3>1 DEF Allows
  <2> QED
    BY <2>4, <2>5
<1>11. router'[r] = x /\ allowed'[r] = granted /\ pins' = pins /\ lease' = lease
  BY <1>1, <1>7 DEF StickyInv, StickyTypes, x
<1> HIDE DEF granted, p
<1>12. Allows(r)'
  BY <1>5, <1>8, <1>9, <1>10, <1>11 DEF Allows
<1> QED
  BY <1>1, <1>5, <1>6, <1>7, <1>12, DecisionKeeps DEF x

LEMMA RetainPinKeeps ==
  ASSUME StickyInv, NEW r \in Routers, RetainPin(r)
  PROVE  StickyInv'
<1> DEFINE me == router[r]
<1>1. PICK z \in Prepared(me) : router' = [router EXCEPT ![r] = Retried(z)]
  BY DEF RetainPin
<1> DEFINE x == Retried(z)
<1>2. me \in RouterStates /\ Numbered(me) /\ Allows(r) /\ allowed[r] \in SUBSET Pinned
  BY OneRouter
<1>3. Follows(z, me) /\ z.change = me.change
  BY <1>2, PreparedFollows
<1>4. /\ x \in RouterStates /\ Numbered(x) /\ x.work = me.work /\ x.change.n = me.change.n
      /\ x.change.op = me.change.op /\ x.change.pin = me.change.pin
      /\ me.queue # <<>> => x.queue # <<>> /\ Head(x.queue) = Head(me.queue)
  BY <1>3, RetriedFollows DEF Follows
<1> HIDE DEF x
<1>5. allowed' = [allowed EXCEPT ![r] = allowed[r]] /\ UNCHANGED <<pins, lease, allowed>>
  BY DEF RetainPin, StickyInv, StickyTypes
<1>6. router'[r] = x
  BY <1>1 DEF StickyInv, StickyTypes, x
<1>7. Allows(r)'
  BY <1>2, <1>4, <1>5, <1>6 DEF Allows
<1> QED
  BY <1>1, <1>2, <1>4, <1>5, <1>7, DecisionKeeps DEF x

LEMMA ChosenKeeps ==
  ASSUME StickyInv, NEW r \in Routers,
         Clear(r) \/ \E account \in RouteAccounts : Assign(r, account)
  PROVE  StickyInv'
<1> DEFINE me == router[r]
<1>1. PICK p \in Pinned, op \in {"assign", "delete"}, granted \in SUBSET Pinned :
        /\ \E z \in Prepared(me) : router' = [router EXCEPT ![r] = Decided(z, op, p)]
        /\ allowed' = [allowed EXCEPT ![r] = granted] /\ KeptFrom(r, p) \subseteq granted
  <2>1. CASE Clear(r)
    <3>1. {0, OldPins[r]} \in SUBSET Pinned /\ KeptFrom(r, 0) \subseteq {0, OldPins[r]}
      BY PinsKnown DEF KeptFrom
    <3> QED
      BY <2>1, <3>1, PinsKnown DEF Clear
  <2>2. ASSUME NEW account \in RouteAccounts, Assign(r, account)
        PROVE  /\ account \in Pinned /\ {account} \in SUBSET Pinned /\ KeptFrom(r, account) \subseteq {account}
               /\ \E z \in Prepared(me) : router' = [router EXCEPT ![r] = Decided(z, "assign", account)]
               /\ allowed' = [allowed EXCEPT ![r] = {account}]
    BY <2>2, StickyAssumption DEF Assign, Pinned, KeptFrom
  <2> QED
    BY <2>1, <2>2
<1>2. PICK z \in Prepared(me) : router' = [router EXCEPT ![r] = Decided(z, op, p)]
  BY <1>1
<1> DEFINE x == Decided(z, op, p)
<1>3. me \in RouterStates /\ Numbered(me) /\ me.made \in Nat
  BY OneRouter DEF RouterStates
<1>4. Follows(z, me)
  BY <1>3, PreparedFollows
<1>5. /\ x \in RouterStates /\ Numbered(x) /\ x.work = me.work /\ x.change.n = me.made + 1
      /\ x.change.op = op /\ x.change.pin = p
      /\ me.queue # <<>> => x.queue # <<>> /\ Head(x.queue) = Head(me.queue)
  BY <1>4, DecidedType DEF Follows
<1> HIDE DEF x
<1>6. router'[r] = x /\ allowed'[r] = granted /\ UNCHANGED <<pins, lease>>
  BY <1>1, <1>2 DEF StickyInv, StickyTypes, x, Clear, Assign
<1>7. Allows(r)'
  BY <1>1, <1>3, <1>5, <1>6 DEF Allows
<1> QED
  BY <1>1, <1>2, <1>5, <1>6, <1>7, DecisionKeeps DEF x

---------------------------------------------------------------------------
(* Publication.                                                            *)

\* A task is over, and its lease with it.
LEMMA JobEnds ==
  ASSUME StickyInv, NEW r \in Routers, NEW x \in RouterStates, NEW granted \in SUBSET Pinned,
         Numbered(x), x.work = Idle,
         router' = [router EXCEPT ![r] = x], allowed' = [allowed EXCEPT ![r] = granted], UNCHANGED pins,
         lease' # {r}, lease' = lease \/ (lease = {r} /\ lease' = Unheld),
         \/ /\ x.change.n = router[r].change.n /\ x.change.op = router[r].change.op
            /\ x.change.pin = router[r].change.pin /\ granted = allowed[r]
         \/ x.change = NoChange /\ KeptFrom(r, pins.pin[r]) \subseteq granted
  PROVE  StickyInv'
<1>1. router'[r] = x /\ allowed'[r] = granted /\ pins \in [pin : PinMaps, seed : Seeds]
  BY DEF StickyInv, StickyTypes
<1>2. x.work.stage = "idle"
  BY DEF Idle
<1>3. Publishing(r)'
  BY <1>1, <1>2 DEF Publishing
<1>4. Allows(r)'
  BY <1>1, <1>2, OneRouter, NoChangeType DEF Allows
<1>5. \A s \in Routers \ {r} :
        /\ lease = {s} => lease' = {s} /\ pins' = pins
        /\ lease' = {s} => lease = {s}
        /\ KeptFrom(s, pins'.pin[s]) \subseteq KeptFrom(s, pins.pin[s])
  BY DEF Unheld
<1> QED
  BY <1>1, <1>3, <1>4, <1>5, StepKeeps

LEMMA FreedLease ==
  ASSUME NEW r, lease' = Freed(r)
  PROVE  lease' # {r} /\ (lease' = lease \/ (lease = {r} /\ lease' = Unheld))
BY DEF Freed, Unheld

LEMMA SameAllowed == StickyInv => \A r \in Routers : allowed = [allowed EXCEPT ![r] = allowed[r]]
BY DEF StickyInv, StickyTypes

LEMMA SkipKeeps ==
  ASSUME StickyInv, NEW r \in Routers, Skip(r) \/ Fail(r)
  PROVE  StickyInv'
<1>1. router[r].queue # <<>> /\ router' = [router EXCEPT ![r] = Finished(r)] /\ UNCHANGED <<pins, allowed>>
  BY DEF Skip, Fail, RouterAt
<1>2. Publishing(r) /\ allowed[r] \in SUBSET Pinned
  BY OneRouter
<1>3. lease' # {r} /\ (lease' = lease \/ (lease = {r} /\ lease' = Unheld))
  BY <1>2, FreedLease DEF Skip, Fail, RouterAt, Publishing
<1>4. allowed' = [allowed EXCEPT ![r] = allowed[r]]
  BY <1>1, SameAllowed
<1> QED
  BY <1>1, <1>2, <1>3, <1>4, FinishedType, JobEnds

\* A change that is dropped as published or moot leaves the file with a pin its
\* decision allows.
LEMMA DroppedType ==
  ASSUME StickyInv, NEW r \in Routers, router[r].queue # <<>>
  PROVE  LET x == [Finished(r) EXCEPT !.change = NoChange]
         IN  x \in RouterStates /\ Numbered(x) /\ x.work = Idle /\ x.change = NoChange
<1> DEFINE f == Finished(r)
           x == [f EXCEPT !.change = NoChange]
<1>1. f \in RouterStates /\ Numbered(f) /\ f.work = Idle /\ f.made \in Nat
  BY FinishedType DEF RouterStates
<1> HIDE DEF f
<1>2. x \in RouterStates /\ x.work = Idle /\ x.change = NoChange /\ x.queue = f.queue /\ x.made = f.made
  BY <1>1, NoChangeType DEF RouterStates
<1> HIDE DEF x
<1>3. Numbered(x)
  BY <1>1, <1>2, NoChangeType DEF Numbered
<1> QED
  BY <1>2, <1>3 DEF x, f

LEMMA GiveUpKeeps ==
  ASSUME StickyInv, NEW r \in Routers, GiveUp(r)
  PROVE  StickyInv'
<1> DEFINE f == Finished(r)
           x == [f EXCEPT !.change = NoChange]
<1>1. router[r].queue # <<>> /\ UNCHANGED <<pins, allowed>>
  BY DEF GiveUp, RouterAt
<1>2. Publishing(r) /\ Allows(r) /\ allowed[r] \in SUBSET Pinned
  BY OneRouter
<1>3. lease' # {r} /\ (lease' = lease \/ (lease = {r} /\ lease' = Unheld))
  BY FreedLease DEF GiveUp
<1>4. allowed' = [allowed EXCEPT ![r] = allowed[r]]
  BY <1>1, SameAllowed
<1>5. /\ f \in RouterStates /\ Numbered(f) /\ f.work = Idle
      /\ f.change.n = router[r].change.n /\ f.change.op = router[r].change.op /\ f.change.pin = router[r].change.pin
  BY <1>1, FinishedType
<1>6. x \in RouterStates /\ Numbered(x) /\ x.work = Idle /\ x.change = NoChange
  BY <1>1, DroppedType
<1> HIDE DEF f
<1>7. f = [f EXCEPT !.change = f.change]
  BY <1>5 DEF RouterStates
<1>8. \/ router' = [router EXCEPT ![r] = x] /\ Moot(r)
      \/ router' = [router EXCEPT ![r] = f]
  BY <1>7 DEF GiveUp, f
<1> HIDE DEF x
<1>9. CASE router' = [router EXCEPT ![r] = x] /\ Moot(r)
  <2>1. KeptFrom(r, pins.pin[r]) \subseteq allowed[r]
    BY <1>2, <1>9 DEF Moot, Allows
  <2> QED
    BY <1>1, <1>2, <1>3, <1>4, <1>6, <1>9, <2>1, JobEnds
<1>10. CASE router' = [router EXCEPT ![r] = f]
  BY <1>1, <1>2, <1>3, <1>4, <1>5, <1>10, JobEnds
<1> QED
  BY <1>8, <1>9, <1>10

LEMMA SettleKeeps ==
  ASSUME StickyInv, NEW r \in Routers, SettleChange(r)
  PROVE  StickyInv'
<1> DEFINE f == Finished(r)
           x == [f EXCEPT !.change = NoChange]
<1>1. router[r].queue # <<>> /\ router[r].work.stage = "settle" /\ UNCHANGED <<pins, allowed>>
  BY DEF SettleChange, RouterAt
<1>2. Publishing(r) /\ Allows(r) /\ allowed[r] \in SUBSET Pinned
  BY OneRouter
<1>3. lease' # {r} /\ (lease' = lease \/ (lease = {r} /\ lease' = Unheld))
  BY FreedLease DEF SettleChange
<1>4. allowed' = [allowed EXCEPT ![r] = allowed[r]]
  BY <1>1, SameAllowed
<1>5. /\ f \in RouterStates /\ Numbered(f) /\ f.work = Idle
      /\ f.change.n = router[r].change.n /\ f.change.op = router[r].change.op /\ f.change.pin = router[r].change.pin
  BY <1>1, FinishedType
<1>6. x \in RouterStates /\ Numbered(x) /\ x.work = Idle /\ x.change = NoChange
  BY <1>1, DroppedType
<1> HIDE DEF f
<1>7. f = [f EXCEPT !.change = f.change]
  BY <1>5 DEF RouterStates
<1>8. \/ router' = [router EXCEPT ![r] = x] /\ Published(r)
      \/ router' = [router EXCEPT ![r] = f]
  BY <1>7 DEF SettleChange, f
<1> HIDE DEF x
<1>9. CASE router' = [router EXCEPT ![r] = x] /\ Published(r)
  <2>1. Head(router[r].queue) # Import /\ Head(router[r].queue) = router[r].change.n
    BY <1>9 DEF Published, Current, ChangeJob
  <2>2. router[r].change.n # 0 /\ pins.pin[r] = router[r].change.pin
    BY <1>1, <1>2, <2>1 DEF Publishing
  <2>3. KeptFrom(r, pins.pin[r]) \subseteq allowed[r]
    BY <1>2, <2>2 DEF Allows
  <2> QED
    BY <1>1, <1>2, <1>3, <1>4, <1>6, <1>9, <2>3, JobEnds
<1>10. CASE router' = [router EXCEPT ![r] = f]
  BY <1>1, <1>2, <1>3, <1>4, <1>5, <1>10, JobEnds
<1> QED
  BY <1>8, <1>9, <1>10

LEMMA DiesKeeps ==
  ASSUME StickyInv, NEW r \in Routers, RouterCrash(r)
  PROVE  StickyInv'
<1> DEFINE n == router[r].made
           x == [NewRouter EXCEPT !.made = n]
           granted == KeptFrom(r, pins.pin[r])
<1>1. n \in Nat /\ pins.pin[r] \in Pinned
  BY OneRouter DEF RouterStates, StickyInv, StickyTypes, PinMaps
<1> HIDE DEF n
<1>2. Idle \in Works
  BY PinsKnown, StageValues DEF Idle, Works, PinMaps
<1>3. NewRouter \in RouterStates /\ NewRouter.change = NoChange /\ NewRouter.queue = <<>> /\ NewRouter.work = Idle
  <2> DEFINE no == FALSE
  <2>1. no \in Flags
    BY FlagValues
  <2>3. <<>> \in Seq(Nat)
    OBVIOUS
  <2>2. NewRouter = [change |-> NoChange, made |-> 0, queue |-> <<>>, work |-> Idle, imported |-> no]
    BY DEF NewRouter
  <2> HIDE DEF no
  <2> QED
    BY <1>2, <2>1, <2>2, <2>3, NoChangeType DEF RouterStates
<1>4. x \in RouterStates /\ x.change = NoChange /\ x.queue = <<>> /\ x.work = Idle /\ x.made = n
  BY <1>1, <1>3 DEF RouterStates
<1>5. Numbered(x)
  BY <1>1, <1>4, NoChangeType DEF Numbered
<1>6. granted \in SUBSET Pinned /\ Kept(r) = granted
  BY <1>1, PinsKnown DEF Kept, KeptFrom
<1>7. router' = [router EXCEPT ![r] = x] /\ allowed' = [allowed EXCEPT ![r] = granted] /\ UNCHANGED pins
  BY <1>6 DEF RouterCrash, n
<1>8. lease' # {r} /\ (lease' = lease \/ (lease = {r} /\ lease' = Unheld))
  BY FreedLease DEF RouterCrash
<1> HIDE DEF x
<1> QED
  BY <1>4, <1>5, <1>6, <1>7, <1>8, JobEnds

\* The router's task goes on; nothing but its place and its copy changes.
LEMMA WorkMoves ==
  ASSUME StickyInv, NEW r \in Routers, NEW w \in Works
  PROVE  LET x == [router[r] EXCEPT !.work = w]
         IN  /\ x \in RouterStates /\ Numbered(x) /\ x.work = w /\ x.change = router[r].change
             /\ x.queue = router[r].queue
BY OneRouter DEF RouterStates, Numbered

LEMMA StageType ==
  ASSUME StickyInv, NEW r \in Routers, NEW stage \in WorkStages
  PROVE  LET w == [router[r].work EXCEPT !.stage = stage]
         IN  w \in Works /\ w.stage = stage /\ w.copy = router[r].work.copy
BY OneRouter DEF RouterStates, Works

LEMMA LockKeeps ==
  ASSUME StickyInv, NEW r \in Routers, Lock(r)
  PROVE  StickyInv'
<1> DEFINE me == router[r]
           w == [me.work EXCEPT !.stage = "read"]
           x == [me EXCEPT !.work = w]
<1>1. w \in Works /\ w.stage = "read"
  BY StageType, StageValues
<1> HIDE DEF w
<1>2. x \in RouterStates /\ Numbered(x) /\ x.work = w /\ x.change = me.change /\ x.queue = me.queue
  BY <1>1, WorkMoves
<1>3. router' = [router EXCEPT ![r] = x] /\ lease = {} /\ lease' = {r} /\ UNCHANGED <<pins, allowed>>
  BY OneRouter DEF Lock, Unheld, w, RouterStates
<1> HIDE DEF x
<1>4. me \in RouterStates /\ Numbered(me) /\ Publishing(r) /\ Allows(r) /\ allowed[r] \in SUBSET Pinned
  BY OneRouter
<1>5. router'[r] = x /\ pins \in [pin : PinMaps, seed : Seeds]
  BY <1>3 DEF StickyInv, StickyTypes
<1>6. me.queue # <<>> /\ (Head(me.queue) # Import => me.change.n # 0)
  BY PinsKnown DEF Lock, RouterAt, Current, ChangeJob
<1>7. Publishing(r)'
  BY <1>1, <1>2, <1>3, <1>5, <1>6 DEF Publishing
<1>8. Allows(r)'
  BY <1>1, <1>2, <1>3, <1>4, <1>5 DEF Allows
<1>9. allowed' = [allowed EXCEPT ![r] = allowed[r]]
  BY <1>3, SameAllowed
<1> QED
  BY <1>2, <1>3, <1>4, <1>5, <1>7, <1>8, <1>9, StepKeeps

LEMMA ReadKeeps ==
  ASSUME StickyInv, NEW r \in Routers, ReadPins(r)
  PROVE  StickyInv'
<1> DEFINE me == router[r]
           w == [stage |-> "merge", copy |-> pins.pin]
           x == [me EXCEPT !.work = w]
<1>1. w \in Works /\ w.stage = "merge" /\ w.copy = pins.pin
  BY StageValues DEF Works, StickyInv, StickyTypes
<1> HIDE DEF w
<1>2. x \in RouterStates /\ Numbered(x) /\ x.work = w /\ x.change = me.change /\ x.queue = me.queue
  BY <1>1, WorkMoves
<1>3. router' = [router EXCEPT ![r] = x] /\ UNCHANGED <<pins, lease, allowed>>
  BY DEF ReadPins, w
<1> HIDE DEF x
<1>4. Publishing(r) /\ Allows(r) /\ allowed[r] \in SUBSET Pinned /\ me.work.stage = "read"
  BY OneRouter DEF ReadPins, RouterAt
<1>5. router'[r] = x /\ pins \in [pin : PinMaps, seed : Seeds]
  BY <1>3 DEF StickyInv, StickyTypes
<1>6. Publishing(r)'
  BY <1>1, <1>2, <1>3, <1>4, <1>5 DEF Publishing
<1>7. Allows(r)'
  BY <1>1, <1>2, <1>3, <1>4, <1>5 DEF Allows
<1>8. allowed' = [allowed EXCEPT ![r] = allowed[r]]
  BY <1>3, SameAllowed
<1> QED
  BY <1>2, <1>3, <1>4, <1>5, <1>6, <1>7, <1>8, StepKeeps

LEMMA ImportedPin ==
  ASSUME NEW s, NEW old \in Pinned
  PROVE  KeptFrom(s, IF old = 0 THEN OldPins[s] ELSE old) \subseteq KeptFrom(s, old)
BY DEF KeptFrom

LEMMA MergeKeeps ==
  ASSUME StickyInv, NEW r \in Routers, Merge(r)
  PROVE  StickyInv'
<1> DEFINE me == router[r]
           w == [stage |-> "write", copy |-> Merged(r)]
           x == [me EXCEPT !.work = w]
<1>1. me \in RouterStates /\ me.work.copy \in PinMaps /\ me.change.pin \in Pinned
  BY OneRouter DEF RouterStates, Works, Changes
<1>2. /\ Merged(r) \in PinMaps
      /\ ChangeJob(r) = Import =>
           \A s \in Routers : Merged(r)[s] = IF me.work.copy[s] = 0 THEN OldPins[s] ELSE me.work.copy[s]
      /\ ChangeJob(r) # Import =>
           Merged(r)[r] = me.change.pin /\ \A s \in Routers \ {r} : Merged(r)[s] = me.work.copy[s]
  BY <1>1, PinsKnown DEF Merged, PinMaps
<1>3. w \in Works /\ w.stage = "write" /\ w.copy = Merged(r)
  BY <1>2, StageValues DEF Works
<1>4. router' = [router EXCEPT ![r] = [me EXCEPT !.work = w]] /\ UNCHANGED <<pins, lease, allowed>>
  BY DEF Merge
<1> HIDE DEF w
<1>5. x \in RouterStates /\ Numbered(x) /\ x.work = w /\ x.change = me.change /\ x.queue = me.queue
  BY <1>3, WorkMoves
<1> HIDE DEF x
<1>6. /\ Publishing(r) /\ Allows(r) /\ allowed[r] \in SUBSET Pinned
      /\ me.work.stage = "merge" /\ ChangeJob(r) = Head(me.queue)
  BY OneRouter DEF Merge, RouterAt, ChangeJob
<1>7. router'[r] = x /\ pins \in [pin : PinMaps, seed : Seeds] /\ pins.pin[r] \in Pinned
  BY <1>4 DEF StickyInv, StickyTypes, x, PinMaps
<1>8. ASSUME lease = {r} PROVE Prepares(r)'
  <2>1. me.work.copy = pins.pin
    BY <1>6, <1>8 DEF Publishing
  <2> QED
    BY <1>2, <1>3, <1>4, <1>5, <1>6, <1>7, <2>1 DEF Prepares
<1>9. Publishing(r)'
  BY <1>3, <1>4, <1>5, <1>6, <1>7, <1>8 DEF Publishing
<1>10. ASSUME me.change.op = "touch", lease = {r} PROVE KeptFrom(r, Merged(r)[r]) \subseteq allowed[r]
  <2>1. me.work.copy = pins.pin
    BY <1>6, <1>10 DEF Publishing
  <2>2. CASE ChangeJob(r) = Import
    BY <1>2, <1>6, <1>7, <1>10, <2>1, <2>2, ImportedPin DEF Allows
  <2>3. CASE ChangeJob(r) # Import
    BY <1>2, <1>6, <2>3 DEF Allows, Publishing
  <2> QED
    BY <2>2, <2>3
<1>11. Allows(r)'
  BY <1>3, <1>4, <1>5, <1>6, <1>7, <1>10 DEF Allows
<1>12. allowed' = [allowed EXCEPT ![r] = allowed[r]]
  BY <1>4, SameAllowed
<1> QED
  BY <1>4, <1>5, <1>6, <1>7, <1>9, <1>11, <1>12, StepKeeps DEF x

\* The file is replaced by the copy of the one router that holds the lease,
\* which has every other session's pin as the file had it, or imports it.
LEMMA WriteKeeps ==
  ASSUME StickyInv, NEW r \in Routers, WritePins(r)
  PROVE  StickyInv'
<1> DEFINE me == router[r]
           w == [me.work EXCEPT !.stage = "settle"]
           x == [me EXCEPT !.work = w]
<1>1. w \in Works /\ w.stage = "settle" /\ w.copy = me.work.copy
  BY StageType, StageValues
<1>2. me \in RouterStates /\ me.work.copy \in PinMaps
  BY OneRouter DEF RouterStates, Works
<1>3. router' = [router EXCEPT ![r] = x] /\ lease = {r} /\ UNCHANGED <<lease, allowed>>
      /\ pins'.pin = me.work.copy /\ pins' \in [pin : PinMaps, seed : Seeds]
  BY <1>2 DEF WritePins, Seeds, StickyInv, StickyTypes, RouterStates
<1> HIDE DEF w
<1>4. x \in RouterStates /\ Numbered(x) /\ x.work = w /\ x.change = me.change /\ x.queue = me.queue
  BY <1>1, WorkMoves
<1> HIDE DEF x
<1>5. /\ Publishing(r) /\ Allows(r) /\ allowed[r] \in SUBSET Pinned /\ Prepares(r)
      /\ me.work.stage = "write" /\ me.queue # <<>> /\ (Head(me.queue) # Import => me.change.n # 0)
  BY <1>3, OneRouter DEF WritePins, RouterAt, Publishing
<1>6. router'[r] = x /\ \A s \in Routers : pins.pin[s] \in Pinned
  BY <1>3 DEF StickyInv, StickyTypes, PinMaps
<1>7. ASSUME NEW s \in Routers, s # r \/ Head(me.queue) = Import
      PROVE  KeptFrom(s, me.work.copy[s]) \subseteq KeptFrom(s, pins.pin[s])
  BY <1>5, <1>6, <1>7, ImportedPin DEF Prepares
<1>8. \A s \in Routers \ {r} :
        /\ lease = {s} => lease' = {s} /\ pins' = pins
        /\ lease' = {s} => lease = {s}
        /\ KeptFrom(s, pins'.pin[s]) \subseteq KeptFrom(s, pins.pin[s])
  BY <1>3, <1>7
<1>9. Publishing(r)'
  BY <1>1, <1>3, <1>4, <1>5, <1>6 DEF Publishing, Prepares
<1>10. ASSUME me.change.n = 0 \/ me.change.op = "touch" PROVE KeptFrom(r, me.work.copy[r]) \subseteq allowed[r]
  <2>1. CASE me.change.op = "touch"
    BY <1>3, <1>5, <2>1 DEF Allows
  <2>2. CASE me.change.n = 0
    <3>1. Head(me.queue) = Import /\ KeptFrom(r, pins.pin[r]) \subseteq allowed[r]
      BY <1>5, <2>2 DEF Allows
    <3> QED
      BY <1>7, <3>1
  <2> QED
    BY <1>10, <2>1, <2>2
<1>11. Allows(r)'
  BY <1>1, <1>3, <1>4, <1>5, <1>6, <1>10 DEF Allows
<1>12. allowed' = [allowed EXCEPT ![r] = allowed[r]]
  BY <1>3, SameAllowed
<1> QED
  BY <1>3, <1>4, <1>5, <1>8, <1>9, <1>11, <1>12, StepKeeps

LEMMA LoseKeeps ==
  ASSUME StickyInv, NEW r \in Routers, LoseLease(r)
  PROVE  StickyInv'
<1>1. lease = {r} /\ lease' = {} /\ router[r].work.stage # "settle" /\ UNCHANGED <<pins, router, allowed>>
  BY DEF LoseLease, Unheld
<1>2. StickyTypes'
  BY <1>1 DEF StickyInv, StickyTypes
<1>3. ASSUME NEW s \in Routers PROVE Numbered(router[s])' /\ Publishing(s)' /\ Allows(s)'
  <2>1. Numbered(router[s]) /\ Publishing(s) /\ Allows(s)
    BY OneRouter
  <2>2. router[s].work.stage # "settle"
    BY <1>1, <2>1 DEF Publishing
  <2> QED
    BY <1>1, <2>1, <2>2 DEF Numbered, Publishing, Allows
<1> QED
  BY <1>2, <1>3 DEF StickyInv

---------------------------------------------------------------------------

LEMMA StickyInvInit == StickyInit => StickyInv
<1> SUFFICES ASSUME StickyInit PROVE StickyInv
  OBVIOUS
<1>1. Idle \in Works /\ Idle.stage = "idle"
  BY PinsKnown, StageValues DEF Idle, Works, PinMaps
<1>2. NewRouter \in RouterStates /\ NewRouter.change = NoChange /\ NewRouter.queue = <<>>
      /\ NewRouter.work = Idle /\ NewRouter.made = 0
  <2> DEFINE no == FALSE
  <2>1. no \in Flags
    BY FlagValues
  <2>3. <<>> \in Seq(Nat)
    OBVIOUS
  <2>2. NewRouter = [change |-> NoChange, made |-> 0, queue |-> <<>>, work |-> Idle, imported |-> no]
    BY DEF NewRouter
  <2> HIDE DEF no
  <2> QED
    BY <1>1, <2>1, <2>2, <2>3, NoChangeType DEF RouterStates
<1>3. /\ pins \in [pin : PinMaps, seed : Seeds] /\ lease = {}
      /\ \A r \in Routers : pins.pin[r] = 0 /\ router[r] = NewRouter /\ allowed[r] = KeptFrom(r, 0)
      /\ allowed = [r \in Routers |-> KeptFrom(r, 0)] /\ router = [r \in Routers |-> NewRouter]
  BY PinsKnown DEF StickyInit, PinMaps, Unheld, Kept, KeptFrom
<1>4. StickyTypes
  <2>1. \A r \in Routers : KeptFrom(r, 0) \in SUBSET Pinned
    BY PinsKnown DEF KeptFrom
  <2> QED
    BY <1>2, <1>3, <2>1 DEF StickyTypes
<1>5. ASSUME NEW r \in Routers PROVE Numbered(router[r]) /\ Publishing(r) /\ Allows(r)
  <2>1. Numbered(router[r])
    BY <1>2, <1>3, NoChangeType DEF Numbered
  <2>2. Publishing(r)
    BY <1>1, <1>2, <1>3 DEF Publishing
  <2>3. Allows(r)
    BY <1>1, <1>2, <1>3, NoChangeType DEF Allows
  <2> QED
    BY <2>1, <2>2, <2>3
<1> QED
  BY <1>4, <1>5 DEF StickyInv

LEMMA StickyInvStep == StickyInv /\ [StickyNext]_stickyVars => StickyInv'
<1> SUFFICES ASSUME StickyInv, [StickyNext]_stickyVars PROVE StickyInv'
  OBVIOUS
<1>1. CASE UNCHANGED stickyVars
  BY <1>1 DEF stickyVars, StickyInv, StickyTypes, Numbered, Publishing, Prepares, Allows
<1>2. ASSUME NEW r \in Routers, PublishDecision(r) PROVE StickyInv'
  BY <1>2, SkipKeeps, LockKeeps, ReadKeeps, GiveUpKeeps, MergeKeeps, WriteKeeps, SettleKeeps DEF PublishDecision
<1>3. ASSUME NEW r \in Routers,
             \/ Touch(r) \/ RetainPin(r) \/ Clear(r)
             \/ \E account \in RouteAccounts : Assign(r, account)
             \/ LoseLease(r) \/ RouterCrash(r)
      PROVE  StickyInv'
  BY <1>3, TouchKeeps, RetainPinKeeps, ChosenKeeps, LoseKeeps, DiesKeeps
<1> QED
  BY <1>1, <1>2, <1>3 DEF StickyNext

THEOREM StickyInvariant == StickySpec => []StickyInv
BY StickyInvInit, StickyInvStep, PTL DEF StickySpec

\* LastDecisionIsPublished: whatever is superseded, fails, loses its lease, is
\* imported or published by another router, a session with nothing pending has
\* in the file what its last decision allows.
THEOREM DecisionsArePublished == StickySpec => []LastDecisionIsPublished
<1>1. StickyInv => LastDecisionIsPublished
  BY NoChangeType DEF StickyInv, LastDecisionIsPublished, Allows, KeptFrom
<1> QED
  BY <1>1, StickyInvariant, PTL

---------------------------------------------------------------------------
(* PaidFallback.                                                           *)

\* What the theorem is about: no account becomes main's a second time.  Where
\* one does, the property does not hold, as a run shows.
NoneComesBack == \A i, j \in DOMAIN MainAccounts : MainAccounts[i] = MainAccounts[j] => i = j

Epochs == 1 .. Len(MainAccounts)
Answers == BOOLEAN
PollPlaces == {"none", "queued", "authorized", "answered", "done"}
PaidPlaces == {"new", "authorizing", "loading", "resolving", "routing", "waiting", "sending", "paying",
               "confirming", "paid", "over"}
Readings == [of : Nat, tag : Nat]
Managers == [reading : Readings, account : Nat, generation : Nat, epoch : Nat, key : Nat, provider : Nat,
             token : Nat, resolutions : Nat]
Polls == [at : PollPlaces, tag : Nat, generation : Nat, lineage : Nat, of : Nat]
PaidOnes ==
  [at : PaidPlaces, access : Answers, deferred : Answers, account : Nat, lineage : Nat, generation : Nat,
   resolution : Nat, loaded : Nat, on : PaidRequests, answered : Answers, feed : Nat, for : Nat]

PaidTypes ==
  /\ mainEpoch \in Epochs
  /\ storedUsage \in Nat
  /\ quotaManager \in Managers
  /\ observed \in Nat
  /\ usagePoll \in [PaidRequests -> Polls]
  /\ paidRequest \in [PaidRequests -> PaidOnes]

\* Main stands for the account, or did.
Past(account) == account = 0 \/ \E e \in 1 .. mainEpoch : AccountOf(e) = account

\* What goes by the name of main's account is that account's usage.  What
\* goes by an earlier one's name may be another's.
Honest(reading) == Past(reading.tag) /\ (reading.tag = MainAccount => reading.of \in {0, MainAccount})

\* A request that knows an account knows that of its epoch.
Knows(q) ==
  /\ q.lineage <= mainEpoch
  /\ q.at \in {"resolving", "loading", "authorizing"} => q.lineage # 0
  /\ q.at \in {"routing", "waiting", "sending", "paying", "confirming"} =>
       q.lineage # 0 /\ q.account = AccountOf(q.lineage)
  /\ q.at = "paid" => q.for \in SpentAccounts
  /\ Past(q.loaded)
  /\ q.feed <= mainEpoch

PollKnows(poll) ==
  /\ Past(poll.tag)
  /\ poll.at = "answered" /\ poll.tag = MainAccount => poll.of = MainAccount
  /\ poll.lineage <= mainEpoch /\ Past(poll.of)

PaidInv ==
  /\ PaidTypes
  /\ Past(storedUsage) /\ Honest(quotaManager.reading)
  /\ observed <= mainEpoch
  /\ \A r \in PaidRequests : Knows(paidRequest[r]) /\ PollKnows(usagePoll[r])

LEMMA AnswerValues == TRUE \in Answers /\ FALSE \in Answers
BY DEF Answers

LEMMA PlaceValues ==
  /\ \A place \in {"none", "queued", "authorized", "answered", "done"} : place \in PollPlaces
  /\ \A place \in {"new", "authorizing", "loading", "resolving", "routing", "waiting", "sending", "paying",
                   "confirming", "paid", "over"} : place \in PaidPlaces
BY DEF PollPlaces, PaidPlaces

\* 0 is no account, so no spent one.
LEMMA Accounts ==
  /\ Len(MainAccounts) \in Nat \ {0} /\ Epochs = DOMAIN MainAccounts /\ Epochs \subseteq Nat
  /\ \A e \in Epochs : AccountOf(e) \in Nat \ {0}
  /\ 0 \notin SpentAccounts
<1>1. MainAccounts \in Seq(Nat \ {0}) /\ MainAccounts # <<>> /\ SpentAccounts \subseteq Nat \ {0}
  BY PaidAssumption
<1>2. Len(MainAccounts) \in Nat \ {0} /\ Epochs = DOMAIN MainAccounts /\ Epochs \subseteq Nat
  BY <1>1 DEF Epochs
<1>3. \A e \in DOMAIN MainAccounts : MainAccounts[e] \in Nat \ {0}
  BY <1>1
<1>4. \A e \in Epochs : AccountOf(e) \in Nat \ {0}
  BY <1>2, <1>3 DEF AccountOf
<1> QED
  BY <1>1, <1>2, <1>4

LEMMA MainKnown ==
  ASSUME mainEpoch \in Epochs
  PROVE  /\ MainAccount \in Nat \ {0} /\ MainAccount = AccountOf(mainEpoch)
         /\ mainEpoch \in Nat \ {0} /\ Past(MainAccount) /\ Past(0)
         /\ \A e \in Nat \ {0} : e <= mainEpoch => e \in Epochs /\ AccountOf(e) \in Nat \ {0} /\ Past(AccountOf(e))
<1>1. MainAccount = AccountOf(mainEpoch)
  BY DEF MainAccount, AccountOf
<1>2. mainEpoch \in Nat \ {0}
  BY Accounts DEF Epochs
<1>3. \A e \in Nat \ {0} : e <= mainEpoch => e \in Epochs
  BY Accounts DEF Epochs
<1>4. \A e \in Nat \ {0} : e <= mainEpoch => Past(AccountOf(e))
  BY <1>2 DEF Past
<1>5. Past(0) /\ Past(MainAccount)
  BY <1>1, <1>2, <1>4 DEF Past
<1> QED
  BY <1>1, <1>2, <1>3, <1>4, <1>5, Accounts

---------------------------------------------------------------------------
(* The manager.                                                            *)

\* A manager made from another keeps its reading or has none.
MadeFrom(m, x) == x \in Managers /\ x.reading \in {m.reading, NoReading}

LEMMA NoReadingType == NoReading \in Readings /\ NoReading.of = 0 /\ NoReading.tag = 0
BY DEF NoReading, Readings

LEMMA SetIdentityMakes ==
  ASSUME NEW m \in Managers, NEW account \in Nat, NEW force \in BOOLEAN
  PROVE  MadeFrom(m, SetIdentity(m, account, force))
<1> DEFINE left == IF force \/ m.reading.tag # account THEN NoReading ELSE m.reading
           n == m.generation + 1
           x == [m EXCEPT !.account = account, !.generation = n, !.reading = left]
<1>1. SetIdentity(m, account, force) \in {m, x}
  BY DEF SetIdentity
<1>2. m.reading \in Readings /\ left \in Readings /\ left \in {m.reading, NoReading}
  BY NoReadingType DEF Managers
<1>4. n \in Nat
  BY DEF Managers
<1> HIDE DEF left, n
<1>3. x \in Managers /\ x.reading = left
  BY <1>2, <1>4 DEF Managers
<1> QED
  BY <1>1, <1>2, <1>3 DEF MadeFrom

LEMMA ClearMainMakes ==
  ASSUME NEW m \in Managers
  PROVE  MadeFrom(m, ClearMain(m)) /\ ClearMain(m).reading = NoReading
BY NoReadingType DEF MadeFrom, ClearMain, Managers

LEMMA OnSnapshotMakes ==
  ASSUME NEW m \in Managers, NEW epoch \in Epochs
  PROVE  MadeFrom(m, OnSnapshot(m, epoch))
<1>1. AccountOf(epoch) \in Nat /\ epoch \in Nat
  BY Accounts
<1> DEFINE x == SetIdentity(ClearMain(m), AccountOf(epoch), FALSE)
<1>2. x \in Managers /\ x.reading = NoReading
  BY <1>1, ClearMainMakes, SetIdentityMakes DEF MadeFrom
<1>3. OnSnapshot(m, epoch) \in {m, [x EXCEPT !.epoch = epoch]}
  BY DEF OnSnapshot
<1> HIDE DEF x
<1>4. [x EXCEPT !.epoch = epoch] \in Managers /\ [x EXCEPT !.epoch = epoch].reading = NoReading
  BY <1>1, <1>2 DEF Managers
<1> QED
  BY <1>3, <1>4 DEF MadeFrom

LEMMA ReconciledMakes ==
  ASSUME NEW m \in Managers, NEW token \in Nat, NEW account \in Nat
  PROVE  MadeFrom(m, Reconciled(m, token, account))
<1> DEFINE force == m.provider # 0 /\ m.provider # account
           x == SetIdentity(m, account, force)
           y == [x EXCEPT !.token = token, !.key = account]
<1>1. x \in Managers /\ x.reading \in {m.reading, NoReading}
  <2>1. force \in BOOLEAN
    OBVIOUS
  <2> HIDE DEF force
  <2> QED
    BY <2>1, SetIdentityMakes DEF MadeFrom
<1>2. Reconciled(m, token, account) \in {m, y}
  BY DEF Reconciled
<1> HIDE DEF x
<1>3. y \in Managers /\ y.reading = x.reading
  BY <1>1 DEF Managers
<1> QED
  BY <1>1, <1>2, <1>3 DEF MadeFrom

\* What was seeded is the stored usage under its own account's name.
LEMMA SeededMakes ==
  ASSUME NEW m \in Managers, NEW loaded \in Nat, NEW x \in Seeded(m, loaded)
  PROVE  x \in Managers /\ x.reading \in {m.reading, [of |-> loaded, tag |-> loaded]}
<1>1. x = m \/ x = [m EXCEPT !.reading = [of |-> loaded, tag |-> loaded], !.account = m.key]
  BY DEF Seeded
<1>2. [of |-> loaded, tag |-> loaded] \in Readings
  BY DEF Readings
<1> QED
  BY <1>1, <1>2 DEF Managers

LEMMA NothingHonest ==
  ASSUME mainEpoch \in Epochs
  PROVE  Honest(NoReading)
BY MainKnown, NoReadingType DEF Honest

---------------------------------------------------------------------------
(* Steps.                                                                  *)

\* Of a step that leaves main alone it is enough to look at what it changes.
LEMMA PaidStep ==
  ASSUME PaidInv, mainEpoch' = mainEpoch, PaidTypes',
         Past(storedUsage'), Honest(quotaManager'.reading), observed' <= mainEpoch,
         \A r \in PaidRequests : Knows(paidRequest'[r]) /\ PollKnows(usagePoll'[r])
  PROVE  PaidInv'
<1>1. Past(storedUsage)'
  BY DEF Past, AccountOf
<1>2. Honest(quotaManager.reading)'
  BY DEF Honest, Past, AccountOf, MainAccount
<1>3. \A r \in PaidRequests : Knows(paidRequest[r])'
  BY DEF Knows, Past, AccountOf
<1>4. \A r \in PaidRequests : PollKnows(usagePoll[r])'
  BY DEF PollKnows, Past, AccountOf, MainAccount
<1> QED
  BY <1>1, <1>2, <1>3, <1>4 DEF PaidInv

\* A request goes on.
LEMMA RequestMoves ==
  ASSUME PaidInv, NEW r \in PaidRequests, NEW q \in PaidOnes, Knows(q),
         paidRequest' = [paidRequest EXCEPT ![r] = q],
         UNCHANGED <<mainEpoch, usagePoll>>,
         quotaManager' \in Managers, Honest(quotaManager'.reading),
         storedUsage' \in Nat, Past(storedUsage'), observed' \in Nat, observed' <= mainEpoch
  PROVE  PaidInv'
<1>1. PaidTypes'
  BY DEF PaidInv, PaidTypes
<1>2. \A s \in PaidRequests : Knows(paidRequest'[s]) /\ PollKnows(usagePoll'[s])
  BY DEF PaidInv, PaidTypes
<1> QED
  BY <1>1, <1>2, PaidStep

\* A poll goes on.
LEMMA PollMoves ==
  ASSUME PaidInv, NEW r \in PaidRequests, NEW p \in Polls, PollKnows(p),
         usagePoll' = [usagePoll EXCEPT ![r] = p],
         UNCHANGED <<mainEpoch, paidRequest>>,
         quotaManager' \in Managers, Honest(quotaManager'.reading),
         storedUsage' \in Nat, Past(storedUsage'), observed' \in Nat, observed' <= mainEpoch
  PROVE  PaidInv'
<1>1. PaidTypes'
  BY DEF PaidInv, PaidTypes
<1>2. \A s \in PaidRequests : Knows(paidRequest'[s]) /\ PollKnows(usagePoll'[s])
  BY DEF PaidInv, PaidTypes
<1> QED
  BY <1>1, <1>2, PaidStep

LEMMA PaidKnown ==
  ASSUME PaidInv, NEW r \in PaidRequests
  PROVE  /\ paidRequest[r] \in PaidOnes /\ usagePoll[r] \in Polls
         /\ Knows(paidRequest[r]) /\ PollKnows(usagePoll[r])
         /\ mainEpoch \in Epochs /\ quotaManager \in Managers /\ Honest(quotaManager.reading)
         /\ storedUsage \in Nat /\ Past(storedUsage) /\ observed \in Nat /\ observed <= mainEpoch
BY DEF PaidInv, PaidTypes

\* The same request at another place, where it knows what it did.
LEMMA GoesOn ==
  ASSUME PaidInv, NEW r \in PaidRequests, NEW place \in PaidPlaces, GoesTo(r, place),
         place # "paid", place \in {"authorizing", "loading", "resolving"} => FALSE,
         place \in {"routing", "waiting", "sending", "paying", "confirming"} =>
           paidRequest[r].at \in {"routing", "waiting", "sending", "paying", "confirming"},
         UNCHANGED <<mainEpoch, storedUsage, quotaManager, observed, usagePoll>>
  PROVE  PaidInv'
<1> DEFINE q == paidRequest[r]
           x == [q EXCEPT !.at = place]
<1>1. q \in PaidOnes /\ Knows(q)
  BY PaidKnown
<1>2. paidRequest' = [paidRequest EXCEPT ![r] = x]
  BY DEF GoesTo
<1> HIDE DEF q
<1>3. x \in PaidOnes /\ \A f \in DOMAIN q \ {"at"} : x[f] = q[f]
  BY <1>1 DEF PaidOnes
<1>4. x.at = place /\ x.lineage = q.lineage /\ x.account = q.account /\ x.loaded = q.loaded /\ x.feed = q.feed
  BY <1>1 DEF PaidOnes
<1> HIDE DEF x
<1>5. Knows(x)
  BY <1>1, <1>4 DEF Knows, q
<1> QED
  BY <1>2, <1>3, <1>5, PaidKnown, RequestMoves

\* What was past is past, and the account main has now was not.
LEMMA ReplaceMainKeeps ==
  ASSUME NoneComesBack, PaidInv, ReplaceMain
  PROVE  PaidInv'
<1>1. /\ mainEpoch \in Epochs /\ mainEpoch' = mainEpoch + 1 /\ mainEpoch' \in Epochs
      /\ storedUsage' = 0 /\ UNCHANGED <<quotaManager, observed, usagePoll, paidRequest>>
  BY Accounts DEF PaidInv, PaidTypes, ReplaceMain, Epochs
<1>2. mainEpoch \in Nat /\ \A e \in 1 .. mainEpoch : e \in 1 .. mainEpoch' /\ e \in Epochs /\ e # mainEpoch'
  BY <1>1, Accounts DEF Epochs
<1>3. \A a : Past(a) => Past(a)'
  BY <1>2 DEF Past, AccountOf
<1>4. \A a : Past(a) => a # MainAccount'
  <2>1. MainAccount' \in Nat \ {0} /\ MainAccount' = MainAccounts[mainEpoch']
    BY <1>1, Accounts DEF MainAccount, AccountOf
  <2>2. \A e \in 1 .. mainEpoch : MainAccounts[e] # MainAccounts[mainEpoch']
    BY <1>1, <1>2, Accounts DEF NoneComesBack
  <2> QED
    BY <2>1, <2>2 DEF Past, AccountOf
<1>5. PaidTypes'
  BY <1>1 DEF PaidInv, PaidTypes
<1>6. Past(storedUsage)'
  BY <1>1 DEF Past
<1>7. Honest(quotaManager.reading)'
  BY <1>1, <1>3, <1>4 DEF PaidInv, Honest
<1>8. observed' <= mainEpoch'
  BY <1>1, <1>2 DEF PaidInv, PaidTypes
<1>9. ASSUME NEW r \in PaidRequests
      PROVE  Knows(paidRequest[r])' /\ PollKnows(usagePoll[r])'
  <2>1. paidRequest[r] \in PaidOnes /\ usagePoll[r] \in Polls /\ Knows(paidRequest[r]) /\ PollKnows(usagePoll[r])
    BY PaidKnown
  <2>2. paidRequest[r]' = paidRequest[r] /\ usagePoll[r]' = usagePoll[r]
    BY <1>1
  <2>3. /\ paidRequest[r].lineage \in Nat /\ paidRequest[r].feed \in Nat /\ usagePoll[r].lineage \in Nat
    BY <2>1 DEF PaidOnes, Polls
  <2>4. Knows(paidRequest[r])'
    BY <1>1, <1>2, <1>3, <2>1, <2>2, <2>3 DEF Knows, AccountOf
  <2>5. PollKnows(usagePoll[r])'
    BY <1>1, <1>2, <1>3, <1>4, <2>1, <2>2, <2>3 DEF PollKnows
  <2> QED
    BY <2>4, <2>5
<1> QED
  BY <1>5, <1>6, <1>7, <1>8, <1>9 DEF PaidInv

LEMMA ReadSnapshotKeeps ==
  ASSUME PaidInv, NEW r \in PaidRequests, ReadSnapshot(r)
  PROVE  PaidInv'
<1>1. PICK defer \in {TRUE, FALSE} :
        paidRequest' = [paidRequest EXCEPT ![r].at = IF defer THEN "loading" ELSE "authorizing",
                          ![r].lineage = mainEpoch, ![r].access = FALSE, ![r].deferred = defer]
  BY DEF ReadSnapshot
<1>2. /\ quotaManager' = OnSnapshot(quotaManager, mainEpoch)
      /\ UNCHANGED <<mainEpoch, storedUsage, observed, usagePoll>>
  BY DEF ReadSnapshot
<1> DEFINE q == paidRequest[r]
           place == IF defer THEN "loading" ELSE "authorizing"
           no == FALSE
           x == [q EXCEPT !.at = place, !.lineage = mainEpoch, !.access = no, !.deferred = defer]
<1>3. q \in PaidOnes /\ Knows(q)
  BY PaidKnown
<1>4. paidRequest' = [paidRequest EXCEPT ![r] = x]
  BY <1>1
<1>5. place \in PaidPlaces /\ place \in {"loading", "authorizing"} /\ no \in Answers /\ defer \in Answers
  BY PlaceValues, AnswerValues
<1>6. mainEpoch \in Nat \ {0}
  BY PaidKnown, MainKnown
<1> HIDE DEF place, no, q
<1>7. x \in PaidOnes /\ x.at = place /\ x.lineage = mainEpoch /\ x.loaded = q.loaded /\ x.feed = q.feed
  BY <1>3, <1>5, <1>6 DEF PaidOnes
<1> HIDE DEF x
<1>8. Knows(x)
  BY <1>3, <1>5, <1>6, <1>7 DEF Knows
<1>9. quotaManager' \in Managers /\ Honest(quotaManager'.reading)
  BY <1>2, PaidKnown, OnSnapshotMakes, NothingHonest DEF MadeFrom
<1> QED
  BY <1>2, <1>4, <1>7, <1>8, <1>9, PaidKnown, RequestMoves

LEMMA AuthorizeMainKeeps ==
  ASSUME PaidInv, NEW r \in PaidRequests, AuthorizeMain(r)
  PROVE  PaidInv'
<1>1. PICK served \in {TRUE, FALSE} :
        paidRequest' = [paidRequest EXCEPT ![r].at = "loading", ![r].access = served,
                          ![r].lineage = IF served THEN mainEpoch ELSE @]
  BY DEF AuthorizeMain
<1>2. UNCHANGED <<mainEpoch, storedUsage, quotaManager, observed, usagePoll>> /\ paidRequest[r].at = "authorizing"
  BY DEF AuthorizeMain, RequestAt
<1> DEFINE q == paidRequest[r]
           e == IF served THEN mainEpoch ELSE q.lineage
           x == [q EXCEPT !.at = "loading", !.access = served, !.lineage = e]
<1>3. q \in PaidOnes /\ Knows(q) /\ q.at = "authorizing"
  BY <1>2, PaidKnown
<1>4. paidRequest' = [paidRequest EXCEPT ![r] = x]
  BY <1>1
<1> HIDE DEF q
<1>5. e \in Nat \ {0} /\ e <= mainEpoch
  BY <1>3, PaidKnown, MainKnown DEF Knows, PaidOnes
<1> HIDE DEF e
<1>6. served \in Answers
  BY AnswerValues
<1>7. x \in PaidOnes /\ x.at = "loading" /\ x.lineage = e /\ x.loaded = q.loaded /\ x.feed = q.feed
  BY <1>3, <1>5, <1>6, PlaceValues DEF PaidOnes
<1> HIDE DEF x
<1>8. Knows(x)
  BY <1>3, <1>5, <1>7 DEF Knows
<1> QED
  BY <1>2, <1>4, <1>7, <1>8, PaidKnown, RequestMoves

LEMMA LoadAccountsKeeps ==
  ASSUME PaidInv, NEW r \in PaidRequests, LoadAccounts(r)
  PROVE  PaidInv'
<1> DEFINE q == paidRequest[r]
           n == IF q.access THEN quotaManager.resolutions + 1 ELSE q.resolution
           k == IF q.access THEN quotaManager.resolutions + 1 ELSE quotaManager.resolutions
           x == [q EXCEPT !.at = "resolving", !.loaded = storedUsage, !.resolution = n]
           m == [quotaManager EXCEPT !.resolutions = k]
<1>1. paidRequest' = [paidRequest EXCEPT ![r] = x] /\ quotaManager' = m
  BY DEF LoadAccounts
<1>2. UNCHANGED <<mainEpoch, storedUsage, observed, usagePoll>>
  BY DEF LoadAccounts
<1>3. q \in PaidOnes /\ Knows(q) /\ q.at = "loading"
  BY PaidKnown DEF LoadAccounts, RequestAt
<1> HIDE DEF q
<1>4. n \in Nat /\ k \in Nat
  BY <1>3, PaidKnown DEF PaidOnes, Managers
<1> HIDE DEF n, k
<1>5. x \in PaidOnes /\ x.at = "resolving" /\ x.lineage = q.lineage /\ x.loaded = storedUsage /\ x.feed = q.feed
  BY <1>3, <1>4, PaidKnown, PlaceValues DEF PaidOnes
<1> HIDE DEF x
<1>6. Knows(x)
  BY <1>3, <1>5, PaidKnown DEF Knows
<1>7. m \in Managers /\ m.reading = quotaManager.reading
  BY <1>4, PaidKnown DEF Managers
<1> HIDE DEF m
<1> QED
  BY <1>1, <1>2, <1>5, <1>6, <1>7, PaidKnown, RequestMoves

\* Whoever binds the manager keeps its reading or drops it.
LEMMA IdentifiedMakes ==
  ASSUME PaidInv, NEW r \in PaidRequests, paidRequest[r].at = "resolving", NEW m \in Identified(r)
  PROVE  MadeFrom(quotaManager, m)
<1> DEFINE q == paidRequest[r]
           account == AccountOf(q.lineage)
           M == quotaManager
<1>1. q \in PaidOnes /\ Knows(q) /\ q.at = "resolving" /\ M \in Managers
  BY PaidKnown
<1>2. q.lineage \in Epochs /\ q.lineage \in Nat
  BY <1>1, PaidKnown, MainKnown DEF Knows, PaidOnes
<1>3. account \in Nat
  BY <1>2, Accounts
<1>4. MadeFrom(M, Reconciled(M, 0, account)) /\ MadeFrom(M, Reconciled(M, q.lineage, account))
  BY <1>1, <1>2, <1>3, ReconciledMakes
<1>5. MadeFrom(M, M)
  BY <1>1 DEF MadeFrom
<1>6. \/ m = Reconciled(M, 0, account)
      \/ m = [Reconciled(M, q.lineage, account) EXCEPT !.provider = account]
      \/ m = [M EXCEPT !.provider = account]
  BY DEF Identified
<1>7. ASSUME NEW x, MadeFrom(M, x)
      PROVE  MadeFrom(M, [x EXCEPT !.provider = account])
  <2> HIDE DEF account
  <2> QED
    BY <1>3, <1>7 DEF MadeFrom, Managers
<1> QED
  BY <1>4, <1>5, <1>6, <1>7

LEMMA ResolveIdentityKeeps ==
  ASSUME PaidInv, NEW r \in PaidRequests, ResolveIdentity(r)
  PROVE  PaidInv'
<1>1. CASE Identified(r) = {} /\ GoesTo(r, "over") /\ UNCHANGED quotaManager
  <2>1. UNCHANGED <<mainEpoch, storedUsage, quotaManager, observed, usagePoll>>
    BY <1>1 DEF ResolveIdentity
  <2> QED
    BY <1>1, <2>1, GoesOn, PlaceValues
<1>2. CASE \E m \in Identified(r) :
          /\ quotaManager' \in Seeded(m, paidRequest[r].loaded)
          /\ paidRequest' = [paidRequest EXCEPT ![r].at = "routing", ![r].generation = m.generation,
                               ![r].account = AccountOf(paidRequest[r].lineage)]
  <2>1. PICK m \in Identified(r) :
          /\ quotaManager' \in Seeded(m, paidRequest[r].loaded)
          /\ paidRequest' = [paidRequest EXCEPT ![r].at = "routing", ![r].generation = m.generation,
                               ![r].account = AccountOf(paidRequest[r].lineage)]
    BY <1>2
  <2> DEFINE q == paidRequest[r]
             a == AccountOf(q.lineage)
             g == m.generation
             x == [q EXCEPT !.at = "routing", !.generation = g, !.account = a]
  <2>2. q \in PaidOnes /\ Knows(q) /\ q.at = "resolving"
    BY PaidKnown DEF ResolveIdentity, RequestAt
  <2>3. UNCHANGED <<mainEpoch, storedUsage, observed, usagePoll>> /\ paidRequest' = [paidRequest EXCEPT ![r] = x]
    BY <2>1 DEF ResolveIdentity
  <2>4. MadeFrom(quotaManager, m)
    BY <2>1, <2>2, IdentifiedMakes
  <2>5. q.loaded \in Nat /\ Past(q.loaded)
    BY <2>2 DEF PaidOnes, Knows
  <2>6. m \in Managers /\ Honest(m.reading) /\ g \in Nat
    BY <2>4, PaidKnown, NothingHonest DEF MadeFrom, Managers
  <2>7. Honest([of |-> q.loaded, tag |-> q.loaded])
    BY <2>5 DEF Honest
  <2>8. quotaManager' \in Managers /\ Honest(quotaManager'.reading)
    BY <2>1, <2>5, <2>6, <2>7, SeededMakes
  <2>9. q.lineage \in Nat \ {0} /\ a \in Nat
    BY <2>2, PaidKnown, MainKnown DEF Knows, PaidOnes
  <2> HIDE DEF q, a, g
  <2>10. /\ x \in PaidOnes /\ x.at = "routing" /\ x.lineage = q.lineage /\ x.account = a
         /\ x.loaded = q.loaded /\ x.feed = q.feed
    BY <2>2, <2>6, <2>9, PlaceValues DEF PaidOnes
  <2> HIDE DEF x
  <2>11. Knows(x)
    BY <2>2, <2>9, <2>10 DEF Knows, a
  <2> QED
    BY <2>3, <2>8, <2>10, <2>11, PaidKnown, RequestMoves
<1> QED
  BY <1>1, <1>2 DEF ResolveIdentity

LEMMA AskUsageKeeps ==
  ASSUME PaidInv, NEW r \in PaidRequests, AskUsage(r)
  PROVE  PaidInv'
<1> DEFINE q == paidRequest[r]
           x(p) == [q EXCEPT !.at = "waiting", !.on = p]
           poll == [NoPoll EXCEPT !.at = "queued", !.tag = q.account, !.generation = quotaManager.generation]
<1>1. q \in PaidOnes /\ Knows(q) /\ q.at = "routing"
  BY PaidKnown DEF AskUsage, RequestAt
<1>2. UNCHANGED <<mainEpoch, storedUsage, quotaManager, observed>>
  BY DEF AskUsage
<1>3. \/ GoesTo(r, IF q.answered THEN "over" ELSE "sending") /\ UNCHANGED usagePoll
      \/ \E p \in PaidRequests : paidRequest' = [paidRequest EXCEPT ![r] = x(p)] /\ UNCHANGED usagePoll
      \/ /\ paidRequest' = [paidRequest EXCEPT ![r] = x(r)]
         /\ usagePoll' = [usagePoll EXCEPT ![r] = poll]
  BY DEF AskUsage
<1>4. ASSUME NEW p \in PaidRequests
      PROVE  x(p) \in PaidOnes /\ Knows(x(p))
  <2> HIDE DEF q
  <2>1. /\ x(p) \in PaidOnes /\ x(p).at = "waiting" /\ x(p).lineage = q.lineage /\ x(p).account = q.account
        /\ x(p).loaded = q.loaded /\ x(p).feed = q.feed
    BY <1>1, PlaceValues DEF PaidOnes
  <2> HIDE DEF x
  <2> QED
    BY <1>1, <2>1 DEF Knows
<1>5. poll \in Polls /\ PollKnows(poll)
  <2>1. q.account \in Nat /\ Past(q.account) /\ quotaManager.generation \in Nat
    BY <1>1, PaidKnown, MainKnown DEF Knows, PaidOnes, Managers
  <2> HIDE DEF q
  <2>2. poll \in Polls /\ poll.at = "queued" /\ poll.tag = q.account /\ poll.lineage = 0 /\ poll.of = 0
    BY <2>1, PlaceValues DEF Polls, NoPoll
  <2> HIDE DEF poll
  <2> QED
    BY <2>1, <2>2, PaidKnown, MainKnown DEF PollKnows
<1> HIDE DEF x, poll
<1>6. CASE GoesTo(r, IF q.answered THEN "over" ELSE "sending") /\ UNCHANGED usagePoll
  BY <1>1, <1>2, <1>6, GoesOn, PlaceValues
<1>7. CASE \E p \in PaidRequests : paidRequest' = [paidRequest EXCEPT ![r] = x(p)] /\ UNCHANGED usagePoll
  BY <1>2, <1>4, <1>7, PaidKnown, RequestMoves
<1>8. CASE /\ paidRequest' = [paidRequest EXCEPT ![r] = x(r)]
           /\ usagePoll' = [usagePoll EXCEPT ![r] = poll]
  <2>1. PaidTypes'
    BY <1>2, <1>4, <1>5, <1>8 DEF PaidInv, PaidTypes
  <2>2. \A s \in PaidRequests : Knows(paidRequest'[s]) /\ PollKnows(usagePoll'[s])
    BY <1>4, <1>5, <1>8 DEF PaidInv, PaidTypes
  <2> QED
    BY <1>2, <2>1, <2>2, PaidKnown, PaidStep
<1> QED
  BY <1>3, <1>6, <1>7, <1>8

\* A poll that ends keeps what it has.
LEMMA PollEndsKeeps ==
  ASSUME PaidInv, NEW r \in PaidRequests, PollEnds(r), UNCHANGED <<mainEpoch, paidRequest>>,
         quotaManager' \in Managers, Honest(quotaManager'.reading),
         storedUsage' \in Nat, Past(storedUsage'), observed' \in Nat, observed' <= mainEpoch
  PROVE  PaidInv'
<1> DEFINE p == usagePoll[r]
           x == [p EXCEPT !.at = "done"]
<1>1. p \in Polls /\ PollKnows(p)
  BY PaidKnown
<1>2. usagePoll' = [usagePoll EXCEPT ![r] = x]
  BY DEF PollEnds
<1> HIDE DEF p
<1>3. x \in Polls /\ x.at = "done" /\ x.tag = p.tag /\ x.lineage = p.lineage /\ x.of = p.of
  BY <1>1, PlaceValues DEF Polls
<1> HIDE DEF x
<1>4. PollKnows(x)
  BY <1>1, <1>3 DEF PollKnows
<1> QED
  BY <1>2, <1>3, <1>4, PollMoves

LEMMA AuthorizePollKeeps ==
  ASSUME PaidInv, NEW r \in PaidRequests, AuthorizePoll(r)
  PROVE  PaidInv'
<1> DEFINE p == usagePoll[r]
           x == [p EXCEPT !.at = "authorized", !.lineage = mainEpoch]
<1>1. UNCHANGED <<mainEpoch, storedUsage, quotaManager, observed, paidRequest>>
  BY DEF AuthorizePoll
<1>2. PollEnds(r) \/ usagePoll' = [usagePoll EXCEPT ![r] = x]
  BY DEF AuthorizePoll
<1>3. p \in Polls /\ PollKnows(p) /\ mainEpoch \in Nat \ {0}
  BY PaidKnown, MainKnown
<1> HIDE DEF p
<1>4. x \in Polls /\ x.at = "authorized" /\ x.tag = p.tag /\ x.lineage = mainEpoch /\ x.of = p.of
  BY <1>3, PlaceValues DEF Polls
<1> HIDE DEF x
<1>5. PollKnows(x)
  BY <1>3, <1>4 DEF PollKnows
<1> QED
  BY <1>1, <1>2, <1>4, <1>5, PaidKnown, PollMoves, PollEndsKeeps

LEMMA DispatchPollKeeps ==
  ASSUME PaidInv, NEW r \in PaidRequests, DispatchPoll(r)
  PROVE  PaidInv'
<1> DEFINE p == usagePoll[r]
           x == [p EXCEPT !.at = "answered", !.of = MainAccount]
<1>1. UNCHANGED <<mainEpoch, storedUsage, quotaManager, observed, paidRequest>>
  BY DEF DispatchPoll
<1>2. PollEnds(r) \/ usagePoll' = [usagePoll EXCEPT ![r] = x]
  BY DEF DispatchPoll
<1>3. p \in Polls /\ PollKnows(p) /\ MainAccount \in Nat /\ Past(MainAccount)
  BY PaidKnown, MainKnown
<1> HIDE DEF p
<1>4. x \in Polls /\ x.at = "answered" /\ x.tag = p.tag /\ x.lineage = p.lineage /\ x.of = MainAccount
  BY <1>3, PlaceValues DEF Polls
<1> HIDE DEF x
<1>5. PollKnows(x)
  BY <1>3, <1>4 DEF PollKnows
<1> QED
  BY <1>1, <1>2, <1>4, <1>5, PaidKnown, PollMoves, PollEndsKeeps

\* The reading published has the poll's own account by the name it asked for.
LEMMA CompletePollKeeps ==
  ASSUME PaidInv, NEW r \in PaidRequests, CompletePoll(r)
  PROVE  PaidInv'
<1> DEFINE p == usagePoll[r]
           reading == [of |-> p.of, tag |-> p.tag]
           m == [quotaManager EXCEPT !.reading = reading, !.account = p.tag]
<1>1. /\ storedUsage' = IF p.lineage = mainEpoch THEN p.of ELSE storedUsage
      /\ observed' = IF p.lineage = mainEpoch THEN p.lineage ELSE 0
      /\ quotaManager' \in {m, quotaManager}
      /\ PollEnds(r) /\ UNCHANGED <<mainEpoch, paidRequest>> /\ p.at = "answered"
  BY DEF CompletePoll
<1>2. p \in Polls /\ PollKnows(p)
  BY PaidKnown
<1> HIDE DEF p
<1>3. p.of \in Nat /\ Past(p.of) /\ p.tag \in Nat /\ Past(p.tag) /\ p.lineage \in Nat /\ p.lineage <= mainEpoch
  BY <1>2 DEF Polls, PollKnows
<1>4. reading \in Readings /\ reading.of = p.of /\ reading.tag = p.tag
  BY <1>3 DEF Readings
<1> HIDE DEF reading
<1>5. Honest(reading)
  BY <1>1, <1>2, <1>3, <1>4 DEF Honest, PollKnows
<1>6. m \in Managers /\ m.reading = reading
  BY <1>3, <1>4, PaidKnown DEF Managers
<1> HIDE DEF m
<1>7. quotaManager' \in Managers /\ Honest(quotaManager'.reading)
  BY <1>1, <1>5, <1>6, PaidKnown
<1>8. storedUsage' \in Nat /\ Past(storedUsage')
  BY <1>1, <1>3, PaidKnown
<1>9. observed' \in Nat /\ observed' <= mainEpoch
  BY <1>1, <1>3, PaidKnown, MainKnown
<1> QED
  BY <1>1, <1>7, <1>8, <1>9, PollEndsKeeps

LEMMA SendToMainKeeps ==
  ASSUME PaidInv, NEW r \in PaidRequests, SendToMain(r)
  PROVE  PaidInv'
<1>1. UNCHANGED <<mainEpoch, storedUsage, quotaManager, usagePoll>> /\ paidRequest[r].at = "sending"
  BY DEF SendToMain, RequestAt
<1>2. CASE GoesTo(r, "over") /\ UNCHANGED observed
  BY <1>1, <1>2, GoesOn, PlaceValues
<1>3. CASE \E headers \in {TRUE, FALSE}, limited \in {TRUE, FALSE} :
            LET harvested == headers /\ quotaManager.generation = paidRequest[r].generation
            IN  /\ observed' = IF harvested THEN mainEpoch ELSE observed
                /\ paidRequest' = [paidRequest EXCEPT ![r].at = IF limited THEN "routing" ELSE "over",
                     ![r].answered = TRUE, ![r].feed = IF harvested THEN mainEpoch ELSE 0]
  <2>1. PICK harvested \in BOOLEAN, limited \in {TRUE, FALSE} :
           /\ observed' = IF harvested THEN mainEpoch ELSE observed
           /\ paidRequest' = [paidRequest EXCEPT ![r].at = IF limited THEN "routing" ELSE "over",
                     ![r].answered = TRUE, ![r].feed = IF harvested THEN mainEpoch ELSE 0]
    BY <1>3, Zenon
  <2> DEFINE q == paidRequest[r]
             place == IF limited THEN "routing" ELSE "over"
             feed == IF harvested THEN mainEpoch ELSE 0
             yes == TRUE
             x == [q EXCEPT !.at = place, !.answered = yes, !.feed = feed]
  <2>2. q \in PaidOnes /\ Knows(q) /\ q.at = "sending" /\ mainEpoch \in Nat \ {0}
    BY <1>1, PaidKnown, MainKnown
  <2>3. paidRequest' = [paidRequest EXCEPT ![r] = x]
    BY <2>1
  <2>4. place \in PaidPlaces /\ place \in {"routing", "over"}
    BY PlaceValues
  <2>8. feed \in Nat /\ feed <= mainEpoch
    BY <2>2
  <2>9. yes \in Answers
    BY AnswerValues
  <2> HIDE DEF q, place, feed, yes
  <2>5. /\ x \in PaidOnes /\ x.at = place /\ x.lineage = q.lineage /\ x.account = q.account
        /\ x.loaded = q.loaded /\ x.feed = feed
    BY <2>2, <2>4, <2>8, <2>9 DEF PaidOnes
  <2> HIDE DEF x
  <2>6. Knows(x)
    BY <2>2, <2>4, <2>5, <2>8 DEF Knows
  <2>7. observed' \in Nat /\ observed' <= mainEpoch
    BY <2>1, <2>2, PaidKnown
  <2> QED
    BY <1>1, <2>3, <2>5, <2>6, <2>7, PaidKnown, RequestMoves
<1> QED
  BY <1>2, <1>3 DEF SendToMain

LEMMA CommitHeadersKeeps ==
  ASSUME PaidInv, NEW r \in PaidRequests, CommitHeaders(r)
  PROVE  PaidInv'
<1> DEFINE q == paidRequest[r]
           used == AccountOf(q.feed)
           reading == [of |-> used, tag |-> used]
           m == [quotaManager EXCEPT !.account = q.account, !.reading = reading]
           x == [q EXCEPT !.feed = 0]
<1>1. /\ q.feed # 0 /\ UNCHANGED <<mainEpoch, usagePoll>> /\ paidRequest' = [paidRequest EXCEPT ![r] = x]
      /\ storedUsage' \in {used, storedUsage} /\ observed' \in {0, observed} /\ quotaManager' \in {m, quotaManager}
  BY DEF CommitHeaders
<1>2. q \in PaidOnes /\ Knows(q)
  BY PaidKnown
<1>3. used \in Nat /\ Past(used)
  <2>1. q.feed \in Nat \ {0} /\ q.feed <= mainEpoch
    BY <1>1, <1>2 DEF PaidOnes, Knows
  <2> QED
    BY <2>1, PaidKnown, MainKnown
<1> HIDE DEF q, used
<1>4. reading \in Readings /\ reading.of = used /\ reading.tag = used
  BY <1>3 DEF Readings
<1> HIDE DEF reading
<1>5. Honest(reading)
  BY <1>3, <1>4 DEF Honest
<1>6. m \in Managers /\ m.reading = reading
  BY <1>2, <1>4, PaidKnown DEF Managers, PaidOnes
<1>7. /\ x \in PaidOnes /\ x.at = q.at /\ x.lineage = q.lineage /\ x.account = q.account
      /\ x.loaded = q.loaded /\ x.feed = 0 /\ x.for = q.for
  BY <1>2 DEF PaidOnes
<1> HIDE DEF m, x
<1>8. Knows(x)
  BY <1>2, <1>7, PaidKnown, MainKnown DEF Knows
<1>9. observed' \in Nat /\ observed' <= mainEpoch
  BY <1>1, PaidKnown, MainKnown
<1> QED
  BY <1>1, <1>3, <1>5, <1>6, <1>7, <1>8, <1>9, PaidKnown, RequestMoves

\* The account main stands for is the request's, and its usage is read from
\* headers of this very epoch, or by its own name.
LEMMA SpentIsMains ==
  ASSUME PaidInv, NEW r \in PaidRequests, paidRequest[r].at = "confirming",
         SamePrimary(paidRequest[r]), MainIsSpent(paidRequest[r])
  PROVE  MainAccount \in SpentAccounts
<1> DEFINE q == paidRequest[r]
<1>1. q \in PaidOnes /\ Knows(q) /\ q.lineage = mainEpoch /\ q.account = MainAccount
  BY PaidKnown, MainKnown DEF Knows, SamePrimary
<1>2. RoutingUsage(q) \in SpentAccounts
  BY DEF MainIsSpent
<1>3. CASE observed = q.lineage
  BY <1>1, <1>2, <1>3, PaidKnown, MainKnown DEF RoutingUsage
<1>4. CASE observed # q.lineage
  <2>1. GetMain(q.account) \in SpentAccounts
    BY <1>2, <1>4 DEF RoutingUsage
  <2>2. GetMain(q.account) \in {0, MainAccount}
    BY <1>1, PaidKnown DEF GetMain, Honest
  <2> QED
    BY <2>1, <2>2, Accounts
<1> QED
  BY <1>3, <1>4

LEMMA UseApiKeyKeeps ==
  ASSUME PaidInv, NEW r \in PaidRequests, UseApiKey(r)
  PROVE  PaidInv'
<1> DEFINE q == paidRequest[r]
           x == [q EXCEPT !.at = "paid", !.for = MainAccount]
<1>1. UNCHANGED <<mainEpoch, storedUsage, quotaManager, observed, usagePoll>> /\ q.at = "confirming"
  BY DEF UseApiKey, RequestAt
<1>2. CASE GoesTo(r, "over")
  BY <1>1, <1>2, GoesOn, PlaceValues
<1>3. CASE /\ SamePrimary(q) /\ MainIsSpent(q)
           /\ paidRequest' = [paidRequest EXCEPT ![r].at = "paid", ![r].for = MainAccount]
  <2>1. MainAccount \in SpentAccounts
    BY <1>1, <1>3, SpentIsMains
  <2>2. q \in PaidOnes /\ Knows(q) /\ MainAccount \in Nat
    BY PaidKnown, MainKnown
  <2>3. paidRequest' = [paidRequest EXCEPT ![r] = x]
    BY <1>3
  <2> HIDE DEF q
  <2>4. x \in PaidOnes /\ x.at = "paid" /\ x.lineage = q.lineage /\ x.loaded = q.loaded /\ x.feed = q.feed /\ x.for = MainAccount
    BY <2>2, PlaceValues DEF PaidOnes
  <2> HIDE DEF x
  <2>5. Knows(x)
    BY <2>1, <2>2, <2>4 DEF Knows
  <2> QED
    BY <1>1, <2>3, <2>4, <2>5, PaidKnown, RequestMoves
<1> QED
  BY <1>2, <1>3 DEF UseApiKey

---------------------------------------------------------------------------

LEMMA PaidInvInit == PaidInit => PaidInv
<1> SUFFICES ASSUME PaidInit
             PROVE  PaidInv
  OBVIOUS
<1>1. mainEpoch = 1 /\ mainEpoch \in Epochs
  BY Accounts DEF PaidInit, Epochs
<1>2. MainAccount \in Nat /\ Past(MainAccount) /\ Past(0)
  BY <1>1, MainKnown
<1>3. storedUsage \in Nat /\ Past(storedUsage)
  BY <1>2 DEF PaidInit
<1>4. NeverServed \in Nat
  BY Accounts DEF NeverServed
<1>5. quotaManager \in Managers /\ quotaManager.reading = NoReading
  BY <1>2, <1>4, NoReadingType DEF PaidInit, Managers
<1>6. NoPoll \in Polls /\ PollKnows(NoPoll)
  BY <1>1, <1>2, PlaceValues DEF NoPoll, Polls, PollKnows
<1>7. ASSUME NEW r \in PaidRequests
      PROVE  paidRequest[r] \in PaidOnes /\ Knows(paidRequest[r])
  <2> DEFINE no == FALSE
  <2>1. paidRequest[r] = [at |-> "new", access |-> no, deferred |-> no, account |-> 0, lineage |-> 0,
          generation |-> 0, resolution |-> 0, loaded |-> 0, on |-> r, answered |-> no, feed |-> 0, for |-> 0]
    BY DEF PaidInit
  <2>2. no \in Answers
    BY AnswerValues
  <2> HIDE DEF no
  <2>3. paidRequest[r] \in PaidOnes
    BY <2>1, <2>2, PlaceValues DEF PaidOnes
  <2>4. /\ paidRequest[r].at = "new" /\ paidRequest[r].lineage = 0 /\ paidRequest[r].loaded = 0
        /\ paidRequest[r].feed = 0
    BY <2>1
  <2> QED
    BY <1>1, <1>2, <2>3, <2>4 DEF Knows
<1>8. paidRequest \in [PaidRequests -> PaidOnes]
  BY <1>7 DEF PaidInit
<1>9. usagePoll \in [PaidRequests -> Polls] /\ \A r \in PaidRequests : PollKnows(usagePoll[r])
  BY <1>6 DEF PaidInit
<1> QED
  BY <1>1, <1>3, <1>5, <1>7, <1>8, <1>9, NothingHonest DEF PaidInv, PaidTypes, PaidInit

LEMMA PaidInvStep ==
  ASSUME NoneComesBack, PaidInv, [PaidNext]_paidVars
  PROVE  PaidInv'
<1>1. CASE ReplaceMain
  BY <1>1, ReplaceMainKeeps
<1>2. ASSUME NEW r \in PaidRequests, ReadSnapshot(r) \/ AuthorizeMain(r) \/ LoadAccounts(r) \/ ResolveIdentity(r)
      PROVE  PaidInv'
  BY <1>2, ReadSnapshotKeeps, AuthorizeMainKeeps, LoadAccountsKeeps, ResolveIdentityKeeps
<1>3. ASSUME NEW r \in PaidRequests, AskUsage(r) \/ AuthorizePoll(r) \/ DispatchPoll(r) \/ CompletePoll(r)
      PROVE  PaidInv'
  BY <1>3, AskUsageKeeps, AuthorizePollKeeps, DispatchPollKeeps, CompletePollKeeps
<1>4. ASSUME NEW r \in PaidRequests, PollFails(r)
      PROVE  PaidInv'
  BY <1>4, PaidKnown, PollEndsKeeps DEF PollFails
<1>5. ASSUME NEW r \in PaidRequests, AfterPoll(r) \/ TurnToPaid(r) \/ GiveUpPaid(r) \/ AuthorizePrimary(r) \/ GoToMain(r)
      PROVE  PaidInv'
  <2>1. UNCHANGED <<mainEpoch, storedUsage, quotaManager, observed, usagePoll>>
    BY <1>5 DEF AfterPoll, TurnToPaid, GiveUpPaid, AuthorizePrimary, GoToMain
  <2>2. paidRequest[r].at \in {"routing", "waiting", "paying"}
    BY <1>5 DEF AfterPoll, TurnToPaid, GiveUpPaid, AuthorizePrimary, GoToMain, RequestAt
  <2>3. \E place \in {"new", "sending", "paying", "confirming", "over"} : GoesTo(r, place)
    BY <1>5 DEF AfterPoll, TurnToPaid, GiveUpPaid, AuthorizePrimary, GoToMain
  <2> QED
    BY <2>1, <2>2, <2>3, GoesOn, PlaceValues
<1>6. ASSUME NEW r \in PaidRequests, SendToMain(r) \/ CommitHeaders(r) \/ UseApiKey(r)
      PROVE  PaidInv'
  BY <1>6, SendToMainKeeps, CommitHeadersKeeps, UseApiKeyKeeps
<1>7. CASE UNCHANGED paidVars
  <2>1. PaidTypes'
    BY <1>7 DEF PaidInv, PaidTypes, paidVars
  <2> QED
    BY <1>7, <2>1, PaidStep DEF PaidInv, paidVars
<1> QED
  BY <1>1, <1>2, <1>3, <1>4, <1>5, <1>6, <1>7 DEF PaidNext

THEOREM PaidInvariant ==
  ASSUME NoneComesBack
  PROVE  PaidSpec => []PaidInv
<1>1. PaidInv /\ [PaidNext]_paidVars => PaidInv'
  BY PaidInvStep
<1> QED
  BY <1>1, PaidInvInit, PTL DEF PaidSpec

\* PaidOnlyWhenMainIsSpent: an API key is only used while the account main
\* stands for is itself spent, if no account becomes main's a second time.
THEOREM PaidWhenSpent ==
  ASSUME NoneComesBack
  PROVE  PaidSpec => []PaidOnlyWhenMainIsSpent
<1>1. PaidInv => PaidOnlyWhenMainIsSpent
  BY DEF PaidInv, Knows, PaidOnlyWhenMainIsSpent, RequestAt
<1>2. PaidSpec => []PaidInv
  BY PaidInvariant
<1> QED
  BY <1>1, <1>2, PTL

---------------------------------------------------------------------------
(* Relay.                                                                  *)

\* The hash the worker checks makes the result of a patch the announced body,
\* whatever the worker's state is.
LEMMA ResolvedApplies ==
  ASSUME NEW state, NEW payload, Resolved(state, payload)
  PROVE  Applied(state, payload) = payload.body
BY DEF Resolved, Applied

LEMMA PostedBody ==
  ASSUME NEW r, NEW base, NEW from
  PROVE  WholeBody(r).body = r /\ PatchOn(r, base, from).body = r
BY DEF WholeBody, PatchOn

LEMMA RelayForwards ==
  ASSUME ForwardedBodyIsTheRequests, [RelayNext]_relayVars
  PROVE  ForwardedBodyIsTheRequests'
<1>1. CASE UNCHANGED forwarded
  BY <1>1 DEF ForwardedBodyIsTheRequests
<1>2. CASE WorkerTakes
  <2> DEFINE m == Head(relayer.inbox)
             w == [relayer EXCEPT !.inbox = Tail(relayer.inbox)]
  <2>1. \/ UNCHANGED forwarded
        \/ /\ Resolved(w.state, m.payload)
           /\ forwarded' = forwarded \cup {<<m.payload.body, Applied(w.state, m.payload)>>}
    BY <1>2 DEF WorkerTakes
  <2> HIDE DEF m, w
  <2> QED
    BY <2>1, <1>1, ResolvedApplies DEF ForwardedBodyIsTheRequests
<1>3. ASSUME NEW r \in Asked, NEW whole \in BOOLEAN, Post(r, whole)
      PROVE  ForwardedBodyIsTheRequests'
  <2> DEFINE payload == IF whole \/ request[r].base = NoBody THEN WholeBody(r)
                        ELSE PatchOn(r, request[r].base, request[r].base)
  <2>1. \/ UNCHANGED forwarded
        \/ /\ Resolved(kv.now, payload)
           /\ forwarded' = forwarded \cup {<<r, Applied(kv.now, payload)>>}
    BY <1>3 DEF Post
  <2>2. payload.body = r
    BY PostedBody
  <2> HIDE DEF payload
  <2> QED
    BY <2>1, <2>2, <1>1, ResolvedApplies DEF ForwardedBodyIsTheRequests
<1>4. ASSUME NEW r \in Asked,
             \/ \E optimistic \in BOOLEAN : Ask(r, optimistic)
             \/ ClientStep(r) \/ ClosedUnready(r) \/ AuthorizationFails(r) \/ HostCancels(r) \/ AbortRequest(r)
      PROVE  ForwardedBodyIsTheRequests'
  BY <1>1, <1>3, <1>4
  DEF Ask, ClientStep, Connect, ConnectFails, PrepareRelay, SendOnSocket, SendAgain, CancelledRetry, PostFails, Direct,
      ClosedUnready, AuthorizationFails, HostCancels, AbortRequest
<1>5. CASE Receive \/ Ready \/ OnBadStart \/ Lost \/ Breaks
  BY <1>1, <1>5
  DEF Receive, Ignore, OnAccepted, OnStart, OnChunk, OnDone, OnError, OnMismatch, Ready, OnBadStart, Lost, Breaks
<1>6. CASE WorkerStep
  BY <1>1, <1>2, <1>6 DEF WorkerStep, WorkerStreams, WorkerStarts, WorkerEnds
<1>7. CASE \E body \in kv.next : Checkpoint(body)
  BY <1>1, <1>7 DEF Checkpoint
<1> QED
  BY <1>1, <1>4, <1>5, <1>6, <1>7 DEF RelayNext, relayVars

\* ForwardedBodyIsTheRequests: the worker never sends another body upstream
\* than the request's, whatever body a patch was made on.
THEOREM BodiesForwarded == RelaySpec => []ForwardedBodyIsTheRequests
<1>1. RelayInit => ForwardedBodyIsTheRequests
  BY DEF RelayInit, ForwardedBodyIsTheRequests
<1> QED
  BY <1>1, RelayForwards, PTL DEF RelaySpec

=============================================================================
