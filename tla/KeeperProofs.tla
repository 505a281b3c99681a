----------------------------- MODULE KeeperProofs -----------------------------
(****************************************************************************)
(* Proofs about the keepers of caches, for any processes, sessions, faults  *)
(* and bounds.  Pi's processes, PiCacheKeep (PiInv: what each process owns, *)
(* borrows and still has to write, against the claim file and the record; a *)
(* step leaves claim and record alone (Quiet), its process owns the session *)
(* before and after (OwnerMoves), or the claim changes hands):              *)
(*   PiTypeCorrect     every variable keeps its type                        *)
(*   KeepsAlone        at most one process keeps the session warm           *)
(*   SuccessorServed   a successor finds the last body tracked, or none     *)
(* The instances of one server, SharedCacheKeep (KeepInv: how long each     *)
(* cache lives, what targets believe of it, what a pass works on):          *)
(*   WarmAsBelieved    no session is believed warmer than it is             *)
(****************************************************************************)
EXTENDS PiCacheKeep, SharedCacheKeep, Integers, SequenceTheorems, TLAPS
-----------------------------------------------------------------------------
(* The processes of Pi.                                                        *)

\* A process owns the session exactly while the claim file names it for that;
\* only a live process owns or waits for it, only an owner has a target or
\* restores, and at most one pass of a process works on a borrowed claim.
Holds(p, me, c) ==
  /\ me.owns <=> c = ClaimOf(p, "session")
  /\ me.owns \/ me.claiming => me.up
  /\ me.target # 0 => me.owns
  /\ me.start = "owner" => me.owns
  /\ \A k \in Loads : Borrowed(me, k) => c = ClaimOf(p, "sweep")
  /\ \A k, l \in Loads : Borrowed(me, k) /\ Borrowed(me, l) => k = l

\* What an owner has still to write ends with what it owes; others write nothing.
Delivers(me, record, debt) ==
  /\ ~me.owns => me.pending = 0 /\ me.queue = <<>>
  /\ me.owns => IF me.pending # 0 THEN me.pending = debt
                ELSE IF me.queue # <<>> THEN me.queue[Len(me.queue)] = debt
                ELSE record \in {0, debt}

Well(p, me, c, record, debt) ==
  me \in PiState /\ Holds(p, me, c) /\ Delivers(me, record, debt)

Unowned == \A p \in Procs : claim # ClaimOf(p, "session")

FileTypes ==
  /\ claim \in [by : Procs \cup {Nobody, Gone}, purpose : Purposes]
  /\ saved \in Nat /\ made \in Nat /\ stale \in Nat /\ owed \in Nat

PiInv ==
  /\ FileTypes
  /\ pi \in [Procs -> PiState]
  /\ \A p \in Procs : Well(p, pi[p], claim, saved, owed)
  /\ Unowned => saved \in {0, owed}

---------------------------------------------------------------------------
(* One process's state.                                                    *)

\* The process Boot starts, and the ones a shutdown and a crash leave.
LEMMA FreshProcess ==
  /\ Fresh \in PiState
  /\ [Fresh EXCEPT !.up = FALSE] \in PiState
  /\ [Fresh EXCEPT !.stopping = TRUE] \in PiState
  /\ \A k \in Loads : ~Borrowed(Fresh, k) /\ ~Borrowed([Fresh EXCEPT !.up = FALSE], k)
                      /\ ~Borrowed([Fresh EXCEPT !.stopping = TRUE], k)
<1>1. <<>> \in Seq(Nat)
  BY EmptySeq
<1>2. [k \in Loads |-> NoLoad] \in [Loads -> Load]
  BY DEF NoLoad, Load
<1>3. \A k \in Loads : [l \in Loads |-> NoLoad][k].at = "idle"
  BY DEF NoLoad
<1> QED
  BY <1>1, <1>2, <1>3 DEF Fresh, PiState, Borrowed

\* PassAt moves one pass of a process and nothing else of it.
LEMMA PassMoves ==
  ASSUME NEW me \in PiState, NEW k \in Loads,
         NEW at \in {"idle", "access", "read", "judge", "release"},
         NEW own \in BOOLEAN, NEW body \in Nat
  PROVE  LET you == PassAt(me, k, at, own, body) IN
         /\ you \in PiState
         /\ you = [me EXCEPT !.load = you.load]
         /\ Borrowed(you, k) <=> at \in {"read", "judge", "release"} /\ ~own
         /\ \A l \in Loads : l # k => (Borrowed(you, l) <=> Borrowed(me, l))
<1> DEFINE kept == [at |-> at, own |-> own, body |-> body]
           you == PassAt(me, k, at, own, body)
<1>1. you = [me EXCEPT !.load = [me.load EXCEPT ![k] = kept]]
  BY DEF PassAt
<1>2. me.load \in [Loads -> Load] /\ kept \in Load
  BY DEF PiState, Load
<1>3. [me.load EXCEPT ![k] = kept] \in [Loads -> Load]
  BY <1>2
<1>4. you.load = [me.load EXCEPT ![k] = kept]
  BY <1>1 DEF PiState
<1>5. you.load[k] = kept /\ \A l \in Loads : l # k => you.load[l] = me.load[l]
  BY <1>2, <1>4
<1>6. you \in PiState /\ you = [me EXCEPT !.load = you.load]
  BY <1>1, <1>3, <1>4 DEF PiState
<1> QED
  BY <1>5, <1>6 DEF Borrowed

\* A pass that ended: it borrows nothing, and the restore it was is over.
LEMMA LoadedProcess ==
  ASSUME NEW me \in PiState, NEW k \in Loads
  PROVE  LET you == Loaded(me, k) IN
         /\ you \in PiState
         /\ you = [me EXCEPT !.load = you.load, !.start = you.start]
         /\ you.start = "owner" => me.start = "owner"
         /\ ~Borrowed(you, k)
         /\ \A l \in Loads : l # k => (Borrowed(you, l) <=> Borrowed(me, l))
<1> DEFINE load == [me.load EXCEPT ![k] = NoLoad]
           start == IF k # "restore" THEN me.start
                    ELSE IF me.start = "owner" THEN "done" ELSE "none"
           you == Loaded(me, k)
<1>1. you = [me EXCEPT !.load = load, !.start = start]
  BY DEF Loaded
<1>2. me.load \in [Loads -> Load] /\ NoLoad \in Load
  BY DEF PiState, Load, NoLoad
<1>3. load \in [Loads -> Load] /\ load[k] = NoLoad
      /\ \A l \in Loads : l # k => load[l] = me.load[l]
  BY <1>2
<1>4. start \in {"none", "claim", "owner", "other", "done"}
      /\ (start = "owner" => me.start = "owner")
  BY DEF PiState
<1> HIDE DEF load, start
<1>5. you.load = load /\ you.start = start
  BY <1>1 DEF PiState
<1>6. you \in PiState /\ you = [me EXCEPT !.load = you.load, !.start = you.start]
  BY <1>1, <1>3, <1>4, <1>5 DEF PiState
<1> QED
  BY <1>3, <1>4, <1>5, <1>6 DEF Borrowed, NoLoad

\* What adding to the queue and taking from it leaves at its end.
LEMMA QueueEnds ==
  ASSUME NEW me \in PiState, NEW body \in Nat
  PROVE  /\ Append(me.queue, body) \in Seq(Nat) /\ Append(me.queue, body) # <<>>
         /\ Append(me.queue, body)[Len(Append(me.queue, body))] = body
         /\ me.queue # <<>> =>
              /\ Head(me.queue) \in Nat /\ Tail(me.queue) \in Seq(Nat)
              /\ Tail(me.queue) = <<>> => Head(me.queue) = me.queue[Len(me.queue)]
              /\ Tail(me.queue) # <<>> =>
                   Tail(me.queue)[Len(Tail(me.queue))] = me.queue[Len(me.queue)]
<1> DEFINE q == me.queue
<1>1. q \in Seq(Nat)
  BY DEF PiState
<1>2. Append(q, body) \in Seq(Nat) /\ Append(q, body) # <<>>
      /\ Append(q, body)[Len(Append(q, body))] = body
  BY <1>1, AppendProperties
<1>3. ASSUME q # <<>>
      PROVE  /\ Head(q) \in Nat /\ Tail(q) \in Seq(Nat)
             /\ Tail(q) = <<>> => Head(q) = q[Len(q)]
             /\ Tail(q) # <<>> => Tail(q)[Len(Tail(q))] = q[Len(q)]
  <2>1. Head(q) \in Nat /\ Tail(q) \in Seq(Nat) /\ Len(Tail(q)) = Len(q) - 1
        /\ \A i \in 1..Len(Tail(q)) : Tail(q)[i] = q[i + 1]
    BY <1>1, <1>3, HeadTailProperties
  <2>2. Head(q) = q[1] /\ Len(q) \in Nat /\ Len(Tail(q)) \in Nat
    BY <1>1, <1>3, <2>1, LenProperties
  <2>3. Tail(q) = <<>> <=> Len(Tail(q)) = 0
    BY <2>1, EmptySeq
  <2> QED
    BY <2>1, <2>2, <2>3
<1> QED
  BY <1>2, <1>3

---------------------------------------------------------------------------
(* The three kinds of step.                                                *)

Moves(p, me) == pi' = [pi EXCEPT ![p] = me]

\* All processes are well if the one that moved and the others are.
LEMMA AllWell ==
  ASSUME PiInv, NEW p \in Procs, NEW me, Moves(p, me), FileTypes',
         Well(p, me, claim', saved', owed'),
         \A q \in Procs \ {p} : Well(q, pi[q], claim', saved', owed'),
         (Unowned => saved \in {0, owed})'
  PROVE  PiInv'
<1>1. me \in PiState /\ pi' \in [Procs -> PiState]
  BY DEF Moves, PiInv, Well
<1>2. pi'[p] = me /\ \A q \in Procs \ {p} : pi'[q] = pi[q]
  BY <1>1 DEF Moves, PiInv
<1>3. \A q \in Procs : Well(q, pi'[q], claim', saved', owed')
  BY <1>2
<1> QED
  BY <1>1, <1>3 DEF PiInv

LEMMA Quiet ==
  ASSUME PiInv, NEW p \in Procs, NEW me, Moves(p, me),
         Well(p, me, claim, saved, owed),
         UNCHANGED <<claim, saved, owed>>, made' \in Nat, stale' \in Nat
  PROVE  PiInv'
<1>1. FileTypes' /\ (Unowned => saved \in {0, owed})'
  BY DEF PiInv, FileTypes, Unowned
<1>2. \A q \in Procs \ {p} : Well(q, pi[q], claim', saved', owed')
  BY DEF PiInv
<1> QED
  BY <1>1, <1>2, AllWell

\* Two processes are not named by one claim.
LEMMA ClaimsDiffer ==
  ASSUME NEW p, NEW q, NEW v, NEW w, ClaimOf(p, v) = ClaimOf(q, w)
  PROVE  p = q /\ v = w
  BY DEF ClaimOf

\* While one process has the claim for the session, what the others deliver
\* does not depend on the record.
LEMMA OwnerMoves ==
  ASSUME PiInv, NEW p \in Procs, NEW me, Moves(p, me), pi[p].owns,
         Well(p, me, claim, saved', owed'),
         claim' = claim, saved' \in Nat, owed' \in Nat, made' \in Nat, stale' \in Nat
  PROVE  PiInv'
<1>1. claim = ClaimOf(p, "session")
  BY DEF PiInv, Well, Holds
<1>2. FileTypes' /\ (Unowned => saved \in {0, owed})'
  BY <1>1 DEF PiInv, FileTypes, Unowned
<1>3. ASSUME NEW q \in Procs \ {p}
      PROVE  Well(q, pi[q], claim', saved', owed')
  <2>1. ~pi[q].owns /\ Well(q, pi[q], claim, saved, owed)
    BY <1>1, ClaimsDiffer DEF PiInv, Well, Holds
  <2> QED
    BY <2>1 DEF Well, Delivers
<1> QED
  BY <1>2, <1>3, AllWell

\* A claim that is free, or a dead process's, is nobody's: no process owns
\* the session or works on a borrowed claim.
LEMMA NobodyHolds ==
  ASSUME PiInv, Claimable
  PROVE  /\ Unowned /\ saved \in {0, owed}
         /\ \A q \in Procs : ~pi[q].owns /\ \A k \in Loads : ~Borrowed(pi[q], k)
<1>1. \A q \in Procs, w \in Purposes : claim # ClaimOf(q, w)
  BY PiAssumption DEF Claimable, ClaimOf
<1>2. Unowned
  BY <1>1 DEF Unowned, Purposes
<1> QED
  BY <1>1, <1>2 DEF PiInv, Well, Holds, Purposes

LEMMA ClaimTypes ==
  ASSUME NEW p \in Procs, NEW w \in {"session", "sweep"}
  PROVE  /\ FreeClaim \in [by : Procs \cup {Nobody, Gone}, purpose : Purposes]
         /\ ClaimOf(p, w) \in [by : Procs \cup {Nobody, Gone}, purpose : Purposes]
  BY DEF FreeClaim, ClaimOf, Purposes

---------------------------------------------------------------------------
(* Opening, claiming and shutting down.                                    *)

LEMMA OpeningKeeps ==
  ASSUME PiInv, NEW p \in Procs,
         Boot(p) \/ Open(p) \/ Yields(p) \/ ClaimFails(p) \/ Stop(p) \/ StopDrains(p)
           \/ StopFails(p)
  PROVE  PiInv'
<1>1. pi[p] \in PiState /\ Well(p, pi[p], claim, saved, owed) /\ pi \in [Procs -> PiState]
  BY DEF PiInv
<1>2. UNCHANGED <<claim, saved, owed>> /\ made' \in Nat /\ stale' \in Nat
  BY DEF PiInv, FileTypes, Boot, Open, Yields, ClaimFails, Stop, StopDrains, StopFails
<1>3. CASE Boot(p)
  <2>1. Moves(p, Fresh)
    BY <1>3 DEF Boot, Moves
  <2>2. ~pi[p].owns
    BY <1>1, <1>3 DEF Boot, Well, Holds
  <2>3. Well(p, Fresh, claim, saved, owed)
    BY <1>1, <2>2, FreshProcess DEF Well, Holds, Delivers, Fresh
  <2> QED
    BY <1>2, <2>1, <2>3, Quiet
<1>4. CASE Open(p)
  <2> DEFINE me == [pi[p] EXCEPT !.stopping = FALSE,
                                 !.start = IF pi[p].owns THEN "owner" ELSE "claim",
                                 !.claiming = ~pi[p].owns]
  <2>1. Moves(p, me)
    BY <1>1, <1>4 DEF Open, Moves
  <2>2. me \in PiState
    BY <1>1 DEF PiState
  <2>3. Well(p, me, claim, saved, owed)
    BY <1>1, <1>4, <2>2 DEF Open, Well, Holds, Delivers, Borrowed, PiState
  <2> QED
    BY <1>2, <2>1, <2>3, Quiet
<1>5. CASE Yields(p) \/ ClaimFails(p)
  <2> DEFINE me == Refused(pi[p])
  <2>1. Moves(p, me)
    BY <1>1, <1>5 DEF Yields, ClaimFails, Moves
  <2>2. me \in PiState
    BY <1>1 DEF PiState, Refused
  <2>3. Well(p, me, claim, saved, owed)
    BY <1>1, <2>2 DEF Refused, Well, Holds, Delivers, Borrowed, PiState
  <2> QED
    BY <1>2, <2>1, <2>3, Quiet
<1>6. CASE Stop(p)
  <2> DEFINE me == [pi[p] EXCEPT !.stopping = TRUE, !.stop = "waiting"]
  <2>1. Moves(p, me)
    BY <1>1, <1>6 DEF Stop, Moves
  <2>2. me \in PiState
    BY <1>1 DEF PiState
  <2>3. Well(p, me, claim, saved, owed)
    BY <1>1, <2>2 DEF Well, Holds, Delivers, Borrowed, PiState
  <2> QED
    BY <1>2, <2>1, <2>3, Quiet
<1>7. CASE StopDrains(p)
  <2> DEFINE me == [pi[p] EXCEPT !.stop = "draining"]
  <2>1. Moves(p, me)
    BY <1>1, <1>7 DEF StopDrains, Moves
  <2>2. me \in PiState
    BY <1>1 DEF PiState
  <2>3. Well(p, me, claim, saved, owed)
    BY <1>1, <2>2 DEF Well, Holds, Delivers, Borrowed, PiState
  <2> QED
    BY <1>2, <2>1, <2>3, Quiet
<1>8. CASE StopFails(p)
  <2> DEFINE me == [pi[p] EXCEPT !.target = 0, !.stop = "no"]
  <2>1. Moves(p, me)
    BY <1>1, <1>8 DEF StopFails, Moves
  <2>2. me \in PiState
    BY <1>1 DEF PiState
  <2>3. Well(p, me, claim, saved, owed)
    BY <1>1, <2>2 DEF Well, Holds, Delivers, Borrowed, PiState
  <2> QED
    BY <1>2, <2>1, <2>3, Quiet
<1> QED
  BY <1>3, <1>4, <1>5, <1>6, <1>7, <1>8

\* A body the owner tracks is its target and what it owes, unless its store
\* gave up.
LEMMA TargetChanges ==
  ASSUME PiInv, NEW p \in Procs, NEW me \in PiState, NEW body \in Nat, body # 0,
         me.owns, NEW c, Well(p, me, c, saved, owed)
  PROVE  Well(p, Changed(me, body), c, saved, Owed(me, body)) /\ Owed(me, body) \in Nat
<1>1. Changed(me, body) \in PiState
  BY DEF Changed, PiState
<1>2. Owed(me, body) \in Nat
  BY DEF Owed, PiInv, FileTypes
<1>3. CASE me.disabled
  BY <1>1, <1>2, <1>3 DEF Changed, Owed, Well, Holds, Delivers, Borrowed, PiState
<1>4. CASE ~me.disabled
  BY <1>1, <1>2, <1>4 DEF Changed, Owed, Well, Holds, Delivers, Borrowed, PiState
<1> QED
  BY <1>3, <1>4

LEMMA ClaimsKeeps ==
  ASSUME PiInv, NEW p \in Procs, Claims(p)
  PROVE  PiInv'
<1> DEFINE c == ClaimOf(p, "session")
           me == [pi[p] EXCEPT !.claiming = FALSE, !.owns = TRUE, !.accepted = 0,
                               !.start = IF @ = "claim" THEN "owner" ELSE @]
           body == pi[p].accepted
<1>1. pi[p] \in PiState /\ Well(p, pi[p], claim, saved, owed) /\ FileTypes
  BY DEF PiInv
<1>2. pi[p].claiming /\ saved \in {0, owed} /\ (\A q \in Procs : ~pi[q].owns)
      /\ \A q \in Procs, k \in Loads : ~Borrowed(pi[q], k)
  BY NobodyHolds DEF Claims
<1>3. me \in PiState /\ body \in Nat /\ me.owns
  BY <1>1 DEF PiState
<1>4. Well(p, me, c, saved, owed)
  BY <1>1, <1>2, <1>3 DEF Well, Holds, Delivers, Borrowed, PiState
<1>5. claim' = c /\ Tracks(p, me, body) /\ UNCHANGED <<saved, made, stale>>
  BY DEF Claims
<1>6. PICK you : Moves(p, you) /\ Well(p, you, c, saved, owed') /\ owed' \in Nat
  <2>1. CASE body > stale /\ Moves(p, Changed(me, body)) /\ owed' = Owed(me, body)
    <3>1. body # 0
      BY <1>1, <1>3, <2>1 DEF FileTypes
    <3>2. Well(p, Changed(me, body), c, saved, Owed(me, body)) /\ Owed(me, body) \in Nat
      <4> HIDE DEF me, c, body
      <4> QED
        BY <1>3, <1>4, <3>1, TargetChanges
    <3> QED
      BY <2>1, <3>2
  <2>2. CASE Moves(p, me) /\ owed' = owed
    BY <1>1, <1>4, <2>2 DEF FileTypes
  <2> QED
    BY <1>5, <2>1, <2>2 DEF Tracks, Moves
<1>7. FileTypes' /\ (Unowned => saved \in {0, owed})'
  BY <1>1, <1>5, <1>6, ClaimTypes DEF FileTypes, Unowned
<1>8. ASSUME NEW q \in Procs \ {p}
      PROVE  Well(q, pi[q], claim', saved', owed')
  <2>1. c # ClaimOf(q, "session")
    BY ClaimsDiffer
  <2>2. Well(q, pi[q], claim, saved, owed)
    BY DEF PiInv
  <2> QED
    BY <1>2, <1>5, <2>1, <2>2 DEF Well, Holds, Delivers
<1> QED
  BY <1>5, <1>6, <1>7, <1>8, AllWell

\* What its owner drained is what a successor may find.
LEMMA StopReleasesKeeps ==
  ASSUME PiInv, NEW p \in Procs, StopReleases(p)
  PROVE  PiInv'
<1> DEFINE c == ClaimOf(p, "session")
           me == [Fresh EXCEPT !.stopping = TRUE]
<1>1. pi[p] \in PiState /\ Well(p, pi[p], claim, saved, owed) /\ FileTypes
  BY DEF PiInv
<1>2. Moves(p, me) /\ UNCHANGED <<saved, made, stale, owed>>
  BY DEF StopReleases, Moves
<1>3. me.owns = FALSE /\ me.claiming = FALSE /\ me.target = 0 /\ me.start = "none"
      /\ me.pending = 0 /\ me.queue = <<>>
  BY DEF Fresh
<1>4. CASE claim # c
  <2>1. claim' = claim
    BY <1>4 DEF StopReleases
  <2>2. Well(p, me, claim, saved, owed)
    BY <1>3, <1>4, FreshProcess DEF Well, Holds, Delivers
  <2> QED
    BY <1>1, <1>2, <2>1, <2>2, Quiet DEF FileTypes
<1>5. CASE claim = c
  <2>1. claim' = FreeClaim
    BY <1>5 DEF StopReleases
  <2>2. \A q \in Procs : claim' # ClaimOf(q, "session")
    BY <2>1, PiAssumption DEF FreeClaim, ClaimOf
  <2>3. saved \in {0, owed}
    BY <1>1, <1>5 DEF Well, Holds, Delivers, StopReleases, Drained
  <2>4. Well(p, me, claim', saved', owed')
    BY <1>2, <1>3, <2>2, FreshProcess DEF Well, Holds, Delivers
  <2>5. FileTypes' /\ (Unowned => saved \in {0, owed})'
    BY <1>1, <1>2, <2>1, <2>3, ClaimTypes DEF FileTypes
  <2>6. ASSUME NEW q \in Procs \ {p}
        PROVE  Well(q, pi[q], claim', saved', owed')
    <3>1. Well(q, pi[q], claim, saved, owed)
      BY DEF PiInv
    <3>2. ~pi[q].owns /\ \A k \in Loads : ~Borrowed(pi[q], k)
      BY <1>5, <3>1, ClaimsDiffer DEF Well, Holds
    <3> QED
      BY <1>2, <2>2, <3>1, <3>2 DEF Well, Holds, Delivers
  <2> QED
    BY <1>2, <2>4, <2>5, <2>6, AllWell
<1> QED
  BY <1>4, <1>5

\* A crash leaves the last body written, and the claim to no live process.
LEMMA CrashKeeps ==
  ASSUME PiInv, NEW p \in Procs, Crash(p)
  PROVE  PiInv'
<1> DEFINE me == [Fresh EXCEPT !.up = FALSE]
<1>1. FileTypes /\ \A q \in Procs : Well(q, pi[q], claim, saved, owed)
  BY DEF PiInv
<1>2. Moves(p, me) /\ UNCHANGED <<saved, made, stale>> /\ owed' = Settled(p)
      /\ claim' = IF claim.by = p THEN [claim EXCEPT !.by = Gone] ELSE claim
  BY DEF Crash, Moves
<1>3. me.owns = FALSE /\ me.claiming = FALSE /\ me.target = 0 /\ me.start = "none"
      /\ me.pending = 0 /\ me.queue = <<>>
  BY DEF Fresh
<1>4. \A q \in Procs, w \in {"session", "sweep"} :
        claim' = ClaimOf(q, w) <=> q # p /\ claim = ClaimOf(q, w)
  BY <1>1, <1>2, PiAssumption DEF ClaimOf, FileTypes
<1>5. Well(p, me, claim', saved', owed')
  BY <1>3, <1>4, FreshProcess DEF Well, Holds, Delivers
<1>6. FileTypes'
  BY <1>1, <1>2 DEF FileTypes, Settled
<1>7. ASSUME NEW q \in Procs \ {p}
      PROVE  Well(q, pi[q], claim', saved', owed')
  <2>1. pi[q].owns => claim = ClaimOf(q, "session")
    BY <1>1 DEF Well, Holds
  <2>2. pi[q].owns => owed' = owed
    BY <1>2, <2>1, ClaimsDiffer DEF Settled
  <2>3. Holds(q, pi[q], claim')
    BY <1>1, <1>4 DEF Well, Holds
  <2>4. Delivers(pi[q], saved', owed')
    BY <1>1, <1>2, <2>2 DEF Well, Delivers
  <2> QED
    BY <1>1, <2>3, <2>4 DEF Well
<1>8. (Unowned => saved \in {0, owed})'
  <2>1. CASE claim = ClaimOf(p, "session")
    BY <1>2, <2>1 DEF Settled
  <2>2. CASE claim # ClaimOf(p, "session")
    <3>1. Unowned' => Unowned
      BY <1>4, <2>2 DEF Unowned
    <3> QED
      BY <1>2, <2>2, <3>1 DEF Settled, PiInv
  <2> QED
    BY <2>1, <2>2
<1> QED
  BY <1>2, <1>5, <1>6, <1>7, <1>8, AllWell

---------------------------------------------------------------------------
(* Passes over the record.                                                 *)

\* A pass that moves on stays well if what it borrows then is the claim.
LEMMA PassWell ==
  ASSUME NEW p \in Procs, NEW me \in PiState, NEW k \in Loads,
         NEW at \in {"idle", "access", "read", "judge", "release"},
         NEW own \in BOOLEAN, NEW body \in Nat, NEW c, NEW record, NEW debt,
         Well(p, me, c, record, debt),
         at \in {"read", "judge", "release"} /\ ~own => Borrowed(me, k)
  PROVE  Well(p, PassAt(me, k, at, own, body), c, record, debt)
<1> DEFINE you == PassAt(me, k, at, own, body)
<1>1. you \in PiState /\ you = [me EXCEPT !.load = you.load]
      /\ (\A l \in Loads : Borrowed(you, l) => Borrowed(me, l))
  BY SMTT(30), PassMoves
<1> HIDE DEF you
<1>2. you.owns = me.owns /\ you.claiming = me.claiming /\ you.up = me.up
      /\ you.target = me.target /\ you.start = me.start
      /\ you.pending = me.pending /\ you.queue = me.queue
  BY <1>1 DEF PiState
<1>3. Holds(p, you, c)
  BY <1>1, <1>2 DEF Well, Holds
<1>4. Delivers(you, record, debt)
  BY <1>2 DEF Well, Delivers
<1> QED
  BY <1>1, <1>3, <1>4 DEF Well, you

LEMMA LoadedWell ==
  ASSUME NEW p \in Procs, NEW me \in PiState, NEW k \in Loads, NEW c, NEW record, NEW debt,
         Well(p, me, c, record, debt)
  PROVE  /\ Well(p, Loaded(me, k), c, record, debt)
         /\ Loaded(me, k).owns = me.owns
<1> DEFINE you == Loaded(me, k)
<1>1. you \in PiState /\ you = [me EXCEPT !.load = you.load, !.start = you.start]
      /\ (you.start = "owner" => me.start = "owner")
      /\ (\A l \in Loads : Borrowed(you, l) => Borrowed(me, l))
  BY LoadedProcess
<1> HIDE DEF you
<1>2. you.owns = me.owns /\ you.claiming = me.claiming /\ you.up = me.up
      /\ you.target = me.target
      /\ you.pending = me.pending /\ you.queue = me.queue
  BY <1>1 DEF PiState
<1>3. Holds(p, you, c)
  BY <1>1, <1>2 DEF Well, Holds
<1>4. Delivers(you, record, debt)
  BY <1>2 DEF Well, Delivers
<1> QED
  BY <1>1, <1>2, <1>3, <1>4 DEF Well, you

\* A process that does not own the session has nothing to give up.
LEMMA GivesUpWell ==
  ASSUME NEW p \in Procs, NEW me \in PiState, ~me.owns, NEW c, NEW record, NEW debt,
         Well(p, me, c, record, debt)
  PROVE  GivesUp(me) \in PiState /\ Well(p, GivesUp(me), c, record, debt)
<1>1. GivesUp(me) \in PiState
  BY EmptySeq DEF GivesUp, PiState
<1> QED
  BY <1>1 DEF GivesUp, Well, Holds, Delivers, Borrowed, PiState

LEMMA ReadingKeeps ==
  ASSUME PiInv, NEW p \in Procs, NEW k \in Loads, Look(p, k) \/ Read(p, k) \/ Leave(p, k)
  PROVE  PiInv'
<1> DEFINE own == pi[p].load[k].own
<1>1. pi[p] \in PiState /\ Well(p, pi[p], claim, saved, owed) /\ saved \in Nat
      /\ own \in BOOLEAN /\ pi \in [Procs -> PiState]
  BY DEF PiInv, FileTypes, PiState, Load
<1>2. UNCHANGED <<claim, saved, owed>> /\ made' \in Nat /\ stale' \in Nat
  BY DEF PiInv, FileTypes, Look, Read, Leave
<1>3. ASSUME NEW at \in {"idle", "access", "read", "judge", "release"}, NEW body \in Nat,
             LoadAt(p, k, at, body),
             at \in {"read", "judge", "release"} /\ ~own => Borrowed(pi[p], k)
      PROVE  PiInv'
  <2>1. Moves(p, PassAt(pi[p], k, at, own, body))
    BY <1>1, <1>3 DEF LoadAt, Moves
  <2>2. Well(p, PassAt(pi[p], k, at, own, body), claim, saved, owed)
    BY <1>1, <1>3, PassWell
  <2> QED
    BY <1>2, <2>1, <2>2, Quiet
<1>4. CASE Look(p, k)
  <2>1. CASE Moves(p, Loaded(pi[p], k))
    BY <1>1, <1>2, <2>1, LoadedWell, Quiet
  <2>2. CASE LoadAt(p, k, "access", 0)
    BY <1>3, <2>2
  <2> QED
    BY <1>1, <1>4, <2>1, <2>2 DEF Look, Moves
<1>5. CASE Read(p, k)
  <2>1. ~own => Borrowed(pi[p], k)
    BY <1>5 DEF Read, Loading, Borrowed
  <2>2. LoadAt(p, k, "release", saved) \/ LoadAt(p, k, "judge", saved)
    BY <1>5 DEF Read
  <2> QED
    BY <1>1, <1>3, <2>1, <2>2
<1>6. CASE Leave(p, k)
  <2>1. ~own => Borrowed(pi[p], k)
    BY <1>6 DEF Leave, Loading, Borrowed
  <2>2. LoadAt(p, k, "release", 0)
    BY <1>6 DEF Leave
  <2> QED
    BY <1>3, <2>1, <2>2
<1> QED
  BY <1>4, <1>5, <1>6

\* A pass borrows the claim only when nobody holds it.
LEMMA AccessKeeps ==
  ASSUME PiInv, NEW p \in Procs, NEW k \in Loads, Access(p, k)
  PROVE  PiInv'
<1>1. FileTypes /\ pi \in [Procs -> PiState] /\ pi[p] \in PiState
      /\ Well(p, pi[p], claim, saved, owed)
  BY DEF PiInv
<1>2. UNCHANGED <<saved, made, stale, owed>>
  BY DEF Access
<1>3. CASE claim' = claim /\ Moves(p, Loaded(pi[p], k))
  BY <1>1, <1>2, <1>3, LoadedWell, Quiet DEF FileTypes
<1>4. CASE claim' = claim /\ Moves(p, PassAt(pi[p], k, "read", TRUE, 0))
  <2>1. Well(p, PassAt(pi[p], k, "read", TRUE, 0), claim, saved, owed)
    BY <1>1, PassWell
  <2> QED
    BY <1>1, <1>2, <1>4, <2>1, Quiet DEF FileTypes
<1>5. CASE /\ Claimable /\ ~pi[p].owns /\ claim' = ClaimOf(p, "sweep")
           /\ Moves(p, PassAt(pi[p], k, "read", FALSE, 0))
  <2> DEFINE me == PassAt(pi[p], k, "read", FALSE, 0)
  <2>1. saved \in {0, owed} /\ (\A q \in Procs : ~pi[q].owns)
        /\ \A q \in Procs, l \in Loads : ~Borrowed(pi[q], l)
    BY <1>5, NobodyHolds
  <2>2. \A q \in Procs : claim' # ClaimOf(q, "session")
    BY <1>5, ClaimsDiffer
  <2>3. Well(p, me, claim', saved', owed')
    <3>1. /\ me \in PiState /\ me = [pi[p] EXCEPT !.load = me.load]
          /\ \A l \in Loads : l # k => (Borrowed(me, l) <=> Borrowed(pi[p], l))
      <4> DEFINE own == FALSE
      <4>1. own \in BOOLEAN
        OBVIOUS
      <4> HIDE DEF own
      <4>2. LET you == PassAt(pi[p], k, "read", own, 0) IN
            /\ you \in PiState /\ you = [pi[p] EXCEPT !.load = you.load]
            /\ \A l \in Loads : l # k => (Borrowed(you, l) <=> Borrowed(pi[p], l))
        BY <1>1, <4>1, PassMoves
      <4> QED
        BY <4>2 DEF own
    <3> HIDE DEF me
    <3>2. \A l \in Loads : Borrowed(me, l) => l = k
      BY <2>1, <3>1
    <3>3. me.owns = pi[p].owns /\ me.claiming = pi[p].claiming /\ me.up = pi[p].up
          /\ me.target = pi[p].target /\ me.start = pi[p].start
          /\ me.pending = pi[p].pending /\ me.queue = pi[p].queue
      BY <1>1, <3>1 DEF PiState
    <3>4. Holds(p, me, claim')
      BY <1>1, <1>5, <2>2, <3>1, <3>2, <3>3 DEF Well, Holds
    <3>5. Delivers(me, saved', owed')
      BY <1>1, <1>2, <3>3 DEF Well, Delivers
    <3> QED
      BY <3>1, <3>4, <3>5 DEF Well
  <2>4. FileTypes' /\ (Unowned => saved \in {0, owed})'
    BY <1>1, <1>2, <1>5, <2>1, ClaimTypes DEF FileTypes
  <2>5. ASSUME NEW q \in Procs \ {p}
        PROVE  Well(q, pi[q], claim', saved', owed')
    <3>1. Well(q, pi[q], claim, saved, owed)
      BY DEF PiInv
    <3> QED
      BY <1>2, <2>1, <2>2, <3>1 DEF Well, Holds, Delivers
  <2> QED
    BY <1>5, <2>3, <2>4, <2>5, AllWell
<1> QED
  <2>1. PICK initial \in BOOLEAN :
          LET mine == pi[p].owns /\ pi[p].target = 0 /\ (k = "restore" \/ initial)
              borrows == ~pi[p].owns /\ Claimable IN
          /\ claim' = IF borrows THEN ClaimOf(p, "sweep") ELSE claim
          /\ IF mine \/ borrows
             THEN pi' = [pi EXCEPT ![p] = PassAt(@, k, "read", mine, 0)]
             ELSE pi' = [pi EXCEPT ![p] = Loaded(@, k)]
    BY DEF Access
  <2> DEFINE mine == pi[p].owns /\ pi[p].target = 0 /\ (k = "restore" \/ initial)
  <2>2. CASE mine
    <3>1. mine = TRUE
      BY <2>2
    <3>2. claim' = claim /\ pi' = [pi EXCEPT ![p] = PassAt(@, k, "read", mine, 0)]
      BY <2>1, <2>2
    <3> QED
      BY <1>4, <3>1, <3>2 DEF Moves
  <2>3. CASE ~pi[p].owns /\ Claimable
    <3>1. mine = FALSE
      BY <2>3
    <3>2. claim' = ClaimOf(p, "sweep")
          /\ pi' = [pi EXCEPT ![p] = PassAt(@, k, "read", mine, 0)]
      BY <2>1, <2>3
    <3> QED
      BY <1>5, <2>3, <3>1, <3>2 DEF Moves
  <2>4. CASE ~mine /\ ~(~pi[p].owns /\ Claimable)
    BY <1>3, <2>1, <2>4 DEF Moves
  <2> QED
    BY <2>2, <2>3, <2>4

\* The record may go while an owner looks at it or somebody sweeps it.
LEMMA DropKeeps ==
  ASSUME PiInv, NEW p \in Procs, NEW k \in Loads, Drop(p, k)
  PROVE  PiInv'
<1> DEFINE own == pi[p].load[k].own
           me == PassAt(pi[p], k, "release", own, 0)
<1>1. pi[p] \in PiState /\ own \in BOOLEAN /\ pi \in [Procs -> PiState] /\ FileTypes
  BY DEF PiInv, PiState, Load
<1>2. Moves(p, me) /\ saved' = 0 /\ UNCHANGED <<claim, made, stale, owed>>
  BY <1>1 DEF Drop, LoadAt, Moves
<1>3. \A q \in Procs : Well(q, pi[q], claim, 0, owed)
  BY <1>1 DEF PiInv, Well, Delivers
<1>4. ~own => Borrowed(pi[p], k)
  BY DEF Drop, Loading, Borrowed
<1>5. Well(p, me, claim, 0, owed)
  BY <1>1, <1>3, <1>4, PassWell
<1>6. FileTypes' /\ (Unowned => saved \in {0, owed})'
  BY <1>1, <1>2 DEF FileTypes
<1> QED
  BY <1>2, <1>3, <1>5, <1>6, AllWell

LEMMA RestoreKeeps ==
  ASSUME PiInv, NEW p \in Procs, Restore(p)
  PROVE  PiInv'
<1> DEFINE found == pi[p].load["restore"]
           body == found.body
           changed == Changed(pi[p], body)
           me == PassAt(changed, "restore", "release", found.own, 0)
<1>1. pi[p] \in PiState /\ pi \in [Procs -> PiState] /\ FileTypes
      /\ Well(p, pi[p], claim, saved, owed) /\ "restore" \in Loads
  BY DEF PiInv, Loads
<1>2. body \in Nat /\ found.own \in BOOLEAN
  BY <1>1 DEF PiState, Load
<1>3. Moves(p, me) /\ owed' = Owed(pi[p], body) /\ UNCHANGED <<claim, saved, made, stale>>
      /\ body > stale /\ Restores(p, "restore") /\ Loading(p, "restore", "judge")
  BY DEF Restore, Moves
<1>4. body # 0 /\ pi[p].owns
  BY <1>1, <1>2, <1>3 DEF FileTypes, Restores, Well, Holds
<1> HIDE DEF body
<1>5. Well(p, changed, claim, saved, owed') /\ owed' \in Nat
  BY <1>1, <1>2, <1>3, <1>4, TargetChanges
<1>6. changed.load = pi[p].load
  BY <1>1 DEF Changed, PiState
<1>7. ~found.own => Borrowed(changed, "restore")
  BY <1>3, <1>6 DEF Loading, Borrowed
<1>8. changed \in PiState
  BY <1>5 DEF Well
<1> HIDE DEF changed, found
<1>9. Well(p, me, claim, saved, owed')
  BY <1>1, <1>2, <1>5, <1>7, <1>8, PassWell
<1> QED
  BY <1>1, <1>3, <1>4, <1>5, <1>9, OwnerMoves DEF FileTypes

\* A borrowed claim goes back; one lost to a lock does not, and the store is
\* used no more.
LEMMA ReleaseKeeps ==
  ASSUME PiInv, NEW p \in Procs, NEW k \in Loads,
         Release(p, k) \/ ReleaseFails(p, k) \/ AccessFails(p, k)
  PROVE  PiInv'
<1>1. pi[p] \in PiState /\ pi \in [Procs -> PiState] /\ FileTypes
      /\ Well(p, pi[p], claim, saved, owed)
  BY DEF PiInv
<1>2. UNCHANGED <<saved, made, stale, owed>> /\ made' \in Nat /\ stale' \in Nat
  BY <1>1 DEF Release, ReleaseFails, AccessFails, FileTypes
<1>3. Borrowed(pi[p], k) => ~pi[p].owns
  BY <1>1, ClaimsDiffer DEF Well, Holds
<1>4. CASE ReleaseFails(p, k) \/ AccessFails(p, k)
  <2>1. ~pi[p].owns /\ UNCHANGED claim /\ Moves(p, Loaded(GivesUp(pi[p]), k))
    BY <1>1, <1>3, <1>4 DEF ReleaseFails, AccessFails, Loading, Borrowed, Moves
  <2>2. Well(p, Loaded(GivesUp(pi[p]), k), claim, saved, owed)
    BY <1>1, <2>1, GivesUpWell, LoadedWell
  <2> QED
    BY <1>2, <2>1, <2>2, Quiet
<1>5. CASE Release(p, k)
  <2> DEFINE me == Loaded(pi[p], k)
  <2>1. Moves(p, me) /\ Well(p, me, claim, saved, owed)
    BY <1>1, <1>5, LoadedWell DEF Release, Moves
  <2>2. CASE ~GiveBack(p, pi[p].load[k].own)
    BY <1>2, <1>5, <2>1, <2>2, Quiet DEF Release
  <2>3. CASE GiveBack(p, pi[p].load[k].own)
    <3>1. claim = ClaimOf(p, "sweep") /\ claim' = FreeClaim
      BY <1>5, <2>3 DEF Release, GiveBack
    <3>2. \A q \in Procs, w \in {"session", "sweep"} : claim' # ClaimOf(q, w)
      BY <3>1, PiAssumption DEF FreeClaim, ClaimOf
    <3>3. \A q \in Procs : ~pi[q].owns
      BY <3>1, ClaimsDiffer DEF PiInv, Well, Holds
    <3>4. saved \in {0, owed}
      BY <3>1, ClaimsDiffer DEF PiInv, Unowned
    <3>5. \A l \in Loads : ~Borrowed(me, l)
      <4>1. Borrowed(pi[p], k)
        BY <1>5, <2>3 DEF Release, GiveBack, Loading, Borrowed
      <4>2. \A l \in Loads : Borrowed(pi[p], l) => l = k
        BY <1>1, <4>1 DEF Well, Holds
      <4> QED
        BY <1>1, <4>2, LoadedProcess
    <3>6. ~me.owns
      BY <1>1, <3>3, LoadedWell
    <3> HIDE DEF me
    <3>7. Well(p, me, claim', saved', owed')
      BY <1>2, <2>1, <3>2, <3>5, <3>6 DEF Well, Holds, Delivers
    <3>8. FileTypes' /\ (Unowned => saved \in {0, owed})'
      BY <1>1, <1>2, <3>1, <3>4, ClaimTypes DEF FileTypes
    <3>9. ASSUME NEW q \in Procs \ {p}
          PROVE  Well(q, pi[q], claim', saved', owed')
      <4>1. Well(q, pi[q], claim, saved, owed)
        BY DEF PiInv
      <4>2. \A l \in Loads : ~Borrowed(pi[q], l)
        BY <3>1, <4>1, ClaimsDiffer DEF Well, Holds
      <4> QED
        BY <1>2, <3>2, <3>3, <4>1, <4>2 DEF Well, Holds, Delivers
    <3> QED
      BY <2>1, <3>7, <3>8, <3>9, AllWell
  <2> QED
    BY <2>2, <2>3
<1> QED
  BY <1>4, <1>5

---------------------------------------------------------------------------
(* Keeping warm and writing behind.                                        *)

LEMMA AcceptKeeps ==
  ASSUME PiInv, NEW p \in Procs, Accept(p) \/ Warm(p)
  PROVE  PiInv'
<1> DEFINE body == made + 1
<1>1. pi[p] \in PiState /\ pi \in [Procs -> PiState] /\ FileTypes
      /\ Well(p, pi[p], claim, saved, owed)
  BY DEF PiInv
<1>2. UNCHANGED <<claim, saved>> /\ made' \in Nat /\ stale' \in Nat
  BY <1>1 DEF Accept, Warm, FileTypes
<1>3. body \in Nat /\ body # 0
  BY <1>1 DEF FileTypes
<1> HIDE DEF body
<1>4. ASSUME pi[p].owns, Moves(p, Changed(pi[p], body)), owed' = Owed(pi[p], body)
      PROVE  PiInv'
  <2>1. Well(p, Changed(pi[p], body), claim, saved, owed') /\ owed' \in Nat
    BY <1>1, <1>3, <1>4, TargetChanges
  <2> QED
    BY <1>1, <1>2, <1>4, <2>1, OwnerMoves DEF FileTypes
<1>5. CASE Warm(p)
  <2>1. pi[p].owns
    BY <1>1, <1>5 DEF Warm, Ticking, Well, Holds
  <2> QED
    BY <1>4, <1>5, <2>1 DEF Warm, Moves, body
<1>6. CASE Accept(p) /\ pi[p].owns
  <2>1. Tracks(p, pi[p], body)
    BY <1>6 DEF Accept, body
  <2>2. CASE Moves(p, pi[p]) /\ owed' = owed
    BY <1>1, <1>2, <2>2, Quiet
  <2> QED
    BY <1>4, <1>6, <2>1, <2>2 DEF Tracks, Moves
<1>7. CASE Accept(p) /\ ~pi[p].owns
  <2> DEFINE me == [pi[p] EXCEPT !.accepted = body, !.claiming = TRUE]
  <2>1. Moves(p, me) /\ owed' = owed /\ pi[p].up
    BY <1>1, <1>7 DEF Accept, Moves, body
  <2>2. me \in PiState
    BY <1>1, <1>3 DEF PiState
  <2>3. Well(p, me, claim, saved, owed)
    BY <1>1, <2>1, <2>2 DEF Well, Holds, Delivers, Borrowed, PiState
  <2> QED
    BY <1>2, <2>1, <2>3, Quiet
<1> QED
  BY <1>5, <1>6, <1>7

\* Warming that ends owes no body; its removal goes behind what is queued.
LEMMA EndWarmingKeeps ==
  ASSUME PiInv, NEW p \in Procs, EndWarming(p)
  PROVE  PiInv'
<1> DEFINE me == [pi[p] EXCEPT !.target = 0]
           record == [me EXCEPT !.pending = 0, !.queue = Append(me.queue, 0)]
<1>1. pi[p] \in PiState /\ pi \in [Procs -> PiState] /\ FileTypes
      /\ Well(p, pi[p], claim, saved, owed)
  BY DEF PiInv
<1>2. UNCHANGED <<claim, saved, made, stale>> /\ pi[p].owns
  BY <1>1 DEF EndWarming, Ticking, Well, Holds
<1>3. me \in PiState /\ me.owns
  BY <1>1, <1>2 DEF PiState
<1>4. Well(p, me, claim, saved, owed)
  BY <1>1, <1>3 DEF Well, Holds, Delivers, Borrowed, PiState
<1>5. CASE Moves(p, me) /\ owed' = owed
  BY <1>1, <1>2, <1>4, <1>5, Quiet DEF FileTypes
<1>6. CASE Moves(p, Removed(me)) /\ owed' = 0
  <2> HIDE DEF me
  <2>1. Append(me.queue, 0) \in Seq(Nat) /\ Append(me.queue, 0) # <<>>
        /\ Append(me.queue, 0)[Len(Append(me.queue, 0))] = 0
    BY <1>3, QueueEnds
  <2> DEFINE queue == Append(me.queue, 0)
             you == [me EXCEPT !.pending = 0, !.queue = queue]
  <2> HIDE DEF queue
  <2>2. Removed(me) = you
    BY DEF Removed, queue
  <2>3. you \in PiState /\ you.owns /\ you.pending = 0 /\ you.queue = queue
    BY <1>3, <2>1 DEF PiState, queue
  <2>4. Holds(p, you, claim)
    BY <1>3, <1>4 DEF Well, Holds, Borrowed, PiState
  <2>5. Delivers(you, saved, 0)
    BY <2>1, <2>3 DEF Delivers, queue
  <2>6. Well(p, Removed(me), claim, saved, owed')
    BY <1>6, <2>2, <2>3, <2>4, <2>5 DEF Well
  <2> QED
    BY <1>1, <1>2, <1>6, <2>6, OwnerMoves DEF FileTypes
<1>7. me.disabled = pi[p].disabled
  BY <1>1 DEF PiState
<1> QED
  BY <1>5, <1>6, <1>7 DEF EndWarming, Owed, Moves

\* The store's own steps, which only an owner has any of.
LEMMA StoreKeeps ==
  ASSUME PiInv, NEW p \in Procs, Flush(p) \/ Write(p) \/ WriteFails(p)
  PROVE  PiInv'
<1>1. pi[p] \in PiState /\ pi \in [Procs -> PiState] /\ FileTypes
      /\ Well(p, pi[p], claim, saved, owed)
  BY DEF PiInv
<1>2. UNCHANGED <<claim, made, stale>> /\ pi[p].owns
  BY <1>1 DEF Flush, Write, WriteFails, Well, Delivers
<1>3. CASE Flush(p)
  <2> DEFINE queue == Append(pi[p].queue, pi[p].pending)
             me == [pi[p] EXCEPT !.queue = queue, !.pending = 0]
  <2>1. pi[p].pending \in Nat /\ pi[p].pending = owed
    BY <1>1, <1>2, <1>3 DEF Flush, Well, Delivers, PiState
  <2>2. queue \in Seq(Nat) /\ queue # <<>> /\ queue[Len(queue)] = owed
    BY <1>1, <2>1, QueueEnds
  <2>3. Moves(p, me) /\ owed' = owed /\ saved' = saved
    BY <1>1, <1>3 DEF Flush, Moves
  <2> HIDE DEF queue
  <2>4. me \in PiState /\ me.owns /\ me.pending = 0 /\ me.queue = queue
    BY <1>1, <1>2, <2>2 DEF PiState
  <2>5. Holds(p, me, claim)
    BY <1>1 DEF Well, Holds, Borrowed, PiState
  <2>6. Well(p, me, claim, saved, owed)
    BY <2>2, <2>4, <2>5 DEF Well, Delivers
  <2> QED
    BY <1>1, <1>2, <2>3, <2>6, Quiet DEF FileTypes
<1>4. CASE Write(p)
  <2> DEFINE first == Head(pi[p].queue)
             rest == Tail(pi[p].queue)
             me == [pi[p] EXCEPT !.queue = rest]
  <2>1. pi[p].queue # <<>>
    BY <1>4 DEF Write
  <2>2. /\ first \in Nat /\ rest \in Seq(Nat)
        /\ rest = <<>> => first = pi[p].queue[Len(pi[p].queue)]
        /\ rest # <<>> => rest[Len(rest)] = pi[p].queue[Len(pi[p].queue)]
    BY <1>1, <2>1, QueueEnds
  <2>3. Moves(p, me) /\ owed' = owed /\ saved' = first
    BY <1>1, <1>4 DEF Write, Moves
  <2> HIDE DEF first, rest
  <2>4. me \in PiState /\ me.owns /\ me.pending = pi[p].pending /\ me.queue = rest
    BY <1>1, <1>2, <2>2 DEF PiState
  <2>5. Holds(p, me, claim)
    BY <1>1 DEF Well, Holds, Borrowed, PiState
  <2>6. Delivers(me, first, owed)
    BY <1>1, <1>2, <2>1, <2>2, <2>4 DEF Well, Delivers
  <2>7. Well(p, me, claim, saved', owed')
    BY <2>3, <2>4, <2>5, <2>6 DEF Well
  <2> QED
    BY <1>1, <1>2, <2>2, <2>3, <2>7, OwnerMoves DEF FileTypes
<1>5. CASE WriteFails(p)
  <2> DEFINE me == GivesUp(pi[p])
  <2>1. claim = ClaimOf(p, "session")
    BY <1>1, <1>2 DEF Well, Holds
  <2>2. Moves(p, me) /\ owed' = saved /\ saved' = saved
    BY <1>1, <1>5, <2>1 DEF WriteFails, Settled, Moves
  <2>3. me \in PiState
    BY <1>1, EmptySeq DEF GivesUp, PiState
  <2>4. Well(p, me, claim, saved, saved)
    BY <1>1, <2>3 DEF GivesUp, Well, Holds, Delivers, Borrowed, PiState
  <2>5. saved' \in Nat /\ owed' \in Nat /\ made' \in Nat /\ stale' \in Nat
    BY <1>1, <1>2, <2>2 DEF FileTypes
  <2> HIDE DEF me
  <2>6. Well(p, me, claim, saved', owed')
    BY <2>2, <2>4
  <2> QED
    BY <1>2, <2>2, <2>5, <2>6, OwnerMoves
<1> QED
  BY <1>3, <1>4, <1>5

---------------------------------------------------------------------------
(* The theorems.                                                           *)

LEMMA PiInvInit == Init => PiInv
<1> SUFFICES ASSUME Init PROVE PiInv
  OBVIOUS
<1>1. FileTypes /\ saved \in {0, owed}
  BY DEF Init, FileTypes, FreeClaim, Purposes
<1>2. pi \in [Procs -> PiState]
  BY FreshProcess DEF Init
<1>3. ASSUME NEW p \in Procs
      PROVE  Well(p, pi[p], claim, saved, owed)
  <2> DEFINE me == [Fresh EXCEPT !.up = FALSE]
  <2>1. pi[p] = me /\ claim # ClaimOf(p, "session")
    BY PiAssumption DEF Init, FreeClaim, ClaimOf
  <2>2. me.owns = FALSE /\ me.claiming = FALSE /\ me.target = 0 /\ me.start = "none"
        /\ me.pending = 0 /\ me.queue = <<>>
    BY DEF Fresh
  <2> HIDE DEF me
  <2>3. me \in PiState /\ \A k \in Loads : ~Borrowed(me, k)
    BY FreshProcess DEF me
  <2>4. Holds(p, me, claim) /\ Delivers(me, saved, owed)
    BY <2>1, <2>2, <2>3 DEF Holds, Delivers
  <2> QED
    BY <2>1, <2>3, <2>4 DEF Well
<1> QED
  BY <1>1, <1>2, <1>3 DEF PiInv

LEMMA PiInvStep == PiInv /\ [Next]_vars => PiInv'
<1> SUFFICES ASSUME PiInv, [Next]_vars PROVE PiInv'
  OBVIOUS
<1>1. ASSUME NEW p \in Procs, NEW k \in Loads, LoadStep(p, k)
      PROVE  PiInv'
  BY <1>1, ReadingKeeps, AccessKeeps, DropKeeps, ReleaseKeeps DEF LoadStep
<1>2. ASSUME NEW p \in Procs,
             \/ Boot(p) \/ Open(p) \/ Claims(p) \/ Yields(p) \/ ClaimFails(p)
             \/ Stop(p) \/ StopStep(p) \/ Crash(p)
      PROVE  PiInv'
  BY <1>2, OpeningKeeps, ClaimsKeeps, StopReleasesKeeps, CrashKeeps DEF StopStep
<1>3. ASSUME NEW p \in Procs,
             \/ Restore(p) \/ Accept(p) \/ Warm(p) \/ EndWarming(p)
             \/ Flush(p) \/ Write(p) \/ WriteFails(p)
      PROVE  PiInv'
  BY <1>3, RestoreKeeps, AcceptKeeps, EndWarmingKeeps, StoreKeeps
<1>4. CASE Expire
  <2>1. UNCHANGED <<claim, saved, owed, pi>> /\ made' \in Nat /\ stale' \in Nat
    BY <1>4 DEF Expire, PiInv, FileTypes
  <2> QED
    BY <2>1 DEF PiInv, FileTypes, Unowned
<1>5. CASE UNCHANGED vars
  BY <1>5 DEF vars, PiInv, FileTypes, Unowned
<1> QED
  BY <1>1, <1>2, <1>3, <1>4, <1>5 DEF Next

THEOREM PiInvariant == Spec => []PiInv
  BY PiInvInit, PiInvStep, PTL DEF Spec

\* The claim file, the record, its counters and every process keep their types.
THEOREM PiTypeCorrect == Spec => []TypeOK
<1>1. PiInv => TypeOK
  BY DEF PiInv, FileTypes, TypeOK
<1> QED
  BY <1>1, PiInvariant, PTL

\* Only the process the claim file names has a target, whatever claims, sweeps,
\* restores and shutdowns of any number of processes overlap.
THEOREM KeepsAlone == Spec => []OneKeeper
<1>1. PiInv => OneKeeper
  BY ClaimsDiffer DEF PiInv, Well, Holds, OneKeeper
<1> QED
  BY <1>1, PiInvariant, PTL

\* A free claim, released or left by a dead process, comes with the record its
\* last owner owed, or with none.
THEOREM SuccessorServed == Spec => []SuccessorFindsTheLatest
<1>1. PiInv => SuccessorFindsTheLatest
  BY NobodyHolds DEF SuccessorFindsTheLatest
<1> QED
  BY <1>1, PiInvariant, PTL

-----------------------------------------------------------------------------
(* The instances of one server.                                                *)

TargetRecord == [body : Nat, expires : Nat, due : Int]
WarmRecord == [body : Nat, until : Nat]
PassShaped ==
  pass = [at |-> pass.at, visited |-> pass.visited, id |-> pass.id, body |-> pass.body,
          start |-> pass.start, received |-> pass.received, by |-> pass.by]
KeepTypes ==
  /\ clock \in Nat /\ PassShaped
  /\ targets \in [KeepSessions -> TargetRecord]
  /\ keepSaved \in [KeepSessions -> Nat]
  /\ warm \in [KeepSessions -> WarmRecord]

\* No cache ends later than one that is made now; what was saved has not ended
\* later than its cache.
WarmthBounded ==
  \A s \in KeepSessions : warm[s].until <= clock + KeepTtl /\ keepSaved[s] <= warm[s].until

TargetsAreWarm ==
  \A s \in KeepSessions :
    Tracked(s) => targets[s].body = warm[s].body /\ targets[s].expires <= warm[s].until

\* A pass that has chosen a target works on a body its session has, or had.
Chosen == {"authorizing", "sent", "accepted", "failed"}
PassFits ==
  /\ pass.at \in Chosen =>
       pass.id \in KeepSessions /\ pass.body \in Nat /\ pass.body <= warm[pass.id].body
  /\ pass.at \in {"authorizing", "sent"} =>
       /\ pass.start \in Nat /\ clock <= pass.start + KeepTimeout
       /\ pass.body = warm[pass.id].body => pass.start + KeepTimeout < warm[pass.id].until
  /\ pass.at = "accepted" =>
       /\ pass.received \in Nat
       /\ pass.body = warm[pass.id].body => pass.received + KeepTtl <= warm[pass.id].until

KeepInv == KeepTypes /\ WarmthBounded /\ TargetsAreWarm /\ PassFits

LEMMA KeepNumbers ==
  ASSUME KeepAssumption
  PROVE  /\ KeepTtl \in Nat /\ KeepLead \in Nat /\ KeepTimeout \in Nat /\ KeepSafety \in Nat
         /\ 0 < KeepSafety /\ KeepTimeout + KeepSafety < KeepLead /\ KeepLead < KeepTtl
BY DEF KeepAssumption

\* A session's cache is of a later body, or lives as long or longer.
WarmthGrows ==
  /\ warm' \in [KeepSessions -> WarmRecord]
  /\ \A s \in KeepSessions :
       \/ warm'[s].body > warm[s].body
       \/ warm'[s].body = warm[s].body /\ warm'[s].until >= warm[s].until

\* A target is dropped, or keeps its body and its end.
TargetsDrop ==
  /\ targets' \in [KeepSessions -> TargetRecord]
  /\ \A s \in KeepSessions :
       targets'[s].body # 0 =>
         targets'[s].body = targets[s].body /\ targets'[s].expires = targets[s].expires

\* What a pass has chosen stays chosen while caches only grow.
LEMMA PassStays ==
  ASSUME KeepAssumption, KeepInv, WarmthGrows, UNCHANGED clock, PassShaped',
         \/ pass'.at \notin Chosen
         \/ /\ pass'.id = pass.id /\ pass'.body = pass.body
            /\ pass'.start = pass.start /\ pass'.received = pass.received
            /\ pass.at \in Chosen /\ pass'.at \in {pass.at, "failed"}
  PROVE  PassFits'
<1>1. CASE pass'.at \notin Chosen
  BY <1>1 DEF PassFits, Chosen
<1>2. CASE /\ pass'.id = pass.id /\ pass'.body = pass.body
           /\ pass'.start = pass.start /\ pass'.received = pass.received
           /\ pass.at \in Chosen /\ pass'.at \in {pass.at, "failed"}
  <2> DEFINE s == pass.id
  <2>1. s \in KeepSessions /\ pass.body \in Nat /\ pass.body <= warm[s].body
    BY <1>2 DEF KeepInv, PassFits
  <2>2. /\ warm[s].body \in Nat /\ warm'[s].body \in Nat /\ warm[s].until \in Nat
        /\ warm'[s].until \in Nat
        /\ \/ warm'[s].body > warm[s].body
           \/ warm'[s].body = warm[s].body /\ warm'[s].until >= warm[s].until
    BY <2>1 DEF KeepInv, KeepTypes, WarmthGrows, WarmRecord
  <2>3. pass.body <= warm'[s].body
    BY <2>1, <2>2
  <2>4. pass.body = warm'[s].body => pass.body = warm[s].body /\ warm'[s].until >= warm[s].until
    BY <2>1, <2>2
  <2>5. (pass.at \in {"authorizing", "sent"} =>
           /\ pass.start \in Nat /\ clock <= pass.start + KeepTimeout
           /\ pass.body = warm'[s].body => pass.start + KeepTimeout < warm'[s].until)
    BY <2>2, <2>4, KeepNumbers DEF KeepInv, PassFits
  <2>6. (pass.at = "accepted" =>
           /\ pass.received \in Nat
           /\ pass.body = warm'[s].body => pass.received + KeepTtl <= warm'[s].until)
    BY <2>2, <2>4, KeepNumbers DEF KeepInv, PassFits
  <2> QED
    BY <1>2, <2>1, <2>3, <2>5, <2>6 DEF PassFits
<1> QED
  BY <1>1, <1>2

\* A step that drops targets and lets the caches be.
LEMMA DropTargetKeeps ==
  ASSUME KeepAssumption, KeepInv, TargetsDrop, UNCHANGED <<clock, warm, keepSaved>>, PassShaped',
         PassFits'
  PROVE  KeepInv'
<1>1. KeepTypes'
  BY DEF KeepInv, KeepTypes, TargetsDrop
<1>2. WarmthBounded'
  BY DEF KeepInv, WarmthBounded
<1>3. TargetsAreWarm'
  BY DEF KeepInv, TargetsAreWarm, TargetsDrop, Tracked
<1> QED
  BY <1>1, <1>2, <1>3 DEF KeepInv

LEMMA QuietDropKeeps ==
  ASSUME KeepAssumption, KeepInv, TargetsDrop, UNCHANGED <<clock, warm, keepSaved>>, PassShaped',
         \/ pass'.at \notin Chosen
         \/ /\ pass'.id = pass.id /\ pass'.body = pass.body
            /\ pass'.start = pass.start /\ pass'.received = pass.received
            /\ pass.at \in Chosen /\ pass'.at \in {pass.at, "failed"}
  PROVE  KeepInv'
<1>1. WarmthGrows
  BY DEF KeepInv, KeepTypes, WarmthGrows, WarmRecord
<1>2. PassFits'
  BY <1>1, PassStays
<1> QED
  BY <1>2, DropTargetKeeps

LEMMA KeepValues ==
  /\ NoTarget \in TargetRecord /\ NoTarget.body = 0
  /\ NoTargets \in [KeepSessions -> TargetRecord] /\ \A s \in KeepSessions : NoTargets[s] = NoTarget
  /\ NoPass.at = "none" /\ (pass' = NoPass => PassShaped')
<1>1. NoTarget \in TargetRecord /\ NoTarget.body = 0
  BY DEF NoTarget, TargetRecord
<1>2. NoPass.at = "none" /\ (pass' = NoPass => PassShaped')
  BY DEF NoPass, PassShaped
<1> QED
  BY <1>1, <1>2 DEF NoTargets

LEMMA Scans ==
  ASSUME NEW visited, pass' = Scanning(visited)
  PROVE  PassShaped' /\ pass'.at = "scan"
BY DEF Scanning, NoPass, PassShaped

LEMMA PassGoes ==
  ASSUME PassShaped, NEW place, pass' = [pass EXCEPT !.at = place]
  PROVE  /\ PassShaped' /\ pass'.at = place /\ pass'.id = pass.id /\ pass'.body = pass.body
         /\ pass'.start = pass.start /\ pass'.received = pass.received
<1> DEFINE x == [at |-> place, visited |-> pass.visited, id |-> pass.id, body |-> pass.body,
                 start |-> pass.start, received |-> pass.received, by |-> pass.by]
<1>1. pass' = x
  BY DEF PassShaped
<1> QED
  BY <1>1 DEF PassShaped

LEMMA Dropped ==
  ASSUME KeepTypes, NEW m \in [KeepSessions -> TargetRecord], NEW now \in Nat
  PROVE  /\ Unexpired(m, now) \in [KeepSessions -> TargetRecord]
         /\ \A s \in KeepSessions : Unexpired(m, now)[s] \in {m[s], NoTarget}
BY KeepValues DEF Unexpired

\* Every step that drops targets, or none, and begins no prewarm.
LEMMA DropSteps ==
  ASSUME KeepAssumption, KeepInv,
         \/ targets' = targets \/ targets' = Pruned(targets) \/ targets' = NoTargets
         \/ \E s \in KeepSessions : targets' = [targets EXCEPT ![s] = NoTarget]
         \/ \E s \in KeepSessions, due \in Int : targets' = [targets EXCEPT ![s].due = due]
  PROVE  TargetsDrop
<1>0. KeepTypes
  BY DEF KeepInv
<1>1. CASE targets' = targets
  BY <1>0, <1>1 DEF TargetsDrop, KeepTypes
<1>2. CASE targets' = Pruned(targets)
  <2>1. /\ targets' \in [KeepSessions -> TargetRecord]
        /\ \A s \in KeepSessions : targets'[s] \in {targets[s], NoTarget}
    BY <1>0, <1>2, Dropped DEF Pruned, KeepTypes
  <2> QED
    BY <2>1, KeepValues DEF TargetsDrop
<1>3. CASE targets' = NoTargets
  BY <1>3, KeepValues DEF TargetsDrop
<1>4. CASE \E s \in KeepSessions : targets' = [targets EXCEPT ![s] = NoTarget]
  BY <1>0, <1>4, KeepValues DEF TargetsDrop, KeepTypes
<1>5. CASE \E s \in KeepSessions, due \in Int : targets' = [targets EXCEPT ![s].due = due]
  BY <1>0, <1>5 DEF TargetsDrop, KeepTypes, TargetRecord
<1> QED
  BY <1>1, <1>2, <1>3, <1>4, <1>5

LEMMA InstanceSteps ==
  ASSUME KeepAssumption, KeepInv, NEW i \in KeepInstance, BootInstance(i) \/ DisposeInstance(i)
  PROVE  KeepInv'
<1>1. UNCHANGED <<clock, warm, keepSaved>>
  BY DEF BootInstance, DisposeInstance
<1>2. targets' = targets \/ targets' = Pruned(targets)
  BY DEF BootInstance, DisposeInstance, Adopting, Retained
<1>3. \/ pass' = pass \/ pass' = NoPass
      \/ pass.at \in Chosen /\ pass' = [pass EXCEPT !.at = "failed"]
  BY DEF BootInstance, DisposeInstance, Chosen
<1>4. TargetsDrop
  BY <1>2, DropSteps
<1>5. CASE pass' = pass
  BY <1>1, <1>4, <1>5, QuietDropKeeps DEF KeepInv, KeepTypes, PassShaped
<1>6. CASE pass' = NoPass
  BY <1>1, <1>4, <1>6, KeepValues, QuietDropKeeps DEF Chosen
<1>7. CASE pass.at \in Chosen /\ pass' = [pass EXCEPT !.at = "failed"]
  BY <1>1, <1>4, <1>7, PassGoes, QuietDropKeeps DEF KeepInv, KeepTypes
<1> QED
  BY <1>3, <1>5, <1>6, <1>7

LEMMA PolicySteps ==
  ASSUME KeepAssumption, KeepInv,
         SetPolicy \/ Fire \/ ReadPolicy \/ PassEnds \/ (\E s \in KeepSessions : Forget(s))
  PROVE  KeepInv'
<1>1. UNCHANGED <<clock, warm, keepSaved>>
  BY DEF SetPolicy, Fire, ReadPolicy, PassEnds, Forget
<1>2. TargetsDrop
  <2>1. \/ targets' = targets \/ targets' = Pruned(targets) \/ targets' = NoTargets
        \/ \E s \in KeepSessions : targets' = [targets EXCEPT ![s] = NoTarget]
    BY DEF SetPolicy, Fire, ReadPolicy, PassEnds, Forget
  <2> QED
    BY <2>1, DropSteps
<1>3. CASE pass' = pass
  BY <1>1, <1>2, <1>3, QuietDropKeeps DEF KeepInv, KeepTypes, PassShaped
<1>4. CASE pass' = NoPass
  BY <1>1, <1>2, <1>4, KeepValues, QuietDropKeeps DEF Chosen
<1>5. CASE pass' = Scanning({})
  BY <1>1, <1>2, <1>5, Scans, QuietDropKeeps DEF Chosen
<1>6. CASE \E by : pass' = [NoPass EXCEPT !.at = "policy", !.by = by]
  <2>1. PassShaped' /\ pass'.at = "policy"
    BY <1>6 DEF NoPass, PassShaped
  <2> QED
    BY <1>1, <1>2, <2>1, QuietDropKeeps DEF Chosen
<1> QED
  BY <1>3, <1>4, <1>5, <1>6 DEF SetPolicy, Fire, ReadPolicy, PassEnds, Forget

LEMMA FailSteps ==
  ASSUME KeepAssumption, KeepInv, PrewarmFails \/ SendPrewarm \/ PrewarmRefused \/ RetryLater
  PROVE  KeepInv'
<1>0. KeepTypes /\ PassFits
  BY DEF KeepInv
<1>1. UNCHANGED <<clock, warm, keepSaved>>
  BY DEF PrewarmFails, SendPrewarm, PrewarmRefused, RetryLater
<1>2. CASE PrewarmFails
  <2>1. TargetsDrop
    BY <1>2, DropSteps DEF PrewarmFails
  <2>2. pass.at \in Chosen /\ pass' = [pass EXCEPT !.at = "failed"]
    BY <1>2 DEF PrewarmFails, Chosen
  <2> QED
    BY <1>0, <1>1, <2>1, <2>2, PassGoes, QuietDropKeeps DEF KeepTypes
<1>3. CASE SendPrewarm
  <2>1. TargetsDrop /\ pass.at = "authorizing" /\ pass' = [pass EXCEPT !.at = "sent"]
    BY <1>3, DropSteps DEF SendPrewarm
  <2>2. /\ PassShaped' /\ pass'.at = "sent" /\ pass'.id = pass.id /\ pass'.body = pass.body
        /\ pass'.start = pass.start /\ pass'.received = pass.received
    BY <1>0, <2>1, PassGoes DEF KeepTypes
  <2>3. PassFits'
    BY <1>0, <1>1, <2>1, <2>2 DEF PassFits, Chosen
  <2> QED
    BY <1>1, <2>1, <2>2, <2>3, DropTargetKeeps
<1>4. CASE PrewarmRefused
  <2>1. pass.id \in KeepSessions
    BY <1>0, <1>4 DEF PrewarmRefused, PassFits, Chosen
  <2>2. targets' = targets \/ targets' = [targets EXCEPT ![pass.id] = NoTarget]
    BY <1>0, <1>4, <2>1 DEF PrewarmRefused, KeepTypes
  <2>3. TargetsDrop
    BY <2>1, <2>2, DropSteps
  <2> QED
    BY <1>1, <1>4, <2>3, Scans, QuietDropKeeps DEF PrewarmRefused, Chosen
<1>5. CASE RetryLater
  <2>1. pass.id \in KeepSessions
    BY <1>0, <1>5 DEF RetryLater, PassFits, Chosen
  <2>2. clock + 1 \in Int /\ LastStart(targets[pass.id]) \in Int
    BY <1>0, <2>1, KeepNumbers DEF KeepTypes, TargetRecord, LastStart
  <2>3. \/ targets' = targets \/ targets' = [targets EXCEPT ![pass.id] = NoTarget]
        \/ \E due \in Int : targets' = [targets EXCEPT ![pass.id].due = due]
    <3>1. \/ targets' = targets \/ targets' = [targets EXCEPT ![pass.id] = NoTarget]
          \/ \E due \in clock + 1 .. LastStart(targets[pass.id]) :
               targets' = [targets EXCEPT ![pass.id].due = due]
      BY <1>5 DEF RetryLater
    <3>2. clock + 1 .. LastStart(targets[pass.id]) \subseteq Int
      BY <2>2
    <3> QED
      BY <3>1, <3>2
  <2>4. TargetsDrop
    BY <2>1, <2>3, DropSteps
  <2> QED
    BY <1>1, <1>5, <2>4, Scans, QuietDropKeeps DEF RetryLater, Chosen
<1> QED
  BY <1>2, <1>3, <1>4, <1>5

\* A prewarm is begun only while there is time for all of it.
LEMMA VisitSteps ==
  ASSUME KeepAssumption, KeepInv, NEW s \in KeepSessions, Visit(s)
  PROVE  KeepInv'
<1>0. KeepTypes /\ PassFits /\ pass.at = "scan" /\ Tracked(s) /\ TargetsAreWarm
  BY DEF KeepInv, Visit
<1>1. UNCHANGED <<clock, warm, keepSaved>>
  BY DEF Visit
<1>2. targets' = targets \/ targets' = [targets EXCEPT ![s] = NoTarget]
  BY DEF Visit
<1>3. TargetsDrop
  BY <1>2, DropSteps
<1> DEFINE visited == pass.visited \cup {<<s, targets[s].body>>}
<1>4. CASE pass' = [pass EXCEPT !.visited = visited]
  <2>1. PassShaped' /\ pass'.at = "scan"
    <3> HIDE DEF visited
    <3> QED
      BY <1>0, <1>4 DEF KeepTypes, PassShaped
  <2> QED
    BY <1>1, <1>3, <2>1, QuietDropKeeps DEF Chosen
<1>5. CASE pass' # [pass EXCEPT !.visited = visited]
  <2> DEFINE place == IF Holding = {} THEN "failed" ELSE "authorizing"
             by == IF Holding = {} THEN 0 ELSE NewestKeeper
  <2>1. /\ clock <= LastStart(targets[s]) /\ place \in {"failed", "authorizing"}
        /\ pass' = [pass EXCEPT !.at = place, !.visited = visited, !.id = s,
                      !.body = targets[s].body, !.start = clock, !.by = by]
    BY <1>5 DEF Visit
  <2> HIDE DEF place, by, visited
  <2>2. /\ PassShaped' /\ pass'.at = place /\ pass'.id = s /\ pass'.body = targets[s].body
        /\ pass'.start = clock
    <3> DEFINE x == [at |-> place, visited |-> visited, id |-> s, body |-> targets[s].body,
                     start |-> clock, received |-> pass.received, by |-> by]
    <3>1. pass' = x
      BY <1>0, <2>1 DEF KeepTypes, PassShaped
    <3> QED
      BY <3>1 DEF PassShaped
  <2>3. /\ targets[s].body = warm[s].body /\ targets[s].expires <= warm[s].until
        /\ targets[s].body \in Nat /\ targets[s].expires \in Nat /\ warm[s].until \in Nat
        /\ clock \in Nat
    BY <1>0 DEF TargetsAreWarm, KeepTypes, TargetRecord, WarmRecord
  <2>4. clock + KeepTimeout < warm[s].until /\ clock <= clock + KeepTimeout
    BY <2>1, <2>3, KeepNumbers DEF LastStart
  <2>5. PassFits'
    BY <1>1, <2>1, <2>2, <2>3, <2>4 DEF PassFits, Chosen
  <2> QED
    BY <1>1, <1>3, <2>2, <2>5, DropTargetKeeps
<1> QED
  BY <1>4, <1>5

LEMMA AcceptSteps ==
  ASSUME KeepAssumption, KeepInv, PrewarmAccepted
  PROVE  KeepInv'
<1> DEFINE s == pass.id
           until == IF warm[s].body = pass.body THEN clock + KeepTtl ELSE warm[s].until
<1>0. KeepTypes /\ PassFits /\ pass.at = "sent" /\ s \in KeepSessions /\ WarmthBounded
      /\ UNCHANGED <<clock, targets, keepSaved>>
  BY DEF KeepInv, PrewarmAccepted, PassFits, Chosen
<1>1. warm' = [warm EXCEPT ![s].until = until] /\ until \in Nat /\ until >= warm[s].until
      /\ until <= clock + KeepTtl
  BY <1>0, KeepNumbers DEF PrewarmAccepted, KeepTypes, WarmRecord, WarmthBounded
<1>2. warm[s].body = pass.body => until = clock + KeepTtl
  OBVIOUS
<1> HIDE DEF until
<1>3. /\ warm' \in [KeepSessions -> WarmRecord]
      /\ warm'[s].body = warm[s].body /\ warm'[s].until = until
      /\ \A q \in KeepSessions \ {s} : warm'[q] = warm[q]
  BY <1>0, <1>1 DEF KeepTypes, WarmRecord
<1>4. /\ PassShaped' /\ pass'.at = "accepted" /\ pass'.id = s /\ pass'.body = pass.body
      /\ pass'.received = clock
  <2> DEFINE x == [at |-> "accepted", visited |-> pass.visited, id |-> pass.id, body |-> pass.body,
                   start |-> pass.start, received |-> clock, by |-> pass.by]
  <2>1. pass' = x
    BY <1>0 DEF PrewarmAccepted, KeepTypes, PassShaped
  <2> QED
    BY <2>1 DEF PassShaped
<1>5. KeepTypes'
  BY <1>0, <1>3, <1>4 DEF KeepTypes
<1>6. PassFits'
  BY <1>0, <1>2, <1>3, <1>4, KeepNumbers DEF PassFits, Chosen, KeepTypes, WarmRecord
<1>7. \A q \in KeepSessions : /\ warm[q].until \in Nat /\ warm'[q].until \in Nat
                              /\ warm'[q].until >= warm[q].until /\ warm'[q].body = warm[q].body
                              /\ warm'[q].until <= clock + KeepTtl
  BY <1>0, <1>1, <1>3, KeepNumbers DEF KeepTypes, WarmRecord, WarmthBounded
<1>8. WarmthBounded'
  BY <1>0, <1>7 DEF WarmthBounded, KeepTypes
<1>9. TargetsAreWarm'
  BY <1>0, <1>7 DEF KeepInv, TargetsAreWarm, KeepTypes, TargetRecord, Tracked
<1> QED
  BY <1>5, <1>6, <1>8, <1>9 DEF KeepInv

LEMMA ApplySteps ==
  ASSUME KeepAssumption, KeepInv, Apply
  PROVE  KeepInv'
<1> DEFINE s == pass.id
           end == pass.received + KeepTtl
           due == end - KeepLead
<1>0. KeepTypes /\ PassFits /\ pass.at = "accepted" /\ s \in KeepSessions /\ TargetsAreWarm
      /\ UNCHANGED <<clock, warm, keepSaved>> /\ PassShaped' /\ pass'.at = "scan"
  BY Scans DEF KeepInv, Apply, PassFits, Chosen
<1>1. end \in Nat /\ due \in Int /\ (pass.body = warm[s].body => end <= warm[s].until)
  BY <1>0, KeepNumbers DEF PassFits
<1>2. targets' = [targets EXCEPT ![s] = IF StillTarget(s, pass.body)
                    THEN [targets[s] EXCEPT !.expires = end, !.due = due] ELSE targets[s]]
  BY DEF Apply
<1> HIDE DEF end, due
<1>3. PassFits'
  BY <1>0 DEF PassFits, Chosen
<1>4. CASE StillTarget(s, pass.body)
  <2> DEFINE t == [targets[s] EXCEPT !.expires = end, !.due = due]
  <2>1. t \in TargetRecord /\ t.body = targets[s].body /\ t.expires = end
    BY <1>0, <1>1 DEF KeepTypes, TargetRecord
  <2>2. targets' = [targets EXCEPT ![s] = t]
    BY <1>2, <1>4
  <2> HIDE DEF t
  <2>3. /\ targets' \in [KeepSessions -> TargetRecord] /\ targets'[s] = t
        /\ \A q \in KeepSessions \ {s} : targets'[q] = targets[q]
    BY <1>0, <2>1, <2>2 DEF KeepTypes
  <2>4. targets[s].body = warm[s].body /\ end <= warm[s].until
    BY <1>0, <1>1, <1>4 DEF StillTarget, TargetsAreWarm
  <2>5. TargetsAreWarm'
    BY <1>0, <2>1, <2>3, <2>4 DEF TargetsAreWarm, Tracked
  <2> QED
    BY <1>0, <1>3, <2>3, <2>5 DEF KeepInv, KeepTypes, WarmthBounded
<1>5. CASE ~StillTarget(s, pass.body)
  <2>1. targets' = targets
    BY <1>0, <1>2, <1>5 DEF KeepTypes
  <2>2. TargetsDrop
    BY <2>1, DropSteps
  <2> QED
    BY <1>0, <1>3, <2>2, DropTargetKeeps
<1> QED
  BY <1>4, <1>5

\* A turn makes its session's cache, and its target, anew.
LEMMA TrackSteps ==
  ASSUME KeepAssumption, KeepInv, NEW i \in KeepInstance, NEW s \in KeepSessions, Track(i, s)
  PROVE  KeepInv'
<1> DEFINE body == warm[s].body + 1
           end == clock + KeepTtl
           due == clock + KeepTtl - KeepLead
           t == [body |-> body, expires |-> end, due |-> due]
<1>0. KeepTypes /\ WarmthBounded /\ TargetsAreWarm /\ UNCHANGED <<clock, keepSaved, pass>>
  BY DEF KeepInv, Track
<1>1. body \in Nat /\ end \in Nat /\ due \in Int /\ body # 0 /\ body > warm[s].body
      /\ warm[s] \in WarmRecord
  BY <1>0, KeepNumbers DEF KeepTypes, WarmRecord
<1>2. /\ warm' = [warm EXCEPT ![s] = [body |-> body, until |-> end]]
      /\ targets' = [Pruned(targets) EXCEPT ![s] = t] \/ targets' = NoTargets
  BY DEF Track
<1>3. end = clock + KeepTtl
  OBVIOUS
<1> HIDE DEF body, end, due
<1>4. /\ warm' \in [KeepSessions -> WarmRecord]
      /\ warm'[s].body = body /\ warm'[s].until = end
      /\ \A q \in KeepSessions \ {s} : warm'[q] = warm[q]
  BY <1>0, <1>1, <1>2 DEF KeepTypes, WarmRecord
<1>5. WarmthGrows
  BY <1>0, <1>1, <1>4 DEF WarmthGrows, KeepTypes, WarmRecord
<1>6. WarmthBounded'
  <2>1. keepSaved[s] <= end
    BY <1>0, <1>1, <1>3, KeepNumbers DEF WarmthBounded, KeepTypes, WarmRecord
  <2> QED
    BY <1>0, <1>1, <1>3, <1>4, <2>1, KeepNumbers DEF WarmthBounded, KeepTypes
<1>7. PassShaped' /\ PassFits'
  <2>1. PassShaped'
    BY <1>0 DEF KeepTypes, PassShaped
  <2> QED
    BY <1>0, <1>5, <2>1, PassStays DEF Chosen
<1>8. CASE targets' = NoTargets
  <2>1. KeepTypes' /\ TargetsAreWarm'
    BY <1>0, <1>4, <1>7, <1>8, KeepValues DEF KeepTypes, TargetsAreWarm, Tracked
  <2> QED
    BY <1>6, <1>7, <2>1 DEF KeepInv
<1>9. CASE targets' = [Pruned(targets) EXCEPT ![s] = t]
  <2>1. t \in TargetRecord /\ t.body = body /\ t.expires = end
    BY <1>1 DEF TargetRecord
  <2> HIDE DEF t
  <2>2. /\ Pruned(targets) \in [KeepSessions -> TargetRecord]
        /\ \A q \in KeepSessions : Pruned(targets)[q] \in {targets[q], NoTarget}
    BY <1>0, Dropped DEF Pruned, KeepTypes
  <2>3. /\ targets' \in [KeepSessions -> TargetRecord] /\ targets'[s] = t
        /\ \A q \in KeepSessions \ {s} : targets'[q] \in {targets[q], NoTarget}
    BY <1>9, <2>1, <2>2
  <2>4. TargetsAreWarm'
    <3>1. ASSUME NEW q \in KeepSessions \ {s}, targets'[q].body # 0
          PROVE  targets'[q].body = warm'[q].body /\ targets'[q].expires <= warm'[q].until
      BY <1>0, <1>4, <2>3, <3>1, KeepValues DEF TargetsAreWarm, Tracked
    <3>2. targets'[s].body = warm'[s].body /\ targets'[s].expires <= warm'[s].until
      BY <1>1, <1>4, <2>1, <2>3
    <3> QED
      BY <3>1, <3>2 DEF TargetsAreWarm, Tracked
  <2>5. KeepTypes'
    BY <1>0, <1>4, <1>7, <2>3 DEF KeepTypes
  <2> QED
    BY <1>6, <1>7, <2>4, <2>5 DEF KeepInv
<1> QED
  BY <1>2, <1>8, <1>9

\* What was saved ends no later than its cache.
LEMMA LoadSteps ==
  ASSUME KeepAssumption, KeepInv, LoadSaved
  PROVE  KeepInv'
<1>0. KeepTypes /\ WarmthBounded /\ TargetsAreWarm /\ UNCHANGED <<clock, pass>> /\ PassShaped'
  BY DEF KeepInv, LoadSaved, KeepTypes, PassShaped
<1>1. CASE UNCHANGED <<targets, keepSaved, warm>>
  <2>1. TargetsDrop
    BY <1>1, DropSteps
  <2>2. PassFits'
    BY <1>0, <1>1 DEF KeepInv, PassFits
  <2> QED
    BY <1>0, <1>1, <2>1, <2>2, DropTargetKeeps
<1>2. CASE /\ targets' = Pruned(Restored)
           /\ warm' = [s \in KeepSessions |->
                IF RestoresTargets(s) THEN [warm[s] EXCEPT !.body = warm[s].body + 1] ELSE warm[s]]
           /\ keepSaved' = [s \in KeepSessions |-> 0]
  <2>1. /\ warm' \in [KeepSessions -> WarmRecord]
        /\ \A s \in KeepSessions :
             /\ RestoresTargets(s) => warm'[s].body = warm[s].body + 1
             /\ ~RestoresTargets(s) => warm'[s] = warm[s]
             /\ warm'[s].until = warm[s].until
    BY <1>0, <1>2 DEF KeepTypes, WarmRecord
  <2>2. /\ Restored \in [KeepSessions -> TargetRecord]
        /\ \A s \in KeepSessions :
             /\ RestoresTargets(s) =>
                  Restored[s].body = warm[s].body + 1 /\ Restored[s].expires = keepSaved[s]
             /\ ~RestoresTargets(s) => Restored[s] = targets[s]
    <3>1. ASSUME NEW s \in KeepSessions
          PROVE  /\ warm[s].body + 1 \in Nat /\ keepSaved[s] \in Nat /\ clock \in Int
                 /\ keepSaved[s] - KeepLead \in Int /\ targets[s] \in TargetRecord
      BY <1>0, KeepNumbers DEF KeepTypes, WarmRecord
    <3> QED
      BY <3>1 DEF Restored, TargetRecord
  <2>3. /\ Pruned(Restored) \in [KeepSessions -> TargetRecord]
        /\ \A s \in KeepSessions : Pruned(Restored)[s] \in {Restored[s], NoTarget}
    BY <1>0, <2>2, Dropped DEF Pruned, KeepTypes
  <2>4. TargetsAreWarm'
    <3>1. ASSUME NEW s \in KeepSessions, targets'[s].body # 0
          PROVE  targets'[s].body = warm'[s].body /\ targets'[s].expires <= warm'[s].until
      <4>1. targets'[s] = Restored[s]
        BY <1>2, <2>3, <3>1, KeepValues
      <4>2. CASE RestoresTargets(s)
        BY <1>0, <2>1, <2>2, <4>1, <4>2 DEF WarmthBounded
      <4>3. CASE ~RestoresTargets(s)
        BY <1>0, <2>1, <2>2, <3>1, <4>1, <4>3 DEF TargetsAreWarm, Tracked
      <4> QED
        BY <4>2, <4>3
    <3> QED
      BY <3>1 DEF TargetsAreWarm, Tracked
  <2>5. WarmthGrows
    <3>1. \A s \in KeepSessions : warm[s].body \in Nat /\ warm[s].until \in Nat
      BY <1>0 DEF KeepTypes, WarmRecord
    <3> QED
      BY <2>1, <3>1 DEF WarmthGrows
  <2>6. PassFits'
    BY <1>0, <2>5, PassStays DEF Chosen
  <2>7. KeepTypes'
    BY <1>0, <1>2, <2>1, <2>3 DEF KeepTypes
  <2>8. WarmthBounded'
    BY <1>0, <1>2, <2>1 DEF WarmthBounded, KeepTypes, WarmRecord
  <2> QED
    BY <2>4, <2>6, <2>7, <2>8 DEF KeepInv
<1> QED
  BY <1>1, <1>2 DEF LoadSaved, Adopting

\* Time passes no deadline.
LEMMA TimeSteps ==
  ASSUME KeepAssumption, KeepInv, Pass
  PROVE  KeepInv'
<1>0. /\ KeepTypes /\ PassFits /\ WarmthBounded /\ TargetsAreWarm /\ clock' = clock + 1
      /\ UNCHANGED <<warm, keepSaved>>
  BY DEF KeepInv, Pass
<1>1. /\ targets' \in [KeepSessions -> TargetRecord]
      /\ \A s \in KeepSessions : targets'[s] \in {targets[s], NoTarget}
  <2>1. clock' \in Nat
    BY <1>0 DEF KeepTypes
  <2>2. targets' = targets \/ targets' = Unexpired(targets, clock')
    BY DEF Pass, Retained
  <2> QED
    BY <1>0, <2>1, <2>2, Dropped DEF KeepTypes
<1>2. TargetsAreWarm'
  BY <1>0, <1>1, KeepValues DEF TargetsAreWarm, Tracked
<1>3. WarmthBounded'
  BY <1>0, KeepNumbers DEF WarmthBounded, KeepTypes, WarmRecord
<1>4. PassShaped' /\ PassFits'
  <2>1. CASE pass' = NoPass
    BY <2>1, KeepValues DEF PassFits, Chosen
  <2>2. CASE pass' = pass
    <3>1. PassShaped'
      BY <1>0, <2>2 DEF KeepTypes, PassShaped
    <3>2. pass.at \in {"authorizing", "sent"} => clock + 1 <= pass.start + KeepTimeout
      BY <1>0, KeepNumbers DEF Pass, Deadline, PassFits, KeepTypes
    <3>3. PassFits'
      BY <1>0, <2>2, <3>2 DEF PassFits
    <3> QED
      BY <3>1, <3>3
  <2> QED
    BY <2>1, <2>2 DEF Pass
<1>5. KeepTypes'
  BY <1>0, <1>1, <1>4 DEF KeepTypes
<1> QED
  BY <1>2, <1>3, <1>4, <1>5 DEF KeepInv

LEMMA KeepStarts ==
  ASSUME KeepAssumption, KeepInit
  PROVE  KeepInv
<1>1. /\ clock = 1 /\ targets = NoTargets /\ keepSaved \in [KeepSessions -> {0, 1 + KeepLead}]
      /\ warm = [s \in KeepSessions |-> [body |-> 0, until |-> keepSaved[s]]] /\ pass = NoPass
  BY DEF KeepInit
<1>2. 1 + KeepLead \in Nat /\ 1 + KeepLead <= 1 + KeepTtl
  BY KeepNumbers
<1>3. ASSUME NEW s \in KeepSessions
      PROVE  keepSaved[s] \in Nat /\ keepSaved[s] <= 1 + KeepTtl /\ warm[s].until = keepSaved[s]
  <2>1. keepSaved[s] \in {0, 1 + KeepLead} /\ warm[s].until = keepSaved[s]
    BY <1>1
  <2> QED
    BY <1>2, <2>1, KeepNumbers
<1>4. warm \in [KeepSessions -> WarmRecord] /\ keepSaved \in [KeepSessions -> Nat]
  BY <1>1, <1>3 DEF WarmRecord
<1>5. PassShaped /\ pass.at = "none"
  BY <1>1 DEF PassShaped, NoPass
<1>6. KeepTypes
  BY <1>1, <1>4, <1>5, KeepValues DEF KeepTypes
<1>7. WarmthBounded
  <2>1. ASSUME NEW s \in KeepSessions
        PROVE  warm[s].until <= clock + KeepTtl /\ keepSaved[s] <= warm[s].until
    <3>1. /\ keepSaved[s] \in Nat /\ keepSaved[s] <= 1 + KeepTtl
          /\ warm[s].until = keepSaved[s]
      BY <1>3
    <3> QED
      BY <1>1, <3>1
  <2> QED
    BY <2>1 DEF WarmthBounded
<1> QED
  BY <1>1, <1>5, <1>6, <1>7, KeepValues DEF KeepInv, TargetsAreWarm, Tracked, PassFits, Chosen

\* No session is believed warmer than it is, for any sessions, instances,
\* lifetimes and deadlines that leave room for a prewarm: a target is of the
\* cache's body or an older one nobody holds any more, and a prewarm that was
\* begun ends before the cache does.
THEOREM WarmAsBelieved == KeepSpec => []WarmthIsReal
<1>1. ASSUME KeepInv, [KeepNext]_keepVars PROVE KeepInv'
  <2>1. CASE UNCHANGED keepVars
    BY <1>1, <2>1
       DEF keepVars, KeepInv, KeepTypes, PassShaped, WarmthBounded, TargetsAreWarm, PassFits, Tracked
  <2>2. CASE KeepNext
    BY <1>1, <2>2, KeepAssumption, InstanceSteps, PolicySteps, FailSteps, VisitSteps, AcceptSteps,
       ApplySteps, TrackSteps, LoadSteps, TimeSteps DEF KeepNext
  <2> QED
    BY <1>1, <2>1, <2>2
<1>2. KeepInv => WarmthIsReal
  <2> SUFFICES ASSUME KeepInv PROVE WarmthIsReal
    OBVIOUS
  <2>1. ASSUME pass.at = "sent", pass.body = warm[pass.id].body PROVE clock < warm[pass.id].until
    <3>1. pass.id \in KeepSessions /\ pass.start \in Nat /\ clock <= pass.start + KeepTimeout
          /\ pass.start + KeepTimeout < warm[pass.id].until
      BY <2>1 DEF KeepInv, PassFits, Chosen
    <3> QED
      BY <3>1, KeepNumbers, KeepAssumption DEF KeepInv, KeepTypes, WarmRecord
  <2> QED
    BY <2>1 DEF KeepInv, TargetsAreWarm, WarmthIsReal
<1> QED
  BY <1>1, <1>2, KeepStarts, KeepAssumption, PTL DEF KeepSpec
=============================================================================
