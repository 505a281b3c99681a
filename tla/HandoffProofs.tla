---------------------------- MODULE HandoffProofs -----------------------------
(*****************************************************************************)
(* Proofs about Pi's requests and OpenCode 2's sends, for any people,        *)
(* accounts, custody, dispatch, modes and bounds.  PiInv follows a resumed   *)
(* request from its wait on (Meant), and the runtime through its drain:      *)
(*   SentToItsPerson   a body goes with the credential of whom it names, and *)
(*                     a resumed request to the account it waited for        *)
(*   NothingOwed       a closed runtime has written what it served           *)
(* V2Inv says of each request, by the place it is at, what its body, its     *)
(* credential, answer and marks are worth (Sound), and of each prepared      *)
(* retry that it is for the account that was refused:                        *)
(*   SpeaksForOne      body and credential of a send are of one account      *)
(*   ReportsOnce       a rejection is reported once, by the attempt's end    *)
(*   RevokedStays      nothing leaves after its session was forgotten        *)
(*****************************************************************************)
EXTENDS PiRequests, V2Sends, SequenceTheorems, TLAPS
-----------------------------------------------------------------------------
(* Requests of Pi.                                                             *)

PiPlaces == {"new", "preparing", "built", "sent", "rejected", "refused", "choosing", "waiting", "probing", "done"}
PiStages == {"first", "moved", "ahead", "main", "instead", "asked", "after", "resumed"}
PiWhys == {"none", "error", "served", "refusal", "rejected", "limited", "forbidden", "other"}
Persons == PiPeople \cup {NoPerson}
Somewhere == PiRoutes \cup {NoRoutePinned}

PiReqs ==
  [at : PiPlaces, on : Somewhere, named : Persons, with : Persons, retried : BOOLEAN, resent : BOOLEAN,
   waited : BOOLEAN, stage : PiStages, queue : Seq(PiRoutes), hold : [route : Somewhere, person : Persons],
   why : PiWhys]

\* A request under way has a route; one that was resumed has the route and
\* the person it waited for, from its body on.
Meant(r) ==
  /\ r.at \in {"preparing", "built", "sent", "rejected", "refused"} => r.on \in PiRoutes
  /\ r.at = "waiting" => r.hold = NoHold \/ r.hold.route \in PiRoutes
  /\ r.at = "probing" => r.hold = NoHold \/ (r.hold.route \in PiRoutes /\ r.hold.person # NoPerson)
  /\ r.at \in {"sent", "rejected"} => r.with = r.named
  /\ r.stage = "resumed" =>
       /\ r.at \in {"preparing", "built", "sent", "rejected", "refused"}
       /\ r.on = r.hold.route /\ r.hold.person # NoPerson
       /\ r.at \in {"built", "sent", "rejected"} => r.named = r.hold.person

\* The runtime closes in the order of its drain, and what is served after the
\* drain began is not counted.
Draining ==
  /\ piRuntime \in {"open", "uses", "reports", "closed"}
  /\ owed \subseteq {"use", "report"}
  /\ piRuntime \in {"reports", "closed"} => "use" \notin owed
  /\ piRuntime = "closed" => "report" \notin owed

PiInv ==
  /\ behind \in [PiRoutes -> [person : PiPeople, says : BOOLEAN]]
  /\ piRequest \in PiReqs
  /\ Meant(piRequest)
  /\ Draining

---------------------------------------------------------------------------
LEMMA Queued == PiFallbacks \in Seq(PiRoutes)
BY PiRequestsAssumption DEF PiRoutes, Range

LEMMA NewPiType == NewPiRequest \in PiReqs
BY EmptySeq DEF NewPiRequest, PiReqs, PiPlaces, PiStages, PiWhys, Persons, Somewhere, NoHold

\* A step of the request keeps the invariant if what it becomes is sound.
LEMMA PiMoves ==
  ASSUME PiInv, NEW r \in PiReqs, piRequest' = r, Meant(r), UNCHANGED <<behind, piRuntime, owed>>
  PROVE  PiInv'
<1>1. PiReqs' = PiReqs /\ PiRoutes' = PiRoutes
  BY DEF PiReqs, Persons, Somewhere, PiRoutes
<1> QED
  BY <1>1 DEF PiInv, Meant, Draining

\* A request that has ended means nothing any more.
LEMMA DoneKeeps ==
  ASSUME PiInv, NEW why \in PiWhys, PiDone(why), UNCHANGED <<behind, piRuntime, owed>>
  PROVE  PiInv'
<1> DEFINE r == [NewPiRequest EXCEPT !.at = "done", !.why = why]
<1>1. r \in PiReqs
  BY NewPiType DEF PiReqs, PiPlaces
<1>2. r.at = "done" /\ r.stage = "first"
  BY DEF NewPiRequest
<1> HIDE DEF r
<1>3. Meant(r)
  BY <1>2 DEF Meant
<1> QED
  BY <1>1, <1>3, PiMoves DEF PiDone, r

\* A new send on a route of its own stage.
LEMMA SendKeeps ==
  ASSUME PiInv, NEW s \in PiRoutes, NEW stage \in PiStages, PiSend(s, stage),
         stage = "resumed" => piRequest.hold.route = s /\ piRequest.hold.person # NoPerson,
         UNCHANGED <<behind, piRuntime, owed>>
  PROVE  PiInv'
<1> DEFINE no == FALSE
           r == [piRequest EXCEPT !.at = "preparing", !.on = s, !.named = NoPerson, !.with = NoPerson,
                                  !.retried = no, !.resent = no, !.stage = stage]
<1>0. no \in BOOLEAN /\ NoPerson \in Persons /\ s \in Somewhere /\ piRequest \in PiReqs
  BY DEF Persons, Somewhere, PiInv
<1>1. piRequest' = r
  BY DEF PiSend
<1> HIDE DEF no
<1>2. r \in PiReqs
  BY <1>0 DEF PiReqs, PiPlaces
<1>3. r.at = "preparing" /\ r.on = s /\ r.stage = stage /\ r.hold = piRequest.hold
  BY <1>0 DEF PiReqs
<1> HIDE DEF r
<1>4. Meant(r)
  BY <1>3 DEF Meant
<1> QED
  BY <1>1, <1>2, <1>4, PiMoves

\* A refusal keeps the route and the stage.
LEMMA RefusedKeeps ==
  ASSUME PiInv, NEW why \in PiWhys, piRequest.at \in {"sent", "rejected"}, IsRefused(why),
         UNCHANGED <<behind, piRuntime, owed>>
  PROVE  PiInv'
<1> DEFINE no == FALSE
           r == [piRequest EXCEPT !.at = "refused", !.why = why, !.named = NoPerson, !.with = NoPerson,
                                  !.retried = no, !.resent = no]
<1>0. no \in BOOLEAN /\ NoPerson \in Persons /\ piRequest \in PiReqs
  BY DEF Persons, PiInv
<1>1. piRequest' = r
  BY DEF IsRefused
<1> HIDE DEF no
<1>2. r \in PiReqs
  BY <1>0 DEF PiReqs, PiPlaces
<1>3. r.at = "refused" /\ r.on = piRequest.on /\ r.stage = piRequest.stage /\ r.hold = piRequest.hold
  BY <1>0 DEF PiReqs
<1> HIDE DEF r
<1>4. Meant(r)
  BY <1>3 DEF PiInv, Meant
<1> QED
  BY <1>1, <1>2, <1>4, PiMoves

\* A wait is for a route, and for whom its row named, or for none.
LEMMA WaitKeeps ==
  ASSUME PiInv, NEW hold, Waits(hold), UNCHANGED <<behind, piRuntime, owed>>,
         hold = NoHold \/ hold \in [route : PiRoutes, person : Persons]
  PROVE  PiInv'
<1>1. CASE piRequest.waited
  BY <1>1, DoneKeeps DEF Waits, PiWhys
<1>2. CASE ~piRequest.waited
  <2> DEFINE yes == TRUE
             r == [NewPiRequest EXCEPT !.at = "waiting", !.waited = yes, !.hold = hold]
  <2>0. yes \in BOOLEAN /\ hold \in [route : Somewhere, person : Persons]
    BY DEF NoHold, Persons, Somewhere
  <2>1. piRequest' = r
    BY <1>2 DEF Waits
  <2> HIDE DEF yes
  <2>2. r \in PiReqs
    BY <2>0, NewPiType DEF PiReqs, PiPlaces
  <2>3. r.at = "waiting" /\ r.hold = hold /\ r.stage = "first"
    BY DEF NewPiRequest
  <2> HIDE DEF r
  <2>4. Meant(r)
    BY <2>3 DEF Meant
  <2> QED
    BY <2>1, <2>2, <2>4, PiMoves
<1> QED
  BY <1>1, <1>2

LEMMA HoldKeeps ==
  ASSUME PiInv, NEW s \in PiRoutes, HoldsFor(s), UNCHANGED <<behind, piRuntime, owed>>
  PROVE  PiInv'
<1>1. SaidOf(s) \in Persons
  BY DEF PiInv, SaidOf, Persons
<1>2. [route |-> s, person |-> SaidOf(s)] \in [route : PiRoutes, person : Persons]
  BY <1>1
<1> QED
  BY <1>2, WaitKeeps DEF HoldsFor

LEMMA NoHoldKeeps ==
  ASSUME PiInv, Waits(NoHold), UNCHANGED <<behind, piRuntime, owed>>
  PROVE  PiInv'
BY WaitKeeps

---------------------------------------------------------------------------
(* One send.                                                               *)

LEMMA PreparePiKeeps ==
  ASSUME PiInv, PrepareSend
  PROVE  PiInv'
<1> DEFINE s == piRequest.on
<1>0. s \in PiRoutes /\ piRequest \in PiReqs /\ UNCHANGED <<behind, piRuntime, owed>>
  BY DEF PiInv, Meant, PrepareSend, PiAt
<1>1. CASE PiRefused \/ PiDone("error")
  BY <1>0, <1>1, DoneKeeps DEF PiRefused, PiWhys
<1>2. ASSUME NEW name \in Persons, Expected(SaidOf(s)), SaidOf(s) # NoPerson => name = SaidOf(s),
             SaidOf(s) # NoPerson \/ piRequest.stage # "resumed",
             piRequest' = [piRequest EXCEPT !.at = "built", !.named = name]
      PROVE  PiInv'
  <2> DEFINE r == [piRequest EXCEPT !.at = "built", !.named = name]
  <2>1. r \in PiReqs
    BY <1>0 DEF PiReqs, PiPlaces
  <2>2. /\ r.at = "built" /\ r.on = s /\ r.stage = piRequest.stage /\ r.hold = piRequest.hold /\ r.named = name
    BY <1>0 DEF PiReqs
  <2> HIDE DEF r
  <2>3. Meant(r)
    BY <1>0, <1>2, <2>2 DEF PiInv, Meant, Expected
  <2> QED
    BY <1>0, <1>2, <2>1, <2>3, PiMoves DEF r
<1>3. CASE Expected(SaidOf(s)) /\ SaidOf(s) # NoPerson
           /\ piRequest' = [piRequest EXCEPT !.at = "built", !.named = SaidOf(s)]
  <2>1. SaidOf(s) \in Persons
    BY <1>0 DEF PiInv, SaidOf, Persons
  <2> QED
    BY <1>2, <1>3, <2>1
<1>4. CASE Expected(SaidOf(s)) /\ SaidOf(s) = NoPerson
           /\ piRequest' = [piRequest EXCEPT !.at = "built", !.named = behind[s].person]
  <2>1. behind[s].person \in Persons
    BY <1>0 DEF PiInv, Persons
  <2>2. piRequest.stage # "resumed"
    BY <1>4 DEF Expected, PiInv, Meant
  <2> QED
    BY <1>2, <1>4, <2>1, <2>2
<1> QED
  BY <1>1, <1>3, <1>4 DEF PrepareSend

LEMMA TakeKeeps ==
  ASSUME PiInv, TakeAttempt
  PROVE  PiInv'
<1> DEFINE holder == behind[piRequest.on].person
           r == [piRequest EXCEPT !.at = "sent", !.with = holder]
<1>0. piRequest.on \in PiRoutes /\ piRequest.at = "built" /\ piRequest \in PiReqs /\ holder \in Persons
      /\ UNCHANGED <<behind, piRuntime, owed>>
  BY DEF PiInv, Meant, TakeAttempt, PiAt, Persons
<1>1. CASE PiDone("error")
  BY <1>0, <1>1, DoneKeeps DEF PiWhys
<1>2. CASE MayCarry(holder) /\ piRequest' = r
  <2> HIDE DEF holder
  <2>1. r \in PiReqs
    BY <1>0 DEF PiReqs, PiPlaces
  <2>2. /\ r.at = "sent" /\ r.on = piRequest.on /\ r.stage = piRequest.stage /\ r.hold = piRequest.hold
        /\ r.named = piRequest.named /\ r.with = piRequest.named
    BY <1>0, <1>2 DEF PiReqs, MayCarry
  <2>3. piRequest' = r
    BY <1>2
  <2> HIDE DEF r
  <2>4. Meant(r)
    BY <1>0, <2>2 DEF PiInv, Meant
  <2> QED
    BY <1>0, <2>1, <2>3, <2>4, PiMoves
<1> QED
  BY <1>1, <1>2 DEF TakeAttempt

\* A place a request goes to with all it has.
LEMMA GoesKeeps ==
  ASSUME PiInv, NEW place \in PiPlaces, PiGoes(place), UNCHANGED <<behind, piRuntime, owed>>,
         \/ place = "rejected" /\ piRequest.at = "sent"
         \/ place = "probing" /\ piRequest.at = "waiting"
              /\ (piRequest.hold = NoHold \/ piRequest.hold.person # NoPerson)
         \/ place = "choosing" /\ piRequest.stage # "resumed"
  PROVE  PiInv'
<1> DEFINE r == [piRequest EXCEPT !.at = place]
<1>1. r \in PiReqs
  BY DEF PiInv, PiReqs
<1>2. /\ r.at = place /\ r.on = piRequest.on /\ r.stage = piRequest.stage /\ r.hold = piRequest.hold
      /\ r.named = piRequest.named /\ r.with = piRequest.with
  BY DEF PiInv, PiReqs
<1>3. piRequest' = r
  BY DEF PiGoes
<1> HIDE DEF r
<1>4. Meant(r)
  <2>1. CASE place = "rejected" /\ piRequest.at = "sent"
    BY <1>2, <2>1 DEF PiInv, Meant
  <2>2. CASE place = "probing" /\ piRequest.at = "waiting"
             /\ (piRequest.hold = NoHold \/ piRequest.hold.person # NoPerson)
    <3>1. piRequest.stage # "resumed"
      BY <2>2 DEF PiInv, Meant
    <3>2. piRequest.hold = NoHold \/ piRequest.hold.route \in PiRoutes
      BY <2>2 DEF PiInv, Meant
    <3> QED
      BY <1>2, <2>2, <3>1, <3>2 DEF Meant
  <2>3. CASE place = "choosing" /\ piRequest.stage # "resumed"
    BY <1>2, <2>3 DEF PiInv, Meant
  <2> QED
    BY <2>1, <2>2, <2>3
<1> QED
  BY <1>1, <1>3, <1>4, PiMoves

\* What a step owes, on top of what it does to the request.
LEMMA OwesKeeps ==
  ASSUME PiInv, NEW what \in {"use", "report"}, Owes(what), UNCHANGED <<behind, piRuntime>>,
         piRequest' \in PiReqs, Meant(piRequest')
  PROVE  PiInv'
<1>1. PiReqs' = PiReqs /\ PiRoutes' = PiRoutes
  BY DEF PiReqs, Persons, Somewhere, PiRoutes
<1> QED
  BY <1>1 DEF PiInv, Meant, Draining, Owes, Serving

LEMMA AcceptedKeeps ==
  ASSUME PiInv, SendAccepted
  PROVE  PiInv'
<1> DEFINE r == [NewPiRequest EXCEPT !.at = "done", !.why = "served"]
<1>1. r \in PiReqs /\ piRequest' = r
  BY NewPiType DEF PiReqs, PiPlaces, PiWhys, SendAccepted, PiDone
<1>2. r.at = "done" /\ r.stage = "first"
  BY DEF NewPiRequest
<1> HIDE DEF r
<1>3. Meant(r)
  BY <1>2 DEF Meant
<1> QED
  BY <1>1, <1>3, OwesKeeps DEF SendAccepted

LEMMA RejectedKeeps ==
  ASSUME PiInv, SendRejected
  PROVE  PiInv'
<1> DEFINE r == [piRequest EXCEPT !.at = "rejected"]
<1>1. r \in PiReqs /\ piRequest' = r
  BY DEF PiInv, PiReqs, PiPlaces, SendRejected, PiGoes
<1>2. /\ r.at = "rejected" /\ r.on = piRequest.on /\ r.stage = piRequest.stage /\ r.hold = piRequest.hold
      /\ r.named = piRequest.named /\ r.with = piRequest.with
  BY DEF PiInv, PiReqs
<1> HIDE DEF r
<1>3. Meant(r)
  BY <1>2 DEF PiInv, Meant, SendRejected, PiAt
<1> QED
  BY <1>1, <1>3, OwesKeeps DEF SendRejected

\* The same body goes again, with the credential of whom it names.
LEMMA RetryPiKeeps ==
  ASSUME PiInv, RetryRejected
  PROVE  PiInv'
<1>1. piRequest \in PiReqs /\ piRequest.at = "rejected" /\ UNCHANGED <<behind, piRuntime, owed>>
  BY DEF PiInv, RetryRejected, PiAt
<1>2. CASE IsRefused("rejected")
  BY <1>1, <1>2, RefusedKeeps DEF PiWhys
<1>3. CASE piRequest' = [piRequest EXCEPT !.at = "sent", !.retried = TRUE]
  <2> DEFINE yes == TRUE
             r == [piRequest EXCEPT !.at = "sent", !.retried = yes]
  <2>0. yes \in BOOLEAN /\ piRequest' = r
    BY <1>3
  <2> HIDE DEF yes
  <2>1. r \in PiReqs
    BY <1>1, <2>0 DEF PiReqs, PiPlaces
  <2>2. /\ r.at = "sent" /\ r.on = piRequest.on /\ r.stage = piRequest.stage /\ r.hold = piRequest.hold
        /\ r.named = piRequest.named /\ r.with = piRequest.with
    BY <1>1 DEF PiReqs
  <2> HIDE DEF r
  <2>3. Meant(r)
    BY <1>1, <2>2 DEF PiInv, Meant
  <2> QED
    BY <1>1, <2>0, <2>1, <2>3, PiMoves
<1> QED
  BY <1>2, <1>3 DEF RetryRejected

LEMMA ResendPiKeeps ==
  ASSUME PiInv, Resend
  PROVE  PiInv'
<1>1. piRequest \in PiReqs /\ piRequest.at = "sent" /\ UNCHANGED <<behind, piRuntime, owed>>
  BY DEF PiInv, Resend, PiAt
<1> DEFINE yes == TRUE
           r == [piRequest EXCEPT !.at = "built", !.resent = yes]
<1>2. yes \in BOOLEAN /\ piRequest' = r
  BY DEF Resend
<1> HIDE DEF yes
<1>3. r \in PiReqs
  BY <1>1, <1>2 DEF PiReqs, PiPlaces
<1>4. /\ r.at = "built" /\ r.on = piRequest.on /\ r.stage = piRequest.stage /\ r.hold = piRequest.hold
      /\ r.named = piRequest.named
  BY <1>1 DEF PiReqs
<1> HIDE DEF r
<1>5. Meant(r)
  BY <1>1, <1>4 DEF PiInv, Meant
<1> QED
  BY <1>1, <1>2, <1>3, <1>5, PiMoves

LEMMA LimitedKeeps ==
  ASSUME PiInv, NEW why \in {"limited", "forbidden", "other"}, SendLimited(why)
  PROVE  PiInv'
BY RefusedKeeps DEF SendLimited, PiAt, PiWhys

---------------------------------------------------------------------------
(* Sticky-balanced routing and the ordered modes.                          *)

LEMMA StickyKeeps ==
  ASSUME PiInv,
         \/ \E s \in PiRoutes : StickyRoute(s) \/ StickyHoldFirst(s)
         \/ StickyWaits \/ PiNoRoute \/ StickyRetain \/ StickyAnswer \/ StickyMigrate \/ MovedRefusal
  PROVE  PiInv'
<1>0. {"error", "refusal", "served"} \subseteq PiWhys /\ {"first", "moved"} \subseteq PiStages
  BY DEF PiWhys, PiStages
<1>1. CASE \E s \in PiRoutes : StickyRoute(s)
  BY <1>0, <1>1, SendKeeps DEF StickyRoute
<1>2. CASE \E s \in PiRoutes : StickyHoldFirst(s)
  BY <1>2, HoldKeeps DEF StickyHoldFirst
<1>3. CASE StickyWaits
  BY <1>0, <1>3, DoneKeeps DEF StickyWaits
<1>4. CASE PiNoRoute
  BY <1>0, <1>4, DoneKeeps, NoHoldKeeps DEF PiNoRoute
<1>5. CASE StickyRetain
  <2>1. piRequest.on \in PiRoutes
    BY <1>5 DEF StickyRetain, FirstRefusal, PiAt, PiInv, Meant
  <2> QED
    BY <1>0, <1>5, <2>1, DoneKeeps, HoldKeeps DEF StickyRetain
<1>6. CASE StickyAnswer \/ MovedRefusal
  BY <1>0, <1>6, DoneKeeps DEF StickyAnswer, MovedRefusal
<1>7. CASE StickyMigrate
  BY <1>0, <1>7, DoneKeeps, SendKeeps DEF StickyMigrate
<1> QED
  BY <1>1, <1>2, <1>3, <1>4, <1>5, <1>6, <1>7

\* A request of an ordered mode chooses on, with what is left of its list.
LEMMA ChoosesKeeps ==
  ASSUME PiInv, NEW stage \in PiStages \ {"resumed"}, NEW queue \in Seq(PiRoutes),
         piRequest' = [piRequest EXCEPT !.at = "choosing", !.stage = stage, !.queue = queue],
         UNCHANGED <<behind, piRuntime, owed>>
  PROVE  PiInv'
<1> DEFINE r == [piRequest EXCEPT !.at = "choosing", !.stage = stage, !.queue = queue]
<1>1. r \in PiReqs
  BY DEF PiInv, PiReqs, PiPlaces
<1>2. r.at = "choosing" /\ r.stage = stage
  BY DEF PiInv, PiReqs
<1> HIDE DEF r
<1>3. Meant(r)
  BY <1>2 DEF Meant
<1> QED
  BY <1>1, <1>3, PiMoves DEF r

LEMMA TryKeeps ==
  ASSUME PiInv, NEW n, TryNext(n)
  PROVE  PiInv'
<1> DEFINE s == piRequest.queue[n]
           rest == SubSeq(piRequest.queue, n + 1, Len(piRequest.queue))
           r == [piRequest EXCEPT !.at = "preparing", !.on = s, !.why = "none", !.queue = rest]
<1>1. piRequest \in PiReqs /\ piRequest.at = "choosing" /\ UNCHANGED <<behind, piRuntime, owed>>
      /\ n \in DOMAIN piRequest.queue
  BY DEF PiInv, TryNext, PiAt
<1>2. piRequest.queue \in Seq(PiRoutes)
  BY <1>1 DEF PiReqs
<1>3. s \in PiRoutes /\ rest \in Seq(PiRoutes)
  BY <1>1, <1>2
<1>4. piRequest' = r
  BY DEF TryNext
<1> HIDE DEF s, rest
<1>5. r \in PiReqs
  BY <1>1, <1>3 DEF PiReqs, PiPlaces, PiWhys, Somewhere
<1>6. r.at = "preparing" /\ r.on = s /\ r.stage = piRequest.stage
  BY <1>1 DEF PiReqs
<1> HIDE DEF r
<1>7. Meant(r)
  BY <1>1, <1>3, <1>6 DEF PiInv, Meant
<1> QED
  BY <1>1, <1>4, <1>5, <1>7, PiMoves

LEMMA OrderedKeeps ==
  ASSUME PiInv,
         \/ OrderedBegins \/ AskMain \/ MainRefused \/ AfterAll \/ FallbackRefused
  PROVE  PiInv'
<1>0. /\ {"refusal", "served"} \subseteq PiWhys /\ {"ahead", "main", "asked", "instead", "after"} \subseteq PiStages \ {"resumed"}
      /\ "choosing" \in PiPlaces /\ "main" \in PiRoutes
  BY DEF PiWhys, PiStages, PiPlaces, PiRoutes
<1>1. CASE OrderedBegins
  BY <1>0, <1>1, Queued, EmptySeq, ChoosesKeeps DEF OrderedBegins
<1>2. CASE AskMain
  <2>1. CASE PiSend("main", "asked")
    BY <1>0, <1>2, <2>1, SendKeeps DEF AskMain
  <2>2. CASE piRequest' = [piRequest EXCEPT !.stage = "instead", !.queue = PiFallbacks]
    <3>1. piRequest' = [piRequest EXCEPT !.at = "choosing", !.stage = "instead", !.queue = PiFallbacks]
      BY <1>2, <2>2 DEF AskMain, PiAt, PiInv, PiReqs
    <3> QED
      BY <1>0, <1>2, <3>1, Queued, ChoosesKeeps DEF AskMain
  <2> QED
    BY <1>2, <2>1, <2>2 DEF AskMain
<1>3. CASE MainRefused
  BY <1>0, <1>3, Queued, DoneKeeps, ChoosesKeeps DEF MainRefused
<1>4. CASE AfterAll
  BY <1>0, <1>4, DoneKeeps DEF AfterAll
<1>5. CASE FallbackRefused
  BY <1>0, <1>5, DoneKeeps, GoesKeeps DEF FallbackRefused
<1> QED
  BY <1>1, <1>2, <1>3, <1>4, <1>5

---------------------------------------------------------------------------
(* The wait, the runtime and the world.                                    *)

LEMMA WaitingKeeps ==
  ASSUME PiInv, WaitIsOver \/ Resume \/ ResumedRefusal \/ AuthorizeRefused \/ PiAbort
  PROVE  PiInv'
<1>0. {"error", "refusal"} \subseteq PiWhys /\ "probing" \in PiPlaces /\ "resumed" \in PiStages
  BY DEF PiWhys, PiPlaces, PiStages
<1>1. CASE WaitIsOver
  <2>1. CASE PiDone("refusal")
    BY <1>0, <1>1, <2>1, DoneKeeps DEF WaitIsOver
  <2>2. CASE (piRequest.hold # NoHold => StillHeld) /\ PiGoes("probing")
    BY <1>0, <1>1, <2>2, GoesKeeps DEF WaitIsOver, PiAt, StillHeld
  <2> QED
    BY <1>1, <2>1, <2>2 DEF WaitIsOver, PiGoes
<1>2. CASE Resume
  <2>1. CASE piRequest.hold # NoHold /\ PiSend(piRequest.hold.route, "resumed")
    <3>1. piRequest.hold.route \in PiRoutes /\ piRequest.hold.person # NoPerson
      BY <1>2, <2>1 DEF Resume, PiAt, PiInv, Meant
    <3> QED
      BY <1>0, <1>2, <2>1, <3>1, SendKeeps DEF Resume
  <2>2. CASE PiDone("refusal") \/ PiRefused
    BY <1>0, <1>2, <2>2, DoneKeeps DEF Resume, PiRefused
  <2>3. CASE piRequest' = [NewPiRequest EXCEPT !.waited = TRUE]
    <3> DEFINE yes == TRUE
               r == [NewPiRequest EXCEPT !.waited = yes]
    <3>1. yes \in BOOLEAN /\ piRequest' = r
      BY <2>3
    <3> HIDE DEF yes
    <3>2. r \in PiReqs
      BY <3>1, NewPiType DEF PiReqs
    <3>3. r.at = "new" /\ r.stage = "first"
      BY DEF NewPiRequest
    <3> HIDE DEF r
    <3>4. Meant(r)
      BY <3>3 DEF Meant
    <3> QED
      BY <1>2, <3>1, <3>2, <3>4, PiMoves DEF Resume
  <2> QED
    BY <1>2, <2>1, <2>2, <2>3 DEF Resume
<1>3. CASE ResumedRefusal \/ AuthorizeRefused \/ PiAbort
  BY <1>0, <1>3, DoneKeeps DEF ResumedRefusal, AuthorizeRefused, PiAbort
<1> QED
  BY <1>1, <1>2, <1>3

LEMMA RuntimeKeeps ==
  ASSUME PiInv, (\E what \in owed : Publish(what)) \/ CloseRuntime \/ UsesDrained \/ ReportsDrained
  PROVE  PiInv'
<1>1. UNCHANGED <<behind, piRequest>>
  BY DEF Publish, CloseRuntime, UsesDrained, ReportsDrained
<1>2. PiReqs' = PiReqs /\ PiRoutes' = PiRoutes
  BY DEF PiReqs, Persons, Somewhere, PiRoutes
<1>3. Draining'
  BY DEF PiInv, Draining, Publish, CloseRuntime, UsesDrained, ReportsDrained, Drained
<1> QED
  BY <1>1, <1>2, <1>3 DEF PiInv, Meant

LEMMA SwapKeeps ==
  ASSUME PiInv, NEW s \in PiRoutes, SwapAccount(s)
  PROVE  PiInv'
BY DEF SwapAccount, PiInv, Meant, Draining, PiReqs, Persons, Somewhere, PiRoutes

---------------------------------------------------------------------------
LEMMA PiInvInit == PiInit => PiInv
<1> SUFFICES ASSUME PiInit PROVE PiInv
  OBVIOUS
<1>1. NewPiRequest.at = "new" /\ NewPiRequest.stage = "first"
  BY DEF NewPiRequest
<1>2. Meant(NewPiRequest)
  BY <1>1 DEF Meant
<1> QED
  BY <1>2, NewPiType DEF PiInit, PiInv, Draining

LEMMA PiInvStep == PiInv /\ [PiRequestsNext]_piVars => PiInv'
<1> SUFFICES ASSUME PiInv, [PiRequestsNext]_piVars PROVE PiInv'
  OBVIOUS
<1>1. CASE UNCHANGED piVars
  BY <1>1 DEF piVars, PiInv, Meant, Draining, PiReqs, Persons, Somewhere, PiRoutes
<1>2. CASE PiRequestsNext
  BY <1>2, PreparePiKeeps, TakeKeeps, AcceptedKeeps, RejectedKeeps, RetryPiKeeps, ResendPiKeeps, LimitedKeeps,
     StickyKeeps, TryKeeps, OrderedKeeps, WaitingKeeps, RuntimeKeeps, SwapKeeps DEF PiRequestsNext
<1> QED
  BY <1>1, <1>2

THEOREM PiInvariant == PiSpec => []PiInv
BY PiInvInit, PiInvStep, PTL DEF PiSpec

\* SentAsMeant: however the accounts behind the routes change, a body goes out
\* with the credential of the person it names, and a request that waited for
\* an account's reset to that account.
THEOREM SentToItsPerson == PiSpec => []SentAsMeant
<1>1. PiInv => SentAsMeant
  BY DEF PiInv, Meant, SentAsMeant, PiAt
<1> QED
  BY <1>1, PiInvariant, PTL

\* ClosesWithNothingOwed: close() loses no use of an account and no report of
\* a refused credential that was served before it.
THEOREM NothingOwed == PiSpec => []ClosesWithNothingOwed
<1>1. PiInv => ClosesWithNothingOwed
  BY DEF PiInv, Draining, ClosesWithNothingOwed
<1> QED
  BY <1>1, PiInvariant, PTL

-----------------------------------------------------------------------------
(* Sends of OpenCode 2.                                                        *)

Someone == V2People \cup {"nobody"}
Creds == [who : Someone, version : Nat]

\* The vault's retry is for the account that was refused, and newer.
ForTheRefused(retry) ==
  custody = "vault" /\ retry.cred # NoCred =>
    retry.cred.who = retry.of.who /\ StrictlyNewer(retry.of, retry.cred)

Retries ==
  {retry \in [by : V2Requests \cup {"none"}, row : Someone, direct : BOOLEAN, of : Creds, cred : Creds] :
     ForTheRefused(retry)}

Places == {"new", "chosen", "authorizing", "authorized", "rewriting", "sent", "answered", "renewing",
           "classified", "reauthorizing", "resending", "resent", "closing", "judged", "judging", "ended"}

Sends ==
  [at : Places, life : Nat, row : Someone, choice : Retries, cred : Creds, grantedIn : Nat,
   body : Someone, relay : BOOLEAN, again : BOOLEAN, answer : Answers \cup {"none"},
   limit : BOOLEAN, tries : Nat, reported : BOOLEAN, due : Int]

V2Types ==
  /\ stored \in Creds
  /\ life \in Nat
  /\ v2Closed \in BOOLEAN
  /\ sends \in [V2Requests -> Sends]
  /\ authorized \subseteq V2Requests /\ held \subseteq V2Requests
  /\ prepared \subseteq Retries
  /\ recoveries \in Seq(Retries)

\* The body names the account of the credential, and a send goes with the
\* credential its retry brought.
Speaks(send) ==
  /\ send.at \in {"rewriting", "sent", "answered", "renewing", "classified", "reauthorizing",
                  "resending", "resent"} => send.body = send.cred.who
  /\ send.at \in {"authorized", "rewriting", "sent", "resending", "resent"}
       /\ send.choice.cred # NoCred => send.cred = send.choice.cred

\* A rejection is due until it is reported; a request between two sends has
\* no answer, and what is sent anew was refused for its thread.
Accounts(send) ==
  /\ send.due = IF send.answer = "401" /\ custody = "vault" /\ ~send.reported THEN 1 ELSE 0
  /\ send.at \in Waiting \cup {"new", "sent", "judged", "ended"} => send.answer = "none"
  /\ send.at \in {"classified", "reauthorizing", "resending", "resent"} => send.answer = "thread-rejected"

\* What may still leave was granted in the life in which it leaves: the
\* authorization that waits, the hook that rewrites, the secrets held.
Revocable(send, waits, holds) ==
  /\ waits => send.at = "authorized" /\ send.grantedIn = life /\ ~v2Closed
  /\ send.at = "rewriting" => send.grantedIn = send.life
  /\ send.at = "resending" /\ holds => send.grantedIn = life /\ ~v2Closed

Sound(q) ==
  Speaks(sends[q]) /\ Accounts(sends[q]) /\ Revocable(sends[q], q \in authorized, q \in held)

V2Inv == V2Types /\ \A q \in V2Requests : Sound(q)

---------------------------------------------------------------------------
LEMMA NoRetry == NoCred \in Creds /\ NoRecovery \in Retries
BY DEF NoCred, Creds, Someone, NoRecovery, Retries, ForTheRefused

LEMMA Chosen ==
  ASSUME V2Inv
  PROVE  NextRecovery \in Retries /\ (ShiftRecovery => recoveries' \in Seq(Retries))
BY NoRetry DEF V2Inv, V2Types, NextRecovery, ShiftRecovery

\* A step of one request keeps the invariant if it does for that request.
LEMMA OneMoves ==
  ASSUME V2Inv, NEW q \in V2Requests, NEW send \in Sends,
         sends' = [sends EXCEPT ![q] = send],
         UNCHANGED <<custody, stored, life, v2Closed>>,
         authorized' \in {authorized, authorized \cup {q}, authorized \ {q}},
         held' \in {held, held \cup {q}, held \ {q}},
         prepared' \subseteq Retries, recoveries' \in Seq(Retries),
         Speaks(send), Accounts(send), Revocable(send, q \in authorized', q \in held')
  PROVE  V2Inv'
<1>1. Retries' = Retries /\ Sends' = Sends
  BY DEF Retries, ForTheRefused, Sends
<1>2. sends' \in [V2Requests -> Sends] /\ sends'[q] = send
      /\ \A r \in V2Requests \ {q} : sends'[r] = sends[r]
  BY DEF V2Inv, V2Types
<1>3. V2Types'
  BY <1>1, <1>2 DEF V2Inv, V2Types
<1>4. Sound(q)'
  BY <1>2 DEF Sound, Speaks, Accounts, Revocable
<1>5. ASSUME NEW r \in V2Requests \ {q} PROVE Sound(r)'
  BY <1>2, <1>5 DEF V2Inv, Sound, Speaks, Accounts, Revocable
<1> QED
  BY <1>3, <1>4, <1>5 DEF V2Inv

LEMMA OneSound ==
  ASSUME V2Inv, NEW q \in V2Requests
  PROVE  /\ sends[q] \in Sends /\ Speaks(sends[q]) /\ Accounts(sends[q])
         /\ Revocable(sends[q], q \in authorized, q \in held)
         /\ q \in authorized => V2At(q, "authorized")
BY DEF V2Inv, V2Types, Sound, Revocable, V2At

LEMMA NewType == NewV2Send \in Sends
BY NoRetry DEF NewV2Send, Sends, Places, Someone

LEMMA BetweenType ==
  ASSUME NEW at \in Places, NEW tries \in Nat, NEW due \in Int
  PROVE  [NewV2Send EXCEPT !.at = at, !.tries = tries, !.due = due] \in Sends
BY NewType DEF Sends

\* A request that is over, or between two sends, owes no report.
LEMMA Rests ==
  ASSUME V2Inv, NEW next \in Sends, next.at \in {"judged", "chosen", "ended"},
         next.due = 0, next.answer = "none", next.choice = NoRecovery
  PROVE  Speaks(next) /\ Accounts(next)
BY DEF Speaks, Accounts, Waiting, NoRecovery

LEMMA OverRests ==
  ASSUME V2Inv, NEW send \in Sends, send.due = 0
  PROVE  Over(send) \in Sends /\ Over(send).at = "ended" /\ Speaks(Over(send)) /\ Accounts(Over(send))
<1> DEFINE over == Over(send)
<1>1. over = [NewV2Send EXCEPT !.at = "ended", !.tries = 1, !.due = 0]
  BY ZenonT(30) DEF Over, BetweenSends, NewV2Send
<1> HIDE DEF over
<1>2. over \in Sends
  <2>1. "ended" \in Places /\ 1 \in Nat /\ 0 \in Int
    BY DEF Places
  <2> QED
    BY <1>1, <2>1, BetweenType
<1>3. over.at = "ended" /\ over.due = 0 /\ over.answer = "none" /\ over.choice = NoRecovery
  BY <1>1 DEF NewV2Send
<1>4. Speaks(over) /\ Accounts(over)
  BY <1>2, <1>3, Rests
<1> QED
  BY <1>2, <1>3, <1>4 DEF over

---------------------------------------------------------------------------
(* Before a send.                                                          *)

LEMMA ChooseKeeps ==
  ASSUME V2Inv, NEW q \in V2Requests, ChooseAccount(q)
  PROVE  V2Inv'
<1> DEFINE send == [sends[q] EXCEPT !.at = "chosen"]
<1>1. send \in Sends /\ Speaks(send) /\ Accounts(send) /\ Revocable(send, q \in authorized, q \in held)
  BY OneSound DEF ChooseAccount, V2At, Sends, Places, Speaks, Accounts, Revocable, Waiting
<1> QED
  BY <1>1, OneMoves DEF ChooseAccount, Moves, V2Inv, V2Types

LEMMA AuthorizeBeginsKeeps ==
  ASSUME V2Inv, NEW q \in V2Requests, AuthorizeBegins(q)
  PROVE  V2Inv'
<1> DEFINE begun == [Begins(sends[q]) EXCEPT !.at = "authorizing", !.row = stored.who, !.choice = NextRecovery]
           over == Over(sends[q])
<1>1. sends[q] \in Sends /\ sends[q].due = 0 /\ q \notin authorized
  BY OneSound DEF AuthorizeBegins, V2At, Accounts, Waiting
<1>2. begun \in Sends
  BY <1>1, Chosen DEF V2Inv, V2Types, Creds, Begins, Sends, Places
<1>3. begun.at = "authorizing" /\ begun.answer = sends[q].answer /\ begun.due = sends[q].due
      /\ begun.reported = sends[q].reported
  BY <1>1 DEF Begins, Sends
<1>4. Speaks(begun) /\ Accounts(begun)
  <2>1. sends[q].answer = "none"
    BY OneSound DEF AuthorizeBegins, V2At, Accounts, Waiting
  <2> HIDE DEF begun
  <2> QED
    BY <1>1, <1>3, <2>1 DEF Speaks, Accounts
<1>5. over \in Sends /\ over.at = "ended" /\ Speaks(over) /\ Accounts(over)
  BY <1>1, OverRests
<1>6. sends' = [sends EXCEPT ![q] = begun] \/ sends' = [sends EXCEPT ![q] = over]
  BY DEF AuthorizeBegins
<1>7. recoveries' \in Seq(Retries) /\ prepared' \subseteq Retries
  BY Chosen DEF AuthorizeBegins, V2Inv, V2Types
<1> HIDE DEF begun, over
<1>8. UNCHANGED <<custody, stored, life, v2Closed, authorized, held>>
  BY DEF AuthorizeBegins
<1>9. Revocable(begun, q \in authorized', q \in held') /\ Revocable(over, q \in authorized', q \in held')
  BY <1>1, <1>3, <1>5, <1>8 DEF Revocable
<1> QED
  BY <1>2, <1>4, <1>5, <1>6, <1>7, <1>8, <1>9, OneMoves

LEMMA AuthorizeGrantsKeeps ==
  ASSUME V2Inv, NEW q \in V2Requests, AuthorizeGrants(q)
  PROVE  V2Inv'
<1> DEFINE cred == Granted(sends[q].choice)
           relay == dispatch = "relay" /\ ~sends[q].choice.direct
           again == sends[q].choice.cred # NoCred
           send == [sends[q] EXCEPT !.at = "authorized", !.cred = cred, !.grantedIn = life,
                                    !.relay = relay, !.again = again]
<1>1. sends[q] \in Sends /\ cred \in Creds /\ relay \in BOOLEAN /\ again \in BOOLEAN /\ life \in Nat
  BY OneSound DEF V2Inv, V2Types, Granted, Sends, Retries
<1>2. sends' = [sends EXCEPT ![q] = send] /\ authorized' = authorized \cup {q} /\ ~v2Closed
      /\ UNCHANGED <<custody, stored, life, v2Closed, held, prepared, recoveries>>
  BY DEF AuthorizeGrants, Live
<1>3. sends[q].choice.cred # NoCred => cred = sends[q].choice.cred
  BY DEF Granted
<1> HIDE DEF cred, relay, again
<1>4. send \in Sends
  BY <1>1 DEF Sends, Places
<1>5. /\ send.at = "authorized" /\ send.cred = cred /\ send.grantedIn = life /\ send.answer = sends[q].answer
      /\ send.due = sends[q].due /\ send.reported = sends[q].reported /\ send.choice = sends[q].choice
  BY <1>1 DEF Sends
<1> HIDE DEF send
<1>6. Speaks(send) /\ Accounts(send) /\ Revocable(send, q \in authorized', q \in held')
  BY <1>2, <1>3, <1>5, OneSound DEF Speaks, Accounts, Revocable, AuthorizeGrants, V2At, Waiting
<1> QED
  BY <1>2, <1>4, <1>6, OneMoves DEF V2Inv, V2Types

LEMMA RewriteKeeps ==
  ASSUME V2Inv, NEW q \in V2Requests, RewriteTakes(q)
  PROVE  V2Inv'
<1> DEFINE send == [Begins(sends[q]) EXCEPT !.at = "rewriting", !.body = sends[q].cred.who]
<1>1. sends[q] \in Sends /\ sends[q].grantedIn = life /\ sends[q].cred.who \in Someone
  BY OneSound DEF RewriteTakes, Revocable, Sends, Creds
<1>2. send \in Sends
  BY <1>1 DEF V2Inv, V2Types, Begins, Sends, Places
<1>3. /\ send.at = "rewriting" /\ send.answer = sends[q].answer /\ send.due = sends[q].due
      /\ send.reported = sends[q].reported /\ send.cred = sends[q].cred /\ send.body = sends[q].cred.who
      /\ send.choice = sends[q].choice /\ send.life = life /\ send.grantedIn = sends[q].grantedIn
  BY <1>1 DEF Begins, Sends
<1>4. sends' = [sends EXCEPT ![q] = send] /\ authorized' = authorized \ {q}
      /\ UNCHANGED <<custody, stored, life, v2Closed, held, prepared, recoveries>>
  BY DEF RewriteTakes
<1> HIDE DEF send
<1>5. Speaks(send) /\ Accounts(send) /\ Revocable(send, q \in authorized', q \in held')
  BY <1>1, <1>3, <1>4, OneSound DEF RewriteTakes, V2At, Speaks, Accounts, Revocable, Waiting
<1> QED
  BY <1>2, <1>4, <1>5, OneMoves DEF V2Inv, V2Types

LEMMA LeavesKeeps ==
  ASSUME V2Inv, NEW q \in V2Requests, SendLeaves(q)
  PROVE  V2Inv'
<1> DEFINE send == [sends[q] EXCEPT !.at = "sent"]
<1>1. send \in Sends /\ Speaks(send) /\ Accounts(send) /\ Revocable(send, q \in authorized', q \in held')
  BY OneSound DEF SendLeaves, V2At, Sends, Places, Speaks, Accounts, Revocable, Waiting
<1>2. sends' = [sends EXCEPT ![q] = send] /\ held' = held \cup {q}
      /\ UNCHANGED <<custody, stored, life, v2Closed, authorized, prepared, recoveries>>
  BY DEF SendLeaves, Moves
<1> HIDE DEF send
<1> QED
  BY <1>1, <1>2, OneMoves DEF V2Inv, V2Types

LEMMA FailsKeeps ==
  ASSUME V2Inv, NEW q \in V2Requests, SendFails(q)
  PROVE  V2Inv'
<1> DEFINE over == Over(sends[q])
<1>1. sends[q] \in Sends /\ sends[q].due = 0
  BY OneSound DEF SendFails, Accounts
<1>2. over \in Sends /\ over.at = "ended" /\ Speaks(over) /\ Accounts(over)
  BY <1>1, OverRests
<1>3. sends' = [sends EXCEPT ![q] = over] /\ authorized' = authorized \ {q}
      /\ UNCHANGED <<custody, stored, life, v2Closed, held, prepared, recoveries>>
  BY DEF SendFails
<1> HIDE DEF over
<1>4. Revocable(over, q \in authorized', q \in held')
  BY <1>2, <1>3 DEF Revocable
<1> QED
  BY <1>2, <1>3, <1>4, OneMoves DEF V2Inv, V2Types

---------------------------------------------------------------------------
(* The answer, and what the hooks make of it.                              *)

LEMMA AnswerKeeps ==
  ASSUME V2Inv, NEW q \in V2Requests, Answer(q)
  PROVE  V2Inv'
<1>1. PICK answer \in Answers :
        sends' = [sends EXCEPT ![q] =
          [Receives(sends[q], answer) EXCEPT !.at = "answered", !.choice = NoRecovery, !.life = 0]]
  BY OneSound DEF Answer, V2Inv, V2Types
<1> DEFINE send == [Receives(sends[q], answer) EXCEPT !.at = "answered", !.choice = NoRecovery, !.life = 0]
<1>2. sends[q] \in Sends /\ sends[q].due = 0 /\ q \notin authorized
  BY OneSound DEF Answer, V2At, Accounts
<1> DEFINE due == IF answer = "401" /\ custody = "vault" THEN sends[q].due + 1 ELSE sends[q].due
<1>3. Receives(sends[q], answer) \in Sends
  <2>1. due \in Int /\ Receives(sends[q], answer) = [sends[q] EXCEPT !.answer = answer, !.reported = FALSE, !.due = due]
    BY <1>2 DEF Receives, Sends
  <2> HIDE DEF due
  <2> QED
    BY <1>2, <2>1 DEF Sends
<1>4. send \in Sends
  BY <1>3, NoRetry DEF Sends, Places
<1>5. /\ send.at = "answered" /\ send.answer = answer /\ ~send.reported
      /\ send.cred = sends[q].cred /\ send.body = sends[q].body
      /\ send.due = IF answer = "401" /\ custody = "vault" THEN 1 ELSE 0
  BY <1>2, <1>3 DEF Receives, Sends
<1> HIDE DEF send
<1>6. UNCHANGED <<custody, stored, life, v2Closed, authorized, held, prepared, recoveries>>
  BY DEF Answer
<1>7. Speaks(send) /\ Accounts(send) /\ Revocable(send, q \in authorized', q \in held')
  BY <1>2, <1>5, <1>6, OneSound DEF Speaks, Accounts, Revocable, Answer, V2At, Waiting
<1> QED
  BY <1>1, <1>4, <1>6, <1>7, OneMoves DEF V2Inv, V2Types, send

\* A report settles what is due and touches nothing else.
LEMMA Reports ==
  ASSUME V2Inv, NEW q \in V2Requests
  PROVE  LET send == Reported(sends[q]) IN
         /\ send \in Sends
         /\ send.due = 0
         /\ send.cred = sends[q].cred /\ send.body = sends[q].body /\ send.answer = sends[q].answer
         /\ send.at = sends[q].at /\ send.limit = sends[q].limit /\ send.tries = sends[q].tries
         /\ send.answer = "401" /\ custody = "vault" => send.reported = TRUE
<1>1. sends[q] \in Sends /\ Accounts(sends[q])
  BY OneSound
<1>2. CASE sends[q].answer = "401" /\ custody = "vault" /\ ~sends[q].reported
  <2>1. sends[q].due = 1
    BY <1>1, <1>2 DEF Accounts
  <2>2. Reported(sends[q]) = [sends[q] EXCEPT !.due = 0, !.reported = TRUE]
    BY <1>1, <1>2, <2>1 DEF Reported, Sends
  <2> DEFINE none == 0
             yes == TRUE
             send == [sends[q] EXCEPT !.due = none, !.reported = yes]
  <2>0. none = 0 /\ yes = TRUE /\ none \in Int /\ yes \in BOOLEAN
    OBVIOUS
  <2> HIDE DEF none, yes
  <2>3. send \in Sends
    BY <1>1, <2>0 DEF Sends
  <2>4. send.due = none /\ send.reported = yes /\ send.cred = sends[q].cred /\ send.body = sends[q].body
        /\ send.answer = sends[q].answer /\ send.at = sends[q].at /\ send.limit = sends[q].limit
        /\ send.tries = sends[q].tries
    BY <1>1 DEF Sends
  <2> QED
    BY <2>0, <2>2, <2>3, <2>4
<1>3. CASE ~(sends[q].answer = "401" /\ custody = "vault" /\ ~sends[q].reported)
  BY <1>1, <1>3 DEF Reported, Sends, Accounts
<1> QED
  BY <1>2, <1>3

LEMMA ResponseKeeps ==
  ASSUME V2Inv, NEW q \in V2Requests, LimitFromResponse(q)
  PROVE  V2Inv'
<1>1. PICK place \in {"renewing", "classified", "closing"} :
        /\ place = "classified" => sends[q].answer = "thread-rejected"
        /\ sends' = [sends EXCEPT ![q] = [Reported(sends[q]) EXCEPT !.at = place]]
  BY OneSound DEF LimitFromResponse, V2Inv, V2Types
<1> DEFINE send == [Reported(sends[q]) EXCEPT !.at = place]
<1>2. send \in Sends
  BY ZenonT(30), Reports DEF Sends, Places
<1>3. /\ send.at = place /\ send.due = 0 /\ send.answer = sends[q].answer
      /\ send.cred = sends[q].cred /\ send.body = sends[q].body
      /\ send.answer = "401" /\ custody = "vault" => send.reported = TRUE
  BY Reports DEF Sends
<1>4. UNCHANGED <<custody, stored, life, v2Closed, authorized, held, prepared, recoveries>>
      /\ sends' = [sends EXCEPT ![q] = send]
  BY <1>1 DEF LimitFromResponse
<1> HIDE DEF send
<1>5. q \notin authorized /\ sends[q].body = sends[q].cred.who
  BY OneSound DEF LimitFromResponse, V2At, Speaks
<1>6. Speaks(send) /\ Accounts(send) /\ Revocable(send, q \in authorized', q \in held')
  BY <1>1, <1>3, <1>4, <1>5 DEF Speaks, Accounts, Revocable, Waiting
<1> QED
  BY <1>2, <1>4, <1>6, OneMoves DEF V2Inv, V2Types

LEMMA RelayKeeps ==
  ASSUME V2Inv, NEW q \in V2Requests, LimitFromRelay(q)
  PROVE  V2Inv'
<1> DEFINE direct == sends[q].relay /\ sends[q].grantedIn = life /\ ~v2Closed
           send == [sends[q] EXCEPT !.at = "closing", !.limit = direct]
<1>1. Directly(q) \in Retries
  BY OneSound, NoRetry DEF Directly, NoRecovery, Retries, Sends, ForTheRefused, NoCred
<1>2. send \in Sends
  BY ZenonT(30), OneSound DEF Sends, Places
<1>3. Speaks(send) /\ Accounts(send) /\ Revocable(send, q \in authorized, q \in held)
  BY OneSound DEF LimitFromRelay, V2At, Speaks, Accounts, Revocable, Waiting, Sends
<1>4. sends' = [sends EXCEPT ![q] = send]
  BY OneSound DEF LimitFromRelay, V2Inv, V2Types, Sends
<1>5. prepared' \subseteq Retries
  BY <1>1 DEF LimitFromRelay, V2Inv, V2Types
<1> QED
  BY <1>2, <1>3, <1>4, <1>5, OneMoves DEF LimitFromRelay, V2Inv, V2Types

\* The renewed credential is of the account that was refused, for the vault.
LEMMA PrepareKeeps ==
  ASSUME V2Inv, NEW q \in V2Requests, PrepareRetry(q)
  PROVE  V2Inv'
<1> DEFINE renewed == Renewed(sends[q].cred) /\ sends[q].grantedIn = life /\ ~v2Closed
           send == [sends[q] EXCEPT !.at = "closing", !.limit = renewed]
<1>1. Renewed(sends[q].cred) => Renewal(q) \in Retries
  BY OneSound, NoRetry DEF Renewed, Renewal, NoRecovery, Retries, Sends, ForTheRefused, V2Inv, V2Types
<1>2. send \in Sends
  BY ZenonT(30), OneSound DEF Sends, Places, Renewed, StrictlyNewer
<1>3. Speaks(send) /\ Accounts(send) /\ Revocable(send, q \in authorized, q \in held)
  BY OneSound DEF PrepareRetry, V2At, Speaks, Accounts, Revocable, Waiting, Sends
<1>4. sends' = [sends EXCEPT ![q] = send]
  BY OneSound DEF PrepareRetry, V2Inv, V2Types, Sends
<1>5. prepared' \subseteq Retries
  BY <1>1 DEF PrepareRetry, V2Inv, V2Types
<1> QED
  BY <1>2, <1>3, <1>4, <1>5, OneMoves DEF PrepareRetry, V2Inv, V2Types

---------------------------------------------------------------------------
(* The resend of a thread.                                                 *)

LEMMA ReauthorizeKeeps ==
  ASSUME V2Inv, NEW q \in V2Requests, ReauthorizeThread(q)
  PROVE  V2Inv'
<1> DEFINE begun == [Begins(sends[q]) EXCEPT !.at = "reauthorizing", !.row = stored.who, !.choice = NextRecovery]
           closing == [sends[q] EXCEPT !.at = "closing"]
<1>1. sends[q] \in Sends /\ sends[q].at = "classified" /\ q \notin authorized
  BY OneSound DEF ReauthorizeThread, V2At
<1>2. begun \in Sends /\ closing \in Sends
  BY <1>1, Chosen DEF V2Inv, V2Types, Creds, Begins, Sends, Places
<1>3. /\ begun.at = "reauthorizing" /\ begun.answer = sends[q].answer /\ begun.due = sends[q].due
      /\ begun.reported = sends[q].reported /\ begun.body = sends[q].body /\ begun.cred = sends[q].cred
      /\ closing.at = "closing" /\ closing.answer = sends[q].answer /\ closing.due = sends[q].due
      /\ closing.reported = sends[q].reported
  BY <1>1 DEF Begins, Sends
<1>4. sends' = [sends EXCEPT ![q] = begun] \/ sends' = [sends EXCEPT ![q] = closing]
  BY DEF ReauthorizeThread
<1>5. recoveries' \in Seq(Retries) /\ prepared' \subseteq Retries
      /\ UNCHANGED <<custody, stored, life, v2Closed, authorized, held>>
  BY Chosen DEF ReauthorizeThread, V2Inv, V2Types
<1> HIDE DEF begun, closing
<1>6. /\ Speaks(begun) /\ Accounts(begun) /\ Revocable(begun, q \in authorized', q \in held')
      /\ Speaks(closing) /\ Accounts(closing) /\ Revocable(closing, q \in authorized', q \in held')
  BY <1>1, <1>3, <1>5, OneSound DEF Speaks, Accounts, Revocable, Waiting
<1> QED
  BY <1>2, <1>4, <1>5, <1>6, OneMoves

\* The body is for the account of the new credential, or nothing is resent.
LEMMA BeforeResendKeeps ==
  ASSUME V2Inv, NEW q \in V2Requests, BeforeResend(q)
  PROVE  V2Inv'
<1> DEFINE cred == Granted(sends[q].choice)
           again == sends[q].choice.cred # NoCred
           granted == [sends[q] EXCEPT !.at = "resending", !.cred = cred, !.grantedIn = life, !.again = again]
           closing == [sends[q] EXCEPT !.at = "closing"]
<1>1. /\ sends[q] \in Sends /\ sends[q].at = "reauthorizing" /\ q \notin authorized
      /\ cred \in Creds /\ again \in BOOLEAN /\ life \in Nat /\ ~v2Closed
  BY OneSound DEF BeforeResend, V2At, Live, V2Inv, V2Types, Granted, Sends, Retries
<1>2. again => cred = sends[q].choice.cred
  BY DEF Granted
<1>3. \/ sends' = [sends EXCEPT ![q] = granted] /\ cred.who = sends[q].body
      \/ sends' = [sends EXCEPT ![q] = closing]
  BY DEF BeforeResend, ResendFor
<1>4. UNCHANGED <<custody, stored, life, v2Closed, authorized, held, prepared, recoveries>>
  BY DEF BeforeResend
<1> HIDE DEF cred
<1>5. granted \in Sends /\ closing \in Sends
  BY <1>1 DEF Sends, Places
<1>6. /\ granted.at = "resending" /\ granted.answer = sends[q].answer /\ granted.due = sends[q].due
      /\ granted.reported = sends[q].reported /\ granted.body = sends[q].body /\ granted.cred = cred
      /\ granted.choice = sends[q].choice /\ granted.grantedIn = life
      /\ closing.at = "closing" /\ closing.answer = sends[q].answer /\ closing.due = sends[q].due
      /\ closing.reported = sends[q].reported
  BY <1>1 DEF Sends
<1> HIDE DEF granted, closing
<1>7. /\ cred.who = sends[q].body => Speaks(granted)
      /\ Accounts(granted) /\ Revocable(granted, q \in authorized', q \in held')
      /\ Speaks(closing) /\ Accounts(closing) /\ Revocable(closing, q \in authorized', q \in held')
  BY <1>1, <1>2, <1>4, <1>6, OneSound DEF Speaks, Accounts, Revocable, Waiting
<1> QED
  BY <1>3, <1>4, <1>5, <1>7, OneMoves DEF V2Inv, V2Types

LEMMA ResendKeeps ==
  ASSUME V2Inv, NEW q \in V2Requests, ResendThread(q)
  PROVE  V2Inv'
<1> DEFINE send == [sends[q] EXCEPT !.at = "resent"]
<1>1. sends[q] \in Sends /\ sends[q].at = "resending" /\ q \notin authorized
  BY OneSound DEF ResendThread, V2At
<1>2. send \in Sends
  BY <1>1 DEF Sends, Places
<1>3. /\ send.at = "resent" /\ send.answer = sends[q].answer /\ send.due = sends[q].due
      /\ send.reported = sends[q].reported /\ send.body = sends[q].body /\ send.cred = sends[q].cred
      /\ send.choice = sends[q].choice
  BY <1>1 DEF Sends
<1>4. UNCHANGED <<custody, stored, life, v2Closed, authorized, held, prepared, recoveries>>
      /\ sends' = [sends EXCEPT ![q] = send]
  BY DEF ResendThread
<1> HIDE DEF send
<1>5. Speaks(send) /\ Accounts(send) /\ Revocable(send, q \in authorized', q \in held')
  BY <1>1, <1>3, <1>4, OneSound DEF Speaks, Accounts, Revocable, Waiting
<1> QED
  BY <1>2, <1>4, <1>5, OneMoves DEF V2Inv, V2Types

LEMMA ResendAnswerKeeps ==
  ASSUME V2Inv, NEW q \in V2Requests, ResendAnswer(q)
  PROVE  V2Inv'
<1>1. PICK answer \in {"other", "401"} :
        sends' = [sends EXCEPT ![q] =
          [Receives(sends[q], answer) EXCEPT !.at = "closing", !.choice = NoRecovery, !.life = 0]]
  BY OneSound DEF ResendAnswer, V2Inv, V2Types
<1> DEFINE send == [Receives(sends[q], answer) EXCEPT !.at = "closing", !.choice = NoRecovery, !.life = 0]
           due == IF answer = "401" /\ custody = "vault" THEN sends[q].due + 1 ELSE sends[q].due
<1>2. sends[q] \in Sends /\ sends[q].due = 0 /\ q \notin authorized
  BY OneSound DEF ResendAnswer, V2At, Accounts
<1>3. Receives(sends[q], answer) \in Sends
  <2>1. due \in Int /\ Receives(sends[q], answer) = [sends[q] EXCEPT !.answer = answer, !.reported = FALSE, !.due = due]
    BY <1>2 DEF Receives, Sends
  <2> HIDE DEF due
  <2> QED
    BY <1>2, <2>1 DEF Sends, Answers
<1>4. send \in Sends
  BY <1>3, NoRetry DEF Sends, Places
<1>5. /\ send.at = "closing" /\ send.answer = answer /\ ~send.reported
      /\ send.due = IF answer = "401" /\ custody = "vault" THEN 1 ELSE 0
  BY <1>2, <1>3 DEF Receives, Sends
<1>6. UNCHANGED <<custody, stored, life, v2Closed, authorized, held, prepared, recoveries>>
      /\ sends' = [sends EXCEPT ![q] = send]
  BY <1>1 DEF ResendAnswer
<1> HIDE DEF send
<1>7. Speaks(send) /\ Accounts(send) /\ Revocable(send, q \in authorized', q \in held')
  BY <1>2, <1>5, <1>6 DEF Speaks, Accounts, Revocable, Waiting
<1> QED
  BY <1>4, <1>6, <1>7, OneMoves DEF V2Inv, V2Types

LEMMA NoResendKeeps ==
  ASSUME V2Inv, NEW q \in V2Requests, NoResend(q)
  PROVE  V2Inv'
<1> DEFINE send == [sends[q] EXCEPT !.at = "closing"]
<1>1. sends[q] \in Sends /\ q \notin authorized
  BY OneSound DEF NoResend, V2At
<1>2. send \in Sends
  BY <1>1 DEF Sends, Places
<1>3. send.at = "closing" /\ send.answer = sends[q].answer /\ send.due = sends[q].due
      /\ send.reported = sends[q].reported
  BY <1>1 DEF Sends
<1>4. UNCHANGED <<custody, stored, life, v2Closed, authorized, held, prepared, recoveries>>
      /\ sends' = [sends EXCEPT ![q] = send]
  BY DEF NoResend, Moves
<1> HIDE DEF send
<1>5. Speaks(send) /\ Accounts(send) /\ Revocable(send, q \in authorized', q \in held')
  BY <1>1, <1>3, <1>4, OneSound DEF Speaks, Accounts, Revocable, Waiting
<1> QED
  BY <1>2, <1>4, <1>5, OneMoves DEF V2Inv, V2Types

---------------------------------------------------------------------------
(* After a send.                                                           *)

\* What is due is reported before the attempt is over.
LEMMA EndKeeps ==
  ASSUME V2Inv, NEW q \in V2Requests, EndAttempt(q)
  PROVE  V2Inv'
<1> DEFINE done == Reported(sends[q])
           judged == [BetweenSends(done) EXCEPT !.at = "judged"]
           over == Over(done)
<1>1. sends[q] \in Sends /\ q \notin authorized /\ done \in Sends /\ done.due = 0
  BY Reports, OneSound DEF EndAttempt, V2At
<1>2. sends' = [sends EXCEPT ![q] = judged] \/ sends' = [sends EXCEPT ![q] = over]
  BY DEF EndAttempt
<1>3. held' = held \ {q} /\ UNCHANGED <<custody, stored, life, v2Closed, authorized, prepared, recoveries>>
  BY DEF EndAttempt
<1> HIDE DEF done
<1>4. judged = [NewV2Send EXCEPT !.at = "judged", !.tries = done.tries, !.due = 0] /\ done.tries \in Nat
  <2>1. done.tries \in Nat
    BY <1>1 DEF Sends
  <2> QED
    BY ZenonT(30), <1>1, <2>1 DEF BetweenSends, NewV2Send
<1>5. judged \in Sends /\ judged.at = "judged" /\ Speaks(judged) /\ Accounts(judged)
  <2> HIDE DEF judged
  <2>0. "judged" \in Places /\ 0 \in Int
    BY DEF Places
  <2>1. judged \in Sends
    BY <1>4, <2>0, BetweenType
  <2>2. judged.at = "judged" /\ judged.due = 0 /\ judged.answer = "none" /\ judged.choice = NoRecovery
    BY <1>4 DEF NewV2Send
  <2> QED
    BY <2>1, <2>2, Rests
<1> HIDE DEF judged
<1>6. over \in Sends /\ over.at = "ended" /\ Speaks(over) /\ Accounts(over)
  BY <1>1, OverRests
<1> HIDE DEF over
<1>7. Revocable(judged, q \in authorized', q \in held') /\ Revocable(over, q \in authorized', q \in held')
  BY <1>1, <1>3, <1>5, <1>6 DEF Revocable
<1> QED
  BY <1>2, <1>3, <1>5, <1>6, <1>7, OneMoves DEF V2Inv, V2Types

LEMMA RetryBeginsKeeps ==
  ASSUME V2Inv, NEW q \in V2Requests, RetryBegins(q)
  PROVE  V2Inv'
<1> DEFINE mine == {retry \in prepared : retry.by = q}
           choice == CHOOSE retry \in mine : TRUE
           begun == [Begins(sends[q]) EXCEPT !.at = "judging", !.choice = choice]
           over == Over(sends[q])
<1>1. sends[q] \in Sends /\ sends[q].at = "judged" /\ sends[q].due = 0 /\ sends[q].answer = "none"
      /\ q \notin authorized
  BY OneSound DEF RetryBegins, V2At, Accounts
<1>2. mine # {} => choice \in Retries
  BY DEF V2Inv, V2Types
<1>3. \/ mine # {} /\ sends' = [sends EXCEPT ![q] = begun]
      \/ sends' = [sends EXCEPT ![q] = over]
  BY DEF RetryBegins
<1>4. prepared' \subseteq prepared /\ UNCHANGED <<custody, stored, life, v2Closed, authorized, held, recoveries>>
  BY DEF RetryBegins
<1> HIDE DEF choice
<1>5. mine # {} => begun \in Sends
  BY <1>1, <1>2 DEF Begins, Sends, Places, V2Inv, V2Types
<1>6. begun.at = "judging" /\ begun.answer = "none" /\ begun.due = 0
  BY <1>1 DEF Begins, Sends
<1>7. over \in Sends /\ over.at = "ended" /\ Speaks(over) /\ Accounts(over)
  BY <1>1, OverRests
<1> HIDE DEF begun, over, mine
<1>8. /\ Speaks(begun) /\ Accounts(begun) /\ Revocable(begun, q \in authorized', q \in held')
      /\ Revocable(over, q \in authorized', q \in held')
  BY <1>1, <1>4, <1>6, <1>7 DEF Speaks, Accounts, Revocable, Waiting
<1>9. prepared' \subseteq Retries /\ recoveries' \in Seq(Retries)
  BY <1>4 DEF V2Inv, V2Types
<1> QED
  BY <1>3, <1>4, <1>5, <1>7, <1>8, <1>9, OneMoves

LEMMA RetryKeeps ==
  ASSUME V2Inv, NEW q \in V2Requests, RetrySameAccount(q)
  PROVE  V2Inv'
<1> DEFINE next == [BetweenSends(sends[q]) EXCEPT !.at = "chosen", !.tries = sends[q].tries + 1]
<1>1. sends[q] \in Sends /\ sends[q].due = 0 /\ q \notin authorized /\ sends[q].tries + 1 \in Nat
  BY OneSound DEF RetrySameAccount, V2At, Accounts, Waiting, Sends
<1>2. sends' = [sends EXCEPT ![q] = next] /\ UNCHANGED <<custody, stored, life, v2Closed, authorized, held, prepared>>
  BY DEF RetrySameAccount
<1>3. recoveries' \in Seq(Retries)
  BY <1>1 DEF RetrySameAccount, V2Inv, V2Types, Sends
<1>4. next \in Sends /\ next.at = "chosen" /\ Speaks(next) /\ Accounts(next)
  <2>1. next = [NewV2Send EXCEPT !.at = "chosen", !.tries = sends[q].tries + 1, !.due = 0]
    BY ZenonT(30), <1>1 DEF BetweenSends, NewV2Send
  <2> HIDE DEF next
  <2>0. "chosen" \in Places /\ 0 \in Int
    BY DEF Places
  <2>2. next \in Sends
    BY <1>1, <2>0, <2>1, BetweenType
  <2>3. next.at = "chosen" /\ next.due = 0 /\ next.answer = "none" /\ next.choice = NoRecovery
    BY <2>1 DEF NewV2Send
  <2> QED
    BY <2>2, <2>3, Rests
<1> HIDE DEF next
<1>5. Revocable(next, q \in authorized', q \in held')
  BY <1>1, <1>2, <1>4 DEF Revocable
<1> QED
  BY <1>2, <1>3, <1>4, <1>5, OneMoves DEF V2Inv, V2Types

LEMMA DropKeeps ==
  ASSUME V2Inv, NEW q \in V2Requests, DropSameAccountRetry(q)
  PROVE  V2Inv'
<1> DEFINE over == Over(sends[q])
<1>1. sends[q] \in Sends /\ sends[q].due = 0 /\ q \notin authorized
  BY OneSound DEF DropSameAccountRetry, V2At, Accounts, Waiting
<1>2. over \in Sends /\ over.at = "ended" /\ Speaks(over) /\ Accounts(over)
  BY <1>1, OverRests
<1>3. sends' = [sends EXCEPT ![q] = over] /\ UNCHANGED <<custody, stored, life, v2Closed, authorized, held, prepared>>
  BY DEF DropSameAccountRetry
<1>4. recoveries' \in Seq(Retries)
  BY DEF DropSameAccountRetry, RemoveAt, V2Inv, V2Types
<1> HIDE DEF over
<1>5. Revocable(over, q \in authorized', q \in held')
  BY <1>1, <1>2, <1>3 DEF Revocable
<1> QED
  BY <1>2, <1>3, <1>4, <1>5, OneMoves DEF V2Inv, V2Types

---------------------------------------------------------------------------
(* The session and the accounts.                                           *)

\* Forgetting and disposal take back what waits to leave and what is held.
LEMMA ForgetKeeps ==
  ASSUME V2Inv, ForgetSession \/ Dispose
  PROVE  V2Inv'
<1>1. /\ UNCHANGED <<custody, stored, sends>> /\ life' = life + 1 /\ v2Closed' \in BOOLEAN
      /\ authorized' = {} /\ held' = {} /\ prepared' = {} /\ recoveries' = <<>>
  BY DEF ForgetSession, Dispose, V2Inv, V2Types
<1>2. Retries' = Retries /\ Sends' = Sends
  BY <1>1 DEF Retries, ForTheRefused, Sends
<1>3. V2Types'
  BY <1>1, <1>2 DEF V2Inv, V2Types
<1>4. ASSUME NEW r \in V2Requests PROVE Sound(r)'
  BY <1>1, OneSound DEF Sound, Speaks, Accounts, Revocable
<1> QED
  BY <1>3, <1>4 DEF V2Inv

LEMMA ChangesKeeps ==
  ASSUME V2Inv, CredentialChanges
  PROVE  V2Inv'
<1>1. /\ UNCHANGED <<custody, life, v2Closed, sends, authorized, held, prepared, recoveries>>
      /\ stored' \in Creds
  BY DEF CredentialChanges, V2Inv, V2Types, Creds, Someone
<1>2. Retries' = Retries /\ Sends' = Sends
  BY <1>1 DEF Retries, ForTheRefused, Sends
<1>3. V2Types'
  BY <1>1, <1>2 DEF V2Inv, V2Types
<1>4. ASSUME NEW r \in V2Requests PROVE Sound(r)'
  BY <1>1, OneSound DEF Sound, Speaks, Accounts, Revocable
<1> QED
  BY <1>3, <1>4 DEF V2Inv

---------------------------------------------------------------------------
LEMMA V2InvInit == V2Init => V2Inv
<1> SUFFICES ASSUME V2Init PROVE V2Inv
  OBVIOUS
<1>1. stored \in Creds
  BY V2SendsAssumption DEF V2Init, Creds, Someone
<1>2. NewV2Send \in Sends /\ NewV2Send.at = "new" /\ NewV2Send.answer = "none" /\ NewV2Send.due = 0
  BY NewType DEF NewV2Send
<1>3. V2Types
  <2>1. life \in Nat /\ v2Closed \in BOOLEAN /\ authorized \subseteq V2Requests /\ held \subseteq V2Requests
        /\ prepared \subseteq Retries
    BY DEF V2Init
  <2>2. sends \in [V2Requests -> Sends]
    BY <1>2 DEF V2Init
  <2>3. recoveries \in Seq(Retries)
    BY DEF V2Init
  <2> QED
    BY <1>1, <2>1, <2>2, <2>3 DEF V2Types
<1> HIDE DEF NewV2Send
<1>4. ASSUME NEW q \in V2Requests PROVE Sound(q)
  BY <1>2 DEF V2Init, Sound, Speaks, Accounts, Revocable
<1> QED
  BY <1>3, <1>4 DEF V2Inv

LEMMA V2InvStep == V2Inv /\ [V2Next]_v2Vars => V2Inv'
<1> SUFFICES ASSUME V2Inv, [V2Next]_v2Vars PROVE V2Inv'
  OBVIOUS
<1>1. ASSUME NEW q \in V2Requests, V2Step(q) PROVE V2Inv'
  BY <1>1, ChooseKeeps, AuthorizeBeginsKeeps, AuthorizeGrantsKeeps, RewriteKeeps, LeavesKeeps, FailsKeeps,
     AnswerKeeps, ResponseKeeps, RelayKeeps, PrepareKeeps, ReauthorizeKeeps, BeforeResendKeeps, ResendKeeps,
     ResendAnswerKeeps, NoResendKeeps, EndKeeps, RetryBeginsKeeps, RetryKeeps, DropKeeps DEF V2Step
<1>2. CASE UNCHANGED v2Vars
  BY <1>2 DEF v2Vars, V2Inv, V2Types, Sound, Speaks, Accounts, Revocable, Sends, Retries, ForTheRefused
<1> QED
  BY <1>1, <1>2, ForgetKeeps, ChangesKeeps DEF V2Next

THEOREM V2Invariant == V2Spec => []V2Inv
BY V2InvInit, V2InvStep, PTL DEF V2Spec

\* SendsSpeakForOne: whoever signs in behind the slot, and however often a
\* credential rotates, no body goes out under another account's credential.
THEOREM SpeaksForOne == V2Spec => []SendsSpeakForOne
<1>1. V2Inv => SendsSpeakForOne
  BY OneSound DEF V2Inv, V2Types, SendsSpeakForOne, OnTheWire, Speaks, Sends, Retries, ForTheRefused
<1> QED
  BY <1>1, V2Invariant, PTL

\* RejectionsReported: a rejection the vault must hear of is reported once, by
\* the end of its attempt, also when its session is forgotten meanwhile.
THEOREM ReportsOnce == V2Spec => []RejectionsReported
<1>1. V2Inv => RejectionsReported
  BY OneSound DEF RejectionsReported, Accounts, Waiting
<1> QED
  BY <1>1, V2Invariant, PTL

---------------------------------------------------------------------------
(* What leaves.                                                            *)

\* A step of one request leaves the others where they are.
LEMMA OthersStay ==
  ASSUME V2Inv, NEW q \in V2Requests, V2Step(q)
  PROVE  \A r \in V2Requests \ {q} : sends'[r] = sends[r]
<1>0. sends \in [V2Requests -> Sends]
  BY DEF V2Inv, V2Types
<1>1. CASE ChooseAccount(q) \/ SendLeaves(q) \/ ResendThread(q) \/ NoResend(q)
  BY <1>0, <1>1 DEF ChooseAccount, SendLeaves, ResendThread, NoResend, Moves
<1>2. CASE AuthorizeBegins(q)
  BY <1>0, <1>2 DEF AuthorizeBegins
<1>3. CASE AuthorizeGrants(q) \/ RewriteTakes(q) \/ SendFails(q)
  BY <1>0, <1>3 DEF AuthorizeGrants, RewriteTakes, SendFails
<1>4. CASE Answer(q) \/ ResendAnswer(q)
  BY <1>0, <1>4 DEF Answer, ResendAnswer
<1>5. CASE LimitFromResponse(q) \/ LimitFromRelay(q) \/ PrepareRetry(q)
  BY <1>0, <1>5 DEF LimitFromResponse, LimitFromRelay, PrepareRetry
<1>6. CASE ReauthorizeThread(q) \/ BeforeResend(q)
  BY <1>0, <1>6 DEF ReauthorizeThread, BeforeResend
<1>7. CASE EndAttempt(q) \/ RetryBegins(q) \/ RetrySameAccount(q) \/ DropSameAccountRetry(q)
  BY <1>0, <1>7 DEF EndAttempt, RetryBegins, RetrySameAccount, DropSameAccountRetry
<1> QED
  BY <1>1, <1>2, <1>3, <1>4, <1>5, <1>6, <1>7 DEF V2Step

\* A request that is put at another place is off the wire.
LEMMA OffTheWire ==
  ASSUME V2Inv, NEW q \in V2Requests, NEW send, sends' = [sends EXCEPT ![q] = send],
         send.at \notin {"sent", "resent"}
  PROVE  ~OnTheWire(q)'
BY DEF V2Inv, V2Types, OnTheWire

\* Only two steps put a request on the wire.
LEMMA Leaving ==
  ASSUME V2Inv, NEW q \in V2Requests, V2Step(q), OnTheWire(q)'
  PROVE  SendLeaves(q) \/ ResendThread(q)
<1> DEFINE send == sends[q]
<1>0. send \in Sends /\ Reported(send) \in Sends /\ q \in DOMAIN sends
  BY OneSound, Reports DEF V2Inv, V2Types
<1>1. ~ChooseAccount(q) /\ ~NoResend(q)
  <2>1. [send EXCEPT !.at = "chosen"].at = "chosen" /\ [send EXCEPT !.at = "closing"].at = "closing"
    BY <1>0 DEF Sends
  <2> QED
    BY <2>1, OffTheWire DEF ChooseAccount, NoResend, Moves
<1>2. Over(send).at = "ended" /\ Over(Reported(send)).at = "ended"
  BY DEF Over, BetweenSends, NewV2Send
<1>3. \A place \in Places : [Begins(send) EXCEPT !.at = place].at = place
  BY <1>0 DEF Begins, Sends
<1>4. ~AuthorizeBegins(q)
  <2>1. [Begins(send) EXCEPT !.at = "authorizing", !.row = stored.who, !.choice = NextRecovery].at = "authorizing"
    BY <1>0 DEF Begins, Sends
  <2> QED
    BY <1>2, <2>1, OffTheWire DEF AuthorizeBegins
<1>5. ~SendFails(q) /\ ~DropSameAccountRetry(q)
  BY <1>2, OffTheWire DEF SendFails, DropSameAccountRetry
<1>6. ~AuthorizeGrants(q)
  BY ZenonT(30), <1>0, OffTheWire DEF AuthorizeGrants, Sends
<1>7. ~RewriteTakes(q)
  BY <1>0, OffTheWire DEF RewriteTakes, Begins, Sends
<1>8. ~Answer(q)
  BY ZenonT(30), <1>0, OffTheWire DEF Answer, Receives, Sends
<1>9. ~ResendAnswer(q)
  BY ZenonT(30), <1>0, OffTheWire DEF ResendAnswer, Receives, Sends
<1>10. ~LimitFromResponse(q)
  BY <1>0, OffTheWire DEF LimitFromResponse, Sends
<1>11. ~LimitFromRelay(q)
  BY <1>0, OffTheWire DEF LimitFromRelay, Sends
<1>12. ~PrepareRetry(q)
  BY <1>0, OffTheWire DEF PrepareRetry, Sends
<1>13. ~ReauthorizeThread(q)
  BY <1>0, OffTheWire DEF ReauthorizeThread, Begins, Sends
<1>14. ~BeforeResend(q)
  BY ZenonT(30), <1>0, OffTheWire DEF BeforeResend, Sends
<1>15. ~EndAttempt(q)
  BY <1>0, <1>2, OffTheWire DEF EndAttempt, BetweenSends, NewV2Send
<1>16. ~RetryBegins(q)
  BY <1>0, <1>2, OffTheWire DEF RetryBegins, Begins, Sends
<1>17. ~RetrySameAccount(q)
  BY OffTheWire DEF RetrySameAccount, BetweenSends, NewV2Send
<1> QED
  BY <1>1, <1>4, <1>5, <1>6, <1>7, <1>8, <1>9, <1>10, <1>11, <1>12, <1>13, <1>14, <1>15, <1>16, <1>17 DEF V2Step

\* NothingAfterForget: what forgetting a session and disposal revoke never
\* leaves, at the first send or at the resend of a thread.
THEOREM RevokedStays == V2Spec => NothingAfterForget
<1>1. ASSUME V2Inv, [V2Next]_v2Vars, NEW q \in V2Requests, ~OnTheWire(q), OnTheWire(q)'
      PROVE  sends'[q].grantedIn = life /\ ~v2Closed
  <2>1. sends'[q] # sends[q]
    BY <1>1 DEF OnTheWire
  <2>2. V2Step(q)
    <3>1. sends' # sends
      BY <2>1
    <3>2. ~(ForgetSession \/ Dispose \/ CredentialChanges) /\ ~UNCHANGED v2Vars
      BY <3>1 DEF ForgetSession, Dispose, CredentialChanges, v2Vars
    <3>3. PICK r \in V2Requests : V2Step(r)
      BY <1>1, <3>2 DEF V2Next
    <3> QED
      BY <1>1, <2>1, <3>3, OthersStay
  <2>3. SendLeaves(q) \/ ResendThread(q)
    BY <1>1, <2>2, Leaving
  <2>4. sends[q] \in Sends /\ q \in DOMAIN sends /\ Revocable(sends[q], q \in authorized, q \in held)
    BY <1>1, OneSound DEF V2Inv, V2Types
  <2>5. CASE SendLeaves(q)
    BY <2>4, <2>5 DEF SendLeaves, V2At, Live, Moves, Revocable, Sends
  <2>6. CASE ResendThread(q)
    BY <2>4, <2>6 DEF ResendThread, V2At, Held, Revocable, Sends
  <2> QED
    BY <2>3, <2>5, <2>6
<1>2. V2Inv /\ [V2Next]_v2Vars =>
        [\A q \in V2Requests : ~OnTheWire(q) /\ OnTheWire(q)' => sends'[q].grantedIn = life /\ ~v2Closed]_v2Vars
  BY <1>1
<1> QED
  BY <1>2, V2Invariant, PTL DEF V2Spec, NothingAfterForget
=============================================================================
