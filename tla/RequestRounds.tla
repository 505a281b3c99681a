---------------------------- MODULE RequestRounds ----------------------------
(***************************************************************************)
(* The rounds of a host's request: which accounts it is sent to, in which  *)
(* order, what a refusal does, and what the host is answered.              *)
(*                                                                         *)
(* The requests here are of one session.  In sticky-balanced routing they  *)
(* share the session's pin and its count of limits nobody confirmed; a pin *)
(* a request chose is committed when the request ends, and not if it       *)
(* throws.  In the ordered modes a request goes through main and the       *)
(* fallbacks.                                                              *)
(*                                                                         *)
(* What a request reads of an account's quota is free each time: it grows  *)
(* stale, is polled, and is changed by the responses of other sessions.    *)
(* "spent" is a reading that rules the account out by any policy.  Which   *)
(* of the good accounts is chosen is free too.                             *)
(***************************************************************************)
EXTENDS Naturals, FiniteSets, Functions, TLC

CONSTANTS
  RoundRequests, \* requests of the session
  TurnOf,        \* the turn each belongs to
  Fallbacks,     \* the fallback accounts of each mode, in order
  RoutingModes,  \* of "sticky-balanced", "main-first", "fallback-first"
  Abreast        \* the bound of a run: requests under way at a time

ASSUME RoundsAssumption ==
  /\ TurnOf \in [RoundRequests -> Nat \ {0}]
  /\ RoutingModes \subseteq {"sticky-balanced", "main-first", "fallback-first"}
  /\ Abreast \in Nat \ {0}

VARIABLES
  routing,     \* the mode, and whether the accounts are the vault's
  revoked,     \* accounts whose credential is permanently refused
  pin,         \* the session's account
  retries,     \* the count of limits nobody confirmed: [turn, account, n]
  round,       \* each request
  unconfirmed  \* answers to the host that asked it to wait for such a limit

roundVars == <<routing, revoked, pin, retries, round, unconfirmed>>

Main == "main"
Nowhere == "nowhere"
RoundAccounts == {Main} \cup Range(Fallbacks[routing.mode])
Turns == {TurnOf[r] : r \in RoundRequests}

NoRetries == [turn |-> 0, account |-> Nowhere, n |-> 0]
NewRound == [at |-> "new", on |-> Nowhere, queue |-> {}, then |-> "none",
             answer |-> "none", why |-> "none", choice |-> "keep"]

RoundsInit ==
  /\ routing \in [mode : RoutingModes, vault : BOOLEAN]
  /\ revoked = {}
  /\ pin = Nowhere
  /\ retries = NoRetries
  /\ round = [r \in RoundRequests |-> NewRound]
  /\ unconfirmed = [t \in Turns |-> [a \in RoundAccounts |-> 0]]

RoundAt(r, place) == round[r].at = place
UnderWay == {r \in RoundRequests : ~RoundAt(r, "new") /\ ~RoundAt(r, "done")}
MayBegin(r) == RoundAt(r, "new") /\ Cardinality(UnderWay) < Abreast
Goes(r, place) == round' = [round EXCEPT ![r].at = place]

\* The answer goes to the host, and what the request chose for its session is
\* committed.
Answers(r, q, answer) ==
  /\ round' = [round EXCEPT ![r] = [NewRound EXCEPT !.at = "done", !.answer = answer]]
  /\ pin' = IF q.choice = "keep" THEN pin ELSE q.choice

\* An error, or the host cancels: whatever the request chose is dropped.
Throws(r) ==
  /\ round' = [round EXCEPT ![r] = [NewRound EXCEPT !.at = "done"]]
  /\ UNCHANGED pin

---------------------------------------------------------------------------
(* Sticky-balanced routing.                                                *)

\* Every route with its reading: those that may be chosen, and those that may
\* be kept.  A spent account that resets while the session's cache is alive
\* is kept for it.
Readings == {"good", "spent", "stale", "unknown"}
Seen(gone) == {read @@ [a \in gone |-> "gone"] : read \in [RoundAccounts \ gone -> Readings]}
Candidates(seen) == {a \in RoundAccounts : seen[a] \notin {"spent", "gone"}}
MayKeep(seen) ==
  {kept \in SUBSET {a \in RoundAccounts : seen[a] # "gone"} : Candidates(seen) \subseteq kept}
Views == UNION {{[seen |-> seen, kept |-> kept] : kept \in MayKeep(seen)} : seen \in Seen(revoked)}

\* A candidate with room, or any where nothing is known of one.
Selected(seen, among) ==
  LET room == {a \in among : seen[a] = "good"}
  IN  IF room # {} THEN room
      ELSE IF \A a \in among : seen[a] = "unknown" THEN among ELSE {}

\* The session's pin, as the last request to end left it, while it may be
\* kept; else a candidate; or the one of them the routing service advises.
Resolved(seen, kept, excluded) ==
  IF pin \in kept \ excluded THEN {pin} ELSE Selected(seen, Candidates(seen) \ excluded)
Advised(seen) == {a \in Candidates(seen) : a = pin \/ Selected(seen, {a}) # {}}

Routed(q, a) == [q EXCEPT !.at = "sending", !.on = a, !.choice = IF a = pin THEN "keep" ELSE a]
Unrouted(q) == [q EXCEPT !.choice = IF pin = Nowhere THEN "keep" ELSE Nowhere]

\* A session that moves starts its count afresh.
Recount(a) == IF pin \in {Nowhere, a} THEN retries ELSE NoRetries

Taken(v, excluded) == Resolved(v.seen, v.kept, excluded)
Incomplete(v) == \E a \in RoundAccounts : v.seen[a] \in {"stale", "unknown"}

Begins(r) == MayBegin(r) /\ routing.mode = "sticky-balanced"

ChooseRoute(r) ==
  /\ Begins(r)
  /\ \E a \in UNION {Taken(v, {}) \cup Advised(v.seen) : v \in Views} :
       round' = [round EXCEPT ![r] = Routed(@, a)] /\ retries' = Recount(a)
  /\ UNCHANGED <<routing, revoked, pin, unconfirmed>>

\* The account kept resets soon: the host is asked to wait before anything is
\* sent.
HoldFirst(r) ==
  /\ Begins(r)
  /\ \E v \in Views : pin \in Taken(v, {}) /\ v.seen[pin] = "spent"
  /\ Answers(r, round[r], "open")
  /\ UNCHANGED <<routing, revoked, retries, unconfirmed>>

\* Without a route the request is made again while readings are missing, and
\* refused once they are all there.
NoRoute(r) ==
  /\ Begins(r)
  /\ \/ (\E v \in Views : Taken(v, {}) = {} /\ Incomplete(v)) /\ Throws(r)
     \/ (\E v \in Views : Taken(v, {}) = {} /\ ~Incomplete(v)) /\ Answers(r, Unrouted(round[r]), "open")
  /\ UNCHANGED <<routing, revoked, retries, unconfirmed>>

\* What an account answers.  A 401 is what is left once the credential was
\* replaced and sent again.
Refusals == {"confirmed", "limited", "forbidden", "rejected"}

SendServed(r) ==
  /\ RoundAt(r, "sending") /\ Answers(r, round[r], "open")
  /\ UNCHANGED <<routing, revoked, retries, unconfirmed>>

\* The second account's answer is the host's, whatever it is.
SendRefused(r, why) ==
  /\ RoundAt(r, "sending")
  /\ LET q == [round[r] EXCEPT !.at = "deciding", !.why = why, !.answer = "open"]
     IN  IF round[r].answer = "none" THEN round' = [round EXCEPT ![r] = q] /\ UNCHANGED pin
         ELSE Answers(r, q, "open")
  /\ UNCHANGED <<routing, revoked, retries, unconfirmed>>

\* A 403 moves the session, and a 401 once the runtime knows the credential
\* to be gone for good; a refresh that may still succeed does not.
LeaveRefused(r) ==
  /\ RoundAt(r, "deciding") /\ round[r].why \in {"forbidden", "rejected"}
  /\ \/ round[r].why = "forbidden" /\ Goes(r, "moving") /\ UNCHANGED <<pin, revoked>>
     \/ /\ round[r].why = "rejected" /\ revoked' = revoked \cup {round[r].on}
        /\ Goes(r, "moving") /\ UNCHANGED pin
     \/ round[r].why = "rejected" /\ Throws(r) /\ UNCHANGED revoked
  /\ UNCHANGED <<routing, retries, unconfirmed>>

\* A limit the response names, or one the usage endpoint confirms when asked:
\* the session moves, or waits if the reset is near.
LeaveSpent(r) ==
  /\ RoundAt(r, "deciding") /\ round[r].why \in {"confirmed", "limited"}
  /\ \/ /\ round' = [round EXCEPT ![r].at = "moving", ![r].why = "confirmed"]
        /\ UNCHANGED pin
     \/ Answers(r, round[r], "open")
  /\ UNCHANGED <<routing, revoked, retries, unconfirmed>>

\* Mutant: the count does not start afresh with a turn.
CountSession(turn, a) ==
  IF retries.account = a THEN [retries EXCEPT !.turn = turn] ELSE [turn |-> turn, account |-> a, n |-> 0]

\* Only the latest turn and account of the session are counted.
Count(turn, a) ==
  IF retries.turn = turn /\ retries.account = a THEN retries ELSE [turn |-> turn, account |-> a, n |-> 0]

MaxUnconfirmed == 2

\* A limit nobody confirmed: the session keeps its account twice a turn.
RetainOrLeave(r) ==
  /\ RoundAt(r, "deciding") /\ round[r].why = "limited"
  /\ LET a == round[r].on  turn == TurnOf[r]  count == Count(turn, a)
     IN  IF count.n < MaxUnconfirmed
         THEN /\ retries' = [count EXCEPT !.n = @ + 1]
              /\ unconfirmed' = [unconfirmed EXCEPT ![turn][a] = @ + 1]
              /\ Answers(r, round[r], "open")
         ELSE retries' = count /\ Goes(r, "moving") /\ UNCHANGED <<pin, unconfirmed>>
  /\ UNCHANGED <<routing, revoked>>

\* The routes are read again.  With another candidate the refusal is given up
\* before one is resolved, and the pin another request left may be that one.
\* Without, an API key serves if main is spent, or the refusal is the answer.
MoveOn(r) ==
  LET q == round[r]
      alone == {v \in Views : Candidates(v.seen) \subseteq {q.on}}
  IN  /\ RoundAt(r, "moving")
      /\ \/ /\ \E v \in Views \ alone : Taken(v, {q.on}) = {}
            /\ Answers(r, Unrouted(q), "cancelled") /\ UNCHANGED retries
         \/ \E a \in UNION {Taken(v, {q.on}) : v \in Views \ alone} :
              /\ round' = [round EXCEPT ![r] = [Routed(q, a) EXCEPT !.answer = "cancelled"]]
              /\ retries' = NoRetries /\ UNCHANGED pin
         \/ /\ alone # {} /\ Answers(r, q, "open")
            /\ retries' \in {retries} \cup IF q.why \in {"confirmed", "limited"} THEN {NoRetries} ELSE {}
      /\ UNCHANGED <<routing, revoked, unconfirmed>>

\* The host reports the session idle; or a request cannot be made: the
\* account's policy refused it, the network failed, the host cancelled it.
SessionIdle ==
  /\ UnderWay = {} /\ retries # NoRetries /\ retries' = NoRetries
  /\ UNCHANGED <<routing, revoked, pin, round, unconfirmed>>

Fail(r) ==
  /\ r \in UnderWay /\ Throws(r)
  /\ UNCHANGED <<routing, revoked, retries, unconfirmed>>

---------------------------------------------------------------------------
(* The ordered modes.                                                      *)

\* The fallbacks with room, for the part of the request named by then.
Selects(q, then) ==
  {[q EXCEPT !.at = "trying", !.queue = usable, !.then = then] :
     usable \in SUBSET (RoundAccounts \ ({Main} \cup revoked))}

\* Fallbacks first; or past a main that is spent, which the killswitch may
\* forbid altogether; or main.
Order(r) ==
  /\ MayBegin(r) /\ routing.mode # "sticky-balanced"
  /\ \E q \in IF routing.mode = "fallback-first" THEN Selects(round[r], "main")
              ELSE Selects(round[r], "perhaps main") \cup {[round[r] EXCEPT !.at = "asking"]} :
       round' = [round EXCEPT ![r] = q]
  /\ UNCHANGED <<routing, revoked, pin, retries, unconfirmed>>

\* The killswitch has the last word on main.
SkipMain(r) ==
  /\ RoundAt(r, "asking")
  /\ \E q \in Selects(round[r], "never main") : round' = [round EXCEPT ![r] = q]
  /\ UNCHANGED <<routing, revoked, pin, retries, unconfirmed>>

AskMain(r) ==
  /\ RoundAt(r, "asking")
  /\ \/ Answers(r, round[r], "open")
     \/ /\ \E q \in Selects(round[r], "nothing") : round' = [round EXCEPT ![r] = [q EXCEPT !.answer = "open"]]
        /\ UNCHANGED pin
  /\ UNCHANGED <<routing, revoked, retries, unconfirmed>>

\* The fallbacks after the next, which is the first of the mode's order.
After(queue) ==
  LET order == Fallbacks[routing.mode]
      next == CHOOSE i \in DOMAIN order : order[i] \in queue /\ \A j \in 1 .. i - 1 : order[j] \notin queue
  IN  queue \ {order[next]}

\* Mutant: the last refusal is given up like those before it.
KeptForNone(q) == IF q.queue # {} \/ q.then = "main" THEN "cancelled" ELSE "open"

\* A refusal is given up when there is an account after the one that sent it.
Kept(q) == IF After(q.queue) # {} \/ q.then = "main" THEN "cancelled" ELSE "open"

TryFallback(r) ==
  /\ RoundAt(r, "trying") /\ round[r].queue # {}
  /\ \/ Answers(r, round[r], "open")
     \/ /\ round' = [round EXCEPT ![r].queue = After(@), ![r].answer = Kept(round[r])]
        /\ UNCHANGED pin
  /\ UNCHANGED <<routing, revoked, retries, unconfirmed>>

\* Policy refuses an account that was spent since it was selected: the vault's
\* is passed over, a local one's refusal is thrown.
PassOver(r) ==
  /\ RoundAt(r, "trying") /\ round[r].queue # {} /\ routing.vault
  /\ round' = [round EXCEPT ![r].queue = After(@)]
  /\ UNCHANGED <<routing, revoked, pin, retries, unconfirmed>>

\* What is thrown ahead of main leaves main to be asked.
ThrownAhead(r) ==
  /\ RoundAt(r, "trying") /\ round[r].queue # {} /\ round[r].then \in {"main", "perhaps main"}
  /\ round' = [round EXCEPT ![r].at = "asking", ![r].answer = "none"]
  /\ UNCHANGED <<routing, revoked, pin, retries, unconfirmed>>

NoFallbackLeft(r) ==
  /\ RoundAt(r, "trying") /\ round[r].queue = {}
  /\ LET q == round[r]
     IN  IF q.then = "main" \/ (q.then = "perhaps main" /\ q.answer = "none")
         THEN round' = [round EXCEPT ![r].at = "asking", ![r].answer = "none"] /\ UNCHANGED pin
         ELSE Answers(r, q, IF q.answer = "none" THEN "open" ELSE q.answer)
  /\ UNCHANGED <<routing, revoked, retries, unconfirmed>>

---------------------------------------------------------------------------

RoundsNext ==
  \/ SessionIdle
  \/ \E r \in RoundRequests :
       \/ ChooseRoute(r) \/ HoldFirst(r) \/ NoRoute(r) \/ SendServed(r) \/ \E why \in Refusals : SendRefused(r, why)
       \/ LeaveRefused(r) \/ LeaveSpent(r) \/ RetainOrLeave(r) \/ MoveOn(r) \/ Fail(r)
       \/ Order(r) \/ SkipMain(r) \/ AskMain(r) \/ TryFallback(r) \/ PassOver(r) \/ ThrownAhead(r)
       \/ NoFallbackLeft(r)

RoundsSpec == RoundsInit /\ [][RoundsNext]_roundVars

---------------------------------------------------------------------------
(* Properties.                                                             *)

\* A request leaves its account for a limit nobody confirmed only after the
\* host was asked, in that turn, to wait for that account twice: neither
\* another turn's waits, nor another account's, nor those of requests beside
\* it make a session move early and lose its prompt cache.
MovesAreEarned ==
  \A r \in RoundRequests :
    RoundAt(r, "moving") /\ round[r].why = "limited" => unconfirmed[TurnOf[r]][round[r].on] >= MaxUnconfirmed

\* Where accounts are local and tried in order, the refusal a host is answered
\* with can still be read: it is not one that was given up for an account that
\* then was not asked, nor one a later account replaced.
AnswerIsReadable ==
  routing.mode # "sticky-balanced" /\ ~routing.vault =>
    \A r \in RoundRequests : round[r].answer # "cancelled" \/ ~RoundAt(r, "done")
=============================================================================
