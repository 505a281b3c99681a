----------------------------- MODULE PiRequests -----------------------------
(***************************************************************************)
(* A request of the Pi extension: the rounds it makes, the one wait for a  *)
(* quota it may make in the middle, and the accounts and the runtime that  *)
(* change under it.                                                        *)
(*                                                                         *)
(* A body is built for a person: it carries the provider account's own     *)
(* identity.  The slots "main" and the fallbacks are routes, and who sits  *)
(* behind a route may change between any two steps: a login replaces the   *)
(* row, the vault's owner signs in anew.  A row may also not say who it    *)
(* is; then the credential says so when it is authorized.                  *)
(*                                                                         *)
(* Quotas are free each time they are read.                                *)
(***************************************************************************)
EXTENDS Naturals, Sequences, FiniteSets, SequencesExt

CONSTANTS
  PiFallbacks,  \* the OAuth fallbacks, in the order of the settings
  PiPeople,     \* accounts of the provider
  PiModes,      \* of "sticky-balanced", "main-first", "fallback-first"
  MaxSwaps      \* bound of a run: changes of who sits behind a route

ASSUME PiRequestsAssumption == MaxSwaps \in Nat /\ PiFallbacks \in Seq(STRING)

VARIABLES
  routingMode,  \* the mode the settings ask for
  behind,       \* who sits behind each route, and whether its row says so
  piRequest,    \* the request under way
  piRuntime,    \* "open", then what close() waits for, then "closed"
  owed,         \* what served attempts still have to write
  swaps

piVars == <<routingMode, behind, piRequest, piRuntime, owed, swaps>>

PiRoutes == {"main"} \cup Range(PiFallbacks)
NoPerson == "nobody"
NoRoutePinned == "none"
NoHold == [route |-> NoRoutePinned, person |-> NoPerson]

NewPiRequest ==
  [at |-> "new", on |-> NoRoutePinned, named |-> NoPerson, with |-> NoPerson, retried |-> FALSE,
   resent |-> FALSE, waited |-> FALSE, stage |-> "first", queue |-> <<>>, hold |-> NoHold, why |-> "none"]

PiInit ==
  /\ routingMode \in PiModes
  /\ behind \in [PiRoutes -> [person : PiPeople, says : BOOLEAN]]
  /\ piRequest = NewPiRequest
  /\ piRuntime = "open"
  /\ owed = {}
  /\ swaps = 0

PiAt(place) == piRequest.at = place
PiGoes(place) == piRequest' = [piRequest EXCEPT !.at = place]
PiDone(answer) == piRequest' = [NewPiRequest EXCEPT !.at = "done", !.why = answer]

\* What a snapshot of the accounts says of a route.
SaidOf(s) == IF behind[s].says THEN behind[s].person ELSE NoPerson

\* Every read of the accounts and every authorization goes through service(),
\* which a closing runtime refuses.
Serving == piRuntime = "open"
PiRefused == ~Serving /\ PiDone("error")

---------------------------------------------------------------------------
(* One send: sendAnthropicRequest.                                         *)

PiSend(s, stage) ==
  piRequest' = [piRequest EXCEPT !.at = "preparing", !.on = s, !.named = NoPerson, !.with = NoPerson,
                                 !.retried = FALSE, !.resent = FALSE, !.stage = stage]

\* A request that waited goes to the account it waited for and to no other.
ExpectedOfAny(person) == TRUE
Expected(person) == piRequest.stage = "resumed" => person = piRequest.hold.person

\* The body is built for the person the snapshot names, or else for the one
\* the credential turns out to be of.
PrepareSend ==
  /\ PiAt("preparing")
  /\ \/ Serving
        /\ LET said == SaidOf(piRequest.on)
           IN  \/ /\ Expected(said) /\ said # NoPerson
                  /\ piRequest' = [piRequest EXCEPT !.at = "built", !.named = said]
               \/ /\ Expected(said) /\ said = NoPerson
                  /\ piRequest' = [piRequest EXCEPT !.at = "built", !.named = behind[piRequest.on].person]
               \/ ~Expected(said) /\ PiDone("error")
     \/ PiRefused
  /\ UNCHANGED <<routingMode, behind, piRuntime, owed, swaps>>

\* Each physical send takes the credential of the moment; it must be of the
\* person the body was built for.
MayCarry(person) == person = piRequest.named

TakeAttempt ==
  /\ PiAt("built")
  /\ LET holder == behind[piRequest.on].person
     IN  IF Serving /\ MayCarry(holder)
         THEN piRequest' = [piRequest EXCEPT !.at = "sent", !.with = holder]
         ELSE PiDone("error")
  /\ UNCHANGED <<routingMode, behind, piRuntime, owed, swaps>>

\* No route is usable after all, or the policy of the moment blocks it.
AuthorizeRefused ==
  /\ PiAt("preparing") \/ PiAt("built")
  /\ PiDone("error")
  /\ UNCHANGED <<routingMode, behind, piRuntime, owed, swaps>>

\* What is served while the runtime closes may miss the drain: only what was
\* served before is counted.
Owes(what) == owed' = IF Serving THEN owed \cup {what} ELSE owed

\* The stream begins: what was sent becomes CacheKeep's, and the use of the
\* account is published behind the answer.
SendAccepted ==
  /\ PiAt("sent") /\ PiDone("served") /\ Owes("use")
  /\ UNCHANGED <<routingMode, behind, piRuntime, swaps>>

IsRefused(why) ==
  piRequest' = [piRequest EXCEPT !.at = "refused", !.why = why, !.named = NoPerson, !.with = NoPerson,
                                 !.retried = FALSE, !.resent = FALSE]

\* A 401 is reported before anything else is tried.
SendRejected ==
  /\ PiAt("sent") /\ PiGoes("rejected") /\ Owes("report")
  /\ UNCHANGED <<routingMode, behind, piRuntime, swaps>>

\* A newer credential of the same person takes the same body, once.
Rotates == Serving /\ ~piRequest.retried /\ behind[piRequest.on].person = piRequest.with

RetryRejected ==
  /\ PiAt("rejected")
  /\ \/ Rotates /\ piRequest' = [piRequest EXCEPT !.at = "sent", !.retried = TRUE]
     \/ IsRefused("rejected")
  /\ UNCHANGED <<routingMode, behind, piRuntime, owed, swaps>>

\* The relay fails, or the thread the body continues is gone at the provider:
\* the request is sent again with an authorization of its own.
Resend ==
  /\ PiAt("sent") /\ ~piRequest.resent
  /\ piRequest' = [piRequest EXCEPT !.at = "built", !.resent = TRUE]
  /\ UNCHANGED <<routingMode, behind, piRuntime, owed, swaps>>

SendLimited(why) ==
  /\ PiAt("sent") /\ IsRefused(why)
  /\ UNCHANGED <<routingMode, behind, piRuntime, owed, swaps>>

---------------------------------------------------------------------------
(* Sticky-balanced routing: executeWithFallback's first half.              *)

Sticky == routingMode = "sticky-balanced"
BeginsSticky == PiAt("new") /\ Sticky /\ Serving

\* The session's pin, while its route may be kept; else a candidate of a pool
\* whose readings are all there.
StickyRoute(s) ==
  /\ BeginsSticky
  /\ PiSend(s, "first")
  /\ UNCHANGED <<routingMode, behind, piRuntime, owed, swaps>>

\* Readings are missing and no route may be kept: the host's connection
\* retry asks again.
StickyWaits ==
  /\ BeginsSticky /\ PiDone("error")
  /\ UNCHANGED <<routingMode, behind, piRuntime, owed, swaps>>

\* There is one wait: what asks for a second one is refused.
Waits(hold) ==
  IF piRequest.waited THEN PiDone("refusal")
  ELSE piRequest' = [NewPiRequest EXCEPT !.at = "waiting", !.waited = TRUE, !.hold = hold]
HoldsFor(s) == Waits([route |-> s, person |-> SaidOf(s)])

\* The route kept is spent and resets while the session's cache is warm.
StickyHoldFirst(s) ==
  /\ BeginsSticky
  /\ HoldsFor(s)
  /\ UNCHANGED <<routingMode, behind, piRuntime, owed, swaps>>

\* A refusal of the plugin's own: with a known reset it is waited for, without
\* an account it waits for.
PiNoRoute ==
  /\ (BeginsSticky \/ PiAt("choosing")) /\ Serving
  /\ Waits(NoHold) \/ PiDone("refusal")
  /\ UNCHANGED <<routingMode, behind, piRuntime, owed, swaps>>

FirstRefusal == PiAt("refused") /\ Sticky /\ piRequest.stage = "first"

\* A limit that resets soon, or one nobody confirmed, keeps the session where
\* it is; the first is waited for here.
StickyRetain ==
  /\ FirstRefusal /\ piRequest.why = "limited"
  /\ HoldsFor(piRequest.on) \/ PiDone("refusal")
  /\ UNCHANGED <<routingMode, behind, piRuntime, owed, swaps>>

\* Any other answer than a limit, a 401 or a 403 is the host's.
StickyAnswer ==
  /\ FirstRefusal /\ piRequest.why = "other"
  /\ PiDone("refusal")
  /\ UNCHANGED <<routingMode, behind, piRuntime, owed, swaps>>

\* A confirmed limit, a 401 or a 403 moves the session, once; without another
\* candidate a limit goes to the API accounts, which may all refuse.
StickyMigrate ==
  /\ FirstRefusal /\ piRequest.why # "other"
  /\ \/ \E s \in PiRoutes \ {piRequest.on} : Serving /\ PiSend(s, "moved")
     \/ /\ piRequest.why = "limited" /\ Serving
        /\ PiDone("served") \/ PiDone("error")
     \/ PiDone("refusal")
  /\ UNCHANGED <<routingMode, behind, piRuntime, owed, swaps>>

\* The second account's answer is the host's, whatever it is.
MovedRefusal ==
  /\ PiAt("refused") /\ piRequest.stage = "moved" /\ PiDone("refusal")
  /\ UNCHANGED <<routingMode, behind, piRuntime, owed, swaps>>

---------------------------------------------------------------------------
(* The ordered modes: executeWithFallback's second half.                   *)

\* The fallbacks go ahead of main in fallback-first, or where main's quota
\* for this model is known to be spent.
OrderedBegins ==
  /\ PiAt("new") /\ ~Sticky /\ Serving
  /\ \/ piRequest' = [piRequest EXCEPT !.at = "choosing", !.stage = "ahead", !.queue = PiFallbacks]
     \/ /\ routingMode = "main-first"
        /\ piRequest' = [piRequest EXCEPT !.at = "choosing", !.stage = "main", !.queue = <<>>]
  /\ UNCHANGED <<routingMode, behind, piRuntime, owed, swaps>>

\* Fallbacks that may not serve are passed over.
TryNext(n) ==
  /\ PiAt("choosing") /\ n \in DOMAIN piRequest.queue
  /\ piRequest' = [piRequest EXCEPT !.at = "preparing", !.on = piRequest.queue[n], !.why = "none",
                                    !.queue = SubSeq(@, n + 1, Len(@))]
  /\ UNCHANGED <<routingMode, behind, piRuntime, owed, swaps>>

\* With the fallbacks exhausted main is asked; where it is not available, or
\* the killswitch blocks it, the fallbacks are asked once more in main-first.
AskMain ==
  /\ PiAt("choosing") /\ piRequest.stage \in {"ahead", "main"} /\ Serving
  /\ \/ PiSend("main", "asked")
     \/ /\ routingMode = "main-first"
        /\ piRequest' = [piRequest EXCEPT !.stage = "instead", !.queue = PiFallbacks]
  /\ UNCHANGED <<routingMode, behind, piRuntime, owed, swaps>>

\* What main refused with a status the settings name goes to the fallbacks, in
\* fallback-first only once main's exhaustion is confirmed.
MainRefused ==
  /\ PiAt("refused") /\ piRequest.stage = "asked"
  /\ \/ PiDone("refusal")
     \/ /\ piRequest.why # "other" /\ Serving
        /\ routingMode = "main-first" \/ piRequest.why = "limited"
        /\ piRequest' = [piRequest EXCEPT !.at = "choosing", !.stage = "after", !.queue = PiFallbacks]
  /\ UNCHANGED <<routingMode, behind, piRuntime, owed, swaps>>

\* Main's own refusal, or an API account's answer, once every fallback refused.
AfterAll ==
  /\ PiAt("choosing") /\ piRequest.stage = "after"
  /\ PiDone("refusal") \/ PiDone("served")
  /\ UNCHANGED <<routingMode, behind, piRuntime, owed, swaps>>

\* A fallback's refusal of such a status goes to the next one.
FallbackRefused ==
  /\ PiAt("refused") /\ piRequest.stage \in {"ahead", "instead", "after"}
  /\ PiDone("refusal") \/ PiGoes("choosing")
  /\ UNCHANGED <<routingMode, behind, piRuntime, owed, swaps>>

---------------------------------------------------------------------------
(* The wait: withPiQuotaWait, and resume().                                *)

\* The timer of the wait fires: the accounts are read again.  A request that
\* waited for an account goes on if the account is still the one.
StillHeld == piRequest.hold.person # NoPerson /\ SaidOf(piRequest.hold.route) = piRequest.hold.person

WaitIsOver ==
  /\ PiAt("waiting")
  /\ LET held == piRequest.hold # NoHold
     IN  IF Serving /\ (held => StillHeld)
         THEN piRequest' = [piRequest EXCEPT !.at = "probing"]
         ELSE PiDone("refusal")
  /\ UNCHANGED <<routingMode, behind, piRuntime, owed, swaps>>

\* Its quota is read anew, which takes a while; spent still, it is refused.
\* Without an account to hold to, the whole request is made again.
Resume ==
  /\ PiAt("probing")
  /\ \/ piRequest.hold # NoHold /\ PiSend(piRequest.hold.route, "resumed")
     \/ piRequest.hold # NoHold /\ PiDone("refusal")
     \/ piRequest.hold = NoHold /\ Serving /\ piRequest' = [NewPiRequest EXCEPT !.waited = TRUE]
     \/ piRequest.hold = NoHold /\ PiRefused
  /\ UNCHANGED <<routingMode, behind, piRuntime, owed, swaps>>

\* What the account it waited for refuses is refused.
ResumedRefusal ==
  /\ PiAt("refused") /\ piRequest.stage = "resumed" /\ PiDone("refusal")
  /\ UNCHANGED <<routingMode, behind, piRuntime, owed, swaps>>

\* The user cancels.
PiAbort ==
  /\ ~PiAt("new") /\ ~PiAt("done") /\ PiDone("error")
  /\ UNCHANGED <<routingMode, behind, piRuntime, owed, swaps>>

---------------------------------------------------------------------------
(* The runtime, and the world.                                             *)

\* Writes behind an answer run on the runtime that served it.
Publish(what) ==
  /\ what \in owed /\ piRuntime # "closed"
  /\ owed' = owed \ {what}
  /\ UNCHANGED <<routingMode, behind, piRequest, piRuntime, swaps>>

\* close(): no new send is served; uses of accounts and routing changes are
\* written, then the reports of refused credentials, then it closes.
CloseRuntime ==
  /\ piRuntime = "open" /\ piRuntime' = "uses"
  /\ UNCHANGED <<routingMode, behind, piRequest, owed, swaps>>

DrainedButReports(what) == what = "report" \/ what \notin owed
Drained(what) == what \notin owed

UsesDrained ==
  /\ piRuntime = "uses" /\ Drained("use") /\ piRuntime' = "reports"
  /\ UNCHANGED <<routingMode, behind, piRequest, owed, swaps>>

ReportsDrained ==
  /\ piRuntime = "reports" /\ Drained("report") /\ piRuntime' = "closed"
  /\ UNCHANGED <<routingMode, behind, piRequest, owed, swaps>>

\* Another person signs in behind a route; or the row learns who it is.
SwapAccount(s) ==
  /\ swaps < MaxSwaps /\ swaps' = swaps + 1
  /\ \E now \in [person : PiPeople, says : BOOLEAN] :
       now # behind[s] /\ behind' = [behind EXCEPT ![s] = now]
  /\ UNCHANGED <<routingMode, piRequest, piRuntime, owed>>

PiRequestsNext ==
  \/ PrepareSend \/ TakeAttempt \/ AuthorizeRefused \/ SendAccepted \/ SendRejected \/ RetryRejected
  \/ Resend \/ \E why \in {"limited", "forbidden", "other"} : SendLimited(why)
  \/ \E s \in PiRoutes : StickyRoute(s) \/ StickyHoldFirst(s) \/ SwapAccount(s)
  \/ StickyWaits \/ PiNoRoute \/ StickyRetain \/ StickyAnswer \/ StickyMigrate \/ MovedRefusal
  \/ OrderedBegins \/ (\E n \in 1 .. Len(PiFallbacks) : TryNext(n)) \/ AskMain \/ MainRefused
  \/ AfterAll \/ FallbackRefused \/ WaitIsOver \/ Resume \/ ResumedRefusal \/ PiAbort
  \/ (\E what \in owed : Publish(what)) \/ CloseRuntime \/ UsesDrained \/ ReportsDrained

PiSpec == PiInit /\ [][PiRequestsNext]_piVars

---------------------------------------------------------------------------
\* A body that names a person is on the wire only with that person's
\* credential, whoever took the route between the snapshot, the body and the
\* send; and a request that waited for an account's reset only with the
\* credential of that very account, on the route it waited on.
SentAsMeant ==
  PiAt("sent") =>
    /\ piRequest.named = piRequest.with
    /\ piRequest.stage = "resumed" =>
         piRequest.with = piRequest.hold.person /\ piRequest.on = piRequest.hold.route

\* What was served while the runtime was open is written before the runtime
\* closes: the use of the account, and the report of a refused credential.
ClosesWithNothingOwed == piRuntime = "closed" => owed = {}
=============================================================================
