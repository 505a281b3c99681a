------------------------------ MODULE V2Sends ------------------------------
(***************************************************************************)
(* The sends of the OpenCode 2 adapter: what may leave with which          *)
(* credential, while credentials rotate, logins replace the account behind *)
(* the slot, and the host forgets the session.                             *)
(*                                                                         *)
(* The requests are of one session and one scope: they share the prepared  *)
(* retries and their queue.  The host (external) judges a failed send by   *)
(* the adapter's hooks and asks for a retry on the same account; Prime     *)
(* drives the same hooks itself, three sends at most.                      *)
(*                                                                         *)
(* Policy and quotas are free each time an admission reads them.           *)
(***************************************************************************)
EXTENDS Integers, Sequences, FiniteSets, SequencesExt

CONSTANTS
  V2Requests,   \* requests of one session, made for the same scope
  V2People,     \* accounts of the provider
  V2Custody,    \* of "vault", "local"
  V2Dispatch,   \* of "direct", "relay": what the settings may ask for
  MaxEvents,    \* bound of a run: requests made, and rotations and logins
                \* behind the slot, together
  MaxForgets,   \* bound of a run: times the host forgets the session or disposes
  MaxTries      \* sends of one request: prime.ts makes three

ASSUME V2SendsAssumption ==
  V2People # {} /\ MaxEvents \in Nat /\ MaxForgets \in Nat /\ MaxTries \in Nat

VARIABLES
  custody,      \* who owns the credential of the slot
  dispatch,     \* how the settings send
  stored,       \* the credential behind the slot: whose, and which version
  life,         \* the session's present life: a forgotten one starts anew
  v2Closed,     \* the adapter is disposed and its source closed
  sends,        \* the requests
  authorized,   \* requests whose authorization waits for its one send
  held,         \* requests whose secrets the adapter holds for their errors
  prepared,     \* retries a failed send prepared, by the request
  recoveries    \* retries on the way to their authorization, in order

v2Vars == <<custody, dispatch, stored, life, v2Closed, sends, authorized, held, prepared, recoveries>>

NoCred == [who |-> "nobody", version |-> 0]
NoRecovery == [by |-> "none", row |-> "nobody", direct |-> FALSE, of |-> NoCred, cred |-> NoCred]

NewV2Send ==
  [at |-> "new", life |-> 0, row |-> "nobody", choice |-> NoRecovery, cred |-> NoCred, grantedIn |-> 0,
   body |-> "nobody", relay |-> FALSE, again |-> FALSE, answer |-> "none", limit |-> FALSE, tries |-> 1,
   reported |-> FALSE, due |-> 0]

\* What a request keeps from one send to the next, and when it is over.
BetweenSends(send) ==
  [NewV2Send EXCEPT !.tries = send.tries, !.due = send.due]

V2Init ==
  /\ custody \in V2Custody
  /\ dispatch \in V2Dispatch
  /\ stored = [who |-> CHOOSE who \in V2People : TRUE, version |-> 1]
  /\ life = 0
  /\ v2Closed = FALSE
  /\ sends = [q \in V2Requests |-> NewV2Send]
  /\ authorized = {}
  /\ held = {}
  /\ prepared = {}
  /\ recoveries = <<>>

V2At(q, place) == sends[q].at = place
Moves(q, place) == sends' = [sends EXCEPT ![q].at = place]
Over(send) == [BetweenSends(send) EXCEPT !.at = "ended", !.tries = 1]

\* The session's controller, and the mark on the work in progress, are those
\* of the life in which a hook began; a closed source gives none.
Live(q) == sends[q].life = life /\ ~v2Closed
Begins(send) == [send EXCEPT !.life = life]

Made == {q \in V2Requests : ~V2At(q, "new")}
EventsLeft == Cardinality(Made) + stored.version <= MaxEvents

---------------------------------------------------------------------------
(* Before a send: choosing, authorizing, rewriting.                        *)

\* After a refusal that is not retried on its account no other is chosen.
ChooseAccount(q) ==
  /\ V2At(q, "new")
  /\ EventsLeft
  /\ ~v2Closed
  /\ Moves(q, "chosen")
  /\ UNCHANGED <<custody, dispatch, stored, life, v2Closed, authorized, held, prepared, recoveries>>

ShiftRecovery ==
  recoveries' = IF recoveries = <<>> THEN <<>> ELSE Tail(recoveries)
NextRecovery == IF recoveries = <<>> THEN NoRecovery ELSE Head(recoveries)

\* Whether the retry was prepared for the account that is there now.
SameAccount(row, retry) == retry = NoRecovery \/ row = retry.row

\* The account row is read and the oldest prepared retry of the scope taken.
AuthorizeBegins(q) ==
  /\ V2At(q, "chosen")
  /\ ~v2Closed
  /\ ShiftRecovery
  /\ sends' = [sends EXCEPT ![q] =
       IF SameAccount(stored.who, NextRecovery)
       THEN [Begins(@) EXCEPT !.at = "authorizing", !.row = stored.who, !.choice = NextRecovery]
       ELSE Over(@)]
  /\ UNCHANGED <<custody, dispatch, stored, life, v2Closed, authorized, held, prepared>>

\* The credential a choice brings, or the one the owner of the slot gives.
\* The vault's must be the one the retry was prepared for.
Granted(choice) == IF choice.cred # NoCred THEN choice.cred ELSE stored
VaultGrantHolds(choice) ==
  custody = "vault" /\ choice # NoRecovery /\ choice.cred = NoCred => stored.who = choice.row

\* A choice to go direct does, any other goes as the settings say.  The
\* credential is handed out if the session is still the one that asked.
AuthorizeGrants(q) ==
  /\ V2At(q, "authorizing")
  /\ Live(q)
  /\ VaultGrantHolds(sends[q].choice)
  /\ authorized' = authorized \cup {q}
  /\ sends' = [sends EXCEPT ![q] =
       [@ EXCEPT !.at = "authorized", !.cred = Granted(sends[q].choice), !.grantedIn = life,
                 !.relay = dispatch = "relay" /\ ~sends[q].choice.direct,
                 !.again = sends[q].choice.cred # NoCred]]
  /\ UNCHANGED <<custody, dispatch, stored, life, v2Closed, held, prepared, recoveries>>

\* One authorization serves one send.
RewriteTakes(q) ==
  /\ V2At(q, "authorized")
  /\ q \in authorized
  /\ authorized' = authorized \ {q}
  /\ ~v2Closed
  /\ sends' = [sends EXCEPT ![q] = [Begins(@) EXCEPT !.at = "rewriting", !.body = sends[q].cred.who]]
  /\ UNCHANGED <<custody, dispatch, stored, life, v2Closed, held, prepared, recoveries>>

\* The request leaves, and the adapter holds its secrets.
SendLeaves(q) ==
  /\ V2At(q, "rewriting")
  /\ Live(q)
  /\ held' = held \cup {q}
  /\ Moves(q, "sent")
  /\ UNCHANGED <<custody, dispatch, stored, life, v2Closed, authorized, prepared, recoveries>>

Waiting == {"chosen", "authorizing", "authorized", "rewriting", "judging"}

\* The hook fails: its session was forgotten, an admission refused, or the
\* host gave the request up.
SendFails(q) ==
  /\ sends[q].at \in Waiting
  /\ sends' = [sends EXCEPT ![q] = Over(@)]
  /\ authorized' = authorized \ {q}
  /\ UNCHANGED <<custody, dispatch, stored, life, v2Closed, held, prepared, recoveries>>

---------------------------------------------------------------------------
(* The answer, and what the hooks make of it.                              *)

\* Answers as the hooks tell them apart: a relay that failed by itself gives
\* no answer of the provider.
Answers == {"other", "401", "thread-rejected", "relay-failed"}

Receives(send, answer) ==
  [send EXCEPT !.answer = answer, !.reported = FALSE,
               !.due = IF answer = "401" /\ custody = "vault" THEN @ + 1 ELSE @]

Answer(q) ==
  /\ V2At(q, "sent")
  /\ \E answer \in Answers :
       /\ answer = "relay-failed" => sends[q].relay
       /\ sends' = [sends EXCEPT ![q] =
            [Receives(@, answer) EXCEPT !.at = "answered", !.choice = NoRecovery, !.life = 0]]
  /\ UNCHANGED <<custody, dispatch, stored, life, v2Closed, authorized, held, prepared, recoveries>>

\* A rejected receipt is reported to the vault by the first hook that sees it.
ReportedByEach(send) ==
  IF send.answer = "401" /\ custody = "vault" THEN [send EXCEPT !.due = @ - 1] ELSE send
Reported(send) ==
  IF send.answer = "401" /\ custody = "vault" /\ ~send.reported
  THEN [send EXCEPT !.due = @ - 1, !.reported = TRUE]
  ELSE send

Directly(q) == [NoRecovery EXCEPT !.by = q, !.row = sends[q].row, !.direct = TRUE]

\* A 401 the provider gave, the first for this authorization, is worth one
\* look at the credential.
LimitFromResponse(q) ==
  /\ V2At(q, "answered")
  /\ sends[q].answer # "relay-failed"
  /\ sends' = [sends EXCEPT ![q] =
       [Reported(@) EXCEPT
          !.at = IF sends[q].answer = "401" /\ ~sends[q].again /\ sends[q].grantedIn = life /\ ~v2Closed
                 THEN "renewing" ELSE IF sends[q].answer = "thread-rejected" THEN "classified" ELSE "closing"]]
  /\ UNCHANGED <<custody, dispatch, stored, life, v2Closed, authorized, held, prepared, recoveries>>

\* The request may go direct, with a fresh authorization.
LimitFromRelay(q) ==
  /\ V2At(q, "answered")
  /\ sends[q].answer = "relay-failed"
  /\ LET direct == sends[q].relay /\ sends[q].grantedIn = life /\ ~v2Closed IN
     /\ prepared' = IF direct THEN prepared \cup {Directly(q)} ELSE prepared
     /\ sends' = [sends EXCEPT ![q].at = "closing", ![q].limit = direct]
  /\ UNCHANGED <<custody, dispatch, stored, life, v2Closed, authorized, held, recoveries>>

\* The vault's successor must be of the same account and newer; a local row
\* only has to hold another token than the rejected one.
StrictlyNewer(old, new) == new.version > old.version
Renewed(old) ==
  IF custody = "vault" THEN stored.who = old.who /\ StrictlyNewer(old, stored) ELSE stored # old

Renewal(q) == [NoRecovery EXCEPT !.by = q, !.row = sends[q].row, !.of = sends[q].cred, !.cred = stored]

\* The session must still be the one the send was authorized in.
PrepareRetry(q) ==
  /\ V2At(q, "renewing")
  /\ LET renewed == Renewed(sends[q].cred) /\ sends[q].grantedIn = life /\ ~v2Closed IN
     /\ prepared' = IF renewed
                    THEN prepared \cup {Renewal(q)}
                    ELSE prepared
     /\ sends' = [sends EXCEPT ![q].at = "closing", ![q].limit = renewed]
  /\ UNCHANGED <<custody, dispatch, stored, life, v2Closed, authorized, held, recoveries>>

---------------------------------------------------------------------------
(* A rejected continuation of a thread is sent once more, whole, with a    *)
(* credential authorized anew.                                             *)

\* The body was written for one account: the new credential must be its.
ResendForAnyone(q, cred) == TRUE
ResendFor(q, cred) == cred.who = sends[q].body

\* What the adapter holds for a send says that its session was not forgotten:
\* the mark of the hook that prepared it is no longer kept.
HeldForAll(q) == TRUE
Held(q) == q \in held

ReauthorizeThread(q) ==
  /\ V2At(q, "classified")
  /\ sends[q].answer = "thread-rejected"
  /\ Held(q)
  /\ ~v2Closed
  /\ ShiftRecovery
  /\ sends' = [sends EXCEPT ![q] =
       IF SameAccount(stored.who, NextRecovery)
       THEN [Begins(@) EXCEPT !.at = "reauthorizing", !.row = stored.who, !.choice = NextRecovery]
       ELSE [@ EXCEPT !.at = "closing"]]
  /\ UNCHANGED <<custody, dispatch, stored, life, v2Closed, authorized, held, prepared>>

\* The transport may not change in between either.
BeforeResend(q) ==
  /\ V2At(q, "reauthorizing")
  /\ Live(q)
  /\ LET cred == Granted(sends[q].choice)
         relay == dispatch = "relay" /\ ~sends[q].choice.direct
     IN sends' = [sends EXCEPT ![q] =
          IF Held(q) /\ VaultGrantHolds(sends[q].choice) /\ ResendFor(q, cred) /\ relay = sends[q].relay
          THEN [@ EXCEPT !.at = "resending", !.cred = cred, !.grantedIn = life, !.again = sends[q].choice.cred # NoCred]
          ELSE [@ EXCEPT !.at = "closing"]]
  /\ UNCHANGED <<custody, dispatch, stored, life, v2Closed, authorized, held, prepared, recoveries>>

ResendThread(q) ==
  /\ V2At(q, "resending")
  /\ Held(q)
  /\ sends' = [sends EXCEPT ![q].at = "resent"]
  /\ UNCHANGED <<custody, dispatch, stored, life, v2Closed, authorized, held, prepared, recoveries>>

\* What the host classified before is not classified again: a 401 is left to
\* the end of the attempt.
ResendAnswer(q) ==
  /\ V2At(q, "resent")
  /\ \E answer \in {"other", "401"} :
       sends' = [sends EXCEPT ![q] = [Receives(@, answer) EXCEPT !.at = "closing", !.choice = NoRecovery, !.life = 0]]
  /\ UNCHANGED <<custody, dispatch, stored, life, v2Closed, authorized, held, prepared, recoveries>>

\* The resend was refused on the way: the rejection is the answer.
NoResend(q) ==
  /\ sends[q].at \in {"classified", "reauthorizing", "resending"}
  /\ Moves(q, "closing")
  /\ UNCHANGED <<custody, dispatch, stored, life, v2Closed, authorized, held, prepared, recoveries>>

---------------------------------------------------------------------------
(* After a send.                                                           *)

EndAttempt(q) ==
  /\ V2At(q, "closing")
  /\ held' = held \ {q}
  /\ sends' = [sends EXCEPT ![q] =
       IF sends[q].limit /\ sends[q].tries < MaxTries
       THEN [BetweenSends(Reported(@)) EXCEPT !.at = "judged"]
       ELSE Over(Reported(@))]
  /\ UNCHANGED <<custody, dispatch, stored, life, v2Closed, authorized, prepared, recoveries>>

\* The prepared retry is taken out first, whatever becomes of it.
RetryBegins(q) ==
  /\ V2At(q, "judged")
  /\ LET mine == {retry \in prepared : retry.by = q} IN
     /\ prepared' = prepared \ mine
     /\ sends' = [sends EXCEPT ![q] =
          IF mine # {} /\ ~v2Closed
          THEN [Begins(@) EXCEPT !.at = "judging", !.choice = CHOOSE retry \in mine : TRUE]
          ELSE Over(@)]
  /\ UNCHANGED <<custody, dispatch, stored, life, v2Closed, authorized, held, recoveries>>

RetrySameAccount(q) ==
  /\ V2At(q, "judging")
  /\ Live(q)
  /\ SameAccount(stored.who, sends[q].choice)
  /\ recoveries' = Append(recoveries, sends[q].choice)
  /\ sends' = [sends EXCEPT ![q] = [BetweenSends(@) EXCEPT !.at = "chosen", !.tries = sends[q].tries + 1]]
  /\ UNCHANGED <<custody, dispatch, stored, life, v2Closed, authorized, held, prepared>>

\* The host gives up between the retry and its authorization.
DropSameAccountRetry(q) ==
  /\ V2At(q, "chosen")
  /\ \E n \in DOMAIN recoveries :
       recoveries[n].by = q /\ recoveries' = RemoveAt(recoveries, n)
  /\ sends' = [sends EXCEPT ![q] = Over(@)]
  /\ UNCHANGED <<custody, dispatch, stored, life, v2Closed, authorized, held, prepared>>

---------------------------------------------------------------------------
(* The session and the accounts.                                           *)

ForgetSession ==
  /\ life < MaxForgets
  /\ ~v2Closed
  /\ life' = life + 1
  /\ authorized' = {}
  /\ held' = {}
  /\ prepared' = {}
  /\ recoveries' = <<>>
  /\ UNCHANGED <<custody, dispatch, stored, v2Closed, sends>>

\* Disposal revokes what forgetting does, of every session, for good.
Dispose ==
  /\ life < MaxForgets
  /\ ~v2Closed
  /\ v2Closed' = TRUE
  /\ life' = life + 1
  /\ authorized' = {}
  /\ held' = {}
  /\ prepared' = {}
  /\ recoveries' = <<>>
  /\ UNCHANGED <<custody, dispatch, stored, sends>>

\* Another process refreshes the credential, or a login replaces it.
CredentialChanges ==
  /\ EventsLeft
  /\ \E who \in V2People : stored' = [who |-> who, version |-> stored.version + 1]
  /\ UNCHANGED <<custody, dispatch, life, v2Closed, sends, authorized, held, prepared, recoveries>>

V2Step(q) ==
  \/ ChooseAccount(q) \/ AuthorizeBegins(q) \/ AuthorizeGrants(q)
  \/ RewriteTakes(q) \/ SendLeaves(q) \/ SendFails(q)
  \/ Answer(q) \/ LimitFromResponse(q) \/ LimitFromRelay(q) \/ PrepareRetry(q)
  \/ ReauthorizeThread(q) \/ BeforeResend(q) \/ ResendThread(q) \/ ResendAnswer(q) \/ NoResend(q)
  \/ EndAttempt(q) \/ RetryBegins(q) \/ RetrySameAccount(q) \/ DropSameAccountRetry(q)

V2Over == \A q \in V2Requests : sends[q].at \in {"new", "ended"}

V2Next ==
  \/ \E q \in V2Requests : V2Step(q)
  \/ ~(V2Over /\ Made # {}) /\ (ForgetSession \/ Dispose \/ CredentialChanges)

V2Spec == V2Init /\ [][V2Next]_v2Vars

---------------------------------------------------------------------------
(* What is promised.                                                       *)

OnTheWire(q) == sends[q].at \in {"sent", "resent"}

\* A send leaves, or leaves again, only in the life of the session in which
\* its credential was granted, and never after the adapter was disposed: what
\* forgetSession and dispose revoke stays revoked through every later wait.
NothingAfterForget ==
  [][\A q \in V2Requests :
       ~OnTheWire(q) /\ OnTheWire(q)' => sends'[q].grantedIn = life /\ ~v2Closed]_v2Vars

\* The body of a send names the account whose credential it carries; after a
\* 401 the vault's retry is for the account that was refused, with a newer
\* record of it.
SendsSpeakForOne ==
  \A q \in V2Requests : OnTheWire(q) =>
    /\ sends[q].body = sends[q].cred.who
    /\ custody = "vault" /\ sends[q].choice.cred # NoCred =>
         /\ sends[q].cred.who = sends[q].choice.of.who
         /\ StrictlyNewer(sends[q].choice.of, sends[q].cred)

\* Each rejection of a receipt is reported to the vault once, by the time its
\* attempt has ended, whichever hook saw it.
RejectionsReported ==
  \A q \in V2Requests : sends[q].at \in {"judged", "chosen", "ended"} => sends[q].due = 0
============================================================================
