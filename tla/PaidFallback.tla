---------------------------- MODULE PaidFallback ----------------------------
(***************************************************************************)
(* The main account's quota, and the requests that may be sent with an API *)
(* key because it is spent.                                                *)
(*                                                                         *)
(* The account main stands for is replaced by another process, with a new  *)
(* credential epoch each time.  What this process knows of main's quota is *)
(* tagged with the account a request found, while a poll reads whatever    *)
(* account main stands for when it is sent, and response headers come      *)
(* later than both.                                                        *)
(*                                                                         *)
(* Local accounts only.  Whether an account is spent does not change, and  *)
(* a reading stays fresh.  A backed-off usage endpoint is a poll that      *)
(* fails.                                                                  *)
(***************************************************************************)
EXTENDS Naturals, Sequences

CONSTANTS
  MainAccounts,   \* the accounts main stands for, one after another
  SpentAccounts,  \* those that have no quota left
  PaidRequests    \* the requests of this process

ASSUME PaidAssumption ==
  /\ MainAccounts \in Seq(Nat \ {0}) /\ MainAccounts # <<>>
  /\ SpentAccounts \subseteq Nat \ {0}

VARIABLES
  mainEpoch,     \* the credential epoch of main, which names its account
  storedUsage,   \* whose usage main's row keeps, 0 for none
  quotaManager,  \* the process's view of main's quota, and who its requests were
  observed,      \* the response headers that routing may use before they are stored
  usagePoll,     \* for each request, the poll of the usage endpoint it started
  paidRequest    \* each request

paidVars == <<mainEpoch, storedUsage, quotaManager, observed, usagePoll, paidRequest>>

NoReading == [of |-> 0, tag |-> 0]
NoPoll == [at |-> "none", tag |-> 0, generation |-> 0, lineage |-> 0, of |-> 0]
MainAccount == MainAccounts[mainEpoch]
AccountOf(epoch) == MainAccounts[epoch]
NeverServed == Len(MainAccounts) + 1

PaidInit ==
  /\ mainEpoch = 1
  /\ storedUsage \in {0, MainAccount}
  /\ quotaManager = [reading |-> NoReading, account |-> 0, generation |-> 0, epoch |-> 0,
                     key |-> MainAccount, provider |-> 0, token |-> NeverServed, resolutions |-> 0]
  /\ observed = 0
  /\ usagePoll = [r \in PaidRequests |-> NoPoll]
  /\ paidRequest = [r \in PaidRequests |->
       [at |-> "new", access |-> FALSE, deferred |-> FALSE, account |-> 0, lineage |-> 0, generation |-> 0,
        resolution |-> 0, loaded |-> 0, on |-> r, answered |-> FALSE, feed |-> 0, for |-> 0]]

RequestAt(r, place) == paidRequest[r].at = place
GoesTo(r, place) == paidRequest' = [paidRequest EXCEPT ![r].at = place]

---------------------------------------------------------------------------
(* Who main is.                                                            *)

\* A login or a replacement drops the row's usage; a refresh keeps the epoch.
ReplaceMain ==
  /\ mainEpoch < Len(MainAccounts)
  /\ mainEpoch' = mainEpoch + 1
  /\ storedUsage' = 0
  /\ UNCHANGED <<quotaManager, observed, usagePoll, paidRequest>>

\* Binding the manager to an account starts a generation and drops what is
\* another account's.
SetIdentity(m, account, force) ==
  IF force \/ m.account # account
  THEN [m EXCEPT !.account = account, !.generation = @ + 1,
                 !.reading = IF force \/ @.tag # account THEN NoReading ELSE @]
  ELSE m

ClearMain(m) == [m EXCEPT !.reading = NoReading, !.account = 0]

\* A newer credential epoch drops what is known of main, of whichever account.
OnSnapshot(m, epoch) ==
  IF m.epoch < epoch
  THEN [SetIdentity(ClearMain(m), AccountOf(epoch), FALSE) EXCEPT !.epoch = epoch]
  ELSE m

\* The account and the credential of the last request stay bound; another
\* account than the last one served starts afresh in any case.
Reconciled(m, token, account) ==
  IF m.token = token /\ m.key = account THEN m
  ELSE [SetIdentity(m, account, m.provider # 0 /\ m.provider # account) EXCEPT !.token = token, !.key = account]

\* What was stored may be newer or older than what is known of the account
\* of the last request; of another account it is taken as it is.
Seeded(m, loaded) ==
  IF loaded = 0 THEN {m}
  ELSE {[m EXCEPT !.reading = [of |-> loaded, tag |-> loaded], !.account = m.key]}
       \cup {x \in {m} : x.reading # NoReading /\ x.account = x.key}

---------------------------------------------------------------------------
(* A request finds out who main is.                                        *)

\* Ordered routing may put off the credential of main.
ReadSnapshot(r) ==
  /\ RequestAt(r, "new")
  /\ quotaManager' = OnSnapshot(quotaManager, mainEpoch)
  /\ \E defer \in {TRUE, FALSE} :
       /\ defer => ~paidRequest[r].deferred
       /\ paidRequest' = [paidRequest EXCEPT ![r].at = IF defer THEN "loading" ELSE "authorizing",
                            ![r].lineage = mainEpoch, ![r].access = FALSE, ![r].deferred = defer]
  /\ UNCHANGED <<mainEpoch, storedUsage, observed, usagePoll>>

\* The credential is that of the account main stands for by now.  Without
\* one the request still knows the account.
AuthorizeMain(r) ==
  /\ RequestAt(r, "authorizing")
  /\ \E served \in {TRUE, FALSE} :
       paidRequest' = [paidRequest EXCEPT ![r].at = "loading", ![r].access = served,
                         ![r].lineage = IF served THEN mainEpoch ELSE @]
  /\ UNCHANGED <<mainEpoch, storedUsage, quotaManager, observed, usagePoll>>

LoadAccounts(r) ==
  /\ RequestAt(r, "loading")
  /\ paidRequest' = [paidRequest EXCEPT ![r].at = "resolving", ![r].loaded = storedUsage,
                       ![r].resolution = IF paidRequest[r].access THEN quotaManager.resolutions + 1 ELSE @]
  /\ quotaManager' = [quotaManager EXCEPT !.resolutions = IF paidRequest[r].access THEN @ + 1 ELSE @]
  /\ UNCHANGED <<mainEpoch, storedUsage, observed, usagePoll>>

\* A credential of another account than main's, or one a later request has
\* overtaken, fails the request.
Identified(r) ==
  LET q == paidRequest[r] account == AccountOf(q.lineage) m == quotaManager
  IN  IF ~q.access THEN {Reconciled(m, 0, account)}
      ELSE IF account # MainAccount THEN {}
      ELSE IF q.resolution = m.resolutions THEN {[Reconciled(m, q.lineage, account) EXCEPT !.provider = account]}
      ELSE {[x EXCEPT !.provider = account] : x \in {y \in {m} : y.token = q.lineage /\ y.key = account}}

ResolveIdentity(r) ==
  /\ RequestAt(r, "resolving")
  /\ \/ \E m \in Identified(r) :
          /\ quotaManager' \in Seeded(m, paidRequest[r].loaded)
          /\ paidRequest' = [paidRequest EXCEPT ![r].at = "routing", ![r].generation = m.generation,
                               ![r].account = AccountOf(paidRequest[r].lineage)]
     \/ Identified(r) = {} /\ GoesTo(r, "over") /\ UNCHANGED quotaManager
  /\ UNCHANGED <<mainEpoch, storedUsage, observed, usagePoll>>

---------------------------------------------------------------------------
(* What a request knows of main's quota.                                   *)

\* The manager shows its reading to the account it is bound to and tagged for.
GetMain(account) ==
  IF quotaManager.account = account /\ quotaManager.reading.tag = account
  THEN quotaManager.reading.of ELSE 0

\* Headers of the same credential epoch come before it.
RoutingUsage(q) == IF q.lineage # 0 /\ observed = q.lineage THEN AccountOf(observed) ELSE GetMain(q.account)
MainIsSpent(q) == RoutingUsage(q) \in SpentAccounts

---------------------------------------------------------------------------
(* Polling the usage endpoint.                                             *)

Polling(q) == usagePoll[q].at \notin {"none", "done"}
InGate(q) == usagePoll[q].at \in {"authorized", "answered"}

\* A poll is for the account the manager is bound to.  One that is under way
\* for the same account and credential is shared.
AskUsage(r) ==
  /\ RequestAt(r, "routing") /\ paidRequest[r].access
  /\ RoutingUsage(paidRequest[r]) = 0 \/ MainIsSpent(paidRequest[r]) \/ paidRequest[r].answered
  /\ LET q == paidRequest[r]
         shared == {p \in PaidRequests : Polling(p) /\ usagePoll[p].tag = q.account
                                                    /\ paidRequest[p].lineage = q.lineage}
     IN  IF quotaManager.generation # q.generation \/ quotaManager.account # q.account
         THEN GoesTo(r, IF q.answered THEN "over" ELSE "sending") /\ UNCHANGED usagePoll
         ELSE IF shared # {}
         THEN /\ \E p \in shared : paidRequest' = [paidRequest EXCEPT ![r].at = "waiting", ![r].on = p]
              /\ UNCHANGED usagePoll
         ELSE /\ paidRequest' = [paidRequest EXCEPT ![r].at = "waiting", ![r].on = r]
              /\ usagePoll' = [usagePoll EXCEPT ![r] =
                   [NoPoll EXCEPT !.at = "queued", !.tag = q.account, !.generation = quotaManager.generation]]
  /\ UNCHANGED <<mainEpoch, storedUsage, quotaManager, observed>>

PollEnds(r) == usagePoll' = [usagePoll EXCEPT ![r].at = "done"]

\* Polls take turns.  A generation that is over sends nothing; otherwise the
\* poll takes the credential of whatever account main stands for now.
AuthorizePoll(r) ==
  /\ usagePoll[r].at = "queued" /\ \A p \in PaidRequests : ~InGate(p)
  /\ IF quotaManager.generation # usagePoll[r].generation THEN PollEnds(r)
     ELSE usagePoll' = [usagePoll EXCEPT ![r].at = "authorized", ![r].lineage = mainEpoch]
  /\ UNCHANGED <<mainEpoch, storedUsage, quotaManager, observed, paidRequest>>

\* Just before it is sent the credential and the generation are checked again.
DispatchPoll(r) ==
  /\ usagePoll[r].at = "authorized"
  /\ IF mainEpoch # usagePoll[r].lineage \/ quotaManager.generation # usagePoll[r].generation THEN PollEnds(r)
     ELSE usagePoll' = [usagePoll EXCEPT ![r].at = "answered", ![r].of = MainAccount]
  /\ UNCHANGED <<mainEpoch, storedUsage, quotaManager, observed, paidRequest>>

\* The row takes the usage of its own epoch, and routing may use it at once;
\* the manager takes the usage of its generation, as the usage of the account
\* that was asked for.
OfItsGeneration(r) == quotaManager.generation = usagePoll[r].generation

CompletePoll(r) ==
  /\ usagePoll[r].at = "answered"
  /\ LET poll == usagePoll[r]
     IN  /\ storedUsage' = IF poll.lineage = mainEpoch THEN poll.of ELSE storedUsage
         /\ observed' = IF poll.lineage = mainEpoch THEN poll.lineage ELSE 0
         /\ quotaManager' = IF OfItsGeneration(r)
              THEN [quotaManager EXCEPT !.reading = [of |-> poll.of, tag |-> poll.tag], !.account = poll.tag]
              ELSE quotaManager
  /\ PollEnds(r)
  /\ UNCHANGED <<mainEpoch, paidRequest>>

PollFails(r) == Polling(r) /\ PollEnds(r) /\ UNCHANGED <<mainEpoch, storedUsage, quotaManager, observed, paidRequest>>

\* What the poll brought decides; a failed one leaves the request to main.
AfterPoll(r) ==
  /\ RequestAt(r, "waiting") /\ ~Polling(paidRequest[r].on)
  /\ GoesTo(r, IF MainIsSpent(paidRequest[r]) THEN "paying" ELSE IF paidRequest[r].answered THEN "over" ELSE "sending")
  /\ UNCHANGED <<mainEpoch, storedUsage, quotaManager, observed, usagePoll>>

---------------------------------------------------------------------------
(* Sending to main, and the quota its responses carry.                     *)

\* A request that put the credential off takes it now.
GoToMain(r) ==
  /\ RequestAt(r, "routing") /\ ~paidRequest[r].answered /\ ~MainIsSpent(paidRequest[r])
  /\ GoesTo(r, IF paidRequest[r].access THEN "sending" ELSE IF paidRequest[r].deferred THEN "new" ELSE "over")
  /\ UNCHANGED <<mainEpoch, storedUsage, quotaManager, observed, usagePoll>>

\* Every attempt takes the credential of the moment, of the same account.
\* Headers of a generation that is over are dropped; a 429 asks for the usage.
SendToMain(r) ==
  /\ RequestAt(r, "sending")
  /\ IF MainAccount # paidRequest[r].account
     THEN GoesTo(r, "over") /\ UNCHANGED observed
     ELSE \E headers \in {TRUE, FALSE}, limited \in {TRUE, FALSE} :
            LET harvested == headers /\ quotaManager.generation = paidRequest[r].generation
            IN  /\ observed' = IF harvested THEN mainEpoch ELSE observed
                /\ paidRequest' = [paidRequest EXCEPT ![r].at = IF limited THEN "routing" ELSE "over",
                     ![r].answered = TRUE, ![r].feed = IF harvested THEN mainEpoch ELSE 0]
  /\ UNCHANGED <<mainEpoch, storedUsage, quotaManager, usagePoll>>

\* The row decides whether headers are accepted, the generation whether the
\* manager takes them.  Refused ones are forgotten.
CommitHeaders(r) ==
  /\ paidRequest[r].feed # 0
  /\ LET epoch == paidRequest[r].feed
         accepted == epoch = mainEpoch
     IN  /\ storedUsage' = IF accepted THEN AccountOf(epoch) ELSE storedUsage
         /\ observed' = IF ~accepted /\ observed = epoch THEN 0 ELSE observed
         /\ quotaManager' = IF accepted /\ quotaManager.generation = paidRequest[r].generation
              THEN [quotaManager EXCEPT !.account = paidRequest[r].account,
                      !.reading = [of |-> AccountOf(epoch), tag |-> AccountOf(epoch)]]
              ELSE quotaManager
  /\ paidRequest' = [paidRequest EXCEPT ![r].feed = 0]
  /\ UNCHANGED <<mainEpoch, usagePoll>>

---------------------------------------------------------------------------
(* An API key.                                                             *)

\* A 429 whose usage could not be asked for, or a spent account before it.
TurnToPaid(r) ==
  /\ RequestAt(r, "routing") /\ MainIsSpent(paidRequest[r])
  /\ GoesTo(r, "paying")
  /\ UNCHANGED <<mainEpoch, storedUsage, quotaManager, observed, usagePoll>>

GiveUpPaid(r) == RequestAt(r, "routing") /\ paidRequest[r].answered /\ GoesTo(r, "over")
                 /\ UNCHANGED <<mainEpoch, storedUsage, quotaManager, observed, usagePoll>>

\* Without main's credential it is taken first, and must be of the epoch.
AuthorizePrimary(r) ==
  /\ RequestAt(r, "paying")
  /\ GoesTo(r, IF paidRequest[r].access \/ (MainIsSpent(paidRequest[r]) /\ mainEpoch = paidRequest[r].lineage)
               THEN "confirming" ELSE "over")
  /\ UNCHANGED <<mainEpoch, storedUsage, quotaManager, observed, usagePoll>>

\* With the key in hand the primary is read once more: it must still be of
\* the epoch the request has, and still be spent.
AnyPrimary(q) == TRUE
SamePrimary(q) == mainEpoch = q.lineage

UseApiKey(r) ==
  /\ RequestAt(r, "confirming")
  /\ IF SamePrimary(paidRequest[r]) /\ MainIsSpent(paidRequest[r])
     THEN paidRequest' = [paidRequest EXCEPT ![r].at = "paid", ![r].for = MainAccount]
     ELSE GoesTo(r, "over")
  /\ UNCHANGED <<mainEpoch, storedUsage, quotaManager, observed, usagePoll>>

PaidNext ==
  \/ ReplaceMain
  \/ \E r \in PaidRequests :
       \/ ReadSnapshot(r) \/ AuthorizeMain(r) \/ LoadAccounts(r) \/ ResolveIdentity(r)
       \/ AskUsage(r) \/ AuthorizePoll(r) \/ DispatchPoll(r) \/ CompletePoll(r) \/ PollFails(r) \/ AfterPoll(r)
       \/ GoToMain(r) \/ SendToMain(r) \/ CommitHeaders(r)
       \/ TurnToPaid(r) \/ GiveUpPaid(r) \/ AuthorizePrimary(r) \/ UseApiKey(r)

PaidSpec == PaidInit /\ [][PaidNext]_paidVars

---------------------------------------------------------------------------

\* An API key is only used while the account main stands for is itself spent:
\* no poll, no header and no stored usage of another account is taken for its
\* own, however often main is replaced while they are under way.
PaidOnlyWhenMainIsSpent ==
  \A r \in PaidRequests : RequestAt(r, "paid") => paidRequest[r].for \in SpentAccounts

=============================================================================
