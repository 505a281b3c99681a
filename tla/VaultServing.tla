---------------------------- MODULE VaultServing ----------------------------
(***************************************************************************)
(* Requests served from one account of the vault.                          *)
(*                                                                         *)
(* Every physical attempt takes a receipt of its own: the roster's row is  *)
(* read, the vault is asked, the row is read again.  A 401 asks the vault  *)
(* for a strictly newer version; with one the request is replayed, once    *)
(* over the relay and once directly, and what was rejected before is       *)
(* forgotten.  The rejection that stays final is reported with the version *)
(* it was answered to.  A request that was served publishes its version to *)
(* the runtime file, behind whatever newer version has been there.         *)
(*                                                                         *)
(* The vault is external.  The account behind the credential is the same   *)
(* throughout.  A version is a number, 0 stands for none.                  *)
(***************************************************************************)
EXTENDS Naturals

CONSTANTS
  VaultPaths,     \* for each request, how it goes out: "relay", "socket" or "direct"
  VaultHosts,     \* the processes the requests may be of, a set of functions
  MaxVersion,     \* the bound of a run: versions of the credential
  MaxOutages      \* the bound of a run: times the vault cannot be reached

VaultRequests == DOMAIN VaultPaths
Holders == UNION {{host[r] : r \in VaultRequests} : host \in VaultHosts}

ASSUME VaultAssumption ==
  /\ VaultPaths \in [VaultRequests -> {"relay", "socket", "direct"}]
  /\ MaxVersion \in Nat /\ MaxOutages \in Nat

VARIABLES
  vault,    \* the credential in the vault, and whether it can be reached
  row,      \* the roster's row of the account
  receipts, \* of each process: the kept receipt and the newest version issued
  vaultCall, \* each request
  binding   \* of the runtime file: the version it names, and who is writing

vaultVars == <<vault, row, receipts, vaultCall, binding>>

None == 0
NoReceipt == [version |-> None, kept |-> FALSE]

VaultInit ==
  /\ vault = [version |-> 1, up |-> TRUE, outages |-> 0, active |-> TRUE]
  /\ row = [enabled |-> TRUE, active |-> TRUE]
  /\ \E host \in VaultHosts :
       vaultCall = [r \in VaultRequests |->
                 [at |-> "new", host |-> host[r], purpose |-> VaultPaths[r], usedDirect |-> FALSE, got |-> NoReceipt,
                  attempt |-> NoReceipt, relay401 |-> None, retryFrom |-> None,
                  stage |-> 1, status |-> 0, late |-> FALSE, aborted |-> FALSE,
                  refused |-> {}, reported |-> {}, usage |-> "none"]]
  /\ receipts = [p \in Holders |-> [kept |-> None, newest |-> None]]
  /\ binding = [version |-> None, writer |-> None]

CallAt(r, place) == vaultCall[r].at = place
VaultServes == row.enabled /\ row.active
Mine(r) == receipts[vaultCall[r].host]

\* A roster that was read and does not serve the account drops its kept receipt.
Retain(p) == receipts' = [receipts EXCEPT ![p].kept = IF VaultServes THEN @ ELSE None]

---------------------------------------------------------------------------
(* Authorizing one attempt, or asking for a newer version.                 *)

\* Without a receipt an attempt ends the request, and a question its replay.
Ended(c) == [c EXCEPT !.at = "over", !.status = 0, !.got = NoReceipt, !.retryFrom = None]
RequestRefused(c) == IF c.purpose = "ask" THEN [c EXCEPT !.at = "answered", !.got = NoReceipt] ELSE Ended(c)

ChooseRow(r) ==
  /\ CallAt(r, "new")
  /\ Retain(vaultCall[r].host)
  /\ vaultCall' = [vaultCall EXCEPT ![r] =
       LET c == [@ EXCEPT !.usedDirect = vaultCall[r].usedDirect \/ vaultCall[r].purpose = "direct"]
       IN  IF VaultServes THEN [c EXCEPT !.at = "get"] ELSE RequestRefused(c)]
  /\ UNCHANGED <<vault, row, binding>>

\* The vault's answer; while it cannot be reached, the receipt that was kept.
GetScoped(r) ==
  /\ CallAt(r, "get")
  /\ LET receipt == IF vault.up THEN [version |-> vault.version, kept |-> FALSE]
                    ELSE [version |-> Mine(r).kept, kept |-> TRUE]
         served == receipt.version # None /\ (vault.up => vault.active)
     IN  /\ vaultCall' = [vaultCall EXCEPT ![r] = IF served THEN [@ EXCEPT !.at = "check", !.got = receipt] ELSE RequestRefused(@)]
         /\ receipts' = [receipts EXCEPT ![vaultCall[r].host].kept = IF served THEN receipt.version ELSE @]
  /\ UNCHANGED <<vault, row, binding>>

NewerThan(receipt, version) == receipt.version > version

\* With a newer version the rejection is forgotten, and the request goes out
\* once more with a receipt of its own.
ReplayedStillRejected(r, c) ==
  [c EXCEPT !.at = "new", !.got = NoReceipt, !.retryFrom = c.attempt.version,
            !.purpose = IF c.usedDirect THEN "direct" ELSE VaultPaths[r]]
Replayed(r, c) == [ReplayedStillRejected(r, c) EXCEPT !.relay401 = None]

Issue(r) ==
  /\ CallAt(r, "check")
  /\ LET c == vaultCall[r]
         newer == ~c.got.kept /\ NewerThan(c.got, c.attempt.version)
     IN  /\ receipts' = [receipts EXCEPT ![c.host] =
              IF ~VaultServes THEN [@ EXCEPT !.kept = None]
              ELSE [@ EXCEPT !.newest = IF c.got.version > Mine(r).newest THEN c.got.version ELSE Mine(r).newest]]
         /\ vaultCall' = [vaultCall EXCEPT ![r] =
              IF ~VaultServes \/ c.aborted THEN RequestRefused(c)
              ELSE IF c.purpose = "ask" THEN IF newer THEN Replayed(r, c) ELSE RequestRefused(c)
              ELSE IF NewerThan(c.got, c.retryFrom) THEN [c EXCEPT !.at = "sent", !.attempt = c.got, !.got = NoReceipt]
              ELSE RequestRefused(c)]
  /\ UNCHANGED <<vault, row, binding>>

---------------------------------------------------------------------------
(* One dispatch: its attempts, and what follows a 401.                     *)

\* What a relayed attempt was answered is kept for the decision.
Rejected(c) == [c EXCEPT !.refused = @ \cup {c.attempt.version},
                         !.relay401 = IF c.purpose = "direct" THEN @ ELSE c.attempt.version]

\* The upstream answers, to the direct attempt or through the relay.
Answer(r, status) ==
  /\ CallAt(r, "sent")
  /\ vaultCall' = [vaultCall EXCEPT ![r] =
       LET c == [@ EXCEPT !.at = "answered", !.status = status]
       IN  IF status = 401 THEN Rejected(c) ELSE c]
  /\ UNCHANGED <<vault, row, receipts, binding>>

\* A response over the socket is handed on before the upstream has answered.
Optimistic(r) ==
  /\ CallAt(r, "sent") /\ vaultCall[r].purpose = "socket"
  /\ vaultCall' = [vaultCall EXCEPT ![r] = [@ EXCEPT !.at = "answered", !.status = 200, !.late = TRUE]]
  /\ UNCHANGED <<vault, row, receipts, binding>>

\* A relay that gives no answer leaves the request to a direct attempt.
FallDirect(r) ==
  /\ CallAt(r, "sent") /\ vaultCall[r].purpose # "direct"
  /\ vaultCall' = [vaultCall EXCEPT ![r] = [@ EXCEPT !.at = "new", !.purpose = "direct"]]
  /\ UNCHANGED <<vault, row, receipts, binding>>

RelayFails(r) ==
  /\ CallAt(r, "sent") /\ vaultCall[r].purpose = "direct"
  /\ vaultCall' = [vaultCall EXCEPT ![r] = Ended(@)]
  /\ UNCHANGED <<vault, row, receipts, binding>>

\* The host gives the request up: an attempt under way ends it, a rejection
\* that was answered is still reported.
HostAborts(r) ==
  /\ ~CallAt(r, "over") /\ ~vaultCall[r].aborted
  /\ vaultCall' = [vaultCall EXCEPT ![r] =
       IF @.at = "answered" \/ @.purpose = "ask" THEN [@ EXCEPT !.aborted = TRUE] ELSE Ended(@)]
  /\ UNCHANGED <<vault, row, receipts, binding>>

Unauthorized(c) == c.at = "answered" /\ c.status = 401 /\ ~c.aborted
AsksOverRelay(c) == Unauthorized(c) /\ c.stage = 1 /\ ~c.usedDirect /\ c.relay401 # None
AsksDirect(c) == Unauthorized(c) /\ c.stage < 3 /\ c.usedDirect

\* A kept receipt that was rejected is forgotten, and nothing is asked.
AskForNewer(r) ==
  LET c == vaultCall[r]
      next == [c EXCEPT !.stage = IF AsksOverRelay(c) THEN 2 ELSE 3]
  IN  /\ AsksOverRelay(c) \/ AsksDirect(c)
      /\ IF c.attempt.kept
         THEN /\ receipts' = [receipts EXCEPT ![c.host].kept = None]
              /\ vaultCall' = [vaultCall EXCEPT ![r] = next]
         ELSE /\ vaultCall' = [vaultCall EXCEPT ![r] = [next EXCEPT !.at = "new", !.purpose = "ask"]]
              /\ UNCHANGED receipts
      /\ UNCHANGED <<vault, row, binding>>

\* The rejection that stays is reported; a served request publishes its usage.
FinalRejection(c) ==
  IF c.usedDirect THEN IF c.status = 401 THEN {c.attempt.version} ELSE {}
  ELSE {c.relay401} \ {None}

FinishCall(r) ==
  /\ CallAt(r, "answered") /\ ~AsksOverRelay(vaultCall[r]) /\ ~AsksDirect(vaultCall[r])
  /\ vaultCall' = [vaultCall EXCEPT ![r] = [@ EXCEPT !.at = "over", !.aborted = FALSE, !.retryFrom = None,
                                           !.reported = FinalRejection(vaultCall[r]),
                                           !.usage = IF vaultCall[r].status = 200 THEN "queued" ELSE "none"]]
  /\ UNCHANGED <<vault, row, receipts, binding>>

\* The upstream's answer behind an optimistic response.
LateStatus(r, status) ==
  /\ vaultCall[r].late
  /\ vaultCall' = [vaultCall EXCEPT ![r] =
       LET c == [@ EXCEPT !.late = FALSE]
       IN  IF status # 401 THEN c
           ELSE [Rejected(c) EXCEPT !.reported = IF c.at = "over" THEN c.reported \cup {c.attempt.version} ELSE c.reported]]
  /\ UNCHANGED <<vault, row, receipts, binding>>

---------------------------------------------------------------------------
(* Publishing what a served request used.                                  *)

UsageAt(r, place) == vaultCall[r].usage = place
SettlesReading(r, place) == vaultCall' = [vaultCall EXCEPT ![r].usage = place]
Superseded(r) == Mine(r).newest > vaultCall[r].attempt.version

BehindFile(r) == binding.version > vaultCall[r].attempt.version

StageUsage(r) ==
  /\ UsageAt(r, "queued") /\ binding.writer = None
  /\ IF Superseded(r) \/ BehindFile(r)
     THEN SettlesReading(r, "none") /\ UNCHANGED binding
     ELSE SettlesReading(r, "staged") /\ binding' = [binding EXCEPT !.writer = r]
  /\ UNCHANGED <<vault, row, receipts>>

\* Just before the rename: a newer version issued meanwhile skips the write.
PublishUsage(r) ==
  /\ UsageAt(r, "staged")
  /\ SettlesReading(r, "none")
  /\ binding' = [version |-> IF Superseded(r) THEN binding.version ELSE vaultCall[r].attempt.version,
                 writer |-> None]
  /\ UNCHANGED <<vault, row, receipts>>

---------------------------------------------------------------------------
(* The vault and the roster.                                               *)

Rotate ==
  /\ vault.version < MaxVersion
  /\ vault' = [vault EXCEPT !.version = @ + 1, !.active = TRUE]
  /\ UNCHANGED <<row, receipts, vaultCall, binding>>

\* A reported rejection of the current version: the account must sign in anew.
NeedsSignIn ==
  /\ vault.active /\ \E r \in VaultRequests : vault.version \in vaultCall[r].reported
  /\ vault' = [vault EXCEPT !.active = FALSE]
  /\ UNCHANGED <<row, receipts, vaultCall, binding>>

Outage ==
  /\ vault.up /\ vault.outages < MaxOutages
  /\ vault' = [vault EXCEPT !.up = FALSE, !.outages = @ + 1]
  /\ UNCHANGED <<row, receipts, vaultCall, binding>>

Back ==
  /\ ~vault.up
  /\ vault' = [vault EXCEPT !.up = TRUE]
  /\ UNCHANGED <<row, receipts, vaultCall, binding>>

Discover ==
  /\ vault.up /\ row.active # vault.active
  /\ row' = [row EXCEPT !.active = vault.active]
  /\ UNCHANGED <<vault, receipts, vaultCall, binding>>

\* The user declines the account in one of the processes.
Decline(p) ==
  /\ row.enabled
  /\ row' = [row EXCEPT !.enabled = FALSE]
  /\ receipts' = [receipts EXCEPT ![p].kept = None]
  /\ UNCHANGED <<vault, vaultCall, binding>>

VaultStep(r) ==
  \/ ChooseRow(r) \/ GetScoped(r) \/ Issue(r)
  \/ \E status \in {200, 401} : Answer(r, status) \/ LateStatus(r, status)
  \/ Optimistic(r) \/ FallDirect(r) \/ RelayFails(r) \/ HostAborts(r)
  \/ AskForNewer(r) \/ FinishCall(r) \/ StageUsage(r) \/ PublishUsage(r)

VaultNext ==
  \/ \E r \in VaultRequests : VaultStep(r)
  \/ Rotate \/ NeedsSignIn \/ Outage \/ Back \/ Discover
  \/ \E p \in Holders : Decline(p)

VaultSpec == VaultInit /\ [][VaultNext]_vaultVars

---------------------------------------------------------------------------

\* What is reported to the vault was rejected by the upstream, and with the
\* version the request was last sent with; and a request of the vault's
\* account that ends in a 401 has reported it (the reports at the end of the
\* dispatch and of a relay's late status).
ReportsAreFinal ==
  \A r \in VaultRequests :
    LET c == vaultCall[r]
    IN  /\ c.reported \subseteq c.refused \cap {c.attempt.version}
        /\ c.at = "over" /\ c.status = 401 => c.reported # {}

=============================================================================
