--------------------------- MODULE ServingProofs ---------------------------
(***************************************************************************)
(* Proofs about the serving of requests, for every value of the constants: *)
(*   FinalIsReported      what the vault hears of a rejection              *)
(*   RoundsCountTheirOwn  how long a recovery round lasts                  *)
(*   WarmsDoNotStray      where what a round keeps is warmed               *)
(*   MovesEarned          when a session leaves its account                *)
(*   AnswersReadable      what a host is answered with                     *)
(*                                                                         *)
(* Each comes from one inductive invariant of its module, which says of    *)
(* every request what holds where it is; a lemma says that a step of one   *)
(* request keeps it if it does for that request, and each action has one.  *)
(***************************************************************************)
EXTENDS VaultServing, FableRecovery, RequestRounds, TLAPS

---------------------------------------------------------------------------
(* VaultServing.                                                           *)

Receipts == [version : Nat, kept : BOOLEAN]
Purposes == {"relay", "socket", "direct", "ask"}
CallPlaces == {"new", "get", "check", "sent", "answered", "over"}
Statuses == {0, 200, 401}
Stages == {1, 2, 3}
Usages == {"none", "queued", "staged"}
Calls ==
  [at : CallPlaces, host : Holders, purpose : Purposes, usedDirect : BOOLEAN, got : Receipts,
   attempt : Receipts, relay401 : Nat, retryFrom : Nat, stage : Stages, status : Statuses,
   late : BOOLEAN, aborted : BOOLEAN, refused : SUBSET Nat, reported : SUBSET Nat, usage : Usages]

VaultTypes ==
  /\ vault \in [version : Nat, up : BOOLEAN, outages : Nat, active : BOOLEAN]
  /\ receipts \in [Holders -> [kept : Nat, newest : Nat]]
  /\ vaultCall \in [VaultRequests -> Calls]

Authorizing == {"new", "get", "check"}

\* A 401 that is answered, or asked about, is that of the attempt, and kept as
\* the relay's unless a direct attempt was made; an attempt starts with none.
Faithful(c) ==
  /\ c.reported \subseteq c.refused \cap {c.attempt.version}
  /\ c.at # "over" => c.reported = {}
  /\ c.at = "over" /\ c.status = 401 => c.reported # {}
  /\ c.late = TRUE => c.at \in {"answered", "over"} /\ c.status = 200
  /\ c.at = "answered" \/ (c.at \in Authorizing /\ c.purpose = "ask") =>
       /\ c.relay401 \in {None} \cup (c.refused \cap {c.attempt.version})
       /\ c.status = 401 => /\ c.attempt.version \in c.refused \ {None}
                            /\ c.usedDirect = TRUE \/ c.relay401 = c.attempt.version
  /\ c.at \in Authorizing /\ c.purpose = "ask" => c.status = 401
  /\ c.at \in Authorizing \cup {"sent"} /\ c.purpose # "ask" => c.relay401 = None
  /\ c.at \in {"get", "check", "sent"} /\ c.purpose = "direct" => c.usedDirect = TRUE
  /\ c.at = "check" => c.got.version # None
  /\ c.at = "sent" => c.attempt.version # None /\ c.purpose # "ask"

VaultInv == VaultTypes /\ \A r \in VaultRequests : Faithful(vaultCall[r])

\* A step of one request keeps the invariant if it does for that request.
LEMMA CallMoves ==
  ASSUME VaultInv, NEW r \in VaultRequests, NEW c \in Calls, Faithful(c),
         vaultCall' = [vaultCall EXCEPT ![r] = c], UNCHANGED vault,
         receipts' \in [Holders -> [kept : Nat, newest : Nat]]
  PROVE  VaultInv'
BY DEF VaultInv, VaultTypes

LEMMA OneCall ==
  ASSUME VaultInv, NEW r \in VaultRequests
  PROVE  vaultCall[r] \in Calls /\ Faithful(vaultCall[r]) /\ vaultCall[r].host \in Holders
BY DEF VaultInv, VaultTypes, Calls

LEMMA NoReceiptType == NoReceipt \in Receipts /\ NoReceipt.version = None /\ None \in Nat
BY DEF NoReceipt, Receipts, None

LEMMA CallValues ==
  /\ "new" \in CallPlaces /\ "get" \in CallPlaces /\ "check" \in CallPlaces /\ "sent" \in CallPlaces
  /\ "answered" \in CallPlaces /\ "over" \in CallPlaces
  /\ 0 \in Statuses /\ 200 \in Statuses /\ 401 \in Statuses
BY DEF CallPlaces, Statuses

LEMMA EndedType ==
  ASSUME NEW c \in Calls, c.reported = {}, c.late = FALSE
  PROVE  Ended(c) \in Calls /\ Faithful(Ended(c))
<1> DEFINE e == Ended(c)
<1>1. e \in Calls
  <2>1. "over" \in CallPlaces /\ 0 \in Statuses
    BY CallValues
  <2> QED
    BY <2>1, NoReceiptType DEF Ended, Calls
<1>2. e.at = "over" /\ e.status = 0 /\ e.reported = {} /\ e.late = FALSE
  BY DEF Ended, Calls
<1> HIDE DEF e
<1>3. Faithful(e)
  BY <1>2 DEF Faithful, Authorizing
<1> QED
  BY <1>1, <1>3 DEF e

\* A refused attempt ends the request, a refused question leaves its 401.
LEMMA Refusal ==
  ASSUME NEW c \in Calls, Faithful(c), c.at \in Authorizing
  PROVE  RequestRefused(c) \in Calls /\ Faithful(RequestRefused(c))
<1>0. c.reported = {} /\ c.late = FALSE
  BY DEF Faithful, Authorizing, Calls
<1>1. CASE c.purpose # "ask"
  BY <1>0, <1>1, EndedType DEF RequestRefused
<1>2. CASE c.purpose = "ask"
  <2> DEFINE e == [c EXCEPT !.at = "answered", !.got = NoReceipt]
  <2>1. e \in Calls
    BY CallValues, NoReceiptType DEF Calls
  <2>2. /\ e.at = "answered" /\ e.status = c.status /\ e.reported = {} /\ e.late = FALSE /\ e.relay401 = c.relay401
        /\ e.attempt = c.attempt /\ e.refused = c.refused /\ e.usedDirect = c.usedDirect
    BY <1>0 DEF Calls
  <2> HIDE DEF e
  <2>3. Faithful(e)
    BY <1>2, <2>2 DEF Faithful, Authorizing
  <2> QED
    BY <1>2, <2>1, <2>3 DEF RequestRefused, e
<1> QED
  BY <1>1, <1>2

LEMMA ChooseKeeps ==
  ASSUME VaultInv, NEW r \in VaultRequests, ChooseRow(r)
  PROVE  VaultInv'
<1> DEFINE used == vaultCall[r].usedDirect \/ vaultCall[r].purpose = "direct"
           c == [vaultCall[r] EXCEPT !.usedDirect = used]
           get == [c EXCEPT !.at = "get"]
<1>1. vaultCall[r] \in Calls /\ vaultCall[r].at = "new" /\ used \in BOOLEAN
      /\ (vaultCall[r].purpose = "direct" => used = TRUE)
      /\ (vaultCall[r].usedDirect = TRUE => used = TRUE)
  BY OneCall DEF ChooseRow, CallAt, Calls
<1>2. vaultCall' = [vaultCall EXCEPT ![r] = get] \/ vaultCall' = [vaultCall EXCEPT ![r] = RequestRefused(c)]
  BY DEF ChooseRow
<1>3. receipts' \in [Holders -> [kept : Nat, newest : Nat]] /\ UNCHANGED vault
  BY DEF ChooseRow, Retain, VaultInv, VaultTypes, None
<1> HIDE DEF used
<1>4. c \in Calls
  BY <1>1 DEF Calls
<1>5. /\ c.at = "new" /\ c.usedDirect = used /\ c.purpose = vaultCall[r].purpose /\ c.reported = vaultCall[r].reported
      /\ c.refused = vaultCall[r].refused /\ c.attempt = vaultCall[r].attempt /\ c.status = vaultCall[r].status
      /\ c.late = vaultCall[r].late /\ c.relay401 = vaultCall[r].relay401
  BY <1>1 DEF Calls
<1> HIDE DEF c
<1>9. get \in Calls
  BY <1>4, CallValues DEF Calls
<1>6. /\ get.at = "get" /\ get.usedDirect = c.usedDirect /\ get.purpose = c.purpose /\ get.reported = c.reported
      /\ get.refused = c.refused /\ get.attempt = c.attempt /\ get.status = c.status
      /\ get.late = c.late /\ get.relay401 = c.relay401
  BY <1>4, CallValues DEF Calls
<1> HIDE DEF get
<1>7. Faithful(vaultCall[r])
  BY OneCall
<1>8. c.relay401 = None \/ c.purpose = "ask"
  BY <1>1, <1>5, <1>7 DEF Faithful, Authorizing
<1>10. Faithful(c)
  BY <1>1, <1>5, <1>7, <1>8 DEF Faithful, Authorizing
<1>11. Faithful(get)
  BY <1>1, <1>5, <1>6, <1>10 DEF Faithful, Authorizing
<1> QED
  BY <1>2, <1>3, <1>4, <1>5, <1>9, <1>10, <1>11, CallMoves, Refusal DEF Authorizing

LEMMA GetKeeps ==
  ASSUME VaultInv, NEW r \in VaultRequests, GetScoped(r)
  PROVE  VaultInv'
<1> DEFINE no == FALSE
           yes == TRUE
           receipt == IF vault.up THEN [version |-> vault.version, kept |-> no]
                      ELSE [version |-> Mine(r).kept, kept |-> yes]
           served == receipt.version # None /\ (vault.up => vault.active)
           c == [vaultCall[r] EXCEPT !.at = "check", !.got = receipt]
<1>1. vaultCall[r] \in Calls /\ vaultCall[r].at = "get" /\ Faithful(vaultCall[r]) /\ vaultCall[r].host \in Holders
  BY OneCall DEF GetScoped, CallAt
<1>2. /\ vaultCall' = [vaultCall EXCEPT ![r] = IF served THEN c ELSE RequestRefused(vaultCall[r])]
      /\ receipts' = [receipts EXCEPT ![vaultCall[r].host].kept = IF served THEN receipt.version ELSE @]
      /\ UNCHANGED vault
  BY DEF GetScoped
<1>3. receipt \in Receipts
  <2>1. no \in BOOLEAN /\ yes \in BOOLEAN
    OBVIOUS
  <2> HIDE DEF no, yes
  <2> QED
    BY <1>1, <2>1 DEF VaultInv, VaultTypes, Receipts, Mine
<1> HIDE DEF receipt
<1>4. receipts' \in [Holders -> [kept : Nat, newest : Nat]]
  BY <1>2, <1>3 DEF VaultInv, VaultTypes, Receipts
<1>5. CASE ~served
  <2>1. vaultCall' = [vaultCall EXCEPT ![r] = RequestRefused(vaultCall[r])]
    BY <1>2, <1>5
  <2> QED
    BY <1>1, <1>2, <1>4, <2>1, CallMoves, Refusal DEF Authorizing
<1>6. CASE served
  <2>1. vaultCall' = [vaultCall EXCEPT ![r] = c] /\ receipt.version # None
    BY <1>2, <1>6
  <2>2. c \in Calls
    BY ZenonT(30), <1>1, <1>3, CallValues DEF Calls
  <2>3. /\ c.at = "check" /\ c.got = receipt /\ c.usedDirect = vaultCall[r].usedDirect /\ c.purpose = vaultCall[r].purpose
        /\ c.reported = vaultCall[r].reported /\ c.refused = vaultCall[r].refused /\ c.attempt = vaultCall[r].attempt
        /\ c.status = vaultCall[r].status /\ c.late = vaultCall[r].late /\ c.relay401 = vaultCall[r].relay401
    BY <1>1 DEF Calls
  <2> HIDE DEF c
  <2>4. Faithful(c)
    BY <1>1, <2>1, <2>3 DEF Faithful, Authorizing
  <2> QED
    BY <1>2, <1>4, <2>1, <2>2, <2>4, CallMoves
<1> QED
  BY <1>5, <1>6

\* A replay forgets the rejection it answers to.
LEMMA ReplayFaithful ==
  ASSUME VaultInv, NEW r \in VaultRequests, vaultCall[r].at = "check", vaultCall[r].purpose = "ask"
  PROVE  Replayed(r, vaultCall[r]) \in Calls /\ Faithful(Replayed(r, vaultCall[r]))
<1> DEFINE c == vaultCall[r]
           purpose == IF c.usedDirect THEN "direct" ELSE VaultPaths[r]
           next == [c EXCEPT !.at = "new", !.got = NoReceipt, !.retryFrom = c.attempt.version, !.purpose = purpose,
                             !.relay401 = None]
<1>1. c \in Calls /\ Faithful(c) /\ purpose \in Purposes \ {"ask"} /\ c.attempt.version \in Nat
  BY OneCall, VaultAssumption DEF Calls, Receipts, Purposes
<1>2. Replayed(r, c) = next
  BY <1>1 DEF Replayed, ReplayedStillRejected, Calls
<1> HIDE DEF purpose, c
<1>3. next \in Calls
  BY ZenonT(30), <1>1, NoReceiptType, CallValues DEF Calls
<1>4. /\ next.at = "new" /\ next.relay401 = None /\ next.purpose = purpose /\ next.reported = c.reported
      /\ next.refused = c.refused /\ next.late = c.late
  BY <1>1 DEF Calls
<1>5. c.at = "check"
  BY DEF c
<1> HIDE DEF next
<1>6. Faithful(next)
  BY <1>1, <1>4, <1>5 DEF Faithful, Authorizing
<1> QED
  BY <1>2, <1>3, <1>6 DEF c

LEMMA IssueKeeps ==
  ASSUME VaultInv, NEW r \in VaultRequests, Issue(r)
  PROVE  VaultInv'
<1> DEFINE c == vaultCall[r]
           sent == [c EXCEPT !.at = "sent", !.attempt = c.got, !.got = NoReceipt]
<1>1. c \in Calls /\ c.at = "check" /\ Faithful(c) /\ c.host \in Holders
  BY OneCall DEF Issue, CallAt
<1>2. receipts' \in [Holders -> [kept : Nat, newest : Nat]] /\ UNCHANGED vault
  <2>1. c.got.version \in Nat /\ Mine(r).newest \in Nat /\ None \in Nat
    BY <1>1 DEF Calls, Receipts, Mine, VaultInv, VaultTypes, None
  <2>2. \/ receipts' = [receipts EXCEPT ![c.host] = [@ EXCEPT !.kept = None]]
        \/ \E newest \in Nat : receipts' = [receipts EXCEPT ![c.host] = [@ EXCEPT !.newest = newest]]
    BY <2>1 DEF Issue
  <2> QED
    BY <1>1, <2>1, <2>2 DEF Issue, VaultInv, VaultTypes
<1>3. \/ vaultCall' = [vaultCall EXCEPT ![r] = RequestRefused(c)]
      \/ c.purpose = "ask" /\ vaultCall' = [vaultCall EXCEPT ![r] = Replayed(r, c)]
      \/ c.purpose # "ask" /\ vaultCall' = [vaultCall EXCEPT ![r] = sent]
  BY DEF Issue
<1>4. CASE vaultCall' = [vaultCall EXCEPT ![r] = RequestRefused(c)]
  BY <1>1, <1>2, <1>4, CallMoves, Refusal DEF Authorizing
<1>5. CASE c.purpose = "ask" /\ vaultCall' = [vaultCall EXCEPT ![r] = Replayed(r, c)]
  BY <1>1, <1>2, <1>5, CallMoves, ReplayFaithful
<1>6. CASE c.purpose # "ask" /\ vaultCall' = [vaultCall EXCEPT ![r] = sent]
  <2>1. sent \in Calls
    BY ZenonT(30), <1>1, NoReceiptType, CallValues DEF Calls
  <2>2. /\ sent.at = "sent" /\ sent.attempt = c.got /\ sent.usedDirect = c.usedDirect /\ sent.purpose = c.purpose
        /\ sent.reported = c.reported /\ sent.late = c.late /\ sent.relay401 = c.relay401
    BY <1>1 DEF Calls
  <2> HIDE DEF sent
  <2>3. Faithful(sent)
    <3>1. c.reported = {} /\ c.late # TRUE /\ c.relay401 = None /\ c.got.version # None
          /\ (c.purpose = "direct" => c.usedDirect = TRUE)
      BY <1>1, <1>6 DEF Faithful, Authorizing
    <3> QED
      BY <1>6, <2>2, <3>1 DEF Faithful, Authorizing
  <2> QED
    BY <1>2, <1>6, <2>1, <2>3, CallMoves
<1> QED
  BY <1>3, <1>4, <1>5, <1>6

---------------------------------------------------------------------------
LEMMA RejectedType ==
  ASSUME NEW c \in Calls
  PROVE  /\ Rejected(c) \in Calls
         /\ Rejected(c).refused = c.refused \cup {c.attempt.version}
         /\ Rejected(c).relay401 = (IF c.purpose = "direct" THEN c.relay401 ELSE c.attempt.version)
         /\ \A same \in {"at", "usedDirect", "attempt", "purpose", "reported", "status", "late"} :
              Rejected(c)[same] = c[same]
<1> DEFINE refused == c.refused \cup {c.attempt.version}
           relay401 == IF c.purpose = "direct" THEN c.relay401 ELSE c.attempt.version
<1>1. refused \in SUBSET Nat /\ relay401 \in Nat
  BY DEF Calls, Receipts
<1>2. Rejected(c) = [c EXCEPT !.refused = refused, !.relay401 = relay401]
  BY DEF Rejected
<1> HIDE DEF refused, relay401
<1>3. Rejected(c) \in Calls
  BY <1>1, <1>2 DEF Calls
<1>4. Rejected(c).refused = refused /\ Rejected(c).relay401 = relay401
  BY <1>2 DEF Calls
<1>5. \A same \in {"at", "usedDirect", "attempt", "purpose", "reported", "status", "late"} : Rejected(c)[same] = c[same]
  BY <1>2 DEF Calls
<1> QED
  BY <1>3, <1>4, <1>5 DEF refused, relay401

LEMMA AnswerKeeps ==
  ASSUME VaultInv, NEW r \in VaultRequests, NEW status \in {200, 401}, Answer(r, status)
  PROVE  VaultInv'
<1> DEFINE o == vaultCall[r]
           c == [o EXCEPT !.at = "answered", !.status = status]
<1>1. o \in Calls /\ o.at = "sent" /\ Faithful(o) /\ status \in Statuses
  BY OneCall, CallValues DEF Answer, CallAt
<1>2. o.reported = {} /\ o.late # TRUE /\ o.relay401 = None /\ o.attempt.version # None
      /\ o.purpose # "ask" /\ (o.purpose = "direct" => o.usedDirect = TRUE)
  BY ZenonT(30), <1>1 DEF Faithful, Authorizing
<1>3. vaultCall' = [vaultCall EXCEPT ![r] = IF status = 401 THEN Rejected(c) ELSE c]
      /\ UNCHANGED <<vault, receipts>>
  BY DEF Answer
<1>4. c \in Calls
  BY ZenonT(30), <1>1, CallValues DEF Calls
<1>5. /\ c.at = "answered" /\ c.status = status /\ c.reported = o.reported /\ c.late = o.late /\ c.relay401 = o.relay401
      /\ c.attempt = o.attempt /\ c.purpose = o.purpose /\ c.usedDirect = o.usedDirect /\ c.refused = o.refused
  BY <1>1 DEF Calls
<1> HIDE DEF c, o
<1>6. CASE status # 401
  <2>1. Faithful(c)
    BY <1>2, <1>5, <1>6 DEF Faithful, Authorizing
  <2> QED
    BY <1>3, <1>4, <1>6, <2>1, CallMoves DEF VaultInv, VaultTypes
<1>7. CASE status = 401
  <2> DEFINE j == Rejected(c)
  <2>1. j \in Calls /\ j.refused = c.refused \cup {c.attempt.version}
        /\ j.relay401 = (IF c.purpose = "direct" THEN c.relay401 ELSE c.attempt.version)
        /\ j.at = c.at /\ j.usedDirect = c.usedDirect /\ j.attempt = c.attempt /\ j.purpose = c.purpose
        /\ j.reported = c.reported /\ j.status = c.status /\ j.late = c.late
    BY <1>4, RejectedType
  <2> HIDE DEF j
  <2>2. /\ j.at = "answered" /\ j.status = 401 /\ j.reported = {} /\ j.late # TRUE
        /\ j.attempt.version \in j.refused \ {None} /\ j.purpose # "ask"
        /\ j.relay401 = None \/ j.relay401 = j.attempt.version
        /\ j.usedDirect = TRUE \/ j.relay401 = j.attempt.version
    <3>1. j.at = "answered" /\ j.status = 401
      BY <1>5, <1>7, <2>1
    <3>5. j.reported = {} /\ j.late # TRUE
      BY ZenonT(30), <1>2, <1>5, <2>1
    <3>6. j.purpose # "ask"
      BY <1>2, <1>5, <2>1
    <3>2. j.attempt.version \in j.refused \ {None}
      BY <1>2, <1>5, <2>1
    <3>3. j.relay401 = None \/ j.relay401 = j.attempt.version
      BY <1>2, <1>5, <2>1
    <3>4. j.usedDirect = TRUE \/ j.relay401 = j.attempt.version
      BY <1>2, <1>5, <2>1
    <3> QED
      BY <3>1, <3>2, <3>3, <3>4, <3>5, <3>6
  <2>3. Faithful(j)
    BY <2>2 DEF Faithful, Authorizing
  <2> QED
    BY <1>3, <1>7, <2>1, <2>3, CallMoves DEF VaultInv, VaultTypes, j
<1> QED
  BY <1>6, <1>7

LEMMA LateKeeps ==
  ASSUME VaultInv, NEW r \in VaultRequests, NEW status \in {200, 401}, LateStatus(r, status)
  PROVE  VaultInv'
<1> DEFINE o == vaultCall[r]
           no == FALSE
           c == [o EXCEPT !.late = no]
           j == Rejected(c)
           told == [j EXCEPT !.reported = IF c.at = "over" THEN c.reported \cup {c.attempt.version} ELSE c.reported]
<1>1. o \in Calls /\ o.late = TRUE /\ Faithful(o) /\ no = FALSE /\ no \in BOOLEAN
  BY OneCall DEF LateStatus, Calls
<1>2. o.at \in {"answered", "over"} /\ o.status = 200
  BY <1>1 DEF Faithful
<1>3. vaultCall' = [vaultCall EXCEPT ![r] = IF status # 401 THEN c ELSE told]
      /\ UNCHANGED <<vault, receipts>>
  BY DEF LateStatus
<1> HIDE DEF no
<1>4. c \in Calls
  BY <1>1 DEF Calls
<1>5. /\ c.late = FALSE /\ c.at = o.at /\ c.status = o.status /\ c.reported = o.reported /\ c.relay401 = o.relay401
      /\ c.attempt = o.attempt /\ c.purpose = o.purpose /\ c.usedDirect = o.usedDirect /\ c.refused = o.refused
  BY <1>1 DEF Calls
<1> HIDE DEF c, o
<1>6. Faithful(c)
  BY <1>1, <1>2, <1>5 DEF Faithful, Authorizing
<1>7. j \in Calls /\ j.refused = c.refused \cup {c.attempt.version}
      /\ j.relay401 = (IF c.purpose = "direct" THEN c.relay401 ELSE c.attempt.version)
      /\ j.at = c.at /\ j.usedDirect = c.usedDirect /\ j.attempt = c.attempt /\ j.purpose = c.purpose
      /\ j.reported = c.reported /\ j.status = c.status /\ j.late = c.late
  BY <1>4, RejectedType
<1> HIDE DEF j
<1> DEFINE reported == IF c.at = "over" THEN c.reported \cup {c.attempt.version} ELSE c.reported
<1>8. reported \in SUBSET Nat /\ reported \subseteq j.refused \cap {c.attempt.version}
      /\ (c.at # "over" => reported = {})
  BY <1>4, <1>6, <1>7 DEF Calls, Receipts, Faithful
<1> HIDE DEF reported
<1>9. told \in Calls
  BY <1>7, <1>8 DEF Calls, reported
<1>10. /\ told.reported = reported /\ told.refused = j.refused /\ told.relay401 = j.relay401 /\ told.at = j.at
       /\ told.attempt = j.attempt /\ told.status = j.status /\ told.late = j.late /\ told.purpose = j.purpose
       /\ told.usedDirect = j.usedDirect
  BY <1>7 DEF Calls, reported
<1> HIDE DEF told
<1>11. Faithful(told)
  BY <1>2, <1>5, <1>6, <1>7, <1>8, <1>10 DEF Faithful, Authorizing
<1>12. \/ vaultCall' = [vaultCall EXCEPT ![r] = c]
       \/ vaultCall' = [vaultCall EXCEPT ![r] = told]
  BY <1>3
<1> QED
  BY <1>3, <1>4, <1>6, <1>9, <1>11, <1>12, CallMoves DEF VaultInv, VaultTypes

\* A response over the socket is not a 401 yet.
LEMMA OptimisticKeeps ==
  ASSUME VaultInv, NEW r \in VaultRequests, Optimistic(r)
  PROVE  VaultInv'
<1> DEFINE o == vaultCall[r]
           yes == TRUE
           c == [o EXCEPT !.at = "answered", !.status = 200, !.late = yes]
<1>1. o \in Calls /\ o.at = "sent" /\ Faithful(o) /\ yes \in BOOLEAN
  BY OneCall DEF Optimistic, CallAt
<1>2. o.reported = {} /\ o.relay401 = None
  BY <1>1 DEF Faithful, Authorizing
<1>3. vaultCall' = [vaultCall EXCEPT ![r] = c] /\ UNCHANGED <<vault, receipts>>
  BY DEF Optimistic
<1> HIDE DEF yes, o
<1>4. c \in Calls
  BY ZenonT(30), <1>1, CallValues DEF Calls
<1>5. c.at = "answered" /\ c.status = 200 /\ c.reported = {} /\ c.relay401 = None
  BY <1>1, <1>2 DEF Calls
<1> HIDE DEF c
<1>6. Faithful(c)
  BY <1>5 DEF Faithful, Authorizing
<1> QED
  BY <1>3, <1>4, <1>6, CallMoves DEF VaultInv, VaultTypes

LEMMA DirectKeeps ==
  ASSUME VaultInv, NEW r \in VaultRequests, FallDirect(r)
  PROVE  VaultInv'
<1> DEFINE o == vaultCall[r]
           c == [o EXCEPT !.at = "new", !.purpose = "direct"]
<1>1. o \in Calls /\ o.at = "sent" /\ Faithful(o) /\ "direct" \in Purposes
  BY OneCall DEF FallDirect, CallAt, Purposes
<1>2. o.reported = {} /\ o.relay401 = None /\ o.late # TRUE
  BY <1>1 DEF Faithful, Authorizing
<1>3. vaultCall' = [vaultCall EXCEPT ![r] = c] /\ UNCHANGED <<vault, receipts>>
  BY DEF FallDirect
<1> HIDE DEF o
<1>4. c \in Calls
  BY ZenonT(30), <1>1, CallValues DEF Calls
<1>5. c.at = "new" /\ c.purpose = "direct" /\ c.reported = {} /\ c.relay401 = None /\ c.late = o.late
  BY <1>1, <1>2 DEF Calls
<1> HIDE DEF c
<1>6. Faithful(c)
  BY <1>2, <1>5 DEF Faithful, Authorizing
<1> QED
  BY <1>3, <1>4, <1>6, CallMoves DEF VaultInv, VaultTypes

LEMMA EndsKeeps ==
  ASSUME VaultInv, NEW r \in VaultRequests, UNCHANGED <<vault, receipts>>,
         vaultCall[r].at \notin {"answered", "over"}, vaultCall' = [vaultCall EXCEPT ![r] = Ended(@)]
  PROVE  VaultInv'
<1>1. vaultCall[r] \in Calls /\ vaultCall[r].reported = {} /\ vaultCall[r].late = FALSE
  BY OneCall DEF Faithful, Calls
<1> QED
  BY <1>1, EndedType, CallMoves DEF VaultInv, VaultTypes

LEMMA AbortKeeps ==
  ASSUME VaultInv, NEW r \in VaultRequests, HostAborts(r)
  PROVE  VaultInv'
<1> DEFINE o == vaultCall[r]
           yes == TRUE
           c == [o EXCEPT !.aborted = yes]
<1>1. o \in Calls /\ o.at # "over" /\ Faithful(o) /\ yes \in BOOLEAN /\ UNCHANGED <<vault, receipts>>
  BY OneCall DEF HostAborts, CallAt
<1>2. \/ vaultCall' = [vaultCall EXCEPT ![r] = c]
      \/ o.at # "answered" /\ vaultCall' = [vaultCall EXCEPT ![r] = Ended(@)]
  BY DEF HostAborts
<1> HIDE DEF yes, o
<1>3. c \in Calls
  BY <1>1 DEF Calls
<1>4. /\ c.at = o.at /\ c.status = o.status /\ c.reported = o.reported /\ c.late = o.late /\ c.relay401 = o.relay401
      /\ c.attempt = o.attempt /\ c.purpose = o.purpose /\ c.usedDirect = o.usedDirect /\ c.refused = o.refused
      /\ c.got = o.got
  BY <1>1 DEF Calls
<1> HIDE DEF c
<1>5. Faithful(c)
  BY <1>1, <1>4 DEF Faithful
<1>6. CASE vaultCall' = [vaultCall EXCEPT ![r] = c]
  BY <1>1, <1>3, <1>5, <1>6, CallMoves DEF VaultInv, VaultTypes
<1>7. CASE o.at # "answered" /\ vaultCall' = [vaultCall EXCEPT ![r] = Ended(@)]
  BY <1>1, <1>7, EndsKeeps DEF o
<1> QED
  BY <1>2, <1>6, <1>7

\* The question is about the 401 that was answered.
LEMMA AskKeeps ==
  ASSUME VaultInv, NEW r \in VaultRequests, AskForNewer(r)
  PROVE  VaultInv'
<1> DEFINE o == vaultCall[r]
           stage == IF AsksOverRelay(o) THEN 2 ELSE 3
           next == [o EXCEPT !.stage = stage]
           c == [next EXCEPT !.at = "new", !.purpose = "ask"]
<1>1. o \in Calls /\ o.at = "answered" /\ o.status = 401 /\ Faithful(o) /\ stage \in Stages /\ "ask" \in Purposes
      /\ o.host \in Holders /\ UNCHANGED vault
  BY OneCall DEF AskForNewer, AsksOverRelay, AsksDirect, Unauthorized, Stages, Purposes
<1>2. \/ vaultCall' = [vaultCall EXCEPT ![r] = next]
      \/ vaultCall' = [vaultCall EXCEPT ![r] = c]
  BY DEF AskForNewer
<1>3. receipts' \in [Holders -> [kept : Nat, newest : Nat]]
  BY <1>1, NoReceiptType DEF AskForNewer, VaultInv, VaultTypes
<1> HIDE DEF stage, o
<1>4. next \in Calls
  BY <1>1 DEF Calls
<1>5. /\ next.at = o.at /\ next.status = o.status /\ next.reported = o.reported /\ next.late = o.late
      /\ next.relay401 = o.relay401 /\ next.attempt = o.attempt /\ next.purpose = o.purpose
      /\ next.usedDirect = o.usedDirect /\ next.refused = o.refused /\ next.got = o.got
  BY <1>1 DEF Calls
<1> HIDE DEF next
<1>6. Faithful(next)
  BY <1>1, <1>5 DEF Faithful
<1>7. c \in Calls
  BY ZenonT(30), <1>1, <1>4, CallValues DEF Calls
<1>8. /\ c.at = "new" /\ c.status = o.status /\ c.reported = o.reported /\ c.late = o.late
      /\ c.relay401 = o.relay401 /\ c.attempt = o.attempt /\ c.purpose = "ask"
      /\ c.usedDirect = o.usedDirect /\ c.refused = o.refused
  BY <1>4, <1>5 DEF Calls
<1> HIDE DEF c
<1>9. Faithful(c)
  BY <1>1, <1>8 DEF Faithful, Authorizing
<1> QED
  BY <1>1, <1>2, <1>3, <1>4, <1>6, <1>7, <1>9, CallMoves

\* What stays is reported, and it is the attempt's.
LEMMA FinishKeeps ==
  ASSUME VaultInv, NEW r \in VaultRequests, FinishCall(r)
  PROVE  VaultInv'
<1> DEFINE o == vaultCall[r]
           no == FALSE
           final == FinalRejection(o)
           usage == IF o.status = 200 THEN "queued" ELSE "none"
           c == [o EXCEPT !.at = "over", !.aborted = no, !.retryFrom = None, !.reported = final, !.usage = usage]
<1>1. o \in Calls /\ o.at = "answered" /\ Faithful(o) /\ no \in BOOLEAN /\ usage \in Usages
  BY OneCall DEF FinishCall, CallAt, Usages
<1>2. vaultCall' = [vaultCall EXCEPT ![r] = c] /\ UNCHANGED <<vault, receipts>>
  BY DEF FinishCall
<1>3. /\ final \subseteq o.refused \cap {o.attempt.version} /\ final \in SUBSET Nat
      /\ o.status = 401 => final # {}
  <2>1. o.attempt.version \in Nat /\ o.usedDirect \in BOOLEAN
    BY <1>1 DEF Calls, Receipts
  <2>2. /\ o.relay401 \in {None} \cup (o.refused \cap {o.attempt.version})
        /\ o.status = 401 => /\ o.attempt.version \in o.refused \ {None}
                             /\ o.usedDirect = TRUE \/ o.relay401 = o.attempt.version
    BY <1>1 DEF Faithful
  <2> QED
    BY <2>1, <2>2 DEF FinalRejection
<1> HIDE DEF no, usage, final, o
<1>4. c \in Calls
  <2>1. [o EXCEPT !.at = "over", !.aborted = no, !.retryFrom = None] \in Calls
    BY ZenonT(30), <1>1, CallValues, NoReceiptType DEF Calls
  <2> DEFINE half == [o EXCEPT !.at = "over", !.aborted = no, !.retryFrom = None]
  <2>2. c = [half EXCEPT !.reported = final, !.usage = usage]
    OBVIOUS
  <2>3. half \in Calls
    BY <2>1
  <2> HIDE DEF half
  <2> QED
    BY <1>1, <1>3, <2>2, <2>3 DEF Calls
<1>5. /\ c.at = "over" /\ c.status = o.status /\ c.reported = final /\ c.late = o.late
      /\ c.attempt = o.attempt /\ c.refused = o.refused
  BY <1>1 DEF Calls
<1> HIDE DEF c
<1>6. Faithful(c)
  BY <1>1, <1>3, <1>5 DEF Faithful, Authorizing
<1> QED
  BY <1>2, <1>4, <1>6, CallMoves DEF VaultInv, VaultTypes

LEMMA UsageKeeps ==
  ASSUME VaultInv, NEW r \in VaultRequests, StageUsage(r) \/ PublishUsage(r)
  PROVE  VaultInv'
<1> DEFINE o == vaultCall[r]
<1>1. PICK usage \in Usages : vaultCall' = [vaultCall EXCEPT ![r].usage = usage]
  BY DEF StageUsage, PublishUsage, SettlesReading, Usages
<1> DEFINE c == [o EXCEPT !.usage = usage]
<1>2. o \in Calls /\ Faithful(o) /\ UNCHANGED <<vault, receipts>>
  BY OneCall DEF StageUsage, PublishUsage
<1>3. c \in Calls
  BY <1>2 DEF Calls
<1>4. /\ c.at = o.at /\ c.status = o.status /\ c.reported = o.reported /\ c.late = o.late /\ c.relay401 = o.relay401
      /\ c.attempt = o.attempt /\ c.purpose = o.purpose /\ c.usedDirect = o.usedDirect /\ c.refused = o.refused
      /\ c.got = o.got
  BY <1>2 DEF Calls
<1>5. vaultCall' = [vaultCall EXCEPT ![r] = c]
  BY <1>1
<1> HIDE DEF c, o
<1>6. Faithful(c)
  BY <1>2, <1>4 DEF Faithful
<1> QED
  BY <1>2, <1>3, <1>5, <1>6, CallMoves DEF VaultInv, VaultTypes

LEMMA VaultKeeps ==
  ASSUME VaultInv, Rotate \/ NeedsSignIn \/ Outage \/ Back \/ Discover \/ \E p \in Holders : Decline(p)
  PROVE  VaultInv'
<1>1. UNCHANGED vaultCall
  BY DEF Rotate, NeedsSignIn, Outage, Back, Discover, Decline
<1>2. receipts' \in [Holders -> [kept : Nat, newest : Nat]]
  BY NoReceiptType DEF Rotate, NeedsSignIn, Outage, Back, Discover, Decline, VaultInv, VaultTypes
<1>3. vault' \in [version : Nat, up : BOOLEAN, outages : Nat, active : BOOLEAN]
  <2>1. CASE UNCHANGED vault
    BY <2>1 DEF VaultInv, VaultTypes
  <2>2. CASE Rotate
    <3> DEFINE yes == TRUE
               next == vault.version + 1
    <3>1. vault' = [vault EXCEPT !.version = next, !.active = yes] /\ next \in Nat /\ yes \in BOOLEAN
      BY <2>2 DEF Rotate, VaultInv, VaultTypes
    <3> HIDE DEF yes, next
    <3> QED
      BY <3>1 DEF VaultInv, VaultTypes
  <2>3. CASE NeedsSignIn
    BY <2>3 DEF NeedsSignIn, VaultInv, VaultTypes
  <2>4. CASE Outage
    <3> DEFINE no == FALSE
               next == vault.outages + 1
    <3>1. vault' = [vault EXCEPT !.up = no, !.outages = next] /\ next \in Nat /\ no \in BOOLEAN
      BY <2>4 DEF Outage, VaultInv, VaultTypes
    <3> HIDE DEF no, next
    <3> QED
      BY <3>1 DEF VaultInv, VaultTypes
  <2>5. CASE Back
    BY <2>5 DEF Back, VaultInv, VaultTypes
  <2> QED
    BY <2>1, <2>2, <2>3, <2>4, <2>5 DEF Discover, Decline
<1> QED
  BY <1>1, <1>2, <1>3 DEF VaultInv, VaultTypes

LEMMA VaultInvInit == VaultInit => VaultInv
<1> SUFFICES ASSUME VaultInit PROVE VaultInv
  OBVIOUS
<1>1. PICK host \in VaultHosts :
        vaultCall = [r \in VaultRequests |->
                 [at |-> "new", host |-> host[r], purpose |-> VaultPaths[r], usedDirect |-> FALSE, got |-> NoReceipt,
                  attempt |-> NoReceipt, relay401 |-> None, retryFrom |-> None,
                  stage |-> 1, status |-> 0, late |-> FALSE, aborted |-> FALSE,
                  refused |-> {}, reported |-> {}, usage |-> "none"]]
  BY DEF VaultInit
<1>2. ASSUME NEW r \in VaultRequests PROVE vaultCall[r] \in Calls /\ Faithful(vaultCall[r])
  <2>1. host[r] \in Holders /\ VaultPaths[r] \in {"relay", "socket", "direct"}
    BY VaultAssumption DEF Holders
  <2>2. VaultPaths[r] \in Purposes /\ 1 \in Stages /\ "none" \in Usages
    BY <2>1 DEF Purposes, Stages, Usages
  <2>3. vaultCall[r] \in Calls
    BY <1>1, <2>1, <2>2, CallValues, NoReceiptType DEF Calls
  <2>4. vaultCall[r].at = "new" /\ vaultCall[r].reported = {} /\ vaultCall[r].relay401 = None
        /\ vaultCall[r].purpose # "ask" /\ vaultCall[r].late # TRUE
    BY <1>1, <2>1
  <2> QED
    BY <2>3, <2>4 DEF Faithful, Authorizing
<1>3. vault \in [version : Nat, up : BOOLEAN, outages : Nat, active : BOOLEAN]
      /\ receipts \in [Holders -> [kept : Nat, newest : Nat]]
  BY NoReceiptType DEF VaultInit
<1>4. vaultCall \in [VaultRequests -> Calls]
  BY <1>1, <1>2
<1> QED
  BY <1>2, <1>3, <1>4 DEF VaultInv, VaultTypes

LEMMA VaultInvStep == VaultInv /\ [VaultNext]_vaultVars => VaultInv'
<1> SUFFICES ASSUME VaultInv, [VaultNext]_vaultVars PROVE VaultInv'
  OBVIOUS
<1>1. ASSUME NEW r \in VaultRequests, VaultStep(r) PROVE VaultInv'
  <2>1. CASE RelayFails(r)
    BY <2>1, EndsKeeps DEF RelayFails, CallAt
  <2> QED
    BY <1>1, <2>1, ChooseKeeps, GetKeeps, IssueKeeps, AnswerKeeps, LateKeeps, OptimisticKeeps, DirectKeeps,
       AbortKeeps, AskKeeps, FinishKeeps, UsageKeeps DEF VaultStep
<1>2. CASE UNCHANGED vaultVars
  BY <1>2 DEF vaultVars, VaultInv, VaultTypes
<1> QED
  BY <1>1, <1>2, VaultKeeps DEF VaultNext

THEOREM VaultInvariant == VaultSpec => []VaultInv
BY VaultInvInit, VaultInvStep, PTL DEF VaultSpec

\* ReportsAreFinal: whatever a request goes through, relay, direct attempt,
\* replay or late answer, the vault hears of the rejection that stayed, and of
\* no other.
THEOREM FinalIsReported == VaultSpec => []ReportsAreFinal
<1>1. VaultInv => ReportsAreFinal
  BY OneCall DEF ReportsAreFinal, VaultInv, Faithful
<1> QED
  BY <1>1, VaultInvariant, PTL

---------------------------------------------------------------------------
(* FableRecovery.                                                          *)

BodyAccounts == RecoveryOAuth \cup {Unset}
KeptBodies == [account : BodyAccounts, history : Nat, warms : Nat]
KeptOrNot == KeptBodies \cup {Unset}
RoundStates ==
  [remaining : Nat, refusals : Nat, successes : Nat, cycle : Nat, account : BodyAccounts, kept : KeptOrNot]
TargetBodies == [model : Sources \cup {Unset}, account : BodyAccounts, history : Nat]
PlanPlaces == {"new", "planned", "sent", "accepted", "done"}
Plans ==
  [at : PlanPlaces, model : Sources \cup {Unset}, downgraded : BOOLEAN, cycle : Nat,
   account : BodyAccounts, history : Nat]

Cycles == 1 .. MaxRounds

RecoveryTypes ==
  /\ history \in Nat /\ rounds \in Nat
  /\ recovery \in [Sources -> RoundStates \cup {Unset}]
  /\ keepable \in TargetBodies \cup {Unset}
  /\ answering \in [RecoveryRequests -> Plans]
  /\ ended \in [Cycles -> Nat]

Left(granted, own) == IF own < granted THEN granted - own ELSE 0

\* A round is of this session's past, has what its own responses left of it,
\* and keeps what it kept on the account it is bound to.
Sound(state) ==
  state # Unset =>
    /\ state.cycle \in 1 .. rounds
    /\ state.remaining = Left(Granted(state.refusals), ended[state.cycle])
    /\ state.kept # Unset => state.kept.account = state.account

\* A request of a round counts for that round, and the round for its model.
PlannedIn(p) ==
  p.downgraded = TRUE =>
    /\ p.cycle \in 1 .. rounds
    /\ \A m \in Sources : Has(m) /\ recovery[m].cycle = p.cycle => m = p.model

RecoveryInv ==
  /\ RecoveryTypes
  /\ rounds <= MaxRounds
  /\ \A c \in Cycles : c > rounds => ended[c] = 0
  /\ \A m \in Sources : Sound(recovery[m])
  /\ \A m, n \in Sources : Has(m) /\ Has(n) /\ recovery[m].cycle = recovery[n].cycle => m = n
  /\ \A r \in RecoveryRequests : PlannedIn(answering[r])
  /\ strayed = {}

LEMMA RoundsAreCycles ==
  ASSUME rounds \in Nat, rounds <= MaxRounds
  PROVE  \A c \in 1 .. rounds : c \in Cycles
BY RecoveryAssumption DEF Cycles

LEMMA GrantedType == \A n \in Nat : Granted(n) \in Nat
BY RecoveryAssumption DEF Granted

LEMMA OneRound ==
  ASSUME RecoveryInv, NEW m \in Sources, Has(m)
  PROVE  /\ recovery[m] \in RoundStates /\ Sound(recovery[m])
         /\ recovery[m].kept # Unset => recovery[m].kept \in KeptBodies
BY DEF RecoveryInv, RecoveryTypes, Has, RoundStates, KeptOrNot

LEMMA OnePlan ==
  ASSUME RecoveryInv, NEW r \in RecoveryRequests
  PROVE  answering[r] \in Plans /\ PlannedIn(answering[r])
BY DEF RecoveryInv, RecoveryTypes

LEMMA NoPlanType == NoPlan \in Plans /\ NoPlan.downgraded # TRUE
BY DEF NoPlan, Plans, PlanPlaces, BodyAccounts

LEMMA ForgottenType ==
  ASSUME NEW state \in RoundStates \cup {Unset}
  PROVE  /\ Forgotten(state) \in RoundStates \cup {Unset}
         /\ state = Unset => Forgotten(state) = Unset
         /\ state # Unset =>
              /\ Forgotten(state) \in RoundStates
              /\ Forgotten(state).cycle = state.cycle /\ Forgotten(state).remaining = state.remaining
              /\ Forgotten(state).refusals = state.refusals /\ Forgotten(state).account = state.account
              /\ Forgotten(state).successes = state.successes /\ Forgotten(state).kept = Unset
BY DEF Forgotten, RoundStates, KeptOrNot

\* What a step may do to a round without beginning it: the count and the kept
\* request's account stand, or what was kept is given up.
Continues(new, old) ==
  /\ new \in RoundStates \cup {Unset}
  /\ new # Unset =>
       /\ old # Unset /\ new.cycle = old.cycle /\ new.remaining = old.remaining /\ new.refusals = old.refusals
       /\ new.kept # Unset => new.kept.account = new.account

LEMMA ForgottenContinues ==
  ASSUME NEW state \in RoundStates \cup {Unset}
  PROVE  Continues(Forgotten(state), state)
BY ForgottenType DEF Continues

LEMMA SameContinues ==
  ASSUME RecoveryInv, NEW m \in Sources
  PROVE  Continues(recovery[m], recovery[m])
BY DEF Continues, RecoveryInv, RecoveryTypes, Sound

\* A step that begins no round and counts no response keeps the invariant.
LEMMA RoundsContinue ==
  ASSUME RecoveryInv, UNCHANGED <<rounds, ended>>, strayed' = {},
         recovery' \in [Sources -> RoundStates \cup {Unset}],
         \A m \in Sources : Continues(recovery'[m], recovery[m]),
         history' \in Nat, keepable' \in TargetBodies \cup {Unset},
         answering' \in [RecoveryRequests -> Plans],
         \A r \in RecoveryRequests : PlannedIn(answering[r])'
  PROVE  RecoveryInv'
<1>1. RecoveryTypes'
  BY DEF RecoveryInv, RecoveryTypes
<1>2. \A m \in Sources : Sound(recovery[m])'
  BY DEF RecoveryInv, Sound, Continues
<1>3. \A m, n \in Sources : Has(m)' /\ Has(n)' /\ recovery'[m].cycle = recovery'[n].cycle => m = n
  BY DEF RecoveryInv, Has, Continues
<1> QED
  BY <1>1, <1>2, <1>3 DEF RecoveryInv

\* The rounds go on; what requests were planned in them stands.
LEMMA PlansStand ==
  ASSUME RecoveryInv, UNCHANGED rounds, NEW q \in RecoveryRequests,
         answering'[q].downgraded = answering[q].downgraded,
         answering'[q].cycle = answering[q].cycle, answering'[q].model = answering[q].model,
         \A m \in Sources : Continues(recovery'[m], recovery[m])
  PROVE  PlannedIn(answering[q])'
BY DEF RecoveryInv, PlannedIn, Continues, Has

LEMMA EndedPlan ==
  ASSUME NEW r \in RecoveryRequests, Ends(r), RecoveryInv
  PROVE  /\ answering' \in [RecoveryRequests -> Plans]
         /\ answering'[r].downgraded # TRUE
         /\ \A q \in RecoveryRequests \ {r} : answering'[q] = answering[q]
<1>1. [NoPlan EXCEPT !.at = "done"] \in Plans /\ [NoPlan EXCEPT !.at = "done"].downgraded # TRUE
  BY NoPlanType DEF Plans, PlanPlaces
<1> QED
  BY <1>1 DEF Ends, RecoveryInv, RecoveryTypes

\* A step that only ends a request, or changes none, and lets rounds go on.
LEMMA EndingKeeps ==
  ASSUME RecoveryInv, UNCHANGED <<rounds, ended>>, strayed' = {},
         recovery' \in [Sources -> RoundStates \cup {Unset}],
         \A m \in Sources : Continues(recovery'[m], recovery[m]),
         history' \in Nat, keepable' \in TargetBodies \cup {Unset},
         NEW r \in RecoveryRequests, Ends(r) \/ UNCHANGED answering
  PROVE  RecoveryInv'
<1>1. answering' \in [RecoveryRequests -> Plans]
  BY EndedPlan DEF RecoveryInv, RecoveryTypes
<1>2. ASSUME NEW q \in RecoveryRequests PROVE PlannedIn(answering[q])'
  <2>1. CASE answering'[q].downgraded # TRUE
    BY <2>1 DEF PlannedIn
  <2>2. CASE answering'[q] = answering[q]
    BY <2>2, OnePlan, PlansStand
  <2> QED
    BY <2>1, <2>2, EndedPlan
<1> QED
  BY <1>1, <1>2, RoundsContinue

\* A step that changes no request.
LEMMA QuietKeeps ==
  ASSUME RecoveryInv, UNCHANGED <<rounds, ended, answering>>, strayed' = {},
         recovery' \in [Sources -> RoundStates \cup {Unset}],
         \A m \in Sources : Continues(recovery'[m], recovery[m]),
         history' \in Nat, keepable' \in TargetBodies \cup {Unset}
  PROVE  RecoveryInv'
<1>1. ASSUME NEW q \in RecoveryRequests PROVE PlannedIn(answering[q])'
  BY OnePlan, PlansStand
<1> QED
  BY <1>1, RoundsContinue DEF RecoveryInv, RecoveryTypes

LEMMA TrackKeeps ==
  ASSUME RecoveryInv, NEW body, TrackKept(body)
  PROVE  RecoveryInv'
<1>1. \A m \in Sources : Continues(Forgotten(recovery[m]), recovery[m]) /\ Continues(recovery[m], recovery[m])
  BY ForgottenContinues, SameContinues DEF RecoveryInv, RecoveryTypes
<1>2. recovery \in [Sources -> RoundStates \cup {Unset}]
  BY DEF RecoveryInv, RecoveryTypes
<1>3. /\ recovery' \in [Sources -> RoundStates \cup {Unset}]
      /\ \A m \in Sources : Continues(recovery'[m], recovery[m])
  BY <1>1, <1>2, ForgottenType DEF TrackKept, Unkept
<1> QED
  BY <1>3, QuietKeeps DEF TrackKept, RecoveryInv, RecoveryTypes

LEMMA ValidateKeeps ==
  ASSUME RecoveryInv, NEW m \in Sources, ValidateWarm(m)
  PROVE  RecoveryInv'
<1>1. \A n \in Sources : Continues(Forgotten(recovery[n]), recovery[n]) /\ Continues(recovery[n], recovery[n])
  BY ForgottenContinues, SameContinues DEF RecoveryInv, RecoveryTypes
<1>2. recovery \in [Sources -> RoundStates \cup {Unset}]
  BY DEF RecoveryInv, RecoveryTypes
<1>3. recovery' = Unkept(m) \/ recovery' = recovery
  BY DEF ValidateWarm
<1>4. /\ recovery' \in [Sources -> RoundStates \cup {Unset}]
      /\ \A n \in Sources : Continues(recovery'[n], recovery[n])
  BY <1>1, <1>2, <1>3, ForgottenType DEF Unkept
<1> QED
  BY <1>4, QuietKeeps DEF ValidateWarm, RecoveryInv, RecoveryTypes

\* The one step that could warm on another account: what the round keeps is on
\* the account the round is bound to.
LEMMA WarmKeeps ==
  ASSUME RecoveryInv, NEW m \in Sources, SendWarm(m)
  PROVE  RecoveryInv'
<1>1. \A n \in Sources : Continues(Forgotten(recovery[n]), recovery[n]) /\ Continues(recovery[n], recovery[n])
  BY ForgottenContinues, SameContinues DEF RecoveryInv, RecoveryTypes
<1>2. recovery \in [Sources -> RoundStates \cup {Unset}] /\ strayed = {}
  BY DEF RecoveryInv, RecoveryTypes
<1>3. CASE ~StillKept(m)
  <2>1. recovery' = Unkept(m) /\ strayed' = {}
    BY <1>2, <1>3 DEF SendWarm
  <2>2. /\ recovery' \in [Sources -> RoundStates \cup {Unset}]
        /\ \A n \in Sources : Continues(recovery'[n], recovery[n])
    BY <1>1, <1>2, <2>1, ForgottenType DEF Unkept
  <2> QED
    BY <2>1, <2>2, QuietKeeps DEF SendWarm, RecoveryInv, RecoveryTypes
<1>4. CASE StillKept(m)
  <2>1. Has(m) /\ recovery[m].kept # Unset /\ recovery[m].kept.account = warming[m].account
    BY <1>4 DEF StillKept, KeptOf
  <2>2. recovery[m] \in RoundStates /\ recovery[m].kept \in KeptBodies /\ recovery[m].kept.account = recovery[m].account
    BY <2>1, OneRound DEF Sound, Has
  <2>3. strayed' = {}
    BY <1>2, <1>4, <2>1, <2>2 DEF SendWarm
  <2> DEFINE warmed == [recovery[m] EXCEPT !.kept.warms = recovery[m].kept.warms + 1]
  <2>4. recovery' = recovery \/ recovery' = [recovery EXCEPT ![m] = warmed]
    BY <1>2, <1>4 DEF SendWarm
  <2>5. [recovery[m].kept EXCEPT !.warms = recovery[m].kept.warms + 1] \in KeptBodies
    BY <2>2 DEF KeptBodies
  <2>6. warmed \in RoundStates /\ warmed.kept.account = recovery[m].kept.account
        /\ warmed.account = recovery[m].account /\ warmed.cycle = recovery[m].cycle
        /\ warmed.remaining = recovery[m].remaining /\ warmed.refusals = recovery[m].refusals
    BY <2>2, <2>5 DEF RoundStates, KeptOrNot, KeptBodies
  <2>7. Continues(warmed, recovery[m])
    BY <2>1, <2>2, <2>6 DEF Continues, Has
  <2> HIDE DEF warmed
  <2>8. /\ recovery' \in [Sources -> RoundStates \cup {Unset}]
        /\ \A n \in Sources : Continues(recovery'[n], recovery[n])
    BY <1>1, <1>2, <2>4, <2>6, <2>7
  <2> QED
    BY <2>3, <2>8, QuietKeeps DEF SendWarm, RecoveryInv, RecoveryTypes
<1> QED
  BY <1>3, <1>4

LEMMA StillKeeps ==
  ASSUME RecoveryInv,
         \/ CompactHistory \/ DeleteSession
         \/ \E m \in Sources : DropTarget(m) \/ WarmRefused(m)
  PROVE  RecoveryInv'
<1>1. CASE DeleteSession
  <2>1. /\ recovery' \in [Sources -> RoundStates \cup {Unset}]
        /\ \A n \in Sources : Continues(recovery'[n], recovery[n])
    BY <1>1 DEF DeleteSession, Continues
  <2> QED
    BY <1>1, <2>1, QuietKeeps DEF DeleteSession, RecoveryInv, RecoveryTypes
<1>2. CASE UNCHANGED recovery
  <2>1. \A n \in Sources : Continues(recovery'[n], recovery[n])
    BY <1>2, SameContinues
  <2>2. \/ UNCHANGED <<rounds, ended, answering, strayed, keepable>> /\ history' \in {history, history + 1}
        \/ DeleteSession
    BY DEF CompactHistory, DropTarget, WarmRefused
  <2> QED
    BY <1>1, <1>2, <2>1, <2>2, QuietKeeps DEF RecoveryInv, RecoveryTypes
<1> QED
  BY <1>1, <1>2 DEF CompactHistory, DropTarget, WarmRefused

LEMMA OverKeeps ==
  ASSUME RecoveryInv, NEW r \in RecoveryRequests, CompleteSource(r) \/ FailRequest(r)
  PROVE  RecoveryInv'
<1>1. \A n \in Sources : Continues(recovery[n], recovery[n])
  BY SameContinues
<1>2. recovery \in [Sources -> RoundStates \cup {Unset}] /\ strayed = {}
  BY DEF RecoveryInv, RecoveryTypes
<1>3. CASE UNCHANGED recovery
  BY <1>1, <1>2, <1>3, EndingKeeps DEF CompleteSource, FailRequest, RecoveryInv, RecoveryTypes
<1>4. CASE CompleteSource(r) /\ recovery' # recovery
  <2> DEFINE p == answering[r]
             state == recovery[p.model]
             more == IF state.successes < FallbackTurns THEN state.successes + 1 ELSE state.successes
             trusted == [Forgotten(state) EXCEPT !.successes = more]
             afresh == [state EXCEPT !.successes = 0]
  <2>1. IsCurrent(p) /\ (recovery' = [recovery EXCEPT ![p.model] = trusted]
                         \/ recovery' = [recovery EXCEPT ![p.model] = afresh])
    BY <1>4 DEF CompleteSource
  <2>2. Has(p.model)
    BY <2>1 DEF IsCurrent
  <2>3. CASE p.model \notin Sources
    BY <1>2, <1>4, <2>1, <2>3
  <2>4. CASE p.model \in Sources
    <3>1. state \in RoundStates /\ state # Unset /\ Sound(state)
      BY <2>2, <2>4, OneRound DEF Has
    <3>2. more \in Nat
      BY <3>1 DEF RoundStates
    <3>3. /\ Forgotten(state) \in RoundStates /\ Forgotten(state).kept = Unset
          /\ Forgotten(state).cycle = state.cycle /\ Forgotten(state).remaining = state.remaining
          /\ Forgotten(state).refusals = state.refusals
      BY <3>1, ForgottenType
    <3> HIDE DEF more
    <3>4. trusted \in RoundStates /\ trusted.kept = Unset /\ trusted.cycle = state.cycle
          /\ trusted.remaining = state.remaining /\ trusted.refusals = state.refusals
      BY <3>2, <3>3 DEF RoundStates
    <3>5. afresh \in RoundStates /\ afresh.kept = state.kept /\ afresh.account = state.account
          /\ afresh.cycle = state.cycle /\ afresh.remaining = state.remaining /\ afresh.refusals = state.refusals
      BY <3>1 DEF RoundStates
    <3> HIDE DEF trusted, afresh
    <3>6. Continues(trusted, state) /\ Continues(afresh, state)
      BY <3>1, <3>4, <3>5 DEF Continues, Sound
    <3>7. /\ recovery' \in [Sources -> RoundStates \cup {Unset}]
          /\ \A n \in Sources : Continues(recovery'[n], recovery[n])
      BY <1>1, <1>2, <2>1, <2>4, <3>4, <3>5, <3>6
    <3> QED
      BY <1>2, <1>4, <3>7, EndingKeeps DEF CompleteSource, RecoveryInv, RecoveryTypes
  <2> QED
    BY <2>3, <2>4
<1> QED
  BY <1>3, <1>4 DEF FailRequest

LEMMA PlanKeeps ==
  ASSUME RecoveryInv, NEW r \in RecoveryRequests, NEW m \in Sources, PlanRequest(r, m)
  PROVE  RecoveryInv'
<1> DEFINE over == selected \notin {Unset, m}
           left == IF over THEN [x \in Sources |-> Unset] ELSE recovery
           plan == [NoPlan EXCEPT !.at = "planned", !.model = m]
           p == IF left[m] = Unset THEN plan
                ELSE [plan EXCEPT !.downgraded = left[m].remaining > 0, !.cycle = left[m].cycle]
<1>1. /\ recovery' = left /\ answering' = [answering EXCEPT ![r] = p]
      /\ keepable' \in {keepable, Unset}
      /\ UNCHANGED <<history, rounds, ended, strayed>>
  BY DEF PlanRequest
<1>2. /\ recovery \in [Sources -> RoundStates \cup {Unset}] /\ strayed = {}
      /\ answering \in [RecoveryRequests -> Plans]
  BY DEF RecoveryInv, RecoveryTypes
<1>3. \A n \in Sources : Continues(recovery[n], recovery[n])
  BY SameContinues
<1>4. left \in [Sources -> RoundStates \cup {Unset}] /\ \A n \in Sources : Continues(left[n], recovery[n])
  BY <1>2, <1>3 DEF Continues
<1>5. plan \in Plans /\ plan.model = m /\ plan.downgraded # TRUE
  BY NoPlanType DEF Plans, PlanPlaces
<1>6. left[m] # Unset => left[m] = recovery[m] /\ left[m] \in RoundStates /\ Sound(left[m])
  BY <1>2, OneRound DEF Has
<1> HIDE DEF left, plan
<1>7. p \in Plans /\ p.model = m
  <2>1. CASE left[m] # Unset
    <3> DEFINE d == left[m].remaining > 0
               c == left[m].cycle
    <3>1. d \in BOOLEAN /\ c \in Nat
      BY <1>6, <2>1 DEF RoundStates
    <3> HIDE DEF d, c
    <3>2. [plan EXCEPT !.downgraded = d, !.cycle = c] \in Plans
          /\ [plan EXCEPT !.downgraded = d, !.cycle = c].model = m
      BY <1>5, <3>1 DEF Plans
    <3> QED
      BY <2>1, <3>2 DEF d, c
  <2> QED
    BY <1>5, <2>1
<1>8. p.downgraded = TRUE => left[m] # Unset /\ p.cycle = left[m].cycle
  <2>1. CASE left[m] # Unset
    BY <1>5, <2>1 DEF Plans
  <2> QED
    BY <1>5, <2>1
<1> HIDE DEF p
<1>9. ASSUME NEW q \in RecoveryRequests PROVE PlannedIn(answering[q])'
  <2>1. CASE q # r
    <3>1. answering'[q] = answering[q]
      BY <1>1, <1>2, <2>1
    <3> QED
      BY <1>1, <1>4, <3>1, PlansStand
  <2>2. CASE q = r
    <3>1. answering'[q] = p
      BY <1>1, <1>2, <2>2
    <3>2. ASSUME p.downgraded = TRUE PROVE PlannedIn(answering[q])'
      <4>1. left[m] # Unset /\ p.cycle = recovery[m].cycle /\ Sound(recovery[m]) /\ recovery[m] # Unset
        BY <1>6, <1>8, <3>2
      <4>2. p.cycle \in 1 .. rounds
        BY <4>1 DEF Sound
      <4>3. ASSUME NEW n \in Sources, recovery'[n] # Unset, recovery'[n].cycle = p.cycle PROVE n = p.model
        <5>1. recovery[n] # Unset /\ recovery[n].cycle = p.cycle
          BY <1>1, <1>4, <4>3 DEF Continues
        <5> QED
          BY <1>7, <4>1, <5>1 DEF RecoveryInv, Has
      <4> QED
        BY <1>1, <3>1, <4>2, <4>3 DEF PlannedIn, Has
    <3> QED
      BY <3>1, <3>2 DEF PlannedIn
  <2> QED
    BY <2>1, <2>2
<1>10. answering' \in [RecoveryRequests -> Plans]
  BY <1>1, <1>2, <1>7
<1>11. history' \in Nat /\ keepable' \in TargetBodies \cup {Unset}
  BY <1>1 DEF RecoveryInv, RecoveryTypes
<1> QED
  BY <1>1, <1>2, <1>4, <1>9, <1>10, <1>11, RoundsContinue

LEMMA SendKeeps ==
  ASSUME RecoveryInv, NEW r \in RecoveryRequests, NEW a \in RecoveryOAuth, SendRequest(r, a)
  PROVE  RecoveryInv'
<1> DEFINE p == answering[r]
           binds == StickyRecovery /\ p.downgraded /\ IsCurrent(p) /\ recovery[p.model].account # a
           bound == IF binds THEN [recovery EXCEPT ![p.model] = Rebound(recovery[p.model], a)] ELSE recovery
           sent == [p EXCEPT !.at = "sent", !.account = a, !.history = history]
<1>1. /\ recovery \in [Sources -> RoundStates \cup {Unset}] /\ strayed = {} /\ history \in Nat
      /\ answering \in [RecoveryRequests -> Plans]
  BY DEF RecoveryInv, RecoveryTypes
<1>2. /\ DOMAIN recovery' = Sources
      /\ recovery' = [m \in Sources |-> recovery'[m]]
      /\ \A m \in Sources :
           \/ recovery'[m] = Forgotten(bound[m])
           \/ recovery'[m] = bound[m]
           \/ bound[m] # Unset /\ bound[m].kept # Unset /\ recovery'[m] = [bound[m] EXCEPT !.kept.warms = 0]
  BY DEF SendRequest
<1>3. answering' = [answering EXCEPT ![r] = sent] /\ UNCHANGED <<history, rounds, keepable, ended, strayed>>
  BY DEF SendRequest
<1>4. ASSUME NEW m \in Sources
      PROVE  bound[m] \in RoundStates \cup {Unset} /\ Continues(bound[m], recovery[m])
  <2>1. CASE binds /\ m = p.model
    <3>1. Has(m) /\ recovery[m] \in RoundStates
      BY <2>1, OneRound DEF IsCurrent
    <3>2. bound[m] = Rebound(recovery[m], a)
      BY <1>1, <2>1
    <3>3. /\ Rebound(recovery[m], a) \in RoundStates
          /\ Rebound(recovery[m], a).cycle = recovery[m].cycle
          /\ Rebound(recovery[m], a).remaining = recovery[m].remaining
          /\ Rebound(recovery[m], a).refusals = recovery[m].refusals
          /\ Rebound(recovery[m], a).kept = Unset
      BY <3>1 DEF Rebound, RoundStates, BodyAccounts, KeptOrNot
    <3> QED
      BY <3>1, <3>2, <3>3 DEF Continues, Has
  <2>2. CASE ~(binds /\ m = p.model)
    BY <1>1, <2>2, SameContinues
  <2> QED
    BY <2>1, <2>2
<1> HIDE DEF bound
<1>5. ASSUME NEW m \in Sources
      PROVE  recovery'[m] \in RoundStates \cup {Unset} /\ Continues(recovery'[m], recovery[m])
  <2>1. Continues(Forgotten(bound[m]), recovery[m]) /\ Forgotten(bound[m]) \in RoundStates \cup {Unset}
    BY <1>4, ForgottenType DEF Continues
  <2>2. ASSUME bound[m] # Unset, bound[m].kept # Unset
        PROVE  /\ [bound[m] EXCEPT !.kept.warms = 0] \in RoundStates
               /\ Continues([bound[m] EXCEPT !.kept.warms = 0], recovery[m])
    <3> DEFINE b == bound[m]
               k == [b.kept EXCEPT !.warms = 0]
               w == [b EXCEPT !.kept = k]
    <3>1. b \in RoundStates /\ b.kept \in KeptBodies /\ b # Unset
      BY <1>4, <2>2 DEF RoundStates, KeptOrNot
    <3>2. k \in KeptBodies /\ k.account = b.kept.account
      BY <3>1 DEF KeptBodies
    <3>3. [bound[m] EXCEPT !.kept.warms = 0] = w
      BY <3>1 DEF RoundStates
    <3> HIDE DEF k
    <3>4. w \in RoundStates /\ w.kept = k /\ w.account = b.account /\ w.cycle = b.cycle
          /\ w.remaining = b.remaining /\ w.refusals = b.refusals
      BY <3>1, <3>2 DEF RoundStates, KeptOrNot
    <3>5. Continues(b, recovery[m])
      BY <1>4
    <3> HIDE DEF w, b
    <3>6. Continues(w, recovery[m])
      BY <2>2, <3>1, <3>2, <3>4, <3>5 DEF Continues, b
    <3> QED
      BY <3>3, <3>4, <3>6
  <2> QED
    BY <1>2, <1>4, <2>1, <2>2
<1>6. recovery' \in [Sources -> RoundStates \cup {Unset}]
  BY <1>2, <1>5
<1>7. sent \in Plans /\ sent.downgraded = p.downgraded /\ sent.cycle = p.cycle /\ sent.model = p.model
  BY <1>1 DEF Plans, PlanPlaces, BodyAccounts
<1> HIDE DEF sent
<1>8. ASSUME NEW q \in RecoveryRequests PROVE PlannedIn(answering[q])'
  <2>1. answering'[q].downgraded = answering[q].downgraded /\ answering'[q].cycle = answering[q].cycle
        /\ answering'[q].model = answering[q].model
    BY <1>1, <1>3, <1>7
  <2> QED
    BY <1>3, <1>5, <2>1, PlansStand
<1>9. answering' \in [RecoveryRequests -> Plans] /\ keepable' \in TargetBodies \cup {Unset}
  BY <1>1, <1>3, <1>7 DEF RecoveryInv, RecoveryTypes
<1> QED
  BY <1>1, <1>3, <1>5, <1>6, <1>8, <1>9, RoundsContinue

LEMMA AcceptKeeps ==
  ASSUME RecoveryInv, NEW r \in RecoveryRequests, AcceptRequest(r) \/ AskAgain(r)
  PROVE  RecoveryInv'
<1>1. /\ recovery \in [Sources -> RoundStates \cup {Unset}] /\ strayed = {} /\ history \in Nat
      /\ answering \in [RecoveryRequests -> Plans] /\ keepable \in TargetBodies \cup {Unset}
  BY DEF RecoveryInv, RecoveryTypes
<1>2. \A m \in Sources : Continues(recovery[m], recovery[m])
  BY SameContinues
<1>3. CASE AcceptRequest(r)
  <2> DEFINE p == answering[r]
             accepted == [p EXCEPT !.at = "accepted"]
             target == [model |-> p.model, account |-> p.account, history |-> p.history]
  <2>1. answering' = [answering EXCEPT ![r] = accepted] /\ keepable' \in {target, Unset, keepable}
    BY <1>3 DEF AcceptRequest
  <2>2. accepted \in Plans /\ accepted.downgraded = p.downgraded /\ accepted.cycle = p.cycle /\ accepted.model = p.model
    BY <1>1 DEF Plans, PlanPlaces
  <2>3. target \in TargetBodies
    BY <1>1 DEF Plans, TargetBodies
  <2> HIDE DEF accepted, target
  <2>4. ASSUME NEW q \in RecoveryRequests PROVE PlannedIn(answering[q])'
    <3>1. answering'[q].downgraded = answering[q].downgraded /\ answering'[q].cycle = answering[q].cycle
          /\ answering'[q].model = answering[q].model
      BY <1>1, <2>1, <2>2
    <3> QED
      BY <1>2, <1>3, <3>1, PlansStand DEF AcceptRequest
  <2> QED
    BY <1>1, <1>2, <1>3, <2>1, <2>2, <2>3, <2>4, RoundsContinue DEF AcceptRequest
<1>4. CASE AskAgain(r)
  <2>1. answering' = [answering EXCEPT ![r] = NoPlan] /\ UNCHANGED <<history, recovery, rounds, keepable, ended, strayed>>
    BY <1>4 DEF AskAgain
  <2>2. ASSUME NEW q \in RecoveryRequests PROVE PlannedIn(answering[q])'
    <3>1. CASE q = r
      BY <1>1, <2>1, <3>1, NoPlanType DEF PlannedIn
    <3>2. CASE q # r
      BY <1>1, <1>2, <2>1, <3>2, PlansStand
    <3> QED
      BY <3>1, <3>2
  <2> QED
    BY <1>1, <1>2, <2>1, <2>2, NoPlanType, RoundsContinue
<1> QED
  BY <1>3, <1>4

\* A refusal begins a round no request was planned in and no response ended in.
LEMMA RefuseKeeps ==
  ASSUME RecoveryInv, NEW r \in RecoveryRequests, RefuseSource(r)
  PROVE  RecoveryInv'
<1> DEFINE p == answering[r]
           before == recovery[p.model]
           refusals == IF before # Unset /\ before.successes < FallbackTurns THEN before.refusals + 1 ELSE 0
           keeps == keepable # Unset /\ keepable.model = p.model /\ keepable.account = p.account
           kept == IF keeps THEN [account |-> keepable.account, history |-> keepable.history, warms |-> 0] ELSE Unset
           state == [remaining |-> Granted(refusals), refusals |-> refusals, successes |-> 0,
                     cycle |-> rounds + 1, account |-> p.account, kept |-> kept]
<1>1. /\ recovery \in [Sources -> RoundStates \cup {Unset}] /\ strayed = {} /\ history \in Nat /\ rounds \in Nat
      /\ answering \in [RecoveryRequests -> Plans] /\ keepable \in TargetBodies \cup {Unset}
      /\ ended \in [Cycles -> Nat]
  BY DEF RecoveryInv, RecoveryTypes
<1>2. /\ recovery' = [recovery EXCEPT ![p.model] = state]
      /\ keepable' \in {keepable, Unset} /\ rounds' = rounds + 1 /\ rounds < MaxRounds
      /\ Ends(r) /\ UNCHANGED <<history, ended, strayed>>
  BY DEF RefuseSource
<1>3. p \in Plans
  BY <1>1
<1>4. kept \in KeptOrNot /\ (kept # Unset => kept.account = p.account)
  <2>1. CASE keeps
    <3>1. keepable \in TargetBodies
      BY <1>1, <2>1
    <3>2. kept = [account |-> keepable.account, history |-> keepable.history, warms |-> 0]
      BY <2>1
    <3>3. kept \in KeptBodies /\ kept.account = keepable.account
      BY <3>1, <3>2 DEF KeptBodies, TargetBodies
    <3> QED
      BY <2>1, <3>3 DEF KeptOrNot
  <2>2. CASE ~keeps
    BY <2>2 DEF KeptOrNot
  <2> QED
    BY <2>1, <2>2
<1>5. CASE p.model \in Sources
  <2>1. refusals \in Nat
    <3>1. CASE before # Unset
      <4>1. before \in RoundStates
        BY <1>1, <1>5, <3>1
      <4> QED
        BY <4>1 DEF RoundStates
    <3>2. CASE before = Unset
      BY <3>2
    <3> QED
      BY <3>1, <3>2
  <2>2. Granted(refusals) \in Nat
    BY <2>1, GrantedType
  <2> HIDE DEF kept, refusals
  <2>3. /\ state \in RoundStates /\ state.cycle = rounds + 1 /\ state.remaining = Granted(refusals)
        /\ state.refusals = refusals /\ state.account = p.account /\ state.kept = kept
    BY <1>1, <1>3, <1>4, <2>1, <2>2 DEF RoundStates, Plans
  <2> HIDE DEF state
  <2>4. \A n \in Sources : recovery'[n] = IF n = p.model THEN state ELSE recovery[n]
    BY <1>1, <1>2
  <2>5. recovery' \in [Sources -> RoundStates \cup {Unset}]
    BY <1>1, <1>2, <2>3
  <2>6. RecoveryTypes'
    <3>1. answering' \in [RecoveryRequests -> Plans]
      BY <1>2, EndedPlan
    <3>2. rounds' \in Nat /\ history' \in Nat /\ keepable' \in TargetBodies \cup {Unset}
      BY <1>1, <1>2
    <3> QED
      BY <1>1, <1>2, <2>5, <3>1, <3>2 DEF RecoveryTypes
  <2>7. rounds' <= MaxRounds /\ \A c \in Cycles : c > rounds' => ended'[c] = 0
    BY <1>1, <1>2, RecoveryAssumption DEF RecoveryInv, Cycles
  <2>8. ASSUME NEW n \in Sources PROVE Sound(recovery[n])'
    <3>1. CASE n = p.model
      <4>1. rounds + 1 \in 1 .. rounds' /\ ended'[rounds + 1] = 0
        <5>1. rounds + 1 \in Cycles
          BY <1>1, <1>2, RecoveryAssumption DEF Cycles
        <5> QED
          BY <1>1, <1>2, <5>1 DEF RecoveryInv
      <4>2. Left(Granted(refusals), 0) = Granted(refusals)
        BY <2>2 DEF Left
      <4>3. recovery'[n] = state
        BY <2>4, <3>1
      <4> QED
        BY <1>4, <2>3, <4>1, <4>2, <4>3 DEF Sound
    <3>2. CASE n # p.model
      <4>1. recovery'[n] = recovery[n] /\ Sound(recovery[n])
        BY <2>4, <3>2 DEF RecoveryInv
      <4>2. \A c \in 1 .. rounds : c \in 1 .. rounds'
        BY <1>1, <1>2
      <4> QED
        BY <1>2, <4>1, <4>2 DEF Sound
    <3> QED
      BY <3>1, <3>2
  <2>9. \A n \in Sources : recovery[n] # Unset => recovery[n].cycle \in 1 .. rounds
    BY DEF RecoveryInv, Sound
  <2>10. ASSUME NEW m \in Sources, NEW n \in Sources, recovery'[m] # Unset, recovery'[n] # Unset,
                recovery'[m].cycle = recovery'[n].cycle
         PROVE  m = n
    <3>1. CASE m # p.model /\ n # p.model
      BY <2>4, <2>10, <3>1 DEF RecoveryInv, Has
    <3>2. CASE m = p.model /\ n # p.model
      BY <1>1, <2>3, <2>4, <2>9, <2>10, <3>2
    <3>3. CASE m # p.model /\ n = p.model
      BY <1>1, <2>3, <2>4, <2>9, <2>10, <3>3
    <3> QED
      BY <3>1, <3>2, <3>3
  <2>11. ASSUME NEW q \in RecoveryRequests PROVE PlannedIn(answering[q])'
    <3>1. CASE answering'[q].downgraded = TRUE
      <4>1. answering'[q] = answering[q]
        BY <1>2, <3>1, EndedPlan
      <4>2. answering[q].cycle \in 1 .. rounds
            /\ \A m \in Sources : recovery[m] # Unset /\ recovery[m].cycle = answering[q].cycle => m = answering[q].model
        BY <3>1, <4>1, OnePlan DEF PlannedIn, Has
      <4>3. answering[q].cycle \in 1 .. rounds' /\ answering[q].cycle # rounds + 1
        BY <1>1, <1>2, <4>2
      <4> QED
        BY <2>3, <2>4, <4>1, <4>2, <4>3 DEF PlannedIn, Has
    <3> QED
      BY <3>1 DEF PlannedIn
  <2> QED
    BY <1>1, <1>2, <2>6, <2>7, <2>8, <2>10, <2>11 DEF RecoveryInv, Has
<1>6. CASE p.model \notin Sources
  <2>1. recovery' = recovery
    BY <1>1, <1>2, <1>6
  <2>2. RecoveryTypes'
    <3>1. answering' \in [RecoveryRequests -> Plans]
      BY <1>2, EndedPlan
    <3>2. rounds' \in Nat /\ history' \in Nat /\ keepable' \in TargetBodies \cup {Unset}
      BY <1>1, <1>2
    <3> QED
      BY <1>1, <1>2, <2>1, <3>1, <3>2 DEF RecoveryTypes
  <2>3. rounds' <= MaxRounds /\ \A c \in Cycles : c > rounds' => ended'[c] = 0
    BY <1>1, <1>2, RecoveryAssumption DEF RecoveryInv, Cycles
  <2>4. \A c \in 1 .. rounds : c \in 1 .. rounds'
    BY <1>1, <1>2
  <2>5. \A n \in Sources : Sound(recovery[n])'
    BY <1>2, <2>1, <2>4 DEF Sound, RecoveryInv
  <2>6. ASSUME NEW q \in RecoveryRequests PROVE PlannedIn(answering[q])'
    <3>1. CASE answering'[q].downgraded = TRUE
      <4>1. answering'[q] = answering[q]
        BY <1>2, <3>1, EndedPlan
      <4> QED
        BY ZenonT(30), <2>1, <2>4, <4>1, OnePlan DEF PlannedIn, Has
    <3> QED
      BY <3>1 DEF PlannedIn
  <2> QED
    BY SMTT(30), <1>1, <1>2, <2>1, <2>2, <2>3, <2>5, <2>6 DEF RecoveryInv, Has
<1> QED
  BY <1>5, <1>6

\* The standby's response counts for the round of its request, if the source is
\* still in it, and for no other.
LEMMA StandbyKeeps ==
  ASSUME RecoveryInv, NEW r \in RecoveryRequests, CompleteStandby(r)
  PROVE  RecoveryInv'
<1> DEFINE p == answering[r]
           old == recovery[p.model]
           less == old.remaining - 1
           counted == [old EXCEPT !.remaining = less]
<1>1. /\ recovery \in [Sources -> RoundStates \cup {Unset}] /\ rounds \in Nat /\ rounds <= MaxRounds
      /\ answering \in [RecoveryRequests -> Plans] /\ ended \in [Cycles -> Nat]
  BY DEF RecoveryInv, RecoveryTypes
<1>2. /\ recovery' = IF IsCurrent(p) /\ old.remaining > 0 THEN [recovery EXCEPT ![p.model] = counted] ELSE recovery
      /\ ended' = [ended EXCEPT ![p.cycle] = ended[p.cycle] + 1]
      /\ Ends(r) /\ UNCHANGED <<history, rounds, keepable, strayed>> /\ p.downgraded = TRUE
  BY <1>1 DEF CompleteStandby, Plans
<1>3. p \in Plans /\ p.cycle \in 1 .. rounds
      /\ \A m \in Sources : recovery[m] # Unset /\ recovery[m].cycle = p.cycle => m = p.model
  BY <1>2, OnePlan DEF PlannedIn, Has
<1>4. /\ p.cycle \in Cycles /\ ended[p.cycle] \in Nat /\ ended' \in [Cycles -> Nat]
      /\ ended'[p.cycle] = ended[p.cycle] + 1
      /\ \A c \in Cycles : c # p.cycle => ended'[c] = ended[c]
  <2>1. p.cycle \in Cycles
    BY <1>1, <1>3, RoundsAreCycles
  <2> HIDE DEF p
  <2> QED
    BY <1>1, <1>2, <2>1
<1>5. ASSUME NEW m \in Sources
      PROVE  /\ recovery'[m] \in RoundStates \cup {Unset}
             /\ recovery'[m] # Unset => recovery[m] # Unset /\ recovery'[m].cycle = recovery[m].cycle
             /\ Sound(recovery[m])'
  <2>1. CASE m = p.model /\ IsCurrent(p) /\ old.remaining > 0
    <3>1. old \in RoundStates /\ old # Unset /\ Sound(old) /\ old.cycle = p.cycle
      BY <2>1, OneRound DEF IsCurrent, Has
    <3>2. less \in Nat
      BY <2>1, <3>1 DEF RoundStates
    <3>3. recovery'[m] = counted
      BY <1>1, <1>2, <2>1
    <3> HIDE DEF less
    <3>4. /\ counted \in RoundStates /\ counted.remaining = less /\ counted.cycle = old.cycle
          /\ counted.refusals = old.refusals /\ counted.kept = old.kept /\ counted.account = old.account
      BY <3>1, <3>2 DEF RoundStates
    <3> HIDE DEF counted
    <3>5. old.refusals \in Nat /\ Granted(old.refusals) \in Nat /\ old.remaining \in Nat
      BY <3>1, GrantedType DEF RoundStates
    <3>6. old.remaining = Left(Granted(old.refusals), ended[p.cycle])
      BY <3>1 DEF Sound
    <3>7. less = Left(Granted(old.refusals), ended'[p.cycle])
      BY <1>4, <2>1, <3>5, <3>6 DEF Left, less
    <3> QED
      BY SMTT(30), <1>2, <1>3, <3>1, <3>3, <3>4, <3>7 DEF Sound
  <2>2. CASE m = p.model /\ IsCurrent(p) /\ ~(old.remaining > 0)
    <3>1. old \in RoundStates /\ old # Unset /\ Sound(old) /\ old.cycle = p.cycle
      BY <2>2, OneRound DEF IsCurrent, Has
    <3>2. recovery'[m] = old
      BY <1>1, <1>2, <2>2
    <3>3. old.refusals \in Nat /\ Granted(old.refusals) \in Nat /\ old.remaining \in Nat
      BY <3>1, GrantedType DEF RoundStates
    <3>4. old.remaining = Left(Granted(old.refusals), ended[p.cycle])
      BY <3>1 DEF Sound
    <3>5. old.remaining = Left(Granted(old.refusals), ended'[p.cycle])
      BY <1>4, <2>2, <3>3, <3>4 DEF Left
    <3>7. recovery[m] = old
      BY <2>2
    <3> HIDE DEF old
    <3>6. old.cycle \in 1 .. rounds' /\ old.remaining = Left(Granted(old.refusals), ended'[old.cycle])
          /\ (old.kept # Unset => old.kept.account = old.account)
      BY <1>2, <1>3, <3>1, <3>5 DEF Sound
    <3> QED
      BY <3>1, <3>2, <3>6, <3>7 DEF Sound
  <2>3. CASE ~(m = p.model /\ IsCurrent(p))
    <3>1. recovery'[m] = recovery[m] /\ Sound(recovery[m])
      BY <1>1, <1>2, <2>3 DEF RecoveryInv
    <3>2. ASSUME recovery[m] # Unset PROVE recovery[m].cycle \in Cycles /\ recovery[m].cycle # p.cycle
      <4>1. recovery[m].cycle \in 1 .. rounds
        BY <3>1, <3>2 DEF Sound
      <4>2. recovery[m].cycle # p.cycle
        BY <1>3, <2>3, <3>2 DEF IsCurrent, Has
      <4> QED
        BY <1>1, <4>1, <4>2, RoundsAreCycles
    <3>3. ASSUME recovery[m] # Unset PROVE ended'[recovery[m].cycle] = ended[recovery[m].cycle]
      BY <1>4, <3>2, <3>3
    <3> QED
      BY <1>1, <1>2, <3>1, <3>3 DEF Sound
  <2> QED
    BY <2>1, <2>2, <2>3
<1>6. recovery' \in [Sources -> RoundStates \cup {Unset}]
  BY <1>1, <1>2, <1>5
<1>7. RecoveryTypes'
  <2>1. answering' \in [RecoveryRequests -> Plans]
    BY <1>2, EndedPlan
  <2> QED
    BY <1>2, <1>4, <1>6, <2>1 DEF RecoveryTypes, RecoveryInv
<1>8. \A c \in Cycles : c > rounds' => ended'[c] = 0
  BY <1>1, <1>2, <1>3, <1>4 DEF RecoveryInv, Cycles
<1>9. ASSUME NEW q \in RecoveryRequests PROVE PlannedIn(answering[q])'
  <2>1. CASE answering'[q].downgraded = TRUE
    <3>1. answering'[q] = answering[q]
      BY <1>2, <2>1, EndedPlan
    <3>2. answering[q].cycle \in 1 .. rounds'
          /\ \A m \in Sources : recovery[m] # Unset /\ recovery[m].cycle = answering[q].cycle => m = answering[q].model
      BY <1>2, <2>1, <3>1, OnePlan DEF PlannedIn, Has
    <3>3. \A m \in Sources : recovery'[m] # Unset => recovery[m] # Unset /\ recovery'[m].cycle = recovery[m].cycle
      BY <1>5
    <3> HIDE DEF p, old
    <3> QED
      BY <3>1, <3>2, <3>3 DEF PlannedIn, Has
  <2> QED
    BY <2>1 DEF PlannedIn
<1> QED
  BY <1>1, <1>2, <1>5, <1>7, <1>8, <1>9 DEF RecoveryInv, Has

LEMMA RecoveryInvInit == RecoveryInit => RecoveryInv
<1> SUFFICES ASSUME RecoveryInit PROVE RecoveryInv
  OBVIOUS
<1>1. RecoveryTypes
  BY NoPlanType DEF RecoveryInit, RecoveryTypes, Cycles
<1>2. rounds <= MaxRounds /\ strayed = {} /\ \A c \in Cycles : ended[c] = 0
  BY RecoveryAssumption DEF RecoveryInit, Cycles
<1>3. \A m \in Sources : recovery[m] = Unset
  BY DEF RecoveryInit
<1>4. \A r \in RecoveryRequests : answering[r] = NoPlan
  BY DEF RecoveryInit
<1> QED
  BY <1>1, <1>2, <1>3, <1>4, NoPlanType DEF RecoveryInv, Sound, PlannedIn, Has

LEMMA RecoveryInvStep == RecoveryInv /\ [RecoveryNext]_recoveryVars => RecoveryInv'
<1> SUFFICES ASSUME RecoveryInv, [RecoveryNext]_recoveryVars PROVE RecoveryInv'
  OBVIOUS
<1>1. CASE UNCHANGED recoveryVars
  BY <1>1 DEF recoveryVars, RecoveryInv, RecoveryTypes, Sound, PlannedIn, Has
<1>2. ASSUME NEW r \in RecoveryRequests, NEW m \in Sources, PlanRequest(r, m) PROVE RecoveryInv'
  BY <1>2, PlanKeeps
<1>3. ASSUME NEW r \in RecoveryRequests, NEW a \in RecoveryOAuth, SendRequest(r, a) PROVE RecoveryInv'
  BY <1>3, SendKeeps
<1>4. ASSUME NEW r \in RecoveryRequests,
             \/ AcceptRequest(r) \/ RefuseSource(r) \/ CompleteSource(r) \/ CompleteStandby(r)
             \/ FailRequest(r) \/ AskAgain(r)
      PROVE  RecoveryInv'
  BY <1>4, AcceptKeeps, RefuseKeeps, OverKeeps, StandbyKeeps
<1>5. ASSUME NEW m \in Sources, DropTarget(m) \/ ValidateWarm(m) \/ SendWarm(m) \/ WarmRefused(m)
      PROVE  RecoveryInv'
  BY <1>5, StillKeeps, ValidateKeeps, WarmKeeps
<1> QED
  BY <1>1, <1>2, <1>3, <1>4, <1>5, StillKeeps, TrackKeeps DEF RecoveryNext

THEOREM RecoveryInvariant == RecoverySpec => []RecoveryInv
BY RecoveryInvInit, RecoveryInvStep, PTL DEF RecoverySpec

\* RoundCountsItsOwn: whatever ends late, what is left of a round is what its
\* own responses left of it.
THEOREM RoundsCountTheirOwn == RecoverySpec => []RoundCountsItsOwn
<1>1. RecoveryInv => RoundCountsItsOwn
  BY DEF RecoveryInv, RoundCountsItsOwn, Sound, Left, Has
<1> QED
  BY <1>1, RecoveryInvariant, PTL

\* WarmedWhereItServes: no warm is sent on another account than its round's.
THEOREM WarmsDoNotStray == RecoverySpec => []WarmedWhereItServes
<1>1. RecoveryInv => WarmedWhereItServes
  BY DEF RecoveryInv, WarmedWhereItServes
<1> QED
  BY <1>1, RecoveryInvariant, PTL

---------------------------------------------------------------------------
(* RequestRounds.                                                          *)

RoundPlaces == {"new", "sending", "deciding", "moving", "trying", "asking", "done"}
HostAnswers == {"none", "open", "cancelled"}
Whys == {"none"} \cup Refusals
Thens == {"none", "main", "perhaps main", "never main", "nothing"}
RouteOrNowhere == RoundAccounts \cup {Nowhere}
RoundRecords ==
  [at : RoundPlaces, on : RouteOrNowhere, queue : SUBSET RoundAccounts, then : Thens,
   answer : HostAnswers, why : Whys, choice : RouteOrNowhere \cup {"keep"}]
Tallies == [turn : Nat, account : RouteOrNowhere, n : Nat]

Sticky == routing.mode = "sticky-balanced"

RoundsTypes ==
  /\ retries \in Tallies
  /\ round \in [RoundRequests -> RoundRecords]
  /\ unconfirmed \in [Turns -> [RoundAccounts -> Nat]]

\* The count is no more than the host was asked to wait for.
Waited ==
  retries.n > 0 =>
    /\ retries.turn \in Turns /\ retries.account \in RoundAccounts
    /\ retries.n <= unconfirmed[retries.turn][retries.account]

\* Where a request may be in its mode, and what it may answer from there.
Orderly(r, q) ==
  /\ q.at \in {"sending", "deciding", "moving"} => q.on \in RoundAccounts /\ Sticky
  /\ q.at \in {"trying", "asking"} => ~Sticky
  /\ q.at = "moving" /\ q.why = "limited" => unconfirmed[TurnOf[r]][q.on] >= MaxUnconfirmed
  /\ q.at \in {"new", "asking"} => q.answer = "none"
  /\ ~Sticky /\ routing.vault # TRUE =>
       /\ q.at = "trying" /\ q.answer = "cancelled" => q.queue # {} \/ q.then = "main"
       /\ q.at = "done" => q.answer # "cancelled"

RoundsInv ==
  /\ routing.vault \in BOOLEAN
  /\ RoundsTypes
  /\ Waited
  /\ \A r \in RoundRequests : Orderly(r, round[r])

LEMMA SameAccounts ==
  ASSUME UNCHANGED routing
  PROVE  /\ RoundAccounts' = RoundAccounts /\ RouteOrNowhere' = RouteOrNowhere
         /\ RoundRecords' = RoundRecords /\ Tallies' = Tallies
BY DEF RoundAccounts, RouteOrNowhere, RoundRecords, Tallies

LEMMA RoundValues ==
  /\ \A place \in {"new", "sending", "deciding", "moving", "trying", "asking", "done"} : place \in RoundPlaces
  /\ \A answer \in {"none", "open", "cancelled"} : answer \in HostAnswers
  /\ \A why \in {"none", "confirmed", "limited", "forbidden", "rejected"} : why \in Whys
  /\ \A then \in {"none", "main", "perhaps main", "never main", "nothing"} : then \in Thens
BY DEF RoundPlaces, HostAnswers, Whys, Thens, Refusals

LEMMA OneRequest ==
  ASSUME RoundsInv, NEW r \in RoundRequests
  PROVE  round[r] \in RoundRecords /\ Orderly(r, round[r]) /\ TurnOf[r] \in Turns /\ TurnOf[r] \in Nat
BY RoundsAssumption DEF RoundsInv, RoundsTypes, Turns

LEMMA NoRetriesType == NoRetries \in Tallies /\ NoRetries.n = 0
BY DEF NoRetries, Tallies, RouteOrNowhere

LEMMA NewRoundType ==
  /\ NewRound \in RoundRecords /\ NewRound.at = "new" /\ NewRound.answer = "none"
  /\ \A answer \in HostAnswers :
       LET q == [NewRound EXCEPT !.at = "done", !.answer = answer]
       IN  q \in RoundRecords /\ q.at = "done" /\ q.answer = answer
<1>1. NewRound \in RoundRecords /\ NewRound.at = "new" /\ NewRound.answer = "none"
  BY RoundValues DEF NewRound, RoundRecords, RouteOrNowhere
<1>2. ASSUME NEW answer \in HostAnswers
      PROVE  LET q == [NewRound EXCEPT !.at = "done", !.answer = answer]
             IN  q \in RoundRecords /\ q.at = "done" /\ q.answer = answer
  BY <1>1, RoundValues DEF RoundRecords
<1> QED
  BY <1>1, <1>2

\* A step of one request keeps the invariant if it does for that request and
\* the count stands or starts afresh.
LEMMA RequestMoves ==
  ASSUME RoundsInv, UNCHANGED <<routing, unconfirmed>>, NEW r \in RoundRequests, NEW q \in RoundRecords,
         Orderly(r, q), round' = [round EXCEPT ![r] = q], retries' \in {retries, NoRetries}
  PROVE  RoundsInv'
<1>1. RoundsTypes'
  <2>1. retries' \in Tallies /\ round' \in [RoundRequests -> RoundRecords]
    BY NoRetriesType DEF RoundsInv, RoundsTypes
  <2> QED
    BY <2>1, SameAccounts DEF RoundsInv, RoundsTypes
<1>2. Waited'
  BY SameAccounts, NoRetriesType DEF RoundsInv, Waited
<1>3. \A x \in RoundRequests : round'[x] = IF x = r THEN q ELSE round[x]
  BY DEF RoundsInv, RoundsTypes
<1>4. ASSUME NEW x \in RoundRequests PROVE Orderly(x, round[x])'
  <2>1. CASE x = r
    <3>1. round'[x] = q
      BY <1>3, <2>1
    <3> QED
      BY <2>1, <3>1, SameAccounts DEF Orderly, Sticky
  <2>2. CASE x # r
    <3>1. round'[x] = round[x] /\ Orderly(x, round[x])
      BY <1>3, <2>2 DEF RoundsInv
    <3> QED
      BY <3>1, SameAccounts DEF Orderly, Sticky
  <2> QED
    BY <2>1, <2>2
<1> QED
  BY <1>1, <1>2, <1>4 DEF RoundsInv

LEMMA AnswersKeep ==
  ASSUME RoundsInv, UNCHANGED <<routing, unconfirmed>>, NEW r \in RoundRequests, NEW q, NEW answer \in HostAnswers,
         Answers(r, q, answer), retries' \in {retries, NoRetries},
         answer = "cancelled" => Sticky \/ routing.vault = TRUE
  PROVE  RoundsInv'
<1> DEFINE over == [NewRound EXCEPT !.at = "done", !.answer = answer]
<1>1. over \in RoundRecords /\ over.at = "done" /\ over.answer = answer /\ round' = [round EXCEPT ![r] = over]
  BY NewRoundType DEF Answers
<1> HIDE DEF over
<1>2. Orderly(r, over)
  BY <1>1 DEF Orderly
<1> QED
  BY <1>1, <1>2, RequestMoves

LEMMA ThrowsKeep ==
  ASSUME RoundsInv, UNCHANGED <<routing, unconfirmed>>, NEW r \in RoundRequests,
         Throws(r), retries' \in {retries, NoRetries}
  PROVE  RoundsInv'
<1> DEFINE over == [NewRound EXCEPT !.at = "done"]
<1>1. over \in RoundRecords /\ over.at = "done" /\ over.answer = "none" /\ round' = [round EXCEPT ![r] = over]
  BY NewRoundType, RoundValues DEF Throws, RoundRecords
<1> HIDE DEF over
<1>2. Orderly(r, over)
  BY <1>1 DEF Orderly
<1> QED
  BY <1>1, <1>2, RequestMoves

---------------------------------------------------------------------------
(* Sticky-balanced routing.                                                *)

LEMMA RoutesAreAccounts ==
  ASSUME NEW v \in Views, NEW excluded, NEW a, a \in Taken(v, excluded) \/ a \in Advised(v.seen)
  PROVE  a \in RoundAccounts
<1>1. v.kept \subseteq RoundAccounts
  BY DEF Views, MayKeep
<1>2. \A seen : Candidates(seen) \subseteq RoundAccounts
  BY DEF Candidates
<1> QED
  BY <1>1, <1>2 DEF Taken, Resolved, Selected, Advised

LEMMA RoutedType ==
  ASSUME RoundsInv, NEW q \in RoundRecords, NEW a \in RoundAccounts
  PROVE  /\ Routed(q, a) \in RoundRecords /\ Routed(q, a).at = "sending" /\ Routed(q, a).on = a
         /\ [Routed(q, a) EXCEPT !.answer = "cancelled"] \in RoundRecords
         /\ [Routed(q, a) EXCEPT !.answer = "cancelled"].at = "sending"
         /\ [Routed(q, a) EXCEPT !.answer = "cancelled"].on = a
<1> DEFINE c == IF a = pin THEN "keep" ELSE a
<1>1. a \in RouteOrNowhere /\ c \in RouteOrNowhere \cup {"keep"}
  BY DEF RouteOrNowhere
<1> HIDE DEF c
<1>2. Routed(q, a) = [q EXCEPT !.at = "sending", !.on = a, !.choice = c]
  BY DEF Routed, c
<1>3. Routed(q, a) \in RoundRecords /\ Routed(q, a).at = "sending" /\ Routed(q, a).on = a
  BY <1>1, <1>2, RoundValues DEF RoundRecords
<1> QED
  BY <1>3, RoundValues DEF RoundRecords

LEMMA RouteKeeps ==
  ASSUME RoundsInv, NEW r \in RoundRequests, ChooseRoute(r)
  PROVE  RoundsInv'
<1>1. PICK v \in Views : \E x \in Taken(v, {}) \cup Advised(v.seen) :
        round' = [round EXCEPT ![r] = Routed(round[r], x)] /\ retries' = Recount(x)
  BY DEF ChooseRoute
<1>2. PICK a \in Taken(v, {}) \cup Advised(v.seen) :
        round' = [round EXCEPT ![r] = Routed(round[r], a)] /\ retries' = Recount(a)
  BY <1>1
<1>3. a \in RoundAccounts /\ Sticky
  BY RoutesAreAccounts DEF ChooseRoute, Begins, Sticky
<1>4. Routed(round[r], a) \in RoundRecords /\ Orderly(r, Routed(round[r], a))
  BY ZenonT(30), <1>3, OneRequest, RoutedType DEF Orderly
<1> QED
  BY <1>2, <1>4, RequestMoves DEF ChooseRoute, Recount

LEMMA HoldKeeps ==
  ASSUME RoundsInv, NEW r \in RoundRequests, HoldFirst(r) \/ NoRoute(r) \/ SendServed(r) \/ Fail(r)
  PROVE  RoundsInv'
<1>1. "open" \in HostAnswers
  BY RoundValues
<1> QED
  BY <1>1, AnswersKeep, ThrowsKeep DEF HoldFirst, NoRoute, SendServed, Fail

LEMMA RefusedKeeps ==
  ASSUME RoundsInv, NEW r \in RoundRequests, NEW why \in Refusals, SendRefused(r, why)
  PROVE  RoundsInv'
<1> DEFINE q == [round[r] EXCEPT !.at = "deciding", !.why = why, !.answer = "open"]
<1>1. round[r] \in RoundRecords /\ round[r].on \in RoundAccounts /\ Sticky /\ why \in Whys
  BY OneRequest DEF SendRefused, RoundAt, Orderly, Whys
<1>2. q \in RoundRecords /\ q.at = "deciding" /\ q.on = round[r].on
  BY <1>1, RoundValues DEF RoundRecords
<1>3. Orderly(r, q)
  BY <1>1, <1>2 DEF Orderly
<1>4. \/ round' = [round EXCEPT ![r] = q]
      \/ Answers(r, q, "open")
  BY DEF SendRefused
<1>5. UNCHANGED <<routing, retries, unconfirmed>> /\ "open" \in HostAnswers
  BY RoundValues DEF SendRefused
<1> HIDE DEF q
<1> QED
  BY <1>2, <1>3, <1>4, <1>5, RequestMoves, AnswersKeep

LEMMA LeaveKeeps ==
  ASSUME RoundsInv, NEW r \in RoundRequests, LeaveRefused(r) \/ LeaveSpent(r)
  PROVE  RoundsInv'
<1> DEFINE q == round[r]
           refused == [q EXCEPT !.at = "moving"]
           spent == [q EXCEPT !.at = "moving", !.why = "confirmed"]
<1>1. q \in RoundRecords /\ q.on \in RoundAccounts /\ Sticky
  BY OneRequest DEF LeaveRefused, LeaveSpent, RoundAt, Orderly
<1>2. /\ refused \in RoundRecords /\ refused.at = "moving" /\ refused.on = q.on /\ refused.why = q.why
      /\ spent \in RoundRecords /\ spent.at = "moving" /\ spent.on = q.on /\ spent.why = "confirmed"
  BY <1>1, RoundValues DEF RoundRecords
<1>3. UNCHANGED <<routing, retries, unconfirmed>> /\ "open" \in HostAnswers
  BY RoundValues DEF LeaveRefused, LeaveSpent
<1>4. CASE LeaveRefused(r)
  <2>1. q.why # "limited" /\ (round' = [round EXCEPT ![r] = refused] \/ Throws(r))
    BY <1>1, <1>4 DEF LeaveRefused, Goes
  <2> HIDE DEF refused
  <2>2. Orderly(r, refused)
    BY <1>1, <1>2, <2>1 DEF Orderly
  <2> QED
    BY <1>2, <1>3, <2>1, <2>2, RequestMoves, ThrowsKeep
<1>5. CASE LeaveSpent(r)
  <2>1. round' = [round EXCEPT ![r] = spent] \/ Answers(r, q, "open")
    BY <1>1, <1>5 DEF LeaveSpent
  <2> HIDE DEF spent
  <2>2. Orderly(r, spent)
    BY <1>1, <1>2 DEF Orderly
  <2> QED
    BY <1>2, <1>3, <2>1, <2>2, RequestMoves, AnswersKeep
<1> QED
  BY <1>4, <1>5

\* A limit nobody confirmed: the wait is asked for and counted, or the session
\* was asked to wait for this account in this turn often enough.
LEMMA RetainKeeps ==
  ASSUME RoundsInv, NEW r \in RoundRequests, RetainOrLeave(r)
  PROVE  RoundsInv'
<1> DEFINE a == round[r].on
           turn == TurnOf[r]
           count == Count(turn, a)
           more == [count EXCEPT !.n = count.n + 1]
           moved == [round[r] EXCEPT !.at = "moving"]
<1>1. /\ round[r] \in RoundRecords /\ a \in RoundAccounts /\ Sticky /\ turn \in Turns /\ turn \in Nat
      /\ Orderly(r, round[r])
  BY OneRequest DEF RetainOrLeave, RoundAt, Orderly
<1>2. /\ retries \in Tallies /\ round \in [RoundRequests -> RoundRecords]
      /\ unconfirmed \in [Turns -> [RoundAccounts -> Nat]] /\ Waited
  BY DEF RoundsInv, RoundsTypes
<1>3. count \in Tallies /\ count.turn = turn /\ count.account = a /\ count.n <= unconfirmed[turn][a]
  <2>1. unconfirmed[turn][a] \in Nat
    BY <1>1, <1>2
  <2>2. CASE retries.turn = turn /\ retries.account = a
    <3>1. count = retries
      BY <2>2 DEF Count
    <3> QED
      BY <1>2, <2>1, <2>2, <3>1 DEF Waited, Tallies
  <2>3. CASE ~(retries.turn = turn /\ retries.account = a)
    <3>1. count = [turn |-> turn, account |-> a, n |-> 0]
      BY <2>3 DEF Count
    <3> QED
      BY <1>1, <2>1, <3>1 DEF Tallies, RouteOrNowhere
  <2> QED
    BY <2>2, <2>3
<1>4. CASE count.n < MaxUnconfirmed
  <2> DEFINE counted == [unconfirmed EXCEPT ![turn][a] = unconfirmed[turn][a] + 1]
             over == [NewRound EXCEPT !.at = "done", !.answer = "open"]
  <2>1. retries' = more /\ unconfirmed' = counted /\ round' = [round EXCEPT ![r] = over] /\ UNCHANGED routing
    BY <1>4 DEF RetainOrLeave, Answers
  <2>2. more \in Tallies /\ more.turn = turn /\ more.account = a /\ more.n = count.n + 1
    BY <1>3 DEF Tallies
  <2>3. /\ counted \in [Turns -> [RoundAccounts -> Nat]]
        /\ counted[turn][a] = unconfirmed[turn][a] + 1
        /\ \A t \in Turns, b \in RoundAccounts : counted[t][b] >= unconfirmed[t][b]
    BY <1>1, <1>2
  <2>4. over \in RoundRecords /\ over.at = "done" /\ over.answer = "open"
    BY NewRoundType, RoundValues
  <2> HIDE DEF more, counted, over
  <2>5. \A x \in RoundRequests : round'[x] = IF x = r THEN over ELSE round[x]
    BY <1>2, <2>1
  <2>6. RoundsTypes'
    <3>1. retries' \in Tallies /\ round' \in [RoundRequests -> RoundRecords]
          /\ unconfirmed' \in [Turns -> [RoundAccounts -> Nat]]
      BY <1>2, <2>1, <2>2, <2>3, <2>4
    <3> QED
      BY <2>1, <3>1, SameAccounts DEF RoundsTypes
  <2>7. Waited'
    <3>1. retries'.turn \in Turns /\ retries'.account \in RoundAccounts'
      BY <1>1, <2>1, <2>2, SameAccounts
    <3>2. retries'.n <= unconfirmed'[retries'.turn][retries'.account]
      <4>1. unconfirmed[turn][a] \in Nat /\ count.n \in Nat
        BY <1>1, <1>2, <1>3 DEF Tallies
      <4>2. retries'.turn = turn /\ retries'.account = a /\ retries'.n = count.n + 1
        BY <2>1, <2>2
      <4>3. unconfirmed'[turn][a] = unconfirmed[turn][a] + 1
        BY <2>1, <2>3
      <4> HIDE DEF a, turn, count
      <4> QED
        BY <1>3, <4>1, <4>2, <4>3
    <3> QED
      BY <3>1, <3>2 DEF Waited
  <2>8. ASSUME NEW x \in RoundRequests PROVE Orderly(x, round[x])'
    <3>1. CASE x = r
      <4>1. round'[x] = over
        BY <2>5, <3>1
      <4> QED
        BY <2>4, <4>1 DEF Orderly
    <3>2. CASE x # r
      <4>1. round'[x] = round[x] /\ Orderly(x, round[x]) /\ TurnOf[x] \in Turns
        BY <2>5, <3>2, OneRequest
      <4>2. round[x].on \in RoundAccounts =>
              /\ unconfirmed[TurnOf[x]][round[x].on] \in Nat
              /\ unconfirmed'[TurnOf[x]][round[x].on] \in Nat
              /\ unconfirmed'[TurnOf[x]][round[x].on] >= unconfirmed[TurnOf[x]][round[x].on]
        BY <1>2, <2>1, <2>3, <4>1
      <4>3. round[x].at = "moving" /\ round[x].why = "limited" => unconfirmed'[TurnOf[x]][round[x].on] >= MaxUnconfirmed
        BY <4>1, <4>2 DEF Orderly, MaxUnconfirmed
      <4> QED
        BY <2>1, <4>1, <4>3, SameAccounts DEF Orderly, Sticky
    <3> QED
      BY <3>1, <3>2
  <2>9. (routing.vault \in BOOLEAN)'
    BY <2>1 DEF RoundsInv
  <2> QED
    BY <2>6, <2>7, <2>8, <2>9 DEF RoundsInv
<1>5. CASE ~(count.n < MaxUnconfirmed)
  <2>1. retries' = count /\ round' = [round EXCEPT ![r] = moved] /\ UNCHANGED <<routing, unconfirmed>>
    BY <1>5 DEF RetainOrLeave, Goes
  <2>2. count = retries
    BY <1>5 DEF Count, MaxUnconfirmed
  <2>3. moved \in RoundRecords /\ moved.at = "moving" /\ moved.on = a
    BY <1>1, RoundValues DEF RoundRecords
  <2>4. unconfirmed[turn][a] >= MaxUnconfirmed
    <3>1. unconfirmed[turn][a] \in Nat /\ count.n \in Nat
      BY <1>1, <1>2, <1>3 DEF Tallies
    <3> HIDE DEF a, turn, count
    <3> QED
      BY <1>3, <1>5, <3>1 DEF MaxUnconfirmed
  <2> HIDE DEF moved
  <2>5. Orderly(r, moved)
    BY <1>1, <2>3, <2>4 DEF Orderly
  <2> QED
    BY <2>1, <2>2, <2>3, <2>5, RequestMoves
<1> QED
  BY <1>4, <1>5

LEMMA MoveKeeps ==
  ASSUME RoundsInv, NEW r \in RoundRequests, MoveOn(r)
  PROVE  RoundsInv'
<1> DEFINE q == round[r]
<1>1. q \in RoundRecords /\ Sticky /\ UNCHANGED <<routing, unconfirmed>>
      /\ "open" \in HostAnswers /\ "cancelled" \in HostAnswers
  BY OneRequest, RoundValues DEF MoveOn, RoundAt, Orderly
<1>2. CASE Answers(r, Unrouted(q), "cancelled") /\ UNCHANGED retries
  BY <1>1, <1>2, AnswersKeep
<1>3. CASE Answers(r, q, "open") /\ retries' \in {retries, NoRetries}
  BY <1>1, <1>3, AnswersKeep
<1>4. ASSUME NEW v \in Views, NEW a \in Taken(v, {q.on}),
             round' = [round EXCEPT ![r] = [Routed(q, a) EXCEPT !.answer = "cancelled"]], retries' = NoRetries
      PROVE  RoundsInv'
  <2> DEFINE routed == [Routed(q, a) EXCEPT !.answer = "cancelled"]
  <2>1. a \in RoundAccounts
    BY <1>4, RoutesAreAccounts
  <2>2. routed \in RoundRecords /\ routed.at = "sending" /\ routed.on = a
    BY <1>1, <2>1, RoutedType
  <2> HIDE DEF routed
  <2>3. Orderly(r, routed)
    BY <1>1, <2>1, <2>2 DEF Orderly
  <2> QED
    BY <1>1, <1>4, <2>2, <2>3, RequestMoves DEF routed
<1> QED
  BY <1>2, <1>3, <1>4 DEF MoveOn

LEMMA IdleKeeps ==
  ASSUME RoundsInv, SessionIdle
  PROVE  RoundsInv'
<1>1. RoundsTypes' /\ Waited'
  BY SameAccounts, NoRetriesType DEF SessionIdle, RoundsInv, RoundsTypes, Waited
<1>2. \A x \in RoundRequests : Orderly(x, round[x])'
  BY SameAccounts DEF SessionIdle, RoundsInv, Orderly, Sticky
<1> QED
  BY <1>1, <1>2 DEF SessionIdle, RoundsInv

---------------------------------------------------------------------------
(* The ordered modes.                                                      *)

LEMMA SelectsType ==
  ASSUME NEW q \in RoundRecords, NEW then \in Thens, NEW s \in Selects(q, then)
  PROVE  s \in RoundRecords /\ s.at = "trying" /\ s.answer = q.answer /\ s.then = then
<1>1. PICK usable \in SUBSET (RoundAccounts \ ({Main} \cup revoked)) :
        s = [q EXCEPT !.at = "trying", !.queue = usable, !.then = then]
  BY DEF Selects
<1>2. usable \in SUBSET RoundAccounts
  OBVIOUS
<1> QED
  BY <1>1, <1>2, RoundValues DEF RoundRecords

LEMMA OrderKeeps ==
  ASSUME RoundsInv, NEW r \in RoundRequests, Order(r) \/ SkipMain(r)
  PROVE  RoundsInv'
<1> DEFINE q == round[r]
           asking == [q EXCEPT !.at = "asking"]
<1>1. q \in RoundRecords /\ q.answer = "none" /\ ~Sticky
  BY OneRequest DEF Order, SkipMain, MayBegin, RoundAt, Orderly, Sticky
<1>2. UNCHANGED <<routing, retries, unconfirmed>>
  BY DEF Order, SkipMain
<1>3. asking \in RoundRecords /\ asking.at = "asking" /\ asking.answer = "none"
  BY <1>1, RoundValues DEF RoundRecords
<1>4. "main" \in Thens /\ "perhaps main" \in Thens /\ "never main" \in Thens
  BY RoundValues
<1>5. \/ round' = [round EXCEPT ![r] = asking]
      \/ \E then \in Thens : \E s \in Selects(q, then) : round' = [round EXCEPT ![r] = s]
  BY <1>4 DEF Order, SkipMain
<1> HIDE DEF asking
<1>6. CASE round' = [round EXCEPT ![r] = asking]
  <2>1. Orderly(r, asking)
    BY <1>1, <1>3 DEF Orderly
  <2> QED
    BY <1>2, <1>3, <1>6, <2>1, RequestMoves
<1>7. ASSUME NEW then \in Thens, NEW s \in Selects(q, then), round' = [round EXCEPT ![r] = s]
      PROVE  RoundsInv'
  <2>1. s \in RoundRecords /\ s.at = "trying" /\ s.answer = "none"
    BY <1>1, SelectsType
  <2>2. Orderly(r, s)
    BY <1>1, <2>1 DEF Orderly
  <2> QED
    BY <1>2, <1>7, <2>1, <2>2, RequestMoves
<1> QED
  BY <1>5, <1>6, <1>7

LEMMA AskMainKeeps ==
  ASSUME RoundsInv, NEW r \in RoundRequests, AskMain(r)
  PROVE  RoundsInv'
<1>1. round[r] \in RoundRecords /\ ~Sticky
  BY OneRequest DEF AskMain, RoundAt, Orderly
<1>2. UNCHANGED <<routing, retries, unconfirmed>> /\ "open" \in HostAnswers /\ "nothing" \in Thens
  BY RoundValues DEF AskMain
<1>3. CASE Answers(r, round[r], "open")
  BY <1>2, <1>3, AnswersKeep
<1>4. ASSUME NEW s \in Selects(round[r], "nothing"), round' = [round EXCEPT ![r] = [s EXCEPT !.answer = "open"]]
      PROVE  RoundsInv'
  <2> DEFINE q == [s EXCEPT !.answer = "open"]
  <2>1. s \in RoundRecords /\ s.at = "trying"
    BY <1>1, <1>2, SelectsType
  <2>2. q \in RoundRecords /\ q.at = "trying" /\ q.answer = "open"
    BY <1>2, <2>1 DEF RoundRecords
  <2> HIDE DEF q
  <2>3. Orderly(r, q)
    BY <1>1, <2>2 DEF Orderly
  <2> QED
    BY <1>2, <1>4, <2>2, <2>3, RequestMoves DEF q
<1> QED
  BY <1>3, <1>4 DEF AskMain

\* A refusal is given up only where an account is left to ask.
LEMMA TryKeeps ==
  ASSUME RoundsInv, NEW r \in RoundRequests, TryFallback(r)
  PROVE  RoundsInv'
<1> DEFINE rest == After(round[r].queue)
           answer == Kept(round[r])
           q == [round[r] EXCEPT !.queue = rest, !.answer = answer]
<1>1. round[r] \in RoundRecords /\ ~Sticky /\ round[r].at = "trying"
  BY OneRequest DEF TryFallback, RoundAt, Orderly
<1>2. UNCHANGED <<routing, retries, unconfirmed>> /\ "open" \in HostAnswers
  BY RoundValues DEF TryFallback
<1>3. rest \in SUBSET RoundAccounts
  BY <1>1 DEF RoundRecords, After
<1>4. answer \in HostAnswers /\ (answer = "cancelled" => rest # {} \/ round[r].then = "main")
  BY RoundValues DEF Kept
<1>5. Answers(r, round[r], "open") \/ round' = [round EXCEPT ![r] = q]
  BY DEF TryFallback
<1> HIDE DEF rest, answer
<1>6. q \in RoundRecords /\ q.at = "trying" /\ q.queue = rest /\ q.answer = answer /\ q.then = round[r].then
  BY <1>1, <1>3, <1>4 DEF RoundRecords
<1> HIDE DEF q
<1>7. Orderly(r, q)
  BY <1>1, <1>4, <1>6 DEF Orderly
<1> QED
  BY <1>2, <1>5, <1>6, <1>7, RequestMoves, AnswersKeep

LEMMA PassKeeps ==
  ASSUME RoundsInv, NEW r \in RoundRequests, PassOver(r)
  PROVE  RoundsInv'
<1> DEFINE rest == After(round[r].queue)
           q == [round[r] EXCEPT !.queue = rest]
<1>1. round[r] \in RoundRecords /\ ~Sticky /\ round[r].at = "trying" /\ routing.vault = TRUE
  BY OneRequest DEF PassOver, RoundAt, Orderly, RoundsInv
<1>2. UNCHANGED <<routing, retries, unconfirmed>> /\ round' = [round EXCEPT ![r] = q]
  BY DEF PassOver
<1>3. rest \in SUBSET RoundAccounts
  BY <1>1 DEF RoundRecords, After
<1> HIDE DEF rest
<1>4. q \in RoundRecords /\ q.at = "trying"
  BY <1>1, <1>3 DEF RoundRecords
<1> HIDE DEF q
<1>5. Orderly(r, q)
  BY <1>1, <1>4 DEF Orderly
<1> QED
  BY <1>2, <1>4, <1>5, RequestMoves

LEMMA AheadKeeps ==
  ASSUME RoundsInv, NEW r \in RoundRequests, ThrownAhead(r) \/ NoFallbackLeft(r)
  PROVE  RoundsInv'
<1> DEFINE q == [round[r] EXCEPT !.at = "asking", !.answer = "none"]
           last == IF round[r].answer = "none" THEN "open" ELSE round[r].answer
<1>1. round[r] \in RoundRecords /\ ~Sticky /\ round[r].at = "trying" /\ Orderly(r, round[r])
  BY OneRequest DEF ThrownAhead, NoFallbackLeft, RoundAt, Orderly
<1>2. UNCHANGED <<routing, retries, unconfirmed>>
  BY DEF ThrownAhead, NoFallbackLeft
<1>3. q \in RoundRecords /\ q.at = "asking" /\ q.answer = "none"
  BY <1>1, RoundValues DEF RoundRecords
<1>4. \/ round' = [round EXCEPT ![r] = q]
      \/ Answers(r, round[r], last) /\ round[r].queue = {} /\ round[r].then # "main"
  BY DEF ThrownAhead, NoFallbackLeft
<1>5. last \in HostAnswers /\ (last = "cancelled" => round[r].answer = "cancelled")
  BY <1>1, RoundValues DEF RoundRecords
<1> HIDE DEF q, last
<1>6. CASE round' = [round EXCEPT ![r] = q]
  <2>1. Orderly(r, q)
    BY <1>1, <1>3 DEF Orderly
  <2> QED
    BY <1>2, <1>3, <1>6, <2>1, RequestMoves
<1>7. CASE Answers(r, round[r], last) /\ round[r].queue = {} /\ round[r].then # "main"
  <2>1. last = "cancelled" => routing.vault = TRUE
    BY <1>1, <1>5, <1>7 DEF Orderly
  <2> QED
    BY <1>2, <1>5, <1>7, <2>1, AnswersKeep
<1> QED
  BY <1>4, <1>6, <1>7

---------------------------------------------------------------------------

LEMMA RoundsInvInit == RoundsInit => RoundsInv
<1> SUFFICES ASSUME RoundsInit PROVE RoundsInv
  OBVIOUS
<1>1. retries.n = 0 /\ retries \in Tallies /\ routing.vault \in BOOLEAN
  BY NoRetriesType DEF RoundsInit
<1>2. \A r \in RoundRequests : round[r] = NewRound
  BY DEF RoundsInit
<1>3. RoundsTypes
  BY <1>1, NewRoundType DEF RoundsInit, RoundsTypes
<1>4. \A r \in RoundRequests : Orderly(r, round[r])
  BY <1>2, NewRoundType DEF Orderly
<1> QED
  BY <1>1, <1>3, <1>4 DEF RoundsInv, Waited

LEMMA RoundsInvStep == RoundsInv /\ [RoundsNext]_roundVars => RoundsInv'
<1> SUFFICES ASSUME RoundsInv, [RoundsNext]_roundVars PROVE RoundsInv'
  OBVIOUS
<1>1. CASE UNCHANGED roundVars
  <2>1. UNCHANGED <<routing, retries, round, unconfirmed>>
    BY <1>1 DEF roundVars
  <2>2. RoundsTypes' /\ Waited'
    BY <2>1, SameAccounts DEF RoundsInv, RoundsTypes, Waited
  <2>3. \A x \in RoundRequests : Orderly(x, round[x])'
    BY <2>1, SameAccounts DEF RoundsInv, Orderly, Sticky
  <2> QED
    BY <2>1, <2>2, <2>3 DEF RoundsInv
<1>2. ASSUME NEW r \in RoundRequests,
             \/ ChooseRoute(r) \/ HoldFirst(r) \/ NoRoute(r) \/ SendServed(r) \/ \E why \in Refusals : SendRefused(r, why)
             \/ LeaveRefused(r) \/ LeaveSpent(r) \/ RetainOrLeave(r) \/ MoveOn(r) \/ Fail(r)
      PROVE  RoundsInv'
  BY <1>2, RouteKeeps, HoldKeeps, RefusedKeeps, LeaveKeeps, RetainKeeps, MoveKeeps
<1>3. ASSUME NEW r \in RoundRequests,
             \/ Order(r) \/ SkipMain(r) \/ AskMain(r) \/ TryFallback(r) \/ PassOver(r) \/ ThrownAhead(r)
             \/ NoFallbackLeft(r)
      PROVE  RoundsInv'
  BY <1>3, OrderKeeps, AskMainKeeps, TryKeeps, PassKeeps, AheadKeeps
<1> QED
  BY <1>1, <1>2, <1>3, IdleKeeps DEF RoundsNext

THEOREM RoundsInvariant == RoundsSpec => []RoundsInv
BY RoundsInvInit, RoundsInvStep, PTL DEF RoundsSpec

\* MovesAreEarned: however the session's requests share its count, one leaves
\* its account for an unconfirmed limit only after the waits of its own turn.
THEOREM MovesEarned == RoundsSpec => []MovesAreEarned
<1>1. RoundsInv => MovesAreEarned
  BY DEF RoundsInv, MovesAreEarned, Orderly, RoundAt
<1> QED
  BY <1>1, RoundsInvariant, PTL

\* AnswerIsReadable: in the ordered modes a local host is never answered with
\* a refusal that was given up.
THEOREM AnswersReadable == RoundsSpec => []AnswerIsReadable
<1>1. RoundsInv => AnswerIsReadable
  BY DEF RoundsInv, AnswerIsReadable, Orderly, RoundAt, Sticky
<1> QED
  BY <1>1, RoundsInvariant, PTL
=============================================================================
