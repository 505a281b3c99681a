------------------------ MODULE CredentialTokenProofs ------------------------
(***************************************************************************)
(* What becomes of an account's credentials, for every number of rows, calls *)
(* and processes and every set of accounts, attempts and disturbances:       *)
(*   ErrorsFollow            an error is of the credential the row holds     *)
(*   DeadIsDead              and "dead" is said of a revoked one only        *)
(*   MovesForward            a refresh never puts an older credential back   *)
(*   ServedIsTheAccounts     a call is served the token of its account       *)
(*   NothingRejectedIsServed and never one its caller saw rejected           *)
(*   SuccessorsAreKept       what the provider gave for a consumed token is  *)
(*                           not lost, whatever the job meets                *)
(* Each is read off an inductive invariant: TokenInv (numbers), ServedInv    *)
(* (what calls were handed), OwnInv (whose tokens they are), KeptInv (who    *)
(* still holds the successor of a consumed token).                           *)
(***************************************************************************)
EXTENDS CredentialRefreshProofs

-----------------------------------------------------------------------------
(* What the numbers say: a token that is known was minted, one that the       *)
(* provider no longer accepts stays so, and a successor is newer than what it *)
(* replaces.                                                                   *)

Using == {"lookup", "handoff", "commit"}
KnownJob(j) ==
  /\ j.row.acc <= minted /\ j.row.ref <= minted
  /\ j.succ.acc <= minted /\ j.succ.ref <= minted
JobTokens(c) ==
  /\ KnownJob(job[c])
  /\ jpc[c] \in Using => job[c].row.acc < job[c].succ.acc
  /\ jpc[c] = "failed" /\ job[c].fail = "invalid" => job[c].row.ref \notin live
ErrorTrue(m) ==
  /\ m.err.kind # "none" => m.err.gen = m.clears
  /\ m.err.ref <= minted
  /\ m.err.kind = "dead" => m.err.ref \notin live
KnownRow(row) == row.acc <= minted /\ row.ref <= minted
TokenInv ==
  /\ \A r \in Row : KnownRow(pool[r]) /\ ErrorTrue(meta[r])
  /\ \A c \in Caller : JobTokens(c)

\* Only what is minted now can become acceptable.
DeadStays ==
  /\ minted \in Nat /\ minted' \in Nat /\ minted <= minted'
  /\ \A n \in Token : n <= minted /\ n \notin live => n \notin live'

LEMMA TokensAreNumbers ==
  ASSUME TypeOK
  PROVE  /\ minted \in Nat /\ Token \subseteq Nat
         /\ \A r \in Row : pool[r].acc \in Token /\ pool[r].ref \in Token /\ meta[r].err.ref \in Token
BY MetadataConstantsOK DEF TypeOK, ProviderOK, StoreOK, PoolRow, Entry, RefreshError, Token

LEMMA NothingNew ==
  ASSUME TypeOK, UNCHANGED <<minted, live>>
  PROVE  DeadStays
BY TokensAreNumbers DEF DeadStays

LEMMA MintDeadStays ==
  ASSUME TypeOK, minted' = minted + 1, NEW ref,
         live' \in {live, (live \ {ref}) \cup {minted + 1}, live \cup {minted + 1}}
  PROVE  DeadStays
BY TokensAreNumbers DEF DeadStays

LEMMA KnownStays ==
  ASSUME TypeOK, DeadStays, NEW n \in Token, n <= minted
  PROVE  n <= minted' /\ (n \notin live => n \notin live')
BY TokensAreNumbers DEF DeadStays

LEMMA ErrorsStay ==
  ASSUME TypeOK, DeadStays, NEW m \in Entry, ErrorTrue(m)
  PROVE  /\ m.err.kind # "none" => m.err.gen = m.clears
         /\ m.err.ref <= minted'
         /\ m.err.kind = "dead" => m.err.ref \notin live'
<1>1. m.err.ref \in Token
  BY DEF Entry, RefreshError
<1> QED
  BY <1>1, KnownStays DEF ErrorTrue

-----------------------------------------------------------------------------
(* Entries.                                                                    *)

\* What the writers make of an entry whose error is true.
LEMMA WritersKeepErrors ==
  ASSUME TypeOK, NEW m \in Entry, ErrorTrue(m), NEW ctx \in Context, NEW b \in Request
  PROVE  /\ \A ref \in Token, kind \in {"backoff", "dead"} :
              ContextHolds(m, ctx, b) /\ ref <= minted /\ (kind = "dead" => ref \notin live) =>
                ErrorTrue(WithError(m, ctx, b, ref, kind))
         /\ \A mat : ErrorTrue(WithRetry(m, b, mat))
         /\ \A i, mat : ErrorTrue(WithEvidence(m, ctx, b, i, mat))
         /\ ErrorTrue(WithUnsupported(m, b))
         /\ ErrorTrue(WithReset(m))
         /\ \A row : ErrorTrue(EmptyEntry(row))
         /\ m.err.kind = "backoff" => ErrorTrue([m EXCEPT !.err = [@ EXCEPT !.kind = "elapsed"]])
         /\ ErrorTrue([m EXCEPT !.retry = [@ EXCEPT !.due = TRUE]])
<1>1. minted \in Nat /\ m.clears \in Nat /\ m.err \in RefreshError
  BY TokensAreNumbers DEF Entry
<1>2. NoError.kind = "none" /\ NoError.ref = 0
  BY DEF NoError
<1>3. ASSUME NEW ref \in Token, NEW kind \in {"backoff", "dead"}, ContextHolds(m, ctx, b), ref <= minted,
             kind = "dead" => ref \notin live
      PROVE  ErrorTrue(WithError(m, ctx, b, ref, kind))
  <2> DEFINE e == WithError(m, ctx, b, ref, kind)
  <2>1. e.err = [kind |-> kind, ref |-> ref, gen |-> ctx.clears] /\ e.clears = m.clears
    BY DEF WithError, Entry
  <2>2. m.clears = ctx.clears
    BY <1>3 DEF ContextHolds
  <2> HIDE DEF e
  <2>3. ErrorTrue(e)
    BY <1>3, <2>1, <2>2 DEF ErrorTrue
  <2> QED
    BY <2>3 DEF e
<1>4. ASSUME NEW mat
      PROVE  WithRetry(m, b, mat).err = m.err /\ WithRetry(m, b, mat).clears = m.clears
  BY DEF WithRetry, Entry
<1>5. ASSUME NEW i, NEW mat
      PROVE  ErrorTrue(WithEvidence(m, ctx, b, i, mat))
  <2> DEFINE e == WithEvidence(m, ctx, b, i, mat)
  <2>1. \/ e.err = NoError
        \/ e.err = m.err /\ e.clears = m.clears
    BY DEF WithEvidence, Entry
  <2> HIDE DEF e
  <2>2. ErrorTrue(e)
    BY <1>1, <1>2, <2>1 DEF ErrorTrue
  <2> QED
    BY <2>2 DEF e
<1>6. ErrorTrue(WithUnsupported(m, b))
  <2> DEFINE e == WithUnsupported(m, b)
  <2>1. \/ e.err = NoError
        \/ e.err = m.err /\ e.clears = m.clears
    BY DEF WithUnsupported, Entry
  <2> HIDE DEF e
  <2>2. ErrorTrue(e)
    BY <1>1, <1>2, <2>1 DEF ErrorTrue
  <2> QED
    BY <2>2 DEF e
<1>7. WithReset(m).err = NoError /\ \A row : EmptyEntry(row).err = NoError
  BY DEF WithReset, EmptyEntry, NoEntry, Entry
<1>8. ASSUME m.err.kind = "backoff"
      PROVE  ErrorTrue([m EXCEPT !.err = [@ EXCEPT !.kind = "elapsed"]])
  <2> DEFINE x == [m.err EXCEPT !.kind = "elapsed"]
             e == [m EXCEPT !.err = x]
  <2>1. x.kind = "elapsed" /\ x.ref = m.err.ref /\ x.gen = m.err.gen
    BY <1>1 DEF RefreshError
  <2> HIDE DEF x
  <2>2. e.err = x /\ e.clears = m.clears
    BY DEF Entry
  <2> HIDE DEF e
  <2>3. ErrorTrue(e)
    BY <1>8, <2>1, <2>2 DEF ErrorTrue
  <2> QED
    BY <2>3 DEF e, x
<1>9. ErrorTrue([m EXCEPT !.retry = [@ EXCEPT !.due = TRUE]])
  <2> DEFINE e == [m EXCEPT !.retry = [m.retry EXCEPT !.due = TRUE]]
  <2>1. e.err = m.err /\ e.clears = m.clears
    BY DEF Entry
  <2>2. ErrorTrue(e)
    BY <2>1 DEF ErrorTrue
  <2> QED
    BY <2>2
<1>10. \A mat : ErrorTrue(WithRetry(m, b, mat))
  BY <1>4 DEF ErrorTrue
<1>11. ErrorTrue(WithReset(m)) /\ \A row : ErrorTrue(EmptyEntry(row))
  BY <1>1, <1>2, <1>7 DEF ErrorTrue
<1> QED
  BY <1>3, <1>5, <1>6, <1>8, <1>9, <1>10, <1>11

-----------------------------------------------------------------------------
(* Jobs.                                                                       *)

\* A step of one job that keeps what it knows, or forgets it.
LEMMA KeptTokens ==
  ASSUME TypeOK, TokenInv, DeadStays, NEW c \in Caller,
         job'[c].row \in {job[c].row, pool[job[c].req.row], NoRow},
         job'[c].succ \in {job[c].succ, NoMaterial},
         jpc'[c] \in Using => jpc[c] \in Using /\ job'[c].row = job[c].row /\ job'[c].succ = job[c].succ,
         jpc'[c] = "failed" /\ job'[c].fail = "invalid" =>
           jpc[c] = "failed" /\ job[c].fail = "invalid" /\ job'[c].row = job[c].row
  PROVE  JobTokens(c)'
<1>1. JobTokens(c) /\ KnownRow(pool[job[c].req.row])
  BY JobFields DEF TypeOK, TokenInv
<1>2. NoRow.acc = 0 /\ NoRow.ref = 0 /\ NoMaterial.acc = 0 /\ NoMaterial.ref = 0
  BY DEF NoRow, NoMaterial
<1>3. /\ job[c].row.acc \in Token /\ job[c].row.ref \in Token
      /\ job[c].succ.acc \in Token /\ job[c].succ.ref \in Token /\ job[c].req.row \in Row
      /\ pool[job[c].req.row].acc \in Token /\ pool[job[c].req.row].ref \in Token
  BY JobFields, TokensAreNumbers DEF TypeOK
<1>4. minted' \in Nat
  BY DEF DeadStays
<1>5. KnownJob(job[c])'
  BY <1>1, <1>2, <1>3, <1>4, KnownStays DEF JobTokens, KnownJob, KnownRow
<1>6. jpc'[c] \in Using => job'[c].row.acc < job'[c].succ.acc
  BY <1>1 DEF JobTokens
<1>7. jpc'[c] = "failed" /\ job'[c].fail = "invalid" => job'[c].row.ref \notin live'
  BY <1>1, <1>3, KnownStays DEF JobTokens, KnownJob
<1> QED
  BY <1>5, <1>6, <1>7 DEF JobTokens

LEMMA OthersTokens ==
  ASSUME TypeOK, TokenInv, DeadStays, NEW c \in Caller, OthersStay(c), JobTokens(c)'
  PROVE  \A d \in Caller : JobTokens(d)'
<1> SUFFICES ASSUME NEW d \in Caller, d # c
             PROVE  JobTokens(d)'
  OBVIOUS
<1>1. jpc'[d] = jpc[d] /\ job'[d] = job[d]
  BY DEF OthersStay
<1> QED
  BY <1>1, KeptTokens

LEMMA SettleForgets ==
  ASSUME JobsOK, NEW c \in Caller, NEW result, Settle(c, result)
  PROVE  OthersStay(c) /\ jpc'[c] = "settled" /\ job'[c].row = NoRow /\ job'[c].succ = NoMaterial
<1>1. job'[c] = [NoJob EXCEPT !.result = result, !.learned = job[c].learned]
  BY DEF Settle, JobsOK
<1> QED
  BY <1>1, SettleMoves DEF NoJob

\* A job that settles, or goes on with the row it captures.
LEMMA SettleTokens ==
  ASSUME TypeOK, TokenInv, DeadStays, NEW c \in Caller, NEW result, Settle(c, result)
  PROVE  \A d \in Caller : JobTokens(d)'
<1>1. OthersStay(c) /\ jpc'[c] = "settled" /\ job'[c].row = NoRow /\ job'[c].succ = NoMaterial
  BY SettleForgets DEF TypeOK
<1> QED
  BY <1>1, KeptTokens, OthersTokens DEF Using

LEMMA GoOnTokens ==
  ASSUME TypeOK, TokenInv, DeadStays, NEW c \in Caller, NEW pc, Goto(c, pc),
         pc \notin Using, pc # "failed",
         \/ job' = job
         \/ job' = [job EXCEPT ![c].row = pool[job[c].req.row]]
         \/ \E x : job' = [job EXCEPT ![c].ctx = x]
  PROVE  \A d \in Caller : JobTokens(d)'
<1>1. JobsOK
  BY DEF TypeOK
<1>2. jpc'[c] = pc /\ \A d \in Caller \ {c} : jpc'[d] = jpc[d]
  BY <1>1, GotoMoves
<1>3. /\ \A d \in Caller \ {c} : job'[d] = job[d]
      /\ job'[c].row \in {job[c].row, pool[job[c].req.row]} /\ job'[c].succ = job[c].succ
  BY <1>1 DEF JobsOK, Job
<1>4. OthersStay(c)
  BY <1>2, <1>3 DEF OthersStay
<1> QED
  BY <1>2, <1>3, <1>4, KeptTokens, OthersTokens

LEMMA FailTokens ==
  ASSUME TypeOK, TokenInv, DeadStays, NEW c \in Caller, NEW kind, Goto(c, "failed"),
         job' = [job EXCEPT ![c].fail = kind],
         kind = "invalid" => job[c].row.ref \notin live
  PROVE  \A d \in Caller : JobTokens(d)'
<1>1. JobsOK
  BY DEF TypeOK
<1>2. jpc'[c] = "failed" /\ \A d \in Caller \ {c} : jpc'[d] = jpc[d]
  BY <1>1, GotoMoves
<1>3. /\ \A d \in Caller \ {c} : job'[d] = job[d]
      /\ job'[c].row = job[c].row /\ job'[c].succ = job[c].succ /\ job'[c].fail = kind
  BY <1>1 DEF JobsOK, Job
<1>4. OthersStay(c)
  BY <1>2, <1>3 DEF OthersStay
<1>5. JobTokens(c) /\ job[c].row.ref \in Token
  BY <1>1, JobFields DEF TokenInv
<1>6. CASE kind = "invalid"
  <2>1. job[c].row.ref \notin live'
    BY <1>5, <1>6, KnownStays DEF JobTokens, KnownJob
  <2>2. KnownJob(job[c])'
    <3>1. /\ job[c].row.acc \in Token /\ job[c].succ.acc \in Token /\ job[c].succ.ref \in Token
      BY <1>1, JobFields
    <3> QED
      BY <1>3, <1>5, <3>1, KnownStays DEF JobTokens, KnownJob
  <2>3. JobTokens(c)'
    BY <1>2, <1>3, <2>1, <2>2 DEF JobTokens, Using
  <2> QED
    BY <1>4, <2>3, OthersTokens
<1>7. CASE kind # "invalid"
  BY <1>2, <1>3, <1>4, <1>7, KeptTokens, OthersTokens DEF Using
<1> QED
  BY <1>6, <1>7

-----------------------------------------------------------------------------
(* The files.                                                                  *)

LEMMA StoredStays ==
  ASSUME TypeOK, TokenInv, DeadStays, meta' = meta,
         \A r \in Row : \/ pool'[r].acc = pool[r].acc /\ pool'[r].ref = pool[r].ref
                        \/ pool'[r].acc <= minted' /\ pool'[r].ref <= minted'
  PROVE  \A r \in Row : KnownRow(pool[r])' /\ ErrorTrue(meta[r])'
<1> SUFFICES ASSUME NEW r \in Row
             PROVE  KnownRow(pool[r])' /\ ErrorTrue(meta[r])'
  OBVIOUS
<1>1. /\ KnownRow(pool[r]) /\ ErrorTrue(meta[r]) /\ meta[r] \in Entry
      /\ pool[r].acc \in Token /\ pool[r].ref \in Token
  BY TokensAreNumbers DEF TokenInv, TypeOK, StoreOK
<1>2. KnownRow(pool[r])'
  BY <1>1, KnownStays DEF KnownRow
<1>3. ErrorTrue(meta[r])'
  BY <1>1, ErrorsStay DEF ErrorTrue
<1> QED
  BY <1>2, <1>3

LEMMA FilesStay ==
  ASSUME TypeOK, TokenInv, DeadStays, UNCHANGED <<pool, meta>>, \A d \in Caller : JobTokens(d)'
  PROVE  TokenInv'
<1>1. \A r \in Row : pool'[r].acc = pool[r].acc /\ pool'[r].ref = pool[r].ref
  OBVIOUS
<1>2. \A r \in Row : KnownRow(pool[r])' /\ ErrorTrue(meta[r])'
  BY <1>1, StoredStays
<1> QED
  BY <1>2 DEF TokenInv

LEMMA EntryWritten ==
  ASSUME TypeOK, TokenInv, UNCHANGED <<pool, minted, live>>, NEW r \in Row, NEW e, ErrorTrue(e),
         meta' = [meta EXCEPT ![r] = e]
  PROVE  \A q \in Row : KnownRow(pool[q])' /\ ErrorTrue(meta[q])'
<1> SUFFICES ASSUME NEW q \in Row
             PROVE  KnownRow(pool[q])' /\ ErrorTrue(meta[q])'
  OBVIOUS
<1>1. KnownRow(pool[q]) /\ ErrorTrue(meta[q])
  BY DEF TokenInv
<1>2. meta'[q] = meta[q] \/ meta'[q] = e
  BY DEF TypeOK, StoreOK
<1> QED
  BY <1>1, <1>2 DEF KnownRow, ErrorTrue

-----------------------------------------------------------------------------
(* The steps of a job.                                                         *)

LEMMA SurveyTokens ==
  ASSUME TypeOK, TokenInv, NEW c \in Caller,
         \/ SurveyRow(c) \/ SurveyPolicy(c) \/ Adopt(c) \/ ValidateAccess(c)
         \/ LockRow(c) \/ LockProvider(c) \/ LockTimeout(c) \/ RecheckPolicy(c)
  PROVE  TokenInv'
<1>1. UNCHANGED <<pool, meta, minted, live>>
  BY DEF SurveyRow, SurveyPolicy, Adopt, ValidateAccess, LockRow, LockProvider, LockTimeout,
     RecheckPolicy, JobUnchanged, storeVars, providerVars
<1>2. DeadStays
  BY <1>1, NothingNew
<1>3. \A d \in Caller : JobTokens(d)'
  <2>1. CASE \E result : Settle(c, result)
    BY <1>2, <2>1, SettleTokens
  <2>2. CASE \E pc \in {"policy", "adopt", "validate", "proof", "rowlock", "provlock", "recheck",
                       "exchange"} :
             /\ Goto(c, pc)
             /\ \/ job' = job
                \/ job' = [job EXCEPT ![c].row = pool[job[c].req.row]]
                \/ \E x : job' = [job EXCEPT ![c].ctx = x]
    BY <1>2, <2>2, GoOnTokens DEF Using
  <2>3. CASE Goto(c, "failed") /\ job' = [job EXCEPT ![c].fail = "validation"]
    BY <1>2, <2>3, FailTokens
  <2>4. CASE SurveyRow(c)
    BY <2>1, <2>2, <2>4 DEF SurveyRow
  <2>5. CASE SurveyPolicy(c)
    BY <2>1, <2>2, <2>5 DEF SurveyPolicy
  <2>6. CASE Adopt(c)
    BY <2>1, <2>2, <2>6 DEF Adopt
  <2>7. CASE ValidateAccess(c)
    BY <2>1, <2>2, <2>3, <2>7 DEF ValidateAccess
  <2>8. CASE LockRow(c) \/ LockProvider(c)
    BY <2>1, <2>2, <2>8 DEF LockRow, LockProvider
  <2>9. CASE LockTimeout(c) \/ RecheckPolicy(c)
    BY <2>1, <2>2, <2>9 DEF LockTimeout, RecheckPolicy
  <2> QED
    BY <2>4, <2>5, <2>6, <2>7, <2>8, <2>9
<1> QED
  BY <1>1, <1>2, <1>3, FilesStay

LEMMA ExchangeTokens ==
  ASSUME TypeOK, TokenInv, NEW c \in Caller,
         ExchangeSucceeds(c) \/ ExchangeFails(c) \/ ExchangeLost(c)
  PROVE  TokenInv'
<1>1. JobsOK /\ UNCHANGED <<pool, meta>>
  BY DEF TypeOK, ExchangeSucceeds, ExchangeFails, ExchangeLost, JobUnchanged, storeVars
<1>2. /\ job[c].row.acc \in Token /\ job[c].row.ref \in Token /\ JobTokens(c)
      /\ minted \in Nat /\ Token \subseteq Nat
  BY <1>1, JobFields, TokensAreNumbers DEF TokenInv
<1>3. CASE ExchangeSucceeds(c)
  <2> DEFINE ref == job[c].row.ref
  <2>1. PICK keep \in BOOLEAN :
          /\ minted' = minted + 1 /\ live' = Redeemed(ref, keep)
          /\ job' = [job EXCEPT ![c].succ = Minted(ref, keep)]
    BY <1>3 DEF ExchangeSucceeds, Possible, Mint
  <2>2. DeadStays
    <3>1. live' \in {live, (live \ {ref}) \cup {minted + 1}, live \cup {minted + 1}}
      BY <2>1 DEF Redeemed
    <3> HIDE DEF ref
    <3> QED
      BY <2>1, <3>1, MintDeadStays
  <2>3. jpc'[c] = "lookup" /\ \A d \in Caller \ {c} : jpc'[d] = jpc[d]
    BY <1>1, <1>3, GotoMoves DEF ExchangeSucceeds
  <2>4. /\ \A d \in Caller \ {c} : job'[d] = job[d]
        /\ job'[c].row = job[c].row /\ job'[c].succ = Minted(ref, keep)
    BY <1>1, <2>1 DEF JobsOK, Job
  <2>5. Minted(ref, keep).acc = minted + 1 /\ Minted(ref, keep).ref \in {ref, minted + 1}
    BY DEF Minted
  <2>6. JobTokens(c)'
    BY <1>2, <2>1, <2>3, <2>4, <2>5 DEF JobTokens, KnownJob
  <2>7. \A d \in Caller : JobTokens(d)'
    BY <2>2, <2>3, <2>4, <2>6, OthersTokens DEF OthersStay
  <2> QED
    BY <1>1, <2>2, <2>7, FilesStay
<1>4. CASE ExchangeFails(c)
  <2>1. DeadStays
    BY <1>4, NothingNew DEF ExchangeFails, JobUnchanged, providerVars
  <2>2. PICK kind : /\ Goto(c, "failed") /\ job' = [job EXCEPT ![c].fail = kind]
                    /\ kind = "invalid" => job[c].row.ref \notin live
    BY <1>4 DEF ExchangeFails, ExchangeEnds
  <2>3. \A d \in Caller : JobTokens(d)'
    BY <2>1, <2>2, FailTokens
  <2> QED
    BY <1>1, <2>1, <2>3, FilesStay
<1>5. CASE ExchangeLost(c)
  <2>1. DeadStays
    BY <1>2, <1>5 DEF ExchangeLost, DeadStays
  <2>2. Goto(c, "failed") /\ job' = [job EXCEPT ![c].fail = "transient"]
    BY <1>5 DEF ExchangeLost, ExchangeEnds
  <2>3. \A d \in Caller : JobTokens(d)'
    BY <2>1, <2>2, FailTokens
  <2> QED
    BY <1>1, <2>1, <2>3, FilesStay
<1> QED
  BY <1>3, <1>4, <1>5

LEMMA SuccessorTokens ==
  ASSUME TypeOK, TokenInv, NEW c \in Caller,
         \/ LookupSuccessor(c) \/ AcquireHandoff(c) \/ HandoffTimeout(c)
         \/ NoticeHandoffLoss(c) \/ Abort(c)
  PROVE  TokenInv'
<1>1. JobsOK /\ UNCHANGED <<pool, meta, minted, live>>
  BY DEF TypeOK, LookupSuccessor, AcquireHandoff, HandoffTimeout, NoticeHandoffLoss, Abort,
     JobUnchanged, storeVars, providerVars
<1>2. DeadStays
  BY <1>1, NothingNew
<1>3. CASE LookupSuccessor(c)
  <2>1. OthersStay(c)
    BY <1>1, <1>3, GotoMoves DEF LookupSuccessor, OthersStay, JobsOK
  <2>2. jpc[c] = "lookup" /\ jpc'[c] \in {"handoff", "commit"}
    BY <1>1, <1>3, GotoMoves DEF LookupSuccessor, JobsOK
  <2>3. job'[c].row = job[c].row /\ job'[c].succ = job[c].succ
    BY <1>1, <1>3 DEF LookupSuccessor, JobsOK, Job
  <2>4. JobTokens(c)'
    BY <1>2, <2>2, <2>3, KeptTokens DEF Using
  <2> QED
    BY <1>1, <1>2, <2>1, <2>4, OthersTokens, FilesStay
<1>4. CASE AcquireHandoff(c) \/ HandoffTimeout(c) \/ NoticeHandoffLoss(c) \/ Abort(c)
  <2>1. OthersStay(c)
    BY <1>1, <1>4, SkipHandoffMoves
       DEF AcquireHandoff, HandoffTimeout, NoticeHandoffLoss, Abort, OthersStay, JobsOK
  <2>2. \/ jpc'[c] = jpc[c]
        \/ jpc[c] = "handoff" /\ jpc'[c] = "commit"
    BY <1>1, <1>4 DEF AcquireHandoff, HandoffTimeout, NoticeHandoffLoss, Abort, JobsOK
  <2>3. job'[c].row = job[c].row /\ job'[c].succ = job[c].succ /\ job'[c].fail = job[c].fail
    <3>1. CASE SkipHandoff(c)
      BY <1>1, <3>1 DEF SkipHandoff, JobsOK, Job
    <3>2. CASE ~SkipHandoff(c)
      BY <1>1, <1>4, <3>2
         DEF AcquireHandoff, HandoffTimeout, NoticeHandoffLoss, Abort, JobsOK, Job
    <3> QED
      BY <3>1, <3>2
  <2>4. JobTokens(c)'
    BY <1>2, <2>2, <2>3, KeptTokens DEF Using
  <2> QED
    BY <1>1, <1>2, <2>1, <2>4, OthersTokens, FilesStay
<1> QED
  BY <1>3, <1>4

\* What the write of a successor leaves in every row.
LEMMA SuccessorFields ==
  ASSUME TypeOK, NEW c \in Caller, NEW q \in Row, NEW new,
         \/ new = WithSuccessor(c)[q]
         \/ new = Quarantined(c)[q]
  PROVE  /\ new.epoch = pool[q].epoch
         /\ \/ new.acc = pool[q].acc /\ new.ref = pool[q].ref /\ new.ident = pool[q].ident
            \/ /\ q = job[c].req.row /\ new.acc = job[c].succ.acc /\ new.ref = job[c].succ.ref
               /\ job[c].req.ident # NoId => new.ident \in {pool[q].ident, job[c].req.ident}
<1> DEFINE b == job[c].req
           ident == IF b.ident = NoId THEN job[c].learned ELSE b.ident
           same == {p \in Row : p = b.row \/ (ident # NoId /\ pool[p].ident = ident)}
           row(p) == IF p = b.row
                       THEN [pool[p] EXCEPT !.ident = ident, !.acc = job[c].succ.acc,
                                            !.ref = job[c].succ.ref]
                       ELSE pool[p]
           old == row(q)
<1>1. pool[q] \in PoolRow
  BY DEF TypeOK, StoreOK
<1>2. CASE new = WithSuccessor(c)[q]
  <2>1. new = [old EXCEPT !.on = @ /\ ~(q \in same /\ \E p \in same : p < q)]
    BY <1>2 DEF WithSuccessor
  <2>2. /\ old \in [epoch : {old.epoch}, ident : {old.ident}, acc : {old.acc}, ref : {old.ref},
                    on : {old.on}]
        /\ old.epoch = pool[q].epoch
    BY <1>1 DEF PoolRow
  <2>3. \/ old.acc = pool[q].acc /\ old.ref = pool[q].ref /\ old.ident = pool[q].ident
        \/ /\ q = b.row /\ old.acc = job[c].succ.acc /\ old.ref = job[c].succ.ref
           /\ old.ident = ident
    BY <1>1 DEF PoolRow
  <2> HIDE DEF old, same, row
  <2>4. new.epoch = old.epoch /\ new.acc = old.acc /\ new.ref = old.ref /\ new.ident = old.ident
    BY <2>1, <2>2
  <2> QED
    BY <2>2, <2>3, <2>4
<1>3. CASE new = Quarantined(c)[q]
  <2>1. \/ q # b.row /\ new = pool[q]
        \/ /\ q = b.row
           /\ new = [pool[q] EXCEPT !.acc = job[c].succ.acc, !.ref = job[c].succ.ref, !.on = FALSE]
    BY <1>3 DEF Quarantined, TypeOK, StoreOK
  <2> QED
    BY <1>1, <2>1 DEF PoolRow
<1> QED
  BY <1>2, <1>3

LEMMA CommitTokens ==
  ASSUME TypeOK, TokenInv, NEW c \in Caller, Commit(c) \/ CommitFails(c)
  PROVE  TokenInv'
<1>1. JobsOK /\ UNCHANGED <<meta, minted, live>> /\ jpc[c] = "commit"
  BY DEF TypeOK, Commit, CommitFails, storeVars, providerVars
<1>2. DeadStays
  BY <1>1, NothingNew
<1>3. \A d \in Caller : JobTokens(d)'
  <2>1. CASE \E result : Settle(c, result)
    BY <1>2, <2>1, SettleTokens
  <2>2. CASE Goto(c, "publish") /\ UNCHANGED job
    BY <1>2, <2>2, GoOnTokens DEF Using
  <2> QED
    BY <2>1, <2>2 DEF Commit, CommitFails, Abandons
<1>4. \A r \in Row : \/ pool'[r].acc = pool[r].acc /\ pool'[r].ref = pool[r].ref
                     \/ pool'[r].acc <= minted' /\ pool'[r].ref <= minted'
  <2>1. CASE pool' = pool
    BY <2>1
  <2>2. CASE pool' = Quarantined(c) \/ pool' = WithSuccessor(c)
    <3>1. job[c].succ.acc <= minted' /\ job[c].succ.ref <= minted'
      BY <1>1 DEF TokenInv, JobTokens, KnownJob
    <3> QED
      BY <2>2, <3>1, SuccessorFields
  <2> QED
    BY <2>1, <2>2 DEF Commit, CommitFails, storeVars
<1>5. \A r \in Row : KnownRow(pool[r])' /\ ErrorTrue(meta[r])'
  BY <1>1, <1>2, <1>4, StoredStays
<1> QED
  BY <1>3, <1>5 DEF TokenInv

LEMMA PublishFailureTokens ==
  ASSUME TypeOK, TokenInv, UNCHANGED <<pool, minted, live>>, NEW c \in Caller, NEW mat, NEW entry,
         PublishFailure(c, mat, entry), FailureAccepted(c, mat) => ErrorTrue(entry)
  PROVE  \A q \in Row : KnownRow(pool[q])' /\ ErrorTrue(meta[q])'
<1>1. job[c].req.row \in Row
  BY JobFields DEF TypeOK
<1>2. CASE FailureAccepted(c, mat)
  BY <1>1, <1>2, EntryWritten DEF PublishFailure
<1>3. CASE ~FailureAccepted(c, mat)
  BY <1>3 DEF PublishFailure, TokenInv, KnownRow, ErrorTrue
<1> QED
  BY <1>2, <1>3

LEMMA PublishTokens ==
  ASSUME TypeOK, TokenInv, NEW c \in Caller,
         PublishProof(c) \/ PublishSuccessor(c) \/ ReconcileFailure(c)
  PROVE  TokenInv'
<1> DEFINE b == job[c].req
           j == job[c]
           m == meta[b.row]
<1>1. JobsOK /\ UNCHANGED <<pool, minted, live>>
  BY DEF TypeOK, PublishProof, PublishSuccessor, ReconcileFailure, providerVars
<1>2. /\ b \in Request /\ b.row \in Row /\ j.ctx \in Context /\ m \in Entry /\ ErrorTrue(m)
      /\ j.row.ref \in Token /\ j.succ.ref \in Token
  BY <1>1, JobFields DEF TypeOK, StoreOK, TokenInv
<1>3. \A mat : FailureAccepted(c, mat) => ContextHolds(m, j.ctx, b)
  BY DEF FailureAccepted
<1>4. j.row.ref <= minted /\ j.succ.ref <= minted
  BY DEF TokenInv, JobTokens, KnownJob
<1>5. ASSUME NEW i, NEW mat, NEW result, PublishEvidence(c, i, mat, result)
      PROVE  \A q \in Row : KnownRow(pool[q])' /\ ErrorTrue(meta[q])'
  <2>1. CASE meta' = meta
    BY <1>1, <2>1 DEF TokenInv, KnownRow, ErrorTrue
  <2>2. CASE meta' = [meta EXCEPT ![b.row] = WithEvidence(m, j.ctx, b, i, mat)]
    <3>1. ErrorTrue(WithEvidence(m, j.ctx, b, i, mat))
      BY <1>2, WritersKeepErrors
    <3> QED
      BY <1>1, <1>2, <2>2, <3>1, EntryWritten
  <2> QED
    BY <1>2, <1>5, <2>1, <2>2 DEF PublishEvidence
<1>6. \A q \in Row : KnownRow(pool[q])' /\ ErrorTrue(meta[q])'
  <2>1. CASE PublishProof(c)
    BY <1>5, <2>1 DEF PublishProof
  <2>2. CASE PublishSuccessor(c)
    <3>1. CASE PublishEvidence(c, j.learned, j.succ, "rotated")
      BY <1>5, <3>1
    <3>2. CASE PublishFailure(c, j.succ, WithUnsupported(m, b))
      <4>1. ErrorTrue(WithUnsupported(m, b))
        BY <1>2, WritersKeepErrors
      <4> QED
        BY <1>1, <3>2, <4>1, PublishFailureTokens
    <3>3. CASE PublishFailure(c, j.succ, WithRetry(m, b, j.succ))
      <4>1. ErrorTrue(WithRetry(m, b, j.succ))
        BY <1>2, WritersKeepErrors
      <4> QED
        BY <1>1, <3>3, <4>1, PublishFailureTokens
    <3>4. CASE PublishFailure(c, j.succ, WithError(m, j.ctx, b, j.succ.ref, "backoff"))
      <4>1. FailureAccepted(c, j.succ) => ErrorTrue(WithError(m, j.ctx, b, j.succ.ref, "backoff"))
        BY <1>2, <1>3, <1>4, WritersKeepErrors
      <4> QED
        BY <1>1, <3>4, <4>1, PublishFailureTokens
    <3> QED
      BY <2>2, <3>1, <3>2, <3>3, <3>4 DEF PublishSuccessor
  <2>3. CASE ReconcileFailure(c)
    <3> DEFINE mat == MaterialOf(j.row)
    <3>1. CASE PublishFailure(c, mat, WithRetry(m, b, mat))
      <4>1. ErrorTrue(WithRetry(m, b, mat))
        BY <1>2, WritersKeepErrors
      <4> QED
        BY <1>1, <3>1, <4>1, PublishFailureTokens
    <3>2. CASE PublishFailure(c, mat, WithError(m, j.ctx, b, j.row.ref, ErrorKind(j.fail)))
      <4>1. ErrorKind(j.fail) \in {"backoff", "dead"}
        BY DEF ErrorKind
      <4>2. ErrorKind(j.fail) = "dead" => j.row.ref \notin live
        BY <2>3 DEF ErrorKind, ReconcileFailure, TokenInv, JobTokens
      <4>3. FailureAccepted(c, mat) =>
              ErrorTrue(WithError(m, j.ctx, b, j.row.ref, ErrorKind(j.fail)))
        BY <1>2, <1>3, <1>4, <4>1, <4>2, WritersKeepErrors
      <4> QED
        BY <1>1, <3>2, <4>3, PublishFailureTokens
    <3> QED
      BY <2>3, <3>1, <3>2 DEF ReconcileFailure
  <2> QED
    BY <2>1, <2>2, <2>3
<1>7. DeadStays
  BY <1>1, NothingNew
<1>8. \A d \in Caller : JobTokens(d)'
  <2>1. CASE \E result : Settle(c, result)
    BY <1>7, <2>1, SettleTokens
  <2>2. CASE job' = [job EXCEPT ![c] = NextAttempt(@)] /\ Goto(c, "start")
    <3>1. jpc'[c] = "start" /\ OthersStay(c)
      BY <1>1, <2>2, GotoMoves DEF OthersStay, JobsOK
    <3>2. job'[c].row = NoRow /\ job'[c].succ = NoMaterial
      BY <1>1, <2>2 DEF NextAttempt, Attempt, NoJob, JobsOK
    <3>3. JobTokens(c)'
      BY <1>7, <3>1, <3>2, KeptTokens DEF Using
    <3> QED
      BY <1>7, <3>1, <3>3, OthersTokens
  <2> QED
    BY <2>1, <2>2 DEF PublishProof, PublishSuccessor, ReconcileFailure, PublishEvidence
<1> QED
  BY <1>6, <1>8 DEF TokenInv

-----------------------------------------------------------------------------
(* Calls, users, time and crashes.                                             *)

LEMMA CallTokens ==
  ASSUME TypeOK, TokenInv, NEW c \in Caller, Begin(c) \/ CallStep(c)
  PROVE  TokenInv'
<1>1. UNCHANGED <<pool, meta, minted, live>>
  BY CallsOnlyStart DEF storeVars, providerVars
<1>2. DeadStays
  BY <1>1, NothingNew
<1>3. CASE UNCHANGED <<jpc, job>>
  BY <1>1, <1>3 DEF TokenInv, KnownRow, ErrorTrue, JobTokens, KnownJob
<1>4. CASE \E b \in Request : /\ jpc' = [jpc EXCEPT ![c] = "start"]
                             /\ job' = [job EXCEPT ![c] = Attempt(b, 1)]
  <2>1. OthersStay(c) /\ jpc'[c] = "start"
    BY <1>4 DEF OthersStay, TypeOK, JobsOK
  <2>2. job'[c].row = NoRow /\ job'[c].succ = NoMaterial
    BY <1>4 DEF Attempt, NoJob, TypeOK, JobsOK
  <2>3. JobTokens(c)'
    BY <1>2, <2>1, <2>2, KeptTokens DEF Using
  <2> QED
    BY <1>1, <1>2, <2>1, <2>3, OthersTokens, FilesStay
<1> QED
  BY <1>3, <1>4, CallsOnlyStart

\* Jobs that rest know what they knew.
LEMMA RestingTokens ==
  ASSUME TypeOK, TokenInv, DeadStays, UNCHANGED <<jpc, job>>
  PROVE  \A d \in Caller : JobTokens(d)'
<1> SUFFICES ASSUME NEW d \in Caller
             PROVE  JobTokens(d)'
  OBVIOUS
<1>1. jpc'[d] = jpc[d] /\ job'[d] = job[d]
  OBVIOUS
<1> QED
  BY <1>1, KeptTokens

LEMMA UserTokens ==
  ASSUME TypeOK, TokenInv, NEW r \in Row, UserStep(r)
  PROVE  TokenInv'
<1>1. /\ UNCHANGED <<jpc, job>> /\ minted \in Nat
      /\ \A q \in Row : pool[q] \in PoolRow /\ pool[q].acc <= minted /\ pool[q].ref <= minted
      /\ \A q \in Row : pool[q].acc \in Nat /\ pool[q].ref \in Nat
  BY TokensAreNumbers DEF UserStep, SignIn, InitializeEpoch, ResetBackoff, BackoffElapses, Disable,
     ForeignRefresh, jobVars, TypeOK, StoreOK, TokenInv, KnownRow
<1>2. ASSUME DeadStays, meta' = meta, NEW new,
             \A q \in Row : pool'[q] = pool[q] \/ pool'[q] = new,
             \/ new.acc = pool[r].acc /\ new.ref = pool[r].ref
             \/ /\ minted' = minted + 1 /\ new.acc = minted + 1
                /\ new.ref \in {pool[r].ref, minted + 1}
      PROVE  TokenInv'
  <2>1. new.acc <= minted' /\ new.ref <= minted'
    BY <1>1, <1>2 DEF DeadStays
  <2>2. ASSUME NEW q \in Row
        PROVE  \/ pool'[q].acc = pool[q].acc /\ pool'[q].ref = pool[q].ref
               \/ pool'[q].acc <= minted' /\ pool'[q].ref <= minted'
    BY <1>2, <2>1
  <2>3. \A q \in Row : KnownRow(pool[q])' /\ ErrorTrue(meta[q])'
    BY <1>2, <2>2, StoredStays
  <2> QED
    BY <1>1, <1>2, <2>3, RestingTokens DEF TokenInv
<1>3. CASE SignIn(r)
  <2>1. PICK a \in Account :
          pool' = [pool EXCEPT ![r] = [@ EXCEPT !.epoch = pool[r].epoch + 1, !.ident = a,
                                                !.acc = minted + 1, !.ref = minted + 1]]
    BY <1>3 DEF SignIn
  <2>2. minted' = minted + 1 /\ live' = live \cup {minted + 1} /\ meta' = meta
    BY <1>3 DEF SignIn, Mint
  <2> DEFINE new == [pool[r] EXCEPT !.epoch = pool[r].epoch + 1, !.ident = a,
                                    !.acc = minted + 1, !.ref = minted + 1]
  <2>3. new.acc = minted + 1 /\ new.ref = minted + 1
    BY <1>1 DEF PoolRow
  <2>4. \A q \in Row : pool'[q] = pool[q] \/ pool'[q] = new
    BY <2>1 DEF TypeOK, StoreOK
  <2> HIDE DEF new
  <2>5. DeadStays
    BY <2>2, MintDeadStays
  <2> QED
    BY <1>2, <2>2, <2>3, <2>4, <2>5
<1>4. CASE ForeignRefresh(r)
  <2>1. PICK keep \in BOOLEAN :
          /\ minted' = minted + 1 /\ live' = Redeemed(pool[r].ref, keep)
          /\ pool' = [pool EXCEPT ![r] = [@ EXCEPT !.acc = Minted(pool[r].ref, keep).acc,
                                                  !.ref = Minted(pool[r].ref, keep).ref]]
    BY <1>4 DEF ForeignRefresh, Possible, Mint
  <2> DEFINE ref == pool[r].ref
             mat == Minted(ref, keep)
             new == [pool[r] EXCEPT !.acc = mat.acc, !.ref = mat.ref]
  <2>2. mat.acc = minted + 1 /\ mat.ref \in {ref, minted + 1}
    BY DEF Minted
  <2>3. new.acc = mat.acc /\ new.ref = mat.ref
    BY <1>1 DEF PoolRow
  <2>4. \A q \in Row : pool'[q] = pool[q] \/ pool'[q] = new
    BY <2>1 DEF TypeOK, StoreOK
  <2>5. DeadStays
    <3>1. live' \in {live, (live \ {ref}) \cup {minted + 1}, live \cup {minted + 1}}
      BY <2>1 DEF Redeemed
    <3> QED
      BY <2>1, <3>1, MintDeadStays DEF Redeemed
  <2>6. meta' = meta
    BY <1>4 DEF ForeignRefresh
  <2>7. new.acc = minted + 1 /\ new.ref \in {pool[r].ref, minted + 1}
    BY <2>2, <2>3
  <2> HIDE DEF new
  <2> QED
    BY <1>2, <2>1, <2>4, <2>5, <2>6, <2>7
<1>5. CASE Disable(r)
  <2> DEFINE new == [pool[r] EXCEPT !.on = FALSE]
  <2>1. new.acc = pool[r].acc /\ new.ref = pool[r].ref
    BY <1>1 DEF PoolRow
  <2>2. \A q \in Row : pool'[q] = pool[q] \/ pool'[q] = new
    BY <1>5 DEF Disable, TypeOK, StoreOK
  <2>3. DeadStays /\ meta' = meta
    BY <1>5, NothingNew DEF Disable, providerVars
  <2> HIDE DEF new
  <2> QED
    BY <1>2, <2>1, <2>2, <2>3
<1>6. CASE InitializeEpoch(r) \/ ResetBackoff(r) \/ BackoffElapses(r)
  <2>1. meta[r] \in Entry /\ ErrorTrue(meta[r]) /\ UNCHANGED <<pool, minted, live>>
    BY <1>6 DEF TypeOK, StoreOK, TokenInv, InitializeEpoch, ResetBackoff, BackoffElapses,
       providerVars
  <2>2. NoContext \in Context /\ NoRequest \in Request
    BY ConstantTypes
  <2>3. PICK e : ErrorTrue(e) /\ meta' = [meta EXCEPT ![r] = e]
    <3>1. CASE InitializeEpoch(r)
      BY <2>1, <2>2, <3>1, WritersKeepErrors DEF InitializeEpoch
    <3>2. CASE ResetBackoff(r)
      BY <2>1, <2>2, <3>2, WritersKeepErrors DEF ResetBackoff
    <3>3. CASE BackoffElapses(r)
      <4>1. \/ /\ meta[r].err.kind = "backoff"
              /\ meta' = [meta EXCEPT ![r] = [meta[r] EXCEPT !.err = [@ EXCEPT !.kind = "elapsed"]]]
            \/ meta' = [meta EXCEPT ![r] = [meta[r] EXCEPT !.retry = [@ EXCEPT !.due = TRUE]]]
        BY <3>3 DEF BackoffElapses, TypeOK, StoreOK
      <4> QED
        BY <2>1, <2>2, <4>1, WritersKeepErrors
    <3> QED
      BY <1>6, <3>1, <3>2, <3>3
  <2>4. \A q \in Row : KnownRow(pool[q])' /\ ErrorTrue(meta[q])'
    BY <2>1, <2>3, EntryWritten
  <2>5. DeadStays
    BY <2>1, NothingNew
  <2> QED
    BY <1>1, <2>4, <2>5, RestingTokens DEF TokenInv
<1> QED
  BY <1>3, <1>4, <1>5, <1>6 DEF UserStep

LEMMA EnvironmentTokens ==
  ASSUME TypeOK, TokenInv,
         \/ \E c \in Caller : Stall(c) \/ EvictStale(c)
         \/ \E t \in 1..MaxTok : AccessExpires(t)
         \/ \E p \in Process : Crash(p)
         \/ AllDone \/ UNCHANGED vars
  PROVE  TokenInv'
<1>1. UNCHANGED <<pool, meta, minted, live>>
  BY DEF Stall, EvictStale, AccessExpires, Crash, AllDone, vars, storeVars, providerVars
<1>2. \A d \in Caller : \/ jpc'[d] = jpc[d] /\ job'[d] = job[d]
                        \/ jpc'[d] = "dead" /\ job'[d] = NoJob
  <2>1. CASE \E p \in Process : Crash(p)
    BY <2>1 DEF Crash
  <2>2. CASE UNCHANGED <<jpc, job>>
    BY <2>2
  <2> QED
    BY <2>1, <2>2 DEF Stall, EvictStale, AccessExpires, AllDone, vars, jobVars
<1>3. DeadStays
  BY <1>1, NothingNew
<1>4. NoJob.row = NoRow /\ NoJob.succ = NoMaterial
  BY DEF NoJob
<1>5. ASSUME NEW d \in Caller
      PROVE  JobTokens(d)'
  BY <1>2, <1>3, <1>4, KeptTokens DEF Using
<1> QED
  BY <1>1, <1>3, <1>5, FilesStay

LEMMA InitTokens == Init => TokenInv
<1> SUFFICES ASSUME Init PROVE TokenInv
  OBVIOUS
<1>1. PICK ident \in [Row -> Identity], owner \in [Row -> Account] :
        /\ pool = [r \in Row |-> [epoch |-> 1, ident |-> ident[r], acc |-> r, ref |-> r,
                                   on |-> TRUE]]
        /\ \A r \in Row : meta[r] \in InitEntry(pool[r], owner[r])
  BY DEF Init
<1>2. minted = NRows /\ minted \in Nat
  BY ConstantsOK DEF Init
<1>3. ASSUME NEW r \in Row
      PROVE  KnownRow(pool[r]) /\ ErrorTrue(meta[r])
  <2>1. pool[r].acc <= minted /\ pool[r].ref <= minted
    BY <1>1, <1>2 DEF Row
  <2>2. meta[r].err = NoError
    <3>1. /\ NoEntry.err = NoError /\ EmptyEntry(pool[r]).err = NoError
          /\ [EmptyEntry(pool[r]) EXCEPT !.proof = MaterialOf(pool[r])].err = NoError
      BY DEF EmptyEntry, NoEntry
    <3> QED
      BY <1>1, <3>1 DEF InitEntry
  <2> QED
    BY <1>2, <2>1, <2>2 DEF KnownRow, ErrorTrue, NoError
<1>4. ASSUME NEW c \in Caller
      PROVE  JobTokens(c)
  <2>1. job[c] = NoJob /\ jpc[c] = "none"
    BY DEF Init
  <2> QED
    BY <1>2, <2>1 DEF JobTokens, KnownJob, NoJob, NoRow, NoMaterial, Using
<1> QED
  BY <1>3, <1>4 DEF TokenInv

LEMMA TokenSteps == TypeOK /\ TokenInv /\ [Next]_vars => TokenInv'
  BY CallTokens, SurveyTokens, ExchangeTokens, SuccessorTokens, CommitTokens, PublishTokens,
     UserTokens, EnvironmentTokens DEF Next, JobStep

LEMMA TokensKnown == Spec => []TokenInv
  BY InitTokens, TokenSteps, TypeCorrect, PTL DEF Spec

\* No failure of an exchange that left before the last reset is in the metadata
\* file: a reset, or the first identity of a row, is never undone by a late failure.
THEOREM ErrorsFollow == Spec => []ErrorsFollowReset
<1>1. TokenInv => ErrorsFollowReset
  BY DEF TokenInv, ErrorTrue, ErrorsFollowReset
<1> QED
  BY <1>1, TokensKnown, PTL

\* A token is blocked for good only when the provider no longer accepts it: it never
\* accepts one again, and only its own invalid_grant blocks one.
THEOREM DeadIsDead == Spec => []DeadMeansDead
<1>1. TokenInv => DeadMeansDead
  BY DEF TokenInv, ErrorTrue, DeadMeansDead
<1> QED
  BY <1>1, TokensKnown, PTL

-----------------------------------------------------------------------------
(* Credentials move forward.                                                   *)

Forward(r) ==
  \/ pool'[r].epoch > pool[r].epoch
  \/ /\ pool'[r].epoch = pool[r].epoch
     /\ pool'[r].acc >= pool[r].acc
     /\ pool[r].ident \in {NoId, pool'[r].ident}

LEMMA PoolNumbers ==
  ASSUME TypeOK
  PROVE  \A r \in Row : pool[r] \in PoolRow /\ pool[r].epoch \in Nat /\ pool[r].acc \in Nat
BY TokensAreNumbers DEF TypeOK, StoreOK, PoolRow

\* A successor is written over the very credential it was exchanged for.
LEMMA CommitForward ==
  ASSUME TypeOK, TokenInv, NEW c \in Caller, Commit(c), NEW r \in Row
  PROVE  Forward(r)
<1>1. pool[r] \in PoolRow /\ pool[r].epoch \in Nat /\ pool[r].acc \in Nat
  BY PoolNumbers
<1>2. CASE pool' = pool
  BY <1>1, <1>2 DEF Forward
<1>3. CASE /\ ~RefusesWrite(c, pool[job[c].req.row]) /\ jpc[c] = "commit"
           /\ pool' = Quarantined(c) \/ pool' = WithSuccessor(c)
  <2>1. /\ SameBinding(job[c].req, pool[job[c].req.row])
        /\ MaterialOf(pool[job[c].req.row]) = MaterialOf(job[c].row)
    BY <1>3 DEF RefusesWrite
  <2>2. pool[job[c].req.row].acc = job[c].row.acc /\ pool[job[c].req.row].ident = job[c].req.ident
    BY <2>1 DEF SameBinding, MaterialOf
  <2>3. job[c].row.acc < job[c].succ.acc
    BY <1>3 DEF TokenInv, JobTokens, Using
  <2>4. job[c].row.acc \in Nat /\ job[c].succ.acc \in Nat
    BY JobFields, TokensAreNumbers DEF TypeOK
  <2>5. \/ pool'[r] = Quarantined(c)[r]
        \/ pool'[r] = WithSuccessor(c)[r]
    BY <1>3
  <2> DEFINE new == pool'[r]
  <2>6. /\ new.epoch = pool[r].epoch
        /\ \/ new.acc = pool[r].acc /\ new.ref = pool[r].ref /\ new.ident = pool[r].ident
           \/ /\ r = job[c].req.row /\ new.acc = job[c].succ.acc /\ new.ref = job[c].succ.ref
              /\ job[c].req.ident # NoId => new.ident \in {pool[r].ident, job[c].req.ident}
    BY <2>5, SuccessorFields
  <2> QED
    BY <1>1, <2>2, <2>3, <2>4, <2>6 DEF Forward
<1> QED
  BY <1>2, <1>3 DEF Commit

LEMMA UserForward ==
  ASSUME TypeOK, TokenInv, NEW q \in Row, UserStep(q), NEW r \in Row
  PROVE  Forward(r)
<1>1. pool[r] \in PoolRow /\ pool[r].epoch \in Nat /\ pool[r].acc \in Nat
  BY PoolNumbers
<1>2. CASE pool'[r] = pool[r]
  BY <1>1, <1>2 DEF Forward
<1>3. CASE r = q /\ SignIn(q)
  <2>1. PICK a \in Account :
          pool' = [pool EXCEPT ![r] = [@ EXCEPT !.epoch = pool[r].epoch + 1, !.ident = a,
                                                !.acc = minted + 1, !.ref = minted + 1]]
    BY <1>3 DEF SignIn
  <2>2. pool'[r].epoch = pool[r].epoch + 1
    BY <1>1, <2>1 DEF PoolRow, TypeOK, StoreOK
  <2> QED
    BY <1>1, <2>2 DEF Forward
<1>4. CASE r = q /\ Disable(q)
  BY <1>1, <1>4 DEF Disable, PoolRow, TypeOK, StoreOK, Forward
<1>5. CASE r = q /\ ForeignRefresh(q)
  <2>1. PICK keep \in BOOLEAN :
          pool' = [pool EXCEPT ![r] = [@ EXCEPT !.acc = Minted(pool[r].ref, keep).acc,
                                                !.ref = Minted(pool[r].ref, keep).ref]]
    BY <1>5 DEF ForeignRefresh, Possible
  <2> DEFINE mat == Minted(pool[r].ref, keep)
  <2>2. mat.acc = minted + 1
    BY DEF Minted
  <2> HIDE DEF mat
  <2>3. /\ pool'[r].acc = mat.acc /\ pool'[r].epoch = pool[r].epoch
        /\ pool'[r].ident = pool[r].ident
    BY <1>1, <2>1 DEF PoolRow, TypeOK, StoreOK, mat
  <2>4. pool[r].acc <= minted /\ minted \in Nat
    BY TokensAreNumbers DEF TokenInv, KnownRow
  <2> QED
    BY <1>1, <2>2, <2>3, <2>4 DEF Forward
<1>6. pool'[r] = pool[r] \/ (r = q /\ (SignIn(q) \/ Disable(q) \/ ForeignRefresh(q)))
  BY DEF UserStep, SignIn, InitializeEpoch, ResetBackoff, BackoffElapses, Disable, ForeignRefresh,
     TypeOK, StoreOK
<1> QED
  BY <1>2, <1>3, <1>4, <1>5, <1>6

\* Only the write of a successor and what users and other programs do touch a row.
LEMMA PoolWriters ==
  ASSUME TypeOK, [Next]_vars
  PROVE  \/ pool' = pool
         \/ \E c \in Caller : Commit(c)
         \/ \E r \in Row : UserStep(r)
<1>1. ASSUME NEW c \in Caller, JobStep(c), ~Commit(c)
      PROVE  pool' = pool
  BY <1>1
     DEF JobStep, SurveyRow, SurveyPolicy, Adopt, ValidateAccess, PublishProof, LockRow,
         LockProvider, LockTimeout, RecheckPolicy, ExchangeSucceeds, ExchangeLost, ExchangeFails,
         LookupSuccessor, AcquireHandoff, HandoffTimeout, NoticeHandoffLoss, CommitFails,
         PublishSuccessor, ReconcileFailure, JobUnchanged, storeVars
<1>2. ASSUME NEW c \in Caller, Begin(c) \/ CallStep(c)
      PROVE  pool' = pool
  BY <1>2, CallsOnlyStart DEF storeVars
<1>3. CASE \/ \E c \in Caller : Abort(c) \/ Stall(c) \/ EvictStale(c)
           \/ \E t \in 1..MaxTok : AccessExpires(t)
           \/ \E p \in Process : Crash(p)
           \/ AllDone \/ UNCHANGED vars
  BY <1>3 DEF Abort, Stall, EvictStale, AccessExpires, Crash, AllDone, vars, storeVars
<1> QED
  BY <1>1, <1>2, <1>3 DEF Next

\* CredentialMovesForward: within an epoch no writer, however late, puts an older
\* credential back, and no row changes the account it learned.
THEOREM MovesForward == Spec => CredentialMovesForward
<1>1. ASSUME TypeOK, TokenInv, [Next]_vars, NEW r \in Row
      PROVE  Forward(r)
  <2>1. CASE \E c \in Caller : Commit(c)
    BY <1>1, <2>1, CommitForward
  <2>2. CASE \E q \in Row : UserStep(q)
    BY <1>1, <2>2, UserForward
  <2>3. CASE pool' = pool
    BY <1>1, <2>3, PoolNumbers DEF Forward
  <2> QED
    BY <1>1, <2>1, <2>2, <2>3, PoolWriters
<1>2. TypeOK /\ TokenInv /\ [Next]_vars => [\A r \in Row : Forward(r)]_vars
  BY <1>1
<1>3. TypeOK /\ TokenInv /\ [Next]_vars =>
        [\A r \in Row :
          \/ pool'[r].epoch > pool[r].epoch
          \/ /\ pool'[r].epoch = pool[r].epoch
             /\ pool'[r].acc >= pool[r].acc
             /\ pool[r].ident \in {NoId, pool'[r].ident}]_vars
  BY <1>2 DEF Forward
<1> QED
  BY <1>3, TokensKnown, TypeCorrect, PTL DEF Spec, CredentialMovesForward

-----------------------------------------------------------------------------
(* What calls are served.                                                      *)

Served(c) == call[c].kind = "usable" => Shows(call[c].acc, call[c].expect)
ServedInv == \A c \in Caller : Served(c)

\* A captured token passes admission only with evidence for it.
LEMMA UsableShows ==
  ASSUME TypeOK, EvidenceInv, NEW c \in Caller, NEW b \in Request, NEW row \in PoolRow,
         Usable(c, b, row)
  PROVE  Shows(row.acc, b.ident)
<1>1. /\ meta[b.row].proof = MaterialOf(row) /\ meta[b.row].ident = b.ident
      /\ row.acc \in fresh
  BY DEF Usable, Proven, Binds, SameBinding
<1>2. row.acc # 0
  BY <1>1 DEF TypeOK, ProviderOK
<1>3. meta[b.row].proof # NoMaterial /\ meta[b.row].proof.acc = row.acc
  BY <1>1, <1>2 DEF MaterialOf, NoMaterial
<1>4. EntryEvidence(meta[b.row])
  BY DEF EvidenceInv, Request
<1> QED
  BY <1>1, <1>3, <1>4 DEF EntryEvidence

LEMMA ServedStays ==
  ASSUME CallsOK, ServedInv, ShowsStill, NEW d \in Caller,
         \/ call'[d].kind # "usable"
         \/ /\ call'[d].kind = call[d].kind /\ call'[d].acc = call[d].acc
            /\ call'[d].expect = call[d].expect
  PROVE  Served(d)'
<1>1. call[d].acc \in Token /\ Served(d)
  BY CallFields DEF ServedInv, CallsOK, Call
<1> QED
  BY <1>1 DEF Served, ShowsStill

\* A call begins by joining or starting a job, or by reading its row.
LEMMA Beginnings ==
  ASSUME NEW c \in Caller, Begin(c)
  PROVE  \/ \E b, j : JoinOrStart(c, b, j, barred)
         \/ \E b, j : /\ call' = [call EXCEPT ![c] = [NoCall EXCEPT !.req = b, !.joined = j]]
                     /\ cpc' = [cpc EXCEPT ![c] = "read"]
                     /\ UNCHANGED <<jpc, job>>
<1>1. PICK r \in Row, ask \in Asks :
        \E rej \in IF ask[2] THEN {n \in 1..minted : tok[n].row = r} ELSE {0} :
          LET b == [row |-> r, epoch |-> pool[r].epoch, ident |-> pool[r].ident,
                    intent |-> ask[1], rej |-> rej]
              j == JobAt(ProcOf[c], KeyOf(b))
          IN IF b.intent = "refresh" THEN JoinOrStart(c, b, j, barred)
             ELSE /\ call' = [call EXCEPT ![c] = [NoCall EXCEPT !.req = b, !.joined = j]]
                  /\ cpc' = [cpc EXCEPT ![c] = "read"]
                  /\ barred' = RecordRejection(barred, j, rej)
                  /\ UNCHANGED <<jobs, jpc, job>>
  BY DEF Begin
<1>2. PICK rej :
        LET b == [row |-> r, epoch |-> pool[r].epoch, ident |-> pool[r].ident,
                  intent |-> ask[1], rej |-> rej]
            j == JobAt(ProcOf[c], KeyOf(b))
        IN \/ JoinOrStart(c, b, j, barred)
           \/ /\ call' = [call EXCEPT ![c] = [NoCall EXCEPT !.req = b, !.joined = j]]
              /\ cpc' = [cpc EXCEPT ![c] = "read"]
              /\ UNCHANGED <<jpc, job>>
  BY <1>1
<1> QED
  BY <1>2

LEMMA CallServed ==
  ASSUME TypeOK, EvidenceInv, ServedInv, NEW c \in Caller, Begin(c) \/ CallStep(c)
  PROVE  ServedInv'
<1>1. CallsOK /\ tok' = tok /\ NoCall.kind = "none"
  BY CallsOnlyStart DEF TypeOK, providerVars, NoCall
<1>2. ShowsStill
  BY <1>1 DEF ShowsStill, Shows
<1>3. /\ call[c] \in Call /\ call[c].req \in Request /\ call[c].seen \in PoolRow
  BY <1>1, CallFields DEF CallsOK, Call
<1>4. ASSUME NEW x, call' = [call EXCEPT ![c] = x],
             \/ x.kind # "usable"
             \/ x.kind = call[c].kind /\ x.acc = call[c].acc /\ x.expect = call[c].expect
             \/ Shows(x.acc, x.expect)
      PROVE  ServedInv'
  <2> SUFFICES ASSUME NEW d \in Caller
               PROVE  Served(d)'
    BY DEF ServedInv
  <2>1. CASE d = c /\ Shows(x.acc, x.expect)
    BY <1>1, <1>4, <2>1 DEF CallsOK, Served, Shows
  <2>2. CASE ~(d = c /\ Shows(x.acc, x.expect))
    <3>1. \/ call'[d].kind # "usable"
          \/ /\ call'[d].kind = call[d].kind /\ call'[d].acc = call[d].acc
             /\ call'[d].expect = call[d].expect
      BY <1>1, <1>4, <2>2 DEF CallsOK
    <3> QED
      BY <1>1, <1>2, <3>1, ServedStays
  <2> QED
    BY <2>1, <2>2
<1>5. ASSUME NEW kind, NEW acc, NEW expect, Finish(c, kind, acc, expect),
             kind # "usable" \/ Shows(acc, expect)
      PROVE  ServedInv'
  <2> DEFINE x == [NoCall EXCEPT !.kind = kind, !.acc = acc, !.expect = expect]
  <2>1. x.kind = kind /\ x.acc = acc /\ x.expect = expect
    BY DEF NoCall
  <2>2. call' = [call EXCEPT ![c] = x]
    BY <1>5 DEF Finish
  <2> HIDE DEF x
  <2> QED
    BY <1>4, <1>5, <2>1, <2>2
<1>6. ASSUME NEW b, NEW j, NEW bs, JoinOrStart(c, b, j, bs)
      PROVE  ServedInv'
  <2>1. PICK o, r : call' = [call EXCEPT ![c] = [NoCall EXCEPT !.req = b, !.joined = o,
                                                            !.bounded = r]]
    BY <1>6 DEF JoinOrStart
  <2> DEFINE x == [NoCall EXCEPT !.req = b, !.joined = o, !.bounded = r]
  <2>2. x.kind = "none"
    BY DEF NoCall
  <2> HIDE DEF x
  <2> QED
    BY <1>4, <2>1, <2>2 DEF x
<1>7. CASE Begin(c)
  <2>1. CASE \E b, j : JoinOrStart(c, b, j, barred)
    BY <1>6, <2>1
  <2>2. CASE \E b, j : /\ call' = [call EXCEPT ![c] = [NoCall EXCEPT !.req = b, !.joined = j]]
                      /\ cpc' = [cpc EXCEPT ![c] = "read"]
                      /\ UNCHANGED <<jpc, job>>
    <3>1. PICK b, j : call' = [call EXCEPT ![c] = [NoCall EXCEPT !.req = b, !.joined = j]]
      BY <2>2
    <3> DEFINE x == [NoCall EXCEPT !.req = b, !.joined = j]
    <3>2. x.kind = "none"
      BY DEF NoCall
    <3> HIDE DEF x
    <3> QED
      BY <1>4, <3>1, <3>2 DEF x
  <2> QED
    BY <1>7, <2>1, <2>2, Beginnings
<1>8. CASE ReadRow(c)
  <2>1. PICK b, row, j : call' = [call EXCEPT ![c] = [@ EXCEPT !.req = b, !.seen = row, !.joined = j]]
    BY <1>8 DEF ReadRow
  <2> DEFINE x == [call[c] EXCEPT !.req = b, !.seen = row, !.joined = j]
  <2>2. call' = [call EXCEPT ![c] = x]
    BY <1>1, <2>1 DEF CallsOK
  <2>3. x.kind = call[c].kind /\ x.acc = call[c].acc /\ x.expect = call[c].expect
    BY <1>3 DEF Call
  <2> HIDE DEF x
  <2> QED
    BY <1>4, <2>2, <2>3
<1>9. CASE AdmitCurrent(c)
  <2>1. \/ \E j, bs : JoinOrStart(c, call[c].req, j, bs)
        \/ Usable(c, call[c].req, call[c].seen)
           /\ Finish(c, "usable", call[c].seen.acc, call[c].req.ident)
        \/ Finish(c, "refused", 0, NoId)
    BY <1>9 DEF AdmitCurrent
  <2> QED
    BY <1>3, <1>5, <1>6, <2>1, UsableShows
<1>10. CASE JoinTimeout(c)
  BY <1>5, <1>10 DEF JoinTimeout
<1>11. CASE TakeResult(c)
  <2>1. \/ \E kind \in {"failed", "refused"} : Finish(c, kind, 0, NoId)
        \/ \E row, i : call' = [call EXCEPT ![c].seen = row, ![c].req.ident = i]
    <3> DEFINE j == job[call[c].joined]
               i == IF call[c].req.ident = NoId /\ j.result = "rotated" THEN j.learned
                    ELSE call[c].req.ident
    <3>1. \/ \E kind \in {"failed", "refused"} : Finish(c, kind, 0, NoId)
          \/ call' = [call EXCEPT ![c].seen = pool[call[c].req.row], ![c].req.ident = i]
      BY <1>11 DEF TakeResult
    <3> HIDE DEF i
    <3> QED
      BY <3>1
  <2>2. ASSUME NEW row, NEW i, call' = [call EXCEPT ![c].seen = row, ![c].req.ident = i]
        PROVE  ServedInv'
    <3> DEFINE y == [call[c] EXCEPT !.seen = row]
               x == [y EXCEPT !.req = [y.req EXCEPT !.ident = i]]
    <3>1. call' = [call EXCEPT ![c] = x]
      BY <1>1, <1>3, <2>2 DEF CallsOK
    <3>2. x.kind = call[c].kind /\ x.acc = call[c].acc /\ x.expect = call[c].expect
      BY <1>3 DEF Call
    <3> HIDE DEF x
    <3> QED
      BY <1>4, <3>1, <3>2
  <2> QED
    BY <1>5, <2>1, <2>2
<1>12. CASE FinalAdmit(c)
  <2>1. \/ Usable(c, call[c].req, call[c].seen)
           /\ Finish(c, "usable", call[c].seen.acc, call[c].req.ident)
        \/ Finish(c, "refused", 0, NoId)
    BY <1>12 DEF FinalAdmit
  <2> QED
    BY <1>3, <1>5, <2>1, UsableShows
<1> QED
  BY <1>7, <1>8, <1>9, <1>10, <1>11, <1>12 DEF CallStep

\* The provider mints, or tells of nothing new.
LEMMA TokensChange ==
  ASSUME TypeOK, [Next]_vars
  PROVE  UNCHANGED <<tok, minted>> \/ \E r, i, ok : Mint(r, i, ok)
<1>1. ASSUME NEW c \in Caller, JobStep(c), ~ExchangeSucceeds(c)
      PROVE  UNCHANGED <<tok, minted>>
  BY <1>1
     DEF JobStep, SurveyRow, SurveyPolicy, Adopt, ValidateAccess, PublishProof, LockRow,
         LockProvider, LockTimeout, RecheckPolicy, ExchangeLost, ExchangeFails, LookupSuccessor,
         AcquireHandoff, HandoffTimeout, NoticeHandoffLoss, Commit, CommitFails, PublishSuccessor,
         ReconcileFailure, JobUnchanged, providerVars
<1>2. ASSUME NEW c \in Caller, Begin(c) \/ CallStep(c)
      PROVE  UNCHANGED <<tok, minted>>
  BY <1>2, CallsOnlyStart DEF providerVars
<1>3. ASSUME NEW c \in Caller, ExchangeSucceeds(c)
      PROVE  \E r, i, ok : Mint(r, i, ok)
  BY <1>3 DEF ExchangeSucceeds
<1>4. ASSUME NEW r \in Row, UserStep(r)
      PROVE  UNCHANGED <<tok, minted>> \/ \E q, i, ok : Mint(q, i, ok)
  BY <1>4 DEF UserStep, SignIn, InitializeEpoch, ResetBackoff, BackoffElapses, Disable,
     ForeignRefresh, providerVars
<1>5. CASE \/ \E c \in Caller : Abort(c) \/ Stall(c) \/ EvictStale(c)
           \/ \E t \in 1..MaxTok : AccessExpires(t)
           \/ \E p \in Process : Crash(p)
           \/ AllDone \/ UNCHANGED vars
  BY <1>5 DEF Abort, Stall, EvictStale, AccessExpires, Crash, AllDone, vars, providerVars
<1> QED
  BY <1>1, <1>2, <1>3, <1>4, <1>5 DEF Next

\* Calls rest while others move, or die with their process.
LEMMA CallsRest ==
  ASSUME [Next]_vars, ~\E c \in Caller : Begin(c) \/ CallStep(c)
  PROVE  \A d \in Caller : \/ call'[d] = call[d] /\ cpc'[d] = cpc[d]
                           \/ call'[d] = NoCall /\ cpc'[d] = "crashed"
<1>1. CASE UNCHANGED <<call, cpc>>
  BY <1>1
<1>2. CASE \E p \in Process : Crash(p)
  BY <1>2 DEF Crash
<1>3. CASE \E c \in Caller : JobStep(c)
  BY <1>1, <1>3, ZenonT(60)
     DEF JobStep, SurveyRow, SurveyPolicy, Adopt, ValidateAccess, PublishProof, LockRow,
         LockProvider, LockTimeout, RecheckPolicy, ExchangeSucceeds, ExchangeLost, ExchangeFails,
         LookupSuccessor, AcquireHandoff, HandoffTimeout, NoticeHandoffLoss, Commit, CommitFails,
         PublishSuccessor, ReconcileFailure, JobUnchanged, callVars
<1>4. CASE \E r \in Row : UserStep(r)
  BY <1>1, <1>4 DEF UserStep, SignIn, InitializeEpoch, ResetBackoff, BackoffElapses, Disable,
     ForeignRefresh, callVars
<1>5. CASE \/ \E c \in Caller : Abort(c) \/ Stall(c) \/ EvictStale(c)
           \/ \E t \in 1..MaxTok : AccessExpires(t)
           \/ AllDone \/ UNCHANGED vars
  BY <1>1, <1>5 DEF Abort, Stall, EvictStale, AccessExpires, AllDone, vars, callVars
<1> QED
  BY <1>2, <1>3, <1>4, <1>5 DEF Next

LEMMA OthersServed ==
  ASSUME TypeOK, EvidenceInv, ServedInv, [Next]_vars,
         ~\E c \in Caller : Begin(c) \/ CallStep(c)
  PROVE  ServedInv'
<1>1. ShowsStill /\ CallsOK
  <2>1. CASE UNCHANGED <<tok, minted>>
    BY <2>1 DEF ShowsStill, Shows, TypeOK
  <2>2. CASE \E r, i, ok : Mint(r, i, ok)
    BY <2>2, MintKeepsEvidence DEF ShowsStill, TypeOK, EvidenceInv, MintedOnly
  <2> QED
    BY <2>1, <2>2, TokensChange
<1>2. NoCall.kind # "usable"
  BY DEF NoCall
<1>3. ASSUME NEW d \in Caller
      PROVE  Served(d)'
  BY <1>1, <1>2, CallsRest, ServedStays
<1> QED
  BY <1>3 DEF ServedInv

\* ServedTokenIsTheAccounts: admission never hands out a token on the strength of
\* evidence recorded for another account or another credential.
THEOREM ServedIsTheAccounts == Spec => []ServedTokenIsTheAccounts
<1>1. Init => EvidenceInv /\ ServedInv
  <2> SUFFICES ASSUME Init PROVE EvidenceInv /\ ServedInv
    OBVIOUS
  <2>1. NoCall.kind # "usable" /\ \A c \in Caller : call[c] = NoCall
    BY DEF Init, NoCall
  <2> QED
    BY <2>1, InitEvidence DEF ServedInv, Served
<1>2. TypeOK /\ EvidenceInv /\ [Next]_vars => EvidenceInv'
  BY CallEvidence, JobStepEvidence, UserEvidence, EnvironmentEvidence DEF Next
<1>3. TypeOK /\ EvidenceInv /\ ServedInv /\ [Next]_vars => ServedInv'
  BY CallServed, OthersServed
<1>4. ServedInv => ServedTokenIsTheAccounts
  BY DEF ServedInv, Served, Shows, ServedTokenIsTheAccounts
<1> QED
  BY <1>1, <1>2, <1>3, <1>4, TypeCorrect, PTL DEF Spec

-----------------------------------------------------------------------------
(* Whose tokens they are: a row's credential and what a job or a call holds of *)
(* it descend from that row's first login.                                     *)

Of(n, r) == n <= minted /\ tok[n].row = r
RowOwn(r) == Of(pool[r].acc, r) /\ Of(pool[r].ref, r)
CallOwn(c) == cpc[c] \in {"admit", "final"} => Of(call[c].seen.acc, call[c].req.row)
JobOwn(c) ==
  /\ jpc[c] \in Leased => Of(job[c].row.ref, job[c].req.row)
  /\ jpc[c] \in Using => Of(job[c].succ.acc, job[c].req.row) /\ Of(job[c].succ.ref, job[c].req.row)
OwnInv ==
  /\ \A r \in Row : RowOwn(r)
  /\ \A c \in Caller : CallOwn(c) /\ JobOwn(c)

LineStays ==
  /\ minted \in Nat /\ minted' \in Nat /\ minted <= minted'
  /\ \A n \in Token : n <= minted => tok'[n] = tok[n]

LEMMA MintLine ==
  ASSUME TypeOK, NEW r, NEW i, NEW ok, Mint(r, i, ok)
  PROVE  LineStays /\ minted + 1 <= minted' /\ tok'[minted + 1].row = r
<1>1. minted \in Nat /\ minted + 1 \in Token
  BY TokensAreNumbers, MetadataConstantsOK DEF Mint, Token
<1>2. \A n \in Token : tok'[n] = IF n = minted + 1 THEN [acct |-> i, row |-> r, ok |-> ok] ELSE tok[n]
  BY <1>1 DEF Mint, TypeOK, ProviderOK
<1>3. minted' = minted + 1
  BY DEF Mint
<1>4. LineStays
  BY <1>1, <1>2, <1>3 DEF LineStays
<1>5. minted + 1 <= minted' /\ tok'[minted + 1].row = r
  BY <1>1, <1>2, <1>3
<1> QED
  BY <1>4, <1>5

LEMMA LineAlways ==
  ASSUME TypeOK, [Next]_vars
  PROVE  LineStays
<1>1. CASE UNCHANGED <<tok, minted>>
  BY <1>1, TokensAreNumbers DEF LineStays
<1> QED
  BY <1>1, TokensChange, MintLine

LEMMA OwnStays ==
  ASSUME TypeOK, LineStays, NEW n \in Token, NEW r, Of(n, r)
  PROVE  n <= minted' /\ tok'[n].row = r
BY TokensAreNumbers DEF LineStays, Of

LEMMA KeptOwn ==
  ASSUME TypeOK, OwnInv, LineStays, NEW c \in Caller,
         jpc'[c] \in Leased => /\ jpc[c] \in Leased /\ job'[c].row = job[c].row
                               /\ job'[c].req = job[c].req,
         jpc'[c] \in Using => jpc[c] \in Using /\ job'[c].succ = job[c].succ
  PROVE  JobOwn(c)'
<1>1. /\ job[c].row.ref \in Token /\ job[c].succ.acc \in Token /\ job[c].succ.ref \in Token
      /\ JobOwn(c) /\ Using \subseteq Leased
  BY JobFields DEF TypeOK, OwnInv, Using, Leased
<1>2. CASE jpc'[c] \in Leased
  BY <1>1, <1>2, OwnStays, SMTT(30) DEF JobOwn, Of
<1>3. CASE jpc'[c] \notin Leased
  BY <1>1, <1>3 DEF JobOwn
<1> QED
  BY <1>2, <1>3

LEMMA OneJobSteps ==
  ASSUME TypeOK, NEW c \in Caller, JobStep(c) \/ Abort(c)
  PROVE  OthersStay(c)
<1>1. JobsOK
  BY DEF TypeOK
<1>2. CASE \E result : Settle(c, result)
  BY <1>1, <1>2, SettleMoves
<1>3. CASE \E pc : Goto(c, pc) /\ \E j : job' = [job EXCEPT ![c] = j]
  BY <1>1, <1>3, GotoMoves DEF OthersStay, JobsOK
<1>4. CASE \E pc : Goto(c, pc) /\ UNCHANGED job
  BY <1>1, <1>4, GotoMoves DEF OthersStay, JobsOK
<1>5. CASE LookupSuccessor(c)
  BY <1>1, <1>5, GotoMoves DEF LookupSuccessor, OthersStay, JobsOK
<1>6. CASE AcquireHandoff(c) \/ HandoffTimeout(c) \/ NoticeHandoffLoss(c) \/ Abort(c)
  BY <1>1, <1>6, SkipHandoffMoves
     DEF AcquireHandoff, HandoffTimeout, NoticeHandoffLoss, Abort, OthersStay, JobsOK
<1>7. CASE SurveyRow(c) \/ SurveyPolicy(c) \/ Adopt(c) \/ ValidateAccess(c)
  BY <1>2, <1>3, <1>4, <1>7 DEF SurveyRow, SurveyPolicy, Adopt, ValidateAccess
<1>8. CASE LockRow(c) \/ LockProvider(c) \/ LockTimeout(c) \/ RecheckPolicy(c)
  BY <1>2, <1>3, <1>4, <1>8 DEF LockRow, LockProvider, LockTimeout, RecheckPolicy
<1>9. CASE ExchangeSucceeds(c) \/ ExchangeLost(c) \/ ExchangeFails(c)
  BY <1>3, <1>9 DEF ExchangeSucceeds, ExchangeLost, ExchangeFails, ExchangeEnds
<1>10. CASE Commit(c) \/ CommitFails(c)
  BY <1>2, <1>4, <1>10 DEF Commit, CommitFails, Abandons
<1>11. CASE PublishProof(c) \/ PublishSuccessor(c) \/ ReconcileFailure(c)
  BY <1>2, <1>3, <1>11 DEF PublishProof, PublishSuccessor, ReconcileFailure, PublishEvidence
<1> QED
  BY <1>5, <1>6, <1>7, <1>8, <1>9, <1>10, <1>11 DEF JobStep

LEMMA JobOwnSteps ==
  ASSUME TypeOK, OwnInv, LineStays, NEW c \in Caller, JobStep(c) \/ Abort(c)
  PROVE  \A d \in Caller : JobOwn(d)'
<1>1. JobsOK /\ Using \subseteq Leased
  BY DEF TypeOK, Using, Leased
<1>2. \A d \in Caller \ {c} : JobOwn(d)'
  BY <1>1, OneJobSteps, KeptOwn DEF OthersStay
<1>3. CASE jpc'[c] \notin Leased
  BY <1>1, <1>2, <1>3, KeptOwn
<1>4. CASE SurveyRow(c) \/ SurveyPolicy(c) \/ Adopt(c) \/ ValidateAccess(c)
  <2>1. jpc'[c] \in {"settled", "policy", "adopt", "rowlock", "validate", "failed", "proof"}
    BY <1>1, <1>4, SettleMoves, GotoMoves DEF SurveyRow, SurveyPolicy, Adopt, ValidateAccess
  <2> QED
    BY <1>3, <2>1 DEF Leased
<1>5. CASE LockRow(c) \/ LockTimeout(c)
  <2>1. jpc'[c] \in {"settled", "provlock"}
    BY <1>1, <1>5, SettleMoves, GotoMoves DEF LockRow, LockTimeout
  <2> QED
    BY <1>3, <2>1 DEF Leased
<1>6. CASE LockProvider(c)
  <2>1. CASE \E result : Settle(c, result)
    BY <1>1, <1>3, <2>1, SettleMoves DEF Leased
  <2>2. CASE job' = [job EXCEPT ![c].row = pool[job[c].req.row]] /\ Goto(c, "recheck")
    <3>1. job'[c].row = pool[job[c].req.row] /\ job'[c].req = job[c].req /\ jpc'[c] = "recheck"
      BY <1>1, <2>2, GotoMoves DEF JobsOK, Job
    <3>2. Of(pool[job[c].req.row].ref, job[c].req.row) /\ pool[job[c].req.row].ref \in Token
      BY <1>1, JobFields, TokensAreNumbers DEF OwnInv, RowOwn
    <3>3. pool[job[c].req.row].ref <= minted' /\ tok'[pool[job[c].req.row].ref].row = job[c].req.row
      BY <3>2, OwnStays
    <3>4. JobOwn(c)'
      BY <3>1, <3>3 DEF JobOwn, Of, Using
    <3> QED
      BY <1>2, <3>4
  <2> QED
    BY <1>6, <2>1, <2>2 DEF LockProvider
<1>7. CASE RecheckPolicy(c)
  <2>1. CASE \E result : Settle(c, result)
    BY <1>1, <1>3, <2>1, SettleMoves DEF Leased
  <2>2. CASE (\E x : job' = [job EXCEPT ![c].ctx = x]) /\ Goto(c, "exchange") /\ jpc[c] = "recheck"
    <3>1. job'[c].row = job[c].row /\ job'[c].req = job[c].req /\ jpc'[c] = "exchange"
      BY <1>1, <2>2, GotoMoves DEF JobsOK, Job
    <3> QED
      BY <1>2, <2>2, <3>1, KeptOwn DEF Leased, Using
  <2> QED
    BY <1>7, <2>1, <2>2 DEF RecheckPolicy
<1>8. CASE ExchangeSucceeds(c)
  <2> DEFINE ref == job[c].row.ref
             r == job[c].req.row
  <2>1. PICK keep \in BOOLEAN :
          (\E i, ok : Mint(r, i, ok)) /\ job' = [job EXCEPT ![c].succ = Minted(ref, keep)]
    BY <1>8 DEF ExchangeSucceeds, Possible
  <2>2. /\ job'[c].row = job[c].row /\ job'[c].req = job[c].req
        /\ job'[c].succ = Minted(ref, keep) /\ jpc'[c] = "lookup" /\ jpc[c] = "exchange"
    BY <1>1, <1>8, <2>1, GotoMoves DEF JobsOK, Job, ExchangeSucceeds
  <2>3. minted + 1 <= minted' /\ tok'[minted + 1].row = r
    BY <2>1, MintLine
  <2>4. ref \in Token /\ Of(ref, r)
    BY <1>1, <2>2, JobFields DEF OwnInv, JobOwn, Leased
  <2>5. ref <= minted' /\ tok'[ref].row = r
    BY <2>4, OwnStays
  <2>6. Minted(ref, keep).acc = minted + 1 /\ Minted(ref, keep).ref \in {ref, minted + 1}
    BY DEF Minted
  <2>7. JobOwn(c)'
    BY <2>2, <2>3, <2>5, <2>6 DEF JobOwn, Of
  <2> QED
    BY <1>2, <2>7
<1>9. CASE ExchangeLost(c) \/ ExchangeFails(c)
  <2>1. jpc'[c] = "failed"
    BY <1>1, <1>9, GotoMoves DEF ExchangeLost, ExchangeFails, ExchangeEnds
  <2> QED
    BY <1>3, <2>1 DEF Leased
<1>10. CASE \/ LookupSuccessor(c) \/ AcquireHandoff(c) \/ HandoffTimeout(c)
            \/ NoticeHandoffLoss(c) \/ Abort(c)
  <2>1. /\ job'[c].row = job[c].row /\ job'[c].req = job[c].req /\ job'[c].succ = job[c].succ
    <3>1. CASE SkipHandoff(c)
      BY <1>1, <3>1, SkipHandoffMoves
    <3>2. CASE ~SkipHandoff(c)
      BY <1>1, <1>10, <3>2
         DEF LookupSuccessor, AcquireHandoff, HandoffTimeout, NoticeHandoffLoss, Abort, JobsOK, Job
    <3> QED
      BY <3>1, <3>2
  <2>2. \/ jpc'[c] = jpc[c]
        \/ jpc[c] \in Using /\ jpc'[c] \in Using
    BY <1>1, <1>10, GotoMoves
       DEF LookupSuccessor, AcquireHandoff, HandoffTimeout, NoticeHandoffLoss, Abort, JobsOK, Using
  <2>3. JobOwn(c)'
    BY <1>1, <2>1, <2>2, KeptOwn
  <2> QED
    BY <1>2, <2>3
<1>11. CASE Commit(c) \/ CommitFails(c)
  <2>1. CASE \E result : Settle(c, result)
    BY <1>1, <1>3, <2>1, SettleMoves DEF Leased
  <2>2. CASE Goto(c, "publish") /\ UNCHANGED job /\ jpc[c] = "commit"
    <3>1. jpc'[c] = "publish"
      BY <1>1, <2>2, GotoMoves
    <3> QED
      BY <1>2, <2>2, <3>1, KeptOwn DEF Leased, Using
  <2> QED
    BY <1>11, <2>1, <2>2 DEF Commit, CommitFails, Abandons
<1>12. CASE PublishProof(c) \/ PublishSuccessor(c) \/ ReconcileFailure(c)
  <2>1. jpc'[c] \in {"settled", "start"}
    BY <1>1, <1>12, SettleMoves, GotoMoves
       DEF PublishProof, PublishSuccessor, ReconcileFailure, PublishEvidence
  <2> QED
    BY <1>3, <2>1 DEF Leased
<1> QED
  BY <1>4, <1>5, <1>6, <1>7, <1>8, <1>9, <1>10, <1>11, <1>12 DEF JobStep

LEMMA RowOwnSteps ==
  ASSUME TypeOK, OwnInv, [Next]_vars
  PROVE  \A r \in Row : RowOwn(r)'
<1> SUFFICES ASSUME NEW r \in Row
             PROVE  RowOwn(r)'
  OBVIOUS
<1>1. LineStays
  BY LineAlways
<1>2. /\ Of(pool[r].acc, r) /\ Of(pool[r].ref, r) /\ pool[r] \in PoolRow
      /\ pool[r].acc \in Token /\ pool[r].ref \in Token
  BY TokensAreNumbers DEF OwnInv, RowOwn, TypeOK, StoreOK
<1>3. /\ pool[r].acc <= minted' /\ tok'[pool[r].acc].row = r
      /\ pool[r].ref <= minted' /\ tok'[pool[r].ref].row = r
  BY <1>1, <1>2, OwnStays
<1>4. CASE pool'[r].acc = pool[r].acc /\ pool'[r].ref = pool[r].ref
  BY <1>3, <1>4 DEF RowOwn, Of
<1>5. ASSUME NEW c \in Caller, Commit(c)
      PROVE  RowOwn(r)'
  <2>1. CASE pool' = pool
    BY <1>4, <2>1
  <2>2. CASE pool' = Quarantined(c) \/ pool' = WithSuccessor(c)
    <3> DEFINE new == pool'[r]
    <3>1. \/ new = Quarantined(c)[r]
          \/ new = WithSuccessor(c)[r]
      BY <2>2
    <3>2. \/ new.acc = pool[r].acc /\ new.ref = pool[r].ref
          \/ r = job[c].req.row /\ new.acc = job[c].succ.acc /\ new.ref = job[c].succ.ref
      BY <1>5, <3>1, SuccessorFields
    <3>3. /\ Of(job[c].succ.acc, job[c].req.row) /\ Of(job[c].succ.ref, job[c].req.row)
          /\ job[c].succ.acc \in Token /\ job[c].succ.ref \in Token
      BY <1>5, JobFields DEF Commit, OwnInv, JobOwn, Using, TypeOK
    <3>4. /\ job[c].succ.acc <= minted' /\ tok'[job[c].succ.acc].row = job[c].req.row
          /\ job[c].succ.ref <= minted' /\ tok'[job[c].succ.ref].row = job[c].req.row
      BY <1>1, <3>3, OwnStays
    <3> QED
      BY <1>4, <3>2, <3>4 DEF RowOwn, Of
  <2> QED
    BY <1>5, <2>1, <2>2 DEF Commit
<1>6. ASSUME NEW q \in Row, UserStep(q)
      PROVE  RowOwn(r)'
  <2>1. CASE r = q /\ SignIn(q)
    <3>1. PICK a \in Account :
            /\ Mint(r, a, TRUE)
            /\ pool' = [pool EXCEPT ![r] = [@ EXCEPT !.epoch = pool[r].epoch + 1, !.ident = a,
                                                     !.acc = minted + 1, !.ref = minted + 1]]
      BY <2>1 DEF SignIn
    <3>2. pool'[r].acc = minted + 1 /\ pool'[r].ref = minted + 1
      BY <1>2, <3>1 DEF PoolRow, TypeOK, StoreOK
    <3>3. minted + 1 <= minted' /\ tok'[minted + 1].row = r
      BY <3>1, MintLine
    <3> QED
      BY <3>2, <3>3 DEF RowOwn, Of
  <2>2. CASE r = q /\ Disable(q)
    <3>1. pool'[r].acc = pool[r].acc /\ pool'[r].ref = pool[r].ref
      BY <1>2, <2>2 DEF Disable, PoolRow, TypeOK, StoreOK
    <3> QED
      BY <1>4, <3>1
  <2>3. CASE r = q /\ ForeignRefresh(q)
    <3>1. PICK keep \in BOOLEAN :
            /\ \E a : Mint(r, a, TRUE)
            /\ pool' = [pool EXCEPT ![r] = [@ EXCEPT !.acc = Minted(pool[r].ref, keep).acc,
                                                     !.ref = Minted(pool[r].ref, keep).ref]]
      BY <2>3 DEF ForeignRefresh, Possible
    <3> DEFINE mat == Minted(pool[r].ref, keep)
    <3>2. mat.acc = minted + 1 /\ mat.ref \in {pool[r].ref, minted + 1}
      BY DEF Minted
    <3> HIDE DEF mat
    <3>3. pool'[r].acc = mat.acc /\ pool'[r].ref = mat.ref
      BY <1>2, <3>1 DEF PoolRow, TypeOK, StoreOK, mat
    <3>4. minted + 1 <= minted' /\ tok'[minted + 1].row = r
      BY <3>1, MintLine
    <3> QED
      BY <1>3, <3>2, <3>3, <3>4 DEF RowOwn, Of
  <2>4. CASE pool'[r] = pool[r]
    BY <1>4, <2>4
  <2>5. pool'[r] = pool[r] \/ (r = q /\ (SignIn(q) \/ Disable(q) \/ ForeignRefresh(q)))
    BY <1>6 DEF UserStep, SignIn, InitializeEpoch, ResetBackoff, BackoffElapses, Disable,
       ForeignRefresh, TypeOK, StoreOK
  <2> QED
    BY <2>1, <2>2, <2>3, <2>4, <2>5
<1>7. CASE pool' = pool
  BY <1>4, <1>7
<1> QED
  BY <1>5, <1>6, <1>7, PoolWriters

\* A call captures its own row.
LEMMA CallOwnSteps ==
  ASSUME TypeOK, OwnInv, NEW c \in Caller, Begin(c) \/ CallStep(c)
  PROVE  \A d \in Caller : CallOwn(d)'
<1>1. CallsOK /\ UNCHANGED <<tok, minted, pool>>
  BY CallsOnlyStart DEF TypeOK, providerVars, storeVars
<1>2. /\ call[c] \in Call /\ call[c].req \in Request /\ call[c].req.row \in Row
  BY <1>1, CallFields
<1>3. ASSUME NEW pc, NEW x, cpc' = [cpc EXCEPT ![c] = pc], call' = [call EXCEPT ![c] = x],
             pc \in {"admit", "final"} => x.seen = pool[x.req.row] /\ x.req.row \in Row
      PROVE  \A d \in Caller : CallOwn(d)'
  <2> SUFFICES ASSUME NEW d \in Caller
               PROVE  CallOwn(d)'
    OBVIOUS
  <2>1. CASE d = c
    <3>1. cpc'[d] = pc /\ call'[d] = x
      BY <1>1, <1>3, <2>1 DEF CallsOK
    <3> QED
      BY <1>1, <1>3, <3>1 DEF CallOwn, OwnInv, RowOwn, Of
  <2>2. CASE d # c
    <3>1. cpc'[d] = cpc[d] /\ call'[d] = call[d] /\ CallOwn(d)
      BY <1>1, <1>3, <2>2 DEF CallsOK, OwnInv
    <3> QED
      BY <1>1, <3>1 DEF CallOwn, Of
  <2> QED
    BY <2>1, <2>2
<1>4. CASE ReadRow(c)
  <2>1. PICK i, j : call' = [call EXCEPT ![c] = [@ EXCEPT !.req = [call[c].req EXCEPT !.ident = i],
                                                        !.seen = pool[call[c].req.row], !.joined = j]]
    BY <1>4 DEF ReadRow
  <2> DEFINE b == [call[c].req EXCEPT !.ident = i]
             x == [call[c] EXCEPT !.req = b, !.seen = pool[call[c].req.row], !.joined = j]
  <2>2. call' = [call EXCEPT ![c] = x] /\ cpc' = [cpc EXCEPT ![c] = "admit"]
    BY <1>1, <1>4, <2>1 DEF CallsOK, ReadRow
  <2>3. b.row = call[c].req.row
    BY <1>2 DEF Request
  <2> HIDE DEF b
  <2>4. x.req = b /\ x.seen = pool[call[c].req.row]
    BY <1>2 DEF Call
  <2> HIDE DEF x
  <2> QED
    BY <1>2, <1>3, <2>2, <2>3, <2>4
<1>5. CASE TakeResult(c) /\ cpc' = [cpc EXCEPT ![c] = "final"]
  <2> DEFINE jr == job[call[c].joined]
             i == IF call[c].req.ident = NoId /\ jr.result = "rotated" THEN jr.learned
                  ELSE call[c].req.ident
  <2>1. call' = [call EXCEPT ![c].seen = pool[call[c].req.row], ![c].req.ident = i]
    <3>1. cpc[c] = "waiting" /\ cpc'[c] = "final"
      BY <1>1, <1>5 DEF TakeResult, CallsOK
    <3>2. ~\E kind, acc, expect : Finish(c, kind, acc, expect)
      BY <1>1, <3>1 DEF Finish, CallsOK
    <3> QED
      BY <1>5, <3>2 DEF TakeResult
  <2> HIDE DEF i
  <2> DEFINE y == [call[c] EXCEPT !.seen = pool[call[c].req.row]]
             b == [y.req EXCEPT !.ident = i]
             x == [y EXCEPT !.req = b]
  <2>2. call' = [call EXCEPT ![c] = x]
    BY <1>1, <1>2, <2>1 DEF CallsOK
  <2>3. y.req = call[c].req /\ b.row = call[c].req.row
    BY <1>2 DEF Request, Call
  <2> HIDE DEF b
  <2>4. x.req = b /\ x.seen = pool[call[c].req.row]
    BY <1>2 DEF Call
  <2> HIDE DEF x
  <2> QED
    BY <1>2, <1>3, <1>5, <2>2, <2>3, <2>4
<1>6. CASE \E pc \in {"read", "waiting", "done"} :
             cpc' = [cpc EXCEPT ![c] = pc] /\ \E x : call' = [call EXCEPT ![c] = x]
  BY <1>3, <1>6
<1>7. CASE \E kind, acc, expect : Finish(c, kind, acc, expect)
  BY <1>6, <1>7 DEF Finish
<1>8. CASE \E b, j, bs : JoinOrStart(c, b, j, bs)
  BY <1>6, <1>8 DEF JoinOrStart
<1>9. CASE Begin(c)
  BY <1>6, <1>8, <1>9, Beginnings
<1>10. CASE AdmitCurrent(c)
  BY <1>7, <1>8, <1>10 DEF AdmitCurrent
<1>11. CASE JoinTimeout(c) \/ FinalAdmit(c) \/ (TakeResult(c) /\ cpc' # [cpc EXCEPT ![c] = "final"])
  BY <1>7, <1>11 DEF JoinTimeout, FinalAdmit, TakeResult
<1> QED
  BY <1>4, <1>5, <1>9, <1>10, <1>11 DEF CallStep

LEMMA StepKeepsOwn ==
  ASSUME TypeOK, OwnInv, [Next]_vars
  PROVE  OwnInv'
<1>1. LineStays /\ \A r \in Row : RowOwn(r)'
  BY LineAlways, RowOwnSteps
<1>2. ASSUME NEW d \in Caller, call'[d] = call[d], cpc'[d] = cpc[d]
      PROVE  CallOwn(d)'
  <2>1. call[d].seen.acc \in Token /\ CallOwn(d)
    BY CallFields DEF TypeOK, OwnInv
  <2> QED
    BY <1>1, <1>2, <2>1, OwnStays DEF CallOwn, Of
<1>3. ASSUME NEW d \in Caller, \/ jpc'[d] = jpc[d] /\ job'[d] = job[d]
                               \/ jpc'[d] \in {"start", "dead"}
      PROVE  JobOwn(d)'
  BY <1>1, <1>3, KeptOwn DEF Leased, Using
<1>4. CASE \E c \in Caller : Begin(c) \/ CallStep(c)
  <2>1. PICK c \in Caller : Begin(c) \/ CallStep(c)
    BY <1>4
  <2>2. \A d \in Caller : CallOwn(d)'
    BY <2>1, CallOwnSteps
  <2>3. \A d \in Caller : \/ jpc'[d] = jpc[d] /\ job'[d] = job[d]
                         \/ jpc'[d] \in {"start", "dead"}
    BY <2>1, CallsOnlyStart DEF TypeOK, JobsOK
  <2> QED
    BY <1>1, <1>3, <2>2, <2>3 DEF OwnInv
<1>5. CASE ~\E c \in Caller : Begin(c) \/ CallStep(c)
  <2>1. \A d \in Caller : CallOwn(d)'
    <3>1. \A d \in Caller : \/ call'[d] = call[d] /\ cpc'[d] = cpc[d]
                           \/ cpc'[d] = "crashed"
      BY <1>5, CallsRest
    <3> QED
      BY <1>2, <3>1 DEF CallOwn
  <2>2. CASE \E c \in Caller : JobStep(c) \/ Abort(c)
    BY <1>1, <2>1, <2>2, JobOwnSteps DEF OwnInv
  <2>3. CASE ~\E c \in Caller : JobStep(c) \/ Abort(c)
    <3>1. \A d \in Caller : \/ jpc'[d] = jpc[d] /\ job'[d] = job[d]
                           \/ jpc'[d] \in {"start", "dead"}
      <4>1. CASE \E p \in Process : Crash(p)
        BY <4>1 DEF Crash
      <4>2. CASE UNCHANGED <<jpc, job>>
        BY <4>2
      <4>3. CASE \E r \in Row : UserStep(r)
        BY <4>2, <4>3 DEF UserStep, SignIn, InitializeEpoch, ResetBackoff, BackoffElapses, Disable,
           ForeignRefresh, jobVars
      <4>4. CASE \/ \E c \in Caller : Stall(c) \/ EvictStale(c)
                 \/ \E t \in 1..MaxTok : AccessExpires(t)
                 \/ AllDone \/ UNCHANGED vars
        BY <4>2, <4>4 DEF Stall, EvictStale, AccessExpires, AllDone, vars, jobVars
      <4> QED
        BY <1>5, <2>3, <4>1, <4>3, <4>4 DEF Next
    <3> QED
      BY <1>1, <1>3, <2>1, <3>1 DEF OwnInv
  <2> QED
    BY <2>2, <2>3
<1> QED
  BY <1>4, <1>5

LEMMA InitOwn == Init => OwnInv
<1> SUFFICES ASSUME Init PROVE OwnInv
  OBVIOUS
<1>1. PICK ident \in [Row -> Identity], owner \in [Row -> Account] :
        /\ pool = [r \in Row |-> [epoch |-> 1, ident |-> ident[r], acc |-> r, ref |-> r,
                                   on |-> TRUE]]
        /\ tok = [n \in Token |->
                    IF n \in Row THEN [acct |-> owner[n], row |-> n, ok |-> TRUE]
                    ELSE [acct |-> NoId, row |-> 0, ok |-> FALSE]]
  BY DEF Init
<1>2. minted = NRows /\ Row \subseteq Token
  BY ConstantsOK, MetadataConstantsOK DEF Init, Row, Token
<1>3. ASSUME NEW r \in Row PROVE RowOwn(r)
  <2>1. tok[r].row = r /\ pool[r].acc = r /\ pool[r].ref = r
    BY <1>1, <1>2
  <2>2. r <= minted
    BY <1>2 DEF Row
  <2> QED
    BY <2>1, <2>2 DEF RowOwn, Of
<1>4. ASSUME NEW c \in Caller PROVE CallOwn(c) /\ JobOwn(c)
  BY DEF Init, CallOwn, JobOwn, Leased, Using
<1> QED
  BY <1>3, <1>4 DEF OwnInv

\* ServesNothingRejected: a call is served a token of its own row, never the one it
\* reported, and never one that a 401 barred at the job it waited for.
THEOREM NothingRejectedIsServed == Spec => ServesNothingRejected
<1> DEFINE Good(c) == /\ tok[call'[c].acc].row = call[c].req.row
                      /\ call'[c].acc # call[c].req.rej
                      /\ cpc[c] = "final" => call'[c].acc \notin barred[call[c].joined]
<1>1. ASSUME TypeOK, OwnInv, [Next]_vars, NEW c \in Caller, Serves(c)
      PROVE  Good(c)
  <2>1. CallsOK /\ JobsOK /\ cpc[c] # "done" /\ cpc'[c] = "done" /\ call'[c].kind = "usable"
    BY <1>1 DEF TypeOK, Serves
  <2>2. PICK d \in Caller : Begin(d) \/ CallStep(d)
    BY <1>1, <2>1, CallsRest
  <2>3. d = c /\ ~Begin(c)
    <3>1. CASE Begin(d)
      <4>1. cpc' = [cpc EXCEPT ![d] = "read"] \/ cpc' = [cpc EXCEPT ![d] = "waiting"]
        BY <3>1, Beginnings DEF JoinOrStart
      <4> QED
        BY <2>1, <4>1 DEF CallsOK
    <3>2. CASE CallStep(d) /\ d # c
      <4>1. \E pc : cpc' = [cpc EXCEPT ![d] = pc]
        BY <3>2 DEF CallStep, ReadRow, AdmitCurrent, JoinTimeout, TakeResult, FinalAdmit,
           JoinOrStart, Finish
      <4> QED
        BY <2>1, <3>2, <4>1 DEF CallsOK
    <3> QED
      BY <2>2, <3>1, <3>2
  <2>4. \A kind, acc, expect : Finish(c, kind, acc, expect) =>
          call'[c].kind = kind /\ call'[c].acc = acc
    BY <2>1 DEF Finish, CallsOK, NoCall
  <2>5. CASE AdmitCurrent(c)
    <3>1. /\ Usable(c, call[c].req, call[c].seen) /\ cpc[c] = "admit"
          /\ Finish(c, "usable", call[c].seen.acc, call[c].req.ident)
      BY <2>1, <2>4, <2>5 DEF AdmitCurrent, JoinOrStart, CallsOK
    <3>2. Of(call[c].seen.acc, call[c].req.row)
      BY <1>1, <3>1 DEF OwnInv, CallOwn
    <3> QED
      BY <2>4, <3>1, <3>2 DEF Usable, Of
  <2>6. CASE FinalAdmit(c)
    <3>1. /\ Usable(c, call[c].req, call[c].seen) /\ cpc[c] = "final"
          /\ ~JobRejects(call[c].joined, call[c].seen.acc, barred)
          /\ Finish(c, "usable", call[c].seen.acc, call[c].req.ident)
      BY <2>1, <2>4, <2>6 DEF FinalAdmit
    <3>2. Of(call[c].seen.acc, call[c].req.row) /\ call[c].joined # NoCaller
      BY <1>1, <2>1, <3>1, ConstantsOK DEF OwnInv, CallOwn, CallsOK
    <3> QED
      BY <2>4, <3>1, <3>2 DEF Usable, Of, JobRejects
  <2>7. CASE JoinTimeout(c) \/ TakeResult(c)
    BY <2>1, <2>4, <2>7 DEF JoinTimeout, TakeResult, CallsOK
  <2>8. CASE ReadRow(c)
    BY <2>1, <2>8 DEF ReadRow, CallsOK
  <2> QED
    BY <2>2, <2>3, <2>5, <2>6, <2>7, <2>8 DEF CallStep
<1>2. TypeOK /\ OwnInv /\ [Next]_vars =>
        [\A c \in Caller : Serves(c) =>
           /\ tok[call'[c].acc].row = call[c].req.row
           /\ call'[c].acc # call[c].req.rej
           /\ cpc[c] = "final" => call'[c].acc \notin barred[call[c].joined]]_vars
  BY <1>1
<1>3. TypeOK /\ OwnInv /\ [Next]_vars => OwnInv'
  BY StepKeepsOwn
<1> QED
  BY <1>2, <1>3, InitOwn, TypeCorrect, PTL DEF Spec, ServesNothingRejected

-----------------------------------------------------------------------------
(* No successor is lost: while a consumed token is still in the pool, the job *)
(* that consumed it has its successor, and the row will take it.              *)

\* The provider replaced the refresh token job c sent.
Took(c) == jpc[c] \in Using /\ job[c].succ.ref # job[c].row.ref

\* Such a successor is the job's alone until it is written.
Unseen(c) == Took(c) =>
  /\ job[c].succ.ref \in live
  /\ \A q \in Row : pool[q].ref # job[c].succ.ref
  /\ \A d \in Caller : job[d].row.ref # job[c].succ.ref
  /\ \A d \in Caller \ {c} : Took(d) => job[d].succ.ref # job[c].succ.ref

\* Under the row's lease a captured credential that is still stored may be replaced.
Captured == {"recheck", "exchange"} \cup Using
HoldsRow(c) ==
  jpc[c] \in Captured /\ rowLock[job[c].req.row] = c /\ pool[job[c].req.row].ref = job[c].row.ref =>
    ~RefusesWrite(c, pool[job[c].req.row])

KeptRow(r) ==
  \/ pool[r].ref \in live \cup burnt
  \/ \E c \in Caller : Took(c) /\ job[c].req.row = r /\ job[c].row.ref = pool[r].ref
KeptInv ==
  /\ \A c \in Caller : Unseen(c) /\ HoldsRow(c)
  /\ \A r \in Row : KeptRow(r)

LEMMA HoldsStill ==
  ASSUME TypeOK, NEW c \in Caller, HoldsRow(c), UNCHANGED pool,
         jpc'[c] \in Captured =>
           /\ jpc[c] \in Captured /\ job'[c].row = job[c].row /\ job'[c].req = job[c].req
           /\ rowLock'[job[c].req.row] = c => rowLock[job[c].req.row] = c
  PROVE  HoldsRow(c)'
<1> SUFFICES ASSUME jpc'[c] \in Captured, rowLock'[job'[c].req.row] = c,
                    pool'[job'[c].req.row].ref = job'[c].row.ref
             PROVE  ~RefusesWrite(c, pool[job[c].req.row])'
  BY DEF HoldsRow
<1>1. ~RefusesWrite(c, pool[job[c].req.row])
  BY DEF HoldsRow
<1> QED
  BY <1>1 DEF RefusesWrite, SameBinding, MaterialOf

\* A step of job c that stores nothing and gives up no successor.
Quiet(c) ==
  /\ OthersStay(c) /\ UNCHANGED <<pool, live>> /\ burnt \subseteq burnt'
  /\ \A l \in Row, d \in Caller \ {c} : rowLock'[l] = d => rowLock[l] = d
  /\ job'[c].row.ref \in {job[c].row.ref, pool[job[c].req.row].ref, 0}
  /\ jpc'[c] \in Using => /\ jpc[c] \in Using /\ job'[c].row = job[c].row
                          /\ job'[c].succ = job[c].succ /\ job'[c].req = job[c].req
  /\ jpc[c] \in Using => \/ jpc'[c] \in Using
                         \/ job[c].row.ref \in burnt'
                         \/ pool[job[c].req.row].ref # job[c].row.ref

LEMMA QuietUnseen ==
  ASSUME TypeOK, KeptInv, NEW c \in Caller, Quiet(c)
  PROVE  \A d \in Caller : Unseen(d)'
<1> SUFFICES ASSUME NEW d \in Caller, Took(d)'
             PROVE  /\ job'[d].succ.ref \in live'
                    /\ \A q \in Row : pool'[q].ref # job'[d].succ.ref
                    /\ \A e \in Caller : job'[e].row.ref # job'[d].succ.ref
                    /\ \A e \in Caller \ {d} : Took(e)' => job'[e].succ.ref # job'[d].succ.ref
  BY DEF Unseen
<1>1. \A e \in Caller : Took(e)' => Took(e) /\ job'[e].succ = job[e].succ
  BY DEF Quiet, OthersStay, Took
<1>2. Took(d) /\ job'[d].succ = job[d].succ /\ Unseen(d)
  BY <1>1 DEF KeptInv
<1>3. job[d].succ.ref # 0
  BY <1>2 DEF Unseen, TypeOK, ProviderOK
<1>4. \A q \in Row : pool'[q].ref # job'[d].succ.ref
  BY <1>2 DEF Unseen, Quiet
<1>5. ASSUME NEW e \in Caller
      PROVE  job'[e].row.ref # job'[d].succ.ref
  <2>1. job[c].req.row \in Row
    BY JobFields DEF TypeOK
  <2>2. CASE e = c
    BY <1>2, <1>3, <2>1, <2>2 DEF Unseen, Quiet
  <2>3. CASE e # c
    BY <1>2, <2>3 DEF Unseen, Quiet, OthersStay
  <2> QED
    BY <2>2, <2>3
<1>6. \A e \in Caller \ {d} : Took(e)' => job'[e].succ.ref # job'[d].succ.ref
  BY <1>1, <1>2 DEF Unseen
<1> QED
  BY <1>2, <1>4, <1>5, <1>6 DEF Unseen, Quiet

LEMMA QuietRows ==
  ASSUME TypeOK, KeptInv, NEW c \in Caller, Quiet(c)
  PROVE  \A r \in Row : KeptRow(r)'
<1> SUFFICES ASSUME NEW r \in Row
             PROVE  KeptRow(r)'
  OBVIOUS
<1>1. UNCHANGED <<pool, live>> /\ burnt \subseteq burnt' /\ KeptRow(r)
  BY DEF Quiet, KeptInv
<1>2. CASE pool[r].ref \in live \cup burnt
  BY <1>1, <1>2 DEF KeptRow
<1>3. ASSUME NEW d \in Caller, Took(d), job[d].req.row = r, job[d].row.ref = pool[r].ref
      PROVE  KeptRow(r)'
  <2>1. CASE d # c
    <3>1. jpc'[d] = jpc[d] /\ job'[d] = job[d]
      BY <2>1 DEF Quiet, OthersStay
    <3> QED
      BY <1>1, <1>3, <3>1 DEF KeptRow, Took
  <2>2. CASE d = c /\ jpc'[c] \in Using
    <3>1. job'[c].row = job[c].row /\ job'[c].succ = job[c].succ /\ job'[c].req = job[c].req
      BY <2>2 DEF Quiet
    <3> QED
      BY <1>1, <1>3, <2>2, <3>1 DEF KeptRow, Took
  <2>3. CASE d = c /\ job[c].row.ref \in burnt'
    BY <1>1, <1>3, <2>3 DEF KeptRow
  <2> QED
    BY <1>3, <2>1, <2>2, <2>3 DEF Quiet, Took
<1> QED
  BY <1>1, <1>2, <1>3 DEF KeptRow

LEMMA QuietKept ==
  ASSUME TypeOK, KeptInv, NEW c \in Caller, Quiet(c), HoldsRow(c)'
  PROVE  KeptInv'
<1>1. ASSUME NEW d \in Caller, d # c
      PROVE  HoldsRow(d)'
  <2>1. job[d].req.row \in Row /\ HoldsRow(d)
    BY JobFields DEF TypeOK, KeptInv
  <2> QED
    BY <1>1, <2>1, HoldsStill DEF Quiet, OthersStay
<1> QED
  BY <1>1, QuietUnseen, QuietRows DEF KeptInv

LEMMA FreeingQuiet ==
  ASSUME TypeOK, NEW c \in Caller, ReleaseAll(c) \/ UNCHANGED lockVars
  PROVE  \A l \in Row, d \in Caller : rowLock'[l] = d => rowLock[l] = d
BY ConstantsOK DEF TypeOK, LeasesOK, ReleaseAll, FreedBy, lockVars

LEMMA SettleKept ==
  ASSUME TypeOK, KeptInv, NEW c \in Caller, NEW result, Settle(c, result),
         UNCHANGED <<pool, live>>, burnt \subseteq burnt', ReleaseAll(c) \/ UNCHANGED lockVars,
         \/ jpc[c] \notin Using \/ job[c].row.ref \in burnt'
         \/ pool[job[c].req.row].ref # job[c].row.ref
  PROVE  KeptInv'
<1>1. OthersStay(c) /\ jpc'[c] = "settled" /\ job'[c].row = NoRow /\ NoRow.ref = 0
  BY SettleForgets DEF TypeOK, NoRow
<1>2. Quiet(c)
  BY <1>1, FreeingQuiet DEF Quiet, Using
<1>3. HoldsRow(c)'
  BY <1>1 DEF HoldsRow, Captured, Using
<1> QED
  BY <1>2, <1>3, QuietKept

LEMMA GoKept ==
  ASSUME TypeOK, KeptInv, NEW c \in Caller, NEW pc, Goto(c, pc), pc \notin Captured,
         jpc[c] \notin Using, UNCHANGED <<pool, live, burnt>>,
         \A l \in Row, d \in Caller \ {c} : rowLock'[l] = d => rowLock[l] = d,
         \/ job' = job
         \/ job' = [job EXCEPT ![c].row = pool[job[c].req.row]]
         \/ \E x : job' = [job EXCEPT ![c].ctx = x]
         \/ \E x : job' = [job EXCEPT ![c].fail = x]
  PROVE  KeptInv'
<1>1. JobsOK /\ jpc'[c] = pc /\ \A d \in Caller \ {c} : jpc'[d] = jpc[d]
  BY GotoMoves DEF TypeOK
<1>2. OthersStay(c) /\ job'[c].row.ref \in {job[c].row.ref, pool[job[c].req.row].ref}
  BY <1>1 DEF OthersStay, JobsOK, Job
<1>3. Quiet(c)
  BY <1>1, <1>2 DEF Quiet, Captured
<1>4. HoldsRow(c)'
  BY <1>1 DEF HoldsRow
<1> QED
  BY <1>3, <1>4, QuietKept

LEMMA SurveyKept ==
  ASSUME TypeOK, KeptInv, NEW c \in Caller,
         SurveyRow(c) \/ SurveyPolicy(c) \/ Adopt(c) \/ ValidateAccess(c)
  PROVE  KeptInv'
<1>1. /\ UNCHANGED <<pool, live, burnt, lockVars>> /\ rowLock' = rowLock
      /\ jpc[c] \in {"start", "policy", "adopt", "validate"}
  BY DEF SurveyRow, SurveyPolicy, Adopt, ValidateAccess, JobUnchanged, storeVars, providerVars, lockVars
<1>2. CASE \E result : Settle(c, result)
  BY <1>1, <1>2, SettleKept DEF Using
<1>3. CASE \E pc \in {"policy", "adopt", "rowlock", "validate", "failed", "proof"} :
             /\ Goto(c, pc)
             /\ \/ job' = job
                \/ job' = [job EXCEPT ![c].row = pool[job[c].req.row]]
                \/ \E x : job' = [job EXCEPT ![c].ctx = x]
                \/ \E x : job' = [job EXCEPT ![c].fail = x]
  BY <1>1, <1>3, GoKept DEF Using, Captured
<1>4. CASE SurveyRow(c)
  BY <1>2, <1>3, <1>4 DEF SurveyRow
<1>5. CASE SurveyPolicy(c)
  BY <1>2, <1>3, <1>5 DEF SurveyPolicy
<1>6. CASE Adopt(c)
  BY <1>2, <1>3, <1>6 DEF Adopt
<1>7. CASE ValidateAccess(c)
  BY <1>2, <1>3, <1>7 DEF ValidateAccess
<1> QED
  BY <1>4, <1>5, <1>6, <1>7

LEMMA LockKept ==
  ASSUME TypeOK, KeptInv, NEW c \in Caller,
         LockRow(c) \/ LockProvider(c) \/ LockTimeout(c) \/ RecheckPolicy(c)
  PROVE  KeptInv'
<1>1. /\ UNCHANGED <<pool, live, burnt>> /\ JobsOK /\ LeasesOK
      /\ jpc[c] \in {"rowlock", "provlock", "recheck"} /\ job[c].req.row \in Row
  BY JobFields
     DEF LockRow, LockProvider, LockTimeout, RecheckPolicy, JobUnchanged, storeVars, providerVars,
         TypeOK
<1>2. CASE (\E result : Settle(c, result)) /\ (ReleaseAll(c) \/ UNCHANGED lockVars)
  BY <1>1, <1>2, SettleKept DEF Using
<1>3. CASE LockRow(c)
  <2>1. \A l \in Row, d \in Caller \ {c} : rowLock'[l] = d => rowLock[l] = d
    BY <1>1, <1>3 DEF LockRow, LeasesOK
  <2>2. Goto(c, "provlock") /\ job' = job
    BY <1>3 DEF LockRow, JobUnchanged
  <2> QED
    BY <1>1, <2>1, <2>2, GoKept DEF Using, Captured
<1>4. CASE LockProvider(c)
  <2>1. CASE /\ Eligible(c, pool[job[c].req.row])
             /\ job' = [job EXCEPT ![c].row = pool[job[c].req.row]]
             /\ Goto(c, "recheck") /\ UNCHANGED rowLock
    <3>1. /\ jpc'[c] = "recheck" /\ \A d \in Caller \ {c} : jpc'[d] = jpc[d]
      BY <1>1, <2>1, GotoMoves
    <3>2. OthersStay(c) /\ job'[c].row = pool[job[c].req.row] /\ job'[c].req = job[c].req
      BY <1>1, <2>1, <3>1 DEF OthersStay, JobsOK, Job
    <3>3. Quiet(c)
      BY <1>1, <2>1, <3>1, <3>2 DEF Quiet, Using
    <3>4. ~RefusesWrite(c, pool[job[c].req.row])'
      BY <1>1, <2>1, <3>2 DEF Eligible, RefusesWrite, SameBinding
    <3>5. HoldsRow(c)'
      BY <3>2, <3>4 DEF HoldsRow
    <3> QED
      BY <3>3, <3>5, QuietKept
  <2> QED
    BY <1>2, <1>4, <2>1 DEF LockProvider
<1>5. CASE LockTimeout(c)
  BY <1>2, <1>5 DEF LockTimeout
<1>6. CASE RecheckPolicy(c)
  <2>1. CASE /\ \E x : job' = [job EXCEPT ![c].ctx = x]
             /\ Goto(c, "exchange") /\ UNCHANGED lockVars /\ jpc[c] = "recheck"
    <3>1. /\ jpc'[c] = "exchange" /\ \A d \in Caller \ {c} : jpc'[d] = jpc[d]
      BY <1>1, <2>1, GotoMoves
    <3>2. OthersStay(c) /\ job'[c].row = job[c].row /\ job'[c].req = job[c].req
      BY <1>1, <2>1, <3>1 DEF OthersStay, JobsOK, Job
    <3>3. Quiet(c)
      BY <1>1, <2>1, <3>1, <3>2 DEF Quiet, Using, lockVars
    <3>4. HoldsRow(c)'
      BY <1>1, <2>1, <3>2, HoldsStill DEF Captured, KeptInv, lockVars
    <3> QED
      BY <3>3, <3>4, QuietKept
  <2> QED
    BY <1>2, <1>6, <2>1 DEF RecheckPolicy
<1> QED
  BY <1>3, <1>4, <1>5, <1>6

\* What is minted next is nobody's yet.
LEMMA NextIsNew ==
  ASSUME TypeOK, TokenInv
  PROVE  /\ minted \in Nat /\ live \subseteq Nat
         /\ \A q \in Row : pool[q].ref \in Nat /\ pool[q].ref <= minted /\ pool[q].ref # minted + 1
         /\ \A d \in Caller : /\ job[d].row.ref \in Nat /\ job[d].row.ref # minted + 1
                              /\ job[d].succ.ref \in Nat /\ job[d].succ.ref # minted + 1
<1>1. minted \in Nat /\ Token \subseteq Nat /\ live \subseteq Nat
  BY TokensAreNumbers DEF TypeOK, ProviderOK
<1>2. ASSUME NEW q \in Row
      PROVE  pool[q].ref \in Nat /\ pool[q].ref <= minted /\ pool[q].ref # minted + 1
  <2>1. pool[q].ref \in Nat
    BY <1>1, TokensAreNumbers
  <2>2. pool[q].ref <= minted
    BY DEF TokenInv, KnownRow
  <2> QED
    BY <1>1, <2>1, <2>2
<1>3. ASSUME NEW d \in Caller
      PROVE  /\ job[d].row.ref \in Nat /\ job[d].row.ref # minted + 1
             /\ job[d].succ.ref \in Nat /\ job[d].succ.ref # minted + 1
  <2>1. job[d].row.ref \in Nat /\ job[d].succ.ref \in Nat
    BY <1>1, JobFields DEF TypeOK
  <2>2. job[d].row.ref <= minted /\ job[d].succ.ref <= minted
    BY DEF TokenInv, JobTokens, KnownJob
  <2> QED
    BY <1>1, <2>1, <2>2
<1> QED
  BY <1>1, <1>2, <1>3

\* Only the row a refresh token descends from can hold it.
LEMMA HeldByItsRow ==
  ASSUME OwnInv, NEW c \in Caller, jpc[c] \in Leased, NEW q \in Row, pool[q].ref = job[c].row.ref
  PROVE  q = job[c].req.row
BY DEF OwnInv, RowOwn, JobOwn, Of

LEMMA ExchangeKept ==
  ASSUME TypeOK, TokenInv, OwnInv, KeptInv, NEW c \in Caller, ExchangeSucceeds(c)
  PROVE  KeptInv'
<1> DEFINE ref == job[c].row.ref
           new == minted + 1
<1>1. /\ jpc[c] = "exchange" /\ UNCHANGED <<pool, burnt, rowLock>> /\ ref \in live /\ JobsOK
      /\ jpc'[c] = "lookup" /\ \A d \in Caller \ {c} : jpc'[d] = jpc[d]
  BY GotoMoves DEF ExchangeSucceeds, storeVars, lockVars, TypeOK
<1>2. PICK keep \in BOOLEAN : /\ live' = Redeemed(ref, keep)
                              /\ job' = [job EXCEPT ![c].succ = Minted(ref, keep)]
  BY DEF ExchangeSucceeds, Possible
<1>3. /\ \A d \in Caller : job'[d].row = job[d].row /\ job'[d].req = job[d].req
      /\ \A d \in Caller \ {c} : job'[d] = job[d]
      /\ job'[c].succ.ref = IF keep THEN ref ELSE new
  BY <1>1, <1>2 DEF JobsOK, Job, Minted
<1>4. Took(c)' => live' = (live \ {ref}) \cup {new} /\ job'[c].succ.ref = new
  BY <1>2, <1>3 DEF Took, Redeemed
<1>5. \A d \in Caller \ {c} : Took(d)' => Took(d) /\ job'[d].succ = job[d].succ
  BY <1>1, <1>3 DEF Took
<1>6. ~Took(c)
  BY <1>1 DEF Took, Using
<1>7. ASSUME NEW n, n \in live, n # ref
      PROVE  n \in live'
  BY <1>2, <1>7 DEF Redeemed
<1>8. ASSUME NEW d \in Caller
      PROVE  Unseen(d)'
  <2>1. CASE d = c
    <3> SUFFICES ASSUME Took(c)'
                 PROVE  Unseen(c)'
      BY <2>1 DEF Unseen
    <3>1. job'[c].succ.ref = new /\ new \in live'
      BY <1>4
    <3>2. \A e \in Caller \ {c} : job'[e].succ.ref # new
      BY <1>3, NextIsNew
    <3>3. \A e \in Caller : job'[e].row.ref # new
      BY <1>3, NextIsNew
    <3>4. \A q \in Row : pool'[q].ref # new
      BY <1>1, NextIsNew
    <3> QED
      BY <3>1, <3>2, <3>3, <3>4 DEF Unseen
  <2>2. CASE d # c
    <3> SUFFICES ASSUME Took(d)'
                 PROVE  Unseen(d)'
      BY DEF Unseen
    <3>1. Took(d) /\ Unseen(d) /\ job'[d].succ = job[d].succ
      BY <1>5, <2>2 DEF KeptInv
    <3>2. job[d].succ.ref \in live /\ job[d].succ.ref # ref
      BY <3>1 DEF Unseen
    <3>3. job'[d].succ.ref \in live'
      BY <1>7, <3>1, <3>2
    <3>4. Took(c)' => job'[c].succ.ref # job'[d].succ.ref
      BY <1>4, <3>1, NextIsNew
    <3>5. \A e \in Caller \ {d} : Took(e)' => job'[e].succ.ref # job'[d].succ.ref
      BY <1>5, <3>1, <3>4 DEF Unseen
    <3> QED
      BY <1>1, <1>3, <3>1, <3>3, <3>5 DEF Unseen
  <2> QED
    BY <2>1, <2>2
<1>9. ASSUME NEW d \in Caller
      PROVE  HoldsRow(d)'
  <2>1. HoldsRow(d)
    BY DEF KeptInv
  <2>2. jpc'[d] \in Captured => jpc[d] \in Captured
    BY <1>1 DEF Captured
  <2> QED
    BY <1>1, <1>3, <2>1, <2>2, HoldsStill
<1>10. ASSUME NEW q \in Row
       PROVE  KeptRow(q)'
  <2>1. KeptRow(q) /\ pool'[q].ref = pool[q].ref
    BY <1>1 DEF KeptInv
  <2>2. CASE pool[q].ref \in live \cup burnt /\ pool[q].ref # ref
    BY <1>1, <1>7, <2>1, <2>2 DEF KeptRow
  <2>3. CASE pool[q].ref = ref
    <3>1. CASE keep
      BY <1>1, <1>2, <2>1, <2>3, <3>1 DEF KeptRow, Redeemed
    <3>2. CASE ~keep
      <4>1. q = job[c].req.row
        BY <1>1, <2>3, HeldByItsRow DEF Leased
      <4>2. ref # new
        BY NextIsNew
      <4>3. Took(c)'
        BY <1>1, <1>3, <3>2, <4>2 DEF Took, Using
      <4> QED
        BY <1>3, <2>1, <2>3, <4>1, <4>3 DEF KeptRow
    <3> QED
      BY <3>1, <3>2
  <2>4. ASSUME NEW d \in Caller, Took(d), job[d].req.row = q, job[d].row.ref = pool[q].ref
        PROVE  KeptRow(q)'
    <3>1. d # c
      BY <1>6, <2>4
    <3>2. Took(d)' /\ job'[d] = job[d]
      BY <1>1, <1>3, <2>4, <3>1 DEF Took
    <3> QED
      BY <2>1, <2>4, <3>2 DEF KeptRow
  <2> QED
    BY <2>1, <2>2, <2>3, <2>4 DEF KeptRow
<1> QED
  BY <1>8, <1>9, <1>10 DEF KeptInv

LEMMA FailureKept ==
  ASSUME TypeOK, KeptInv, NEW c \in Caller, ExchangeFails(c) \/ ExchangeLost(c)
  PROVE  KeptInv'
<1> DEFINE ref == job[c].row.ref
<1>1. /\ jpc[c] = "exchange" /\ UNCHANGED pool /\ ReleaseAll(c) /\ JobsOK
      /\ Goto(c, "failed") /\ \E x : job' = [job EXCEPT ![c].fail = x]
  BY DEF ExchangeFails, ExchangeLost, ExchangeEnds, JobUnchanged, storeVars, TypeOK
<1>2. \A l \in Row, d \in Caller \ {c} : rowLock'[l] = d => rowLock[l] = d
  BY <1>1, FreeingQuiet
<1>3. CASE ExchangeFails(c)
  <2>1. UNCHANGED <<pool, live, burnt>>
    BY <1>3 DEF ExchangeFails, JobUnchanged, storeVars, providerVars
  <2> QED
    BY <1>1, <1>2, <2>1, GoKept DEF Using, Captured
<1>4. CASE ExchangeLost(c)
  <2>1. live' = live \ {ref} /\ burnt' = burnt \cup {ref}
    BY <1>4 DEF ExchangeLost
  <2>2. /\ jpc'[c] = "failed" /\ \A d \in Caller \ {c} : jpc'[d] = jpc[d] /\ job'[d] = job[d]
        /\ job'[c].row = job[c].row /\ job'[c].req = job[c].req /\ job'[c].succ = job[c].succ
    BY <1>1, GotoMoves DEF JobsOK, Job
  <2>3. ~Took(c)' /\ \A d \in Caller : Took(d)' => Took(d) /\ job'[d].succ = job[d].succ
    BY <2>2 DEF Took, Using
  <2>4. ASSUME NEW d \in Caller
        PROVE  Unseen(d)'
    <3> SUFFICES ASSUME Took(d)'
                 PROVE  Unseen(d)'
      BY DEF Unseen
    <3>1. Took(d) /\ Unseen(d) /\ job'[d].succ = job[d].succ
      BY <2>3 DEF KeptInv
    <3>2. job[d].succ.ref \in live /\ job[d].succ.ref # ref
      BY <3>1 DEF Unseen
    <3>3. \A e \in Caller : job'[e].row.ref # job'[d].succ.ref
      BY <2>2, <3>1 DEF Unseen
    <3>4. \A e \in Caller \ {d} : Took(e)' => job'[e].succ.ref # job'[d].succ.ref
      BY <2>3, <3>1 DEF Unseen
    <3> QED
      BY <1>1, <2>1, <3>1, <3>2, <3>3, <3>4 DEF Unseen
  <2>5. ASSUME NEW d \in Caller
        PROVE  HoldsRow(d)'
    <3>1. HoldsRow(d) /\ job[d].req.row \in Row
      BY JobFields DEF KeptInv, TypeOK
    <3>2. CASE d = c
      BY <2>2, <3>2 DEF HoldsRow, Captured, Using
    <3> QED
      BY <1>1, <1>2, <2>2, <3>1, <3>2, HoldsStill
  <2>6. ASSUME NEW q \in Row
        PROVE  KeptRow(q)'
    <3>1. KeptRow(q) /\ pool'[q].ref = pool[q].ref
      BY <1>1 DEF KeptInv
    <3>2. CASE pool[q].ref \in live \cup burnt
      BY <2>1, <3>1, <3>2 DEF KeptRow
    <3>3. ASSUME NEW d \in Caller, Took(d), job[d].req.row = q, job[d].row.ref = pool[q].ref
          PROVE  KeptRow(q)'
      <4>1. d # c
        BY <1>1, <3>3 DEF Took, Using
      <4>2. Took(d)' /\ job'[d] = job[d]
        BY <2>2, <3>3, <4>1 DEF Took
      <4> QED
        BY <3>1, <3>3, <4>2 DEF KeptRow
    <3> QED
      BY <3>1, <3>2, <3>3 DEF KeptRow
  <2> QED
    BY <2>4, <2>5, <2>6 DEF KeptInv
<1> QED
  BY <1>3, <1>4

LEMMA SuccessorKept ==
  ASSUME TypeOK, KeptInv, NEW c \in Caller,
         \/ LookupSuccessor(c) \/ AcquireHandoff(c) \/ HandoffTimeout(c)
         \/ NoticeHandoffLoss(c) \/ Abort(c)
  PROVE  KeptInv'
<1>1. JobsOK /\ UNCHANGED <<pool, live, burnt, rowLock>>
  BY DEF TypeOK, LookupSuccessor, AcquireHandoff, HandoffTimeout, NoticeHandoffLoss, Abort,
     JobUnchanged, storeVars, providerVars, lockVars
<1>2. OthersStay(c)
  BY OneJobSteps DEF JobStep
<1>3. /\ job'[c].row = job[c].row /\ job'[c].req = job[c].req /\ job'[c].succ = job[c].succ
  <2>1. CASE SkipHandoff(c)
    BY <1>1, <2>1, SkipHandoffMoves
  <2>2. CASE ~SkipHandoff(c)
    BY <1>1, <2>2
       DEF LookupSuccessor, AcquireHandoff, HandoffTimeout, NoticeHandoffLoss, Abort, JobsOK, Job
  <2> QED
    BY <2>1, <2>2
<1>4. \/ jpc'[c] = jpc[c]
      \/ jpc[c] \in Using /\ jpc'[c] \in Using
  BY <1>1, GotoMoves
     DEF LookupSuccessor, AcquireHandoff, HandoffTimeout, NoticeHandoffLoss, Abort, JobsOK, Using
<1>5. Quiet(c)
  BY <1>1, <1>2, <1>3, <1>4 DEF Quiet
<1>6. HoldsRow(c)'
  BY <1>1, <1>3, <1>4, HoldsStill DEF KeptInv, Captured
<1> QED
  BY <1>5, <1>6, QuietKept

LEMMA PublishKept ==
  ASSUME TypeOK, KeptInv, NEW c \in Caller,
         PublishProof(c) \/ PublishSuccessor(c) \/ ReconcileFailure(c)
  PROVE  KeptInv'
<1>1. /\ JobsOK /\ UNCHANGED <<pool, live, burnt>> /\ (ReleaseAll(c) \/ UNCHANGED lockVars)
      /\ jpc[c] \in {"proof", "publish", "failed"}
  BY DEF TypeOK, PublishProof, PublishSuccessor, ReconcileFailure, providerVars
<1>2. CASE \E result : Settle(c, result)
  BY <1>1, <1>2, SettleKept DEF Using
<1>3. CASE job' = [job EXCEPT ![c] = NextAttempt(job[c])] /\ Goto(c, "start")
  <2>1. NextAttempt(job[c]).row = NoRow /\ NoRow.ref = 0
    BY DEF NextAttempt, Attempt, NoJob, NoRow
  <2>2. /\ OthersStay(c) /\ jpc'[c] = "start" /\ job'[c].row.ref = 0
    BY <1>1, <1>3, <2>1, GotoMoves DEF OthersStay, JobsOK
  <2>3. Quiet(c)
    BY <1>1, <2>2, FreeingQuiet DEF Quiet, Using
  <2>4. HoldsRow(c)'
    BY <2>2 DEF HoldsRow, Captured, Using
  <2> QED
    BY <2>3, <2>4, QuietKept
<1> QED
  BY <1>2, <1>3 DEF PublishProof, PublishSuccessor, ReconcileFailure, PublishEvidence

\* A refused or abandoned write, and a failed one.
LEMMA GivenUpKept ==
  ASSUME TypeOK, KeptInv, NEW c \in Caller, jpc[c] = "commit", UNCHANGED <<pool, live>>,
         \/ Abandons(c)
         \/ /\ OwnsLeases(c) /\ RefusesWrite(c, pool[job[c].req.row])
            /\ Settle(c, "refused") /\ ReleaseAll(c) /\ burnt' = burnt
  PROVE  KeptInv'
<1>1. CASE Abandons(c)
  BY <1>1, SettleKept DEF Abandons
<1>2. CASE /\ OwnsLeases(c) /\ RefusesWrite(c, pool[job[c].req.row])
           /\ Settle(c, "refused") /\ ReleaseAll(c) /\ burnt' = burnt
  <2>1. pool[job[c].req.row].ref # job[c].row.ref
    BY <1>2 DEF KeptInv, HoldsRow, OwnsLeases, Captured, Using
  <2> QED
    BY <1>2, <2>1, SettleKept
<1> QED
  BY <1>1, <1>2

\* The successor is written over the credential it was exchanged for.
LEMMA WrittenKept ==
  ASSUME TypeOK, KeptInv, NEW c \in Caller, jpc[c] = "commit",
         OwnsLeases(c), ~RefusesWrite(c, pool[job[c].req.row]),
         pool' = Quarantined(c) \/ pool' = WithSuccessor(c),
         UNCHANGED <<live, burnt>>, ReleaseAll(c) \/ UNCHANGED lockVars,
         OthersStay(c), jpc'[c] \in {"settled", "publish"},
         job'[c].row.ref \in {job[c].row.ref, 0}
  PROVE  KeptInv'
<1> DEFINE b == job[c].req.row
           old == job[c].row.ref
           new == job[c].succ.ref
<1>1. b \in Row /\ pool[b].ref = old /\ jpc[c] \in Using
  BY JobFields DEF TypeOK, RefusesWrite, MaterialOf, Using
<1>2. ASSUME NEW q \in Row
      PROVE  /\ pool'[q].epoch = pool[q].epoch
             /\ q = b => pool'[q].ref = new
             /\ q # b => pool'[q].ref = pool[q].ref /\ pool'[q].acc = pool[q].acc
                         /\ pool'[q].ident = pool[q].ident
  <2>1. pool[q] \in PoolRow
    BY DEF TypeOK, StoreOK
  <2>2. CASE pool' = Quarantined(c)
    BY <1>1, <2>1, <2>2 DEF Quarantined, TypeOK, StoreOK, PoolRow
  <2>3. CASE pool' = WithSuccessor(c)
    <3>1. /\ q = b => WithSuccessor(c)[q].ref = new
          /\ q # b => /\ WithSuccessor(c)[q].ref = pool[q].ref
                      /\ WithSuccessor(c)[q].acc = pool[q].acc
                      /\ WithSuccessor(c)[q].ident = pool[q].ident
      BY <1>1, <2>1 DEF WithSuccessor, PoolRow
    <3> QED
      BY <2>3, <3>1, SuccessorFields
  <2> QED
    BY <2>2, <2>3
<1>3. ~Took(c)' /\ \A d \in Caller : Took(d)' => Took(d) /\ d # c /\ job'[d] = job[d]
  BY DEF Took, OthersStay, Using
<1>4. ASSUME NEW d \in Caller
      PROVE  Unseen(d)'
  <2> SUFFICES ASSUME Took(d)'
               PROVE  Unseen(d)'
    BY DEF Unseen
  <2>1. Took(d) /\ Unseen(d) /\ d # c /\ job'[d] = job[d]
    BY <1>3 DEF KeptInv
  <2>2. job[d].succ.ref # new
    <3>1. CASE Took(c)
      BY <2>1, <3>1 DEF Unseen
    <3>2. CASE ~Took(c)
      BY <1>1, <2>1, <3>2 DEF Unseen, Took
    <3> QED
      BY <3>1, <3>2
  <2>3. \A q \in Row : pool'[q].ref # job[d].succ.ref
    BY <1>2, <2>1, <2>2 DEF Unseen
  <2>4. job[d].succ.ref # 0
    BY <2>1 DEF Unseen, TypeOK, ProviderOK
  <2>5. \A e \in Caller : job'[e].row.ref # job[d].succ.ref
    BY <2>1, <2>4 DEF Unseen, OthersStay
  <2>6. \A e \in Caller \ {d} : Took(e)' => job'[e].succ.ref # job[d].succ.ref
    BY <1>3, <2>1 DEF Unseen
  <2> QED
    BY <2>1, <2>3, <2>5, <2>6 DEF Unseen
<1>5. ASSUME NEW d \in Caller
      PROVE  HoldsRow(d)'
  <2>1. CASE d = c
    BY <2>1 DEF HoldsRow, Captured, Using
  <2>2. CASE d # c
    <3> DEFINE e == job[d].req.row
    <3>1. /\ job'[d] = job[d] /\ jpc'[d] = jpc[d] /\ e \in Row /\ HoldsRow(d)
          /\ rowLock'[e] = d => rowLock[e] = d
      BY <2>2, JobFields, FreeingQuiet DEF OthersStay, TypeOK, KeptInv
    <3>2. CASE e = b
      <4>1. rowLock'[e] # d
        BY <2>2, <3>1, <3>2 DEF OwnsLeases
      <4> QED
        BY <3>1, <4>1 DEF HoldsRow
    <3>3. CASE e # b
      <4>1. /\ pool'[e].epoch = pool[e].epoch /\ pool'[e].ident = pool[e].ident
            /\ pool'[e].acc = pool[e].acc /\ pool'[e].ref = pool[e].ref
        BY <1>2, <3>1, <3>3
      <4> QED
        BY <3>1, <4>1 DEF HoldsRow, RefusesWrite, SameBinding, MaterialOf
    <3> QED
      BY <3>2, <3>3
  <2> QED
    BY <2>1, <2>2
<1>6. ASSUME NEW q \in Row
      PROVE  KeptRow(q)'
  <2>1. KeptRow(q) /\ UNCHANGED <<live, burnt>>
    BY DEF KeptInv
  <2>2. CASE q = b /\ Took(c)
    BY <1>2, <2>1, <2>2 DEF KeptRow, KeptInv, Unseen
  <2>3. CASE ~(q = b /\ Took(c))
    <3>1. pool'[q].ref = pool[q].ref
      BY <1>1, <1>2, <2>3 DEF Took
    <3>2. CASE pool[q].ref \in live \cup burnt
      BY <2>1, <3>1, <3>2 DEF KeptRow
    <3>3. ASSUME NEW d \in Caller, Took(d), job[d].req.row = q, job[d].row.ref = pool[q].ref
          PROVE  KeptRow(q)'
      <4>1. d # c
        BY <2>3, <3>3
      <4>2. Took(d)' /\ job'[d] = job[d]
        BY <3>3, <4>1 DEF Took, OthersStay
      <4> QED
        BY <3>1, <3>3, <4>2 DEF KeptRow
    <3> QED
      BY <2>1, <3>2, <3>3 DEF KeptRow
  <2> QED
    BY <2>2, <2>3
<1> QED
  BY <1>4, <1>5, <1>6 DEF KeptInv

LEMMA CommitKept ==
  ASSUME TypeOK, KeptInv, NEW c \in Caller, Commit(c) \/ CommitFails(c)
  PROVE  KeptInv'
<1>1. jpc[c] = "commit" /\ live' = live /\ JobsOK /\ OthersStay(c)
  BY OneJobSteps DEF Commit, CommitFails, providerVars, TypeOK, JobStep
<1>2. CASE CommitFails(c)
  BY <1>1, <1>2, GivenUpKept DEF CommitFails, storeVars
<1>3. CASE Commit(c)
  <2>1. CASE ~OwnsLeases(c) /\ Abandons(c) /\ UNCHANGED pool
    BY <1>1, <2>1, GivenUpKept
  <2>2. CASE /\ OwnsLeases(c) /\ RefusesWrite(c, pool[job[c].req.row])
             /\ Settle(c, "refused") /\ ReleaseAll(c) /\ UNCHANGED <<pool, burnt>>
    BY <1>1, <2>2, GivenUpKept
  <2>3. CASE /\ OwnsLeases(c) /\ ~RefusesWrite(c, pool[job[c].req.row])
             /\ pool' = Quarantined(c)
             /\ Settle(c, "refused") /\ ReleaseAll(c) /\ UNCHANGED burnt
    <3>1. jpc'[c] = "settled" /\ job'[c].row.ref = 0
      BY <1>1, <2>3, SettleForgets DEF TypeOK, NoRow
    <3> QED
      BY <1>1, <2>3, <3>1, WrittenKept
  <2>4. CASE /\ OwnsLeases(c) /\ ~RefusesWrite(c, pool[job[c].req.row])
             /\ pool' = WithSuccessor(c)
             /\ Goto(c, "publish") /\ UNCHANGED <<lockVars, job, burnt>>
    <3>1. jpc'[c] = "publish" /\ job' = job
      BY <1>1, <2>4, GotoMoves
    <3> QED
      BY <1>1, <2>4, <3>1, WrittenKept
  <2> QED
    BY <1>3, <2>1, <2>2, <2>3, <2>4 DEF Commit
<1> QED
  BY <1>2, <1>3

\* A call that has not asked for a job owns none.
Owning == {"idle", "read", "admit"}
OwnsNone == \A c \in Caller : cpc[c] \in Owning => jpc[c] = "none"

LEMMA CallOwnsNone ==
  ASSUME TypeOK, OwnsNone, NEW c \in Caller, Begin(c) \/ CallStep(c)
  PROVE  OwnsNone' /\ (UNCHANGED <<jpc, job>> \/ jpc[c] = "none")
<1>1. CallsOK /\ JobsOK
  BY DEF TypeOK
<1>2. ASSUME NEW b, NEW j, NEW bs, JoinOrStart(c, b, j, bs)
      PROVE  OwnsNone'
  <2>1. cpc'[c] = "waiting" /\ \A d \in Caller \ {c} : cpc'[d] = cpc[d] /\ jpc'[d] = jpc[d]
    BY <1>1, <1>2 DEF JoinOrStart, CallsOK, JobsOK
  <2> QED
    BY <2>1 DEF OwnsNone, Owning
<1>3. ASSUME NEW pc, cpc' = [cpc EXCEPT ![c] = pc], jpc' = jpc,
             pc \notin Owning \/ cpc[c] \in Owning
      PROVE  OwnsNone'
  BY <1>1, <1>3 DEF OwnsNone, CallsOK
<1>4. CASE Begin(c)
  <2>1. cpc[c] = "idle"
    BY <1>4 DEF Begin
  <2>2. CASE UNCHANGED <<jpc, job>> /\ cpc' = [cpc EXCEPT ![c] = "read"]
    BY <1>3, <2>1, <2>2 DEF Owning
  <2>3. CASE \E b, j : JoinOrStart(c, b, j, barred)
    BY <1>2, <2>1, <2>3 DEF OwnsNone, Owning
  <2> QED
    BY <1>4, <2>2, <2>3, Beginnings
<1>5. CASE AdmitCurrent(c)
  <2>1. cpc[c] = "admit"
    BY <1>5 DEF AdmitCurrent
  <2>2. CASE UNCHANGED <<jpc, job>> /\ \E k, a, e : Finish(c, k, a, e)
    BY <1>3, <2>2 DEF Finish, Owning
  <2>3. CASE \E b, j, bs : JoinOrStart(c, b, j, bs)
    BY <1>2, <2>1, <2>3 DEF OwnsNone, Owning
  <2> QED
    BY <1>5, <2>1, <2>2, <2>3 DEF AdmitCurrent
<1>6. CASE ReadRow(c)
  BY <1>3, <1>6 DEF ReadRow, Owning
<1>7. CASE JoinTimeout(c) \/ TakeResult(c) \/ FinalAdmit(c)
  <2>1. UNCHANGED <<jpc, job>>
    BY <1>7 DEF JoinTimeout, TakeResult, FinalAdmit, jobVars
  <2>2. \E pc \in {"done", "final"} : cpc' = [cpc EXCEPT ![c] = pc]
    BY <1>7 DEF JoinTimeout, TakeResult, FinalAdmit, Finish
  <2> QED
    BY <1>3, <2>1, <2>2 DEF Owning
<1> QED
  BY <1>4, <1>5, <1>6, <1>7 DEF CallStep

LEMMA JobOwnsNone ==
  ASSUME TypeOK, OwnsNone, NEW c \in Caller, JobStep(c) \/ Abort(c)
  PROVE  OwnsNone'
<1>1. OthersStay(c)
  BY OneJobSteps
<1>2. cpc' = cpc
  BY DEF JobStep, SurveyRow, SurveyPolicy, Adopt, ValidateAccess, PublishProof, LockRow,
         LockProvider, LockTimeout, RecheckPolicy, ExchangeSucceeds, ExchangeLost, ExchangeFails,
         LookupSuccessor, AcquireHandoff, HandoffTimeout, NoticeHandoffLoss, Commit, CommitFails,
         PublishSuccessor, ReconcileFailure, JobUnchanged, callVars, Abort
<1>3. jpc[c] # "none" \/ jpc' = jpc
  BY DEF JobStep, SurveyRow, SurveyPolicy, Adopt, ValidateAccess, PublishProof, LockRow,
         LockProvider, LockTimeout, RecheckPolicy, ExchangeSucceeds, ExchangeLost, ExchangeFails,
         LookupSuccessor, AcquireHandoff, HandoffTimeout, NoticeHandoffLoss, Commit, CommitFails,
         PublishSuccessor, ReconcileFailure, Abort
<1> QED
  BY <1>1, <1>2, <1>3 DEF OwnsNone, OthersStay

LEMMA OtherOwnsNone ==
  ASSUME TypeOK, OwnsNone,
         \/ \E r \in Row : UserStep(r)
         \/ \E c \in Caller : Stall(c) \/ EvictStale(c)
         \/ \E t \in 1..MaxTok : AccessExpires(t)
         \/ \E p \in Process : Crash(p)
         \/ AllDone \/ UNCHANGED vars
  PROVE  OwnsNone'
<1>1. CASE UNCHANGED <<cpc, jpc>>
  BY <1>1 DEF OwnsNone
<1>2. CASE \E p \in Process : Crash(p)
  BY <1>2 DEF Crash, Running, OwnsNone, Owning
<1> QED
  BY <1>1, <1>2
     DEF UserStep, SignIn, InitializeEpoch, ResetBackoff, BackoffElapses, Disable, ForeignRefresh,
         Stall, EvictStale, AccessExpires, AllDone, vars, callVars, jobVars

LEMMA CallKept ==
  ASSUME TypeOK, OwnsNone, KeptInv, NEW c \in Caller, Begin(c) \/ CallStep(c)
  PROVE  KeptInv'
<1>1. UNCHANGED <<pool, live, rowLock>> /\ burnt' = burnt
  BY CallsOnlyStart
     DEF storeVars, providerVars, lockVars, Begin, CallStep, ReadRow, AdmitCurrent, JoinTimeout,
         TakeResult, FinalAdmit
<1>2. CASE UNCHANGED <<jpc, job>>
  <2>1. Quiet(c)
    BY <1>1, <1>2 DEF Quiet, OthersStay
  <2>2. HoldsRow(c)'
    BY <1>1, <1>2, HoldsStill DEF KeptInv
  <2> QED
    BY <2>1, <2>2, QuietKept
<1>3. CASE jpc[c] = "none" /\ \E b \in Request : /\ jpc' = [jpc EXCEPT ![c] = "start"]
                                                 /\ job' = [job EXCEPT ![c] = Attempt(b, 1)]
  <2>1. \A b : Attempt(b, 1).row.ref = 0
    BY DEF Attempt, NoJob, NoRow
  <2>2. OthersStay(c) /\ jpc'[c] = "start" /\ job'[c].row.ref = 0
    BY <1>3, <2>1 DEF OthersStay, TypeOK, JobsOK
  <2>3. Quiet(c)
    BY <1>1, <1>3, <2>2 DEF Quiet, Using
  <2>4. HoldsRow(c)'
    BY <2>2 DEF HoldsRow, Captured, Using
  <2> QED
    BY <2>3, <2>4, QuietKept
<1> QED
  BY <1>2, <1>3, CallsOnlyStart, CallOwnsNone

\* A login, or a writer without a lease, puts a new credential into a row.
LEMMA ReplacedKept ==
  ASSUME TypeOK, TokenInv, OwnInv, KeptInv, NEW r \in Row,
         UNCHANGED <<jpc, job, rowLock, burnt>>,
         \A q \in Row \ {r} : pool'[q] = pool[q],
         pool'[r].ref = minted + 1,
         \/ live' = live \cup {minted + 1}
         \/ live' = (live \ {pool[r].ref}) \cup {minted + 1}
  PROVE  KeptInv'
<1>1. \A d \in Caller : Took(d)' <=> Took(d)
  BY DEF Took
<1>2. ASSUME NEW d \in Caller
      PROVE  Unseen(d)'
  <2> SUFFICES ASSUME Took(d)'
               PROVE  Unseen(d)'
    BY DEF Unseen
  <2>1. Took(d) /\ Unseen(d)
    BY <1>1 DEF KeptInv
  <2>2. job[d].succ.ref # minted + 1
    BY NextIsNew
  <2>3. job[d].succ.ref \in live'
    BY <2>1 DEF Unseen
  <2>4. \A q \in Row : pool'[q].ref # job[d].succ.ref
    BY <2>1, <2>2 DEF Unseen
  <2> QED
    BY <1>1, <2>1, <2>3, <2>4 DEF Unseen
<1>3. ASSUME NEW d \in Caller
      PROVE  HoldsRow(d)'
  <2>1. job[d].req.row \in Row /\ HoldsRow(d)
    BY JobFields DEF TypeOK, KeptInv
  <2>2. CASE job[d].req.row = r
    <3>1. job[d].row.ref # minted + 1
      BY NextIsNew
    <3> QED
      BY <2>2, <3>1 DEF HoldsRow
  <2>3. CASE job[d].req.row # r
    BY <2>1, <2>3 DEF HoldsRow, RefusesWrite, SameBinding, MaterialOf
  <2> QED
    BY <2>2, <2>3
<1>4. ASSUME NEW q \in Row
      PROVE  KeptRow(q)'
  <2>1. KeptRow(q)
    BY DEF KeptInv
  <2>2. CASE q = r
    BY <2>2 DEF KeptRow
  <2>3. CASE q # r
    <3>1. pool[q].ref # pool[r].ref
      BY <2>3 DEF OwnInv, RowOwn, Of
    <3> QED
      BY <1>1, <2>1, <2>3, <3>1 DEF KeptRow
  <2> QED
    BY <2>2, <2>3
<1> QED
  BY <1>2, <1>3, <1>4 DEF KeptInv

\* Neither jobs, tokens nor credentials change, and no row lease is gained.
LEMMA RestingKept ==
  ASSUME TypeOK, KeptInv, UNCHANGED <<jpc, job, live, burnt>>,
         \A l \in Row, d \in Caller : rowLock'[l] = d => rowLock[l] = d,
         \A q \in Row : /\ pool'[q].epoch = pool[q].epoch /\ pool'[q].ident = pool[q].ident
                        /\ pool'[q].acc = pool[q].acc /\ pool'[q].ref = pool[q].ref
  PROVE  KeptInv'
<1>1. \A d \in Caller : Took(d)' <=> Took(d)
  BY DEF Took
<1>2. ASSUME NEW d \in Caller
      PROVE  Unseen(d)' /\ HoldsRow(d)'
  <2>1. job[d].req.row \in Row /\ Unseen(d) /\ HoldsRow(d)
    BY JobFields DEF TypeOK, KeptInv
  <2>2. Unseen(d)'
    BY <1>1, <2>1 DEF Unseen
  <2>3. HoldsRow(d)'
    BY <2>1 DEF HoldsRow, RefusesWrite, SameBinding, MaterialOf
  <2> QED
    BY <2>2, <2>3
<1>3. ASSUME NEW q \in Row
      PROVE  KeptRow(q)'
  BY <1>1 DEF KeptRow, KeptInv
<1> QED
  BY <1>2, <1>3 DEF KeptInv

LEMMA UserKept ==
  ASSUME TypeOK, TokenInv, OwnInv, KeptInv, "foreign" \notin Faults \/ "keep" \notin Faults,
         NEW r \in Row, UserStep(r)
  PROVE  KeptInv'
<1>1. UNCHANGED <<jpc, job, rowLock, burnt>> /\ pool[r] \in PoolRow
  BY DEF UserStep, SignIn, InitializeEpoch, ResetBackoff, BackoffElapses, Disable, ForeignRefresh,
     jobVars, lockVars, TypeOK, StoreOK
<1>2. CASE SignIn(r)
  <2>1. PICK a \in Account :
          pool' = [pool EXCEPT ![r] = [@ EXCEPT !.epoch = pool[r].epoch + 1, !.ident = a,
                                                !.acc = minted + 1, !.ref = minted + 1]]
    BY <1>2 DEF SignIn
  <2>2. live' = live \cup {minted + 1}
    BY <1>2 DEF SignIn
  <2>3. pool'[r].ref = minted + 1 /\ \A q \in Row \ {r} : pool'[q] = pool[q]
    BY <1>1, <2>1 DEF TypeOK, StoreOK, PoolRow
  <2> QED
    BY <1>1, <2>2, <2>3, ReplacedKept
<1>3. CASE ForeignRefresh(r)
  <2>1. Possible("keep") = {FALSE}
    BY <1>3 DEF ForeignRefresh, Disturb, Possible
  <2>2. /\ live' = Redeemed(pool[r].ref, FALSE)
        /\ pool' = [pool EXCEPT ![r] = [@ EXCEPT !.acc = Minted(pool[r].ref, FALSE).acc,
                                                !.ref = Minted(pool[r].ref, FALSE).ref]]
    BY <1>3, <2>1 DEF ForeignRefresh
  <2>3. live' = (live \ {pool[r].ref}) \cup {minted + 1} /\ Minted(pool[r].ref, FALSE).ref = minted + 1
    BY <2>2 DEF Redeemed, Minted
  <2>4. pool'[r].ref = minted + 1 /\ \A q \in Row \ {r} : pool'[q] = pool[q]
    BY <1>1, <2>2, <2>3 DEF TypeOK, StoreOK, PoolRow
  <2> QED
    BY <1>1, <2>3, <2>4, ReplacedKept
<1>4. CASE InitializeEpoch(r) \/ ResetBackoff(r) \/ BackoffElapses(r)
  BY <1>1, <1>4, RestingKept DEF InitializeEpoch, ResetBackoff, BackoffElapses, providerVars
<1>5. CASE Disable(r)
  <2>1. \A q \in Row : /\ pool'[q].epoch = pool[q].epoch /\ pool'[q].ident = pool[q].ident
                       /\ pool'[q].acc = pool[q].acc /\ pool'[q].ref = pool[q].ref
    BY <1>1, <1>5 DEF Disable, TypeOK, StoreOK, PoolRow
  <2> QED
    BY <1>1, <1>5, <2>1, RestingKept DEF Disable, providerVars
<1> QED
  BY <1>2, <1>3, <1>4, <1>5 DEF UserStep

LEMMA CrashKept ==
  ASSUME TypeOK, KeptInv, NEW p \in Process, Crash(p)
  PROVE  KeptInv'
<1> DEFINE Dies(d) == ProcOf[d] = p /\ Running(d)
<1>1. /\ UNCHANGED <<pool, live, rowLock>> /\ burnt \subseteq burnt'
      /\ \A d \in Caller : Dies(d) /\ jpc[d] \in Using => job[d].row.ref \in burnt'
  BY DEF Crash, Consumed, Using, storeVars, providerVars, lockVars
<1>2. \A d \in Caller : IF Dies(d) THEN jpc'[d] = "dead" /\ job'[d] = NoJob
                        ELSE jpc'[d] = jpc[d] /\ job'[d] = job[d]
  BY DEF Crash
<1>3. NoJob.row.ref = 0
  BY DEF NoJob, NoRow
<1>4. \A d \in Caller : Took(d)' => Took(d) /\ job'[d] = job[d]
  BY <1>2 DEF Took, Using
<1>5. ASSUME NEW d \in Caller
      PROVE  Unseen(d)'
  <2> SUFFICES ASSUME Took(d)'
               PROVE  Unseen(d)'
    BY DEF Unseen
  <2>1. Took(d) /\ job'[d] = job[d] /\ Unseen(d)
    BY <1>4 DEF KeptInv
  <2>2. job[d].succ.ref # 0
    BY <2>1 DEF Unseen, TypeOK, ProviderOK
  <2>3. \A e \in Caller : job'[e].row.ref # job[d].succ.ref
    BY <1>2, <1>3, <2>1, <2>2 DEF Unseen
  <2>4. \A e \in Caller \ {d} : Took(e)' => job'[e].succ.ref # job[d].succ.ref
    BY <1>4, <2>1 DEF Unseen
  <2> QED
    BY <1>1, <2>1, <2>3, <2>4 DEF Unseen
<1>6. ASSUME NEW d \in Caller
      PROVE  HoldsRow(d)'
  BY <1>1, <1>2, HoldsStill DEF KeptInv, Captured, Using
<1>7. ASSUME NEW q \in Row
      PROVE  KeptRow(q)'
  <2>1. KeptRow(q)
    BY DEF KeptInv
  <2>2. ASSUME NEW d \in Caller, Took(d), job[d].req.row = q, job[d].row.ref = pool[q].ref
        PROVE  KeptRow(q)'
    <3>1. CASE Dies(d)
      BY <1>1, <2>2, <3>1 DEF KeptRow, Took
    <3>2. CASE ~Dies(d)
      <4>1. Took(d)' /\ job'[d] = job[d]
        BY <1>2, <2>2, <3>2 DEF Took
      <4> QED
        BY <1>1, <2>2, <4>1 DEF KeptRow
    <3> QED
      BY <3>1, <3>2
  <2> QED
    BY <1>1, <2>1, <2>2 DEF KeptRow
<1> QED
  BY <1>5, <1>6, <1>7 DEF KeptInv

LEMMA EnvironmentKept ==
  ASSUME TypeOK, KeptInv,
         \/ \E c \in Caller : Stall(c) \/ EvictStale(c)
         \/ \E t \in 1..MaxTok : AccessExpires(t)
         \/ AllDone \/ UNCHANGED vars
  PROVE  KeptInv'
<1>1. UNCHANGED <<pool, jpc, job, live, burnt>>
  BY DEF Stall, EvictStale, AccessExpires, AllDone, vars, storeVars, providerVars, jobVars
<1>2. \A l \in Row, d \in Caller : rowLock'[l] = d => rowLock[l] = d
  <2>1. CASE \E c \in Caller : Stall(c)
    BY <2>1, ConstantsOK DEF Stall, TypeOK, LeasesOK
  <2>2. CASE \E c \in Caller : EvictStale(c)
    BY <2>2, FreeingQuiet DEF EvictStale
  <2>3. CASE UNCHANGED rowLock
    BY <2>3
  <2> QED
    BY <2>1, <2>2, <2>3 DEF AccessExpires, AllDone, vars, lockVars
<1> QED
  BY <1>1, <1>2, RestingKept

LEMMA StepKeepsSuccessors ==
  ASSUME TypeOK, TokenInv, OwnInv, OwnsNone, KeptInv, [Next]_vars,
         "foreign" \notin Faults \/ "keep" \notin Faults
  PROVE  OwnsNone' /\ KeptInv'
<1>1. OwnsNone'
  BY CallOwnsNone, JobOwnsNone, OtherOwnsNone DEF Next
<1>2. KeptInv'
  BY CallKept, SurveyKept, LockKept, ExchangeKept, FailureKept, SuccessorKept, CommitKept,
     PublishKept, UserKept, CrashKept, EnvironmentKept DEF Next, JobStep
<1> QED
  BY <1>1, <1>2

LEMMA InitKept == Init => OwnsNone /\ KeptInv
<1> SUFFICES ASSUME Init PROVE OwnsNone /\ KeptInv
  OBVIOUS
<1>1. \A c \in Caller : jpc[c] = "none"
  BY DEF Init
<1>2. \A r \in Row : pool[r].ref = r /\ r \in live
  BY DEF Init
<1> QED
  BY <1>1, <1>2 DEF OwnsNone, KeptInv, Unseen, HoldsRow, Took, KeptRow, Captured, Using

\* SuccessorNeverLost: a row's consumed refresh token has its successor on the way,
\* unless a lost answer, a failed write, a lost lease or a crash destroyed it.  A
\* writer that takes no lease and whose provider keeps its refresh token could be
\* overtaken by an exchange that rotates it: the two together are left out.
THEOREM SuccessorsAreKept ==
  ASSUME "foreign" \notin Faults \/ "keep" \notin Faults
  PROVE  Spec => []SuccessorNeverLost
<1>1. Init => TokenInv /\ OwnInv /\ OwnsNone /\ KeptInv
  BY InitTokens, InitOwn, InitKept
<1>2. TypeOK /\ TokenInv /\ OwnInv /\ OwnsNone /\ KeptInv /\ [Next]_vars =>
        TokenInv' /\ OwnInv' /\ OwnsNone' /\ KeptInv'
  BY TokenSteps, StepKeepsOwn, StepKeepsSuccessors
<1>3. KeptInv => SuccessorNeverLost
  BY DEF KeptInv, KeptRow, Took, Using, Consumed, SuccessorNeverLost
<1> QED
  BY <1>1, <1>2, <1>3, TypeCorrect, PTL DEF Spec
=============================================================================
