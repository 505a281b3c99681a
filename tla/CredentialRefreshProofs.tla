----------------------- MODULE CredentialRefreshProofs -----------------------
(***************************************************************************)
(* Proofs about CredentialRefresh, for every number of rows, calls and       *)
(* processes, every set of accounts, attempts and disturbances:              *)
(*   TypeCorrect       every variable keeps its type                         *)
(*   EvidenceIsSound   recorded evidence is true                             *)
(* and, where no process outlives its leases ("stall" never happens),        *)
(*   ExchangesTakeTurns  exchanges of one row or one account exclude each    *)
(*                       other.                                              *)
(* A job between its locks and its publication owns both leases; the handoff *)
(* lease it may take besides them is never the lease it runs under, so       *)
(* giving it back early (Abort) cannot open the exchange.                    *)
(***************************************************************************)
EXTENDS CredentialRefresh, TLAPS

-----------------------------------------------------------------------------
\* The values the initial state and the helpers write have the right types.

LEMMA ConstantTypes ==
  /\ NoMaterial \in Material /\ NoError \in RefreshError /\ NoRetry \in Retry
  /\ NoEntry \in Entry /\ NoContext \in Context /\ NoId \in Identity
  /\ NoRow \in PoolRow /\ NoRequest \in Request
  /\ NoCall \in Call /\ NoJob \in Job
<1>1. 0 \in Token /\ NoId \in Identity /\ 1 \in Row /\ NRows \in Nat
  BY ConstantsOK, MetadataConstantsOK DEF Token, Identity, Row
<1>2. NoMaterial \in Material
  BY <1>1 DEF NoMaterial, Material
<1>3. NoError \in RefreshError /\ NoRetry \in Retry
  BY <1>1, <1>2 DEF NoError, RefreshError, NoRetry, Retry
<1>4. NoEntry \in Entry /\ NoContext \in Context
  BY <1>1, <1>2, <1>3 DEF NoEntry, Entry, NoContext, Context
<1>5. NoRow \in PoolRow /\ NoRequest \in Request
  BY <1>1 DEF NoRow, PoolRow, NoRequest, Request, Intent
<1>6. NoCall \in Call
  BY <1>1, <1>5 DEF NoCall, Call
<1>7. NoJob \in Job
  BY <1>1, <1>2, <1>4, <1>5, ConstantsOK DEF NoJob, Job
<1> QED
  BY <1>1, <1>2, <1>3, <1>4, <1>5, <1>6, <1>7

\* One field of a job's record is replaced.
LEMMA JobUpdates ==
  ASSUME NEW j \in Job
  PROVE  /\ \A x \in PoolRow : [j EXCEPT !.row = x] \in Job
         /\ \A x \in Context : [j EXCEPT !.ctx = x] \in Job
         /\ \A x \in Material : [j EXCEPT !.succ = x] \in Job
         /\ \A x \in {"none", "resolved", "failed", "unsupported"} :
              [j EXCEPT !.look = x] \in Job
         /\ \A x \in Identity : [j EXCEPT !.look = "resolved", !.learned = x] \in Job
         /\ \A x \in {"none", "held", "skipped"} : [j EXCEPT !.hand = x] \in Job
         /\ \A x \in {"none", "transient", "limited", "invalid", "validation"} :
              [j EXCEPT !.fail = x] \in Job
  BY DEF Job

LEMMA AttemptType ==
  ASSUME NEW req \in Request, NEW n \in 0..MaxAttempts
  PROVE  Attempt(req, n) \in Job
  BY ConstantTypes DEF Attempt, Job

LEMMA SettledType ==
  ASSUME NEW learned \in Identity,
         NEW result \in {"none", "current", "rotated", "refused", "failed"}
  PROVE  [NoJob EXCEPT !.result = result, !.learned = learned] \in Job
  BY ConstantTypes DEF Job

-----------------------------------------------------------------------------
\* What the job map, joins, settlements and releases return.

LEMMA JobAtType ==
  ASSUME NEW p, NEW k
  PROVE  JobAt(p, k) \in Caller \cup {NoCaller}
  BY DEF JobAt

LEMMA KeyTypes ==
  ASSUME NEW c \in Caller, NEW b \in Request, NEW i \in Identity
  PROVE  At(ProcOf[c], JobKey(b, i), c) \in Registration
  BY ConstantsOK DEF At, JobKey, Registration, Request, Row

LEMMA MapTypes ==
  ASSUME JobsOK, NEW c \in Caller, NEW b \in Request, NEW i \in Identity
  PROVE  /\ Register(jobs, c, JobKey(b, i)) \subseteq Registration
         /\ RegisterAlias(jobs, c, JobKey(b, i)) \subseteq Registration
  BY KeyTypes DEF Register, RegisterAlias, JobsOK

LEMMA UnregisterSubset ==
  ASSUME NEW js, NEW c, NEW k
  PROVE  Unregister(js, c, k) \subseteq js
  BY DEF Unregister

LEMMA RecordRejectionType ==
  ASSUME NEW bs \in [Caller -> SUBSET (1..MaxTok)], NEW c \in Caller \cup {NoCaller},
         NEW t \in Token
  PROVE  RecordRejection(bs, c, t) \in [Caller -> SUBSET (1..MaxTok)]
  BY MetadataConstantsOK DEF RecordRejection, Token

Result == {"none", "current", "rotated", "refused", "failed"}

LEMMA SettleType ==
  ASSUME JobsOK, NEW c \in Caller, NEW result \in Result, Settle(c, result)
  PROVE  JobsOK'
<1>1. job' \in [Caller -> Job]
  <2>1. job[c].learned \in Identity
    BY DEF JobsOK, Job
  <2>2. [NoJob EXCEPT !.result = result, !.learned = job[c].learned] \in Job
    BY <2>1, SettledType DEF Result
  <2> QED
    BY <2>2 DEF Settle, JobsOK
<1>2. jpc' \in [Caller -> JobPc] /\ barred' = barred
  BY DEF Settle, JobsOK, JobPc
<1>3. jobs' \subseteq jobs
  BY UnregisterSubset DEF Settle
<1> QED
  BY <1>1, <1>2, <1>3 DEF JobsOK

LEMMA GotoType ==
  ASSUME JobsOK, NEW c \in Caller, NEW pc \in JobPc, Goto(c, pc),
         job' \in [Caller -> Job]
  PROVE  JobsOK'
  BY DEF Goto, JobsOK

LEMMA FreedByType ==
  ASSUME NEW S, NEW lock \in [S -> Caller \cup {NoCaller}], NEW c \in Caller
  PROVE  FreedBy(lock, c) \in [S -> Caller \cup {NoCaller}]
  BY DEF FreedBy

LEMMA ReleaseType ==
  ASSUME LeasesOK, NEW c \in Caller, ReleaseAll(c)
  PROVE  LeasesOK'
  BY FreedByType DEF ReleaseAll, LeasesOK

LEMMA SkipHandoffType ==
  ASSUME JobsOK, NEW c \in Caller, SkipHandoff(c), jpc' \in [Caller -> JobPc]
  PROVE  JobsOK'
<1>1. job[c] \in Job
  BY DEF JobsOK
<1>2. [job[c] EXCEPT !.hand = "skipped"] \in Job
  BY <1>1, JobUpdates
<1>3. job' \in [Caller -> Job]
  BY <1>2 DEF SkipHandoff, JobsOK
<1>4. jobs' \subseteq jobs /\ barred' = barred
  BY UnregisterSubset DEF SkipHandoff
<1> QED
  BY <1>3, <1>4 DEF JobsOK

LEMMA FinishType ==
  ASSUME CallsOK, NEW c \in Caller, NEW acc \in Token, NEW expect \in Identity,
         NEW kind \in {"none", "usable", "refused", "failed", "transient"},
         Finish(c, kind, acc, expect), aborted' = aborted
  PROVE  CallsOK'
<1>1. [NoCall EXCEPT !.kind = kind, !.acc = acc, !.expect = expect] \in Call
  BY ConstantTypes DEF Call
<1> QED
  BY <1>1 DEF Finish, CallsOK, CallPc

LEMMA JoinOrStartType ==
  ASSUME CallsOK, JobsOK, NEW c \in Caller, NEW b \in Request,
         NEW j \in Caller \cup {NoCaller}, NEW bs \in [Caller -> SUBSET (1..MaxTok)],
         JoinOrStart(c, b, j, bs), aborted' = aborted
  PROVE  CallsOK' /\ JobsOK'
<1> DEFINE owner == IF j = NoCaller THEN c ELSE j
           rejections == RecordRejection(bs, owner, b.rej)
<1>1. owner \in Caller
  OBVIOUS
<1>2. barred' = rejections /\ rejections \in [Caller -> SUBSET (1..MaxTok)]
  BY <1>1, RecordRejectionType DEF JoinOrStart, Request
<1>3. CallsOK'
  <2>1. [NoCall EXCEPT !.req = b, !.joined = owner,
                       !.bounded = rejections[owner] # {}] \in Call
    BY <1>1, ConstantTypes DEF Call
  <2> QED
    BY <2>1 DEF JoinOrStart, CallsOK, CallPc
<1>4. jobs' \subseteq Registration
  <2>1. b.ident \in Identity
    BY DEF Request
  <2> QED
    BY <2>1, MapTypes DEF JoinOrStart, JobsOK, KeyOf
<1>5. jpc' \in [Caller -> JobPc]
  BY DEF JoinOrStart, JobsOK, JobPc
<1>6. job' \in [Caller -> Job]
  <2>1. Attempt(b, 1) \in Job
    BY AttemptType, ConstantsOK
  <2> QED
    BY <2>1 DEF JoinOrStart, JobsOK
<1> QED
  BY <1>2, <1>3, <1>4, <1>5, <1>6 DEF JobsOK

-----------------------------------------------------------------------------
\* What the writers of the metadata file and the provider return.

LEMMA EvidenceWriterType ==
  ASSUME NEW m \in Entry, NEW ctx, NEW b \in Request, NEW i \in Identity,
         NEW mat \in Material
  PROVE  WithEvidence(m, ctx, b, i, mat) \in Entry
<1>1. m.clears \in Nat /\ m.clears + 1 \in Nat /\ b.epoch \in Nat
  BY DEF Entry, Request
<1>2. NoRetry \in Retry /\ NoError \in RefreshError
  BY ConstantTypes
<1> QED
  BY <1>1, <1>2 DEF WithEvidence, Entry

LEMMA ErrorWriterType ==
  ASSUME NEW m \in Entry, NEW ctx \in Context, NEW b \in Request, NEW ref \in Token,
         NEW kind \in {"backoff", "dead"}
  PROVE  WithError(m, ctx, b, ref, kind) \in Entry
<1>1. [kind |-> kind, ref |-> ref, gen |-> ctx.clears] \in RefreshError
  BY DEF RefreshError, Context
<1> QED
  BY <1>1 DEF WithError, Entry, Request

LEMMA RetryWriterType ==
  ASSUME NEW m \in Entry, NEW b \in Request, NEW mat \in Material
  PROVE  WithRetry(m, b, mat) \in Entry
<1>1. [due |-> FALSE, mat |-> mat] \in Retry
  BY DEF Retry
<1> QED
  BY <1>1 DEF WithRetry, Entry, Request

LEMMA ClearingWriterTypes ==
  ASSUME NEW m \in Entry
  PROVE  /\ \A b \in Request : WithUnsupported(m, b) \in Entry
         /\ \A row \in PoolRow : EmptyEntry(row) \in Entry
         /\ WithReset(m) \in Entry
<1>1. m.clears + 1 \in Nat /\ NoRetry \in Retry /\ NoError \in RefreshError
  BY ConstantTypes DEF Entry
<1>2. \A b \in Request : WithUnsupported(m, b) \in Entry
  BY <1>1 DEF WithUnsupported, Entry, Request
<1>3. \A row \in PoolRow : EmptyEntry(row) \in Entry
  BY ConstantTypes DEF EmptyEntry, Entry, PoolRow
<1>4. WithReset(m) \in Entry
  BY <1>1 DEF WithReset, Entry
<1> QED
  BY <1>2, <1>3, <1>4

LEMMA CaptureTypes ==
  /\ \A m \in Entry : ContextOf(m) \in Context
  /\ \A row \in PoolRow : MaterialOf(row) \in Material
  BY DEF ContextOf, Context, Entry, MaterialOf, Material, PoolRow

LEMMA MintTypes ==
  ASSUME ProviderOK, NEW r \in Row, NEW i \in Identity, NEW ok \in BOOLEAN,
         NEW ref \in Token, NEW keep \in BOOLEAN,
         Mint(r, i, ok), live' \in {live, Redeemed(ref, keep), live \cup {minted + 1}},
         burnt' = burnt
  PROVE  ProviderOK' /\ Minted(ref, keep) \in Material /\ minted + 1 \in Token
<1>1. minted + 1 \in 1..MaxTok /\ minted + 1 \in Token
  BY MetadataConstantsOK DEF Mint, ProviderOK, Token
<1>2. tok' \in [Token -> [acct : Identity, row : 0..NRows, ok : BOOLEAN]]
  BY <1>1, ConstantsOK DEF Mint, ProviderOK, Row
<1>3. minted' \in 0..MaxTok /\ fresh' \subseteq 1..MaxTok
  <2>1. minted' = minted + 1 /\ fresh' = fresh \cup {minted + 1}
    BY DEF Mint
  <2>2. fresh \subseteq 1..MaxTok
    BY DEF ProviderOK
  <2>3. minted + 1 \in 0..MaxTok
    BY <1>1, MetadataConstantsOK
  <2> QED
    BY <1>1, <2>1, <2>2, <2>3
<1>5. live' \subseteq 1..MaxTok
  BY <1>1 DEF ProviderOK, Redeemed
<1>4. Minted(ref, keep) \in Material
  BY <1>1 DEF Minted, Material
<1> QED
  <2>1. burnt' \subseteq Token
    BY DEF ProviderOK
  <2> QED
    BY <1>1, <1>2, <1>3, <1>4, <1>5, <2>1 DEF ProviderOK

\* The fields of a running job.
LEMMA JobFields ==
  ASSUME JobsOK, NEW c \in Caller
  PROVE  /\ job[c] \in Job /\ job[c].req \in Request /\ job[c].req.row \in Row
         /\ job[c].req.ident \in Identity /\ job[c].req.epoch \in Nat
         /\ job[c].row \in PoolRow /\ job[c].ctx \in Context
         /\ job[c].succ \in Material /\ job[c].learned \in Identity
         /\ job[c].attempt \in 0..MaxAttempts
         /\ job[c].row.acc \in Token /\ job[c].row.ref \in Token
         /\ job[c].succ.acc \in Token /\ job[c].succ.ref \in Token
  BY DEF JobsOK, Job, Request, PoolRow, Material

LEMMA PublishEvidenceType ==
  ASSUME StoreOK, JobsOK, NEW c \in Caller, NEW i \in Identity, NEW mat \in Material,
         NEW result \in Result, PublishEvidence(c, i, mat, result), pool' = pool
  PROVE  StoreOK' /\ JobsOK'
<1> DEFINE b == job[c].req
<1>1. b \in Request /\ b.row \in Row /\ job[c].ctx \in Context
  BY JobFields
<1>2. WithEvidence(meta[b.row], job[c].ctx, b, i, mat) \in Entry
  <2>1. meta[b.row] \in Entry
    BY <1>1 DEF StoreOK
  <2> QED
    BY <1>1, <2>1, EvidenceWriterType
<1>3. StoreOK'
  BY <1>1, <1>2 DEF PublishEvidence, StoreOK
<1>4. Settle(c, result) \/ Settle(c, "failed")
  BY DEF PublishEvidence
<1>5. JobsOK'
  BY <1>4, SettleType DEF Result
<1> QED
  BY <1>3, <1>5

LEMMA PublishFailureType ==
  ASSUME StoreOK, JobsOK, NEW c \in Caller, NEW mat, NEW entry \in Entry,
         PublishFailure(c, mat, entry), pool' = pool
  PROVE  StoreOK'
  BY JobFields DEF PublishFailure, StoreOK

-----------------------------------------------------------------------------
\* Every action keeps every type.

LEMMA CallFields ==
  ASSUME CallsOK, NEW c \in Caller
  PROVE  /\ call[c] \in Call /\ call[c].req \in Request /\ call[c].req.row \in Row
         /\ call[c].req.ident \in Identity /\ call[c].req.rej \in Token
         /\ call[c].seen \in PoolRow /\ call[c].seen.acc \in Token
         /\ call[c].joined \in Caller \cup {NoCaller}
  BY DEF CallsOK, Call, Request, PoolRow

LEMMA BeginType ==
  ASSUME TypeOK, NEW c \in Caller, Begin(c)
  PROVE  TypeOK'
<1>1. PICK r \in Row, ask \in Asks :
        \E rej \in IF ask[2] THEN {n \in 1..minted : tok[n].row = r} ELSE {0} :
          LET b == [row |-> r, epoch |-> pool[r].epoch, ident |-> pool[r].ident,
                    intent |-> ask[1], rej |-> rej]
              j == JobAt(ProcOf[c], KeyOf(b))
          IN IF b.intent = "refresh" THEN JoinOrStart(c, b, j, barred)
             ELSE /\ call' = [call EXCEPT ![c] = [NoCall EXCEPT !.req = b, !.joined = j]]
                  /\ cpc' = [cpc EXCEPT ![c] = "read"]
                  /\ barred' = RecordRejection(barred, j, rej)
                  /\ UNCHANGED <<jobs, jpc, job>>
  BY DEF Begin
<1>2. PICK rej \in IF ask[2] THEN {n \in 1..minted : tok[n].row = r} ELSE {0} :
          LET b == [row |-> r, epoch |-> pool[r].epoch, ident |-> pool[r].ident,
                    intent |-> ask[1], rej |-> rej]
              j == JobAt(ProcOf[c], KeyOf(b))
          IN IF b.intent = "refresh" THEN JoinOrStart(c, b, j, barred)
             ELSE /\ call' = [call EXCEPT ![c] = [NoCall EXCEPT !.req = b, !.joined = j]]
                  /\ cpc' = [cpc EXCEPT ![c] = "read"]
                  /\ barred' = RecordRejection(barred, j, rej)
                  /\ UNCHANGED <<jobs, jpc, job>>
  BY <1>1
<1> DEFINE b == [row |-> r, epoch |-> pool[r].epoch, ident |-> pool[r].ident,
                 intent |-> ask[1], rej |-> rej]
           j == JobAt(ProcOf[c], KeyOf(b))
<1>3. b \in Request
  <2>1. pool[r].epoch \in Nat /\ pool[r].ident \in Identity
    BY DEF TypeOK, StoreOK, PoolRow
  <2>2. ask[1] \in Intent
    BY ConstantsOK
  <2>3. rej \in Token
    BY MetadataConstantsOK DEF TypeOK, ProviderOK, Token
  <2> QED
    BY <2>1, <2>2, <2>3 DEF Request
<1>4. j \in Caller \cup {NoCaller}
  BY JobAtType
<1>5. UNCHANGED <<storeVars, providerVars, lockVars, aborted, burnt, budget>>
  BY DEF Begin
<1>6. barred \in [Caller -> SUBSET (1..MaxTok)] /\ CallsOK /\ JobsOK
  BY DEF TypeOK, JobsOK
<1>7. CallsOK' /\ JobsOK'
  <2>1. CASE b.intent = "refresh"
    <3>1. JoinOrStart(c, b, j, barred)
      BY <1>2, <2>1
    <3> QED
      BY <3>1, <1>3, <1>4, <1>5, <1>6, JoinOrStartType
  <2>2. CASE b.intent # "refresh"
    <3>1. [NoCall EXCEPT !.req = b, !.joined = j] \in Call
      BY <1>3, <1>4, ConstantTypes DEF Call
    <3>2. barred' \in [Caller -> SUBSET (1..MaxTok)]
      <4>1. rej \in Token
        BY MetadataConstantsOK DEF TypeOK, ProviderOK, Token
      <4>2. barred' = RecordRejection(barred, j, rej)
        BY <1>2, <2>2
      <4> QED
        BY <1>4, <1>6, <4>1, <4>2, RecordRejectionType
    <3> QED
      BY <1>2, <1>5, <1>6, <2>2, <3>1, <3>2 DEF CallsOK, JobsOK, CallPc
  <2> QED
    BY <2>1, <2>2
<1> QED
  BY <1>5, <1>7 DEF TypeOK, StoreOK, ProviderOK, LeasesOK, storeVars, providerVars, lockVars

LEMMA ReadRowType ==
  ASSUME TypeOK, NEW c \in Caller, ReadRow(c)
  PROVE  TypeOK'
<1> DEFINE old == call[c].req
           row == pool[old.row]
           learned == old.ident = NoId /\ row.epoch = old.epoch
           b == [old EXCEPT !.ident = IF learned THEN row.ident ELSE @]
           found == JobAt(ProcOf[c], KeyOf(b))
           j == IF found # NoCaller THEN found ELSE call[c].joined
<1>1. CallsOK /\ JobsOK /\ StoreOK /\ old \in Request /\ old.row \in Row
  BY CallFields DEF TypeOK
<1>2. row \in PoolRow /\ row.ident \in Identity
  BY <1>1 DEF StoreOK, PoolRow
<1>3. b \in Request
  BY <1>1, <1>2 DEF Request
<1>4. j \in Caller \cup {NoCaller}
  BY <1>1, JobAtType, CallFields
<1>5. [call[c] EXCEPT !.req = b, !.seen = row, !.joined = j] \in Call
  BY <1>1, <1>2, <1>3, <1>4, CallFields DEF Call
<1>6. CallsOK'
  BY <1>1, <1>5 DEF ReadRow, CallsOK, CallPc
<1>7. JobsOK'
  <2>1. b.rej \in Token
    BY <1>3 DEF Request
  <2>2. RecordRejection(barred, j, b.rej) \in [Caller -> SUBSET (1..MaxTok)]
    BY <1>1, <1>4, <2>1, RecordRejectionType DEF JobsOK
  <2> QED
    BY <1>1, <2>2 DEF ReadRow, JobsOK
<1> QED
  BY <1>6, <1>7 DEF TypeOK, StoreOK, ProviderOK, LeasesOK, storeVars, providerVars, lockVars,
     ReadRow

LEMMA AdmitCurrentType ==
  ASSUME TypeOK, NEW c \in Caller, AdmitCurrent(c)
  PROVE  TypeOK'
<1> DEFINE b == call[c].req
           seen == call[c].seen
           found == JobAt(ProcOf[c], KeyOf(b))
           j == IF found # NoCaller THEN found ELSE call[c].joined
           bs == RecordRejection(barred, j, b.rej)
<1>1. CallsOK /\ JobsOK /\ b \in Request /\ b.rej \in Token /\ b.ident \in Identity
      /\ seen.acc \in Token
  BY CallFields DEF TypeOK
<1>2. found \in Caller \cup {NoCaller} /\ j \in Caller \cup {NoCaller}
  BY <1>1, JobAtType, CallFields
<1>3. barred \in [Caller -> SUBSET (1..MaxTok)] /\ bs \in [Caller -> SUBSET (1..MaxTok)]
  BY <1>1, <1>2, RecordRejectionType DEF JobsOK
<1>4. UNCHANGED <<storeVars, providerVars, lockVars, aborted, burnt, budget>>
  BY DEF AdmitCurrent
<1>5. \/ JoinOrStart(c, b, found, barred)
      \/ JoinOrStart(c, b, found, bs)
      \/ /\ Finish(c, "usable", seen.acc, b.ident) \/ Finish(c, "refused", 0, NoId)
         /\ barred' = bs /\ UNCHANGED <<jobs, jpc, job>>
  BY DEF AdmitCurrent
<1>6. CASE JoinOrStart(c, b, found, barred)
  BY <1>1, <1>2, <1>3, <1>4, <1>6, JoinOrStartType
     DEF TypeOK, StoreOK, ProviderOK, LeasesOK, storeVars, providerVars, lockVars
<1>7. CASE JoinOrStart(c, b, found, bs)
  BY <1>1, <1>2, <1>3, <1>4, <1>7, JoinOrStartType
     DEF TypeOK, StoreOK, ProviderOK, LeasesOK, storeVars, providerVars, lockVars
<1>8. CASE /\ Finish(c, "usable", seen.acc, b.ident) \/ Finish(c, "refused", 0, NoId)
           /\ barred' = bs /\ UNCHANGED <<jobs, jpc, job>>
  <2>1. CallsOK'
    <3>1. 0 \in Token /\ NoId \in Identity
      BY ConstantTypes, MetadataConstantsOK DEF Token
    <3> QED
      BY <1>1, <1>4, <1>8, <3>1, FinishType
  <2>2. JobsOK'
    BY <1>1, <1>3, <1>8 DEF JobsOK
  <2> QED
    BY <1>4, <2>1, <2>2
       DEF TypeOK, StoreOK, ProviderOK, LeasesOK, storeVars, providerVars, lockVars
<1> QED
  BY <1>5, <1>6, <1>7, <1>8

LEMMA AnswerType ==
  ASSUME TypeOK, NEW c \in Caller, JoinTimeout(c) \/ TakeResult(c) \/ FinalAdmit(c)
  PROVE  TypeOK'
<1>1. CallsOK /\ JobsOK /\ 0 \in Token /\ NoId \in Identity
  BY ConstantTypes, MetadataConstantsOK DEF TypeOK, Token
<1>2. UNCHANGED <<storeVars, providerVars, lockVars, aborted, jobVars, burnt, budget>>
  BY DEF JoinTimeout, TakeResult, FinalAdmit
<1>3. CallsOK'
  <2>1. CASE \E kind \in {"none", "refused", "failed", "transient"} : Finish(c, kind, 0, NoId)
    BY <1>1, <1>2, <2>1, FinishType
  <2>2. CASE Finish(c, "usable", call[c].seen.acc, call[c].req.ident)
    BY <1>1, <1>2, <2>2, FinishType, CallFields
  <2> DEFINE j == call[c].joined
             b == call[c].req
  <2>3. CASE /\ cpc[c] = "waiting" /\ cpc' = [cpc EXCEPT ![c] = "final"]
             /\ \E i \in {job[j].learned, b.ident} :
                  call' = [call EXCEPT ![c].seen = pool[b.row], ![c].req.ident = i]
    <3>1. PICK i \in {job[j].learned, b.ident} :
            call' = [call EXCEPT ![c].seen = pool[b.row], ![c].req.ident = i]
      BY <2>3
    <3>2. j \in Caller
      BY <1>1, <2>3 DEF CallsOK
    <3>3. i \in Identity /\ b \in Request /\ b.row \in Row
      BY <1>1, <3>1, <3>2, JobFields, CallFields
    <3>4. pool[b.row] \in PoolRow /\ [b EXCEPT !.ident = i] \in Request
      BY <3>3 DEF TypeOK, StoreOK, Request
    <3>5. [call[c] EXCEPT !.seen = pool[b.row], !.req = [b EXCEPT !.ident = i]] \in Call
      BY <1>1, <3>4, CallFields DEF Call
    <3>6. call' = [call EXCEPT ![c] =
                     [call[c] EXCEPT !.seen = pool[b.row], !.req = [b EXCEPT !.ident = i]]]
      BY <1>1, <3>1 DEF CallsOK
    <3>7. call' \in [Caller -> Call] /\ call'[c].joined = j
      BY <1>1, <3>5, <3>6 DEF CallsOK, Call
    <3> QED
      BY <1>1, <1>2, <2>3, <3>2, <3>6, <3>7 DEF CallsOK, CallPc
  <2> QED
    BY <2>1, <2>2, <2>3 DEF JoinTimeout, TakeResult, FinalAdmit
<1> QED
  BY <1>1, <1>2, <1>3
     DEF TypeOK, StoreOK, ProviderOK, LeasesOK, JobsOK, storeVars, providerVars, lockVars, jobVars

\* A job step that only moves the job on or settles it, and may release leases.
LEMMA SurveyType ==
  ASSUME TypeOK, NEW c \in Caller,
         SurveyRow(c) \/ SurveyPolicy(c) \/ Adopt(c) \/ ValidateAccess(c)
  PROVE  TypeOK'
<1>1. JobsOK /\ StoreOK /\ job[c] \in Job /\ job[c].req.row \in Row
  BY JobFields DEF TypeOK
<1>2. UNCHANGED <<JobUnchanged, lockVars>>
  BY DEF SurveyRow, SurveyPolicy, Adopt, ValidateAccess
<1>3. JobsOK'
  <2>1. CASE \E result \in Result : Settle(c, result)
    BY <1>1, <2>1, SettleType
  <2>2. CASE \E pc \in JobPc : Goto(c, pc) /\ job' = job
    BY <1>1, <2>2, GotoType DEF JobsOK
  <2>3. CASE job' = [job EXCEPT ![c].row = pool[job[c].req.row]] /\ Goto(c, "policy")
    <3>1. [job[c] EXCEPT !.row = pool[job[c].req.row]] \in Job
      BY <1>1, JobUpdates DEF StoreOK
    <3> QED
      BY <1>1, <2>3, <3>1, GotoType DEF JobsOK, JobPc
  <2>4. CASE job' = [job EXCEPT ![c].ctx = ContextOf(meta[job[c].req.row])] /\ Goto(c, "adopt")
    <3>1. [job[c] EXCEPT !.ctx = ContextOf(meta[job[c].req.row])] \in Job
      BY <1>1, JobUpdates, CaptureTypes DEF StoreOK
    <3> QED
      BY <1>1, <2>4, <3>1, GotoType DEF JobsOK, JobPc
  <2>5. CASE job' = [job EXCEPT ![c].fail = "validation"] /\ Goto(c, "failed")
    <3>1. [job[c] EXCEPT !.fail = "validation"] \in Job
      BY <1>1, JobUpdates
    <3> QED
      BY <1>1, <2>5, <3>1, GotoType DEF JobsOK, JobPc
  <2> QED
    <3>1. CASE SurveyRow(c)
      BY <2>1, <2>3, <3>1 DEF SurveyRow, Result
    <3>2. CASE SurveyPolicy(c)
      <4>1. "rowlock" \in JobPc
        BY DEF JobPc
      <4> QED
        BY <2>1, <2>2, <2>4, <3>2, <4>1 DEF SurveyPolicy, Result
    <3>3. CASE Adopt(c)
      <4>1. "validate" \in JobPc
        BY DEF JobPc
      <4> QED
        BY <2>1, <2>2, <3>3, <4>1 DEF Adopt, Result
    <3>4. CASE ValidateAccess(c)
      <4>1. "proof" \in JobPc
        BY DEF JobPc
      <4> QED
        BY <2>1, <2>2, <2>5, <3>4, <4>1 DEF ValidateAccess, Result
    <3> QED
      BY <3>1, <3>2, <3>3, <3>4
<1> QED
  BY <1>2, <1>3 DEF TypeOK, StoreOK, ProviderOK, LeasesOK, CallsOK, JobUnchanged,
     storeVars, providerVars, lockVars, callVars

LEMMA PublishType ==
  ASSUME TypeOK, NEW c \in Caller, PublishProof(c) \/ PublishSuccessor(c)
  PROVE  TypeOK'
<1> DEFINE b == job[c].req
           j == job[c]
           m == meta[b.row]
<1>1. JobsOK /\ StoreOK /\ LeasesOK /\ b \in Request /\ b.row \in Row /\ b.ident \in Identity
      /\ j.succ \in Material /\ j.learned \in Identity /\ j.ctx \in Context
      /\ j.succ.ref \in Token
  BY JobFields DEF TypeOK
<1>2. m \in Entry /\ MaterialOf(j.row) \in Material
  BY <1>1, CaptureTypes, JobFields DEF StoreOK
<1>3. UNCHANGED <<pool, providerVars, callVars, burnt, budget>>
  BY DEF PublishProof, PublishSuccessor
<1>4. LeasesOK'
  BY <1>1, ReleaseType DEF PublishProof, PublishSuccessor, lockVars, LeasesOK
<1>5. StoreOK' /\ JobsOK'
  <2>1. CASE PublishProof(c)
    <3>1. PublishEvidence(c, b.ident, MaterialOf(j.row), "current") /\ "current" \in Result
      BY <2>1 DEF PublishProof, Result
    <3> QED
      BY <1>1, <1>2, <1>3, <3>1, PublishEvidenceType
  <2>2. CASE PublishEvidence(c, j.learned, j.succ, "rotated")
    <3>1. "rotated" \in Result
      BY DEF Result
    <3> QED
      BY <1>1, <1>3, <2>2, <3>1, PublishEvidenceType
  <2>3. CASE PublishFailure(c, j.succ, WithUnsupported(m, b)) /\ Settle(c, "refused")
    <3>1. WithUnsupported(m, b) \in Entry /\ "refused" \in Result
      BY <1>1, <1>2, ClearingWriterTypes DEF Result
    <3> QED
      BY <1>1, <1>3, <2>3, <3>1, PublishFailureType, SettleType
  <2>4. CASE PublishFailure(c, j.succ, WithRetry(m, b, j.succ)) /\ Settle(c, "rotated")
    <3>1. WithRetry(m, b, j.succ) \in Entry /\ "rotated" \in Result
      BY <1>1, <1>2, RetryWriterType DEF Result
    <3> QED
      BY <1>1, <1>3, <2>4, <3>1, PublishFailureType, SettleType
  <2>5. CASE PublishFailure(c, j.succ, WithError(m, j.ctx, b, j.succ.ref, "backoff"))
             /\ Settle(c, "rotated")
    <3>1. WithError(m, j.ctx, b, j.succ.ref, "backoff") \in Entry /\ "rotated" \in Result
      BY <1>1, <1>2, ErrorWriterType DEF Result
    <3> QED
      BY <1>1, <1>3, <2>5, <3>1, PublishFailureType, SettleType
  <2> QED
    BY <2>1, <2>2, <2>3, <2>4, <2>5 DEF PublishSuccessor
<1> QED
  BY <1>3, <1>4, <1>5 DEF TypeOK, ProviderOK, CallsOK, providerVars, callVars

LEMMA LeaseStepType ==
  ASSUME TypeOK, NEW c \in Caller,
         LockRow(c) \/ LockProvider(c) \/ LockTimeout(c) \/ RecheckPolicy(c)
  PROVE  TypeOK'
<1>1. JobsOK /\ StoreOK /\ LeasesOK /\ job[c] \in Job /\ job[c].req.row \in Row
  BY JobFields DEF TypeOK
<1>2. UNCHANGED JobUnchanged
  BY DEF LockRow, LockProvider, LockTimeout, RecheckPolicy
<1>3. JobsOK' /\ LeasesOK'
  <2>1. CASE LockRow(c)
    <3>1. "provlock" \in JobPc
      BY DEF JobPc
    <3> QED
      BY <1>1, <2>1, <3>1, GotoType DEF LockRow, LeasesOK, JobsOK
  <2>2. CASE Settle(c, "refused") /\ ReleaseAll(c)
    <3>1. "refused" \in Result
      BY DEF Result
    <3> QED
      BY <1>1, <2>2, <3>1, SettleType, ReleaseType
  <2>3. CASE Settle(c, "failed") /\ ReleaseAll(c)
    <3>1. "failed" \in Result
      BY DEF Result
    <3> QED
      BY <1>1, <2>3, <3>1, SettleType, ReleaseType
  <2>4. CASE /\ provLock' = [provLock EXCEPT ![job[c].req.ident] = c] /\ rowLock' = rowLock
             /\ job' = [job EXCEPT ![c].row = pool[job[c].req.row]] /\ Goto(c, "recheck")
    <3>1. [job[c] EXCEPT !.row = pool[job[c].req.row]] \in Job /\ "recheck" \in JobPc
      BY <1>1, JobUpdates DEF StoreOK, JobPc
    <3> QED
      BY <1>1, <2>4, <3>1, GotoType DEF LeasesOK, JobsOK
  <2>5. CASE /\ job' = [job EXCEPT ![c].ctx = ContextOf(meta[job[c].req.row])]
             /\ Goto(c, "exchange") /\ UNCHANGED lockVars
    <3>1. [job[c] EXCEPT !.ctx = ContextOf(meta[job[c].req.row])] \in Job
          /\ "exchange" \in JobPc
      BY <1>1, JobUpdates, CaptureTypes DEF StoreOK, JobPc
    <3> QED
      BY <1>1, <2>5, <3>1, GotoType DEF LeasesOK, JobsOK, lockVars
  <2> QED
    BY <2>1, <2>2, <2>3, <2>4, <2>5 DEF LockProvider, LockTimeout, RecheckPolicy
<1> QED
  BY <1>2, <1>3 DEF TypeOK, StoreOK, ProviderOK, CallsOK, JobUnchanged,
     storeVars, providerVars, callVars

LEMMA ExchangeType ==
  ASSUME TypeOK, NEW c \in Caller,
         ExchangeSucceeds(c) \/ ExchangeFails(c) \/ ExchangeLost(c)
  PROVE  TypeOK'
<1> DEFINE ref == job[c].row.ref
<1>1. JobsOK /\ LeasesOK /\ ProviderOK /\ job[c] \in Job /\ job[c].req.row \in Row
      /\ ref \in Token
  BY JobFields DEF TypeOK
<1>2. CASE ExchangeSucceeds(c)
  <2>1. PICK keep \in Possible("keep"), bad \in Possible("unsupported") :
          /\ Mint(job[c].req.row, tok[ref].acct, ~bad)
          /\ live' = Redeemed(ref, keep)
          /\ job' = [job EXCEPT ![c].succ = Minted(ref, keep)]
    BY <1>2 DEF ExchangeSucceeds
  <2>2. keep \in BOOLEAN /\ bad \in BOOLEAN /\ (~bad) \in BOOLEAN
    BY DEF Possible
  <2>3. tok[ref].acct \in Identity
    BY <1>1 DEF ProviderOK
  <2>4. burnt' = burnt
    BY <1>2 DEF ExchangeSucceeds
  <2>5. ProviderOK' /\ Minted(ref, keep) \in Material
    BY <1>1, <2>1, <2>2, <2>3, <2>4, MintTypes
  <2>6. [job[c] EXCEPT !.succ = Minted(ref, keep)] \in Job
    BY <1>1, <2>5, JobUpdates
  <2>7. job' \in [Caller -> Job] /\ "lookup" \in JobPc
    BY <1>1, <2>1, <2>6 DEF JobsOK, JobPc
  <2>8. JobsOK'
    BY <1>1, <1>2, <2>7, GotoType DEF ExchangeSucceeds
  <2> QED
    BY <1>2, <2>5, <2>8 DEF ExchangeSucceeds, TypeOK, StoreOK, LeasesOK, CallsOK,
       storeVars, lockVars, callVars
<1>3. ASSUME NEW kind \in {"transient", "limited", "invalid"}, ExchangeEnds(c, kind)
      PROVE  JobsOK' /\ LeasesOK'
  <2>1. [job[c] EXCEPT !.fail = kind] \in Job /\ "failed" \in JobPc
    BY <1>1, JobUpdates DEF JobPc
  <2>2. job' \in [Caller -> Job]
    BY <1>1, <1>3, <2>1 DEF ExchangeEnds, JobsOK
  <2> QED
    BY <1>1, <1>3, <2>1, <2>2, GotoType, ReleaseType DEF ExchangeEnds
<1>4. CASE ExchangeFails(c)
  BY <1>3, <1>4 DEF ExchangeFails, TypeOK, StoreOK, ProviderOK, CallsOK, JobUnchanged,
     storeVars, providerVars, callVars
<1>5. CASE ExchangeLost(c)
  <2>1. budget' \in 0..MaxDisturb
    BY <1>5, ConstantsOK DEF ExchangeLost, Disturb, TypeOK
  <2>2. ProviderOK'
    BY <1>1, <1>5 DEF ExchangeLost, ProviderOK
  <2> QED
    BY <1>3, <1>5, <2>1, <2>2 DEF ExchangeLost, TypeOK, StoreOK, CallsOK, storeVars, callVars
<1> QED
  BY <1>2, <1>4, <1>5

LEMMA LookupType ==
  ASSUME TypeOK, NEW c \in Caller, LookupSuccessor(c)
  PROVE  TypeOK'
<1> DEFINE t == tok[job[c].succ.acc]
<1>1. JobsOK /\ job[c] \in Job /\ job[c].req \in Request
  BY JobFields DEF TypeOK
<1>2. t.acct \in Identity
  BY <1>1, JobFields DEF TypeOK, ProviderOK
<1>3. [job[c] EXCEPT !.look = "resolved", !.learned = t.acct] \in Job
  BY <1>1, <1>2, JobUpdates
<1>4. [job EXCEPT ![c].look = "resolved", ![c].learned = t.acct] \in [Caller -> Job]
  BY <1>1, <1>3 DEF JobsOK
<1>5. "handoff" \in JobPc /\ "commit" \in JobPc
  BY DEF JobPc
<1>6. JobsOK'
  <2>1. CASE /\ job' = [job EXCEPT ![c].look = "resolved", ![c].learned = t.acct]
             /\ jobs' = RegisterAlias(jobs, c, JobKey(job[c].req, t.acct))
             /\ jpc' = [jpc EXCEPT ![c] = "handoff"]
             /\ UNCHANGED barred
    <3>1. jobs' \subseteq Registration
      BY <1>1, <1>2, <2>1, MapTypes
    <3> QED
      BY <1>1, <1>4, <1>5, <2>1, <3>1 DEF JobsOK
  <2>2. CASE /\ job' = [job EXCEPT ![c].look = "resolved", ![c].learned = t.acct]
             /\ Goto(c, "commit")
    BY <1>1, <1>4, <1>5, <2>2, GotoType
  <2>3. CASE \E look \in {"failed", "unsupported"} :
               job' = [job EXCEPT ![c].look = look] /\ Goto(c, "commit")
    <3>1. PICK look \in {"failed", "unsupported"} :
            job' = [job EXCEPT ![c].look = look] /\ Goto(c, "commit")
      BY <2>3
    <3>2. [job[c] EXCEPT !.look = look] \in Job
      BY <1>1, JobUpdates
    <3>3. job' \in [Caller -> Job]
      BY <1>1, <3>1, <3>2 DEF JobsOK
    <3> QED
      BY <1>1, <1>5, <3>1, <3>3, GotoType
  <2> QED
    BY <2>1, <2>2, <2>3 DEF LookupSuccessor
<1> QED
  BY <1>6 DEF LookupSuccessor, TypeOK, StoreOK, ProviderOK, LeasesOK, CallsOK, JobUnchanged,
     storeVars, providerVars, lockVars, callVars

LEMMA HandoffType ==
  ASSUME TypeOK, NEW c \in Caller,
         AcquireHandoff(c) \/ HandoffTimeout(c) \/ NoticeHandoffLoss(c)
  PROVE  TypeOK'
<1>1. JobsOK /\ LeasesOK /\ job[c] \in Job /\ job[c].learned \in Identity
  BY JobFields DEF TypeOK
<1>2. UNCHANGED <<JobUnchanged, rowLock>>
  BY DEF AcquireHandoff, HandoffTimeout, NoticeHandoffLoss, lockVars
<1>3. jpc' \in [Caller -> JobPc]
  BY <1>1 DEF AcquireHandoff, HandoffTimeout, NoticeHandoffLoss, JobsOK, JobPc
<1>4. provLock' \in [Identity -> Caller \cup {NoCaller}]
  BY <1>1 DEF AcquireHandoff, HandoffTimeout, NoticeHandoffLoss, LeasesOK, lockVars
<1>5. JobsOK'
  <2>1. CASE SkipHandoff(c)
    BY <1>1, <1>3, <2>1, SkipHandoffType
  <2>2. CASE job' = [job EXCEPT ![c].hand = "held"] /\ UNCHANGED <<jobs, barred>>
    <3>1. [job[c] EXCEPT !.hand = "held"] \in Job
      BY <1>1, JobUpdates
    <3> QED
      BY <1>1, <1>3, <2>2, <3>1 DEF JobsOK
  <2> QED
    BY <2>1, <2>2 DEF AcquireHandoff, HandoffTimeout, NoticeHandoffLoss
<1> QED
  BY <1>1, <1>2, <1>4, <1>5 DEF TypeOK, StoreOK, ProviderOK, LeasesOK, CallsOK, JobUnchanged,
     storeVars, providerVars, callVars

LEMMA CommitType ==
  ASSUME TypeOK, NEW c \in Caller, Commit(c) \/ CommitFails(c)
  PROVE  TypeOK'
<1> DEFINE b == job[c].req
<1>1. JobsOK /\ LeasesOK /\ StoreOK /\ ProviderOK /\ b.row \in Row /\ b.ident \in Identity
      /\ job[c].learned \in Identity /\ job[c].succ.acc \in Token
      /\ job[c].succ.ref \in Token /\ job[c].row.ref \in Token
  BY JobFields DEF TypeOK
<1>2. UNCHANGED <<meta, providerVars, callVars>>
  BY DEF Commit, CommitFails, storeVars
<1>3. pool' \in [Row -> PoolRow]
  <2>1. CASE pool' = pool
    BY <1>1, <2>1 DEF StoreOK
  <2>2. CASE pool' = Quarantined(c)
    BY <1>1, <2>2 DEF StoreOK, Quarantined, PoolRow
  <2>3. CASE pool' = WithSuccessor(c)
    <3> DEFINE ident == IF b.ident = NoId THEN job[c].learned ELSE b.ident
               same == {q \in Row : q = b.row \/ (ident # NoId /\ pool[q].ident = ident)}
               row(q) == IF q = b.row
                           THEN [pool[q] EXCEPT !.ident = ident, !.acc = job[c].succ.acc,
                                                !.ref = job[c].succ.ref]
                           ELSE pool[q]
    <3>1. ASSUME NEW q \in Row
          PROVE  row(q) \in PoolRow
      BY <1>1 DEF StoreOK, PoolRow
    <3>2. ASSUME NEW x \in PoolRow, NEW P
          PROVE  [x EXCEPT !.on = @ /\ ~P] \in PoolRow
      BY DEF PoolRow
    <3>3. pool' = [q \in Row |-> [row(q) EXCEPT !.on = @ /\ ~(q \in same /\ \E p \in same : p < q)]]
      BY <2>3 DEF WithSuccessor
    <3> QED
      BY <3>1, <3>2, <3>3
  <2> QED
    BY <2>1, <2>2, <2>3 DEF Commit, CommitFails, storeVars
<1>4. burnt' \subseteq Token
  BY <1>1 DEF Commit, CommitFails, Abandons, ProviderOK
<1>5. JobsOK' /\ LeasesOK'
  <2>1. CASE \E result \in {"failed", "refused"} : Settle(c, result) /\ ReleaseAll(c)
    <3>1. {"failed", "refused"} \subseteq Result
      BY DEF Result
    <3> QED
      BY <1>1, <2>1, <3>1, SettleType, ReleaseType
  <2>2. CASE Goto(c, "publish") /\ UNCHANGED <<lockVars, job>>
    <3>1. "publish" \in JobPc
      BY DEF JobPc
    <3> QED
      BY <1>1, <2>2, <3>1, GotoType DEF JobsOK, LeasesOK, lockVars
  <2> QED
    BY <2>1, <2>2 DEF Commit, CommitFails, Abandons
<1>6. budget' \in 0..MaxDisturb
  BY ConstantsOK DEF Commit, CommitFails, Disturb, TypeOK
<1> QED
  BY <1>1, <1>2, <1>3, <1>4, <1>5, <1>6
     DEF TypeOK, StoreOK, ProviderOK, CallsOK, providerVars, callVars

LEMMA ReconcileFailureType ==
  ASSUME TypeOK, NEW c \in Caller, ReconcileFailure(c)
  PROVE  TypeOK'
<1> DEFINE j == job[c]
           m == meta[j.req.row]
           entry == IF j.fail = "validation" THEN WithRetry(m, j.req, MaterialOf(j.row))
                    ELSE WithError(m, j.ctx, j.req, j.row.ref, ErrorKind(j.fail))
<1>1. JobsOK /\ StoreOK /\ j \in Job /\ j.req \in Request /\ j.req.row \in Row
      /\ j.row \in PoolRow /\ j.row.ref \in Token /\ j.ctx \in Context
      /\ j.attempt \in 0..MaxAttempts
  BY JobFields DEF TypeOK
<1>2. entry \in Entry
  <2>1. m \in Entry /\ MaterialOf(j.row) \in Material /\ ErrorKind(j.fail) \in {"backoff", "dead"}
    BY <1>1, CaptureTypes DEF StoreOK, ErrorKind
  <2> QED
    BY <1>1, <2>1, RetryWriterType, ErrorWriterType
<1>3. UNCHANGED <<pool, providerVars, lockVars, callVars, burnt, budget>>
  BY DEF ReconcileFailure
<1>4. StoreOK'
  BY <1>1, <1>2, <1>3, PublishFailureType DEF ReconcileFailure
<1>5. JobsOK'
  <2>1. CASE MayRetry(c)
    <3>1. j.attempt + 1 \in 0..MaxAttempts
      BY <1>1, <2>1, ConstantsOK DEF MayRetry
    <3>2. NextAttempt(j) \in Job /\ "start" \in JobPc
      BY <1>1, <3>1, AttemptType DEF NextAttempt, JobPc
    <3>3. job' \in [Caller -> Job] /\ Goto(c, "start")
      BY <1>1, <2>1, <3>2 DEF ReconcileFailure, JobsOK
    <3> QED
      BY <1>1, <3>2, <3>3, GotoType
  <2>2. CASE ~MayRetry(c)
    <3>1. Settle(c, "failed") /\ "failed" \in Result
      BY <2>2 DEF ReconcileFailure, Result
    <3> QED
      BY <1>1, <3>1, SettleType
  <2> QED
    BY <2>1, <2>2
<1> QED
  BY <1>3, <1>4, <1>5 DEF TypeOK, ProviderOK, LeasesOK, CallsOK, providerVars, lockVars, callVars

LEMMA AbortType ==
  ASSUME TypeOK, NEW c \in Caller, Abort(c)
  PROVE  TypeOK'
<1>1. JobsOK /\ LeasesOK /\ CallsOK /\ job[c].learned \in Identity
  BY JobFields DEF TypeOK
<1>2. UNCHANGED <<storeVars, providerVars, rowLock, cpc, call, jpc, burnt, budget>>
  BY DEF Abort
<1>3. CallsOK'
  BY <1>1, <1>2 DEF Abort, CallsOK
<1>4. JobsOK'
  <2>1. CASE SkipHandoff(c)
    BY <1>1, <1>2, <2>1, SkipHandoffType DEF JobsOK
  <2>2. CASE UNCHANGED <<jobs, job, barred>>
    BY <1>1, <1>2, <2>2 DEF JobsOK
  <2> QED
    BY <2>1, <2>2 DEF Abort
<1>5. LeasesOK'
  BY <1>1, <1>2 DEF Abort, LeasesOK
<1> QED
  BY <1>2, <1>3, <1>4, <1>5 DEF TypeOK, StoreOK, ProviderOK, storeVars, providerVars

LEMMA UserStepType ==
  ASSUME TypeOK, NEW r \in Row, UserStep(r)
  PROVE  TypeOK'
<1>1. StoreOK /\ ProviderOK /\ pool[r] \in PoolRow /\ meta[r] \in Entry
      /\ pool[r].ref \in Token
  BY DEF TypeOK, StoreOK, PoolRow
<1>2. UNCHANGED <<lockVars, callVars, jobVars, burnt>>
  BY DEF UserStep, SignIn, InitializeEpoch, ResetBackoff, BackoffElapses, Disable, ForeignRefresh
<1>3. budget' \in 0..MaxDisturb
  <2>1. budget' = budget \/ (budget > 0 /\ budget' = budget - 1)
    BY DEF UserStep, SignIn, InitializeEpoch, ResetBackoff, BackoffElapses, Disable,
       ForeignRefresh, Disturb
  <2> QED
    BY <2>1, ConstantsOK DEF TypeOK
<1>4. StoreOK' /\ ProviderOK'
  <2>1. CASE SignIn(r)
    <3>1. PICK a \in Account :
            /\ Mint(r, a, TRUE)
            /\ pool' = [pool EXCEPT ![r] = [@ EXCEPT !.epoch = pool[r].epoch + 1, !.ident = a,
                                                    !.acc = minted + 1, !.ref = minted + 1]]
      BY <2>1 DEF SignIn
    <3>2. a \in Identity /\ live' = live \cup {minted + 1} /\ burnt' = burnt /\ meta' = meta
          /\ TRUE \in BOOLEAN
      BY <2>1 DEF Identity, SignIn
    <3>3. ProviderOK' /\ minted + 1 \in Token
      BY <1>1, <3>1, <3>2, MintTypes
    <3> DEFINE signedIn == [pool[r] EXCEPT !.epoch = pool[r].epoch + 1, !.ident = a, !.acc = minted + 1,
                                           !.ref = minted + 1]
    <3>4. signedIn \in PoolRow
      <4>1. pool[r].epoch + 1 \in Nat
        BY <1>1 DEF PoolRow
      <4> QED
        BY <1>1, <3>2, <3>3, <4>1 DEF PoolRow
    <3>5. pool' = [pool EXCEPT ![r] = signedIn]
      BY <3>1
    <3>6. StoreOK'
      <4> HIDE DEF signedIn
      <4> QED
        BY <1>1, <3>2, <3>4, <3>5 DEF StoreOK
    <3> QED
      BY <3>3, <3>6
  <2>2. CASE InitializeEpoch(r)
    <3>1. EmptyEntry(pool[r]) \in Entry
      BY <1>1, ClearingWriterTypes
    <3> QED
      BY <1>1, <1>2, <2>2, <3>1 DEF InitializeEpoch, StoreOK, ProviderOK, providerVars
  <2>3. CASE ResetBackoff(r)
    <3>1. WithReset(meta[r]) \in Entry
      BY <1>1, ClearingWriterTypes
    <3> QED
      BY <1>1, <1>2, <2>3, <3>1 DEF ResetBackoff, StoreOK, ProviderOK, providerVars
  <2>4. CASE BackoffElapses(r)
    <3>1. [meta[r] EXCEPT !.err = [@ EXCEPT !.kind = "elapsed"]] \in Entry
      BY <1>1 DEF Entry, RefreshError
    <3>2. [meta[r] EXCEPT !.retry = [@ EXCEPT !.due = TRUE]] \in Entry
      BY <1>1 DEF Entry, Retry
    <3>3. \/ meta' = [meta EXCEPT ![r] = [meta[r] EXCEPT !.err = [@ EXCEPT !.kind = "elapsed"]]]
          \/ meta' = [meta EXCEPT ![r] = [meta[r] EXCEPT !.retry = [@ EXCEPT !.due = TRUE]]]
      BY <1>1, <2>4 DEF BackoffElapses, StoreOK
    <3> QED
      BY <1>1, <1>2, <2>4, <3>1, <3>2, <3>3 DEF BackoffElapses, StoreOK, ProviderOK, providerVars
  <2>5. CASE Disable(r)
    <3>1. [pool[r] EXCEPT !.on = FALSE] \in PoolRow
      BY <1>1 DEF PoolRow
    <3> QED
      BY <1>1, <1>2, <2>5, <3>1 DEF Disable, StoreOK, ProviderOK, providerVars
  <2>6. CASE ForeignRefresh(r)
    <3> DEFINE ref == pool[r].ref
    <3>1. PICK keep \in Possible("keep") :
            /\ Mint(r, tok[ref].acct, TRUE)
            /\ live' = Redeemed(ref, keep)
            /\ pool' = [pool EXCEPT ![r] = [@ EXCEPT !.acc = Minted(ref, keep).acc,
                                                     !.ref = Minted(ref, keep).ref]]
      BY <2>6 DEF ForeignRefresh
    <3>2. keep \in BOOLEAN /\ tok[ref].acct \in Identity /\ burnt' = burnt /\ meta' = meta
          /\ TRUE \in BOOLEAN
      BY <1>1, <2>6 DEF Possible, ProviderOK, ForeignRefresh
    <3>3. ProviderOK' /\ Minted(ref, keep) \in Material
      BY <1>1, <3>1, <3>2, MintTypes
    <3>4. [pool[r] EXCEPT !.acc = Minted(ref, keep).acc, !.ref = Minted(ref, keep).ref] \in PoolRow
      BY <1>1, <3>3 DEF PoolRow, Material
    <3> QED
      BY <1>1, <3>1, <3>2, <3>3, <3>4 DEF StoreOK
  <2> QED
    BY <2>1, <2>2, <2>3, <2>4, <2>5, <2>6 DEF UserStep
<1> QED
  BY <1>2, <1>3, <1>4 DEF TypeOK, LeasesOK, CallsOK, JobsOK, lockVars, callVars, jobVars

LEMMA EnvironmentType ==
  ASSUME TypeOK,
         \/ \E c \in Caller : Stall(c) \/ EvictStale(c)
         \/ \E t \in 1..MaxTok : AccessExpires(t)
         \/ \E p \in Process : Crash(p)
         \/ AllDone
  PROVE  TypeOK'
<1>1. CASE \E c \in Caller : Stall(c)
  <2>1. LeasesOK'
    BY <1>1 DEF Stall, TypeOK, LeasesOK
  <2>2. budget' \in 0..MaxDisturb
    BY <1>1, ConstantsOK DEF Stall, Disturb, TypeOK
  <2> QED
    BY <1>1, <2>1, <2>2 DEF Stall, TypeOK, StoreOK, ProviderOK, CallsOK, JobsOK,
       storeVars, providerVars, callVars, jobVars
<1>2. CASE \E c \in Caller : EvictStale(c)
  BY <1>2, ReleaseType DEF EvictStale, TypeOK, StoreOK, ProviderOK, CallsOK, JobsOK,
     storeVars, providerVars, callVars, jobVars
<1>3. CASE \E t \in 1..MaxTok : AccessExpires(t)
  <2>1. ProviderOK'
    BY <1>3 DEF AccessExpires, TypeOK, ProviderOK
  <2>2. budget' \in 0..MaxDisturb
    BY <1>3, ConstantsOK DEF AccessExpires, Disturb, TypeOK
  <2> QED
    BY <1>3, <2>1, <2>2 DEF AccessExpires, TypeOK, StoreOK, LeasesOK, CallsOK, JobsOK,
       storeVars, lockVars, callVars, jobVars
<1>4. CASE \E p \in Process : Crash(p)
  <2>1. PICK p \in Process : Crash(p)
    BY <1>4
  <2> DEFINE in == {c \in Caller : ProcOf[c] = p}
             calls == {c \in in : cpc[c] \notin {"idle", "done", "crashed"}}
             running == {c \in in : Running(c)}
  <2>2. JobsOK /\ CallsOK
    BY DEF TypeOK
  <2>3. /\ cpc' = [c \in Caller |-> IF c \in calls THEN "crashed" ELSE cpc[c]]
        /\ call' = [c \in Caller |-> IF c \in calls THEN NoCall ELSE call[c]]
        /\ aborted' = aborted
    BY <2>1 DEF Crash
  <2>4. /\ jpc' = [c \in Caller |-> IF c \in running THEN "dead" ELSE jpc[c]]
        /\ job' = [c \in Caller |-> IF c \in running THEN NoJob ELSE job[c]]
        /\ barred' = [c \in Caller |-> IF c \in in THEN {} ELSE barred[c]]
        /\ jobs' \subseteq jobs
    BY <2>1 DEF Crash
  <2>5. CallsOK'
    BY <2>2, <2>3, ConstantTypes DEF CallsOK, CallPc
  <2>6. JobsOK'
    <3>1. "dead" \in JobPc /\ NoJob \in Job
      BY ConstantTypes DEF JobPc
    <3> QED
      BY <2>2, <2>4, <3>1 DEF JobsOK
  <2>7. burnt' \subseteq Token
    <3>1. \A c \in Caller : job[c].row.ref \in Token
      BY <2>2, JobFields
    <3> QED
      BY <2>1, <3>1 DEF Crash, TypeOK, ProviderOK
  <2>8. budget' \in 0..MaxDisturb
    BY <2>1, ConstantsOK DEF Crash, Disturb, TypeOK
  <2> QED
    BY <2>1, <2>5, <2>6, <2>7, <2>8 DEF Crash, TypeOK, StoreOK, ProviderOK, LeasesOK,
       storeVars, providerVars, lockVars
<1>5. CASE AllDone
  BY <1>5 DEF AllDone, vars, TypeOK, StoreOK, ProviderOK, LeasesOK, CallsOK, JobsOK,
     storeVars, providerVars, lockVars, callVars, jobVars
<1> QED
  BY <1>1, <1>2, <1>3, <1>4, <1>5

LEMMA InitType == Init => TypeOK
<1> SUFFICES ASSUME Init PROVE TypeOK
  OBVIOUS
<1>1. PICK ident \in [Row -> Identity], owner \in [Row -> Account] :
        /\ pool = [r \in Row |-> [epoch |-> 1, ident |-> ident[r], acc |-> r, ref |-> r,
                                   on |-> TRUE]]
        /\ tok = [n \in Token |->
                    IF n \in Row THEN [acct |-> owner[n], row |-> n, ok |-> TRUE]
                    ELSE [acct |-> NoId, row |-> 0, ok |-> FALSE]]
        /\ meta \in [Row -> UNION {InitEntry(pool[r], owner[r]) : r \in Row}]
        /\ \A r \in Row : meta[r] \in InitEntry(pool[r], owner[r])
  BY DEF Init
<1>2. Row \subseteq 1..MaxTok /\ Row \subseteq Token /\ NRows \in 0..MaxTok
  BY ConstantsOK, MetadataConstantsOK DEF Row, Token
<1>3. pool \in [Row -> PoolRow]
  BY <1>1, <1>2 DEF PoolRow
<1>4. meta \in [Row -> Entry]
  <2>1. ASSUME NEW r \in Row
        PROVE  InitEntry(pool[r], owner[r]) \subseteq Entry
    <3>1. pool[r] \in PoolRow /\ NoEntry \in Entry
      BY <1>3, ConstantTypes
    <3>2. EmptyEntry(pool[r]) \in Entry /\ MaterialOf(pool[r]) \in Material
      BY <3>1, ClearingWriterTypes, CaptureTypes
    <3>3. [EmptyEntry(pool[r]) EXCEPT !.proof = MaterialOf(pool[r])] \in Entry
      BY <3>2 DEF Entry
    <3> QED
      BY <3>1, <3>2, <3>3 DEF InitEntry
  <2>2. \A r \in Row : meta[r] \in Entry
    BY <1>1, <2>1
  <2>3. meta = [r \in Row |-> meta[r]]
    BY <1>1
  <2> QED
    BY <2>2, <2>3
<1>5. ProviderOK
  <2>1. tok \in [Token -> [acct : Identity, row : 0..NRows, ok : BOOLEAN]]
    BY <1>1, <1>2, ConstantsOK DEF Identity, Row
  <2> QED
    BY <1>2, <2>1 DEF Init, ProviderOK
<1>6. LeasesOK
  BY DEF Init, LeasesOK
<1>7. CallsOK
  BY ConstantTypes DEF Init, CallsOK, CallPc
<1>8. JobsOK
  BY ConstantTypes DEF Init, JobsOK, JobPc
<1>9. budget \in 0..MaxDisturb
  BY ConstantsOK DEF Init
<1> QED
  BY <1>3, <1>4, <1>5, <1>6, <1>7, <1>8, <1>9 DEF TypeOK, StoreOK

LEMMA StepType == TypeOK /\ [Next]_vars => TypeOK'
<1> SUFFICES ASSUME TypeOK, [Next]_vars PROVE TypeOK'
  OBVIOUS
<1>1. ASSUME NEW c \in Caller, Begin(c) \/ CallStep(c) PROVE TypeOK'
  BY <1>1, BeginType, ReadRowType, AdmitCurrentType, AnswerType DEF CallStep
<1>2. ASSUME NEW c \in Caller, JobStep(c) PROVE TypeOK'
  BY <1>2, SurveyType, PublishType, LeaseStepType, ExchangeType, LookupType, HandoffType,
     CommitType, ReconcileFailureType DEF JobStep
<1>3. ASSUME NEW c \in Caller, Abort(c) PROVE TypeOK'
  BY <1>3, AbortType
<1>4. ASSUME NEW r \in Row, UserStep(r) PROVE TypeOK'
  BY <1>4, UserStepType
<1>5. CASE \/ \E c \in Caller : Stall(c) \/ EvictStale(c)
           \/ \E t \in 1..MaxTok : AccessExpires(t)
           \/ \E p \in Process : Crash(p)
           \/ AllDone
  BY <1>5, EnvironmentType
<1>6. CASE UNCHANGED vars
  BY <1>6 DEF vars, TypeOK, StoreOK, ProviderOK, LeasesOK, CallsOK, JobsOK,
     storeVars, providerVars, lockVars, callVars, jobVars
<1> QED
  BY <1>1, <1>2, <1>3, <1>4, <1>5, <1>6 DEF Next

\* Every variable of the model keeps its type, for every instance.
THEOREM TypeCorrect == Spec => []TypeOK
<1>1. Init => TypeOK
  BY InitType
<1>2. TypeOK /\ [Next]_vars => TypeOK'
  BY StepType
<1> QED
  BY <1>1, <1>2, PTL DEF Spec

-----------------------------------------------------------------------------
\* Recorded evidence is true.

MintedOnly == \A n \in Token : tok[n].ok => n <= minted
EntriesOK == \A r \in Row : pool[r].epoch # 0 /\ EntryEvidence(meta[r])

\* Minting a token says nothing new of an older one.
LEMMA MintKeepsEvidence ==
  ASSUME ProviderOK, MintedOnly, NEW r, NEW i, NEW ok, Mint(r, i, ok)
  PROVE  /\ MintedOnly'
         /\ \A n \in Token : \A a : Shows(n, a) => Shows(n, a)'
<1>1. minted + 1 \in Token /\ minted \in Nat
  BY MetadataConstantsOK DEF Mint, ProviderOK, Token
<1>2. \A n \in Token : n <= minted => tok'[n] = tok[n]
  BY <1>1 DEF Mint, ProviderOK, Token
<1>3. MintedOnly'
  <2> SUFFICES ASSUME NEW n \in Token, tok'[n].ok
               PROVE  n <= minted'
    BY DEF MintedOnly
  <2>1. CASE n = minted + 1
    BY <1>1, <2>1 DEF Mint
  <2>2. CASE n # minted + 1
    <3>1. tok'[n] = tok[n]
      BY <2>2 DEF Mint, ProviderOK
    <3> QED
      BY <1>1, <3>1 DEF MintedOnly, Mint, Token
  <2> QED
    BY <2>1, <2>2
<1> QED
  BY <1>2, <1>3 DEF MintedOnly, Shows

\* A rewritten entry that keeps its proof keeps what the proof shows.
LEMMA FailureKeepsEvidence ==
  ASSUME NEW m \in Entry, EntryEvidence(m), NEW ctx \in Context, NEW b \in Request,
         ContextHolds(m, ctx, b)
  PROVE  /\ \A ref, kind : EntryEvidence(WithError(m, ctx, b, ref, kind))
         /\ \A mat : EntryEvidence(WithRetry(m, b, mat))
         /\ EntryEvidence(WithUnsupported(m, b))
<1>1. m.epoch # 0 => m.epoch = b.epoch /\ m.ident = b.ident
  BY DEF ContextHolds, Binds, SameBinding
<1>2. m.epoch = 0 => m.proof = NoMaterial
  BY DEF EntryEvidence
<1>3. \A ref, kind : /\ WithError(m, ctx, b, ref, kind).proof = m.proof
                     /\ WithError(m, ctx, b, ref, kind).ident = b.ident
                     /\ WithError(m, ctx, b, ref, kind).epoch = b.epoch
  BY DEF WithError, Entry
<1>4. ASSUME NEW mat
      PROVE  \/ WithRetry(m, b, mat) = m
             \/ /\ WithRetry(m, b, mat).proof = m.proof
                /\ WithRetry(m, b, mat).ident = b.ident
                /\ WithRetry(m, b, mat).epoch = b.epoch
  BY DEF WithRetry, Entry
<1>5. /\ WithUnsupported(m, b).proof = m.proof
      /\ \/ /\ WithUnsupported(m, b).ident = b.ident
            /\ WithUnsupported(m, b).epoch = b.epoch
         \/ /\ WithUnsupported(m, b).ident = m.ident
            /\ WithUnsupported(m, b).epoch = m.epoch
  BY DEF WithUnsupported, Entry
<1>6. \A ref, kind : EntryEvidence(WithError(m, ctx, b, ref, kind))
  BY <1>1, <1>2, <1>3 DEF EntryEvidence
<1>7. \A mat : EntryEvidence(WithRetry(m, b, mat))
  BY <1>1, <1>2, <1>4 DEF EntryEvidence
<1>8. EntryEvidence(WithUnsupported(m, b))
  BY <1>1, <1>2, <1>5 DEF EntryEvidence
<1> QED
  BY <1>6, <1>7, <1>8

LEMMA ResetKeepsEvidence ==
  ASSUME NEW m \in Entry, EntryEvidence(m)
  PROVE  /\ EntryEvidence(WithReset(m))
         /\ EntryEvidence([m EXCEPT !.err = [@ EXCEPT !.kind = "elapsed"]])
         /\ EntryEvidence([m EXCEPT !.retry = [@ EXCEPT !.due = TRUE]])
         /\ \A row : EntryEvidence(EmptyEntry(row))
<1>1. WithReset(m).proof = m.proof /\ WithReset(m).ident = m.ident /\ WithReset(m).epoch = m.epoch
  BY DEF WithReset, Entry
<1>2. \A row : EmptyEntry(row).proof = NoMaterial
  BY DEF EmptyEntry, NoEntry
<1> QED
  BY <1>1, <1>2 DEF EntryEvidence, Entry

\* Evidence is only written with the account that the lookup of its token showed.
LEMMA EvidenceKeepsEvidence ==
  ASSUME NEW m \in Entry, NEW ctx \in Context, NEW b \in Request, NEW i \in Identity,
         NEW mat \in Material, b.epoch # 0, EvidenceFits(m, ctx, b, i), Shows(mat.acc, i)
  PROVE  EntryEvidence(WithEvidence(m, ctx, b, i, mat))
<1> DEFINE e == WithEvidence(m, ctx, b, i, mat)
<1>1. e.proof = mat /\ e.ident = i
  BY DEF WithEvidence, Entry
<1>2. e.epoch # 0
  <2>1. CASE IsFirstIdentity(ctx)
    <3>1. m.epoch # 0
      BY <2>1 DEF EvidenceFits, ContextHolds, IsFirstIdentity
    <3>2. e.epoch = m.epoch
      BY <2>1 DEF WithEvidence, Entry
    <3> QED
      BY <3>1, <3>2
  <2>2. CASE ~IsFirstIdentity(ctx)
    BY <2>2 DEF WithEvidence, Entry
  <2> QED
    BY <2>1, <2>2
<1> QED
  BY <1>1, <1>2 DEF EntryEvidence

LEMMA PublishFailureEvidence ==
  ASSUME TypeOK, EntriesOK, NEW c \in Caller, NEW mat, NEW entry,
         PublishFailure(c, mat, entry), FailureAccepted(c, mat) => EntryEvidence(entry),
         pool' = pool, tok' = tok
  PROVE  EntriesOK'
<1>1. job[c].req.row \in Row
  BY JobFields DEF TypeOK
<1>2. meta' = IF FailureAccepted(c, mat) THEN [meta EXCEPT ![job[c].req.row] = entry] ELSE meta
  BY DEF PublishFailure
<1>3. \A r \in Row : meta'[r] = meta[r] \/ (FailureAccepted(c, mat) /\ meta'[r] = entry)
  BY <1>1, <1>2 DEF TypeOK, StoreOK
<1> QED
  BY <1>3 DEF EntriesOK, EntryEvidence, Shows

LEMMA PublishEvidenceEvidence ==
  ASSUME TypeOK, EntriesOK, NEW c \in Caller, NEW i \in Identity, NEW mat \in Material,
         NEW result, PublishEvidence(c, i, mat, result), Shows(mat.acc, i),
         pool' = pool, tok' = tok
  PROVE  EntriesOK'
<1> DEFINE b == job[c].req
           m == meta[b.row]
           e == WithEvidence(m, job[c].ctx, b, i, mat)
<1>1. b \in Request /\ b.row \in Row /\ job[c].ctx \in Context
  BY JobFields DEF TypeOK
<1>2. CASE ~EvidenceAccepted(c, i, mat)
  BY <1>2 DEF PublishEvidence, EntriesOK, EntryEvidence, Shows
<1>3. CASE EvidenceAccepted(c, i, mat)
  <2>1. EvidenceFits(m, job[c].ctx, b, i) /\ SameBinding([b EXCEPT !.ident = i], pool[b.row])
    BY <1>3 DEF EvidenceAccepted
  <2>2. b.epoch = pool[b.row].epoch
    BY <1>1, <2>1 DEF SameBinding, Request
  <2>3. b.epoch # 0 /\ m \in Entry
    BY <1>1, <2>2 DEF EntriesOK, TypeOK, StoreOK
  <2>4. EntryEvidence(e)
    BY <1>1, <2>1, <2>3, EvidenceKeepsEvidence
  <2>5. meta' = [meta EXCEPT ![b.row] = e]
    BY <1>3 DEF PublishEvidence
  <2>6. \A r \in Row : meta'[r] = meta[r] \/ meta'[r] = e
    BY <1>1, <2>5 DEF TypeOK, StoreOK
  <2> HIDE DEF e
  <2> QED
    BY <2>4, <2>6 DEF EntriesOK, EntryEvidence, Shows
<1> QED
  BY <1>2, <1>3

\* A step that moves one job keeps what the others are about to publish.
OthersStay(c) == \A d \in Caller \ {c} : jpc'[d] = jpc[d] /\ job'[d] = job[d]
ShowsStill == \A n \in Token : \A a : Shows(n, a) => Shows(n, a)'

LEMMA OtherJobsEvidence ==
  ASSUME TypeOK, NEW c \in Caller, OthersStay(c), ShowsStill,
         \A d \in Caller : JobEvidence(d), JobEvidence(c)'
  PROVE  \A d \in Caller : JobEvidence(d)'
<1> SUFFICES ASSUME NEW d \in Caller, d # c
             PROVE  JobEvidence(d)'
  OBVIOUS
<1>1. jpc'[d] = jpc[d] /\ job'[d] = job[d]
  BY DEF OthersStay
<1>2. job[d].row.acc \in Token /\ job[d].succ.acc \in Token
  BY JobFields DEF TypeOK
<1> QED
  BY <1>1, <1>2 DEF JobEvidence, ShowsStill

Telling == {"proof", "handoff", "commit", "publish"}

LEMMA QuietJobEvidence ==
  ASSUME NEW c \in Caller, jpc'[c] \notin Telling
  PROVE  JobEvidence(c)'
  BY DEF JobEvidence, Telling

LEMMA SettleMoves ==
  ASSUME JobsOK, NEW c \in Caller, NEW result, Settle(c, result)
  PROVE  OthersStay(c) /\ jpc'[c] = "settled"
  BY DEF Settle, OthersStay, JobsOK

LEMMA GotoMoves ==
  ASSUME JobsOK, NEW c \in Caller, NEW pc, Goto(c, pc)
  PROVE  (\A d \in Caller \ {c} : jpc'[d] = jpc[d]) /\ jpc'[c] = pc
  BY DEF Goto, JobsOK

LEMMA SkipHandoffMoves ==
  ASSUME JobsOK, NEW c \in Caller, SkipHandoff(c)
  PROVE  /\ \A d \in Caller \ {c} : job'[d] = job[d]
         /\ job'[c].look = job[c].look /\ job'[c].succ = job[c].succ
         /\ job'[c].learned = job[c].learned /\ job'[c].row = job[c].row
         /\ job'[c].req = job[c].req /\ job'[c].hand = "skipped"
  BY DEF SkipHandoff, JobsOK, Job

-----------------------------------------------------------------------------
\* The steps of one job.

LEMMA SurveyEvidence ==
  ASSUME TypeOK, NEW c \in Caller, \A d \in Caller : JobEvidence(d),
         SurveyRow(c) \/ SurveyPolicy(c) \/ Adopt(c) \/ ValidateAccess(c)
  PROVE  \A d \in Caller : JobEvidence(d)'
<1>1. JobsOK /\ ShowsStill
  BY DEF TypeOK, SurveyRow, SurveyPolicy, Adopt, ValidateAccess, JobUnchanged, providerVars,
     ShowsStill, Shows
<1>2. OthersStay(c)
  <2>1. CASE \E result : Settle(c, result)
    BY <1>1, <2>1, SettleMoves
  <2>2. CASE \E pc : Goto(c, pc) /\ \E j : job' = [job EXCEPT ![c] = j]
    BY <1>1, <2>2, GotoMoves DEF OthersStay, JobsOK
  <2>3. CASE \E pc : Goto(c, pc) /\ UNCHANGED job
    BY <1>1, <2>3, GotoMoves DEF OthersStay, JobsOK
  <2> QED
    BY <2>1, <2>2, <2>3 DEF SurveyRow, SurveyPolicy, Adopt, ValidateAccess
<1>3. JobEvidence(c)'
  <2>1. CASE jpc'[c] \notin Telling
    BY <2>1, QuietJobEvidence
  <2>2. CASE /\ Confirms(c) /\ tok[job[c].row.acc].ok /\ Goto(c, "proof")
             /\ UNCHANGED <<job, tok>>
    <3>1. jpc'[c] = "proof"
      BY <1>1, <2>2, GotoMoves
    <3> QED
      BY <2>2, <3>1 DEF JobEvidence, Confirms, Shows
  <2>3. \/ jpc'[c] \in {"settled", "policy", "adopt", "rowlock", "validate", "failed"}
        \/ /\ Confirms(c) /\ tok[job[c].row.acc].ok /\ Goto(c, "proof")
           /\ UNCHANGED <<job, tok>>
    BY <1>1, SettleMoves, GotoMoves
       DEF SurveyRow, SurveyPolicy, Adopt, ValidateAccess, JobUnchanged, providerVars
  <2> QED
    BY <2>1, <2>2, <2>3 DEF Telling
<1> QED
  BY <1>1, <1>2, <1>3, OtherJobsEvidence

LEMMA LeaseStepEvidence ==
  ASSUME TypeOK, NEW c \in Caller, \A d \in Caller : JobEvidence(d),
         LockRow(c) \/ LockProvider(c) \/ LockTimeout(c) \/ RecheckPolicy(c)
  PROVE  \A d \in Caller : JobEvidence(d)'
<1>1. JobsOK /\ ShowsStill
  BY DEF TypeOK, LockRow, LockProvider, LockTimeout, RecheckPolicy, JobUnchanged, providerVars,
     ShowsStill, Shows
<1>2. OthersStay(c)
  <2>1. CASE \E result : Settle(c, result)
    BY <1>1, <2>1, SettleMoves
  <2>2. CASE \E pc : Goto(c, pc) /\ \E j : job' = [job EXCEPT ![c] = j]
    BY <1>1, <2>2, GotoMoves DEF OthersStay, JobsOK
  <2>3. CASE \E pc : Goto(c, pc) /\ UNCHANGED job
    BY <1>1, <2>3, GotoMoves DEF OthersStay, JobsOK
  <2> QED
    BY <2>1, <2>2, <2>3 DEF LockRow, LockProvider, LockTimeout, RecheckPolicy
<1>3. jpc'[c] \in {"settled", "provlock", "recheck", "exchange"}
  BY <1>1, SettleMoves, GotoMoves DEF LockRow, LockProvider, LockTimeout, RecheckPolicy
<1>4. JobEvidence(c)'
  BY <1>3, QuietJobEvidence DEF Telling
<1> QED
  BY <1>1, <1>2, <1>4, OtherJobsEvidence

LEMMA ExchangeEvidence ==
  ASSUME TypeOK, MintedOnly, NEW c \in Caller, \A d \in Caller : JobEvidence(d),
         ExchangeSucceeds(c) \/ ExchangeFails(c) \/ ExchangeLost(c)
  PROVE  MintedOnly' /\ ShowsStill /\ \A d \in Caller : JobEvidence(d)'
<1>1. JobsOK /\ ProviderOK
  BY DEF TypeOK
<1>2. MintedOnly' /\ ShowsStill
  <2>1. CASE ExchangeSucceeds(c)
    <3>1. \E r, i, ok : Mint(r, i, ok)
      BY <2>1 DEF ExchangeSucceeds
    <3> QED
      BY <1>1, <3>1, MintKeepsEvidence DEF ShowsStill
  <2>2. CASE UNCHANGED <<tok, minted>>
    BY <2>2 DEF MintedOnly, ShowsStill, Shows
  <2> QED
    BY <2>1, <2>2 DEF ExchangeFails, ExchangeLost, JobUnchanged, providerVars
<1>3. OthersStay(c) /\ jpc'[c] \in {"lookup", "failed"}
  BY <1>1, GotoMoves DEF ExchangeSucceeds, ExchangeFails, ExchangeLost, ExchangeEnds, OthersStay,
     JobsOK
<1>4. JobEvidence(c)'
  BY <1>3, QuietJobEvidence DEF Telling
<1> QED
  BY <1>2, <1>3, <1>4, OtherJobsEvidence

LEMMA SuccessorEvidence ==
  ASSUME TypeOK, NEW c \in Caller, \A d \in Caller : JobEvidence(d),
         \/ LookupSuccessor(c) \/ AcquireHandoff(c) \/ HandoffTimeout(c)
         \/ NoticeHandoffLoss(c) \/ Abort(c)
  PROVE  \A d \in Caller : JobEvidence(d)'
<1>1. JobsOK /\ UNCHANGED tok
  BY DEF TypeOK, LookupSuccessor, AcquireHandoff, HandoffTimeout, NoticeHandoffLoss, Abort,
     JobUnchanged, providerVars
<1>2. ShowsStill
  BY <1>1 DEF ShowsStill, Shows
<1>3. CASE LookupSuccessor(c)
  <2> DEFINE t == tok[job[c].succ.acc]
  <2>1. OthersStay(c)
    BY <1>1, <1>3, GotoMoves DEF LookupSuccessor, OthersStay, JobsOK
  <2>2. jpc'[c] \in {"handoff", "commit"} /\ job'[c].succ = job[c].succ
    BY <1>1, <1>3, GotoMoves DEF LookupSuccessor, JobsOK, Job
  <2>3. job'[c].look = "resolved" => t.ok /\ job'[c].learned = t.acct
    BY <1>1, <1>3 DEF LookupSuccessor, JobsOK, Job
  <2>4. JobEvidence(c)'
    BY <1>1, <2>2, <2>3 DEF JobEvidence, Shows
  <2> QED
    BY <1>2, <2>1, <2>4, OtherJobsEvidence
<1>4. CASE AcquireHandoff(c) \/ HandoffTimeout(c) \/ NoticeHandoffLoss(c) \/ Abort(c)
  <2>1. OthersStay(c)
    BY <1>1, <1>4, SkipHandoffMoves
       DEF AcquireHandoff, HandoffTimeout, NoticeHandoffLoss, Abort, OthersStay, JobsOK
  <2>2. \/ jpc'[c] = jpc[c]
        \/ jpc[c] = "handoff" /\ jpc'[c] = "commit"
    BY <1>1, <1>4 DEF AcquireHandoff, HandoffTimeout, NoticeHandoffLoss, Abort, JobsOK
  <2>3. /\ job'[c].look = job[c].look /\ job'[c].succ = job[c].succ
        /\ job'[c].learned = job[c].learned /\ job'[c].row = job[c].row
        /\ job'[c].req = job[c].req
    BY <1>1, <1>4, SkipHandoffMoves
       DEF AcquireHandoff, HandoffTimeout, NoticeHandoffLoss, Abort, JobsOK, Job
  <2>4. JobEvidence(c)'
    BY <1>1, <2>2, <2>3 DEF JobEvidence, Shows
  <2> QED
    BY <1>2, <2>1, <2>4, OtherJobsEvidence
<1> QED
  BY <1>3, <1>4

LEMMA CommitEvidence ==
  ASSUME TypeOK, NEW c \in Caller, \A d \in Caller : JobEvidence(d),
         Commit(c) \/ CommitFails(c)
  PROVE  \A d \in Caller : JobEvidence(d)'
<1>1. JobsOK /\ UNCHANGED tok /\ jpc[c] = "commit"
  BY DEF TypeOK, Commit, CommitFails, providerVars
<1>2. ShowsStill
  BY <1>1 DEF ShowsStill, Shows
<1>3. CASE \E result : Settle(c, result)
  <2>1. OthersStay(c) /\ jpc'[c] = "settled"
    BY <1>1, <1>3, SettleMoves
  <2>2. JobEvidence(c)'
    BY <2>1, QuietJobEvidence DEF Telling
  <2> QED
    BY <1>2, <2>1, <2>2, OtherJobsEvidence
<1>4. CASE Goto(c, "publish") /\ UNCHANGED job
  <2>1. OthersStay(c) /\ jpc'[c] = "publish"
    BY <1>1, <1>4, GotoMoves DEF OthersStay
  <2>2. JobEvidence(c)'
    BY <1>1, <1>4, <2>1 DEF JobEvidence, Shows
  <2> QED
    BY <1>2, <2>1, <2>2, OtherJobsEvidence
<1> QED
  BY <1>3, <1>4 DEF Commit, CommitFails, Abandons

LEMMA PublishStepEvidence ==
  ASSUME TypeOK, EntriesOK, NEW c \in Caller, \A d \in Caller : JobEvidence(d),
         PublishProof(c) \/ PublishSuccessor(c) \/ ReconcileFailure(c)
  PROVE  EntriesOK' /\ \A d \in Caller : JobEvidence(d)'
<1> DEFINE b == job[c].req
           j == job[c]
           m == meta[b.row]
<1>1. JobsOK /\ pool' = pool /\ tok' = tok
  BY DEF TypeOK, PublishProof, PublishSuccessor, ReconcileFailure, providerVars
<1>2. b \in Request /\ b.row \in Row /\ b.ident \in Identity /\ j.ctx \in Context
      /\ j.learned \in Identity /\ j.succ \in Material
  BY <1>1, JobFields
<1>3. m \in Entry /\ EntryEvidence(m) /\ MaterialOf(j.row) \in Material
  BY <1>1, <1>2, CaptureTypes, JobFields DEF TypeOK, StoreOK, EntriesOK
<1>4. \A mat : FailureAccepted(c, mat) => ContextHolds(m, j.ctx, b)
  BY DEF FailureAccepted
<1>5. EntriesOK'
  <2>1. CASE PublishProof(c)
    <3>1. PublishEvidence(c, b.ident, MaterialOf(j.row), "current") /\ jpc[c] = "proof"
      BY <2>1 DEF PublishProof
    <3>2. Shows(MaterialOf(j.row).acc, b.ident)
      BY <3>1 DEF JobEvidence, MaterialOf
    <3> QED
      BY <1>1, <1>2, <1>3, <3>1, <3>2, PublishEvidenceEvidence
  <2>2. CASE PublishSuccessor(c)
    <3>1. CASE j.look = "resolved" /\ PublishEvidence(c, j.learned, j.succ, "rotated")
      <4>1. Shows(j.succ.acc, j.learned)
        BY <2>2, <3>1 DEF JobEvidence, PublishSuccessor
      <4> QED
        BY <1>1, <1>2, <3>1, <4>1, PublishEvidenceEvidence
    <3>2. CASE PublishFailure(c, j.succ, WithUnsupported(m, b))
      <4>1. FailureAccepted(c, j.succ) => EntryEvidence(WithUnsupported(m, b))
        BY <1>2, <1>3, <1>4, FailureKeepsEvidence
      <4> QED
        BY <1>1, <3>2, <4>1, PublishFailureEvidence
    <3>3. CASE PublishFailure(c, j.succ, WithRetry(m, b, j.succ))
      <4>1. FailureAccepted(c, j.succ) => EntryEvidence(WithRetry(m, b, j.succ))
        BY <1>2, <1>3, <1>4, FailureKeepsEvidence
      <4> QED
        BY <1>1, <3>3, <4>1, PublishFailureEvidence
    <3>4. CASE PublishFailure(c, j.succ, WithError(m, j.ctx, b, j.succ.ref, "backoff"))
      <4>1. FailureAccepted(c, j.succ) =>
              EntryEvidence(WithError(m, j.ctx, b, j.succ.ref, "backoff"))
        BY <1>2, <1>3, <1>4, FailureKeepsEvidence
      <4> QED
        BY <1>1, <3>4, <4>1, PublishFailureEvidence
    <3> QED
      BY <2>2, <3>1, <3>2, <3>3, <3>4 DEF PublishSuccessor
  <2>3. CASE ReconcileFailure(c)
    <3> DEFINE mat == MaterialOf(j.row)
    <3>1. CASE PublishFailure(c, mat, WithRetry(m, b, mat))
      <4>1. FailureAccepted(c, mat) => EntryEvidence(WithRetry(m, b, mat))
        BY <1>2, <1>3, <1>4, FailureKeepsEvidence
      <4> QED
        BY <1>1, <3>1, <4>1, PublishFailureEvidence
    <3>2. CASE PublishFailure(c, mat, WithError(m, j.ctx, b, j.row.ref, ErrorKind(j.fail)))
      <4>1. FailureAccepted(c, mat) =>
              EntryEvidence(WithError(m, j.ctx, b, j.row.ref, ErrorKind(j.fail)))
        BY <1>2, <1>3, <1>4, FailureKeepsEvidence
      <4> QED
        BY <1>1, <3>2, <4>1, PublishFailureEvidence
    <3> QED
      BY <2>3, <3>1, <3>2 DEF ReconcileFailure
  <2> QED
    BY <2>1, <2>2, <2>3
<1>6. OthersStay(c) /\ jpc'[c] \in {"settled", "start"}
  <2>1. CASE \E result : Settle(c, result)
    BY <1>1, <2>1, SettleMoves
  <2>2. CASE job' = [job EXCEPT ![c] = NextAttempt(@)] /\ Goto(c, "start")
    BY <1>1, <2>2, GotoMoves DEF OthersStay, JobsOK
  <2> QED
    BY <2>1, <2>2 DEF PublishProof, PublishSuccessor, ReconcileFailure, PublishEvidence
<1>7. JobEvidence(c)'
  BY <1>6, QuietJobEvidence DEF Telling
<1>8. ShowsStill
  BY <1>1 DEF ShowsStill, Shows
<1> QED
  BY <1>5, <1>6, <1>7, <1>8, OtherJobsEvidence

\* A step that writes no entry and keeps every epoch.
LEMMA EntriesStay ==
  ASSUME TypeOK, EntriesOK, ShowsStill, meta' = meta,
         \A r \in Row : pool'[r].epoch # 0
  PROVE  EntriesOK'
<1>1. \A r \in Row : meta[r].proof.acc \in Token
  BY DEF TypeOK, StoreOK, Entry, Material
<1> QED
  BY <1>1 DEF EntriesOK, EntryEvidence, ShowsStill

LEMMA JobStepEvidence ==
  ASSUME TypeOK, EvidenceInv, NEW c \in Caller, JobStep(c) \/ Abort(c)
  PROVE  EvidenceInv'
<1>1. MintedOnly /\ EntriesOK /\ \A d \in Caller : JobEvidence(d)
  BY DEF EvidenceInv, MintedOnly, EntriesOK
<1>2. CASE ExchangeSucceeds(c) \/ ExchangeFails(c) \/ ExchangeLost(c)
  <2>1. MintedOnly' /\ ShowsStill /\ \A d \in Caller : JobEvidence(d)'
    BY <1>1, <1>2, ExchangeEvidence
  <2>2. pool' = pool /\ meta' = meta
    BY <1>2 DEF ExchangeSucceeds, ExchangeFails, ExchangeLost, JobUnchanged, storeVars
  <2>3. EntriesOK'
    BY <1>1, <2>1, <2>2, EntriesStay DEF EntriesOK
  <2> QED
    BY <2>1, <2>3 DEF EvidenceInv, MintedOnly, EntriesOK
<1>3. CASE PublishProof(c) \/ PublishSuccessor(c) \/ ReconcileFailure(c)
  <2>1. UNCHANGED <<tok, minted>>
    BY <1>3 DEF PublishProof, PublishSuccessor, ReconcileFailure, providerVars
  <2>2. EntriesOK' /\ \A d \in Caller : JobEvidence(d)'
    BY <1>1, <1>3, PublishStepEvidence
  <2> QED
    BY <1>1, <2>1, <2>2 DEF EvidenceInv, MintedOnly, EntriesOK
<1>4. CASE Commit(c) \/ CommitFails(c)
  <2>1. UNCHANGED <<tok, minted, meta>>
    BY <1>4 DEF Commit, CommitFails, providerVars, storeVars
  <2>2. \A r \in Row : pool'[r].epoch = pool[r].epoch
    <3>1. CASE pool' = pool
      BY <3>1
    <3>2. CASE pool' = Quarantined(c)
      BY <3>2 DEF Quarantined, TypeOK, StoreOK, PoolRow
    <3>3. CASE pool' = WithSuccessor(c)
      <4> DEFINE bq == job[c].req
                 ident == IF bq.ident = NoId THEN job[c].learned ELSE bq.ident
                 same == {q \in Row : q = bq.row \/ (ident # NoId /\ pool[q].ident = ident)}
                 row(q) == IF q = bq.row
                             THEN [pool[q] EXCEPT !.ident = ident, !.acc = job[c].succ.acc,
                                                  !.ref = job[c].succ.ref]
                             ELSE pool[q]
      <4>1. pool' = [q \in Row |->
                      [row(q) EXCEPT !.on = @ /\ ~(q \in same /\ \E p \in same : p < q)]]
        BY <3>3 DEF WithSuccessor
      <4>2. \A q \in Row : row(q).epoch = pool[q].epoch /\ row(q) \in [epoch : {row(q).epoch},
                ident : {row(q).ident}, acc : {row(q).acc}, ref : {row(q).ref}, on : {row(q).on}]
        BY DEF TypeOK, StoreOK, PoolRow
      <4>3. ASSUME NEW q \in Row PROVE pool'[q].epoch = row(q).epoch
        <5>1. pool'[q] = [row(q) EXCEPT !.on = @ /\ ~(q \in same /\ \E p \in same : p < q)]
          BY <4>1
        <5> HIDE DEF row, same
        <5> QED
          BY <4>2, <5>1
      <4> HIDE DEF row, same
      <4> QED
        BY <4>2, <4>3
    <3> QED
      BY <1>4, <3>1, <3>2, <3>3 DEF Commit, CommitFails, storeVars
  <2>3. \A d \in Caller : JobEvidence(d)'
    BY <1>1, <1>4, CommitEvidence
  <2>4. ShowsStill
    BY <2>1 DEF ShowsStill, Shows
  <2>5. EntriesOK'
    <3>1. \A r \in Row : pool'[r].epoch # 0
      BY <1>1, <2>2 DEF EntriesOK
    <3> QED
      BY <1>1, <2>1, <2>4, <3>1, EntriesStay
  <2> QED
    BY <1>1, <2>1, <2>3, <2>5 DEF EvidenceInv, MintedOnly, EntriesOK
<1>5. CASE \/ SurveyRow(c) \/ SurveyPolicy(c) \/ Adopt(c) \/ ValidateAccess(c)
           \/ LockRow(c) \/ LockProvider(c) \/ LockTimeout(c) \/ RecheckPolicy(c)
           \/ LookupSuccessor(c) \/ AcquireHandoff(c) \/ HandoffTimeout(c)
           \/ NoticeHandoffLoss(c) \/ Abort(c)
  <2>1. UNCHANGED <<tok, minted, pool, meta>>
    BY <1>5 DEF SurveyRow, SurveyPolicy, Adopt, ValidateAccess, LockRow, LockProvider, LockTimeout,
       RecheckPolicy, LookupSuccessor, AcquireHandoff, HandoffTimeout, NoticeHandoffLoss, Abort,
       JobUnchanged, storeVars, providerVars
  <2>2. \A d \in Caller : JobEvidence(d)'
    BY <1>1, <1>5, SurveyEvidence, LeaseStepEvidence, SuccessorEvidence
  <2> QED
    BY <1>1, <2>1, <2>2 DEF EvidenceInv, MintedOnly, EntriesOK, EntryEvidence, Shows
<1> QED
  BY <1>2, <1>3, <1>4, <1>5 DEF JobStep

\* Calls start jobs and touch nothing else a job or the files hold.
LEMMA CallsOnlyStart ==
  ASSUME TypeOK, NEW c \in Caller, Begin(c) \/ CallStep(c)
  PROVE  /\ UNCHANGED <<storeVars, providerVars, lockVars>>
         /\ \/ UNCHANGED <<jpc, job>>
            \/ \E b \in Request : /\ jpc' = [jpc EXCEPT ![c] = "start"]
                                  /\ job' = [job EXCEPT ![c] = Attempt(b, 1)]
<1>1. UNCHANGED <<storeVars, providerVars, lockVars>>
  BY DEF Begin, CallStep, ReadRow, AdmitCurrent, JoinTimeout, TakeResult, FinalAdmit
<1>2. ASSUME NEW b, NEW j, NEW bs, JoinOrStart(c, b, j, bs)
      PROVE  \/ UNCHANGED <<jpc, job>>
             \/ /\ jpc' = [jpc EXCEPT ![c] = "start"]
                /\ job' = [job EXCEPT ![c] = Attempt(b, 1)]
  BY <1>2 DEF JoinOrStart
<1>3. CASE Begin(c)
  <2>1. PICK r \in Row, ask \in Asks :
          \E rej \in IF ask[2] THEN {n \in 1..minted : tok[n].row = r} ELSE {0} :
            LET b == [row |-> r, epoch |-> pool[r].epoch, ident |-> pool[r].ident,
                      intent |-> ask[1], rej |-> rej]
                j == JobAt(ProcOf[c], KeyOf(b))
            IN IF b.intent = "refresh" THEN JoinOrStart(c, b, j, barred)
               ELSE /\ call' = [call EXCEPT ![c] = [NoCall EXCEPT !.req = b, !.joined = j]]
                    /\ cpc' = [cpc EXCEPT ![c] = "read"]
                    /\ barred' = RecordRejection(barred, j, rej)
                    /\ UNCHANGED <<jobs, jpc, job>>
    BY <1>3 DEF Begin
  <2>2. PICK rej \in IF ask[2] THEN {n \in 1..minted : tok[n].row = r} ELSE {0} :
          LET b == [row |-> r, epoch |-> pool[r].epoch, ident |-> pool[r].ident,
                    intent |-> ask[1], rej |-> rej]
              j == JobAt(ProcOf[c], KeyOf(b))
          IN IF b.intent = "refresh" THEN JoinOrStart(c, b, j, barred)
             ELSE /\ call' = [call EXCEPT ![c] = [NoCall EXCEPT !.req = b, !.joined = j]]
                  /\ cpc' = [cpc EXCEPT ![c] = "read"]
                  /\ barred' = RecordRejection(barred, j, rej)
                  /\ UNCHANGED <<jobs, jpc, job>>
    BY <2>1
  <2> DEFINE b == [row |-> r, epoch |-> pool[r].epoch, ident |-> pool[r].ident,
                   intent |-> ask[1], rej |-> rej]
             j == JobAt(ProcOf[c], KeyOf(b))
  <2>3. b \in Request
    <3>1. pool[r].epoch \in Nat /\ pool[r].ident \in Identity
      BY DEF TypeOK, StoreOK, PoolRow
    <3>2. ask[1] \in Intent
      BY ConstantsOK
    <3>3. rej \in Token
      BY MetadataConstantsOK DEF TypeOK, ProviderOK, Token
    <3> QED
      BY <3>1, <3>2, <3>3 DEF Request
  <2>4. JoinOrStart(c, b, j, barred) \/ UNCHANGED <<jpc, job>>
    BY <2>2
  <2> HIDE DEF b, j
  <2> QED
    BY <1>1, <1>2, <2>3, <2>4
<1>4. CASE AdmitCurrent(c)
  <2>1. call[c].req \in Request
    BY CallFields DEF TypeOK
  <2>2. (\E j, bs : JoinOrStart(c, call[c].req, j, bs)) \/ UNCHANGED <<jpc, job>>
    BY <1>4 DEF AdmitCurrent
  <2> QED
    BY <1>1, <1>2, <2>1, <2>2
<1>5. CASE ReadRow(c) \/ JoinTimeout(c) \/ TakeResult(c) \/ FinalAdmit(c)
  BY <1>1, <1>5 DEF ReadRow, JoinTimeout, TakeResult, FinalAdmit, jobVars
<1> QED
  BY <1>3, <1>4, <1>5 DEF CallStep

LEMMA CallEvidence ==
  ASSUME TypeOK, EvidenceInv, NEW c \in Caller, Begin(c) \/ CallStep(c)
  PROVE  EvidenceInv'
<1>1. UNCHANGED <<tok, minted, pool, meta>>
  BY CallsOnlyStart DEF storeVars, providerVars
<1>2. CASE UNCHANGED <<jpc, job>>
  BY <1>1, <1>2 DEF EvidenceInv, EntryEvidence, JobEvidence, Shows
<1>3. CASE \E b \in Request : /\ jpc' = [jpc EXCEPT ![c] = "start"]
                             /\ job' = [job EXCEPT ![c] = Attempt(b, 1)]
  <2>1. OthersStay(c) /\ jpc'[c] = "start" /\ ShowsStill
    BY <1>1, <1>3 DEF OthersStay, ShowsStill, Shows, TypeOK, JobsOK
  <2>2. JobEvidence(c)'
    BY <2>1, QuietJobEvidence DEF Telling
  <2>3. \A d \in Caller : JobEvidence(d)'
    BY <2>1, <2>2, OtherJobsEvidence DEF EvidenceInv
  <2> QED
    BY <1>1, <2>3 DEF EvidenceInv, EntryEvidence, Shows
<1> QED
  BY <1>2, <1>3, CallsOnlyStart

LEMMA UserEvidence ==
  ASSUME TypeOK, EvidenceInv, NEW r \in Row, UserStep(r)
  PROVE  EvidenceInv'
<1>1. MintedOnly /\ EntriesOK /\ StoreOK /\ ProviderOK /\ UNCHANGED <<jpc, job>>
  BY DEF EvidenceInv, MintedOnly, EntriesOK, TypeOK, UserStep, SignIn, InitializeEpoch,
     ResetBackoff, BackoffElapses, Disable, ForeignRefresh, jobVars
<1>2. MintedOnly' /\ ShowsStill
  <2>1. CASE \E q, i, ok : Mint(q, i, ok)
    BY <1>1, <2>1, MintKeepsEvidence DEF ShowsStill
  <2>2. CASE UNCHANGED <<tok, minted>>
    BY <1>1, <2>2 DEF MintedOnly, ShowsStill, Shows
  <2> QED
    BY <2>1, <2>2 DEF UserStep, SignIn, InitializeEpoch, ResetBackoff, BackoffElapses, Disable,
       ForeignRefresh, providerVars
<1>3. \A d \in Caller : JobEvidence(d)'
  <2> SUFFICES ASSUME NEW d \in Caller PROVE JobEvidence(d)'
    OBVIOUS
  <2>1. job[d].row.acc \in Token /\ job[d].succ.acc \in Token /\ JobEvidence(d)
    BY JobFields DEF TypeOK, EvidenceInv
  <2> QED
    BY <1>1, <1>2, <2>1 DEF JobEvidence, ShowsStill
<1>4. EntriesOK'
  <2>1. CASE SignIn(r) \/ Disable(r) \/ ForeignRefresh(r)
    <3>1. meta' = meta
      BY <2>1 DEF SignIn, Disable, ForeignRefresh
    <3>2. \A q \in Row : pool'[q].epoch # 0
      <4>1. \A q \in Row : pool[q].epoch \in Nat /\ pool[q].epoch # 0
        BY <1>1 DEF StoreOK, PoolRow, EntriesOK
      <4>2. \A q \in Row : pool'[q].epoch = pool[q].epoch \/ pool'[q].epoch = pool[q].epoch + 1
        <5>1. CASE SignIn(r)
          <6>1. PICK a \in Account :
                  pool' = [pool EXCEPT ![r] = [@ EXCEPT !.epoch = pool[r].epoch + 1, !.ident = a,
                                                        !.acc = minted + 1, !.ref = minted + 1]]
            BY <5>1 DEF SignIn
          <6> QED
            BY <1>1, <6>1 DEF StoreOK, PoolRow
        <5>2. CASE Disable(r)
          BY <1>1, <5>2 DEF Disable, StoreOK, PoolRow
        <5>3. CASE ForeignRefresh(r)
          <6>1. PICK new : pool' = [pool EXCEPT ![r] = [@ EXCEPT !.acc = new.acc, !.ref = new.ref]]
            BY <5>3 DEF ForeignRefresh
          <6> QED
            BY <1>1, <6>1 DEF StoreOK, PoolRow
        <5> QED
          BY <2>1, <5>1, <5>2, <5>3
      <4> QED
        BY <4>1, <4>2
    <3> QED
      BY <1>1, <1>2, <3>1, <3>2, EntriesStay
  <2>2. CASE InitializeEpoch(r) \/ ResetBackoff(r) \/ BackoffElapses(r)
    <3>1. meta[r] \in Entry /\ EntryEvidence(meta[r]) /\ UNCHANGED <<pool, tok>>
      BY <1>1, <2>2 DEF StoreOK, EntriesOK, InitializeEpoch, ResetBackoff, BackoffElapses,
         providerVars
    <3>2. PICK e : EntryEvidence(e) /\ meta' = [meta EXCEPT ![r] = e]
      <4>1. CASE InitializeEpoch(r)
        BY <3>1, <4>1, ResetKeepsEvidence DEF InitializeEpoch
      <4>2. CASE ResetBackoff(r)
        BY <3>1, <4>2, ResetKeepsEvidence DEF ResetBackoff
      <4>3. CASE BackoffElapses(r)
        <5>1. \/ meta' = [meta EXCEPT ![r] = [meta[r] EXCEPT !.err = [@ EXCEPT !.kind = "elapsed"]]]
              \/ meta' = [meta EXCEPT ![r] = [meta[r] EXCEPT !.retry = [@ EXCEPT !.due = TRUE]]]
          BY <1>1, <4>3 DEF BackoffElapses, StoreOK
        <5> QED
          BY <3>1, <5>1, ResetKeepsEvidence
      <4> QED
        BY <2>2, <4>1, <4>2, <4>3
    <3>3. \A q \in Row : meta'[q] = meta[q] \/ meta'[q] = e
      BY <1>1, <3>2 DEF StoreOK
    <3> QED
      BY <1>1, <3>1, <3>2, <3>3 DEF EntriesOK, EntryEvidence, Shows
  <2> QED
    BY <2>1, <2>2 DEF UserStep
<1> QED
  BY <1>2, <1>3, <1>4 DEF EvidenceInv, MintedOnly, EntriesOK

LEMMA EnvironmentEvidence ==
  ASSUME TypeOK, EvidenceInv,
         \/ \E c \in Caller : Stall(c) \/ EvictStale(c)
         \/ \E t \in 1..MaxTok : AccessExpires(t)
         \/ \E p \in Process : Crash(p)
         \/ AllDone \/ UNCHANGED vars
  PROVE  EvidenceInv'
<1>1. UNCHANGED <<pool, meta, tok, minted>>
  BY DEF Stall, EvictStale, AccessExpires, Crash, AllDone, vars, storeVars, providerVars
<1>2. \A d \in Caller : (jpc'[d] = jpc[d] /\ job'[d] = job[d]) \/ jpc'[d] = "dead"
  <2>1. CASE \E p \in Process : Crash(p)
    BY <2>1 DEF Crash
  <2>2. CASE UNCHANGED <<jpc, job>>
    BY <2>2
  <2> QED
    BY <2>1, <2>2 DEF Stall, EvictStale, AccessExpires, AllDone, vars, jobVars
<1>3. \A d \in Caller : JobEvidence(d)'
  BY <1>1, <1>2 DEF EvidenceInv, JobEvidence, Shows
<1> QED
  BY <1>1, <1>3 DEF EvidenceInv, EntryEvidence, Shows

LEMMA InitEvidence == Init => EvidenceInv
<1> SUFFICES ASSUME Init PROVE EvidenceInv
  OBVIOUS
<1>1. PICK ident \in [Row -> Identity], owner \in [Row -> Account] :
        /\ pool = [r \in Row |-> [epoch |-> 1, ident |-> ident[r], acc |-> r, ref |-> r,
                                   on |-> TRUE]]
        /\ tok = [n \in Token |->
                    IF n \in Row THEN [acct |-> owner[n], row |-> n, ok |-> TRUE]
                    ELSE [acct |-> NoId, row |-> 0, ok |-> FALSE]]
        /\ \A r \in Row : meta[r] \in InitEntry(pool[r], owner[r])
  BY DEF Init
<1>2. minted = NRows /\ Row \subseteq Token
  BY ConstantsOK, MetadataConstantsOK DEF Init, Row, Token
<1>3. \A n \in Token : tok[n].ok => n <= minted
  BY <1>1, <1>2, ConstantsOK DEF Row
<1>4. ASSUME NEW r \in Row
      PROVE  pool[r].epoch # 0 /\ EntryEvidence(meta[r])
  <2>1. pool[r].epoch = 1 /\ pool[r].ident = ident[r] /\ pool[r].acc = r
    BY <1>1
  <2>2. CASE meta[r] \in {NoEntry, EmptyEntry(pool[r])}
    <3>1. NoEntry.proof = NoMaterial
      BY DEF NoEntry
    <3>2. EmptyEntry(pool[r]).proof = NoMaterial
      BY DEF EmptyEntry, NoEntry
    <3> QED
      BY <2>1, <2>2, <3>1, <3>2 DEF EntryEvidence
  <2>3. CASE /\ ident[r] = owner[r]
             /\ meta[r] = [EmptyEntry(pool[r]) EXCEPT !.proof = MaterialOf(pool[r])]
    <3>1. meta[r].proof.acc = r /\ meta[r].ident = owner[r] /\ meta[r].epoch = 1
      BY <2>1, <2>3 DEF EmptyEntry, NoEntry, MaterialOf
    <3>2. Shows(r, owner[r])
      BY <1>1, <1>2 DEF Shows
    <3> QED
      BY <2>1, <3>1, <3>2 DEF EntryEvidence
  <2> QED
    BY <1>1, <2>1, <2>2, <2>3 DEF InitEntry
<1>5. \A c \in Caller : JobEvidence(c)
  BY DEF Init, JobEvidence
<1> QED
  BY <1>3, <1>4, <1>5 DEF EvidenceInv

\* Evidence in the metadata file is true, in every instance: the provider minted
\* the access token it names for the account it names.
THEOREM EvidenceIsSound == Spec => []EvidenceSound
<1>1. Init => EvidenceInv
  BY InitEvidence
<1>2. TypeOK /\ EvidenceInv /\ [Next]_vars => EvidenceInv'
  BY CallEvidence, JobStepEvidence, UserEvidence, EnvironmentEvidence DEF Next
<1>3. EvidenceInv => EvidenceSound
  BY DEF EvidenceInv, EntryEvidence, EvidenceSound
<1> QED
  BY <1>1, <1>2, <1>3, TypeCorrect, PTL DEF Spec

-----------------------------------------------------------------------------
\* A handoff is to an account, as what the provider minted belongs to one.

Owned == \A n \in Token : n \in live \/ tok[n].ok => tok[n].acct # NoId

LEMMA MintKeepsOwned ==
  ASSUME ProviderOK, Owned, NEW r, NEW a, a # NoId, NEW ok, Mint(r, a, ok),
         live' \subseteq live \cup {minted + 1}
  PROVE  Owned'
<1>1. minted \in Nat
  BY MetadataConstantsOK DEF ProviderOK
<1>2. \A n \in Token : tok'[n] = IF n = minted + 1 THEN [acct |-> a, row |-> r, ok |-> ok]
                                 ELSE tok[n]
  BY DEF Mint, ProviderOK
<1> QED
  BY <1>1, <1>2 DEF Owned

LEMMA StepKeepsOwned ==
  ASSUME TypeOK, Owned, [Next]_vars
  PROVE  Owned'
<1>1. ProviderOK /\ StoreOK
  BY DEF TypeOK
<1>2. live \subseteq Token
  BY <1>1, MetadataConstantsOK DEF ProviderOK, Token
<1>3. ASSUME NEW c \in Caller, Begin(c) \/ CallStep(c) PROVE Owned'
  BY <1>3, CallsOnlyStart DEF providerVars, Owned
<1>4. ASSUME NEW c \in Caller, JobStep(c) PROVE Owned'
  <2>1. CASE ExchangeSucceeds(c)
    <3>1. /\ job[c].row.ref \in live
          /\ \E ok : Mint(job[c].req.row, tok[job[c].row.ref].acct, ok)
          /\ live' \subseteq live \cup {minted + 1}
      BY <2>1 DEF ExchangeSucceeds, Redeemed
    <3>2. tok[job[c].row.ref].acct # NoId
      BY <1>2, <3>1 DEF Owned
    <3> QED
      BY <1>1, <3>1, <3>2, MintKeepsOwned
  <2>2. CASE ExchangeLost(c)
    BY <2>2 DEF ExchangeLost, Owned
  <2>3. CASE ~ExchangeSucceeds(c) /\ ~ExchangeLost(c)
    <3>1. UNCHANGED <<tok, live>>
      BY <1>4, <2>3
         DEF JobStep, SurveyRow, SurveyPolicy, Adopt, ValidateAccess, PublishProof, LockRow,
             LockProvider, LockTimeout, RecheckPolicy, ExchangeFails, LookupSuccessor,
             AcquireHandoff, HandoffTimeout, NoticeHandoffLoss, Commit, CommitFails,
             PublishSuccessor, ReconcileFailure, JobUnchanged, providerVars
    <3> QED
      BY <3>1 DEF Owned
  <2> QED
    BY <2>1, <2>2, <2>3
<1>5. ASSUME NEW r \in Row, UserStep(r) PROVE Owned'
  <2>1. CASE SignIn(r)
    <3>1. \E a \in Account : Mint(r, a, TRUE)
      BY <2>1 DEF SignIn
    <3>2. live' \subseteq live \cup {minted + 1}
      BY <2>1 DEF SignIn
    <3> QED
      BY <1>1, <3>1, <3>2, MintKeepsOwned, MetadataConstantsOK
  <2>2. CASE ForeignRefresh(r)
    <3>1. /\ pool[r].ref \in live
          /\ Mint(r, tok[pool[r].ref].acct, TRUE)
          /\ live' \subseteq live \cup {minted + 1}
      BY <2>2 DEF ForeignRefresh, Redeemed
    <3>2. tok[pool[r].ref].acct # NoId
      BY <1>2, <3>1 DEF Owned
    <3> QED
      BY <1>1, <3>1, <3>2, MintKeepsOwned
  <2>3. CASE InitializeEpoch(r) \/ ResetBackoff(r) \/ BackoffElapses(r) \/ Disable(r)
    BY <2>3 DEF InitializeEpoch, ResetBackoff, BackoffElapses, Disable, providerVars, Owned
  <2> QED
    BY <1>5, <2>1, <2>2, <2>3 DEF UserStep
<1>6. CASE \/ \E c \in Caller : Abort(c) \/ Stall(c) \/ EvictStale(c)
           \/ \E t \in 1..MaxTok : AccessExpires(t)
           \/ \E p \in Process : Crash(p)
           \/ AllDone \/ UNCHANGED vars
  BY <1>6 DEF Abort, Stall, EvictStale, AccessExpires, Crash, AllDone, vars, providerVars, Owned
<1> QED
  BY <1>3, <1>4, <1>5, <1>6 DEF Next

-----------------------------------------------------------------------------
\* A step of one call or job takes free leases and gives back its own: it cannot
\* take a lease from another job.

OthersHold(c) ==
  /\ OthersStay(c)
  /\ \A r \in Row : rowLock[r] \notin {c, NoCaller} => rowLock'[r] = rowLock[r]
  /\ \A i \in Identity : provLock[i] \notin {c, NoCaller} => provLock'[i] = provLock[i]

LEMMA OthersKeepLeases ==
  ASSUME TypeOK, LeasesHeld, NEW c \in Caller, OthersHold(c), NEW d \in Caller, d # c
  PROVE  HoldsLeases(d)'
<1>1. job[d].req.row \in Row /\ job[d].req.ident \in Identity /\ HoldsLeases(d)
  BY JobFields DEF TypeOK, LeasesHeld, Request
<1>2. jpc'[d] = jpc[d] /\ job'[d] = job[d]
  BY DEF OthersHold, OthersStay
<1>3. d # NoCaller
  BY ConstantsOK
<1> QED
  BY <1>1, <1>2, <1>3 DEF HoldsLeases, OthersHold

LEMMA OneJobMoves ==
  ASSUME TypeOK, LeasesHeld, NEW c \in Caller, OthersHold(c), HoldsLeases(c)'
  PROVE  LeasesHeld'
  BY OthersKeepLeases DEF LeasesHeld

LEMMA ReleaseOwn ==
  ASSUME LeasesOK, NEW c \in Caller, ReleaseAll(c) \/ UNCHANGED lockVars
  PROVE  /\ \A r \in Row : rowLock[r] # c => rowLock'[r] = rowLock[r]
         /\ \A i \in Identity : provLock[i] # c => provLock'[i] = provLock[i]
  BY DEF LeasesOK, ReleaseAll, FreedBy, lockVars

\* A settled job holds nothing.
LEMMA SettleHolds ==
  ASSUME TypeOK, NEW c \in Caller, NEW result, Settle(c, result),
         ReleaseAll(c) \/ UNCHANGED lockVars
  PROVE  OthersHold(c) /\ HoldsLeases(c)'
<1>1. OthersStay(c) /\ jpc'[c] = "settled" /\ job'[c].hand = "none"
  <2>1. job'[c] = [NoJob EXCEPT !.result = result, !.learned = job[c].learned]
    BY DEF Settle, TypeOK, JobsOK
  <2>2. job'[c].hand = "none"
    BY <2>1 DEF NoJob
  <2> QED
    BY <2>2, SettleMoves DEF TypeOK
<1> QED
  BY <1>1, ReleaseOwn DEF OthersHold, HoldsLeases, Leased, TypeOK

\* Nor does one that waits, looks up or records outside the leases.
LEMMA OutsideHolds ==
  ASSUME TypeOK, NEW c \in Caller, HoldsLeases(c), NEW pc, Goto(c, pc),
         pc \notin Leased \cup {"provlock"}, jpc[c] # "handoff",
         NEW j, job' = [job EXCEPT ![c] = j], j.hand = job[c].hand,
         j.req = job[c].req, j.learned = job[c].learned,
         ReleaseAll(c) \/ UNCHANGED lockVars
  PROVE  OthersHold(c) /\ HoldsLeases(c)'
<1>1. OthersStay(c) /\ jpc'[c] = pc /\ job'[c] = j
  BY GotoMoves DEF TypeOK, JobsOK, OthersStay
<1>2. pc # "handoff"
  BY DEF Leased
<1> QED
  BY <1>1, <1>2, ReleaseOwn DEF OthersHold, HoldsLeases, TypeOK

-----------------------------------------------------------------------------
\* The steps of one job.

LEMMA SurveyHolds ==
  ASSUME TypeOK, NEW c \in Caller, HoldsLeases(c),
         \/ SurveyRow(c) \/ SurveyPolicy(c) \/ Adopt(c) \/ ValidateAccess(c)
         \/ PublishProof(c)
  PROVE  OthersHold(c) /\ HoldsLeases(c)'
<1>1. UNCHANGED lockVars
  BY DEF SurveyRow, SurveyPolicy, Adopt, ValidateAccess, PublishProof
<1>2. CASE \E result : Settle(c, result)
  BY <1>1, <1>2, SettleHolds
<1>3. CASE /\ \E pc \in {"policy", "adopt", "rowlock", "validate", "proof", "failed"} : Goto(c, pc)
           /\ jpc[c] # "handoff"
           /\ \/ UNCHANGED job
              \/ \E x : job' = [job EXCEPT ![c].row = x]
              \/ \E x : job' = [job EXCEPT ![c].ctx = x]
              \/ \E x : job' = [job EXCEPT ![c].fail = x]
  <2>1. PICK pc \in {"policy", "adopt", "rowlock", "validate", "proof", "failed"} : Goto(c, pc)
    BY <1>3
  <2>2. pc \notin Leased \cup {"provlock"}
    BY <2>1 DEF Leased
  <2>3. \E j : /\ job' = [job EXCEPT ![c] = j]
               /\ j.hand = job[c].hand /\ j.req = job[c].req /\ j.learned = job[c].learned
    <3>1. job[c] \in Job /\ job \in [Caller -> Job]
      BY DEF TypeOK, JobsOK
    <3>2. CASE UNCHANGED job
      <4>1. job' = [job EXCEPT ![c] = job[c]]
        BY <3>1, <3>2
      <4> QED
        BY <4>1
    <3>3. CASE \E x : job' = [job EXCEPT ![c].row = x]
      <4>1. PICK x : job' = [job EXCEPT ![c].row = x]
        BY <3>3
      <4>2. job' = [job EXCEPT ![c] = [job[c] EXCEPT !.row = x]]
        BY <3>1, <4>1
      <4> WITNESS [job[c] EXCEPT !.row = x]
      <4> QED
        BY <3>1, <4>2 DEF Job
    <3>4. CASE \E x : job' = [job EXCEPT ![c].ctx = x]
      <4>1. PICK x : job' = [job EXCEPT ![c].ctx = x]
        BY <3>4
      <4>2. job' = [job EXCEPT ![c] = [job[c] EXCEPT !.ctx = x]]
        BY <3>1, <4>1
      <4> WITNESS [job[c] EXCEPT !.ctx = x]
      <4> QED
        BY <3>1, <4>2 DEF Job
    <3>5. CASE \E x : job' = [job EXCEPT ![c].fail = x]
      <4>1. PICK x : job' = [job EXCEPT ![c].fail = x]
        BY <3>5
      <4>2. job' = [job EXCEPT ![c] = [job[c] EXCEPT !.fail = x]]
        BY <3>1, <4>1
      <4> WITNESS [job[c] EXCEPT !.fail = x]
      <4> QED
        BY <3>1, <4>2 DEF Job
    <3> QED
      BY <1>3, <3>2, <3>3, <3>4, <3>5
  <2> QED
    BY <1>1, <1>3, <2>1, <2>2, <2>3, OutsideHolds
<1> QED
  <2>1. CASE SurveyRow(c)
    BY <1>2, <1>3, <2>1 DEF SurveyRow
  <2>2. CASE SurveyPolicy(c)
    BY <1>2, <1>3, <2>2 DEF SurveyPolicy
  <2>3. CASE Adopt(c)
    BY <1>2, <1>3, <2>3 DEF Adopt
  <2>4. CASE ValidateAccess(c)
    BY <1>2, <1>3, <2>4 DEF ValidateAccess
  <2>5. CASE PublishProof(c)
    BY <1>2, <2>5 DEF PublishProof, PublishEvidence
  <2> QED
    BY <2>1, <2>2, <2>3, <2>4, <2>5

LEMMA LockHolds ==
  ASSUME TypeOK, NEW c \in Caller, HoldsLeases(c),
         LockRow(c) \/ LockProvider(c) \/ LockTimeout(c) \/ RecheckPolicy(c)
  PROVE  OthersHold(c) /\ HoldsLeases(c)'
<1>1. /\ job[c].req.row \in Row /\ job[c].req.ident \in Identity /\ job[c] \in Job
      /\ JobsOK /\ LeasesOK
  BY JobFields DEF TypeOK, JobsOK, Request
<1>2. CASE LockRow(c)
  <2>1. jpc[c] = "rowlock" /\ Goto(c, "provlock") /\ UNCHANGED <<job, provLock>>
    BY <1>2 DEF LockRow
  <2>2. /\ rowLock[job[c].req.row] = NoCaller
        /\ rowLock' = [rowLock EXCEPT ![job[c].req.row] = c]
    BY <1>2 DEF LockRow
  <2>3. OthersStay(c) /\ jpc'[c] = "provlock"
    BY <1>1, <2>1, GotoMoves DEF OthersStay
  <2> QED
    BY <1>1, <2>1, <2>2, <2>3 DEF OthersHold, HoldsLeases, LeasesOK, Leased
<1>3. CASE LockProvider(c)
  <2>1. CASE \E result : Settle(c, result) /\ ReleaseAll(c)
    BY <2>1, SettleHolds
  <2>2. CASE /\ jpc[c] = "provlock" /\ provLock[job[c].req.ident] = NoCaller
             /\ provLock' = [provLock EXCEPT ![job[c].req.ident] = c]
             /\ \E x : job' = [job EXCEPT ![c].row = x]
             /\ Goto(c, "recheck")
             /\ UNCHANGED rowLock
    <3>1. OthersStay(c) /\ jpc'[c] = "recheck"
      BY <1>1, <2>2, GotoMoves DEF OthersStay, JobsOK
    <3>2. /\ job'[c].hand = job[c].hand /\ job'[c].req = job[c].req
          /\ job'[c].learned = job[c].learned
      BY <1>1, <2>2 DEF JobsOK, Job
    <3> QED
      BY <1>1, <2>2, <3>1, <3>2 DEF OthersHold, HoldsLeases, LeasesOK, Leased
  <2> QED
    BY <1>3, <2>1, <2>2 DEF LockProvider
<1>4. CASE LockTimeout(c)
  BY <1>4, SettleHolds DEF LockTimeout
<1>5. CASE RecheckPolicy(c)
  <2>1. CASE \E result : Settle(c, result) /\ ReleaseAll(c)
    BY <2>1, SettleHolds
  <2>2. CASE /\ jpc[c] = "recheck"
             /\ \E x : job' = [job EXCEPT ![c].ctx = x]
             /\ Goto(c, "exchange")
             /\ UNCHANGED lockVars
    <3>1. OthersStay(c) /\ jpc'[c] = "exchange"
      BY <1>1, <2>2, GotoMoves DEF OthersStay, JobsOK
    <3>2. /\ job'[c].hand = job[c].hand /\ job'[c].req = job[c].req
          /\ job'[c].learned = job[c].learned
      BY <1>1, <2>2 DEF JobsOK, Job
    <3> QED
      BY <2>2, <3>1, <3>2 DEF OthersHold, HoldsLeases, Leased, lockVars
  <2> QED
    BY <1>5, <2>1, <2>2 DEF RecheckPolicy
<1> QED
  BY <1>2, <1>3, <1>4, <1>5

LEMMA ExchangeHolds ==
  ASSUME TypeOK, NEW c \in Caller, HoldsLeases(c),
         ExchangeSucceeds(c) \/ ExchangeLost(c) \/ ExchangeFails(c)
  PROVE  OthersHold(c) /\ HoldsLeases(c)'
<1>1. job[c] \in Job /\ job \in [Caller -> Job] /\ JobsOK /\ jpc[c] = "exchange"
  BY DEF TypeOK, JobsOK, ExchangeSucceeds, ExchangeLost, ExchangeFails
<1>2. CASE ExchangeSucceeds(c)
  <2>1. \E x : job' = [job EXCEPT ![c].succ = x]
    BY <1>2 DEF ExchangeSucceeds
  <2>2. Goto(c, "lookup") /\ UNCHANGED lockVars
    BY <1>2 DEF ExchangeSucceeds
  <2>3. OthersStay(c) /\ jpc'[c] = "lookup"
    BY <1>1, <2>1, <2>2, GotoMoves DEF OthersStay
  <2>4. /\ job'[c].hand = job[c].hand /\ job'[c].req = job[c].req
        /\ job'[c].learned = job[c].learned
    BY <1>1, <2>1 DEF Job
  <2> QED
    BY <1>1, <2>2, <2>3, <2>4 DEF OthersHold, HoldsLeases, Leased, lockVars
<1>3. CASE \E kind : ExchangeEnds(c, kind)
  <2>1. (\E x : job' = [job EXCEPT ![c].fail = x]) /\ Goto(c, "failed") /\ ReleaseAll(c)
    BY <1>3 DEF ExchangeEnds
  <2>2. \E j : /\ job' = [job EXCEPT ![c] = j]
               /\ j.hand = job[c].hand /\ j.req = job[c].req /\ j.learned = job[c].learned
    BY <1>1, <2>1 DEF Job
  <2>3. "failed" \notin Leased \cup {"provlock"} /\ jpc[c] # "handoff"
    BY <1>1 DEF Leased
  <2> QED
    BY <2>1, <2>2, <2>3, OutsideHolds
<1> QED
  BY <1>2, <1>3 DEF ExchangeLost, ExchangeFails

\* The handoff lease is a second provider lease: the default one stays.
LEMMA HandoffHolds ==
  ASSUME TypeOK, Owned, NEW c \in Caller, HoldsLeases(c),
         \/ LookupSuccessor(c) \/ AcquireHandoff(c) \/ HandoffTimeout(c)
         \/ NoticeHandoffLoss(c) \/ Abort(c)
  PROVE  OthersHold(c) /\ HoldsLeases(c)'
<1>1. /\ job[c] \in Job /\ job \in [Caller -> Job] /\ JobsOK /\ LeasesOK
      /\ jpc \in [Caller -> JobPc] /\ job[c].learned \in Identity
      /\ job[c].req.ident \in Identity /\ job[c].succ.acc \in Token
  BY JobFields DEF TypeOK, JobsOK, Request, Job
<1>2. CASE LookupSuccessor(c)
  <2>1. jpc[c] = "lookup" /\ UNCHANGED lockVars
    BY <1>2 DEF LookupSuccessor
  <2>2. CASE \E i : /\ job[c].req.ident = NoId /\ i # NoId
                    /\ job' = [job EXCEPT ![c].look = "resolved", ![c].learned = i]
                    /\ jpc' = [jpc EXCEPT ![c] = "handoff"]
    BY <1>1, <2>1, <2>2 DEF OthersHold, OthersStay, HoldsLeases, Leased, lockVars, Job
  <2>3. CASE /\ \/ \E i : /\ i # NoId
                          /\ job' = [job EXCEPT ![c].look = "resolved", ![c].learned = i]
                \/ \E x : job' = [job EXCEPT ![c].look = x]
             /\ Goto(c, "commit")
    <3>1. OthersStay(c) /\ jpc'[c] = "commit"
      BY <1>1, <2>3, GotoMoves DEF OthersStay
    <3>2. /\ job'[c].hand = job[c].hand /\ job'[c].req = job[c].req
          /\ job'[c].learned = job[c].learned \/ job'[c].learned # NoId
      BY <1>1, <2>3 DEF Job
    <3> QED
      BY <2>1, <2>3, <3>1, <3>2 DEF OthersHold, HoldsLeases, Leased, lockVars
  <2>4. tok[job[c].succ.acc].ok => tok[job[c].succ.acc].acct # NoId
    BY <1>1 DEF Owned
  <2> QED
    BY <1>2, <2>2, <2>3, <2>4 DEF LookupSuccessor
<1>3. CASE AcquireHandoff(c)
  <2>1. /\ jpc[c] = "handoff" /\ UNCHANGED rowLock
        /\ job[c].req.ident = NoId /\ job[c].learned # NoId
        /\ jpc' = [jpc EXCEPT ![c] = "commit"]
    BY <1>3 DEF AcquireHandoff, HoldsLeases
  <2>2. CASE SkipHandoff(c) /\ UNCHANGED provLock
    BY <1>1, <2>1, <2>2, SkipHandoffMoves DEF OthersHold, OthersStay, HoldsLeases, Leased
  <2>3. CASE /\ provLock[job[c].learned] = NoCaller
             /\ provLock' = [provLock EXCEPT ![job[c].learned] = c]
             /\ job' = [job EXCEPT ![c].hand = "held"]
    <3>1. OthersStay(c) /\ jpc'[c] = "commit"
      BY <1>1, <2>1, <2>3 DEF OthersStay
    <3>2. job'[c].req = job[c].req /\ job'[c].learned = job[c].learned
      BY <1>1, <2>3 DEF Job
    <3>3. provLock'[NoId] = provLock[NoId]
      BY <1>1, <2>1, <2>3 DEF LeasesOK, Identity
    <3> QED
      BY <1>1, <2>1, <2>3, <3>1, <3>2, <3>3 DEF OthersHold, HoldsLeases, Leased, LeasesOK
  <2> QED
    BY <1>3, <2>2, <2>3 DEF AcquireHandoff
<1>4. CASE HandoffTimeout(c)
  <2>1. /\ jpc[c] = "handoff" /\ UNCHANGED lockVars /\ SkipHandoff(c)
        /\ jpc' = [jpc EXCEPT ![c] = "commit"]
    BY <1>4 DEF HandoffTimeout
  <2> QED
    BY <1>1, <2>1, SkipHandoffMoves
       DEF OthersHold, OthersStay, HoldsLeases, Leased, lockVars
<1>5. CASE NoticeHandoffLoss(c)
  <2>1. jpc' = jpc /\ UNCHANGED lockVars /\ SkipHandoff(c) /\ jpc[c] # "handoff"
    BY <1>5 DEF NoticeHandoffLoss
  <2> QED
    BY <1>1, <2>1, SkipHandoffMoves
       DEF OthersHold, OthersStay, HoldsLeases, Leased, lockVars
<1>6. CASE Abort(c)
  <2>1. jpc' = jpc /\ rowLock' = rowLock
    BY <1>6 DEF Abort
  <2>2. CASE job[c].hand = "held"
    <3>1. /\ SkipHandoff(c) /\ job[c].req.ident = NoId /\ job[c].learned # NoId
          /\ \/ provLock' = provLock
             \/ /\ provLock[job[c].learned] = c
                /\ provLock' = [provLock EXCEPT ![job[c].learned] = NoCaller]
      BY <1>6, <2>2 DEF Abort, HandoffLost, HoldsLeases
    <3>2. /\ provLock'[NoId] = provLock[NoId]
          /\ \A i \in Identity : provLock[i] # c => provLock'[i] = provLock[i]
      BY <1>1, <3>1 DEF LeasesOK, Identity
    <3>3. /\ OthersStay(c) /\ job'[c].req = job[c].req /\ job'[c].learned = job[c].learned
      BY <1>1, <2>1, <3>1, SkipHandoffMoves DEF OthersStay
    <3> QED
      BY <2>1, <3>1, <3>2, <3>3 DEF OthersHold, HoldsLeases, Leased
  <2>3. CASE job[c].hand # "held"
    BY <1>6, <2>1, <2>3 DEF Abort, OthersHold, OthersStay, HoldsLeases
  <2> QED
    BY <2>2, <2>3
<1> QED
  BY <1>2, <1>3, <1>4, <1>5, <1>6

LEMMA CommitHolds ==
  ASSUME TypeOK, NEW c \in Caller, HoldsLeases(c),
         Commit(c) \/ CommitFails(c) \/ PublishSuccessor(c) \/ ReconcileFailure(c)
  PROVE  OthersHold(c) /\ HoldsLeases(c)'
<1>1. /\ job[c] \in Job /\ job \in [Caller -> Job] /\ JobsOK
      /\ job[c].req \in Request /\ job[c].attempt \in 0..MaxAttempts
  BY JobFields DEF TypeOK, JobsOK, Job
<1>2. CASE \E result : Settle(c, result) /\ (ReleaseAll(c) \/ UNCHANGED lockVars)
  BY <1>2, SettleHolds
<1>3. CASE jpc[c] = "commit" /\ Goto(c, "publish") /\ UNCHANGED <<lockVars, job>>
  <2>1. OthersStay(c) /\ jpc'[c] = "publish"
    BY <1>1, <1>3, GotoMoves DEF OthersStay
  <2> QED
    BY <1>3, <2>1 DEF OthersHold, HoldsLeases, Leased, lockVars
<1>4. CASE /\ job' = [job EXCEPT ![c] = NextAttempt(job[c])] /\ Goto(c, "start")
           /\ UNCHANGED lockVars
  <2>1. OthersStay(c) /\ jpc'[c] = "start"
    BY <1>1, <1>4, GotoMoves DEF OthersStay
  <2>2. job'[c].hand = "none"
    <3>1. job'[c] = Attempt(job[c].req, job[c].attempt + 1)
      BY <1>1, <1>4 DEF NextAttempt
    <3> QED
      BY <3>1 DEF Attempt, NoJob
  <2> QED
    BY <1>4, <2>1, <2>2 DEF OthersHold, HoldsLeases, Leased, lockVars
<1> QED
  <2>1. CASE Commit(c)
    BY <1>2, <1>3, <2>1 DEF Commit, Abandons
  <2>2. CASE CommitFails(c)
    BY <1>2, <2>2 DEF CommitFails, Abandons
  <2>3. CASE PublishSuccessor(c)
    BY <1>2, <2>3 DEF PublishSuccessor, PublishEvidence
  <2>4. CASE ReconcileFailure(c)
    BY <1>2, <1>4, <2>4 DEF ReconcileFailure
  <2> QED
    BY <2>1, <2>2, <2>3, <2>4

-----------------------------------------------------------------------------
\* All steps.

LEMMA StepKeepsLeases ==
  ASSUME "stall" \notin Faults, TypeOK, Owned, LeasesHeld, [Next]_vars
  PROVE  LeasesHeld'
<1>1. \A c \in Caller : HoldsLeases(c)
  BY DEF LeasesHeld
<1>2. ASSUME NEW c \in Caller, JobStep(c) \/ Abort(c) PROVE LeasesHeld'
  BY <1>1, <1>2, OneJobMoves, SurveyHolds, LockHolds, ExchangeHolds, HandoffHolds, CommitHolds
     DEF JobStep
<1>3. ASSUME NEW c \in Caller, Begin(c) \/ CallStep(c) PROVE LeasesHeld'
  <2>1. UNCHANGED lockVars
    BY <1>3, CallsOnlyStart
  <2>2. CASE UNCHANGED <<jpc, job>>
    BY <1>1, <2>1, <2>2 DEF LeasesHeld, HoldsLeases, lockVars
  <2>3. CASE \E b \in Request : /\ jpc' = [jpc EXCEPT ![c] = "start"]
                               /\ job' = [job EXCEPT ![c] = Attempt(b, 1)]
    <3>1. OthersHold(c) /\ jpc'[c] = "start" /\ job'[c].hand = "none"
      BY <2>1, <2>3 DEF OthersHold, OthersStay, lockVars, TypeOK, JobsOK, Attempt, NoJob
    <3> QED
      BY <3>1, OneJobMoves DEF HoldsLeases, Leased
  <2> QED
    BY <1>3, <2>2, <2>3, CallsOnlyStart
<1>4. ASSUME NEW r \in Row, UserStep(r) PROVE LeasesHeld'
  BY <1>1, <1>4 DEF UserStep, SignIn, InitializeEpoch, ResetBackoff, BackoffElapses, Disable,
     ForeignRefresh, lockVars, jobVars, LeasesHeld, HoldsLeases
<1>5. ASSUME NEW c \in Caller, EvictStale(c) PROVE LeasesHeld'
  <2>1. jpc[c] = "dead" /\ ReleaseAll(c) /\ UNCHANGED <<jpc, job>>
    BY <1>5 DEF EvictStale, Stale, jobVars
  <2>2. OthersHold(c)
    BY <2>1, ReleaseOwn DEF OthersHold, OthersStay, TypeOK
  <2>3. HoldsLeases(c)'
    BY <1>1, <2>1 DEF HoldsLeases, Leased
  <2> QED
    BY <2>2, <2>3, OneJobMoves
<1>6. ASSUME NEW p \in Process, Crash(p) PROVE LeasesHeld'
  <2> SUFFICES ASSUME NEW d \in Caller PROVE HoldsLeases(d)'
    BY DEF LeasesHeld
  <2>1. UNCHANGED lockVars
    BY <1>6 DEF Crash
  <2>2. (jpc'[d] = jpc[d] /\ job'[d] = job[d]) \/ (jpc'[d] = "dead" /\ job'[d] = NoJob)
    BY <1>6 DEF Crash
  <2> QED
    BY <1>1, <2>1, <2>2 DEF HoldsLeases, Leased, lockVars, NoJob
<1>7. CASE \/ \E t \in 1..MaxTok : AccessExpires(t)
           \/ AllDone \/ UNCHANGED vars
  BY <1>1, <1>7 DEF AccessExpires, AllDone, vars, lockVars, jobVars, LeasesHeld, HoldsLeases
<1>8. ~\E c \in Caller : Stall(c)
  BY DEF Stall, Disturb
<1> QED
  BY <1>2, <1>3, <1>4, <1>5, <1>6, <1>7, <1>8 DEF Next

LEMMA InitLeases == Init => Owned /\ LeasesHeld
<1> SUFFICES ASSUME Init PROVE Owned /\ LeasesHeld
  OBVIOUS
<1>1. PICK owner \in [Row -> Account] :
        tok = [n \in Token |->
                 IF n \in Row THEN [acct |-> owner[n], row |-> n, ok |-> TRUE]
                 ELSE [acct |-> NoId, row |-> 0, ok |-> FALSE]]
  BY DEF Init
<1>2. Owned
  BY <1>1, MetadataConstantsOK DEF Owned, Init
<1>3. \A c \in Caller : jpc[c] = "none" /\ job[c].hand = "none"
  BY DEF Init, NoJob
<1> QED
  BY <1>2, <1>3 DEF LeasesHeld, HoldsLeases, Leased

\* Exchanges of one row, of one account or of unidentified rows never overlap,
\* from reading the credential under lease to publishing its successor, where no
\* process stalls beyond its leases' time to live.
THEOREM ExchangesTakeTurns ==
  ASSUME "stall" \notin Faults
  PROVE  Spec => []OneExchangeAtATime
<1>1. Init => Owned /\ LeasesHeld
  BY InitLeases
<1>2. TypeOK /\ Owned /\ LeasesHeld /\ [Next]_vars => (Owned /\ LeasesHeld)'
  BY StepKeepsOwned, StepKeepsLeases
<1>3. TypeOK /\ LeasesHeld => OneExchangeAtATime
  BY DEF LeasesHeld, HoldsLeases, OneExchangeAtATime
<1> QED
  BY <1>1, <1>2, <1>3, TypeCorrect, PTL DEF Spec
=============================================================================
