-------------------------- MODULE CredentialRefresh --------------------------
(***************************************************************************)
(* Local OAuth credential refresh: calls authorize a request on a pool row; *)
(* one job per row or account and process refreshes the row; file leases    *)
(* order the jobs of different processes; the provider replaces single-use  *)
(* refresh tokens.  One action is one stretch of code between two awaits.   *)
(*                                                                          *)
(* Tokens are the numbers 1, 2, ... in the order the provider mints them:   *)
(* n names both the n-th access token and the refresh token issued with it. *)
(***************************************************************************)
EXTENDS RuntimeMetadata, FiniteSets

CONSTANTS
  NRows,        \* pool rows, in roster order
  Caller,       \* authorize() calls; each makes one request
  NoCaller,
  Process,      \* OpenCode and Pi processes that share the pool files
  ProcOf,       \* the process each call runs in
  Asks,         \* what calls ask for: an intent, and whether they report a 401
  MaxAttempts,  \* NATIVE_REFRESH_MAX_ATTEMPTS
  MaxDisturb,   \* bound: disturbances of the environment, all kinds together
  Faults        \* the kinds of disturbance that may happen

Row == 1..NRows

FaultKind == {"abort", "crash", "disable", "expire", "foreign", "io", "keep", "lost",
              "reset", "signin", "stall", "timeout", "unsupported"}
Intent == {"serve", "refresh"}

ASSUME ConstantsOK ==
  /\ NRows \in Nat \ {0} /\ NRows <= MaxTok
  /\ MaxAttempts \in Nat \ {0}
  /\ MaxDisturb \in Nat
  /\ NoCaller \notin Caller
  /\ ProcOf \in [Caller -> Process]
  /\ Asks \subseteq Intent \X BOOLEAN
  /\ Faults \subseteq FaultKind

VARIABLES
  pool,     \* pool files: epoch, identity, credential and switch of each row
  meta,     \* runtime metadata file: the entry of each row
  tok,      \* provider: account and row lineage of each minted token
  minted,   \* provider: tokens minted so far
  live,     \* provider: refresh tokens it still accepts
  fresh,    \* access tokens whose recorded expiry has not passed
  rowLock,  \* lease on each pool row
  provLock, \* provider lease of each account; of NoId: the shared default one
  jobs,     \* each process's map from job keys to running jobs
  cpc,      \* where each call is
  call,     \* what each call asks and has captured
  aborted,  \* calls whose signal has fired
  jpc,      \* where the job a call owns is
  job,      \* what that job has captured
  barred,   \* access tokens rejected by a 401 reported to the job
  burnt,    \* history: refresh tokens whose successor a fault destroyed
  budget    \* disturbances left

storeVars == <<pool, meta>>
providerVars == <<tok, minted, live, fresh>>
lockVars == <<rowLock, provLock>>
callVars == <<cpc, call, aborted>>
jobVars == <<jpc, job, barred, jobs>>
vars == <<storeVars, providerVars, lockVars, callVars, jobVars, burnt, budget>>

PoolRow == [epoch : Nat, ident : Identity, acc : Token, ref : Token, on : BOOLEAN]
NoRow == [epoch |-> 0, ident |-> NoId, acc |-> 0, ref |-> 0, on |-> FALSE]

Request == [row : Row, epoch : Nat, ident : Identity, intent : Intent, rej : Token]
NoRequest == [row |-> 1, epoch |-> 0, ident |-> NoId, intent |-> "serve", rej |-> 0]

CallPc == {"idle", "read", "admit", "waiting", "final", "done", "crashed"}
Call == [req : Request, seen : PoolRow, joined : Caller \cup {NoCaller},
         bounded : BOOLEAN, kind : {"none", "usable", "refused", "failed", "transient"},
         acc : Token, expect : Identity]
NoCall == [req |-> NoRequest, seen |-> NoRow, joined |-> NoCaller, bounded |-> FALSE,
           kind |-> "none", acc |-> 0, expect |-> NoId]

JobPc == {"none", "start", "policy", "adopt", "validate", "proof", "rowlock",
          "provlock", "recheck", "exchange", "lookup", "handoff", "commit",
          "publish", "failed", "settled", "dead"}
Job == [req : Request, attempt : 0..MaxAttempts, row : PoolRow, ctx : Context,
        look : {"none", "resolved", "failed", "unsupported"},
        succ : Material, learned : Identity, hand : {"none", "held", "skipped"},
        fail : {"none", "transient", "limited", "invalid", "validation"},
        result : {"none", "current", "rotated", "refused", "failed"}]
NoJob == [req |-> NoRequest, attempt |-> 0, row |-> NoRow, ctx |-> NoContext,
          look |-> "none", succ |-> NoMaterial, learned |-> NoId, hand |-> "none",
          fail |-> "none", result |-> "none"]
Attempt(req, n) == [NoJob EXCEPT !.req = req, !.attempt = n]

Running(c) == jpc[c] \notin {"none", "settled", "dead"}

-----------------------------------------------------------------------------
\* The process-wide job map.

JobKey(b, ident) ==
  [epoch |-> b.epoch, row |-> IF ident = NoId THEN b.row ELSE 0, ident |-> ident]
KeyOf(b) == JobKey(b, b.ident)

\* The key the job of an unidentified row also answers to once it learned its account.
AliasOf(c) == JobKey(job[c].req, job[c].learned)

Registration == [proc : Process, owner : Caller,
                 key : [epoch : Nat, row : 0..NRows, ident : Identity]]
At(p, k, c) == [proc |-> p, key |-> k, owner |-> c]

JobAt(p, k) ==
  IF \E c \in Caller : At(p, k, c) \in jobs
    THEN CHOOSE c \in Caller : At(p, k, c) \in jobs ELSE NoCaller

\* Map.set
Register(js, c, k) ==
  {e \in js : e.proc # ProcOf[c] \/ e.key # k} \cup {At(ProcOf[c], k, c)}

RegisterAlias(js, c, k) ==
  IF \E e \in js : e.proc = ProcOf[c] /\ e.key = k THEN js ELSE Register(js, c, k)

\* Compare-and-delete: never another job's registration.
Unregister(js, c, k) == js \ {At(ProcOf[c], k, c)}

\* recordRejection: a 401 a call reports bars its token for the whole job.
RecordRejection(bs, c, t) ==
  IF c = NoCaller \/ t = 0 THEN bs ELSE [bs EXCEPT ![c] = @ \cup {t}]

\* Mutant: a reported 401 is noted and never consulted.
JobNeverRejects(j, acc, bs) == FALSE

\* jobRejectsAccess
JobRejects(j, acc, bs) == j # NoCaller /\ acc \in bs[j]

\* Joins job j, or starts one when there is none, for request b.
JoinOrStart(c, b, j, bs) ==
  LET owner == IF j = NoCaller THEN c ELSE j
      rejections == RecordRejection(bs, owner, b.rej)
  IN /\ barred' = rejections
     /\ call' = [call EXCEPT ![c] = [NoCall EXCEPT !.req = b, !.joined = owner,
                                                  !.bounded = rejections[owner] # {}]]
     /\ cpc' = [cpc EXCEPT ![c] = "waiting"]
     /\ IF j = NoCaller
          THEN /\ jobs' = Register(jobs, c, KeyOf(b))
               /\ jpc' = [jpc EXCEPT ![c] = "start"]
               /\ job' = [job EXCEPT ![c] = Attempt(b, 1)]
          ELSE UNCHANGED <<jobs, jpc, job>>

\* The promise settles and its keys are gone before any waiter resumes.
Settle(c, result) ==
  /\ jpc' = [jpc EXCEPT ![c] = "settled"]
  /\ job' = [job EXCEPT ![c] = [NoJob EXCEPT !.result = result, !.learned = job[c].learned]]
  /\ jobs' = Unregister(Unregister(jobs, c, KeyOf(job[c].req)), c, AliasOf(c))
  /\ UNCHANGED barred

Goto(c, pc) ==
  /\ jpc' = [jpc EXCEPT ![c] = pc]
  /\ UNCHANGED <<jobs, barred>>

-----------------------------------------------------------------------------
\* authorize()

\* admit(): request b is answered with the access token of the captured row.
InService(b, row) == SameBinding(b, row) /\ row.on

\* Mutant: admits a current token nobody has validated.
UsableUnproven(c, b, row) ==
  /\ InService(b, row) /\ b.ident # NoId
  /\ row.acc \in fresh /\ row.acc # b.rej
  /\ ~Restricted(meta[b.row], b, row.ref)
  /\ c \notin aborted

Usable(c, b, row) ==
  /\ InService(b, row) /\ b.ident # NoId
  /\ row.acc \in fresh /\ row.acc # b.rej
  /\ ~Restricted(meta[b.row], b, row.ref) /\ Proven(meta[b.row], b, row)
  /\ c \notin aborted

ProofMissing(b, row) ==
  /\ InService(b, row) /\ b.ident # NoId
  /\ row.acc \in fresh /\ row.acc # b.rej
  /\ ~Restricted(meta[b.row], b, row.ref)
  /\ ~Proven(meta[b.row], b, row) /\ ~RetryHolds(meta[b.row], b, row)

\* The refusals after which a serve request asks for a refresh: no identity, no
\* current access token, the token just rejected, or no evidence for it.
NeedsRefresh(b, row) ==
  \/ InService(b, row) /\ (b.ident = NoId \/ row.acc \notin fresh)
  \/ InService(b, row) /\ row.acc = b.rej /\ ~Restricted(meta[b.row], b, row.ref)
  \/ ProofMissing(b, row)

Finish(c, kind, acc, expect) ==
  /\ call' = [call EXCEPT ![c] = [NoCall EXCEPT !.kind = kind, !.acc = acc,
                                                !.expect = expect]]
  /\ cpc' = [cpc EXCEPT ![c] = "done"]

\* The host captures a binding and calls; a refresh request joins or starts a job
\* at once, a serve request reads its row first.
Begin(c) ==
  /\ cpc[c] = "idle"
  /\ \E r \in Row, ask \in Asks :
       \E rej \in IF ask[2] THEN {n \in 1..minted : tok[n].row = r} ELSE {0} :
         LET b == [row |-> r, epoch |-> pool[r].epoch, ident |-> pool[r].ident,
                   intent |-> ask[1], rej |-> rej]
             j == JobAt(ProcOf[c], KeyOf(b))
         IN IF b.intent = "refresh" THEN JoinOrStart(c, b, j, barred)
            ELSE /\ call' = [call EXCEPT ![c] = [NoCall EXCEPT !.req = b, !.joined = j]]
                 /\ cpc' = [cpc EXCEPT ![c] = "read"]
                 /\ barred' = RecordRejection(barred, j, rej)
                 /\ UNCHANGED <<jobs, jpc, job>>
  /\ UNCHANGED <<storeVars, providerVars, lockVars, aborted, burnt, budget>>

\* The row may have learned its identity since the binding was captured: the
\* request follows it when row and epoch are still the same.
ReadRow(c) ==
  /\ cpc[c] = "read"
  /\ LET old == call[c].req
         row == pool[old.row]
         learned == old.ident = NoId /\ row.epoch = old.epoch
         b == [old EXCEPT !.ident = IF learned THEN row.ident ELSE @]
         found == JobAt(ProcOf[c], KeyOf(b))
         j == IF found # NoCaller THEN found ELSE call[c].joined
     IN /\ call' = [call EXCEPT ![c] = [@ EXCEPT !.req = b, !.seen = row, !.joined = j]]
        /\ barred' = RecordRejection(barred, j, b.rej)
  /\ cpc' = [cpc EXCEPT ![c] = "admit"]
  /\ UNCHANGED <<storeVars, providerVars, lockVars, aborted, jpc, job, jobs, burnt, budget>>

\* The admission read returns: serve the captured token, refuse, or refresh.  The
\* job map is read again: a job may have started, or a 401 have been reported.
AdmitCurrent(c) ==
  /\ cpc[c] = "admit"
  /\ LET b == call[c].req
         seen == call[c].seen
         usable == Usable(c, b, seen)
         found == JobAt(ProcOf[c], KeyOf(b))
         j == IF found # NoCaller THEN found ELSE call[c].joined
         bs == RecordRejection(barred, j, b.rej)
         rejected == JobRejects(j, seen.acc, bs)
     IN \/ /\ NeedsRefresh(b, seen)
           /\ JoinOrStart(c, b, found, barred)
        \/ /\ usable /\ rejected
           /\ JoinOrStart(c, b, found, bs)
        \/ /\ ~NeedsRefresh(b, seen) /\ ~(usable /\ rejected)
           /\ IF usable THEN Finish(c, "usable", seen.acc, b.ident)
              ELSE Finish(c, "refused", 0, NoId)
           /\ barred' = bs
           /\ UNCHANGED <<jobs, jpc, job>>
  /\ UNCHANGED <<storeVars, providerVars, lockVars, aborted, burnt, budget>>

\* A 401 waiter gives up after its own budget; the shared exchange goes on.
JoinTimeout(c) ==
  /\ "timeout" \in Faults
  /\ cpc[c] = "waiting" /\ call[c].bounded /\ jpc[call[c].joined] # "settled"
  /\ Finish(c, "transient", 0, NoId)
  /\ UNCHANGED <<storeVars, providerVars, lockVars, aborted, jobVars, burnt, budget>>

\* The job's result arrives; a completed one makes the call re-read its own row,
\* and a rotation that learned the identity widens an unidentified binding.
TakeResult(c) ==
  /\ cpc[c] = "waiting" /\ jpc[call[c].joined] = "settled"
  /\ LET j == job[call[c].joined]
         b == call[c].req
         widened == b.ident = NoId /\ j.result = "rotated"
     IN IF c \in aborted \/ j.result \notin {"current", "rotated"}
          THEN Finish(c, IF c \notin aborted /\ j.result = "failed" THEN "failed"
                         ELSE "refused", 0, NoId)
          ELSE /\ cpc' = [cpc EXCEPT ![c] = "final"]
               /\ call' = [call EXCEPT ![c].seen = pool[b.row],
                                       ![c].req.ident = IF widened THEN j.learned ELSE @]
  /\ UNCHANGED <<storeVars, providerVars, lockVars, aborted, jobVars, burnt, budget>>

FinalAdmit(c) ==
  /\ cpc[c] = "final"
  /\ LET b == call[c].req
         seen == call[c].seen
     IN IF Usable(c, b, seen) /\ ~JobRejects(call[c].joined, seen.acc, barred)
          THEN Finish(c, "usable", seen.acc, b.ident)
          ELSE Finish(c, "refused", 0, NoId)
  /\ UNCHANGED <<storeVars, providerVars, lockVars, aborted, jobVars, burnt, budget>>

-----------------------------------------------------------------------------
\* Leases.

FreedBy(lock, c) == [l \in DOMAIN lock |-> IF lock[l] = c THEN NoCaller ELSE lock[l]]

\* store.refresh releases its leases, and run() the handoff lease, on every path.
ReleaseAll(c) ==
  /\ rowLock' = FreedBy(rowLock, c)
  /\ provLock' = FreedBy(provLock, c)

OwnsLeases(c) == rowLock[job[c].req.row] = c /\ provLock[job[c].req.ident] = c

HandoffLost(c) == job[c].hand = "held" /\ provLock[job[c].learned] # c

\* Without the handoff lease the job keeps its successor and drops the alias.
SkipHandoff(c) ==
  /\ job' = [job EXCEPT ![c].hand = "skipped"]
  /\ jobs' = Unregister(jobs, c, AliasOf(c))
  /\ UNCHANGED barred

\* The caller's signal fires.  A job whose owner aborts while it holds the handoff
\* lease gives it back; nothing else stops.
Abort(c) ==
  /\ "abort" \in Faults
  /\ c \notin aborted
  /\ cpc[c] \in {"read", "admit", "waiting", "final"} \/ Running(c)
  /\ aborted' = aborted \cup {c}
  /\ IF job[c].hand = "held"
       THEN /\ provLock' = IF HandoffLost(c) THEN provLock
                           ELSE [provLock EXCEPT ![job[c].learned] = NoCaller]
            /\ SkipHandoff(c)
       ELSE UNCHANGED <<provLock, jobs, job, barred>>
  /\ UNCHANGED <<storeVars, providerVars, rowLock, cpc, call, jpc, burnt, budget>>

-----------------------------------------------------------------------------
\* run(): the job a call owns, for the request it started with.

JobUnchanged == <<storeVars, providerVars, callVars, burnt, budget>>

Eligible(c, row) == SameBinding(job[c].req, row) /\ c \notin aborted /\ row.on

SurveyRow(c) ==
  /\ jpc[c] = "start"
  /\ LET row == pool[job[c].req.row]
     IN IF Eligible(c, row)
          THEN job' = [job EXCEPT ![c].row = row] /\ Goto(c, "policy")
          ELSE Settle(c, "refused")
  /\ UNCHANGED <<JobUnchanged, lockVars>>

\* A current, unrejected access token may already answer the request.
MayAdopt(b, row) ==
  /\ b.ident # NoId
  /\ b.intent = "serve" \/ b.rej # 0
  /\ row.acc # b.rej /\ row.acc \in fresh

SurveyPolicy(c) ==
  /\ jpc[c] = "policy"
  /\ LET b == job[c].req
         row == job[c].row
         restricted == Restricted(meta[b.row], b, row.ref)
     IN \/ /\ restricted
           /\ Settle(c, "refused")
        \/ /\ ~restricted /\ MayAdopt(b, row)
           /\ job' = [job EXCEPT ![c].ctx = ContextOf(meta[b.row])]
           /\ Goto(c, "adopt")
        \/ /\ ~restricted /\ ~MayAdopt(b, row)
           /\ Goto(c, "rowlock") /\ UNCHANGED job
  /\ UNCHANGED <<JobUnchanged, lockVars>>

Adopt(c) ==
  /\ jpc[c] = "adopt"
  /\ LET b == job[c].req
         row == job[c].row
     IN IF ProofMissing(b, row) THEN Goto(c, "validate") /\ UNCHANGED job
        ELSE Settle(c, IF Usable(c, b, row) THEN "current" ELSE "refused")
  /\ UNCHANGED <<JobUnchanged, lockVars>>

\* Mutant: any account the lookup returns confirms the row.
ConfirmsAny(c) == TRUE

\* The account behind the captured access token is the one the row names.
Confirms(c) == tok[job[c].row.acc].acct = job[c].req.ident

\* The account lookup of a stored access token, outside every lease.
ValidateAccess(c) ==
  /\ jpc[c] = "validate"
  /\ LET t == tok[job[c].row.acc]
     IN \/ /\ ~t.ok \/ ~Confirms(c)
           /\ Settle(c, "refused")
        \/ /\ t.ok /\ Confirms(c)
           /\ Goto(c, "proof") /\ UNCHANGED job
        \/ /\ t.ok
           /\ job' = [job EXCEPT ![c].fail = "validation"]
           /\ Goto(c, "failed")
  /\ UNCHANGED <<JobUnchanged, lockVars>>

\* Evidence and failures are written under the pool and metadata leases, which
\* makes the comparison with what the request captured and the write one step.
EvidenceAccepted(c, ident, mat) ==
  LET b == job[c].req
  IN /\ SameBinding([b EXCEPT !.ident = ident], pool[b.row])
     /\ MaterialOf(pool[b.row]) = mat
     /\ EvidenceFits(meta[b.row], job[c].ctx, b, ident)

FailureAccepted(c, mat) ==
  LET b == job[c].req
  IN /\ SameBinding(b, pool[b.row])
     /\ MaterialOf(pool[b.row]) = mat
     /\ ContextHolds(meta[b.row], job[c].ctx, b)

\* Evidence that may no longer be written is an error, and fails the job.
PublishEvidence(c, ident, mat, result) ==
  LET b == job[c].req
  IN IF EvidenceAccepted(c, ident, mat)
       THEN /\ meta' = [meta EXCEPT ![b.row] = WithEvidence(@, job[c].ctx, b, ident, mat)]
            /\ Settle(c, result)
       ELSE Settle(c, "failed") /\ UNCHANGED meta

\* A failure that may no longer be written is dropped.
PublishFailure(c, mat, entry) ==
  meta' = IF FailureAccepted(c, mat) THEN [meta EXCEPT ![job[c].req.row] = entry] ELSE meta

PublishProof(c) ==
  /\ jpc[c] = "proof"
  /\ PublishEvidence(c, job[c].req.ident, MaterialOf(job[c].row), "current")
  /\ UNCHANGED <<pool, providerVars, lockVars, callVars, burnt, budget>>

LockRow(c) ==
  /\ jpc[c] = "rowlock" /\ rowLock[job[c].req.row] = NoCaller
  /\ rowLock' = [rowLock EXCEPT ![job[c].req.row] = c]
  /\ Goto(c, "provlock")
  /\ UNCHANGED <<JobUnchanged, provLock, job>>

\* With both leases the store reads the row again, and refuses it or hands it to
\* the exchange callback.
LockProvider(c) ==
  /\ jpc[c] = "provlock" /\ provLock[job[c].req.ident] = NoCaller
  /\ LET row == pool[job[c].req.row]
     IN IF Eligible(c, row)
          THEN /\ provLock' = [provLock EXCEPT ![job[c].req.ident] = c]
               /\ job' = [job EXCEPT ![c].row = row]
               /\ Goto(c, "recheck")
               /\ UNCHANGED rowLock
          ELSE Settle(c, "refused") /\ ReleaseAll(c)
  /\ UNCHANGED JobUnchanged

LockTimeout(c) ==
  /\ "timeout" \in Faults
  /\ \/ jpc[c] = "rowlock" /\ rowLock[job[c].req.row] # NoCaller
     \/ jpc[c] = "provlock" /\ provLock[job[c].req.ident] # NoCaller
  /\ Settle(c, "failed")
  /\ ReleaseAll(c)
  /\ UNCHANGED JobUnchanged

\* The policy is read again after the lease waits; the exchange leaves with it.
RecheckPolicy(c) ==
  /\ jpc[c] = "recheck"
  /\ LET b == job[c].req
     IN IF c \in aborted \/ Restricted(meta[b.row], b, job[c].row.ref)
          THEN Settle(c, "refused") /\ ReleaseAll(c)
          ELSE /\ job' = [job EXCEPT ![c].ctx = ContextOf(meta[b.row])]
               /\ Goto(c, "exchange")
               /\ UNCHANGED lockVars
  /\ UNCHANGED JobUnchanged

\* The provider mints a credential for row r; it replaces the refresh token it
\* was given, or keeps it.
Mint(r, acct, ok) ==
  /\ minted < MaxTok
  /\ minted' = minted + 1
  /\ tok' = [tok EXCEPT ![minted + 1] = [acct |-> acct, row |-> r, ok |-> ok]]
  /\ fresh' = fresh \cup {minted + 1}

Minted(ref, keep) == [acc |-> minted + 1, ref |-> IF keep THEN ref ELSE minted + 1]
Redeemed(ref, keep) == IF keep THEN live ELSE (live \ {ref}) \cup {minted + 1}
Possible(fault) == IF fault \in Faults THEN BOOLEAN ELSE {FALSE}

ExchangeSucceeds(c) ==
  /\ jpc[c] = "exchange"
  /\ LET ref == job[c].row.ref
     IN /\ ref \in live
        /\ \E keep \in Possible("keep"), bad \in Possible("unsupported") :
             /\ Mint(job[c].req.row, tok[ref].acct, ~bad)
             /\ live' = Redeemed(ref, keep)
             /\ job' = [job EXCEPT ![c].succ = Minted(ref, keep)]
  /\ Goto(c, "lookup")
  /\ UNCHANGED <<storeVars, lockVars, callVars, burnt, budget>>

\* Mutant: the failure path keeps its leases.
ExchangeEndsHolding(c, kind) ==
  /\ job' = [job EXCEPT ![c].fail = kind]
  /\ Goto(c, "failed")
  /\ UNCHANGED lockVars

\* The leases are released before a failure is recorded.
ExchangeEnds(c, kind) ==
  /\ job' = [job EXCEPT ![c].fail = kind]
  /\ Goto(c, "failed")
  /\ ReleaseAll(c)

\* A network error or 5xx; a 429; 400 invalid_grant for a token no longer accepted.
ExchangeFails(c) ==
  /\ jpc[c] = "exchange"
  /\ \/ ExchangeEnds(c, "transient")
     \/ ExchangeEnds(c, "limited")
     \/ job[c].row.ref \notin live /\ ExchangeEnds(c, "invalid")
  /\ UNCHANGED JobUnchanged

Disturb(kind) == kind \in Faults /\ budget > 0 /\ budget' = budget - 1

\* The provider consumed the token and its answer was lost on the way.
ExchangeLost(c) ==
  /\ Disturb("lost")
  /\ jpc[c] = "exchange" /\ job[c].row.ref \in live
  /\ live' = live \ {job[c].row.ref}
  /\ burnt' = burnt \cup {job[c].row.ref}
  /\ ExchangeEnds(c, "transient")
  /\ UNCHANGED <<storeVars, tok, minted, fresh, callVars>>

\* The account lookup of the successor.  The refresh token is consumed: whatever
\* happens now, the callback returns the successor.  The job of an unidentified
\* row that learns its account answers to the account's key too, and takes the
\* account's provider lease over unless its caller cancelled.
LookupSuccessor(c) ==
  /\ jpc[c] = "lookup"
  /\ LET t == tok[job[c].succ.acc]
         learned == [job EXCEPT ![c].look = "resolved", ![c].learned = t.acct]
         handsOff == job[c].req.ident = NoId /\ c \notin aborted
     IN \/ /\ t.ok /\ handsOff
           /\ job' = learned
           /\ jobs' = RegisterAlias(jobs, c, JobKey(job[c].req, t.acct))
           /\ jpc' = [jpc EXCEPT ![c] = "handoff"]
           /\ UNCHANGED barred
        \/ /\ t.ok /\ ~handsOff
           /\ job' = learned
           /\ Goto(c, "commit")
        \/ /\ job' = [job EXCEPT ![c].look = IF t.ok THEN "failed" ELSE "unsupported"]
           /\ Goto(c, "commit")
  /\ UNCHANGED <<JobUnchanged, lockVars>>

AcquireHandoff(c) ==
  /\ jpc[c] = "handoff" /\ provLock[job[c].learned] = NoCaller
  /\ jpc' = [jpc EXCEPT ![c] = "commit"]
  /\ IF c \in aborted
       THEN SkipHandoff(c) /\ UNCHANGED provLock
       ELSE /\ provLock' = [provLock EXCEPT ![job[c].learned] = c]
            /\ job' = [job EXCEPT ![c].hand = "held"]
            /\ UNCHANGED <<jobs, barred>>
  /\ UNCHANGED <<JobUnchanged, rowLock>>

HandoffTimeout(c) ==
  /\ "timeout" \in Faults
  /\ jpc[c] = "handoff" /\ provLock[job[c].learned] # NoCaller
  /\ jpc' = [jpc EXCEPT ![c] = "commit"]
  /\ SkipHandoff(c)
  /\ UNCHANGED <<JobUnchanged, lockVars>>

\* The loss callback, or the ownership checks before the write and in onPersisted.
NoticeHandoffLoss(c) ==
  /\ jpc[c] \in {"commit", "publish"} /\ HandoffLost(c)
  /\ SkipHandoff(c)
  /\ UNCHANGED <<JobUnchanged, lockVars, jpc>>

\* Mutant: a disabled row or a cancelled caller still refuses the write.
RefusesIneligible(c, row) ==
  \/ ~SameBinding(job[c].req, row) \/ MaterialOf(row) # MaterialOf(job[c].row)
  \/ c \in aborted \/ ~row.on

\* Mutant: only the binding is compared again before the write.
RefusesRebound(c, row) == ~SameBinding(job[c].req, row)

\* refuse(row) once the token is consumed: another binding or another credential.
\* Cancellation and ineligibility no longer count.
RefusesWrite(c, row) ==
  ~SameBinding(job[c].req, row) \/ MaterialOf(row) # MaterialOf(job[c].row)

Contradicted(c) ==
  /\ job[c].req.ident # NoId /\ job[c].look = "resolved"
  /\ job[c].learned # job[c].req.ident

\* The row takes the successor and, if it had none, the identity it learned; of
\* two rows of one account the later is switched off.
WithSuccessor(c) ==
  LET b == job[c].req
      ident == IF b.ident = NoId THEN job[c].learned ELSE b.ident
      same == {q \in Row : q = b.row \/ (ident # NoId /\ pool[q].ident = ident)}
      row(q) == IF q = b.row
                  THEN [pool[q] EXCEPT !.ident = ident, !.acc = job[c].succ.acc,
                                       !.ref = job[c].succ.ref]
                  ELSE pool[q]
  IN [q \in Row |-> [row(q) EXCEPT !.on = @ /\ ~(q \in same /\ \E p \in same : p < q)]]

\* A row whose successor belongs to another account keeps it, switched off.
Quarantined(c) ==
  [pool EXCEPT ![job[c].req.row] =
    [@ EXCEPT !.acc = job[c].succ.acc, !.ref = job[c].succ.ref, !.on = FALSE]]

Abandons(c) == burnt' = burnt \cup {job[c].row.ref} /\ Settle(c, "failed") /\ ReleaseAll(c)

Commit(c) ==
  /\ jpc[c] = "commit" /\ ~HandoffLost(c)
  /\ LET writes == OwnsLeases(c) /\ ~RefusesWrite(c, pool[job[c].req.row])
     IN \/ /\ ~OwnsLeases(c)
           /\ Abandons(c)
           /\ UNCHANGED pool
        \/ /\ OwnsLeases(c) /\ ~writes
           /\ Settle(c, "refused") /\ ReleaseAll(c)
           /\ UNCHANGED <<pool, burnt>>
        \/ /\ writes /\ Contradicted(c)
           /\ pool' = Quarantined(c)
           /\ Settle(c, "refused") /\ ReleaseAll(c)
           /\ UNCHANGED burnt
        \/ /\ writes /\ ~Contradicted(c)
           /\ pool' = WithSuccessor(c)
           /\ Goto(c, "publish")
           /\ UNCHANGED <<lockVars, job, burnt>>
  /\ UNCHANGED <<meta, providerVars, callVars, budget>>

\* The write itself fails: the successor is gone with the token it replaced.
CommitFails(c) ==
  /\ Disturb("io")
  /\ jpc[c] = "commit" /\ ~HandoffLost(c)
  /\ Abandons(c)
  /\ UNCHANGED <<storeVars, providerVars, callVars>>

\* onPersisted, still under the row and provider leases: record what the lookup
\* of the saved successor showed, then release everything.
PublishSuccessor(c) ==
  /\ jpc[c] = "publish" /\ ~HandoffLost(c)
  /\ LET b == job[c].req
         j == job[c]
         m == meta[b.row]
     IN \/ /\ j.look = "resolved"
           /\ PublishEvidence(c, j.learned, j.succ, "rotated")
        \/ /\ j.look = "unsupported"
           /\ PublishFailure(c, j.succ, WithUnsupported(m, b))
           /\ Settle(c, "refused")
        \/ /\ j.look = "failed"
           /\ PublishFailure(c, j.succ, IF b.ident # NoId THEN WithRetry(m, b, j.succ)
                                       ELSE WithError(m, j.ctx, b, j.succ.ref, "backoff"))
           /\ Settle(c, "rotated")
  /\ ReleaseAll(c)
  /\ UNCHANGED <<pool, providerVars, callVars, burnt, budget>>

\* Mutant: one attempt too many.
MayRetryOnce(c) ==
  job[c].fail = "transient" /\ c \notin aborted /\ job[c].attempt <= MaxAttempts

\* Only a failure that cannot have consumed the token is tried again.
MayRetry(c) ==
  job[c].fail = "transient" /\ c \notin aborted /\ job[c].attempt < MaxAttempts

\* Mutant: the attempt is not counted.
SameAttempt(j) == Attempt(j.req, j.attempt)

NextAttempt(j) == Attempt(j.req, j.attempt + 1)

\* Mutant: every definite answer of the token endpoint blocks the token for good.
ErrorKindOfAnswer(fail) == IF fail \in {"invalid", "limited"} THEN "dead" ELSE "backoff"

\* classifyCapturedLocalFailure: only invalid_grant does.
ErrorKind(fail) == IF fail = "invalid" THEN "dead" ELSE "backoff"

\* The failure is recorded, if the row is still what failed, and the job tries
\* again or settles.
ReconcileFailure(c) ==
  /\ jpc[c] = "failed"
  /\ LET j == job[c]
         m == meta[j.req.row]
     IN PublishFailure(c, MaterialOf(j.row),
          IF j.fail = "validation" THEN WithRetry(m, j.req, MaterialOf(j.row))
          ELSE WithError(m, j.ctx, j.req, j.row.ref, ErrorKind(j.fail)))
  /\ IF MayRetry(c)
       THEN job' = [job EXCEPT ![c] = NextAttempt(@)] /\ Goto(c, "start")
       ELSE Settle(c, "failed")
  /\ UNCHANGED <<pool, providerVars, lockVars, callVars, burnt, budget>>

-----------------------------------------------------------------------------
\* The environment: users, time, other programs, crashes.

\* A sign-in replaces the credential under the row lease and starts an epoch;
\* its account was looked up before the write.
SignIn(r) ==
  /\ Disturb("signin")
  /\ rowLock[r] = NoCaller
  /\ \E a \in Account :
       /\ \A q \in Row \ {r} : pool[q].ident # a
       /\ Mint(r, a, TRUE)
       /\ pool' = [pool EXCEPT ![r] = [@ EXCEPT !.epoch = pool[r].epoch + 1, !.ident = a,
                                               !.acc = minted + 1, !.ref = minted + 1]]
  /\ live' = live \cup {minted + 1}
  /\ UNCHANGED <<meta, lockVars, callVars, jobVars, burnt>>

\* initializeCredentialEpoch: the second half of a sign-in, also run by a later
\* authorization when the first process stopped between the two.
InitializeEpoch(r) ==
  /\ meta[r].epoch < pool[r].epoch
  /\ meta[r].epoch # 0 \/ pool[r].epoch > 1
  /\ meta' = [meta EXCEPT ![r] = EmptyEntry(pool[r])]
  /\ UNCHANGED <<pool, providerVars, lockVars, callVars, jobVars, burnt, budget>>

\* The user clears the refresh restrictions of a row.
ResetBackoff(r) ==
  /\ Disturb("reset")
  /\ Binds(meta[r], pool[r])
  /\ meta' = [meta EXCEPT ![r] = WithReset(@)]
  /\ UNCHANGED <<pool, providerVars, lockVars, callVars, jobVars, burnt>>

BackoffElapses(r) ==
  /\ \/ /\ meta[r].err.kind = "backoff"
        /\ meta' = [meta EXCEPT ![r].err.kind = "elapsed"]
     \/ /\ ~meta[r].retry.due
        /\ meta' = [meta EXCEPT ![r].retry.due = TRUE]
  /\ UNCHANGED <<pool, providerVars, lockVars, callVars, jobVars, burnt, budget>>

AccessExpires(t) ==
  /\ Disturb("expire")
  /\ t \in fresh
  /\ fresh' = fresh \ {t}
  /\ UNCHANGED <<storeVars, tok, minted, live, lockVars, callVars, jobVars, burnt>>

Disable(r) ==
  /\ Disturb("disable")
  /\ pool[r].on
  /\ pool' = [pool EXCEPT ![r].on = FALSE]
  /\ UNCHANGED <<meta, providerVars, lockVars, callVars, jobVars, burnt>>

\* A writer that takes no lease refreshes the row on its own.
ForeignRefresh(r) ==
  /\ Disturb("foreign")
  /\ pool[r].ref \in live
  /\ \E keep \in Possible("keep") :
       LET new == Minted(pool[r].ref, keep)
       IN /\ Mint(r, tok[pool[r].ref].acct, TRUE)
          /\ live' = Redeemed(pool[r].ref, keep)
          /\ pool' = [pool EXCEPT ![r] = [@ EXCEPT !.acc = new.acc, !.ref = new.ref]]
  /\ UNCHANGED <<meta, lockVars, callVars, jobVars, burnt>>

\* A stalled process outlives the time to live of a lease it holds.
Stall(c) ==
  /\ Disturb("stall")
  /\ Running(c)
  /\ \/ \E r \in Row : /\ rowLock[r] = c
                        /\ rowLock' = [rowLock EXCEPT ![r] = NoCaller]
                        /\ UNCHANGED provLock
     \/ \E i \in Identity : /\ provLock[i] = c
                             /\ provLock' = [provLock EXCEPT ![i] = NoCaller]
                             /\ UNCHANGED rowLock
  /\ UNCHANGED <<storeVars, providerVars, callVars, jobVars, burnt>>

\* The token is consumed and its successor not yet written.
Consumed(c) == jpc[c] \in {"lookup", "handoff", "commit"}

\* A process dies with its calls, jobs and job map; its leases stay behind.
Crash(p) ==
  LET in == {c \in Caller : ProcOf[c] = p}
      calls == {c \in in : cpc[c] \notin {"idle", "done", "crashed"}}
      running == {c \in in : Running(c)}
  IN /\ Disturb("crash")
     /\ running # {}
     /\ burnt' = burnt \cup {job[c].row.ref : c \in {d \in running : Consumed(d)}}
     /\ cpc' = [c \in Caller |-> IF c \in calls THEN "crashed" ELSE cpc[c]]
     /\ call' = [c \in Caller |-> IF c \in calls THEN NoCall ELSE call[c]]
     /\ jpc' = [c \in Caller |-> IF c \in running THEN "dead" ELSE jpc[c]]
     /\ job' = [c \in Caller |-> IF c \in running THEN NoJob ELSE job[c]]
     /\ barred' = [c \in Caller |-> IF c \in in THEN {} ELSE barred[c]]
     /\ jobs' = {e \in jobs : e.proc # p}
     /\ UNCHANGED <<storeVars, providerVars, lockVars, aborted>>

\* Mutant: a live holder does not renew its leases.
StaleUnrenewed(c) == jpc[c] = "dead" \/ Running(c)

\* A running holder renews its leases; only a dead one's get stale.
Stale(c) == jpc[c] = "dead"

\* Stale leases are evicted.
EvictStale(c) ==
  /\ Stale(c)
  /\ (\E r \in Row : rowLock[r] = c) \/ (\E i \in Identity : provLock[i] = c)
  /\ ReleaseAll(c)
  /\ UNCHANGED <<storeVars, providerVars, callVars, jobVars, burnt, budget>>

\* Every call is answered and no job runs: the modelled life is over.
AllDone ==
  /\ \A c \in Caller : cpc[c] \in {"done", "crashed"} /\ ~Running(c)
  /\ UNCHANGED vars

-----------------------------------------------------------------------------
CallStep(c) ==
  ReadRow(c) \/ AdmitCurrent(c) \/ JoinTimeout(c) \/ TakeResult(c) \/ FinalAdmit(c)

JobStep(c) ==
  \/ SurveyRow(c) \/ SurveyPolicy(c) \/ Adopt(c) \/ ValidateAccess(c) \/ PublishProof(c)
  \/ LockRow(c) \/ LockProvider(c) \/ LockTimeout(c) \/ RecheckPolicy(c)
  \/ ExchangeSucceeds(c) \/ ExchangeLost(c) \/ ExchangeFails(c)
  \/ LookupSuccessor(c) \/ AcquireHandoff(c) \/ HandoffTimeout(c) \/ NoticeHandoffLoss(c)
  \/ Commit(c) \/ CommitFails(c) \/ PublishSuccessor(c) \/ ReconcileFailure(c)

UserStep(r) ==
  \/ SignIn(r) \/ InitializeEpoch(r) \/ ResetBackoff(r) \/ BackoffElapses(r)
  \/ Disable(r) \/ ForeignRefresh(r)

Next ==
  \/ \E c \in Caller : Begin(c) \/ CallStep(c) \/ JobStep(c)
                       \/ Abort(c) \/ Stall(c) \/ EvictStale(c)
  \/ \E r \in Row : UserStep(r)
  \/ \E t \in 1..MaxTok : AccessExpires(t)
  \/ \E p \in Process : Crash(p)
  \/ AllDone

\* Accounts signed in before or imported: an imported row may have no identity or
\* one its tokens do not belong to, and no evidence; recorded evidence is sound.
InitEntry(row, owner) ==
  {NoEntry, EmptyEntry(row)} \cup
    IF row.ident = owner THEN {[EmptyEntry(row) EXCEPT !.proof = MaterialOf(row)]} ELSE {}

Init ==
  /\ \E ident \in [Row -> Identity], owner \in [Row -> Account] :
       /\ \A q, r \in Row : q # r /\ ident[q] # NoId => ident[q] # ident[r]
       /\ pool = [r \in Row |-> [epoch |-> 1, ident |-> ident[r], acc |-> r, ref |-> r,
                                  on |-> TRUE]]
       /\ tok = [n \in Token |->
                   IF n \in Row THEN [acct |-> owner[n], row |-> n, ok |-> TRUE]
                   ELSE [acct |-> NoId, row |-> 0, ok |-> FALSE]]
       /\ meta \in [Row -> UNION {InitEntry(pool[r], owner[r]) : r \in Row}]
       /\ \A r \in Row : meta[r] \in InitEntry(pool[r], owner[r])
  /\ minted = NRows
  /\ live = Row
  /\ fresh \in SUBSET Row
  /\ rowLock = [r \in Row |-> NoCaller]
  /\ provLock = [i \in Identity |-> NoCaller]
  /\ jobs = {}
  /\ cpc = [c \in Caller |-> "idle"]
  /\ call = [c \in Caller |-> NoCall]
  /\ aborted = {}
  /\ jpc = [c \in Caller |-> "none"]
  /\ job = [c \in Caller |-> NoJob]
  /\ barred = [c \in Caller |-> {}]
  /\ burnt = {}
  /\ budget = MaxDisturb

Spec == Init /\ [][Next]_vars

\* A started call or job runs on, lease waits time out, stale leases are evicted.
Fairness ==
  \A c \in Caller : /\ WF_vars(CallStep(c)) /\ WF_vars(JobStep(c))
                    /\ WF_vars(EvictStale(c))

FairSpec == Spec /\ Fairness

-----------------------------------------------------------------------------
\* Every variable keeps its type: the durable files, the provider, the leases,
\* and what calls and jobs have captured.
StoreOK == pool \in [Row -> PoolRow] /\ meta \in [Row -> Entry]
ProviderOK ==
  /\ tok \in [Token -> [acct : Identity, row : 0..NRows, ok : BOOLEAN]]
  /\ minted \in 0..MaxTok
  /\ live \subseteq 1..MaxTok /\ fresh \subseteq 1..MaxTok /\ burnt \subseteq Token
LeasesOK ==
  /\ rowLock \in [Row -> Caller \cup {NoCaller}]
  /\ provLock \in [Identity -> Caller \cup {NoCaller}]
CallsOK ==
  /\ cpc \in [Caller -> CallPc] /\ call \in [Caller -> Call] /\ aborted \subseteq Caller
  /\ \A c \in Caller : cpc[c] \in {"waiting", "final"} => call[c].joined \in Caller
JobsOK ==
  /\ jpc \in [Caller -> JobPc] /\ job \in [Caller -> Job]
  /\ jobs \subseteq Registration
  /\ barred \in [Caller -> SUBSET (1..MaxTok)]
TypeOK ==
  StoreOK /\ ProviderOK /\ LeasesOK /\ CallsOK /\ JobsOK /\ budget \in 0..MaxDisturb

\* A single-use refresh token the provider consumed is never left as a row's
\* credential without its successor on the way, unless a fault destroyed the
\* successor: no cancellation, disabled row, failed lookup or lost handoff does.
SuccessorNeverLost ==
  \A r \in Row :
    \/ pool[r].ref \in live \cup burnt
    \/ \E c \in Caller : Consumed(c) /\ job[c].req.row = r /\ job[c].row.ref = pool[r].ref

\* Jobs of different processes, of one account, or of unidentified rows take turns
\* from reading a credential under lease to publishing its successor.
Leased == {"recheck", "exchange", "lookup", "handoff", "commit", "publish"}
OneExchangeAtATime ==
  \A c, d \in Caller : c # d /\ jpc[c] \in Leased /\ jpc[d] \in Leased =>
    job[c].req.row # job[d].req.row /\ job[c].req.ident # job[d].req.ident

\* Its strengthening where no lease is lost: each such job holds both leases, and
\* the handoff lease is never the one its exchange runs under.
HoldsLeases(c) ==
  /\ jpc[c] \in Leased \cup {"provlock"} => rowLock[job[c].req.row] = c
  /\ jpc[c] \in Leased => provLock[job[c].req.ident] = c
  /\ job[c].hand = "held" \/ jpc[c] = "handoff" =>
       job[c].req.ident = NoId /\ job[c].learned # NoId
LeasesHeld == \A c \in Caller : HoldsLeases(c)

\* Evidence in the metadata file is true: the provider minted that access token
\* for the account the entry names.
Shows(acc, ident) == tok[acc].ok /\ tok[acc].acct = ident
EvidenceSound ==
  \A r \in Row : meta[r].proof # NoMaterial => Shows(meta[r].proof.acc, meta[r].ident)

\* Its strengthening: only minted tokens work, an absent entry has no evidence, and
\* what a job is about to publish is true.
JobEvidence(c) ==
  /\ jpc[c] = "proof" => Shows(job[c].row.acc, job[c].req.ident)
  /\ jpc[c] \in {"handoff", "commit", "publish"} /\ job[c].look = "resolved" =>
       Shows(job[c].succ.acc, job[c].learned)
EntryEvidence(m) ==
  /\ m.epoch = 0 => m.proof = NoMaterial
  /\ m.proof # NoMaterial => Shows(m.proof.acc, m.ident)
EvidenceInv ==
  /\ \A n \in Token : tok[n].ok => n <= minted
  /\ \A r \in Row : pool[r].epoch # 0 /\ EntryEvidence(meta[r])
  /\ \A c \in Caller : JobEvidence(c)

\* A call is only handed a token the provider minted for the account its binding
\* names, also when the row was imported under a wrong account.
ServedTokenIsTheAccounts ==
  \A c \in Caller : call[c].kind = "usable" => tok[call[c].acc].acct = call[c].expect

Serves(c) == cpc[c] # "done" /\ cpc'[c] = "done" /\ call'[c].kind = "usable"

\* The token handed to a call is of its own row, never the one it reported a 401
\* for, and never one a 401 barred at the job the call waited for.
ServesNothingRejected ==
  [][\A c \in Caller : Serves(c) =>
       /\ tok[call'[c].acc].row = call[c].req.row
       /\ call'[c].acc # call[c].req.rej
       /\ cpc[c] = "final" => call'[c].acc \notin barred[call[c].joined]]_vars

\* A failure of an exchange that left before the last reset never comes back.
ErrorsFollowReset ==
  \A r \in Row : meta[r].err.kind # "none" => meta[r].err.gen = meta[r].clears

\* Only a token the provider no longer accepts is blocked for good.
DeadMeansDead == \A r \in Row : meta[r].err.kind = "dead" => meta[r].err.ref \notin live

\* Within an epoch a row's access token only moves forward and an identity once
\* learned stays; epochs only grow.
CredentialMovesForward ==
  [][\A r \in Row :
       \/ pool'[r].epoch > pool[r].epoch
       \/ /\ pool'[r].epoch = pool[r].epoch
          /\ pool'[r].acc >= pool[r].acc
          /\ pool[r].ident \in {NoId, pool'[r].ident}]_vars

\* Every call settles, whatever its job, its peers or other processes do.
CallsSettle ==
  \A c \in Caller : cpc[c] = "waiting" ~> cpc[c] \in {"done", "crashed"}

\* Every lease is given back, also a dead process's.
LeasesReturn == \A r \in Row : rowLock[r] # NoCaller ~> rowLock[r] = NoCaller

=============================================================================
