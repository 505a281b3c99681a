---------------------------- MODULE RuntimeMetadata ----------------------------
(***************************************************************************)
(* The entry the native runtime file keeps for a pool row: the evidence     *)
(* that a stored credential belongs to the account the row names, the       *)
(* errors that restrict it and the floor a reset raises.  The operators are *)
(* the readers of admission and restriction and the replacements the        *)
(* writers of evidence, failures and resets make.                           *)
(*                                                                          *)
(* A credential is the pair of an access and a refresh token; the access    *)
(* token determines expiry and refresh time.  A binding is any record with  *)
(* an epoch and an identity: a pool row, an entry, a request, a context.    *)
(***************************************************************************)
EXTENDS Naturals

CONSTANTS
  Account,  \* account UUIDs
  NoId,     \* the missing identity of an unidentified row
  MaxTok    \* bound: tokens the provider mints

ASSUME MetadataConstantsOK == NoId \notin Account /\ MaxTok \in Nat

Identity == Account \cup {NoId}
Token == 0..MaxTok    \* 0: none

Material == [acc : Token, ref : Token]
NoMaterial == [acc |-> 0, ref |-> 0]
MaterialOf(row) == [acc |-> row.acc, ref |-> row.ref]

SameBinding(x, y) == x.epoch = y.epoch /\ x.ident = y.ident

\* An error names the refresh token it restricts and, for the properties, the
\* number of resets its request had seen; a retry the credential it delays.
NoError == [kind |-> "none", ref |-> 0, gen |-> 0]
RefreshError == [kind : {"none", "backoff", "elapsed", "dead"}, ref : Token, gen : Nat]
NoRetry == [due |-> TRUE, mat |-> NoMaterial]
Retry == [due : BOOLEAN, mat : Material]

\* clears orders resets; epoch 0 is an absent entry.
Entry == [epoch : Nat, ident : Identity, proof : Material, retry : Retry,
          err : RefreshError, clears : Nat]
NoEntry == [epoch |-> 0, ident |-> NoId, proof |-> NoMaterial, retry |-> NoRetry,
            err |-> NoError, clears |-> 0]
EmptyEntry(b) == [NoEntry EXCEPT !.epoch = b.epoch, !.ident = b.ident]

\* What a request captures of the entry before it calls the provider.
Context == [epoch : Nat, ident : Identity, clears : Nat]
NoContext == [epoch |-> 0, ident |-> NoId, clears |-> 0]
ContextOf(m) == [epoch |-> m.epoch, ident |-> m.ident, clears |-> m.clears]

-----------------------------------------------------------------------------
\* Readers.

Binds(m, b) == m.epoch # 0 /\ SameBinding(m, b)

Restricted(m, b, ref) ==
  Binds(m, b) /\ m.err.ref = ref /\ m.err.kind \in {"backoff", "dead"}

Proven(m, b, row) == Binds(m, b) /\ m.proof = MaterialOf(row)

RetryHolds(m, b, row) == Binds(m, b) /\ m.retry.mat = MaterialOf(row) /\ ~m.retry.due

-----------------------------------------------------------------------------
\* Writers.  m is the stored entry, b the binding the result is about, ctx the
\* context its request captured.

\* Mutant: a reset in between goes unnoticed.
ContextHoldsAcrossReset(m, ctx, b) ==
  IF m.epoch = 0 THEN ctx.epoch = 0 ELSE Binds(m, b) /\ Binds(ctx, b)

\* No reset came in between, and the entry is the one the request saw: an absent
\* one counts only if it was absent then.
ContextHolds(m, ctx, b) ==
  /\ m.clears = ctx.clears
  /\ IF m.epoch = 0 THEN ctx.epoch = 0 ELSE Binds(m, b) /\ Binds(ctx, b)

\* Evidence for an entry that had no identity is published as a first identity.
IsFirstIdentity(ctx) == ctx.epoch # 0 /\ ctx.ident = NoId

EvidenceFits(m, ctx, b, ident) ==
  IF IsFirstIdentity(ctx)
    THEN ContextHolds(m, ctx, [epoch |-> b.epoch, ident |-> NoId])
    ELSE b.ident = ident /\ ContextHolds(m, ctx, b)

\* A first identity drops the errors of the unidentified entry and raises the
\* floor under them; known evidence touches only the proof.
WithEvidence(m, ctx, b, ident, mat) ==
  IF IsFirstIdentity(ctx)
    THEN [m EXCEPT !.ident = ident, !.proof = mat, !.retry = NoRetry, !.err = NoError,
                   !.clears = IF m.err.kind = "none" THEN @ ELSE @ + 1]
    ELSE [m EXCEPT !.epoch = b.epoch, !.ident = ident, !.proof = mat]

WithError(m, ctx, b, ref, kind) ==
  [m EXCEPT !.epoch = b.epoch, !.ident = b.ident,
            !.err = [kind |-> kind, ref |-> ref, gen |-> ctx.clears]]

WithRetry(m, b, mat) ==
  IF m.proof = mat THEN m
  ELSE [m EXCEPT !.epoch = b.epoch, !.ident = b.ident,
                 !.retry = [due |-> FALSE, mat |-> mat]]

\* An unsupported successor is never retried: older restrictions go.
WithUnsupported(m, b) ==
  IF m.err.kind = "none" /\ m.retry = NoRetry
    THEN [m EXCEPT !.epoch = b.epoch, !.ident = b.ident]
    ELSE [m EXCEPT !.err = NoError, !.retry = NoRetry, !.clears = @ + 1]

\* resetBackoff of the refresh restrictions.
WithReset(m) == [m EXCEPT !.err = NoError, !.retry = NoRetry, !.clears = @ + 1]

=============================================================================
