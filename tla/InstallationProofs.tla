-------------------------- MODULE InstallationProofs --------------------------
(****************************************************************************)
(* Proofs about where an installation's files are and how they get there.    *)
(*                                                                          *)
(* StateLayout, for any number of processes, starts, moves and restores,    *)
(* and every fault, processes of older versions among them:                 *)
(*   ImagesRecover       whatever power loss leaves of the two folders, the *)
(*                       record in it leads to the newest stored credential *)
(*   MovesImplementCredentialHome  the refinement of CredentialHome         *)
(*   NoExchangeIsDead    no used-up refresh token is offered again (unless  *)
(*                       older versions and power loss come together)       *)
(* The inductive invariant LayoutInv says of every pair of states that the  *)
(* folders may come back in what it is good for (Recovers), how far the     *)
(* durable record may be behind the one processes see (Behind, Homes), what *)
(* a refresh under way relies on (Tokens, Refreshing), and of each process  *)
(* which locks it holds at its stage and what it has found or done there    *)
(* (Holding, MoveFacts, CleanFacts, RestoreFacts), and what the process of  *)
(* an older version relies on (Olders).  Every action has a lemma of its    *)
(* own; QuietStep, OldStep, SubStep, FlushStep, UserStep and OlderQuiet are *)
(* what they have in common.  Kept, the second invariant, is inductive next *)
(* to LayoutInv: a committed move has the old journal out of the way        *)
(* (SetAside), its conflicts are over the credential (Conflicts), and a     *)
(* used-up token that is stored is lost, being replaced or kept from use    *)
(* (Spent).                                                                 *)
(*                                                                          *)
(* Migration, for any number of credentials, deaths and host runs:          *)
(*   LoginsAreKept      no credential the provider honours is erased        *)
(*   ServesWhatItMoved  a commit authorises only rows that can serve        *)
(* The inductive invariant MigInv ties a setup that runs to the journal's   *)
(* phase and to what was read (SetupFits), the rows to what was read        *)
(* (RowsFit), says which credentials are honoured (SourcesLive) and that no *)
(* two places hold one that each may refresh (Apart).                       *)
(****************************************************************************)
EXTENDS StateLayout, Migration, FiniteSetTheorems, TLAPS
-----------------------------------------------------------------------------
(* The relocation of the layout: the invariant.                            *)

\* Nothing of an older version runs here.  Where one may, it can bring back a
\* copy of the credential that makes the state folder unusable at any time.
Alone == "older" \notin Faults

Cleanups == {"none", "pending", "done", "kept", "conflict"}

\* The records that a transition writes.
LayoutRecords ==
  [phase : Phases, attempt : Nat, files : [Roles -> Nat], cleanup : Cleanups,
   set : [Roles -> Nat], retired : {"none", "pending", "done"}]
IsRecord(rec) == rec \in LayoutRecords /\ (rec.phase # "none" => rec.attempt > 0)

\* What the old folder may hold, and what the state folder may.
IsOld(o) ==
  /\ o \in [at : [Roles -> Int], moving : Nat, staged : [Roles -> Nat]]
  /\ \A r \in Roles \ Runtimes : o.at[r] >= 0
IsSub(s) == s \in [at : [Roles -> Nat], record : LayoutRecords] /\ IsRecord(s.record)

Fields == {"mode", "job", "at", "wants", "roles", "acting", "seen", "why", "pointed", "inflight"}
\* A process, as a record.
Shape(x) == DOMAIN x = Fields /\ x = [f \in Fields |-> x[f]]

Counters == [starts : Nat, moves : Nat, restores : Nat]

\* The types.
LayoutTypes ==
  /\ \A o \in oldImages : IsOld(o)
  /\ \A s \in subImages : IsSub(s)
  /\ old \in oldImages /\ sub \in subImages
  /\ DOMAIN owner = Locks /\ owner = [l \in Locks |-> owner[l]]
  /\ registered = [old |-> registered.old, sub |-> registered.sub]
  /\ DOMAIN proc = Procs /\ proc = [p \in Procs |-> proc[p]]
  /\ \A p \in Procs : Shape(proc[p]) /\ IsRecord(proc[p].acting) /\ proc[p].inflight \in Nat
  /\ token \in [live : Nat, saved : Nat, lost : BOOLEAN, burnt : BOOLEAN]
  /\ used \in Counters

\* A file that the restore still has to put in its place.
Waits(o, rec, r) == rec.set[r] # Absent /\ o.staged[r] = rec.set[r]
\* A file that the restore is done with.
Settled(o, rec, r) ==
  ~Waits(o, rec, r) /\ (r \in Runtimes /\ rec.set[r] = Absent => ~IsTombstone(o.at[r]))

\* An old folder that is in use as if nothing had moved.
Undone(o) == OldComplete(o) /\ o.moving = Absent

\* The two folders of a move that is not committed.
MidMove(o, s) ==
  /\ o.at["localPoolState"] = token.saved
  /\ IF s.record.files["journal"] = Absent
     THEN o.moving = Absent /\ (token.saved # Absent => o.at["journal"] # Absent)
     ELSE (o.at["journal"] = Absent) # (o.moving = Absent)
  /\ \A r \in Runtimes : \/ ~IsTombstone(o.at[r])
                         \/ /\ o.at[r] = Tombstone(s.record.attempt)
                            /\ s.record.files[r] \in {Absent, s.at[r]}

\* The old folder of a restore that places its files.
MidRestore(o, rec) ==
  /\ o.moving = Absent
  /\ IF Waits(o, rec, "localPoolState") THEN rec.set["localPoolState"] = token.saved
                                       ELSE o.at["localPoolState"] = token.saved
  /\ \A r \in Roles : rec.set[r] # Absent =>
       \/ o.staged[r] = rec.set[r]
       \/ o.at[r] # Absent /\ ~IsTombstone(o.at[r])
  /\ \A r \in Runtimes : IsTombstone(o.at[r]) => o.at[r] = Tombstone(rec.attempt)
  /\ rec.set["journal"] = Absent /\ token.saved # Absent => o.at["journal"] # Absent

\* Two folders in which no credential was ever stored.
Nothing(o, s) ==
  /\ \A r \in Roles : o.at[r] <= 0 /\ s.at[r] = Absent
  /\ s.record.phase = "preparing" => \A r \in Roles : s.record.files[r] = Absent
  /\ s.record.phase = "restore-staged" => \A r \in Roles : s.record.set[r] = Absent

\* The old copies are gone.
Vacated(rec) ==
  \/ rec.phase = "restoring"
  \/ rec.phase = "committed" /\ rec.cleanup \notin {"pending", "conflict"}

\* A pair of folders from which the record leads to the newest stored
\* credential, and the next start or restore finishes the transition.
Recovers(o, s) ==
  /\ NoMove(s.record) \/ s.record.phase = "restored" => Undone(o)
  /\ s.record.phase = "preparing" => MidMove(o, s)
  /\ s.record.phase \in {"committed", "restoring"} => SubComplete(o, s)
  /\ Vacated(s.record) => o.moving = Absent
  /\ s.record.phase = "restore-staged" => MidRestore(o, s.record)
  /\ \A r \in Roles : o.staged[r] = Absent \/ ( s.record.phase \in {"restoring", "restore-staged"}
                                           /\ o.staged[r] = s.record.set[r] )
  /\ token.saved = Absent => Nothing(o, s)

\* However power loss pairs what is on disk.
AllRecover == \A o \in oldImages, s \in subImages : Recovers(o, s)

\* The runtime loses its tombstone only when the data are in their place.
PlacedFirst ==
  \A s \in subImages, o1, o2 \in oldImages :
    s.record.phase = "restore-staged" /\ ~IsTombstone(o1.at["localRuntime"])
      => ~Waits(o2, s.record, "localPoolState")

\* How far the durable record may be behind the one the processes see.
Behind ==
  /\ sub.record.phase = "preparing" \/ NoMove(sub.record) =>
       \A s \in subImages : NoMove(s.record) \/ s.record.phase \in {"preparing", "restored"}
  /\ (sub.record.phase = "restoring" \/ (sub.record.phase = "committed" /\ sub.record.cleanup # "pending")) =>
       \A s \in subImages : s.record.phase \in {"committed", "restoring"}
  /\ sub.record.phase = "committed" => \A s \in subImages : s.record.phase # "restore-staged"

\* A process that serves from the state folder is registered there, and
\* nobody is while a transition could still take the commit back.
Homes ==
  /\ registered.sub # {} => /\ sub.record.phase = "committed"
                            /\ \A s \in subImages : s.record.phase \in {"committed", "restoring"}
  /\ \A p \in Procs : proc[p].mode = "home" => p \in registered.sub

\* The stored credential is the live one, lost, or being refreshed.
Tokens ==
  /\ token.live > 0 /\ token.saved <= token.live
  /\ token.saved = Absent => token.live = 1 /\ \A p \in Procs : proc[p].inflight = 0
  /\ Alone => /\ token.burnt => token.lost
              /\ \/ token.lost \/ token.saved \in {Absent, token.live}
                 \/ \E p \in Procs : proc[p].inflight # 0

\* What a refresh of an older version relies on: the row's lock is not given
\* to another, and nothing was moved.  None runs while the old folder may have
\* files that a restore has still to place.
Olders ==
  /\ older \in {"none", "running", "refreshing"}
  /\ Alone => older = "none"
  /\ older = "refreshing" =>
       owner["oldRow"] = Nobody /\ LegacyUsable /\ Absent # token.saved /\ token.saved < token.live
  /\ older # "none" =>
       /\ sub.record.phase # "restoring"
       /\ sub.record.phase = "restore-staged" => ~Waits(old, sub.record, "localPoolState")

\* What a refresh under way relies on.
Refreshing(p) ==
  proc[p].inflight # 0 =>
    /\ Serves(p)
    /\ owner[RowLock(proc[p].mode)] = p
    /\ proc[p].inflight = token.live /\ token.saved < token.live
    /\ proc[p].mode = "legacy" \/ Alone => Usable(proc[p].mode)

\* The stages by what they do.
Moving == {"prepared", "copy", "check-artifacts", "barriers", "verify", "commit"}
Copied == {"check-artifacts", "barriers", "verify", "commit"}
Undoing == {"bring-back", "drop-copies", "record-rollback"}
Cleaning == {"look-for-a-journal", "clean", "record-cleanup", "cleaned"}
Staging == {"restoring", "stage", "record-staged"}
Discarding == {"unstage", "record-discard"}
Placing == {"classify", "place-data", "place-barriers", "record-restored"}
Retiring == {"restored", "retire", "record-retired"}

\* The stages that need the lock on the old credential row, or the layout
\* lock.
OldRowStages ==
  Moving \cup Undoing \cup Cleaning \cup {"prepare", "committed", "rolled-back"}
LayoutStages ==
  OldRowStages \cup Staging \cup Discarding \cup Placing \cup Retiring
    \cup {"decide", "fence", "sync", "admit", "unlock-data", "again", "discarded", "staged", "retired",
          "restore-decide", "restore-done"}

\* A process holds the locks of its stage.
Holding(p) ==
  /\ proc[p].at \in LayoutStages /\ "layout" \notin proc[p].wants => owner["layout"] = p
  /\ "layout" \in proc[p].wants => proc[p].at \in {"decide", "restore-decide"}
  /\ proc[p].at \in OldRowStages /\ "oldRow" \notin proc[p].wants => owner["oldRow"] = p
  /\ Serves(p) \/ proc[p].mode = "down" => proc[p].at = "none" /\ proc[p].job = "none" /\ proc[p].wants = {}
  /\ proc[p].at = "none" => Serves(p) \/ proc[p].mode = "down"
  /\ proc[p].job = "moving" => proc[p].at \in {"copy"} \cup Copied
  /\ proc[p].job = "clean" => proc[p].at \in {"clean", "record-cleanup", "cleaned", "unlock-data"}

\* What a move has done at each of its stages, and what it has undone.
MoveFacts(p) ==
  LET at == proc[p].at
      rec == proc[p].acting
      roles == proc[p].roles IN
  /\ at \in Moving \cup Undoing => rec.phase = "preparing" /\ sub.record = rec
  /\ at = "copy" => /\ \A s \in subImages : s.record = rec
                    /\ \A r \in Listed(rec.files) \ roles : sub.at[r] = rec.files[r]
  /\ at \in Copied => /\ subImages = {sub}
                      /\ \A r \in Listed(rec.files) : sub.at[r] = rec.files[r]
  /\ at = "barriers" => \A r \in Runtimes \ roles : old.at[r] = Tombstone(rec.attempt)
  /\ at \in {"verify", "commit"} =>
       oldImages = {old} /\ \A r \in Runtimes : old.at[r] = Tombstone(rec.attempt)
  /\ at = "commit" => Verified(rec)
  /\ at = "bring-back" =>
       /\ "journal" \notin roles => old.moving = Absent
       /\ \A r \in Runtimes \ roles : ~IsTombstone(old.at[r])
  /\ at \in {"drop-copies", "record-rollback"} => \A o \in oldImages : Undone(o)

\* What the cleanup after a commit has found and done.
CleanFacts(p) ==
  LET at == proc[p].at
      rec == proc[p].acting
      roles == proc[p].roles IN
  /\ at \in {"committed", "sync", "look-for-a-journal", "cleaned"} => rec = sub.record /\ rec.phase = "committed"
  /\ at \in {"committed", "look-for-a-journal", "clean", "record-cleanup"} =>
       sub.record.cleanup \in {"pending", "conflict"}
  /\ at \in Cleaning \cup {"admit"} \/ (at = "unlock-data" /\ proc[p].job # "aborted") =>
       \A s \in subImages : s.record.phase = "committed"
  /\ at \in {"clean", "record-cleanup"} =>
       /\ rec.phase = "committed" /\ rec.attempt = sub.record.attempt /\ rec.files = sub.record.files
       /\ rec.cleanup = "conflict" => Conflict(old, sub.record)
       /\ rec.cleanup \in {"done", "kept", "conflict"}
       /\ rec.cleanup # "conflict" =>
            /\ old.at["journal"] = Absent
            /\ Alone /\ "localPoolState" \notin roles => old.at["localPoolState"] = Absent
            /\ "journal" \notin roles => old.moving = Absent
  /\ at = "record-cleanup" => roles = {} /\ (rec.cleanup # "conflict" => \A o \in oldImages : o.moving = Absent)

\* What a restore has staged, placed and retired.
RestoreFacts(p) ==
  LET at == proc[p].at
      rec == proc[p].acting
      roles == proc[p].roles IN
  /\ at \in Staging \cup Discarding => rec = sub.record /\ rec.phase = "restoring"
  /\ at \in Staging => \A r \in Roles : rec.set[r] = sub.at[r]
  /\ at \in {"stage", "record-staged"} => subImages = {sub}
  /\ at = "stage" => \A r \in Listed(rec.set) \ roles : old.staged[r] = rec.set[r]
  /\ at = "record-staged" => oldImages = {old} /\ \A r \in Listed(rec.set) : old.staged[r] = rec.set[r]
  /\ at = "unstage" => \A r \in Listed(rec.set) \ roles : old.staged[r] = Absent
  /\ at = "record-discard" => \A o \in oldImages, r \in Roles : o.staged[r] = Absent
  /\ at \in Placing \cup {"staged"} => rec = sub.record /\ rec.phase = "restore-staged"
  /\ at \in Placing => subImages = {sub}
  /\ at \in {"place-data", "place-barriers"} => \A r \in Roles \ roles : Settled(old, rec, r)
  /\ at = "place-barriers" => \A o \in oldImages : ~Waits(o, rec, "localPoolState")
  /\ at = "record-restored" => oldImages = {old} /\ \A r \in Roles : Settled(old, rec, r)
  /\ at \in Retiring => rec = sub.record /\ rec.phase = "restored"
  /\ at \in {"retire", "record-retired"} => \A s \in subImages : s.record.phase = "restored"

\* The inductive invariant.
LayoutInv ==
  /\ LayoutTypes
  /\ AllRecover
  /\ PlacedFirst
  /\ Behind
  /\ Homes
  /\ Tokens
  /\ Olders
  /\ \A p \in Procs : Refreshing(p) /\ Holding(p) /\ MoveFacts(p) /\ CleanFacts(p) /\ RestoreFacts(p)

---------------------------------------------------------------------------
(* What does not change.                                                   *)

\* All that is known of a process at its stage.
Facts(p) == Holding(p) /\ MoveFacts(p) /\ CleanFacts(p) /\ RestoreFacts(p)

\* A pair of folders recovers as long as the stored credential stays.
LEMMA PairKeeps ==
  ASSUME NEW o, NEW s, token.saved' = token.saved, Recovers(o, s)
  PROVE  Recovers(o, s)'
BY DEF Recovers, Undone, OldComplete, MidMove, SubComplete, MidRestore, Nothing

\* The folders as they were.
FoldersStay == UNCHANGED folders /\ token.saved' = token.saved /\ older' = older

\* Where the folders stay, so does what is said of them.
LEMMA FoldersKeep ==
  ASSUME FoldersStay, AllRecover, PlacedFirst, Behind
  PROVE  AllRecover' /\ PlacedFirst' /\ Behind'
<1>1. AllRecover'
  BY PairKeeps DEF FoldersStay, folders, AllRecover
<1>2. PlacedFirst' /\ Behind'
  BY DEF FoldersStay, folders, PlacedFirst, Behind
<1> QED BY <1>1, <1>2

\* One process at a time is at a stage of the layout lock.
LEMMA LocksApart ==
  ASSUME NEW p \in Procs, NEW q \in Procs, p # q, Holding(p), owner["layout"] = q
  PROVE  proc[p].at \in LayoutStages => proc[p].at \in {"decide", "restore-decide"}
BY DEF Holding

\* Nobody takes a lock from another.
LEMMA HoldingKeeps ==
  ASSUME NEW p \in Procs, Holding(p), proc'[p] = proc[p],
         \A l \in Locks : owner[l] = p => owner'[l] = p
  PROVE  Holding(p)'
<1>1. "layout" \in Locks /\ "oldRow" \in Locks
  BY DEF Locks
<1> QED BY <1>1 DEF Holding, Serves

\* What a process knows stays true while the folders stay.
LEMMA FactsKeepQuiet ==
  ASSUME NEW p \in Procs, Facts(p), FoldersStay, proc'[p] = proc[p]
  PROVE  MoveFacts(p)' /\ CleanFacts(p)' /\ RestoreFacts(p)'
<1>1. MoveFacts(p)'
  BY DEF Facts, FoldersStay, folders, MoveFacts, Undone, OldComplete, Pointed, Verified
<1>2. CleanFacts(p)'
  BY DEF Facts, FoldersStay, folders, CleanFacts, Conflict, SecondCopy
<1>3. RestoreFacts(p)'
  BY DEF Facts, FoldersStay, folders, RestoreFacts
<1> QED BY <1>1, <1>2, <1>3

\* The stages of which something is known of the files.
FactStages ==
  Moving \cup Undoing \cup Cleaning \cup Staging \cup Discarding \cup Placing \cup Retiring
    \cup {"committed", "sync", "admit", "unlock-data", "staged"}

\* At the other stages nothing is known of the files.
LEMMA NoFacts ==
  ASSUME NEW p \in Procs, proc'[p].at \notin FactStages
  PROVE  MoveFacts(p)' /\ CleanFacts(p)' /\ RestoreFacts(p)'
<1> USE DEF FactStages, Moving, Copied, Undoing, Cleaning, Staging, Discarding, Placing, Retiring
<1>1. MoveFacts(p)'
  BY DEF MoveFacts
<1>2. CleanFacts(p)'
  BY DEF CleanFacts
<1>3. RestoreFacts(p)'
  BY DEF RestoreFacts
<1> QED BY <1>1, <1>2, <1>3

\* Who does not hold the layout lock knows nothing of the files.
LEMMA FactsKeepBeside ==
  ASSUME NEW p \in Procs, NEW q \in Procs, p # q, Facts(p), proc'[p] = proc[p], owner["layout"] = q
  PROVE  MoveFacts(p)' /\ CleanFacts(p)' /\ RestoreFacts(p)'
<1>1. proc'[p].at \notin FactStages
  BY LocksApart DEF Facts, FactStages, LayoutStages, OldRowStages, Moving, Copied, Undoing, Cleaning,
     Staging, Discarding, Placing, Retiring
<1> QED BY <1>1, NoFacts

\* A process that keeps its place and its locks keeps what it knows, if the
\* folders stay or another holds the layout lock.
LEMMA OthersKeep ==
  ASSUME NEW p \in Procs, NEW q \in Procs, p # q, Facts(p), proc'[p] = proc[p],
         \A l \in Locks : owner[l] = p => owner'[l] = p,
         FoldersStay \/ owner["layout"] = q
  PROVE  Facts(p)'
BY HoldingKeeps, FactsKeepQuiet, FactsKeepBeside DEF Facts

---------------------------------------------------------------------------
(* Steps that change neither folder.                                       *)

\* What a step of q leaves to the others.
OthersStay(q) ==
  /\ DOMAIN owner' = Locks /\ owner' = [l \in Locks |-> owner'[l]]
  /\ DOMAIN proc' = Procs /\ proc' = [p \in Procs |-> proc'[p]]
  /\ registered' = [old |-> registered'.old, sub |-> registered'.sub]
  /\ \A p \in Procs \ {q} : proc'[p] = proc[p]
  /\ \A p \in Procs \ {q}, l \in Locks : owner[l] = p => owner'[l] = p
  /\ older = "refreshing" /\ owner["oldRow"] = Nobody => owner'["oldRow"] = Nobody

\* The record is a commit that no power loss takes back.
CommitHolds ==
  /\ sub.record.phase = "committed"
  /\ \A s \in subImages : s.record.phase \in {"committed", "restoring"}

\* A step of q that changes neither folder.
LEMMA QuietStep ==
  ASSUME LayoutInv, NEW q \in Procs, FoldersStay, token' = token, used' \in Counters, OthersStay(q),
         Shape(proc'[q]), IsRecord(proc'[q].acting), proc'[q].inflight = 0, proc[q].inflight = 0,
         registered.sub \ {q} \subseteq registered'.sub,
         registered'.sub \subseteq registered.sub \/ CommitHolds,
         proc'[q].mode = "home" => q \in registered'.sub,
         Facts(q)'
  PROVE  LayoutInv'
<1>1. LayoutTypes'
  <2>1. \A p \in Procs : Shape(proc'[p]) /\ IsRecord(proc'[p].acting) /\ proc'[p].inflight \in Nat
    BY DEF LayoutInv, LayoutTypes, OthersStay
  <2> QED BY <2>1 DEF LayoutInv, LayoutTypes, OthersStay, FoldersStay, folders
<1>2. AllRecover' /\ PlacedFirst' /\ Behind'
  BY FoldersKeep DEF LayoutInv
<1>3. Homes'
  BY DEF LayoutInv, Homes, CommitHolds, FoldersStay, folders, OthersStay
<1>4. Tokens'
  BY DEF LayoutInv, Tokens, OthersStay
<1>5. ASSUME NEW p \in Procs PROVE Refreshing(p)' /\ Facts(p)'
  <2>1. CASE p = q
    BY <2>1 DEF Refreshing
  <2>2. CASE p # q
    <3>1. Facts(p)'
      BY <2>2, OthersKeep DEF LayoutInv, Facts, OthersStay
    <3>2. RowLock(proc[p].mode) \in Locks
      BY DEF RowLock, Locks
    <3>3. Refreshing(p)'
      BY <2>2, <3>2 DEF LayoutInv, Refreshing, OthersStay, FoldersStay, folders, Serves, RowLock, Usable,
         HomeUsable, LegacyUsable, Conflict, SecondCopy
    <3> QED BY <3>1, <3>3
  <2> QED BY <2>1, <2>2
<1>6. Olders'
  BY DEF LayoutInv, Olders, OthersStay, FoldersStay, folders, LegacyUsable, Waits
<1> QED BY <1>1, <1>2, <1>3, <1>4, <1>5, <1>6 DEF LayoutInv, Facts

\* What a release of locks leaves to the others.
LEMMA Freed ==
  ASSUME NEW q \in Procs, NEW S, LayoutAssumption, owner' = Free(q, S)
  PROVE  /\ DOMAIN owner' = Locks /\ owner' = [l \in Locks |-> owner'[l]]
         /\ \A p \in Procs \ {q}, l \in Locks : owner[l] = p => owner'[l] = p
         /\ \A l \in Locks \ S : owner'[l] = owner[l]
         /\ owner["oldRow"] = Nobody => owner'["oldRow"] = Nobody
BY DEF Free, Locks

\* A process that is down or serves knows nothing of the files.
LEMMA NoStage ==
  ASSUME NEW q \in Procs, proc'[q].at = "none", proc'[q].job = "none", proc'[q].wants = {},
         proc'[q].mode \in {"down", "legacy", "home"}
  PROVE  Facts(q)'
<1>1. proc'[q].at \notin FactStages
  BY DEF FactStages, Moving, Undoing, Cleaning, Staging, Discarding, Placing, Retiring
<1>2. Holding(q)'
  BY DEF Holding, LayoutStages, OldRowStages, Moving, Copied, Undoing, Cleaning, Staging, Discarding,
     Placing, Retiring, Serves
<1> QED BY <1>1, <1>2, NoFacts DEF Facts

\* A process that is down.
LEMMA DownShape ==
  ASSUME NEW w
  PROVE  Shape(Down(w)) /\ IsRecord(NoRecord) /\ Down(w).acting = NoRecord /\ Down(w).inflight = 0
         /\ Down(w).at = "none" /\ Down(w).job = "none" /\ Down(w).wants = {} /\ Down(w).mode = "down"
<1>1. IsRecord(NoRecord)
  BY DEF IsRecord, LayoutRecords, NoRecord, NoFiles, Phases, Cleanups, Absent, Roles
<1> QED BY <1>1 DEF Shape, Fields, Down

Refused(q) == \E w : Refuse(q, w)

\* A process that refuses goes down.
LEMMA RefusedStep ==
  ASSUME LayoutInv, LayoutAssumption, NEW q \in Procs, FoldersStay, token' = token, UNCHANGED <<registered, used>>,
         proc[q].inflight = 0, Refused(q)
  PROVE  LayoutInv'
<1>1. PICK w : Refuse(q, w)
  BY DEF Refused
<1>2. OthersStay(q) /\ proc'[q] = Down(w)
  BY <1>1, Freed DEF Refuse, OthersStay, LayoutInv, LayoutTypes
<1>3. Facts(q)'
  BY <1>2, NoStage, DownShape
<1>4. used' \in Counters
  BY DEF LayoutInv, LayoutTypes
<1> QED BY <1>2, <1>3, <1>4, DownShape, QuietStep

\* Starting over, with no lock.
FreeStages == {"look", "read-pointers", "survey", "stay-moving-off", "stay", "admit-cleaned-up"}

\* At a stage that needs no lock nothing is known.
LEMMA FreeStage ==
  ASSUME NEW q \in Procs, proc'[q].at \in FreeStages, "layout" \notin proc'[q].wants,
         proc'[q].mode \notin {"legacy", "home", "down"}, proc'[q].job \notin {"moving", "clean"}
  PROVE  Facts(q)'
<1>1. proc'[q].at \notin FactStages
  BY DEF FreeStages, FactStages, Moving, Undoing, Cleaning, Staging, Discarding, Placing, Retiring
<1>2. Holding(q)'
  BY DEF Holding, FreeStages, LayoutStages, OldRowStages, Moving, Copied, Undoing, Cleaning, Staging,
     Discarding, Placing, Retiring, Serves
<1> QED BY <1>1, <1>2, NoFacts DEF Facts

\* Waiting for the layout lock.
LEMMA LockStage ==
  ASSUME NEW q \in Procs, proc'[q].at \in {"decide", "restore-decide"}, "layout" \in proc'[q].wants,
         proc'[q].mode \notin {"legacy", "home", "down"}, proc'[q].job \notin {"moving", "clean"}
  PROVE  Facts(q)'
<1>1. proc'[q].at \notin FactStages
  BY DEF FactStages, Moving, Undoing, Cleaning, Staging, Discarding, Placing, Retiring
<1>2. Holding(q)'
  BY DEF Holding, LayoutStages, OldRowStages, Moving, Copied, Undoing, Cleaning, Staging,
     Discarding, Placing, Retiring, Serves
<1> QED BY <1>1, <1>2, NoFacts DEF Facts

---------------------------------------------------------------------------
(* The steps of a decision.                                                *)

\* A process that works at a stage has no refresh under way.
LEMMA Working ==
  ASSUME LayoutInv, NEW q \in Procs, proc[q].at # "none"
  PROVE  proc[q].inflight = 0 /\ ~Serves(q) /\ proc[q].mode # "down"
BY DEF LayoutInv, Holding, Refreshing

\* A process that is down has no refresh under way.
LEMMA Downed ==
  ASSUME LayoutInv, NEW q \in Procs, proc[q].mode = "down"
  PROVE  proc[q].inflight = 0
BY DEF LayoutInv, Refreshing, Serves

\* What Act leaves.
LEMMA Acted ==
  ASSUME LayoutTypes, NEW q \in Procs, NEW job, NEW rec, NEW stage, NEW locks, Act(q, job, rec, stage, locks)
  PROVE  /\ DOMAIN proc' = Procs /\ proc' = [p \in Procs |-> proc'[p]]
         /\ \A p \in Procs \ {q} : proc'[p] = proc[p]
         /\ Shape(proc'[q])
         /\ proc'[q].mode = proc[q].mode /\ proc'[q].inflight = proc[q].inflight
         /\ proc'[q].job = job /\ proc'[q].acting = rec /\ proc'[q].at = stage /\ proc'[q].wants = locks
         /\ proc'[q].roles = StageFiles(q, stage, rec)
<1> DEFINE roles == StageFiles(q, stage, rec)
           x == [proc[q] EXCEPT !.job = job, !.acting = rec, !.at = stage, !.wants = locks, !.roles = roles]
<1>1. Shape(proc[q]) /\ q \in DOMAIN proc
  BY DEF LayoutTypes
<1>2. proc' = [proc EXCEPT ![q] = x]
  BY <1>1 DEF Act
<1> HIDE DEF roles
<1>3. /\ Shape(x) /\ x.mode = proc[q].mode /\ x.inflight = proc[q].inflight
      /\ x.job = job /\ x.acting = rec /\ x.at = stage /\ x.wants = locks /\ x.roles = roles
  BY <1>1 DEF Shape, Fields
<1> HIDE DEF x
<1>4. proc'[q] = x /\ DOMAIN proc' = Procs /\ proc' = [p \in Procs |-> proc'[p]]
      /\ \A p \in Procs \ {q} : proc'[p] = proc[p]
  BY <1>2 DEF LayoutTypes
<1> QED BY <1>3, <1>4 DEF roles

\* A working process goes on to a stage of which it knows what it must.
LEMMA ActStep ==
  ASSUME LayoutInv, NEW q \in Procs, proc[q].at # "none",
         NEW job, NEW rec, NEW stage, NEW locks, Act(q, job, rec, stage, locks), IsRecord(rec),
         FoldersStay, token' = token, UNCHANGED <<registered, used>>,
         DOMAIN owner' = Locks, owner' = [l \in Locks |-> owner'[l]],
         \A p \in Procs \ {q}, l \in Locks : owner[l] = p => owner'[l] = p,
         owner["oldRow"] = Nobody => owner'["oldRow"] = Nobody,
         Facts(q)'
  PROVE  LayoutInv'
<1>1. OthersStay(q)
  BY Acted DEF LayoutInv, LayoutTypes, OthersStay
<1>2. /\ Shape(proc'[q]) /\ IsRecord(proc'[q].acting) /\ proc'[q].inflight = 0
      /\ proc[q].inflight = 0 /\ proc'[q].mode # "home"
  BY Acted, Working DEF LayoutInv, Serves
<1>3. used' \in Counters
  BY DEF LayoutInv, LayoutTypes
<1> QED BY <1>1, <1>2, <1>3, QuietStep

\* A process that begins.
LEMMA BegunShape ==
  ASSUME NEW mode, NEW job, NEW stage, NEW locks
  PROVE  /\ Shape(Begun(mode, job, stage, locks)) /\ IsRecord(NoRecord)
         /\ Begun(mode, job, stage, locks).acting = NoRecord /\ Begun(mode, job, stage, locks).inflight = 0
         /\ Begun(mode, job, stage, locks).mode = mode /\ Begun(mode, job, stage, locks).job = job
         /\ Begun(mode, job, stage, locks).at = stage /\ Begun(mode, job, stage, locks).wants = locks
<1> DEFINE y == Down("none")
<1>1. Shape(y) /\ y.acting = NoRecord /\ IsRecord(NoRecord) /\ y.inflight = 0
  BY DownShape
<1> HIDE DEF y
<1> QED BY <1>1 DEF Begun, Shape, Fields, y

\* What starting over leaves.
LEMMA StartedOver ==
  ASSUME LayoutInv, LayoutAssumption, NEW q \in Procs, NEW stage, NEW locks, StartOver(q, stage, locks),
         UNCHANGED registered
  PROVE  /\ OthersStay(q) /\ Shape(proc'[q]) /\ proc'[q].acting = NoRecord /\ proc'[q].inflight = 0
         /\ proc'[q].mode = "deciding" /\ proc'[q].job = "start" /\ proc'[q].at = stage
         /\ proc'[q].wants = locks /\ IsRecord(NoRecord)
<1> DEFINE y == Begun("deciding", "start", stage, locks)
           x == [y EXCEPT !.pointed = proc[q].pointed]
<1>1. /\ Shape(y) /\ y.acting = NoRecord /\ IsRecord(NoRecord) /\ y.inflight = 0 /\ y.mode = "deciding"
      /\ y.job = "start" /\ y.at = stage /\ y.wants = locks
  BY BegunShape
<1>2. proc' = [proc EXCEPT ![q] = x] /\ owner' = Free(q, Locks)
  BY DEF StartOver
<1> HIDE DEF y
<1>3. /\ Shape(x) /\ x.acting = NoRecord /\ x.inflight = 0 /\ x.mode = "deciding"
      /\ x.job = "start" /\ x.at = stage /\ x.wants = locks
  BY <1>1 DEF Shape, Fields
<1> HIDE DEF x
<1>4. OthersStay(q) /\ proc'[q] = x
  BY <1>2, Freed DEF OthersStay, LayoutInv, LayoutTypes
<1> QED BY <1>1, <1>3, <1>4

\* A process may start over at any stage.
LEMMA StartOverStep ==
  ASSUME LayoutInv, LayoutAssumption, NEW q \in Procs, proc[q].at # "none", NEW stage, NEW locks,
         StartOver(q, stage, locks),
         \/ stage = "decide" /\ locks = {"layout"}
         \/ stage \in {"survey", "read-pointers"} /\ locks = {},
         FoldersStay, token' = token, UNCHANGED <<registered, used>>
  PROVE  LayoutInv'
<1>1. /\ OthersStay(q) /\ Shape(proc'[q]) /\ proc'[q].acting = NoRecord /\ proc'[q].inflight = 0
      /\ proc'[q].mode = "deciding" /\ proc'[q].job = "start" /\ proc'[q].at = stage
      /\ proc'[q].wants = locks /\ IsRecord(NoRecord)
  BY StartedOver
<1>2. Facts(q)'
  BY <1>1, FreeStage, LockStage DEF FreeStages
<1>3. used' \in Counters /\ proc[q].inflight = 0
  BY Working DEF LayoutInv, LayoutTypes
<1> QED BY <1>1, <1>2, <1>3, QuietStep

\* So may one that decides again.
LEMMA RestartStep ==
  ASSUME LayoutInv, LayoutAssumption, NEW q \in Procs, proc[q].at # "none",
         Restart(q) \/ Rethink(q), FoldersStay, token' = token, UNCHANGED <<registered, used>>
  PROVE  LayoutInv'
BY StartOverStep DEF Restart, Rethink

\* A process starts to serve from the old folder.
LEMMA ServeLegacyStep ==
  ASSUME LayoutInv, LayoutAssumption, NEW q \in Procs, proc[q].at # "none", NEW registers,
         ServeLegacy(q, registers), FoldersStay, token' = token, UNCHANGED used
  PROVE  LayoutInv'
<1> DEFINE y == Down("none")
           x == [y EXCEPT !.mode = "legacy"]
<1>1. /\ Shape(y) /\ y.acting = NoRecord /\ IsRecord(NoRecord) /\ y.inflight = 0
      /\ y.job = "none" /\ y.at = "none" /\ y.wants = {}
  BY DownShape
<1>6. proc' = [proc EXCEPT ![q] = x] /\ owner' = Free(q, Locks)
  BY DEF ServeLegacy
<1> HIDE DEF y, x
<1>7. registered' = [old |-> registered'.old, sub |-> registered'.sub] /\ registered'.sub = registered.sub
  BY DEF ServeLegacy, LayoutInv, LayoutTypes
<1>2. OthersStay(q) /\ proc'[q] = x
  BY <1>6, <1>7, Freed DEF OthersStay, LayoutInv, LayoutTypes
<1>5. /\ Shape(x) /\ x.acting = NoRecord /\ x.inflight = 0 /\ x.mode = "legacy"
      /\ x.job = "none" /\ x.at = "none" /\ x.wants = {}
  BY <1>1 DEF Shape, Fields, x
<1>3. Facts(q)'
  BY <1>5, <1>2, NoStage
<1>4. used' \in Counters /\ proc[q].inflight = 0
  BY Working DEF LayoutInv, LayoutTypes
<1> HIDE DEF x
<1> QED BY <1>1, <1>2, <1>3, <1>4, <1>5, <1>7, QuietStep

\* A start that settles: without the refresh and data locks, at a stage that
\* needs to know at most that the commit is durable.
LEMMA SettledShape ==
  ASSUME LayoutInv, LayoutAssumption, NEW q \in Procs, NEW stage, Settle(q, stage)
  PROVE  /\ Act(q, "start", NoRecord, stage, {})
         /\ proc'[q].at = stage /\ proc'[q].wants = {} /\ proc'[q].job = "start"
         /\ proc'[q].mode = proc[q].mode
         /\ DOMAIN owner' = Locks /\ owner' = [l \in Locks |-> owner'[l]]
         /\ \A p \in Procs \ {q}, l \in Locks : owner[l] = p => owner'[l] = p
         /\ owner'["layout"] = owner["layout"]
         /\ owner["oldRow"] = Nobody => owner'["oldRow"] = Nobody
<1>1. Act(q, "start", NoRecord, stage, {}) /\ owner' = Free(q, RefreshAndDataLocks)
  BY DEF Settle
<1>2. "layout" \in Locks \ RefreshAndDataLocks
  BY DEF Locks, RefreshAndDataLocks
<1>3. /\ proc'[q].at = stage /\ proc'[q].wants = {} /\ proc'[q].job = "start"
      /\ proc'[q].mode = proc[q].mode
  BY <1>1, Acted DEF LayoutInv
<1> QED BY <1>1, <1>2, <1>3, Freed

\* A decision that is reached.
LEMMA SettleStep ==
  ASSUME LayoutInv, LayoutAssumption, NEW q \in Procs, proc[q].at # "none", NEW stage, Settle(q, stage),
         stage = "stay" \/ (stage = "admit" /\ owner["layout"] = q /\ \A s \in subImages : s.record.phase = "committed"),
         FoldersStay, token' = token, UNCHANGED <<registered, used>>
  PROVE  LayoutInv'
<1>1. /\ Act(q, "start", NoRecord, stage, {})
      /\ proc'[q].at = stage /\ proc'[q].wants = {} /\ proc'[q].job = "start"
      /\ proc'[q].mode = proc[q].mode
      /\ DOMAIN owner' = Locks /\ owner' = [l \in Locks |-> owner'[l]]
      /\ \A p \in Procs \ {q}, l \in Locks : owner[l] = p => owner'[l] = p
      /\ owner'["layout"] = owner["layout"]
      /\ owner["oldRow"] = Nobody => owner'["oldRow"] = Nobody
  BY SettledShape
<1>2. Holding(q)'
  <2> USE DEF LayoutStages, OldRowStages, Moving, Copied, Undoing, Cleaning, Staging, Discarding, Placing,
       Retiring
  <2> QED BY <1>1, Working DEF Holding, Serves
<1>3. MoveFacts(q)' /\ CleanFacts(q)' /\ RestoreFacts(q)'
  <2> USE DEF FactStages, Moving, Copied, Undoing, Cleaning, Staging, Discarding, Placing, Retiring
  <2> QED BY <1>1 DEF MoveFacts, CleanFacts, RestoreFacts, FoldersStay, folders
<1> QED BY <1>1, <1>2, <1>3, ActStep, DownShape DEF Facts

\* Who is at a stage of the layout lock and does not wait for it holds it.
LEMMA OnLayout ==
  ASSUME LayoutInv, NEW q \in Procs, proc[q].at \in LayoutStages, "layout" \notin proc[q].wants
  PROVE  proc[q].at # "none" /\ owner["layout"] = q
BY DEF LayoutInv, Holding, LayoutStages, OldRowStages, Moving, Copied, Undoing, Cleaning, Staging, Discarding,
   Placing, Retiring

\* A process that was down begins a start or a restore.
LEMMA BeginStep ==
  ASSUME LayoutInv, NEW q \in Procs, proc[q].mode = "down", NEW x, proc' = [proc EXCEPT ![q] = x],
         Shape(x), x.acting = NoRecord, x.inflight = 0, x.mode = "deciding" \/ x.mode = "restoring",
         FoldersStay, token' = token, UNCHANGED <<owner, registered>>, used' \in Counters,
         proc'[q] = x => Facts(q)'
  PROVE  LayoutInv'
<1>1. OthersStay(q) /\ proc'[q] = x
  BY DEF OthersStay, LayoutInv, LayoutTypes
<1>2. proc[q].inflight = 0 /\ IsRecord(NoRecord)
  BY Downed, DownShape
<1> QED BY <1>1, <1>2, QuietStep

\* The counters of starts and restores stay numbers.
LEMMA UsedMoves ==
  ASSUME LayoutInv, used' = [used EXCEPT !.starts = @ + 1] \/ used' = [used EXCEPT !.restores = @ + 1]
  PROVE  used' \in Counters
BY DEF LayoutInv, LayoutTypes, Counters

LEMMA StartHolds ==
  ASSUME LayoutInv, LayoutAssumption, NEW q \in Procs, Start(q)
  PROVE  LayoutInv'
<1> DEFINE locks == {}
           x == Begun("deciding", "start", "look", locks)
<1>1. /\ proc[q].mode = "down" /\ proc' = [proc EXCEPT ![q] = x]
      /\ FoldersStay /\ token' = token /\ UNCHANGED <<owner, registered>>
      /\ used' = [used EXCEPT !.starts = @ + 1]
  BY DEF Start, FoldersStay
<1> HIDE DEF locks
<1>2. /\ Shape(x) /\ x.acting = NoRecord /\ x.inflight = 0 /\ x.mode = "deciding"
      /\ x.job = "start" /\ x.at = "look" /\ x.wants = locks
  BY BegunShape
<1> HIDE DEF x
<1>3. proc'[q] = x => Facts(q)'
  BY <1>2, FreeStage DEF FreeStages, locks
<1>4. used' \in Counters
  BY <1>1, UsedMoves
<1> QED BY <1>1, <1>2, <1>3, <1>4, BeginStep

LEMMA StartRestoreHolds ==
  ASSUME LayoutInv, LayoutAssumption, NEW q \in Procs, StartRestore(q)
  PROVE  LayoutInv'
<1> DEFINE locks == HolderLocks \cup {"layout", "oldData"}
           x == Begun("restoring", "restore", "restore-decide", locks)
<1>1. /\ proc[q].mode = "down" /\ proc' = [proc EXCEPT ![q] = x]
      /\ FoldersStay /\ token' = token /\ UNCHANGED <<owner, registered>>
      /\ used' = [used EXCEPT !.restores = @ + 1]
      /\ "layout" \in locks
  BY DEF StartRestore, FoldersStay
<1> HIDE DEF locks
<1>2. /\ Shape(x) /\ x.acting = NoRecord /\ x.inflight = 0 /\ x.mode = "restoring"
      /\ x.job = "restore" /\ x.at = "restore-decide" /\ x.wants = locks
  BY BegunShape
<1> HIDE DEF x
<1>3. proc'[q] = x => Facts(q)'
  BY <1>1, <1>2, LockStage
<1>4. used' \in Counters
  BY <1>1, UsedMoves
<1> QED BY <1>1, <1>2, <1>3, <1>4, BeginStep

\* The locks a process that acts has to hold.
LEMMA ActHolding ==
  ASSUME LayoutInv, NEW q \in Procs, proc[q].at # "none",
         NEW job, NEW rec, NEW stage, NEW locks, Act(q, job, rec, stage, locks), stage # "none",
         job = "moving" => stage \in {"copy"} \cup Copied,
         job = "clean" => stage \in {"clean", "record-cleanup", "cleaned", "unlock-data"},
         "layout" \in locks => stage \in {"decide", "restore-decide"},
         stage \in LayoutStages /\ "layout" \notin locks => owner'["layout"] = q,
         stage \in OldRowStages /\ "oldRow" \notin locks => owner'["oldRow"] = q
  PROVE  Holding(q)'
<1>1. /\ proc'[q].at = stage /\ proc'[q].wants = locks /\ proc'[q].job = job
      /\ proc'[q].mode = proc[q].mode
  BY Acted DEF LayoutInv
<1>2. ~Serves(q)' /\ proc'[q].mode # "down"
  BY <1>1, Working DEF Serves
<1> QED BY <1>1, <1>2 DEF Holding

\* A stage of which nothing is known of the files.
LEMMA GoStep ==
  ASSUME LayoutInv, NEW q \in Procs, proc[q].at # "none",
         NEW job, NEW rec, NEW stage, NEW locks, Act(q, job, rec, stage, locks), IsRecord(rec),
         stage \notin FactStages, Holding(q)',
         FoldersStay, token' = token, UNCHANGED <<owner, registered, used>>
  PROVE  LayoutInv'
<1>1. proc'[q].at = stage
  BY Acted DEF LayoutInv
<1>2. Facts(q)'
  BY <1>1, NoFacts DEF Facts
<1>3. DOMAIN owner' = Locks /\ owner' = [l \in Locks |-> owner'[l]]
  BY DEF LayoutInv, LayoutTypes
<1> QED BY <1>2, <1>3, ActStep

LEMMA LookHolds ==
  ASSUME LayoutInv, LayoutAssumption, NEW q \in Procs, Look(q)
  PROVE  LayoutInv'
<1>1. /\ proc[q].at = "look" /\ FoldersStay /\ token' = token /\ UNCHANGED <<owner, registered, used>>
      /\ IsRecord(proc[q].acting) /\ IsRecord(NoRecord)
  BY DownShape DEF Look, At, FoldersStay, LayoutInv, LayoutTypes
<1>2. proc[q].job \notin {"moving", "clean"}
  BY <1>1 DEF LayoutInv, Holding, Copied
<1>3. "stay-moving-off" \notin FactStages \cup LayoutStages /\ "read-pointers" \notin FactStages \cup LayoutStages
  BY DEF FactStages, LayoutStages, OldRowStages, Moving, Copied, Undoing, Cleaning, Staging, Discarding,
     Placing, Retiring
<1>4. OldRowStages \subseteq LayoutStages
  BY DEF LayoutStages
<1>5. CASE Act(q, "start", NoRecord, "stay-moving-off", {"oldHolders"})
  <2>1. Holding(q)'
    BY <1>1, <1>3, <1>4, <1>5, ActHolding
  <2> QED BY <1>1, <1>3, <1>5, <2>1, GoStep
<1>6. CASE Act(q, proc[q].job, proc[q].acting, "read-pointers", {})
  <2>1. Holding(q)'
    BY <1>1, <1>2, <1>3, <1>4, <1>6, ActHolding
  <2> QED BY <1>1, <1>3, <1>6, <2>1, GoStep
<1> QED BY <1>5, <1>6 DEF Look, GoOn

LEMMA ReadPointersHolds ==
  ASSUME LayoutInv, LayoutAssumption, NEW q \in Procs, ReadPointers(q)
  PROVE  LayoutInv'
<1> DEFINE b == Pointed(old)
           x == [proc[q] EXCEPT !.pointed = b, !.at = "survey"]
<1>1. /\ proc[q].at = "read-pointers" /\ proc[q].wants = {} /\ FoldersStay /\ token' = token
      /\ UNCHANGED <<owner, registered, used>> /\ Shape(proc[q]) /\ IsRecord(proc[q].acting)
      /\ used' \in Counters
  BY DEF ReadPointers, At, FoldersStay, LayoutInv, LayoutTypes
<1>2. proc' = [proc EXCEPT ![q] = x]
  BY DEF ReadPointers, LayoutInv, LayoutTypes
<1> HIDE DEF b
<1>3. /\ Shape(x) /\ x.at = "survey" /\ x.wants = proc[q].wants /\ x.job = proc[q].job
      /\ x.mode = proc[q].mode /\ x.acting = proc[q].acting /\ x.inflight = proc[q].inflight
  BY <1>1 DEF Shape, Fields
<1> HIDE DEF x
<1>4. OthersStay(q) /\ proc'[q] = x
  BY <1>1, <1>2 DEF OthersStay, LayoutInv, LayoutTypes
<1>5. proc[q].inflight = 0 /\ proc[q].mode \notin {"legacy", "home", "down"}
  BY <1>1, Working DEF Serves
<1>6. proc[q].job \notin {"moving", "clean"}
  BY <1>1 DEF LayoutInv, Holding, Copied
<1>7. Facts(q)'
  BY <1>1, <1>3, <1>4, <1>5, <1>6, FreeStage DEF FreeStages
<1> QED BY <1>1, <1>3, <1>4, <1>5, <1>7, QuietStep

LEMMA SurveyHolds ==
  ASSUME LayoutInv, LayoutAssumption, NEW q \in Procs, Survey(q)
  PROVE  LayoutInv'
<1>1. /\ proc[q].at = "survey" /\ FoldersStay /\ token' = token /\ UNCHANGED <<registered, used>>
      /\ IsRecord(NoRecord) /\ proc[q].inflight = 0
  BY DownShape, Working DEF Survey, At, FoldersStay
<1>2. CASE Refuse(q, "marker-unreadable") \/ Refuse(q, "restore-unfinished")
  BY <1>1, <1>2, RefusedStep DEF Refused
<1>3. {"admit-cleaned-up", "stay", "decide"} \cap FactStages = {}
  BY DEF FactStages, Moving, Copied, Undoing, Cleaning, Staging, Discarding, Placing, Retiring
<1>4. "admit-cleaned-up" \notin LayoutStages \cup OldRowStages /\ "stay" \notin LayoutStages \cup OldRowStages
      /\ "decide" \notin OldRowStages
  BY DEF LayoutStages, OldRowStages, Moving, Copied, Undoing, Cleaning, Staging, Discarding, Placing, Retiring
<1>5. CASE Act(q, "start", NoRecord, "admit-cleaned-up", {"subHolders"}) /\ UNCHANGED owner
  <2>1. Holding(q)'
    BY <1>1, <1>4, <1>5, ActHolding
  <2> QED BY <1>1, <1>3, <1>5, <2>1, GoStep
<1>6. CASE Act(q, "start", NoRecord, "stay", {"oldHolders"}) /\ UNCHANGED owner
  <2>1. Holding(q)'
    BY <1>1, <1>4, <1>6, ActHolding
  <2> QED BY <1>1, <1>3, <1>6, <2>1, GoStep
<1>7. CASE Act(q, "start", NoRecord, "decide", {"layout"}) /\ UNCHANGED owner
  <2>1. Holding(q)'
    BY <1>1, <1>4, <1>7, ActHolding
  <2> QED BY <1>1, <1>3, <1>7, <2>1, GoStep
<1> QED BY <1>2, <1>5, <1>6, <1>7 DEF Survey

LEMMA TakeLockHolds ==
  ASSUME LayoutInv, LayoutAssumption, NEW q \in Procs, TakeLock(q)
  PROVE  LayoutInv'
<1>1. PICK l \in Locks : /\ WaitsFor(q, l) /\ Unlocked(l)
                         /\ owner' = [owner EXCEPT ![l] = q]
                         /\ proc' = [proc EXCEPT ![q].wants = @ \ {l}]
  BY DEF TakeLock
<1> DEFINE w == proc[q].wants \ {l}
           x == [proc[q] EXCEPT !.wants = w]
<1>2. /\ FoldersStay /\ token' = token /\ UNCHANGED <<registered, used>> /\ used' \in Counters
      /\ l \in proc[q].wants /\ owner[l] = Nobody /\ Nobody \notin Procs
      /\ l = "oldRow" => older # "refreshing"
      /\ Shape(proc[q]) /\ IsRecord(proc[q].acting)
  BY <1>1 DEF TakeLock, FoldersStay, LayoutInv, LayoutTypes, WaitsFor, Unlocked, LayoutAssumption
<1>3. proc' = [proc EXCEPT ![q] = x]
  BY <1>1 DEF LayoutInv, LayoutTypes
<1> HIDE DEF w
<1>4. /\ Shape(x) /\ x.at = proc[q].at /\ x.wants = w /\ x.job = proc[q].job /\ x.mode = proc[q].mode
      /\ x.acting = proc[q].acting /\ x.inflight = proc[q].inflight /\ x.roles = proc[q].roles
  BY <1>2 DEF Shape, Fields
<1> HIDE DEF x
<1>0. /\ DOMAIN owner' = Locks /\ owner' = [k \in Locks |-> owner'[k]]
      /\ \A p \in Procs \ {q}, k \in Locks : owner[k] = p => owner'[k] = p
      /\ l # "oldRow" => owner'["oldRow"] = owner["oldRow"]
  BY <1>1, <1>2 DEF LayoutInv, LayoutTypes
<1>5. OthersStay(q) /\ proc'[q] = x
  BY <1>0, <1>2, <1>3 DEF OthersStay, LayoutInv, LayoutTypes
<1>6. proc[q].at # "none" /\ proc[q].mode \notin {"legacy", "home", "down"}
  BY <1>2 DEF LayoutInv, Holding, Serves, LayoutStages
<1>7. proc[q].inflight = 0
  BY <1>6, Working
<1>8. Holding(q)'
  <2>1. owner'[l] = q /\ \A k \in Locks \ {l} : owner'[k] = owner[k]
    BY <1>1 DEF LayoutInv, LayoutTypes
  <2>2. "layout" \in Locks /\ "oldRow" \in Locks /\ w = proc[q].wants \ {l}
    BY DEF Locks, w
  <2>3. Holding(q)
    BY DEF LayoutInv
  <2> QED BY <1>4, <1>5, <1>6, <2>1, <2>2, <2>3 DEF Holding, Serves
<1>9. MoveFacts(q)' /\ CleanFacts(q)' /\ RestoreFacts(q)'
  <2>1. MoveFacts(q)'
    BY <1>2, <1>4, <1>5 DEF LayoutInv, FoldersStay, folders, MoveFacts, Undone, OldComplete, Pointed, Verified
  <2>2. CleanFacts(q)'
    BY <1>2, <1>4, <1>5 DEF LayoutInv, FoldersStay, folders, CleanFacts, Conflict, SecondCopy
  <2>3. RestoreFacts(q)'
    BY <1>2, <1>4, <1>5 DEF LayoutInv, FoldersStay, folders, RestoreFacts
  <2> QED BY <2>1, <2>2, <2>3
<1> QED BY <1>2, <1>4, <1>5, <1>6, <1>7, <1>8, <1>9, QuietStep DEF Facts

LEMMA StayHolds ==
  ASSUME LayoutInv, LayoutAssumption, NEW q \in Procs, Stay(q)
  PROVE  LayoutInv'
<1>1. proc[q].at = "stay" /\ FoldersStay /\ token' = token /\ UNCHANGED used /\ proc[q].inflight = 0
  BY Working DEF Stay, At, FoldersStay
<1>2. CASE Refused(q) /\ UNCHANGED registered
  BY <1>1, <1>2, RefusedStep
<1>3. CASE Rethink(q) /\ UNCHANGED registered
  BY <1>1, <1>3, RestartStep
<1>4. CASE ServeLegacy(q, TRUE) \/ ServeLegacy(q, FALSE)
  BY <1>1, <1>4, ServeLegacyStep
<1> QED BY <1>2, <1>3, <1>4 DEF Stay, Refused

LEMMA StayMovingOffHolds ==
  ASSUME LayoutInv, LayoutAssumption, NEW q \in Procs, StayMovingOff(q)
  PROVE  LayoutInv'
<1>1. proc[q].at = "stay-moving-off" /\ FoldersStay /\ token' = token /\ UNCHANGED used
  BY DEF StayMovingOff, At, FoldersStay
<1>2. CASE StartOver(q, "read-pointers", {}) /\ UNCHANGED registered
  BY <1>1, <1>2, StartOverStep
<1>3. CASE ServeLegacy(q, TRUE) \/ ServeLegacy(q, FALSE)
  BY <1>1, <1>3, ServeLegacyStep
<1> QED BY <1>2, <1>3 DEF StayMovingOff

LEMMA RegisterLateHolds ==
  ASSUME LayoutInv, LayoutAssumption, NEW q \in Procs, RegisterLate(q)
  PROVE  LayoutInv'
<1>1. /\ FoldersStay /\ token' = token /\ UNCHANGED <<used, proc, owner>>
      /\ registered' = [registered EXCEPT !.old = @ \cup {q}]
  BY DEF RegisterLate, FoldersStay
<1>2. registered'.sub = registered.sub /\ registered' = [old |-> registered'.old, sub |-> registered'.sub]
  BY <1>1 DEF LayoutInv, LayoutTypes
<1>3. LayoutTypes'
  BY <1>1, <1>2 DEF LayoutInv, LayoutTypes, FoldersStay, folders
<1>4. AllRecover' /\ PlacedFirst' /\ Behind'
  BY <1>1, FoldersKeep DEF LayoutInv
<1>5. Homes' /\ Tokens'
  BY <1>1, <1>2 DEF LayoutInv, Homes, Tokens, FoldersStay, folders
<1>6. ASSUME NEW p \in Procs PROVE Refreshing(p)' /\ Facts(p)'
  <2>1. Facts(p)'
    <3>1. Facts(p)
      BY DEF LayoutInv, Facts
    <3> QED BY <1>1, <3>1, HoldingKeeps, FactsKeepQuiet DEF Facts
  <2>2. Refreshing(p)'
    BY <1>1 DEF LayoutInv, Refreshing, FoldersStay, folders, Serves, RowLock, Usable,
       HomeUsable, LegacyUsable, Conflict, SecondCopy
  <2> QED BY <2>1, <2>2
<1>7. Olders'
  BY <1>1 DEF LayoutInv, Olders, FoldersStay, folders, LegacyUsable, Waits
<1> QED BY <1>3, <1>4, <1>5, <1>6, <1>7 DEF LayoutInv, Facts

LEMMA LockTimeoutHolds ==
  ASSUME LayoutInv, LayoutAssumption, NEW q \in Procs, LockTimeout(q)
  PROVE  LayoutInv'
<1>1. PICK l \in Locks :
       /\ WaitsFor(q, l) /\ ~Unlocked(l)
       /\ LET stage == proc[q].at
              unlocked == stage = "stay" /\ owner["layout"] # q
              served == stage = "decide" /\ CleanedUp(sub.record)
              waited == l \in RefreshAndDataLocks /\ stage \in {"prepare", "look-for-a-journal"} IN
          \/ /\ stage = "stay-moving-off"
             /\ IF Transition(old)
                THEN StartOver(q, "read-pointers", {}) /\ UNCHANGED registered
                ELSE ServeLegacy(q, FALSE)
          \/ /\ unlocked
             /\ IF q \in Movers \/ Pointed(old) \/ ~NoMove(sub.record)
                THEN Refuse(q, "busy") /\ UNCHANGED registered
                ELSE ServeLegacy(q, FALSE)
          \/ /\ served
             /\ Act(q, "start", NoRecord, "admit-cleaned-up", {"subHolders"})
             /\ UNCHANGED <<owner, registered>>
          \/ /\ waited
             /\ Settle(q, IF stage = "prepare" THEN "stay" ELSE "admit")
             /\ UNCHANGED registered
          \/ /\ stage # "stay-moving-off" /\ ~unlocked /\ ~served /\ ~waited
             /\ Refuse(q, "busy") /\ UNCHANGED registered
  BY DEF LockTimeout
<1>2. /\ FoldersStay /\ token' = token /\ UNCHANGED used /\ l \in proc[q].wants
      /\ IsRecord(NoRecord)
  BY <1>1, DownShape DEF LockTimeout, FoldersStay, WaitsFor
<1>3. proc[q].at # "none"
  BY <1>2 DEF LayoutInv, Holding, LayoutStages
<1>4. proc[q].inflight = 0
  BY <1>3, Working
<1>5. CASE Refuse(q, "busy") /\ UNCHANGED registered
  BY <1>2, <1>4, <1>5, RefusedStep DEF Refused
<1>6. CASE StartOver(q, "read-pointers", {}) /\ UNCHANGED registered
  BY <1>2, <1>3, <1>6, StartOverStep
<1>7. CASE ServeLegacy(q, FALSE)
  BY <1>2, <1>3, <1>7, ServeLegacyStep
<1>8. CASE Act(q, "start", NoRecord, "admit-cleaned-up", {"subHolders"}) /\ UNCHANGED <<owner, registered>>
  <2>1. "admit-cleaned-up" \notin FactStages /\ "admit-cleaned-up" \notin LayoutStages \cup OldRowStages
    BY DEF FactStages, LayoutStages, OldRowStages, Moving, Copied, Undoing, Cleaning, Staging, Discarding,
       Placing, Retiring
  <2>2. Holding(q)'
    BY <1>3, <1>8, <2>1, ActHolding
  <2> QED BY <1>2, <1>3, <1>8, <2>1, <2>2, GoStep
<1>9. CASE /\ l \in RefreshAndDataLocks /\ proc[q].at \in {"prepare", "look-for-a-journal"}
           /\ Settle(q, IF proc[q].at = "prepare" THEN "stay" ELSE "admit")
           /\ UNCHANGED registered
  <2>1. owner["layout"] = q
    <3>1. "layout" \notin proc[q].wants /\ proc[q].at \in LayoutStages
      BY <1>9 DEF LayoutInv, Holding, LayoutStages, OldRowStages, Cleaning
    <3> QED BY <3>1, OnLayout
  <2>2. proc[q].at = "look-for-a-journal" => \A s \in subImages : s.record.phase = "committed"
    BY DEF LayoutInv, CleanFacts, Cleaning
  <2>3. CASE proc[q].at = "prepare"
    <3>1. Settle(q, "stay")
      BY <1>9, <2>3
    <3> QED BY <1>2, <1>3, <1>9, <2>1, <3>1, SettleStep
  <2>4. CASE proc[q].at = "look-for-a-journal"
    <3>1. Settle(q, "admit")
      BY <1>9, <2>4
    <3> QED BY <1>2, <1>3, <1>9, <2>1, <2>2, <2>4, <3>1, SettleStep
  <2> QED BY <1>9, <2>3, <2>4
<1> QED BY <1>1, <1>5, <1>6, <1>7, <1>8, <1>9

LEMMA AdmitHolds ==
  ASSUME LayoutInv, LayoutAssumption, NEW q \in Procs, Admit(q)
  PROVE  LayoutInv'
<1>1. /\ proc[q].at \in {"admit", "admit-cleaned-up"} /\ FoldersStay /\ token' = token /\ UNCHANGED used
      /\ proc[q].at # "none" /\ proc[q].inflight = 0
  BY Working DEF Admit, At, FoldersStay
<1>2. CASE Refused(q) /\ UNCHANGED registered
  BY <1>1, <1>2, RefusedStep
<1>3. CASE Rethink(q) /\ UNCHANGED registered
  BY <1>1, <1>3, RestartStep
<1>4. CASE /\ sub.record.phase = "committed" /\ (proc[q].at = "admit" \/ sub.record.cleanup # "pending")
           /\ proc' = [proc EXCEPT ![q] = [Down("none") EXCEPT !.mode = "home"]]
           /\ registered' = [registered EXCEPT !.sub = @ \cup {q}]
           /\ owner' = Free(q, Locks)
  <2> DEFINE y == Down("none")
             x == [y EXCEPT !.mode = "home"]
  <2>1. /\ Shape(y) /\ y.acting = NoRecord /\ IsRecord(NoRecord) /\ y.inflight = 0
        /\ y.job = "none" /\ y.at = "none" /\ y.wants = {}
    BY DownShape
  <2>2. proc' = [proc EXCEPT ![q] = x]
    BY <1>4
  <2> HIDE DEF y
  <2>3. /\ Shape(x) /\ x.acting = NoRecord /\ x.inflight = 0 /\ x.mode = "home"
        /\ x.job = "none" /\ x.at = "none" /\ x.wants = {}
    BY <2>1 DEF Shape, Fields
  <2> HIDE DEF x
  <2>4. /\ registered' = [old |-> registered'.old, sub |-> registered'.sub]
        /\ registered'.sub = registered.sub \cup {q}
    BY <1>4 DEF LayoutInv, LayoutTypes
  <2>5. OthersStay(q) /\ proc'[q] = x
    BY <1>4, <2>2, <2>4, Freed DEF OthersStay, LayoutInv, LayoutTypes
  <2>6. CommitHolds
    BY <1>1, <1>4 DEF LayoutInv, CommitHolds, Behind, CleanFacts
  <2>7. Facts(q)'
    BY <2>3, <2>5, NoStage
  <2>8. used' \in Counters
    BY <1>1 DEF LayoutInv, LayoutTypes
  <2> QED BY <1>1, <2>1, <2>3, <2>4, <2>5, <2>6, <2>7, <2>8, QuietStep
<1> QED BY <1>2, <1>3, <1>4 DEF Admit, Refused

LEMMA FenceHolds ==
  ASSUME LayoutInv, LayoutAssumption, NEW q \in Procs, Fence(q)
  PROVE  LayoutInv'
<1>1. /\ proc[q].at = "fence" /\ proc[q].wants = {} /\ FoldersStay /\ token' = token
      /\ UNCHANGED <<owner, registered, used>>
      /\ IsRecord(proc[q].acting) /\ IsRecord(NoRecord)
  BY DownShape DEF Fence, At, FoldersStay, LayoutInv, LayoutTypes
<1>2. owner["layout"] = q /\ proc[q].job \notin {"moving", "clean"}
  BY <1>1, OnLayout DEF LayoutStages, LayoutInv, Holding, Copied
<1>3. "prepare" \notin FactStages /\ "stay" \notin FactStages \cup LayoutStages \cup OldRowStages
  BY DEF FactStages, LayoutStages, OldRowStages, Moving, Copied, Undoing, Cleaning, Staging, Discarding,
     Placing, Retiring
<1>4. CASE Act(q, "fenced", NoRecord, "prepare", RefreshAndDataLocks)
  <2>1. Holding(q)'
    BY <1>1, <1>2, <1>4, ActHolding DEF RefreshAndDataLocks
  <2> QED BY <1>1, <1>3, <1>4, <2>1, GoStep
<1>5. CASE Act(q, proc[q].job, proc[q].acting, "stay", {})
  <2>1. Holding(q)'
    BY <1>1, <1>2, <1>3, <1>5, ActHolding
  <2> QED BY <1>1, <1>3, <1>5, <2>1, GoStep
<1> QED BY <1>4, <1>5 DEF Fence, GoOn

LEMMA StartAgainHolds ==
  ASSUME LayoutInv, LayoutAssumption, NEW q \in Procs, StartAgain(q)
  PROVE  LayoutInv'
<1>1. /\ proc[q].at = "again" /\ Restart(q) /\ FoldersStay /\ token' = token /\ UNCHANGED <<registered, used>>
  BY DEF StartAgain, At, FoldersStay
<1> QED BY <1>1, RestartStep

LEMMA UnlockDataHolds ==
  ASSUME LayoutInv, LayoutAssumption, NEW q \in Procs, UnlockData(q)
  PROVE  LayoutInv'
<1>1. /\ proc[q].at = "unlock-data" /\ proc[q].wants = {} /\ FoldersStay /\ token' = token
      /\ UNCHANGED <<registered, used>>
      /\ Settle(q, IF proc[q].job = "aborted" THEN "stay" ELSE "admit")
  BY DEF UnlockData, At, FoldersStay
<1>2. owner["layout"] = q
  BY <1>1, OnLayout DEF LayoutStages
<1>3. CASE proc[q].job = "aborted"
  <2>1. Settle(q, "stay")
    BY <1>1, <1>3
  <2> QED BY <1>1, <1>2, <2>1, SettleStep
<1>4. CASE proc[q].job # "aborted"
  <2>1. Settle(q, "admit")
    BY <1>1, <1>4
  <2>2. \A s \in subImages : s.record.phase = "committed"
    BY <1>1, <1>4 DEF LayoutInv, CleanFacts
  <2> QED BY <1>1, <1>2, <2>1, <2>2, SettleStep
<1> QED BY <1>3, <1>4

LEMMA DecideHolds ==
  ASSUME LayoutInv, LayoutAssumption, NEW q \in Procs, Decide(q)
  PROVE  LayoutInv'
<1> DEFINE rec == sub.record
<1>1. /\ proc[q].at = "decide" /\ proc[q].wants = {} /\ FoldersStay /\ token' = token
      /\ UNCHANGED <<registered, used>> /\ proc[q].inflight = 0
      /\ IsRecord(NoRecord) /\ IsRecord(rec)
      /\ DOMAIN owner = Locks /\ owner = [l \in Locks |-> owner[l]]
  BY DownShape, Working DEF Decide, At, FoldersStay, LayoutInv, LayoutTypes, IsSub
<1>2. owner["layout"] = q
  BY <1>1, OnLayout DEF LayoutStages
<1>3. CASE Refused(q)
  BY <1>1, <1>3, RefusedStep
<1>4. CASE Act(q, "recover", rec, "unstage", HolderLocks) /\ UNCHANGED owner /\ rec.phase = "restoring"
  <2>1. Holding(q)'
    BY <1>1, <1>2, <1>4, ActHolding DEF HolderLocks, OldRowStages, Moving, Undoing, Cleaning
  <2>2. proc'[q].at = "unstage" /\ proc'[q].acting = rec /\ proc'[q].roles = StageFiles(q, "unstage", rec)
    BY <1>4, Acted DEF LayoutInv
  <2>3. proc'[q].roles = Listed(rec.set)
    BY <2>2 DEF StageFiles
  <2>4. MoveFacts(q)' /\ CleanFacts(q)' /\ RestoreFacts(q)'
    BY <1>1, <1>4, <2>2, <2>3 DEF MoveFacts, CleanFacts, RestoreFacts, FoldersStay, folders, Moving, Copied,
       Undoing, Cleaning, Staging, Discarding, Placing, Retiring
  <2> QED BY <1>1, <1>4, <2>1, <2>4, ActStep DEF Facts
<1>5. CASE Act(q, "recover", rec, "restored", HolderLocks) /\ UNCHANGED owner /\ rec.phase = "restored"
  <2>1. Holding(q)'
    BY <1>1, <1>2, <1>5, ActHolding DEF HolderLocks, OldRowStages, Moving, Undoing, Cleaning
  <2>2. proc'[q].at = "restored" /\ proc'[q].acting = rec
    BY <1>5, Acted DEF LayoutInv
  <2>4. MoveFacts(q)' /\ CleanFacts(q)' /\ RestoreFacts(q)'
    BY <1>1, <1>5, <2>2 DEF MoveFacts, CleanFacts, RestoreFacts, FoldersStay, folders, Moving, Copied,
       Undoing, Cleaning, Staging, Discarding, Placing, Retiring
  <2> QED BY <1>1, <1>5, <2>1, <2>4, ActStep DEF Facts
<1>6. CASE Act(q, "sync", rec, "sync", {}) /\ UNCHANGED owner /\ rec.phase = "committed"
  <2>1. Holding(q)'
    BY <1>1, <1>2, <1>6, ActHolding DEF HolderLocks, OldRowStages, Moving, Undoing, Cleaning
  <2>2. proc'[q].at = "sync" /\ proc'[q].acting = rec
    BY <1>6, Acted DEF LayoutInv
  <2>4. MoveFacts(q)' /\ CleanFacts(q)' /\ RestoreFacts(q)'
    BY <1>1, <1>6, <2>2 DEF MoveFacts, CleanFacts, RestoreFacts, FoldersStay, folders, Moving, Copied,
       Undoing, Cleaning, Staging, Discarding, Placing, Retiring
  <2> QED BY <1>1, <1>6, <2>1, <2>4, ActStep DEF Facts
<1>7. CASE /\ Act(q, "recover", rec, "bring-back", HolderLocks \cup RefreshAndDataLocks) /\ UNCHANGED owner
           /\ rec.phase = "preparing"
  <2>1. Holding(q)'
    BY <1>1, <1>2, <1>7, ActHolding DEF HolderLocks, RefreshAndDataLocks, OldRowStages, Moving, Undoing,
       Cleaning
  <2>2. /\ proc'[q].at = "bring-back" /\ proc'[q].acting = rec
        /\ proc'[q].roles = StageFiles(q, "bring-back", rec)
    BY <1>7, Acted DEF LayoutInv
  <2>3. /\ Runtimes \subseteq proc'[q].roles
        /\ "journal" \notin proc'[q].roles => rec.files["journal"] = Absent
    BY <2>2 DEF StageFiles, Listed, Roles
  <2>4. rec.files["journal"] = Absent => old.moving = Absent
    BY <1>7 DEF LayoutInv, LayoutTypes, AllRecover, Recovers, MidMove
  <2>5. MoveFacts(q)'
    BY <1>1, <1>7, <2>2, <2>3, <2>4 DEF MoveFacts, FoldersStay, folders, Moving, Copied,
       Undoing
  <2>6. CleanFacts(q)' /\ RestoreFacts(q)'
    BY <1>1, <1>7, <2>2 DEF CleanFacts, RestoreFacts, FoldersStay, folders, 
       Cleaning, Staging, Discarding, Placing, Retiring
  <2> QED BY <1>1, <1>7, <2>1, <2>5, <2>6, ActStep DEF Facts
<1>8. ASSUME NEW stage \in {"stay", "fence"}, Act(q, "start", NoRecord, stage, HolderLocks), UNCHANGED owner
      PROVE  LayoutInv'
  <2>1. Holding(q)'
    BY <1>1, <1>2, <1>8, ActHolding DEF HolderLocks, OldRowStages, Moving, Undoing, Cleaning
  <2>2. stage \notin FactStages
    BY DEF FactStages, Moving, Copied, Undoing, Cleaning, Staging, Discarding, Placing, Retiring
  <2> QED BY <1>1, <1>8, <2>1, <2>2, GoStep
<1> QED BY <1>3, <1>4, <1>5, <1>6, <1>7, <1>8 DEF Decide, Refused

---------------------------------------------------------------------------
(* Steps that change a folder.                                             *)

\* No refresh under way loses the layout it checked.
UsersStay(q) ==
  /\ LegacyUsable => LegacyUsable' \/ owner["oldRow"] = q
  /\ Alone => (HomeUsable => HomeUsable' \/ registered.sub = {})

HomesStay ==
  registered.sub # {} => /\ sub'.record.phase = "committed"
                         /\ \A s \in subImages' : s.record.phase \in {"committed", "restoring"}

\* A process of an older version may still run beside what the step leaves.
OldersStay ==
  older # "none" =>
    /\ sub'.record.phase # "restoring"
    /\ sub'.record.phase = "restore-staged" => ~Waits(old', sub'.record, "localPoolState")

\* What a working process does beside changing a folder.
Works(q) ==
  /\ OthersStay(q) /\ Shape(proc'[q]) /\ IsRecord(proc'[q].acting) /\ proc'[q].inflight = 0
  /\ proc'[q].mode # "home"
  /\ token' = token /\ registered' = registered /\ used' \in Counters /\ older' = older

\* A step of the holder of the layout lock that changes the folders.
LEMMA ChangeStep ==
  ASSUME LayoutInv, NEW q \in Procs, proc[q].inflight = 0, Works(q), owner["layout"] = q,
         \A o \in oldImages' : IsOld(o), \A s \in subImages' : IsSub(s),
         old' \in oldImages', sub' \in subImages', AllRecover', PlacedFirst', Behind', HomesStay, UsersStay(q),
         OldersStay, LayoutAssumption,
         Facts(q)'
  PROVE  LayoutInv'
<1>1. LayoutTypes'
  <2>1. \A p \in Procs : Shape(proc'[p]) /\ IsRecord(proc'[p].acting) /\ proc'[p].inflight \in Nat
    BY DEF LayoutInv, LayoutTypes, OthersStay, Works
  <2>2. token' \in [live : Nat, saved : Nat, lost : BOOLEAN, burnt : BOOLEAN]
    BY DEF LayoutInv, LayoutTypes, Works
  <2> QED BY <2>1, <2>2 DEF LayoutTypes, OthersStay, Works
<1>2. Homes'
  BY DEF LayoutInv, Homes, HomesStay, OthersStay, Works
<1>3. Tokens'
  BY DEF LayoutInv, Tokens, OthersStay, Works
<1>4. ASSUME NEW p \in Procs PROVE Refreshing(p)' /\ Facts(p)'
  <2>1. CASE p = q
    BY <2>1 DEF Refreshing, Works
  <2>2. CASE p # q
    <3>1. Facts(p)'
      BY <2>2, OthersKeep DEF LayoutInv, Facts, OthersStay, Works
    <3>2. RowLock(proc[p].mode) \in Locks
      BY DEF RowLock, Locks
    <3>3. proc[p].inflight # 0 /\ (proc[p].mode = "legacy" \/ Alone) => Usable(proc[p].mode)'
      <4>1. proc[p].inflight # 0 /\ proc[p].mode = "legacy" => LegacyUsable'
        BY <2>2 DEF LayoutInv, Refreshing, UsersStay, Usable, RowLock
      <4>2. proc[p].inflight # 0 /\ proc[p].mode = "home" /\ Alone => HomeUsable'
        BY <2>2 DEF LayoutInv, Homes, Refreshing, UsersStay, Usable
      <4>3. proc[p].inflight # 0 => proc[p].mode \in {"legacy", "home"}
        BY DEF LayoutInv, Refreshing, Serves
      <4> QED BY <2>2, <4>1, <4>2, <4>3 DEF Usable, OthersStay, Works
    <3>4. Refreshing(p)'
      BY <2>2, <3>2, <3>3 DEF LayoutInv, Refreshing, OthersStay, Works, Serves, RowLock, Usable
    <3> QED BY <3>1, <3>4
  <2> QED BY <2>1, <2>2
<1>5. Olders'
  <2>1. older = "refreshing" => LegacyUsable'
    BY DEF LayoutInv, Olders, UsersStay, LayoutAssumption
  <2> QED BY <2>1 DEF LayoutInv, Olders, OldersStay, OthersStay, Works, Waits
<1> QED BY <1>1, <1>2, <1>3, <1>4, <1>5 DEF LayoutInv, Facts

\* A step that changes a file of the old folder.
LEMMA OldStep ==
  ASSUME LayoutInv, NEW q \in Procs, proc[q].inflight = 0, Works(q), owner["layout"] = q,
         NEW n, IsOld(n), OldBecomes(n),
         \A s \in subImages : Recovers(n, s),
         \A s \in subImages, o \in oldImages \cup {n} : s.record.phase = "restore-staged" =>
           /\ IsTombstone(n.at["localRuntime"]) \/ ~Waits(o, s.record, "localPoolState")
           /\ IsTombstone(o.at["localRuntime"]) \/ ~Waits(n, s.record, "localPoolState"),
         sub.record.phase = "restore-staged" =>
           n.staged["localPoolState"] \in {old.staged["localPoolState"], Absent},
         UsersStay(q), LayoutAssumption, Facts(q)'
  PROVE  LayoutInv'
<1>1. /\ oldImages' \subseteq oldImages \cup {n} /\ old' = n /\ n \in oldImages'
      /\ sub' = sub /\ subImages' = subImages
  BY DEF OldBecomes, Before
<1>2. /\ \A o \in oldImages' : IsOld(o) /\ \A s \in subImages' : IsSub(s)
      /\ old' \in oldImages' /\ sub' \in subImages'
  BY <1>1 DEF LayoutInv, LayoutTypes
<1>3. AllRecover'
  <2> SUFFICES ASSUME NEW o \in oldImages \cup {n}, NEW s \in subImages PROVE Recovers(o, s)'
    BY <1>1 DEF AllRecover
  <2>1. Recovers(o, s)
    BY DEF LayoutInv, AllRecover
  <2> QED BY <2>1, PairKeeps DEF Works
<1>4. PlacedFirst'
  BY <1>1 DEF LayoutInv, PlacedFirst
<1>5. Behind' /\ HomesStay
  BY <1>1 DEF LayoutInv, Behind, Homes, HomesStay
<1>6. OldersStay
  BY <1>1 DEF LayoutInv, Olders, OldersStay, Waits
<1> QED BY <1>2, <1>3, <1>4, <1>5, <1>6, ChangeStep

\* A step that changes a file or the record of the state folder.
LEMMA SubStep ==
  ASSUME LayoutInv, NEW q \in Procs, proc[q].inflight = 0, Works(q), owner["layout"] = q,
         NEW n, IsSub(n), SubBecomes(n),
         \A o \in oldImages : Recovers(o, n),
         \A o1, o2 \in oldImages : n.record.phase = "restore-staged" =>
           IsTombstone(o1.at["localRuntime"]) \/ ~Waits(o2, n.record, "localPoolState"),
         n.record.phase = "preparing" \/ NoMove(n.record) =>
           \A s \in subImages : NoMove(s.record) \/ s.record.phase \in {"preparing", "restored"},
         n.record.phase = "restoring" \/ (n.record.phase = "committed" /\ n.record.cleanup # "pending") =>
           \A s \in subImages : s.record.phase \in {"committed", "restoring"},
         n.record.phase = "committed" => \A s \in subImages : s.record.phase # "restore-staged",
         n.record.phase \in {"restoring", "restore-staged"} => older = "none",
         registered.sub # {} => n.record.phase = "committed",
         Alone => (HomeUsable => HomeUsable' \/ registered.sub = {}), LayoutAssumption, Facts(q)'
  PROVE  LayoutInv'
<1>1. /\ subImages' \subseteq subImages \cup {n} /\ sub' = n /\ n \in subImages'
      /\ old' = old /\ oldImages' = oldImages
  BY DEF SubBecomes, Before
<1>2. /\ \A o \in oldImages' : IsOld(o) /\ \A s \in subImages' : IsSub(s)
      /\ old' \in oldImages' /\ sub' \in subImages'
  BY <1>1 DEF LayoutInv, LayoutTypes
<1>3. AllRecover'
  <2> SUFFICES ASSUME NEW o \in oldImages, NEW s \in subImages \cup {n} PROVE Recovers(o, s)'
    BY <1>1 DEF AllRecover
  <2>1. Recovers(o, s)
    BY DEF LayoutInv, AllRecover
  <2> QED BY <2>1, PairKeeps DEF Works
<1>4. PlacedFirst'
  BY <1>1 DEF LayoutInv, PlacedFirst
<1>5. Behind'
  BY <1>1 DEF LayoutInv, Behind
<1>6. HomesStay
  BY <1>1 DEF LayoutInv, Homes, HomesStay
<1>7. UsersStay(q)
  BY <1>1 DEF UsersStay, LegacyUsable
<1>8. OldersStay
  BY <1>1 DEF OldersStay
<1> QED BY <1>2, <1>3, <1>4, <1>5, <1>6, <1>7, <1>8, ChangeStep

\* A flush: what power loss may bring back becomes less.
LEMMA FlushStep ==
  ASSUME LayoutInv, NEW q \in Procs, proc[q].inflight = 0, Works(q), owner["layout"] = q,
         UNCHANGED <<old, sub>>, oldImages' \subseteq oldImages, subImages' \subseteq subImages,
         old \in oldImages', sub \in subImages', LayoutAssumption, Facts(q)'
  PROVE  LayoutInv'
<1>1. /\ \A o \in oldImages' : IsOld(o) /\ \A s \in subImages' : IsSub(s)
      /\ old' \in oldImages' /\ sub' \in subImages'
  BY DEF LayoutInv, LayoutTypes
<1>2. AllRecover'
  <2> SUFFICES ASSUME NEW o \in oldImages, NEW s \in subImages PROVE Recovers(o, s)'
    BY DEF AllRecover
  <2>1. Recovers(o, s)
    BY DEF LayoutInv, AllRecover
  <2> QED BY <2>1, PairKeeps DEF Works
<1>3. PlacedFirst' /\ Behind'
  BY DEF LayoutInv, PlacedFirst, Behind
<1>4. HomesStay
  BY DEF LayoutInv, Homes, HomesStay
<1>5. UsersStay(q)
  BY DEF UsersStay, LegacyUsable, HomeUsable, Conflict, SecondCopy
<1>6. OldersStay
  BY DEF LayoutInv, Olders, OldersStay, Waits
<1> QED BY <1>1, <1>2, <1>3, <1>4, <1>5, <1>6, ChangeStep

\* A step of a transition leaves the others alone.
LEMMA ActWorks ==
  ASSUME LayoutInv, NEW q \in Procs, proc[q].at # "none",
         NEW job, NEW rec, NEW stage, NEW locks, Act(q, job, rec, stage, locks), IsRecord(rec),
         UNCHANGED <<owner, registered, token, older>>, used' \in Counters
  PROVE  Works(q) /\ proc[q].inflight = 0
<1>1. OthersStay(q)
  BY Acted DEF LayoutInv, LayoutTypes, OthersStay
<1>2. /\ Shape(proc'[q]) /\ proc'[q].acting = rec /\ proc'[q].inflight = 0
      /\ proc[q].inflight = 0 /\ proc'[q].mode # "home"
  BY Acted, Working DEF LayoutInv, Serves
<1> QED BY <1>1, <1>2 DEF Works

\* So does one file of a stage.
LEMMA TookWorks ==
  ASSUME LayoutInv, NEW q \in Procs, proc[q].at # "none", NEW r, Took(q, r),
         UNCHANGED <<owner, registered, token, older, used>>
  PROVE  /\ Works(q) /\ proc[q].inflight = 0
         /\ proc'[q].roles = proc[q].roles \ {r} /\ proc'[q].at = proc[q].at /\ proc'[q].job = proc[q].job
         /\ proc'[q].wants = proc[q].wants /\ proc'[q].acting = proc[q].acting
         /\ proc'[q].seen = proc[q].seen /\ Holding(q)'
<1> DEFINE w == proc[q].roles \ {r}
           x == [proc[q] EXCEPT !.roles = w]
<1>1. Shape(proc[q]) /\ IsRecord(proc[q].acting) /\ used' \in Counters
  BY DEF LayoutInv, LayoutTypes
<1>2. proc' = [proc EXCEPT ![q] = x]
  BY DEF Took, LayoutInv, LayoutTypes
<1> HIDE DEF w
<1>3. /\ Shape(x) /\ x.at = proc[q].at /\ x.wants = proc[q].wants /\ x.job = proc[q].job
      /\ x.mode = proc[q].mode /\ x.acting = proc[q].acting /\ x.inflight = proc[q].inflight
      /\ x.roles = w /\ x.seen = proc[q].seen
  BY <1>1 DEF Shape, Fields
<1> HIDE DEF x
<1>4. OthersStay(q) /\ proc'[q] = x
  BY <1>2 DEF OthersStay, LayoutInv, LayoutTypes
<1>5. proc[q].inflight = 0 /\ proc[q].mode # "home"
  BY Working DEF Serves
<1>6. Works(q)
  BY <1>1, <1>3, <1>4, <1>5 DEF Works
<1>7. Holding(q)'
  BY <1>3, <1>4 DEF LayoutInv, Holding, Serves
<1> QED BY <1>3, <1>4, <1>5, <1>6, <1>7 DEF w

LEMMA FlushHolds ==
  ASSUME LayoutInv, LayoutAssumption, NEW q \in Procs, Flush(q)
  PROVE  LayoutInv'
<1>1. PICK stage \in OldStages \cup SubStages :
       /\ At(q, stage)
       /\ Due(q) = {}
       /\ IF Flushed(stage) = "old" THEN oldImages' = {old} /\ UNCHANGED <<old, sub, subImages>>
                                    ELSE subImages' = {sub} /\ UNCHANGED <<old, sub, oldImages>>
       /\ LET job == proc[q].job
              rec == proc[q].acting IN
          IF stage = "sync"
          THEN IF rec.cleanup \in {"pending", "conflict"} /\ q \notin Overriding
               THEN Act(q, job, rec, "look-for-a-journal", HolderLocks \cup RefreshAndDataLocks)
               ELSE Act(q, job, rec, "admit", HolderLocks)
          ELSE Act(q, IF stage = "prepared" THEN "moving" ELSE job, rec, Following(stage, job), {})
  BY DEF Flush
<1> DEFINE job == proc[q].job
           rec == proc[q].acting
           nextJob == IF stage = "prepared" THEN "moving" ELSE job
           found == rec.cleanup \in {"pending", "conflict"} /\ q \notin Overriding
           next == IF stage = "sync" THEN IF found THEN "look-for-a-journal" ELSE "admit"
                   ELSE Following(stage, job)
           locks == IF stage = "sync" THEN IF found THEN HolderLocks \cup RefreshAndDataLocks ELSE HolderLocks
                    ELSE {}
<1>2. Act(q, nextJob, rec, next, locks)
  BY <1>1
<1>3. /\ proc[q].at = stage /\ proc[q].wants = {} /\ UNCHANGED <<owner, registered, token, older, used>>
      /\ UNCHANGED <<old, sub>>
      /\ IF stage \in OldStages THEN oldImages' = {old} /\ subImages' = subImages
                                ELSE subImages' = {sub} /\ oldImages' = oldImages
      /\ stage # "place-data" => proc[q].roles = {}
      /\ stage = "place-data" => proc[q].roles \cap DataRoles = {}
  BY <1>1 DEF At, Flush, Due, Flushed
<1>4. proc[q].at # "none" /\ owner["layout"] = q
  BY <1>3, OnLayout DEF OldStages, SubStages, LayoutStages, OldRowStages, Moving, Undoing, Cleaning, Staging,
     Discarding, Placing, Retiring
<1>5. used' \in Counters /\ IsRecord(rec) /\ old \in oldImages /\ sub \in subImages
  BY <1>3 DEF LayoutInv, LayoutTypes
<1>6. Works(q) /\ proc[q].inflight = 0
  BY <1>2, <1>3, <1>4, <1>5, ActWorks
<1>7. /\ proc'[q].at = next /\ proc'[q].job = nextJob /\ proc'[q].wants = locks /\ proc'[q].acting = rec
      /\ proc'[q].mode = proc[q].mode /\ proc'[q].roles = StageFiles(q, next, rec)
  BY <1>2, Acted DEF LayoutInv
<1>8. Holding(q)
  BY DEF LayoutInv
<1> HIDE DEF nextJob, next, locks
<1>9. Holding(q)'
  <2>1. "layout" \notin locks /\ (stage # "sync" => locks = {}) /\ next # "none"
        /\ (next = "look-for-a-journal" => "oldRow" \in locks \/ owner["oldRow"] = q)
    BY <1>3, <1>8 DEF locks, next, Following, HolderLocks, RefreshAndDataLocks, OldStages, SubStages,
       Holding, OldRowStages, Moving, Undoing, Cleaning
  <2>2. next \in OldRowStages => owner["oldRow"] = q \/ next = "look-for-a-journal"
    BY <1>3, <1>8 DEF next, Following, OldStages, SubStages, Holding, OldRowStages, Moving, Undoing, Cleaning
  <2>3. /\ nextJob = "moving" => next \in {"copy"} \cup Copied
        /\ nextJob = "clean" => next \in {"clean", "record-cleanup", "cleaned", "unlock-data"}
    BY <1>3, <1>8 DEF nextJob, next, Following, OldStages, SubStages, Holding, Copied
  <2> QED BY <1>2, <1>3, <1>4, <2>1, <2>2, <2>3, ActHolding
<1> USE DEF Moving, Copied, Undoing, Cleaning, Staging, Discarding, Placing, Retiring
<1>10. MoveFacts(q)'
  <2>1. MoveFacts(q)
    BY DEF LayoutInv
  <2>2. CASE stage = "prepared"
    <3>1. next = "copy"
      BY <2>2 DEF next, Following
    <3>2. proc'[q].roles = Listed(rec.files)
      BY <1>7, <3>1 DEF StageFiles
    <3> QED BY <1>3, <1>7, <2>1, <2>2, <3>1, <3>2 DEF MoveFacts, OldStages
  <2>3. CASE stage = "copy"
    <3>1. next = "check-artifacts"
      BY <2>3 DEF next, Following
    <3> QED BY <1>3, <1>7, <2>1, <2>3, <3>1 DEF MoveFacts, OldStages
  <2>4. CASE stage = "barriers"
    <3>1. next = "verify"
      BY <2>4 DEF next, Following
    <3> QED BY <1>3, <1>7, <2>1, <2>4, <3>1 DEF MoveFacts, OldStages
  <2>5. CASE stage = "bring-back"
    <3>1. next = "drop-copies"
      BY <2>5 DEF next, Following
    <3>2. MidMove(old, sub)
      BY <1>3, <1>5, <2>1, <2>5 DEF LayoutInv, AllRecover, Recovers, MoveFacts
    <3>3. Undone(old)'
      BY <1>3, <1>6, <2>1, <2>5, <3>2 DEF MidMove, MoveFacts, Undone, OldComplete, Pointed, Works
    <3> QED BY <1>3, <1>7, <2>1, <2>5, <3>1, <3>3 DEF MoveFacts, OldStages
  <2>6. CASE stage = "drop-copies"
    <3>1. next = "record-rollback"
      BY <2>6 DEF next, Following
    <3>2. \A o \in oldImages : Undone(o)'
      BY <1>6, <2>1, <2>6, <1>3 DEF MoveFacts, Undone, OldComplete, Pointed, Works
    <3> QED BY <1>3, <1>7, <2>1, <2>6, <3>1, <3>2 DEF MoveFacts, OldStages
  <2>7. CASE stage \notin {"prepared", "copy", "barriers", "bring-back", "drop-copies"}
    <3>1. next \notin Moving \cup Undoing
      BY <1>3, <2>7 DEF next, Following, OldStages, SubStages
    <3> QED BY <1>7, <3>1 DEF MoveFacts
  <2> QED BY <2>2, <2>3, <2>4, <2>5, <2>6, <2>7
<1>11. CleanFacts(q)'
  <2>1. CleanFacts(q)
    BY DEF LayoutInv
  <2>2. CASE stage = "committed"
    <3>1. next = "look-for-a-journal"
      BY <2>2 DEF next, Following
    <3> QED BY <1>3, <1>7, <2>1, <2>2, <3>1 DEF CleanFacts, OldStages
  <2>3. CASE stage = "clean"
    <3>1. next = "record-cleanup"
      BY <2>3 DEF next, Following
    <3>2. proc'[q].roles = {}
      BY <1>7, <3>1 DEF StageFiles
    <3> QED BY <1>3, <1>7, <2>1, <2>3, <3>1, <3>2 DEF CleanFacts, OldStages, Conflict, SecondCopy
  <2>4. CASE stage = "cleaned"
    <3>1. next = "unlock-data"
      BY <2>4 DEF next, Following
    <3> QED BY <1>3, <1>7, <2>1, <2>4, <3>1 DEF CleanFacts, OldStages
  <2>5. CASE stage = "rolled-back"
    <3>1. (next = "unlock-data" /\ job = "aborted") \/ next = "again"
      BY <2>5 DEF next, Following
    <3>2. nextJob = job
      BY <2>5 DEF nextJob
    <3> QED BY <1>7, <3>1, <3>2 DEF CleanFacts
  <2>6. CASE stage = "sync"
    <3>1. (next = "look-for-a-journal" /\ rec.cleanup \in {"pending", "conflict"}) \/ next = "admit"
      BY <2>6 DEF next
    <3> QED BY <1>3, <1>7, <2>1, <2>6, <3>1 DEF CleanFacts, OldStages
  <2>7. CASE stage \notin {"committed", "clean", "cleaned", "rolled-back", "sync"}
    <3>1. next \notin Cleaning \cup {"committed", "sync", "admit", "unlock-data"}
      BY <1>3, <2>7 DEF next, Following, OldStages, SubStages
    <3> QED BY <1>7, <3>1 DEF CleanFacts
  <2> QED BY <2>2, <2>3, <2>4, <2>5, <2>6, <2>7
<1>12. RestoreFacts(q)'
  <2>1. RestoreFacts(q)
    BY DEF LayoutInv
  <2>2. CASE stage = "unstage"
    <3>1. next = "record-discard"
      BY <2>2 DEF next, Following
    <3>2. \A r \in Roles : old.staged[r] = Absent
      BY <1>3, <1>5, <2>1, <2>2 DEF LayoutInv, AllRecover, Recovers, RestoreFacts, Listed
    <3> QED BY <1>3, <1>7, <2>1, <2>2, <3>1, <3>2 DEF RestoreFacts, OldStages
  <2>3. CASE stage = "restoring"
    <3>1. next = "stage"
      BY <2>3 DEF next, Following
    <3>2. proc'[q].roles = Listed(rec.set)
      BY <1>7, <3>1 DEF StageFiles
    <3> QED BY <1>3, <1>7, <2>1, <2>3, <3>1, <3>2 DEF RestoreFacts, OldStages
  <2>4. CASE stage = "stage"
    <3>1. next = "record-staged"
      BY <2>4 DEF next, Following
    <3> QED BY <1>3, <1>7, <2>1, <2>4, <3>1 DEF RestoreFacts, OldStages
  <2>5. CASE stage = "staged"
    <3>1. next = "classify"
      BY <2>5 DEF next, Following
    <3> QED BY <1>3, <1>7, <2>1, <2>5, <3>1 DEF RestoreFacts, OldStages
  <2>6. CASE stage = "place-data"
    <3>1. next = "place-barriers"
      BY <2>6 DEF next, Following
    <3>2. proc'[q].roles = proc[q].roles
      BY <1>7, <3>1 DEF StageFiles
    <3>3. ~Waits(old, rec, "localPoolState")
      BY <1>3, <2>1, <2>6 DEF RestoreFacts, Settled, DataRoles, Roles
    <3> QED BY <1>3, <1>7, <2>1, <2>6, <3>1, <3>2, <3>3 DEF RestoreFacts, OldStages, Settled, Waits
  <2>7. CASE stage = "place-barriers"
    <3>1. next = "record-restored"
      BY <2>7 DEF next, Following
    <3> QED BY <1>3, <1>7, <2>1, <2>7, <3>1 DEF RestoreFacts, OldStages, Settled, Waits
  <2>8. CASE stage = "restored"
    <3>1. next = "retire"
      BY <2>8 DEF next, Following
    <3> QED BY <1>3, <1>7, <2>1, <2>8, <3>1 DEF RestoreFacts, OldStages
  <2>9. CASE stage = "retire"
    <3>1. next = "record-retired"
      BY <2>9 DEF next, Following
    <3> QED BY <1>3, <1>7, <2>1, <2>9, <3>1 DEF RestoreFacts, OldStages
  <2>10. CASE stage \notin {"unstage", "restoring", "stage", "staged", "place-data", "place-barriers", "restored",
                            "retire"}
    <3>1. next \notin Staging \cup Discarding \cup Placing \cup Retiring \cup {"staged"}
      BY <1>3, <2>10 DEF next, Following, OldStages, SubStages
    <3> QED BY <1>7, <3>1 DEF RestoreFacts
  <2> QED BY <2>2, <2>3, <2>4, <2>5, <2>6, <2>7, <2>8, <2>9, <2>10
<1>13. /\ oldImages' \subseteq oldImages /\ subImages' \subseteq subImages
       /\ old \in oldImages' /\ sub \in subImages'
  BY <1>3, <1>5
<1> QED BY <1>3, <1>4, <1>6, <1>9, <1>10, <1>11, <1>12, <1>13, FlushStep DEF Facts

---------------------------------------------------------------------------
(* What a cleanup records, and a step that breaks.                         *)

\* The outcome of the cleanup is recorded.
LEMMA CleanupRecord ==
  ASSUME LayoutInv, LayoutAssumption, NEW q \in Procs, proc[q].at \in {"clean", "record-cleanup", "cleaned"},
         proc[q].acting.cleanup = "conflict" \/ proc[q].at = "record-cleanup",
         proc[q].wants = {}, Works(q), proc[q].inflight = 0, Publish(proc[q].acting), Facts(q)'
  PROVE  LayoutInv'
<1> DEFINE rec == proc[q].acting
           n == [sub EXCEPT !.record = rec]
<1>1. /\ owner["layout"] = q /\ IsRecord(rec) /\ IsSub(sub) /\ SubBecomes(n) /\ sub \in subImages
      /\ old \in oldImages /\ AllRecover
  BY OnLayout DEF LayoutInv, LayoutTypes, LayoutStages, OldRowStages, Cleaning, Publish
<1>2. /\ sub.record.phase = "committed" /\ \A s \in subImages : s.record.phase = "committed"
      /\ rec.phase = "committed" /\ rec.attempt = sub.record.attempt
      /\ rec.cleanup = "conflict" => Conflict(old, sub.record)
      /\ rec.cleanup # "conflict" => /\ \A o \in oldImages : o.moving = Absent
                                     /\ old.at["journal"] = Absent /\ old.moving = Absent
                                     /\ Alone => old.at["localPoolState"] = Absent
                                     /\ rec.cleanup \in {"done", "kept"}
  BY <1>1 DEF LayoutInv, CleanFacts, Cleaning, Conflict
<1>3. n.record = rec /\ n.at = sub.at /\ IsSub(n)
  BY <1>1 DEF IsSub, IsRecord
<1> HIDE DEF n
<1>4. ASSUME NEW o \in oldImages PROVE Recovers(o, n)
  <2>1. Recovers(o, sub)
    BY <1>1 DEF AllRecover
  <2>2. SubComplete(o, n)
    BY <1>1, <1>2, <1>3, <2>1 DEF Recovers, SubComplete
  <2>3. \A r \in Roles : o.staged[r] = Absent
    BY <1>1, <1>2, <2>1 DEF Recovers
  <2>4. token.saved = Absent => Nothing(o, n)
    BY <1>1, <1>2, <1>3, <2>1 DEF Recovers, Nothing
  <2>5. Vacated(n.record) => o.moving = Absent
    BY <1>2, <1>3 DEF Vacated
  <2> QED BY <1>2, <1>3, <2>2, <2>3, <2>4, <2>5 DEF Recovers, NoMove
<1>5. Alone => (HomeUsable => HomeUsable')
  BY <1>1, <1>2, <1>3 DEF HomeUsable, Conflict, SecondCopy, SubBecomes
<1> QED BY <1>1, <1>2, <1>3, <1>4, <1>5, SubStep DEF NoMove

\* A transition that fails is given up at any stage.
LEMMA BrokenStep ==
  ASSUME LayoutInv, LayoutAssumption, NEW q \in Procs, proc[q].wants = {}, proc[q].at \notin {"none", "unlock-data"},
         Broken(q), UNCHANGED <<registered, token, older, used>>
  PROVE  LayoutInv'
<1> DEFINE job == proc[q].job
           rec == proc[q].acting
<1>1. /\ proc[q].inflight = 0 /\ IsRecord(rec) /\ IsRecord(NoRecord) /\ used' \in Counters
      /\ DOMAIN owner = Locks /\ owner = [l \in Locks |-> owner[l]]
  BY Working, DownShape DEF LayoutInv, LayoutTypes
<1>2. CASE Unsure(q) /\ UNCHANGED folders
  <2>1. FoldersStay
    BY <1>2 DEF FoldersStay
  <2>2. CASE Settle(q, "stay")
    BY <2>1, <2>2, SettleStep
  <2>3. CASE Restart(q)
    BY <2>1, <2>3, RestartStep
  <2> QED BY <1>2, <2>2, <2>3 DEF Unsure
<1>3. CASE job = "moving" /\ Act(q, "aborted", rec, "bring-back", {}) /\ UNCHANGED <<owner, folders>>
  <2>1. FoldersStay
    BY <1>3 DEF FoldersStay
  <2>2. /\ proc[q].at \in {"copy"} \cup Copied /\ MoveFacts(q)
        /\ owner["layout"] = q /\ owner["oldRow"] = q
    BY <1>3, OnLayout DEF LayoutInv, Holding, Moving, Copied, LayoutStages, OldRowStages
  <2>3. Holding(q)'
    BY <1>3, <2>2, ActHolding
  <2>4. /\ proc'[q].at = "bring-back" /\ proc'[q].acting = rec
        /\ proc'[q].roles = StageFiles(q, "bring-back", rec)
    BY <1>3, Acted DEF LayoutInv
  <2>5. /\ Runtimes \subseteq proc'[q].roles
        /\ "journal" \notin proc'[q].roles => rec.files["journal"] = Absent
    BY <2>4 DEF StageFiles, Listed, Roles
  <2>6. rec.phase = "preparing" /\ sub.record = rec
    BY <2>2 DEF MoveFacts, Moving, Copied
  <2>7. rec.files["journal"] = Absent => old.moving = Absent
    BY <2>6 DEF LayoutInv, LayoutTypes, AllRecover, Recovers, MidMove
  <2>8. MoveFacts(q)'
    BY <1>3, <2>4, <2>5, <2>6, <2>7 DEF MoveFacts, folders, Moving, Copied, Undoing
  <2>9. CleanFacts(q)' /\ RestoreFacts(q)'
    BY <2>4 DEF CleanFacts, RestoreFacts, Cleaning, Staging, Discarding, Placing, Retiring
  <2> QED BY <1>1, <1>3, <2>1, <2>3, <2>8, <2>9, ActStep DEF Facts
<1>4. CASE job = "clean" /\ Settle(q, "admit") /\ UNCHANGED folders
  <2>1. FoldersStay
    BY <1>4 DEF FoldersStay
  <2>2. /\ proc[q].at \in {"clean", "record-cleanup", "cleaned"}
        /\ owner["layout"] = q /\ \A s \in subImages : s.record.phase = "committed"
    BY <1>4, OnLayout DEF LayoutInv, Holding, CleanFacts, Cleaning, LayoutStages, OldRowStages
  <2> QED BY <1>4, <2>1, <2>2, SettleStep
<1>5. CASE job = "clean" /\ rec.cleanup = "conflict" /\ Refuse(q, "conflict") /\ Publish(rec)
  <2>1. proc[q].at \in {"clean", "record-cleanup", "cleaned"}
    BY <1>5 DEF LayoutInv, Holding
  <2>2. OthersStay(q) /\ proc'[q] = Down("conflict")
    BY <1>5, Freed DEF Refuse, OthersStay, LayoutInv, LayoutTypes
  <2>3. Facts(q)'
    BY <2>2, NoStage, DownShape
  <2>4. Works(q)
    BY <1>1, <2>2, DownShape DEF Works
  <2> QED BY <1>1, <1>5, <2>1, <2>3, <2>4, CleanupRecord
<1>6. CASE Refused(q) /\ UNCHANGED folders
  <2>1. FoldersStay
    BY <1>6 DEF FoldersStay
  <2> QED BY <1>1, <1>6, <2>1, RefusedStep
<1> QED BY <1>2, <1>3, <1>4, <1>5, <1>6 DEF Broken, Refused

LEMMA StepFailsHolds ==
  ASSUME LayoutInv, LayoutAssumption, NEW q \in Procs, StepFails(q)
  PROVE  LayoutInv'
<1>1. /\ proc[q].wants = {} /\ proc[q].at \notin {"none", "unlock-data"} /\ Broken(q)
      /\ UNCHANGED <<registered, token, older, used>>
  BY DEF StepFails, LayoutInv, Holding
<1> QED BY <1>1, BrokenStep

LEMMA LeasesLostHolds ==
  ASSUME LayoutInv, LayoutAssumption, NEW q \in Procs, LeasesLost(q)
  PROVE  LayoutInv'
<1>1. /\ proc[q].at # "none" /\ (Restart(q) \/ Refused(q))
      /\ FoldersStay /\ token' = token /\ UNCHANGED <<registered, used>>
  BY DEF LeasesLost, LayoutInv, Holding, Refused, FoldersStay
<1>2. proc[q].inflight = 0
  BY <1>1, Working
<1> QED BY <1>1, <1>2, RestartStep, RefusedStep

---------------------------------------------------------------------------
(* The move.                                                               *)

\* Where a process treats files, and what it has there.
LEMMA AtWork ==
  ASSUME LayoutInv, NEW q \in Procs, NEW stage, At(q, stage), stage \in LayoutStages
  PROVE  /\ proc[q].at = stage /\ proc[q].wants = {} /\ proc[q].at \notin {"none"}
         /\ owner["layout"] = q /\ proc[q].inflight = 0
         /\ stage \in OldRowStages => owner["oldRow"] = q
         /\ IsRecord(proc[q].acting) /\ IsOld(old) /\ IsSub(sub) /\ old \in oldImages /\ sub \in subImages
         /\ Recovers(old, sub)
         /\ DOMAIN owner = Locks /\ owner = [l \in Locks |-> owner[l]]
         /\ used \in Counters
<1>1. proc[q].at = stage /\ proc[q].wants = {}
  BY DEF At
<1>2. proc[q].at \notin {"none"} /\ owner["layout"] = q /\ proc[q].inflight = 0
  BY <1>1, OnLayout, Working
<1>3. stage \in OldRowStages => owner["oldRow"] = q
  BY <1>1 DEF LayoutInv, Holding
<1> QED BY <1>1, <1>2, <1>3 DEF LayoutInv, LayoutTypes, AllRecover

LEMMA CheckArtifactsHolds ==
  ASSUME LayoutInv, LayoutAssumption, NEW q \in Procs, CheckArtifacts(q)
  PROVE  LayoutInv'
<1> DEFINE job == proc[q].job
           rec == proc[q].acting
<1> USE DEF Moving, Copied, Undoing
<1>1. At(q, "check-artifacts") /\ UNCHANGED <<registered, token, older, used>>
  BY DEF CheckArtifacts, Owned
<1>2. "check-artifacts" \in LayoutStages /\ "check-artifacts" \in OldRowStages
  BY DEF LayoutStages, OldRowStages
<1>3. /\ proc[q].at = "check-artifacts" /\ proc[q].wants = {} /\ proc[q].at # "none"
      /\ owner["layout"] = q /\ owner["oldRow"] = q /\ IsRecord(rec)
      /\ DOMAIN owner = Locks /\ owner = [l \in Locks |-> owner[l]]
  BY <1>1, <1>2, AtWork
<1>4. CASE UNCHANGED folders /\ Act(q, job, rec, "barriers", {}) /\ UNCHANGED owner
  <2>1. FoldersStay
    BY <1>1, <1>4 DEF FoldersStay
  <2>2. Holding(q)'
    <3>1. job # "clean"
      BY <1>3 DEF LayoutInv, Holding
    <3> QED BY <1>3, <1>4, <3>1, ActHolding
  <2>3. /\ proc'[q].at = "barriers" /\ proc'[q].acting = rec
        /\ proc'[q].roles = StageFiles(q, "barriers", rec)
    BY <1>4, Acted DEF LayoutInv
  <2>4. Runtimes \subseteq proc'[q].roles
    BY <2>3 DEF StageFiles
  <2>5. MoveFacts(q)
    BY DEF LayoutInv
  <2>6. MoveFacts(q)'
    BY <1>3, <1>4, <2>3, <2>4, <2>5 DEF MoveFacts, folders
  <2>7. CleanFacts(q)' /\ RestoreFacts(q)'
    BY <2>3 DEF CleanFacts, RestoreFacts, Cleaning, Staging, Discarding, Placing, Retiring
  <2> QED BY <1>1, <1>3, <1>4, <2>1, <2>2, <2>6, <2>7, ActStep DEF Facts
<1>5. CASE Broken(q)
  BY <1>1, <1>3, <1>5, BrokenStep
<1> QED BY <1>4, <1>5 DEF CheckArtifacts, Owned, GoOn

LEMMA VerifyHolds ==
  ASSUME LayoutInv, LayoutAssumption, NEW q \in Procs, Verify(q)
  PROVE  LayoutInv'
<1> DEFINE job == proc[q].job
           rec == proc[q].acting
<1> USE DEF Moving, Copied, Undoing
<1>1. At(q, "verify") /\ UNCHANGED <<registered, token, older, used>>
  BY DEF Verify, Owned
<1>2. "verify" \in LayoutStages /\ "verify" \in OldRowStages
  BY DEF LayoutStages, OldRowStages
<1>3. /\ proc[q].at = "verify" /\ proc[q].wants = {} /\ proc[q].at # "none"
      /\ owner["layout"] = q /\ owner["oldRow"] = q /\ IsRecord(rec)
      /\ DOMAIN owner = Locks /\ owner = [l \in Locks |-> owner[l]]
  BY <1>1, <1>2, AtWork
<1>4. CASE Verified(rec) /\ UNCHANGED folders /\ Act(q, job, rec, "commit", {}) /\ UNCHANGED owner
  <2>1. FoldersStay
    BY <1>1, <1>4 DEF FoldersStay
  <2>2. Holding(q)'
    <3>1. job # "clean"
      BY <1>3 DEF LayoutInv, Holding
    <3> QED BY <1>3, <1>4, <3>1, ActHolding
  <2>3. proc'[q].at = "commit" /\ proc'[q].acting = rec
    BY <1>4, Acted DEF LayoutInv
  <2>4. MoveFacts(q)
    BY DEF LayoutInv
  <2>5. MoveFacts(q)'
    BY <1>3, <1>4, <2>3, <2>4 DEF MoveFacts, folders, Verified
  <2>6. CleanFacts(q)' /\ RestoreFacts(q)'
    BY <2>3 DEF CleanFacts, RestoreFacts, Cleaning, Staging, Discarding, Placing, Retiring
  <2> QED BY <1>1, <1>3, <1>4, <2>1, <2>2, <2>5, <2>6, ActStep DEF Facts
<1>5. CASE Broken(q)
  BY <1>1, <1>3, <1>5, BrokenStep
<1> QED BY <1>4, <1>5 DEF Verify, Owned, GoOn

LEMMA PrepareHolds ==
  ASSUME LayoutInv, LayoutAssumption, NEW q \in Procs, Prepare(q)
  PROVE  LayoutInv'
<1> DEFINE rec == [NoRecord EXCEPT !.phase = "preparing", !.attempt = used.moves + 1, !.files = old.at]
           n == [sub EXCEPT !.record = rec]
<1>1. At(q, "prepare") /\ UNCHANGED <<registered, token, older>>
  BY DEF Prepare
<1>2. "prepare" \in LayoutStages /\ "prepare" \in OldRowStages
  BY DEF LayoutStages, OldRowStages
<1>3. /\ proc[q].at = "prepare" /\ proc[q].wants = {} /\ proc[q].at \notin {"none", "unlock-data"}
      /\ owner["layout"] = q /\ owner["oldRow"] = q /\ IsOld(old) /\ IsSub(sub) /\ old \in oldImages
      /\ sub \in subImages /\ proc[q].inflight = 0 /\ used \in Counters /\ Recovers(old, sub)
  BY <1>1, <1>2, AtWork
<1>4. CASE Broken(q) /\ UNCHANGED used
  BY <1>1, <1>3, <1>4, BrokenStep
<1>5. CASE /\ MovePrecondition /\ NoMove(sub.record)
           /\ SubBecomes(n) /\ Act(q, "preparing", rec, "prepared", {})
           /\ used' = [used EXCEPT !.moves = @ + 1] /\ UNCHANGED owner
  <2>1. old.at \in [Roles -> Nat] /\ \A r \in Roles : sub.at[r] = Absent
    BY <1>3, <1>5 DEF MovePrecondition, Pointed, IsTombstone, IsOld
  <2>2. /\ IsRecord(rec) /\ rec.phase = "preparing" /\ rec.files = old.at
        /\ rec.attempt = used.moves + 1 /\ used' \in Counters
    <3>1. NoRecord \in LayoutRecords
      BY DownShape DEF IsRecord
    <3>2. used.moves + 1 \in Nat /\ used.moves + 1 > 0 /\ used' \in Counters
      BY <1>3, <1>5 DEF Counters
    <3> DEFINE k == used.moves + 1
               f == old.at
    <3>3. k \in Nat /\ f \in [Roles -> Nat]
      BY <2>1, <3>2
    <3> HIDE DEF k, f
    <3>4. rec = [NoRecord EXCEPT !.phase = "preparing", !.attempt = k, !.files = f]
      BY DEF k, f
    <3> HIDE DEF rec
    <3>5. rec \in LayoutRecords /\ rec.phase = "preparing" /\ rec.files = f /\ rec.attempt = k
      BY <3>1, <3>3, <3>4 DEF LayoutRecords, Phases
    <3> QED BY <3>2, <3>5 DEF IsRecord, k, f
  <2> HIDE DEF rec
  <2>3. n.record = rec /\ n.at = sub.at /\ IsSub(n)
    BY <1>3, <2>2 DEF IsSub, IsRecord
  <2> HIDE DEF n
  <2>4. ASSUME NEW o \in oldImages PROVE Recovers(o, n)
    <3>1. Recovers(o, sub) /\ Undone(o)
      BY <1>3, <1>5 DEF LayoutInv, AllRecover, Recovers
    <3>2. token.saved = Absent => \A r \in Roles : old.at[r] = Absent /\ o.at[r] <= 0
      BY <1>3, <3>1, <2>1 DEF Recovers, Nothing, Absent
    <3>3. MidMove(o, n)
      <4>1. "journal" \in Roles
        BY DEF Roles
      <4> QED BY <2>2, <2>3, <3>1, <3>2, <4>1 DEF MidMove, Undone, OldComplete, Pointed
    <3>4. \A r \in Roles : o.staged[r] = Absent
      BY <1>5, <3>1 DEF Recovers, NoMove
    <3>5. token.saved = Absent => Nothing(o, n)
      BY <2>1, <2>2, <2>3, <3>2 DEF Nothing
    <3> QED BY <2>2, <2>3, <3>3, <3>4, <3>5 DEF Recovers, NoMove, Vacated
  <2>5. \A s \in subImages : NoMove(s.record) \/ s.record.phase \in {"preparing", "restored"}
    BY <1>5 DEF LayoutInv, Behind
  <2>6. registered.sub = {} /\ ~HomeUsable
    BY <1>5 DEF LayoutInv, Homes, NoMove, HomeUsable
  <2>7. Works(q)
    BY <1>1, <1>3, <1>5, <2>2, ActWorks
  <2>8. Holding(q)'
    BY <1>3, <1>5, ActHolding
  <2>9. proc'[q].at = "prepared" /\ proc'[q].acting = rec
    BY <1>5, Acted DEF LayoutInv
  <2>10. MoveFacts(q)' /\ CleanFacts(q)' /\ RestoreFacts(q)'
    BY <1>5, <2>2, <2>3, <2>9 DEF MoveFacts, CleanFacts, RestoreFacts, SubBecomes, Moving, Copied, Undoing,
       Cleaning, Staging, Discarding, Placing, Retiring
  <2> QED BY <1>3, <1>5, <2>2, <2>3, <2>4, <2>5, <2>6, <2>7, <2>8, <2>10, SubStep DEF Facts
<1> QED BY <1>4, <1>5 DEF Prepare, Publish

LEMMA CopyFileHolds ==
  ASSUME LayoutInv, LayoutAssumption, NEW q \in Procs, CopyFile(q)
  PROVE  LayoutInv'
<1> DEFINE rec == proc[q].acting
<1> USE DEF Moving, Copied, Undoing
<1>1. PICK r \in Roles : /\ Takes(q, "copy", r)
                         /\ Owned(q, old.at[r] = proc[q].acting.files[r] /\ sub.at[r] = Absent,
                                  SubBecomes([sub EXCEPT !.at[r] = old.at[r]]) /\ Took(q, r))
  BY DEF CopyFile
<1> DEFINE n == [sub EXCEPT !.at[r] = old.at[r]]
<1>2. /\ proc[q].at = "copy" /\ proc[q].wants = {} /\ proc[q].at \notin {"none", "unlock-data"}
      /\ owner["layout"] = q /\ owner["oldRow"] = q /\ IsOld(old) /\ IsSub(sub) /\ old \in oldImages
      /\ sub \in subImages /\ proc[q].inflight = 0 /\ Recovers(old, sub) /\ IsRecord(rec)
      /\ UNCHANGED <<registered, token, older, used>>
  BY <1>1, AtWork DEF Takes, Owned, LayoutStages, OldRowStages
<1>3. CASE Broken(q)
  BY <1>2, <1>3, BrokenStep
<1>4. CASE old.at[r] = rec.files[r] /\ sub.at[r] = Absent /\ SubBecomes(n) /\ Took(q, r) /\ UNCHANGED owner
  <2>1. MoveFacts(q) /\ rec.phase = "preparing" /\ sub.record = rec
    BY <1>2 DEF LayoutInv, MoveFacts
  <2>2. /\ n.record = rec /\ n.at = [sub.at EXCEPT ![r] = rec.files[r]] /\ IsSub(n)
        /\ rec.files[r] \in Nat /\ n.at[r] = rec.files[r] /\ \A k \in Roles : k # r => n.at[k] = sub.at[k]
    BY <1>2, <1>4, <2>1 DEF IsSub, IsRecord, LayoutRecords
  <2> HIDE DEF n
  <2>3. ASSUME NEW o \in oldImages PROVE Recovers(o, n)
    <3>1. Recovers(o, sub)
      BY <1>2 DEF LayoutInv, AllRecover
    <3>2. MidMove(o, n)
      BY <2>1, <2>2, <3>1 DEF Recovers, MidMove, Runtimes, Roles
    <3>3. token.saved = Absent => Nothing(o, n)
      BY <2>1, <2>2, <3>1 DEF Recovers, Nothing
    <3> QED BY <2>1, <2>2, <3>1, <3>2, <3>3 DEF Recovers, NoMove, Vacated
  <2>4. \A s \in subImages : NoMove(s.record) \/ s.record.phase \in {"preparing", "restored"}
    BY <2>1 DEF LayoutInv, Behind
  <2>5. registered.sub = {} /\ ~HomeUsable
    BY <2>1 DEF LayoutInv, Homes, HomeUsable
  <2>6. /\ Works(q) /\ proc'[q].at = "copy" /\ proc'[q].acting = rec /\ Holding(q)'
        /\ proc'[q].roles = proc[q].roles \ {r}
    BY <1>2, <1>4, TookWorks
  <2>7. subImages' \subseteq subImages \cup {n} /\ sub' = n
    BY <1>4 DEF SubBecomes, Before
  <2>8. MoveFacts(q)'
    <3>1. \A s \in subImages' : s.record = rec
      BY <1>2, <2>1, <2>2, <2>7 DEF MoveFacts
    <3>2. \A k \in Listed(rec.files) \ proc'[q].roles : sub'.at[k] = rec.files[k]
      BY <1>2, <2>1, <2>2, <2>6, <2>7 DEF MoveFacts, Listed
    <3> QED BY <2>1, <2>2, <2>6, <2>7, <3>1, <3>2 DEF MoveFacts
  <2>9. CleanFacts(q)' /\ RestoreFacts(q)'
    BY <2>6 DEF CleanFacts, RestoreFacts, Cleaning, Staging, Discarding, Placing, Retiring
  <2> QED BY <1>2, <1>4, <2>1, <2>2, <2>3, <2>4, <2>5, <2>6, <2>8, <2>9, SubStep DEF Facts, NoMove
<1> QED BY <1>1, <1>3, <1>4 DEF Owned

LEMMA SetJournalAsideHolds ==
  ASSUME LayoutInv, LayoutAssumption, NEW q \in Procs, SetJournalAside(q)
  PROVE  LayoutInv'
<1> DEFINE rec == proc[q].acting
           n == [old EXCEPT !.at["journal"] = Absent, !.moving = old.at["journal"]]
<1> USE DEF Moving, Copied, Undoing
<1>1. /\ proc[q].at = "barriers" /\ proc[q].wants = {} /\ proc[q].at \notin {"none", "unlock-data"}
      /\ owner["layout"] = q /\ owner["oldRow"] = q /\ IsOld(old) /\ IsSub(sub) /\ old \in oldImages
      /\ sub \in subImages /\ proc[q].inflight = 0 /\ Recovers(old, sub) /\ IsRecord(rec)
      /\ UNCHANGED <<registered, token, older, used>>
  BY AtWork DEF SetJournalAside, Takes, Owned, LayoutStages, OldRowStages
<1>2. CASE Broken(q)
  BY <1>1, <1>2, BrokenStep
<1>3. CASE /\ old.at["journal"] = rec.files["journal"] /\ old.moving = Absent
           /\ OldBecomes(n) /\ Took(q, "journal") /\ UNCHANGED owner
  <2>1. MoveFacts(q) /\ rec.phase = "preparing" /\ sub.record = rec /\ subImages = {sub}
    BY <1>1 DEF LayoutInv, MoveFacts
  <2>2. /\ IsOld(n) /\ n.staged = old.staged /\ n.moving = rec.files["journal"] /\ n.at["journal"] = Absent
        /\ \A k \in Roles : k # "journal" => n.at[k] = old.at[k]
    <3>1. "journal" \in Roles \ Runtimes /\ old.at["journal"] \in Nat
      BY <1>1 DEF IsOld, Runtimes, Roles
    <3> DEFINE j == old.at["journal"]
               f == [old.at EXCEPT !["journal"] = Absent]
    <3>2. f \in [Roles -> Int] /\ f["journal"] = Absent /\ \A k \in Roles : k # "journal" => f[k] = old.at[k]
      BY <1>1, <3>1 DEF IsOld, Absent
    <3>3. n = [old EXCEPT !.at = f, !.moving = j]
      BY <1>1 DEF IsOld
    <3> HIDE DEF f, j, n
    <3>4. n.at = f /\ n.moving = j /\ n.staged = old.staged
      BY <1>1, <3>3 DEF IsOld
    <3>5. n \in [at : [Roles -> Int], moving : Nat, staged : [Roles -> Nat]]
      BY <1>1, <3>1, <3>2, <3>3 DEF IsOld, j
    <3>6. IsOld(n)
      BY <1>1, <3>1, <3>2, <3>4, <3>5 DEF IsOld, Absent
    <3> QED BY <1>3, <3>2, <3>4, <3>6 DEF j
  <2> HIDE DEF n
  <2>3. Recovers(n, sub)
    <3>1. MidMove(n, sub)
      BY <1>1, <1>3, <2>1, <2>2 DEF Recovers, MidMove, Runtimes, Roles
    <3>2. token.saved = Absent => Nothing(n, sub)
      BY <1>1, <2>1, <2>2 DEF Recovers, Nothing, Absent
    <3> QED BY <1>1, <2>1, <2>2, <3>1, <3>2 DEF Recovers, NoMove, Vacated
  <2>4. ~HomeUsable /\ ~HomeUsable'
    BY <1>3, <2>1 DEF HomeUsable, OldBecomes
  <2>5. /\ Works(q) /\ proc'[q].at = "barriers" /\ proc'[q].acting = rec /\ Holding(q)'
        /\ proc'[q].roles = proc[q].roles \ {"journal"}
    BY <1>1, <1>3, TookWorks
  <2>6. old' = n /\ UNCHANGED <<sub, subImages>>
    BY <1>3 DEF OldBecomes
  <2>7. MoveFacts(q)'
    BY <1>1, <2>1, <2>2, <2>5, <2>6 DEF MoveFacts, Runtimes, Roles
  <2>8. CleanFacts(q)' /\ RestoreFacts(q)'
    BY <2>5 DEF CleanFacts, RestoreFacts, Cleaning, Staging, Discarding, Placing, Retiring
  <2> QED BY <1>1, <1>3, <2>1, <2>2, <2>3, <2>4, <2>5, <2>7, <2>8, OldStep DEF Facts, UsersStay
<1> QED BY <1>2, <1>3 DEF SetJournalAside, Owned

LEMMA InstallTombstoneHolds ==
  ASSUME LayoutInv, LayoutAssumption, NEW q \in Procs, InstallTombstone(q)
  PROVE  LayoutInv'
<1> DEFINE rec == proc[q].acting
<1> USE DEF Moving, Copied, Undoing
<1>1. PICK r \in Runtimes : /\ Takes(q, "barriers", r)
                            /\ Owned(q, old.at[r] = proc[q].acting.files[r],
                                     /\ OldBecomes([old EXCEPT !.at[r] = Tombstone(proc[q].acting.attempt)])
                                     /\ Took(q, r))
  BY DEF InstallTombstone
<1> DEFINE n == [old EXCEPT !.at[r] = Tombstone(rec.attempt)]
<1>2. /\ proc[q].at = "barriers" /\ proc[q].wants = {} /\ proc[q].at \notin {"none", "unlock-data"}
      /\ owner["layout"] = q /\ owner["oldRow"] = q /\ IsOld(old) /\ IsSub(sub) /\ old \in oldImages
      /\ sub \in subImages /\ proc[q].inflight = 0 /\ Recovers(old, sub) /\ IsRecord(rec)
      /\ UNCHANGED <<registered, token, older, used>>
  BY <1>1, AtWork DEF Takes, Owned, LayoutStages, OldRowStages
<1>3. CASE Broken(q)
  BY <1>2, <1>3, BrokenStep
<1>4. CASE old.at[r] = rec.files[r] /\ OldBecomes(n) /\ Took(q, r) /\ UNCHANGED owner
  <2>1. /\ MoveFacts(q) /\ rec.phase = "preparing" /\ sub.record = rec /\ subImages = {sub}
        /\ \A k \in Listed(rec.files) : sub.at[k] = rec.files[k]
    BY <1>2 DEF LayoutInv, MoveFacts
  <2>2. rec.attempt \in Nat /\ rec.attempt > 0
    BY <1>2, <2>1 DEF IsRecord, LayoutRecords
  <2>3. /\ IsOld(n) /\ n.staged = old.staged /\ n.moving = old.moving /\ n.at[r] = Tombstone(rec.attempt)
        /\ IsTombstone(n.at[r]) /\ \A k \in Roles : k # r => n.at[k] = old.at[k]
    BY <1>2, <2>2 DEF IsOld, Runtimes, Roles, Tombstone, IsTombstone
  <2> HIDE DEF n
  <2>4. Recovers(n, sub)
    <3>1. MidMove(n, sub)
      BY <1>2, <1>4, <2>1, <2>3 DEF Recovers, MidMove, Runtimes, Roles, Listed
    <3>2. ASSUME token.saved = Absent PROVE Nothing(n, sub)
      <4>1. Nothing(old, sub)
        BY <1>2, <3>2 DEF Recovers
      <4>2. n.at[r] <= 0
        BY <2>2, <2>3 DEF Tombstone
      <4> QED BY <2>3, <4>1, <4>2 DEF Nothing
    <3> QED BY <1>2, <2>1, <2>3, <3>1, <3>2 DEF Recovers, NoMove, Vacated
  <2>5. ~HomeUsable /\ ~HomeUsable'
    BY <1>4, <2>1 DEF HomeUsable, OldBecomes
  <2>6. /\ Works(q) /\ proc'[q].at = "barriers" /\ proc'[q].acting = rec /\ Holding(q)'
        /\ proc'[q].roles = proc[q].roles \ {r}
    BY <1>2, <1>4, TookWorks
  <2>7. old' = n /\ UNCHANGED <<sub, subImages>>
    BY <1>4 DEF OldBecomes
  <2>8. MoveFacts(q)'
    BY <1>2, <2>1, <2>3, <2>6, <2>7 DEF MoveFacts, Runtimes, Roles
  <2>9. CleanFacts(q)' /\ RestoreFacts(q)'
    BY <2>6 DEF CleanFacts, RestoreFacts, Cleaning, Staging, Discarding, Placing, Retiring
  <2> QED BY <1>2, <1>4, <2>1, <2>3, <2>4, <2>5, <2>6, <2>8, <2>9, OldStep DEF Facts, UsersStay
<1> QED BY <1>1, <1>3, <1>4 DEF Owned

\* The commit: from here on the record leads to the state folder.
LEMMA CommitKeeps ==
  ASSUME LayoutInv, LayoutAssumption, NEW q \in Procs, Commit(q)
  PROVE  LayoutInv'
<1> DEFINE was == proc[q].acting
           rec == [was EXCEPT !.phase = "committed", !.cleanup = "pending"]
           n == [sub EXCEPT !.record = rec]
<1> USE DEF Moving, Copied, Undoing
<1>1. /\ proc[q].at = "commit" /\ proc[q].wants = {} /\ proc[q].at \notin {"none", "unlock-data"}
      /\ owner["layout"] = q /\ owner["oldRow"] = q /\ IsOld(old) /\ IsSub(sub) /\ old \in oldImages
      /\ sub \in subImages /\ proc[q].inflight = 0 /\ Recovers(old, sub) /\ IsRecord(was)
      /\ UNCHANGED <<registered, token, older, used>> /\ used \in Counters
  BY AtWork DEF Commit, LayoutStages, OldRowStages
<1>2. CASE Unsure(q) /\ UNCHANGED folders
  <2>1. FoldersStay
    BY <1>1, <1>2 DEF FoldersStay
  <2>2. CASE Settle(q, "stay")
    BY <1>1, <2>1, <2>2, SettleStep
  <2>3. CASE Restart(q)
    BY <1>1, <2>1, <2>3, RestartStep
  <2> QED BY <1>2, <2>2, <2>3 DEF Unsure
<1>3. CASE SubBecomes(n) /\ Act(q, "committed", rec, "committed", {}) /\ UNCHANGED owner
  <2>1. /\ was.phase = "preparing" /\ sub.record = was /\ subImages = {sub} /\ oldImages = {old}
        /\ Verified(was) /\ \A r \in Runtimes : old.at[r] = Tombstone(was.attempt)
    BY <1>1 DEF LayoutInv, MoveFacts
  <2>2. /\ IsRecord(rec) /\ rec.phase = "committed" /\ rec.cleanup = "pending" /\ rec.attempt = was.attempt
        /\ rec.files = was.files
    BY <1>1, <2>1 DEF IsRecord, LayoutRecords, Phases, Cleanups
  <2> HIDE DEF rec
  <2>3. n.record = rec /\ n.at = sub.at /\ IsSub(n)
    BY <1>1, <2>2 DEF IsSub, IsRecord
  <2> HIDE DEF n
  <2>4. Recovers(old, n)
    <3>1. SubComplete(old, n)
      BY <1>1, <2>1, <2>2, <2>3 DEF Recovers, MidMove, Verified, SubComplete, DataRoles, Roles
    <3>2. token.saved = Absent => Nothing(old, n)
      BY <1>1, <2>2, <2>3 DEF Recovers, Nothing
    <3> QED BY <1>1, <2>1, <2>2, <2>3, <3>1, <3>2 DEF Recovers, NoMove, Vacated
  <2>5. registered.sub = {} /\ ~HomeUsable
    BY <2>1 DEF LayoutInv, Homes, HomeUsable
  <2>6. Works(q)
    BY <1>1, <1>3, <2>2, ActWorks
  <2>7. Holding(q)'
    BY <1>1, <1>3, ActHolding
  <2>8. proc'[q].at = "committed" /\ proc'[q].acting = rec
    BY <1>3, Acted DEF LayoutInv
  <2>9. MoveFacts(q)' /\ CleanFacts(q)' /\ RestoreFacts(q)'
    BY <1>3, <2>2, <2>3, <2>8 DEF MoveFacts, CleanFacts, RestoreFacts, SubBecomes,
       Cleaning, Staging, Discarding, Placing, Retiring
  <2> QED BY <1>1, <1>3, <2>1, <2>2, <2>3, <2>4, <2>5, <2>6, <2>7, <2>9, SubStep DEF Facts, NoMove
<1> QED BY <1>1, <1>2, <1>3 DEF Commit, Publish

---------------------------------------------------------------------------
(* Removing the old copies.                                                *)

LEMMA LookForJournalHolds ==
  ASSUME LayoutInv, LayoutAssumption, NEW q \in Procs, LookForJournal(q)
  PROVE  LayoutInv'
<1> DEFINE was == proc[q].acting
           c == IF old.at["journal"] # Absent THEN "conflict" ELSE "done"
           rec == [was EXCEPT !.cleanup = c]
<1> USE DEF Cleaning
<1>1. /\ proc[q].at = "look-for-a-journal" /\ proc[q].wants = {} /\ proc[q].at \notin {"none", "unlock-data"}
      /\ owner["layout"] = q /\ owner["oldRow"] = q /\ IsRecord(was)
      /\ DOMAIN owner = Locks /\ owner = [l \in Locks |-> owner[l]]
  BY AtWork DEF LookForJournal, LayoutStages, OldRowStages
<1>2. Act(q, "clean", rec, "clean", {}) /\ UNCHANGED <<folders, owner, registered, token, older, used>>
  BY DEF LookForJournal
<1>3. /\ was = sub.record /\ was.phase = "committed" /\ \A s \in subImages : s.record.phase = "committed"
      /\ sub.record.cleanup \in {"pending", "conflict"}
  BY <1>1 DEF LayoutInv, CleanFacts
<1>4. c \in Cleanups /\ c \in {"done", "conflict"}
  BY DEF Cleanups
<1>5. c = "conflict" <=> old.at["journal"] # Absent
  OBVIOUS
<1> HIDE DEF c
<1>6. /\ IsRecord(rec) /\ rec.phase = "committed" /\ rec.attempt = was.attempt /\ rec.files = was.files
      /\ rec.cleanup = c
  BY <1>1, <1>3, <1>4 DEF IsRecord, LayoutRecords
<1> HIDE DEF rec
<1>7. FoldersStay
  BY <1>2 DEF FoldersStay
<1>8. Holding(q)'
  BY <1>1, <1>2, ActHolding
<1>9. proc'[q].at = "clean" /\ proc'[q].acting = rec /\ proc'[q].roles = StageFiles(q, "clean", rec)
  BY <1>2, Acted DEF LayoutInv
<1>10. proc'[q].roles = CleanRoles
  BY <1>9 DEF StageFiles
<1>11. CleanFacts(q)'
  BY <1>2, <1>3, <1>4, <1>5, <1>6, <1>9, <1>10 DEF CleanFacts, CleanRoles, Conflict, folders
<1>12. MoveFacts(q)' /\ RestoreFacts(q)'
  BY <1>9 DEF MoveFacts, RestoreFacts, Moving, Copied, Undoing, Staging, Discarding, Placing, Retiring
<1> QED BY <1>1, <1>2, <1>6, <1>7, <1>8, <1>11, <1>12, ActStep DEF Facts

LEMMA CleanHolds ==
  ASSUME LayoutInv, LayoutAssumption, NEW q \in Procs, Clean(q)
  PROVE  LayoutInv'
<1> DEFINE was == proc[q].acting
<1> USE DEF Cleaning
<1>1. PICK r \in CleanRoles :
    /\ Takes(q, "clean", r)
    /\ LET rec == proc[q].acting
           same == OldCopy(r) = rec.files[r]
           changed == IF r \in Credentials THEN "conflict"
                      ELSE IF rec.files[r] # Absent /\ rec.cleanup # "conflict" THEN "kept"
                      ELSE rec.cleanup IN
       /\ IF same THEN OldBecomes(WithoutOldCopy(r)) ELSE UNCHANGED folders
       /\ proc' = [proc EXCEPT ![q].roles = @ \ {r},
                               ![q].acting.cleanup = IF same \/ OldCopy(r) = Absent THEN @ ELSE changed]
    /\ UNCHANGED <<owner, registered, token, older, used>>
  BY DEF Clean
<1> DEFINE same == OldCopy(r) = was.files[r]
           changed == IF r \in Credentials THEN "conflict"
                      ELSE IF was.files[r] # Absent /\ was.cleanup # "conflict" THEN "kept" ELSE was.cleanup
           c == IF same \/ OldCopy(r) = Absent THEN was.cleanup ELSE changed
           rec == [was EXCEPT !.cleanup = c]
           w == proc[q].roles \ {r}
           x == [proc[q] EXCEPT !.roles = w, !.acting = rec]
           n == IF same THEN WithoutOldCopy(r) ELSE old
<1>2. /\ proc[q].at = "clean" /\ proc[q].wants = {} /\ proc[q].at \notin {"none", "unlock-data"}
      /\ owner["layout"] = q /\ owner["oldRow"] = q /\ IsOld(old) /\ IsSub(sub) /\ old \in oldImages
      /\ sub \in subImages /\ proc[q].inflight = 0 /\ Recovers(old, sub) /\ IsRecord(was)
      /\ UNCHANGED <<owner, registered, token, older, used>> /\ used \in Counters /\ r \in Roles \ Runtimes
  BY <1>1, AtWork DEF Takes, LayoutStages, OldRowStages, CleanRoles, Roles, Runtimes
<1>3. /\ \A s \in subImages : s.record.phase = "committed"
      /\ sub.record.cleanup \in {"pending", "conflict"}
      /\ was.phase = "committed" /\ was.attempt = sub.record.attempt /\ was.files = sub.record.files
      /\ was.cleanup = "conflict" => Conflict(old, sub.record)
      /\ was.cleanup \in {"done", "kept", "conflict"}
      /\ was.cleanup # "conflict" =>
           /\ old.at["journal"] = Absent
           /\ Alone /\ "localPoolState" \notin proc[q].roles => old.at["localPoolState"] = Absent
           /\ "journal" \notin proc[q].roles => old.moving = Absent
  BY <1>2 DEF LayoutInv, CleanFacts
<1>4. Shape(proc[q]) /\ proc' = [proc EXCEPT ![q] = x]
  <2>1. Shape(proc[q])
    BY DEF LayoutInv, LayoutTypes
  <2>2. proc' = [proc EXCEPT ![q].roles = proc[q].roles \ {r}, ![q].acting.cleanup = c]
    BY <1>1
  <2> HIDE DEF c
  <2> DEFINE y == [proc[q] EXCEPT !.roles = w]
  <2>3. proc' = [[proc EXCEPT ![q] = y] EXCEPT ![q].acting.cleanup = c]
    BY <2>2 DEF LayoutInv, LayoutTypes
  <2>4. y.acting = was
    BY <2>1 DEF Shape, Fields
  <2>5. proc' = [proc EXCEPT ![q] = [y EXCEPT !.acting = rec]]
    <3> HIDE DEF y
    <3> QED BY <2>3, <2>4 DEF LayoutInv, LayoutTypes
  <2> QED BY <2>1, <2>5
<1>5. n.at \in [Roles -> Int] /\ n = [at |-> n.at, moving |-> n.moving, staged |-> old.staged]
  BY <1>2 DEF IsOld, WithoutOldCopy, Absent
<1>6. /\ n.moving \in {old.moving, Absent} /\ n.staged = old.staged
      /\ \A k \in Roles : n.at[k] \in {old.at[k], Absent}
      /\ \A k \in Runtimes : n.at[k] = old.at[k]
      /\ n.at["journal"] = old.at["journal"]
      /\ r # "localPoolState" => n.at["localPoolState"] = old.at["localPoolState"]
      /\ r # "journal" => n.moving = old.moving
      /\ r = "localPoolState" => n.at["localPoolState"] = IF same THEN Absent ELSE old.at["localPoolState"]
      /\ r = "journal" => n.moving = IF same THEN Absent ELSE old.moving
      /\ IsOld(n)
  <2>1. CASE ~same
    BY <1>2, <2>1 DEF IsOld
  <2>2. CASE same /\ r = "journal"
    BY <1>2, <2>2 DEF IsOld, WithoutOldCopy, Absent
  <2>3. CASE same /\ r # "journal"
    <3> DEFINE f == [old.at EXCEPT ![r] = Absent]
    <3>1. /\ f \in [Roles -> Int] /\ f[r] = Absent /\ \A k \in Roles : k # r => f[k] = old.at[k]
      BY <1>2 DEF IsOld, Absent
    <3>2. n = [old EXCEPT !.at = f]
      BY <1>2, <2>3 DEF IsOld, WithoutOldCopy
    <3> HIDE DEF f, n
    <3>3. n.at = f /\ n.moving = old.moving /\ n.staged = old.staged
      BY <1>2, <3>2 DEF IsOld
    <3>4. IsOld(n)
      BY <1>2, <3>1, <3>2 DEF IsOld, Absent
    <3>5. "journal" \in Roles /\ "localPoolState" \in Roles /\ Runtimes \subseteq Roles
      BY DEF Roles, Runtimes
    <3> QED BY <1>2, <2>3, <3>1, <3>3, <3>4, <3>5
  <2> QED BY <2>1, <2>2, <2>3
<1>7. c \in {"done", "kept", "conflict"} /\ (was.cleanup = "conflict" => c = "conflict")
  BY <1>3
<1>8. /\ c = "conflict" => \/ was.cleanup = "conflict"
                           \/ r \in Credentials /\ ~same /\ OldCopy(r) # Absent
      /\ c # "conflict" => r \notin Credentials \/ same \/ OldCopy(r) = Absent
  BY <1>3
<1> HIDE DEF c, n
<1>9. /\ IsRecord(rec) /\ rec.phase = "committed" /\ rec.attempt = was.attempt /\ rec.files = was.files
      /\ rec.cleanup = c
  BY <1>2, <1>3, <1>7 DEF IsRecord, LayoutRecords, Cleanups
<1> HIDE DEF rec, w
<1>10. /\ Shape(x) /\ x.at = proc[q].at /\ x.wants = proc[q].wants /\ x.job = proc[q].job
       /\ x.mode = proc[q].mode /\ x.acting = rec /\ x.inflight = proc[q].inflight /\ x.roles = w
  BY <1>4 DEF Shape, Fields
<1> HIDE DEF x
<1>11. OthersStay(q) /\ proc'[q] = x
  BY <1>2, <1>4 DEF OthersStay, LayoutInv, LayoutTypes
<1>12. Works(q)
  <2>1. proc[q].mode # "home"
    BY <1>2, Working DEF Serves
  <2> QED BY <1>2, <1>9, <1>10, <1>11, <2>1 DEF Works
<1>13. Holding(q)'
  BY <1>2, <1>10, <1>11 DEF LayoutInv, Holding, Serves
<1>14. /\ old' = n /\ UNCHANGED <<sub, subImages>>
       /\ OldBecomes(n) \/ (n = old /\ UNCHANGED folders)
  BY <1>1 DEF OldBecomes, n, folders
<1>15. r \in Credentials => r \in {"localPoolState", "journal"}
  BY DEF Credentials
<1>16. /\ same \/ OldCopy(r) = Absent => /\ r = "localPoolState" => n.at["localPoolState"] = Absent
                                         /\ r = "journal" => n.moving = Absent
       /\ r = "journal" => OldCopy(r) = old.moving
       /\ r # "journal" => OldCopy(r) = old.at[r]
  BY <1>6 DEF OldCopy
<1>17. Conflict(old, sub.record) => Conflict(n, sub.record)
  BY <1>3, <1>6, <1>16 DEF Conflict, SecondCopy
<1>18. c = "conflict" => Conflict(n, sub.record)
  <2>1. CASE was.cleanup = "conflict"
    BY <1>3, <1>17, <2>1
  <2>2. CASE r = "localPoolState" /\ ~same /\ OldCopy(r) # Absent
    BY <1>3, <1>6, <1>16, <2>2 DEF Conflict, SecondCopy
  <2>3. CASE r = "journal" /\ ~same /\ OldCopy(r) # Absent
    BY <1>3, <1>6, <1>16, <2>3 DEF Conflict, SecondCopy
  <2> QED BY <1>8, <1>15, <2>1, <2>2, <2>3
<1>19. c # "conflict" =>
         /\ n.at["journal"] = Absent
         /\ Alone /\ "localPoolState" \notin w => n.at["localPoolState"] = Absent
         /\ "journal" \notin w => n.moving = Absent
  <2>1. "localPoolState" \in Credentials /\ "journal" \in Credentials /\ "localPoolState" \in Roles
    BY DEF Credentials, Roles
  <2> QED BY <1>3, <1>6, <1>7, <1>8, <1>16, <2>1 DEF w
<1>20. CleanFacts(q)'
  BY <1>2, <1>3, <1>7, <1>9, <1>10, <1>11, <1>14, <1>18, <1>19 DEF CleanFacts, Conflict, SecondCopy
<1>21. MoveFacts(q)' /\ RestoreFacts(q)'
  BY <1>2, <1>10, <1>11 DEF MoveFacts, RestoreFacts, Moving, Copied, Undoing, Staging, Discarding, Placing, Retiring
<1>22. CASE OldBecomes(n)
  <2>1. ASSUME NEW s \in subImages PROVE Recovers(n, s)
    <3>1. Recovers(old, s) /\ s.record.phase = "committed"
      BY <1>2, <1>3 DEF LayoutInv, AllRecover
    <3>2. SubComplete(n, s)
      BY <1>6, <3>1 DEF Recovers, SubComplete
    <3>3. token.saved = Absent => Nothing(n, s)
      BY <1>6, <3>1 DEF Recovers, Nothing, Absent
    <3>4. Vacated(s.record) => n.moving = Absent
      BY <1>6, <3>1 DEF Recovers
    <3> QED BY <1>6, <3>1, <3>2, <3>3, <3>4 DEF Recovers, NoMove
  <2>2. UsersStay(q)
    BY <1>2, <1>6, <1>14 DEF UsersStay, HomeUsable, Conflict, SecondCopy
  <2> QED BY <1>2, <1>3, <1>6, <1>12, <1>13, <1>20, <1>21, <1>22, <2>1, <2>2, OldStep DEF Facts
<1>23. CASE UNCHANGED folders
  <2>1. FoldersStay /\ used' \in Counters
    BY <1>2, <1>23 DEF FoldersStay
  <2> QED BY <1>2, <1>9, <1>10, <1>11, <1>12, <1>13, <1>20, <1>21, <2>1, QuietStep DEF Facts, Works
<1> QED BY <1>14, <1>22, <1>23

LEMMA RecordCleanupHolds ==
  ASSUME LayoutInv, LayoutAssumption, NEW q \in Procs, RecordCleanup(q)
  PROVE  LayoutInv'
<1> DEFINE rec == proc[q].acting
<1>1. /\ proc[q].at = "record-cleanup" /\ proc[q].wants = {} /\ proc[q].at \notin {"none", "unlock-data"}
      /\ owner["layout"] = q /\ owner["oldRow"] = q /\ IsRecord(rec) /\ used \in Counters
      /\ UNCHANGED <<registered, token, older, used>>
  BY AtWork DEF RecordCleanup, Publishes, Owned, LayoutStages, OldRowStages, Cleaning
<1>2. CASE Broken(q)
  BY <1>1, <1>2, BrokenStep
<1>3. CASE Publish(rec) /\ Act(q, proc[q].job, rec, "cleaned", {}) /\ UNCHANGED owner
  <2>1. Works(q) /\ proc[q].inflight = 0
    BY <1>1, <1>3, ActWorks
  <2>2. proc[q].job # "moving"
    BY <1>1 DEF LayoutInv, Holding, Copied
  <2>3. Holding(q)'
    BY <1>1, <1>3, <2>2, ActHolding
  <2>4. proc'[q].at = "cleaned" /\ proc'[q].acting = rec
    BY <1>3, Acted DEF LayoutInv
  <2>5. sub' = [sub EXCEPT !.record = rec] /\ subImages' \subseteq subImages \cup {sub'}
    BY <1>3 DEF Publish, SubBecomes, Before
  <2>6. sub'.record = rec
    BY <2>5 DEF LayoutInv, LayoutTypes, IsSub
  <2>7. CleanFacts(q)'
    BY <1>1, <2>4, <2>5, <2>6 DEF LayoutInv, CleanFacts, Cleaning
  <2>8. MoveFacts(q)' /\ RestoreFacts(q)'
    BY <2>4 DEF MoveFacts, RestoreFacts, Moving, Copied, Undoing, Staging, Discarding, Placing, Retiring
  <2> QED BY <1>1, <1>3, <2>1, <2>3, <2>7, <2>8, CleanupRecord DEF Facts
<1> QED BY <1>2, <1>3 DEF RecordCleanup, Publishes, Owned

---------------------------------------------------------------------------
(* Rolling back.                                                           *)

\* A file that needs nothing.
LEMMA TookStep ==
  ASSUME LayoutInv, NEW q \in Procs, proc[q].at # "none", NEW r, Took(q, r), UNCHANGED folders,
         UNCHANGED <<owner, registered, token, older, used>>,
         MoveFacts(q)' /\ CleanFacts(q)' /\ RestoreFacts(q)'
  PROVE  LayoutInv'
<1>1. Works(q) /\ proc[q].inflight = 0 /\ proc'[q].acting = proc[q].acting /\ Holding(q)'
  BY TookWorks
<1>2. FoldersStay
  BY DEF FoldersStay
<1> QED BY <1>1, <1>2, QuietStep DEF Works, Facts

LEMMA BringJournalBackHolds ==
  ASSUME LayoutInv, LayoutAssumption, NEW q \in Procs, BringJournalBack(q)
  PROVE  LayoutInv'
<1> DEFINE rec == proc[q].acting
           n == [old EXCEPT !.at["journal"] = old.moving, !.moving = Absent]
<1> USE DEF Moving, Copied, Undoing
<1>1. /\ proc[q].at = "bring-back" /\ proc[q].wants = {} /\ proc[q].at # "none"
      /\ owner["layout"] = q /\ owner["oldRow"] = q /\ IsOld(old) /\ IsSub(sub) /\ old \in oldImages
      /\ sub \in subImages /\ proc[q].inflight = 0 /\ Recovers(old, sub) /\ IsRecord(rec)
      /\ UNCHANGED <<registered, token, older, used>>
  BY AtWork DEF BringJournalBack, Takes, LayoutStages, OldRowStages
<1>2. MoveFacts(q) /\ rec.phase = "preparing" /\ sub.record = rec
  BY <1>1 DEF LayoutInv, MoveFacts
<1>3. CASE Unsafe(q)
  <2>1. Refused(q) /\ FoldersStay
    BY <1>1, <1>3 DEF Unsafe, Refused, FoldersStay
  <2> QED BY <1>1, <2>1, RefusedStep
<1>4. ASSUME Took(q, "journal"), UNCHANGED owner
      PROVE  /\ Works(q) /\ proc'[q].at = "bring-back" /\ proc'[q].acting = rec /\ Holding(q)'
             /\ proc'[q].roles = proc[q].roles \ {"journal"}
             /\ CleanFacts(q)' /\ RestoreFacts(q)'
  <2>1. /\ Works(q) /\ proc'[q].at = "bring-back" /\ proc'[q].acting = rec /\ Holding(q)'
        /\ proc'[q].roles = proc[q].roles \ {"journal"}
    BY <1>1, <1>4, TookWorks
  <2>2. CleanFacts(q)' /\ RestoreFacts(q)'
    BY <2>1 DEF CleanFacts, RestoreFacts, Cleaning, Staging, Discarding, Placing, Retiring
  <2> QED BY <2>1, <2>2
<1>5. CASE old.moving = Absent /\ Took(q, "journal") /\ UNCHANGED <<owner, folders>>
  <2>1. MoveFacts(q)'
    BY <1>1, <1>2, <1>4, <1>5 DEF MoveFacts, folders, Runtimes
  <2> QED BY <1>1, <1>4, <1>5, <2>1, TookStep
<1>6. CASE /\ old.moving # Absent /\ old.at["journal"] = Absent
           /\ OldBecomes(n) /\ Took(q, "journal") /\ UNCHANGED owner
  <2>1. /\ IsOld(n) /\ n.staged = old.staged /\ n.moving = Absent /\ n.at["journal"] = old.moving
        /\ \A k \in Roles : k # "journal" => n.at[k] = old.at[k]
    <3> DEFINE j == old.moving
               f == [old.at EXCEPT !["journal"] = j]
    <3>1. j \in Nat /\ "journal" \in Roles \ Runtimes
      BY <1>1 DEF IsOld, Runtimes, Roles
    <3> HIDE DEF j
    <3>2. f \in [Roles -> Int] /\ f["journal"] = j /\ \A k \in Roles : k # "journal" => f[k] = old.at[k]
      BY <1>1, <3>1 DEF IsOld
    <3>3. n = [old EXCEPT !.at = f, !.moving = Absent]
      BY <1>1 DEF IsOld, j
    <3> HIDE DEF f, n
    <3>4. n.at = f /\ n.moving = Absent /\ n.staged = old.staged
      BY <1>1, <3>3 DEF IsOld
    <3>5. n \in [at : [Roles -> Int], moving : Nat, staged : [Roles -> Nat]]
      BY <1>1, <3>1, <3>2, <3>3 DEF IsOld, Absent
    <3>6. IsOld(n)
      BY <1>1, <3>1, <3>2, <3>4, <3>5 DEF IsOld, Absent
    <3> QED BY <3>2, <3>4, <3>6 DEF j
  <2> HIDE DEF n
  <2>2. ASSUME NEW s \in subImages PROVE Recovers(n, s) /\ s.record.phase = "preparing"
    <3>1. Recovers(old, s) /\ (NoMove(s.record) \/ s.record.phase \in {"preparing", "restored"})
      BY <1>1, <1>2 DEF LayoutInv, AllRecover, Behind
    <3>2. s.record.phase = "preparing" /\ ~NoMove(s.record)
      BY <1>6, <3>1 DEF Recovers, Undone
    <3>3. MidMove(n, s)
      BY <1>6, <2>1, <3>1, <3>2 DEF Recovers, MidMove, Runtimes, Roles
    <3>4. token.saved # Absent
      BY <1>1, <1>2, <1>6 DEF Recovers, Nothing, MidMove, Roles
    <3> QED BY <2>1, <3>1, <3>2, <3>3, <3>4 DEF Recovers, Vacated
  <2>3. old' = n /\ UNCHANGED <<sub, subImages>>
    BY <1>6 DEF OldBecomes
  <2>4. UsersStay(q)
    BY <1>1, <1>2, <2>3 DEF UsersStay, HomeUsable
  <2>5. MoveFacts(q)'
    BY <1>1, <1>2, <1>4, <1>6, <2>1, <2>3 DEF MoveFacts, Runtimes, Roles
  <2> QED BY <1>1, <1>4, <1>6, <2>1, <2>2, <2>4, <2>5, OldStep DEF Facts
<1> QED BY <1>3, <1>5, <1>6 DEF BringJournalBack

LEMMA BringRuntimeBackHolds ==
  ASSUME LayoutInv, LayoutAssumption, NEW q \in Procs, BringRuntimeBack(q)
  PROVE  LayoutInv'
<1> DEFINE rec == proc[q].acting
<1> USE DEF Moving, Copied, Undoing
<1>0. PICK r \in Runtimes :
    /\ Takes(q, "bring-back", r)
    /\ LET own == old.at[r] = Tombstone(rec.attempt) IN
       \/ /\ \/ IsTombstone(old.at[r]) /\ ~own
             \/ own /\ rec.files[r] # Absent /\ sub.at[r] # rec.files[r]
          /\ Unsafe(q)
       \/ /\ own /\ rec.files[r] \in {Absent, sub.at[r]}
          /\ OldBecomes([old EXCEPT !.at[r] = rec.files[r]])
          /\ Took(q, r) /\ UNCHANGED owner
       \/ /\ ~IsTombstone(old.at[r])
          /\ Took(q, r) /\ UNCHANGED <<owner, folders>>
    /\ UNCHANGED <<registered, token, older, used>>
  BY DEF BringRuntimeBack
<1> DEFINE n == [old EXCEPT !.at[r] = rec.files[r]]
<1>1. /\ proc[q].at = "bring-back" /\ proc[q].wants = {} /\ proc[q].at # "none"
      /\ owner["layout"] = q /\ owner["oldRow"] = q /\ IsOld(old) /\ IsSub(sub) /\ old \in oldImages
      /\ sub \in subImages /\ proc[q].inflight = 0 /\ Recovers(old, sub) /\ IsRecord(rec)
      /\ UNCHANGED <<registered, token, older, used>>
  BY <1>0, AtWork DEF Takes, LayoutStages, OldRowStages
<1>2. MoveFacts(q) /\ rec.phase = "preparing" /\ sub.record = rec
  BY <1>1 DEF LayoutInv, MoveFacts
<1>3. CASE Unsafe(q)
  <2>1. Refused(q) /\ FoldersStay
    BY <1>1, <1>3 DEF Unsafe, Refused, FoldersStay
  <2> QED BY <1>1, <2>1, RefusedStep
<1>4. ASSUME Took(q, r), UNCHANGED owner
      PROVE  /\ Works(q) /\ proc'[q].at = "bring-back" /\ proc'[q].acting = rec /\ Holding(q)'
             /\ proc'[q].roles = proc[q].roles \ {r}
             /\ CleanFacts(q)' /\ RestoreFacts(q)'
  <2>1. /\ Works(q) /\ proc'[q].at = "bring-back" /\ proc'[q].acting = rec /\ Holding(q)'
        /\ proc'[q].roles = proc[q].roles \ {r}
    BY <1>1, <1>4, TookWorks
  <2>2. CleanFacts(q)' /\ RestoreFacts(q)'
    BY <2>1 DEF CleanFacts, RestoreFacts, Cleaning, Staging, Discarding, Placing, Retiring
  <2> QED BY <2>1, <2>2
<1>5. CASE ~IsTombstone(old.at[r]) /\ Took(q, r) /\ UNCHANGED <<owner, folders>>
  <2>1. MoveFacts(q)'
    BY <1>1, <1>2, <1>4, <1>5 DEF MoveFacts, folders, Runtimes
  <2> QED BY <1>1, <1>4, <1>5, <2>1, TookStep
<1>6. CASE /\ old.at[r] = Tombstone(rec.attempt) /\ OldBecomes(n) /\ Took(q, r) /\ UNCHANGED owner
  <2>1. rec.files[r] \in Nat /\ rec.attempt \in Nat /\ rec.attempt > 0 /\ r \in Roles
    BY <1>1, <1>2 DEF IsRecord, LayoutRecords, Runtimes, Roles
  <2>2. /\ IsOld(n) /\ n.staged = old.staged /\ n.moving = old.moving /\ n.at[r] = rec.files[r]
        /\ ~IsTombstone(n.at[r]) /\ \A k \in Roles : k # r => n.at[k] = old.at[k]
    BY <1>1, <2>1 DEF IsOld, Runtimes, Roles, IsTombstone
  <2> HIDE DEF n
  <2>3. ASSUME NEW s \in subImages PROVE Recovers(n, s) /\ s.record.phase = "preparing"
    <3>1. Recovers(old, s) /\ (NoMove(s.record) \/ s.record.phase \in {"preparing", "restored"})
      BY <1>1, <1>2 DEF LayoutInv, AllRecover, Behind
    <3>2. Pointed(old)
      BY <1>6, <2>1 DEF Pointed, IsTombstone, Tombstone
    <3>3. s.record.phase = "preparing" /\ ~NoMove(s.record)
      BY <3>1, <3>2 DEF Recovers, Undone, OldComplete
    <3>4. MidMove(n, s)
      BY <2>2, <3>1, <3>3 DEF Recovers, MidMove, Runtimes, Roles
    <3>5. ASSUME token.saved = Absent PROVE Nothing(n, s)
      <4>1. Nothing(old, s) /\ Nothing(old, sub)
        BY <1>1, <3>1, <3>5 DEF Recovers
      <4>2. n.at[r] = 0
        BY <1>2, <2>1, <2>2, <4>1 DEF Nothing, Absent
      <4> QED BY <2>2, <4>1, <4>2 DEF Nothing
    <3> QED BY <2>2, <3>1, <3>3, <3>4, <3>5 DEF Recovers, Vacated
  <2>4. old' = n /\ UNCHANGED <<sub, subImages>>
    BY <1>6 DEF OldBecomes
  <2>5. UsersStay(q)
    BY <1>1, <1>2, <2>4 DEF UsersStay, HomeUsable
  <2>6. MoveFacts(q)'
    BY <1>1, <1>2, <1>4, <1>6, <2>2, <2>4 DEF MoveFacts, Runtimes, Roles
  <2> QED BY <1>1, <1>4, <1>6, <2>2, <2>3, <2>5, <2>6, OldStep DEF Facts
<1> QED BY <1>0, <1>3, <1>5, <1>6

LEMMA DropCopyHolds ==
  ASSUME LayoutInv, LayoutAssumption, NEW q \in Procs, DropCopy(q)
  PROVE  LayoutInv'
<1> DEFINE rec == proc[q].acting
<1> USE DEF Moving, Copied, Undoing
<1>1. PICK r \in Roles :
    /\ Takes(q, "drop-copies", r)
    /\ IF sub.at[r] = rec.files[r] /\ old.at[r] # Absent
       THEN SubBecomes([sub EXCEPT !.at[r] = Absent])
       ELSE UNCHANGED folders
    /\ Took(q, r)
    /\ UNCHANGED <<owner, registered, token, older, used>>
  BY DEF DropCopy
<1> DEFINE n == [sub EXCEPT !.at[r] = Absent]
<1>2. /\ proc[q].at = "drop-copies" /\ proc[q].wants = {} /\ proc[q].at # "none"
      /\ owner["layout"] = q /\ IsOld(old) /\ IsSub(sub) /\ old \in oldImages
      /\ sub \in subImages /\ proc[q].inflight = 0 /\ IsRecord(rec)
      /\ UNCHANGED <<owner, registered, token, older, used>>
  BY <1>1, AtWork DEF Takes, LayoutStages, OldRowStages
<1>3. /\ MoveFacts(q) /\ rec.phase = "preparing" /\ sub.record = rec
      /\ \A o \in oldImages : Undone(o) /\ Undone(o)'
  <2>1. MoveFacts(q)
    BY DEF LayoutInv
  <2>2. \A o \in oldImages : Undone(o)
    BY <1>2, <2>1 DEF MoveFacts
  <2>3. \A o \in oldImages : Undone(o)'
    BY <1>2, <2>2 DEF Undone, OldComplete, Pointed
  <2> QED BY <1>2, <2>1, <2>2, <2>3 DEF MoveFacts
<1>4. /\ Works(q) /\ proc'[q].at = "drop-copies" /\ proc'[q].acting = rec /\ Holding(q)'
      /\ proc'[q].roles = proc[q].roles \ {r}
  BY <1>1, <1>2, TookWorks
<1>5. CleanFacts(q)' /\ RestoreFacts(q)'
  BY <1>4 DEF CleanFacts, RestoreFacts, Cleaning, Staging, Discarding, Placing, Retiring
<1>6. CASE UNCHANGED folders
  <2>1. MoveFacts(q)'
    BY <1>3, <1>4, <1>6 DEF MoveFacts, folders
  <2> QED BY <1>1, <1>2, <1>5, <1>6, <2>1, TookStep
<1>7. CASE SubBecomes(n)
  <2>1. /\ n.record = rec /\ n.at[r] = Absent /\ \A k \in Roles : k # r => n.at[k] = sub.at[k]
        /\ IsSub(n)
    BY <1>2, <1>3 DEF IsSub, Absent
  <2> HIDE DEF n
  <2>2. ASSUME NEW o \in oldImages PROVE Recovers(o, n)
    <3>1. Recovers(o, sub) /\ Undone(o)
      BY <1>2, <1>3 DEF LayoutInv, AllRecover
    <3>2. MidMove(o, n)
      BY <1>3, <2>1, <3>1 DEF Recovers, MidMove, Undone, OldComplete, Pointed
    <3>3. token.saved = Absent => Nothing(o, n)
      BY <1>3, <2>1, <3>1 DEF Recovers, Nothing
    <3> QED BY <1>3, <2>1, <3>1, <3>2, <3>3 DEF Recovers, NoMove, Vacated
  <2>3. \A s \in subImages : NoMove(s.record) \/ s.record.phase \in {"preparing", "restored"}
    BY <1>3 DEF LayoutInv, Behind
  <2>4. registered.sub = {} /\ ~HomeUsable
    BY <1>3 DEF LayoutInv, Homes, HomeUsable
  <2>5. MoveFacts(q)'
    BY <1>3, <1>4, <1>7, <2>1 DEF MoveFacts, SubBecomes
  <2> QED BY <1>2, <1>3, <1>4, <1>5, <1>7, <2>1, <2>2, <2>3, <2>4, <2>5, SubStep DEF Facts
<1> QED BY <1>1, <1>6, <1>7

LEMMA RecordRollbackHolds ==
  ASSUME LayoutInv, LayoutAssumption, NEW q \in Procs, RecordRollback(q)
  PROVE  LayoutInv'
<1> DEFINE was == proc[q].acting
           rec == [was EXCEPT !.phase = "rolled-back"]
           n == [sub EXCEPT !.record = rec]
<1> USE DEF Moving, Copied, Undoing
<1>1. /\ proc[q].at = "record-rollback" /\ proc[q].wants = {} /\ proc[q].at \notin {"none", "unlock-data"}
      /\ owner["layout"] = q /\ owner["oldRow"] = q /\ IsOld(old) /\ IsSub(sub) /\ old \in oldImages
      /\ sub \in subImages /\ IsRecord(was)
      /\ UNCHANGED <<registered, token, older, used>> /\ used \in Counters
  BY AtWork DEF RecordRollback, Publishes, Owned, LayoutStages, OldRowStages
<1>2. CASE Broken(q)
  BY <1>1, <1>2, BrokenStep
<1>3. CASE SubBecomes(n) /\ Act(q, proc[q].job, rec, "rolled-back", {}) /\ UNCHANGED owner
  <2>1. /\ was.phase = "preparing" /\ sub.record = was
        /\ \A o \in oldImages : Undone(o)
    BY <1>1 DEF LayoutInv, MoveFacts
  <2>2. /\ IsRecord(rec) /\ rec.phase = "rolled-back"
    BY <1>1, <2>1 DEF IsRecord, LayoutRecords, Phases
  <2> HIDE DEF rec
  <2>3. n.record = rec /\ n.at = sub.at /\ IsSub(n)
    BY <1>1, <2>2 DEF IsSub, IsRecord
  <2> HIDE DEF n
  <2>4. ASSUME NEW o \in oldImages PROVE Recovers(o, n)
    <3>1. Recovers(o, sub) /\ Undone(o)
      BY <1>1, <2>1 DEF LayoutInv, AllRecover
    <3>2. token.saved = Absent => Nothing(o, n)
      BY <2>2, <2>3, <3>1 DEF Recovers, Nothing
    <3> QED BY <2>1, <2>2, <2>3, <3>1, <3>2 DEF Recovers, NoMove, Vacated
  <2>5. /\ registered.sub = {} /\ ~HomeUsable
        /\ \A s \in subImages : NoMove(s.record) \/ s.record.phase \in {"preparing", "restored"}
    BY <2>1 DEF LayoutInv, Homes, HomeUsable, Behind
  <2>6. Works(q) /\ proc[q].inflight = 0
    BY <1>1, <1>3, <2>2, ActWorks
  <2>7. Holding(q)'
    <3>1. proc[q].job \notin {"moving", "clean"}
      BY <1>1 DEF LayoutInv, Holding
    <3> QED BY <1>1, <1>3, <3>1, ActHolding
  <2>8. proc'[q].at = "rolled-back" /\ proc'[q].acting = rec
    BY <1>3, Acted DEF LayoutInv
  <2>9. MoveFacts(q)' /\ CleanFacts(q)' /\ RestoreFacts(q)'
    BY <2>8 DEF MoveFacts, CleanFacts, RestoreFacts, Cleaning, Staging, Discarding, Placing, Retiring
  <2> QED BY <1>1, <1>3, <2>2, <2>3, <2>4, <2>5, <2>6, <2>7, <2>9, SubStep DEF Facts, NoMove
<1> QED BY <1>2, <1>3 DEF RecordRollback, Publishes, Owned, Publish

---------------------------------------------------------------------------
(* The restore.                                                            *)

LEMMA RestoreDecideHolds ==
  ASSUME LayoutInv, LayoutAssumption, NEW q \in Procs, RestoreDecide(q)
  PROVE  LayoutInv'
<1> DEFINE rec == sub.record
           next == [rec EXCEPT !.phase = "restoring", !.set = sub.at]
           n == [sub EXCEPT !.record = next]
<1>1. /\ proc[q].at = "restore-decide" /\ proc[q].wants = {} /\ proc[q].at # "none"
      /\ owner["layout"] = q /\ IsOld(old) /\ IsSub(sub) /\ old \in oldImages
      /\ sub \in subImages /\ proc[q].inflight = 0 /\ IsRecord(rec) /\ IsRecord(proc[q].acting)
      /\ UNCHANGED <<registered, token, older, used>> /\ used \in Counters
      /\ DOMAIN owner = Locks /\ owner = [l \in Locks |-> owner[l]]
      /\ proc[q].job \notin {"moving", "clean"}
  <2>1. At(q, "restore-decide") /\ "restore-decide" \in LayoutStages
    BY DEF RestoreDecide, LayoutStages
  <2>2. proc[q].job \notin {"moving", "clean"}
    BY <2>1 DEF At, LayoutInv, Holding, Copied
  <2> QED BY <2>1, <2>2, AtWork DEF IsSub, RestoreDecide
<1>2. CASE Refused(q) /\ UNCHANGED folders
  <2>1. FoldersStay
    BY <1>1, <1>2 DEF FoldersStay
  <2> QED BY <1>1, <1>2, <2>1, RefusedStep
<1>3. CASE Act(q, proc[q].job, proc[q].acting, "restore-done", {}) /\ UNCHANGED <<owner, folders>>
  <2>1. FoldersStay
    BY <1>1, <1>3 DEF FoldersStay
  <2>2. "restore-done" \notin FactStages /\ "restore-done" \notin OldRowStages
    BY DEF FactStages, OldRowStages, Moving, Undoing, Cleaning, Staging, Discarding, Placing, Retiring
  <2>3. Holding(q)'
    BY <1>1, <1>3, <2>2, ActHolding
  <2> QED BY <1>1, <1>3, <2>1, <2>2, <2>3, GoStep
<1>4. ASSUME NEW stage \in {"unstage", "staged", "restored"}, Act(q, "restore", rec, stage, {}),
             UNCHANGED <<owner, folders>>,
             stage = "unstage" => rec.phase = "restoring",
             stage = "staged" => rec.phase = "restore-staged",
             stage = "restored" => rec.phase = "restored"
      PROVE  LayoutInv'
  <2>1. FoldersStay
    BY <1>1, <1>4 DEF FoldersStay
  <2>2. Holding(q)'
    BY <1>1, <1>4, ActHolding DEF OldRowStages, Moving, Undoing, Cleaning
  <2>3. proc'[q].at = stage /\ proc'[q].acting = rec /\ proc'[q].roles = StageFiles(q, stage, rec)
    BY <1>4, Acted DEF LayoutInv
  <2>4. stage = "unstage" => proc'[q].roles = Listed(rec.set)
    BY <2>3 DEF StageFiles
  <2>5. MoveFacts(q)' /\ CleanFacts(q)'
    BY <1>4, <2>3 DEF MoveFacts, CleanFacts, Moving, Copied, Undoing, Cleaning
  <2>6. RestoreFacts(q)'
    BY <1>4, <2>3, <2>4 DEF RestoreFacts, folders, Staging, Discarding, Placing, Retiring
  <2> QED BY <1>1, <1>4, <2>1, <2>2, <2>5, <2>6, ActStep DEF Facts
<1>5. CASE /\ rec.phase = "committed" /\ ~RestoreProblem(rec)
           /\ SubBecomes(n) /\ Act(q, "restore", next, "restoring", {}) /\ UNCHANGED owner
  <2>1. /\ registered.sub = {} /\ rec.cleanup \notin {"pending", "conflict"} /\ older = "none"
    BY <1>5 DEF RestoreProblem
  <2>2. /\ IsRecord(next) /\ next.phase = "restoring" /\ next.set = sub.at /\ next.attempt = rec.attempt
        /\ next.files = rec.files
    BY <1>1, <1>5 DEF IsRecord, IsSub, LayoutRecords, Phases
  <2> HIDE DEF next
  <2>3. n.record = next /\ n.at = sub.at /\ IsSub(n)
    BY <1>1, <2>2 DEF IsSub, IsRecord
  <2> HIDE DEF n
  <2>4. ASSUME NEW o \in oldImages PROVE Recovers(o, n)
    <3>1. Recovers(o, sub)
      BY <1>1 DEF LayoutInv, AllRecover
    <3>2. SubComplete(o, n) /\ o.moving = Absent
      BY <1>5, <2>1, <2>2, <2>3, <3>1 DEF Recovers, SubComplete, Vacated
    <3>3. \A r \in Roles : o.staged[r] = Absent
      BY <1>5, <3>1 DEF Recovers
    <3>4. token.saved = Absent => Nothing(o, n)
      BY <2>2, <2>3, <3>1 DEF Recovers, Nothing
    <3> QED BY <2>2, <2>3, <3>2, <3>3, <3>4 DEF Recovers, NoMove
  <2>5. \A s \in subImages : s.record.phase \in {"committed", "restoring"}
    BY <1>5, <2>1 DEF LayoutInv, Behind
  <2>6. Works(q)
    BY <1>1, <1>5, <2>2, ActWorks
  <2>7. Holding(q)'
    BY <1>1, <1>5, ActHolding DEF OldRowStages, Moving, Undoing, Cleaning
  <2>8. proc'[q].at = "restoring" /\ proc'[q].acting = next
    BY <1>5, Acted DEF LayoutInv
  <2>9. sub' = n
    BY <1>5 DEF SubBecomes
  <2>10. MoveFacts(q)' /\ CleanFacts(q)'
    BY <2>8 DEF MoveFacts, CleanFacts, Moving, Copied, Undoing, Cleaning
  <2>11. RestoreFacts(q)'
    BY <2>2, <2>3, <2>8, <2>9 DEF RestoreFacts, Staging, Discarding, Placing, Retiring
  <2> QED BY <1>1, <1>5, <2>1, <2>2, <2>3, <2>4, <2>5, <2>6, <2>7, <2>10, <2>11, SubStep DEF Facts, NoMove
<1> QED BY <1>2, <1>3, <1>4, <1>5 DEF RestoreDecide, GoOn, Refused, Publish

LEMMA StageHolds ==
  ASSUME LayoutInv, LayoutAssumption, NEW q \in Procs, Stage(q)
  PROVE  LayoutInv'
<1> DEFINE rec == proc[q].acting
<1> USE DEF Staging, Discarding, Placing, Retiring
<1>1. PICK r \in Roles :
    /\ Takes(q, "stage", r)
    /\ Owned(q, sub.at[r] = proc[q].acting.set[r],
             OldBecomes([old EXCEPT !.staged[r] = sub.at[r]]) /\ Took(q, r))
  BY DEF Stage
<1> DEFINE n == [old EXCEPT !.staged[r] = sub.at[r]]
<1>2. /\ proc[q].at = "stage" /\ proc[q].wants = {} /\ proc[q].at \notin {"none", "unlock-data"}
      /\ owner["layout"] = q /\ IsOld(old) /\ IsSub(sub) /\ old \in oldImages
      /\ sub \in subImages /\ proc[q].inflight = 0 /\ Recovers(old, sub) /\ IsRecord(rec)
      /\ UNCHANGED <<registered, token, older, used>>
  BY <1>1, AtWork DEF Takes, Owned, LayoutStages
<1>3. CASE Broken(q)
  BY <1>2, <1>3, BrokenStep
<1>4. CASE sub.at[r] = rec.set[r] /\ OldBecomes(n) /\ Took(q, r) /\ UNCHANGED owner
  <2>1. RestoreFacts(q) /\ rec = sub.record /\ rec.phase = "restoring" /\ subImages = {sub}
    BY <1>2 DEF LayoutInv, RestoreFacts
  <2>2. /\ IsOld(n) /\ n.at = old.at /\ n.moving = old.moving /\ n.staged[r] = rec.set[r]
        /\ \A k \in Roles : k # r => n.staged[k] = old.staged[k]
    <3>1. sub.at[r] \in Nat
      BY <1>2 DEF IsSub
    <3> QED BY <1>2, <1>4, <3>1 DEF IsOld
  <2> HIDE DEF n
  <2>3. Recovers(n, sub)
    <3>1. SubComplete(n, sub) /\ n.moving = Absent
      BY <1>2, <2>1, <2>2 DEF Recovers, SubComplete, Vacated
    <3>2. token.saved = Absent => Nothing(n, sub)
      BY <1>2, <2>2 DEF Recovers, Nothing
    <3> QED BY <1>2, <2>1, <2>2, <3>1, <3>2 DEF Recovers, NoMove
  <2>4. old' = n /\ UNCHANGED <<sub, subImages>>
    BY <1>4 DEF OldBecomes
  <2>5. UsersStay(q)
    BY <2>1, <2>2, <2>4 DEF UsersStay, HomeUsable, LegacyUsable
  <2>6. /\ Works(q) /\ proc'[q].at = "stage" /\ proc'[q].acting = rec /\ Holding(q)'
        /\ proc'[q].roles = proc[q].roles \ {r}
    BY <1>2, <1>4, TookWorks
  <2>7. MoveFacts(q)' /\ CleanFacts(q)'
    BY <2>6 DEF MoveFacts, CleanFacts, Moving, Copied, Undoing, Cleaning
  <2>8. RestoreFacts(q)'
    BY <1>2, <2>1, <2>2, <2>4, <2>6 DEF RestoreFacts, Listed
  <2> QED BY <1>2, <1>4, <2>1, <2>2, <2>3, <2>5, <2>6, <2>7, <2>8, OldStep DEF Facts
<1> QED BY <1>1, <1>3, <1>4 DEF Owned

LEMMA RecordStagedHolds ==
  ASSUME LayoutInv, LayoutAssumption, NEW q \in Procs, RecordStaged(q)
  PROVE  LayoutInv'
<1> DEFINE was == proc[q].acting
           rec == [was EXCEPT !.phase = "restore-staged"]
           n == [sub EXCEPT !.record = rec]
<1> USE DEF Staging, Discarding, Placing, Retiring
<1>1. /\ proc[q].at = "record-staged" /\ proc[q].wants = {} /\ proc[q].at \notin {"none", "unlock-data"}
      /\ owner["layout"] = q /\ IsOld(old) /\ IsSub(sub) /\ old \in oldImages
      /\ sub \in subImages /\ IsRecord(was) /\ Recovers(old, sub)
      /\ UNCHANGED <<registered, token, older, used>> /\ used \in Counters
  BY AtWork DEF RecordStaged, Publishes, Owned, LayoutStages
<1>2. CASE Broken(q)
  BY <1>1, <1>2, BrokenStep
<1>3. CASE SubBecomes(n) /\ Act(q, proc[q].job, rec, "staged", {}) /\ UNCHANGED owner
  <2>1. /\ was = sub.record /\ was.phase = "restoring" /\ subImages = {sub} /\ oldImages = {old}
        /\ \A r \in Roles : was.set[r] = sub.at[r]
        /\ \A r \in Listed(was.set) : old.staged[r] = was.set[r]
    BY <1>1 DEF LayoutInv, RestoreFacts
  <2>2. /\ IsRecord(rec) /\ rec.phase = "restore-staged" /\ rec.set = was.set /\ rec.attempt = was.attempt
    BY <1>1, <2>1 DEF IsRecord, LayoutRecords, Phases
  <2> HIDE DEF rec
  <2>3. n.record = rec /\ n.at = sub.at /\ IsSub(n)
    BY <1>1, <2>2 DEF IsSub, IsRecord
  <2> HIDE DEF n
  <2>4. Recovers(old, n)
    <3>1. SubComplete(old, sub) /\ old.moving = Absent
      BY <1>1, <2>1 DEF Recovers, Vacated
    <3>2. \A r \in Roles : rec.set[r] # Absent => old.staged[r] = rec.set[r]
      BY <2>1, <2>2 DEF Listed
    <3>3. token.saved = Absent => old.at["localPoolState"] = Absent /\ Nothing(old, n)
      <4> SUFFICES ASSUME token.saved = Absent PROVE old.at["localPoolState"] = Absent /\ Nothing(old, n)
        OBVIOUS
      <4>1. Nothing(old, sub)
        BY <1>1 DEF Recovers
      <4>2. "localPoolState" \in Roles \ Runtimes
        BY DEF Roles, Runtimes
      <4>3. old.at["localPoolState"] = Absent
        BY <1>1, <4>1, <4>2 DEF Nothing, IsOld, Absent
      <4>4. Nothing(old, n)
        BY <2>1, <2>2, <2>3, <4>1 DEF Nothing
      <4> QED BY <4>3, <4>4
    <3>4. MidRestore(old, rec)
      <4>1. "localPoolState" \in Roles /\ "journal" \in Roles
        BY DEF Roles
      <4> QED BY <2>1, <2>2, <3>1, <3>2, <3>3, <4>1 DEF MidRestore, SubComplete, Waits
    <3> QED BY <1>1, <2>1, <2>2, <2>3, <3>3, <3>4 DEF Recovers, NoMove, Vacated
  <2>5. IsTombstone(old.at["localRuntime"])
    BY <1>1, <2>1 DEF Recovers, SubComplete, Runtimes, IsTombstone, Tombstone, IsRecord, LayoutRecords
  <2>6. registered.sub = {} /\ older = "none"
    BY <2>1 DEF LayoutInv, Homes, Olders
  <2>7. Works(q) /\ proc[q].inflight = 0
    BY <1>1, <1>3, <2>2, ActWorks
  <2>8. Holding(q)'
    <3>1. proc[q].job \notin {"moving", "clean"}
      BY <1>1 DEF LayoutInv, Holding, Copied
    <3> QED BY <1>1, <1>3, <3>1, ActHolding DEF OldRowStages, Moving, Undoing, Cleaning
  <2>9. proc'[q].at = "staged" /\ proc'[q].acting = rec
    BY <1>3, Acted DEF LayoutInv
  <2>10. sub' = n
    BY <1>3 DEF SubBecomes
  <2>11. MoveFacts(q)' /\ CleanFacts(q)'
    BY <2>9 DEF MoveFacts, CleanFacts, Moving, Copied, Undoing, Cleaning
  <2>12. RestoreFacts(q)'
    BY <2>2, <2>3, <2>9, <2>10 DEF RestoreFacts
  <2> QED BY <1>1, <1>3, <2>1, <2>2, <2>3, <2>4, <2>5, <2>6, <2>7, <2>8, <2>11, <2>12, SubStep DEF Facts, NoMove
<1> QED BY <1>2, <1>3 DEF RecordStaged, Publishes, Owned, Publish

\* What the slot table leaves alone needs nothing.
LEMMA SlotNothing ==
  ASSUME NEW rec, NEW r \in Roles, Slot(rec, r) \notin {"place", "untomb", "problem"}
  PROVE  Settled(old, rec, r)
<1>1. CASE r \in Runtimes /\ rec.set[r] = Absent
  BY <1>1 DEF Slot, Settled, Waits, Tombstone, IsTombstone
<1>2. CASE r \notin Runtimes /\ rec.set[r] = Absent
  BY <1>2 DEF Settled, Waits
<1>3. CASE rec.set[r] # Absent
  BY <1>3 DEF Slot, Settled, Waits
<1> QED BY <1>1, <1>2, <1>3

LEMMA ClassifyHolds ==
  ASSUME LayoutInv, LayoutAssumption, NEW q \in Procs, Classify(q)
  PROVE  LayoutInv'
<1> DEFINE rec == proc[q].acting
           seen == old.at
           roles == {r \in Roles : Slot(rec, r) \in {"place", "untomb"}}
           x == [proc[q] EXCEPT !.at = "place-data", !.seen = seen, !.roles = roles]
<1>1. /\ proc[q].at = "classify" /\ proc[q].wants = {} /\ proc[q].at # "none"
      /\ owner["layout"] = q /\ proc[q].inflight = 0 /\ Shape(proc[q]) /\ IsRecord(rec)
      /\ FoldersStay /\ token' = token /\ UNCHANGED <<registered, used>> /\ used \in Counters
  BY AtWork DEF Classify, LayoutStages, Placing, LayoutInv, LayoutTypes, FoldersStay
<1>2. CASE Refused(q)
  BY <1>1, <1>2, RefusedStep
<1>3. CASE /\ proc' = [proc EXCEPT ![q].at = "place-data", ![q].seen = seen, ![q].roles = roles]
           /\ UNCHANGED owner /\ \A r \in Roles : Slot(rec, r) # "problem"
  <2>1. proc' = [proc EXCEPT ![q] = x]
    BY <1>3 DEF LayoutInv, LayoutTypes
  <2>2. \A r \in Roles \ roles : Settled(old, rec, r)
    BY <1>3, SlotNothing
  <2> HIDE DEF roles, seen
  <2>3. /\ Shape(x) /\ x.at = "place-data" /\ x.wants = proc[q].wants /\ x.job = proc[q].job
        /\ x.mode = proc[q].mode /\ x.acting = rec /\ x.inflight = 0 /\ x.roles = roles
    BY <1>1 DEF Shape, Fields
  <2> HIDE DEF x
  <2>4. OthersStay(q) /\ proc'[q] = x
    BY <1>1, <1>3, <2>1 DEF OthersStay, LayoutInv, LayoutTypes
  <2>5. RestoreFacts(q)'
    BY <1>1, <2>2, <2>3, <2>4 DEF LayoutInv, RestoreFacts, FoldersStay, folders, Staging, Discarding, Placing,
       Retiring
  <2>6. MoveFacts(q)' /\ CleanFacts(q)'
    BY <2>3, <2>4 DEF MoveFacts, CleanFacts, Moving, Copied, Undoing, Cleaning
  <2>7. Holding(q)'
    BY <1>1, <1>3, <2>3, <2>4 DEF LayoutInv, Holding, Serves, OldRowStages, Moving, Copied, Undoing, Cleaning
  <2>8. proc[q].mode # "home"
    BY <1>1, Working DEF Serves
  <2> QED BY <1>1, <2>3, <2>4, <2>5, <2>6, <2>7, <2>8, QuietStep DEF Facts
<1> QED BY <1>2, <1>3 DEF Classify, Refused

\* Once the old folder's runtimes may be back, no credential file waits at its
\* staging name: the data files were placed first and are durable.
LEMMA NothingWaits ==
  ASSUME LayoutInv, NEW q \in Procs, proc[q].at \in {"place-data", "place-barriers"},
         \/ proc[q].at = "place-barriers"
         \/ ~IsTombstone(old.at["localRuntime"])
  PROVE  \A o \in oldImages : ~Waits(o, proc[q].acting, "localPoolState")
<1>1. RestoreFacts(q) /\ old \in oldImages /\ sub \in subImages /\ PlacedFirst
  BY DEF LayoutInv, LayoutTypes
<1>2. CASE proc[q].at = "place-barriers"
  BY <1>1, <1>2 DEF RestoreFacts
<1>3. CASE ~IsTombstone(old.at["localRuntime"]) /\ proc[q].at = "place-data"
  BY <1>1, <1>3 DEF RestoreFacts, PlacedFirst, Placing
<1> QED BY <1>2, <1>3

LEMMA PlaceHolds ==
  ASSUME LayoutInv, LayoutAssumption, NEW q \in Procs, Place(q)
  PROVE  LayoutInv'
<1> DEFINE rec == proc[q].acting
<1> USE DEF Staging, Discarding, Placing, Retiring
<1>1. PICK r \in Roles :
    /\ Takes(q, "place-data", r) \/ Takes(q, "place-barriers", r)
    /\ rec.set[r] # Absent
    /\ Owned(q, old.staged[r] = rec.set[r] /\ old.at[r] = proc[q].seen[r],
             OldBecomes([old EXCEPT !.at[r] = old.staged[r], !.staged[r] = Absent]) /\ Took(q, r))
  BY DEF Place
<1> DEFINE v == old.staged[r]
           n == [old EXCEPT !.at[r] = v, !.staged[r] = Absent]
           stage == proc[q].at
<1>2. /\ stage \in {"place-data", "place-barriers"} /\ proc[q].wants = {} /\ proc[q].at \notin {"none", "unlock-data"}
      /\ owner["layout"] = q /\ IsOld(old) /\ IsSub(sub) /\ old \in oldImages
      /\ sub \in subImages /\ proc[q].inflight = 0 /\ Recovers(old, sub) /\ IsRecord(rec)
      /\ UNCHANGED <<registered, token, older, used>>
      /\ r \in Due(q)
  <2>1. At(q, "place-data") \/ At(q, "place-barriers")
    BY <1>1 DEF Takes
  <2>2. At(q, stage) /\ stage \in {"place-data", "place-barriers"} /\ stage \in LayoutStages
    BY <2>1 DEF LayoutStages, At
  <2> QED BY <1>1, <2>2, AtWork DEF Takes, Owned
<1>3. CASE Broken(q)
  BY <1>2, <1>3, BrokenStep
<1>4. CASE v = rec.set[r] /\ OldBecomes(n) /\ Took(q, r) /\ UNCHANGED owner
  <2>1. RestoreFacts(q) /\ rec = sub.record /\ rec.phase = "restore-staged" /\ subImages = {sub}
    BY <1>2 DEF LayoutInv, RestoreFacts
  <2>2. v \in Nat /\ v # Absent
    BY <1>1, <1>2, <1>4 DEF IsOld
  <2> HIDE DEF v
  <2>3. /\ IsOld(n) /\ n.moving = old.moving /\ n.at[r] = v /\ n.staged[r] = Absent
        /\ \A k \in Roles : k # r => n.staged[k] = old.staged[k] /\ n.at[k] = old.at[k]
    <3> DEFINE f == [old.at EXCEPT ![r] = v]
               g == [old.staged EXCEPT ![r] = Absent]
    <3>1. f \in [Roles -> Int] /\ g \in [Roles -> Nat] /\ f[r] = v /\ g[r] = Absent
          /\ (\A k \in Roles : k # r => f[k] = old.at[k] /\ g[k] = old.staged[k])
          /\ \A k \in Roles \ Runtimes : f[k] >= 0
      BY <1>2, <2>2 DEF IsOld, Absent
    <3>2. n = [old EXCEPT !.at = f, !.staged = g]
      BY <1>2 DEF IsOld
    <3> HIDE DEF f, g
    <3>3. /\ n.at = f /\ n.staged = g /\ n.moving = old.moving
          /\ n \in [at : [Roles -> Int], moving : Nat, staged : [Roles -> Nat]]
      BY <1>2, <3>1, <3>2 DEF IsOld
    <3> QED BY <3>1, <3>3 DEF IsOld
  <2> HIDE DEF n
  <2>4. ~IsTombstone(v) /\ ~Waits(n, rec, r)
    BY <1>1, <2>2, <2>3 DEF IsTombstone, Waits
  <2>5. \A k \in Roles : Waits(n, rec, k) => Waits(old, rec, k)
    BY <2>3, <2>4 DEF Waits
  <2>6. MidRestore(old, rec)
    BY <1>2, <2>1 DEF Recovers
  <2>7. MidRestore(n, rec)
    <3> USE <2>6
    <3>1. n.moving = Absent
      BY <2>3 DEF MidRestore
    <3>2. IF Waits(n, rec, "localPoolState") THEN rec.set["localPoolState"] = token.saved
                                             ELSE n.at["localPoolState"] = token.saved
      <4>0. "localPoolState" \in Roles
        BY DEF Roles
      <4>1. CASE r = "localPoolState"
        BY <1>1, <1>4, <2>3, <2>4, <4>1 DEF MidRestore, Waits, v
      <4>2. CASE r # "localPoolState"
        BY <2>3, <4>0, <4>2 DEF MidRestore, Waits
      <4> QED BY <4>1, <4>2
    <3>3. \A k \in Roles : rec.set[k] # Absent =>
             n.staged[k] = rec.set[k] \/ (n.at[k] # Absent /\ ~IsTombstone(n.at[k]))
      BY <2>2, <2>3, <2>4 DEF MidRestore
    <3>4. \A k \in Runtimes : IsTombstone(n.at[k]) => n.at[k] = Tombstone(rec.attempt)
      BY <2>3, <2>4 DEF MidRestore, Runtimes, Roles
    <3>5. rec.set["journal"] = Absent /\ token.saved # Absent => n.at["journal"] # Absent
      BY <1>1, <2>3 DEF MidRestore, Roles
    <3> QED BY <3>1, <3>2, <3>3, <3>4, <3>5 DEF MidRestore
  <2>8. Recovers(n, sub)
    <3>1. \A k \in Roles : n.staged[k] = Absent \/ n.staged[k] = rec.set[k]
      BY <1>2, <2>1, <2>3 DEF Recovers
    <3>2. token.saved # Absent
      BY <1>1, <1>2, <2>1 DEF Recovers, Nothing
    <3> QED BY <2>1, <2>7, <3>1, <3>2 DEF Recovers, NoMove, Vacated
  <2>9. old' = n /\ UNCHANGED <<sub, subImages>>
    BY <1>4 DEF OldBecomes
  <2>10. /\ Works(q) /\ proc'[q].at = stage /\ proc'[q].acting = rec /\ Holding(q)'
         /\ proc'[q].roles = proc[q].roles \ {r}
    BY <1>2, <1>4, TookWorks
  <2>11. UsersStay(q)
    <3>1. LegacyUsable => LegacyUsable'
      BY <2>2, <2>3, <2>4, <2>9 DEF LegacyUsable, Roles
    <3>2. ~HomeUsable
      BY <2>1 DEF HomeUsable
    <3> QED BY <3>1, <3>2 DEF UsersStay
  <2>12. stage = "place-data" => r \in DataRoles
    BY <1>2 DEF Due
  <2>13. stage = "place-barriers" \/ n.at["localRuntime"] = old.at["localRuntime"]
    BY <1>2, <2>3, <2>12 DEF DataRoles, Roles
  <2>14. \A s \in subImages, o \in oldImages \cup {n} : s.record.phase = "restore-staged" =>
           /\ IsTombstone(n.at["localRuntime"]) \/ ~Waits(o, s.record, "localPoolState")
           /\ IsTombstone(o.at["localRuntime"]) \/ ~Waits(n, s.record, "localPoolState")
    <3> SUFFICES ASSUME NEW o \in oldImages \cup {n}
                 PROVE  /\ IsTombstone(n.at["localRuntime"]) \/ ~Waits(o, rec, "localPoolState")
                        /\ IsTombstone(o.at["localRuntime"]) \/ ~Waits(n, rec, "localPoolState")
      BY <2>1
    <3>0. "localPoolState" \in Roles
      BY DEF Roles
    <3>1. IsTombstone(n.at["localRuntime"]) \/ ~Waits(o, rec, "localPoolState")
      <4> SUFFICES ASSUME ~IsTombstone(n.at["localRuntime"]) PROVE ~Waits(o, rec, "localPoolState")
        OBVIOUS
      <4>1. \A k \in oldImages : ~Waits(k, rec, "localPoolState")
        BY <1>2, <2>13, NothingWaits
      <4> QED BY <1>2, <2>5, <3>0, <4>1
    <3>2. IsTombstone(o.at["localRuntime"]) \/ ~Waits(n, rec, "localPoolState")
      <4>1. CASE o = n
        BY <3>1, <4>1
      <4>2. CASE o # n
        BY <1>2, <2>1, <2>5, <3>0, <4>2 DEF LayoutInv, PlacedFirst
      <4> QED BY <4>1, <4>2
    <3> QED BY <3>1, <3>2
  <2>15. MoveFacts(q)' /\ CleanFacts(q)'
    BY <1>2, <2>10 DEF MoveFacts, CleanFacts, Moving, Copied, Undoing, Cleaning
  <2>16. RestoreFacts(q)'
    <3>1. \A k \in Roles \ (proc[q].roles \ {r}) : Settled(n, rec, k)
      BY <1>1, <1>2, <2>1, <2>3, <2>4, <2>5 DEF RestoreFacts, Settled
    <3>2. stage = "place-barriers" => \A o \in oldImages \cup {n} : ~Waits(o, rec, "localPoolState")
      BY <1>2, <2>1, <2>5 DEF RestoreFacts, Roles
    <3>3. oldImages' \subseteq oldImages \cup {n}
      BY <1>4 DEF OldBecomes, Before
    <3> QED BY <1>2, <2>1, <2>9, <2>10, <3>1, <3>2, <3>3 DEF RestoreFacts, Settled, Waits
  <2>17. n.staged["localPoolState"] \in {old.staged["localPoolState"], Absent}
    BY <2>3 DEF Roles
  <2> QED BY <1>2, <1>4, <2>3, <2>1, <2>8, <2>10, <2>11, <2>14, <2>15, <2>16, <2>17, OldStep DEF Facts
<1> QED BY <1>1, <1>3, <1>4 DEF Owned

LEMMA UntombHolds ==
  ASSUME LayoutInv, LayoutAssumption, NEW q \in Procs, Untomb(q)
  PROVE  LayoutInv'
<1> DEFINE rec == proc[q].acting
<1> USE DEF Staging, Discarding, Placing, Retiring
<1>1. PICK r \in Runtimes :
    /\ Takes(q, "place-barriers", r) /\ rec.set[r] = Absent
    /\ Owned(q, old.at[r] = proc[q].seen[r],
             OldBecomes([old EXCEPT !.at[r] = Absent]) /\ Took(q, r))
  BY DEF Untomb
<1> DEFINE n == [old EXCEPT !.at[r] = Absent]
<1>2. /\ proc[q].at = "place-barriers" /\ proc[q].wants = {} /\ proc[q].at \notin {"none", "unlock-data"}
      /\ owner["layout"] = q /\ IsOld(old) /\ IsSub(sub) /\ old \in oldImages
      /\ sub \in subImages /\ proc[q].inflight = 0 /\ Recovers(old, sub) /\ IsRecord(rec)
      /\ UNCHANGED <<registered, token, older, used>>
  BY <1>1, AtWork DEF Takes, Owned, LayoutStages
<1>3. CASE Broken(q)
  BY <1>2, <1>3, BrokenStep
<1>4. CASE OldBecomes(n) /\ Took(q, r) /\ UNCHANGED owner
  <2>1. RestoreFacts(q) /\ rec = sub.record /\ rec.phase = "restore-staged" /\ subImages = {sub}
    BY <1>2 DEF LayoutInv, RestoreFacts
  <2>0. r \in Roles /\ r \notin {"journal", "localPoolState"}
    BY <1>1 DEF Runtimes, Roles
  <2>3. /\ IsOld(n) /\ n.moving = old.moving /\ n.at[r] = Absent /\ n.staged = old.staged
        /\ \A k \in Roles : k # r => n.at[k] = old.at[k]
    BY <1>2, <2>0 DEF IsOld, Absent
  <2> HIDE DEF n
  <2>4. ~IsTombstone(n.at[r])
    BY <2>3 DEF IsTombstone, Absent
  <2>5. \A k \in Roles : Waits(n, rec, k) = Waits(old, rec, k)
    BY <2>3 DEF Waits
  <2>6. MidRestore(old, rec)
    BY <1>2, <2>1 DEF Recovers
  <2>7. MidRestore(n, rec)
    <3> USE <2>6
    <3>1. n.moving = Absent
      BY <2>3 DEF MidRestore
    <3>2. IF Waits(n, rec, "localPoolState") THEN rec.set["localPoolState"] = token.saved
                                             ELSE n.at["localPoolState"] = token.saved
      BY <2>0, <2>3, <2>5 DEF MidRestore, Roles
    <3>3. \A k \in Roles : rec.set[k] # Absent =>
             n.staged[k] = rec.set[k] \/ (n.at[k] # Absent /\ ~IsTombstone(n.at[k]))
      BY <1>1, <2>3 DEF MidRestore
    <3>4. \A k \in Runtimes : IsTombstone(n.at[k]) => n.at[k] = Tombstone(rec.attempt)
      BY <2>3, <2>4 DEF MidRestore, Runtimes, Roles
    <3>5. rec.set["journal"] = Absent /\ token.saved # Absent => n.at["journal"] # Absent
      BY <2>0, <2>3 DEF MidRestore, Roles
    <3> QED BY <3>1, <3>2, <3>3, <3>4, <3>5 DEF MidRestore
  <2>8. Recovers(n, sub)
    <3>1. token.saved = Absent => Nothing(n, sub)
      BY <1>2, <2>3 DEF Recovers, Nothing, Absent
    <3> QED BY <1>2, <2>1, <2>3, <2>7, <3>1 DEF Recovers, NoMove, Vacated
  <2>9. old' = n /\ UNCHANGED <<sub, subImages>>
    BY <1>4 DEF OldBecomes
  <2>10. /\ Works(q) /\ proc'[q].at = "place-barriers" /\ proc'[q].acting = rec /\ Holding(q)'
         /\ proc'[q].roles = proc[q].roles \ {r}
    BY <1>2, <1>4, TookWorks
  <2>11. UsersStay(q)
    <3>1. LegacyUsable => LegacyUsable'
      BY <2>0, <2>3, <2>4, <2>9 DEF LegacyUsable, Roles
    <3>2. ~HomeUsable
      BY <2>1 DEF HomeUsable
    <3> QED BY <3>1, <3>2 DEF UsersStay
  <2>12. \A o \in oldImages \cup {n} : ~Waits(o, rec, "localPoolState")
    BY <1>2, <2>1, <2>5 DEF RestoreFacts, Roles
  <2>13. \A s \in subImages, o \in oldImages \cup {n} : s.record.phase = "restore-staged" =>
           /\ IsTombstone(n.at["localRuntime"]) \/ ~Waits(o, s.record, "localPoolState")
           /\ IsTombstone(o.at["localRuntime"]) \/ ~Waits(n, s.record, "localPoolState")
    BY <2>1, <2>12
  <2>15. MoveFacts(q)' /\ CleanFacts(q)'
    BY <1>2, <2>10 DEF MoveFacts, CleanFacts, Moving, Copied, Undoing, Cleaning
  <2>16. RestoreFacts(q)'
    <3>1. \A k \in Roles \ (proc[q].roles \ {r}) : Settled(n, rec, k)
      BY <1>1, <1>2, <2>1, <2>3, <2>4, <2>5 DEF RestoreFacts, Settled, Waits
    <3>2. oldImages' \subseteq oldImages \cup {n}
      BY <1>4 DEF OldBecomes, Before
    <3> QED BY <1>2, <2>1, <2>9, <2>10, <2>12, <3>1, <3>2 DEF RestoreFacts, Settled, Waits
  <2> QED BY <1>2, <1>4, <2>1, <2>3, <2>8, <2>10, <2>11, <2>13, <2>15, <2>16, OldStep DEF Facts
<1> QED BY <1>1, <1>3, <1>4 DEF Owned

LEMMA RecordRestoredHolds ==
  ASSUME LayoutInv, LayoutAssumption, NEW q \in Procs, RecordRestored(q)
  PROVE  LayoutInv'
<1> DEFINE was == proc[q].acting
           rec == [was EXCEPT !.phase = "restored", !.retired = "pending"]
           n == [sub EXCEPT !.record = rec]
<1> USE DEF Staging, Discarding, Placing, Retiring
<1>1. /\ proc[q].at = "record-restored" /\ proc[q].wants = {} /\ proc[q].at \notin {"none", "unlock-data"}
      /\ owner["layout"] = q /\ IsOld(old) /\ IsSub(sub) /\ old \in oldImages
      /\ sub \in subImages /\ IsRecord(was) /\ Recovers(old, sub)
      /\ UNCHANGED <<registered, token, older, used>> /\ used \in Counters
  BY AtWork DEF RecordRestored, Publishes, Owned, LayoutStages
<1>2. CASE Broken(q)
  BY <1>1, <1>2, BrokenStep
<1>3. CASE SubBecomes(n) /\ Act(q, proc[q].job, rec, "restored", {}) /\ UNCHANGED owner
  <2>1. /\ was = sub.record /\ was.phase = "restore-staged" /\ subImages = {sub} /\ oldImages = {old}
        /\ \A r \in Roles : Settled(old, was, r)
    BY <1>1 DEF LayoutInv, RestoreFacts
  <2>2. /\ IsRecord(rec) /\ rec.phase = "restored" /\ rec.retired = "pending"
    BY <1>1, <2>1 DEF IsRecord, LayoutRecords, Phases
  <2> HIDE DEF rec
  <2>3. n.record = rec /\ n.at = sub.at /\ IsSub(n)
    BY <1>1, <2>2 DEF IsSub, IsRecord
  <2> HIDE DEF n
  <2>4. Recovers(old, n)
    <3>1. MidRestore(old, was)
      BY <1>1, <2>1 DEF Recovers
    <3>2. old.at["localPoolState"] = token.saved
      BY <2>1, <3>1 DEF MidRestore, Settled, Roles
    <3>3. token.saved # Absent => old.at["journal"] # Absent
      BY <2>1, <3>1 DEF MidRestore, Settled, Waits, Roles
    <3>4. ~Pointed(old)
      BY <2>1, <3>1 DEF MidRestore, Settled, Waits, Roles, Runtimes, Pointed
    <3>5. Undone(old)
      BY <3>1, <3>2, <3>3, <3>4 DEF Undone, OldComplete, MidRestore
    <3>6. \A r \in Roles : old.staged[r] = Absent
      BY <1>1, <2>1 DEF Recovers, Settled, Waits
    <3>7. token.saved = Absent => Nothing(old, n)
      BY <1>1, <2>2, <2>3 DEF Recovers, Nothing
    <3> QED BY <2>2, <2>3, <3>5, <3>6, <3>7 DEF Recovers, Vacated
  <2>5. registered.sub = {} /\ ~HomeUsable
    BY <2>1 DEF LayoutInv, Homes, HomeUsable
  <2>6. Works(q) /\ proc[q].inflight = 0
    BY <1>1, <1>3, <2>2, ActWorks
  <2>7. Holding(q)'
    <3>1. proc[q].job \notin {"moving", "clean"}
      BY <1>1 DEF LayoutInv, Holding, Copied
    <3> QED BY <1>1, <1>3, <3>1, ActHolding DEF OldRowStages, Moving, Undoing, Cleaning
  <2>8. proc'[q].at = "restored" /\ proc'[q].acting = rec
    BY <1>3, Acted DEF LayoutInv
  <2>9. sub' = n
    BY <1>3 DEF SubBecomes
  <2>10. MoveFacts(q)' /\ CleanFacts(q)'
    BY <2>8 DEF MoveFacts, CleanFacts, Moving, Copied, Undoing, Cleaning
  <2>11. RestoreFacts(q)'
    BY <2>2, <2>3, <2>8, <2>9 DEF RestoreFacts
  <2> QED BY <1>1, <1>3, <2>1, <2>2, <2>3, <2>4, <2>5, <2>6, <2>7, <2>10, <2>11, SubStep DEF Facts, NoMove
<1> QED BY <1>2, <1>3 DEF RecordRestored, Publishes, Owned, Publish

LEMMA RetireHolds ==
  ASSUME LayoutInv, LayoutAssumption, NEW q \in Procs, Retire(q)
  PROVE  LayoutInv'
<1> USE DEF Staging, Discarding, Placing, Retiring
<1>1. PICK r \in Roles :
    /\ Takes(q, "retire", r)
    /\ \/ /\ sub.at[r] = proc[q].acting.set[r]
          /\ SubBecomes([sub EXCEPT !.at[r] = Absent])
       \/ /\ sub.at[r] # proc[q].acting.set[r] \/ "io" \in Faults
          /\ UNCHANGED folders
    /\ Took(q, r)
    /\ UNCHANGED <<owner, registered, token, older, used>>
  BY DEF Retire
<1> DEFINE rec == proc[q].acting
           n == [sub EXCEPT !.at[r] = Absent]
<1>2. /\ proc[q].at = "retire" /\ proc[q].wants = {} /\ proc[q].at \notin {"none", "unlock-data"}
      /\ owner["layout"] = q /\ IsOld(old) /\ IsSub(sub) /\ old \in oldImages
      /\ sub \in subImages /\ proc[q].inflight = 0 /\ IsRecord(rec)
  BY <1>1, AtWork DEF Takes, LayoutStages
<1>3. /\ rec = sub.record /\ rec.phase = "restored" /\ \A s \in subImages : s.record.phase = "restored"
  BY <1>2 DEF LayoutInv, RestoreFacts
<1>4. /\ Works(q) /\ proc'[q].at = "retire" /\ proc'[q].acting = rec /\ Holding(q)'
      /\ proc'[q].roles = proc[q].roles \ {r}
  BY <1>1, <1>2, TookWorks
<1>5. MoveFacts(q)' /\ CleanFacts(q)'
  BY <1>4 DEF MoveFacts, CleanFacts, Moving, Copied, Undoing, Cleaning
<1>6. CASE UNCHANGED folders
  <2>1. RestoreFacts(q)'
    BY <1>3, <1>4, <1>6 DEF RestoreFacts, folders
  <2> QED BY <1>1, <1>2, <1>5, <1>6, <2>1, TookStep
<1>7. CASE SubBecomes(n)
  <2>1. IsSub(n) /\ n.record = rec /\ n.at[r] = Absent /\ \A k \in Roles : k # r => n.at[k] = sub.at[k]
    BY <1>2, <1>3 DEF IsSub, Absent
  <2> HIDE DEF n
  <2>2. ASSUME NEW o \in oldImages PROVE Recovers(o, n)
    <3>1. Recovers(o, sub)
      BY <1>2 DEF LayoutInv, AllRecover
    <3>2. token.saved = Absent => Nothing(o, n)
      BY <1>3, <2>1, <3>1 DEF Recovers, Nothing
    <3> QED BY <1>3, <2>1, <3>1, <3>2 DEF Recovers, NoMove, Vacated
  <2>3. registered.sub = {} /\ ~HomeUsable
    BY <1>3 DEF LayoutInv, Homes, HomeUsable
  <2>4. sub' = n /\ subImages' \subseteq subImages \cup {n}
    BY <1>7 DEF SubBecomes, Before
  <2>5. RestoreFacts(q)'
    BY <1>3, <1>4, <2>1, <2>4 DEF RestoreFacts
  <2> QED BY <1>2, <1>3, <1>4, <1>5, <1>7, <2>1, <2>2, <2>3, <2>5, SubStep DEF Facts, NoMove
<1> QED BY <1>1, <1>6, <1>7

LEMMA RecordRetiredHolds ==
  ASSUME LayoutInv, LayoutAssumption, NEW q \in Procs, RecordRetired(q)
  PROVE  LayoutInv'
<1> DEFINE was == proc[q].acting
           rec == [was EXCEPT !.retired = "done"]
           n == [sub EXCEPT !.record = rec]
<1> USE DEF Staging, Discarding, Placing, Retiring
<1>1. /\ proc[q].at = "record-retired" /\ proc[q].wants = {} /\ proc[q].at \notin {"none", "unlock-data"}
      /\ owner["layout"] = q /\ IsOld(old) /\ IsSub(sub) /\ old \in oldImages
      /\ sub \in subImages /\ IsRecord(was)
      /\ UNCHANGED <<registered, token, older, used>> /\ used \in Counters
  BY AtWork DEF RecordRetired, Publishes, Owned, LayoutStages
<1>2. CASE Broken(q)
  BY <1>1, <1>2, BrokenStep
<1>3. CASE SubBecomes(n) /\ Act(q, proc[q].job, rec, "retired", {}) /\ UNCHANGED owner
  <2>1. /\ was = sub.record /\ was.phase = "restored" /\ \A s \in subImages : s.record.phase = "restored"
    BY <1>1 DEF LayoutInv, RestoreFacts
  <2>2. /\ IsRecord(rec) /\ rec.phase = "restored" /\ rec.retired = "done"
    BY <1>1, <2>1 DEF IsRecord, LayoutRecords
  <2> HIDE DEF rec
  <2>3. n.record = rec /\ n.at = sub.at /\ IsSub(n)
    BY <1>1, <2>2 DEF IsSub, IsRecord
  <2> HIDE DEF n
  <2>4. ASSUME NEW o \in oldImages PROVE Recovers(o, n)
    <3>1. Recovers(o, sub)
      BY <1>1 DEF LayoutInv, AllRecover
    <3>2. token.saved = Absent => Nothing(o, n)
      BY <2>2, <2>3, <3>1 DEF Recovers, Nothing
    <3> QED BY <2>1, <2>2, <2>3, <3>1, <3>2 DEF Recovers, Vacated
  <2>5. registered.sub = {} /\ ~HomeUsable
    BY <2>1 DEF LayoutInv, Homes, HomeUsable
  <2>6. Works(q) /\ proc[q].inflight = 0
    BY <1>1, <1>3, <2>2, ActWorks
  <2>7. Holding(q)'
    <3>1. proc[q].job \notin {"moving", "clean"}
      BY <1>1 DEF LayoutInv, Holding, Copied
    <3> QED BY <1>1, <1>3, <3>1, ActHolding DEF OldRowStages, Moving, Undoing, Cleaning
  <2>8. proc'[q].at = "retired" /\ proc'[q].acting = rec
    BY <1>3, Acted DEF LayoutInv
  <2>9. MoveFacts(q)' /\ CleanFacts(q)' /\ RestoreFacts(q)'
    BY <2>8 DEF MoveFacts, CleanFacts, RestoreFacts, Moving, Copied, Undoing, Cleaning
  <2> QED BY <1>1, <1>3, <2>1, <2>2, <2>3, <2>4, <2>5, <2>6, <2>7, <2>9, SubStep DEF Facts
<1> QED BY <1>2, <1>3 DEF RecordRetired, Publishes, Owned, Publish

LEMMA UnstageHolds ==
  ASSUME LayoutInv, LayoutAssumption, NEW q \in Procs, Unstage(q)
  PROVE  LayoutInv'
<1> USE DEF Staging, Discarding, Placing, Retiring
<1>1. PICK r \in Roles :
    /\ Takes(q, "unstage", r)
    /\ OldBecomes([old EXCEPT !.staged[r] = Absent])
    /\ Took(q, r)
    /\ UNCHANGED <<owner, registered, token, older, used>>
  BY DEF Unstage
<1> DEFINE rec == proc[q].acting
           n == [old EXCEPT !.staged[r] = Absent]
<1>2. /\ proc[q].at = "unstage" /\ proc[q].wants = {} /\ proc[q].at \notin {"none", "unlock-data"}
      /\ owner["layout"] = q /\ IsOld(old) /\ IsSub(sub) /\ old \in oldImages
      /\ sub \in subImages /\ proc[q].inflight = 0 /\ IsRecord(rec)
  BY <1>1, AtWork DEF Takes, LayoutStages
<1>3. /\ RestoreFacts(q) /\ rec = sub.record /\ rec.phase = "restoring"
      /\ \A s \in subImages : s.record.phase \in {"committed", "restoring"}
  BY <1>2 DEF LayoutInv, RestoreFacts, Behind
<1>4. /\ Works(q) /\ proc'[q].at = "unstage" /\ proc'[q].acting = rec /\ Holding(q)'
      /\ proc'[q].roles = proc[q].roles \ {r}
  BY <1>1, <1>2, TookWorks
<1>5. MoveFacts(q)' /\ CleanFacts(q)'
  BY <1>4 DEF MoveFacts, CleanFacts, Moving, Copied, Undoing, Cleaning
<1>6. /\ IsOld(n) /\ n.at = old.at /\ n.moving = old.moving /\ n.staged[r] = Absent
      /\ \A k \in Roles : k # r => n.staged[k] = old.staged[k]
  BY <1>2 DEF IsOld, Absent
<1>7. OldBecomes(n)
  BY <1>1
<1> HIDE DEF n
<1>8. old' = n /\ UNCHANGED <<sub, subImages>>
  BY <1>7 DEF OldBecomes
<1>9. ASSUME NEW s \in subImages PROVE Recovers(n, s)
  <2>1. Recovers(old, s)
    BY <1>2 DEF LayoutInv, AllRecover
  <2>2. s.record.phase \in {"committed", "restoring"}
    BY <1>3
  <2>3. SubComplete(n, s)
    BY <1>6, <2>1, <2>2 DEF Recovers, SubComplete
  <2>4. token.saved = Absent => Nothing(n, s)
    BY <1>6, <2>1 DEF Recovers, Nothing
  <2> QED BY <1>6, <2>1, <2>2, <2>3, <2>4 DEF Recovers, NoMove
<1>10. UsersStay(q)
  BY <1>3, <1>6, <1>8 DEF UsersStay, LegacyUsable, HomeUsable
<1>11. RestoreFacts(q)'
  <2>1. \A k \in Listed(rec.set) \ (proc[q].roles \ {r}) : n.staged[k] = Absent
    BY <1>2, <1>3, <1>6 DEF RestoreFacts, Listed
  <2> QED BY <1>3, <1>4, <1>8, <2>1 DEF RestoreFacts
<1> QED BY <1>2, <1>3, <1>4, <1>5, <1>6, <1>7, <1>9, <1>10, <1>11, OldStep DEF Facts

LEMMA RecordDiscardHolds ==
  ASSUME LayoutInv, LayoutAssumption, NEW q \in Procs, RecordDiscard(q)
  PROVE  LayoutInv'
<1> DEFINE was == proc[q].acting
           rec == [was EXCEPT !.phase = "committed", !.set = NoFiles]
           n == [sub EXCEPT !.record = rec]
<1> USE DEF Staging, Discarding, Placing, Retiring
<1>1. /\ proc[q].at = "record-discard" /\ proc[q].wants = {} /\ proc[q].at \notin {"none", "unlock-data"}
      /\ owner["layout"] = q /\ IsOld(old) /\ IsSub(sub) /\ old \in oldImages
      /\ sub \in subImages /\ IsRecord(was)
      /\ UNCHANGED <<registered, token, older, used>> /\ used \in Counters
  BY AtWork DEF RecordDiscard, Publishes, Owned, LayoutStages
<1>2. CASE Broken(q)
  BY <1>1, <1>2, BrokenStep
<1>3. CASE SubBecomes(n) /\ Act(q, proc[q].job, rec, "discarded", {}) /\ UNCHANGED owner
  <2>1. /\ was = sub.record /\ was.phase = "restoring"
        /\ \A o \in oldImages, r \in Roles : o.staged[r] = Absent
    BY <1>1 DEF LayoutInv, RestoreFacts
  <2>2. /\ IsRecord(rec) /\ rec.phase = "committed" /\ rec.attempt = was.attempt
    BY <1>1, <2>1 DEF IsRecord, LayoutRecords, Phases, NoFiles, Absent
  <2> HIDE DEF rec
  <2>3. n.record = rec /\ n.at = sub.at /\ IsSub(n)
    BY <1>1, <2>2 DEF IsSub, IsRecord
  <2> HIDE DEF n
  <2>4. ASSUME NEW o \in oldImages PROVE Recovers(o, n)
    <3>1. Recovers(o, sub)
      BY <1>1 DEF LayoutInv, AllRecover
    <3>2. SubComplete(o, n) /\ o.moving = Absent
      BY <2>1, <2>2, <2>3, <3>1 DEF Recovers, SubComplete, Vacated
    <3>3. token.saved = Absent => Nothing(o, n)
      BY <2>2, <2>3, <3>1 DEF Recovers, Nothing
    <3> QED BY <2>1, <2>2, <2>3, <3>2, <3>3 DEF Recovers, NoMove
  <2>5. /\ registered.sub = {} /\ ~HomeUsable
        /\ \A s \in subImages : s.record.phase \in {"committed", "restoring"}
    BY <2>1 DEF LayoutInv, Homes, HomeUsable, Behind
  <2>6. Works(q) /\ proc[q].inflight = 0
    BY <1>1, <1>3, <2>2, ActWorks
  <2>7. Holding(q)'
    <3>1. proc[q].job \notin {"moving", "clean"}
      BY <1>1 DEF LayoutInv, Holding, Copied
    <3> QED BY <1>1, <1>3, <3>1, ActHolding DEF OldRowStages, Moving, Undoing, Cleaning
  <2>8. proc'[q].at = "discarded" /\ proc'[q].acting = rec
    BY <1>3, Acted DEF LayoutInv
  <2>9. MoveFacts(q)' /\ CleanFacts(q)' /\ RestoreFacts(q)'
    BY <2>8 DEF MoveFacts, CleanFacts, RestoreFacts, Moving, Copied, Undoing, Cleaning
  <2> QED BY <1>1, <1>3, <2>1, <2>2, <2>3, <2>4, <2>5, <2>6, <2>7, <2>9, SubStep DEF Facts, NoMove
<1> QED BY <1>2, <1>3 DEF RecordDiscard, Publishes, Owned, Publish

LEMMA RestoreDoneHolds ==
  ASSUME LayoutInv, LayoutAssumption, NEW q \in Procs, RestoreDone(q)
  PROVE  LayoutInv'
<1>1. /\ proc[q].inflight = 0 /\ FoldersStay /\ token' = token /\ UNCHANGED <<registered, used>> /\ Refused(q)
  BY AtWork DEF RestoreDone, LayoutStages, FoldersStay, Refused
<1> QED BY <1>1, RefusedStep

---------------------------------------------------------------------------
(* The processes that use the files, and their end.                        *)

\* A step of a process that serves; what the others know is kept.
LEMMA UserStep ==
  ASSUME LayoutInv, NEW q \in Procs, OthersStay(q), Serves(q) \/ proc[q].mode = "down",
         Shape(proc'[q]), IsRecord(proc'[q].acting), proc'[q].inflight \in Nat,
         proc'[q].mode = proc[q].mode, proc'[q].at = "none", proc'[q].job = "none", proc'[q].wants = {},
         UNCHANGED <<registered, used>>,
         token' \in [live : Nat, saved : Nat, lost : BOOLEAN, burnt : BOOLEAN],
         \A o \in oldImages' : IsOld(o), \A s \in subImages' : IsSub(s),
         old' \in oldImages', sub' \in subImages', AllRecover', PlacedFirst',
         sub'.record = sub.record, \A s \in subImages' : \E t \in subImages : s.record = t.record,
         Tokens', Olders', \A p \in Procs : Refreshing(p)',
         \A p \in Procs \ {q} : Facts(p)'
  PROVE  LayoutInv'
<1>1. LayoutTypes'
  <2>1. \A p \in Procs : Shape(proc'[p]) /\ IsRecord(proc'[p].acting) /\ proc'[p].inflight \in Nat
    BY DEF LayoutInv, LayoutTypes, OthersStay
  <2>2. used' \in Counters
    BY DEF LayoutInv, LayoutTypes
  <2> QED BY <2>1, <2>2 DEF LayoutTypes, OthersStay
<1>2. Behind'
  BY DEF LayoutInv, Behind, NoMove
<1>3. Homes'
  BY DEF LayoutInv, Homes, OthersStay
<1>4. Facts(q)'
  BY NoStage DEF Serves
<1> QED BY <1>1, <1>2, <1>3, <1>4 DEF LayoutInv, Facts

\* Of the two layouts at most one can be used, and its credential is the
\* newest stored one.
LEMMA OneLayout ==
  ASSUME LayoutInv
  PROVE  /\ LegacyUsable => /\ \A s \in subImages : s.record.phase \notin {"committed", "restoring"}
                            /\ \A s \in subImages, o \in oldImages :
                                 s.record.phase = "restore-staged" => ~Waits(o, s.record, "localPoolState")
                            /\ sub.record.phase # "committed"
                            /\ Pool("legacy") = token.saved
         /\ HomeUsable => sub.record.phase = "committed" /\ Pool("home") = token.saved
<1>1. old \in oldImages /\ sub \in subImages /\ AllRecover /\ PlacedFirst /\ \A s \in subImages : IsSub(s)
  BY DEF LayoutInv, LayoutTypes
<1>2. ASSUME LegacyUsable
      PROVE  /\ \A s \in subImages : s.record.phase \notin {"committed", "restoring"}
             /\ \A s \in subImages, o \in oldImages :
                  s.record.phase = "restore-staged" => ~Waits(o, s.record, "localPoolState")
  <2>1. ~IsTombstone(old.at["localRuntime"])
    BY <1>2 DEF LegacyUsable
  <2>2. ASSUME NEW s \in subImages PROVE s.record.phase \notin {"committed", "restoring"}
    <3>1. Recovers(old, s) /\ IsSub(s)
      BY <1>1 DEF AllRecover
    <3> QED BY <2>1, <3>1 DEF Recovers, SubComplete, Runtimes, IsSub, IsRecord, LayoutRecords, IsTombstone,
          Tombstone
  <2> QED BY <1>1, <2>1, <2>2 DEF PlacedFirst
<1>3. ASSUME LegacyUsable PROVE Pool("legacy") = token.saved
  <2>1. Recovers(old, sub) /\ IsSub(sub)
    BY <1>1 DEF AllRecover
  <2>2. sub.record.phase = "restore-staged" => ~Waits(old, sub.record, "localPoolState")
    BY <1>1, <1>2, <1>3
  <2>3. sub.record.phase \notin {"committed", "restoring"}
    BY <1>1, <1>2, <1>3
  <2>4. sub.record.phase \in Phases
    BY <2>1 DEF IsSub, IsRecord, LayoutRecords
  <2> QED BY <2>1, <2>2, <2>3, <2>4 DEF Recovers, Undone, OldComplete, MidMove, MidRestore, Phases, NoMove, Pool
<1>4. ASSUME HomeUsable PROVE sub.record.phase = "committed" /\ Pool("home") = token.saved
  BY <1>1, <1>4 DEF HomeUsable, AllRecover, Recovers, SubComplete, Pool
<1> QED BY <1>1, <1>2, <1>3, <1>4

\* A refresh under way says which layout is in use.
LEMMA RefreshingWhere ==
  ASSUME LayoutInv, NEW p \in Procs, proc[p].inflight # 0
  PROVE  /\ proc[p].mode \in {"legacy", "home"} /\ owner[RowLock(proc[p].mode)] = p
         /\ proc[p].mode = "legacy" => LegacyUsable
         /\ proc[p].mode = "home" => sub.record.phase = "committed"
<1>1. proc[p].mode \in {"legacy", "home"} /\ owner[RowLock(proc[p].mode)] = p
  BY DEF LayoutInv, Refreshing, Serves
<1>2. proc[p].mode = "legacy" => LegacyUsable
  BY DEF LayoutInv, Refreshing, Usable
<1>3. proc[p].mode = "home" => sub.record.phase = "committed"
  BY DEF LayoutInv, Homes
<1> QED BY <1>1, <1>2, <1>3

\* No other refresh is under way.
LEMMA OneRefresh ==
  ASSUME LayoutInv, LayoutAssumption, NEW q \in Procs, Serves(q), Usable(proc[q].mode),
         owner[RowLock(proc[q].mode)] \in {q, Nobody},
         NEW p \in Procs, p # q
  PROVE  proc[p].inflight = 0
<1> SUFFICES ASSUME proc[p].inflight # 0 PROVE FALSE
  OBVIOUS
<1>1. proc[p].mode # proc[q].mode
  BY RefreshingWhere DEF LayoutAssumption
<1> QED BY <1>1, RefreshingWhere, OneLayout DEF Serves, Usable

\* Nor one of an older version.
LEMMA NoOlderRefresh ==
  ASSUME LayoutInv, LayoutAssumption, NEW q \in Procs, Serves(q), Usable(proc[q].mode),
         proc[q].mode = "legacy" => owner["oldRow"] = q \/ older # "refreshing"
  PROVE  older # "refreshing"
BY OneLayout DEF LayoutInv, Olders, LayoutAssumption, Serves, Usable

\* While one of an older version may refresh, no process does.
LEMMA OlderAlone ==
  ASSUME LayoutInv, LayoutAssumption, LegacyUsable, owner["oldRow"] = Nobody
  PROVE  \A p \in Procs : proc[p].inflight = 0
BY RefreshingWhere, OneLayout DEF RowLock, LayoutAssumption

\* A process that serves and refreshes.
LEMMA ServingShape ==
  ASSUME LayoutInv, NEW q \in Procs, Serves(q), NEW v \in Nat, proc' = [proc EXCEPT ![q].inflight = v]
  PROVE  /\ DOMAIN proc' = Procs /\ proc' = [p \in Procs |-> proc'[p]]
         /\ \A p \in Procs \ {q} : proc'[p] = proc[p]
         /\ Shape(proc'[q]) /\ IsRecord(proc'[q].acting) /\ proc'[q].inflight = v
         /\ proc'[q].mode = proc[q].mode /\ proc'[q].at = "none" /\ proc'[q].job = "none" /\ proc'[q].wants = {}
<1> DEFINE x == [proc[q] EXCEPT !.inflight = v]
<1>1. Shape(proc[q]) /\ IsRecord(proc[q].acting)
  BY DEF LayoutInv, LayoutTypes
<1>2. proc' = [proc EXCEPT ![q] = x]
  BY DEF LayoutInv, LayoutTypes
<1>3. proc[q].at = "none" /\ proc[q].job = "none" /\ proc[q].wants = {}
  BY DEF LayoutInv, Holding
<1>4. /\ Shape(x) /\ x.mode = proc[q].mode /\ x.inflight = v /\ x.acting = proc[q].acting
      /\ x.at = "none" /\ x.job = "none" /\ x.wants = {}
  BY <1>1, <1>3 DEF Shape, Fields
<1> HIDE DEF x
<1>5. proc'[q] = x /\ DOMAIN proc' = Procs /\ proc' = [p \in Procs |-> proc'[p]]
      /\ \A p \in Procs \ {q} : proc'[p] = proc[p]
  BY <1>2 DEF LayoutInv, LayoutTypes
<1> QED BY <1>1, <1>4, <1>5

LEMMA ExchangeHolds ==
  ASSUME LayoutInv, LayoutAssumption, NEW q \in Procs, Exchange(q)
  PROVE  LayoutInv'
<1> DEFINE mode == proc[q].mode
           lock == RowLock(mode)
           version == Pool(mode)
<1>1. /\ Serves(q) /\ Unlocked(lock) /\ Usable(mode) /\ version # Absent /\ token.live < MaxToken
      /\ token' = Exchanged(version)
      /\ IF version = token.live
         THEN /\ proc' = [proc EXCEPT ![q].inflight = token.live + 1]
              /\ owner' = [owner EXCEPT ![lock] = q]
         ELSE UNCHANGED <<proc, owner>>
      /\ UNCHANGED <<folders, registered, older, used>>
  BY DEF Exchange
<1>2. /\ lock \in Locks /\ owner[lock] = Nobody /\ \A p \in Procs \ {q} : proc[p].inflight = 0
  BY <1>1, OneRefresh DEF RowLock, Locks, Unlocked
<1>3. version = token.saved /\ token.saved # Absent
  BY <1>1, OneLayout DEF Usable, Serves
<1>4. /\ token \in [live : Nat, saved : Nat, lost : BOOLEAN, burnt : BOOLEAN] /\ Tokens
      /\ DOMAIN owner = Locks /\ owner = [l \in Locks |-> owner[l]]
  BY DEF LayoutInv, LayoutTypes
<1>5. proc[q].inflight = 0 /\ older # "refreshing"
  <2>1. proc[q].mode = "legacy" => older # "refreshing"
    BY <1>1 DEF RowLock, Unlocked
  <2> QED BY <1>1, <1>2, <2>1, NoOlderRefresh DEF LayoutInv, Refreshing, LayoutAssumption
<1>6. CASE version = token.live
  <2>1. token' = [token EXCEPT !.live = token.live + 1]
    BY <1>1, <1>6 DEF Exchanged
  <2>2. /\ token'.live = token.live + 1 /\ token'.saved = token.saved /\ token'.lost = token.lost
        /\ token'.burnt = token.burnt
        /\ token' \in [live : Nat, saved : Nat, lost : BOOLEAN, burnt : BOOLEAN]
    BY <1>4, <2>1
  <2>3. /\ DOMAIN proc' = Procs /\ proc' = [p \in Procs |-> proc'[p]]
        /\ \A p \in Procs \ {q} : proc'[p] = proc[p]
        /\ Shape(proc'[q]) /\ IsRecord(proc'[q].acting) /\ proc'[q].inflight = token.live + 1
        /\ proc'[q].mode = proc[q].mode /\ proc'[q].at = "none" /\ proc'[q].job = "none" /\ proc'[q].wants = {}
    <3> DEFINE v == token.live + 1
    <3>1. v \in Nat /\ proc' = [proc EXCEPT ![q].inflight = v]
      BY <1>1, <1>4, <1>6
    <3> HIDE DEF v
    <3>2. /\ DOMAIN proc' = Procs /\ proc' = [p \in Procs |-> proc'[p]]
          /\ \A p \in Procs \ {q} : proc'[p] = proc[p]
          /\ Shape(proc'[q]) /\ IsRecord(proc'[q].acting) /\ proc'[q].inflight = v
          /\ proc'[q].mode = proc[q].mode /\ proc'[q].at = "none" /\ proc'[q].job = "none"
          /\ proc'[q].wants = {}
      BY <1>1, <3>1, ServingShape
    <3> QED BY <3>2 DEF v
  <2>4. OthersStay(q)
    <3>1. registered' = [old |-> registered'.old, sub |-> registered'.sub]
      BY <1>1 DEF LayoutInv, LayoutTypes
    <3>2. /\ DOMAIN owner' = Locks /\ owner' = [l \in Locks |-> owner'[l]]
          /\ \A p \in Procs \ {q}, l \in Locks : owner[l] = p => owner'[l] = p
      BY <1>1, <1>2, <1>4, <1>6 DEF LayoutAssumption
    <3> QED BY <1>5, <2>3, <3>1, <3>2 DEF OthersStay
  <2>5. Tokens'
    <3>1. proc'[q].inflight # 0
      BY <1>4, <2>3
    <3> QED BY <1>3, <1>4, <2>2, <3>1 DEF Tokens
  <2>6. ASSUME NEW p \in Procs PROVE Refreshing(p)'
    <3>1. CASE p = q
      <4>1. Serves(q)' /\ owner'[RowLock(proc'[q].mode)] = q
        BY <1>1, <1>2, <1>4, <1>6, <2>3 DEF Serves
      <4>2. Usable(proc[q].mode)'
        BY <1>1, <2>3 DEF Usable, LegacyUsable, HomeUsable, Conflict, SecondCopy, folders
      <4> QED BY <1>4, <2>2, <2>3, <3>1, <4>1, <4>2, <1>6, <1>3 DEF Refreshing, Usable
    <3>2. CASE p # q
      BY <1>2, <2>3, <3>2 DEF Refreshing
    <3> QED BY <3>1, <3>2
  <2>7. FoldersStay
    BY <1>1, <2>2 DEF FoldersStay
  <2>8. ASSUME NEW p \in Procs \ {q} PROVE Facts(p)'
    BY <2>4, <2>7, OthersKeep DEF LayoutInv, Facts, OthersStay
  <2>9. AllRecover' /\ PlacedFirst'
    BY <2>7, FoldersKeep DEF LayoutInv
  <2>10. /\ \A o \in oldImages' : IsOld(o) /\ \A s \in subImages' : IsSub(s)
         /\ old' \in oldImages' /\ sub' \in subImages' /\ UNCHANGED <<sub, subImages>>
    BY <1>1 DEF LayoutInv, LayoutTypes, folders
  <2>12. Olders'
    BY <1>1, <1>5 DEF LayoutInv, Olders, folders, Waits
  <2> QED BY <1>1, <1>4, <2>2, <2>3, <2>4, <2>5, <2>6, <2>8, <2>9, <2>10, <2>12, UserStep
<1>7. CASE version # token.live
  <2>1. token' = [token EXCEPT !.burnt = TRUE] /\ UNCHANGED <<proc, owner>>
    BY <1>1, <1>7 DEF Exchanged
  <2>2. Alone => token.lost
    BY <1>2, <1>3, <1>4, <1>5, <1>7 DEF Tokens
  <2>3. /\ token'.live = token.live /\ token'.saved = token.saved /\ token'.lost = token.lost
        /\ token' \in [live : Nat, saved : Nat, lost : BOOLEAN, burnt : BOOLEAN]
    BY <1>4, <2>1
  <2>4. OthersStay(q)
    BY <1>1, <2>1 DEF OthersStay, LayoutInv, LayoutTypes
  <2>5. Tokens'
    BY <1>4, <2>1, <2>2, <2>3 DEF Tokens
  <2>6. ASSUME NEW p \in Procs PROVE Refreshing(p)'
    BY <1>2, <1>5, <2>1 DEF Refreshing
  <2>7. FoldersStay
    BY <1>1, <2>3 DEF FoldersStay
  <2>8. ASSUME NEW p \in Procs \ {q} PROVE Facts(p)'
    BY <2>4, <2>7, OthersKeep DEF LayoutInv, Facts, OthersStay
  <2>9. AllRecover' /\ PlacedFirst'
    BY <2>7, FoldersKeep DEF LayoutInv
  <2>10. /\ \A o \in oldImages' : IsOld(o) /\ \A s \in subImages' : IsSub(s)
         /\ old' \in oldImages' /\ sub' \in subImages' /\ UNCHANGED <<sub, subImages>>
    BY <1>1 DEF LayoutInv, LayoutTypes, folders
  <2>12. Olders'
    BY <1>1, <1>5 DEF LayoutInv, Olders, folders, Waits
  <2>11. /\ Shape(proc'[q]) /\ IsRecord(proc'[q].acting) /\ proc'[q].inflight \in Nat
         /\ proc'[q].mode = proc[q].mode /\ proc'[q].at = "none" /\ proc'[q].job = "none" /\ proc'[q].wants = {}
    BY <1>1, <2>1 DEF LayoutInv, LayoutTypes, Holding
  <2> QED BY <1>1, <2>3, <2>4, <2>5, <2>6, <2>8, <2>9, <2>10, <2>11, <2>12, UserStep
<1> QED BY <1>6, <1>7

LEMMA StopHolds ==
  ASSUME LayoutInv, LayoutAssumption, NEW q \in Procs, Stop(q)
  PROVE  LayoutInv'
<1> DEFINE x == Down("none")
<1>1. /\ proc' = [proc EXCEPT ![q] = x] /\ proc[q].inflight = 0 /\ FoldersStay /\ token' = token
      /\ UNCHANGED owner /\ used' \in Counters
  BY DEF Stop, FoldersStay, LayoutInv, LayoutTypes
<1>2. /\ registered' = [old |-> registered'.old, sub |-> registered'.sub]
      /\ registered'.sub = registered.sub \ {q}
  BY DEF Stop, Unregistered, LayoutInv, LayoutTypes
<1> HIDE DEF x
<1>3. OthersStay(q) /\ proc'[q] = x
  BY <1>1, <1>2 DEF OthersStay, LayoutInv, LayoutTypes
<1>4. Shape(x) /\ x.acting = NoRecord /\ IsRecord(NoRecord) /\ x.inflight = 0 /\ x.mode = "down"
      /\ x.at = "none" /\ x.job = "none" /\ x.wants = {}
  BY DownShape DEF x
<1>5. Facts(q)'
  BY <1>3, <1>4, NoStage
<1> QED BY <1>1, <1>2, <1>3, <1>4, <1>5, QuietStep

\* What a write into every state of the old folder keeps, where the folder's
\* runtimes show no tombstone.
Rewritten(o, w) ==
  /\ IsOld(w) /\ w.moving = o.moving /\ w.staged = o.staged /\ w.at["localPoolState"] = token'.saved
  /\ IF token.saved = Absent THEN w.at["journal"] # Absent ELSE w.at["journal"] = o.at["journal"]
  /\ \A r \in Runtimes : w.at[r] = o.at[r] \/ ~IsTombstone(w.at[r])
  /\ \A r \in {"localRoster"} \cup Runtimes : w.at[r] = o.at[r] \/ token.saved = Absent
  /\ ~IsTombstone(o.at["localRuntime"]) => ~IsTombstone(w.at["localRuntime"])

\* A credential written to the old folder is the one the record leads to.
LEMMA RewrittenRecovers ==
  ASSUME NEW o, NEW w, NEW s, Rewritten(o, w), Recovers(o, s), token'.saved \in Nat, token'.saved # Absent,
         s.record.phase \notin {"committed", "restoring"}, s.record.phase \in Phases,
         s.record.phase = "restore-staged" => ~Waits(o, s.record, "localPoolState"),
         token.saved = Absent => ~Pointed(w)
  PROVE  Recovers(w, s)'
<1> DEFINE rec == s.record
<1>1. NoMove(rec) \/ rec.phase = "restored" => Undone(w)'
  BY DEF Rewritten, Recovers, Undone, OldComplete, Pointed
<1>2. rec.phase = "preparing" => MidMove(w, s)'
  <2> SUFFICES ASSUME rec.phase = "preparing" PROVE MidMove(w, s)'
    OBVIOUS
  <2>1. MidMove(o, s)
    BY DEF Recovers
  <2>2. token.saved = Absent => rec.files["journal"] = Absent
    BY DEF Recovers, Nothing, Roles
  <2>3. IF rec.files["journal"] = Absent
        THEN w.moving = Absent /\ (token'.saved # Absent => w.at["journal"] # Absent)
        ELSE (w.at["journal"] = Absent) # (w.moving = Absent)
    BY <2>1, <2>2 DEF MidMove, Rewritten
  <2>4. \A r \in Runtimes : \/ ~IsTombstone(w.at[r])
                            \/ /\ w.at[r] = Tombstone(rec.attempt)
                               /\ rec.files[r] \in {Absent, s.at[r]}
    BY <2>1 DEF MidMove, Rewritten
  <2> QED BY <2>3, <2>4 DEF MidMove, Rewritten
<1>3. rec.phase = "restore-staged" => MidRestore(w, rec)'
  <2> SUFFICES ASSUME rec.phase = "restore-staged" PROVE MidRestore(w, rec)'
    OBVIOUS
  <2>1. MidRestore(o, rec) /\ ~Waits(w, rec, "localPoolState") /\ w.moving = Absent
    BY DEF Recovers, Rewritten, Waits, MidRestore
  <2>2. token.saved = Absent => \A r \in Roles : rec.set[r] = Absent
    BY DEF Recovers, Nothing
  <2>3. \A r \in Roles : rec.set[r] # Absent =>
          w.staged[r] = rec.set[r] \/ (w.at[r] # Absent /\ ~IsTombstone(w.at[r]))
    <3> SUFFICES ASSUME NEW r \in Roles, rec.set[r] # Absent, w.staged[r] # rec.set[r]
                 PROVE  w.at[r] # Absent /\ ~IsTombstone(w.at[r])
      OBVIOUS
    <3>1. token.saved # Absent /\ o.at[r] # Absent /\ ~IsTombstone(o.at[r])
      BY <2>1, <2>2 DEF MidRestore, Rewritten
    <3>2. CASE r = "localPoolState"
      BY <3>2 DEF Rewritten, IsTombstone, Absent
    <3>3. CASE r # "localPoolState"
      BY <3>1, <3>3 DEF Rewritten, Roles, Runtimes
    <3> QED BY <3>2, <3>3
  <2>4. \A r \in Runtimes : IsTombstone(w.at[r]) => w.at[r] = Tombstone(rec.attempt)
    BY <2>1 DEF MidRestore, Rewritten
  <2>5. rec.set["journal"] = Absent => w.at["journal"] # Absent
    BY <2>1 DEF MidRestore, Rewritten
  <2> QED BY <2>1, <2>3, <2>4, <2>5 DEF MidRestore, Waits, Rewritten
<1>4. Vacated(rec) => FALSE
  BY DEF Vacated
<1>5. \A r \in Roles : w.staged[r] = Absent \/ (rec.phase \in {"restoring", "restore-staged"}
                                             /\ w.staged[r] = rec.set[r])
  BY DEF Recovers, Rewritten
<1> QED BY <1>1, <1>2, <1>3, <1>4, <1>5 DEF Recovers

\* A credential is written to the old folder, which is in use.
LegacyWritten ==
  /\ UNCHANGED <<sub, subImages>>
  /\ token' \in [live : Nat, saved : Nat, lost : BOOLEAN, burnt : BOOLEAN] /\ token'.saved # Absent
  /\ ~IsTombstone(old.at["localRuntime"])
  /\ \A s \in subImages : s.record.phase \notin {"committed", "restoring"}
  /\ \A s \in subImages, o \in oldImages : s.record.phase = "restore-staged" =>
       ~Waits(o, s.record, "localPoolState")
  /\ token.saved = Absent => ~Pointed(old)
  /\ \A w \in oldImages' : (token.saved = Absent => ~Pointed(w)) /\ \E o \in oldImages : Rewritten(o, w)
  /\ old' \in oldImages' /\ Rewritten(old, old') /\ (oldImages = {old} => oldImages' = {old'})

\* The record still leads to the newest stored credential.
LEMMA WrittenRecovers ==
  ASSUME LayoutInv, LegacyWritten
  PROVE  /\ AllRecover' /\ PlacedFirst'
         /\ \A o \in oldImages' : IsOld(o)
         /\ \A s \in subImages, o \in oldImages' : s.record.phase = "restore-staged" =>
              ~Waits(o, s.record, "localPoolState")
<1> USE DEF LegacyWritten
<1>1. \A s \in subImages : IsSub(s)
  BY DEF LayoutInv, LayoutTypes
<1>2. token'.saved \in Nat
  OBVIOUS
<1>3. AllRecover'
  <2> SUFFICES ASSUME NEW w \in oldImages', NEW s \in subImages PROVE Recovers(w, s)'
    BY DEF AllRecover
  <2>1. PICK o \in oldImages : Rewritten(o, w)
    OBVIOUS
  <2>2. Recovers(o, s) /\ s.record.phase \in Phases
    BY <1>1 DEF LayoutInv, AllRecover, IsSub, IsRecord, LayoutRecords
  <2> QED BY <1>2, <2>1, <2>2, RewrittenRecovers
<1>4. \A s \in subImages, o \in oldImages' : s.record.phase = "restore-staged" =>
         ~Waits(o, s.record, "localPoolState")
  BY DEF Rewritten, Waits
<1>5. PlacedFirst'
  BY <1>4 DEF PlacedFirst, Waits
<1>6. \A o \in oldImages' : IsOld(o)
  BY DEF Rewritten
<1> QED BY <1>3, <1>4, <1>5, <1>6

\* Nothing changes of what a process at its stage knows.
LEMMA WrittenFacts ==
  ASSUME LayoutInv, LegacyWritten, NEW p \in Procs, proc'[p] = proc[p],
         \A l \in Locks : owner[l] = p => owner'[l] = p
  PROVE  Facts(p)'
<1> USE DEF LegacyWritten, Moving, Copied, Undoing, Cleaning, Staging, Discarding, Placing, Retiring
<1>1. old \in oldImages /\ sub \in subImages /\ IsOld(old) /\ \A s \in subImages : IsSub(s)
  BY DEF LayoutInv, LayoutTypes
<1>2. sub.record.phase \notin {"committed", "restoring"}
  BY <1>1
<1>3. \A s \in subImages, o \in oldImages' : s.record.phase = "restore-staged" =>
         ~Waits(o, s.record, "localPoolState")
  BY WrittenRecovers
<1>4. Holding(p) /\ MoveFacts(p) /\ CleanFacts(p) /\ RestoreFacts(p)
  BY DEF LayoutInv
<1>5. Holding(p)'
  BY <1>4, HoldingKeeps
<1>6. MoveFacts(p)'
  <2>1. CASE proc[p].at \in {"drop-copies", "record-rollback"}
    <3>1. \A w \in oldImages' : Undone(w)'
      <4> SUFFICES ASSUME NEW w \in oldImages' PROVE Undone(w)'
        OBVIOUS
      <4>1. PICK o \in oldImages : Rewritten(o, w)
        OBVIOUS
      <4>2. Undone(o)
        BY <1>4, <2>1 DEF MoveFacts
      <4> QED BY <4>1, <4>2 DEF Undone, OldComplete, Rewritten, Pointed
    <3> QED BY <1>4, <2>1, <3>1 DEF MoveFacts
  <2>2. CASE proc[p].at \in {"verify", "commit"}
    <3>1. /\ proc[p].acting.phase = "preparing" /\ IsRecord(proc[p].acting)
          /\ old.at["localRuntime"] = Tombstone(proc[p].acting.attempt)
      BY <1>4, <2>2 DEF MoveFacts, Runtimes, LayoutInv, LayoutTypes
    <3> QED BY <3>1 DEF IsRecord, LayoutRecords, IsTombstone, Tombstone
  <2>3. CASE proc[p].at = "bring-back"
    BY <1>4, <2>3 DEF MoveFacts, Rewritten
  <2>4. CASE proc[p].at = "barriers"
    <3>1. /\ IsRecord(proc[p].acting) /\ proc[p].acting.phase = "preparing"
      BY <1>4, <2>4 DEF MoveFacts, LayoutInv, LayoutTypes
    <3>2. token.saved = Absent => Runtimes \ proc[p].roles = {}
      BY <1>4, <2>4, <3>1 DEF MoveFacts, IsRecord, LayoutRecords, Pointed, IsTombstone, Tombstone
    <3>3. \A r \in Runtimes \ proc[p].roles : old'.at[r] = Tombstone(proc[p].acting.attempt)
      BY <1>4, <2>4, <3>2 DEF MoveFacts, Rewritten
    <3> QED BY <1>4, <2>4, <3>3 DEF MoveFacts
  <2>5. CASE proc[p].at \notin {"drop-copies", "record-rollback", "verify", "commit", "bring-back", "barriers"}
    BY <1>4, <2>5 DEF MoveFacts
  <2> QED BY <2>1, <2>2, <2>3, <2>4, <2>5
<1>7. CleanFacts(p)'
  <2>1. proc[p].at \notin Cleaning \cup {"committed", "sync", "admit"}
        /\ (proc[p].at = "unlock-data" => proc[p].job = "aborted")
    BY <1>1, <1>2, <1>4 DEF CleanFacts
  <2> QED BY <1>4, <2>1 DEF CleanFacts
<1>8. RestoreFacts(p)'
  <2>1. proc[p].at \notin Staging \cup Discarding
    BY <1>2, <1>4 DEF RestoreFacts
  <2>2. CASE proc[p].at \in Placing
    <3>1. proc[p].acting = sub.record /\ sub.record.phase = "restore-staged"
      BY <1>4, <2>2 DEF RestoreFacts
    <3>2. \A r \in Roles : Settled(old, proc[p].acting, r) => Settled(old', proc[p].acting, r)
      BY DEF Settled, Waits, Rewritten
    <3> QED BY <1>1, <1>3, <1>4, <2>2, <3>1, <3>2 DEF RestoreFacts, Settled, Waits
  <2>3. CASE proc[p].at \notin Placing
    BY <1>4, <2>1, <2>3 DEF RestoreFacts
  <2> QED BY <2>2, <2>3
<1> QED BY <1>5, <1>6, <1>7, <1>8 DEF Facts

\* A user's write to the old folder: nothing of what the others know changes.
LEMMA LegacyWrite ==
  ASSUME LayoutInv, LayoutAssumption, NEW q \in Procs, Serves(q), OthersStay(q), older # "refreshing",
         Shape(proc'[q]), IsRecord(proc'[q].acting), proc'[q].inflight = 0,
         proc'[q].mode = proc[q].mode, proc'[q].at = "none", proc'[q].job = "none", proc'[q].wants = {},
         UNCHANGED <<registered, used, older>>, Tokens', \A p \in Procs \ {q} : proc[p].inflight = 0,
         LegacyWritten
  PROVE  LayoutInv'
<1>1. /\ sub \in subImages /\ \A s \in subImages : IsSub(s)
      /\ old' \in oldImages' /\ UNCHANGED <<sub, subImages>>
      /\ token' \in [live : Nat, saved : Nat, lost : BOOLEAN, burnt : BOOLEAN]
  BY DEF LayoutInv, LayoutTypes, LegacyWritten
<1>2. AllRecover' /\ PlacedFirst' /\ \A o \in oldImages' : IsOld(o)
  BY WrittenRecovers
<1>3. \A p \in Procs : Refreshing(p)'
  BY DEF Refreshing, OthersStay
<1>4. Olders'
  BY DEF LayoutInv, Olders, LegacyWritten, Rewritten, Waits
<1>5. \A p \in Procs \ {q} : Facts(p)'
  BY WrittenFacts DEF OthersStay
<1> QED BY <1>1, <1>2, <1>3, <1>4, <1>5, UserStep

\* A user's write to the state folder.
LEMMA HomeWrite ==
  ASSUME LayoutInv, LayoutAssumption, NEW q \in Procs, Serves(q), proc[q].mode = "home", OthersStay(q),
         Shape(proc'[q]), IsRecord(proc'[q].acting), proc'[q].inflight = 0,
         proc'[q].mode = proc[q].mode, proc'[q].at = "none", proc'[q].job = "none", proc'[q].wants = {},
         UNCHANGED <<registered, used, older, old, oldImages>>,
         token' \in [live : Nat, saved : Nat, lost : BOOLEAN, burnt : BOOLEAN], token'.saved # Absent,
         Tokens', \A p \in Procs \ {q} : proc[p].inflight = 0,
         \A w \in subImages' : /\ IsSub(w) /\ w.at["localPoolState"] = token'.saved /\ w.at["journal"] # Absent
                               /\ \E s \in subImages : w.record = s.record,
         sub' \in subImages', sub'.record = sub.record
  PROVE  LayoutInv'
<1> USE DEF Moving, Copied, Undoing, Cleaning, Staging, Discarding, Placing, Retiring
<1>1. /\ old \in oldImages /\ sub \in subImages /\ \A o \in oldImages : IsOld(o)
      /\ sub.record.phase = "committed" /\ \A s \in subImages : s.record.phase \in {"committed", "restoring"}
  BY DEF LayoutInv, LayoutTypes, Homes
<1>2. \A w \in subImages' : w.record.phase \in {"committed", "restoring"}
  BY <1>1
<1>3. AllRecover'
  <2> SUFFICES ASSUME NEW o \in oldImages, NEW w \in subImages' PROVE Recovers(o, w)'
    BY DEF AllRecover
  <2>1. PICK s \in subImages : w.record = s.record
    OBVIOUS
  <2>2. Recovers(o, s) /\ w.record.phase \in {"committed", "restoring"}
    BY <1>2 DEF LayoutInv, AllRecover
  <2>3. SubComplete(o, w)'
    BY <2>1, <2>2 DEF Recovers, SubComplete
  <2> QED BY <2>1, <2>2, <2>3 DEF Recovers, NoMove
<1>4. PlacedFirst'
  BY <1>2 DEF PlacedFirst
<1>5. \A p \in Procs : Refreshing(p)'
  BY DEF Refreshing, OthersStay
<1>6. ASSUME NEW p \in Procs \ {q} PROVE Facts(p)'
  <2>1. Holding(p) /\ MoveFacts(p) /\ CleanFacts(p) /\ RestoreFacts(p) /\ proc'[p] = proc[p]
    BY DEF LayoutInv, OthersStay
  <2>2. Holding(p)'
    BY <2>1, HoldingKeeps DEF OthersStay
  <2>3. MoveFacts(p)'
    <3>1. proc[p].at \notin Moving \cup Undoing
      BY <1>1, <2>1 DEF MoveFacts
    <3> QED BY <2>1, <3>1 DEF MoveFacts
  <2>4. CleanFacts(p)'
    <3>1. (\A s \in subImages : s.record.phase = "committed") => \A s \in subImages' : s.record.phase = "committed"
      OBVIOUS
    <3> QED BY <2>1, <3>1 DEF CleanFacts, Conflict, SecondCopy
  <2>5. RestoreFacts(p)'
    <3>1. proc[p].at \notin Staging \cup Discarding \cup Placing \cup Retiring \cup {"staged"}
      BY <1>1, <2>1 DEF RestoreFacts
    <3> QED BY <2>1, <3>1 DEF RestoreFacts
  <2> QED BY <2>2, <2>3, <2>4, <2>5 DEF Facts
<1>7. Olders'
  <2>1. older # "refreshing"
    BY <1>1, OneLayout DEF LayoutInv, Olders
  <2> QED BY <1>1, <2>1 DEF LayoutInv, Olders
<1> QED BY <1>1, <1>3, <1>4, <1>5, <1>6, <1>7, UserStep

\* A refresh that came back to a layout that is not in use any more is
\* dropped.
LEMMA DropHolds ==
  ASSUME LayoutInv, LayoutAssumption, NEW q \in Procs, Save(q), ~Usable(proc[q].mode)
  PROVE  LayoutInv'
<1>1. /\ Serves(q) /\ proc[q].inflight # 0 /\ owner[RowLock(proc[q].mode)] = q
      /\ proc[q].mode = "home" /\ ~Alone
  BY DEF Save, LayoutInv, Refreshing, Serves
<1>2. /\ token' = token /\ UNCHANGED folders /\ owner' = Free(q, {"subRow"})
      /\ proc' = [proc EXCEPT ![q].inflight = 0]
      /\ UNCHANGED <<registered, older, used>>
  BY <1>1 DEF Save, RowLock
<1>3. /\ DOMAIN proc' = Procs /\ proc' = [p \in Procs |-> proc'[p]]
      /\ \A p \in Procs \ {q} : proc'[p] = proc[p]
      /\ Shape(proc'[q]) /\ IsRecord(proc'[q].acting) /\ proc'[q].inflight = 0
      /\ proc'[q].mode = proc[q].mode /\ proc'[q].at = "none" /\ proc'[q].job = "none" /\ proc'[q].wants = {}
  BY <1>1, <1>2, ServingShape
<1>4. OthersStay(q)
  <2>1. registered' = [old |-> registered'.old, sub |-> registered'.sub]
    BY <1>2 DEF LayoutInv, LayoutTypes
  <2> QED BY <1>2, <1>3, <2>1, Freed DEF OthersStay
<1>5. FoldersStay
  BY <1>2 DEF FoldersStay
<1>6. AllRecover' /\ PlacedFirst'
  BY <1>5, FoldersKeep DEF LayoutInv
<1>7. Tokens'
  BY <1>1, <1>2, <1>3 DEF LayoutInv, Tokens
<1>8. Olders'
  BY <1>2, <1>4 DEF LayoutInv, Olders, OthersStay, folders, LegacyUsable, Waits
<1>9. ASSUME NEW p \in Procs PROVE Refreshing(p)'
  <2>1. CASE p = q
    BY <1>3, <2>1 DEF Refreshing
  <2>2. CASE p # q
    <3>1. RowLock(proc[p].mode) \in Locks /\ Refreshing(p)
      BY DEF RowLock, Locks, LayoutInv
    <3> QED BY <1>1, <1>2, <1>4, <2>2, <3>1 DEF Refreshing, OthersStay, folders, Serves, RowLock, Usable,
          LegacyUsable
  <2> QED BY <2>1, <2>2
<1>10. ASSUME NEW p \in Procs \ {q} PROVE Facts(p)'
  BY <1>4, <1>5, OthersKeep DEF LayoutInv, Facts, OthersStay
<1>11. /\ \A o \in oldImages' : IsOld(o) /\ \A s \in subImages' : IsSub(s)
       /\ old' \in oldImages' /\ sub' \in subImages' /\ UNCHANGED <<sub, subImages>>
       /\ token' \in [live : Nat, saved : Nat, lost : BOOLEAN, burnt : BOOLEAN]
  BY <1>2 DEF LayoutInv, LayoutTypes, folders
<1> QED BY <1>1, <1>2, <1>3, <1>4, <1>6, <1>7, <1>8, <1>9, <1>10, <1>11, UserStep

\* A refresh that came back is saved where its process serves from.
LEMMA SaveHolds ==
  ASSUME LayoutInv, LayoutAssumption, NEW q \in Procs, Save(q)
  PROVE  LayoutInv'
<1> SUFFICES ASSUME Usable(proc[q].mode) PROVE LayoutInv'
  BY DropHolds
<1> DEFINE mode == proc[q].mode
           v == proc[q].inflight
           written(o) == [o EXCEPT !.at["localPoolState"] = v]
<1>1. /\ Serves(q) /\ v # 0 /\ owner[RowLock(mode)] = q /\ v = token.live /\ token.saved < token.live
      /\ Usable(mode)
  BY DEF Save, LayoutInv, Refreshing
<1>2. /\ PoolWritten(mode, v) /\ token' = [token EXCEPT !.saved = v]
      /\ owner' = Free(q, {RowLock(mode)})
      /\ proc' = [proc EXCEPT ![q].inflight = 0]
      /\ UNCHANGED <<registered, older, used>>
  BY <1>1 DEF Save
<1>3. \A p \in Procs \ {q} : proc[p].inflight = 0
  BY <1>1, OneRefresh
<1>4. /\ token \in [live : Nat, saved : Nat, lost : BOOLEAN, burnt : BOOLEAN] /\ Tokens
      /\ \A o \in oldImages : IsOld(o) /\ \A s \in subImages : IsSub(s)
      /\ old \in oldImages /\ sub \in subImages
  BY DEF LayoutInv, LayoutTypes
<1>5. /\ token' \in [live : Nat, saved : Nat, lost : BOOLEAN, burnt : BOOLEAN]
      /\ token'.saved = v /\ token'.live = v /\ token'.lost = token.lost /\ token'.burnt = token.burnt
      /\ v \in Nat /\ v # Absent /\ token.saved # Absent
  BY <1>1, <1>2, <1>4 DEF Tokens, Absent
<1>6. Tokens'
  BY <1>1, <1>4, <1>5 DEF Tokens
<1>7. /\ DOMAIN proc' = Procs /\ proc' = [p \in Procs |-> proc'[p]]
      /\ \A p \in Procs \ {q} : proc'[p] = proc[p]
      /\ Shape(proc'[q]) /\ IsRecord(proc'[q].acting) /\ proc'[q].inflight = 0
      /\ proc'[q].mode = proc[q].mode /\ proc'[q].at = "none" /\ proc'[q].job = "none" /\ proc'[q].wants = {}
  BY <1>1, <1>2, ServingShape
<1>8. OthersStay(q)
  <2>1. registered' = [old |-> registered'.old, sub |-> registered'.sub]
    BY <1>2 DEF LayoutInv, LayoutTypes
  <2> QED BY <1>2, <1>7, <2>1, Freed DEF OthersStay
<1>9. CASE mode = "legacy"
  <2>1. /\ old' = written(old) /\ oldImages' = {written(o) : o \in oldImages} /\ UNCHANGED <<sub, subImages>>
    BY <1>2, <1>9 DEF PoolWritten
  <2>2. /\ \A s \in subImages : s.record.phase \notin {"committed", "restoring"}
        /\ \A s \in subImages, o \in oldImages :
             s.record.phase = "restore-staged" => ~Waits(o, s.record, "localPoolState")
        /\ ~IsTombstone(old.at["localRuntime"])
    BY <1>1, <1>9, OneLayout DEF Usable, LegacyUsable
  <2>3. ASSUME NEW o \in oldImages PROVE Rewritten(o, written(o))
    <3> DEFINE f == [o.at EXCEPT !["localPoolState"] = v]
    <3>1. /\ IsOld(o) /\ f \in [Roles -> Int] /\ \A r \in Roles \ Runtimes : f[r] >= 0
          /\ f["localPoolState"] = v /\ \A r \in Roles : r # "localPoolState" => f[r] = o.at[r]
      BY <1>4, <1>5 DEF IsOld, Roles
    <3>2. written(o) = [o EXCEPT !.at = f]
      BY <3>1 DEF IsOld
    <3> HIDE DEF f, written
    <3>3. /\ written(o).at = f /\ written(o).moving = o.moving /\ written(o).staged = o.staged
          /\ IsOld(written(o))
      BY <3>1, <3>2 DEF IsOld
    <3> QED BY <1>5, <3>1, <3>3 DEF Rewritten, Roles, Runtimes
  <2> HIDE DEF written
  <2>4. /\ \A w \in oldImages' : \E o \in oldImages : Rewritten(o, w)
        /\ old' \in oldImages' /\ Rewritten(old, old') /\ (oldImages = {old} => oldImages' = {old'})
    BY <1>4, <2>1, <2>3
  <2>5. UNCHANGED <<registered, used, sub, subImages>>
    BY <1>2, <2>1
  <2>6. older # "refreshing" /\ older' = older
    BY <1>1, <1>2, <1>9, NoOlderRefresh DEF RowLock
  <2>7. LegacyWritten
    BY <1>5, <2>1, <2>2, <2>4 DEF LegacyWritten
  <2> HIDE DEF mode, v
  <2> QED BY <1>1, <1>3, <1>6, <1>7, <1>8, <2>5, <2>6, <2>7, LegacyWrite
<1>10. CASE mode = "home"
  <2>1. /\ sub' = written(sub) /\ subImages' = {written(s) : s \in subImages} /\ UNCHANGED <<old, oldImages>>
    BY <1>2, <1>10 DEF PoolWritten
  <2>2. sub.record.phase = "committed" /\ \A s \in subImages : s.record.phase \in {"committed", "restoring"}
    BY <1>10 DEF LayoutInv, Homes
  <2>3. ASSUME NEW s \in subImages
        PROVE  IsSub(written(s)) /\ written(s).at["localPoolState"] = v /\ written(s).at["journal"] # Absent
               /\ written(s).record = s.record
    <3>1. IsSub(s) /\ s.at["journal"] # Absent
      <4>1. Recovers(old, s)
        BY <1>4 DEF LayoutInv, AllRecover
      <4> QED BY <1>4, <1>5, <2>2, <4>1 DEF Recovers, SubComplete
    <3> DEFINE f == [s.at EXCEPT !["localPoolState"] = v]
    <3>2. /\ f \in [Roles -> Nat] /\ f["localPoolState"] = v /\ f["journal"] = s.at["journal"]
      BY <1>5, <3>1 DEF IsSub, Roles
    <3>3. written(s) = [s EXCEPT !.at = f]
      BY <3>1 DEF IsSub
    <3> HIDE DEF f, written
    <3>4. written(s).at = f /\ written(s).record = s.record /\ IsSub(written(s))
      BY <3>1, <3>2, <3>3 DEF IsSub
    <3> QED BY <3>1, <3>2, <3>4
  <2> HIDE DEF written
  <2>4. /\ \A w \in subImages' : /\ IsSub(w) /\ w.at["localPoolState"] = token'.saved /\ w.at["journal"] # Absent
                                 /\ \E s \in subImages : w.record = s.record
        /\ sub' \in subImages' /\ sub'.record = sub.record
    BY <1>4, <1>5, <2>1, <2>3
  <2>5. UNCHANGED <<registered, used, older, old, oldImages>>
    BY <1>2, <2>1
  <2> HIDE DEF mode, v
  <2>6. token'.saved # Absent /\ proc[q].mode = "home"
    BY <1>5, <1>10 DEF mode
  <2> QED BY <1>1, <1>3, <1>5, <1>6, <1>7, <1>8, <2>4, <2>5, <2>6, HomeWrite
<1> QED BY <1>1, <1>9, <1>10 DEF Serves

LEMMA MigrateHolds ==
  ASSUME LayoutInv, LayoutAssumption, NEW q \in Procs, Migrate(q)
  PROVE  LayoutInv'
<1> DEFINE created(o) == [o EXCEPT !.at = Created]
<1>1. /\ Serves(q) /\ token.saved = Absent /\ token' = [token EXCEPT !.saved = 1]
      /\ UNCHANGED <<owner, registered, proc, older, used>>
  BY DEF Migrate
<1>2. /\ token \in [live : Nat, saved : Nat, lost : BOOLEAN, burnt : BOOLEAN] /\ Tokens
      /\ old \in oldImages /\ sub \in subImages
      /\ \A o \in oldImages : IsOld(o) /\ \A s \in subImages : IsSub(s)
  BY DEF LayoutInv, LayoutTypes
<1>3. \A p \in Procs : proc[p].inflight = 0
  BY <1>1, <1>2 DEF Tokens
<1>4. /\ token' \in [live : Nat, saved : Nat, lost : BOOLEAN, burnt : BOOLEAN]
      /\ token'.saved = 1 /\ token'.live = 1 /\ token'.lost = token.lost /\ token'.burnt = token.burnt
  BY <1>1, <1>2 DEF Tokens
<1>5. Tokens'
  BY <1>1, <1>2, <1>3, <1>4 DEF Tokens, Absent
<1>6. /\ Shape(proc'[q]) /\ IsRecord(proc'[q].acting) /\ proc'[q].inflight = 0
      /\ proc'[q].mode = proc[q].mode /\ proc'[q].at = "none" /\ proc'[q].job = "none" /\ proc'[q].wants = {}
  BY <1>1, <1>3 DEF LayoutInv, LayoutTypes, Holding
<1>7. OthersStay(q)
  BY <1>1 DEF OthersStay, LayoutInv, LayoutTypes
<1>8. /\ Created \in [Roles -> Nat] /\ Created["localPoolState"] = 1 /\ Created["journal"] # Absent
      /\ \A r \in Roles : Created[r] \in {0, 1}
  BY DEF Created, Roles, Absent
<1>9. CASE proc[q].mode = "legacy"
  <2>1. /\ old' = created(old) /\ oldImages' = {created(o) : o \in oldImages} /\ UNCHANGED <<sub, subImages>>
        /\ ~Pointed(old)
    BY <1>9 DEF Migrate
  <2>2. ~IsTombstone(old.at["localRuntime"])
    BY <2>1 DEF Pointed, Runtimes
  <2>3. ASSUME NEW s \in subImages
        PROVE  /\ s.record.phase \notin {"committed", "restoring"}
               /\ \A o \in oldImages : s.record.phase = "restore-staged" => ~Waits(o, s.record, "localPoolState")
    <3>1. \A o \in oldImages : Recovers(o, s)
      BY DEF LayoutInv, AllRecover
    <3>2. s.record.phase \notin {"committed", "restoring"}
      BY <1>2, <2>2, <3>1 DEF Recovers, SubComplete, Runtimes, IsSub, IsRecord, LayoutRecords, IsTombstone,
          Tombstone
    <3>3. \A o \in oldImages : s.record.phase = "restore-staged" => ~Waits(o, s.record, "localPoolState")
      BY <1>1, <3>1 DEF Recovers, Nothing, Waits, Roles
    <3> QED BY <3>2, <3>3
  <2>4. ASSUME NEW o \in oldImages PROVE Rewritten(o, created(o)) /\ ~Pointed(created(o))
    <3>1. IsOld(o)
      BY <1>2
    <3>2. created(o).at = Created /\ created(o).moving = o.moving /\ created(o).staged = o.staged
          /\ created(o) \in [at : [Roles -> Int], moving : Nat, staged : [Roles -> Nat]]
      BY <1>8, <3>1 DEF IsOld
    <3> HIDE DEF created
    <3>3. IsOld(created(o))
      BY <1>8, <3>2 DEF IsOld
    <3>4. \A r \in Roles : ~IsTombstone(Created[r])
      BY <1>8 DEF IsTombstone
    <3> QED BY <1>1, <1>4, <1>8, <3>2, <3>3, <3>4 DEF Rewritten, Pointed, Runtimes, Roles
  <2> HIDE DEF created
  <2>5. /\ \A w \in oldImages' : ~Pointed(w) /\ \E o \in oldImages : Rewritten(o, w)
        /\ old' \in oldImages' /\ Rewritten(old, old') /\ (oldImages = {old} => oldImages' = {old'})
    BY <1>2, <2>1, <2>4
  <2>6. UNCHANGED <<registered, used, sub, subImages>>
    BY <1>1, <2>1
  <2>7. token'.saved # Absent
    BY <1>4 DEF Absent
  <2>8. older # "refreshing" /\ older' = older
    BY <1>1 DEF LayoutInv, Olders
  <2>9. LegacyWritten
    BY <1>4, <2>1, <2>2, <2>3, <2>5, <2>7 DEF LegacyWritten
  <2> QED BY <1>1, <1>3, <1>5, <1>6, <1>7, <2>6, <2>8, <2>9, LegacyWrite
<1>10. CASE proc[q].mode = "home"
  <2>1. /\ sub' = created(sub) /\ subImages' = {created(s) : s \in subImages} /\ UNCHANGED <<old, oldImages>>
    BY <1>10 DEF Migrate
  <2>2. ASSUME NEW s \in subImages
        PROVE  IsSub(created(s)) /\ created(s).at = Created /\ created(s).record = s.record
    BY <1>2, <1>8 DEF IsSub
  <2> HIDE DEF created
  <2>3. /\ \A w \in subImages' : /\ IsSub(w) /\ w.at["localPoolState"] = token'.saved /\ w.at["journal"] # Absent
                                 /\ \E s \in subImages : w.record = s.record
        /\ sub' \in subImages' /\ sub'.record = sub.record
    BY <1>2, <1>4, <1>8, <2>1, <2>2
  <2>4. UNCHANGED <<registered, used, older, old, oldImages>>
    BY <1>1, <2>1
  <2>5. token'.saved # Absent
    BY <1>4 DEF Absent
  <2> QED BY <1>1, <1>3, <1>4, <1>5, <1>6, <1>7, <1>10, <2>3, <2>4, <2>5, HomeWrite
<1> QED BY <1>1, <1>9, <1>10 DEF Serves

LEMMA CrashHolds ==
  ASSUME LayoutInv, LayoutAssumption, NEW q \in Procs, Crash(q)
  PROVE  LayoutInv'
<1> DEFINE x == Down("crash")
<1>1. /\ proc' = [proc EXCEPT ![q] = x] /\ owner' = Free(q, Locks)
      /\ token' = [token EXCEPT !.lost = token.lost \/ proc[q].inflight # 0]
      /\ UNCHANGED folders /\ used' = used /\ older' = older
  BY DEF Crash
<1>2. /\ registered' = [old |-> registered'.old, sub |-> registered'.sub]
      /\ registered'.sub = registered.sub \ {q}
  BY DEF Crash, Unregistered, LayoutInv, LayoutTypes
<1>3. /\ Shape(x) /\ x.acting = NoRecord /\ IsRecord(NoRecord) /\ x.inflight = 0 /\ x.mode = "down"
      /\ x.at = "none" /\ x.job = "none" /\ x.wants = {}
  BY DownShape
<1> HIDE DEF x
<1>4. OthersStay(q) /\ proc'[q] = x
  BY <1>1, <1>2, Freed DEF OthersStay, LayoutInv, LayoutTypes
<1>5. /\ token \in [live : Nat, saved : Nat, lost : BOOLEAN, burnt : BOOLEAN] /\ Tokens
  BY DEF LayoutInv, LayoutTypes
<1>6. /\ token' \in [live : Nat, saved : Nat, lost : BOOLEAN, burnt : BOOLEAN]
      /\ token'.live = token.live /\ token'.saved = token.saved /\ token'.burnt = token.burnt
      /\ token'.lost = (token.lost \/ proc[q].inflight # 0)
  BY <1>1, <1>5
<1>7. FoldersStay
  BY <1>1, <1>6 DEF FoldersStay
<1>8. LayoutTypes'
  <2>1. \A p \in Procs : Shape(proc'[p]) /\ IsRecord(proc'[p].acting) /\ proc'[p].inflight \in Nat
    BY <1>3, <1>4 DEF LayoutInv, LayoutTypes, OthersStay
  <2> QED BY <1>1, <1>4, <1>6, <2>1 DEF LayoutInv, LayoutTypes, OthersStay, folders
<1>9. AllRecover' /\ PlacedFirst' /\ Behind'
  BY <1>7, FoldersKeep DEF LayoutInv
<1>10. Homes'
  BY <1>1, <1>2, <1>3, <1>4 DEF LayoutInv, Homes, OthersStay, folders
<1>11. Tokens'
  BY <1>3, <1>4, <1>5, <1>6 DEF Tokens, OthersStay
<1>12. ASSUME NEW p \in Procs PROVE Refreshing(p)' /\ Facts(p)'
  <2>1. CASE p = q
    BY <1>3, <1>4, <2>1, NoStage DEF Refreshing
  <2>2. CASE p # q
    <3>1. Facts(p)'
      BY <1>4, <1>7, <2>2, OthersKeep DEF LayoutInv, Facts, OthersStay
    <3>2. RowLock(proc[p].mode) \in Locks
      BY DEF RowLock, Locks
    <3>3. Refreshing(p)'
      BY <1>1, <1>4, <1>6, <2>2, <3>2 DEF LayoutInv, Refreshing, OthersStay, folders, Serves, RowLock, Usable,
         HomeUsable, LegacyUsable, Conflict, SecondCopy
    <3> QED BY <3>1, <3>3
  <2> QED BY <2>1, <2>2
<1>13. Olders'
  BY <1>1, <1>4, <1>6 DEF LayoutInv, Olders, OthersStay, folders, LegacyUsable, Waits
<1> QED BY <1>8, <1>9, <1>10, <1>11, <1>12, <1>13 DEF LayoutInv, Facts

LEMMA PowerLossHolds ==
  ASSUME LayoutInv, LayoutAssumption, PowerLoss
  PROVE  LayoutInv'
<1> DEFINE x == Down("crash")
<1>1. /\ proc' = [p \in Procs |-> x] /\ owner' = [l \in Locks |-> Nobody]
      /\ old' \in oldImages /\ oldImages' = {old'}
      /\ sub' \in subImages /\ subImages' = {sub'}
      /\ token' = [token EXCEPT !.lost = token.lost \/ older = "refreshing" \/ \E p \in Procs : proc[p].inflight # 0]
      /\ used' = used
  BY DEF PowerLoss
<1>2. registered' = [old |-> registered'.old, sub |-> registered'.sub] /\ registered'.sub = {}
  BY DEF PowerLoss, LayoutInv, LayoutTypes
<1>3. /\ Shape(x) /\ x.acting = NoRecord /\ IsRecord(NoRecord) /\ x.inflight = 0 /\ x.mode = "down"
      /\ x.at = "none" /\ x.job = "none" /\ x.wants = {}
  BY DownShape
<1> HIDE DEF x
<1>4. DOMAIN proc' = Procs /\ proc' = [p \in Procs |-> proc'[p]] /\ \A p \in Procs : proc'[p] = x
  BY <1>1
<1>5. /\ token \in [live : Nat, saved : Nat, lost : BOOLEAN, burnt : BOOLEAN] /\ Tokens
  BY DEF LayoutInv, LayoutTypes
<1>6. /\ token' \in [live : Nat, saved : Nat, lost : BOOLEAN, burnt : BOOLEAN]
      /\ token'.live = token.live /\ token'.saved = token.saved /\ token'.burnt = token.burnt
      /\ (token.lost => token'.lost) /\ ((\E p \in Procs : proc[p].inflight # 0) => token'.lost)
  BY <1>1, <1>5
<1>7. LayoutTypes'
  <2>1. DOMAIN owner' = Locks /\ owner' = [l \in Locks |-> owner'[l]]
    BY <1>1
  <2>2. \A p \in Procs : Shape(proc'[p]) /\ IsRecord(proc'[p].acting) /\ proc'[p].inflight \in Nat
    BY <1>3, <1>4
  <2> QED BY <1>1, <1>2, <1>4, <1>6, <2>1, <2>2 DEF LayoutInv, LayoutTypes
<1>8. AllRecover'
  <2> SUFFICES ASSUME NEW o \in oldImages, NEW s \in subImages PROVE Recovers(o, s)'
    BY <1>1 DEF AllRecover
  <2>1. Recovers(o, s)
    BY DEF LayoutInv, AllRecover
  <2> QED BY <1>6, <2>1, PairKeeps
<1>9. PlacedFirst' /\ Behind'
  BY <1>1 DEF LayoutInv, PlacedFirst, Behind, NoMove
<1>10. Homes'
  BY <1>2, <1>3, <1>4 DEF Homes
<1>11. Tokens'
  BY <1>3, <1>4, <1>5, <1>6 DEF Tokens
<1>12. ASSUME NEW p \in Procs PROVE Refreshing(p)' /\ Facts(p)'
  BY <1>3, <1>4, NoStage DEF Refreshing
<1>13. Olders'
  BY DEF PowerLoss, Olders
<1> QED BY <1>7, <1>8, <1>9, <1>10, <1>11, <1>12, <1>13 DEF LayoutInv, Facts

---------------------------------------------------------------------------
(* A process of an older version.                                          *)

\* What it does without a write leaves all others as they were.
LEMMA OlderQuiet ==
  ASSUME LayoutInv, UNCHANGED <<folders, owner, registered, proc, used>>, token'.saved = token.saved,
         token' \in [live : Nat, saved : Nat, lost : BOOLEAN, burnt : BOOLEAN],
         Tokens', Olders', \A p \in Procs : Refreshing(p)'
  PROVE  LayoutInv'
<1> USE DEF folders
<1>1. LayoutTypes'
  BY DEF LayoutInv, LayoutTypes
<1>2. AllRecover'
  BY PairKeeps DEF LayoutInv, AllRecover
<1>3. PlacedFirst' /\ Behind' /\ Homes'
  BY DEF LayoutInv, PlacedFirst, Behind, Homes
<1>4. ASSUME NEW p \in Procs PROVE Facts(p)'
  <2>1. Holding(p)'
    BY HoldingKeeps DEF LayoutInv
  <2>2. MoveFacts(p)'
    BY DEF LayoutInv, MoveFacts, Undone, OldComplete, Pointed, Verified
  <2>3. CleanFacts(p)'
    BY DEF LayoutInv, CleanFacts, Conflict, SecondCopy
  <2>4. RestoreFacts(p)'
    BY DEF LayoutInv, RestoreFacts
  <2> QED BY <2>1, <2>2, <2>3, <2>4 DEF Facts
<1> QED BY <1>1, <1>2, <1>3, <1>4 DEF LayoutInv, Facts

\* One starts only where nothing was moved, or everything was put back.
LEMMA OlderStartsHolds ==
  ASSUME LayoutInv, LayoutAssumption, OlderStarts
  PROVE  LayoutInv'
<1>1. /\ ~Alone /\ ~Pointed(old) /\ older' = "running"
      /\ UNCHANGED <<folders, owner, registered, proc, token, used>>
      /\ old \in oldImages /\ sub \in subImages /\ Recovers(old, sub) /\ IsSub(sub)
  BY DEF OlderStarts, Alone, LayoutInv, LayoutTypes, AllRecover
<1>2. sub.record.phase # "restoring"
  BY <1>1 DEF Recovers, SubComplete, Pointed, Runtimes, IsSub, IsRecord, LayoutRecords, IsTombstone, Tombstone
<1>3. sub.record.phase = "restore-staged" => ~Waits(old, sub.record, "localPoolState")
  BY <1>1 DEF LayoutInv, PlacedFirst, Pointed, Runtimes
<1>4. Olders'
  BY <1>1, <1>2, <1>3 DEF Olders, folders, Waits, Alone
<1>5. token' \in [live : Nat, saved : Nat, lost : BOOLEAN, burnt : BOOLEAN] /\ Tokens'
  BY <1>1 DEF LayoutInv, LayoutTypes, Tokens
<1>6. \A p \in Procs : Refreshing(p)'
  BY <1>1 DEF LayoutInv, Refreshing, folders, Serves, RowLock, Usable, HomeUsable, LegacyUsable, Conflict,
     SecondCopy
<1> QED BY <1>1, <1>4, <1>5, <1>6, OlderQuiet

LEMMA OlderStopsHolds ==
  ASSUME LayoutInv, LayoutAssumption, OlderStops
  PROVE  LayoutInv'
<1>1. older' = "none" /\ UNCHANGED <<folders, owner, registered, proc, token, used>>
  BY DEF OlderStops
<1>2. Olders'
  BY <1>1 DEF Olders
<1>3. token' \in [live : Nat, saved : Nat, lost : BOOLEAN, burnt : BOOLEAN] /\ Tokens'
  BY <1>1 DEF LayoutInv, LayoutTypes, Tokens
<1>4. \A p \in Procs : Refreshing(p)'
  BY <1>1 DEF LayoutInv, Refreshing, folders, Serves, RowLock, Usable, HomeUsable, LegacyUsable, Conflict,
     SecondCopy
<1> QED BY <1>1, <1>2, <1>3, <1>4, OlderQuiet

\* It refreshes the newest stored credential.
LEMMA OlderExchangesHolds ==
  ASSUME LayoutInv, LayoutAssumption, OlderExchanges
  PROVE  LayoutInv'
<1>1. /\ older = "running" /\ owner["oldRow"] = Nobody /\ LegacyUsable /\ Pool("legacy") # Absent
      /\ token' = Exchanged(Pool("legacy"))
      /\ older' = (IF Pool("legacy") = token.live THEN "refreshing" ELSE older)
      /\ UNCHANGED <<folders, owner, registered, proc, used>>
  BY DEF OlderExchanges
<1>2. Pool("legacy") = token.saved
  BY <1>1, OneLayout
<1>3. \A p \in Procs : proc[p].inflight = 0
  BY <1>1, OlderAlone
<1>4. token \in [live : Nat, saved : Nat, lost : BOOLEAN, burnt : BOOLEAN] /\ Tokens /\ ~Alone
  BY <1>1 DEF LayoutInv, LayoutTypes, Olders
<1>5. CASE token.saved = token.live
  <2>1. token' = [token EXCEPT !.live = token.live + 1] /\ older' = "refreshing"
    BY <1>1, <1>2, <1>5 DEF Exchanged
  <2>2. /\ token'.live = token.live + 1 /\ token'.saved = token.saved
        /\ token' \in [live : Nat, saved : Nat, lost : BOOLEAN, burnt : BOOLEAN]
    BY <1>4, <2>1
  <2>3. Tokens'
    BY <1>1, <1>2, <1>4, <2>2 DEF Tokens, Alone
  <2>4. Olders'
    BY <1>1, <1>2, <1>4, <1>5, <2>1, <2>2 DEF LayoutInv, Olders, folders, LegacyUsable, Waits, Alone
  <2>5. \A p \in Procs : Refreshing(p)'
    BY <1>1, <1>3 DEF Refreshing
  <2> QED BY <1>1, <2>2, <2>3, <2>4, <2>5, OlderQuiet
<1>6. CASE token.saved # token.live
  <2>1. token' = [token EXCEPT !.burnt = TRUE] /\ older' = older
    BY <1>1, <1>2, <1>6 DEF Exchanged
  <2>2. /\ token'.live = token.live /\ token'.saved = token.saved
        /\ token' \in [live : Nat, saved : Nat, lost : BOOLEAN, burnt : BOOLEAN]
    BY <1>4, <2>1
  <2>3. Tokens'
    BY <1>1, <1>4, <2>2 DEF Tokens, Alone
  <2>4. Olders'
    BY <1>1, <2>1 DEF LayoutInv, Olders, folders, Waits
  <2>5. \A p \in Procs : Refreshing(p)'
    BY <1>1, <1>3 DEF Refreshing
  <2> QED BY <1>1, <2>2, <2>3, <2>4, <2>5, OlderQuiet
<1> QED BY <1>5, <1>6

\* And stores the successor in the old folder, which is still in use.
LEMMA OlderSavesHolds ==
  ASSUME LayoutInv, LayoutAssumption, OlderSaves
  PROVE  LayoutInv'
<1> DEFINE v == token.live
           written(o) == [o EXCEPT !.at["localPoolState"] = v]
<1>1. /\ older = "refreshing" /\ older' = "running" /\ token' = [token EXCEPT !.saved = v]
      /\ old' = written(old) /\ oldImages' = {written(o) : o \in oldImages}
      /\ UNCHANGED <<sub, subImages, owner, registered, proc, used>>
  BY DEF OlderSaves, PoolWritten
<1>2. /\ owner["oldRow"] = Nobody /\ LegacyUsable /\ token.saved # Absent /\ token.saved < v /\ ~Alone
      /\ ~IsTombstone(old.at["localRuntime"])
  BY <1>1 DEF LayoutInv, Olders, LegacyUsable
<1>3. /\ \A p \in Procs : proc[p].inflight = 0
      /\ \A s \in subImages : s.record.phase \notin {"committed", "restoring"}
      /\ \A s \in subImages, o \in oldImages : s.record.phase = "restore-staged" =>
           ~Waits(o, s.record, "localPoolState")
  BY <1>2, OlderAlone, OneLayout
<1>4. /\ token \in [live : Nat, saved : Nat, lost : BOOLEAN, burnt : BOOLEAN] /\ Tokens
      /\ \A o \in oldImages : IsOld(o) /\ \A s \in subImages : IsSub(s)
      /\ old \in oldImages /\ sub \in subImages
  BY DEF LayoutInv, LayoutTypes
<1>5. /\ token' \in [live : Nat, saved : Nat, lost : BOOLEAN, burnt : BOOLEAN]
      /\ token'.saved = v /\ token'.live = v /\ v \in Nat /\ v # Absent
  BY <1>1, <1>2, <1>4 DEF Tokens, Absent
<1>6. Tokens'
  BY <1>2, <1>4, <1>5 DEF Tokens, Alone
<1>7. ASSUME NEW o \in oldImages PROVE Rewritten(o, written(o))
  <2> DEFINE f == [o.at EXCEPT !["localPoolState"] = v]
  <2>1. /\ IsOld(o) /\ f \in [Roles -> Int] /\ \A r \in Roles \ Runtimes : f[r] >= 0
        /\ f["localPoolState"] = v /\ \A r \in Roles : r # "localPoolState" => f[r] = o.at[r]
    BY <1>4, <1>5 DEF IsOld, Roles
  <2>2. written(o) = [o EXCEPT !.at = f]
    BY <2>1 DEF IsOld
  <2> HIDE DEF f, written
  <2>3. /\ written(o).at = f /\ written(o).moving = o.moving /\ written(o).staged = o.staged
        /\ IsOld(written(o))
    BY <2>1, <2>2 DEF IsOld
  <2> QED BY <1>2, <1>5, <2>1, <2>3 DEF Rewritten, Roles, Runtimes
<1> HIDE DEF written
<1>8. LegacyWritten
  BY <1>1, <1>2, <1>3, <1>4, <1>5, <1>7 DEF LegacyWritten
<1>9. AllRecover' /\ PlacedFirst' /\ \A o \in oldImages' : IsOld(o)
  BY <1>8, WrittenRecovers
<1>10. LayoutTypes'
  BY <1>1, <1>4, <1>5, <1>9 DEF LayoutInv, LayoutTypes
<1>11. Behind' /\ Homes'
  BY <1>1 DEF LayoutInv, Behind, Homes
<1>12. Olders'
  BY <1>1, <1>2, <1>8 DEF LayoutInv, Olders, LegacyWritten, Rewritten, Waits, Alone
<1>13. ASSUME NEW p \in Procs PROVE Refreshing(p)' /\ Facts(p)'
  BY <1>1, <1>3, <1>8, WrittenFacts DEF Refreshing
<1> QED BY <1>6, <1>9, <1>10, <1>11, <1>12, <1>13 DEF LayoutInv, Facts

\* A copy that comes back does so beside a commit.
LEMMA OlderBringsBackHolds ==
  ASSUME LayoutInv, LayoutAssumption, OlderBringsBack
  PROVE  LayoutInv'
<1> DEFINE n == [old EXCEPT !.at["localPoolState"] = 1]
<1> USE DEF Moving, Copied, Undoing, Cleaning, Staging, Discarding, Placing, Retiring
<1>1. /\ older # "none" /\ old.at["localPoolState"] = Absent /\ token.saved # Absent /\ OldBecomes(n)
      /\ UNCHANGED <<owner, registered, proc, token, older, used>>
  BY DEF OlderBringsBack, Pool
<1>2. /\ old \in oldImages /\ sub \in subImages /\ IsOld(old) /\ IsSub(sub) /\ ~Alone
      /\ \A s \in subImages : Recovers(old, s) /\ s.record.phase \in Phases
  BY <1>1 DEF LayoutInv, LayoutTypes, AllRecover, Olders, IsSub, IsRecord, LayoutRecords
<1>3. sub.record.phase = "committed"
  <2>1. ~NoMove(sub.record) /\ sub.record.phase \notin {"preparing", "restored"}
    BY <1>1, <1>2 DEF Recovers, Undone, OldComplete, MidMove
  <2>2. sub.record.phase \notin {"restoring", "restore-staged"}
    BY <1>1, <1>2 DEF Recovers, MidRestore, LayoutInv, Olders
  <2> QED BY <1>2, <2>1, <2>2 DEF NoMove, Phases
<1>4. \A s \in subImages : s.record.phase \in {"committed", "restoring"}
  <2> SUFFICES ASSUME NEW s \in subImages PROVE s.record.phase \in {"committed", "restoring"}
    OBVIOUS
  <2>1. ~NoMove(s.record) /\ s.record.phase \notin {"preparing", "restored"}
    BY <1>1, <1>2 DEF Recovers, Undone, OldComplete, MidMove
  <2>2. s.record.phase # "restore-staged"
    BY <1>3 DEF LayoutInv, Behind
  <2> QED BY <1>2, <2>1, <2>2 DEF NoMove, Phases
<1>5. /\ IsOld(n) /\ n.moving = old.moving /\ n.staged = old.staged
      /\ \A r \in Roles : r # "localPoolState" => n.at[r] = old.at[r]
  <2> DEFINE f == [old.at EXCEPT !["localPoolState"] = 1]
  <2>1. f \in [Roles -> Int] /\ (\A r \in Roles \ Runtimes : f[r] >= 0)
        /\ \A r \in Roles : r # "localPoolState" => f[r] = old.at[r]
    BY <1>2 DEF IsOld, Roles
  <2>2. n = [old EXCEPT !.at = f]
    BY <1>2 DEF IsOld
  <2> HIDE DEF f, n
  <2>3. n.at = f /\ n.moving = old.moving /\ n.staged = old.staged /\ IsOld(n)
    BY <1>2, <2>1, <2>2 DEF IsOld
  <2> QED BY <2>1, <2>3
<1> HIDE DEF n
<1>6. oldImages' \subseteq oldImages \cup {n} /\ old' = n /\ n \in oldImages' /\ UNCHANGED <<sub, subImages>>
  BY <1>1 DEF OldBecomes, Before
<1>7. LayoutTypes'
  BY <1>1, <1>5, <1>6 DEF LayoutInv, LayoutTypes
<1>8. AllRecover'
  <2> SUFFICES ASSUME NEW o \in oldImages \cup {n}, NEW s \in subImages PROVE Recovers(o, s)'
    BY <1>6 DEF AllRecover
  <2>1. CASE o \in oldImages
    <3>1. Recovers(o, s)
      BY <2>1 DEF LayoutInv, AllRecover
    <3> QED BY <1>1, <3>1, PairKeeps
  <2>2. CASE o = n
    <3>1. Recovers(old, s) /\ s.record.phase \in {"committed", "restoring"}
      BY <1>2, <1>4
    <3>2. SubComplete(n, s)
      BY <1>5, <3>1 DEF Recovers, SubComplete, Runtimes, Roles
    <3>3. Recovers(n, s)
      BY <1>1, <1>5, <3>1, <3>2 DEF Recovers, NoMove
    <3> QED BY <1>1, <2>2, <3>3, PairKeeps
  <2> QED BY <2>1, <2>2
<1>9. PlacedFirst' /\ Behind' /\ Homes' /\ Tokens'
  BY <1>1, <1>4, <1>6 DEF LayoutInv, PlacedFirst, Behind, Homes, Tokens
<1>10. Olders'
  BY <1>1, <1>2, <1>3, <1>6, OneLayout DEF LayoutInv, Olders
<1>11. ASSUME NEW p \in Procs PROVE Refreshing(p)'
  <2>1. proc[p].inflight # 0 => proc[p].mode = "home"
    BY <1>3, RefreshingWhere, OneLayout
  <2> QED BY <1>1, <1>2, <2>1 DEF LayoutInv, Refreshing, Serves, Alone
<1>12. ASSUME NEW p \in Procs PROVE Facts(p)'
  <2>1. Holding(p) /\ MoveFacts(p) /\ CleanFacts(p) /\ RestoreFacts(p)
    BY DEF LayoutInv
  <2>2. Holding(p)'
    BY <1>1, <2>1, HoldingKeeps
  <2>3. MoveFacts(p)'
    <3>1. proc[p].at \notin Moving \cup Undoing
      BY <1>3, <2>1 DEF MoveFacts
    <3> QED BY <1>1, <2>1, <3>1 DEF MoveFacts
  <2>4. CleanFacts(p)'
    <3>1. Conflict(old, sub.record) => Conflict(n, sub.record)
      BY <1>1, <1>5 DEF Conflict, SecondCopy, Roles
    <3>2. n.at["journal"] = old.at["journal"] /\ n.moving = old.moving
      BY <1>5 DEF Roles
    <3>3. (\A o \in oldImages : o.moving = Absent) => \A o \in oldImages' : o.moving = Absent
      BY <1>2, <1>5, <1>6
    <3> QED BY <1>1, <1>2, <1>6, <2>1, <3>1, <3>2, <3>3 DEF CleanFacts, Alone
  <2>5. RestoreFacts(p)'
    <3>1. proc[p].at \notin Staging \cup Discarding \cup Placing \cup Retiring \cup {"staged"}
      BY <1>3, <2>1 DEF RestoreFacts
    <3> QED BY <1>1, <2>1, <3>1 DEF RestoreFacts
  <2> QED BY <2>2, <2>3, <2>4, <2>5 DEF Facts
<1> QED BY <1>7, <1>8, <1>9, <1>10, <1>11, <1>12 DEF LayoutInv, Facts

---------------------------------------------------------------------------
(* The invariant.                                                          *)

\* The initial states.
LEMMA InitHolds ==
  ASSUME LayoutAssumption, Init
  PROVE  LayoutInv
<1>1. /\ old.moving = Absent /\ old.staged = NoFiles /\ old.at \in Installed
      /\ old = [at |-> old.at, moving |-> Absent, staged |-> NoFiles]
      /\ sub = [at |-> NoFiles, record |-> NoRecord] /\ oldImages = {old} /\ subImages = {sub}
      /\ owner = [l \in Locks |-> Nobody] /\ registered = [old |-> {}, sub |-> {}]
      /\ proc = [p \in Procs |-> Down("none")]
      /\ token = [live |-> 1, saved |-> old.at["localPoolState"], lost |-> FALSE, burnt |-> FALSE]
      /\ used = [starts |-> 0, moves |-> 0, restores |-> 0]
  BY DEF Init
<1>2. /\ old.at \in [Roles -> {0, 1}]
      /\ old.at["localPoolState"] # Absent => old.at["journal"] # Absent
      /\ old.at["localPoolState"] = Absent => old.at = NoFiles
  BY <1>1 DEF Installed, NoFiles, Roles, Absent
<1>3. IsRecord(NoRecord) /\ NoRecord.phase = "none" /\ NoFiles \in [Roles -> {0}]
  BY DownShape DEF NoRecord, NoFiles, Absent
<1>4. IsOld(old)
  <2>1. old.at \in [Roles -> Int] /\ old.staged \in [Roles -> Nat] /\ old.moving \in Nat
        /\ \A r \in Roles : old.at[r] >= 0
    BY <1>1, <1>2, <1>3 DEF Absent
  <2> QED BY <1>1, <2>1 DEF IsOld
<1>5. IsSub(sub)
  <2>1. NoFiles \in [Roles -> Nat]
    BY <1>3
  <2> QED BY <1>1, <1>3, <2>1 DEF IsSub, IsRecord
<1>6. \A p \in Procs : Shape(proc[p]) /\ IsRecord(proc[p].acting) /\ proc[p].inflight = 0
                       /\ proc[p].at = "none" /\ proc[p].job = "none" /\ proc[p].wants = {} /\ proc[p].mode = "down"
  BY <1>1, DownShape
<1>7. token.saved \in {0, 1} /\ token.live = 1 /\ ~token.lost /\ ~token.burnt
      /\ token \in [live : Nat, saved : Nat, lost : BOOLEAN, burnt : BOOLEAN]
      /\ token.saved = old.at["localPoolState"]
  BY <1>1, <1>2 DEF Roles
<1>8. LayoutTypes
  <2>1. DOMAIN owner = Locks /\ owner = [l \in Locks |-> owner[l]]
        /\ DOMAIN proc = Procs /\ proc = [p \in Procs |-> proc[p]]
        /\ registered = [old |-> registered.old, sub |-> registered.sub] /\ used \in Counters
    BY <1>1 DEF Counters
  <2> QED BY <1>1, <1>4, <1>5, <1>6, <1>7, <2>1 DEF LayoutTypes
<1>9. AllRecover
  <2>1. \A r \in Roles : ~IsTombstone(old.at[r]) /\ old.staged[r] = Absent /\ sub.at[r] = Absent
    BY <1>1, <1>2, <1>3 DEF IsTombstone, Absent
  <2>2. Undone(old)
    BY <1>1, <1>2, <1>7, <2>1 DEF Undone, OldComplete, Pointed, Runtimes, Roles
  <2>3. token.saved = Absent => Nothing(old, sub)
    BY <1>1, <1>2, <1>3, <1>7, <2>1 DEF Nothing, Absent
  <2>4. sub.record.phase = "none"
    BY <1>1, <1>3
  <2> QED BY <1>1, <2>1, <2>2, <2>3, <2>4 DEF AllRecover, Recovers, Vacated
<1>10. PlacedFirst /\ Behind
  BY <1>1, <1>3 DEF PlacedFirst, Behind, NoMove
<1>11. Homes
  BY <1>1, <1>6 DEF Homes
<1>12. Tokens /\ Olders
  BY <1>6, <1>7 DEF Tokens, Absent, Init, Olders
<1>13. ASSUME NEW p \in Procs PROVE Refreshing(p) /\ Holding(p) /\ MoveFacts(p) /\ CleanFacts(p) /\ RestoreFacts(p)
  BY <1>6 DEF Refreshing, Holding, MoveFacts, CleanFacts, RestoreFacts, LayoutStages, OldRowStages, Moving,
     Copied, Undoing, Cleaning, Staging, Discarding, Placing, Retiring
<1> QED BY <1>8, <1>9, <1>10, <1>11, <1>12, <1>13 DEF LayoutInv

\* A step of nobody.
LEMMA StutterHolds ==
  ASSUME LayoutInv, UNCHANGED vars
  PROVE  LayoutInv'
<1> USE DEF vars
<1>1. LayoutTypes'
  BY DEF LayoutInv, LayoutTypes
<1>2. FoldersStay
  BY DEF FoldersStay, folders
<1>3. AllRecover' /\ PlacedFirst' /\ Behind'
  BY <1>2, FoldersKeep DEF LayoutInv
<1>4. Homes' /\ Tokens'
  BY DEF LayoutInv, Homes, Tokens
<1>5. ASSUME NEW p \in Procs PROVE Refreshing(p)' /\ Facts(p)'
  <2>1. Facts(p)'
    BY <1>2, HoldingKeeps, FactsKeepQuiet DEF LayoutInv, Facts
  <2>2. Refreshing(p)'
    BY DEF LayoutInv, Refreshing, Serves, RowLock, Usable, HomeUsable, LegacyUsable, Conflict, SecondCopy
  <2> QED BY <2>1, <2>2
<1>6. Olders'
  BY DEF LayoutInv, Olders, folders, LegacyUsable, Waits
<1> QED BY <1>1, <1>3, <1>4, <1>5, <1>6 DEF LayoutInv, Facts

\* The part of Next of processes that take the locks.
Ordinary(p) == Start(p) \/ StartRestore(p) \/ Step(p) \/ RegisterLate(p) \/ Stop(p) \/ StepFails(p) \/ LeasesLost(p)

\* Steps that leave the stored credential alone.
LEMMA TokenStaysPut ==
  ASSUME NEW p \in Procs, Ordinary(p)
  PROVE  token' = token /\ older' = older
<1>1. CASE Start(p) \/ StartRestore(p) \/ RegisterLate(p) \/ Stop(p) \/ StepFails(p) \/ LeasesLost(p)
  BY <1>1 DEF Start, StartRestore, RegisterLate, Stop, StepFails, LeasesLost
<1>2. CASE Deciding(p) \/ Flush(p) \/ UnlockData(p)
  BY <1>2 DEF Deciding, Look, ReadPointers, Survey, TakeLock, LockTimeout, Stay, StayMovingOff, Admit, Decide,
     Fence, StartAgain, Flush, UnlockData
<1>3. CASE MoveStep(p) \/ RollbackStep(p)
  BY <1>3 DEF MoveStep, RollbackStep, Prepare, CopyFile, CheckArtifacts, SetJournalAside, InstallTombstone,
     Verify, Commit, LookForJournal, Clean, RecordCleanup, BringJournalBack, BringRuntimeBack, DropCopy,
     RecordRollback, Owned, Publishes
<1>4. CASE RestoreStep(p)
  BY <1>4 DEF RestoreStep, RestoreDecide, Stage, RecordStaged, Classify, Place, Untomb, RecordRestored, Retire,
     RecordRetired, Unstage, RecordDiscard, RestoreDone, Owned, Publishes
<1> QED BY <1>1, <1>2, <1>3, <1>4 DEF Ordinary, Step

\* Every step of a process keeps the invariant.
LEMMA OrdinaryHolds ==
  ASSUME LayoutInv, LayoutAssumption, NEW p \in Procs, Ordinary(p)
  PROVE  LayoutInv'
<1>1. CASE Start(p) \/ StartRestore(p) \/ RegisterLate(p) \/ Stop(p) \/ StepFails(p) \/ LeasesLost(p)
  BY <1>1, StartHolds, StartRestoreHolds, RegisterLateHolds, StopHolds, StepFailsHolds, LeasesLostHolds
<1>2. CASE Deciding(p) \/ Flush(p) \/ UnlockData(p)
  BY <1>2, LookHolds, ReadPointersHolds, SurveyHolds, TakeLockHolds, LockTimeoutHolds, StayHolds,
     StayMovingOffHolds, AdmitHolds, DecideHolds, FenceHolds, StartAgainHolds, FlushHolds, UnlockDataHolds
     DEF Deciding
<1>3. CASE MoveStep(p) \/ RollbackStep(p)
  BY <1>3, PrepareHolds, CopyFileHolds, CheckArtifactsHolds, SetJournalAsideHolds, InstallTombstoneHolds,
     VerifyHolds, CommitKeeps, LookForJournalHolds, CleanHolds, RecordCleanupHolds, BringJournalBackHolds,
     BringRuntimeBackHolds, DropCopyHolds, RecordRollbackHolds DEF MoveStep, RollbackStep
<1>4. CASE RestoreStep(p)
  BY <1>4, RestoreDecideHolds, StageHolds, RecordStagedHolds, ClassifyHolds, PlaceHolds, UntombHolds,
     RecordRestoredHolds, RetireHolds, RecordRetiredHolds, UnstageHolds, RecordDiscardHolds, RestoreDoneHolds
     DEF RestoreStep
<1> QED BY <1>1, <1>2, <1>3, <1>4 DEF Ordinary, Step

\* The part of Next of processes of an older version.
OlderStep == OlderStarts \/ OlderExchanges \/ OlderSaves \/ OlderBringsBack \/ OlderStops

\* Every step.
LEMMA NextParts ==
  ASSUME [Next]_vars
  PROVE  \/ \E p \in Procs : Ordinary(p) \/ Migrate(p) \/ Exchange(p) \/ Save(p) \/ Crash(p)
         \/ OlderStep \/ PowerLoss
         \/ UNCHANGED vars
BY DEF Next, Ordinary, Serving, OlderStep

\* Every step keeps the invariant.
LEMMA LayoutInvHolds ==
  ASSUME LayoutAssumption, LayoutInv, [Next]_vars
  PROVE  LayoutInv'
<1>1. CASE \E p \in Procs : Ordinary(p)
  BY <1>1, OrdinaryHolds
<1>2. CASE \E p \in Procs : Migrate(p) \/ Exchange(p) \/ Save(p) \/ Crash(p)
  BY <1>2, MigrateHolds, ExchangeHolds, SaveHolds, CrashHolds
<1>3. CASE OlderStep
  BY <1>3, OlderStartsHolds, OlderExchangesHolds, OlderSavesHolds, OlderBringsBackHolds, OlderStopsHolds
     DEF OlderStep
<1>4. CASE PowerLoss
  BY <1>4, PowerLossHolds
<1>5. CASE UNCHANGED vars
  BY <1>5, StutterHolds
<1> QED BY <1>1, <1>2, <1>3, <1>4, <1>5, NextParts

\* The inductive invariant of the relocation holds: at every moment, for any
\* processes and faults, every pair of images of the two folders that power
\* loss may leave recovers, each process holds the locks of its stage of the
\* transition (state-layout-move.ts, state-layout-restore.ts), and knows of the
\* files what it acts on, whatever processes of older versions write.
THEOREM LayoutInvAlways == Spec => []LayoutInv
<1>1. Init => LayoutInv
  BY InitHolds, LayoutAssumption
<1>2. LayoutInv /\ [Next]_vars => LayoutInv'
  BY LayoutInvHolds, LayoutAssumption
<1> QED BY <1>1, <1>2, PTL DEF Spec

\* Whatever a power loss leaves of the old folder and of the state folder, the
\* record that is left leads the next process to the newest credential that
\* was stored: the order of copies, flushes, tombstones and the commit in
\* the move, and of staging, placing and retiring in the restore.
THEOREM ImagesRecover == Spec => []EveryImageRecovers
<1>1. LayoutInv => EveryImageRecovers
  <2> SUFFICES ASSUME LayoutInv, NEW o \in oldImages, NEW s \in subImages PROVE Recoverable(o, s)
    BY DEF EveryImageRecovers
  <2>1. Recovers(o, s)
    BY DEF LayoutInv, AllRecover
  <2>2. NoMove(s.record) \/ s.record.phase = "restored" => OldComplete(o)
    BY <2>1 DEF Recovers, Undone
  <2>3. s.record.phase = "preparing" => Undoable(o, s)
    BY <2>1 DEF Recovers, MidMove, Undoable
  <2>4. s.record.phase = "restore-staged" => Redoable(o, s)
    BY <2>1 DEF Recovers, MidRestore, Redoable, Waits
  <2> QED BY <2>1, <2>2, <2>3, <2>4 DEF Recoverable, Recovers
<1> QED BY <1>1, LayoutInvAlways, PTL

\* What the record leads to is the newest stored credential.
LEMMA AuthoritativeIsSaved ==
  ASSUME LayoutInv
  PROVE  Authoritative = token.saved
<1>1. Recovers(old, sub) /\ IsSub(sub) /\ "localPoolState" \in Roles
  BY DEF LayoutInv, LayoutTypes, AllRecover, Roles
<1>2. sub.record.phase \in Phases
  BY <1>1 DEF IsSub, IsRecord, LayoutRecords
<1>3. CASE sub.record.phase \in {"committed", "restoring"}
  BY <1>1, <1>3 DEF Authoritative, Authority, Recovers, SubComplete
<1>4. CASE sub.record.phase = "restore-staged"
  BY <1>1, <1>4 DEF Authoritative, Authority, Recovers, MidRestore, Waits
<1>5. CASE sub.record.phase \notin {"committed", "restoring", "restore-staged"}
  BY <1>1, <1>2, <1>5 DEF Authoritative, Authority, Recovers, NoMove, Phases, Undone, OldComplete, MidMove
<1> QED BY <1>3, <1>4, <1>5

\* The stored credential changes only to a newer one, where the record stays.
LEMMA SavedMoves ==
  ASSUME LayoutAssumption, LayoutInv, [Next]_vars
  PROVE  token'.saved = token.saved \/ (token'.saved > token.saved /\ sub'.record = sub.record)
<1>0. /\ token \in [live : Nat, saved : Nat, lost : BOOLEAN, burnt : BOOLEAN]
      /\ IsSub(sub)
  BY DEF LayoutInv, LayoutTypes
<1>1. CASE \E p \in Procs : Ordinary(p)
  BY <1>1, TokenStaysPut
<1>2. CASE \E p \in Procs : Exchange(p) \/ Crash(p)
  BY <1>0, <1>2 DEF Exchange, Exchanged, Crash
<1>3. CASE PowerLoss
  BY <1>0, <1>3 DEF PowerLoss
<1>4. CASE UNCHANGED vars
  BY <1>4 DEF vars
<1>5. ASSUME NEW p \in Procs, Migrate(p) \/ Save(p)
      PROVE  token'.saved = token.saved \/ (token'.saved > token.saved /\ sub'.record = sub.record)
  <2>1. CASE Migrate(p)
    <3>1. token'.saved = 1 /\ token.saved = 0
      BY <1>0, <2>1 DEF Migrate, Absent
    <3>2. sub'.record = sub.record
      BY <1>0, <2>1 DEF Migrate, IsSub
    <3> QED BY <3>1, <3>2
  <2>2. CASE Save(p)
    <3>1. proc[p].inflight = token.live /\ token.saved < token.live
      BY <2>2 DEF Save, LayoutInv, Refreshing
    <3>2. token'.saved = token.saved \/ token'.saved = token.live
      BY <1>0, <2>2, <3>1 DEF Save
    <3>3. sub'.record = sub.record
      BY <1>0, <2>2 DEF Save, PoolWritten, folders, IsSub
    <3> QED BY <1>0, <3>1, <3>2, <3>3
  <2> QED BY <1>5, <2>1, <2>2
<1>6. CASE OlderStep
  <2>1. CASE OlderSaves
    <3>1. token'.saved = token.live /\ token.saved < token.live /\ sub' = sub
      BY <1>0, <2>1 DEF OlderSaves, PoolWritten, LayoutInv, Olders
    <3> QED BY <1>0, <3>1
  <2>2. CASE OlderStarts \/ OlderExchanges \/ OlderBringsBack \/ OlderStops
    BY <1>0, <2>2 DEF OlderStarts, OlderExchanges, Exchanged, OlderBringsBack, OlderStops
  <2> QED BY <1>6, <2>1, <2>2 DEF OlderStep
<1> QED BY <1>1, <1>2, <1>3, <1>4, <1>5, <1>6, NextParts

\* The relocation implements CredentialHome: one home of the credential,
\* which a commit or a restore moves without changing what is stored, and a
\* stored credential that only ever becomes a newer one.
THEOREM MovesImplementCredentialHome == Spec => ImplementsCredentialHome
<1>1. Init => Abstract!Init
  <2> SUFFICES ASSUME Init PROVE Abstract!Init
    OBVIOUS
  <2>1. sub.record.phase = "none" /\ old.at \in Installed
    BY DEF Init, NoRecord
  <2>2. old.at["localPoolState"] \in {0, 1}
    BY <2>1 DEF Installed, NoFiles, Roles, Absent
  <2> QED BY <2>1, <2>2 DEF Abstract!Init, Authority, Authoritative
<1> DEFINE Saved == Authoritative = token.saved
<1>2. LayoutInv => Saved
  BY AuthoritativeIsSaved
<1>3. LayoutInv /\ Saved /\ Saved' /\ [Next]_vars
        => [Abstract!Next]_<<Authority, Authoritative>>
  <2> SUFFICES ASSUME LayoutInv, Saved, Saved', [Next]_vars
               PROVE  Abstract!Next \/ UNCHANGED <<Authority, Authoritative>>
    OBVIOUS
  <2>1. Authoritative = token.saved /\ Authoritative' = token'.saved
    OBVIOUS
  <2>2. token'.saved = token.saved \/ (token'.saved > token.saved /\ sub'.record = sub.record)
    BY SavedMoves, LayoutAssumption
  <2>3. Authority \in {"old", "sub"} /\ Authority' \in {"old", "sub"}
    BY DEF Authority
  <2>4. sub'.record = sub.record => Authority' = Authority
    BY DEF Authority
  <2> HIDE DEF Authority, Authoritative
  <2> QED BY <2>1, <2>2, <2>3, <2>4 DEF Abstract!Next, Abstract!Replace, Abstract!Relocate
<1> QED BY <1>1, <1>2, <1>3, LayoutInvAlways, PTL DEF Spec, ImplementsCredentialHome, Abstract!Spec

---------------------------------------------------------------------------
(* Dead exchanges beside processes of older versions.                      *)

\* An old copy of the credential that is not the one the move verified.
Changed(o, rec) == o.at["localPoolState"] \notin {Absent, rec.files["localPoolState"]}

\* Once a move committed, the old folder has no journal but the verified one,
\* out of the way: nobody brings another.
SetAside ==
  sub.record.phase \in {"committed", "restoring"} =>
    old.at["journal"] = Absent /\ old.moving \in {Absent, sub.record.files["journal"]}

\* A conflict, recorded or about to be, is one over the credential.
AtCleaning(x) == x.at \in {"clean", "record-cleanup"}
Conflicts ==
  /\ sub.record.phase = "committed" /\ sub.record.cleanup = "conflict" => Changed(old, sub.record)
  /\ sub.record.phase = "restoring" => sub.record.cleanup \notin {"pending", "conflict"}
  /\ \A p \in Procs : AtCleaning(proc[p]) /\ proc[p].acting.cleanup = "conflict" => Changed(old, sub.record)

\* A second copy keeps every process from the state folder, for good.
Blocked == sub.record.phase = "committed" /\ SecondCopy(old.at["localPoolState"], sub.record, "localPoolState")

\* A used-up token that is stored is lost, being replaced, or kept from use.
Spent ==
  /\ token.burnt => token.lost
  /\ token.lost \/ token.saved \in {Absent, token.live} \/ (\E p \in Procs : proc[p].inflight # 0)
       \/ older = "refreshing" \/ Blocked

Kept == SetAside /\ Conflicts /\ Spent

\* A step of q that keeps a refresh under way and comes to no conflict.
Plain(q) ==
  /\ \A p \in Procs \ {q} : proc'[p] = proc[p]
  /\ proc[q].inflight = 0 \/ proc'[q].inflight = proc[q].inflight
  /\ AtCleaning(proc'[q]) => AtCleaning(proc[q]) /\ proc'[q].acting = proc[q].acting

LEMMA ActPlain ==
  ASSUME LayoutInv, NEW q \in Procs, NEW job, NEW rec, NEW stage, NEW locks, Act(q, job, rec, stage, locks),
         stage \notin {"clean", "record-cleanup"}
  PROVE  Plain(q)
BY Acted DEF LayoutInv, Plain, AtCleaning

LEMMA SettlePlain ==
  ASSUME LayoutInv, NEW q \in Procs, NEW stage, Settle(q, stage), stage \in {"stay", "admit"}
  PROVE  Plain(q)
BY ActPlain DEF Settle

LEMMA RefusePlain ==
  ASSUME LayoutInv, NEW q \in Procs, proc[q].inflight = 0, NEW w, Refuse(q, w)
  PROVE  Plain(q)
<1>1. proc' = [proc EXCEPT ![q] = Down(w)] /\ Down(w).at = "none"
  BY DownShape DEF Refuse
<1> QED BY <1>1 DEF LayoutInv, LayoutTypes, Plain, AtCleaning

LEMMA StartOverPlain ==
  ASSUME LayoutInv, LayoutAssumption, NEW q \in Procs, proc[q].inflight = 0, NEW stage, NEW locks,
         StartOver(q, stage, locks), UNCHANGED registered,
         stage \in {"decide", "survey", "read-pointers"}
  PROVE  Plain(q)
BY StartedOver DEF OthersStay, Plain, AtCleaning

LEMMA ServePlain ==
  ASSUME LayoutInv, NEW q \in Procs, proc[q].inflight = 0, NEW registers, ServeLegacy(q, registers)
  PROVE  Plain(q)
<1> DEFINE y == Down("none")
           x == [y EXCEPT !.mode = "legacy"]
<1>1. Shape(y) /\ y.at = "none"
  BY DownShape
<1>2. proc' = [proc EXCEPT ![q] = x]
  BY DEF ServeLegacy
<1> HIDE DEF y
<1>3. x.at = "none"
  BY <1>1 DEF Shape, Fields
<1> HIDE DEF x
<1> QED BY <1>2, <1>3 DEF LayoutInv, LayoutTypes, Plain, AtCleaning

LEMMA TookPlain ==
  ASSUME LayoutInv, NEW q \in Procs, NEW r, Took(q, r)
  PROVE  Plain(q)
<1> DEFINE roles == proc[q].roles \ {r}
           x == [proc[q] EXCEPT !.roles = roles]
<1>1. proc' = [proc EXCEPT ![q] = x] /\ Shape(proc[q])
  BY DEF Took, LayoutInv, LayoutTypes
<1> HIDE DEF roles
<1>2. x.at = proc[q].at /\ x.acting = proc[q].acting /\ x.inflight = proc[q].inflight
  BY <1>1 DEF Shape, Fields
<1> HIDE DEF x
<1> QED BY <1>1, <1>2 DEF LayoutInv, LayoutTypes, Plain, AtCleaning

\* A step that moves nothing in the old folder and leaves the record.
LEMMA KeptSame ==
  ASSUME Kept, NEW q \in Procs, Plain(q), token' = token, older' = older,
         old'.at = old.at, old'.moving = old.moving, sub'.record = sub.record
  PROVE  Kept'
<1>1. SetAside' /\ Blocked' = Blocked
  BY DEF Kept, SetAside, Blocked, SecondCopy
<1>2. Conflicts'
  BY DEF Kept, Conflicts, Changed, Plain
<1>3. Spent'
  BY <1>1 DEF Kept, Spent, Plain
<1> QED BY <1>1, <1>2, <1>3 DEF Kept

\* A step apart from any commit.
LEMMA KeptElsewhere ==
  ASSUME LayoutInv', Kept, NEW q \in Procs, Plain(q), token' = token, older' = older,
         sub.record.phase # "committed", sub'.record.phase \notin {"committed", "restoring"}
  PROVE  Kept'
<1>1. \A p \in Procs : ~AtCleaning(proc'[p])
  BY DEF LayoutInv, LayoutTypes, CleanFacts, Cleaning, AtCleaning
<1>2. SetAside' /\ Conflicts'
  BY <1>1 DEF SetAside, Conflicts
<1>3. Spent'
  BY DEF Kept, Spent, Blocked, Plain
<1> QED BY <1>2, <1>3 DEF Kept

\* A refresh under way holds nothing else up: its process is at no stage.
LEMMA NoRefresh ==
  ASSUME LayoutInv, NEW q \in Procs, proc[q].at # "none" \/ proc[q].mode = "down"
  PROVE  proc[q].inflight = 0
BY Working, Downed

\* The outcome of a cleanup is recorded.
Recorded(q) ==
  /\ proc[q].at \in {"clean", "record-cleanup", "cleaned"}
  /\ Publish(proc[q].acting) /\ Plain(q)

\* A recorded conflict is one over the credential, and blocks it.
LEMMA RecordedKept ==
  ASSUME LayoutInv, LayoutInv', Kept, NEW q \in Procs, Recorded(q), UNCHANGED <<token, older>>,
         proc[q].acting.cleanup = "conflict" \/ proc[q].at = "record-cleanup"
  PROVE  Kept'
<1> DEFINE rec == proc[q].acting
<1>1. /\ sub.record.phase = "committed" /\ rec.phase = "committed" /\ rec.files = sub.record.files
      /\ rec.cleanup # "pending"
      /\ rec.cleanup = "conflict" => Changed(old, sub.record)
  <2>1. CASE proc[q].at \in {"clean", "record-cleanup"}
    BY <2>1 DEF LayoutInv, LayoutTypes, CleanFacts, Recorded, Cleaning, Kept, Conflicts, AtCleaning
  <2>2. CASE proc[q].at = "cleaned"
    BY <2>2 DEF LayoutInv, LayoutTypes, CleanFacts, Recorded, Cleaning, Kept, Conflicts
  <2> QED BY <2>1, <2>2 DEF Recorded
<1>2. old' = old /\ sub'.record = rec
  BY DEF Recorded, Publish, SubBecomes, LayoutInv, LayoutTypes, IsSub
<1>3. \A o : Changed(o, rec) = Changed(o, sub.record)
  BY <1>1 DEF Changed
<1>4. SetAside'
  BY <1>1, <1>2 DEF Kept, SetAside
<1>5. Conflicts'
  BY <1>1, <1>2, <1>3 DEF Kept, Conflicts, Recorded, Plain
<1>6. Blocked => Blocked'
  BY <1>1, <1>2 DEF Blocked, SecondCopy
<1>7. Spent'
  BY <1>6 DEF Kept, Spent, Recorded, Plain
<1> QED BY <1>4, <1>5, <1>7 DEF Kept
---------------------------------------------------------------------------
(* The steps of a decision bring no dead exchange closer.                  *)

\* A file operation of a transition fails.
LEMMA BrokenKept ==
  ASSUME LayoutInv, LayoutInv', LayoutAssumption, Kept, NEW q \in Procs, proc[q].at # "none", Broken(q),
         UNCHANGED <<registered, token, older>>, proc[q].at \notin {"unlock-data"}
  PROVE  Kept'
<1> DEFINE job == proc[q].job
           rec == proc[q].acting
<1>1. proc[q].inflight = 0
  BY NoRefresh
<1>2. CASE Unsure(q) /\ UNCHANGED folders
  <2>1. Plain(q)
    BY <1>1, <1>2, SettlePlain, StartOverPlain DEF Unsure, Restart
  <2> QED BY <1>2, <2>1, KeptSame DEF folders
<1>3. CASE Act(q, "aborted", rec, "bring-back", {}) /\ UNCHANGED folders
  <2>1. Plain(q)
    BY <1>3, ActPlain
  <2> QED BY <1>3, <2>1, KeptSame DEF folders
<1>4. CASE Settle(q, "admit") /\ UNCHANGED folders
  <2>1. Plain(q)
    BY <1>4, SettlePlain
  <2> QED BY <1>4, <2>1, KeptSame DEF folders
<1>5. CASE Refuse(q, "failed") /\ UNCHANGED folders
  <2>1. Plain(q)
    BY <1>1, <1>5, RefusePlain
  <2> QED BY <1>5, <2>1, KeptSame DEF folders
<1>6. CASE Refuse(q, "conflict") /\ UNCHANGED folders
  <2>1. Plain(q)
    BY <1>1, <1>6, RefusePlain
  <2> QED BY <1>6, <2>1, KeptSame DEF folders
<1>7. CASE job = "clean" /\ rec.cleanup = "conflict" /\ Refuse(q, "conflict") /\ Publish(rec)
  <2>1. proc[q].at \in {"clean", "record-cleanup", "cleaned"}
    BY <1>7 DEF LayoutInv, Holding
  <2>2. Plain(q)
    BY <1>1, <1>7, RefusePlain
  <2>3. Recorded(q)
    BY <1>7, <2>1, <2>2 DEF Recorded
  <2> QED BY <1>7, <2>3, RecordedKept
<1> QED BY <1>2, <1>3, <1>4, <1>5, <1>6, <1>7 DEF Broken

LEMMA StepFailsKept ==
  ASSUME LayoutInv, LayoutInv', LayoutAssumption, Kept, NEW q \in Procs, StepFails(q)
  PROVE  Kept'
<1>1. proc[q].at # "none"
  BY DEF StepFails, LayoutInv, Holding
<1> QED BY <1>1, BrokenKept DEF StepFails

\* The steps that change neither folder.
LEMMA DecidingKept ==
  ASSUME LayoutInv, LayoutInv', LayoutAssumption, Kept, NEW q \in Procs, Deciding(q)
  PROVE  Kept'
<1>1. UNCHANGED <<folders, token, older>>
  BY DEF Deciding, Look, ReadPointers, Survey, TakeLock, LockTimeout, Stay, StayMovingOff, Admit, Decide,
     Fence, StartAgain
<1> SUFFICES Plain(q)
  BY <1>1, KeptSame DEF folders
<1>2. proc[q].wants # {} \/ proc[q].at # "none"
  BY DEF Deciding, Look, ReadPointers, Survey, TakeLock, LockTimeout, Stay, StayMovingOff, Admit, Decide,
     Fence, StartAgain, At, WaitsFor
<1>3. proc[q].at # "none" /\ proc[q].inflight = 0
  <2>1. proc[q].at # "none"
    BY <1>2 DEF LayoutInv, Holding
  <2> QED BY <2>1, NoRefresh
<1>4. CASE Look(q)
  BY <1>4, ActPlain DEF Look, GoOn
<1>5. CASE ReadPointers(q)
  <2> DEFINE v == Pointed(old)
             x == [proc[q] EXCEPT !.pointed = v, !.at = "survey"]
  <2>1. proc' = [proc EXCEPT ![q] = x] /\ Shape(proc[q])
    BY <1>5 DEF ReadPointers, LayoutInv, LayoutTypes
  <2> HIDE DEF v
  <2>2. x.at = "survey"
    BY <2>1 DEF Shape, Fields
  <2> HIDE DEF x
  <2> QED BY <1>3, <2>1, <2>2 DEF LayoutInv, LayoutTypes, Plain, AtCleaning
<1>6. CASE Survey(q)
  BY <1>3, <1>6, ActPlain, RefusePlain DEF Survey
<1>7. CASE TakeLock(q)
  <2>1. PICK l \in Locks : proc' = [proc EXCEPT ![q].wants = proc[q].wants \ {l}]
    BY <1>7 DEF TakeLock
  <2> DEFINE wants == proc[q].wants \ {l}
             x == [proc[q] EXCEPT !.wants = wants]
  <2>2. proc' = [proc EXCEPT ![q] = x] /\ Shape(proc[q])
    BY <2>1 DEF LayoutInv, LayoutTypes
  <2> HIDE DEF wants
  <2>3. x.at = proc[q].at /\ x.acting = proc[q].acting
    BY <2>2 DEF Shape, Fields
  <2> HIDE DEF x
  <2> QED BY <1>3, <2>2, <2>3 DEF LayoutInv, LayoutTypes, Plain, AtCleaning
<1>8. CASE LockTimeout(q)
  <2>1. \/ StartOver(q, "read-pointers", {}) /\ UNCHANGED registered
        \/ ServeLegacy(q, FALSE) \/ Refuse(q, "busy")
        \/ Act(q, "start", NoRecord, "admit-cleaned-up", {"subHolders"})
        \/ Settle(q, "stay") \/ Settle(q, "admit")
    BY <1>8 DEF LockTimeout
  <2>2. CASE Settle(q, "stay") \/ Settle(q, "admit")
    BY <2>2, SettlePlain
  <2>3. CASE Act(q, "start", NoRecord, "admit-cleaned-up", {"subHolders"})
    BY <2>3, ActPlain
  <2> QED BY <1>3, <2>1, <2>2, <2>3, StartOverPlain, ServePlain, RefusePlain
<1>9. CASE Stay(q)
  <2>1. \/ Refuse(q, "marker-unreadable") \/ Refuse(q, "unregistered")
        \/ Rethink(q) /\ UNCHANGED registered
        \/ ServeLegacy(q, TRUE) \/ ServeLegacy(q, FALSE)
    BY <1>9 DEF Stay
  <2> QED BY <1>3, <2>1, StartOverPlain, ServePlain, RefusePlain DEF Rethink, Restart
<1>10. CASE StayMovingOff(q)
  BY <1>3, <1>10, StartOverPlain, ServePlain DEF StayMovingOff
<1>11. CASE Admit(q)
  <2>1. \/ Rethink(q) /\ UNCHANGED registered
        \/ Refuse(q, "conflict") \/ Refuse(q, "unregistered")
        \/ proc' = [proc EXCEPT ![q] = [Down("none") EXCEPT !.mode = "home"]]
    BY <1>11 DEF Admit
  <2>2. CASE proc' = [proc EXCEPT ![q] = [Down("none") EXCEPT !.mode = "home"]]
    <3> DEFINE y == Down("none")
               x == [y EXCEPT !.mode = "home"]
    <3>1. Shape(y) /\ y.at = "none"
      BY DownShape
    <3>2. proc' = [proc EXCEPT ![q] = x]
      BY <2>2
    <3> HIDE DEF y
    <3>3. x.at = "none"
      BY <3>1 DEF Shape, Fields
    <3> HIDE DEF x
    <3> QED BY <1>3, <3>2, <3>3 DEF LayoutInv, LayoutTypes, Plain, AtCleaning
  <2> QED BY <1>3, <2>1, <2>2, StartOverPlain, RefusePlain DEF Rethink, Restart
<1>12. CASE Decide(q)
  <2>1. \/ Refuse(q, "restore-unfinished") \/ Refuse(q, "overriding")
        \/ \E job, rec, locks : \E stage \in {"unstage", "restored", "sync", "bring-back", "stay", "fence"} :
             Act(q, job, rec, stage, locks)
    BY <1>12 DEF Decide
  <2> QED BY <1>3, <2>1, RefusePlain, ActPlain
<1>13. CASE Fence(q)
  BY <1>13, ActPlain DEF Fence, GoOn
<1>14. CASE StartAgain(q)
  BY <1>3, <1>14, StartOverPlain DEF StartAgain, Restart
<1> QED BY <1>4, <1>5, <1>6, <1>7, <1>8, <1>9, <1>10, <1>11, <1>12, <1>13, <1>14 DEF Deciding

\* A record of another phase is written apart from any commit.
LEMMA PublishElsewhere ==
  ASSUME LayoutInv, LayoutInv', Kept, NEW q \in Procs, NEW rec, NEW job, NEW stage,
         SubBecomes([sub EXCEPT !.record = rec]), Act(q, job, rec, stage, {}), UNCHANGED <<token, older>>,
         stage \notin {"clean", "record-cleanup"},
         sub.record.phase # "committed", rec.phase \notin {"committed", "restoring"}
  PROVE  Kept'
<1>1. sub'.record = rec
  BY DEF SubBecomes, LayoutInv, LayoutTypes, IsSub
<1>2. Plain(q)
  BY ActPlain
<1> QED BY <1>1, <1>2, KeptElsewhere

\* The beginning and the end of a job, and of a process.
LEMMA LifeKept ==
  ASSUME LayoutInv, LayoutInv', LayoutAssumption, Kept, NEW q \in Procs,
         Start(q) \/ StartRestore(q) \/ RegisterLate(q) \/ Stop(q) \/ LeasesLost(q) \/ UnlockData(q) \/ RestoreDone(q)
  PROVE  Kept'
<1>1. UNCHANGED <<folders, token, older>>
  BY DEF Start, StartRestore, RegisterLate, Stop, LeasesLost, UnlockData, RestoreDone
<1> SUFFICES Plain(q)
  BY <1>1, KeptSame DEF folders
<1>2. CASE Start(q) \/ StartRestore(q)
  <2>1. PICK mode, job, locks : \E stage \in {"look", "restore-decide"} :
          proc' = [proc EXCEPT ![q] = Begun(mode, job, stage, locks)]
    BY <1>2 DEF Start, StartRestore
  <2>2. PICK stage \in {"look", "restore-decide"} : proc' = [proc EXCEPT ![q] = Begun(mode, job, stage, locks)]
    BY <2>1
  <2>3. Begun(mode, job, stage, locks).at = stage
    BY BegunShape
  <2>4. proc[q].inflight = 0
    BY <1>2, NoRefresh DEF Start, StartRestore
  <2> QED BY <2>2, <2>3, <2>4 DEF LayoutInv, LayoutTypes, Plain, AtCleaning
<1>3. CASE RegisterLate(q)
  BY <1>3 DEF RegisterLate, Plain
<1>4. CASE Stop(q)
  <2>1. proc' = [proc EXCEPT ![q] = Down("none")] /\ Down("none").at = "none" /\ proc[q].inflight = 0
    BY <1>4, DownShape DEF Stop
  <2> QED BY <2>1 DEF LayoutInv, LayoutTypes, Plain, AtCleaning
<1>5. CASE LeasesLost(q)
  <2>1. proc[q].inflight = 0
    BY <1>5 DEF LeasesLost, LayoutInv, Refreshing
  <2>2. \/ Restart(q) /\ UNCHANGED registered
        \/ Refuse(q, "conflict") \/ Refuse(q, "failed")
    BY <1>5 DEF LeasesLost
  <2> QED BY <2>1, <2>2, StartOverPlain, RefusePlain DEF Restart
<1>6. CASE UnlockData(q)
  BY <1>6, SettlePlain DEF UnlockData
<1>7. CASE RestoreDone(q)
  <2>1. proc[q].inflight = 0
    BY <1>7, NoRefresh DEF RestoreDone, At
  <2> QED BY <1>7, <2>1, RefusePlain DEF RestoreDone
<1> QED BY <1>2, <1>3, <1>4, <1>5, <1>6, <1>7

LEMMA FlushKept ==
  ASSUME LayoutInv, LayoutInv', Kept, NEW q \in Procs, Flush(q)
  PROVE  Kept'
<1>1. UNCHANGED <<old, sub, token, older>>
  BY DEF Flush
<1>2. PICK stage, job, next, locks :
        /\ stage \in OldStages \cup SubStages
        /\ proc[q].at = stage /\ Act(q, job, proc[q].acting, next, locks)
        /\ next \in {"look-for-a-journal", "admit"} \/ (stage # "sync" /\ \E j : next = Following(stage, j))
  BY DEF Flush, At
<1>3. next = "record-cleanup" => stage = "clean"
  BY <1>2 DEF Following, OldStages, SubStages
<1>4. next # "clean"
  BY <1>2 DEF Following, OldStages, SubStages
<1>5. Plain(q)
  <2>1. CASE stage = "clean"
    BY <1>2, <1>4, <2>1, Acted DEF LayoutInv, Plain, AtCleaning
  <2>2. CASE stage # "clean"
    BY <1>2, <1>3, <1>4, <2>2, ActPlain
  <2> QED BY <2>1, <2>2
<1> QED BY <1>1, <1>5, KeptSame

---------------------------------------------------------------------------
(* Nor do the steps of a move and of its rollback.                         *)

LEMMA PreparingKept ==
  ASSUME LayoutInv, LayoutInv', LayoutAssumption, Kept, NEW q \in Procs,
         Prepare(q) \/ CopyFile(q) \/ CheckArtifacts(q) \/ SetJournalAside(q) \/ InstallTombstone(q) \/ Verify(q)
  PROVE  Kept'
<1>1. UNCHANGED <<registered, token, older>> /\ proc[q].at \notin {"none", "unlock-data"}
  BY DEF Prepare, CopyFile, CheckArtifacts, SetJournalAside, InstallTombstone, Verify, Owned, Takes, At
<1>2. CASE Broken(q)
  BY <1>1, <1>2, BrokenKept
<1>3. CASE Prepare(q) /\ ~Broken(q)
  <2>1. PICK rec : /\ NoMove(sub.record) /\ Publish(rec) /\ rec.phase = "preparing"
                   /\ Act(q, "preparing", rec, "prepared", {})
    BY <1>3 DEF Prepare, NoRecord
  <2> QED BY <1>1, <2>1, PublishElsewhere DEF NoMove, Publish
<1>4. CASE CopyFile(q) /\ ~Broken(q)
  <2>1. PICK r : SubBecomes([sub EXCEPT !.at[r] = old.at[r]]) /\ Took(q, r)
    BY <1>4 DEF CopyFile, Owned
  <2>2. old' = old /\ sub'.record = sub.record
    BY <2>1 DEF SubBecomes, LayoutInv, LayoutTypes, IsSub
  <2> QED BY <1>1, <2>1, <2>2, TookPlain, KeptSame
<1>5. CASE (CheckArtifacts(q) \/ Verify(q)) /\ ~Broken(q)
  <2>1. UNCHANGED folders /\ \E stage \in {"barriers", "commit"} : GoOn(q, stage)
    BY <1>5 DEF CheckArtifacts, Verify, Owned
  <2>2. Plain(q)
    BY <2>1, ActPlain DEF GoOn
  <2> QED BY <1>1, <2>1, <2>2, KeptSame DEF folders
<1>6. CASE (SetJournalAside(q) \/ InstallTombstone(q)) /\ ~Broken(q)
  <2>1. proc[q].at = "barriers" /\ sub' = sub /\ \E r : Took(q, r)
    BY <1>6 DEF SetJournalAside, InstallTombstone, Owned, OldBecomes, Takes, At
  <2>2. sub.record.phase = "preparing"
    BY <2>1 DEF LayoutInv, MoveFacts, Moving
  <2> QED BY <1>1, <2>1, <2>2, TookPlain, KeptElsewhere
<1> QED BY <1>2, <1>3, <1>4, <1>5, <1>6

\* A commit finds the journal set aside.
LEMMA CommitKept ==
  ASSUME LayoutInv, LayoutInv', LayoutAssumption, Kept, NEW q \in Procs, Commit(q)
  PROVE  Kept'
<1> DEFINE was == proc[q].acting
           rec == [was EXCEPT !.phase = "committed", !.cleanup = "pending"]
<1>1. proc[q].at = "commit" /\ proc[q].inflight = 0 /\ UNCHANGED <<registered, token, older>>
  BY NoRefresh DEF Commit, At
<1>2. CASE Unsure(q) /\ UNCHANGED folders
  <2>1. Plain(q)
    BY <1>1, <1>2, SettlePlain, StartOverPlain DEF Unsure, Restart
  <2> QED BY <1>1, <1>2, <2>1, KeptSame DEF folders
<1>3. CASE Publish(rec) /\ Act(q, "committed", rec, "committed", {})
  <2>1. /\ was.phase = "preparing" /\ sub.record = was /\ Verified(was) /\ MidMove(old, sub)
        /\ IsSub(sub)
    BY <1>1 DEF LayoutInv, LayoutTypes, MoveFacts, Moving, Copied, AllRecover, Recovers
  <2>2. old.at["journal"] = Absent /\ old.moving \in {Absent, was.files["journal"]}
    BY <2>1 DEF Verified, MidMove
  <2>3. rec.phase = "committed" /\ rec.cleanup = "pending" /\ rec.files = was.files
    BY <2>1 DEF IsSub, IsRecord, LayoutRecords
  <2> HIDE DEF rec
  <2>4. old' = old /\ sub'.record = rec
    BY <1>3, <2>1 DEF Publish, SubBecomes, IsSub
  <2>5. \A p \in Procs : ~AtCleaning(proc[p])
    BY <2>1 DEF LayoutInv, LayoutTypes, CleanFacts, Cleaning, AtCleaning
  <2>6. Plain(q)
    BY <1>3, ActPlain
  <2>7. SetAside'
    BY <2>1, <2>2, <2>3, <2>4 DEF SetAside
  <2>8. Conflicts'
    BY <2>3, <2>4, <2>5, <2>6 DEF Conflicts, Plain
  <2>9. Spent'
    BY <1>1, <2>1, <2>6 DEF Kept, Spent, Blocked, Plain
  <2> QED BY <2>7, <2>8, <2>9 DEF Kept
<1> QED BY <1>2, <1>3 DEF Commit

---------------------------------------------------------------------------
(* Nor the removal of the old copies.                                      *)

\* A cleanup begins without a conflict: the journal is set aside.
LEMMA LookForJournalKept ==
  ASSUME LayoutInv, Kept, NEW q \in Procs, LookForJournal(q)
  PROVE  Kept'
<1> DEFINE was == proc[q].acting
           rec == [was EXCEPT !.cleanup = "done"]
<1>1. /\ proc[q].at = "look-for-a-journal" /\ proc[q].inflight = 0
      /\ UNCHANGED <<folders, token, older>>
  BY NoRefresh DEF LookForJournal, At
<1>2. was = sub.record /\ was.phase = "committed" /\ IsRecord(was)
  BY <1>1 DEF LayoutInv, LayoutTypes, CleanFacts, Cleaning
<1>3. old.at["journal"] = Absent
  BY <1>2 DEF Kept, SetAside
<1>4. Act(q, "clean", rec, "clean", {})
  BY <1>3 DEF LookForJournal
<1>5. rec.cleanup = "done"
  BY <1>2 DEF IsRecord, LayoutRecords
<1> HIDE DEF rec
<1>6. /\ \A p \in Procs \ {q} : proc'[p] = proc[p]
      /\ proc'[q].acting = rec /\ proc'[q].inflight = 0
  BY <1>1, <1>4, Acted DEF LayoutInv
<1>7. SetAside' /\ Blocked' = Blocked
  BY <1>1 DEF Kept, SetAside, Blocked, SecondCopy, folders
<1>8. Conflicts'
  BY <1>1, <1>5, <1>6 DEF Kept, Conflicts, Changed, folders
<1>9. Spent'
  BY <1>1, <1>6, <1>7 DEF Kept, Spent
<1> QED BY <1>7, <1>8, <1>9 DEF Kept

\* What the treatment of a file leaves of its process.
LEMMA CleanedProcess ==
  ASSUME LayoutInv, NEW q \in Procs, NEW r, NEW c,
         proc' = [proc EXCEPT ![q].roles = proc[q].roles \ {r}, ![q].acting.cleanup = c]
  PROVE  /\ \A p \in Procs \ {q} : proc'[p] = proc[p]
         /\ proc'[q].acting.cleanup = c /\ proc'[q].inflight = proc[q].inflight
<1> DEFINE was == proc[q].acting
           w == proc[q].roles \ {r}
           y == [proc[q] EXCEPT !.roles = w]
           rec == [was EXCEPT !.cleanup = c]
           x == [y EXCEPT !.acting = rec]
<1>1. Shape(proc[q]) /\ IsRecord(was)
  BY DEF LayoutInv, LayoutTypes
<1>2. proc' = [[proc EXCEPT ![q] = y] EXCEPT ![q].acting.cleanup = c]
  BY DEF LayoutInv, LayoutTypes
<1>3. y.acting = was /\ Shape(y) /\ y.inflight = proc[q].inflight
  BY <1>1 DEF Shape, Fields
<1> HIDE DEF y
<1>4. proc' = [proc EXCEPT ![q] = x]
  BY <1>2, <1>3 DEF LayoutInv, LayoutTypes
<1>5. rec.cleanup = c
  BY <1>1 DEF IsRecord, LayoutRecords
<1> HIDE DEF rec
<1>6. x.acting = rec /\ x.inflight = proc[q].inflight
  BY <1>3 DEF Shape, Fields
<1> HIDE DEF x
<1> QED BY <1>4, <1>5, <1>6 DEF LayoutInv, LayoutTypes

\* A changed credential stays, and is all that makes a conflict.
LEMMA CleanKept ==
  ASSUME LayoutInv, Kept, NEW q \in Procs, Clean(q)
  PROVE  Kept'
<1> DEFINE was == proc[q].acting
<1>0. PICK r \in CleanRoles :
    /\ Takes(q, "clean", r)
    /\ LET rec == proc[q].acting
           same == OldCopy(r) = rec.files[r]
           changed == IF r \in Credentials THEN "conflict"
                      ELSE IF rec.files[r] # Absent /\ rec.cleanup # "conflict" THEN "kept"
                      ELSE rec.cleanup IN
       /\ IF same THEN OldBecomes(WithoutOldCopy(r)) ELSE UNCHANGED folders
       /\ proc' = [proc EXCEPT ![q].roles = @ \ {r},
                               ![q].acting.cleanup = IF same \/ OldCopy(r) = Absent THEN @ ELSE changed]
    /\ UNCHANGED <<owner, registered, token, older, used>>
  BY DEF Clean
<1> DEFINE changed == IF r \in Credentials THEN "conflict"
                      ELSE IF was.files[r] # Absent /\ was.cleanup # "conflict" THEN "kept" ELSE was.cleanup
           c == IF OldCopy(r) = was.files[r] \/ OldCopy(r) = Absent THEN was.cleanup ELSE changed
<1>1. /\ Takes(q, "clean", r)
      /\ IF OldCopy(r) = was.files[r] THEN OldBecomes(WithoutOldCopy(r)) ELSE UNCHANGED folders
      /\ proc' = [proc EXCEPT ![q].roles = proc[q].roles \ {r}, ![q].acting.cleanup = c]
      /\ c = "conflict" => \/ was.cleanup = "conflict"
                           \/ r \in Credentials /\ OldCopy(r) \notin {Absent, was.files[r]}
      /\ UNCHANGED <<token, older>>
  BY <1>0
<1> HIDE DEF c
<1>2. /\ proc[q].at = "clean" /\ proc[q].inflight = 0
  BY <1>1, NoRefresh DEF Takes, At
<1>3. /\ sub.record.phase = "committed" /\ sub.record.cleanup \in {"pending", "conflict"}
      /\ was.files = sub.record.files /\ IsOld(old)
      /\ was.cleanup = "conflict" => Changed(old, sub.record)
  BY <1>2 DEF LayoutInv, LayoutTypes, CleanFacts, Cleaning, Kept, Conflicts, AtCleaning
<1>4. /\ \A p \in Procs \ {q} : proc'[p] = proc[p]
      /\ proc'[q].acting.cleanup = c /\ proc'[q].inflight = 0
  <2>1. proc' = [proc EXCEPT ![q].roles = proc[q].roles \ {r}, ![q].acting.cleanup = c]
    BY <1>1
  <2>2. /\ \A p \in Procs \ {q} : proc'[p] = proc[p]
        /\ proc'[q].acting.cleanup = c /\ proc'[q].inflight = proc[q].inflight
    BY <2>1, CleanedProcess
  <2> QED BY <1>2, <2>2
<1>5. /\ sub' = sub
      /\ old'.at["localPoolState"] # old.at["localPoolState"] =>
           old'.at["localPoolState"] = Absent /\ old.at["localPoolState"] = was.files["localPoolState"]
      /\ old'.at["journal"] = old.at["journal"] /\ old'.moving \in {Absent, old.moving}
  <2>1. CASE OldCopy(r) # was.files[r]
    BY <1>1, <2>1 DEF folders
  <2>2. CASE OldCopy(r) = was.files[r] /\ r = "journal"
    BY <1>1, <1>3, <2>2 DEF OldBecomes, WithoutOldCopy, IsOld
  <2>3. CASE OldCopy(r) = was.files[r] /\ r # "journal"
    <3>1. old' = [old EXCEPT !.at[r] = Absent] /\ sub' = sub
      BY <1>1, <2>3 DEF OldBecomes, WithoutOldCopy
    <3>2. r \in Roles /\ "journal" \in Roles /\ "localPoolState" \in Roles
      BY DEF CleanRoles, Roles
    <3> QED BY <1>3, <2>3, <3>1, <3>2 DEF IsOld, OldCopy
  <2> QED BY <2>1, <2>2, <2>3
<1>6. Changed(old, sub.record) => Changed(old', sub.record)
  BY <1>3, <1>5 DEF Changed
<1>7. SetAside'
  BY <1>3, <1>5 DEF Kept, SetAside
<1>8. c = "conflict" => Changed(old, sub.record)
  <2>1. old.moving \in {Absent, sub.record.files["journal"]}
    BY <1>3 DEF Kept, SetAside
  <2> QED BY <1>1, <1>3, <2>1 DEF Credentials, OldCopy, Changed
<1>9. Conflicts'
  BY <1>3, <1>4, <1>5, <1>6, <1>8 DEF Kept, Conflicts
<1>10. Blocked => Blocked'
  <2>1. ASSUME Blocked PROVE old'.at["localPoolState"] = old.at["localPoolState"]
    BY <1>3, <1>5, <2>1 DEF Blocked, SecondCopy, Kept, Conflicts, Changed
  <2> QED BY <1>3, <1>5, <2>1 DEF Blocked, SecondCopy
<1>11. Spent'
  BY <1>1, <1>2, <1>4, <1>10 DEF Kept, Spent
<1> QED BY <1>7, <1>9, <1>11 DEF Kept

LEMMA RecordCleanupKept ==
  ASSUME LayoutInv, LayoutInv', LayoutAssumption, Kept, NEW q \in Procs, RecordCleanup(q)
  PROVE  Kept'
<1>1. proc[q].at = "record-cleanup" /\ UNCHANGED <<registered, token, older>>
  BY DEF RecordCleanup, Publishes, Owned, At
<1>2. CASE Broken(q)
  BY <1>1, <1>2, BrokenKept
<1>3. CASE Publish(proc[q].acting) /\ Act(q, proc[q].job, proc[q].acting, "cleaned", {})
  <2>1. Recorded(q)
    BY <1>1, <1>3, ActPlain DEF Recorded
  <2> QED BY <1>1, <2>1, RecordedKept
<1> QED BY <1>2, <1>3 DEF RecordCleanup, Publishes, Owned

LEMMA RollbackKept ==
  ASSUME LayoutInv, LayoutInv', LayoutAssumption, Kept, NEW q \in Procs, RollbackStep(q)
  PROVE  Kept'
<1>1. /\ UNCHANGED <<registered, token, older>>
      /\ proc[q].at \in {"bring-back", "drop-copies", "record-rollback"}
  BY DEF RollbackStep, BringJournalBack, BringRuntimeBack, DropCopy, RecordRollback, Publishes, Owned, Takes, At
<1>2. proc[q].inflight = 0 /\ sub.record.phase = "preparing" /\ proc[q].acting = sub.record
      /\ IsRecord(sub.record)
  BY <1>1, NoRefresh DEF LayoutInv, LayoutTypes, MoveFacts, Undoing
<1>3. CASE BringJournalBack(q) \/ BringRuntimeBack(q)
  <2>1. Refuse(q, "unsafe") \/ \E r : Took(q, r)
    BY <1>3 DEF BringJournalBack, BringRuntimeBack, Unsafe
  <2>2. Plain(q)
    BY <1>2, <2>1, RefusePlain, TookPlain
  <2>3. sub' = sub
    BY <1>3 DEF BringJournalBack, BringRuntimeBack, Unsafe, OldBecomes, folders
  <2> QED BY <1>1, <1>2, <2>2, <2>3, KeptElsewhere
<1>4. CASE DropCopy(q)
  <2>1. PICK r : /\ Took(q, r)
                 /\ SubBecomes([sub EXCEPT !.at[r] = Absent]) \/ UNCHANGED folders
    BY <1>4 DEF DropCopy
  <2>2. old' = old /\ sub'.record = sub.record
    BY <2>1 DEF SubBecomes, LayoutInv, LayoutTypes, IsSub, folders
  <2> QED BY <1>1, <2>1, <2>2, TookPlain, KeptSame
<1>5. CASE RecordRollback(q)
  <2>1. CASE Broken(q)
    BY <1>1, <2>1, BrokenKept
  <2>2. CASE ~Broken(q)
    <3> DEFINE rec == [proc[q].acting EXCEPT !.phase = "rolled-back"]
    <3>1. Publish(rec) /\ Act(q, proc[q].job, rec, "rolled-back", {})
      BY <1>5, <2>2 DEF RecordRollback, Publishes, Owned
    <3>2. rec.phase = "rolled-back"
      BY <1>2 DEF IsRecord, LayoutRecords
    <3> HIDE DEF rec
    <3> QED BY <1>1, <1>2, <3>1, <3>2, PublishElsewhere DEF Publish
  <2> QED BY <2>1, <2>2
<1> QED BY <1>3, <1>4, <1>5 DEF RollbackStep

---------------------------------------------------------------------------
(* Nor the steps of a restore.                                             *)

\* A restore begins where nothing is left of the old copies.
LEMMA RestoreDecideKept ==
  ASSUME LayoutInv, LayoutInv', Kept, NEW q \in Procs, RestoreDecide(q)
  PROVE  Kept'
<1> DEFINE rec == sub.record
           next == [rec EXCEPT !.phase = "restoring", !.set = sub.at]
<1>1. proc[q].inflight = 0 /\ UNCHANGED <<token, older>> /\ IsSub(sub)
  BY NoRefresh DEF RestoreDecide, At, LayoutInv, LayoutTypes
<1>2. CASE UNCHANGED folders
  <2>1. \/ Refuse(q, "restore-refused")
        \/ \E job, acting : \E stage \in {"restore-done", "unstage", "staged", "restored", "restoring"} :
             Act(q, job, acting, stage, {})
    BY DEF RestoreDecide, GoOn
  <2>2. Plain(q)
    BY <1>1, <2>1, RefusePlain, ActPlain
  <2> QED BY <1>1, <1>2, <2>2, KeptSame DEF folders
<1>3. CASE /\ rec.phase = "committed" /\ ~RestoreProblem(rec)
           /\ Publish(next) /\ Act(q, "restore", next, "restoring", {})
  <2>1. /\ rec.cleanup \notin {"pending", "conflict"} /\ old.at["journal"] = Absent
        /\ old.at["localPoolState"] = Absent /\ old.moving = Absent
    BY <1>3 DEF RestoreProblem, Roles, Runtimes
  <2>2. next.phase = "restoring" /\ next.cleanup = rec.cleanup
    BY <1>1 DEF IsSub, IsRecord, LayoutRecords
  <2> HIDE DEF next
  <2>3. old' = old /\ sub'.record = next /\ sub' \in subImages'
    BY <1>1, <1>3 DEF Publish, SubBecomes, IsSub
  <2>4. \A p \in Procs : ~AtCleaning(proc'[p])
    BY <2>2, <2>3 DEF LayoutInv, CleanFacts, Cleaning, AtCleaning
  <2>5. Plain(q)
    BY <1>3, ActPlain
  <2>6. SetAside' /\ Conflicts'
    BY <2>1, <2>2, <2>3, <2>4 DEF SetAside, Conflicts
  <2>7. Spent'
    BY <1>1, <2>1, <2>5 DEF Kept, Spent, Blocked, SecondCopy, Plain
  <2> QED BY <2>6, <2>7 DEF Kept
<1> QED BY <1>2, <1>3 DEF RestoreDecide

\* One that is given up leaves a commit whose cleanup had ended.
LEMMA RecordDiscardKept ==
  ASSUME LayoutInv, LayoutInv', LayoutAssumption, Kept, NEW q \in Procs, RecordDiscard(q)
  PROVE  Kept'
<1> DEFINE was == proc[q].acting
           rec == [was EXCEPT !.phase = "committed", !.set = NoFiles]
<1>1. proc[q].at = "record-discard" /\ UNCHANGED <<registered, token, older>>
  BY DEF RecordDiscard, Publishes, Owned, At
<1>2. CASE Broken(q)
  BY <1>1, <1>2, BrokenKept
<1>3. CASE Publish(rec) /\ Act(q, proc[q].job, rec, "discarded", {})
  <2>1. was = sub.record /\ sub.record.phase = "restoring" /\ IsSub(sub) /\ sub \in subImages
    BY <1>1 DEF LayoutInv, LayoutTypes, RestoreFacts, Discarding
  <2>2. rec.phase = "committed" /\ rec.cleanup = sub.record.cleanup /\ rec.files = sub.record.files
    BY <2>1 DEF IsSub, IsRecord, LayoutRecords
  <2> HIDE DEF rec
  <2>3. old' = old /\ sub'.record = rec
    BY <1>3, <2>1 DEF Publish, SubBecomes, IsSub
  <2>4. \A p \in Procs : ~AtCleaning(proc[p])
    BY <2>1 DEF LayoutInv, CleanFacts, Cleaning, AtCleaning
  <2>5. Plain(q)
    BY <1>3, ActPlain
  <2>6. SetAside' /\ Conflicts'
    BY <2>1, <2>2, <2>3, <2>4, <2>5 DEF Kept, SetAside, Conflicts, Plain
  <2>7. Spent'
    BY <1>1, <2>1, <2>5 DEF Kept, Spent, Blocked, Plain
  <2> QED BY <2>6, <2>7 DEF Kept
<1> QED BY <1>2, <1>3 DEF RecordDiscard, Publishes, Owned

\* What it stages and removes again are not the files themselves.
LEMMA StagingKept ==
  ASSUME LayoutInv, LayoutInv', LayoutAssumption, Kept, NEW q \in Procs,
         Stage(q) \/ Unstage(q) \/ Classify(q) \/ Retire(q)
  PROVE  Kept'
<1>1. UNCHANGED <<registered, token, older>> /\ proc[q].at \notin {"none", "unlock-data"} /\ IsOld(old) /\ IsSub(sub)
  BY DEF Stage, Unstage, Classify, Retire, Owned, Takes, At, LayoutInv, LayoutTypes
<1>2. CASE Broken(q)
  BY <1>1, <1>2, BrokenKept
<1>3. CASE (Stage(q) \/ Unstage(q)) /\ ~Broken(q)
  <2>1. PICK r, v : OldBecomes([old EXCEPT !.staged[r] = v]) /\ Took(q, r)
    BY <1>3 DEF Stage, Unstage, Owned
  <2>2. old'.at = old.at /\ old'.moving = old.moving /\ sub' = sub
    BY <1>1, <2>1 DEF OldBecomes, IsOld
  <2> QED BY <1>1, <2>1, <2>2, TookPlain, KeptSame
<1>4. CASE Classify(q)
  <2>1. CASE Refuse(q, "restore-refused")
    <3>1. Plain(q)
      BY <1>1, <2>1, NoRefresh, RefusePlain
    <3> QED BY <1>1, <1>4, <3>1, KeptSame DEF Classify, folders
  <2>2. CASE ~Refuse(q, "restore-refused")
    <3>1. PICK seen, roles :
            proc' = [proc EXCEPT ![q].at = "place-data", ![q].seen = seen, ![q].roles = roles]
      BY <1>4, <2>2 DEF Classify
    <3> DEFINE x == [proc[q] EXCEPT !.at = "place-data", !.seen = seen, !.roles = roles]
    <3>2. proc' = [proc EXCEPT ![q] = x] /\ Shape(proc[q])
      BY <3>1 DEF LayoutInv, LayoutTypes
    <3>3. x.at = "place-data"
      BY <3>2 DEF Shape, Fields
    <3> HIDE DEF x
    <3>4. Plain(q)
      BY <1>1, <3>2, <3>3, NoRefresh DEF LayoutInv, LayoutTypes, Plain, AtCleaning
    <3> QED BY <1>1, <1>4, <3>4, KeptSame DEF Classify, folders
  <2> QED BY <2>1, <2>2
<1>5. CASE Retire(q)
  <2>1. PICK r : Took(q, r) /\ (SubBecomes([sub EXCEPT !.at[r] = Absent]) \/ UNCHANGED folders)
    BY <1>5 DEF Retire
  <2>2. old' = old /\ sub'.record = sub.record
    BY <1>1, <2>1 DEF SubBecomes, IsSub, folders
  <2> QED BY <1>1, <2>1, <2>2, TookPlain, KeptSame
<1> QED BY <1>2, <1>3, <1>4, <1>5

\* Files are placed, and it is recorded, when the commit is over.
LEMMA PlacingKept ==
  ASSUME LayoutInv, LayoutInv', LayoutAssumption, Kept, NEW q \in Procs,
         RecordStaged(q) \/ Place(q) \/ Untomb(q) \/ RecordRestored(q) \/ RecordRetired(q)
  PROVE  Kept'
<1> DEFINE was == proc[q].acting
<1>1. /\ UNCHANGED <<registered, token, older>>
      /\ proc[q].at \in {"record-staged", "place-data", "place-barriers", "record-restored", "record-retired"}
  BY DEF RecordStaged, Place, Untomb, RecordRestored, RecordRetired, Publishes, Owned, Takes, At
<1>2. /\ was = sub.record /\ sub.record.phase \in {"restoring", "restore-staged", "restored"} /\ IsRecord(was)
      /\ proc[q].at # "record-staged" => sub.record.phase # "restoring"
  BY <1>1 DEF LayoutInv, LayoutTypes, RestoreFacts, Staging, Placing, Retiring
<1>3. CASE Broken(q)
  BY <1>1, <1>3, BrokenKept
<1>4. CASE (Place(q) \/ Untomb(q)) /\ ~Broken(q)
  <2>1. sub' = sub /\ (\E r : Took(q, r)) /\ proc[q].at # "record-staged"
    BY <1>4 DEF Place, Untomb, Owned, OldBecomes, Takes, At
  <2>2. Plain(q)
    BY <2>1, TookPlain
  <2>3. sub.record.phase # "committed" /\ sub'.record.phase \notin {"committed", "restoring"}
    BY <1>2, <2>1
  <2> QED BY <1>1, <2>2, <2>3, KeptElsewhere
<1>5. ASSUME NEW rec, NEW stage \in {"staged", "restored", "retired"}, NEW job,
             Publish(rec), Act(q, job, rec, stage, {}), rec.phase \notin {"committed", "restoring"}
      PROVE  Kept'
  <2>1. stage \notin {"clean", "record-cleanup"} /\ sub.record.phase # "committed"
    BY <1>2
  <2>2. SubBecomes([sub EXCEPT !.record = rec]) /\ Act(q, job, rec, stage, {}) /\ UNCHANGED <<token, older>>
    BY <1>1, <1>5 DEF Publish
  <2> HIDE DEF was
  <2> QED BY <1>5, <2>1, <2>2, PublishElsewhere
<1>6. CASE RecordStaged(q) /\ ~Broken(q)
  <2> DEFINE rec == [was EXCEPT !.phase = "restore-staged"]
  <2>1. Publish(rec) /\ Act(q, proc[q].job, rec, "staged", {}) /\ rec.phase = "restore-staged"
    BY <1>2, <1>6 DEF RecordStaged, Publishes, Owned, IsRecord, LayoutRecords
  <2> HIDE DEF rec
  <2> QED BY <1>5, <2>1
<1>7. CASE RecordRestored(q) /\ ~Broken(q)
  <2> DEFINE rec == [was EXCEPT !.phase = "restored", !.retired = "pending"]
  <2>1. Publish(rec) /\ Act(q, proc[q].job, rec, "restored", {}) /\ rec.phase = "restored"
    BY <1>2, <1>7 DEF RecordRestored, Publishes, Owned, IsRecord, LayoutRecords
  <2> HIDE DEF rec
  <2> QED BY <1>5, <2>1
<1>8. CASE RecordRetired(q) /\ ~Broken(q)
  <2> DEFINE rec == [was EXCEPT !.retired = "done"]
  <2>1. Publish(rec) /\ Act(q, proc[q].job, rec, "retired", {}) /\ rec.phase = was.phase
    BY <1>2, <1>8 DEF RecordRetired, Publishes, Owned, IsRecord, LayoutRecords
  <2>2. proc[q].at = "record-retired"
    BY <1>8 DEF RecordRetired, At
  <2>3. rec.phase \notin {"committed", "restoring"}
    BY <1>2, <2>1, <2>2
  <2> HIDE DEF rec
  <2> QED BY <1>5, <2>1, <2>3
<1> QED BY <1>3, <1>4, <1>6, <1>7, <1>8

\* No step of a process of ours but a refresh brings a dead exchange closer.
LEMMA OrdinaryKept ==
  ASSUME LayoutInv, LayoutInv', LayoutAssumption, Kept, NEW q \in Procs, Ordinary(q)
  PROVE  Kept'
<1>1. CASE Start(q) \/ StartRestore(q) \/ RegisterLate(q) \/ Stop(q) \/ StepFails(q) \/ LeasesLost(q)
  BY <1>1, LifeKept, StepFailsKept
<1>2. CASE Deciding(q) \/ Flush(q) \/ UnlockData(q)
  BY <1>2, DecidingKept, FlushKept, LifeKept
<1>3. CASE MoveStep(q)
  BY <1>3, PreparingKept, CommitKept, LookForJournalKept, CleanKept, RecordCleanupKept DEF MoveStep
<1>4. CASE RollbackStep(q)
  BY <1>4, RollbackKept
<1>5. CASE RestoreStep(q)
  BY <1>5, RestoreDecideKept, RecordDiscardKept, StagingKept, PlacingKept, LifeKept DEF RestoreStep
<1> QED BY <1>1, <1>2, <1>3, <1>4, <1>5 DEF Ordinary, Step

---------------------------------------------------------------------------
(* The steps of users, of older versions and of crashes.                   *)

\* Whoever serves is at no stage of a transition.
LEMMA ServingAt ==
  ASSUME LayoutInv, NEW q \in Procs, Serves(q)
  PROVE  proc[q].at = "none" /\ ~AtCleaning(proc[q])
BY DEF LayoutInv, Holding, AtCleaning

\* A write to the pool, or of the first files, where the record allows it.
UserWrites(q) ==
  /\ sub'.record = sub.record
  /\ old' = old \/ sub.record.phase \notin {"committed", "restoring"}
  /\ \A p \in Procs \ {q} : proc'[p] = proc[p]
  /\ ~AtCleaning(proc'[q])

LEMMA UserKept ==
  ASSUME LayoutInv', Kept, NEW q \in Procs, UserWrites(q)
  PROVE  SetAside' /\ Conflicts' /\ (Blocked => Blocked')
<1>1. CASE old' = old
  BY <1>1 DEF Kept, SetAside, Conflicts, UserWrites, Blocked, SecondCopy
<1>2. CASE sub.record.phase \notin {"committed", "restoring"}
  <2>1. \A p \in Procs : ~AtCleaning(proc'[p])
    BY <1>2 DEF LayoutInv, LayoutTypes, CleanFacts, Cleaning, AtCleaning, UserWrites
  <2> QED BY <1>2, <2>1 DEF SetAside, Conflicts, UserWrites, Blocked
<1> QED BY <1>1, <1>2 DEF UserWrites

\* The first credential is live, and nothing was moved from the old folder.
LEMMA MigrateKept ==
  ASSUME LayoutInv, LayoutInv', Kept, NEW q \in Procs, Migrate(q)
  PROVE  Kept'
<1>1. /\ token' = [token EXCEPT !.saved = 1] /\ UNCHANGED <<proc, older>> /\ Serves(q)
      /\ token.saved = Absent /\ token.live = 1
      /\ token \in [live : Nat, saved : Nat, lost : BOOLEAN, burnt : BOOLEAN]
  BY DEF Migrate, LayoutInv, LayoutTypes, Tokens
<1>2. token'.saved = token'.live /\ token'.burnt = token.burnt /\ token'.lost = token.lost
  BY <1>1
<1>3. sub'.record = sub.record
  BY DEF Migrate, LayoutInv, LayoutTypes, IsSub
<1>4. old' = old \/ sub.record.phase \notin {"committed", "restoring"}
  <2>1. CASE proc[q].mode = "home"
    BY <2>1 DEF Migrate
  <2>2. CASE proc[q].mode # "home"
    <3>1. ~Pointed(old) /\ Recovers(old, sub) /\ IsSub(sub)
      BY <1>1, <2>2 DEF Migrate, Serves, LayoutInv, LayoutTypes, AllRecover
    <3> QED BY <3>1 DEF Pointed, Recovers, SubComplete, Runtimes, IsSub, IsRecord, LayoutRecords, IsTombstone,
          Tombstone
  <2> QED BY <2>1, <2>2
<1>5. UserWrites(q)
  BY <1>1, <1>3, <1>4, ServingAt DEF UserWrites
<1> QED BY <1>2, <1>5, UserKept DEF Kept, Spent

\* A refresh that the layout allows finds the live credential, or a lost one.
LEMMA ExchangeKept ==
  ASSUME LayoutInv, LayoutInv', LayoutAssumption, Kept, NEW q \in Procs, Exchange(q)
  PROVE  Kept'
<1> DEFINE mode == proc[q].mode
           version == Pool(mode)
<1>1. /\ Serves(q) /\ Unlocked(RowLock(mode)) /\ Usable(mode)
      /\ token' = Exchanged(version) /\ UNCHANGED <<folders, older>>
      /\ IF version = token.live THEN proc' = [proc EXCEPT ![q].inflight = token.live + 1]
                                 ELSE UNCHANGED proc
      /\ token \in [live : Nat, saved : Nat, lost : BOOLEAN, burnt : BOOLEAN]
      /\ version # Absent
  BY DEF Exchange, LayoutInv, LayoutTypes
<1>2. version = token.saved
  BY <1>1, OneLayout DEF Usable, Serves
<1>3. CASE version = token.live
  <2> DEFINE v == token.live + 1
  <2>1. v \in Nat /\ v # 0 /\ proc' = [proc EXCEPT ![q].inflight = v]
    BY <1>1, <1>3
  <2> HIDE DEF v
  <2>2. /\ \A p \in Procs \ {q} : proc'[p] = proc[p]
        /\ proc'[q].inflight = v /\ proc'[q].at = "none"
    BY <1>1, <2>1, ServingShape
  <2>3. UserWrites(q)
    BY <1>1, <2>2 DEF UserWrites, folders, AtCleaning
  <2>4. token'.burnt = token.burnt /\ token'.lost = token.lost
    BY <1>1, <1>3 DEF Exchanged
  <2> QED BY <2>1, <2>2, <2>3, <2>4, UserKept DEF Kept, Spent
<1>4. CASE version # token.live
  <2>1. UserWrites(q)
    BY <1>1, <1>4, ServingAt DEF UserWrites, folders
  <2>2. token'.burnt /\ token'.lost = token.lost
    BY <1>1, <1>4 DEF Exchanged
  <2>3. ~Blocked
    BY <1>1, OneLayout DEF Usable, HomeUsable, Serves, Blocked, Conflict
  <2>4. older # "refreshing"
    BY <1>1, NoOlderRefresh DEF Unlocked, RowLock
  <2>5. \A p \in Procs : proc[p].inflight = 0
    <3>1. owner[RowLock(mode)] = Nobody
      BY <1>1 DEF Unlocked
    <3>2. \A p \in Procs \ {q} : proc[p].inflight = 0
      BY <1>1, <3>1, OneRefresh
    <3>3. proc[q].inflight = 0
      BY <3>1 DEF LayoutInv, Refreshing, LayoutAssumption
    <3> QED BY <3>2, <3>3
  <2>6. token.lost
    BY <1>1, <1>2, <1>4, <2>3, <2>4, <2>5 DEF Kept, Spent
  <2>7. Spent'
    BY <2>2, <2>6 DEF Spent
  <2> QED BY <2>1, <2>7, UserKept DEF Kept
<1> QED BY <1>3, <1>4

\* A result is dropped only where a second copy blocks the state folder.
LEMMA SaveKept ==
  ASSUME LayoutInv, LayoutInv', LayoutAssumption, Kept, NEW q \in Procs, Save(q)
  PROVE  Kept'
<1> DEFINE mode == proc[q].mode
<1>1. /\ Serves(q) /\ proc[q].inflight # 0 /\ proc[q].inflight = token.live
      /\ proc' = [proc EXCEPT ![q].inflight = 0] /\ older' = older
      /\ token \in [live : Nat, saved : Nat, lost : BOOLEAN, burnt : BOOLEAN] /\ IsSub(sub)
      /\ token.saved # Absent
  BY DEF Save, LayoutInv, LayoutTypes, Refreshing, Tokens
<1>2. (\A p \in Procs \ {q} : proc'[p] = proc[p]) /\ proc'[q].at = "none"
  <2>1. 0 \in Nat
    OBVIOUS
  <2> QED BY <1>1, <2>1, ServingShape
<1>3. CASE Usable(mode)
  <2>1. PoolWritten(mode, token.live) /\ token' = [token EXCEPT !.saved = token.live]
    BY <1>1, <1>3 DEF Save
  <2>2. token'.saved = token'.live /\ token'.burnt = token.burnt /\ token'.lost = token.lost
    BY <1>1, <2>1
  <2>3. sub'.record = sub.record
    BY <1>1, <2>1 DEF PoolWritten, IsSub
  <2>4. old' = old \/ sub.record.phase \notin {"committed", "restoring"}
    <3>1. CASE mode = "home"
      BY <2>1, <3>1 DEF PoolWritten
    <3>2. CASE mode # "home"
      BY <1>1, <1>3, <3>2, OneLayout DEF Usable, LayoutInv, LayoutTypes
    <3> QED BY <3>1, <3>2
  <2>5. UserWrites(q)
    BY <1>2, <2>3, <2>4 DEF UserWrites, AtCleaning
  <2> QED BY <2>2, <2>5, UserKept DEF Kept, Spent
<1>4. CASE ~Usable(mode)
  <2>1. UNCHANGED <<token, folders>>
    BY <1>4 DEF Save
  <2>2. mode = "home" /\ sub.record.phase = "committed" /\ Recovers(old, sub)
    BY <1>1, <1>4, RefreshingWhere DEF Usable, LayoutInv, LayoutTypes, AllRecover
  <2>3. Conflict(old, sub.record)
    BY <1>1, <1>4, <2>2 DEF Usable, HomeUsable, Recovers, SubComplete
  <2>4. Blocked
    <3>1. SecondCopy(old.moving, sub.record, "journal") => sub.record.cleanup # "pending"
      BY <2>2 DEF Kept, SetAside, SecondCopy
    <3>2. old.at["journal"] = Absent
      BY <2>2 DEF Kept, SetAside
    <3>3. sub.record.cleanup = "conflict" => Changed(old, sub.record)
      BY <2>2 DEF Kept, Conflicts
    <3> QED BY <2>2, <2>3, <3>1, <3>2, <3>3 DEF Conflict, SecondCopy, Blocked, Changed
  <2>5. UserWrites(q)
    BY <1>2, <2>1 DEF UserWrites, AtCleaning, folders
  <2>6. Spent'
    BY <2>1, <2>4, <2>5, UserKept DEF Kept, Spent
  <2> QED BY <2>5, <2>6, UserKept DEF Kept
<1> QED BY <1>3, <1>4

\* The result of a process that dies is lost.
LEMMA CrashKept ==
  ASSUME LayoutInv, LayoutInv', Kept, NEW q \in Procs, Crash(q)
  PROVE  Kept'
<1>1. /\ token' = [token EXCEPT !.lost = token.lost \/ proc[q].inflight # 0]
      /\ proc' = [proc EXCEPT ![q] = Down("crash")] /\ UNCHANGED <<folders, older>>
      /\ token \in [live : Nat, saved : Nat, lost : BOOLEAN, burnt : BOOLEAN] /\ DOMAIN proc = Procs
  BY DEF Crash, LayoutInv, LayoutTypes
<1>2. (\A p \in Procs \ {q} : proc'[p] = proc[p]) /\ proc'[q].at = "none"
  BY <1>1, DownShape
<1>3. /\ token'.saved = token.saved /\ token'.live = token.live /\ token'.burnt = token.burnt
      /\ token'.lost = (token.lost \/ proc[q].inflight # 0)
  BY <1>1
<1>4. UserWrites(q)
  BY <1>1, <1>2 DEF UserWrites, AtCleaning, folders
<1>5. Spent'
  BY <1>1, <1>2, <1>3, <1>4, UserKept DEF Kept, Spent
<1> QED BY <1>4, <1>5, UserKept DEF Kept

\* A process of an older version, which knows no record, ...
LEMMA OlderStepKept ==
  ASSUME LayoutInv, LayoutInv', LayoutAssumption, Kept,
         OlderStarts \/ OlderStops \/ OlderExchanges \/ OlderSaves
  PROVE  Kept'
<1>1. /\ proc' = proc /\ sub' = sub
      /\ token \in [live : Nat, saved : Nat, lost : BOOLEAN, burnt : BOOLEAN]
  BY DEF OlderStarts, OlderStops, OlderExchanges, OlderSaves, folders, PoolWritten, LayoutInv, LayoutTypes
<1>2. CASE OlderStarts \/ OlderStops
  <2>1. UNCHANGED <<old, token>> /\ older # "refreshing"
    BY <1>2 DEF OlderStarts, OlderStops, folders
  <2> QED BY <1>1, <2>1 DEF Kept, SetAside, Conflicts, Spent, Blocked, SecondCopy
\* ... refreshes the live credential or a lost one, as the others do, ...
<1>3. CASE OlderExchanges
  <2>1. /\ LegacyUsable /\ old' = old /\ token' = Exchanged(Pool("legacy")) /\ older = "running"
        /\ owner["oldRow"] = Nobody
        /\ older' = IF Pool("legacy") = token.live THEN "refreshing" ELSE older
    BY <1>3 DEF OlderExchanges, folders
  <2>2. Pool("legacy") = token.saved /\ ~Blocked
    BY <2>1, OneLayout DEF Blocked
  <2>3. \A p \in Procs : proc[p].inflight = 0
    BY <2>1, OlderAlone
  <2>4. SetAside' /\ Conflicts'
    BY <1>1, <2>1 DEF Kept, SetAside, Conflicts
  <2>5. CASE Pool("legacy") = token.live
    <3>1. token' = [token EXCEPT !.live = token.live + 1] /\ older' = "refreshing"
      BY <2>1, <2>5 DEF Exchanged
    <3>2. token'.burnt = token.burnt /\ token'.lost = token.lost
      BY <1>1, <3>1
    <3> QED BY <2>4, <3>1, <3>2 DEF Kept, Spent
  <2>6. CASE Pool("legacy") # token.live
    <3>1. token' = [token EXCEPT !.burnt = TRUE]
      BY <2>1, <2>6 DEF Exchanged
    <3>2. token'.lost = token.lost
      BY <1>1, <3>1
    <3>3. Pool("legacy") # Absent
      BY <1>3 DEF OlderExchanges
    <3>4. token.lost
      BY <2>1, <2>2, <2>3, <2>6, <3>3 DEF Kept, Spent
    <3> QED BY <2>4, <3>2, <3>4 DEF Kept, Spent
  <2> QED BY <2>5, <2>6
\* ... and stores the result before anything is moved.
<1>4. CASE OlderSaves
  <2>1. LegacyUsable /\ token' = [token EXCEPT !.saved = token.live]
    BY <1>4 DEF OlderSaves, LayoutInv, Olders
  <2>2. sub.record.phase \notin {"committed", "restoring"}
    BY <2>1, OneLayout DEF LayoutInv, LayoutTypes
  <2>3. \A p \in Procs : ~AtCleaning(proc[p])
    BY <2>2 DEF LayoutInv, LayoutTypes, CleanFacts, Cleaning, AtCleaning
  <2>4. token'.saved = token'.live /\ token'.burnt = token.burnt /\ token'.lost = token.lost
    BY <1>1, <2>1
  <2> QED BY <1>1, <2>2, <2>3, <2>4 DEF Kept, SetAside, Conflicts, Spent
<1> QED BY <1>2, <1>3, <1>4

\* What it brings back lies beside a commit, and nobody will use it.
LEMMA OlderBringsBackKept ==
  ASSUME LayoutInv, Kept, OlderBringsBack
  PROVE  Kept'
<1>1. /\ old.at["localPoolState"] = Absent /\ old' = [old EXCEPT !.at["localPoolState"] = 1]
      /\ UNCHANGED <<sub, proc, token, older>> /\ IsOld(old)
  BY DEF OlderBringsBack, Pool, OldBecomes, LayoutInv, LayoutTypes
<1>2. old'.moving = old.moving /\ old'.at["journal"] = old.at["journal"]
  BY <1>1 DEF IsOld, Roles
<1>3. ~Changed(old, sub.record)
  BY <1>1 DEF Changed
<1>4. SetAside' /\ Conflicts'
  BY <1>1, <1>2, <1>3 DEF Kept, SetAside, Conflicts
<1>5. ~Blocked
  BY <1>1 DEF Blocked, SecondCopy
<1>6. Spent'
  BY <1>1, <1>5 DEF Kept, Spent
<1> QED BY <1>4, <1>6 DEF Kept

\* At the start nothing was moved and the credential is live.
LEMMA InitKept ==
  ASSUME Init
  PROVE  Kept
<1>1. /\ sub.record.phase = "none" /\ old.at \in Installed /\ ~token.burnt
      /\ token.saved = old.at["localPoolState"] /\ token.live = 1
      /\ \A p \in Procs : proc[p].at = "none"
  BY DownShape DEF Init, NoRecord
<1>2. token.saved \in {Absent, token.live}
  BY <1>1 DEF Installed, NoFiles, Roles, Absent
<1> QED BY <1>1, <1>2 DEF Kept, SetAside, Conflicts, Spent, AtCleaning

\* Every step but a power loss.
LEMMA KeptHolds ==
  ASSUME LayoutInv, LayoutInv', LayoutAssumption, Kept, [Next]_vars, "power" \notin Faults
  PROVE  Kept'
<1>1. CASE \E p \in Procs : Ordinary(p)
  BY <1>1, OrdinaryKept
<1>2. CASE \E p \in Procs : Migrate(p) \/ Exchange(p) \/ Save(p) \/ Crash(p)
  BY <1>2, MigrateKept, ExchangeKept, SaveKept, CrashKept
<1>3. CASE OlderStep
  BY <1>3, OlderStepKept, OlderBringsBackKept DEF OlderStep
<1>4. CASE UNCHANGED vars
  BY <1>4 DEF vars, Kept, SetAside, Conflicts, Spent, Blocked, SecondCopy
<1> QED BY <1>1, <1>2, <1>3, <1>4, NextParts DEF PowerLoss

\* No process offers the provider a refresh token that was already exchanged,
\* by the process itself, by another on the other side of a move, or by an
\* older version's: the row locks and the fences of the transition keep their
\* refreshes apart, and a copy that an older version brings back beside a
\* commit keeps everybody from the credential.  Where such a copy can also go
\* with a power loss, a refresh that was dropped because of it is used again:
\* not both faults at once.
THEOREM NoExchangeIsDead ==
  ASSUME ~({"older", "power"} \subseteq Faults)
  PROVE  Spec => []NoDeadExchange
<1>1. CASE "older" \notin Faults
  <2>1. LayoutInv => NoDeadExchange
    BY <1>1 DEF LayoutInv, Tokens, NoDeadExchange, Alone
  <2> QED BY <2>1, LayoutInvAlways, PTL
<1>2. CASE "power" \notin Faults
  <2>1. Init => Kept
    BY InitKept
  <2>2. LayoutInv /\ LayoutInv' /\ Kept /\ [Next]_vars => Kept'
    BY <1>2, KeptHolds, LayoutAssumption
  <2>3. Kept => NoDeadExchange
    BY DEF Kept, Spent, NoDeadExchange
  <2> QED BY <2>1, <2>2, <2>3, LayoutInvAlways, PTL DEF Spec
<1> QED BY <1>1, <1>2

-----------------------------------------------------------------------------
(* The import of an installation's credentials.                                *)

Issued == 1 .. moved.credentials
Held == Issued \cup {NoLogin}
MigTypes ==
  /\ moved.credentials \in 0 .. MaxCredentials
  /\ moved = [credentials |-> moved.credentials, deaths |-> moved.deaths,
              runs |-> moved.runs, touched |-> moved.touched]
  /\ auth \in Held \cup {Marker} /\ legacy \in Held
  /\ poolRows \in [Rows -> Held] /\ alive \subseteq Issued
  /\ journal \in [phase : {"none", "empty"} \cup Unfinished \cup Completed,
                  auth : Held \cup {Marker}, legacy : Held,
                  expected : {Marker, Unprepared}, proof : [Rows -> Held]]
  /\ setup \in [at : {"idle", "begin", "committed"} \cup Unfinished,
                auth : Held \cup {Marker}, legacy : Held]

\* A setup works in the journal's phase on what the journal says was read; one
\* that has not begun, and was not overtaken by a host, on what is there.
SetupFits ==
  /\ setup.at \in Unfinished \cup {"committed"} => journal.phase = setup.at
  /\ setup.at = "begin" => journal.phase \in {"none", "empty", "retired"}
  /\ setup.at = "begin" /\ hosts = "none" => setup.auth = auth
  /\ setup.at \in Unfinished => setup.legacy = journal.legacy
  /\ setup.at = "building" => setup.auth = journal.auth
  /\ journal.phase = "building" => journal.expected = Unprepared

\* Rows that were verified are what was read, until this release serves them.
RowsFit ==
  /\ journal.phase \in {"verified", "installed"} =>
       /\ poolRows["main"] = IF journal.auth \in Login THEN journal.auth ELSE NoLogin
       /\ poolRows["fallback"] = journal.legacy
  /\ journal.phase = "committed" /\ journal.legacy \in alive =>
       poolRows["fallback"] = journal.legacy

\* What host auth and the legacy files hold is honoured, and so is what setup
\* read there as long as no host has replaced it.
SourcesLive ==
  /\ auth \in Login => auth \in alive
  /\ legacy \in Login /\ journal.phase \notin Completed => legacy \in alive
  /\ journal.phase = "retired" => legacy = NoLogin
  /\ journal.phase \in Unfinished /\ journal.auth \in Login /\ auth \in {journal.auth, Marker} =>
       journal.auth \in alive

\* No credential is in two places whose holders may both refresh it.
Apart ==
  /\ legacy \in Login => legacy # auth
  /\ journal.phase \in Unfinished /\ legacy \in Login => legacy # journal.auth
  /\ Authorised => \A r \in Rows : poolRows[r] \in Login => poolRows[r] # auth
  /\ journal.phase = "empty" => \A r \in Rows : poolRows[r] \in Login => poolRows[r] # legacy

MigInv == MigTypes /\ SetupFits /\ RowsFit /\ SourcesLive /\ Apart /\ NoLoginIsLost

LEMMA Numbers ==
  ASSUME MigrationAssumption
  PROVE  /\ MaxCredentials \in Nat /\ MaxCredentials >= 2
         /\ NoLogin = 0 /\ Marker = MaxCredentials + 1 /\ Unprepared = MaxCredentials + 2
BY DEF MigrationAssumption, NoLogin, Marker, Unprepared

\* What was issued is a login, and the marker is none.
LEMMA IssuedLogins ==
  ASSUME MigrationAssumption, MigTypes
  PROVE  /\ Issued \subseteq Login /\ NoLogin \notin Login /\ Marker \notin Login
         /\ Marker # NoLogin /\ Unprepared \notin Held \cup {Marker}
  BY Numbers DEF MigTypes, Issued, Login, Held

\* A credential that the provider issues is a new one.
LEMMA Fresh ==
  ASSUME MigrationAssumption, MigTypes, NEW over, NEW reads, Issues(over, reads)
  PROVE  LET new == moved.credentials + 1 IN
         /\ new \in Login /\ new \notin Held \cup {Marker} /\ Held' = Held \cup {new}
         /\ alive' = (alive \ {over}) \cup {new} /\ alive' \subseteq Issued'
         /\ moved'.credentials \in 0 .. MaxCredentials
         /\ moved' = [credentials |-> moved'.credentials, deaths |-> moved'.deaths,
                      runs |-> moved'.runs, touched |-> moved'.touched]
<1> DEFINE new == moved.credentials + 1
           b == moved.touched \/ (reads /\ journal.phase \in Unfinished \cup {"committed"})
<1>1. moved' = [moved EXCEPT !.credentials = new, !.touched = b]
  BY DEF Issues
<1>2. /\ moved.credentials \in 0 .. MaxCredentials /\ moved.credentials < MaxCredentials
      /\ alive' = (alive \ {over}) \cup {new}
  BY DEF Issues, MigTypes
<1> HIDE DEF b
<1>3. /\ moved' = [credentials |-> new, deaths |-> moved.deaths, runs |-> moved.runs, touched |-> b]
      /\ moved'.credentials = new
  BY <1>1 DEF MigTypes
<1>4. /\ new \in Login /\ new \notin Held \cup {Marker} /\ Held' = Held \cup {new}
      /\ Issued' = Issued \cup {new} /\ new \in 0 .. MaxCredentials
  BY <1>2, <1>3, Numbers DEF Held, Issued, Login
<1> QED
  BY <1>2, <1>3, <1>4 DEF MigTypes

\* The sets of credentials that were issued only grow.
LEMMA Grows ==
  ASSUME MigrationAssumption, MigTypes, NEW over, NEW reads, Issues(over, reads),
         UNCHANGED <<journal, setup>>
  PROVE  /\ journal' \in [phase : {"none", "empty"} \cup Unfinished \cup Completed,
                          auth : Held' \cup {Marker}, legacy : Held',
                          expected : {Marker, Unprepared}, proof : [Rows -> Held']]
         /\ setup' \in [at : {"idle", "begin", "committed"} \cup Unfinished,
                        auth : Held' \cup {Marker}, legacy : Held']
         /\ auth \in Held' \cup {Marker} /\ legacy \in Held'
         /\ poolRows \in [Rows -> Held']
<1>1. Held \subseteq Held'
  BY Fresh
<1> QED
  BY <1>1 DEF MigTypes

LEMMA HostSignsInSteps ==
  ASSUME MigrationAssumption, MigInv, HostSignsIn
  PROVE  MigInv'
<1> DEFINE new == moved.credentials + 1
<1>0. /\ MigTypes /\ Issues(auth, TRUE) /\ auth' = new /\ hosts # "none"
      /\ UNCHANGED <<legacy, poolRows, journal, setup, hosts>>
  BY DEF MigInv, HostSignsIn
<1>1. /\ new \in Login /\ new \notin Held \cup {Marker} /\ Held' = Held \cup {new}
      /\ alive' = (alive \ {auth}) \cup {new} /\ alive' \subseteq Issued'
  BY <1>0, Fresh
<1> HIDE DEF new
<1>2. MigTypes'
  BY <1>0, <1>1, Fresh, Grows DEF MigTypes
<1>3. /\ legacy \in Held /\ poolRows \in [Rows -> Held] /\ journal.auth \in Held \cup {Marker}
      /\ journal.legacy \in Held /\ NoLogin \notin Login /\ Marker \notin Login
  BY <1>0, IssuedLogins DEF MigTypes
<1>4. SetupFits' /\ RowsFit'
  BY <1>0, <1>1, <1>3 DEF MigInv, SetupFits, RowsFit
<1>5. SourcesLive'
  BY <1>0, <1>1, <1>3 DEF MigInv, SourcesLive, Apart, Held, NoLogin
<1>6. Apart'
  BY <1>0, <1>1, <1>3 DEF MigInv, Apart, Authorised, Held, NoLogin
<1>7. NoLoginIsLost'
  BY <1>0, <1>1 DEF MigInv, NoLoginIsLost
<1> QED
  BY <1>2, <1>4, <1>5, <1>6, <1>7 DEF MigInv

LEMMA HostSignsOutSteps ==
  ASSUME MigrationAssumption, MigInv, HostSignsOut
  PROVE  MigInv'
<1> DEFINE b == moved.touched \/ journal.phase \in Unfinished \cup {"committed"}
<1>0. /\ MigTypes /\ auth' = NoLogin /\ hosts # "none" /\ alive' = alive \ {auth}
      /\ moved' = [moved EXCEPT !.touched = b]
      /\ UNCHANGED <<legacy, poolRows, journal, setup, hosts>>
  BY DEF MigInv, HostSignsOut
<1> HIDE DEF b
<1>1. moved'.credentials = moved.credentials /\ Held' = Held /\ Issued' = Issued
      /\ moved' = [credentials |-> moved'.credentials, deaths |-> moved'.deaths,
                   runs |-> moved'.runs, touched |-> moved'.touched]
  BY <1>0 DEF MigTypes, Held, Issued
<1>2. NoLogin \notin Login /\ NoLogin # Marker /\ Marker \notin Login /\ NoLogin \in Held
  BY <1>0, IssuedLogins DEF Held
<1>3. MigTypes'
  BY <1>0, <1>1, <1>2 DEF MigTypes
<1>4. SetupFits' /\ RowsFit'
  BY <1>0, <1>1, <1>2 DEF MigInv, SetupFits, RowsFit
<1>5. SourcesLive'
  BY <1>0, <1>1, <1>2 DEF MigInv, SourcesLive, Apart
<1>6. Apart'
  BY <1>0, <1>1, <1>2 DEF MigInv, Apart, Authorised
<1>7. NoLoginIsLost'
  BY <1>0, <1>1 DEF MigInv, NoLoginIsLost
<1> QED
  BY <1>3, <1>4, <1>5, <1>6, <1>7 DEF MigInv

LEMMA PreviousRefreshesSteps ==
  ASSUME MigrationAssumption, MigInv, PreviousRefreshes
  PROVE  MigInv'
<1> DEFINE new == moved.credentials + 1
<1>0. MigTypes /\ hosts = "previous" /\ UNCHANGED <<poolRows, journal, setup, hosts>>
  BY DEF MigInv, PreviousRefreshes
<1>1. CASE auth \in alive /\ Issues(auth, TRUE) /\ auth' = new /\ UNCHANGED legacy
  BY <1>0, <1>1, HostSignsInSteps DEF HostSignsIn
<1>2. CASE legacy \in alive /\ Issues(legacy, TRUE) /\ legacy' = new /\ UNCHANGED auth
  <2>1. /\ new \in Login /\ new \notin Held \cup {Marker} /\ Held' = Held \cup {new}
        /\ alive' = (alive \ {legacy}) \cup {new} /\ alive' \subseteq Issued'
    BY <1>0, <1>2, Fresh
  <2> HIDE DEF new
  <2>2. MigTypes'
    BY <1>0, <1>2, <2>1, Fresh, Grows DEF MigTypes
  <2>3. /\ legacy \in Held /\ poolRows \in [Rows -> Held] /\ journal.auth \in Held \cup {Marker}
        /\ journal.legacy \in Held /\ NoLogin \notin Login /\ Marker \notin Login
        /\ alive \subseteq Login /\ auth \in Held \cup {Marker} /\ legacy # NoLogin
    BY <1>0, <1>2, IssuedLogins DEF MigTypes
  <2>4. SetupFits' /\ RowsFit'
    BY <1>0, <1>2, <2>1, <2>3 DEF MigInv, SetupFits, RowsFit
  <2>5. SourcesLive'
    BY <1>0, <1>2, <2>1, <2>3 DEF MigInv, SourcesLive, Apart, Held, NoLogin
  <2>6. Apart'
    BY <1>0, <1>2, <2>1, <2>3 DEF MigInv, Apart, Authorised
  <2>7. NoLoginIsLost'
    BY <1>0, <1>2, <2>1 DEF MigInv, NoLoginIsLost
  <2> QED
    BY <2>2, <2>4, <2>5, <2>6, <2>7 DEF MigInv
<1> QED
  BY <1>1, <1>2 DEF PreviousRefreshes

LEMMA NativeStoresSteps ==
  ASSUME MigrationAssumption, MigInv, NEW r \in Rows, NativeStores(r)
  PROVE  MigInv'
<1> DEFINE new == moved.credentials + 1
<1>0. /\ MigTypes /\ hosts = "native" /\ Authorised /\ UNCHANGED <<auth, legacy, journal, setup, hosts>>
      /\ Issues(poolRows[r], FALSE) /\ poolRows' = [poolRows EXCEPT ![r] = new]
  BY DEF MigInv, NativeStores
<1>1. /\ new \in Login /\ new \notin Held \cup {Marker} /\ Held' = Held \cup {new}
      /\ alive' = (alive \ {poolRows[r]}) \cup {new} /\ alive' \subseteq Issued'
  BY <1>0, Fresh
<1> HIDE DEF new
<1>2. /\ poolRows \in [Rows -> Held] /\ poolRows'[r] = new
      /\ \A q \in Rows \ {r} : poolRows'[q] = poolRows[q]
  BY <1>0 DEF MigTypes
<1>3. MigTypes'
  BY <1>0, <1>1, <1>2, Fresh, Grows DEF MigTypes
<1>4. /\ auth \in Held \cup {Marker} /\ legacy \in Held /\ journal.auth \in Held \cup {Marker}
      /\ journal.legacy \in Held /\ NoLogin \notin Login /\ Marker \notin Login
      /\ "main" \in Rows /\ "fallback" \in Rows /\ alive \subseteq Login
      /\ journal.phase \in {"committed", "retired", "empty"}
  BY <1>0, IssuedLogins DEF MigTypes, Rows, Authorised, Completed
<1>5. SetupFits'
  BY <1>0, <1>4 DEF MigInv, SetupFits
<1>6. RowsFit'
  BY <1>0, <1>1, <1>2, <1>4 DEF MigInv, RowsFit
<1>7. SourcesLive'
  BY <1>0, <1>1, <1>2, <1>4 DEF MigInv, SourcesLive, Apart, Completed, Unfinished
<1>8. Apart'
  BY <1>0, <1>1, <1>2, <1>4 DEF MigInv, Apart, Authorised, Unfinished
<1>9. NoLoginIsLost'
  BY <1>0, <1>1, <1>2, <1>4 DEF MigInv, NoLoginIsLost
<1> QED
  BY <1>3, <1>5, <1>6, <1>7, <1>8, <1>9 DEF MigInv

\* A step that leaves what was issued and what is honoured alone keeps the
\* types of what it does not write.
LEMMA Stands ==
  ASSUME MigTypes, UNCHANGED moved
  PROVE  Held' = Held /\ Issued' = Issued
BY DEF Held, Issued

LEMMA HostsSteps ==
  ASSUME MigrationAssumption, MigInv, HostStarts \/ HostsStop
  PROVE  MigInv'
<1>0. MigTypes /\ UNCHANGED <<auth, legacy, poolRows, journal, setup, alive>>
  BY DEF MigInv, HostStarts, HostsStop
<1>1. /\ moved'.credentials = moved.credentials
      /\ moved' = [credentials |-> moved'.credentials, deaths |-> moved'.deaths,
                   runs |-> moved'.runs, touched |-> moved'.touched]
  BY <1>0 DEF HostStarts, HostsStop, MigTypes
<1>2. Held' = Held /\ Issued' = Issued
  BY <1>1 DEF Held, Issued
<1>3. MigTypes'
  BY <1>0, <1>1, <1>2 DEF MigTypes
<1>4. hosts' = "none" => hosts = "none" \/ setup.at = "idle"
  BY DEF HostStarts, HostsStop
<1> QED
  BY <1>0, <1>3, <1>4
     DEF MigInv, SetupFits, RowsFit, SourcesLive, Apart, Authorised, NoLoginIsLost, Unfinished

\* A person takes up or gives up a setup.
LEMMA SetupComesAndGoes ==
  ASSUME MigrationAssumption, MigInv, Capture \/ Dies
  PROVE  MigInv'
<1>0. MigTypes /\ UNCHANGED <<auth, legacy, poolRows, journal, hosts, alive>>
  BY DEF MigInv, Capture, Dies
<1>1. /\ moved'.credentials = moved.credentials
      /\ moved' = [credentials |-> moved'.credentials, deaths |-> moved'.deaths,
                   runs |-> moved'.runs, touched |-> moved'.touched]
  BY <1>0 DEF Capture, Dies, MigTypes
<1>2. Held' = Held /\ Issued' = Issued
  BY <1>1 DEF Held, Issued
<1>3. /\ auth \in Held \cup {Marker} /\ legacy \in Held /\ Unprepared \notin Held \cup {Marker}
      /\ journal \in [phase : {"none", "empty"} \cup Unfinished \cup Completed,
                      auth : Held \cup {Marker}, legacy : Held,
                      expected : {Marker, Unprepared}, proof : [Rows -> Held]]
  BY <1>0, IssuedLogins DEF MigTypes
<1>4. /\ setup' \in [at : {"idle", "begin", "committed"} \cup Unfinished,
                     auth : Held \cup {Marker}, legacy : Held]
      /\ SetupFits'
  <2>1. CASE Dies
    <3>1. setup' = NoSetup
      BY <2>1 DEF Dies
    <3> QED
      BY <1>0, <3>1, <2>1 DEF NoSetup, Held, SetupFits, MigInv, Unfinished
  <2>2. CASE Capture /\ setup' = SetupAt("begin") /\ FreshImport
    BY <1>0, <1>3, <2>2 DEF SetupAt, SetupFits, MigInv, FreshImport, AdoptsLogin, Unfinished
  <2>3. CASE Capture /\ setup' = SetupAt(journal.phase) /\ journal.phase \in Unfinished /\ Resumes
    BY <1>0, <1>3, <2>3 DEF SetupAt, SetupFits, MigInv, Resumes, Unfinished
  <2>4. CASE Capture /\ setup' = SetupAt("committed") /\ journal.phase = "committed"
    BY <1>0, <1>3, <2>4 DEF SetupAt, SetupFits, MigInv, Unfinished
  <2> QED
    BY <2>1, <2>2, <2>3, <2>4 DEF Capture
<1>5. MigTypes'
  BY <1>0, <1>1, <1>2, <1>4 DEF MigTypes
<1> QED
  BY <1>0, <1>4, <1>5 DEF MigInv, RowsFit, SourcesLive, Apart, Authorised, NoLoginIsLost

\* Setup's step on the journal alone, or on host auth.
LEMMA EmptyInitSteps ==
  ASSUME MigrationAssumption, MigInv, EmptyInit
  PROVE  MigInv'
<1>0. /\ MigTypes /\ setup.at = "idle" /\ journal.phase = "none" /\ ~HoldsAccounts
      /\ UNCHANGED <<auth, legacy, poolRows, setup, hosts, alive, moved>>
  BY DEF MigInv, EmptyInit
<1>1. journal' = [phase |-> "empty", auth |-> NoLogin, legacy |-> NoLogin,
                  expected |-> Unprepared, proof |-> NoRows]
  BY DEF EmptyInit, NoJournal
<1>2. MigTypes'
  BY <1>0, <1>1, Stands DEF MigTypes, NoRows, Held
<1>3. \A r \in Rows : poolRows[r] = NoLogin
  BY <1>0 DEF HoldsAccounts
<1> QED
  BY <1>0, <1>1, <1>2, <1>3, IssuedLogins
     DEF MigInv, SetupFits, RowsFit, SourcesLive, Apart, Authorised, NoLoginIsLost, Unfinished,
         Completed

LEMMA RepairSteps ==
  ASSUME MigrationAssumption, MigInv, Repair
  PROVE  MigInv'
<1>0. /\ MigTypes /\ setup.at = "idle" /\ auth = NoLogin /\ auth' = Marker
      /\ journal.phase \in {"retired", "empty"}
      /\ UNCHANGED <<legacy, poolRows, journal, setup, hosts, alive, moved>>
  BY DEF MigInv, Repair
<1>1. MigTypes'
  BY <1>0, Stands DEF MigTypes
<1>2. NoLogin \notin Login /\ Marker \notin Login /\ alive \subseteq Login
  BY <1>0, IssuedLogins DEF MigTypes
<1> QED
  BY <1>0, <1>1, <1>2
     DEF MigInv, SetupFits, RowsFit, SourcesLive, Apart, Authorised, NoLoginIsLost, Unfinished,
         Completed

LEMMA BeginImportSteps ==
  ASSUME MigrationAssumption, MigInv, BeginImport
  PROVE  MigInv'
<1>0. /\ MigTypes /\ setup.at = "begin" /\ hosts = "none" /\ setup.auth = auth
      /\ setup.legacy = legacy /\ journal.phase \in {"none", "empty", "retired"} /\ ~HoldsAccounts
      /\ UNCHANGED <<auth, legacy, poolRows, hosts, alive, moved>>
  BY DEF MigInv, SetupFits, BeginImport, Fenced, LegacyUnchanged
<1>1. /\ journal' = [phase |-> "building", auth |-> auth, legacy |-> legacy,
                     expected |-> Unprepared, proof |-> NoRows]
      /\ setup' = [at |-> "building", auth |-> auth, legacy |-> legacy]
  BY <1>0 DEF BeginImport, NoJournal, SetupAt
<1>2. MigTypes'
  BY <1>0, <1>1, Stands DEF MigTypes, NoRows, Held, Unfinished
<1>3. NoLogin \notin Login /\ Marker \notin Login
  BY <1>0, IssuedLogins
<1> QED
  BY <1>0, <1>1, <1>2, <1>3
     DEF MigInv, SetupFits, RowsFit, SourcesLive, Apart, Authorised, NoLoginIsLost, Unfinished,
         Completed

LEMMA AddRowSteps ==
  ASSUME MigrationAssumption, MigInv, NEW r \in Rows, AddRow(r)
  PROVE  MigInv'
<1>0. /\ MigTypes /\ setup.at = "building" /\ journal.phase = "building" /\ poolRows[r] = NoLogin
      /\ poolRows' = [poolRows EXCEPT ![r] = Projected[r]]
      /\ UNCHANGED <<auth, legacy, journal, setup, hosts, alive, moved>>
  BY DEF MigInv, SetupFits, AddRow, Fenced, Unfinished
<1>1. Projected[r] \in Held
  BY <1>0, IssuedLogins DEF Projected, MigTypes, Rows, Held
<1>2. MigTypes'
  BY <1>0, <1>1, Stands DEF MigTypes
<1>3. \A q \in Rows \ {r} : poolRows'[q] = poolRows[q]
  BY <1>0 DEF MigTypes
<1>4. NoLoginIsLost'
  BY <1>0, <1>3, IssuedLogins DEF MigInv, NoLoginIsLost, MigTypes
<1> QED
  BY <1>0, <1>2, <1>4
     DEF MigInv, SetupFits, RowsFit, SourcesLive, Apart, Authorised, Unfinished, Completed

LEMMA VerifyRowsSteps ==
  ASSUME MigrationAssumption, MigInv, VerifyRows
  PROVE  MigInv'
<1>0. /\ MigTypes /\ setup.at = "building" /\ journal.phase = "building" /\ poolRows = Projected
      /\ journal' = [journal EXCEPT !.phase = "verified"]
      /\ setup' = [setup EXCEPT !.at = "verified"]
      /\ setup.auth = journal.auth /\ setup.legacy = journal.legacy
      /\ UNCHANGED <<auth, legacy, poolRows, hosts, alive, moved>>
  BY DEF MigInv, SetupFits, VerifyRows, Fenced, Unfinished
<1>1. MigTypes'
  BY <1>0, Stands DEF MigTypes, Unfinished
<1>2. /\ poolRows["main"] = IF journal.auth \in Login THEN journal.auth ELSE NoLogin
      /\ poolRows["fallback"] = journal.legacy
  BY <1>0, IssuedLogins DEF Projected, MigTypes, Held
<1>3. /\ journal' = [phase |-> "verified", auth |-> journal.auth, legacy |-> journal.legacy,
                     expected |-> journal.expected, proof |-> journal.proof]
      /\ setup' = [at |-> "verified", auth |-> setup.auth, legacy |-> setup.legacy]
  BY <1>0 DEF MigTypes
<1> QED
  BY <1>0, <1>1, <1>2, <1>3
     DEF MigInv, SetupFits, RowsFit, SourcesLive, Apart, Authorised, NoLoginIsLost, Unfinished,
         Completed

LEMMA PrepareImportSteps ==
  ASSUME MigrationAssumption, MigInv, PrepareImport
  PROVE  MigInv'
<1>0. /\ MigTypes /\ setup.at = "verified" /\ journal.phase = "verified"
      /\ journal' = [journal EXCEPT !.expected = Marker, !.proof = poolRows]
      /\ UNCHANGED <<auth, legacy, poolRows, setup, hosts, alive, moved>>
  BY DEF MigInv, SetupFits, PrepareImport, Fenced, Unfinished
<1>1. MigTypes'
  BY <1>0, Stands DEF MigTypes
<1>2. journal' = [phase |-> "verified", auth |-> journal.auth, legacy |-> journal.legacy,
                  expected |-> Marker, proof |-> poolRows]
  BY <1>0 DEF MigTypes
<1> QED
  BY <1>0, <1>1, <1>2
     DEF MigInv, SetupFits, RowsFit, SourcesLive, Apart, Authorised, NoLoginIsLost

LEMMA WriteHostSteps ==
  ASSUME MigrationAssumption, MigInv, WriteHost
  PROVE  MigInv'
<1>0. /\ MigTypes /\ setup.at = "verified" /\ journal.phase = "verified"
      /\ auth = journal.auth /\ auth' = Marker
      /\ UNCHANGED <<legacy, poolRows, journal, setup, hosts, alive, moved>>
  BY DEF MigInv, SetupFits, WriteHost, Fenced, Unfinished
<1>1. MigTypes'
  BY <1>0, Stands DEF MigTypes
<1>2. Marker \notin Login /\ alive \subseteq Login /\ "main" \in Rows
  BY <1>0, IssuedLogins DEF MigTypes, Rows
<1>3. NoLoginIsLost'
  BY <1>0, <1>2 DEF MigInv, NoLoginIsLost, RowsFit
<1> QED
  BY <1>0, <1>1, <1>2, <1>3
     DEF MigInv, SetupFits, RowsFit, SourcesLive, Apart, Authorised, Completed, Unfinished

LEMMA InstallSteps ==
  ASSUME MigrationAssumption, MigInv, Install
  PROVE  MigInv'
<1>0. /\ MigTypes /\ setup.at = "verified" /\ journal.phase = "verified"
      /\ journal' = [journal EXCEPT !.phase = "installed"]
      /\ setup' = [setup EXCEPT !.at = "installed"]
      /\ UNCHANGED <<auth, legacy, poolRows, hosts, alive, moved>>
  BY DEF MigInv, SetupFits, Install, Fenced, Unfinished
<1>1. MigTypes'
  BY <1>0, Stands DEF MigTypes, Unfinished
<1>2. /\ journal' = [phase |-> "installed", auth |-> journal.auth, legacy |-> journal.legacy,
                     expected |-> journal.expected, proof |-> journal.proof]
      /\ setup' = [at |-> "installed", auth |-> setup.auth, legacy |-> setup.legacy]
  BY <1>0 DEF MigTypes
<1> QED
  BY <1>0, <1>1, <1>2
     DEF MigInv, SetupFits, RowsFit, SourcesLive, Apart, Authorised, NoLoginIsLost, Unfinished,
         Completed

\* The commit finds host auth as setup left it, so its rows are what was read
\* and are honoured.
LEMMA CommitImportSteps ==
  ASSUME MigrationAssumption, MigInv, CommitImport
  PROVE  MigInv' /\ \A r \in Rows : poolRows[r] # NoLogin => poolRows[r] \in alive
<1>0. /\ MigTypes /\ setup.at = "installed" /\ journal.phase = "installed"
      /\ auth = journal.expected /\ legacy = journal.legacy
      /\ journal' = [journal EXCEPT !.phase = "committed"]
      /\ setup' = [setup EXCEPT !.at = "committed"]
      /\ UNCHANGED <<auth, legacy, poolRows, hosts, alive, moved>>
  BY DEF MigInv, SetupFits, CommitImport, Fenced, Unfinished, LegacyUnchanged
<1>1. auth = Marker /\ Marker \notin Login /\ NoLogin \notin Login
  BY <1>0, IssuedLogins DEF MigTypes
<1>2. MigTypes'
  BY <1>0, Stands DEF MigTypes, Completed
<1>3. /\ journal' = [phase |-> "committed", auth |-> journal.auth, legacy |-> journal.legacy,
                     expected |-> journal.expected, proof |-> journal.proof]
      /\ setup' = [at |-> "committed", auth |-> setup.auth, legacy |-> setup.legacy]
  BY <1>0 DEF MigTypes
<1>4. MigInv'
  BY <1>0, <1>1, <1>2, <1>3
     DEF MigInv, SetupFits, RowsFit, SourcesLive, Apart, Authorised, NoLoginIsLost, Unfinished,
         Completed
<1>5. journal.legacy \in Login \cup {NoLogin}
  BY <1>0, IssuedLogins DEF MigTypes, Held
<1>6. /\ poolRows["main"] # NoLogin => poolRows["main"] \in alive
      /\ poolRows["fallback"] # NoLogin => poolRows["fallback"] \in alive
  BY <1>0, <1>1, <1>5 DEF MigInv, RowsFit, SourcesLive, Unfinished, Completed
<1> QED
  BY <1>4, <1>6 DEF Rows

LEMMA RetireSteps ==
  ASSUME MigrationAssumption, MigInv, RemoveLegacy \/ RetireJournal
  PROVE  MigInv'
<1>0. /\ MigTypes /\ setup.at = "committed" /\ journal.phase = "committed" /\ hosts = "none"
      /\ UNCHANGED <<auth, poolRows, hosts, alive, moved>>
  BY DEF MigInv, SetupFits, RemoveLegacy, RetireJournal, Fenced
<1>1. NoLogin \notin Login /\ NoLogin \in Held /\ alive \subseteq Login /\ "fallback" \in Rows
  BY <1>0, IssuedLogins DEF MigTypes, Held, Rows
<1>2. CASE RemoveLegacy
  <2>1. legacy' = NoLogin /\ legacy = journal.legacy /\ UNCHANGED <<journal, setup>>
    BY <1>2 DEF RemoveLegacy, Retirable
  <2>2. MigTypes'
    BY <1>0, <1>1, <2>1, Stands DEF MigTypes
  <2>3. NoLoginIsLost'
    BY <1>0, <1>1, <2>1 DEF MigInv, NoLoginIsLost, RowsFit
  <2> QED
    BY <1>0, <1>1, <2>1, <2>2, <2>3
       DEF MigInv, SetupFits, RowsFit, SourcesLive, Apart, Authorised, Unfinished, Completed
<1>3. CASE RetireJournal
  <2>1. /\ legacy = NoLogin /\ legacy' = NoLogin /\ setup' = NoSetup
        /\ journal' = [phase |-> "retired", auth |-> journal.auth, legacy |-> journal.legacy,
                       expected |-> journal.expected, proof |-> journal.proof]
    BY <1>0, <1>3 DEF RetireJournal, MigTypes
  <2>2. MigTypes'
    BY <1>0, <1>1, <2>1, Stands DEF MigTypes, NoSetup, Completed
  <2> QED
    BY <1>0, <1>1, <2>1, <2>2
       DEF MigInv, SetupFits, RowsFit, SourcesLive, Apart, Authorised, NoLoginIsLost, Unfinished,
           Completed, NoSetup
<1> QED
  BY <1>2, <1>3

LEMMA MigrationStarts ==
  ASSUME MigrationAssumption, MigrationInit
  PROVE  MigInv
<1>0. /\ auth \in {0, 1} /\ legacy \in {0, auth + 1} /\ alive = {auth, legacy} \cap Login
      /\ poolRows = NoRows /\ journal = NoJournal /\ setup = NoSetup
      /\ moved = [credentials |-> Cardinality(alive), deaths |-> 0, runs |-> 0, touched |-> FALSE]
  BY DEF MigrationInit, NoLogin
<1>1. alive = 1 .. moved.credentials /\ moved.credentials \in 0 .. 2 /\ auth \in 0 .. 2 /\ legacy \in 0 .. 2
      /\ (auth # 0 => auth <= moved.credentials) /\ (legacy # 0 => legacy <= moved.credentials)
  <2>1. Cardinality({}) = 0 /\ Cardinality({1}) = 1
    BY FS_EmptySet, FS_Singleton
  <2>2. Cardinality({1, 2}) = 2
    <3>1. IsFiniteSet({1})
      BY FS_Singleton
    <3>2. {1} \cup {2} = {1, 2} /\ 2 \notin {1}
      OBVIOUS
    <3>3. Cardinality({1} \cup {2}) = Cardinality({1}) + 1
      BY <3>1, <3>2, FS_AddElement
    <3> QED
      BY <2>1, <3>2, <3>3
  <2>3. CASE auth = 0 /\ legacy = 0
    <3>1. alive = {}
      BY <1>0, <2>3, Numbers DEF Login
    <3> QED
      BY <1>0, <2>1, <2>3, <3>1
  <2>4. CASE auth = 0 /\ legacy = 1
    <3>1. alive = {1}
      BY <1>0, <2>4, Numbers DEF Login
    <3> QED
      BY <1>0, <2>1, <2>4, <3>1
  <2>5. CASE auth = 1 /\ legacy = 0
    <3>1. alive = {1}
      BY <1>0, <2>5, Numbers DEF Login
    <3> QED
      BY <1>0, <2>1, <2>5, <3>1
  <2>6. CASE auth = 1 /\ legacy = 2
    <3>1. alive = {1, 2}
      BY <1>0, <2>6, Numbers DEF Login
    <3> QED
      BY <1>0, <2>2, <2>6, <3>1
  <2>7. \/ auth = 0 /\ legacy = 0
        \/ auth = 0 /\ legacy = 1
        \/ auth = 1 /\ legacy = 0
        \/ auth = 1 /\ legacy = 2
    BY <1>0
  <2> QED
    BY <2>3, <2>4, <2>5, <2>6, <2>7
<1>2. Issued = alive /\ Held = alive \cup {0} /\ alive \subseteq Login
  BY <1>0, <1>1, Numbers DEF Issued, Held
<1>3. auth \in alive \cup {0} /\ legacy \in alive \cup {0} /\ 0 \notin Login
  BY <1>0, <1>1, Numbers DEF Login
<1>4. MigTypes
  <2>1. moved.credentials \in 0 .. MaxCredentials
    BY <1>1, Numbers
  <2>2. /\ journal = [phase |-> "none", auth |-> 0, legacy |-> 0, expected |-> Unprepared,
                      proof |-> NoRows]
        /\ setup = [at |-> "idle", auth |-> 0, legacy |-> 0]
        /\ NoRows \in [Rows -> Held] /\ 0 \in Held
    BY <1>0, <1>2, Numbers DEF NoJournal, NoSetup, NoRows
  <2> QED
    BY <1>0, <1>2, <1>3, <2>1, <2>2 DEF MigTypes
<1>5. legacy # 0 => legacy # auth
  BY <1>0, <1>1
<1>6. journal.phase = "none" /\ setup.at = "idle"
  BY <1>0 DEF NoJournal, NoSetup
<1> QED
  BY <1>0, <1>2, <1>3, <1>4, <1>5, <1>6
     DEF MigInv, SetupFits, RowsFit, SourcesLive, Apart, Authorised, NoLoginIsLost, Unfinished,
         Completed

LEMMA MigrationSteps ==
  ASSUME MigrationAssumption, MigInv, MigrationNext
  PROVE  MigInv'
<1>1. CASE SetupStep
  BY <1>1, SetupComesAndGoes, RepairSteps, BeginImportSteps, AddRowSteps, VerifyRowsSteps,
     PrepareImportSteps, WriteHostSteps, InstallSteps, CommitImportSteps, RetireSteps DEF SetupStep
<1> QED
  BY <1>1, HostsSteps, HostSignsInSteps, HostSignsOutSteps, PreviousRefreshesSteps,
     NativeStoresSteps, EmptyInitSteps, SetupComesAndGoes DEF MigrationNext

\* No setup, however often it dies and whichever hosts run in between, erases
\* a credential the provider still honours.
THEOREM LoginsAreKept == MigrationSpec => []NoLoginIsLost
<1>1. ASSUME MigInv, [MigrationNext]_migrationVars PROVE MigInv'
  <2>1. CASE UNCHANGED migrationVars
    BY <1>1, <2>1, Stands
       DEF migrationVars, MigInv, MigTypes, SetupFits, RowsFit, SourcesLive, Apart, Authorised,
           NoLoginIsLost
  <2> QED
    BY <1>1, <2>1, MigrationSteps, MigrationAssumption
<1>2. MigInv => NoLoginIsLost
  BY DEF MigInv
<1> QED
  BY <1>1, <1>2, MigrationStarts, MigrationAssumption, PTL DEF MigrationSpec

\* The rows that a commit authorises can all serve: an import during which a
\* host refreshed what had been copied is never committed.
THEOREM ServesWhatItMoved == MigrationSpec => ServesWhatWasMoved
<1>1. ASSUME MigInv, [MigrationNext]_migrationVars PROVE MigInv'
  <2>1. CASE UNCHANGED migrationVars
    BY <1>1, <2>1, Stands
       DEF migrationVars, MigInv, MigTypes, SetupFits, RowsFit, SourcesLive, Apart, Authorised,
           NoLoginIsLost
  <2> QED
    BY <1>1, <2>1, MigrationSteps, MigrationAssumption
<1> DEFINE OnlyLive == journal'.phase = "committed" /\ journal.phase = "installed"
                       => \A r \in Rows : poolRows[r] # NoLogin => poolRows[r] \in alive
<1>2. ASSUME MigInv, MigrationNext PROVE OnlyLive
  <2> SUFFICES ASSUME journal'.phase = "committed", journal.phase = "installed"
               PROVE  \A r \in Rows : poolRows[r] # NoLogin => poolRows[r] \in alive
    OBVIOUS
  <2>1. journal' # journal
    OBVIOUS
  <2>2. CommitImport
    BY <1>2, <2>1
       DEF MigrationNext, SetupStep, HostStarts, HostsStop, HostSignsIn, HostSignsOut,
           PreviousRefreshes, NativeStores, EmptyInit, Capture, Repair, BeginImport, AddRow,
           VerifyRows, PrepareImport, WriteHost, Install, CommitImport, RemoveLegacy,
           RetireJournal, Dies, MigInv, MigTypes, NoJournal
  <2> QED
    BY <1>2, <2>2, CommitImportSteps, MigrationAssumption
<1>3. ASSUME MigInv, [MigrationNext]_migrationVars PROVE [OnlyLive]_migrationVars
  BY <1>2, <1>3
<1> QED
  BY <1>1, <1>3, MigrationStarts, MigrationAssumption, PTL DEF MigrationSpec, ServesWhatWasMoved
=============================================================================
