---------------------------- MODULE StateLayout ----------------------------
(***************************************************************************)
(* Where OpenCode's account files live: beside its configuration (the      *)
(* legacy layout, folder "old") or in the state folder ("sub").            *)
(*                                                                         *)
(* A start decides which of the two its process serves, and may move the   *)
(* files; the restore command moves them back.  Both are sequences of file *)
(* operations under locks, recorded in layout.json, and both can stop at   *)
(* any of their steps: the process dies, a step fails, its leases expire,  *)
(* the machine loses power before a folder was flushed.  Whoever starts    *)
(* next has to find out what happened and go on or go back.  Meanwhile     *)
(* processes that were admitted earlier keep refreshing the credential in  *)
(* the pool state, and processes of older versions, which take none of the *)
(* locks, may write it in the old folder.                                  *)
(*                                                                         *)
(* A transition goes from stage to stage: a process first takes the locks  *)
(* its stage wants, then treats the stage's files one by one, then flushes *)
(* the folder.  A step asserts its leases, checks what it is about to      *)
(* replace and replaces it; the three are one action here.                 *)
(***************************************************************************)
EXTENDS Integers

CONSTANTS
  Procs,       \* the processes
  Nobody,      \* the owner of a lock nobody holds
  Movers,      \* processes whose release moves files at a start
  Overriding,  \* processes started with a path override: they never transition
  Faults,      \* what may go wrong: "crash", "power", "stall", "io", "older"
  MaxStarts, MaxMoves, MaxRestores, MaxToken   \* bounds of a run

ASSUME LayoutAssumption ==
  /\ Nobody \notin Procs
  /\ Movers \subseteq Procs
  /\ Overriding \subseteq Procs
  /\ {MaxStarts, MaxMoves, MaxRestores, MaxToken} \subseteq Nat
  /\ MaxToken > 0

---------------------------------------------------------------------------
(* Files.  The vault's store state, roster and routing are treated exactly *)
(* like the local roster, so one role stands for the four.  A file holds a *)
(* version of its data, nothing, or the tombstone of an attempt to move.   *)

RoleOrder == [localPoolState |-> 1, journal |-> 2, localRoster |-> 3,
              localRuntime |-> 4, vaultRuntime |-> 5]
Roles == {"localPoolState", "journal", "localRoster", "localRuntime", "vaultRuntime"}
Runtimes == {"localRuntime", "vaultRuntime"}
DataRoles == {"localPoolState", "localRoster"}
CleanRoles == {"localPoolState", "journal", "localRoster"}
Credentials == {"localPoolState", "journal"}

Absent == 0

Tombstone(attempt) == -attempt
IsTombstone(c) == c < 0
NoFiles == [r \in Roles |-> Absent]
Listed(files) == {r \in Roles : files[r] # Absent}

Phases == {"none", "preparing", "committed", "rolled-back",
           "restoring", "restore-staged", "restored"}

\* layout.json.  files are the hashes the move recorded, set those of the
\* restore, where Absent means that the file is not listed.
NoRecord == [phase |-> "none", attempt |-> 0, files |-> NoFiles,
             cleanup |-> "none", set |-> NoFiles, retired |-> "none"]

\* No move, one undone, or one restored to the end: nothing was moved.
NoMove(rec) == \/ rec.phase \in {"none", "rolled-back"}
               \/ rec.phase = "restored" /\ rec.retired = "done"

---------------------------------------------------------------------------
VARIABLES
  old, sub,    \* the two folders as processes see them
  oldImages,   \* what a power loss may bring back of each: every state since
  subImages,   \*   the folder was last flushed
  owner,       \* who holds each lock
  registered,  \* per folder, the live processes its holder file lists
  proc,        \* what each process is doing
  token,       \* the provider's side of the refresh token, and what became of it
  older,       \* a process of an older version: none, running or refreshing
  used         \* how much of the bounds is used up

folders == <<old, sub, oldImages, subImages>>
vars == <<old, sub, oldImages, subImages, owner, registered, proc, token, older, used>>

LockOrder == [layout |-> 1, oldHolders |-> 2, subHolders |-> 3, oldRow |-> 4, oldData |-> 5]
Locks == {"layout", "oldHolders", "subHolders", "oldRow", "oldData", "subRow"}

\* A refresh of an older version holds the row's lock too.
UnlockedByLayout(l) == owner[l] = Nobody
Unlocked(l) == owner[l] = Nobody /\ (l = "oldRow" => older # "refreshing")

\* A folder's next state, while the states before it can still come back.
Before(images) == IF "power" \in Faults THEN images ELSE {}
OldBecomes(state) ==
  old' = state /\ oldImages' = Before(oldImages) \cup {state} /\ UNCHANGED <<sub, subImages>>
SubBecomes(state) ==
  sub' = state /\ subImages' = Before(subImages) \cup {state} /\ UNCHANGED <<old, oldImages>>

Free(p, locks) ==
  [l \in Locks |-> IF l \in locks /\ owner[l] = p THEN Nobody ELSE owner[l]]

Down(why) == [mode |-> "down", job |-> "none", at |-> "none", wants |-> {}, roles |-> {},
              acting |-> NoRecord, seen |-> NoFiles, why |-> why, pointed |-> FALSE, inflight |-> 0]

\* First starts: nothing yet, or the files of a migrated installation.
Installed == {NoFiles,
              [NoFiles EXCEPT !["localPoolState"] = 1, !["journal"] = 1,
                              !["localRoster"] = 1, !["localRuntime"] = 1]}

Init ==
  /\ old \in {[at |-> f, moving |-> Absent, staged |-> NoFiles] : f \in Installed}
  /\ sub = [at |-> NoFiles, record |-> NoRecord]
  /\ oldImages = {old} /\ subImages = {sub}
  /\ owner = [l \in Locks |-> Nobody]
  /\ registered = [old |-> {}, sub |-> {}]
  /\ proc = [p \in Procs |-> Down("none")]
  /\ token = [live |-> 1, saved |-> old.at["localPoolState"], lost |-> FALSE, burnt |-> FALSE]
  /\ older = "none"
  /\ used = [starts |-> 0, moves |-> 0, restores |-> 0]

---------------------------------------------------------------------------
(* Stages.                                                                 *)

\* The files a stage treats.  What a restore has to place was found before.
StageFiles(p, stage, rec) ==
  CASE stage \in {"copy", "drop-copies"} -> Listed(rec.files)
    [] stage \in {"barriers", "bring-back"} -> Runtimes \cup (Listed(rec.files) \cap {"journal"})
    [] stage = "clean" -> CleanRoles
    [] stage \in {"stage", "unstage", "retire"} -> Listed(rec.set)
    [] stage = "place-barriers" -> proc[p].roles
    [] OTHER -> {}

\* The process has the locks it wanted for this stage.
At(p, stage) == proc[p].at = stage /\ proc[p].wants = {}

\* The files it has still to treat at this stage; the one that is next; and
\* that one is done.
Due(p) == IF proc[p].at = "place-data" THEN proc[p].roles \cap DataRoles ELSE proc[p].roles
Takes(p, stage, r) ==
  At(p, stage) /\ r \in Due(p) /\ \A q \in Due(p) : RoleOrder[r] <= RoleOrder[q]
Took(p, r) == proc' = [proc EXCEPT ![p].roles = @ \ {r}]

Act(p, job, rec, stage, locks) ==
  proc' = [proc EXCEPT ![p].job = job, ![p].acting = rec, ![p].at = stage,
                       ![p].wants = locks, ![p].roles = StageFiles(p, stage, rec)]
GoOn(p, stage) == Act(p, proc[p].job, proc[p].acting, stage, {})

\* The process will use neither copy; its locks are released.
Refuse(p, why) ==
  /\ proc' = [proc EXCEPT ![p] = Down(why)]
  /\ owner' = Free(p, Locks)

HolderLocks == {"oldHolders", "subHolders"}
RefreshAndDataLocks == {"oldRow", "oldData"}

---------------------------------------------------------------------------
(* What the files say.                                                     *)

Pointed(o) == \E r \in Runtimes : IsTombstone(o.at[r])

\* The config folder shows a move or a restore that did not end.
Transition(o) ==
  Pointed(o) \/ (o.at["journal"] = Absent /\ o.moving # Absent)

CleanedUp(rec) == rec.phase = "committed" /\ rec.cleanup \in {"done", "kept"}

\* An old file that is not the copy the move verified, or any once cleaned up.
SecondCopy(seen, rec, role) ==
  seen # Absent /\ (rec.cleanup # "pending" \/ seen # rec.files[role])

\* Why a process must not serve the state folder.
Conflict(o, rec) ==
  \/ rec.cleanup = "conflict"
  \/ o.at["journal"] # Absent
  \/ SecondCopy(o.at["localPoolState"], rec, "localPoolState")
  \/ rec.cleanup = "pending" /\ SecondCopy(o.moving, rec, "journal")

\* What every use of a credential checks, under its row's lock.  A journal
\* must authorize it; the tombstones and, in the state folder, the record
\* stop the layout that is not in use.
LegacyUsable ==
  old.at["journal"] # Absent /\ ~IsTombstone(old.at["localRuntime"])
HomeUsable ==
  sub.record.phase = "committed" /\ ~Conflict(old, sub.record) /\ sub.at["journal"] # Absent
Usable(mode) == IF mode = "home" THEN HomeUsable ELSE LegacyUsable

RowLock(mode) == IF mode = "home" THEN "subRow" ELSE "oldRow"
Pool(mode) == IF mode = "home" THEN sub.at["localPoolState"] ELSE old.at["localPoolState"]

Serves(p) == proc[p].mode \in {"legacy", "home"}

\* Why a move may not start: the destination is not empty, a tombstone is
\* there already, or files exist that nothing authorizes.
MovePrecondition ==
  /\ \A r \in Roles : sub.at[r] = Absent
  /\ ~Pointed(old)
  /\ \/ \E r \in Runtimes \cup {"journal"} : old.at[r] # Absent
     \/ \A r \in Roles : old.at[r] = Absent

\* A live registered process, or one of an older version, keeps the files
\* where they are.  MaxMoves bounds the attempts of a run.
FenceOpen ==
  /\ registered.old \cup registered.sub = {}
  /\ older = "none"
  /\ used.moves < MaxMoves

---------------------------------------------------------------------------
(* A start, from its first look to the layout it serves.                   *)

\* A process begins a job.
Begun(mode, job, stage, locks) ==
  [Down("none") EXCEPT !.mode = mode, !.job = job, !.at = stage, !.wants = locks]

Start(p) ==
  /\ proc[p].mode = "down"
  /\ used.starts < MaxStarts
  /\ used' = [used EXCEPT !.starts = @ + 1]
  /\ proc' = [proc EXCEPT ![p] = Begun("deciding", "start", "look", {})]
  /\ UNCHANGED <<folders, owner, registered, token, older>>

\* While moving is off, a folder without a sign of a move stays legacy and
\* the state folder is not even looked at.
Look(p) ==
  /\ At(p, "look")
  /\ IF p \notin Movers /\ ~Transition(old)
     THEN Act(p, "start", NoRecord, "stay-moving-off", {"oldHolders"})
     ELSE GoOn(p, "read-pointers")
  /\ UNCHANGED <<folders, owner, registered, token, older, used>>

\* The tombstones are read once, the record after them, both without a lock.
ReadPointers(p) ==
  /\ At(p, "read-pointers")
  /\ proc' = [proc EXCEPT ![p].pointed = Pointed(old), ![p].at = "survey"]
  /\ UNCHANGED <<folders, owner, registered, token, older, used>>

Survey(p) ==
  /\ At(p, "survey")
  /\ LET rec == sub.record
         lost == proc[p].pointed /\ NoMove(rec) IN
     \/ /\ lost
        /\ Refuse(p, "marker-unreadable")
     \/ /\ rec.phase = "restore-staged"
        /\ Refuse(p, "restore-unfinished")
     \/ /\ ~lost /\ rec.phase # "restore-staged"
        /\ IF CleanedUp(rec) THEN Act(p, "start", NoRecord, "admit-cleaned-up", {"subHolders"})
           ELSE IF (p \in Overriding \/ p \notin Movers) /\ NoMove(rec)
                THEN Act(p, "start", NoRecord, "stay", {"oldHolders"})
                ELSE Act(p, "start", NoRecord, "decide", {"layout"})
        /\ UNCHANGED owner
  /\ UNCHANGED <<folders, registered, token, older, used>>

\* Locks are taken in one order.
WaitsFor(p, l) == l \in proc[p].wants /\ \A k \in proc[p].wants : LockOrder[l] <= LockOrder[k]

TakeLock(p) ==
  /\ \E l \in Locks :
       /\ WaitsFor(p, l) /\ Unlocked(l)
       /\ owner' = [owner EXCEPT ![l] = p]
       /\ proc' = [proc EXCEPT ![p].wants = @ \ {l}]
  /\ UNCHANGED <<folders, registered, token, older, used>>

ServeLegacy(p, registers) ==
  /\ proc' = [proc EXCEPT ![p] = [Down("none") EXCEPT !.mode = "legacy"]]
  /\ registered' = IF registers THEN [registered EXCEPT !.old = @ \cup {p}] ELSE registered
  /\ owner' = Free(p, Locks)

\* Start over, with every lock released.
StartOver(p, stage, locks) ==
  /\ proc' = [proc EXCEPT ![p] = [Begun("deciding", "start", stage, locks)
                                    EXCEPT !.pointed = proc[p].pointed]]
  /\ owner' = Free(p, Locks)

\* What was decided on has changed: a fresh look, or a fresh lock set.
Restart(p) == StartOver(p, "decide", {"layout"})
Rethink(p) == IF owner["layout"] = p THEN Restart(p) ELSE StartOver(p, "survey", {})

\* Release the refresh and data locks and go on.
Settle(p, stage) ==
  /\ owner' = Free(p, RefreshAndDataLocks)
  /\ Act(p, "start", NoRecord, stage, {})

\* Waiting for a lock took too long.  A start that may serve unregistered
\* does so if the files still show no move; a finished move is served without
\* the layout lock; one that wanted to move stays and one that was to clean
\* up is admitted; every other wait ends in a refusal.
LockTimeout(p) ==
  /\ \E l \in Locks :
       /\ WaitsFor(p, l) /\ ~Unlocked(l)
       /\ LET stage == proc[p].at
              unlocked == stage = "stay" /\ owner["layout"] # p
              served == stage = "decide" /\ CleanedUp(sub.record)
              waited == l \in RefreshAndDataLocks /\ stage \in {"prepare", "look-for-a-journal"} IN
          \/ /\ stage = "stay-moving-off"
             /\ IF Transition(old)
                THEN StartOver(p, "read-pointers", {}) /\ UNCHANGED registered
                ELSE ServeLegacy(p, FALSE)
          \/ /\ unlocked
             /\ IF p \in Movers \/ Pointed(old) \/ ~NoMove(sub.record)
                THEN Refuse(p, "busy") /\ UNCHANGED registered
                ELSE ServeLegacy(p, FALSE)
          \/ /\ served
             /\ Act(p, "start", NoRecord, "admit-cleaned-up", {"subHolders"})
             /\ UNCHANGED <<owner, registered>>
          \/ /\ waited
             /\ Settle(p, IF stage = "prepare" THEN "stay" ELSE "admit")
             /\ UNCHANGED registered
          \/ /\ stage # "stay-moving-off" /\ ~unlocked /\ ~served /\ ~waited
             /\ Refuse(p, "busy") /\ UNCHANGED registered
  /\ UNCHANGED <<folders, token, older, used>>

\* legacyHeld, under the old folder's holder lock: a move committed while
\* this start waited is found and served, never overruled.
Stay(p) ==
  /\ At(p, "stay")
  /\ LET none == NoMove(sub.record) IN
     \/ /\ Pointed(old) /\ none
        /\ Refuse(p, "marker-unreadable") /\ UNCHANGED registered
     \/ /\ ~none
        /\ Rethink(p) /\ UNCHANGED registered
     \/ /\ ~Pointed(old) /\ none
        /\ \/ ServeLegacy(p, TRUE)
           \/ /\ "io" \in Faults
              /\ IF p \in Movers THEN Refuse(p, "unregistered") /\ UNCHANGED registered
                                 ELSE ServeLegacy(p, FALSE)
  /\ UNCHANGED <<folders, token, older, used>>

StayMovingOff(p) ==
  /\ At(p, "stay-moving-off")
  /\ \/ /\ Transition(old)
        /\ StartOver(p, "read-pointers", {}) /\ UNCHANGED registered
     \/ /\ ~Transition(old)
        /\ ServeLegacy(p, TRUE) \/ ("io" \in Faults /\ ServeLegacy(p, FALSE))
  /\ UNCHANGED <<folders, token, older, used>>

\* The background retry of a registration that failed.
RegisterLate(p) ==
  /\ proc[p].mode = "legacy" /\ p \notin registered.old
  /\ owner["oldHolders"] = Nobody
  /\ ~Pointed(old)
  /\ registered' = [registered EXCEPT !.old = @ \cup {p}]
  /\ UNCHANGED <<folders, owner, proc, token, older, used>>

\* admitHeld, under the state folder's holder lock.
Admit(p) ==
  /\ At(p, "admit") \/ At(p, "admit-cleaned-up")
  /\ LET rec == sub.record
         ready == /\ rec.phase = "committed"
                  /\ proc[p].at = "admit" \/ rec.cleanup # "pending" IN
     \/ /\ ~ready
        /\ Rethink(p) /\ UNCHANGED registered
     \/ /\ ready /\ Conflict(old, rec)
        /\ Refuse(p, "conflict") /\ UNCHANGED registered
     \/ /\ ready /\ ~Conflict(old, rec)
        /\ \/ /\ proc' = [proc EXCEPT ![p] = [Down("none") EXCEPT !.mode = "home"]]
              /\ registered' = [registered EXCEPT !.sub = @ \cup {p}]
              /\ owner' = Free(p, Locks)
           \/ "io" \in Faults /\ Refuse(p, "unregistered") /\ UNCHANGED registered
  /\ UNCHANGED <<folders, token, older, used>>

\* underLayoutLock: go on with what a record says, or decide to move.
Decide(p) ==
  /\ At(p, "decide")
  /\ LET rec == sub.record IN
     \/ /\ rec.phase = "restore-staged"
        /\ Refuse(p, "restore-unfinished")
     \/ /\ rec.phase \in {"restoring", "preparing"} \/ (rec.phase = "restored" /\ ~NoMove(rec))
        /\ p \in Overriding
        /\ Refuse(p, "overriding")
     \/ /\ rec.phase = "restoring" /\ p \notin Overriding
        /\ Act(p, "recover", rec, "unstage", HolderLocks)
        /\ UNCHANGED owner
     \/ /\ rec.phase = "restored" /\ ~NoMove(rec) /\ p \notin Overriding
        /\ Act(p, "recover", rec, "restored", HolderLocks)
        /\ UNCHANGED owner
     \/ /\ rec.phase = "committed"
        /\ Act(p, "sync", rec, "sync", {})
        /\ UNCHANGED owner
     \/ /\ rec.phase = "preparing" /\ p \notin Overriding
        /\ Act(p, "recover", rec, "bring-back", HolderLocks \cup RefreshAndDataLocks)
        /\ UNCHANGED owner
     \/ /\ NoMove(rec)
        /\ Act(p, "start", NoRecord,
               IF p \in Overriding \/ p \notin Movers THEN "stay" ELSE "fence", HolderLocks)
        /\ UNCHANGED owner
  /\ UNCHANGED <<folders, registered, token, older, used>>

Fence(p) ==
  /\ At(p, "fence")
  /\ IF FenceOpen /\ MovePrecondition
     THEN Act(p, "fenced", NoRecord, "prepare", RefreshAndDataLocks)
     ELSE GoOn(p, "stay")
  /\ UNCHANGED <<folders, owner, registered, token, older, used>>

StartAgain(p) ==
  /\ At(p, "again")
  /\ Restart(p)
  /\ UNCHANGED <<folders, registered, token, older, used>>

---------------------------------------------------------------------------
(* A failing step.  What happens next depends on how far the record says   *)
(* the transition got.                                                     *)

Publish(rec) == SubBecomes([sub EXCEPT !.record = rec])

\* The record on disk says how far the move got.
Unsure(p) == IF NoMove(sub.record) THEN Settle(p, "stay") ELSE Restart(p)

Broken(p) ==
  LET job == proc[p].job
      rec == proc[p].acting IN
  \/ /\ job \in {"fenced", "preparing", "committed", "aborted"}
     /\ Unsure(p) /\ UNCHANGED folders
  \/ /\ job = "moving"
     /\ Act(p, "aborted", rec, "bring-back", {})
     /\ UNCHANGED <<owner, folders>>
  \/ /\ job = "clean" /\ rec.cleanup # "conflict"
     /\ Settle(p, "admit") /\ UNCHANGED folders
  \/ /\ job = "clean" /\ rec.cleanup = "conflict"
     /\ Refuse(p, "conflict")
     /\ Publish(rec) \/ UNCHANGED folders
  \/ /\ job \in {"start", "sync", "recover", "restore"}
     /\ Refuse(p, "failed") /\ UNCHANGED folders

\* A file operation fails: no space, a permission, an unreadable folder.
StepFails(p) ==
  /\ "io" \in Faults
  /\ proc[p].wants = {} /\ proc[p].job \notin {"none", "start"}
  /\ proc[p].at \notin {"unlock-data", "stay", "admit", "again", "look-for-a-journal", "restore-done"}
  /\ proc[p].at = "retire" => proc[p].roles = {}
  /\ Broken(p)
  /\ UNCHANGED <<registered, token, older, used>>

\* The process was stopped for longer than its leases last.  It notices at
\* its next step, and does not undo what others may be undoing already.
LeasesLost(p) ==
  /\ "stall" \in Faults
  /\ \E l \in Locks : owner[l] = p /\ l \notin {"subRow"} /\ ~Serves(p)
  /\ LET job == proc[p].job IN
     \/ /\ job \in {"preparing", "moving", "committed", "aborted"}
        /\ Restart(p)
     \/ /\ job \in {"start", "fenced", "sync", "clean", "recover", "restore"}
        /\ Refuse(p, IF job = "clean" /\ proc[p].acting.cleanup = "conflict"
                     THEN "conflict" ELSE "failed")
  /\ UNCHANGED <<folders, registered, token, older, used>>

\* The files of a stage are done: their folder is flushed.  A record is
\* flushed before anything it announces is done.
OldStages == {"barriers", "clean", "bring-back", "unstage", "stage", "place-data", "place-barriers"}
SubStages == {"prepared", "copy", "committed", "cleaned", "drop-copies", "rolled-back", "discarded",
              "restoring", "staged", "restored", "retire", "retired", "sync"}

\* Mutants: the tombstones go up, or the restore is recorded as staged, before
\* the copies are durable: the wrong folder is flushed.
FlushedCopies(stage) == IF stage \in OldStages \cup {"copy"} THEN "old" ELSE "sub"
FlushedStaging(stage) == IF stage \in OldStages \ {"stage"} THEN "old" ELSE "sub"

Flushed(stage) == IF stage \in OldStages THEN "old" ELSE "sub"

\* What comes next.  The end of a rollback, of a discarded restore and of the
\* retirement depends on the job they belong to.
Following(stage, job) ==
  CASE stage = "prepared" -> "copy"
    [] stage = "copy" -> "check-artifacts"
    [] stage = "barriers" -> "verify"
    [] stage = "committed" -> "look-for-a-journal"
    [] stage = "clean" -> "record-cleanup"
    [] stage = "cleaned" -> "unlock-data"
    [] stage = "bring-back" -> "drop-copies"
    [] stage = "drop-copies" -> "record-rollback"
    [] stage = "rolled-back" -> IF job = "aborted" THEN "unlock-data" ELSE "again"
    [] stage = "unstage" -> "record-discard"
    [] stage = "discarded" -> IF job = "restore" THEN "restore-decide" ELSE "again"
    [] stage = "restoring" -> "stage"
    [] stage = "stage" -> "record-staged"
    [] stage = "staged" -> "classify"
    [] stage = "place-data" -> "place-barriers"
    [] stage = "place-barriers" -> "record-restored"
    [] stage = "restored" -> "retire"
    [] stage = "retire" -> "record-retired"
    [] stage = "retired" -> IF job = "restore" THEN "restore-done" ELSE "again"

Flush(p) ==
  /\ \E stage \in OldStages \cup SubStages :
       /\ At(p, stage)
       /\ Due(p) = {}
       /\ IF Flushed(stage) = "old" THEN oldImages' = {old} /\ UNCHANGED <<old, sub, subImages>>
                                    ELSE subImages' = {sub} /\ UNCHANGED <<old, sub, oldImages>>
       /\ LET job == proc[p].job
              rec == proc[p].acting IN
          IF stage = "sync"
          THEN IF rec.cleanup \in {"pending", "conflict"} /\ p \notin Overriding
               THEN Act(p, job, rec, "look-for-a-journal", HolderLocks \cup RefreshAndDataLocks)
               ELSE Act(p, job, rec, "admit", HolderLocks)
          ELSE Act(p, IF stage = "prepared" THEN "moving" ELSE job, rec, Following(stage, job), {})
  /\ UNCHANGED <<owner, registered, token, older, used>>

UnlockData(p) ==
  /\ At(p, "unlock-data")
  /\ Settle(p, IF proc[p].job = "aborted" THEN "stay" ELSE "admit")
  /\ UNCHANGED <<folders, registered, token, older, used>>

\* An owned step: if the slot still holds what the record says, change it.
Owned(p, expected, change) ==
  /\ \/ expected /\ change /\ UNCHANGED owner
     \/ ~expected /\ Broken(p)
  /\ UNCHANGED <<registered, token, older, used>>

\* The record is published if it still is this transition's.
Publishes(p, expected, rec, stage) ==
  Owned(p, expected, Publish(rec) /\ Act(p, proc[p].job, rec, stage, {}))

RecordIs(phase, attempt) == sub.record.phase = phase /\ sub.record.attempt = attempt

---------------------------------------------------------------------------
(* The move.                                                               *)

\* The snapshot and the preparing record.
Prepare(p) ==
  /\ At(p, "prepare")
  /\ \/ /\ MovePrecondition /\ NoMove(sub.record)
        /\ LET rec == [NoRecord EXCEPT !.phase = "preparing", !.attempt = used.moves + 1,
                                       !.files = old.at] IN
           /\ Publish(rec)
           /\ Act(p, "preparing", rec, "prepared", {})
        /\ used' = [used EXCEPT !.moves = @ + 1]
        /\ UNCHANGED owner
     \/ /\ ~(MovePrecondition /\ NoMove(sub.record))
        /\ Broken(p)
        /\ UNCHANGED used
  /\ UNCHANGED <<registered, token, older>>

CopyFile(p) ==
  \E r \in Roles :
    /\ Takes(p, "copy", r)
    /\ Owned(p, old.at[r] = proc[p].acting.files[r] /\ sub.at[r] = Absent,
             SubBecomes([sub EXCEPT !.at[r] = old.at[r]]) /\ Took(p, r))

\* Older versions take no lock the move shares, so it looks for them again.
CheckArtifacts(p) ==
  /\ At(p, "check-artifacts")
  /\ Owned(p, older = "none", UNCHANGED folders /\ GoOn(p, "barriers"))

SetJournalAside(p) ==
  /\ Takes(p, "barriers", "journal")
  /\ Owned(p, old.at["journal"] = proc[p].acting.files["journal"] /\ old.moving = Absent,
           /\ OldBecomes([old EXCEPT !.at["journal"] = Absent, !.moving = old.at["journal"]])
           /\ Took(p, "journal"))

InstallTombstone(p) ==
  \E r \in Runtimes :
    /\ Takes(p, "barriers", r)
    /\ Owned(p, old.at[r] = proc[p].acting.files[r],
             /\ OldBecomes([old EXCEPT !.at[r] = Tombstone(proc[p].acting.attempt)])
             /\ Took(p, r))

Verified(rec) ==
  /\ \A r \in DataRoles : old.at[r] = rec.files[r]
  /\ IF rec.files["journal"] = Absent THEN old.at["journal"] = Absent
                                      ELSE old.moving = rec.files["journal"]
  /\ \A r \in Roles : sub.at[r] = rec.files[r]

Verify(p) ==
  /\ At(p, "verify")
  /\ Owned(p, Verified(proc[p].acting), UNCHANGED folders /\ GoOn(p, "commit"))

Commit(p) ==
  /\ At(p, "commit")
  /\ LET rec == [proc[p].acting EXCEPT !.phase = "committed", !.cleanup = "pending"] IN
     \/ /\ sub.record = proc[p].acting
        /\ Publish(rec)
        /\ Act(p, "committed", rec, "committed", {})
        /\ UNCHANGED owner
     \/ sub.record # proc[p].acting /\ Unsure(p) /\ UNCHANGED folders
  /\ UNCHANGED <<registered, token, older, used>>

---------------------------------------------------------------------------
(* Removing the old copies after the commit.                               *)

\* A journal back at its legacy name is a second authority.
LookForJournal(p) ==
  /\ At(p, "look-for-a-journal")
  /\ Act(p, "clean",
         [proc[p].acting EXCEPT !.cleanup = IF old.at["journal"] # Absent THEN "conflict" ELSE "done"],
         "clean", {})
  /\ UNCHANGED <<folders, owner, registered, token, older, used>>

\* The old copy of a role, and the folder without it.
OldCopy(r) == IF r = "journal" THEN old.moving ELSE old.at[r]
WithoutOldCopy(r) ==
  IF r = "journal" THEN [old EXCEPT !.moving = Absent] ELSE [old EXCEPT !.at[r] = Absent]

\* A verified copy goes; a changed credential is a conflict and a changed
\* roster is kept.
Clean(p) ==
  \E r \in CleanRoles :
    /\ Takes(p, "clean", r)
    /\ LET rec == proc[p].acting
           same == OldCopy(r) = rec.files[r]
           changed == IF r \in Credentials THEN "conflict"
                      ELSE IF rec.files[r] # Absent /\ rec.cleanup # "conflict" THEN "kept"
                      ELSE rec.cleanup IN
       /\ IF same THEN OldBecomes(WithoutOldCopy(r)) ELSE UNCHANGED folders
       /\ proc' = [proc EXCEPT ![p].roles = @ \ {r},
                               ![p].acting.cleanup = IF same \/ OldCopy(r) = Absent THEN @ ELSE changed]
    /\ UNCHANGED <<owner, registered, token, older, used>>

RecordCleanup(p) ==
  /\ At(p, "record-cleanup")
  /\ Publishes(p, RecordIs("committed", proc[p].acting.attempt), proc[p].acting, "cleaned")

---------------------------------------------------------------------------
(* Rolling back a move that did not commit.                                *)

\* A slot no writer of ours leaves like this: nothing is undone.
Unsafe(p) == Refuse(p, "unsafe") /\ UNCHANGED folders

BringJournalBack(p) ==
  /\ Takes(p, "bring-back", "journal")
  /\ \/ /\ (old.moving = Absent) = (old.at["journal"] = Absent)
        /\ Unsafe(p)
     \/ /\ old.moving # Absent /\ old.at["journal"] = Absent
        /\ OldBecomes([old EXCEPT !.at["journal"] = old.moving, !.moving = Absent])
        /\ Took(p, "journal") /\ UNCHANGED owner
     \/ /\ old.moving = Absent /\ old.at["journal"] # Absent
        /\ Took(p, "journal") /\ UNCHANGED <<owner, folders>>
  /\ UNCHANGED <<registered, token, older, used>>

BringRuntimeBack(p) ==
  \E r \in Runtimes :
    /\ Takes(p, "bring-back", r)
    /\ LET rec == proc[p].acting
           own == old.at[r] = Tombstone(rec.attempt) IN
       \/ /\ \/ IsTombstone(old.at[r]) /\ ~own
             \/ own /\ rec.files[r] # Absent /\ sub.at[r] # rec.files[r]
          /\ Unsafe(p)
       \/ /\ own /\ rec.files[r] \in {Absent, sub.at[r]}
          /\ OldBecomes([old EXCEPT !.at[r] = rec.files[r]])
          /\ Took(p, r) /\ UNCHANGED owner
       \/ /\ ~IsTombstone(old.at[r])
          /\ Took(p, r) /\ UNCHANGED <<owner, folders>>
    /\ UNCHANGED <<registered, token, older, used>>

\* A copy whose source is gone may be the only one left.
DropCopy(p) ==
  \E r \in Roles :
    /\ Takes(p, "drop-copies", r)
    /\ IF sub.at[r] = proc[p].acting.files[r] /\ old.at[r] # Absent
       THEN SubBecomes([sub EXCEPT !.at[r] = Absent])
       ELSE UNCHANGED folders
    /\ Took(p, r)
    /\ UNCHANGED <<owner, registered, token, older, used>>

RecordRollback(p) ==
  /\ At(p, "record-rollback")
  /\ Publishes(p, RecordIs("preparing", proc[p].acting.attempt),
               [proc[p].acting EXCEPT !.phase = "rolled-back"], "rolled-back")

---------------------------------------------------------------------------
(* restore-legacy: back to the config folder, run with every host closed.  *)

StartRestore(p) ==
  /\ proc[p].mode = "down"
  /\ used.restores < MaxRestores
  /\ p \notin Overriding
  /\ ~NoMove(sub.record)
  /\ used' = [used EXCEPT !.restores = @ + 1]
  /\ proc' = [proc EXCEPT ![p] = Begun("restoring", "restore", "restore-decide",
                                       HolderLocks \cup {"layout", "oldData"})]
  /\ UNCHANGED <<folders, owner, registered, token, older>>

\* What stands in the way of a new restore.
RestoreProblem(rec) ==
  \/ rec.cleanup \in {"pending", "conflict"}
  \/ registered.old \cup registered.sub # {}
  \/ older # "none"
  \/ \E r \in Runtimes : old.at[r] # Tombstone(rec.attempt)
  \/ \E r \in Roles \ Runtimes : old.at[r] # Absent
  \/ old.moving # Absent

RestoreDecide(p) ==
  /\ At(p, "restore-decide")
  /\ LET rec == sub.record IN
     \/ /\ NoMove(rec)
        /\ GoOn(p, "restore-done") /\ UNCHANGED <<owner, folders>>
     \/ /\ \/ rec.phase = "preparing"
           \/ rec.phase = "committed" /\ RestoreProblem(rec)
           \/ rec.phase = "restore-staged" /\ registered.sub # {}
        /\ Refuse(p, "restore-refused") /\ UNCHANGED folders
     \/ /\ rec.phase = "restoring"
        /\ Act(p, "restore", rec, "unstage", {})
        /\ UNCHANGED <<owner, folders>>
     \/ /\ rec.phase = "committed" /\ ~RestoreProblem(rec)
        /\ LET next == [rec EXCEPT !.phase = "restoring", !.set = sub.at] IN
           /\ Publish(next)
           /\ Act(p, "restore", next, "restoring", {})
        /\ UNCHANGED owner
     \/ /\ rec.phase = "restore-staged" /\ registered.sub = {}
        /\ Act(p, "restore", rec, "staged", {})
        /\ UNCHANGED <<owner, folders>>
     \/ /\ rec.phase = "restored" /\ ~NoMove(rec)
        /\ Act(p, "restore", rec, "restored", {})
        /\ UNCHANGED <<owner, folders>>
  /\ UNCHANGED <<registered, token, older, used>>

\* A staging name belongs to one attempt, so what an earlier one left there
\* is not in the way.
Stage(p) ==
  \E r \in Roles :
    /\ Takes(p, "stage", r)
    /\ Owned(p, sub.at[r] = proc[p].acting.set[r],
             OldBecomes([old EXCEPT !.staged[r] = sub.at[r]]) /\ Took(p, r))

RecordStaged(p) ==
  /\ At(p, "record-staged")
  /\ Publishes(p, RecordIs("restoring", proc[p].acting.attempt),
               [proc[p].acting EXCEPT !.phase = "restore-staged"], "staged")

\* The slot table: what each slot needs, from its staging name and its legacy
\* path alone.
Slot(rec, r) ==
  LET listed == rec.set[r] # Absent
      staged == listed /\ old.staged[r] = rec.set[r]
      there  == old.at[r] # Absent
      own    == old.at[r] = Tombstone(rec.attempt) IN
  IF r \in Runtimes /\ ~listed
  THEN IF own THEN "untomb" ELSE IF IsTombstone(old.at[r]) THEN "problem" ELSE "nothing"
  ELSE IF ~listed THEN "nothing"
  ELSE IF r \in Runtimes
  THEN IF staged /\ own THEN "place"
       ELSE IF ~staged /\ there /\ ~IsTombstone(old.at[r]) THEN "nothing" ELSE "problem"
  ELSE IF staged THEN IF r = "journal" /\ there THEN "problem" ELSE "place"
  ELSE IF there THEN "nothing" ELSE "problem"

Barriers(rec) == Runtimes \cup {r \in {"journal"} : rec.set[r] # Absent}

Classify(p) ==
  /\ At(p, "classify")
  /\ LET rec == proc[p].acting
         down == \E r \in Barriers(rec) : Slot(rec, r) = "nothing"
         problem == \/ \E r \in Roles : Slot(rec, r) = "problem"
                    \/ down /\ \E r \in Roles \ Barriers(rec) :
                                 Slot(rec, r) = "place" /\ old.at[r] # Absent IN
     \/ /\ problem /\ Refuse(p, "restore-refused")
     \/ /\ ~problem
        /\ proc' = [proc EXCEPT ![p].at = "place-data", ![p].seen = old.at,
                                ![p].roles = {r \in Roles : Slot(rec, r) \in {"place", "untomb"}}]
        /\ UNCHANGED owner
  /\ UNCHANGED <<folders, registered, token, older, used>>

\* Each target is checked again for what the classification found there.
Place(p) ==
  \E r \in Roles :
    /\ Takes(p, "place-data", r) \/ Takes(p, "place-barriers", r)
    /\ proc[p].acting.set[r] # Absent
    /\ Owned(p, old.staged[r] = proc[p].acting.set[r] /\ old.at[r] = proc[p].seen[r],
             OldBecomes([old EXCEPT !.at[r] = old.staged[r], !.staged[r] = Absent]) /\ Took(p, r))

Untomb(p) ==
  \E r \in Runtimes :
    /\ Takes(p, "place-barriers", r) /\ proc[p].acting.set[r] = Absent
    /\ Owned(p, old.at[r] = proc[p].seen[r],
             OldBecomes([old EXCEPT !.at[r] = Absent]) /\ Took(p, r))

RecordRestored(p) ==
  /\ At(p, "record-restored")
  /\ Publishes(p, RecordIs("restore-staged", proc[p].acting.attempt),
               [proc[p].acting EXCEPT !.phase = "restored", !.retired = "pending"], "restored")

\* A state-folder copy that is not the staged one, or cannot be removed, is
\* kept and the restore goes on.
Retire(p) ==
  \E r \in Roles :
    /\ Takes(p, "retire", r)
    /\ \/ /\ sub.at[r] = proc[p].acting.set[r]
          /\ SubBecomes([sub EXCEPT !.at[r] = Absent])
       \/ /\ sub.at[r] # proc[p].acting.set[r] \/ "io" \in Faults
          /\ UNCHANGED folders
    /\ Took(p, r)
    /\ UNCHANGED <<owner, registered, token, older, used>>

RecordRetired(p) ==
  /\ At(p, "record-retired")
  /\ Publishes(p, sub.record.phase = "restored" /\ sub.record.retired = "pending",
               [proc[p].acting EXCEPT !.retired = "done"], "retired")

Unstage(p) ==
  \E r \in Roles :
    /\ Takes(p, "unstage", r)
    /\ OldBecomes([old EXCEPT !.staged[r] = Absent])
    /\ Took(p, r)
    /\ UNCHANGED <<owner, registered, token, older, used>>

RecordDiscard(p) ==
  /\ At(p, "record-discard")
  /\ Publishes(p, RecordIs("restoring", proc[p].acting.attempt),
               [proc[p].acting EXCEPT !.phase = "committed", !.set = NoFiles], "discarded")

RestoreDone(p) ==
  /\ At(p, "restore-done")
  /\ Refuse(p, "none")
  /\ UNCHANGED <<folders, registered, token, older, used>>

---------------------------------------------------------------------------
(* The processes that use the files meanwhile.                             *)

\* A write of the pool state is atomic and durable of its own; it makes no
\* other change of the folder durable.
PoolWritten(mode, version) ==
  LET written(o) == [o EXCEPT !.at["localPoolState"] = version] IN
  IF mode = "home"
  THEN sub' = written(sub) /\ subImages' = {written(s) : s \in subImages} /\ UNCHANGED <<old, oldImages>>
  ELSE old' = written(old) /\ oldImages' = {written(o) : o \in oldImages} /\ UNCHANGED <<sub, subImages>>

\* What migration creates where a process finds no files.
Created == [r \in Roles |-> IF r \in {"localPoolState", "journal", "localRuntime"} THEN 1 ELSE Absent]

Migrate(p) ==
  /\ Serves(p)
  /\ token.saved = Absent
  /\ Unlocked("oldRow") /\ Unlocked("oldData")
  /\ IF proc[p].mode = "legacy"
     THEN ~Pointed(old)
     ELSE sub.record.phase = "committed" /\ ~Conflict(old, sub.record)
  /\ LET created(o) == [o EXCEPT !.at = Created] IN
     IF proc[p].mode = "home"
     THEN sub' = created(sub) /\ subImages' = {created(s) : s \in subImages} /\ UNCHANGED <<old, oldImages>>
     ELSE old' = created(old) /\ oldImages' = {created(o) : o \in oldImages} /\ UNCHANGED <<sub, subImages>>
  /\ token' = [token EXCEPT !.saved = 1]
  /\ UNCHANGED <<owner, registered, proc, older, used>>

\* The provider's answer to a refresh token: the live one is replaced, any
\* other ends the login.
Exchanged(version) ==
  IF version = token.live THEN [token EXCEPT !.live = @ + 1] ELSE [token EXCEPT !.burnt = TRUE]

Exchange(p) ==
  /\ Serves(p)
  /\ LET mode == proc[p].mode IN
     /\ Unlocked(RowLock(mode))
     /\ Usable(mode)
     /\ Pool(mode) # Absent /\ token.live < MaxToken
     /\ token' = Exchanged(Pool(mode))
     /\ IF Pool(mode) = token.live
        THEN /\ proc' = [proc EXCEPT ![p].inflight = token.live + 1]
             /\ owner' = [owner EXCEPT ![RowLock(mode)] = p]
        ELSE UNCHANGED <<proc, owner>>
  /\ UNCHANGED <<folders, registered, older, used>>

\* The result is stored if the layout is still the one in use.
Save(p) ==
  /\ Serves(p) /\ proc[p].inflight # 0
  /\ LET mode == proc[p].mode IN
     /\ mode = "legacy" => owner["oldData"] = Nobody
     /\ IF Usable(mode)
        THEN /\ PoolWritten(mode, proc[p].inflight)
             /\ token' = [token EXCEPT !.saved = proc[p].inflight]
        ELSE UNCHANGED <<token, folders>>
     /\ owner' = Free(p, {RowLock(mode)})
  /\ proc' = [proc EXCEPT ![p].inflight = 0]
  /\ UNCHANGED <<registered, older, used>>

Unregistered(p) == [f \in DOMAIN registered |-> registered[f] \ {p}]

Stop(p) ==
  /\ Serves(p) /\ proc[p].inflight = 0
  /\ proc' = [proc EXCEPT ![p] = Down("none")]
  /\ registered' = Unregistered(p)
  /\ UNCHANGED <<folders, owner, token, older, used>>

\* An older version knows neither the record nor the registry.  It needs the
\* journal and a readable runtime; its refresh holds the row's lock, and what
\* it caches may bring a pool state back that was removed.
OlderStarts ==
  /\ "older" \in Faults /\ older = "none"
  /\ old.at["journal"] # Absent /\ ~Pointed(old)
  /\ older' = "running"
  /\ UNCHANGED <<folders, owner, registered, proc, token, used>>

OlderExchanges ==
  /\ older = "running" /\ owner["oldRow"] = Nobody
  /\ LegacyUsable
  /\ Pool("legacy") # Absent /\ token.live < MaxToken
  /\ token' = Exchanged(Pool("legacy"))
  /\ older' = IF Pool("legacy") = token.live THEN "refreshing" ELSE older
  /\ UNCHANGED <<folders, owner, registered, proc, used>>

OlderSaves ==
  /\ older = "refreshing"
  /\ older' = "running"
  /\ PoolWritten("legacy", token.live)
  /\ token' = [token EXCEPT !.saved = token.live]
  /\ UNCHANGED <<owner, registered, proc, used>>

OlderBringsBack ==
  /\ older # "none"
  /\ Pool("legacy") = Absent /\ token.saved # Absent
  /\ OldBecomes([old EXCEPT !.at["localPoolState"] = 1])
  /\ UNCHANGED <<owner, registered, proc, token, older, used>>

OlderStops ==
  /\ older = "running"
  /\ older' = "none"
  /\ UNCHANGED <<folders, owner, registered, proc, token, used>>

---------------------------------------------------------------------------
(* Faults.                                                                 *)

\* Locks of the dead are taken over and their entries count for nothing; a
\* refresh they had not stored is lost.
Crash(p) ==
  /\ "crash" \in Faults
  /\ proc[p].mode # "down"
  /\ token' = [token EXCEPT !.lost = @ \/ proc[p].inflight # 0]
  /\ proc' = [proc EXCEPT ![p] = Down("crash")]
  /\ owner' = Free(p, Locks)
  /\ registered' = Unregistered(p)
  /\ UNCHANGED <<folders, older, used>>

PowerLoss ==
  /\ "power" \in Faults
  /\ \E p \in Procs : proc[p].mode # "down"
  /\ old' \in oldImages /\ oldImages' = {old'}
  /\ sub' \in subImages /\ subImages' = {sub'}
  /\ token' = [token EXCEPT !.lost = @ \/ older = "refreshing" \/ \E p \in Procs : proc[p].inflight # 0]
  /\ proc' = [p \in Procs |-> Down("crash")]
  /\ owner' = [l \in Locks |-> Nobody]
  /\ registered' = [f \in DOMAIN registered |-> {}]
  /\ older' = "none"
  /\ UNCHANGED used

---------------------------------------------------------------------------

Deciding(p) ==
  Look(p) \/ ReadPointers(p) \/ Survey(p) \/ TakeLock(p) \/ LockTimeout(p) \/ Stay(p) \/ StayMovingOff(p)
    \/ Admit(p) \/ Decide(p) \/ Fence(p) \/ StartAgain(p)

MoveStep(p) ==
  Prepare(p) \/ CopyFile(p) \/ CheckArtifacts(p) \/ SetJournalAside(p) \/ InstallTombstone(p)
    \/ Verify(p) \/ Commit(p) \/ LookForJournal(p) \/ Clean(p) \/ RecordCleanup(p)

RollbackStep(p) ==
  BringJournalBack(p) \/ BringRuntimeBack(p) \/ DropCopy(p) \/ RecordRollback(p)

RestoreStep(p) ==
  RestoreDecide(p) \/ Stage(p) \/ RecordStaged(p) \/ Classify(p) \/ Place(p) \/ Untomb(p)
    \/ RecordRestored(p) \/ Retire(p) \/ RecordRetired(p) \/ Unstage(p) \/ RecordDiscard(p)
    \/ RestoreDone(p)

Step(p) ==
  Deciding(p) \/ Flush(p) \/ UnlockData(p) \/ MoveStep(p) \/ RollbackStep(p) \/ RestoreStep(p)

Serving(p) == RegisterLate(p) \/ Migrate(p) \/ Exchange(p) \/ Save(p) \/ Stop(p)

Next ==
  \/ \E p \in Procs : Start(p) \/ StartRestore(p) \/ Step(p) \/ Serving(p)
                        \/ StepFails(p) \/ LeasesLost(p) \/ Crash(p)
  \/ OlderStarts \/ OlderExchanges \/ OlderSaves \/ OlderBringsBack \/ OlderStops \/ PowerLoss

Spec == Init /\ [][Next]_vars

\* A transition goes on while its process lives, and a refresh ends.
FairSpec == Spec /\ \A p \in Procs : WF_vars(Step(p)) /\ WF_vars(Save(p))

---------------------------------------------------------------------------
(* Properties.                                                             *)

\* What a start after a power loss would need to find, for one state of each
\* folder that may come back.
OldComplete(o) ==
  /\ o.at["localPoolState"] = token.saved
  /\ token.saved # Absent => o.at["journal"] # Absent
  /\ ~Pointed(o)

Undoable(o, s) ==
  LET rec == s.record IN
  /\ o.at["localPoolState"] = token.saved
  /\ token.saved # Absent =>
       IF rec.files["journal"] = Absent THEN o.at["journal"] # Absent
       ELSE (o.at["journal"] = Absent) # (o.moving = Absent)
  /\ \A r \in Runtimes : \/ ~IsTombstone(o.at[r])
                         \/ /\ o.at[r] = Tombstone(rec.attempt)
                            /\ rec.files[r] \in {Absent, s.at[r]}

SubComplete(o, s) ==
  /\ s.at["localPoolState"] = token.saved
  /\ token.saved # Absent => s.at["journal"] # Absent
  /\ \A r \in Runtimes : o.at[r] = Tombstone(s.record.attempt)

Redoable(o, s) ==
  /\ token.saved \in {o.at["localPoolState"], o.staged["localPoolState"]}
  /\ \A r \in Roles : s.record.set[r] # Absent =>
       \/ o.staged[r] = s.record.set[r]
       \/ o.at[r] # Absent /\ ~IsTombstone(o.at[r])

\* Whatever power loss leaves of the two folders, the record in it names a
\* side from which the newest stored credential, its journal and the runtimes
\* can be had: the record never gets ahead of the files it vouches for, and no
\* copy goes before the other is durable.
Recoverable(o, s) ==
  /\ NoMove(s.record) \/ s.record.phase = "restored" => OldComplete(o)
  /\ s.record.phase = "preparing" => Undoable(o, s)
  /\ s.record.phase \in {"committed", "restoring"} => SubComplete(o, s)
  /\ s.record.phase = "restore-staged" => Redoable(o, s)

EveryImageRecovers == \A o \in oldImages, s \in subImages : Recoverable(o, s)

\* No process offers the provider a refresh token that another copy of the
\* files has already used up, unless the successor was lost with its process.
NoDeadExchange == token.burnt => token.lost

\* What decideOpenCodeStateLayout says of its refusals, for the one that tells
\* the user the record is lost: a start gives up on the old folder only while
\* that folder is not the copy to serve.
RefusesOnlyTheUnsafe ==
  [][\A p \in Procs : proc'[p].why = "marker-unreadable" /\ proc[p].why # "marker-unreadable"
       => ~LegacyUsable]_vars

\* The folder the record names, and the credential a process would find there.
Authority ==
  IF sub.record.phase \in {"committed", "restoring"} THEN "sub" ELSE "old"
Authoritative ==
  IF Authority = "sub" THEN sub.at["localPoolState"]
  ELSE IF sub.record.phase = "restore-staged" /\ old.staged["localPoolState"] # Absent
  THEN old.staged["localPoolState"]
  ELSE old.at["localPoolState"]

Abstract == INSTANCE CredentialHome WITH folder <- Authority, credential <- Authoritative

\* Moves, rollbacks, restores and whatever interrupts them look, through the
\* record, like one credential that changes folders: no step of them replaces
\* or loses it, and only a refresh makes it a later one.
ImplementsCredentialHome == Abstract!Spec
=============================================================================
