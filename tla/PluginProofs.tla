----------------------------- MODULE PluginProofs -----------------------------
(*****************************************************************************)
(* Proofs about four parts of a host's plugin, for any sessions, processes   *)
(* and bounds.  The parts share no state: each has its own invariant.        *)
(*   RouteComesBack    when every writer rests, the sidebar's file has the   *)
(*                     last route (SidebarInv: or its writer repairs it)     *)
(*   PrimedOnce        a reset is primed once (PrimeInv: what a tick knows   *)
(*                     of the window, and the markers behind it)             *)
(*   ThreadsAreTold    what the provider was told of a thread is the talk    *)
(*                     the host holds (ThreadsInv: what anchors a thread)    *)
(*   RequestsAreKept   a request open with the vault is in the state file or *)
(*                     was refused (EnrollInv: what each run still holds)    *)
(*   TokensStay        a token that was saved stays, from the same invariant *)
(*****************************************************************************)
EXTENDS SidebarLock, PrimeWindow, MessageThreads, Enrollment, SequenceTheorems, TLAPS
-----------------------------------------------------------------------------
(* The sidebar's file.                                                         *)

FramePlaces == {"idle", "lock", "own", "evict", "merge", "write", "rename", "check", "release",
                "rmdir"}
FrameRecord == [at : FramePlaces, kind : FrameKinds, route : Nat, copy : Nat, again : BOOLEAN]
WriterRecord == [frame : FrameRecord, left : [FrameKinds -> Nat]]
DirRecord == [there : BOOLEAN, owners : SUBSET Writers, remains : BOOLEAN, old : BOOLEAN]
SidebarTypes ==
  /\ lockDir \in DirRecord
  /\ routeFile \in Nat
  /\ writer \in [Writers -> WriterRecord]
  /\ routed \in [route : Nat, requests : Nat]

\* Writer q's request took the last route written, and q will write it once more.
Repairing(q) ==
  /\ Frame(q).kind = "route" /\ Frame(q).route = routed.route
  /\ \/ Is(q, "check") /\ ~OwnsLock(q)
     \/ Frame(q).again /\ Frame(q).at \in {"lock", "evict", "own", "merge", "write", "rename"}
RepairComes == \E q \in Writers : Repairing(q)

\* What a writer about to rename will leave in the file.
Merged(p) ==
  Frame(p).at \in {"write", "rename"} =>
    /\ Frame(p).kind = "route" => Frame(p).copy = Frame(p).route
    /\ Frame(p).kind = "display" /\ OwnsLock(p) => Frame(p).copy = routed.route \/ RepairComes
SidebarInv ==
  spoiled = {} =>
    /\ \A p, q \in lockDir.owners : p = q
    /\ routeFile = routed.route \/ RepairComes
    /\ \A p \in Writers : Merged(p)

LEMMA SidebarValues ==
  /\ NoDir \in DirRecord /\ NewDir \in DirRecord /\ NoDir.owners = {} /\ NewDir.owners = {}
  /\ NoFrame \in FrameRecord /\ NoFrame.at = "idle" /\ NoFrame.kind = "display"
BY DEF NoDir, NewDir, NoFrame, FrameRecord, FramePlaces, FrameKinds, DirRecord

\* A writer's frame is replaced.
FrameBecomes(p, x) ==
  /\ Frame(p)' = x /\ x \in FrameRecord
  /\ \A q \in Writers \ {p} : Frame(q)' = Frame(q)
  /\ writer' \in [Writers -> WriterRecord]

LEMMA FrameMoves ==
  ASSUME SidebarTypes, NEW p \in Writers, NEW x \in FrameRecord,
         writer' = [writer EXCEPT ![p].frame = x]
  PROVE  FrameBecomes(p, x)
BY DEF SidebarTypes, WriterRecord, FrameBecomes, Frame

LEMMA FrameGoes ==
  ASSUME SidebarTypes, NEW p \in Writers, NEW place \in FramePlaces, To(p, place)
  PROVE  \E x : /\ FrameBecomes(p, x) /\ x.at = place /\ x.kind = Frame(p).kind
                /\ x.route = Frame(p).route /\ x.copy = Frame(p).copy /\ x.again = Frame(p).again
<1> DEFINE x == [Frame(p) EXCEPT !.at = place]
<1>1. Frame(p) \in FrameRecord
  BY DEF SidebarTypes, WriterRecord, Frame
<1>2. /\ x \in FrameRecord /\ x.at = place /\ x.kind = Frame(p).kind
      /\ x.route = Frame(p).route /\ x.copy = Frame(p).copy /\ x.again = Frame(p).again
  BY <1>1 DEF FrameRecord
<1>3. writer' = [writer EXCEPT ![p].frame = x]
  BY DEF To, Frame, SidebarTypes, WriterRecord
<1> HIDE DEF x
<1> QED
  BY <1>2, <1>3, FrameMoves

LEMMA FrameEnds ==
  ASSUME SidebarTypes, NEW p \in Writers, Ends(p)
  PROVE  FrameBecomes(p, NoFrame)
BY FrameMoves, SidebarValues DEF Ends

LEMMA DirOwners ==
  ASSUME SidebarTypes, NEW s \in SUBSET Writers, NEW r \in BOOLEAN
  PROVE  /\ [lockDir EXCEPT !.owners = s] \in DirRecord
         /\ [lockDir EXCEPT !.owners = s].owners = s
         /\ [lockDir EXCEPT !.owners = s, !.remains = r] \in DirRecord
         /\ [lockDir EXCEPT !.owners = s, !.remains = r].owners = s
BY DEF SidebarTypes, DirRecord

Again(x, p) ==
  /\ x.kind = Frame(p).kind /\ x.route = Frame(p).route
  /\ \/ x.at = "check" /\ p \notin lockDir'.owners
     \/ x.again /\ x.at \in {"lock", "evict", "own", "merge", "write", "rename"}

LEMMA RepairsStay ==
  ASSUME NEW p \in Writers, NEW x, FrameBecomes(p, x), routed'.route = routed.route,
         \A q \in Writers \ {p} : q \in lockDir'.owners => q \in lockDir.owners,
         Repairing(p) => Again(x, p)
  PROVE  RepairComes => RepairComes'
<1> SUFFICES ASSUME NEW q \in Writers, Repairing(q)
             PROVE  Repairing(q)'
  BY DEF RepairComes
<1>1. CASE q = p
  BY <1>1 DEF Repairing, Again, FrameBecomes, Is, OwnsLock
<1>2. CASE q # p
  BY <1>2 DEF Repairing, FrameBecomes, Is, OwnsLock
<1> QED
  BY <1>1, <1>2

LEMMA WrittenAgain ==
  ASSUME SidebarTypes, NEW p \in Writers, NEW b \in BOOLEAN
  PROVE  [writer EXCEPT ![p].frame.at = "lock", ![p].frame.again = b]
         = [writer EXCEPT ![p].frame = [Frame(p) EXCEPT !.at = "lock", !.again = b]]
<1> DEFINE v == [writer EXCEPT ![p].frame.at = "lock", ![p].frame.again = b]
           w == [writer EXCEPT ![p].frame = [Frame(p) EXCEPT !.at = "lock", !.again = b]]
<1>1. v[p].frame = [Frame(p) EXCEPT !.at = "lock", !.again = b]
  BY DEF Frame, SidebarTypes, WriterRecord, FrameRecord
<1>2. v[p] = [writer[p] EXCEPT !.frame = [Frame(p) EXCEPT !.at = "lock", !.again = b]]
  BY <1>1 DEF Frame, SidebarTypes, WriterRecord, FrameRecord
<1>3. v = [writer EXCEPT ![p] = v[p]]
  BY DEF SidebarTypes
<1>4. w = [writer EXCEPT ![p] = [writer[p] EXCEPT !.frame = [Frame(p) EXCEPT !.at = "lock", !.again = b]]]
  BY DEF SidebarTypes
<1> HIDE DEF v, w
<1>5. v = w
  BY <1>2, <1>3, <1>4
<1> QED
  BY <1>5 DEF v, w

\* A step that takes no lock and writes no file.
LEMMA FrameStepKeeps ==
  ASSUME SidebarTypes, SidebarInv, NEW p \in Writers, NEW x, FrameBecomes(p, x),
         spoiled \subseteq spoiled', lockDir'.owners \subseteq lockDir.owners,
         routeFile' = routeFile, routed'.route = routed.route,
         spoiled' = {} =>
           /\ x.at \in {"write", "rename"} =>
                /\ Frame(p).at \in {"write", "rename"} /\ x.kind = Frame(p).kind
                /\ x.route = Frame(p).route /\ x.copy = Frame(p).copy
           /\ Repairing(p) => Again(x, p)
  PROVE  SidebarInv'
<1> SUFFICES ASSUME spoiled' = {}
             PROVE  /\ \A q, r \in lockDir'.owners : q = r
                    /\ (routeFile = routed.route)' \/ RepairComes'
                    /\ \A q \in Writers : Merged(q)'
  BY DEF SidebarInv
<1>1. spoiled = {}
  OBVIOUS
<1>2. /\ \A q, r \in lockDir.owners : q = r
      /\ routeFile = routed.route \/ RepairComes
      /\ \A q \in Writers : Merged(q)
  BY <1>1 DEF SidebarInv
<1>3. RepairComes => RepairComes'
  BY RepairsStay
<1>4. ASSUME NEW q \in Writers
      PROVE  Merged(q)'
  <2>1. CASE q = p
    BY <1>2, <1>3, <2>1 DEF Merged, FrameBecomes, OwnsLock
  <2>2. CASE q # p
    BY <1>2, <1>3, <2>2 DEF Merged, FrameBecomes, OwnsLock
  <2> QED
    BY <2>1, <2>2
<1> QED
  BY <1>2, <1>3, <1>4

\* An owner's file in an empty directory.
LEMMA OwnerKeeps ==
  ASSUME SidebarTypes, SidebarInv, NEW p \in Writers, NEW x, FrameBecomes(p, x),
         spoiled \subseteq spoiled', lockDir'.owners = lockDir.owners \cup {p},
         lockDir.owners # {} => spoiled' # {},
         routeFile' = routeFile, routed' = routed, Is(p, "own"), x.at = "merge",
         x.kind = Frame(p).kind, x.route = Frame(p).route, x.again = Frame(p).again
  PROVE  SidebarInv'
<1> SUFFICES ASSUME spoiled' = {}
             PROVE  /\ \A q, r \in lockDir'.owners : q = r
                    /\ (routeFile = routed.route)' \/ RepairComes'
                    /\ \A q \in Writers : Merged(q)'
  BY DEF SidebarInv
<1>1. spoiled = {} /\ lockDir.owners = {} /\ lockDir'.owners = {p}
  OBVIOUS
<1>2. /\ routeFile = routed.route \/ RepairComes
      /\ \A q \in Writers : Merged(q)
  BY <1>1 DEF SidebarInv
<1>3. RepairComes => RepairComes'
  <2>1. Repairing(p) => Again(x, p)
    BY DEF Repairing, Again, Is
  <2> QED
    BY <1>1, <2>1, RepairsStay
<1>4. ASSUME NEW q \in Writers
      PROVE  Merged(q)'
  BY <1>1, <1>2, <1>3 DEF Merged, FrameBecomes, OwnsLock
<1> QED
  BY <1>1, <1>2, <1>3, <1>4

\* A display frame, or the request's own route, is read for the rename.
LEMMA MergeKeeps ==
  ASSUME SidebarTypes, SidebarInv, NEW p \in Writers, NEW x, FrameBecomes(p, x),
         UNCHANGED <<lockDir, routeFile, routed, spoiled>>, Is(p, "merge"), x.at = "write",
         x.kind = Frame(p).kind, x.route = Frame(p).route, x.again = Frame(p).again,
         x.copy = IF x.kind = "route" THEN x.route ELSE routeFile
  PROVE  SidebarInv'
<1> SUFFICES ASSUME spoiled = {}
             PROVE  /\ \A q, r \in lockDir'.owners : q = r
                    /\ (routeFile = routed.route)' \/ RepairComes'
                    /\ \A q \in Writers : Merged(q)'
  BY DEF SidebarInv
<1>1. /\ \A q, r \in lockDir.owners : q = r
      /\ routeFile = routed.route \/ RepairComes
      /\ \A q \in Writers : Merged(q)
  BY DEF SidebarInv
<1>2. RepairComes => RepairComes'
  <2>1. Repairing(p) => Again(x, p)
    BY DEF Repairing, Again, Is
  <2> QED
    BY <2>1, RepairsStay
<1>3. Merged(p)'
  BY <1>1, <1>2 DEF Merged, FrameBecomes, OwnsLock
<1>4. ASSUME NEW q \in Writers, q # p
      PROVE  Merged(q)'
  BY <1>1, <1>2, <1>4 DEF Merged, FrameBecomes, OwnsLock
<1> QED
  BY <1>1, <1>2, <1>3, <1>4

\* A display frame that still owns the lock brings back no older route for good:
\* whoever wrote meanwhile has lost the lock and will write once more.
LEMMA RenameKeeps ==
  ASSUME SidebarTypes, SidebarInv, NEW p \in Writers, NEW x, FrameBecomes(p, x),
         UNCHANGED lockDir, Is(p, "rename"), x.at = "check",
         x.kind = Frame(p).kind, x.route = Frame(p).route,
         routeFile' = Frame(p).copy,
         routed'.route = IF Frame(p).kind = "route" THEN Frame(p).route ELSE routed.route,
         spoiled' = IF Frame(p).kind = "display" /\ ~OwnsLock(p) THEN spoiled \cup {"late"}
                    ELSE spoiled
  PROVE  SidebarInv'
<1> SUFFICES ASSUME spoiled' = {}
             PROVE  /\ \A q, r \in lockDir'.owners : q = r
                    /\ (routeFile = routed.route)' \/ RepairComes'
                    /\ \A q \in Writers : Merged(q)'
  BY DEF SidebarInv
<1>1. spoiled = {} /\ (Frame(p).kind = "display" => OwnsLock(p))
  OBVIOUS
<1>2. /\ \A q, r \in lockDir.owners : q = r
      /\ routeFile = routed.route \/ RepairComes
      /\ \A q \in Writers : Merged(q)
  BY <1>1 DEF SidebarInv
<1>3. Frame(p).kind \in FrameKinds
  BY DEF SidebarTypes, Frame, FrameRecord, WriterRecord
<1>4. CASE Frame(p).kind = "display"
  <2>1. ~Repairing(p)
    BY <1>4 DEF Repairing
  <2>2. RepairComes => RepairComes'
    BY <1>4, <2>1, RepairsStay
  <2>3. Frame(p).copy = routed.route \/ RepairComes
    BY <1>1, <1>2, <1>4 DEF Merged, Is
  <2>4. ASSUME NEW q \in Writers
        PROVE  Merged(q)'
    BY <1>2, <1>4, <2>2 DEF Merged, FrameBecomes, OwnsLock
  <2> QED
    BY <1>2, <1>4, <2>2, <2>3, <2>4
<1>5. CASE Frame(p).kind = "route"
  <2>1. Frame(p).copy = Frame(p).route
    BY <1>2, <1>5 DEF Merged, Is
  <2>2. p \notin lockDir.owners => RepairComes'
    <3>1. p \notin lockDir.owners => Repairing(p)'
      BY <1>5 DEF Repairing, FrameBecomes, Is, OwnsLock
    <3> QED
      BY <3>1 DEF RepairComes
  <2>3. ASSUME NEW q \in Writers
        PROVE  Merged(q)'
    BY <1>2, <1>5, <2>2 DEF Merged, FrameBecomes, OwnsLock
  <2> QED
    BY <1>2, <1>5, <2>1, <2>3
<1> QED
  BY <1>3, <1>4, <1>5 DEF FrameKinds

LEMMA LockSteps ==
  ASSUME SidebarTypes, SidebarInv, NEW p \in Writers,
         MakeDir(p) \/ SeesStale(p) \/ Evict(p) \/ OutOfBudget(p)
  PROVE  SidebarTypes' /\ SidebarInv'
<1>1. UNCHANGED <<routeFile, routed>> /\ spoiled \subseteq spoiled'
  BY DEF MakeDir, SeesStale, Evict, OutOfBudget, Dropped
<1>2. lockDir' \in DirRecord /\ lockDir'.owners \subseteq lockDir.owners
  BY SidebarValues DEF MakeDir, SeesStale, Evict, OutOfBudget, SidebarTypes
<1>3. CASE \E place \in {"lock", "own", "evict"} : To(p, place) /\ Frame(p).at \in {"lock", "evict"}
  <2>1. PICK place \in {"lock", "own", "evict"} : To(p, place)
    BY <1>3
  <2>2. PICK x : /\ FrameBecomes(p, x) /\ x.at = place /\ x.kind = Frame(p).kind
                 /\ x.route = Frame(p).route /\ x.again = Frame(p).again
    BY <2>1, FrameGoes DEF FramePlaces
  <2>3. Repairing(p) => Again(x, p)
    BY <1>3, <2>2 DEF Repairing, Again, Is
  <2>4. SidebarInv'
    BY <1>1, <1>2, <2>2, <2>3, FrameStepKeeps
  <2>5. SidebarTypes'
    BY <1>1, <1>2, <2>2 DEF SidebarTypes, FrameBecomes
  <2> QED
    BY <2>4, <2>5
<1>4. CASE OutOfBudget(p)
  <2>1. FrameBecomes(p, NoFrame)
    BY <1>4, FrameEnds DEF OutOfBudget
  <2>2. Repairing(p) => spoiled' # {}
    BY <1>4 DEF OutOfBudget, Repairing, Is, Dropped
  <2>3. SidebarInv'
    BY <1>1, <1>2, <2>1, <2>2, SidebarValues, FrameStepKeeps
  <2>4. SidebarTypes'
    BY <1>1, <1>2, <2>1 DEF SidebarTypes, FrameBecomes
  <2> QED
    BY <2>3, <2>4
<1> QED
  BY <1>3, <1>4 DEF MakeDir, SeesStale, Evict, Is

LEMMA OwnSteps ==
  ASSUME SidebarTypes, SidebarInv, NEW p \in Writers, PutOwner(p)
  PROVE  SidebarTypes' /\ SidebarInv'
<1>1. UNCHANGED <<routeFile, routed>> /\ spoiled \subseteq spoiled' /\ Is(p, "own")
  BY DEF PutOwner, Dropped
<1>2. CASE lockDir.there /\ PutOwner(p)
  <2>1. lockDir' = [lockDir EXCEPT !.owners = lockDir.owners \cup {p}] /\ To(p, "merge")
    BY <1>2 DEF PutOwner
  <2>2. lockDir' \in DirRecord /\ lockDir'.owners = lockDir.owners \cup {p}
    BY <2>1 DEF SidebarTypes, DirRecord
  <2>3. lockDir.owners # {} => spoiled' # {}
    BY <1>2 DEF PutOwner
  <2>4. PICK x : /\ FrameBecomes(p, x) /\ x.at = "merge" /\ x.kind = Frame(p).kind
                 /\ x.route = Frame(p).route /\ x.again = Frame(p).again
    BY <2>1, FrameGoes DEF FramePlaces
  <2>5. SidebarInv'
    BY <1>1, <2>2, <2>3, <2>4, OwnerKeeps
  <2>6. SidebarTypes'
    BY <1>1, <2>2, <2>4 DEF SidebarTypes, FrameBecomes
  <2> QED
    BY <2>5, <2>6
<1>3. CASE ~lockDir.there
  <2>1. FrameBecomes(p, NoFrame) /\ UNCHANGED lockDir /\ spoiled' = Dropped(p)
    BY <1>3, FrameEnds DEF PutOwner
  <2>2. Repairing(p) => spoiled' # {}
    BY <1>1, <2>1 DEF Repairing, Is, Dropped
  <2>3. SidebarInv'
    BY <1>1, <2>1, <2>2, SidebarValues, FrameStepKeeps
  <2>4. SidebarTypes'
    BY <1>1, <2>1 DEF SidebarTypes, FrameBecomes
  <2> QED
    BY <2>3, <2>4
<1> QED
  BY <1>2, <1>3

LEMMA WriteSteps ==
  ASSUME SidebarTypes, SidebarInv, NEW p \in Writers, MergeFrame(p) \/ FenceWrite(p) \/ Rename(p)
  PROVE  SidebarTypes' /\ SidebarInv'
<1>1. Frame(p) \in FrameRecord /\ UNCHANGED lockDir /\ routeFile \in Nat /\ spoiled \subseteq spoiled'
  BY DEF SidebarTypes, WriterRecord, Frame, MergeFrame, FenceWrite, Rename, Dropped
<1>2. CASE MergeFrame(p)
  <2> DEFINE copy == IF Frame(p).kind = "route" THEN Frame(p).route ELSE routeFile
             x == [Frame(p) EXCEPT !.at = "write", !.copy = copy]
  <2>1. copy \in Nat
    BY <1>1 DEF FrameRecord
  <2> HIDE DEF copy
  <2>2. /\ x \in FrameRecord /\ x.at = "write" /\ x.kind = Frame(p).kind /\ x.copy = copy
        /\ x.route = Frame(p).route /\ x.again = Frame(p).again
    BY <1>1, <2>1 DEF FrameRecord, FramePlaces
  <2>3. writer' = [writer EXCEPT ![p].frame = x]
    BY <1>2 DEF MergeFrame, Frame, SidebarTypes, WriterRecord, copy
  <2> HIDE DEF x
  <2>4. FrameBecomes(p, x)
    BY <2>2, <2>3, FrameMoves
  <2>5. SidebarInv'
    BY <1>2, <2>2, <2>4, MergeKeeps DEF MergeFrame, copy
  <2>6. SidebarTypes'
    BY <1>2, <2>4 DEF SidebarTypes, FrameBecomes, MergeFrame
  <2> QED
    BY <2>5, <2>6
<1>3. CASE FenceWrite(p)
  <2>1. UNCHANGED <<routeFile, routed>> /\ Is(p, "write")
    BY <1>3 DEF FenceWrite
  <2>2. CASE To(p, "rename")
    <3>1. PICK x : /\ FrameBecomes(p, x) /\ x.at = "rename" /\ x.kind = Frame(p).kind
                   /\ x.route = Frame(p).route /\ x.again = Frame(p).again /\ x.copy = Frame(p).copy
      BY <2>2, FrameGoes DEF FramePlaces
    <3>2. Repairing(p) => Again(x, p)
      BY <2>1, <3>1 DEF Repairing, Again, Is
    <3>3. SidebarInv'
      BY <1>1, <2>1, <3>1, <3>2, FrameStepKeeps DEF Is
    <3>4. SidebarTypes'
      BY <1>1, <2>1, <3>1 DEF SidebarTypes, FrameBecomes
    <3> QED
      BY <3>3, <3>4
  <2>3. CASE Ends(p) /\ spoiled' = Dropped(p)
    <3>1. FrameBecomes(p, NoFrame)
      BY <2>3, FrameEnds
    <3>2. Repairing(p) => spoiled' # {}
      BY <2>1, <2>3 DEF Repairing, Is, Dropped
    <3>3. SidebarInv'
      BY <1>1, <2>1, <3>1, <3>2, SidebarValues, FrameStepKeeps
    <3>4. SidebarTypes'
      BY <1>1, <2>1, <3>1 DEF SidebarTypes, FrameBecomes
    <3> QED
      BY <3>3, <3>4
  <2> QED
    BY <1>3, <2>2, <2>3 DEF FenceWrite
<1>4. CASE Rename(p)
  <2>1. PICK x : /\ FrameBecomes(p, x) /\ x.at = "check" /\ x.kind = Frame(p).kind
                 /\ x.route = Frame(p).route
    BY <1>4, FrameGoes DEF Rename, FramePlaces
  <2>2. /\ routed' \in [route : Nat, requests : Nat]
        /\ routed'.route = IF Frame(p).kind = "route" THEN Frame(p).route ELSE routed.route
    BY <1>1, <1>4 DEF Rename, SidebarTypes, FrameRecord
  <2>3. SidebarInv'
    BY <1>4, <2>1, <2>2, RenameKeeps DEF Rename
  <2>4. SidebarTypes'
    BY <1>1, <1>4, <2>1, <2>2 DEF SidebarTypes, FrameBecomes, Rename, FrameRecord
  <2> QED
    BY <2>3, <2>4
<1> QED
  BY <1>2, <1>3, <1>4

LEMMA CheckFrameSteps ==
  ASSUME SidebarTypes, SidebarInv, NEW p \in Writers, CheckFrame(p)
  PROVE  SidebarTypes' /\ SidebarInv'
<1>1. /\ Frame(p) \in FrameRecord /\ UNCHANGED <<lockDir, routeFile, routed>> /\ Is(p, "check")
      /\ spoiled \subseteq spoiled'
  BY DEF SidebarTypes, WriterRecord, Frame, CheckFrame, Dropped
<1>2. CASE OwnsLock(p)
  <2>1. To(p, "release")
    BY <1>2 DEF CheckFrame, Written
  <2>2. PICK x : FrameBecomes(p, x) /\ x.at = "release"
    BY <2>1, FrameGoes DEF FramePlaces
  <2>3. ~Repairing(p)
    BY <1>1, <1>2 DEF Repairing, Is
  <2>4. SidebarInv'
    BY <1>1, <2>2, <2>3, FrameStepKeeps
  <2>5. SidebarTypes'
    BY <1>1, <2>2 DEF SidebarTypes, FrameBecomes
  <2> QED
    BY <2>4, <2>5
<1>3. CASE ~OwnsLock(p) /\ Frame(p).again
  <2>1. FrameBecomes(p, NoFrame) /\ spoiled' # {}
    BY <1>3, FrameEnds DEF CheckFrame, Written, Dropped
  <2>2. SidebarInv'
    BY <2>1 DEF SidebarInv
  <2>3. SidebarTypes'
    BY <1>1, <2>1 DEF SidebarTypes, FrameBecomes
  <2> QED
    BY <2>2, <2>3
<1>4. CASE ~OwnsLock(p) /\ ~Frame(p).again
  <2> DEFINE yes == TRUE
             x == [Frame(p) EXCEPT !.at = "lock", !.again = yes]
  <2>1. yes \in BOOLEAN /\ yes
    OBVIOUS
  <2>a. writer' = [writer EXCEPT ![p].frame.at = "lock", ![p].frame.again = yes]
    BY <1>4 DEF CheckFrame, Written
  <2> HIDE DEF yes
  <2>2. writer' = [writer EXCEPT ![p].frame = x]
    BY <2>1, <2>a, WrittenAgain
  <2>3. /\ x \in FrameRecord /\ x.at = "lock" /\ x.kind = Frame(p).kind
        /\ x.route = Frame(p).route
    BY <1>1, <2>1 DEF FrameRecord, FramePlaces
  <2>4. x.again
    BY <1>1, <2>1 DEF FrameRecord
  <2> HIDE DEF x
  <2>5. FrameBecomes(p, x)
    BY <2>2, <2>3, FrameMoves
  <2>6. SidebarInv'
    BY <1>1, <2>3, <2>4, <2>5, FrameStepKeeps DEF Again
  <2>7. SidebarTypes'
    BY <1>1, <2>5 DEF SidebarTypes, FrameBecomes
  <2> QED
    BY <2>6, <2>7
<1> QED
  BY <1>2, <1>3, <1>4

LEMMA ReleaseSteps ==
  ASSUME SidebarTypes, SidebarInv, NEW p \in Writers, Unlink(p) \/ RemoveDir(p) \/ WriterCrash(p)
  PROVE  SidebarTypes' /\ SidebarInv'
<1>1. UNCHANGED <<routeFile, routed>> /\ spoiled \subseteq spoiled'
  BY DEF Unlink, RemoveDir, WriterCrash
<1>2. lockDir' \in DirRecord /\ lockDir'.owners \subseteq lockDir.owners
  <2>1. CASE Unlink(p)
    BY <2>1 DEF Unlink, SidebarTypes, DirRecord
  <2>2. CASE RemoveDir(p)
    BY <2>2, SidebarValues DEF RemoveDir, SidebarTypes
  <2>3. CASE WriterCrash(p)
    <3> DEFINE r == lockDir.remains \/ OwnsLock(p)
    <3>1. r \in BOOLEAN
      OBVIOUS
    <3>2. lockDir' = [lockDir EXCEPT !.owners = lockDir.owners \ {p}, !.remains = r]
      BY <2>3 DEF WriterCrash
    <3> HIDE DEF r
    <3> QED
      BY <3>1, <3>2 DEF SidebarTypes, DirRecord
  <2> QED
    BY <2>1, <2>2, <2>3
<1>3. Repairing(p) => spoiled' # {}
  BY DEF Repairing, Is, Unlink, RemoveDir, WriterCrash
<1>4. PICK x : FrameBecomes(p, x) /\ x.at \in {"idle", "rmdir"}
  <2>1. CASE Ends(p)
    BY <2>1, FrameEnds, SidebarValues
  <2>2. CASE To(p, "rmdir")
    BY <2>2, FrameGoes DEF FramePlaces
  <2> QED
    BY <2>1, <2>2 DEF Unlink, RemoveDir, WriterCrash
<1>5. SidebarInv'
  BY <1>1, <1>2, <1>3, <1>4, FrameStepKeeps
<1>6. SidebarTypes'
  BY <1>1, <1>2, <1>4 DEF SidebarTypes, FrameBecomes
<1> QED
  BY <1>5, <1>6

LEMMA BeginSteps ==
  ASSUME SidebarAssumption, SidebarTypes, SidebarInv,
         NEW p \in Writers, NEW kind \in FrameKinds, BeginWrite(p, kind)
  PROVE  SidebarTypes' /\ SidebarInv'
<1> DEFINE route == IF kind = "route" THEN routed.requests + 1 ELSE 0
           x == [NoFrame EXCEPT !.at = "lock", !.kind = kind, !.route = route]
           l == [writer[p].left EXCEPT ![kind] = writer[p].left[kind] - 1]
<1>1. route \in Nat /\ (kind = "route" => route = routed.requests + 1)
  BY DEF SidebarTypes
<1>2. /\ Is(p, "idle") /\ writer[p].left[kind] > 0
      /\ UNCHANGED <<lockDir, routeFile, spoiled>>
      /\ routed' = IF kind = "route" THEN [routed EXCEPT !.requests = route] ELSE routed
  BY DEF BeginWrite
<1>3. writer' = [writer EXCEPT ![p].left[kind] = writer[p].left[kind] - 1, ![p].frame = x]
  BY DEF BeginWrite
<1> HIDE DEF route
<1>4. routed' \in [route : Nat, requests : Nat] /\ routed'.route = routed.route
  BY <1>1, <1>2 DEF SidebarTypes
<1>5. x \in FrameRecord /\ x.at = "lock"
  BY <1>1 DEF NoFrame, FrameRecord, FramePlaces, FrameKinds
<1>6. l \in [FrameKinds -> Nat]
  BY <1>2 DEF SidebarTypes, WriterRecord
<1> HIDE DEF x
<1>7. writer' = [writer EXCEPT ![p] = [writer[p] EXCEPT !.left = l, !.frame = x]]
  BY <1>3 DEF SidebarTypes, WriterRecord
<1> HIDE DEF l
<1>8. FrameBecomes(p, x)
  BY <1>5, <1>6, <1>7 DEF SidebarTypes, WriterRecord, FrameBecomes, Frame
<1>9. ~Repairing(p)
  BY <1>2 DEF Repairing, Is
<1>10. SidebarInv'
  BY <1>2, <1>4, <1>5, <1>8, <1>9, FrameStepKeeps DEF SidebarTypes, DirRecord
<1>11. SidebarTypes'
  BY <1>2, <1>4, <1>8 DEF SidebarTypes, FrameBecomes
<1> QED
  BY <1>10, <1>11

LEMMA AgesSteps ==
  ASSUME SidebarTypes, SidebarInv, Ages
  PROVE  SidebarTypes' /\ SidebarInv'
<1> DEFINE yes == TRUE
<1>1. yes \in BOOLEAN /\ lockDir' = [lockDir EXCEPT !.old = yes]
      /\ UNCHANGED <<routeFile, writer, routed, spoiled>>
  BY DEF Ages
<1> HIDE DEF yes
<1>2. lockDir' \in DirRecord /\ lockDir'.owners = lockDir.owners
  BY <1>1 DEF SidebarTypes, DirRecord
<1>3. SidebarTypes'
  BY <1>1, <1>2 DEF SidebarTypes
<1>4. \A q \in Writers : (Repairing(q) <=> Repairing(q)') /\ Frame(q)' = Frame(q)
  BY <1>1, <1>2 DEF Repairing, Is, OwnsLock, Frame
<1>5. SidebarInv'
  BY <1>1, <1>2, <1>4 DEF SidebarInv, Merged, RepairComes, OwnsLock
<1> QED
  BY <1>3, <1>5

LEMMA SidebarSteps ==
  ASSUME SidebarAssumption, SidebarTypes, SidebarInv, [SidebarNext]_sidebarVars
  PROVE  SidebarTypes' /\ SidebarInv'
<1>1. CASE UNCHANGED sidebarVars
  <2>1. UNCHANGED <<lockDir, routeFile, writer, routed, spoiled>>
    BY <1>1 DEF sidebarVars
  <2>2. \A q \in Writers : (Repairing(q) <=> Repairing(q)') /\ Frame(q)' = Frame(q)
    BY <2>1 DEF Repairing, Is, OwnsLock, Frame
  <2> QED
    BY <2>1, <2>2 DEF SidebarTypes, SidebarInv, Merged, RepairComes, OwnsLock
<1>2. CASE Ages
  BY <1>2, AgesSteps
<1>3. ASSUME NEW p \in Writers, NEW kind \in FrameKinds, BeginWrite(p, kind)
      PROVE  SidebarTypes' /\ SidebarInv'
  BY <1>3, BeginSteps
<1>4. ASSUME NEW p \in Writers, MakeDir(p) \/ SeesStale(p) \/ Evict(p) \/ OutOfBudget(p)
      PROVE  SidebarTypes' /\ SidebarInv'
  BY <1>4, LockSteps
<1>5. ASSUME NEW p \in Writers, PutOwner(p) PROVE SidebarTypes' /\ SidebarInv'
  BY <1>5, OwnSteps
<1>6. ASSUME NEW p \in Writers, MergeFrame(p) \/ FenceWrite(p) \/ Rename(p)
      PROVE  SidebarTypes' /\ SidebarInv'
  BY <1>6, WriteSteps
<1>7. ASSUME NEW p \in Writers, CheckFrame(p) PROVE SidebarTypes' /\ SidebarInv'
  BY <1>7, CheckFrameSteps
<1>8. ASSUME NEW p \in Writers, Unlink(p) \/ RemoveDir(p) \/ WriterCrash(p)
      PROVE  SidebarTypes' /\ SidebarInv'
  BY <1>8, ReleaseSteps
<1> QED
  BY <1>1, <1>2, <1>3, <1>4, <1>5, <1>6, <1>7, <1>8 DEF SidebarNext

LEMMA SidebarInvHolds == SidebarSpec => [](SidebarTypes /\ SidebarInv)
<1>1. SidebarInit => SidebarTypes /\ SidebarInv
  <2> SUFFICES ASSUME SidebarInit PROVE SidebarTypes /\ SidebarInv
    OBVIOUS
  <2>1. SidebarTypes
    BY SidebarAssumption, SidebarValues
       DEF SidebarInit, SidebarTypes, SidebarAssumption, WriterRecord
  <2>2. \A q \in Writers : Frame(q) = NoFrame
    BY DEF SidebarInit, Frame
  <2>3. SidebarInv
    BY <2>2, SidebarValues DEF SidebarInit, SidebarInv, Merged
  <2> QED
    BY <2>1, <2>3
<1>2. SidebarTypes /\ SidebarInv /\ [SidebarNext]_sidebarVars => (SidebarTypes /\ SidebarInv)'
  BY SidebarSteps, SidebarAssumption
<1> QED
  BY <1>1, <1>2, PTL DEF SidebarSpec

\* Once every frame is done the sidebar's file shows the route of the last
\* request to write it, for any processes and any number of frames: a request
\* whose lock was taken away around its rename is still going to write again
\* whenever the file shows another route.
THEOREM RouteComesBack == SidebarSpec => []RouteSurvives
<1>1. SidebarTypes /\ SidebarInv => RouteSurvives
  BY DEF SidebarInv, RouteSurvives, RepairComes, Repairing, Is
<1> QED
  BY <1>1, SidebarInvHolds, PTL

-----------------------------------------------------------------------------
(* The quota window.                                                           *)

TickPlaces == {"idle", "look", "poll", "claim", "check", "fire"}
TickRecord == [at : TickPlaces, reset : Nat, claim : Nat]
PrimerRecord ==
  [up : BOOLEAN, stopped : BOOLEAN, off : BOOLEAN, lease : Nat, old : SUBSET Nat, tick : TickRecord]
PrimeTypes ==
  /\ window \in [open : BOOLEAN, ended : Nat, recalls : BOOLEAN, failures : Nat]
  /\ stored \in Nat /\ markers \subseteq Nat /\ enabled \in BOOLEAN /\ spent \in Nat
  /\ primer \in [Primers -> PrimerRecord]

\* A tick that holds the marker of the last reset.
Holds(p) == primer[p].tick.at \in {"check", "fire"}

\* A tick takes the stored reset of a window that ended, and claims the last.
TickTells(p) ==
  /\ primer[p].tick.reset <= window.ended
  /\ window.recalls /\ primer[p].tick.at \in {"claim", "check", "fire"} =>
       primer[p].tick.claim = window.ended

\* One tick at a time holds the last reset's marker; while it does, and once the
\* request is sent, the marker is there.
MarkerGuards ==
  window.recalls =>
    /\ spent <= 1
    /\ \A p, q \in Primers : Holds(p) /\ Holds(q) => p = q
    /\ \A p \in Primers : Holds(p) => window.ended \in markers /\ spent = 0
    /\ spent = 1 => window.ended \in markers

PrimeInv == PrimeTypes /\ MarkerGuards /\ \A p \in Primers : TickTells(p)

\* A primer's tick is replaced.
TickBecomes(p, x) ==
  /\ primer[p].tick' = x /\ x \in TickRecord
  /\ \A q \in Primers \ {p} : primer[q].tick' = primer[q].tick
  /\ primer' \in [Primers -> PrimerRecord]

LEMMA RestingTick ==
  /\ Resting \in TickRecord /\ Resting.at = "idle" /\ Resting.reset = 0 /\ Resting.claim = 0
BY DEF Resting, TickRecord, TickPlaces

LEMMA PrimerValues == NewPrimer \in PrimerRecord /\ NewPrimer.tick = Resting
<1> DEFINE yes == TRUE
           no == FALSE
<1>1. yes \in BOOLEAN /\ no \in BOOLEAN
  OBVIOUS
<1>2. NewPrimer = [up |-> yes, stopped |-> no, off |-> no, lease |-> 1, old |-> {}, tick |-> Resting]
  BY DEF NewPrimer
<1> HIDE DEF yes, no
<1> QED
  BY <1>1, <1>2, RestingTick DEF PrimerRecord

LEMMA TickMoves ==
  ASSUME PrimeTypes, NEW p \in Primers, NEW x \in TickRecord,
         primer' = [primer EXCEPT ![p].tick = x]
  PROVE  TickBecomes(p, x)
BY DEF PrimeTypes, PrimerRecord, TickBecomes

LEMMA TickGoes ==
  ASSUME PrimeTypes, NEW p \in Primers, NEW place \in TickPlaces, Moved(p, place)
  PROVE  \E x : /\ TickBecomes(p, x) /\ x.at = place
                /\ x.reset = primer[p].tick.reset /\ x.claim = primer[p].tick.claim
<1> DEFINE x == [primer[p].tick EXCEPT !.at = place]
<1>1. primer[p].tick \in TickRecord
  BY DEF PrimeTypes, PrimerRecord
<1>2. /\ x \in TickRecord /\ x.at = place
      /\ x.reset = primer[p].tick.reset /\ x.claim = primer[p].tick.claim
  BY <1>1 DEF TickRecord
<1>3. primer' = [primer EXCEPT ![p].tick = x]
  BY DEF Moved, PrimeTypes, PrimerRecord
<1> HIDE DEF x
<1> QED
  BY <1>2, <1>3, TickMoves

\* A primer is replaced and its tick is not.
LEMMA PrimerMoves ==
  ASSUME PrimeTypes, NEW p \in Primers, NEW x \in PrimerRecord, x.tick = primer[p].tick,
         primer' = [primer EXCEPT ![p] = x]
  PROVE  TickBecomes(p, primer[p].tick)
BY DEF PrimeTypes, PrimerRecord, TickBecomes

\* A step of one tick that neither takes nor leaves a marker.
LEMMA TickKeeps ==
  ASSUME PrimeInv, NEW p \in Primers, NEW x, TickBecomes(p, x),
         UNCHANGED <<window, stored, markers, enabled, spent>>,
         x.reset <= window.ended,
         x.at \in {"check", "fire"} => Holds(p),
         window.recalls /\ x.at \in {"claim", "check", "fire"} => x.claim = window.ended
  PROVE  PrimeInv'
<1>1. PrimeTypes'
  BY DEF PrimeInv, PrimeTypes, TickBecomes
<1>2. \A q \in Primers : Holds(q)' => Holds(q)
  BY DEF Holds, TickBecomes
<1>3. MarkerGuards'
  BY <1>2 DEF PrimeInv, MarkerGuards
<1>4. \A q \in Primers : TickTells(q)'
  BY DEF PrimeInv, TickTells, TickBecomes
<1> QED
  BY <1>1, <1>3, <1>4 DEF PrimeInv

\* A tick ends.
LEMMA RestKeeps ==
  ASSUME PrimeInv, NEW p \in Primers, Rest(p),
         UNCHANGED <<window, stored, markers, enabled, spent>>
  PROVE  PrimeInv'
<1>1. PrimeTypes
  BY DEF PrimeInv
<1>2. TickBecomes(p, Resting)
  BY <1>1, RestingTick, TickMoves DEF Rest
<1>3. Resting.reset <= window.ended
  BY <1>1, RestingTick DEF PrimeTypes
<1> QED
  BY <1>2, <1>3, RestingTick, TickKeeps

\* A step that changes a primer but not its tick.
LEMMA ManagerKeeps ==
  ASSUME PrimeInv, NEW p \in Primers, NEW x \in PrimerRecord, x.tick = primer[p].tick,
         primer' = [primer EXCEPT ![p] = x],
         UNCHANGED <<window, stored, markers, spent>>, enabled' \in BOOLEAN
  PROVE  PrimeInv'
<1>1. TickBecomes(p, primer[p].tick)
  BY PrimerMoves DEF PrimeInv
<1>2. \A q \in Primers : primer[q].tick' = primer[q].tick
  BY <1>1 DEF TickBecomes
<1>3. PrimeTypes'
  BY <1>1 DEF PrimeInv, PrimeTypes, TickBecomes
<1> QED
  BY <1>2, <1>3 DEF PrimeInv, MarkerGuards, Holds, TickTells

LEMMA TickSteps ==
  ASSUME PrimeInv, NEW p \in Primers, Tick(p)
  PROVE  PrimeInv'
<1>0. PrimeTypes /\ TickTells(p) /\ primer[p].tick \in TickRecord /\ primer[p] \in PrimerRecord
  BY DEF PrimeInv, PrimeTypes, PrimerRecord
<1> DEFINE y == [at |-> "look", reset |-> stored, claim |-> 0]
<1>1. y \in TickRecord /\ y.reset <= window.ended /\ y.at = "look"
  BY <1>0 DEF Tick, Due, TickRecord, TickPlaces, PrimeTypes
<1>2. primer' = [primer EXCEPT ![p].tick = y]
  BY DEF Tick
<1> HIDE DEF y
<1>3. PICK x \in TickRecord : /\ x.reset <= window.ended /\ x.at = "look"
                              /\ primer' = [primer EXCEPT ![p].tick = x]
  BY <1>1, <1>2
<1>4. TickBecomes(p, x)
  BY <1>0, <1>3, TickMoves
<1>5. UNCHANGED <<window, stored, markers, enabled, spent>>
  BY DEF Tick
<1> QED
  BY <1>3, <1>4, <1>5, TickKeeps

LEMMA LookSteps ==
  ASSUME PrimeInv, NEW p \in Primers, LookForMarker(p)
  PROVE  PrimeInv'
<1>0. PrimeTypes /\ TickTells(p) /\ primer[p].tick \in TickRecord /\ primer[p] \in PrimerRecord
  BY DEF PrimeInv, PrimeTypes, PrimerRecord
<1>1. CASE Rest(p)
  BY <1>1, RestKeeps DEF LookForMarker
<1>2. CASE Moved(p, "poll")
  <2>1. PICK x : TickBecomes(p, x) /\ x.at = "poll" /\ x.reset = primer[p].tick.reset
    BY <1>0, <1>2, TickGoes DEF TickPlaces
  <2> QED
    BY <1>0, <2>1, TickKeeps DEF LookForMarker, TickTells
<1> QED
  BY <1>1, <1>2 DEF LookForMarker

LEMMA PollTickSteps ==
  ASSUME PrimeInv, NEW p \in Primers, PollQuota(p)
  PROVE  PrimeInv'
<1>0. PrimeTypes /\ TickTells(p) /\ primer[p].tick \in TickRecord /\ primer[p] \in PrimerRecord
  BY DEF PrimeInv, PrimeTypes, PrimerRecord
<1>1. CASE Rest(p)
  BY <1>1, RestKeeps DEF PollQuota
<1>2. CASE ~Rest(p)
  <2> DEFINE reset == IF Report # 0 THEN Report ELSE primer[p].tick.reset
             y == [primer[p].tick EXCEPT !.at = "claim", !.claim = reset]
  <2>1. ~window.open /\ primer' = [primer EXCEPT ![p].tick.at = "claim", ![p].tick.claim = reset]
    BY <1>2 DEF PollQuota
  <2>2. reset \in Nat /\ (window.recalls => reset = window.ended)
    BY <1>0, <2>1 DEF Report, PrimeTypes, TickTells, TickRecord
  <2> HIDE DEF reset
  <2>3. y \in TickRecord /\ y.at = "claim" /\ y.reset = primer[p].tick.reset /\ y.claim = reset
    BY <1>0, <2>2 DEF TickRecord, TickPlaces
  <2>4. primer' = [primer EXCEPT ![p].tick = y]
    BY <1>0, <2>1 DEF PrimeTypes, PrimerRecord
  <2> HIDE DEF y
  <2>5. PICK x \in TickRecord : /\ x.reset <= window.ended /\ x.at = "claim"
                                /\ window.recalls => x.claim = window.ended
                                /\ primer' = [primer EXCEPT ![p].tick = x]
    BY <1>0, <2>2, <2>3, <2>4 DEF TickTells
  <2>6. PrimeTypes /\ x \in TickRecord /\ primer' = [primer EXCEPT ![p].tick = x]
    BY <1>0, <2>5
  <2>7. TickBecomes(p, x)
    BY <2>6, TickMoves
  <2>8. /\ UNCHANGED <<window, stored, markers, enabled, spent>>
        /\ x.reset <= window.ended /\ x.at \notin {"check", "fire"}
        /\ window.recalls => x.claim = window.ended
    BY <2>5 DEF PollQuota
  <2> QED
    BY <2>7, <2>8, TickKeeps
<1> QED
  BY <1>1, <1>2

LEMMA ToggleSteps ==
  ASSUME PrimeInv, NEW p \in Primers, Toggle(p)
  PROVE  PrimeInv'
<1>0. PrimeTypes /\ TickTells(p) /\ primer[p].tick \in TickRecord /\ primer[p] \in PrimerRecord
  BY DEF PrimeInv, PrimeTypes, PrimerRecord
<1> DEFINE x == [primer[p] EXCEPT !.stopped = enabled, !.off = enabled]
<1>1. x \in PrimerRecord /\ x.tick = primer[p].tick
  BY <1>0 DEF PrimeTypes, PrimerRecord
<1>2. primer' = [primer EXCEPT ![p] = x] /\ enabled' \in BOOLEAN
  BY <1>0 DEF Toggle, PrimeTypes
<1> HIDE DEF x
<1> QED
  BY <1>0, <1>1, <1>2, ManagerKeeps DEF Toggle

LEMMA ReloadSteps ==
  ASSUME PrimeInv, NEW p \in Primers, Reload(p)
  PROVE  PrimeInv'
<1>0. PrimeTypes /\ TickTells(p) /\ primer[p].tick \in TickRecord /\ primer[p] \in PrimerRecord
  BY DEF PrimeInv, PrimeTypes, PrimerRecord
<1> DEFINE a == primer[p].stopped /\ ~enabled
           b == primer[p].off /\ ~enabled
           c == primer[p].lease + 1
           d == primer[p].old \cup {primer[p].lease}
           x == [primer[p] EXCEPT !.lease = c, !.old = d, !.stopped = a, !.off = b]
<1>1. a \in BOOLEAN /\ b \in BOOLEAN
  OBVIOUS
<1>2. c \in Nat /\ d \subseteq Nat
  BY <1>0 DEF PrimerRecord
<1>3. primer' = [primer EXCEPT ![p].lease = c, ![p].old = d, ![p].stopped = a, ![p].off = b]
  BY DEF Reload
<1> HIDE DEF a, b, c, d
<1>4. x \in PrimerRecord /\ x.tick = primer[p].tick
  BY <1>0, <1>1, <1>2 DEF PrimerRecord
<1>5. primer' = [primer EXCEPT ![p] = x]
  BY <1>0, <1>3 DEF PrimeTypes
<1> HIDE DEF x
<1>6. UNCHANGED <<window, stored, markers, enabled, spent>>
  BY DEF Reload
<1>7. enabled' \in BOOLEAN
  BY <1>0, <1>6 DEF PrimeTypes
<1> QED
  BY <1>4, <1>5, <1>6, <1>7, ManagerKeeps

LEMMA DisposeSteps ==
  ASSUME PrimeInv, NEW p \in Primers, NEW instance \in primer[p].old, DisposePrimer(p, instance)
  PROVE  PrimeInv'
<1>0. PrimeTypes /\ TickTells(p) /\ primer[p].tick \in TickRecord /\ primer[p] \in PrimerRecord
  BY DEF PrimeInv, PrimeTypes, PrimerRecord
<1> DEFINE a == primer[p].stopped \/ LastOfSlot(p, instance)
           x == [primer[p] EXCEPT !.old = primer[p].old \ {instance}, !.stopped = a]
<1>1. a \in BOOLEAN
  OBVIOUS
<1>2. primer' = [primer EXCEPT ![p].old = primer[p].old \ {instance}, ![p].stopped = a]
  BY DEF DisposePrimer
<1> HIDE DEF a
<1>3. x \in PrimerRecord /\ x.tick = primer[p].tick
  BY <1>0, <1>1 DEF PrimerRecord
<1>4. primer' = [primer EXCEPT ![p] = x]
  BY <1>0, <1>2 DEF PrimeTypes
<1> HIDE DEF x
<1> QED
  BY <1>0, <1>3, <1>4, ManagerKeeps DEF DisposePrimer, PrimeTypes

LEMMA CrashSteps ==
  ASSUME PrimeInv, NEW p \in Primers, PrimerCrash(p)
  PROVE  PrimeInv'
<1>0. PrimeTypes /\ TickTells(p) /\ primer[p].tick \in TickRecord /\ primer[p] \in PrimerRecord
  BY DEF PrimeInv, PrimeTypes, PrimerRecord
<1> DEFINE no == FALSE
           c == primer[p].lease + 1
           x == [NewPrimer EXCEPT !.up = no, !.lease = c]
<1>1. no \in BOOLEAN /\ primer' = [primer EXCEPT ![p] = x]
  BY DEF PrimerCrash
<1>2. c \in Nat
  BY <1>0 DEF PrimerRecord
<1> HIDE DEF no, c
<1>3. x \in PrimerRecord /\ x.tick = Resting
  BY <1>1, <1>2, PrimerValues DEF PrimerRecord
<1> HIDE DEF x
<1>4. TickBecomes(p, Resting)
  BY <1>0, <1>1, <1>3, RestingTick DEF TickBecomes, PrimeTypes
<1>5. Resting.reset <= window.ended /\ UNCHANGED <<window, stored, markers, enabled, spent>>
  BY <1>0, RestingTick DEF PrimerCrash, PrimeTypes
<1> QED
  BY <1>4, <1>5, RestingTick, TickKeeps

LEMMA StartPrimerSteps ==
  ASSUME PrimeInv, NEW p \in Primers, PrimerStarts(p)
  PROVE  PrimeInv'
<1>0. PrimeTypes /\ TickTells(p) /\ primer[p].tick \in TickRecord /\ primer[p] \in PrimerRecord
  BY DEF PrimeInv, PrimeTypes, PrimerRecord
<1> DEFINE yes == TRUE
           b == ~enabled
           x == [primer[p] EXCEPT !.up = yes, !.stopped = b, !.off = b]
<1>1. yes \in BOOLEAN /\ b \in BOOLEAN
  OBVIOUS
<1>2. primer' = [primer EXCEPT ![p].up = yes, ![p].stopped = b, ![p].off = b]
  BY DEF PrimerStarts
<1> HIDE DEF yes, b
<1>3. x \in PrimerRecord /\ x.tick = primer[p].tick
  BY <1>0, <1>1 DEF PrimerRecord
<1>4. primer' = [primer EXCEPT ![p] = x]
  BY <1>0, <1>2 DEF PrimeTypes
<1> HIDE DEF x
<1> QED
  BY <1>0, <1>3, <1>4, ManagerKeeps DEF PrimerStarts, PrimeTypes

\* A tick comes to hold the marker, keeps it, or lets it go.
LEMMA MarkerKeeps ==
  ASSUME PrimeInv, NEW p \in Primers, NEW x, TickBecomes(p, x),
         window' \in [open : BOOLEAN, ended : Nat, recalls : BOOLEAN, failures : Nat],
         window'.ended = window.ended, window'.recalls = window.recalls,
         UNCHANGED <<stored, enabled, spent>>, markers' \subseteq Nat,
         x.reset <= window.ended, x.at \in {"idle", "check", "fire"},
         window.recalls =>
           /\ x.at # "idle" => x.claim = window.ended /\ window.ended \in markers'
           /\ x.at # "idle" /\ ~Holds(p) => window.ended \notin markers
           /\ x.at = "idle" /\ ~Holds(p) => markers' = markers
  PROVE  PrimeInv'
<1>1. PrimeTypes'
  BY DEF PrimeInv, PrimeTypes, TickBecomes
<1>2. \A q \in Primers : TickTells(q)'
  BY DEF PrimeInv, TickTells, TickBecomes
<1>3. \A q \in Primers \ {p} : Holds(q)' <=> Holds(q)
  BY DEF Holds, TickBecomes
<1>4. Holds(p)' <=> x.at # "idle"
  BY DEF Holds, TickBecomes
<1>5. ASSUME window.recalls PROVE MarkerGuards'
  <2>1. CASE x.at = "idle" /\ ~Holds(p)
    BY <1>3, <1>4, <1>5, <2>1 DEF PrimeInv, MarkerGuards
  <2>2. CASE x.at = "idle" /\ Holds(p)
    <3>1. \A q \in Primers : ~Holds(q)'
      BY <1>3, <1>4, <1>5, <2>2 DEF PrimeInv, MarkerGuards
    <3>2. spent = 0
      BY <1>5, <2>2 DEF PrimeInv, MarkerGuards
    <3> QED
      BY <3>1, <3>2 DEF MarkerGuards
  <2>3. CASE x.at # "idle" /\ ~Holds(p)
    <3>1. (\A q \in Primers : ~Holds(q)) /\ spent = 0
      BY <1>5, <2>3 DEF PrimeInv, PrimeTypes, MarkerGuards
    <3> QED
      BY <1>3, <1>5, <2>3, <3>1 DEF MarkerGuards
  <2>4. CASE x.at # "idle" /\ Holds(p)
    BY <1>3, <1>4, <1>5, <2>4 DEF PrimeInv, MarkerGuards
  <2> QED
    BY <2>1, <2>2, <2>3, <2>4
<1>6. MarkerGuards'
  BY <1>5 DEF MarkerGuards
<1> QED
  BY <1>1, <1>2, <1>6 DEF PrimeInv

LEMMA ClaimSteps ==
  ASSUME PrimeInv, NEW p \in Primers, Claim(p)
  PROVE  PrimeInv'
<1>0. PrimeTypes /\ TickTells(p) /\ primer[p].tick \in TickRecord
  BY DEF PrimeInv, PrimeTypes, PrimerRecord
<1>1. CASE ~ResetClaimable(p)
  BY <1>1, RestKeeps DEF Claim
<1>2. CASE ResetClaimable(p)
  <2>1. Moved(p, "check") /\ primer[p].tick.at = "claim"
    BY <1>2 DEF Claim, PrimerAt
  <2>2. PICK x : /\ TickBecomes(p, x) /\ x.at = "check"
                 /\ x.reset = primer[p].tick.reset /\ x.claim = primer[p].tick.claim
    BY <1>0, <2>1, TickGoes DEF TickPlaces
  <2>3. /\ UNCHANGED <<window, stored, enabled, spent>> /\ markers' \subseteq Nat
        /\ primer[p].tick.claim \in markers' /\ primer[p].tick.claim \notin markers
    BY <1>0, <1>2 DEF Claim, ResetClaimable, PrimeTypes, TickRecord
  <2>4. window.recalls => primer[p].tick.claim = window.ended
    BY <1>0, <2>1 DEF TickTells
  <2> QED
    BY <1>0, <2>2, <2>3, <2>4, MarkerKeeps DEF PrimeTypes, TickTells
<1> QED
  BY <1>1, <1>2

LEMMA CheckTickSteps ==
  ASSUME PrimeInv, NEW p \in Primers, CheckClaim(p)
  PROVE  PrimeInv'
<1>0. PrimeTypes /\ TickTells(p) /\ primer[p].tick \in TickRecord
  BY DEF PrimeInv, PrimeTypes, PrimerRecord
<1>1. /\ UNCHANGED <<window, stored, enabled, spent>> /\ markers' \subseteq Nat
      /\ primer[p].tick.at = "check" /\ Holds(p)
  BY <1>0 DEF CheckClaim, PrimerAt, PrimeTypes, Holds
<1>2. CASE Rest(p)
  <2>1. TickBecomes(p, Resting)
    BY <1>0, <1>2, RestingTick, TickMoves DEF Rest
  <2> QED
    BY <1>0, <1>1, <2>1, RestingTick, MarkerKeeps DEF PrimeTypes
<1>3. CASE ~Rest(p)
  <2>1. /\ Moved(p, "fire")
        /\ markers' = IF primer[p].tick.claim = 0 THEN markers ELSE markers \ {0}
    BY <1>3 DEF CheckClaim
  <2>2. PICK x : /\ TickBecomes(p, x) /\ x.at = "fire"
                 /\ x.reset = primer[p].tick.reset /\ x.claim = primer[p].tick.claim
    BY <1>0, <2>1, TickGoes DEF TickPlaces
  <2>3. window.recalls => primer[p].tick.claim = window.ended /\ window.ended \in markers
    BY <1>0, <1>1 DEF PrimeInv, MarkerGuards, TickTells
  <2>4. window.recalls => window.ended \in markers'
    BY <2>1, <2>3
  <2> QED
    BY <1>0, <1>1, <2>2, <2>3, <2>4, MarkerKeeps DEF PrimeTypes, TickTells
<1> QED
  BY <1>2, <1>3

\* A tick ends without a request.
LEMMA GiveUpSteps ==
  ASSUME PrimeInv, NEW p \in Primers, Withdraw(p) \/ Refrain(p) \/ PrimeFails(p)
  PROVE  PrimeInv'
<1>0. PrimeTypes
  BY DEF PrimeInv
<1>1. /\ window' \in [open : BOOLEAN, ended : Nat, recalls : BOOLEAN, failures : Nat]
      /\ window'.ended = window.ended /\ window'.recalls = window.recalls
      /\ UNCHANGED <<stored, enabled, spent>> /\ markers' \subseteq Nat
      /\ ~Holds(p) => markers' = markers
  <2>1. CASE Withdraw(p)
    BY <1>0, <2>1 DEF Withdraw, PrimerAt, PrimeTypes, Holds
  <2>2. CASE Refrain(p) \/ PrimeFails(p)
    <3>1. UNCHANGED <<stored, enabled, spent, markers>> /\ Failing
      BY <2>2 DEF Refrain, PrimeFails
    <3> QED
      BY <1>0, <3>1 DEF Failing, PrimeTypes
  <2> QED
    BY <2>1, <2>2
<1>2. TickBecomes(p, Resting)
  BY <1>0, RestingTick, TickMoves DEF Withdraw, Refrain, PrimeFails, Rest
<1> QED
  BY <1>0, <1>1, <1>2, RestingTick, MarkerKeeps DEF PrimeTypes

LEMMA SendSteps ==
  ASSUME PrimeInv, NEW p \in Primers, SendPrime(p)
  PROVE  PrimeInv'
<1>0. PrimeTypes /\ Holds(p)
  BY DEF PrimeInv, SendPrime, PrimerAt, Holds
<1>1. /\ window' \in [open : BOOLEAN, ended : Nat, recalls : BOOLEAN, failures : Nat]
      /\ window'.ended = window.ended /\ window'.recalls = window.recalls
      /\ UNCHANGED <<stored, enabled, markers>> /\ spent' = spent + 1
  <2>1. PICK open \in {TRUE, window.open} : window' = [window EXCEPT !.open = open]
    BY DEF SendPrime
  <2>2. open \in BOOLEAN
    BY <1>0 DEF PrimeTypes
  <2> QED
    BY <1>0, <2>1, <2>2 DEF SendPrime, PrimeTypes
<1>2. TickBecomes(p, Resting)
  BY <1>0, RestingTick, TickMoves DEF SendPrime, Rest
<1>3. PrimeTypes'
  BY <1>0, <1>1, <1>2 DEF PrimeTypes, TickBecomes
<1>4. \A q \in Primers : TickTells(q)'
  BY <1>0, <1>1, <1>2, RestingTick DEF PrimeInv, PrimeTypes, TickTells, TickBecomes
<1>5. window.recalls => \A q \in Primers : ~Holds(q)'
  BY <1>0, <1>2, RestingTick DEF PrimeInv, MarkerGuards, Holds, TickBecomes
<1>6. MarkerGuards'
  BY <1>0, <1>1, <1>5 DEF PrimeInv, MarkerGuards
<1> QED
  BY <1>3, <1>4, <1>6 DEF PrimeInv

LEMMA WindowSteps ==
  ASSUME PrimeInv,
         StoreQuota \/ OtherRequest \/ WindowEnds \/ (\E reset \in markers : SweepMarker(reset))
  PROVE  PrimeInv'
<1>0. PrimeTypes /\ UNCHANGED primer
  BY DEF PrimeInv, StoreQuota, OtherRequest, WindowEnds, SweepMarker
<1>1. CASE StoreQuota
  BY <1>0, <1>1 DEF StoreQuota, Report, PrimeInv, PrimeTypes, MarkerGuards, Holds, TickTells
<1>2. CASE OtherRequest
  <2> DEFINE yes == TRUE
  <2>1. yes \in BOOLEAN /\ window' = [window EXCEPT !.open = yes]
    BY <1>2 DEF OtherRequest
  <2> HIDE DEF yes
  <2>2. /\ window' \in [open : BOOLEAN, ended : Nat, recalls : BOOLEAN, failures : Nat]
        /\ window'.ended = window.ended /\ window'.recalls = window.recalls
    BY <1>0, <2>1 DEF PrimeTypes
  <2> QED
    BY <1>0, <1>2, <2>2 DEF OtherRequest, PrimeInv, PrimeTypes, MarkerGuards, Holds, TickTells
<1>3. CASE WindowEnds
  <2> DEFINE no == FALSE
             n == window.ended + 1
  <2>1. no \in BOOLEAN /\ n \in Nat /\ window' = [window EXCEPT !.open = no, !.ended = n]
    BY <1>0, <1>3 DEF WindowEnds, PrimeTypes
  <2> HIDE DEF no
  <2>2. /\ window' \in [open : BOOLEAN, ended : Nat, recalls : BOOLEAN, failures : Nat]
        /\ window'.ended = window.ended + 1 /\ window'.recalls = window.recalls
    BY <1>0, <2>1 DEF PrimeTypes
  <2>3. \A q \in Primers : primer[q].tick.at \in {"idle", "look"} /\ primer[q].tick \in TickRecord
    BY <1>0, <1>3 DEF WindowEnds, Quiet, PrimeTypes, PrimerRecord
  <2>4. PrimeTypes' /\ MarkerGuards'
    BY <1>0, <1>3, <2>2, <2>3 DEF WindowEnds, PrimeTypes, MarkerGuards, Holds
  <2>5. \A q \in Primers : TickTells(q)'
    BY <1>0, <2>2, <2>3 DEF PrimeInv, PrimeTypes, TickTells, TickRecord
  <2> QED
    BY <2>4, <2>5 DEF PrimeInv
<1>4. CASE \E reset \in markers : SweepMarker(reset)
  <2>1. /\ UNCHANGED <<window, stored, enabled, primer>> /\ markers' \subseteq Nat /\ spent' = 0
        /\ \A q \in Primers : primer[q].tick.at \in {"idle", "look"}
    BY <1>0, <1>4 DEF SweepMarker, Quiet, PrimeTypes
  <2> QED
    BY <1>0, <2>1 DEF PrimeInv, PrimeTypes, MarkerGuards, Holds, TickTells
<1> QED
  BY <1>1, <1>2, <1>3, <1>4

LEMMA PrimeStarts ==
  ASSUME PrimeInit
  PROVE  PrimeInv
<1>0. /\ window \in [open : {FALSE}, ended : {0}, recalls : BOOLEAN, failures : {0}]
      /\ spent = 0 /\ stored = 0 /\ markers = {} /\ enabled \in BOOLEAN
  BY DEF PrimeInit
<1>1. /\ window \in [open : BOOLEAN, ended : Nat, recalls : BOOLEAN, failures : Nat]
      /\ window.ended = 0
  <2> DEFINE no == FALSE
  <2>1. no \in BOOLEAN /\ window \in [open : {no}, ended : {0}, recalls : BOOLEAN, failures : {0}]
    BY <1>0
  <2> HIDE DEF no
  <2> QED
    BY <2>1
<1>2. NewPrimer \in PrimerRecord /\ NewPrimer.tick = Resting
  BY PrimerValues
<1>3. primer = [p \in Primers |-> NewPrimer]
  BY DEF PrimeInit
<1>4. PrimeTypes
  BY <1>0, <1>1, <1>2, <1>3 DEF PrimeTypes
<1> QED
  BY <1>0, <1>1, <1>2, <1>3, <1>4, RestingTick DEF PrimeInv, MarkerGuards, Holds, TickTells

\* No window is asked for twice, for any processes, loads of the plugin and
\* failures, where the provider reports the last reset between windows: then
\* every tick claims the marker of the reset that ended the last window, one
\* tick at a time holds it, and it is there as long as the request counts.
THEOREM PrimedOnce == PrimeSpec => []OnePrimeAReset
<1>1. ASSUME PrimeInv, [PrimeNext]_primeVars PROVE PrimeInv'
  <2>1. CASE UNCHANGED primeVars
    BY <1>1, <2>1 DEF primeVars, PrimeInv, PrimeTypes, MarkerGuards, Holds, TickTells
  <2>2. CASE PrimeNext
    BY <1>1, <2>2, TickSteps, LookSteps, PollTickSteps, ToggleSteps, ReloadSteps, DisposeSteps, CrashSteps,
       StartPrimerSteps, ClaimSteps, CheckTickSteps, GiveUpSteps, SendSteps, WindowSteps DEF PrimeNext, TickStep
  <2> QED
    BY <1>1, <2>1, <2>2
<1>2. PrimeInv => OnePrimeAReset
  BY DEF PrimeInv, MarkerGuards, OnePrimeAReset
<1> QED
  BY <1>1, <1>2, PrimeStarts, PTL DEF PrimeSpec

-----------------------------------------------------------------------------
(* Message threads.                                                            *)

Said == Words \cup Replies
ThreadIds == ThreadRequests \cup {NoRequest}
AnchorRecord == [of : ThreadIds, messages : Seq(Said), reply : Replies \cup {"none"}]
TrackedRecord == [request : ThreadIds, anchor : AnchorRecord]
AskedRecord ==
  [at : {"new", "sent", "answering", "done"}, messages : Seq(Said),
   thread : {"create", "continue", "none"}, from : ThreadIds, observed : BOOLEAN]
ThreadTypes ==
  /\ talk \in Seq(Said) /\ tracked \in TrackedRecord
  /\ asked \in [ThreadRequests -> AskedRecord]
  /\ told \in [ThreadRequests -> Seq(Said)]

\* Conversation m begins with conversation t.
Begins(t, m) == Len(t) <= Len(m) /\ \A i \in 1 .. Len(t) : m[i] = t[i]

\* What a session may continue from is what the provider was told, and that
\* reply is complete.
Anchored ==
  tracked.anchor.of # NoRequest =>
    /\ tracked.anchor.of \in ThreadRequests /\ tracked.anchor.reply \in Replies
    /\ asked[tracked.anchor.of].at = "done"
    /\ told[tracked.anchor.of] = Append(tracked.anchor.messages, tracked.anchor.reply)

\* A request that continues a thread asks about a conversation that begins with
\* what the provider was told.
Follows(q) ==
  q.at \in {"sent", "answering"} /\ q.thread = "continue" =>
    /\ q.from \in ThreadRequests /\ asked[q.from].at = "done"
    /\ Begins(told[q.from], q.messages)

ThreadsInv ==
  ThreadTypes /\ Anchored /\ (\A r \in ThreadRequests : Follows(asked[r])) /\ mistold = {}

\* A conversation that begins with another is that one and the rest.
LEMMA BeginningAndRest ==
  ASSUME NEW S, NEW t \in Seq(S), NEW m \in Seq(S), Begins(t, m)
  PROVE  /\ SubSeq(m, Len(t) + 1, Len(m)) \in Seq(S)
         /\ t \o SubSeq(m, Len(t) + 1, Len(m)) = m
<1>1. Len(t) \in Nat /\ Len(m) \in Nat /\ Len(t) <= Len(m)
  BY DEF Begins
<1>2. SubSeq(m, 1, Len(t)) = t
  <2>1. \A i \in 1 .. Len(t) : m[i] \in S
    BY <1>1, ElementOfSeq
  <2>2. /\ SubSeq(m, 1, Len(t)) \in Seq(S) /\ Len(SubSeq(m, 1, Len(t))) = Len(t)
        /\ \A i \in 1 .. Len(t) : SubSeq(m, 1, Len(t))[i] = m[i]
    BY <1>1, <2>1, SubSeqProperties
  <2> QED
    BY <2>2, SeqEqual DEF Begins
<1>3. SubSeq(m, 1, Len(t)) \o SubSeq(m, Len(t) + 1, Len(m)) = SubSeq(m, 1, Len(m))
  <2>1. /\ 1 \in 1 .. Len(m) + 1 /\ Len(t) \in 1 - 1 .. Len(m)
        /\ Len(m) \in Len(t) .. Len(m)
    BY <1>1
  <2> QED
    BY <2>1, ConcatAdjacentSubSeq
<1>4. SubSeq(m, 1, Len(m)) = m
  BY SubSeqFull
<1>5. SubSeq(m, Len(t) + 1, Len(m)) \in Seq(S)
  <2>1. \A i \in Len(t) + 1 .. Len(m) : m[i] \in S
    BY <1>1, ElementOfSeq
  <2> QED
    BY <1>1, <2>1, SubSeqProperties
<1> QED
  BY <1>2, <1>3, <1>4, <1>5

\* A reply may be continued from by a conversation that has what was asked and
\* the reply to it.
LEMMA ContinuationBegins ==
  ASSUME ThreadTypes, Anchored, NEW m \in Seq(Said), MayContinue(tracked.anchor, m)
  PROVE  /\ tracked.anchor.of \in ThreadRequests /\ asked[tracked.anchor.of].at = "done"
         /\ Begins(told[tracked.anchor.of], m)
<1> DEFINE a == tracked.anchor
<1>1. /\ a \in AnchorRecord /\ a.of # NoRequest /\ Len(m) >= Len(a.messages) + 2
      /\ SubSeq(m, 1, Len(a.messages)) = a.messages /\ m[Len(a.messages) + 1] = a.reply
  BY DEF MayContinue, SameTalk, ThreadTypes, TrackedRecord
<1>2. /\ a.of \in ThreadRequests /\ a.reply \in Replies /\ asked[a.of].at = "done"
      /\ told[a.of] = Append(a.messages, a.reply)
  BY <1>1 DEF Anchored
<1> HIDE DEF a
<1>3. a.messages \in Seq(Said) /\ Len(a.messages) \in Nat /\ Len(m) \in Nat
  BY <1>1 DEF AnchorRecord
<1>4. \A i \in 1 .. Len(a.messages) : m[i] = a.messages[i]
  <2>1. \A i \in 1 .. Len(a.messages) : m[i] \in Said
    BY <1>1, <1>3, ElementOfSeq
  <2>2. \A i \in 1 .. Len(a.messages) - 1 + 1 :
          SubSeq(m, 1, Len(a.messages))[i] = m[1 + i - 1]
    BY <1>3, <2>1, SubSeqProperties
  <2> QED
    BY <1>1, <1>3, <2>2
<1>5. /\ Len(told[a.of]) = Len(a.messages) + 1
      /\ \A i \in 1 .. Len(a.messages) : told[a.of][i] = a.messages[i]
      /\ told[a.of][Len(a.messages) + 1] = a.reply
  BY <1>2, <1>3
<1>6. Begins(told[a.of], m)
  BY SMTT(30), <1>1, <1>3, <1>4, <1>5 DEF Begins
<1> QED
  BY <1>2, <1>6 DEF a

\* The provider takes a request for the conversation it was asked about.
LEMMA UnderstoodAsMeant ==
  ASSUME ThreadsInv, NEW r \in ThreadRequests, asked[r].at \in {"sent", "answering"}
  PROVE  Understood(asked[r], Sent(asked[r])) = asked[r].messages
<1>1. asked[r].messages \in Seq(Said) /\ told \in [ThreadRequests -> Seq(Said)] /\ Follows(asked[r])
  BY DEF ThreadsInv, ThreadTypes, AskedRecord
<1>2. CASE asked[r].thread = "continue"
  <2>1. /\ told[asked[r].from] \in Seq(Said)
        /\ Begins(told[asked[r].from], asked[r].messages)
    BY <1>1, <1>2 DEF Follows
  <2> DEFINE t == told[asked[r].from]
             m == asked[r].messages
  <2>2. t \in Seq(Said) /\ m \in Seq(Said) /\ Begins(t, m)
    BY <1>1, <2>1
  <2> HIDE DEF t, m
  <2>3. t \o SubSeq(m, Len(t) + 1, Len(m)) = m
    BY <2>2, BeginningAndRest
  <2> QED
    BY <1>2, <2>3 DEF Understood, Sent, Delta, t, m
<1>3. CASE asked[r].thread # "continue"
  BY <1>3 DEF Understood, Sent
<1> QED
  BY <1>2, <1>3

LEMMA ThreadValues ==
  /\ NoAnchor \in AnchorRecord /\ NoAnchor.of = NoRequest
  /\ Untracked \in TrackedRecord /\ Untracked.anchor = NoAnchor
  /\ \A r \in ThreadIds :
       /\ [Untracked EXCEPT !.request = r] \in TrackedRecord
       /\ [Untracked EXCEPT !.request = r].anchor = NoAnchor
<1>1. Nothing \in Seq(Said)
  BY DEF Nothing
<1>2. NoAnchor \in AnchorRecord /\ NoAnchor.of = NoRequest
  BY <1>1 DEF NoAnchor, AnchorRecord, ThreadIds
<1>3. Untracked \in TrackedRecord /\ Untracked.anchor = NoAnchor
  BY <1>2 DEF Untracked, TrackedRecord, ThreadIds
<1> QED
  BY <1>2, <1>3 DEF TrackedRecord

LEMMA Unasks == Unasked \in AskedRecord /\ Unasked.at = "new"
<1> DEFINE no == FALSE
<1>1. no \in BOOLEAN
  OBVIOUS
<1>2. Nothing \in Seq(Said)
  BY DEF Nothing
<1>3. Unasked = [at |-> "new", messages |-> Nothing, thread |-> "create", from |-> NoRequest,
                 observed |-> no]
  BY DEF Unasked
<1> HIDE DEF no
<1> QED
  BY <1>1, <1>2, <1>3 DEF AskedRecord, ThreadIds

\* The session is given up, or keeps what it could continue from.
Loosened == tracked' \in TrackedRecord /\ tracked'.anchor \in {tracked.anchor, NoAnchor}

LEMMA Loosens ==
  ASSUME ThreadTypes, NEW r \in ThreadIds,
         tracked' \in {tracked, AfterFailure(r), Untracked, [Untracked EXCEPT !.request = r]}
  PROVE  Loosened
BY ThreadValues DEF ThreadTypes, Loosened, AfterFailure

\* A step of one request that is not done and completes no reply.
LEMMA RequestKeeps ==
  ASSUME ThreadsInv, NEW r \in ThreadRequests, NEW x \in AskedRecord, asked[r].at # "done",
         asked' = [asked EXCEPT ![r] = x], told' = told, talk' \in Seq(Said), Loosened,
         mistold' = {},
         x.at \in {"sent", "answering"} /\ x.thread = "continue" =>
           /\ x.from \in ThreadRequests /\ asked[x.from].at = "done"
           /\ Begins(told[x.from], x.messages)
  PROVE  ThreadsInv'
<1>1. /\ asked' \in [ThreadRequests -> AskedRecord] /\ asked'[r] = x
      /\ \A s \in ThreadRequests \ {r} : asked'[s] = asked[s]
      /\ \A s \in ThreadRequests : asked[s].at = "done" => asked'[s].at = "done"
  BY DEF ThreadsInv, ThreadTypes
<1>2. ThreadTypes'
  BY <1>1 DEF ThreadsInv, ThreadTypes, Loosened
<1>3. Anchored'
  BY <1>1, ThreadValues DEF ThreadsInv, Anchored, Loosened
<1>4. \A s \in ThreadRequests : Follows(asked[s])'
  BY <1>1 DEF ThreadsInv, Follows
<1> QED
  BY <1>2, <1>3, <1>4 DEF ThreadsInv

LEMMA AskSteps ==
  ASSUME ThreadsInv, NEW r \in ThreadRequests, Ask(r)
  PROVE  ThreadsInv'
<1>0. ThreadTypes /\ Anchored /\ mistold' = {} /\ told' = told /\ talk' \in Seq(Said)
      /\ asked[r].at = "new" /\ talk \in Seq(Said)
  BY DEF ThreadsInv, ThreadTypes, Ask
<1> DEFINE q == [Unasked EXCEPT !.at = "sent", !.messages = talk]
<1>1. /\ q \in AskedRecord /\ q.at = "sent" /\ q.messages = talk /\ q.thread = "create"
      /\ q.from = NoRequest
  BY <1>0, Unasks DEF AskedRecord, Unasked
<1>2. \/ /\ MayContinue(tracked.anchor, talk)
         /\ asked' = [asked EXCEPT ![r] = [q EXCEPT !.thread = "continue", !.from = tracked.anchor.of]]
      \/ asked' = [asked EXCEPT ![r] = q]
      \/ asked' = [asked EXCEPT ![r] = [q EXCEPT !.thread = "none"]]
  BY DEF Ask
<1>3. Loosened
  BY <1>0, Loosens DEF Ask, ThreadIds
<1> HIDE DEF q
<1>4. CASE /\ MayContinue(tracked.anchor, talk)
           /\ asked' = [asked EXCEPT ![r] = [q EXCEPT !.thread = "continue", !.from = tracked.anchor.of]]
  <2> DEFINE x == [q EXCEPT !.thread = "continue", !.from = tracked.anchor.of]
  <2>1. /\ tracked.anchor.of \in ThreadRequests /\ asked[tracked.anchor.of].at = "done"
        /\ Begins(told[tracked.anchor.of], talk)
    BY <1>0, <1>4, ContinuationBegins
  <2>2. x \in AskedRecord /\ x.from = tracked.anchor.of /\ x.messages = talk
    BY <1>1, <2>1 DEF AskedRecord, ThreadIds
  <2>3. asked' = [asked EXCEPT ![r] = x]
    BY <1>4
  <2> HIDE DEF x
  <2> QED
    BY <1>0, <1>3, <2>1, <2>2, <2>3, RequestKeeps
<1>5. CASE asked' = [asked EXCEPT ![r] = q]
  BY <1>0, <1>1, <1>3, <1>5, RequestKeeps
<1>6. CASE asked' = [asked EXCEPT ![r] = [q EXCEPT !.thread = "none"]]
  <2>1. [q EXCEPT !.thread = "none"] \in AskedRecord /\ [q EXCEPT !.thread = "none"].thread = "none"
    BY <1>1 DEF AskedRecord
  <2> QED
    BY <1>0, <1>3, <1>6, <2>1, RequestKeeps
<1> QED
  BY <1>2, <1>4, <1>5, <1>6

LEMMA AcceptSteps ==
  ASSUME ThreadsInv, NEW r \in ThreadRequests, Accept(r)
  PROVE  ThreadsInv'
<1> DEFINE observed == ~stateless /\ asked[r].thread # "none"
           x == [asked[r] EXCEPT !.at = "answering", !.observed = observed]
<1>0. /\ ThreadTypes /\ asked[r].at = "sent" /\ told' = told /\ talk' \in Seq(Said)
      /\ asked[r] \in AskedRecord /\ Follows(asked[r])
  BY DEF ThreadsInv, ThreadTypes, Accept
<1>1. observed \in BOOLEAN /\ asked' = [asked EXCEPT ![r].at = "answering", ![r].observed = observed]
  BY DEF Accept
<1>2. tracked' \in {tracked, AfterFailure(r)} /\ mistold' = {}
  BY <1>0, UnderstoodAsMeant DEF Accept, ThreadsInv
<1>3. Loosened
  BY <1>0, <1>2, Loosens DEF ThreadIds
<1> HIDE DEF observed
<1>4. /\ x \in AskedRecord /\ x.thread = asked[r].thread /\ x.from = asked[r].from
      /\ x.messages = asked[r].messages
  BY <1>0, <1>1 DEF AskedRecord
<1>5. asked' = [asked EXCEPT ![r] = x]
  BY <1>0, <1>1 DEF ThreadTypes, AskedRecord
<1> HIDE DEF x
<1> QED
  BY <1>0, <1>2, <1>3, <1>4, <1>5, RequestKeeps DEF Follows

LEMMA RejectSteps ==
  ASSUME ThreadsInv, NEW r \in ThreadRequests, RejectContinue(r) \/ RejectCreate(r) \/ Fail(r)
  PROVE  ThreadsInv'
<1>0. /\ ThreadTypes /\ asked[r].at # "done" /\ told' = told /\ talk' \in Seq(Said) /\ mistold' = {}
      /\ asked[r] \in AskedRecord /\ Follows(asked[r])
  BY DEF ThreadsInv, ThreadTypes, RejectContinue, RejectCreate, Fail
<1>1. tracked' \in {AfterFailure(r), [Untracked EXCEPT !.request = r]}
  BY DEF RejectContinue, RejectCreate, Fail
<1>2. Loosened
  BY <1>0, <1>1, Loosens DEF ThreadIds
<1>3. \/ asked' = [asked EXCEPT ![r].at = "done"]
      \/ asked' = [asked EXCEPT ![r].thread = "none"]
      \/ asked' = [asked EXCEPT ![r].thread = "create", ![r].from = NoRequest]
  BY DEF RejectContinue, RejectCreate, Fail
<1>4. PICK x \in AskedRecord : /\ asked' = [asked EXCEPT ![r] = x]
                               /\ x.at = "done" \/ x.thread # "continue"
  <2>1. CASE asked' = [asked EXCEPT ![r].at = "done"]
    <3> DEFINE y == [asked[r] EXCEPT !.at = "done"]
    <3>1. y \in AskedRecord /\ y.at = "done" /\ asked' = [asked EXCEPT ![r] = y]
      BY <1>0, <2>1 DEF AskedRecord, ThreadTypes
    <3> HIDE DEF y
    <3> QED
      BY <3>1
  <2>2. CASE asked' = [asked EXCEPT ![r].thread = "none"]
    <3> DEFINE y == [asked[r] EXCEPT !.thread = "none"]
    <3>1. y \in AskedRecord /\ y.thread = "none" /\ asked' = [asked EXCEPT ![r] = y]
      BY <1>0, <2>2 DEF AskedRecord, ThreadTypes
    <3> HIDE DEF y
    <3> QED
      BY <3>1
  <2>3. CASE asked' = [asked EXCEPT ![r].thread = "create", ![r].from = NoRequest]
    <3> DEFINE y == [asked[r] EXCEPT !.thread = "create", !.from = NoRequest]
    <3>1. y \in AskedRecord /\ y.thread = "create" /\ asked' = [asked EXCEPT ![r] = y]
      BY <1>0, <2>3 DEF AskedRecord, ThreadTypes, ThreadIds
    <3> HIDE DEF y
    <3> QED
      BY <3>1
  <2> QED
    BY <1>3, <2>1, <2>2, <2>3
<1> QED
  BY <1>0, <1>2, <1>4, RequestKeeps

LEMMA CompleteSteps ==
  ASSUME ThreadsInv, NEW r \in ThreadRequests, NEW reply \in Replies, Complete(r, reply)
  PROVE  ThreadsInv'
<1> DEFINE x == [asked[r] EXCEPT !.at = "done"]
           whole == Append(asked[r].messages, reply)
<1>0. /\ ThreadTypes /\ asked[r].at = "answering" /\ mistold' = {} /\ reply \in Said
      /\ asked[r] \in AskedRecord /\ asked[r].messages \in Seq(Said)
  BY DEF ThreadsInv, ThreadTypes, Complete, AskedRecord, Said
<1>1. told' = [told EXCEPT ![r] = whole] /\ whole \in Seq(Said)
  <2>1. Understood(asked[r], Sent(asked[r])) = asked[r].messages
    BY <1>0, UnderstoodAsMeant
  <2>2. told' = [told EXCEPT ![r] = whole]
    BY <2>1 DEF Complete
  <2>3. whole \in Seq(Said)
    BY <1>0
  <2> QED
    BY <2>2, <2>3
<1>2. talk' \in Seq(Said)
  BY <1>0 DEF Complete, ThreadTypes
<1>3. x \in AskedRecord /\ x.at = "done" /\ asked' = [asked EXCEPT ![r] = x]
  BY <1>0 DEF Complete, AskedRecord, ThreadTypes
<1> HIDE DEF x, whole
<1>4. /\ asked' \in [ThreadRequests -> AskedRecord] /\ asked'[r].at = "done"
      /\ told' \in [ThreadRequests -> Seq(Said)] /\ told'[r] = whole
      /\ \A s \in ThreadRequests \ {r} : asked'[s] = asked[s] /\ told'[s] = told[s]
  BY <1>0, <1>1, <1>3 DEF ThreadTypes
<1>7. \A s \in ThreadRequests : Follows(asked[s])'
  <2>1. \A t \in ThreadRequests : asked[t].at = "done" => told'[t] = told[t]
    BY <1>0, <1>4
  <2>2. \A t \in ThreadRequests : asked[t].at = "done" => asked'[t].at = "done"
    BY <1>4
  <2>3. ASSUME NEW s \in ThreadRequests, s # r PROVE Follows(asked[s])'
    <3>1. asked'[s] = asked[s] /\ Follows(asked[s])
      BY <1>4, <2>3 DEF ThreadsInv
    <3> QED
      BY <2>1, <2>2, <3>1 DEF Follows
  <2>4. Follows(asked[r])'
    BY <1>4 DEF Follows
  <2> QED
    BY <2>3, <2>4
<1>5. CASE tracked' = tracked
  <2>1. ThreadTypes'
    BY <1>0, <1>2, <1>4, <1>5 DEF ThreadTypes
  <2>2. Anchored'
    BY <1>0, <1>4, <1>5 DEF ThreadsInv, Anchored
  <2>3. \A s \in ThreadRequests : Follows(asked[s])'
    BY <1>7
  <2> QED
    BY <1>0, <2>1, <2>2, <2>3 DEF ThreadsInv
<1>6. CASE tracked' # tracked
  <2> DEFINE a == [of |-> r, messages |-> asked[r].messages, reply |-> reply]
  <2>1. tracked' = [tracked EXCEPT !.anchor = a]
    BY <1>6 DEF Complete
  <2>2. a \in AnchorRecord /\ a.of = r /\ a.messages = asked[r].messages /\ a.reply = reply
    BY <1>0 DEF AnchorRecord, ThreadIds
  <2> HIDE DEF a
  <2>3. tracked' \in TrackedRecord /\ tracked'.anchor = a
    BY <1>0, <2>1, <2>2 DEF ThreadTypes, TrackedRecord
  <2>4. ThreadTypes'
    BY <1>0, <1>2, <1>4, <2>3 DEF ThreadTypes
  <2>5. Anchored'
    BY <1>0, <1>4, <2>2, <2>3 DEF Anchored, whole
  <2>6. \A s \in ThreadRequests : Follows(asked[s])'
    BY <1>7
  <2> QED
    BY <1>0, <2>4, <2>5, <2>6 DEF ThreadsInv
<1> QED
  BY <1>5, <1>6

\* The host talks, edits, or lets the session go.
LEMMA HostSteps ==
  ASSUME ThreadsInv, EditTalk \/ Forget \/ (\E word \in Words : Say(word))
  PROVE  ThreadsInv'
<1>0. ThreadTypes /\ UNCHANGED <<asked, told, mistold>>
  BY DEF ThreadsInv, EditTalk, Forget, Say
<1>1. talk' \in Seq(Said)
  <2>1. CASE Forget
    BY <1>0, <2>1 DEF Forget, ThreadTypes
  <2>2. CASE \E word \in Words : Say(word)
    BY <1>0, <2>2 DEF Say, ThreadTypes, Said
  <2>3. CASE EditTalk
    <3>1. talk \in Seq(Said) /\ Len(talk) \in Nat /\ DOMAIN talk = 1 .. Len(talk)
      BY <1>0 DEF ThreadTypes
    <3>2. \A i \in 1 .. Len(talk) : talk[i] \in Said
      BY <3>1, ElementOfSeq
    <3>3. SubSeq(talk, 1, Len(talk) - 1) \in Seq(Said) /\ SubSeq(talk, 3, Len(talk)) \in Seq(Said)
      BY <3>1, <3>2, SubSeqProperties
    <3>4. \A i \in DOMAIN talk, m \in Said : [talk EXCEPT ![i] = m] \in Seq(Said)
      BY <3>1, ExceptSeq
    <3> QED
      BY <2>3, <3>3, <3>4 DEF EditTalk, Said
  <2> QED
    BY <2>1, <2>2, <2>3
<1>2. Loosened
  <2>1. tracked' \in {tracked, Untracked}
    BY DEF EditTalk, Forget, Say
  <2> QED
    BY <1>0, <2>1, Loosens DEF ThreadIds
<1>3. ThreadTypes'
  BY <1>0, <1>1, <1>2 DEF ThreadTypes, Loosened
<1>4. Anchored'
  BY <1>0, <1>2, ThreadValues DEF ThreadsInv, Anchored, Loosened
<1> QED
  BY <1>0, <1>3, <1>4 DEF ThreadsInv, Follows

\* The provider takes every continued thread for the conversation the host
\* asked about, for any requests, replies and edits: what a session continues
\* from is what the provider was told by a reply that is complete, and the
\* check of what was asked and answered makes the conversation begin with it.
THEOREM ThreadsAreTold == ThreadsSpec => []ThreadTellsTheTalk
<1>1. ASSUME ThreadsInit PROVE ThreadsInv
  <2>1. Nothing \in Seq(Said)
    BY DEF Nothing
  <2>2. ThreadTypes
    BY <1>1, <2>1, ThreadValues, Unasks DEF ThreadsInit, ThreadTypes
  <2>3. Anchored
    BY <1>1, ThreadValues DEF ThreadsInit, Anchored
  <2>4. \A r \in ThreadRequests : Follows(asked[r])
    BY <1>1, Unasks DEF ThreadsInit, Follows
  <2> QED
    BY <1>1, <2>2, <2>3, <2>4 DEF ThreadsInv, ThreadsInit
<1>2. ASSUME ThreadsInv, [ThreadsNext]_threadVars PROVE ThreadsInv'
  <2>1. CASE UNCHANGED threadVars
    BY <1>2, <2>1 DEF threadVars, ThreadsInv, ThreadTypes, Anchored, Follows
  <2>2. CASE ThreadsNext
    BY <1>2, <2>2, AskSteps, AcceptSteps, RejectSteps, CompleteSteps, HostSteps DEF ThreadsNext
  <2> QED
    BY <1>2, <2>1, <2>2
<1>3. ThreadsInv => ThreadTellsTheTalk
  BY DEF ThreadsInv, ThreadTellsTheTalk
<1> QED
  BY <1>1, <1>2, <1>3, PTL DEF ThreadsSpec

-----------------------------------------------------------------------------
(* Enrollment.                                                                 *)

SetupSteps ==
  {"off", "lock", "clear", "read", "reset", "save-secret", "propose", "save-id", "save-final",
   "poll", "approve", "save-token"}
RequestStatus == {"none", "open", "approved", "denied", "superseded", "taken"}
CeremonyStates ==
  [phase : {"none", "pending", "approved", "denied", "refused", "blocked"},
   secret : Secrets \cup {0}, id : BOOLEAN]
RunRecord == [at : SetupSteps, image : CeremonyStates, pass : {1, 2}, token : Secrets \cup {0}]

\* A secret is in a state exactly while the state is pending.
WellFormed(state) == state \in CeremonyStates /\ (state.phase = "pending" <=> state.secret # 0)

EnrollTypes ==
  /\ tokenFile \in Secrets \cup {0} /\ WellFormed(stateFile)
  /\ request \in [Secrets -> RequestStatus]
  /\ setup \in [Setups -> RunRecord]
  /\ issued \in Nat /\ issued <= MaxSecrets

\* The request made with a secret can still be finished, or need not be.
Kept(s) == tokenFile # 0 \/ stateFile.secret = s \/ s \in refusedFor

Proposes == {"propose", "save-id", "poll", "save-token", "approve"}

\* Where a run is, what it holds, and what the files say while it has the lock.
RunFits(r, x) ==
  /\ WellFormed(x.image)
  /\ x.at = "save-secret" => x.image.phase = "pending"
  /\ x.at \in Proposes => x.image.phase = "pending" /\ Kept(x.image.secret)
  /\ x.at = "save-final" =>
       /\ x.image.phase \in {"approved", "blocked", "denied", "refused"}
       /\ x.image.phase = "approved" => tokenFile # 0
  /\ x.at = "save-token" => x.token # 0
  /\ HoldsCeremony(r) =>
       /\ x.at \notin {"off", "lock", "clear", "approve"}
       /\ x.at \in {"save-secret", "propose", "save-id", "poll", "save-token"} => tokenFile = 0
       /\ x.at = "save-secret" => stateFile.secret = 0
       /\ x.at \in {"propose", "save-id"} => stateFile.secret = x.image.secret

EnrollInv ==
  /\ EnrollTypes
  /\ \A s \in Secrets : request[s] # "none" => Kept(s)
  /\ \A r \in Setups : RunFits(r, setup[r])

RunBecomes(r, x) == setup' = [setup EXCEPT ![r] = x] /\ x \in RunRecord

LEMMA StateValues ==
  /\ WellFormed(NoState) /\ NoState.phase = "none"
  /\ \A phase \in {"approved", "denied", "refused", "blocked"} :
       WellFormed(Final(phase)) /\ Final(phase).phase = phase
<1> DEFINE no == FALSE
<1>1. no \in BOOLEAN /\ 0 \notin Secrets
  BY DEF Secrets
<1>2. /\ NoState = [phase |-> "none", secret |-> 0, id |-> no]
      /\ \A phase : Final(phase) = [phase |-> phase, secret |-> 0, id |-> no]
  BY DEF NoState, Final
<1> HIDE DEF no
<1> QED
  BY <1>1, <1>2 DEF WellFormed, CeremonyStates

LEMMA PendingValues ==
  ASSUME NEW s \in Secrets, NEW known \in BOOLEAN
  PROVE  WellFormed(Pending(s, known)) /\ Pending(s, known).phase = "pending"
         /\ Pending(s, known).secret = s
BY DEF Pending, WellFormed, CeremonyStates, Secrets

LEMMA RunIsOver ==
  ASSUME EnrollTypes, NEW r \in Setups, Over(r)
  PROVE  \E x : RunBecomes(r, x) /\ x.at = "off" /\ x.image = NoState
<1>1. NewRun \in RunRecord /\ NewRun.at = "off" /\ NewRun.image = NoState
  BY StateValues DEF NewRun, RunRecord, SetupSteps, WellFormed
<1> QED
  BY <1>1 DEF Over, Set, RunBecomes

LEMMA RunGoes ==
  ASSUME EnrollTypes, NEW r \in Setups, NEW step \in SetupSteps, Go(r, step)
  PROVE  \E x : /\ RunBecomes(r, x) /\ x.at = step /\ x.image = setup[r].image
                /\ x.token = setup[r].token
<1> DEFINE y == [setup[r] EXCEPT !.at = step]
<1>1. y \in RunRecord /\ y.at = step /\ y.image = setup[r].image /\ y.token = setup[r].token
  BY DEF EnrollTypes, RunRecord
<1>2. setup' = [setup EXCEPT ![r] = y]
  BY DEF Go, Set
<1> HIDE DEF y
<1> QED
  BY <1>1, <1>2 DEF RunBecomes

LEMMA RunWorks ==
  ASSUME EnrollTypes, NEW r \in Setups, NEW step \in SetupSteps, NEW image, WellFormed(image),
         Work(r, step, image)
  PROVE  \E x : RunBecomes(r, x) /\ x.at = step /\ x.image = image
<1> DEFINE y == [setup[r] EXCEPT !.at = step, !.image = image]
<1>1. y \in RunRecord /\ y.at = step /\ y.image = image
  BY DEF EnrollTypes, RunRecord, WellFormed
<1>2. setup' = [setup EXCEPT ![r] = y]
  BY DEF Work, Set
<1> HIDE DEF y
<1> QED
  BY <1>1, <1>2 DEF RunBecomes

\* A step of run r.  Only the run that has the lock changes the files, and no
\* secret is dropped from them.
LEMMA RunKeeps ==
  ASSUME EnrollAssumption, EnrollInv, NEW r \in Setups, NEW x, RunBecomes(r, x),
         ceremony' = ceremony \/ ceremony' \notin Setups \ {r},
         tokenFile' \in Secrets \cup {0}, WellFormed(stateFile'),
         HoldsCeremony(r) \/ UNCHANGED <<tokenFile, stateFile>>,
         tokenFile # 0 => tokenFile' # 0,
         \A s \in Secrets : Kept(s) => Kept(s)',
         request' \in [Secrets -> RequestStatus],
         \A s \in Secrets : request'[s] # "none" => request[s] # "none" \/ Kept(s)',
         issued' \in Nat /\ issued' <= MaxSecrets,
         RunFits(r, x)'
  PROVE  EnrollInv'
<1>1. /\ setup' \in [Setups -> RunRecord] /\ setup'[r] = x
      /\ \A q \in Setups \ {r} : setup'[q] = setup[q]
  BY DEF EnrollInv, EnrollTypes, RunBecomes
<1>2. EnrollTypes'
  BY <1>1 DEF EnrollTypes
<1>3. \A s \in Secrets : (request[s] # "none" => Kept(s))'
  BY DEF EnrollInv
<1>4. ASSUME NEW q \in Setups \ {r} PROVE RunFits(q, setup[q])'
  <2>1. RunFits(q, setup[q]) /\ setup'[q] = setup[q] /\ setup[q] \in RunRecord
    BY <1>1, <1>4 DEF EnrollInv, EnrollTypes
  <2>2. HoldsCeremony(q)' => HoldsCeremony(q) /\ UNCHANGED <<tokenFile, stateFile>>
    BY <1>4 DEF HoldsCeremony, EnrollAssumption
  <2>3. setup[q].image.phase = "pending" => setup[q].image.secret \in Secrets
    BY <2>1 DEF RunFits, WellFormed, CeremonyStates
  <2>4. setup[q].at \in Proposes => Kept(setup[q].image.secret)'
    BY <2>1, <2>3 DEF RunFits
  <2> QED
    BY <2>1, <2>2, <2>4 DEF RunFits
<1>5. \A q \in Setups : RunFits(q, setup[q])'
  BY <1>1, <1>4
<1> QED
  BY <1>2, <1>3, <1>5 DEF EnrollInv

\* A step of run r that changes no file.
LEMMA QuietRunKeeps ==
  ASSUME EnrollAssumption, EnrollInv, NEW r \in Setups, NEW x, RunBecomes(r, x),
         ceremony' = ceremony \/ ceremony' \notin Setups \ {r},
         UNCHANGED <<tokenFile, stateFile, refusedFor>>,
         request' \in [Secrets -> RequestStatus],
         \A s \in Secrets : request'[s] # "none" => request[s] # "none" \/ Kept(s),
         issued' \in Nat /\ issued' <= MaxSecrets,
         RunFits(r, x)'
  PROVE  EnrollInv'
<1>1. \A s \in Secrets : Kept(s)' <=> Kept(s)
  BY DEF Kept
<1>2. tokenFile' \in Secrets \cup {0} /\ WellFormed(stateFile')
  BY DEF EnrollInv, EnrollTypes
<1> QED
  BY <1>1, <1>2, RunKeeps

\* A run that ends has nothing left to fit, once it let go of the lock.
LEMMA OverFits ==
  ASSUME NEW r \in Setups, NEW x, x.at = "off", x.image = NoState, ceremony' # r
  PROVE  RunFits(r, x)'
<1>1. WellFormed(x.image)'
  BY StateValues DEF WellFormed
<1> QED
  BY <1>1 DEF RunFits, Proposes, HoldsCeremony

LEMMA RunIsSettled ==
  ASSUME EnrollInv, NEW r \in Setups
  PROVE  EnrollTypes /\ RunFits(r, setup[r]) /\ setup[r] \in RunRecord /\ WellFormed(setup[r].image)
BY DEF EnrollInv, EnrollTypes, RunFits

LEMMA Leaves ==
  ASSUME EnrollAssumption, NEW r \in Setups, LeaveCeremony(r)
  PROVE  ceremony' # r /\ (ceremony' = ceremony \/ ceremony' \notin Setups \ {r})
BY DEF LeaveCeremony, HoldsCeremony, EnrollAssumption

\* A run ends without having changed a file.
LEMMA EndSteps ==
  ASSUME EnrollAssumption, EnrollInv, NEW r \in Setups, Over(r), ceremony' # r,
         ceremony' = ceremony \/ ceremony' \notin Setups \ {r},
         UNCHANGED <<tokenFile, stateFile, refusedFor, issued>>,
         request' \in [Secrets -> RequestStatus],
         \A s \in Secrets : request'[s] # "none" => request[s] # "none" \/ Kept(s)
  PROVE  EnrollInv'
<1>1. PICK x : RunBecomes(r, x) /\ x.at = "off" /\ x.image = NoState
  BY RunIsOver DEF EnrollInv
<1>2. RunFits(r, x)'
  BY <1>1, OverFits
<1>3. issued' \in Nat /\ issued' <= MaxSecrets
  BY DEF EnrollInv, EnrollTypes
<1> QED
  BY <1>1, <1>2, <1>3, QuietRunKeeps

LEMMA StartSteps ==
  ASSUME EnrollAssumption, EnrollInv, NEW r \in Setups, StartSetup(r)
  PROVE  EnrollInv'
<1>1. EnrollTypes /\ ~HoldsCeremony(r)
  BY RunIsSettled DEF StartSetup, RunFits
<1>2. UNCHANGED <<tokenFile, stateFile, request, ceremony, issued, refusedFor>>
  BY DEF StartSetup
<1>3. PICK x : RunBecomes(r, x) /\ x.at \in {"lock", "clear"} /\ x.image = NoState
  BY <1>1, RunWorks, StateValues DEF StartSetup, SetupSteps
<1>4. RunFits(r, x)'
  <2>1. WellFormed(x.image)'
    BY <1>3, StateValues DEF WellFormed
  <2> QED
    BY <1>1, <1>2, <1>3, <2>1 DEF RunFits, Proposes, HoldsCeremony
<1> QED
  BY <1>1, <1>2, <1>3, <1>4, QuietRunKeeps DEF EnrollInv, EnrollTypes

LEMMA EnterSteps ==
  ASSUME EnrollAssumption, EnrollInv, NEW r \in Setups, EnterCeremony(r) \/ EnterReset(r)
  PROVE  EnrollInv'
<1>1. EnrollTypes /\ ~HoldsCeremony(r) /\ WellFormed(setup[r].image)
  BY RunIsSettled DEF EnterCeremony, EnterReset, RunFits
<1>2. UNCHANGED <<tokenFile, stateFile, request, issued, refusedFor>>
  BY DEF EnterCeremony, EnterReset
<1>3. CASE ceremony' = r
  <2>1. PICK x : RunBecomes(r, x) /\ x.at \in {"read", "reset"} /\ x.image = setup[r].image
    BY <1>1, <1>3, RunGoes DEF EnterCeremony, EnterReset, SetupSteps
  <2>2. RunFits(r, x)'
    BY <1>1, <2>1 DEF RunFits, Proposes, WellFormed
  <2> QED
    BY <1>1, <1>2, <1>3, <2>1, <2>2, QuietRunKeeps DEF EnrollInv, EnrollTypes
<1>4. CASE ceremony' # r
  <2>1. Over(r) /\ UNCHANGED ceremony
    BY <1>4 DEF EnterCeremony, EnterReset, Locked
  <2> QED
    BY <1>1, <1>2, <1>4, <2>1, EndSteps DEF EnrollTypes
<1> QED
  BY <1>3, <1>4

LEMMA ResetSteps ==
  ASSUME EnrollAssumption, EnrollInv, NEW r \in Setups, ResetTerminal(r)
  PROVE  EnrollInv'
<1>1. EnrollTypes /\ WellFormed(stateFile)
  BY DEF EnrollInv, EnrollTypes
<1>2. PICK x : RunBecomes(r, x) /\ x.at = "off" /\ x.image = NoState
  BY <1>1, RunIsOver DEF ResetTerminal
<1>3. ceremony' # r /\ (ceremony' = ceremony \/ ceremony' \notin Setups \ {r})
  BY Leaves DEF ResetTerminal
<1>4. /\ UNCHANGED <<tokenFile, request, issued, refusedFor>>
      /\ \/ stateFile' = stateFile
         \/ HoldsCeremony(r) /\ stateFile' = NoState /\ stateFile.phase # "pending"
  BY DEF ResetTerminal
<1>5. WellFormed(stateFile') /\ \A s \in Secrets : Kept(s) => Kept(s)'
  BY <1>1, <1>4, StateValues DEF Kept, WellFormed, Secrets
<1>6. RunFits(r, x)'
  BY <1>2, <1>3, OverFits
<1> QED
  BY <1>1, <1>2, <1>3, <1>4, <1>5, <1>6, RunKeeps DEF EnrollInv, EnrollTypes

LEMMA ReadSteps ==
  ASSUME EnrollAssumption, EnrollInv, NEW r \in Setups, ReadRecord(r)
  PROVE  EnrollInv'
<1>0. EnrollTypes /\ setup[r].at = "read"
  BY DEF EnrollInv, ReadRecord
<1>1. UNCHANGED <<tokenFile, stateFile, request, refusedFor>>
  BY DEF ReadRecord
<1>2. CASE Over(r) /\ LeaveCeremony(r) /\ UNCHANGED issued
  BY <1>0, <1>1, <1>2, Leaves, EndSteps DEF EnrollTypes
<1>3. CASE /\ Work(r, "save-final", Final("approved")) /\ tokenFile # 0
           /\ UNCHANGED <<ceremony, issued>>
  <2>1. PICK x : RunBecomes(r, x) /\ x.at = "save-final" /\ x.image = Final("approved")
    BY <1>0, <1>3, RunWorks, StateValues DEF SetupSteps
  <2>2. RunFits(r, x)'
    <3>1. WellFormed(x.image)' /\ x.image.phase = "approved"
      BY <2>1, StateValues DEF WellFormed
    <3> QED
      BY <1>1, <1>3, <2>1, <3>1 DEF RunFits, Proposes
  <2> QED
    BY <1>0, <1>1, <1>3, <2>1, <2>2, QuietRunKeeps DEF EnrollTypes
<1>4. CASE Work(r, "save-final", Final("blocked")) /\ UNCHANGED <<ceremony, issued>>
  <2>1. PICK x : RunBecomes(r, x) /\ x.at = "save-final" /\ x.image = Final("blocked")
    BY <1>0, <1>4, RunWorks, StateValues DEF SetupSteps
  <2>2. RunFits(r, x)'
    <3>1. WellFormed(x.image)' /\ x.image.phase = "blocked"
      BY <2>1, StateValues DEF WellFormed
    <3> QED
      BY <2>1, <3>1 DEF RunFits, Proposes
  <2> QED
    BY <1>0, <1>1, <1>4, <2>1, <2>2, QuietRunKeeps DEF EnrollTypes
<1>5. CASE tokenFile = 0 /\ stateFile.phase = "none" /\ MintSecret(r)
  <2> DEFINE no == FALSE
             s == issued + 1
  <2>1. /\ no \in BOOLEAN /\ s \in Secrets /\ issued' = s /\ s <= MaxSecrets
        /\ Work(r, "save-secret", Pending(s, no)) /\ UNCHANGED ceremony
    <3>1. s \in Nat /\ s >= 1 /\ s <= MaxSecrets
      BY <1>0, <1>5 DEF MintSecret, EnrollTypes, EnrollAssumption
    <3>2. s \in Secrets
      BY <3>1 DEF Secrets, EnrollAssumption
    <3>3. issued' = s /\ Work(r, "save-secret", Pending(s, no)) /\ UNCHANGED ceremony
      BY <1>5 DEF MintSecret
    <3> QED
      BY <3>1, <3>2, <3>3
  <2> HIDE DEF no, s
  <2>2. WellFormed(Pending(s, no)) /\ Pending(s, no).phase = "pending"
    BY <2>1, PendingValues
  <2>3. PICK x : RunBecomes(r, x) /\ x.at = "save-secret" /\ x.image = Pending(s, no)
    BY <1>0, <2>1, <2>2, RunWorks DEF SetupSteps
  <2>4. stateFile.secret = 0
    BY <1>0, <1>5 DEF EnrollTypes, WellFormed
  <2>5. RunFits(r, x)'
    <3>1. WellFormed(x.image)' /\ x.image.phase = "pending"
      BY <2>2, <2>3 DEF WellFormed
    <3> QED
      BY <1>1, <1>5, <2>3, <2>4, <3>1 DEF RunFits, Proposes
  <2>6. s \in Nat
    BY <2>1 DEF Secrets
  <2> QED
    BY <1>0, <1>1, <2>1, <2>3, <2>5, <2>6, QuietRunKeeps DEF EnrollTypes
<1>6. CASE /\ tokenFile = 0 /\ stateFile.phase = "pending"
           /\ Work(r, IF stateFile.id THEN "poll" ELSE "propose", stateFile)
           /\ UNCHANGED <<ceremony, issued>>
  <2>1. PICK x : RunBecomes(r, x) /\ x.at \in {"poll", "propose"} /\ x.image = stateFile
    BY <1>0, <1>6, RunWorks DEF EnrollTypes, SetupSteps
  <2>2. WellFormed(stateFile) /\ Kept(stateFile.secret)
    BY <1>0 DEF EnrollTypes, Kept
  <2>3. RunFits(r, x)'
    BY <1>1, <1>6, <2>1, <2>2 DEF RunFits, Kept, WellFormed
  <2> QED
    BY <1>0, <1>1, <1>6, <2>1, <2>3, QuietRunKeeps DEF EnrollTypes
<1> QED
  BY <1>2, <1>3, <1>4, <1>5, <1>6 DEF ReadRecord

LEMMA SaveSteps ==
  ASSUME EnrollAssumption, EnrollInv, NEW r \in Setups, SaveState(r)
  PROVE  EnrollInv'
<1> DEFINE step == setup[r].at
           image == setup[r].image
<1>0. /\ EnrollTypes /\ RunFits(r, setup[r]) /\ setup[r] \in RunRecord
      /\ WellFormed(image) /\ WellFormed(stateFile) /\ step \in Saving
  BY RunIsSettled DEF SaveState, EnrollTypes
<1>1. UNCHANGED <<tokenFile, request, issued>> /\ refusedFor \subseteq refusedFor'
  BY DEF SaveState
<1>2. CASE ~HoldsCeremony(r)
  <2>1. Over(r) /\ UNCHANGED <<stateFile, ceremony>> /\ ceremony # r
    BY <1>2 DEF SaveState, HoldsCeremony
  <2>2. PICK x : RunBecomes(r, x) /\ x.at = "off" /\ x.image = NoState
    BY <1>0, <2>1, RunIsOver
  <2>3. RunFits(r, x)'
    BY <2>1, <2>2, OverFits
  <2>4. \A s \in Secrets : Kept(s) => Kept(s)'
    BY <1>1, <2>1 DEF Kept
  <2> QED
    BY <1>0, <1>1, <2>1, <2>2, <2>3, <2>4, RunKeeps DEF EnrollTypes
<1>3. CASE HoldsCeremony(r) /\ step # "save-final"
  <2>1. Go(r, AfterSave(step)) /\ UNCHANGED ceremony /\ stateFile' = image
    BY <1>3 DEF SaveState
  <2>2. image.phase = "pending" /\ image.secret \in Secrets /\ tokenFile = 0
        /\ stateFile.secret \in {0, image.secret}
    BY <1>0, <1>3 DEF RunFits, Saving, Proposes, WellFormed, CeremonyStates
  <2>3. PICK x : RunBecomes(r, x) /\ x.at \in {"propose", "poll"} /\ x.image = image
    BY <1>0, <2>1, RunGoes DEF AfterSave, SetupSteps
  <2>4. \A s \in Secrets : Kept(s) => Kept(s)'
    BY <1>1, <2>1, <2>2 DEF Kept, Secrets
  <2>5. RunFits(r, x)'
    BY <1>0, <1>1, <2>1, <2>2, <2>3 DEF RunFits, Kept, WellFormed
  <2> QED
    BY <1>0, <1>1, <1>3, <2>1, <2>3, <2>4, <2>5, RunKeeps DEF EnrollTypes
<1>4. CASE HoldsCeremony(r) /\ step = "save-final"
  <2>1. Over(r) /\ LeaveCeremony(r) /\ stateFile' = image
    BY <1>4 DEF SaveState
  <2>2. PICK x : RunBecomes(r, x) /\ x.at = "off" /\ x.image = NoState
    BY <1>0, <2>1, RunIsOver
  <2>3. RunFits(r, x)'
    BY <2>1, <2>2, Leaves, OverFits
  <2>4. tokenFile' # 0 \/ stateFile.secret \in refusedFor'
    BY <1>0, <1>1, <1>4, <2>1 DEF RunFits, SaveState
  <2>5. \A s \in Secrets : Kept(s) => Kept(s)'
    BY <1>1, <2>4 DEF Kept
  <2> QED
    BY <1>0, <1>1, <1>4, <2>1, <2>2, <2>3, <2>5, Leaves, RunKeeps DEF EnrollTypes
<1> QED
  BY <1>2, <1>3, <1>4

\* What is asked at the vault is a kept secret's request, or was there before.
LEMMA AskedKept ==
  ASSUME EnrollInv, NEW r \in Setups, setup[r].at = "propose", Asked(r) \/ UNCHANGED request
  PROVE  /\ request' \in [Secrets -> RequestStatus]
         /\ \A s \in Secrets : request'[s] # "none" => request[s] # "none" \/ Kept(s)
<1> DEFINE t == setup[r].image.secret
<1>1. Kept(t) /\ request \in [Secrets -> RequestStatus]
  BY DEF EnrollInv, EnrollTypes, RunFits, Proposes
<1>2. request' = request \/ request' = OpenAt(t)
  BY DEF Asked
<1> HIDE DEF t
<1>3. CASE request' = OpenAt(t)
  BY <1>1, <1>3 DEF OpenAt, RequestStatus
<1> QED
  BY <1>1, <1>2, <1>3

LEMMA ProposeSteps ==
  ASSUME EnrollAssumption, EnrollInv, NEW r \in Setups,
         ProposeRequest(r) \/ ProposeRefused(r) \/ ProposeFails(r)
  PROVE  EnrollInv'
<1>0. /\ EnrollTypes /\ RunFits(r, setup[r]) /\ setup[r] \in RunRecord /\ WellFormed(setup[r].image)
      /\ setup[r].at = "propose"
  BY RunIsSettled DEF ProposeRequest, ProposeRefused, ProposeFails
<1>1. /\ UNCHANGED <<tokenFile, stateFile, issued, refusedFor>>
      /\ Asked(r) \/ UNCHANGED request
  BY DEF ProposeRequest, ProposeRefused, ProposeFails
<1>2. /\ request' \in [Secrets -> RequestStatus]
      /\ \A s \in Secrets : request'[s] # "none" => request[s] # "none" \/ Kept(s)
  BY <1>0, <1>1, AskedKept
<1>3. CASE ProposeFails(r)
  BY <1>1, <1>2, <1>3, Leaves, EndSteps DEF ProposeFails
<1>4. CASE ProposeRefused(r)
  <2>1. PICK x : RunBecomes(r, x) /\ x.at = "save-final" /\ x.image = Final("blocked")
    BY <1>0, <1>4, RunWorks, StateValues DEF ProposeRefused, SetupSteps
  <2>2. RunFits(r, x)'
    <3>1. WellFormed(x.image)' /\ x.image.phase = "blocked"
      BY <2>1, StateValues DEF WellFormed
    <3> QED
      BY <2>1, <3>1 DEF RunFits, Proposes
  <2>3. UNCHANGED ceremony
    BY <1>4 DEF ProposeRefused
  <2> QED
    BY <1>0, <1>1, <1>2, <2>1, <2>2, <2>3, QuietRunKeeps DEF EnrollTypes
<1>5. CASE ProposeRequest(r)
  <2> DEFINE yes == TRUE
             image == [setup[r].image EXCEPT !.id = yes]
  <2>1. yes \in BOOLEAN /\ Work(r, "save-id", image) /\ UNCHANGED ceremony
    BY <1>5 DEF ProposeRequest
  <2> HIDE DEF yes
  <2>2. /\ WellFormed(image) /\ image.phase = setup[r].image.phase
        /\ image.secret = setup[r].image.secret
    BY <1>0, <2>1 DEF WellFormed, CeremonyStates
  <2> HIDE DEF image
  <2>3. PICK x : RunBecomes(r, x) /\ x.at = "save-id" /\ x.image = image
    BY <1>0, <2>1, <2>2, RunWorks DEF SetupSteps
  <2>4. RunFits(r, x)'
    BY <1>0, <1>1, <2>1, <2>2, <2>3 DEF RunFits, Kept, WellFormed, Proposes, HoldsCeremony
  <2> QED
    BY <1>0, <1>1, <1>2, <2>1, <2>3, <2>4, QuietRunKeeps DEF EnrollTypes
<1> QED
  BY <1>3, <1>4, <1>5

LEMMA PollSteps ==
  ASSUME EnrollAssumption, EnrollInv, NEW r \in Setups, PollPending(r) \/ PollFails(r) \/ PollRefused(r)
  PROVE  EnrollInv'
<1>0. /\ EnrollTypes /\ RunFits(r, setup[r]) /\ setup[r] \in RunRecord /\ WellFormed(setup[r].image)
      /\ setup[r].at = "poll"
  BY RunIsSettled DEF PollPending, PollFails, PollRefused
<1>1. UNCHANGED <<tokenFile, stateFile, issued, refusedFor>>
  BY DEF PollPending, PollFails, PollRefused
<1>2. CASE PollFails(r)
  <2>1. /\ request' \in [Secrets -> RequestStatus]
        /\ \A s \in Secrets : request'[s] # "none" => request[s] # "none"
    BY <1>0, <1>2 DEF PollFails, EnrollTypes, RequestStatus
  <2> QED
    BY <1>1, <1>2, <2>1, Leaves, EndSteps DEF PollFails
<1>3. CASE PollPending(r)
  <2>1. CASE Over(r)
    BY <1>0, <1>1, <1>3, <2>1, Leaves, EndSteps DEF PollPending, EnrollTypes
  <2>2. CASE Go(r, "approve")
    <3>1. PICK x : RunBecomes(r, x) /\ x.at = "approve" /\ x.image = setup[r].image
      BY <1>0, <2>2, RunGoes DEF SetupSteps
    <3>2. ceremony' # r /\ (ceremony' = ceremony \/ ceremony' \notin Setups \ {r}) /\ request' = request
      BY <1>3, Leaves DEF PollPending
    <3>3. RunFits(r, x)'
      BY <1>0, <1>1, <3>1, <3>2 DEF RunFits, Kept, WellFormed, Proposes, HoldsCeremony
    <3> QED
      BY <1>0, <1>1, <3>1, <3>2, <3>3, QuietRunKeeps DEF EnrollTypes
  <2> QED
    BY <1>3, <2>1, <2>2 DEF PollPending
<1>4. CASE PollRefused(r)
  <2>1. PICK phase \in {"denied", "refused"} : Work(r, "save-final", Final(phase))
    BY <1>4 DEF PollRefused
  <2>2. PICK x : RunBecomes(r, x) /\ x.at = "save-final" /\ x.image = Final(phase)
    BY <1>0, <2>1, RunWorks, StateValues DEF SetupSteps
  <2>3. RunFits(r, x)'
    <3>1. WellFormed(x.image)' /\ x.image.phase = phase
      BY <2>2, StateValues DEF WellFormed
    <3> QED
      BY <2>2, <3>1 DEF RunFits, Proposes
  <2>4. UNCHANGED <<ceremony, request>>
    BY <1>4 DEF PollRefused
  <2> QED
    BY <1>0, <1>1, <2>2, <2>3, <2>4, QuietRunKeeps DEF EnrollTypes
<1> QED
  BY <1>2, <1>3, <1>4

LEMMA TokenSteps ==
  ASSUME EnrollAssumption, EnrollInv, NEW r \in Setups, PollToken(r) \/ ApproveRequest(r)
  PROVE  EnrollInv'
<1> DEFINE s == setup[r].image.secret
<1>0. /\ EnrollTypes /\ RunFits(r, setup[r]) /\ setup[r] \in RunRecord /\ WellFormed(setup[r].image)
      /\ setup[r].at \in {"poll", "approve"} /\ s \in Secrets
  BY RunIsSettled DEF PollToken, ApproveRequest, RunFits, Proposes, WellFormed, CeremonyStates
<1>1. UNCHANGED <<tokenFile, stateFile, ceremony, issued, refusedFor>>
  BY DEF PollToken, ApproveRequest
<1>2. CASE PollToken(r)
  <2> DEFINE y == [setup[r] EXCEPT !.at = "save-token", !.token = s]
  <2>1. y \in RunRecord /\ y.at = "save-token" /\ y.image = setup[r].image /\ y.token = s
    BY <1>0 DEF RunRecord, SetupSteps
  <2>2. setup' = [setup EXCEPT ![r] = y]
    BY <1>2 DEF PollToken, Set
  <2>3. /\ request' \in [Secrets -> RequestStatus]
        /\ \A t \in Secrets : request'[t] # "none" => request[t] # "none"
    BY <1>0, <1>2 DEF PollToken, EnrollTypes, RequestStatus
  <2>6. y.token # 0
    BY <1>0, <2>1 DEF Secrets
  <2> HIDE DEF y
  <2>4. PICK x : /\ RunBecomes(r, x) /\ x.at = "save-token" /\ x.image = setup[r].image
                 /\ x.token # 0
    BY <2>1, <2>2, <2>6 DEF RunBecomes
  <2>5. RunFits(r, x)'
    <3>1. setup[r].at = "poll"
      BY <1>2 DEF PollToken
    <3> QED
      BY <1>0, <1>1, <2>4, <3>1 DEF RunFits, Kept, WellFormed, Proposes, HoldsCeremony
  <2> QED
    BY <1>0, <1>1, <2>3, <2>4, <2>5, QuietRunKeeps DEF EnrollTypes
<1>3. CASE ApproveRequest(r)
  <2>1. setup[r].at = "approve" /\ ~HoldsCeremony(r)
    BY <1>0, <1>3 DEF ApproveRequest, RunFits
  <2>2. CASE Over(r) /\ UNCHANGED request
    BY <1>0, <1>1, <2>1, <2>2, EndSteps DEF HoldsCeremony, EnrollTypes
  <2>3. CASE /\ request' = [request EXCEPT ![s] = "approved"] /\ request[s] # "none"
             /\ Set(r, [setup[r] EXCEPT !.at = "lock", !.pass = 2])
    <3> DEFINE y == [setup[r] EXCEPT !.at = "lock", !.pass = 2]
    <3>1. y \in RunRecord /\ y.at = "lock" /\ y.image = setup[r].image
      BY <1>0 DEF RunRecord, SetupSteps
    <3>2. setup' = [setup EXCEPT ![r] = y]
      BY <2>3 DEF Set
    <3>3. /\ request' \in [Secrets -> RequestStatus]
          /\ \A t \in Secrets : request'[t] # "none" => request[t] # "none"
      BY <1>0, <2>3 DEF EnrollTypes, RequestStatus
    <3> HIDE DEF y
    <3>4. PICK x : RunBecomes(r, x) /\ x.at = "lock" /\ x.image = setup[r].image
      BY <3>1, <3>2 DEF RunBecomes
    <3>5. RunFits(r, x)'
      BY <1>0, <1>1, <2>1, <3>4 DEF RunFits, WellFormed, Proposes, HoldsCeremony
    <3> QED
      BY <1>0, <1>1, <3>3, <3>4, <3>5, QuietRunKeeps DEF EnrollTypes
  <2> QED
    BY <1>3, <2>2, <2>3 DEF ApproveRequest
<1> QED
  BY <1>2, <1>3

LEMMA SaveTokenSteps ==
  ASSUME EnrollAssumption, EnrollInv, NEW r \in Setups, SaveToken(r)
  PROVE  EnrollInv'
<1>0. /\ EnrollTypes /\ RunFits(r, setup[r]) /\ setup[r] \in RunRecord
      /\ setup[r].at = "save-token"
  BY RunIsSettled DEF SaveToken
<1>1. UNCHANGED <<stateFile, request, ceremony, issued, refusedFor>>
  BY DEF SaveToken
<1>2. CASE ~HoldsCeremony(r)
  BY <1>0, <1>1, <1>2, EndSteps DEF SaveToken, HoldsCeremony, EnrollTypes
<1>3. CASE HoldsCeremony(r)
  <2> DEFINE y == [setup[r] EXCEPT !.at = "save-final", !.image = Final("approved"), !.token = 0]
  <2>1. y \in RunRecord /\ y.at = "save-final" /\ y.image = Final("approved")
    BY <1>0, StateValues DEF RunRecord, SetupSteps, WellFormed
  <2>2. setup' = [setup EXCEPT ![r] = y] /\ tokenFile' = setup[r].token
    BY <1>3 DEF SaveToken, Set
  <2> HIDE DEF y
  <2>3. PICK x : RunBecomes(r, x) /\ x.at = "save-final" /\ x.image = Final("approved")
    BY <2>1, <2>2 DEF RunBecomes
  <2>4. tokenFile' # 0 /\ tokenFile' \in Secrets \cup {0}
    BY <1>0, <2>2 DEF RunFits, RunRecord
  <2>5. RunFits(r, x)'
    <3>1. WellFormed(x.image)' /\ x.image.phase = "approved"
      BY <2>3, StateValues DEF WellFormed
    <3> QED
      BY <2>3, <2>4, <3>1 DEF RunFits, Proposes
  <2>6. \A s \in Secrets : Kept(s)'
    BY <2>4 DEF Kept
  <2> QED
    BY <1>0, <1>1, <1>3, <2>3, <2>4, <2>5, <2>6, RunKeeps DEF EnrollTypes
<1> QED
  BY <1>2, <1>3

LEMMA DieSteps ==
  ASSUME EnrollAssumption, EnrollInv, NEW r \in Setups, SetupDies(r)
  PROVE  EnrollInv'
<1>1. /\ Over(r) /\ ceremony' # r /\ (ceremony' = ceremony \/ ceremony' \notin Setups \ {r})
      /\ UNCHANGED <<tokenFile, stateFile, request, issued, refusedFor>>
  BY DEF SetupDies, HoldsCeremony, EnrollAssumption
<1> QED
  BY <1>1, EndSteps DEF EnrollInv, EnrollTypes

LEMMA OutsideSteps ==
  ASSUME EnrollAssumption, EnrollInv, CeremonyExpires \/ (\E s \in Secrets : OperatorDenies(s))
  PROVE  EnrollInv'
<1>1. UNCHANGED <<tokenFile, stateFile, setup, issued, refusedFor>> /\ EnrollTypes
  BY DEF CeremonyExpires, OperatorDenies, EnrollInv
<1>2. /\ request' \in [Secrets -> RequestStatus]
      /\ \A s \in Secrets : request'[s] # "none" => request[s] # "none"
  <2>1. CASE CeremonyExpires
    BY <1>1, <2>1 DEF CeremonyExpires, EnrollTypes
  <2>2. ASSUME NEW s \in Secrets, OperatorDenies(s)
        PROVE  /\ request' \in [Secrets -> RequestStatus]
               /\ \A t \in Secrets : request'[t] # "none" => request[t] # "none"
    BY <1>1, <2>2 DEF OperatorDenies, EnrollTypes, RequestStatus
  <2> QED
    BY <2>1, <2>2
<1>3. \A r \in Setups : HoldsCeremony(r)' => HoldsCeremony(r)
  BY DEF CeremonyExpires, OperatorDenies, HoldsCeremony, EnrollAssumption
<1>4. \A s \in Secrets : Kept(s)' <=> Kept(s)
  BY <1>1 DEF Kept
<1>5. EnrollTypes'
  BY <1>1, <1>2 DEF EnrollTypes
<1>6. \A r \in Setups : RunFits(r, setup[r])'
  BY <1>1, <1>3 DEF EnrollInv, RunFits, Kept
<1> QED
  BY <1>2, <1>4, <1>5, <1>6 DEF EnrollInv

LEMMA EnrollStarts ==
  ASSUME EnrollAssumption, EnrollInit
  PROVE  EnrollInv
<1>1. NewRun \in RunRecord /\ NewRun.at = "off" /\ NewRun.image = NoState
  BY StateValues DEF NewRun, RunRecord, SetupSteps, WellFormed
<1>2. \A r \in Setups : setup[r] = NewRun /\ ~HoldsCeremony(r)
  BY DEF EnrollInit, HoldsCeremony, EnrollAssumption
<1>3. EnrollTypes
  BY <1>1, StateValues DEF EnrollInit, EnrollTypes, EnrollAssumption, RequestStatus
<1> QED
  BY <1>1, <1>2, <1>3, StateValues DEF EnrollInv, EnrollInit, RunFits, Proposes

LEMMA EnrollInvHolds == EnrollSpec => []EnrollInv
<1>1. EnrollInit => EnrollInv
  BY EnrollStarts, EnrollAssumption
<1>2. ASSUME EnrollInv, [EnrollNext]_enrollVars PROVE EnrollInv'
  <2>1. CASE UNCHANGED enrollVars
    BY <1>2, <2>1
       DEF enrollVars, EnrollInv, EnrollTypes, Kept, RunFits, WellFormed, HoldsCeremony
  <2>2. CASE EnrollNext
    BY <1>2, <2>2, EnrollAssumption, StartSteps, EnterSteps, ResetSteps, ReadSteps, SaveSteps,
       ProposeSteps, PollSteps, TokenSteps, SaveTokenSteps, DieSteps, OutsideSteps DEF EnrollNext
  <2> QED
    BY <1>2, <2>1, <2>2
<1> QED
  BY <1>1, <1>2, PTL DEF EnrollSpec

\* A request that waits at the vault can be finished by the host, for any runs
\* of setup and any number of secrets: a secret is in the ceremony's state
\* before the vault hears of it, and the lock's holder alone takes it out again,
\* with a token or a refusal in its place.
THEOREM RequestsAreKept == EnrollSpec => []NoOrphanRequest
<1>1. EnrollInv => NoOrphanRequest
  BY DEF EnrollInv, NoOrphanRequest, Kept
<1> QED
  BY <1>1, EnrollInvHolds, PTL

\* No token is ever replaced: the run that has the lock and a token in its hands
\* saw that there was none, and nobody else could write one since.
THEOREM TokensStay == EnrollSpec => TokenStays
<1>1. ASSUME EnrollInv, [EnrollNext]_enrollVars, tokenFile # 0 PROVE tokenFile' = tokenFile
  <2>1. ASSUME NEW r \in Setups, SaveToken(r) PROVE tokenFile' = tokenFile
    BY <1>1, <2>1 DEF EnrollInv, SaveToken, RunFits
  <2>2. CASE UNCHANGED enrollVars
    BY <2>2 DEF enrollVars
  <2> QED
    BY <1>1, <2>1, <2>2
       DEF EnrollNext, CeremonyExpires, OperatorDenies, StartSetup, EnterCeremony, EnterReset,
           ResetTerminal, ReadRecord, SaveState, ProposeRequest, ProposeRefused, ProposeFails,
           PollPending, PollToken, PollRefused, PollFails, ApproveRequest, SetupDies
<1>2. EnrollInv /\ [EnrollNext]_enrollVars => [tokenFile # 0 => tokenFile' = tokenFile]_enrollVars
  BY <1>1
<1> QED
  BY <1>2, EnrollInvHolds, PTL DEF EnrollSpec, TokenStays
=============================================================================
