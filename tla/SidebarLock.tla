----------------------------- MODULE SidebarLock -----------------------------
(***************************************************************************)
(* The sidebar's state file: which route the last request took, written    *)
(* by many processes under a lock that is a directory.                     *)
(*                                                                         *)
(* A writer owns the lock while its own file is in the directory.  A       *)
(* directory two seconds old is moved away by whoever waits for it.  A     *)
(* request's frame sets the route; a display frame keeps the route it      *)
(* finds.  A writer that lost the lock before its rename drops the frame;  *)
(* one that lost it after looks again and writes the frame once more.      *)
(*                                                                         *)
(* A route is the number of the request that took it, 0 for none yet.      *)
(***************************************************************************)
EXTENDS Naturals

CONSTANTS
  Writers,    \* processes
  MaxFrames   \* the bound of a run: frames of a process, by kind

FrameKinds == {"route", "display"}

ASSUME SidebarAssumption == MaxFrames \in [Writers -> [FrameKinds -> Nat]]

VARIABLES
  lockDir,   \* the directory: is it there, who has a file in it, is it old
  routeFile, \* the route in the state file
  writer,    \* each process's frame
  routed,    \* the route the last request's frame wrote; requests so far
  spoiled    \* what kept a lost frame from being repaired

sidebarVars == <<lockDir, routeFile, writer, routed, spoiled>>

NoDir == [there |-> FALSE, owners |-> {}, remains |-> FALSE, old |-> FALSE]
NewDir == [NoDir EXCEPT !.there = TRUE]
NoFrame == [at |-> "idle", kind |-> "display", route |-> 0, copy |-> 0, again |-> FALSE]

SidebarInit ==
  /\ lockDir = NoDir /\ routeFile = 0
  /\ writer = [p \in Writers |-> [frame |-> NoFrame, left |-> MaxFrames[p]]]
  /\ routed = [route |-> 0, requests |-> 0]
  /\ spoiled = {}

Frame(p) == writer[p].frame
Is(p, place) == Frame(p).at = place
To(p, place) == writer' = [writer EXCEPT ![p].frame.at = place]
Ends(p) == writer' = [writer EXCEPT ![p].frame = NoFrame]

\* A frame that was to repair the file is given up.
Dropped(p) == IF Frame(p).again THEN spoiled \cup {"dropped"} ELSE spoiled

---------------------------------------------------------------------------

\* setSidebarState queues a frame; a process writes one at a time.
BeginWrite(p, kind) ==
  /\ Is(p, "idle") /\ writer[p].left[kind] > 0
  /\ LET route == IF kind = "route" THEN routed.requests + 1 ELSE 0
     IN  /\ writer' = [writer EXCEPT ![p].left[kind] = @ - 1,
                         ![p].frame = [NoFrame EXCEPT !.at = "lock", !.kind = kind, !.route = route]]
         /\ routed' = IF kind = "route" THEN [routed EXCEPT !.requests = route] ELSE routed
  /\ UNCHANGED <<lockDir, routeFile, spoiled>>

MakeDir(p) ==
  /\ Is(p, "lock") /\ ~lockDir.there
  /\ lockDir' = NewDir
  /\ To(p, "own")
  /\ UNCHANGED <<routeFile, routed, spoiled>>

\* The writer's file goes into the directory of that name: if that was moved
\* away and made anew meanwhile, into another writer's.
PutOwner(p) ==
  /\ Is(p, "own")
  /\ \/ /\ lockDir.there
        /\ lockDir' = [lockDir EXCEPT !.owners = @ \cup {p}]
        /\ spoiled' = IF lockDir.owners = {} THEN spoiled ELSE spoiled \cup {"shared"}
        /\ To(p, "merge")
     \/ /\ ~lockDir.there
        /\ spoiled' = Dropped(p)
        /\ Ends(p)
        /\ UNCHANGED lockDir
  /\ UNCHANGED <<routeFile, routed>>

SeesStale(p) ==
  /\ Is(p, "lock") /\ lockDir.there /\ lockDir.old
  /\ To(p, "evict")
  /\ UNCHANGED <<lockDir, routeFile, routed, spoiled>>

\* Whatever directory is there now is moved away.
Evict(p) ==
  /\ Is(p, "evict")
  /\ lockDir' = NoDir
  /\ To(p, "lock")
  /\ UNCHANGED <<routeFile, routed, spoiled>>

OutOfBudget(p) ==
  /\ Is(p, "lock") /\ lockDir.there
  /\ spoiled' = Dropped(p)
  /\ Ends(p)
  /\ UNCHANGED <<lockDir, routeFile, routed>>

\* A display frame, and a frame written again, is merged with the file.
MergeFrame(p) ==
  /\ Is(p, "merge")
  /\ writer' = [writer EXCEPT ![p].frame.at = "write",
                  ![p].frame.copy = IF Frame(p).kind = "route" THEN Frame(p).route ELSE routeFile]
  /\ UNCHANGED <<lockDir, routeFile, routed, spoiled>>

OwnsLock(p) == p \in lockDir.owners

\* The writer looks whether it owns the lock and renames right after; it may
\* be stopped between the two.
FenceWrite(p) ==
  /\ Is(p, "write")
  /\ IF OwnsLock(p) THEN To(p, "rename") /\ UNCHANGED spoiled
     ELSE Ends(p) /\ spoiled' = Dropped(p)
  /\ UNCHANGED <<lockDir, routeFile, routed>>

Rename(p) ==
  /\ Is(p, "rename")
  /\ routeFile' = Frame(p).copy
  /\ routed' = IF Frame(p).kind = "route" THEN [routed EXCEPT !.route = Frame(p).route] ELSE routed
  /\ spoiled' = IF Frame(p).kind = "display" /\ ~OwnsLock(p) THEN spoiled \cup {"late"} ELSE spoiled
  /\ To(p, "check")
  /\ UNCHANGED lockDir

\* Mutant: a frame is not written again.
NeedsNoRepair(p) == TRUE

Written(p) == OwnsLock(p)

CheckFrame(p) ==
  /\ Is(p, "check")
  /\ IF Written(p) THEN To(p, "release") /\ UNCHANGED spoiled
     ELSE IF Frame(p).again THEN Ends(p) /\ spoiled' = Dropped(p)
     ELSE writer' = [writer EXCEPT ![p].frame.at = "lock", ![p].frame.again = TRUE] /\ UNCHANGED spoiled
  /\ UNCHANGED <<lockDir, routeFile, routed>>

\* The writer's own file first: if it is gone the directory is another's.
Unlink(p) ==
  /\ Is(p, "release")
  /\ IF OwnsLock(p) THEN To(p, "rmdir") ELSE Ends(p)
  /\ lockDir' = [lockDir EXCEPT !.owners = @ \ {p}]
  /\ UNCHANGED <<routeFile, routed, spoiled>>

RemoveDir(p) ==
  /\ Is(p, "rmdir")
  /\ Ends(p)
  /\ lockDir' = IF lockDir.owners = {} /\ ~lockDir.remains THEN NoDir ELSE lockDir
  /\ UNCHANGED <<routeFile, routed, spoiled>>

\* Two seconds pass.
Ages ==
  /\ lockDir.there /\ ~lockDir.old
  /\ lockDir' = [lockDir EXCEPT !.old = TRUE]
  /\ UNCHANGED <<routeFile, writer, routed, spoiled>>

\* A process dies in the middle of a frame; its file stays.
WriterCrash(p) ==
  /\ ~Is(p, "idle")
  /\ Ends(p)
  /\ lockDir' = [lockDir EXCEPT !.owners = @ \ {p}, !.remains = @ \/ OwnsLock(p)]
  /\ spoiled' = IF Is(p, "check") \/ Frame(p).again THEN spoiled \cup {"dropped"} ELSE spoiled
  /\ UNCHANGED <<routeFile, routed>>

SidebarNext ==
  \/ \E p \in Writers :
       \/ \E kind \in FrameKinds : BeginWrite(p, kind)
       \/ MakeDir(p) \/ PutOwner(p) \/ SeesStale(p) \/ Evict(p) \/ OutOfBudget(p)
       \/ MergeFrame(p) \/ FenceWrite(p) \/ Rename(p) \/ CheckFrame(p)
       \/ Unlink(p) \/ RemoveDir(p) \/ WriterCrash(p)
  \/ Ages

SidebarSpec == SidebarInit /\ [][SidebarNext]_sidebarVars

---------------------------------------------------------------------------
(* Properties.                                                             *)

\* Once all frames are done, the file shows the route that the last request
\* to write it took, whoever evicted whose directory: a request's frame whose
\* lock was lost around its rename is written again, after the display frames
\* that were merged before it.  Three cases are out: a repair that was given
\* up; a display frame stopped between fence and rename for so long that the
\* lock was lost, since its repair keeps the route it has just brought back;
\* and an owner's file that went into a directory another writer made after
\* the owner's was evicted.
RouteSurvives ==
  (\A p \in Writers : Is(p, "idle")) /\ spoiled = {} => routeFile = routed.route
=============================================================================
