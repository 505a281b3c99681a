-------------------------- MODULE SharedCacheKeep --------------------------
(***************************************************************************)
(* The prompt caches that the instances of one server keep warm together.  *)
(*                                                                         *)
(* A manager holds one target per session: the body to send, when it is    *)
(* due and when its cache expires.  A timer runs a pass over the targets;  *)
(* a pass sends one prewarm after the other, through the newest instance.  *)
(* Meanwhile sessions take turns, are forgotten, and instances come and    *)
(* go; the targets outlive the last instance for one that starts later.    *)
(*                                                                         *)
(* Time is a number.  A turn makes a new target of its session, with a     *)
(* body of its own.  The server of Anthropic is external: it keeps the     *)
(* cache of a session's latest body.  A process that is suspended between  *)
(* two steps is not modelled: a deadline ends what it bounds in time.      *)
(***************************************************************************)
EXTENDS Naturals

CONSTANTS
  KeepSessions,   \* sessions
  KeepInstances,  \* how many instances start, one after another
  KeepTtl,        \* how long a cache lives
  KeepLead,       \* how long before its end it is due
  KeepTimeout,    \* the deadline of one prewarm
  KeepSafety,     \* kept clear before the end
  KeepHorizon,    \* the bound of a run: time
  KeepTurns       \* the bound of a run: turns of sessions

ASSUME KeepAssumption ==
  /\ {KeepInstances, KeepTtl, KeepLead, KeepTimeout, KeepSafety, KeepHorizon, KeepTurns} \subseteq Nat
  /\ 0 < KeepSafety /\ KeepTimeout + KeepSafety < KeepLead /\ KeepLead < KeepTtl

VARIABLES
  clock,     \* the time
  keepers,   \* the instances: each unborn, live or disposed
  targets,   \* the manager's targets
  keepSaved, \* when the caches saved by an earlier server end, 0 for none
  warm,      \* when the caches really end: of which body, and until when
  loading,   \* whether what was saved is being loaded
  timer,     \* whether the timer runs, and when it fires next
  pass,      \* the pass of the timer that is under way
  hybrid,    \* whether the stored policy keeps caches warm
  turns      \* how many turns the sessions have taken

keepVars == <<clock, keepers, targets, keepSaved, warm, loading, timer, pass, hybrid, turns>>

KeepInstance == 1 .. KeepInstances
NoTarget == [body |-> 0, expires |-> 0, due |-> 0]
NoTargets == [s \in KeepSessions |-> NoTarget]
NoPass == [at |-> "none", visited |-> {}, id |-> 0, body |-> 0, start |-> 0, received |-> 0, by |-> 0]
Scanning(visited) == [NoPass EXCEPT !.at = "scan", !.visited = visited]

KeepInit ==
  /\ clock = 1
  /\ keepers = [i \in KeepInstance |-> "unborn"]
  /\ targets = NoTargets
  /\ keepSaved \in [KeepSessions -> {0, 1 + KeepLead}]
  /\ warm = [s \in KeepSessions |-> [body |-> 0, until |-> keepSaved[s]]]
  /\ loading = "none"
  /\ timer = [on |-> FALSE, next |-> 0]
  /\ pass = NoPass
  /\ hybrid = TRUE
  /\ turns = 0

Tracked(s) == targets[s].body # 0
Holding == {i \in KeepInstance : keepers[i] = "live"}
NewestKeeper == CHOOSE i \in Holding : \A j \in Holding : j <= i
Started(t) == IF t.on THEN t ELSE [on |-> TRUE, next |-> clock + 1]
Stopped(t) == [on |-> FALSE, next |-> 0]

\* What has expired is dropped; the rest is as it was.
Unexpired(m, now) == [s \in KeepSessions |-> IF now >= m[s].expires THEN NoTarget ELSE m[s]]
Pruned(m) == Unexpired(m, clock)

---------------------------------------------------------------------------
(* Instances.                                                              *)

\* The first instance to hold a lease adopts what is retained, once what was
\* saved has been loaded; others share it.
Adopting(m) == /\ targets' = Pruned(m)
               /\ timer' = IF targets' = NoTargets THEN timer ELSE Started(timer)

BootInstance(i) ==
  /\ keepers[i] = "unborn" /\ \A j \in 1 .. i - 1 : keepers[j] # "unborn"
  /\ keepers' = [keepers EXCEPT ![i] = "live"]
  /\ loading' = IF loading = "none" THEN "running" ELSE loading
  /\ IF Holding = {} /\ loading = "done" THEN Adopting(targets) ELSE UNCHANGED <<targets, timer>>
  /\ UNCHANGED <<clock, keepSaved, warm, pass, hybrid, turns>>

\* Saved targets keep the lifetime they had; an overdue one is due now.  A
\* session that took a turn meanwhile keeps its newer target.
RestoresTargets(s) == hybrid /\ ~Tracked(s) /\ keepSaved[s] > clock
Restored == [s \in KeepSessions |->
  IF RestoresTargets(s)
  THEN [body |-> warm[s].body + 1, expires |-> keepSaved[s],
        due |-> IF keepSaved[s] - KeepLead <= clock THEN clock ELSE keepSaved[s] - KeepLead]
  ELSE targets[s]]

\* When the last lease is gone meanwhile, what is saved waits for another.
LoadSaved ==
  /\ loading = "running" /\ loading' = "done"
  /\ IF Holding = {} THEN UNCHANGED <<targets, keepSaved, warm, timer>>
     ELSE /\ Adopting(Restored)
          /\ warm' = [s \in KeepSessions |-> IF RestoresTargets(s) THEN [warm[s] EXCEPT !.body = @ + 1] ELSE warm[s]]
          /\ keepSaved' = [s \in KeepSessions |-> 0]
  /\ UNCHANGED <<clock, keepers, pass, hybrid, turns>>

\* Targets without an instance stay until the last of them has expired.
Retained(m) == /\ targets' = m
               /\ loading' = IF m = NoTargets THEN "none" ELSE loading

LastLease(i) == Holding = {i}

DisposeInstance(i) ==
  /\ i \in Holding
  /\ keepers' = [keepers EXCEPT ![i] = "disposed"]
  /\ IF LastLease(i) THEN timer' = Stopped(timer) /\ Retained(Pruned(targets))
     ELSE UNCHANGED <<timer, targets, loading>>
  /\ pass' = IF LastLease(i) /\ targets' = NoTargets THEN NoPass
             ELSE IF pass.by = i /\ pass.at \in {"authorizing", "sent"} THEN [pass EXCEPT !.at = "failed"]
             ELSE pass
  /\ UNCHANGED <<clock, keepSaved, warm, hybrid, turns>>

---------------------------------------------------------------------------
(* Sessions.                                                               *)

\* An accepted response makes its session's target anew.  The policy was read
\* before the request went out, perhaps before it changed.
Track(i, s) ==
  /\ keepers[i] = "live" /\ turns < KeepTurns /\ turns' = turns + 1
  /\ \/ /\ targets' = [Pruned(targets) EXCEPT ![s] =
               [body |-> warm[s].body + 1, expires |-> clock + KeepTtl, due |-> clock + KeepTtl - KeepLead]]
        /\ timer' = Started(timer)
     \/ ~hybrid /\ targets' = NoTargets /\ UNCHANGED timer
  /\ warm' = [warm EXCEPT ![s] = [body |-> @.body + 1, until |-> clock + KeepTtl]]
  /\ UNCHANGED <<clock, keepers, loading, keepSaved, pass, hybrid>>

Forget(s) ==
  /\ Tracked(s)
  /\ targets' = [targets EXCEPT ![s] = NoTarget]
  /\ UNCHANGED <<clock, keepers, loading, keepSaved, warm, timer, pass, hybrid, turns>>

SetPolicy == hybrid /\ hybrid' = FALSE /\ UNCHANGED <<clock, keepers, loading, targets, keepSaved, warm, timer, pass, turns>>

---------------------------------------------------------------------------
(* A pass of the timer.                                                    *)

Fire ==
  /\ timer.on /\ clock >= timer.next
  /\ timer' = [timer EXCEPT !.next = clock + 1]
  /\ IF pass.at = "none"
     THEN pass' = [NoPass EXCEPT !.at = "policy", !.by = IF Holding = {} THEN 0 ELSE NewestKeeper]
     ELSE UNCHANGED pass
  /\ UNCHANGED <<clock, keepers, loading, targets, keepSaved, warm, hybrid, turns>>

\* The policy is the newest instance's.  The timer goes on where a session is
\* still shown as stopped.
ReadPolicy ==
  /\ pass.at = "policy"
  /\ targets' = IF hybrid /\ pass.by # 0 THEN Pruned(targets) ELSE NoTargets
  /\ IF targets' = NoTargets THEN timer' \in {timer, Stopped(timer)} /\ pass' = NoPass
     ELSE UNCHANGED timer /\ pass' = Scanning({})
  /\ UNCHANGED <<clock, keepers, loading, keepSaved, warm, hybrid, turns>>

\* A prewarm that cannot end in time is not begun.
UntilTheEnd(target) == target.expires - KeepSafety
LastStart(target) == target.expires - KeepTimeout - KeepSafety

\* The next target of the pass.  It walks the targets as they are when it
\* comes to them, a session that took a turn meanwhile once more.
Visit(s) ==
  /\ pass.at = "scan" /\ Tracked(s) /\ targets[s].body \notin {v[2] : v \in {u \in pass.visited : u[1] = s}}
  /\ LET target == targets[s]
         visited == pass.visited \cup {<<s, target.body>>}
     IN  \/ /\ target.due > clock
            /\ pass' = [pass EXCEPT !.visited = visited] /\ UNCHANGED targets
         \/ /\ target.due <= clock /\ clock > LastStart(target)
            /\ pass' = [pass EXCEPT !.visited = visited]
            /\ targets' = [targets EXCEPT ![s] = NoTarget]
         \/ /\ target.due <= clock /\ clock <= LastStart(target)
            /\ pass' = [pass EXCEPT !.at = IF Holding = {} THEN "failed" ELSE "authorizing", !.visited = visited,
                          !.id = s, !.body = target.body, !.start = clock,
                          !.by = IF Holding = {} THEN 0 ELSE NewestKeeper]
            /\ UNCHANGED targets
  /\ UNCHANGED <<clock, keepers, loading, keepSaved, warm, timer, hybrid, turns>>

PassEnds ==
  /\ pass.at = "scan"
  /\ \A s \in KeepSessions : Tracked(s) => <<s, targets[s].body>> \in pass.visited
  /\ pass' = NoPass
  /\ UNCHANGED <<clock, keepers, loading, targets, keepSaved, warm, timer, hybrid, turns>>

\* One deadline covers the credential, the send and the answer.
Deadline == pass.start + KeepTimeout
SendPrewarm == pass.at = "authorizing" /\ pass' = [pass EXCEPT !.at = "sent"]
        /\ UNCHANGED <<clock, keepers, loading, targets, keepSaved, warm, timer, hybrid, turns>>

\* The account is gone or replaced: the session is not warmed again.
PrewarmRefused ==
  /\ pass.at = "authorizing"
  /\ targets' = [targets EXCEPT ![pass.id] = IF @.body = pass.body THEN NoTarget ELSE @]
  /\ pass' = Scanning(pass.visited)
  /\ UNCHANGED <<clock, keepers, loading, keepSaved, warm, timer, hybrid, turns>>

PrewarmFails ==
  /\ pass.at \in {"authorizing", "sent"}
  /\ pass' = [pass EXCEPT !.at = "failed"]
  /\ UNCHANGED <<clock, keepers, loading, targets, keepSaved, warm, timer, hybrid, turns>>

\* The server has had the request: the cache of its body lives on.
PrewarmAccepted ==
  /\ pass.at = "sent"
  /\ warm' = [warm EXCEPT ![pass.id].until = IF warm[pass.id].body = pass.body THEN clock + KeepTtl ELSE @]
  /\ pass' = [pass EXCEPT !.at = "accepted", !.received = clock]
  /\ UNCHANGED <<clock, keepers, loading, targets, keepSaved, timer, hybrid, turns>>

\* The response is read to its end before the target takes what it says, if
\* it still is the session's target.
TargetOfSession(s, body) == Tracked(s)
StillTarget(s, body) == Tracked(s) /\ targets[s].body = body

Apply ==
  /\ pass.at = "accepted"
  /\ LET end == pass.received + KeepTtl
     IN  targets' = [targets EXCEPT ![pass.id] =
           IF StillTarget(pass.id, pass.body) THEN [@ EXCEPT !.expires = end, !.due = end - KeepLead] ELSE @]
  /\ pass' = Scanning(pass.visited)
  /\ UNCHANGED <<clock, keepers, loading, keepSaved, warm, timer, hybrid, turns>>

\* A retry is due at once, or as late as the last start; past it the session
\* is no longer warmed.
RetryLater ==
  /\ pass.at = "failed"
  /\ LET s == pass.id target == targets[s]
     IN  IF ~StillTarget(s, pass.body) THEN UNCHANGED targets
         ELSE IF clock >= LastStart(target) THEN targets' = [targets EXCEPT ![s] = NoTarget]
         ELSE \E due \in clock + 1 .. LastStart(target) : targets' = [targets EXCEPT ![s].due = due]
  /\ pass' = Scanning(pass.visited)
  /\ UNCHANGED <<clock, keepers, loading, keepSaved, warm, timer, hybrid, turns>>

\* A deadline that has come ends its prewarm before time goes on; while no
\* instance holds a lease, a timer drops what expires.
Pass ==
  /\ clock < KeepHorizon
  /\ pass.at \in {"authorizing", "sent"} => clock < Deadline
  /\ clock' = clock + 1
  /\ IF Holding = {} THEN Retained(Unexpired(targets, clock')) ELSE UNCHANGED <<targets, loading>>
  /\ pass' = IF Holding = {} /\ targets' = NoTargets THEN NoPass ELSE pass
  /\ UNCHANGED <<keepers, keepSaved, warm, timer, hybrid, turns>>

KeepNext ==
  \/ \E i \in KeepInstance : BootInstance(i) \/ DisposeInstance(i) \/ (\E s \in KeepSessions : Track(i, s))
  \/ \E s \in KeepSessions : Forget(s) \/ Visit(s)
  \/ LoadSaved \/ SetPolicy \/ Fire \/ ReadPolicy \/ PassEnds \/ SendPrewarm \/ PrewarmRefused \/ PrewarmFails \/ PrewarmAccepted \/ Apply \/ RetryLater \/ Pass

KeepSpec == KeepInit /\ [][KeepNext]_keepVars

---------------------------------------------------------------------------

\* No session is believed warmer than it is: whatever a prewarm brought and
\* whenever its response was read, a target never outlives the cache of the
\* body it holds; and a prewarm goes out while the cache of its body lives, so
\* that it never writes one anew, however long the prewarms before it took.
WarmthIsReal ==
  /\ \A s \in KeepSessions :
       Tracked(s) => targets[s].body = warm[s].body /\ targets[s].expires <= warm[s].until
  /\ pass.at = "sent" /\ pass.body = warm[pass.id].body => clock < warm[pass.id].until

=============================================================================
