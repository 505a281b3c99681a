------------------------------ MODULE Migration ------------------------------
(***************************************************************************)
(* The offline move of an OpenCode installation's credentials into the     *)
(* native pool (native-migration.ts, pool-authority.ts and the setup       *)
(* command): host auth and the legacy files are copied row by row, the     *)
(* journal advances one phase at a time, host auth is replaced by a        *)
(* token-free marker, and the legacy files are deleted.  A run of setup    *)
(* may die between any two steps, and hosts may run between two runs: the  *)
(* previous release, which refreshes what it finds in host auth and in the *)
(* legacy files, and this release, which serves from the pool once the     *)
(* journal authorises it.                                                  *)
(*                                                                         *)
(* Every write of setup is fenced on the hosts being stopped.  A host that *)
(* starts while setup runs is still there at setup's next fence, so hosts  *)
(* stop only when no setup is running.  A credential is its number; a      *)
(* digest is the value it is the digest of.                                *)
(***************************************************************************)
EXTENDS Naturals, FiniteSets

CONSTANTS MaxCredentials,   \* sign-ins and rotations
          MaxDeaths,        \* setups that die
          MaxHostRuns       \* times a host is started

ASSUME MigrationAssumption ==
    /\ MaxCredentials \in Nat \ {0, 1}   \* host auth and the legacy files may each hold one
    /\ MaxDeaths \in Nat
    /\ MaxHostRuns \in Nat

VARIABLES auth,       \* OpenCode's own entry: a credential, NoLogin or the Marker
          legacy,     \* the credential of the legacy files, NoLogin once they are gone
          poolRows,   \* the native pool's rows, NoLogin without one
          journal,    \* the migration journal
          setup,      \* the setup that runs: volatile
          hosts,      \* "none", or the release that runs: "previous", "native"
          alive,      \* credentials the provider honours
          moved       \* bounds, and whether a host changed what setup had read

migrationVars == <<auth, legacy, poolRows, journal, setup, hosts, alive, moved>>

Login == 1 .. MaxCredentials
NoLogin == 0
Marker == MaxCredentials + 1
Unprepared == MaxCredentials + 2
Rows == {"main", "fallback"}
NoRows == [r \in Rows |-> NoLogin]
NoSetup == [at |-> "idle", auth |-> NoLogin, legacy |-> NoLogin]
NoJournal == [phase |-> "none", auth |-> NoLogin, legacy |-> NoLogin,
              expected |-> Unprepared, proof |-> NoRows]

Unfinished == {"building", "verified", "installed"}
Completed == {"committed", "retired"}

\* The phase that lets this release serve from the pool.
Authorised == journal.phase \in Completed \cup {"empty"}

HoldsAccounts == \E r \in Rows : poolRows[r] # NoLogin

MigrationInit ==
    /\ auth \in {NoLogin, 1}
    /\ legacy \in {NoLogin, auth + 1}
    /\ poolRows = NoRows
    /\ journal = NoJournal
    /\ setup = NoSetup
    /\ hosts = "none"
    /\ alive = {auth, legacy} \cap Login
    /\ moved = [credentials |-> Cardinality(alive), deaths |-> 0, runs |-> 0, touched |-> FALSE]

----------------------------------------------------------------------------
(* The hosts.                                                              *)

HostStarts ==
    /\ hosts = "none" /\ moved.runs < MaxHostRuns
    /\ hosts' \in {"previous", "native"}
    /\ moved' = [moved EXCEPT !.runs = @ + 1]
    /\ UNCHANGED <<auth, legacy, poolRows, journal, setup, alive>>

HostsStop ==
    /\ hosts # "none" /\ setup.at = "idle"
    /\ hosts' = "none"
    /\ UNCHANGED <<auth, legacy, poolRows, journal, setup, alive, moved>>

\* The provider issues a credential; `over` is the one it replaces, if any.
Issues(over, reads) ==
    /\ moved.credentials < MaxCredentials
    /\ alive' = (alive \ {over}) \cup {moved.credentials + 1}
    /\ moved' = [moved EXCEPT !.credentials = @ + 1,
                              !.touched = @ \/ (reads /\ journal.phase \in Unfinished \cup {"committed"})]

\* A person signs in to OpenCode itself, or signs out; or the previous release
\* refreshes what OpenCode holds.
HostSignsIn ==
    /\ hosts # "none"
    /\ Issues(auth, TRUE)
    /\ auth' = moved.credentials + 1
    /\ UNCHANGED <<legacy, poolRows, journal, setup, hosts>>

HostSignsOut ==
    /\ hosts # "none" /\ auth # NoLogin
    /\ auth' = NoLogin
    /\ alive' = alive \ {auth}
    /\ moved' = [moved EXCEPT !.touched = @ \/ journal.phase \in Unfinished \cup {"committed"}]
    /\ UNCHANGED <<legacy, poolRows, journal, setup, hosts>>

PreviousRefreshes ==
    /\ hosts = "previous"
    /\ \/ /\ auth \in alive
          /\ Issues(auth, TRUE)
          /\ auth' = moved.credentials + 1
          /\ UNCHANGED legacy
       \/ /\ legacy \in alive
          /\ Issues(legacy, TRUE)
          /\ legacy' = moved.credentials + 1
          /\ UNCHANGED auth
    /\ UNCHANGED <<poolRows, journal, setup, hosts>>

\* This release refreshes a row of the pool, or signs an account in to it.
NativeStores(r) ==
    /\ hosts = "native" /\ Authorised
    /\ poolRows[r] \in alive \cup {NoLogin}
    /\ Issues(poolRows[r], FALSE)
    /\ poolRows' = [poolRows EXCEPT ![r] = moved.credentials + 1]
    /\ UNCHANGED <<auth, legacy, journal, setup, hosts>>

----------------------------------------------------------------------------
(* Setup: the plan, the preflight and the capture.                         *)

\* An OpenCode 2 setup gives a pool without an import its authority.
EmptyInit ==
    /\ setup.at = "idle" /\ hosts = "none"
    /\ journal.phase = "none" /\ ~HoldsAccounts
    /\ journal' = [NoJournal EXCEPT !.phase = "empty"]
    /\ UNCHANGED <<auth, legacy, poolRows, setup, hosts, alive, moved>>

\* A retired import of nothing stands in for an empty initialisation.
AdoptsLogin == journal.phase = "retired" /\ auth \in Login /\ ~HoldsAccounts

FreshImport ==
    \/ journal.phase = "none"
    \/ journal.phase = "empty" /\ ~HoldsAccounts
    \/ AdoptsLogin

ResumesSourceOnly == auth = journal.auth /\ legacy = journal.legacy
ResumesAnyLegacy == auth \in {journal.auth, journal.expected}

\* What a resumed import accepts: unchanged legacy files, and host auth as it
\* was read, or as setup itself leaves it.
Resumes == auth \in {journal.auth, journal.expected} /\ legacy = journal.legacy

SetupAt(step) == [at |-> step, auth |-> auth, legacy |-> legacy]

Capture ==
    /\ setup.at = "idle" /\ hosts = "none"
    /\ \/ FreshImport /\ setup' = SetupAt("begin")
       \/ journal.phase \in Unfinished /\ Resumes /\ setup' = SetupAt(journal.phase)
       \/ /\ journal.phase = "committed" /\ auth \notin Login
          /\ setup' = SetupAt("committed")
    /\ UNCHANGED <<auth, legacy, poolRows, journal, hosts, alive, moved>>

\* With the import complete, setup restores the marker where OpenCode has no
\* login (repair, or the placeholder of a skipped import).
Repair ==
    /\ setup.at = "idle" /\ hosts = "none"
    /\ journal.phase = "retired" \/ (journal.phase = "empty" /\ HoldsAccounts)
    /\ auth = NoLogin
    /\ auth' = Marker
    /\ UNCHANGED <<legacy, poolRows, journal, setup, hosts, alive, moved>>

----------------------------------------------------------------------------
(* The transaction.  Every step is fenced and finds the legacy files as    *)
(* they were captured; what it finds otherwise ends the run.               *)

Fenced(step) == setup.at = step /\ hosts = "none"
LegacyUnchanged == legacy = setup.legacy

Dies ==
    /\ setup.at # "idle"
    /\ hosts = "none" => moved.deaths < MaxDeaths
    /\ setup' = NoSetup
    /\ moved' = [moved EXCEPT !.deaths = IF hosts = "none" THEN @ + 1 ELSE @]
    /\ UNCHANGED <<auth, legacy, poolRows, journal, hosts, alive>>

BeginImport ==
    /\ Fenced("begin") /\ LegacyUnchanged /\ ~HoldsAccounts
    /\ journal' = [NoJournal EXCEPT !.phase = "building", !.auth = setup.auth,
                                    !.legacy = setup.legacy]
    /\ setup' = SetupAt("building")
    /\ UNCHANGED <<auth, legacy, poolRows, hosts, alive, moved>>

Projected == [main |-> IF setup.auth \in Login THEN setup.auth ELSE NoLogin,
              fallback |-> IF setup.legacy \in Login THEN setup.legacy ELSE NoLogin]

AddRow(r) ==
    /\ Fenced("building") /\ LegacyUnchanged
    /\ poolRows[r] = NoLogin /\ Projected[r] # NoLogin
    /\ poolRows' = [poolRows EXCEPT ![r] = Projected[r]]
    /\ UNCHANGED <<auth, legacy, journal, setup, hosts, alive, moved>>

VerifyRows ==
    /\ Fenced("building") /\ LegacyUnchanged
    /\ poolRows = Projected
    /\ journal' = [journal EXCEPT !.phase = "verified"]
    /\ setup' = [setup EXCEPT !.at = "verified"]
    /\ UNCHANGED <<auth, legacy, poolRows, hosts, alive, moved>>

\* What host auth will hold is recorded before it is written.
PrepareImport ==
    /\ Fenced("verified") /\ LegacyUnchanged
    /\ journal.expected = Unprepared
    /\ poolRows = Projected
    /\ journal' = [journal EXCEPT !.expected = Marker, !.proof = poolRows]
    /\ UNCHANGED <<auth, legacy, poolRows, setup, hosts, alive, moved>>

WriteHost ==
    /\ Fenced("verified") /\ LegacyUnchanged
    /\ journal.expected = Marker /\ poolRows = journal.proof
    /\ auth = journal.auth
    /\ auth' = Marker
    /\ UNCHANGED <<legacy, poolRows, journal, setup, hosts, alive, moved>>

Install ==
    /\ Fenced("verified") /\ LegacyUnchanged
    /\ auth = journal.expected /\ poolRows = journal.proof
    /\ journal' = [journal EXCEPT !.phase = "installed"]
    /\ setup' = [setup EXCEPT !.at = "installed"]
    /\ UNCHANGED <<auth, legacy, poolRows, hosts, alive, moved>>

CommitImport ==
    /\ Fenced("installed") /\ LegacyUnchanged
    /\ auth = journal.expected /\ poolRows = journal.proof
    /\ journal' = [journal EXCEPT !.phase = "committed"]
    /\ setup' = [setup EXCEPT !.at = "committed"]
    /\ UNCHANGED <<auth, legacy, poolRows, hosts, alive, moved>>

RetirableAsFound == LegacyUnchanged

\* A changed source is never deleted; one an earlier run deleted is.
Retirable == legacy \in {journal.legacy, NoLogin}

RemoveLegacy ==
    /\ Fenced("committed")
    /\ legacy # NoLogin /\ Retirable
    /\ legacy' = NoLogin
    /\ UNCHANGED <<auth, poolRows, journal, setup, hosts, alive, moved>>

RetireJournal ==
    /\ Fenced("committed")
    /\ legacy = NoLogin
    /\ journal' = [journal EXCEPT !.phase = "retired"]
    /\ setup' = NoSetup
    /\ UNCHANGED <<auth, legacy, poolRows, hosts, alive, moved>>

SetupStep ==
    \/ Capture \/ Repair \/ BeginImport \/ (\E r \in Rows : AddRow(r)) \/ VerifyRows \/ PrepareImport
    \/ WriteHost \/ Install \/ CommitImport \/ RemoveLegacy \/ RetireJournal

MigrationNext ==
    \/ HostStarts \/ HostsStop \/ HostSignsIn \/ HostSignsOut \/ PreviousRefreshes
    \/ \E r \in Rows : NativeStores(r)
    \/ EmptyInit \/ SetupStep \/ Dies

MigrationSpec == MigrationInit /\ [][MigrationNext]_migrationVars

\* A person closes the hosts and runs setup again until it is through, and a
\* setup that found a host running ends.
MigrationFairness ==
    /\ WF_migrationVars(HostsStop)
    /\ WF_migrationVars(SetupStep)
    /\ WF_migrationVars(hosts # "none" /\ Dies)

MigrationFairSpec == MigrationSpec /\ MigrationFairness

----------------------------------------------------------------------------
MigrationTypeOK ==
    /\ auth \in Login \cup {NoLogin, Marker}
    /\ legacy \in Login \cup {NoLogin}
    /\ poolRows \in [Rows -> Login \cup {NoLogin}]
    /\ journal.phase \in {"none", "empty"} \cup Unfinished \cup Completed
    /\ alive \subseteq Login

\* Whatever dies and whoever runs in between, no credential the provider still
\* honours is erased: it is in OpenCode's own file, in the legacy files or in
\* the pool (the digests kept in the journal; retire).
NoLoginIsLost == alive \subseteq {auth, legacy} \cup {poolRows[r] : r \in Rows}

\* When the journal first authorises serving, every row it authorises can
\* serve: an import that was interrupted, and during which a host refreshed
\* what had been copied already, is refused (requireUnchanged sources,
\* checkLegacy).
ServesWhatWasMoved ==
    [][journal'.phase = "committed" /\ journal.phase = "installed"
         => \A r \in Rows : poolRows[r] # NoLogin => poolRows[r] \in alive]_migrationVars

\* An import that has begun is finished by running setup again, wherever it was
\* interrupted, unless a host changed what the import had read.
InterruptedSetupFinishes ==
    journal.phase \in Unfinished ~> (journal.phase = "retired" \/ moved.touched)
=============================================================================
