------------------------------ MODULE Migrations ------------------------------
(***************************************************************************)
(* The migration runner: Runner.Up, LoadMigrations and SQLStore of         *)
(* internal/database/migration.go, as `motekar-panel migrate` and the      *)
(* installer run it.  Several runners, possibly of different releases,     *)
(* may migrate one database at once; nothing locks them against each       *)
(* other but the transactions themselves.  A failed run is started again.  *)
(*                                                                         *)
(* A migration stands for its version.  `effects` counts how often its SQL *)
(* took effect on the schema, which is what its row in schema_migrations   *)
(* (`applied`) is meant to tell.  Ensure creates the empty table, if need  *)
(* be: no table and an empty table are not told apart.                     *)
(***************************************************************************)
EXTENDS Integers

CONSTANTS
    Runners,      \* processes that run the migrations
    Versions,     \* versions of all migration files
    Releases,     \* the sets of versions that releases of the panel come with
    Rerunnable,   \* versions whose SQL does not fail when it runs again
    MaxFaults     \* bound: failed statements, timeouts and crashes

ASSUME MigrationAssumptions ==
    /\ Versions \subseteq Nat
    /\ Releases \subseteq SUBSET Versions
    /\ Rerunnable \subseteq Versions
    /\ MaxFaults \in Nat

VARIABLES
    pc,        \* per runner, how far Up has come
    release,   \* per runner, the versions LoadMigrations has found
    pending,   \* per runner, those left to apply, by what it read of the table
    applied,   \* committed rows of schema_migrations
    effects,   \* how often the SQL of a version has been committed
    faults     \* faults so far

migrationVars == <<pc, release, pending, applied, effects, faults>>

Phases == {"idle", "ensured", "loop", "executed", "inserted", "done", "failed"}

MigrationInit ==
    /\ pc = [r \in Runners |-> "idle"]
    /\ release = [r \in Runners |-> {}]
    /\ pending = [r \in Runners |-> {}]
    /\ applied = {}
    /\ effects = [v \in Versions |-> 0]
    /\ faults = 0

Goto(r, next) == pc' = [pc EXCEPT ![r] = next]

Fault == faults < MaxFaults /\ faults' = faults + 1

\* Mutant: the migrations are sorted the wrong way round.
GreatestVersion(r) ==
    CHOOSE v \in pending[r] : \A w \in pending[r] : w <= v

\* The loop of Up visits the migrations in LoadMigrations' order.
Current(r) == CHOOSE v \in pending[r] : \A w \in pending[r] : v <= w

InTransaction(r) == pc[r] \in {"executed", "inserted"}

-----------------------------------------------------------------------------

\* LoadMigrations and Ensure.
Up(r) ==
    /\ pc[r] \in {"idle", "done", "failed"}
    /\ Goto(r, "ensured")
    /\ \E found \in Releases : release' = [release EXCEPT ![r] = found]
    /\ UNCHANGED <<pending, applied, effects, faults>>

\* Mutant: the versions of the table are not looked at.
AppliedVersionsIgnored(r) ==
    /\ pc[r] = "ensured"
    /\ Goto(r, "loop")
    /\ pending' = [pending EXCEPT ![r] = release[r]]
    /\ UNCHANGED <<release, applied, effects, faults>>

\* The versions are read once, before the loop.
AppliedVersions(r) ==
    /\ pc[r] = "ensured"
    /\ Goto(r, "loop")
    /\ pending' = [pending EXCEPT ![r] = release[r] \ applied]
    /\ UNCHANGED <<release, applied, effects, faults>>

\* Apply begins a transaction and runs the migration.  SQL that cannot run again
\* waits for a transaction that runs it and fails where it has taken effect.
ExecuteSQL(r) ==
    /\ pc[r] = "loop"
    /\ pending[r] # {}
    /\ \/ Current(r) \in Rerunnable
       \/ \A s \in Runners : ~(InTransaction(s) /\ Current(s) = Current(r))
    /\ IF Current(r) \notin Rerunnable /\ effects[Current(r)] > 0
       THEN Goto(r, "failed")
       ELSE Goto(r, "executed")
    /\ UNCHANGED <<release, pending, applied, effects, faults>>

\* Mutant: INSERT ... ON CONFLICT DO NOTHING.
InsertVersionAnyway(r) ==
    /\ pc[r] = "executed"
    /\ Goto(r, "inserted")
    /\ UNCHANGED <<release, pending, applied, effects, faults>>

\* The primary key: waits for a transaction that has inserted the same version,
\* and fails, rolling back, when that version has been committed.
InsertVersion(r) ==
    /\ pc[r] = "executed"
    /\ \A s \in Runners : ~(pc[s] = "inserted" /\ Current(s) = Current(r))
    /\ Goto(r, IF Current(r) \in applied THEN "failed" ELSE "inserted")
    /\ UNCHANGED <<release, pending, applied, effects, faults>>

\* The SQL and the version row become visible together.
CommitMigration(r) ==
    /\ applied' = applied \cup {Current(r)}
    /\ effects' = [effects EXCEPT ![Current(r)] = @ + 1]
    /\ pending' = [pending EXCEPT ![r] = @ \ {Current(r)}]
    /\ UNCHANGED release

Commit(r) ==
    /\ pc[r] = "inserted"
    /\ CommitMigration(r)
    /\ Goto(r, "loop")
    /\ UNCHANGED faults

\* The transaction commits, and Up fails for want of an answer.
CommitLost(r) ==
    /\ pc[r] = "inserted"
    /\ CommitMigration(r)
    /\ Goto(r, "failed")
    /\ Fault

\* Mutant: a migration that fails is skipped.
FailAndContinue(r) ==
    /\ InTransaction(r)
    /\ Fault
    /\ Goto(r, "loop")
    /\ pending' = [pending EXCEPT ![r] = @ \ {Current(r)}]
    /\ UNCHANGED <<release, applied, effects>>

\* A statement fails, the context expires or the process dies: an open
\* transaction is rolled back and Up returns the error.
Fail(r) ==
    /\ pc[r] \notin {"idle", "done", "failed"}
    /\ Fault
    /\ Goto(r, "failed")
    /\ UNCHANGED <<release, pending, applied, effects>>

Finish(r) ==
    /\ pc[r] = "loop"
    /\ pending[r] = {}
    /\ Goto(r, "done")
    /\ UNCHANGED <<release, pending, applied, effects, faults>>

-----------------------------------------------------------------------------

\* What a run does by itself.
Proceed(r) ==
    \/ AppliedVersions(r)
    \/ ExecuteSQL(r)
    \/ InsertVersion(r)
    \/ Commit(r)
    \/ Finish(r)

MigrationNext ==
    \E r \in Runners : Up(r) \/ Proceed(r) \/ CommitLost(r) \/ Fail(r)

MigrationSpec == MigrationInit /\ [][MigrationNext]_migrationVars

\* Whoever sees a run fail starts another.
Rerun(r) == pc[r] = "failed" /\ Up(r)

-----------------------------------------------------------------------------
(* Properties *)

\* Every variable keeps its type, and a transaction is about some version.
MigrationTypeOK ==
    /\ pc \in [Runners -> Phases]
    /\ release \in [Runners -> SUBSET Versions]
    /\ pending \in [Runners -> SUBSET Versions]
    /\ applied \subseteq Versions
    /\ effects \in [Versions -> Nat]
    /\ faults \in Nat
    /\ \A r \in Runners : InTransaction(r) => pending[r] # {}

\* A migration has taken effect once if schema_migrations has its version and
\* never otherwise, although the runners read the table before they loop.
AppliedOnce ==
    \A v \in Versions : effects[v] = IF v \in applied THEN 1 ELSE 0

\* An Up that returns without an error leaves the database with every migration
\* of its release, whichever run applied it.
SuccessMeansMigrated ==
    \A r \in Runners : pc[r] = "done" => release[r] \subseteq applied

\* Whoever takes a migration off its list by applying it comes with all earlier ones of
\* its release applied, and nothing is ever unapplied.
InOrder ==
    [][/\ applied \subseteq applied'
       /\ \A v \in applied' \ applied :
              \E r \in Runners :
                  /\ v \in pending[r] \ pending'[r]
                  /\ \A w \in release[r] : w < v => w \in applied]_migrationVars

\* A run that fails half way, or loses a race, is completed by running it again.
RerunCompletes == \A r \in Runners : (pc[r] = "ensured") ~> (pc[r] = "done")

-----------------------------------------------------------------------------
(* The inductive invariant *)

\* What a run does not have pending of its release has been applied; a version
\* row that waits for its commit is in no other transaction, and is new.
MigrationInv ==
    /\ MigrationTypeOK
    /\ AppliedOnce
    /\ \A r \in Runners :
           pc[r] \in {"loop", "executed", "inserted", "done"} =>
               pending[r] \subseteq release[r] /\ release[r] \ pending[r] \subseteq applied
    /\ \A r \in Runners : pc[r] = "done" => pending[r] = {}
    /\ \A r \in Runners : pc[r] = "inserted" => Current(r) \notin applied
    /\ \A r, s \in Runners :
           pc[r] = "inserted" /\ pc[s] = "inserted" /\ Current(r) = Current(s) => r = s

=============================================================================
