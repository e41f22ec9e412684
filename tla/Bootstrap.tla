------------------------------- MODULE Bootstrap -------------------------------
(***************************************************************************)
(* Provisioning of a fresh database: the first administrator, created by   *)
(* SQLBootstrapStore.CreateAdmin (internal/auth/sqlstore.go) for           *)
(* `motekar-panel bootstrap admin` and for the installer, while the        *)
(* migrations that create its tables and seed its role run beside it.      *)
(*                                                                         *)
(* A process stands for the administrator it was asked to create: its      *)
(* rows in users, user_roles and audit_events, uncommitted in `draft` and  *)
(* committed in `rows`.  Statements read what is committed when they       *)
(* begin (READ COMMITTED).  That a statement waits for the table locks of  *)
(* a migration, and is cancelled when the two deadlock, is left to the     *)
(* timing of steps and to Abort.                                           *)
(***************************************************************************)
EXTENDS Migrations

CONSTANTS
    Bootstraps,   \* processes that create the first administrator
    NoOne,        \* nobody holds the advisory lock
    CoreVersion,  \* the migration that creates users, user_roles, audit_events
    SeedVersion   \* the migration that seeds the owner role

ASSUME BootstrapAssumptions ==
    /\ NoOne \notin Bootstraps
    /\ {CoreVersion, SeedVersion} \subseteq Versions

VARIABLES
    stage,    \* per process, how far CreateAdmin has come
    holder,   \* who holds the advisory lock motekar.bootstrap_admin
    draft,    \* rows written in the open transaction
    rows      \* committed rows

adminVars == <<stage, holder, draft, rows>>
vars == <<adminVars, migrationVars>>

Tables == {"users", "user_roles", "audit_events"}

Holding == {"locked", "counted", "inserted", "granted", "recorded"}
Ended == {"created", "refused", "failed"}
Stages == {"idle", "waiting"} \cup Holding \cup Ended

Init ==
    /\ MigrationInit
    /\ stage = [b \in Bootstraps |-> "idle"]
    /\ holder = NoOne
    /\ draft = [b \in Bootstraps |-> {}]
    /\ rows = [b \in Bootstraps |-> {}]

\* Some user is committed.
AdminExists == \E b \in Bootstraps : "users" \in rows[b]

Advance(b, next) == stage' = [stage EXCEPT ![b] = next]

Write(b, table) == draft' = [draft EXCEPT ![b] = @ \cup {table}]

\* Mutant: the transaction is left open.
LeaveOpen(b, outcome) ==
    /\ Advance(b, outcome)
    /\ draft' = [draft EXCEPT ![b] = {}]
    /\ UNCHANGED holder

\* The transaction ends, and the lock with it.
End(b, outcome) ==
    /\ Advance(b, outcome)
    /\ draft' = [draft EXCEPT ![b] = {}]
    /\ holder' = NoOne

-----------------------------------------------------------------------------
(* CreateAdmin, statement by statement *)

\* The input was accepted and the transaction has begun.
CreateAdmin(b) ==
    /\ stage[b] \in {"idle"} \cup Ended
    /\ Advance(b, "waiting")
    /\ UNCHANGED <<holder, draft, rows, migrationVars>>

\* Mutant: no advisory lock.
LockAnyway(b) ==
    /\ stage[b] = "waiting"
    /\ Advance(b, "locked")
    /\ UNCHANGED <<holder, draft, rows, migrationVars>>

Lock(b) ==
    /\ stage[b] = "waiting"
    /\ holder = NoOne
    /\ Advance(b, "locked")
    /\ holder' = b
    /\ UNCHANGED <<draft, rows, migrationVars>>

CountUsers(b) ==
    /\ stage[b] = "locked"
    /\ \/ /\ CoreVersion \notin applied
          /\ End(b, "failed")
       \/ /\ CoreVersion \in applied
          /\ AdminExists
          /\ End(b, "refused")
       \/ /\ CoreVersion \in applied
          /\ ~AdminExists
          /\ Advance(b, "counted")
          /\ UNCHANGED <<holder, draft>>
    /\ UNCHANGED <<rows, migrationVars>>

InsertUser(b) ==
    /\ stage[b] = "counted"
    /\ Advance(b, "inserted")
    /\ Write(b, "users")
    /\ UNCHANGED <<holder, rows, migrationVars>>

\* Mutant: the number of affected rows is not looked at.
GrantOwnerIfAny(b) ==
    /\ stage[b] = "inserted"
    /\ Advance(b, "granted")
    /\ IF SeedVersion \in applied THEN Write(b, "user_roles") ELSE UNCHANGED draft
    /\ UNCHANGED <<holder, rows, migrationVars>>

\* INSERT ... SELECT from roles affects no row before the role is seeded.
GrantOwner(b) ==
    /\ stage[b] = "inserted"
    /\ IF SeedVersion \in applied
       THEN Advance(b, "granted") /\ Write(b, "user_roles") /\ UNCHANGED holder
       ELSE End(b, "failed")
    /\ UNCHANGED <<rows, migrationVars>>

RecordAudit(b) ==
    /\ stage[b] = "granted"
    /\ Advance(b, "recorded")
    /\ Write(b, "audit_events")
    /\ UNCHANGED <<holder, rows, migrationVars>>

\* Mutant: the transaction is rolled back on return.
CommitForgotten(b) ==
    /\ stage[b] = "recorded"
    /\ End(b, "created")
    /\ UNCHANGED <<rows, migrationVars>>

CommitAdmin(b) ==
    /\ stage[b] = "recorded"
    /\ rows' = [rows EXCEPT ![b] = @ \cup draft[b]]
    /\ End(b, "created")
    /\ UNCHANGED migrationVars

\* The transaction commits, and CreateAdmin fails for want of an answer.
CommitAdminLost(b) ==
    /\ stage[b] = "recorded"
    /\ rows' = [rows EXCEPT ![b] = @ \cup draft[b]]
    /\ End(b, "failed")
    /\ Fault
    /\ UNCHANGED <<pc, release, pending, applied, effects>>

\* A statement fails, the context expires or the process dies; a process that
\* waits for the lock gives up without it.
Abort(b) ==
    /\ stage[b] \in Holding \cup {"waiting"}
    /\ Fault
    /\ IF stage[b] = "waiting" THEN Advance(b, "failed") /\ UNCHANGED <<holder, draft>>
                               ELSE End(b, "failed")
    /\ UNCHANGED <<rows, pc, release, pending, applied, effects>>

-----------------------------------------------------------------------------

\* What CreateAdmin does by itself once it has the lock.
Work(b) ==
    \/ CountUsers(b)
    \/ InsertUser(b)
    \/ GrantOwner(b)
    \/ RecordAudit(b)
    \/ CommitAdmin(b)

Next ==
    \/ \E b \in Bootstraps :
           CreateAdmin(b) \/ Lock(b) \/ Work(b) \/ CommitAdminLost(b) \/ Abort(b)
    \/ MigrationNext /\ UNCHANGED adminVars

Spec == Init /\ [][Next]_vars

\* Transactions come to an end, PostgreSQL grants a lock in the order of its
\* requests, and whoever sees a run or a bootstrap fail starts another.
FairSpec ==
    /\ Spec
    /\ \A r \in Runners :
           /\ WF_vars(Proceed(r) /\ UNCHANGED adminVars)
           /\ WF_vars(Rerun(r) /\ UNCHANGED adminVars)
    /\ \A b \in Bootstraps :
           /\ WF_vars(Work(b))
           /\ SF_vars(Lock(b))
           /\ WF_vars(stage[b] = "failed" /\ CreateAdmin(b))

-----------------------------------------------------------------------------
(* Properties *)

\* Every variable keeps its type.
TypeOK ==
    /\ MigrationTypeOK
    /\ stage \in [Bootstraps -> Stages]
    /\ holder \in Bootstraps \cup {NoOne}
    /\ draft \in [Bootstraps -> SUBSET Tables]
    /\ rows \in [Bootstraps -> SUBSET Tables]

\* Bootstraps that race, or are repeated after a lost answer, create at most one
\* first administrator.
OneFirstAdmin ==
    \A b, c \in Bootstraps : "users" \in rows[b] /\ "users" \in rows[c] => b = c

\* An administrator has its owner role and its audit event, even one created while
\* the role is being seeded, and there is neither without the administrator.
AdminComplete == \A b \in Bootstraps : rows[b] \in {{}, Tables}

\* Success, and the refusal because an administrator exists, are true.
AnswerTrue == \A b \in Bootstraps : stage[b] \in {"created", "refused"} => AdminExists

\* Once the migrations are applied a bootstrap that is repeated after failures ends
\* with an administrator: no race leaves the lock taken.
BootstrapEnds ==
    \A b \in Bootstraps :
        ({CoreVersion, SeedVersion} \subseteq applied /\ stage[b] = "waiting")
            ~> stage[b] \in {"created", "refused"}

=============================================================================
