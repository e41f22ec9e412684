---------------------------- MODULE BootstrapProofs ----------------------------
(***************************************************************************)
(* Proofs about Bootstrap, for any number of processes, beside any         *)
(* migration runs.                                                         *)
(***************************************************************************)
EXTENDS Bootstrap, MigrationsProofs

-----------------------------------------------------------------------------
(* The inductive invariant *)

\* The rows a transaction has written by its stage.
Written ==
    [s \in Stages |->
        CASE s = "inserted" -> {"users"}
          [] s = "granted"  -> {"users", "user_roles"}
          [] s = "recorded" -> Tables
          [] OTHER          -> {}]

\* The holder of the lock is the only transaction at work, and from its count on
\* there is no administrator until it commits.
BootstrapInv ==
    /\ TypeOK
    /\ \A b \in Bootstraps : (holder = b) <=> (stage[b] \in Holding)
    /\ \A b \in Bootstraps : draft[b] = Written[stage[b]]
    /\ \A b \in Bootstraps : stage[b] \in Holding \ {"locked"} => ~AdminExists
    /\ OneFirstAdmin
    /\ AdminComplete
    /\ AnswerTrue

-----------------------------------------------------------------------------

LEMMA InitBootstrapInv == Init => BootstrapInv
<1> SUFFICES ASSUME Init
             PROVE  BootstrapInv
  OBVIOUS
<1>1. MigrationTypeOK
  BY InitMigrationInv DEF Init, MigrationInv
<1>2. Written["idle"] = {}
  BY DEF Written, Stages
<1> QED
  BY <1>1, <1>2, BootstrapAssumptions
  DEF Init, BootstrapInv, TypeOK, AdminExists, OneFirstAdmin, AdminComplete, AnswerTrue,
      Stages, Holding, Ended, Tables

\* A step of b that commits nothing keeps the invariant if it keeps what the
\* invariant says of b and the lock.
LEMMA UncommittedPreserves ==
    ASSUME BootstrapInv, MigrationTypeOK', UNCHANGED rows, NEW b \in Bootstraps,
           NEW s \in Stages, stage' = [stage EXCEPT ![b] = s],
           NEW D \in SUBSET Tables, draft' = [draft EXCEPT ![b] = D], D = Written[s],
           \/ s \in Holding /\ holder' = b /\ holder \in {b, NoOne}
           \/ s \notin Holding /\ stage[b] \in Holding /\ holder' = NoOne
           \/ s \notin Holding /\ stage[b] \notin Holding /\ UNCHANGED holder,
           s \in Holding \ {"locked"} => ~AdminExists,
           s \in {"created", "refused"} => AdminExists
    PROVE  BootstrapInv'
<1> USE DEF BootstrapInv, TypeOK
<1>1. TypeOK'
  BY BootstrapAssumptions
<1>2. (\A c \in Bootstraps : (holder = c) <=> (stage[c] \in Holding))'
  BY BootstrapAssumptions
<1>3. (\A c \in Bootstraps : draft[c] = Written[stage[c]])'
  OBVIOUS
<1>4. AdminExists' = AdminExists
  BY DEF AdminExists
<1>5. (\A c \in Bootstraps : stage[c] \in Holding \ {"locked"} => ~AdminExists)'
  BY <1>4
<1>6. OneFirstAdmin' /\ AdminComplete' /\ AnswerTrue'
  BY <1>4 DEF OneFirstAdmin, AdminComplete, AnswerTrue
<1> QED
  BY <1>1, <1>2, <1>3, <1>5, <1>6

\* A commit: the holder's rows are the first ones.
LEMMA CommitAdminPreserves ==
    ASSUME BootstrapInv, MigrationTypeOK', NEW b \in Bootstraps, stage[b] = "recorded",
           rows' = [rows EXCEPT ![b] = @ \cup draft[b]],
           NEW s \in {"created", "failed"}, End(b, s)
    PROVE  BootstrapInv'
<1> USE DEF BootstrapInv, TypeOK, End, Advance
<1>0. /\ draft[b] = Tables /\ ~AdminExists /\ holder = b
      /\ s \in Stages /\ s \notin Holding /\ Written[s] = {}
  BY DEF Written, Stages, Holding, Ended
<1>1. rows'[b] = Tables /\ \A c \in Bootstraps : c # b => rows'[c] = rows[c] /\ rows[c] = {}
  BY <1>0 DEF AdminExists, AdminComplete, Tables
<1>2. AdminExists' /\ OneFirstAdmin' /\ AdminComplete'
  BY <1>1 DEF AdminExists, OneFirstAdmin, AdminComplete, Tables
<1>3. TypeOK'
  BY <1>0, <1>1
<1>4. \A c \in Bootstraps : c # b => stage'[c] = stage[c] /\ stage[c] \notin Holding
  BY <1>0
<1>5. stage'[b] = s /\ holder' = NoOne
  OBVIOUS
<1>6. (\A c \in Bootstraps : (holder = c) <=> (stage[c] \in Holding))'
  BY <1>0, <1>4, <1>5, BootstrapAssumptions
<1>7. (\A c \in Bootstraps : draft[c] = Written[stage[c]])'
  BY <1>0
<1>8. (\A c \in Bootstraps : stage[c] \in Holding \ {"locked"} => ~AdminExists)'
  BY <1>0, <1>4, <1>5
<1>9. AnswerTrue'
  BY <1>2 DEF AnswerTrue
<1> QED
  BY <1>2, <1>3, <1>6, <1>7, <1>8, <1>9

\* What a bootstrap does preserves the invariant.
LEMMA BootstrapStepPreserves ==
    ASSUME BootstrapInv, NEW b \in Bootstraps,
           CreateAdmin(b) \/ Lock(b) \/ Work(b) \/ CommitAdminLost(b) \/ Abort(b)
    PROVE  BootstrapInv'
<1> USE DEF Holding, Ended, Stages, Tables
<1>1. /\ MigrationTypeOK /\ stage[b] \in Stages /\ draft[b] = Written[stage[b]]
      /\ (holder = b) <=> (stage[b] \in Holding)
      /\ stage[b] \in Holding \ {"locked"} => ~AdminExists
      /\ \A s \in Stages : Written[s] \in SUBSET Tables
  BY DEF BootstrapInv, TypeOK, Written
<1>2. MigrationTypeOK'
  <2>1. faults \in Nat /\ MaxFaults \in Nat
    BY <1>1, MigrationAssumptions DEF MigrationTypeOK
  <2>2. UNCHANGED <<pc, release, pending, applied, effects>> /\ faults' \in Nat
    BY <2>1 DEF CreateAdmin, Lock, Work, CommitAdminLost, Abort, CountUsers, InsertUser,
                GrantOwner, RecordAudit, CommitAdmin, Fault, migrationVars
  <2> QED
    BY <1>1, <2>2 DEF MigrationTypeOK, InTransaction
<1>3. draft \in [Bootstraps -> SUBSET Tables] /\ draft = [draft EXCEPT ![b] = draft[b]]
  BY DEF BootstrapInv, TypeOK
<1>4. CASE CreateAdmin(b)
  <2>1. Written["waiting"] = {} /\ draft[b] = {}
    BY <1>1, <1>4 DEF CreateAdmin, Written
  <2>2. /\ UNCHANGED <<rows, holder>> /\ stage' = [stage EXCEPT ![b] = "waiting"]
        /\ draft' = [draft EXCEPT ![b] = {}] /\ stage[b] \notin Holding
    BY <1>3, <1>4, <2>1 DEF CreateAdmin, Advance
  <2>3. /\ "waiting" \in Stages /\ "waiting" \notin Holding
        /\ "waiting" \notin {"created", "refused"} /\ {} \in SUBSET Tables
    OBVIOUS
  <2> HIDE DEF Stages, Holding, Tables
  <2> QED
    BY <1>2, <2>1, <2>2, <2>3, UncommittedPreserves
<1>5. CASE Lock(b)
  <2>1. Written["locked"] = {} /\ draft[b] = {}
    BY <1>1, <1>5 DEF Lock, Written
  <2>2. /\ UNCHANGED rows /\ stage' = [stage EXCEPT ![b] = "locked"]
        /\ draft' = [draft EXCEPT ![b] = {}] /\ holder = NoOne /\ holder' = b
    BY <1>3, <1>5, <2>1 DEF Lock, Advance
  <2> QED
    BY <1>2, <2>1, <2>2, UncommittedPreserves
<1>6. ASSUME NEW s \in Ended, stage[b] \in Holding, End(b, s), UNCHANGED rows,
             s \in {"created", "refused"} => AdminExists
      PROVE  BootstrapInv'
  <2>1. Written[s] = {} /\ s \notin Holding
    BY DEF Written
  <2>2. /\ stage' = [stage EXCEPT ![b] = s] /\ draft' = [draft EXCEPT ![b] = {}]
        /\ holder' = NoOne
    BY <1>6 DEF End, Advance
  <2> QED
    BY <1>2, <1>6, <2>1, <2>2, UncommittedPreserves
<1>7. ASSUME stage[b] \in Holding, NEW s \in Holding \ {"locked"}, Advance(b, s),
             UNCHANGED <<holder, rows>>, draft' = [draft EXCEPT ![b] = Written[s]],
             ~AdminExists
      PROVE  BootstrapInv'
  BY <1>1, <1>2, <1>7, UncommittedPreserves DEF Advance
<1>8. CASE CountUsers(b)
  <2>1. CASE End(b, "failed") \/ (End(b, "refused") /\ AdminExists)
    BY <1>6, <1>8, <2>1 DEF CountUsers
  <2>2. CASE Advance(b, "counted") /\ ~AdminExists /\ UNCHANGED <<holder, draft>>
    <3>1. Written["locked"] = Written["counted"]
      BY DEF Written
    <3> QED
      BY <1>1, <1>3, <1>7, <1>8, <2>2, <3>1 DEF CountUsers
  <2> QED
    BY <1>8, <2>1, <2>2 DEF CountUsers
<1>9. CASE InsertUser(b)
  <2>1. Written["inserted"] = Written["counted"] \cup {"users"}
    BY DEF Written
  <2>2. draft' = [draft EXCEPT ![b] = Written["inserted"]]
    BY <1>1, <1>3, <1>9, <2>1 DEF InsertUser, Write
  <2> QED
    BY <1>1, <1>7, <1>9, <2>2 DEF InsertUser
<1>10. CASE GrantOwner(b)
  <2>1. CASE End(b, "failed")
    BY <1>6, <1>10, <2>1 DEF GrantOwner
  <2>2. CASE Advance(b, "granted") /\ Write(b, "user_roles") /\ UNCHANGED holder
    <3>1. Written["granted"] = Written["inserted"] \cup {"user_roles"}
      BY DEF Written
    <3>2. draft' = [draft EXCEPT ![b] = Written["granted"]]
      BY <1>1, <1>3, <1>10, <2>2, <3>1 DEF GrantOwner, Write
    <3> QED
      BY <1>1, <1>7, <1>10, <2>2, <3>2 DEF GrantOwner
  <2> QED
    BY <1>10, <2>1, <2>2 DEF GrantOwner
<1>11. CASE RecordAudit(b)
  <2>1. Written["recorded"] = Written["granted"] \cup {"audit_events"}
    BY DEF Written
  <2>2. draft' = [draft EXCEPT ![b] = Written["recorded"]]
    BY <1>1, <1>3, <1>11, <2>1 DEF RecordAudit, Write
  <2> QED
    BY <1>1, <1>7, <1>11, <2>2 DEF RecordAudit
<1>12. CASE CommitAdmin(b) \/ CommitAdminLost(b)
  BY <1>2, <1>12, CommitAdminPreserves DEF CommitAdmin, CommitAdminLost
<1>13. CASE Abort(b)
  <2>1. CASE stage[b] = "waiting"
    <3>1. Written["failed"] = {} /\ draft[b] = {}
      BY <1>1, <2>1 DEF Written
    <3>2. /\ UNCHANGED <<rows, holder>> /\ stage' = [stage EXCEPT ![b] = "failed"]
          /\ draft' = [draft EXCEPT ![b] = {}]
      BY <1>3, <1>13, <2>1, <3>1 DEF Abort, Advance
    <3>3. /\ "failed" \in Stages /\ "failed" \notin Holding /\ stage[b] \notin Holding
          /\ "failed" \notin {"created", "refused"} /\ {} \in SUBSET Tables
      BY <2>1
    <3> HIDE DEF Stages, Holding, Tables
    <3> QED
      BY <1>2, <3>1, <3>2, <3>3, UncommittedPreserves
  <2>2. CASE stage[b] # "waiting"
    BY <1>6, <1>13, <2>2 DEF Abort
  <2> QED
    BY <2>1, <2>2
<1> QED
  BY <1>4, <1>5, <1>8, <1>9, <1>10, <1>11, <1>12, <1>13 DEF Work

\* A migration runner touches neither the lock nor the administrators.
LEMMA MigrationStepPreserves ==
    ASSUME BootstrapInv, UNCHANGED adminVars, MigrationTypeOK'
    PROVE  BootstrapInv'
  BY DEF adminVars, BootstrapInv, TypeOK, AdminExists, OneFirstAdmin, AdminComplete,
         AnswerTrue

\* Every step keeps both invariants; of the runners BootstrapInv needs only the types.
LEMMA NextBootstrapInv ==
    BootstrapInv /\ MigrationInv /\ [Next]_vars => BootstrapInv' /\ MigrationInv'
<1> SUFFICES ASSUME BootstrapInv, MigrationInv, [Next]_vars
             PROVE  BootstrapInv' /\ MigrationInv'
  OBVIOUS
<1>1. CASE UNCHANGED vars
  <2>1. UNCHANGED adminVars /\ UNCHANGED migrationVars
    BY <1>1 DEF vars
  <2>2. MigrationInv'
    BY <2>1, NextMigrationInv
  <2> QED
    BY <2>1, <2>2, MigrationStepPreserves DEF MigrationInv
<1>2. CASE MigrationNext /\ UNCHANGED adminVars
  <2>1. MigrationInv'
    BY <1>2, NextMigrationInv
  <2> QED
    BY <1>2, <2>1, MigrationStepPreserves DEF MigrationInv
<1>3. ASSUME NEW b \in Bootstraps,
             CreateAdmin(b) \/ Lock(b) \/ Work(b) \/ CommitAdminLost(b) \/ Abort(b)
      PROVE  BootstrapInv' /\ MigrationInv'
  <2>1. BootstrapInv'
    BY <1>3, BootstrapStepPreserves
  <2>2. UNCHANGED <<pc, release, pending, applied, effects>>
    BY <1>3 DEF CreateAdmin, Lock, Work, CommitAdminLost, Abort, CountUsers, InsertUser,
                GrantOwner, RecordAudit, CommitAdmin, migrationVars
  <2>3. MigrationTypeOK'
    BY <2>1 DEF BootstrapInv, TypeOK
  <2>4. \A r \in Runners : Current(r)' = Current(r)
    BY <2>2 DEF Current
  <2>5. MigrationInv'
    BY <2>2, <2>3, <2>4 DEF MigrationInv, AppliedOnce
  <2> QED
    BY <2>1, <2>5
<1> QED
  BY <1>1, <1>2, <1>3 DEF Next

-----------------------------------------------------------------------------

\* The invariant holds for any number of bootstraps, beside any migration runs.
THEOREM BootstrapInvariant == Spec => [](BootstrapInv /\ MigrationInv)
<1>1. Init => BootstrapInv /\ MigrationInv
  BY InitBootstrapInv, InitMigrationInv DEF Init
<1> QED
  BY <1>1, NextBootstrapInv, PTL DEF Spec

\* There is at most one first administrator.
THEOREM OneFirstAdminTheorem == Spec => []OneFirstAdmin
<1>1. BootstrapInv => OneFirstAdmin
  BY DEF BootstrapInv
<1> QED
  BY <1>1, BootstrapInvariant, PTL

\* An administrator comes with its role and its audit event, or not at all.
THEOREM AdminCompleteTheorem == Spec => []AdminComplete
<1>1. BootstrapInv => AdminComplete
  BY DEF BootstrapInv
<1> QED
  BY <1>1, BootstrapInvariant, PTL

\* Neither answer is given without an administrator.
THEOREM AnswerTrueTheorem == Spec => []AnswerTrue
<1>1. BootstrapInv => AnswerTrue
  BY DEF BootstrapInv
<1> QED
  BY <1>1, BootstrapInvariant, PTL

-----------------------------------------------------------------------------
(* The first administrator comes at once, and on a schema that is ready for it *)

\* What a transaction has read of the schema stays true until it commits.
SchemaRead ==
    /\ \A b \in Bootstraps : stage[b] \in Holding \ {"locked"} => CoreVersion \in applied
    /\ \A b \in Bootstraps : stage[b] \in {"granted", "recorded"} => SeedVersion \in applied
    /\ AdminExists => {CoreVersion, SeedVersion} \subseteq applied

\* Rows of an administrator are committed all together, by one bootstrap, when nobody has
\* any and the tables and the owner role have been migrated; none of them changes later.
FirstAdminStep ==
    \A b \in Bootstraps : rows'[b] # rows[b] =>
        /\ rows'[b] = Tables
        /\ \A c \in Bootstraps : rows[c] = {}
        /\ \A c \in Bootstraps \ {b} : rows'[c] = {}
        /\ {CoreVersion, SeedVersion} \subseteq applied

FirstAdminAtOnce == [][FirstAdminStep]_rows

\* No step takes a migration back.
LEMMA AppliedGrows == Next => applied \subseteq applied'
<1>1. ASSUME NEW r \in Runners, Up(r) \/ Proceed(r) \/ CommitLost(r) \/ Fail(r)
      PROVE  applied \subseteq applied'
  BY <1>1 DEF Up, Proceed, AppliedVersions, ExecuteSQL, InsertVersion, Commit, Finish,
     CommitLost, Fail, CommitMigration
<1>2. ASSUME NEW b \in Bootstraps,
             CreateAdmin(b) \/ Lock(b) \/ Work(b) \/ CommitAdminLost(b) \/ Abort(b)
      PROVE  applied \subseteq applied'
  BY <1>2 DEF CreateAdmin, Lock, Work, CommitAdminLost, Abort, CountUsers, InsertUser,
     GrantOwner, RecordAudit, CommitAdmin, migrationVars
<1> QED
  BY <1>1, <1>2 DEF Next, MigrationNext

\* A bootstrap's own step: what it reads, and what it commits.
LEMMA SchemaStep ==
    ASSUME BootstrapInv, SchemaRead, NEW b \in Bootstraps,
           CreateAdmin(b) \/ Lock(b) \/ Work(b) \/ CommitAdminLost(b) \/ Abort(b)
    PROVE  SchemaRead' /\ FirstAdminStep
<1>0. /\ stage \in [Bootstraps -> Stages] /\ rows \in [Bootstraps -> SUBSET Tables]
      /\ UNCHANGED applied
  BY DEF BootstrapInv, TypeOK, CreateAdmin, Lock, Work, CommitAdminLost, Abort,
     CountUsers, InsertUser, GrantOwner, RecordAudit, CommitAdmin, migrationVars
<1>1. \A c \in Bootstraps \ {b} : stage'[c] = stage[c]
  BY <1>0 DEF CreateAdmin, Lock, Work, CommitAdminLost, Abort, CountUsers, InsertUser,
     GrantOwner, RecordAudit, CommitAdmin, Advance, End
<1>2. /\ stage'[b] \in Holding \ {"locked"} => CoreVersion \in applied
      /\ stage'[b] \in {"granted", "recorded"} => SeedVersion \in applied
  BY <1>0 DEF SchemaRead, Holding, CreateAdmin, Lock, Work, CommitAdminLost, Abort,
     CountUsers, InsertUser, GrantOwner, RecordAudit, CommitAdmin, Advance, End
<1>3. CASE UNCHANGED rows
  BY <1>0, <1>1, <1>2, <1>3 DEF SchemaRead, FirstAdminStep, AdminExists
<1>4. CASE CommitAdmin(b) \/ CommitAdminLost(b)
  <2>1. stage[b] = "recorded" /\ rows' = [rows EXCEPT ![b] = @ \cup draft[b]]
    BY <1>4 DEF CommitAdmin, CommitAdminLost
  <2>2. draft[b] = Tables /\ ~AdminExists
    BY <2>1 DEF BootstrapInv, Written, Stages, Holding
  <2>3. \A c \in Bootstraps : rows[c] = {}
    BY <2>2 DEF BootstrapInv, AdminComplete, AdminExists, Tables
  <2>4. {CoreVersion, SeedVersion} \subseteq applied
    BY <2>1 DEF SchemaRead, Holding
  <2>5. rows'[b] = Tables /\ \A c \in Bootstraps \ {b} : rows'[c] = {}
    BY <1>0, <2>1, <2>2, <2>3
  <2> QED
    BY <1>0, <1>1, <1>2, <2>3, <2>4, <2>5 DEF SchemaRead, FirstAdminStep
<1>5. UNCHANGED rows \/ CommitAdmin(b) \/ CommitAdminLost(b)
  BY DEF CreateAdmin, Lock, Work, Abort, CountUsers, InsertUser, GrantOwner, RecordAudit
<1> QED
  BY <1>3, <1>4, <1>5

\* Every step, also one that leaves the database alone.
LEMMA SchemaNext ==
    ASSUME BootstrapInv, SchemaRead, Next \/ UNCHANGED <<stage, rows, applied>>
    PROVE  SchemaRead' /\ FirstAdminStep
<1>1. CASE UNCHANGED <<stage, rows>> /\ applied \subseteq applied'
  BY <1>1 DEF SchemaRead, FirstAdminStep, AdminExists
<1>2. CASE MigrationNext /\ UNCHANGED adminVars
  BY <1>1, <1>2, AppliedGrows DEF Next, adminVars
<1> QED
  BY <1>1, <1>2, SchemaStep DEF Next

LEMMA InitSchema == Init => SchemaRead
BY DEF Init, SchemaRead, AdminExists, Holding

\* One bootstrap, once, and never on a schema without the owner role: the count, the
\* grant and the commit are statements apart, and others run between them.
THEOREM FirstAdminTheorem == Spec => FirstAdminAtOnce
<1>1. BootstrapInv /\ SchemaRead /\ [Next]_vars => SchemaRead' /\ [FirstAdminStep]_rows
  BY SchemaNext DEF vars, adminVars, migrationVars
<1> QED
  BY <1>1, InitSchema, BootstrapInvariant, PTL DEF Spec, FirstAdminAtOnce

=============================================================================
