--------------------------- MODULE MigrationsProofs ---------------------------
(***************************************************************************)
(* Proofs about Migrations, for any runners, releases and faults.          *)
(***************************************************************************)
EXTENDS Migrations, WellFoundedInduction, TLAPS

\* The loop of Up has a next migration as long as any is pending.
LEMMA LeastExists ==
    ASSUME NEW S \in SUBSET Nat, S # {}
    PROVE  \E v \in S : \A w \in S : v <= w
<1>1. IsWellFoundedOn(OpToRel(<, Nat), Nat)
  BY NatLessThanWellFounded
<1>2. PICK v \in S : \A w \in S : <<w, v>> \notin OpToRel(<, Nat)
  BY <1>1, WFMin
<1>3. \A w \in S : ~(w < v)
  BY <1>2 DEF OpToRel
<1> QED
  BY <1>3

\* What Current returns: the least pending version.
LEMMA CurrentIsLeast ==
    ASSUME MigrationTypeOK, NEW r \in Runners, pending[r] # {}
    PROVE  /\ Current(r) \in pending[r]
           /\ Current(r) \in Versions
           /\ \A w \in pending[r] : Current(r) <= w
<1>1. pending[r] \in SUBSET Nat
  BY MigrationAssumptions DEF MigrationTypeOK
<1>2. \E v \in pending[r] : \A w \in pending[r] : v <= w
  BY <1>1, LeastExists
<1>3. Current(r) \in pending[r] /\ \A w \in pending[r] : Current(r) <= w
  BY <1>2 DEF Current
<1> QED
  BY <1>3 DEF MigrationTypeOK

LEMMA InitMigrationInv == MigrationInit => MigrationInv
  BY DEF MigrationInit, MigrationInv, MigrationTypeOK, AppliedOnce, Phases,
         InTransaction

\* A step of r that leaves the table and the schema alone keeps the invariant if it
\* keeps what the invariant says of r.
LEMMA LocalPreserves ==
    ASSUME MigrationInv, NEW r \in Runners,
           UNCHANGED <<applied, effects>>, faults' \in Nat,
           NEW p \in Phases, pc' = [pc EXCEPT ![r] = p],
           NEW R \in SUBSET Versions, release' = [release EXCEPT ![r] = R],
           NEW P \in SUBSET Versions, pending' = [pending EXCEPT ![r] = P],
           p \in {"executed", "inserted"} => P # {} /\ P = pending[r],
           p \in {"loop", "executed", "inserted", "done"} =>
               P \subseteq R /\ R \ P \subseteq applied,
           p = "done" => P = {},
           p = "inserted" =>
               /\ Current(r) \notin applied
               /\ \A s \in Runners : ~(pc[s] = "inserted" /\ Current(s) = Current(r))
    PROVE  MigrationInv'
<1> USE DEF MigrationInv, MigrationTypeOK
<1>1. MigrationTypeOK'
  BY DEF InTransaction
<1>2. AppliedOnce'
  BY DEF AppliedOnce
<1>3. \A s \in Runners : s # r => Current(s)' = Current(s) /\ pc'[s] = pc[s]
  BY DEF Current
<1>4. p = "inserted" => Current(r)' = Current(r)
  BY DEF Current
<1>5. (\A s \in Runners :
          pc[s] \in {"loop", "executed", "inserted", "done"} =>
              pending[s] \subseteq release[s] /\ release[s] \ pending[s] \subseteq applied)'
  OBVIOUS
<1>6. (\A s \in Runners : pc[s] = "done" => pending[s] = {})'
  OBVIOUS
<1>7. (\A s \in Runners : pc[s] = "inserted" => Current(s) \notin applied)'
  BY <1>3, <1>4
<1>8. (\A s, t \in Runners :
          pc[s] = "inserted" /\ pc[t] = "inserted" /\ Current(s) = Current(t) => s = t)'
  BY <1>3, <1>4
<1> QED
  BY <1>1, <1>2, <1>5, <1>6, <1>7, <1>8

\* A commit, whether or not its answer arrives.
LEMMA CommitPreserves ==
    ASSUME MigrationInv, NEW r \in Runners, pc[r] = "inserted",
           CommitMigration(r), faults' \in Nat,
           NEW p \in {"loop", "failed"}, Goto(r, p)
    PROVE  MigrationInv'
<1> USE DEF MigrationInv, MigrationTypeOK, CommitMigration, Goto
<1>0. Current(r) \in pending[r] /\ Current(r) \in Versions /\ Current(r) \notin applied
  BY CurrentIsLeast DEF InTransaction
<1>1. MigrationTypeOK'
  <2>1. effects' \in [Versions -> Nat]
    BY <1>0
  <2> QED
    BY <1>0, <2>1 DEF Phases, InTransaction
<1>2. AppliedOnce'
  BY <1>0 DEF AppliedOnce
<1>3. \A s \in Runners : s # r => Current(s)' = Current(s) /\ pc'[s] = pc[s]
  BY DEF Current
<1>4. pc'[r] = p /\ pending'[r] = pending[r] \ {Current(r)}
  OBVIOUS
<1>5. (\A s \in Runners :
          pc[s] \in {"loop", "executed", "inserted", "done"} =>
              pending[s] \subseteq release[s] /\ release[s] \ pending[s] \subseteq applied)'
  BY <1>0, <1>4
<1>6. (\A s \in Runners : pc[s] = "done" => pending[s] = {})'
  BY <1>4
<1>7. (\A s \in Runners : pc[s] = "inserted" => Current(s) \notin applied)'
  BY <1>3, <1>4
<1>8. (\A s, t \in Runners :
          pc[s] = "inserted" /\ pc[t] = "inserted" /\ Current(s) = Current(t) => s = t)'
  BY <1>3, <1>4
<1> QED
  BY <1>1, <1>2, <1>5, <1>6, <1>7, <1>8

\* Every step of the runners preserves the invariant.
LEMMA NextMigrationInv ==
    MigrationInv /\ [MigrationNext]_migrationVars => MigrationInv'
<1> SUFFICES ASSUME MigrationInv, [MigrationNext]_migrationVars
             PROVE  MigrationInv'
  OBVIOUS
<1> USE DEF Goto, Phases
<1>0. MigrationTypeOK /\ faults \in Nat /\ MaxFaults \in Nat
  BY MigrationAssumptions DEF MigrationInv, MigrationTypeOK
<1>1. CASE UNCHANGED migrationVars
  <2>1. UNCHANGED <<pc, release, pending, applied, effects, faults>>
    BY <1>1 DEF migrationVars
  <2>2. \A r \in Runners : Current(r)' = Current(r)
    BY <2>1 DEF Current
  <2> QED
    BY <2>1, <2>2 DEF MigrationInv, MigrationTypeOK, AppliedOnce, InTransaction
<1>2. ASSUME NEW r \in Runners, Up(r)
      PROVE  MigrationInv'
  <2>1. PICK found \in Releases : release' = [release EXCEPT ![r] = found]
    BY <1>2 DEF Up
  <2>2. found \in SUBSET Versions /\ pending[r] \in SUBSET Versions
    BY <1>0, MigrationAssumptions DEF MigrationTypeOK
  <2>3. pending' = [pending EXCEPT ![r] = pending[r]]
    BY <1>0, <1>2 DEF Up, MigrationTypeOK
  <2> QED
    BY <1>0, <1>2, <2>1, <2>2, <2>3, LocalPreserves DEF Up
<1>3. ASSUME NEW r \in Runners, AppliedVersions(r)
      PROVE  MigrationInv'
  <2>1. release' = [release EXCEPT ![r] = release[r]] /\ release[r] \in SUBSET Versions
    BY <1>0, <1>3 DEF AppliedVersions, MigrationTypeOK
  <2> DEFINE P == release[r] \ applied
  <2>2. P \in SUBSET Versions /\ P \subseteq release[r] /\ release[r] \ P \subseteq applied
    BY <2>1
  <2>3. /\ UNCHANGED <<applied, effects, faults>> /\ pc' = [pc EXCEPT ![r] = "loop"]
        /\ pending' = [pending EXCEPT ![r] = P]
    BY <1>3 DEF AppliedVersions
  <2> HIDE DEF P
  <2> QED
    BY <1>0, <2>1, <2>2, <2>3, LocalPreserves
<1>4. ASSUME NEW r \in Runners, ExecuteSQL(r) \/ InsertVersion(r) \/ Fail(r) \/ Finish(r)
      PROVE  MigrationInv'
  <2>1. /\ release' = [release EXCEPT ![r] = release[r]] /\ release[r] \in SUBSET Versions
        /\ pending' = [pending EXCEPT ![r] = pending[r]] /\ pending[r] \in SUBSET Versions
    BY <1>0, <1>4 DEF ExecuteSQL, InsertVersion, Fail, Finish, MigrationTypeOK
  <2>2. pc[r] \in {"loop", "executed", "inserted", "done"} =>
            pending[r] \subseteq release[r] /\ release[r] \ pending[r] \subseteq applied
    BY DEF MigrationInv
  <2>3. CASE ExecuteSQL(r)
    <3>1. PICK p \in {"failed", "executed"} : pc' = [pc EXCEPT ![r] = p]
      BY <2>3 DEF ExecuteSQL
    <3>2. pc[r] = "loop" /\ pending[r] # {} /\ UNCHANGED <<applied, effects, faults>>
      BY <2>3 DEF ExecuteSQL
    <3> QED
      BY <1>0, <2>1, <2>2, <3>1, <3>2, LocalPreserves
  <2>4. CASE InsertVersion(r)
    <3>1. PICK p \in {"failed", "inserted"} :
              pc' = [pc EXCEPT ![r] = p] /\ (p = "inserted" => Current(r) \notin applied)
      BY <2>4 DEF InsertVersion
    <3>2. /\ pc[r] = "executed" /\ UNCHANGED <<applied, effects, faults>>
          /\ \A s \in Runners : ~(pc[s] = "inserted" /\ Current(s) = Current(r))
      BY <2>4 DEF InsertVersion
    <3>3. pending[r] # {}
      BY <1>0, <3>2 DEF MigrationTypeOK, InTransaction
    <3> QED
      BY <1>0, <2>1, <2>2, <3>1, <3>2, <3>3, LocalPreserves
  <2>5. CASE Fail(r)
    <3>1. faults' \in Nat
      BY <1>0, <2>5 DEF Fail, Fault
    <3> QED
      BY <2>1, <2>5, <3>1, LocalPreserves DEF Fail
  <2>6. CASE Finish(r)
    BY <1>0, <2>1, <2>2, <2>6, LocalPreserves DEF Finish
  <2> QED
    BY <1>4, <2>3, <2>4, <2>5, <2>6
<1>5. ASSUME NEW r \in Runners, Commit(r) \/ CommitLost(r)
      PROVE  MigrationInv'
  <2>1. faults' \in Nat
    BY <1>0, <1>5 DEF Commit, CommitLost, Fault
  <2> QED
    BY <1>5, <2>1, CommitPreserves DEF Commit, CommitLost
<1> QED
  BY <1>1, <1>2, <1>3, <1>4, <1>5 DEF MigrationNext, Proceed

-----------------------------------------------------------------------------

\* The invariant holds for any runners and releases.
THEOREM MigrationInvariant == MigrationSpec => []MigrationInv
  BY InitMigrationInv, NextMigrationInv, PTL DEF MigrationSpec

\* No interleaving of runs, crashes and lost commits applies a migration twice, or
\* records one that has not been applied.
THEOREM AppliedOnceTheorem == MigrationSpec => []AppliedOnce
<1>1. MigrationInv => AppliedOnce
  BY DEF MigrationInv
<1> QED
  BY <1>1, MigrationInvariant, PTL

\* An Up without an error means a migrated database.
THEOREM SuccessMeansMigratedTheorem == MigrationSpec => []SuccessMeansMigrated
<1>1. MigrationInv => SuccessMeansMigrated
  BY DEF MigrationInv, MigrationTypeOK, SuccessMeansMigrated
<1> QED
  BY <1>1, MigrationInvariant, PTL

\* One step: nothing is unapplied, and what is applied has all before it.
Ordered ==
    /\ applied \subseteq applied'
    /\ \A v \in applied' \ applied :
           \E r \in Runners :
               /\ v \in pending[r] \ pending'[r]
               /\ \A w \in release[r] : w < v => w \in applied

\* Whatever else the step changes, one of the runners keeps the order.
LEMMA OrderedStep == ASSUME MigrationInv, MigrationNext PROVE Ordered
<1> USE DEF Ordered
<1>1. ASSUME NEW r \in Runners, Commit(r) \/ CommitLost(r)
      PROVE  Ordered
  <2>1. /\ pc[r] = "inserted" /\ MigrationTypeOK
        /\ pending[r] \subseteq release[r] /\ release[r] \ pending[r] \subseteq applied
        /\ applied' = applied \cup {Current(r)}
        /\ pending' = [pending EXCEPT ![r] = @ \ {Current(r)}]
    BY <1>1 DEF Commit, CommitLost, CommitMigration, MigrationInv
  <2>2. Current(r) \in pending[r] /\ \A w \in pending[r] : Current(r) <= w
    BY <2>1, CurrentIsLeast DEF MigrationTypeOK, InTransaction
  <2>3. \A w \in release[r] : w \in Nat /\ Current(r) \in Nat
    BY <2>1, <2>2, MigrationAssumptions DEF MigrationTypeOK
  <2>4. \A w \in release[r] : w < Current(r) => w \in applied
    BY <2>1, <2>2, <2>3
  <2>5. Current(r) \in pending[r] \ pending'[r]
    BY <2>1, <2>2 DEF MigrationTypeOK
  <2> QED
    BY <2>1, <2>4, <2>5
<1>2. ASSUME NEW r \in Runners,
             \/ Up(r) \/ AppliedVersions(r) \/ ExecuteSQL(r) \/ InsertVersion(r)
             \/ Finish(r) \/ Fail(r)
      PROVE  applied' = applied
  BY <1>2 DEF Up, AppliedVersions, ExecuteSQL, InsertVersion, Finish, Fail
<1> QED
  BY <1>1, <1>2 DEF MigrationNext, Proceed

\* Migrations are applied in the order of their versions.
THEOREM InOrderTheorem == MigrationSpec => InOrder
<1>1. MigrationInv /\ [MigrationNext]_migrationVars => [Ordered]_migrationVars
  BY OrderedStep
<1>2. [][Ordered]_migrationVars <=> InOrder
  BY PTL DEF Ordered, InOrder
<1> QED
  BY <1>1, <1>2, MigrationInvariant, PTL DEF MigrationSpec

=============================================================================
