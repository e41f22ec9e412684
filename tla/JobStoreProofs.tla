--------------------------- MODULE JobStoreProofs ---------------------------
(***************************************************************************)
(* Proofs about JobStore: its invariants and action properties hold for    *)
(* every number of jobs, workers and resources and every lease, limit and  *)
(* bound.                                                                  *)
(***************************************************************************)
EXTENDS JobStore, TLAPS

-----------------------------------------------------------------------------
(* Types *)

\* The rows the statements write are rows.
LEMMA SimpleRowTypes ==
    ASSUME NEW row \in Row, now \in Nat
    PROVE  /\ ExpiredRow(row) \in Row
           /\ SucceededRow(row) \in Row
           /\ RetriedRow(row) \in Row
           /\ CancelledRow(row) \in Row
<1>0. now \in Int
  OBVIOUS
<1>1. ExpiredRow(row) \in Row
  BY DEF ExpiredRow, Row, Statuses
<1>2. SucceededRow(row) \in Row
  BY DEF SucceededRow, Row, Statuses
<1>3. RetriedRow(row) \in Row
  BY <1>0 DEF RetriedRow, Row, Statuses
<1>4. CancelledRow(row) \in Row
  BY DEF CancelledRow, Row, Statuses
<1> QED
  BY <1>1, <1>2, <1>3, <1>4

\* The row a claim writes (status, attempts, claim_token, lease) is a row.
LEMMA ClaimedRowType ==
    ASSUME NEW row \in Row, NEW t \in Nat, NEW n \in Nat
    PROVE  ClaimedRow(row, t, n) \in Row
<1>1. row.attempts + 1 \in Nat /\ t + LeaseDuration \in Nat
  BY StoreAssumptions DEF Row
<1> QED
  BY <1>1, Zenon DEF ClaimedRow, Row, Statuses

\* The row MarkFailed writes, failed or requeued, is a row.
LEMMA FailedRowType ==
    ASSUME NEW row \in Row, NEW c \in Claim, NEW p \in BOOLEAN,
           NEW b \in Nat, now \in Nat
    PROVE  FailedRow(row, c, p, b) \in Row
<1>1. now + b \in Int /\ now \in Int
  OBVIOUS
<1>2. CASE p \/ c.attempts >= c.max
  BY <1>1, <1>2 DEF FailedRow, Row, Statuses
<1>3. CASE ~(p \/ c.attempts >= c.max)
  BY <1>1, <1>3 DEF FailedRow, Row, Statuses
<1> QED
  BY <1>2, <1>3

\* Initially every variable has its type.
LEMMA InitTypeOK == Init => TypeOK
BY StoreAssumptions DEF Init, TypeOK, NoView, AbsentRow, Row, Statuses

\* Committing a claim statement leaves the variables it writes well typed.
LEMMA ClaimEffectTypes ==
    ASSUME TypeOK, NEW w \in Workers, ClaimEffect(w)
    PROVE  /\ now' \in Nat
           /\ jobs' \in [Jobs -> Row]
           /\ errorLogs' \in [Jobs -> Nat]
           /\ audits' \in [Jobs -> Nat]
           /\ issued' \in [Jobs -> Nat]
           /\ pc' \in [Workers -> {"idle", "called", "snapped", "locked"}]
           /\ at' \in [Workers -> Nat]
           /\ view' \in [Workers -> [Jobs -> Row]]
           /\ expiring' \in [Workers -> SUBSET Jobs]
           /\ candidate' \in [Workers -> Jobs \cup {NoJob}]
           /\ granted' \in [Workers -> BOOLEAN]
           /\ \A v \in Workers : granted'[v] => candidate'[v] \in Jobs
<1> USE DEF TypeOK
<1>1. NoView \in [Jobs -> Row]
  BY DEF NoView, AbsentRow, Row, Statuses
<1>2. ASSUME NEW j \in Jobs
      PROVE  /\ ExpiredRow(jobs[j]) \in Row
             /\ ClaimedRow(jobs[j], at[w], issued[j] + 1) \in Row
  <2>1. jobs[j] \in Row /\ at[w] \in Nat /\ issued[j] + 1 \in Nat
    OBVIOUS
  <2> QED
    BY <2>1, SimpleRowTypes, ClaimedRowType
<1>3. jobs' \in [Jobs -> Row]
  BY <1>2 DEF ClaimEffect
<1>4. errorLogs' \in [Jobs -> Nat] /\ issued' \in [Jobs -> Nat]
  BY DEF ClaimEffect
<1>5. EndStatement(w) /\ UNCHANGED <<now, audits>>
  BY DEF ClaimEffect
<1> QED
  BY <1>1, <1>3, <1>4, <1>5 DEF EndStatement

\* Every step preserves the types.
LEMMA NextTypeOK == TypeOK /\ [Next]_vars => TypeOK'
<1> SUFFICES ASSUME TypeOK, [Next]_vars PROVE TypeOK'
  OBVIOUS
<1> USE DEF TypeOK
<1>0. NoView \in [Jobs -> Row]
  BY DEF NoView, AbsentRow, Row, Statuses
<1>1. ASSUME NEW w \in Workers, ClaimCall(w) PROVE TypeOK'
  BY <1>1 DEF ClaimCall
<1>2. ASSUME NEW w \in Workers, ClaimSnapshot(w) PROVE TypeOK'
  BY <1>2 DEF ClaimSnapshot
<1>3. ASSUME NEW w \in Workers, ClaimLock(w) PROVE TypeOK'
  <2>1. PICK S \in ExpiryBatches(w) : expiring' = [expiring EXCEPT ![w] = S]
    BY <1>3 DEF ClaimLock
  <2>2. S \subseteq Jobs
    BY DEF ExpiryBatches, Expirable
  <2>3. /\ candidate' \in [Workers -> Jobs \cup {NoJob}]
        /\ granted' \in [Workers -> BOOLEAN]
        /\ \A v \in Workers : granted'[v] => candidate'[v] \in Jobs
    <3>1. CASE UNCHANGED <<candidate, granted>>
      BY <3>1
    <3>2. CASE \E j \in Eligible(w) :
                 /\ candidate' = [candidate EXCEPT ![w] = j]
                 /\ granted' = [granted EXCEPT ![w] = AdvisoryFree(j)]
      <4>1. PICK j \in Eligible(w) :
                 /\ candidate' = [candidate EXCEPT ![w] = j]
                 /\ granted' = [granted EXCEPT ![w] = AdvisoryFree(j)]
        BY <3>2
      <4>2. j \in Jobs
        BY DEF Eligible
      <4>3. AdvisoryFree(j) \in BOOLEAN
        BY DEF AdvisoryFree
      <4> QED
        BY <4>1, <4>2, <4>3
    <3> QED
      BY <1>3, <3>1, <3>2 DEF ClaimLock
  <2> QED
    BY <1>0, <1>3, <2>1, <2>2, <2>3 DEF ClaimLock
<1>4. ASSUME NEW w \in Workers, ClaimCommit(w) PROVE TypeOK'
  <2>1. ClaimEffect(w)
    BY <1>4 DEF ClaimCommit
  <2>2. CASE ~granted[w]
    BY <1>4, <2>1, <2>2, ClaimEffectTypes DEF ClaimCommit
  <2>3. CASE granted[w] /\ candidate[w] \in Jobs
    <3>1. jobs'[candidate[w]] \in Row
      BY <2>1, <2>3, ClaimEffectTypes
    <3>2. held' \in [Workers -> Claim \cup {NoClaim}]
      BY <1>4, <2>3, <3>1 DEF ClaimCommit, Claim, Row
    <3> QED
      BY <2>1, <3>2, ClaimEffectTypes
  <2> QED
    BY <2>2, <2>3
<1>5. ASSUME NEW w \in Workers, ClaimCommitLost(w) PROVE TypeOK'
  BY <1>5, ClaimEffectTypes DEF ClaimCommitLost
<1>6. ASSUME NEW w \in Workers, ClaimAbort(w) PROVE TypeOK'
  BY <1>0, <1>6 DEF ClaimAbort, EndStatement
<1>7. ASSUME NEW w \in Workers, NEW l \in 0..MaxResultLogs,
             NEW a \in BOOLEAN, MarkSucceeded(w, l, a)
      PROVE  TypeOK'
  <2>1. held[w] \in Claim
    BY <1>7 DEF MarkSucceeded
  <2>2. jobs' \in [Jobs -> Row]
    BY <1>7, <2>1, SimpleRowTypes DEF MarkSucceeded, Claim
  <2>3. held' \in [Workers -> Claim \cup {NoClaim}]
    BY <1>7 DEF MarkSucceeded, Answer
  <2>4. errorLogs' \in [Jobs -> Nat]
    <3>1. held[w].job \in Jobs /\ l \in Nat
      BY <2>1, StoreAssumptions DEF Claim
    <3>2. errorLogs' = [errorLogs EXCEPT ![held[w].job] = errorLogs[held[w].job] + l]
      BY <1>7 DEF MarkSucceeded
    <3> QED
      BY <3>1, <3>2
  <2> QED
    BY <1>7, <2>2, <2>3, <2>4 DEF MarkSucceeded, claimVars
<1>8. ASSUME NEW w \in Workers, NEW p \in BOOLEAN, NEW b \in Backoffs,
             NEW a \in BOOLEAN, MarkFailed(w, p, b, a)
      PROVE  TypeOK'
  <2>1. held[w] \in Claim /\ b \in Nat
    BY <1>8, StoreAssumptions DEF MarkFailed
  <2>2. held[w].job \in Jobs
    BY <2>1 DEF Claim
  <2>3. FailedRow(jobs[held[w].job], held[w], p, b) \in Row
    BY <2>1, <2>2, FailedRowType
  <2>4. jobs' \in [Jobs -> Row] /\ errorLogs' \in [Jobs -> Nat]
    BY <1>8, <2>2, <2>3 DEF MarkFailed
  <2>5. held' \in [Workers -> Claim \cup {NoClaim}]
    BY <1>8 DEF MarkFailed, Answer
  <2> QED
    BY <1>8, <2>4, <2>5 DEF MarkFailed, claimVars
<1>9. ASSUME NEW w \in Workers, FinalizeRejected(w) \/ Abandon(w) PROVE TypeOK'
  BY <1>9 DEF FinalizeRejected, Abandon, claimVars
<1>10. ASSUME NEW j \in Jobs, Retry(j) \/ Cancel(j) PROVE TypeOK'
  <2>0. RetriedRow(jobs[j]) \in Row /\ CancelledRow(jobs[j]) \in Row
    BY SimpleRowTypes
  <2>1. jobs' \in [Jobs -> Row]
    <3>1. \/ jobs' = [jobs EXCEPT ![j] = RetriedRow(@)]
          \/ jobs' = [jobs EXCEPT ![j] = CancelledRow(@)]
      BY <1>10, Zenon DEF Retry, Cancel
    <3> QED
      BY <2>0, <3>1
  <2> QED
    <3>1. CASE Retry(j)
      BY <2>1, <3>1 DEF Retry, claimVars
    <3>2. CASE Cancel(j)
      BY <2>1, <3>2 DEF Cancel, claimVars
    <3> QED
      BY <1>10, <3>1, <3>2
<1>11. ASSUME NEW j \in Jobs, NEW r \in Resources \cup {NoResource},
              NEW m \in AttemptInputs, NEW d \in DelayInputs, Enqueue(j, r, m, d)
       PROVE  TypeOK'
  <2>1. EffectiveMax(m) \in Nat /\ now + d \in Int
    BY StoreAssumptions DEF EffectiveMax
  <2>2. jobs' \in [Jobs -> Row]
    BY <1>11, <2>1 DEF Enqueue, Row, Statuses
  <2> QED
    BY <1>11, <2>2 DEF Enqueue, claimVars
<1>12. CASE Tick
  BY <1>12 DEF Tick, claimVars
<1>13. CASE UNCHANGED vars
  BY <1>13 DEF vars, claimVars
<1> QED
  BY <1>1, <1>2, <1>3, <1>4, <1>5, <1>6, <1>7, <1>8, <1>9, <1>10, <1>11, <1>12, <1>13
     DEF Next, WorkerStep, AdminStep, EnqueueStep

\* Type correctness of the job store.
THEOREM TypeCorrect == Spec => []TypeOK
BY InitTypeOK, NextTypeOK, PTL DEF Spec

-----------------------------------------------------------------------------
(* What each row operation does to the row invariant *)

\* A row Enqueue inserts satisfies the row invariant: no claim, no error line.
LEMMA EnqueuedRowInv ==
    ASSUME NEW row \in Row, NEW n \in Nat, NEW e \in Nat, NEW a \in Nat,
           row.status = "absent", RowInv(row, n, e, a),
           NEW new \in Row, new.status = "queued", new.attempts = 0,
           new.max >= 1, new.retryable, new.token = 0, new.lease = 0
    PROVE  RowInv(new, n, e, a)
<1>1. n = 0 /\ e = 0 /\ a = 0
  BY DEF RowInv, Row
<1>2. new.max * a = 0
  BY <1>1 DEF Row
<1>3. n <= new.max * a + new.attempts
  BY <1>1, <1>2
<1>4. new.attempts < new.max /\ new.attempts <= new.max
  BY DEF Row
<1> QED
  BY <1>1, <1>3, <1>4, Zenon DEF RowInv

\* The expired UPDATE writes one error line for the claim it ends.
LEMMA ExpiredRowInv ==
    ASSUME NEW row \in Row, NEW n \in Nat, NEW e \in Nat, NEW a \in Nat,
           row.status = "running", RowInv(row, n, e, a)
    PROVE  RowInv(ExpiredRow(row), n, e + 1, a)
BY DEF RowInv, ExpiredRow, Row

\* A claim of a claimable row stays within max_attempts and takes a new token.
LEMMA ClaimedRowInv ==
    ASSUME NEW row \in Row, NEW n \in Nat, NEW e \in Nat, NEW a \in Nat,
           NEW t \in Nat, Claimable(row, t), RowInv(row, n, e, a)
    PROVE  RowInv(ClaimedRow(row, t, n + 1), n + 1, e, a)
BY StoreAssumptions DEF RowInv, ClaimedRow, Claimable, Row

\* MarkSucceeded ends a running row with the log entries of its result.
LEMMA SucceededRowInv ==
    ASSUME NEW row \in Row, NEW n \in Nat, NEW e \in Nat, NEW a \in Nat,
           NEW l \in 0..MaxResultLogs, row.status = "running", RowInv(row, n, e, a)
    PROVE  RowInv(SucceededRow(row), n, e + l, a)
BY StoreAssumptions DEF RowInv, SucceededRow, Row

\* MarkFailed ends a running row, for good or for another attempt, and writes
\* the error line of its claim.
LEMMA FailedRowInv ==
    ASSUME NEW row \in Row, NEW n \in Nat, NEW e \in Nat, NEW a \in Nat,
           NEW c \in Claim, NEW p \in BOOLEAN, NEW b \in Nat, now \in Nat,
           row.status = "running", RowInv(row, n, e, a),
           c.max = row.max, c.attempts = row.attempts
    PROVE  RowInv(FailedRow(row, c, p, b), n, e + 1, a)
<1>1. CASE p \/ c.attempts >= c.max
  BY <1>1 DEF RowInv, FailedRow, Row
<1>2. CASE ~(p \/ c.attempts >= c.max)
  <2>1. FailedRow(row, c, p, b) =
          [row EXCEPT !.status = "queued", !.runAfter = now + b,
                      !.retryable = TRUE, !.token = 0, !.lease = 0]
    BY <1>2, Zenon DEF FailedRow
  <2>2. row.attempts < row.max
    BY <1>2 DEF Claim, Row
  <2> QED
    BY <2>1, <2>2 DEF RowInv, Row
<1> QED
  BY <1>1, <1>2

\* An audited retry of a failed row starts a new budget of attempts.
LEMMA RetriedRowInv ==
    ASSUME NEW row \in Row, NEW n \in Nat, NEW e \in Nat, NEW a \in Nat,
           now \in Nat, row.status = "failed", RowInv(row, n, e, a)
    PROVE  RowInv(RetriedRow(row), n, e, a + 1)
<1>1. row.max * (a + 1) = row.max * a + row.max /\ row.max * a \in Nat
  BY DEF Row
<1> QED
  BY <1>1 DEF RowInv, RetriedRow, Row

\* Cancelling a queued row keeps the row invariant with its audit event.
LEMMA CancelledRowInv ==
    ASSUME NEW row \in Row, NEW n \in Nat, NEW e \in Nat, NEW a \in Nat,
           row.status = "queued", RowInv(row, n, e, a)
    PROVE  RowInv(CancelledRow(row), n, e, a + 1)
<1>1. row.max * (a + 1) = row.max * a + row.max /\ row.max * a \in Nat
  BY DEF Row
<1> QED
  BY <1>1 DEF RowInv, CancelledRow, Row

-----------------------------------------------------------------------------
(* The inductive invariant, one conjunct at a time *)

\* The empty table satisfies the inductive invariant.
LEMMA InitStoreInv == Init => StoreInv
<1> SUFFICES ASSUME Init PROVE StoreInv
  OBVIOUS
<1>1. TypeOK
  BY InitTypeOK
<1>2. ASSUME NEW j \in Jobs
      PROVE  RowInv(jobs[j], issued[j], errorLogs[j], audits[j])
  <2>1. jobs[j] = AbsentRow /\ issued[j] = 0 /\ errorLogs[j] = 0 /\ audits[j] = 0
    BY DEF Init, NoView
  <2> QED
    BY <2>1 DEF RowInv, AbsentRow
<1>3. LocksSound
  BY StoreAssumptions DEF Init, LocksSound, Locks
<1>4. ClaimsSound /\ HolderUnique
  BY DEF Init, ClaimsSound, HolderUnique
<1> QED
  BY <1>1, <1>2, <1>3, <1>4 DEF StoreInv

\* A transaction on one unlocked row leaves the locked rows as they were.
LEMMA UnlockedRowFrame ==
    ASSUME StoreInv, NEW j \in Jobs, ~Locked(j), UNCHANGED <<now, claimVars>>,
           \A k \in Jobs \ {j} : jobs'[k] = jobs[k]
    PROVE  LocksSound'
<1>1. ASSUME NEW w \in Workers
      PROVE  /\ j \notin expiring[w]
             /\ candidate[w] # j
             /\ expiring[w] \subseteq Jobs
             /\ candidate[w] \in Jobs \cup {NoJob}
  BY StoreAssumptions DEF Locked, Locks, StoreInv, TypeOK
<1> QED
  BY <1>1 DEF LocksSound, Locks, StoreInv, Exhausted, Claimable, claimVars

\* Steps that write no row and issue no claim keep the rows invariant.
LEMMA RowsFrame ==
    ASSUME StoreInv, UNCHANGED <<jobs, issued, errorLogs, audits>>
    PROVE  \A j \in Jobs : RowInv(jobs'[j], issued'[j], errorLogs'[j], audits'[j])
BY DEF StoreInv

\* Steps that touch neither a held claim nor a row keep the claims invariant.
LEMMA ClaimsFrame ==
    ASSUME StoreInv, UNCHANGED <<jobs, issued, held>>
    PROVE  ClaimsSound' /\ HolderUnique'
BY DEF StoreInv, ClaimsSound, HolderUnique, Current

\* A worker that lets go of its claim disturbs no other.
LEMMA LetGo ==
    ASSUME StoreInv, NEW w \in Workers, UNCHANGED <<jobs, issued>>,
           held' = [held EXCEPT ![w] = NoClaim]
    PROVE  ClaimsSound' /\ HolderUnique'
BY DEF StoreInv, TypeOK, ClaimsSound, HolderUnique, Current

\* Sending a claim statement and taking its snapshot lock nothing.
LEMMA CallPreserves ==
    ASSUME StoreInv, NEW w \in Workers, ClaimCall(w) \/ ClaimSnapshot(w)
    PROVE  LocksSound'
<1>1. CASE ClaimCall(w)
  BY <1>1 DEF ClaimCall, StoreInv, TypeOK, LocksSound, Locks
<1>2. CASE ClaimSnapshot(w)
  BY <1>2 DEF ClaimSnapshot, StoreInv, TypeOK, LocksSound, Locks
<1> QED
  BY <1>1, <1>2

\* A claim statement locks only unlocked rows whose newest version satisfies
\* its conditions.
LEMMA LockPreserves ==
    ASSUME StoreInv, NEW w \in Workers, ClaimLock(w)
    PROVE  LocksSound'
<1> USE DEF StoreInv, TypeOK
<1>1. PICK S \in ExpiryBatches(w) : expiring' = [expiring EXCEPT ![w] = S]
  BY DEF ClaimLock
<1>2. ASSUME NEW j \in S
      PROVE  j \in Jobs /\ ~Locked(j) /\ Exhausted(jobs[j], at[w])
  BY <1>2 DEF ExpiryBatches, Expirable
<1>3. expiring[w] = {} /\ candidate[w] = NoJob /\ pc[w] = "snapped"
  BY DEF ClaimLock, LocksSound
<1>4. PICK c \in Jobs \cup {NoJob} :
        /\ candidate' = [candidate EXCEPT ![w] = c]
        /\ c # NoJob => ~Locked(c) /\ Claimable(jobs[c], at[w])
  <2>1. CASE UNCHANGED <<candidate, granted>>
    BY <1>3, <2>1
  <2>2. CASE \E j \in Eligible(w) : candidate' = [candidate EXCEPT ![w] = j]
    BY <2>2 DEF Eligible
  <2> QED
    BY <2>1, <2>2 DEF ClaimLock
<1>5. UNCHANGED <<now, jobs, at>> /\ pc' = [pc EXCEPT ![w] = "locked"]
  BY DEF ClaimLock
<1>6. ASSUME NEW v \in Workers \ {w} PROVE Locks(v)' = Locks(v)
  BY <1>1, <1>4 DEF Locks
<1>7. ASSUME NEW j \in Jobs, j \in Locks(w)' PROVE ~Locked(j)
  BY <1>1, <1>2, <1>4, <1>7 DEF Locks
<1>8. ASSUME NEW u \in Workers, NEW v \in Workers, NEW j \in Jobs,
             j \in Locks(u)', j \in Locks(v)'
      PROVE  u = v
  <2>1. CASE u # w /\ v # w
    BY <1>6, <1>8, <2>1 DEF LocksSound
  <2>2. CASE u = w /\ v # w
    <3>1. j \in Locks(v) /\ ~Locked(j)
      BY <1>6, <1>7, <1>8, <2>2
    <3> QED
      BY <3>1 DEF Locked
  <2>3. CASE u # w /\ v = w
    <3>1. j \in Locks(u) /\ ~Locked(j)
      BY <1>6, <1>7, <1>8, <2>3
    <3> QED
      BY <3>1 DEF Locked
  <2> QED
    BY <2>1, <2>2, <2>3
<1>9. ASSUME NEW v \in Workers
      PROVE  /\ at'[v] <= now'
             /\ pc'[v] # "locked" => expiring'[v] = {} /\ candidate'[v] = NoJob
             /\ \A j \in expiring'[v] : Exhausted(jobs'[j], at'[v])
             /\ candidate'[v] # NoJob => Claimable(jobs'[candidate'[v]], at'[v])
  <2>1. CASE v = w
    BY <1>1, <1>2, <1>4, <1>5, <2>1 DEF LocksSound
  <2>2. CASE v # w
    BY <1>1, <1>4, <1>5, <2>2 DEF LocksSound
  <2> QED
    BY <2>1, <2>2
<1> QED
  BY <1>8, <1>9 DEF LocksSound

\* A claim statement that is rolled back releases its locks.
LEMMA EndPreserves ==
    ASSUME StoreInv, NEW w \in Workers, ClaimAbort(w)
    PROVE  LocksSound'
BY DEF ClaimAbort, EndStatement, StoreInv, TypeOK, LocksSound, Locks

\* What the commit of a claim statement does to each row.
LEMMA EffectRow ==
    ASSUME StoreInv, NEW w \in Workers, ClaimEffect(w), NEW j \in Jobs
    PROVE  \/ /\ j \in expiring[w]
              /\ Exhausted(jobs[j], at[w])
              /\ jobs'[j] = ExpiredRow(jobs[j])
              /\ errorLogs'[j] = errorLogs[j] + 1
              /\ issued'[j] = issued[j]
              /\ ~Claims(w, j)
           \/ /\ Claims(w, j)
              /\ Claimable(jobs[j], at[w])
              /\ jobs'[j] = ClaimedRow(jobs[j], at[w], issued[j] + 1)
              /\ errorLogs'[j] = errorLogs[j]
              /\ issued'[j] = issued[j] + 1
           \/ /\ j \notin Locks(w) \/ ~granted[w]
              /\ ~Claims(w, j)
              /\ jobs'[j] = jobs[j]
              /\ errorLogs'[j] = errorLogs[j]
              /\ issued'[j] = issued[j]
<1> USE DEF StoreInv, TypeOK
<1>1. CASE j \in expiring[w]
  <2>1. Exhausted(jobs[j], at[w])
    BY <1>1 DEF LocksSound
  <2>2. ~Claims(w, j)
    <3>1. ~Claimable(jobs[j], at[w])
      BY <2>1 DEF Exhausted, Claimable, Row
    <3>2. Claims(w, j) => Claimable(jobs[j], at[w])
      BY StoreAssumptions DEF Claims, LocksSound
    <3> QED
      BY <3>1, <3>2
  <2> QED
    BY <1>1, <2>1, <2>2 DEF ClaimEffect
<1>2. CASE j \notin expiring[w] /\ Claims(w, j)
  <2>1. Claimable(jobs[j], at[w])
    BY <1>2, StoreAssumptions DEF Claims, LocksSound
  <2> QED
    BY <1>2, <2>1 DEF ClaimEffect
<1>3. CASE j \notin expiring[w] /\ ~Claims(w, j)
  <2>1. j \notin Locks(w) \/ ~granted[w]
    BY <1>3 DEF Claims, Locks
  <2> QED
    BY <1>3, <2>1 DEF ClaimEffect
<1> QED
  BY <1>1, <1>2, <1>3

\* Every row satisfies the row invariant after a claim statement commits.
LEMMA EffectRows ==
    ASSUME StoreInv, NEW w \in Workers, ClaimEffect(w)
    PROVE  \A j \in Jobs : RowInv(jobs'[j], issued'[j], errorLogs'[j], audits'[j])
<1> SUFFICES ASSUME NEW j \in Jobs
             PROVE  RowInv(jobs'[j], issued'[j], errorLogs'[j], audits'[j])
  OBVIOUS
<1>1. /\ jobs[j] \in Row /\ issued[j] \in Nat /\ errorLogs[j] \in Nat
      /\ audits[j] \in Nat /\ at[w] \in Nat /\ audits'[j] = audits[j]
      /\ RowInv(jobs[j], issued[j], errorLogs[j], audits[j])
  BY DEF StoreInv, TypeOK, ClaimEffect
<1>2. CASE Exhausted(jobs[j], at[w]) /\ jobs'[j] = ExpiredRow(jobs[j])
           /\ errorLogs'[j] = errorLogs[j] + 1 /\ issued'[j] = issued[j]
  BY <1>1, <1>2, ExpiredRowInv DEF Exhausted
<1>3. CASE Claimable(jobs[j], at[w]) /\ issued'[j] = issued[j] + 1
           /\ jobs'[j] = ClaimedRow(jobs[j], at[w], issued[j] + 1)
           /\ errorLogs'[j] = errorLogs[j]
  BY <1>1, <1>3, ClaimedRowInv
<1>4. CASE UNCHANGED <<jobs[j], errorLogs[j], issued[j]>>
  BY <1>1, <1>4
<1> QED
  BY <1>2, <1>3, <1>4, EffectRow

\* Committing a claim statement leaves the locks of the others justified.
LEMMA EffectLocks ==
    ASSUME StoreInv, NEW w \in Workers, ClaimEffect(w)
    PROVE  LocksSound'
<1> USE DEF StoreInv, TypeOK
<1>1. ASSUME NEW v \in Workers \ {w}, NEW j \in Jobs, j \in Locks(v)
      PROVE  jobs'[j] = jobs[j]
  <2>1. j \notin Locks(w)
    BY <1>1 DEF LocksSound
  <2>2. j \notin expiring[w] /\ ~Claims(w, j)
    BY <2>1, StoreAssumptions DEF Locks, Claims
  <2> QED
    BY <2>2 DEF ClaimEffect
<1>2. ASSUME NEW v \in Workers \ {w}
      PROVE  /\ \A j \in expiring[v] : jobs'[j] = jobs[j]
             /\ candidate[v] # NoJob => jobs'[candidate[v]] = jobs[candidate[v]]
  BY <1>1 DEF Locks
<1>3. EndStatement(w) /\ now' = now
  BY DEF ClaimEffect
<1> QED
  BY <1>2, <1>3 DEF EndStatement, LocksSound, Locks

\* A held claim stays accurate when a claim statement commits.
LEMMA EffectOldClaim ==
    ASSUME StoreInv, NEW w \in Workers, ClaimEffect(w),
           NEW v \in Workers, held[v] # NoClaim
    PROVE  /\ held[v].token <= issued[held[v].job]
           /\ held[v].token >= 1
           /\ held[v].token <= issued'[held[v].job]
           /\ held[v].max = jobs'[held[v].job].max
           /\ (jobs'[held[v].job].status = "running"
                /\ jobs'[held[v].job].token = held[v].token)
              => held[v].attempts = jobs'[held[v].job].attempts
<1> USE DEF StoreInv, TypeOK
<1> DEFINE c == held[v]
           j == c.job
<1>1. /\ c \in Claim /\ j \in Jobs /\ jobs[j] \in Row /\ issued[j] \in Nat
      /\ c.token \in Nat
  BY DEF Claim
<1>2. c.token >= 1 /\ c.token <= issued[j] /\ c.max = jobs[j].max
      /\ (Current(c) => c.attempts = jobs[j].attempts)
  BY DEF ClaimsSound
<1> HIDE DEF c, j
<1>3. CASE jobs'[j] = ExpiredRow(jobs[j]) /\ issued'[j] = issued[j]
  <2>1. jobs'[j].status = "failed" /\ jobs'[j].max = jobs[j].max
    BY <1>1, <1>3 DEF ExpiredRow, Row
  <2> QED
    BY <1>1, <1>2, <1>3, <2>1 DEF c, j
<1>4. CASE jobs'[j] = ClaimedRow(jobs[j], at[w], issued[j] + 1) /\ issued'[j] = issued[j] + 1
  <2>1. jobs'[j].token = issued[j] + 1 /\ jobs'[j].max = jobs[j].max
    BY <1>1, <1>4 DEF ClaimedRow, Row
  <2>2. jobs'[j].token # c.token /\ c.token <= issued'[j]
    BY <1>1, <1>2, <1>4, <2>1
  <2> QED
    BY <1>2, <2>1, <2>2 DEF c, j
<1>5. CASE jobs'[j] = jobs[j] /\ issued'[j] = issued[j]
  BY <1>2, <1>5 DEF Current, c, j
<1> QED
  BY <1>1, <1>3, <1>4, <1>5, EffectRow

\* The claim ClaimOne returns is new, and the older ones stay accurate.
LEMMA EffectClaims ==
    ASSUME StoreInv, NEW w \in Workers, ClaimCommit(w) \/ ClaimCommitLost(w)
    PROVE  ClaimsSound' /\ HolderUnique'
<1> USE DEF StoreInv, TypeOK
<1>1. ClaimEffect(w)
  BY DEF ClaimCommit, ClaimCommitLost
<1>2. CASE held' = held
  <2>1. ClaimsSound'
    BY <1>1, <1>2, EffectOldClaim DEF ClaimsSound, Current
  <2>2. HolderUnique'
    BY <1>2 DEF HolderUnique
  <2> QED
    BY <2>1, <2>2
<1>3. CASE granted[w] /\ ClaimCommit(w)
  <2> DEFINE j == candidate[w]
             new == held'[w]
  <2>1. j \in Jobs /\ Claims(w, j)
    BY <1>3 DEF Claims
  <2>2. /\ jobs'[j] = ClaimedRow(jobs[j], at[w], issued[j] + 1)
        /\ issued'[j] = issued[j] + 1
    BY <1>1, <2>1, EffectRow
  <2>3. jobs'[j].token = issued[j] + 1
    BY <2>1, <2>2 DEF ClaimedRow, Row
  <2>4. /\ held' = [held EXCEPT ![w] = new]
        /\ new.job = j /\ new.token = issued[j] + 1
        /\ new.attempts = jobs'[j].attempts /\ new.max = jobs'[j].max
    BY <1>3, <2>3 DEF ClaimCommit
  <2> HIDE DEF j, new
  <2>5. ASSUME NEW v \in Workers, held'[v] # NoClaim
        PROVE  /\ held'[v].token >= 1
               /\ held'[v].token <= issued'[held'[v].job]
               /\ held'[v].max = jobs'[held'[v].job].max
               /\ (Current(held[v])' => held'[v].attempts = jobs'[held'[v].job].attempts)
    <3>1. CASE v = w
      <4>1. held'[v] = new /\ issued[j] \in Nat
        BY <2>1, <2>4, <3>1
      <4> QED
        BY <2>2, <2>4, <4>1 DEF Current
    <3>2. CASE v # w
      <4>1. held'[v] = held[v] /\ held[v] # NoClaim
        BY <2>4, <2>5, <3>2
      <4> QED
        BY <1>1, <4>1, EffectOldClaim DEF Current
    <3> QED
      BY <3>1, <3>2
  <2>6. ASSUME NEW v \in Workers \ {w}, held[v] # NoClaim, held[v].job = j
        PROVE  held[v].token # new.token
    <3>1. held[v].token \in Nat /\ held[v].token <= issued[j] /\ issued[j] \in Nat
      BY <1>1, <2>1, <2>6, EffectOldClaim DEF Claim
    <3> QED
      BY <2>4, <3>1
  <2>7. ClaimsSound'
    BY <2>5 DEF ClaimsSound, Current
  <2>8. HolderUnique'
    BY <2>4, <2>6 DEF HolderUnique
  <2> QED
    BY <2>7, <2>8
<1> QED
  BY <1>2, <1>3 DEF ClaimCommit, ClaimCommitLost

\* A transaction that ends, requeues or inserts a row keeps the claims sound.
LEMMA RowWriteClaims ==
    ASSUME StoreInv, NEW j \in Jobs, NEW new \in Row,
           jobs' = [jobs EXCEPT ![j] = new], new.status # "running",
           new.max = jobs[j].max \/ issued[j] = 0, issued' = issued,
           \A v \in Workers : held'[v] = held[v] \/ held'[v] = NoClaim
    PROVE  ClaimsSound' /\ HolderUnique'
<1> USE DEF StoreInv, TypeOK
<1>1. ASSUME NEW v \in Workers, held'[v] # NoClaim
      PROVE  held'[v] = held[v] /\ held[v] # NoClaim /\ held[v] \in Claim
  BY <1>1
<1>2. HolderUnique'
  BY <1>1 DEF HolderUnique
<1>3. ASSUME NEW v \in Workers, held[v] # NoClaim
      PROVE  /\ held[v].max = jobs'[held[v].job].max
             /\ (jobs'[held[v].job].status = "running"
                 /\ jobs'[held[v].job].token = held[v].token)
                => held[v].attempts = jobs'[held[v].job].attempts
  <2>1. /\ held[v].job \in Jobs /\ held[v].token \in Nat
        /\ held[v].token >= 1 /\ held[v].token <= issued[held[v].job]
        /\ held[v].max = jobs[held[v].job].max
        /\ (Current(held[v]) => held[v].attempts = jobs[held[v].job].attempts)
    BY <1>3 DEF ClaimsSound, Claim
  <2>2. CASE held[v].job = j
    <3>1. issued[j] # 0
      BY <2>1, <2>2
    <3> QED
      BY <2>1, <2>2, <3>1
  <2>3. CASE held[v].job # j
    <3>1. jobs'[held[v].job] = jobs[held[v].job]
      BY <2>1, <2>3
    <3> QED
      BY <2>1, <3>1 DEF Current
  <2> QED
    BY <2>2, <2>3
<1>4. ClaimsSound'
  BY <1>1, <1>3 DEF ClaimsSound, Current
<1> QED
  BY <1>2, <1>4

\* A transaction on one unlocked row that is not left running preserves the
\* whole invariant, given what it does to that row.
LEMMA RowWritePreserves ==
    ASSUME StoreInv, TypeOK', NEW j \in Jobs, NEW new \in Row,
           ~Locked(j), jobs' = [jobs EXCEPT ![j] = new],
           new.status # "running", new.max = jobs[j].max \/ issued[j] = 0,
           UNCHANGED <<now, issued, claimVars>>,
           \A v \in Workers : held'[v] = held[v] \/ held'[v] = NoClaim,
           \A k \in Jobs \ {j} : errorLogs'[k] = errorLogs[k] /\ audits'[k] = audits[k],
           RowInv(new, issued[j], errorLogs'[j], audits'[j])
    PROVE  StoreInv'
<1>1. \A k \in Jobs \ {j} : jobs'[k] = jobs[k]
  OBVIOUS
<1>2. jobs'[j] = new
  BY DEF StoreInv, TypeOK
<1>3. LocksSound'
  BY <1>1, UnlockedRowFrame
<1>4. ClaimsSound' /\ HolderUnique'
  BY RowWriteClaims
<1>5. ASSUME NEW k \in Jobs
      PROVE  RowInv(jobs'[k], issued'[k], errorLogs'[k], audits'[k])
  <2>1. CASE k = j
    BY <1>2, <2>1
  <2>2. CASE k # j
    BY <1>1, <2>2 DEF StoreInv
  <2> QED
    BY <2>1, <2>2
<1> QED
  BY <1>3, <1>4, <1>5 DEF StoreInv

\* Succeed preserves the invariant, whether or not its answer arrives.
LEMMA SucceededPreserves ==
    ASSUME StoreInv, TypeOK', NEW w \in Workers, NEW l \in 0..MaxResultLogs,
           NEW acked \in BOOLEAN, MarkSucceeded(w, l, acked)
    PROVE  StoreInv'
<1> DEFINE j == held[w].job
           new == SucceededRow(jobs[j])
<1>1. j \in Jobs /\ jobs[j] \in Row /\ now \in Nat /\ errorLogs[j] \in Nat
  BY DEF MarkSucceeded, StoreInv, TypeOK, Claim
<1>2. new \in Row
  BY <1>1, SimpleRowTypes
<1>3. jobs[j].status = "running" /\ ~Locked(j)
  BY DEF MarkSucceeded, Current
<1>4. /\ jobs' = [jobs EXCEPT ![j] = new]
      /\ errorLogs' = [errorLogs EXCEPT ![j] = errorLogs[j] + l]
      /\ UNCHANGED <<now, audits, issued, claimVars>>
      /\ \A v \in Workers : held'[v] = held[v] \/ held'[v] = NoClaim
  BY DEF MarkSucceeded, Answer, StoreInv, TypeOK
<1>5. new.status # "running" /\ new.max = jobs[j].max
  BY <1>1 DEF SucceededRow, Row
<1>6. RowInv(new, issued[j], errorLogs[j] + l, audits[j])
  BY <1>1, <1>3, SucceededRowInv DEF StoreInv, TypeOK
<1>7. /\ errorLogs'[j] = errorLogs[j] + l
      /\ \A k \in Jobs \ {j} : errorLogs'[k] = errorLogs[k] /\ audits'[k] = audits[k]
      /\ audits'[j] = audits[j]
  BY <1>1, <1>4 DEF StoreInv, TypeOK
<1> HIDE DEF new, j
<1> QED
  BY <1>1, <1>2, <1>3, <1>4, <1>5, <1>6, <1>7, RowWritePreserves

\* Fail preserves the invariant, whether or not its answer arrives.
LEMMA FailedPreserves ==
    ASSUME StoreInv, TypeOK', NEW w \in Workers, NEW p \in BOOLEAN,
           NEW b \in Backoffs, NEW acked \in BOOLEAN, MarkFailed(w, p, b, acked)
    PROVE  StoreInv'
<1> DEFINE c == held[w]
           j == c.job
           new == FailedRow(jobs[j], c, p, b)
<1>1. /\ c \in Claim /\ j \in Jobs /\ jobs[j] \in Row /\ now \in Nat /\ b \in Nat
      /\ errorLogs[j] \in Nat
  BY StoreAssumptions DEF MarkFailed, StoreInv, TypeOK, Claim
<1>2. new \in Row
  BY <1>1, FailedRowType
<1>3. jobs[j].status = "running" /\ ~Locked(j)
  BY DEF MarkFailed, Current
<1>4. /\ jobs' = [jobs EXCEPT ![j] = new]
      /\ errorLogs' = [errorLogs EXCEPT ![j] = errorLogs[j] + 1]
      /\ UNCHANGED <<now, audits, issued, claimVars>>
      /\ \A v \in Workers : held'[v] = held[v] \/ held'[v] = NoClaim
  BY DEF MarkFailed, Answer, StoreInv, TypeOK
<1>5. new.status # "running" /\ new.max = jobs[j].max
  BY <1>1 DEF FailedRow, Row
<1>6. c.max = jobs[j].max /\ c.attempts = jobs[j].attempts
  BY DEF MarkFailed, StoreInv, ClaimsSound
<1>7. RowInv(new, issued[j], errorLogs[j] + 1, audits[j])
  BY <1>1, <1>3, <1>6, FailedRowInv DEF StoreInv, TypeOK
<1>8. /\ errorLogs'[j] = errorLogs[j] + 1
      /\ \A k \in Jobs \ {j} : errorLogs'[k] = errorLogs[k] /\ audits'[k] = audits[k]
      /\ audits'[j] = audits[j]
  BY <1>1, <1>4 DEF StoreInv, TypeOK
<1> HIDE DEF new, c, j
<1> QED
  BY <1>1, <1>2, <1>3, <1>4, <1>5, <1>7, <1>8, RowWritePreserves

\* Retry and Cancel preserve the invariant.
LEMMA AdminPreserves ==
    ASSUME StoreInv, TypeOK', NEW j \in Jobs, Retry(j) \/ Cancel(j)
    PROVE  StoreInv'
<1>1. jobs[j] \in Row /\ now \in Nat /\ audits[j] \in Nat
  BY DEF StoreInv, TypeOK
<1>2. /\ ~Locked(j)
      /\ audits' = [audits EXCEPT ![j] = audits[j] + 1]
      /\ UNCHANGED <<now, errorLogs, issued, claimVars, held>>
  BY Zenon DEF Retry, Cancel
<1>3. /\ audits'[j] = audits[j] + 1
      /\ \A k \in Jobs \ {j} : errorLogs'[k] = errorLogs[k] /\ audits'[k] = audits[k]
  BY <1>2 DEF StoreInv, TypeOK
<1>4. CASE jobs[j].status = "failed" /\ jobs' = [jobs EXCEPT ![j] = RetriedRow(jobs[j])]
  <2> DEFINE new == RetriedRow(jobs[j])
  <2>1. new \in Row /\ new.status # "running" /\ new.max = jobs[j].max
    BY <1>1, SimpleRowTypes DEF RetriedRow, Row
  <2>2. RowInv(new, issued[j], errorLogs[j], audits[j] + 1)
    BY <1>1, <1>4, RetriedRowInv DEF StoreInv, TypeOK
  <2>3. jobs' = [jobs EXCEPT ![j] = new]
    BY <1>4
  <2> HIDE DEF new
  <2> QED
    BY <1>2, <1>3, <2>1, <2>2, <2>3, RowWritePreserves
<1>5. CASE jobs[j].status = "queued" /\ jobs' = [jobs EXCEPT ![j] = CancelledRow(jobs[j])]
  <2> DEFINE new == CancelledRow(jobs[j])
  <2>1. new \in Row /\ new.status # "running" /\ new.max = jobs[j].max
    BY <1>1, SimpleRowTypes DEF CancelledRow, Row
  <2>2. RowInv(new, issued[j], errorLogs[j], audits[j] + 1)
    BY <1>1, <1>5, CancelledRowInv DEF StoreInv, TypeOK
  <2>3. jobs' = [jobs EXCEPT ![j] = new]
    BY <1>5
  <2> HIDE DEF new
  <2> QED
    BY <1>2, <1>3, <2>1, <2>2, <2>3, RowWritePreserves
<1> QED
  BY <1>4, <1>5, Zenon DEF Retry, Cancel

\* Enqueue preserves the invariant.
LEMMA EnqueuePreserves ==
    ASSUME StoreInv, TypeOK', NEW j \in Jobs, NEW r \in Resources \cup {NoResource},
           NEW m \in AttemptInputs, NEW d \in DelayInputs, Enqueue(j, r, m, d)
    PROVE  StoreInv'
<1> DEFINE new == jobs'[j]
<1>1. /\ new \in Row /\ jobs[j] \in Row /\ jobs[j].status = "absent"
      /\ new.status = "queued" /\ new.attempts = 0 /\ new.max = EffectiveMax(m)
      /\ new.retryable = TRUE /\ new.token = 0 /\ new.lease = 0
      /\ jobs' = [jobs EXCEPT ![j] = new]
      /\ UNCHANGED <<now, errorLogs, audits, issued, claimVars, held>>
  BY DEF Enqueue, StoreInv, TypeOK
<1>2. new.max >= 1
  BY <1>1, StoreAssumptions DEF EffectiveMax
<1>3. issued[j] = 0 /\ RowInv(jobs[j], issued[j], errorLogs[j], audits[j])
  BY <1>1 DEF StoreInv, RowInv
<1>4. RowInv(new, issued[j], errorLogs[j], audits[j])
  BY <1>1, <1>2, <1>3, EnqueuedRowInv DEF StoreInv, TypeOK
<1>5. ~Locked(j)
  <2>1. ASSUME NEW t \in Nat PROVE ~Exhausted(jobs[j], t) /\ ~Claimable(jobs[j], t)
    BY <1>1 DEF Exhausted, Claimable
  <2> QED
    BY <2>1 DEF Locked, Locks, StoreInv, TypeOK, LocksSound
<1> HIDE DEF new
<1> QED
  BY <1>1, <1>3, <1>4, <1>5, RowWritePreserves

\* The invariant is inductive.
LEMMA NextStoreInv == StoreInv /\ [Next]_vars => StoreInv'
<1> SUFFICES ASSUME StoreInv, [Next]_vars PROVE StoreInv'
  OBVIOUS
<1>0. TypeOK'
  BY NextTypeOK DEF StoreInv
<1>1. ASSUME NEW w \in Workers, ClaimCall(w) \/ ClaimSnapshot(w) PROVE StoreInv'
  <2>1. UNCHANGED <<jobs, issued, errorLogs, audits, held>>
    BY <1>1 DEF ClaimCall, ClaimSnapshot
  <2> QED
    BY <1>0, <1>1, <2>1, CallPreserves, RowsFrame, ClaimsFrame DEF StoreInv
<1>2. ASSUME NEW w \in Workers, ClaimLock(w) PROVE StoreInv'
  <2>1. UNCHANGED <<jobs, issued, errorLogs, audits, held>>
    BY <1>2 DEF ClaimLock
  <2> QED
    BY <1>0, <1>2, <2>1, LockPreserves, RowsFrame, ClaimsFrame DEF StoreInv
<1>3. ASSUME NEW w \in Workers, ClaimCommit(w) \/ ClaimCommitLost(w) PROVE StoreInv'
  <2>1. ClaimEffect(w)
    BY <1>3 DEF ClaimCommit, ClaimCommitLost
  <2> QED
    BY <1>0, <1>3, <2>1, EffectRows, EffectLocks, EffectClaims DEF StoreInv
<1>4. ASSUME NEW w \in Workers, ClaimAbort(w) PROVE StoreInv'
  <2>1. UNCHANGED <<jobs, issued, errorLogs, audits, held>>
    BY <1>4 DEF ClaimAbort
  <2> QED
    BY <1>0, <1>4, <2>1, EndPreserves, RowsFrame, ClaimsFrame DEF StoreInv
<1>5. ASSUME NEW w \in Workers, FinalizeRejected(w) \/ Abandon(w) PROVE StoreInv'
  <2>1. UNCHANGED <<now, jobs, issued, errorLogs, audits, claimVars>>
    BY <1>5 DEF FinalizeRejected, Abandon
  <2>2. held' = [held EXCEPT ![w] = NoClaim]
    BY <1>5 DEF FinalizeRejected, Abandon
  <2>3. LocksSound'
    BY <2>1 DEF StoreInv, LocksSound, Locks, Exhausted, Claimable, claimVars
  <2> QED
    BY <1>0, <2>1, <2>2, <2>3, RowsFrame, LetGo DEF StoreInv
<1>6. CASE Tick
  <2>1. UNCHANGED <<jobs, issued, errorLogs, audits, claimVars, held>> /\ now' = now + 1
    BY <1>6 DEF Tick
  <2>2. LocksSound'
    BY <2>1 DEF StoreInv, TypeOK, LocksSound, Locks, Exhausted, Claimable, claimVars
  <2> QED
    BY <1>0, <2>1, <2>2, RowsFrame, ClaimsFrame DEF StoreInv
<1>7. CASE UNCHANGED vars
  BY <1>0, <1>7, RowsFrame, ClaimsFrame
     DEF vars, claimVars, StoreInv, LocksSound, Locks, Exhausted, Claimable
<1>8. ASSUME NEW w \in Workers, WorkerStep(w) PROVE StoreInv'
  BY <1>0, <1>1, <1>2, <1>3, <1>4, <1>5, <1>8, SucceededPreserves, FailedPreserves
     DEF WorkerStep
<1>9. ASSUME NEW j \in Jobs, EnqueueStep(j) \/ AdminStep(j) PROVE StoreInv'
  BY <1>0, <1>9, EnqueuePreserves, AdminPreserves DEF EnqueueStep, AdminStep
<1> QED
  BY <1>6, <1>7, <1>8, <1>9 DEF Next

\* The inductive invariant holds in every reachable state.
THEOREM StoreInvariant == Spec => []StoreInv
BY InitStoreInv, NextStoreInv, PTL DEF Spec

-----------------------------------------------------------------------------
(* The properties *)

\* The row invariant contains the CHECK constraints of the jobs table.
LEMMA InvImpliesRowsSound == StoreInv => RowsSound
<1> SUFFICES ASSUME StoreInv, NEW j \in Jobs
             PROVE  /\ jobs[j].max >= 1
                    /\ jobs[j].attempts <= jobs[j].max
                    /\ (jobs[j].status = "running") <=> (jobs[j].token # 0)
                    /\ (jobs[j].status = "running") <=> (jobs[j].lease # 0)
                    /\ jobs[j].status = "running" => jobs[j].attempts >= 1
                    /\ jobs[j].status = "queued"
                         => jobs[j].attempts < jobs[j].max /\ jobs[j].retryable
  BY DEF RowsSound
<1>1. /\ RowInv(jobs[j], issued[j], errorLogs[j], audits[j])
      /\ issued[j] \in Nat /\ errorLogs[j] \in Nat
  BY DEF StoreInv, TypeOK
<1>2. jobs[j].status = "running" => jobs[j].token # 0
  BY <1>1 DEF RowInv
<1> QED
  BY <1>1, <1>2 DEF RowInv

\* The row invariant bounds the claims of a job.
LEMMA InvImpliesBudget == StoreInv => AttemptBudget
<1> SUFFICES ASSUME StoreInv, NEW j \in Jobs
             PROVE  issued[j] <= jobs[j].max * (1 + audits[j])
  BY DEF AttemptBudget
<1> DEFINE m == jobs[j].max
           a == audits[j]
<1>1. m \in Nat /\ a \in Nat /\ issued[j] \in Nat /\ jobs[j].attempts \in Nat
  BY DEF StoreInv, TypeOK, Row
<1>2. issued[j] <= m * a + jobs[j].attempts /\ jobs[j].attempts <= m
  BY DEF StoreInv, RowInv
<1> HIDE DEF m, a
<1>3. m * (1 + a) = m * a + m /\ m * a \in Nat
  BY <1>1
<1>4. issued[j] <= m * a + m
  BY <1>1, <1>2, <1>3
<1> QED
  BY <1>3, <1>4 DEF m, a

\* The row invariant relates a job's failures to its error lines.
LEMMA InvImpliesLedger == StoreInv => FailureLedger
<1> SUFFICES ASSUME StoreInv, NEW j \in Jobs
             PROVE  /\ Retries(j) + (IF jobs[j].status = "failed" THEN 1 ELSE 0)
                         <= errorLogs[j]
                    /\ errorLogs[j] <= IF jobs[j].status = "succeeded"
                                       THEN issued[j] - 1 + MaxResultLogs ELSE issued[j]
  BY DEF FailureLedger
<1>1. /\ RowInv(jobs[j], issued[j], errorLogs[j], audits[j])
      /\ issued[j] \in Nat /\ errorLogs[j] \in Nat /\ audits[j] \in Nat
  BY DEF StoreInv, TypeOK
<1> QED
  BY <1>1, StoreAssumptions DEF RowInv, Retries

\* No row violates the table's constraints and no queued job is stranded.
THEOREM RowsSoundTheorem == Spec => []RowsSound
BY StoreInvariant, InvImpliesRowsSound, PTL

\* Claims are bounded by max_attempts and the audited retries.
THEOREM AttemptBudgetTheorem == Spec => []AttemptBudget
BY StoreInvariant, InvImpliesBudget, PTL

\* Each failure is logged, and what a claim logs is logged once.
THEOREM FailureLedgerTheorem == Spec => []FailureLedger
BY StoreInvariant, InvImpliesLedger, PTL

\* That no claim has two holders is a part of the invariant.
LEMMA InvImpliesHolder == StoreInv => HolderUnique
BY DEF StoreInv

\* No two workers hold the same claim.
THEOREM HolderUniqueTheorem == Spec => []HolderUnique
BY StoreInvariant, InvImpliesHolder, PTL

\* From the invariant, no step takes a job with a live lease from its holder: the
\* rows a claim statement locked expired before its clock reading.
LEMMA NextLeaseHonoured == StoreInv /\ [Next]_vars => LeaseHonouredStep
<1> SUFFICES ASSUME StoreInv, [Next]_vars, NEW j \in Jobs,
                    jobs[j].status = "running", jobs[j].lease > now, jobs'[j] # jobs[j]
             PROVE  /\ pc' = pc
                    /\ \E w \in Workers : /\ held[w] # NoClaim
                                          /\ held[w].job = j
                                          /\ held[w].token = jobs[j].token
  BY DEF LeaseHonouredStep
<1> USE DEF StoreInv, TypeOK
<1>1. ASSUME NEW w \in Workers, ClaimEffect(w) PROVE FALSE
  <2>1. Exhausted(jobs[j], at[w]) \/ Claimable(jobs[j], at[w])
    BY <1>1, EffectRow
  <2>2. jobs[j].lease <= at[w]
    BY <2>1 DEF Exhausted, Claimable
  <2>3. at[w] <= now /\ at[w] \in Nat /\ jobs[j].lease \in Nat
    BY DEF LocksSound, Row
  <2> QED
    BY <2>2, <2>3
<1>2. ASSUME NEW k \in Jobs, EnqueueStep(k) \/ AdminStep(k) PROVE FALSE
  <2>1. k # j => jobs'[j] = jobs[j]
    BY <1>2, Zenon DEF EnqueueStep, AdminStep, Enqueue, Retry, Cancel
  <2>2. jobs[k].status # "running"
    BY <1>2 DEF EnqueueStep, AdminStep, Enqueue, Retry, Cancel
  <2> QED
    BY <2>1, <2>2
<1>3. ASSUME NEW w \in Workers, NEW a \in BOOLEAN,
             \/ \E l \in 0..MaxResultLogs : MarkSucceeded(w, l, a)
             \/ \E p \in BOOLEAN, b \in Backoffs : MarkFailed(w, p, b, a)
      PROVE  /\ pc' = pc
             /\ held[w] # NoClaim /\ held[w].job = j /\ held[w].token = jobs[j].token
  <2>1. held[w] # NoClaim /\ Current(held[w])
    BY <1>3 DEF MarkSucceeded, MarkFailed
  <2>2. \E new : jobs' = [jobs EXCEPT ![held[w].job] = new]
    BY <1>3 DEF MarkSucceeded, MarkFailed
  <2>3. pc' = pc
    BY <1>3 DEF MarkSucceeded, MarkFailed, claimVars
  <2> QED
    BY <2>1, <2>2, <2>3 DEF Current
<1>4. ASSUME NEW w \in Workers,
             \/ ClaimCall(w) \/ ClaimSnapshot(w) \/ ClaimLock(w) \/ ClaimAbort(w)
             \/ FinalizeRejected(w) \/ Abandon(w)
      PROVE  FALSE
  BY <1>4 DEF ClaimCall, ClaimSnapshot, ClaimLock, ClaimAbort, FinalizeRejected, Abandon
<1>5. CASE \E w \in Workers : WorkerStep(w)
  BY <1>1, <1>3, <1>4, <1>5 DEF WorkerStep, ClaimCommit, ClaimCommitLost
<1> QED
  BY <1>2, <1>5 DEF Next, Tick, vars

\* Only the holder changes a row under a live lease.
THEOREM LeaseHonouredTheorem == Spec => LeaseHonoured
<1>1. StoreInv /\ [Next]_vars => [LeaseHonouredStep]_vars
  BY NextLeaseHonoured
<1> QED
  BY <1>1, StoreInvariant, PTL DEF Spec, LeaseHonoured

\* From the invariant, no step changes a settled row.
LEMMA NextSettled == StoreInv /\ [Next]_vars => SettledStep
<1> SUFFICES ASSUME StoreInv, [Next]_vars, NEW j \in Jobs, jobs'[j] # jobs[j]
             PROVE  /\ ~Settled(jobs[j])
                    /\ jobs[j].status = "failed"
                         => jobs'[j].status = "queued" /\ audits'[j] = audits[j] + 1
  BY DEF SettledStep
<1> USE DEF StoreInv, TypeOK
<1>1. ASSUME NEW w \in Workers, ClaimEffect(w)
      PROVE  jobs[j].status \in {"queued", "running"}
  <2>1. Exhausted(jobs[j], at[w]) \/ Claimable(jobs[j], at[w])
    BY <1>1, EffectRow
  <2> QED
    BY <2>1 DEF Exhausted, Claimable
<1>2. ASSUME NEW k \in Jobs, EnqueueStep(k) \/ Cancel(k)
      PROVE  jobs[j].status \in {"absent", "queued"}
  <2>1. k # j => jobs'[j] = jobs[j]
    BY <1>2, Zenon DEF EnqueueStep, Enqueue, Cancel
  <2> QED
    BY <1>2, <2>1 DEF EnqueueStep, Enqueue, Cancel
<1>3. ASSUME NEW k \in Jobs, Retry(k)
      PROVE  /\ jobs[j].status = "failed" /\ jobs[j].retryable
             /\ jobs'[j].status = "queued" /\ audits'[j] = audits[j] + 1
  <2>1. /\ jobs' = [jobs EXCEPT ![k] = RetriedRow(jobs[k])]
        /\ audits' = [audits EXCEPT ![k] = audits[k] + 1]
        /\ jobs[k].status = "failed"
    BY <1>3 DEF Retry
  <2>2. jobs[k].retryable
    BY <1>3, Zenon DEF Retry
  <2>3. k = j
    BY <2>1
  <2>4. RetriedRow(jobs[j]).status = "queued"
    BY DEF RetriedRow, Row
  <2> QED
    BY <2>1, <2>2, <2>3, <2>4
<1>4. ASSUME NEW w \in Workers, NEW a \in BOOLEAN,
             \/ \E l \in 0..MaxResultLogs : MarkSucceeded(w, l, a)
             \/ \E p \in BOOLEAN, b \in Backoffs : MarkFailed(w, p, b, a)
      PROVE  jobs[j].status = "running"
  <2>1. jobs[held[w].job].status = "running"
    BY <1>4 DEF MarkSucceeded, MarkFailed, Current
  <2>2. \E new : jobs' = [jobs EXCEPT ![held[w].job] = new]
    BY <1>4 DEF MarkSucceeded, MarkFailed
  <2> QED
    BY <2>1, <2>2
<1>5. ASSUME NEW w \in Workers,
             \/ ClaimCall(w) \/ ClaimSnapshot(w) \/ ClaimLock(w) \/ ClaimAbort(w)
             \/ FinalizeRejected(w) \/ Abandon(w)
      PROVE  FALSE
  BY <1>5 DEF ClaimCall, ClaimSnapshot, ClaimLock, ClaimAbort, FinalizeRejected, Abandon
<1>6. CASE \E w \in Workers : WorkerStep(w)
  <2>1. jobs[j].status \in {"queued", "running"}
    BY <1>1, <1>4, <1>5, <1>6 DEF WorkerStep, ClaimCommit, ClaimCommitLost
  <2> QED
    BY <2>1 DEF Settled
<1>7. CASE \E k \in Jobs : EnqueueStep(k) \/ Cancel(k)
  BY <1>2, <1>7 DEF Settled
<1>8. CASE \E k \in Jobs : Retry(k)
  <2>1. /\ jobs[j].status = "failed" /\ jobs[j].retryable
        /\ jobs'[j].status = "queued" /\ audits'[j] = audits[j] + 1
    BY <1>3, <1>8
  <2>2. ~Settled(jobs[j])
    BY <2>1 DEF Settled
  <2> QED
    BY <2>1, <2>2
<1> QED
  BY <1>6, <1>7, <1>8 DEF Next, AdminStep, Tick, vars

\* Settled jobs stay settled; only an audited retry revives a failed one.
THEOREM SettledStaysTheorem == Spec => SettledStays
<1>1. StoreInv /\ [Next]_vars => [SettledStep]_vars
  BY NextSettled
<1> QED
  BY <1>1, StoreInvariant, PTL DEF Spec, SettledStays

-----------------------------------------------------------------------------
(* JobStore implements JobLifecycle *)

\* The expiry of a lease on the last attempt is a failure of the life cycle.
LEMMA ExpiredMoves ==
    ASSUME NEW row \in Row, NEW n \in Nat, NEW e \in Nat, NEW a \in Nat,
           NEW t \in Nat, Exhausted(row, t), row.attempts <= row.max
    PROVE  Life!Move(LifeRecord(row, n, e, a), LifeRecord(ExpiredRow(row), n, e + 1, a))
BY DEF Life!Move, Life!Fail, Life!Records, LifeRecord, Stage, ExpiredRow, Exhausted, Row

\* A claim is an attempt, of a queued job or of one whose lease ran out.
LEMMA ClaimedMoves ==
    ASSUME NEW row \in Row, NEW n \in Nat, NEW e \in Nat, NEW a \in Nat,
           NEW t \in Nat, Claimable(row, t)
    PROVE  Life!Move(LifeRecord(row, n, e, a),
                     LifeRecord(ClaimedRow(row, t, n + 1), n + 1, e, a))
BY DEF Life!Move, Life!Attempt, Life!Records, LifeRecord, Stage, ClaimedRow, Claimable, Row

\* MarkSucceeded is the success of the life cycle.
LEMMA SucceededMoves ==
    ASSUME NEW row \in Row, NEW n \in Nat, NEW e \in Nat, NEW a \in Nat,
           NEW l \in 0..MaxResultLogs, row.status = "running"
    PROVE  Life!Move(LifeRecord(row, n, e, a), LifeRecord(SucceededRow(row), n, e + l, a))
BY StoreAssumptions DEF Life!Move, Life!Succeed, Life!Records, LifeRecord, Stage, SucceededRow, Row

\* MarkFailed decides on the worker's copy of the attempts what the life cycle
\* decides on the row's.
LEMMA FailedMoves ==
    ASSUME NEW row \in Row, NEW n \in Nat, NEW e \in Nat, NEW a \in Nat,
           NEW c \in Claim, NEW p \in BOOLEAN, NEW b \in Nat, now \in Nat,
           row.status = "running", row.attempts <= row.max,
           c.max = row.max, c.attempts = row.attempts
    PROVE  Life!Move(LifeRecord(row, n, e, a),
                     LifeRecord(FailedRow(row, c, p, b), n, e + 1, a))
<1> USE DEF Life!Move, Life!Fail, Life!Records, LifeRecord, Stage, Row
<1>1. CASE p = TRUE
  <2>1. FailedRow(row, c, p, b) =
          [row EXCEPT !.status = "failed", !.runAfter = now,
                      !.retryable = FALSE, !.token = 0, !.lease = 0]
    BY <1>1, Zenon DEF FailedRow
  <2> QED
    BY <1>1, <2>1
<1>2. CASE p = FALSE /\ c.attempts >= c.max
  BY <1>2 DEF FailedRow
<1>3. CASE p = FALSE /\ ~(c.attempts >= c.max)
  <2>1. FailedRow(row, c, p, b) =
          [row EXCEPT !.status = "queued", !.runAfter = now + b,
                      !.retryable = TRUE, !.token = 0, !.lease = 0]
    BY <1>3 DEF FailedRow
  <2>2. row.attempts < row.max
    BY <1>3 DEF Claim
  <2> QED
    BY <2>1, <2>2
<1> QED
  BY <1>1, <1>2, <1>3

\* An audited retry of a failed row is the retry of the life cycle.
LEMMA RetriedMoves ==
    ASSUME NEW row \in Row, NEW n \in Nat, NEW e \in Nat, NEW a \in Nat,
           now \in Nat, row.status = "failed", row.retryable = TRUE
    PROVE  Life!Move(LifeRecord(row, n, e, a), LifeRecord(RetriedRow(row), n, e, a + 1))
BY DEF Life!Move, Life!Retry, Life!Records, LifeRecord, Stage, RetriedRow, Row

\* Cancelling a queued row is the cancellation of the life cycle.
LEMMA CancelledMoves ==
    ASSUME NEW row \in Row, NEW n \in Nat, NEW e \in Nat, NEW a \in Nat,
           row.status = "queued"
    PROVE  Life!Move(LifeRecord(row, n, e, a), LifeRecord(CancelledRow(row), n, e, a + 1))
BY DEF Life!Move, Life!Cancel, Life!Records, LifeRecord, Stage, CancelledRow, Row

\* From the invariant, every step of the store moves each job along its life cycle
\* or leaves it alone.
LEMMA NextMoves ==
    ASSUME StoreInv, [Next]_vars, NEW j \in Jobs
    PROVE  LifeOf(j)' = LifeOf(j) \/ Life!Move(LifeOf(j), LifeOf(j)')
<1> USE DEF StoreInv, TypeOK, LifeOf
<1> DEFINE row == jobs[j]
<1>1. /\ row \in Row /\ now \in Nat
      /\ issued[j] \in Nat /\ errorLogs[j] \in Nat /\ audits[j] \in Nat
  OBVIOUS
<1>2. row.attempts <= row.max
  BY DEF RowInv
<1>3. ASSUME UNCHANGED <<jobs, errorLogs, audits, issued>>
      PROVE  LifeOf(j)' = LifeOf(j)
  BY <1>3
<1>4. ASSUME NEW w \in Workers, ClaimEffect(w)
      PROVE  LifeOf(j)' = LifeOf(j) \/ Life!Move(LifeOf(j), LifeOf(j)')
  <2>1. at[w] \in Nat /\ audits' = audits
    BY <1>4 DEF ClaimEffect
  <2>2. CASE /\ Exhausted(row, at[w])
             /\ jobs'[j] = ExpiredRow(row)
             /\ errorLogs'[j] = errorLogs[j] + 1
             /\ issued'[j] = issued[j]
    BY <1>1, <1>2, <2>1, <2>2, ExpiredMoves
  <2>3. CASE /\ Claimable(row, at[w])
             /\ jobs'[j] = ClaimedRow(row, at[w], issued[j] + 1)
             /\ errorLogs'[j] = errorLogs[j]
             /\ issued'[j] = issued[j] + 1
    BY <1>1, <2>1, <2>3, ClaimedMoves
  <2>4. CASE jobs'[j] = row /\ errorLogs'[j] = errorLogs[j] /\ issued'[j] = issued[j]
    BY <2>1, <2>4
  <2> QED
    BY <1>4, <2>2, <2>3, <2>4, EffectRow
<1>5. ASSUME NEW w \in Workers, NEW l \in 0..MaxResultLogs, NEW acked \in BOOLEAN,
             MarkSucceeded(w, l, acked)
      PROVE  LifeOf(j)' = LifeOf(j) \/ Life!Move(LifeOf(j), LifeOf(j)')
  <2>1. /\ jobs' = [jobs EXCEPT ![held[w].job] = SucceededRow(jobs[held[w].job])]
        /\ errorLogs' = [errorLogs EXCEPT ![held[w].job] = errorLogs[held[w].job] + l]
        /\ UNCHANGED <<audits, issued>>
        /\ jobs[held[w].job].status = "running"
    BY <1>5 DEF MarkSucceeded, Current
  <2>2. CASE held[w].job = j
    BY <1>1, <2>1, <2>2, SucceededMoves
  <2>3. CASE held[w].job # j
    BY <2>1, <2>3
  <2> QED
    BY <2>2, <2>3
<1>6. ASSUME NEW w \in Workers, NEW p \in BOOLEAN, NEW b \in Backoffs,
             NEW acked \in BOOLEAN, MarkFailed(w, p, b, acked)
      PROVE  LifeOf(j)' = LifeOf(j) \/ Life!Move(LifeOf(j), LifeOf(j)')
  <2> DEFINE c == held[w]
  <2>1. /\ jobs' = [jobs EXCEPT ![c.job] = FailedRow(jobs[c.job], c, p, b)]
        /\ errorLogs' = [errorLogs EXCEPT ![c.job] = errorLogs[c.job] + 1]
        /\ UNCHANGED <<audits, issued>>
        /\ jobs[c.job].status = "running"
    BY <1>6 DEF MarkFailed, Current
  <2>2. c \in Claim /\ c.max = jobs[c.job].max /\ c.attempts = jobs[c.job].attempts
    BY <1>6 DEF MarkFailed, ClaimsSound
  <2>3. b \in Nat
    BY StoreAssumptions
  <2> HIDE DEF c
  <2>4. CASE c.job = j
    <3>1. jobs'[j] = FailedRow(row, c, p, b) /\ errorLogs'[j] = errorLogs[j] + 1
      BY <2>1, <2>4
    <3> QED
      BY <1>1, <1>2, <2>1, <2>2, <2>3, <2>4, <3>1, FailedMoves
  <2>5. CASE c.job # j
    BY <2>1, <2>5
  <2> QED
    BY <2>4, <2>5
<1>7. ASSUME NEW k \in Jobs, Retry(k)
      PROVE  LifeOf(j)' = LifeOf(j) \/ Life!Move(LifeOf(j), LifeOf(j)')
  <2>1. /\ jobs' = [jobs EXCEPT ![k] = RetriedRow(jobs[k])]
        /\ audits' = [audits EXCEPT ![k] = audits[k] + 1]
        /\ jobs[k].status = "failed"
        /\ UNCHANGED <<errorLogs, issued>>
    BY <1>7 DEF Retry
  <2>2. jobs[k].retryable = TRUE
    BY <1>7 DEF Retry, Row
  <2>3. CASE k = j
    BY <1>1, <2>1, <2>2, <2>3, RetriedMoves
  <2>4. CASE k # j
    BY <2>1, <2>4
  <2> QED
    BY <2>3, <2>4
<1>8. ASSUME NEW k \in Jobs, Cancel(k)
      PROVE  LifeOf(j)' = LifeOf(j) \/ Life!Move(LifeOf(j), LifeOf(j)')
  <2>1. /\ jobs' = [jobs EXCEPT ![k] = CancelledRow(jobs[k])]
        /\ audits' = [audits EXCEPT ![k] = audits[k] + 1]
        /\ jobs[k].status = "queued"
        /\ UNCHANGED <<errorLogs, issued>>
    BY <1>8 DEF Cancel
  <2>2. CASE k = j
    BY <1>1, <2>1, <2>2, CancelledMoves
  <2>3. CASE k # j
    BY <2>1, <2>3
  <2> QED
    BY <2>2, <2>3
<1>9. ASSUME NEW k \in Jobs, NEW r \in Resources \cup {NoResource},
             NEW i \in AttemptInputs, NEW d \in DelayInputs, Enqueue(k, r, i, d)
      PROVE  LifeOf(j)' = LifeOf(j) \/ Life!Move(LifeOf(j), LifeOf(j)')
  <2>1. /\ UNCHANGED <<errorLogs, audits, issued>>
        /\ k # j => jobs'[j] = jobs[j]
    BY <1>9 DEF Enqueue
  <2>2. CASE k = j
    <3>1. EffectiveMax(i) \in 1..MaxJobAttempts
      BY <1>9, StoreAssumptions DEF Enqueue, EffectiveMax
    <3>2. /\ row.status = "absent"
          /\ jobs'[j].status = "queued" /\ jobs'[j].attempts = 0
          /\ jobs'[j].max = EffectiveMax(i)
      BY <1>9, <2>2 DEF Enqueue
    <3> QED
      BY <1>1, <2>1, <3>1, <3>2 DEF LifeRecord, Stage, Life!Move, Life!Submit
  <2> QED
    BY <2>1, <2>2
<1>10. ASSUME NEW w \in Workers, WorkerStep(w)
       PROVE  LifeOf(j)' = LifeOf(j) \/ Life!Move(LifeOf(j), LifeOf(j)')
  <2>1. ASSUME \/ ClaimCall(w) \/ ClaimSnapshot(w) \/ ClaimLock(w) \/ ClaimAbort(w)
               \/ FinalizeRejected(w) \/ Abandon(w)
        PROVE  UNCHANGED <<jobs, errorLogs, audits, issued>>
    BY <2>1 DEF ClaimCall, ClaimSnapshot, ClaimLock, ClaimAbort, FinalizeRejected, Abandon
  <2> QED
    BY <1>3, <1>4, <1>5, <1>6, <1>10, <2>1 DEF WorkerStep, ClaimCommit, ClaimCommitLost
<1>11. ASSUME Tick \/ UNCHANGED vars
       PROVE  UNCHANGED <<jobs, errorLogs, audits, issued>>
  BY <1>11 DEF Tick, vars
<1> QED
  BY <1>3, <1>7, <1>8, <1>9, <1>10, <1>11 DEF Next, EnqueueStep, AdminStep

\* The empty table is the initial state of every life cycle.
LEMMA InitLife == Init => Life!Init
BY DEF Init, NoView, AbsentRow, LifeOf, LifeRecord, Stage, Life!Init

\* The job store, with its claims, leases, snapshots and lost answers, implements
\* the life cycle of each job.
THEOREM LifecycleTheorem == Spec => FollowsLifecycle
<1>1. StoreInv /\ [Next]_vars => [Life!Next]_([j \in Jobs |-> LifeOf(j)])
  BY NextMoves, Zenon DEF Life!Next
<1> QED
  BY <1>1, InitLife, StoreInvariant, PTL DEF Spec, FollowsLifecycle, Life!Spec

-----------------------------------------------------------------------------
(* One claim statement at a time: resources are exclusive *)

\* PostgreSQL never has two claim statements under way, not even one whose client is
\* gone.
OneStatement ==
    \A v, w \in Workers : pc[v] # "idle" /\ pc[w] # "idle" => v = w

LiveOn(table, k, t) == table[k].status = "running" /\ table[k].lease > t

\* What the snapshot of an open claim statement still says about the table.
ViewSound(w) ==
    \A k \in Jobs :
        /\ view[w][k].status # "absent" =>
              jobs[k].status # "absent" /\ jobs[k].resource = view[w][k].resource
        /\ LiveOn(jobs, k, at[w]) =>
              LiveOn(view[w], k, at[w]) /\ view[w][k].resource = jobs[k].resource

\* With one claim statement at a time nothing starts to run while it is under way, so
\* its snapshot shows everything that runs.
ResourceInv ==
    /\ ResourceExclusive
    /\ \A w \in Workers :
        /\ pc[w] = "snapped" => ViewSound(w)
        /\ granted[w] => ResourceFree(jobs, candidate[w], at[w])

\* An empty table excludes everything.
LEMMA InitResourceInv == Init => ResourceInv
BY DEF Init, ResourceInv, ResourceExclusive, NoView, AbsentRow

\* Writes that start nothing, change no resource of an existing row and touch no
\* locked row preserve the exclusion.
LEMMA QuietStep ==
    ASSUME StoreInv, ResourceInv, TypeOK', now' >= now,
           UNCHANGED <<pc, at, view, candidate, granted>>,
           \A k \in Jobs :
              \/ jobs'[k] = jobs[k]
              \/ /\ jobs'[k].status \notin {"running", "absent"}
                 /\ jobs'[k].resource = jobs[k].resource \/ jobs[k].status = "absent"
                 /\ ~Locked(k)
    PROVE  ResourceInv'
<1> USE DEF StoreInv, TypeOK
<1>1. ASSUME NEW k \in Jobs, jobs'[k].status = "running"
      PROVE  jobs'[k] = jobs[k]
  BY <1>1
<1>2. ResourceExclusive'
  <2>1. ASSUME NEW k \in Jobs, jobs'[k].status = "running", jobs'[k].lease > now'
        PROVE  jobs'[k] = jobs[k] /\ jobs[k].lease > now
    <3>1. jobs'[k] = jobs[k] /\ jobs[k].lease \in Nat /\ now \in Nat /\ now' \in Nat
      BY <1>1, <2>1 DEF Row
    <3> QED
      BY <2>1, <3>1
  <2>2. ResourceExclusive
    BY DEF ResourceInv
  <2> QED
    BY <2>1, <2>2 DEF ResourceExclusive
<1>3. ASSUME NEW w \in Workers, pc[w] = "snapped" PROVE ViewSound(w)'
  <2>1. ViewSound(w)
    BY <1>3 DEF ResourceInv
  <2> QED
    BY <1>1, <2>1 DEF ViewSound, LiveOn
<1>4. ASSUME NEW w \in Workers, granted[w]
      PROVE  ResourceFree(jobs', candidate[w], at[w])
  <2>1. candidate[w] \in Jobs /\ candidate[w] \in Locks(w)
    BY <1>4, StoreAssumptions DEF Locks
  <2>2. jobs'[candidate[w]] = jobs[candidate[w]]
    BY <2>1 DEF Locked
  <2> QED
    BY <1>1, <1>4, <2>1, <2>2 DEF ResourceInv, ResourceFree
<1>5. \A w \in Workers : granted'[w] => ResourceFree(jobs', candidate'[w], at'[w])
  BY <1>4
<1> QED
  BY <1>2, <1>3, <1>5 DEF ResourceInv, ResourceFree

\* A step of one claim statement that writes no row leaves what is known of the others.
LEMMA OtherStatements ==
    ASSUME ResourceInv, UNCHANGED <<now, jobs>>, NEW w \in Workers,
           \A v \in Workers \ {w} :
              UNCHANGED <<pc[v], at[v], view[v], candidate[v], granted[v]>>,
           pc'[w] = "snapped" => ViewSound(w)',
           granted'[w] => ResourceFree(jobs, candidate'[w], at'[w])
    PROVE  ResourceInv'
<1>1. ResourceExclusive'
  BY DEF ResourceInv, ResourceExclusive
<1>2. ASSUME NEW v \in Workers, pc'[v] = "snapped" PROVE ViewSound(v)'
  BY <1>2 DEF ResourceInv, ViewSound, LiveOn
<1>3. ASSUME NEW v \in Workers, granted'[v]
      PROVE  ResourceFree(jobs', candidate'[v], at'[v])
  BY <1>3 DEF ResourceInv
<1> QED
  BY <1>1, <1>2, <1>3 DEF ResourceInv, ResourceFree

\* With one claim statement at a time every step preserves the exclusion.
LEMMA NextResourceInv ==
    ASSUME OneStatement, StoreInv, StoreInv', ResourceInv, [Next]_vars
    PROVE  ResourceInv'
<1> USE DEF StoreInv, TypeOK
<1>0. ASSUME NEW w \in Workers, pc[w] # "locked" PROVE ~granted[w]
  BY <1>0, StoreAssumptions DEF LocksSound
<1>1. ASSUME NEW w \in Workers, ClaimCall(w) PROVE ResourceInv'
  <2>1. /\ UNCHANGED <<now, jobs, view, candidate, granted>>
        /\ pc' = [pc EXCEPT ![w] = "called"] /\ pc[w] = "idle"
        /\ at' = [at EXCEPT ![w] = now]
    BY <1>1 DEF ClaimCall
  <2> QED
    BY <1>0, <2>1, OtherStatements
<1>2. ASSUME NEW w \in Workers, ClaimSnapshot(w) PROVE ResourceInv'
  <2>1. ViewSound(w)'
    BY <1>2 DEF ClaimSnapshot, ViewSound, LiveOn
  <2>2. /\ UNCHANGED <<now, jobs, at, candidate, granted>>
        /\ pc' = [pc EXCEPT ![w] = "snapped"] /\ pc[w] = "called"
        /\ view' = [view EXCEPT ![w] = jobs]
    BY <1>2 DEF ClaimSnapshot
  <2> QED
    BY <1>0, <2>1, <2>2, OtherStatements
<1>3. ASSUME NEW w \in Workers, ClaimLock(w) PROVE ResourceInv'
  <2>1. ~granted[w]
    <3>1. pc[w] = "snapped"
      BY <1>3 DEF ClaimLock
    <3> QED
      BY <3>1, StoreAssumptions DEF LocksSound
  <2>2. ASSUME NEW j \in Eligible(w) PROVE ResourceFree(jobs, j, at[w])
    <3>1. j \in Jobs /\ Claimable(view[w][j], at[w]) /\ ResourceFree(view[w], j, at[w])
      BY DEF Eligible
    <3>2. ViewSound(w) /\ view[w][j].status # "absent"
      BY <1>3, <3>1 DEF ClaimLock, ResourceInv, Claimable
    <3> QED
      BY <3>1, <3>2 DEF ResourceFree, ViewSound, LiveOn
  <2>3. granted'[w] => ResourceFree(jobs, candidate'[w], at[w])
    <3>1. CASE UNCHANGED <<candidate, granted>>
      BY <2>1, <3>1
    <3>2. CASE \E j \in Eligible(w) : candidate' = [candidate EXCEPT ![w] = j]
      BY <2>2, <3>2
    <3> QED
      BY <1>3, <3>1, <3>2 DEF ClaimLock
  <2>4. /\ UNCHANGED <<now, jobs, at>>
        /\ pc' = [pc EXCEPT ![w] = "locked"]
        /\ view' = [view EXCEPT ![w] = NoView]
    BY <1>3 DEF ClaimLock
  <2>5. \A v \in Workers \ {w} : UNCHANGED <<candidate[v], granted[v]>>
    BY <1>3 DEF ClaimLock
  <2> QED
    BY <2>3, <2>4, <2>5, OtherStatements
<1>4. ASSUME NEW w \in Workers, ClaimEffect(w) PROVE ResourceInv'
  <2>1. ASSUME NEW j \in Jobs, Claims(w, j), NEW k \in Jobs \ {j},
               jobs[k].status = "running", jobs[k].lease > now,
               jobs[j].resource # NoResource
        PROVE  jobs[k].resource # jobs[j].resource
    <3>1. jobs[k].lease > at[w]
      BY <2>1 DEF LocksSound, Row
    <3>2. ResourceFree(jobs, j, at[w])
      BY <2>1 DEF Claims, ResourceInv
    <3> QED
      BY <2>1, <3>1, <3>2 DEF ResourceFree
  <2>2. ASSUME NEW j \in Jobs
        PROVE  /\ jobs'[j].resource = jobs[j].resource
               /\ jobs'[j].status = "running" => jobs'[j] = jobs[j] \/ Claims(w, j)
    <3>1. jobs[j] \in Row
      OBVIOUS
    <3>2. CASE jobs'[j] = ExpiredRow(jobs[j])
      BY <3>1, <3>2 DEF ExpiredRow, Row
    <3>3. CASE jobs'[j] = ClaimedRow(jobs[j], at[w], issued[j] + 1) /\ Claims(w, j)
      BY <3>1, <3>3 DEF ClaimedRow, Row
    <3> QED
      BY <1>4, <3>2, <3>3, EffectRow
  <2>3. \A j, k \in Jobs : Claims(w, j) /\ Claims(w, k) => j = k
    BY DEF Claims
  <2>4. now' = now /\ EndStatement(w)
    BY <1>4 DEF ClaimEffect
  <2>5. ResourceExclusive'
    <3> SUFFICES ASSUME NEW j \in Jobs, NEW k \in Jobs, j # k,
                        jobs'[j].status = "running", jobs'[j].lease > now,
                        jobs'[k].status = "running", jobs'[k].lease > now,
                        jobs[j].resource # NoResource,
                        jobs[j].resource = jobs[k].resource
                 PROVE  FALSE
      BY <2>2, <2>4 DEF ResourceExclusive
    <3>1. CASE Claims(w, j)
      BY <2>1, <2>2, <2>3, <3>1
    <3>2. CASE Claims(w, k)
      BY <2>1, <2>2, <2>3, <3>2
    <3>3. CASE ~Claims(w, j) /\ ~Claims(w, k)
      <4>1. jobs'[j] = jobs[j] /\ jobs'[k] = jobs[k]
        BY <2>2, <3>3
      <4>2. ResourceExclusive
        BY DEF ResourceInv
      <4> QED
        BY <4>1, <4>2 DEF ResourceExclusive
    <3> QED
      BY <3>1, <3>2, <3>3
  <2>6. \A v \in Workers : pc'[v] = "idle" /\ ~granted'[v]
    <3>1. ASSUME NEW v \in Workers \ {w} PROVE pc[v] = "idle" /\ ~granted[v]
      BY <1>0, <1>4 DEF ClaimEffect, OneStatement
    <3> QED
      BY <2>4, <3>1 DEF EndStatement
  <2> QED
    BY <2>5, <2>6 DEF ResourceInv
<1>5. ASSUME NEW w \in Workers, ClaimCommit(w) \/ ClaimCommitLost(w) PROVE ResourceInv'
  BY <1>4, <1>5 DEF ClaimCommit, ClaimCommitLost
<1>6. ASSUME NEW w \in Workers, ClaimAbort(w) PROVE ResourceInv'
  <2>1. /\ UNCHANGED <<now, jobs>>
        /\ pc'[w] = "idle" /\ ~granted'[w]
        /\ \A v \in Workers \ {w} :
              UNCHANGED <<pc[v], at[v], view[v], candidate[v], granted[v]>>
    BY <1>6 DEF ClaimAbort, EndStatement
  <2> QED
    BY <2>1, OtherStatements
<1>7. ASSUME NEW w \in Workers, NEW l \in 0..MaxResultLogs, NEW a \in BOOLEAN,
             MarkSucceeded(w, l, a)
      PROVE  ResourceInv'
  <2> DEFINE j == held[w].job
  <2>1. j \in Jobs /\ jobs[j] \in Row /\ jobs' = [jobs EXCEPT ![j] = SucceededRow(jobs[j])]
        /\ ~Locked(j)
    BY <1>7 DEF MarkSucceeded, Claim
  <2>2. /\ SucceededRow(jobs[j]).status \notin {"running", "absent"}
        /\ SucceededRow(jobs[j]).resource = jobs[j].resource
    BY <2>1 DEF SucceededRow, Row
  <2>3. UNCHANGED <<now, pc, at, view, candidate, granted>>
    BY <1>7 DEF MarkSucceeded, claimVars
  <2> HIDE DEF j
  <2> QED
    BY <2>1, <2>2, <2>3, QuietStep
<1>8. ASSUME NEW w \in Workers, NEW p \in BOOLEAN, NEW b \in Backoffs, NEW a \in BOOLEAN,
             MarkFailed(w, p, b, a)
      PROVE  ResourceInv'
  <2> DEFINE c == held[w]
             j == c.job
             new == FailedRow(jobs[j], c, p, b)
  <2>1. j \in Jobs /\ jobs[j] \in Row /\ jobs' = [jobs EXCEPT ![j] = new] /\ ~Locked(j)
    BY <1>8 DEF MarkFailed, Claim
  <2>2. new.status \notin {"running", "absent"} /\ new.resource = jobs[j].resource
    BY <2>1 DEF FailedRow, Row
  <2>3. UNCHANGED <<now, pc, at, view, candidate, granted>>
    BY <1>8 DEF MarkFailed, claimVars
  <2> HIDE DEF c, j, new
  <2> QED
    BY <2>1, <2>2, <2>3, QuietStep
<1>9. ASSUME NEW w \in Workers, FinalizeRejected(w) \/ Abandon(w) PROVE ResourceInv'
  <2>1. UNCHANGED <<now, jobs, pc, at, view, candidate, granted>>
    BY <1>9 DEF FinalizeRejected, Abandon, claimVars
  <2> QED
    BY <2>1, QuietStep
<1>10. ASSUME NEW j \in Jobs, Retry(j) \/ Cancel(j) PROVE ResourceInv'
  <2>1. /\ UNCHANGED <<now, pc, at, view, candidate, granted>>
        /\ ~Locked(j)
        /\ \/ jobs' = [jobs EXCEPT ![j] = RetriedRow(jobs[j])]
           \/ jobs' = [jobs EXCEPT ![j] = CancelledRow(jobs[j])]
    BY <1>10, Zenon DEF Retry, Cancel, claimVars
  <2>2. /\ RetriedRow(jobs[j]).status = "queued" /\ CancelledRow(jobs[j]).status = "cancelled"
        /\ RetriedRow(jobs[j]).resource = jobs[j].resource
        /\ CancelledRow(jobs[j]).resource = jobs[j].resource
    BY DEF RetriedRow, CancelledRow, Row
  <2>3. jobs'[j].status \notin {"running", "absent"} /\ jobs'[j].resource = jobs[j].resource
    BY <2>1, <2>2
  <2> QED
    BY <2>1, <2>3, QuietStep
<1>11. ASSUME NEW j \in Jobs, EnqueueStep(j) PROVE ResourceInv'
  <2>1. /\ UNCHANGED <<now, pc, at, view, candidate, granted>>
        /\ jobs[j].status = "absent"
        /\ jobs'[j].status = "queued"
        /\ \A k \in Jobs \ {j} : jobs'[k] = jobs[k]
    BY <1>11 DEF EnqueueStep, Enqueue, claimVars
  <2>2. ~Locked(j)
    <3>1. ASSUME NEW t \in Nat PROVE ~Exhausted(jobs[j], t) /\ ~Claimable(jobs[j], t)
      BY <2>1 DEF Exhausted, Claimable
    <3> QED
      BY <3>1 DEF Locked, Locks, LocksSound
  <2> QED
    BY <2>1, <2>2, QuietStep
<1>12. CASE Tick
  <2>1. UNCHANGED <<jobs, pc, at, view, candidate, granted>> /\ now' = now + 1
    BY <1>12 DEF Tick, claimVars
  <2> QED
    BY <2>1, QuietStep
<1>13. CASE UNCHANGED vars
  BY <1>13, QuietStep DEF vars, claimVars
<1> QED
  BY <1>1, <1>2, <1>3, <1>5, <1>6, <1>7, <1>8, <1>9, <1>10, <1>11, <1>12, <1>13
     DEF Next, WorkerStep, AdminStep

\* As long as PostgreSQL is never given a claim statement while another is under way,
\* two jobs on the same resource never run under live leases, however many loops,
\* stale clock readings, lost answers and late finalizations there are.
THEOREM ResourceExclusiveTheorem == Spec /\ []OneStatement => []ResourceExclusive
<1>1. OneStatement /\ StoreInv /\ StoreInv' /\ ResourceInv /\ [Next]_vars => ResourceInv'
  BY NextResourceInv
<1>2. ResourceInv => ResourceExclusive
  BY DEF ResourceInv
<1> QED
  BY <1>1, <1>2, InitResourceInv, StoreInvariant, PTL DEF Spec

=============================================================================
