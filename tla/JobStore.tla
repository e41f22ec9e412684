------------------------------ MODULE JobStore ------------------------------
(***************************************************************************)
(* The durable job queue: the rows of the jobs table and the statements    *)
(* internal/jobs/sqlstore.go runs on them, called through                  *)
(* internal/jobs/jobs.go.                                                  *)
(*                                                                         *)
(* A claim is one SQL statement but not one atomic step: PostgreSQL (READ  *)
(* COMMITTED) fixes the statement's snapshot first, then visits and locks  *)
(* rows, then commits.  The model keeps those points apart, so that other  *)
(* transactions commit between them.  The finalizing and administrative    *)
(* transactions touch one row under its row lock and are one step each.    *)
(*                                                                         *)
(* A job identifier also stands for the job's idempotency key: the unique  *)
(* index makes the key an identifier, and it never changes.  Payloads,     *)
(* results and the reporting timestamps are left out: no operation reads   *)
(* them.                                                                   *)
(***************************************************************************)
EXTENDS Integers, FiniteSets

CONSTANTS
    Jobs,              \* identifiers a row may be inserted under
    Workers,           \* sessions, each that of a worker loop or of a loop that is gone
    Resources,         \* non-empty resource keys
    NoResource,        \* the empty resource key
    NoJob,             \* "no row"
    NoClaim,           \* a worker that holds no claim
    LeaseDuration,     \* Queue.leaseDuration
    MaxJobAttempts,    \* maxJobAttempts
    ExpireLimit,       \* the LIMIT of expired_candidates
    AttemptInputs,     \* EnqueueInput.MaxAttempts values tried
    DelayInputs,       \* EnqueueInput.RunAfter - now values tried
    Backoffs,          \* FailureInput.Backoff values tried
    MaxResultLogs,     \* maxResultLogs, the log entries of one result
    MaxAudits,         \* bound: administrative mutations per job
    MaxNow             \* bound: the clock

ASSUME StoreAssumptions ==
    /\ LeaseDuration \in Nat /\ LeaseDuration >= 1
    /\ MaxJobAttempts \in Nat /\ MaxJobAttempts >= 1
    /\ ExpireLimit \in Nat /\ ExpireLimit >= 1
    /\ AttemptInputs \subseteq Int
    /\ DelayInputs \subseteq Int
    /\ Backoffs \subseteq Nat
    /\ MaxResultLogs \in Nat
    /\ MaxAudits \in Nat
    /\ MaxNow \in Nat
    /\ NoResource \notin Resources
    /\ NoJob \notin Jobs
    /\ NoClaim \notin [job : Jobs, token : Nat, attempts : Nat, max : Nat]

VARIABLES
    now,         \* the wall clock both Go and the SQL parameters use
    jobs,        \* the committed rows of the jobs table
    errorLogs,   \* per job, committed job_logs rows of level error
    audits,      \* per job, committed audit events (retried or cancelled)
    issued,      \* per job, claims ever committed; numbers the claim tokens
    pc,          \* per worker, how far its claim statement has come
    at,          \* per worker, the statement's $1, read before the call
    view,        \* per worker, the statement's snapshot of the table
    expiring,    \* per worker, rows locked by expired_candidates
    candidate,   \* per worker, the row locked by next_candidate
    granted,     \* per worker, whether next returned that row
    held         \* per worker, the claim ClaimOne returned to it

claimVars == <<pc, at, view, expiring, candidate, granted>>
vars == <<now, jobs, errorLogs, audits, issued, claimVars, held>>

-----------------------------------------------------------------------------
(* Rows *)

Statuses == {"absent", "queued", "running", "succeeded", "failed", "cancelled"}

\* Token 0 and lease 0 stand for NULL.
Row == [status : Statuses, resource : Resources \cup {NoResource},
        attempts : Nat, max : Nat, retryable : BOOLEAN, token : Nat,
        lease : Nat, runAfter : Int, created : Nat]

AbsentRow == [status |-> "absent", resource |-> NoResource, attempts |-> 0,
              max |-> 1, retryable |-> TRUE, token |-> 0, lease |-> 0,
              runAfter |-> 0, created |-> 0]

NoView == [j \in Jobs |-> AbsentRow]

Claim == [job : Jobs, token : Nat, attempts : Nat, max : Nat]

Init ==
    /\ now = 0
    /\ jobs = NoView
    /\ errorLogs = [j \in Jobs |-> 0]
    /\ audits = [j \in Jobs |-> 0]
    /\ issued = [j \in Jobs |-> 0]
    /\ pc = [w \in Workers |-> "idle"]
    /\ at = [w \in Workers |-> 0]
    /\ view = [w \in Workers |-> NoView]
    /\ expiring = [w \in Workers |-> {}]
    /\ candidate = [w \in Workers |-> NoJob]
    /\ granted = [w \in Workers |-> FALSE]
    /\ held = [w \in Workers |-> NoClaim]

-----------------------------------------------------------------------------
(* Enqueue *)

EffectiveMax(m) == IF m <= 0 THEN 1 ELSE m

Enqueue(j, r, m, delay) ==
    /\ jobs[j].status = "absent"
    /\ EffectiveMax(m) <= MaxJobAttempts
    /\ jobs' = [jobs EXCEPT ![j] =
                  [status |-> "queued", resource |-> r, attempts |-> 0,
                   max |-> EffectiveMax(m), retryable |-> TRUE, token |-> 0,
                   lease |-> 0, runAfter |-> now + delay, created |-> now]]
    /\ UNCHANGED <<now, errorLogs, audits, issued, claimVars, held>>

-----------------------------------------------------------------------------
(* ClaimOne *)

\* The two WHERE clauses over a single row.
\* Mutant: no lease is ever found expired on its last attempt.
NeverExhausted(row, t) == FALSE

Exhausted(row, t) ==
    row.status = "running" /\ row.lease <= t /\ row.attempts >= row.max

\* Mutants: the attempts are compared with <=; expired leases are not reclaimed.
ClaimableOnceMore(row, t) ==
    /\ row.attempts <= row.max
    /\ \/ row.status = "queued" /\ row.runAfter <= t
       \/ row.status = "running" /\ row.lease <= t

ClaimableWhenQueued(row, t) ==
    row.attempts < row.max /\ row.status = "queued" /\ row.runAfter <= t

Claimable(row, t) ==
    /\ row.attempts < row.max
    /\ \/ row.status = "queued" /\ row.runAfter <= t
       \/ row.status = "running" /\ row.lease <= t

\* Mutant: the subquery looks for the expired leases instead of the live ones.
ResourceFreeReversed(table, j, t) ==
    table[j].resource # NoResource =>
        ~ \E k \in Jobs \ {j} :
              /\ table[k].status = "running"
              /\ table[k].lease <= t
              /\ table[k].resource = table[j].resource

\* The NOT EXISTS subquery.
ResourceFree(table, j, t) ==
    table[j].resource # NoResource =>
        ~ \E k \in Jobs \ {j} :
              /\ table[k].status = "running"
              /\ table[k].lease > t
              /\ table[k].resource = table[j].resource

\* ORDER BY run_after, created_at; ties go either way.
NotAfter(row1, row2) ==
    \/ row1.runAfter < row2.runAfter
    \/ row1.runAfter = row2.runAfter /\ row1.created <= row2.created

Locks(w) == expiring[w] \cup ({candidate[w]} \ {NoJob})

\* Mutant: FOR UPDATE is dropped.
NeverLocked(j) == FALSE

Locked(j) == \E w \in Workers : j \in Locks(w)

\* Mutants: the newest version of a row is not checked again; SKIP LOCKED is
\* dropped.
EligibleInSnapshot(w) ==
    {j \in Jobs : /\ ~Locked(j)
                  /\ Claimable(view[w][j], at[w])
                  /\ ResourceFree(view[w], j, at[w])}

EligibleThoughLocked(w) ==
    {j \in Jobs : /\ Claimable(view[w][j], at[w])
                  /\ Claimable(jobs[j], at[w])
                  /\ ResourceFree(view[w], j, at[w])}

\* A row of the snapshot is returned if it is not locked and, when it was
\* updated since, its newest version still satisfies the row's own conditions;
\* the subquery is answered from the snapshot either way.
Eligible(w) ==
    {j \in Jobs : /\ ~Locked(j)
                  /\ Claimable(view[w][j], at[w])
                  /\ Claimable(jobs[j], at[w])
                  /\ ResourceFree(view[w], j, at[w])}

Expirable(w) ==
    {j \in Jobs : /\ ~Locked(j)
                  /\ Exhausted(view[w][j], at[w])
                  /\ Exhausted(jobs[j], at[w])}

\* The rows ORDER BY lease_expires_at LIMIT 100 may return.
ExpiryBatches(w) ==
    {S \in SUBSET Expirable(w) :
        /\ Cardinality(S) <= ExpireLimit
        /\ \A j \in Expirable(w) \ S :
              /\ Cardinality(S) = ExpireLimit
              /\ \A k \in S : view[w][k].lease <= view[w][j].lease}

\* pg_try_advisory_xact_lock on the candidate's resource key.
AdvisoryFree(j) ==
    jobs[j].resource # NoResource =>
        \A v \in Workers :
            granted[v] => jobs[candidate[v]].resource # jobs[j].resource

ExpiredRow(row) ==
    [row EXCEPT !.status = "failed", !.retryable = TRUE, !.token = 0, !.lease = 0]

\* Mutant: a reclaimed row keeps the token of the claim that expired.
ClaimedRowSameToken(row, t, token) ==
    [row EXCEPT !.status = "running", !.attempts = row.attempts + 1,
                !.token = IF row.token = 0 THEN token ELSE row.token,
                !.lease = t + LeaseDuration]

ClaimedRow(row, t, token) ==
    [row EXCEPT !.status = "running", !.attempts = row.attempts + 1,
                !.token = token, !.lease = t + LeaseDuration]

\* Queue.ClaimOne reads the clock and sends the statement.
ClaimCall(w) ==
    /\ pc[w] = "idle"
    /\ held[w] = NoClaim
    /\ pc' = [pc EXCEPT ![w] = "called"]
    /\ at' = [at EXCEPT ![w] = now]
    /\ UNCHANGED <<now, jobs, errorLogs, audits, issued, view, expiring,
                   candidate, granted, held>>

ClaimSnapshot(w) ==
    /\ pc[w] = "called"
    /\ pc' = [pc EXCEPT ![w] = "snapped"]
    /\ view' = [view EXCEPT ![w] = jobs]
    /\ UNCHANGED <<now, jobs, errorLogs, audits, issued, at, expiring,
                   candidate, granted, held>>

ClaimLock(w) ==
    /\ pc[w] = "snapped"
    /\ \E S \in ExpiryBatches(w) : expiring' = [expiring EXCEPT ![w] = S]
    /\ \/ /\ Eligible(w) = {}
          /\ UNCHANGED <<candidate, granted>>
       \/ \E j \in Eligible(w) :
             /\ \A k \in Eligible(w) : NotAfter(view[w][j], view[w][k])
             /\ candidate' = [candidate EXCEPT ![w] = j]
             /\ granted' = [granted EXCEPT ![w] = AdvisoryFree(j)]
    /\ pc' = [pc EXCEPT ![w] = "locked"]
    /\ view' = [view EXCEPT ![w] = NoView]
    /\ UNCHANGED <<now, jobs, errorLogs, audits, issued, at, held>>

EndStatement(w) ==
    /\ pc' = [pc EXCEPT ![w] = "idle"]
    /\ at' = [at EXCEPT ![w] = 0]
    /\ view' = [view EXCEPT ![w] = NoView]
    /\ expiring' = [expiring EXCEPT ![w] = {}]
    /\ candidate' = [candidate EXCEPT ![w] = NoJob]
    /\ granted' = [granted EXCEPT ![w] = FALSE]

Claims(w, j) == granted[w] /\ j = candidate[w]

ClaimEffect(w) ==
    /\ pc[w] = "locked"
    /\ jobs' = [j \in Jobs |->
                  IF j \in expiring[w] THEN ExpiredRow(jobs[j])
                  ELSE IF Claims(w, j)
                       THEN ClaimedRow(jobs[j], at[w], issued[j] + 1)
                       ELSE jobs[j]]
    /\ errorLogs' = [j \in Jobs |-> IF j \in expiring[w] THEN errorLogs[j] + 1
                                                         ELSE errorLogs[j]]
    /\ issued' = [j \in Jobs |-> IF Claims(w, j) THEN issued[j] + 1 ELSE issued[j]]
    /\ EndStatement(w)
    /\ UNCHANGED <<now, audits>>

\* The statement commits and its row, if any, reaches the worker.
ClaimCommit(w) ==
    /\ ClaimEffect(w)
    /\ held' = IF granted[w]
               THEN LET row == jobs'[candidate[w]]
                    IN  [held EXCEPT ![w] =
                           [job |-> candidate[w], token |-> row.token,
                            attempts |-> row.attempts, max |-> row.max]]
               ELSE held

\* It commits, but the connection or the process dies before the row arrives.
ClaimCommitLost(w) == ClaimEffect(w) /\ UNCHANGED held

\* The statement fails and is rolled back.
ClaimAbort(w) ==
    /\ pc[w] # "idle"
    /\ EndStatement(w)
    /\ UNCHANGED <<now, jobs, errorLogs, audits, issued, held>>

-----------------------------------------------------------------------------
(* Succeed and Fail, on the claim a worker holds *)

\* WHERE id = $1 AND status = 'running' AND claim_token = $2
Current(c) == jobs[c.job].status = "running" /\ jobs[c.job].token = c.token

SucceededRow(row) ==
    [row EXCEPT !.status = "succeeded", !.retryable = FALSE, !.token = 0, !.lease = 0]

\* Mutants: the backoff is subtracted; the last attempt is requeued.
FailedRowEarlier(row, c, permanent, backoff) ==
    LET final == permanent \/ c.attempts >= c.max
    IN  [row EXCEPT !.status = IF final THEN "failed" ELSE "queued",
                    !.runAfter = IF final THEN now ELSE now - backoff,
                    !.retryable = ~permanent, !.token = 0, !.lease = 0]

FailedRowOnceMore(row, c, permanent, backoff) ==
    LET final == permanent \/ c.attempts > c.max
    IN  [row EXCEPT !.status = IF final THEN "failed" ELSE "queued",
                    !.runAfter = IF final THEN now ELSE now + backoff,
                    !.retryable = ~permanent, !.token = 0, !.lease = 0]

FailedRow(row, c, permanent, backoff) ==
    LET final == permanent \/ c.attempts >= c.max
    IN  [row EXCEPT !.status = IF final THEN "failed" ELSE "queued",
                    !.runAfter = IF final THEN now ELSE now + backoff,
                    !.retryable = ~permanent, !.token = 0, !.lease = 0]

\* An answer that is lost leaves the claim with the worker, which asks again.
Answer(w, acked) == held' = IF acked THEN [held EXCEPT ![w] = NoClaim] ELSE held

\* The log entries of the result, some of level error, are inserted with it.
MarkSucceeded(w, errors, acked) ==
    /\ held[w] # NoClaim
    /\ Current(held[w])
    /\ ~Locked(held[w].job)
    /\ jobs' = [jobs EXCEPT ![held[w].job] = SucceededRow(@)]
    /\ errorLogs' = [errorLogs EXCEPT ![held[w].job] = @ + errors]
    /\ Answer(w, acked)
    /\ UNCHANGED <<now, audits, issued, claimVars>>

MarkFailed(w, permanent, backoff, acked) ==
    /\ held[w] # NoClaim
    /\ Current(held[w])
    /\ ~Locked(held[w].job)
    /\ jobs' = [jobs EXCEPT ![held[w].job] =
                  FailedRow(@, held[w], permanent, backoff)]
    /\ errorLogs' = [errorLogs EXCEPT ![held[w].job] = @ + 1]
    /\ Answer(w, acked)
    /\ UNCHANGED <<now, audits, issued, claimVars>>

\* No row is updated: ErrInvalidTransition, and the worker lets go.
FinalizeRejected(w) ==
    /\ held[w] # NoClaim
    /\ ~Current(held[w])
    /\ ~Locked(held[w].job)
    /\ held' = [held EXCEPT ![w] = NoClaim]
    /\ UNCHANGED <<now, jobs, errorLogs, audits, issued, claimVars>>

\* The worker leaves its claim leased: an uncertain outcome, a finalization
\* given up after its retries, or the death of the process.
Abandon(w) ==
    /\ held[w] # NoClaim
    /\ held' = [held EXCEPT ![w] = NoClaim]
    /\ UNCHANGED <<now, jobs, errorLogs, audits, issued, claimVars>>

-----------------------------------------------------------------------------
(* mutate: Retry and Cancel, with their audit event in the same transaction *)

RetriedRow(row) ==
    [row EXCEPT !.status = "queued", !.attempts = 0, !.retryable = TRUE,
                !.runAfter = now]

CancelledRow(row) == [row EXCEPT !.status = "cancelled", !.retryable = FALSE]

\* Mutant: permanently failed jobs are retried too.
RetryAnyFailed(j) ==
    /\ audits[j] < MaxAudits
    /\ ~Locked(j)
    /\ jobs[j].status = "failed"
    /\ jobs' = [jobs EXCEPT ![j] = RetriedRow(@)]
    /\ audits' = [audits EXCEPT ![j] = @ + 1]
    /\ UNCHANGED <<now, errorLogs, issued, claimVars, held>>

Retry(j) ==
    /\ audits[j] < MaxAudits
    /\ ~Locked(j)
    /\ jobs[j].status = "failed"
    /\ jobs[j].retryable
    /\ jobs' = [jobs EXCEPT ![j] = RetriedRow(@)]
    /\ audits' = [audits EXCEPT ![j] = @ + 1]
    /\ UNCHANGED <<now, errorLogs, issued, claimVars, held>>

Cancel(j) ==
    /\ audits[j] < MaxAudits
    /\ ~Locked(j)
    /\ jobs[j].status = "queued"
    /\ jobs' = [jobs EXCEPT ![j] = CancelledRow(@)]
    /\ audits' = [audits EXCEPT ![j] = @ + 1]
    /\ UNCHANGED <<now, errorLogs, issued, claimVars, held>>

-----------------------------------------------------------------------------
(* Time *)

Tick ==
    /\ now < MaxNow
    /\ now' = now + 1
    /\ UNCHANGED <<jobs, errorLogs, audits, issued, claimVars, held>>

-----------------------------------------------------------------------------

WorkerStep(w) ==
    \/ ClaimCall(w)
    \/ ClaimSnapshot(w)
    \/ ClaimLock(w)
    \/ ClaimCommit(w)
    \/ ClaimCommitLost(w)
    \/ ClaimAbort(w)
    \/ \E acked \in BOOLEAN :
          \/ \E errors \in 0..MaxResultLogs : MarkSucceeded(w, errors, acked)
          \/ \E permanent \in BOOLEAN, backoff \in Backoffs :
                MarkFailed(w, permanent, backoff, acked)
    \/ FinalizeRejected(w)
    \/ Abandon(w)

AdminStep(j) == Retry(j) \/ Cancel(j)

EnqueueStep(j) ==
    \E r \in Resources \cup {NoResource}, m \in AttemptInputs, d \in DelayInputs :
        Enqueue(j, r, m, d)

Next ==
    \/ \E w \in Workers : WorkerStep(w)
    \/ \E j \in Jobs : EnqueueStep(j) \/ AdminStep(j)
    \/ Tick

Spec == Init /\ [][Next]_vars

-----------------------------------------------------------------------------
(* Properties *)

\* Every variable keeps its type, and only an existing row is granted.
TypeOK ==
    /\ now \in Nat
    /\ jobs \in [Jobs -> Row]
    /\ errorLogs \in [Jobs -> Nat]
    /\ audits \in [Jobs -> Nat]
    /\ issued \in [Jobs -> Nat]
    /\ pc \in [Workers -> {"idle", "called", "snapped", "locked"}]
    /\ at \in [Workers -> Nat]
    /\ view \in [Workers -> [Jobs -> Row]]
    /\ expiring \in [Workers -> SUBSET Jobs]
    /\ candidate \in [Workers -> Jobs \cup {NoJob}]
    /\ granted \in [Workers -> BOOLEAN]
    /\ \A w \in Workers : granted[w] => candidate[w] \in Jobs
    /\ held \in [Workers -> Claim \cup {NoClaim}]

\* No committed row violates the table's CHECK constraints (a claim token and
\* a lease exactly while running, attempts within max_attempts), and no queued
\* row is stranded: ClaimOne ignores a queued row without attempts left and
\* nothing else would ever move it.
RowsSound ==
    \A j \in Jobs :
        LET row == jobs[j]
        IN  /\ row.max >= 1
            /\ row.attempts <= row.max
            /\ (row.status = "running") <=> (row.token # 0)
            /\ (row.status = "running") <=> (row.lease # 0)
            /\ row.status = "running" => row.attempts >= 1
            /\ row.status = "queued" => row.attempts < row.max /\ row.retryable

\* A job is handed out at most max_attempts times, and as often again for each
\* audited retry, whatever crashes, lost answers and stale workers intervene.
AttemptBudget ==
    \A j \in Jobs : issued[j] <= jobs[j].max * (1 + audits[j])

\* Administrative retries of a job: a cancellation is its last audit event.
Retries(j) == IF jobs[j].status = "cancelled" THEN audits[j] - 1 ELSE audits[j]

\* Every failure, those an administrator retried included, left an error line in
\* job_logs; a claim that failed left one, and the claim that succeeded those of its
\* result once, although a finalization whose answer is lost is asked for again and
\* races the expiry of its lease.
FailureLedger ==
    \A j \in Jobs :
        /\ Retries(j) + (IF jobs[j].status = "failed" THEN 1 ELSE 0) <= errorLogs[j]
        /\ errorLogs[j] <= IF jobs[j].status = "succeeded"
                           THEN issued[j] - 1 + MaxResultLogs ELSE issued[j]

\* Two workers never hold the same claim: a reclaimed job has a new token, so
\* the worker that lost its lease cannot finalize the new claim.
HolderUnique ==
    \A v, w \in Workers :
        /\ v # w
        /\ held[v] # NoClaim
        /\ held[w] # NoClaim
        => held[v].job # held[w].job \/ held[v].token # held[w].token

\* Two jobs on the same resource never run under live leases.
ResourceExclusive ==
    \A j, k \in Jobs :
        /\ j # k
        /\ jobs[j].status = "running" /\ jobs[j].lease > now
        /\ jobs[k].status = "running" /\ jobs[k].lease > now
        /\ jobs[j].resource # NoResource
        => jobs[j].resource # jobs[k].resource

\* While a lease is live no claim statement, however old its snapshot or its
\* clock reading, takes the job away or fails it, and the row only changes if the
\* claim was returned to a worker that still holds it.
LeaseHonouredStep ==
    \A j \in Jobs :
        /\ jobs[j].status = "running"
        /\ jobs[j].lease > now
        /\ jobs'[j] # jobs[j]
        => /\ pc' = pc
           /\ \E w \in Workers :
               /\ held[w] # NoClaim
               /\ held[w].job = j
               /\ held[w].token = jobs[j].token

LeaseHonoured == [][LeaseHonouredStep]_vars

\* What is settled stays settled: a succeeded, cancelled or permanently failed
\* job is never touched again, and a failed one only leaves through an audited
\* retry, never through a late worker.
Settled(row) ==
    \/ row.status \in {"succeeded", "cancelled"}
    \/ row.status = "failed" /\ ~row.retryable

SettledStep ==
    \A j \in Jobs :
        /\ Settled(jobs[j]) => jobs'[j] = jobs[j]
        /\ (jobs[j].status = "failed" /\ jobs'[j] # jobs[j])
           => (jobs'[j].status = "queued" /\ audits'[j] = audits[j] + 1)

SettledStays == [][SettledStep]_vars

-----------------------------------------------------------------------------
(* What the queue promises: JobStore implements JobLifecycle *)

Stage(row) ==
    IF row.status = "failed" /\ ~row.retryable THEN "dead" ELSE row.status

\* A row with its job's n claims, e error lines and a audit events.
LifeRecord(row, n, e, a) ==
    [stage |-> Stage(row), attempts |-> row.attempts, max |-> row.max,
     claims |-> n, errors |-> e, audits |-> a]

LifeOf(j) == LifeRecord(jobs[j], issued[j], errorLogs[j], audits[j])

Life == INSTANCE JobLifecycle WITH job <- [j \in Jobs |-> LifeOf(j)]

\* Whatever two workers and an administrator do at once, every transaction takes a
\* job along one move of its life cycle, with the claim, error line or audit event
\* that belongs to it: an answer that is lost or late never adds or loses one, and
\* what has succeeded, was cancelled or failed for good does not come back.
FollowsLifecycle == Life!Spec

-----------------------------------------------------------------------------
(* The inductive invariant behind the properties above *)

\* A row together with its job's n claims, e error lines and a audit events.
RowInv(row, n, e, a) ==
    /\ row.max >= 1
    /\ row.attempts <= row.max
    /\ row.status = "running" => row.lease # 0 /\ row.attempts >= 1
    /\ row.status = "running" => row.token = n
    /\ row.status # "running" => row.token = 0 /\ row.lease = 0
    /\ row.status = "queued" => row.attempts < row.max /\ row.retryable
    /\ row.status = "absent" => n = 0
    /\ n <= row.max * a + row.attempts
    /\ e + (IF row.status \in {"running", "succeeded"} THEN 1 ELSE 0)
         <= n + (IF row.status = "succeeded" THEN MaxResultLogs ELSE 0)
    /\ a + (IF row.status = "failed" THEN 1 ELSE 0)
         <= e + (IF row.status = "cancelled" THEN 1 ELSE 0)

\* A locked row satisfies the condition it was locked under until the statement
\* ends, and no row is locked twice.
LocksSound ==
    \A w \in Workers :
        /\ at[w] <= now
        /\ pc[w] # "locked" => expiring[w] = {} /\ candidate[w] = NoJob
        /\ \A j \in expiring[w] : Exhausted(jobs[j], at[w])
        /\ candidate[w] # NoJob => Claimable(jobs[candidate[w]], at[w])
        /\ \A v \in Workers, j \in Jobs : j \in Locks(v) /\ j \in Locks(w) => v = w

\* A held claim is one that was issued, and its copy of the row is accurate as
\* long as it is current.
ClaimsSound ==
    \A w \in Workers : held[w] # NoClaim =>
        LET c == held[w] IN
        /\ c.token >= 1
        /\ c.token <= issued[c.job]
        /\ c.max = jobs[c.job].max
        /\ Current(c) => c.attempts = jobs[c.job].attempts

\* Everything a step needs of the state before it.
StoreInv ==
    /\ TypeOK
    /\ \A j \in Jobs : RowInv(jobs[j], issued[j], errorLogs[j], audits[j])
    /\ LocksSound
    /\ ClaimsSound
    /\ HolderUnique

=============================================================================
