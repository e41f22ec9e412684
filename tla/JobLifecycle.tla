---------------------------- MODULE JobLifecycle ----------------------------
(***************************************************************************)
(* What the job queue promises its users about every single job, whatever  *)
(* workers, leases, claim tokens, snapshots and locks are behind it: the   *)
(* stages internal/jobs/jobs.go names, the attempts a job has, and the     *)
(* records (claims, error lines, audit events) each move of it leaves.     *)
(* JobStore implements it.                                                 *)
(***************************************************************************)
EXTENDS Integers

CONSTANTS
    Jobs,            \* identifiers of jobs
    MaxJobAttempts,  \* the greatest number of attempts a job may ask for
    MaxResultLogs    \* the greatest number of log entries a result may have

VARIABLE
    job              \* per job, its stage, attempts and records

\* A failed job is "failed" while it may be retried and "dead" otherwise.
Stages == {"absent", "queued", "running", "succeeded", "failed", "dead", "cancelled"}

Job == [stage : Stages, attempts : Nat, max : Nat,
        claims : Nat, errors : Nat, audits : Nat]

Init ==
    job = [j \in Jobs |-> [stage |-> "absent", attempts |-> 0, max |-> 1,
                           claims |-> 0, errors |-> 0, audits |-> 0]]

-----------------------------------------------------------------------------
(* The moves of a job from what it is (x) to what it becomes (y) *)

\* What a move records, and the attempts it leaves spent.
Records(x, y, claims, errors, audits) ==
    /\ y.max = x.max
    /\ y.claims = x.claims + claims
    /\ y.errors = x.errors + errors
    /\ y.audits = x.audits + audits

Submit(x, y) ==
    /\ x.stage = "absent"
    /\ y.stage = "queued"
    /\ y.attempts = 0
    /\ y.max \in 1..MaxJobAttempts
    /\ y.claims = x.claims /\ y.errors = x.errors /\ y.audits = x.audits

\* A job that runs is attempted again when its worker was given up.
Attempt(x, y) ==
    /\ x.stage \in {"queued", "running"}
    /\ x.attempts < x.max
    /\ y.stage = "running"
    /\ y.attempts = x.attempts + 1
    /\ Records(x, y, 1, 0, 0)

\* A result has log entries of its own, which may be error lines.
Succeed(x, y) ==
    /\ x.stage = "running"
    /\ y.stage = "succeeded"
    /\ y.attempts = x.attempts
    /\ \E errors \in 0..MaxResultLogs : Records(x, y, 0, errors, 0)

\* A failure is logged.  It is final when it is permanent or no attempt is left.
Fail(x, y) ==
    /\ x.stage = "running"
    /\ y.stage \in {"dead"} \cup
           (IF x.attempts < x.max THEN {"queued"} ELSE {"failed"})
    /\ y.attempts = x.attempts
    /\ Records(x, y, 0, 1, 0)

Retry(x, y) ==
    /\ x.stage = "failed"
    /\ y.stage = "queued"
    /\ y.attempts = 0
    /\ Records(x, y, 0, 0, 1)

Cancel(x, y) ==
    /\ x.stage = "queued"
    /\ y.stage = "cancelled"
    /\ y.attempts = x.attempts
    /\ Records(x, y, 0, 0, 1)

Move(x, y) ==
    \/ Submit(x, y)
    \/ Attempt(x, y)
    \/ Succeed(x, y)
    \/ Fail(x, y)
    \/ Retry(x, y)
    \/ Cancel(x, y)

\* One transaction may move several jobs, each at most once.
Next == \A j \in Jobs : job'[j] = job[j] \/ Move(job[j], job'[j])

Spec == Init /\ [][Next]_job

=============================================================================
