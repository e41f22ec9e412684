----------------------------- MODULE JobWorker ------------------------------
(***************************************************************************)
(* The worker loops of internal/jobs/worker.go, run by the panel processes *)
(* of cmd/motekar-panel/main.go against the job store, with the agent that *)
(* performs the actions.  Every step that touches the queue is a step of   *)
(* JobStore, taken when the worker's control flow allows it.               *)
(*                                                                         *)
(* A worker of JobStore is a session of PostgreSQL with the loop that runs *)
(* on it.  A process may crash at any point, lose the answer of a commit   *)
(* or find the database unreachable; MaxFaults bounds how often.  What its *)
(* session was doing then goes on at the server, and may commit beside     *)
(* what the loop, or the process started after it, does on another         *)
(* session.  The agent, too, may perform an action whose caller has        *)
(* stopped waiting for it.                                                 *)
(***************************************************************************)
EXTENDS JobStore

CONSTANTS
    Panels,        \* panel processes that may run at once
    ExecTimeout,   \* Worker.executionTimeout
    BackoffCap,    \* the five-minute cap of exponentialBackoff
    MaxStall,      \* bound: time between reading the clock and the claim's answer
    MaxFaults      \* bound: crashes, lost answers, failed statements and stops

ASSUME WorkerAssumptions ==
    /\ Panels \in Nat
    /\ ExecTimeout \in Nat
    /\ BackoffCap \in Nat
    /\ MaxStall \in Nat
    /\ MaxFaults \in Nat

\* The defaults leave five minutes between the timeout and the lease.
ASSUME LeaseOutlivesExecution == MaxStall + ExecTimeout < LeaseDuration

VARIABLES
    phase,     \* per worker: polling, executing, finalizing, left or stopped
    started,   \* per worker, when Execute was called
    outcome,   \* per worker, what the executor returned, kept by a session left
    tries,     \* per worker, finalization calls made
    stopping,  \* per worker's process: no, claims or actions cancelled; no when over
    applied,   \* per worker, whether the agent has performed the current call
    effects,   \* per job, times the agent performed its action
    orphans,   \* per job, requests at the agent that nobody waits for
    resent,    \* per job, requests net/http sent again under a call
    lost,      \* per job, tokens of claims left leased with an unknown outcome
    faults     \* faults so far

loopVars == <<phase, started, outcome, tries, stopping, applied>>
agentVars == <<effects, orphans, resent, lost>>
wvars == <<vars, loopVars, agentVars, faults>>

\* What Execute returns: a result that is accepted and stored, one that
\* normalizeResult accepts but the size check of the result column refuses, one
\* that normalizeResult turns into a permanent error, or an error: permanent,
\* retryable, or uncertain since the request was written.
Results == {"done", "unstorable", "invalid"}
Errors == {"permanent", "retryable", "uncertain"}
Outcomes == {"none"} \cup Results \cup Errors

WInit ==
    /\ Init
    /\ phase = [w \in Workers |-> "stopped"]
    /\ started = [w \in Workers |-> 0]
    /\ outcome = [w \in Workers |-> "none"]
    /\ tries = [w \in Workers |-> 0]
    /\ stopping = [w \in Workers |-> "no"]
    /\ applied = [w \in Workers |-> FALSE]
    /\ effects = [j \in Jobs |-> 0]
    /\ orphans = [j \in Jobs |-> 0]
    /\ resent = [j \in Jobs |-> 0]
    /\ lost = [j \in Jobs |-> {}]
    /\ faults = 0

Fault == faults < MaxFaults /\ faults' = faults + 1

\* The sessions a loop runs on.
Running == {w \in Workers : phase[w] \in {"polling", "executing", "finalizing"}}

\* The loop neither executes nor finalizes on the session any longer.
AtRest(w) ==
    /\ started' = [started EXCEPT ![w] = 0]
    /\ tries' = [tries EXCEPT ![w] = 0]
    /\ applied' = [applied EXCEPT ![w] = FALSE]

\* The worker returns to the top of its loop, or the session is over.
Reset(w, next) ==
    /\ phase' = [phase EXCEPT ![w] = next]
    /\ outcome' = [outcome EXCEPT ![w] = "none"]
    /\ stopping' = IF next = "stopped" THEN [stopping EXCEPT ![w] = "no"] ELSE stopping
    /\ AtRest(w)

\* The client is gone while its claim statement, or its finalization, may go on.
LeaveBehind(w) ==
    /\ pc[w] # "idle" \/ phase[w] = "finalizing"
    /\ phase' = [phase EXCEPT ![w] = "left"]
    /\ stopping' = [stopping EXCEPT ![w] = "no"]
    /\ AtRest(w)
    /\ UNCHANGED <<vars, outcome>>

\* The pool gives up the connection in the same way, and the loop goes on with another.
MoveOn(w) ==
    /\ pc[w] # "idle" \/ phase[w] = "finalizing"
    /\ \E v \in Workers :
          /\ phase[v] = "stopped"
          /\ phase' = [phase EXCEPT ![w] = "left", ![v] = "polling"]
          /\ stopping' = [stopping EXCEPT ![v] = stopping[w], ![w] = "no"]
    /\ AtRest(w)
    /\ UNCHANGED <<vars, outcome>>

-----------------------------------------------------------------------------
(* RunWithExecutionContext and the claim at the top of runOnce *)

\* Mutant: the cancelled claim context is not looked at.
PollStopped(w) ==
    /\ phase[w] = "polling"
    /\ ClaimCall(w)
    /\ UNCHANGED <<loopVars, agentVars, faults>>

Poll(w) ==
    /\ phase[w] = "polling"
    /\ stopping[w] = "no"
    /\ ClaimCall(w)
    /\ UNCHANGED <<loopVars, agentVars, faults>>

ClaimRuns(w) ==
    /\ phase[w] = "polling"
    /\ ClaimSnapshot(w) \/ ClaimLock(w)
    /\ UNCHANGED <<loopVars, agentVars, faults>>

\* A row came back: Execute is called under a fresh timeout, even when claims
\* were cancelled meanwhile.
ClaimReturns(w) ==
    /\ phase[w] = "polling"
    /\ ClaimCommit(w)
    /\ IF granted[w]
       THEN /\ phase' = [phase EXCEPT ![w] = "executing"]
            /\ started' = [started EXCEPT ![w] = now]
            /\ UNCHANGED <<outcome, tries, stopping, applied>>
       ELSE UNCHANGED loopVars
    /\ UNCHANGED <<agentVars, faults>>

\* A failed statement is a fault of the database or the connection, unless the
\* claim context was cancelled under it.  It is over, or runs on without its client.
ClaimFails(w) ==
    /\ phase[w] = "polling"
    /\ IF stopping[w] = "no" THEN Fault ELSE UNCHANGED faults
    /\ \/ (ClaimCommitLost(w) \/ ClaimAbort(w)) /\ UNCHANGED loopVars
       \/ MoveOn(w)
    /\ UNCHANGED agentVars

\* A cancelled claim context ends the loop, also under a statement that runs on.
LoopExits(w) ==
    /\ phase[w] = "polling"
    /\ stopping[w] # "no"
    /\ \/ pc[w] = "idle" /\ Reset(w, "stopped") /\ UNCHANGED vars
       \/ LeaveBehind(w)
    /\ UNCHANGED <<agentVars, faults>>

-----------------------------------------------------------------------------
(* Execute, and what runOnce makes of its answer *)

AgentPerforms(w) ==
    /\ phase[w] = "executing"
    /\ ~applied[w]
    /\ applied' = [applied EXCEPT ![w] = TRUE]
    /\ effects' = [effects EXCEPT ![held[w].job] = @ + 1]
    /\ UNCHANGED <<vars, phase, started, outcome, tries, stopping, orphans, resent, lost,
                   faults>>

OrphanPerforms(j) ==
    /\ orphans[j] > 0
    /\ orphans' = [orphans EXCEPT ![j] = @ - 1]
    /\ effects' = [effects EXCEPT ![j] = @ + 1]
    /\ UNCHANGED <<vars, loopVars, resent, lost, faults>>

\* The agent dies under the call.  The key in its Idempotency-Key header makes the
\* request one that net/http sends again, on a new connection, if its connection
\* had served an earlier call (which is left open): the agent may perform it again.
Resend(w) ==
    /\ phase[w] = "executing"
    /\ applied[w]
    /\ Fault
    /\ applied' = [applied EXCEPT ![w] = FALSE]
    /\ resent' = [resent EXCEPT ![held[w].job] = @ + 1]
    /\ UNCHANGED <<vars, phase, started, outcome, tries, stopping, effects, orphans, lost>>

\* Mutant: the execution timeout does not stay below the lease.
LateDeadline(w) == started[w] + ExecTimeout + LeaseDuration

Deadline(w) == started[w] + ExecTimeout

\* executionContext.Err() or actionContext.Err()
ContextDone(w) == stopping[w] = "actions" \/ now >= Deadline(w)

Unknown(w, o) == o \in Errors /\ (ContextDone(w) \/ o = "uncertain")

\* The request of an abandoned call may still be on its way to the action.
Orphaned(w) ==
    orphans' \in {orphans, IF applied[w] THEN orphans
                           ELSE [orphans EXCEPT ![held[w].job] = @ + 1]}

\* The outcome is settled as far as the worker can tell: it finalizes.
ExecuteReturns(w, o) ==
    /\ phase[w] = "executing"
    /\ ~Unknown(w, o)
    /\ o \in Results => applied[w]
    /\ phase' = [phase EXCEPT ![w] = "finalizing"]
    /\ outcome' = [outcome EXCEPT ![w] = o]
    /\ UNCHANGED <<vars, started, tries, stopping, applied, agentVars, faults>>

\* Mutants: the action is sent again under the same claim; the job is given back
\* to the queue.
SendAgain(w, o) ==
    /\ phase[w] = "executing"
    /\ Unknown(w, o)
    /\ Orphaned(w)
    /\ applied' = [applied EXCEPT ![w] = FALSE]
    /\ UNCHANGED <<vars, phase, started, outcome, tries, stopping, effects, resent, lost,
                   faults>>

GiveBack(w, o) ==
    /\ phase[w] = "executing"
    /\ Unknown(w, o)
    /\ MarkFailed(w, FALSE, 1, TRUE)
    /\ Orphaned(w)
    /\ lost' = [lost EXCEPT ![held[w].job] = @ \cup {held[w].token}]
    /\ Reset(w, "polling")
    /\ UNCHANGED <<effects, resent, faults>>

\* The action may have been performed: the claim is left leased.
LeaveLeased(w, o) ==
    /\ phase[w] = "executing"
    /\ Unknown(w, o)
    /\ Abandon(w)
    /\ Orphaned(w)
    /\ lost' = [lost EXCEPT ![held[w].job] = @ \cup {held[w].token}]
    /\ Reset(w, "polling")
    /\ UNCHANGED <<effects, resent, faults>>

-----------------------------------------------------------------------------
(* retryFinalization *)

\* Doubling from one time unit up to the cap; a claim has at least one attempt.
ExponentialBackoff(attempt) ==
    IF 2^(attempt - 1) > BackoffCap THEN BackoffCap ELSE 2^(attempt - 1)

\* The backoffs the worker asks for are among those tried of the store.
ASSUME BackoffsCovered ==
    \A n \in 1..MaxJobAttempts : ExponentialBackoff(n) \in Backoffs

Finalize(w, acked) ==
    \/ outcome[w] = "done"
       /\ \E errors \in 0..MaxResultLogs : MarkSucceeded(w, errors, acked)
    \/ outcome[w] \in {"invalid", "permanent", "retryable"}
       /\ MarkFailed(w, outcome[w] # "retryable",
                     ExponentialBackoff(held[w].attempts), acked)

FinalizeAcked(w) ==
    /\ phase[w] = "finalizing"
    /\ tries[w] < 3
    /\ Finalize(w, TRUE)
    /\ Reset(w, "polling")
    /\ UNCHANGED <<agentVars, faults>>

\* ErrInvalidTransition ends the retries; an oversized result is refused by the
\* server only when the row would have been updated.
FinalizeInvalid(w) ==
    /\ phase[w] = "finalizing"
    /\ tries[w] < 3
    /\ FinalizeRejected(w)
    /\ Reset(w, "polling")
    /\ UNCHANGED <<agentVars, faults>>

\* The transaction committed but its answer is lost, or it was rolled back.
FinalizeUnanswered(w) ==
    /\ phase[w] = "finalizing"
    /\ tries[w] < 3
    /\ \/ Finalize(w, FALSE) /\ Fault
       \/ UNCHANGED vars /\ Fault
       \/ outcome[w] = "unstorable" /\ Current(held[w]) /\ UNCHANGED <<vars, faults>>
    /\ tries' = [tries EXCEPT ![w] = @ + 1]
    /\ UNCHANGED <<phase, started, outcome, stopping, applied, agentVars>>

\* After three tries, or earlier when finalizeTimeout cuts the wait short: nothing
\* was recorded, or it still may be.
GiveUp(w) ==
    /\ phase[w] = "finalizing"
    /\ tries[w] \in 1..3
    /\ \/ Abandon(w) /\ Reset(w, "polling")
       \/ MoveOn(w)
    /\ UNCHANGED <<agentVars, faults>>

-----------------------------------------------------------------------------
(* The process: shutdown, crash, restart *)

\* A signal, or an error of the HTTP server, cancels the claim context; when the
\* shutdown grace is over the action context is cancelled too.
StopClaims(w) ==
    /\ w \in Running
    /\ stopping[w] = "no"
    /\ Fault
    /\ stopping' = [stopping EXCEPT ![w] = "claims"]
    /\ UNCHANGED <<vars, phase, started, outcome, tries, applied, agentVars>>

StopActions(w) ==
    /\ w \in Running
    /\ stopping[w] = "claims"
    /\ stopping' = [stopping EXCEPT ![w] = "actions"]
    /\ UNCHANGED <<vars, phase, started, outcome, tries, applied, agentVars, faults>>

\* The process dies; one whose worker outlasts the forced stop exits anyway.
Crash(w) ==
    /\ w \in Running
    /\ IF stopping[w] = "actions" THEN UNCHANGED faults ELSE Fault
    /\ \/ phase[w] = "polling" /\ pc[w] = "idle"
          /\ Reset(w, "stopped")
          /\ UNCHANGED <<vars, agentVars>>
       \/ phase[w] = "executing" /\ Abandon(w) /\ Orphaned(w)
          /\ Reset(w, "stopped")
          /\ UNCHANGED <<effects, resent, lost>>
       \/ LeaveBehind(w) /\ UNCHANGED agentVars

\* A panel is started, for the first time or again, and polls on a new session.
Restart(w) ==
    /\ phase[w] = "stopped"
    /\ Cardinality(Running) < Panels
    /\ phase' = [phase EXCEPT ![w] = "polling"]
    /\ UNCHANGED <<vars, started, outcome, tries, stopping, applied, agentVars, faults>>

-----------------------------------------------------------------------------
(* The server: what goes on without its client *)

\* A claim statement runs to its commit, whose row nobody reads, or is rolled back.
ServerClaims(w) ==
    /\ phase[w] = "left"
    /\ \/ (ClaimSnapshot(w) \/ ClaimLock(w)) /\ UNCHANGED loopVars
       \/ /\ ClaimCommitLost(w) \/ ClaimAbort(w)
          /\ Reset(w, "stopped")
    /\ UNCHANGED <<agentVars, faults>>

\* A finalization commits after all, finds its claim gone, or is rolled back.
ServerFinalizes(w) ==
    /\ phase[w] = "left"
    /\ Finalize(w, TRUE) \/ FinalizeRejected(w) \/ Abandon(w)
    /\ Reset(w, "stopped")
    /\ UNCHANGED <<agentVars, faults>>

-----------------------------------------------------------------------------

Client(j) == (EnqueueStep(j) \/ AdminStep(j)) /\ UNCHANGED <<loopVars, agentVars, faults>>

\* Time passes while it can still change an answer: a lease or a run_after lies
\* ahead, or a statement or an execution is under way.  Deadlines are punctual.
TimerPending ==
    \/ \E j \in Jobs : \/ jobs[j].lease > now
                       \/ jobs[j].status = "queued" /\ jobs[j].runAfter > now
    \/ \E w \in Workers : phase[w] = "executing"

Punctual ==
    \A w \in Workers :
        /\ phase[w] = "polling" /\ pc[w] # "idle" => now < at[w] + MaxStall
        /\ phase[w] = "executing" => now < Deadline(w)

Clock ==
    /\ TimerPending
    /\ Punctual
    /\ Tick
    /\ UNCHANGED <<loopVars, agentVars, faults>>

\* What a worker does by itself, as opposed to what happens to it.
Loop(w) ==
    \/ Poll(w)
    \/ ClaimRuns(w)
    \/ ClaimReturns(w)
    \/ LoopExits(w)
    \/ AgentPerforms(w)
    \/ \E o \in Outcomes \ {"none"} : ExecuteReturns(w, o) \/ LeaveLeased(w, o)
    \/ FinalizeAcked(w)
    \/ FinalizeInvalid(w)
    \/ FinalizeUnanswered(w)
    \/ GiveUp(w)

Process(w) ==
    \/ ServerClaims(w)
    \/ ServerFinalizes(w)
    \/ ClaimFails(w)
    \/ Resend(w)
    \/ StopClaims(w)
    \/ StopActions(w)
    \/ Crash(w)
    \/ Restart(w)

WNext ==
    \/ \E w \in Workers : Loop(w) \/ Process(w)
    \/ \E j \in Jobs : Client(j) \/ OrphanPerforms(j)
    \/ Clock

WSpec == WInit /\ [][WNext]_wvars

\* The loop runs while its process lives, executions are cut off by their
\* timeout, PostgreSQL ends what it was given, a stopped panel is started again and
\* time passes.
Fairness ==
    /\ \A w \in Workers : /\ WF_wvars(Loop(w))
                          /\ WF_wvars(ServerClaims(w) \/ ServerFinalizes(w))
    /\ WF_wvars(\E w \in Workers : Restart(w))
    /\ WF_wvars(Clock)

FairSpec == WSpec /\ Fairness

-----------------------------------------------------------------------------
(* Properties *)

\* Every variable keeps its type; a worker holds a claim while it executes or
\* finalizes, and leaves it to nobody but its own session.
WorkerTypeOK ==
    /\ phase \in [Workers -> {"polling", "executing", "finalizing", "left", "stopped"}]
    /\ started \in [Workers -> Nat]
    /\ outcome \in [Workers -> Outcomes]
    /\ tries \in [Workers -> 0..3]
    /\ stopping \in [Workers -> {"no", "claims", "actions"}]
    /\ applied \in [Workers -> BOOLEAN]
    /\ effects \in [Jobs -> Nat]
    /\ orphans \in [Jobs -> Nat]
    /\ resent \in [Jobs -> Nat]
    /\ lost \in [Jobs -> SUBSET Nat]
    /\ faults \in 0..MaxFaults
    /\ \A w \in Workers :
          /\ phase[w] \in {"executing", "finalizing"} => held[w] # NoClaim
          /\ phase[w] \in {"polling", "stopped"} => held[w] = NoClaim

\* A job recorded as succeeded was performed by the agent, and no claim makes the
\* agent perform an action more than once, requests sent again by net/http apart:
\* the worker itself never repeats a call.
SuccessWasPerformed ==
    \A j \in Jobs : /\ jobs[j].status = "succeeded" => effects[j] >= 1
                    /\ effects[j] + orphans[j] <= issued[j] + resent[j]

\* Across crashes, reclaims and administrative retries the agent performs a job at most
\* as often as its attempts allow, requests sent again by net/http apart: with a single
\* attempt, and neither an audit event nor such a request, a success was performed once
\* and no request is left at the agent.
PerformedWithinBudget ==
    \A j \in Jobs :
        /\ effects[j] + orphans[j] <= jobs[j].max * (1 + audits[j]) + resent[j]
        /\ /\ jobs[j].status = "succeeded"
           /\ jobs[j].max = 1 /\ audits[j] = 0 /\ resent[j] = 0
           => effects[j] = 1 /\ orphans[j] = 0

\* The same job is never executed by two workers at a time: the execution of a
\* claim is cut off before its lease can run out.
NoOverlap ==
    \A v, w \in Workers :
        /\ v # w
        /\ phase[v] = "executing"
        /\ phase[w] = "executing"
        => held[v].job # held[w].job

\* An outcome the worker does not know is never turned into a recorded one: the
\* claim can only run out.
UnknownStaysLeasedStep ==
    \A j \in Jobs :
        /\ jobs[j].status = "running"
        /\ jobs[j].token \in lost'[j]
        /\ jobs'[j] # jobs[j]
        => jobs[j].lease <= now

UnknownStaysLeased == [][UnknownStaysLeasedStep]_wvars

\* A row stops running by the expiry of its last lease, or because the worker that holds
\* its claim records what its executor returned: a success as a success, a permanent
\* failure as one that cannot be retried, and any other as one that can.
RecordedAsReturnedStep ==
    \A j \in Jobs :
        jobs[j].status = "running" /\ jobs'[j].status # "running" =>
            \/ jobs[j].lease <= now /\ jobs'[j] = ExpiredRow(jobs[j])
            \/ \E w \in Workers :
                  /\ phase[w] \in {"finalizing", "left"} /\ held[w] # NoClaim
                  /\ held[w].job = j /\ held[w].token = jobs[j].token
                  /\ jobs'[j].status = "succeeded" <=> outcome[w] = "done"
                  /\ jobs'[j].retryable <=> outcome[w] = "retryable"

RecordedAsReturned == [][RecordedAsReturnedStep]_wvars

\* A claim left leased with an unknown outcome, and attempts to spare, can only be
\* claimed again, once its lease is over, under a new token.
UncertainIsReclaimedStep ==
    \A j \in Jobs :
        /\ jobs[j].status = "running"
        /\ jobs[j].token \in lost[j]
        /\ jobs[j].attempts < jobs[j].max
        /\ jobs'[j] # jobs[j]
        => /\ jobs[j].lease <= now
           /\ jobs'[j].status = "running"
           /\ jobs'[j].attempts = jobs[j].attempts + 1
           /\ jobs'[j].token \notin lost'[j]

UncertainIsReclaimed == [][UncertainIsReclaimedStep]_wvars

\* Every job that is queued or running is settled eventually.
JobsSettle ==
    \A j \in Jobs :
        jobs[j].status \in {"queued", "running"}
            ~> jobs[j].status \in {"succeeded", "failed", "cancelled"}

\* A process told to stop does stop, whatever it was doing, and whatever it has to
\* leave behind at the server.
ShutdownEnds ==
    \A w \in Workers : stopping[w] # "no" ~> phase[w] \in {"left", "stopped"}

\* The worker leaves an uncertain claim leased "so recovery retries it with the
\* same idempotency key": such a claim is not followed by failure without a
\* further attempt.
UncertainIsRetriedStep ==
    \A j \in Jobs :
        /\ jobs[j].status = "running"
        /\ jobs[j].token \in lost[j]
        => jobs'[j].status # "failed"

UncertainIsRetried == [][UncertainIsRetriedStep]_wvars

=============================================================================
