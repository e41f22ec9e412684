--------------------------- MODULE JobWorkerProofs ---------------------------
(***************************************************************************)
(* Proofs about JobWorker, for any number of panel processes, jobs, faults *)
(* and attempts: the worker loops implement the job store, no job is       *)
(* executed twice at a time, what is recorded as a success was performed   *)
(* and what is not known is not recorded.                                  *)
(***************************************************************************)
EXTENDS JobWorker, JobStoreProofs

-----------------------------------------------------------------------------
(* The inductive invariant behind the safety properties above *)

\* A claim is worth at most the attempts of its job.
ClaimsBounded ==
    /\ \A j \in Jobs : jobs[j].max <= MaxJobAttempts
    /\ \A w \in Workers : held[w] # NoClaim => held[w].attempts \in 1..MaxJobAttempts

\* A claim statement is one of a session without a claim, and as long as its client
\* waits for it its clock reading is not older than a stall.
StatementsPunctual ==
    \A w \in Workers :
        pc[w] # "idle" => /\ held[w] = NoClaim
                          /\ phase[w] \in {"polling", "left"}
                          /\ phase[w] = "polling" => now <= at[w] + MaxStall

\* An execution is within its timeout, and its claim is current and leased beyond it.
ExecutionsLeased ==
    \A w \in Workers :
        phase[w] = "executing" =>
            /\ now <= Deadline(w)
            /\ Current(held[w])
            /\ jobs[held[w].job].lease > Deadline(w)

\* Every request at the agent, and every one yet to be performed, has a claim or a
\* sending of its own; what is or will be recorded as a success was performed.
RequestsCounted ==
    /\ SuccessWasPerformed
    /\ \A w \in Workers :
        LET j == held[w].job IN
        /\ applied[w] => phase[w] \in {"executing", "finalizing"}
        /\ phase[w] = "executing" /\ ~applied[w] =>
              effects[j] + orphans[j] < issued[j] + resent[j]
        /\ phase[w] = "executing" /\ applied[w] => effects[j] >= 1
        /\ /\ held[w] # NoClaim
           /\ phase[w] \in {"finalizing", "left"}
           /\ outcome[w] \in Results
           => effects[j] >= 1

\* A claim that was left leased is one that was issued, and nobody holds it.
LostUnheld ==
    /\ \A j \in Jobs : \A t \in lost[j] : t <= issued[j]
    /\ \A w \in Workers : held[w] # NoClaim => held[w].token \notin lost[held[w].job]

\* Everything a step of the workers needs of the state before it.
WorkerInv ==
    /\ StoreInv
    /\ WorkerTypeOK
    /\ ClaimsBounded
    /\ StatementsPunctual
    /\ ExecutionsLeased
    /\ RequestsCounted
    /\ LostUnheld

-----------------------------------------------------------------------------
(* Every step of the workers is one of the store *)

\* A finalization is one of those the store offers.
LEMMA FinalizeStep ==
    ASSUME ClaimsBounded, NEW w \in Workers, NEW acked \in BOOLEAN, Finalize(w, acked)
    PROVE  WorkerStep(w)
<1>1. ASSUME NEW errors \in 0..MaxResultLogs, MarkSucceeded(w, errors, acked)
      PROVE  WorkerStep(w)
  BY <1>1 DEF WorkerStep
<1>2. CASE MarkFailed(w, outcome[w] # "retryable",
                      ExponentialBackoff(held[w].attempts), acked)
  <2>1. held[w] # NoClaim
    BY <1>2 DEF MarkFailed
  <2>2. ExponentialBackoff(held[w].attempts) \in Backoffs
    BY <2>1, BackoffsCovered DEF ClaimsBounded
  <2> QED
    BY <1>2, <2>2 DEF WorkerStep
<1> QED
  BY <1>1, <1>2 DEF Finalize

\* The statements of a worker's loop.
LEMMA LoopStep ==
    ASSUME ClaimsBounded, NEW w \in Workers, Loop(w)
    PROVE  WorkerStep(w) \/ UNCHANGED vars
<1>1. ASSUME NEW acked \in BOOLEAN, Finalize(w, acked)
      PROVE  WorkerStep(w)
  BY <1>1, FinalizeStep
<1>2. CASE Poll(w) \/ ClaimRuns(w) \/ ClaimReturns(w) \/ LoopExits(w) \/ AgentPerforms(w)
  BY <1>2 DEF Poll, ClaimRuns, ClaimReturns, LoopExits, LeaveBehind, AgentPerforms,
              WorkerStep
<1>3. ASSUME NEW o \in Outcomes, ExecuteReturns(w, o) \/ LeaveLeased(w, o)
      PROVE  WorkerStep(w) \/ UNCHANGED vars
  BY <1>3 DEF ExecuteReturns, LeaveLeased, WorkerStep
<1>4. CASE FinalizeAcked(w) \/ FinalizeUnanswered(w)
  BY <1>1, <1>4 DEF FinalizeAcked, FinalizeUnanswered
<1>5. CASE FinalizeInvalid(w) \/ GiveUp(w)
  BY <1>5 DEF FinalizeInvalid, GiveUp, MoveOn, WorkerStep
<1> QED
  BY <1>2, <1>3, <1>4, <1>5 DEF Loop

\* What happens to a process, and what goes on at the server without it.
LEMMA ProcessStep ==
    ASSUME ClaimsBounded, NEW w \in Workers, Process(w)
    PROVE  WorkerStep(w) \/ UNCHANGED vars
<1>1. CASE ClaimFails(w) \/ ServerClaims(w)
  BY <1>1 DEF ClaimFails, MoveOn, ServerClaims, WorkerStep
<1>2. CASE Crash(w)
  BY <1>2 DEF Crash, LeaveBehind, WorkerStep
<1>3. CASE Resend(w) \/ StopClaims(w) \/ StopActions(w) \/ Restart(w)
  BY <1>3 DEF Resend, StopClaims, StopActions, Restart
<1>4. CASE ServerFinalizes(w)
  BY <1>4, FinalizeStep DEF ServerFinalizes, WorkerStep
<1> QED
  BY <1>1, <1>2, <1>3, <1>4 DEF Process

LEMMA StoreStep == ClaimsBounded /\ [WNext]_wvars => [Next]_vars
<1> SUFFICES ASSUME ClaimsBounded, WNext PROVE [Next]_vars
  BY DEF wvars
<1>1. ASSUME NEW w \in Workers, Loop(w) \/ Process(w)
      PROVE  [Next]_vars
  BY <1>1, LoopStep, ProcessStep DEF Next
<1>2. ASSUME NEW j \in Jobs, Client(j) \/ OrphanPerforms(j)
      PROVE  [Next]_vars
  BY <1>2 DEF Client, OrphanPerforms, Next
<1>3. CASE Clock
  BY <1>3 DEF Clock, Next
<1> QED
  BY <1>1, <1>2, <1>3 DEF WNext

\* The steps that write rows: commits of claim statements, finalizations, and what
\* clients ask for.
LEMMA RowSteps ==
    ASSUME WNext
    PROVE  \/ UNCHANGED jobs
           \/ \E w \in Workers : ClaimEffect(w)
           \/ \E w \in Workers, acked \in BOOLEAN :
                 phase[w] \in {"finalizing", "left"} /\ Finalize(w, acked)
           \/ \E j \in Jobs : EnqueueStep(j) \/ AdminStep(j)
<1> DEFINE Written(w) == \/ UNCHANGED jobs
                         \/ ClaimEffect(w)
                         \/ \E acked \in BOOLEAN :
                               phase[w] \in {"finalizing", "left"} /\ Finalize(w, acked)
<1>1. ASSUME NEW w \in Workers, Loop(w) PROVE Written(w)
  <2>1. CASE FinalizeAcked(w) \/ FinalizeUnanswered(w)
    BY <2>1 DEF FinalizeAcked, FinalizeUnanswered, vars
  <2>2. CASE ClaimReturns(w)
    BY <2>2 DEF ClaimReturns, ClaimCommit
  <2>3. CASE Poll(w) \/ ClaimRuns(w) \/ LoopExits(w) \/ AgentPerforms(w)
    BY <2>3 DEF Poll, ClaimCall, ClaimRuns, ClaimSnapshot, ClaimLock, LoopExits,
                LeaveBehind, AgentPerforms, vars
  <2>4. ASSUME NEW o \in Outcomes, ExecuteReturns(w, o) \/ LeaveLeased(w, o)
        PROVE  UNCHANGED jobs
    BY <2>4 DEF ExecuteReturns, LeaveLeased, Abandon, vars
  <2>5. CASE FinalizeInvalid(w) \/ GiveUp(w)
    BY <2>5 DEF FinalizeInvalid, FinalizeRejected, GiveUp, Abandon, MoveOn, vars
  <2> QED
    BY <1>1, <2>1, <2>2, <2>3, <2>4, <2>5 DEF Loop
<1>2. ASSUME NEW w \in Workers, Process(w) PROVE Written(w)
  <2>1. CASE ClaimFails(w) \/ ServerClaims(w)
    BY <2>1 DEF ClaimFails, ClaimCommitLost, ClaimAbort, MoveOn, ServerClaims,
                ClaimSnapshot, ClaimLock, vars
  <2>2. CASE ServerFinalizes(w)
    BY <2>2 DEF ServerFinalizes, FinalizeRejected, Abandon
  <2>3. CASE Resend(w) \/ StopClaims(w) \/ StopActions(w) \/ Crash(w) \/ Restart(w)
    BY <2>3 DEF Resend, StopClaims, StopActions, Crash, LeaveBehind, Abandon, Restart, vars
  <2> QED
    BY <1>2, <2>1, <2>2, <2>3 DEF Process
<1>3. ASSUME NEW j \in Jobs, Client(j) \/ OrphanPerforms(j)
      PROVE  UNCHANGED jobs \/ EnqueueStep(j) \/ AdminStep(j)
  BY <1>3 DEF Client, OrphanPerforms, vars
<1>4. CASE Clock
  BY <1>4 DEF Clock, Tick
<1> QED
  BY <1>1, <1>2, <1>3, <1>4 DEF WNext

\* A session that is left behind keeps its statement or its claim, and the one a loop
\* goes on with was unused.
LEMMA LeftBehind ==
    ASSUME WorkerTypeOK, NEW w \in Workers, phase[w] \in {"polling", "finalizing"},
           LeaveBehind(w) \/ MoveOn(w)
    PROVE  /\ UNCHANGED <<vars, outcome>>
           /\ phase' \in [Workers -> {"polling", "executing", "finalizing", "left", "stopped"}]
           /\ phase'[w] = "left"
           /\ \A u \in Workers \ {w} :
                 phase'[u] = phase[u] \/ (phase[u] = "stopped" /\ phase'[u] = "polling")
           /\ stopping' \in [Workers -> {"no", "claims", "actions"}]
           /\ started' = [started EXCEPT ![w] = 0]
           /\ tries' = [tries EXCEPT ![w] = 0]
           /\ applied' = [applied EXCEPT ![w] = FALSE]
<1>1. CASE LeaveBehind(w)
  BY <1>1 DEF LeaveBehind, AtRest, WorkerTypeOK
<1>2. CASE MoveOn(w)
  <2>1. PICK v \in Workers :
           /\ phase[v] = "stopped"
           /\ phase' = [phase EXCEPT ![w] = "left", ![v] = "polling"]
           /\ stopping' = [stopping EXCEPT ![v] = stopping[w], ![w] = "no"]
    BY <1>2 DEF MoveOn
  <2>2. v # w
    BY <2>1
  <2> QED
    BY <1>2, <2>1, <2>2 DEF MoveOn, AtRest, WorkerTypeOK
<1> QED
  BY <1>1, <1>2

\* What the commit of a claim statement hands to its worker.
LEMMA ClaimGiven ==
    ASSUME StoreInv, TypeOK', NEW w \in Workers, ClaimCommit(w), granted[w]
    PROVE  \E j \in Jobs, c \in Claim :
              /\ Claimable(jobs[j], at[w])
              /\ jobs'[j] = ClaimedRow(jobs[j], at[w], issued[j] + 1)
              /\ issued'[j] = issued[j] + 1
              /\ held' = [held EXCEPT ![w] = c]
              /\ c.job = j
              /\ c.token = issued'[j]
              /\ c.attempts = jobs[j].attempts + 1
              /\ c.max = jobs[j].max
              /\ c # NoClaim
<1> DEFINE j == candidate[w]
           c == [job |-> j, token |-> jobs'[j].token,
                 attempts |-> jobs'[j].attempts, max |-> jobs'[j].max]
<1>1. j \in Jobs /\ Claims(w, j) /\ ClaimEffect(w)
  BY DEF Claims, ClaimCommit, StoreInv, TypeOK
<1>2. /\ Claimable(jobs[j], at[w])
      /\ jobs'[j] = ClaimedRow(jobs[j], at[w], issued[j] + 1)
      /\ issued'[j] = issued[j] + 1
  BY <1>1, EffectRow
<1>3. /\ jobs'[j].token = issued[j] + 1
      /\ jobs'[j].attempts = jobs[j].attempts + 1
      /\ jobs'[j].max = jobs[j].max
  BY <1>1, <1>2 DEF ClaimedRow, Row, StoreInv, TypeOK
<1>4. held' = [held EXCEPT ![w] = c]
  BY DEF ClaimCommit
<1>5. c \in Claim
  <2>1. jobs'[j] \in Row
    BY <1>1 DEF TypeOK
  <2>2. jobs'[j].token \in Nat /\ jobs'[j].attempts \in Nat /\ jobs'[j].max \in Nat
    BY <2>1 DEF Row
  <2> QED
    BY <1>1, <2>2 DEF Claim
<1>6. NoClaim \notin Claim
  BY StoreAssumptions, Zenon DEF Claim
<1>7. /\ c.job = j
      /\ c.token = issued'[j]
      /\ c.attempts = jobs[j].attempts + 1
      /\ c.max = jobs[j].max
  BY <1>2, <1>3
<1> HIDE DEF c
<1>8. c # NoClaim
  BY <1>5, <1>6
<1> HIDE DEF j
<1> QED
  BY <1>1, <1>2, <1>4, <1>5, <1>7, <1>8

-----------------------------------------------------------------------------
(* The initial states *)

\* Initially nobody holds a claim and no request was sent.
LEMMA InitWorkerInv == WInit => WorkerInv
<1> SUFFICES ASSUME WInit PROVE WorkerInv
  OBVIOUS
<1>1. StoreInv
  BY InitStoreInv DEF WInit
<1>2. WorkerTypeOK
  <2>1. /\ \A w \in Workers : held[w] = NoClaim
        /\ \A w \in Workers : phase[w] = "stopped"
    BY DEF WInit, Init
  <2>2. faults \in 0..MaxFaults
    BY WorkerAssumptions DEF WInit
  <2> QED
    BY <2>1, <2>2 DEF WInit, WorkerTypeOK, Outcomes
<1>3. ClaimsBounded
  <2>1. \A j \in Jobs : jobs[j].max = 1
    BY DEF WInit, Init, NoView, AbsentRow
  <2> QED
    BY <2>1, StoreAssumptions DEF ClaimsBounded, WInit, Init
<1>4. StatementsPunctual
  BY DEF StatementsPunctual, WInit, Init
<1>5. ExecutionsLeased
  BY DEF ExecutionsLeased, WInit
<1>6. RequestsCounted
  <2>1. \A j \in Jobs : jobs[j].status = "absent"
    BY DEF WInit, Init, NoView, AbsentRow
  <2> QED
    BY <2>1 DEF RequestsCounted, SuccessWasPerformed, WInit, Init
<1>7. LostUnheld
  BY DEF LostUnheld, WInit, Init
<1> QED
  BY <1>1, <1>2, <1>3, <1>4, <1>5, <1>6, <1>7 DEF WorkerInv

-----------------------------------------------------------------------------
(* Types *)

\* A claim that is held is one of a job.
LEMMA HeldClaim ==
    ASSUME TypeOK, NEW w \in Workers, held[w] # NoClaim
    PROVE  /\ held[w] \in Claim
           /\ held[w].job \in Jobs
           /\ held[w].token \in Nat
           /\ held[w].attempts \in Nat
<1>1. held[w] \in Claim
  BY DEF TypeOK
<1> QED
  BY <1>1 DEF Claim

\* The requests at the agent stay counted by naturals.
LEMMA OrphanedTypes ==
    ASSUME TypeOK, WorkerTypeOK, NEW w \in Workers, held[w] # NoClaim, Orphaned(w)
    PROVE  orphans' \in [Jobs -> Nat]
<1>1. held[w].job \in Jobs
  BY HeldClaim
<1> QED
  BY <1>1 DEF Orphaned, WorkerTypeOK

\* A session left behind keeps its claim, if it had one.
LEMMA LeftTypes ==
    ASSUME WorkerTypeOK, NEW w \in Workers, phase[w] \in {"polling", "finalizing"},
           LeaveBehind(w) \/ MoveOn(w), UNCHANGED agentVars, faults' \in 0..MaxFaults
    PROVE  WorkerTypeOK'
<1>1. /\ started' \in [Workers -> Nat]
      /\ tries' \in [Workers -> 0..3]
      /\ applied' \in [Workers -> BOOLEAN]
  <2>1. /\ started' = [started EXCEPT ![w] = 0]
        /\ tries' = [tries EXCEPT ![w] = 0]
        /\ applied' = [applied EXCEPT ![w] = FALSE]
    BY LeftBehind
  <2> QED
    BY <2>1 DEF WorkerTypeOK
<1>2. held' = held /\ outcome' = outcome /\ UNCHANGED <<effects, orphans, resent, lost>>
  BY LeftBehind DEF vars, agentVars
<1>3. /\ phase' \in [Workers -> {"polling", "executing", "finalizing", "left", "stopped"}]
      /\ stopping' \in [Workers -> {"no", "claims", "actions"}]
      /\ phase'[w] = "left"
      /\ \A u \in Workers \ {w} :
            phase'[u] = phase[u] \/ (phase[u] = "stopped" /\ phase'[u] = "polling")
  BY LeftBehind
<1>4. ASSUME NEW u \in Workers
      PROVE  /\ phase'[u] \in {"executing", "finalizing"} => held'[u] # NoClaim
             /\ phase'[u] \in {"polling", "stopped"} => held'[u] = NoClaim
  BY <1>2, <1>3 DEF WorkerTypeOK
<1> QED
  BY <1>1, <1>2, <1>3, <1>4 DEF WorkerTypeOK

\* The steps of a worker's loop keep the types.
LEMMA LoopTypes ==
    ASSUME StoreInv, WorkerTypeOK, TypeOK', NEW w \in Workers, Loop(w)
    PROVE  WorkerTypeOK'
<1> USE DEF WorkerTypeOK
<1>0. TypeOK
  BY DEF StoreInv
<1>1. CASE Poll(w)
  BY <1>1 DEF Poll, ClaimCall, loopVars, agentVars
<1>2. CASE ClaimRuns(w)
  BY <1>2 DEF ClaimRuns, ClaimSnapshot, ClaimLock, loopVars, agentVars
<1>3. CASE ClaimReturns(w)
  <2>1. CASE granted[w]
    <3>1. PICK c \in Claim : held' = [held EXCEPT ![w] = c] /\ c # NoClaim
      BY <1>3, <2>1, ClaimGiven DEF ClaimReturns
    <3>2. /\ phase' = [phase EXCEPT ![w] = "executing"]
          /\ started' = [started EXCEPT ![w] = now]
          /\ UNCHANGED <<outcome, tries, stopping, applied, agentVars, faults>>
      BY <1>3, <2>1 DEF ClaimReturns
    <3> QED
      BY <1>0, <3>1, <3>2 DEF agentVars, TypeOK
  <2>2. CASE ~granted[w]
    BY <1>3, <2>2 DEF ClaimReturns, ClaimCommit, loopVars, agentVars
  <2> QED
    BY <2>1, <2>2
<1>4. CASE LoopExits(w)
  <2>1. UNCHANGED agentVars /\ faults' = faults /\ phase[w] = "polling"
    BY <1>4 DEF LoopExits
  <2>2. CASE LeaveBehind(w)
    BY <2>1, <2>2, LeftTypes
  <2>3. CASE Reset(w, "stopped") /\ UNCHANGED vars
    BY <2>1, <2>3 DEF Reset, AtRest, Outcomes, vars, agentVars
  <2> QED
    BY <1>4, <2>2, <2>3 DEF LoopExits
<1>5. CASE AgentPerforms(w)
  <2>1. held[w].job \in Jobs
    BY <1>0, <1>5, HeldClaim DEF AgentPerforms
  <2> QED
    BY <1>5, <2>1 DEF AgentPerforms, vars
<1>6. ASSUME NEW o \in Outcomes, ExecuteReturns(w, o) PROVE WorkerTypeOK'
  BY <1>6 DEF ExecuteReturns, vars, agentVars
<1>7. ASSUME NEW o \in Outcomes, LeaveLeased(w, o) PROVE WorkerTypeOK'
  <2>1. held[w] # NoClaim /\ held[w].job \in Jobs /\ held[w].token \in Nat
    BY <1>0, <1>7, HeldClaim DEF LeaveLeased
  <2>2. orphans' \in [Jobs -> Nat]
    BY <1>0, <1>7, <2>1, OrphanedTypes DEF LeaveLeased
  <2>3. lost' \in [Jobs -> SUBSET Nat]
    BY <1>7, <2>1 DEF LeaveLeased
  <2> QED
    BY <1>0, <1>7, <2>2, <2>3 DEF LeaveLeased, Abandon, Reset, AtRest, Outcomes, TypeOK
<1>8. CASE FinalizeAcked(w)
  <2>1. held' = [held EXCEPT ![w] = NoClaim]
    BY <1>8 DEF FinalizeAcked, Finalize, MarkSucceeded, MarkFailed, Answer
  <2> QED
    BY <1>0, <1>8, <2>1 DEF FinalizeAcked, Reset, AtRest, Outcomes, agentVars, TypeOK
<1>9. CASE FinalizeInvalid(w)
  BY <1>0, <1>9 DEF FinalizeInvalid, FinalizeRejected, Reset, AtRest, Outcomes, agentVars,
      TypeOK
<1>10. CASE FinalizeUnanswered(w)
  <2>1. held' = held
    BY <1>10 DEF FinalizeUnanswered, Finalize, MarkSucceeded, MarkFailed, Answer, vars
  <2>2. faults' \in 0..MaxFaults
    <3>1. Fault \/ faults' = faults
      BY <1>10 DEF FinalizeUnanswered, vars
    <3> QED
      BY <3>1, WorkerAssumptions DEF Fault
  <2> QED
    BY <1>10, <2>1, <2>2 DEF FinalizeUnanswered, agentVars
<1>11. CASE GiveUp(w)
  <2>1. UNCHANGED agentVars /\ faults' = faults /\ phase[w] = "finalizing"
    BY <1>11 DEF GiveUp
  <2>2. CASE MoveOn(w)
    BY <2>1, <2>2, LeftTypes
  <2>3. CASE Abandon(w) /\ Reset(w, "polling")
    BY <1>0, <2>1, <2>3 DEF Abandon, Reset, AtRest, Outcomes, agentVars, TypeOK
  <2> QED
    BY <1>11, <2>2, <2>3 DEF GiveUp
<1> QED
  BY <1>1, <1>2, <1>3, <1>4, <1>5, <1>6, <1>7, <1>8, <1>9, <1>10, <1>11 DEF Loop

\* So do the others.
LEMMA OtherTypes ==
    ASSUME StoreInv, WorkerTypeOK, StatementsPunctual, TypeOK',
           \/ \E w \in Workers : Process(w)
           \/ \E j \in Jobs : Client(j) \/ OrphanPerforms(j)
           \/ Clock
    PROVE  WorkerTypeOK'
<1> USE DEF WorkerTypeOK
<1>0. TypeOK
  BY DEF StoreInv
<1>1. ASSUME NEW w \in Workers, ClaimFails(w) PROVE WorkerTypeOK'
  <2>1. UNCHANGED agentVars /\ faults' \in 0..MaxFaults
    BY <1>1, WorkerAssumptions DEF ClaimFails, Fault
  <2>2. CASE MoveOn(w)
    BY <1>1, <2>1, <2>2, LeftTypes DEF ClaimFails
  <2>3. CASE ~MoveOn(w)
    BY <1>1, <2>1, <2>3 DEF ClaimFails, ClaimCommitLost, ClaimAbort, loopVars, agentVars
  <2> QED
    BY <2>2, <2>3
<1>2. ASSUME NEW w \in Workers, Resend(w) PROVE WorkerTypeOK'
  <2>1. held[w].job \in Jobs
    BY <1>0, <1>2, HeldClaim DEF Resend
  <2> QED
    BY <1>2, <2>1, WorkerAssumptions DEF Resend, Fault, vars
<1>3. ASSUME NEW w \in Workers, StopClaims(w) \/ StopActions(w) \/ Restart(w)
      PROVE  WorkerTypeOK'
  BY <1>3, WorkerAssumptions DEF StopClaims, StopActions, Restart, Fault, vars, agentVars
<1>4. ASSUME NEW w \in Workers, Crash(w) PROVE WorkerTypeOK'
  <2>1. faults' \in 0..MaxFaults
    BY <1>4, WorkerAssumptions DEF Crash, Fault
  <2>2. CASE phase[w] = "polling" /\ Reset(w, "stopped") /\ UNCHANGED <<vars, agentVars>>
    BY <2>1, <2>2 DEF Reset, AtRest, Outcomes, vars, agentVars
  <2>3. CASE /\ Abandon(w) /\ Orphaned(w) /\ Reset(w, "stopped")
             /\ UNCHANGED <<effects, resent, lost>>
    <3>1. orphans' \in [Jobs -> Nat]
      BY <1>0, <2>3, OrphanedTypes DEF Abandon
    <3> QED
      BY <1>0, <2>1, <2>3, <3>1 DEF Abandon, Reset, AtRest, Outcomes, TypeOK
  <2>4. CASE LeaveBehind(w) /\ UNCHANGED agentVars
    <3>1. phase[w] \in {"polling", "finalizing"}
      BY <1>4, <2>4 DEF Crash, Running, LeaveBehind, StatementsPunctual
    <3> QED
      BY <2>1, <2>4, <3>1, LeftTypes
  <2> QED
    BY <1>4, <2>2, <2>3, <2>4 DEF Crash
<1>5. ASSUME NEW j \in Jobs, Client(j) PROVE WorkerTypeOK'
  BY <1>5 DEF Client, EnqueueStep, Enqueue, AdminStep, Retry, Cancel, loopVars, agentVars
<1>6. ASSUME NEW j \in Jobs, OrphanPerforms(j) PROVE WorkerTypeOK'
  BY <1>6 DEF OrphanPerforms, vars, loopVars
<1>7. CASE Clock
  BY <1>7 DEF Clock, Tick, loopVars, agentVars
<1>8. ASSUME NEW w \in Workers, ServerClaims(w) PROVE WorkerTypeOK'
  <2>1. held' = held /\ UNCHANGED <<agentVars, faults>>
    BY <1>8 DEF ServerClaims, ClaimSnapshot, ClaimLock, ClaimCommitLost, ClaimAbort
  <2>2. CASE UNCHANGED loopVars
    BY <2>1, <2>2 DEF loopVars, agentVars
  <2>3. CASE Reset(w, "stopped") /\ pc[w] # "idle"
    <3>1. held[w] = NoClaim
      BY <2>3 DEF StatementsPunctual
    <3> QED
      BY <2>1, <2>3, <3>1 DEF Reset, AtRest, Outcomes, agentVars
  <2> QED
    BY <1>8, <2>2, <2>3 DEF ServerClaims, ClaimCommitLost, ClaimEffect, ClaimAbort
<1>9. ASSUME NEW w \in Workers, ServerFinalizes(w) PROVE WorkerTypeOK'
  <2>1. held' = [held EXCEPT ![w] = NoClaim]
    BY <1>9 DEF ServerFinalizes, Finalize, MarkSucceeded, MarkFailed, Answer,
                FinalizeRejected, Abandon
  <2> QED
    BY <1>0, <1>9, <2>1 DEF ServerFinalizes, Reset, AtRest, Outcomes, agentVars, TypeOK
<1> QED
  BY <1>1, <1>2, <1>3, <1>4, <1>5, <1>6, <1>7, <1>8, <1>9 DEF Process

-----------------------------------------------------------------------------
(* Claims *)

\* The claim a worker has after a step is the one it had, or it was just given to it.
LEMMA HeldStep ==
    ASSUME WNext, TypeOK, NEW v \in Workers
    PROVE  \/ held'[v] = held[v]
           \/ held'[v] = NoClaim
           \/ ClaimReturns(v) /\ granted[v]
<1>1. ASSUME NEW w \in Workers, Loop(w)
      PROVE  \/ held'[v] = held[v]
             \/ held'[v] = NoClaim
             \/ ClaimReturns(v) /\ granted[v]
  <2>1. CASE ClaimReturns(w)
    BY <2>1 DEF ClaimReturns, ClaimCommit, TypeOK
  <2>2. CASE Poll(w) \/ ClaimRuns(w) \/ LoopExits(w) \/ AgentPerforms(w)
    BY <2>2 DEF Poll, ClaimCall, ClaimRuns, ClaimSnapshot, ClaimLock, LoopExits,
                LeaveBehind, AgentPerforms, vars
  <2>3. ASSUME NEW o \in Outcomes, ExecuteReturns(w, o) \/ LeaveLeased(w, o)
        PROVE  held'[v] = held[v] \/ held'[v] = NoClaim
    BY <2>3 DEF ExecuteReturns, LeaveLeased, Abandon, vars, TypeOK
  <2>4. CASE FinalizeAcked(w) \/ FinalizeUnanswered(w)
    BY <2>4 DEF FinalizeAcked, FinalizeUnanswered, Finalize, MarkSucceeded, MarkFailed,
                Answer, vars, TypeOK
  <2>5. CASE FinalizeInvalid(w) \/ GiveUp(w)
    BY <2>5 DEF FinalizeInvalid, FinalizeRejected, GiveUp, Abandon, MoveOn, vars, TypeOK
  <2> QED
    BY <1>1, <2>1, <2>2, <2>3, <2>4, <2>5 DEF Loop
<1>2. ASSUME NEW w \in Workers, Process(w)
      PROVE  held'[v] = held[v] \/ held'[v] = NoClaim
  <2>1. CASE ClaimFails(w) \/ ServerClaims(w)
    BY <2>1 DEF ClaimFails, ClaimCommitLost, ClaimAbort, MoveOn, ServerClaims,
                ClaimSnapshot, ClaimLock, vars
  <2>2. CASE Crash(w)
    BY <2>2 DEF Crash, LeaveBehind, Abandon, vars, TypeOK
  <2>3. CASE Resend(w) \/ StopClaims(w) \/ StopActions(w) \/ Restart(w)
    BY <2>3 DEF Resend, StopClaims, StopActions, Restart, vars
  <2>4. CASE ServerFinalizes(w)
    BY <2>4 DEF ServerFinalizes, Finalize, MarkSucceeded, MarkFailed, Answer,
                FinalizeRejected, Abandon, TypeOK
  <2> QED
    BY <1>2, <2>1, <2>2, <2>3, <2>4 DEF Process
<1>3. ASSUME NEW j \in Jobs, Client(j) \/ OrphanPerforms(j)
      PROVE  held'[v] = held[v]
  BY <1>3 DEF Client, EnqueueStep, Enqueue, AdminStep, Retry, Cancel, OrphanPerforms, vars
<1>4. CASE Clock
  BY <1>4 DEF Clock, Tick
<1> QED
  BY <1>1, <1>2, <1>3, <1>4 DEF WNext

\* A job keeps the maximum it was submitted with, and a claim carries the attempts of
\* a row that has not exceeded it.
LEMMA NextClaimsBounded ==
    ASSUME WorkerInv, TypeOK', WNext
    PROVE  ClaimsBounded'
<1>1. [Next]_vars /\ StoreInv /\ TypeOK /\ ClaimsBounded
  BY StoreStep DEF WorkerInv, StoreInv
<1>2. ASSUME NEW j \in Jobs PROVE jobs'[j].max <= MaxJobAttempts
  <2>1. LifeOf(j)' = LifeOf(j) \/ Life!Move(LifeOf(j), LifeOf(j)')
    BY <1>1, NextMoves
  <2>2. LifeOf(j).max = jobs[j].max /\ LifeOf(j)'.max = jobs'[j].max
    BY DEF LifeOf, LifeRecord
  <2>3. LifeOf(j)'.max = LifeOf(j).max \/ LifeOf(j)'.max \in 1..MaxJobAttempts
    BY <2>1 DEF Life!Move, Life!Submit, Life!Attempt, Life!Succeed, Life!Fail,
                Life!Retry, Life!Cancel, Life!Records
  <2>4. jobs[j].max <= MaxJobAttempts
    BY <1>1 DEF ClaimsBounded
  <2> QED
    BY <2>2, <2>3, <2>4, StoreAssumptions
<1>3. ASSUME NEW v \in Workers, held'[v] # NoClaim
      PROVE  held'[v].attempts \in 1..MaxJobAttempts
  <2>1. CASE ClaimReturns(v) /\ granted[v]
    <3>1. PICK j \in Jobs, c \in Claim : /\ Claimable(jobs[j], at[v])
                                         /\ held' = [held EXCEPT ![v] = c]
                                         /\ c.attempts = jobs[j].attempts + 1
      BY <1>1, <2>1, ClaimGiven DEF ClaimReturns
    <3>2. held'[v] = c
      BY <1>1, <3>1 DEF TypeOK
    <3>3. jobs[j].attempts < jobs[j].max /\ jobs[j].max <= MaxJobAttempts
      BY <1>1, <3>1 DEF Claimable, ClaimsBounded
    <3>4. jobs[j].attempts \in Nat /\ jobs[j].max \in Nat
      BY <1>1 DEF TypeOK, Row
    <3> QED
      BY <3>1, <3>2, <3>3, <3>4, StoreAssumptions
  <2>2. CASE held'[v] = held[v]
    BY <1>1, <1>3, <2>2 DEF ClaimsBounded
  <2> QED
    BY <1>1, <1>3, <2>1, <2>2, HeldStep
<1> QED
  BY <1>2, <1>3 DEF ClaimsBounded

-----------------------------------------------------------------------------
(* Clock readings and timeouts *)

\* Only the clock moves the time.
LEMMA TimeStands == WNext => Clock \/ now' = now
<1>1. ASSUME NEW w \in Workers, Loop(w) PROVE now' = now
  BY <1>1 DEF Loop, Poll, ClaimCall, ClaimRuns, ClaimSnapshot, ClaimLock, ClaimReturns,
      ClaimCommit, ClaimEffect, LoopExits, LeaveBehind, AgentPerforms, ExecuteReturns,
      LeaveLeased, Abandon, FinalizeAcked, FinalizeInvalid, FinalizeRejected,
      FinalizeUnanswered, Finalize, MarkSucceeded, MarkFailed, GiveUp, MoveOn, vars
<1>2. ASSUME NEW w \in Workers, Process(w) PROVE now' = now
  BY <1>2 DEF Process, ClaimFails, ClaimCommitLost, ClaimEffect, ClaimAbort, MoveOn,
      ServerClaims, ClaimSnapshot, ClaimLock, ServerFinalizes, Finalize, MarkSucceeded,
      MarkFailed, FinalizeRejected, Resend, StopClaims, StopActions, Crash, LeaveBehind,
      Abandon, Restart, vars
<1>3. ASSUME NEW j \in Jobs, Client(j) \/ OrphanPerforms(j) PROVE now' = now
  BY <1>3 DEF Client, EnqueueStep, Enqueue, AdminStep, Retry, Cancel, OrphanPerforms, vars
<1> QED
  BY <1>1, <1>2, <1>3 DEF WNext

\* A session whose statement is under way is polling, or left behind, and stays so.
LEMMA NextStatements ==
    ASSUME WorkerInv, WNext, NEW v \in Workers, pc'[v] # "idle"
    PROVE  /\ held'[v] = NoClaim
           /\ phase'[v] \in {"polling", "left"}
           /\ phase'[v] = "polling" => now' <= at'[v] + MaxStall
<1> DEFINE Goal == /\ held'[v] = NoClaim
                   /\ phase'[v] \in {"polling", "left"}
                   /\ phase'[v] = "polling" => now' <= at'[v] + MaxStall
           Others(w) == \A u \in Workers \ {w} : phase'[u] = phase[u] /\ held'[u] = held[u]
<1>1. /\ TypeOK /\ WorkerTypeOK
      /\ \A w \in Workers : /\ pc[w] # "idle" => held[w] = NoClaim
                            /\ pc[w] # "idle" => phase[w] \in {"polling", "left"}
                            /\ pc[w] # "idle" /\ phase[w] = "polling" =>
                                  now <= at[w] + MaxStall
                            /\ at[w] \in Nat
      /\ now \in Nat /\ MaxStall \in Nat
  BY WorkerAssumptions DEF WorkerInv, StoreInv, TypeOK, StatementsPunctual
<1> USE DEF TypeOK, WorkerTypeOK
<1>2. ASSUME NEW w \in Workers, ClaimSnapshot(w) \/ ClaimLock(w), phase' = phase PROVE Goal
  <2>1. UNCHANGED <<now, at, held>> /\ pc[w] # "idle"
        /\ \A u \in Workers \ {w} : pc'[u] = pc[u]
    BY <1>1, <1>2 DEF ClaimSnapshot, ClaimLock
  <2> QED
    BY <1>1, <1>2, <2>1
<1>3. ASSUME NEW w \in Workers, Poll(w) PROVE Goal
  <2>1. CASE v = w
    BY <1>1, <1>3, <2>1 DEF Poll, ClaimCall, loopVars
  <2>2. CASE v # w
    BY <1>1, <1>3, <2>2 DEF Poll, ClaimCall, loopVars
  <2> QED
    BY <2>1, <2>2
<1>4. ASSUME NEW w \in Workers, EndStatement(w), now' = now, Others(w) PROVE Goal
  <2>1. pc' = [pc EXCEPT ![w] = "idle"] /\ at' = [at EXCEPT ![w] = 0]
    BY <1>4 DEF EndStatement
  <2>2. v # w /\ pc'[v] = pc[v] /\ at'[v] = at[v]
    BY <1>1, <2>1
  <2> QED
    BY <1>1, <1>4, <2>2
<1>5. ASSUME NEW w \in Workers, UNCHANGED <<pc, at, now>>, Others(w),
             held[w] # NoClaim \/ phase[w] \notin {"polling", "left"} \/ pc[w] = "idle"
      PROVE  Goal
  BY <1>1, <1>5
<1>6. ASSUME NEW w \in Workers, LeaveBehind(w) \/ MoveOn(w),
             phase[w] \in {"polling", "finalizing"}
      PROVE  Goal
  <2>1. UNCHANGED <<pc, at, now, held>>
    BY <1>1, <1>6, LeftBehind DEF vars, claimVars
  <2>2. phase'[v] = phase[v] \/ phase'[v] = "left" \/ phase[v] = "stopped"
    BY <1>1, <1>6, LeftBehind
  <2>3. phase'[v] = phase[v] \/ phase'[v] = "left"
    BY <1>1, <2>1, <2>2
  <2> QED
    BY <1>1, <2>1, <2>3
<1>7. ASSUME NEW w \in Workers, ClaimRuns(w) \/ ClaimReturns(w) \/ LoopExits(w)
      PROVE  Goal
  <2>1. CASE ClaimRuns(w)
    BY <1>2, <2>1 DEF ClaimRuns, loopVars
  <2>2. CASE ClaimReturns(w)
    <3>1. EndStatement(w) /\ now' = now
      BY <2>2 DEF ClaimReturns, ClaimCommit, ClaimEffect
    <3>2. Others(w)
      BY <1>1, <2>2 DEF ClaimReturns, ClaimCommit, loopVars
    <3> QED
      BY <1>4, <3>1, <3>2
  <2>3. CASE LoopExits(w) /\ LeaveBehind(w)
    BY <1>6, <2>3 DEF LoopExits
  <2>4. CASE LoopExits(w) /\ ~LeaveBehind(w)
    BY <1>1, <1>5, <2>4 DEF LoopExits, Reset, vars, claimVars
  <2> QED
    BY <1>7, <2>1, <2>2, <2>3, <2>4
<1>8. ASSUME NEW w \in Workers,
             \/ AgentPerforms(w)
             \/ \E o \in Outcomes : ExecuteReturns(w, o) \/ LeaveLeased(w, o)
      PROVE  Goal
  BY <1>1, <1>5, <1>8 DEF AgentPerforms, ExecuteReturns, LeaveLeased, Abandon, Reset, vars,
      claimVars
<1>9. ASSUME NEW w \in Workers, NEW acked \in BOOLEAN, Finalize(w, acked),
             \A u \in Workers \ {w} : phase'[u] = phase[u]
      PROVE  Goal
  <2>1. UNCHANGED <<pc, at, now>> /\ held[w] # NoClaim
        /\ \A u \in Workers \ {w} : held'[u] = held[u]
    BY <1>1, <1>9 DEF Finalize, MarkSucceeded, MarkFailed, Answer, claimVars
  <2> QED
    BY <1>5, <1>9, <2>1
<1>10. ASSUME NEW w \in Workers, FinalizeRejected(w) \/ Abandon(w),
              \A u \in Workers \ {w} : phase'[u] = phase[u]
       PROVE  Goal
  <2>1. UNCHANGED <<pc, at, now>> /\ held[w] # NoClaim
        /\ \A u \in Workers \ {w} : held'[u] = held[u]
    BY <1>1, <1>10 DEF FinalizeRejected, Abandon, claimVars
  <2> QED
    BY <1>5, <1>10, <2>1
<1>11. ASSUME NEW w \in Workers,
              FinalizeAcked(w) \/ FinalizeInvalid(w) \/ FinalizeUnanswered(w)
       PROVE  Goal
  <2>1. \A u \in Workers \ {w} : phase'[u] = phase[u]
    BY <1>1, <1>11 DEF FinalizeAcked, FinalizeInvalid, FinalizeUnanswered, Reset
  <2>2. CASE FinalizeUnanswered(w) /\ UNCHANGED vars
    BY <1>5, <2>1, <2>2 DEF FinalizeUnanswered, vars, claimVars
  <2> QED
    BY <1>9, <1>10, <1>11, <2>1, <2>2
       DEF FinalizeAcked, FinalizeInvalid, FinalizeUnanswered
<1>12. ASSUME NEW w \in Workers, GiveUp(w) PROVE Goal
  <2>1. CASE MoveOn(w)
    BY <1>6, <1>12, <2>1 DEF GiveUp
  <2>2. CASE Abandon(w) /\ Reset(w, "polling")
    BY <1>1, <1>10, <2>2 DEF Reset
  <2> QED
    BY <1>12, <2>1, <2>2 DEF GiveUp
<1>13. ASSUME NEW w \in Workers, ClaimFails(w) PROVE Goal
  <2>1. CASE MoveOn(w)
    BY <1>6, <1>13, <2>1 DEF ClaimFails
  <2>2. CASE (ClaimCommitLost(w) \/ ClaimAbort(w)) /\ UNCHANGED loopVars
    BY <1>4, <2>2 DEF ClaimCommitLost, ClaimEffect, ClaimAbort, loopVars
  <2> QED
    BY <1>13, <2>1, <2>2 DEF ClaimFails
<1>14. ASSUME NEW w \in Workers, Crash(w) PROVE Goal
  <2>1. CASE pc[w] = "idle" /\ Reset(w, "stopped") /\ UNCHANGED vars
    BY <1>1, <1>5, <2>1 DEF Reset, vars, claimVars
  <2>2. CASE Abandon(w) /\ Reset(w, "stopped")
    BY <1>1, <1>10, <2>2 DEF Reset
  <2>3. CASE LeaveBehind(w)
    <3>1. phase[w] \in {"polling", "finalizing"}
      BY <1>1, <1>14, <2>3 DEF Crash, Running, LeaveBehind
    <3> QED
      BY <1>6, <2>3, <3>1
  <2> QED
    BY <1>14, <2>1, <2>2, <2>3 DEF Crash
<1>15. ASSUME NEW w \in Workers, ServerClaims(w) PROVE Goal
  <2>1. CASE (ClaimSnapshot(w) \/ ClaimLock(w)) /\ UNCHANGED loopVars
    BY <1>2, <2>1 DEF loopVars
  <2>2. CASE (ClaimCommitLost(w) \/ ClaimAbort(w)) /\ Reset(w, "stopped")
    BY <1>1, <1>4, <2>2 DEF ClaimCommitLost, ClaimEffect, ClaimAbort, Reset
  <2> QED
    BY <1>15, <2>1, <2>2 DEF ServerClaims
<1>16. ASSUME NEW w \in Workers, ServerFinalizes(w) PROVE Goal
  <2>1. \A u \in Workers \ {w} : phase'[u] = phase[u]
    BY <1>1, <1>16 DEF ServerFinalizes, Reset
  <2> QED
    BY <1>9, <1>10, <1>16, <2>1 DEF ServerFinalizes
<1>17. ASSUME NEW w \in Workers, Resend(w) \/ StopClaims(w) \/ StopActions(w) PROVE Goal
  BY <1>1, <1>17 DEF Resend, StopClaims, StopActions, vars, claimVars
<1>18. ASSUME NEW w \in Workers, Restart(w) PROVE Goal
  BY <1>1, <1>5, <1>18 DEF Restart, vars, claimVars
<1>19. ASSUME NEW j \in Jobs, Client(j) \/ OrphanPerforms(j) PROVE Goal
  BY <1>1, <1>19 DEF Client, EnqueueStep, Enqueue, AdminStep, Retry, Cancel,
      OrphanPerforms, vars, claimVars, loopVars
<1>20. CASE Clock
  <2>1. /\ UNCHANGED <<pc, at, held, phase>> /\ now' = now + 1
        /\ phase[v] = "polling" /\ pc[v] # "idle" => now < at[v] + MaxStall
    BY <1>20 DEF Clock, Punctual, Tick, claimVars, loopVars
  <2> QED
    BY <1>1, <2>1
<1> QED
  BY <1>3, <1>7, <1>8, <1>11, <1>12, <1>13, <1>14, <1>15, <1>16, <1>17, <1>18, <1>19, <1>20
     DEF WNext, Loop, Process

\* Whoever executes after a step did so before it, under the same claim, or was just
\* given its claim.
LEMMA ExecutionStep ==
    ASSUME WorkerInv, WNext, NEW v \in Workers, phase'[v] = "executing"
    PROVE  \/ /\ phase[v] = "executing"
              /\ held'[v] = held[v]
              /\ started'[v] = started[v]
           \/ ClaimReturns(v) /\ granted[v] /\ started'[v] = now
<1> DEFINE Kept == /\ phase[v] = "executing"
                   /\ held'[v] = held[v]
                   /\ started'[v] = started[v]
<1>1. /\ TypeOK /\ WorkerTypeOK
      /\ \A w \in Workers : pc[w] # "idle" => phase[w] \in {"polling", "left"}
  BY DEF WorkerInv, StoreInv, StatementsPunctual
<1>2. phase \in [Workers -> {"polling", "executing", "finalizing", "left", "stopped"}]
      /\ started \in [Workers -> Nat] /\ held \in [Workers -> Claim \cup {NoClaim}]
  BY <1>1 DEF TypeOK, WorkerTypeOK
<1>3. ASSUME NEW w \in Workers, ClaimReturns(w)
      PROVE  Kept \/ (ClaimReturns(v) /\ granted[v] /\ started'[v] = now)
  <2>1. \A u \in Workers \ {w} : phase'[u] = phase[u] /\ started'[u] = started[u]
                                 /\ held'[u] = held[u]
    BY <1>2, <1>3 DEF ClaimReturns, ClaimCommit, loopVars
  <2>2. phase[w] = "polling"
    BY <1>3 DEF ClaimReturns
  <2> QED
    BY <1>2, <1>3, <2>1, <2>2 DEF ClaimReturns, loopVars
<1>0. ASSUME NEW w \in Workers, LeaveBehind(w) \/ MoveOn(w),
             phase[w] \in {"polling", "finalizing"}
      PROVE  Kept
  <2>1. phase'[w] = "left" /\ started' = [started EXCEPT ![w] = 0] /\ held' = held
        /\ \A u \in Workers \ {w} : phase'[u] = phase[u] \/ phase'[u] = "polling"
    BY <1>0, <1>1, LeftBehind DEF vars
  <2> QED
    BY <1>2, <2>1
<1>4. ASSUME NEW w \in Workers, Poll(w) \/ ClaimRuns(w) \/ LoopExits(w) \/ AgentPerforms(w)
      PROVE  Kept
  <2>1. CASE LoopExits(w)
    BY <1>0, <1>2, <2>1 DEF LoopExits, Reset, AtRest, vars
  <2>2. CASE ~LoopExits(w)
    BY <1>2, <1>4, <2>2 DEF Poll, ClaimCall, ClaimRuns, ClaimSnapshot, ClaimLock,
        AgentPerforms, loopVars, vars
  <2> QED
    BY <2>1, <2>2
<1>5. ASSUME NEW w \in Workers, NEW o \in Outcomes, ExecuteReturns(w, o) \/ LeaveLeased(w, o)
      PROVE  Kept
  BY <1>2, <1>5 DEF ExecuteReturns, LeaveLeased, Abandon, Reset, AtRest, vars
<1>6. ASSUME NEW w \in Workers, FinalizeAcked(w) \/ FinalizeUnanswered(w)
      PROVE  Kept
  BY <1>2, <1>6 DEF FinalizeAcked, FinalizeUnanswered, Finalize, MarkSucceeded,
      MarkFailed, Answer, Reset, AtRest, vars
<1>7. ASSUME NEW w \in Workers, FinalizeInvalid(w) \/ GiveUp(w)
      PROVE  Kept
  <2>1. CASE MoveOn(w)
    BY <1>0, <1>2, <1>7, <2>1 DEF FinalizeInvalid, GiveUp
  <2>2. CASE ~MoveOn(w)
    BY <1>2, <1>7, <2>2 DEF FinalizeInvalid, FinalizeRejected, GiveUp, Abandon, Reset, AtRest
  <2> QED
    BY <2>1, <2>2
<1>8. ASSUME NEW w \in Workers, ClaimFails(w) \/ Resend(w) \/ StopClaims(w) \/ StopActions(w)
      PROVE  Kept
  <2>1. CASE ClaimFails(w)
    BY <1>0, <2>1 DEF ClaimFails, ClaimCommitLost, ClaimAbort, loopVars
  <2>2. CASE ~ClaimFails(w)
    BY <1>2, <1>8, <2>2 DEF Resend, StopClaims, StopActions, vars
  <2> QED
    BY <2>1, <2>2
<1>9. ASSUME NEW w \in Workers, Crash(w) \/ Restart(w)
      PROVE  Kept
  <2>1. CASE Crash(w) /\ LeaveBehind(w)
    <3>1. phase[w] \in {"polling", "finalizing"}
      BY <1>1, <2>1 DEF Crash, Running, LeaveBehind
    <3> QED
      BY <1>0, <2>1, <3>1
  <2>2. CASE ~LeaveBehind(w)
    BY <1>2, <1>9, <2>2 DEF Crash, Abandon, Restart, Reset, AtRest, vars
  <2> QED
    BY <1>1, <1>9, <2>1, <2>2 DEF Restart, LeaveBehind
<1>12. ASSUME NEW w \in Workers, ServerClaims(w) \/ ServerFinalizes(w)
       PROVE  Kept
  <2>1. CASE ServerClaims(w)
    BY <1>2, <2>1 DEF ServerClaims, ClaimSnapshot, ClaimLock, ClaimCommitLost, ClaimAbort,
        Reset, AtRest, loopVars
  <2>2. CASE ServerFinalizes(w)
    BY <1>2, <2>2 DEF ServerFinalizes, Finalize, MarkSucceeded, MarkFailed, Answer,
        FinalizeRejected, Abandon, Reset, AtRest
  <2> QED
    BY <1>12, <2>1, <2>2
<1>10. ASSUME NEW j \in Jobs, Client(j) \/ OrphanPerforms(j)
       PROVE  Kept
  BY <1>10 DEF Client, EnqueueStep, Enqueue, AdminStep, Retry, Cancel, OrphanPerforms,
      vars, loopVars
<1>11. CASE Clock
  BY <1>11 DEF Clock, Tick, loopVars
<1> QED
  BY <1>3, <1>4, <1>5, <1>6, <1>7, <1>8, <1>9, <1>10, <1>11, <1>12 DEF WNext, Loop, Process

\* From the facts an execution keeps: its row is running, under its claim, and its
\* lease lies ahead.
LEMMA ExecutionFacts ==
    ASSUME WorkerInv, NEW v \in Workers, phase[v] = "executing"
    PROVE  /\ held[v] # NoClaim
           /\ held[v].job \in Jobs
           /\ held[v].token \in Nat
           /\ Current(held[v])
           /\ jobs[held[v].job].lease > now
           /\ now <= Deadline(v)
<1>1. TypeOK /\ held[v] # NoClaim
  BY DEF WorkerInv, WorkerTypeOK, StoreInv
<1>2. held[v].job \in Jobs /\ held[v].token \in Nat
  BY <1>1, HeldClaim
<1>3. /\ now <= Deadline(v)
      /\ Current(held[v])
      /\ jobs[held[v].job].lease > Deadline(v)
  BY DEF WorkerInv, ExecutionsLeased
<1>4. now \in Nat /\ Deadline(v) \in Nat /\ jobs[held[v].job].lease \in Nat
  BY <1>1, <1>2, WorkerAssumptions DEF WorkerInv, WorkerTypeOK, TypeOK, Row, Deadline
<1> QED
  BY <1>1, <1>2, <1>3, <1>4

\* Two executions are of two jobs.
LEMMA NoOverlapInv == WorkerInv => NoOverlap
<1> SUFFICES ASSUME WorkerInv, NEW v \in Workers, NEW w \in Workers, v # w,
                    phase[v] = "executing", phase[w] = "executing",
                    held[v].job = held[w].job
             PROVE  FALSE
  BY DEF NoOverlap
<1>1. Current(held[v]) /\ Current(held[w]) /\ held[v] # NoClaim /\ held[w] # NoClaim
  BY ExecutionFacts
<1>2. held[v].token = held[w].token
  BY <1>1 DEF Current
<1> QED
  BY <1>1, <1>2 DEF WorkerInv, StoreInv, HolderUnique

\* Nobody writes the row of an execution under way.
LEMMA RowKept ==
    ASSUME WorkerInv, WNext, NEW v \in Workers, phase[v] = "executing"
    PROVE  jobs'[held[v].job] = jobs[held[v].job]
<1> DEFINE j == held[v].job
<1>1. /\ held[v] # NoClaim /\ j \in Jobs /\ Current(held[v])
      /\ jobs[j].lease > now /\ jobs[j].status = "running"
      /\ StoreInv /\ TypeOK /\ [Next]_vars
  BY ExecutionFacts, StoreStep DEF WorkerInv, StoreInv, Current
<1>2. j \in Jobs /\ now \in Nat /\ jobs \in [Jobs -> Row]
  BY <1>1 DEF TypeOK
<1> HIDE DEF j
<1>3. ASSUME pc' # pc PROVE jobs'[j] = jobs[j]
  BY <1>1, <1>3, NextLeaseHonoured DEF LeaseHonouredStep
<1>4. ASSUME NEW w \in Workers, NEW acked \in BOOLEAN, Finalize(w, acked),
             phase[w] \in {"finalizing", "left"}
      PROVE  jobs'[j] = jobs[j]
  <2>1. held[w] # NoClaim /\ Current(held[w])
        /\ \A k \in Jobs \ {held[w].job} : jobs'[k] = jobs[k]
    BY <1>2, <1>4 DEF Finalize, MarkSucceeded, MarkFailed
  <2>2. v # w
    BY <1>4
  <2>3. held[w].job # j
    <3>1. SUFFICES ASSUME held[w].job = j PROVE FALSE
      OBVIOUS
    <3>2. held[w].token = held[v].token /\ held[w].job = held[v].job
      BY <1>1, <2>1, <3>1 DEF Current, j
    <3> QED
      BY <1>1, <2>1, <2>2, <3>2 DEF StoreInv, HolderUnique
  <2> QED
    BY <1>2, <2>1, <2>3
<1>5. ASSUME NEW w \in Workers, ClaimEffect(w) PROVE jobs'[j] = jobs[j]
  <2>1. pc' # pc
    BY <1>1, <1>5 DEF ClaimEffect, EndStatement, TypeOK
  <2> QED
    BY <1>3, <2>1
<1>6. ASSUME NEW k \in Jobs, EnqueueStep(k) \/ AdminStep(k) PROVE jobs'[j] = jobs[j]
  BY <1>1, <1>2, <1>6 DEF EnqueueStep, Enqueue, AdminStep, Retry, Cancel
<1> QED
  BY <1>4, <1>5, <1>6, RowSteps DEF j

\* A fresh claim is leased beyond the timeout of its execution, however long its
\* statement took, and the execution ends before its lease.
LEMMA NextExecutions ==
    ASSUME WorkerInv, WNext, TypeOK', NEW v \in Workers, phase'[v] = "executing"
    PROVE  /\ now' <= Deadline(v)'
           /\ Current(held[v])'
           /\ jobs'[held'[v].job].lease > Deadline(v)'
<1>1. /\ StoreInv /\ TypeOK
      /\ now \in Nat /\ MaxStall \in Nat /\ ExecTimeout \in Nat /\ LeaseDuration \in Nat
      /\ at[v] \in Nat
  BY WorkerAssumptions, StoreAssumptions DEF WorkerInv, StoreInv, TypeOK
<1>2. CASE /\ phase[v] = "executing"
           /\ held'[v] = held[v]
           /\ started'[v] = started[v]
  <2>1. /\ Current(held[v]) /\ now <= Deadline(v)
        /\ jobs[held[v].job].lease > Deadline(v)
    BY <1>2 DEF WorkerInv, ExecutionsLeased
  <2>2. jobs'[held[v].job] = jobs[held[v].job]
    BY <1>2, RowKept
  <2>3. Deadline(v)' = Deadline(v)
    BY <1>2 DEF Deadline
  <2>4. now' <= Deadline(v)
    <3>1. CASE Clock
      <4>1. now' = now + 1 /\ now < Deadline(v)
        BY <1>2, <3>1 DEF Clock, Punctual, Tick
      <4>2. Deadline(v) \in Nat
        BY <1>1 DEF Deadline, WorkerInv, WorkerTypeOK
      <4> QED
        BY <1>1, <4>1, <4>2
    <3> QED
      BY <2>1, <3>1, TimeStands
  <2> QED
    BY <1>2, <2>1, <2>2, <2>3, <2>4 DEF Current
<1>3. CASE ClaimReturns(v) /\ granted[v] /\ started'[v] = now
  <2>1. PICK j \in Jobs, c \in Claim :
              /\ jobs'[j] = ClaimedRow(jobs[j], at[v], issued[j] + 1)
              /\ issued'[j] = issued[j] + 1
              /\ held' = [held EXCEPT ![v] = c]
              /\ c.job = j
              /\ c.token = issued'[j]
    BY <1>1, <1>3, ClaimGiven DEF ClaimReturns
  <2>2. held'[v] = c
    BY <1>1, <2>1 DEF TypeOK
  <2>3. /\ jobs'[j].status = "running"
        /\ jobs'[j].token = issued[j] + 1
        /\ jobs'[j].lease = at[v] + LeaseDuration
    BY <1>1, <2>1 DEF ClaimedRow, TypeOK, Row
  <2>4. now' = now /\ now <= at[v] + MaxStall
    BY <1>3 DEF ClaimReturns, ClaimCommit, ClaimEffect, WorkerInv, StatementsPunctual
  <2>5. Deadline(v)' = now + ExecTimeout
    BY <1>3 DEF Deadline
  <2>6. Current(held[v])'
    BY <2>1, <2>2, <2>3 DEF Current
  <2>7. at[v] + LeaseDuration > now + ExecTimeout
    BY <1>1, <2>4, LeaseOutlivesExecution
  <2> QED
    BY <1>1, <2>1, <2>2, <2>3, <2>4, <2>5, <2>6, <2>7
<1> QED
  BY <1>2, <1>3, ExecutionStep

-----------------------------------------------------------------------------
(* Requests at the agent *)

\* Requests that reached the agent or still may, and the sendings there were.
Requests(j) == effects[j] + orphans[j]
Sendings(j) == issued[j] + resent[j]

\* Claims are only ever added.
LEMMA IssuedGrows ==
    ASSUME TypeOK, [Next]_vars, NEW j \in Jobs
    PROVE  issued'[j] >= issued[j]
<1>1. ASSUME NEW w \in Workers, ClaimEffect(w) PROVE issued'[j] >= issued[j]
  BY <1>1 DEF ClaimEffect, TypeOK
<1>2. CASE issued' = issued
  BY <1>2 DEF TypeOK
<1>3. ASSUME NEW w \in Workers, WorkerStep(w), ~ClaimEffect(w) PROVE issued' = issued
  BY <1>3 DEF WorkerStep, ClaimCall, ClaimSnapshot, ClaimLock, ClaimCommit,
      ClaimCommitLost, ClaimAbort, MarkSucceeded, MarkFailed, FinalizeRejected, Abandon
<1>4. ASSUME NEW k \in Jobs, EnqueueStep(k) \/ AdminStep(k) PROVE issued' = issued
  BY <1>4 DEF EnqueueStep, Enqueue, AdminStep, Retry, Cancel
<1>5. ASSUME Tick \/ UNCHANGED vars PROVE issued' = issued
  BY <1>5 DEF Tick, vars
<1> QED
  BY <1>1, <1>2, <1>3, <1>4, <1>5 DEF Next

\* The steps that touch what the agent has or may still get.
LEMMA AgentSteps ==
    ASSUME WNext
    PROVE  \/ UNCHANGED <<effects, orphans, resent>>
           \/ \E w \in Workers : AgentPerforms(w) \/ Resend(w)
           \/ \E w \in Workers : /\ phase[w] = "executing"
                                 /\ phase' = [phase EXCEPT ![w] = "polling"]
                                    \/ phase' = [phase EXCEPT ![w] = "stopped"]
                                 /\ Abandon(w)
                                 /\ Orphaned(w)
                                 /\ UNCHANGED <<effects, resent>>
           \/ \E j \in Jobs : OrphanPerforms(j)
<1>1. ASSUME NEW w \in Workers, Loop(w), ~AgentPerforms(w)
      PROVE  \/ UNCHANGED <<effects, orphans, resent>>
             \/ /\ phase[w] = "executing"
                /\ phase' = [phase EXCEPT ![w] = "polling"]
                /\ Abandon(w)
                /\ Orphaned(w)
                /\ UNCHANGED <<effects, resent>>
  <2>1. ASSUME NEW o \in Outcomes, LeaveLeased(w, o)
        PROVE  /\ phase[w] = "executing"
               /\ phase' = [phase EXCEPT ![w] = "polling"]
               /\ Abandon(w)
               /\ Orphaned(w)
               /\ UNCHANGED <<effects, resent>>
    BY <2>1 DEF LeaveLeased, Reset
  <2>2. ASSUME NEW o \in Outcomes, ExecuteReturns(w, o)
        PROVE  UNCHANGED <<effects, orphans, resent>>
    BY <2>2 DEF ExecuteReturns, agentVars
  <2>3. CASE Poll(w) \/ ClaimRuns(w) \/ ClaimReturns(w) \/ LoopExits(w)
    BY <2>3 DEF Poll, ClaimRuns, ClaimReturns, LoopExits, agentVars
  <2>4. CASE FinalizeAcked(w) \/ FinalizeInvalid(w) \/ FinalizeUnanswered(w) \/ GiveUp(w)
    BY <2>4 DEF FinalizeAcked, FinalizeInvalid, FinalizeUnanswered, GiveUp, agentVars
  <2> QED
    BY <1>1, <2>1, <2>2, <2>3, <2>4 DEF Loop
<1>2. ASSUME NEW w \in Workers, Process(w), ~Resend(w)
      PROVE  \/ UNCHANGED <<effects, orphans, resent>>
             \/ /\ phase[w] = "executing"
                /\ phase' = [phase EXCEPT ![w] = "stopped"]
                /\ Abandon(w)
                /\ Orphaned(w)
                /\ UNCHANGED <<effects, resent>>
  BY <1>2 DEF Process, ServerClaims, ServerFinalizes, ClaimFails, StopClaims, StopActions,
      Crash, Restart, Reset, agentVars
<1>3. ASSUME NEW j \in Jobs, Client(j) PROVE UNCHANGED <<effects, orphans, resent>>
  BY <1>3 DEF Client, agentVars
<1>4. CASE Clock
  BY <1>4 DEF Clock, agentVars
<1> QED
  BY <1>1, <1>2, <1>3, <1>4 DEF WNext

\* The agent performs what was sent under a claim it had not performed yet, or a
\* request it already had; an abandoned call leaves at most its own request behind.
LEMMA RequestStep ==
    ASSUME WorkerInv, WNext, TypeOK', NEW j \in Jobs
    PROVE  /\ effects'[j] >= effects[j]
           /\ \/ Requests(j)' <= Requests(j) /\ Sendings(j)' >= Sendings(j)
              \/ \E w \in Workers : /\ phase[w] = "executing" /\ ~applied[w]
                                    /\ held[w].job = j
                                    /\ phase'[w] # "executing" \/ applied'[w]
                                    /\ Requests(j)' = Requests(j) + 1
                                    /\ Sendings(j)' >= Sendings(j)
<1>1. /\ TypeOK /\ [Next]_vars
      /\ effects \in [Jobs -> Nat] /\ orphans \in [Jobs -> Nat] /\ resent \in [Jobs -> Nat]
      /\ issued \in [Jobs -> Nat] /\ issued' \in [Jobs -> Nat]
      /\ applied \in [Workers -> BOOLEAN]
      /\ phase \in [Workers -> {"polling", "executing", "finalizing", "left", "stopped"}]
  BY StoreStep DEF WorkerInv, StoreInv, WorkerTypeOK, TypeOK
<1>2. issued'[j] >= issued[j]
  BY <1>1, IssuedGrows
<1>3. CASE UNCHANGED <<effects, orphans, resent>>
  BY <1>1, <1>2, <1>3 DEF Requests, Sendings
<1>4. ASSUME NEW w \in Workers, AgentPerforms(w)
      PROVE  /\ effects'[j] >= effects[j]
             /\ \/ Requests(j)' <= Requests(j) /\ Sendings(j)' >= Sendings(j)
                \/ /\ phase[w] = "executing" /\ ~applied[w]
                   /\ held[w].job = j
                   /\ phase'[w] # "executing" \/ applied'[w]
                   /\ Requests(j)' = Requests(j) + 1
                   /\ Sendings(j)' >= Sendings(j)
  <2>1. /\ phase[w] = "executing" /\ ~applied[w] /\ applied'[w]
        /\ effects' = [effects EXCEPT ![held[w].job] = @ + 1]
        /\ UNCHANGED <<orphans, resent>>
    BY <1>1, <1>4 DEF AgentPerforms
  <2>2. CASE held[w].job = j
    <3>1. effects'[j] = effects[j] + 1
      BY <1>1, <2>1, <2>2
    <3> QED
      BY <1>1, <1>2, <2>1, <2>2, <3>1 DEF Requests, Sendings
  <2>3. CASE held[w].job # j
    <3>1. effects'[j] = effects[j]
      BY <1>1, <2>1, <2>3
    <3> QED
      BY <1>1, <1>2, <2>1, <3>1 DEF Requests, Sendings
  <2> QED
    BY <2>2, <2>3
<1>5. ASSUME NEW w \in Workers, Resend(w)
      PROVE  /\ effects'[j] >= effects[j]
             /\ Requests(j)' <= Requests(j) /\ Sendings(j)' >= Sendings(j)
  <2>1. /\ resent' = [resent EXCEPT ![held[w].job] = @ + 1]
        /\ UNCHANGED <<effects, orphans>>
    BY <1>5 DEF Resend
  <2>2. resent'[j] >= resent[j] /\ resent'[j] \in Nat
    BY <1>1, <2>1
  <2> QED
    BY <1>1, <1>2, <2>1, <2>2 DEF Requests, Sendings
<1>6. ASSUME NEW w \in Workers, phase[w] = "executing",
             phase' = [phase EXCEPT ![w] = "polling"]
               \/ phase' = [phase EXCEPT ![w] = "stopped"],
             Orphaned(w), UNCHANGED <<effects, resent>>
      PROVE  /\ effects'[j] >= effects[j]
             /\ \/ Requests(j)' <= Requests(j) /\ Sendings(j)' >= Sendings(j)
                \/ /\ phase[w] = "executing" /\ ~applied[w]
                   /\ held[w].job = j
                   /\ phase'[w] # "executing" \/ applied'[w]
                   /\ Requests(j)' = Requests(j) + 1
                   /\ Sendings(j)' >= Sendings(j)
  <2>1. phase'[w] # "executing"
    BY <1>1, <1>6
  <2>2. CASE orphans' = orphans
    BY <1>1, <1>2, <1>6, <2>2 DEF Requests, Sendings
  <2>3. CASE ~applied[w] /\ orphans' = [orphans EXCEPT ![held[w].job] = @ + 1]
    <3>1. CASE held[w].job = j
      <4>1. orphans'[j] = orphans[j] + 1
        BY <1>1, <2>3, <3>1
      <4> QED
        BY <1>1, <1>2, <1>6, <2>1, <2>3, <3>1, <4>1 DEF Requests, Sendings
    <3>2. CASE held[w].job # j
      <4>1. orphans'[j] = orphans[j]
        BY <1>1, <2>3, <3>2
      <4> QED
        BY <1>1, <1>2, <1>6, <4>1 DEF Requests, Sendings
    <3> QED
      BY <3>1, <3>2
  <2> QED
    BY <1>6, <2>2, <2>3 DEF Orphaned
<1>7. ASSUME NEW k \in Jobs, OrphanPerforms(k)
      PROVE  /\ effects'[j] >= effects[j]
             /\ Requests(j)' <= Requests(j) /\ Sendings(j)' >= Sendings(j)
  BY <1>1, <1>2, <1>7 DEF OrphanPerforms, Requests, Sendings
<1> QED
  BY <1>3, <1>4, <1>5, <1>6, <1>7, AgentSteps

\* What a worker knows of its call changes when the agent performs it, when it is
\* sent again and when the worker is done with its claim.
LEMMA AppliedStep ==
    ASSUME WorkerInv, WNext, NEW v \in Workers
    PROVE  \/ applied'[v] = applied[v] /\ (phase'[v] = phase[v] \/ ~applied[v])
           \/ applied'[v] = applied[v] /\ phase'[v] \in {"executing", "finalizing"}
           \/ applied'[v] = FALSE /\ phase'[v] \notin {"executing", "finalizing"}
           \/ AgentPerforms(v)
           \/ Resend(v)
<1>1. /\ applied \in [Workers -> BOOLEAN]
      /\ phase \in [Workers -> {"polling", "executing", "finalizing", "left", "stopped"}]
      /\ applied[v] => phase[v] \in {"executing", "finalizing"}
  BY DEF WorkerInv, WorkerTypeOK, RequestsCounted
<1> DEFINE Goal == \/ applied'[v] = applied[v] /\ (phase'[v] = phase[v] \/ ~applied[v])
                   \/ applied'[v] = applied[v] /\ phase'[v] \in {"executing", "finalizing"}
                   \/ applied'[v] = FALSE /\ phase'[v] \notin {"executing", "finalizing"}
<1>2. ASSUME NEW w \in Workers, NEW next, Reset(w, next), next \in {"polling", "stopped"}
      PROVE  Goal
  BY <1>1, <1>2 DEF Reset, AtRest
<1>8. ASSUME NEW w \in Workers, LeaveBehind(w) \/ MoveOn(w),
             phase[w] \in {"polling", "finalizing"}
      PROVE  Goal
  <2>1. applied' = [applied EXCEPT ![w] = FALSE] /\ phase'[w] = "left"
        /\ \A u \in Workers \ {w} : phase'[u] = phase[u] \/ phase[u] = "stopped"
    BY <1>8, LeftBehind DEF WorkerInv
  <2> QED
    BY <1>1, <2>1
<1>3. ASSUME NEW w \in Workers, Loop(w), ~AgentPerforms(w) PROVE Goal
  <2>1. CASE Poll(w) \/ ClaimRuns(w)
    BY <2>1 DEF Poll, ClaimRuns, loopVars
  <2>2. CASE ClaimReturns(w)
    BY <1>1, <2>2 DEF ClaimReturns, loopVars
  <2>3. CASE LoopExits(w)
    BY <1>2, <1>8, <2>3 DEF LoopExits
  <2>4. ASSUME NEW o \in Outcomes, ExecuteReturns(w, o) PROVE Goal
    BY <1>1, <2>4 DEF ExecuteReturns
  <2>5. ASSUME NEW o \in Outcomes, LeaveLeased(w, o) PROVE Goal
    BY <1>2, <2>5 DEF LeaveLeased
  <2>6. CASE FinalizeAcked(w) \/ FinalizeInvalid(w) \/ GiveUp(w)
    BY <1>2, <1>8, <2>6 DEF FinalizeAcked, FinalizeInvalid, GiveUp
  <2>7. CASE FinalizeUnanswered(w)
    BY <2>7 DEF FinalizeUnanswered
  <2> QED
    BY <1>3, <2>1, <2>2, <2>3, <2>4, <2>5, <2>6, <2>7 DEF Loop
<1>4. ASSUME NEW w \in Workers, Process(w), ~Resend(w) PROVE Goal
  <2>1. CASE Crash(w)
    <3>1. LeaveBehind(w) => phase[w] \in {"polling", "finalizing"}
      BY <1>1, <2>1 DEF Crash, Running, LeaveBehind, WorkerInv, StatementsPunctual
    <3> QED
      BY <1>2, <1>8, <2>1, <3>1 DEF Crash
  <2>2. CASE Restart(w)
    BY <1>1, <2>2 DEF Restart
  <2>3. CASE ClaimFails(w) \/ StopClaims(w) \/ StopActions(w)
    BY <1>8, <2>3 DEF ClaimFails, StopClaims, StopActions, loopVars
  <2>4. CASE ServerClaims(w) \/ ServerFinalizes(w)
    BY <1>2, <2>4 DEF ServerClaims, ServerFinalizes, loopVars
  <2> QED
    BY <1>4, <2>1, <2>2, <2>3, <2>4 DEF Process
<1>5. ASSUME NEW j \in Jobs, Client(j) \/ OrphanPerforms(j) PROVE Goal
  BY <1>5 DEF Client, OrphanPerforms, loopVars
<1>6. CASE Clock
  BY <1>6 DEF Clock, loopVars
<1>7. ASSUME NEW w \in Workers, AgentPerforms(w) \/ Resend(w), w # v PROVE Goal
  BY <1>1, <1>7 DEF AgentPerforms, Resend
<1> QED
  BY <1>3, <1>4, <1>5, <1>6, <1>7 DEF WNext, Loop, Process

\* A worker finalizes what it was told at the end of its execution, and so does the
\* session it leaves behind.
LEMMA FinalizationStep ==
    ASSUME WorkerInv, WNext, NEW v \in Workers,
           phase'[v] \in {"finalizing", "left"}, held'[v] # NoClaim
    PROVE  \/ /\ phase[v] \in {"finalizing", "left"}
              /\ held'[v] = held[v]
              /\ outcome'[v] = outcome[v]
           \/ \E o \in Outcomes \ {"none"} :
                 ExecuteReturns(v, o) /\ outcome'[v] = o /\ held'[v] = held[v]
<1> DEFINE Kept == /\ phase[v] \in {"finalizing", "left"}
                   /\ held'[v] = held[v]
                   /\ outcome'[v] = outcome[v]
<1>1. /\ phase \in [Workers -> {"polling", "executing", "finalizing", "left", "stopped"}]
      /\ outcome \in [Workers -> Outcomes] /\ held \in [Workers -> Claim \cup {NoClaim}]
      /\ \A w \in Workers : pc[w] # "idle" => held[w] = NoClaim
      /\ \A w \in Workers : pc[w] # "idle" => phase[w] \in {"polling", "left"}
  BY DEF WorkerInv, StoreInv, TypeOK, WorkerTypeOK, StatementsPunctual
<1>2. ASSUME NEW w \in Workers, LeaveBehind(w) \/ MoveOn(w),
             phase[w] \in {"polling", "finalizing"}
      PROVE  Kept
  <2>1. /\ held' = held /\ outcome' = outcome
        /\ \A u \in Workers \ {w} : phase'[u] = phase[u] \/ phase'[u] = "polling"
    BY <1>2, LeftBehind DEF WorkerInv, vars
  <2>2. v = w => phase[v] = "finalizing"
    BY <1>1, <1>2, <2>1 DEF LeaveBehind, MoveOn
  <2> QED
    BY <2>1, <2>2
<1>3. ASSUME NEW w \in Workers, ClaimReturns(w) PROVE Kept
  <2>1. \A u \in Workers \ {w} : phase'[u] = phase[u] /\ outcome'[u] = outcome[u]
                                 /\ held'[u] = held[u]
    BY <1>1, <1>3 DEF ClaimReturns, ClaimCommit, loopVars
  <2> QED
    BY <1>1, <1>3, <2>1 DEF ClaimReturns, loopVars
<1>4. ASSUME NEW w \in Workers, Poll(w) \/ ClaimRuns(w) \/ AgentPerforms(w)
      PROVE  Kept
  BY <1>1, <1>4 DEF Poll, ClaimCall, ClaimRuns, ClaimSnapshot, ClaimLock,
      AgentPerforms, loopVars, vars
<1>5. ASSUME NEW w \in Workers, LoopExits(w) PROVE Kept
  BY <1>1, <1>2, <1>5 DEF LoopExits, Reset, vars
<1>6. ASSUME NEW w \in Workers, NEW o \in Outcomes, LeaveLeased(w, o) PROVE Kept
  BY <1>1, <1>6 DEF LeaveLeased, Abandon, Reset
<1>7. ASSUME NEW w \in Workers, NEW o \in Outcomes, ExecuteReturns(w, o)
      PROVE  Kept \/ (w = v /\ outcome'[v] = o /\ held'[v] = held[v])
  BY <1>1, <1>7 DEF ExecuteReturns, vars
<1>8. ASSUME NEW w \in Workers, FinalizeAcked(w) \/ FinalizeUnanswered(w)
      PROVE  Kept
  BY <1>1, <1>8 DEF FinalizeAcked, FinalizeUnanswered, Finalize, MarkSucceeded,
      MarkFailed, Answer, Reset, vars
<1>9. ASSUME NEW w \in Workers, FinalizeInvalid(w) \/ GiveUp(w)
      PROVE  Kept
  <2>1. CASE MoveOn(w)
    BY <1>1, <1>2, <1>9, <2>1 DEF FinalizeInvalid, GiveUp
  <2>2. CASE ~MoveOn(w)
    BY <1>1, <1>9, <2>2 DEF FinalizeInvalid, FinalizeRejected, GiveUp, Abandon, Reset
  <2> QED
    BY <2>1, <2>2
<1>10. ASSUME NEW w \in Workers, ClaimFails(w) PROVE Kept
  BY <1>1, <1>2, <1>10 DEF ClaimFails, ClaimCommitLost, ClaimAbort, loopVars
<1>11. ASSUME NEW w \in Workers, Resend(w) \/ StopClaims(w) \/ StopActions(w) \/ Restart(w)
       PROVE  Kept
  BY <1>1, <1>11 DEF Resend, StopClaims, StopActions, Restart, vars
<1>12. ASSUME NEW w \in Workers, Crash(w) PROVE Kept
  <2>1. CASE LeaveBehind(w)
    <3>1. phase[w] \in {"polling", "finalizing"}
      BY <1>1, <1>12, <2>1 DEF Crash, Running, LeaveBehind
    <3> QED
      BY <1>2, <2>1, <3>1
  <2>2. CASE ~LeaveBehind(w)
    BY <1>1, <1>12, <2>2 DEF Crash, Abandon, Reset, vars
  <2> QED
    BY <2>1, <2>2
<1>13. ASSUME NEW w \in Workers, ServerClaims(w) \/ ServerFinalizes(w) PROVE Kept
  <2>1. CASE ServerClaims(w)
    BY <1>1, <2>1 DEF ServerClaims, ClaimSnapshot, ClaimLock, ClaimCommitLost, ClaimAbort,
        Reset, loopVars
  <2>2. CASE ServerFinalizes(w)
    BY <1>1, <2>2 DEF ServerFinalizes, Finalize, MarkSucceeded, MarkFailed, Answer,
        FinalizeRejected, Abandon, Reset
  <2> QED
    BY <1>13, <2>1, <2>2
<1>14. ASSUME NEW j \in Jobs, Client(j) \/ OrphanPerforms(j)
       PROVE  Kept
  BY <1>14 DEF Client, EnqueueStep, Enqueue, AdminStep, Retry, Cancel, OrphanPerforms,
      vars, loopVars
<1>15. CASE Clock
  BY <1>15 DEF Clock, Tick, loopVars
<1> QED
  BY <1>3, <1>4, <1>5, <1>6, <1>7, <1>8, <1>9, <1>10, <1>11, <1>12, <1>13, <1>14, <1>15
     DEF WNext, Loop, Process

\* Only a finalization of a result makes a job succeed.
LEMMA SuccessStep ==
    ASSUME WorkerInv, WNext, NEW j \in Jobs,
           jobs[j].status # "succeeded", jobs'[j].status = "succeeded"
    PROVE  \E w \in Workers : /\ phase[w] \in {"finalizing", "left"}
                              /\ outcome[w] = "done"
                              /\ held[w] # NoClaim /\ held[w].job = j
<1>1. /\ StoreInv /\ TypeOK /\ jobs \in [Jobs -> Row] /\ jobs[j] \in Row
      /\ \A w \in Workers : held[w] # NoClaim => held[w].job \in Jobs
  BY HeldClaim DEF WorkerInv, StoreInv, TypeOK
<1>2. ASSUME NEW w \in Workers, ClaimEffect(w) PROVE FALSE
  <2>1. \/ jobs'[j] = ExpiredRow(jobs[j])
        \/ jobs'[j] = ClaimedRow(jobs[j], at[w], issued[j] + 1)
        \/ jobs'[j] = jobs[j]
    BY <1>1, <1>2 DEF ClaimEffect
  <2> QED
    BY <1>1, <2>1 DEF ExpiredRow, ClaimedRow, Row
<1>3. ASSUME NEW w \in Workers, NEW acked \in BOOLEAN, Finalize(w, acked)
      PROVE  outcome[w] = "done" /\ held[w] # NoClaim /\ held[w].job = j
  <2>1. ASSUME outcome[w] = "done", NEW errors, MarkSucceeded(w, errors, acked)
        PROVE  held[w] # NoClaim /\ held[w].job = j
    BY <1>1, <2>1 DEF MarkSucceeded
  <2>2. ASSUME NEW p \in BOOLEAN, NEW b, MarkFailed(w, p, b, acked)
        PROVE  FALSE
    <3>1. jobs'[j] = jobs[j] \/ jobs'[j] = FailedRow(jobs[j], held[w], p, b)
      BY <1>1, <2>2 DEF MarkFailed
    <3>2. ASSUME NEW row \in Row, NEW next, NEW time
          PROVE  [row EXCEPT !.status = next, !.runAfter = time, !.retryable = ~p,
                             !.token = 0, !.lease = 0].status = next
      BY DEF Row
    <3>3. FailedRow(jobs[j], held[w], p, b).status # "succeeded"
      BY <1>1, <3>2 DEF FailedRow
    <3> QED
      BY <3>1, <3>3
  <2> QED
    BY <1>3, <2>1, <2>2 DEF Finalize
<1>4. ASSUME NEW k \in Jobs, EnqueueStep(k) \/ AdminStep(k) PROVE FALSE
  <2>1. CASE EnqueueStep(k)
    BY <1>1, <2>1 DEF EnqueueStep, Enqueue
  <2>2. CASE Retry(k) \/ Cancel(k)
    <3>1. jobs'[j] \in {jobs[j], RetriedRow(jobs[j]), CancelledRow(jobs[j])}
      BY <1>1, <2>2 DEF Retry, Cancel
    <3> QED
      BY <1>1, <3>1 DEF RetriedRow, CancelledRow, Row
  <2> QED
    BY <1>4, <2>1, <2>2 DEF AdminStep
<1> QED
  BY <1>2, <1>3, <1>4, RowSteps

\* Every request has a claim or a sending of its own, and what is or will be recorded
\* as a success was performed.
LEMMA NextRequests ==
    ASSUME WorkerInv, WNext, TypeOK'
    PROVE  RequestsCounted'
<1>1. /\ TypeOK /\ [Next]_vars /\ RequestsCounted /\ NoOverlap
      /\ applied \in [Workers -> BOOLEAN]
      /\ phase \in [Workers -> {"polling", "executing", "finalizing", "left", "stopped"}]
  BY StoreStep, NoOverlapInv DEF WorkerInv, StoreInv, WorkerTypeOK
<1>2. ASSUME NEW j \in Jobs
      PROVE  /\ effects[j] \in Nat /\ effects'[j] \in Nat
             /\ Requests(j) \in Nat /\ Requests(j)' \in Nat
             /\ Sendings(j) \in Nat /\ Sendings(j)' \in Nat
             /\ Requests(j) <= Sendings(j)
  <2>1. WorkerTypeOK /\ WorkerTypeOK' /\ issued[j] \in Nat /\ issued'[j] \in Nat
    <3>1. WorkerTypeOK'
      BY LoopTypes, OtherTypes DEF WNext, WorkerInv
    <3> QED
      BY <1>1, <3>1 DEF WorkerInv, TypeOK
  <2>2. Requests(j) <= Sendings(j)
    BY <1>1 DEF RequestsCounted, SuccessWasPerformed, Requests, Sendings
  <2> QED
    BY <2>1, <2>2 DEF WorkerTypeOK, Requests, Sendings
<1>3. ASSUME NEW w \in Workers, phase[w] = "executing"
      PROVE  /\ held[w].job \in Jobs
             /\ ~applied[w] => Requests(held[w].job) < Sendings(held[w].job)
             /\ applied[w] => effects[held[w].job] >= 1
  BY <1>1, <1>3, ExecutionFacts DEF RequestsCounted, Requests, Sendings
<1>4. ASSUME NEW j \in Jobs PROVE Requests(j)' <= Sendings(j)'
  BY <1>2, <1>3, RequestStep
<1>5. ASSUME NEW j \in Jobs, jobs'[j].status = "succeeded" PROVE effects'[j] >= 1
  <2>1. effects[j] >= 1
    <3>1. CASE jobs[j].status = "succeeded"
      BY <1>1, <3>1 DEF RequestsCounted, SuccessWasPerformed
    <3>2. CASE jobs[j].status # "succeeded"
      <4>1. PICK w \in Workers : /\ phase[w] \in {"finalizing", "left"}
                                 /\ outcome[w] = "done"
                                 /\ held[w] # NoClaim /\ held[w].job = j
        BY <1>5, <3>2, SuccessStep
      <4> QED
        BY <1>1, <4>1 DEF RequestsCounted, Results
    <3> QED
      BY <3>1, <3>2
  <2> QED
    BY <1>2, <2>1, RequestStep
<1>6. ASSUME NEW v \in Workers, phase'[v] = "executing"
      PROVE  /\ ~applied'[v] => Requests(held[v].job)' < Sendings(held[v].job)'
             /\ applied'[v] => effects'[held'[v].job] >= 1
  <2>1. CASE phase[v] = "executing" /\ held'[v] = held[v]
    <3>1. PICK j \in Jobs : /\ j = held[v].job
                            /\ ~applied[v] => Requests(j) < Sendings(j)
                            /\ applied[v] => effects[j] >= 1
      BY <1>3, <2>1
    <3>2. held'[v].job = j
      BY <2>1, <3>1
    <3>3. effects'[j] >= effects[j]
      BY <3>1, RequestStep
    <3>4. ASSUME AgentPerforms(v) PROVE applied'[v] /\ effects'[j] >= 1
      BY <1>1, <1>2, <3>1, <3>4 DEF AgentPerforms, WorkerInv, WorkerTypeOK
    <3>5. ASSUME Resend(v) PROVE ~applied'[v] /\ Requests(j)' < Sendings(j)'
      <4>1. /\ applied' = [applied EXCEPT ![v] = FALSE]
            /\ resent' = [resent EXCEPT ![j] = @ + 1]
            /\ UNCHANGED <<effects, orphans, issued>>
        BY <3>1, <3>5 DEF Resend, vars
      <4>2. resent \in [Jobs -> Nat] /\ issued[j] \in Nat
        BY <1>1, <3>1 DEF WorkerInv, WorkerTypeOK, TypeOK
      <4>3. resent'[j] = resent[j] + 1
        BY <3>1, <4>1, <4>2
      <4>4. Requests(j)' = Requests(j) /\ Sendings(j)' = Sendings(j) + 1
        BY <4>1, <4>2, <4>3 DEF Requests, Sendings
      <4> QED
        BY <1>1, <1>2, <3>1, <4>1, <4>4
    <3>6. ASSUME applied'[v] = applied[v], ~applied[v]
          PROVE  Requests(j)' < Sendings(j)'
      <4>1. ASSUME NEW w \in Workers, phase[w] = "executing", held[w].job = j,
                   phase'[w] # "executing" \/ applied'[w]
            PROVE  FALSE
        <5>1. w # v
          BY <1>6, <3>6, <4>1
        <5> QED
          BY <1>1, <2>1, <3>1, <4>1, <5>1 DEF NoOverlap
      <4> QED
        BY <1>2, <3>1, <3>6, <4>1, RequestStep
    <3>7. CASE applied'[v] = applied[v]
      BY <1>2, <3>1, <3>2, <3>3, <3>6, <3>7 DEF Requests, Sendings
    <3>8. applied'[v] = applied[v] \/ AgentPerforms(v) \/ Resend(v)
      BY <1>6, AppliedStep
    <3> QED
      BY <3>2, <3>4, <3>5, <3>7, <3>8 DEF Requests, Sendings
  <2>2. CASE ClaimReturns(v) /\ granted[v]
    <3>1. PICK j \in Jobs, c \in Claim : /\ issued'[j] = issued[j] + 1
                                         /\ held' = [held EXCEPT ![v] = c]
                                         /\ c.job = j
      BY <2>2, ClaimGiven DEF ClaimReturns, WorkerInv
    <3>2. held'[v].job = j
      BY <1>1, <3>1 DEF TypeOK
    <3>3. UNCHANGED <<applied, effects, orphans, resent>>
      BY <2>2 DEF ClaimReturns, agentVars
    <3>4. ~applied[v]
      <4>1. phase[v] = "polling"
        BY <2>2 DEF ClaimReturns
      <4> QED
        BY <1>1, <4>1 DEF RequestsCounted
    <3>5. effects[j] \in Nat /\ orphans[j] \in Nat /\ resent[j] \in Nat /\ issued[j] \in Nat
      BY <1>1 DEF WorkerInv, WorkerTypeOK, TypeOK
    <3>6. Requests(j)' < Sendings(j)'
      BY <1>2, <3>1, <3>3, <3>5 DEF Requests, Sendings
    <3> QED
      BY <3>2, <3>3, <3>4, <3>6 DEF Requests, Sendings
  <2> QED
    BY <1>6, <2>1, <2>2, ExecutionStep
<1>7. ASSUME NEW v \in Workers, held'[v] # NoClaim,
             phase'[v] \in {"finalizing", "left"}, outcome'[v] \in Results
      PROVE  effects'[held'[v].job] >= 1
  <2>1. held'[v] = held[v] /\ effects[held[v].job] >= 1
    <3>1. CASE /\ phase[v] \in {"finalizing", "left"}
               /\ held'[v] = held[v] /\ outcome'[v] = outcome[v]
      BY <1>1, <1>7, <3>1 DEF RequestsCounted
    <3>2. ASSUME NEW o \in Outcomes, ExecuteReturns(v, o), outcome'[v] = o
          PROVE  effects[held[v].job] >= 1
      BY <1>3, <1>7, <3>2 DEF ExecuteReturns
    <3> QED
      BY <1>7, <3>1, <3>2, FinalizationStep
  <2>2. held[v].job \in Jobs
    <3>1. held[v] # NoClaim
      BY <1>7, <2>1
    <3> QED
      BY <1>1, <3>1, HeldClaim
  <2>3. effects'[held[v].job] >= effects[held[v].job]
    BY <2>2, RequestStep
  <2> QED
    BY <1>2, <2>1, <2>2, <2>3
<1>8. ASSUME NEW v \in Workers, applied'[v]
      PROVE  phase'[v] \in {"executing", "finalizing"}
  BY <1>1, <1>8, AppliedStep DEF RequestsCounted, AgentPerforms, Resend
<1> QED
  BY <1>4, <1>5, <1>6, <1>7, <1>8 DEF RequestsCounted, SuccessWasPerformed, Requests, Sendings

-----------------------------------------------------------------------------
(* Claims left leased *)

\* A claim is recorded as left leased by the step that leaves it.
LEMMA LostStep ==
    ASSUME WNext
    PROVE  \/ lost' = lost
           \/ \E w \in Workers :
                 /\ Abandon(w)
                 /\ lost' = [lost EXCEPT ![held[w].job] = @ \cup {held[w].token}]
<1>1. ASSUME NEW w \in Workers, Loop(w),
             ~ \E o \in Outcomes : LeaveLeased(w, o)
      PROVE  lost' = lost
  <2>1. ASSUME NEW o \in Outcomes, ExecuteReturns(w, o) PROVE lost' = lost
    BY <2>1 DEF ExecuteReturns, agentVars
  <2>2. CASE Poll(w) \/ ClaimRuns(w) \/ ClaimReturns(w) \/ LoopExits(w) \/ AgentPerforms(w)
    BY <2>2 DEF Poll, ClaimRuns, ClaimReturns, LoopExits, AgentPerforms, agentVars
  <2>3. CASE FinalizeAcked(w) \/ FinalizeInvalid(w) \/ FinalizeUnanswered(w) \/ GiveUp(w)
    BY <2>3 DEF FinalizeAcked, FinalizeInvalid, FinalizeUnanswered, GiveUp, agentVars
  <2> QED
    BY <1>1, <2>1, <2>2, <2>3 DEF Loop
<1>2. ASSUME NEW w \in Workers, NEW o \in Outcomes, LeaveLeased(w, o)
      PROVE  /\ Abandon(w)
             /\ lost' = [lost EXCEPT ![held[w].job] = @ \cup {held[w].token}]
  BY <1>2 DEF LeaveLeased
<1>3. ASSUME NEW w \in Workers, Process(w) PROVE lost' = lost
  BY <1>3 DEF Process, ServerClaims, ServerFinalizes, ClaimFails, Resend, StopClaims,
      StopActions, Crash, Restart, agentVars
<1>4. ASSUME NEW j \in Jobs, Client(j) \/ OrphanPerforms(j) PROVE lost' = lost
  BY <1>4 DEF Client, OrphanPerforms, agentVars
<1>5. CASE Clock
  BY <1>5 DEF Clock, agentVars
<1> QED
  BY <1>1, <1>2, <1>3, <1>4, <1>5 DEF WNext

\* Nobody holds a claim that was left leased: whoever left it let go of it, and a new
\* claim has a new token.
LEMMA NextLost ==
    ASSUME WorkerInv, WNext, TypeOK'
    PROVE  LostUnheld'
<1>1. /\ TypeOK /\ TypeOK' /\ [Next]_vars /\ LostUnheld
      /\ lost \in [Jobs -> SUBSET Nat]
      /\ issued \in [Jobs -> Nat] /\ issued' \in [Jobs -> Nat]
      /\ held \in [Workers -> Claim \cup {NoClaim}]
      /\ HolderUnique /\ ClaimsSound
  BY StoreStep DEF WorkerInv, StoreInv, WorkerTypeOK, TypeOK
<1>2. ASSUME NEW j \in Jobs PROVE issued'[j] >= issued[j]
  BY <1>1, IssuedGrows
<1>3. ASSUME NEW w \in Workers, held[w] # NoClaim
      PROVE  held[w].job \in Jobs /\ held[w].token \in Nat
             /\ held[w].token <= issued[held[w].job]
  BY <1>1, <1>3, HeldClaim DEF ClaimsSound
<1>4. CASE lost' = lost
  <2>1. ASSUME NEW j \in Jobs, NEW t \in lost'[j] PROVE t <= issued'[j]
    <3>1. t \in Nat /\ t <= issued[j]
      BY <1>1, <1>4, <2>1 DEF LostUnheld
    <3> QED
      BY <1>1, <1>2, <3>1
  <2>2. ASSUME NEW v \in Workers, held'[v] # NoClaim
        PROVE  held'[v].token \notin lost'[held'[v].job]
    <3>1. CASE held'[v] = held[v]
      BY <1>1, <1>4, <2>2, <3>1 DEF LostUnheld
    <3>2. CASE ClaimReturns(v) /\ granted[v]
      <4>1. PICK j \in Jobs, c \in Claim : /\ issued'[j] = issued[j] + 1
                                           /\ held' = [held EXCEPT ![v] = c]
                                           /\ c.job = j
                                           /\ c.token = issued'[j]
        BY <1>1, <3>2, ClaimGiven DEF ClaimReturns, WorkerInv
      <4>2. held'[v] = c
        BY <1>1, <4>1
      <4>3. \A t \in lost[j] : t \in Nat /\ t <= issued[j]
        BY <1>1 DEF LostUnheld
      <4>4. c.token \notin lost[j]
        BY <1>1, <4>1, <4>3
      <4> QED
        BY <1>4, <4>1, <4>2, <4>4
    <3> QED
      BY <1>1, <2>2, <3>1, <3>2, HeldStep
  <2> QED
    BY <2>1, <2>2 DEF LostUnheld
<1>5. ASSUME NEW w \in Workers, Abandon(w),
             lost' = [lost EXCEPT ![held[w].job] = @ \cup {held[w].token}]
      PROVE  LostUnheld'
  <2>1. /\ held[w] # NoClaim
        /\ \A v \in Workers : held'[v] = IF v = w THEN NoClaim ELSE held[v]
        /\ issued' = issued
    BY <1>1, <1>5 DEF Abandon
  <2>2. ASSUME NEW j \in Jobs
        PROVE  lost'[j] = IF j = held[w].job THEN lost[j] \cup {held[w].token} ELSE lost[j]
    BY <1>1, <1>3, <1>5, <2>1
  <2>3. ASSUME NEW j \in Jobs, NEW t \in lost'[j] PROVE t <= issued'[j]
    BY <1>1, <1>3, <2>1, <2>2, <2>3 DEF LostUnheld
  <2>4. ASSUME NEW v \in Workers, held'[v] # NoClaim
        PROVE  held'[v].token \notin lost'[held'[v].job]
    <3>1. v # w /\ held'[v] = held[v] /\ held[v] # NoClaim
      BY <2>1, <2>4
    <3>2. held[v].token \notin lost[held[v].job]
      BY <1>1, <3>1 DEF LostUnheld
    <3>3. held[v].job # held[w].job \/ held[v].token # held[w].token
      BY <1>1, <2>1, <3>1 DEF HolderUnique
    <3>4. held[v].job \in Jobs
      BY <1>3, <3>1
    <3> QED
      BY <2>2, <3>1, <3>2, <3>3, <3>4
  <2> QED
    BY <2>3, <2>4 DEF LostUnheld
<1> QED
  BY <1>4, <1>5, LostStep

-----------------------------------------------------------------------------
(* The theorems *)

\* Every step of the workers keeps the invariant.
LEMMA NextWorkerInv == WorkerInv /\ [WNext]_wvars => WorkerInv'
<1>1. ASSUME WorkerInv, UNCHANGED wvars PROVE WorkerInv'
  <2>1. UNCHANGED vars
    BY <1>1 DEF wvars
  <2>2. StoreInv'
    BY <1>1, <2>1, NextStoreInv DEF WorkerInv
  <2>3. WorkerTypeOK' /\ LostUnheld'
    BY <1>1 DEF WorkerInv, wvars, vars, loopVars, agentVars, WorkerTypeOK, LostUnheld
  <2>4. ClaimsBounded' /\ StatementsPunctual'
    BY <1>1 DEF WorkerInv, wvars, vars, claimVars, loopVars, ClaimsBounded,
                StatementsPunctual
  <2>5. ExecutionsLeased'
    BY <1>1 DEF WorkerInv, wvars, vars, loopVars, ExecutionsLeased, Current, Deadline
  <2>6. RequestsCounted'
    BY <1>1 DEF WorkerInv, wvars, vars, loopVars, agentVars, RequestsCounted,
                SuccessWasPerformed
  <2> QED
    BY <2>2, <2>3, <2>4, <2>5, <2>6 DEF WorkerInv
<1>2. ASSUME WorkerInv, WNext PROVE WorkerInv'
  <2>1. StoreInv' /\ TypeOK'
    BY <1>2, StoreStep, NextStoreInv DEF WorkerInv, StoreInv
  <2>2. WorkerTypeOK'
    BY <1>2, <2>1, LoopTypes, OtherTypes DEF WNext, WorkerInv
  <2>3. ClaimsBounded'
    BY <1>2, <2>1, NextClaimsBounded
  <2>4. StatementsPunctual'
    BY <1>2, NextStatements DEF StatementsPunctual
  <2>5. ExecutionsLeased'
    BY <1>2, <2>1, NextExecutions DEF ExecutionsLeased
  <2>6. RequestsCounted' /\ LostUnheld'
    BY <1>2, <2>1, NextRequests, NextLost
  <2> QED
    BY <2>1, <2>2, <2>3, <2>4, <2>5, <2>6 DEF WorkerInv
<1> QED
  BY <1>1, <1>2

\* Whatever crashes, is lost, cut off or sent again, the claims, timeouts and requests
\* of all workers stay consistent with the rows of the queue.
THEOREM WorkerInvariant == WSpec => []WorkerInv
BY InitWorkerInv, NextWorkerInv, PTL DEF WSpec

\* runOnce only ever does to the queue what the queue allows: all that is proved of
\* the store holds of it under the workers.
THEOREM WorkersUseStore == WSpec => Spec
<1>1. WInit => Init
  BY DEF WInit
<1>2. WorkerInv => ClaimsBounded
  BY DEF WorkerInv
<1> QED
  BY <1>1, <1>2, StoreStep, WorkerInvariant, PTL DEF WSpec, Spec

\* Execution timeout and lease keep two workers from executing one job.
THEOREM NoOverlapTheorem == WSpec => []NoOverlap
BY WorkerInvariant, NoOverlapInv, PTL

\* What runOnce records as succeeded was performed, and a claim sends at most once.
THEOREM SuccessTheorem == WSpec => []SuccessWasPerformed
<1>1. WorkerInv => SuccessWasPerformed
  BY DEF WorkerInv, RequestsCounted
<1> QED
  BY <1>1, WorkerInvariant, PTL

\* No step settles a claim that was left leased before its lease is over.
LEMMA NextUnknown == WorkerInv /\ [WNext]_wvars => UnknownStaysLeasedStep
<1> SUFFICES ASSUME WorkerInv, [WNext]_wvars, NEW j \in Jobs,
                    jobs[j].status = "running", jobs[j].token \in lost'[j],
                    jobs'[j] # jobs[j], ~(jobs[j].lease <= now)
             PROVE  FALSE
  BY DEF UnknownStaysLeasedStep
<1>1. WNext
  BY DEF wvars, vars
<1>2. TypeOK /\ StoreInv /\ LostUnheld /\ [Next]_vars
  BY <1>1, StoreStep DEF WorkerInv, StoreInv
<1>3. jobs[j].lease > now
  <2>1. jobs[j].lease \in Nat /\ now \in Nat
    BY <1>2 DEF TypeOK, Row
  <2> QED
    BY <2>1
<1>4. PICK w \in Workers : /\ held[w] # NoClaim
                           /\ held[w].job = j
                           /\ held[w].token = jobs[j].token
  BY <1>2, <1>3, NextLeaseHonoured DEF LeaseHonouredStep
<1>5. lost' = lost
  BY <1>1, LostStep DEF Abandon
<1> QED
  BY <1>2, <1>4, <1>5 DEF LostUnheld

\* An outcome the worker does not know is recorded by nobody.
THEOREM UnknownStaysLeasedTheorem == WSpec => UnknownStaysLeased
BY WorkerInvariant, NextUnknown, PTL DEF WSpec, UnknownStaysLeased

-----------------------------------------------------------------------------
(* How a job stops running *)

\* What may happen to the row of a running job: its lease was over for a claim
\* statement, which fails it or claims it again, or its holder records an outcome.
LEMMA RunningStep ==
    ASSUME WorkerInv, WNext, NEW j \in Jobs,
           jobs[j].status = "running", jobs'[j] # jobs[j]
    PROVE  \/ /\ jobs[j].lease <= now
              /\ jobs[j].attempts >= jobs[j].max
              /\ jobs'[j] = ExpiredRow(jobs[j])
           \/ /\ jobs[j].lease <= now
              /\ \E w \in Workers : jobs'[j] = ClaimedRow(jobs[j], at[w], issued[j] + 1)
           \/ \E w \in Workers :
                 /\ phase[w] \in {"finalizing", "left"}
                 /\ held[w] # NoClaim
                 /\ held[w].job = j /\ held[w].token = jobs[j].token
                 /\ \/ outcome[w] = "done" /\ jobs'[j] = SucceededRow(jobs[j])
                    \/ /\ outcome[w] \in {"invalid", "permanent", "retryable"}
                       /\ \E b : jobs'[j] =
                              FailedRow(jobs[j], held[w], outcome[w] # "retryable", b)
<1> DEFINE Over == \/ /\ jobs[j].lease <= now
                       /\ jobs[j].attempts >= jobs[j].max
                       /\ jobs'[j] = ExpiredRow(jobs[j])
                   \/ /\ jobs[j].lease <= now
                       /\ \E w \in Workers :
                             jobs'[j] = ClaimedRow(jobs[j], at[w], issued[j] + 1)
           Recorded(w) ==
                 /\ phase[w] \in {"finalizing", "left"}
                 /\ held[w] # NoClaim
                 /\ held[w].job = j /\ held[w].token = jobs[j].token
                 /\ \/ outcome[w] = "done" /\ jobs'[j] = SucceededRow(jobs[j])
                    \/ /\ outcome[w] \in {"invalid", "permanent", "retryable"}
                       /\ \E b : jobs'[j] =
                              FailedRow(jobs[j], held[w], outcome[w] # "retryable", b)
<1>1. /\ StoreInv /\ TypeOK /\ jobs \in [Jobs -> Row] /\ jobs[j].lease \in Nat
      /\ \A w \in Workers : held[w] # NoClaim => held[w].job \in Jobs
  BY HeldClaim DEF WorkerInv, StoreInv, TypeOK, Row
<1>2. ASSUME NEW w \in Workers, ClaimEffect(w) PROVE Over
  <2>1. at[w] <= now /\ at[w] \in Nat /\ now \in Nat
    BY <1>1 DEF StoreInv, LocksSound, TypeOK
  <2>2. CASE Exhausted(jobs[j], at[w]) /\ jobs'[j] = ExpiredRow(jobs[j])
    BY <1>1, <2>1, <2>2 DEF Exhausted
  <2>3. CASE /\ Claimable(jobs[j], at[w])
             /\ jobs'[j] = ClaimedRow(jobs[j], at[w], issued[j] + 1)
    BY <1>1, <2>1, <2>3 DEF Claimable
  <2> QED
    BY <1>1, <1>2, <2>2, <2>3, EffectRow
<1>3. ASSUME NEW w \in Workers, NEW a \in BOOLEAN, Finalize(w, a),
             phase[w] \in {"finalizing", "left"}
      PROVE  Recorded(w)
  <2>1. ASSUME outcome[w] = "done", NEW errors, MarkSucceeded(w, errors, a)
        PROVE  Recorded(w)
    BY <1>1, <1>3, <2>1 DEF MarkSucceeded, Current
  <2>2. CASE /\ outcome[w] \in {"invalid", "permanent", "retryable"}
             /\ MarkFailed(w, outcome[w] # "retryable",
                           ExponentialBackoff(held[w].attempts), a)
    <3>1. /\ held[w] # NoClaim /\ Current(held[w])
          /\ jobs' = [jobs EXCEPT ![held[w].job] =
                         FailedRow(jobs[held[w].job], held[w], outcome[w] # "retryable",
                                   ExponentialBackoff(held[w].attempts))]
      BY <2>2 DEF MarkFailed
    <3>2. held[w].job = j
      BY <1>1, <3>1
    <3>3. jobs'[j] = FailedRow(jobs[j], held[w], outcome[w] # "retryable",
                               ExponentialBackoff(held[w].attempts))
      BY <1>1, <3>1, <3>2
    <3> QED
      BY <1>3, <2>2, <3>1, <3>2, <3>3 DEF Current
  <2> QED
    BY <1>3, <2>1, <2>2 DEF Finalize
<1>4. ASSUME NEW k \in Jobs, EnqueueStep(k) \/ AdminStep(k) PROVE FALSE
  BY <1>1, <1>4 DEF EnqueueStep, Enqueue, AdminStep, Retry, Cancel
<1> QED
  BY <1>2, <1>3, <1>4, RowSteps

\* No step settles a job otherwise than its holder's executor returned, unless its last
\* lease is over.
LEMMA NextRecorded == WorkerInv /\ [WNext]_wvars => RecordedAsReturnedStep
<1> SUFFICES ASSUME WorkerInv, [WNext]_wvars, NEW j \in Jobs,
                    jobs[j].status = "running", jobs'[j].status # "running"
             PROVE  \/ jobs[j].lease <= now /\ jobs'[j] = ExpiredRow(jobs[j])
                    \/ \E w \in Workers :
                          /\ phase[w] \in {"finalizing", "left"} /\ held[w] # NoClaim
                          /\ held[w].job = j /\ held[w].token = jobs[j].token
                          /\ jobs'[j].status = "succeeded" <=> outcome[w] = "done"
                          /\ jobs'[j].retryable <=> outcome[w] = "retryable"
  BY DEF RecordedAsReturnedStep
<1>1. WNext /\ jobs'[j] # jobs[j] /\ jobs[j] \in Row
  BY DEF wvars, vars, WorkerInv, StoreInv, TypeOK
<1>2. ASSUME NEW t, NEW n, jobs'[j] = ClaimedRow(jobs[j], t, n) PROVE FALSE
  BY <1>1, <1>2 DEF ClaimedRow, Row
<1>3. ASSUME NEW w \in Workers, outcome[w] = "done", jobs'[j] = SucceededRow(jobs[j])
      PROVE  /\ jobs'[j].status = "succeeded" <=> outcome[w] = "done"
             /\ jobs'[j].retryable <=> outcome[w] = "retryable"
  <2>1. jobs'[j].status = "succeeded" /\ jobs'[j].retryable = FALSE
    BY <1>1, <1>3 DEF SucceededRow, Row
  <2> QED
    BY <1>3, <2>1
<1>4. ASSUME NEW w \in Workers, NEW b,
             outcome[w] \in {"invalid", "permanent", "retryable"},
             jobs'[j] = FailedRow(jobs[j], held[w], outcome[w] # "retryable", b)
      PROVE  /\ jobs'[j].status = "succeeded" <=> outcome[w] = "done"
             /\ jobs'[j].retryable <=> outcome[w] = "retryable"
  <2>1. ASSUME NEW row \in Row, NEW next, NEW time, NEW again
        PROVE  /\ [row EXCEPT !.status = next, !.runAfter = time, !.retryable = again,
                              !.token = 0, !.lease = 0].status = next
               /\ [row EXCEPT !.status = next, !.runAfter = time, !.retryable = again,
                              !.token = 0, !.lease = 0].retryable = again
    BY DEF Row
  <2>2. /\ jobs'[j].status \in {"failed", "queued"}
        /\ jobs'[j].retryable = ~(outcome[w] # "retryable")
    BY <1>1, <1>4, <2>1 DEF FailedRow
  <2> QED
    BY <1>4, <2>2
<1> QED
  BY <1>1, <1>2, <1>3, <1>4, RunningStep

\* The queue records of an execution what its executor returned.
THEOREM RecordedTheorem == WSpec => RecordedAsReturned
BY WorkerInvariant, NextRecorded, PTL DEF WSpec, RecordedAsReturned

\* No step does anything with a claim left leased but claim its job again.
LEMMA NextReclaimed == WorkerInv /\ [WNext]_wvars => UncertainIsReclaimedStep
<1> SUFFICES ASSUME WorkerInv, [WNext]_wvars, NEW j \in Jobs,
                    jobs[j].status = "running", jobs[j].token \in lost[j],
                    jobs[j].attempts < jobs[j].max, jobs'[j] # jobs[j]
             PROVE  /\ jobs[j].lease <= now
                    /\ jobs'[j].status = "running"
                    /\ jobs'[j].attempts = jobs[j].attempts + 1
                    /\ jobs'[j].token \notin lost'[j]
  BY DEF UncertainIsReclaimedStep
<1>1. /\ WNext /\ LostUnheld /\ jobs[j] \in Row
      /\ lost[j] \subseteq Nat /\ issued[j] \in Nat
  BY DEF wvars, vars, WorkerInv, StoreInv, TypeOK, WorkerTypeOK
<1>2. ~(jobs[j].attempts >= jobs[j].max)
  BY <1>1 DEF Row
<1>3. \A w \in Workers :
          ~(held[w] # NoClaim /\ held[w].job = j /\ held[w].token = jobs[j].token)
  BY <1>1 DEF LostUnheld
<1>4. PICK w \in Workers : /\ jobs[j].lease <= now
                           /\ jobs'[j] = ClaimedRow(jobs[j], at[w], issued[j] + 1)
  BY <1>1, <1>2, <1>3, RunningStep
<1>5. /\ jobs'[j].status = "running"
      /\ jobs'[j].attempts = jobs[j].attempts + 1
      /\ jobs'[j].token = issued[j] + 1
  BY <1>1, <1>4 DEF ClaimedRow, Row
<1>6. lost' = lost
  BY <1>1, LostStep DEF Abandon
<1>7. issued[j] + 1 \notin lost[j]
  BY <1>1 DEF LostUnheld
<1> QED
  BY <1>4, <1>5, <1>6, <1>7

\* Recovery takes up a claim left leased as long as attempts are left, which is what
\* remains true of the comment in worker.go.
THEOREM ReclaimedTheorem == WSpec => UncertainIsReclaimed
BY WorkerInvariant, NextReclaimed, PTL DEF WSpec, UncertainIsReclaimed

-----------------------------------------------------------------------------
(* What the store promises, under the workers *)

\* The panel processes implement the life cycle the queue promises of every job.
THEOREM WorkersFollowLifecycle == WSpec => FollowsLifecycle
BY WorkersUseStore, LifecycleTheorem, PTL

\* Jobs on one resource exclude each other, however the workers crash, are stopped or
\* leave claims leased, as long as no two claim statements are ever under way at once:
\* a single panel process does not ensure that, since a statement may outlive its client.
THEOREM WorkersExclusive == WSpec /\ []OneStatement => []ResourceExclusive
BY WorkersUseStore, ResourceExclusiveTheorem, PTL

\* The requests of a job are those of its claims, which its attempts bound.
LEMMA InvImpliesPerformed == WorkerInv => PerformedWithinBudget
<1> SUFFICES ASSUME WorkerInv, NEW j \in Jobs
             PROVE  /\ effects[j] + orphans[j] <= jobs[j].max * (1 + audits[j]) + resent[j]
                    /\ /\ jobs[j].status = "succeeded"
                       /\ jobs[j].max = 1 /\ audits[j] = 0 /\ resent[j] = 0
                       => effects[j] = 1 /\ orphans[j] = 0
  BY DEF PerformedWithinBudget
<1> DEFINE budget == jobs[j].max * (1 + audits[j])
<1>1. /\ effects[j] \in Nat /\ orphans[j] \in Nat /\ resent[j] \in Nat
      /\ issued[j] \in Nat /\ jobs[j].max \in Nat /\ audits[j] \in Nat
  BY DEF WorkerInv, WorkerTypeOK, StoreInv, TypeOK, Row
<1>2. budget \in Nat
  BY <1>1
<1>3. issued[j] <= budget
  BY InvImpliesBudget DEF WorkerInv, AttemptBudget
<1>4. /\ effects[j] + orphans[j] <= issued[j] + resent[j]
      /\ jobs[j].status = "succeeded" => effects[j] >= 1
  BY DEF WorkerInv, RequestsCounted, SuccessWasPerformed
<1>5. jobs[j].max = 1 /\ audits[j] = 0 => budget = 1
  OBVIOUS
<1> HIDE DEF budget
<1>6. effects[j] + orphans[j] <= budget + resent[j]
  BY <1>1, <1>2, <1>3, <1>4
<1>7. ASSUME jobs[j].status = "succeeded", budget = 1, resent[j] = 0
      PROVE  effects[j] = 1 /\ orphans[j] = 0
  BY <1>1, <1>4, <1>6, <1>7
<1> QED
  BY <1>5, <1>6, <1>7 DEF budget

\* Effects at the agent stay within the attempts of their job; a job of a single attempt
\* that succeeded was performed exactly once.
THEOREM PerformedTheorem == WSpec => []PerformedWithinBudget
BY WorkerInvariant, InvImpliesPerformed, PTL

=============================================================================
