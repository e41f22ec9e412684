\* Two workers and an administrator contend for one job.
CONSTANTS
    Jobs = {j1}
    Workers = {w1, w2}
    Resources = {r1}
    NoResource = NoResource
    NoJob = NoJob
    NoClaim = NoClaim
    LeaseDuration = 1
    MaxJobAttempts = 2
    ExpireLimit = 1
    AttemptInputs = {0, 2, 3}
    DelayInputs <- Delays
    Backoffs = {1}
    MaxResultLogs = 2
    MaxAudits = 1
    MaxNow = 3
SPECIFICATION Spec
SYMMETRY Symmetry
INVARIANTS StoreInv AttemptBudget FailureLedger
PROPERTIES LeaseHonoured FollowsLifecycle
CHECK_DEADLOCK FALSE
