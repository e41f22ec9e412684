\* Two panel processes, one job, two faults; a claim statement may stall.
CONSTANTS
    Jobs = {j1}
    Workers = {w1, w2}
    Resources = {}
    NoResource = NoResource
    NoJob = NoJob
    NoClaim = NoClaim
    LeaseDuration = 3
    MaxJobAttempts = 2
    ExpireLimit = 1
    AttemptInputs = {2}
    DelayInputs = {0}
    Backoffs = {1, 2}
    MaxResultLogs = 1
    MaxAudits = 0
    MaxNow = 6
    Panels = 2
    ExecTimeout = 1
    BackoffCap = 2
    MaxStall = 1
    MaxFaults = 2
SPECIFICATION WSpec
SYMMETRY Symmetry
INVARIANTS SuccessWasPerformed NoOverlap
PROPERTY UnknownStaysLeased
CHECK_DEADLOCK FALSE
