\* One panel process and two jobs that may share a resource, without faults.
CONSTANTS
    Jobs = {j1, j2}
    Workers = {w1}
    Resources = {r1}
    NoResource = NoResource
    NoJob = NoJob
    NoClaim = NoClaim
    LeaseDuration = 3
    MaxJobAttempts = 2
    ExpireLimit = 1
    AttemptInputs = {1}
    DelayInputs = {0}
    Backoffs = {1, 2}
    MaxResultLogs = 1
    MaxAudits = 0
    MaxNow = 20
    Panels = 1
    ExecTimeout = 1
    BackoffCap = 2
    MaxStall = 1
    MaxFaults = 0
SPECIFICATION FairSpec
INVARIANT ResourceExclusive
PROPERTY JobsSettle
CHECK_DEADLOCK FALSE
