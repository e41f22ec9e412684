\* One panel process, on two sessions, and one job with two attempts; one crash, lost
\* answer or shutdown.
CONSTANTS
    Jobs = {j1}
    Workers = {w1, w2}
    Resources = {}
    NoResource = NoResource
    NoJob = NoJob
    NoClaim = NoClaim
    LeaseDuration = 3
    MaxJobAttempts = 2
    ExpireLimit = 1
    AttemptInputs = {2}
    DelayInputs = {0}
    Backoffs = {1}
    MaxResultLogs = 0
    MaxAudits = 0
    MaxNow = 20
    Panels = 1
    ExecTimeout = 1
    BackoffCap = 1
    MaxStall = 1
    MaxFaults = 1
SPECIFICATION FairSpec
PROPERTIES JobsSettle ShutdownEnds
CHECK_DEADLOCK FALSE
