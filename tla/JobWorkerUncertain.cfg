\* One panel process, one job on its last attempt: the claim the worker leaves
\* leased.
CONSTANTS
    Jobs = {j1}
    Workers = {w1}
    Resources = {}
    NoResource = NoResource
    NoJob = NoJob
    NoClaim = NoClaim
    LeaseDuration = 2
    MaxJobAttempts = 2
    ExpireLimit = 1
    AttemptInputs = {1}
    DelayInputs = {0}
    Backoffs = {1, 2}
    MaxResultLogs = 1
    MaxAudits = 0
    MaxNow = 6
    Panels = 1
    ExecTimeout = 1
    BackoffCap = 2
    MaxStall = 0
    MaxFaults = 0
SPECIFICATION WSpec
PROPERTY UncertainIsRetried
CHECK_DEADLOCK FALSE
