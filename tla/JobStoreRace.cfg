\* Two panel processes claim from two jobs on one resource.
CONSTANTS
    Jobs = {j1, j2}
    Workers = {w1, w2}
    Resources = {r1}
    NoResource = NoResource
    NoJob = NoJob
    NoClaim = NoClaim
    LeaseDuration = 1
    MaxJobAttempts = 2
    ExpireLimit = 1
    AttemptInputs = {1}
    DelayInputs = {0}
    Backoffs = {1}
    MaxResultLogs = 1
    MaxAudits = 0
    MaxNow = 2
SPECIFICATION Spec
SYMMETRY Symmetry
INVARIANT ResourceExclusive
CHECK_DEADLOCK FALSE
