\* Two agents over one path and a caller with two calls, with two faults, under
\* fairness.
CONSTANTS
    Agents = {a1, a2}
    NoAgent = NoAgent
    Absent = Absent
    Stale = Stale
    File = File
    Foreign = Foreign
    MaxFaults = 2
    Callers = {c1}
    Requests = {"health", "site", "raw", "unnamed"}
    Content <- MCContent
    Sendable <- Sends
    Keyed <- HasKey
    Verdict <- Handled
    NoRequest = NoRequest
    NoConn = NoConn
    Broken = Broken
    MaxCalls = 2
    Definitions <- MCDefinitions
    Documents <- MCDocuments
SPECIFICATION TFairSpec
INVARIANTS OneServer UndoneUnlessSent AtMostTwice AcceptedExactly
PROPERTIES FollowsContract ServedAgain
