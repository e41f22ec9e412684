\* Two requests at a time from three addresses for one account; two entries per limiter,
\* of which one step within a window may forget live ones.
CONSTANTS
    Requests = {q1, q2}
    Sources = {s1, s2, s3}
    Accounts = {u1}
    Window = 2
    SourceLimit = 2
    LoginLimit = 2
    MaxEntries = 2
    MaxForgotten = 1
    MaxNow = 2
SPECIFICATION Spec
SYMMETRY Symmetry
INVARIANTS MemoryBounded SlidingBound CountHonest
 
CHECK_DEADLOCK FALSE
