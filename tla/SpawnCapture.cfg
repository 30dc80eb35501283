SPECIFICATION SpawnFairSpec
CONSTANTS
    Polls = 3
    GracePolls = 2
INVARIANTS SignalsReachTheGroup OutputIsWhole
PROPERTY CaptureReturns
\* a call is made once, and a command without a timeout may never end
CHECK_DEADLOCK FALSE
