SPECIFICATION FairSpec
CONSTANTS
    MaxShift = 2
    MaxAhead = 1
    MaxTime = 5
    MaxRevisions = 2
INVARIANTS
    ReadsHeld
    StepSpecIsCurrent
    ClauseAskedFromItsStart
    FixedLiteralAskedAtItsStep
PROPERTIES
    MemoryBounded
    InitialSegmentEnds
\* a run ends at the horizon MaxTime
CHECK_DEADLOCK FALSE
