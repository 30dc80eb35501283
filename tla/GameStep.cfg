SPECIFICATION Spec
CONSTANTS
    Outs = {"x", "y"}
    InitialParts <- MCInitialParts
    Depths = {0, 2}
    MaxTime = 4
    MaxFailures = 1
    MaxUpdates = 2
    MaxResets = 1
INVARIANTS LacksOnlyAsKept PlaysTheHistory ContinuesWhatWasDelivered SolvedForItsStart GoalsGiveWay
\* a run ends at the horizon MaxTime
CHECK_DEADLOCK FALSE
