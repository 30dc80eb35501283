SPECIFICATION Spec
CONSTANTS
    c1 = c1
    c2 = c2
    f = f
    g = g
    Console = {c1}
    Files = {g}
    Rank <- FileFirst
    Rows <- EnoughG
    BadRows = {}
    MaxTime = 3
    MaxSteps = 2
    MaxQueued = 1
INVARIANT FileRowOfItsStep
