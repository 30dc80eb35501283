SPECIFICATION FairSpec
CONSTANTS
    c1 = c1
    c2 = c2
    f = f
    g = g
    Console = {c1, c2}
    Files = {f}
    Rank <- FileLast
    Rows <- TwoRows
    BadRows = {}
    MaxTime = 3
    MaxSteps = 2
    MaxQueued = 1
INVARIANTS BudgetExact NotAskedAgainBeforeTheEnd StepUsesItsAnswer FileRowOfItsStep
PROPERTIES BoundedRunReturns
