SPECIFICATION Spec
CONSTANTS
    Key = {k1, k2, k3}
    Value = {0, 1}
    Default = 0
    Runtime = TRUE
    Max_ = 0
    Bounds = {0, 1, 2}
    MaxInserts = 5
INVARIANTS
    QueueMirrorsMap
    QueueInInsertionOrder
PROPERTY ImplementsFifoMap
