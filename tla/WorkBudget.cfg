SPECIFICATION Spec
CONSTANTS
    Questions = {q}
    Values = {v}
    MaxCalls = 3
INVARIANTS MissingIsReported NoneElseBlamed
PROPERTY StartsClean
