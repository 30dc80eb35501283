SPECIFICATION Spec
CONSTANTS
    Inputs = {0, 1}
    Outputs = {0, 1}
    Specs <- MCSpecs
    Updates <- MCUpdates
    MaxAlts = 2
    MaxUpdates = 2
INVARIANTS UpdateIsFollowed OldSpecKept NeverStuck
\* a run that finds no solution for a step ends there
CHECK_DEADLOCK FALSE
