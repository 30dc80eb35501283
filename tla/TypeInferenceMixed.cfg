SPECIFICATION Spec
CONSTANTS
    Types = {"untyped", "tau", "sbf", "bv", "bv8"}
    Family <- MCFamily
    Bare = {"bv"}
    Vars = {1, 2}
    Constant = 3
    Binders <- MCBinders
    Atoms <- MCAtoms
    DefaultType = "tau"
    MaxScopes = 5
INVARIANT EquatedLeavesAgree
\* the walk ends with the formula, or where it is refused
CHECK_DEADLOCK FALSE
