SPECIFICATION FairSpec
CONSTANTS
    Answers = {yes, no}
    None = None
    Timeout = 3
    Grace = 1
    PollMax = 4
    Horizon = 7
INVARIANTS OutcomeIsTrue ChildEnds
PROPERTY CallReturns
\* a call is made once: every process stops when it returned
CHECK_DEADLOCK FALSE
