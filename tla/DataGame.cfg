SPECIFICATION Spec
CONSTANTS
    Val = {0, 1}
    Shapes = {1, 2, 3}
    StateColors = {0, 1, 2}
    Games <- MCGames
    ModeLists <- MCModes
    MaxRounds = 3
    MaxColor = 2
INVARIANTS RegionsRight NothingMissed NeverBroken
PROPERTIES PlayAccepted
\* a solve that decides nothing, or that the environment wins, ends there
CHECK_DEADLOCK FALSE
