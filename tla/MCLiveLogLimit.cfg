\* Evicted lines give back more than they took, so more than the limit is kept.
CONSTANTS
    Shapes <- MCShapes
    MaxWrites = 2
    Limit = 4
    Overhead = 1
    TrimSuffix = FALSE
    Nudges = {2}
    NudgeWindow = 2
SPECIFICATION Spec
INVARIANT LimitRespected
CHECK_DEADLOCK FALSE
