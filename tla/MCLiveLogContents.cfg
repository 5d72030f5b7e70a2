\* A stream that could not be opened, and output that does not end its line.
CONSTANTS
    Shapes <- MCShapes
    MaxWrites = 2
    Limit = 4
    Overhead = 1
    TrimSuffix = FALSE
    Nudges = {2}
    NudgeWindow = 2
SPECIFICATION Spec
INVARIANT FullContentsUploaded
CHECK_DEADLOCK FALSE
