\* Two chunks, and room for two or three lines before the oldest is evicted.
CONSTANTS
    Shapes <- MCShapes
    MaxWrites = 2
    Limit = 4
    Overhead = 1
    TrimSuffix = FALSE
    Nudges = {2}
    NudgeWindow = 2
SPECIFICATION FairSpec
INVARIANT TypeOK
INVARIANT HistoryIsOutput
INVARIANT KeptWithinDrift
INVARIANT SentOnce
INVARIANT NothingDropped
INVARIANT StreamSortsToOutput
INVARIANT UploadComplete
PROPERTY PendingIsFlushed
PROPERTY FlusherStops
CHECK_DEADLOCK FALSE
