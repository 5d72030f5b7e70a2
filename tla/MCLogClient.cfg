\* A body that can break off at its start, in the middle and at its end, and three attempts.
CONSTANTS
    Size = 2
    Patience = 3
SPECIFICATION FairSpec
INVARIANT TypeOK
INVARIANT OpenIsTold
INVARIANT StoredIsTail
INVARIANT AcknowledgedOnce
PROPERTY DirectUploadEnds
CHECK_DEADLOCK FALSE
