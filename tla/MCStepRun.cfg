\* One step, run twice when it is silent; two clients follow the log of a drone step, one from
\* the start, one perhaps from further than the log goes.
CONSTANTS
    ExitCodes = {0, 1}
    NoState = NoState
    Long = "long"
    HeaderLen = 2
    StartingBufLen = 4
    Subscribers = {s1, s2}
    Offsets = {0, 2}
    NoOne = NoOne
    Requests <- MCRequests
    Programs <- MCPrograms
    MaxRuns = 2
    Remark = 9
SPECIFICATION FairSpec
INVARIANT TypeOK
INVARIANT OutputIsCopied
INVARIANT ProcessOutputComplete
INVARIANT SecretsMasked
INVARIANT SubscriberUpToDate
INVARIANT ResultIsRunResult
 
INVARIANT ReportedOnce
PROPERTY WriteReturns
PROPERTY CopierEnds
PROPERTY StreamEnds
CHECK_DEADLOCK FALSE
