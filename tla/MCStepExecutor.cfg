\* Three starts of one step, whose answers race with each other and with its end.
CONSTANTS
    s1 = s1
    r1 = r1
    r2 = r2
    r3 = r3
    NoId = NoId
    None = None
    Refused = Refused
    NoState = NoState
    ExitCodes = {0, 1}
    StepIds = {s1}
    StartReqs = {r1, r2, r3}
    PollReqs = {}
SPECIFICATION FairSpec
INVARIANT TypeOK
INVARIANT NoLostWakeup
INVARIANT OutcomeReported
PROPERTY ServiceSpec
PROPERTY ListedWaiterAnswered
CHECK_DEADLOCK FALSE
