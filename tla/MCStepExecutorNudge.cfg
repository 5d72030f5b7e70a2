\* One start of one step; every way it can end.
CONSTANTS
    s1 = s1
    r1 = r1
    NoId = NoId
    None = None
    Refused = Refused
    NoState = NoState
    ExitCodes = {0, 1}
    StepIds = {s1}
    StartReqs = {r1}
    PollReqs = {}
SPECIFICATION FairSpec
INVARIANT NudgeReported
CHECK_DEADLOCK FALSE
