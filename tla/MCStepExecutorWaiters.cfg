\* Two starts of one step: the first to wait is replaced and never answered.
CONSTANTS
    s1 = s1
    r1 = r1
    r2 = r2
    NoId = NoId
    None = None
    Refused = Refused
    NoState = NoState
    ExitCodes = {0, 1}
    StepIds = {s1}
    StartReqs = {r1, r2}
    PollReqs = {}
SPECIFICATION FairSpec
PROPERTY EveryWaiterAnswered
CHECK_DEADLOCK FALSE
