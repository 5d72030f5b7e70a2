\* A start and a poll of one step, through the two handlers.
CONSTANTS
    s1 = s1
    r1 = r1
    p1 = p1
    NoId = NoId
    None = None
    Refused = Refused
    NoState = NoState
    ExitCodes = {0, 1}
    StepIds = {s1}
    StartReqs = {r1}
    PollReqs = {p1}
SPECIFICATION FairSpec
PROPERTY NotStartedIsTrue
CHECK_DEADLOCK FALSE
