\* Two setups and two destroys of one id, and a step.
CONSTANTS
    g1 = g1
    u1 = u1
    u2 = u2
    x1 = x1
    d1 = d1
    d2 = d2
    None = None
    StageIds = {g1}
    SetupReqs = {u1, u2}
    Steps = {x1}
    Kind <- MCKind
    DestroyReqs = {d1, d2}
SPECIFICATION FairSpec
INVARIANT TypeOK
INVARIANT CleanTeardown
INVARIANT FailedSetupForgotten
INVARIANT ExitReportedIsExit
PROPERTY OnlyOwnContainers
PROPERTY DestroyedStepEnds
CHECK_DEADLOCK FALSE
