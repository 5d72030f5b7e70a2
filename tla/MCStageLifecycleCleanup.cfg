\* One setup, one step, one destroy: the destroy overtakes the step.
CONSTANTS
    g1 = g1
    u1 = u1
    x1 = x1
    d1 = d1
    None = None
    StageIds = {g1}
    SetupReqs = {u1}
    Steps = {x1}
    Kind <- MCKind
    DestroyReqs = {d1}
SPECIFICATION Spec
INVARIANT AllContainersCleaned
CHECK_DEADLOCK FALSE
