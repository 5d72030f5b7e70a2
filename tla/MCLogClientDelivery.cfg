\* An upload that is tried a second time.
CONSTANTS
    Size = 2
    Patience = 3
SPECIFICATION Spec
INVARIANT DeliveredOnSuccess
CHECK_DEADLOCK FALSE
