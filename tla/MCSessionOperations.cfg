SPECIFICATION Spec
CONSTANTS
    Channels = {c1}
    Tokens = {k1, k2}
    Timeouts <- MCTimeouts
    CallerDeadlines = {2}
    MaxTime = 4
CHECK_DEADLOCK FALSE
INVARIANTS
    DeadlineNotExtended
PROPERTIES
    TimeoutNotEarly
    OperationsEnd
    ConnectBounded
