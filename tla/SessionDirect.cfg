SPECIFICATION SafetySpec
CONSTANTS
    Channels = {c1}
    Tokens = {k1}
    Timeouts <- MCTimeouts
    CallerDeadlines = {}
    MaxTime = 5
CHECK_DEADLOCK FALSE
PROPERTY DirectTimeoutNotEarly
