SPECIFICATION ForwardedSpec
CONSTANTS
    Callers = {p1, p2}
    Capacity = 1
    MaxOpens <- OpensFew
    MaxRequests = 1
CHECK_DEADLOCK FALSE
INVARIANTS
    EndIsEnd
    NoneLost
PROPERTIES
    CallerReturns
    CallerServed
