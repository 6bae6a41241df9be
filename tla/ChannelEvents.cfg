SPECIFICATION Spec
CONSTANTS
    Channels = {c1, c2}
    Inbox = 1
    Kinds = {"WindowAdjusted"}
    MaxMessages = 2
    MaxRequests = 1
CHECK_DEADLOCK FALSE
INVARIANTS
    EventsComplete
    EndIsLast
PROPERTIES
    NextEventReturns
