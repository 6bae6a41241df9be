SPECIFICATION Spec
CONSTANTS
    Runs = {r1}
    NoRun = NoRun
    Conns = {c1, c2, c3}
    Denied = {c3}
    MaxConnections = 1
CHECK_DEADLOCK FALSE
INVARIANTS
    ActiveWithinLimit
    PermitsConserved
    StatsBalanced
    OneLateAccept
PROPERTIES
    CancelDrains
    OpeningEnds
