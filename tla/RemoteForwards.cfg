SPECIFICATION Spec
CONSTANTS
    Addresses = {a1}
    Paths = {good, bad}
    BadPaths = {bad}
    MaxPort = 2
    MaxCalls = 5
CHECK_DEADLOCK FALSE
INVARIANTS
    HandlesReal
    OrphansExplained
PROPERTIES
    CancelsEffective
