SPECIFICATION Spec
CONSTANTS
    Runs = {r1}
    NoRun = NoRun
    Conns = {c1, c2}
    Scripts <- MCScripts
    Silent = Silent
    MaxConnections = 1
    RequireLogin = TRUE
CHECK_DEADLOCK FALSE
INVARIANTS
    SlotsConserved
    FailureAnswered
PROPERTIES
    ImplementsDialogue
    HandshakeEnds
    ProxyDrains
