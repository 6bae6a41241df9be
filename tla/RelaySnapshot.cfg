SPECIFICATION SnapshotSpec
CONSTANTS
    Runs = {r1}
    NoRun = NoRun
    Conns = {c1}
    Denied = {}
    MaxConnections = 1
CHECK_DEADLOCK FALSE
INVARIANT CompletedNotActive
