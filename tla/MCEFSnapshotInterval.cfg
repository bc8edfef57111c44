SPECIFICATION Spec
CONSTANTS
    h1 = h1
    a1 = a1
    NoRequest = NoRequest
    Handlers = {h1}
    Aggregates = {a1}
    SnapshotInterval = 100
    ChangeCounts = {2}
    MaxCommands = 60
    MaxFailures = 0
INVARIANTS
    SnapshotEveryInterval
CHECK_DEADLOCK FALSE
