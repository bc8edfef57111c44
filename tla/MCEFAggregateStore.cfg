SPECIFICATION Spec
CONSTANTS
    h1 = h1
    h2 = h2
    a1 = a1
    a2 = a2
    NoRequest = NoRequest
    Handlers = {h1, h2}
    Aggregates = {a1, a2}
    SnapshotInterval = 2
    ChangeCounts = {1, 2}
    MaxCommands = 3
    MaxFailures = 2
SYMMETRY MCSymmetry
INVARIANTS
    TypeOK
    VersionsGapFree
    VersionClashNeedsOverlap
    CreateClashNeedsOverlap
    AckedSaveComplete
    SnapshotContentsStored
    LoadReplaysEverything
CHECK_DEADLOCK FALSE
