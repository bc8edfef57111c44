SPECIFICATION FairSpec
CONSTANTS
    u1 = u1
    u2 = u2
    Users = {u1, u2}
    PageSize = 2
    MaxEvents = 3
    MaxDeaths = 1
INVARIANTS
    TypeOK
    CheckpointIsProjected
    OnlyKnownLosses
    RedeliveryBounded
    CaughtUpReadModelCurrent
PROPERTIES
    ProjectedUnlessThrown
CHECK_DEADLOCK FALSE
