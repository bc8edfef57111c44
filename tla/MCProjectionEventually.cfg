SPECIFICATION FairSpec
CONSTANTS
    u1 = u1
    u2 = u2
    Users = {u1, u2}
    PageSize = 2
    MaxEvents = 3
    MaxDeaths = 0
PROPERTIES
    EventuallyProjected
CHECK_DEADLOCK FALSE
