SPECIFICATION FairSpec
CONSTANTS
    c1 = c1
    c2 = c2
    x1 = x1
    Clients = {c1, c2}
    Sessions = {x1}
    NoMessage = NoMessage
    MaxMessages = 3
INVARIANTS
    TypeOK
    FirstRequestOnce
    FirstRequestLeads
    TableMatchesHandlers
    OnlyLateClientsLeft
PROPERTIES
    HandlersEnd
    RequestsFinish
CHECK_DEADLOCK FALSE
