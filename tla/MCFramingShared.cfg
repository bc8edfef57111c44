SPECIFICATION FairSpec
CONSTANTS
    s1 = s1
    s2 = s2
    Sockets = {s1, s2}
    Framers = {"Delimiter"}
    Messages <- MCDelimitable
    Base = 2
    HeaderLength = 2
    MaxLength = 2
    FixedLength = 2
    Delimiter <- MCDelimiter
    BufferSize = 3
    MaxSends = 1
    MaxDisconnects = 0
INVARIANTS
    OwnMessagesOnly
CHECK_DEADLOCK FALSE
