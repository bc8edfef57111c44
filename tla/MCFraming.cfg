SPECIFICATION FairSpec
CONSTANTS
    s1 = s1
    Sockets = {s1}
    Framers = {"LengthPrefixed", "Delimiter", "FixedLength", "NoFraming"}
    Messages <- MCMessages
    Base = 2
    HeaderLength = 2
    MaxLength = 2
    FixedLength = 2
    Delimiter <- MCDelimiter
    BufferSize = 3
    MaxSends = 3
    MaxDisconnects = 1
INVARIANTS
    TypeOK
    StreamConserved
PROPERTIES
    ImplementsChannel
    DeliveredUnlessBroken
CHECK_DEADLOCK FALSE
