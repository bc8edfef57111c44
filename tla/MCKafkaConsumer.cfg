CONSTANTS
    t1 = t1
    t2 = t2
    Topics = {t1, t2}
    Messages = 2
    Malformed <- MCMalformed
    MaxFailures = 1
    None = none

SPECIFICATION Spec

CHECK_DEADLOCK FALSE

INVARIANTS
    TypeOK
    SkippedOnlyByFailure

PROPERTIES
    ServedTopicDrains
