CONSTANTS
    Commands = {c1, c2, c3, c4}
    Aggregates = {a1, a2}
    BlankId = blank
    PageSize = 2
    MaxChanges = 3
    Nothing = nothing

SYMMETRY Symmetry

SPECIFICATION Spec

CHECK_DEADLOCK FALSE

INVARIANTS
    TypeOK
    StreamsAreCreations
    ShortLoadStoresNothing

PROPERTIES
    WrittenOnce
