CONSTANTS
    plain = plain
    guarded = guarded
    Units = {plain, guarded}
    Guarded = {guarded}
    Changes = {c1, c2, c3}
    MaxBatch = 3
    MaxFailures = 2
SYMMETRY Symmetry
SPECIFICATION Spec
INVARIANTS
    TypeOK
    NoOrphanTransaction
    CommittedIsStored
    RolledBackStaysOut
    BatchInOrder
\* Both units may be disposed.
CHECK_DEADLOCK FALSE
