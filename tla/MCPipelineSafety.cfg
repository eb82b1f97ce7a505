CONSTANTS
    c1 = c1
    c2 = c2
    Conns = {c1, c2}
    QueueCap = 2
    MaxBatch = 2
    MaxRecs = 2
    MaxRecords = 3
SPECIFICATION Spec
CHECK_DEADLOCK FALSE
SYMMETRY Symmetry
INVARIANTS
    TypeOK
    InOrder
    NoSilentLoss
    LossIsFinal
    BuffersFreed
PROPERTIES
    NoSpin
    Delivers
