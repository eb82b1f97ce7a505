CONSTANTS
    c1 = c1
    c2 = c2
    Conns = {c1, c2}
    QueueCap = 1
    MaxBatch = 1
    MaxRecs = 2
    MaxRecords = 2
CHECK_DEADLOCK FALSE
SPECIFICATION GoSpec
PROPERTIES
    ReaderNeverStuck
    AcceptLoopEnds
    ReaderEndsWithPeer
    QueueDrains
