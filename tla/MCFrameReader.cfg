CONSTANTS
    Base = 2
    Bodies <- MCBodies
    MaxMessages = 3
SPECIFICATION FairSpec
CHECK_DEADLOCK FALSE
INVARIANTS
    TypeOK
PROPERTIES
    Reads
    HandledAll
