CONSTANTS
    StreamingTypes <- MCStreamingTypes
    MaxLives = 2
    NoRequest = NoRequest
SPECIFICATION FairSpec
CHECK_DEADLOCK FALSE
INVARIANTS
    TypeOK
    Accounted
    Subscribed
PROPERTIES
    CallsReturn
