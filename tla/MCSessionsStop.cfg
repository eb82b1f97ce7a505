CONSTANTS
    StreamingTypes <- MCStreamingTypes
    MaxLives = 1
    NoRequest = NoRequest
SPECIFICATION Spec
CHECK_DEADLOCK FALSE
INVARIANTS
    StopDeletesAll
