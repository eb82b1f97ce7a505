CONSTANTS
    NoMessage = NoMessage
    Messages <- AllMessages
    Now = 20
    MaxClockSkew = 6
    MaxDuration = 12
    Half = 32
SPECIFICATION Spec
INVARIANT NoEmptyValues
