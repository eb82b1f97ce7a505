CONSTANTS
    Readers = {r1}
    MaxVersion = 3
    NoAnswer = NoAnswer
SPECIFICATION FairSpec
CHECK_DEADLOCK FALSE
INVARIANTS
    TypeOK
    BlueprintNotOlder
PROPERTIES
    CatchesUp
    RefresherEnds
