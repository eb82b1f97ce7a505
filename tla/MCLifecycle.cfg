CONSTANTS
    Plugins = {"p", "q", "r", "s", "t"}
    NoPlugin = NoPlugin
    Ports = {"7777", "7778", "9112"}
    NoPort = NoPort
    Block <- MCBlock
    Lower <- MCLower
    Releases = {"6.0.0", "6.1.2"}
SPECIFICATION FairSpec
CHECK_DEADLOCK FALSE
INVARIANTS
    TypeOK
    Owned
    ObserverFirst
    ListenerFirst
    ExportedAsked
    OwnRecords
PROPERTIES
    Drained
