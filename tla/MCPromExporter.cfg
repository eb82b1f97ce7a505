CONSTANTS
    Readers = {r1, r2}
    NoReader = NoReader
    Perfmon = {"p1", "p2"}
    Alerts = {"alert_a"}
    Events = {"event_e"}
    Keys = {"device", "role"}
    Fields = {"value"}
    PerfmonLabels = {"device", "role"}
    MetricName <- MCMetricName
    Types = {"perfmon", "alerts"}
SPECIFICATION FairSpec
INVARIANTS
    TypeOK
    NoPanic
    OwnLabels
PROPERTIES
    LabelsStable
    ObserveReturns
