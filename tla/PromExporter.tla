---------------------------- MODULE PromExporter ----------------------------
(***************************************************************************)
(* pkg/promexport: Exporter.Observe, called concurrently by the reader     *)
(* goroutines of pkg/listener (through Decoder.MakeRecord), with labelsFor *)
(* and gaugeFor as separate critical sections of one mutex, and the two    *)
(* ways in which calls that get into each other's way make the Prometheus  *)
(* library panic, which takes the process down.                            *)
(*                                                                         *)
(* A record is its series, the set of its tag keys and the set of its      *)
(* numeric fields; the values of tags and fields are abstracted.  A label  *)
(* list is sorted before it is stored, so it is represented by its set.    *)
(***************************************************************************)
EXTENDS Naturals, FiniteSets

CONSTANTS
    Readers,        \* reader goroutines
    NoReader,       \* the mutex is free
    Perfmon,        \* series with the fixed labels
    Alerts,         \* series with the prefix alert_
    Events,         \* series with the prefix event_
    Keys,           \* tag keys
    Fields,         \* names of numeric fields
    PerfmonLabels,  \* perfmonLabels
    MetricName,     \* sanitizeMetricName("dcd_" + series + "_" + field)
    Types           \* prometheus_streaming_types

Series == Perfmon \union Alerts \union Events
Dynamic == Alerts \union Events

\* Two series may share a metric name, but only if both are PerfMon: alert names
\* end in _status and event names in _event, after distinct prefixes.
ASSUME SeriesAssumption ==
    /\ NoReader \notin Readers
    /\ Series # {} /\ Fields # {}
    /\ Perfmon \intersect Dynamic = {}
    /\ PerfmonLabels \subseteq Keys
    /\ \A s, t \in Series : \A f, g \in Fields :
          MetricName[s][f] = MetricName[t][g] => s = t \/ {s, t} \subseteq Perfmon

\* New: no type means all of them, and an unknown type allows nothing.
Allows(kind) == Types = {} \/ kind \in Types
Allowed(s) ==
    \/ s \in Perfmon /\ Allows("perfmon")
    \/ s \in Alerts /\ Allows("alerts")
    \/ s \in Events /\ Allows("events")

VARIABLES
    pc,            \* per reader: where it is in Observe
    series,        \* per reader: the record's series,
    tags,          \*   its tag keys,
    fields,        \*   the fields not exported yet,
    field,         \*   the field being exported,
    labels,        \*   and labelNames
    mutex,         \* Exporter.mu
    seriesLabels,  \* Exporter.seriesLabels
    gauges,        \* Exporter.gauges: metric name -> labels of the registered gauge
    panicked       \* the Prometheus library panicked

vars == <<pc, series, tags, fields, field, labels, mutex, seriesLabels, gauges, panicked>>
shared == <<seriesLabels, gauges, panicked>>

MetricNames == {MetricName[s][f] : s \in Series, f \in Fields}
Metric(r) == MetricName[series[r]][field[r]]

\* f with the value v at x
With(f, x, v) == [y \in DOMAIN f \union {x} |-> IF y = x THEN v ELSE f[y]]

\* Locals between calls, and the loop variable between iterations
AnySeries == CHOOSE s \in Series : TRUE
AnyField == CHOOSE f \in Fields : TRUE

Goto(r, place) == pc' = [pc EXCEPT ![r] = place]

Init ==
    /\ pc = [r \in Readers |-> "idle"]
    /\ series = [r \in Readers |-> AnySeries]
    /\ tags = [r \in Readers |-> {}]
    /\ fields = [r \in Readers |-> {}]
    /\ field = [r \in Readers |-> AnyField]
    /\ labels = [r \in Readers |-> {}]
    /\ mutex = NoReader
    /\ seriesLabels = [s \in {} |-> {}]
    /\ gauges = [n \in {} |-> {}]
    /\ panicked = FALSE
-----------------------------------------------------------------------------
(* Observe *)

\* Faulty variant: PerfMon series get their labels from the record, too.
ObserveDynamic(r, s, T, F) ==
    /\ pc[r] = "idle"
    /\ Allowed(s)
    /\ series' = [series EXCEPT ![r] = s]
    /\ tags' = [tags EXCEPT ![r] = T]
    /\ fields' = [fields EXCEPT ![r] = F]
    /\ Goto(r, "labels")
    /\ UNCHANGED <<field, labels, mutex, shared>>

\* The record passes the filter; a PerfMon series has its labels at once, and its
\* tag keys play no part.
Observe(r, s, T, F) ==
    /\ pc[r] = "idle"
    /\ Allowed(s)
    /\ series' = [series EXCEPT ![r] = s]
    /\ tags' = [tags EXCEPT ![r] = IF s \in Perfmon THEN {} ELSE T]
    /\ fields' = [fields EXCEPT ![r] = F]
    /\ labels' = [labels EXCEPT ![r] = PerfmonLabels]
    /\ Goto(r, IF s \in Perfmon THEN "fields" ELSE "labels")
    /\ UNCHANGED <<field, mutex, shared>>

\* for fieldName, rawValue := range fields, in any order
NextField(r) ==
    /\ pc[r] = "fields"
    /\ \E f \in fields[r] :
          /\ field' = [field EXCEPT ![r] = f]
          /\ fields' = [fields EXCEPT ![r] = @ \ {f}]
    /\ Goto(r, "gauge")
    /\ UNCHANGED <<series, tags, labels, mutex, shared>>

Return(r) ==
    /\ pc[r] = "fields"
    /\ fields[r] = {}
    /\ Goto(r, "idle")
    /\ series' = [series EXCEPT ![r] = AnySeries]
    /\ tags' = [tags EXCEPT ![r] = {}]
    /\ labels' = [labels EXCEPT ![r] = {}]
    /\ UNCHANGED <<fields, field, mutex, shared>>

\* Faulty variant: the mutex is not taken.
LockNot(r) ==
    /\ pc[r] \in {"labels", "gauge"}
    /\ Goto(r, IF pc[r] = "labels" THEN "findLabels" ELSE "findGauge")
    /\ UNCHANGED <<series, tags, fields, field, labels, mutex, shared>>

\* e.mu.Lock(), in labelsFor and in gaugeFor
Lock(r) ==
    /\ pc[r] \in {"labels", "gauge"}
    /\ mutex = NoReader
    /\ mutex' = r
    /\ Goto(r, IF pc[r] = "labels" THEN "findLabels" ELSE "findGauge")
    /\ UNCHANGED <<series, tags, fields, field, labels, shared>>
-----------------------------------------------------------------------------
(* labelsFor *)

FindLabels(r) ==
    /\ pc[r] = "findLabels"
    /\ series[r] \in DOMAIN seriesLabels
    /\ labels' = [labels EXCEPT ![r] = seriesLabels[series[r]]]
    /\ mutex' = NoReader
    /\ Goto(r, "fields")
    /\ UNCHANGED <<series, tags, fields, field, shared>>

MissLabels(r) ==
    /\ pc[r] = "findLabels"
    /\ series[r] \notin DOMAIN seriesLabels
    /\ Goto(r, "storeLabels")
    /\ UNCHANGED <<series, tags, fields, field, labels, mutex, shared>>

StoreLabels(r) ==
    /\ pc[r] = "storeLabels"
    /\ seriesLabels' = With(seriesLabels, series[r], tags[r])
    /\ labels' = [labels EXCEPT ![r] = tags[r]]
    /\ mutex' = NoReader
    /\ Goto(r, "fields")
    /\ UNCHANGED <<series, tags, fields, field, gauges, panicked>>
-----------------------------------------------------------------------------
(* gaugeFor *)

\* Faulty variant: an existing gauge is returned without unlocking.
FindGaugeKeepsLock(r) ==
    /\ pc[r] = "findGauge"
    /\ Metric(r) \in DOMAIN gauges
    /\ Goto(r, "set")
    /\ UNCHANGED <<series, tags, fields, field, labels, mutex, shared>>

FindGauge(r) ==
    /\ pc[r] = "findGauge"
    /\ Metric(r) \in DOMAIN gauges
    /\ mutex' = NoReader
    /\ Goto(r, "set")
    /\ UNCHANGED <<series, tags, fields, field, labels, shared>>

MissGauge(r) ==
    /\ pc[r] = "findGauge"
    /\ Metric(r) \notin DOMAIN gauges
    /\ Goto(r, "register")
    /\ UNCHANGED <<series, tags, fields, field, labels, mutex, shared>>

\* Faulty variant: the gauge gets the record's tag keys, not the established labels.
RegisterTags(r) ==
    /\ pc[r] = "register"
    /\ gauges' = With(gauges, Metric(r), tags[r])
    /\ panicked' = (Metric(r) \in DOMAIN gauges)
    /\ mutex' = NoReader
    /\ Goto(r, "set")
    /\ UNCHANGED <<series, tags, fields, field, labels, seriesLabels>>

\* MustRegister panics if the name is taken.
Register(r) ==
    /\ pc[r] = "register"
    /\ gauges' = With(gauges, Metric(r), labels[r])
    /\ panicked' = (Metric(r) \in DOMAIN gauges)
    /\ mutex' = NoReader
    /\ Goto(r, "set")
    /\ UNCHANGED <<series, tags, fields, field, labels, seriesLabels>>

\* WithLabelValues panics unless there is one value for each label.
Set(r) ==
    /\ pc[r] = "set"
    /\ panicked' = (Cardinality(gauges[Metric(r)]) # Cardinality(labels[r]))
    /\ field' = [field EXCEPT ![r] = AnyField]
    /\ Goto(r, "fields")
    /\ UNCHANGED <<series, tags, fields, labels, mutex, seriesLabels, gauges>>
-----------------------------------------------------------------------------
Step(r) ==
    \/ NextField(r)
    \/ Return(r)
    \/ Lock(r)
    \/ FindLabels(r)
    \/ MissLabels(r)
    \/ StoreLabels(r)
    \/ FindGauge(r)
    \/ MissGauge(r)
    \/ Register(r)
    \/ Set(r)

Record(r) == \E s \in Series, T \in SUBSET Keys, F \in SUBSET Fields : Observe(r, s, T, F)

\* A panic in a goroutine ends the process.
Next == ~panicked /\ \E r \in Readers : Record(r) \/ Step(r)

Spec == Init /\ [][Next]_vars

\* Goroutines run, and a Go mutex starves no waiter.
Fairness ==
    \A r \in Readers : WF_vars(~panicked /\ Step(r)) /\ SF_vars(~panicked /\ Lock(r))

FairSpec == Spec /\ Fairness
-----------------------------------------------------------------------------
Places == {"idle", "labels", "findLabels", "storeLabels", "fields", "gauge",
           "findGauge", "register", "set"}

TypeOK ==
    /\ pc \in [Readers -> Places]
    /\ series \in [Readers -> Series]
    /\ tags \in [Readers -> SUBSET Keys]
    /\ fields \in [Readers -> SUBSET Fields]
    /\ field \in [Readers -> Fields]
    /\ labels \in [Readers -> SUBSET Keys]
    /\ mutex \in Readers \union {NoReader}
    /\ DOMAIN seriesLabels \subseteq Dynamic
    /\ \A s \in DOMAIN seriesLabels : seriesLabels[s] \subseteq Keys
    /\ DOMAIN gauges \subseteq MetricNames
    /\ \A n \in DOMAIN gauges : gauges[n] \subseteq Keys
    /\ panicked \in BOOLEAN

\* Whatever readers observe at the same time, neither registering a gauge nor
\* setting a value panics, which would take Fluent Bit down.
NoPanic == ~panicked

\* A value is always set under the labels its reader took the values for: the
\* labels were established in an earlier critical section, and the gauge may
\* have been created by another reader from another record.
OwnLabels == \A r \in Readers : pc[r] = "set" => gauges[Metric(r)] = labels[r]

\* Once a series has labels, and once a gauge is registered, that is for good.
LabelsStable ==
    [][/\ \A s \in DOMAIN seriesLabels :
             s \in DOMAIN seriesLabels' /\ seriesLabels'[s] = seriesLabels[s]
       /\ \A n \in DOMAIN gauges : n \in DOMAIN gauges' /\ gauges'[n] = gauges[n]]_vars

\* A call of Observe returns, whatever the other readers do: nobody keeps the
\* mutex.  A reader that does not return stops reading its DCD connection.
ObserveReturns == \A r \in Readers : pc[r] # "idle" ~> pc[r] = "idle"

(* The inductive invariant *)

InCritical(r) == pc[r] \in {"findLabels", "storeLabels", "findGauge", "register"}

\* The labels a record of series s is exported under, once they are known
Known(s) == s \in Perfmon \/ s \in DOMAIN seriesLabels
LabelsOf(s) == IF s \in Perfmon THEN PerfmonLabels ELSE seriesLabels[s]

LockInv == \A r \in Readers : InCritical(r) <=> mutex = r

ReaderInv ==
    \A r \in Readers :
        /\ pc[r] \in {"labels", "findLabels", "storeLabels"} => series[r] \in Dynamic
        /\ pc[r] \in {"fields", "gauge", "findGauge", "register", "set"} =>
              Known(series[r]) /\ labels[r] = LabelsOf(series[r])
        /\ pc[r] = "storeLabels" => series[r] \notin DOMAIN seriesLabels
        /\ pc[r] = "register" => Metric(r) \notin DOMAIN gauges
        /\ pc[r] = "set" => Metric(r) \in DOMAIN gauges

GaugeInv ==
    \A s \in Series : \A f \in Fields :
        MetricName[s][f] \in DOMAIN gauges =>
            Known(s) /\ gauges[MetricName[s][f]] = LabelsOf(s)

IInv == TypeOK /\ LockInv /\ ReaderInv /\ GaugeInv /\ NoPanic
=============================================================================
