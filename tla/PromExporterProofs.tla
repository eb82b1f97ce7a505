------------------------- MODULE PromExporterProofs -------------------------
(***************************************************************************)
(* Theorems about PromExporter for any number of readers, any series, tag  *)
(* keys and fields.  The inductive invariant is IInv: the mutex is held by *)
(* exactly the reader in a critical section (LockInv), a reader's labels   *)
(* are those its series has for good (ReaderInv), and a registered gauge   *)
(* has the labels of every series that uses its name (GaugeInv).           *)
(***************************************************************************)
EXTENDS PromExporter, TLAPS

LEMMA Choices == AnySeries \in Series /\ AnyField \in Fields
BY SeriesAssumption DEF AnySeries, AnyField

LEMMA InitInv == Init => IInv
<1> SUFFICES ASSUME Init
             PROVE  IInv
    OBVIOUS
<1>1. TypeOK
  BY Choices DEF Init, TypeOK, Places
<1>2. LockInv /\ ReaderInv /\ GaugeInv /\ NoPanic
  BY SeriesAssumption DEF Init, LockInv, InCritical, ReaderInv, GaugeInv, NoPanic
<1>. QED  BY <1>1, <1>2 DEF IInv

(* One lemma for each action, with one step for each part of the invariant. *)

LEMMA ObserveKeeps ==
    ASSUME IInv, NEW r \in Readers,
           NEW s \in Series, NEW T \in SUBSET Keys, NEW F \in SUBSET Fields,
           Observe(r, s, T, F)
    PROVE  IInv'
<1> USE DEF IInv, Goto, shared
<1>1. TypeOK'
  BY Choices, SeriesAssumption DEF Observe, TypeOK, Places
<1>2. LockInv'
  BY SeriesAssumption DEF Observe, LockInv, InCritical, TypeOK
<1>3. ReaderInv'
  BY SeriesAssumption
  DEF Observe, ReaderInv, LockInv, InCritical, TypeOK, Known, LabelsOf, Metric,
     Dynamic, Series
<1>4. GaugeInv'
  BY DEF Observe, GaugeInv, Known, LabelsOf
<1>5. NoPanic'
  BY DEF Observe, NoPanic
<1>. QED  BY <1>1, <1>2, <1>3, <1>4, <1>5

LEMMA NextFieldKeeps ==
    ASSUME IInv, NEW r \in Readers,
           NextField(r)
    PROVE  IInv'
<1> USE DEF IInv, Goto, shared
<1>1. TypeOK'
  BY DEF NextField, TypeOK, Places
<1>2. LockInv'
  BY SeriesAssumption DEF NextField, LockInv, InCritical, TypeOK
<1>3. ReaderInv'
  BY SeriesAssumption
  DEF NextField, ReaderInv, LockInv, InCritical, TypeOK, Known, LabelsOf, Metric
<1>4. GaugeInv'
  BY DEF NextField, GaugeInv, Known, LabelsOf
<1>5. NoPanic'
  BY DEF NextField, NoPanic
<1>. QED  BY <1>1, <1>2, <1>3, <1>4, <1>5

LEMMA ReturnKeeps ==
    ASSUME IInv, NEW r \in Readers,
           Return(r)
    PROVE  IInv'
<1> USE DEF IInv, Goto, shared
<1>1. TypeOK'
  BY Choices DEF Return, TypeOK, Places
<1>2. LockInv'
  BY SeriesAssumption DEF Return, LockInv, InCritical, TypeOK
<1>3. ReaderInv'
  BY SeriesAssumption
  DEF Return, ReaderInv, LockInv, InCritical, TypeOK, Known, LabelsOf, Metric
<1>4. GaugeInv'
  BY DEF Return, GaugeInv, Known, LabelsOf
<1>5. NoPanic'
  BY DEF Return, NoPanic
<1>. QED  BY <1>1, <1>2, <1>3, <1>4, <1>5

LEMMA LockKeeps ==
    ASSUME IInv, NEW r \in Readers,
           Lock(r)
    PROVE  IInv'
<1> USE DEF IInv, Goto, shared
<1>1. TypeOK'
  BY DEF Lock, TypeOK, Places
<1>2. LockInv'
  BY SeriesAssumption DEF Lock, LockInv, InCritical, TypeOK
<1>3. ReaderInv'
  BY SeriesAssumption
  DEF Lock, ReaderInv, LockInv, InCritical, TypeOK, Known, LabelsOf, Metric
<1>4. GaugeInv'
  BY DEF Lock, GaugeInv, Known, LabelsOf
<1>5. NoPanic'
  BY DEF Lock, NoPanic
<1>. QED  BY <1>1, <1>2, <1>3, <1>4, <1>5

LEMMA FindLabelsKeeps ==
    ASSUME IInv, NEW r \in Readers,
           FindLabels(r)
    PROVE  IInv'
<1> USE DEF IInv, Goto, shared
<1>1. TypeOK'
  BY DEF FindLabels, TypeOK, Places
<1>2. LockInv'
  BY SeriesAssumption DEF FindLabels, LockInv, InCritical, TypeOK
<1>3. ReaderInv'
  BY SeriesAssumption
  DEF FindLabels, ReaderInv, LockInv, InCritical, TypeOK, Known, LabelsOf, Metric,
     Dynamic, Series
<1>4. GaugeInv'
  BY DEF FindLabels, GaugeInv, Known, LabelsOf
<1>5. NoPanic'
  BY DEF FindLabels, NoPanic
<1>. QED  BY <1>1, <1>2, <1>3, <1>4, <1>5

LEMMA MissLabelsKeeps ==
    ASSUME IInv, NEW r \in Readers,
           MissLabels(r)
    PROVE  IInv'
<1> USE DEF IInv, Goto, shared
<1>1. TypeOK'
  BY DEF MissLabels, TypeOK, Places
<1>2. LockInv'
  BY SeriesAssumption DEF MissLabels, LockInv, InCritical, TypeOK
<1>3. ReaderInv'
  BY SeriesAssumption
  DEF MissLabels, ReaderInv, LockInv, InCritical, TypeOK, Known, LabelsOf, Metric
<1>4. GaugeInv'
  BY DEF MissLabels, GaugeInv, Known, LabelsOf
<1>5. NoPanic'
  BY DEF MissLabels, NoPanic
<1>. QED  BY <1>1, <1>2, <1>3, <1>4, <1>5

LEMMA StoreLabelsKeeps ==
    ASSUME IInv, NEW r \in Readers,
           StoreLabels(r)
    PROVE  IInv'
<1> USE DEF IInv, Goto, shared
<1>1. TypeOK'
  <2>1. series[r] \in Dynamic /\ tags[r] \in SUBSET Keys
    BY DEF StoreLabels, ReaderInv, TypeOK
  <2>2. DOMAIN seriesLabels' = DOMAIN seriesLabels \union {series[r]}
    BY DEF StoreLabels, With
  <2>3. \A s \in DOMAIN seriesLabels' :
           seriesLabels'[s] = IF s = series[r] THEN tags[r] ELSE seriesLabels[s]
    BY DEF StoreLabels, With
  <2>4. /\ DOMAIN seriesLabels' \subseteq Dynamic
        /\ \A s \in DOMAIN seriesLabels' : seriesLabels'[s] \subseteq Keys
    BY <2>1, <2>2, <2>3 DEF TypeOK
  <2>5. /\ pc' \in [Readers -> Places]
        /\ labels' \in [Readers -> SUBSET Keys]
        /\ mutex' \in Readers \union {NoReader}
    BY <2>1 DEF StoreLabels, TypeOK, Places
  <2>. QED  BY <2>4, <2>5 DEF StoreLabels, TypeOK
<1>2. LockInv'
  BY SeriesAssumption DEF StoreLabels, LockInv, InCritical, TypeOK
<1>3. ReaderInv'
  BY SeriesAssumption
  DEF StoreLabels, ReaderInv, LockInv, InCritical, TypeOK, Known, LabelsOf, Metric, With
<1>4. GaugeInv'
  BY DEF StoreLabels, GaugeInv, ReaderInv, TypeOK, Known, LabelsOf, With
<1>5. NoPanic'
  BY DEF StoreLabels, NoPanic
<1>. QED  BY <1>1, <1>2, <1>3, <1>4, <1>5

LEMMA FindGaugeKeeps ==
    ASSUME IInv, NEW r \in Readers,
           FindGauge(r)
    PROVE  IInv'
<1> USE DEF IInv, Goto, shared
<1>1. TypeOK'
  BY DEF FindGauge, TypeOK, Places
<1>2. LockInv'
  BY SeriesAssumption DEF FindGauge, LockInv, InCritical, TypeOK
<1>3. ReaderInv'
  BY SeriesAssumption
  DEF FindGauge, ReaderInv, LockInv, InCritical, TypeOK, Known, LabelsOf, Metric
<1>4. GaugeInv'
  BY DEF FindGauge, GaugeInv, Known, LabelsOf
<1>5. NoPanic'
  BY DEF FindGauge, NoPanic
<1>. QED  BY <1>1, <1>2, <1>3, <1>4, <1>5

LEMMA MissGaugeKeeps ==
    ASSUME IInv, NEW r \in Readers,
           MissGauge(r)
    PROVE  IInv'
<1> USE DEF IInv, Goto, shared
<1>1. TypeOK'
  BY DEF MissGauge, TypeOK, Places
<1>2. LockInv'
  BY SeriesAssumption DEF MissGauge, LockInv, InCritical, TypeOK
<1>3. ReaderInv'
  BY SeriesAssumption
  DEF MissGauge, ReaderInv, LockInv, InCritical, TypeOK, Known, LabelsOf, Metric
<1>4. GaugeInv'
  BY DEF MissGauge, GaugeInv, Known, LabelsOf
<1>5. NoPanic'
  BY DEF MissGauge, NoPanic
<1>. QED  BY <1>1, <1>2, <1>3, <1>4, <1>5

LEMMA RegisterKeeps ==
    ASSUME IInv, NEW r \in Readers,
           Register(r)
    PROVE  IInv'
<1> USE DEF IInv, Goto, shared
<1>1. TypeOK'
  BY DEF Register, TypeOK, Places, With, Metric, MetricNames
<1>2. LockInv'
  BY SeriesAssumption DEF Register, LockInv, InCritical, TypeOK
<1>3. ReaderInv'
  BY SeriesAssumption
  DEF Register, ReaderInv, LockInv, InCritical, TypeOK, Known, LabelsOf, Metric,
     With
<1>4. GaugeInv'
  BY SeriesAssumption DEF Register, GaugeInv, ReaderInv, TypeOK, Known, LabelsOf, Metric, With
<1>5. NoPanic'
  BY DEF Register, NoPanic, ReaderInv
<1>. QED  BY <1>1, <1>2, <1>3, <1>4, <1>5

LEMMA SetKeeps ==
    ASSUME IInv, NEW r \in Readers,
           Set(r)
    PROVE  IInv'
<1> USE DEF IInv, Goto, shared
<1>1. TypeOK'
  BY Choices DEF Set, TypeOK, Places
<1>2. LockInv'
  BY SeriesAssumption DEF Set, LockInv, InCritical, TypeOK
<1>3. ReaderInv'
  BY SeriesAssumption
  DEF Set, ReaderInv, LockInv, InCritical, TypeOK, Known, LabelsOf, Metric
<1>4. GaugeInv'
  BY DEF Set, GaugeInv, Known, LabelsOf
<1>5. NoPanic'
  BY DEF Set, NoPanic, ReaderInv, GaugeInv, TypeOK, Metric
<1>. QED  BY <1>1, <1>2, <1>3, <1>4, <1>5

LEMMA StepKeeps == ASSUME IInv, [Next]_vars PROVE IInv'
<1>1. CASE UNCHANGED vars
  BY <1>1 DEF vars, IInv, TypeOK, LockInv, InCritical, ReaderInv, Metric, GaugeInv,
              Known, LabelsOf, NoPanic
<1>2. CASE Next
  <2>1. PICK r \in Readers : Record(r) \/ Step(r)
    BY <1>2 DEF Next
  <2>2. CASE Record(r)
    BY <2>2, ObserveKeeps DEF Record
  <2>3. CASE Step(r)
    BY <2>3, NextFieldKeeps, ReturnKeeps, LockKeeps, FindLabelsKeeps, MissLabelsKeeps,
       StoreLabelsKeeps, FindGaugeKeeps, MissGaugeKeeps, RegisterKeeps, SetKeeps DEF Step
  <2>. QED  BY <2>1, <2>2, <2>3
<1>. QED  BY <1>1, <1>2

THEOREM Inductive == Spec => []IInv
<1>1. Init => IInv
  BY InitInv
<1>2. IInv /\ [Next]_vars => IInv'
  BY StepKeeps
<1>. QED  BY <1>1, <1>2, PTL DEF Spec

\* Every variable keeps to its type, for any readers, series, tag keys and fields.
THEOREM TypesHold == Spec => []TypeOK
<1>1. IInv => TypeOK
  BY DEF IInv
<1>. QED  BY <1>1, Inductive, PTL

\* However many readers call Observe at the same time, the Prometheus library never
\* panics: MustRegister sees every name once, and WithLabelValues one value per label.
THEOREM NoPanicHolds == Spec => []NoPanic
<1>1. IInv => NoPanic
  BY DEF IInv
<1>. QED  BY <1>1, Inductive, PTL

\* The gauge that gaugeFor returned has the labels that labelsFor returned, also when
\* another reader created it, and for PerfMon series that share the metric name.
THEOREM OwnLabelsHold == Spec => []OwnLabels
<1>1. IInv => OwnLabels
  BY DEF IInv, OwnLabels, ReaderInv, GaugeInv, Metric, TypeOK
<1>. QED  BY <1>1, Inductive, PTL

\* Labels of a series and gauges are never replaced or removed.
THEOREM LabelsStableHolds == Spec => LabelsStable
<1> DEFINE Stable ==
      /\ \A s \in DOMAIN seriesLabels :
            s \in DOMAIN seriesLabels' /\ seriesLabels'[s] = seriesLabels[s]
      /\ \A n \in DOMAIN gauges : n \in DOMAIN gauges' /\ gauges'[n] = gauges[n]
<1>1. ASSUME IInv, Next
      PROVE  Stable
  <2>1. PICK r \in Readers : Record(r) \/ Step(r)
    BY <1>1 DEF Next
  <2>2. CASE UNCHANGED <<seriesLabels, gauges>>
    BY <2>2
  <2>3. CASE StoreLabels(r)
    <3>1. series[r] \notin DOMAIN seriesLabels
      BY <1>1, <2>3 DEF IInv, ReaderInv, StoreLabels
    <3>. QED  BY <2>3, <3>1 DEF StoreLabels, With
  <2>4. CASE Register(r)
    <3>1. Metric(r) \notin DOMAIN gauges
      BY <1>1, <2>4 DEF IInv, ReaderInv, Register
    <3>. QED  BY <2>4, <3>1 DEF Register, With
  <2>. QED
    BY <2>1, <2>2, <2>3, <2>4
       DEF Record, Observe, Step, NextField, Return, Lock, FindLabels, MissLabels,
           FindGauge, MissGauge, Set, shared
<1>2. IInv /\ [Next]_vars => [Stable]_vars
  BY <1>1
<1>. QED  BY <1>2, Inductive, PTL DEF Spec, LabelsStable
=============================================================================
