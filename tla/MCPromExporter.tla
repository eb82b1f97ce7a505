--------------------------- MODULE MCPromExporter ---------------------------
(* PromExporter on a small instance for TLC: two PerfMon series that share a *)
(* metric name, an alert and an event series, two tag keys, one field.       *)
EXTENDS PromExporter

MCMetricName ==
    [s \in {"p1", "p2", "alert_a", "event_e"} |->
        [f \in {"value"} |-> IF s \in {"p1", "p2"} THEN "shared" ELSE s]]
=============================================================================
