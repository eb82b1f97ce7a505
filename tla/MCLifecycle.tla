---------------------------- MODULE MCLifecycle ----------------------------
(* Lifecycle for TLC: p, whose exporter wants types it does not subscribe to, in   *)
(* another spelling; q, whose exporter wants the port p listens on and exports     *)
(* what it subscribes to; r, whose release has no handler; s, without an exporter, *)
(* which can run beside p; and t, with a broken block.                             *)
EXTENDS Lifecycle

MCLower == [PerfMon |-> "perfmon", ALERTS |-> "alerts", ON |-> "on", JSON |-> "json"]

Plain == [key \in DOMAIN Defaults |-> IF key \in Lists THEN <<>> ELSE
             CASE key \in {"dcd_server", "local_address"} -> "given"
               [] key = "dcd_release" -> "6.0.0"
               [] OTHER -> ""]

MCBlock ==
    [p |-> [Plain EXCEPT !.streaming_types = <<"PerfMon", "", "">>, !.prometheus_enabled = "ON",
                         !.prometheus_streaming_types = <<"alerts", "perfmon", "ALERTS">>],
     q |-> [Plain EXCEPT !.port = "7778", !.dcd_release = "6.1.2", !.prometheus_enabled = "true",
                         !.prometheus_port = "7777"],
     r |-> [Plain EXCEPT !.prometheus_enabled = "yes", !.prometheus_port = "7778",
                         !.dcd_release = "5.1.0"],
     s |-> [Plain EXCEPT !.port = "7778", !.output_format = "JSON"],
     t |-> [Plain EXCEPT !.port = "ten"]]
=============================================================================
