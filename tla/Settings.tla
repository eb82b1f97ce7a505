------------------------------ MODULE Settings ------------------------------
(***************************************************************************)
(* pkg/config: what FromPlugin makes of an [INPUT] block, and what          *)
(* FLBPluginInit makes of the two lists of streaming types.                *)
(*                                                                         *)
(* A block maps each key to what follows it: "" or <<>> if it is not there. *)
(* The lists are split and trimmed already; numbers are their text.        *)
(***************************************************************************)
EXTENDS Integers, Sequences, FiniteSets

CONSTANT
    Lower  \* the lower case of every text in the blocks that is not in lower case

ASSUME LowerAssumption ==
    /\ Lower \in [DOMAIN Lower -> STRING]
    /\ \A text \in DOMAIN Lower : Lower[text] \notin DOMAIN Lower

Lists == {"streaming_types", "prometheus_streaming_types"}
Numeric == {"port", "dcd_port", "refresh_interval", "prometheus_port"}
Required == {"dcd_server", "local_address", "dcd_release"}

\* What strconv.Atoi refuses
NotNumbers == {"ten", "7777a"}

LowerCase(text) == IF text \in DOMAIN Lower THEN Lower[text] ELSE text

Defaults ==
    [port |-> "7777", local_address |-> "", dcd_server |-> "", dcd_release |-> "",
     streaming_types |-> <<"perfmon", "alerts", "events">>, dcd_port |-> "443",
     refresh_interval |-> "30", output_format |-> "msgpack",
     prometheus_enabled |-> "off", prometheus_port |-> "9112",
     prometheus_streaming_types |-> <<>>]

Given(block, key) == IF key \in Lists THEN block[key] # <<>> ELSE block[key] # ""

Formats == {"", "msgpack", "influxdb", "json", "flat"}

\* FromPlugin returns no error.
Accepted(block) ==
    /\ \A key \in Numeric : block[key] \notin NotNumbers
    /\ LowerCase(block["output_format"]) \in Formats
    /\ \A key \in Required : Given(block, key)

\* The types to export are those to subscribe to, unless there is a list of its own.
FromPlugin(block) ==
    LET cfg == [key \in DOMAIN Defaults |->
                   IF Given(block, key) THEN block[key] ELSE Defaults[key]]
    IN  [cfg EXCEPT
            !.prometheus_enabled = LowerCase(@) \in {"true", "on", "yes"},
            !.output_format = IF LowerCase(@) \in {"json", "flat"} THEN "json" ELSE "msgpack",
            !.prometheus_streaming_types = IF @ = <<>> THEN cfg.streaming_types ELSE @]

LowerCases(types) == {LowerCase(types[i]) : i \in DOMAIN types}

\* promexport.New: the types it exports, whatever else the list holds.
Exported(cfg) ==
    LET known == {"perfmon", "alerts", "events"}
    IN  IF cfg.prometheus_streaming_types = <<>> THEN known
        ELSE known \intersect LowerCases(cfg.prometheus_streaming_types)

\* Faulty variant: types are compared as they are written.
SubscribeVerbatim(types, t) ==
    IF \E i \in DOMAIN types : types[i] = t THEN types ELSE Append(types, t)

Subscribe(types, t) ==
    IF LowerCase(t) \in LowerCases(types) THEN types ELSE Append(types, LowerCase(t))

\* The types after each one to export
Merged(types, export) ==
    LET merged[k \in 0..Len(export)] ==
            IF k = 0 THEN types ELSE Subscribe(merged[k - 1], export[k])
    IN  merged

\* FLBPluginInit: DCD is asked for the types to export, too.
Subscriptions(cfg) ==
    LET export == cfg.prometheus_streaming_types
    IN  IF cfg.prometheus_enabled THEN Merged(cfg.streaming_types, export)[Len(export)]
        ELSE cfg.streaming_types
=============================================================================
