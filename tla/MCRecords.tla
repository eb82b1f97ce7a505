------------------------------ MODULE MCRecords ------------------------------
(* Every case of both schemas, with payloads that set none of their keys, all,   *)
(* all with empty text, one alone, or one to each of the values it can have.      *)
EXTENDS Records, FiniteSets

V600 == "6.0.0"
V612 == "6.1.2"

Odd == {"", "nan", "null", "0"}
Usual(values) ==
    IF values \subseteq Odd THEN CHOOSE v \in values : TRUE ELSE CHOOSE v \in values : v \notin Odd
Filled(s)  == [k \in DOMAIN s |-> Usual(s[k])]
Blank(s)   == [k \in DOMAIN s |-> IF "" \in s[k] THEN "" ELSE Usual(s[k])]
Lone(s)    == {k :> Usual(s[k]) : k \in DOMAIN s}
Varied(s)  == UNION {{[Filled(s) EXCEPT ![k] = v] : v \in s[k]} : k \in DOMAIN s}
Payloads(s) == {NoFields, Filled(s), Blank(s)} \union Lone(s) \union Varied(s)

Systems == [id : {"id"}, device_key : {"key", ""}, blueprint_id : {"bp", ""},
            active_role : {"active", ""}, status_role : {"role", ""}, label : {"name", ""}]
Blueprints == [id : {"bp"}, label : {"label", ""}, display_name : {"shown", ""}]
KnownSystem == [id |-> "id", device_key |-> "key", blueprint_id |-> "bp", active_role |-> "active",
          status_role |-> "role", label |-> "name"]
Origin == [interface |-> "ifname", key |-> "key", systems |-> {KnownSystem},
           blueprints |-> {[id |-> "bp", label |-> "label", display_name |-> "shown"]}]
Origins ==
    UNION {{Origin, [Origin EXCEPT !.systems = {}]},
           {[Origin EXCEPT !.interface = i, !.key = k] : i \in {"none", ""}, k \in {"key", ""}},
           {[Origin EXCEPT !.systems = {s}] : s \in Systems},
           {[Origin EXCEPT !.key = "id", !.systems = {s}] : s \in Systems},
           {[Origin EXCEPT !.blueprints = {b}] : b \in Blueprints}}

Base(release) ==
    [wire |-> "sequenced", release |-> release, handler |-> release, origin |-> Origin,
     stamped |-> TRUE, stamp |-> Now, oneof |-> "none", case |-> "none", data |-> NoFields,
     items |-> <<>>, severity |-> "ALERT_LOW", raised |-> FALSE]

EventMessages(release, cases, P(_)) ==
    UNION {{[Base(release) EXCEPT !.oneof = "event", !.case = c, !.data = p] :
                p \in P(cases[c])} : c \in DOMAIN cases}

AlertMessages(release, cases, alerts, P(_)) ==
    UNION {{[Base(release) EXCEPT !.oneof = "alert", !.case = c, !.data = p,
                                  !.severity = a.severity, !.raised = a.raised] :
                p \in P(cases[c]), a \in alerts} : c \in DOMAIN cases}

\* An optional system_info, then processes, then files
Resources(parts, P(_)) ==
    LET of(part) == {[part |-> part, data |-> p] : p \in P(parts[part])}
        some(part) == [part |-> part, data |-> Filled(parts[part])]
    IN  {<<>>} \union {<<x>> : x \in UNION {of(part) : part \in DOMAIN parts}}
        \union {<<some("system_info"), x, y, some("file_info")>> :
                    x \in of("process_info"), y \in of("process_info")}
        \union {<<some("process_info"), x, y>> : x \in of("file_info"), y \in of("file_info")}

ResourceMessages(release, parts, P(_)) ==
    {[Base(release) EXCEPT !.oneof = "perf_mon", !.case = "system_resource_counters",
                           !.items = r] : r \in Resources(parts, P)}

Properties ==
    LET property == {[part |-> "property", data |-> [name |-> n, value |-> v]] :
                        n \in {"", "device", "vendor"}, v \in {"", "text"}}
    IN  {<<>>} \union {<<p>> : p \in property} \union {<<p, q>> : p \in property, q \in property}

\* The Value key is there whatever is set; the list is, if it is not empty.
ProbeMessages(release, schema, P(_)) ==
    {[Base(release) EXCEPT !.oneof = "perf_mon", !.case = "probe_message", !.items = ps,
        !.data = (IF ps = <<>> THEN NoFields ELSE "property" :> "list")
                 @@ Without(p, {"property"}) @@ ("Value" :> "null")] :
        p \in P(schema), ps \in Properties}

InterfaceMessages(release, schema, P(_)) ==
    {[Base(release) EXCEPT !.oneof = "perf_mon", !.case = "interface_counters", !.data = p] :
        p \in P(schema)}

MessagesWith(P(_)) ==
    UNION {EventMessages(V600, V6_0_0!EventCases, P), EventMessages(V612, V6_1_2!EventCases, P),
           AlertMessages(V600, V6_0_0!AlertCases, V6_0_0!Alert, P),
           AlertMessages(V612, V6_1_2!AlertCases, V6_1_2!Alert, P),
           ResourceMessages(V600, V6_0_0!SysResourceCounters, P),
           ResourceMessages(V612, V6_1_2!SysResourceCounters, P),
           ProbeMessages(V600, V6_0_0!ProbeMessage, P), ProbeMessages(V612, V6_1_2!ProbeMessage, P),
           InterfaceMessages(V600, V6_0_0!InterfaceCounters, P),
           InterfaceMessages(V612, V6_1_2!InterfaceCounters, P)}

\* Messages of each case with all their keys, and those without a case
Full(s) == {Filled(s)}
Samples ==
    MessagesWith(Full)
    \union {[Base(r) EXCEPT !.oneof = o] : r \in {V600, V612}, o \in {"none", "event", "alert", "perf_mon"}}

Short == {m \in Samples : Len(m.items) < 2 /\ m.severity = "ALERT_LOW" /\ ~m.raised}
Stamps(release) ==
    IF release = V600 THEN 0..(2 * Half - 1) ELSE (Now - 2 * MaxDuration)..(Now + 2 * MaxDuration)

\* For the origins and the stamps, which no case looks at
Few == {m \in Short : m.case \in {"none", "link_status", "probe_alert", "probe_message",
                                  "system_resource_counters"}}

AllMessages ==
    UNION {MessagesWith(Payloads), Samples,
           {[m EXCEPT !.origin = o] : m \in Few, o \in Origins},
           UNION {{[m EXCEPT !.stamp = t] : t \in Stamps(m.release)} : m \in Few},
           {[m EXCEPT !.stamped = FALSE] : m \in Short},
           {[m EXCEPT !.wire = w, !.handler = r, !.origin.key = k] : m \in Short,
               r \in {V600, V612}, w \in {"sequenced", "bare", "garbage"}, k \in {"", "key"}}}
=============================================================================
