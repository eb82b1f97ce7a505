------------------------------- MODULE Records -------------------------------
(***************************************************************************)
(* What a telemetry message becomes: the handler of a DCD release          *)
(* (pkg/decoder/v6_0_0 and v6_1_2, whose Extract functions are the same     *)
(* text over two generated schemas) and the record shaping of pkg/decoder.  *)
(*                                                                         *)
(* One step handles one message from its envelope to its records.  Values   *)
(* are told apart as MessageKinds does; a tag from the metadata caches is   *)
(* named after its origin, so that a tag that was replaced shows.  TLA+     *)
(* functions are values: decoder.CopyTags is the identity here.             *)
(***************************************************************************)
EXTENDS MessageKinds, Sequences

CONSTANTS
    Messages,      \* the messages of DCD, see MCRecords
    NoMessage,     \* the reader waits
    Now,           \* the host's clock
    MaxClockSkew,  \* decoder.MaxClockSkew
    MaxDuration,   \* the largest time.Duration
    Half           \* half of the values of the uint64 timestamp of release 6.0.0

\* The clock is more than a day after the epoch, and more than a day before the end of
\* the signed timestamps.
ASSUME ClockAssumption ==
    /\ MaxDuration \in Nat
    /\ MaxClockSkew \in 1..(MaxDuration - 1)
    /\ Now \in Nat /\ MaxClockSkew < Now
    /\ Half \in Nat /\ Now + MaxClockSkew < Half

VARIABLES
    message,  \* the message in the handler
    records   \* the records the handler returned for it

vars == <<message, records>>

V6_0_0 == INSTANCE Schema_v6_0_0
V6_1_2 == INSTANCE Schema_v6_1_2

Releases == {"6.0.0", "6.1.2"}
EventSchema(release) == IF release = "6.0.0" THEN V6_0_0!EventCases ELSE V6_1_2!EventCases
AlertSchema(release) == IF release = "6.0.0" THEN V6_0_0!AlertCases ELSE V6_1_2!AlertCases
CountersSchema(release) ==
    IF release = "6.0.0" THEN V6_0_0!InterfaceCounters ELSE V6_1_2!InterfaceCounters
ResourceSchema(release) ==
    IF release = "6.0.0" THEN V6_0_0!SysResourceCounters ELSE V6_1_2!SysResourceCounters
ProbeSchema(release) == IF release = "6.0.0" THEN V6_0_0!ProbeMessage ELSE V6_1_2!ProbeMessage

NoFields == [k \in {} |-> ""]
Get(data, key) == IF key \in DOMAIN data THEN data[key] ELSE ""
NonEmpty(f) == [k \in {key \in DOMAIN f : f[key] # ""} |-> f[k]]
Without(f, keys) == [k \in DOMAIN f \ keys |-> f[k]]
IsString(v) == v \in {"", "text"}
-----------------------------------------------------------------------------
(* pkg/decoder *)

\* The first of the values that is not empty, or ""
FirstOf(values) ==
    LET some == {i \in DOMAIN values : values[i] # ""}
    IN  IF some = {} THEN "" ELSE values[CHOOSE i \in some : \A j \in some : i <= j]

\* GetSystems and GetBlueprints of pkg/restapi: what they cache of an item.
System(item) ==
    [DeviceKey     |-> FirstOf(<<item.device_key, item.id>>),
     BlueprintID   |-> item.blueprint_id,
     BlueprintRole |-> FirstOf(<<item.active_role, item.status_role>>),
     BlueprintName |-> item.label]

Blueprint(item) ==
    [ID |-> item.id, Name |-> FirstOf(<<item.label, item.display_name, item.id>>)]

Tag(key, value) == IF value = "" THEN NoFields ELSE Entry(key, value)

\* GetSystemByKey and GetBlueprintByID; an origin has the items that the caches
\* were filled from.
GetTags(o) ==
    LET name == IF o.interface = "none" THEN NoFields ELSE Entry("interface", o.interface)
        sys  == {s \in {System(item) : item \in o.systems} : s.DeviceKey = o.key}
        bps  == {b \in {Blueprint(item) : item \in o.blueprints} :
                    \E s \in sys : s.BlueprintID # "" /\ b.ID = s.BlueprintID}
        s    == CHOOSE x \in sys : TRUE
    IN  name ++ Entry("device_key", o.key) ++
        (IF sys = {} THEN Entry("device", o.key)
         ELSE Tag("role", s.BlueprintRole)
              ++ [k \in IF bps = {} THEN {} ELSE {"blueprint"} |-> (CHOOSE b \in bps : TRUE).Name]
              ++ Tag("device_name", s.BlueprintName)
              ++ Entry("device", FirstOf(<<s.BlueprintName, o.key>>)))

\* json.Unmarshal makes every number a float64: it rounds what that cannot hold.
\* (A list or an object stands for whatever numbers are in it.)
Float(v) == IF v = "huge" THEN "rounded" ELSE v

\* One value that JSON cannot hold loses all the others.
ProtoToFields(data) ==
    IF \E k \in DOMAIN data : data[k] = "nan" THEN NoFields
    ELSE [k \in DOMAIN data |-> Float(data[k])]

\* time.Since saturates.
Since(t) ==
    LET d == Now - t
    IN  IF d > MaxDuration THEN MaxDuration ELSE IF d < -MaxDuration THEN -MaxDuration ELSE d

\* Faulty variant: only timestamps of the past are checked.
SanitizeTimestampPast(t) == IF Since(t) > MaxClockSkew THEN Now ELSE t

SanitizeTimestamp(t) ==
    IF Since(t) < -MaxClockSkew \/ Since(t) > MaxClockSkew THEN Now ELSE t

MakeRecord(series, tags, fields, ts) ==
    [series |-> series, tags |-> tags, fields |-> fields, ts |-> ts]

\* output_format json: fields replace tags, and both the first two keys.
FlatRecord(r) == r.fields ++ r.tags ++ [series |-> "series", _ts |-> "ts"]
-----------------------------------------------------------------------------
(* What a message can be *)

\* The tags that the caches give, and the two keys of a flat record
Kept == {"interface", "device_key", "device", "role", "blueprint", "device_name", "series", "_ts"}

\* Encoding a payload gives keys of its type with values of theirs.
Conforms(data, schema) ==
    /\ DOMAIN data \subseteq DOMAIN schema
    /\ \A k \in DOMAIN data : data[k] \in schema[k]

\* DCD lists a device once, and a blueprint has an id.
Inventory(o) ==
    /\ \A a, b \in o.systems : System(a).DeviceKey = System(b).DeviceKey => a = b
    /\ \A b \in o.blueprints : b.id # ""
    /\ "nan" \notin {o.interface, o.key}
    /\ \A s \in {System(item) : item \in o.systems} :
          "nan" \notin {s.DeviceKey, s.BlueprintID, s.BlueprintRole, s.BlueprintName}
    /\ \A b \in {Blueprint(item) : item \in o.blueprints} : "nan" \notin {b.ID, b.Name}

\* One case at most of one oneof is set, and it holds what the release's schema says.
Content(m) ==
    \/ m.case = "none"
    \/ m.oneof = "event" /\ \E c \in DOMAIN EventSchema(m.release) :
          m.case = c /\ Conforms(m.data, EventSchema(m.release)[c])
    \/ m.oneof = "alert" /\ \E c \in DOMAIN AlertSchema(m.release) :
          m.case = c /\ Conforms(m.data, AlertSchema(m.release)[c])
    \/ /\ m.oneof = "perf_mon" /\ m.case = "interface_counters"
       /\ Conforms(m.data, CountersSchema(m.release))
    \/ /\ m.oneof = "perf_mon" /\ m.case = "system_resource_counters"
       /\ \A i \in DOMAIN m.items :
             \E part \in DOMAIN ResourceSchema(m.release) :
                m.items[i].part = part /\ Conforms(m.items[i].data, ResourceSchema(m.release)[part])
    \/ /\ m.oneof = "perf_mon" /\ m.case = "probe_message"
       /\ Conforms(m.data, ProbeSchema(m.release))
       /\ \A i \in DOMAIN m.items :
             /\ IsString(m.items[i].data.value)
             /\ "prop_" \o m.items[i].data.name \notin Kept

Message(m) ==
    /\ m # NoMessage
    /\ m.release \in Releases /\ m.handler \in Releases
    /\ m.oneof \in {"none", "event", "alert", "perf_mon"}
    /\ m.stamped \in BOOLEAN /\ m.stamp \in Int
    /\ m.handler = "6.0.0" => m.stamp \in 0..(2 * Half - 1)
    /\ Len(m.items) \in Nat /\ DOMAIN m.items = 1..Len(m.items)
    /\ m.severity # "nan"
    /\ Inventory(m.origin)
    /\ Content(m)

ASSUME MessageAssumption == \A m \in Messages : Message(m)
-----------------------------------------------------------------------------
(* The Extract functions *)

\* Faulty variant: the name is deleted from the fields and is no tag.
ProcessInfoNameless(m, data, ts) ==
    MakeRecord("process_info", GetTags(m.origin),
               Without(ProtoToFields(data), {"process_name"}), ts)

ProcessInfo(m, data, ts) ==
    MakeRecord("process_info",
               Entry("process_name", Get(data, "process_name")) ++ GetTags(m.origin),
               Without(ProtoToFields(data), {"process_name"}), ts)

FileInfo(m, data, ts) ==
    MakeRecord("file_info",
               Entry("file_name", Get(data, "file_name")) ++ GetTags(m.origin),
               [size |-> IF Get(data, "file_size") = "" THEN "0" ELSE Get(data, "file_size")], ts)

SystemResource(m, item, ts) ==
    CASE item.part = "system_info" ->
            MakeRecord("system_info", GetTags(m.origin), ProtoToFields(item.data), ts)
      [] item.part = "process_info" -> ProcessInfo(m, item.data, ts)
      [] item.part = "file_info" -> FileInfo(m, item.data, ts)

ProbeTags(m) ==
    NonEmpty([k \in {"probe_id", "stage_name", "item_id", "probe_label"} |-> Get(m.data, k)])

\* Faulty variant: a property is a tag of its own name.
PropertyTagsBare(m) ==
    [k \in {m.items[i].data.name : i \in DOMAIN m.items} \ {""} |-> "text"]

\* The last property of a name wins.
PropertyTags(m) ==
    [k \in {"prop_" \o m.items[i].data.name :
                i \in {j \in DOMAIN m.items : m.items[j].data.name # ""}} |->
        LET last == CHOOSE i \in DOMAIN m.items :
                        /\ k = "prop_" \o m.items[i].data.name
                        /\ \A j \in DOMAIN m.items :
                              j > i => k # "prop_" \o m.items[j].data.name
        IN  m.items[last].data.value]

\* Faulty variant: text stays among the fields.
ExtractProbeDataWhole(m, ts) ==
    <<MakeRecord("probe_message", PropertyTags(m) ++ ProbeTags(m) ++ GetTags(m.origin),
                 ProtoToFields(m.data), ts)>>

ExtractProbeData(m, ts) ==
    LET all    == ProtoToFields(m.data)
        text   == {k \in DOMAIN all : IsString(all[k])}
        fields == Without(all, text)
        tags   == Without(all, DOMAIN all \ text) ++ PropertyTags(m) ++ ProbeTags(m)
                  ++ GetTags(m.origin)
    IN  <<MakeRecord("probe_message", tags,
                     IF fields = NoFields THEN Entry("probe", "number") ELSE fields, ts)>>

ExtractPerfMon(m, ts) ==
    CASE m.case = "interface_counters" ->
            <<MakeRecord("interface_counters", GetTags(m.origin), ProtoToFields(m.data), ts)>>
      [] m.case = "system_resource_counters" ->
            [i \in DOMAIN m.items |-> SystemResource(m, m.items[i], ts)]
      [] m.case = "probe_message" -> ExtractProbeData(m, ts)
      [] m.case = "none" -> <<>>

\* The lists of getters, one in each release's package
EventNames_v6_0_0 ==
    {"device_state", "streaming", "cable_peer", "bgp_neighbor", "link_status", "mac_state",
     "arp_state", "lag_state", "mlag_state", "extensible_event", "route_state"}

\* Faulty variant: the last event type was forgotten.
EventNamesShort ==
    {"device_state", "streaming", "cable_peer", "bgp_neighbor", "link_status", "mac_state",
     "arp_state", "lag_state", "mlag_state", "extensible_event"}

EventNames_v6_1_2 ==
    {"device_state", "streaming", "cable_peer", "bgp_neighbor", "link_status", "mac_state",
     "arp_state", "lag_state", "mlag_state", "extensible_event", "route_state"}

\* The names whose getter does not answer nil: one at most, as it is a oneof
EventsOf(m) ==
    IF m.handler = "6.0.0" THEN {n \in EventNames_v6_0_0 : V6_0_0!EventIs(m, n)}
    ELSE {n \in EventNames_v6_1_2 : V6_1_2!EventIs(m, n)}

\* fmt's %v of a float64 from a million on has an exponent; whatever else the values
\* are, they and their texts tell each other.
Printed(v) == CASE v = "large" -> "1e+06" [] v = "rounded" -> "1e+16" [] OTHER -> v

\* The payload of an event or an alert as tags
TextTags(data) ==
    LET all == ProtoToFields(data) IN NonEmpty([k \in DOMAIN all |-> Printed(all[k])])

ExtractEventData(m, ts) ==
    IF EventsOf(m) = {} THEN <<>>
    ELSE <<MakeRecord(<<"event", CHOOSE n \in EventsOf(m) : TRUE>>,
                      TextTags(m.data) ++ GetTags(m.origin),
                      [event |-> "number"], ts)>>

AlertNames_v6_0_0 ==
    {"config_deviation_alert", "streaming_alert", "cable_peer_mismatch_alert",
     "bgp_neighbor_mismatch_alert", "interface_link_status_mismatch_alert",
     "hostname_alert", "route_alert", "liveness_alert", "deployment_alert",
     "blueprint_rendering_alert", "mac_alert", "arp_alert", "lag_alert", "mlag_alert",
     "probe_alert", "extensible_alert", "test_alert"}

AlertNames_v6_1_2 ==
    {"config_deviation_alert", "streaming_alert", "cable_peer_mismatch_alert",
     "bgp_neighbor_mismatch_alert", "interface_link_status_mismatch_alert",
     "hostname_alert", "route_alert", "liveness_alert", "deployment_alert",
     "blueprint_rendering_alert", "mac_alert", "arp_alert", "lag_alert", "mlag_alert",
     "probe_alert", "extensible_alert", "test_alert"}

AlertsOf(m) ==
    IF m.handler = "6.0.0" THEN {n \in AlertNames_v6_0_0 : V6_0_0!AlertIs(m, n)}
    ELSE {n \in AlertNames_v6_1_2 : V6_1_2!AlertIs(m, n)}

ExtractAlertData(m, ts) ==
    IF AlertsOf(m) = {} THEN <<>>
    ELSE <<MakeRecord(<<"alert", CHOOSE n \in AlertsOf(m) : TRUE>>,
                      TextTags(m.data) ++ Entry("severity", m.severity)
                      ++ GetTags(m.origin),
                      [status |-> IF m.raised THEN "1" ELSE "0"], ts)>>
-----------------------------------------------------------------------------
(* DecodeMessage and NewHandler *)

\* time.UnixMicro(int64(t)) of an unsigned t; 0 is an absent timestamp.
MicrosTime(m) ==
    IF ~m.stamped \/ m.stamp = 0 THEN Now
    ELSE SanitizeTimestamp(IF m.stamp < Half THEN m.stamp ELSE m.stamp - 2 * Half)

\* A Timestamp message, which may be absent.
MessageTime(m) == IF m.stamped THEN SanitizeTimestamp(m.stamp) ELSE Now

DecodeMessage(m) ==
    LET ts == IF m.handler = "6.0.0" THEN MicrosTime(m) ELSE MessageTime(m)
    IN  CASE m.oneof = "perf_mon" -> ExtractPerfMon(m, ts)
          [] m.oneof = "event" -> ExtractEventData(m, ts)
          [] m.oneof = "alert" -> ExtractAlertData(m, ts)
          [] m.oneof = "none" -> <<>>

\* What the handler finds in the field where its schema has the embedded message:
\* another release keeps it elsewhere, and a message sent without its envelope
\* has its origin_name there (6.1.2) or nothing at all (6.0.0).
Embedded(m) ==
    LET field == IF m.handler = "6.0.0" THEN V6_0_0!DcdProto ELSE V6_1_2!DcdProto
        bare  == IF m.release = "6.0.0" THEN V6_0_0!DcdMessage ELSE V6_1_2!DcdMessage
    IN  IF m.wire = "sequenced" /\ m.handler = m.release THEN "message"
        ELSE IF m.wire = "bare" /\ field \in bare /\ m.origin.key # "" THEN "name"
        ELSE "nothing"

Init == message = NoMessage /\ records = <<>>

\* Unmarshal error: logged, and the next message is read.  A name may parse.
Reject(m) ==
    /\ m.wire = "garbage" \/ Embedded(m) = "name"
    /\ message' = m
    /\ records' = <<>>

\* Where nothing is embedded there is an empty DcdMessage, which is no error.
Decode(m) ==
    /\ m.wire # "garbage"
    /\ message' = m
    /\ records' = IF Embedded(m) = "message" THEN DecodeMessage(m) ELSE <<>>

\* The records go to the channel, see module Pipeline.
ReadNext ==
    /\ message # NoMessage
    /\ message' = NoMessage
    /\ records' = <<>>

HandleNext == message = NoMessage /\ \E m \in Messages : Reject(m) \/ Decode(m)

Next == HandleNext \/ ReadNext

Spec == Init /\ [][Next]_vars
-----------------------------------------------------------------------------
(* Properties *)

\* A record has text in its tags and anything else in its fields, whichever message
\* it comes from: no field is a string, and nothing JSON cannot hold is left.
TypeOK ==
    /\ message = NoMessage => records = <<>>
    /\ \A i \in DOMAIN records :
          /\ \A k \in DOMAIN records[i].tags : records[i].tags[k] # "nan"
          /\ \A k \in DOMAIN records[i].fields : records[i].fields[k] \notin {"", "text", "nan"}

\* The device, its role, its blueprint and the interface are in every record as the
\* caches have them, in either format: no field of either schema, no property of a
\* probe and no other tag replaces one of them, or the record's series and time.
\* A system that names a blueprint of the cache gets a name for it, and a role if
\* the inventory has one under either of its keys.
EnrichmentKept ==
    \A i \in DOMAIN records :
        LET flat == FlatRecord(records[i])
            kept == GetTags(message.origin) ++ [series |-> "series", _ts |-> "ts"]
        IN  /\ \A k \in DOMAIN kept : k \in DOMAIN flat /\ flat[k] = kept[k]
            /\ \A item \in message.origin.systems :
                  FirstOf(<<item.device_key, item.id>>) = message.origin.key =>
                     /\ item.active_role # "" \/ item.status_role # "" => Get(flat, "role") # ""
                     /\ (\E b \in message.origin.blueprints : b.id = item.blueprint_id)
                          => Get(flat, "blueprint") # ""

\* The part of message m that becomes record i
Payload(m, i) ==
    IF m.case = "system_resource_counters" THEN m.items[i].data ELSE m.data

Flattened(key) == IF key = "file_size" THEN "size" ELSE key

\* What a record may have for a value: a number of a million or more can come out as
\* text with an exponent, and one that a float64 cannot hold as the nearest it can.
Same(v, w) ==
    \/ w = v
    \/ v = "large" /\ w = "1e+06"
    \/ v \in {"huge", "rounded"} /\ w \in {"rounded", "1e+16"}

\* Every value of the message that is not empty has its place in the record, under
\* its own key, unless the message holds a number that JSON cannot: the splits into
\* tags and fields and the deleted keys lose nothing.  Text, small numbers and the
\* rest come through as they are; large numbers only as a float64 or its text,
\* which for 64 bits is not always the number that DCD sent.
NothingLost ==
    \A i \in DOMAIN records :
        LET data == Payload(message, i)
            flat == FlatRecord(records[i])
        IN  (\A k \in DOMAIN data : data[k] # "nan") =>
                \A k \in DOMAIN NonEmpty(data) :
                    Flattened(k) \in DOMAIN flat /\ Same(data[k], flat[Flattened(k)])

\* The number of records a message is worth, by its schema alone
Worth(m) ==
    IF m.wire # "sequenced" \/ m.handler # m.release \/ m.case = "none" THEN 0
    ELSE IF m.case = "system_resource_counters" THEN Len(m.items)
    ELSE 1

\* Every case of every oneof of both schemas has its record: none of the lists of
\* getters, kept by hand beside generated code, misses one.
Recorded == message # NoMessage => Len(records) = Worth(message)

\* A record's time is what DCD said if that is within a day of the host's clock, a
\* day included, and the host's otherwise, however far off: neither the
\* conversion to a signed integer nor a saturated difference lets one through.
StampRight ==
    \A i \in DOMAIN records :
        records[i].ts = IF /\ message.stamped
                           /\ message.stamp \in (Now - MaxClockSkew)..(Now + MaxClockSkew)
                        THEN message.stamp ELSE Now

\* README.md:107-109: "If a key:value pair has an empty value, it will not be
\* emitted as part of the record."
NoEmptyValues ==
    \A i \in DOMAIN records :
        LET flat == FlatRecord(records[i]) IN \A k \in DOMAIN flat : flat[k] # ""
=============================================================================
