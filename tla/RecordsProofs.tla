---------------------------- MODULE RecordsProofs ----------------------------
(***************************************************************************)
(* Theorems about module Records, for any messages that conform to the     *)
(* two schemas, and any clock.                                              *)
(***************************************************************************)
EXTENDS Records, Tables
-----------------------------------------------------------------------------
(* The timestamp *)

Plausible(t) == t \in (Now - MaxClockSkew)..(Now + MaxClockSkew)

TimeOf(m) == IF m.handler = "6.0.0" THEN MicrosTime(m) ELSE MessageTime(m)

\* A difference that saturates is beyond a day all the same.
LEMMA SanitizedTime ==
    ASSUME NEW t \in Int
    PROVE  SanitizeTimestamp(t) = IF Plausible(t) THEN t ELSE Now
BY ClockAssumption DEF SanitizeTimestamp, Since, Plausible

\* An unsigned timestamp beyond the signed ones is taken for one before the epoch.
LEMMA MessageStamp ==
    ASSUME NEW m \in Messages
    PROVE  TimeOf(m) = IF m.stamped /\ Plausible(m.stamp) THEN m.stamp ELSE Now
<1>1. m.stamped \in BOOLEAN /\ m.stamp \in Int /\ (m.handler = "6.0.0" => m.stamp \in 0..(2 * Half - 1))
  BY MessageAssumption DEF Message
<1>2. CASE m.handler # "6.0.0"
  BY <1>1, <1>2, SanitizedTime DEF TimeOf, MessageTime
<1>3. CASE m.handler = "6.0.0"
  <2>1. CASE ~m.stamped \/ m.stamp = 0
    <3>1. ~Plausible(0)
      BY ClockAssumption DEF Plausible
    <3>2. QED
      BY <1>3, <2>1, <3>1 DEF TimeOf, MicrosTime
  <2>2. CASE m.stamped /\ m.stamp # 0 /\ m.stamp < Half
    BY <1>1, <1>3, <2>2, SanitizedTime DEF TimeOf, MicrosTime
  <2>3. CASE m.stamped /\ m.stamp # 0 /\ ~(m.stamp < Half)
    <3>1. m.stamp - 2 * Half \in Int /\ m.stamp - 2 * Half < 0 /\ m.stamp >= Half
      BY <1>1, <1>3, <2>3, ClockAssumption
    <3>2. ~Plausible(m.stamp - 2 * Half) /\ ~Plausible(m.stamp)
      BY <1>1, <3>1, ClockAssumption DEF Plausible
    <3>3. SanitizeTimestamp(m.stamp - 2 * Half) = Now
      BY <3>1, <3>2, SanitizedTime
    <3>4. QED
      BY <1>3, <2>3, <3>2, <3>3 DEF TimeOf, MicrosTime
  <2>4. QED
    BY <2>1, <2>2, <2>3
<1>4. QED
  BY <1>2, <1>3
-----------------------------------------------------------------------------
(* Keys *)

LEMMA Merged ==
    ASSUME NEW f, NEW g
    PROVE  /\ DOMAIN (f ++ g) = DOMAIN f \union DOMAIN g
           /\ \A k \in DOMAIN f : (f ++ g)[k] = f[k]
           /\ \A k \in DOMAIN g \ DOMAIN f : (f ++ g)[k] = g[k]
BY DEF ++

LEMMA EntryForm ==
    ASSUME NEW key, NEW value
    PROVE  DOMAIN Entry(key, value) = {key} /\ Entry(key, value)[key] = value
BY DEF Entry
-----------------------------------------------------------------------------
(* The schemas *)

\* No key of a type is one of the caches' tags, nor one of the given names.
Free(schema, names) == \A k \in DOMAIN schema : k \notin Kept /\ k \notin names

LEMMA EventKeys_v6_0_0 ==
    \A c \in DOMAIN V6_0_0!EventCases : Free(V6_0_0!EventCases[c], {"event", "file_size"})
<1>1. Free(V6_0_0!DeviceStateEvent, {"event", "file_size"})
  BY DEF Free, Kept, V6_0_0!DeviceStateEvent
<1>2. Free(V6_0_0!StreamingEvent, {"event", "file_size"})
  BY DEF Free, Kept, V6_0_0!StreamingEvent, V6_0_0!Strings, V6_0_0!++
<1>3. Free(V6_0_0!CablePeerEvent, {"event", "file_size"})
  BY DEF Free, Kept, V6_0_0!CablePeerEvent, V6_0_0!Strings
<1>4. Free(V6_0_0!BGPNeighborEvent, {"event", "file_size"})
  BY DEF Free, Kept, V6_0_0!BGPNeighborEvent, V6_0_0!Strings, V6_0_0!Numbers, V6_0_0!++
<1>5. Free(V6_0_0!LinkStatusEvent, {"event", "file_size"})
  BY DEF Free, Kept, V6_0_0!LinkStatusEvent, V6_0_0!Strings, V6_0_0!++
<1>6. Free(V6_0_0!MacEvent, {"event", "file_size"})
  BY DEF Free, Kept, V6_0_0!MacEvent, V6_0_0!Strings, V6_0_0!Numbers, V6_0_0!++
<1>7. Free(V6_0_0!ArpEvent, {"event", "file_size"})
  BY DEF Free, Kept, V6_0_0!ArpEvent, V6_0_0!Strings, V6_0_0!++
<1>8. Free(V6_0_0!LagEvent, {"event", "file_size"})
  BY DEF Free, Kept, V6_0_0!LagEvent, V6_0_0!Strings, V6_0_0!Numbers, V6_0_0!Lists, V6_0_0!++
<1>9. Free(V6_0_0!MlagEvent, {"event", "file_size"})
  BY DEF Free, Kept, V6_0_0!MlagEvent, V6_0_0!Strings, V6_0_0!++
<1>10. Free(V6_0_0!ExtensibleServiceEvent, {"event", "file_size"})
  BY DEF Free, Kept, V6_0_0!ExtensibleServiceEvent, V6_0_0!Strings
<1>11. Free(V6_0_0!RouteEvent, {"event", "file_size"})
  BY DEF Free, Kept, V6_0_0!RouteEvent, V6_0_0!Strings, V6_0_0!++
<1>12. QED
  BY <1>1, <1>2, <1>3, <1>4, <1>5, <1>6, <1>7, <1>8, <1>9, <1>10, <1>11 DEF V6_0_0!EventCases

LEMMA AlertKeys_v6_0_0 ==
    \A c \in DOMAIN V6_0_0!AlertCases : Free(V6_0_0!AlertCases[c], {"status", "file_size"})
<1>1. Free(V6_0_0!ConfigDeviationAlert, {"status", "file_size"})
  BY DEF Free, Kept, V6_0_0!ConfigDeviationAlert, V6_0_0!Strings
<1>2. Free(V6_0_0!StreamingAlert, {"status", "file_size"})
  BY DEF Free, Kept, V6_0_0!StreamingAlert, V6_0_0!Strings, V6_0_0!++
<1>3. Free(V6_0_0!CablePeerMismatchAlert, {"status", "file_size"})
  BY DEF Free, Kept, V6_0_0!CablePeerMismatchAlert, V6_0_0!Strings
<1>4. Free(V6_0_0!BGPNeighborMismatchAlert, {"status", "file_size"})
  BY DEF Free, Kept, V6_0_0!BGPNeighborMismatchAlert, V6_0_0!Strings, V6_0_0!Numbers, V6_0_0!++
<1>5. Free(V6_0_0!InterfaceLinkStatusMismatchAlert, {"status", "file_size"})
  BY DEF Free, Kept, V6_0_0!InterfaceLinkStatusMismatchAlert, V6_0_0!Strings, V6_0_0!++
<1>6. Free(V6_0_0!HostnameAlert, {"status", "file_size"})
  BY DEF Free, Kept, V6_0_0!HostnameAlert, V6_0_0!Strings
<1>7. Free(V6_0_0!RouteAlert, {"status", "file_size"})
  BY DEF Free, Kept, V6_0_0!RouteAlert, V6_0_0!Strings, V6_0_0!++
<1>8. Free(V6_0_0!LivenessAlert, {"status", "file_size"})
  BY DEF Free, Kept, V6_0_0!LivenessAlert, V6_0_0!Bools, V6_0_0!Lists, V6_0_0!++
<1>9. Free(V6_0_0!DeploymentAlert, {"status", "file_size"})
  BY DEF Free, Kept, V6_0_0!DeploymentAlert
<1>10. Free(V6_0_0!BlueprintRenderingAlert, {"status", "file_size"})
  BY DEF Free, Kept, V6_0_0!BlueprintRenderingAlert, V6_0_0!Lists
<1>11. Free(V6_0_0!MacAlert, {"status", "file_size"})
  BY DEF Free, Kept, V6_0_0!MacAlert, V6_0_0!Strings, V6_0_0!Numbers, V6_0_0!Floats, V6_0_0!++
<1>12. Free(V6_0_0!ArpAlert, {"status", "file_size"})
  BY DEF Free, Kept, V6_0_0!ArpAlert, V6_0_0!Strings
<1>13. Free(V6_0_0!LagAlert, {"status", "file_size"})
  BY DEF Free, Kept, V6_0_0!LagAlert, V6_0_0!Strings, V6_0_0!Numbers, V6_0_0!Lists, V6_0_0!++
<1>14. Free(V6_0_0!MlagAlert, {"status", "file_size"})
  BY DEF Free, Kept, V6_0_0!MlagAlert, V6_0_0!Strings, V6_0_0!Numbers, V6_0_0!++
<1>15. Free(V6_0_0!ProbeAlert, {"status", "file_size"})
  BY DEF Free, Kept, V6_0_0!ProbeAlert, V6_0_0!Strings, V6_0_0!Longs, V6_0_0!Lists, V6_0_0!Floats, V6_0_0!++
<1>16. Free(V6_0_0!ExtensibleAlert, {"status", "file_size"})
  BY DEF Free, Kept, V6_0_0!ExtensibleAlert, V6_0_0!Strings
<1>17. Free(V6_0_0!TestAlert, {"status", "file_size"})
  BY DEF Free, Kept, V6_0_0!TestAlert, V6_0_0!Longs
<1>18. QED
  BY <1>1, <1>2, <1>3, <1>4, <1>5, <1>6, <1>7, <1>8, <1>9, <1>10, <1>11, <1>12, <1>13, <1>14, <1>15, <1>16, <1>17 DEF V6_0_0!AlertCases

LEMMA EventKeys_v6_1_2 ==
    \A c \in DOMAIN V6_1_2!EventCases : Free(V6_1_2!EventCases[c], {"event", "file_size"})
<1>1. Free(V6_1_2!DeviceStateEvent, {"event", "file_size"})
  BY DEF Free, Kept, V6_1_2!DeviceStateEvent
<1>2. Free(V6_1_2!StreamingEvent, {"event", "file_size"})
  BY DEF Free, Kept, V6_1_2!StreamingEvent, V6_1_2!Strings, V6_1_2!++
<1>3. Free(V6_1_2!CablePeerEvent, {"event", "file_size"})
  BY DEF Free, Kept, V6_1_2!CablePeerEvent, V6_1_2!Strings
<1>4. Free(V6_1_2!BGPNeighborEvent, {"event", "file_size"})
  BY DEF Free, Kept, V6_1_2!BGPNeighborEvent, V6_1_2!Strings, V6_1_2!Numbers, V6_1_2!++
<1>5. Free(V6_1_2!LinkStatusEvent, {"event", "file_size"})
  BY DEF Free, Kept, V6_1_2!LinkStatusEvent, V6_1_2!Strings, V6_1_2!++
<1>6. Free(V6_1_2!MacEvent, {"event", "file_size"})
  BY DEF Free, Kept, V6_1_2!MacEvent, V6_1_2!Strings, V6_1_2!Numbers, V6_1_2!++
<1>7. Free(V6_1_2!ArpEvent, {"event", "file_size"})
  BY DEF Free, Kept, V6_1_2!ArpEvent, V6_1_2!Strings, V6_1_2!++
<1>8. Free(V6_1_2!LagEvent, {"event", "file_size"})
  BY DEF Free, Kept, V6_1_2!LagEvent, V6_1_2!Strings, V6_1_2!Numbers, V6_1_2!Lists, V6_1_2!++
<1>9. Free(V6_1_2!MlagEvent, {"event", "file_size"})
  BY DEF Free, Kept, V6_1_2!MlagEvent, V6_1_2!Strings, V6_1_2!++
<1>10. Free(V6_1_2!ExtensibleServiceEvent, {"event", "file_size"})
  BY DEF Free, Kept, V6_1_2!ExtensibleServiceEvent, V6_1_2!Strings
<1>11. Free(V6_1_2!RouteEvent, {"event", "file_size"})
  BY DEF Free, Kept, V6_1_2!RouteEvent, V6_1_2!Strings, V6_1_2!++
<1>12. QED
  BY <1>1, <1>2, <1>3, <1>4, <1>5, <1>6, <1>7, <1>8, <1>9, <1>10, <1>11 DEF V6_1_2!EventCases

LEMMA AlertKeys_v6_1_2 ==
    \A c \in DOMAIN V6_1_2!AlertCases : Free(V6_1_2!AlertCases[c], {"status", "file_size"})
<1>1. Free(V6_1_2!ConfigDeviationAlert, {"status", "file_size"})
  BY DEF Free, Kept, V6_1_2!ConfigDeviationAlert, V6_1_2!Strings
<1>2. Free(V6_1_2!StreamingAlert, {"status", "file_size"})
  BY DEF Free, Kept, V6_1_2!StreamingAlert, V6_1_2!Strings, V6_1_2!++
<1>3. Free(V6_1_2!CablePeerMismatchAlert, {"status", "file_size"})
  BY DEF Free, Kept, V6_1_2!CablePeerMismatchAlert, V6_1_2!Strings
<1>4. Free(V6_1_2!BGPNeighborMismatchAlert, {"status", "file_size"})
  BY DEF Free, Kept, V6_1_2!BGPNeighborMismatchAlert, V6_1_2!Strings, V6_1_2!Numbers, V6_1_2!++
<1>5. Free(V6_1_2!InterfaceLinkStatusMismatchAlert, {"status", "file_size"})
  BY DEF Free, Kept, V6_1_2!InterfaceLinkStatusMismatchAlert, V6_1_2!Strings, V6_1_2!++
<1>6. Free(V6_1_2!HostnameAlert, {"status", "file_size"})
  BY DEF Free, Kept, V6_1_2!HostnameAlert, V6_1_2!Strings
<1>7. Free(V6_1_2!RouteAlert, {"status", "file_size"})
  BY DEF Free, Kept, V6_1_2!RouteAlert, V6_1_2!Strings, V6_1_2!++
<1>8. Free(V6_1_2!LivenessAlert, {"status", "file_size"})
  BY DEF Free, Kept, V6_1_2!LivenessAlert, V6_1_2!Bools, V6_1_2!Lists, V6_1_2!++
<1>9. Free(V6_1_2!DeploymentAlert, {"status", "file_size"})
  BY DEF Free, Kept, V6_1_2!DeploymentAlert
<1>10. Free(V6_1_2!BlueprintRenderingAlert, {"status", "file_size"})
  BY DEF Free, Kept, V6_1_2!BlueprintRenderingAlert, V6_1_2!Lists
<1>11. Free(V6_1_2!MacAlert, {"status", "file_size"})
  BY DEF Free, Kept, V6_1_2!MacAlert, V6_1_2!Strings, V6_1_2!Numbers, V6_1_2!Objects, V6_1_2!++
<1>12. Free(V6_1_2!ArpAlert, {"status", "file_size"})
  BY DEF Free, Kept, V6_1_2!ArpAlert, V6_1_2!Strings
<1>13. Free(V6_1_2!LagAlert, {"status", "file_size"})
  BY DEF Free, Kept, V6_1_2!LagAlert, V6_1_2!Strings, V6_1_2!Numbers, V6_1_2!Lists, V6_1_2!++
<1>14. Free(V6_1_2!MlagAlert, {"status", "file_size"})
  BY DEF Free, Kept, V6_1_2!MlagAlert, V6_1_2!Strings, V6_1_2!Numbers, V6_1_2!++
<1>15. Free(V6_1_2!ProbeAlert, {"status", "file_size"})
  BY DEF Free, Kept, V6_1_2!ProbeAlert, V6_1_2!Strings, V6_1_2!Longs, V6_1_2!Lists, V6_1_2!Floats, V6_1_2!++
<1>16. Free(V6_1_2!ExtensibleAlert, {"status", "file_size"})
  BY DEF Free, Kept, V6_1_2!ExtensibleAlert, V6_1_2!Strings
<1>17. Free(V6_1_2!TestAlert, {"status", "file_size"})
  BY DEF Free, Kept, V6_1_2!TestAlert, V6_1_2!Longs
<1>18. QED
  BY <1>1, <1>2, <1>3, <1>4, <1>5, <1>6, <1>7, <1>8, <1>9, <1>10, <1>11, <1>12, <1>13, <1>14, <1>15, <1>16, <1>17 DEF V6_1_2!AlertCases

\* The lists of getters, kept by hand in the decoders, have every case of the schemas.
LEMMA NamesComplete ==
    /\ EventNames_v6_0_0 = DOMAIN V6_0_0!EventCases
    /\ EventNames_v6_1_2 = DOMAIN V6_1_2!EventCases
    /\ AlertNames_v6_0_0 = DOMAIN V6_0_0!AlertCases
    /\ AlertNames_v6_1_2 = DOMAIN V6_1_2!AlertCases
<1>1. EventNames_v6_0_0 = DOMAIN V6_0_0!EventCases
  BY DEF EventNames_v6_0_0, V6_0_0!EventCases
<1>2. EventNames_v6_1_2 = DOMAIN V6_1_2!EventCases
  BY DEF EventNames_v6_1_2, V6_1_2!EventCases
<1>3. AlertNames_v6_0_0 = DOMAIN V6_0_0!AlertCases
  BY DEF AlertNames_v6_0_0, V6_0_0!AlertCases
<1>4. AlertNames_v6_1_2 = DOMAIN V6_1_2!AlertCases
  BY DEF AlertNames_v6_1_2, V6_1_2!AlertCases
<1>5. QED
  BY <1>1, <1>2, <1>3, <1>4

\* No case is called as the repeated part of a PerfMon message, or as none.
LEMMA CaseNames ==
    \A c \in EventNames_v6_0_0 \union EventNames_v6_1_2 \union AlertNames_v6_0_0 \union AlertNames_v6_1_2 :
       c # "none" /\ c # "system_resource_counters"
BY DEF EventNames_v6_0_0, EventNames_v6_1_2, AlertNames_v6_0_0, AlertNames_v6_1_2

LEMMA EventSchemaForm ==
    ASSUME NEW release \in Releases, NEW c \in DOMAIN EventSchema(release)
    PROVE  /\ Free(EventSchema(release)[c], {"event", "file_size"})
           /\ c # "none" /\ c # "system_resource_counters"
BY EventKeys_v6_0_0, EventKeys_v6_1_2, NamesComplete, CaseNames DEF EventSchema

LEMMA AlertSchemaForm ==
    ASSUME NEW release \in Releases, NEW c \in DOMAIN AlertSchema(release)
    PROVE  /\ Free(AlertSchema(release)[c], {"status", "file_size"})
           /\ c # "none" /\ c # "system_resource_counters"
BY AlertKeys_v6_0_0, AlertKeys_v6_1_2, NamesComplete, CaseNames DEF AlertSchema

\* A type without strings
Textless(schema, names) ==
    \A k \in DOMAIN schema \ names : "" \notin schema[k] /\ "text" \notin schema[k]

LEMMA CountersSchemaForm ==
    ASSUME NEW release \in Releases
    PROVE  Free(CountersSchema(release), {"file_size"}) /\ Textless(CountersSchema(release), {})
<1>1. Free(V6_0_0!InterfaceCounters, {"file_size"}) /\ Textless(V6_0_0!InterfaceCounters, {})
  BY DEF Free, Kept, Textless, V6_0_0!InterfaceCounters, V6_0_0!Longs
<1>2. Free(V6_1_2!InterfaceCounters, {"file_size"}) /\ Textless(V6_1_2!InterfaceCounters, {})
  BY DEF Free, Kept, Textless, V6_1_2!InterfaceCounters, V6_1_2!Longs, V6_1_2!Objects, V6_1_2!++
<1>3. QED
  BY <1>1, <1>2 DEF CountersSchema

LEMMA ResourceSchemaForm ==
    ASSUME NEW release \in Releases
    PROVE  LET schema == ResourceSchema(release)
           IN  /\ DOMAIN schema = {"system_info", "process_info", "file_info"}
               /\ Free(schema["system_info"], {"file_size"}) /\ Textless(schema["system_info"], {})
               /\ Free(schema["process_info"], {"file_size"})
               /\ Textless(schema["process_info"], {"process_name"})
               /\ "process_name" \in DOMAIN schema["process_info"] =>
                     "nan" \notin schema["process_info"]["process_name"]
               /\ DOMAIN schema["file_info"] = {"file_name", "file_size"}
               /\ schema["file_info"]["file_name"] = {"", "text"}
               /\ schema["file_info"]["file_size"] = {"0", "number", "large", "huge"}
<1>1. CASE release = "6.0.0"
  <2>1. /\ DOMAIN V6_0_0!SysResourceCounters = {"system_info", "process_info", "file_info"}
        /\ V6_0_0!SysResourceCounters["system_info"] = V6_0_0!SystemInfo
        /\ V6_0_0!SysResourceCounters["process_info"] = V6_0_0!ProcessInfo
        /\ V6_0_0!SysResourceCounters["file_info"] = V6_0_0!FileInfo
    BY DEF V6_0_0!SysResourceCounters
  <2>2. Free(V6_0_0!SystemInfo, {"file_size"}) /\ Textless(V6_0_0!SystemInfo, {})
    BY DEF Free, Kept, Textless, V6_0_0!SystemInfo, V6_0_0!Longs, V6_0_0!Floats, V6_0_0!++
  <2>3. /\ Free(V6_0_0!ProcessInfo, {"file_size"}) /\ Textless(V6_0_0!ProcessInfo, {"process_name"})
        /\ V6_0_0!ProcessInfo["process_name"] = {"", "text"}
    BY DEF Free, Kept, Textless, V6_0_0!ProcessInfo, V6_0_0!Strings, V6_0_0!Longs, V6_0_0!Floats, V6_0_0!++
  <2>4. /\ DOMAIN V6_0_0!FileInfo = {"file_name", "file_size"}
        /\ V6_0_0!FileInfo["file_name"] = {"", "text"}
        /\ V6_0_0!FileInfo["file_size"] = {"0", "number", "large", "huge"}
    BY DEF V6_0_0!FileInfo, V6_0_0!Strings, V6_0_0!Longs, V6_0_0!++
  <2>5. QED
    BY <1>1, <2>1, <2>2, <2>3, <2>4 DEF ResourceSchema
<1>2. CASE release # "6.0.0"
  <2>1. /\ DOMAIN V6_1_2!SysResourceCounters = {"system_info", "process_info", "file_info"}
        /\ V6_1_2!SysResourceCounters["system_info"] = V6_1_2!SystemInfo
        /\ V6_1_2!SysResourceCounters["process_info"] = V6_1_2!ProcessInfo
        /\ V6_1_2!SysResourceCounters["file_info"] = V6_1_2!FileInfo
    BY DEF V6_1_2!SysResourceCounters
  <2>2. Free(V6_1_2!SystemInfo, {"file_size"}) /\ Textless(V6_1_2!SystemInfo, {})
    BY DEF Free, Kept, Textless, V6_1_2!SystemInfo, V6_1_2!Longs, V6_1_2!Floats, V6_1_2!++
  <2>3. /\ Free(V6_1_2!ProcessInfo, {"file_size"}) /\ Textless(V6_1_2!ProcessInfo, {"process_name"})
        /\ V6_1_2!ProcessInfo["process_name"] = {"", "text"}
    BY DEF Free, Kept, Textless, V6_1_2!ProcessInfo, V6_1_2!Strings, V6_1_2!Longs, V6_1_2!Floats, V6_1_2!++
  <2>4. /\ DOMAIN V6_1_2!FileInfo = {"file_name", "file_size"}
        /\ V6_1_2!FileInfo["file_name"] = {"", "text"}
        /\ V6_1_2!FileInfo["file_size"] = {"0", "number", "large", "huge"}
    BY DEF V6_1_2!FileInfo, V6_1_2!Strings, V6_1_2!Longs, V6_1_2!++
  <2>5. QED
    BY <1>2, <2>1, <2>2, <2>3, <2>4 DEF ResourceSchema
<1>3. QED
  BY <1>1, <1>2

LEMMA ProbeSchemaForm ==
    ASSUME NEW release \in Releases
    PROVE  /\ Free(ProbeSchema(release), {"probe", "file_size"})
           /\ \A k \in {"probe_id", "stage_name", "item_id", "probe_label"} :
                 ProbeSchema(release)[k] = {"", "text"}
<1>1. Free(V6_0_0!ProbeMessage, {"probe", "file_size"})
  BY DEF Free, Kept, V6_0_0!ProbeMessage, V6_0_0!Strings, V6_0_0!Lists, V6_0_0!Entry, V6_0_0!++
<1>2. \A k \in {"probe_id", "stage_name", "item_id", "probe_label"} : V6_0_0!ProbeMessage[k] = {"", "text"}
  BY DEF V6_0_0!ProbeMessage, V6_0_0!Strings, V6_0_0!Lists, V6_0_0!Entry, V6_0_0!++
<1>3. Free(V6_1_2!ProbeMessage, {"probe", "file_size"})
  BY DEF Free, Kept, V6_1_2!ProbeMessage, V6_1_2!Strings, V6_1_2!Lists, V6_1_2!Entry, V6_1_2!++
<1>4. \A k \in {"probe_id", "stage_name", "item_id", "probe_label"} : V6_1_2!ProbeMessage[k] = {"", "text"}
  BY DEF V6_1_2!ProbeMessage, V6_1_2!Strings, V6_1_2!Lists, V6_1_2!Entry, V6_1_2!++
<1>5. QED
  BY <1>1, <1>2, <1>3, <1>4 DEF ProbeSchema
-----------------------------------------------------------------------------
(* The tags of the caches *)

LEMMA FirstOfTwo ==
    ASSUME NEW a, NEW b
    PROVE  FirstOf(<<a, b>>) = IF a # "" THEN a ELSE b
<1> DEFINE some == {i \in DOMAIN <<a, b>> : <<a, b>>[i] # ""}
           first == CHOOSE i \in some : \A j \in some : i <= j
<1>1. DOMAIN <<a, b>> = {1, 2} /\ <<a, b>>[1] = a /\ <<a, b>>[2] = b
  OBVIOUS
<1>2. FirstOf(<<a, b>>) = IF some = {} THEN "" ELSE <<a, b>>[first]
  BY DEF FirstOf
<1>3. some \subseteq {1, 2} /\ (1 \in some <=> a # "") /\ (2 \in some <=> b # "")
  BY <1>1
<1> HIDE DEF some, first
<1>4. CASE a # ""
  <2>0. \A j \in {1, 2} : 1 <= j /\ (j # 1 => ~(j <= 1))
    OBVIOUS
  <2>1. 1 \in some /\ \A j \in some : 1 <= j /\ (j # 1 => ~(j <= 1))
    BY <1>3, <1>4, <2>0, Zenon
  <2>2. \A i \in some : (\A j \in some : i <= j) => i = 1
    BY <2>1, Zenon
  <2>3. first = 1
    BY <2>1, <2>2, Zenon DEF first
  <2>4. QED
    BY <1>1, <1>2, <1>4, <2>1, <2>3
<1>5. CASE a = "" /\ b # ""
  <2>1. 2 \in some /\ \A i \in some : i = 2
    BY <1>3, <1>5, Zenon
  <2>2. \A j \in some : 2 <= j
    BY <2>1
  <2>3. first = 2
    BY <2>1, <2>2, Zenon DEF first
  <2>4. QED
    BY <1>1, <1>2, <1>5, <2>1, <2>3
<1>6. CASE a = "" /\ b = ""
  <2>1. some = {}
    BY <1>3, <1>6
  <2>2. QED
    BY <1>2, <1>6, <2>1
<1>7. QED
  BY <1>4, <1>5, <1>6

LEMMA FirstOfMany ==
    ASSUME NEW values, NEW n \in Nat, DOMAIN values = 1..n, \E i \in 1..n : values[i] # ""
    PROVE  FirstOf(values) # ""
<1> DEFINE some == {i \in DOMAIN values : values[i] # ""}
           first == CHOOSE i \in some : \A j \in some : i <= j
<1>1. FirstOf(values) = IF some = {} THEN "" ELSE values[first]
  BY DEF FirstOf
<1>2. some \subseteq Nat /\ some # {}
  <2>1. \A i \in 1..n : i \in Nat
    BY ONLY n \in Nat
  <2>2. PICK i \in DOMAIN values : values[i] # ""
    OBVIOUS
  <2>3. QED
    BY <2>1, <2>2, Zenon
<1>3. \E i \in some : \A j \in some : i <= j
  <2> HIDE DEF some
  <2>1. QED
    BY <1>2, Least
<1>4. first \in some
  <2> HIDE DEF some
  <2>1. QED
    BY <1>3, Zenon
<1>5. values[first] # ""
  <2> HIDE DEF first
  <2>1. QED
    BY <1>4
<1>6. QED
  BY <1>1, <1>2, <1>5

LEMMA TagForm ==
    ASSUME NEW key, NEW value
    PROVE  /\ DOMAIN Tag(key, value) = IF value = "" THEN {} ELSE {key}
           /\ \A k \in DOMAIN Tag(key, value) : Tag(key, value)[k] = value
<1>1. CASE value = ""
  BY <1>1 DEF Tag, NoFields
<1>2. CASE value # ""
  <2>1. Tag(key, value) = [k \in {key} |-> value]
    BY <1>2 DEF Tag, Entry
  <2>2. QED
    BY <1>2, <2>1
<1>3. QED
  BY <1>1, <1>2

\* The tags of the caches have keys of their own; a device of the inventory has its role
\* and the name of its blueprint among them.
LEMMA TagsForm ==
    ASSUME NEW o, Inventory(o)
    PROVE  /\ DOMAIN GetTags(o) \subseteq Kept \ {"series", "_ts"}
           /\ \A k \in DOMAIN GetTags(o) : GetTags(o)[k] # "nan"
           /\ \A item \in o.systems :
                 FirstOf(<<item.device_key, item.id>>) = o.key =>
                    /\ item.active_role # "" \/ item.status_role # "" =>
                          "role" \in DOMAIN GetTags(o) /\ GetTags(o)["role"] # ""
                    /\ (\E b \in o.blueprints : b.id = item.blueprint_id) =>
                          "blueprint" \in DOMAIN GetTags(o) /\ GetTags(o)["blueprint"] # ""
<1> DEFINE name == IF o.interface = "none" THEN NoFields ELSE Entry("interface", o.interface)
           sys == {s \in {System(item) : item \in o.systems} : s.DeviceKey = o.key}
           bps == {b \in {Blueprint(item) : item \in o.blueprints} :
                      \E s \in sys : s.BlueprintID # "" /\ b.ID = s.BlueprintID}
           s == CHOOSE x \in sys : TRUE
           named == [k \in IF bps = {} THEN {} ELSE {"blueprint"} |-> (CHOOSE b \in bps : TRUE).Name]
           known == Tag("role", s.BlueprintRole) ++ named ++ Tag("device_name", s.BlueprintName)
                    ++ Entry("device", FirstOf(<<s.BlueprintName, o.key>>))
           rest == IF sys = {} THEN Entry("device", o.key) ELSE known
           key == Entry("device_key", o.key)
<1>1. GetTags(o) = name ++ key ++ rest
  BY DEF GetTags
<1>2. /\ DOMAIN name \subseteq {"interface"} /\ \A k \in DOMAIN name : name[k] # "nan"
      /\ DOMAIN key = {"device_key"} /\ \A k \in DOMAIN key : key[k] # "nan"
  <2>1. o.interface # "nan" /\ o.key # "nan"
    BY DEF Inventory
  <2>2. DOMAIN name \subseteq {"interface"} /\ \A k \in DOMAIN name : name[k] # "nan"
    BY <2>1 DEF Entry, NoFields
  <2>3. DOMAIN key = {"device_key"} /\ \A k \in DOMAIN key : key[k] # "nan"
    BY <2>1 DEF Entry
  <2>4. QED
    BY <2>2, <2>3
<1>3. ASSUME sys # {}
      PROVE  /\ s \in sys /\ s.BlueprintRole # "nan" /\ s.BlueprintName # "nan"
             /\ FirstOf(<<s.BlueprintName, o.key>>) # "nan"
  <2>1. s \in sys
    BY <1>3
  <2> HIDE DEF s
  <2>2. s.BlueprintRole # "nan" /\ s.BlueprintName # "nan" /\ o.key # "nan"
    BY <2>1 DEF Inventory
  <2>3. QED
    BY <2>1, <2>2, FirstOfTwo
<1>4. ASSUME bps # {}
      PROVE  named["blueprint"] # "nan" /\ named["blueprint"] # "" /\ "blueprint" \in DOMAIN named
  <2>1. PICK b : b \in bps /\ b = CHOOSE c \in bps : TRUE
    BY <1>4
  <2>2. PICK item \in o.blueprints : b = Blueprint(item)
    BY <2>1
  <2>3. b.Name # "nan" /\ item.id # ""
    BY <2>2 DEF Inventory
  <2>4. b.Name = FirstOf(<<item.label, item.display_name, item.id>>)
    BY <2>2 DEF Blueprint
  <2>5. b.Name # ""
    <3> DEFINE values == <<item.label, item.display_name, item.id>>
    <3>1. DOMAIN values = 1..3
      OBVIOUS
    <3>4. values[3] = item.id
      OBVIOUS
    <3>5. 3 \in 1..3 /\ 3 \in Nat
      OBVIOUS
    <3> HIDE DEF values
    <3>2. FirstOf(values) # ""
      BY <2>3, <3>1, <3>4, <3>5, FirstOfMany
    <3>3. QED
      BY <2>4, <3>2 DEF values
  <2>6. named["blueprint"] = b.Name /\ "blueprint" \in DOMAIN named
    BY <1>4, <2>1
  <2>7. QED
    BY <2>3, <2>5, <2>6
<1>5. bps = {} => DOMAIN named = {}
  OBVIOUS
<1>6. DOMAIN named \subseteq {"blueprint"}
  OBVIOUS
<1>7. \A item \in o.systems : FirstOf(<<item.device_key, item.id>>) = o.key =>
         /\ sys # {} /\ s = System(item)
         /\ (\E b \in o.blueprints : b.id = item.blueprint_id) => bps # {}
  <2>1. SUFFICES ASSUME NEW item \in o.systems, FirstOf(<<item.device_key, item.id>>) = o.key
                 PROVE  /\ sys # {} /\ s = System(item)
                        /\ (\E b \in o.blueprints : b.id = item.blueprint_id) => bps # {}
    OBVIOUS
  <2>2. System(item) \in sys
    BY <2>1 DEF System
  <2>3. \A x \in sys : x = System(item)
    <3>1. TAKE x \in sys
    <3>2. PICK other \in o.systems : x = System(other) /\ x.DeviceKey = o.key
      OBVIOUS
    <3>3. System(item).DeviceKey = o.key
      BY <2>1 DEF System
    <3>4. QED
      BY <3>2, <3>3 DEF Inventory
  <2>4. s = System(item)
    BY <2>2, <2>3
  <2>5. ASSUME NEW b \in o.blueprints, b.id = item.blueprint_id PROVE bps # {}
    <3>1. b.id # "" /\ Blueprint(b).ID = b.id /\ System(item).BlueprintID = item.blueprint_id
      BY DEF Inventory, Blueprint, System
    <3>2. Blueprint(b) \in bps
      BY <2>2, <2>5, <3>1
    <3>3. QED
      BY <3>2
  <2>6. QED
    BY <2>2, <2>4, <2>5
<1> HIDE DEF named, bps, s, sys, name, key
<1>8. ASSUME sys # {}
      PROVE  /\ DOMAIN known \subseteq {"role", "blueprint", "device_name", "device"}
             /\ \A k \in DOMAIN known : known[k] # "nan"
             /\ s.BlueprintRole # "" => "role" \in DOMAIN known /\ known["role"] = s.BlueprintRole
             /\ bps # {} => "blueprint" \in DOMAIN known /\ known["blueprint"] = named["blueprint"]
  <2>1. PICK role, last, device :
           /\ role = Tag("role", s.BlueprintRole) /\ last = Tag("device_name", s.BlueprintName)
           /\ device = Entry("device", FirstOf(<<s.BlueprintName, o.key>>))
    OBVIOUS
  <2>2. known = role ++ named ++ last ++ device
    BY <2>1
  <2>3. /\ DOMAIN role = IF s.BlueprintRole = "" THEN {} ELSE {"role"}
        /\ \A k \in DOMAIN role : role[k] = s.BlueprintRole
        /\ DOMAIN last \subseteq {"device_name"} /\ \A k \in DOMAIN last : last[k] = s.BlueprintName
        /\ DOMAIN device = {"device"}
        /\ device["device"] = FirstOf(<<s.BlueprintName, o.key>>)
    <3>1. /\ DOMAIN role = IF s.BlueprintRole = "" THEN {} ELSE {"role"}
          /\ \A k \in DOMAIN role : role[k] = s.BlueprintRole
      BY <2>1, TagForm
    <3>2. DOMAIN last \subseteq {"device_name"} /\ \A k \in DOMAIN last : last[k] = s.BlueprintName
      BY <2>1, TagForm
    <3>3. /\ DOMAIN device = {"device"}
          /\ device["device"] = FirstOf(<<s.BlueprintName, o.key>>)
      BY <2>1 DEF Entry
    <3>4. QED
      BY <3>1, <3>2, <3>3
  <2> HIDE DEF known
  <2>4. /\ s.BlueprintRole # "nan" /\ s.BlueprintName # "nan"
        /\ FirstOf(<<s.BlueprintName, o.key>>) # "nan"
    BY <1>3, <1>8
  <2>5. /\ DOMAIN known = DOMAIN role \union DOMAIN named \union DOMAIN last \union DOMAIN device
        /\ \A k \in DOMAIN known :
              known[k] = IF k \in DOMAIN role THEN role[k] ELSE IF k \in DOMAIN named THEN named[k]
                         ELSE IF k \in DOMAIN last THEN last[k] ELSE device[k]
    BY <2>2 DEF ++
  <2>6. DOMAIN known \subseteq {"role", "blueprint", "device_name", "device"}
    BY <1>6, <2>3, <2>5
  <2>7. \A k \in DOMAIN named : named[k] # "nan"
    BY <1>4, <1>5, <1>6
  <2>8. \A k \in DOMAIN known : known[k] # "nan"
    BY <2>3, <2>4, <2>5, <2>7
  <2>9. s.BlueprintRole # "" => "role" \in DOMAIN known /\ known["role"] = s.BlueprintRole
    BY <2>3, <2>5
  <2>10. bps # {} => "blueprint" \in DOMAIN known /\ known["blueprint"] = named["blueprint"]
    BY <1>4, <2>3, <2>5
  <2>11. QED
    BY <2>6, <2>8, <2>9, <2>10
<1>9. /\ DOMAIN rest \subseteq {"role", "blueprint", "device_name", "device"}
      /\ \A k \in DOMAIN rest : rest[k] # "nan"
  <2>1. CASE sys = {}
    <3>1. rest = Entry("device", o.key) /\ o.key # "nan"
      BY <2>1 DEF Inventory
    <3>2. QED
      BY <3>1 DEF Entry
  <2>2. CASE sys # {}
    BY <1>8, <2>2
  <2>3. QED
    BY <2>1, <2>2
<1>10. PICK more : more = rest
  OBVIOUS
<1>11. /\ DOMAIN GetTags(o) = DOMAIN name \union DOMAIN key \union DOMAIN more
       /\ \A k \in DOMAIN GetTags(o) :
             GetTags(o)[k] = IF k \in DOMAIN name THEN name[k]
                             ELSE IF k \in DOMAIN key THEN key[k] ELSE more[k]
  BY <1>1, <1>10 DEF ++
<1> HIDE DEF rest
<1>12. DOMAIN GetTags(o) \subseteq Kept \ {"series", "_ts"}
  BY <1>2, <1>9, <1>10, <1>11 DEF Kept
<1>13. \A k \in DOMAIN GetTags(o) : GetTags(o)[k] # "nan"
  BY <1>2, <1>9, <1>10, <1>11
<1>14. \A k \in {"role", "blueprint"} : k \in DOMAIN more => k \in DOMAIN GetTags(o) /\ GetTags(o)[k] = more[k]
  BY <1>2, <1>11
<1>15. ASSUME NEW item \in o.systems, FirstOf(<<item.device_key, item.id>>) = o.key
       PROVE  /\ item.active_role # "" \/ item.status_role # "" =>
                    "role" \in DOMAIN GetTags(o) /\ GetTags(o)["role"] # ""
              /\ (\E b \in o.blueprints : b.id = item.blueprint_id) =>
                    "blueprint" \in DOMAIN GetTags(o) /\ GetTags(o)["blueprint"] # ""
  <2>1. /\ sys # {} /\ s = System(item)
        /\ (\E b \in o.blueprints : b.id = item.blueprint_id) => bps # {}
    BY <1>7, <1>15
  <2>2. more = known
    BY <1>10, <2>1 DEF rest
  <2>3. /\ s.BlueprintRole # "" => "role" \in DOMAIN more /\ more["role"] = s.BlueprintRole
        /\ bps # {} => "blueprint" \in DOMAIN more /\ more["blueprint"] = named["blueprint"]
    <3> HIDE DEF known
    <3>1. QED
      BY <1>8, <2>1, <2>2
  <2>4. s.BlueprintRole = IF item.active_role # "" THEN item.active_role ELSE item.status_role
    BY <2>1, FirstOfTwo DEF System
  <2>5. bps # {} => named["blueprint"] # ""
    BY <1>4
  <2>6. QED
    BY <1>14, <2>1, <2>3, <2>4, <2>5
<1>16. QED
  BY <1>12, <1>13, <1>15
-----------------------------------------------------------------------------
(* The records *)

\* What the properties ask of a record made of one part of a message.
Shaped(r, m, data) ==
    /\ \A k \in DOMAIN r.fields : k \notin Kept /\ r.fields[k] \notin {"", "text", "nan"}
    /\ \A k \in DOMAIN r.tags : k \notin {"series", "_ts"} /\ r.tags[k] # "nan"
    /\ \A k \in DOMAIN GetTags(m.origin) :
          k \in DOMAIN r.tags /\ r.tags[k] = GetTags(m.origin)[k]
    /\ (\A k \in DOMAIN data : data[k] # "nan") =>
          \A k \in DOMAIN data : data[k] # "" =>
             \/ Flattened(k) \in DOMAIN r.fields /\ Same(data[k], r.fields[Flattened(k)])
             \/ /\ Flattened(k) \notin DOMAIN r.fields
                /\ Flattened(k) \in DOMAIN r.tags /\ Same(data[k], r.tags[Flattened(k)])
    /\ r.ts = TimeOf(m)

LEMMA SameValue == \A v : Same(v, v)
BY DEF Same

\* A float64 has what a value was, strings, absent texts and NaN included.
LEMMA FloatForm ==
    ASSUME NEW v
    PROVE  /\ Same(v, Float(v))
           /\ (Float(v) = "" <=> v = "") /\ (Float(v) = "text" <=> v = "text")
           /\ (Float(v) = "nan" <=> v = "nan")
BY DEF Same, Float

\* So has its text.
LEMMA PrintedForm ==
    ASSUME NEW v
    PROVE  /\ Same(v, Printed(Float(v)))
           /\ (Printed(Float(v)) = "" <=> v = "") /\ (Printed(Float(v)) = "nan" <=> v = "nan")
<1>1. CASE v = "huge"
  <2>1. Printed(Float(v)) = "1e+16"
    BY <1>1 DEF Float, Printed
  <2>2. QED
    BY <1>1, <2>1 DEF Same
<1>2. CASE v = "large"
  <2>1. Printed(Float(v)) = "1e+06"
    BY <1>2 DEF Float, Printed
  <2>2. QED
    BY <1>2, <2>1 DEF Same
<1>3. CASE v = "rounded"
  <2>1. Printed(Float(v)) = "1e+16"
    BY <1>3 DEF Float, Printed
  <2>2. QED
    BY <1>3, <2>1 DEF Same
<1>4. CASE v \notin {"huge", "large", "rounded"}
  <2>1. Float(v) = v
    BY <1>4 DEF Float
  <2>2. Printed(v) = v
    BY <1>4 DEF Printed
  <2>3. QED
    BY <2>1, <2>2 DEF Same
<1>5. QED
  BY <1>1, <1>2, <1>3, <1>4

LEMMA ProtoForm ==
    ASSUME NEW data
    PROVE  LET all == ProtoToFields(data)
           IN  /\ \A k \in DOMAIN all :
                     /\ k \in DOMAIN data /\ all[k] = Float(data[k])
                     /\ Same(data[k], all[k]) /\ all[k] # "nan"
                     /\ (all[k] = "" <=> data[k] = "") /\ (all[k] = "text" <=> data[k] = "text")
               /\ (\A k \in DOMAIN data : data[k] # "nan") => DOMAIN all = DOMAIN data
<1>1. PICK all : all = ProtoToFields(data)
  OBVIOUS
<1>2. /\ \A k \in DOMAIN all : k \in DOMAIN data /\ all[k] = Float(data[k]) /\ data[k] # "nan"
      /\ (\A k \in DOMAIN data : data[k] # "nan") => DOMAIN all = DOMAIN data
  BY <1>1 DEF ProtoToFields, NoFields
<1>3. ASSUME NEW k \in DOMAIN all
      PROVE  /\ k \in DOMAIN data /\ all[k] = Float(data[k])
             /\ Same(data[k], all[k]) /\ all[k] # "nan"
             /\ (all[k] = "" <=> data[k] = "") /\ (all[k] = "text" <=> data[k] = "text")
  <2>1. k \in DOMAIN data /\ all[k] = Float(data[k]) /\ data[k] # "nan"
    BY <1>2
  <2>2. /\ Same(data[k], Float(data[k]))
        /\ (Float(data[k]) = "" <=> data[k] = "") /\ (Float(data[k]) = "text" <=> data[k] = "text")
        /\ (Float(data[k]) = "nan" <=> data[k] = "nan")
    BY FloatForm
  <2>3. QED
    BY <2>1, <2>2
<1>4. QED
  BY <1>1, <1>2, <1>3

\* The payload as tags: all of it that is not empty, numbers as texts of theirs.
LEMMA TextTagsForm ==
    ASSUME NEW data
    PROVE  LET said == TextTags(data)
           IN  /\ \A k \in DOMAIN said :
                     k \in DOMAIN data /\ Same(data[k], said[k]) /\ said[k] # "nan"
               /\ (\A k \in DOMAIN data : data[k] # "nan") =>
                     \A k \in DOMAIN data : data[k] # "" => k \in DOMAIN said
<1>1. PICK all : all = ProtoToFields(data)
  OBVIOUS
<1>2. /\ \A k \in DOMAIN all : k \in DOMAIN data /\ all[k] = Float(data[k]) /\ all[k] # "nan"
      /\ (\A k \in DOMAIN data : data[k] # "nan") => DOMAIN all = DOMAIN data
  BY <1>1, ProtoForm
<1>3. PICK said : said = TextTags(data)
  OBVIOUS
<1>4. \A k : /\ k \in DOMAIN said <=> k \in DOMAIN all /\ Printed(all[k]) # ""
             /\ k \in DOMAIN said => said[k] = Printed(all[k])
  BY <1>1, <1>3 DEF TextTags, NonEmpty
<1>5. ASSUME NEW k \in DOMAIN all
      PROVE  /\ Same(data[k], Printed(all[k])) /\ Printed(all[k]) # "nan"
             /\ Printed(all[k]) = "" <=> data[k] = ""
  <2>1. all[k] = Float(data[k]) /\ Float(data[k]) # "nan"
    BY <1>2
  <2>2. data[k] # "nan"
    BY <2>1, FloatForm
  <2>3. /\ Same(data[k], Printed(Float(data[k])))
        /\ (Printed(Float(data[k])) = "" <=> data[k] = "")
        /\ (Printed(Float(data[k])) = "nan" <=> data[k] = "nan")
    BY PrintedForm
  <2>4. QED
    BY <2>1, <2>2, <2>3
<1>6. QED
  BY <1>2, <1>3, <1>4, <1>5

\* Tags of a message's own before those of the caches
LEMMA OwnTags ==
    ASSUME NEW o, Inventory(o), NEW own,
           \A k \in DOMAIN own : k \notin Kept /\ own[k] # "nan"
    PROVE  LET tags == own ++ GetTags(o)
           IN  /\ \A k \in DOMAIN tags : k \notin {"series", "_ts"} /\ tags[k] # "nan"
               /\ \A k \in DOMAIN GetTags(o) : k \in DOMAIN tags /\ tags[k] = GetTags(o)[k]
               /\ \A k \in DOMAIN own : k \in DOMAIN tags /\ tags[k] = own[k]
<1>1. PICK given : given = GetTags(o)
  OBVIOUS
<1>2. DOMAIN given \subseteq Kept \ {"series", "_ts"} /\ \A k \in DOMAIN given : given[k] # "nan"
  BY <1>1, TagsForm
<1>3. PICK tags : tags = own ++ given
  OBVIOUS
<1>4. /\ DOMAIN tags = DOMAIN own \union DOMAIN given
      /\ \A k \in DOMAIN own : tags[k] = own[k]
      /\ \A k \in DOMAIN given \ DOMAIN own : tags[k] = given[k]
  BY <1>3 DEF ++
<1>5. {"series", "_ts"} \subseteq Kept
  BY DEF Kept
<1>6. /\ \A k \in DOMAIN tags : k \notin {"series", "_ts"} /\ tags[k] # "nan"
      /\ \A k \in DOMAIN given : k \in DOMAIN tags /\ tags[k] = given[k]
      /\ \A k \in DOMAIN own : k \in DOMAIN tags /\ tags[k] = own[k]
  BY <1>2, <1>4, <1>5
<1>7. QED
  BY <1>1, <1>3, <1>6

\* The values that a record keeps of a part of its message, in its fields or its own tags
Holds(own, fields, data) ==
    (\A k \in DOMAIN data : data[k] # "nan") =>
       \A k \in DOMAIN data : data[k] # "" =>
          \/ Flattened(k) \in DOMAIN fields /\ Same(data[k], fields[Flattened(k)])
          \/ /\ Flattened(k) \notin DOMAIN fields
             /\ Flattened(k) \in DOMAIN own /\ Same(data[k], own[Flattened(k)])

CleanFields(fields) ==
    \A k \in DOMAIN fields : k \notin Kept /\ fields[k] \notin {"", "text", "nan"}

LEMMA MadeWithTags ==
    ASSUME NEW m, Inventory(m.origin), NEW series, NEW own, NEW fields, NEW data,
           \A k \in DOMAIN own : k \notin Kept /\ own[k] # "nan",
           CleanFields(fields), Holds(own, fields, data)
    PROVE  Shaped(MakeRecord(series, own ++ GetTags(m.origin), fields, TimeOf(m)), m, data)
<1>1. PICK tags : tags = own ++ GetTags(m.origin)
  OBVIOUS
<1>2. /\ \A k \in DOMAIN tags : k \notin {"series", "_ts"} /\ tags[k] # "nan"
      /\ \A k \in DOMAIN GetTags(m.origin) : k \in DOMAIN tags /\ tags[k] = GetTags(m.origin)[k]
      /\ \A k \in DOMAIN own : k \in DOMAIN tags /\ tags[k] = own[k]
  BY <1>1, OwnTags
<1>3. PICK r : r = MakeRecord(series, tags, fields, TimeOf(m))
  OBVIOUS
<1>4. r.tags = tags /\ r.fields = fields /\ r.ts = TimeOf(m)
  BY <1>3 DEF MakeRecord
<1>5. (\A k \in DOMAIN data : data[k] # "nan") =>
         \A k \in DOMAIN data : data[k] # "" =>
            \/ Flattened(k) \in DOMAIN fields /\ Same(data[k], fields[Flattened(k)])
            \/ /\ Flattened(k) \notin DOMAIN fields
               /\ Flattened(k) \in DOMAIN tags /\ Same(data[k], tags[Flattened(k)])
  BY <1>2 DEF Holds
<1>6. Shaped(r, m, data)
  BY <1>2, <1>4, <1>5 DEF Shaped, CleanFields
<1>7. QED
  BY <1>1, <1>3, <1>6

LEMMA MadeBare ==
    ASSUME NEW m, Inventory(m.origin), NEW series, NEW fields, NEW data,
           CleanFields(fields), Holds(NoFields, fields, data)
    PROVE  Shaped(MakeRecord(series, GetTags(m.origin), fields, TimeOf(m)), m, data)
<1>1. PICK tags : tags = GetTags(m.origin)
  OBVIOUS
<1>2. \A k \in DOMAIN tags : k \notin {"series", "_ts"} /\ tags[k] # "nan"
  BY <1>1, TagsForm
<1>3. PICK r : r = MakeRecord(series, tags, fields, TimeOf(m))
  OBVIOUS
<1>4. r.tags = tags /\ r.fields = fields /\ r.ts = TimeOf(m)
  BY <1>3 DEF MakeRecord
<1>5. (\A k \in DOMAIN data : data[k] # "nan") =>
         \A k \in DOMAIN data : data[k] # "" =>
            Flattened(k) \in DOMAIN fields /\ Same(data[k], fields[Flattened(k)])
  BY DEF Holds, NoFields
<1>6. Shaped(r, m, data)
  BY <1>1, <1>2, <1>4, <1>5 DEF Shaped, CleanFields
<1>7. QED
  BY <1>1, <1>3, <1>6

\* A type without strings or names of its own
LEMMA PlainShape ==
    ASSUME NEW m, Inventory(m.origin), NEW series, NEW schema, Free(schema, {"file_size"}),
           Textless(schema, {}), NEW data, Conforms(data, schema)
    PROVE  Shaped(MakeRecord(series, GetTags(m.origin), ProtoToFields(data), TimeOf(m)), m, data)
<1>1. PICK fields : fields = ProtoToFields(data)
  OBVIOUS
<1>2. /\ \A k \in DOMAIN fields :
            /\ k \in DOMAIN data /\ Same(data[k], fields[k]) /\ fields[k] # "nan"
            /\ (fields[k] = "" <=> data[k] = "") /\ (fields[k] = "text" <=> data[k] = "text")
      /\ (\A k \in DOMAIN data : data[k] # "nan") => DOMAIN fields = DOMAIN data
  BY <1>1, ProtoForm
<1>3. \A k \in DOMAIN data : k \notin Kept /\ Flattened(k) = k
  BY DEF Free, Conforms, Flattened
<1>4. \A k \in DOMAIN data : data[k] \notin {"", "text"}
  BY DEF Textless, Conforms
<1>5. CleanFields(fields)
  BY <1>2, <1>3, <1>4 DEF CleanFields
<1>6. Holds(NoFields, fields, data)
  BY <1>2, <1>3 DEF Holds
<1>7. QED
  BY <1>1, <1>5, <1>6, MadeBare

LEMMA ProcessShape ==
    ASSUME NEW m, Inventory(m.origin), m.release \in Releases, NEW data,
           Conforms(data, ResourceSchema(m.release)["process_info"])
    PROVE  Shaped(ProcessInfo(m, data, TimeOf(m)), m, data)
<1>1. PICK schema : schema = ResourceSchema(m.release)["process_info"]
  OBVIOUS
<1>2. /\ Free(schema, {"file_size"}) /\ Textless(schema, {"process_name"})
      /\ "process_name" \in DOMAIN schema => "nan" \notin schema["process_name"]
      /\ Conforms(data, schema)
  BY <1>1, ResourceSchemaForm
<1>3. PICK all : all = ProtoToFields(data)
  OBVIOUS
<1>4. /\ \A k \in DOMAIN all :
            /\ k \in DOMAIN data /\ Same(data[k], all[k]) /\ all[k] # "nan"
            /\ (all[k] = "" <=> data[k] = "") /\ (all[k] = "text" <=> data[k] = "text")
      /\ (\A k \in DOMAIN data : data[k] # "nan") => DOMAIN all = DOMAIN data
  BY <1>3, ProtoForm
<1>5. PICK fields : fields = Without(all, {"process_name"})
  OBVIOUS
<1>6. DOMAIN fields = DOMAIN all \ {"process_name"} /\ \A k \in DOMAIN fields : fields[k] = all[k]
  BY <1>5 DEF Without
<1>7. PICK own : own = Entry("process_name", Get(data, "process_name"))
  OBVIOUS
<1>8. DOMAIN own = {"process_name"} /\ own["process_name"] = Get(data, "process_name")
  BY <1>7 DEF Entry
<1>9. \A k \in DOMAIN data : k \notin Kept /\ Flattened(k) = k
  BY <1>2 DEF Free, Conforms, Flattened
<1>10. \A k \in DOMAIN data : k # "process_name" => data[k] \notin {"", "text"}
  BY <1>2 DEF Textless, Conforms
<1>11. Get(data, "process_name") # "nan"
  BY <1>2 DEF Get, Conforms
<1>12. Get(data, "process_name") = data["process_name"] \/ "process_name" \notin DOMAIN data
  BY DEF Get
<1>13. CleanFields(fields)
  <2>1. ASSUME NEW k \in DOMAIN fields
        PROVE  k \notin Kept /\ fields[k] # "" /\ fields[k] # "text" /\ fields[k] # "nan"
    <3>1. k \in DOMAIN all /\ k # "process_name" /\ fields[k] = all[k]
      BY <1>6
    <3>2. QED
      BY <1>4, <1>9, <1>10, <3>1
  <2>2. QED
    BY <2>1 DEF CleanFields
<1>14. Holds(own, fields, data)
  <2>1. ASSUME \A k \in DOMAIN data : data[k] # "nan", NEW k \in DOMAIN data
        PROVE  \/ k \in DOMAIN fields /\ Same(data[k], fields[k])
               \/ k \notin DOMAIN fields /\ k \in DOMAIN own /\ Same(data[k], own[k])
    <3>1. CASE k = "process_name"
      <4>1. own[k] = data[k] /\ k \in DOMAIN own /\ k \notin DOMAIN fields
        BY <1>6, <1>8, <1>12, <3>1
      <4>2. QED
        BY <4>1, SameValue
    <3>2. CASE k # "process_name"
      BY <1>4, <1>6, <2>1, <3>2
    <3>3. QED
      BY <3>1, <3>2
  <2>2. QED
    BY <1>9, <2>1 DEF Holds
<1>15. \A k \in DOMAIN own : k \notin Kept /\ own[k] # "nan"
  BY <1>8, <1>11 DEF Kept
<1>16. ProcessInfo(m, data, TimeOf(m))
         = MakeRecord("process_info", own ++ GetTags(m.origin), fields, TimeOf(m))
  BY <1>3, <1>5, <1>7 DEF ProcessInfo
<1>17. QED
  BY <1>13, <1>14, <1>15, <1>16, MadeWithTags

LEMMA FileShape ==
    ASSUME NEW m, Inventory(m.origin), m.release \in Releases, NEW data,
           Conforms(data, ResourceSchema(m.release)["file_info"])
    PROVE  Shaped(FileInfo(m, data, TimeOf(m)), m, data)
<1>1. /\ DOMAIN data \subseteq {"file_name", "file_size"}
      /\ "file_name" \in DOMAIN data => data["file_name"] \in {"", "text"}
      /\ "file_size" \in DOMAIN data => data["file_size"] \in {"0", "number", "large", "huge"}
  BY ResourceSchemaForm DEF Conforms
<1>2. PICK own : own = Entry("file_name", Get(data, "file_name"))
  OBVIOUS
<1>3. DOMAIN own = {"file_name"} /\ own["file_name"] = Get(data, "file_name")
  BY <1>2 DEF Entry
<1>4. PICK size : size = IF Get(data, "file_size") = "" THEN "0" ELSE Get(data, "file_size")
  OBVIOUS
<1>5. PICK fields : fields = [size |-> size]
  OBVIOUS
<1>6. DOMAIN fields = {"size"} /\ fields["size"] = size
  BY <1>5
<1>7. /\ Get(data, "file_name") \in {"", "text"}
      /\ "file_name" \in DOMAIN data => Get(data, "file_name") = data["file_name"]
  BY <1>1 DEF Get
<1>8. /\ size \in {"0", "number", "large", "huge"}
      /\ "file_size" \in DOMAIN data => size = data["file_size"]
  BY <1>1, <1>4 DEF Get
<1>9. CleanFields(fields)
  BY <1>6, <1>8 DEF CleanFields, Kept
<1>10. Holds(own, fields, data)
  BY <1>1, <1>3, <1>6, <1>7, <1>8, SameValue DEF Holds, Flattened
<1>11. \A k \in DOMAIN own : k \notin Kept /\ own[k] # "nan"
  BY <1>3, <1>7 DEF Kept
<1>12. FileInfo(m, data, TimeOf(m))
         = MakeRecord("file_info", own ++ GetTags(m.origin), fields, TimeOf(m))
  BY <1>2, <1>4, <1>5 DEF FileInfo
<1>13. QED
  BY <1>9, <1>10, <1>11, <1>12, MadeWithTags

LEMMA ResourceShape ==
    ASSUME NEW m, Inventory(m.origin), m.release \in Releases, NEW item,
           item.part \in DOMAIN ResourceSchema(m.release),
           Conforms(item.data, ResourceSchema(m.release)[item.part])
    PROVE  Shaped(SystemResource(m, item, TimeOf(m)), m, item.data)
<1>1. item.part \in {"system_info", "process_info", "file_info"}
  BY ResourceSchemaForm
<1>2. CASE item.part = "system_info"
  <2>1. /\ Free(ResourceSchema(m.release)["system_info"], {"file_size"})
        /\ Textless(ResourceSchema(m.release)["system_info"], {})
    BY ResourceSchemaForm
  <2>2. Shaped(MakeRecord("system_info", GetTags(m.origin), ProtoToFields(item.data), TimeOf(m)),
               m, item.data)
    BY <1>2, <2>1, PlainShape
  <2>3. SystemResource(m, item, TimeOf(m))
          = MakeRecord("system_info", GetTags(m.origin), ProtoToFields(item.data), TimeOf(m))
    BY <1>2 DEF SystemResource
  <2>4. QED
    BY <2>2, <2>3
<1>3. CASE item.part = "process_info"
  <2>1. SystemResource(m, item, TimeOf(m)) = ProcessInfo(m, item.data, TimeOf(m))
    BY <1>3 DEF SystemResource
  <2>2. QED
    BY <1>3, <2>1, ProcessShape
<1>4. CASE item.part = "file_info"
  <2>1. SystemResource(m, item, TimeOf(m)) = FileInfo(m, item.data, TimeOf(m))
    BY <1>4 DEF SystemResource
  <2>2. QED
    BY <1>4, <2>1, FileShape
<1>5. QED
  BY <1>1, <1>2, <1>3, <1>4

\* The text of a probe is a tag, and so is the last property of each name.
LEMMA PropertyTagsForm ==
    ASSUME NEW m, Len(m.items) \in Nat, DOMAIN m.items = 1..Len(m.items),
           \A i \in DOMAIN m.items : /\ IsString(m.items[i].data.value)
                                    /\ "prop_" \o m.items[i].data.name \notin Kept
    PROVE  \A k \in DOMAIN PropertyTags(m) : k \notin Kept /\ PropertyTags(m)[k] # "nan"
<1>1. PICK key : key = [i \in DOMAIN m.items |-> "prop_" \o m.items[i].data.name]
  OBVIOUS
<1>2. PICK n \in Nat : n = Len(m.items)
  OBVIOUS
<1>3. DOMAIN m.items = 1..n /\ DOMAIN key = 1..n
      /\ \A i \in 1..n : key[i] = "prop_" \o m.items[i].data.name
  BY <1>1, <1>2
<1>4. ASSUME NEW k \in DOMAIN PropertyTags(m)
      PROVE  k \notin Kept /\ PropertyTags(m)[k] # "nan"
  <2> DEFINE Last(i) == k = "prop_" \o m.items[i].data.name
                        /\ \A j \in DOMAIN m.items :
                              j > i => k # "prop_" \o m.items[j].data.name
             last == CHOOSE i \in DOMAIN m.items : Last(i)
             T == {i \in 1..n : key[i] = k}
  <2>1. PropertyTags(m)[k] = m.items[last].data.value
    BY <1>4 DEF PropertyTags
  <2>2. PICK i \in DOMAIN m.items : k = "prop_" \o m.items[i].data.name
    BY <1>4 DEF PropertyTags
  <2>3. T \subseteq 1..n /\ T # {}
    BY <1>3, <2>2
  <2>4. \E x \in T : \A y \in T : y <= x
    <3> HIDE DEF T
    <3>1. QED
      BY <2>3, Greatest
  <2>5. PICK x \in 1..n : key[x] = k /\ \A y \in 1..n : key[y] = k => y <= x
    BY <2>4
  <2>6. \A j \in 1..n : j > x => ~(j <= x)
    BY ONLY n \in Nat, x \in 1..n
  <2>7. \A j \in 1..n : j > x => key[j] # k
    BY <2>5, <2>6, Zenon
  <2>8. Last(x) /\ x \in DOMAIN m.items
    BY <1>3, <2>5, <2>7, Zenon
  <2>9. last \in DOMAIN m.items
    <3> HIDE DEF Last
    <3>1. QED
      BY <2>8, Zenon
  <2> HIDE DEF last
  <2>10. m.items[last].data.value # "nan"
    BY <2>9 DEF IsString
  <2>11. QED
    BY <2>1, <2>2, <2>10
<1>5. QED
  BY <1>4

LEMMA ProbeTagsForm ==
    ASSUME NEW m, m.release \in Releases, Conforms(m.data, ProbeSchema(m.release))
    PROVE  \A k \in DOMAIN ProbeTags(m) : k \notin Kept /\ ProbeTags(m)[k] # "nan"
<1> DEFINE keys == {"probe_id", "stage_name", "item_id", "probe_label"}
<1>1. \A k \in keys : Get(m.data, k) \in {"", "text"}
  BY ProbeSchemaForm DEF Conforms, Get
<1>2. \A k \in keys : k \notin Kept
  BY DEF Kept
<1> HIDE DEF keys
<1>3. ProbeTags(m) = NonEmpty([k \in keys |-> Get(m.data, k)])
  BY DEF ProbeTags, keys
<1>4. \A k \in DOMAIN ProbeTags(m) : k \in keys /\ ProbeTags(m)[k] = Get(m.data, k)
  BY <1>3 DEF NonEmpty
<1>5. QED
  BY <1>1, <1>2, <1>4

LEMMA ProbeShape ==
    ASSUME NEW m \in Messages, m.handler = m.release, m.oneof = "perf_mon", m.case = "probe_message"
    PROVE  /\ DOMAIN ExtractProbeData(m, TimeOf(m)) = {1}
           /\ Shaped(ExtractProbeData(m, TimeOf(m))[1], m, m.data)
<1>1. /\ m.release \in Releases /\ Inventory(m.origin)
      /\ Len(m.items) \in Nat /\ DOMAIN m.items = 1..Len(m.items)
      /\ Conforms(m.data, ProbeSchema(m.release))
      /\ \A i \in DOMAIN m.items : /\ IsString(m.items[i].data.value)
                                   /\ "prop_" \o m.items[i].data.name \notin Kept
  BY MessageAssumption DEF Message, Content
<1>2. PICK schema : schema = ProbeSchema(m.release)
  OBVIOUS
<1>3. PICK data : data = m.data
  OBVIOUS
<1>4. \A k \in DOMAIN data : k \notin Kept /\ k # "probe" /\ Flattened(k) = k
  BY <1>1, <1>3, ProbeSchemaForm DEF Conforms, Free, Flattened
<1>5. PICK all : all = ProtoToFields(data)
  OBVIOUS
<1>6. /\ \A k \in DOMAIN all :
            k \in DOMAIN data /\ Same(data[k], all[k]) /\ all[k] # "nan"
      /\ (\A k \in DOMAIN data : data[k] # "nan") => DOMAIN all = DOMAIN data
  BY <1>5, ProtoForm
<1>7. PICK text : text = {k \in DOMAIN all : IsString(all[k])}
  OBVIOUS
<1>8. PICK rest : rest = Without(all, text)
  OBVIOUS
<1>9. DOMAIN rest = DOMAIN all \ text /\ \A k \in DOMAIN rest : rest[k] = all[k]
  BY <1>8 DEF Without
<1>10. PICK worded : worded = Without(all, DOMAIN all \ text)
  OBVIOUS
<1>11. DOMAIN worded = text /\ \A k \in DOMAIN worded : worded[k] = all[k]
  BY <1>7, <1>10 DEF Without
<1>12. PICK props, more : props = PropertyTags(m) /\ more = ProbeTags(m)
  OBVIOUS
<1>13. /\ \A k \in DOMAIN props : k \notin Kept /\ props[k] # "nan"
       /\ \A k \in DOMAIN more : k \notin Kept /\ more[k] # "nan"
  BY <1>1, <1>12, PropertyTagsForm, ProbeTagsForm
<1>14. PICK own : own = worded ++ props ++ more
  OBVIOUS
<1>15. /\ DOMAIN own = DOMAIN worded \union DOMAIN props \union DOMAIN more
       /\ \A k \in DOMAIN own : own[k] = IF k \in DOMAIN worded THEN worded[k]
                                        ELSE IF k \in DOMAIN props THEN props[k] ELSE more[k]
  BY <1>14 DEF ++
<1>16. PICK fields : fields = IF rest = NoFields THEN Entry("probe", "number") ELSE rest
  OBVIOUS
<1>17. ExtractProbeData(m, TimeOf(m))
         = <<MakeRecord("probe_message", own ++ GetTags(m.origin), fields, TimeOf(m))>>
  BY <1>3, <1>5, <1>7, <1>8, <1>10, <1>12, <1>14, <1>16 DEF ExtractProbeData
<1>18. \A k \in DOMAIN own : k \notin Kept /\ own[k] # "nan"
  BY <1>4, <1>6, <1>7, <1>11, <1>13, <1>15
<1>19. \A k \in DOMAIN rest : k \notin Kept /\ rest[k] \notin {"", "text", "nan"}
  BY <1>4, <1>6, <1>7, <1>9 DEF IsString
<1>20. rest # NoFields => fields = rest
  BY <1>16
<1>21. rest = NoFields => DOMAIN rest = {} /\ DOMAIN fields = {"probe"} /\ fields["probe"] = "number"
  BY <1>16 DEF NoFields, Entry
<1>22. "probe" \notin Kept
  BY DEF Kept
<1>23. CleanFields(fields)
  BY <1>19, <1>20, <1>21, <1>22 DEF CleanFields
<1>24. Holds(own, fields, data)
  <2>1. ASSUME \A k \in DOMAIN data : data[k] # "nan", NEW k \in DOMAIN data
        PROVE  \/ k \in DOMAIN fields /\ Same(data[k], fields[k])
               \/ k \notin DOMAIN fields /\ k \in DOMAIN own /\ Same(data[k], own[k])
    <3>1. k \in DOMAIN all /\ Same(data[k], all[k])
      BY <1>6, <2>1
    <3>2. CASE k \in text
      BY <1>4, <1>9, <1>11, <1>15, <1>20, <1>21, <3>1, <3>2
    <3>3. CASE k \notin text
      <4>1. k \in DOMAIN rest /\ Same(data[k], rest[k])
        BY <1>9, <3>1, <3>3
      <4>2. QED
        BY <1>20, <1>21, <4>1
    <3>4. QED
      BY <3>2, <3>3
  <2>2. QED
    BY <1>4, <2>1 DEF Holds
<1>25. PICK r : r = MakeRecord("probe_message", own ++ GetTags(m.origin), fields, TimeOf(m))
  OBVIOUS
<1>26. Shaped(r, m, data)
  BY <1>1, <1>18, <1>23, <1>24, <1>25, MadeWithTags
<1>27. PICK q : q = ExtractProbeData(m, TimeOf(m))
  OBVIOUS
<1>28. q = <<r>>
  BY <1>17, <1>25, <1>27, Zenon
<1>29. DOMAIN q = {1} /\ q[1] = r
  BY ONLY <1>28
<1>30. QED
  BY <1>3, <1>26, <1>27, <1>29, Zenon

LEMMA EventsOfCase ==
    ASSUME NEW m, m.release \in Releases, m.handler = m.release
    PROVE  /\ m.case \in DOMAIN EventSchema(m.release) => EventsOf(m) = {m.case}
           /\ m.case = "none" => EventsOf(m) = {}
<1>1. EventsOf(m) = {n \in DOMAIN EventSchema(m.release) : m.case = n}
  BY NamesComplete DEF EventsOf, EventSchema, V6_0_0!EventIs, V6_1_2!EventIs
<1>2. "none" \notin DOMAIN EventSchema(m.release)
  BY EventSchemaForm
<1>3. QED
  BY <1>1, <1>2

LEMMA AlertsOfCase ==
    ASSUME NEW m, m.release \in Releases, m.handler = m.release
    PROVE  /\ m.case \in DOMAIN AlertSchema(m.release) => AlertsOf(m) = {m.case}
           /\ m.case = "none" => AlertsOf(m) = {}
<1>1. AlertsOf(m) = {n \in DOMAIN AlertSchema(m.release) : m.case = n}
  BY NamesComplete DEF AlertsOf, AlertSchema, V6_0_0!AlertIs, V6_1_2!AlertIs
<1>2. "none" \notin DOMAIN AlertSchema(m.release)
  BY AlertSchemaForm
<1>3. QED
  BY <1>1, <1>2

\* All of an event or alert are tags, except for one constant field.
LEMMA TaggedShape ==
    ASSUME NEW m, Inventory(m.origin), NEW series, NEW data, NEW more, NEW key, NEW value,
           \A k \in DOMAIN data : k \notin Kept /\ k # key /\ k # "file_size",
           \A k \in DOMAIN more : k \notin Kept /\ more[k] # "nan",
           key \notin Kept, value \notin {"", "text", "nan"},
           NEW fields, DOMAIN fields = {key}, fields[key] = value
    PROVE  /\ Shaped(MakeRecord(series, TextTags(data) ++ more ++ GetTags(m.origin),
                                fields, TimeOf(m)), m, data)
           /\ more = NoFields =>
                Shaped(MakeRecord(series, TextTags(data) ++ GetTags(m.origin),
                                  fields, TimeOf(m)), m, data)
<1>1. PICK said : said = TextTags(data)
  OBVIOUS
<1>2. /\ \A k \in DOMAIN said : k \in DOMAIN data /\ Same(data[k], said[k]) /\ said[k] # "nan"
      /\ (\A k \in DOMAIN data : data[k] # "nan") =>
            \A k \in DOMAIN data : data[k] # "" => k \in DOMAIN said
  BY <1>1, TextTagsForm
<1>3. PICK own : own = said ++ more
  OBVIOUS
<1>4. /\ DOMAIN own = DOMAIN said \union DOMAIN more
      /\ \A k \in DOMAIN own : own[k] = IF k \in DOMAIN said THEN said[k] ELSE more[k]
  BY <1>3 DEF ++
<1>5. CleanFields(fields)
  BY DEF CleanFields
<1>6. \A k \in DOMAIN data : Flattened(k) = k /\ k \notin DOMAIN fields
  BY DEF Flattened
<1>7. Holds(said, fields, data)
  BY <1>2, <1>6 DEF Holds
<1>8. Holds(own, fields, data)
  BY <1>2, <1>4, <1>6 DEF Holds
<1>9. \A k \in DOMAIN said : k \notin Kept /\ said[k] # "nan"
  BY <1>2
<1>10. \A k \in DOMAIN own : k \notin Kept /\ own[k] # "nan"
  BY <1>4, <1>9
<1>11. Shaped(MakeRecord(series, own ++ GetTags(m.origin), fields, TimeOf(m)), m, data)
  BY <1>5, <1>8, <1>10, MadeWithTags
<1>12. Shaped(MakeRecord(series, said ++ GetTags(m.origin), fields, TimeOf(m)), m, data)
  BY <1>5, <1>7, <1>9, MadeWithTags
<1>13. QED
  BY <1>1, <1>3, <1>11, <1>12

LEMMA EventShape ==
    ASSUME NEW m \in Messages, m.handler = m.release, m.oneof = "event", m.case # "none"
    PROVE  /\ DOMAIN ExtractEventData(m, TimeOf(m)) = {1}
           /\ Shaped(ExtractEventData(m, TimeOf(m))[1], m, m.data)
<1>1. /\ m.release \in Releases /\ Inventory(m.origin)
      /\ m.case \in DOMAIN EventSchema(m.release)
      /\ Conforms(m.data, EventSchema(m.release)[m.case])
  BY MessageAssumption DEF Message, Content
<1>2. \A k \in DOMAIN m.data : k \notin Kept /\ k # "event" /\ k # "file_size"
  <2>1. Free(EventSchema(m.release)[m.case], {"event", "file_size"})
    BY <1>1, EventSchemaForm
  <2>2. QED
    BY <1>1, <2>1 DEF Conforms, Free
<1>3. EventsOf(m) = {m.case}
  BY <1>1, EventsOfCase
<1>4. PICK fields : fields = [event |-> "number"]
  OBVIOUS
<1>5. DOMAIN fields = {"event"} /\ fields["event"] = "number" /\ "event" \notin Kept
  BY <1>4 DEF Kept
<1>6. PICK series : series = <<"event", CHOOSE n \in EventsOf(m) : TRUE>>
  OBVIOUS
<1>7. PICK r : r = MakeRecord(series, TextTags(m.data) ++ GetTags(m.origin),
                              fields, TimeOf(m))
  OBVIOUS
<1>8. \A k \in DOMAIN NoFields : FALSE
  BY DEF NoFields
<1>9. Shaped(r, m, m.data)
  BY <1>1, <1>2, <1>5, <1>7, <1>8, TaggedShape
<1>10. PICK q : q = ExtractEventData(m, TimeOf(m))
  OBVIOUS
<1>11. q = <<r>>
  BY <1>3, <1>4, <1>6, <1>7, <1>10 DEF ExtractEventData
<1>12. DOMAIN q = {1} /\ q[1] = r
  BY ONLY <1>11
<1>13. QED
  BY <1>9, <1>10, <1>12, Zenon

LEMMA AlertShape ==
    ASSUME NEW m \in Messages, m.handler = m.release, m.oneof = "alert", m.case # "none"
    PROVE  /\ DOMAIN ExtractAlertData(m, TimeOf(m)) = {1}
           /\ Shaped(ExtractAlertData(m, TimeOf(m))[1], m, m.data)
<1>1. /\ m.release \in Releases /\ Inventory(m.origin) /\ m.severity # "nan"
      /\ m.case \in DOMAIN AlertSchema(m.release)
      /\ Conforms(m.data, AlertSchema(m.release)[m.case])
  BY MessageAssumption DEF Message, Content
<1>2. \A k \in DOMAIN m.data : k \notin Kept /\ k # "status" /\ k # "file_size"
  <2>1. Free(AlertSchema(m.release)[m.case], {"status", "file_size"})
    BY <1>1, AlertSchemaForm
  <2>2. QED
    BY <1>1, <2>1 DEF Conforms, Free
<1>3. AlertsOf(m) = {m.case}
  BY <1>1, AlertsOfCase
<1>4. PICK value : value = IF m.raised THEN "1" ELSE "0"
  OBVIOUS
<1>5. PICK fields : fields = [status |-> value]
  OBVIOUS
<1>6. DOMAIN fields = {"status"} /\ fields["status"] = value /\ "status" \notin Kept
      /\ value \notin {"", "text", "nan"}
  BY <1>4, <1>5 DEF Kept
<1>7. PICK more : more = Entry("severity", m.severity)
  OBVIOUS
<1>8. \A k \in DOMAIN more : k \notin Kept /\ more[k] # "nan"
  BY <1>1, <1>7 DEF Entry, Kept
<1>9. PICK series : series = <<"alert", CHOOSE n \in AlertsOf(m) : TRUE>>
  OBVIOUS
<1>10. PICK r : r = MakeRecord(series, TextTags(m.data) ++ more ++ GetTags(m.origin),
                               fields, TimeOf(m))
  OBVIOUS
<1>11. Shaped(r, m, m.data)
  BY <1>1, <1>2, <1>6, <1>8, <1>10, TaggedShape
<1>12. PICK q : q = ExtractAlertData(m, TimeOf(m))
  OBVIOUS
<1>13. q = <<r>>
  BY <1>3, <1>4, <1>5, <1>7, <1>9, <1>10, <1>12 DEF ExtractAlertData
<1>14. DOMAIN q = {1} /\ q[1] = r
  BY ONLY <1>13
<1>15. QED
  BY <1>11, <1>12, <1>14, Zenon
-----------------------------------------------------------------------------
(* The invariant *)

\* What the handler returns for a message that the reader gave it
RecordsOf(m) ==
    IF m.wire = "sequenced" /\ m.handler = m.release THEN DecodeMessage(m) ELSE <<>>

LEMMA EventRecords ==
    ASSUME NEW m \in Messages, m.handler = m.release, m.oneof = "event", NEW q,
           q = ExtractEventData(m, TimeOf(m))
    PROVE  /\ DOMAIN q = 1..Len(q) /\ Len(q) = IF m.case = "none" THEN 0 ELSE 1
           /\ m.case # "system_resource_counters"
           /\ \A i \in DOMAIN q : Shaped(q[i], m, Payload(m, i))
<1>1. m.release \in Releases /\ Content(m)
  BY MessageAssumption DEF Message
<1>2. CASE m.case = "none"
  <2>1. q = <<>>
    BY <1>1, <1>2, EventsOfCase DEF ExtractEventData
  <2>2. QED
    BY <1>2, <2>1
<1>3. CASE m.case # "none"
  <2>1. m.case # "system_resource_counters"
    BY <1>1, <1>3, EventSchemaForm DEF Content
  <2>2. DOMAIN q = {1} /\ Shaped(q[1], m, m.data)
    BY <1>3, EventShape
  <2>3. q = <<q[1]>>
    <3>1. PICK r : q = <<r>>
      BY <1>1, <1>3, EventsOfCase DEF ExtractEventData, Content
    <3>2. QED
      BY ONLY <3>1
  <2>4. DOMAIN q = 1..Len(q) /\ Len(q) = 1
    BY ONLY <2>3
  <2>5. QED
    BY <1>3, <2>1, <2>2, <2>4 DEF Payload
<1>4. QED
  BY <1>2, <1>3

LEMMA AlertRecords ==
    ASSUME NEW m \in Messages, m.handler = m.release, m.oneof = "alert", NEW q,
           q = ExtractAlertData(m, TimeOf(m))
    PROVE  /\ DOMAIN q = 1..Len(q) /\ Len(q) = IF m.case = "none" THEN 0 ELSE 1
           /\ m.case # "system_resource_counters"
           /\ \A i \in DOMAIN q : Shaped(q[i], m, Payload(m, i))
<1>1. m.release \in Releases /\ Content(m)
  BY MessageAssumption DEF Message
<1>2. CASE m.case = "none"
  <2>1. q = <<>>
    BY <1>1, <1>2, AlertsOfCase DEF ExtractAlertData
  <2>2. QED
    BY <1>2, <2>1
<1>3. CASE m.case # "none"
  <2>1. m.case # "system_resource_counters"
    BY <1>1, <1>3, AlertSchemaForm DEF Content
  <2>2. DOMAIN q = {1} /\ Shaped(q[1], m, m.data)
    BY <1>3, AlertShape
  <2>3. q = <<q[1]>>
    <3>1. PICK r : q = <<r>>
      BY <1>1, <1>3, AlertsOfCase DEF ExtractAlertData, Content
    <3>2. QED
      BY ONLY <3>1
  <2>4. DOMAIN q = 1..Len(q) /\ Len(q) = 1
    BY ONLY <2>3
  <2>5. QED
    BY <1>3, <2>1, <2>2, <2>4 DEF Payload
<1>4. QED
  BY <1>2, <1>3

LEMMA ResourceRecords ==
    ASSUME NEW m \in Messages, m.handler = m.release, m.oneof = "perf_mon",
           m.case = "system_resource_counters", NEW q, q = ExtractPerfMon(m, TimeOf(m))
    PROVE  /\ DOMAIN q = 1..Len(q) /\ Len(q) = Len(m.items)
           /\ \A i \in DOMAIN q : Shaped(q[i], m, Payload(m, i))
<1>1. /\ m.release \in Releases /\ Inventory(m.origin)
      /\ Len(m.items) \in Nat /\ DOMAIN m.items = 1..Len(m.items)
      /\ \A i \in DOMAIN m.items :
            /\ m.items[i].part \in DOMAIN ResourceSchema(m.release)
            /\ Conforms(m.items[i].data, ResourceSchema(m.release)[m.items[i].part])
  BY MessageAssumption DEF Message, Content
<1>2. q = [i \in DOMAIN m.items |-> SystemResource(m, m.items[i], TimeOf(m))]
  BY DEF ExtractPerfMon
<1>3. PICK n \in Nat : n = Len(m.items)
  BY <1>1
<1>4. DOMAIN q = 1..n
  BY <1>1, <1>2, <1>3
<1>5. q = [i \in 1..n |-> SystemResource(m, m.items[i], TimeOf(m))]
  BY <1>1, <1>2, <1>3
<1>6. Len(q) = n
  BY ONLY <1>5, n \in Nat
<1>7. ASSUME NEW i \in DOMAIN q
      PROVE  Shaped(q[i], m, Payload(m, i))
  <2>1. i \in DOMAIN m.items /\ q[i] = SystemResource(m, m.items[i], TimeOf(m))
    BY <1>2, <1>7
  <2>2. Shaped(SystemResource(m, m.items[i], TimeOf(m)), m, m.items[i].data)
    BY <1>1, <2>1, ResourceShape
  <2>3. Payload(m, i) = m.items[i].data
    BY DEF Payload
  <2>4. QED
    BY <2>1, <2>2, <2>3
<1>8. QED
  BY <1>3, <1>4, <1>6, <1>7

LEMMA CountersRecords ==
    ASSUME NEW m \in Messages, m.handler = m.release, m.oneof = "perf_mon",
           m.case \in {"interface_counters", "probe_message", "none"},
           NEW q, q = ExtractPerfMon(m, TimeOf(m))
    PROVE  /\ DOMAIN q = 1..Len(q) /\ Len(q) = IF m.case = "none" THEN 0 ELSE 1
           /\ \A i \in DOMAIN q : Shaped(q[i], m, Payload(m, i))
<1>1. CASE m.case = "none"
  <2>1. q = <<>>
    BY <1>1 DEF ExtractPerfMon
  <2>2. QED
    BY <1>1, <2>1
<1>2. ASSUME NEW r, q = <<r>>, m.case # "none", Shaped(r, m, m.data)
      PROVE  /\ DOMAIN q = 1..Len(q) /\ Len(q) = IF m.case = "none" THEN 0 ELSE 1
             /\ \A i \in DOMAIN q : Shaped(q[i], m, Payload(m, i))
  <2>1. DOMAIN q = 1..Len(q) /\ Len(q) = 1 /\ DOMAIN q = {1} /\ q[1] = r
    BY ONLY <1>2
  <2>2. Payload(m, 1) = m.data
    BY DEF Payload
  <2>3. QED
    BY <1>2, <2>1, <2>2
<1>3. CASE m.case = "interface_counters"
  <2>1. /\ m.release \in Releases /\ Inventory(m.origin)
        /\ Conforms(m.data, CountersSchema(m.release))
    BY <1>3, MessageAssumption DEF Message, Content
  <2>2. PICK r : r = MakeRecord("interface_counters", GetTags(m.origin), ProtoToFields(m.data),
                                TimeOf(m))
    OBVIOUS
  <2>3. Shaped(r, m, m.data)
    BY <2>1, <2>2, CountersSchemaForm, PlainShape
  <2>4. q = <<r>>
    BY <1>3, <2>2 DEF ExtractPerfMon
  <2>5. QED
    BY <1>2, <1>3, <2>3, <2>4
<1>4. CASE m.case = "probe_message"
  <2>1. q = ExtractProbeData(m, TimeOf(m))
    BY <1>4 DEF ExtractPerfMon
  <2>2. PICK r : q = <<r>>
    BY <2>1 DEF ExtractProbeData
  <2>3. q[1] = r
    BY ONLY <2>2
  <2>4. Shaped(r, m, m.data)
    BY <1>4, <2>1, <2>3, ProbeShape
  <2>5. QED
    BY <1>2, <1>4, <2>2, <2>4
<1>5. QED
  BY <1>1, <1>3, <1>4

\* A message of the handler's own release gives as many records as its schema says, each
\* of the shape that the properties ask for.
LEMMA Decoded ==
    ASSUME NEW m \in Messages
    PROVE  /\ DOMAIN RecordsOf(m) = 1..Len(RecordsOf(m)) /\ Len(RecordsOf(m)) = Worth(m)
           /\ \A i \in DOMAIN RecordsOf(m) : Shaped(RecordsOf(m)[i], m, Payload(m, i))
<1>1. PICK q : q = RecordsOf(m)
  OBVIOUS
<1>2. m.oneof \in {"none", "event", "alert", "perf_mon"} /\ Content(m)
  BY MessageAssumption DEF Message
<1>3. CASE ~(m.wire = "sequenced" /\ m.handler = m.release)
  <2>1. q = <<>> /\ Worth(m) = 0
    BY <1>1, <1>3 DEF RecordsOf, Worth
  <2>2. QED
    BY <1>1, <2>1
<1>4. CASE m.wire = "sequenced" /\ m.handler = m.release
  <2>1. q = DecodeMessage(m)
    BY <1>1, <1>4 DEF RecordsOf
  <2>2. Worth(m) = IF m.case = "none" THEN 0
                   ELSE IF m.case = "system_resource_counters" THEN Len(m.items) ELSE 1
    BY <1>4 DEF Worth
  <2>3. CASE m.oneof = "event"
    <3>1. q = ExtractEventData(m, TimeOf(m))
      BY <2>1, <2>3 DEF DecodeMessage, TimeOf
    <3>2. QED
      BY <1>1, <1>4, <2>2, <2>3, <3>1, EventRecords
  <2>4. CASE m.oneof = "alert"
    <3>1. q = ExtractAlertData(m, TimeOf(m))
      BY <2>1, <2>4 DEF DecodeMessage, TimeOf
    <3>2. QED
      BY <1>1, <1>4, <2>2, <2>4, <3>1, AlertRecords
  <2>5. CASE m.oneof = "perf_mon"
    <3>1. q = ExtractPerfMon(m, TimeOf(m))
      BY <2>1, <2>5 DEF DecodeMessage, TimeOf
    <3>2. CASE m.case = "system_resource_counters"
      BY <1>1, <1>4, <2>2, <2>5, <3>1, <3>2, ResourceRecords
    <3>3. CASE m.case # "system_resource_counters"
      <4>1. m.case \in {"interface_counters", "probe_message", "none"}
        BY <1>2, <2>5, <3>3 DEF Content
      <4>2. QED
        BY <1>1, <1>4, <2>2, <2>5, <3>1, <3>3, <4>1, CountersRecords
    <3>4. QED
      BY <3>2, <3>3
  <2>6. CASE m.oneof = "none"
    <3>1. q = <<>> /\ m.case = "none"
      BY <1>2, <2>1, <2>6 DEF DecodeMessage, Content
    <3>2. QED
      BY <1>1, <2>2, <3>1
  <2>7. QED
    BY <1>2, <2>3, <2>4, <2>5, <2>6
<1>5. QED
  BY <1>3, <1>4

\* The records are those of the message in the handler.
RecordsInv ==
    \/ message = NoMessage /\ records = <<>>
    \/ message \in Messages /\ records = RecordsOf(message)

LEMMA InitHolds == Init => RecordsInv
BY DEF Init, RecordsInv

LEMMA RejectKeeps ==
    ASSUME NEW m \in Messages, Reject(m) PROVE RecordsInv'
<1>1. ~(m.wire = "sequenced" /\ m.handler = m.release)
  BY DEF Reject, Embedded
<1>2. RecordsOf(m) = <<>>
  BY <1>1 DEF RecordsOf
<1>3. QED
  BY <1>2 DEF Reject, RecordsInv

LEMMA DecodeKeeps ==
    ASSUME NEW m \in Messages, Decode(m) PROVE RecordsInv'
<1>1. Embedded(m) = "message" <=> m.wire = "sequenced" /\ m.handler = m.release
  BY DEF Embedded
<1>2. records' = RecordsOf(m) /\ message' = m
  BY <1>1 DEF Decode, RecordsOf
<1>3. QED
  BY <1>2 DEF RecordsInv

LEMMA ReadNextKeeps == ReadNext => RecordsInv'
BY DEF ReadNext, RecordsInv

LEMMA StutterKeeps == RecordsInv /\ UNCHANGED vars => RecordsInv'
BY DEF RecordsInv, vars

\* The handler answers a message with its records, and waits with none.
THEOREM Inductive == Spec => []RecordsInv
<1>1. RecordsInv /\ [Next]_vars => RecordsInv'
  BY RejectKeeps, DecodeKeeps, ReadNextKeeps, StutterKeeps DEF Next, HandleNext
<1>2. QED
  BY <1>1, InitHolds, PTL DEF Spec

LEMMA RecordForm ==
    ASSUME RecordsInv, NEW i \in DOMAIN records
    PROVE  message \in Messages /\ Shaped(records[i], message, Payload(message, i))
BY Decoded DEF RecordsInv

LEMMA FlatForm ==
    ASSUME NEW r, \A k \in DOMAIN r.fields : k \notin Kept
    PROVE  /\ \A k \in DOMAIN r.fields : k \in DOMAIN FlatRecord(r) /\ FlatRecord(r)[k] = r.fields[k]
           /\ \A k \in DOMAIN r.tags \ DOMAIN r.fields :
                 k \in DOMAIN FlatRecord(r) /\ FlatRecord(r)[k] = r.tags[k]
           /\ \A k \in {"series", "_ts"} \ DOMAIN r.tags :
                 k \in DOMAIN FlatRecord(r)
                 /\ FlatRecord(r)[k] = [series |-> "series", _ts |-> "ts"][k]
<1>1. PICK last : last = [series |-> "series", _ts |-> "ts"]
  OBVIOUS
<1>2. DOMAIN last = {"series", "_ts"}
  BY <1>1
<1>3. PICK flat : flat = FlatRecord(r)
  OBVIOUS
<1>4. flat = r.fields ++ r.tags ++ last
  BY <1>1, <1>3 DEF FlatRecord
<1>5. /\ DOMAIN flat = DOMAIN r.fields \union DOMAIN r.tags \union {"series", "_ts"}
      /\ \A k \in DOMAIN flat : flat[k] = IF k \in DOMAIN r.fields THEN r.fields[k]
                                        ELSE IF k \in DOMAIN r.tags THEN r.tags[k] ELSE last[k]
  BY <1>2, <1>4 DEF ++
<1>6. "series" \in Kept /\ "_ts" \in Kept
  BY DEF Kept
<1>7. QED
  BY <1>1, <1>3, <1>5, <1>6
-----------------------------------------------------------------------------
(* The properties *)

\* Tags are text and fields are not, whatever message a record comes from.
THEOREM TypeCorrect == Spec => []TypeOK
<1>1. RecordsInv => TypeOK
  <2>1. SUFFICES ASSUME RecordsInv PROVE TypeOK
    OBVIOUS
  <2>2. message = NoMessage => records = <<>>
    BY <2>1, MessageAssumption DEF RecordsInv, Message
  <2>3. ASSUME NEW i \in DOMAIN records
        PROVE  /\ \A k \in DOMAIN records[i].tags : records[i].tags[k] # "nan"
               /\ \A k \in DOMAIN records[i].fields : records[i].fields[k] \notin {"", "text", "nan"}
    BY <2>1, RecordForm DEF Shaped
  <2>4. QED
    BY <2>2, <2>3 DEF TypeOK
<1>2. QED
  BY <1>1, Inductive, PTL

\* What the caches know of a device reaches every record made of its messages, and
\* nothing in the message replaces it.
THEOREM KeepsEnrichment == Spec => []EnrichmentKept
<1>1. RecordsInv => EnrichmentKept
  <2>1. SUFFICES ASSUME RecordsInv, NEW i \in DOMAIN records
                 PROVE  LET flat == FlatRecord(records[i])
                            kept == GetTags(message.origin) ++ [series |-> "series", _ts |-> "ts"]
                        IN  /\ \A k \in DOMAIN kept : k \in DOMAIN flat /\ flat[k] = kept[k]
                            /\ \A item \in message.origin.systems :
                                  FirstOf(<<item.device_key, item.id>>) = message.origin.key =>
                                     /\ item.active_role # "" \/ item.status_role # ""
                                          => Get(flat, "role") # ""
                                     /\ (\E b \in message.origin.blueprints : b.id = item.blueprint_id)
                                          => Get(flat, "blueprint") # ""
    BY DEF EnrichmentKept
  <2>2. message \in Messages /\ Shaped(records[i], message, Payload(message, i))
    BY <2>1, RecordForm
  <2>3. Inventory(message.origin)
    BY <2>2, MessageAssumption DEF Message
  <2>4. PICK r, flat, given, last, kept :
           /\ r = records[i] /\ flat = FlatRecord(records[i]) /\ given = GetTags(message.origin)
           /\ last = [series |-> "series", _ts |-> "ts"] /\ kept = given ++ last
    OBVIOUS
  <2>5. DOMAIN last = {"series", "_ts"}
    BY <2>4
  <2>6. /\ DOMAIN kept = DOMAIN given \union {"series", "_ts"}
        /\ \A k \in DOMAIN given : kept[k] = given[k]
        /\ \A k \in {"series", "_ts"} \ DOMAIN given : kept[k] = last[k]
    BY <2>4, <2>5 DEF ++
  <2>7. /\ \A k \in DOMAIN r.fields : k \notin Kept
        /\ \A k \in DOMAIN r.tags : k \notin {"series", "_ts"}
        /\ \A k \in DOMAIN given : k \in DOMAIN r.tags /\ r.tags[k] = given[k]
    BY <2>2, <2>4 DEF Shaped
  <2>8. DOMAIN given \subseteq Kept \ {"series", "_ts"}
    BY <2>3, <2>4, TagsForm
  <2>9. /\ \A k \in DOMAIN r.tags \ DOMAIN r.fields : k \in DOMAIN flat /\ flat[k] = r.tags[k]
        /\ \A k \in {"series", "_ts"} \ DOMAIN r.tags : k \in DOMAIN flat /\ flat[k] = last[k]
    BY <2>4, <2>7, FlatForm
  <2>10. \A k \in DOMAIN given : k \in DOMAIN flat /\ flat[k] = given[k]
    BY <2>7, <2>8, <2>9
  <2>11. \A k \in DOMAIN kept : k \in DOMAIN flat /\ flat[k] = kept[k]
    BY <2>6, <2>7, <2>8, <2>9, <2>10
  <2>12. ASSUME NEW item \in message.origin.systems,
                FirstOf(<<item.device_key, item.id>>) = message.origin.key
         PROVE  /\ item.active_role # "" \/ item.status_role # "" => Get(flat, "role") # ""
                /\ (\E b \in message.origin.blueprints : b.id = item.blueprint_id)
                      => Get(flat, "blueprint") # ""
    <3>1. /\ item.active_role # "" \/ item.status_role # "" =>
                "role" \in DOMAIN given /\ given["role"] # ""
          /\ (\E b \in message.origin.blueprints : b.id = item.blueprint_id) =>
                "blueprint" \in DOMAIN given /\ given["blueprint"] # ""
      BY <2>3, <2>4, <2>12, TagsForm
    <3>2. QED
      BY <2>10, <3>1 DEF Get
  <2>13. QED
    BY <2>4, <2>11, <2>12
<1>2. QED
  BY <1>1, Inductive, PTL

\* Whichever case of which release a message is, each of its keys has a value in the
\* record, under the key that the code gives it: text and numbers below a million the
\* one that DCD sent, larger numbers as the float64 that JSON makes of them, or its
\* text.  A message with a number that JSON cannot hold is excepted.
THEOREM LosesNothing == Spec => []NothingLost
<1>1. RecordsInv => NothingLost
  <2>1. SUFFICES ASSUME RecordsInv, NEW i \in DOMAIN records,
                        \A k \in DOMAIN Payload(message, i) : Payload(message, i)[k] # "nan",
                        NEW k \in DOMAIN NonEmpty(Payload(message, i))
                 PROVE  /\ Flattened(k) \in DOMAIN FlatRecord(records[i])
                        /\ Same(Payload(message, i)[k], FlatRecord(records[i])[Flattened(k)])
    BY DEF NothingLost
  <2>2. Shaped(records[i], message, Payload(message, i))
    BY <2>1, RecordForm
  <2>3. PICK r, data, f :
           r = records[i] /\ data = Payload(message, i) /\ f = Flattened(k)
    OBVIOUS
  <2>4. k \in DOMAIN data /\ data[k] # ""
    BY <2>1, <2>3 DEF NonEmpty
  <2>5. \/ f \in DOMAIN r.fields /\ Same(data[k], r.fields[f])
        \/ f \notin DOMAIN r.fields /\ f \in DOMAIN r.tags /\ Same(data[k], r.tags[f])
    BY <2>1, <2>2, <2>3, <2>4 DEF Shaped
  <2>6. \A key \in DOMAIN r.fields : key \notin Kept
    BY <2>2, <2>3 DEF Shaped
  <2>7. f \in DOMAIN FlatRecord(r) /\ Same(data[k], FlatRecord(r)[f])
    BY <2>5, <2>6, FlatForm
  <2>8. QED
    BY <2>3, <2>7
<1>2. QED
  BY <1>1, Inductive, PTL

\* No list of getters misses a case of its release: every message has its records.
THEOREM RecordsEach == Spec => []Recorded
<1>1. RecordsInv => Recorded
  BY Decoded DEF RecordsInv, Recorded
<1>2. QED
  BY <1>1, Inductive, PTL

\* A time within a day of the host's clock is kept, and any other is replaced by it,
\* the unsigned times of release 6.0.0 and those too far for a Duration included.
THEOREM StampsRight == Spec => []StampRight
<1>1. RecordsInv => StampRight
  BY RecordForm, MessageStamp DEF StampRight, Shaped, Plausible
<1>2. QED
  BY <1>1, Inductive, PTL
=============================================================================
