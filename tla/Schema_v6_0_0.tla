--------------------------- MODULE Schema_v6_0_0 ----------------------------
(***************************************************************************)
(* The message types of DCD 6.0.0 that the decoder turns into records: for *)
(* each, what ProtoToFields can find under each of its JSON keys.          *)
(***************************************************************************)
EXTENDS MessageKinds

(* Enumerations.  The parser does not set a field to a number that is not here. *)

DeviceState == Enum(1..13)
StreamingType == Enum(0..2)
StreamingProtocol == Enum({0})
StreamingStatus == Enum(0..1)
StreamingSequencingMode == Enum(0..1)
BgpSessionState == Enum(0..3)
BgpSessionAddressFamily == Enum(0..2)
LinkStatus == Enum(0..3)
MacState == Enum(0..2)
ArpState == Enum(0..1)
MlagDomainState == Enum(0..4)
MlagIntfState == Enum(0..6)
RouteEntryStatus == Enum(0..3)
StreamingAlertReason == Enum(0..3)
DeploymentStatus == Enum(0..2)
RouteState == Enum(0..1)

-----------------------------------------------------------------------------
(* Events *)

DeviceStateEvent == [state |-> DeviceState]

StreamingEvent ==
    Strings({"dcd_server"})
    ++ [streaming_type |-> StreamingType, protocol |-> StreamingProtocol,
       status |-> StreamingStatus, sequencing_mode |-> StreamingSequencingMode]

CablePeerEvent ==
    Strings({"lcl_device_id", "lcl_hostname", "lcl_ifname", "rmt_hostname",
             "rmt_ifname", "rmt_sysdescr"})

BGPNeighborEvent ==
    Strings({"lcl_hostname", "lcl_ipaddr", "rmt_ipaddr", "vrf_name"})
    ++ Numbers({"lcl_asn", "rmt_asn"})
    ++ [state |-> BgpSessionState, addr_family |-> BgpSessionAddressFamily]

LinkStatusEvent == Strings({"hostname", "ifname"}) ++ [state |-> LinkStatus]

MacEvent ==
    Strings({"macaddress", "intfname"})
    ++ Numbers({"vlan"})
    ++ [state |-> MacState]

ArpEvent == Strings({"ipaddress", "mac", "intfname", "vrfname"}) ++ [state |-> ArpState]

LagEvent ==
    Strings({"hostname", "lagname"})
    ++ Numbers({"interfacesupcount"})
    ++ Lists({"interfacesup"})

MlagEvent ==
    Strings({"domain_id", "intfname"})
    ++ [domain_state |-> MlagDomainState, intf_state |-> MlagIntfState]

ExtensibleServiceEvent == Strings({"key", "value"})

RouteEvent == Strings({"dest_network", "hostname"}) ++ [status |-> RouteEntryStatus]

\* The oneof of Event: the payload of each case
EventCases ==
    [device_state |-> DeviceStateEvent, streaming |-> StreamingEvent,
     cable_peer |-> CablePeerEvent, bgp_neighbor |-> BGPNeighborEvent,
     link_status |-> LinkStatusEvent, mac_state |-> MacEvent, arp_state |-> ArpEvent,
     lag_state |-> LagEvent, mlag_state |-> MlagEvent,
     extensible_event |-> ExtensibleServiceEvent, route_state |-> RouteEvent]

\* The getters of the oneof answer nil but for the case that is set.
EventIs(event, name) == event.case = name

-----------------------------------------------------------------------------
(* Alerts *)

\* The first one is what GetSeverity answers for an alert without a severity.
AlertSeverity == <<"ALERT_LOW", "ALERT_MEDIUM", "ALERT_HIGH", "ALERT_CRITICAL">>

ConfigDeviationAlert == Strings({})

StreamingAlert ==
    Strings({"dcd_server"})
    ++ [streaming_type |-> StreamingType, protocol |-> StreamingProtocol,
       reason |-> StreamingAlertReason, sequencing_mode |-> StreamingSequencingMode]

CablePeerMismatchAlert ==
    Strings({"lcl_hostname", "lcl_ifname", "exp_hostname", "exp_ifname",
             "rmt_hostname", "rmt_ifname", "rmt_sysdescr"})

BGPNeighborMismatchAlert ==
    Strings({"lcl_hostname", "lcl_ipaddr", "rmt_ipaddr", "rmt_name", "vrf_name"})
    ++ Numbers({"lcl_asn", "rmt_asn"})
    ++ [expected_state |-> BgpSessionState, actual_state |-> BgpSessionState,
       addr_family |-> BgpSessionAddressFamily]

InterfaceLinkStatusMismatchAlert ==
    Strings({"hostname", "ifname"})
    ++ [expected_ifstatus |-> LinkStatus, actual_ifstatus |-> LinkStatus]

HostnameAlert == Strings({"expected_hostname", "actual_hostname"})

RouteAlert ==
    Strings({"ip"})
    ++ [expected_dest_status |-> RouteEntryStatus,
       actual_dest_status |-> RouteEntryStatus]

LivenessAlert == Bools({"alive"}) ++ Lists({"expected_agents", "actual_agents"})

DeploymentAlert ==
    [expected_deployment_status |-> DeploymentStatus,
    actual_deployment_status |-> DeploymentStatus]

BlueprintRenderingAlert == Lists({"failed_systems"})

MacAlert ==
    Strings({"macaddress", "intfname"})
    ++ Numbers({"vlan", "movecount"})
    ++ Floats({"actual_move_interval", "expected_max_interval"})

ArpAlert == Strings({"ipaddress", "mac", "intfname"})

LagAlert ==
    Strings({"hostname", "lagname"})
    ++ Numbers({"expected_ifup_count", "actual_ifup_count"})
    ++ Lists({"expected_interfaces_up", "actual_interfaces_up"})

MlagAlert ==
    Strings({"hostname", "domain_id", "ifname", "peer_link", "peer_link_status",
             "expected_peer_link_status"})
    ++ Numbers({"mlag_id"})
    ++ [expected_domain_state |-> MlagDomainState,
       actual_domain_state |-> MlagDomainState, expected_intf_state |-> MlagIntfState,
       actual_intf_state |-> MlagIntfState]

ProbeAlert ==
    Strings({"expected_discrete_state", "actual_discrete_state", "probe_id",
             "stage_name", "item_id", "expected_text", "actual_text", "probe_label",
             "predefined_probe_name"})
    ++ Longs({"expected_int", "actual_int", "expected_int_max"})
    ++ Floats({"expected_float", "actual_float", "expected_float_max"})
    ++ Lists({"key_value_pairs"})

ExtensibleAlert == Strings({"key", "expected", "actual"})

TestAlert == Longs({"test_int"})

\* The oneof of Alert
AlertCases ==
    [config_deviation_alert |-> ConfigDeviationAlert, streaming_alert |-> StreamingAlert,
     cable_peer_mismatch_alert |-> CablePeerMismatchAlert,
     bgp_neighbor_mismatch_alert |-> BGPNeighborMismatchAlert,
     interface_link_status_mismatch_alert |-> InterfaceLinkStatusMismatchAlert,
     hostname_alert |-> HostnameAlert, route_alert |-> RouteAlert,
     liveness_alert |-> LivenessAlert, deployment_alert |-> DeploymentAlert,
     blueprint_rendering_alert |-> BlueprintRenderingAlert, mac_alert |-> MacAlert,
     arp_alert |-> ArpAlert, lag_alert |-> LagAlert, mlag_alert |-> MlagAlert,
     probe_alert |-> ProbeAlert, extensible_alert |-> ExtensibleAlert,
     test_alert |-> TestAlert]

\* The getters of the oneof
AlertIs(alert, name) == alert.case = name

\* What the getters answer that do not depend on the case
Alert == [severity : {AlertSeverity[i] : i \in DOMAIN AlertSeverity}, raised : BOOLEAN]

-----------------------------------------------------------------------------
(* PerfMon *)

InterfaceCounters ==
    Longs({"tx_unicast_packets", "tx_broadcast_packets", "tx_multicast_packets",
           "tx_bytes", "rx_unicast_packets", "rx_broadcast_packets",
           "rx_multicast_packets", "rx_bytes", "tx_error_packets",
           "tx_discard_packets", "rx_error_packets", "rx_discard_packets",
           "alignment_errors", "fcs_errors", "symbol_errors", "runts", "giants",
           "delta_seconds", "delta_microseconds"})

SystemInfo ==
    Longs({"memory_used", "memory_total"})
    ++ Floats({"cpu_user", "cpu_system", "cpu_idle"})

ProcessInfo ==
    Strings({"process_name"})
    ++ Longs({"memory_used"})
    ++ Floats({"cpu_user", "cpu_system"})

FileInfo == Strings({"file_name"}) ++ Longs({"file_size"})

\* The parts of the system resource counters, in the order of their records
SysResourceCounters ==
    [system_info |-> SystemInfo, process_info |-> ProcessInfo, file_info |-> FileInfo]

EvpnType3RouteEvent ==
    Strings({"system_id", "next_hop", "rd", "rt"})
    ++ Numbers({"vni"})
    ++ [state |-> RouteState]

EvpnType5RouteEvent ==
    Strings({"system_id", "af", "subnet", "next_hop", "rd", "rt"})
    ++ [state |-> RouteState]

InterfaceCountersUtilization ==
    Longs({"tx_utilization", "rx_utilization", "tx_unicast_pps", "tx_broadcast_pps",
           "tx_multicast_pps", "tx_bps", "tx_error_pps", "tx_discard_pps",
           "rx_unicast_pps", "rx_broadcast_pps", "rx_multicast_pps", "rx_bps",
           "rx_error_pps", "rx_discard_pps", "alignment_errors_per_second",
           "fcs_errors_per_second", "symbol_errors_per_second", "runts_per_second",
           "giants_per_second"})

SystemInterfaceUtilization ==
    Numbers({"aggregate_tx_bps", "aggregate_rx_bps", "max_ifc_tx_utilization",
             "max_ifc_rx_utilization", "aggregate_tx_utilization",
             "aggregate_rx_utilization"})

ActiveFloodlistEvent ==
    Strings({"system_id", "vtep"})
    ++ Numbers({"vni"})
    ++ [state |-> RouteState]

\* The oneof of ProbeMessage
ProbeCases ==
    [int64_value |-> Longs({"Int64Value"}), float_value |-> Floats({"FloatValue"}),
     string_value |-> Strings({"StringValue"}),
     evpn_type3_route_state |-> EvpnType3RouteEvent,
     evpn_type5_route_state |-> EvpnType5RouteEvent,
     interface_counters_utilization |-> InterfaceCountersUtilization,
     system_interface_utilization |-> SystemInterfaceUtilization,
     active_floodlist |-> ActiveFloodlistEvent]

ProbeMessage ==
    Strings({"probe_id", "stage_name", "blueprint_id", "item_id", "probe_label"})
    ++ Lists({"property"})
    ++ Entry("Value", OneOf(ProbeCases))

ProbeProperty == Strings({"name", "value"})

\* The oneof of PerfMon
PerfMonCases == {"interface_counters", "system_resource_counters", "probe_message"}

-----------------------------------------------------------------------------
(* DcdMessage and its envelope *)

\* The field numbers of DcdMessage: those of its oneof are 3, 4, 5.
DcdMessage == {1, 2, 3, 4, 5, 6, 7, 8, 9}

\* The field of DcdSequencedMessage that holds the message
DcdProto == 15
=============================================================================
