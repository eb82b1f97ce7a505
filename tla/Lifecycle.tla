----------------------------- MODULE Lifecycle -----------------------------
(***************************************************************************)
(* FLBPluginInit, the callbacks' choice of an instance and FLBPluginExit   *)
(* of cmd/plugin/main.go, for several [INPUT] blocks in one process: what  *)
(* each step acquires and releases, and what an Init leaves behind that    *)
(* fails half-way.                                                         *)
(*                                                                         *)
(* The Fluent Bit engine (external) initialises the inputs one after the   *)
(* other, polls those that succeeded, and exits, which it may also do       *)
(* between two Inits.                                                       *)
(***************************************************************************)
EXTENDS Settings

CONSTANTS
    Plugins,    \* plugin pointers, one for each [INPUT] block
    NoPlugin,   \* the engine is in no Init and no Exit
    Ports,      \* TCP ports
    NoPort,     \* prometheus_enabled is off
    Block,      \* per plugin: its [INPUT] block
    Releases    \* the keys of releaseHandlers

ASSUME ConfigAssumption ==
    /\ NoPlugin \notin Plugins
    /\ NoPort \notin Ports
    /\ IsFiniteSet(Plugins)
    /\ \A p \in Plugins : \A key \in Lists : Block[p][key] \in Seq(STRING)

Config == [p \in Plugins |-> FromPlugin(Block[p])]
Valid == {p \in Plugins : Accepted(Block[p])}
Supported == {p \in Plugins : Config[p].dcd_release \in Releases}
Port == [p \in Plugins |-> Config[p].port]
PromPort == [p \in Plugins |->
                IF Config[p].prometheus_enabled THEN Config[p].prometheus_port ELSE NoPort]

VARIABLES
    phase,      \* of the engine: initialising, polling or exiting
    caller,     \* the plugin whose Init or Exit the engine's thread is in
    at,         \* per plugin: how far its Init or its part of Exit has come
    instances,  \* the keys of the instances map
    taken,      \* ports that other processes use
    exporters,  \* plugins whose exporter serves on its port
    observed,   \* plugins whose decoder has its MetricsObserver
    listeners,  \* plugins whose listener is open
    streaming,  \* per plugin: the types StartStreaming was called with
    refreshers, \* plugins whose refresh goroutine runs
    waiting,    \* plugins whose Records channel holds records
    stray,      \* plugins that the engine calls back with a pointer it never
                \* passed to Init
    emitted     \* the input that emitted records last, whose records these
                \* are, and by which callback

vars == <<phase, caller, at, instances, taken, exporters, observed, listeners,
          streaming, refreshers, waiting, stray, emitted>>
resources == <<taken, exporters, observed, listeners, streaming, refreshers>>
calls == <<waiting, stray, emitted>>

\* net.Listen works for this port.
Free(port) ==
    /\ port \in Ports \ taken
    /\ \A p \in exporters : PromPort[p] # port
    /\ \A p \in listeners : Port[p] # port

Goto(p, place) == at' = [at EXCEPT ![p] = place]

Init ==
    /\ phase = "initialising"
    /\ caller = NoPlugin
    /\ at = [p \in Plugins |-> "none"]
    /\ instances = {}
    /\ taken \in SUBSET Ports
    /\ exporters = {} /\ observed = {} /\ listeners = {}
    /\ streaming = [p \in Plugins |-> <<>>] /\ refreshers = {}
    /\ waiting = {}
    /\ stray \in SUBSET Plugins
    /\ emitted = {}
-----------------------------------------------------------------------------
(* FLBPluginInit *)

CallInit(p) ==
    /\ phase = "initialising"
    /\ caller = NoPlugin
    /\ at[p] = "none"
    /\ caller' = p
    /\ Goto(p, "config")
    /\ observed' = observed \ {p}
    /\ UNCHANGED <<phase, instances, taken, exporters, listeners, streaming, refreshers, calls>>

\* return input.FLB_ERROR
Fail(p) ==
    /\ caller' = NoPlugin
    /\ Goto(p, "failed")
    /\ UNCHANGED <<phase, instances, resources, calls>>

ConfigFails(p) == at[p] = "config" /\ p \notin Valid /\ Fail(p)

\* Faulty variant: the observer is set to a nil exporter.
NoExporterObserved(p) ==
    /\ at[p] = "config"
    /\ p \in Valid
    /\ PromPort[p] = NoPort
    /\ Goto(p, "observer")
    /\ UNCHANGED <<phase, caller, instances, resources, calls>>

\* promexport.New is not called; logging in and the inventory change nothing here.
NoExporter(p) ==
    /\ at[p] = "config"
    /\ p \in Valid
    /\ PromPort[p] = NoPort
    /\ Goto(p, "release")
    /\ UNCHANGED <<phase, caller, instances, resources, calls>>

StartExporter(p) ==
    /\ at[p] = "config"
    /\ p \in Valid
    /\ PromPort[p] # NoPort
    /\ Free(PromPort[p])
    /\ exporters' = exporters \union {p}
    /\ Goto(p, "observer")
    /\ UNCHANGED <<phase, caller, instances, taken, observed, listeners, streaming,
                   refreshers, calls>>

ExporterFails(p) ==
    /\ at[p] = "config"
    /\ p \in Valid
    /\ PromPort[p] # NoPort
    /\ ~Free(PromPort[p])
    /\ Fail(p)

\* Faulty variant: the decoder does not get the exporter.
SetMetricsObserverNot(p) ==
    /\ at[p] = "observer"
    /\ Goto(p, "release")
    /\ UNCHANGED <<phase, caller, instances, resources, calls>>

SetMetricsObserver(p) ==
    /\ at[p] = "observer"
    /\ observed' = observed \union {p}
    /\ Goto(p, "release")
    /\ UNCHANGED <<phase, caller, instances, taken, exporters, listeners, streaming,
                   refreshers, calls>>

Unsupported(p) == at[p] = "release" /\ p \notin Supported /\ Fail(p)

StartListener(p) ==
    /\ at[p] = "release"
    /\ p \in Supported
    /\ Free(Port[p])
    /\ listeners' = listeners \union {p}
    /\ Goto(p, "stream")
    /\ UNCHANGED <<phase, caller, instances, taken, exporters, observed, streaming,
                   refreshers, calls>>

\* Faulty variant: the error of Listener.Start is only logged.
ListenerFailsLogged(p) ==
    /\ at[p] = "release"
    /\ p \in Supported
    /\ ~Free(Port[p])
    /\ Goto(p, "stream")
    /\ UNCHANGED <<phase, caller, instances, resources, calls>>

ListenerFails(p) == at[p] = "release" /\ p \in Supported /\ ~Free(Port[p]) /\ Fail(p)

\* One call for each streaming type (module Sessions); failures are only logged.
StartStreaming(p) ==
    /\ at[p] = "stream"
    /\ streaming' = [streaming EXCEPT ![p] = Subscriptions(Config[p])]
    /\ Goto(p, "register")
    /\ UNCHANGED <<phase, caller, instances, taken, exporters, observed, listeners,
                   refreshers, calls>>

\* Faulty variant: the instance is not entered in the map.
RegisterNot(p) ==
    /\ at[p] = "register"
    /\ refreshers' = refreshers \union {p}
    /\ caller' = NoPlugin
    /\ Goto(p, "ready")
    /\ UNCHANGED <<phase, instances, taken, exporters, observed, listeners, streaming, calls>>

\* The refresh goroutine, instances[plugin] = inst, return input.FLB_OK
Register(p) ==
    /\ at[p] = "register"
    /\ refreshers' = refreshers \union {p}
    /\ instances' = instances \union {p}
    /\ caller' = NoPlugin
    /\ Goto(p, "ready")
    /\ UNCHANGED <<phase, taken, exporters, observed, listeners, streaming, calls>>
-----------------------------------------------------------------------------
(* Outside of the plugin *)

\* A reader of an open listener puts a record into the channel.
RecordArrives(p) ==
    /\ p \in listeners
    /\ waiting' = waiting \union {p}
    /\ UNCHANGED <<phase, caller, at, instances, resources, stray, emitted>>

OtherProcess(port) ==
    /\ taken' = IF port \in taken THEN taken \ {port} ELSE taken \union {port}
    /\ port \in taken \/ Free(port)
    /\ UNCHANGED <<phase, caller, at, instances, exporters, observed, listeners, streaming,
                   refreshers, calls>>

StartPolling ==
    /\ phase = "initialising"
    /\ \A p \in Plugins : at[p] \in {"ready", "failed"}
    /\ phase' = "polling"
    /\ UNCHANGED <<caller, at, instances, resources, calls>>
-----------------------------------------------------------------------------
(* FLBPluginInputCallbackCtx and FLBPluginInputCallback *)

\* The channel is drained (module Pipeline takes this step apart).
Emit(input, instance, callback) ==
    /\ waiting' = waiting \ {instance}
    /\ emitted' = {[input |-> input, instance |-> instance, callback |-> callback]}
    /\ UNCHANGED <<phase, caller, at, instances, resources, stray>>

Polled(p) == phase = "polling" /\ at[p] = "ready"

\* Faulty variant: a pointer that is not in the map gets any instance.
ChosenAny(p) == IF p \in stray THEN instances ELSE instances \intersect {p}

\* Faulty variant: without the fallback for a single instance.
ChosenExact(p) == IF p \in stray THEN {} ELSE instances \intersect {p}

\* The instance of the context, or the only one there is
Chosen(p) ==
    IF p \notin stray THEN instances \intersect {p}
    ELSE IF Cardinality(instances) = 1 THEN instances ELSE {}

CallbackCtx(p) ==
    /\ Polled(p)
    /\ \E i \in Chosen(p) \intersect waiting : Emit(p, i, "ctx")

\* Engines without contexts: the first instance of Go's unordered iteration
Callback(p) ==
    /\ Polled(p)
    /\ \E i \in instances \intersect waiting : Emit(p, i, "plain")
-----------------------------------------------------------------------------
(* FLBPluginExit *)

CallExit ==
    /\ phase \in {"initialising", "polling"}
    /\ caller = NoPlugin
    /\ phase' = "exiting"
    /\ UNCHANGED <<caller, at, instances, resources, calls>>

\* for _, inst := range instances: close(inst.quit)
CloseQuit(p) ==
    /\ phase = "exiting"
    /\ caller = NoPlugin
    /\ p \in instances
    /\ at[p] = "ready"
    /\ caller' = p
    /\ refreshers' = refreshers \ {p}
    /\ Goto(p, "stop_listener")
    /\ UNCHANGED <<phase, instances, taken, exporters, observed, listeners, streaming, calls>>

StopListener(p) ==
    /\ at[p] = "stop_listener"
    /\ listeners' = listeners \ {p}
    /\ Goto(p, "stop_streaming")
    /\ UNCHANGED <<phase, caller, instances, taken, exporters, observed, streaming,
                   refreshers, calls>>

\* Faulty variant: an error of StopStreaming ends the instance's part of Exit.
StopStreamingReturns(p) ==
    /\ at[p] = "stop_streaming"
    /\ streaming' = [streaming EXCEPT ![p] = <<>>]
    /\ caller' = NoPlugin
    /\ Goto(p, "released")
    /\ UNCHANGED <<phase, instances, taken, exporters, observed, listeners, refreshers, calls>>

StopStreaming(p) ==
    /\ at[p] = "stop_streaming"
    /\ streaming' = [streaming EXCEPT ![p] = <<>>]
    /\ Goto(p, "stop_exporter")
    /\ UNCHANGED <<phase, caller, instances, taken, exporters, observed, listeners,
                   refreshers, calls>>

\* Shutdown closes the server's socket, also when it then runs into its timeout.
StopExporter(p) ==
    /\ at[p] = "stop_exporter"
    /\ exporters' = exporters \ {p}
    /\ caller' = NoPlugin
    /\ Goto(p, "released")
    /\ UNCHANGED <<phase, instances, taken, observed, listeners, streaming, refreshers, calls>>

\* instances = map[unsafe.Pointer]*pluginInstance{}
FinishExit ==
    /\ phase = "exiting"
    /\ caller = NoPlugin
    /\ \A p \in instances : at[p] = "released"
    /\ instances' = {}
    /\ waiting' = waiting \ instances
    /\ phase' = "exited"
    /\ UNCHANGED <<caller, at, resources, stray, emitted>>
-----------------------------------------------------------------------------
InitSteps(p) ==
    \/ CallInit(p)
    \/ ConfigFails(p)
    \/ NoExporter(p)
    \/ StartExporter(p)
    \/ ExporterFails(p)
    \/ SetMetricsObserver(p)
    \/ Unsupported(p)
    \/ StartListener(p)
    \/ ListenerFails(p)
    \/ StartStreaming(p)
    \/ Register(p)

ExitSteps(p) == CloseQuit(p) \/ StopListener(p) \/ StopStreaming(p) \/ StopExporter(p)

Next ==
    \/ \E p \in Plugins : InitSteps(p) \/ RecordArrives(p) \/ CallbackCtx(p) \/ Callback(p)
    \/ \E p \in Plugins : ExitSteps(p)
    \/ \E port \in Ports : OtherProcess(port)
    \/ StartPolling \/ CallExit \/ FinishExit

Spec == Init /\ [][Next]_vars

\* An engine with contexts polls every input for as long as it does not exit.
FairSpec == Spec /\ \A p \in Plugins : WF_vars(CallbackCtx(p))
-----------------------------------------------------------------------------
Places == {"none", "config", "observer", "release", "stream", "register", "ready", "failed",
           "stop_listener", "stop_streaming", "stop_exporter", "released"}

\* The inputs with prometheus_enabled
Exporting == {p \in Plugins : PromPort[p] # NoPort}

TypeOK ==
    /\ phase \in {"initialising", "polling", "exiting", "exited"}
    /\ caller \in Plugins \union {NoPlugin}
    /\ at \in [Plugins -> Places]
    /\ instances \subseteq Plugins
    /\ taken \subseteq Ports
    /\ exporters \subseteq Exporting
    /\ observed \subseteq Exporting
    /\ listeners \subseteq Plugins
    /\ DOMAIN streaming = Plugins
    /\ refreshers \subseteq Plugins
    /\ waiting \subseteq Plugins
    /\ stray \subseteq Plugins
    /\ emitted \subseteq [input : Plugins, instance : Plugins, callback : {"ctx", "plain"}]

\* Whatever was acquired belongs to an instance that Exit will release, or to the
\* call under way: no step of Init can fail once the listener is open, and Exit
\* releases everything of every instance.  The exporter is the exception: an Init
\* that fails after it was started leaves it serving.
Owned ==
    \A p \in Plugins :
        /\ p \in listeners \union refreshers \/ streaming[p] # <<>>
              => p \in instances \/ caller = p
        /\ p \in exporters => p \in instances \/ caller = p \/ at[p] = "failed"

\* The observer is in place before the first reader can exist, as SetMetricsObserver
\* is "not safe to call concurrently with MakeRecord".
ObserverFirst == \A p \in listeners : PromPort[p] # NoPort => p \in observed

\* DCD is told to stream only to a port the plugin listens on, until Exit.
ListenerFirst ==
    phase \in {"initialising", "polling"} =>
        \A p \in Plugins : streaming[p] # <<>> => p \in listeners

\* Whatever an exporter that serves is to export, DCD was asked for, and for nothing
\* twice unless the configuration says so: in whichever spelling the two lists give
\* the types, and whether or not there is a second list.
ExportedAsked ==
    \A p \in Plugins :
        p \in exporters /\ streaming[p] # <<>> =>
            /\ Exported(Config[p]) \subseteq LowerCases(streaming[p])
            /\ Len(streaming[p]) - Cardinality(LowerCases(streaming[p]))
                  = Len(Config[p].streaming_types)
                    - Cardinality(LowerCases(Config[p].streaming_types))

\* A callback with a context emits the records of its own input, also when the
\* context is one the plugin has never seen.
OwnRecords == \A e \in emitted : e.callback = "ctx" => e.input = e.instance

\* The records of an input reach the engine, whatever pointer it calls back with,
\* as long as the plugin can tell which instance is meant.
Drained ==
    \A p \in Plugins :
        /\ p \in waiting /\ phase = "polling"
        /\ p \in instances /\ (p \notin stray \/ Cardinality(instances) = 1)
        ~> p \notin waiting \/ phase # "polling"
=============================================================================
