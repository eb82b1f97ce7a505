# A verification project for the Apstra DCD input plugin of Fluent Bit

The plugin (`src/`) is a Go shared library that Fluent Bit loads as an input. It
listens on a TCP port for telemetry that an Apstra DCD server streams to it,
decodes the protobuf messages, enriches the records with an inventory it fetches
over DCD's REST API, hands them to the Fluent Bit engine and, if configured, shows
them as Prometheus gauges. This directory holds TLA+ models of its parts, the TLC
runs that check them on small instances, and proofs that TLAPS checks for every
instance. `PROJECT.json` lists every run, property, theorem and hazard, and the
source lines that each definition stands for.

## The system

| Component | Source | State | Operations |
|---|---|---|---|
| Telemetry listener | `pkg/listener` | `Records` (a channel of 10000), `quit`, the listening socket, one goroutine per connection | `Start`, `acceptLoop`, `msgReader`, `Stop` |
| Input callback and exit | `cmd/plugin/main.go` | `instances` (plugin pointer to instance), the batch of the running callback | `FLBPluginInit`, `FLBPluginInputCallback(Ctx)`, `FLBPluginInputCleanupCallback`, `FLBPluginExit` |
| C buffers | `pkg/cbuf` | memory from `C.malloc` | `ToCBuffer`, `Free` |
| Prometheus exporter | `pkg/promexport` | `gauges`, `seriesLabels`, one mutex, the allowed types, an HTTP server | `New`, `Start`, `Observe` (`labelsFor`, `gaugeFor`), `Stop` |
| DCD REST client, sessions | `pkg/restapi` | `streamingSessions`, `token` | `Login`, `StartStreaming`, `StopStreaming` |
| DCD REST client, caches | `pkg/restapi`, `main.go` | `blueprints`, `systems`, the refresh goroutine, `quit` | `GetBlueprints`, `GetSystems`, `GetSystemByKey`, `GetBlueprintByID` |
| Record shaping | `pkg/decoder` | none | `GetTags`, `MakeRecord`, `SanitizeTimestamp` |
| Version decoders | `pkg/decoder/v6_*` | none | `NewHandler`, `DecodeMessage` and the `Extract...` functions |
| Configuration | `pkg/config` | the parsed `Config` | `FromPlugin`; `main.go` adds the exported types to the streamed ones |

How they interact:

* The **engine** calls Init, the callbacks and Exit. The callbacks drain the
  `Records` channel without blocking; a buffer they return is copied by the engine
  and given back through the cleanup callback.
* Each **reader goroutine** reads messages from one connection, calls the decoder,
  which looks tags up in the REST client's caches (`GetTags`) and shows every
  record to the exporter (`MakeRecord` calls `Observe`), and then offers the records
  to the channel in a `select` with `quit` and a `default` that drops.
* The **refresh goroutine** replaces the caches every `refresh_interval` seconds.
* **DCD** connects to the listener because Init registered a streaming session for
  each streaming type; Exit deletes the sessions it knows.

What is hard about it: readers, callback, accept loop, refresh goroutine and exit
interleave freely; a full channel drops; C memory changes hands across calls; two
critical sections, or two lookups, belong to one logical operation; REST requests
may be handled by DCD although the client saw a failure; a panic of the Prometheus
library in any reader ends Fluent Bit.

What makes each component correct:

* *Listener and callback*: each connection's records reach the engine in order and
  at most once; every loss is logged; nothing blocks a reader for good; Stop ends
  what it says it ends; no C buffer leaks or is freed twice.
* *Exporter*: no panic, no value under another record's labels, no lost unlock.
* *Sessions*: no session is left at DCD without a trace; one failure does not stop
  the other types; Init and Exit return.
* *Caches*: a failure leaves the cache, lookups do not mix an old blueprint with a
  newer system, the caches catch up, the goroutine ends.
* *Record shaping, decoders, configuration*: the record has the tags and fields of
  its message; timestamps are plausible; the exported types are streamed.

## Modules

| Module | Models | Checked with |
|---|---|---|
| `MessageFeed` | the abstract promise of one TCP session | refinement in `MCFrameReader.cfg` |
| `FrameReader` | the framing of `msgReader` over a byte stream | `MCFrameReader`, `FrameReaderProofs` |
| `MessageKinds`, `Schema_v6_0_0`, `Schema_v6_1_2` | what `ProtoToFields` finds in a message of each release | used by `Records` |
| `Records` | both releases' handlers, `GetTags`, record shaping, timestamps | `MCRecords`, `RecordsProofs` |
| `Delivery` | the abstract promise of the record path | refinement in `MCPipelineSafety.cfg` |
| `Pipeline` | listener, readers, channel, callback, C buffers, exit | `MCPipeline`, `PipelineProofs` |
| `PromExporter` | `Observe` under concurrency | `MCPromExporter`, `PromExporterProofs` |
| `Sessions` | streaming sessions, restarts and an unreliable DCD | `MCSessions`, `SessionsProofs` |
| `Metadata` | the caches, the refresh goroutine and `GetTags` | `MCMetadata`, `MetadataProofs` |
| `Settings` | an `[INPUT]` block and what `FromPlugin` makes of it | used by `Lifecycle` |
| `Lifecycle` | Init, Exit and the callbacks' choice of an instance, for several inputs | `MCLifecycle`, `LifecycleProofs` |
| `Tables` | nothing of the code: induction over the natural numbers, and tables filled entry by entry | used by the proofs |

How they fit together: `FrameReader` takes `Pipeline`'s `ReadMessage` and `ReadFails` apart,
`Records` says what the records of such a message are, `Metadata` splits the two lookups
that `Records` takes as one, `Lifecycle` has one step for each of the loops that `Sessions`
takes apart, and `Pipeline` is one instance of what `Lifecycle` starts and stops.

The definitions marked *Faulty variant* in the modules are never part of a
specification. Each is a plausible mistake in the code; with it in the place of the
definition that follows it, the property `PROJECT.json` names is violated, which
shows that the property is sensitive to that code.

### FrameReader and MessageFeed

DCD's messages are a sequence of bodies, and `Stream` is their bytes with the two-byte
lengths before them. `Arrive` moves any number of bytes to the host, so a read may be cut
anywhere; `Close` ends the stream there, also within a header or a body; `Reset` takes back
what was not read. `Read` is one `read` call inside `binary.Read` or `io.ReadFull`, which
returns between one byte and what is missing. `HeaderRead`, `BodyRead`, `Enqueued`,
`Abandon` and `ReadFails` are the rest of the loop of `msgReader`; an empty message is
skipped, and one that is cut short is dropped with the connection. `MessageFeed` is
what a session promises: DCD's messages without the empty ones, whole, in order, up to
some point. A byte has `Base` values, which is 256 in the code.

### Records, MessageKinds and the schemas

The state is one message in the handler and its records; `Decode` and `Reject` are
`handler` of `NewHandler`: unmarshal the envelope, unmarshal what it holds, decode. `Messages`
gives what DCD sends: of which release, for which release's handler, with or without the
sequencing envelope or as garbage, with which timestamp, origin and payload.

What `ProtoToFields` finds is what `encoding/json` makes of a generated struct, and that is
a matter of the struct's tags: `omitempty` drops a nil pointer and an empty list, but not a
pointer to 0 or to an empty string; the interface that holds a oneof has no tag, so its
key is always there; one NaN fails the whole conversion, and `ProtoToFields` returns
no fields at all. `MessageKinds` has one operator for each kind of field, and each schema
module has one definition for each message type that the decoders look into, with the
keys of its generated struct. Values are told apart as far as the decoders do:
`""`, `"text"`, `"0"`, `"number"`, `"large"`, `"huge"`, `"bool"`, `"list"`, `"object"`, `"null"`,
`"nan"`; an enumeration has its numbers, as the generated types have no `MarshalJSON`.

`"large"` is a number of a million or more that a `float64` holds, `"huge"` a 64-bit integer that
it does not. `json.Unmarshal` into an `interface{}` makes `float64`s (`Float`): a `"huge"`
one becomes `"rounded"`, in fields too. The tags of events and alerts are the texts of
these (`Printed`): `%v` writes a `"large"` one with an exponent, `"1e+06"`, and a `"rounded"` one
as `"1e+16"`, which stand for all such texts. `file_size` does not go this way: `ExtractPerfMon`
takes it from the message, as an integer. A list or an object stands for whatever numbers
are in it.

The Extract functions of the two releases are the same text over different packages, so
they are one definition each; the two lists of event getters and of alert getters are
separate. A tag from the caches is named after its origin (`"active"`, `"shown"`),
which is how a replaced tag shows. The prefix of a property's tag is a concatenation of
two short strings, because a property about collisions needs it.

### Pipeline

A record is `[conn, n]`: the connection it came from and its number there. What a
record contains, and how a message is framed and decoded, is abstracted:
`ReadMessage(c, k)` is one message that decodes to `k` records, and `k = 0` stands
for the three cases in which the code continues with nothing (empty frame, decoding
error, no records).

* `conn[c]` follows a socket from `Connect` through the backlog and `Accept` to the
  reader goroutine; `Accept` and `Spawn` are two steps, as `Accept` and the `go`
  statement are, so Stop can fall between them.
* The `select` in `msgReader` is three actions. `Enqueue` needs room, `Abandon` needs
  a closed `quit`, and Go takes either when both are ready; `Drop` is the default
  case and needs both to be impossible.
* A callback is `StartCallback`, one step for each channel receive (`Receive`,
  `ReceiveUnencodable`) and a return: `EmitNothing` or `EmitBatch`. `EngineAppend` is
  the engine's copy, `Cleanup` frees. The branch for a nil buffer (`main.go:304-307`) has
  no action: `ToCBuffer` is never called without data, and cgo's `C.malloc` does not return nil.
  The two callbacks of `main.go` drain in the same way and are one model.
* `Exit` is `CloseQuit`, `CloseListener` (which resets the backlog) and `FinishExit`.
* `peerUp` is FALSE once no byte is left to read; `PeerGone` is DCD's doing.

The engine is single-threaded towards the plugin: the `instances` map has no lock
and the callbacks and Exit would race on it otherwise. The model takes this over.

### PromExporter

`Observe` is split at the mutex: `Lock`, then `FindLabels` or `MissLabels` and
`StoreLabels`, which unlock; later, for each field, `Lock` again, `FindGauge` or
`MissGauge` and `Register`, and `Set` without the lock. The steps inside a critical
section are separate actions so that the mutex has something to exclude. The two
panics of the library that calls can bring about together are in `Register` (a name registered twice) and `Set` (a number of label
values that is not the gauge's). A PerfMon series uses fixed labels. Alert and event
series have those of their first record.

`SeriesAssumption` says which series may share a metric name: only PerfMon series.
The name is `dcd_<series>_<field>`; an alert's only field is `status` and an event's
only field is `event` (both decoders), and the prefixes `alert_` and `event_` keep
these apart from each other and from the PerfMon series of the schema. PerfMon
series that share a name are allowed and harmless, since their labels are the same.

### Sessions

The client sends a request and waits for one thing: an answer or a failure. `wire`
holds the requests DCD has not handled. DCD may handle one while the client waits,
after it gave up, after the process crashed, or never; the answer may be an error
although the session exists, or a success without an id (`RegisteredNameless`: the code
takes it for a success and remembers nothing). A session is named by the POST that
asked for it. `Start` is Init up to the first POST, `Exit` is the copy that
`StopStreaming` takes. `Crash` drops everything but DCD's state. A request without a
token is refused. DCD removes no session on its own.

### Metadata

The inventory's states are numbered and a cache is the number of the state it shows,
0 when it is empty. A round is `GetBlueprints` and then `GetSystems`; the first
round belongs to Init and only happens after a successful login, the later ones to
the goroutine. A successful answer may be empty, since `do` takes a 2xx without a
body for a success: the cache is then replaced by an empty one. `GetTags` is two steps,
one for each read lock. `began`, `floor` and `floorOf` are history variables: which state
of the inventory the round began in that the system of a lookup came from.

`Settle` is the environment's: from then on (`steady`) the inventory does not change, and DCD
and the network serve every request that carries a token, with the inventory. It may happen at
any time, between two requests, with one under way, before the login, or never. A request
without a token fails for good, as the login is not repeated (`MayFail`).

### Settings and Lifecycle

A block maps each key to its text. `FromPlugin` fills in the defaults, compares what
the code compares in lower case, and lets the types to export be those to subscribe to
unless there is a list for them. `Subscriptions` is Init's merge of the two lists: what is
subscribed to keeps its place and its spelling, what is only exported is appended in
lower case, and duplicates are found in either spelling. `Lifecycle` takes ports, types
and the choice of a handler from there.

Each step of `FLBPluginInit` that acquires something or can fail is an action, in the
code's order, and `Fail` is `return input.FLB_ERROR`, which releases nothing. `Exit` takes
the registered instances one after the other, in any order, as Go's map iteration does.
A port is free when no other process (`OtherProcess`), no exporter and no listener has it.
`stray` are the inputs that the engine calls back with a pointer that Init never saw, which
`main.go:249` reports from the field. `Emit` is a whole drain, which `Pipeline` takes apart;
`StartStreaming` and `StopStreaming` are whole loops of requests, which `Sessions` takes apart.
`FLBPluginInputCallback`, for engines without contexts, drains any instance. Initialisation
is sequential: the engine starts to poll when every Init has returned.

## What the runs check

**`pipeline_safety`** (two interchangeable connections, up to three records each,
at most two of a message, channel and batch of two; about 295,000 states).
`InOrder`: order and uniqueness over channel, batch and engine. `NoSilentLoss`: each
decoded record waits in its reader, is held somewhere, is logged as lost, or was
abandoned by a reader that left because of Stop. `LossIsFinal`: nothing logged as lost
is delivered. `BuffersFreed`: the engine is handed a buffer that nobody has freed, and none is
left between callbacks. `NoSpin` (the accept loop never
retries a closed socket, which depends on Stop's order), and `Delivers`: the pipeline
implements `Delivery`. What Exit leaves in the channel counts as held; that it is never
delivered or logged is a hazard without a property. Capacities of two rather than 10000 and 1000 make a full channel,
a full batch, an empty channel and a partly filled batch all reachable within a few
records; two connections give every interleaving that the properties speak of, which
compare records of one connection or of a pair. The theorems below hold for all values.

**`pipeline_live`**: `ReaderNeverStuck`, whatever the engine does; `AcceptLoopEnds`;
`ReaderEndsWithPeer`; and `QueueDrains`, under the additional condition that the engine
keeps calling, which is part of the property. No symmetry is used.

**`stop_leaves_readers`** and **`observed_not_delivered`** (violations). Stop "signals
goroutines to exit" (`listener.go:75`), but a reader waiting for its peer does not look
at `quit`. "Every record goes to both places, always" (`promexport/README.md:44`),
but a record that was shown to the exporter is dropped when the channel is full.

**`exporter`**: two readers, two PerfMon series with one metric name, an alert series,
an event series that the filter rejects, two tag keys. `NoPanic`; `OwnLabels`: at the
moment of `Set` the gauge has the labels the values were taken for; `LabelsStable`;
`ObserveReturns`. One field per record keeps the run small. More fields only repeat the
second critical section, and the theorems cover them.

**`sessions`**: two streaming types and two lives of the process. `Accounted`: a session
at DCD is known to the client, or its POST is under way, or a failure was logged for
it, or its answer had no id, or its process crashed. `Subscribed`: a running plugin
has a session or a logged failure for every type, so the failure of one keeps no other away; that
a failed one is never asked for again is no violation. `CallsReturn`.

**`stop_deletes_all`** (violation): `StopStreaming` "deletes all registered streaming
sessions from DCD" (`restapi.go:245`), but returns nil with a session left when the
POST's answer was late, lost or without an id.

**`metadata`**: three states of the inventory and one reader, as readers write nothing
that others read. `BlueprintNotOlder`: the blueprint a record names is not older than
the round its system came from, unless that round's `GetBlueprints` failed. It takes
both orders, that of the requests and that of the lookups. `CatchesUp`: whenever DCD
settles, a plugin that has logged in comes to show the inventory in both caches and goes on to
until Exit, whatever failed or was answered empty before; that includes plugins that tick for
ever, whose goroutine must have survived its failures. `RefresherEnds`. About 53,000 states.

**`lifecycle`**: five blocks: p exports types it does not subscribe to, in another
spelling; q's exporter wants the port that p listens on; r's release has no handler; s has
no exporter and can run beside p; t's port is no number (about 421,000 states). `Owned`: listeners, sessions and refresh goroutines always belong to a
registered instance or to the call under way, so Exit releases them, whatever fails in it; the same goes for
exporters, except for that of an Init that failed after starting it, which stays.
`ObserverFirst`, `ListenerFirst`: orders in Init that readers and DCD rely on. `OwnRecords`:
a callback with a context never emits another input's records. `Drained`: an instance
that can be told apart is drained, also when its pointer is unknown. Two of the inputs
can be registered together, which is what the choice of an instance depends on.
`ExportedAsked`: what an exporter is to export was asked for at DCD, once.

**`frames`**: every sequence of up to three messages out of five bodies (empty, one byte of
each value, and two that look like the headers of others), every way to cut
their stream into arrivals and reads, and every place for it to end. `Reads`:
`FrameReader` implements `MessageFeed`, so the reader never loses its place in the stream.
`HandledAll`: what has arrived whole is handled, also with nothing behind it.

**`records`**: about 12,000 states, nearly all of them a message each: every case of every
oneof of both schemas with no key, all keys, all text empty, each key alone and each key with
each of its values; every combination of what the inventory has of a system and a blueprint;
every timestamp the scaled clock has; every envelope. `EnrichmentKept`: no field,
property or other tag of any message replaces device, role, blueprint, interface, series or
time, in the flat format too, where a field would; and what the inventory has under either
of its keys is used. `NothingLost`: each key of a message that has a value has one in the record, under
the name the code gives it, and the splits into tags and fields and the deleted keys lose
none. Text, small numbers and everything else come through as they are. A large number comes
through as the `float64` JSON makes of it, or as that one's text, and the property does
not say that this is the number DCD sent: above 2^53 it need not be. Messages with a NaN
are excepted.
`Recorded`: none of the four lists of getters, kept by hand, misses a case of its schema.
`StampRight`: the 24 hours are exact, and neither the conversion of a `uint64` nor a
saturated `time.Since` lets a far timestamp through. `TypeOK`: text is in tags, the rest in
fields.

**`empty_values`** (violation): "If a key:value pair has an empty value, it will not be
emitted" (`README.md:107`), but `device_key`, `device`, `process_name`, `file_name` and a
probe's properties and texts become tags without a test.

`CHECK_DEADLOCK FALSE` is set where the system really stops: after Exit, with every
connection closed (pipeline), after the last of a bounded number of lives (sessions),
after Exit with empty caches (metadata), after Exit (lifecycle), after the last
connection's end (frames).

### Bounds

`MaxRecs` and `MaxRecords` (records of a message and of a connection), `MaxLives`
(starts of the process) and `MaxVersion` (states of the inventory) bound what the
environment does, as `MaxMessages` does in `FrameReader`. None of them bounds the plugin: its own loops run as long as they
have something to do. `QueueCap` and `MaxBatch` are the code's constants.

`Records` scales the clock: `Now` 20, `MaxClockSkew` 6 (24 hours in the code), `MaxDuration`
12 (the largest `time.Duration`) and `Half` 32 (2^63, half of a `uint64`) keep their order: a
timestamp can be within the skew, beyond it, beyond what a `Duration` holds, and negative
after the conversion, and all of them are tried. `Base` 2 in `FrameReader` makes lengths
from 0 to 3 with both bytes of the header in use; three messages are an empty one between two
others. Two resource items of a kind and two properties are where a later one can replace
an earlier one.

### Fairness

* Goroutines that can run do run: weak fairness for the reader in `FrameReader`, and in
  `Pipeline` for readers in the enqueue loop, for readers whose connection ended, for the accept loop and the refresh goroutine.
* A Go mutex starves no waiter (it hands over to one that has waited for 1 ms):
  strong fairness of `Lock` in `PromExporter`.
* A `select` that again and again finds the ticker and `quit` ready picks each of them
  at some time, since it chooses at random: strong fairness of `QuitSeen`.
* Every REST request ends, since the client has a timeout of 30 seconds, and Exit's
  wait for the HTTP server one of 5 seconds: weak fairness of the client's steps in
  `Sessions` and `Metadata`, and of the steps of Exit in `Pipeline`.
* Nothing is assumed of DCD, of the network or of the decision to exit, with one exception,
  which is the premise of `CatchesUp`: if DCD has settled, it answers the requests that carry a
  token (weak fairness of `steady /\ DCDAnswers`) and does not refuse them. That it settles is
  not assumed, and neither is that the login succeeds. The engine's
  calls are assumed only in `QueueDrains` and `Drained`.

## What is proved

`PipelineProofs`, for any connections, capacities and bounds, from `QueueAssumption`:

1. `TypeInv` (types and `Counting`) is inductive alone. `Counting` is needed
   because `EmitNothing` and `Cleanup` are only right if the batch is empty and exactly
   one buffer is out when they run. `TypesHold` and `NoLeak` follow.
2. `OrderInv` is inductive relative to `TypeInv`. `InOrder` alone is not: `Enqueue` puts
   record `offered + 1` behind everything of its connection only because everything
   that is held passed the select before (`Passed`). `InOrderHolds` follows.
3. `LossInv` is inductive relative to both. That a dropped record is not held follows from
   `Passed`, and that an unencodable one is not, from the order. `LossIsFinalHolds` and
   `NoSilentLossHolds` follow; `NoSpinHolds` uses the types only.
4. `PipelineDelivers`: each step maps to a step of `Delivery` or a stutter. `EngineAppend`
   is `Deliver`, and it needs `InOrder` and `LossIsFinal`.

`PromExporterProofs`, for any readers, series, keys and fields, from `SeriesAssumption`:
`IInv` is inductive. It says who holds the mutex (`LockInv`), that a reader past
`labelsFor` has the labels of its series for good, and that a reader about to store or
register found nothing (`ReaderInv`), and that a gauge has the labels of every series
using its name (`GaugeInv`). `NoPanicHolds`, `OwnLabelsHold` and `LabelsStableHolds` follow.

`MetadataProofs`, for any readers and any number of changes of the inventory, from
`VersionAssumption`: `IInv` is inductive. `BlueprintNotOlder` alone is not: it takes that the
cached blueprints are not older than the round of the cached systems and, while systems are
fetched, than the round under way (`CacheInv`), and that a reader between its two lookups
will find blueprints that are not older than its system's round although a refresh may come
first (`ReaderInv`). `BlueprintNotOlderHolds` and `TypesHold` follow.

`SessionsProofs`, for any list of streaming types and any number of starts, from
`SessionsAssumption`: `IInv` is inductive. `Accounted` needs to know of every request that
DCD has not handled who answers for it (`WireInv`), what an answer says of DCD's state
(`AnswerInv`), and that a session the client knows is never asked for again, so a
deletion is final (`KnownInv`). `WaitInv` and `PhaseInv` say what the client waits for,
`StartInv` and `StopInv` what its two loops have done. `AccountedHolds`,
`SubscribedHolds` and `TypesHold` follow.

`LifecycleProofs`, for any inputs, blocks, ports and releases, from `ConfigAssumption`: what
an input holds is a matter of its place in Init or Exit (`HoldInv`), and being registered is
one of its place and the engine's phase (`CallInv`). `OwnedHolds`, `ObserverFirstHolds`,
`ListenerFirstHolds`, `OwnRecordsHold` and `TypesHold` follow; the last but one takes that a
single registered instance is the one of the only input that can be polled.

`ExportedAskedHolds` is about the two lists of an input's block, of any length and in any
spelling. What an input streams is its lists merged (`StreamInv`), and `MergedTypes` shows, by
induction over the list of the types to export, that the merge has the types of both and repeats
none that the configuration does not. `LowerAssumption` says that a text in lower case
is one already.

`FrameReaderProofs`, for any sequence of messages, any `Base` and any cut of the stream, from
`BodyAssumption`: `ReaderInv` (`At`, `Latest`) ties the reader's place to the stream. `taken` is at the end of the
message that was handled last, or in the header or the body of the next one, and `buf` is the
piece of the stream from there; so the length that `HeaderRead` takes from two bytes is that
message's. `FramesToForm`, `FramesGrow` and what follows from them say where each message lies in
the stream. `TypeCorrect` follows, and `ReadsTheMessages`: each step of the reader is a step of
`MessageFeed` or a stutter.

`RecordsProofs`, for any messages that conform to their release's schema, any origin and any
clock, from `ClockAssumption` and `MessageAssumption`. The invariant is simple, the
records are those of the message (`RecordsInv`); the work is in what they are.
The lemmas about the schemas go through every message type: no key is a tag of the caches or a
key of a flat record, no type whose values become fields whole has strings (`EventKeys_v6_0_0` to
`ProbeSchemaForm`), and the lists of getters are the cases of their oneofs (`NamesComplete`).
With these each Extract function's records have what the properties ask for (`Shaped`), whatever
the payload: `TypeCorrect`, `KeepsEnrichment`, `LosesNothing` and `RecordsEach`
follow. `FloatForm` and `PrintedForm` say what the conversions of numbers leave of a value
(`Same`), and `ProtoForm` and `TextTagsForm` what that means for a payload as fields and as tags. `TagsForm` is the part about the caches; it needs an inventory that names no device
twice and no blueprint without an id, which DCD's primary keys guarantee. `StampsRight` is
`SanitizedTime` (a saturated difference is beyond a day all the same) and
`MessageStamp` (so is a `uint64` that becomes negative).

What a definition computes step by step over a list (`FramesTo`, `WholeTo`, `Merged`) is written
as a function over the indices. That there is such a function for a list of any length is
`TableExists`, and what holds of all its entries is shown with `Induction`, which
rests on the least element of a set of naturals instead of the library's schemes over
predicates.

The inductive invariants were checked with TLC on the runs' instances as well.

Every invariant, every safety action property and both refinements that the runs check are
stated by a theorem. Only model-checked are the liveness properties (`ReaderNeverStuck`,
`AcceptLoopEnds`, `ReaderEndsWithPeer`, `QueueDrains`, `ObserveReturns`, `CallsReturn`, `CatchesUp`,
`RefresherEnds`, `Drained`, `HandledAll`): they rest on fairness, and the provers do not
decide when an action is enabled. The theorems about `Records` take a message's kind,
payload and origin from `MessageAssumption`; TLC evaluates it for every message of the run.

## Where the documents and the code differ

Four runs show a disagreement: `stop_leaves_readers`, `observed_not_delivered`,
`stop_deletes_all` and `empty_values`. The following were met while modelling and are taken
over from the code without a run of their own:

* `README.md:287` shows an alert's tag `actual_state="BGP_SESSION_DOWN"`. An enumeration in a
  payload is its number there, as the generated types have no `MarshalJSON`; only `severity`
  is a name, as it is formatted by the decoder.
* `README.md:202-206` says that measurements are numeric. The oneof of a probe message is a
  field `Value` that is always there, `null` or an object, and never becomes a gauge; the
  field `probe` that marks a message without numbers is there only when the conversion
  failed as a whole.
* Numbers pass through `float64` on their way to a field or a tag: 64-bit counters above
  2^53 come out as the nearest `float64`, and in the tags of events and alerts numbers from
  a million on are written with an exponent.
* An alert without a severity reads `ALERT_LOW`, and its `id`, `first_seen` and
  `anomalous_node_id` are in no record.
* `FromPlugin` keeps empty and repeated entries of `streaming_types`.

Twelve hazards have no property that would catch them going wrong, because the code does what
they speak of and no document says otherwise; `PROJECT.json` has a note with each.

* Records: those left in the channel at Exit are neither delivered nor logged
  (`main.go:345`); a callback without a context takes any instance (`main.go:192`); one NaN loses
  all the values of its message (`decoder.go:234`); a message of another release
  is an empty one (`v6_0_0/decoder.go:41`); the labels of an alert or event series are those of its first
  record (`promexport.go:235`).
* DCD: a failed login (`main.go:89`) and a failed `StartStreaming` (`main.go:149`) are never repeated;
  a session whose deletion failed (`restapi.go:263`), or whose process crashed (`main.go:334`), stays.
* The process: an Init that fails after its exporter started leaves it serving
  (`main.go:137`); a persistent error of `Accept` is retried without a pause
  (`listener.go:93`), and time is not counted; a `refresh_interval` that is not positive
  panics (`main.go:157`).

## What is not modelled

Of the generated protobuf code, the message types and accessors that the decoders use are
modelled; the reflection tables, descriptors, `Reset`, `String` and the messages nothing looks
into are not: they are the library's data. The wire format is abstracted to what unmarshalling
yields for the right, the wrong and a missing envelope. The HTTP server behind `/metrics` is
pure I/O over the library's registry; how a metric's name is sanitised is abstracted to which
series may share one. The values of labels are abstracted, and with them the library's refusal
of a value that is not UTF-8: those that went through `encoding/json` always are, the origin's
name is taken as it came. Build and deployment files hold no state. Log messages are modelled
only where a property is about them (`reported`, `logged`). Time is not counted: that the
accept loop retries at once, and how long a callback may take, are not expressed.

## Plan

The components with state are modelled, and their safety properties are proved. What is left, in this order:

1. A registry of sessions, what DCD is left with after Exit, as an abstract specification
   above `Sessions` and `Lifecycle`.
2. Several instances of `Pipeline` under `Lifecycle`, with one callback per input.
3. Metric names in `PromExporter` as the code builds them from the schemas' keys, in place of
   `SeriesAssumption`.
