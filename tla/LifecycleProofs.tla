-------------------------- MODULE LifecycleProofs --------------------------
(***************************************************************************)
(* Theorems about Lifecycle for any inputs, blocks, ports and releases.    *)
(* What an input holds is a matter of how far its Init or its part of Exit *)
(* has come (HoldInv), and which inputs are registered is a matter of the  *)
(* same and of the engine's phase (CallInv).  What an input streams is its  *)
(* lists of types merged (MergedTypes).                                     *)
(***************************************************************************)
EXTENDS Lifecycle, Tables, FiniteSetTheorems, TLAPS

Initialising == {"config", "observer", "release", "stream", "register"}
Stopping == {"stop_listener", "stop_streaming", "stop_exporter"}

\* The engine's thread is in at most one Init or Exit, and an input is in the map from
\* the end of its Init to the end of Exit.
CallInv ==
    /\ \A p \in Plugins :
          /\ at[p] \in Initialising => caller = p /\ phase = "initialising"
          /\ at[p] \in Stopping => caller = p /\ phase = "exiting"
          /\ p \in instances => at[p] \in {"ready", "released"} \union Stopping
          /\ at[p] \in {"ready"} \union Stopping => p \in instances
          /\ phase \in {"initialising", "polling"} => at[p] # "released"
    /\ phase = "exited" => instances = {}

\* What an input holds at each place
HoldInv ==
    \A p \in Plugins :
        /\ p \in listeners => at[p] \in {"stream", "register", "ready", "stop_listener"}
        /\ at[p] \in {"stream", "register", "ready"} => p \in listeners
        /\ streaming[p] # <<>> =>
              at[p] \in {"register", "ready", "stop_listener", "stop_streaming"}
        /\ p \in refreshers => at[p] = "ready"
        /\ p \in exporters =>
              at[p] \in {"observer", "release", "stream", "register", "ready", "failed"}
                            \union Stopping
        /\ at[p] = "observer" => p \in exporters
        /\ at[p] \in {"release", "stream", "register", "ready", "stop_listener"} =>
              p \in observed \/ PromPort[p] = NoPort

IInv == TypeOK /\ CallInv /\ HoldInv /\ OwnRecords

-----------------------------------------------------------------------------
(* The merge of the two lists of types *)

\* All texts: the provers do not know that a literal is a member of STRING.
Texts == STRING \union {"perfmon", "alerts", "events"}

LEMMA LowerForm ==
    ASSUME NEW text \in Texts
    PROVE  LowerCase(text) \in Texts /\ LowerCase(LowerCase(text)) = LowerCase(text)
BY LowerAssumption DEF LowerCase, Texts

LEMMA SubscribeForm ==
    ASSUME NEW types \in Seq(Texts), NEW t \in Texts, IsFiniteSet(LowerCases(types))
    PROVE  LET more == Subscribe(types, t)
           IN  /\ more \in Seq(Texts)
               /\ LowerCases(more) = LowerCases(types) \union {LowerCase(t)}
               /\ IsFiniteSet(LowerCases(more))
               /\ Len(more) - Cardinality(LowerCases(more))
                     = Len(types) - Cardinality(LowerCases(types))
<1>1. PICK low \in Texts : low = LowerCase(t)
  BY LowerForm
<1>2. LowerCase(low) = low
  BY <1>1, LowerForm
<1>3. CASE low \in LowerCases(types)
  BY <1>1, <1>3 DEF Subscribe
<1>4. CASE low \notin LowerCases(types)
  <2>1. PICK more : more = Append(types, low)
    OBVIOUS
  <2>2. Subscribe(types, t) = more
    BY <1>1, <1>4, <2>1 DEF Subscribe
  <2>3. /\ more \in Seq(Texts) /\ Len(more) = Len(types) + 1 /\ Len(types) \in Nat
        /\ DOMAIN types = 1..Len(types) /\ DOMAIN more = 1..(Len(types) + 1)
        /\ \A i \in 1..Len(types) : more[i] = types[i]
        /\ more[Len(types) + 1] = low
    <3>1. /\ more \in Seq(Texts) /\ Len(more) = Len(types) + 1
          /\ \A i \in 1..Len(types) : more[i] = types[i]
          /\ more[Len(types) + 1] = low
      BY <2>1, AppendProperties, Zenon
    <3>2. Len(types) \in Nat /\ DOMAIN types = 1..Len(types)
      BY ONLY types \in Seq(Texts)
    <3>3. DOMAIN more = 1..Len(more)
      BY ONLY <3>1
    <3>. QED  BY <3>1, <3>2, <3>3, Zenon
  <2>4. PICK n \in Nat : n = Len(types)
    BY <2>3
  <2>5. \A i : i \in 1..(n + 1) <=> i \in 1..n \/ i = n + 1
    BY ONLY n \in Nat
  <2>6. LowerCases(more) = LowerCases(types) \union {low}
    BY <1>2, <2>3, <2>4, <2>5, Zenon DEF LowerCases
  <2>7. /\ IsFiniteSet(LowerCases(types) \union {low})
        /\ Cardinality(LowerCases(types) \union {low}) = Cardinality(LowerCases(types)) + 1
        /\ Cardinality(LowerCases(types)) \in Nat
    BY <1>4, FS_AddElement, FS_CardinalityType
  <2>8. PICK c \in Nat : c = Cardinality(LowerCases(types))
    BY <2>7
  <2>9. Cardinality(LowerCases(more)) = c + 1 /\ Len(more) = n + 1
    BY <2>3, <2>4, <2>6, <2>7, <2>8
  <2>10. (n + 1) - (c + 1) = n - c
    OBVIOUS
  <2>11. QED
    BY <1>1, <2>2, <2>3, <2>4, <2>6, <2>7, <2>8, <2>9, <2>10
<1>5. QED
  BY <1>3, <1>4

LEMMA LowerCasesForm ==
    ASSUME NEW types \in Seq(Texts)
    PROVE  IsFiniteSet(LowerCases(types))
<1>1. PICK n \in Nat : n = Len(types) /\ DOMAIN types = 1..n
  OBVIOUS
<1>2. IsFiniteSet(1..n)
  BY FS_Interval
<1>3. LowerCases(types) = {LowerCase(types[i]) : i \in 1..n}
  BY <1>1 DEF LowerCases
<1>4. PICK f : f = [i \in 1..n |-> LowerCase(types[i])]
  OBVIOUS
<1>5. f \in Surjection(1..n, LowerCases(types))
  BY <1>3, <1>4 DEF Surjection
<1>6. QED
  BY <1>2, <1>5, FS_Surjection

LEMMA MergedForm ==
    ASSUME NEW types \in Seq(Texts), NEW export \in Seq(Texts)
    PROVE  /\ Merged(types, export)[0] = types
           /\ \A k \in 1..Len(export) :
                 Merged(types, export)[k] = Subscribe(Merged(types, export)[k - 1], export[k])
<1> DEFINE N == Len(export)
           V == Seq(Texts)
           next == [p \in (1..N) \X V |-> Subscribe(p[2], export[p[1]])]
           Defines(t) == t = [k \in 0..N |-> IF k = 0 THEN types ELSE Subscribe(t[k - 1], export[k])]
<1>1. N \in Nat /\ \A k \in 1..N : export[k] \in Texts
  OBVIOUS
<1>2. ASSUME NEW k \in 1..N, NEW v \in V PROVE Subscribe(v, export[k]) \in V
  BY <1>1, SubscribeForm, LowerCasesForm
<1>3. next \in [(1..N) \X V -> V]
  BY <1>2
<1>4. \A k \in 1..N, v \in V : next[<<k, v>>] = Subscribe(v, export[k])
  OBVIOUS
<1>5. types \in V
  OBVIOUS
<1> HIDE DEF next, V
<1>6. PICK t \in [0..N -> V] : IsTable(t, N, types, next)
  BY <1>1, <1>3, <1>5, TableExists
<1>7. ASSUME NEW k \in 1..N PROVE t[k] = Subscribe(t[k - 1], export[k])
  <2>1. k - 1 \in 0..N
    BY <1>1
  <2>2. t[k] = next[<<k, t[k - 1]>>]
    BY <1>6 DEF IsTable
  <2>3. QED
    BY <1>4, <1>6, <2>1, <2>2
<1>8. Defines(t)
  <2>1. t[0] = types
    BY <1>6 DEF IsTable
  <2>2. \A k \in 0..N : t[k] = IF k = 0 THEN types ELSE Subscribe(t[k - 1], export[k])
    BY <1>1, <1>7, <2>1
  <2>3. t = [k \in 0..N |-> t[k]]
    BY <1>6
  <2>4. QED
    BY <2>2, <2>3
<1>9. Defines(Merged(types, export))
  BY <1>8 DEF Merged
<1>10. ASSUME NEW f, Defines(f)
       PROVE  f[0] = types /\ \A k \in 1..N : f[k] = Subscribe(f[k - 1], export[k])
  <2>1. f = [k \in 0..N |-> IF k = 0 THEN types ELSE Subscribe(f[k - 1], export[k])]
    BY <1>10
  <2>2. QED
    BY <1>1, <2>1
<1>11. QED
  BY <1>9, <1>10

\* DCD is asked for every type of either list, and the merge repeats none.
LEMMA MergedTypes ==
    ASSUME NEW types \in Seq(Texts), NEW export \in Seq(Texts)
    PROVE  LET all == Merged(types, export)[Len(export)]
           IN  /\ LowerCases(all) = LowerCases(types) \union LowerCases(export)
               /\ Len(all) - Cardinality(LowerCases(all))
                     = Len(types) - Cardinality(LowerCases(types))
<1> DEFINE N == Len(export)
           M == Merged(types, export)
           Holds(k) == /\ M[k] \in Seq(Texts)
                       /\ IsFiniteSet(LowerCases(M[k]))
                       /\ LowerCases(M[k])
                             = LowerCases(types) \union {LowerCase(export[i]) : i \in 1..k}
                       /\ Len(M[k]) - Cardinality(LowerCases(M[k]))
                             = Len(types) - Cardinality(LowerCases(types))
           T == {k \in Nat : k <= N => Holds(k)}
<1>1. N \in Nat /\ \A k \in 1..N : export[k] \in Texts
  OBVIOUS
<1>2. M[0] = types /\ \A k \in 1..N : M[k] = Subscribe(M[k - 1], export[k])
  BY MergedForm
<1> HIDE DEF M
<1>3. 0 \in T
  <2>1. {LowerCase(export[i]) : i \in 1..0} = {}
    OBVIOUS
  <2>2. QED
    BY <1>2, <2>1, LowerCasesForm
<1>4. ASSUME NEW k \in Nat, k \in T PROVE k + 1 \in T
  <2>1. SUFFICES ASSUME k + 1 <= N PROVE Holds(k + 1)
    OBVIOUS
  <2>2. Holds(k)
    BY <1>1, <1>4, <2>1
  <2>3. k + 1 \in 1..N /\ (k + 1) - 1 = k
    BY <1>1, <2>1
  <2>4. M[k + 1] = Subscribe(M[k], export[k + 1]) /\ export[k + 1] \in Texts
    BY <1>1, <1>2, <2>3
  <2>5. PICK all : all = M[k + 1]
    OBVIOUS
  <2>6. /\ all \in Seq(Texts)
        /\ LowerCases(all) = LowerCases(M[k]) \union {LowerCase(export[k + 1])}
        /\ IsFiniteSet(LowerCases(all))
        /\ Len(all) - Cardinality(LowerCases(all))
              = Len(M[k]) - Cardinality(LowerCases(M[k]))
    BY <2>2, <2>4, <2>5, SubscribeForm
  <2>7. \A i : i \in 1..(k + 1) <=> i \in 1..k \/ i = k + 1
    BY ONLY k \in Nat
  <2>8. {LowerCase(export[i]) : i \in 1..(k + 1)}
          = {LowerCase(export[i]) : i \in 1..k} \union {LowerCase(export[k + 1])}
    BY <2>7, Zenon
  <2>9. QED
    BY <2>2, <2>5, <2>6, <2>8
<1>5. Holds(N)
  <2> HIDE DEF Holds
  <2>1. N \in T
    <3> HIDE DEF T
    <3>1. QED
      BY <1>1, <1>3, <1>4, Induction
  <2>2. QED
    BY <1>1, <2>1
<1>6. LowerCases(export) = {LowerCase(export[i]) : i \in 1..N}
  BY DEF LowerCases
<1>7. QED
  BY <1>5, <1>6 DEF M
-----------------------------------------------------------------------------
LEMMA ThreeForm ==
    ASSUME NEW S, NEW a \in S, NEW b \in S, NEW c \in S
    PROVE  <<a, b, c>> \in Seq(S) /\ <<a, b, c>> # <<>>
OBVIOUS

\* The lists of a configuration, of which the one of the types to export is not empty
LEMMA ConfigForm ==
    ASSUME NEW p \in Plugins
    PROVE  /\ Config[p].streaming_types \in Seq(Texts)
           /\ Config[p].prometheus_streaming_types \in Seq(Texts)
           /\ Config[p].prometheus_streaming_types # <<>>
<1> DEFINE block == Block[p]
           cfg == [key \in DOMAIN Defaults |->
                      IF Given(block, key) THEN block[key] ELSE Defaults[key]]
<1>1. /\ block["streaming_types"] \in Seq(Texts)
      /\ block["prometheus_streaming_types"] \in Seq(Texts)
  <2>1. /\ block["streaming_types"] \in Seq(STRING)
        /\ block["prometheus_streaming_types"] \in Seq(STRING)
    BY ConfigAssumption DEF Lists
  <2>2. STRING \subseteq Texts
    BY DEF Texts
  <2>. QED  BY <2>1, <2>2, SeqMonotonic
<1>2. /\ {"streaming_types", "prometheus_streaming_types"} \subseteq DOMAIN Defaults
      /\ Defaults["streaming_types"] = <<"perfmon", "alerts", "events">>
      /\ Defaults["prometheus_streaming_types"] = <<>>
  BY DEF Defaults
<1>3. <<"perfmon", "alerts", "events">> \in Seq(Texts) /\ <<"perfmon", "alerts", "events">> # <<>>
  <2>1. PICK a, b, c : a = "perfmon" /\ b = "alerts" /\ c = "events"
    OBVIOUS
  <2>2. a \in Texts /\ b \in Texts /\ c \in Texts
    BY <2>1 DEF Texts
  <2>3. <<a, b, c>> \in Seq(Texts) /\ <<a, b, c>> # <<>>
    BY ONLY <2>2, ThreeForm
  <2>. QED  BY <2>1, <2>3, Zenon
<1>4. \A key \in {"streaming_types", "prometheus_streaming_types"} :
         Given(block, key) <=> block[key] # <<>>
  BY DEF Given, Lists
<1>5. cfg["streaming_types"] \in Seq(Texts) /\ cfg["streaming_types"] # <<>>
  BY <1>1, <1>2, <1>3, <1>4
<1>6. cfg["prometheus_streaming_types"] \in Seq(Texts)
  BY <1>1, <1>2, <1>4
<1>7. /\ FromPlugin(block).streaming_types = cfg["streaming_types"]
      /\ FromPlugin(block).prometheus_streaming_types
            = IF cfg["prometheus_streaming_types"] = <<>> THEN cfg["streaming_types"]
              ELSE cfg["prometheus_streaming_types"]
  BY <1>2 DEF FromPlugin
<1>8. Config[p] = FromPlugin(block)
  BY DEF Config
<1>. QED  BY <1>5, <1>6, <1>7, <1>8
-----------------------------------------------------------------------------
LEMMA PlaceForms ==
    /\ "none" \in Places /\ "ready" \in Places /\ "failed" \in Places /\ "released" \in Places
    /\ Initialising \subseteq Places /\ Stopping \subseteq Places
BY DEF Places, Initialising, Stopping

LEMMA InitInv == Init => IInv
BY ConfigAssumption, PlaceForms
   DEF Init, IInv, TypeOK, CallInv, HoldInv, OwnRecords, Initialising, Stopping

(* One lemma for each action, with one step for each part of the invariant. *)

LEMMA CallInitKeeps ==
    ASSUME NEW p \in Plugins, IInv, CallInit(p)
    PROVE  IInv'
<1> USE DEF IInv, CallInit, Goto, resources, calls
<1>1. TypeOK'
  BY PlaceForms DEF Initialising, TypeOK
<1>2. CallInv'
  BY ConfigAssumption DEF Stopping, CallInv
<1>3. HoldInv'
  BY DEF Stopping, HoldInv
<1>4. OwnRecords'
  BY DEF OwnRecords
<1>. QED  BY <1>1, <1>2, <1>3, <1>4

LEMMA ConfigFailsKeeps ==
    ASSUME NEW p \in Plugins, IInv, ConfigFails(p)
    PROVE  IInv'
<1> USE DEF IInv, ConfigFails, Fail, Goto, resources, calls
<1>1. TypeOK'
  BY PlaceForms DEF TypeOK
<1>2. CallInv'
  BY DEF Stopping, Initialising, TypeOK, CallInv
<1>3. HoldInv'
  BY DEF HoldInv
<1>4. OwnRecords'
  BY DEF OwnRecords
<1>. QED  BY <1>1, <1>2, <1>3, <1>4

LEMMA NoExporterKeeps ==
    ASSUME NEW p \in Plugins, IInv, NoExporter(p)
    PROVE  IInv'
<1> USE DEF IInv, NoExporter, Goto, resources, calls
<1>1. TypeOK'
  BY PlaceForms DEF Initialising, TypeOK
<1>2. CallInv'
  BY DEF Stopping, Initialising, CallInv
<1>3. HoldInv'
  BY DEF HoldInv
<1>4. OwnRecords'
  BY DEF OwnRecords
<1>. QED  BY <1>1, <1>2, <1>3, <1>4

LEMMA StartExporterKeeps ==
    ASSUME NEW p \in Plugins, IInv, StartExporter(p)
    PROVE  IInv'
<1> USE DEF IInv, StartExporter, Goto, resources, calls
<1>1. TypeOK'
  <2>1. p \in Exporting
    BY DEF Exporting
  <2>. QED  BY <2>1, PlaceForms DEF TypeOK, Initialising
<1>2. CallInv'
  BY DEF Stopping, Initialising, CallInv
<1>3. HoldInv'
  BY DEF TypeOK, HoldInv
<1>4. OwnRecords'
  BY DEF OwnRecords
<1>. QED  BY <1>1, <1>2, <1>3, <1>4

LEMMA ExporterFailsKeeps ==
    ASSUME NEW p \in Plugins, IInv, ExporterFails(p)
    PROVE  IInv'
<1> USE DEF IInv, ExporterFails, Fail, Goto, resources, calls
<1>1. TypeOK'
  BY PlaceForms DEF TypeOK
<1>2. CallInv'
  BY DEF Stopping, Initialising, TypeOK, CallInv
<1>3. HoldInv'
  BY DEF HoldInv
<1>4. OwnRecords'
  BY DEF OwnRecords
<1>. QED  BY <1>1, <1>2, <1>3, <1>4

LEMMA SetMetricsObserverKeeps ==
    ASSUME NEW p \in Plugins, IInv, SetMetricsObserver(p)
    PROVE  IInv'
<1> USE DEF IInv, SetMetricsObserver, Goto, resources, calls
<1>1. TypeOK'
  <2>1. p \in Exporting
    BY DEF TypeOK, HoldInv
  <2>. QED  BY <2>1, PlaceForms DEF TypeOK, Initialising
<1>2. CallInv'
  BY DEF Stopping, Initialising, CallInv
<1>3. HoldInv'
  BY DEF HoldInv
<1>4. OwnRecords'
  BY DEF OwnRecords
<1>. QED  BY <1>1, <1>2, <1>3, <1>4

LEMMA UnsupportedKeeps ==
    ASSUME NEW p \in Plugins, IInv, Unsupported(p)
    PROVE  IInv'
<1> USE DEF IInv, Unsupported, Fail, Goto, resources, calls
<1>1. TypeOK'
  BY PlaceForms DEF TypeOK
<1>2. CallInv'
  BY DEF Stopping, Initialising, TypeOK, CallInv
<1>3. HoldInv'
  BY DEF HoldInv
<1>4. OwnRecords'
  BY DEF OwnRecords
<1>. QED  BY <1>1, <1>2, <1>3, <1>4

LEMMA StartListenerKeeps ==
    ASSUME NEW p \in Plugins, IInv, StartListener(p)
    PROVE  IInv'
<1> USE DEF IInv, StartListener, Goto, resources, calls
<1>1. TypeOK'
  BY PlaceForms DEF Initialising, TypeOK
<1>2. CallInv'
  BY DEF Stopping, Initialising, CallInv
<1>3. HoldInv'
  BY DEF TypeOK, HoldInv
<1>4. OwnRecords'
  BY DEF OwnRecords
<1>. QED  BY <1>1, <1>2, <1>3, <1>4

LEMMA ListenerFailsKeeps ==
    ASSUME NEW p \in Plugins, IInv, ListenerFails(p)
    PROVE  IInv'
<1> USE DEF IInv, ListenerFails, Fail, Goto, resources, calls
<1>1. TypeOK'
  BY PlaceForms DEF TypeOK
<1>2. CallInv'
  BY DEF Stopping, Initialising, TypeOK, CallInv
<1>3. HoldInv'
  BY DEF HoldInv
<1>4. OwnRecords'
  BY DEF OwnRecords
<1>. QED  BY <1>1, <1>2, <1>3, <1>4

LEMMA StartStreamingKeeps ==
    ASSUME NEW p \in Plugins, IInv, StartStreaming(p)
    PROVE  IInv'
<1> USE DEF IInv, StartStreaming, Goto, resources, calls
<1>1. TypeOK'
  BY PlaceForms DEF Initialising, TypeOK
<1>2. CallInv'
  BY DEF Stopping, Initialising, CallInv
<1>3. HoldInv'
  BY DEF TypeOK, HoldInv
<1>4. OwnRecords'
  BY DEF OwnRecords
<1>. QED  BY <1>1, <1>2, <1>3, <1>4

LEMMA RegisterKeeps ==
    ASSUME NEW p \in Plugins, IInv, Register(p)
    PROVE  IInv'
<1> USE DEF IInv, Register, Goto, resources, calls
<1>1. TypeOK'
  BY PlaceForms DEF TypeOK
<1>2. CallInv'
  BY DEF Stopping, Initialising, TypeOK, CallInv
<1>3. HoldInv'
  BY DEF TypeOK, HoldInv
<1>4. OwnRecords'
  BY DEF OwnRecords
<1>. QED  BY <1>1, <1>2, <1>3, <1>4

LEMMA RecordArrivesKeeps ==
    ASSUME NEW p \in Plugins, IInv, RecordArrives(p)
    PROVE  IInv'
<1> USE DEF IInv, RecordArrives, resources, calls
<1>1. TypeOK'
  BY DEF TypeOK
<1>2. CallInv'
  BY DEF CallInv
<1>3. HoldInv'
  BY DEF HoldInv
<1>4. OwnRecords'
  BY DEF OwnRecords
<1>. QED  BY <1>1, <1>2, <1>3, <1>4

LEMMA CallbackCtxKeeps ==
    ASSUME NEW p \in Plugins, IInv, CallbackCtx(p)
    PROVE  IInv'
<1> USE DEF IInv, CallbackCtx, Polled, Chosen, Emit, resources, calls
<1>1. TypeOK'
  BY DEF TypeOK
<1>2. CallInv'
  BY DEF CallInv
<1>3. HoldInv'
  BY DEF HoldInv
<1>4. OwnRecords'
  <2>1. PICK i \in Chosen(p) \intersect waiting :
          emitted' = {[input |-> p, instance |-> i, callback |-> "ctx"]}
    OBVIOUS
  <2>2. p \in instances
    BY DEF CallInv
  <2>3. i = p
    <3>1. CASE p \notin stray
      BY <2>1, <3>1
    <3>2. CASE p \in stray
      <4>1. IsFiniteSet(instances)
        BY ConfigAssumption, FS_Subset DEF TypeOK
      <4>2. Cardinality(instances) = 1 /\ i \in instances
        BY <2>1, <3>2
      <4>. QED  BY <2>2, <4>1, <4>2, FS_Singleton
    <3>. QED  BY <3>1, <3>2
  <2>. QED  BY <2>1, <2>3 DEF OwnRecords
<1>. QED  BY <1>1, <1>2, <1>3, <1>4

LEMMA CallbackKeeps ==
    ASSUME NEW p \in Plugins, IInv, Callback(p)
    PROVE  IInv'
<1> USE DEF IInv, Callback, Polled, Emit, resources, calls
<1>1. TypeOK'
  BY DEF TypeOK
<1>2. CallInv'
  BY DEF CallInv
<1>3. HoldInv'
  BY DEF HoldInv
<1>4. OwnRecords'
  BY DEF OwnRecords
<1>. QED  BY <1>1, <1>2, <1>3, <1>4

LEMMA CloseQuitKeeps ==
    ASSUME NEW p \in Plugins, IInv, CloseQuit(p)
    PROVE  IInv'
<1> USE DEF IInv, CloseQuit, Goto, resources, calls
<1>1. TypeOK'
  BY PlaceForms DEF Stopping, TypeOK
<1>2. CallInv'
  BY ConfigAssumption DEF Stopping, Initialising, CallInv
<1>3. HoldInv'
  BY DEF Stopping, HoldInv
<1>4. OwnRecords'
  BY DEF OwnRecords
<1>. QED  BY <1>1, <1>2, <1>3, <1>4

LEMMA StopListenerKeeps ==
    ASSUME NEW p \in Plugins, IInv, StopListener(p)
    PROVE  IInv'
<1> USE DEF IInv, StopListener, Goto, resources, calls
<1>1. TypeOK'
  BY PlaceForms DEF Stopping, TypeOK
<1>2. CallInv'
  BY DEF Stopping, Initialising, CallInv
<1>3. HoldInv'
  BY DEF Stopping, HoldInv
<1>4. OwnRecords'
  BY DEF OwnRecords
<1>. QED  BY <1>1, <1>2, <1>3, <1>4

LEMMA StopStreamingKeeps ==
    ASSUME NEW p \in Plugins, IInv, StopStreaming(p)
    PROVE  IInv'
<1> USE DEF IInv, StopStreaming, Goto, resources, calls
<1>1. TypeOK'
  BY PlaceForms DEF Stopping, TypeOK
<1>2. CallInv'
  BY DEF Stopping, Initialising, CallInv
<1>3. HoldInv'
  BY DEF Stopping, TypeOK, HoldInv
<1>4. OwnRecords'
  BY DEF OwnRecords
<1>. QED  BY <1>1, <1>2, <1>3, <1>4

LEMMA StopExporterKeeps ==
    ASSUME NEW p \in Plugins, IInv, StopExporter(p)
    PROVE  IInv'
<1> USE DEF IInv, StopExporter, Goto, resources, calls
<1>1. TypeOK'
  BY PlaceForms DEF TypeOK
<1>2. CallInv'
  BY DEF Stopping, Initialising, TypeOK, CallInv
<1>3. HoldInv'
  BY DEF HoldInv
<1>4. OwnRecords'
  BY DEF OwnRecords
<1>. QED  BY <1>1, <1>2, <1>3, <1>4

LEMMA OtherProcessKeeps ==
    ASSUME NEW port \in Ports, IInv, OtherProcess(port)
    PROVE  IInv'
<1> USE DEF IInv, OtherProcess, resources, calls
<1>1. TypeOK'
  BY DEF TypeOK
<1>2. CallInv'
  BY DEF CallInv
<1>3. HoldInv'
  BY DEF HoldInv
<1>4. OwnRecords'
  BY DEF OwnRecords
<1>. QED  BY <1>1, <1>2, <1>3, <1>4

LEMMA StartPollingKeeps ==
    ASSUME IInv, StartPolling
    PROVE  IInv'
<1> USE DEF IInv, StartPolling, resources, calls
<1>1. TypeOK'
  BY DEF TypeOK
<1>2. CallInv'
  BY DEF Initialising, CallInv
<1>3. HoldInv'
  BY DEF HoldInv
<1>4. OwnRecords'
  BY DEF OwnRecords
<1>. QED  BY <1>1, <1>2, <1>3, <1>4

LEMMA CallExitKeeps ==
    ASSUME IInv, CallExit
    PROVE  IInv'
<1> USE DEF IInv, CallExit, resources, calls
<1>1. TypeOK'
  BY DEF TypeOK
<1>2. CallInv'
  BY ConfigAssumption DEF CallInv
<1>3. HoldInv'
  BY DEF HoldInv
<1>4. OwnRecords'
  BY DEF OwnRecords
<1>. QED  BY <1>1, <1>2, <1>3, <1>4

LEMMA FinishExitKeeps ==
    ASSUME IInv, FinishExit
    PROVE  IInv'
<1> USE DEF IInv, FinishExit, resources, calls
<1>1. TypeOK'
  BY DEF TypeOK
<1>2. CallInv'
  BY DEF Stopping, CallInv
<1>3. HoldInv'
  BY DEF HoldInv
<1>4. OwnRecords'
  BY DEF OwnRecords
<1>. QED  BY <1>1, <1>2, <1>3, <1>4

LEMMA StutterKeeps ==
    ASSUME IInv, UNCHANGED vars
    PROVE  IInv'
<1> USE DEF IInv, vars, resources, calls
<1>1. TypeOK'
  BY DEF TypeOK
<1>2. CallInv'
  BY DEF CallInv
<1>3. HoldInv'
  BY DEF HoldInv
<1>4. OwnRecords'
  BY DEF OwnRecords
<1>. QED  BY <1>1, <1>2, <1>3, <1>4

\* The invariant is inductive: Init establishes it and every step keeps it.
THEOREM Inductive == Spec => []IInv
<1>1. IInv /\ [Next]_vars => IInv'
  <2> SUFFICES ASSUME IInv, [Next]_vars
               PROVE  IInv'
      OBVIOUS
  <2>1. CASE \E p \in Plugins : InitSteps(p)
    BY <2>1, CallInitKeeps, ConfigFailsKeeps, NoExporterKeeps, StartExporterKeeps,
       ExporterFailsKeeps, SetMetricsObserverKeeps, UnsupportedKeeps, StartListenerKeeps,
       ListenerFailsKeeps, StartStreamingKeeps, RegisterKeeps DEF InitSteps
  <2>2. CASE \E p \in Plugins : RecordArrives(p) \/ CallbackCtx(p) \/ Callback(p)
    BY <2>2, RecordArrivesKeeps, CallbackCtxKeeps, CallbackKeeps
  <2>3. CASE \E p \in Plugins : ExitSteps(p)
    BY <2>3, CloseQuitKeeps, StopListenerKeeps, StopStreamingKeeps, StopExporterKeeps
       DEF ExitSteps
  <2>4. CASE \E port \in Ports : OtherProcess(port)
    BY <2>4, OtherProcessKeeps
  <2>5. CASE StartPolling \/ CallExit \/ FinishExit \/ UNCHANGED vars
    BY <2>5, StartPollingKeeps, CallExitKeeps, FinishExitKeeps, StutterKeeps
  <2>. QED  BY <2>1, <2>2, <2>3, <2>4, <2>5 DEF Next
<1>. QED  BY <1>1, InitInv, PTL DEF Spec

\* The plugin's records of its instances keep their types: only an input with
\* prometheus_enabled ever has an exporter or an observer.
THEOREM TypesHold == Spec => []TypeOK
<1>1. IInv => TypeOK
  BY DEF IInv
<1>. QED  BY <1>1, Inductive, PTL

\* Whatever an Init acquired belongs to a registered instance, which FLBPluginExit
\* releases, or to the call under way; an exporter may also be left by a failed Init.
THEOREM OwnedHolds == Spec => []Owned
<1>1. IInv => Owned
  BY DEF IInv, TypeOK, CallInv, HoldInv, Owned, Initialising, Stopping
<1>. QED  BY <1>1, Inductive, PTL

\* An open listener's decoder has its observer, so no reader runs while
\* SetMetricsObserver writes.
THEOREM ObserverFirstHolds == Spec => []ObserverFirst
<1>1. IInv => ObserverFirst
  BY DEF IInv, TypeOK, HoldInv, ObserverFirst
<1>. QED  BY <1>1, Inductive, PTL

\* Before Exit, DCD streams only to a port the plugin listens on.
THEOREM ListenerFirstHolds == Spec => []ListenerFirst
<1>1. IInv => ListenerFirst
  BY DEF IInv, TypeOK, CallInv, HoldInv, ListenerFirst, Stopping
<1>. QED  BY <1>1, Inductive, PTL

\* FLBPluginInputCallbackCtx emits the records of its own input, whichever of the
\* contexts the plugin has never seen.
THEOREM OwnRecordsHold == Spec => []OwnRecords
<1>1. IInv => OwnRecords
  BY DEF IInv
<1>. QED  BY <1>1, Inductive, PTL

\* The types an input streams are none, or those of its configuration.
StreamInv == \A p \in Plugins : streaming[p] # <<>> => streaming[p] = Subscriptions(Config[p])

LEMMA StreamKeeps == IInv /\ StreamInv /\ [Next]_vars => StreamInv'
<1> SUFFICES ASSUME IInv, StreamInv, [Next]_vars
             PROVE  StreamInv'
    OBVIOUS
<1>1. DOMAIN streaming = Plugins
  BY DEF IInv, TypeOK
<1>2. UNCHANGED streaming => StreamInv'
  BY DEF StreamInv
<1>3. CASE \E p \in Plugins : InitSteps(p)
  <2>1. PICK p \in Plugins : InitSteps(p)
    BY <1>3
  <2>2. CASE StartStreaming(p)
    BY <1>1, <2>2 DEF StartStreaming, StreamInv
  <2>3. CASE ~StartStreaming(p)
    <3>1. UNCHANGED streaming
      BY <2>1, <2>3 DEF InitSteps, CallInit, ConfigFails, NoExporter, StartExporter, ExporterFails,
         SetMetricsObserver, Unsupported, StartListener, ListenerFails, Register, Fail, resources
    <3>. QED  BY <1>2, <3>1
  <2>. QED  BY <2>2, <2>3
<1>4. CASE \E p \in Plugins : ExitSteps(p)
  <2>1. PICK p \in Plugins : ExitSteps(p)
    BY <1>4
  <2>2. CASE StopStreaming(p)
    BY <1>1, <2>2 DEF StopStreaming, StreamInv
  <2>3. CASE ~StopStreaming(p)
    <3>1. UNCHANGED streaming
      BY <2>1, <2>3 DEF ExitSteps, CloseQuit, StopListener, StopExporter, resources
    <3>. QED  BY <1>2, <3>1
  <2>. QED  BY <2>2, <2>3
<1>5. CASE \E p \in Plugins : RecordArrives(p) \/ CallbackCtx(p) \/ Callback(p)
  BY <1>2, <1>5 DEF RecordArrives, CallbackCtx, Callback, Emit, resources
<1>6. CASE \/ \E port \in Ports : OtherProcess(port)
           \/ StartPolling \/ CallExit \/ FinishExit \/ UNCHANGED vars
  BY <1>2, <1>6 DEF OtherProcess, StartPolling, CallExit, FinishExit, vars, resources
<1>. QED  BY <1>3, <1>4, <1>5, <1>6 DEF Next

\* The merge of FLBPluginInit asks DCD for each type to export, whichever spelling the
\* two lists give it, and adds none that is asked for already.
THEOREM ExportedAskedHolds == Spec => []ExportedAsked
<1>1. Init => StreamInv
  BY DEF Init, StreamInv
<1>2. IInv /\ StreamInv => ExportedAsked
  <2> SUFFICES ASSUME IInv, StreamInv, NEW p \in Plugins, p \in exporters, streaming[p] # <<>>
               PROVE  /\ Exported(Config[p]) \subseteq LowerCases(streaming[p])
                      /\ Len(streaming[p]) - Cardinality(LowerCases(streaming[p]))
                            = Len(Config[p].streaming_types)
                              - Cardinality(LowerCases(Config[p].streaming_types))
      BY DEF ExportedAsked
  <2>1. PICK cfg : cfg = Config[p]
    OBVIOUS
  <2>2. cfg.prometheus_enabled
    BY <2>1 DEF IInv, TypeOK, Exporting, PromPort
  <2>3. /\ cfg.streaming_types \in Seq(Texts) /\ cfg.prometheus_streaming_types \in Seq(Texts)
        /\ cfg.prometheus_streaming_types # <<>>
    BY <2>1, ConfigForm
  <2>4. streaming[p] = Merged(cfg.streaming_types, cfg.prometheus_streaming_types)
                             [Len(cfg.prometheus_streaming_types)]
    BY <2>1, <2>2 DEF StreamInv, Subscriptions
  <2>5. Exported(cfg) \subseteq LowerCases(cfg.prometheus_streaming_types)
    BY <2>3 DEF Exported
  <2>. QED  BY <2>1, <2>3, <2>4, <2>5, MergedTypes
<1>. QED  BY <1>1, <1>2, StreamKeeps, Inductive, PTL DEF Spec
=============================================================================
