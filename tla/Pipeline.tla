------------------------------ MODULE Pipeline ------------------------------
(***************************************************************************)
(* The record path of the plugin: pkg/listener/listener.go (acceptLoop, one *)
(* msgReader goroutine per TCP connection, the Records channel), the input  *)
(* callback, cleanup callback and exit of cmd/plugin/main.go, and the C     *)
(* buffers of pkg/cbuf.                                                     *)
(*                                                                         *)
(* A record is its connection and its number on it; what it contains is    *)
(* abstracted.  One step is one channel operation, one accept, one message *)
(* read, or one call of the engine into the plugin up to its next channel   *)
(* operation.  The Fluent Bit engine (external) calls into the plugin from  *)
(* one thread: main.go's instances map has no lock.                         *)
(***************************************************************************)
EXTENDS Naturals, Sequences

CONSTANTS
    Conns,       \* the TCP connections DCD opens to the listener
    QueueCap,    \* capacity of the Records channel (10000 in the code)
    MaxBatch,    \* records encoded by one callback (1000 in the code)
    MaxRecs,     \* bound: records decoded from one message
    MaxRecords   \* bound: records decoded from one connection

ASSUME QueueAssumption ==
    /\ QueueCap \in Nat \ {0}
    /\ MaxBatch \in Nat \ {0}
    /\ MaxRecs \in Nat
    /\ MaxRecords \in Nat

VARIABLES
    conn,        \* per connection: the socket and its reader goroutine
    peerUp,      \* per connection: FALSE once no byte is left to read
    acceptor,    \* where acceptLoop is
    decoded,     \* per connection: records decoded (and shown to the metrics observer)
    offered,     \* per connection: records that went through the enqueue select
    queue,       \* the Records channel
    callback,    \* where the engine is in callback / append / cleanup
    batch,       \* the records packed by the callback, then in the C buffer
    heap,        \* C buffers allocated and not freed
    delivered,   \* the records the engine has appended, in order
    reported,    \* the records whose loss was logged
    stop         \* progress of FLBPluginExit

vars == <<conn, peerUp, acceptor, decoded, offered, queue, callback, batch,
          heap, delivered, reported, stop>>

netVars  == <<conn, peerUp, acceptor>>
readVars == <<decoded, offered>>
outVars  == <<callback, batch, heap, delivered>>

Record == [conn : Conns, n : 1..MaxRecords]
Rec(c, k) == [conn |-> c, n |-> k]

\* "unopened": no SYN yet; "backlog": waiting in the kernel for Accept;
\* "accepted": Accept returned it, its goroutine not started; "reading":
\* msgReader before or in a read; "enqueueing": in the loop over the decoded
\* records; "closed": refused, reset, or its reader returned.
ConnStates == {"unopened", "backlog", "accepted", "reading", "enqueueing", "closed"}

\* Faulty variant: the quit channel is closed last.
QuitLast == stop = "exited"

Quit == stop # "no"                        \* the quit channel is closed
Listening == stop \in {"no", "quit"}       \* the listening socket is open
Elems(s) == {s[i] : i \in DOMAIN s}

Init ==
    /\ conn = [c \in Conns |-> "unopened"]
    /\ peerUp = [c \in Conns |-> TRUE]
    /\ acceptor = "accept"
    /\ decoded = [c \in Conns |-> 0]
    /\ offered = [c \in Conns |-> 0]
    /\ queue = <<>>
    /\ callback = "idle"
    /\ batch = <<>>
    /\ heap = 0
    /\ delivered = <<>>
    /\ reported = {}
    /\ stop = "no"
-----------------------------------------------------------------------------
(* The network (external). *)

Connect(c) ==
    /\ conn[c] = "unopened"
    /\ Listening
    /\ conn' = [conn EXCEPT ![c] = "backlog"]
    /\ UNCHANGED <<peerUp, acceptor, readVars, queue, outVars, reported, stop>>

\* The peer closed or lost the connection and everything it sent was read.
PeerGone(c) ==
    /\ conn[c] \in {"backlog", "accepted", "reading", "enqueueing"}
    /\ peerUp[c]
    /\ peerUp' = [peerUp EXCEPT ![c] = FALSE]
    /\ UNCHANGED <<conn, acceptor, readVars, queue, outVars, reported, stop>>
-----------------------------------------------------------------------------
(* acceptLoop *)

Accept(c) ==
    /\ acceptor = "accept"
    /\ Listening
    /\ conn[c] = "backlog"
    /\ conn' = [conn EXCEPT ![c] = "accepted"]
    /\ acceptor' = "spawn"
    /\ UNCHANGED <<peerUp, readVars, queue, outVars, reported, stop>>

Spawn(c) ==
    /\ acceptor = "spawn"
    /\ conn[c] = "accepted"
    /\ conn' = [conn EXCEPT ![c] = "reading"]
    /\ acceptor' = "accept"
    /\ UNCHANGED <<peerUp, readVars, queue, outVars, reported, stop>>

\* Accept fails for a passing reason, such as the descriptor limit.
AcceptFails ==
    /\ acceptor = "accept"
    /\ Listening
    /\ acceptor' = "check"
    /\ UNCHANGED <<conn, peerUp, readVars, queue, outVars, reported, stop>>

\* Accept fails because Stop closed the socket.
AcceptClosed ==
    /\ acceptor = "accept"
    /\ ~Listening
    /\ acceptor' = "check"
    /\ UNCHANGED <<conn, peerUp, readVars, queue, outVars, reported, stop>>

\* Faulty variant: an Accept error is always retried.
CheckQuitNever ==
    /\ acceptor = "check"
    /\ acceptor' = "accept"
    /\ UNCHANGED <<conn, peerUp, readVars, queue, outVars, reported, stop>>

CheckQuit ==
    /\ acceptor = "check"
    /\ acceptor' = IF Quit THEN "done" ELSE "accept"
    /\ UNCHANGED <<conn, peerUp, readVars, queue, outVars, reported, stop>>
-----------------------------------------------------------------------------
(* msgReader *)

\* One framed message is read and handled.  k = 0 stands for an empty frame, a
\* message that does not decode and one without records: all three continue.
ReadMessage(c, k) ==
    /\ conn[c] = "reading"
    /\ peerUp[c]
    /\ decoded[c] + k <= MaxRecords
    /\ decoded' = [decoded EXCEPT ![c] = @ + k]
    /\ conn' = [conn EXCEPT ![c] = IF k = 0 THEN "reading" ELSE "enqueueing"]
    /\ UNCHANGED <<peerUp, acceptor, offered, queue, outVars, reported, stop>>

\* Faulty variant: a read error is logged and the read retried.
ReadFailsRetried(c) ==
    /\ conn[c] = "reading"
    /\ ~peerUp[c]
    /\ UNCHANGED vars

ReadFails(c) ==
    /\ conn[c] = "reading"
    /\ ~peerUp[c]
    /\ conn' = [conn EXCEPT ![c] = "closed"]
    /\ UNCHANGED <<peerUp, acceptor, readVars, queue, outVars, reported, stop>>

\* The record under the select is done with; the loop goes on or the next
\* message is read.
Advance(c) ==
    /\ offered' = [offered EXCEPT ![c] = @ + 1]
    /\ conn' = [conn EXCEPT ![c] =
                  IF offered[c] + 1 = decoded[c] THEN "reading" ELSE "enqueueing"]

\* case l.Records <- rec
Enqueue(c) ==
    /\ conn[c] = "enqueueing"
    /\ Len(queue) < QueueCap
    /\ queue' = Append(queue, Rec(c, offered[c] + 1))
    /\ Advance(c)
    /\ UNCHANGED <<peerUp, acceptor, decoded, outVars, reported, stop>>

\* Faulty variant: the reader gives up when the channel is full.
AbandonWhenFull(c) ==
    /\ conn[c] = "enqueueing"
    /\ Len(queue) = QueueCap
    /\ conn' = [conn EXCEPT ![c] = "closed"]
    /\ UNCHANGED <<peerUp, acceptor, readVars, queue, outVars, reported, stop>>

\* case <-l.quit, also chosen at random when the channel has room
Abandon(c) ==
    /\ conn[c] = "enqueueing"
    /\ Quit
    /\ conn' = [conn EXCEPT ![c] = "closed"]
    /\ UNCHANGED <<peerUp, acceptor, readVars, queue, outVars, reported, stop>>

\* Faulty variant: the select has no default case.
DropNever(c) == c \notin Conns /\ UNCHANGED vars

\* default: neither case is ready
Drop(c) ==
    /\ conn[c] = "enqueueing"
    /\ Len(queue) = QueueCap
    /\ ~Quit
    /\ reported' = reported \union {Rec(c, offered[c] + 1)}
    /\ Advance(c)
    /\ UNCHANGED <<peerUp, acceptor, decoded, queue, outVars, stop>>
-----------------------------------------------------------------------------
(* FLBPluginInputCallback(Ctx), the engine, FLBPluginInputCleanupCallback *)

StartCallback ==
    /\ callback = "idle"
    /\ stop = "no"
    /\ callback' = "drain"
    /\ UNCHANGED <<netVars, readVars, queue, batch, heap, delivered, reported, stop>>

\* Faulty variant: the newest record is taken first.
ReceiveNewest ==
    /\ callback = "drain"
    /\ Len(batch) < MaxBatch
    /\ queue # <<>>
    /\ queue' = SubSeq(queue, 1, Len(queue) - 1)
    /\ batch' = Append(batch, queue[Len(queue)])
    /\ UNCHANGED <<netVars, readVars, callback, heap, delivered, reported, stop>>

Receive ==
    /\ callback = "drain"
    /\ Len(batch) < MaxBatch
    /\ queue # <<>>
    /\ queue' = Tail(queue)
    /\ batch' = Append(batch, Head(queue))
    /\ UNCHANGED <<netVars, readVars, callback, heap, delivered, reported, stop>>

\* Faulty variant: after the failure is logged, the bytes are packed all the same.
ReceiveUnencodablePacked ==
    /\ callback = "drain"
    /\ Len(batch) < MaxBatch
    /\ queue # <<>>
    /\ queue' = Tail(queue)
    /\ batch' = Append(batch, Head(queue))
    /\ reported' = reported \union {Head(queue)}
    /\ UNCHANGED <<netVars, readVars, callback, heap, delivered, stop>>

\* Faulty variant: the record goes back to the channel for another attempt.
ReceiveUnencodableRequeued ==
    /\ callback = "drain"
    /\ Len(batch) < MaxBatch
    /\ queue # <<>>
    /\ queue' = Append(Tail(queue), Head(queue))
    /\ UNCHANGED <<netVars, readVars, callback, batch, heap, delivered, reported, stop>>

\* enc.Encode fails: the record is logged, lost and not counted.
ReceiveUnencodable ==
    /\ callback = "drain"
    /\ Len(batch) < MaxBatch
    /\ queue # <<>>
    /\ queue' = Tail(queue)
    /\ reported' = reported \union {Head(queue)}
    /\ UNCHANGED <<netVars, readVars, callback, batch, heap, delivered, stop>>

\* Faulty variant: the limit is compared with the wrong operator.
DrainDoneLate == Len(batch) > MaxBatch \/ queue = <<>>

DrainDone == Len(batch) = MaxBatch \/ queue = <<>>

\* C.malloc and C.free of one buffer
ToCBuffer == heap' = heap + 1
Free == heap' = heap - 1

\* The callback returns without data.
EmitNothing ==
    /\ callback = "drain"
    /\ DrainDone
    /\ batch = <<>>
    /\ callback' = "idle"
    /\ UNCHANGED <<netVars, readVars, queue, batch, heap, delivered, reported, stop>>

\* Faulty variant: the callback defers a Free of the buffer it returns.
EmitBatchFreed ==
    /\ callback = "drain"
    /\ DrainDone
    /\ batch # <<>>
    /\ callback' = "handed"
    /\ UNCHANGED <<netVars, readVars, queue, batch, heap, delivered, reported, stop>>

\* The callback returns the packed records in a C buffer; C.malloc never returns
\* nil to Go.
EmitBatch ==
    /\ callback = "drain"
    /\ DrainDone
    /\ batch # <<>>
    /\ ToCBuffer
    /\ callback' = "handed"
    /\ UNCHANGED <<netVars, readVars, queue, batch, delivered, reported, stop>>

\* The engine copies the buffer into its own chunk (external).
EngineAppend ==
    /\ callback = "handed"
    /\ delivered' = delivered \o batch
    /\ batch' = <<>>
    /\ callback' = "cleanup"
    /\ UNCHANGED <<netVars, readVars, queue, heap, reported, stop>>

\* Faulty variant: the cleanup callback does not free.
CleanupLeaks ==
    /\ callback = "cleanup"
    /\ callback' = "idle"
    /\ UNCHANGED <<netVars, readVars, queue, batch, heap, delivered, reported, stop>>

Cleanup ==
    /\ callback = "cleanup"
    /\ Free
    /\ callback' = "idle"
    /\ UNCHANGED <<netVars, readVars, queue, batch, delivered, reported, stop>>
-----------------------------------------------------------------------------
(* FLBPluginExit, called by the engine between callbacks *)

CloseQuit ==
    /\ stop = "no"
    /\ callback = "idle"
    /\ stop' = "quit"
    /\ UNCHANGED <<netVars, readVars, queue, outVars, reported>>

\* Connections still in the backlog are reset with the socket.
CloseListener ==
    /\ stop = "quit"
    /\ stop' = "closed"
    /\ conn' = [c \in Conns |-> IF conn[c] = "backlog" THEN "closed" ELSE conn[c]]
    /\ UNCHANGED <<peerUp, acceptor, readVars, queue, outVars, reported>>

\* Streaming sessions and the exporter are stopped, the instance is forgotten;
\* the channel, with what it holds, is never read again.
FinishExit ==
    /\ stop = "closed"
    /\ stop' = "exited"
    /\ UNCHANGED <<netVars, readVars, queue, outVars, reported>>
-----------------------------------------------------------------------------
Network == \E c \in Conns : Connect(c) \/ PeerGone(c)

AcceptLoop ==
    \/ \E c \in Conns : Accept(c) \/ Spawn(c)
    \/ AcceptFails
    \/ AcceptClosed
    \/ CheckQuit

MsgReader(c) ==
    \/ \E k \in 0..MaxRecs : ReadMessage(c, k)
    \/ ReadFails(c)
    \/ Enqueue(c)
    \/ Abandon(c)
    \/ Drop(c)

Engine ==
    \/ StartCallback
    \/ Receive
    \/ ReceiveUnencodable
    \/ EmitNothing
    \/ EmitBatch
    \/ EngineAppend
    \/ Cleanup

Exit == CloseQuit \/ CloseListener \/ FinishExit

Next == Network \/ AcceptLoop \/ (\E c \in Conns : MsgReader(c)) \/ Engine \/ Exit

Spec == Init /\ [][Next]_vars
-----------------------------------------------------------------------------
(* Fairness.  Goroutines that can run do run (the Go scheduler); the engine  *)
(* polls its collector forever and carries each call through; an exit, once  *)
(* begun, is carried through (its HTTP calls have timeouts).  The network,   *)
(* failures and the decision to exit are under no fairness.                  *)

EnqueueStep(c) == Enqueue(c) \/ Abandon(c) \/ Drop(c)

ReaderFairness ==
    \A c \in Conns : WF_vars(EnqueueStep(c)) /\ WF_vars(ReadFails(c))

AcceptorFairness ==
    /\ WF_vars(\E c \in Conns : Spawn(c))
    /\ WF_vars(AcceptClosed)
    /\ WF_vars(CheckQuit)

EngineFairness ==
    /\ WF_vars(StartCallback)
    /\ WF_vars(Receive \/ ReceiveUnencodable \/ EmitNothing \/ EmitBatch)
    /\ WF_vars(EngineAppend)
    /\ WF_vars(Cleanup)

ExitFairness == WF_vars(CloseListener) /\ WF_vars(FinishExit)

\* The plugin's own goroutines run; the engine may stop calling.
GoSpec == Spec /\ ReaderFairness /\ AcceptorFairness /\ ExitFairness
-----------------------------------------------------------------------------
(* Safety *)

TypeOK ==
    /\ conn \in [Conns -> ConnStates]
    /\ peerUp \in [Conns -> BOOLEAN]
    /\ acceptor \in {"accept", "spawn", "check", "done"}
    /\ decoded \in [Conns -> 0..MaxRecords]
    /\ offered \in [Conns -> 0..MaxRecords]
    /\ queue \in Seq(Record)
    /\ callback \in {"idle", "drain", "handed", "cleanup"}
    /\ batch \in Seq(Record)
    /\ heap \in Nat
    /\ delivered \in Seq(Record)
    /\ reported \in SUBSET Record
    /\ stop \in {"no", "quit", "closed", "exited"}

\* s lists the records of each connection in the order they were decoded, each
\* at most once.
Ordered(s) ==
    \A i, j \in DOMAIN s :
        i < j /\ s[i].conn = s[j].conn => s[i].n < s[j].n

\* No record of t is of a connection with a later or equal record in s.
Before(s, t) ==
    \A i \in DOMAIN s, j \in DOMAIN t :
        s[i].conn = t[j].conn => s[i].n < t[j].n

\* How far each reader is: nothing is pending but in an enqueue loop, or behind a
\* reader that left one because of Stop.
Counting ==
    /\ \A c \in Conns :
          /\ offered[c] <= decoded[c]
          /\ conn[c] = "enqueueing" => offered[c] < decoded[c]
          /\ offered[c] < decoded[c] => \/ conn[c] = "enqueueing"
                                        \/ conn[c] = "closed" /\ Quit
    /\ callback \in {"idle", "cleanup"} => batch = <<>>
    /\ heap = IF callback \in {"handed", "cleanup"} THEN 1 ELSE 0

\* Records of s went through the select of their reader.
Passed(s) == \A i \in DOMAIN s : s[i].n <= offered[s[i].conn]

\* Records of a connection move through the channel, the batch and the engine in
\* the order they were decoded, and no record is ever in two places or twice in
\* one: whatever the readers and the callback interleave, the engine sees each
\* connection's telemetry in order and without duplicates.
InOrder ==
    /\ Ordered(queue) /\ Ordered(batch) /\ Ordered(delivered)
    /\ Before(delivered, batch) /\ Before(delivered, queue) /\ Before(batch, queue)

Held == Elems(queue) \union Elems(batch) \union Elems(delivered)

\* Every record the decoder produced is accounted for: it waits in its reader's
\* loop, is in the channel, in the batch or with the engine, or its loss was
\* logged.  Only a reader that left because of Stop abandons records without a
\* word, and then only those it had not offered.
NoSilentLoss ==
    \A c \in Conns : \A k \in 1..decoded[c] :
        \/ k <= offered[c] /\ Rec(c, k) \in Held \union reported
        \/ k > offered[c] /\ conn[c] = "enqueueing"
        \/ k > offered[c] /\ conn[c] = "closed" /\ Quit

\* A loss that was logged is final: the record reaches the engine neither before
\* nor afterwards.
LossIsFinal == reported \intersect Held = {}

\* The inductive invariant: TypeInv alone is inductive, the rest on top of it.
TypeInv == TypeOK /\ Counting
OrderInv ==
    /\ InOrder
    /\ Passed(queue) /\ Passed(batch) /\ Passed(delivered)
LossInv ==
    /\ LossIsFinal
    /\ \A r \in reported : r.n <= offered[r.conn]
    /\ \A c \in Conns : \A k \in 1..offered[c] : Rec(c, k) \in Held \union reported

\* The engine is handed a C buffer that nobody has freed, and between callbacks
\* none is left allocated, after an empty batch or a batch that was handed over.
BuffersFreed ==
    /\ callback = "handed" => heap = 1
    /\ callback = "idle" => heap = 0

\* Once Stop closed the socket, the accept loop takes no further turn: it
\* never mistakes the closing for an error to log and retry.
NoSpin == [][~Listening /\ acceptor = "check" => acceptor' # "accept"]_vars

\* What the plugin promises, independent of channels, callbacks and buffers.
Promise == INSTANCE Delivery
Delivers == Promise!Spec

(* Liveness *)

\* A reader is never stuck in its enqueue loop, even when the engine has stopped
\* calling and the channel stays full.
ReaderNeverStuck ==
    \A c \in Conns : conn[c] = "enqueueing" ~> conn[c] # "enqueueing"

\* A reader whose connection ended returns (and its socket is closed).
ReaderEndsWithPeer ==
    \A c \in Conns :
        conn[c] \in {"reading", "enqueueing"} /\ ~peerUp[c] ~> conn[c] = "closed"

\* Stop ends the accept loop, wherever it was.
AcceptLoopEnds == Quit ~> acceptor = "done"

\* While the engine keeps calling, a record in the channel leaves it, unless the
\* plugin exits first.
QueueDrains ==
    EngineFairness =>
        \A r \in Record : r \in Elems(queue) ~> (r \notin Elems(queue) \/ stop # "no")

(* Statements of the repository that the code does not keep *)

\* listener.go: "Stop closes the listener and signals goroutines to exit".  A
\* reader waiting for its peer never looks at the quit channel.
StopEndsReaders ==
    Quit ~> \A c \in Conns : conn[c] \notin {"accepted", "reading", "enqueueing"}

\* pkg/promexport/README.md: "Every record goes to both places, always".  A
\* record the metrics observer has seen is dropped when the channel is full.
BothPlaces ==
    \A c \in Conns : \A k \in 1..offered[c] :
        stop = "no" => Rec(c, k) \in Held
=============================================================================
