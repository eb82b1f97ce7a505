--------------------------- MODULE PipelineProofs ---------------------------
(***************************************************************************)
(* Theorems about Pipeline for any set of connections, any channel         *)
(* capacity, batch size and message size.                                  *)
(*                                                                         *)
(* TypeInv is inductive by itself; OrderInv and LossInv are inductive      *)
(* relative to the invariants before them.                                 *)
(***************************************************************************)
EXTENDS Pipeline, SequenceTheorems, TLAPS

-----------------------------------------------------------------------------
(* Type invariant *)

LEMMA TypeInvInit == Init => TypeInv
BY QueueAssumption
DEF Init, TypeInv, TypeOK, Counting, ConnStates, Quit

\* The number of a record about to go through the select is a record number.
LEMMA NextRecord ==
    ASSUME TypeInv, NEW c \in Conns, conn[c] = "enqueueing"
    PROVE  /\ Rec(c, offered[c] + 1) \in Record
           /\ offered[c] + 1 \in 0..MaxRecords
           /\ offered[c] + 1 <= decoded[c]
BY QueueAssumption DEF TypeInv, TypeOK, Counting, Rec, Record

LEMMA TypeInvStep == TypeInv /\ [Next]_vars => TypeInv'
<1> SUFFICES ASSUME TypeInv, [Next]_vars
             PROVE  TypeInv'
    OBVIOUS
<1> USE QueueAssumption
<1>1. CASE Network
  BY <1>1 DEF Network, Connect, PeerGone, TypeInv, TypeOK, Counting,
              ConnStates, Quit, readVars, outVars
<1>2. CASE AcceptLoop
  BY <1>2 DEF AcceptLoop, Accept, Spawn, AcceptFails, AcceptClosed, CheckQuit, TypeInv,
              TypeOK, Counting, ConnStates, Quit, readVars, outVars
<1>3. ASSUME NEW c \in Conns, MsgReader(c)
      PROVE  TypeInv'
  <2>1. ASSUME NEW k \in 0..MaxRecs, ReadMessage(c, k)
        PROVE  TypeInv'
    BY <2>1 DEF ReadMessage, TypeInv, TypeOK, Counting, ConnStates, Quit, outVars
  <2>2. CASE ReadFails(c)
    BY <2>2 DEF ReadFails, TypeInv, TypeOK, Counting, ConnStates, Quit,
                readVars, outVars
  <2>3. CASE Enqueue(c)
    <3>1. conn[c] = "enqueueing"
      BY <2>3 DEF Enqueue
    <3>2. /\ Rec(c, offered[c] + 1) \in Record
          /\ offered[c] + 1 \in 0..MaxRecords
          /\ offered[c] + 1 <= decoded[c]
      BY <3>1, NextRecord
    <3>3. /\ queue' \in Seq(Record)
          /\ Len(queue') = Len(queue) + 1
      BY <2>3, <3>2, AppendProperties DEF Enqueue, TypeInv, TypeOK
    <3>. QED
      BY <2>3, <3>2, <3>3 DEF Enqueue, Advance, TypeInv, TypeOK, Counting,
                              ConnStates, Quit, outVars
  <2>4. CASE Abandon(c)
    BY <2>4 DEF Abandon, TypeInv, TypeOK, Counting, ConnStates, Quit,
                readVars, outVars
  <2>5. CASE Drop(c)
    <3>1. conn[c] = "enqueueing"
      BY <2>5 DEF Drop
    <3>2. /\ Rec(c, offered[c] + 1) \in Record
          /\ offered[c] + 1 \in 0..MaxRecords
          /\ offered[c] + 1 <= decoded[c]
      BY <3>1, NextRecord
    <3>. QED
      BY <2>5, <3>2 DEF Drop, Advance, TypeInv, TypeOK, Counting, ConnStates,
                        Quit, outVars
  <2>. QED  BY <1>3, <2>1, <2>2, <2>3, <2>4, <2>5 DEF MsgReader
<1>4. CASE Engine
  <2>1. CASE StartCallback
    BY <2>1 DEF StartCallback, TypeInv, TypeOK, Counting, Quit, netVars, readVars
  <2>2. CASE Receive
    <3>1. /\ Head(queue) \in Record
          /\ queue' \in Seq(Record)
          /\ Len(queue') = Len(queue) - 1
      BY <2>2, HeadTailProperties DEF Receive, TypeInv, TypeOK
    <3>2. /\ batch' \in Seq(Record)
          /\ Len(batch') = Len(batch) + 1
      BY <2>2, <3>1, AppendProperties DEF Receive, TypeInv, TypeOK
    <3>. QED
      BY <2>2, <3>1, <3>2 DEF Receive, TypeInv, TypeOK, Counting, Quit,
                              netVars, readVars
  <2>3. CASE ReceiveUnencodable
    <3>1. /\ Head(queue) \in Record
          /\ queue' \in Seq(Record)
          /\ Len(queue') = Len(queue) - 1
      BY <2>3, HeadTailProperties DEF ReceiveUnencodable, TypeInv, TypeOK
    <3>. QED
      BY <2>3, <3>1 DEF ReceiveUnencodable, TypeInv, TypeOK, Counting, Quit,
                        netVars, readVars
  <2>4. CASE EmitNothing \/ EmitBatch
    BY <2>4 DEF EmitNothing, EmitBatch, ToCBuffer, TypeInv, TypeOK, Counting, Quit,
                netVars, readVars
  <2>5. CASE EngineAppend
    <3>1. delivered' \in Seq(Record)
      BY <2>5, ConcatProperties DEF EngineAppend, TypeInv, TypeOK
    <3>. QED
      BY <2>5, <3>1 DEF EngineAppend, TypeInv, TypeOK, Counting, Quit,
                        netVars, readVars
  <2>6. CASE Cleanup
    BY <2>6 DEF Cleanup, Free, TypeInv, TypeOK, Counting, Quit, netVars, readVars
  <2>. QED  BY <1>4, <2>1, <2>2, <2>3, <2>4, <2>5, <2>6 DEF Engine
<1>5. CASE Exit
  BY <1>5 DEF Exit, CloseQuit, CloseListener, FinishExit, TypeInv, TypeOK, Counting,
              ConnStates, Quit, netVars, readVars, outVars
<1>6. CASE UNCHANGED vars
  BY <1>6 DEF vars, TypeInv, TypeOK, Counting, Quit
<1>. QED  BY <1>1, <1>2, <1>3, <1>4, <1>5, <1>6 DEF Next

\* Every variable keeps its type, and the readers' counters and the C buffers
\* agree with where the readers and the engine are.
THEOREM TypeCorrect == Spec => []TypeInv
<1>. QED  BY TypeInvInit, TypeInvStep, PTL DEF Spec
\* Every variable keeps its type: the part of TypeInv that the run checks.
THEOREM TypesHold == Spec => []TypeOK
<1>1. TypeInv => TypeOK
  BY DEF TypeInv
<1>. QED  BY <1>1, TypeCorrect, PTL

\* The engine never reads a freed buffer, and none is left between callbacks.
THEOREM NoLeak == Spec => []BuffersFreed
<1>1. TypeInv => BuffersFreed
  BY DEF TypeInv, Counting, BuffersFreed
<1>. QED  BY <1>1, TypeCorrect, PTL
-----------------------------------------------------------------------------
(* Sequences of records *)

\* No record of s is of e's connection with e's number or a later one.
After(s, e) == \A i \in DOMAIN s : s[i].conn = e.conn => s[i].n < e.n

\* No record of t is of e's connection with e's number or an earlier one.
Ahead(e, t) == \A j \in DOMAIN t : e.conn = t[j].conn => e.n < t[j].n

LEMMA RecordAt ==
    ASSUME NEW s \in Seq(Record), NEW i \in DOMAIN s
    PROVE  s[i] \in Record /\ s[i].conn \in Conns /\ s[i].n \in Nat
<1>1. s[i] \in Record
  BY ElementOfSeq, LenProperties
<1>. QED  BY <1>1, QueueAssumption DEF Record

LEMMA EmptyOrder ==
    ASSUME NEW s
    PROVE  Ordered(<<>>) /\ Before(s, <<>>) /\ Before(<<>>, s) /\ Passed(<<>>)
BY DEF Ordered, Before, Passed

LEMMA AppendOrder ==
    ASSUME NEW s \in Seq(Record), NEW e \in Record, Ordered(s), After(s, e)
    PROVE  Ordered(Append(s, e))
BY AppendProperties, LenProperties DEF Ordered, After

LEMMA AppendBehind ==
    ASSUME NEW s \in Seq(Record), NEW t \in Seq(Record), NEW e \in Record,
           Before(s, t), After(s, e)
    PROVE  Before(s, Append(t, e))
BY AppendProperties, LenProperties DEF Before, After

LEMMA AppendInFront ==
    ASSUME NEW s \in Seq(Record), NEW t \in Seq(Record), NEW e \in Record,
           Before(s, t), Ahead(e, t)
    PROVE  Before(Append(s, e), t)
BY AppendProperties, LenProperties DEF Before, Ahead

LEMMA AppendPassed ==
    ASSUME NEW s \in Seq(Record), NEW e \in Record, Passed(s), e.n <= offered[e.conn]
    PROVE  Passed(Append(s, e))
BY AppendProperties, LenProperties DEF Passed

\* The indices of a tail are those of the sequence, shifted.
LEMMA TailIndex ==
    ASSUME NEW q \in Seq(Record), q # <<>>
    PROVE  /\ 1 \in DOMAIN q /\ Head(q) = q[1] /\ Head(q) \in Record
           /\ Tail(q) \in Seq(Record)
           /\ \A i \in DOMAIN Tail(q) : i + 1 \in DOMAIN q /\ Tail(q)[i] = q[i + 1]
           /\ DOMAIN Tail(q) \subseteq Nat
<1>1. Len(q) \in Nat \ {0}
  BY EmptySeq
<1>2. DOMAIN q = 1..Len(q) /\ DOMAIN Tail(q) = 1..(Len(q) - 1)
  BY <1>1, HeadTailProperties, LenProperties
<1>. QED  BY <1>1, <1>2, HeadTailProperties

LEMMA TailOrder ==
    ASSUME NEW q \in Seq(Record), q # <<>>, Ordered(q)
    PROVE  Ordered(Tail(q)) /\ Ahead(Head(q), Tail(q))
<1>1. ASSUME NEW i \in DOMAIN Tail(q), NEW j \in DOMAIN Tail(q), i < j,
             Tail(q)[i].conn = Tail(q)[j].conn
      PROVE  Tail(q)[i].n < Tail(q)[j].n
  <2>1. /\ i + 1 \in DOMAIN q /\ Tail(q)[i] = q[i + 1]
        /\ j + 1 \in DOMAIN q /\ Tail(q)[j] = q[j + 1]
    BY TailIndex
  <2>2. i \in Nat /\ j \in Nat
    BY TailIndex
  <2>3. i + 1 < j + 1
    BY <1>1, <2>2
  <2>. QED  BY <1>1, <2>1, <2>3 DEF Ordered
<1>2. ASSUME NEW j \in DOMAIN Tail(q), Head(q).conn = Tail(q)[j].conn
      PROVE  Head(q).n < Tail(q)[j].n
  <2>1. /\ 1 \in DOMAIN q /\ Head(q) = q[1]
        /\ j + 1 \in DOMAIN q /\ Tail(q)[j] = q[j + 1]
    BY TailIndex
  <2>2. DOMAIN Tail(q) = 1..Len(Tail(q)) /\ Len(Tail(q)) \in Nat
    BY TailIndex, LenProperties
  <2>3. 1 < j + 1
    BY <2>2
  <2>. QED  BY <1>2, <2>1, <2>3 DEF Ordered
<1>. QED  BY <1>1, <1>2 DEF Ordered, Ahead

LEMMA TailBehind ==
    ASSUME NEW s \in Seq(Record), NEW q \in Seq(Record), q # <<>>, Before(s, q)
    PROVE  Before(s, Tail(q)) /\ After(s, Head(q))
BY TailIndex DEF Before, After

LEMMA TailPassed ==
    ASSUME NEW q \in Seq(Record), q # <<>>, Passed(q)
    PROVE  Passed(Tail(q)) /\ Head(q).n <= offered[Head(q).conn]
BY TailIndex DEF Passed

LEMMA ConcatIndex ==
    ASSUME NEW s \in Seq(Record), NEW t \in Seq(Record)
    PROVE  /\ s \o t \in Seq(Record)
           /\ DOMAIN s \subseteq Nat /\ DOMAIN t \subseteq Nat
           /\ \A i \in DOMAIN (s \o t) :
                 \/ i \in DOMAIN s /\ (s \o t)[i] = s[i]
                 \/ i - Len(s) \in DOMAIN t /\ (s \o t)[i] = t[i - Len(s)] /\ i > Len(s)
           /\ \A i \in DOMAIN s : i \in DOMAIN (s \o t) /\ (s \o t)[i] = s[i] /\ i <= Len(s)
           /\ \A j \in DOMAIN t : j + Len(s) \in DOMAIN (s \o t) /\ (s \o t)[j + Len(s)] = t[j]
<1>1. /\ Len(s) \in Nat /\ DOMAIN s = 1..Len(s)
      /\ Len(t) \in Nat /\ DOMAIN t = 1..Len(t)
  BY LenProperties
<1>2. s \o t \in Seq(Record) /\ Len(s \o t) = Len(s) + Len(t)
  BY ConcatProperties
<1>3. DOMAIN (s \o t) = 1..(Len(s) + Len(t))
  BY <1>2, LenProperties
<1>4. \A i \in 1..(Len(s) + Len(t)) :
          (s \o t)[i] = IF i <= Len(s) THEN s[i] ELSE t[i - Len(s)]
  BY ConcatProperties
<1>. QED  BY <1>1, <1>2, <1>3, <1>4

LEMMA ConcatOrder ==
    ASSUME NEW s \in Seq(Record), NEW t \in Seq(Record),
           Ordered(s), Ordered(t), Before(s, t)
    PROVE  Ordered(s \o t)
<1> SUFFICES ASSUME NEW i \in DOMAIN (s \o t), NEW j \in DOMAIN (s \o t),
                    i < j, (s \o t)[i].conn = (s \o t)[j].conn
             PROVE  (s \o t)[i].n < (s \o t)[j].n
    BY DEF Ordered
<1>1. Len(s) \in Nat /\ i \in Nat /\ j \in Nat
  BY ConcatIndex, LenProperties
<1>2. CASE i \in DOMAIN s /\ (s \o t)[i] = s[i] /\ j \in DOMAIN s /\ (s \o t)[j] = s[j]
  BY <1>2 DEF Ordered
<1>3. CASE /\ i \in DOMAIN s /\ (s \o t)[i] = s[i]
           /\ j - Len(s) \in DOMAIN t /\ (s \o t)[j] = t[j - Len(s)]
  BY <1>3 DEF Before
<1>4. CASE /\ i - Len(s) \in DOMAIN t /\ (s \o t)[i] = t[i - Len(s)]
           /\ j - Len(s) \in DOMAIN t /\ (s \o t)[j] = t[j - Len(s)]
  <2>1. i - Len(s) < j - Len(s)
    BY <1>1
  <2>. QED  BY <1>4, <2>1 DEF Ordered
<1>5. CASE i > Len(s) /\ j \in DOMAIN s
  BY <1>1, <1>5, LenProperties
<1>. QED  BY <1>2, <1>3, <1>4, <1>5, ConcatIndex

LEMMA ConcatInFront ==
    ASSUME NEW s \in Seq(Record), NEW t \in Seq(Record), NEW u,
           Before(s, u), Before(t, u)
    PROVE  Before(s \o t, u)
BY ConcatIndex DEF Before

LEMMA ConcatPassed ==
    ASSUME NEW s \in Seq(Record), NEW t \in Seq(Record), Passed(s), Passed(t)
    PROVE  Passed(s \o t)
BY ConcatIndex DEF Passed
-----------------------------------------------------------------------------
(* Order *)

LEMMA OrderInvInit == Init => OrderInv
BY EmptyOrder DEF Init, OrderInv, InOrder

\* A step that moves no record and lets no reader go back keeps the order.
LEMMA OrderKept ==
    ASSUME OrderInv, UNCHANGED <<queue, batch, delivered, offered>>
    PROVE  OrderInv'
BY DEF OrderInv, InOrder, Ordered, Before, Passed

\* The record at a reader's select comes behind all that went through one.
LEMMA PassedAfter ==
    ASSUME TypeInv, NEW c \in Conns, NEW s \in Seq(Record), Passed(s)
    PROVE  After(s, Rec(c, offered[c] + 1))
<1> SUFFICES ASSUME NEW i \in DOMAIN s, s[i].conn = c
             PROVE  s[i].n < offered[c] + 1
    BY DEF After, Rec
<1>1. s[i].n <= offered[c]
  BY DEF Passed
<1>2. s[i].n \in Nat /\ offered[c] \in Nat
  BY RecordAt DEF TypeInv, TypeOK
<1>. QED  BY <1>1, <1>2

LEMMA OrderEnqueue ==
    ASSUME TypeInv, OrderInv, NEW c \in Conns, Enqueue(c)
    PROVE  OrderInv'
<1> DEFINE e == Rec(c, offered[c] + 1)
<1>1. /\ queue \in Seq(Record) /\ batch \in Seq(Record) /\ delivered \in Seq(Record)
      /\ offered \in [Conns -> 0..MaxRecords]
  BY DEF TypeInv, TypeOK
<1>2. e \in Record /\ e.conn = c /\ e.n = offered[c] + 1
  BY NextRecord DEF Enqueue, Rec
<1>3. ASSUME NEW s \in Seq(Record), Passed(s)
      PROVE  After(s, e)
  BY <1>3, PassedAfter
<1>4. queue' = Append(queue, e) /\ UNCHANGED <<batch, delivered>>
  BY DEF Enqueue, outVars
<1>5. InOrder'
  <2>1. Ordered(queue)'
    BY <1>1, <1>2, <1>3, <1>4, AppendOrder DEF OrderInv, InOrder, Ordered
  <2>2. Before(delivered, queue)' /\ Before(batch, queue)'
    BY <1>1, <1>2, <1>3, <1>4, AppendBehind DEF OrderInv, InOrder, Before
  <2>3. (Ordered(batch) /\ Ordered(delivered) /\ Before(delivered, batch))'
    BY <1>4 DEF OrderInv, InOrder, Ordered, Before
  <2>. QED  BY <2>1, <2>2, <2>3 DEF InOrder
<1>6. \A d \in Conns : offered'[d] \in Nat /\ offered[d] \in Nat /\ offered[d] <= offered'[d]
  BY <1>1 DEF Enqueue, Advance
<1>7. ASSUME NEW s \in Seq(Record), Passed(s), NEW i \in DOMAIN s
      PROVE  s[i].n <= offered'[s[i].conn]
  <2>1. s[i].n \in Nat /\ s[i].conn \in Conns
    BY RecordAt
  <2>. QED  BY <1>6, <1>7, <2>1 DEF Passed
<1>8. Passed(batch)' /\ Passed(delivered)'
  BY <1>1, <1>4, <1>7 DEF Passed, OrderInv
<1>9. Passed(queue)'
  <2>1. e.n <= offered'[e.conn]
    BY <1>1, <1>2 DEF Enqueue, Advance
  <2>2. ASSUME NEW i \in DOMAIN queue'
        PROVE  \/ queue'[i] = e
               \/ i \in DOMAIN queue /\ queue'[i] = queue[i]
    BY <1>1, <1>2, <1>4, AppendProperties, LenProperties
  <2>. QED  BY <1>1, <1>7, <2>1, <2>2 DEF Passed, OrderInv
<1>. QED  BY <1>5, <1>8, <1>9 DEF OrderInv

LEMMA OrderReceive ==
    ASSUME TypeInv, OrderInv, Receive
    PROVE  OrderInv'
<1>1. /\ queue \in Seq(Record) /\ batch \in Seq(Record) /\ delivered \in Seq(Record)
      /\ queue # <<>> /\ Head(queue) \in Record /\ Tail(queue) \in Seq(Record)
  BY TailIndex DEF TypeInv, TypeOK, Receive
<1>2. /\ queue' = Tail(queue) /\ batch' = Append(batch, Head(queue))
      /\ UNCHANGED <<delivered, offered>>
  BY DEF Receive, readVars
<1>3. /\ Ordered(Tail(queue)) /\ Ahead(Head(queue), Tail(queue))
      /\ Before(delivered, Tail(queue)) /\ After(delivered, Head(queue))
      /\ Before(batch, Tail(queue)) /\ After(batch, Head(queue))
      /\ Passed(Tail(queue)) /\ Head(queue).n <= offered[Head(queue).conn]
  BY <1>1, TailOrder, TailBehind, TailPassed DEF OrderInv, InOrder
<1>4. /\ Ordered(Append(batch, Head(queue)))
      /\ Before(delivered, Append(batch, Head(queue)))
      /\ Before(Append(batch, Head(queue)), Tail(queue))
      /\ Passed(Append(batch, Head(queue)))
  BY <1>1, <1>3, AppendOrder, AppendBehind, AppendInFront, AppendPassed DEF OrderInv, InOrder
<1>5. Ordered(delivered) /\ Passed(delivered)
  BY DEF OrderInv, InOrder
<1>. QED  BY <1>2, <1>3, <1>4, <1>5 DEF OrderInv, InOrder, Ordered, Before, Passed

LEMMA OrderReceiveUnencodable ==
    ASSUME TypeInv, OrderInv, ReceiveUnencodable
    PROVE  OrderInv'
<1>1. /\ queue \in Seq(Record) /\ batch \in Seq(Record) /\ delivered \in Seq(Record)
      /\ queue # <<>>
  BY DEF TypeInv, TypeOK, ReceiveUnencodable
<1>2. queue' = Tail(queue) /\ UNCHANGED <<batch, delivered, offered>>
  BY DEF ReceiveUnencodable, readVars
<1>3. /\ Ordered(Tail(queue)) /\ Passed(Tail(queue))
      /\ Before(delivered, Tail(queue)) /\ Before(batch, Tail(queue))
  BY <1>1, TailOrder, TailBehind, TailPassed DEF OrderInv, InOrder
<1>4. /\ Ordered(batch) /\ Ordered(delivered) /\ Before(delivered, batch)
      /\ Passed(batch) /\ Passed(delivered)
  BY DEF OrderInv, InOrder
<1>. QED  BY <1>2, <1>3, <1>4 DEF OrderInv, InOrder, Ordered, Before, Passed

LEMMA OrderEngineAppend ==
    ASSUME TypeInv, OrderInv, EngineAppend
    PROVE  OrderInv'
<1>1. batch \in Seq(Record) /\ delivered \in Seq(Record)
  BY DEF TypeInv, TypeOK
<1>2. delivered' = delivered \o batch /\ batch' = <<>> /\ UNCHANGED <<queue, offered>>
  BY DEF EngineAppend, readVars
<1>3. /\ Ordered(delivered \o batch) /\ Before(delivered \o batch, queue)
      /\ Passed(delivered \o batch)
  BY <1>1, ConcatOrder, ConcatInFront, ConcatPassed DEF OrderInv, InOrder
<1>4. Ordered(queue) /\ Passed(queue)
  BY DEF OrderInv, InOrder
<1>. QED  BY <1>2, <1>3, <1>4 DEF OrderInv, InOrder, Ordered, Before, Passed

LEMMA OrderDrop ==
    ASSUME TypeInv, OrderInv, NEW c \in Conns, Drop(c)
    PROVE  OrderInv'
<1>1. /\ queue \in Seq(Record) /\ batch \in Seq(Record) /\ delivered \in Seq(Record)
      /\ offered \in [Conns -> 0..MaxRecords]
  BY DEF TypeInv, TypeOK
<1>2. UNCHANGED <<queue, batch, delivered>>
  BY DEF Drop, outVars
<1>3. \A d \in Conns : offered'[d] \in Nat /\ offered[d] \in Nat /\ offered[d] <= offered'[d]
  BY <1>1 DEF Drop, Advance
<1>4. ASSUME NEW s \in Seq(Record), Passed(s), NEW i \in DOMAIN s
      PROVE  s[i].n <= offered'[s[i].conn]
  <2>1. s[i].n \in Nat /\ s[i].conn \in Conns
    BY RecordAt
  <2>. QED  BY <1>3, <1>4, <2>1 DEF Passed
<1>5. Passed(queue)' /\ Passed(batch)' /\ Passed(delivered)'
  BY <1>1, <1>2, <1>4 DEF Passed, OrderInv
<1>. QED  BY <1>2, <1>5 DEF OrderInv, InOrder, Ordered, Before

LEMMA OrderInvStep == TypeInv /\ OrderInv /\ [Next]_vars => OrderInv'
<1> SUFFICES ASSUME TypeInv, OrderInv, [Next]_vars
             PROVE  OrderInv'
    OBVIOUS
<1>1. CASE Network
  BY <1>1, OrderKept DEF Network, Connect, PeerGone, readVars, outVars
<1>2. CASE AcceptLoop
  BY <1>2, OrderKept DEF AcceptLoop, Accept, Spawn, AcceptFails, AcceptClosed, CheckQuit,
                         readVars, outVars
<1>3. ASSUME NEW c \in Conns, MsgReader(c)
      PROVE  OrderInv'
  <2>1. ASSUME NEW k \in 0..MaxRecs, ReadMessage(c, k)
        PROVE  OrderInv'
    BY <2>1, OrderKept DEF ReadMessage, outVars
  <2>2. CASE ReadFails(c)
    BY <2>2, OrderKept DEF ReadFails, readVars, outVars
  <2>3. CASE Abandon(c)
    BY <2>3, OrderKept DEF Abandon, readVars, outVars
  <2>. QED  BY <1>3, <2>1, <2>2, <2>3, OrderEnqueue, OrderDrop DEF MsgReader
<1>4. CASE Engine
  <2>1. CASE StartCallback
    BY <2>1, OrderKept DEF StartCallback, readVars
  <2>2. CASE EmitNothing \/ EmitBatch
    BY <2>2, OrderKept DEF EmitNothing, EmitBatch, readVars
  <2>3. CASE Cleanup
    BY <2>3, OrderKept DEF Cleanup, readVars
  <2>. QED
    BY <1>4, <2>1, <2>2, <2>3, OrderReceive, OrderReceiveUnencodable,
       OrderEngineAppend DEF Engine
<1>5. CASE Exit
  BY <1>5, OrderKept DEF Exit, CloseQuit, CloseListener, FinishExit, readVars, outVars
<1>6. CASE UNCHANGED vars
  BY <1>6, OrderKept DEF vars
<1>. QED  BY <1>1, <1>2, <1>3, <1>4, <1>5, <1>6 DEF Next

\* Each connection's records pass through the channel, the batch and the engine
\* in order and at most once, for any number of connections and any capacity.
THEOREM InOrderHolds == Spec => []InOrder
<1>1. OrderInv => InOrder
  BY DEF OrderInv
<1>. QED  BY <1>1, TypeCorrect, OrderInvInit, OrderInvStep, PTL DEF Spec
-----------------------------------------------------------------------------
(* Losses *)

LEMMA ElemsAppend ==
    ASSUME NEW s \in Seq(Record), NEW e \in Record
    PROVE  Elems(Append(s, e)) = Elems(s) \union {e}
<1>1. /\ Len(s) \in Nat /\ DOMAIN s = 1..Len(s) /\ DOMAIN Append(s, e) = 1..(Len(s) + 1)
      /\ \A i \in 1..Len(s) : Append(s, e)[i] = s[i]
      /\ Append(s, e)[Len(s) + 1] = e
  BY AppendProperties, LenProperties
<1>2. Elems(Append(s, e)) \subseteq Elems(s) \union {e}
  BY <1>1 DEF Elems
<1>3. Elems(s) \subseteq Elems(Append(s, e))
  BY <1>1 DEF Elems
<1>4. e \in Elems(Append(s, e))
  BY <1>1 DEF Elems
<1>. QED  BY <1>2, <1>3, <1>4

LEMMA ElemsTail ==
    ASSUME NEW q \in Seq(Record), q # <<>>
    PROVE  Elems(q) = {Head(q)} \union Elems(Tail(q))
<1>1. /\ Len(q) \in Nat \ {0} /\ DOMAIN q = 1..Len(q) /\ DOMAIN Tail(q) = 1..(Len(q) - 1)
      /\ Head(q) = q[1]
      /\ \A i \in 1..(Len(q) - 1) : Tail(q)[i] = q[i + 1]
  BY EmptySeq, HeadTailProperties, LenProperties
<1>2. ASSUME NEW i \in 1..Len(q)
      PROVE  q[i] \in {Head(q)} \union Elems(Tail(q))
  <2>1. CASE i = 1
    BY <1>1, <2>1
  <2>2. CASE i # 1
    <3>1. i - 1 \in 1..(Len(q) - 1) /\ (i - 1) + 1 = i
      BY <1>1, <2>2
    <3>2. q[i] = Tail(q)[i - 1]
      BY <1>1, <3>1
    <3>. QED  BY <1>1, <3>1, <3>2 DEF Elems
  <2>. QED  BY <2>1, <2>2
<1>3. \A i \in DOMAIN Tail(q) : Tail(q)[i] \in Elems(q)
  BY TailIndex DEF Elems
<1>4. Head(q) \in Elems(q)
  BY TailIndex DEF Elems
<1>. QED  BY <1>1, <1>2, <1>3, <1>4 DEF Elems

LEMMA ElemsConcat ==
    ASSUME NEW s \in Seq(Record), NEW t \in Seq(Record)
    PROVE  Elems(s \o t) = Elems(s) \union Elems(t)
<1>1. \A i \in DOMAIN (s \o t) : (s \o t)[i] \in Elems(s) \union Elems(t)
  BY ConcatIndex DEF Elems
<1>2. \A i \in DOMAIN s : s[i] \in Elems(s \o t)
  BY ConcatIndex DEF Elems
<1>3. ASSUME NEW j \in DOMAIN t
      PROVE  t[j] \in Elems(s \o t)
  <2>1. j + Len(s) \in DOMAIN (s \o t) /\ (s \o t)[j + Len(s)] = t[j]
    BY ConcatIndex
  <2>. QED  BY <2>1 DEF Elems
<1>. QED  BY <1>1, <1>2, <1>3 DEF Elems

LEMMA AfterNotIn ==
    ASSUME NEW s \in Seq(Record), NEW e \in Record, After(s, e)
    PROVE  e \notin Elems(s)
<1> SUFFICES ASSUME NEW i \in DOMAIN s, s[i] = e
             PROVE  FALSE
    BY DEF Elems
<1>. QED  BY RecordAt DEF After

LEMMA AheadNotIn ==
    ASSUME NEW t \in Seq(Record), NEW e \in Record, Ahead(e, t)
    PROVE  e \notin Elems(t)
<1> SUFFICES ASSUME NEW j \in DOMAIN t, t[j] = e
             PROVE  FALSE
    BY DEF Elems
<1>. QED  BY RecordAt DEF Ahead

LEMMA LossInvInit == Init => LossInv
BY DEF Init, LossInv, LossIsFinal

LEMMA LossKept ==
    ASSUME LossInv, UNCHANGED <<queue, batch, delivered, offered, reported>>
    PROVE  LossInv'
BY DEF LossInv, LossIsFinal, Held, Elems

LEMMA LossEnqueue ==
    ASSUME TypeInv, OrderInv, LossInv, NEW c \in Conns, Enqueue(c)
    PROVE  LossInv'
<1> DEFINE e == Rec(c, offered[c] + 1)
<1>1. /\ queue \in Seq(Record) /\ offered \in [Conns -> 0..MaxRecords]
      /\ reported \in SUBSET Record
  BY DEF TypeInv, TypeOK
<1>2. e \in Record /\ e.conn = c /\ e.n = offered[c] + 1
  BY NextRecord DEF Enqueue, Rec
<1>3. /\ queue' = Append(queue, e) /\ UNCHANGED <<batch, delivered, reported>>
      /\ offered' = [offered EXCEPT ![c] = @ + 1]
  BY DEF Enqueue, Advance, outVars
<1>4. Held' = Held \union {e}
  BY <1>1, <1>2, <1>3, ElemsAppend DEF Held
<1>5. e \notin reported
  BY <1>1, <1>2 DEF LossInv
<1>6. LossIsFinal'
  BY <1>3, <1>4, <1>5 DEF LossInv, LossIsFinal
<1>7. \A r \in reported : r.n <= offered'[r.conn]
  BY <1>1, <1>3, QueueAssumption DEF LossInv, Record
<1>8. \A d \in Conns : \A k \in 1..offered'[d] :
          \/ k \in 1..offered[d]
          \/ Rec(d, k) = e
  BY <1>1, <1>3
<1>. QED  BY <1>3, <1>4, <1>6, <1>7, <1>8 DEF LossInv

LEMMA LossDrop ==
    ASSUME TypeInv, OrderInv, LossInv, NEW c \in Conns, Drop(c)
    PROVE  LossInv'
<1> DEFINE e == Rec(c, offered[c] + 1)
<1>1. /\ queue \in Seq(Record) /\ batch \in Seq(Record) /\ delivered \in Seq(Record)
      /\ offered \in [Conns -> 0..MaxRecords] /\ reported \in SUBSET Record
  BY DEF TypeInv, TypeOK
<1>2. e \in Record /\ e.conn = c /\ e.n = offered[c] + 1
  BY NextRecord DEF Drop, Rec
<1>3. /\ reported' = reported \union {e} /\ UNCHANGED <<queue, batch, delivered>>
      /\ offered' = [offered EXCEPT ![c] = @ + 1]
  BY DEF Drop, Advance, outVars
<1>4. Held' = Held
  BY <1>3 DEF Held, Elems
<1>5. e \notin Held
  BY <1>1, <1>2, PassedAfter, AfterNotIn DEF Held, OrderInv
<1>6. LossIsFinal'
  BY <1>3, <1>4, <1>5 DEF LossInv, LossIsFinal
<1>7. \A r \in reported' : r.n <= offered'[r.conn]
  BY <1>1, <1>2, <1>3, QueueAssumption DEF LossInv, Record
<1>8. \A d \in Conns : \A k \in 1..offered'[d] :
          \/ k \in 1..offered[d]
          \/ Rec(d, k) = e
  BY <1>1, <1>3
<1>. QED  BY <1>3, <1>4, <1>6, <1>7, <1>8 DEF LossInv

\* The engine and the callback move records, and report what they lose.
LEMMA LossEngine ==
    ASSUME TypeInv, OrderInv, LossInv, Engine
    PROVE  LossInv'
<1>1. /\ queue \in Seq(Record) /\ batch \in Seq(Record) /\ delivered \in Seq(Record)
      /\ UNCHANGED offered
  BY DEF TypeInv, TypeOK, Engine, StartCallback, Receive, ReceiveUnencodable, EmitNothing,
         EmitBatch, EngineAppend, Cleanup, readVars
<1>2. CASE UNCHANGED <<queue, batch, delivered, reported>>
  BY <1>1, <1>2, LossKept
<1>3. CASE Receive
  <2>1. Held' = Held
    <3>1. queue # <<>> /\ Head(queue) \in Record
      BY <1>1, <1>3, TailIndex DEF Receive
    <3>. QED
      BY <1>1, <1>3, <3>1, ElemsTail, ElemsAppend DEF Receive, Held
  <2>. QED  BY <1>1, <1>3, <2>1 DEF Receive, LossInv, LossIsFinal
<1>4. CASE ReceiveUnencodable
  <2>1. /\ queue # <<>> /\ Head(queue) \in Record /\ Tail(queue) \in Seq(Record)
        /\ queue' = Tail(queue) /\ UNCHANGED <<batch, delivered>>
        /\ reported' = reported \union {Head(queue)}
    BY <1>1, <1>4, TailIndex DEF ReceiveUnencodable
  <2>2. /\ Elems(queue) = {Head(queue)} \union Elems(queue')
        /\ Elems(batch') = Elems(batch) /\ Elems(delivered') = Elems(delivered)
    BY <1>1, <2>1, ElemsTail
  <2>3. Head(queue) \notin Elems(queue') /\ Head(queue) \notin Elems(batch)
    BY <1>1, <2>1, TailOrder, TailBehind, AheadNotIn, AfterNotIn DEF OrderInv, InOrder
  <2>4. Head(queue) \notin Elems(delivered)
    BY <1>1, <2>1, TailBehind, AfterNotIn DEF OrderInv, InOrder
  <2>5. Head(queue).n <= offered[Head(queue).conn]
    BY <1>1, <2>1, TailPassed DEF OrderInv
  <2>6. LossIsFinal'
    BY <2>1, <2>2, <2>3, <2>4 DEF LossInv, LossIsFinal, Held, Elems
  <2>7. (Held \union reported)' = Held \union reported
    BY <2>1, <2>2 DEF Held, Elems
  <2>. QED  BY <1>1, <2>1, <2>5, <2>6, <2>7 DEF LossInv
<1>5. CASE EngineAppend
  <2>1. Held' = Held
    <3>1. Elems(delivered \o batch) = Elems(delivered) \union Elems(batch)
      BY <1>1, ElemsConcat
    <3>2. Elems(<<>>) = {}
      BY DEF Elems
    <3>. QED  BY <1>5, <3>1, <3>2 DEF EngineAppend, Held
  <2>. QED  BY <1>1, <1>5, <2>1 DEF EngineAppend, LossInv, LossIsFinal
<1>. QED
  BY <1>2, <1>3, <1>4, <1>5 DEF Engine, StartCallback, EmitNothing, EmitBatch, Cleanup

LEMMA LossInvStep == TypeInv /\ OrderInv /\ LossInv /\ [Next]_vars => LossInv'
<1> SUFFICES ASSUME TypeInv, OrderInv, LossInv, [Next]_vars
             PROVE  LossInv'
    OBVIOUS
<1>1. CASE Network
  BY <1>1, LossKept DEF Network, Connect, PeerGone, readVars, outVars
<1>2. CASE AcceptLoop
  BY <1>2, LossKept DEF AcceptLoop, Accept, Spawn, AcceptFails, AcceptClosed, CheckQuit,
                        readVars, outVars
<1>3. ASSUME NEW c \in Conns, MsgReader(c)
      PROVE  LossInv'
  <2>1. ASSUME NEW k \in 0..MaxRecs, ReadMessage(c, k)
        PROVE  LossInv'
    BY <2>1, LossKept DEF ReadMessage, outVars
  <2>2. CASE ReadFails(c)
    BY <2>2, LossKept DEF ReadFails, readVars, outVars
  <2>3. CASE Abandon(c)
    BY <2>3, LossKept DEF Abandon, readVars, outVars
  <2>. QED  BY <1>3, <2>1, <2>2, <2>3, LossEnqueue, LossDrop DEF MsgReader
<1>4. CASE Exit
  BY <1>4, LossKept DEF Exit, CloseQuit, CloseListener, FinishExit, readVars, outVars
<1>5. CASE UNCHANGED vars
  BY <1>5, LossKept DEF vars
<1>. QED  BY <1>1, <1>2, <1>3, <1>4, <1>5, LossEngine DEF Next

LEMMA AllInv == Spec => [](TypeInv /\ OrderInv /\ LossInv)
<1>. QED
  BY TypeInvInit, TypeInvStep, OrderInvInit, OrderInvStep, LossInvInit, LossInvStep, PTL
     DEF Spec

\* A record whose loss was logged is in no buffer and never with the engine.
THEOREM LossIsFinalHolds == Spec => []LossIsFinal
<1>1. LossInv => LossIsFinal
  BY DEF LossInv
<1>. QED  BY <1>1, AllInv, PTL

\* No record disappears without a log line, except those a reader had not yet
\* offered when it left because of Stop.
THEOREM NoSilentLossHolds == Spec => []NoSilentLoss
<1>1. TypeInv /\ LossInv => NoSilentLoss
  <2> SUFFICES ASSUME TypeInv, LossInv, NEW c \in Conns, NEW k \in 1..decoded[c]
               PROVE  \/ k <= offered[c] /\ Rec(c, k) \in Held \union reported
                      \/ k > offered[c] /\ conn[c] = "enqueueing"
                      \/ k > offered[c] /\ conn[c] = "closed" /\ Quit
      BY DEF NoSilentLoss
  <2>1. offered[c] \in Nat /\ decoded[c] \in Nat /\ k \in Nat
    BY QueueAssumption DEF TypeInv, TypeOK
  <2>2. CASE k <= offered[c]
    BY <2>1, <2>2 DEF LossInv
  <2>3. CASE k > offered[c]
    BY <2>1, <2>3 DEF TypeInv, Counting
  <2>. QED  BY <2>1, <2>2, <2>3
<1>. QED  BY <1>1, AllInv, PTL
-----------------------------------------------------------------------------
(* Shutdown *)

\* After Stop closed the socket, the accept loop never goes round again.
THEOREM NoSpinHolds == Spec => NoSpin
<1>1. [Next]_vars => [~Listening /\ acceptor = "check" => acceptor' # "accept"]_vars
  <2> SUFFICES ASSUME Next, ~Listening, acceptor = "check", acceptor' = "accept"
               PROVE  FALSE
      OBVIOUS
  <2>1. CASE AcceptLoop
    BY <2>1 DEF AcceptLoop, Accept, Spawn, AcceptFails, AcceptClosed, CheckQuit, Quit, Listening
  <2>2. CASE Network \/ (\E c \in Conns : MsgReader(c))
    BY <2>2 DEF Network, Connect, PeerGone, MsgReader, ReadMessage, ReadFails, Enqueue,
                Abandon, Drop
  <2>3. CASE Engine
    BY <2>3 DEF Engine, StartCallback, Receive, ReceiveUnencodable, EmitNothing, EmitBatch,
                EngineAppend, Cleanup, netVars
  <2>4. CASE Exit
    BY <2>4 DEF Exit, CloseQuit, CloseListener, FinishExit, netVars
  <2>. QED  BY <2>1, <2>2, <2>3, <2>4 DEF Next
<1>. QED  BY <1>1, PTL DEF Spec, NoSpin
-----------------------------------------------------------------------------
(* The pipeline implements Delivery *)

LEMMA PromiseInit == Init => Promise!Init
BY DEF Init, Promise!Init

\* Records with a number up to decoded are the ones Delivery calls produced.
LEMMA ProducedRecords ==
    ASSUME TypeInv, NEW r \in Record, r.n <= offered[r.conn]
    PROVE  r \in Promise!Produced
<1>1. r.conn \in Conns /\ r.n \in 1..MaxRecords /\ r = [conn |-> r.conn, n |-> r.n]
  BY DEF Record
<1>2. offered[r.conn] \in Nat /\ decoded[r.conn] \in Nat
      /\ offered[r.conn] <= decoded[r.conn]
  BY <1>1, QueueAssumption DEF TypeInv, TypeOK, Counting
<1>3. r.n \in 1..decoded[r.conn]
  BY <1>1, <1>2, QueueAssumption
<1>. QED  BY <1>1, <1>3 DEF Promise!Produced

LEMMA PromiseReport ==
    ASSUME TypeInv, OrderInv, LossInv,
           reported \subseteq reported', UNCHANGED <<decoded, delivered>>,
           TypeInv', LossInv'
    PROVE  Promise!Report
<1>1. \A r \in reported' : r \in Promise!Produced
  <2> SUFFICES ASSUME NEW r \in reported'
               PROVE  r \in Promise!Produced
      OBVIOUS
  <2>1. r \in Record /\ r.n <= offered'[r.conn]
    BY DEF TypeInv, TypeOK, LossInv
  <2>2. r.conn \in Conns /\ r.n \in 1..MaxRecords /\ r = [conn |-> r.conn, n |-> r.n]
    BY <2>1 DEF Record
  <2>3. offered'[r.conn] \in Nat /\ decoded[r.conn] \in Nat
        /\ offered'[r.conn] <= decoded[r.conn]
    BY <2>2, QueueAssumption DEF TypeInv, TypeOK, Counting
  <2>4. r.n \in 1..decoded[r.conn]
    BY <2>1, <2>2, <2>3, QueueAssumption
  <2>. QED  BY <2>2, <2>4 DEF Promise!Produced
<1>2. \A i \in DOMAIN delivered : delivered[i] \notin reported'
  BY DEF LossInv, LossIsFinal, Held, Elems
<1>. QED  BY <1>1, <1>2 DEF Promise!Report

LEMMA PromiseDeliver ==
    ASSUME TypeInv, OrderInv, LossInv, EngineAppend, TypeInv', OrderInv', LossInv'
    PROVE  Promise!Deliver
<1>1. /\ delivered \in Seq(Record) /\ batch \in Seq(Record) /\ delivered' \in Seq(Record)
      /\ delivered' = delivered \o batch
      /\ UNCHANGED <<decoded, offered, reported>>
  BY DEF TypeInv, TypeOK, EngineAppend, readVars
<1>2. Len(delivered) <= Len(delivered')
  BY <1>1, ConcatProperties, LenProperties
<1>3. \A i \in DOMAIN delivered : delivered'[i] = delivered[i]
  BY <1>1, ConcatIndex
<1>4. ASSUME NEW i \in DOMAIN delivered'
      PROVE  delivered'[i] \in Promise!Produced \ reported
  <2>1. delivered'[i] \in Record
    BY <1>1, RecordAt
  <2>2. delivered'[i].n <= offered[delivered'[i].conn]
    BY <1>1 DEF OrderInv, Passed
  <2>3. delivered'[i] \in Promise!Produced
    BY <2>1, <2>2, ProducedRecords
  <2>4. delivered'[i] \notin reported
    BY <1>1 DEF LossInv, LossIsFinal, Held, Elems
  <2>. QED  BY <2>3, <2>4
<1>5. Promise!Ordered(delivered')
  BY DEF OrderInv, InOrder, Ordered, Promise!Ordered
<1>. QED  BY <1>1, <1>2, <1>3, <1>4, <1>5 DEF Promise!Deliver

LEMMA PromiseStep ==
    ASSUME TypeInv, OrderInv, LossInv, [Next]_vars, TypeInv', OrderInv', LossInv'
    PROVE  [Promise!Next]_(Promise!vars)
<1>1. CASE UNCHANGED <<decoded, reported, delivered>>
  BY <1>1 DEF Promise!vars
<1>2. CASE Network
  BY <1>1, <1>2 DEF Network, Connect, PeerGone, readVars, outVars
<1>3. CASE AcceptLoop
  BY <1>1, <1>3 DEF AcceptLoop, Accept, Spawn, AcceptFails, AcceptClosed, CheckQuit,
                    readVars, outVars
<1>4. ASSUME NEW c \in Conns, MsgReader(c)
      PROVE  [Promise!Next]_(Promise!vars)
  <2>1. ASSUME NEW k \in 0..MaxRecs, ReadMessage(c, k)
        PROVE  Promise!Produce
    <3>1. decoded' = [decoded EXCEPT ![c] = @ + k] /\ UNCHANGED <<reported, delivered>>
      BY <2>1 DEF ReadMessage, outVars
    <3>2. k \in Nat /\ decoded \in [Conns -> Nat]
      BY QueueAssumption DEF TypeInv, TypeOK
    <3>. QED  BY <3>1, <3>2 DEF Promise!Produce
  <2>2. CASE ReadFails(c) \/ Enqueue(c) \/ Abandon(c)
    BY <1>1, <2>2 DEF ReadFails, Enqueue, Abandon, readVars, outVars
  <2>3. CASE Drop(c)
    BY <2>3, PromiseReport DEF Drop, outVars, Promise!Next
  <2>. QED  BY <1>4, <2>1, <2>2, <2>3 DEF MsgReader, Promise!Next
<1>5. CASE Engine
  <2>1. CASE StartCallback \/ Receive \/ EmitNothing \/ EmitBatch \/ Cleanup
    BY <1>1, <2>1 DEF StartCallback, Receive, EmitNothing, EmitBatch, Cleanup, readVars
  <2>2. CASE ReceiveUnencodable
    BY <2>2, PromiseReport DEF ReceiveUnencodable, readVars, Promise!Next
  <2>3. CASE EngineAppend
    BY <2>3, PromiseDeliver DEF Promise!Next
  <2>. QED  BY <1>5, <2>1, <2>2, <2>3 DEF Engine
<1>6. CASE Exit
  BY <1>1, <1>6 DEF Exit, CloseQuit, CloseListener, FinishExit, readVars, outVars
<1>7. CASE UNCHANGED vars
  BY <1>1, <1>7 DEF vars
<1>. QED  BY <1>2, <1>3, <1>4, <1>5, <1>6, <1>7 DEF Next

\* Every behaviour of the pipeline is one Delivery allows: readers, channel,
\* batches, buffers and shutdown never deliver a record twice, out of its
\* connection's order, or after its loss was logged.
THEOREM PipelineDelivers == Spec => Delivers
<1>1. Spec => Promise!Init /\ [][Promise!Next]_(Promise!vars)
  BY PromiseInit, PromiseStep, AllInv, PTL DEF Spec
<1>. QED  BY <1>1, PTL DEF Delivers, Promise!Spec
=============================================================================
