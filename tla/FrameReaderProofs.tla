--------------------------- MODULE FrameReaderProofs ---------------------------
(***************************************************************************)
(* Theorems about module FrameReader, for any bytes, message bodies and    *)
(* length of the session: the type invariant and the refinement of module  *)
(* MessageFeed.                                                             *)
(***************************************************************************)
EXTENDS FrameReader, Tables

Byte == 0..(Base - 1)
-----------------------------------------------------------------------------
(* Frames *)

\* The two digits of a number below Base * Base are bytes and make the number again.
LEMMA Digits ==
    ASSUME NEW n \in Nat, n < Base * Base,
           NEW q, q = n \div Base,
           NEW r, r = n % Base
    PROVE  q \in Byte /\ r \in Byte /\ Base * q + r = n
<1>1. Base \in Nat /\ Base > 1
  BY BodyAssumption
<1>2. q \in Int /\ r \in 0..(Base - 1) /\ n = Base * q + r
  BY <1>1
<1>3. q >= 0
  <2>1. SUFFICES ASSUME q <= -1 PROVE FALSE
    BY <1>2
  <2>2. Base * q <= -Base
    BY <2>1, <1>1, <1>2, SMTT(30)
  <2>3. QED
    BY <2>2, <1>1, <1>2
<1>4. q < Base
  <2>1. SUFFICES ASSUME q >= Base PROVE FALSE
    BY <1>1, <1>2
  <2>2. Base * q >= Base * Base
    BY <2>1, <1>1, <1>2, SMTT(30)
  <2>3. QED
    BY <2>2, <1>1, <1>2
<1>5. QED
  BY <1>1, <1>2, <1>3, <1>4 DEF Byte

LEMMA FrameForm ==
    ASSUME NEW b \in Bodies
    PROVE  /\ b \in Seq(Byte)
           /\ Frame(b) \in Seq(Byte)
           /\ Len(Frame(b)) = Len(b) + 2
           /\ Base * Frame(b)[1] + Frame(b)[2] = Len(b)
           /\ \A i \in 1..Len(b) : Frame(b)[2 + i] = b[i]
<1>1. b \in Seq(Byte) /\ Len(b) \in Nat /\ Len(b) < Base * Base
  BY BodyAssumption DEF Byte
<1>2. PICK q, r : q = Len(b) \div Base /\ r = Len(b) % Base
  OBVIOUS
<1>3. Frame(b) = <<q, r>> \o b
  BY <1>2 DEF Frame
<1>9. q \in Byte /\ r \in Byte /\ Base * q + r = Len(b)
  BY <1>1, <1>2, Digits
<1>4. <<q, r>> \in Seq(Byte)
  BY <1>9
<1>5. Frame(b) \in Seq(Byte) /\ Len(Frame(b)) = Len(b) + 2
  BY <1>1, <1>3, <1>4
<1>6. Frame(b)[1] = q /\ Frame(b)[2] = r /\ \A i \in 1..Len(b) : Frame(b)[2 + i] = b[i]
  BY <1>1, <1>3, <1>4
<1>7. QED
  BY <1>9, <1>1, <1>5, <1>6

\* The entries of the table are the ones its definition says: it exists, for a sequence
\* of messages of any length.
LEMMA FramesToForm ==
    ASSUME NEW messages \in Seq(Bodies)
    PROVE  /\ FramesTo(messages) \in [0..Len(messages) -> Seq(Byte)]
           /\ FramesTo(messages)[0] = <<>>
           /\ \A k \in 1..Len(messages) :
                 FramesTo(messages)[k] = FramesTo(messages)[k - 1] \o Frame(messages[k])
<1> DEFINE N == Len(messages)
           V == Seq(Byte)
           next == [p \in (1..N) \X V |-> p[2] \o Frame(messages[p[1]])]
           Defines(t) == t = [k \in 0..N |-> IF k = 0 THEN <<>> ELSE t[k - 1] \o Frame(messages[k])]
<1>1. N \in Nat /\ \A k \in 1..N : messages[k] \in Bodies
  OBVIOUS
<1>2. ASSUME NEW k \in 1..N, NEW v \in V PROVE v \o Frame(messages[k]) \in V
  BY <1>1, FrameForm
<1>3. next \in [(1..N) \X V -> V]
  BY <1>2
<1>4. \A k \in 1..N, v \in V : next[<<k, v>>] = v \o Frame(messages[k])
  OBVIOUS
<1>5. <<>> \in V
  OBVIOUS
<1> HIDE DEF next, V
<1>6. PICK t \in [0..N -> V] : IsTable(t, N, <<>>, next)
  BY <1>1, <1>3, <1>5, TableExists
<1>7. ASSUME NEW k \in 1..N PROVE t[k] = t[k - 1] \o Frame(messages[k])
  <2>1. k - 1 \in 0..N
    BY <1>1
  <2>2. t[k] = next[<<k, t[k - 1]>>]
    BY <1>6 DEF IsTable
  <2>3. QED
    BY <1>4, <1>6, <2>1, <2>2
<1>8. Defines(t)
  <2>1. t[0] = <<>>
    BY <1>6 DEF IsTable
  <2>2. \A k \in 0..N : t[k] = IF k = 0 THEN <<>> ELSE t[k - 1] \o Frame(messages[k])
    BY <1>1, <1>7, <2>1
  <2>3. t = [k \in 0..N |-> t[k]]
    BY <1>6
  <2>4. QED
    BY <2>2, <2>3
<1>9. Defines(FramesTo(messages))
  BY <1>8 DEF FramesTo
<1>10. ASSUME NEW f, Defines(f)
       PROVE  /\ f[0] = <<>>
              /\ \A k \in 1..N : f[k] = f[k - 1] \o Frame(messages[k])
              /\ DOMAIN f = 0..N
  <2>1. f = [k \in 0..N |-> IF k = 0 THEN <<>> ELSE f[k - 1] \o Frame(messages[k])]
    BY <1>10
  <2>2. QED
    BY <1>1, <2>1
<1> DEFINE F == FramesTo(messages)
<1>11. F[0] = <<>> /\ DOMAIN F = 0..N /\ \A k \in 1..N : F[k] = F[k - 1] \o Frame(messages[k])
  BY <1>9, <1>10
<1>12. \A n \in Nat : n <= N => F[n] \in V
  <2> HIDE DEF F
  <2> DEFINE T == {n \in Nat : n <= N => F[n] \in V}
  <2>1. 0 \in T
    BY <1>5, <1>11
  <2>2. ASSUME NEW n \in Nat, n \in T PROVE n + 1 \in T
    <3>1. SUFFICES ASSUME n + 1 <= N PROVE F[n + 1] \in V
      OBVIOUS
    <3>2. n + 1 \in 1..N /\ (n + 1) - 1 = n /\ F[n] \in V
      BY <1>1, <2>2, <3>1
    <3>3. F[n + 1] = F[n] \o Frame(messages[n + 1])
      BY <1>11, <3>2
    <3>4. QED
      BY <1>2, <3>2, <3>3
  <2> HIDE DEF T
  <2>3. Nat \subseteq T
    BY <2>1, <2>2, Induction
  <2>4. QED
    BY <2>3 DEF T
<1>13. F = [k \in 0..N |-> IF k = 0 THEN <<>> ELSE F[k - 1] \o Frame(messages[k])]
  BY <1>9
<1>14. F \in [0..N -> V]
  <2> HIDE DEF F
  <2>1. \A k \in 0..N : F[k] \in V
    BY <1>1, <1>12
  <2>2. F = [k \in 0..N |-> F[k]]
    BY <1>13
  <2>3. QED
    BY <2>1, <2>2
<1>15. QED
  BY <1>11, <1>14 DEF V

\* What the stream holds after one message it still holds after any later one.
LEMMA FramesGrow ==
    ASSUME NEW messages \in Seq(Bodies), NEW j \in 0..Len(messages), NEW k \in j..Len(messages)
    PROVE  /\ Len(FramesTo(messages)[j]) <= Len(FramesTo(messages)[k])
           /\ \A i \in 1..Len(FramesTo(messages)[j]) :
                 FramesTo(messages)[k][i] = FramesTo(messages)[j][i]
<1> DEFINE N == Len(messages)
           F == FramesTo(messages)
           Holds(n) == /\ Len(F[j]) <= Len(F[j + n])
                       /\ \A i \in 1..Len(F[j]) : F[j + n][i] = F[j][i]
           T == {n \in Nat : j + n <= N => Holds(n)}
<1>1. N \in Nat /\ \A n \in 1..N : messages[n] \in Bodies
  OBVIOUS
<1>2. /\ F \in [0..N -> Seq(Byte)]
      /\ \A n \in 1..N : F[n] = F[n - 1] \o Frame(messages[n])
  BY FramesToForm
<1> HIDE DEF F
<1>3. 0 \in T
  BY <1>1, <1>2
<1>4. ASSUME NEW n \in Nat, n \in T PROVE n + 1 \in T
  <2>1. SUFFICES ASSUME j + (n + 1) <= N PROVE Holds(n + 1)
    OBVIOUS
  <2>2. Holds(n)
    BY <1>1, <1>4, <2>1
  <2>3. /\ j + (n + 1) \in 1..N /\ (j + (n + 1)) - 1 = j + n
        /\ j + n \in 0..N
    BY <1>1, <2>1
  <2>4. F[j + (n + 1)] = F[j + n] \o Frame(messages[j + (n + 1)])
    BY <1>2, <2>3
  <2>5. F[j + n] \in Seq(Byte) /\ F[j] \in Seq(Byte)
    BY <1>1, <1>2, <2>3
  <2>6. Frame(messages[j + (n + 1)]) \in Seq(Byte)
    BY <1>1, <2>3, FrameForm
  <2>7. /\ Len(F[j + n]) <= Len(F[j + (n + 1)])
        /\ \A i \in 1..Len(F[j + n]) : F[j + (n + 1)][i] = F[j + n][i]
    <3>1. PICK s, t : s = F[j + n] /\ t = Frame(messages[j + (n + 1)])
      OBVIOUS
    <3>2. s \in Seq(Byte) /\ t \in Seq(Byte) /\ F[j + (n + 1)] = s \o t
      BY <2>4, <2>5, <2>6, <3>1
    <3>3. /\ Len(s \o t) = Len(s) + Len(t) /\ Len(s) \in Nat /\ Len(t) \in Nat
          /\ \A i \in 1..Len(s) : (s \o t)[i] = s[i]
      BY <3>2, Concatenation
    <3>4. Len(s) <= Len(s \o t)
      BY <3>3
    <3>5. QED
      BY <3>1, <3>2, <3>3, <3>4, Zenon
  <2>8. QED
    BY <2>2, <2>5, <2>7
<1> HIDE DEF T
<1>5. k - j \in T
  BY <1>1, <1>3, <1>4, Induction
<1>6. k - j \in Nat /\ j + (k - j) = k
  BY <1>1
<1>7. QED
  BY <1>1, <1>5, <1>6 DEF T, F

\* Where a message is in the stream: its header at the end of the ones before it.
LEMMA MessageInStream ==
    ASSUME NEW messages \in Seq(Bodies), NEW k \in 0..(Len(messages) - 1)
    PROVE  LET at == Len(FramesTo(messages)[k])
               b == messages[k + 1]
               stream == Frames(messages)
           IN  /\ stream \in Seq(Byte)
               /\ at \in Nat
               /\ Len(FramesTo(messages)[k + 1]) = at + 2 + Len(b)
               /\ at + 2 + Len(b) <= Len(stream)
               /\ Base * stream[at + 1] + stream[at + 2] = Len(b)
               /\ \A i \in 1..Len(b) : stream[at + 2 + i] = b[i]
<1> DEFINE N == Len(messages)
           F == FramesTo(messages)
           b == messages[k + 1]
           at == Len(F[k])
<1>1. N \in Nat /\ k + 1 \in 1..N /\ (k + 1) - 1 = k /\ N \in (k + 1)..N /\ N \in 0..N
  OBVIOUS
<1>2. /\ F \in [0..N -> Seq(Byte)]
      /\ F[k + 1] = F[k] \o Frame(b)
  <2>1. \A n \in 1..N : F[n] = F[n - 1] \o Frame(messages[n])
    BY FramesToForm
  <2>2. QED
    BY <1>1, <2>1, FramesToForm
<1>3. b \in Bodies
  BY <1>1
<1>4. /\ b \in Seq(Byte)
      /\ Frame(b) \in Seq(Byte)
      /\ Len(Frame(b)) = Len(b) + 2
      /\ Base * Frame(b)[1] + Frame(b)[2] = Len(b)
      /\ \A i \in 1..Len(b) : Frame(b)[2 + i] = b[i]
  BY <1>3, FrameForm
<1>5. /\ Len(F[k + 1]) <= Len(F[N])
      /\ \A i \in 1..Len(F[k + 1]) : F[N][i] = F[k + 1][i]
  <2>1. k + 1 \in 0..N
    BY <1>1
  <2>2. QED
    BY <1>1, <2>1, FramesGrow
<1>6. Frames(messages) = F[N]
  BY DEF Frames
<1> HIDE DEF F, b
<1>7. PICK before, through, stream, frame :
        before = F[k] /\ through = F[k + 1] /\ stream = F[N] /\ frame = Frame(b)
  OBVIOUS
<1>8. /\ before \in Seq(Byte) /\ through = before \o frame /\ stream \in Seq(Byte)
      /\ Len(through) <= Len(stream)
      /\ \A i \in 1..Len(through) : stream[i] = through[i]
  <2>1. F[k] \in Seq(Byte) /\ F[N] \in Seq(Byte)
    <3>1. k \in 0..N /\ N \in 0..N
      BY <1>1
    <3>2. QED
      BY <1>2, <3>1, Zenon
  <2>2. QED
    BY <1>2, <1>5, <1>7, <2>1, Zenon
<1>9. /\ b \in Seq(Byte) /\ frame \in Seq(Byte) /\ Len(frame) = Len(b) + 2
      /\ Base * frame[1] + frame[2] = Len(b)
      /\ \A i \in 1..Len(b) : frame[2 + i] = b[i]
  BY <1>4, <1>7
<1>10. /\ Len(before) \in Nat /\ Len(b) \in Nat
       /\ Len(through) = Len(before) + 2 + Len(b)
       /\ \A i \in 1..(Len(b) + 2) : through[Len(before) + i] = frame[i]
  <2>1. Len(before) \in Nat /\ Len(b) \in Nat /\ Len(through) = Len(before) + Len(frame)
    <3>1. \A x \in Seq(Byte) : Len(x) \in Nat
      OBVIOUS
    <3>2. QED
      BY <1>8, <1>9, <3>1, Concatenation, Zenon
  <2>2. \A i \in 1..Len(frame) : through[Len(before) + i] = frame[i]
    BY <1>8, <1>9, Concatenation
  <2>3. QED
    BY <1>9, <2>1, <2>2
<1>11. \A i \in 1..(Len(b) + 2) : stream[Len(before) + i] = frame[i]
  BY <1>8, <1>10
<1>12. stream[Len(before) + 1] = frame[1] /\ stream[Len(before) + 2] = frame[2]
  BY <1>10, <1>11
<1>13. \A i \in 1..Len(b) : stream[Len(before) + 2 + i] = b[i]
  <2>1. TAKE i \in 1..Len(b)
  <2>2. 2 + i \in 1..(Len(b) + 2) /\ Len(before) + (2 + i) = Len(before) + 2 + i
    BY <1>10
  <2>3. stream[Len(before) + (2 + i)] = frame[2 + i]
    BY <1>11, <2>2
  <2>4. QED
    BY <1>9, <2>2, <2>3
<1>14. Base * stream[Len(before) + 1] + stream[Len(before) + 2] = Len(b)
  BY <1>9, <1>12, Zenon
<1>15. Len(before) + 2 + Len(b) <= Len(stream)
  BY <1>8, <1>10
<1>16. QED
  BY <1>6, <1>7, <1>8, <1>10, <1>13, <1>14, <1>15, Zenon DEF F, b
-----------------------------------------------------------------------------
(* The messages that have a byte *)

\* The entries of the feed's table are the ones its definition says.
LEMMA WholeToForm ==
    ASSUME NEW messages \in Seq(Bodies)
    PROVE  /\ Feed!WholeTo(messages) \in [0..Len(messages) -> Seq(Bodies)]
           /\ Feed!WholeTo(messages)[0] = <<>>
           /\ \A k \in 1..Len(messages) :
                 Feed!WholeTo(messages)[k] = Feed!With(Feed!WholeTo(messages)[k - 1], messages[k])
<1> DEFINE N == Len(messages)
           V == Seq(Bodies)
           next == [p \in (1..N) \X V |-> Feed!With(p[2], messages[p[1]])]
           Defines(t) == t = [k \in 0..N |-> IF k = 0 THEN <<>> ELSE Feed!With(t[k - 1], messages[k])]
<1>1. N \in Nat /\ \A k \in 1..N : messages[k] \in Bodies
  OBVIOUS
<1>2. ASSUME NEW k \in 1..N, NEW v \in V PROVE Feed!With(v, messages[k]) \in V
  BY <1>1 DEF Feed!With
<1>3. next \in [(1..N) \X V -> V]
  BY <1>2
<1>4. \A k \in 1..N, v \in V : next[<<k, v>>] = Feed!With(v, messages[k])
  OBVIOUS
<1>5. <<>> \in V
  OBVIOUS
<1> HIDE DEF next, V
<1>6. PICK t \in [0..N -> V] : IsTable(t, N, <<>>, next)
  BY <1>1, <1>3, <1>5, TableExists
<1>7. ASSUME NEW k \in 1..N PROVE t[k] = Feed!With(t[k - 1], messages[k])
  <2>1. k - 1 \in 0..N
    BY <1>1
  <2>2. t[k] = next[<<k, t[k - 1]>>]
    BY <1>6 DEF IsTable
  <2>3. QED
    BY <1>4, <1>6, <2>1, <2>2
<1>8. Defines(t)
  <2>1. t[0] = <<>>
    BY <1>6 DEF IsTable
  <2>2. \A k \in 0..N : t[k] = IF k = 0 THEN <<>> ELSE Feed!With(t[k - 1], messages[k])
    BY <1>1, <1>7, <2>1
  <2>3. t = [k \in 0..N |-> t[k]]
    BY <1>6
  <2>4. QED
    BY <2>2, <2>3
<1>9. Defines(Feed!WholeTo(messages))
  BY <1>8 DEF Feed!WholeTo
<1>10. ASSUME NEW f, Defines(f)
       PROVE  /\ f[0] = <<>>
              /\ \A k \in 1..N : f[k] = Feed!With(f[k - 1], messages[k])
              /\ f = [k \in 0..N |-> f[k]]
  <2>1. f = [k \in 0..N |-> IF k = 0 THEN <<>> ELSE Feed!With(f[k - 1], messages[k])]
    BY <1>10
  <2>2. QED
    BY <1>1, <2>1
<1> DEFINE F == Feed!WholeTo(messages)
<1>11. /\ F[0] = <<>> /\ F = [k \in 0..N |-> F[k]]
       /\ \A k \in 1..N : F[k] = Feed!With(F[k - 1], messages[k])
  BY <1>9, <1>10
<1>12. \A n \in Nat : n <= N => F[n] \in V
  <2> HIDE DEF F
  <2> DEFINE T == {n \in Nat : n <= N => F[n] \in V}
  <2>1. 0 \in T
    BY <1>5, <1>11
  <2>2. ASSUME NEW n \in Nat, n \in T PROVE n + 1 \in T
    <3>1. SUFFICES ASSUME n + 1 <= N PROVE F[n + 1] \in V
      OBVIOUS
    <3>2. n + 1 \in 1..N /\ (n + 1) - 1 = n /\ F[n] \in V
      BY <1>1, <2>2, <3>1
    <3>3. F[n + 1] = Feed!With(F[n], messages[n + 1])
      BY <1>11, <3>2
    <3>4. QED
      BY <1>2, <3>2, <3>3
  <2> HIDE DEF T
  <2>3. Nat \subseteq T
    BY <2>1, <2>2, Induction
  <2>4. QED
    BY <2>3 DEF T
<1>13. F \in [0..N -> V]
  <2> HIDE DEF F
  <2>1. \A k \in 0..N : F[k] \in V
    BY <1>1, <1>12
  <2>2. QED
    BY <1>11, <2>1
<1>14. QED
  BY <1>11, <1>13 DEF V

\* What the handler got of the first messages it keeps, in front of what it gets later.
LEMMA WholeGrows ==
    ASSUME NEW messages \in Seq(Bodies), NEW j \in 0..Len(messages), NEW k \in j..Len(messages)
    PROVE  /\ Len(Feed!WholeTo(messages)[j]) <= Len(Feed!WholeTo(messages)[k])
           /\ \A i \in 1..Len(Feed!WholeTo(messages)[j]) :
                 Feed!WholeTo(messages)[k][i] = Feed!WholeTo(messages)[j][i]
<1> DEFINE N == Len(messages)
           W == Feed!WholeTo(messages)
           Holds(n) == /\ Len(W[j]) <= Len(W[j + n])
                       /\ \A i \in 1..Len(W[j]) : W[j + n][i] = W[j][i]
           T == {n \in Nat : j + n <= N => Holds(n)}
<1>1. N \in Nat /\ \A n \in 1..N : messages[n] \in Bodies
  OBVIOUS
<1>2. /\ W \in [0..N -> Seq(Bodies)]
      /\ \A n \in 1..N : W[n] = Feed!With(W[n - 1], messages[n])
  BY WholeToForm
<1> HIDE DEF W
<1>3. 0 \in T
  BY <1>1, <1>2
<1>4. ASSUME NEW n \in Nat, n \in T PROVE n + 1 \in T
  <2>1. SUFFICES ASSUME j + (n + 1) <= N PROVE Holds(n + 1)
    OBVIOUS
  <2>2. Holds(n)
    BY <1>1, <1>4, <2>1
  <2>3. /\ j + (n + 1) \in 1..N /\ (j + (n + 1)) - 1 = j + n
        /\ j + n \in 0..N
    BY <1>1, <2>1
  <2>4. W[j + (n + 1)] = Feed!With(W[j + n], messages[j + (n + 1)])
    BY <1>2, <2>3
  <2>5. W[j + n] \in Seq(Bodies) /\ W[j] \in Seq(Bodies)
    BY <1>1, <1>2, <2>3
  <2>6. messages[j + (n + 1)] \in Bodies
    BY <1>1, <2>3
  <2>7. /\ Len(W[j + n]) <= Len(W[j + (n + 1)])
        /\ \A i \in 1..Len(W[j + n]) : W[j + (n + 1)][i] = W[j + n][i]
    BY <2>4, <2>5, <2>6 DEF Feed!With
  <2>8. QED
    BY <2>2, <2>5, <2>7
<1> HIDE DEF T
<1>5. k - j \in T
  BY <1>1, <1>3, <1>4, Induction
<1>6. k - j \in Nat /\ j + (k - j) = k
  BY <1>1
<1>7. QED
  BY <1>1, <1>5, <1>6 DEF T, W
-----------------------------------------------------------------------------
(* The inductive invariant *)

Starts == FramesTo(sent)
Got == Feed!WholeTo(sent)

\* The reader is in message k + 1: what it has read ends in that message's frame, and
\* the handler got the messages before it that have a byte.
At(k) ==
    /\ handled = Got[k]
    /\ place = "header" => taken = Len(Starts[k]) + Len(buf)
    /\ place = "body" => /\ k < Len(sent)
                         /\ msgSize = Len(sent[k + 1])
                         /\ msgSize # 0
                         /\ taken = Len(Starts[k]) + 2 + Len(buf)
    /\ place = "enqueue" => taken = Len(Starts[k]) /\ buf = <<>>

\* What a read call has so far are the last bytes taken from the stream.
Latest == Reading => \A i \in 1..Len(buf) : buf[i] = Stream[taken - Len(buf) + i]

Synced == Latest /\ \E k \in 0..Len(sent) : At(k)
ReaderInv == TypeOK /\ Synced

\* The stream of a session, and where its messages start.
LEMMA StreamForm ==
    ASSUME sent \in Seq(Bodies)
    PROVE  /\ Stream \in Seq(Byte) /\ Len(Stream) \in Nat
           /\ \A k \in 0..Len(sent) : Len(Starts[k]) \in 0..Len(Stream)
           /\ Stream = Starts[Len(sent)]
           /\ Starts[0] = <<>>
<1> DEFINE N == Len(sent)
<1>1. N \in Nat /\ N \in 0..N
  OBVIOUS
<1>2. Starts \in [0..N -> Seq(Byte)] /\ Starts[0] = <<>>
  BY FramesToForm DEF Starts
<1>3. Stream = Starts[N]
  BY DEF Stream, Starts, Frames
<1>4. Stream \in Seq(Byte) /\ Len(Stream) \in Nat
  <2>1. Stream \in Seq(Byte)
    BY <1>1, <1>2, <1>3
  <2>2. QED
    BY <2>1
<1>5. ASSUME NEW k \in 0..N PROVE Len(Starts[k]) \in 0..Len(Stream)
  <2>1. k \in 0..N /\ N \in k..N
    BY <1>1
  <2>2. Len(Starts[k]) <= Len(Starts[N])
    BY <2>1, FramesGrow DEF Starts
  <2>3. Starts[k] \in Seq(Byte)
    BY <1>2
  <2>4. QED
    BY <1>3, <1>4, <2>2, <2>3
<1>6. QED
  BY <1>2, <1>3, <1>4, <1>5

LEMMA Unchanging ==
    ASSUME sent' = sent
    PROVE  Stream' = Stream /\ Starts' = Starts /\ Got' = Got
BY DEF Stream, Starts, Got

\* The steps that leave the reader alone leave it where it was.
LEMMA OutsideKeeps ==
    ASSUME ReaderInv, Arrive \/ Close \/ Reset \/ Stop
    PROVE  ReaderInv'
<1>1. sent' = sent /\ place' = place /\ taken' = taken /\ buf' = buf /\ msgSize' = msgSize /\ handled' = handled
  BY DEF Arrive, Close, Reset, Stop
<1>2. Stream' = Stream /\ Starts' = Starts /\ Got' = Got
  BY <1>1, Unchanging
<1>3. Synced'
  BY <1>1, <1>2 DEF ReaderInv, Synced, Latest, At, Reading
<1>4. TypeOK'
  <2>1. Len(Stream) \in Nat
    BY StreamForm DEF ReaderInv, TypeOK
  <2>2. Need' = Need /\ Reading' = Reading
    BY <1>1 DEF Need, Reading
  <2>3. arrived' \in taken..Len(Stream) /\ peer' \in {"up", "closed", "reset"} /\ quit' \in BOOLEAN
    <3>1. /\ arrived \in taken..Len(Stream) /\ peer \in {"up", "closed", "reset"}
          /\ quit \in BOOLEAN /\ taken \in 0..Len(Stream)
      BY DEF ReaderInv, TypeOK
    <3>2. CASE Arrive
      <4>1. /\ arrived' \in (arrived + 1)..Len(Stream) /\ peer' = peer /\ quit' = quit
        BY <3>2 DEF Arrive
      <4>2. QED
        BY <2>1, <3>1, <4>1
    <3>3. CASE Close
      <4>1. arrived' = arrived /\ peer' = "closed" /\ quit' = quit
        BY <3>3 DEF Close
      <4>2. QED
        BY <3>1, <4>1
    <3>4. CASE Reset
      <4>1. arrived' = taken /\ peer' = "reset" /\ quit' = quit
        BY <3>4 DEF Reset
      <4>2. QED
        BY <2>1, <3>1, <4>1
    <3>5. CASE Stop
      <4>1. arrived' = arrived /\ peer' = peer /\ quit' = TRUE
        BY <3>5 DEF Stop
      <4>2. QED
        BY <3>1, <4>1
    <3>6. QED
      BY <3>2, <3>3, <3>4, <3>5
  <2>4. QED
    BY <1>1, <1>2, <2>2, <2>3 DEF ReaderInv, TypeOK
<1>5. QED
  BY <1>3, <1>4 DEF ReaderInv

\* A read takes the next bytes of the stream, and no more than it lacks.
LEMMA ReadKeeps ==
    ASSUME ReaderInv, Read
    PROVE  ReaderInv'
<1>1. /\ sent' = sent /\ arrived' = arrived /\ peer' = peer /\ quit' = quit
      /\ place' = place /\ msgSize' = msgSize /\ handled' = handled /\ Reading
  BY DEF Read, network
<1>2. PICK n \in 1..(Need - Len(buf)) :
        /\ taken + n <= arrived
        /\ buf' = buf \o SubSeq(Stream, taken + 1, taken + n)
        /\ taken' = taken + n
  BY DEF Read
<1>3. Stream' = Stream /\ Starts' = Starts /\ Got' = Got /\ Need' = Need /\ Reading' = Reading
  BY <1>1, Unchanging DEF Need, Reading
<1>4. PICK piece : piece = SubSeq(Stream, taken + 1, taken + n)
  OBVIOUS
<1>5. /\ Stream \in Seq(Byte) /\ Len(Stream) \in Nat
      /\ taken \in Nat /\ arrived \in Nat /\ arrived <= Len(Stream)
      /\ buf \in Seq(Byte) /\ Len(buf) \in Nat
      /\ Need \in Nat /\ Len(buf) <= Need
  <2>1. Stream \in Seq(Byte) /\ Len(Stream) \in Nat
    BY StreamForm DEF ReaderInv, TypeOK
  <2>2. taken \in Nat /\ arrived \in Nat /\ arrived <= Len(Stream)
    BY <2>1 DEF ReaderInv, TypeOK
  <2>3. buf \in Seq(Byte) /\ Len(buf) \in Nat /\ Len(buf) <= Need
    BY <1>1 DEF ReaderInv, TypeOK, Byte
  <2>4. Base * Base \in Nat
    BY BodyAssumption
  <2>5. Need \in Nat
    BY <2>4 DEF ReaderInv, TypeOK, Need
  <2>6. QED
    BY <2>1, <2>2, <2>3, <2>5
<1>6. n \in Nat /\ n >= 1 /\ Len(buf) + n <= Need /\ taken + n <= Len(Stream)
  BY <1>2, <1>5
<1>7. /\ piece \in Seq(Byte) /\ Len(piece) = n
      /\ \A i \in 1..n : piece[i] = Stream[taken + i]
  BY <1>4, <1>5, <1>6, Piece, Zenon
<1>8. /\ buf' \in Seq(Byte) /\ Len(buf') = Len(buf) + n
      /\ \A i \in 1..Len(buf) : buf'[i] = buf[i]
      /\ \A i \in 1..n : buf'[Len(buf) + i] = piece[i]
  <2>1. buf' = buf \o piece
    BY <1>2, <1>4, Zenon
  <2>2. /\ buf \o piece \in Seq(Byte)
        /\ Len(buf \o piece) = Len(buf) + Len(piece)
        /\ \A i \in 1..Len(buf) : (buf \o piece)[i] = buf[i]
        /\ \A i \in 1..Len(piece) : (buf \o piece)[Len(buf) + i] = piece[i]
    <3>1. buf \in Seq(Byte) /\ piece \in Seq(Byte)
      BY <1>5, <1>7
    <3>2. QED
      BY ONLY <3>1
  <2>3. QED
    BY <1>7, <2>1, <2>2, Zenon
<1>9. TypeOK'
  <2>1. arrived \in (taken + n)..Len(Stream) /\ taken + n \in 0..Len(Stream) /\ Len(buf') <= Need
    BY <1>2, <1>5, <1>6, <1>8
  <2>2. QED
    BY <1>1, <1>2, <1>3, <1>8, <2>1 DEF ReaderInv, TypeOK, Byte
<1>10. Latest'
  <2>1. SUFFICES ASSUME NEW i \in 1..Len(buf')
                 PROVE  buf'[i] = Stream[taken' - Len(buf') + i]
    BY <1>3 DEF Latest
  <2>2. \A j \in 1..Len(buf) : buf[j] = Stream[taken - Len(buf) + j]
    BY <1>1 DEF ReaderInv, Synced, Latest
  <2>3. taken' - Len(buf') + i = taken - Len(buf) + i
    BY <1>2, <1>5, <1>6, <1>8
  <2>4. CASE i \in 1..Len(buf)
    BY <1>8, <2>2, <2>3, <2>4
  <2>5. CASE i \notin 1..Len(buf)
    <3>1. PICK j \in 1..n : i = Len(buf) + j
      <4>1. i - Len(buf) \in 1..n /\ i = Len(buf) + (i - Len(buf))
        BY <1>5, <1>6, <1>8, <2>5
      <4>2. QED
        BY <4>1
    <3>2. buf'[i] = Stream[taken + j]
      BY <1>7, <1>8, <3>1
    <3>3. taken - Len(buf) + i = taken + j
      BY <1>5, <3>1
    <3>4. QED
      BY <2>3, <3>2, <3>3
  <2>6. QED
    BY <2>4, <2>5
<1>11. \E k \in 0..Len(sent) : At(k)'
  <2>1. PICK k \in 0..Len(sent) : At(k)
    BY DEF ReaderInv, Synced
  <2>2. Len(Starts[k]) \in Nat
    BY StreamForm DEF ReaderInv, TypeOK
  <2>3. place # "enqueue"
    BY <1>1 DEF Reading
  <2>4. handled' = Got'[k]
    BY <1>1, <1>3, <2>1 DEF At
  <2>5. ASSUME place = "header" PROVE taken' = Len(Starts[k]) + Len(buf')
    <3>1. taken = Len(Starts[k]) + Len(buf)
      BY <2>1, <2>5 DEF At
    <3>2. QED
      BY <1>2, <1>5, <1>6, <1>8, <2>2, <3>1
  <2>6. ASSUME place = "body"
        PROVE  /\ k < Len(sent) /\ msgSize = Len(sent[k + 1]) /\ msgSize # 0
               /\ taken' = Len(Starts[k]) + 2 + Len(buf')
    <3>1. /\ k < Len(sent) /\ msgSize = Len(sent[k + 1]) /\ msgSize # 0
          /\ taken = Len(Starts[k]) + 2 + Len(buf)
      BY <2>1, <2>6 DEF At
    <3>2. taken' = Len(Starts[k]) + 2 + Len(buf')
      BY <1>2, <1>5, <1>6, <1>8, <2>2, <3>1
    <3>3. QED
      BY <3>1, <3>2
  <2>7. At(k)'
    BY <1>1, <1>3, <2>3, <2>4, <2>5, <2>6 DEF At
  <2>8. QED
    BY <2>7
<1>12. QED
  BY <1>1, <1>9, <1>10, <1>11 DEF ReaderInv, Synced

\* Where message k + 1 of the session is in its stream.
LEMMA NextMessage ==
    ASSUME sent \in Seq(Bodies), NEW k \in 0..(Len(sent) - 1)
    PROVE  LET at == Len(Starts[k])
               b == sent[k + 1]
           IN  /\ at \in Nat /\ b \in Bodies /\ b \in Seq(Byte) /\ Len(b) \in 0..(Base * Base - 1)
               /\ Len(Starts[k + 1]) = at + 2 + Len(b)
               /\ Base * Stream[at + 1] + Stream[at + 2] = Len(b)
               /\ \A i \in 1..Len(b) : Stream[at + 2 + i] = b[i]
               /\ Got[k + 1] = Feed!With(Got[k], b)
<1>1. k + 1 \in 1..Len(sent) /\ (k + 1) - 1 = k
  OBVIOUS
<1>2. Got[k + 1] = Feed!With(Got[k], sent[k + 1])
  BY <1>1, WholeToForm DEF Got
<1>3. sent[k + 1] \in Bodies
  BY <1>1
<1>4. /\ sent[k + 1] \in Seq(Byte) /\ Len(sent[k + 1]) \in Nat
      /\ Len(sent[k + 1]) < Base * Base /\ Base * Base \in Nat
  BY <1>3, BodyAssumption DEF Byte
<1>5. Len(sent[k + 1]) \in 0..(Base * Base - 1)
  BY <1>4
<1>6. /\ Len(Starts[k]) \in Nat
      /\ Len(Starts[k + 1]) = Len(Starts[k]) + 2 + Len(sent[k + 1])
      /\ Base * Stream[Len(Starts[k]) + 1] + Stream[Len(Starts[k]) + 2] = Len(sent[k + 1])
      /\ \A i \in 1..Len(sent[k + 1]) : Stream[Len(Starts[k]) + 2 + i] = sent[k + 1][i]
  BY MessageInStream, Zenon DEF Starts, Stream
<1>7. QED
  BY <1>2, <1>3, <1>4, <1>5, <1>6, Zenon

\* The reader does not take a header where the stream has no message any more.
LEMMA HeaderReadKeeps ==
    ASSUME ReaderInv, HeaderRead
    PROVE  ReaderInv'
<1>1. /\ place = "header" /\ Len(buf) = 2
      /\ msgSize' = Base * buf[1] + buf[2]
      /\ place' = IF msgSize' = 0 THEN "header" ELSE "body"
      /\ buf' = <<>>
      /\ sent' = sent /\ arrived' = arrived /\ peer' = peer /\ quit' = quit
      /\ taken' = taken /\ handled' = handled
  BY DEF HeaderRead, network
<1>2. Stream' = Stream /\ Starts' = Starts /\ Got' = Got
  BY <1>1, Unchanging
<1>3. PICK k \in 0..Len(sent) : At(k)
  BY DEF ReaderInv, Synced
<1>4. /\ sent \in Seq(Bodies) /\ Len(sent) \in Nat
      /\ Len(Stream) \in Nat /\ Len(Starts[k]) \in Nat
      /\ Len(Starts[Len(sent)]) = Len(Stream)
      /\ taken \in Nat /\ taken <= Len(Stream) /\ taken = Len(Starts[k]) + 2
  <2>1. sent \in Seq(Bodies) /\ taken \in 0..Len(Stream)
    BY DEF ReaderInv, TypeOK
  <2>2. /\ Len(sent) \in Nat /\ Len(Stream) \in Nat /\ Len(Starts[k]) \in Nat
        /\ Len(Starts[Len(sent)]) = Len(Stream)
    BY <2>1, StreamForm
  <2>3. taken = Len(Starts[k]) + 2
    BY <1>1, <1>3 DEF At
  <2>4. QED
    BY <2>1, <2>2, <2>3
<1>5. k \in 0..(Len(sent) - 1) /\ k + 1 \in 0..Len(sent)
  <2>1. k # Len(sent)
    BY <1>4
  <2>2. QED
    BY <1>3, <1>4, <2>1
<1>6. PICK at, b : at = Len(Starts[k]) /\ b = sent[k + 1]
  OBVIOUS
<1>7. /\ at \in Nat /\ b \in Seq(Byte) /\ Len(b) \in 0..(Base * Base - 1)
      /\ Len(Starts[k + 1]) = at + 2 + Len(b)
      /\ Base * Stream[at + 1] + Stream[at + 2] = Len(b)
      /\ Got[k + 1] = Feed!With(Got[k], b)
  BY <1>4, <1>5, <1>6, NextMessage, Zenon
<1>8. buf[1] = Stream[at + 1] /\ buf[2] = Stream[at + 2]
  <2>1. \A i \in 1..2 : buf[i] = Stream[taken - 2 + i]
    BY <1>1 DEF ReaderInv, Synced, Latest, Reading
  <2>2. taken - 2 + 1 = at + 1 /\ taken - 2 + 2 = at + 2
    BY <1>4, <1>6
  <2>3. QED
    BY <2>1, <2>2
<1>9. msgSize' = Len(b)
  BY <1>1, <1>7, <1>8, Zenon
<1>10. Base * Base \in Nat /\ Len(b) \in Nat
  BY <1>7, BodyAssumption
<1>11. TypeOK'
  <2>1. buf' \in Seq(Byte) /\ Len(buf') = 0
    BY <1>1
  <2>2. Reading' => Len(buf') <= Need'
    BY <1>9, <1>10, <2>1 DEF Need
  <2>3. msgSize' \in 0..(Base * Base - 1) /\ place' \in {"header", "body", "enqueue", "returned"}
    BY <1>1, <1>7, <1>9
  <2>4. QED
    BY <1>1, <1>2, <2>1, <2>2, <2>3 DEF ReaderInv, TypeOK, Byte
<1>12. Latest'
  BY <1>1 DEF Latest
<1>13. \E j \in 0..Len(sent) : At(j)'
  <2>1. handled = Got[k] /\ Len(buf') = 0
    BY <1>1, <1>3 DEF At
  <2>2. CASE Len(b) = 0
    <3>1. place' = "header"
      BY <1>1, <1>9, <2>2
    <3>2. b = <<>>
      BY <1>7, <2>2
    <3>3. Got[k + 1] = Got[k]
      BY <1>7, <3>2 DEF Feed!With
    <3>4. taken = Len(Starts[k + 1]) + 0
      BY <1>4, <1>6, <1>7, <2>2
    <3>5. At(k + 1)'
      BY <1>1, <1>2, <2>1, <3>1, <3>3, <3>4 DEF At
    <3>6. QED
      BY <1>5, <3>5
  <2>3. CASE Len(b) # 0
    <3>1. place' = "body"
      BY <1>1, <1>9, <2>3
    <3>2. k < Len(sent) /\ taken = Len(Starts[k]) + 2 + 0
      BY <1>4, <1>5
    <3>3. At(k)'
      BY <1>1, <1>2, <1>6, <1>9, <2>1, <2>3, <3>1, <3>2 DEF At
    <3>4. QED
      BY <1>3, <3>3
  <2>4. QED
    BY <2>2, <2>3
<1>14. QED
  BY <1>1, <1>11, <1>12, <1>13 DEF ReaderInv, Synced

\* What the reader hands over is the message that is next in the session.
LEMMA BodyIsNext ==
    ASSUME ReaderInv, BodyRead, NEW k \in 0..Len(sent), At(k)
    PROVE  /\ k \in 0..(Len(sent) - 1) /\ k + 1 \in 0..Len(sent)
           /\ buf = sent[k + 1] /\ buf # <<>>
           /\ handled' = Append(Got[k], sent[k + 1]) /\ handled' = Got[k + 1]
           /\ taken = Len(Starts[k + 1])
<1>1. place = "body" /\ Len(buf) = msgSize /\ handled' = Append(handled, buf)
  BY DEF BodyRead
<1>2. /\ handled = Got[k] /\ k < Len(sent) /\ msgSize = Len(sent[k + 1]) /\ msgSize # 0
      /\ taken = Len(Starts[k]) + 2 + Len(buf)
  BY <1>1 DEF At
<1>3. sent \in Seq(Bodies) /\ Len(sent) \in Nat /\ buf \in Seq(Byte)
  BY DEF ReaderInv, TypeOK, Byte
<1>4. k \in 0..(Len(sent) - 1) /\ k + 1 \in 0..Len(sent)
  BY <1>2, <1>3
<1>5. PICK at, b : at = Len(Starts[k]) /\ b = sent[k + 1]
  OBVIOUS
<1>6. /\ at \in Nat /\ b \in Seq(Byte) /\ Len(b) \in 0..(Base * Base - 1)
      /\ Len(Starts[k + 1]) = at + 2 + Len(b)
      /\ \A i \in 1..Len(b) : Stream[at + 2 + i] = b[i]
      /\ Got[k + 1] = Feed!With(Got[k], b)
  BY <1>3, <1>4, <1>5, NextMessage, Zenon
<1>7. Len(buf) = Len(b) /\ Len(b) \in Nat
  BY <1>1, <1>2, <1>5, <1>6
<1>8. \A i \in 1..Len(b) : buf[i] = b[i]
  <2>1. \A i \in 1..Len(buf) : buf[i] = Stream[taken - Len(buf) + i]
    BY <1>1 DEF ReaderInv, Synced, Latest, Reading
  <2>2. \A i \in 1..Len(b) : taken - Len(buf) + i = at + 2 + i
    BY <1>2, <1>5, <1>6, <1>7
  <2>3. QED
    BY <1>6, <1>7, <2>1, <2>2, Zenon
<1>9. buf = b
  BY <1>3, <1>6, <1>7, <1>8, SeqEqual
<1>10. buf # <<>>
  BY <1>1, <1>2
<1>11. Got[k + 1] = Append(Got[k], b)
  BY <1>6, <1>9, <1>10 DEF Feed!With
<1>12. taken = Len(Starts[k + 1])
  BY <1>2, <1>5, <1>6, <1>7
<1>13. QED
  BY <1>1, <1>2, <1>4, <1>5, <1>9, <1>10, <1>11, <1>12, Zenon

LEMMA BodyReadKeeps ==
    ASSUME ReaderInv, BodyRead
    PROVE  ReaderInv'
<1>1. /\ buf' = <<>> /\ place' = "enqueue" /\ msgSize' = msgSize
      /\ sent' = sent /\ arrived' = arrived /\ peer' = peer /\ quit' = quit /\ taken' = taken
  BY DEF BodyRead, network
<1>2. Stream' = Stream /\ Starts' = Starts /\ Got' = Got
  BY <1>1, Unchanging
<1>3. PICK k \in 0..Len(sent) : At(k)
  BY DEF ReaderInv, Synced
<1>4. k + 1 \in 0..Len(sent) /\ handled' = Got[k + 1] /\ taken = Len(Starts[k + 1])
  BY <1>3, BodyIsNext
<1>5. At(k + 1)'
  BY <1>1, <1>2, <1>4 DEF At
<1>6. TypeOK' /\ Latest'
  BY <1>1, <1>2 DEF ReaderInv, TypeOK, Latest, Reading
<1>7. QED
  BY <1>1, <1>4, <1>5, <1>6 DEF ReaderInv, Synced

\* The steps between two messages, and the ones the reader returns by.
LEMMA BetweenKeeps ==
    ASSUME ReaderInv, Enqueued \/ Abandon \/ ReadFails
    PROVE  ReaderInv'
<1>1. /\ sent' = sent /\ arrived' = arrived /\ peer' = peer /\ quit' = quit
      /\ taken' = taken /\ handled' = handled
  BY DEF Enqueued, Abandon, ReadFails, network
<1>2. Stream' = Stream /\ Starts' = Starts /\ Got' = Got
  BY <1>1, Unchanging
<1>3. PICK k \in 0..Len(sent) : At(k)
  BY DEF ReaderInv, Synced
<1>4. CASE Enqueued
  <2>1. /\ place = "enqueue" /\ place' = "header" /\ msgSize' = 0 /\ buf' = buf
        /\ buf = <<>> /\ taken = Len(Starts[k]) /\ handled = Got[k]
    BY <1>3, <1>4 DEF Enqueued, At
  <2>2. Len(Starts[k]) \in Nat
    BY <1>3, StreamForm DEF ReaderInv, TypeOK
  <2>3. taken = Len(Starts[k]) + Len(buf)
    BY <2>1, <2>2
  <2>4. At(k)' /\ Latest'
    BY <1>1, <1>2, <2>1, <2>3 DEF At, Latest
  <2>5. 0 \in 0..(Base * Base - 1)
    BY BodyAssumption, SMTT(30)
  <2>6. TypeOK'
    BY <1>1, <1>2, <2>1, <2>5 DEF ReaderInv, TypeOK, Need
  <2>7. QED
    BY <1>1, <2>4, <2>6 DEF ReaderInv, Synced
<1>5. CASE Abandon \/ ReadFails
  <2>1. /\ place' = "returned" /\ msgSize' = msgSize /\ buf' = <<>>
    BY <1>3, <1>5 DEF Abandon, ReadFails, At
  <2>2. At(k)' /\ Latest'
    BY <1>1, <1>2, <1>3, <2>1 DEF At, Latest, Reading
  <2>3. TypeOK'
    BY <1>1, <1>2, <2>1 DEF ReaderInv, TypeOK, Reading
  <2>4. QED
    BY <1>1, <2>2, <2>3 DEF ReaderInv, Synced
<1>6. QED
  BY <1>4, <1>5

LEMMA StartOfReader ==
    ASSUME Init
    PROVE  ReaderInv
<1>1. /\ arrived = 0 /\ peer = "up" /\ quit = FALSE /\ place = "header"
      /\ taken = 0 /\ buf = <<>> /\ msgSize = 0 /\ handled = <<>>
  BY DEF Init
<1>2. sent \in Seq(Bodies) /\ Len(sent) <= MaxMessages /\ Len(sent) \in Nat
  <2>1. PICK n \in 0..MaxMessages : sent \in [1..n -> Bodies]
    BY DEF Init, BoundedSeq, SeqOf
  <2>2. n \in Nat /\ n <= MaxMessages
    BY BodyAssumption
  <2>3. QED
    BY <2>1, <2>2
<1>3. Len(Stream) \in Nat /\ Starts[0] = <<>>
  BY <1>2, StreamForm
<1>4. Got[0] = <<>>
  BY <1>2, WholeToForm DEF Got
<1>5. Base * Base - 1 \in Nat
  <2>1. Base \in Nat /\ Base > 1
    BY BodyAssumption
  <2>2. Base * Base >= Base
    BY <2>1, SMTT(30)
  <2>3. QED
    BY <2>1, <2>2
<1>6. TypeOK
  <2>1. buf \in Seq(0..(Base - 1)) /\ Len(buf) <= Need
    BY <1>1 DEF Need
  <2>2. arrived \in taken..Len(Stream) /\ taken \in 0..Len(Stream)
    BY <1>1, <1>3
  <2>3. msgSize \in 0..(Base * Base - 1)
    <3>1. PICK most : most = Base * Base - 1 /\ most \in Nat
      BY <1>5
    <3>2. msgSize \in 0..most
      BY <1>1, <3>1
    <3>3. QED
      BY <3>1, <3>2, Zenon
  <2>4. QED
    BY <1>1, <1>2, <2>1, <2>2, <2>3 DEF TypeOK
<1>7. At(0)
  BY <1>1, <1>3, <1>4 DEF At
<1>8. QED
  BY <1>1, <1>2, <1>6, <1>7 DEF ReaderInv, Synced, Latest

LEMMA StutterKeeps ==
    ASSUME ReaderInv, UNCHANGED vars
    PROVE  ReaderInv'
<1>1. /\ sent' = sent /\ arrived' = arrived /\ peer' = peer /\ quit' = quit /\ place' = place
      /\ taken' = taken /\ buf' = buf /\ msgSize' = msgSize /\ handled' = handled
  BY DEF vars
<1>2. Stream' = Stream /\ Starts' = Starts /\ Got' = Got
  BY <1>1, Unchanging
<1>3. QED
  BY <1>1, <1>2 DEF ReaderInv, TypeOK, Need, Reading, Synced, Latest, At

LEMMA Inductive ==
    ASSUME ReaderInv, [Next]_vars
    PROVE  ReaderInv'
BY OutsideKeeps, ReadKeeps, HeaderReadKeeps, BodyReadKeeps, BetweenKeeps, StutterKeeps
   DEF Next, Reader

LEMMA ReaderInvariant == Spec => []ReaderInv
<1>1. Init => ReaderInv
  BY StartOfReader
<1>2. ReaderInv /\ [Next]_vars => ReaderInv'
  BY Inductive
<1>3. QED
  BY <1>1, <1>2, PTL DEF Spec
-----------------------------------------------------------------------------
(* The theorems *)

\* msgReader's reads never take a byte beyond the header or the message they are for,
\* whatever the pieces that the stream arrives in.
THEOREM TypeCorrect == Spec => []TypeOK
<1>1. ReaderInv => TypeOK
  BY DEF ReaderInv
<1>2. QED
  BY <1>1, ReaderInvariant, PTL

\* The next message with a byte is what the feed hands over next.
LEMMA StepHandles ==
    ASSUME ReaderInv, BodyRead
    PROVE  Feed!Handle
<1>1. PICK k \in 0..Len(sent) : At(k)
  BY DEF ReaderInv, Synced
<1>2. /\ k \in 0..(Len(sent) - 1) /\ k + 1 \in 0..Len(sent)
      /\ handled' = Append(Got[k], sent[k + 1]) /\ handled' = Got[k + 1]
  BY <1>1, BodyIsNext
<1>3. sent \in Seq(Bodies) /\ Len(sent) \in Nat /\ handled = Got[k] /\ sent' = sent
  BY <1>1 DEF ReaderInv, TypeOK, At, BodyRead, network
<1>4. Got \in [0..Len(sent) -> Seq(Bodies)] /\ Feed!Whole = Got[Len(sent)]
  BY <1>3, WholeToForm DEF Got, Feed!Whole, Feed!WholeOf
<1>5. Len(sent) \in (k + 1)..Len(sent) /\ Len(sent) \in 0..Len(sent)
  BY <1>2, <1>3
<1>6. /\ Len(Got[k + 1]) <= Len(Got[Len(sent)])
      /\ \A i \in 1..Len(Got[k + 1]) : Got[Len(sent)][i] = Got[k + 1][i]
  BY <1>2, <1>3, <1>5, WholeGrows DEF Got
<1>7. PICK before, after, all : before = Got[k] /\ after = Got[k + 1] /\ all = Got[Len(sent)]
  OBVIOUS
<1>8. before \in Seq(Bodies) /\ all \in Seq(Bodies) /\ sent[k + 1] \in Bodies
  <2>1. sent[k + 1] \in Bodies
    BY <1>2, <1>3
  <2>2. QED
    BY <1>1, <1>4, <1>5, <1>7, <2>1
<1>9. after = Append(before, sent[k + 1])
  BY <1>2, <1>7, Zenon
<1>10. /\ Len(after) = Len(before) + 1 /\ Len(before) \in Nat /\ after[Len(before) + 1] = sent[k + 1]
  BY <1>8, <1>9
<1>11. Len(before) < Len(all) /\ all[Len(before) + 1] = sent[k + 1]
  <2>1. Len(after) <= Len(all) /\ \A i \in 1..Len(after) : all[i] = after[i]
    BY <1>6, <1>7, Zenon
  <2>2. Len(all) \in Nat
    BY <1>8
  <2>3. QED
    BY <1>10, <2>1, <2>2
<1>12. QED
  BY <1>2, <1>3, <1>4, <1>7, <1>11 DEF Feed!Handle

\* The framing loses, invents, repeats, splits, joins and reorders nothing: what
\* msgReader hands over are DCD's messages, in order, however the stream is cut.
THEOREM ReadsTheMessages == Spec => Reads
<1>1. Init => Feed!Init
  <2>1. SUFFICES ASSUME Init PROVE Feed!Init
    OBVIOUS
  <2>2. sent \in Seq(Bodies) /\ handled = <<>>
    <3>1. TypeOK /\ handled = <<>>
      BY <2>1, StartOfReader DEF ReaderInv, Init
    <3>2. QED
      BY <3>1 DEF TypeOK
  <2>3. QED
    BY <2>2 DEF Feed!Init
<1>2. ReaderInv /\ [Next]_vars => [Feed!Handle]_(Feed!vars)
  <2>1. SUFFICES ASSUME ReaderInv, [Next]_vars PROVE [Feed!Handle]_(Feed!vars)
    OBVIOUS
  <2>2. CASE BodyRead
    BY <2>1, <2>2, StepHandles
  <2>3. ASSUME Arrive \/ Close \/ Reset \/ Stop \/ Read \/ HeaderRead \/ Enqueued \/ Abandon \/ ReadFails
               \/ UNCHANGED vars
        PROVE  UNCHANGED <<sent, handled>>
    BY <2>3 DEF Arrive, Close, Reset, Stop, Read, HeaderRead, Enqueued, Abandon, ReadFails, network, vars
  <2>4. QED
    BY <2>1, <2>2, <2>3 DEF Next, Reader, Feed!vars
<1>3. QED
  BY <1>1, <1>2, ReaderInvariant, PTL DEF Spec, Reads, Feed!Spec
=============================================================================
