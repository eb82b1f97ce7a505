----------------------------- MODULE FrameReader -----------------------------
(***************************************************************************)
(* The framing of pkg/listener's msgReader: a two-byte big-endian length   *)
(* and that many bytes, read from a TCP stream that arrives in pieces cut  *)
(* anywhere and may end anywhere.  What becomes of a message that was       *)
(* handled is in module Pipeline, which has one step for all of this.      *)
(***************************************************************************)
EXTENDS Integers, Sequences, SequencesExt

CONSTANTS
    Base,        \* values of a byte (256 in the code)
    Bodies,      \* message bodies, sequences of bytes
    MaxMessages  \* bound on the messages of the session

ASSUME BodyAssumption ==
    /\ Base \in Nat \ {0, 1}
    /\ MaxMessages \in Nat
    /\ \A b \in Bodies : b \in Seq(0..(Base - 1)) /\ Len(b) < Base * Base

VARIABLES
    sent,     \* the messages that DCD writes to the session
    arrived,  \* bytes of the stream that reached the plugin's host
    peer,     \* DCD's end of the session
    quit,     \* Listener.quit is closed
    place,    \* where msgReader is
    taken,    \* bytes it has read
    buf,      \* what the present read call has so far
    msgSize,  \* the length of the message being read
    handled   \* the messages handed to the handler

vars == <<sent, arrived, peer, quit, place, taken, buf, msgSize, handled>>
network == <<sent, arrived, peer, quit>>

Frame(b) == <<Len(b) \div Base, Len(b) % Base>> \o b

\* The stream after each message: FramesTo(messages)[k] ends where the k-th one does.
FramesTo(messages) ==
    LET to[k \in 0..Len(messages)] ==
            IF k = 0 THEN <<>> ELSE to[k - 1] \o Frame(messages[k])
    IN  to

Frames(messages) == FramesTo(messages)[Len(messages)]
Stream == Frames(sent)

Init ==
    /\ sent \in BoundedSeq(Bodies, MaxMessages)
    /\ arrived = 0
    /\ peer = "up"
    /\ quit = FALSE
    /\ place = "header"
    /\ taken = 0
    /\ buf = <<>>
    /\ msgSize = 0
    /\ handled = <<>>
-----------------------------------------------------------------------------
(* Outside of the reader *)

Arrive ==
    /\ peer = "up"
    /\ arrived' \in (arrived + 1)..Len(Stream)
    /\ UNCHANGED <<sent, peer, quit, place, taken, buf, msgSize, handled>>

\* After what has arrived the reader finds the end of the stream.
Close ==
    /\ peer = "up"
    /\ peer' = "closed"
    /\ UNCHANGED <<sent, arrived, quit, place, taken, buf, msgSize, handled>>

\* What has arrived and was not read is gone.
Reset ==
    /\ peer = "up"
    /\ peer' = "reset"
    /\ arrived' = taken
    /\ UNCHANGED <<sent, quit, place, taken, buf, msgSize, handled>>

Stop ==
    /\ ~quit
    /\ quit' = TRUE
    /\ UNCHANGED <<sent, arrived, peer, place, taken, buf, msgSize, handled>>
-----------------------------------------------------------------------------
(* msgReader *)

Need == IF place = "header" THEN 2 ELSE msgSize
Reading == place \in {"header", "body"}

\* Faulty variant: a read takes whatever has arrived.
ReadAll ==
    /\ Reading
    /\ taken < arrived
    /\ Len(buf) < Need
    /\ buf' = buf \o SubSeq(Stream, taken + 1, arrived)
    /\ taken' = arrived
    /\ UNCHANGED <<network, place, msgSize, handled>>

\* One read of the socket inside binary.Read or io.ReadFull
Read ==
    /\ Reading
    /\ \E n \in 1..(Need - Len(buf)) :
          /\ taken + n <= arrived
          /\ buf' = buf \o SubSeq(Stream, taken + 1, taken + n)
          /\ taken' = taken + n
    /\ UNCHANGED <<network, place, msgSize, handled>>

\* Faulty variant: the length is little-endian.
HeaderReadLittle ==
    /\ place = "header"
    /\ Len(buf) = 2
    /\ msgSize' = buf[1] + Base * buf[2]
    /\ place' = IF msgSize' = 0 THEN "header" ELSE "body"
    /\ buf' = <<>>
    /\ UNCHANGED <<network, taken, handled>>

\* Faulty variant: the reader returns at a message without a byte.
HeaderReadReturns ==
    /\ place = "header"
    /\ Len(buf) = 2
    /\ msgSize' = Base * buf[1] + buf[2]
    /\ place' = IF msgSize' = 0 THEN "returned" ELSE "body"
    /\ buf' = <<>>
    /\ UNCHANGED <<network, taken, handled>>

\* A message without a byte is skipped.
HeaderRead ==
    /\ place = "header"
    /\ Len(buf) = 2
    /\ msgSize' = Base * buf[1] + buf[2]
    /\ place' = IF msgSize' = 0 THEN "header" ELSE "body"
    /\ buf' = <<>>
    /\ UNCHANGED <<network, taken, handled>>

BodyRead ==
    /\ place = "body"
    /\ Len(buf) = msgSize
    /\ handled' = Append(handled, buf)
    /\ buf' = <<>>
    /\ place' = "enqueue"
    /\ UNCHANGED <<network, taken, msgSize>>

\* Whatever the handler made of the message, the reader goes on.
Enqueued ==
    /\ place = "enqueue"
    /\ place' = "header"
    /\ msgSize' = 0
    /\ UNCHANGED <<network, taken, buf, handled>>

\* A record met the closed quit channel.
Abandon ==
    /\ place = "enqueue"
    /\ quit
    /\ place' = "returned"
    /\ UNCHANGED <<network, taken, buf, msgSize, handled>>

\* io.EOF, io.ErrUnexpectedEOF or a reset: a message cut short is dropped.
ReadFails ==
    /\ Reading
    /\ peer # "up"
    /\ taken = arrived
    /\ Len(buf) < Need
    /\ place' = "returned"
    /\ buf' = <<>>
    /\ UNCHANGED <<network, taken, msgSize, handled>>

Reader == Read \/ HeaderRead \/ BodyRead \/ Enqueued \/ Abandon \/ ReadFails

Next == Arrive \/ Close \/ Reset \/ Stop \/ Reader

Spec == Init /\ [][Next]_vars

\* The runtime schedules a goroutine that can go on.
FairSpec == Spec /\ WF_vars(Reader)
-----------------------------------------------------------------------------
\* No read takes a byte beyond the header or the message it is for.
TypeOK ==
    /\ sent \in Seq(Bodies) /\ Len(sent) <= MaxMessages
    /\ arrived \in taken..Len(Stream)
    /\ peer \in {"up", "closed", "reset"}
    /\ quit \in BOOLEAN
    /\ place \in {"header", "body", "enqueue", "returned"}
    /\ taken \in 0..Len(Stream)
    /\ buf \in Seq(0..(Base - 1)) /\ (Reading => Len(buf) <= Need)
    /\ msgSize \in 0..(Base * Base - 1)

\* However the stream is cut into pieces and wherever it ends, the handler gets what
\* DCD wrote, message by message: the reader never loses its place in the stream.
Feed == INSTANCE MessageFeed WITH sent <- sent, handled <- handled
Reads == Feed!Spec

\* A message that arrived whole is handled, behind empty ones and with nothing
\* following, unless the session was reset or the plugin stops.
HandledAll ==
    \A k \in 1..MaxMessages :
        LET first == IF k <= Len(sent) THEN SubSeq(sent, 1, k) ELSE <<>>
        IN  k <= Len(sent) /\ arrived >= Len(Frames(first))
            ~> Len(handled) >= Len(Feed!WholeOf(first)) \/ peer = "reset" \/ quit
=============================================================================
