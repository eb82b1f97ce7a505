----------------------------- MODULE MessageFeed -----------------------------
(***************************************************************************)
(* What a TCP session from DCD is to the decoders: the messages DCD wrote, *)
(* in its order, each whole and none twice, up to some point; messages     *)
(* without a byte are left out.                                            *)
(***************************************************************************)
EXTENDS Naturals, Sequences

CONSTANT Bodies  \* message bodies, sequences of bytes

VARIABLES
    sent,     \* the messages that DCD writes
    handled   \* the messages that the handler got

vars == <<sent, handled>>

\* A message without a byte adds nothing to what the handler got.
With(got, b) == IF b = <<>> THEN got ELSE Append(got, b)

\* WholeTo(messages)[k]: those of the first k messages that have a byte
WholeTo(messages) ==
    LET to[k \in 0..Len(messages)] ==
            IF k = 0 THEN <<>> ELSE With(to[k - 1], messages[k])
    IN  to

WholeOf(messages) == WholeTo(messages)[Len(messages)]
Whole == WholeOf(sent)

Init == sent \in Seq(Bodies) /\ handled = <<>>

Handle ==
    /\ Len(handled) < Len(Whole)
    /\ handled' = Append(handled, Whole[Len(handled) + 1])
    /\ UNCHANGED sent

Spec == Init /\ [][Handle]_vars
=============================================================================
