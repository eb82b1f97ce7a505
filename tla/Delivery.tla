------------------------------ MODULE Delivery ------------------------------
(***************************************************************************)
(* What the plugin promises the log pipeline about telemetry records.      *)
(*                                                                         *)
(* Records decoded from one DCD connection are numbered in the order they  *)
(* are decoded.  A record is handed to the Fluent Bit engine at most once, *)
(* never after its loss has been reported, and never before an earlier     *)
(* record of the same connection that is handed over at all.  Nothing is   *)
(* promised about the relative order of different connections, nor that    *)
(* every record arrives.                                                   *)
(***************************************************************************)
EXTENDS Naturals, Sequences

CONSTANT Conns

VARIABLES
    decoded,    \* decoded[c]: how many records connection c has produced
    reported,   \* the records whose loss was reported
    delivered   \* the records handed to the engine, in that order

vars == <<decoded, reported, delivered>>

Produced == UNION {{[conn |-> c, n |-> k] : k \in 1..decoded[c]} : c \in Conns}

\* s lists records of each connection in the order they were decoded, none twice.
Ordered(s) ==
    \A i, j \in DOMAIN s :
        i < j /\ s[i].conn = s[j].conn => s[i].n < s[j].n

Init ==
    /\ decoded = [c \in Conns |-> 0]
    /\ reported = {}
    /\ delivered = <<>>

Produce ==
    /\ decoded' \in [Conns -> Nat]
    /\ \A c \in Conns : decoded[c] <= decoded'[c]
    /\ UNCHANGED <<reported, delivered>>

\* Losses are reported for records that exist and were not handed over.
Report ==
    /\ reported \subseteq reported'
    /\ reported' \subseteq Produced
    /\ \A i \in DOMAIN delivered : delivered[i] \notin reported'
    /\ UNCHANGED <<decoded, delivered>>

\* The engine is handed further records, behind those it already has.
Deliver ==
    /\ Len(delivered) <= Len(delivered')
    /\ \A i \in DOMAIN delivered : delivered'[i] = delivered[i]
    /\ \A i \in DOMAIN delivered' : delivered'[i] \in Produced \ reported
    /\ Ordered(delivered')
    /\ UNCHANGED <<decoded, reported>>

Next == Produce \/ Report \/ Deliver

Spec == Init /\ [][Next]_vars
=============================================================================
