---------------------------- MODULE MessageKinds ----------------------------
(***************************************************************************)
(* What encoding/json makes of a field of a generated message: the values  *)
(* that ProtoToFields can find under its key, told apart as far as the     *)
(* decoders do.  An optional field that is not set and an empty list have  *)
(* no key (omitempty).                                                     *)
(***************************************************************************)
EXTENDS Integers, TLC

\* TLC's merge and single entry, written out: where both have a key, f counts.
f ++ g == [k \in DOMAIN f \union DOMAIN g |-> IF k \in DOMAIN f THEN f[k] ELSE g[k]]
Entry(key, value) == [k \in {key} |-> value]

Strings(keys) == [k \in keys |-> {"", "text"}]
\* "large": a million or more, up to what a float64 represents exactly; "huge":
\* beyond that, for the types of 64 bits.
Numbers(keys) == [k \in keys |-> {"0", "number", "large"}]
Longs(keys)   == [k \in keys |-> {"0", "number", "large", "huge"}]
Bools(keys)   == [k \in keys |-> {"bool"}]
Lists(keys)   == [k \in keys |-> {"list"}]
Objects(keys) == [k \in keys |-> {"object"}]     \* messages and maps

\* An enumeration is its number, not its name: the generated types have no
\* MarshalJSON of their own.
Enum(numbers) == {ToString(n) : n \in numbers}

\* "nan" stands for NaN and the infinities, which JSON cannot hold.
Floats(keys) == [k \in keys |-> {"0", "number", "large", "nan"}]

\* The interface that holds a oneof has no omitempty and no name of its own: its
\* key is always there.
OneOf(cases) ==
    {"null", "object"}
    \union {v \in {"nan"} : \E c \in DOMAIN cases : \E k \in DOMAIN cases[c] : v \in cases[c][k]}
=============================================================================
