-------------------------------- MODULE Tables --------------------------------
(***************************************************************************)
(* Induction over the natural numbers for sets, and the tables that the    *)
(* models fill one entry after the other: what the proofs about the stream *)
(* of messages and about the lists of an instance rest on.                 *)
(***************************************************************************)
EXTENDS Integers, Sequences, WellFoundedInduction, SequenceTheorems, TLAPS

\* A set of natural numbers has a least one.
LEMMA Least ==
    ASSUME NEW T, T \subseteq Nat, T # {}
    PROVE  \E x \in T : \A y \in T : x <= y
<1>1. PICK x \in T : \A y \in T : ~(y < x)
  <2> DEFINE Before == OpToRel(<, Nat)
  <2>1. \A y, z \in Nat : y < z => <<y, z>> \in Before
    BY ZenonT(30) DEF OpToRel
  <2>2. IsWellFoundedOn(Before, Nat)
    BY NatLessThanWellFounded
  <2> HIDE DEF Before
  <2>3. \E z \in T : \A y \in T : ~(<<y, z>> \in Before)
    BY <2>2, WFMin
  <2>4. QED
    BY <2>1, <2>3
<1>2. \A y \in T : x \in Nat /\ y \in Nat
  BY <1>1
<1>3. QED
  BY <1>1, <1>2

\* A set with 0 and the successor of each member has every natural number: the
\* least number it lacks would be 0 or the successor of a member.
LEMMA Induction ==
    ASSUME NEW T, 0 \in T, \A n \in Nat : n \in T => n + 1 \in T
    PROVE  Nat \subseteq T
<1>1. SUFFICES ASSUME Nat \ T # {} PROVE FALSE
  OBVIOUS
<1>2. PICK x \in Nat \ T : \A y \in Nat \ T : x <= y
  <2>1. Nat \ T \subseteq Nat
    OBVIOUS
  <2>2. QED
    BY <1>1, <2>1, Least
<1>3. x # 0
  BY <1>2
<1>4. x - 1 \in Nat /\ x = (x - 1) + 1 /\ ~(x <= x - 1)
  BY <1>2, <1>3
<1>5. x - 1 \in Nat \ T
  BY <1>2, <1>4
<1>6. QED
  BY <1>2, <1>4, <1>5

\* A set of numbers up to n has a greatest one.
LEMMA Greatest ==
    ASSUME NEW n \in Nat, NEW T, T \subseteq 1..n, T # {}
    PROVE  \E x \in T : \A y \in T : y <= x
<1> DEFINE U == {m \in Nat : \A y \in T : y <= m}
<1>1. n \in U
  OBVIOUS
<1>2. PICK x \in U : \A m \in U : x <= m
  <2>1. U \subseteq Nat /\ U # {}
    BY <1>1
  <2> HIDE DEF U
  <2>2. QED
    BY <2>1, Least
<1>3. PICK z \in T : z \in 1..n
  OBVIOUS
<1>4. x >= 1
  BY <1>2, <1>3
<1>5. x \in T
  <2>1. SUFFICES ASSUME x \notin T PROVE FALSE
    OBVIOUS
  <2>2. x - 1 \in Nat /\ ~(x <= x - 1)
    BY <1>2, <1>4
  <2>3. ASSUME NEW y \in T PROVE y <= x - 1
    <3>1. y \in 1..n /\ y <= x /\ y # x /\ x \in Nat
      BY <1>2, <2>1
    <3>2. QED
      BY <3>1
  <2>4. x - 1 \in U
    BY <2>2, <2>3
  <2>5. QED
    BY <1>2, <2>2, <2>4
<1>6. QED
  BY <1>2, <1>5

\* The entries of two sequences one behind the other
LEMMA Concatenation ==
    ASSUME NEW S, NEW s \in Seq(S), NEW t \in Seq(S)
    PROVE  /\ s \o t \in Seq(S)
           /\ Len(s \o t) = Len(s) + Len(t)
           /\ \A i \in 1..Len(s) : (s \o t)[i] = s[i]
           /\ \A i \in 1..Len(t) : (s \o t)[Len(s) + i] = t[i]
OBVIOUS

\* The n entries of a sequence behind its first m
LEMMA Piece ==
    ASSUME NEW S, NEW s \in Seq(S), NEW m \in Nat, NEW n \in Nat, m + n <= Len(s)
    PROVE  /\ SubSeq(s, m + 1, m + n) \in Seq(S)
           /\ Len(SubSeq(s, m + 1, m + n)) = n
           /\ \A i \in 1..n : SubSeq(s, m + 1, m + n)[i] = s[m + i]
<1>1. \A i \in (m + 1)..(m + n) : s[i] \in S
  OBVIOUS
<1>2. m + 1 \in Int /\ m + n \in Int
  OBVIOUS
<1> DEFINE piece == SubSeq(s, m + 1, m + n)
<1>3. /\ piece \in Seq(S)
      /\ Len(piece) = IF m + 1 <= m + n THEN (m + n) - (m + 1) + 1 ELSE 0
      /\ \A i \in 1..((m + n) - (m + 1) + 1) : piece[i] = s[(m + 1) + i - 1]
  BY <1>1, <1>2, SubSeqProperties
<1> HIDE DEF piece
<1>4. (m + n) - (m + 1) + 1 = n /\ \A i \in 1..n : (m + 1) + i - 1 = m + i
  OBVIOUS
<1>5. Len(piece) = n
  BY <1>3
<1>6. \A i \in 1..n : piece[i] = s[m + i]
  BY <1>3, <1>4, Zenon
<1>7. QED
  BY <1>3, <1>5, <1>6 DEF piece

\* A table that starts at x and whose next entry is a function of the entry before it
\* and of its index.
IsTable(t, n, x, next) ==
    /\ DOMAIN t = 0..n
    /\ t[0] = x
    /\ \A k \in 1..n : t[k] = next[<<k, t[k - 1]>>]

\* There is such a table, of any length, and its entries are of one type.
LEMMA TableExists ==
    ASSUME NEW N \in Nat, NEW V, NEW x \in V, NEW next \in [(1..N) \X V -> V]
    PROVE  \E t \in [0..N -> V] : IsTable(t, N, x, next)
<1> DEFINE Filled(n) == n <= N => \E t \in [0..n -> V] : IsTable(t, n, x, next)
<1> DEFINE T == {n \in Nat : Filled(n)}
<1>1. 0 \in T
  <2>1. [k \in 0..0 |-> x] \in [0..0 -> V] /\ IsTable([k \in 0..0 |-> x], 0, x, next)
    BY DEF IsTable
  <2>2. QED
    BY <2>1
<1>2. ASSUME NEW n \in Nat, n \in T PROVE n + 1 \in T
  <2>1. SUFFICES ASSUME n + 1 <= N
                 PROVE  \E t \in [0..(n + 1) -> V] : IsTable(t, n + 1, x, next)
    BY <1>2
  <2>2. PICK t \in [0..n -> V] : IsTable(t, n, x, next)
    BY <1>2, <2>1
  <2> DEFINE u == [k \in 0..(n + 1) |-> IF k = n + 1 THEN next[<<n + 1, t[n]>>] ELSE t[k]]
  <2>3. next[<<n + 1, t[n]>>] \in V
    BY <2>1, <2>2
  <2>4. u \in [0..(n + 1) -> V]
    BY <2>2, <2>3
  <2>5. u[0] = x
    BY <2>2 DEF IsTable
  <2>6. ASSUME NEW k \in 1..(n + 1) PROVE u[k] = next[<<k, u[k - 1]>>]
    <3>1. CASE k = n + 1
      <4>1. k - 1 = n /\ n \in 0..(n + 1) /\ n # n + 1 /\ n + 1 \in 0..(n + 1)
        BY <3>1
      <4>2. u[n + 1] = next[<<n + 1, t[n]>>] /\ u[n] = t[n]
        BY <4>1
      <4>3. QED
        BY <3>1, <4>1, <4>2
    <3>2. CASE k # n + 1
      <4>1. k \in 1..n /\ k - 1 \in 0..n
        BY <3>2
      <4>2. u[k] = t[k] /\ u[k - 1] = t[k - 1]
        BY <4>1
      <4>3. QED
        BY <2>2, <4>1, <4>2 DEF IsTable
    <3>3. QED
      BY <3>1, <3>2
  <2>7. IsTable(u, n + 1, x, next)
    BY <2>4, <2>5, <2>6 DEF IsTable
  <2>8. QED
    BY <2>4, <2>7
<1>3. N \in T
  <2> HIDE DEF T
  <2>1. QED
    BY <1>1, <1>2, Induction
<1>4. QED
  BY <1>3
=============================================================================
