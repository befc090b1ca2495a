----------------------------- MODULE PascalSets -----------------------------
(***************************************************************************)
(* tp2cc_Set<Elem> of prelude.h: a bit per number from 0 to 255, in bytes, *)
(* whatever the element type.  A byte is the set of its bits.  The element *)
(* type only decides what number an element becomes before it is looked up *)
(* (its carrier: an unsigned or a signed C++ type of some number of        *)
(* values).                                                                *)
(***************************************************************************)
EXTENDS Integers, FiniteSets

CONSTANTS Nb,                  \* bytes of a set: 32 in the source
          ByteBits             \* bits of a byte: 8

ASSUME SetShape == Nb \in Nat \ {0} /\ ByteBits \in Nat \ {0}

Capacity == Nb * ByteBits
Bytes == SUBSET (0 .. ByteBits - 1)
Bitmaps == [0 .. Nb - 1 -> Bytes]
Zero == [i \in 0 .. Nb - 1 |-> {}]

(* What a C++ conversion to the element type makes of a number. *)
Carrier(signed, size) == [signed |-> signed, size |-> size]
idx(c, v) == LET u == v % c.size
             IN IF c.signed /\ u >= c.size \div 2 THEN u - c.size ELSE u

add(s, c, v) ==
    LET i == idx(c, v)
    IN IF i < 0 \/ i >= Capacity THEN s ELSE [s EXCEPT ![i \div ByteBits] = @ \cup {i % ByteBits}]
contains(s, c, v) ==
    LET i == idx(c, v)
    IN i >= 0 /\ i < Capacity /\ i % ByteBits \in s[i \div ByteBits]
include(s, c, v) == add(s, c, v)
exclude(s, c, v) ==
    LET i == idx(c, v)
    IN IF i < 0 \/ i >= Capacity THEN s ELSE [s EXCEPT ![i \div ByteBits] = @ \ {i % ByteBits}]

(* A set of the members that a bitmap has. *)
Members(s) == {v \in 0 .. Capacity - 1 : v % ByteBits \in s[v \div ByteBits]}

union(a, b) == [i \in DOMAIN a |-> a[i] \cup b[i]]
difference(a, b) == [i \in DOMAIN a |-> a[i] \ b[i]]
intersection(a, b) == [i \in DOMAIN a |-> a[i] \cap b[i]]
symmetric_difference(a, b) == [i \in DOMAIN a |-> (a[i] \ b[i]) \cup (b[i] \ a[i])]
set_equal(a, b) == \A i \in DOMAIN a : a[i] = b[i]
\* Mutant: only the first byte decides.
subsetOfFirstByte(a, b) == a[0] \subseteq b[0]
subset(a, b) == \A i \in DOMAIN a : a[i] \subseteq b[i]

(* [e, lo..hi]: an element is converted to the element type where it is added,
   and the bounds of a range are not: the numbers between them are. *)
literal(c, single, lo, hi) ==
    LET bits == {idx(c, single)} \cup {idx(c, v) : v \in lo .. hi}
    IN [i \in 0 .. Nb - 1 |-> {b \in 0 .. ByteBits - 1 : i * ByteBits + b \in bits}]

(* A set as a number of n bytes: member v at bit v. *)
set_to_int(s, n) ==
    LET sum[w \in SUBSET (0 .. n * ByteBits - 1)] ==
          IF w = {} THEN 0 ELSE LET v == CHOOSE x \in w : TRUE IN 2 ^ v + sum[w \ {v}]
    IN sum[Members(s) \cap (0 .. n * ByteBits - 1)]

(* for x in s: every number from the first to the last of the item's type. *)
Iterated(s, c, low, high) == {v \in low .. high : contains(s, c, v)}

(* The domain of the result of an operation on two sets: the wider operand's if
   one holds the other, else the least range that holds both.
   (bind_set_binary_operation.) *)
Holds(d, e) == d.low <= e.low /\ e.high <= d.high
result_domain(l, r) ==
    IF Holds(l, r) THEN l
    ELSE IF Holds(r, l) THEN r
    ELSE [low |-> IF l.low < r.low THEN l.low ELSE r.low, high |-> IF l.high > r.high THEN l.high ELSE r.high]
============================================================================
