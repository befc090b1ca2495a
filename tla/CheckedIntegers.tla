-------------------------- MODULE CheckedIntegers --------------------------
(* The integers of the runtime: what the helpers a translated expression calls
   do with values of a fixed width (prelude.h).  A value is the integer it
   denotes; its type is a record of a kind and a size.  The sizes are those of
   the source, 8 to 64; Width gives each the bits it has here, so that whole
   domains can be enumerated. *)
EXTENDS Integers, FiniteSets, FiniteSetsExt, Functions

CONSTANT Width                  \* size in the source -> bits in the model

Sizes == {8, 16, 32, 64}

ASSUME WidthAssumption ==
  /\ Width \in [Sizes -> Nat \ {0}]
  /\ Width[8] < Width[16] /\ Width[16] < Width[32] /\ Width[32] < Width[64]

Types == [kind : {"signed", "unsigned"}, size : Sizes]
Signed(s) == [kind |-> "signed", size |-> s]
Unsigned(s) == [kind |-> "unsigned", size |-> s]

Bits(t) == Width[t.size]
Low(t) == IF t.kind = "signed" THEN -(2 ^ (Bits(t) - 1)) ELSE 0
High(t) == IF t.kind = "signed" THEN 2 ^ (Bits(t) - 1) - 1 ELSE 2 ^ Bits(t) - 1
Fits(v, t) == Low(t) <= v /\ v <= High(t)

(* static_cast<t>(v), and tp2cc_integer_from_bits: modulo 2^w, two's
   complement. *)
integer_from_bits(t, bits) == IF bits > High(t) THEN bits - 2 ^ Bits(t) ELSE bits
As(t, v) == integer_from_bits(t, v % 2 ^ Bits(t))

(* What a call does: it returns a value or throws. *)
Returns(v) == [value |-> v, raised |-> "none"]
Raises(e) == [value |-> 0, raised |-> e]
Fine(outcome) == outcome.raised = "none"

----------------------------------------------------------------------------
(* Arithmetic in a carrier R. *)
Exact(op, a, b) == CASE op = "add" -> a + b [] op = "sub" -> a - b [] op = "mul" -> a * b

op_checked(op, R, a, b) ==
  LET r == Exact(op, As(R, a), As(R, b)) IN
  IF ~Fits(r, R) /\ R.kind = "signed" THEN Raises("overflow") ELSE Returns(As(R, r))
wrap_op(op, R, a, b) == Returns(As(R, Exact(op, As(R, a), As(R, b))))

negate_checked(T, x) ==
  IF T.kind = "signed" /\ x = Low(T) THEN Raises("overflow") ELSE Returns(As(T, -x))
wrap_negate(T, x) == Returns(As(T, -x))

(* The quotient of C++ truncates toward zero; the remainder has the sign of
   the dividend. *)
Abs(x) == IF x < 0 THEN -x ELSE x
Truncated(a, b) == LET q == Abs(a) \div Abs(b) IN IF (a < 0) = (b < 0) THEN q ELSE -q

int_div(R, check_overflow, a0, b0) ==
  LET a == As(R, a0) b == As(R, b0) IN
  IF b = 0 THEN Raises("div by zero")
  ELSE IF R.kind = "signed" /\ a = Low(R) /\ b = -1
       THEN IF check_overflow THEN Raises("overflow") ELSE Returns(a)
       ELSE Returns(As(R, Truncated(a, b)))
int_mod(R, a0, b0) ==
  LET a == As(R, a0) b == As(R, b0) IN
  IF b = 0 THEN Raises("div by zero")
  ELSE IF R.kind = "signed" /\ a = Low(R) /\ b = -1 THEN Returns(0)
  ELSE Returns(As(R, a - b * Truncated(a, b)))

p_abs(T, check_overflow, x0) ==
  LET x == As(T, x0) IN
  IF T.kind = "unsigned" \/ x >= 0 THEN Returns(x)
  ELSE IF check_overflow THEN negate_checked(T, x) ELSE wrap_negate(T, x)
p_sqr(T, check_overflow, x) ==
  IF check_overflow THEN op_checked("mul", T, x, x) ELSE wrap_op("mul", T, x, x)

----------------------------------------------------------------------------
(* Bit patterns are sets of bit positions. *)
OnesOf(T, v) == {i \in 0..(Bits(T) - 1) : (v \div 2 ^ i) % 2 = 1}
FromOnes(T, S) == integer_from_bits(T, MapThenSumSet(LAMBDA i : 2 ^ i, S))

p_shl(R, v, shift) ==
  FromOnes(R, {i \in 0..(Bits(R) - 1) : i - (shift % Bits(R)) \in OnesOf(R, As(R, v))})
p_shr(R, v, shift) ==
  FromOnes(R, {i \in 0..(Bits(R) - 1) : i + (shift % Bits(R)) \in OnesOf(R, As(R, v))})
bitwise(op, R, a, b) ==
  LET A == OnesOf(R, As(R, a)) B == OnesOf(R, As(R, b)) IN
  FromOnes(R, CASE op = "and" -> A \cap B
                [] op = "or" -> A \cup B
                [] op = "xor" -> (A \ B) \cup (B \ A))
p_not(T, v) == As(T, -v - 1)

(* C++ evaluates value << (Bits - shift) and value >> (Bits - shift) apart. *)
ror(T, v, dist) ==
  LET s == dist % Bits(T) ones == OnesOf(T, v) IN
  IF s = 0 THEN v
  ELSE FromOnes(T, {i \in 0..(Bits(T) - 1) : i + s \in ones}
                   \cup {i \in 0..(Bits(T) - 1) : i - (Bits(T) - s) \in ones})
rol(T, v, dist) ==
  LET s == dist % Bits(T) ones == OnesOf(T, v) IN
  IF s = 0 THEN v
  ELSE FromOnes(T, {i \in 0..(Bits(T) - 1) : i - s \in ones}
                   \cup {i \in 0..(Bits(T) - 1) : i + (Bits(T) - s) \in ones})
sarlongint(T, v, dist) ==
  LET s == dist % Bits(T) IN
  IF s = 0 THEN v
  ELSE FromOnes(T, {i \in 0..(Bits(T) - 1) : i + s \in OnesOf(T, v)}
                   \cup (IF v < 0 THEN (Bits(T) - s)..(Bits(T) - 1) ELSE {}))
NoBit == 255
bsf(T, v) == IF OnesOf(T, v) = {} THEN NoBit ELSE Min(OnesOf(T, v))
bsr(T, v) == IF OnesOf(T, v) = {} THEN NoBit ELSE Max(OnesOf(T, v))

(* SwapEndian: the bytes in the opposite order.  BEtoN, NtoBE, LEtoN and NtoLE
   are this or nothing, by the byte order of the machine. *)
p_swapendian(T, v) ==
  LET byte == Width[8] last == (Bits(T) \div byte) - 1 ones == OnesOf(T, v) IN
  FromOnes(T, {i \in 0..(Bits(T) - 1) : (last - (i \div byte)) * byte + (i % byte) \in ones})
ToOrder(machine, order, T, v) == IF machine = order THEN v ELSE p_swapendian(T, v)

(* Lo and Hi, and the exchange of the halves. *)
Half(T) == Bits(T) \div 2
p_lo(T, v) == (v % 2 ^ Bits(T)) % 2 ^ Half(T)
p_hi(T, v) == (v % 2 ^ Bits(T)) \div 2 ^ Half(T)
p_swap(T, v) == integer_from_bits(T, p_hi(T, v) + p_lo(T, v) * 2 ^ Half(T))

(* System.Align, in the unsigned carrier. *)
p_align(T, address, alignment) ==
  LET upper == As(T, address + As(T, alignment - 1)) IN As(T, upper - (upper % alignment))

----------------------------------------------------------------------------
(* Succ, Pred, Inc and Dec: the step in its carrier, the bounds it is checked
   against converted to the carrier, the result taken to the declared type. *)
ordinal_from_carrier(T, v) == As(T, v)
ordinal_step(op, T, R, check_overflow, check_range, value, delta, low, high) ==
  LET r == IF check_overflow THEN op_checked(op, R, value, delta)
                             ELSE wrap_op(op, R, value, delta) IN
  IF ~Fine(r) THEN r
  ELSE IF check_range /\ (r.value < As(R, low) \/ r.value > As(R, high))
       THEN Raises("range")
       ELSE Returns(ordinal_from_carrier(T, r.value))

(* Whole Currency units, held as Scale parts of a unit in 64 bits (Scale is
   10000 in the source). *)
integer_to_currency(Source, Scale, check_overflow, check_range, value) ==
  LET currency == Signed(64)
      exact == As(IF Source.kind = "signed" THEN currency ELSE Unsigned(64), value) * Scale IN
  IF Fits(exact, currency) THEN Returns(exact)
  ELSE IF check_overflow THEN Raises("overflow")
  ELSE IF check_range THEN Raises("range")
  ELSE Returns(As(currency, exact))

----------------------------------------------------------------------------
(* Narrowing assignment: the comparisons are made in the source's type, or in
   its unsigned twin. *)
range_check_assign(D, S, src) ==
  LET USrc == Unsigned(S.size)
      out == IF S.kind = D.kind THEN src < As(S, Low(D)) \/ src > As(S, High(D))
             ELSE IF S.kind = "signed" THEN src < 0 \/ As(USrc, src) > As(USrc, High(D))
             ELSE src > As(S, High(D))
  IN IF out THEN Raises("range") ELSE Returns(As(D, src))
============================================================================
