--------------------------- MODULE IntegerBinding ---------------------------
(* Integer expressions in the compiler (emit_analysis.cc, emit.cc): the carrier
   each operation is given, the evaluation of constant expressions, and the
   helper calls the operation is translated to.

   An operand is its Pascal type, whether it is a constant the compiler can
   evaluate, and its value.  pointer_bits is the target's, 32 or 64.  Types of
   pointer size have the type of that width; Currency is not bound here. *)
EXTENDS CheckedIntegers

Arithmetic == {"add", "sub", "mul"}
Division == {"div", "mod"}
Bitwise == {"and", "or", "xor"}
Shifts == {"shl", "shr"}
Comparisons == {"=", "<>", "<", ">", "<=", ">="}
BinOps == Arithmetic \cup Division \cup Bitwise \cup Shifts \cup Comparisons

Larger(m, n) == IF m >= n THEN m ELSE n

(* The type of a constant that is only a number. *)
primitive_info_for_value(v) ==
  LET holds(t) == Fits(v, t)
      fitting == {s \in {8, 16, 32} : holds(Signed(s)) \/ holds(Unsigned(s))} IN
  IF fitting = {} THEN Signed(64)
  ELSE IF holds(Signed(Min(fitting))) THEN Signed(Min(fitting)) ELSE Unsigned(Min(fitting))

(* The type of a subrange's cell; arithmetic looks at the upper bound only to
   choose the size. *)
Narrowest(low, high, bounds) ==
  LET kind == IF low < 0 THEN "signed" ELSE "unsigned"
      holding == {s \in {8, 16, 32} : \A v \in bounds : Fits(v, [kind |-> kind, size |-> s])} IN
  [kind |-> kind, size |-> IF holding = {} THEN 64 ELSE Min(holding)]
ordinal_integer_primitive_for_domain(low, high) == Narrowest(low, high, {low, high})
canonicalize_for_arithmetic(low, high) == Narrowest(low, high, {high})

Mixed(l, r) == l.kind # r.kind
SignedOf(l, r) == IF l.kind = "signed" THEN l ELSE r
UnsignedOf(l, r) == IF l.kind = "unsigned" THEN l ELSE r

common_integer_primitive(l, r) ==
  LET s == SignedOf(l, r).size u == UnsignedOf(l, r).size IN
  IF ~Mixed(l, r) THEN [kind |-> l.kind, size |-> Larger(l.size, r.size)]
  ELSE IF s > u THEN Signed(s)
  ELSE IF u < 64 THEN Signed(IF u < 16 THEN 16 ELSE IF u < 32 THEN 32 ELSE 64)
  ELSE Unsigned(64)

NativeUnsigned(t, pointer_bits) == t = Unsigned(pointer_bits)

\* Mutant: the difference of two unsigned operands is unsigned.
integer_arithmetic_primitiveUnsigned(op, l, r, pointer_bits) ==
  IF Signed(64) \in {l, r} THEN Signed(64)
  ELSE IF Unsigned(64) \in {l, r} THEN Unsigned(64)
  ELSE LET signed == "signed" \in {l.kind, r.kind} IN
       IF pointer_bits = 32 /\ Unsigned(32) \in {l, r} /\ signed THEN Signed(64)
       ELSE IF signed THEN Signed(pointer_bits) ELSE Unsigned(pointer_bits)

integer_arithmetic_primitive(op, l, r, pointer_bits) ==
  IF Signed(64) \in {l, r} THEN Signed(64)
  ELSE IF Unsigned(64) \in {l, r} THEN Unsigned(64)
  ELSE LET signed == "signed" \in {l.kind, r.kind} \/ op = "sub" IN
       IF pointer_bits = 32 /\ Unsigned(32) \in {l, r} /\ signed THEN Signed(64)
       ELSE IF signed THEN Signed(pointer_bits) ELSE Unsigned(pointer_bits)

integer_bitwise_primitive(op, l, r, pointer_bits) ==
  IF op = "and"
  THEN IF Mixed(l, r) /\ UnsignedOf(l, r).size >= Larger(SignedOf(l, r).size, 32)
       THEN UnsignedOf(l, r) ELSE common_integer_primitive(l, r)
  ELSE IF ~Mixed(l, r) /\ l.size < 64 /\ r.size < 64
       THEN common_integer_primitive(l, r)
       ELSE integer_arithmetic_primitive("add", l, r, pointer_bits)

(* const_int_fits_primitive compares bits or value by the constant's kind: the
   number the constant denotes. *)
const_expr_fits_primitive(x, t) == x.const /\ Fits(x.value, t)

integer_division_primitive(x, y, pointer_bits) ==
  LET l == IF /\ y.type.kind = "unsigned"
              /\ \/ const_expr_fits_primitive(x, y.type)
                 \/ x.type.kind = "unsigned" /\ y.type.size >= x.type.size
           THEN y.type ELSE x.type
      r == IF /\ x.type.kind = "unsigned"
              /\ \/ const_expr_fits_primitive(y, x.type)
                 \/ y.type.kind = "unsigned" /\ x.type.size >= y.type.size
           THEN x.type ELSE y.type
      signed == "signed" \in {l.kind, r.kind}
      native == NativeUnsigned(l, pointer_bits) \/ NativeUnsigned(r, pointer_bits) IN
  IF 64 \in {l.size, r.size} THEN IF signed THEN Signed(64) ELSE Unsigned(64)
  ELSE IF pointer_bits = 32 /\ native /\ signed THEN Signed(64)
  ELSE IF native THEN Unsigned(pointer_bits)
  ELSE Signed(pointer_bits)

integer_comparison_primitive(x, y, pointer_bits) ==
  IF ~Mixed(x.type, y.type) /\ x.type.size < 64 /\ y.type.size < 64
  THEN common_integer_primitive(x.type, y.type)
  ELSE IF Mixed(x.type, y.type) /\ const_expr_fits_primitive(x, y.type) THEN y.type
  ELSE IF Mixed(x.type, y.type) /\ const_expr_fits_primitive(y, x.type) THEN x.type
  ELSE integer_arithmetic_primitive("add", x.type, y.type, pointer_bits)

shift_carrier_primitive(t) == IF t.size = 64 THEN t ELSE [t EXCEPT !.size = 32]

(* The carrier of the operation; a shift count is converted to the default
   integer, whose low bits are the count's. *)
bind_binary_operation(op, x, y, pointer_bits) ==
  CASE op \in Arithmetic -> integer_arithmetic_primitive(op, x.type, y.type, pointer_bits)
    [] op \in Division -> integer_division_primitive(x, y, pointer_bits)
    [] op \in Bitwise -> integer_bitwise_primitive(op, x.type, y.type, pointer_bits)
    [] op \in Shifts -> shift_carrier_primitive(x.type)
    [] op \in Comparisons -> integer_comparison_primitive(x, y, pointer_bits)

----------------------------------------------------------------------------
(* The value a constant expression is evaluated to: known or not, with the
   type the evaluator gives it.  The evaluator works on 64-bit words: value is
   the word read as signed, bits the word itself. *)
Known(v, t) == [known |-> TRUE, value |-> v, type |-> t]
Unknown == [known |-> FALSE, value |-> 0, type |-> Signed(64)]
Word(v) == v % 2 ^ Width[64]
AsInt64(v) == As(Signed(64), v)
TypedNumber(v) == IF v > High(Signed(64)) THEN Known(v, Unsigned(64))
                                          ELSE Known(v, primitive_info_for_value(v))

(* A number of a sign and a magnitude; nothing when it leaves both 64-bit
   types. *)
make_result(negative, magnitude) ==
  IF magnitude > High(Unsigned(64)) \/ (negative /\ magnitude > 2 ^ (Width[64] - 1))
  THEN Unknown
  ELSE TypedNumber(IF negative THEN -magnitude ELSE magnitude)

is_negative(c) == AsInt64(c.value) < 0 /\ c.type.kind # "unsigned"
magnitude(c) == IF is_negative(c) THEN Word(-Word(c.value)) ELSE Word(c.value)

add_signed_magnitudes(n1, m1, n2, m2) ==
  IF n1 # n2 THEN IF m1 >= m2 THEN make_result(n1, m1 - m2) ELSE make_result(n2, m2 - m1)
             ELSE make_result(n1, m1 + m2)

FoldBitwise(op, x, y) ==
  LET v == bitwise(op, Signed(64), AsInt64(x.value), AsInt64(y.value))
  IN Known(v, primitive_info_for_value(v))
\* Mutant: a constant is shifted in 64 bits whatever its type.
FoldShiftWide(op, x, y) ==
  Known(IF op = "shl" THEN p_shl(Signed(64), x.value, y.value) ELSE p_shr(Signed(64), x.value, y.value),
        Signed(64))
FoldShift(op, x, y) ==
  LET carrier == shift_carrier_primitive(x.type)
  IN Known(IF op = "shl" THEN p_shl(carrier, x.value, y.value) ELSE p_shr(carrier, x.value, y.value),
           carrier)

eval_const_int_expr(op, x, y) ==
  LET nx == is_negative(x) ny == is_negative(y) mx == magnitude(x) my == magnitude(y) IN
  IF ~x.const \/ ~y.const \/ op \in Comparisons THEN Unknown
  ELSE CASE op = "add" -> add_signed_magnitudes(nx, mx, ny, my)
         [] op = "sub" -> add_signed_magnitudes(nx, mx, ~ny, my)
         [] op = "mul" -> make_result(nx # ny, mx * my)
         [] op = "div" -> IF my = 0 THEN Unknown ELSE make_result(nx # ny, mx \div my)
         [] op = "mod" -> IF my = 0 THEN Unknown ELSE make_result(nx, mx % my)
         [] op \in Shifts -> FoldShift(op, x, y)
         [] op \in Bitwise -> FoldBitwise(op, x, y)

(* Unary minus on a constant subtracts the word, read as signed, from zero. *)
FoldNegation(x) ==
  LET v == -AsInt64(x.value) IN
  IF Fits(v, Signed(64)) THEN Known(v, primitive_info_for_value(v)) ELSE Unknown

convert_const_int_value(c, target) == As(target, c.value)

Ordered(op, a, b) ==
  CASE op = "=" -> a = b [] op = "<>" -> a # b [] op = "<" -> a < b
    [] op = ">" -> a > b [] op = "<=" -> a <= b [] op = ">=" -> a >= b
compare_constant_integers(op, x, y) ==
  LET nx == is_negative(x) ny == is_negative(y) IN
  IF nx # ny THEN Ordered(op, IF nx THEN 0 ELSE 1, IF nx THEN 1 ELSE 0)
  ELSE IF nx THEN Ordered(op, AsInt64(x.value), AsInt64(y.value))
  ELSE Ordered(op, Word(x.value), Word(y.value))

----------------------------------------------------------------------------
(* What the translated operation does when it is run. *)
Truth(b) == Returns(IF b THEN 1 ELSE 0)
Run(op, x, y, q_check, pointer_bits) ==
  LET R == bind_binary_operation(op, x, y, pointer_bits) a == x.value b == y.value IN
  CASE op \in Arithmetic -> IF q_check THEN op_checked(op, R, a, b) ELSE wrap_op(op, R, a, b)
    [] op = "div" -> int_div(R, q_check, a, b)
    [] op = "mod" -> int_mod(R, a, b)
    [] op = "shl" -> Returns(p_shl(R, a, b))
    [] op = "shr" -> Returns(p_shr(R, a, b))
    [] op \in Bitwise -> Returns(bitwise(op, R, a, b))
    [] op \in Comparisons ->
         Truth(IF x.const /\ y.const THEN compare_constant_integers(op, x, y)
               ELSE Ordered(op, As(R, a), As(R, b)))

(* Unary minus: the helper's type is the C++ type of the operand.  Without a
   check an unsigned operand is negated by C++, in int (32 bits) if narrower. *)
Negate(x, q_check) ==
  IF x.type.kind = "signed"
  THEN IF q_check THEN negate_checked(x.type, x.value) ELSE wrap_negate(x.type, x.value)
  ELSE IF q_check THEN negate_checked(x.type, x.value)
  ELSE Returns(As(IF x.type.size < 32 THEN Signed(32) ELSE x.type, -x.value))

abs_sqr_primitive(f, t) ==
  IF t.kind = "signed" THEN {Signed(IF t.size <= 32 THEN 32 ELSE 64)}
  ELSE IF t.size <= 16 THEN {Signed(32)}
  ELSE IF f = "sqr" THEN {Unsigned(64)}
  ELSE IF t.size = 32 THEN {Signed(64)} ELSE {}
AbsSqr(f, t, v, q_check) ==
  LET R == CHOOSE c \in abs_sqr_primitive(f, t) : TRUE IN
  IF f = "abs" THEN p_abs(R, q_check, v) ELSE p_sqr(R, q_check, v)

(* Succ, Pred, Inc and Dec of a variable of an ordinal type: storage is the type
   of its cell, low and high its bounds, delta_type the type of the amount. *)
bind_intrinsic_operation(add, storage, delta_type, q_check, r_check, pointer_bits) ==
  IF q_check \/ r_check
  THEN integer_arithmetic_primitive(IF add THEN "add" ELSE "sub", storage, delta_type, pointer_bits)
  ELSE storage
Step(add, storage, low, high, value, delta_type, delta, q_check, r_check, pointer_bits) ==
  LET R == bind_intrinsic_operation(add, storage, delta_type, q_check, r_check, pointer_bits)
  IN ordinal_step(IF add THEN "add" ELSE "sub", storage, R, q_check, r_check,
                  value, As(R, delta), low, high)

(* Succ and Pred of a constant. *)
eval_bound_ordinal_step(add, storage, low, high, value, q_check, r_check, pointer_bits) ==
  LET R == bind_intrinsic_operation(add, storage, Signed(8), q_check, r_check, pointer_bits)
      exact == As(R, value) + (IF add THEN 1 ELSE -1)
      r == As(R, exact)
  IN IF \/ q_check /\ R.kind = "signed" /\ ~Fits(exact, R)
        \/ r_check /\ (IF R.kind = "signed" THEN r < low \/ r > high ELSE low < 0 \/ r > high)
     THEN Unknown ELSE Known(As(storage, r), storage)

(* An assignment to a plain variable: the range is checked when the source is
   wider or of the other kind, and the C++ assignment converts the value.  A
   place that is not a plain C++ variable (a packed field, a field of a variant
   part) takes the value before that decision is made. *)
\* Mutant: only a wider source is checked.
AssignWider(dst, src, value, r_check, special) ==
  IF ~special /\ r_check /\ Bits(src) > Bits(dst) THEN range_check_assign(dst, src, value)
  ELSE Returns(As(dst, value))
Assign(dst, src, value, r_check, special) ==
  IF ~special /\ r_check /\ (Bits(src) > Bits(dst) \/ src.kind # dst.kind)
  THEN range_check_assign(dst, src, value)
  ELSE Returns(As(dst, value))
============================================================================
