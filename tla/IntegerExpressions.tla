------------------------- MODULE IntegerExpressions -------------------------
(* Integer expressions from the source to the running program: the compiler
   binds an operation (IntegerBinding), the program runs the helper it was
   given (CheckedIntegers), and the result is compared with what the operation
   means for numbers.  A call picks one of the routines of its name, by what the
   conversions of its actuals cost (OverloadRanking).  A behaviour evaluates one
   expression after another. *)
EXTENDS OverloadRanking

CONSTANTS Samples(_),           \* the values of a type that are tried
          CallGroups,           \* routines of one name, with the actuals they are called with
          ProcNames, ProcTypes  \* names that are used as values, and what they are wanted for

(* What is known of the calls and the names: a group has finitely many routines,
   a constant is an integer, a distinct type is made of one that is not, what is
   named has a signature, frames are numbered. *)
IsType(t) == /\ IsInt(t) => IntOf(t) \in Types
             /\ t.tag = "distinct" => t.under.tag # "distinct"
IsSignature(s) == s = Signature(s.result, s.params) /\ s.params \in Seq(ToSet(s.params))
ASSUME CallsAssumption ==
  /\ \A g \in CallGroups : IsFiniteSet(g.routines) /\ g.arity \in Nat
       /\ \A a \in g.actuals : IsType(a.type) /\ (a.form = "constant" => IsInt(a.type))
       /\ \A r \in g.routines : LET formals == Formals(r) IN
            formals \in Seq(ToSet(formals)) /\ \A f \in ToSet(formals) : IsType(f.type)
  /\ \A name \in ProcNames :
       /\ \A m \in ToSet(name.methods) : IsSignature(m)
       /\ \A r \in ToSet(name.routines) : r.frame \in Int /\ IsSignature(r.signature)
  /\ \A target \in ProcTypes : IsSignature(target.signature)

\* The samples of a type are values of it.
ASSUME SamplesAssumption == \A t \in Types : \A v \in Samples(t) : v \in Int /\ Fits(v, t)

VARIABLE expr                   \* the expression just evaluated

vars == <<expr>>

Checks == BOOLEAN
Targets == {32, 64}
Variables == UNION {{[type |-> t, const |-> FALSE, value |-> v] : v \in Samples(t)} : t \in Types}
LiteralType(v) == IF v > High(Signed(64)) THEN Unsigned(64) ELSE primitive_info_for_value(v)
Literals == {[type |-> LiteralType(v), const |-> TRUE, value |-> v] :
               v \in UNION {Samples(t) : t \in Types}}
Operands == Variables \cup Literals

(* Subranges of a cell, given by their bounds; a whole type is one of them. *)
Domains == {[storage |-> t, low |-> Low(t), high |-> High(t)] : t \in Types}
           \cup {[storage |-> ordinal_integer_primitive_for_domain(l, h), low |-> l, high |-> h] :
                   l \in {-1, 0, 1}, h \in {1, High(Signed(16)), High(Unsigned(16)) - 1}}

Idle == [kind |-> "idle"]
Init == expr = Idle

BinaryExpression ==
  expr = Idle /\
  \E op \in BinOps, x, y \in Operands, q_check \in Checks, p \in Targets :
    /\ q_check => op \in Arithmetic \cup {"div"}
    /\ expr' = [kind |-> "binary", op |-> op, x |-> x, y |-> y, q_check |-> q_check, target |-> p,
                run |-> Run(op, x, y, q_check, p)]

ConstantExpression ==
  expr = Idle /\
  \E op \in BinOps \ Comparisons, x, y \in Literals, p \in Targets :
    /\ eval_const_int_expr(op, x, y).known
    /\ expr' = [kind |-> "constant", op |-> op, x |-> x, y |-> y, target |-> p,
                folded |-> eval_const_int_expr(op, x, y), run |-> Run(op, x, y, FALSE, p)]

Negation ==
  expr = Idle /\
  \E x \in Variables, q_check \in Checks :
    expr' = [kind |-> "negation", x |-> x, q_check |-> q_check, run |-> Negate(x, q_check)]

Function ==
  expr = Idle /\
  \E f \in {"abs", "sqr"}, x \in Variables, q_check \in Checks :
    /\ abs_sqr_primitive(f, x.type) # {}
    /\ expr' = [kind |-> "function", f |-> f, x |-> x, q_check |-> q_check,
                run |-> AbsSqr(f, x.type, x.value, q_check)]

OrdinalStep ==
  expr = Idle /\
  \E d \in Domains, delta \in Variables, add, q_check, r_check \in BOOLEAN, p \in Targets :
  \E v \in {v \in Samples(d.storage) : d.low <= v /\ v <= d.high} :
    expr' = [kind |-> "step", domain |-> d, value |-> v, delta |-> delta, add |-> add,
             q_check |-> q_check, r_check |-> r_check, target |-> p,
             run |-> Step(add, d.storage, d.low, d.high, v, delta.type, delta.value,
                          q_check, r_check, p)]

(* The domain the compiler works with stops at the largest signed number. *)
FoldedHigh(d) == IF d.high > High(Signed(64)) THEN High(Signed(64)) ELSE d.high
ConstantStep ==
  expr = Idle /\
  \E d \in Domains, add, q_check, r_check \in BOOLEAN, p \in Targets :
  \E v \in {v \in Samples(d.storage) : d.low <= v /\ v <= d.high} :
    expr' = [kind |-> "folded_step",
             folded |-> eval_bound_ordinal_step(add, d.storage, d.low, FoldedHigh(d), v,
                                                q_check, r_check, p),
             run |-> Step(add, d.storage, d.low, d.high, v, Signed(8), 1, q_check, r_check, p)]

Assignment ==
  expr = Idle /\
  \E dst \in Types, x \in Variables, r_check, special \in BOOLEAN :
    expr' = [kind |-> "assignment", dst |-> dst, x |-> x, r_check |-> r_check, special |-> special,
             run |-> Assign(dst, x.type, x.value, r_check, special)]

(* The runtime's own functions of integers. *)
Scale == 3                      \* parts of a unit of Currency
Helper ==
  expr = Idle /\
  \E t \in Types, n \in 0..9, checks \in BOOLEAN : \E v \in Samples(t) :
    expr' = [kind |-> "helper", type |-> t, value |-> v, n |-> n, checks |-> checks,
             ror |-> ror(t, v, n), rol |-> rol(t, v, n), sar |-> sarlongint(t, v, n),
             bsf |-> bsf(t, v), bsr |-> bsr(t, v), lo |-> p_lo(t, v), hi |-> p_hi(t, v),
             swap |-> p_swap(t, v), swapped |-> p_swapendian(t, v),
             big |-> ToOrder("little", "big", t, v), align |-> IF t = Unsigned(64) /\ n > 0 THEN p_align(t, v, n) ELSE v,
             currency |-> integer_to_currency(t, Scale, checks, checks, v)]

(* A call of a name that some routines of a group have; picks holds the outcome
   for every order in which they may have been declared. *)
Call ==
  expr = Idle /\
  \E g \in CallGroups : \E k \in 1..g.most : \E routines \in kSubset(k, g.routines) :
  \E args \in [1..g.arity -> g.actuals] :
    LET visible == gather_callable_in_pascal_scope(routines) IN
    expr' = [kind |-> "call", routines |-> visible, args |-> args, operators |-> g.operators,
             picks |-> {resolve_candidates(order, args, g.operators) : order \in SetToSeqs(visible)}]

(* A name where a procedural variable is wanted, with and without a conversion. *)
ProcValue ==
  expr = Idle /\
  \E name \in ProcNames, target \in ProcTypes, conversion \in BOOLEAN :
    expr' = [kind |-> "procedural", name |-> name, target |-> target, conversion |-> conversion,
             written |-> maybe_convert_proc_value(name, target, conversion),
             accepted |-> score_procedural_argument_conversion(name, target)]

Finish == expr # Idle /\ expr' = Idle

Next == \/ Finish
        \/ BinaryExpression \/ ConstantExpression \/ Negation \/ Function
        \/ OrdinalStep \/ ConstantStep \/ Assignment \/ Helper \/ Call \/ ProcValue

Spec == Init /\ [][Next]_vars

----------------------------------------------------------------------------
(* What the operations mean for numbers of any size. *)
Quotient(a, b) == CHOOSE q \in -Abs(a)..Abs(a) :
                    Abs(a - q * b) < Abs(b) /\ (a - q * b = 0 \/ (a - q * b < 0) = (a < 0))
Binary(v, i) == (v \div 2 ^ i) % 2 = 1
Beyond == Width[64] + 2         \* every operand's bits repeat from here
NumberOfBits(P(_)) == MapThenSumSet(LAMBDA i : 2 ^ i, {i \in 0..(Beyond - 1) : P(i)})
                      - (IF P(Beyond) THEN 2 ^ Beyond ELSE 0)
Meaning(op, a, b) ==
  CASE op \in Arithmetic -> Exact(op, a, b)
    [] op = "div" -> Quotient(a, b)
    [] op = "mod" -> a - b * Quotient(a, b)
    [] op = "and" -> NumberOfBits(LAMBDA i : Binary(a, i) /\ Binary(b, i))
    [] op = "or" -> NumberOfBits(LAMBDA i : Binary(a, i) \/ Binary(b, i))
    [] op = "xor" -> NumberOfBits(LAMBDA i : Binary(a, i) # Binary(b, i))

(* A 64-bit unsigned operand beside a signed one: Pascal has no type for both,
   and the compiler takes one of the two 64-bit types. *)
Clash(x, y) == Unsigned(64) \in {x.type, y.type} /\ "signed" \in {x.type.kind, y.type.kind}
Settled(x, y) == \/ x.const /\ (y.const \/ Fits(x.value, y.type))
                 \/ y.const /\ Fits(y.value, x.type)

(* A variable operation returns the number it means when its carrier holds it,
   and is reported or reduced modulo the carrier when it does not; the carrier
   the compiler binds holds both operands, whatever their types, except where a
   64-bit unsigned operand meets a signed one.  Operands of half the target's
   width never leave the carrier.  (bind_binary_operation and the arithmetic
   helpers.) *)
Narrow(t, pointer_bits) == 2 * Bits(t) <= Width[pointer_bits]
OperationsAreExact ==
  /\ expr.kind = "function" =>
       LET v == expr.x.value
           n == IF expr.f = "abs" THEN Abs(v) ELSE v * v
           R == CHOOSE c \in abs_sqr_primitive(expr.f, expr.x.type) : TRUE
       IN IF Fits(n, R) THEN expr.run = Returns(n)
          ELSE expr.q_check /\ R.kind = "signed" => expr.run = Raises("overflow")
  /\ expr.kind = "binary" /\ expr.op \in Arithmetic \cup Division \cup Bitwise =>
    LET x == expr.x y == expr.y run == expr.run
        R == bind_binary_operation(expr.op, x, y, expr.target)
        n == Meaning(expr.op, x.value, y.value)
    IN IF expr.op \in Division /\ y.value = 0 THEN run = Raises("div by zero")
       ELSE IF Narrow(x.type, expr.target) /\ Narrow(y.type, expr.target) THEN run = Returns(n)
       ELSE IF Clash(x, y) THEN expr.op \in Arithmetic /\ Fine(run) => (run.value - n) % 2 ^ Bits(R) = 0
       ELSE IF Fits(n, R) THEN run = Returns(n)
       ELSE IF expr.q_check /\ R.kind = "signed" THEN run = Raises("overflow")
       ELSE Fine(run) /\ Fits(run.value, R) /\ (run.value - n) % 2 ^ Bits(R) = 0

(* A comparison is true exactly when it is true of the numbers, for operands of
   any two types and for constants beside variables, except where a 64-bit
   unsigned operand meets a signed one and no constant decides the type.
   (integer_comparison_primitive, compare_constant_integers.) *)
ComparisonsFollowTheOrder ==
  expr.kind = "binary" /\ expr.op \in Comparisons
  /\ (Clash(expr.x, expr.y) => Settled(expr.x, expr.y)) =>
    expr.run = Truth(Ordered(expr.op, expr.x.value, expr.y.value))

(* The negative of a signed variable is exact, or refused when there is none and
   checks are on.  The negative of an unsigned one is left out: with checks it is
   converted to the unsigned type. (emit.cc, Kind::Unary; tp2cc_negate_checked.) *)
NegativesAreExact ==
  expr.kind = "negation" /\ expr.x.type.kind = "signed" =>
    IF Fits(-expr.x.value, expr.x.type) THEN expr.run = Returns(-expr.x.value)
    ELSE expr.q_check => expr.run = Raises("overflow")

(* A constant expression is worth the same whether the compiler evaluates it or
   the program does: the number the operation means, and, put into a variable of
   any type, what the helper's result puts there.  Bit operations on numbers
   above the signed 64-bit range are left out: the compiler takes their result
   for a signed number.
   (eval_const_int_expr_impl, eval_bound_ordinal_step, convert_const_int_value.) *)
HighWord(x, y) == Unsigned(64) \in {x.type, y.type}
FoldingAgreesWithRunning ==
  /\ expr.kind = "folded_step" /\ expr.folded.known => expr.run = Returns(expr.folded.value)
  /\ expr.kind = "constant" =>
       LET x == expr.x y == expr.y n == Meaning(expr.op, x.value, y.value)
           R == bind_binary_operation(expr.op, x, y, expr.target)
       IN /\ expr.op \in Arithmetic \cup Division => expr.folded.value = n
          /\ \/ expr.op \in Bitwise /\ HighWord(x, y)
             \/ expr.op \in Division /\ Clash(x, y)
             \/ \A t \in Types : Bits(t) <= Bits(R) \/ expr.op \in Shifts \/ Fits(n, R) =>
                  As(t, expr.run.value) = convert_const_int_value(expr.folded, t)

(* With range checks a step leaves its variable inside its bounds, and at the sum
   if the carrier holds it;
   it is refused only when the sum is outside them, or outside the carrier, or
   when the carrier cannot tell (an unsigned 64-bit step of a variable with
   negative bounds).  Without them it stores the sum modulo its cell, checked
   or not.  (bind_intrinsic_operation, tp2cc_ordinal_add, tp2cc_ordinal_sub.) *)
StepsStayInRange ==
  expr.kind = "step" =>
    LET d == expr.domain delta == expr.delta run == expr.run
        n == expr.value + (IF expr.add THEN delta.value ELSE -delta.value)
        R == bind_intrinsic_operation(expr.add, d.storage, delta.type, expr.q_check, expr.r_check,
                                      expr.target)
    IN /\ Fine(run) => (run.value - n) % 2 ^ Bits(d.storage) = 0
       /\ Fine(run) /\ expr.r_check => d.low <= run.value /\ run.value <= d.high
       /\ Fine(run) /\ expr.r_check /\ Fits(n, R) /\ ~Clash([type |-> d.storage], delta) => run.value = n
       /\ ~Fine(run) => \/ n < d.low \/ n > d.high \/ ~Fits(n, R)
                        \/ Clash([type |-> d.storage], delta)

(* With range checks an assignment between any two integer types stores the
   value itself or raises, and it raises only for a value the variable cannot
   hold.  (emit_assign, tp2cc_range_check_assign.) *)
AssignmentsAreExactOrRaise ==
  expr.kind = "assignment" /\ expr.r_check /\ ~expr.special =>
    IF Fits(expr.x.value, expr.dst) THEN expr.run = Returns(expr.x.value)
    ELSE expr.run = Raises("range")

(* A variable never comes to hold a number that its type, or its subrange, does
   not have, whether it is assigned or stepped: the two above.
   (emit_assign, bound_ordinal_step_to_cxx.) *)
VariablesStayInRange == StepsStayInRange /\ AssignmentsAreExactOrRaise

(* The functions of the bits of a number are what the manual says of them:
   rotations lose nothing, the arithmetic shift divides, the bit scans find the
   lowest and the highest bit or give 255, halves and bytes recombine, an aligned
   address is the next multiple, and Currency is exact or refused.
   (user_manual.org, System; tp2cc_ror .. p_swap.) *)
FunctionsMeetTheManual ==
  expr.kind = "helper" =>
    LET t == expr.type v == expr.value n == expr.n w == Bits(t) u == v % 2 ^ w
        turned(x, d) == (x * 2 ^ d) % (2 ^ w - 1)
    IN /\ u # 2 ^ w - 1 => /\ expr.rol % 2 ^ w = turned(u, n % w)
                          /\ turned(expr.ror % 2 ^ w, n % w) = u
       /\ u = 2 ^ w - 1 => expr.rol = v /\ expr.ror = v
       /\ expr.sar = IF t.kind = "signed" THEN v \div 2 ^ (n % w) ELSE expr.sar
       /\ IF u = 0 THEN expr.bsf = 255 /\ expr.bsr = 255
          ELSE /\ u % 2 ^ expr.bsf = 0 /\ (u \div 2 ^ expr.bsf) % 2 = 1
               /\ 2 ^ expr.bsr <= u /\ u < 2 ^ (expr.bsr + 1)
       /\ expr.hi * 2 ^ Half(t) + expr.lo = u
       /\ w % 2 = 0 => p_swap(t, expr.swap) = v /\ p_hi(t, expr.swap) = expr.lo
       /\ w % Width[8] = 0 =>
            /\ expr.big = expr.swapped /\ p_swapendian(t, expr.swapped) = v
            /\ (expr.swapped % 2 ^ w) % 2 ^ Width[8] = u \div 2 ^ (w - Width[8])
       /\ t = Unsigned(64) /\ n > 0 /\ v + n <= High(t) =>
            v <= expr.align /\ expr.align < v + n /\ expr.align % n = 0
       /\ IF Fits(v * Scale, Signed(64)) THEN expr.currency = Returns(v * Scale)
          ELSE expr.checks => expr.currency = Raises("overflow")

(* What the program computes is what the expression means: the four above.
   (bind_binary_operation, tp2cc_add_checked .. tp2cc_int_mod.) *)
ExpressionsMeanTheirNumbers ==
  OperationsAreExact /\ ComparisonsFollowTheOrder /\ NegativesAreExact /\ FunctionsMeetTheManual

(* The pick does not depend on the order of the declarations, is never a routine
   that another one beats, and is the routine that beats all others when there is
   one; a call is unresolved only when no routine takes its actuals.  The pick
   among the integer formals, which comes first, keeps to this.
   (pick_overload_from_candidates, pick_integer_domain_overload.) *)
Takes(r) == AllViable(Scored(r, expr.args, expr.operators))
Beats(r, s) == conversion_candidate_dominates(Scored(r, expr.args, expr.operators),
                                              Scored(s, expr.args, expr.operators))
OfArity == {r \in expr.routines : ArityOk(r, expr.args)}
CallsPickTheBest ==
  expr.kind = "call" /\ Cardinality(OfArity) > 1 =>
    LET viable == {r \in OfArity : Takes(r)} IN
    /\ Cardinality(expr.picks) = 1
    /\ Unresolved \in expr.picks <=> viable = {}
    /\ \A p \in expr.picks : p.verdict = "picked" =>
         p.decl \in viable /\ \A r \in viable : ~Beats(r, p.decl)
    /\ \A r \in viable : (\A s \in viable \ {r} : Beats(r, s)) => expr.picks = {Picked(r)}

(* What a name means: a local variable hides the methods of the class, and they
   hide the routines, of which a nearer one hides one further out. *)
Meanings(name, target) ==
  IF name.local # <<>> THEN IF name.local[1] = target THEN {Variable} ELSE {}
  ELSE IF name.methods # <<>>
       THEN {Method(m) : m \in {n \in ToSet(name.methods) : target.of_object /\ n = target.signature}}
  ELSE LET fit == {r \in RoutinesNamed(name) : ~target.of_object /\ r.signature = target.signature}
       IN Routines({q \in fit : \A o \in fit : q.frame <= o.frame})

\* The places where the text is not what was bound: a method is found although a
\* local variable hides it, and a routine is written by the name alone, which
\* C++ finds in the nearest unit that has the name.
HiddenMethod(name) == name.local # <<>> /\ name.methods # <<>>
FurtherUnit(name) == \E r, q \in ToSet(name.routines) : r.frame # q.frame

(* A name is taken for a procedural formal exactly if what it means has that type,
   and then that very routine, method or variable is written; a conversion
   changes nothing where none is needed, and never takes a method or routine if
   another one needs fewer adapters.
   (resolve_method_value_binding, resolve_plain_proc_value_binding,
   EmitValues::maybe_convert_proc_value.) *)
NamesAreBoundByType ==
  expr.kind = "procedural" /\ ~HiddenMethod(expr.name) /\ ~FurtherUnit(expr.name) =>
    LET meant == Meanings(expr.name, expr.target)
        hasType(d) == d.signature = expr.target.signature
    IN /\ expr.accepted <=> meant # {}
       /\ meant # {} => meant = {expr.written}
       /\ expr.conversion /\ expr.written.what \in {"method", "routine"} =>
            \A d \in Methods(expr.name) \cup Routines(ToSet(expr.name.routines)) :
              /\ d.what = expr.written.what /\ d # expr.written
              /\ signature_matches(d.signature, expr.target.signature, TRUE)
              => procedural_value_signature_distance(expr.written.signature, expr.target.signature)
                   < procedural_value_signature_distance(d.signature, expr.target.signature)

(* Calls and names used as values take the routine that fits best: the two above.
   (pick_overload_from_candidates, procedural_value_signature_distance.) *)
PickIsTheBest == CallsPickTheBest /\ NamesAreBoundByType

(* The values an actual may have, when they are numbers; a routine holds them
   when its formals are integers with room for all of them. *)
Numbers(arg) ==
  IF arg.form = "constant" THEN {arg.value}
  ELSE IF arg.form # "value" THEN {}
  ELSE IF IsInt(arg.type) THEN {Low(IntOf(arg.type)), High(IntOf(arg.type))}
  ELSE IF arg.type.tag = "subrange" THEN {arg.type.low, arg.type.high} ELSE {}
Holds(r) ==
  \A i \in DOMAIN expr.args : LET numbers == Numbers(expr.args[i]) t == Formals(r)[i].type IN
    \/ numbers = {}
    \/ IsInt(t) /\ \A v \in numbers : Fits(v, IntOf(t))
    \/ t.tag = "subrange" /\ \A v \in numbers : t.low <= v /\ v <= t.high
PickHolds ==
  \A p \in expr.picks :
    p.verdict = "picked" /\ (\E r \in OfArity : Takes(r) /\ Holds(r)) => Holds(p.decl)

(* A call with variables of integer types goes to a routine whose formals hold
   every value of those types, if there is one: an overload never takes a value
   that another would have kept. (pick_integer_domain_overload.) *)
WholeTypes ==
  \A i \in DOMAIN expr.args :
    /\ expr.args[i].form = "value" /\ Shape(expr.args[i].type).tag # "subrange"
    /\ \A r \in OfArity : Shape(Formals(r)[i].type).tag # "subrange"
IntegerCallsHoldTheirDomain == expr.kind = "call" /\ WholeTypes => PickHolds

(* The same, for constants and subranges too. (rank_conversion,
   canonicalize_for_arithmetic.) *)
CallsKeepTheirValues == expr.kind = "call" => PickHolds
============================================================================
