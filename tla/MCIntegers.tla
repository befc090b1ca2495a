----------------------------- MODULE MCIntegers -----------------------------
(* Types of 2, 3, 4 and 8 bits stand for those of 8, 16, 32 and 64; the shift
   mask needs a power of two for the last two.  Each type is tried at its ends,
   around zero and around the ends of the smaller types.  Calls have up to three
   routines of one formal, or of two, or from six scopes. *)
EXTENDS IntegerExpressions, TLC

MCWidth == (8 :> 2) @@ (16 :> 3) @@ (32 :> 4) @@ (64 :> 8)
MCSamples(t) ==
  {v \in {-128, -127, -8, -4, -2, -1, 0, 1, 2, 3, 7, 8, 15, 127, 128, 255} : Fits(v, t)}

MCParent == ("a" :> "none") @@ ("b" :> "a") @@ ("c" :> "b")

Formal(t) == [type |-> t, var_param |-> FALSE]
VarFormal(t) == [type |-> t, var_param |-> TRUE]
Routine(params, defaults) == [params |-> params, defaults |-> defaults, frame |-> Own, overload |-> TRUE]
One(formal) == Routine(<<[names |-> 1, formal |-> formal]>>, 0)
Two(f, g) == Routine(<<[names |-> 1, formal |-> f], [names |-> 1, formal |-> g]>>, 0)
Value(t) == [form |-> "value", type |-> t, value |-> 0]
Constant(v) == [form |-> "constant", type |-> IntType(LiteralType(v)), value |-> v]
Other(form) == [form |-> form, type |-> Plain("none"), value |-> 0]

IntTypes == {IntType(t) : t \in Types}
Subranges == {Subrange(0, 2), Subrange(-2, 1), Subrange(-8, 1)}
Wrapped == {Distinct("d", IntType(Signed(16)))}
Constants == {Constant(v) : v \in {-128, -8, -2, -1, 0, 1, 2, 3, 7, 8, 15, 255}}
Integers1 ==
  [routines |-> {One(Formal(t)) : t \in IntTypes \cup Subranges \cup Wrapped \cup {Real(1), Real(2)}}
                \cup {One(VarFormal(IntType(Signed(8)))), One(VarFormal(IntType(Signed(32))))},
   most |-> 3, arity |-> 1, operators |-> {},
   actuals |-> {Value(t) : t \in IntTypes \cup Subranges \cup Wrapped} \cup Constants]

Few == {IntType(Signed(8)), IntType(Unsigned(8)), IntType(Signed(32)), Plain("ansi")}
Pairs ==
  [routines |-> {Two(Formal(t), Formal(u)) : t, u \in Few}
                \cup {Routine(<<[names |-> 2, formal |-> Formal(IntType(Unsigned(8)))],
                                [names |-> 1, formal |-> Formal(Plain("ansi"))]>>, 1)},
   most |-> 3, arity |-> 2, operators |-> {},
   actuals |-> {Value(IntType(Signed(8))), Value(IntType(Unsigned(8))), Constant(1), Value(Plain("ansi"))}]

Others == {ShortString(9), ShortString(5), Plain("ansi"), Plain("char"), Plain("pchar"), Plain("Pointer"),
           ClassType("pointer", "a"), ClassType("pointer", "b"), ClassType("refclass", "a"),
           ClassType("object", "a"), ClassType("object", "b"), SetOf(0, 3), SetOf(0, 7)}
Mixed1 ==
  [routines |-> {One(Formal(t)) : t \in Others}
                \cup {One(VarFormal(t)) : t \in {ShortString(9), ClassType("object", "a"), Plain("Pointer")}},
   most |-> 3, arity |-> 1, operators |-> {[from |-> Plain("char"), to |-> ClassType("object", "a")]},
   actuals |-> {Value(t) : t \in Others \cup {ClassType("object", "c"), ClassType("refclass", "c"), Real(2)}}
               \cup {Other("nil"), Other("address")}]

Placed(t, f, o) == [One(Formal(t)) EXCEPT !.frame = f, !.overload = o]
Scopes ==
  [routines |-> {Placed(IntType(t), f, o) : t \in {Signed(8), Signed(32)}, f \in Innermost..2, o \in BOOLEAN},
   most |-> 3, arity |-> 1, operators |-> {},
   actuals |-> {Value(IntType(Signed(8))), Value(IntType(Unsigned(8)))}]

MCCallGroups == {Integers1, Pairs, Mixed1, Scopes}

(* Signatures of up to two formals that may be adapted to one another, or not. *)
Carried == {Plain("Pointer"), ClassType("refclass", "a"), IntType(Signed(32))}
Signatures == {Signature("none", <<t>>) : t \in Carried} \cup {Signature("int", <<Plain("Pointer")>>)}
              \cup {Signature("none", <<t, u>>) : t, u \in Carried \ {IntType(Signed(32))}}
MCProcTypes == {ProcType(o, s) : o \in BOOLEAN, s \in Signatures}

Named(s, f, o) == [signature |-> s, frame |-> f, overload |-> o]
Overloads == {<<s>> : s \in Signatures} \cup {<<p[1], p[2]>> : p \in {q \in Signatures \X Signatures : q[1] # q[2]}}
Local == {<<>>} \cup {<<t>> : t \in MCProcTypes}
NameOf(local, methods, routines) == [local |-> local, methods |-> methods, routines |-> routines]
MCProcNames ==
  {NameOf(l, m, <<>>) : l \in Local, m \in Overloads}
  \cup {NameOf(l, <<>>, [i \in DOMAIN r |-> Named(r[i], f, TRUE)]) : l \in Local, r \in Overloads, f \in Own..1}
  \cup {NameOf(<<>>, <<>>, <<Named(s, f, o), Named(t, f + 1, TRUE)>>) : s, t \in Signatures, f \in Own..1, o \in BOOLEAN}
  \cup {NameOf(<<>>, <<s>>, <<Named(t, Own, FALSE)>>) : s, t \in Signatures}
============================================================================
