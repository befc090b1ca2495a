--------------------------- MODULE OverloadRanking ---------------------------
(* Which routine a call means (emit_resolution.cc): the routines its name can
   reach, what each conversion of an actual to a formal costs, and the pick.

   A type is a record with a tag; two types are the same when the records are.
   An actual is the value of a variable, an untyped constant, nil or an address.
   A candidate has its formals (a type and whether it is passed by reference),
   the number of them that have defaults, and the scope frame it was found in:
   0 is the program's own code, 1, 2, ... the units it uses, the last first. *)
EXTENDS IntegerBinding, Sequences, SequencesExt

CONSTANT Parent                 \* class -> its parent, or "none"

IntType(t) == [tag |-> "int", int |-> t]
Subrange(low, high) == [tag |-> "subrange", low |-> low, high |-> high]
Distinct(name, under) == [tag |-> "distinct", name |-> name, under |-> under]
Plain(tag) == [tag |-> tag]     \* "ansi", "char", "pchar", "Pointer"
Real(rank) == [tag |-> "real", rank |-> rank]
ShortString(capacity) == [tag |-> "short", capacity |-> capacity]
SetOf(low, high) == [tag |-> "set", low |-> low, high |-> high]
ClassType(tag, class) == [tag |-> tag, class |-> class]     \* "object", "refclass", "pointer" to an object

(* The names of a declaration group are formals of their own; a formal passed
   by reference takes a variable, and the call writes to it. *)
flatten_call_param_info(groups) ==
  FlattenSeq([i \in DOMAIN groups |-> [n \in 1..groups[i].names |-> groups[i].formal]])

IsInt(t) == t.tag = "int" \/ (t.tag = "distinct" /\ t.under.tag = "int")
IntOf(t) == IF t.tag = "int" THEN t.int ELSE t.under.int
Shape(t) == IF t.tag = "distinct" THEN t.under ELSE t
strip_conversion_wrapper(t) ==
  LET s == Shape(t)
  IN IF s.tag = "subrange" THEN IntType(canonicalize_for_arithmetic(s.low, s.high)) ELSE s

type_is_pointerish(t) == t.tag \in {"refclass", "pointer", "Pointer", "pchar"}
native_pointer(t) == t.tag \in {"refclass", "pointer", "Pointer"}

class_ancestor_depth(ancestor, class) ==
  LET depth[c \in DOMAIN Parent, seen \in SUBSET DOMAIN Parent] ==
        IF c = ancestor THEN Cardinality(seen)
        ELSE IF Parent[c] = "none" \/ Parent[c] \in seen \cup {c} THEN -1
        ELSE depth[Parent[c], seen \cup {c}]
  IN depth[class, {}]
SameClassKind(a, p) == a.tag = p.tag /\ a.tag \in {"object", "refclass", "pointer"}
Inherits(a, p) == SameClassKind(a, p) /\ class_ancestor_depth(p.class, a.class) >= 0

(* Pascal's own conversions of pointers: up a class hierarchy, to and from the
   untyped pointer. *)
classify_pointer_conversion(target, source) ==
  /\ native_pointer(target) /\ native_pointer(source)
  /\ target = source \/ Inherits(source, target) \/ Plain("Pointer") \in {target, source}

----------------------------------------------------------------------------
(* The cost of a conversion: its rank, and a distance within the rank. *)
Ranks == <<"Exact", "Equal", "SetCompatible", "ClassHierarchy", "IntDomainCompatible",
           "IntWideningSameSign", "RealWidening", "RealNarrowing", "StringSameTagWiden",
           "StringToShortString", "StringToAnsiString", "OrdinalSignChange", "IntNarrowing",
           "IntegerToReal", "PointerValueConversion", "Operator">>
Score(rank, distance) == [rank |-> rank, distance |-> distance]
NotViable == Score("NotViable", 0)
Viable(s) == s # NotViable
Else(s, t) == IF Viable(s) THEN s ELSE t
ScoreIf(condition, rank) == IF condition THEN Score(rank, 0) ELSE NotViable

Position == [r \in ToSet(Ranks) |-> CHOOSE i \in DOMAIN Ranks : Ranks[i] = r]
conversion_score_less(s, t) ==
  \/ Position[s.rank] < Position[t.rank]
  \/ s.rank = t.rank /\ s.distance < t.distance

classify_set_conversion(a, p, var_param) ==
  IF a.tag # p.tag \/ a.low < p.low \/ a.high > p.high THEN NotViable
  ELSE ScoreIf(~var_param, "SetCompatible")

HierarchyScore(a, p) ==
  IF Inherits(a, p) THEN Score("ClassHierarchy", class_ancestor_depth(p.class, a.class)) ELSE NotViable

\* a and p are integer types
WideningScore(a, p) ==
  IF a.kind = p.kind /\ p.size >= a.size THEN Score("IntWideningSameSign", p.size - a.size) ELSE NotViable
SignChangeScore(a, p) ==
  IF p.size >= a.size THEN Score("OrdinalSignChange", p.size - a.size)
  ELSE Score("IntNarrowing", a.size - p.size)

RealScore(a, p) == IF p.rank >= a.rank THEN Score("RealWidening", p.rank - a.rank)
                   ELSE Score("RealNarrowing", a.rank - p.rank)
StringScore(a, p) ==
  Else(ScoreIf(p.tag = "short" /\ a.tag \in {"ansi", "char", "pchar"}, "StringToShortString"),
       ScoreIf(\/ p.tag = "ansi" /\ a.tag \in {"short", "char", "pchar"}
               \/ p.tag = "pchar" /\ a.tag \in {"short", "ansi"}, "StringToAnsiString"))

rank_conversion(arg, param, var_param) ==
  LET a == Shape(arg) p == Shape(param) IN
  IF arg = param THEN Score("Exact", 0)
  ELSE IF "set" \in {a.tag, p.tag} THEN classify_set_conversion(a, p, var_param)
  ELSE IF /\ ~type_is_pointerish(a) /\ ~type_is_pointerish(p)
          /\ strip_conversion_wrapper(a) = strip_conversion_wrapper(p) THEN Score("Equal", 0)
  ELSE IF a.tag = "short" /\ p.tag = "short" THEN Score("StringSameTagWiden", 0)
  ELSE IF var_param THEN NotViable
  ELSE IF Inherits(a, p) THEN HierarchyScore(a, p)
  ELSE IF IsInt(arg) /\ IsInt(param)
       THEN Else(WideningScore(IntOf(arg), IntOf(param)), SignChangeScore(IntOf(arg), IntOf(param)))
  ELSE IF a.tag = "real" /\ p.tag = "real" THEN RealScore(a, p)
  ELSE IF IsInt(arg) /\ p.tag = "real" THEN Score("IntegerToReal", p.rank)
  ELSE StringScore(a, p)

----------------------------------------------------------------------------
(* The numbers an integer actual can be, and the signedness it prefers. *)
Domain(low, high, kind) == [low |-> low, high |-> high, kind |-> kind]
NoDomain == Domain(0, 0, "none")
integer_actual_domain_for_type(type) ==
  LET t == Shape(type) IN
  IF t.tag = "subrange"
  THEN Domain(t.low, Larger(t.high, 0), IF t.low < 0 THEN "signed" ELSE "unsigned")
  ELSE IF t.tag = "int" THEN Domain(Low(t.int), High(t.int), t.int.kind)
  ELSE NoDomain
integer_actual_domain_for_expr(arg) ==
  IF arg.form # "constant" THEN IF arg.form = "value" THEN integer_actual_domain_for_type(arg.type) ELSE NoDomain
  ELSE IF Fits(arg.value, Signed(32)) THEN integer_actual_domain_for_type(IntType(Signed(32)))
  ELSE IF arg.value < 0 THEN Domain(arg.value, 0, "signed")
  ELSE Domain(0, arg.value, "unsigned")

\* Mutant: only the upper end is looked at.
integer_domain_fits_primitiveAbove(domain, formal) == domain.high <= High(formal)
integer_domain_fits_primitive(domain, formal) ==
  Low(formal) <= domain.low /\ domain.high <= High(formal)

rank_integer_domain_conversion(domain, param, var_param) ==
  IF var_param \/ ~IsInt(param) \/ ~integer_domain_fits_primitive(domain, IntOf(param)) THEN NotViable
  ELSE Score("IntDomainCompatible",
             IntOf(param).size * 2 + (IF domain.kind = IntOf(param).kind THEN 0 ELSE 1))

----------------------------------------------------------------------------
(* Operators `:=` from one type to another, the ones in scope. *)
find_assignment_operator(operators, source, target) ==
  LET viable == {o \in operators : o.to = target /\ Viable(rank_conversion(source, o.from, FALSE))}
      best == {o \in viable : \A q \in viable :
                 ~conversion_score_less(rank_conversion(source, q.from, FALSE),
                                        rank_conversion(source, o.from, FALSE))}
  IN Cardinality(best) = 1

score_argument_conversion(arg, formal, operators) ==
  LET p == Shape(formal.type) domain == integer_actual_domain_for_expr(arg) IN
  IF arg.form = "nil" THEN ScoreIf(type_is_pointerish(p), "Exact")
  ELSE IF arg.form = "address" THEN ScoreIf(type_is_pointerish(p), "PointerValueConversion")
  ELSE IF p.tag = "Pointer" /\ arg.type = formal.type THEN Score("Exact", 0)
  ELSE IF p.tag = "Pointer" /\ type_is_pointerish(Shape(arg.type)) THEN Score("PointerValueConversion", 0)
  ELSE LET direct == rank_conversion(arg.type, formal.type, formal.var_param)
           ordinal == IF domain = NoDomain THEN NotViable
                      ELSE rank_integer_domain_conversion(domain, formal.type, formal.var_param)
           pointers == ~formal.var_param /\ classify_pointer_conversion(p, Shape(arg.type))
           operator == ~formal.var_param /\ find_assignment_operator(operators, arg.type, formal.type)
       IN IF direct.rank = "Exact" THEN direct
          ELSE Else(ScoreIf(pointers, "PointerValueConversion"),
                    Else(ordinal, Else(direct, ScoreIf(operator, "Operator"))))

----------------------------------------------------------------------------
(* The routines a name can reach.  A frame is a scope: a with statement, the
   nested routines, the class, the program's own unit, then the imported ones.
   The first four hide all that is further out; an imported unit hides those
   after it unless one of its routines of the name is marked `overload`. *)
Innermost == -3
Own == 0
InFrame(routines, f) == {r \in routines : r.frame = f}
proc_set_allows_outer_lookup(routines) == \E r \in routines : r.overload
gather_callable_in_pascal_scope(routines) ==
  {r \in routines : \A f \in Innermost..(r.frame - 1) :
     LET nearer == InFrame(routines, f)
     IN nearer = {} \/ (f > Own /\ proc_set_allows_outer_lookup(nearer))}

Formals(r) == flatten_call_param_info(r.params)
ArityOk(r, args) == Len(args) <= Len(Formals(r)) /\ Len(Formals(r)) - r.defaults <= Len(args)

(* A candidate with the scores of its explicit arguments. *)
Scored(r, args, operators) ==
  [decl |-> r,
   scores |-> [i \in DOMAIN args |-> score_argument_conversion(args[i], Formals(r)[i], operators)]]
AllViable(c) == \A i \in DOMAIN c.scores : Viable(c.scores[i])

conversion_candidate_dominates(c, d) ==
  /\ \A i \in DOMAIN c.scores : ~conversion_score_less(d.scores[i], c.scores[i])
  /\ \E i \in DOMAIN c.scores : conversion_score_less(c.scores[i], d.scores[i])

Picked(r) == [verdict |-> "picked", decl |-> r]
Ambiguous == [verdict |-> "ambiguous"]
Unresolved == [verdict |-> "unresolved"]

(* What is left of the candidates is a function from their places in the order of
   the declarations.  One pass keeps the better of two, by its place; what it
   leaves must beat every other. *)
Kept(scored, i, best) ==
  IF i \in DOMAIN scored /\ (best = 0 \/ conversion_candidate_dominates(scored[i], scored[best]))
  THEN i ELSE best
Survivor(scored) ==
  LET best[i \in 0..Max(DOMAIN scored)] == IF i = 0 THEN 0 ELSE Kept(scored, i, best[i - 1])
  IN best[Max(DOMAIN scored)]
\* Mutant: what one pass leaves is taken.
pick_dominatingUnchecked(scored) == Picked(scored[Survivor(scored)].decl)
pick_dominating(scored) ==
  LET best == Survivor(scored) IN
  IF \A i \in DOMAIN scored \ {best} : conversion_candidate_dominates(scored[best], scored[i])
  THEN Picked(scored[best].decl) ELSE Ambiguous

(* The candidates whose integer formals hold the whole domain of their actuals
   are tried before all others. *)
DomainScore(r, args, i, score) ==
  LET domain == integer_actual_domain_for_expr(args[i]) formal == Formals(r)[i] IN
  IF domain = NoDomain \/ score.rank \in {"Exact", "Equal"} THEN score
  ELSE rank_integer_domain_conversion(domain, formal.type, formal.var_param)
DomainScored(c, args) ==
  [c EXCEPT !.scores = [i \in DOMAIN args |-> DomainScore(c.decl, args, i, c.scores[i])]]

OnlyViable(scored) == Restrict(scored, {i \in DOMAIN scored : AllViable(scored[i])})
TheOnly(scored) == scored[CHOOSE i \in DOMAIN scored : TRUE]
pick_overload_from_candidates(scored, args) ==
  LET viable == OnlyViable(scored)
      in_domain == OnlyViable([i \in DOMAIN viable |-> DomainScored(viable[i], args)])
      integers == \E i \in DOMAIN args : integer_actual_domain_for_expr(args[i]) # NoDomain
  IN IF DOMAIN viable = {} THEN Unresolved
     ELSE IF Cardinality(DOMAIN viable) = 1 THEN Picked(TheOnly(viable).decl)
     ELSE IF integers /\ DOMAIN in_domain # {} THEN pick_dominating(in_domain)
     ELSE pick_dominating(viable)

(* A candidate that is the only one of its arity is not ranked. *)
resolve_candidates(candidates, args, operators) ==
  LET arity_ok == {i \in DOMAIN candidates : ArityOk(candidates[i], args)}
      scored == [i \in arity_ok |-> Scored(candidates[i], args, operators)]
  IN IF Cardinality(arity_ok) = 1 THEN Picked(TheOnly(scored).decl)
     ELSE pick_overload_from_candidates(scored, args)
----------------------------------------------------------------------------
(* A name used as a value, where a procedural variable is wanted.  A signature
   is a result and the types of the formals; a procedural type is a signature
   and whether it is `of object'.  A name has the signatures of the methods the
   current class (or the object before its dot) has under it, the routines in
   scope, and the type of a local variable of the name. *)
Signature(result, params) == [result |-> result, params |-> params]
ProcType(of_object, signature) == [of_object |-> of_object, signature |-> signature]
Variable == [what |-> "variable"]
Method(signature) == [what |-> "method", signature |-> signature]
RoutineOf(frame, signature) == [what |-> "routine", frame |-> frame, signature |-> signature]
Nothing == [what |-> "nothing"]

uses_pointer_carrier(type) == type.tag \in {"refclass", "pointer", "Pointer"}

(* The formals that need an adapter, a set; what cannot be adapted is no match. *)
Changed(source, target) == {i \in DOMAIN source.params : source.params[i] # target.params[i]}
signature_matches(source, target, adapters) ==
  \/ source = target
  \/ /\ adapters /\ source.result = target.result /\ Len(source.params) = Len(target.params)
     /\ \A i \in Changed(source, target) :
          uses_pointer_carrier(source.params[i]) /\ uses_pointer_carrier(target.params[i])
procedural_value_signature_distance(source, target) == Cardinality(Changed(source, target))

\* Mutant: any declaration that matches.
ClosestAny(decls, target, adapters) ==
  LET fitting == {d \in decls : signature_matches(d.signature, target, adapters)}
  IN IF fitting = {} THEN Nothing ELSE CHOOSE d \in fitting : TRUE
Closest(decls, target, adapters) ==
  LET fitting == {d \in decls : signature_matches(d.signature, target, adapters)}
      far(d) == procedural_value_signature_distance(d.signature, target)
      closest(d) == \A e \in fitting \ {d} : far(d) < far(e)
  IN IF \E d \in fitting : closest(d) THEN CHOOSE d \in fitting : closest(d) ELSE Nothing

Methods(name) == {Method(m) : m \in ToSet(name.methods)}
resolve_method_value_binding(name, target, adapters) ==
  Closest(Methods(name), target.signature, adapters)

RoutinesNamed(name) == gather_callable_in_pascal_scope(ToSet(name.routines))
Routines(routines) == {RoutineOf(r.frame, r.signature) : r \in routines}
resolve_plain_proc_value_binding(name, target, adapters) ==
  IF name.local # <<>> \/ name.methods # <<>> THEN Nothing
  ELSE Closest(Routines(RoutinesNamed(name)), target.signature, adapters)

(* The name as text, when nothing is bound, and inside an adapter: the variable,
   or the nearest scope that has the name, where C++ looks for a routine that
   fits. *)
NameText(name, signature) ==
  LET routines == ToSet(name.routines)
      nearest == {r \in routines : \A q \in routines : r.frame <= q.frame}
      fitting == {r \in nearest : r.signature = signature}
  IN IF name.local # <<>> THEN Variable
     ELSE IF name.methods # <<>> \/ fitting = {} THEN Nothing
     ELSE LET r == CHOOSE r \in fitting : TRUE IN RoutineOf(r.frame, r.signature)

(* What is written where a procedural value is wanted. *)
maybe_convert_proc_value(name, target, adapters) ==
  LET method == resolve_method_value_binding(name, target, adapters)
      plain == resolve_plain_proc_value_binding(name, target, adapters)
  IN IF target.of_object
     THEN IF method = Nothing /\ name.local # <<>> THEN Variable ELSE method
     ELSE NameText(name, IF plain = Nothing THEN target.signature ELSE plain.signature)

(* Whether the name can be given for a procedural formal. *)
score_procedural_argument_conversion(name, target) ==
  IF name.local # <<>> THEN name.local[1] = target
  ELSE IF target.of_object THEN resolve_method_value_binding(name, target, FALSE) # Nothing
  ELSE resolve_plain_proc_value_binding(name, target, FALSE) # Nothing
============================================================================
