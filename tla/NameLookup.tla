----------------------------- MODULE NameLookup -----------------------------
(***************************************************************************)
(* How the emitter finds what a Pascal name means, and what the C++ text   *)
(* it writes for the name means in turn (emit_lookup.cc, emit_procs.cc,    *)
(* emit_context.h, and the with statements and except clauses of           *)
(* emit_stmts.cc).                                                         *)
(*                                                                         *)
(* The emitter walks one method or routine of a unit: it enters nested     *)
(* routines, with statements and except clauses and leaves them again.  It *)
(* keeps one flat view of the scopes (ScopeStateView, here `scope'), which *)
(* each construct saves, extends and puts back.  `opened' is the history   *)
(* the view abbreviates: the constructs that are open, outermost first,    *)
(* each with what it declares.                                             *)
(*                                                                         *)
(* A resolved name is text.  <<"p", n>> is the mangled name and <<"p", n,  *)
(* k>> the k-th further overload of a nested routine; both, like the names *)
(* of result variables, are found by C++ in the scopes of the generated    *)
(* code.  <<"unit", u, n>> and <<"field", i, n>> are qualified.            *)
(***************************************************************************)
EXTENDS Naturals, Sequences, FiniteSets, SequencesExt

CONSTANTS
  Names,        \* the identifiers of the program
  ResultName,   \* the identifier `Result'
  NoName,       \* stands for an absent name or result variable
  Main,         \* the unit being emitted
  Runtime,      \* the implicit runtime unit
  Worlds,       \* what the units declare: sets of [uses, exports]
  Classes,      \* the members of the classes with methods; {} is no class
  Depth,        \* bound on the constructs open at a time
  NestedDepth,  \* bound on the routines among them
  Declarations  \* bound on the names a routine declares

ASSUME NameLookupAssumption ==
  /\ ResultName \in Names /\ Classes \subseteq SUBSET Names /\ NoName \notin Names
  /\ Depth \in Nat /\ NestedDepth \in Nat /\ Declarations \in Nat
  /\ \A w \in Worlds : /\ Main \in DOMAIN w.uses /\ Runtime \in DOMAIN w.exports
                       /\ DOMAIN w.uses \subseteq DOMAIN w.exports
                       /\ \A u \in DOMAIN w.uses : w.uses[u] \in Seq(DOMAIN w.exports)
                       /\ \A u \in DOMAIN w.exports : w.exports[u] \subseteq Names

VARIABLES
  world,    \* the units of the program, chosen once
  members,  \* the members of the class whose method is emitted
  scope,    \* ScopeStateView
  saved,    \* what restore_proc_state and its like will put back
  opened    \* the open constructs, outermost first

vars == <<world, members, scope, saved, opened>>

-----------------------------------------------------------------------------
(* The view.                                                               *)

NoScope ==
  [fn_name |-> NoName, result_slot |-> <<>>, bare_slot |-> <<>>,
   outer_name |-> NoName, outer_slot |-> <<>>, local_scope |-> {},
   nested |-> [n \in Names |-> <<>>], with_stack |-> <<>>, members |-> {},
   unit |-> Main, emission |-> Main]

\* The frames of a unit, innermost first: what it declares itself, its uses
\* clauses backwards, the runtime.
frames(u) == <<u>> \o Reverse(world.uses[u]) \o <<Runtime>>
declaring(u, n) == {i \in DOMAIN frames(u) : n \in world.exports[frames(u)[i]]}
nearest(u, n) == frames(u)[Min(declaring(u, n))]

\* The result variable of a function: one at the top of a routine, one for each
\* function nested in a function.
slot_name(pd, inherited) ==
  IF inherited = NoName THEN <<"p", ResultName>> ELSE <<"result", pd.name>>

\* EmitProcs::setup_proc_frame: the results a routine sees.
setup_proc_frame(s, pd) ==
  LET in_function == s.result_slot # <<>>
      outer_name == IF in_function THEN s.fn_name ELSE s.outer_name
      outer_slot == IF in_function THEN s.result_slot ELSE s.outer_slot
      slot == IF pd.function THEN slot_name(pd, outer_name) ELSE <<>>
  IN [s EXCEPT !.fn_name = pd.name,
               !.result_slot = slot,
               !.bare_slot = IF pd.function THEN slot ELSE outer_slot,
               !.outer_name = outer_name,
               !.outer_slot = outer_slot]

\* The C++ name of a nested routine: its mangled name, numbered when routines of
\* the name are in the table already.
nested_name(s, n) ==
  IF s.nested[n] = <<>> THEN <<"p", n>> ELSE <<"p", n, Len(s.nested[n])>>

\* EmitProcs::seed_proc_scope: parameters, variables and constants enter the
\* names, nested routines the names and the table of nested routines.
seed_proc_scope(s, pd) ==
  [s EXCEPT !.local_scope = @ \cup pd.locals \cup pd.nested,
            !.nested = [n \in Names |->
               IF n \in pd.nested
               THEN Append(@[n], nested_name(s, n)) ELSE @[n]]]

-----------------------------------------------------------------------------
(* Lookup.  Every step answers with at most one text.                      *)

Only(condition, text) == IF condition THEN <<text>> ELSE <<>>

\* 1. The name of the function, `Result', the name of the enclosing function.
result_of(s, n) ==
     Only(s.result_slot # <<>> /\ n = s.fn_name, s.result_slot)
  \o Only(s.bare_slot # <<>> /\ n = ResultName, s.bare_slot)
  \o Only(s.outer_slot # <<>> /\ n = s.outer_name, s.outer_slot)

\* 2. The innermost with statement whose receiver has the member.
with_member(s, n) ==
  LET having == {i \in DOMAIN s.with_stack : n \in s.with_stack[i].fields}
  IN Only(having # {}, <<"field", s.with_stack[Max(having)].at, n>>)

\* 3. resolve_nested_overloads: the first overload in the table.  (That of
\* several the only one without parameters is preferred is left out.)
nested_routine(s, n) == Only(s.nested[n] # <<>>, s.nested[n][1])

\* 6. The frames of the unit: a declaration of another unit is qualified, and so
\* is one of the frame's own unit when the text goes into another namespace.
unit_name(s, n) ==
  LET u == nearest(s.unit, n)
  IN Only(declaring(s.unit, n) # {},
          IF u # s.unit \/ s.emission # u THEN <<"unit", u, n>> ELSE <<"p", n>>)

\* EmitLookup::resolve_name_impl for an unqualified name.
resolve_name(s, n) ==
  Head(   result_of(s, n)
       \o with_member(s, n)
       \o nested_routine(s, n)
       \o Only(n \in s.local_scope, <<"p", n>>)
       \o Only(n \in s.members, <<"p", n>>)
       \o unit_name(s, n)
       \o << <<"p", n>> >>)

-----------------------------------------------------------------------------
(* Declaration-owned expressions: the default argument of a routine is     *)
(* lowered where the routine is called.  ScopedDeclarationLookup gives the *)
(* view it is lowered under: in another unit or at the unit's own level    *)
(* the local names are put aside, inside a routine they are kept.          *)

\* Mutant: the caller's with statements are not put aside.
unit_declarationInsideWith(s, u) ==
  [NoScope EXCEPT !.unit = u, !.emission = IF u = s.unit THEN s.emission ELSE s.unit,
                  !.with_stack = s.with_stack]

\* The view for a declaration that is not local to a routine, of unit u.
unit_declaration(s, u) ==
  [NoScope EXCEPT !.unit = u, !.emission = IF u = s.unit THEN s.emission ELSE s.unit]

\* The view for a declaration that is local to a routine: what belongs to the
\* caller only is put aside, unless the two contexts are the same one.
local_declaration(s, same) ==
  IF same THEN s
  ELSE [NoScope EXCEPT !.local_scope = s.local_scope, !.nested = s.nested,
                       !.with_stack = s.with_stack]

-----------------------------------------------------------------------------
(* The walk.                                                               *)

Init ==
  /\ world \in Worlds
  /\ members = {}
  /\ scope = NoScope
  /\ saved = <<>>
  /\ opened = <<>>

\* What a routine may declare: every identifier once, in a function neither its
\* own name nor `Result'.  cxx is what C++ knows by its names.
Routine(name) ==
  {pd \in [kind : {"routine"}, name : {name}, function : BOOLEAN, locals : SUBSET Names,
           nested : SUBSET Names, cxx : {<<>>}] :
     /\ pd.locals \cap pd.nested = {} /\ Cardinality(pd.locals \cup pd.nested) <= Declarations
     /\ pd.function => {pd.name, ResultName} \cap (pd.locals \cup pd.nested) = {}}

\* The C++ names a routine declares: its names, its nested routines under their
\* own names, its result variable.  s is the view of its body.
cxx_names(s, pd, at) ==
  LET overload(n) == Last(s.nested[n])
      texts ==    {<<<<"p", n>>, <<"local", at, n>>>> : n \in pd.locals}
             \cup {<<overload(n), <<"local", at, n>>>> : n \in pd.nested}
             \cup {<<s.result_slot, <<"result", at>>>> : f \in {pd.function} \cap {TRUE}}
  IN [text \in {t[1] : t \in texts} |-> (CHOOSE t \in texts : t[1] = text)[2]]

\* Opens the construct o with the view s.
Enter(o, s) ==
  /\ saved' = Append(saved, scope)
  /\ scope' = s
  /\ opened' = Append(opened, o)

EnterBody(pd, s) ==
  LET body == seed_proc_scope(setup_proc_frame(s, pd), pd)
  IN Enter([pd EXCEPT !.cxx = cxx_names(body, pd, Len(opened) + 1)], body)

\* EmitProcs::emit_proc_body: a routine of the unit, or a method.
emit_proc_body ==
  /\ opened = <<>>
  /\ \E class \in Classes :
       /\ members' = class
       /\ \E name \in IF class = {} THEN world.exports[Main] ELSE class : \E pd \in Routine(name) :
            EnterBody(pd, [scope EXCEPT !.members = class])
  /\ UNCHANGED world

\* EmitProcs::emit_nested_proc_lambda, when the declarations of the routine
\* around it are emitted.
emit_nested_proc_lambda ==
  /\ opened # <<>> /\ Last(opened).kind = "routine" /\ Len(opened) < NestedDepth
  /\ \E name \in Last(opened).nested : \E pd \in Routine(name) :
       /\ scope.bare_slot # <<>> => ResultName \notin pd.locals \cup pd.nested
       /\ EnterBody(pd, scope)
  /\ UNCHANGED <<world, members>>

\* A with statement: the members of its receiver come before everything.
emit_with ==
  /\ opened # <<>> /\ Len(opened) < Depth
  /\ \E fields \in SUBSET Names \ {{}} :
       Enter([kind |-> "with", fields |-> fields, cxx |-> <<>>],
             [scope EXCEPT !.with_stack = Append(@, [at |-> Len(opened) + 1, fields |-> fields])])
  /\ UNCHANGED <<world, members>>

\* A clause of a try statement with a variable, which joins the local names.
emit_except_handler ==
  /\ opened # <<>> /\ Len(opened) < Depth
  /\ \E name \in Names \ {ResultName} :
       Enter([kind |-> "handler", name |-> name,
              cxx |-> [text \in {<<"p", name>>} |-> <<"local", Len(opened) + 1, name>>]],
             [scope EXCEPT !.local_scope = @ \cup {name}])
  /\ UNCHANGED <<world, members>>

\* Mutant: the table of nested routines is not put back.
restoreWithoutRoutines ==
  /\ opened # <<>>
  /\ scope' = [Last(saved) EXCEPT !.nested = scope.nested]
  /\ saved' = Front(saved)
  /\ opened' = Front(opened)
  /\ members' = IF Len(opened) = 1 THEN {} ELSE members
  /\ UNCHANGED world

\* restore_proc_state, ~WithStackScope, the end of the clause.
restore ==
  /\ opened # <<>>
  /\ scope' = Last(saved)
  /\ saved' = Front(saved)
  /\ opened' = Front(opened)
  /\ members' = IF Len(opened) = 1 THEN {} ELSE members
  /\ UNCHANGED world

Next == emit_proc_body \/ emit_nested_proc_lambda \/ emit_with \/ emit_except_handler \/ restore

Spec == Init /\ [][Next]_vars

-----------------------------------------------------------------------------
(* What a name means.                                                      *)

Declares(o, n) ==
  CASE o.kind = "routine" -> \/ n \in o.locals \cup o.nested
                             \/ o.function /\ n \in {o.name, ResultName}
    [] o.kind = "with" -> n \in o.fields
    [] o.kind = "handler" -> n = o.name

Declared(i, n) ==
  LET o == opened[i]
  IN CASE o.kind = "with" -> <<"field", i, n>>
       [] o.kind = "routine" /\ n \notin o.locals \cup o.nested -> <<"result", i>>
       [] OTHER -> <<"local", i, n>>

InUnit(u, n) == IF declaring(u, n) = {} THEN <<"none", n>> ELSE <<"unit", nearest(u, n), n>>

\* In Pascal: what the innermost of the first `upto' constructs declares, else a
\* member of the class, else what the frames of the unit declare.
Pascal(n, upto) ==
  LET having == {i \in 1 .. upto : Declares(opened[i], n)}
  IN CASE having # {} -> Declared(Max(having), n)
       [] having = {} /\ upto > 0 /\ n \in members -> <<"member", n>>
       [] OTHER -> InUnit(Main, n)

\* In C++: a qualified text means what it says, any other what the innermost
\* block, the class or the namespace of the unit declares by it.
Cxx(text) ==
  LET having == {i \in DOMAIN opened : text \in DOMAIN opened[i].cxx}
      n == text[2]
      known == CASE having # {} -> opened[Max(having)].cxx[text]
                 [] having = {} /\ text = <<"p", n>> /\ n \in members -> <<"member", n>>
                 [] having = {} /\ text = <<"p", n>> /\ n \notin members /\ n \in world.exports[Main] ->
                      <<"unit", Main, n>>
                 [] OTHER -> <<"none", n>>
  IN IF text[1] \in {"unit", "field"} THEN text ELSE known

-----------------------------------------------------------------------------
(* Properties.                                                             *)

RoutinesUpTo(upto) == {i \in 1 .. upto : opened[i].kind = "routine"}

\* The functions whose result a name can reach: the routine itself and the next
\* function around it.
Reached(upto) ==
  LET current == Max(RoutinesUpTo(upto))
      around == {i \in RoutinesUpTo(current - 1) : opened[i].function}
  IN {i \in {current} : opened[i].function}
     \cup {i \in around : i = Max(around)}

\* The known places where the order of the steps is not the order of the scopes:
\* a result comes before everything, and only two of them are known; a nested
\* routine comes before the names declared inside it, and stays beside a nested
\* routine of the same name; the members of a with statement come before the
\* variable of an except clause in it.
ResultFirst(n, upto) ==
  \E i \in Reached(upto) : n \in {opened[i].name, ResultName} /\ Pascal(n, upto) # <<"result", i>>
ResultTooFar(n, upto) ==
  \E i \in RoutinesUpTo(upto) \ Reached(upto) : Pascal(n, upto) = <<"result", i>>
RoutineFirst(n, upto) ==
  \E j, i \in 1 .. upto : /\ j < i /\ opened[j].kind = "routine" /\ n \in opened[j].nested
                          /\ Pascal(n, upto) = <<"local", i, n>>
FieldFirst(n, upto) ==
  \E j, i \in 1 .. upto : /\ j < i /\ opened[j].kind = "with" /\ n \in opened[j].fields
                          /\ Pascal(n, upto) = <<"local", i, n>>
Displaced(n, upto) ==
  \/ ResultFirst(n, upto) \/ ResultTooFar(n, upto)
  \/ RoutineFirst(n, upto) \/ FieldFirst(n, upto)

\* Wherever the emitter stands, the text it writes for a name means, in the
\* scopes of the generated C++, what the innermost Pascal scope declares: after
\* any number of constructs were entered and left, with a result variable for
\* every function, with nested routines of one name numbered, and with units
\* that declare the same name.  The four displacements are the only exceptions.
NamesMeanTheInnermost ==
  opened # <<>> =>
    \A n \in Names :
      Displaced(n, Len(opened)) \/ Cxx(resolve_name(scope, n)) = Pascal(n, Len(opened))

\* The default argument of a routine of unit u that names n.
Known(u, n) == declaring(u, n) # {}
UnitDefault(u, n) == Cxx(resolve_name(unit_declaration(scope, u), n))

\* The default argument of a routine that is declared in the routine opened[i].
\* The contexts of a call and of the declaration can be one when the caller is
\* that routine.
LocalDefaults(i, n) ==
  {Cxx(resolve_name(local_declaration(scope, same), n)) :
     same \in {FALSE} \cup {i = Max(RoutinesUpTo(Len(opened)))}}

\* A default argument means at every call what it means where the routine is
\* declared: always for a routine of another unit, and for a routine of this
\* unit or of an enclosing routine unless something opened since the
\* declaration declares the name too.
DefaultsKeepTheirMeaning ==
  opened # <<>> =>
    \A n \in Names :
      /\ \A u \in DOMAIN world.uses \ {Main} : Known(u, n) => UnitDefault(u, n) = InUnit(u, n)
      /\ Known(Main, n) /\ (\A i \in DOMAIN opened : ~Declares(opened[i], n)) /\ n \notin members
           => UnitDefault(Main, n) = InUnit(Main, n)
      /\ \A i \in RoutinesUpTo(Len(opened)) :
           LET meant == Pascal(n, i) IN
             /\ meant[1] \notin {"result", "member"} /\ ~Displaced(n, i)
             /\ \A j \in i + 1 .. Len(opened) : ~Declares(opened[j], n)
             => LocalDefaults(i, n) = {meant}

=============================================================================
