----------------------------- MODULE TypeScopes -----------------------------
(***************************************************************************)
(* How the type registry binds the type names of one unit while the parser *)
(* reads it (typereg.cc): the tables of the unit, the chains of lookup     *)
(* frames, and the resolver that settles what each written name refers to. *)
(*                                                                         *)
(* The parser hands over one declaration list at a time: a type section,   *)
(* or one variable, constant or routine.  A type is identified by its      *)
(* site, the place of its first declaration: <<i, j>> is declaration j of  *)
(* list i, <<i, 1, k, l>> declaration l of list k of the routine that is   *)
(* list i, <<0, k>> the k-th exported type of the other units, and s \o    *)
(* <<0>> the type nested in the record s.                                  *)
(*                                                                         *)
(* A declaration refers to at most one name, its path: a type name, or two *)
(* identifiers with a dot between them.  Frames that bring no types are    *)
(* left out.                                                               *)
(***************************************************************************)
EXTENDS Naturals, Sequences, FiniteSets, SequencesExt

CONSTANTS
  Unit,          \* the unit that is parsed
  Runtime,       \* the implicit unit every unit uses
  Uses,          \* what the uses clauses of its two sections name, in order
  Exports,       \* the types that other units export: a sequence of [unit, type]
  NoName,        \* stands for an absent identifier
  Lists,         \* the declaration lists a text is made of
  MaxLists,      \* bound on the lists of a text
  MaxDeclarations \* bound on its declarations

VARIABLES
  registry,  \* the symbols and tables of the unit, the bound names, the errors
  chain,     \* the lookup frames of both sections, innermost first
  section,   \* where the parser is
  text       \* what it has read

vars == <<registry, chain, section, text>>

\* The table f with v at x.
Put(f, x, v) == [y \in DOMAIN f \cup {x} |-> IF y = x THEN v ELSE f[y]]

NoSite == <<>>
Nothing == [n \in {} |-> NoSite]
TypeForms == {"alias", "pointer", "record", "node", "forward", "class", "enum"}
ToPointer(d) == d.form \in {"pointer", "node"}
IsTypes(list) == list[1].form \in TypeForms

\* What the parser hands over: a section of types of the given forms, or one value.
\* Enumerations have labels, and so have values of such a type.
IsList(list, types, values) ==
  /\ Len(list) \in Nat \ {0} /\ DOMAIN list = 1 .. Len(list)
  /\ \/ \A j \in DOMAIN list : list[j].form \in types
     \/ Len(list) = 1 /\ list[1].form \in values
  /\ \A j \in DOMAIN list : list[j].name # NoName
  /\ \A j \in DOMAIN list : list[j].form \in {"proc", "forward", "class"} => list[j].label = NoName

\* Classes are declared in units, not in routines.
LocalForms == TypeForms \ {"forward", "class"}
IsUnitList(list) ==
  /\ IsList(list, TypeForms, {"var", "const", "proc"})
  /\ list[1].form = "proc" =>
       /\ Len(list[1].locals) \in Nat /\ DOMAIN list[1].locals = 1 .. Len(list[1].locals)
       /\ \A k \in DOMAIN list[1].locals : IsList(list[1].locals[k], LocalForms, {"var", "const", "proc"})

-----------------------------------------------------------------------------
(* Symbols.                                                                *)

\* make_type_symbol_for_type_with_owner: `same' is the type whose descriptor the
\* symbol has; that of an alias is found when its name is resolved.
Symbol(d, s) ==
  [form |-> d.form, forward |-> d.form = "forward", nested |-> d.nested,
   same |-> IF d.form = "alias" THEN NoSite ELSE s]

NestedSymbol(s) == [form |-> "record", forward |-> FALSE, nested |-> NoName, same |-> s]

\* The symbol s for d, with the type nested in it (populate_nested_types).
WithSymbol(r, s, d) ==
  [r EXCEPT !.symbols = Put(Put(@, s \o <<0>>, NestedSymbol(s \o <<0>>)), s, Symbol(d, s))]

Sections == {"interface", "implementation"}
Both(table) == table.interface \cup table.implementation

\* UnitInfo::find_type.
find_unit_type_symbol(r, n) ==
  CASE n \in DOMAIN r.types.interface -> r.types.interface[n]
    [] n \in DOMAIN r.types.implementation \ DOMAIN r.types.interface -> r.types.implementation[n]
    [] OTHER -> NoSite

Duplicate(r, n) == [r EXCEPT !.errors = @ \cup {<<"duplicate", n>>}]

\* index_enum_info: a label is a value of the unit.
unit_value_name_is_taken(r, sec, n) ==
  IF sec = "interface" THEN n \in r.storage.interface \cup r.routines.interface
  ELSE n \in Both(r.storage) \cup Both(r.routines)

index_enum_info(r, sec, label) ==
  LET checked == IF unit_value_name_is_taken(r, sec, label) \/ label \in Both(r.labels)
                 THEN Duplicate(r, label) ELSE r
  IN IF label = NoName THEN r ELSE [checked EXCEPT !.labels[sec] = @ \cup {label}]

\* A type name of the unit.  A class completes its forward declaration; any other
\* second declaration is a duplicate, and gets a symbol that no table knows.
register_type(r, sec, d, s) ==
  LET existing == find_unit_type_symbol(r, d.name)
      completes == /\ existing # NoSite /\ d.form = "class"
                   /\ r.symbols[existing].form = "forward"
  IN CASE existing = NoSite ->
            index_enum_info([WithSymbol(r, s, d) EXCEPT !.types[sec] = Put(@, d.name, s)],
                            sec, d.label)
       [] completes -> [r EXCEPT !.symbols[existing].form = "class"]
       [] OTHER -> Duplicate(WithSymbol(r, s, d), d.name)

\* Mutant: the labels of enumerations are forgotten.
register_storageOverLabels(r, sec, d) ==
  index_enum_info(IF d.name \in Both(r.storage)
                  THEN Duplicate(r, d.name) ELSE [r EXCEPT !.storage[sec] = @ \cup {d.name}],
                  sec, d.label)

\* A variable or a constant, and the labels of its type.
register_storage(r, sec, d) ==
  index_enum_info(IF d.name \in Both(r.storage) \cup Both(r.labels)
                  THEN Duplicate(r, d.name) ELSE [r EXCEPT !.storage[sec] = @ \cup {d.name}],
                  sec, d.label)

register_routine(r, sec, d) ==
  IF d.name \in Both(r.labels)
  THEN Duplicate(r, d.name) ELSE [r EXCEPT !.routines[sec] = @ \cup {d.name}]

\* The state after op(state, j) at each place j of a list.
Over(list, state, op(_, _)) ==
  LET after[j \in 0 .. Len(list)] == IF j = 0 THEN state ELSE op(after[j - 1], j)
  IN after[Len(list)]

register_decl_list(r, sec, list, i) ==
  Over(list, r, LAMBDA q, j :
    CASE IsTypes(list) -> register_type(q, sec, list[j], <<i, j>>)
      [] list[j].form \in {"var", "const"} -> register_storage(q, sec, list[j])
      [] list[j].form = "proc" -> register_routine(q, sec, list[j]))

-----------------------------------------------------------------------------
(* Frames and lookup.                                                      *)

Frame(kind, unit, own) == [kind |-> kind, unit |-> unit, restricted |-> FALSE, own |-> own]

\* push_visible_type_decl_frame: one declaration.  In a unit the frame does not
\* show the tables of the unit.
DeclarationFrame(kind, n, s) ==
  [kind |-> kind, unit |-> Unit, restricted |-> kind # "local", own |-> n :> s]

\* make_unit_import_context, innermost first: the runtime, what the interface uses,
\* and for the implementation what that uses.
make_unit_import_context(sec) ==
  LET units == <<Runtime>> \o Uses.interface
                 \o (IF sec = "implementation" THEN Uses.implementation ELSE <<>>)
  IN Reverse([k \in DOMAIN units |-> Frame("import", units[k], Nothing)])

exported(u, n) ==
  LET having == {k \in DOMAIN Exports : Exports[k].unit = u /\ Exports[k].type.name = n}
  IN IF having = {} THEN NoSite ELSE <<0, CHOOSE k \in having : TRUE>>

\* scope_frame_find_type.
find_in_frame(r, f, n) ==
  LET live(sec) == IF n \in DOMAIN r.types[sec] THEN r.types[sec][n] ELSE NoSite
  IN CASE n \in DOMAIN f.own -> f.own[n]
       [] n \notin DOMAIN f.own /\ ~f.restricted /\ f.kind = "import" -> exported(f.unit, n)
       [] n \notin DOMAIN f.own /\ ~f.restricted /\ f.kind \in Sections -> live(f.kind)
       [] OTHER -> NoSite

\* The first of the frames that has the name.
FirstIn(r, frames, n) ==
  LET having == SelectSeq(frames, LAMBDA f : find_in_frame(r, f, n) # NoSite)
  IN IF having = <<>> THEN NoSite ELSE find_in_frame(r, having[1], n)

\* lookup_nested_type_symbol_path, through an alias that is resolved.
nested_of(r, s, n) ==
  LET t == r.symbols[s].same
  IN IF s # NoSite /\ t # NoSite /\ r.symbols[t].nested = n THEN t \o <<0>> ELSE NoSite

\* TypeRegistry::lookup_type_symbol_in_context: of a path the first part is a type,
\* else a unit whose frames are in the chain.
lookup_type_symbol(r, frames, path) ==
  LET root == FirstIn(r, frames, path[1])
      nested == IF root = NoSite THEN NoSite ELSE nested_of(r, root, path[2])
      of_unit == SelectSeq(frames, LAMBDA f : f.kind # "local" /\ f.unit = path[1])
  IN CASE Len(path) = 1 -> root
       [] Len(path) = 2 /\ nested # NoSite -> nested
       [] OTHER -> FirstIn(r, of_unit, path[2])

-----------------------------------------------------------------------------
(* The resolver.                                                           *)

\* The frames of each declaration of a section: the frames before it, then one for
\* each declaration of the section up to itself.
index_type_section(list, symbols, kind, frames) ==
  [j \in DOMAIN list |->
     Reverse([k \in 1 .. j |-> DeclarationFrame(kind, list[k].name, symbols[k])]) \o frames]

\* What resolve_type_decl_section knows when it comes to declaration j: the symbols
\* of the whole section, the names still to come, and the classes that have a
\* forward declaration.
Position(r, list, symbols, j) ==
  LET last(n) == CHOOSE k \in DOMAIN list :
                   list[k].name = n /\ \A l \in k + 1 .. Len(list) : list[l].name # n
      classes == {k \in 1 .. j : r.symbols[symbols[k]].forward}
  IN [symbols |-> [n \in {list[k].name : k \in DOMAIN list} |-> symbols[last(n)]],
      unresolved |-> {list[k].name : k \in DOMAIN list} \ {list[k].name : k \in 1 .. j},
      classes |-> [n \in {list[k].name : k \in classes} |->
                     symbols[CHOOSE k \in classes : list[k].name = n]]]

\* Outside of type sections nothing is known.
Anywhere == [symbols |-> Nothing, unresolved |-> {}, classes |-> Nothing]

\* Mutant: a name that is still to come is looked up like any other.
resolve_named_typeEagerly(r, path, pointer, frames, position) ==
  IF Len(path) = 1 /\ pointer /\ path[1] \in DOMAIN position.symbols
  THEN position.symbols[path[1]]
  ELSE lookup_type_symbol(r, frames, path)

\* TypeDescriptorResolver::resolve_named_type_symbol: the target of a pointer is
\* first sought in the whole section, any name then among the forward classes and
\* last in the frames.  NoSite is an error.
resolve_named_type(r, path, pointer, frames, position) ==
  LET n == path[1]
      found == lookup_type_symbol(r, frames, path)
      to_come == n \in position.unresolved
  IN CASE Len(path) = 1 /\ pointer /\ n \in DOMAIN position.symbols -> position.symbols[n]
       [] Len(path) = 1 /\ ~(pointer /\ n \in DOMAIN position.symbols)
            /\ n \in DOMAIN position.classes -> position.classes[n]
       [] Len(path) = 1 /\ ~(pointer /\ n \in DOMAIN position.symbols)
            /\ n \notin DOMAIN position.classes /\ to_come
            /\ found = position.symbols[n] /\ ~r.symbols[found].forward -> NoSite
       [] OTHER -> found

\* Notes what the name at the site x refers to.
Note(r, x, s) ==
  [r EXCEPT !.meant = Put(@, x, s),
            !.errors = IF s = NoSite THEN @ \cup {<<"type", x>>} ELSE @]

\* The frames of the field of a record: its nested type comes before it.
FieldFrames(d, s, frames) ==
  IF d.nested = NoName THEN frames
  ELSE <<DeclarationFrame("local", d.nested, s \o <<0>>)>> \o frames

\* TypeDescriptorResolver::resolve_children: the name inside a record or a pointer.
resolve_children(r, d, x, s, frames, position) ==
  IF d.form \in {"record", "pointer", "node"}
  THEN Note(r, x, resolve_named_type(r, d.path, ToPointer(d), FieldFrames(d, s, frames), position))
  ELSE r

\* TypeDescriptorResolver::resolve_symbol_declaration.  An alias takes the type it
\* names over, and may not name itself.
resolve_declaration(r, d, x, s, frames, position) ==
  LET named == resolve_named_type(r, d.path, FALSE, frames, position)
      aliased == IF named = s THEN NoSite ELSE named
  IN IF d.form # "alias" THEN resolve_children(r, d, x, s, frames, position)
     ELSE [Note(r, x, aliased) EXCEPT
             !.symbols[s].same = IF aliased = NoSite THEN @ ELSE r.symbols[aliased].same]

\* resolve_class_parent, after the section is resolved: a class in the frames.
resolve_class_links(r, d, x, frames) ==
  LET found == lookup_type_symbol(r, frames, d.path)
      t == IF found = NoSite THEN NoSite ELSE r.symbols[found].same
  IN IF d.form # "class" \/ d.path = <<>> THEN r
     ELSE Note(r, x, IF t # NoSite /\ r.symbols[t].form \in {"class", "forward"}
                     THEN found ELSE NoSite)

\* A section at the sites x \o <<j>>, whose symbols are known.
resolve_type_section(r, list, x, symbols, frames) ==
  LET resolved == Over(list, r, LAMBDA q, j :
                    resolve_declaration(q, list[j], x \o <<j>>, symbols[j], frames[j],
                                        Position(q, list, symbols, j)))
  IN Over(list, resolved, LAMBDA q, j : resolve_class_links(q, list[j], x \o <<j>>, frames[j]))

resolve_path(r, d, x, frames) ==
  IF d.path = <<>> THEN r ELSE Note(r, x, resolve_named_type(r, d.path, FALSE, frames, Anywhere))

-----------------------------------------------------------------------------
(* The declarations of a routine.  Its names are kept apart from those of  *)
(* the unit: labels may not be declared twice, nor types.                  *)

NoLocals == [types |-> {}, values |-> {}, labels |-> {}]

note_value(q, n) ==
  LET checked == IF n \in q.local.labels THEN [q EXCEPT !.r = Duplicate(@, n)] ELSE q
  IN [checked EXCEPT !.local.values = @ \cup {n}]

note_label(q, label) ==
  LET checked == IF label \in q.local.values THEN [q EXCEPT !.r = Duplicate(@, label)] ELSE q
  IN IF label = NoName THEN q
     ELSE [checked EXCEPT !.local.values = @ \cup {label}, !.local.labels = @ \cup {label}]

note_type(q, d, x) ==
  IF d.name \in q.local.types THEN [q EXCEPT !.r = Duplicate(@, d.name)]
  ELSE note_label([q EXCEPT !.r = WithSymbol(@, x, d), !.local.types = @ \cup {d.name}], d.label)

\* One list of the routine, at the sites x \o <<j>>.  A type declared twice
\* brings no second frame.
index_local_list(q, list, x) ==
  LET noted == Over(list, q, LAMBDA p, j :
                 IF IsTypes(list) THEN note_type(p, list[j], x \o <<j>>)
                 ELSE note_label(note_value(p, list[j].name), list[j].label))
      kept == SelectSeq([j \in DOMAIN list |-> j], LAMBDA j : x \o <<j>> \in DOMAIN noted.r.symbols)
      frames == index_type_section([k \in DOMAIN kept |-> list[kept[k]]],
                                   [k \in DOMAIN kept |-> x \o <<kept[k]>>], "local", q.frames)
  IN CASE ~IsTypes(list) -> [noted EXCEPT !.r = resolve_path(@, list[1], x \o <<1>>, q.frames)]
       [] IsTypes(list) /\ Len(kept) < Len(list) -> noted
       [] OTHER -> [noted EXCEPT !.frames = frames[Len(list)],
                                 !.r = resolve_type_section(@, list, x,
                                         [j \in DOMAIN list |-> x \o <<j>>], frames)]

\* A routine at the site x: its parameter, then its own declarations.
index_routine(r, d, x, frames) ==
  Over(d.locals, [r |-> resolve_path(r, d, x, frames), frames |-> frames, local |-> NoLocals],
       LAMBDA q, k : index_local_list(q, d.locals[k], x \o <<k>>)).r

-----------------------------------------------------------------------------
(* The calls of the parser.                                                *)

NoTypes == [sec \in Sections |-> Nothing]
NoValues == [sec \in Sections |-> {}]

\* The types of the units in use, each with the type nested in it.
ExportedSymbols ==
  [s \in {<<0, k>> : k \in DOMAIN Exports} \cup {<<0, k, 0>> : k \in DOMAIN Exports} |->
     IF Len(s) = 2 THEN Symbol(Exports[s[2]].type, s) ELSE NestedSymbol(s)]

\* begin_parsed_unit, and the uses clause of the interface.
Init ==
  /\ registry = [symbols |-> ExportedSymbols, types |-> NoTypes, storage |-> NoValues,
                  routines |-> NoValues, labels |-> NoValues, meant |-> Nothing, errors |-> {}]
  /\ chain = [interface |-> make_unit_import_context("interface"), implementation |-> <<>>]
  /\ section = "interface"
  /\ text = <<>>

\* set_parsed_unit_imports for the implementation: the two frames of the unit show
\* whatever is in its tables.
set_parsed_unit_imports ==
  /\ section = "interface" /\ registry.errors = {}
  /\ section' = "implementation"
  /\ chain' = [chain EXCEPT !.implementation =
                 <<Frame("implementation", Unit, Nothing), Frame("interface", Unit, Nothing)>>
                 \o make_unit_import_context("implementation")]
  /\ UNCHANGED <<registry, text>>

Locals(list) == IF list[1].form = "proc" THEN list[1].locals ELSE <<>>
Size(list) == Len(list) + FoldLeft(LAMBDA n, l : n + Len(l), 0, Locals(list))
TextSize == FoldLeft(LAMBDA n, entry : n + Size(entry.list), 0, text)

\* The symbol of each declaration once the list is registered.
SymbolsOf(r, list, i) ==
  [j \in DOMAIN list |-> IF <<i, j>> \in DOMAIN r.symbols THEN <<i, j>>
                         ELSE find_unit_type_symbol(r, list[j].name)]

\* bind_parsed_declarations: the tables of the unit first, then the frames, then
\* the names.  A unit with an error is not followed further.
bind_parsed_declarations ==
  /\ section \in Sections /\ registry.errors = {}
  /\ Len(text) < MaxLists
  /\ \E list \in Lists :
       /\ TextSize + Size(list) <= MaxDeclarations
       /\ section = "interface" => Locals(list) = <<>>
       /\ LET i == Len(text) + 1
              before == chain[section]
              r == register_decl_list(registry, section, list, i)
              symbols == SymbolsOf(r, list, i)
              frames == index_type_section(list, symbols, section, before)
          IN /\ registry' = CASE IsTypes(list) -> resolve_type_section(r, list, <<i>>, symbols, frames)
                              [] list[1].form \in {"var", "const"} ->
                                   resolve_path(r, list[1], <<i, 1>>, before)
                              [] list[1].form = "proc" -> index_routine(r, list[1], <<i, 1>>, before)
             /\ chain' = [chain EXCEPT ![section] = IF IsTypes(list) THEN frames[Len(list)] ELSE @]
             /\ text' = Append(text, [section |-> section, list |-> list])
  /\ UNCHANGED section

\* bind_parsed_unit_bodies: report_type_value_collisions.
bind_parsed_unit_bodies ==
  /\ section = "implementation" /\ registry.errors = {}
  /\ section' = "finished"
  /\ LET types == DOMAIN registry.types.interface \cup DOMAIN registry.types.implementation
         values == Both(registry.storage) \cup Both(registry.routines) \cup Both(registry.labels)
     IN registry' = [registry EXCEPT !.errors = @ \cup {<<"duplicate", n>> : n \in types \cap values}]
  /\ UNCHANGED <<chain, text>>

Next == set_parsed_unit_imports \/ bind_parsed_declarations \/ bind_parsed_unit_bodies

Spec == Init /\ [][Next]_vars

-----------------------------------------------------------------------------
(* What a type name means in Pascal, by the text alone.                    *)

Declaration(x) ==
  IF Len(x) = 2 THEN text[x[1]].list[x[2]] ELSE text[x[1]].list[1].locals[x[3]][x[4]]
SectionOf(x) == text[x[1]].section
ListOf(x) == Front(x)

UnitSites == UNION {{<<i, j>> : j \in DOMAIN text[i].list} : i \in DOMAIN text}
LocalSites ==
  UNION {UNION {{<<i, 1, k, l>> : l \in DOMAIN Locals(text[i].list)[k]} :
                k \in DOMAIN Locals(text[i].list)} : i \in DOMAIN text}
Sites == UnitSites \cup LocalSites

Before(x, y) == \E k \in DOMAIN x \cap DOMAIN y : x[k] < y[k] /\ \A l \in 1 .. k - 1 : x[l] = y[l]
Earliest(S) == CHOOSE x \in S : \A y \in S \ {x} : Before(x, y)
SameScope(x, y) == Len(x) = Len(y) /\ IF Len(x) = 2 THEN SectionOf(x) = SectionOf(y) ELSE x[1] = y[1]

\* The declarations of the type n in the scope of x that x sees: those up to itself
\* (a class is no parent of its own), and for the target of a pointer those of its
\* whole section.
Seen(n, x, whole) ==
  {y \in Sites : /\ SameScope(x, y) /\ Declaration(y).form \in TypeForms /\ Declaration(y).name = n
                 /\ \/ Before(y, x) \/ (y = x /\ Declaration(x).form # "class")
                    \/ whole /\ ListOf(x) = ListOf(y)}

\* The implementation also sees the interface.
OwnTypes(n, x, whole) ==
  Seen(n, x, whole) \cup
  {y \in UnitSites : /\ SectionOf(y) = "interface" /\ SectionOf(x) = "implementation"
                     /\ Declaration(y).form \in TypeForms /\ Declaration(y).name = n}

\* The used units are searched from the last to the first.
Imported(n, sec) ==
  LET units == SelectSeq(make_unit_import_context(sec), LAMBDA f : exported(f.unit, n) # NoSite)
  IN IF units = <<>> THEN NoSite ELSE exported(units[1].unit, n)

OfUnit(n, x, whole) ==
  LET seen == OwnTypes(n, x, whole)
  IN IF seen # {} THEN Earliest(seen) ELSE Imported(n, SectionOf(x))

Named(n, x, whole) ==
  CASE Len(x) = 2 -> OfUnit(n, x, whole)
    [] Len(x) = 4 /\ Seen(n, x, whole) # {} -> Earliest(Seen(n, x, whole))
    [] OTHER -> OfUnit(n, <<x[1], x[2]>>, FALSE)

\* A dotted path: a type nested in a type, else a type of a unit that is in use.
Dotted(root, n, x) ==
  LET s == Named(root, x, FALSE)
      nested == IF s = NoSite THEN NoSite ELSE nested_of(registry, s, n)
      used == {f.unit : f \in ToSet(make_unit_import_context(SectionOf(x)))}
      own == OwnTypes(n, <<x[1], x[2]>>, FALSE)
  IN CASE nested # NoSite -> nested
       [] nested = NoSite /\ root \in used -> exported(root, n)
       [] nested = NoSite /\ root = Unit /\ own # {} -> Earliest(own)
       [] OTHER -> NoSite

\* The record at x: the site of its symbol.
Meaning(x) ==
  LET d == Declaration(x)
  IN CASE d.form \in {"record", "node"} /\ d.path = <<d.nested>> -> x \o <<0>>
       [] Len(d.path) = 2 -> Dotted(d.path[1], d.path[2], x)
       [] OTHER -> Named(d.path[1], x, ToPointer(d))

-----------------------------------------------------------------------------
(* Properties.                                                             *)

\* The known places where the registry binds otherwise than the scopes say:
\* in a record, the section of the record and its forward classes come before a
\* type nested in it; a parent class, and a dotted name, in the implementation may
\* be declared later in the section, where a plain name is refused; a class can
\* name itself as its parent.
SectionFirst(x) ==
  LET d == Declaration(x) IN d.form \in {"record", "node"} /\ d.path = <<d.nested>>
LaterInSection(n, x) == Seen(n, x, TRUE) # Seen(n, x, FALSE)
Later(x) == LaterInSection(Declaration(x).path[1], x)
OwnParent(x) == Declaration(x).form = "class" /\ Declaration(x).path = <<Declaration(x).name>>

Misplaced(x) ==
  \/ SectionFirst(x) /\ Seen(Declaration(x).nested, x, TRUE) # {}
  \/ /\ SectionOf(x) = "implementation" /\ Later(x)
     /\ \/ Declaration(x).form = "class" \/ Len(Declaration(x).path) = 2
        \/ \E y \in Seen(Declaration(x).path[1], x, TRUE) : Declaration(y).form = "forward"
  \/ OwnParent(x)

\* What is refused: a name that is declared later in the section, an alias of
\* itself, a parent that is no class.
Refusable(x) ==
  LET d == Declaration(x)
      t == registry.symbols[Meaning(x)].same
  IN \/ Later(x)
     \/ d.form = "alias" /\ Meaning(x) = x
     \/ d.form = "class" /\ (t = NoSite \/ registry.symbols[t].form \notin {"class", "forward"})

Duplicated == {e[2] : e \in {f \in registry.errors : f[1] = "duplicate"}}

\* Every written type name is bound to the declaration Pascal means: the earlier
\* one in the scope, for the target of a pointer one anywhere in its section, the
\* first declaration of a forward class; else one of the enclosing scopes, the
\* interface, or the used units from the last to the first.  The tables of the unit
\* fill up while it is read, and later declarations are not bound too early.  An
\* error is reported for the rest.  (resolve_named_type_symbol.)
TypesMeanTheirDeclarations ==
  Duplicated = {} =>
    \A x \in Sites \cap DOMAIN registry.meant :
      \/ Misplaced(x)
      \/ registry.meant[x] = Meaning(x)
      \/ registry.meant[x] = NoSite /\ Refusable(x)

\* Two declarations of one scope that may not have the name n both, or one that may
\* not have it twice.  Routines may be overloaded, and a routine beside a variable
\* is let through.
Values(d) == IF d.form \in TypeForms THEN {} ELSE {d.name}
Clash(x, y, n) ==
  LET c == Declaration(x)
      d == Declaration(y)
      isLabel(e) == e.label = n
      isStorage(e) == e.form \in {"var", "const"} /\ e.name = n
      isType(e) == e.form \in TypeForms /\ e.name = n
      atEnd == section = "finished" /\ Len(x) = 2
      isValue(e) == isLabel(e) \/ n \in Values(e)
  IN \/ x # y /\ \/ isType(c) /\ isType(d) /\ ~(c.form = "forward" /\ d.form = "class")
                 \/ Len(x) = 2 /\ isStorage(c) /\ isStorage(d)
                 \/ isLabel(c) /\ isLabel(d)
     \/ isLabel(c) /\ n \in Values(d)
     \/ n \in Values(c) /\ isLabel(d)
     \/ atEnd /\ ((isType(c) /\ isValue(d)) \/ (isValue(c) /\ isType(d)))

Together(x, y) == SameScope(x, y) \/ (Len(x) = 2 /\ Len(y) = 2)
ClashingNames ==
  UNION {{n \in {Declaration(p[1]).name, Declaration(p[1]).label} \ {NoName} : Clash(p[1], p[2], n)} :
         p \in {q \in Sites \X Sites : Together(q[1], q[2]) /\ ~Before(q[2], q[1])}}

\* A name declared twice in a scope is reported, in whichever order, sections and
\* lists the two declarations come, and nothing else is.  (register_decl_list,
\* index_enum_info, index_decl_list_contexts, report_type_value_collisions.)
DuplicatesAreReported ==
  Duplicated \subseteq ClashingNames /\ (Duplicated = {} => ClashingNames = {})
=============================================================================
