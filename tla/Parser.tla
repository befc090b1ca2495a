------------------------------- MODULE Parser -------------------------------
(***************************************************************************)
(* The recursive descent of parser.cc as a pushdown machine over the       *)
(* tokens of one source.  Each parse function is an operator of its own    *)
(* name that yields the instructions its body stands for, given the        *)
(* current token c and, where it looks further, the next token n; calls    *)
(* are instructions on the stack, so a step is one decision of the code.   *)
(*                                                                         *)
(* A token is its kind; identifiers that the parser takes for directives   *)
(* have their own.  With each token goes the state of a compiler switch    *)
(* once the lexer has read it: nodes copy the switch when they are built,  *)
(* with the lexer already ahead of them.  Trees are tuples <<kind, ...>>.  *)
(***************************************************************************)
EXTENDS Naturals, Sequences, SequencesExt

CONSTANT
  Scopes       \* by name, what is parsed: [calls, kind, alphabet, length, faults, boundaries, corba]

\* A source ends after so many tokens, or once so many errors are reported.
ASSUME BoundsAssumption == \A s \in DOMAIN Scopes : Scopes[s].length \in Nat /\ Scopes[s].faults \in Nat \ {0}

VARIABLES
  scope,       \* the name of what this source is
  text,        \* lex_: the tokens read so far, [tok, switch]
  at,          \* cur_: the index of the current token
  have_peek,   \* have_peek_: one token more has been read
  stack,       \* the calls and instructions still to do, the first one on top
  values,      \* the trees built and not yet used, [tree, from]
  stamps,      \* the switches copied into nodes, [from, switch]
  errors       \* report_error calls, up to the scope's bound

vars == <<scope, text, at, have_peek, stack, values, stamps, errors>>

(***************************************************************************)
(* Tokens.                                                                 *)
(***************************************************************************)
Visibilities == {"private", "protected", "public", "published"}
Hints == {"deprecated", "platform", "library", "experimental"}
FlagModifiers ==
  {"virtual", "abstract", "override", "final", "dynamic", "forward", "inline", "cdecl",
   "noreturn", "assembler", "overload"}
QuietModifiers ==
  {"far", "near", "pascal", "register", "stdcall", "safecall", "interrupt", "popstack",
   "export", "public", "static", "reintroduce"}
Directives ==
  Visibilities \cup Hints \cup FlagModifiers \cup QuietModifiers
  \cup {"strict", "property", "read", "write", "default", "external", "name", "alias",
        "message", "absolute", "constref", "out", "on", "at", "low", "succ"}
Idents == {"id"} \cup Directives
relational_operator == {"=", "<>", "<", ">", "<=", ">=", "in", "is", "as"}
additive_operator == {"+", "-", "or", "xor", "><"}
multiplicative_operator == {"*", "/", "div", "mod", "and", "shl", "shr"}
operator_decl_token ==
  {":=", "+", "-", "*", "/", "=", "<", ">", "<=", ">=", "<>"}
  \cup {"div", "mod", "and", "or", "xor", "shl", "shr"}
is_subrange_bound_intrinsic == {"low", "succ"}
identifier_ends_nested_type_block == Visibilities \cup {"strict", "final", "property"}
RoutineKeywords == {"procedure", "function", "constructor", "destructor"}
Literals == {"int", "real", "str", "nil", "true", "false"}

(***************************************************************************)
(* Instructions.  Expect reports an error and stays when another token is  *)
(* there; Accept goes one way or the other.  Take makes a leaf of the      *)
(* token and Skip drops it.  Make pops n trees and pushes their node, Put  *)
(* adds the top tree to the list below it.  Stamp copies the switch for    *)
(* the top tree, StampHere for the token that follows.                     *)
(***************************************************************************)
Call(f) == <<"call", f, <<"List">>>>
CallTo(f, x) == <<"call", f, x>>
Expect(t) == <<"expect", t>>
Accept(t, yes, no) == <<"accept", t, yes, no>>
Optional(t) == Accept(t, <<>>, <<>>)
Take == <<"take">>
Skip == <<"skip">>
Leaf(s) == <<"leaf", s>>
New == Leaf("List")
Make(kind, n) == <<"make", kind, n>>
Wrap == Make("List", 1)
Put == <<"put">>
Drop == <<"drop">>
Stamp == <<"stamp">>
StampHere == <<"stamphere">>
Error == <<"error">>

(***************************************************************************)
(* Names and lists.                                                        *)
(***************************************************************************)
consume_ident(c) == IF c \in Idents THEN <<Take>> ELSE <<Expect("id"), Leaf("")>>
More(separator, f) == Accept(separator, <<Call(f)>>, <<>>)
Parenthesised(f, close) == <<New, Call(f), Expect(close)>>
parse_property_accessor_path == <<Call("name"), Put, More(".", "accessor_path")>>
NameAfterComma(c) == IF c \in Idents THEN <<Take, Put, More(",", "more_names")>> ELSE <<>>

(***************************************************************************)
(* Expressions.                                                            *)
(***************************************************************************)
OperatorsToTheRight(c, operators, operand, again) ==
  IF c \in operators THEN <<Take, Call(operand), Call(again), Make("Binary", 3), Stamp>> ELSE <<>>
Operators(c, operators, operand, again) ==
  IF c \in operators
  THEN <<Take, Call(operand), Make("Binary", 3), Stamp, Call(again)>>
  ELSE <<>>
parse_expr == <<Call("parse_simple_expr"), Call("relations")>>
parse_simple_expr == <<Call("parse_term"), Call("additions")>>
parse_term == <<Call("parse_factor"), Call("multiplications")>>
Relations(c) == Operators(c, relational_operator, "parse_simple_expr", "relations")
Additions(c) == Operators(c, additive_operator, "parse_term", "additions")
Multiplications(c) == Operators(c, multiplicative_operator, "parse_factor", "multiplications")
parse_factor(c) ==
  CASE c \in {"+", "-"} -> <<Take, Call("parse_factor"), Make("Unary", 2), Stamp>>
    [] c = "not"        -> <<Take, Call("parse_factor"), Make("Unary", 2)>>
    [] c \in {"@", "@@"} -> <<Take, Call("parse_factor"), Make("AddrOf", 2)>>
    [] OTHER            -> <<Call("parse_primary")>>
parse_primary(c) ==
  CASE c \in Literals \cup Idents \cup {"self"} -> <<Take, Call("parse_postfix")>>
    [] c = "("  -> <<Skip, Call("parse_expr"), Expect(")"), Call("parse_postfix")>>
    [] c = "["  -> <<Call("parse_set_literal"), Call("parse_postfix")>>
    [] c = "inherited" -> <<Take, Call("inherited_name"), Call("parse_postfix")>>
    [] c \in {"string", "shortstring"} -> <<StampHere, Take, Call("parse_postfix")>>
    [] OTHER    -> <<Error, Leaf("int"), Skip>>
InheritedName(c) == IF c \in Idents THEN <<Take, Make("Member", 2)>> ELSE <<>>
parse_postfix(c) ==
  CASE c = "." -> <<Skip, Call("name"), Make("Member", 2), Call("parse_postfix")>>
    [] c = "^" -> <<Skip, Make("Deref", 1), Call("parse_postfix")>>
    [] c = "[" -> <<Skip>> \o Parenthesised("exprs", "]")
                  \o <<Make("Index", 2), Call("parse_postfix")>>
    [] c = "(" -> <<Skip>> \o Parenthesised("arguments", ")")
                  \o <<Make("Call", 2), Stamp, Call("parse_postfix")>>
    [] OTHER   -> <<>>
Exprs == <<Call("parse_expr"), Put, More(",", "exprs")>>
Width == Accept(":", <<Call("parse_expr"),
                       Accept(":", <<Call("parse_expr"), Make("Width", 3)>>, <<Make("Width", 2)>>)>>,
                     <<>>)
Arguments(c) ==
  IF c \in {"eof", ")"} THEN <<>> ELSE <<Call("parse_expr"), Width, Put, More(",", "arguments")>>
RangeEnd == Accept("..", <<Call("parse_expr"), Make("Range", 2)>>, <<>>)
parse_set_literal ==
  <<Expect("[")>> \o Parenthesised("elements", "]") \o <<Make("SetLit", 1)>>
Elements(c) ==
  IF c \in {"eof", "]"} THEN <<>> ELSE <<Call("parse_expr"), RangeEnd, Put, More(",", "elements")>>

(***************************************************************************)
(* Statements.                                                             *)
(***************************************************************************)
Body(stops) == <<New, CallTo("statements", stops)>>
Statements(c, stops) ==
  IF c \in {"eof"} \cup stops THEN <<>>
  ELSE <<Call("parse_statement"), Put, Accept(";", <<CallTo("statements", stops)>>, <<>>)>>
parse_statement_block_until(stops) == Body(stops)
parse_compound_statement ==
  <<Expect("begin")>> \o Body({"end"}) \o <<Expect("end"), Make("Compound", 1)>>
Labels(c, n) == c \in Idents \cup {"int"} /\ n = ":"
parse_statement(c, n) ==
  CASE Labels(c, n)  -> <<Take, Skip, Call("parse_statement"), Make("Labeled", 2)>>
    [] c = "begin"   -> <<Call("parse_compound_statement")>>
    [] c = "if"      -> <<Call("parse_if")>>
    [] c = "while"   -> <<Call("parse_while")>>
    [] c = "repeat"  -> <<Call("parse_repeat")>>
    [] c = "for"     -> <<Call("parse_for")>>
    [] c = "case"    -> <<Call("parse_case")>>
    [] c = "with"    -> <<Call("parse_with")>>
    [] c = "goto"    -> <<Skip, Call("goto_target"), Make("Goto", 1)>>
    [] c = "asm"     -> <<Call("parse_asm")>>
    [] c = "try"     -> <<Call("parse_try")>>
    [] c = "raise"   -> <<Call("parse_raise")>>
    [] c \in {";", "end", "until", "else"} -> <<Leaf("EmptyStmt")>>
    [] OTHER         -> <<Call("parse_labeled_or_simple")>>
GotoTarget(c) == IF c = "int" THEN <<Take>> ELSE consume_ident(c)
parse_labeled_or_simple ==
  <<Call("parse_expr"),
    Accept(":=", <<Call("parse_expr"), Make("Assign", 2), Stamp>>, <<Make("ExprStmt", 1)>>)>>
parse_if ==
  <<Expect("if"), Call("parse_expr"), Expect("then"), Call("parse_statement"),
    Accept("else", <<Call("parse_statement"), Make("If", 3)>>, <<Make("If", 2)>>)>>
parse_while ==
  <<Expect("while"), Call("parse_expr"), Expect("do"), Call("parse_statement"), Make("While", 2)>>
parse_repeat ==
  <<Expect("repeat")>> \o Body({"until"})
  \o <<Expect("until"), Call("parse_expr"), Make("Repeat", 2)>>
parse_for ==
  <<Expect("for"), Call("ident"),
    Accept("in", <<Call("parse_expr"), Expect("do"), Call("parse_statement"), Make("ForIn", 3)>>,
      <<Expect(":="), Call("parse_expr"), Call("direction"), Call("parse_expr"), Expect("do"),
        Call("parse_statement"), Make("For", 5)>>)>>
Direction(c) == IF c \in {"to", "downto"} THEN <<Take>> ELSE <<Expect("to"), Leaf("to")>>
parse_case ==
  <<Expect("case"), Call("parse_expr"), Expect("of"), New, Call("arms"), Call("case_else"),
    Expect("end"), Make("Case", 3)>>
ArmsUpToElse(c) ==
  IF c \in {"eof", "end", "else"} THEN <<>>
  ELSE <<New, Call("labels"), Expect(":"), Call("parse_statement"), Make("Arm", 2), Put,
         More(";", "arms")>>
Arms(c) ==
  IF c \in {"eof", "end", "else", "otherwise"} THEN <<>>
  ELSE <<New, Call("labels"), Expect(":"), Call("parse_statement"), Make("Arm", 2), Put,
         More(";", "arms")>>
CaseLabels == <<Call("parse_expr"), RangeEnd, Put, More(",", "labels")>>
CaseElse(c) == IF c \in {"else", "otherwise"} THEN <<Skip>> \o Body({"end"}) ELSE <<Leaf("")>>
parse_with ==
  <<Expect("with"), New, Call("exprs"), Expect("do"), Call("parse_statement"), Make("With", 2)>>
parse_try ==
  <<Expect("try")>> \o Body({"except", "finally"})
  \o <<Call("try_part"), Expect("end"), Make("Try", 2)>>
TryPart(c) ==
  CASE c = "finally" -> <<Skip>> \o Body({"end"}) \o <<Make("Finally", 1)>>
    [] c = "except"  -> <<Skip, Call("except_part")>>
    [] OTHER         -> <<Expect("except"), Leaf("")>>
ExceptPart(c) ==
  IF c = "on"
  THEN <<New, Call("handlers"),
         Accept("else", Body({"end"}), <<Leaf("")>>), Make("Except", 2)>>
  ELSE Body({"end"}) \o <<Make("Except", 1)>>
Handlers(c) ==
  IF c # "on" THEN <<>>
  ELSE <<Skip, Call("ident"), Accept(":", <<Call("ident"), Make("Bind", 2)>>, <<>>),
         Expect("do"), Call("parse_statement"), Make("On", 2), Put, Optional(";"),
         Call("handlers")>>
parse_raise == <<Expect("raise"), Call("raised"), Call("raised_at"), Make("Raise", 1)>>
Raised(c) == IF c \in {";", "end", "else", "until"} THEN <<Leaf("")>> ELSE <<Call("parse_expr")>>
RaisedAt(c) ==
  IF c # "at" THEN <<>>
  ELSE <<Skip, Call("parse_expr"), Drop, Accept(",", <<Call("parse_expr"), Drop>>, <<>>)>>
parse_asm == <<Expect("asm"), CallTo("asm_body", 1), Expect("end"), Leaf("Asm")>>
AsmBody(c, depth) ==
  IF c = "eof" \/ (c = "end" /\ depth = 1) THEN <<>>
  ELSE <<Skip, CallTo("asm_body", CASE c = "end" -> depth - 1
                                    [] c = "asm" -> depth + 1
                                    [] OTHER     -> depth)>>

(***************************************************************************)
(* Types.                                                                  *)
(***************************************************************************)
Names == <<New, Take, Put, More(",", "more_names")>>
parse_type(c) ==
  CASE c = "^"      -> <<Skip, Call("parse_type"), Make("TyPointer", 1)>>
    [] c = "type"   -> <<Skip, Call("parse_type"), Make("TyDistinct", 1)>>
    [] c = "packed" -> <<Skip, Call("type_body")>>
    [] OTHER        -> <<Call("type_body")>>
TypeBody(c, n) ==
  CASE c = "array"  -> <<Call("parse_array_type")>>
    [] c = "record" -> <<Call("parse_record_type")>>
    [] c = "object" -> <<Call("parse_object_type")>>
    [] c = "interface" -> <<Call("parse_interface_type")>>
    [] c = "class" /\ n = "of" -> <<Skip, Skip, Call("ident"), Make("TyMetaclass", 1)>>
    [] c = "class" /\ n # "of" -> <<Call("parse_object_type")>>
    [] c = "set"    -> <<Expect("set"), Expect("of"), Call("parse_simple_type"), Make("TySet", 1)>>
    [] c = "file"   -> <<Skip, Accept("of", <<Call("parse_type")>>, <<Leaf("")>>), Make("TyFile", 1)>>
    [] c \in {"procedure", "function"} -> <<Call("parse_procedural_type")>>
    [] c \in {"string", "shortstring"} ->
         <<Take, Accept("[", <<Call("parse_expr"), Expect("]"), Make("TyString", 2)>>,
                             IF c = "string" THEN <<Stamp>> ELSE <<>>)>>
    [] OTHER        -> <<Call("parse_simple_type")>>
RECURSIVE is_constant_subrange_bound_expr(_)
is_constant_subrange_bound_expr(e) ==
  CASE e[1] = "Unary"  -> is_constant_subrange_bound_expr(e[3])
    [] e[1] = "Binary" -> is_constant_subrange_bound_expr(e[2]) /\ is_constant_subrange_bound_expr(e[4])
    [] e[1] = "Width"  -> is_constant_subrange_bound_expr(e[2])
    [] e[1] = "Call"   -> /\ e[2][1] \in is_subrange_bound_intrinsic
                          /\ Len(e[3]) = 2
                          /\ is_constant_subrange_bound_expr(e[3][2])
    [] OTHER -> e[1] \notin {"AddrOf", "Deref", "Index", "SetLit", "real", "nil"}
Bound == IF is_constant_subrange_bound_expr(Last(values).tree) THEN <<>> ELSE <<Error>>
parse_subrange_type ==
  <<Call("parse_simple_expr"), Call("bound"), Expect(".."),
    Call("parse_simple_expr"), Call("bound"), Make("TySubrange", 2)>>
parse_simple_type(c, n) ==
  CASE c = "(" -> <<Skip>> \o Parenthesised("enum_members", ")") \o <<Make("TyEnum", 1), Stamp>>
    [] /\ c \in Idents
       /\ n # ".."
       /\ ~(n = "(" /\ c \in is_subrange_bound_intrinsic) -> <<Take, Call("qualified")>>
    [] OTHER -> <<Call("parse_subrange_type")>>
EnumMembers(c) ==
  IF c \notin Idents THEN <<>>
  ELSE <<Take, Accept(":=", <<Call("parse_expr")>>, <<Accept("=", <<Call("parse_expr")>>, <<Leaf("")>>)>>),
         Make("Enumerator", 2), Put, More(",", "enum_members")>>
Qualified == <<Accept(".", <<Call("qualified_part")>>, <<>>)>>
QualifiedPart(c) == IF c \in Idents THEN <<Take, Make("Member", 2), Call("qualified")>> ELSE <<>>
parse_array_type ==
  <<Expect("array"), New, Accept("[", <<Call("dims"), Expect("]")>>, <<>>), Expect("of"),
    Call("parse_type"), Make("TyArray", 2)>>
Dims(c) == IF c \in {"eof", "]"} THEN <<>> ELSE <<Call("parse_simple_type"), Put, More(",", "dims")>>
parse_variant_part(c) ==
  IF c # "case" THEN <<Leaf("")>>
  ELSE <<Skip, Call("tag"), Call("parse_type"), Expect("of"), New, Call("variants"), Make("Variant", 3)>>
Tag(c, n) == IF c \in Idents /\ n = ":" THEN <<Take, Skip>> ELSE <<Leaf("")>>
Variants(c) ==
  IF c \in {"eof", "end", ")"} THEN <<>>
  ELSE <<New, Call("exprs"), Expect(":"), Expect("("), New, Call("variant_fields"),
         Call("parse_variant_part"), Expect(")"), Make("VariantCase", 3), Put, More(";", "variants")>>
Field == Names \o <<Expect(":"), Call("parse_type"), Make("Field", 2)>>
VariantFields(c) == IF c \in Idents THEN Field \o <<Put, More(";", "variant_fields")>> ELSE <<>>
parse_record_type ==
  <<Expect("record"), New, CallTo("record_members", "General"), Call("parse_variant_part"),
    Expect("end"), Make("TyRecord", 2)>>
RecordMembers(c, block) ==
  CASE c \in {"eof", "end", "case"} -> <<>>
    [] c = "type"   -> <<Skip, CallTo("record_members", "Type")>>
    [] c \in Visibilities \cup {"var"} -> <<Skip, CallTo("record_members", "General")>>
    [] c = "strict" -> <<Skip, Call("strict_record_members")>>
    [] c \in Idents \ (Visibilities \cup {"strict"}) ->
         IF block = "Type" /\ c \notin identifier_ends_nested_type_block
         THEN <<Call("type_decl"), Put, CallTo("record_members", block)>>
         ELSE Field \o <<Put, Accept(";", <<CallTo("record_members", block)>>, <<>>)>>
    [] OTHER -> <<>>
StrictRecordMembers(c) ==
  (IF c \in {"private", "protected"} THEN <<Skip>> ELSE <<>>) \o <<CallTo("record_members", "General")>>

(***************************************************************************)
(* Classes and objects.  A section of members has a visibility, whether    *)
(* its fields are static, and whether identifiers start type declarations. *)
(***************************************************************************)
FirstSection(reference) ==
  [vis |-> "public", static |-> FALSE, block |-> "General", reference |-> reference]
parse_object_type(c) ==
  (IF c = "class" THEN <<Take, Optional("abstract")>> ELSE <<Take>>)
  \o <<New, Accept("(", <<Call("idents"), Expect(")")>>, <<>>), CallTo("object_body", c = "class")>>
IdentList == <<Call("ident"), Put, More(",", "idents")>>
ObjectBody(c, reference) ==
  IF reference /\ c = ";" THEN <<Make("TyForward", 2)>>
  ELSE <<New, CallTo("members", FirstSection(reference)), Expect("end"), Make("TyObject", 3)>>
SectionStillStatic(s, vis) == CallTo("members", [s EXCEPT !.vis = vis, !.block = "General"])
Section(s, vis) == CallTo("members", [s EXCEPT !.vis = vis, !.static = FALSE, !.block = "General"])
ClassMember(s, static, what) == <<Leaf(s.vis), Leaf(static)>> \o what \o <<Make("ObjectMember", 3), Put>>
Members(c, s) ==
  CASE c \in {"eof", "end"} -> <<>>
    [] c \in Visibilities -> <<Skip, Section(s, IF c = "published" THEN "public" ELSE c)>>
    [] c = "strict" -> <<Skip, CallTo("strict_members", s)>>
    [] c = "type"   -> <<Skip, CallTo("members", [s EXCEPT !.static = FALSE, !.block = "Type"])>>
    [] c = "var"    -> <<Skip, Section(s, s.vis)>>
    [] s.block = "Type" /\ c \in Idents \ identifier_ends_nested_type_block ->
         ClassMember(s, "", <<Call("type_decl")>>) \o <<CallTo("members", s)>>
    [] c = "class"  -> <<Skip, CallTo("class_members", s)>>
    [] c \in RoutineKeywords -> <<CallTo("method", [s |-> s, class |-> FALSE])>>
    [] c = "property" -> ClassMember(s, "", <<Skip, Call("property")>>) \o <<CallTo("members", s)>>
    [] /\ c \in Idents \ (Visibilities \cup {"strict", "property"})
       /\ s.block = "General" \/ c \in identifier_ends_nested_type_block ->
         ClassMember(s, IF s.static THEN "static" ELSE "", Field)
         \o <<Accept(";", <<CallTo("members", s)>>, <<>>)>>
    [] OTHER -> <<>>
StrictMembers(c, s) ==
  CASE c = "private"   -> <<Skip, Section(s, "strict private")>>
    [] c = "protected" -> <<Skip, Section(s, "strict protected")>>
    [] OTHER -> <<Error, Section(s, s.vis)>>
ClassMembers(c, s) ==
  CASE c = "var" /\ s.reference ->
         <<Skip, CallTo("members", [s EXCEPT !.static = TRUE, !.block = "General"])>>
    [] c = "var" /\ ~s.reference -> <<Skip, Error, CallTo("members", s)>>
    [] c \in RoutineKeywords -> <<CallTo("method", [s |-> s, class |-> TRUE])>>
    [] OTHER -> <<Error>>
Method(m) ==
  ClassMember(m.s, "", <<CallTo("parse_proc_decl", [in_interface |-> TRUE, class |-> m.class, member |-> TRUE])>>)
  \o <<CallTo("members", m.s)>>
Property ==
  <<Call("name"), New, Accept("[", <<CallTo("parse_param_list", "]"), Expect("]")>>, <<>>), Expect(":"),
    Call("parse_type"), New, CallTo("accessors", {}), CallTo("property_tail", TRUE), Make("Property", 4)>>
Accessors(c, seen) ==
  CASE c \in {"read", "write"} \ seen ->
         <<Skip, New>> \o <<Call("accessor_path"), Put, CallTo("accessors", seen \cup {c})>>
    [] c \notin {"read", "write"} \ seen /\ seen = {} -> <<Error>>
    [] OTHER -> <<>>
PropertyTail(c, first) ==
  CASE c = ";" -> <<Skip, Call("default")>>
    [] c # ";" /\ first -> <<Expect(";")>>
    [] OTHER -> <<>>
Default(c) == IF c = "default" THEN <<Take, Put, CallTo("property_tail", FALSE)>> ELSE <<>>
parse_interface_type ==
  <<Expect("interface")>> \o (IF Scopes[scope].corba THEN <<>> ELSE <<Error>>)
  \o <<Accept("[", <<Call("metadata"), Expect("]")>>, <<>>), New, Call("interface_methods"),
       Expect("end"), Make("TyInterface", 1)>>
Metadata(c) == IF c = "str" THEN <<Skip>> ELSE <<Error>>
InterfaceMethods(c) ==
  CASE c \in {"eof", "end"} -> <<>>
    [] c \in {"procedure", "function"} ->
         <<CallTo("parse_proc_decl", [in_interface |-> TRUE, class |-> FALSE, member |-> TRUE]), Put,
           Call("interface_methods")>>
    [] OTHER -> <<Error>>

(***************************************************************************)
(* Routines.                                                               *)
(***************************************************************************)
ParameterList == <<New, Accept("(", <<CallTo("parse_param_list", ")"), Expect(")")>>, <<>>)>>
parse_procedural_type(c) ==
  <<Take>> \o ParameterList
  \o (IF c = "function" THEN <<Expect(":"), Call("parse_type")>> ELSE <<Leaf("")>>)
  \o <<Accept("of", <<Expect("object")>>, <<>>), Call("conventions"), Make("TyProcedural", 3)>>
Conventions(c) == IF c \in {"cdecl", "pascal", "stdcall"} THEN <<Skip, Call("conventions")>> ELSE <<>>
parse_param_list(c, n, close) ==
  IF c \in {"eof", close} THEN <<>>
  ELSE <<IF c \in {"var", "const"} \/ (c \in {"constref", "out"} /\ n \in Idents) THEN Take ELSE Leaf(""),
         New, Call("more_names"), Accept(":", <<Call("param_type")>>, <<Leaf("")>>),
         Accept("=", <<Call("parse_expr")>>, <<Leaf("")>>), Make("Param", 4), Put,
         Accept(";", <<CallTo("parse_param_list", close)>>, <<>>)>>
ParamType(c) ==
  IF c = "array" THEN <<Skip, Expect("of"), Call("parse_type"), Make("TyOpenArray", 1)>>
  ELSE <<Call("parse_type")>>
StartsModifier(c, n, member) ==
  /\ c \in Hints \cup FlagModifiers \cup QuietModifiers \cup {"message", "external", "alias", "name"}
  /\ member => c # "public" /\ n \notin {":", ","}
parse_proc_modifier(c) ==
  CASE c \in FlagModifiers  -> <<Take, Put>>
    [] c = "message"        -> <<Leaf("virtual"), Put, Skip, Call("message_number")>>
    [] c = "external"       -> <<Take, Put, Optional("str"), Accept("name", <<Optional("str")>>, <<>>)>>
    [] c = "alias"          -> <<Skip, Accept(":", <<Optional("str")>>, <<>>)>>
    [] c \in Hints \cup {"name"} -> <<Skip, Optional("str")>>
    [] OTHER                -> <<Skip>>
MessageNumber(c) == IF c \in {"int", "str"} \cup Idents THEN <<Skip>> ELSE <<>>
parse_proc_modifiers(c, n, member) ==
  IF StartsModifier(c, n, member)
  THEN <<Call("parse_proc_modifier"), Optional(";"), CallTo("parse_proc_modifiers", member)>>
  ELSE <<>>
parse_proc_header_tail(c, n, member) ==
  CASE c = ";" -> <<Skip, CallTo("parse_proc_modifiers", member)>>
    [] StartsModifier(c, n, member) -> <<CallTo("parse_proc_modifiers", member)>>
    [] OTHER   -> <<Expect(";")>>
ReturnType(kind) ==
  CASE kind = "function"    -> <<Expect(":"), Call("parse_type")>>
    [] kind = "constructor" -> <<Accept(":", <<Call("parse_type")>>, <<Leaf("")>>)>>
    [] OTHER                -> <<Leaf("")>>
ClassLifecycle(kind) ==
  LET params == values[Len(values) - 1].tree IN
    IF kind \notin {"constructor", "destructor"} THEN <<>>
    ELSE (IF Len(params) > 1 THEN <<Error>> ELSE <<>>)
         \o (IF Last(values).tree # <<"">> THEN <<Error>> ELSE <<>>)
parse_proc_decl(c, x) ==
  <<Take, New, Call("accessor_path")>> \o ParameterList \o ReturnType(c)
  \o (IF x.class THEN <<CallTo("class_lifecycle", c)>> ELSE <<>>)
  \o <<New, CallTo("parse_proc_header_tail", x.member), CallTo("routine_body", x.in_interface), Make("Proc", 7)>>
RoutineBody(in_interface) ==
  IF in_interface \/ \E i \in 2..Len(Last(values).tree) :
                        Last(values).tree[i][1] \in {"forward", "external", "abstract"}
  THEN <<New, Leaf("")>>
  ELSE <<New, CallTo("parse_decl_block", FALSE), Call("body")>>
RoutineBlock(c) ==
  CASE c = "begin" -> <<Call("parse_compound_statement"), Expect(";")>>
    [] c = "asm"   -> <<Call("parse_asm"), Expect(";")>>
    [] OTHER       -> <<Leaf("")>>
parse_operator_decl(in_interface) ==
  <<Skip, Call("operator_token")>> \o ParameterList
  \o <<Expect(":"), Call("parse_type"), New, CallTo("parse_proc_header_tail", FALSE),
       CallTo("routine_body", in_interface), Make("Operator", 6)>>
OperatorToken(c) == IF c \in operator_decl_token THEN <<Take>> ELSE <<Error, Leaf("")>>

(***************************************************************************)
(* Declaration sections and compilation units.                             *)
(***************************************************************************)
Routine(class, in_interface) ==
  <<CallTo("parse_proc_decl", [in_interface |-> in_interface, class |-> class, member |-> FALSE]), Put>>
parse_decl_block(c, n, in_interface) ==
  LET Then(section) == section \o <<CallTo("parse_decl_block", in_interface)>> IN
  CASE c = "const" -> Then(<<Skip, Call("const_decls")>>)
    [] c = "type"  -> Then(<<Skip, Call("type_decls")>>)
    [] c = "var"   -> Then(<<Skip, Call("var_decls")>>)
    [] c = "label" -> Then(<<Skip, New, Call("label_decls"), Expect(";"), Make("Label", 1), Put>>)
    [] c \in RoutineKeywords -> Then(Routine(FALSE, in_interface))
    [] c = "operator" -> Then(<<CallTo("parse_operator_decl", in_interface), Put>>)
    [] c = "class" /\ n \in RoutineKeywords -> Then(<<Skip>> \o Routine(TRUE, in_interface))
    [] OTHER       -> <<>>
parse_const_section(c) ==
  IF c \notin Idents THEN <<>>
  ELSE <<Take, Accept(":", <<Call("parse_type"), Expect("="), Call("typed_value"), Make("Const", 3)>>,
                           <<Expect("="), Call("parse_expr"), Make("Const", 2)>>),
         Call("hints"), Expect(";"), Put, Call("const_decls")>>
HintDirectives(c) == IF c \in Hints THEN <<Skip, Optional("str"), Call("hints")>> ELSE <<>>
TypedValue == <<CallTo("parse_const_value", Last(values).tree)>>
IsArray(type) == type[1] = "TyArray"
ElementType(type) ==
  CASE IsArray(type) /\ Len(type[2]) > 2 ->
         <<"TyArray", <<"List">> \o SubSeq(type[2], 3, Len(type[2])), type[3]>>
    [] IsArray(type) /\ Len(type[2]) <= 2 -> type[3]
    [] OTHER -> <<"">>
parse_const_value(c, type) ==
  IF c = "(" THEN <<Skip, CallTo("in_parentheses", type)>> ELSE <<Call("parse_expr")>>
InParentheses(c, n, type) ==
  LET element == CallTo("parse_const_value", ElementType(type)) IN
  CASE c \in Idents /\ n = ":" -> Parenthesised("const_fields", ")") \o <<Make("RecordConst", 1)>>
    [] c = ")" -> <<Skip, New, Make("ArrayConst", 1)>>
    [] OTHER   ->
         <<element,
           Accept(",", <<Wrap, element, Put, CallTo("more_elements", ElementType(type)), Expect(")"),
                         Make("ArrayConst", 1)>>,
                       IF IsArray(type) THEN <<Wrap, Expect(")"), Make("ArrayConst", 1)>>
                       ELSE <<Expect(")")>>)>>
MoreElements(type) ==
  <<Accept(",", <<CallTo("parse_const_value", type), Put, CallTo("more_elements", type)>>, <<>>)>>
ConstFields(c) ==
  IF c \in {"eof", ")"} THEN <<>>
  ELSE <<Call("name"), Expect(":"), CallTo("parse_const_value", <<"">>), Make("Bind", 2), Put,
         More(";", "const_fields")>>
parse_type_section(c) == IF c \in Idents THEN <<Call("type_decl"), Put, Call("type_decls")>> ELSE <<>>
StampedAtTheEnd ==
  <<Call("ident"), Expect("="), Call("parse_type"), Expect(";"), Make("TypeDecl", 2), Stamp>>
parse_type_decl_from_current_ident ==
  <<Call("ident"), Expect("="), Call("parse_type"), Expect(";"), Make("TypeDecl", 2)>>
parse_var_section(c) ==
  IF c \notin Idents THEN <<>>
  ELSE Names \o <<Expect(":"), Call("parse_type"), Call("var_tail"), Expect(";"), Make("Var", 3), Put,
                  Call("var_decls")>>
VarTail(c) ==
  CASE c = "absolute" -> <<Skip, Call("absolute_target")>>
    [] c = "="        -> <<Skip, Call("typed_value")>>
    [] c = "external" -> <<Take, Optional("str"), Accept("name", <<Optional("str")>>, <<>>)>>
    [] OTHER          -> <<Leaf("")>>
AbsoluteTarget(c) == IF c \in Idents THEN <<Take>> ELSE <<Error, Leaf("")>>
parse_label_section(c) ==
  IF c \in Idents \cup {"int"} THEN <<Take, Put, More(",", "label_decls")>> ELSE <<>>

Uses == <<New, Accept("uses", <<Call("parse_uses_clause"), Expect(";")>>, <<>>)>>
parse(c) ==
  CASE c = "unit"    -> <<Call("parse_unit_interface"), Call("parse_unit_implementation")>>
    [] c = "program" -> <<Call("parse_program")>>
    [] c = "begin"   -> <<Call("parse_compound_statement"), Optional(".")>>
    [] OTHER         -> <<Error>>
parse_uses_clause(c) ==
  IF c = "eof" THEN <<>>
  ELSE IF c \in Idents THEN <<Take, Put, Accept("in", <<Optional("str")>>, <<>>), More(",", "parse_uses_clause")>>
  ELSE <<Expect("id")>>
parse_program ==
  <<Expect("program"), Call("name"), New, Accept("(", <<Call("program_parameters"), Expect(")")>>, <<>>),
    Drop, Expect(";")>>
  \o Uses \o <<New, CallTo("parse_decl_block", FALSE), Call("main"), Expect("."), Make("Program", 4)>>
ProgramParameters(c) ==
  IF c \in {"eof", ")"} THEN <<>> ELSE <<Call("ident"), Put, More(",", "program_parameters")>>
Main(c) == IF c = "begin" THEN <<Call("parse_compound_statement")>> ELSE <<Leaf("")>>
parse_unit_interface ==
  <<Expect("unit"), Call("name"), Expect(";"), Expect("interface")>> \o Uses
  \o <<New, CallTo("parse_decl_block", TRUE), Expect("implementation")>>
parse_unit_implementation ==
  Uses \o <<New, CallTo("parse_decl_block", FALSE), Call("unit_body"), Make("Unit", 6)>>
UnitBody(c) ==
  CASE c = "begin" -> <<Call("parse_compound_statement"), Expect(".")>>
    [] c = "end"   -> <<Skip, Expect("."), Leaf("")>>
    [] c \in {"initialization", "finalization"} ->
         <<Accept("initialization", parse_statement_block_until({"finalization", "end"}), <<Leaf("")>>),
           Accept("finalization", parse_statement_block_until({"end"}), <<Leaf("")>>),
           Expect("end"), Expect("."), Make("Sections", 2)>>
    [] OTHER       -> <<Expect("end"), Leaf("")>>

\* The body of the function or loop f, called with x.
Production(f, x, c, n) ==
  CASE f = "ident" \/ f = "name"  -> consume_ident(c)
    [] f = "more_names"           -> NameAfterComma(c)
    [] f = "accessor_path"        -> parse_property_accessor_path
    [] f = "parse_expr"           -> parse_expr
    [] f = "parse_simple_expr"    -> parse_simple_expr
    [] f = "parse_term"           -> parse_term
    [] f = "relations"            -> Relations(c)
    [] f = "additions"            -> Additions(c)
    [] f = "multiplications"      -> Multiplications(c)
    [] f = "parse_factor"         -> parse_factor(c)
    [] f = "parse_primary"        -> parse_primary(c)
    [] f = "inherited_name"       -> InheritedName(c)
    [] f = "parse_postfix"        -> parse_postfix(c)
    [] f = "exprs"                -> Exprs
    [] f = "arguments"            -> Arguments(c)
    [] f = "parse_set_literal"    -> parse_set_literal
    [] f = "elements"             -> Elements(c)
    [] f = "statements"           -> Statements(c, x)
    [] f = "parse_compound_statement" -> parse_compound_statement
    [] f = "parse_statement"      -> parse_statement(c, n)
    [] f = "goto_target"          -> GotoTarget(c)
    [] f = "parse_labeled_or_simple" -> parse_labeled_or_simple
    [] f = "parse_if"             -> parse_if
    [] f = "parse_while"          -> parse_while
    [] f = "parse_repeat"         -> parse_repeat
    [] f = "parse_for"            -> parse_for
    [] f = "direction"            -> Direction(c)
    [] f = "parse_case"           -> parse_case
    [] f = "arms"                 -> Arms(c)
    [] f = "labels"               -> CaseLabels
    [] f = "case_else"            -> CaseElse(c)
    [] f = "parse_with"           -> parse_with
    [] f = "parse_try"            -> parse_try
    [] f = "try_part"             -> TryPart(c)
    [] f = "except_part"          -> ExceptPart(c)
    [] f = "handlers"             -> Handlers(c)
    [] f = "parse_raise"          -> parse_raise
    [] f = "raised"               -> Raised(c)
    [] f = "raised_at"            -> RaisedAt(c)
    [] f = "parse_asm"            -> parse_asm
    [] f = "asm_body"             -> AsmBody(c, x)
    [] f = "parse_type"           -> parse_type(c)
    [] f = "type_body"            -> TypeBody(c, n)
    [] f = "bound"                -> Bound
    [] f = "parse_subrange_type"  -> parse_subrange_type
    [] f = "parse_simple_type"    -> parse_simple_type(c, n)
    [] f = "enum_members"         -> EnumMembers(c)
    [] f = "qualified"            -> Qualified
    [] f = "qualified_part"       -> QualifiedPart(c)
    [] f = "parse_array_type"     -> parse_array_type
    [] f = "dims"                 -> Dims(c)
    [] f = "parse_variant_part"   -> parse_variant_part(c)
    [] f = "tag"                  -> Tag(c, n)
    [] f = "variants"             -> Variants(c)
    [] f = "variant_fields"       -> VariantFields(c)
    [] f = "parse_record_type"    -> parse_record_type
    [] f = "record_members"       -> RecordMembers(c, x)
    [] f = "strict_record_members" -> StrictRecordMembers(c)
    [] f = "parse_object_type"    -> parse_object_type(c)
    [] f = "idents"               -> IdentList
    [] f = "object_body"          -> ObjectBody(c, x)
    [] f = "members"              -> Members(c, x)
    [] f = "strict_members"       -> StrictMembers(c, x)
    [] f = "class_members"        -> ClassMembers(c, x)
    [] f = "method"               -> Method(x)
    [] f = "property"             -> Property
    [] f = "accessors"            -> Accessors(c, x)
    [] f = "property_tail"        -> PropertyTail(c, x)
    [] f = "default"              -> Default(c)
    [] f = "parse_interface_type" -> parse_interface_type
    [] f = "metadata"             -> Metadata(c)
    [] f = "interface_methods"    -> InterfaceMethods(c)
    [] f = "parse_procedural_type" -> parse_procedural_type(c)
    [] f = "conventions"          -> Conventions(c)
    [] f = "parse_param_list"     -> parse_param_list(c, n, x)
    [] f = "param_type"           -> ParamType(c)
    [] f = "parse_proc_modifier"  -> parse_proc_modifier(c)
    [] f = "message_number"       -> MessageNumber(c)
    [] f = "parse_proc_modifiers" -> parse_proc_modifiers(c, n, x)
    [] f = "parse_proc_header_tail" -> parse_proc_header_tail(c, n, x)
    [] f = "class_lifecycle"      -> ClassLifecycle(x)
    [] f = "parse_proc_decl"      -> parse_proc_decl(c, x)
    [] f = "routine_body"         -> RoutineBody(x)
    [] f = "body"                 -> RoutineBlock(c)
    [] f = "parse_operator_decl"  -> parse_operator_decl(x)
    [] f = "operator_token"       -> OperatorToken(c)
    [] f = "parse_decl_block"     -> parse_decl_block(c, n, x)
    [] f = "const_decls"          -> parse_const_section(c)
    [] f = "hints"                -> HintDirectives(c)
    [] f = "typed_value"          -> TypedValue
    [] f = "parse_const_value"    -> parse_const_value(c, x)
    [] f = "in_parentheses"       -> InParentheses(c, n, x)
    [] f = "more_elements"        -> MoreElements(x)
    [] f = "const_fields"         -> ConstFields(c)
    [] f = "type_decls"           -> parse_type_section(c)
    [] f = "type_decl"            -> parse_type_decl_from_current_ident
    [] f = "var_decls"            -> parse_var_section(c)
    [] f = "var_tail"             -> VarTail(c)
    [] f = "absolute_target"      -> AbsoluteTarget(c)
    [] f = "label_decls"          -> parse_label_section(c)
    [] f = "parse"                -> parse(c)
    [] f = "parse_uses_clause"    -> parse_uses_clause(c)
    [] f = "parse_program"        -> parse_program
    [] f = "program_parameters"   -> ProgramParameters(c)
    [] f = "main"                 -> Main(c)
    [] f = "parse_unit_interface" -> parse_unit_interface
    [] f = "parse_unit_implementation" -> parse_unit_implementation
    [] f = "unit_body"            -> UnitBody(c)

\* Where the code looks one token further than the current one.
Peeks(f, x, c) ==
  CASE f = "parse_statement" -> c \in Idents \cup {"int"}
    [] f \in {"parse_simple_type", "tag", "in_parentheses"} -> c \in Idents
    [] f \in {"type_body", "parse_decl_block"} -> c = "class"
    [] f \in {"parse_proc_modifiers", "parse_proc_header_tail"} -> x /\ c \in Idents \ {"public"}
    [] f = "parse_param_list" -> c \in {"constref", "out"}
    [] OTHER -> FALSE

(***************************************************************************)
(* The machine.                                                            *)
(***************************************************************************)
cur == text[at].tok
Ended == text # <<>> /\ Last(text).tok = "eof"
Lexed == IF have_peek THEN at + 1 ELSE at
switch_active == text[Lexed].switch
Top == Head(stack)
Doing(op) == at <= Len(text) /\ stack # <<>> /\ Top[1] = op
NeedsPeek == Doing("call") /\ Peeks(Top[2], Top[3], cur) /\ ~have_peek
Done == stack = <<>> /\ at <= Len(text)

Init ==
  /\ scope \in DOMAIN Scopes
  /\ text = <<>> /\ at = 1 /\ have_peek = FALSE
  /\ stack = Scopes[scope].calls
  /\ values = <<>> /\ stamps = {} /\ errors = 0

\* The tokens a source may go on with.  A compiler directive that changes the
\* switch stands after one of the scope's boundary tokens.
NextTokens ==
  IF Len(text) >= Scopes[scope].length \/ errors >= Scopes[scope].faults \/ Ended THEN {"eof"}
  ELSE Scopes[scope].alphabet \cup {"eof"}
NextSwitches ==
  LET now == IF text = <<>> THEN FALSE ELSE Last(text).switch IN
    IF text # <<>> /\ Last(text).tok \in Scopes[scope].boundaries THEN {now, ~now} ELSE {now}

\* lex_.next(), for the current token or to look at the next one.
Lex ==
  /\ at > Len(text) \/ NeedsPeek
  /\ have_peek' = NeedsPeek
  /\ \E t \in NextTokens, s \in NextSwitches : text' = Append(text, [tok |-> t, switch |-> s])
  /\ UNCHANGED <<scope, at, stack, values, stamps, errors>>

advance ==
  /\ at' = IF cur = "eof" THEN at ELSE at + 1
  /\ have_peek' = FALSE
stay == UNCHANGED <<at, have_peek>>
report_error == errors' = IF errors < Scopes[scope].faults THEN errors + 1 ELSE errors
GoOn(instructions) ==
  /\ stack' = instructions \o Tail(stack)
  /\ UNCHANGED <<scope, text>>

Enter ==
  /\ Doing("call") /\ ~NeedsPeek
  /\ GoOn(Production(Top[2], Top[3], cur, IF have_peek THEN text[at + 1].tok ELSE ""))
  /\ stay /\ UNCHANGED <<values, stamps, errors>>

expect ==
  /\ Doing("expect")
  /\ IF cur = Top[2] THEN advance /\ UNCHANGED errors ELSE stay /\ report_error
  /\ GoOn(<<>>) /\ UNCHANGED <<values, stamps>>

accept ==
  /\ Doing("accept")
  /\ IF cur = Top[2] THEN advance /\ GoOn(Top[3]) ELSE stay /\ GoOn(Top[4])
  /\ UNCHANGED <<values, stamps, errors>>

SkipToken ==
  /\ Doing("skip")
  /\ advance /\ GoOn(<<>>) /\ UNCHANGED <<values, stamps, errors>>

TakeToken ==
  /\ Doing("take")
  /\ values' = Append(values, [tree |-> <<cur>>, from |-> at])
  /\ advance /\ GoOn(<<>>) /\ UNCHANGED <<stamps, errors>>

ReportError ==
  /\ Doing("error")
  /\ report_error /\ stay /\ GoOn(<<>>) /\ UNCHANGED <<values, stamps>>

\* What is done with the trees: no token is read.
Built ==
  LET last == Len(values)
      below(n) == SubSeq(values, 1, last - n)
      kids(n) == [i \in 1..n |-> values[last - n + i].tree] IN
  CASE Top[1] = "leaf" -> Append(values, [tree |-> <<Top[2]>>, from |-> at])
    [] Top[1] = "make" -> Append(below(Top[3]), [tree |-> <<Top[2]>> \o kids(Top[3]),
                                                 from |-> values[last - Top[3] + 1].from])
    [] Top[1] = "put"  -> Append(below(2), [values[last - 1] EXCEPT !.tree = Append(@, values[last].tree)])
    [] Top[1] = "drop" -> below(1)
Build ==
  /\ \E op \in {"leaf", "make", "put", "drop"} : Doing(op)
  /\ values' = Built
  /\ stay /\ GoOn(<<>>) /\ UNCHANGED <<stamps, errors>>

StampSwitch ==
  /\ Doing("stamp") \/ Doing("stamphere")
  /\ LET from == IF Doing("stamp") THEN Last(values).from ELSE at IN
       stamps' = stamps \cup {[from |-> from, switch |-> switch_active]}
  /\ stay /\ GoOn(<<>>) /\ UNCHANGED <<values, errors>>

Next ==
  Lex \/ Enter \/ expect \/ accept \/ SkipToken \/ TakeToken \/ ReportError \/ Build \/ StampSwitch

\* The parser is one call that runs to its end.
Spec == Init /\ [][Next]_vars /\ WF_vars(Next)

-----------------------------------------------------------------------------

\* The grammar of what is parsed: the phrases of each scope with their trees,
\* their texts, and what these begin with.
Reference == INSTANCE PascalGrammar
Meant ==
  UNION {{<<s, p.text, p.trees>> :
            p \in Reference!Language(Scopes[s].kind, Scopes[s].alphabet, Scopes[s].length)} :
          s \in {r \in DOMAIN Scopes : Scopes[r].kind # ""}}
MeantTexts == {<<m[1], m[2]>> : m \in Meant}
MeantPrefixes == UNION {{<<m[1], SubSeq(m[2], 1, i)>> : i \in 0..Len(m[2])} : m \in MeantTexts}
HasGrammar == Scopes[scope].kind # ""
Read == LET all == [i \in 1..Len(text) |-> text[i].tok] IN IF Ended THEN SelectSeq(all, LAMBDA t : t # "eof") ELSE all

\* A source that is accepted is a phrase of the grammar with the tree that the
\* grammar gives it: operators by precedence and to the left, `else' with the
\* nearest `if', arms and handlers with their statements (the loops over
\* operators, parse_if, parse_case, parse_try).
TreesAreMeant ==
  Done /\ cur = "eof" /\ errors = 0 /\ HasGrammar =>
    <<scope, Read, <<Last(values).tree>>>> \in Meant

\* An error is reported only where no phrase goes on in that way: with at most
\* one token of lookahead the parser never gives up a source it should accept.
ErrorsAreJustified ==
  errors > 0 /\ HasGrammar =>
    <<scope, Read>> \notin IF Ended THEN MeantTexts ELSE MeantPrefixes

\* With directives between statements and declarations only, each node has the
\* switch that is in force where it begins, though the parser has read one
\* token past its end when it copies it (overflow_check_active and its kin).
StampsFollowTheText == errors = 0 => \A s \in stamps : s.switch = text[s.from].switch

\* Class bodies: where one opens, those open at token i, and the tokens that
\* may begin a section or member of it.
TypeStarts(i) == i = 1 \/ text[i - 1].tok \in {":", "="}
Opens(i) ==
  text[i].tok = "class" /\ \E k \in 1..i : TypeStarts(k) /\ \A j \in k..i - 1 : text[j].tok = "type"
OpenAt(i) ==
  FoldLeft(LAMBDA open, j : IF Opens(j) THEN Append(open, j)
                            ELSE IF text[j].tok = "end" /\ open # <<>> THEN Front(open) ELSE open,
           <<>>, [j \in 1..i - 1 |-> j])
Begins(i) == i > 1 /\ text[i - 1].tok \in Visibilities \cup {"class", "abstract", ")", ";", "var", "type", "strict"}
Markers(from, words) ==
  {i \in 1..from - 1 : text[i].tok \in words /\ Begins(i) /\ OpenAt(i) = OpenAt(from)}
LastOf(marks) == CHOOSE i \in marks : \A j \in marks : j <= i

\* The visibility of a member is that of the last visibility word before it in
\* its own class body, and a field is static exactly if the last section
\* marker is `class var' (the flags current_vis and static_var_section of
\* parse_object_type, reset in each of its branches).
MembersFollowTheirSection ==
  LET member == Last(values)
      words == Markers(member.from, Visibilities)
      word == LastOf(words)
      marks == Markers(member.from, Visibilities \cup {"var", "type"})
      mark == LastOf(marks)
      static == marks # {} /\ text[mark].tok = "var" /\ text[mark - 1].tok = "class" /\ ~Opens(mark - 1)
  IN values # <<>> /\ member.tree[1] = "ObjectMember" /\ errors = 0 =>
       /\ member.tree[2] = <<CASE words = {} \/ text[word].tok = "published" -> "public"
                              [] text[word - 1].tok = "strict" -> "strict " \o text[word].tok
                              [] OTHER -> text[word].tok>>
       /\ member.tree[4][1] = "Field" => (member.tree[3] = <<"static">>) = static
=============================================================================
