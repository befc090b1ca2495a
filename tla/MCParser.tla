------------------------------ MODULE MCParser ------------------------------
(***************************************************************************)
(* Instances of Parser: sources over a few tokens each, so that the        *)
(* constructs that share them meet.  A scope with a kind is compared with  *)
(* PascalGrammar; in the others the switches may change at the boundaries, *)
(* and a source may go on after an error.                                  *)
(***************************************************************************)
EXTENDS Parser, FiniteSets, TLC

Compared(call, kind, length, alphabet) ==
  [calls |-> <<Call(call)>>, kind |-> kind, length |-> length, alphabet |-> alphabet,
   faults |-> 1, boundaries |-> {}, corba |-> TRUE]
Switched(calls, length, boundaries, alphabet) ==
  [calls |-> calls, kind |-> "", length |-> length, alphabet |-> alphabet \cup boundaries,
   faults |-> 1, boundaries |-> boundaries, corba |-> TRUE]
Stopped(calls, length, alphabet) ==
  [calls |-> calls, kind |-> "", length |-> length, alphabet |-> alphabet,
   faults |-> 1, boundaries |-> {}, corba |-> TRUE]
Resumed(calls, length, alphabet) ==
  [Stopped(calls, length, alphabet) EXCEPT !.faults = 2, !.corba = FALSE]
Declarations == <<New, CallTo("parse_decl_block", FALSE)>>

ClassMembersOnly == <<New, CallTo("members", FirstSection(TRUE))>>

MCScopes ==
  "expression" :> Compared("parse_expr", "expr", 5, {"id", "+", "*", "=", "-", "not", "(", ")"})
  @@ "designator" :> Compared("parse_expr", "expr", 5, {"id", "@", ".", "^", "[", "]", "(", ")", ",", ".."})
  @@ "blocks" :> Compared("parse_statement", "stmt", 7, {"id", ":", ":=", ";", "begin", "end", "if", "then", "else"})
  @@ "loops" :> Compared("parse_statement", "stmt", 6, {"id", "while", "repeat", "until", "for", ":=", "to", "in", "do", "with"})
  @@ "cases" :> Compared("parse_statement", "stmt", 9, {"id", ":", ";", "case", "of", "otherwise", "end"})
  @@ "tries" :> Compared("parse_statement", "stmt", 6, {"on", ":", ";", "try", "except", "raise", "do", "else", "end"})
  @@ "switches" :> Switched(<<Call("parse_statement")>>, 5, {";", "then", "else"}, {"id", ":=", "+", "if", "(", ")"})
  @@ "enumerations" :> Switched(Declarations, 8, {";"}, {"type", "id", "=", "(", ")", "string"})
  @@ "classes" :> Stopped(<<Call("type_body")>>, 7, {"class", "id", ":", "end", "private", "strict", "var", ";"})
  @@ "nested types" :> Stopped(ClassMembersOnly, 6, {"type", "var", "id", "=", ":", ";", "public"})
  @@ "properties" :> Stopped(ClassMembersOnly, 6, {"property", "id", "[", "]", ":", "read", "default", ";"})
  @@ "interfaces" :> Resumed(<<Call("type_body")>>, 5, {"interface", "[", "str", "]", "procedure", "id", ";", "end"})
  @@ "records" :> Stopped(<<Call("type_body")>>, 9, {"record", "case", "of", "id", ":", "(", ")", "end"})
  @@ "types" :> Resumed(<<Call("parse_type")>>, 4, {"array", "[", "]", "of", "set", "file", "^", "id", "..", "int"})
  @@ "routines" :> Resumed(Declarations, 5, {"procedure", "function", "id", "(", ")", ":", ";", "var", "external", "begin"})
  @@ "operators" :> Stopped(Declarations, 8, {"operator", "+", "id", "(", ")", ":", ";"})
  @@ "constants" :> Stopped(Declarations, 8, {"const", "id", ":", "=", "(", ")", ",", "array"})
  @@ "units" :> Resumed(<<Call("parse")>>, 9, {"unit", "id", ";", "interface", "implementation", "uses", "initialization", "end", "."})
  @@ "programs" :> Stopped(<<Call("parse")>>, 7, {"program", "id", ";", "(", ")", "label", "begin", "end", "."})
  @@ "asm" :> Resumed(<<Call("parse_statement")>>, 5, {"asm", "end", "goto", "id", "raise", "at", "inherited", ";"})

\* The grammar gives each text one tree.
ASSUME Unambiguous == Cardinality(Meant) = Cardinality(MeantTexts)
=============================================================================
