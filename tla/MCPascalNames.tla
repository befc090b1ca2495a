--------------------------- MODULE MCPascalNames ---------------------------
(***************************************************************************)
(* An instance of PascalNames.  For the emitter: three identifiers, one of *)
(* them Result, and a program whose units declare the same ones.  For the  *)
(* registry: two type names, declared by the used units too, in every form *)
(* and with every kind of reference; values that may clash with them.      *)
(***************************************************************************)
EXTENDS PascalNames, TLC

MCWorldUses == "main" :> <<"a", "b">> @@ "a" :> <<>> @@ "b" :> <<"a">>

MCWorlds ==
  {[uses |-> MCWorldUses,
    exports |-> "main" :> {"x"} @@ "a" :> {"x", "y"} @@ "b" :> {"y"} @@ "rt" :> {"y", "result"}]}

MCClasses == {{}, {"x", "result"}}

-----------------------------------------------------------------------------
(* The declarations of a unit whose interface uses a and whose             *)
(* implementation uses b.                                                  *)

MCUses == [interface |-> <<"a">>, implementation |-> <<"b">>]

Decl(form, name, path) ==
  [form |-> form, name |-> name, path |-> path, nested |-> "-", label |-> "-", locals |-> <<>>]
Labelled(form, name, label) == [Decl(form, name, <<>>) EXCEPT !.label = label]
Holding(form, name, path) == [Decl(form, name, path) EXCEPT !.nested = "u"]
RoutineX(locals) == [Decl("proc", "x", <<"t">>) EXCEPT !.locals = locals]

MCExports ==
  << [unit |-> "a", type |-> Decl("class", "t", <<>>)],
     [unit |-> "b", type |-> Holding("record", "t", <<>>)],
     [unit |-> "rt", type |-> Decl("record", "u", <<>>)] >>

TypeNames == {"t", "u"}
Plain == {<<n>> : n \in TypeNames}
Paths == Plain \cup {<<"a", "t">>, <<"t", "u">>}

\* Every form for t, and for u what makes the chains of references.
TypeDeclarations ==
       {Decl("alias", n, p) : n \in TypeNames, p \in Paths}
  \cup {Decl("pointer", n, <<"t">>) : n \in TypeNames}
  \cup {Holding(f, n, <<"t">>) : f \in {"record", "node"}, n \in TypeNames}
  \cup {Decl(f, n, <<>>) : f \in {"forward", "class"}, n \in TypeNames}
  \cup {Decl("pointer", "t", <<"u">>), Holding("record", "t", <<"u">>), Decl("class", "u", <<"t">>)}
  \cup {Decl("class", "t", <<"t">>), Labelled("enum", "t", "x")}

LocalLists ==
  {<<Decl("alias", "t", p)>> : p \in Plain}
  \cup {<<Labelled("enum", "u", "x")>>, <<Decl("var", "x", <<"t">>)>>, <<Decl("const", "x", <<>>)>>}
  \cup {<<Decl("alias", "u", <<"t">>), Decl("alias", "t", <<"u">>)>>,
        <<Decl("pointer", "u", <<"t">>), Decl("record", "t", <<"t">>)>>}

ValueDeclarations ==
  {Decl("var", "x", p) : p \in Paths \cup {<<"main", "t">>}}
  \cup {Decl("var", "t", <<"t">>), Labelled("var", "y", "x"), Decl("const", "x", <<>>)}
  \cup {RoutineX(locals) : locals \in {<<>>} \cup {<<l>> : l \in LocalLists} \cup (LocalLists \X LocalLists)}

MCLists == {<<d>> : d \in TypeDeclarations \cup ValueDeclarations} \cup (TypeDeclarations \X TypeDeclarations)
=============================================================================
