--------------------------- MODULE PascalGrammar ---------------------------
(***************************************************************************)
(* The expressions and statements of the dialect as a grammar: the phrases *)
(* of each kind, by length, with their trees.  Precedence is in the kinds; *)
(* the dangling else and the places where a statement may be empty are     *)
(* conditions on trees and texts.                                          *)
(***************************************************************************)
EXTENDS Naturals, Sequences, SequencesExt, TLC

\* `open' says whether an `else' that follows would belong to the phrase.
Phrase(words, trees, open) == [text |-> words, trees |-> trees, open |-> open]
Cat(P, Q) == {Phrase(p.text \o q.text, p.trees \o q.trees, q.open) : p \in P, q \in Q}
Node(kind, P) == {Phrase(p.text, <<<<kind>> \o p.trees>>, p.open) : p \in P}

\* Parts of a rule: a word, a word that is a leaf of the tree, a leaf that has
\* no word, a kind of phrases, and a list of them.
Word(t) == [words |-> {t}, leaf |-> FALSE]
Leaf(T) == [words |-> T, leaf |-> TRUE]
None == [none |-> TRUE]
Kind(k) == [kind |-> k, list |-> FALSE]
ListOf(k) == [kind |-> k, list |-> TRUE]

\* What a part stands for at length i, the words being among A.
Meaning(part, i, g, A) ==
  CASE "words" \in DOMAIN part ->
         IF i # 1 THEN {}
         ELSE {Phrase(<<t>>, IF part.leaf THEN <<<<t>>>> ELSE <<>>, FALSE) : t \in part.words \cap A}
    [] "none" \in DOMAIN part -> IF i = 0 THEN {Phrase(<<>>, <<<<"">>>>, FALSE)} ELSE {}
    [] "kind" \in DOMAIN part ->
         LET P == IF i < Len(g) THEN g[i + 1][part.kind] ELSE {} IN
           IF part.list THEN Node("List", P) ELSE P

\* The phrases of length n made of these parts: made[j, k] of length k of the
\* parts from the j-th one on.
Empty == {Phrase(<<>>, <<>>, FALSE)}
Phrases(parts, n, g, A) ==
  LET made[j \in 1..Len(parts) + 1, k \in 0..n] ==
        IF j > Len(parts) THEN IF k = 0 THEN Empty ELSE {}
        ELSE IF j = Len(parts) THEN Meaning(parts[j], k, g, A)
        ELSE UNION {LET P == Meaning(parts[j], i, g, A) IN
                      IF P = {} THEN {} ELSE Cat(P, made[j + 1, k - i]) : i \in 0..k}
  IN made[1, n]

\* An empty statement stands before `;', `end', `until' and `else' only.
LeavesEmpty == {"then", "do", ":", "else", "raise"}
EmptyIsLegal(words) ==
  \A i \in 1..Len(words) :
    words[i] \in LeavesEmpty => i < Len(words) /\ words[i + 1] \notin {"except", "finally", "otherwise"}

EmptyStmt == {Phrase(<<>>, <<<<"EmptyStmt">>>>, FALSE)}
Names == {"id", "on"}

-----------------------------------------------------------------------------
(* The rules.                                                              *)

\* A rule for phrases of a kind: their parts, and the node they make ("" is none).
Rule(node, parts) == [node |-> node, parts |-> parts]
W(t) == Word(t)
E == Kind("expr")
S == Kind("stmt")
Name == Leaf(Names)
CaseRule(arms, rest) == Rule("Case", <<W("case"), E, W("of"), ListOf(arms)>> \o rest \o <<W("end")>>)

Rules ==
  [primary  |-> {Rule("", <<Leaf(Names \cup {"int", "nil", "self"})>>),
                 Rule("", <<W("("), E, W(")")>>),
                 Rule("SetLit", <<W("["), ListOf("elements"), W("]")>>),
                 Rule("Member", <<Kind("primary"), W("."), Name>>),
                 Rule("Deref", <<Kind("primary"), W("^")>>),
                 Rule("Index", <<Kind("primary"), W("["), ListOf("exprs"), W("]")>>),
                 Rule("Call", <<Kind("primary"), W("("), ListOf("args"), W(")")>>)},
   factor   |-> {Rule("Unary", <<Leaf({"+", "-", "not"}), Kind("factor")>>),
                 Rule("AddrOf", <<Leaf({"@"}), Kind("factor")>>)},
   term     |-> {Rule("Binary", <<Kind("term"), Leaf({"*", "and"}), Kind("factor")>>)},
   simple   |-> {Rule("Binary", <<Kind("simple"), Leaf({"+", "-", "or"}), Kind("term")>>)},
   expr     |-> {Rule("Binary", <<E, Leaf({"=", "<", "in"}), Kind("simple")>>)},
   exprs    |-> {Rule("", <<Kind("exprs"), W(","), E>>)},
   args     |-> {Rule("", <<Kind("exprs"), W(",")>>)},
   range    |-> {Rule("Range", <<E, W(".."), E>>)},
   ranges   |-> {Rule("", <<Kind("ranges"), W(","), Kind("range")>>)},
   elements |-> {Rule("", <<Kind("ranges"), W(",")>>)},
   exprstmt |-> {},
   stmt     |-> {Rule("Assign", <<E, W(":="), E>>),
                 Rule("Labeled", <<Leaf(Names \cup {"int"}), W(":"), S>>),
                 Rule("Goto", <<W("goto"), Leaf(Names \cup {"int"})>>),
                 Rule("Compound", <<W("begin"), ListOf("items"), W("end")>>),
                 Rule("If", <<W("if"), E, W("then"), Kind("closed"), W("else"), S>>),
                 Rule("While", <<W("while"), E, W("do"), S>>),
                 Rule("Repeat", <<W("repeat"), ListOf("items"), W("until"), E>>),
                 Rule("For", <<W("for"), Name, W(":="), E, Leaf({"to", "downto"}), E, W("do"), S>>),
                 Rule("ForIn", <<W("for"), Name, W("in"), E, W("do"), S>>),
                 Rule("With", <<W("with"), ListOf("exprs"), W("do"), S>>),
                 CaseRule("arms", <<None>>),
                 CaseRule("sealedarms", <<W("else"), ListOf("items")>>),
                 CaseRule("arms", <<W("otherwise"), ListOf("items")>>),
                 Rule("Raise", <<W("raise"), None>>), Rule("Raise", <<W("raise"), E>>),
                 Rule("Try", <<W("try"), ListOf("items"), Kind("except"), W("end")>>)},
   openif   |-> {Rule("If", <<W("if"), E, W("then"), S>>)},
   items    |-> {Rule("", <<S, W(";"), Kind("items")>>)},
   arm      |-> {Rule("Arm", <<ListOf("ranges"), W(":"), S>>)},
   arms     |-> {Rule("", <<Kind("arm"), W(";"), Kind("arms")>>)},
   handler  |-> {Rule("On", <<W("on"), Name, W("do"), S>>),
                 Rule("On", <<W("on"), Kind("bind"), W("do"), S>>)},
   bind     |-> {Rule("Bind", <<Name, W(":"), Name>>)},
   \* The `;' between handlers may be left out.
   handlers |-> {Rule("", <<Kind("handler"), W(";")>>),
                 Rule("", <<Kind("handler"), W(";"), Kind("handlers")>>),
                 Rule("", <<Kind("fullhandler"), Kind("handlers")>>)},
   except   |-> {Rule("Finally", <<W("finally"), ListOf("items")>>),
                 Rule("Except", <<W("except"), ListOf("handlers"), None>>),
                 Rule("Except", <<W("except"), ListOf("sealed"), W("else"), ListOf("items")>>)},
   caught   |-> {Rule("Except", <<W("except"), ListOf("items")>>)},
   closed   |-> {}, sealedarms |-> {}, fullhandler |-> {}, sealed |-> {}]

\* The kinds whose phrases a kind has too.
Broader(k) ==
  CASE k = "factor" -> {"primary"} [] k = "term" -> {"factor"} [] k = "simple" -> {"term"}
    [] k = "expr" -> {"simple"} [] k \in {"exprs", "range", "exprstmt"} -> {"expr"}
    [] k = "args" -> {"exprs"} [] k = "ranges" -> {"range"} [] k = "elements" -> {"ranges"}
    [] k = "stmt" -> {"exprstmt", "openif"} [] k \in {"items", "closed"} -> {"stmt"}
    [] k = "arms" -> {"arm"} [] k = "sealedarms" -> {"arms"}
    [] k \in {"handlers", "fullhandler"} -> {"handler"} [] k = "sealed" -> {"handlers"}
    [] k = "except" -> {"caught"}
    [] OTHER -> {}

\* What a kind makes of them and of those by its own rules.  `closed' and `sealed':
\* no `else' can follow; `full': does not end in an empty statement.
Restricted(k, P) ==
  CASE k = "exprstmt" -> Node("ExprStmt", P)
    [] k = "openif" -> {[p EXCEPT !.open = TRUE] : p \in P}
    [] k \in {"closed", "sealedarms", "sealed"} -> {p \in P : ~p.open}
    [] k = "fullhandler" -> {p \in P : Last(p.text) \notin LeavesEmpty}
    [] k = "caught" -> {p \in P : Len(p.text) = 1 \/ p.text[2] # "on"}
    [] OTHER -> P

\* The phrases of length 0.
EmptyPhrases ==
  [k \in DOMAIN Rules |->
     CASE k \in {"stmt", "closed"} -> EmptyStmt
       [] k \in {"args", "elements", "items", "arms", "sealedarms"} -> Empty
       [] OTHER -> {}]

\* The kinds, each after those it is broader than.
Order ==
  <<"primary", "factor", "term", "simple", "expr", "exprs", "args", "range", "ranges", "elements", "exprstmt",
    "openif", "stmt", "closed", "items", "arm", "arms", "sealedarms", "bind", "handler", "fullhandler",
    "handlers", "sealed", "caught", "except">>

\* The phrases of length n of every kind, g being the shorter ones.
PhrasesOf(n, g, A) ==
  LET made(rule) == LET P == Phrases(rule.parts, n, g, A) IN IF rule.node = "" THEN P ELSE Node(rule.node, P)
  IN FoldLeft(LAMBDA of, k :
                (k :> Restricted(k, UNION {made(rule) : rule \in Rules[k]} \cup UNION {of[b] : b \in Broader(k)})) @@ of,
              <<>>, Order)

\* The phrases of kind k and of up to N words, all among A.
Language(k, A, N) ==
  LET levels[n \in 0..N] ==
        IF n = 0 THEN <<EmptyPhrases>>
        ELSE LET g == levels[n - 1] IN Append(g, PhrasesOf(n, g, A))
      g == levels[N]
  IN UNION {{p \in g[n + 1][k] : EmptyIsLegal(p.text)} : n \in 1..N}
=============================================================================
