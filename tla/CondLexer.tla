----------------------------- MODULE CondLexer -----------------------------
(***************************************************************************)
(* Conditional compilation and includes: handle_directive, do_include and  *)
(* next of src/lexer.cc, which decide what part of the source text the     *)
(* parser gets to see.                                                     *)
(*                                                                         *)
(* Source text is a sequence of items: directives, and tokens.  Everything *)
(* a condition can ask about is a named Boolean setting: a macro is        *)
(* defined or not ({$ifdef}, {$ifndef}, {$if defined(..)}), a switch is on *)
(* or off ({$ifopt Q+}, {$ifopt H-}, ..).  An {$ifopt} on a switch that is *)
(* not tracked never holds; an {$if} that cannot be evaluated reports an   *)
(* error and does not hold.                                                *)
(*                                                                         *)
(* The root file is written while it is read: each item of it is any item  *)
(* at all, so TLC looks at all texts of MaxItems items.                    *)
(***************************************************************************)
EXTENDS Naturals, Sequences, FiniteSets

CONSTANTS Settings,  \* macros and switches
          Included,  \* contents of the include files, by name
          Missing,   \* the name of an include file that does not exist
          Items,     \* the items that the root file may hold
          MaxItems   \* bound: length of the root file

Conditions ==
  [kind : {"test", "untracked", "bad"}, setting : Settings, want : BOOLEAN]

Item == [op : {"if", "elseif"}, cond : Conditions]
        \cup [op : {"else", "endif", "error", "token", "badliteral"}]
        \cup [op : {"set"}, setting : Settings, value : BOOLEAN]
        \cup [op : {"include"}, file : DOMAIN Included \cup {Missing}]

ASSUME BoundAssumption == MaxItems \in Nat
ASSUME ItemsAssumption == Items \subseteq Item
ASSUME IncludedAssumption ==
  /\ Missing \notin DOMAIN Included
  /\ \A f \in DOMAIN Included : Included[f] \in Seq(Item)

VARIABLES ifdef_stack, \* one frame for each conditional that is open
          settings,    \* defines_ and the switches
          inputs,      \* stack_ above the root file: where in which file
          rootLength,  \* how much of the root file has been read
          tokens,      \* what next() has returned, as positions in text
          errors,      \* number of errors reported
          text         \* history: the items read, with the settings then

vars == <<ifdef_stack, settings, inputs, rootLength, tokens, errors, text>>

Frame == [accepting : BOOLEAN, any_taken : BOOLEAN, in_else : BOOLEAN]

Init == /\ ifdef_stack = << >>
        /\ settings = [s \in Settings |-> FALSE]
        /\ inputs = << >>
        /\ rootLength = 0
        /\ tokens = {}
        /\ errors = 0
        /\ text = << >>

(***************************************************************************)
(* Reading: the next item comes from the innermost include file that has   *)
(* one left, else from the root file.                                      *)
(***************************************************************************)
TopInput == inputs[Len(inputs)]
AtEndOfInput == inputs # << >> /\ TopInput.pos > Len(Included[TopInput.file])

PopInput == /\ AtEndOfInput
            /\ inputs' = SubSeq(inputs, 1, Len(inputs) - 1)
            /\ UNCHANGED <<ifdef_stack, settings, rootLength, tokens, errors, text>>

Advance == IF inputs = << >> THEN << >>
           ELSE [inputs EXCEPT ![Len(inputs)].pos = @ + 1]

Read(item) ==
  /\ ~AtEndOfInput
  /\ IF inputs = << >>
     THEN /\ rootLength < MaxItems
          /\ item \in Items
          /\ rootLength' = rootLength + 1
     ELSE /\ item = Included[TopInput.file][TopInput.pos]
          /\ UNCHANGED rootLength
  /\ text' = Append(text, [item |-> item, settings |-> settings])

\* What the lexer could be reading, so that Read(item) can be quantified.
NextItems == IF inputs = << >> THEN Items
             ELSE IF AtEndOfInput THEN {}
             ELSE {Included[TopInput.file][TopInput.pos]}

(***************************************************************************)
(* Conditions.                                                             *)
(***************************************************************************)
accepting == \A i \in 1..Len(ifdef_stack) : ifdef_stack[i].accepting

Holds(cond, now) == cond.kind = "test" /\ now[cond.setting] = cond.want
Report(b) == errors' = IF b THEN errors + 1 ELSE errors

\* Mutant: the parent's state is not asked for.
BranchTakenAnywhere(cond) == Holds(cond, settings)

\* A new conditional takes its first branch only within accepted text.
BranchTaken(cond) == accepting /\ Holds(cond, settings)

\* {$ifdef}, {$ifndef}, {$ifopt}, {$if}: a condition is only evaluated, and
\* its errors only reported, where text is accepted.
OpenIf(cond) ==
  /\ Read([op |-> "if", cond |-> cond])
  /\ ifdef_stack' = Append(ifdef_stack, [accepting |-> BranchTaken(cond),
                                         any_taken |-> BranchTaken(cond),
                                         in_else |-> FALSE])
  /\ Report(accepting /\ cond.kind = "bad")
  /\ inputs' = Advance
  /\ UNCHANGED <<settings, tokens>>

Depth == Len(ifdef_stack)
Top == ifdef_stack[Depth]
ParentAccepts == \A i \in 1..(Depth - 1) : ifdef_stack[i].accepting

\* Mutant: a branch that is not taken clears any_taken.
EnterBranchAfresh(taken, is_else) ==
  ifdef_stack' = [ifdef_stack EXCEPT ![Depth] =
                    [accepting |-> taken, any_taken |-> taken, in_else |-> is_else]]

\* The top frame moves on to a branch, which is taken or not.
EnterBranch(taken, is_else) ==
  ifdef_stack' = [ifdef_stack EXCEPT ![Depth] =
                    [accepting |-> taken,
                     any_taken |-> Top.any_taken \/ taken,
                     in_else |-> is_else]]

\* Mutant: a later condition is evaluated although a branch was taken.
EvaluatedAlways == ParentAccepts

\* A later branch counts when its parent accepts and no branch was taken.
Evaluated == ParentAccepts /\ ~Top.any_taken

ElseIf(cond) ==
  /\ Read([op |-> "elseif", cond |-> cond])
  /\ IF Depth = 0 \/ Top.in_else
     THEN Report(TRUE) /\ UNCHANGED ifdef_stack
     ELSE /\ EnterBranch(Evaluated /\ Holds(cond, settings), FALSE)
          /\ Report(Evaluated /\ cond.kind = "bad")
  /\ inputs' = Advance
  /\ UNCHANGED <<settings, tokens>>

Else ==
  /\ Read([op |-> "else"])
  /\ IF Depth = 0 \/ Top.in_else
     THEN Report(TRUE) /\ UNCHANGED ifdef_stack
     ELSE /\ EnterBranch(Evaluated, TRUE)
          /\ UNCHANGED errors
  /\ inputs' = Advance
  /\ UNCHANGED <<settings, tokens>>

EndIf ==
  /\ Read([op |-> "endif"])
  /\ ifdef_stack' = IF Depth = 0 THEN ifdef_stack
                    ELSE SubSeq(ifdef_stack, 1, Depth - 1)
  /\ Report(Depth = 0)
  /\ inputs' = Advance
  /\ UNCHANGED <<settings, tokens>>

(***************************************************************************)
(* The directives that apply only where text is accepted, and tokens.      *)
(***************************************************************************)
\* {$define}, {$undef}, {$Q+}, {$H-}, ..
Set(s, b) ==
  /\ Read([op |-> "set", setting |-> s, value |-> b])
  /\ settings' = IF accepting THEN [settings EXCEPT ![s] = b] ELSE settings
  /\ inputs' = Advance
  /\ UNCHANGED <<ifdef_stack, tokens, errors>>

\* The included file is read before the rest of the including one.
Include(f) ==
  /\ Read([op |-> "include", file |-> f])
  /\ inputs' = IF accepting /\ f # Missing
               THEN Append(Advance, [file |-> f, pos |-> 1])
               ELSE Advance
  /\ Report(accepting /\ f = Missing)
  /\ UNCHANGED <<ifdef_stack, settings, tokens>>

\* {$error}, {$fatal}
ErrorDirective ==
  /\ Read([op |-> "error"])
  /\ Report(accepting)
  /\ inputs' = Advance
  /\ UNCHANGED <<ifdef_stack, settings, tokens>>

\* next(): a token of a rejected branch is swallowed.  A string literal is
\* scanned by scan_string in both cases, and when it is ill-formed (a lone
\* apostrophe on its line, #999) scan_string reports that in both cases.
Token(op) ==
  /\ Read([op |-> op])
  /\ tokens' = IF accepting THEN tokens \cup {Len(text) + 1} ELSE tokens
  /\ Report(op = "badliteral")
  /\ inputs' = Advance
  /\ UNCHANGED <<ifdef_stack, settings>>

Directive(item) ==
  \/ item.op = "if" /\ OpenIf(item.cond)
  \/ item.op = "elseif" /\ ElseIf(item.cond)
  \/ item.op = "else" /\ Else
  \/ item.op = "endif" /\ EndIf
  \/ item.op = "set" /\ Set(item.setting, item.value)
  \/ item.op = "include" /\ Include(item.file)
  \/ item.op = "error" /\ ErrorDirective
  \/ item.op \in {"token", "badliteral"} /\ Token(item.op)

Next == PopInput \/ \E item \in NextItems : Directive(item)

Spec == Init /\ [][Next]_vars

-----------------------------------------------------------------------------

\* lexer.h:109 says of accepting() "top of stack says yes (or stack empty)",
\* where the code asks every frame: the two agree, because no frame accepts
\* inside one that does not, through any order of directives and includes.
TopDecides == accepting <=> (ifdef_stack = << >> \/ Top.accepting)
FramesNest ==
  /\ TopDecides
  /\ \A i \in 1..Depth : ifdef_stack[i].accepting =>
       /\ ifdef_stack[i].any_taken
       /\ \A j \in 1..i : ifdef_stack[j].accepting

(***************************************************************************)
(* What conditional compilation means, read off the text with no stack.    *)
(* Level[p] is the number of conditionals open after item p.               *)
(***************************************************************************)
Op(p) == text[p].item.op
Positions == 1..Len(text)
Level[p \in 0..Len(text)] ==
  IF p = 0 THEN 0
  ELSE IF Op(p) = "if" THEN Level[p - 1] + 1
  ELSE IF Op(p) = "endif" /\ Level[p - 1] > 0 THEN Level[p - 1] - 1
  ELSE Level[p - 1]

\* o opens a conditional that is still open just before p.
Encloses(o, p) == /\ o < p /\ Op(o) = "if"
                  /\ \A q \in o..(p - 1) : Level[q] >= Level[o]

\* The directives that start a branch of o: o itself, and what comes up to
\* and including its first {$else}.
BranchOf(o, q) == /\ Op(q) \in {"elseif", "else"}
                  /\ Encloses(o, q) /\ Level[q] = Level[o]
                  /\ ~\E r \in (o + 1)..(q - 1) :
                        Op(r) = "else" /\ Encloses(o, r) /\ Level[r] = Level[o]
BranchesBefore(o, p) == {o} \cup {q \in (o + 1)..(p - 1) : BranchOf(o, q)}
TrueAt(q) == Op(q) = "else" \/ Holds(text[q].item.cond, text[q].settings)

\* p lies in the last branch of o before it: that must be the first true one.
Selected(o, p) ==
  LET branches == BranchesBefore(o, p) IN
  \E b \in branches : /\ TrueAt(b)
                      /\ \A c \in branches : c <= b /\ (TrueAt(c) => c = b)
Accepted(p) == \A o \in Positions : Encloses(o, p) => Selected(o, p)

\* The parser sees exactly the tokens of the branches that conditional
\* compilation selects, whatever is nested, unbalanced or split over include
\* files, and the settings that conditions see come from such branches only.
SelectionIsCorrect ==
  /\ tokens = {p \in Positions : /\ Op(p) \in {"token", "badliteral"}
                                /\ Accepted(p)}
  /\ \A s \in Settings :
       LET writes == {p \in Positions : /\ Op(p) = "set" /\ Accepted(p)
                                        /\ text[p].item.setting = s} IN
       settings[s] = IF writes = {} THEN FALSE
                     ELSE text[CHOOSE p \in writes :
                                 \A q \in writes : q <= p].item.value

\* An error is reported for each directive that has no conditional to belong
\* to, for each failing directive or condition that is not skipped, and for
\* each ill-formed literal; no other comes from a rejected branch or from a
\* condition that need not be asked.
Belongs(p) == \E o \in Positions : BranchOf(o, p)
Asked(p) == IF Op(p) = "if" THEN Accepted(p)
            ELSE \E o \in Positions :
                   /\ BranchOf(o, p) /\ Accepted(o)
                   /\ \A b \in BranchesBefore(o, p) : ~TrueAt(b)
Faulty(p) ==
  \/ Op(p) = "endif" /\ Level[p - 1] = 0
  \/ Op(p) \in {"elseif", "else"} /\ ~Belongs(p)
  \/ Op(p) \in {"if", "elseif"} /\ text[p].item.cond.kind = "bad" /\ Asked(p)
  \/ Op(p) = "badliteral"
  \/ Op(p) = "error" /\ Accepted(p)
  \/ Op(p) = "include" /\ text[p].item.file = Missing /\ Accepted(p)
DiagnosticsAreExact == errors = Cardinality({p \in Positions : Faulty(p)})
=============================================================================
