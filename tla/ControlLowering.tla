------------------------- MODULE ControlLowering -------------------------
(***************************************************************************)
(* How emit_stmts.cc turns Pascal control flow into C++: loops with their  *)
(* break and continue labels, case, exit, raise, try..except and           *)
(* try..finally.  A program is the body of one function.  Emit lowers it,  *)
(* Execute runs the C++ that was written by the rules of C++, and Pascal   *)
(* says what the body does by the rules of Pascal; the properties compare  *)
(* the two.                                                                *)
(*                                                                         *)
(* Expressions are abstracted.  The store that both languages act on has   *)
(* the control variable i, the function result, the number of times that   *)
(* the condition of a while or a repeat still holds, and the trace of what *)
(* the program did: marks (calls, writes) and the entries and clean-ups of *)
(* the try..finally statements.  A case selects on i.                      *)
(***************************************************************************)
EXTENDS Integers, Sequences, SequencesExt, FiniteSets

CONSTANTS Programs,   \* the function bodies to translate
          Classes,    \* exception classes
          Exception,  \* the class that rt::t_exception stands for
          Parent,     \* the parent of every class but the roots
          MaxOrd,     \* the largest value of the carrier of i, which holds 0..MaxOrd
          Tests       \* how often a while or repeat condition holds

VARIABLES source, code, errors, outcome
vars == <<source, code, errors, outcome>>

NoCode == [k |-> "none"]
NotRun == [how |-> "none"]
NoClass == "none"

ASSUME ClassesAssumption == Exception \in Classes /\ NoClass \notin Classes /\ Parent \in [Classes -> Classes]
ASSUME CarrierAssumption == MaxOrd \in Nat /\ Tests \in Nat

\* c is d or inherits from it; a root of the hierarchy is its own parent.
RECURSIVE IsA(_, _)
IsA(c, d) == c = d \/ (Parent[c] # c /\ IsA(Parent[c], d))

----------------------------------------------------------------------------
(* Source statements *)

Mark(m) == [k |-> "mark", m |-> m]
SetResult(v) == [k |-> "set", v |-> v]
Exit == [k |-> "exit"]
ExitWith(v) == [k |-> "exitwith", v |-> v]
Break == [k |-> "break"]
Continue == [k |-> "continue"]
Raise(c) == [k |-> "raise", c |-> c]
ReRaise == [k |-> "reraise"]
Compound(ss) == [k |-> "compound", ss |-> ss]
For(lo, hi, downto, body) == [k |-> "for", lo |-> lo, hi |-> hi, downto |-> downto, body |-> body]
ForIn(set, body) == [k |-> "forin", set |-> set, body |-> body]
While(body) == [k |-> "while", body |-> body]
Repeat(body) == [k |-> "repeat", body |-> body]
Arm(labels, body) == [labels |-> labels, body |-> body]
\* A missing else branch is NoCode, here and in Try.
Case(arms, els) == [k |-> "case", arms |-> arms, els |-> els]
TryFinally(body, fin) == [k |-> "tryfinally", body |-> body, fin |-> fin]
On(class, body) == [class |-> class, body |-> body]
TryExcept(body, handlers, els) == [k |-> "tryexcept", body |-> body, handlers |-> handlers, els |-> els]

----------------------------------------------------------------------------
(* What a statement does: the store it leaves and how control leaves it.   *)

Start == [i |-> 0, item |-> <<>>, result |-> 0, left |-> Tests, trace |-> <<>>]
Ends(st, how, what) == [st |-> st, how |-> how, what |-> what]
Falls(st) == Ends(st, "normal", 0)
Did(st, m) == [st EXCEPT !.trace = Append(@, m)]
Tested(st) == [st EXCEPT !.left = IF @ = 0 THEN 0 ELSE @ - 1]

\* The values that a for statement gives its control variable, in order.
Values(s) == IF s.k = "forin" THEN SetToSortSeq(s.set, <)
             ELSE IF s.downto THEN [n \in 1 .. s.lo - s.hi + 1 |-> s.lo - n + 1]
             ELSE [n \in 1 .. s.hi - s.lo + 1 |-> s.lo + n - 1]

\* Pascal.  caught is the exception that a bare raise raises again.
RECURSIVE Pascal(_, _, _), PascalSeq(_, _, _), PascalFor(_, _, _, _), PascalWhile(_, _, _), PascalRepeat(_, _, _)

PascalSeq(ss, st, caught) ==
    IF ss = <<>> THEN Falls(st)
    ELSE LET r == Pascal(Head(ss), st, caught)
         IN IF r.how = "normal" THEN PascalSeq(Tail(ss), r.st, caught) ELSE r

PascalFor(values, body, st, caught) ==
    IF values = <<>> THEN Falls(st)
    ELSE LET r == Pascal(body, [st EXCEPT !.i = Head(values)], caught)
         IN CASE r.how \in {"normal", "continue"} -> PascalFor(Tail(values), body, r.st, caught)
              [] r.how = "break" -> Falls(r.st)
              [] OTHER -> r

PascalWhile(body, st, caught) ==
    IF st.left = 0 THEN Falls(st)
    ELSE LET r == Pascal(body, Tested(st), caught)
         IN CASE r.how \in {"normal", "continue"} -> PascalWhile(body, r.st, caught)
              [] r.how = "break" -> Falls(r.st)
              [] OTHER -> r

PascalRepeat(body, st, caught) ==
    LET r == Pascal(body, st, caught)
    IN CASE r.how \in {"normal", "continue"} ->
              IF r.st.left = 0 THEN Falls(r.st) ELSE PascalRepeat(body, Tested(r.st), caught)
         [] r.how = "break" -> Falls(r.st)
         [] OTHER -> r

\* The statement that handles an exception of class c, or NoCode.
PascalHandler(s, c) ==
    LET fits == {h \in DOMAIN s.handlers : IsA(c, s.handlers[h].class)}
    IN IF fits = {} THEN s.els ELSE s.handlers[CHOOSE h \in fits : \A g \in fits : h <= g].body

Pascal(s, st, caught) ==
    CASE s.k = "mark" -> Falls(Did(st, s.m))
      [] s.k = "set" -> Falls([st EXCEPT !.result = s.v])
      [] s.k = "exit" -> Ends(st, "exit", 0)
      [] s.k = "exitwith" -> Ends([st EXCEPT !.result = s.v], "exit", 0)
      [] s.k \in {"break", "continue"} -> Ends(st, s.k, 0)
      [] s.k = "raise" -> Ends(st, "raise", s.c)
      [] s.k = "reraise" -> Ends(st, "raise", caught)
      [] s.k = "compound" -> PascalSeq(s.ss, st, caught)
      [] s.k \in {"for", "forin"} -> PascalFor(Values(s), s.body, st, caught)
      [] s.k = "while" -> PascalWhile(s.body, st, caught)
      [] s.k = "repeat" -> PascalRepeat(s.body, st, caught)
      [] s.k = "case" ->
            LET fits == {a \in DOMAIN s.arms : st.i \in s.arms[a].labels}
            IN IF fits # {} THEN Pascal(s.arms[CHOOSE a \in fits : TRUE].body, st, caught)
               ELSE IF s.els = NoCode THEN Falls(st) ELSE Pascal(s.els, st, caught)
      [] s.k = "tryfinally" ->
            LET r == Pascal(s.body, Did(st, "enter"), caught)
                f == Pascal(s.fin, Did(r.st, "cleanup"), caught)
            IN IF f.how = "normal" THEN Ends(f.st, r.how, r.what) ELSE f
      [] s.k = "tryexcept" ->
            LET r == Pascal(s.body, st, caught)
                handler == PascalHandler(s, r.what)
            IN CASE r.how # "raise" -> r
                 [] s.handlers = <<>> -> IF s.els = NoCode THEN Falls(r.st) ELSE Pascal(s.els, r.st, r.what)
                 [] s.handlers # <<>> /\ handler = NoCode -> r
                 [] OTHER -> Pascal(handler, r.st, r.what)

\* What the caller sees of the function.
PascalOutcome ==
    LET r == Pascal(source, Start, NoClass)
    IN IF r.how = "raise" THEN [how |-> "throws", what |-> r.what, st |-> r.st]
       ELSE [how |-> "returns", what |-> r.st.result, st |-> r.st]

----------------------------------------------------------------------------
(* The C++ that is written *)

Label(kind, n) == <<kind, n>>
Goto(l) == [k |-> "goto", l |-> l]
At(l) == [k |-> "label", l |-> l]
Block(ss) == [k |-> "block", ss |-> ss]
Return == [k |-> "return"]
Throw(c) == [k |-> "throw", c |-> c]
Rethrow == [k |-> "rethrow"]
If(test, body) == [k |-> "if", test |-> test, body |-> body]
Chain(arms, els) == [k |-> "chain", arms |-> arms, els |-> els]
Forever(body) == [k |-> "forever", body |-> body]
Loop(kind, body) == [k |-> kind, body |-> body]
BreakIf(test) == If(test, [k |-> "break"])
Guard(fin, body) == [k |-> "guard", fin |-> fin, body |-> body]
Dispatch(arms, els) == [k |-> "dispatch", arms |-> arms, els |-> els]
Try(body, typed, all) == [k |-> "try", body |-> body, typed |-> typed, all |-> all]

Always(b) == [t |-> "always", b |-> b]
ControlAt(v) == [t |-> "control", set |-> {v}]
ControlIn(set) == [t |-> "control", set |-> set]
ItemAt(n, v) == [t |-> "item", n |-> n, set |-> {v}]
ItemIn(n, set) == [t |-> "item", n |-> n, set |-> set]

Holds(test, st) == CASE test.t = "always" -> test.b
                     [] test.t = "control" -> st.i \in test.set
                     [] test.t = "item" -> st.item[test.n] \in test.set

\* tp2cc_ordinal_add and tp2cc_ordinal_sub without checks wrap around in the carrier.
Stepped(v, downto) == (IF downto THEN v - 1 ELSE v + 1) % (MaxOrd + 1)

\* The index behind the label l in the block ss, if the block has it.
Target(ss, l) == {n + 1 : n \in {m \in DOMAIN ss : ss[m] = At(l)}}

RECURSIVE Cxx(_, _, _), CxxFrom(_, _, _, _), CxxForever(_, _, _, _), CxxWhile(_, _, _), CxxDo(_, _, _)

CxxFrom(ss, n, st, caught) ==
    IF n > Len(ss) THEN Falls(st)
    ELSE LET r == Cxx(ss[n], st, caught)
         IN CASE r.how = "normal" -> CxxFrom(ss, n + 1, r.st, caught)
              [] r.how = "goto" /\ Target(ss, r.what) # {} ->
                    CxxFrom(ss, CHOOSE t \in Target(ss, r.what) : TRUE, r.st, caught)
              [] OTHER -> r

\* A loop that has not ended after every value of its carrier does not end.
CxxForever(body, st, caught, turns) ==
    IF turns = 0 THEN Ends(st, "hangs", 0)
    ELSE LET r == Cxx(body, st, caught)
         IN CASE r.how = "normal" -> CxxForever(body, r.st, caught, turns - 1)
              [] r.how = "break" -> Falls(r.st)
              [] OTHER -> r

CxxWhile(body, st, caught) ==
    IF st.left = 0 THEN Falls(st)
    ELSE LET r == Cxx(body, Tested(st), caught)
         IN CASE r.how = "normal" -> CxxWhile(body, r.st, caught)
              [] r.how = "break" -> Falls(r.st)
              [] OTHER -> r

CxxDo(body, st, caught) ==
    LET r == Cxx(body, st, caught)
    IN CASE r.how = "normal" -> IF r.st.left = 0 THEN Falls(r.st) ELSE CxxDo(body, Tested(r.st), caught)
         [] r.how = "break" -> Falls(r.st)
         [] OTHER -> r

\* ~tp2cc_scope_exit runs fin when body is left, however it is left.  A return
\* in fin leaves the lambda only.  The destructor is noexcept: an exception
\* that leaves fin calls std::terminate, and so unwinds nothing.
CxxGuard(r, f) ==
    CASE r.how = "terminate" -> r
      [] r.how # "terminate" /\ f.how \in {"normal", "return"} -> Ends(f.st, r.how, r.what)
      [] OTHER -> Ends(f.st, "terminate", 0)

Cxx(c, st, caught) ==
    CASE c.k = "mark" -> Falls(Did(st, c.m))
      [] c.k = "set" -> Falls([st EXCEPT !.result = c.v])
      [] c.k = "control" -> Falls([st EXCEPT !.i = c.v])
      [] c.k = "step" -> Falls([st EXCEPT !.i = Stepped(@, c.downto)])
      [] c.k = "item" -> Falls([st EXCEPT !.item = (c.n :> c.v) @@ @])
      [] c.k = "useitem" -> Falls([st EXCEPT !.i = st.item[c.n]])
      [] c.k = "stepitem" -> Falls([st EXCEPT !.item[c.n] = Stepped(@, FALSE)])
      [] c.k = "return" -> Ends(st, "return", st.result)
      [] c.k = "break" -> Ends(st, "break", 0)
      [] c.k = "goto" -> Ends(st, "goto", c.l)
      [] c.k = "label" -> Falls(st)
      [] c.k = "throw" -> Ends(st, "throw", c.c)
      [] c.k = "rethrow" -> IF caught = NoClass THEN Ends(st, "terminate", 0) ELSE Ends(st, "throw", caught)
      [] c.k = "block" -> CxxFrom(c.ss, 1, st, caught)
      [] c.k = "if" -> IF Holds(c.test, st) THEN Cxx(c.body, st, caught) ELSE Falls(st)
      [] c.k = "chain" ->
            LET fits == {a \in DOMAIN c.arms : Holds(c.arms[a].test, st)}
            IN IF fits # {} THEN Cxx(c.arms[CHOOSE a \in fits : \A b \in fits : a <= b].body, st, caught)
               ELSE IF c.els = NoCode THEN Falls(st) ELSE Cxx(c.els, st, caught)
      [] c.k = "forever" -> CxxForever(c.body, st, caught, MaxOrd + 2)
      [] c.k = "while" -> CxxWhile(c.body, st, caught)
      [] c.k = "do" -> CxxDo(c.body, st, caught)
      [] c.k = "guard" ->
            LET r == Cxx(c.body, Did(st, "enter"), caught)
            IN CxxGuard(r, IF r.how = "terminate" THEN r ELSE Cxx(c.fin, Did(r.st, "cleanup"), caught))
      [] c.k = "dispatch" ->
            LET fits == {a \in DOMAIN c.arms : IsA(caught, c.arms[a].class)}
            IN IF fits # {} THEN Cxx(c.arms[CHOOSE a \in fits : \A b \in fits : a <= b].body, st, caught)
               ELSE IF c.els = NoCode THEN Ends(st, "throw", caught) ELSE Cxx(c.els, st, caught)
      [] c.k = "try" ->
            LET r == Cxx(c.body, st, caught)
            IN CASE r.how # "throw" -> r
                 [] r.how = "throw" /\ c.typed # NoCode /\ IsA(r.what, Exception) -> Cxx(c.typed, r.st, r.what)
                 [] r.how = "throw" /\ (c.typed = NoCode \/ ~IsA(r.what, Exception)) ->
                       IF c.all = NoCode THEN r ELSE Cxx(c.all, r.st, r.what)

CxxOutcome(c) ==
    LET r == Cxx(c, Start, NoClass)
    IN CASE r.how = "normal" -> [how |-> "returns", what |-> r.st.result, st |-> r.st]
         [] r.how = "return" -> [how |-> "returns", what |-> r.what, st |-> r.st]
         [] r.how = "throw" -> [how |-> "throws", what |-> r.what, st |-> r.st]
         [] OTHER -> [how |-> r.how, what |-> 0, st |-> r.st]

----------------------------------------------------------------------------
(* The translation.  A loop has the number n; loop is the number of the    *)
(* innermost loop whose body is being written, 0 outside loops.            *)

\* break and continue are gotos, so that no C++ statement can swallow them.
LowerBreak(loop) == IF loop # 0 THEN Goto(Label("break", loop)) ELSE [k |-> "break"]
LowerContinue(loop) == IF loop # 0 THEN Goto(Label("continue", loop)) ELSE [k |-> "continue"]

LowerExit == Return
LowerExitWith(v) == Block(<<SetResult(v), Return>>)

LowerWhile(n, body) ==
    Block(<<Loop("while", Block(<<body, At(Label("continue", n))>>)), At(Label("break", n))>>)

LowerRepeat(n, body) ==
    Block(<<Loop("do", Block(<<body, At(Label("continue", n))>>)), At(Label("break", n))>>)

\* Mutant: the control variable is stepped, then compared with the bound.
LowerForPastEnd(n, lo, hi, downto, body) ==
    Block(<<If(Always(IF downto THEN lo >= hi ELSE lo <= hi),
               Block(<<[k |-> "control", v |-> lo],
                       Forever(Block(<<body,
                                       At(Label("continue", n)),
                                       [k |-> "step", downto |-> downto],
                                       BreakIf(ControlIn(IF downto THEN 0 .. hi - 1 ELSE hi + 1 .. MaxOrd))>>))>>)),
            At(Label("break", n))>>)

\* The end test comes before the step, so that a loop up to the last value of
\* the carrier does not step past it.
LowerFor(n, lo, hi, downto, body) ==
    Block(<<If(Always(IF downto THEN lo >= hi ELSE lo <= hi),
               Block(<<[k |-> "control", v |-> lo],
                       Forever(Block(<<body,
                                       At(Label("continue", n)),
                                       BreakIf(ControlAt(hi)),
                                       [k |-> "step", downto |-> downto]>>))>>)),
            At(Label("break", n))>>)

\* for-in over a set walks the whole element type with an item of its own.
LowerForIn(n, set, body) ==
    Block(<<[k |-> "item", n |-> n, v |-> 0],
            Forever(Block(<<If(ItemIn(n, set),
                               Block(<<[k |-> "useitem", n |-> n], body, At(Label("continue", n))>>)),
                            BreakIf(ItemAt(n, MaxOrd)),
                            [k |-> "stepitem", n |-> n]>>)),
            At(Label("break", n))>>)

LowerCase(arms, els) == Chain([a \in DOMAIN arms |-> [test |-> ControlIn(arms[a].labels), body |-> arms[a].body]], els)

LowerTryFinally(fin, body) == Guard(fin, body)

\* Typed handlers are tried in order within one catch of exceptions; the else
\* branch is written twice, for exceptions and for everything else.
LowerTryExcept(body, arms, els, elsAgain) ==
    IF arms = <<>> THEN Try(body, NoCode, IF els = NoCode THEN Block(<<>>) ELSE els)
    ELSE Try(body, Dispatch(arms, els), elsAgain)

\* What lowering a statement yields: code, the loop counter behind it, and the
\* number of errors that it reports.
Written(c, n, e) == [c |-> c, n |-> n, e |-> e]

RECURSIVE Lower(_, _, _, _), LowerAll(_, _, _, _)

LowerAll(ss, n, loop, inHandler) ==
    IF ss = <<>> THEN Written(<<>>, n, 0)
    ELSE LET first == Lower(Head(ss), n, loop, inHandler)
             rest == LowerAll(Tail(ss), first.n, loop, inHandler)
         IN Written(<<first.c>> \o rest.c, rest.n, first.e + rest.e)

Lower(s, n, loop, inHandler) ==
    CASE s.k \in {"none", "mark", "set"} -> Written(s, n, 0)
      [] s.k = "exit" -> Written(LowerExit, n, 0)
      [] s.k = "exitwith" -> Written(LowerExitWith(s.v), n, 0)
      [] s.k = "break" -> Written(LowerBreak(loop), n, 0)
      [] s.k = "continue" -> Written(LowerContinue(loop), n, 0)
      [] s.k = "raise" -> Written(Throw(s.c), n, 0)
      [] s.k = "reraise" -> Written(Rethrow, n, IF inHandler THEN 0 ELSE 1)
      [] s.k = "compound" -> LET all == LowerAll(s.ss, n, loop, inHandler) IN Written(Block(all.c), all.n, all.e)
      [] s.k \in {"for", "forin", "while", "repeat"} ->
            LET b == Lower(s.body, n + 1, n + 1, inHandler)
            IN Written(CASE s.k = "for" -> LowerFor(n + 1, s.lo, s.hi, s.downto, b.c)
                         [] s.k = "forin" -> LowerForIn(n + 1, s.set, b.c)
                         [] s.k = "while" -> LowerWhile(n + 1, b.c)
                         [] s.k = "repeat" -> LowerRepeat(n + 1, b.c), b.n, b.e)
      [] s.k = "case" ->
            LET bodies == LowerAll([a \in DOMAIN s.arms |-> s.arms[a].body] \o <<s.els>>, n, loop, inHandler)
            IN Written(LowerCase([a \in DOMAIN s.arms |-> Arm(s.arms[a].labels, bodies.c[a])], Last(bodies.c)),
                       bodies.n, bodies.e)
      [] s.k = "tryfinally" ->
            LET both == LowerAll(<<s.fin, s.body>>, n, loop, inHandler)
            IN Written(LowerTryFinally(both.c[1], both.c[2]), both.n, both.e)
      [] s.k = "tryexcept" ->
            LET body == Lower(s.body, n, loop, inHandler)
                caught == LowerAll([h \in DOMAIN s.handlers |-> s.handlers[h].body] \o <<s.els>>, body.n, loop, TRUE)
                again == IF s.handlers = <<>> THEN Written(NoCode, caught.n, 0)
                         ELSE Lower(s.els, caught.n, loop, TRUE)
            IN Written(LowerTryExcept(body.c, [h \in DOMAIN s.handlers |-> On(s.handlers[h].class, caught.c[h])],
                                      Last(caught.c), again.c),
                       again.n, body.e + caught.e + again.e)

----------------------------------------------------------------------------

Init == /\ source \in Programs
        /\ code = NoCode
        /\ errors = 0
        /\ outcome = NotRun

Emit ==
    /\ code = NoCode
    /\ LET w == Lower(source, 0, 0, FALSE) IN code' = w.c /\ errors' = w.e
    /\ UNCHANGED <<source, outcome>>

\* Only a translation without errors is written out and compiled.
Execute ==
    /\ code # NoCode /\ errors = 0 /\ outcome = NotRun
    /\ outcome' = CxxOutcome(code)
    /\ UNCHANGED <<source, code, errors>>

Next == Emit \/ Execute
Spec == Init /\ [][Next]_vars

----------------------------------------------------------------------------
(* Properties *)

\* The statements within a C++ statement.
Parts(c) ==
    CASE c.k = "block" -> c.ss
      [] c.k \in {"if", "forever", "while", "do"} -> <<c.body>>
      [] c.k \in {"chain", "dispatch"} -> [a \in DOMAIN c.arms |-> c.arms[a].body] \o <<c.els>>
      [] c.k = "guard" -> <<c.fin, c.body>>
      [] c.k = "try" -> <<c.body, c.typed, c.all>>
      [] OTHER -> <<>>

RECURSIVE LabelsOf(_), GotosReach(_, _)
LabelsOf(c) == (IF c.k = "label" THEN <<c.l>> ELSE <<>>)
               \o FoldSeq(LAMBDA part, found : LabelsOf(part) \o found, <<>>, Parts(c))

\* A goto may leave blocks, try blocks and handlers, but not a lambda.
GotosReach(c, visible) ==
    CASE c.k = "goto" -> c.l \in visible
      [] c.k = "guard" -> GotosReach(c.fin, {}) /\ GotosReach(c.body, visible)
      [] OTHER -> \A part \in Range(Parts(c)) :
                      GotosReach(part, visible \cup IF c.k = "block" THEN {l \in Range(LabelsOf(c)) : At(l) \in Range(c.ss)} ELSE {})

Seen(o) == <<o.how, o.what, o.st.i, o.st.left, o.st.trace>>

\* The translated function does what Pascal says: it returns the same result or
\* raises the same exception, after the same calls and clean-ups in the same
\* order, and leaves the same value in the control variable.  The C++ compiler
\* accepts its jumps: no label is there twice, even where the else branch of a
\* try..except is written twice, and no goto enters a block or leaves a lambda.
SameBehaviour ==
    /\ code # NoCode => IsInjective(LabelsOf(code)) /\ GotosReach(code, {})
    /\ outcome # NotRun => Seen(outcome) = Seen(PascalOutcome)

============================================================================
