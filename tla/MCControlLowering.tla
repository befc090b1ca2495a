------------------------- MODULE MCControlLowering -------------------------
(***************************************************************************)
(* Function bodies for ControlLowering: a step within a try statement      *)
(* within a loop, a loop within a try, and a loop within a loop, with each *)
(* way to leave a step.  E is Exception, F descends from it, and O is a    *)
(* class outside that hierarchy.  The carrier holds 0..3.                  *)
(***************************************************************************)
EXTENDS ControlLowering

MCClasses == {"E", "F", "O"}
MCParent == [c \in MCClasses |-> IF c = "F" THEN "E" ELSE c]

Jumps == {Break, Continue, Exit, ExitWith(2), Raise("F"), Raise("O")}

\* At i = 1 the step does j, else k; a step that goes on writes a mark.
Step(j, k) == Compound(<<Case(<<Arm({1}, j)>>, k), SetResult(1), Mark("on")>>)
Steps == {Step(j, k) : j \in Jumps, k \in {NoCode, Mark("else"), Continue, Exit, Raise("E")}}

\* Handlers outside and within a loop.
OuterHandlers == {<<>>, <<On("F", ReRaise), On("E", Exit)>>, <<On("F", Raise("O"))>>}
Handlers == {<<>>, <<On("E", Mark("E"))>>, <<On("F", ReRaise), On("E", Continue)>>, <<On("F", Break)>>, <<On("F", Raise("E"))>>}
Tries(bodies, handlers, finals) ==
    {TryFinally(b, f) : b \in bodies, f \in finals}
    \cup {TryExcept(b, h, e) : b \in bodies, h \in handlers, e \in {NoCode, Mark("other"), Exit, Repeat(Break)}}

\* Ascending and descending, to either end of the carrier, empty, and over a set.
Counted(bodies) ==
    {For(0, 2, FALSE, b) : b \in bodies} \cup {For(2, 3, FALSE, b) : b \in bodies}
    \cup {For(2, 0, TRUE, b) : b \in bodies} \cup {For(2, 1, FALSE, b) : b \in bodies}
    \cup {ForIn({1, 3}, b) : b \in bodies}
Conditional(bodies) == {While(b) : b \in bodies} \cup {Repeat(b) : b \in bodies}
Loops(bodies) == Counted(bodies) \cup Conditional(bodies)

Body(s) == Compound(<<SetResult(9), s, Mark("end")>>)

\* Programs whose finally blocks neither raise nor assign the result.
LegalPrograms ==
    LET plain == {Mark("f"), While(Continue)}
        inner == Loops(Steps)
    IN {Body(s) : s \in Loops(Tries(Steps, Handlers, plain))}
       \cup {Body(s) : s \in Tries(inner, OuterHandlers, {Mark("f")})}
       \cup {Body(s) : s \in Counted(Conditional(Steps)) \cup Conditional(inner)}
       \cup {Body(TryFinally(TryFinally(s, Mark("f")), Mark("g"))) : s \in inner}
       \cup {ReRaise, TryExcept(Raise("F"), <<On("E", Mark("E"))>>, ReRaise)}

\* A finally block that raises, within another try statement.
RaisingFinally ==
    {Body(TryFinally(TryFinally(b, f), Mark("outer"))) : b \in Steps, f \in {Mark("f"), Raise("E")}}
    \cup {For(0, 2, FALSE, TryFinally(s, Mark("f"))) : s \in Steps}
============================================================================
