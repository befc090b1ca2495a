----------------------------- MODULE InitOrder -----------------------------
(***************************************************************************)
(* The order in which a translated program starts its units:               *)
(* collect_unit_init_order and visit_unit_init_dep of src/main.cc, a depth *)
(* first walk over the uses clauses of the program and, recursively, of    *)
(* the units in them.  Interface uses are acyclic by then, implementation  *)
(* uses need not be.                                                       *)
(*                                                                         *)
(* The recursion is kept as a stack of frames, one for each call that is   *)
(* being expanded; the bottom frame is the call for the program itself.    *)
(***************************************************************************)
EXTENDS Naturals, Sequences, FiniteSets

CONSTANTS Names,     \* names in uses clauses, after to_lower
          Program,   \* stands for the frame of collect_unit_init_order
          Graphs     \* the possible inputs

ASSUME ProgramAssumption == Program \notin Names

\* What lookup(name) gives: nothing (a runtime unit), or a unit with its two
\* uses clauses; a unit that failed, and a program, are skipped alike.
Parsed == [usable : BOOLEAN, interface_uses : Seq(Names), impl_uses : Seq(Names)]

ASSUME GraphsAssumption == Graphs \subseteq [Names \cup {Program} -> Parsed]

VARIABLES graph,        \* the units, read only
          stack,        \* the frames: a unit and the names left in its loops
          active_stack, \* the set of the same name
          emitted,      \* the set of the same name
          out           \* the result so far

collectVars == <<graph, stack, active_stack, emitted, out>>

Uses(u) == graph[u].interface_uses \o graph[u].impl_uses
UsedBy(u) == {Uses(u)[i] : i \in 1..Len(Uses(u))}
Usable(n) == n \in Names /\ graph[n].usable
Frame(u) == [unit |-> u, rest |-> Uses(u)]

InitCollect ==
  /\ graph \in Graphs
  /\ stack = <<Frame(Program)>>
  /\ active_stack = {}
  /\ emitted = {}
  /\ out = << >>

(***************************************************************************)
(* One step of the innermost call: look at the next name in its uses       *)
(* clauses, or return when there is none.                                  *)
(***************************************************************************)
Running == stack # << >>
Top == stack[Len(stack)]
Below == SubSeq(stack, 1, Len(stack) - 1)
Dep == Head(Top.rest)
Advanced == Append(Below, [Top EXCEPT !.rest = Tail(@)])

\* The early returns of visit_unit_init_dep, in their order.
SkipDep == \/ ~Usable(Dep)
           \/ Dep \in emitted
           \/ Dep \in active_stack

Skip ==
  /\ Running /\ Top.rest # << >>
  /\ SkipDep
  /\ stack' = Advanced
  /\ UNCHANGED <<graph, active_stack, emitted, out>>

\* Mutant: a unit counts as emitted as soon as it is expanded.
VisitMarksEmitted ==
  /\ Running /\ Top.rest # << >>
  /\ ~SkipDep
  /\ active_stack' = active_stack \cup {Dep}
  /\ emitted' = emitted \cup {Dep}
  /\ stack' = Append(Advanced, Frame(Dep))
  /\ UNCHANGED <<graph, out>>

Visit ==
  /\ Running /\ Top.rest # << >>
  /\ ~SkipDep
  /\ active_stack' = active_stack \cup {Dep}
  /\ stack' = Append(Advanced, Frame(Dep))
  /\ UNCHANGED <<graph, emitted, out>>

LeaveUnit ==
  /\ Running /\ Top.rest = << >> /\ Top.unit # Program
  /\ active_stack' = active_stack \ {Top.unit}
  /\ IF Top.unit \in emitted
     THEN UNCHANGED <<emitted, out>>
     ELSE /\ emitted' = emitted \cup {Top.unit}
          /\ out' = Append(out, Top.unit)
  /\ stack' = Below
  /\ UNCHANGED graph

LeaveProgram ==
  /\ Running /\ Top.rest = << >> /\ Top.unit = Program
  /\ stack' = << >>
  /\ UNCHANGED <<graph, active_stack, emitted, out>>

CollectStep == Skip \/ Visit \/ LeaveUnit \/ LeaveProgram

Collected == stack = << >>

Spec == /\ InitCollect
        /\ [][CollectStep]_collectVars
        /\ WF_collectVars(CollectStep)

-----------------------------------------------------------------------------

OutSet == {out[i] : i \in 1..Len(out)}

\* Reach(u): what the walk gets to from u, through usable units only.
ClosedUnderUse(S) == \A u \in S : \A v \in UsedBy(u) : Usable(v) => v \in S
Reaches(u, v) ==
  \A S \in SUBSET Names :
    ({w \in UsedBy(u) : Usable(w)} \subseteq S /\ ClosedUnderUse(S)) => v \in S

\* Each usable unit that the program reaches is started, exactly once.
EveryUnitStartsOnce ==
  Collected =>
    /\ OutSet = {n \in Names : Reaches(Program, n)}
    /\ Len(out) = Cardinality(OutSet)

=============================================================================
