------------------------------ MODULE TopoSort ------------------------------
(***************************************************************************)
(* UnitGraph::topo_sort of src/units.cc: Kahn's algorithm over the parsed  *)
(* units, used by emit-all to decide in which order units are emitted and  *)
(* whether to give up because of a cycle.                                  *)
(*                                                                         *)
(* Unit names are numbered in the order in which std::sort puts them, so a *)
(* name is a natural number.  units_ is reduced to what the sort reads:    *)
(* the uses clauses of each tree (a unit without a tree uses nothing).     *)
(***************************************************************************)
EXTENDS Naturals, Sequences, FiniteSets

CONSTANTS Numbers,   \* all names that may occur in a uses clause, numbered
          Tables     \* the possible values of units_

ASSUME NumbersAssumption == Numbers \subseteq Nat /\ IsFiniteSet(Numbers)

ParsedUnit == [ast : BOOLEAN, is_program : BOOLEAN,
               interface_uses : SUBSET Numbers, impl_uses : SUBSET Numbers]

ASSUME TablesAssumption ==
  \A g \in Tables : DOMAIN g \subseteq Numbers /\ g \in [DOMAIN g -> ParsedUnit]

VARIABLES units,       \* units_, read only
          indeg,       \* for each unit, dependencies still to be emitted
          ready,       \* units of in-degree zero not emitted yet
          order,       \* the result so far
          cycle_edges, \* the edges reported when units are left over
          returned     \* topo_sort has returned

sortVars == <<units, indeg, ready, order, cycle_edges, returned>>

Units == DOMAIN units

\* Mutant: names without a parsed unit are counted as dependencies.
DepsWithDangling(u) ==
  IF ~units[u].ast THEN {}
  ELSE units[u].interface_uses \cup (IF units[u].is_program THEN units[u].impl_uses
                                                           ELSE {})

(***************************************************************************)
(* deps: names without a parsed unit behind them (runtime units) are left  *)
(* out, a name used twice counts once.  A program is ordered after the     *)
(* units in its only uses clause, which is kept in impl_uses.              *)
(***************************************************************************)
Deps(u) == IF ~units[u].ast THEN {}
           ELSE Units \cap (units[u].interface_uses
                            \cup (IF units[u].is_program THEN units[u].impl_uses
                                                         ELSE {}))

Emitted == {order[i] : i \in 1..Len(order)}

InitSort ==
  /\ units \in Tables
  /\ indeg = [u \in Units |-> Cardinality(Deps(u))]
  /\ ready = {u \in Units : Cardinality(Deps(u)) = 0}
  /\ order = << >>
  /\ cycle_edges = {}
  /\ returned = FALSE

Smallest(n) == n \in ready /\ \A m \in ready : n <= m

\* Mutant: off by one, a unit gets ready with one dependency left.
FreedTooEarly(n) == {u \in Units : n \in Deps(u) /\ indeg[u] \in 1..2}

\* The units that wait for n alone.
Freed(n) == {u \in Units : n \in Deps(u) /\ indeg[u] = 1}

\* One round of the loop: the smallest ready name is emitted, and the units
\* that depend on it need one dependency less.
Emit(n) ==
  /\ Smallest(n)
  /\ order' = Append(order, n)
  /\ indeg' = [u \in Units |-> IF n \in Deps(u) /\ indeg[u] > 0
                               THEN indeg[u] - 1 ELSE indeg[u]]
  /\ ready' = (ready \ {n}) \cup Freed(n)
  /\ UNCHANGED <<units, cycle_edges, returned>>

\* Nothing is ready: every edge out of a unit that is left over is reported.
EdgesLeft == {e \in Units \X Units : indeg[e[1]] > 0 /\ e[2] \in Deps(e[1])}

Exhausted == ready = {}

Return ==
  /\ ~returned
  /\ Exhausted
  /\ cycle_edges' = EdgesLeft
  /\ returned' = TRUE
  /\ UNCHANGED <<units, indeg, ready, order>>

SortRound == Return \/ \E n \in Numbers : Emit(n)

SortSpec == InitSort /\ [][SortRound]_sortVars /\ WF_sortVars(SortRound)

-----------------------------------------------------------------------------
TypeOK ==
  /\ Units \subseteq Numbers /\ units \in [Units -> ParsedUnit]
  /\ indeg \in [Units -> Nat]
  /\ ready \in SUBSET Units
  /\ order \in Seq(Units)
  /\ cycle_edges \in SUBSET (Units \X Units)
  /\ returned \in BOOLEAN

\* units.h:63: "each unit's dependencies come before it".
DependenciesFirst ==
  \A i \in 1..Len(order) : \A d \in Deps(order[i]) :
    \E j \in 1..(i - 1) : order[j] = d

\* No unit is emitted twice: emit-all would write its files twice and the
\* Makefile would name them twice.
EmittedOnce ==
  \A i, j \in 1..Len(order) : order[i] = order[j] => i = j

\* units.cc:418: the order is reproducible although the units come from hash
\* tables: at each place stands the smallest name whose dependencies all
\* stand before it.
Before(i) == {order[j] : j \in 1..(i - 1)}
OrderIsCanonical ==
  \A i \in 1..Len(order) : \A u \in Units \ Before(i) :
    Deps(u) \subseteq Before(i) => order[i] <= u

\* units.cc:434: the units left over are those on a cycle or downstream of
\* one, and cycle_edges is empty exactly when every unit has been emitted:
\* emit-all takes an empty list to mean that the order is complete.
Blocked == UNION {S \in SUBSET Units : \A u \in S : Deps(u) \cap S # {}}
LeftOverIsBlocked ==
  returned => /\ Units \ Emitted = Blocked
              /\ cycle_edges = {} <=> Emitted = Units

=============================================================================
