----------------------------- MODULE MCTopoSort -----------------------------
(***************************************************************************)
(* Instances of TopoSort for TLC: the program 4 and the units 1 to 3, with *)
(* every interface graph over them (self uses and dangling names too);     *)
(* name 5 has a runtime model and no parsed unit.                          *)
(***************************************************************************)
EXTENDS TopoSort, TLC

MCNumbers == 1..5
AUnit(i, m, a) == [ast |-> a, is_program |-> FALSE,
                   interface_uses |-> i, impl_uses |-> m]
AProgram(m) == [ast |-> TRUE, is_program |-> TRUE,
                interface_uses |-> {}, impl_uses |-> m]

MCTables ==
  {1 :> AUnit(i1, {2}, a1) @@ 2 :> AUnit(i2, {5}, TRUE) @@ 3 :> AUnit(i3, {1}, TRUE)
     @@ 4 :> AProgram(m) :
     i1 \in SUBSET {1, 2, 3}, i2 \in SUBSET {1, 3, 5}, i3 \in SUBSET {1, 2, 4},
     m \in {{1}, {2, 3}, {1, 3, 5}}, a1 \in BOOLEAN}
=============================================================================
