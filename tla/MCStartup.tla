----------------------------- MODULE MCStartup -----------------------------
(***************************************************************************)
(* Instances of Startup: three units with all interface graphs that        *)
(* respect an order (they are acyclic when emit-all gets this far), many   *)
(* implementation uses, and at most one unusable unit.                     *)
(***************************************************************************)
EXTENDS Startup

MCNames == {"a", "b", "c"}

P(ok, i, m) == [usable |-> ok, interface_uses |-> i, impl_uses |-> m]

ImplUses == {<< >>, <<"a">>, <<"b">>, <<"c">>, <<"c", "b", "a">>}

MCGraphs ==
  {[n \in MCNames \cup {Program} |->
      CASE n = Program -> P(FALSE, << >>, u)
        [] n = "a" -> P(TRUE, << >>, ma)
        [] n = "b" -> P(ok, ib, mb)
        [] n = "c" -> P(TRUE, ic, mc)] :
     u \in {<<"a">>, <<"b", "c", "b">>, <<"a", "b", "c">>},
     ib \in {<< >>, <<"a">>}, ic \in {<< >>, <<"b">>, <<"a", "b">>},
     ma \in ImplUses, mb \in {<< >>, <<"c">>, <<"a", "c">>}, mc \in {<< >>, <<"b">>, <<"c", "a">>},
     ok \in BOOLEAN}
=============================================================================
