---------------------------- MODULE MCUnitGraph ----------------------------
(***************************************************************************)
(* Instances of UnitGraph for TLC.  A directory holds main.pas, the entry, *)
(* and the units a and b; "system" has a runtime model and "gone" is       *)
(* nowhere.  The inputs are all ways of using each other from small sets   *)
(* of uses clauses, with at most one fault in one file.                    *)
(***************************************************************************)
EXTENDS UnitGraph

MCFiles == {"main.pas", "a.pas", "b.pas"}
MCNames == {"main", "a", "b", "system", "gone"}
MCRuntime == {"system"}
MCIndex == [n \in MCNames |-> CASE n = "main" -> "main.pas" [] n = "a" -> "a.pas"
                                [] n = "b" -> "b.pas" [] OTHER -> NoFile]
MCProgKey == [f \in MCFiles |-> "__prog_" \o f]

AFile(kind, name, iuses, muses) ==
  [kind |-> kind, name |-> name, iuses |-> iuses, muses |-> muses,
   ierr |-> FALSE, merr |-> FALSE]

Mains ==
  {AFile("program", "main", << >>, u) :
     u \in {<<"a">>, <<"b", "a">>, <<"a", "b">>, <<"system", "gone", "b">>}}
  \cup {AFile("unit", "main", i, m) :
          i \in {<<"a">>, <<"a", "b">>}, m \in {<< >>, <<"b">>}}
As == {AFile("unit", "a", i, m) : i \in {<< >>, <<"b">>, <<"main">>},
                                  m \in {<< >>, <<"b">>, <<"main">>, <<"gone">>}}
Bs == {AFile("unit", "b", i, m) : i \in {<< >>, <<"a">>, <<"system">>},
                                  m \in {<< >>, <<"a">>, <<"main">>}}

Directories == {[f \in MCFiles |-> CASE f = "main.pas" -> x [] f = "a.pas" -> y
                                     [] f = "b.pas" -> z] :
                  x \in Mains, y \in As, z \in Bs}

Faults == {<<"none", "main.pas">>}
          \cup ({"ierr", "merr"} \X MCFiles)
          \cup ({"garbage"} \X {"a.pas", "b.pas"})
          \cup ({"unreadable"} \X MCFiles)

WithFault(dir, fault) ==
  LET what == fault[1] f == fault[2] IN
  CASE what = "none" -> dir
    [] what = "ierr" -> [dir EXCEPT ![f].ierr = (dir[f].kind = "unit")]
    [] what = "merr" -> [dir EXCEPT ![f].merr = TRUE]
    [] OTHER -> [dir EXCEPT ![f].kind = what]

MCInputs == {WithFault(d, x) : d \in Directories, x \in Faults}
=============================================================================
