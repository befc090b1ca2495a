----------------------------- MODULE Discovery -----------------------------
(***************************************************************************)
(* What discover_from_entry of src/units.cc promises, without its parsers, *)
(* call stack, phases and queues: it finds the readable files reachable    *)
(* from the entry file, one at a time, and then gives a verdict.  A file   *)
(* is usable when it has no error of its own, every import of it is        *)
(* usable or has a runtime model, and no interface cycle is involved.  The *)
(* verdict does not depend on the order in which files are looked at.      *)
(*                                                                         *)
(* This holds of directories in which a file declares the unit it is named *)
(* after: failure is propagated by the names in uses clauses.              *)
(***************************************************************************)
CONSTANTS Files, Names, NoFile, Entry, Runtime, Index, Inputs

VARIABLES src,      \* what the files hold
          found,    \* files discovered so far
          verdict   \* Undecided, or the set of usable files

vars == <<src, found, verdict>>

Undecided == <<"undecided">>
Decided(S) == <<"usable", S>>

Elements(s) == {s[i] : i \in DOMAIN s}
IsUnit(f) == src[f].kind = "unit"
HasHeader(f) == src[f].kind \in {"unit", "program"}

\* A program's only uses clause orders it after the units in it, as the
\* interface uses of a unit do.
InterfaceImports(f) ==
  IF IsUnit(f) THEN Elements(src[f].iuses)
  ELSE IF HasHeader(f) THEN Elements(src[f].muses) ELSE {}
Imports(f) == InterfaceImports(f)
              \cup (IF HasHeader(f) THEN Elements(src[f].muses) ELSE {})

Readable == {f \in Files : src[f].kind # "unreadable"}
TargetsOf(names) == {Index[n] : n \in names \ Runtime} \ {NoFile}

Clean(f) == /\ f \in Readable
            /\ src[f].kind # "garbage"
            /\ ~(IsUnit(f) /\ src[f].ierr) /\ ~src[f].merr
            /\ \A n \in Imports(f) \ Runtime : Index[n] # NoFile

\* A finite set of files in which each one has an interface import within
\* the set contains a cycle, and every cycle is such a set.
Acyclic(S) == \A C \in SUBSET S :
                C # {} => \E f \in C : TargetsOf(InterfaceImports(f)) \cap C = {}

Usable(S) == /\ \A f \in S : Clean(f) /\ TargetsOf(Imports(f)) \subseteq S
             /\ Acyclic(S)

UsableFiles == UNION {S \in SUBSET found : Usable(S)}

Reachable == ({Entry} \cup UNION {TargetsOf(Imports(f)) : f \in found})
             \cap Readable

Init == src \in Inputs /\ found = {} /\ verdict = Undecided

Find(f) == /\ verdict = Undecided
           /\ f \in Reachable \ found
           /\ found' = found \cup {f}
           /\ UNCHANGED <<src, verdict>>

Decide == /\ verdict = Undecided
          /\ Reachable \subseteq found
          /\ verdict' = Decided(UsableFiles)
          /\ UNCHANGED <<src, found>>

Next == Decide \/ \E f \in Files : Find(f)

Safety == Init /\ [][Next]_vars
Spec == Safety /\ WF_vars(Next)
=============================================================================
