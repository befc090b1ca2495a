--------------------------- MODULE RuntimeLibrary ---------------------------
(***************************************************************************)
(* The two parts of the runtime whose state outlives a call: long strings, *)
(* to the end of the program, and files.  They share nothing, so a program *)
(* is taken to be busy with one of them.                                   *)
(***************************************************************************)
EXTENDS AnsiStrings, FileIO

VARIABLES part                                                   \* what the program is busy with

LibraryInit ==
  /\ part \in {"strings", "files"}
  /\ TeardownInit /\ FilesInit
  /\ part = "files" => data = [v \in Vars |-> Empty]

LibraryNext ==
  \/ part = "strings" /\ TeardownNext /\ UNCHANGED <<part, fileState>>
  \/ part = "files" /\ FilesNext /\ UNCHANGED <<part, teardownVars>>

LibrarySpec == LibraryInit /\ [][LibraryNext]_<<part, teardownVars, fileState>>

\* No formula of the two parts tells one variable, or one record, from another.
Symmetry == Permutations(Vars) \cup Permutations(FileVars) \cup Permutations(Records)

=============================================================================
