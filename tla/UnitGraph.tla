----------------------------- MODULE UnitGraph -----------------------------
(***************************************************************************)
(* Discovery of the source files reachable from an entry file: the class   *)
(* UnitGraph of src/units.cc, together with the callbacks through which    *)
(* the parser of one file asks for the files named in its uses clauses.    *)
(*                                                                         *)
(* discover_from_entry runs on one thread and in three stages:             *)
(*   "entry"      parse_recursive on the entry file.  A program is parsed  *)
(*                whole, a unit only up to its implementation part; every  *)
(*                import not seen before is parsed, recursively, before    *)
(*                the declarations that follow the uses clause are bound;  *)
(*   "pending"    the implementation parts, in the order of iteration of   *)
(*                an unordered_map, that is in any order;                  *)
(*   "propagate"  units whose imports failed are made to fail, to a fixed  *)
(*                point.                                                   *)
(*                                                                         *)
(* The C++ call stack is kept per file: active is the session that is      *)
(* running, caller[f] the session whose import_units called                *)
(* parse_recursive for f.  A file's text is reduced to the facts that      *)
(* matter here: what it is, the name it declares, the two uses clauses,    *)
(* and whether each part reports errors of its own.                        *)
(***************************************************************************)
EXTENDS Integers, Sequences, FiniteSets

CONSTANTS Files,     \* source files, one element per absolute normal path
          Names,     \* unit names, after to_lower
          NoFile,    \* no file: an empty path, a null pointer
          Entry,     \* the file given on the command line
          Runtime,   \* names with a runtime model (has_runtime_unit_model)
          Index,     \* unit_path_index_: the file that find_unit_path finds
          ProgKey,   \* "__prog_<stem>", the name of a file that declares none
          Inputs     \* the possible contents of the files

ASSUME NoFileAssumption == NoFile \notin Files
ASSUME EntryAssumption == Entry \in Files
ASSUME RuntimeAssumption == Runtime \subseteq Names
ASSUME IndexAssumption == Index \in [Names -> Files \cup {NoFile}]
ASSUME ProgKeyAssumption == DOMAIN ProgKey = Files

Keys == Names \cup {ProgKey[f] : f \in Files}
FileOrNone == Files \cup {NoFile}

Content == [kind  : {"unit", "program", "body", "garbage", "unreadable"},
            name  : Names,
            iuses : Seq(Names),   \* interface uses
            muses : Seq(Names),   \* implementation uses, or a program's uses
            ierr  : BOOLEAN,      \* the interface part reports an error
            merr  : BOOLEAN]      \* the implementation part, or body, does

ASSUME InputsAssumption == Inputs \subseteq [Files -> Content]

VARIABLES src,        \* what the files hold; never changes
          phase,      \* Session::phase, or "unloaded" without a session
          hadError,   \* Session::had_error
          byName,     \* sessions_by_name
          units,      \* units_
          bound,      \* sections whose declarations the registry has bound
          errors,     \* error_count()
          active,     \* the session whose parser is running
          caller,     \* the session that waits for f's parse_recursive
          todo,       \* imports that import_units has still to look at
          errsBefore, \* error_count() when the parse of f started
          stage,      \* the part of discover_from_entry that runs
          result      \* what discover_from_entry returns

vars == <<src, phase, hadError, byName, units, bound, errors,
          active, caller, todo, errsBefore, stage, result>>

Phases == {"unloaded", "interface", "ready", "complete", "failed"}

Unit == [known : BOOLEAN, path : FileOrNone, ast : FileOrNone, ok : BOOLEAN]
NoUnit == [known |-> FALSE, path |-> NoFile, ast |-> NoFile, ok |-> FALSE]

(***************************************************************************)
(* The facts about a file that the code asks for.                          *)
(***************************************************************************)
Kind(f) == src[f].kind
HasHeader(f) == Kind(f) \in {"unit", "program"}

\* Session::name: the declared name, or the one made up from the path.
Key(f) == IF HasHeader(f) THEN src[f].name ELSE ProgKey[f]

IUses(f) == IF Kind(f) = "unit" THEN src[f].iuses ELSE << >>
MUses(f) == IF HasHeader(f) THEN src[f].muses ELSE << >>

\* The uses clause a fresh parser meets first: a program has only one.
FirstUses(f) == IF Kind(f) = "unit" THEN src[f].iuses ELSE MUses(f)

ElementsOf(s) == {s[i] : i \in 1..Len(s)}
Imports(f) == ElementsOf(IUses(f)) \cup ElementsOf(MUses(f))

-----------------------------------------------------------------------------
Init == /\ src \in Inputs
        /\ phase = [f \in Files |-> "unloaded"]
        /\ hadError = [f \in Files |-> FALSE]
        /\ byName = [n \in Names |-> NoFile]
        /\ units = [k \in Keys |-> NoUnit]
        /\ bound = {}
        /\ errors = 0
        /\ active = NoFile
        /\ caller = [f \in Files |-> NoFile]
        /\ todo = [f \in Files |-> << >>]
        /\ errsBefore = [f \in Files |-> 0]
        /\ stage = "entry"
        /\ result = 0

(***************************************************************************)
(* parse_recursive on a file without a session: create the session, start  *)
(* its parser, which announces the header (begin_compilation_unit) and     *)
(* then calls import_units with the first uses clause.                     *)
(***************************************************************************)
BeginCompilationUnit(f) ==
  IF HasHeader(f)
  THEN LET n == src[f].name IN
       /\ byName' = IF byName[n] = NoFile THEN [byName EXCEPT ![n] = f]
                                          ELSE byName
       /\ units' = IF units[n].known THEN units
                   ELSE [units EXCEPT ![n] = [known |-> TRUE, path |-> f,
                                              ast |-> NoFile, ok |-> FALSE]]
  ELSE UNCHANGED <<byName, units>>

OpenSession(f, from) ==
  /\ phase[f] = "unloaded"
  /\ Kind(f) # "unreadable"
  /\ phase' = [phase EXCEPT ![f] = "interface"]
  /\ BeginCompilationUnit(f)
  /\ active' = f
  /\ caller' = [caller EXCEPT ![f] = from]
  /\ errsBefore' = [errsBefore EXCEPT ![f] = errors]

ParseEntry ==
  /\ stage = "entry" /\ active = NoFile /\ phase[Entry] = "unloaded"
  /\ OpenSession(Entry, NoFile)
  /\ todo' = [todo EXCEPT ![Entry] = FirstUses(Entry)]
  /\ UNCHANGED <<src, hadError, bound, errors, stage, result>>

\* SourceFile::load fails: parse_recursive returns 1 and reports nothing.
EntryUnreadable ==
  /\ stage = "entry" /\ active = NoFile
  /\ Kind(Entry) = "unreadable"
  /\ result' = 1
  /\ stage' = "pending"
  /\ UNCHANGED <<src, phase, hadError, byName, units, bound, errors,
                 active, caller, todo, errsBefore>>

(***************************************************************************)
(* import_units: one iteration of its loop, on the first name left.        *)
(***************************************************************************)
Importing == active # NoFile /\ todo[active] # << >>
NextImport == Head(todo[active])
SkipImport == todo' = [todo EXCEPT ![active] = Tail(@)]

FailActive == hadError' = [hadError EXCEPT ![active] = TRUE]
ReportErrors(n) == errors' = errors + n
CallStackUnchanged == UNCHANGED <<active, caller, errsBefore>>

ImportRuntime ==
  /\ Importing
  /\ NextImport \in Runtime
  /\ SkipImport
  /\ CallStackUnchanged
  /\ UNCHANGED <<src, phase, hadError, byName, units, bound, errors,
                 stage, result>>

\* Mutant: a cycle through interfaces is not noticed.
ImportSessionBlindly(f) ==
  /\ SkipImport
  /\ UNCHANGED errors
  /\ IF hadError[f] \/ phase[f] = "failed" THEN FailActive ELSE UNCHANGED hadError
  /\ CallStackUnchanged
  /\ UNCHANGED <<src, phase, byName, units, bound, stage, result>>

\* A session of that name, or of that path, exists already.
ImportSession(f) ==
  /\ SkipImport
  /\ IF phase[f] = "interface"
     THEN ReportErrors(1) /\ FailActive
     ELSE /\ UNCHANGED errors
          /\ IF hadError[f] \/ phase[f] = "failed"
             THEN FailActive
             ELSE UNCHANGED hadError
  /\ CallStackUnchanged
  /\ UNCHANGED <<src, phase, byName, units, bound, stage, result>>

ImportByName ==
  /\ Importing
  /\ NextImport \notin Runtime
  /\ byName[NextImport] # NoFile
  /\ ImportSession(byName[NextImport])

SearchesPath == /\ Importing
                /\ NextImport \notin Runtime
                /\ byName[NextImport] = NoFile

ImportUnresolved ==
  /\ SearchesPath
  /\ Index[NextImport] = NoFile
  /\ SkipImport
  /\ ReportErrors(1)
  /\ FailActive
  /\ CallStackUnchanged
  /\ UNCHANGED <<src, phase, byName, units, bound, stage, result>>

ImportByPath ==
  /\ SearchesPath
  /\ Index[NextImport] # NoFile
  /\ phase[Index[NextImport]] # "unloaded"
  /\ ImportSession(Index[NextImport])

ImportUnreadable ==
  /\ SearchesPath
  /\ Index[NextImport] # NoFile
  /\ Kind(Index[NextImport]) = "unreadable"
  /\ SkipImport
  /\ FailActive
  /\ CallStackUnchanged
  /\ UNCHANGED <<src, phase, byName, units, bound, errors, stage, result>>

ImportNewFile ==
  /\ SearchesPath
  /\ Index[NextImport] # NoFile
  /\ LET f == Index[NextImport] IN
     /\ OpenSession(f, active)
     /\ todo' = [todo EXCEPT ![active] = Tail(@), ![f] = FirstUses(f)]
  /\ UNCHANGED <<src, hadError, bound, errors, stage, result>>

(***************************************************************************)
(* The end of a parse.  The declarations after the uses clause are bound,  *)
(* the errors of this part (own of them, on top of those of the imports)   *)
(* are counted, and units_ gets the outcome.                               *)
(***************************************************************************)
Done(f) == active = f /\ todo[f] = << >>

FailedNow(f, own) == hadError[f] \/ errors + own # errsBefore[f]

CleanSoFar(f, own) == ~FailedNow(f, own)

\* Mutant: errors of the files parsed meanwhile are left out.
OwnErrors(f, own) == own

NewErrors(f, own) == errors + own - errsBefore[f]
Bind(f, section) == bound' = bound \cup {<<Key(f), section>>}
One(b) == IF b THEN 1 ELSE 0

\* parse_recursive returns to import_units of the caller, which fails if
\* errors were reported meanwhile, or to discover_from_entry.
ReturnFromParse(f, own) ==
  /\ active' = caller[f]
  /\ hadError' = [g \in Files |->
                    IF g = f THEN FailedNow(f, own)
                    ELSE IF g = caller[f]
                         THEN hadError[g] \/ NewErrors(f, own) # 0
                         ELSE hadError[g]]
  /\ IF caller[f] = NoFile
     THEN stage' = "pending" /\ result' = NewErrors(f, own)
     ELSE UNCHANGED <<stage, result>>
  /\ UNCHANGED <<src, byName, caller, todo, errsBefore>>

FinishInterface(f) ==
  /\ Kind(f) = "unit" /\ phase[f] = "interface" /\ Done(f)
  /\ LET own == One(src[f].ierr) IN
     /\ ReportErrors(own)
     /\ ReturnFromParse(f, own)
  /\ phase' = [phase EXCEPT ![f] = "ready"]
  /\ Bind(f, "interface")
  /\ units' = [units EXCEPT ![Key(f)] = [known |-> TRUE, path |-> f,
                                         ast |-> f, ok |-> FALSE]]

FinishProgram(f) ==
  /\ Kind(f) \in {"program", "body"} /\ phase[f] = "interface" /\ Done(f)
  /\ LET own == One(src[f].merr) IN
     /\ ReportErrors(own)
     /\ ReturnFromParse(f, own)
     /\ units' = [units EXCEPT ![Key(f)] = [known |-> TRUE, path |-> f,
                                            ast |-> f,
                                            ok |-> CleanSoFar(f, own)]]
  /\ phase' = [phase EXCEPT ![f] = "complete"]
  /\ IF HasHeader(f) THEN Bind(f, "implementation") ELSE UNCHANGED bound

\* Neither a unit, nor a program, nor a body: one error, and no tree.
FinishGarbage(f) ==
  /\ Kind(f) = "garbage" /\ phase[f] = "interface" /\ Done(f)
  /\ ReportErrors(1)
  /\ ReturnFromParse(f, 1)
  /\ phase' = [phase EXCEPT ![f] = "failed"]
  /\ units' = [units EXCEPT ![Key(f)] = [known |-> TRUE, path |-> f,
                                         ast |-> NoFile, ok |-> FALSE]]
  /\ UNCHANGED bound

(***************************************************************************)
(* parse_pending_implementations.                                          *)
(***************************************************************************)
\* Mutant: the phase goes back to ParsingInterface for the implementation.
StartImplementationAsInterface(f) ==
  /\ stage = "pending" /\ active = NoFile
  /\ phase[f] = "ready"
  /\ phase' = [phase EXCEPT ![f] = "interface"]
  /\ active' = f
  /\ todo' = [todo EXCEPT ![f] = src[f].muses]
  /\ errsBefore' = [errsBefore EXCEPT ![f] = errors]
  /\ caller' = [caller EXCEPT ![f] = NoFile]
  /\ UNCHANGED <<src, hadError, byName, units, bound, errors, stage, result>>

StartImplementation(f) ==
  /\ stage = "pending" /\ active = NoFile
  /\ phase[f] = "ready"
  /\ active' = f
  /\ todo' = [todo EXCEPT ![f] = src[f].muses]
  /\ errsBefore' = [errsBefore EXCEPT ![f] = errors]
  /\ caller' = [caller EXCEPT ![f] = NoFile]
  /\ UNCHANGED <<src, phase, hadError, byName, units, bound, errors,
                 stage, result>>

FinishImplementation(f) ==
  /\ phase[f] = "ready" /\ Done(f)
  /\ LET own == One(src[f].merr) IN
     /\ ReportErrors(own)
     /\ hadError' = [hadError EXCEPT ![f] = FailedNow(f, own)]
     /\ units' = IF units[Key(f)].known
                 THEN [units EXCEPT ![Key(f)].ast = f,
                                    ![Key(f)].ok = CleanSoFar(f, own)]
                 ELSE units
     /\ result' = result + NewErrors(f, own)
  /\ phase' = [phase EXCEPT ![f] = "complete"]
  /\ Bind(f, "implementation")
  /\ active' = NoFile
  /\ UNCHANGED <<src, byName, caller, todo, errsBefore, stage>>

NothingPending ==
  /\ stage = "pending" /\ active = NoFile
  /\ \A f \in Files : phase[f] # "ready"
  /\ stage' = "propagate"
  /\ UNCHANGED <<src, phase, hadError, byName, units, bound, errors,
                 active, caller, todo, errsBefore, result>>

(***************************************************************************)
(* The fixed point at the end of discover_from_entry.                      *)
(***************************************************************************)
\* Mutant: only interface uses pass a failure on.
InterfaceDependencyFailed(k) ==
  /\ units[k].ok
  /\ units[k].ast # NoFile
  /\ \E n \in ElementsOf(IUses(units[k].ast)) : units[n].known /\ ~units[n].ok

\* Mutant: units that failed already are looked at again.
DependencyFailedAgain(k) ==
  /\ units[k].ast # NoFile
  /\ \E n \in Imports(units[k].ast) : units[n].known /\ ~units[n].ok

DependencyFailed(k) ==
  /\ units[k].ok
  /\ units[k].ast # NoFile
  /\ \E n \in Imports(units[k].ast) : units[n].known /\ ~units[n].ok

Demote(k) ==
  /\ stage = "propagate"
  /\ DependencyFailed(k)
  /\ units' = [units EXCEPT ![k].ok = FALSE]
  /\ UNCHANGED <<src, phase, hadError, byName, bound, errors,
                 active, caller, todo, errsBefore, stage, result>>

FinishDiscovery ==
  /\ stage = "propagate"
  /\ \A k \in Keys : ~DependencyFailed(k)
  /\ stage' = "done"
  /\ UNCHANGED <<src, phase, hadError, byName, units, bound, errors,
                 active, caller, todo, errsBefore, result>>

-----------------------------------------------------------------------------
ImportStep == \/ ImportRuntime \/ ImportByName \/ ImportUnresolved
              \/ ImportByPath \/ ImportUnreadable \/ ImportNewFile

FinishStep(f) == FinishInterface(f) \/ FinishProgram(f) \/ FinishGarbage(f)

Next == \/ ParseEntry
        \/ EntryUnreadable
        \/ ImportStep
        \/ \E f \in Files : \/ FinishStep(f)
                            \/ StartImplementation(f)
                            \/ FinishImplementation(f)
        \/ NothingPending
        \/ \E k \in Keys : Demote(k)
        \/ FinishDiscovery

Fairness == WF_vars(Next)
Spec == Init /\ [][Next]_vars /\ Fairness

-----------------------------------------------------------------------------
(***************************************************************************)
(* Properties.                                                             *)
(***************************************************************************)

\* The shape of the state of UnitGraph::ParseState and of units_.
TypeOK ==
  /\ src \in [Files -> Content]
  /\ phase \in [Files -> Phases]
  /\ hadError \in [Files -> BOOLEAN]
  /\ byName \in [Names -> FileOrNone]
  /\ units \in [Keys -> Unit]
  /\ bound \in SUBSET (Keys \X {"interface", "implementation"})
  /\ errors \in Nat
  /\ active \in FileOrNone
  /\ caller \in [Files -> FileOrNone]
  /\ todo \in [Files -> Seq(Names)]
  /\ errsBefore \in [Files -> Nat]
  /\ stage \in {"entry", "pending", "propagate", "done"}
  /\ result \in Nat

\* units.cc:49: interface parse, deferred implementation parse and semantic
\* callbacks contribute to one result.  Whatever the order of the phases, a
\* unit that units_ calls ok has a tree, and the session that made this tree
\* is complete and met no error in any phase.
OkIsClean ==
  \A k \in Keys : units[k].ok =>
    LET f == units[k].ast IN
    /\ f # NoFile
    /\ phase[f] = "complete"
    /\ ~hadError[f]

\* Every file that the search finds is named after the unit or program in
\* it, or has neither header nor body.
WellNamed ==
  \A n \in Names : Index[n] # NoFile =>
    LET f == Index[n] IN
    /\ HasHeader(f) => src[f].name = n
    /\ Kind(f) # "body"

\* units.cc:334: dependency failure is propagated once both phases are over.
\* When discovery ends, whatever an ok unit uses has a runtime model or is an
\* ok unit itself, so what emit-all writes for it can be compiled.
OkUnitsUseOkUnits ==
  (WellNamed /\ stage = "done") =>
    \A k \in Keys : units[k].ok =>
      \A n \in Imports(units[k].ast) : n \in Runtime \/ units[n].ok

\* import_units reports a cycle on the phase of the imported session alone.
\* Phases are left as they are while implementation parts pull in new files,
\* yet every report is justified: the file found open leads back to the
\* importing one through interface uses (a program's uses count as such).
FirstTargets(f) ==
  {Index[n] : n \in ElementsOf(FirstUses(f)) \ Runtime} \ {NoFile}
LeadsTo(f, g) ==
  \A S \in SUBSET Files :
    (f \in S /\ \A h \in S : FirstTargets(h) \subseteq S) => g \in S
CycleReportsAreReal ==
  (Importing /\ NextImport \notin Runtime) =>
    LET f == IF byName[NextImport] # NoFile THEN byName[NextImport]
                                            ELSE Index[NextImport] IN
    (f # NoFile /\ phase[f] = "interface") =>
      /\ phase[active] = "interface"
      /\ LeadsTo(f, active)

\* main.cc turns what discover_from_entry returns into an exit code: it is
\* not zero exactly when a unit failed.  A file that exists but cannot be
\* read is the exception: its importers fail, and nothing is reported.  Where
\* two files declare one name, the entry that units_ keeps may be the clean
\* one, but a failed entry is always reported.
SomethingFailed == \E k \in Keys : units[k].known /\ ~units[k].ok
ErrorsAreReported ==
  (stage = "done" /\ \A f \in Files : Kind(f) # "unreadable") =>
    /\ SomethingFailed => result # 0
    /\ WellNamed /\ result # 0 => SomethingFailed

\* The recursion through import_units, the loop over pending implementations
\* and the fixed point all come to an end, whatever cycles the files form.
Terminates == <>(stage = "done")

\* The whole of it implements Discovery: a file is found when it gets its
\* session, and the verdict is the set of files behind ok units.
Verdict == {f \in Files : units[Key(f)].ok /\ units[Key(f)].ast = f}
Abstract == INSTANCE Discovery
  WITH found <- {f \in Files : phase[f] # "unloaded"},
       verdict <- IF stage = "done" THEN <<"usable", Verdict>>
                                    ELSE <<"undecided">>
ImplementsDiscovery == Abstract!Spec

=============================================================================
