-------------------------- MODULE UnitGraphProofs --------------------------
(***************************************************************************)
(* Proofs about UnitGraph, for all files, names, search results and file   *)
(* contents.                                                               *)
(***************************************************************************)
EXTENDS UnitGraph, TLAPS

(***************************************************************************)
(* What the operators on file contents return.                             *)
(***************************************************************************)
LEMMA ContentFacts ==
  ASSUME src \in [Files -> Content], NEW f \in Files
  PROVE  /\ Kind(f) \in {"unit", "program", "body", "garbage", "unreadable"}
         /\ src[f].name \in Names
         /\ Key(f) \in Keys
         /\ FirstUses(f) \in Seq(Names)
         /\ src[f].muses \in Seq(Names)
         /\ One(src[f].ierr) \in {0, 1} /\ One(src[f].merr) \in {0, 1}
BY DEF Content, Kind, Key, HasHeader, Keys, FirstUses, MUses, One

LEMMA KeysContainNames == Names \subseteq Keys
BY DEF Keys

\* A step of import_units looks at a name and leaves shorter work.
LEMMA ImportFacts ==
  ASSUME TypeOK, Importing
  PROVE  /\ active \in Files
         /\ NextImport \in Names
         /\ Tail(todo[active]) \in Seq(Names)
BY NoFileAssumption DEF TypeOK, Importing, NextImport, FileOrNone

(***************************************************************************)
(* Type correctness.  That the result is a natural number rests on the     *)
(* error count never falling below where a parse found it.                 *)
(***************************************************************************)
ErrorsGrow == \A f \in Files : errsBefore[f] <= errors
TypeInv == TypeOK /\ ErrorsGrow

LEMMA OpenSessionTypes ==
  ASSUME TypeInv, NEW f \in Files, NEW from \in FileOrNone, OpenSession(f, from)
  PROVE  /\ phase' \in [Files -> Phases]
         /\ byName' \in [Names -> FileOrNone]
         /\ units' \in [Keys -> Unit]
         /\ active' \in FileOrNone
         /\ caller' \in [Files -> FileOrNone]
         /\ errsBefore' \in [Files -> Nat]
         /\ \A g \in Files : errsBefore'[g] <= errors
<1>1. /\ phase' \in [Files -> Phases]
      /\ active' \in FileOrNone
      /\ caller' \in [Files -> FileOrNone]
      /\ errsBefore' \in [Files -> Nat]
      /\ \A g \in Files : errsBefore'[g] <= errors
  BY DEF TypeInv, TypeOK, ErrorsGrow, OpenSession, Phases, FileOrNone
<1>2. CASE HasHeader(f)
  <2>. DEFINE n == src[f].name
              entry == [known |-> TRUE, path |-> f, ast |-> NoFile, ok |-> FALSE]
  <2>1. n \in Names /\ n \in Keys
    BY ContentFacts, KeysContainNames DEF TypeInv, TypeOK
  <2>2. entry \in Unit /\ f \in FileOrNone
    BY DEF Unit, FileOrNone
  <2>3. /\ byName' = IF byName[n] = NoFile THEN [byName EXCEPT ![n] = f] ELSE byName
        /\ units' = IF units[n].known THEN units ELSE [units EXCEPT ![n] = entry]
    BY <1>2 DEF OpenSession, BeginCompilationUnit
  <2>. HIDE DEF n, entry
  <2>. QED BY <1>1, <2>1, <2>2, <2>3 DEF TypeInv, TypeOK
<1>3. CASE ~HasHeader(f)
  BY <1>1, <1>3 DEF TypeInv, TypeOK, OpenSession, BeginCompilationUnit
<1>. QED BY <1>2, <1>3

LEMMA ReturnTypes ==
  ASSUME TypeInv, NEW f \in Files, NEW own \in Nat,
         ReportErrors(own), ReturnFromParse(f, own)
  PROVE  /\ hadError' \in [Files -> BOOLEAN]
         /\ errors' \in Nat
         /\ active' \in FileOrNone
         /\ stage' \in {"entry", "pending", "propagate", "done"}
         /\ result' \in Nat
         /\ ErrorsGrow'
<1>1. NewErrors(f, own) \in Nat
  BY DEF TypeInv, TypeOK, ErrorsGrow, NewErrors
<1>2. hadError' \in [Files -> BOOLEAN]
  BY DEF TypeInv, TypeOK, ReturnFromParse, FailedNow
<1>3. /\ errors' \in Nat /\ errors <= errors'
      /\ active' \in FileOrNone
  BY DEF TypeInv, TypeOK, ReturnFromParse, ReportErrors
<1>4. /\ stage' \in {"entry", "pending", "propagate", "done"}
      /\ result' \in Nat
  BY <1>1 DEF TypeInv, TypeOK, ReturnFromParse
<1>5. ErrorsGrow'
  BY <1>3 DEF TypeInv, TypeOK, ErrorsGrow, ReturnFromParse
<1>. QED BY <1>2, <1>3, <1>4, <1>5

LEMMA TypeInit == Init => TypeInv
<1>. SUFFICES ASSUME Init PROVE TypeInv
  OBVIOUS
<1>1. src \in [Files -> Content]
  BY InputsAssumption DEF Init
<1>2. units \in [Keys -> Unit]
  BY DEF Init, Unit, NoUnit, FileOrNone
<1>. QED BY <1>1, <1>2
  DEF Init, TypeInv, TypeOK, ErrorsGrow, Phases, FileOrNone

LEMMA TypeImport == TypeInv /\ ImportStep => TypeInv'
<1>. SUFFICES ASSUME TypeInv, ImportStep PROVE TypeInv'
  OBVIOUS
<1>. USE DEF TypeInv
<1>0. Importing
  BY DEF ImportStep, ImportRuntime, ImportByName, ImportUnresolved, ImportByPath,
         ImportUnreadable, ImportNewFile, SearchesPath
<1>a. /\ active \in Files /\ NextImport \in Names
      /\ Tail(todo[active]) \in Seq(Names)
  BY <1>0, ImportFacts
<1>b. ASSUME SkipImport PROVE todo' \in [Files -> Seq(Names)]
  BY <1>a, <1>b DEF SkipImport, TypeOK
<1>1. CASE ImportRuntime
  BY <1>1, <1>b DEF ImportRuntime, TypeOK, ErrorsGrow, CallStackUnchanged
<1>c. ASSUME NEW f \in Files, ImportSession(f) PROVE TypeInv'
  <2>1. errors' \in Nat /\ errors <= errors' /\ hadError' \in [Files -> BOOLEAN]
    <3>1. \/ errors' = errors + 1 /\ FailActive
          \/ errors' = errors /\ FailActive
          \/ errors' = errors /\ hadError' = hadError
      BY <1>c DEF ImportSession, ReportErrors
    <3>2. FailActive => hadError' \in [Files -> BOOLEAN]
      BY <1>a DEF FailActive, TypeOK
    <3>3. errors \in Nat /\ hadError \in [Files -> BOOLEAN]
      BY DEF TypeOK
    <3>. QED BY <3>1, <3>2, <3>3
  <2>. QED BY <2>1, <1>b, <1>c
    DEF ImportSession, TypeOK, ErrorsGrow, CallStackUnchanged
<1>2. CASE ImportByName
  BY <1>2, <1>a, <1>c DEF ImportByName, TypeOK, FileOrNone
<1>3. CASE ImportUnresolved
  <2>1. errors' \in Nat /\ errors <= errors' /\ hadError' \in [Files -> BOOLEAN]
    BY <1>3, <1>a DEF ImportUnresolved, TypeOK, ReportErrors, FailActive
  <2>. QED BY <2>1, <1>b, <1>3
    DEF ImportUnresolved, TypeOK, ErrorsGrow, CallStackUnchanged
<1>4. CASE ImportByPath
  BY <1>4, <1>a, <1>c, IndexAssumption DEF ImportByPath, FileOrNone
<1>5. CASE ImportUnreadable
  <2>1. hadError' \in [Files -> BOOLEAN]
    BY <1>5, <1>a DEF ImportUnreadable, TypeOK, FailActive
  <2>. QED BY <2>1, <1>b, <1>5
    DEF ImportUnreadable, TypeOK, ErrorsGrow, CallStackUnchanged
<1>6. CASE ImportNewFile
  <2>. DEFINE f == Index[NextImport]
  <2>1. f \in Files /\ OpenSession(f, active)
    BY <1>6, <1>a, IndexAssumption DEF ImportNewFile, FileOrNone
  <2>2. todo' \in [Files -> Seq(Names)]
    BY <1>6, <1>a, <2>1, ContentFacts DEF ImportNewFile, TypeOK
  <2>3. UNCHANGED <<src, hadError, bound, errors, stage, result>>
    BY <1>6 DEF ImportNewFile
  <2>4. active \in FileOrNone
    BY DEF TypeOK
  <2>. HIDE DEF f
  <2>. QED BY <2>1, <2>2, <2>3, <2>4, OpenSessionTypes DEF TypeOK, ErrorsGrow
<1>. QED BY <1>1, <1>2, <1>3, <1>4, <1>5, <1>6 DEF ImportStep

LEMMA TypeFinish ==
  ASSUME TypeInv, NEW f \in Files, FinishStep(f)
  PROVE  TypeInv'
<1>. USE DEF TypeInv
<1>a. src \in [Files -> Content]
  BY DEF TypeOK
<1>b. /\ Key(f) \in Keys /\ f \in FileOrNone /\ NoFile \in FileOrNone
      /\ One(src[f].ierr) \in Nat /\ One(src[f].merr) \in Nat
  BY <1>a, ContentFacts DEF FileOrNone
<1>1. CASE FinishInterface(f)
  <2>1. /\ units' \in [Keys -> Unit] /\ phase' \in [Files -> Phases]
        /\ bound' \in SUBSET (Keys \X {"interface", "implementation"})
    BY <1>1, <1>b DEF FinishInterface, TypeOK, Unit, Phases, Bind
  <2>2. ReportErrors(One(src[f].ierr)) /\ ReturnFromParse(f, One(src[f].ierr))
    BY <1>1 DEF FinishInterface
  <2>3. UNCHANGED <<src, byName, caller, todo, errsBefore>>
    BY <2>2 DEF ReturnFromParse
  <2>. QED BY <2>1, <2>2, <2>3, <1>b, ReturnTypes DEF TypeOK
<1>2. CASE FinishProgram(f)
  <2>1. /\ units' \in [Keys -> Unit] /\ phase' \in [Files -> Phases]
        /\ bound' \in SUBSET (Keys \X {"interface", "implementation"})
    BY <1>2, <1>b
    DEF FinishProgram, TypeOK, Unit, Phases, Bind, CleanSoFar, FailedNow
  <2>2. ReportErrors(One(src[f].merr)) /\ ReturnFromParse(f, One(src[f].merr))
    BY <1>2 DEF FinishProgram
  <2>3. UNCHANGED <<src, byName, caller, todo, errsBefore>>
    BY <2>2 DEF ReturnFromParse
  <2>. QED BY <2>1, <2>2, <2>3, <1>b, ReturnTypes DEF TypeOK
<1>3. CASE FinishGarbage(f)
  <2>1. /\ units' \in [Keys -> Unit] /\ phase' \in [Files -> Phases]
        /\ bound' \in SUBSET (Keys \X {"interface", "implementation"})
    BY <1>3, <1>b DEF FinishGarbage, TypeOK, Unit, Phases
  <2>2. ReportErrors(1) /\ ReturnFromParse(f, 1)
    BY <1>3 DEF FinishGarbage
  <2>3. UNCHANGED <<src, byName, caller, todo, errsBefore>>
    BY <2>2 DEF ReturnFromParse
  <2>. QED BY <2>1, <2>2, <2>3, <1>b, ReturnTypes DEF TypeOK
<1>. QED BY <1>1, <1>2, <1>3 DEF FinishStep

LEMMA TypeStep == TypeInv /\ [Next]_vars => TypeInv'
<1>. SUFFICES ASSUME TypeInv, [Next]_vars PROVE TypeInv'
  OBVIOUS
<1>. USE DEF TypeInv
<1>1. CASE ParseEntry
  <2>1. OpenSession(Entry, NoFile) /\ Entry \in Files /\ NoFile \in FileOrNone
    BY <1>1, EntryAssumption DEF ParseEntry, FileOrNone
  <2>2. todo' \in [Files -> Seq(Names)]
    BY <1>1, <2>1, ContentFacts DEF ParseEntry, TypeOK
  <2>3. UNCHANGED <<src, hadError, bound, errors, stage, result>>
    BY <1>1 DEF ParseEntry
  <2>. QED BY <2>1, <2>2, <2>3, OpenSessionTypes DEF TypeOK, ErrorsGrow
<1>2. CASE EntryUnreadable
  BY <1>2 DEF EntryUnreadable, TypeOK, ErrorsGrow
<1>3. CASE ImportStep
  BY <1>3, TypeImport
<1>4. ASSUME NEW f \in Files, FinishStep(f) PROVE TypeInv'
  BY <1>4, TypeFinish
<1>5. ASSUME NEW f \in Files, StartImplementation(f) PROVE TypeInv'
  <2>1. src[f].muses \in Seq(Names) /\ f \in FileOrNone /\ NoFile \in FileOrNone
    BY ContentFacts DEF TypeOK, FileOrNone
  <2>. QED BY <2>1, <1>5 DEF StartImplementation, TypeOK, ErrorsGrow
<1>6. ASSUME NEW f \in Files, FinishImplementation(f) PROVE TypeInv'
  <2>1. /\ Key(f) \in Keys /\ f \in FileOrNone /\ NoFile \in FileOrNone
        /\ One(src[f].merr) \in Nat
    BY ContentFacts DEF TypeOK, FileOrNone
  <2>2. NewErrors(f, One(src[f].merr)) \in Nat
    BY <2>1 DEF TypeOK, ErrorsGrow, NewErrors
  <2>3. units' \in [Keys -> Unit]
    <3>. DEFINE own == One(src[f].merr)
    <3>1. /\ units \in [Keys -> Unit] /\ CleanSoFar(f, own) \in BOOLEAN
          /\ units' = IF units[Key(f)].known
                      THEN [units EXCEPT ![Key(f)].ast = f,
                                         ![Key(f)].ok = CleanSoFar(f, own)]
                      ELSE units
      BY <1>6 DEF FinishImplementation, TypeOK, CleanSoFar, FailedNow
    <3>. HIDE DEF own
    <3>. QED BY <2>1, <3>1 DEF Unit
  <2>4. errors' \in Nat /\ errors <= errors' /\ result' \in Nat
    BY <1>6, <2>1, <2>2 DEF FinishImplementation, TypeOK, ReportErrors
  <2>5. /\ hadError' \in [Files -> BOOLEAN] /\ phase' \in [Files -> Phases]
        /\ bound' \in SUBSET (Keys \X {"interface", "implementation"})
    BY <1>6, <2>1 DEF FinishImplementation, TypeOK, FailedNow, Phases, Bind
  <2>6. active' \in FileOrNone /\ UNCHANGED <<src, byName, caller, todo, errsBefore, stage>>
    BY <1>6, <2>1 DEF FinishImplementation
  <2>. QED BY <2>3, <2>4, <2>5, <2>6 DEF TypeOK, ErrorsGrow
<1>7. CASE NothingPending
  BY <1>7 DEF NothingPending, TypeOK, ErrorsGrow
<1>8. ASSUME NEW k \in Keys, Demote(k) PROVE TypeInv'
  <2>1. units' \in [Keys -> Unit]
    BY <1>8 DEF Demote, TypeOK, Unit
  <2>. QED BY <2>1, <1>8 DEF Demote, TypeOK, ErrorsGrow
<1>9. CASE FinishDiscovery
  BY <1>9 DEF FinishDiscovery, TypeOK, ErrorsGrow
<1>10. CASE UNCHANGED vars
  BY <1>10 DEF vars, TypeOK, ErrorsGrow
<1>. QED BY <1>1, <1>2, <1>3, <1>4, <1>5, <1>6, <1>7, <1>8, <1>9, <1>10 DEF Next

\* The state of a discovery always has the shape that its C++ types promise.
THEOREM TypeCorrect == Spec => []TypeOK
<1>1. Spec => []TypeInv
  BY TypeInit, TypeStep, PTL DEF Spec
<1>. QED BY <1>1, PTL DEF TypeInv

-----------------------------------------------------------------------------
(***************************************************************************)
(* The C++ call stack of a discovery, which UnitGraph keeps as active and  *)
(* caller, and the two properties that rest on its shape.                  *)
(***************************************************************************)
\* The sessions inside their first parse.
Open == {f \in Files : phase[f] = "interface"}
Running(f) == phase[f] \in {"interface", "ready"}

ActiveRuns == active # NoFile => Running(active)
CallersWait == \A g \in Open : /\ caller[g] # active
                               /\ caller[g] # NoFile => Running(caller[g])
OneCallee == \A g, h \in Open : caller[g] = caller[h] => g = h

\* Every open session is met on the way down from the active one.
ClosedUnderCallers(S) ==
  active \in S /\ \A g \in Open \cap S : caller[g] \in S
OneStack == \A S \in SUBSET FileOrNone : ClosedUnderCallers(S) => Open \subseteq S

\* A session that waits inside its first parse waits for one of the files
\* that its first uses clause names.
TodoFromUses == \A f \in Open : ElementsOf(todo[f]) \subseteq ElementsOf(FirstUses(f))
CallsAreUses == \A g \in Open : caller[g] \in Open => g \in FirstTargets(caller[g])

StackInv == /\ ActiveRuns
            /\ CallersWait
            /\ OneCallee
            /\ OneStack
            /\ TodoFromUses
            /\ CallsAreUses

LEMMA NothingBelow ==
  ASSUME TypeInv, StackInv, active \notin Open
  PROVE  Open = {}
<1>1. {active} \in SUBSET FileOrNone /\ ClosedUnderCallers({active})
  BY DEF TypeInv, TypeOK, ClosedUnderCallers
<1>. QED BY <1>1 DEF StackInv, OneStack

LEMMA ElementsOfTail ==
  ASSUME NEW T, NEW s \in Seq(T), s # << >>
  PROVE  /\ Head(s) \in ElementsOf(s)
         /\ ElementsOf(Tail(s)) \subseteq ElementsOf(s)
         /\ \A e \in ElementsOf(s) : e = Head(s) \/ e \in ElementsOf(Tail(s))
<1>1. ASSUME NEW i \in 1..Len(s), i # 1
      PROVE  i - 1 \in 1..Len(Tail(s)) /\ Tail(s)[i - 1] = s[i]
  BY <1>1
<1>2. Head(s) = s[1] /\ 1 \in 1..Len(s)
  OBVIOUS
<1>3. ElementsOf(Tail(s)) \subseteq ElementsOf(s)
  BY DEF ElementsOf
<1>. QED BY <1>1, <1>2, <1>3 DEF ElementsOf

-----------------------------------------------------------------------------
LEMMA StackInit == Init => StackInv
BY NoFileAssumption
DEF Init, StackInv, Open, ActiveRuns, CallersWait, OneCallee, OneStack,
    TodoFromUses, CallsAreUses

\* A call: the new session is on top, and the one below is the old top.
LEMMA StackOpen ==
  ASSUME TypeInv, StackInv, NEW f \in Files, OpenSession(f, active), src' = src,
         ElementsOf(todo'[f]) \subseteq ElementsOf(FirstUses(f)),
         \A g \in Open : ElementsOf(todo'[g]) \subseteq ElementsOf(todo[g]),
         active \in Open => f \in FirstTargets(active)
  PROVE  StackInv'
<1>1. /\ phase' = [phase EXCEPT ![f] = "interface"]
      /\ caller' = [caller EXCEPT ![f] = active]
      /\ active' = f /\ phase[f] = "unloaded"
  BY DEF OpenSession
<1>2. /\ Open' = Open \cup {f} /\ f \notin Open
      /\ caller'[f] = active
      /\ \A g \in Open : caller'[g] = caller[g]
      /\ \A g \in Files : Running(g) => Running(g)'
      /\ ~Running(f) /\ Running(f)'
  BY <1>1 DEF Open, Running, TypeInv, TypeOK
<1>3. active # f
  BY <1>2, NoFileAssumption DEF StackInv, ActiveRuns
<1>4. \A g \in Open : caller[g] # f /\ caller[g] # active
  BY <1>2, NoFileAssumption DEF StackInv, CallersWait
<1>5. active \in FileOrNone /\ \A g \in Open : caller[g] \in FileOrNone
  BY DEF TypeInv, TypeOK, Open
<1>6. ActiveRuns'
  BY <1>1, <1>2 DEF ActiveRuns
<1>7. CallersWait'
  <2>1. SUFFICES ASSUME NEW g \in Open'
                 PROVE  /\ caller'[g] # f
                        /\ caller'[g] # NoFile => phase'[caller'[g]] \in {"interface", "ready"}
    BY <1>1 DEF CallersWait, Running
  <2>2. CASE g = f
    BY <2>2, <1>2, <1>3, <1>5 DEF StackInv, ActiveRuns, FileOrNone, Running
  <2>3. CASE g \in Open
    BY <2>3, <1>2, <1>4, <1>5 DEF StackInv, CallersWait, FileOrNone, Running
  <2>. QED BY <2>1, <2>2, <2>3, <1>2
<1>8. OneCallee'
  BY <1>2, <1>4 DEF StackInv, OneCallee
<1>9. OneStack'
  <2>1. SUFFICES ASSUME NEW S \in SUBSET FileOrNone, ClosedUnderCallers(S)'
                 PROVE  Open' \subseteq S
    BY DEF OneStack
  <2>2. f \in S /\ active \in S
    BY <2>1, <1>1, <1>2 DEF ClosedUnderCallers
  <2>3. ClosedUnderCallers(S)
    BY <2>1, <2>2, <1>2 DEF ClosedUnderCallers
  <2>. QED BY <2>1, <2>2, <2>3, <1>2 DEF StackInv, OneStack
<1>10. \A h : FirstUses(h)' = FirstUses(h) /\ FirstTargets(h)' = FirstTargets(h)
  BY DEF FirstUses, FirstTargets, Kind, MUses, HasHeader
<1>11. TodoFromUses'
  BY <1>2, <1>10 DEF StackInv, TodoFromUses
<1>12. CallsAreUses'
  BY <1>2, <1>4, <1>10, <1>3 DEF StackInv, CallsAreUses
<1>. QED BY <1>6, <1>7, <1>8, <1>9, <1>11, <1>12 DEF StackInv

\* A return: the session that waited for f is on top again.
LEMMA StackReturn ==
  ASSUME TypeInv, StackInv, NEW f \in Files, phase[f] = "interface", active = f,
         NEW p \in Phases \ {"unloaded", "interface"},
         phase' = [phase EXCEPT ![f] = p], active' = caller[f],
         UNCHANGED <<src, caller, todo>>
  PROVE  StackInv'
<1>1. /\ Open' = Open \ {f} /\ f \in Open
      /\ \A g \in Files : g # f /\ Running(g) => Running(g)'
  BY DEF Open, Running, TypeInv, TypeOK
<1>2. caller[f] # f /\ caller[f] \in FileOrNone
  BY <1>1 DEF StackInv, CallersWait, TypeInv, TypeOK
<1>3. ActiveRuns'
  BY <1>1, <1>2 DEF StackInv, ActiveRuns, CallersWait, Running, FileOrNone
<1>4. CallersWait'
  <2>1. SUFFICES ASSUME NEW g \in Open'
                 PROVE  /\ caller[g] # caller[f]
                        /\ caller[g] # NoFile => Running(caller[g])'
    BY DEF CallersWait, Running
  <2>2. g \in Open /\ g # f /\ caller[g] # f /\ caller[g] \in FileOrNone
    BY <2>1, <1>1 DEF StackInv, CallersWait, TypeInv, TypeOK, Open
  <2>. QED BY <2>2, <1>1 DEF StackInv, CallersWait, OneCallee, FileOrNone
<1>5. OneCallee'
  BY <1>1 DEF StackInv, OneCallee
<1>6. OneStack'
  <2>1. SUFFICES ASSUME NEW S \in SUBSET FileOrNone, ClosedUnderCallers(S)'
                 PROVE  Open' \subseteq S
    BY DEF OneStack
  <2>2. S \cup {f} \in SUBSET FileOrNone
    BY DEF FileOrNone
  <2>3. ClosedUnderCallers(S \cup {f})
    BY <2>1, <1>1 DEF ClosedUnderCallers
  <2>. QED BY <2>2, <2>3, <1>1 DEF StackInv, OneStack
<1>7. \A h : FirstUses(h)' = FirstUses(h) /\ FirstTargets(h)' = FirstTargets(h)
  BY DEF FirstUses, FirstTargets, Kind, MUses, HasHeader
<1>8. TodoFromUses' /\ CallsAreUses'
  BY <1>1, <1>7 DEF StackInv, TodoFromUses, CallsAreUses
<1>. QED BY <1>3, <1>4, <1>5, <1>6, <1>8 DEF StackInv

\* Steps that neither call nor return.
LEMMA StackStays ==
  ASSUME TypeInv, StackInv, UNCHANGED <<src, phase, active, caller>>,
         \A g \in Open : ElementsOf(todo'[g]) \subseteq ElementsOf(todo[g])
  PROVE  StackInv'
<1>1. Open' = Open /\ \A g : Running(g)' = Running(g)
  BY DEF Open, Running
<1>2. \A h : FirstUses(h)' = FirstUses(h) /\ FirstTargets(h)' = FirstTargets(h)
  BY DEF FirstUses, FirstTargets, Kind, MUses, HasHeader
<1>3. ActiveRuns' /\ CallersWait' /\ OneCallee'
  BY <1>1 DEF StackInv, ActiveRuns, CallersWait, OneCallee, Running
<1>4. OneStack'
  BY <1>1 DEF StackInv, OneStack, ClosedUnderCallers
<1>5. TodoFromUses' /\ CallsAreUses'
  BY <1>1, <1>2 DEF StackInv, TodoFromUses, CallsAreUses
<1>. QED BY <1>3, <1>4, <1>5 DEF StackInv

LEMMA StackImport == TypeInv /\ StackInv /\ ImportStep => StackInv'
<1>. SUFFICES ASSUME TypeInv, StackInv, ImportStep PROVE StackInv'
  OBVIOUS
<1>0. Importing
  BY DEF ImportStep, ImportRuntime, ImportByName, ImportUnresolved, ImportByPath,
         ImportUnreadable, ImportNewFile, SearchesPath
<1>1. /\ active \in Files /\ todo[active] \in Seq(Names) /\ todo[active] # << >>
      /\ NextImport \in Names
  BY <1>0, ImportFacts DEF TypeInv, TypeOK, Importing
<1>2. /\ NextImport \in ElementsOf(todo[active])
      /\ ElementsOf(Tail(todo[active])) \subseteq ElementsOf(todo[active])
  BY <1>1, ElementsOfTail DEF NextImport
<1>3. CASE ImportNewFile
  <2>. DEFINE f == Index[NextImport]
  <2>1. f \in Files /\ OpenSession(f, active) /\ NextImport \notin Runtime /\ src' = src
    BY <1>3, <1>1, IndexAssumption DEF ImportNewFile, SearchesPath, FileOrNone
  <2>2. todo' = [todo EXCEPT ![active] = Tail(@), ![f] = FirstUses(f)]
    BY <1>3 DEF ImportNewFile
  <2>3. phase[f] = "unloaded" /\ active # f
    BY <2>1, NoFileAssumption
    DEF OpenSession, StackInv, ActiveRuns, Running
  <2>4. ElementsOf(todo'[f]) \subseteq ElementsOf(FirstUses(f))
    BY <2>1, <2>2 DEF TypeInv, TypeOK
  <2>5. \A g \in Open : ElementsOf(todo'[g]) \subseteq ElementsOf(todo[g])
    BY <2>1, <2>2, <2>3, <1>1, <1>2 DEF TypeInv, TypeOK, Open
  <2>6. active \in Open => f \in FirstTargets(active)
    BY <2>1, <1>2, NoFileAssumption DEF StackInv, TodoFromUses, FirstTargets
  <2>. HIDE DEF f
  <2>. QED BY <2>1, <2>4, <2>5, <2>6, StackOpen
<1>4. CASE ~ImportNewFile
  <2>1. SkipImport /\ UNCHANGED <<src, phase, active, caller>>
    BY <1>4 DEF ImportStep, ImportRuntime, ImportByName, ImportUnresolved,
                ImportByPath, ImportUnreadable, ImportSession, CallStackUnchanged
  <2>2. \A g \in Open : ElementsOf(todo'[g]) \subseteq ElementsOf(todo[g])
    BY <2>1, <1>1, <1>2 DEF SkipImport, TypeInv, TypeOK, Open
  <2>. QED BY <2>1, <2>2, StackStays
<1>. QED BY <1>3, <1>4

LEMMA StackStep == TypeInv /\ StackInv /\ [Next]_vars => StackInv'
<1>. SUFFICES ASSUME TypeInv, StackInv, [Next]_vars PROVE StackInv'
  OBVIOUS
<1>1. CASE ParseEntry
  <2>1. /\ OpenSession(Entry, active) /\ Entry \in Files /\ src' = src
        /\ active = NoFile /\ todo' = [todo EXCEPT ![Entry] = FirstUses(Entry)]
    BY <1>1, EntryAssumption DEF ParseEntry
  <2>2. Open = {}
    BY <2>1, NothingBelow, NoFileAssumption DEF Open
  <2>3. ElementsOf(todo'[Entry]) \subseteq ElementsOf(FirstUses(Entry))
    BY <2>1 DEF TypeInv, TypeOK
  <2>. QED BY <2>1, <2>2, <2>3, StackOpen
<1>2. CASE ImportStep
  BY <1>2, StackImport
<1>3. ASSUME NEW f \in Files, FinishStep(f) PROVE StackInv'
  <2>1. /\ phase[f] = "interface" /\ active = f /\ active' = caller[f]
        /\ UNCHANGED <<src, caller, todo>>
    BY <1>3 DEF FinishStep, FinishInterface, FinishProgram, FinishGarbage,
                Done, ReturnFromParse
  <2>2. \E p \in Phases \ {"unloaded", "interface"} :
          phase' = [phase EXCEPT ![f] = p]
    BY <1>3 DEF FinishStep, FinishInterface, FinishProgram, FinishGarbage, Phases
  <2>. QED BY <2>1, <2>2, StackReturn
<1>4. ASSUME NEW f \in Files, StartImplementation(f) PROVE StackInv'
  <2>1. /\ active = NoFile /\ phase[f] = "ready" /\ active' = f
        /\ UNCHANGED <<src, phase>>
    BY <1>4 DEF StartImplementation
  <2>2. Open = {}
    BY <2>1, NothingBelow, NoFileAssumption DEF Open
  <2>3. Open' = {}
    BY <2>1, <2>2 DEF Open
  <2>. QED BY <2>1, <2>3
    DEF StackInv, ActiveRuns, CallersWait, OneCallee, OneStack,
        TodoFromUses, CallsAreUses, Running
<1>5. ASSUME NEW f \in Files, FinishImplementation(f) PROVE StackInv'
  <2>1. /\ active = f /\ phase[f] = "ready" /\ active' = NoFile
        /\ src' = src /\ phase' = [phase EXCEPT ![f] = "complete"]
    BY <1>5 DEF FinishImplementation, Done
  <2>2. Open = {}
    BY <2>1, NothingBelow DEF Open
  <2>3. Open' = {}
    BY <2>1, <2>2 DEF Open, TypeInv, TypeOK
  <2>. QED BY <2>1, <2>3
    DEF StackInv, ActiveRuns, CallersWait, OneCallee, OneStack,
        TodoFromUses, CallsAreUses
<1>6. CASE \/ EntryUnreadable \/ NothingPending \/ FinishDiscovery
           \/ (\E k \in Keys : Demote(k)) \/ UNCHANGED vars
  BY <1>6, StackStays
  DEF EntryUnreadable, NothingPending, FinishDiscovery, Demote, vars
<1>. QED BY <1>1, <1>2, <1>3, <1>4, <1>5, <1>6 DEF Next

LEMMA StackInvariant == Spec => [](TypeInv /\ StackInv)
BY TypeInit, TypeStep, StackInit, StackStep, PTL DEF Spec

-----------------------------------------------------------------------------
\* When import_units finds the imported session still inside its interface,
\* and reports a cycle, the importing session is inside its interface too and
\* the uses clauses really lead from one to the other: the call stack is the
\* witness.
THEOREM CycleReportsCorrect == Spec => []CycleReportsAreReal
<1>1. TypeInv /\ StackInv => CycleReportsAreReal
  <2>. SUFFICES ASSUME TypeInv, StackInv, Importing, NextImport \notin Runtime,
                       NEW f, f = IF byName[NextImport] # NoFile
                                  THEN byName[NextImport] ELSE Index[NextImport],
                       f # NoFile, phase[f] = "interface"
                PROVE  phase[active] = "interface" /\ LeadsTo(f, active)
    BY DEF CycleReportsAreReal
  <2>a. NextImport \in Names /\ active \in Files
    BY ImportFacts DEF TypeInv
  <2>b. byName[NextImport] \in FileOrNone /\ Index[NextImport] \in FileOrNone
    BY <2>a, IndexAssumption DEF TypeInv, TypeOK, FileOrNone
  <2>0. f \in FileOrNone /\ active # NoFile
    BY <2>a, <2>b, NoFileAssumption
  <2>1. f \in Open /\ active \in Files
    BY <2>0 DEF Open, FileOrNone, TypeInv, TypeOK
  <2>2. active \in Open
    BY <2>1, NothingBelow
  <2>3. ASSUME NEW S \in SUBSET Files, f \in S,
               \A h \in S : FirstTargets(h) \subseteq S
        PROVE  active \in S
    <3>. DEFINE T == FileOrNone \ (S \cap Open)
    <3>1. SUFFICES ASSUME active \notin S PROVE FALSE
      OBVIOUS
    <3>2. \A g \in Open \cap T : caller[g] \in T
      BY <2>3 DEF StackInv, CallsAreUses, TypeInv, TypeOK, Open
    <3>3. ClosedUnderCallers(T)
      BY <3>1, <3>2, <2>1 DEF ClosedUnderCallers, FileOrNone
    <3>4. Open \subseteq T
      BY <3>3 DEF StackInv, OneStack
    <3>. QED BY <3>4, <2>1, <2>3
  <2>. QED BY <2>2, <2>3 DEF LeadsTo, Open
<1>. QED BY <1>1, StackInvariant, PTL

LEMMA OkIsCleanStays ==
  ASSUME TypeInv, OkIsClean,
         \A k \in Keys : units'[k].ok => units[k].ok /\ units'[k].ast = units[k].ast,
         \A f \in Files : phase[f] = "complete" /\ ~hadError[f]
                            => phase'[f] = "complete" /\ ~hadError'[f]
  PROVE  OkIsClean'
<1>. SUFFICES ASSUME NEW k \in Keys, units'[k].ok
              PROVE  LET f == units'[k].ast IN
                     f # NoFile /\ phase'[f] = "complete" /\ ~hadError'[f]
  BY DEF OkIsClean
<1>1. units[k].ok /\ units'[k].ast = units[k].ast /\ units[k].ast \in FileOrNone
  BY DEF TypeInv, TypeOK, Unit
<1>. QED BY <1>1 DEF OkIsClean, FileOrNone

LEMMA OkIsCleanOpen ==
  ASSUME TypeInv, OkIsClean, NEW f \in Files, NEW from \in FileOrNone,
         OpenSession(f, from), UNCHANGED hadError
  PROVE  OkIsClean'
<1>1. \A g \in Files : phase[g] = "complete" => phase'[g] = "complete"
  BY DEF OpenSession, TypeInv, TypeOK
<1>2. ASSUME NEW k \in Keys, units'[k].ok
      PROVE  units[k].ok /\ units'[k].ast = units[k].ast
  <2>1. \/ units' = units
        \/ \E n \in Names : \E u : ~u.ok /\ units' = [units EXCEPT ![n] = u]
    <3>. DEFINE n == src[f].name
                entry == [known |-> TRUE, path |-> f, ast |-> NoFile, ok |-> FALSE]
    <3>1. n \in Names /\ ~entry.ok
      BY ContentFacts DEF TypeInv, TypeOK
    <3>2. units' = units \/ units' = [units EXCEPT ![n] = entry]
      BY DEF OpenSession, BeginCompilationUnit
    <3>. HIDE DEF n, entry
    <3>. QED BY <3>1, <3>2
  <2>. QED BY <2>1, <1>2 DEF TypeInv, TypeOK
<1>. QED BY <1>1, <1>2, OkIsCleanStays

LEMMA OkIsCleanImport ==
  TypeInv /\ StackInv /\ OkIsClean /\ ImportStep => OkIsClean'
<1>. SUFFICES ASSUME TypeInv, StackInv, OkIsClean, ImportStep PROVE OkIsClean'
  OBVIOUS
<1>1. Importing
  BY DEF ImportStep, ImportRuntime, ImportByName, ImportUnresolved, ImportByPath,
         ImportUnreadable, ImportNewFile, SearchesPath
<1>2. active \in Files /\ phase[active] # "complete"
  BY <1>1, ImportFacts DEF StackInv, ActiveRuns, Running, Importing, TypeInv
<1>3. CASE ImportNewFile
  <2>. DEFINE f == Index[NextImport]
  <2>1. f \in Files /\ OpenSession(f, active) /\ UNCHANGED hadError
    BY <1>1, <1>3, ImportFacts, IndexAssumption DEF ImportNewFile, FileOrNone, TypeInv
  <2>2. active \in FileOrNone
    BY <1>2 DEF FileOrNone
  <2>. HIDE DEF f
  <2>. QED BY <2>1, <2>2, OkIsCleanOpen
<1>4. CASE ~ImportNewFile
  <2>1. /\ UNCHANGED <<phase, units>>
        /\ hadError' = hadError \/ hadError' = [hadError EXCEPT ![active] = TRUE]
    BY <1>4 DEF ImportStep, ImportRuntime, ImportByName, ImportUnresolved, FailActive,
                ImportByPath, ImportUnreadable, ImportSession
  <2>. QED BY <2>1, <1>2, OkIsCleanStays DEF TypeInv, TypeOK
<1>. QED BY <1>3, <1>4

LEMMA OkIsCleanStep ==
  TypeInv /\ StackInv /\ OkIsClean /\ [Next]_vars => OkIsClean'
<1>. SUFFICES ASSUME TypeInv, StackInv, OkIsClean, [Next]_vars PROVE OkIsClean'
  OBVIOUS
<1>1. CASE ParseEntry
  <2>1. OpenSession(Entry, NoFile) /\ Entry \in Files /\ UNCHANGED hadError
    BY <1>1, EntryAssumption DEF ParseEntry
  <2>. QED BY <2>1, OkIsCleanOpen DEF FileOrNone
<1>2. CASE ImportStep
  BY <1>2, OkIsCleanImport
<1>3. ASSUME NEW f \in Files, FinishStep(f) PROVE OkIsClean'
  <2>1. /\ phase[f] = "interface" /\ active = f
        /\ caller[f] \in Files => phase[caller[f]] # "complete"
    BY <1>3, NoFileAssumption
    DEF FinishStep, FinishInterface, FinishProgram, FinishGarbage, Done,
        StackInv, CallersWait, Running, Open
  <2>2. Key(f) \in Keys
    BY ContentFacts DEF TypeInv, TypeOK
  <2>3. ASSUME NEW own, ReturnFromParse(f, own)
        PROVE  \A g \in Files : phase[g] = "complete" /\ ~hadError[g] => ~hadError'[g]
    BY <2>1, <2>3 DEF ReturnFromParse
  <2>4. CASE FinishInterface(f)
    <3>1. \A k \in Keys : units'[k].ok => units[k].ok /\ units'[k].ast = units[k].ast
      BY <2>4, <2>2 DEF FinishInterface, TypeInv, TypeOK
    <3>2. \A g \in Files : phase[g] = "complete" => phase'[g] = "complete"
      BY <2>4, <2>1 DEF FinishInterface, TypeInv, TypeOK
    <3>3. \A g \in Files : phase[g] = "complete" /\ ~hadError[g] => ~hadError'[g]
      BY <2>4, <2>3 DEF FinishInterface
    <3>. QED BY <3>1, <3>2, <3>3, OkIsCleanStays
  <2>5. CASE FinishProgram(f)
    <3>. DEFINE own == One(src[f].merr)
    <3>1. /\ ReturnFromParse(f, own)
          /\ units' = [units EXCEPT ![Key(f)] =
                          [known |-> TRUE, path |-> f, ast |-> f,
                           ok |-> CleanSoFar(f, own)]]
          /\ phase' = [phase EXCEPT ![f] = "complete"]
      BY <2>5 DEF FinishProgram
    <3>2. hadError'[f] = FailedNow(f, own)
      BY <3>1 DEF ReturnFromParse
    <3>3. \A g \in Files : phase[g] = "complete" /\ ~hadError[g] => ~hadError'[g]
      BY <3>1, <2>3
    <3>4. ASSUME NEW k \in Keys, units'[k].ok
          PROVE  LET g == units'[k].ast IN
                 g # NoFile /\ phase'[g] = "complete" /\ ~hadError'[g]
      <4>1. CASE k = Key(f)
        <5>1. units'[k].ast = f /\ CleanSoFar(f, own)
          BY <4>1, <3>1, <3>4 DEF TypeInv, TypeOK
        <5>2. phase'[f] = "complete" /\ ~hadError'[f] /\ f # NoFile
          BY <5>1, <3>1, <3>2, NoFileAssumption DEF CleanSoFar, TypeInv, TypeOK
        <5>. QED BY <5>1, <5>2
      <4>2. CASE k # Key(f)
        <5>1. units'[k] = units[k] /\ units[k].ast \in FileOrNone
          BY <4>2, <3>1 DEF TypeInv, TypeOK, Unit
        <5>. QED BY <5>1, <3>4, <3>1, <3>3 DEF OkIsClean, FileOrNone, TypeInv, TypeOK
      <4>. QED BY <4>1, <4>2
    <3>. QED BY <3>4 DEF OkIsClean
  <2>6. CASE FinishGarbage(f)
    <3>1. \A k \in Keys : units'[k].ok => units[k].ok /\ units'[k].ast = units[k].ast
      BY <2>6, <2>2 DEF FinishGarbage, TypeInv, TypeOK
    <3>2. \A g \in Files : phase[g] = "complete" => phase'[g] = "complete"
      BY <2>6, <2>1 DEF FinishGarbage, TypeInv, TypeOK
    <3>3. \A g \in Files : phase[g] = "complete" /\ ~hadError[g] => ~hadError'[g]
      BY <2>6, <2>3 DEF FinishGarbage
    <3>. QED BY <3>1, <3>2, <3>3, OkIsCleanStays
  <2>. QED BY <1>3, <2>4, <2>5, <2>6 DEF FinishStep
<1>4. ASSUME NEW f \in Files, FinishImplementation(f) PROVE OkIsClean'
  <2>. DEFINE own == One(src[f].merr)
  <2>1. /\ phase[f] = "ready" /\ phase' = [phase EXCEPT ![f] = "complete"]
        /\ hadError' = [hadError EXCEPT ![f] = FailedNow(f, own)]
        /\ \/ units' = units
           \/ units' = [units EXCEPT ![Key(f)].ast = f,
                                     ![Key(f)].ok = CleanSoFar(f, own)]
    BY <1>4 DEF FinishImplementation
  <2>2. f # NoFile /\ Key(f) \in Keys
    BY NoFileAssumption, ContentFacts DEF TypeInv, TypeOK
  <2>3. ASSUME NEW k \in Keys, units'[k].ok
        PROVE  LET g == units'[k].ast IN
               g # NoFile /\ phase'[g] = "complete" /\ ~hadError'[g]
    <3>1. CASE units'[k] = units[k]
      <4>1. units[k].ast \in Files /\ phase[units[k].ast] = "complete" /\ ~hadError[units[k].ast]
        BY <3>1, <2>3 DEF OkIsClean, TypeInv, TypeOK, Unit, FileOrNone
      <4>. QED BY <4>1, <3>1, <2>1, NoFileAssumption DEF TypeInv, TypeOK
    <3>2. CASE units'[k] # units[k]
      <4>1. units'[k].ast = f /\ CleanSoFar(f, own)
        BY <3>2, <2>1, <2>2, <2>3 DEF TypeInv, TypeOK, Unit
      <4>2. phase'[f] = "complete" /\ ~hadError'[f]
        BY <4>1, <2>1 DEF CleanSoFar, TypeInv, TypeOK
      <4>. QED BY <4>1, <4>2, <2>2
    <3>. QED BY <3>1, <3>2
  <2>. QED BY <2>3 DEF OkIsClean
<1>5. ASSUME NEW k \in Keys, Demote(k) PROVE OkIsClean'
  <2>1. \A j \in Keys : units'[j].ok => units[j].ok /\ units'[j].ast = units[j].ast
    BY <1>5 DEF Demote, TypeInv, TypeOK, Unit
  <2>. QED BY <1>5, <2>1, OkIsCleanStays DEF Demote
<1>6. CASE \/ EntryUnreadable \/ NothingPending \/ FinishDiscovery
           \/ (\E f \in Files : StartImplementation(f)) \/ UNCHANGED vars
  BY <1>6, OkIsCleanStays
  DEF EntryUnreadable, NothingPending, FinishDiscovery, StartImplementation, vars
<1>. QED BY <1>1, <1>2, <1>3, <1>4, <1>5, <1>6 DEF Next

\* A unit that units_ calls ok was made from a complete session that met no
\* error.  A session is never touched again once its parse is over, because
\* whoever waits on the call stack is not over: hence the stack invariant.
THEOREM OkIsCleanCorrect == Spec => []OkIsClean
<1>. DEFINE Inv == TypeInv /\ StackInv
<1>1. Init => OkIsClean
  BY DEF Init, OkIsClean, NoUnit
<1>2. Inv /\ OkIsClean /\ [Next]_vars => OkIsClean'
  <2>. SUFFICES ASSUME Inv, OkIsClean, [Next]_vars PROVE OkIsClean'
    OBVIOUS
  <2>. QED BY OkIsCleanStep
<1>. QED BY <1>1, <1>2, StackInvariant, PTL DEF Spec

-----------------------------------------------------------------------------
(***************************************************************************)
(* What discovery says in the end, in two parts.                           *)
(*   What an ok unit can rely on: each name it uses has a runtime model or *)
(* is an ok unit itself.  The fixed point at the end only compares units   *)
(* that units_ knows, so the proof has to show that an import which left   *)
(* no entry there has failed its importer.                                 *)
(*   What the exit code says: the errors counted and the units that failed *)
(* tell of each other.                                                     *)
(***************************************************************************)

\* The name is one that the fixed point, or the runtime, answers for.
Settled(n) == n \in Runtime \/ units[n].known

\* f waits for a file that will report an error when it returns.
GarbageCallee(f) == \E g \in Open : caller[g] = f /\ Kind(g) = "garbage"

Implementing(f) ==
  phase[f] = "ready" /\ (active = f \/ \E g \in Open : caller[g] = f)

SessionsAreKnown ==
  /\ \A n \in Names : byName[n] # NoFile => units[n].known
  /\ \A f \in Files : phase[f] # "unloaded" /\ HasHeader(f)
                        => byName[src[f].name] # NoFile
KindsOfPhases ==
  \A f \in Files : /\ Kind(f) = "garbage" => phase[f] \notin {"ready", "complete"}
                   /\ Kind(f) = "unreadable" => phase[f] = "unloaded"
                   /\ phase[f] = "ready" => Kind(f) = "unit"

\* Each name of a uses clause is still to be looked at, or settled, or being
\* parsed and bound to fail.
Pursued(f, names) ==
  \A n \in names : n \in ElementsOf(todo[f]) \/ Settled(n) \/ GarbageCallee(f)
AllSettled(names) == \A n \in names : Settled(n)

FirstPursued == \A f \in Open :
  ~hadError[f] => Pursued(f, ElementsOf(FirstUses(f)))
ReadySettled == \A f \in Files :
  phase[f] = "ready" /\ ~hadError[f] => AllSettled(ElementsOf(IUses(f)))
LastPursued == \A f \in Files :
  Implementing(f) /\ ~hadError[f] => Pursued(f, ElementsOf(MUses(f)))
CompleteSettled == \A f \in Files :
  phase[f] = "complete" /\ ~hadError[f] => AllSettled(Imports(f))

OutcomeInv == /\ SessionsAreKnown
              /\ KindsOfPhases
              /\ FirstPursued
              /\ ReadySettled
              /\ LastPursued
              /\ CompleteSettled

LEMMA ContentConstant ==
  ASSUME UNCHANGED src
  PROVE  /\ \A f : /\ Kind(f)' = Kind(f) /\ HasHeader(f)' = HasHeader(f)
                   /\ IUses(f)' = IUses(f) /\ MUses(f)' = MUses(f)
                   /\ FirstUses(f)' = FirstUses(f) /\ Imports(f)' = Imports(f)
         /\ WellNamed' = WellNamed
BY DEF Kind, HasHeader, IUses, MUses, FirstUses, Imports, WellNamed

LEMMA OutcomeInit == Init => OutcomeInv
BY DEF Init, OutcomeInv, SessionsAreKnown, KindsOfPhases, FirstPursued, Open,
       ReadySettled, LastPursued, Implementing, CompleteSettled

(***************************************************************************)
(* Most steps leave the sessions as they are.                              *)
(***************************************************************************)
UnitsGrow == \A n \in Names : units[n].known => units'[n].known
ErrorsStay == \A f \in Files : hadError[f] => hadError'[f]

LEMMA PursuedGrows ==
  ASSUME NEW f \in Files, NEW names \in SUBSET Names, UnitsGrow,
         UNCHANGED src, Pursued(f, names), GarbageCallee(f) => GarbageCallee(f)',
         \A n \in names : n \in ElementsOf(todo[f])
             => n \in ElementsOf(todo'[f]) \/ Settled(n)' \/ GarbageCallee(f)'
  PROVE  Pursued(f, names)'
BY DEF Pursued, UnitsGrow, Settled

LEMMA SettledGrows ==
  ASSUME NEW names \in SUBSET Names, UnitsGrow, AllSettled(names)
  PROVE  AllSettled(names)'
BY DEF AllSettled, Settled, UnitsGrow

LEMMA UsesAreNames ==
  ASSUME TypeInv, NEW f \in Files
  PROVE  /\ ElementsOf(FirstUses(f)) \in SUBSET Names
         /\ ElementsOf(IUses(f)) \in SUBSET Names
         /\ ElementsOf(MUses(f)) \in SUBSET Names
         /\ Imports(f) \in SUBSET Names
<1>1. /\ FirstUses(f) \in Seq(Names) /\ IUses(f) \in Seq(Names)
      /\ MUses(f) \in Seq(Names)
  BY DEF TypeInv, TypeOK, Content, FirstUses, IUses, MUses, HasHeader, Kind
<1>. QED BY <1>1 DEF ElementsOf, Imports

\* import_units has dealt with one name of its list.
LEMMA OutcomeLook ==
  ASSUME TypeInv, StackInv, OutcomeInv, Importing, SkipImport,
         UNCHANGED <<src, phase, byName, units, active, caller>>, ErrorsStay,
         hadError'[active] \/ Settled(NextImport)
  PROVE  OutcomeInv'
<1>1. /\ active \in Files /\ todo[active] \in Seq(Names)
      /\ todo' = [todo EXCEPT ![active] = Tail(todo[active])]
  BY ImportFacts DEF TypeInv, TypeOK, SkipImport
<1>2. \A n \in ElementsOf(todo[active]) :
        n = NextImport \/ n \in ElementsOf(Tail(todo[active]))
  BY <1>1, ElementsOfTail DEF NextImport, Importing
<1>3. /\ Open' = Open /\ UnitsGrow
      /\ \A f : GarbageCallee(f)' = GarbageCallee(f) /\ Implementing(f)' = Implementing(f)
  BY DEF Open, UnitsGrow, GarbageCallee, Implementing, Kind
<1>4. ASSUME NEW f \in Files, NEW names \in SUBSET Names,
             ~hadError'[f], Pursued(f, names)
      PROVE  Pursued(f, names)'
  BY <1>1, <1>2, <1>3, <1>4 DEF Pursued, Settled, TypeInv, TypeOK
<1>5. SessionsAreKnown' /\ KindsOfPhases'
  BY ContentConstant DEF OutcomeInv, SessionsAreKnown, KindsOfPhases
<1>6. ReadySettled' /\ CompleteSettled'
  BY <1>3, ContentConstant
  DEF OutcomeInv, ReadySettled, CompleteSettled, AllSettled, Settled, ErrorsStay
<1>7. FirstPursued'
  BY <1>3, <1>4, UsesAreNames, ContentConstant
  DEF OutcomeInv, FirstPursued, ErrorsStay, Open
<1>8. LastPursued'
  BY <1>3, <1>4, UsesAreNames, ContentConstant
  DEF OutcomeInv, LastPursued, ErrorsStay
<1>. QED BY <1>5, <1>6, <1>7, <1>8 DEF OutcomeInv

(***************************************************************************)
(* A call of parse_recursive that creates a session.                       *)
(***************************************************************************)
LEMMA BeginKnows ==
  ASSUME TypeInv, SessionsAreKnown, NEW f \in Files, NEW from, OpenSession(f, from)
  PROVE  /\ UnitsGrow
         /\ HasHeader(f) => units'[src[f].name].known
         /\ HasHeader(f) => byName'[src[f].name] # NoFile
         /\ \A n \in Names : byName[n] # NoFile => byName'[n] # NoFile
         /\ \A n \in Names : byName'[n] # NoFile => units'[n].known
<1>1. CASE HasHeader(f)
  <2>. DEFINE n == src[f].name
              entry == [known |-> TRUE, path |-> f, ast |-> NoFile, ok |-> FALSE]
  <2>1. n \in Names /\ n \in Keys /\ f # NoFile /\ entry.known
    BY ContentFacts, KeysContainNames, NoFileAssumption DEF TypeInv, TypeOK
  <2>2. /\ byName' = IF byName[n] = NoFile THEN [byName EXCEPT ![n] = f] ELSE byName
        /\ units' = IF units[n].known THEN units ELSE [units EXCEPT ![n] = entry]
    BY <1>1 DEF OpenSession, BeginCompilationUnit
  <2>. HIDE DEF entry, n
  <2>3. UnitsGrow /\ units'[n].known
    BY <2>1, <2>2, KeysContainNames DEF UnitsGrow, TypeInv, TypeOK
  <2>4. /\ byName'[n] # NoFile
        /\ \A m \in Names : byName[m] # NoFile => byName'[m] # NoFile
        /\ \A m \in Names : byName'[m] # NoFile => m = n \/ byName[m] # NoFile
    BY <2>1, <2>2 DEF TypeInv, TypeOK
  <2>. QED BY <2>3, <2>4 DEF n, UnitsGrow, SessionsAreKnown
<1>2. CASE ~HasHeader(f)
  BY <1>2 DEF OpenSession, BeginCompilationUnit, UnitsGrow, SessionsAreKnown
<1>. QED BY <1>1, <1>2

LEMMA OutcomeOpen ==
  ASSUME TypeInv, StackInv, OutcomeInv, NEW f \in Files, OpenSession(f, active),
         UNCHANGED <<src, hadError>>, todo'[f] = FirstUses(f),
         \A h \in Files \ {f} : \A n \in ElementsOf(todo[h]) :
           n \in ElementsOf(todo'[h]) \/ Settled(n)' \/ GarbageCallee(h)'
  PROVE  OutcomeInv'
<1>1. /\ phase' = [phase EXCEPT ![f] = "interface"] /\ phase[f] = "unloaded"
      /\ caller' = [caller EXCEPT ![f] = active]
      /\ active' = f /\ Kind(f) # "unreadable"
  BY DEF OpenSession
<1>2. /\ Open' = Open \cup {f} /\ f \notin Open
      /\ caller'[f] = active /\ \A g \in Open : caller'[g] = caller[g]
  BY <1>1 DEF Open, TypeInv, TypeOK
<1>3. \A h : GarbageCallee(h) => GarbageCallee(h)'
  BY <1>2, ContentConstant DEF GarbageCallee
<1>4. \A h \in Files : Implementing(h)' => Implementing(h) /\ h # f
  BY <1>1, <1>2 DEF Implementing, TypeInv, TypeOK
<1>5. UnitsGrow
  BY BeginKnows DEF OutcomeInv
<1>6. SessionsAreKnown'
  <2>1. \A n \in Names : byName'[n] # NoFile => units'[n].known
    BY BeginKnows DEF OutcomeInv
  <2>2. ASSUME NEW g \in Files, phase'[g] # "unloaded", HasHeader(g)
        PROVE  byName'[src[g].name] # NoFile
    <3>1. src[g].name \in Names
      BY ContentFacts DEF TypeInv, TypeOK
    <3>2. g = f \/ phase[g] # "unloaded"
      BY <2>2, <1>1 DEF TypeInv, TypeOK
    <3>. QED BY <2>2, <3>1, <3>2, BeginKnows DEF OutcomeInv, SessionsAreKnown
  <2>. QED BY <2>1, <2>2, ContentConstant DEF SessionsAreKnown
<1>7. KindsOfPhases'
  BY <1>1, ContentConstant DEF OutcomeInv, KindsOfPhases, TypeInv, TypeOK
<1>8. ReadySettled' /\ CompleteSettled'
  BY <1>1, <1>5, SettledGrows, UsesAreNames, ContentConstant
  DEF OutcomeInv, ReadySettled, CompleteSettled, TypeInv, TypeOK
<1>9. ASSUME NEW h \in Files, h # f, NEW names \in SUBSET Names, Pursued(h, names)
      PROVE  Pursued(h, names)'
  BY <1>9, <1>3, <1>5, PursuedGrows
<1>10. FirstPursued'
  <2>1. SUFFICES ASSUME NEW h \in Open', ~hadError[h]
                 PROVE  Pursued(h, ElementsOf(FirstUses(h)))'
    BY ContentConstant DEF FirstPursued
  <2>2. CASE h = f
    BY <2>2, ContentConstant DEF Pursued
  <2>3. CASE h # f
    <3>1. h \in Open /\ h \in Files
      BY <2>3, <1>2 DEF Open
    <3>2. Pursued(h, ElementsOf(FirstUses(h)))
      BY <2>1, <3>1 DEF OutcomeInv, FirstPursued
    <3>. QED BY <2>3, <3>1, <3>2, <1>9, UsesAreNames, ContentConstant
  <2>. QED BY <2>2, <2>3
<1>11. LastPursued'
  <2>1. SUFFICES ASSUME NEW h \in Files, Implementing(h)', ~hadError[h]
                 PROVE  Pursued(h, ElementsOf(MUses(h)))'
    BY ContentConstant DEF LastPursued
  <2>2. Pursued(h, ElementsOf(MUses(h))) /\ h # f
    BY <2>1, <1>4 DEF OutcomeInv, LastPursued
  <2>. QED BY <2>2, <1>9, UsesAreNames, ContentConstant
<1>. QED BY <1>6, <1>7, <1>8, <1>10, <1>11 DEF OutcomeInv

(***************************************************************************)
(* A return from parse_recursive.                                          *)
(***************************************************************************)
LEMMA OutcomeReturn ==
  ASSUME TypeInv, StackInv, OutcomeInv, NEW f \in Files, NEW own \in Nat,
         phase[f] = "interface", Done(f), ReturnFromParse(f, own), UnitsGrow,
         Kind(f) = "garbage" => own = 1,
         NEW p, phase' = [phase EXCEPT ![f] = p],
         \/ Kind(f) = "unit" /\ p = "ready"
         \/ Kind(f) \in {"program", "body"} /\ p = "complete"
         \/ Kind(f) = "garbage" /\ p = "failed"
  PROVE  OutcomeInv'
<1>1. /\ UNCHANGED <<src, byName, caller, todo>> /\ active = f /\ active' = caller[f]
      /\ todo[f] = << >>
  BY DEF ReturnFromParse, Done
<1>2. ErrorsStay
  BY DEF ReturnFromParse, FailedNow, ErrorsStay, TypeInv, TypeOK
<1>3. /\ f \in Open /\ Open' = Open \ {f}
      /\ \A g \in Open : caller[g] # f
  BY <1>1 DEF Open, StackInv, CallersWait, TypeInv, TypeOK
<1>4. \A h \in Files : Implementing(h)' => Implementing(h) /\ h # f
  BY <1>1, <1>3 DEF Implementing, TypeInv, TypeOK
<1>5. ASSUME NEW h \in Files, ~hadError'[h], GarbageCallee(h)
      PROVE  GarbageCallee(h)'
  <2>1. PICK g \in Open : caller[g] = h /\ Kind(g) = "garbage"
    BY <1>5 DEF GarbageCallee
  <2>2. g # f
    <3>1. SUFFICES ASSUME g = f PROVE FALSE
      OBVIOUS
    <3>2. h = caller[f] /\ h # f /\ own = 1
      BY <2>1, <3>1, <1>3
    <3>3. NewErrors(f, own) # 0
      BY <3>2 DEF NewErrors, TypeInv, TypeOK, ErrorsGrow
    <3>. QED BY <3>2, <3>3, <1>5 DEF ReturnFromParse
  <2>. QED BY <2>1, <2>2, <1>1, <1>3, ContentConstant DEF GarbageCallee
<1>6. ~hadError[f] => AllSettled(ElementsOf(FirstUses(f)))
  <2>1. ~GarbageCallee(f) /\ ElementsOf(todo[f]) = {}
    BY <1>1, <1>3 DEF GarbageCallee, ElementsOf
  <2>. QED BY <2>1, <1>3 DEF OutcomeInv, FirstPursued, Pursued, AllSettled
<1>7. SessionsAreKnown'
  BY <1>1, ContentConstant
  DEF OutcomeInv, SessionsAreKnown, UnitsGrow, TypeInv, TypeOK
<1>8. KindsOfPhases'
  BY <1>1, ContentConstant DEF OutcomeInv, KindsOfPhases, TypeInv, TypeOK
<1>9. ReadySettled'
  <2>1. SUFFICES ASSUME NEW h \in Files, phase'[h] = "ready", ~hadError'[h]
                 PROVE  AllSettled(ElementsOf(IUses(h)))'
    BY <1>1, ContentConstant DEF ReadySettled
  <2>2. AllSettled(ElementsOf(IUses(h)))
    <3>1. CASE h = f
      BY <2>1, <3>1, <1>2, <1>6
      DEF ErrorsStay, FirstUses, IUses, TypeInv, TypeOK
    <3>2. CASE h # f
      BY <2>1, <3>2, <1>2 DEF ErrorsStay, OutcomeInv, ReadySettled, TypeInv, TypeOK
    <3>. QED BY <3>1, <3>2
  <2>. QED BY <2>2, SettledGrows, UsesAreNames, <1>1, ContentConstant
<1>10. CompleteSettled'
  <2>1. SUFFICES ASSUME NEW h \in Files, phase'[h] = "complete", ~hadError'[h]
                 PROVE  AllSettled(Imports(h))'
    BY <1>1, ContentConstant DEF CompleteSettled
  <2>2. AllSettled(Imports(h))
    <3>1. CASE h = f
      <4>1. Kind(f) \in {"program", "body"}
        BY <2>1, <3>1 DEF TypeInv, TypeOK
      <4>2. Imports(f) = ElementsOf(FirstUses(f))
        BY <4>1 DEF Imports, FirstUses, IUses, ElementsOf
      <4>. QED BY <2>1, <3>1, <4>2, <1>2, <1>6 DEF ErrorsStay
    <3>2. CASE h # f
      BY <2>1, <3>2, <1>2 DEF ErrorsStay, OutcomeInv, CompleteSettled, TypeInv, TypeOK
    <3>. QED BY <3>1, <3>2
  <2>. QED BY <2>2, SettledGrows, UsesAreNames, <1>1, ContentConstant
<1>11. ASSUME NEW h \in Files, NEW names \in SUBSET Names, ~hadError'[h],
              Pursued(h, names)
       PROVE  Pursued(h, names)'
  BY <1>11, <1>1, <1>5, PursuedGrows
<1>12. FirstPursued'
  <2>1. SUFFICES ASSUME NEW h \in Open', ~hadError'[h]
                 PROVE  Pursued(h, ElementsOf(FirstUses(h)))'
    BY DEF FirstPursued
  <2>2. h \in Files /\ Pursued(h, ElementsOf(FirstUses(h)))
    BY <2>1, <1>2, <1>3 DEF OutcomeInv, FirstPursued, ErrorsStay, Open
  <2>. QED BY <2>1, <2>2, <1>11, UsesAreNames, <1>1, ContentConstant
<1>13. LastPursued'
  <2>1. SUFFICES ASSUME NEW h \in Files, Implementing(h)', ~hadError'[h]
                 PROVE  Pursued(h, ElementsOf(MUses(h)))'
    BY DEF LastPursued
  <2>2. Pursued(h, ElementsOf(MUses(h)))
    BY <2>1, <1>2, <1>4 DEF OutcomeInv, LastPursued, ErrorsStay
  <2>. QED BY <2>1, <2>2, <1>11, UsesAreNames, <1>1, ContentConstant
<1>. QED BY <1>7, <1>8, <1>9, <1>10, <1>12, <1>13 DEF OutcomeInv

(***************************************************************************)
(* The implementation parts.                                               *)
(***************************************************************************)
LEMMA OutcomeStartImplementation ==
  ASSUME TypeInv, StackInv, OutcomeInv, NEW f \in Files, StartImplementation(f)
  PROVE  OutcomeInv'
<1>1. /\ phase[f] = "ready" /\ active = NoFile /\ active' = f
      /\ todo' = [todo EXCEPT ![f] = src[f].muses]
      /\ UNCHANGED <<src, phase, hadError, byName, units>>
  BY DEF StartImplementation
<1>2. Open = {} /\ Open' = {}
  BY <1>1, NothingBelow, NoFileAssumption DEF Open
<1>3. SessionsAreKnown' /\ KindsOfPhases' /\ FirstPursued'
  BY <1>1, <1>2, ContentConstant
  DEF OutcomeInv, SessionsAreKnown, KindsOfPhases, FirstPursued
<1>4. ReadySettled' /\ CompleteSettled'
  BY <1>1, ContentConstant
  DEF OutcomeInv, ReadySettled, CompleteSettled, AllSettled, Settled
<1>5. \A h \in Files : Implementing(h)' => h = f
  BY <1>1, <1>2 DEF Implementing
<1>6. MUses(f)' = todo'[f]
  BY <1>1 DEF OutcomeInv, KindsOfPhases, MUses, HasHeader, Kind, TypeInv, TypeOK
<1>7. LastPursued'
  BY <1>5, <1>6 DEF LastPursued, Pursued
<1>. QED BY <1>3, <1>4, <1>7 DEF OutcomeInv

LEMMA OutcomeFinishImplementation ==
  ASSUME TypeInv, StackInv, OutcomeInv, NEW f \in Files, FinishImplementation(f)
  PROVE  OutcomeInv'
<1>. DEFINE own == One(src[f].merr)
<1>1. /\ phase[f] = "ready" /\ active = f /\ active' = NoFile /\ todo[f] = << >>
      /\ phase' = [phase EXCEPT ![f] = "complete"]
      /\ hadError' = [hadError EXCEPT ![f] = FailedNow(f, own)]
      /\ UNCHANGED <<src, byName, caller, todo>>
  BY DEF FinishImplementation, Done
<1>2. Open = {} /\ Open' = {}
  BY <1>1, NothingBelow DEF Open, TypeInv, TypeOK
<1>3. UnitsGrow /\ ErrorsStay
  <2>1. Key(f) \in Keys
    BY ContentFacts DEF TypeInv, TypeOK
  <2>2. \/ units' = units
        \/ units' = [units EXCEPT ![Key(f)].ast = f,
                                  ![Key(f)].ok = CleanSoFar(f, own)]
    BY DEF FinishImplementation
  <2>3. UnitsGrow
    BY <2>1, <2>2, KeysContainNames DEF UnitsGrow, TypeInv, TypeOK, Unit
  <2>. QED BY <2>3, <1>1 DEF ErrorsStay, FailedNow, TypeInv, TypeOK
<1>4. ~hadError[f] => AllSettled(Imports(f))
  <2>1. Implementing(f) /\ ~GarbageCallee(f) /\ ElementsOf(todo[f]) = {}
    BY <1>1, <1>2 DEF Implementing, GarbageCallee, ElementsOf
  <2>. QED BY <1>1, <2>1
    DEF OutcomeInv, ReadySettled, LastPursued, Pursued, AllSettled, Imports
<1>5. SessionsAreKnown' /\ KindsOfPhases'
  BY <1>1, <1>3, ContentConstant
  DEF OutcomeInv, SessionsAreKnown, KindsOfPhases, UnitsGrow, TypeInv, TypeOK
<1>6. ReadySettled'
  BY <1>1, <1>3, SettledGrows, UsesAreNames, ContentConstant
  DEF OutcomeInv, ReadySettled, ErrorsStay, TypeInv, TypeOK
<1>7. CompleteSettled'
  <2>1. \A h \in Files : phase'[h] = "complete" => h = f \/ phase[h] = "complete"
    BY <1>1 DEF TypeInv, TypeOK
  <2>. QED BY <2>1, <1>1, <1>3, <1>4, SettledGrows, UsesAreNames, ContentConstant
    DEF OutcomeInv, CompleteSettled, ErrorsStay
<1>8. FirstPursued' /\ LastPursued'
  BY <1>1, <1>2, NoFileAssumption DEF FirstPursued, LastPursued, Implementing
<1>. QED BY <1>5, <1>6, <1>7, <1>8 DEF OutcomeInv

-----------------------------------------------------------------------------
LEMMA OutcomeImport ==
  ASSUME TypeInv, StackInv, OutcomeInv, WellNamed, ImportStep
  PROVE  OutcomeInv'
<1>1. Importing
  BY DEF ImportStep, ImportRuntime, ImportByName, ImportUnresolved, ImportByPath,
         ImportUnreadable, ImportNewFile, SearchesPath
<1>2. active \in Files /\ NextImport \in Names
  BY <1>1, ImportFacts DEF TypeInv
<1>3. Index[NextImport] # NoFile => Index[NextImport] \in Files
  BY <1>2, IndexAssumption DEF FileOrNone
<1>4. CASE ImportNewFile
  <2>0. PICK f : f = Index[NextImport]
    OBVIOUS
  <2>1. /\ f \in Files /\ OpenSession(f, active) /\ phase[f] = "unloaded"
        /\ todo' = [todo EXCEPT ![active] = Tail(todo[active]), ![f] = FirstUses(f)]
        /\ UNCHANGED <<src, hadError>>
    BY <2>0, <1>3, <1>4 DEF ImportNewFile, SearchesPath, OpenSession
  <2>2. active # f
    BY <2>1, NoFileAssumption DEF StackInv, ActiveRuns, Running
  <2>3. ASSUME NEW n, n = NextImport
        PROVE  Settled(n)' \/ \E g \in Open' : caller'[g] = active /\ Kind(g)' = "garbage"
    <3>1. CASE HasHeader(f)
      <4>1. src[f].name = n
        BY <3>1, <2>0, <2>1, <2>3, <1>2, NoFileAssumption DEF WellNamed
      <4>2. units'[src[f].name].known
        BY <3>1, <2>1, BeginKnows DEF OutcomeInv
      <4>. QED BY <4>1, <4>2 DEF Settled
    <3>2. CASE ~HasHeader(f)
      <4>1. Kind(f) = "garbage"
        BY <3>2, <2>0, <2>1, <1>2, ContentFacts, NoFileAssumption
        DEF WellNamed, HasHeader, OpenSession, TypeInv, TypeOK
      <4>2. phase'[f] = "interface" /\ caller'[f] = active
        BY <2>1 DEF OpenSession, TypeInv, TypeOK
      <4>. QED BY <4>1, <4>2, <2>1, ContentConstant DEF Open
    <3>. QED BY <3>1, <3>2
  <2>4. todo'[f] = FirstUses(f)
    BY <2>1, <2>2 DEF TypeInv, TypeOK
  <2>5. ASSUME NEW h \in Files \ {f}, NEW n \in ElementsOf(todo[h])
        PROVE  n \in ElementsOf(todo'[h]) \/ Settled(n)' \/ GarbageCallee(h)'
    <3>1. CASE h # active
      BY <2>1, <3>1, <2>2 DEF TypeInv, TypeOK
    <3>2. CASE h = active
      <4>1. todo'[active] = Tail(todo[active])
        BY <2>1, <2>2, <1>2 DEF TypeInv, TypeOK
      <4>2. n = NextImport \/ n \in ElementsOf(Tail(todo[active]))
        BY <3>2, <1>1, <1>2, ElementsOfTail DEF Importing, NextImport, TypeInv, TypeOK
      <4>3. CASE n = NextImport
        BY <3>2, <4>3, <2>3 DEF GarbageCallee
      <4>. QED BY <3>2, <4>1, <4>2, <4>3
    <3>. QED BY <3>1, <3>2
  <2>. QED BY <2>1, <2>4, <2>5, OutcomeOpen
<1>5. CASE ~ImportNewFile
  <2>1. /\ SkipImport /\ UNCHANGED <<src, phase, byName, units, active, caller>>
        /\ hadError' = hadError \/ FailActive
    BY <1>5 DEF ImportStep, ImportRuntime, ImportByName, ImportUnresolved,
                ImportByPath, ImportUnreadable, ImportSession, CallStackUnchanged
  <2>2. ErrorsStay /\ (FailActive => hadError'[active])
    BY <2>1, <1>2 DEF ErrorsStay, FailActive, TypeInv, TypeOK
  <2>3. hadError'[active] \/ Settled(NextImport)
    <3>1. CASE ImportRuntime
      BY <3>1 DEF ImportRuntime, Settled
    <3>2. CASE ImportByName
      BY <3>2, <1>2 DEF ImportByName, OutcomeInv, SessionsAreKnown, Settled
    <3>3. CASE ImportUnresolved \/ ImportUnreadable
      BY <3>3, <2>2 DEF ImportUnresolved, ImportUnreadable
    <3>4. CASE ImportByPath
      <4>. DEFINE f == Index[NextImport]
      <4>1. /\ f \in Files /\ f # NoFile /\ phase[f] # "unloaded"
            /\ byName[NextImport] = NoFile /\ ImportSession(f)
        BY <3>4, <1>3 DEF ImportByPath, SearchesPath
      <4>2. ~HasHeader(f) /\ Kind(f) # "body"
        BY <4>1, <1>2 DEF WellNamed, OutcomeInv, SessionsAreKnown
      <4>3. Kind(f) = "garbage"
        BY <4>1, <4>2, ContentFacts
        DEF OutcomeInv, KindsOfPhases, HasHeader, TypeInv, TypeOK
      <4>4. phase[f] \in {"interface", "failed"}
        BY <4>1, <4>3 DEF OutcomeInv, KindsOfPhases, TypeInv, TypeOK, Phases
      <4>5. FailActive
        BY <4>1, <4>4 DEF ImportSession
      <4>. QED BY <4>5, <2>2
    <3>. QED BY <3>1, <3>2, <3>3, <3>4, <1>5 DEF ImportStep
  <2>. QED BY <1>1, <2>1, <2>2, <2>3, OutcomeLook
<1>. QED BY <1>4, <1>5

LEMMA OutcomeStep ==
  ASSUME TypeInv, StackInv, OutcomeInv, WellNamed, [Next]_vars
  PROVE  OutcomeInv'
<1>1. CASE ParseEntry
  <2>1. /\ OpenSession(Entry, active) /\ Entry \in Files
        /\ todo' = [todo EXCEPT ![Entry] = FirstUses(Entry)]
        /\ UNCHANGED <<src, hadError>>
    BY <1>1, EntryAssumption DEF ParseEntry
  <2>. QED BY <2>1, OutcomeOpen DEF TypeInv, TypeOK
<1>2. CASE ImportStep
  BY <1>2, OutcomeImport
<1>3. ASSUME NEW f \in Files, FinishStep(f) PROVE OutcomeInv'
  <2>1. Key(f) \in Keys /\ One(src[f].ierr) \in Nat /\ One(src[f].merr) \in Nat
    <3>1. src \in [Files -> Content]
      BY DEF TypeInv, TypeOK
    <3>. QED BY <3>1, ContentFacts
  <2>2. UnitsGrow
    <3>1. PICK u : u.known /\ units' = [units EXCEPT ![Key(f)] = u]
      BY <1>3 DEF FinishStep, FinishInterface, FinishProgram, FinishGarbage
    <3>. QED BY <3>1, <2>1, KeysContainNames DEF UnitsGrow, TypeInv, TypeOK
  <2>3. CASE FinishInterface(f)
    BY <2>1, <2>2, <2>3, OutcomeReturn DEF FinishInterface
  <2>4. CASE FinishProgram(f)
    BY <2>1, <2>2, <2>4, OutcomeReturn DEF FinishProgram
  <2>5. CASE FinishGarbage(f)
    BY <2>1, <2>2, <2>5, OutcomeReturn DEF FinishGarbage
  <2>. QED BY <1>3, <2>3, <2>4, <2>5 DEF FinishStep
<1>4. ASSUME NEW f \in Files, StartImplementation(f) PROVE OutcomeInv'
  BY <1>4, OutcomeStartImplementation
<1>5. ASSUME NEW f \in Files, FinishImplementation(f) PROVE OutcomeInv'
  BY <1>5, OutcomeFinishImplementation
<1>6. CASE \/ EntryUnreadable \/ NothingPending \/ FinishDiscovery
           \/ (\E k \in Keys : Demote(k)) \/ UNCHANGED vars
  <2>1. UNCHANGED <<src, phase, hadError, byName, active, caller, todo>>
    BY <1>6 DEF EntryUnreadable, NothingPending, FinishDiscovery, Demote, vars
  <2>2. \A n \in Names : units'[n].known = units[n].known
    <3>1. units' = units \/ \E k \in Keys : units' = [units EXCEPT ![k].ok = FALSE]
      BY <1>6 DEF EntryUnreadable, NothingPending, FinishDiscovery, Demote, vars
    <3>2. units \in [Keys -> Unit]
      BY DEF TypeInv, TypeOK
    <3>3. ASSUME NEW k \in Keys, NEW n \in Keys
          PROVE  [units EXCEPT ![k].ok = FALSE][n].known = units[n].known
      BY <3>2 DEF Unit
    <3>. QED BY <3>1, <3>3, KeysContainNames
  <2>3. /\ Open' = Open
        /\ \A h : GarbageCallee(h)' = GarbageCallee(h) /\ Implementing(h)' = Implementing(h)
        /\ \A n \in Names : Settled(n)' = Settled(n)
    BY <2>1, <2>2 DEF Open, GarbageCallee, Implementing, Settled, Kind
  <2>4. SessionsAreKnown' /\ KindsOfPhases'
    BY <2>1, <2>2, ContentConstant DEF OutcomeInv, SessionsAreKnown, KindsOfPhases
  <2>5. ReadySettled' /\ CompleteSettled'
    BY <2>1, <2>3, UsesAreNames, ContentConstant
    DEF OutcomeInv, ReadySettled, CompleteSettled, AllSettled
  <2>6. FirstPursued' /\ LastPursued'
    BY <2>1, <2>3, UsesAreNames, ContentConstant
    DEF OutcomeInv, FirstPursued, LastPursued, Pursued, Open
  <2>. QED BY <2>4, <2>5, <2>6 DEF OutcomeInv
<1>. QED BY <1>1, <1>2, <1>3, <1>4, <1>5, <1>6 DEF Next

-----------------------------------------------------------------------------
\* The end of discovery is a fixed point, and nothing runs after it.
AtEnd == /\ stage \in {"propagate", "done"} => active = NoFile
         /\ stage = "done" => \A k \in Keys : ~DependencyFailed(k)

LEMMA AtEndStep == TypeInv /\ AtEnd /\ [Next]_vars => AtEnd'
<1>. SUFFICES ASSUME TypeInv, AtEnd, [Next]_vars PROVE AtEnd'
  OBVIOUS
<1>1. CASE stage \in {"propagate", "done"}
  <2>1. /\ ~ParseEntry /\ ~EntryUnreadable /\ ~ImportStep /\ ~NothingPending
        /\ \A f \in Files : /\ ~FinishStep(f) /\ ~StartImplementation(f)
                            /\ ~FinishImplementation(f)
    BY <1>1, NoFileAssumption
    DEF AtEnd, ParseEntry, EntryUnreadable, ImportStep, ImportRuntime, ImportByName,
        ImportUnresolved, ImportByPath, ImportUnreadable, ImportNewFile, SearchesPath,
        Importing, NothingPending, FinishStep, FinishInterface, FinishProgram,
        FinishGarbage, Done, StartImplementation, FinishImplementation
  <2>2. ASSUME NEW k \in Keys, Demote(k) PROVE AtEnd'
    BY <2>2, <1>1 DEF Demote, AtEnd
  <2>3. CASE FinishDiscovery
    BY <2>3, <1>1
    DEF FinishDiscovery, AtEnd, DependencyFailed, Imports, IUses, MUses, HasHeader, Kind
  <2>4. CASE UNCHANGED vars
    BY <2>4, <1>1
    DEF vars, AtEnd, DependencyFailed, Imports, IUses, MUses, HasHeader, Kind
  <2>. QED BY <2>1, <2>2, <2>3, <2>4 DEF Next
<1>2. CASE stage \notin {"propagate", "done"}
  <2>1. CASE NothingPending
    BY <2>1 DEF NothingPending, AtEnd
  <2>2. CASE ~NothingPending
    <3>1. stage' \notin {"propagate", "done"}
      BY <2>2, <1>2
      DEF Next, vars, ParseEntry, EntryUnreadable, ImportStep, ImportRuntime,
          ImportByName, ImportUnresolved, ImportByPath, ImportUnreadable,
          ImportNewFile, ImportSession, FinishStep, FinishInterface, FinishProgram,
          FinishGarbage, ReturnFromParse, StartImplementation, FinishImplementation,
          Demote, FinishDiscovery
    <3>. QED BY <3>1 DEF AtEnd
  <2>. QED BY <2>1, <2>2
<1>. QED BY <1>1, <1>2

\* When files are named after the units in them, then at the end of discovery
\* every unit that an ok unit uses has a runtime model or is ok itself:
\* whatever the order in which implementation parts were parsed, and however
\* the files use each other.
THEOREM OkUnitsUseOkUnitsCorrect == Spec => []OkUnitsUseOkUnits
<1>. DEFINE Inv == TypeInv /\ StackInv /\ AtEnd /\ (WellNamed => OutcomeInv)
<1>1. Init => Inv
  BY TypeInit, StackInit, OutcomeInit DEF AtEnd, Init
<1>2. Inv /\ [Next]_vars => Inv'
  <2>. SUFFICES ASSUME Inv, [Next]_vars PROVE Inv'
    OBVIOUS
  <2>1. UNCHANGED src
    BY DEF Next, vars, ParseEntry, EntryUnreadable, ImportStep, ImportRuntime,
           ImportByName, ImportUnresolved, ImportByPath, ImportUnreadable,
           ImportNewFile, ImportSession, FinishStep, FinishInterface, FinishProgram,
           FinishGarbage, ReturnFromParse, StartImplementation, FinishImplementation,
           NothingPending, Demote, FinishDiscovery
  <2>2. WellNamed' = WellNamed
    BY <2>1, ContentConstant
  <2>. QED BY <2>2, TypeStep, StackStep, AtEndStep, OutcomeStep
<1>3. Inv /\ OkIsClean => OkUnitsUseOkUnits
  <2>. SUFFICES ASSUME Inv, OkIsClean, WellNamed, stage = "done",
                       NEW k \in Keys, units[k].ok,
                       NEW n \in Imports(units[k].ast), n \notin Runtime
                PROVE  units[n].ok
    BY DEF OkUnitsUseOkUnits
  <2>. DEFINE f == units[k].ast
  <2>1. f \in Files /\ f # NoFile /\ phase[f] = "complete" /\ ~hadError[f]
    BY DEF OkIsClean, TypeInv, TypeOK, Unit, FileOrNone
  <2>2. units[n].known
    BY <2>1 DEF OutcomeInv, CompleteSettled, AllSettled, Settled
  <2>. QED BY <2>1, <2>2 DEF AtEnd, DependencyFailed
<1>. QED BY <1>1, <1>2, <1>3, OkIsCleanCorrect, PTL DEF Spec

(***************************************************************************)
(* The exit code.  Discovery adds up what its parses report, and the sum   *)
(* is the number of errors: the entry's parse counts everything under it,  *)
(* an implementation part everything since the last one.                   *)
(***************************************************************************)
NothingBefore == stage = "entry" =>
  /\ result = 0
  /\ active = NoFile => errors = 0 /\ \A f \in Files : phase[f] = "unloaded"
  /\ \A f \in Files : ~Implementing(f)
  /\ \A g \in Open : caller[g] = NoFile => errsBefore[g] = 0
CountsAgree == stage # "entry" /\ Kind(Entry) # "unreadable" =>
  /\ \A g \in Open : caller[g] # NoFile
  /\ active = NoFile => result = errors
  /\ \A f \in Files : Implementing(f) => errsBefore[f] = result

\* No session is left behind when the fixed point starts.
Over == stage \in {"propagate", "done"} =>
          \A f \in Files : phase[f] \notin {"interface", "ready"}

\* Nothing fails where nothing was reported.
Readable == \A f \in Files : Kind(f) # "unreadable"
CleanIsOk == Readable /\ errors = 0 =>
  /\ \A f \in Files : ~hadError[f]
  /\ \A f \in Files : phase[f] # "failed"
  /\ \A k \in Keys : units[k].known =>
       units[k].ok \/ \E f \in Files : Key(f) = k /\ phase[f] \in {"interface", "ready"}

CountInv == NothingBefore /\ CountsAgree /\ Over /\ CleanIsOk

LEMMA CountInit == Init => CountInv
BY DEF Init, CountInv, NothingBefore, CountsAgree, Over, CleanIsOk, Open, Implementing,
       NoUnit

LEMMA KeysConstant ==
  ASSUME UNCHANGED src
  PROVE  /\ \A f : Key(f)' = Key(f)
         /\ Readable' = Readable
BY DEF Key, HasHeader, Kind, Readable

(***************************************************************************)
(* What a call of parse_recursive and its return do to the call stack.     *)
(***************************************************************************)
LEMMA OpenFacts ==
  ASSUME TypeInv, NEW f \in Files, NEW from \in FileOrNone, OpenSession(f, from)
  PROVE  /\ f \notin Open /\ Open' = Open \cup {f}
         /\ \A h \in Files : h # f => /\ phase'[h] = phase[h] /\ caller'[h] = caller[h]
                                      /\ errsBefore'[h] = errsBefore[h]
         /\ phase[f] = "unloaded" /\ phase'[f] = "interface"
         /\ caller'[f] = from /\ active' = f /\ errsBefore'[f] = errors
BY DEF OpenSession, Open, TypeInv, TypeOK

LEMMA OpenBegins ==
  ASSUME TypeInv, NEW f \in Files, NEW from \in FileOrNone, OpenSession(f, from)
  PROVE  \A k \in Keys : /\ units[k].known => units'[k] = units[k]
                         /\ units'[k].known /\ ~units[k].known => k = Key(f)
                         /\ units'[k].ast = units[k].ast \/ units'[k].ast = NoFile
<1>1. CASE HasHeader(f)
  <2>. DEFINE n == src[f].name
              entry == [known |-> TRUE, path |-> f, ast |-> NoFile, ok |-> FALSE]
  <2>1. n \in Keys /\ n = Key(f) /\ entry.ast = NoFile
    BY <1>1, ContentFacts, KeysContainNames DEF TypeInv, TypeOK, Key
  <2>2. units' = IF units[n].known THEN units ELSE [units EXCEPT ![n] = entry]
    BY <1>1 DEF OpenSession, BeginCompilationUnit
  <2>. HIDE DEF entry, n
  <2>. QED BY <2>1, <2>2 DEF TypeInv, TypeOK
<1>2. CASE ~HasHeader(f)
  BY <1>2 DEF OpenSession, BeginCompilationUnit
<1>. QED BY <1>1, <1>2

LEMMA CallFacts ==
  ASSUME TypeInv, StackInv, NEW f \in Files, OpenSession(f, active)
  PROVE  \A h \in Files : Implementing(h)' => Implementing(h) /\ h # f
<1>1. active \in FileOrNone
  BY DEF TypeInv, TypeOK
<1>. QED BY <1>1, OpenFacts DEF Implementing, Open

LEMMA ReturnFacts ==
  ASSUME TypeInv, StackInv, NEW f \in Files, NEW own \in Nat,
         phase[f] = "interface", Done(f), ReturnFromParse(f, own),
         NEW p \in {"ready", "complete", "failed"},
         phase' = [phase EXCEPT ![f] = p]
  PROVE  /\ f \in Open /\ Open' = Open \ {f}
         /\ active = f /\ active' = caller[f] /\ caller[f] # f
         /\ \A h \in Files : Implementing(h)' => Implementing(h) /\ h # f
         /\ phase'[f] = p /\ \A h \in Files : h # f => phase'[h] = phase[h]
<1>1. /\ UNCHANGED caller /\ active = f /\ active' = caller[f]
  BY DEF ReturnFromParse, Done
<1>2. /\ phase'[f] = p /\ \A h \in Files : h # f => phase'[h] = phase[h]
  BY DEF TypeInv, TypeOK
<1>3. /\ f \in Open /\ Open' = Open \ {f}
      /\ \A g \in Open : caller[g] # f
  BY <1>1, <1>2 DEF Open, StackInv, CallersWait
<1>4. \A h \in Files : Implementing(h)' => Implementing(h) /\ h # f
  BY <1>1, <1>2, <1>3 DEF Implementing
<1>. QED BY <1>1, <1>2, <1>3, <1>4

(***************************************************************************)
(* The steps of discovery by what they do to the counts.                   *)
(***************************************************************************)
LEMMA CountOpen ==
  ASSUME TypeInv, StackInv, CountInv, NEW f \in Files, OpenSession(f, active),
         UNCHANGED <<src, hadError, errors, stage, result>>,
         stage \in {"propagate", "done"} => active # NoFile,
         AtEnd,
         active = NoFile => stage = "entry"
  PROVE  CountInv'
<1>0. active \in FileOrNone
  BY DEF TypeInv, TypeOK
<1>a. f # NoFile
  BY NoFileAssumption
<1>1. NothingBefore'
  BY <1>0, <1>a, OpenFacts, CallFacts DEF CountInv, NothingBefore, Open
<1>2. CountsAgree'
  BY <1>0, <1>a, OpenFacts, CallFacts, ContentConstant
  DEF CountInv, CountsAgree, NothingBefore, Open
<1>3. Over'
  BY DEF Over, AtEnd
<1>4. CleanIsOk'
  <2>1. SUFFICES ASSUME Readable, errors = 0
                 PROVE  /\ \A g \in Files : ~hadError[g]
                        /\ \A g \in Files : phase'[g] # "failed"
                        /\ \A k \in Keys : units'[k].known =>
                             units'[k].ok \/ \E g \in Files : Key(g) = k /\ phase'[g] \in {"interface", "ready"}
    BY KeysConstant DEF CleanIsOk
  <2>2. \A g \in Files : phase'[g] # "failed"
    BY <1>0, <2>1, OpenFacts DEF CountInv, CleanIsOk
  <2>3. ASSUME NEW k \in Keys, units'[k].known
        PROVE  units'[k].ok \/ \E g \in Files : Key(g) = k /\ phase'[g] \in {"interface", "ready"}
    <3>1. CASE ~units[k].known
      BY <3>1, <2>3, <1>0, OpenBegins, OpenFacts
    <3>2. CASE units[k].known
      <4>1. units'[k] = units[k]
        BY <3>2, <1>0, OpenBegins
      <4>2. \A g \in Files : phase[g] \in {"interface", "ready"} => phase'[g] \in {"interface", "ready"}
        BY <1>0, OpenFacts
      <4>. QED BY <4>1, <4>2, <3>2, <2>1 DEF CountInv, CleanIsOk
    <3>. QED BY <3>1, <3>2
  <2>. QED BY <2>1, <2>2, <2>3 DEF CountInv, CleanIsOk
<1>. QED BY <1>1, <1>2, <1>3, <1>4 DEF CountInv

\* import_units has dealt with one name and called nobody.
LEMMA CountLook ==
  ASSUME TypeInv, StackInv, CountInv, ImportStep, ~ImportNewFile
  PROVE  CountInv'
<1>1. Importing
  BY DEF ImportStep, ImportRuntime, ImportByName, ImportUnresolved, ImportByPath,
         ImportUnreadable, ImportNewFile, SearchesPath
<1>2. active \in Files /\ active # NoFile /\ NextImport \in Names
  BY <1>1, ImportFacts DEF TypeInv, Importing
<1>3. /\ UNCHANGED <<src, phase, byName, units, stage, result, active, caller, errsBefore>>
  BY DEF ImportStep, ImportRuntime, ImportByName, ImportUnresolved,
         ImportByPath, ImportUnreadable, ImportSession, CallStackUnchanged
<1>4. Open' = Open /\ \A h : Implementing(h)' = Implementing(h)
  BY <1>3 DEF Open, Implementing
<1>5. NothingBefore'
  BY <1>2, <1>3, <1>4 DEF CountInv, NothingBefore
<1>6. CountsAgree'
  BY <1>2, <1>3, <1>4, ContentConstant DEF CountInv, CountsAgree
<1>7. Over'
  BY <1>3 DEF CountInv, Over
<1>8. CleanIsOk'
  <2>1. SUFFICES ASSUME Readable, errors' = 0
                 PROVE  errors = 0 /\ hadError' = hadError
    BY <1>3, KeysConstant DEF CountInv, CleanIsOk
  <2>2. errors = 0
    BY <2>1 DEF ImportStep, ImportRuntime, ImportByName, ImportUnresolved, ImportByPath,
         ImportUnreadable, ImportSession, ReportErrors, TypeInv, TypeOK
  <2>3. /\ \A g \in Files : ~hadError[g] /\ phase[g] # "failed"
    BY <2>1, <2>2 DEF CountInv, CleanIsOk
  <2>4. CASE ImportRuntime
    BY <2>4, <2>2 DEF ImportRuntime
  <2>5. CASE ImportUnresolved
    BY <2>5, <2>1, <2>2 DEF ImportUnresolved, ReportErrors
  <2>6. CASE ImportUnreadable
    BY <2>6, <2>1, <1>2, IndexAssumption DEF ImportUnreadable, Readable, FileOrNone
  <2>7. ASSUME NEW g \in Files, ImportSession(g) PROVE errors = 0 /\ hadError' = hadError
    BY <2>7, <2>1, <2>2, <2>3 DEF ImportSession, ReportErrors
  <2>8. CASE ImportByName
    <3>1. byName[NextImport] \in Files
      BY <2>8, <1>2 DEF ImportByName, TypeInv, TypeOK, FileOrNone
    <3>. QED BY <3>1, <2>7, <2>8 DEF ImportByName
  <2>9. CASE ImportByPath
    <3>1. Index[NextImport] \in Files
      BY <2>9, <1>2, IndexAssumption DEF ImportByPath, FileOrNone
    <3>. QED BY <3>1, <2>7, <2>9 DEF ImportByPath
  <2>. QED BY <2>4, <2>5, <2>6, <2>8, <2>9 DEF ImportStep
<1>. QED BY <1>5, <1>6, <1>7, <1>8 DEF CountInv

LEMMA CountReturn ==
  ASSUME TypeInv, StackInv, CountInv, AtEnd, NEW f \in Files, NEW own \in Nat,
         phase[f] = "interface", Done(f), ReturnFromParse(f, own), ReportErrors(own),
         NEW p \in {"ready", "complete", "failed"},
         phase' = [phase EXCEPT ![f] = p],
         p = "failed" => own # 0,
         NEW u, units' = [units EXCEPT ![Key(f)] = u],
         u.ok \/ p = "ready" \/ FailedNow(f, own)
  PROVE  CountInv'
<1>1. /\ UNCHANGED <<src, caller, errsBefore>>
      /\ caller[f] = NoFile => stage' = "pending" /\ result' = NewErrors(f, own)
      /\ caller[f] # NoFile => UNCHANGED <<stage, result>>
      /\ errors' = errors + own /\ f # NoFile
  BY NoFileAssumption DEF ReturnFromParse, ReportErrors
<1>2. errors \in Nat /\ errsBefore[f] \in Nat /\ errsBefore[f] <= errors
  BY DEF TypeInv, TypeOK, ErrorsGrow
<1>3. /\ f \in Open /\ Open' = Open \ {f} /\ Open \subseteq Files
      /\ active = f /\ active' = caller[f]
      /\ \A h \in Files : Implementing(h)' => Implementing(h) /\ h # f
  BY ReturnFacts DEF Open
<1>4. stage \notin {"propagate", "done"}
  BY <1>1, <1>3 DEF AtEnd
<1>5. CleanIsOk'
  <2>1. SUFFICES ASSUME Readable, errors' = 0
                 PROVE  /\ \A g \in Files : ~hadError'[g]
                        /\ \A g \in Files : phase'[g] # "failed"
                        /\ \A k \in Keys : units'[k].known =>
                             units'[k].ok \/ \E g \in Files : Key(g) = k /\ phase'[g] \in {"interface", "ready"}
    BY <1>1, KeysConstant DEF CleanIsOk
  <2>2. errors = 0 /\ own = 0 /\ errsBefore[f] = 0
    BY <2>1, <1>1, <1>2
  <2>3. ~FailedNow(f, own) /\ NewErrors(f, own) = 0
    BY <2>1, <2>2 DEF CountInv, CleanIsOk, FailedNow, NewErrors
  <2>4. \A g \in Files : ~hadError'[g]
    BY <2>1, <2>2, <2>3 DEF CountInv, CleanIsOk, ReturnFromParse
  <2>5. /\ p # "failed" /\ phase'[f] = p
        /\ \A g \in Files : g # f => phase'[g] = phase[g]
    BY <2>2, ReturnFacts
  <2>6. ASSUME NEW k \in Keys, units'[k].known
        PROVE  units'[k].ok \/ \E g \in Files : Key(g) = k /\ phase'[g] \in {"interface", "ready"}
    <3>1. CASE k = Key(f)
      <4>1. units'[k] = u
        BY <3>1 DEF TypeInv, TypeOK
      <4>2. u.ok \/ p = "ready"
        BY <2>3
      <4>. QED BY <4>1, <4>2, <2>5, <3>1
    <3>2. CASE k # Key(f)
      <4>1. units'[k] = units[k]
        BY <3>2 DEF TypeInv, TypeOK
      <4>2. units[k].ok \/ \E g \in Files : Key(g) = k /\ phase[g] \in {"interface", "ready"}
        BY <4>1, <2>6, <2>1, <2>2 DEF CountInv, CleanIsOk
      <4>. QED BY <4>1, <4>2, <2>5, <3>2
    <3>. QED BY <3>1, <3>2
  <2>7. \A g \in Files : phase'[g] # "failed"
    BY <2>1, <2>2, <2>5 DEF CountInv, CleanIsOk
  <2>. QED BY <2>4, <2>6, <2>7
<1>6. CASE caller[f] = NoFile
  <2>1. stage' = "pending" /\ active' = NoFile
    BY <1>1, <1>3, <1>6
  <2>2. NothingBefore' /\ Over'
    BY <2>1 DEF NothingBefore, Over
  <2>3. ASSUME Kind(Entry) # "unreadable" PROVE CountsAgree'
    <3>1. stage = "entry"
      BY <2>3, <1>3, <1>4, <1>6 DEF CountInv, CountsAgree, TypeInv, TypeOK
    <3>2. errsBefore[f] = 0 /\ \A h \in Files : ~Implementing(h)
      BY <3>1, <1>3, <1>6 DEF CountInv, NothingBefore
    <3>3. result' = errors'
      BY <3>2, <1>1, <1>2, <1>6 DEF NewErrors
    <3>4. \A g \in Open' : caller'[g] # NoFile
      BY <1>1, <1>3, <1>6 DEF StackInv, OneCallee
    <3>. QED BY <3>2, <3>3, <3>4, <1>3 DEF CountsAgree
  <2>4. CountsAgree'
    BY <2>3, <1>1, ContentConstant DEF CountsAgree
  <2>. QED BY <2>2, <2>4, <1>5 DEF CountInv
<1>7. CASE caller[f] # NoFile
  <2>1. active' # NoFile /\ UNCHANGED <<stage, result>>
    BY <1>1, <1>3, <1>7
  <2>2. NothingBefore'
    BY <2>1, <1>1, <1>3 DEF CountInv, NothingBefore
  <2>3. CountsAgree'
    BY <2>1, <1>1, <1>3, ContentConstant DEF CountInv, CountsAgree
  <2>4. Over'
    BY <2>1, <1>4 DEF Over
  <2>. QED BY <2>2, <2>3, <2>4, <1>5 DEF CountInv
<1>. QED BY <1>6, <1>7

LEMMA CountStartImplementation ==
  ASSUME TypeInv, StackInv, CountInv, NEW f \in Files, StartImplementation(f)
  PROVE  CountInv'
<1>1. /\ stage = "pending" /\ phase[f] = "ready" /\ active = NoFile /\ active' = f
      /\ UNCHANGED <<src, phase, hadError, units, errors, stage, result>>
      /\ errsBefore'[f] = errors
  BY DEF StartImplementation, TypeInv, TypeOK
<1>2. Open = {} /\ Open' = {} /\ f # NoFile
  BY <1>1, NothingBelow, NoFileAssumption DEF Open
<1>3. \A h \in Files : Implementing(h)' => h = f
  BY <1>1, <1>2 DEF Implementing
<1>4. NothingBefore' /\ Over'
  BY <1>1 DEF NothingBefore, Over
<1>5. CountsAgree'
  BY <1>1, <1>2, <1>3, ContentConstant DEF CountInv, CountsAgree
<1>6. CleanIsOk'
  BY <1>1, KeysConstant DEF CountInv, CleanIsOk
<1>. QED BY <1>4, <1>5, <1>6 DEF CountInv

LEMMA CountFinishImplementation ==
  ASSUME TypeInv, StackInv, CountInv, AtEnd, NEW f \in Files, FinishImplementation(f)
  PROVE  CountInv'
<1>. DEFINE own == One(src[f].merr)
<1>1. /\ phase[f] = "ready" /\ active = f /\ active' = NoFile /\ f # NoFile
      /\ phase' = [phase EXCEPT ![f] = "complete"]
      /\ hadError' = [hadError EXCEPT ![f] = FailedNow(f, own)]
      /\ errors' = errors + own /\ result' = result + NewErrors(f, own)
      /\ UNCHANGED <<src, caller, stage, errsBefore>>
  BY NoFileAssumption DEF FinishImplementation, Done, ReportErrors
<1>2. Open = {} /\ Open' = {}
  BY <1>1, NothingBelow DEF Open, TypeInv, TypeOK
<1>3. /\ errors \in Nat /\ errsBefore[f] \in Nat /\ errsBefore[f] <= errors
      /\ own \in Nat /\ result \in Nat
  <2>1. src \in [Files -> Content]
    BY DEF TypeInv, TypeOK
  <2>2. One(src[f].merr) \in Nat
    BY <2>1, ContentFacts
  <2>. QED BY <2>2 DEF TypeInv, TypeOK, ErrorsGrow
<1>4. Implementing(f) /\ \A h \in Files : ~Implementing(h)'
  BY <1>1, <1>2, NoFileAssumption DEF Implementing
<1>5. stage = "pending"
  BY <1>1, <1>4 DEF AtEnd, CountInv, NothingBefore, TypeInv, TypeOK
<1>6. NothingBefore' /\ Over'
  BY <1>1, <1>5 DEF NothingBefore, Over
<1>7. CountsAgree'
  <2>1. SUFFICES ASSUME Kind(Entry) # "unreadable" PROVE result' = errors'
    BY <1>1, <1>2, <1>4, ContentConstant DEF CountsAgree
  <2>2. errsBefore[f] = result
    BY <2>1, <1>4, <1>5 DEF CountInv, CountsAgree
  <2>. QED BY <2>2, <1>1, <1>3 DEF NewErrors
<1>8. CleanIsOk'
  <2>1. SUFFICES ASSUME Readable, errors' = 0
                 PROVE  /\ \A g \in Files : ~hadError'[g]
                        /\ \A g \in Files : phase'[g] # "failed"
                        /\ \A k \in Keys : units'[k].known =>
                             units'[k].ok \/ \E g \in Files : Key(g) = k /\ phase'[g] \in {"interface", "ready"}
    BY <1>1, KeysConstant DEF CleanIsOk
  <2>2. errors = 0 /\ own = 0 /\ errsBefore[f] = 0
    BY <2>1, <1>1, <1>3
  <2>3. ~FailedNow(f, own)
    BY <2>1, <2>2 DEF CountInv, CleanIsOk, FailedNow
  <2>4. /\ \A g \in Files : ~hadError'[g]
        /\ \A g \in Files : phase'[g] # "failed"
    BY <2>1, <2>2, <2>3, <1>1 DEF CountInv, CleanIsOk, TypeInv, TypeOK
  <2>5. ASSUME NEW k \in Keys, units'[k].known
        PROVE  units'[k].ok \/ \E g \in Files : Key(g) = k /\ phase'[g] \in {"interface", "ready"}
    <3>0. Key(f) \in Keys /\ units[Key(f)] \in Unit
      BY ContentFacts DEF TypeInv, TypeOK
    <3>1. CASE k = Key(f)
      <4>1. units' = IF units[Key(f)].known
                     THEN [units EXCEPT ![Key(f)].ast = f,
                                        ![Key(f)].ok = CleanSoFar(f, own)]
                     ELSE units
        BY DEF FinishImplementation
      <4>2. CleanSoFar(f, own)
        BY <2>3 DEF CleanSoFar
      <4>3. CASE units[Key(f)].known
        BY <4>1, <4>2, <4>3, <3>0, <3>1 DEF TypeInv, TypeOK, Unit
      <4>4. CASE ~units[Key(f)].known
        BY <4>1, <4>4, <3>1, <2>5
      <4>. QED BY <4>3, <4>4
    <3>2. CASE k # Key(f)
      <4>1. units'[k] = units[k]
        BY <3>2 DEF FinishImplementation, TypeInv, TypeOK
      <4>2. units[k].ok \/ \E g \in Files : Key(g) = k /\ phase[g] \in {"interface", "ready"}
        BY <4>1, <2>5, <2>1, <2>2 DEF CountInv, CleanIsOk
      <4>. QED BY <4>1, <4>2, <1>1, <3>2 DEF TypeInv, TypeOK
    <3>. QED BY <3>1, <3>2
  <2>. QED BY <2>4, <2>5
<1>. QED BY <1>6, <1>7, <1>8 DEF CountInv

LEMMA CountStep ==
  ASSUME TypeInv, StackInv, CountInv, AtEnd, [Next]_vars
  PROVE  CountInv'
<1>1. CASE ParseEntry
  <2>1. /\ OpenSession(Entry, active) /\ Entry \in Files /\ stage = "entry"
        /\ UNCHANGED <<src, hadError, errors, stage, result>>
    BY <1>1, EntryAssumption DEF ParseEntry
  <2>. QED BY <2>1, CountOpen
<1>2. CASE ImportNewFile
  <2>0. PICK f : f = Index[NextImport]
    OBVIOUS
  <2>1. Importing
    BY <1>2 DEF ImportNewFile, SearchesPath
  <2>2. f \in Files /\ OpenSession(f, active) /\ active # NoFile
    BY <2>0, <2>1, <1>2, ImportFacts, IndexAssumption
    DEF ImportNewFile, FileOrNone, TypeInv, Importing
  <2>3. UNCHANGED <<src, hadError, errors, stage, result>>
    BY <1>2 DEF ImportNewFile
  <2>. QED BY <2>2, <2>3, CountOpen
<1>3. CASE ImportStep /\ ~ImportNewFile
  BY <1>3, CountLook
<1>4. ASSUME NEW f \in Files, FinishStep(f) PROVE CountInv'
  <2>1. One(src[f].ierr) \in Nat /\ One(src[f].merr) \in Nat
    <3>1. src \in [Files -> Content]
      BY DEF TypeInv, TypeOK
    <3>. QED BY <3>1, ContentFacts
  <2>2. CASE FinishInterface(f)
    BY <2>1, <2>2, CountReturn DEF FinishInterface
  <2>3. CASE FinishProgram(f)
    <3>. DEFINE own == One(src[f].merr)
    <3>1. PICK u : u = [known |-> TRUE, path |-> f, ast |-> f, ok |-> CleanSoFar(f, own)]
      OBVIOUS
    <3>2. /\ units' = [units EXCEPT ![Key(f)] = u] /\ ReportErrors(own)
          /\ ReturnFromParse(f, own) /\ phase' = [phase EXCEPT ![f] = "complete"]
          /\ phase[f] = "interface" /\ Done(f)
      BY <3>1, <2>3 DEF FinishProgram
    <3>3. u.ok \/ FailedNow(f, own)
      BY <3>1 DEF CleanSoFar
    <3>. QED BY <3>2, <3>3, <2>1, CountReturn
  <2>4. CASE FinishGarbage(f)
    <3>1. PICK own \in Nat : own = 1
      OBVIOUS
    <3>2. PICK u : u = [known |-> TRUE, path |-> f, ast |-> NoFile, ok |-> FALSE]
      OBVIOUS
    <3>3. /\ units' = [units EXCEPT ![Key(f)] = u] /\ ReportErrors(own)
          /\ ReturnFromParse(f, own) /\ phase' = [phase EXCEPT ![f] = "failed"]
          /\ phase[f] = "interface" /\ Done(f)
      BY <3>1, <3>2, <2>4 DEF FinishGarbage
    <3>4. FailedNow(f, own) /\ own # 0
      BY <3>1 DEF FailedNow, TypeInv, TypeOK, ErrorsGrow
    <3>. QED BY <3>3, <3>4, CountReturn
  <2>. QED BY <1>4, <2>2, <2>3, <2>4 DEF FinishStep
<1>5. ASSUME NEW f \in Files, StartImplementation(f) PROVE CountInv'
  BY <1>5, CountStartImplementation
<1>6. ASSUME NEW f \in Files, FinishImplementation(f) PROVE CountInv'
  BY <1>6, CountFinishImplementation
<1>7. CASE EntryUnreadable
  <2>1. /\ stage = "entry" /\ Kind(Entry) = "unreadable" /\ stage' = "pending" /\ src' = src
    BY <1>7 DEF EntryUnreadable
  <2>2. CountsAgree' /\ NothingBefore' /\ Over'
    BY <2>1, ContentConstant DEF CountsAgree, NothingBefore, Over
  <2>3. CleanIsOk'
    BY <2>1, KeysConstant, EntryAssumption DEF CleanIsOk, Readable
  <2>. QED BY <2>2, <2>3 DEF CountInv
<1>8. CASE NothingPending
  <2>1. /\ stage = "pending" /\ active = NoFile /\ stage' = "propagate"
        /\ \A f \in Files : phase[f] # "ready"
        /\ UNCHANGED <<src, phase, hadError, units, errors, active, caller,
                       errsBefore, result>>
    BY <1>8 DEF NothingPending
  <2>2. Open = {} /\ Open' = Open
    BY <2>1, NothingBelow, NoFileAssumption DEF Open
  <2>3. \A f : Implementing(f)' = Implementing(f)
    BY <2>1, <2>2 DEF Implementing
  <2>4. NothingBefore' /\ Over'
    BY <2>1, <2>2 DEF NothingBefore, Over, Open
  <2>5. CountsAgree' /\ CleanIsOk'
    BY <2>1, <2>2, <2>3, KeysConstant, ContentConstant
    DEF CountInv, CountsAgree, CleanIsOk
  <2>. QED BY <2>4, <2>5 DEF CountInv
<1>9. CASE FinishDiscovery \/ (\E k \in Keys : Demote(k)) \/ UNCHANGED vars
  <2>1. /\ UNCHANGED <<src, phase, hadError, errors, active, caller, errsBefore, result>>
        /\ \/ stage' = stage
           \/ stage = "propagate" /\ stage' = "done"
    BY <1>9 DEF FinishDiscovery, Demote, vars
  <2>2. Open' = Open /\ \A f : Implementing(f)' = Implementing(f)
    BY <2>1 DEF Open, Implementing
  <2>3. NothingBefore' /\ Over' /\ CountsAgree'
    BY <2>1, <2>2, ContentConstant DEF CountInv, NothingBefore, Over, CountsAgree
  <2>4. CleanIsOk'
    <3>1. SUFFICES ASSUME Readable, errors = 0 PROVE units' = units
      BY <2>1, KeysConstant DEF CountInv, CleanIsOk
    <3>2. \A k \in Keys : ~Demote(k)
      <4>1. SUFFICES ASSUME NEW k \in Keys, Demote(k) PROVE FALSE
        OBVIOUS
      <4>2. stage = "propagate" /\ units[k].ast \in Files
        BY <4>1 DEF Demote, DependencyFailed, TypeInv, TypeOK, Unit, FileOrNone
      <4>3. PICK n \in Imports(units[k].ast) : units[n].known /\ ~units[n].ok
        BY <4>1 DEF Demote, DependencyFailed
      <4>4. n \in Keys
        BY <4>2, <4>3, UsesAreNames, KeysContainNames
      <4>. QED BY <4>2, <4>3, <4>4, <3>1 DEF CountInv, CleanIsOk, Over
    <3>. QED BY <3>2, <1>9 DEF FinishDiscovery, vars
  <2>. QED BY <2>3, <2>4 DEF CountInv
<1>. QED BY <1>1, <1>2, <1>3, <1>4, <1>5, <1>6, <1>7, <1>8, <1>9 DEF Next

(***************************************************************************)
(* Whatever is reported stays attributed to a session, and the entry that  *)
(* units_ keeps for its name tells.  This needs files that are named after *)
(* what is in them.                                                        *)
(***************************************************************************)
Loaded(f) == phase[f] # "unloaded"

\* A file without a header can only be the entry, unless it is garbage.
EntryLeads ==
  /\ \A g \in Open : g # Entry => caller[g] \in Files /\ HasHeader(caller[g])
  /\ \A f \in Files : Loaded(f) /\ f # Entry => HasHeader(Entry) /\ Kind(f) # "body"
\* No file comes in under the name of another one.
NamesAreApart ==
  \A f, g \in Files :
    Loaded(f) /\ Loaded(g) /\ HasHeader(f) /\ HasHeader(g) /\ Key(f) = Key(g) => f = g
TreesAreTheirs ==
  \A k \in Keys : units[k].ast # NoFile =>
    Key(units[k].ast) = k /\ Loaded(units[k].ast)
FinishedAreKnown ==
  \A f \in Files : phase[f] \in {"ready", "complete", "failed"} => units[Key(f)].known
\* Some session that has a header, or is the entry, answers for an error.
Answers(f) == hadError[f] /\ (HasHeader(f) \/ f = Entry)
ErrorsAreKept ==
  /\ \A f \in Files : hadError[f] => Loaded(f)
  /\ errors # 0 => \E f \in Files : Answers(f)

KeptInv == /\ EntryLeads
           /\ NamesAreApart
           /\ TreesAreTheirs
           /\ FinishedAreKnown
           /\ ErrorsAreKept

LEMMA KeptInit == Init => KeptInv
BY DEF Init, KeptInv, EntryLeads, NamesAreApart, TreesAreTheirs, FinishedAreKnown,
       ErrorsAreKept, Loaded, Open, NoUnit

\* Only a file with a header has names to import.
LEMMA ImportersHaveHeaders ==
  ASSUME TypeInv, StackInv, KindsOfPhases, Importing
  PROVE  HasHeader(active)
<1>1. active \in Files /\ todo[active] \in Seq(Names) /\ todo[active] # << >>
  BY ImportFacts DEF Importing, TypeInv, TypeOK
<1>2. CASE phase[active] = "ready"
  BY <1>1, <1>2 DEF KindsOfPhases, HasHeader
<1>3. CASE phase[active] = "interface"
  <2>1. Head(todo[active]) \in ElementsOf(FirstUses(active))
    BY <1>1, <1>3, ElementsOfTail DEF StackInv, TodoFromUses, Open
  <2>. QED BY <2>1 DEF FirstUses, MUses, HasHeader, ElementsOf
<1>. QED BY <1>1, <1>2, <1>3 DEF StackInv, ActiveRuns, Running, Importing

LEMMA KeptOpen ==
  ASSUME TypeInv, StackInv, KeptInv, SessionsAreKnown, NEW f \in Files,
         OpenSession(f, active),
         UNCHANGED <<src, hadError, errors>>,
         \/ f = Entry /\ \A g \in Files : phase[g] = "unloaded"
         \/ /\ active \in Files /\ HasHeader(active) /\ Kind(f) # "body"
            /\ HasHeader(f) => byName[src[f].name] = NoFile
  PROVE  KeptInv'
<1>0. active \in FileOrNone
  BY DEF TypeInv, TypeOK
<1>1. /\ Open' = Open \cup {f} /\ Open \subseteq Files /\ f \notin Open
      /\ caller'[f] = active /\ \A g \in Open : caller'[g] = caller[g]
      /\ \A g \in Files : Loaded(g)' <=> Loaded(g) \/ g = f
      /\ \A g \in Files : phase'[g] \in {"ready", "complete", "failed"} =>
           phase[g] \in {"ready", "complete", "failed"}
      /\ ~Loaded(f)
  BY <1>0, OpenFacts DEF Open, Loaded
<1>2. /\ \A g : Kind(g)' = Kind(g) /\ HasHeader(g)' = HasHeader(g) /\ Key(g)' = Key(g)
  BY ContentConstant, KeysConstant
<1>3. EntryLeads'
  <2>1. ASSUME active \in Files, HasHeader(active)
        PROVE  HasHeader(Entry)
    <3>1. Loaded(active)
      BY <2>1, NoFileAssumption DEF StackInv, ActiveRuns, Running, Loaded
    <3>. QED BY <2>1, <3>1 DEF KeptInv, EntryLeads
  <2>2. \A g \in Open' : g # Entry => caller'[g] \in Files /\ HasHeader(caller'[g])
    BY <1>1 DEF KeptInv, EntryLeads, Open
  <2>3. \A g \in Files : Loaded(g)' /\ g # Entry => HasHeader(Entry) /\ Kind(g) # "body"
    BY <2>1, <1>1 DEF KeptInv, EntryLeads, Loaded
  <2>. QED BY <2>2, <2>3, <1>2 DEF EntryLeads
<1>4. NamesAreApart'
  <2>1. ASSUME NEW g \in Files, Loaded(g), HasHeader(f), HasHeader(g), Key(f) = Key(g)
        PROVE  FALSE
    <3>1. byName[src[g].name] # NoFile
      BY <2>1 DEF SessionsAreKnown, Loaded
    <3>. QED BY <2>1, <3>1 DEF Key, Loaded
  <2>. QED BY <2>1, <1>1, <1>2 DEF KeptInv, NamesAreApart
<1>5. TreesAreTheirs'
  BY <1>0, <1>1, <1>2, OpenBegins DEF KeptInv, TreesAreTheirs, TypeInv, TypeOK, Unit, FileOrNone
<1>6. FinishedAreKnown'
  <2>1. src \in [Files -> Content]
    BY DEF TypeInv, TypeOK
  <2>. QED BY <2>1, <1>0, <1>1, <1>2, OpenBegins, ContentFacts DEF KeptInv, FinishedAreKnown
<1>7. ErrorsAreKept'
  BY <1>1, <1>2 DEF KeptInv, ErrorsAreKept, Answers
<1>. QED BY <1>3, <1>4, <1>5, <1>6, <1>7 DEF KeptInv

\* Steps that leave the sessions as they are, but for new errors.
LEMMA KeptStays ==
  ASSUME TypeInv, KeptInv, UNCHANGED <<src, phase, caller>>,
         \A k \in Keys : /\ units[k].known => units'[k].known
                         /\ units'[k].ast = units[k].ast,
         ErrorsStay, \A g \in Files : hadError'[g] => Loaded(g),
         errors' # errors => \E f \in Files : Answers(f)'
  PROVE  KeptInv'
<1>1. Open' = Open /\ \A g : Loaded(g)' = Loaded(g)
  BY DEF Open, Loaded
<1>2. /\ \A g : Kind(g)' = Kind(g) /\ HasHeader(g)' = HasHeader(g) /\ Key(g)' = Key(g)
  BY ContentConstant, KeysConstant
<1>3. EntryLeads' /\ NamesAreApart'
  BY <1>1, <1>2 DEF KeptInv, EntryLeads, NamesAreApart
<1>4. TreesAreTheirs'
  BY <1>1, <1>2 DEF KeptInv, TreesAreTheirs
<1>5. FinishedAreKnown'
  <2>1. src \in [Files -> Content]
    BY DEF TypeInv, TypeOK
  <2>. QED BY <2>1, <1>2, ContentFacts DEF KeptInv, FinishedAreKnown
<1>6. ErrorsAreKept'
  BY <1>1, <1>2 DEF KeptInv, ErrorsAreKept, Answers, ErrorsStay
<1>. QED BY <1>3, <1>4, <1>5, <1>6 DEF KeptInv

LEMMA KeptImport ==
  ASSUME TypeInv, StackInv, OutcomeInv, KeptInv, WellNamed, ImportStep
  PROVE  KeptInv'
<1>1. Importing
  BY DEF ImportStep, ImportRuntime, ImportByName, ImportUnresolved, ImportByPath,
         ImportUnreadable, ImportNewFile, SearchesPath
<1>2. /\ active \in Files /\ NextImport \in Names /\ HasHeader(active)
      /\ active # NoFile
  BY <1>1, ImportFacts, ImportersHaveHeaders DEF TypeInv, OutcomeInv, Importing
<1>3. CASE ImportNewFile
  <2>0. PICK f : f = Index[NextImport]
    OBVIOUS
  <2>1. /\ f \in Files /\ OpenSession(f, active) /\ byName[NextImport] = NoFile
        /\ UNCHANGED <<src, hadError, errors>>
    BY <2>0, <1>2, <1>3, IndexAssumption DEF ImportNewFile, SearchesPath, FileOrNone
  <2>2. Kind(f) # "body" /\ (HasHeader(f) => src[f].name = NextImport)
    BY <2>0, <2>1, <1>2, NoFileAssumption DEF WellNamed
  <2>. QED BY <2>1, <2>2, <1>2, KeptOpen DEF OutcomeInv
<1>4. CASE ~ImportNewFile
  <2>1. /\ UNCHANGED <<src, phase, caller, units>>
        /\ \/ UNCHANGED <<errors, hadError>>
           \/ FailActive
    BY <1>4 DEF ImportStep, ImportRuntime, ImportByName, ImportUnresolved,
                ImportByPath, ImportUnreadable, ImportSession, CallStackUnchanged
  <2>2. FailActive => hadError'[active] /\ ErrorsStay
                      /\ \A g \in Files : hadError'[g] => hadError[g] \/ g = active
    BY <1>2 DEF FailActive, ErrorsStay, TypeInv, TypeOK
  <2>3. Loaded(active)
    BY <1>2 DEF StackInv, ActiveRuns, Running, Loaded
  <2>4. FailActive => \E f \in Files : Answers(f)'
    <3>1. PICK f \in Files : f = active
      BY <1>2
    <3>. QED BY <2>1, <2>2, <3>1, <1>2, ContentConstant DEF Answers
  <2>5. ErrorsStay /\ \A g \in Files : hadError'[g] => Loaded(g)
    BY <2>1, <2>2, <2>3 DEF KeptInv, ErrorsAreKept, ErrorsStay
  <2>. QED BY <2>1, <2>4, <2>5, <1>2, KeptStays
<1>. QED BY <1>3, <1>4

LEMMA KeptReturn ==
  ASSUME TypeInv, StackInv, KeptInv, NEW f \in Files, NEW own \in Nat,
         phase[f] = "interface", Done(f), ReturnFromParse(f, own), ReportErrors(own),
         NEW p \in {"ready", "complete", "failed"},
         phase' = [phase EXCEPT ![f] = p],
         NEW u, units' = [units EXCEPT ![Key(f)] = u],
         u.known, u.ast \in {f, NoFile}
  PROVE  KeptInv'
<1>1. /\ f \in Open /\ Open' = Open \ {f} /\ Open \subseteq Files
      /\ active = f /\ active' = caller[f] /\ caller' = caller /\ src' = src
      /\ phase'[f] = p /\ \A g \in Files : g # f => phase'[g] = phase[g]
      /\ \A g \in Files : Loaded(g)' <=> Loaded(g)
      /\ Loaded(f)
  <2>1. /\ f \in Open /\ Open' = Open \ {f}
        /\ active = f /\ active' = caller[f]
        /\ phase'[f] = p /\ \A g \in Files : g # f => phase'[g] = phase[g]
    BY ReturnFacts
  <2>2. caller' = caller /\ src' = src
    BY DEF ReturnFromParse
  <2>. QED BY <2>1, <2>2 DEF Open, Loaded
<1>2. /\ \A g : Kind(g)' = Kind(g) /\ HasHeader(g)' = HasHeader(g) /\ Key(g)' = Key(g)
  BY <1>1, ContentConstant, KeysConstant
<1>3. /\ EntryLeads'
  BY <1>1, <1>2 DEF KeptInv, EntryLeads
<1>4. NamesAreApart'
  BY <1>1, <1>2 DEF KeptInv, NamesAreApart
<1>5. Key(f) \in Keys /\ \A g \in Files : Key(g) \in Keys
  <2>1. src \in [Files -> Content]
    BY DEF TypeInv, TypeOK
  <2>. QED BY <2>1, ContentFacts
<1>6. /\ units'[Key(f)] = u
      /\ \A k \in Keys : k # Key(f) => units'[k] = units[k]
      /\ \A k \in Keys : units[k].ast \in Files \cup {NoFile}
  BY <1>5 DEF TypeInv, TypeOK, Unit, FileOrNone
<1>7. TreesAreTheirs'
  <2>1. SUFFICES ASSUME NEW k \in Keys, units'[k].ast # NoFile
                 PROVE  Key(units'[k].ast) = k /\ phase'[units'[k].ast] # "unloaded"
    BY <1>2 DEF TreesAreTheirs, Loaded
  <2>2. CASE k = Key(f)
    <3>1. units'[k].ast = f
      BY <2>1, <2>2, <1>6
    <3>. QED BY <3>1, <2>2, <1>1 DEF Loaded
  <2>3. CASE k # Key(f)
    <3>1. units'[k] = units[k] /\ units[k].ast \in Files
      BY <2>1, <2>3, <1>6
    <3>. QED BY <3>1, <2>1, <1>1 DEF KeptInv, TreesAreTheirs, Loaded
  <2>. QED BY <2>2, <2>3
<1>8. FinishedAreKnown'
  <2>1. ASSUME NEW g \in Files, phase'[g] \in {"ready", "complete", "failed"}
        PROVE  units'[Key(g)].known
    BY <2>1, <1>1, <1>5, <1>6 DEF KeptInv, FinishedAreKnown
  <2>. QED BY <2>1, <1>2 DEF FinishedAreKnown
<1>9. ErrorsAreKept'
  <2>1. /\ errors' = errors + own
        /\ hadError'[f] = FailedNow(f, own)
        /\ caller[f] # f
        /\ caller[f] \in Files => hadError'[caller[f]] = (hadError[caller[f]] \/ NewErrors(f, own) # 0)
        /\ \A g \in Files : g # f /\ g # caller[f] => hadError'[g] = hadError[g]
    BY ReturnFacts DEF ReturnFromParse, ReportErrors
  <2>2. ErrorsStay
    BY <2>1 DEF ErrorsStay, FailedNow, TypeInv, TypeOK
  <2>3. \A g \in Files : hadError'[g] => Loaded(g)'
    <3>1. caller[f] \in Files => Loaded(caller[f])
      BY <1>1, NoFileAssumption DEF StackInv, CallersWait, Running, Loaded
    <3>. QED BY <3>1, <2>1, <1>1 DEF KeptInv, ErrorsAreKept
  <2>4. ASSUME errors' # 0
        PROVE  \E g \in Files : Answers(g)'
    <3>1. CASE errors # 0
      BY <3>1, <2>2, <1>2 DEF KeptInv, ErrorsAreKept, Answers, ErrorsStay
    <3>2. CASE errors = 0
      <4>1. own # 0 /\ errsBefore[f] = 0
        BY <2>4, <2>1, <3>2 DEF TypeInv, TypeOK, ErrorsGrow
      <4>2. FailedNow(f, own) /\ NewErrors(f, own) # 0
        BY <4>1, <3>2 DEF FailedNow, NewErrors
      <4>3. CASE f = Entry
        BY <4>2, <4>3, <2>1 DEF Answers
      <4>4. CASE f # Entry
        <5>1. caller[f] \in Files /\ HasHeader(caller[f])
          BY <4>4, <1>1 DEF KeptInv, EntryLeads
        <5>2. hadError'[caller[f]]
          BY <5>1, <4>2, <2>1
        <5>. QED BY <5>1, <5>2, <1>1, <1>2 DEF Answers
      <4>. QED BY <4>3, <4>4
    <3>. QED BY <3>1, <3>2
  <2>. QED BY <2>3, <2>4 DEF ErrorsAreKept
<1>. QED BY <1>3, <1>4, <1>7, <1>8, <1>9 DEF KeptInv

LEMMA KeptFinishImplementation ==
  ASSUME TypeInv, StackInv, KindsOfPhases, KeptInv, NEW f \in Files,
         FinishImplementation(f)
  PROVE  KeptInv'
<1>. DEFINE own == One(src[f].merr)
<1>1. /\ phase[f] = "ready" /\ active = f /\ active' = NoFile
      /\ phase' = [phase EXCEPT ![f] = "complete"]
      /\ hadError' = [hadError EXCEPT ![f] = FailedNow(f, own)]
      /\ errors' = errors + own
      /\ UNCHANGED <<src, caller, stage, errsBefore>>
  BY DEF FinishImplementation, Done, ReportErrors
<1>2. /\ \A g : Kind(g)' = Kind(g) /\ HasHeader(g)' = HasHeader(g) /\ Key(g)' = Key(g)
  BY <1>1, ContentConstant, KeysConstant
<1>3. /\ Open' = {}
      /\ phase'[f] = "complete" /\ \A g \in Files : g # f => phase'[g] = phase[g]
      /\ \A g \in Files : Loaded(g)' <=> Loaded(g)
      /\ Loaded(f) /\ HasHeader(f)
  <2>1. Open = {}
    BY <1>1, NothingBelow DEF Open
  <2>. QED BY <2>1, <1>1 DEF Open, Loaded, KindsOfPhases, HasHeader, TypeInv, TypeOK
<1>4. src \in [Files -> Content]
  BY DEF TypeInv, TypeOK
<1>5. EntryLeads' /\ NamesAreApart'
  BY <1>2, <1>3 DEF KeptInv, EntryLeads, NamesAreApart
<1>6. /\ Key(f) \in Keys /\ \A g \in Files : Key(g) \in Keys
  BY <1>4, ContentFacts
<1>7. /\ \A k \in Keys : units[k] \in Unit
      /\ \A k \in Keys : k # Key(f) => units'[k] = units[k]
      /\ units'[Key(f)].known = units[Key(f)].known
      /\ units'[Key(f)].ast \in {f, units[Key(f)].ast}
  <2>1. units \in [Keys -> Unit]
    BY DEF TypeInv, TypeOK
  <2>2. \/ units' = units
        \/ units' = [units EXCEPT ![Key(f)].ast = f,
                                  ![Key(f)].ok = CleanSoFar(f, own)]
    BY DEF FinishImplementation
  <2>. QED BY <2>1, <2>2, <1>6 DEF Unit
<1>8. TreesAreTheirs'
  <2>1. SUFFICES ASSUME NEW k \in Keys, units'[k].ast # NoFile
                 PROVE  Key(units'[k].ast) = k /\ phase'[units'[k].ast] # "unloaded"
    BY <1>2 DEF TreesAreTheirs, Loaded
  <2>2. CASE units'[k].ast = f /\ k = Key(f)
    BY <2>2, <1>3 DEF Loaded
  <2>3. CASE units'[k].ast = units[k].ast
    <3>1. units[k].ast \in Files
      BY <2>1, <2>3, <1>7 DEF Unit, FileOrNone
    <3>. QED BY <3>1, <2>1, <2>3, <1>3 DEF KeptInv, TreesAreTheirs, Loaded
  <2>. QED BY <2>2, <2>3, <1>7
<1>9. FinishedAreKnown'
  <2>1. ASSUME NEW g \in Files, phase'[g] \in {"ready", "complete", "failed"}
        PROVE  units'[Key(g)].known
    BY <2>1, <1>1, <1>3, <1>6, <1>7 DEF KeptInv, FinishedAreKnown
  <2>. QED BY <2>1, <1>2 DEF FinishedAreKnown
<1>10. ErrorsAreKept'
  <2>1. ErrorsStay /\ \A g \in Files : hadError'[g] => hadError[g] \/ g = f
    BY <1>1 DEF ErrorsStay, FailedNow, TypeInv, TypeOK
  <2>2. \A g \in Files : hadError'[g] => Loaded(g)'
    BY <2>1, <1>3 DEF KeptInv, ErrorsAreKept
  <2>3. ASSUME errors' # 0
        PROVE  \E g \in Files : Answers(g)'
    <3>1. CASE errors # 0
      BY <3>1, <2>1, <1>2 DEF KeptInv, ErrorsAreKept, Answers, ErrorsStay
    <3>2. CASE errors = 0
      <4>1. own # 0 /\ own \in {0, 1} /\ errsBefore[f] = 0
        BY <2>3, <1>1, <1>4, <3>2, ContentFacts DEF TypeInv, TypeOK, ErrorsGrow
      <4>2. FailedNow(f, own)
        BY <4>1, <3>2 DEF FailedNow
      <4>3. hadError'[f]
        BY <4>2, <1>1 DEF TypeInv, TypeOK
      <4>. QED BY <4>3, <1>2, <1>3 DEF Answers
    <3>. QED BY <3>1, <3>2
  <2>. QED BY <2>2, <2>3 DEF ErrorsAreKept
<1>. QED BY <1>5, <1>8, <1>9, <1>10 DEF KeptInv

LEMMA KeptStep ==
  ASSUME TypeInv, StackInv, CountInv, OutcomeInv, KeptInv, WellNamed, [Next]_vars
  PROVE  KeptInv'
<1>1. CASE ParseEntry
  <2>1. /\ OpenSession(Entry, active) /\ Entry \in Files /\ stage = "entry"
        /\ UNCHANGED <<src, hadError, errors>>
        /\ \A g \in Files : phase[g] = "unloaded"
    BY <1>1, EntryAssumption DEF ParseEntry, CountInv, NothingBefore
  <2>. QED BY <2>1, KeptOpen DEF OutcomeInv
<1>2. CASE ImportStep
  BY <1>2, KeptImport
<1>3. ASSUME NEW f \in Files, FinishStep(f) PROVE KeptInv'
  <2>1. One(src[f].ierr) \in Nat /\ One(src[f].merr) \in Nat
    <3>1. src \in [Files -> Content]
      BY DEF TypeInv, TypeOK
    <3>. QED BY <3>1, ContentFacts
  <2>2. PICK p \in {"ready", "complete", "failed"}, own \in Nat :
          /\ phase[f] = "interface" /\ Done(f)
          /\ ReturnFromParse(f, own) /\ ReportErrors(own)
          /\ phase' = [phase EXCEPT ![f] = p]
    BY <2>1, <1>3 DEF FinishStep, FinishInterface, FinishProgram, FinishGarbage
  <2>3. PICK u : /\ u.known /\ u.ast \in {f, NoFile}
                 /\ units' = [units EXCEPT ![Key(f)] = u]
    BY <1>3 DEF FinishStep, FinishInterface, FinishProgram, FinishGarbage
  <2>. QED BY <2>2, <2>3, KeptReturn
<1>4. ASSUME NEW f \in Files, FinishImplementation(f) PROVE KeptInv'
  BY <1>4, KeptFinishImplementation DEF OutcomeInv
<1>5. CASE \/ EntryUnreadable \/ NothingPending \/ FinishDiscovery
           \/ (\E k \in Keys : Demote(k)) \/ UNCHANGED vars
  <2>1. UNCHANGED <<src, phase, caller, errors, hadError>>
    BY <1>5 DEF EntryUnreadable, NothingPending, FinishDiscovery, Demote, vars
  <2>2. \A k \in Keys : /\ units[k].known => units'[k].known
                        /\ units'[k].ast = units[k].ast
    <3>1. units' = units \/ \E k \in Keys : units' = [units EXCEPT ![k].ok = FALSE]
      BY <1>5 DEF EntryUnreadable, NothingPending, FinishDiscovery, Demote, vars
    <3>2. units \in [Keys -> Unit]
      BY DEF TypeInv, TypeOK
    <3>. QED BY <3>1, <3>2 DEF Unit
  <2>. QED BY <2>1, <2>2, KeptStays DEF ErrorsStay, KeptInv, ErrorsAreKept
<1>6. ASSUME NEW f \in Files, StartImplementation(f) PROVE KeptInv'
  <2>1. /\ UNCHANGED <<src, phase, errors, hadError, units>>
        /\ active = NoFile
    BY <1>6 DEF StartImplementation
  <2>2. Open = {} /\ Open' = {}
    BY <2>1, NothingBelow, NoFileAssumption DEF Open
  <2>3. /\ \A g : Kind(g)' = Kind(g) /\ HasHeader(g)' = HasHeader(g) /\ Key(g)' = Key(g)
        /\ \A g : Loaded(g)' = Loaded(g)
    BY <2>1, ContentConstant, KeysConstant DEF Loaded
  <2>. QED BY <2>1, <2>2, <2>3
    DEF KeptInv, EntryLeads, NamesAreApart, TreesAreTheirs, FinishedAreKnown,
        ErrorsAreKept, Answers
<1>. QED BY <1>1, <1>2, <1>3, <1>4, <1>5, <1>6 DEF Next

-----------------------------------------------------------------------------
DiscoveryInv == /\ TypeInv /\ StackInv /\ AtEnd /\ CountInv
                /\ WellNamed => OutcomeInv /\ KeptInv

LEMMA SourcesStay == [Next]_vars => UNCHANGED src
BY DEF Next, vars, ParseEntry, EntryUnreadable, ImportStep, ImportRuntime,
       ImportByName, ImportUnresolved, ImportByPath, ImportUnreadable,
       ImportNewFile, ImportSession, FinishStep, FinishInterface, FinishProgram,
       FinishGarbage, ReturnFromParse, StartImplementation, FinishImplementation,
       NothingPending, Demote, FinishDiscovery

LEMMA DiscoveryInvariant == Spec => []DiscoveryInv
<1>1. Init => DiscoveryInv
  BY TypeInit, StackInit, OutcomeInit, CountInit, KeptInit DEF DiscoveryInv, AtEnd, Init
<1>2. DiscoveryInv /\ [Next]_vars => DiscoveryInv'
  <2>. SUFFICES ASSUME DiscoveryInv, [Next]_vars PROVE DiscoveryInv'
    OBVIOUS
  <2>1. WellNamed' = WellNamed
    BY SourcesStay, ContentConstant
  <2>. QED BY <2>1, TypeStep, StackStep, AtEndStep, CountStep, OutcomeStep, KeptStep
           DEF DiscoveryInv
<1>. QED BY <1>1, <1>2, PTL DEF Spec

\* The exit code can be believed: when discovery ends over files that can be
\* read and some unit failed, the count it returns is not zero; and where
\* files are named after what is in them, a count that is not zero means that
\* the entry of some unit says so.
THEOREM ErrorsAreReportedCorrect == Spec => []ErrorsAreReported
<1>1. DiscoveryInv /\ OkIsClean => ErrorsAreReported
  <2>. SUFFICES ASSUME TypeInv, StackInv, AtEnd, CountInv, WellNamed => OutcomeInv /\ KeptInv,
                       OkIsClean, stage = "done", Readable
                PROVE  /\ SomethingFailed => result # 0
                       /\ WellNamed /\ result # 0 => SomethingFailed
    BY DEF DiscoveryInv, ErrorsAreReported, Readable
  <2>1. result = errors
    BY EntryAssumption DEF AtEnd, CountInv, CountsAgree, Readable
  <2>2. ASSUME SomethingFailed PROVE result # 0
    BY <2>1, <2>2 DEF SomethingFailed, CountInv, CleanIsOk, Over
  <2>3. ASSUME WellNamed, result # 0 PROVE SomethingFailed
    <3>1. PICK f \in Files : Answers(f)
      BY <2>1, <2>3 DEF KeptInv, ErrorsAreKept
    <3>2. /\ Key(f) \in Keys
          /\ units[Key(f)].known
      <4>1. phase[f] \in {"complete", "failed"}
        BY <2>3, <3>1
        DEF Answers, KeptInv, ErrorsAreKept, Loaded, CountInv, Over, TypeInv, TypeOK, Phases
      <4>2. src \in [Files -> Content]
        BY DEF TypeInv, TypeOK
      <4>. QED BY <2>3, <4>1, <4>2, ContentFacts DEF KeptInv, FinishedAreKnown
    <3>3. ASSUME units[Key(f)].ok PROVE FALSE
      <4>1. PICK g : g = units[Key(f)].ast
        OBVIOUS
      <4>2. /\ g \in Files /\ phase[g] = "complete" /\ ~hadError[g] /\ g # f
            /\ Loaded(g) /\ Key(g) = Key(f) /\ Loaded(f)
        BY <4>1, <3>1, <3>2, <3>3, <2>3
        DEF OkIsClean, Answers, KeptInv, TreesAreTheirs, ErrorsAreKept, TypeInv, TypeOK,
            Unit, FileOrNone, Loaded
      <4>3. Kind(g) \in {"unit", "program", "body"}
        <5>1. src \in [Files -> Content]
          BY DEF TypeInv, TypeOK
        <5>. QED BY <5>1, <4>2, <2>3, ContentFacts DEF OutcomeInv, KindsOfPhases
      <4>4. HasHeader(f) /\ HasHeader(g)
        BY <4>2, <4>3, <3>1, <2>3 DEF Answers, KeptInv, EntryLeads, HasHeader
      <4>. QED BY <4>2, <4>4, <2>3 DEF KeptInv, NamesAreApart
    <3>. QED BY <3>2, <3>3 DEF SomethingFailed
  <2>. QED BY <2>2, <2>3
<1>. QED BY <1>1, DiscoveryInvariant, OkIsCleanCorrect, PTL

-----------------------------------------------------------------------------
(***************************************************************************)
(* UnitGraph implements Discovery, step by step: opening a file finds it,  *)
(* the end of discovery decides, and all else is internal.                 *)
(*   This is of directories whose files declare the names they are found   *)
(* by; the entry file too, when it declares one, and that one is not a     *)
(* name with a runtime model.                                              *)
(***************************************************************************)
EntryNamed == HasHeader(Entry) => /\ src[Entry].name \notin Runtime
                                  /\ Index[src[Entry].name] = Entry
OwnNames == WellNamed /\ EntryNamed

\* No name is like the one that a file without a header is kept under.
MadeUpNames == \A f \in Files : ProgKey[f] \notin Names

\* What is known already.
Base == /\ TypeInv /\ StackInv /\ OutcomeInv /\ KeptInv /\ CountInv /\ AtEnd
        /\ OwnNames /\ CycleReportsAreReal /\ OkIsClean

(***************************************************************************)
(* The steps by what they do to the sessions.                              *)
(***************************************************************************)
OpenStep(f) ==
  /\ OpenSession(f, active)
  /\ UNCHANGED <<src, hadError, errors, stage>>
  /\ todo'[f] = FirstUses(f)
  /\ \A h \in Files : h # f /\ h # active => todo'[h] = todo[h]
  /\ \/ active = NoFile /\ f = Entry
     \/ /\ active \in Files /\ active # f /\ Importing /\ NextImport \in Names \ Runtime
        /\ Index[NextImport] = f
        /\ todo'[active] = Tail(todo[active])

LookStep ==
  /\ Importing /\ SkipImport /\ NextImport \in Names
  /\ UNCHANGED <<src, phase, byName, units, active, caller, errsBefore, stage>>
  /\ \A g \in Files : /\ hadError[g] => hadError'[g]
                      /\ g # active => hadError'[g] = hadError[g]
  /\ NextImport \in Runtime => UNCHANGED <<hadError, errors>>
  /\ NextImport \notin Runtime =>
       \/ /\ hadError'[active]
          /\ \/ Index[NextImport] = NoFile
             \/ /\ Index[NextImport] \in Files
                /\ Kind(Index[NextImport]) = "unreadable" \/ phase[Index[NextImport]] = "interface"
       \/ /\ Index[NextImport] \in Files /\ errors' = errors
          /\ phase[Index[NextImport]] \notin {"unloaded", "interface"}
          /\ \/ hadError' = hadError
             \/ /\ hadError'[active]
                /\ hadError[Index[NextImport]] \/ phase[Index[NextImport]] = "failed"

Outcome(f, own, p, u) ==
  /\ u.known
  /\ \/ Kind(f) = "unit" /\ p = "ready" /\ own = One(src[f].ierr)
     \/ /\ Kind(f) \in {"program", "body"} /\ p = "complete" /\ own = One(src[f].merr)
        /\ u.ast = f /\ u.ok = CleanSoFar(f, own)
     \/ Kind(f) = "garbage" /\ p = "failed" /\ own = 1

ReturnStep(f) ==
  /\ phase[f] = "interface" /\ Done(f)
  /\ \E own \in Nat, p \in {"ready", "complete", "failed"}, u \in Unit :
       /\ ReturnFromParse(f, own) /\ ReportErrors(own)
       /\ phase' = [phase EXCEPT ![f] = p]
       /\ units' = [units EXCEPT ![Key(f)] = u]
       /\ Outcome(f, own, p, u)

QuietStep ==
  /\ UNCHANGED <<src, phase, hadError, byName, errors, active, caller, todo, errsBefore>>
  /\ units' = units \/ \E k \in Keys : Demote(k)
  /\ stage' # "entry" /\ Kind(Entry) # "unreadable" => stage # "entry"

\* The invariant that names what the sessions are found by.
FoundByName == \A f \in Files : Loaded(f) /\ HasHeader(f) =>
                 src[f].name \notin Runtime /\ Index[src[f].name] = f
SessionsAreNamed == \A n \in Names : byName[n] # NoFile =>
  Loaded(byName[n]) /\ HasHeader(byName[n]) /\ src[byName[n]].name = n
KnownAreFound == \A n \in Names : units[n].known =>
  \E f \in Files : Loaded(f) /\ HasHeader(f) /\ src[f].name = n
UsesAreLeft == \A f \in Files : ElementsOf(todo[f]) \subseteq Imports(f)
FailedAreGarbage == \A f \in Files : phase[f] = "failed" => Kind(f) = "garbage"
NamesInv == FoundByName /\ SessionsAreNamed /\ KnownAreFound /\ UsesAreLeft /\ FailedAreGarbage

LEMMA SessionOfName ==
  ASSUME Base, NamesInv, NEW n \in Names, byName[n] # NoFile
  PROVE  byName[n] = Index[n] /\ byName[n] \in Files /\ Loaded(byName[n])
BY DEF NamesInv, SessionsAreNamed, FoundByName, Base, TypeInv, TypeOK, FileOrNone

LEMMA OpenCases ==
  ASSUME Base, ParseEntry \/ ImportNewFile
  PROVE  \E f \in Files : OpenStep(f)
<1>1. todo \in [Files -> Seq(Names)]
  BY DEF Base, TypeInv, TypeOK
<1>2. CASE ParseEntry
  BY <1>1, <1>2, EntryAssumption, NoFileAssumption DEF ParseEntry, OpenStep
<1>3. CASE ImportNewFile
  <2>1. Importing /\ NextImport \notin Runtime /\ Index[NextImport] # NoFile
    BY <1>3 DEF ImportNewFile, SearchesPath
  <2>2. active \in Files /\ NextImport \in Names
    BY <2>1, ImportFacts DEF Base, TypeInv
  <2>3. PICK f \in Files : f = Index[NextImport]
    BY <2>1, <2>2, IndexAssumption
  <2>4. /\ OpenSession(f, active)
        /\ todo' = [todo EXCEPT ![active] = Tail(@), ![f] = FirstUses(f)]
        /\ UNCHANGED <<src, hadError, errors, stage>>
    BY <1>3, <2>3 DEF ImportNewFile
  <2>5. active # f
    BY <2>2, <2>4, NoFileAssumption DEF OpenSession, Base, StackInv, ActiveRuns, Running
  <2>. QED BY <1>1, <2>1, <2>2, <2>3, <2>4, <2>5 DEF OpenStep
<1>. QED BY <1>2, <1>3

LEMMA LookCases ==
  ASSUME Base, NamesInv, ImportStep, ~ImportNewFile
  PROVE  LookStep
<1>1. /\ Importing /\ SkipImport
      /\ UNCHANGED <<src, phase, byName, units, active, caller, errsBefore, stage>>
  BY DEF ImportStep, ImportRuntime, ImportByName, ImportUnresolved, ImportByPath,
         ImportUnreadable, ImportSession, SearchesPath, CallStackUnchanged
<1>2. active \in Files /\ NextImport \in Names
  BY <1>1, ImportFacts DEF Base, TypeInv
<1>3. hadError \in [Files -> BOOLEAN] /\ phase \in [Files -> Phases]
  BY DEF Base, TypeInv, TypeOK
<1>4. FailActive => /\ hadError'[active]
                    /\ \A g \in Files : /\ hadError[g] => hadError'[g]
                                        /\ g # active => hadError'[g] = hadError[g]
  BY <1>2, <1>3 DEF FailActive
<1>5. UNCHANGED hadError \/ FailActive
  BY DEF ImportStep, ImportRuntime, ImportByName, ImportUnresolved, ImportByPath,
         ImportUnreadable, ImportSession
<1>6. CASE ImportRuntime
  BY <1>1, <1>2, <1>4, <1>5, <1>6 DEF ImportRuntime, LookStep
<1>7. Index[NextImport] \in Files \cup {NoFile}
  BY <1>2, IndexAssumption
<1>8. ASSUME NEW g \in Files, g = Index[NextImport], NextImport \notin Runtime,
             ImportSession(g), Loaded(g)
      PROVE  LookStep
  <2>1. CASE phase[g] = "interface"
    BY <2>1, <1>1, <1>2, <1>4, <1>8 DEF ImportSession, LookStep
  <2>2. CASE phase[g] # "interface"
    BY <2>2, <1>1, <1>2, <1>4, <1>8 DEF ImportSession, LookStep, Loaded
  <2>. QED BY <2>1, <2>2
<1>9. CASE ImportByName
  BY <1>2, <1>8, <1>9, SessionOfName DEF ImportByName
<1>10. CASE ImportByPath
  BY <1>7, <1>8, <1>10 DEF ImportByPath, SearchesPath, Loaded
<1>11. CASE ImportUnresolved
  BY <1>1, <1>2, <1>4, <1>11 DEF ImportUnresolved, SearchesPath, LookStep
<1>12. CASE ImportUnreadable
  BY <1>1, <1>2, <1>4, <1>7, <1>12 DEF ImportUnreadable, SearchesPath, LookStep
<1>. QED BY <1>6, <1>9, <1>10, <1>11, <1>12 DEF ImportStep

LEMMA ReturnCases ==
  ASSUME Base, NEW f \in Files, FinishStep(f)
  PROVE  ReturnStep(f)
<1>1. /\ One(src[f].ierr) \in Nat /\ One(src[f].merr) \in Nat /\ 1 \in Nat
      /\ src \in [Files -> Content] /\ f \in FileOrNone /\ NoFile \in FileOrNone
  BY DEF One, Base, TypeInv, TypeOK, FileOrNone
<1>2. \A b \in BOOLEAN, a \in FileOrNone :
        [known |-> TRUE, path |-> f, ast |-> a, ok |-> b] \in Unit
  BY <1>1 DEF Unit
<1>3. CASE FinishInterface(f)
  BY <1>1, <1>2, <1>3 DEF FinishInterface, ReturnStep, Outcome
<1>4. CASE FinishProgram(f)
  <2>1. PICK b \in BOOLEAN : b = CleanSoFar(f, One(src[f].merr))
    BY DEF CleanSoFar
  <2>. QED BY <1>1, <1>2, <1>4, <2>1 DEF FinishProgram, ReturnStep, Outcome
<1>5. CASE FinishGarbage(f)
  BY <1>1, <1>2, <1>5 DEF FinishGarbage, ReturnStep, Outcome
<1>. QED BY <1>3, <1>4, <1>5 DEF FinishStep

LEMMA StepCases ==
  ASSUME Base, NamesInv, [Next]_vars
  PROVE  \/ (ParseEntry \/ ImportNewFile) /\ \E f \in Files : OpenStep(f)
         \/ LookStep
         \/ \E f \in Files : ReturnStep(f) \/ StartImplementation(f) \/ FinishImplementation(f)
         \/ QuietStep
<1>1. CASE EntryUnreadable \/ NothingPending \/ FinishDiscovery \/ UNCHANGED vars
  BY <1>1 DEF EntryUnreadable, NothingPending, FinishDiscovery, vars, QuietStep
<1>2. ASSUME NEW k \in Keys, Demote(k) PROVE QuietStep
  BY <1>2 DEF Demote, QuietStep
<1>. QED BY <1>1, <1>2, OpenCases, LookCases, ReturnCases DEF Next

\* What the steps leave of the names to look at.
LEMMA OpenStepFacts ==
  ASSUME Base, NEW f \in Files, OpenStep(f)
  PROVE  /\ f \notin Open /\ Open' = Open \cup {f}
         /\ \A h \in Files : h # f => /\ phase'[h] = phase[h] /\ caller'[h] = caller[h]
                                      /\ errsBefore'[h] = errsBefore[h]
         /\ phase[f] = "unloaded" /\ phase'[f] = "interface"
         /\ caller'[f] = active /\ active' = f /\ errsBefore'[f] = errors
         /\ ~Loaded(f) /\ \A h \in Files : Loaded(h)' <=> Loaded(h) \/ h = f
         /\ \A h \in Files : Implementing(h)' => Implementing(h) /\ h # f
         /\ \A h \in Files : Implementing(h) => Implementing(h)'
         /\ \A h \in Files \ {f} : \A n \in ElementsOf(todo[h]) :
              \/ n \in ElementsOf(todo'[h])
              \/ n \notin Runtime /\ Index[n] = f /\ h = active
         /\ \A h \in Files \ {f} : ElementsOf(todo'[h]) \subseteq ElementsOf(todo[h])
         /\ \A h \in Files \ {f} : todo[h] = << >> => todo'[h] = << >>
<1>1. active \in FileOrNone /\ todo \in [Files -> Seq(Names)]
  BY DEF Base, TypeInv, TypeOK
<1>2. OpenSession(f, active)
  BY DEF OpenStep
<1>3. /\ f \notin Open /\ Open' = Open \cup {f}
      /\ \A h \in Files : h # f => /\ phase'[h] = phase[h] /\ caller'[h] = caller[h]
                                   /\ errsBefore'[h] = errsBefore[h]
      /\ phase[f] = "unloaded" /\ phase'[f] = "interface"
      /\ caller'[f] = active /\ active' = f /\ errsBefore'[f] = errors
  BY <1>1, <1>2, OpenFacts DEF Base
<1>4. ~Loaded(f) /\ \A h \in Files : Loaded(h)' <=> Loaded(h) \/ h = f
  BY <1>3 DEF Loaded
<1>5. \A h \in Files : Implementing(h)' => Implementing(h) /\ h # f
  BY <1>2, CallFacts DEF Base
<1>6. \A h \in Files : Implementing(h) => Implementing(h)'
  <2>1. SUFFICES ASSUME NEW h \in Files, Implementing(h) PROVE Implementing(h)'
    OBVIOUS
  <2>2. h # f /\ phase'[h] = "ready"
    BY <2>1, <1>3 DEF Implementing
  <2>3. CASE active = h
    BY <2>2, <2>3, <1>3 DEF Implementing
  <2>4. CASE \E g \in Open : caller[g] = h
    BY <2>2, <2>4, <1>3 DEF Implementing, Open
  <2>. QED BY <2>1, <2>3, <2>4 DEF Implementing
<1>7. ASSUME NEW h \in Files \ {f}
      PROVE  \/ todo'[h] = todo[h]
             \/ /\ h = active /\ todo[h] # << >> /\ todo'[h] = Tail(todo[h])
                /\ NextImport = Head(todo[h]) /\ NextImport \notin Runtime
                /\ Index[NextImport] = f
  BY <1>7, NoFileAssumption DEF OpenStep, Importing, NextImport
<1>8. /\ \A h \in Files \ {f} : \A n \in ElementsOf(todo[h]) :
           \/ n \in ElementsOf(todo'[h])
           \/ n \notin Runtime /\ Index[n] = f /\ h = active
      /\ \A h \in Files \ {f} : ElementsOf(todo'[h]) \subseteq ElementsOf(todo[h])
  BY <1>1, <1>7, ElementsOfTail
<1>. QED BY <1>3, <1>4, <1>5, <1>6, <1>7, <1>8

LEMMA LookStepFacts ==
  ASSUME Base, LookStep
  PROVE  /\ active \in Files
         /\ NextImport \in ElementsOf(todo[active])
         /\ Open' = Open
         /\ \A h \in Files : /\ Loaded(h)' <=> Loaded(h)
                             /\ Implementing(h)' <=> Implementing(h)
         /\ \A h \in Files : \A n \in ElementsOf(todo[h]) :
              n \in ElementsOf(todo'[h]) \/ (n = NextImport /\ h = active)
         /\ \A h \in Files : ElementsOf(todo'[h]) \subseteq ElementsOf(todo[h])
         /\ \A h \in Files : todo[h] = << >> => todo'[h] = << >>
<1>1. active \in Files /\ todo \in [Files -> Seq(Names)]
  BY ImportFacts DEF LookStep, Base, TypeInv, TypeOK
<1>2. /\ todo[active] # << >> /\ NextImport = Head(todo[active])
      /\ todo' = [todo EXCEPT ![active] = Tail(todo[active])]
  BY DEF LookStep, Importing, NextImport, SkipImport
<1>3. Open' = Open /\ \A h : Loaded(h)' = Loaded(h) /\ Implementing(h)' = Implementing(h)
  BY DEF LookStep, Open, Loaded, Implementing
<1>4. /\ NextImport \in ElementsOf(todo[active])
      /\ ElementsOf(Tail(todo[active])) \subseteq ElementsOf(todo[active])
      /\ \A n \in ElementsOf(todo[active]) :
           n = NextImport \/ n \in ElementsOf(Tail(todo[active]))
  BY <1>1, <1>2, ElementsOfTail
<1>5. \A h \in Files : h # active => todo'[h] = todo[h]
  BY <1>1, <1>2
<1>6. todo'[active] = Tail(todo[active])
  BY <1>1, <1>2
<1>. QED BY <1>1, <1>2, <1>3, <1>4, <1>5, <1>6

LEMMA ReturnStepFacts ==
  ASSUME Base, NEW f \in Files, ReturnStep(f)
  PROVE  /\ f \in Open /\ Open' = Open \ {f} /\ f = active
         /\ active' = caller[f] /\ caller[f] # f /\ caller[f] \in FileOrNone
         /\ \A h \in Files : h # f => phase'[h] = phase[h]
         /\ phase'[f] \in {"ready", "complete", "failed"}
         /\ \A h \in Files : Implementing(h)' => Implementing(h) /\ h # f
         /\ \A h \in Files : Implementing(h) => Implementing(h)'
         /\ \A h \in Files : Loaded(h)' <=> Loaded(h)
         /\ todo[f] = << >> /\ UNCHANGED <<src, byName, caller, todo, errsBefore>>
<1>1. PICK own \in Nat, p \in {"ready", "complete", "failed"} :
        ReturnFromParse(f, own) /\ phase' = [phase EXCEPT ![f] = p]
  BY DEF ReturnStep
<1>2. phase[f] = "interface" /\ Done(f) /\ todo[f] = << >>
  BY DEF ReturnStep, Done
<1>3. /\ f \in Open /\ Open' = Open \ {f}
      /\ active = f /\ active' = caller[f] /\ caller[f] # f
      /\ \A h \in Files : Implementing(h)' => Implementing(h) /\ h # f
      /\ phase'[f] = p /\ \A h \in Files : h # f => phase'[h] = phase[h]
  BY <1>1, <1>2, ReturnFacts DEF Base
<1>4. UNCHANGED <<src, byName, caller, todo, errsBefore>>
  BY <1>1 DEF ReturnFromParse
<1>5. \A h \in Files : Implementing(h) => Implementing(h)'
  <2>1. SUFFICES ASSUME NEW h \in Files, phase[h] = "ready",
                        NEW g \in Open, caller[g] = h
                 PROVE  Implementing(h)'
    BY <1>2, <1>3 DEF Implementing
  <2>2. phase'[h] = "ready"
    BY <2>1, <1>2, <1>3
  <2>. QED BY <2>1, <2>2, <1>3, <1>4 DEF Implementing
<1>6. caller[f] \in FileOrNone
  BY DEF Base, TypeInv, TypeOK
<1>7. \A h \in Files : Loaded(h)' <=> Loaded(h)
  BY <1>1, <1>2, <1>3 DEF Loaded
<1>. QED BY <1>1, <1>2, <1>3, <1>4, <1>5, <1>6, <1>7

LEMMA StartFacts ==
  ASSUME Base, NEW f \in Files, StartImplementation(f)
  PROVE  /\ UNCHANGED <<src, phase, hadError, byName, units, errors, stage>>
         /\ active = NoFile /\ Open = {} /\ Open' = {} /\ active' = f
         /\ phase[f] = "ready" /\ Kind(f) = "unit"
         /\ todo'[f] = MUses(f) /\ \A h \in Files : h # f => todo'[h] = todo[h]
         /\ errsBefore'[f] = errors
         /\ \A h \in Files : ~Implementing(h) /\ (Implementing(h)' <=> h = f)
         /\ \A h \in Files : Loaded(h)' <=> Loaded(h)
<1>1. /\ UNCHANGED <<src, phase, hadError, byName, units, errors, stage>>
      /\ active = NoFile /\ active' = f /\ phase[f] = "ready"
      /\ todo' = [todo EXCEPT ![f] = src[f].muses]
      /\ errsBefore' = [errsBefore EXCEPT ![f] = errors]
  BY DEF StartImplementation
<1>2. Kind(f) = "unit" /\ MUses(f) = src[f].muses
  BY <1>1 DEF Base, OutcomeInv, KindsOfPhases, MUses, HasHeader
<1>3. Open = {} /\ Open' = {}
  BY <1>1, NothingBelow, NoFileAssumption DEF Base, Open
<1>4. \A h \in Files : ~Implementing(h) /\ (Implementing(h)' <=> h = f)
  BY <1>1, <1>3, NoFileAssumption DEF Implementing
<1>5. \A h : Loaded(h)' = Loaded(h)
  BY <1>1 DEF Loaded
<1>. QED BY <1>1, <1>2, <1>3, <1>4, <1>5 DEF Base, TypeInv, TypeOK

LEMMA EndFacts ==
  ASSUME Base, NEW f \in Files, FinishImplementation(f)
  PROVE  /\ UNCHANGED <<src, byName, caller, todo, errsBefore, stage>>
         /\ active = f /\ todo[f] = << >> /\ Open = {} /\ Open' = {} /\ active' = NoFile
         /\ phase[f] = "ready" /\ Kind(f) = "unit" /\ Implementing(f)
         /\ phase'[f] = "complete" /\ \A h \in Files : h # f => phase'[h] = phase[h]
         /\ \A h \in Files : ~Implementing(h)'
         /\ \A h \in Files : Implementing(h) => h = f
         /\ \A h \in Files : Loaded(h)' <=> Loaded(h)
<1>1. /\ UNCHANGED <<src, byName, caller, todo, errsBefore, stage>>
      /\ active = f /\ todo[f] = << >> /\ active' = NoFile /\ phase[f] = "ready"
      /\ phase' = [phase EXCEPT ![f] = "complete"]
  BY DEF FinishImplementation, Done
<1>2. Kind(f) = "unit"
  BY <1>1 DEF Base, OutcomeInv, KindsOfPhases
<1>3. phase'[f] = "complete" /\ \A h \in Files : h # f => phase'[h] = phase[h]
  BY <1>1 DEF Base, TypeInv, TypeOK
<1>4. Open = {} /\ Open' = {}
  BY <1>1, <1>3, NothingBelow DEF Base, Open
<1>5. \A h \in Files : ~Implementing(h)' /\ (Implementing(h) <=> h = f)
  BY <1>1, <1>3, <1>4, NoFileAssumption DEF Implementing
<1>6. \A h \in Files : Loaded(h)' <=> Loaded(h)
  BY <1>1, <1>3 DEF Loaded
<1>. QED BY <1>1, <1>2, <1>3, <1>4, <1>5, <1>6

(***************************************************************************)
(* What the sessions are found by.                                         *)
(***************************************************************************)
LEMMA NamesInit == Init => NamesInv
<1>. SUFFICES ASSUME Init PROVE NamesInv
  OBVIOUS
<1>1. ElementsOf(<< >>) = {}
  BY DEF ElementsOf
<1>2. KnownAreFound
  BY KeysContainNames DEF Init, KnownAreFound, NoUnit
<1>3. FoundByName /\ SessionsAreNamed /\ FailedAreGarbage
  BY DEF Init, FoundByName, SessionsAreNamed, FailedAreGarbage, Loaded
<1>4. UsesAreLeft
  BY <1>1 DEF Init, UsesAreLeft
<1>. QED BY <1>2, <1>3, <1>4 DEF NamesInv

\* The name that a file declares, and the one that it is kept under.
LEMMA KeyFacts ==
  ASSUME MadeUpNames, TypeInv, NEW f \in Files
  PROVE  /\ HasHeader(f) => Key(f) = src[f].name /\ src[f].name \in Names
         /\ Key(f) \in Names => HasHeader(f)
         /\ Key(f) \in Keys
BY ContentFacts, KeysContainNames DEF TypeInv, TypeOK, Key, MadeUpNames, Keys

LEMMA UsesInImports ==
  \A f : /\ ElementsOf(FirstUses(f)) \subseteq Imports(f)
         /\ ElementsOf(MUses(f)) \subseteq Imports(f)
BY DEF FirstUses, Imports, IUses

LEMMA NamesOpen ==
  ASSUME MadeUpNames, Base, NamesInv, NEW f \in Files, OpenStep(f)
  PROVE  NamesInv'
<1>1. UNCHANGED src /\ phase[f] = "unloaded" /\ BeginCompilationUnit(f)
  BY DEF OpenStep, OpenSession
<1>2. /\ \A g : Kind(g)' = Kind(g) /\ HasHeader(g)' = HasHeader(g)
                /\ Imports(g)' = Imports(g)
      /\ src' = src
  BY <1>1, ContentConstant
<1>3. \A h \in Files : (Loaded(h)' <=> Loaded(h) \/ h = f) /\ (h # f => phase'[h] = phase[h])
  BY OpenStepFacts
<1>4. FoundByName'
  <2>1. HasHeader(f) => src[f].name \notin Runtime /\ Index[src[f].name] = f
    BY NoFileAssumption DEF OpenStep, Base, OwnNames, EntryNamed, WellNamed
  <2>. QED BY <2>1, <1>2, <1>3 DEF NamesInv, FoundByName
<1>5. SessionsAreNamed'
  <2>1. SUFFICES ASSUME NEW n \in Names, byName'[n] # NoFile
                 PROVE  /\ phase'[byName'[n]] # "unloaded"
                        /\ HasHeader(byName'[n]) /\ src[byName'[n]].name = n
    BY <1>2 DEF SessionsAreNamed, Loaded
  <2>2. byName'[n] = byName[n] \/ (byName'[n] = f /\ HasHeader(f) /\ src[f].name = n)
    BY <1>1 DEF BeginCompilationUnit, Base, TypeInv, TypeOK
  <2>3. CASE byName'[n] = byName[n]
    <3>1. byName[n] \in Files
      BY <2>1, <2>3 DEF Base, TypeInv, TypeOK, FileOrNone
    <3>. QED BY <2>1, <2>3, <3>1, <1>3 DEF NamesInv, SessionsAreNamed, Loaded
  <2>. QED BY <2>2, <2>3, <1>3 DEF Loaded
<1>6. KnownAreFound'
  <2>1. SUFFICES ASSUME NEW n \in Names, units'[n].known
                 PROVE  \E g \in Files : Loaded(g)' /\ HasHeader(g) /\ src[g].name = n
    BY <1>2 DEF KnownAreFound
  <2>2. n \in Keys /\ active \in FileOrNone
    BY KeysContainNames DEF Base, TypeInv, TypeOK
  <2>3. units[n].known \/ n = Key(f)
    BY <2>1, <2>2, OpenBegins DEF OpenStep, Base
  <2>. QED BY <2>1, <2>3, <1>3, KeyFacts DEF Base, NamesInv, KnownAreFound
<1>7. UsesAreLeft'
  <2>1. ElementsOf(todo'[f]) \subseteq Imports(f)
    BY UsesInImports DEF OpenStep
  <2>. QED BY <2>1, <1>2, OpenStepFacts DEF NamesInv, UsesAreLeft
<1>8. FailedAreGarbage'
  BY <1>2, OpenStepFacts DEF NamesInv, FailedAreGarbage
<1>. QED BY <1>4, <1>5, <1>6, <1>7, <1>8 DEF NamesInv

\* A step that opens no session.
LEMMA NamesStay ==
  ASSUME NamesInv, UNCHANGED <<src, byName>>,
         \A h \in Files : Loaded(h)' <=> Loaded(h),
         \A n \in Names : units'[n].known =>
           \/ units[n].known
           \/ \E f \in Files : Loaded(f) /\ HasHeader(f) /\ src[f].name = n,
         \A h \in Files : ElementsOf(todo'[h]) \subseteq Imports(h),
         \A h \in Files : phase'[h] = "failed" => Kind(h) = "garbage",
         TypeInv
  PROVE  NamesInv'
<1>1. /\ \A g : Kind(g)' = Kind(g) /\ HasHeader(g)' = HasHeader(g)
                /\ Imports(g)' = Imports(g)
      /\ src' = src /\ byName' = byName
  BY ContentConstant
<1>2. FoundByName'
  BY <1>1 DEF NamesInv, FoundByName
<1>3. \A n \in Names : byName[n] \in Files \/ byName[n] = NoFile
  BY DEF TypeInv, TypeOK, FileOrNone
<1>4. SessionsAreNamed'
  BY <1>1, <1>3 DEF NamesInv, SessionsAreNamed
<1>5. KnownAreFound'
  BY <1>1 DEF NamesInv, KnownAreFound
<1>. QED BY <1>1, <1>2, <1>4, <1>5 DEF NamesInv, UsesAreLeft, FailedAreGarbage

LEMMA NamesStep ==
  ASSUME MadeUpNames, Base, NamesInv, [Next]_vars
  PROVE  NamesInv'
<1>1. /\ \A h \in Files : ElementsOf(todo[h]) \subseteq Imports(h)
      /\ \A h \in Files : phase[h] = "failed" => Kind(h) = "garbage"
      /\ TypeInv
  BY DEF NamesInv, UsesAreLeft, FailedAreGarbage, Base
<1>2. units \in [Keys -> Unit] /\ Names \subseteq Keys
  BY <1>1, KeysContainNames DEF TypeInv, TypeOK
<1>3. CASE LookStep
  <2>1. UNCHANGED <<src, byName, units, phase>>
    BY <1>3 DEF LookStep
  <2>2. \A h \in Files : ElementsOf(todo'[h]) \subseteq Imports(h)
    BY <1>1, <1>3, LookStepFacts
  <2>. QED BY <2>1, <2>2, <1>1, <1>3, LookStepFacts, NamesStay
<1>4. ASSUME NEW f \in Files, ReturnStep(f)
      PROVE  NamesInv'
  <2>1. /\ UNCHANGED <<src, byName, todo>> /\ Loaded(f)
        /\ \A h \in Files : Loaded(h)' <=> Loaded(h)
        /\ \A h \in Files : h # f => phase'[h] = phase[h]
    BY <1>4, ReturnStepFacts DEF ReturnStep, Loaded
  <2>2. PICK own \in Nat, p \in {"ready", "complete", "failed"}, u \in Unit :
          /\ phase' = [phase EXCEPT ![f] = p]
          /\ units' = [units EXCEPT ![Key(f)] = u]
          /\ Outcome(f, own, p, u)
    BY <1>4 DEF ReturnStep
  <2>3. phase'[f] = "failed" => Kind(f) = "garbage"
    BY <2>2 DEF Outcome, Base, TypeInv, TypeOK
  <2>4. \A n \in Names : units'[n].known =>
          units[n].known \/ (Loaded(f) /\ HasHeader(f) /\ src[f].name = n)
    <3>. SUFFICES ASSUME NEW n \in Names, n = Key(f)
                  PROVE  Loaded(f) /\ HasHeader(f) /\ src[f].name = n
      BY <1>2, <2>2
    <3>. QED BY <2>1, <1>1, KeyFacts
  <2>. QED BY <2>1, <2>3, <2>4, <1>1, NamesStay
<1>5. ASSUME NEW f \in Files, StartImplementation(f)
      PROVE  NamesInv'
  <2>1. \A h \in Files : ElementsOf(todo'[h]) \subseteq Imports(h)
    BY <1>1, <1>5, StartFacts, UsesInImports
  <2>. QED BY <2>1, <1>1, <1>5, StartFacts, NamesStay
<1>6. ASSUME NEW f \in Files, FinishImplementation(f)
      PROVE  NamesInv'
  <2>1. /\ UNCHANGED <<src, byName, todo>> /\ Loaded(f)
        /\ \A h \in Files : Loaded(h)' <=> Loaded(h)
        /\ \A h \in Files : phase'[h] = "failed" => Kind(h) = "garbage"
        /\ HasHeader(f)
    BY <1>1, <1>6, EndFacts DEF Loaded, HasHeader
  <2>2. Key(f) \in Keys /\ Key(f) = src[f].name
    BY <1>1, <2>1, KeyFacts
  <2>3. \A n \in Names : units'[n].known =>
          units[n].known \/ (Loaded(f) /\ HasHeader(f) /\ src[f].name = n)
    <3>1. \A n \in Names : n # Key(f) => units'[n] = units[n]
      BY <1>2, <1>6 DEF FinishImplementation
    <3>. QED BY <3>1, <2>1, <2>2
  <2>. QED BY <2>1, <2>3, <1>1, NamesStay
<1>7. CASE QuietStep
  <2>1. UNCHANGED <<src, byName, todo, phase>> /\ \A h \in Files : Loaded(h)' <=> Loaded(h)
    BY <1>7 DEF QuietStep, Loaded
  <2>2. \A n \in Names : units'[n].known => units[n].known
    <3>1. ASSUME NEW k \in Keys, Demote(k)
          PROVE  \A n \in Names : units'[n].known => units[n].known
      <4>1. PICK w \in Unit : w = units[k]
        BY <1>2
      <4>2. units' = [units EXCEPT ![k] = [w EXCEPT !.ok = FALSE]]
        BY <3>1, <4>1 DEF Demote
      <4>3. [w EXCEPT !.ok = FALSE].known = w.known
        BY DEF Unit
      <4>. QED BY <1>2, <4>1, <4>2, <4>3
    <3>. QED BY <3>1, <1>7 DEF QuietStep
  <2>. QED BY <2>1, <2>2, <1>1, NamesStay
<1>. QED BY <1>3, <1>4, <1>5, <1>6, <1>7, StepCases, NamesOpen

(***************************************************************************)
(* No name is forgotten: when nothing is left to look at, every file that  *)
(* can be reached and read has been opened.                                *)
(***************************************************************************)
Seen(n) == \/ n \in Runtime \/ Index[n] = NoFile
           \/ Kind(Index[n]) = "unreadable" \/ Loaded(Index[n])

FirstLooked == \A f \in Files : Loaded(f) =>
  \A n \in ElementsOf(FirstUses(f)) :
    Seen(n) \/ (f \in Open /\ n \in ElementsOf(todo[f]))
LastLooked == \A f \in Files : Implementing(f) \/ phase[f] = "complete" =>
  \A n \in ElementsOf(MUses(f)) :
    Seen(n) \/ (Implementing(f) /\ n \in ElementsOf(todo[f]))
EntryFound == stage # "entry" /\ Kind(Entry) # "unreadable" => Loaded(Entry)
LookedInv == FirstLooked /\ LastLooked /\ EntryFound

LEMMA LookedInit == Init => LookedInv
BY DEF Init, LookedInv, FirstLooked, LastLooked, EntryFound, Loaded, Implementing, Open

\* A step by which no file is opened or left.
LEMMA LookedStays ==
  ASSUME LookedInv, TypeInv, UNCHANGED src,
         \A h \in Files : Loaded(h)' <=> Loaded(h),
         Open' = Open,
         \A h \in Files : Implementing(h)' <=> Implementing(h),
         \A h \in Files : phase'[h] = "complete" => phase[h] = "complete",
         \A h \in Files : \A n \in ElementsOf(todo[h]) : n \in ElementsOf(todo'[h]) \/ Seen(n),
         stage' # "entry" /\ Kind(Entry) # "unreadable" => stage # "entry"
  PROVE  LookedInv'
<1>1. /\ \A f : Kind(f)' = Kind(f) /\ MUses(f)' = MUses(f) /\ FirstUses(f)' = FirstUses(f)
  BY ContentConstant
<1>2. \A n \in Names : Seen(n) => Seen(n)'
  BY <1>1, IndexAssumption DEF Seen
<1>3. \A f \in Files : /\ ElementsOf(FirstUses(f)) \subseteq Names
                       /\ ElementsOf(MUses(f)) \subseteq Names
  BY UsesAreNames
<1>4. FirstLooked'
  BY <1>1, <1>2, <1>3 DEF LookedInv, FirstLooked
<1>5. LastLooked'
  BY <1>1, <1>2, <1>3 DEF LookedInv, LastLooked
<1>6. EntryFound'
  BY <1>1, EntryAssumption DEF LookedInv, EntryFound
<1>. QED BY <1>4, <1>5, <1>6 DEF LookedInv

LEMMA LookedOpen ==
  ASSUME Base, LookedInv, NEW f \in Files, OpenStep(f)
  PROVE  LookedInv'
<1>1. UNCHANGED src /\ stage' = stage /\ todo'[f] = FirstUses(f) /\ f \in Open'
  BY OpenStepFacts DEF OpenStep
<1>2. \A g : Kind(g)' = Kind(g) /\ MUses(g)' = MUses(g) /\ FirstUses(g)' = FirstUses(g)
  BY <1>1, ContentConstant
<1>3. \A h \in Files : /\ ElementsOf(FirstUses(h)) \subseteq Names
                       /\ ElementsOf(MUses(h)) \subseteq Names
  BY UsesAreNames DEF Base
<1>4. \A n \in Names : Seen(n) \/ Index[n] = f => Seen(n)'
  BY <1>2, IndexAssumption, OpenStepFacts DEF Seen
<1>5. ASSUME NEW h \in Files, h # f, NEW n \in Names, n \in ElementsOf(todo[h])
      PROVE  n \in ElementsOf(todo'[h]) \/ Index[n] = f
  BY <1>5, OpenStepFacts
<1>6. FirstLooked'
  <2>1. SUFFICES ASSUME NEW h \in Files, Loaded(h)', NEW n \in ElementsOf(FirstUses(h))
                 PROVE  Seen(n)' \/ (h \in Open' /\ n \in ElementsOf(todo'[h]))
    BY <1>2 DEF FirstLooked
  <2>2. CASE h = f
    BY <2>1, <2>2, <1>1
  <2>3. CASE h # f
    <3>1. Loaded(h) /\ n \in Names /\ (h \in Open => h \in Open')
      BY <2>1, <2>3, <1>3, OpenStepFacts
    <3>2. Seen(n) \/ (h \in Open /\ n \in ElementsOf(todo[h]))
      BY <2>1, <3>1 DEF LookedInv, FirstLooked
    <3>. QED BY <2>3, <3>1, <3>2, <1>4, <1>5
  <2>. QED BY <2>2, <2>3
<1>7. LastLooked'
  <2>1. SUFFICES ASSUME NEW h \in Files, Implementing(h)' \/ phase'[h] = "complete",
                        NEW n \in ElementsOf(MUses(h))
                 PROVE  Seen(n)' \/ (Implementing(h)' /\ n \in ElementsOf(todo'[h]))
    BY <1>2 DEF LastLooked
  <2>2. h # f /\ n \in Names /\ (Implementing(h) \/ phase[h] = "complete")
    BY <2>1, <1>3, OpenStepFacts
  <2>3. Seen(n) \/ (Implementing(h) /\ n \in ElementsOf(todo[h]))
    BY <2>2 DEF LookedInv, LastLooked
  <2>4. Implementing(h) => Implementing(h)'
    BY OpenStepFacts
  <2>. QED BY <2>2, <2>3, <2>4, <1>4, <1>5
<1>8. EntryFound'
  BY <1>1, <1>2, EntryAssumption, OpenStepFacts DEF LookedInv, EntryFound
<1>. QED BY <1>6, <1>7, <1>8 DEF LookedInv

LEMMA LookedReturn ==
  ASSUME Base, LookedInv, NEW f \in Files, ReturnStep(f)
  PROVE  LookedInv'
<1>1. /\ UNCHANGED <<src, todo, caller>> /\ f \in Open /\ Open' = Open \ {f} /\ Loaded(f)
      /\ ElementsOf(todo[f]) = {}
  BY ReturnStepFacts DEF ElementsOf, Loaded, Open
<1>2. \A g : Kind(g)' = Kind(g) /\ MUses(g)' = MUses(g) /\ FirstUses(g)' = FirstUses(g)
  BY <1>1, ContentConstant
<1>3. \A h \in Files : /\ ElementsOf(FirstUses(h)) \subseteq Names
                       /\ ElementsOf(MUses(h)) \subseteq Names
  BY UsesAreNames DEF Base
<1>4. \A n \in Names : Seen(n) => Seen(n)'
  BY <1>2, IndexAssumption, ReturnStepFacts DEF Seen
<1>5. \A n \in ElementsOf(FirstUses(f)) : Seen(n)
  BY <1>1 DEF LookedInv, FirstLooked
<1>6. FirstLooked'
  <2>1. SUFFICES ASSUME NEW h \in Files, Loaded(h), NEW n \in ElementsOf(FirstUses(h))
                 PROVE  Seen(n)' \/ (h \in Open' /\ n \in ElementsOf(todo'[h]))
    BY <1>2, ReturnStepFacts DEF FirstLooked
  <2>. QED BY <2>1, <1>1, <1>3, <1>4, <1>5 DEF LookedInv, FirstLooked
<1>7. LastLooked'
  <2>1. SUFFICES ASSUME NEW h \in Files, Implementing(h)' \/ phase'[h] = "complete",
                        NEW n \in ElementsOf(MUses(h))
                 PROVE  Seen(n)' \/ (Implementing(h)' /\ n \in ElementsOf(todo[h]))
    BY <1>1, <1>2 DEF LastLooked
  <2>2. CASE h = f
    <3>1. phase'[f] = "complete"
      BY <2>1, <2>2, ReturnStepFacts
    <3>2. Kind(f) \in {"program", "body"}
      BY <3>1 DEF ReturnStep, Outcome, Base, TypeInv, TypeOK
    <3>3. ElementsOf(MUses(f)) \subseteq ElementsOf(FirstUses(f))
      BY <3>2 DEF MUses, FirstUses, HasHeader, ElementsOf
    <3>. QED BY <2>1, <2>2, <3>3, <1>3, <1>4, <1>5
  <2>3. CASE h # f
    <3>1. Implementing(h) \/ phase[h] = "complete"
      BY <2>1, <2>3, ReturnStepFacts
    <3>2. Seen(n) \/ (Implementing(h) /\ n \in ElementsOf(todo[h]))
      BY <2>1, <3>1 DEF LookedInv, LastLooked
    <3>3. Implementing(h) => Implementing(h)'
      BY ReturnStepFacts
    <3>4. n \in Names
      BY <2>1, <1>3
    <3>. QED BY <3>2, <3>3, <3>4, <1>4
  <2>. QED BY <2>2, <2>3
<1>8. EntryFound'
  <2>1. \/ stage' = stage
        \/ caller[f] = NoFile
    BY DEF ReturnStep, ReturnFromParse
  <2>2. caller[f] = NoFile => f = Entry
    BY <1>1, NoFileAssumption DEF Base, KeptInv, EntryLeads
  <2>. QED BY <2>1, <2>2, <1>1, <1>2, EntryAssumption, ReturnStepFacts
           DEF LookedInv, EntryFound
<1>. QED BY <1>6, <1>7, <1>8 DEF LookedInv

LEMMA LookedImplementation ==
  ASSUME Base, LookedInv, NEW f \in Files, StartImplementation(f) \/ FinishImplementation(f)
  PROVE  LookedInv'
<1>1. /\ UNCHANGED src /\ stage' = stage
      /\ Open = {} /\ Open' = {} /\ ElementsOf(<< >>) = {}
      /\ \A h \in Files : Loaded(h)' <=> Loaded(h)
  BY StartFacts, EndFacts DEF ElementsOf
<1>2. \A g : Kind(g)' = Kind(g) /\ MUses(g)' = MUses(g) /\ FirstUses(g)' = FirstUses(g)
  BY <1>1, ContentConstant
<1>3. \A h \in Files : /\ ElementsOf(FirstUses(h)) \subseteq Names
                       /\ ElementsOf(MUses(h)) \subseteq Names
  BY UsesAreNames DEF Base
<1>4. \A n \in Names : Seen(n) => Seen(n)'
  BY <1>1, <1>2, IndexAssumption DEF Seen
<1>5. FirstLooked'
  BY <1>1, <1>2, <1>3, <1>4 DEF LookedInv, FirstLooked
<1>6. EntryFound'
  BY <1>1, <1>2, EntryAssumption DEF LookedInv, EntryFound
<1>7. CASE StartImplementation(f)
  <2>1. SUFFICES ASSUME NEW h \in Files, Implementing(h)' \/ phase'[h] = "complete",
                        NEW n \in ElementsOf(MUses(h))
                 PROVE  Seen(n)' \/ (Implementing(h)' /\ n \in ElementsOf(todo'[h]))
    BY <1>2, <1>5, <1>6 DEF LookedInv, LastLooked
  <2>2. CASE h = f
    BY <2>1, <2>2, <1>7, StartFacts
  <2>3. CASE h # f
    <3>1. phase[h] = "complete" /\ ~Implementing(h) /\ n \in Names
      BY <2>1, <2>3, <1>3, <1>7, StartFacts
    <3>. QED BY <2>1, <3>1, <1>4 DEF LookedInv, LastLooked
  <2>. QED BY <2>2, <2>3
<1>8. CASE FinishImplementation(f)
  <2>1. SUFFICES ASSUME NEW h \in Files, phase'[h] = "complete",
                        NEW n \in ElementsOf(MUses(h))
                 PROVE  Seen(n)'
    BY <1>2, <1>5, <1>6, <1>8, EndFacts DEF LookedInv, LastLooked
  <2>2. /\ Implementing(h) \/ phase[h] = "complete"
        /\ Implementing(h) => ElementsOf(todo[h]) = {}
    BY <2>1, <1>1, <1>8, EndFacts
  <2>. QED BY <2>1, <2>2, <1>3, <1>4 DEF LookedInv, LastLooked
<1>. QED BY <1>7, <1>8

LEMMA LookedStep ==
  ASSUME Base, NamesInv, LookedInv, [Next]_vars
  PROVE  LookedInv'
<1>1. CASE LookStep
  <2>1. Seen(NextImport)
    BY <1>1 DEF LookStep, Seen, Loaded
  <2>2. UNCHANGED <<src, phase, stage>> /\ TypeInv
    BY <1>1 DEF LookStep, Base
  <2>. QED BY <2>1, <2>2, <1>1, LookStepFacts, LookedStays
<1>2. CASE QuietStep
  <2>1. /\ UNCHANGED <<src, phase, todo>> /\ TypeInv /\ Open' = Open
        /\ \A h \in Files : (Loaded(h)' <=> Loaded(h)) /\ (Implementing(h)' <=> Implementing(h))
    BY <1>2 DEF QuietStep, Base, Open, Loaded, Implementing
  <2>2. stage' # "entry" /\ Kind(Entry) # "unreadable" => stage # "entry"
    BY <1>2 DEF QuietStep
  <2>. QED BY <2>1, <2>2, LookedStays
<1>. QED BY <1>1, <1>2, StepCases, LookedOpen, LookedReturn, LookedImplementation

(***************************************************************************)
(* What a session without an error tells of its file: the parts that are   *)
(* parsed are clean, and its first uses clause leads to files whose first  *)
(* parse ended before, so that there is no way round in a circle.          *)
(***************************************************************************)
Finished(f) == phase[f] \in {"ready", "complete"}
Left(g) == phase[g] \notin {"unloaded", "interface"}

PartsAreClean == \A f \in Files : ~hadError[f] =>
  /\ Finished(f) /\ Kind(f) = "unit" => ~src[f].ierr
  /\ phase[f] = "complete" => ~src[f].merr
FirstLeft == \A f \in Files : Loaded(f) /\ ~hadError[f] =>
  \A n \in ElementsOf(FirstUses(f)) \ Runtime :
    \/ Index[n] \in Files /\ Left(Index[n])
    \/ f \in Open /\ n \in ElementsOf(todo[f])
    \/ f \in Open /\ Index[n] \in Open /\ caller[Index[n]] = f
Ranked == \A C \in SUBSET {f \in Files : Finished(f) /\ ~hadError[f]} :
  C # {} => \E f \in C : FirstTargets(f) \cap C = {}
CleanInv == PartsAreClean /\ FirstLeft /\ Ranked

LEMMA CleanInit == Init => CleanInv
BY DEF Init, CleanInv, PartsAreClean, FirstLeft, Ranked, Finished, Loaded

\* The parts of the invariant that a step keeps when no first parse ends.
LEMMA CleanStays ==
  ASSUME CleanInv, TypeInv, UNCHANGED src, ErrorsStay,
         \A h \in Files : /\ Finished(h)' => Finished(h)
                          /\ Left(h) => Left(h)'
                          /\ ~hadError'[h] /\ phase'[h] = "complete" => ~src[h].merr
  PROVE  PartsAreClean' /\ Ranked'
<1>1. \A h : Kind(h)' = Kind(h) /\ FirstUses(h)' = FirstUses(h)
  BY ContentConstant
<1>2. \A h : FirstTargets(h)' = FirstTargets(h)
  BY <1>1 DEF FirstTargets
<1>3. PartsAreClean'
  BY <1>1 DEF CleanInv, PartsAreClean, ErrorsStay
<1>4. \A h \in Files : Finished(h)' /\ ~hadError'[h] => Finished(h) /\ ~hadError[h]
  BY DEF ErrorsStay
<1>5. {h \in Files : Finished(h)' /\ ~hadError'[h]} \subseteq {h \in Files : Finished(h) /\ ~hadError[h]}
  BY <1>4
<1>6. Ranked'
  <2>1. SUFFICES ASSUME NEW C \in SUBSET {h \in Files : Finished(h)' /\ ~hadError'[h]}, C # {}
                 PROVE  \E f \in C : FirstTargets(f) \cap C = {}
    BY <1>2 DEF Ranked
  <2>. QED BY <2>1, <1>5 DEF CleanInv, Ranked
<1>. QED BY <1>3, <1>6

LEMMA FirstLeftOpen ==
  ASSUME Base, CleanInv, NEW f \in Files, OpenStep(f)
  PROVE  FirstLeft'
<1>1. /\ UNCHANGED <<src, hadError>> /\ todo'[f] = FirstUses(f) /\ f \in Open'
      /\ Open' = Open \cup {f} /\ f \notin Open /\ ~Loaded(f) /\ caller'[f] = active
      /\ active \in FileOrNone /\ phase[f] = "unloaded"
  BY OpenStepFacts DEF OpenStep, Base, TypeInv, TypeOK
<1>2. \A g : FirstUses(g)' = FirstUses(g)
  BY <1>1, ContentConstant
<1>3. SUFFICES ASSUME NEW h \in Files, Loaded(h)', ~hadError[h],
                      NEW n \in ElementsOf(FirstUses(h)) \ Runtime
               PROVE  \/ Index[n] \in Files /\ Left(Index[n])'
                      \/ h \in Open' /\ n \in ElementsOf(todo'[h])
                      \/ h \in Open' /\ Index[n] \in Open' /\ caller'[Index[n]] = h
  BY <1>1, <1>2 DEF FirstLeft
<1>4. CASE h = f
  BY <1>1, <1>3, <1>4
<1>5. CASE h # f
  <2>1. Loaded(h)
    BY <1>3, <1>5, OpenStepFacts
  <2>2. CASE Index[n] \in Files /\ Left(Index[n])
    BY <2>2, <1>1, OpenStepFacts DEF Left
  <2>3. CASE h \in Open /\ n \in ElementsOf(todo[h])
    <3>1. n \in ElementsOf(todo'[h]) \/ (Index[n] = f /\ h = active)
      BY <2>3, <1>5, OpenStepFacts
    <3>. QED BY <3>1, <2>3, <1>1
  <2>4. CASE h \in Open /\ Index[n] \in Open /\ caller[Index[n]] = h
    <3>1. Index[n] \in Files /\ Index[n] # f
      BY <2>4, <1>1 DEF Open
    <3>. QED BY <3>1, <2>4, <1>1, OpenStepFacts
  <2>. QED BY <2>1, <2>2, <2>3, <2>4, <1>3 DEF CleanInv, FirstLeft
<1>. QED BY <1>4, <1>5

LEMMA FirstLeftLook ==
  ASSUME Base, CleanInv, LookStep
  PROVE  FirstLeft'
<1>1. /\ UNCHANGED <<src, phase, caller>> /\ Open' = Open /\ active \in Files
      /\ \A g \in Files : hadError[g] => hadError'[g]
      /\ \A h \in Files : Loaded(h)' <=> Loaded(h)
  BY LookStepFacts DEF LookStep
<1>2. \A g : FirstUses(g)' = FirstUses(g)
  BY <1>1, ContentConstant
<1>3. SUFFICES ASSUME NEW h \in Files, Loaded(h), ~hadError'[h], ~hadError[h],
                      NEW n \in ElementsOf(FirstUses(h)) \ Runtime
               PROVE  \/ Index[n] \in Files /\ Left(Index[n])
                      \/ h \in Open /\ n \in ElementsOf(todo'[h])
                      \/ h \in Open /\ Index[n] \in Open /\ caller[Index[n]] = h
  BY <1>1, <1>2 DEF FirstLeft, Left
<1>4. CASE h \in Open /\ n \in ElementsOf(todo[h])
  <2>1. n \in ElementsOf(todo'[h]) \/ (n = NextImport /\ h = active)
    BY <1>4, LookStepFacts
  <2>2. CASE n = NextImport /\ h = active
    BY <2>2, <1>3 DEF LookStep, Left
  <2>. QED BY <2>1, <2>2, <1>4
<1>. QED BY <1>3, <1>4 DEF CleanInv, FirstLeft

\* The session that returns waits for nothing.
LEMMA ReturnerIsDone ==
  ASSUME Base, CleanInv, NEW f \in Files, ReturnStep(f), ~hadError[f]
  PROVE  \A n \in ElementsOf(FirstUses(f)) \ Runtime :
           Index[n] \in Files /\ Left(Index[n])
<1>1. /\ Loaded(f) /\ f = active /\ ElementsOf(todo[f]) = {}
  BY ReturnStepFacts DEF ElementsOf, Loaded, Open
<1>2. \A g \in Open : caller[g] # f
  BY <1>1 DEF Base, StackInv, CallersWait
<1>. QED BY <1>1, <1>2 DEF CleanInv, FirstLeft

LEMMA ReturnErrors ==
  ASSUME Base, NEW f \in Files, ReturnStep(f)
  PROVE  /\ \A h \in Files : hadError[h] => hadError'[h]
         /\ ~hadError'[f] => Outcome(f, 0, phase'[f], units'[Key(f)])
<1>1. PICK own \in Nat, p \in {"ready", "complete", "failed"}, u \in Unit :
        /\ ReturnFromParse(f, own)
        /\ phase' = [phase EXCEPT ![f] = p]
        /\ units' = [units EXCEPT ![Key(f)] = u]
        /\ Outcome(f, own, p, u)
  BY DEF ReturnStep
<1>2. /\ hadError \in [Files -> BOOLEAN] /\ errors \in Nat /\ errsBefore[f] \in Nat
      /\ errsBefore[f] <= errors
      /\ phase'[f] = p /\ units'[Key(f)] = u
  BY <1>1 DEF Base, TypeInv, TypeOK, ErrorsGrow, Keys, Key, HasHeader, Kind, Content
<1>3. \A h \in Files : hadError[h] => hadError'[h]
  BY <1>1 DEF ReturnFromParse, FailedNow
<1>4. ~hadError'[f] => errors + own = errsBefore[f]
  BY <1>1 DEF ReturnFromParse, FailedNow
<1>5. ~hadError'[f] => own = 0
  BY <1>2, <1>4
<1>. QED BY <1>1, <1>2, <1>3, <1>5

LEMMA CleanReturn ==
  ASSUME Base, CleanInv, NEW f \in Files, ReturnStep(f)
  PROVE  CleanInv'
<1>1. /\ UNCHANGED <<src, caller, todo>> /\ f \in Open /\ Open' = Open \ {f}
      /\ \A h \in Files : Loaded(h)' <=> Loaded(h)
      /\ \A h \in Files : h # f => phase'[h] = phase[h]
      /\ Left(f)' /\ phase[f] = "interface"
  BY ReturnStepFacts DEF Left, Open
<1>2. \A g : FirstUses(g)' = FirstUses(g) /\ Kind(g)' = Kind(g) /\ FirstTargets(g)' = FirstTargets(g)
  BY <1>1, ContentConstant DEF FirstTargets
<1>3. \A h \in Files : hadError[h] => hadError'[h]
  BY ReturnErrors
<1>4. \A h \in Files : Left(h) => Left(h)' /\ h # f
  BY <1>1 DEF Left
<1>5. PartsAreClean'
  <2>1. ASSUME ~hadError'[f]
        PROVE  /\ Finished(f)' /\ Kind(f) = "unit" => ~src[f].ierr
               /\ phase'[f] = "complete" => ~src[f].merr
    BY <2>1, ReturnErrors DEF Outcome, One
  <2>. QED BY <2>1, <1>1, <1>2, <1>3 DEF CleanInv, PartsAreClean, Finished
<1>6. FirstLeft'
  <2>1. SUFFICES ASSUME NEW h \in Files, Loaded(h), ~hadError[h],
                        NEW n \in ElementsOf(FirstUses(h)) \ Runtime
                 PROVE  \/ Index[n] \in Files /\ Left(Index[n])'
                        \/ h \in Open' /\ n \in ElementsOf(todo[h])
                        \/ h \in Open' /\ Index[n] \in Open' /\ caller[Index[n]] = h
    BY <1>1, <1>2, <1>3 DEF FirstLeft
  <2>2. CASE h = f
    BY <2>1, <2>2, <1>4, ReturnerIsDone
  <2>3. CASE h # f
    <3>1. \/ Index[n] \in Files /\ Left(Index[n])
          \/ h \in Open /\ n \in ElementsOf(todo[h])
          \/ h \in Open /\ Index[n] \in Open /\ caller[Index[n]] = h
      BY <2>1 DEF CleanInv, FirstLeft
    <3>2. Index[n] \in Open => Index[n] \in Open' \/ (Index[n] \in Files /\ Left(Index[n])')
      BY <1>1
    <3>. QED BY <3>1, <3>2, <2>3, <1>1, <1>4
  <2>. QED BY <2>2, <2>3
<1>7. Ranked'
  <2>1. SUFFICES ASSUME NEW C \in SUBSET {h \in Files : Finished(h)' /\ ~hadError'[h]}, C # {}
                 PROVE  \E g \in C : FirstTargets(g) \cap C = {}
    BY <1>2 DEF Ranked
  <2>2. \A h \in C : h # f => Finished(h) /\ ~hadError[h]
    BY <2>1, <1>1, <1>3 DEF Finished
  <2>3. ASSUME NEW g \in C, FirstTargets(g) \cap (C \ {f}) = {}
        PROVE  FirstTargets(g) \cap C = {}
    <3>. SUFFICES ASSUME f \in FirstTargets(g) PROVE FALSE
      BY <2>3
    <3>1. PICK n \in ElementsOf(FirstUses(g)) \ Runtime : Index[n] = f
      BY DEF FirstTargets
    <3>2. CASE g = f
      BY <3>1, <3>2, <1>3, <1>4, ReturnerIsDone
    <3>3. CASE g # f
      <4>1. Finished(g) /\ ~hadError[g] /\ g \notin Open /\ Loaded(g) /\ g \in Files
        BY <3>3, <2>2, <2>1 DEF Finished, Open, Loaded
      <4>. QED BY <4>1, <3>1, <1>4 DEF CleanInv, FirstLeft
    <3>. QED BY <3>2, <3>3
  <2>4. CASE C \ {f} = {}
    BY <2>1, <2>3, <2>4
  <2>5. CASE C \ {f} # {}
    <3>1. C \ {f} \in SUBSET {h \in Files : Finished(h) /\ ~hadError[h]}
      BY <2>1, <2>2
    <3>2. PICK g \in C \ {f} : FirstTargets(g) \cap (C \ {f}) = {}
      BY <3>1, <2>5 DEF CleanInv, Ranked
    <3>. QED BY <2>3, <3>2
  <2>. QED BY <2>4, <2>5
<1>. QED BY <1>5, <1>6, <1>7 DEF CleanInv

LEMMA CleanStep ==
  ASSUME Base, NamesInv, CleanInv, [Next]_vars
  PROVE  CleanInv'
<1>. USE DEF ErrorsStay
<1>1. TypeInv
  BY DEF Base
<1>2. \A h \in Files : ~hadError[h] /\ phase[h] = "complete" => ~src[h].merr
  BY DEF CleanInv, PartsAreClean
<1>3. ASSUME NEW f \in Files, OpenStep(f)
      PROVE  CleanInv'
  <2>1. /\ UNCHANGED <<src, hadError>>
        /\ \A h \in Files : /\ Finished(h)' => Finished(h)
                            /\ Left(h) => Left(h)'
                            /\ phase'[h] = "complete" => phase[h] = "complete"
    BY <1>3, OpenStepFacts DEF OpenStep, Finished, Left
  <2>. QED BY <2>1, <1>1, <1>2, <1>3, CleanStays, FirstLeftOpen DEF CleanInv
<1>4. CASE LookStep
  <2>1. /\ UNCHANGED <<src, phase>>
        /\ \A h \in Files : hadError[h] => hadError'[h]
        /\ \A h \in Files : (Finished(h)' => Finished(h)) /\ (Left(h) => Left(h)')
    BY <1>4 DEF LookStep, Finished, Left
  <2>. QED BY <2>1, <1>1, <1>2, <1>4, CleanStays, FirstLeftLook DEF CleanInv
<1>5. ASSUME UNCHANGED src, ErrorsStay, Open' = Open,
             \A h \in Open : caller'[h] = caller[h] /\ todo'[h] = todo[h],
             \A h \in Files : Loaded(h)' <=> Loaded(h),
             \A h \in Files : /\ Finished(h)' => Finished(h)
                              /\ Left(h) => Left(h)'
                              /\ ~hadError'[h] /\ phase'[h] = "complete" => ~src[h].merr
      PROVE  CleanInv'
  <2>1. PartsAreClean' /\ Ranked'
    BY <1>1, <1>5, CleanStays
  <2>2. \A g : FirstUses(g)' = FirstUses(g)
    BY <1>5, ContentConstant
  <2>3. FirstLeft'
    BY <1>5, <2>2 DEF CleanInv, FirstLeft
  <2>. QED BY <2>1, <2>3 DEF CleanInv
<1>6. ASSUME NEW f \in Files, StartImplementation(f)
      PROVE  CleanInv'
  <2>1. UNCHANGED <<src, phase, hadError>> /\ Open = {} /\ Open' = {}
    BY <1>6, StartFacts
  <2>. QED BY <2>1, <1>2, <1>5 DEF Loaded, Finished, Left
<1>7. ASSUME NEW f \in Files, FinishImplementation(f)
      PROVE  CleanInv'
  <2>1. /\ UNCHANGED src /\ Open = {} /\ Open' = {} /\ phase[f] = "ready"
        /\ phase'[f] = "complete" /\ \A h \in Files : h # f => phase'[h] = phase[h]
    BY <1>7, EndFacts
  <2>2. hadError' = [hadError EXCEPT ![f] = FailedNow(f, One(src[f].merr))]
    BY <1>7 DEF FinishImplementation
  <2>3. /\ hadError \in [Files -> BOOLEAN] /\ errors \in Nat /\ errsBefore[f] \in Nat
        /\ errsBefore[f] <= errors
    BY <1>1 DEF TypeInv, TypeOK, ErrorsGrow
  <2>4. ErrorsStay
    BY <2>2, <2>3 DEF FailedNow
  <2>5. ~hadError'[f] => ~src[f].merr
    <3>1. src[f].merr => One(src[f].merr) = 1
      BY DEF One
    <3>2. ~hadError'[f] => errors + One(src[f].merr) = errsBefore[f]
      BY <2>2, <2>3 DEF FailedNow
    <3>. QED BY <3>1, <3>2, <2>3
  <2>6. \A h \in Files : ~hadError'[h] /\ phase'[h] = "complete" => ~src[h].merr
    BY <2>1, <2>4, <2>5, <1>2
  <2>7. \A h \in Files : Loaded(h)' <=> Loaded(h)
    BY <1>7, EndFacts
  <2>8. \A h \in Files : (Finished(h)' => Finished(h)) /\ (Left(h) => Left(h)')
    BY <2>1 DEF Finished, Left
  <2>. QED BY <2>1, <2>4, <2>6, <2>7, <2>8, <1>5
<1>8. CASE QuietStep
  BY <1>2, <1>5, <1>8 DEF QuietStep, Open, Loaded, Finished, Left
<1>. QED BY <1>3, <1>4, <1>6, <1>7, <1>8, StepCases, CleanReturn

(***************************************************************************)
(* The files that Discovery calls usable meet no error on the way.         *)
(***************************************************************************)
Targets(names) == {Index[n] : n \in names \ Runtime} \ {NoFile}
CleanText(f) ==
  /\ Kind(f) \notin {"unreadable", "garbage"}
  /\ ~(Kind(f) = "unit" /\ src[f].ierr) /\ ~src[f].merr
  /\ \A n \in Imports(f) \ Runtime : Index[n] # NoFile
NoCircle(S) == \A C \in SUBSET S : C # {} => \E f \in C : FirstTargets(f) \cap C = {}
SelfContained(S) == /\ \A f \in S : CleanText(f) /\ Targets(Imports(f)) \subseteq S
                    /\ NoCircle(S)

\* Usable of Discovery, in the words of UnitGraph.
LEMMA AbstractWords ==
  ASSUME TypeInv, NEW f \in Files
  PROVE  /\ Abstract!InterfaceImports(f) = ElementsOf(FirstUses(f))
         /\ Abstract!Imports(f) = Imports(f)
         /\ Abstract!Clean(f) <=> CleanText(f)
<1>1. src[f].iuses \in Seq(Names) /\ src[f].muses \in Seq(Names)
  BY DEF TypeInv, TypeOK, Content
<1>2. \A s \in Seq(Names) : Abstract!Elements(s) = ElementsOf(s)
  BY DEF Abstract!Elements, ElementsOf
<1>3. ElementsOf(<< >>) = {}
  BY DEF ElementsOf
<1>4. Abstract!InterfaceImports(f) = ElementsOf(FirstUses(f))
  BY <1>1, <1>2, <1>3 DEF Abstract!InterfaceImports, Abstract!IsUnit, Abstract!HasHeader,
     FirstUses, MUses, HasHeader, Kind
<1>5. Abstract!Imports(f) = Imports(f)
  BY <1>1, <1>2, <1>3, <1>4 DEF Abstract!Imports, Abstract!HasHeader,
     Imports, IUses, FirstUses, MUses, HasHeader, Kind
<1>6. Abstract!Clean(f) <=> CleanText(f)
  BY <1>5 DEF Abstract!Clean, Abstract!Readable, Abstract!IsUnit, CleanText, Kind
<1>. QED BY <1>4, <1>5, <1>6

LEMMA UsableIsSelfContained ==
  ASSUME TypeInv, NEW S \in SUBSET Files
  PROVE  Abstract!Usable(S) <=> SelfContained(S)
<1>1. \A names : Abstract!TargetsOf(names) = Targets(names)
  BY DEF Abstract!TargetsOf, Targets
<1>2. \A f \in Files : Abstract!TargetsOf(Abstract!InterfaceImports(f)) = FirstTargets(f)
  BY AbstractWords DEF Abstract!TargetsOf, FirstTargets
<1>3. Abstract!Acyclic(S) <=> NoCircle(S)
  BY <1>2 DEF Abstract!Acyclic, NoCircle
<1>4. \A f \in S : /\ Abstract!Clean(f) <=> CleanText(f)
                   /\ Abstract!TargetsOf(Abstract!Imports(f)) = Targets(Imports(f))
  BY <1>1, AbstractWords
<1>. QED BY <1>3, <1>4 DEF Abstract!Usable, SelfContained

LEMMA SelfContainedConstant ==
  ASSUME UNCHANGED src, NEW S
  PROVE  SelfContained(S)' = SelfContained(S)
<1>1. \A f : /\ Kind(f)' = Kind(f) /\ Imports(f)' = Imports(f)
             /\ FirstTargets(f)' = FirstTargets(f)
  BY ContentConstant DEF FirstTargets
<1>2. \A f : CleanText(f)' = CleanText(f)
  BY <1>1 DEF CleanText
<1>3. NoCircle(S)' = NoCircle(S)
  BY <1>1 DEF NoCircle
<1>. QED BY <1>1, <1>2, <1>3 DEF SelfContained, Targets

\* The sessions of such a set are without error, wait for nothing outside
\* it, see no error being reported, and leave units that are ok.
NoErrors(S) == \A f \in S : ~hadError[f]
CallsStay(S) == \A g \in Open : caller[g] \in S => g \in S
Silent(S) == \A f \in S : f \in Open \/ Implementing(f) =>
                            active \in S /\ errors = errsBefore[f]
EndsOk(S) == \A f \in S : phase[f] = "complete" =>
  units[Key(f)].known /\ units[Key(f)].ok /\ units[Key(f)].ast = f
Safe(S) == NoErrors(S) /\ CallsStay(S) /\ Silent(S) /\ EndsOk(S)
SafeInv == \A S \in SUBSET Files : SelfContained(S) => Safe(S)

LEMMA SafeInit == Init => SafeInv
BY DEF Init, SafeInv, Safe, NoErrors, CallsStay, Silent, EndsOk, Open, Implementing

\* Two sessions keep their units apart, once one of them is complete.
LEMMA KeysApart ==
  ASSUME MadeUpNames, Base, NEW f \in Files, NEW h \in Files, f # h,
         Loaded(f), phase[h] = "complete"
  PROVE  Key(f) # Key(h)
<1>1. Loaded(h) /\ TypeInv
  BY DEF Loaded, Base
<1>2. CASE HasHeader(h)
  BY <1>1, <1>2, KeyFacts DEF Base, KeptInv, NamesAreApart
<1>3. CASE ~HasHeader(h)
  <2>1. Kind(h) = "body"
    BY <1>3, ContentFacts DEF HasHeader, Base, OutcomeInv, KindsOfPhases, TypeInv, TypeOK, Kind, Content
  <2>2. h = Entry /\ f # Entry
    BY <1>1, <2>1 DEF Base, KeptInv, EntryLeads
  <2>. QED BY <1>3, <2>2 DEF Base, KeptInv, EntryLeads
<1>. QED BY <1>2, <1>3

LEMMA SafeOpen ==
  ASSUME Base, NamesInv, NEW S \in SUBSET Files, SelfContained(S), Safe(S),
         NEW f \in Files, OpenStep(f)
  PROVE  Safe(S)'
<1>1. /\ UNCHANGED <<src, hadError, errors>> /\ active' = f /\ caller'[f] = active
      /\ errsBefore'[f] = errors /\ phase'[f] = "interface" /\ phase[f] = "unloaded"
      /\ Open' = Open \cup {f} /\ f \notin Open
      /\ active \in FileOrNone /\ S \subseteq Files
  BY OpenStepFacts DEF OpenStep, Base, TypeInv, TypeOK
<1>2. \A h \in Files : h # f => /\ phase'[h] = phase[h] /\ caller'[h] = caller[h]
                                /\ errsBefore'[h] = errsBefore[h]
                                /\ Implementing(h)' => Implementing(h)
  BY OpenStepFacts
<1>3. active \in S => f \in S
  <2>1. SUFFICES ASSUME active \in S PROVE f \in S
    OBVIOUS
  <2>2. /\ Importing /\ NextImport \in Names \ Runtime /\ Index[NextImport] = f
        /\ active \in Files
    BY <2>1, <1>1, NoFileAssumption DEF OpenStep
  <2>3. NextImport \in ElementsOf(todo[active])
    BY <2>2, ElementsOfTail DEF Importing, NextImport, Base, TypeInv, TypeOK
  <2>4. f \in Targets(Imports(active))
    BY <2>2, <2>3, NoFileAssumption DEF Targets, NamesInv, UsesAreLeft
  <2>. QED BY <2>1, <2>4 DEF SelfContained
<1>4. NoErrors(S)'
  BY <1>1 DEF Safe, NoErrors
<1>5. CallsStay(S)'
  BY <1>1, <1>2, <1>3 DEF Safe, CallsStay, Open
<1>6. Silent(S)'
  BY <1>1, <1>2, <1>3, OpenStepFacts DEF Safe, Silent
<1>7. EndsOk(S)'
  <2>1. SUFFICES ASSUME NEW h \in S, phase'[h] = "complete"
                 PROVE  units'[Key(h)].known /\ units'[Key(h)].ok /\ units'[Key(h)].ast = h
    BY <1>1, KeysConstant DEF EndsOk
  <2>2. h # f /\ phase[h] = "complete" /\ h \in Files
    BY <2>1, <1>1, <1>2
  <2>3. units[Key(h)].known /\ units[Key(h)].ok /\ units[Key(h)].ast = h
    BY <2>1, <2>2 DEF Safe, EndsOk
  <2>4. Key(h) \in Keys
    BY <2>2, ContentFacts, KeysContainNames DEF Base, TypeInv, TypeOK, Key, Keys
  <2>5. units'[Key(h)] = units[Key(h)]
    BY <2>3, <2>4, <1>1, OpenBegins DEF OpenStep, Base
  <2>. QED BY <2>3, <2>5
<1>. QED BY <1>4, <1>5, <1>6, <1>7 DEF Safe

\* A file leads to another one by one of its own first uses.
LEMMA LeadsOn ==
  ASSUME NEW f \in Files, NEW g \in Files, LeadsTo(f, g), f # g
  PROVE  \E h \in FirstTargets(f) : LeadsTo(h, g)
<1>. SUFFICES ASSUME \A h \in FirstTargets(f) : ~LeadsTo(h, g) PROVE FALSE
  OBVIOUS
<1>1. PICK W \in SUBSET Files : W = {h \in Files : ~LeadsTo(h, g)}
  OBVIOUS
<1>2. FirstTargets(f) \subseteq W
  BY <1>1 DEF LeadsTo
<1>3. \A h \in W : FirstTargets(h) \subseteq W
  <2>1. SUFFICES ASSUME NEW h \in W, NEW x \in FirstTargets(h) PROVE x \in W
    OBVIOUS
  <2>2. PICK T \in SUBSET Files :
          h \in T /\ (\A y \in T : FirstTargets(y) \subseteq T) /\ g \notin T
    BY <1>1 DEF LeadsTo
  <2>3. x \in T
    BY <2>1, <2>2
  <2>4. ~LeadsTo(x, g)
    BY <2>2, <2>3 DEF LeadsTo
  <2>. QED BY <1>1, <2>3, <2>4
<1>4. \A h \in W \cup {f} : FirstTargets(h) \subseteq W \cup {f}
  BY <1>2, <1>3
<1>5. g \notin W
  BY <1>1 DEF LeadsTo
<1>6. g \in W \cup {f}
  BY <1>4 DEF LeadsTo
<1>. QED BY <1>5, <1>6

LEMMA SafeLook ==
  ASSUME Base, NamesInv, NEW S \in SUBSET Files, SelfContained(S), Safe(S), LookStep
  PROVE  Safe(S)'
<1>1. /\ UNCHANGED <<src, phase, units, active, caller, errsBefore>> /\ active \in Files
      /\ Open' = Open /\ NextImport \in Names /\ NextImport \in ElementsOf(todo[active])
      /\ \A h \in Files : Implementing(h)' <=> Implementing(h)
  BY LookStepFacts DEF LookStep
<1>2. CallsStay(S)'
  BY <1>1 DEF Safe, CallsStay
<1>3. EndsOk(S)'
  BY <1>1, KeysConstant DEF Safe, EndsOk
<1>4. CASE active \notin S
  <2>1. NoErrors(S)'
    BY <1>4 DEF LookStep, Safe, NoErrors
  <2>2. Silent(S)'
    BY <1>1, <1>4 DEF Safe, Silent
  <2>. QED BY <1>2, <1>3, <2>1, <2>2 DEF Safe
<1>5. CASE active \in S
  <2>1. SUFFICES hadError' = hadError /\ errors' = errors
    BY <1>1, <1>2, <1>3 DEF Safe, NoErrors, Silent
  <2>2. CASE NextImport \in Runtime
    BY <2>2 DEF LookStep
  <2>3. CASE NextImport \notin Runtime
    <3>. DEFINE g == Index[NextImport]
    <3>1. NextImport \in Imports(active)
      BY <1>1 DEF NamesInv, UsesAreLeft
    <3>2. g # NoFile /\ g \in S
      BY <2>3, <3>1, <1>5 DEF SelfContained, CleanText, Targets
    <3>3. /\ Kind(g) \notin {"unreadable", "garbage"} /\ ~hadError[g]
          /\ phase[g] # "failed"
      BY <3>2 DEF SelfContained, CleanText, Safe, NoErrors, NamesInv, FailedAreGarbage
    <3>4. phase[g] # "interface"
      <4>1. SUFFICES ASSUME phase[g] = "interface" PROVE FALSE
        OBVIOUS
      <4>2. Importing
        BY DEF LookStep
      <4>3. byName[NextImport] # NoFile => byName[NextImport] = g
        BY <1>1, SessionOfName
      <4>4. phase[active] = "interface" /\ LeadsTo(g, active)
        BY <4>1, <4>2, <4>3, <3>2, <2>3 DEF Base, CycleReportsAreReal
      <4>5. g \in FirstTargets(active)
        BY <4>4, <1>1, <2>3, <3>2 DEF FirstTargets, Base, StackInv, TodoFromUses, Open
      <4>6. PICK C \in SUBSET S : C = {h \in S : LeadsTo(h, active)}
        OBVIOUS
      <4>7. g \in C
        BY <4>4, <4>6, <3>2
      <4>8. PICK h \in C : FirstTargets(h) \cap C = {}
        BY <4>7 DEF SelfContained, NoCircle
      <4>9. h # active
        BY <4>5, <4>7, <4>8
      <4>10. PICK t \in FirstTargets(h) : LeadsTo(t, active)
        BY <4>6, <4>8, <4>9, <1>1, LeadsOn
      <4>11. t \in Targets(Imports(h))
        BY <4>10, UsesInImports DEF FirstTargets, Targets
      <4>. QED BY <4>6, <4>8, <4>10, <4>11 DEF SelfContained
    <3>. QED BY <2>3, <3>2, <3>3, <3>4 DEF LookStep
  <2>. QED BY <2>2, <2>3
<1>. QED BY <1>4, <1>5

\* Whoever waits in the set waits for the session that runs.
LEMMA WaitersCall ==
  ASSUME Base, NEW S \in SUBSET Files, Safe(S), active \in Open,
         NEW h \in S, h # active, h \in Open \/ Implementing(h)
  PROVE  caller[active] \in S
<1>. SUFFICES ASSUME caller[active] \notin S PROVE FALSE
  OBVIOUS
<1>1. /\ active \in FileOrNone /\ Open \subseteq Files
      /\ \A g \in Open : caller[g] \in FileOrNone
      /\ S \subseteq FileOrNone
  BY DEF Base, TypeInv, TypeOK, Open, FileOrNone
<1>2. PICK U \in SUBSET FileOrNone : U = (FileOrNone \ S) \cup {active}
  BY <1>1
<1>3. ClosedUnderCallers(U)
  <2>1. ASSUME NEW g \in Open \cap U PROVE caller[g] \in U
    BY <2>1, <1>1, <1>2 DEF Safe, CallsStay
  <2>. QED BY <2>1, <1>2 DEF ClosedUnderCallers
<1>4. Open \subseteq U
  BY <1>3 DEF Base, StackInv, OneStack
<1>5. CASE h \in Open
  BY <1>2, <1>4, <1>5
<1>6. CASE Implementing(h)
  <2>1. PICK g \in Open : caller[g] = h
    BY <1>6 DEF Implementing
  <2>2. g \in S
    BY <2>1 DEF Safe, CallsStay
  <2>. QED BY <2>1, <2>2, <1>2, <1>4
<1>. QED BY <1>5, <1>6

LEMMA SafeReturn ==
  ASSUME MadeUpNames, Base, NEW S \in SUBSET Files, SelfContained(S), Safe(S),
         NEW f \in Files, ReturnStep(f)
  PROVE  Safe(S)'
<1>1. /\ UNCHANGED <<src, caller, errsBefore>> /\ f \in Open /\ Open' = Open \ {f}
      /\ f = active /\ active' = caller[f] /\ Loaded(f)
      /\ \A h \in Files : h # f => phase'[h] = phase[h]
      /\ \A h \in Files : Implementing(h)' => Implementing(h) /\ h # f
  BY ReturnStepFacts DEF Loaded, Open
<1>2. PICK own \in Nat, p \in {"ready", "complete", "failed"}, u \in Unit :
        /\ ReturnFromParse(f, own) /\ ReportErrors(own)
        /\ phase' = [phase EXCEPT ![f] = p]
        /\ units' = [units EXCEPT ![Key(f)] = u]
        /\ Outcome(f, own, p, u)
  BY DEF ReturnStep
<1>3. /\ hadError \in [Files -> BOOLEAN] /\ errors \in Nat /\ units \in [Keys -> Unit]
      /\ phase \in [Files -> Phases]
      /\ \A h \in Files : Key(h) \in Keys
  BY KeyFacts DEF Base, TypeInv, TypeOK
<1>4. phase'[f] = p /\ units'[Key(f)] = u
  BY <1>2, <1>3
<1>5. CallsStay(S)'
  BY <1>1 DEF Safe, CallsStay
<1>6. EndsOk(S)' <=> \A h \in S : phase'[h] = "complete" =>
                       units'[Key(h)].known /\ units'[Key(h)].ok /\ units'[Key(h)].ast = h
  BY <1>1, KeysConstant DEF EndsOk
<1>7. ASSUME NEW h \in S, h # f, phase'[h] = "complete"
      PROVE  units'[Key(h)].known /\ units'[Key(h)].ok /\ units'[Key(h)].ast = h
  <2>1. Key(h) # Key(f) /\ phase[h] = "complete" /\ h \in Files
    BY <1>1, <1>7, KeysApart
  <2>2. units'[Key(h)] = units[Key(h)]
    BY <2>1, <1>2, <1>3
  <2>. QED BY <2>1, <2>2 DEF Safe, EndsOk
<1>8. CASE f \in S
  <2>1. CleanText(f) /\ ~hadError[f] /\ errors = errsBefore[f]
    BY <1>1, <1>8 DEF SelfContained, Safe, NoErrors, Silent
  <2>2. own = 0
    BY <2>1, <1>2 DEF Outcome, CleanText, One
  <2>3. ~FailedNow(f, own) /\ NewErrors(f, own) = 0 /\ errors' = errors
    BY <2>1, <2>2, <1>2, <1>3 DEF FailedNow, NewErrors, ReportErrors
  <2>4. NoErrors(S)'
    BY <2>3, <1>2 DEF ReturnFromParse, Safe, NoErrors
  <2>5. Silent(S)'
    <3>1. SUFFICES ASSUME NEW h \in S, h \in Open' \/ Implementing(h)'
                   PROVE  active' \in S /\ errors' = errsBefore'[h]
      BY DEF Silent
    <3>2. h # f /\ (h \in Open \/ Implementing(h))
      BY <3>1, <1>1
    <3>3. caller[f] \in S
      BY <3>2, <1>1, WaitersCall
    <3>. QED BY <3>2, <3>3, <2>3, <1>1 DEF Safe, Silent
  <2>6. phase'[f] = "complete" => u.known /\ u.ok /\ u.ast = f
    BY <1>2, <1>4, <2>3 DEF Outcome, CleanSoFar
  <2>. QED BY <1>4, <1>5, <1>6, <1>7, <2>4, <2>5, <2>6 DEF Safe
<1>9. CASE f \notin S
  <2>1. caller[f] \notin S
    BY <1>1, <1>9 DEF Safe, CallsStay
  <2>2. NoErrors(S)'
    BY <2>1, <1>2, <1>9 DEF ReturnFromParse, Safe, NoErrors
  <2>3. Silent(S)'
    BY <1>1, <1>9 DEF Safe, Silent
  <2>. QED BY <1>5, <1>6, <1>7, <1>9, <2>2, <2>3 DEF Safe
<1>. QED BY <1>8, <1>9

LEMMA SafeStart ==
  ASSUME Base, NEW S \in SUBSET Files, Safe(S), NEW f \in Files, StartImplementation(f)
  PROVE  Safe(S)'
<1>1. UNCHANGED <<src, phase, hadError, units, errors>> /\ Open' = {}
  BY StartFacts
<1>2. Silent(S)'
  BY StartFacts DEF Silent
<1>. QED BY <1>1, <1>2, KeysConstant DEF Safe, NoErrors, CallsStay, EndsOk

LEMMA SafeEnd ==
  ASSUME MadeUpNames, Base, NEW S \in SUBSET Files, SelfContained(S), Safe(S),
         NEW f \in Files, FinishImplementation(f)
  PROVE  Safe(S)'
<1>1. /\ UNCHANGED src /\ active = f /\ phase[f] = "ready" /\ Implementing(f) /\ Loaded(f)
      /\ Kind(f) = "unit" /\ phase'[f] = "complete"
      /\ \A h \in Files : h # f => phase'[h] = phase[h]
      /\ CallsStay(S)' /\ Silent(S)'
  BY EndFacts DEF CallsStay, Silent, Loaded
<1>2. PICK own \in Nat : own = One(src[f].merr)
  BY DEF One
<1>3. /\ hadError' = [hadError EXCEPT ![f] = FailedNow(f, own)]
      /\ units' = IF units[Key(f)].known
                  THEN [units EXCEPT ![Key(f)].ast = f,
                                     ![Key(f)].ok = CleanSoFar(f, own)]
                  ELSE units
  BY <1>2 DEF FinishImplementation
<1>4. /\ hadError \in [Files -> BOOLEAN] /\ errors \in Nat /\ units \in [Keys -> Unit]
      /\ \A h \in Files : Key(h) \in Keys
  BY KeyFacts DEF Base, TypeInv, TypeOK
<1>5. ASSUME NEW h \in S, h # f, phase'[h] = "complete"
      PROVE  units'[Key(h)].known /\ units'[Key(h)].ok /\ units'[Key(h)].ast = h
  <2>1. Key(h) # Key(f) /\ phase[h] = "complete" /\ h \in Files
    BY <1>1, <1>5, KeysApart
  <2>2. units'[Key(h)] = units[Key(h)]
    BY <2>1, <1>3, <1>4
  <2>. QED BY <2>1, <2>2 DEF Safe, EndsOk
<1>6. f \in S => ~FailedNow(f, own)
  <2>1. SUFFICES ASSUME f \in S PROVE ~FailedNow(f, own)
    OBVIOUS
  <2>2. CleanText(f) /\ ~hadError[f] /\ errors = errsBefore[f]
    BY <2>1, <1>1 DEF SelfContained, Safe, NoErrors, Silent
  <2>3. own = 0
    BY <2>2, <1>2 DEF CleanText, One
  <2>. QED BY <2>2, <2>3, <1>4 DEF FailedNow
<1>7. NoErrors(S)'
  BY <1>3, <1>4, <1>6 DEF Safe, NoErrors
<1>8. f \in S => units'[Key(f)].known /\ units'[Key(f)].ok /\ units'[Key(f)].ast = f
  <2>1. SUFFICES ASSUME f \in S
                 PROVE  units'[Key(f)].known /\ units'[Key(f)].ok /\ units'[Key(f)].ast = f
    OBVIOUS
  <2>2. units[Key(f)].known
    BY <1>1 DEF Base, KeptInv, FinishedAreKnown
  <2>3. PICK w \in Unit : w = units[Key(f)]
    BY <1>4
  <2>4. CleanSoFar(f, own) = TRUE
    BY <2>1, <1>6 DEF CleanSoFar
  <2>5. units' = [units EXCEPT ![Key(f)] = [w EXCEPT !.ast = f, !.ok = TRUE]]
    BY <2>2, <2>3, <2>4, <1>3
  <2>6. /\ [w EXCEPT !.ast = f, !.ok = TRUE].known
        /\ [w EXCEPT !.ast = f, !.ok = TRUE].ok
        /\ [w EXCEPT !.ast = f, !.ok = TRUE].ast = f
    BY <2>2, <2>3 DEF Unit
  <2>. QED BY <2>5, <2>6, <1>4
<1>9. EndsOk(S)'
  BY <1>1, <1>5, <1>8, KeysConstant DEF EndsOk
<1>. QED BY <1>1, <1>7, <1>9 DEF Safe

\* The name of an import that units_ knows: its file is open, and it is the
\* one that the search finds.
LEMMA KnownImport ==
  ASSUME MadeUpNames, Base, NamesInv, NEW n \in Names, units[n].known
  PROVE  \E g \in Files : /\ Loaded(g) /\ HasHeader(g) /\ Key(g) = n
                          /\ n \notin Runtime /\ Index[n] = g
BY KeyFacts DEF NamesInv, KnownAreFound, FoundByName, Base

LEMMA SafeQuiet ==
  ASSUME MadeUpNames, Base, NamesInv, NEW S \in SUBSET Files, SelfContained(S), Safe(S),
         QuietStep
  PROVE  Safe(S)'
<1>1. UNCHANGED <<src, phase, hadError, errors, active, caller, todo, errsBefore>>
  BY DEF QuietStep
<1>2. NoErrors(S)' /\ CallsStay(S)' /\ Silent(S)'
  BY <1>1 DEF Safe, NoErrors, CallsStay, Silent, Open, Implementing
<1>3. SUFFICES ASSUME NEW f \in S, phase[f] = "complete"
               PROVE  units'[Key(f)].known /\ units'[Key(f)].ok /\ units'[Key(f)].ast = f
  BY <1>1, <1>2, KeysConstant DEF Safe, EndsOk
<1>4. units[Key(f)].known /\ units[Key(f)].ok /\ units[Key(f)].ast = f
  BY <1>3 DEF Safe, EndsOk
<1>5. units \in [Keys -> Unit] /\ TypeInv
  BY DEF Base, TypeInv, TypeOK
<1>6. ASSUME NEW k \in Keys, Demote(k)
      PROVE  units'[Key(f)] = units[Key(f)]
  <2>1. SUFFICES ASSUME k = Key(f) PROVE FALSE
    BY <1>5, <1>6 DEF Demote
  <2>2. PICK n \in Imports(f) : units[n].known /\ ~units[n].ok
    BY <1>4, <1>6, <2>1 DEF Demote, DependencyFailed
  <2>3. n \in Names
    BY <1>5, <2>2, UsesAreNames
  <2>4. PICK g \in Files : /\ Loaded(g) /\ Key(g) = n /\ n \notin Runtime /\ Index[n] = g
    BY <2>2, <2>3, KnownImport
  <2>5. g \in S
    BY <2>2, <2>4, NoFileAssumption DEF SelfContained, Targets
  <2>6. phase[g] # "failed"
    BY <2>5 DEF SelfContained, CleanText, NamesInv, FailedAreGarbage
  <2>7. phase[g] = "complete"
    BY <1>5, <1>6, <2>4, <2>6 DEF Demote, Base, CountInv, Over, Loaded, TypeInv, TypeOK, Phases
  <2>. QED BY <2>2, <2>4, <2>5, <2>7 DEF Safe, EndsOk
<1>. QED BY <1>4, <1>6 DEF QuietStep

LEMMA SafeStep ==
  ASSUME MadeUpNames, Base, NamesInv, SafeInv, [Next]_vars
  PROVE  SafeInv'
<1>1. SUFFICES ASSUME NEW S \in SUBSET Files, SelfContained(S) PROVE Safe(S)'
  BY SourcesStay, SelfContainedConstant DEF SafeInv
<1>2. Safe(S)
  BY <1>1 DEF SafeInv
<1>. QED BY <1>1, <1>2, StepCases, SafeOpen, SafeLook, SafeReturn, SafeStart, SafeEnd,
            SafeQuiet

(***************************************************************************)
(* At the end, what was opened is what can be reached, and the ok units    *)
(* are those of the usable files.                                          *)
(***************************************************************************)
RefinementInv == Base /\ NamesInv /\ LookedInv /\ CleanInv /\ SafeInv

Found == {f \in Files : Loaded(f)}
AllOver == \A f \in Found : phase[f] \in {"complete", "failed"}

LEMMA AllIsFound ==
  ASSUME RefinementInv, AllOver, stage # "entry"
  PROVE  Abstract!Reachable \subseteq Found
<1>1. TypeInv
  BY DEF RefinementInv, Base
<1>2. ASSUME NEW f \in Found, NEW n \in Imports(f) \ Runtime, Index[n] \in Files,
             Kind(Index[n]) # "unreadable"
      PROVE  Index[n] \in Found
  <2>1. phase[f] = "complete"
    <3>1. Kind(f) # "garbage"
      BY <1>2 DEF Imports, IUses, MUses, HasHeader, ElementsOf
    <3>. QED BY <3>1 DEF AllOver, RefinementInv, NamesInv, FailedAreGarbage, Found
  <2>2. ~Implementing(f) /\ f \notin Open /\ Loaded(f) /\ f \in Files
    BY <2>1 DEF Implementing, Open, Found
  <2>3. n \in ElementsOf(FirstUses(f)) \/ n \in ElementsOf(MUses(f))
    BY <1>2 DEF Imports, IUses, FirstUses, ElementsOf
  <2>4. Seen(n)
    BY <2>1, <2>2, <2>3 DEF RefinementInv, LookedInv, FirstLooked, LastLooked
  <2>. QED BY <2>4, <1>2, NoFileAssumption DEF Seen, Found
<1>3. Entry \in Abstract!Readable => Entry \in Found
  BY EntryAssumption DEF Abstract!Readable, Kind, Found, RefinementInv, LookedInv, EntryFound
<1>4. ASSUME NEW f \in Found, NEW g \in Abstract!TargetsOf(Abstract!Imports(f)),
             g \in Abstract!Readable
      PROVE  g \in Found
  <2>1. g \in Targets(Imports(f))
    BY <1>1, <1>4, AbstractWords DEF Abstract!TargetsOf, Targets, Found
  <2>. QED BY <2>1, <1>2, <1>4 DEF Targets, Abstract!Readable, Kind
<1>. QED BY <1>3, <1>4 DEF Abstract!Reachable, Found, Loaded

LEMMA VerdictIsUsable ==
  ASSUME MadeUpNames, RefinementInv, \A k \in Keys : ~DependencyFailed(k)
  PROVE  Verdict \subseteq Found /\ SelfContained(Verdict)
<1>1. Base /\ NamesInv /\ CleanInv /\ TypeInv
  BY DEF RefinementInv, Base
<1>2. ASSUME NEW f \in Verdict
      PROVE  /\ f \in Found /\ phase[f] = "complete" /\ ~hadError[f]
             /\ units[Key(f)].ok /\ units[Key(f)].ast = f /\ Key(f) \in Keys
  BY <1>1, <1>2, KeyFacts DEF Verdict, Base, OkIsClean, Found, Loaded
<1>3. ASSUME NEW f \in Verdict, NEW n \in Imports(f) \ Runtime
      PROVE  Index[n] \in Verdict
  <2>1. n \in Names /\ units[n].known
    BY <1>1, <1>2, UsesAreNames DEF Verdict, Base, OutcomeInv, CompleteSettled, AllSettled, Settled
  <2>2. PICK g \in Files : Loaded(g) /\ HasHeader(g) /\ Key(g) = n /\ Index[n] = g
    BY <1>1, <2>1, KnownImport
  <2>3. units[n].ok
    BY <1>2, <2>1, NoFileAssumption DEF DependencyFailed, Verdict
  <2>4. n \in Keys
    BY <2>1, KeysContainNames
  <2>5. units[n].ast \in Files
    BY <1>1, <2>3, <2>4 DEF Base, OkIsClean, TypeInv, TypeOK, Unit, FileOrNone
  <2>6. Key(units[n].ast) = n /\ Loaded(units[n].ast)
    BY <1>1, <2>4, <2>5, NoFileAssumption DEF Base, KeptInv, TreesAreTheirs
  <2>7. HasHeader(units[n].ast)
    BY <1>1, <2>1, <2>5, <2>6, KeyFacts
  <2>8. units[n].ast = g
    BY <1>1, <2>2, <2>5, <2>6, <2>7 DEF Base, KeptInv, NamesAreApart
  <2>. QED BY <2>2, <2>3, <2>8 DEF Verdict
<1>4. ASSUME NEW f \in Verdict PROVE CleanText(f)
  <2>1. Kind(f) \notin {"unreadable", "garbage"}
    BY <1>1, <1>2 DEF Verdict, Base, OutcomeInv, KindsOfPhases
  <2>2. ~(Kind(f) = "unit" /\ src[f].ierr) /\ ~src[f].merr
    BY <1>1, <1>2 DEF Verdict, CleanInv, PartsAreClean, Finished
  <2>3. \A n \in Imports(f) \ Runtime : Index[n] # NoFile
    BY <1>3, NoFileAssumption DEF Verdict
  <2>. QED BY <2>1, <2>2, <2>3 DEF CleanText
<1>5. NoCircle(Verdict)
  BY <1>1, <1>2 DEF NoCircle, CleanInv, Ranked, Finished, Verdict
<1>6. \A f \in Verdict : Targets(Imports(f)) \subseteq Verdict
  BY <1>3 DEF Targets
<1>. QED BY <1>2, <1>4, <1>5, <1>6 DEF SelfContained

LEMMA VerdictIsUsableFiles ==
  ASSUME MadeUpNames, RefinementInv, AllOver, \A k \in Keys : ~DependencyFailed(k)
  PROVE  Verdict = Abstract!UsableFiles
<1>1. TypeInv /\ Found \subseteq Files
  BY DEF RefinementInv, Base, Found
<1>2. Verdict \in SUBSET Found /\ Abstract!Usable(Verdict)
  BY <1>1, VerdictIsUsable, UsableIsSelfContained
<1>3. ASSUME NEW S \in SUBSET Found, Abstract!Usable(S), NEW f \in S
      PROVE  f \in Verdict
  <2>1. SelfContained(S) /\ Safe(S) /\ f \in Files
    BY <1>1, <1>3, UsableIsSelfContained DEF RefinementInv, SafeInv
  <2>2. phase[f] = "complete"
    BY <2>1, <1>3 DEF AllOver, RefinementInv, NamesInv, FailedAreGarbage, SelfContained, CleanText
  <2>. QED BY <1>3, <2>1, <2>2 DEF Safe, EndsOk, Verdict
<1>4. Abstract!UsableFiles = UNION {S \in SUBSET Found : Abstract!Usable(S)}
  BY DEF Abstract!UsableFiles, Found, Loaded
<1>. QED BY <1>2, <1>3, <1>4

LEMMA RefinementInvariant ==
  ASSUME MadeUpNames
  PROVE  Spec /\ OwnNames => []RefinementInv
<1>1. Init /\ OwnNames => OwnNames /\ NamesInv /\ LookedInv /\ CleanInv /\ SafeInv
  BY NamesInit, LookedInit, CleanInit, SafeInit
<1>2. /\ DiscoveryInv /\ OkIsClean /\ CycleReportsAreReal /\ OwnNames
      /\ NamesInv /\ LookedInv /\ CleanInv /\ SafeInv
      => RefinementInv
  BY DEF RefinementInv, Base, DiscoveryInv, OwnNames
<1>3. /\ DiscoveryInv /\ OkIsClean /\ CycleReportsAreReal
      /\ OwnNames /\ NamesInv /\ LookedInv /\ CleanInv /\ SafeInv
      /\ [Next]_vars
      => (OwnNames /\ NamesInv /\ LookedInv /\ CleanInv /\ SafeInv)'
  <2>. SUFFICES ASSUME DiscoveryInv, OkIsClean, CycleReportsAreReal, OwnNames,
                       NamesInv, LookedInv, CleanInv, SafeInv, [Next]_vars
                PROVE  (OwnNames /\ NamesInv /\ LookedInv /\ CleanInv /\ SafeInv)'
    OBVIOUS
  <2>1. Base
    BY <1>2 DEF RefinementInv
  <2>2. OwnNames'
    BY SourcesStay, ContentConstant DEF OwnNames, EntryNamed
  <2>. QED BY <2>1, <2>2, NamesStep, LookedStep, CleanStep, SafeStep
<1>. QED BY <1>1, <1>2, <1>3, DiscoveryInvariant, OkIsCleanCorrect, CycleReportsCorrect, PTL
         DEF Spec

(***************************************************************************)
(* Each step is one of Discovery, or none.                                 *)
(***************************************************************************)
LEMMA DoneIsDone ==
  ASSUME Base, stage = "done", [Next]_vars
  PROVE  UNCHANGED vars
<1>1. active = NoFile /\ \A f \in Files : phase[f] \notin {"interface", "ready"}
  BY DEF Base, AtEnd, CountInv, Over
<1>2. ~ImportStep
  BY <1>1 DEF ImportStep, ImportRuntime, ImportByName, ImportUnresolved, ImportByPath,
              ImportUnreadable, ImportNewFile, SearchesPath, Importing
<1>3. ~ParseEntry /\ ~EntryUnreadable /\ ~NothingPending /\ ~FinishDiscovery
  BY DEF ParseEntry, EntryUnreadable, NothingPending, FinishDiscovery
<1>4. \A f \in Files : ~FinishStep(f) /\ ~StartImplementation(f) /\ ~FinishImplementation(f)
  BY <1>1 DEF FinishStep, FinishInterface, FinishProgram, FinishGarbage,
              StartImplementation, FinishImplementation
<1>5. \A k \in Keys : ~Demote(k)
  BY DEF Demote
<1>. QED BY <1>2, <1>3, <1>4, <1>5 DEF Next

LEMMA NotDoneYet ==
  ASSUME [Next]_vars, ~FinishDiscovery, stage # "done"
  PROVE  stage' # "done"
BY DEF Next, vars, ParseEntry, EntryUnreadable, ImportStep, ImportRuntime,
       ImportByName, ImportUnresolved, ImportByPath, ImportUnreadable,
       ImportNewFile, ImportSession, FinishStep, FinishInterface, FinishProgram,
       FinishGarbage, ReturnFromParse, StartImplementation, FinishImplementation,
       NothingPending, Demote

LEMMA OpeningFinds ==
  ASSUME RefinementInv, ParseEntry \/ ImportNewFile, stage # "done"
  PROVE  \E f \in Files : Abstract!Find(f)
<1>1. Base /\ NamesInv /\ TypeInv
  BY DEF RefinementInv, Base
<1>2. PICK f \in Files : OpenStep(f)
  BY <1>1, OpenCases
<1>3. f \notin Found /\ Found' = Found \cup {f} /\ src' = src /\ stage' = stage
  BY <1>1, <1>2, OpenStepFacts DEF OpenStep, Found
<1>4. f \in Abstract!Readable
  BY <1>2 DEF OpenStep, OpenSession, Abstract!Readable, Kind
<1>5. f \in Abstract!Reachable
  <2>1. CASE f = Entry
    BY <2>1, <1>4 DEF Abstract!Reachable
  <2>2. CASE f # Entry
    <3>1. /\ active \in Files /\ Importing /\ NextImport \in Names \ Runtime
          /\ Index[NextImport] = f
      BY <1>2, <2>2 DEF OpenStep
    <3>2. NextImport \in ElementsOf(todo[active])
      BY <1>1, <3>1, ElementsOfTail DEF Importing, NextImport, TypeInv, TypeOK
    <3>3. f \in Abstract!TargetsOf(Abstract!Imports(active))
      BY <1>1, <3>1, <3>2, NoFileAssumption, AbstractWords
         DEF Abstract!TargetsOf, NamesInv, UsesAreLeft
    <3>4. active \in Found
      BY <1>1, <3>1 DEF Base, StackInv, ActiveRuns, Running, Importing, Found, Loaded
    <3>. QED BY <1>4, <3>3, <3>4 DEF Abstract!Reachable, Found, Loaded
  <2>. QED BY <2>1, <2>2
<1>. QED BY <1>3, <1>5 DEF Abstract!Find, Abstract!Undecided, Found, Loaded

LEMMA FinishingDecides ==
  ASSUME MadeUpNames, RefinementInv, FinishDiscovery
  PROVE  Abstract!Decide
<1>1. /\ stage = "propagate" /\ stage' = "done" /\ UNCHANGED <<src, phase, units>>
      /\ \A k \in Keys : ~DependencyFailed(k)
  BY DEF FinishDiscovery
<1>2. AllOver
  BY <1>1 DEF AllOver, RefinementInv, Base, CountInv, Over, Found, Loaded, TypeInv, TypeOK, Phases
<1>3. Abstract!Reachable \subseteq Found /\ Verdict = Abstract!UsableFiles
  BY <1>1, <1>2, AllIsFound, VerdictIsUsableFiles
<1>4. Verdict' = Verdict
  BY <1>1, KeysConstant DEF Verdict
<1>. QED BY <1>1, <1>3, <1>4 DEF Abstract!Decide, Abstract!Undecided, Abstract!Decided, Found, Loaded

\* All else is internal.
LEMMA OthersStutter ==
  ASSUME RefinementInv, [Next]_vars, stage # "done", ~FinishDiscovery,
         ~ParseEntry, ~ImportNewFile
  PROVE  UNCHANGED <<src, Found>> /\ stage' # "done"
<1>1. Base /\ NamesInv
  BY DEF RefinementInv
<1>2. /\ UNCHANGED src
      /\ \A f \in Files : Loaded(f)' <=> Loaded(f)
  <2>1. CASE LookStep
    BY <2>1, <1>1, LookStepFacts DEF LookStep
  <2>2. ASSUME NEW f \in Files, ReturnStep(f)
        PROVE  UNCHANGED src /\ \A h \in Files : Loaded(h)' <=> Loaded(h)
    BY <2>2, <1>1, ReturnStepFacts
  <2>3. ASSUME NEW f \in Files, StartImplementation(f) \/ FinishImplementation(f)
        PROVE  UNCHANGED src /\ \A h \in Files : Loaded(h)' <=> Loaded(h)
    BY <2>3, <1>1, StartFacts, EndFacts
  <2>4. CASE QuietStep
    BY <2>4 DEF QuietStep, Loaded
  <2>. QED BY <2>1, <2>2, <2>3, <2>4, <1>1, StepCases
<1>. QED BY <1>2, NotDoneYet DEF Found

\* discover_from_entry implements Discovery.  Whatever it does is to open one
\* more readable file that what it opened leads to, or to end, with just the
\* usable files behind ok units; in which order it looks at the uses clauses,
\* and where it suspends which parse, makes no difference.
THEOREM DiscoveryImplemented ==
  ASSUME MadeUpNames
  PROVE  Spec /\ OwnNames => Abstract!Safety
<1>1. Init => Abstract!Init
  BY DEF Init, Abstract!Init, Abstract!Undecided
<1>2. RefinementInv /\ [Next]_vars => [Abstract!Next]_(Abstract!vars)
  <2>. SUFFICES ASSUME RefinementInv, [Next]_vars
                PROVE  Abstract!Next \/ UNCHANGED Abstract!vars
    OBVIOUS
  <2>1. CASE stage = "done"
    <3>1. UNCHANGED vars
      BY <2>1, DoneIsDone DEF RefinementInv
    <3>2. Verdict' = Verdict
      BY <3>1, KeysConstant DEF Verdict, vars
    <3>. QED BY <3>1, <3>2 DEF vars, Abstract!vars
  <2>2. CASE stage # "done" /\ (ParseEntry \/ ImportNewFile)
    BY <2>2, OpeningFinds DEF Abstract!Next
  <2>3. CASE FinishDiscovery
    BY <2>3, FinishingDecides DEF Abstract!Next
  <2>4. CASE stage # "done" /\ ~FinishDiscovery /\ ~ParseEntry /\ ~ImportNewFile
    BY <2>4, OthersStutter DEF Abstract!vars, Found, Loaded
  <2>. QED BY <2>1, <2>2, <2>3, <2>4
<1>. QED BY <1>1, <1>2, RefinementInvariant, PTL DEF Spec, Abstract!Safety
=============================================================================
