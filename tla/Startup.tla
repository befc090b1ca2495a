------------------------------ MODULE Startup ------------------------------
(***************************************************************************)
(* The life of a translated program: the main function that emit_unit of   *)
(* src/emit_units.cc writes around the unit order of InitOrder.  main runs *)
(* the init hook of each unit, registers its fini hook with atexit once    *)
(* the init hook has returned, does the same for the program's own class   *)
(* hooks, and runs the body.  Halt, in any hook, is std::exit: the         *)
(* registered hooks run in reverse.  Halt within a fini hook calls exit    *)
(* again: the hook is cut short and the remaining ones run (the C library  *)
(* the generated Makefile links with goes on with the next handler).       *)
(***************************************************************************)
EXTENDS InitOrder

CONSTANT Nobody      \* no hook

ASSUME NobodyAssumption == Nobody \notin Names \cup {Program}

VARIABLES pc,          \* where main is
          next,        \* the hook of Starters to run next
          running,     \* the hook that is running, or Nobody
          registered,  \* the fini hooks given to atexit and not run yet
          initialized, \* hooks whose init part has returned, in order
          finalized    \* hooks whose fini part has been entered, in order

runVars == <<pc, next, running, registered, initialized, finalized>>
vars == <<collectVars, runVars>>

\* The calls main makes, in order; the program's class hooks come last.
Starters == Append(out, Program)

InitRun == /\ pc = "translate"
           /\ next = 1
           /\ running = Nobody
           /\ registered = << >>
           /\ initialized = << >>
           /\ finalized = << >>

Init == InitCollect /\ InitRun

\* tp2cc writes main with the order it has collected.
Collect == pc = "translate" /\ CollectStep /\ UNCHANGED runVars

StartMain == /\ pc = "translate" /\ Collected
             /\ pc' = "hooks"
             /\ UNCHANGED <<collectVars, next, running, registered,
                            initialized, finalized>>

CallInit == /\ pc = "hooks" /\ running = Nobody /\ next <= Len(Starters)
            /\ running' = Starters[next]
            /\ UNCHANGED <<collectVars, pc, next, registered,
                           initialized, finalized>>

\* The hook returns and its fini hook is registered.
InitReturns == /\ pc = "hooks" /\ running # Nobody
               /\ initialized' = Append(initialized, running)
               /\ registered' = Append(registered, running)
               /\ next' = next + 1
               /\ running' = Nobody
               /\ UNCHANGED <<collectVars, pc, finalized>>

\* atexit refuses the fini hook: abort, and no handler runs.
RegisterFails == /\ pc = "hooks" /\ running # Nobody
                 /\ initialized' = Append(initialized, running)
                 /\ pc' = "aborted"
                 /\ running' = Nobody
                 /\ UNCHANGED <<collectVars, next, registered, finalized>>

\* Mutant: the fini hook is registered before the init hook has returned.
HaltInInitRegistered ==
  /\ pc = "hooks" /\ running # Nobody
  /\ pc' = "exit"
  /\ registered' = Append(registered, running)
  /\ running' = Nobody
  /\ UNCHANGED <<collectVars, next, initialized, finalized>>

\* p_halt or p_runerror within an init hook.
HaltInInit == /\ pc = "hooks" /\ running # Nobody
              /\ pc' = "exit"
              /\ running' = Nobody
              /\ UNCHANGED <<collectVars, next, registered,
                             initialized, finalized>>

\* The body ends or calls Halt: either way exit runs the handlers.
RunBody == /\ pc = "hooks" /\ running = Nobody /\ next > Len(Starters)
           /\ pc' = "exit"
           /\ UNCHANGED <<collectVars, next, running, registered,
                          initialized, finalized>>

\* Mutant: fini hooks run in the order of the init hooks.
CallFiniInOrder ==
  /\ pc = "exit" /\ running = Nobody /\ registered # << >>
  /\ running' = Head(registered)
  /\ finalized' = Append(finalized, Head(registered))
  /\ registered' = Tail(registered)
  /\ UNCHANGED <<collectVars, pc, next, initialized>>

CallFini == /\ pc = "exit" /\ running = Nobody /\ registered # << >>
            /\ LET h == registered[Len(registered)] IN
               /\ running' = h
               /\ finalized' = Append(finalized, h)
            /\ registered' = SubSeq(registered, 1, Len(registered) - 1)
            /\ UNCHANGED <<collectVars, pc, next, initialized>>

\* The fini hook returns, or calls Halt, which goes on with the next handler.
FiniEnds == /\ pc = "exit" /\ running # Nobody
            /\ running' = Nobody
            /\ UNCHANGED <<collectVars, pc, next, registered,
                           initialized, finalized>>

\* Mutant: exit waits for the fini hooks of all units.
ExitAfterAll ==
  /\ pc = "exit" /\ running = Nobody /\ Len(finalized) = Len(Starters)
  /\ pc' = "ended"
  /\ UNCHANGED <<collectVars, next, running, registered,
                 initialized, finalized>>

Exit == /\ pc = "exit" /\ running = Nobody /\ registered = << >>
        /\ pc' = "ended"
        /\ UNCHANGED <<collectVars, next, running, registered,
                       initialized, finalized>>

Next == \/ Collect \/ StartMain
        \/ CallInit \/ InitReturns \/ RegisterFails \/ HaltInInit
        \/ RunBody \/ CallFini \/ FiniEnds \/ Exit

StartupSpec == Init /\ [][Next]_vars /\ WF_vars(Next)

-----------------------------------------------------------------------------
ElementsOf(s) == {s[i] : i \in 1..Len(s)}
Reverse(s) == [i \in 1..Len(s) |-> s[Len(s) + 1 - i]]

\* emit_units.cc:479: "That gives reverse-order teardown on normal exit/Halt
\* and leaves never-finished units out of the finalization chain": after any
\* exit, the units finalized are those whose init hook returned, reversed.
TeardownMirrorsStartup == pc = "ended" => finalized = Reverse(initialized)

\* While a hook of a unit runs, init or fini, each unit that it uses (and
\* that does not lead back to it) has been initialized and is not finalized
\* yet: no hook sees a unit before its life or after it.
UsedUnitsAreAlive ==
  running \in Names =>
    \A v \in UsedBy(running) :
      (Usable(v) /\ v # running /\ ~Reaches(v, running)) =>
        /\ v \in ElementsOf(initialized)
        /\ v \notin ElementsOf(finalized)

\* The program always comes to an end when its hooks do.
ProgramEnds == <>(pc \in {"ended", "aborted"})
=============================================================================
