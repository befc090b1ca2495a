------------------------------ MODULE Rebuild ------------------------------
(***************************************************************************)
(* The generated Makefile (src/emit_makefile.cc) at work: a user edits     *)
(* sources, runs emit-all -m or make, and may press Ctrl-C; GNU make runs  *)
(* emit-all again when a source is newer than a generated file, compiles   *)
(* and links.  emit-all does not know of make, and writes all files        *)
(* whichever of them make runs it for.                                     *)
(*                                                                         *)
(* GNU make, the C++ compiler and the user are not in the repository; make *)
(* is modelled as version 4.3 behaves on these rules.  Modification times  *)
(* are compared only, so newer[x] keeps the outcome of the comparisons.    *)
(***************************************************************************)
EXTENDS EmitAll

CONSTANTS Sorted,   \* the names in the order of std::sort
          MaxStops  \* bound on the runs cut short by a signal

ASSUME SortedAssumption ==
  Sorted \in Seq(Names) /\ \A n \in Names : \E i \in 1..Len(Sorted) : Sorted[i] = n

VARIABLES obj,     \* the objects: for each, the files it was compiled from
          prog,    \* the program: the objects it was linked from
          make,    \* "idle", "running", or "failing": no new jobs
          done,    \* what this make found or brought up to date
          last,    \* how the last make since the last edit ended
          retry,   \* the last emit-all run by make did not exit with 0
          stops

makeVars == <<obj, prog, make, done, last, retry, stops>>
vars == <<emitVars, makeVars>>

Init ==
  /\ EmitInit
  /\ obj = [u \in Units |-> Absent]
  /\ prog = Absent
  /\ make = "idle" /\ done = {}
  /\ last = "none" /\ retry = FALSE
  /\ stops = 0

(***************************************************************************)
(* The rules of the Makefile.                                              *)
(*   $(CC_SRCS) $(HDRS): $(PAS_SRCS)       runs emit-all                   *)
(*   p_%.o: p_%.cc $(HDRS)                 compiles                        *)
(*   $(PROGRAM): $(CC_OBJS)                links, if there is a program    *)
(***************************************************************************)
Listed == mk.cc_sources
Headers == {Header(n) : n \in Listed \cup UNION {Uses[u] \cap Runtime : u \in Listed}}
Targets == Headers \cup {Impl(u) : u \in Listed}
Outdated(f) == \/ dir[f] = Absent
               \/ \E u \in mk.pas_sources : f \notin newer[Source(u)]
Prerequisites(u) == {Impl(u)} \cup Headers
ObjectOutdated(u) == \/ obj[u] = Absent
                     \/ Prerequisites(u) \cap newer[Object(u)] # {}

\* What the compiler reads for p_u.o, and what it makes of it.
Reads(u) == {Impl(u), Header(u)} \cup {Header(n) : n \in Needs[u]}
Compiled(u) == Text([f \in Reads(u) |-> dir[f]])
CompiledNow(u) == Text([f \in Reads(u) |-> Current(f)])

Idle == make = "idle" /\ \A p \in Processes : At(p, "off")
JobFor(t) == \E p \in Processes : ~At(p, "off") /\ proc[p].target = t

(***************************************************************************)
(* The user.                                                               *)
(***************************************************************************)
Edit(u, x) ==
  /\ Idle
  /\ ver[u] < MaxVersion
  /\ ver' = [ver EXCEPT ![u] = @ + 1]
  /\ fault' = [fault EXCEPT ![u] = x]
  /\ newer' = [newer EXCEPT ![Source(u)] = {}]
  /\ last' = "none"
  /\ UNCHANGED <<dir, mk, proc, obj, prog, make, done, retry, stops>>

Generate(p) ==
  /\ Idle
  /\ Begin(p, NoTarget, TRUE)
  /\ last' = "none" /\ retry' = FALSE
  /\ UNCHANGED <<obj, prog, make, done, stops>>

Exited(p) == At(p, "ok") \/ At(p, "error")

GenerateReturns(p) ==
  /\ Exited(p) /\ proc[p].makefile
  /\ proc' = [proc EXCEPT ![p] = Off]
  /\ UNCHANGED <<ver, fault, dir, newer, mk, makeVars>>

RunMake ==
  /\ Idle /\ mk.exists
  /\ make' = "running" /\ done' = {}
  /\ UNCHANGED <<emitVars, obj, prog, last, retry, stops>>

(***************************************************************************)
(* make goes through the objects as they are listed, and for each through  *)
(* its prerequisites, and looks at each thing once.  It passes over what   *)
(* waits for a running job, as long as it may start another one: with one  *)
(* process it is make without -j, with more make -j.                       *)
(***************************************************************************)
Rank(n) == CHOOSE i \in 1..Len(Sorted) : Sorted[i] = n
First == CHOOSE u \in Listed : \A v \in Listed : Rank(u) <= Rank(v)
Before(x, y) ==
  CASE x[1] = "h" /\ y[1] = "h" -> Rank(x[2]) < Rank(y[2])
    [] x[1] = "h" -> y # Impl(First)
    [] y[1] = "h" -> x = Impl(First)
    [] OTHER -> \/ Rank(x[2]) < Rank(y[2])
                \/ x[2] = y[2] /\ x[1] = "cc" /\ y[1] = "o"

Goals == Targets \cup {Object(u) : u \in Listed}
Waits(x) == x[1] = "o" /\ ~(Prerequisites(x[2]) \subseteq done)
FreeSlot == \E p \in Processes : At(p, "off")
Considers(x) ==
  /\ make = "running" /\ FreeSlot
  /\ x \in Goals \ done /\ ~JobFor(x) /\ ~Waits(x)
  /\ \A y \in Goals : Before(y, x) => y \in done \/ JobFor(y) \/ Waits(y)

FindFresh(t) ==
  /\ Considers(t) /\ ~Outdated(t)
  /\ done' = done \cup {t}
  /\ UNCHANGED <<emitVars, obj, prog, make, last, retry, stops>>

Regenerate(p, t) ==
  /\ Considers(t) /\ Outdated(t)
  /\ Begin(p, t, FALSE)
  /\ UNCHANGED makeVars

JobReturns(p) ==
  /\ Exited(p) /\ ~proc[p].makefile
  /\ proc' = [proc EXCEPT ![p] = Off]
  /\ IF At(p, "ok") THEN done' = done \cup {proc[p].target} /\ UNCHANGED make
                    ELSE make' = "failing" /\ UNCHANGED done
  /\ retry' = At(p, "error")
  /\ UNCHANGED <<ver, fault, dir, newer, mk, obj, prog, last, stops>>

FindObjectFresh(u) ==
  /\ Considers(Object(u)) /\ ~ObjectOutdated(u)
  /\ done' = done \cup {Object(u)}
  /\ UNCHANGED <<emitVars, obj, prog, make, last, retry, stops>>

CompileStarts(u) == Considers(Object(u)) /\ ObjectOutdated(u)

Compile(u) ==
  /\ CompileStarts(u)
  /\ \A f \in Reads(u) : dir[f] # Absent
  /\ obj' = [obj EXCEPT ![u] = Compiled(u)]
  /\ newer' = [newer EXCEPT ![Object(u)] = {}]
  /\ done' = done \cup {Object(u)}
  /\ UNCHANGED <<ver, fault, dir, mk, proc, prog, make, last, retry, stops>>

\* Files that do not belong together, or are cut off, may not compile.
CompileFails(u) ==
  /\ CompileStarts(u)
  /\ Compiled(u) # CompiledNow(u)
  /\ make' = "failing"
  /\ UNCHANGED <<emitVars, obj, prog, done, last, retry, stops>>

Built == {Object(u) : u \in Listed} \subseteq done

\* The linker misses the objects of units that the Makefile does not list.
Link ==
  /\ make = "running" /\ Built /\ mk.program /\ Listed = Units
  /\ prog' = Text(obj)
  /\ make' = "idle" /\ last' = "ok"
  /\ UNCHANGED <<emitVars, obj, done, retry, stops>>

LinkFails ==
  /\ make = "running" /\ Built /\ mk.program /\ Listed # Units
  /\ make' = "failing"
  /\ UNCHANGED <<emitVars, obj, prog, done, last, retry, stops>>

NothingToLink ==
  /\ make = "running" /\ Built /\ ~mk.program
  /\ make' = "idle" /\ last' = "ok"
  /\ UNCHANGED <<emitVars, obj, prog, done, retry, stops>>

MakeFails ==
  /\ make = "failing" /\ \A p \in Processes : At(p, "off")
  /\ make' = "idle" /\ last' = "failed"
  /\ UNCHANGED <<emitVars, obj, prog, done, retry, stops>>

(***************************************************************************)
(* A signal ends emit-all, all of them (Ctrl-C) or one (a crash).  make    *)
(* then removes the target it ran it for, if that has changed.             *)
(***************************************************************************)
Kill(victims) ==
  LET changed == {proc[p].target : p \in victims} IN
  /\ stops < MaxStops
  /\ make = "running" /\ victims # {}
  /\ \A p \in victims : proc[p].pc \notin {"off", "ok", "error"}
  /\ dir' = [f \in Files |-> IF f \in changed /\ ~Outdated(f) THEN Absent ELSE dir[f]]
  /\ proc' = [p \in Processes |-> IF p \in victims THEN Off ELSE proc[p]]
  /\ make' = "failing" /\ retry' = TRUE
  /\ stops' = stops + 1
  /\ UNCHANGED <<ver, fault, newer, mk, obj, prog, done, last>>

EmitAllStep(p) == EmitStep(p) /\ UNCHANGED makeVars

UserStep == \/ \E u \in Units, x \in Faults : Edit(u, x)
            \/ \E p \in Processes : Generate(p) \/ GenerateReturns(p)

MakeStep == \/ \E t \in Targets : FindFresh(t) \/ \E p \in Processes : Regenerate(p, t)
            \/ \E p \in Processes : JobReturns(p)
            \/ \E u \in Listed : FindObjectFresh(u) \/ Compile(u) \/ CompileFails(u)
            \/ Link \/ LinkFails \/ NothingToLink \/ MakeFails

Next == \/ UserStep \/ RunMake \/ MakeStep
        \/ \E p \in Processes : EmitAllStep(p)
        \/ \E victims \in SUBSET Processes : Kill(victims)

\* Processes and make are scheduled; the user waits for emit-all -m, and runs
\* make again and again.
Spec == /\ Init /\ [][Next]_vars
        /\ \A p \in Processes : WF_vars(EmitAllStep(p)) /\ WF_vars(GenerateReturns(p))
        /\ WF_vars(MakeStep)
        /\ SF_vars(RunMake)

-----------------------------------------------------------------------------

\* The manual tells the user to run make (user_manual.org:11): no object is
\* compiled from a file that emit-all is writing, or was writing when it was
\* stopped, under a Makefile that lists all units.  (Under one that does not,
\* a header that a stopped emit-all left behind is nobody's target.)
CompilesReadWholeFiles ==
  [][\A u \in Units : (obj'[u] # obj[u] /\ Listed = Units)
        => \A f \in Reads(u) : dir[f] # Partial]_vars

\* When make ends well and there is a program, it is the translation of what
\* the sources say now, every unit of it, whatever failed or was stopped
\* before (main.cc 406-447: files of earlier runs stay where a unit fails).
Fresh == prog = Text([u \in Units |-> CompiledNow(u)])
GoodBuildIsFresh == (last = "ok" /\ mk.program) => Fresh

\* An emit-all that failed under make leaves make something to do, so that
\* the next make runs it again instead of compiling what is there.  This
\* takes a Makefile that lists all units (main.cc:448 writes one that does
\* not when a unit fails).
FailureIsRetried ==
  (retry /\ make = "idle" /\ Listed = Units) => \E t \in Targets : Outdated(t)

\* When the errors are gone, and the Makefile is one of a run without errors,
\* make alone brings the program up to date.
Repaired == Listed = Units /\ \A u \in Units : fault[u] = "none"
Converges == <>[](Repaired => Fresh)
=============================================================================
