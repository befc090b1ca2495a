------------------------------ MODULE EmitAll ------------------------------
(***************************************************************************)
(* cmd_emit_all of src/main.cc: the driver that writes p_<unit>.h and      *)
(* p_<unit>.cc for each unit in the order of topo_sort, a header for each  *)
(* runtime unit, and with -m a Makefile.  Several processes may run it in  *)
(* the same directory.                                                     *)
(*                                                                         *)
(* What a source says is a version number; a fault makes the unit fail     *)
(* where the fault says.  Discovery and the sort are modules of their own  *)
(* (Discovery, TopoSort); here they are reduced to their results.  The     *)
(* text of a generated file is the versions of the sources that it may     *)
(* depend on.                                                              *)
(***************************************************************************)
EXTENDS Naturals, Sequences, FiniteSets

CONSTANTS Order,       \* the result of topo_sort: units, the program last
          Runtime,     \* units with a runtime model and no source
          Uses,        \* the uses clauses of each unit
          Processes,   \* runs of emit-all that may be alive at once
          MaxVersion   \* bound on the versions of a source

Units == {Order[i] : i \in 1..Len(Order)}
Program == Order[Len(Order)]
Names == Units \cup Runtime

ASSUME OrderAssumption ==
  /\ Order \in Seq(Units) /\ Order # << >>
  /\ Units \cap Runtime = {}
  /\ Uses \in [Units -> SUBSET Names]
  /\ \A i \in 1..Len(Order) : \A u \in Uses[Order[i]] \cap Units :
       \E j \in 1..(i - 1) : Order[j] = u

\* The units whose declarations a unit sees, and whose headers its files
\* include: the least set that is closed under use.
Needs == [u \in Names |->
  {v \in Names : u \in Units /\ \A S \in SUBSET Names :
     (Uses[u] \subseteq S /\ \A w \in S \cap Units : Uses[w] \subseteq S) => v \in S}]

Header(n) == <<"h", n>>
Impl(u) == <<"cc", u>>
Files == {Header(n) : n \in Names} \cup {Impl(u) : u \in Units}
Source(u) == <<"pas", u>>
Object(u) == <<"o", u>>

Absent == [is |-> "absent"]
Partial == [is |-> "partial"]
Text(versions) == [is |-> "text", of |-> versions]

Faults == {"none", "parse", "emit", "cycle"}

VARIABLES ver,    \* version of each source
          fault,  \* what is wrong with it
          dir,    \* the generated files
          newer,  \* for each source and object, the files written after it
          mk,     \* the Makefile
          proc    \* the runs of emit-all

emitVars == <<ver, fault, dir, newer, mk, proc>>

NoMakefile == [exists |-> FALSE, pas_sources |-> {}, cc_sources |-> {}, program |-> FALSE]

NoTarget == <<"none">>
Off == [pc |-> "off", target |-> NoTarget, makefile |-> FALSE, todo |-> << >>,
        emitted |-> {}, shims |-> {}, failed |-> FALSE]

EmitInit ==
  /\ ver = [u \in Units |-> 0]
  /\ fault \in [Units -> Faults]
  /\ dir = [f \in Files |-> Absent]
  /\ newer = [x \in {Source(u) : u \in Units} \cup {Object(u) : u \in Units} |-> {}]
  /\ mk = NoMakefile
  /\ proc = [p \in Processes |-> Off]

(***************************************************************************)
(* What the sources amount to.  Unit u is ok when neither it nor a unit it *)
(* uses has an error (Discovery!Usable); a cycle leaves edges in the sort. *)
(***************************************************************************)
Ok(u) == \A v \in {u} \cup (Needs[u] \cap Units) : fault[v] # "parse"
DiscoverErrors == \E u \in Units : fault[u] \in {"parse", "cycle"}
CycleEdges == \E u \in Units : fault[u] = "cycle"

Translation(n) == Text([v \in Units \cap ({n} \cup Needs[n]) |-> ver[v]])
Current(f) == Translation(f[2])

(***************************************************************************)
(* A file is truncated when it is opened and whole when it is closed.      *)
(***************************************************************************)
Put(f, contents) ==
  /\ dir' = [dir EXCEPT ![f] = contents]
  /\ newer' = [x \in DOMAIN newer |-> newer[x] \cup {f}]

At(p, pc) == proc[p].pc = pc
Goto(p, pc) == proc' = [proc EXCEPT ![p].pc = pc]
Unit(p) == Head(proc[p].todo)

\* The process starts: discovery, sort, and the return when there is a cycle.
\* target is what GNU make runs it for, makefile the option -m.
Begin(p, target, makefile) ==
  /\ At(p, "off")
  /\ proc' = [proc EXCEPT ![p] =
       [Off EXCEPT !.target = target, !.makefile = makefile,
                   !.pc = IF CycleEdges THEN "error" ELSE "next",
                   !.todo = IF CycleEdges THEN << >> ELSE Order]]
  /\ UNCHANGED <<ver, fault, dir, newer, mk>>

\* The unit has a failed parse behind it, or emit_unit reports errors.
Fails(p) == ~Ok(Unit(p)) \/ fault[Unit(p)] = "emit"

\* Both files of a unit that fails are touched.
Spoil(p, h, c) ==
  /\ At(p, "next") /\ proc[p].todo # << >>
  /\ Fails(p)
  /\ proc' = [proc EXCEPT ![p].todo = Tail(@), ![p].failed = TRUE]
  /\ dir' = [dir EXCEPT ![Header(Unit(p))] = h, ![Impl(Unit(p))] = c]
  /\ newer' = [x \in DOMAIN newer |->
                 newer[x] \cup {Header(Unit(p)), Impl(Unit(p))}]
  /\ UNCHANGED <<ver, fault, mk>>

\* Mutant: the streams are opened before emit_unit has been called.
FailUnitTruncating(p) == Spoil(p, Partial, Partial)

\* Mutant: the loop does not continue after reporting FAIL.
FailUnitWriting(p) == Spoil(p, Current(Header(Unit(p))), Current(Impl(Unit(p))))

\* Nothing is written for a unit that fails.
FailUnit(p) ==
  /\ At(p, "next") /\ proc[p].todo # << >>
  /\ Fails(p)
  /\ proc' = [proc EXCEPT ![p].todo = Tail(@), ![p].failed = TRUE]
  /\ UNCHANGED <<ver, fault, dir, newer, mk>>

OpenHeader(p) ==
  /\ At(p, "next") /\ proc[p].todo # << >>
  /\ ~Fails(p)
  /\ Put(Header(Unit(p)), Partial)
  /\ Goto(p, "header")
  /\ UNCHANGED <<ver, fault, mk>>

CloseHeader(p) ==
  /\ At(p, "header")
  /\ Put(Header(Unit(p)), Current(Header(Unit(p))))
  /\ Goto(p, "impl")
  /\ UNCHANGED <<ver, fault, mk>>

OpenImpl(p) ==
  /\ At(p, "impl")
  /\ Put(Impl(Unit(p)), Partial)
  /\ Goto(p, "body")
  /\ UNCHANGED <<ver, fault, mk>>

\* The unit is entered in the manifest, its runtime units in rtl_refs.
CloseImpl(p) ==
  /\ At(p, "body")
  /\ Put(Impl(Unit(p)), Current(Impl(Unit(p))))
  /\ proc' = [proc EXCEPT ![p].pc = "next",
                          ![p].todo = Tail(@),
                          ![p].emitted = @ \cup {Unit(p)},
                          ![p].shims = @ \cup (Uses[Unit(p)] \cap Runtime)]
  /\ UNCHANGED <<ver, fault, mk>>

OpenShim(p) ==
  /\ At(p, "next") /\ proc[p].todo = << >>
  /\ \E r \in proc[p].shims :
       /\ Put(Header(r), Partial)
       /\ proc' = [proc EXCEPT ![p].pc = "shim", ![p].todo = <<r>>]
  /\ UNCHANGED <<ver, fault, mk>>

CloseShim(p) ==
  /\ At(p, "shim")
  /\ Put(Header(Unit(p)), Current(Header(Unit(p))))
  /\ proc' = [proc EXCEPT ![p].pc = "next", ![p].todo = << >>,
                          ![p].shims = @ \ {Unit(p)}]
  /\ UNCHANGED <<ver, fault, mk>>

\* Mutant: the source of the program alone is entered in pas_sources.
ManifestOfProgram(p) == [exists      |-> TRUE,
                         pas_sources |-> proc[p].emitted \cap {Program},
                         cc_sources  |-> proc[p].emitted,
                         program     |-> Program \in proc[p].emitted]

\* Mutant: the program counts when it is the first unit that is emitted.
ManifestOfFirst(p) == [exists      |-> TRUE,
                       pas_sources |-> proc[p].emitted,
                       cc_sources  |-> proc[p].emitted,
                       program     |-> proc[p].emitted = {Program}]

\* The Makefile names the sources and files of the units that were emitted,
\* and builds the program when that is one of them.
Manifest(p) == [exists      |-> TRUE,
                pas_sources |-> proc[p].emitted,
                cc_sources  |-> proc[p].emitted,
                program     |-> Program \in proc[p].emitted]

Status(p) == IF proc[p].failed \/ DiscoverErrors THEN "error" ELSE "ok"

\* The rest of cmd_emit_all: the Makefile with -m, and the exit status.
Finish(p) ==
  /\ At(p, "next") /\ proc[p].todo = << >> /\ proc[p].shims = {}
  /\ mk' = IF proc[p].makefile THEN Manifest(p) ELSE mk
  /\ Goto(p, Status(p))
  /\ UNCHANGED <<ver, fault, dir, newer>>

EmitStep(p) ==
  \/ FailUnit(p)
  \/ OpenHeader(p) \/ CloseHeader(p)
  \/ OpenImpl(p) \/ CloseImpl(p)
  \/ OpenShim(p) \/ CloseShim(p)
  \/ Finish(p)

-----------------------------------------------------------------------------
Contents == {Absent, Partial} \cup
  [is : {"text"}, of : UNION {[S -> 0..MaxVersion] : S \in SUBSET Units}]

EmitTypeOK ==
  /\ ver \in [Units -> 0..MaxVersion]
  /\ fault \in [Units -> Faults]
  /\ dir \in [Files -> Contents]
  /\ newer \in [{Source(u) : u \in Units} \cup {Object(u) : u \in Units} -> SUBSET Files]
  /\ mk \in [exists : BOOLEAN, pas_sources : SUBSET Units, cc_sources : SUBSET Units,
            program : BOOLEAN]
  /\ \A p \in Processes :
       /\ proc[p].pc \in {"off", "next", "header", "impl", "body", "shim", "ok", "error"}
       /\ proc[p].target \in Files \cup {NoTarget}
       /\ proc[p].emitted \subseteq Units /\ proc[p].shims \subseteq Runtime
=============================================================================
