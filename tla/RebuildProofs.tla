--------------------------- MODULE RebuildProofs ---------------------------
(***************************************************************************)
(* Proofs about Rebuild, for all programs, versions and interruptions,     *)
(* when one process at a time writes the files: make without -j.           *)
(***************************************************************************)
EXTENDS Rebuild, WellFoundedInduction, TLAPS

(***************************************************************************)
(* What is known of the files.                                             *)
(***************************************************************************)
\* The units that this run of emit-all writes nothing for.
Failing(u) == ~Ok(u) \/ fault[u] = "emit"
Faulty == CycleEdges \/ \E u \in Units : Failing(u)

\* The file was written after the last edit of each source.
Latest(f) == \A u \in Units : f \in newer[Source(u)]
Good(f) == Latest(f) /\ dir[f] = Current(f)
Wanted == {Header(n) : n \in Units \cup UNION {Uses[u] \cap Runtime : u \in Units}}
          \cup {Impl(u) : u \in Units}
AllGood == \A f \in Wanted : Good(f)

Steps == {"next", "header", "impl", "body", "shim"}
Process == [pc : Steps \cup {"off", "ok", "error"}, target : Files \cup {NoTarget},
            makefile : BOOLEAN, todo : Seq(Names), emitted : SUBSET Units,
            shims : SUBSET Runtime, failed : BOOLEAN]

Shapes ==
  /\ ver \in [Units -> Nat] /\ fault \in [Units -> Faults]
  /\ DOMAIN dir = Files
  /\ DOMAIN newer = {Source(u) : u \in Units} \cup {Object(u) : u \in Units}
  /\ mk.pas_sources = mk.cc_sources /\ mk.cc_sources \subseteq Units
  /\ proc \in [Processes -> Process]
  /\ obj = [u \in Units |-> obj[u]]
  /\ make \in {"idle", "running", "failing"}

LEMMA OrderFacts ==
  /\ Units # {} /\ Order \in Seq(Units) /\ Order # << >>
  /\ Program \in Units
  /\ \A u \in Units : \E i \in 1..Len(Order) : Order[i] = u
  /\ \A n \in Names : Header(n) \in Files
  /\ \A u \in Units : Impl(u) \in Files
  /\ Wanted \subseteq Files
<1>1. Order \in Seq(Units) /\ Order # << >>
  BY OrderAssumption
<1>2. Len(Order) \in 1..Len(Order)
  BY <1>1
<1>3. Units # {} /\ Program \in Units
  BY <1>2 DEF Units, Program
<1>4. \A u \in Units : \E i \in 1..Len(Order) : Order[i] = u
  BY DEF Units
<1>. QED BY <1>1, <1>3, <1>4 DEF Names, Files, Wanted

LEMMA PutFacts ==
  ASSUME Shapes, NEW f \in Files, NEW contents, Put(f, contents)
  PROVE  /\ DOMAIN dir' = Files /\ DOMAIN newer' = DOMAIN newer
         /\ dir'[f] = contents /\ \A g \in Files : g # f => dir'[g] = dir[g]
         /\ \A g : Latest(g)' <=> Latest(g) \/ g = f
         /\ \A u \in Units : newer'[Object(u)] = newer[Object(u)] \cup {f}
<1>1. /\ \A u \in Units : newer'[Source(u)] = newer[Source(u)] \cup {f}
      /\ \A u \in Units : newer'[Object(u)] = newer[Object(u)] \cup {f}
  BY DEF Put, Shapes
<1>2. \A g : Latest(g)' <=> Latest(g) \/ g = f
  <2>1. \A g : Latest(g)' <=> \A u \in Units : g \in newer'[Source(u)]
    BY DEF Latest
  <2>2. \A g : Latest(g)' <=> g = f \/ \A u \in Units : g \in newer[Source(u)]
    BY <2>1, <1>1
  <2>. QED BY <2>2, OrderFacts DEF Latest
<1>. QED BY <1>1, <1>2 DEF Put, Shapes

\* Only the versions make a difference to what a file should hold.
LEMMA SameSources ==
  ASSUME UNCHANGED <<ver, fault>>
  PROVE  /\ \A f : Current(f)' = Current(f)
         /\ \A u : Failing(u)' <=> Failing(u)
         /\ CycleEdges' <=> CycleEdges
         /\ DiscoverErrors' <=> DiscoverErrors
         /\ \A u : CompiledNow(u)' = CompiledNow(u)
<1>1. \A f : Current(f)' = Current(f)
  BY DEF Current, Translation
<1>2. \A u : Failing(u)' <=> Failing(u)
  BY DEF Failing, Ok
<1>3. CycleEdges' <=> CycleEdges
  BY DEF CycleEdges
<1>4. DiscoverErrors' <=> DiscoverErrors
  BY DEF DiscoverErrors
<1>5. \A u : CompiledNow(u)' = CompiledNow(u)
  BY <1>1 DEF CompiledNow
<1>. QED BY <1>1, <1>2, <1>3, <1>4, <1>5

LEMMA ContentsDiffer ==
  /\ Absent # Partial
  /\ \A f : Current(f) # Absent /\ Current(f) # Partial
  /\ \A g : Text(g) # Absent /\ Text(g) # Partial
BY DEF Current, Translation, Text, Absent, Partial

-----------------------------------------------------------------------------
(***************************************************************************)
(* A run of emit-all.  What it has done stays done, since nobody else      *)
(* writes.                                                                 *)
(***************************************************************************)
Elements(s) == {s[i] : i \in 1..Len(s)}
Left(p) == Elements(proc[p].todo)
Handled(p, u) ==
  /\ Failing(u) => proc[p].failed
  /\ ~Failing(u) =>
       /\ u \in proc[p].emitted /\ Good(Header(u)) /\ Good(Impl(u))
       /\ \A r \in Uses[u] \cap Runtime : r \in proc[p].shims \/ Good(Header(r))

WorkInv(p) ==
  /\ proc[p].pc \in Steps =>
       /\ ~CycleEdges
       /\ \A u \in Units : u \in Left(p) \/ Handled(p, u)
       /\ \A u \in proc[p].emitted : ~Failing(u)
       /\ proc[p].failed => \E u \in Units : Failing(u)
  /\ proc[p].pc \in {"next", "header", "impl", "body"} => Left(p) \subseteq Units
  /\ proc[p].pc \in {"header", "impl", "body"} =>
       /\ proc[p].todo # << >> /\ Unit(p) \in Units /\ ~Failing(Unit(p))
  /\ proc[p].pc \in {"impl", "body"} => Good(Header(Unit(p)))
  /\ proc[p].pc = "shim" =>
       Unit(p) \in proc[p].shims /\ proc[p].todo = <<Unit(p)>>
  /\ proc[p].pc = "error" => Faulty
  /\ proc[p].pc = "ok" => AllGood

\* No header is newer than the sources of a unit that fails now.
HeadersInv == \A u \in Units : Latest(Header(u)) => ~Failing(u) /\ ~CycleEdges

LEMMA TailElements ==
  ASSUME NEW S, NEW t \in Seq(S), t # << >>
  PROVE  /\ Head(t) \in S /\ Tail(t) \in Seq(S)
         /\ Elements(t) = {Head(t)} \cup Elements(Tail(t))
<1>1. /\ Tail(t) \in Seq(S) /\ Len(t) \in Nat \ {0} /\ Len(Tail(t)) = Len(t) - 1
      /\ \A i \in 1..Len(Tail(t)) : Tail(t)[i] = t[i + 1]
      /\ Head(t) = t[1] /\ Head(t) \in S
  OBVIOUS
<1>2. ASSUME NEW x \in Elements(t), x # Head(t) PROVE x \in Elements(Tail(t))
  <2>1. PICK i \in 1..Len(t) : t[i] = x
    BY <1>2 DEF Elements
  <2>2. PICK j : j = i - 1
    OBVIOUS
  <2>3. j \in 1..Len(Tail(t)) /\ j + 1 = i
    BY <2>1, <2>2, <1>1, <1>2
  <2>4. Tail(t)[j] = x
    BY <2>1, <2>3, <1>1
  <2>. QED BY <2>3, <2>4 DEF Elements
<1>3. ASSUME NEW x \in Elements(Tail(t)) PROVE x \in Elements(t)
  <2>1. PICK j \in 1..Len(Tail(t)) : Tail(t)[j] = x
    BY DEF Elements
  <2>2. j + 1 \in 1..Len(t) /\ t[j + 1] = x
    BY <2>1, <1>1
  <2>. QED BY <2>2 DEF Elements
<1>4. Head(t) \in Elements(t)
  BY <1>1 DEF Elements
<1>. QED BY <1>1, <1>2, <1>3, <1>4

LEMMA TodoFacts ==
  ASSUME Shapes, NEW p \in Processes, proc[p].todo # << >>
  PROVE  /\ Unit(p) \in Names /\ Unit(p) \in Left(p)
         /\ Tail(proc[p].todo) \in Seq(Names)
         /\ Left(p) = {Unit(p)} \cup Elements(Tail(proc[p].todo))
<1>1. proc[p].todo \in Seq(Names)
  BY DEF Shapes, Process
<1>. QED BY <1>1, TailElements DEF Unit, Left

LEMMA GotoFacts ==
  ASSUME Shapes, NEW p \in Processes, NEW pc \in Steps \cup {"ok", "error"}, Goto(p, pc)
  PROVE  /\ proc' \in [Processes -> Process]
         /\ proc'[p].pc = pc /\ proc'[p].todo = proc[p].todo
         /\ proc'[p].emitted = proc[p].emitted /\ proc'[p].shims = proc[p].shims
         /\ proc'[p].failed = proc[p].failed
         /\ proc'[p].makefile = proc[p].makefile /\ proc'[p].target = proc[p].target
<1>1. PICK w : w = [proc[p] EXCEPT !.pc = pc]
  OBVIOUS
<1>2. proc[p] \in Process /\ proc' = [proc EXCEPT ![p] = w]
  BY <1>1 DEF Shapes, Goto
<1>3. w \in Process
  BY <1>1, <1>2 DEF Process
<1>. QED BY <1>1, <1>2, <1>3 DEF Shapes, Process

LEMMA FailUnitFacts ==
  ASSUME Shapes, NEW p \in Processes, FailUnit(p)
  PROVE  /\ proc' \in [Processes -> Process]
         /\ proc'[p].pc = "next" /\ proc'[p].todo = Tail(proc[p].todo)
         /\ proc'[p].emitted = proc[p].emitted /\ proc'[p].shims = proc[p].shims
         /\ proc'[p].failed = TRUE
         /\ proc'[p].makefile = proc[p].makefile /\ proc'[p].target = proc[p].target
<1>1. PICK w : w = [proc[p] EXCEPT !.todo = Tail(proc[p].todo), !.failed = TRUE]
  OBVIOUS
<1>2. proc[p] \in Process /\ proc' = [proc EXCEPT ![p] = w] /\ proc[p].pc = "next"
  BY <1>1 DEF Shapes, FailUnit, At
<1>3. Tail(proc[p].todo) \in Seq(Names)
  BY TodoFacts DEF FailUnit
<1>4. w \in Process
  BY <1>1, <1>2, <1>3 DEF Process
<1>. QED BY <1>1, <1>2, <1>4 DEF Shapes, Process

LEMMA CloseImplFacts ==
  ASSUME Shapes, NEW p \in Processes, CloseImpl(p),
         proc[p].todo # << >>, Unit(p) \in Units
  PROVE  /\ proc' \in [Processes -> Process]
         /\ proc'[p].pc = "next" /\ proc'[p].todo = Tail(proc[p].todo)
         /\ proc'[p].emitted = proc[p].emitted \cup {Unit(p)}
         /\ proc'[p].shims = proc[p].shims \cup (Uses[Unit(p)] \cap Runtime)
         /\ proc'[p].failed = proc[p].failed
         /\ proc'[p].makefile = proc[p].makefile /\ proc'[p].target = proc[p].target
<1>1. PICK w : w = [proc[p] EXCEPT
                      !.pc = "next", !.todo = Tail(proc[p].todo),
                      !.emitted = proc[p].emitted \cup {Unit(p)},
                      !.shims = proc[p].shims \cup (Uses[Unit(p)] \cap Runtime)]
  OBVIOUS
<1>2. proc[p] \in Process /\ proc' = [proc EXCEPT ![p] = w]
  BY <1>1 DEF Shapes, CloseImpl
<1>3. Tail(proc[p].todo) \in Seq(Names)
  BY TodoFacts
<1>4. w \in Process
  BY <1>1, <1>2, <1>3 DEF Process, Steps
<1>. QED BY <1>1, <1>2, <1>4 DEF Shapes, Process

LEMMA OpenShimFacts ==
  ASSUME Shapes, NEW p \in Processes, OpenShim(p)
  PROVE  \E r \in proc[p].shims :
         /\ Put(Header(r), Partial) /\ r \in Runtime
         /\ proc' \in [Processes -> Process]
         /\ proc'[p].pc = "shim" /\ proc'[p].todo = <<r>>
         /\ proc'[p].emitted = proc[p].emitted /\ proc'[p].shims = proc[p].shims
         /\ proc'[p].failed = proc[p].failed
         /\ proc'[p].makefile = proc[p].makefile /\ proc'[p].target = proc[p].target
<1>1. PICK r \in proc[p].shims :
        /\ Put(Header(r), Partial)
        /\ proc' = [proc EXCEPT ![p].pc = "shim", ![p].todo = <<r>>]
  BY DEF OpenShim
<1>2. PICK w : w = [proc[p] EXCEPT !.pc = "shim", !.todo = <<r>>]
  OBVIOUS
<1>3. proc[p] \in Process /\ proc' = [proc EXCEPT ![p] = w] /\ r \in Runtime
  BY <1>1, <1>2 DEF Shapes, Process
<1>a. <<r>> \in Seq(Names)
  BY <1>3 DEF Names
<1>4. w \in Process
  BY <1>2, <1>3, <1>a DEF Process, Steps
<1>5. proc'[p] = w
  BY <1>3 DEF Shapes
<1>. QED BY <1>1, <1>2, <1>3, <1>4, <1>5 DEF Shapes, Process

LEMMA CloseShimFacts ==
  ASSUME Shapes, NEW p \in Processes, CloseShim(p)
  PROVE  /\ proc' \in [Processes -> Process]
         /\ proc'[p].pc = "next" /\ proc'[p].todo = << >>
         /\ proc'[p].emitted = proc[p].emitted
         /\ proc'[p].shims = proc[p].shims \ {Unit(p)}
         /\ proc'[p].failed = proc[p].failed
         /\ proc'[p].makefile = proc[p].makefile /\ proc'[p].target = proc[p].target
<1>1. PICK w : w = [proc[p] EXCEPT !.pc = "next", !.todo = << >>,
                                   !.shims = proc[p].shims \ {Unit(p)}]
  OBVIOUS
<1>2. proc[p] \in Process /\ proc' = [proc EXCEPT ![p] = w]
  BY <1>1 DEF Shapes, CloseShim
<1>3. << >> \in Seq(Names)
  OBVIOUS
<1>4. w \in Process
  BY <1>1, <1>2, <1>3 DEF Process, Steps
<1>. QED BY <1>1, <1>2, <1>4 DEF Shapes, Process

LEMMA GoodPut ==
  ASSUME Shapes, NEW f \in Files, NEW contents, Put(f, contents), UNCHANGED ver
  PROVE  /\ \A g \in Files : g # f => (Good(g)' <=> Good(g))
         /\ contents = Current(f) => Good(f)'
<1>1. \A g : Current(g)' = Current(g)
  BY DEF Current, Translation
<1>. QED BY <1>1, PutFacts DEF Good

LEMMA HandledStays ==
  ASSUME NEW p \in Processes, NEW u \in Units, Handled(p, u), UNCHANGED <<ver, fault>>,
         Good(Header(u)) => Good(Header(u))', Good(Impl(u)) => Good(Impl(u))',
         proc[p].emitted \subseteq proc'[p].emitted,
         proc[p].failed => proc'[p].failed,
         \A r \in Runtime : r \in proc[p].shims \/ Good(Header(r))
                              => r \in proc'[p].shims \/ Good(Header(r))'
  PROVE  Handled(p, u)'
<1>1. Failing(u)' <=> Failing(u)
  BY SameSources
<1>2. \A r \in Uses[u] \cap Runtime : r \in proc[p].shims \/ Good(Header(r))
        => r \in proc'[p].shims \/ Good(Header(r))'
  OBVIOUS
<1>. QED BY <1>1, <1>2 DEF Handled

LEMMA HeadersStay ==
  ASSUME Shapes, HeadersInv, NEW f \in Files, NEW contents, Put(f, contents),
         UNCHANGED <<ver, fault>>,
         \A u \in Units : f = Header(u) => ~Failing(u) /\ ~CycleEdges
  PROVE  HeadersInv'
BY PutFacts, SameSources DEF HeadersInv

LEMMA ShapesPut ==
  ASSUME Shapes, NEW f \in Files, NEW contents, Put(f, contents),
         proc' \in [Processes -> Process], UNCHANGED <<ver, fault, mk, obj, make>>
  PROVE  Shapes'
BY PutFacts DEF Shapes

WorkDone(p) == Shapes' /\ HeadersInv' /\ WorkInv(p)'

LEMMA WorkFailUnit ==
  ASSUME Shapes, HeadersInv, NEW p \in Processes, WorkInv(p), FailUnit(p),
         UNCHANGED makeVars
  PROVE  WorkDone(p)
<1>0. PICK t, h : t = proc[p].todo /\ h = Unit(p)
  OBVIOUS
<1>1. /\ proc[p].pc = "next" /\ t # << >> /\ UNCHANGED <<ver, fault, dir, newer, mk>>
      /\ Failing(h)
  BY <1>0 DEF FailUnit, At, Fails, Failing
<1>2. /\ Left(p) = {h} \cup Elements(Tail(t))
      /\ Left(p)' = Elements(Tail(t)) /\ h \in Left(p)
  BY <1>0, <1>1, TodoFacts, FailUnitFacts DEF Left
<1>3. \A f : Good(f)' <=> Good(f)
  BY <1>1, SameSources DEF Good, Latest
<1>4. h \in Units /\ Left(p) \subseteq Units
  BY <1>1, <1>2 DEF WorkInv
<1>5. ASSUME NEW u \in Units, u \notin Left(p)'
      PROVE  Handled(p, u)'
  <2>1. CASE u = h
    BY <2>1, <1>1, SameSources, FailUnitFacts DEF Handled
  <2>2. CASE u # h
    <3>1. Handled(p, u)
      BY <2>2, <1>1, <1>2, <1>5 DEF WorkInv, Steps
    <3>. QED BY <3>1, <1>1, <1>3, FailUnitFacts, HandledStays
  <2>. QED BY <2>1, <2>2
<1>6. WorkInv(p)'
  <2>1. /\ ~CycleEdges' /\ \A u \in proc[p].emitted : ~Failing(u)'
        /\ \E u \in Units : Failing(u)'
    BY <1>1, <1>4, SameSources DEF WorkInv, Steps
  <2>. QED BY <2>1, <1>2, <1>4, <1>5, FailUnitFacts DEF WorkInv
<1>7. HeadersInv'
  BY <1>1, SameSources DEF HeadersInv, Latest
<1>8. Shapes'
  BY <1>1, FailUnitFacts DEF Shapes, makeVars
<1>. QED BY <1>6, <1>7, <1>8 DEF WorkDone

LEMMA NamesAreApart ==
  /\ \A m, n : Header(m) # Impl(n) /\ (Header(m) = Header(n) => m = n)
               /\ (Impl(m) = Impl(n) => m = n)
  /\ \A u \in Units, r \in Runtime : u # r
BY OrderAssumption DEF Header, Impl

LEMMA WorkOpenHeader ==
  ASSUME Shapes, HeadersInv, NEW p \in Processes, WorkInv(p), OpenHeader(p),
         UNCHANGED makeVars
  PROVE  WorkDone(p)
<1>0. PICK h : h = Unit(p)
  OBVIOUS
<1>1. /\ proc[p].pc = "next" /\ proc[p].todo # << >> /\ UNCHANGED <<ver, fault, mk>>
      /\ ~Failing(h) /\ Put(Header(h), Partial) /\ Goto(p, "header")
  BY <1>0 DEF OpenHeader, At, Fails, Failing
<1>2. h \in Left(p) /\ Left(p) \subseteq Units /\ h \in Units /\ Header(h) \in Files
  BY <1>0, <1>1, TodoFacts, OrderFacts DEF WorkInv, Names
<1>3. Left(p)' = Left(p) /\ Unit(p)' = h
  BY <1>0, <1>1, GotoFacts DEF Left, Unit, Steps
<1>4. \A g \in Files : g # Header(h) => (Good(g)' <=> Good(g))
  BY <1>1, <1>2, GoodPut
<1>5. ASSUME NEW u \in Units, u \notin Left(p)'
      PROVE  Handled(p, u)'
  <2>1. Handled(p, u) /\ u # h
    BY <1>1, <1>2, <1>3, <1>5 DEF WorkInv, Steps
  <2>2. /\ Good(Header(u))' <=> Good(Header(u))
        /\ Good(Impl(u))' <=> Good(Impl(u))
        /\ \A r \in Runtime : Good(Header(r))' <=> Good(Header(r))
    BY <2>1, <1>2, <1>4, NamesAreApart, OrderFacts DEF Names
  <2>. QED BY <2>1, <2>2, <1>1, GotoFacts, HandledStays DEF Steps
<1>6. WorkInv(p)'
  <2>1. /\ ~CycleEdges' /\ \A u \in proc[p].emitted : ~Failing(u)'
        /\ proc[p].failed => \E u \in Units : Failing(u)'
        /\ ~Failing(h)'
    BY <1>1, SameSources DEF WorkInv, Steps
  <2>. QED BY <2>1, <1>1, <1>2, <1>3, <1>5, GotoFacts DEF WorkInv, Steps
<1>7. HeadersInv'
  BY <1>1, <1>2, HeadersStay, NamesAreApart DEF WorkInv, Steps
<1>8. Shapes'
  BY <1>1, <1>2, ShapesPut, GotoFacts DEF makeVars, Steps
<1>. QED BY <1>6, <1>7, <1>8 DEF WorkDone

LEMMA WorkCloseHeader ==
  ASSUME Shapes, HeadersInv, NEW p \in Processes, WorkInv(p), CloseHeader(p),
         UNCHANGED makeVars
  PROVE  WorkDone(p)
<1>0. PICK h : h = Unit(p)
  OBVIOUS
<1>1. /\ proc[p].pc = "header" /\ UNCHANGED <<ver, fault, mk>>
      /\ Put(Header(h), Current(Header(h))) /\ Goto(p, "impl")
  BY <1>0 DEF CloseHeader, At
<1>2. /\ h \in Left(p) /\ Left(p) \subseteq Units /\ h \in Units /\ Header(h) \in Files
      /\ ~Failing(h) /\ proc[p].todo # << >>
  BY <1>0, <1>1, TodoFacts, OrderFacts DEF WorkInv, Names
<1>3. Left(p)' = Left(p) /\ Unit(p)' = h
  BY <1>0, <1>1, GotoFacts DEF Left, Unit, Steps
<1>4. /\ \A g \in Files : g # Header(h) => (Good(g)' <=> Good(g))
      /\ Good(Header(h))'
  BY <1>1, <1>2, GoodPut
<1>5. ASSUME NEW u \in Units, u \notin Left(p)'
      PROVE  Handled(p, u)'
  <2>1. Handled(p, u) /\ u # h
    BY <1>1, <1>2, <1>3, <1>5 DEF WorkInv, Steps
  <2>2. /\ Good(Header(u))' <=> Good(Header(u))
        /\ Good(Impl(u))' <=> Good(Impl(u))
        /\ \A r \in Runtime : Good(Header(r))' <=> Good(Header(r))
    BY <2>1, <1>2, <1>4, NamesAreApart, OrderFacts DEF Names
  <2>. QED BY <2>1, <2>2, <1>1, GotoFacts, HandledStays DEF Steps
<1>6. WorkInv(p)'
  <2>1. /\ ~CycleEdges' /\ \A u \in proc[p].emitted : ~Failing(u)'
        /\ proc[p].failed => \E u \in Units : Failing(u)'
        /\ ~Failing(h)'
    BY <1>1, <1>2, SameSources DEF WorkInv, Steps
  <2>. QED BY <2>1, <1>1, <1>2, <1>3, <1>4, <1>5, GotoFacts DEF WorkInv, Steps
<1>7. HeadersInv'
  BY <1>1, <1>2, HeadersStay, NamesAreApart DEF WorkInv, Steps
<1>8. Shapes'
  BY <1>1, <1>2, ShapesPut, GotoFacts DEF makeVars, Steps
<1>. QED BY <1>6, <1>7, <1>8 DEF WorkDone

LEMMA WorkOpenImpl ==
  ASSUME Shapes, HeadersInv, NEW p \in Processes, WorkInv(p), OpenImpl(p),
         UNCHANGED makeVars
  PROVE  WorkDone(p)
<1>0. PICK h : h = Unit(p)
  OBVIOUS
<1>1. /\ proc[p].pc = "impl" /\ UNCHANGED <<ver, fault, mk>>
      /\ Put(Impl(h), Partial) /\ Goto(p, "body")
  BY <1>0 DEF OpenImpl, At
<1>2. /\ h \in Left(p) /\ Left(p) \subseteq Units /\ h \in Units /\ Impl(h) \in Files
      /\ ~Failing(h) /\ proc[p].todo # << >> /\ Good(Header(h)) /\ Header(h) \in Files
  BY <1>0, <1>1, TodoFacts, OrderFacts DEF WorkInv, Names
<1>3. Left(p)' = Left(p) /\ Unit(p)' = h
  BY <1>0, <1>1, GotoFacts DEF Left, Unit, Steps
<1>4. \A g \in Files : g # Impl(h) => (Good(g)' <=> Good(g))
  BY <1>1, <1>2, GoodPut
<1>5. ASSUME NEW u \in Units, u \notin Left(p)'
      PROVE  Handled(p, u)'
  <2>1. Handled(p, u) /\ u # h
    BY <1>1, <1>2, <1>3, <1>5 DEF WorkInv, Steps
  <2>2. /\ Good(Header(u))' <=> Good(Header(u))
        /\ Good(Impl(u))' <=> Good(Impl(u))
        /\ \A r \in Runtime : Good(Header(r))' <=> Good(Header(r))
    BY <2>1, <1>2, <1>4, NamesAreApart, OrderFacts DEF Names
  <2>. QED BY <2>1, <2>2, <1>1, GotoFacts, HandledStays DEF Steps
<1>6. WorkInv(p)'
  <2>1. /\ ~CycleEdges' /\ \A u \in proc[p].emitted : ~Failing(u)'
        /\ proc[p].failed => \E u \in Units : Failing(u)'
        /\ ~Failing(h)'
    BY <1>1, <1>2, SameSources DEF WorkInv, Steps
  <2>2. Good(Header(h))'
    BY <1>2, <1>4, NamesAreApart
  <2>. QED BY <2>1, <2>2, <1>1, <1>2, <1>3, <1>5, GotoFacts DEF WorkInv, Steps
<1>7. HeadersInv'
  BY <1>1, <1>2, HeadersStay, NamesAreApart
<1>8. Shapes'
  BY <1>1, <1>2, ShapesPut, GotoFacts DEF makeVars, Steps
<1>. QED BY <1>6, <1>7, <1>8 DEF WorkDone

LEMMA WorkCloseImpl ==
  ASSUME Shapes, HeadersInv, NEW p \in Processes, WorkInv(p), CloseImpl(p),
         UNCHANGED makeVars
  PROVE  WorkDone(p)
<1>0. PICK t, h : t = proc[p].todo /\ h = Unit(p)
  OBVIOUS
<1>1. /\ proc[p].pc = "body" /\ UNCHANGED <<ver, fault, mk>>
      /\ Put(Impl(h), Current(Impl(h)))
  BY <1>0 DEF CloseImpl, At
<1>2. /\ h \in Left(p) /\ Left(p) \subseteq Units /\ h \in Units /\ Impl(h) \in Files
      /\ ~Failing(h) /\ t # << >> /\ Good(Header(h)) /\ Header(h) \in Files
  BY <1>0, <1>1, TodoFacts, OrderFacts DEF WorkInv, Names
<1>3. /\ Left(p) = {h} \cup Elements(Tail(t))
      /\ Left(p)' = Elements(Tail(t))
  BY <1>0, <1>2, TodoFacts, CloseImplFacts DEF Left
<1>4. /\ \A g \in Files : g # Impl(h) => (Good(g)' <=> Good(g))
      /\ Good(Impl(h))' /\ Good(Header(h))'
  BY <1>1, <1>2, GoodPut, NamesAreApart
<1>a. /\ proc'[p].emitted = proc[p].emitted \cup {h}
      /\ proc'[p].shims = proc[p].shims \cup (Uses[h] \cap Runtime)
      /\ proc'[p].failed = proc[p].failed /\ proc'[p].pc = "next"
      /\ proc' \in [Processes -> Process]
  BY <1>0, <1>2, CloseImplFacts
<1>5. ASSUME NEW u \in Units, u \notin Left(p)'
      PROVE  Handled(p, u)'
  <2>1. CASE u = h
    BY <2>1, <1>1, <1>2, <1>4, <1>a, SameSources DEF Handled
  <2>2. CASE u # h
    <3>1. Handled(p, u)
      BY <2>2, <1>1, <1>3, <1>5 DEF WorkInv, Steps
    <3>2. /\ Good(Header(u))' <=> Good(Header(u))
          /\ Good(Impl(u))' <=> Good(Impl(u))
          /\ \A r \in Runtime : Good(Header(r))' <=> Good(Header(r))
      BY <2>2, <1>2, <1>4, NamesAreApart, OrderFacts DEF Names
    <3>. QED BY <3>1, <3>2, <1>1, <1>a, HandledStays
  <2>. QED BY <2>1, <2>2
<1>6. WorkInv(p)'
  <2>1. /\ ~CycleEdges' /\ \A u \in proc[p].emitted : ~Failing(u)'
        /\ proc[p].failed => \E u \in Units : Failing(u)'
        /\ ~Failing(h)'
    BY <1>1, <1>2, SameSources DEF WorkInv, Steps
  <2>. QED BY <2>1, <1>a, <1>2, <1>3, <1>5 DEF WorkInv
<1>7. HeadersInv'
  BY <1>1, <1>2, HeadersStay, NamesAreApart
<1>8. Shapes'
  BY <1>1, <1>2, <1>a, ShapesPut DEF makeVars
<1>. QED BY <1>6, <1>7, <1>8 DEF WorkDone

LEMMA WorkOpenShim ==
  ASSUME Shapes, HeadersInv, NEW p \in Processes, WorkInv(p), OpenShim(p),
         UNCHANGED makeVars
  PROVE  WorkDone(p)
<1>0. PICK r \in proc[p].shims :
         /\ Put(Header(r), Partial) /\ r \in Runtime
         /\ proc' \in [Processes -> Process]
         /\ proc'[p].pc = "shim" /\ proc'[p].todo = <<r>>
         /\ proc'[p].emitted = proc[p].emitted /\ proc'[p].shims = proc[p].shims
         /\ proc'[p].failed = proc[p].failed
  BY OpenShimFacts
<1>1. /\ proc[p].pc = "next" /\ proc[p].todo = << >> /\ UNCHANGED <<ver, fault, mk>>
  BY DEF OpenShim, At
<1>2. Left(p) = {} /\ Unit(p)' = r /\ Header(r) \in Files
  BY <1>0, <1>1, OrderFacts DEF Left, Elements, Unit, Names
<1>4. \A g \in Files : g # Header(r) => (Good(g)' <=> Good(g))
  BY <1>0, <1>1, <1>2, GoodPut
<1>5. ASSUME NEW u \in Units
      PROVE  Handled(p, u)'
  <2>1. Handled(p, u)
    BY <1>1, <1>2, <1>5 DEF WorkInv, Steps
  <2>2. /\ Good(Header(u))' <=> Good(Header(u))
        /\ Good(Impl(u))' <=> Good(Impl(u))
        /\ \A q \in Runtime : q # r => (Good(Header(q))' <=> Good(Header(q)))
    BY <1>0, <1>2, <1>4, NamesAreApart, OrderFacts DEF Names
  <2>3. \A q \in Runtime : q \in proc[p].shims \/ Good(Header(q))
                             => q \in proc'[p].shims \/ Good(Header(q))'
    BY <2>2, <1>0
  <2>. QED BY <2>1, <2>2, <2>3, <1>0, <1>1, HandledStays
<1>6. WorkInv(p)'
  <2>1. /\ ~CycleEdges' /\ \A u \in proc[p].emitted : ~Failing(u)'
        /\ proc[p].failed => \E u \in Units : Failing(u)'
    BY <1>1, SameSources DEF WorkInv, Steps
  <2>. QED BY <2>1, <1>0, <1>2, <1>5 DEF WorkInv
<1>7. HeadersInv'
  BY <1>0, <1>1, <1>2, HeadersStay, NamesAreApart
<1>8. Shapes'
  BY <1>0, <1>1, <1>2, ShapesPut DEF makeVars
<1>. QED BY <1>6, <1>7, <1>8 DEF WorkDone

LEMMA WorkCloseShim ==
  ASSUME Shapes, HeadersInv, NEW p \in Processes, WorkInv(p), CloseShim(p),
         UNCHANGED makeVars
  PROVE  WorkDone(p)
<1>0. PICK r : r = Unit(p)
  OBVIOUS
<1>1. /\ proc[p].pc = "shim" /\ UNCHANGED <<ver, fault, mk>>
      /\ Put(Header(r), Current(Header(r)))
      /\ r \in proc[p].shims /\ proc[p].todo = <<r>>
  BY <1>0 DEF CloseShim, At, WorkInv
<1>2. /\ r \in Runtime /\ Left(p) = {r} /\ Header(r) \in Files
  <2>1. proc[p] \in Process
    BY DEF Shapes
  <2>2. Elements(<<r>>) = {r}
    <3>1. Len(<<r>>) = 1 /\ <<r>>[1] = r
      OBVIOUS
    <3>. QED BY <3>1 DEF Elements
  <2>. QED BY <2>1, <2>2, <1>1, OrderFacts DEF Process, Left, Names
<1>3. /\ Left(p)' = {}
      /\ proc'[p].emitted = proc[p].emitted /\ proc'[p].shims = proc[p].shims \ {r}
      /\ proc'[p].failed = proc[p].failed /\ proc'[p].pc = "next"
      /\ proc' \in [Processes -> Process]
  BY <1>0, CloseShimFacts DEF Left, Elements
<1>4. /\ \A g \in Files : g # Header(r) => (Good(g)' <=> Good(g))
      /\ Good(Header(r))'
  BY <1>1, <1>2, GoodPut
<1>5. ASSUME NEW u \in Units
      PROVE  Handled(p, u)'
  <2>1. Handled(p, u)
    BY <1>1, <1>2, <1>5, NamesAreApart DEF WorkInv, Steps
  <2>2. /\ Good(Header(u))' <=> Good(Header(u))
        /\ Good(Impl(u))' <=> Good(Impl(u))
        /\ \A q \in Runtime : q # r => (Good(Header(q))' <=> Good(Header(q)))
    BY <1>2, <1>4, NamesAreApart, OrderFacts DEF Names
  <2>3. \A q \in Runtime : q \in proc[p].shims \/ Good(Header(q))
                             => q \in proc'[p].shims \/ Good(Header(q))'
    BY <2>2, <1>3, <1>4
  <2>. QED BY <2>1, <2>2, <2>3, <1>1, <1>3, HandledStays
<1>6. WorkInv(p)'
  <2>1. /\ ~CycleEdges' /\ \A u \in proc[p].emitted : ~Failing(u)'
        /\ proc[p].failed => \E u \in Units : Failing(u)'
    BY <1>1, SameSources DEF WorkInv, Steps
  <2>. QED BY <2>1, <1>3, <1>5 DEF WorkInv
<1>7. HeadersInv'
  BY <1>1, <1>2, HeadersStay, NamesAreApart
<1>8. Shapes'
  BY <1>1, <1>2, <1>3, ShapesPut DEF makeVars
<1>. QED BY <1>6, <1>7, <1>8 DEF WorkDone

LEMMA WorkFinish ==
  ASSUME Shapes, HeadersInv, NEW p \in Processes, WorkInv(p), Finish(p),
         UNCHANGED makeVars
  PROVE  WorkDone(p)
<1>1. /\ proc[p].pc = "next" /\ proc[p].todo = << >> /\ proc[p].shims = {}
      /\ UNCHANGED <<ver, fault, dir, newer>>
      /\ Goto(p, Status(p))
      /\ mk' = IF proc[p].makefile THEN Manifest(p) ELSE mk
  BY DEF Finish, At
<1>2. \A u \in Units : Handled(p, u)
  BY <1>1 DEF WorkInv, Steps, Left, Elements
<1>3. Status(p) \in {"ok", "error"} /\ proc'[p].pc = Status(p) /\ proc' \in [Processes -> Process]
  <2>1. Status(p) \in {"ok", "error"}
    BY DEF Status
  <2>. QED BY <2>1, <1>1, GotoFacts
<1>4. \A f : Good(f)' <=> Good(f)
  BY <1>1, SameSources DEF Good, Latest
<1>5. ~Faulty => AllGood
  <2>1. SUFFICES ASSUME ~Faulty, NEW f \in Wanted PROVE Good(f)
    BY DEF AllGood
  <2>2. \A u \in Units : /\ Good(Header(u)) /\ Good(Impl(u))
                         /\ \A r \in Uses[u] \cap Runtime : Good(Header(r))
    BY <2>1, <1>1, <1>2 DEF Faulty, Handled
  <2>. QED BY <2>2 DEF Wanted
<1>6. Status(p) = "error" <=> Faulty
  <2>1. proc[p].failed <=> \E u \in Units : Failing(u)
    BY <1>1, <1>2 DEF WorkInv, Steps, Handled
  <2>2. DiscoverErrors => Faulty
    <3>1. ASSUME NEW u \in Units, fault[u] = "parse" PROVE Failing(u)
      BY <3>1 DEF Failing, Ok
    <3>. QED BY <3>1 DEF DiscoverErrors, Faulty, CycleEdges
  <2>3. ~CycleEdges
    BY <1>1 DEF WorkInv, Steps
  <2>. QED BY <2>1, <2>2, <2>3 DEF Status, Faulty
<1>7. WorkInv(p)'
  <2>1. Faulty' <=> Faulty
    BY <1>1, SameSources DEF Faulty
  <2>2. AllGood' <=> AllGood
    BY <1>4 DEF AllGood
  <2>. QED BY <2>1, <2>2, <1>3, <1>5, <1>6 DEF WorkInv, Steps
<1>8. HeadersInv'
  BY <1>1, SameSources DEF HeadersInv, Latest
<1>9. Shapes'
  <2>1. mk'.pas_sources = mk'.cc_sources /\ mk'.cc_sources \subseteq Units
    BY <1>1 DEF Manifest, Shapes, Process
  <2>. QED BY <2>1, <1>1, <1>3 DEF Shapes, makeVars
<1>. QED BY <1>7, <1>8, <1>9 DEF WorkDone

\* All steps of a run of emit-all.
LEMMA WorkStep ==
  ASSUME Shapes, HeadersInv, NEW p \in Processes, WorkInv(p), EmitAllStep(p)
  PROVE  WorkDone(p)
BY WorkFailUnit, WorkOpenHeader, WorkCloseHeader, WorkOpenImpl, WorkCloseImpl,
   WorkOpenShim, WorkCloseShim, WorkFinish DEF EmitAllStep, EmitStep

-----------------------------------------------------------------------------
(***************************************************************************)
(* What make looks at, under a Makefile that lists all units.  It comes    *)
(* first to the headers and one implementation file; each run of emit-all  *)
(* is for one of these, and one of these is out of date as long as a run   *)
(* has not come to a good end.                                             *)
(***************************************************************************)
Early == Headers \cup {Impl(First)}
EarlyOutdated == \E t \in Early : Outdated(t)

LEMMA RankFacts ==
  /\ \A n \in Names : Rank(n) \in Nat
  /\ \A m \in Names, n \in Names : Rank(m) = Rank(n) => m = n
<1>1. \A n \in Names : Rank(n) \in 1..Len(Sorted) /\ Sorted[Rank(n)] = n
  BY SortedAssumption DEF Rank
<1>2. Len(Sorted) \in Nat
  BY SortedAssumption
<1>. QED BY <1>1, <1>2

LEMMA FirstFacts ==
  ASSUME Listed = Units
  PROVE  First \in Units /\ \A v \in Units : Rank(First) <= Rank(v)
<1>1. PICK R : R = {Rank(u) : u \in Units}
  OBVIOUS
<1>2. R \subseteq Nat /\ R # {}
  <2>1. \A u \in Units : Rank(u) \in Nat
    BY RankFacts DEF Names
  <2>. QED BY <2>1, <1>1, OrderFacts
<1>a. PICK Less : Less = {ss \in Nat \X Nat : ss[1] < ss[2]}
  OBVIOUS
<1>b. IsWellFoundedOn(Less, Nat)
  BY <1>a, NatLessThanWellFounded DEF OpToRel
<1>3. PICK k \in R : \A j \in R : ~(<<j, k>> \in Less)
  BY <1>2, <1>b, WFMin
<1>4. ASSUME NEW j \in R PROVE k <= j
  <2>1. j \in Nat /\ k \in Nat
    BY <1>2, <1>3
  <2>2. j < k => <<j, k>> \in Less
    BY <2>1, <1>a
  <2>. QED BY <2>1, <2>2, <1>3
<1>5. PICK u \in Units : k = Rank(u)
  BY <1>1, <1>3
<1>6. u \in Units /\ \A v \in Units : Rank(u) <= Rank(v)
  BY <1>1, <1>4, <1>5
<1>. QED BY <1>6 DEF First

LEMMA WhenListed ==
  ASSUME Shapes, Listed = Units
  PROVE  /\ Targets = Wanted /\ Early \subseteq Targets
         /\ \A u \in Units : Header(u) \in Early
         /\ \A f : Outdated(f) <=> dir[f] = Absent \/ ~Latest(f)
         /\ AllGood => \A t \in Targets : ~Outdated(t)
<1>1. Targets = Wanted
  BY DEF Targets, Headers, Wanted
<1>2. Early \subseteq Targets
  BY FirstFacts DEF Early, Targets
<1>3. \A u \in Units : Header(u) \in Early
  BY DEF Early, Headers
<1>4. mk.pas_sources = Units
  BY DEF Shapes, Listed
<1>5. \A f : Outdated(f) <=> dir[f] = Absent \/ ~Latest(f)
  BY <1>4 DEF Outdated, Latest
<1>6. AllGood => \A t \in Targets : ~Outdated(t)
  BY <1>1, <1>5, ContentsDiffer DEF AllGood, Good
<1>. QED BY <1>1, <1>2, <1>3, <1>5, <1>6

LEMMA FaultsLeaveWork ==
  ASSUME Shapes, HeadersInv, Listed = Units, Faulty
  PROVE  EarlyOutdated
<1>1. PICK u \in Units : Failing(u) \/ CycleEdges
  BY OrderFacts DEF Faulty
<1>2. ~Latest(Header(u))
  BY <1>1 DEF HeadersInv
<1>. QED BY <1>2, WhenListed DEF EarlyOutdated

\* With one process, make comes to anything else only when it is done with
\* the early ones.
LEMMA EarlyFirst ==
  ASSUME NEW p \in Processes, Processes = {p}, At(p, "off"), Shapes, Listed = Units,
         NEW x, Considers(x), x \notin Early
  PROVE  Early \subseteq done
<1>1. \A y : ~JobFor(y)
  BY DEF JobFor
<1>2. \A y \in Goals : Before(y, x) => y \in done \/ Waits(y)
  BY <1>1 DEF Considers
<1>3. x \in Goals /\ ~Waits(x)
  BY DEF Considers
<1>4. First \in Units /\ (\A v \in Units : Rank(First) <= Rank(v)) /\ Units \subseteq Names
  BY FirstFacts DEF Names
<1>5. /\ \A n : Header(n) = <<"h", n>> /\ Header(n)[1] = "h" /\ Header(n)[2] = n
      /\ \A n : Impl(n)[1] = "cc" /\ Impl(n)[2] = n
      /\ \A n : Object(n)[1] = "o" /\ Object(n)[2] = n
  BY DEF Header, Impl, Object
<1>6. \A y \in Early : y \in Goals /\ ~Waits(y)
  BY <1>4, <1>5 DEF Early, Headers, Goals, Targets, Waits
<1>7. CASE \E u \in Units : x = Impl(u)
  <2>1. PICK u \in Units : x = Impl(u) /\ u # First
    BY <1>7 DEF Early
  <2>2. x[1] = "cc" /\ x[2] = u /\ x # Impl(First) /\ Rank(First) < Rank(u)
    BY <2>1, <1>4, <1>5, RankFacts
  <2>3. \A y \in Headers : Before(y, x)
    BY <2>2, <1>5 DEF Before, Headers
  <2>4. Before(Impl(First), x)
    BY <2>2, <1>5 DEF Before
  <2>. QED BY <2>3, <2>4, <1>2, <1>6 DEF Early
<1>8. CASE \E u \in Units : x = Object(u)
  <2>1. PICK u \in Units : x = Object(u)
    BY <1>8
  <2>2. Headers \cup {Impl(u)} \subseteq done
    BY <2>1, <1>3, <1>5 DEF Waits, Prerequisites
  <2>3. ASSUME u # First PROVE Impl(First) \in done
    <3>1. Rank(First) < Rank(u)
      BY <2>3, <1>4, RankFacts
    <3>2. Before(Impl(First), x)
      BY <2>1, <3>1, <1>5 DEF Before
    <3>. QED BY <3>2, <1>2, <1>6 DEF Early
  <2>. QED BY <2>2, <2>3 DEF Early
<1>. QED BY <1>3, <1>7, <1>8 DEF Goals, Targets, Early

\* What an object is compiled from is what make has looked at.
LEMMA ReadsFacts ==
  ASSUME NEW u \in Units
  PROVE  /\ Reads(u) \subseteq Wanted
         /\ Listed = Units => Reads(u) \subseteq Prerequisites(u)
<1>1. PICK S : S = Units \cup UNION {Uses[v] \cap Runtime : v \in Units}
  OBVIOUS
<1>2. S \subseteq Names /\ \A w \in Units : Uses[w] \subseteq S
  BY <1>1, OrderAssumption DEF Names
<1>3. Needs[u] \subseteq S
  <2>1. ASSUME NEW v \in Needs[u] PROVE v \in S
    <3>1. \A T \in SUBSET Names :
            (Uses[u] \subseteq T /\ \A w \in T \cap Units : Uses[w] \subseteq T) => v \in T
      BY <2>1 DEF Needs, Names
    <3>. QED BY <3>1, <1>2
  <2>. QED BY <2>1
<1>. QED BY <1>1, <1>3 DEF Reads, Wanted, Prerequisites, Headers

-----------------------------------------------------------------------------
(***************************************************************************)
(* make and the user.                                                      *)
(***************************************************************************)
Alone(p) == p \in Processes /\ Processes = {p}
Job(p) == ~At(p, "off") /\ ~proc[p].makefile

\* A run of the user, and a run for make.
RunsInv(p) ==
  /\ ~At(p, "off") /\ proc[p].makefile => make = "idle" /\ last = "none" /\ ~retry
  /\ Job(p) => /\ make = "running"
               /\ proc[p].target \in Targets \ done
               /\ Listed = Units => proc[p].target \in Early

\* Between the runs, something early is out of date or all is as it should be.
SettledInv(p) == Listed = Units /\ At(p, "off") =>
  /\ EarlyOutdated \/ AllGood
  /\ retry => EarlyOutdated
  /\ make = "running" => \A t \in done \cap Targets : ~Outdated(t)

DoneInv == make = "running" =>
  /\ \A u \in Listed : Object(u) \in done => Prerequisites(u) \subseteq done
  /\ Listed = Units => \A u \in Units : Object(u) \in done => obj[u] = CompiledNow(u)

\* An object is made from the files as they are, but those written since.
ObjectsInv == \A u \in Units : obj[u] # Absent =>
  \E g : /\ obj[u] = Text([f \in Reads(u) |-> g[f]])
         /\ \A f \in Reads(u) : f \in newer[Object(u)] \/ dir[f] \in {g[f], Absent}

BuildInv(p) == /\ Shapes /\ HeadersInv /\ WorkInv(p)
               /\ RunsInv(p) /\ SettledInv(p) /\ DoneInv /\ ObjectsInv
               /\ GoodBuildIsFresh

LEMMA SameMakefile ==
  ASSUME UNCHANGED mk
  PROVE  /\ Listed' = Listed /\ Targets' = Targets /\ Early' = Early
         /\ \A u : Prerequisites(u)' = Prerequisites(u)
<1>1. Listed' = Listed /\ Headers' = Headers
  BY DEF Listed, Headers
<1>2. First' = First
  BY <1>1 DEF First
<1>. QED BY <1>1, <1>2 DEF Targets, Early, Prerequisites

LEMMA SameFiles ==
  ASSUME Shapes, UNCHANGED <<ver, fault, dir, mk>>,
         \A u \in Units : newer'[Source(u)] = newer[Source(u)]
  PROVE  /\ \A f : Latest(f)' <=> Latest(f)
         /\ \A f : Good(f)' <=> Good(f)
         /\ AllGood' <=> AllGood
         /\ \A f : Outdated(f)' <=> Outdated(f)
         /\ EarlyOutdated' <=> EarlyOutdated
         /\ HeadersInv' <=> HeadersInv
<1>1. \A f : Latest(f)' <=> Latest(f)
  BY DEF Latest
<1>2. \A f : Good(f)' <=> Good(f)
  BY <1>1, SameSources DEF Good
<1>3. AllGood' <=> AllGood
  BY <1>2 DEF AllGood
<1>4. \A f : Outdated(f)' <=> Outdated(f)
  BY DEF Outdated, Shapes
<1>5. EarlyOutdated' <=> EarlyOutdated
  BY <1>4, SameMakefile DEF EarlyOutdated
<1>6. HeadersInv' <=> HeadersInv
  BY <1>1, SameSources DEF HeadersInv
<1>. QED BY <1>1, <1>2, <1>3, <1>4, <1>5, <1>6

LEMMA SameObjects ==
  ASSUME ObjectsInv, UNCHANGED obj, \A f \in Files : dir'[f] \in {dir[f], Absent},
         \A u \in Units : newer'[Object(u)] = newer[Object(u)]
  PROVE  ObjectsInv'
<1>1. \A u \in Units : Reads(u) \subseteq Files
  BY ReadsFacts, OrderFacts
<1>. QED BY <1>1 DEF ObjectsInv

LEMMA PutObjects ==
  ASSUME Shapes, ObjectsInv, UNCHANGED obj,
         NEW f \in Files, NEW contents, Put(f, contents)
  PROVE  ObjectsInv'
<1>1. SUFFICES ASSUME NEW u \in Units, obj[u] # Absent
               PROVE  \E g : /\ obj[u] = Text([h \in Reads(u) |-> g[h]])
                             /\ \A h \in Reads(u) :
                                  h \in newer'[Object(u)] \/ dir'[h] \in {g[h], Absent}
  BY DEF ObjectsInv
<1>2. PICK g : /\ obj[u] = Text([h \in Reads(u) |-> g[h]])
               /\ \A h \in Reads(u) : h \in newer[Object(u)] \/ dir[h] \in {g[h], Absent}
  BY <1>1 DEF ObjectsInv
<1>3. \A h \in Reads(u) : h \in newer'[Object(u)] \/ dir'[h] \in {g[h], Absent}
  <2>1. Reads(u) \subseteq Files
    BY ReadsFacts, OrderFacts
  <2>2. /\ newer'[Object(u)] = newer[Object(u)] \cup {f}
        /\ \A h \in Files : h # f => dir'[h] = dir[h]
    BY PutFacts
  <2>. QED BY <1>2, <2>1, <2>2
<1>. QED BY <1>2, <1>3

\* When make has come to an object, all files are as they should be.
LEMMA ObjectsLast ==
  ASSUME NEW p, Alone(p), BuildInv(p), Listed = Units, NEW u \in Units,
         Considers(Object(u))
  PROVE  AllGood /\ Compiled(u) = CompiledNow(u) /\ \A f \in Reads(u) : dir[f] = Current(f)
<1>1. At(p, "off") /\ make = "running"
  BY DEF Considers, FreeSlot, Alone
<1>2. Object(u) \notin Early
  BY DEF Early, Headers, Object, Header, Impl
<1>3. Early \subseteq done
  BY <1>1, <1>2, EarlyFirst DEF Alone, BuildInv
<1>4. AllGood
  BY <1>1, <1>3, WhenListed DEF BuildInv, SettledInv, EarlyOutdated
<1>5. \A f \in Reads(u) : dir[f] = Current(f)
  BY <1>4, ReadsFacts DEF AllGood, Good
<1>6. Compiled(u) = CompiledNow(u)
  BY <1>5 DEF Compiled, CompiledNow
<1>. QED BY <1>4, <1>5, <1>6

LEMMA FreshObject ==
  ASSUME NEW p, Alone(p), BuildInv(p), Listed = Units, NEW u \in Units,
         Considers(Object(u)), ~ObjectOutdated(u)
  PROVE  obj[u] = CompiledNow(u)
<1>1. PICK g : /\ obj[u] = Text([f \in Reads(u) |-> g[f]])
               /\ \A f \in Reads(u) : f \in newer[Object(u)] \/ dir[f] \in {g[f], Absent}
  BY DEF ObjectOutdated, BuildInv, ObjectsInv
<1>2. \A f \in Reads(u) : f \notin newer[Object(u)]
  BY ReadsFacts DEF ObjectOutdated
<1>3. \A f \in Reads(u) : dir[f] = Current(f) /\ dir[f] # Absent
  BY ObjectsLast, ContentsDiffer
<1>4. \A f \in Reads(u) : g[f] = Current(f)
  BY <1>1, <1>2, <1>3
<1>. QED BY <1>1, <1>4 DEF CompiledNow

\* make links when no job is running.
LEMMA BuiltIsQuiet ==
  ASSUME NEW p, Alone(p), BuildInv(p), make = "running", Built
  PROVE  At(p, "off")
<1>1. ASSUME Job(p) PROVE FALSE
  <2>1. PICK t : t = proc[p].target /\ t \in Targets \ done
    BY <1>1 DEF BuildInv, RunsInv
  <2>2. \A u \in Listed : Prerequisites(u) \subseteq done
    BY DEF Built, BuildInv, DoneInv
  <2>3. \E u \in Listed : t \in Prerequisites(u)
    BY <2>1 DEF Targets, Headers, Prerequisites
  <2>. QED BY <2>1, <2>2, <2>3
<1>. QED BY <1>1 DEF BuildInv, RunsInv, Job

LEMMA BeginFacts ==
  ASSUME Shapes, NEW p \in Processes, NEW t \in Files \cup {NoTarget},
         NEW makefile \in BOOLEAN, Begin(p, t, makefile), UNCHANGED <<obj>>,
         make' \in {"idle", "running", "failing"}
  PROVE  /\ Shapes' /\ WorkInv(p)'
         /\ UNCHANGED <<ver, fault, dir, newer, mk>>
         /\ At(p, "off") /\ ~At(p, "off")'
         /\ proc'[p].target = t /\ proc'[p].makefile = makefile
<1>1. PICK w : w = [Off EXCEPT !.target = t, !.makefile = makefile,
                               !.pc = IF CycleEdges THEN "error" ELSE "next",
                               !.todo = IF CycleEdges THEN << >> ELSE Order]
  OBVIOUS
<1>2. proc' = [proc EXCEPT ![p] = w] /\ UNCHANGED <<ver, fault, dir, newer, mk>>
  BY <1>1 DEF Begin
<1>3. /\ w.target = t /\ w.makefile = makefile
      /\ w.pc = IF CycleEdges THEN "error" ELSE "next"
      /\ w.todo = IF CycleEdges THEN << >> ELSE Order
      /\ w.emitted = {} /\ w.shims = {} /\ w.failed = FALSE
  BY <1>1 DEF Off
<1>4. w \in Process
  <2>1. << >> \in Seq(Names) /\ Order \in Seq(Names)
    BY OrderFacts DEF Names
  <2>2. w.todo \in Seq(Names)
    BY <2>1, <1>3
  <2>. QED BY <2>2, <1>1, <1>3 DEF Process, Steps, Off
<1>5. proc' \in [Processes -> Process] /\ proc'[p] = w
  BY <1>2, <1>4 DEF Shapes
<1>6. Elements(Order) = Units
  BY DEF Elements, Units
<1>7. WorkInv(p)'
  <2>1. CASE CycleEdges
    BY <2>1, <1>2, <1>3, <1>5, SameSources DEF WorkInv, Steps, Faulty
  <2>2. CASE ~CycleEdges
    <3>1. Left(p)' = Units
      BY <2>2, <1>3, <1>5, <1>6 DEF Left
    <3>2. ~CycleEdges' /\ proc'[p].pc = "next"
      BY <2>2, <1>2, <1>3, <1>5, SameSources
    <3>. QED BY <3>1, <3>2, <1>3, <1>5 DEF WorkInv, Steps
  <2>. QED BY <2>1, <2>2
<1>. QED BY <1>2, <1>3, <1>5, <1>7 DEF Shapes, Begin, At

LEMMA OffFacts ==
  ASSUME Shapes, NEW p, Alone(p),
         proc' = [proc EXCEPT ![p] = Off] \/ proc' = [q \in Processes |-> Off]
  PROVE  /\ proc' \in [Processes -> Process]
         /\ At(p, "off")' /\ WorkInv(p)'
<1>1. Off \in Process
  <2>1. << >> \in Seq(Names)
    OBVIOUS
  <2>. QED BY <2>1 DEF Off, Process
<1>2. proc' \in [Processes -> Process] /\ proc'[p] = Off /\ Off.pc = "off"
  BY <1>1 DEF Alone, Shapes, Off
<1>. QED BY <1>2 DEF At, WorkInv, Steps

LEMMA EmitStepFacts ==
  ASSUME Shapes, NEW p \in Processes, WorkInv(p), EmitStep(p)
  PROVE  /\ UNCHANGED <<ver, fault>>
         /\ mk' = mk \/ proc[p].makefile
         /\ ~At(p, "off") /\ ~At(p, "off")'
         /\ proc'[p].makefile = proc[p].makefile /\ proc'[p].target = proc[p].target
         /\ UNCHANGED <<dir, newer>> \/ (\E f \in Files : \E contents : Put(f, contents))
<1>1. CASE FailUnit(p)
  BY <1>1, FailUnitFacts DEF FailUnit, At
<1>2. \A u \in Names : Header(u) \in Files
  BY OrderFacts
<1>3. \A u \in Units : Impl(u) \in Files
  BY OrderFacts
<1>4. CASE OpenHeader(p)
  BY <1>2, <1>4, GotoFacts, TodoFacts DEF OpenHeader, At, Steps
<1>5. proc[p].pc \in {"header", "impl", "body"} =>
        proc[p].todo # << >> /\ Unit(p) \in Units /\ Unit(p) \in Names
  BY DEF WorkInv, Names
<1>6. CASE CloseHeader(p)
  BY <1>2, <1>5, <1>6, GotoFacts DEF CloseHeader, At, Steps
<1>7. CASE OpenImpl(p)
  BY <1>3, <1>5, <1>7, GotoFacts DEF OpenImpl, At, Steps
<1>8. CASE CloseImpl(p)
  BY <1>3, <1>5, <1>8, CloseImplFacts DEF CloseImpl, At
<1>9. CASE OpenShim(p)
  BY <1>2, <1>9, OpenShimFacts DEF OpenShim, At, Names
<1>10. CASE CloseShim(p)
  <2>1. Unit(p) \in proc[p].shims /\ proc[p] \in Process
    BY <1>10 DEF CloseShim, At, WorkInv, Shapes
  <2>2. Header(Unit(p)) \in Files
    BY <2>1, <1>2 DEF Process, Names
  <2>. QED BY <2>2, <1>10, CloseShimFacts DEF CloseShim, At
<1>11. CASE Finish(p)
  <2>1. Status(p) \in Steps \cup {"ok", "error"}
    BY DEF Status
  <2>. QED BY <2>1, <1>11, GotoFacts DEF Finish, At, Status
<1>. QED BY <1>1, <1>4, <1>6, <1>7, <1>8, <1>9, <1>10, <1>11 DEF EmitStep

\* A run of emit-all sees nothing of what make does between two of its steps.
LEMMA SameWork ==
  ASSUME Shapes, NEW p, WorkInv(p), UNCHANGED <<ver, fault, dir, mk>>,
         proc'[p] = proc[p], \A u \in Units : newer'[Source(u)] = newer[Source(u)]
  PROVE  WorkInv(p)'
<1>1. /\ \A f : Good(f)' <=> Good(f)
      /\ AllGood' <=> AllGood
  BY SameFiles
<1>2. /\ \A u : Failing(u)' <=> Failing(u)
      /\ CycleEdges' <=> CycleEdges
      /\ Faulty' <=> Faulty
  BY SameSources DEF Faulty
<1>3. \A u : Handled(p, u)' <=> Handled(p, u)
  BY <1>1, <1>2 DEF Handled
<1>4. Left(p)' = Left(p) /\ Unit(p)' = Unit(p)
  BY DEF Left, Unit
<1>. QED BY <1>1, <1>2, <1>3, <1>4 DEF WorkInv

LEMMA QuietFacts ==
  ASSUME NEW p, Alone(p), BuildInv(p), UNCHANGED <<ver, fault, dir, mk, proc>>,
         DOMAIN newer' = DOMAIN newer,
         \A u \in Units : newer'[Source(u)] = newer[Source(u)],
         obj' = [u \in Units |-> obj'[u]], make' \in {"idle", "running", "failing"}
  PROVE  /\ Shapes' /\ HeadersInv' /\ WorkInv(p)'
         /\ AllGood' <=> AllGood
         /\ \A f : Outdated(f)' <=> Outdated(f)
         /\ EarlyOutdated' <=> EarlyOutdated
         /\ At(p, "off")' <=> At(p, "off")
         /\ \A u : CompiledNow(u)' = CompiledNow(u)
<1>1. Shapes'
  BY DEF BuildInv, Shapes
<1>2. /\ HeadersInv'
      /\ AllGood' <=> AllGood
      /\ \A f : Outdated(f)' <=> Outdated(f)
      /\ EarlyOutdated' <=> EarlyOutdated
  BY SameFiles DEF BuildInv
<1>3. WorkInv(p)'
  BY SameWork DEF BuildInv
<1>4. \A u : CompiledNow(u)' = CompiledNow(u)
  BY SameSources
<1>5. At(p, "off")' <=> At(p, "off")
  BY DEF At
<1>. QED BY <1>1, <1>2, <1>3, <1>4, <1>5

LEMMA ObjectNames ==
  /\ \A u, v : Object(u) = Object(v) => u = v
  /\ \A u, n : Object(u) # Header(n) /\ Object(u) # Impl(n) /\ Object(u) # Source(n)
  /\ \A u : Object(u) \notin Targets
BY DEF Object, Header, Impl, Source, Targets, Headers

LEMMA BuildInit ==
  ASSUME NEW p, Alone(p), Init
  PROVE  BuildInv(p)
<1>1. PICK w : w = Off
  OBVIOUS
<1>2. w \in Process /\ w.pc = "off"
  <2>1. << >> \in Seq(Names)
    OBVIOUS
  <2>. QED BY <2>1, <1>1 DEF Off, Process
<1>3. proc \in [Processes -> Process] /\ At(p, "off")
  BY <1>1, <1>2 DEF Init, EmitInit, Alone, At
<1>4. Shapes
  BY <1>3 DEF Init, EmitInit, NoMakefile, Shapes
<1>5. \A f : ~Latest(f)
  BY OrderFacts DEF Init, EmitInit, Latest
<1>6. HeadersInv
  BY <1>5 DEF HeadersInv
<1>7. WorkInv(p)
  BY <1>3 DEF WorkInv, At, Steps
<1>8. RunsInv(p) /\ DoneInv /\ ObjectsInv /\ GoodBuildIsFresh
  BY <1>3 DEF Init, RunsInv, Job, DoneInv, ObjectsInv, GoodBuildIsFresh
<1>9. SettledInv(p)
  BY OrderFacts DEF Init, EmitInit, NoMakefile, Listed, SettledInv
<1>. QED BY <1>4, <1>6, <1>7, <1>8, <1>9 DEF BuildInv

\* The user: edits, and emit-all -m.
LEMMA BuildEdit ==
  ASSUME NEW p, Alone(p), BuildInv(p), NEW u \in Units, NEW x \in Faults, Edit(u, x)
  PROVE  BuildInv(p)'
<1>1. /\ make = "idle" /\ At(p, "off") /\ last' = "none"
      /\ UNCHANGED <<dir, mk, proc, obj, prog, make, done, retry, stops>>
      /\ newer' = [newer EXCEPT ![Source(u)] = {}]
      /\ ver' = [ver EXCEPT ![u] = ver[u] + 1] /\ fault' = [fault EXCEPT ![u] = x]
  BY DEF Edit, Idle, Alone
<1>2. /\ newer'[Source(u)] = {}
      /\ \A v \in Units : newer'[Object(v)] = newer[Object(v)]
  BY <1>1, ObjectNames DEF BuildInv, Shapes
<1>3. \A f : ~Latest(f)'
  BY <1>2 DEF Latest
<1>4. Shapes'
  BY <1>1 DEF BuildInv, Shapes
<1>5. HeadersInv'
  BY <1>3 DEF HeadersInv
<1>6. At(p, "off")' /\ WorkInv(p)'
  BY <1>1 DEF WorkInv, At, Steps
<1>7. RunsInv(p)' /\ DoneInv' /\ GoodBuildIsFresh'
  BY <1>1, <1>6 DEF RunsInv, Job, DoneInv, GoodBuildIsFresh
<1>8. ObjectsInv'
  BY <1>1, <1>2, SameObjects DEF BuildInv
<1>9. SettledInv(p)'
  <2>1. SUFFICES ASSUME Listed = Units PROVE EarlyOutdated'
    BY <1>1, SameMakefile DEF SettledInv
  <2>2. mk'.pas_sources = Units
    BY <2>1, <1>1 DEF BuildInv, Shapes, Listed
  <2>3. \A f : Outdated(f)'
    BY <2>2, <1>2 DEF Outdated
  <2>. QED BY <2>3 DEF EarlyOutdated, Early
<1>. QED BY <1>4, <1>5, <1>6, <1>7, <1>8, <1>9 DEF BuildInv

LEMMA BuildGenerate ==
  ASSUME NEW p, Alone(p), BuildInv(p), Generate(p)
  PROVE  BuildInv(p)'
<1>1. /\ make = "idle" /\ Begin(p, NoTarget, TRUE) /\ last' = "none" /\ retry' = FALSE
      /\ UNCHANGED <<obj, prog, make, done, stops>>
  BY DEF Generate, Idle
<1>2. /\ Shapes' /\ WorkInv(p)' /\ UNCHANGED <<ver, fault, dir, newer, mk>>
      /\ ~At(p, "off")' /\ proc'[p].makefile = TRUE
  BY <1>1, BeginFacts DEF BuildInv, Alone
<1>3. HeadersInv' /\ ObjectsInv'
  BY <1>1, <1>2, SameFiles, SameObjects DEF BuildInv
<1>4. RunsInv(p)' /\ SettledInv(p)' /\ DoneInv' /\ GoodBuildIsFresh'
  BY <1>1, <1>2 DEF RunsInv, Job, SettledInv, DoneInv, GoodBuildIsFresh
<1>. QED BY <1>2, <1>3, <1>4 DEF BuildInv

LEMMA BuildGenerateReturns ==
  ASSUME NEW p, Alone(p), BuildInv(p), GenerateReturns(p)
  PROVE  BuildInv(p)'
<1>1. /\ proc[p].pc \in {"ok", "error"} /\ ~At(p, "off") /\ proc[p].makefile
      /\ proc' = [proc EXCEPT ![p] = Off]
      /\ UNCHANGED <<ver, fault, dir, newer, mk>> /\ UNCHANGED makeVars
  BY DEF GenerateReturns, Exited, At
<1>2. make = "idle" /\ last = "none" /\ ~retry
  BY <1>1 DEF BuildInv, RunsInv
<1>3. proc' \in [Processes -> Process] /\ At(p, "off")' /\ WorkInv(p)'
  BY <1>1, OffFacts DEF BuildInv
<1>4. /\ HeadersInv' /\ ObjectsInv'
      /\ AllGood' <=> AllGood
      /\ EarlyOutdated' <=> EarlyOutdated
  BY <1>1, SameFiles, SameObjects DEF BuildInv, makeVars
<1>5. Shapes'
  BY <1>1, <1>3 DEF BuildInv, Shapes, makeVars
<1>6. RunsInv(p)' /\ DoneInv' /\ GoodBuildIsFresh'
  BY <1>1, <1>2, <1>3 DEF RunsInv, Job, DoneInv, GoodBuildIsFresh, makeVars
<1>7. Listed = Units => EarlyOutdated \/ AllGood
  BY <1>1, FaultsLeaveWork DEF BuildInv, WorkInv
<1>8. SettledInv(p)'
  BY <1>1, <1>2, <1>4, <1>7, SameMakefile DEF SettledInv, makeVars
<1>. QED BY <1>3, <1>4, <1>5, <1>6, <1>8 DEF BuildInv

\* make starts, and finds that it has nothing to do for a file or an object.
LEMMA BuildRunMake ==
  ASSUME NEW p, Alone(p), BuildInv(p), RunMake
  PROVE  BuildInv(p)'
<1>1. /\ At(p, "off") /\ make' = "running" /\ done' = {}
      /\ UNCHANGED <<ver, fault, dir, newer, mk, proc, obj, prog, last, retry, stops>>
  BY DEF RunMake, Idle, Alone, emitVars
<1>2. /\ Shapes' /\ HeadersInv' /\ WorkInv(p)' /\ At(p, "off")'
      /\ AllGood' <=> AllGood
      /\ EarlyOutdated' <=> EarlyOutdated
      /\ \A u : CompiledNow(u)' = CompiledNow(u)
  BY <1>1, QuietFacts DEF BuildInv, Shapes
<1>3. ObjectsInv'
  BY <1>1, SameObjects DEF BuildInv
<1>4. RunsInv(p)' /\ DoneInv'
  BY <1>1, <1>2 DEF RunsInv, Job, DoneInv
<1>5. SettledInv(p)'
  BY <1>1, <1>2, SameMakefile DEF BuildInv, SettledInv
<1>6. GoodBuildIsFresh'
  BY <1>1, <1>2 DEF BuildInv, GoodBuildIsFresh, Fresh
<1>. QED BY <1>2, <1>3, <1>4, <1>5, <1>6 DEF BuildInv

LEMMA ConsidersFacts ==
  ASSUME NEW p, Alone(p), NEW x, Considers(x)
  PROVE  /\ At(p, "off") /\ make = "running" /\ x \in Goals \ done /\ ~Waits(x)
         /\ \A u : x = Object(u) => Prerequisites(u) \subseteq done
<1>1. At(p, "off") /\ make = "running" /\ x \in Goals \ done /\ ~Waits(x)
  BY DEF Considers, FreeSlot, Alone
<1>. QED BY <1>1 DEF Waits, Object

LEMMA BuildFindFresh ==
  ASSUME NEW p, Alone(p), BuildInv(p), NEW t \in Targets, FindFresh(t)
  PROVE  BuildInv(p)'
<1>1. /\ Considers(t) /\ ~Outdated(t) /\ done' = done \cup {t}
      /\ UNCHANGED <<ver, fault, dir, newer, mk, proc, obj, prog, make, last, retry, stops>>
  BY DEF FindFresh, emitVars
<1>2. At(p, "off") /\ make = "running"
  BY <1>1, ConsidersFacts
<1>3. /\ Shapes' /\ HeadersInv' /\ WorkInv(p)' /\ At(p, "off")'
      /\ AllGood' <=> AllGood
      /\ EarlyOutdated' <=> EarlyOutdated
      /\ \A f : Outdated(f)' <=> Outdated(f)
      /\ \A u : CompiledNow(u)' = CompiledNow(u)
  BY <1>1, <1>2, QuietFacts DEF BuildInv, Shapes
<1>4. ObjectsInv'
  BY <1>1, SameObjects DEF BuildInv
<1>5. RunsInv(p)'
  BY <1>3 DEF RunsInv, Job
<1>6. SettledInv(p)'
  BY <1>1, <1>2, <1>3, SameMakefile DEF BuildInv, SettledInv
<1>7. DoneInv'
  <2>1. \A u : Object(u) \in done' => Object(u) \in done
    BY <1>1, ObjectNames
  <2>. QED BY <2>1, <1>1, <1>2, <1>3, SameMakefile DEF BuildInv, DoneInv
<1>8. GoodBuildIsFresh'
  BY <1>1, <1>3 DEF BuildInv, GoodBuildIsFresh, Fresh
<1>. QED BY <1>3, <1>4, <1>5, <1>6, <1>7, <1>8 DEF BuildInv

LEMMA BuildFindObjectFresh ==
  ASSUME NEW p, Alone(p), BuildInv(p), NEW u \in Listed, FindObjectFresh(u)
  PROVE  BuildInv(p)'
<1>1. /\ Considers(Object(u)) /\ ~ObjectOutdated(u) /\ done' = done \cup {Object(u)}
      /\ UNCHANGED <<ver, fault, dir, newer, mk, proc, obj, prog, make, last, retry, stops>>
  BY DEF FindObjectFresh, emitVars
<1>2. At(p, "off") /\ make = "running" /\ Prerequisites(u) \subseteq done /\ u \in Units
  BY <1>1, ConsidersFacts DEF BuildInv, Shapes, Listed
<1>3. /\ Shapes' /\ HeadersInv' /\ WorkInv(p)' /\ At(p, "off")'
      /\ AllGood' <=> AllGood
      /\ EarlyOutdated' <=> EarlyOutdated
      /\ \A f : Outdated(f)' <=> Outdated(f)
      /\ \A v : CompiledNow(v)' = CompiledNow(v)
  BY <1>1, <1>2, QuietFacts DEF BuildInv, Shapes
<1>4. ObjectsInv'
  BY <1>1, SameObjects DEF BuildInv
<1>5. RunsInv(p)'
  BY <1>3 DEF RunsInv, Job
<1>6. SettledInv(p)'
  <2>1. done' \cap Targets = done \cap Targets
    BY <1>1, ObjectNames
  <2>. QED BY <2>1, <1>1, <1>2, <1>3, SameMakefile DEF BuildInv, SettledInv
<1>7. DoneInv'
  <2>1. \A v : Object(v) \in done' => Object(v) \in done \/ v = u
    BY <1>1, ObjectNames
  <2>2. \A v \in Listed : Object(v) \in done' => Prerequisites(v) \subseteq done'
    BY <2>1, <1>1, <1>2 DEF BuildInv, DoneInv
  <2>3. Listed = Units =>
          \A v \in Units : Object(v) \in done' => obj[v] = CompiledNow(v)
    BY <2>1, <1>1, <1>2, FreshObject DEF BuildInv, DoneInv
  <2>. QED BY <2>2, <2>3, <1>1, <1>3, SameMakefile DEF DoneInv
<1>8. GoodBuildIsFresh'
  BY <1>1, <1>3 DEF BuildInv, GoodBuildIsFresh, Fresh
<1>. QED BY <1>3, <1>4, <1>5, <1>6, <1>7, <1>8 DEF BuildInv

\* make runs emit-all, and hears how that ended.
LEMMA BuildRegenerate ==
  ASSUME NEW p, Alone(p), BuildInv(p), NEW t \in Targets, Regenerate(p, t)
  PROVE  BuildInv(p)'
<1>1. Considers(t) /\ Outdated(t) /\ Begin(p, t, FALSE) /\ UNCHANGED makeVars
  BY DEF Regenerate
<1>2. At(p, "off") /\ make = "running" /\ t \notin done /\ t \in Files
  <2>1. Listed \subseteq Units
    BY DEF BuildInv, Shapes, Listed
  <2>2. Targets \subseteq Files
    BY <2>1, OrderFacts DEF Targets, Headers, Names
  <2>. QED BY <2>2, <1>1, ConsidersFacts
<1>3. /\ Shapes' /\ WorkInv(p)' /\ UNCHANGED <<ver, fault, dir, newer, mk>>
      /\ ~At(p, "off")' /\ proc'[p].makefile = FALSE /\ proc'[p].target = t
  BY <1>1, <1>2, BeginFacts DEF BuildInv, Alone, Shapes, makeVars
<1>4. HeadersInv' /\ ObjectsInv'
  BY <1>1, <1>3, SameFiles, SameObjects DEF BuildInv, makeVars
<1>5. ASSUME Listed = Units PROVE t \in Early
  <2>1. SUFFICES ASSUME t \notin Early PROVE FALSE
    OBVIOUS
  <2>2. Early \subseteq done
    BY <2>1, <1>1, <1>2, <1>5, EarlyFirst DEF Alone, BuildInv
  <2>3. AllGood
    BY <2>2, <1>2, <1>5, WhenListed DEF BuildInv, SettledInv, EarlyOutdated
  <2>. QED BY <2>3, <1>1, <1>5, WhenListed DEF BuildInv
<1>6. RunsInv(p)'
  BY <1>1, <1>2, <1>3, <1>5, SameMakefile DEF RunsInv, Job, makeVars
<1>7. SettledInv(p)'
  BY <1>3 DEF SettledInv
<1>8. DoneInv' /\ GoodBuildIsFresh'
  <2>1. \A u : CompiledNow(u)' = CompiledNow(u)
    BY <1>3, SameSources
  <2>. QED BY <2>1, <1>1, <1>3, SameMakefile
           DEF BuildInv, DoneInv, GoodBuildIsFresh, Fresh, makeVars
<1>. QED BY <1>3, <1>4, <1>6, <1>7, <1>8 DEF BuildInv

LEMMA BuildJobReturns ==
  ASSUME NEW p, Alone(p), BuildInv(p), JobReturns(p)
  PROVE  BuildInv(p)'
<1>1. /\ proc[p].pc \in {"ok", "error"} /\ Job(p)
      /\ proc' = [proc EXCEPT ![p] = Off]
      /\ retry' = At(p, "error")
      /\ UNCHANGED <<ver, fault, dir, newer, mk, obj, prog, last, stops>>
  BY DEF JobReturns, Exited, At, Job
<1>2. /\ proc[p].pc = "ok" => done' = done \cup {proc[p].target} /\ make' = make
      /\ proc[p].pc = "error" => done' = done /\ make' = "failing"
  BY DEF JobReturns, At
<1>3. /\ make = "running" /\ proc[p].target \in Targets
  BY <1>1 DEF BuildInv, RunsInv
<1>4. proc' \in [Processes -> Process] /\ At(p, "off")' /\ WorkInv(p)'
  BY <1>1, OffFacts DEF BuildInv
<1>5. /\ HeadersInv' /\ ObjectsInv'
      /\ AllGood' <=> AllGood
      /\ EarlyOutdated' <=> EarlyOutdated
      /\ \A f : Outdated(f)' <=> Outdated(f)
      /\ \A u : CompiledNow(u)' = CompiledNow(u)
  BY <1>1, SameFiles, SameObjects, SameSources DEF BuildInv
<1>6. Shapes'
  BY <1>1, <1>2, <1>3, <1>4 DEF BuildInv, Shapes
<1>7. RunsInv(p)'
  BY <1>4 DEF RunsInv, Job
<1>8. GoodBuildIsFresh'
  BY <1>1, <1>5 DEF BuildInv, GoodBuildIsFresh, Fresh
<1>9. DoneInv'
  <2>1. CASE proc[p].pc = "ok"
    <3>1. \A u : Object(u) \in done' => Object(u) \in done
      BY <2>1, <1>2, <1>3, ObjectNames
    <3>. QED BY <3>1, <2>1, <1>1, <1>2, <1>3, <1>5, SameMakefile DEF BuildInv, DoneInv
  <2>2. CASE proc[p].pc = "error"
    BY <2>2, <1>2 DEF DoneInv
  <2>. QED BY <2>1, <2>2, <1>1
<1>10. SettledInv(p)'
  <2>1. SUFFICES ASSUME Listed = Units
                 PROVE  /\ (EarlyOutdated \/ AllGood)'
                        /\ retry' => EarlyOutdated'
                        /\ make' = "running" => \A t \in done' \cap Targets : ~Outdated(t)
    BY <1>1, <1>5, SameMakefile DEF SettledInv
  <2>2. CASE proc[p].pc = "ok"
    <3>1. AllGood /\ ~retry'
      BY <2>2, <1>1 DEF BuildInv, WorkInv, At
    <3>. QED BY <3>1, <2>1, <1>5, WhenListed DEF BuildInv
  <2>3. CASE proc[p].pc = "error"
    <3>1. EarlyOutdated
      BY <2>1, <2>3, FaultsLeaveWork DEF BuildInv, WorkInv
    <3>. QED BY <3>1, <2>3, <1>2, <1>5
  <2>. QED BY <2>2, <2>3, <1>1
<1>. QED BY <1>4, <1>5, <1>6, <1>7, <1>8, <1>9, <1>10 DEF BuildInv

\* make compiles and links.
LEMMA BuildCompile ==
  ASSUME NEW p, Alone(p), BuildInv(p), NEW u \in Listed, Compile(u)
  PROVE  BuildInv(p)'
<1>1. /\ Considers(Object(u))
      /\ obj' = [obj EXCEPT ![u] = Compiled(u)]
      /\ newer' = [newer EXCEPT ![Object(u)] = {}]
      /\ done' = done \cup {Object(u)}
      /\ UNCHANGED <<ver, fault, dir, mk, proc, prog, make, last, retry, stops>>
  BY DEF Compile, CompileStarts
<1>2. At(p, "off") /\ make = "running" /\ Prerequisites(u) \subseteq done /\ u \in Units
  BY <1>1, ConsidersFacts DEF BuildInv, Shapes, Listed
<1>3. /\ DOMAIN newer' = DOMAIN newer
      /\ \A v \in Units : newer'[Source(v)] = newer[Source(v)]
      /\ \A v \in Units : v # u => newer'[Object(v)] = newer[Object(v)]
      /\ obj' = [v \in Units |-> obj'[v]] /\ obj'[u] = Compiled(u)
      /\ \A v \in Units : v # u => obj'[v] = obj[v]
  BY <1>1, <1>2, ObjectNames DEF BuildInv, Shapes
<1>4. /\ Shapes' /\ HeadersInv' /\ WorkInv(p)' /\ At(p, "off")'
      /\ AllGood' <=> AllGood
      /\ EarlyOutdated' <=> EarlyOutdated
      /\ \A f : Outdated(f)' <=> Outdated(f)
      /\ \A v : CompiledNow(v)' = CompiledNow(v)
  BY <1>1, <1>2, <1>3, QuietFacts DEF BuildInv, Shapes
<1>5. ObjectsInv'
  <2>1. SUFFICES ASSUME NEW v \in Units, obj'[v] # Absent
                 PROVE  \E g : /\ obj'[v] = Text([f \in Reads(v) |-> g[f]])
                               /\ \A f \in Reads(v) :
                                    f \in newer'[Object(v)] \/ dir'[f] \in {g[f], Absent}
    BY DEF ObjectsInv
  <2>2. CASE v = u
    BY <2>2, <1>1, <1>3 DEF Compiled
  <2>3. CASE v # u
    BY <2>1, <2>3, <1>1, <1>3 DEF BuildInv, ObjectsInv
  <2>. QED BY <2>2, <2>3
<1>6. RunsInv(p)'
  BY <1>4 DEF RunsInv, Job
<1>7. SettledInv(p)'
  <2>1. done' \cap Targets = done \cap Targets
    BY <1>1, ObjectNames
  <2>. QED BY <2>1, <1>1, <1>2, <1>4, SameMakefile DEF BuildInv, SettledInv
<1>8. DoneInv'
  <2>1. \A v : Object(v) \in done' => Object(v) \in done \/ v = u
    BY <1>1, ObjectNames
  <2>2. \A v \in Listed : Object(v) \in done' => Prerequisites(v) \subseteq done'
    BY <2>1, <1>1, <1>2 DEF BuildInv, DoneInv
  <2>3. ASSUME Listed = Units, NEW v \in Units, Object(v) \in done'
        PROVE  obj'[v] = CompiledNow(v)
    <3>1. CASE v = u
      BY <2>3, <3>1, <1>1, <1>2, <1>3, ObjectsLast
    <3>2. CASE v # u
      BY <2>1, <2>3, <3>2, <1>2, <1>3 DEF BuildInv, DoneInv
    <3>. QED BY <3>1, <3>2
  <2>. QED BY <2>2, <2>3, <1>1, <1>4, SameMakefile DEF DoneInv
<1>9. GoodBuildIsFresh'
  BY <1>1, <1>4 DEF BuildInv, GoodBuildIsFresh, Fresh
<1>. QED BY <1>4, <1>5, <1>6, <1>7, <1>8, <1>9 DEF BuildInv

\* make ends, or will end when the running job has.
LEMMA BuildEnds ==
  ASSUME NEW p, Alone(p), BuildInv(p), At(p, "off"),
         UNCHANGED <<ver, fault, dir, newer, mk, proc, obj, done, retry>>,
         make' \in {"idle", "failing"}, (last = "ok" /\ mk.program => Fresh)'
  PROVE  BuildInv(p)'
<1>1. /\ Shapes' /\ HeadersInv' /\ WorkInv(p)' /\ At(p, "off")'
      /\ AllGood' <=> AllGood
      /\ EarlyOutdated' <=> EarlyOutdated
  BY QuietFacts DEF BuildInv, Shapes
<1>2. ObjectsInv'
  BY SameObjects DEF BuildInv
<1>3. RunsInv(p)' /\ DoneInv' /\ GoodBuildIsFresh'
  BY <1>1 DEF RunsInv, Job, DoneInv, GoodBuildIsFresh
<1>4. SettledInv(p)'
  BY <1>1, SameMakefile DEF BuildInv, SettledInv
<1>. QED BY <1>1, <1>2, <1>3, <1>4 DEF BuildInv

LEMMA BuildCompileFails ==
  ASSUME NEW p, Alone(p), BuildInv(p), NEW u \in Listed, CompileFails(u)
  PROVE  BuildInv(p)'
<1>1. At(p, "off")
  BY ConsidersFacts DEF CompileFails, CompileStarts
<1>2. \A v : CompiledNow(v)' = CompiledNow(v)
  BY SameSources DEF CompileFails, emitVars
<1>. QED BY <1>1, <1>2, BuildEnds DEF CompileFails, emitVars, BuildInv, GoodBuildIsFresh, Fresh

LEMMA BuildLink ==
  ASSUME NEW p, Alone(p), BuildInv(p), Link
  PROVE  BuildInv(p)'
<1>1. At(p, "off") /\ Listed = Units /\ make = "running"
  BY BuiltIsQuiet DEF Link
<1>2. \A u \in Units : obj[u] = CompiledNow(u)
  BY <1>1 DEF Link, Built, BuildInv, DoneInv
<1>3. obj = [u \in Units |-> CompiledNow(u)]
  BY <1>2 DEF BuildInv, Shapes
<1>4. prog' = Text([u \in Units |-> CompiledNow(u)])
  BY <1>3 DEF Link
<1>5. \A v : CompiledNow(v)' = CompiledNow(v)
  BY SameSources DEF Link, emitVars
<1>6. Fresh'
  BY <1>4, <1>5 DEF Fresh
<1>. QED BY <1>1, <1>6, BuildEnds DEF Link, emitVars

LEMMA BuildLinkFails ==
  ASSUME NEW p, Alone(p), BuildInv(p), LinkFails
  PROVE  BuildInv(p)'
<1>1. At(p, "off")
  BY BuiltIsQuiet DEF LinkFails
<1>2. \A v : CompiledNow(v)' = CompiledNow(v)
  BY SameSources DEF LinkFails, emitVars
<1>. QED BY <1>1, <1>2, BuildEnds DEF LinkFails, emitVars, BuildInv, GoodBuildIsFresh, Fresh

LEMMA BuildNothingToLink ==
  ASSUME NEW p, Alone(p), BuildInv(p), NothingToLink
  PROVE  BuildInv(p)'
<1>1. At(p, "off")
  BY BuiltIsQuiet DEF NothingToLink
<1>. QED BY <1>1, BuildEnds DEF NothingToLink, emitVars

LEMMA BuildMakeFails ==
  ASSUME NEW p, Alone(p), BuildInv(p), MakeFails
  PROVE  BuildInv(p)'
<1>1. At(p, "off")
  BY DEF MakeFails, Alone
<1>. QED BY <1>1, BuildEnds DEF MakeFails, emitVars

\* What is removed when emit-all is stopped, or stays for being out of date,
\* has a next make run emit-all again.
LEMMA BuildKill ==
  ASSUME NEW p, Alone(p), BuildInv(p), NEW victims \in SUBSET Processes, Kill(victims)
  PROVE  BuildInv(p)'
<1>0. PICK t : t = proc[p].target
  OBVIOUS
<1>1. victims = {p}
  BY DEF Kill, Alone
<1>2. {proc[q].target : q \in victims} = {t}
  BY <1>0, <1>1
<1>3. /\ make = "running" /\ proc[p].pc \notin {"off", "ok", "error"}
      /\ dir' = [f \in Files |-> IF f \in {t} /\ ~Outdated(f) THEN Absent ELSE dir[f]]
      /\ proc' = [q \in Processes |-> IF q \in victims THEN Off ELSE proc[q]]
      /\ make' = "failing" /\ retry' = TRUE
      /\ UNCHANGED <<ver, fault, newer, mk, obj, prog, done, last>>
  BY <1>1, <1>2 DEF Kill
<1>4. proc' = [q \in Processes |-> Off]
  BY <1>1, <1>3 DEF Alone
<1>5. proc' \in [Processes -> Process] /\ At(p, "off")' /\ WorkInv(p)'
  BY <1>4, OffFacts DEF BuildInv
<1>6. Shapes'
  BY <1>3, <1>5 DEF BuildInv, Shapes
<1>7. HeadersInv'
  BY <1>3, SameSources DEF BuildInv, HeadersInv, Latest
<1>8. RunsInv(p)' /\ DoneInv'
  BY <1>3, <1>5 DEF RunsInv, Job, DoneInv
<1>9. ObjectsInv'
  <2>1. \A f \in Files : dir'[f] \in {dir[f], Absent}
    BY <1>3
  <2>. QED BY <2>1, <1>3, SameObjects DEF BuildInv
<1>10. GoodBuildIsFresh'
  <2>1. \A u : CompiledNow(u)' = CompiledNow(u)
    BY <1>3, SameSources
  <2>. QED BY <2>1, <1>3 DEF BuildInv, GoodBuildIsFresh, Fresh
<1>11. SettledInv(p)'
  <2>1. SUFFICES ASSUME Listed = Units PROVE EarlyOutdated'
    BY <1>3, SameMakefile DEF SettledInv
  <2>2. Job(p)
    BY <1>3 DEF Job, At, BuildInv, RunsInv
  <2>3. t \in Early /\ t \in Files
    <3>1. t \in Early
      BY <1>0, <2>1, <2>2 DEF BuildInv, RunsInv
    <3>. QED BY <3>1, <2>1, WhenListed, OrderFacts DEF BuildInv
  <2>4. Outdated(t)'
    BY <2>3, <1>3 DEF Outdated
  <2>. QED BY <2>3, <2>4, <1>3, SameMakefile DEF EarlyOutdated
<1>. QED BY <1>5, <1>6, <1>7, <1>8, <1>9, <1>10, <1>11 DEF BuildInv

LEMMA BuildEmitAllStep ==
  ASSUME NEW p, Alone(p), BuildInv(p), EmitAllStep(p)
  PROVE  BuildInv(p)'
<1>1. EmitStep(p) /\ UNCHANGED <<obj, prog, make, done, last, retry>>
  BY DEF EmitAllStep, makeVars
<1>2. Shapes' /\ HeadersInv' /\ WorkInv(p)'
  BY WorkStep DEF BuildInv, Alone, WorkDone
<1>3. /\ UNCHANGED <<ver, fault>>
      /\ mk' = mk \/ proc[p].makefile
      /\ ~At(p, "off") /\ ~At(p, "off")'
      /\ proc'[p].makefile = proc[p].makefile /\ proc'[p].target = proc[p].target
      /\ UNCHANGED <<dir, newer>> \/ (\E f \in Files : \E contents : Put(f, contents))
  BY <1>1, EmitStepFacts DEF BuildInv, Alone
<1>4. ObjectsInv'
  <2>1. CASE UNCHANGED <<dir, newer>>
    BY <2>1, <1>1, SameObjects DEF BuildInv
  <2>2. CASE \E f \in Files : \E contents : Put(f, contents)
    BY <2>2, <1>1, PutObjects DEF BuildInv
  <2>. QED BY <2>1, <2>2, <1>3
<1>5. SettledInv(p)'
  BY <1>3 DEF SettledInv
<1>6. \A u : CompiledNow(u)' = CompiledNow(u)
  BY <1>3, SameSources
<1>7. CASE proc[p].makefile
  <2>1. make' = "idle" /\ last' = "none" /\ ~retry'
    BY <1>1, <1>3, <1>7 DEF BuildInv, RunsInv
  <2>2. RunsInv(p)' /\ DoneInv' /\ GoodBuildIsFresh'
    BY <2>1, <1>3, <1>7 DEF RunsInv, Job, DoneInv, GoodBuildIsFresh
  <2>. QED BY <2>2, <1>2, <1>4, <1>5 DEF BuildInv
<1>8. CASE ~proc[p].makefile
  <2>1. mk' = mk
    BY <1>3, <1>8
  <2>2. RunsInv(p)'
    BY <2>1, <1>1, <1>3, <1>8, SameMakefile DEF BuildInv, RunsInv, Job
  <2>3. DoneInv' /\ GoodBuildIsFresh'
    BY <2>1, <1>1, <1>6, SameMakefile DEF BuildInv, DoneInv, GoodBuildIsFresh, Fresh
  <2>. QED BY <2>2, <2>3, <1>2, <1>4, <1>5 DEF BuildInv
<1>. QED BY <1>7, <1>8

LEMMA BuildStep ==
  ASSUME NEW p, Alone(p), BuildInv(p), [Next]_vars
  PROVE  BuildInv(p)'
<1>1. CASE UserStep
  <2>1. CASE \E u \in Units, x \in Faults : Edit(u, x)
    BY <2>1, BuildEdit
  <2>2. CASE Generate(p)
    BY <2>2, BuildGenerate
  <2>3. CASE GenerateReturns(p)
    BY <2>3, BuildGenerateReturns
  <2>. QED BY <1>1, <2>1, <2>2, <2>3 DEF UserStep, Alone
<1>2. CASE RunMake
  BY <1>2, BuildRunMake
<1>3. CASE MakeStep
  <2>1. ASSUME NEW t \in Targets, FindFresh(t) \/ Regenerate(p, t)
        PROVE  BuildInv(p)'
    BY <2>1, BuildFindFresh, BuildRegenerate
  <2>2. CASE JobReturns(p)
    BY <2>2, BuildJobReturns
  <2>3. ASSUME NEW u \in Listed, FindObjectFresh(u) \/ Compile(u) \/ CompileFails(u)
        PROVE  BuildInv(p)'
    BY <2>3, BuildFindObjectFresh, BuildCompile, BuildCompileFails
  <2>4. CASE Link \/ LinkFails \/ NothingToLink \/ MakeFails
    BY <2>4, BuildLink, BuildLinkFails, BuildNothingToLink, BuildMakeFails
  <2>. QED BY <1>3, <2>1, <2>2, <2>3, <2>4 DEF MakeStep, Alone
<1>4. CASE EmitAllStep(p)
  BY <1>4, BuildEmitAllStep
<1>5. CASE \E victims \in SUBSET Processes : Kill(victims)
  BY <1>5, BuildKill
<1>6. CASE UNCHANGED vars
  <2>1. UNCHANGED <<ver, fault, dir, newer, mk, proc, obj, prog, make, done, last, retry>>
    BY <1>6 DEF vars, emitVars, makeVars
  <2>2. /\ Shapes' /\ HeadersInv' /\ WorkInv(p)'
        /\ AllGood' <=> AllGood
        /\ \A f : Outdated(f)' <=> Outdated(f)
        /\ EarlyOutdated' <=> EarlyOutdated
        /\ At(p, "off")' <=> At(p, "off")
        /\ \A u : CompiledNow(u)' = CompiledNow(u)
    BY <2>1, QuietFacts DEF BuildInv, Shapes
  <2>3. ObjectsInv'
    BY <2>1, SameObjects DEF BuildInv
  <2>4. RunsInv(p)' /\ SettledInv(p)'
    BY <2>1, <2>2, SameMakefile DEF BuildInv, RunsInv, Job, SettledInv
  <2>5. DoneInv' /\ GoodBuildIsFresh'
    BY <2>1, <2>2, SameMakefile DEF BuildInv, DoneInv, GoodBuildIsFresh, Fresh
  <2>. QED BY <2>2, <2>3, <2>4, <2>5 DEF BuildInv
<1>. QED BY <1>1, <1>2, <1>3, <1>4, <1>5, <1>6 DEF Next, Alone

-----------------------------------------------------------------------------
(***************************************************************************)
(* The theorems.  A make without -j runs one emit-all at a time, and the   *)
(* user waits for the one that is running.                                 *)
(***************************************************************************)
OneAtATime == \E p : Processes = {p}

LEMMA BuildCorrect ==
  ASSUME NEW p, Alone(p)
  PROVE  Spec => []BuildInv(p)
<1>1. Init => BuildInv(p)
  BY BuildInit
<1>2. BuildInv(p) /\ [Next]_vars => BuildInv(p)'
  BY BuildStep
<1>. QED BY <1>1, <1>2, PTL DEF Spec

\* A make that ends well leaves a program that says what the sources say now,
\* whatever failed, was stopped or was edited before: emit-all leaves the
\* files of earlier runs where a unit fails (src/main.cc), and a Makefile
\* whose rules compare times (src/emit_makefile.cc) finds out.
THEOREM GoodBuildCorrect ==
  ASSUME OneAtATime
  PROVE  Spec => []GoodBuildIsFresh
<1>1. PICK p : Alone(p)
  BY DEF OneAtATime, Alone
<1>2. BuildInv(p) => GoodBuildIsFresh
  BY DEF BuildInv
<1>3. Spec => []BuildInv(p)
  BY <1>1, BuildCorrect
<1>. QED BY <1>2, <1>3, PTL

\* After an emit-all that failed, or was stopped, under make, the next make
\* runs it again, if the Makefile lists all units.
THEOREM FailureCorrect ==
  ASSUME OneAtATime
  PROVE  Spec => []FailureIsRetried
<1>1. PICK p : Alone(p)
  BY DEF OneAtATime, Alone
<1>2. BuildInv(p) => FailureIsRetried
  <2>1. SUFFICES ASSUME BuildInv(p), retry, make = "idle", Listed = Units
                 PROVE  \E t \in Targets : Outdated(t)
    BY DEF FailureIsRetried
  <2>2. At(p, "off")
    BY <2>1 DEF BuildInv, RunsInv, Job
  <2>3. EarlyOutdated
    BY <2>1, <2>2 DEF BuildInv, SettledInv
  <2>. QED BY <2>1, <2>3, WhenListed DEF BuildInv, EarlyOutdated
<1>3. Spec => []BuildInv(p)
  BY <1>1, BuildCorrect
<1>. QED BY <1>2, <1>3, PTL

\* No object is compiled from a file that emit-all is writing, or was writing
\* when it was stopped, if the Makefile lists all units.
THEOREM WholeFilesCorrect ==
  ASSUME OneAtATime
  PROVE  Spec => CompilesReadWholeFiles
<1>1. PICK p : Alone(p)
  BY DEF OneAtATime, Alone
<1>2. ASSUME BuildInv(p), [Next]_vars
      PROVE  [\A u \in Units : (obj'[u] # obj[u] /\ Listed = Units)
                => \A f \in Reads(u) : dir[f] # Partial]_vars
  <2>1. SUFFICES ASSUME NEW u \in Units, obj'[u] # obj[u], Listed = Units
                 PROVE  \A f \in Reads(u) : dir[f] # Partial
    OBVIOUS
  <2>2. \E v \in Listed : Compile(v)
    BY <1>2, <2>1
       DEF Next, UserStep, MakeStep, Edit, Generate, GenerateReturns, RunMake, FindFresh,
           Regenerate, JobReturns, FindObjectFresh, CompileFails, Link, LinkFails,
           NothingToLink, MakeFails, Kill, EmitAllStep, makeVars, vars
  <2>3. Compile(u)
    BY <1>2, <2>1, <2>2 DEF Compile, BuildInv, Shapes
  <2>. QED BY <1>1, <1>2, <2>1, <2>3, ObjectsLast, ContentsDiffer DEF Compile, CompileStarts
<1>3. Spec => []BuildInv(p)
  BY <1>1, BuildCorrect
<1>. QED BY <1>2, <1>3, PTL DEF Spec, CompilesReadWholeFiles
=============================================================================
