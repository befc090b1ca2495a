--------------------------- MODULE StartupProofs ---------------------------
(***************************************************************************)
(* The units of a program start in an order that its uses clauses justify, *)
(* each exactly once, and end in the reverse order, and are emitted in     *)
(* the order of the topological sort, for every set of units and every     *)
(* graph of uses clauses.                                                  *)
(***************************************************************************)
EXTENDS Startup, TopoSort, FiniteSetTheorems, SequenceTheorems, TLAPS

----------------------------------------------------------------------------
LEMMA WithoutLast ==
  ASSUME NEW S, NEW s \in Seq(S), s # << >>
  PROVE  /\ SubSeq(s, 1, Len(s) - 1) \in Seq(S)
         /\ Len(SubSeq(s, 1, Len(s) - 1)) = Len(s) - 1
         /\ \A i \in 1 .. Len(s) - 1 : SubSeq(s, 1, Len(s) - 1)[i] = s[i]
<1>. DEFINE m == Len(s) - 1
<1>1. m \in Nat /\ \A i \in 1 .. m : s[i] \in S
  OBVIOUS
<1>. HIDE DEF m
<1>2. /\ SubSeq(s, 1, m) \in Seq(S)
      /\ Len(SubSeq(s, 1, m)) = IF 1 <= m THEN m - 1 + 1 ELSE 0
      /\ \A i \in 1 .. m - 1 + 1 : SubSeq(s, 1, m)[i] = s[1 + i - 1]
  BY <1>1, SubSeqProperties
<1>3. m - 1 + 1 = m /\ \A i \in 1 .. m : 1 + i - 1 = i
  BY <1>1
<1>4. Len(SubSeq(s, 1, m)) = m /\ \A i \in 1 .. m : SubSeq(s, 1, m)[i] = s[i]
  BY <1>1, <1>2, <1>3
<1>. QED BY <1>2, <1>4 DEF m

----------------------------------------------------------------------------
(* Reaching a unit is being in every closed set.                           *)

LEMMA DirectUse ==
  ASSUME NEW u, NEW v \in UsedBy(u), Usable(v)
  PROVE  Reaches(u, v)
BY DEF Reaches

LEMMA ReachesOn ==
  ASSUME NEW u, NEW v, NEW w, Reaches(u, v), Reaches(v, w)
  PROVE  Reaches(u, w)
<1>1. ASSUME NEW S \in SUBSET Names,
             {x \in UsedBy(u) : Usable(x)} \subseteq S, ClosedUnderUse(S)
      PROVE  w \in S
  <2>1. v \in S
    BY <1>1 DEF Reaches
  <2>2. {x \in UsedBy(v) : Usable(x)} \subseteq S
    BY <1>1, <2>1 DEF ClosedUnderUse
  <2>. QED BY <1>1, <2>2 DEF Reaches
<1>. QED BY <1>1 DEF Reaches

LEMMA GraphStays ==
  ASSUME graph' = graph
  PROVE  /\ \A u : UsedBy(u)' = UsedBy(u) /\ Frame(u)' = Frame(u)
         /\ \A u : Usable(u)' <=> Usable(u)
         /\ \A u, v : Reaches(u, v)' <=> Reaches(u, v)
BY DEF UsedBy, Uses, Frame, Usable, Reaches, ClosedUnderUse

----------------------------------------------------------------------------
(***************************************************************************)
(* The walk.  active_stack is what the call stack says it is, emitted what *)
(* the result says it is.                                                  *)
(***************************************************************************)
FrameSet == [unit : Names \cup {Program}, rest : Seq(Names)]
WalkShape ==
  /\ graph \in Graphs
  /\ stack \in Seq(FrameSet)
  /\ active_stack \in SUBSET Names
  /\ emitted \in SUBSET Names
  /\ out \in Seq(Names)

ActiveIsStack ==
  /\ active_stack = {stack[i].unit : i \in 2 .. Len(stack)}
  /\ stack # << >> => stack[1].unit = Program
  /\ \A i, j \in 1 .. Len(stack) : stack[i].unit = stack[j].unit => i = j

EmittedIsOut ==
  /\ emitted = OutSet
  /\ \A i, j \in 1 .. Len(out) : out[i] = out[j] => i = j
  /\ IsFiniteSet(emitted) /\ Cardinality(emitted) = Len(out)
  /\ emitted \cap active_stack = {}

(***************************************************************************)
(* No name is lost between the loops: what a unit uses is emitted, being   *)
(* expanded, or still to be looked at.                                     *)
(***************************************************************************)
Pursued(u, S) == \A v \in UsedBy(u) : Usable(v) => v \in S
NothingLost ==
  /\ \A u \in emitted : Pursued(u, emitted \cup active_stack)
  /\ \A i \in 1 .. Len(stack) :
       Pursued(stack[i].unit, emitted \cup active_stack \cup ElementsOf(stack[i].rest))
  /\ stack = << >> => Pursued(Program, emitted)

(***************************************************************************)
(* Everything has a reason: what is being expanded is reached from every   *)
(* call below it, and what is emitted from the program.                    *)
(***************************************************************************)
EverythingReached ==
  /\ \A i \in 1 .. Len(stack) : ElementsOf(stack[i].rest) \subseteq UsedBy(stack[i].unit)
  /\ \A i, j \in 1 .. Len(stack) : i < j => Reaches(stack[i].unit, stack[j].unit)
  /\ \A u \in emitted : Reaches(Program, u)

(***************************************************************************)
(* A unit that comes before one of the units it uses is reached from that: *)
(* they are on a cycle.                                                    *)
(***************************************************************************)
UsedOnesFirst ==
  \A i \in 1 .. Len(out) : \A v \in UsedBy(out[i]) :
    Usable(v) => (\E k \in 1 .. i : out[k] = v) \/ Reaches(v, out[i])

WalkInv == WalkShape /\ ActiveIsStack /\ EmittedIsOut /\ NothingLost
           /\ EverythingReached /\ UsedOnesFirst

LEMMA UsesAreNames ==
  ASSUME graph \in Graphs, NEW u \in Names \cup {Program}
  PROVE  Uses(u) \in Seq(Names) /\ UsedBy(u) = ElementsOf(Uses(u)) /\ UsedBy(u) \subseteq Names
<1>1. graph[u] \in Parsed
  BY GraphsAssumption
<1>2. Uses(u) \in Seq(Names)
  BY <1>1 DEF Uses, Parsed
<1>. QED BY <1>2 DEF UsedBy, ElementsOf

LEMMA WalkStarts == InitCollect => WalkInv
<1>. SUFFICES ASSUME InitCollect PROVE WalkInv
  OBVIOUS
<1>1. graph \in Graphs /\ stack = <<Frame(Program)>> /\ active_stack = {} /\ emitted = {} /\ out = << >>
  BY DEF InitCollect
<1>2. /\ Uses(Program) \in Seq(Names) /\ UsedBy(Program) = ElementsOf(Uses(Program))
      /\ Frame(Program) \in FrameSet
      /\ Frame(Program).unit = Program /\ Frame(Program).rest = Uses(Program)
  BY <1>1, UsesAreNames DEF Frame, FrameSet
<1>3. Len(stack) = 1 /\ stack[1] = Frame(Program) /\ stack \in Seq(FrameSet)
  BY <1>1, <1>2
<1>4. WalkShape
  BY <1>1, <1>3 DEF WalkShape
<1>5. ActiveIsStack
  BY <1>1, <1>2, <1>3 DEF ActiveIsStack
<1>6. EmittedIsOut
  <2>1. OutSet = {}
    BY <1>1 DEF OutSet
  <2>. QED BY <2>1, <1>1, FS_EmptySet DEF EmittedIsOut
<1>7. NothingLost
  BY <1>1, <1>2, <1>3 DEF NothingLost, Pursued
<1>8. EverythingReached
  BY <1>1, <1>2, <1>3 DEF EverythingReached
<1>9. UsedOnesFirst
  BY <1>1 DEF UsedOnesFirst
<1>. QED BY <1>4, <1>5, <1>6, <1>7, <1>8, <1>9 DEF WalkInv

----------------------------------------------------------------------------
(* The loops of the innermost call.                                        *)

LEMMA TopFacts ==
  ASSUME WalkInv, Running
  PROVE  /\ Len(stack) \in Nat \ {0} /\ Top = stack[Len(stack)] /\ Top \in FrameSet
         /\ Top.rest \in Seq(Names)
         /\ Below \in Seq(FrameSet) /\ Len(Below) = Len(stack) - 1
         /\ \A i \in 1 .. Len(stack) - 1 : Below[i] = stack[i]
         /\ Top.unit = Program <=> Len(stack) = 1
         /\ Top.unit # Program => Top.unit \in active_stack
<1>1. stack \in Seq(FrameSet) /\ stack # << >>
  BY DEF WalkInv, WalkShape, Running
<1>2. Len(stack) \in Nat \ {0} /\ Top = stack[Len(stack)] /\ Top \in FrameSet
  BY <1>1 DEF Top
<1>3. Below \in Seq(FrameSet) /\ Len(Below) = Len(stack) - 1
      /\ \A i \in 1 .. Len(stack) - 1 : Below[i] = stack[i]
  BY <1>1, WithoutLast DEF Below
<1>4. Top.unit = Program <=> Len(stack) = 1
  <2>1. 1 \in 1 .. Len(stack) /\ Len(stack) \in 1 .. Len(stack) /\ stack[1].unit = Program
    BY <1>1, <1>2 DEF WalkInv, ActiveIsStack
  <2>2. stack[Len(stack)].unit = stack[1].unit => Len(stack) = 1
    BY <2>1 DEF WalkInv, ActiveIsStack
  <2>. QED BY <2>1, <2>2, <1>2
<1>5. Top.unit # Program => Top.unit \in active_stack
  BY <1>2, <1>4 DEF WalkInv, ActiveIsStack
<1>. QED BY <1>2, <1>3, <1>4, <1>5 DEF FrameSet

LEMMA AdvancedFacts ==
  ASSUME WalkInv, Running, Top.rest # << >>
  PROVE  /\ Advanced \in Seq(FrameSet) /\ Len(Advanced) = Len(stack)
         /\ \A i \in 1 .. Len(stack) : /\ Advanced[i].unit = stack[i].unit
                                       /\ ElementsOf(Advanced[i].rest) \subseteq ElementsOf(stack[i].rest)
                                       /\ ElementsOf(stack[i].rest) \subseteq ElementsOf(Advanced[i].rest) \cup {Dep}
         /\ Dep \in Names /\ Dep \in UsedBy(Top.unit)
<1>. DEFINE moved == [Top EXCEPT !.rest = Tail(@)]
<1>1. /\ Tail(Top.rest) \in Seq(Names) /\ Dep \in Names
      /\ Dep \in ElementsOf(Top.rest)
      /\ ElementsOf(Tail(Top.rest)) \subseteq ElementsOf(Top.rest)
      /\ ElementsOf(Top.rest) \subseteq ElementsOf(Tail(Top.rest)) \cup {Dep}
  <2>1. Top.rest \in Seq(Names) /\ Len(Top.rest) > 0
    BY TopFacts
  <2>2. /\ Tail(Top.rest) \in Seq(Names) /\ Len(Tail(Top.rest)) = Len(Top.rest) - 1
        /\ \A i \in 1 .. Len(Top.rest) - 1 : Tail(Top.rest)[i] = Top.rest[i + 1]
        /\ Dep = Top.rest[1]
    BY <2>1 DEF Dep
  <2>3. \A i \in 1 .. Len(Top.rest) : i = 1 \/ (i - 1 \in 1 .. Len(Top.rest) - 1 /\ Top.rest[i] = Tail(Top.rest)[i - 1])
    BY <2>1, <2>2
  <2>4. ElementsOf(Top.rest) \subseteq ElementsOf(Tail(Top.rest)) \cup {Dep}
    BY <2>1, <2>2, <2>3 DEF ElementsOf
  <2>5. ElementsOf(Tail(Top.rest)) \subseteq ElementsOf(Top.rest) /\ Dep \in ElementsOf(Top.rest) /\ Dep \in Names
    BY <2>1, <2>2 DEF ElementsOf
  <2>. QED BY <2>2, <2>4, <2>5
<1>2. moved \in FrameSet /\ moved.unit = Top.unit /\ moved.rest = Tail(Top.rest)
  BY <1>1, TopFacts DEF FrameSet
<1>3. Advanced = Append(Below, moved)
  BY DEF Advanced
<1>. HIDE DEF moved
<1>4. /\ Advanced \in Seq(FrameSet) /\ Len(Advanced) = Len(stack)
      /\ Advanced[Len(stack)] = moved
      /\ \A i \in 1 .. Len(stack) - 1 : Advanced[i] = stack[i]
  BY <1>2, <1>3, TopFacts
<1>5. ASSUME NEW i \in 1 .. Len(stack)
      PROVE  /\ Advanced[i].unit = stack[i].unit
             /\ ElementsOf(Advanced[i].rest) \subseteq ElementsOf(stack[i].rest)
             /\ ElementsOf(stack[i].rest) \subseteq ElementsOf(Advanced[i].rest) \cup {Dep}
  <2>1. CASE i = Len(stack)
    BY <2>1, <1>1, <1>2, <1>4, TopFacts
  <2>2. CASE i # Len(stack)
    BY <2>2, <1>4, TopFacts
  <2>. QED BY <2>1, <2>2
<1>6. Dep \in UsedBy(Top.unit)
  <2>1. Len(stack) \in 1 .. Len(stack) /\ Top = stack[Len(stack)]
    BY TopFacts
  <2>2. ElementsOf(Top.rest) \subseteq UsedBy(Top.unit)
    BY <2>1 DEF WalkInv, EverythingReached
  <2>. QED BY <2>2, <1>1
<1>. QED BY <1>1, <1>4, <1>5, <1>6

LEMMA SkipKeeps == ASSUME WalkInv, Skip PROVE WalkInv'
<1>1. /\ Running /\ Top.rest # << >> /\ SkipDep
      /\ stack' = Advanced /\ graph' = graph /\ active_stack' = active_stack
      /\ emitted' = emitted /\ out' = out
  BY DEF Skip
<1>2. /\ Advanced \in Seq(FrameSet) /\ Len(Advanced) = Len(stack) /\ Len(stack) \in Nat \ {0}
      /\ \A i \in 1 .. Len(stack) : /\ Advanced[i].unit = stack[i].unit
                                    /\ ElementsOf(Advanced[i].rest) \subseteq ElementsOf(stack[i].rest)
                                    /\ ElementsOf(stack[i].rest) \subseteq ElementsOf(Advanced[i].rest) \cup {Dep}
  BY <1>1, AdvancedFacts, TopFacts
<1>3. stack' # << >>
  BY <1>1, <1>2
<1>4. Usable(Dep) => Dep \in emitted \cup active_stack
  BY <1>1 DEF SkipDep
<1>5. WalkShape'
  BY <1>1, <1>2 DEF WalkInv, WalkShape
<1>6. ActiveIsStack'
  <2>1. /\ active_stack = {stack[i].unit : i \in 2 .. Len(stack)} /\ stack[1].unit = Program
        /\ \A i, j \in 1 .. Len(stack) : stack[i].unit = stack[j].unit => i = j
    BY <1>1 DEF WalkInv, ActiveIsStack, Running
  <2>2. Len(stack') = Len(stack) /\ \A i \in 1 .. Len(stack) : stack'[i].unit = stack[i].unit
    BY <1>1, <1>2
  <2>3. 2 .. Len(stack) \subseteq 1 .. Len(stack) /\ 1 \in 1 .. Len(stack)
    BY <1>2
  <2>4. active_stack' = {stack'[i].unit : i \in 2 .. Len(stack')} /\ stack'[1].unit = Program
    BY <2>1, <2>2, <2>3, <1>1
  <2>5. \A i, j \in 1 .. Len(stack') : stack'[i].unit = stack'[j].unit => i = j
    BY <2>1, <2>2
  <2>. QED BY <2>4, <2>5 DEF ActiveIsStack
<1>7. EmittedIsOut'
  BY <1>1 DEF WalkInv, EmittedIsOut, OutSet
<1>8. NothingLost'
  <2>1. \A u \in emitted' : Pursued(u, emitted \cup active_stack)'
    BY <1>1, GraphStays DEF WalkInv, NothingLost, Pursued
  <2>2. ASSUME NEW i \in 1 .. Len(stack)
        PROVE  \A v \in UsedBy(stack'[i].unit) :
                 Usable(v) => v \in emitted \cup active_stack \cup ElementsOf(stack'[i].rest)
    <3>1. \A v \in UsedBy(stack[i].unit) :
            Usable(v) => v \in emitted \cup active_stack \cup ElementsOf(stack[i].rest)
      BY DEF WalkInv, NothingLost, Pursued
    <3>2. /\ stack'[i].unit = stack[i].unit
          /\ ElementsOf(stack[i].rest) \subseteq ElementsOf(stack'[i].rest) \cup {Dep}
      BY <1>1, <1>2
    <3>. QED BY <3>1, <3>2, <1>4
  <2>3. Len(stack') = Len(stack)
    BY <1>1, <1>2
  <2>. QED BY <2>1, <2>2, <2>3, <1>1, <1>3, GraphStays DEF NothingLost, Pursued
<1>9. EverythingReached'
  <2>1. \A u, v : UsedBy(u)' = UsedBy(u) /\ (Reaches(u, v)' <=> Reaches(u, v))
    BY <1>1, GraphStays
  <2>2. Len(stack') = Len(stack) /\ \A i \in 1 .. Len(stack) : stack'[i].unit = stack[i].unit
    BY <1>1, <1>2
  <2>3. \A i \in 1 .. Len(stack) : ElementsOf(stack'[i].rest) \subseteq UsedBy(stack'[i].unit)
    <3>1. \A i \in 1 .. Len(stack) : ElementsOf(stack[i].rest) \subseteq UsedBy(stack[i].unit)
      BY DEF WalkInv, EverythingReached
    <3>2. \A i \in 1 .. Len(stack) : ElementsOf(stack'[i].rest) \subseteq ElementsOf(stack[i].rest)
      BY <1>1, <1>2
    <3>. QED BY <3>1, <3>2, <2>2
  <2>4. (\A i \in 1 .. Len(stack) : ElementsOf(stack[i].rest) \subseteq UsedBy(stack[i].unit))'
    BY <2>1, <2>2, <2>3 DEF ElementsOf
  <2>5. (\A i, j \in 1 .. Len(stack) : i < j => Reaches(stack[i].unit, stack[j].unit))'
    BY <2>1, <2>2 DEF WalkInv, EverythingReached
  <2>6. (\A u \in emitted : Reaches(Program, u))'
    BY <2>1, <1>1 DEF WalkInv, EverythingReached
  <2>. QED BY <2>4, <2>5, <2>6 DEF EverythingReached
<1>10. UsedOnesFirst'
  BY <1>1, GraphStays DEF WalkInv, UsedOnesFirst
<1>. QED BY <1>5, <1>6, <1>7, <1>8, <1>9, <1>10 DEF WalkInv

(***************************************************************************)
(* A unit is entered once: it is neither emitted nor being expanded.       *)
(***************************************************************************)
LEMMA VisitKeeps == ASSUME WalkInv, Visit PROVE WalkInv'
<1>. DEFINE n == Len(stack)
<1>1. /\ Running /\ Top.rest # << >>
      /\ Usable(Dep) /\ Dep \notin emitted /\ Dep \notin active_stack
      /\ stack' = Append(Advanced, Frame(Dep)) /\ graph' = graph
      /\ active_stack' = active_stack \cup {Dep}
      /\ emitted' = emitted /\ out' = out
  BY DEF Visit, SkipDep
<1>2. /\ Advanced \in Seq(FrameSet) /\ Len(Advanced) = n /\ n \in Nat \ {0}
      /\ \A i \in 1 .. n : /\ Advanced[i].unit = stack[i].unit
                            /\ ElementsOf(Advanced[i].rest) \subseteq ElementsOf(stack[i].rest)
                            /\ ElementsOf(stack[i].rest) \subseteq ElementsOf(Advanced[i].rest) \cup {Dep}
      /\ Dep \in Names /\ Dep \in UsedBy(Top.unit) /\ Top = stack[n]
  BY <1>1, AdvancedFacts, TopFacts
<1>3. /\ Uses(Dep) \in Seq(Names) /\ UsedBy(Dep) = ElementsOf(Uses(Dep))
      /\ Frame(Dep) \in FrameSet /\ Frame(Dep).unit = Dep /\ Frame(Dep).rest = Uses(Dep)
  BY <1>2, UsesAreNames DEF Frame, FrameSet, WalkInv, WalkShape
<1>4. /\ stack' \in Seq(FrameSet) /\ Len(stack') = n + 1 /\ stack'[n + 1] = Frame(Dep)
      /\ \A i \in 1 .. n : stack'[i] = Advanced[i]
  BY <1>1, <1>2, <1>3
<1>. HIDE DEF n
<1>5. WalkShape'
  BY <1>1, <1>2, <1>4 DEF WalkInv, WalkShape
<1>6. ASSUME NEW i \in 1 .. n PROVE stack'[i].unit = stack[i].unit /\ stack[i].unit # Dep
  <2>1. stack'[i].unit = stack[i].unit
    BY <1>2, <1>4
  <2>2. CASE i = 1
    BY <2>1, <2>2, <1>1, <1>2, ProgramAssumption DEF WalkInv, ActiveIsStack, Running
  <2>3. CASE i # 1
    <3>1. stack[i].unit \in active_stack
      BY <2>3, <1>2 DEF WalkInv, ActiveIsStack, n
    <3>. QED BY <2>1, <3>1, <1>1
  <2>. QED BY <2>1, <2>2, <2>3
<1>7. ActiveIsStack'
  <2>1. active_stack' = {stack'[i].unit : i \in 2 .. n + 1}
    <3>1. active_stack = {stack[i].unit : i \in 2 .. n}
      BY DEF WalkInv, ActiveIsStack, n
    <3>2. \A i \in 2 .. n : stack'[i].unit = stack[i].unit
      BY <1>6, <1>2
    <3>3. \A i \in 2 .. n + 1 : i \in 2 .. n \/ i = n + 1
      BY <1>2
    <3>4. n + 1 \in 2 .. n + 1 /\ 2 .. n \subseteq 2 .. n + 1 /\ stack'[n + 1].unit = Dep
      BY <1>2, <1>3, <1>4
    <3>. QED BY <3>1, <3>2, <3>3, <3>4, <1>1
  <2>2. stack'[1].unit = Program
    BY <1>1, <1>2, <1>6 DEF WalkInv, ActiveIsStack, Running
  <2>3. \A i, j \in 1 .. n : stack[i].unit = stack[j].unit => i = j
    BY DEF WalkInv, ActiveIsStack, n
  <2>4. ASSUME NEW i \in 1 .. n + 1, NEW j \in 1 .. n + 1, stack'[i].unit = stack'[j].unit
        PROVE  i = j
    <3>1. CASE i \in 1 .. n /\ j \in 1 .. n
      BY <3>1, <2>3, <2>4, <1>6
    <3>2. CASE i = n + 1 /\ j \in 1 .. n
      BY <3>2, <2>4, <1>3, <1>4, <1>6
    <3>3. CASE i \in 1 .. n /\ j = n + 1
      BY <3>3, <2>4, <1>3, <1>4, <1>6
    <3>. QED BY <3>1, <3>2, <3>3, <1>2
  <2>. QED BY <2>1, <2>2, <2>4, <1>4 DEF ActiveIsStack
<1>8. EmittedIsOut'
  BY <1>1 DEF WalkInv, EmittedIsOut, OutSet
<1>9. NothingLost'
  <2>1. \A u \in emitted' : Pursued(u, emitted \cup active_stack)'
    BY <1>1, GraphStays DEF WalkInv, NothingLost, Pursued
  <2>2. ASSUME NEW i \in 1 .. n + 1
        PROVE  \A v \in UsedBy(stack'[i].unit) :
                 Usable(v) => v \in emitted \cup active_stack \cup {Dep} \cup ElementsOf(stack'[i].rest)
    <3>1. CASE i = n + 1
      BY <3>1, <1>3, <1>4
    <3>2. CASE i \in 1 .. n
      BY <3>2, <1>2, <1>4 DEF WalkInv, NothingLost, Pursued, n
    <3>. QED BY <3>1, <3>2, <1>2
  <2>3. stack' # << >>
    BY <1>2, <1>4
  <2>. QED BY <2>1, <2>2, <2>3, <1>1, <1>4, GraphStays DEF NothingLost, Pursued
<1>10. EverythingReached'
  <2>1. ASSUME NEW i \in 1 .. n + 1
        PROVE  ElementsOf(stack'[i].rest) \subseteq UsedBy(stack'[i].unit)
    <3>1. CASE i = n + 1
      BY <3>1, <1>3, <1>4
    <3>2. CASE i \in 1 .. n
      BY <3>2, <1>2, <1>4 DEF WalkInv, EverythingReached, n
    <3>. QED BY <3>1, <3>2, <1>2
  <2>2. \A i, j \in 1 .. n : i < j => Reaches(stack[i].unit, stack[j].unit)
    BY DEF WalkInv, EverythingReached, n
  <2>3. Reaches(stack[n].unit, Dep)
    BY <1>1, <1>2, DirectUse
  <2>4. ASSUME NEW i \in 1 .. n + 1, NEW j \in 1 .. n + 1, i < j
        PROVE  Reaches(stack'[i].unit, stack'[j].unit)
    <3>1. CASE j \in 1 .. n
      BY <3>1, <2>2, <2>4, <1>2, <1>6
    <3>2. CASE j = n + 1
      <4>1. i \in 1 .. n /\ stack'[j].unit = Dep
        BY <3>2, <2>4, <1>2, <1>3, <1>4
      <4>2. Reaches(stack[i].unit, Dep)
        <5>1. CASE i = n
          BY <5>1, <2>3
        <5>2. CASE i # n
          <6>1. n \in 1 .. n /\ i < n
            BY <5>2, <4>1, <1>2
          <6>2. Reaches(stack[i].unit, stack[n].unit)
            BY <6>1, <4>1, <2>2
          <6>. QED BY <6>2, <2>3, ReachesOn
        <5>. QED BY <5>1, <5>2
      <4>. QED BY <4>1, <4>2, <1>6
    <3>. QED BY <3>1, <3>2, <1>2
  <2>5. \A u \in emitted : Reaches(Program, u)
    BY DEF WalkInv, EverythingReached
  <2>6. \A u, v : UsedBy(u)' = UsedBy(u) /\ (Reaches(u, v)' <=> Reaches(u, v))
    BY <1>1, GraphStays
  <2>7. (\A i \in 1 .. Len(stack) : ElementsOf(stack[i].rest) \subseteq UsedBy(stack[i].unit))'
    BY <2>1, <2>6, <1>4 DEF ElementsOf
  <2>8. (\A i, j \in 1 .. Len(stack) : i < j => Reaches(stack[i].unit, stack[j].unit))'
    BY <2>4, <2>6, <1>4
  <2>9. (\A u \in emitted : Reaches(Program, u))'
    BY <2>5, <2>6, <1>1
  <2>. QED BY <2>7, <2>8, <2>9 DEF EverythingReached
<1>11. UsedOnesFirst'
  BY <1>1, GraphStays DEF WalkInv, UsedOnesFirst
<1>. QED BY <1>5, <1>7, <1>8, <1>9, <1>10, <1>11 DEF WalkInv

(***************************************************************************)
(* A unit is emitted when all that it uses is, except for the units whose  *)
(* expansion is still going on, which lead to it.                          *)
(***************************************************************************)
LEMMA LeaveUnitKeeps == ASSUME WalkInv, LeaveUnit PROVE WalkInv'
<1>. DEFINE n == Len(stack)
            u == Top.unit
<1>1. /\ Running /\ Top.rest = << >> /\ u # Program
      /\ stack' = Below /\ graph' = graph /\ active_stack' = active_stack \ {u}
  BY DEF LeaveUnit
<1>2. /\ n \in Nat /\ n >= 2 /\ Top = stack[n] /\ u = stack[n].unit
      /\ u \in active_stack /\ u \in Names /\ u \notin emitted
      /\ Below \in Seq(FrameSet) /\ Len(Below) = n - 1
      /\ \A i \in 1 .. n - 1 : Below[i] = stack[i]
  <2>1. /\ n \in Nat \ {0} /\ n # 1 /\ Top = stack[n] /\ u \in active_stack
        /\ Below \in Seq(FrameSet) /\ Len(Below) = n - 1
        /\ \A i \in 1 .. n - 1 : Below[i] = stack[i]
    BY <1>1, TopFacts
  <2>2. u \in Names /\ u \notin emitted
    BY <2>1 DEF WalkInv, WalkShape, EmittedIsOut
  <2>. QED BY <2>1, <2>2
<1>3. emitted' = emitted \cup {u} /\ out' = Append(out, u)
  BY <1>2 DEF LeaveUnit
<1>4. stack[1].unit = Program /\ \A i, j \in 1 .. n : stack[i].unit = stack[j].unit => i = j
  BY <1>1 DEF WalkInv, ActiveIsStack, Running
<1>5. active_stack = {stack[i].unit : i \in 2 .. n}
  BY DEF WalkInv, ActiveIsStack
<1>6. out \in Seq(Names) /\ Len(out) \in Nat /\ Len(out') = Len(out) + 1
      /\ out'[Len(out) + 1] = u /\ \A k \in 1 .. Len(out) : out'[k] = out[k]
  BY <1>3 DEF WalkInv, WalkShape
<1>. HIDE DEF n, u
<1>7. WalkShape'
  BY <1>1, <1>2, <1>3 DEF WalkInv, WalkShape
<1>8. ActiveIsStack'
  <2>1. active_stack' = {stack'[i].unit : i \in 2 .. n - 1}
    <3>1. \A i \in 2 .. n - 1 : stack'[i] = stack[i] /\ stack[i].unit # u
      BY <1>1, <1>2, <1>4
    <3>2. \A i \in 2 .. n : i \in 2 .. n - 1 \/ i = n
      BY <1>2
    <3>3. 2 .. n - 1 \subseteq 2 .. n
      BY <1>2
    <3>. QED BY <3>1, <3>2, <3>3, <1>1, <1>2, <1>5
  <2>2. 1 \in 1 .. n - 1 /\ 1 .. n - 1 \subseteq 1 .. n
    BY <1>2
  <2>. QED BY <2>1, <2>2, <1>1, <1>2, <1>4 DEF ActiveIsStack
<1>9. EmittedIsOut'
  <2>1. OutSet' = OutSet \cup {u}
    <3>1. \A k \in 1 .. Len(out') : k \in 1 .. Len(out) \/ k = Len(out')
      BY <1>6
    <3>2. 1 .. Len(out) \subseteq 1 .. Len(out') /\ Len(out') \in 1 .. Len(out')
      BY <1>6
    <3>. QED BY <3>1, <3>2, <1>6 DEF OutSet
  <2>2. IsFiniteSet(emitted') /\ Cardinality(emitted') = Cardinality(emitted) + 1
    BY <1>2, <1>3, FS_AddElement DEF WalkInv, EmittedIsOut
  <2>3. \A i, j \in 1 .. Len(out') : out'[i] = out'[j] => i = j
    <3>1. \A k \in 1 .. Len(out) : out[k] # u
      BY <1>2 DEF WalkInv, EmittedIsOut, OutSet
    <3>2. \A i, j \in 1 .. Len(out) : out[i] = out[j] => i = j
      BY DEF WalkInv, EmittedIsOut
    <3>3. \A k \in 1 .. Len(out') : k \in 1 .. Len(out) \/ k = Len(out) + 1
      BY <1>6
    <3>. QED BY <3>1, <3>2, <3>3, <1>6
  <2>4. emitted' \cap active_stack' = {}
    BY <1>1, <1>3 DEF WalkInv, EmittedIsOut
  <2>. QED BY <2>1, <2>2, <2>3, <2>4, <1>3, <1>6 DEF WalkInv, EmittedIsOut
<1>10. \A v \in UsedBy(u) : Usable(v) => v \in emitted \cup active_stack
  <2>1. n \in 1 .. n /\ ElementsOf(stack[n].rest) = {}
    BY <1>1, <1>2 DEF ElementsOf
  <2>. QED BY <2>1, <1>2 DEF WalkInv, NothingLost, Pursued, n
<1>11. NothingLost'
  <2>1. emitted' \cup active_stack' = emitted \cup active_stack
    BY <1>1, <1>2, <1>3
  <2>2. \A w \in emitted' : \A v \in UsedBy(w) : Usable(v) => v \in emitted \cup active_stack
    BY <1>3, <1>10 DEF WalkInv, NothingLost, Pursued
  <2>3. \A i \in 1 .. n - 1 : \A v \in UsedBy(stack'[i].unit) :
          Usable(v) => v \in emitted \cup active_stack \cup ElementsOf(stack'[i].rest)
    BY <1>1, <1>2 DEF WalkInv, NothingLost, Pursued, n
  <2>4. stack' # << >> /\ Len(stack') = n - 1
    BY <1>1, <1>2
  <2>. QED BY <2>1, <2>2, <2>3, <2>4, <1>1, GraphStays DEF NothingLost, Pursued
<1>12. EverythingReached'
  <2>1. \A i \in 1 .. n - 1 : stack'[i] = stack[i] /\ i \in 1 .. n
    BY <1>1, <1>2
  <2>2. \A x, v : UsedBy(x)' = UsedBy(x) /\ (Reaches(x, v)' <=> Reaches(x, v))
    BY <1>1, GraphStays
  <2>3. (\A i \in 1 .. Len(stack) : ElementsOf(stack[i].rest) \subseteq UsedBy(stack[i].unit))'
    <3>1. \A i \in 1 .. n : ElementsOf(stack[i].rest) \subseteq UsedBy(stack[i].unit)
      BY DEF WalkInv, EverythingReached, n
    <3>2. \A i \in 1 .. n - 1 : ElementsOf(stack'[i].rest) \subseteq UsedBy(stack'[i].unit)
      BY <3>1, <2>1
    <3>. QED BY <3>2, <2>2, <1>1, <1>2 DEF ElementsOf
  <2>4. (\A i, j \in 1 .. Len(stack) : i < j => Reaches(stack[i].unit, stack[j].unit))'
    BY <2>1, <2>2, <1>1, <1>2 DEF WalkInv, EverythingReached, n
  <2>5. Reaches(Program, u)
    <3>1. 1 \in 1 .. n /\ n \in 1 .. n /\ 1 < n
      BY <1>2
    <3>. QED BY <3>1, <1>2, <1>4 DEF WalkInv, EverythingReached, n
  <2>6. (\A x \in emitted : Reaches(Program, x))'
    BY <2>2, <2>5, <1>3 DEF WalkInv, EverythingReached
  <2>. QED BY <2>3, <2>4, <2>6 DEF EverythingReached
<1>13. UsedOnesFirst'
  <2>1. ASSUME NEW k \in 1 .. Len(out'), NEW v \in UsedBy(out'[k]), Usable(v)
        PROVE  (\E l \in 1 .. k : out'[l] = v) \/ Reaches(v, out'[k])
    <3>1. CASE k \in 1 .. Len(out)
      <4>1. v \in UsedBy(out[k]) /\ out'[k] = out[k]
        BY <2>1, <3>1, <1>6
      <4>2. (\E l \in 1 .. k : out[l] = v) \/ Reaches(v, out[k])
        BY <2>1, <3>1, <4>1 DEF WalkInv, UsedOnesFirst
      <4>. QED BY <4>1, <4>2, <3>1, <1>6
    <3>2. CASE k = Len(out) + 1
      <4>1. out'[k] = u /\ v \in emitted \cup active_stack
        BY <2>1, <3>2, <1>6, <1>10
      <4>2. CASE v \in emitted
        <5>1. PICK l \in 1 .. Len(out) : out[l] = v
          BY <4>2 DEF WalkInv, EmittedIsOut, OutSet
        <5>. QED BY <5>1, <3>2, <1>6
      <4>3. CASE v \in active_stack
        <5>1. PICK i \in 2 .. n : stack[i].unit = v
          BY <4>3, <1>5
        <5>2. CASE i = n
          BY <5>1, <5>2, <4>1, <1>2, <3>2, <1>6
        <5>3. CASE i # n
          <6>1. i \in 1 .. n /\ n \in 1 .. n /\ i < n
            BY <5>3, <1>2
          <6>2. Reaches(v, u)
            BY <6>1, <5>1, <1>2 DEF WalkInv, EverythingReached, n
          <6>. QED BY <6>2, <4>1
        <5>. QED BY <5>2, <5>3
      <4>. QED BY <4>1, <4>2, <4>3
    <3>. QED BY <3>1, <3>2, <1>6
  <2>2. \A x, v : UsedBy(x)' = UsedBy(x) /\ (Reaches(x, v)' <=> Reaches(x, v)) /\ (Usable(v)' <=> Usable(v))
    BY <1>1, GraphStays
  <2>. QED BY <2>1, <2>2 DEF UsedOnesFirst
<1>. QED BY <1>7, <1>8, <1>9, <1>11, <1>12, <1>13 DEF WalkInv

LEMMA LeaveProgramKeeps == ASSUME WalkInv, LeaveProgram PROVE WalkInv'
<1>1. /\ Running /\ Top.rest = << >> /\ Top.unit = Program
      /\ stack' = << >> /\ graph' = graph /\ active_stack' = active_stack
      /\ emitted' = emitted /\ out' = out
  BY DEF LeaveProgram
<1>2. Len(stack) = 1 /\ Top = stack[1] /\ ElementsOf(Top.rest) = {}
  <2>1. Len(stack) = 1 /\ Top = stack[1]
    BY <1>1, TopFacts
  <2>2. ElementsOf(Top.rest) = {}
    BY <1>1 DEF ElementsOf
  <2>. QED BY <2>1, <2>2
<1>3. active_stack = {}
  BY <1>2 DEF WalkInv, ActiveIsStack
<1>4. \A v \in UsedBy(Program) : Usable(v) => v \in emitted
  BY <1>1, <1>2, <1>3 DEF WalkInv, NothingLost, Pursued
<1>5. WalkShape'
  BY <1>1 DEF WalkInv, WalkShape
<1>6. ActiveIsStack'
  BY <1>1, <1>3 DEF ActiveIsStack
<1>7. EmittedIsOut'
  BY <1>1 DEF WalkInv, EmittedIsOut, OutSet
<1>8. NothingLost'
  BY <1>1, <1>4, GraphStays DEF WalkInv, NothingLost, Pursued
<1>9. EverythingReached'
  BY <1>1, GraphStays DEF WalkInv, EverythingReached
<1>10. UsedOnesFirst'
  BY <1>1, GraphStays DEF WalkInv, UsedOnesFirst
<1>. QED BY <1>5, <1>6, <1>7, <1>8, <1>9, <1>10 DEF WalkInv

LEMMA WalkGoesOn == ASSUME WalkInv, [CollectStep]_collectVars PROVE WalkInv'
<1>1. CASE UNCHANGED collectVars
  <2>1. /\ stack' = stack /\ graph' = graph /\ active_stack' = active_stack
        /\ emitted' = emitted /\ out' = out
    BY <1>1 DEF collectVars
  <2>2. WalkShape' /\ ActiveIsStack' /\ EmittedIsOut'
    BY <2>1 DEF WalkInv, WalkShape, ActiveIsStack, EmittedIsOut, OutSet
  <2>3. NothingLost' /\ UsedOnesFirst'
    BY <2>1, GraphStays DEF WalkInv, NothingLost, Pursued, UsedOnesFirst
  <2>4. EverythingReached'
    BY <2>1, GraphStays DEF WalkInv, EverythingReached
  <2>. QED BY <2>2, <2>3, <2>4 DEF WalkInv
<1>2. CASE CollectStep
  BY <1>2, SkipKeeps, VisitKeeps, LeaveUnitKeeps, LeaveProgramKeeps DEF CollectStep
<1>. QED BY <1>1, <1>2

LEMMA WalkIsComplete == WalkInv => EveryUnitStartsOnce
<1>. SUFFICES ASSUME WalkInv, Collected
              PROVE  OutSet = {n \in Names : Reaches(Program, n)} /\ Len(out) = Cardinality(OutSet)
  BY DEF EveryUnitStartsOnce
<1>1. active_stack = {}
  BY DEF WalkInv, ActiveIsStack, Collected
<1>2. /\ emitted \in SUBSET Names
      /\ {w \in UsedBy(Program) : Usable(w)} \subseteq emitted
      /\ ClosedUnderUse(emitted)
  BY <1>1 DEF WalkInv, WalkShape, NothingLost, Pursued, ClosedUnderUse, Collected
<1>3. \A n \in Names : Reaches(Program, n) => n \in emitted
  BY <1>2 DEF Reaches
<1>4. \A n \in emitted : Reaches(Program, n)
  BY DEF WalkInv, EverythingReached
<1>. QED BY <1>2, <1>3, <1>4 DEF WalkInv, EmittedIsOut

----------------------------------------------------------------------------
(***************************************************************************)
(* The run.  What was initialized is a beginning of Starters; it is what   *)
(* is registered, followed by what is finalized in reverse.                *)
(***************************************************************************)
Hooks == Names \cup {Program}
RunShape ==
  /\ pc \in {"translate", "hooks", "exit", "ended", "aborted"}
  /\ next \in Nat \ {0}
  /\ running \in Hooks \cup {Nobody}
  /\ registered \in Seq(Hooks) /\ initialized \in Seq(Hooks) /\ finalized \in Seq(Hooks)

Translating ==
  pc = "translate" =>
    /\ next = 1 /\ running = Nobody
    /\ registered = << >> /\ initialized = << >> /\ finalized = << >>

StartedInOrder ==
  pc # "aborted" =>
    /\ Len(initialized) = next - 1 /\ next <= Len(Starters) + 1
    /\ \A i \in 1 .. Len(initialized) : initialized[i] = Starters[i]

Starting ==
  pc = "hooks" =>
    /\ registered = initialized /\ finalized = << >>
    /\ running # Nobody => next <= Len(Starters) /\ running = Starters[next]

Ending ==
  pc \in {"exit", "ended"} =>
    /\ Len(initialized) = Len(registered) + Len(finalized)
    /\ \A i \in 1 .. Len(registered) : registered[i] = initialized[i]
    /\ \A i \in 1 .. Len(finalized) : finalized[i] = initialized[Len(initialized) + 1 - i]
    /\ running # Nobody => Len(finalized) > 0 /\ running = finalized[Len(finalized)]

Ended ==
  /\ pc \in {"ended", "aborted"} => running = Nobody
  /\ pc = "ended" => registered = << >>

RunInv == RunShape /\ Translating /\ StartedInOrder /\ Starting /\ Ending /\ Ended

LEMMA StartersFacts ==
  ASSUME WalkInv
  PROVE  /\ out \in Seq(Names) /\ Starters \in Seq(Hooks) /\ Len(Starters) = Len(out) + 1
         /\ \A i \in 1 .. Len(out) : Starters[i] = out[i]
         /\ Starters[Len(out) + 1] = Program
         /\ \A i, j \in 1 .. Len(Starters) : Starters[i] = Starters[j] => i = j
<1>1. out \in Seq(Names) /\ out \in Seq(Hooks) /\ Program \in Hooks /\ Len(out) \in Nat
  BY DEF WalkInv, WalkShape, Hooks
<1>2. /\ Starters \in Seq(Hooks) /\ Len(Starters) = Len(out) + 1
      /\ \A i \in 1 .. Len(out) : Starters[i] = out[i]
      /\ Starters[Len(out) + 1] = Program
  BY <1>1 DEF Starters
<1>3. \A i, j \in 1 .. Len(out) : out[i] = out[j] => i = j
  BY DEF WalkInv, EmittedIsOut
<1>4. \A i \in 1 .. Len(out) : Starters[i] # Program
  BY <1>1, <1>2, ProgramAssumption
<1>5. \A i \in 1 .. Len(Starters) : i \in 1 .. Len(out) \/ i = Len(out) + 1
  BY <1>1, <1>2
<1>6. \A i, j \in 1 .. Len(Starters) : Starters[i] = Starters[j] => i = j
  BY <1>2, <1>3, <1>4, <1>5
<1>. QED BY <1>1, <1>2, <1>6

LEMMA RunStarts == ASSUME WalkInv, InitRun PROVE RunInv
<1>1. Len(Starters) \in Nat
  BY StartersFacts
<1>. QED BY <1>1 DEF InitRun, RunInv, RunShape, Translating, StartedInOrder, Starting, Ending, Ended

LEMMA RunGoesOn ==
  ASSUME WalkInv, WalkInv', RunInv, [Next]_vars
  PROVE  RunInv'
<1>. USE DEF RunInv
<1>1. /\ Starters \in Seq(Hooks) /\ Len(Starters) \in Nat \ {0}
      /\ Starters' \in Seq(Hooks) /\ Len(Starters') \in Nat \ {0}
  <2>1. Starters \in Seq(Hooks) /\ Len(Starters) \in Nat \ {0}
    BY StartersFacts
  <2>2. out' \in Seq(Hooks) /\ Program \in Hooks /\ Starters' = Append(out', Program)
    BY DEF WalkInv, WalkShape, Hooks, Starters
  <2>3. Starters' \in Seq(Hooks) /\ Len(Starters') \in Nat \ {0}
    BY <2>2
  <2>. QED BY <2>1, <2>3
<1>2. UNCHANGED collectVars => Starters' = Starters
  BY DEF collectVars, Starters
<1>3. Nobody \notin Hooks
  BY NobodyAssumption DEF Hooks
<1>4. CASE UNCHANGED vars \/ Collect
  <2>1. UNCHANGED runVars /\ (pc = "translate" \/ Starters' = Starters)
    BY <1>2, <1>4 DEF vars, Collect
  <2>2. RunShape' /\ Translating' /\ Starting' /\ Ending' /\ Ended'
    BY <2>1 DEF runVars, RunShape, Translating, Starting, Ending, Ended
  <2>3. StartedInOrder'
    BY <2>1, <1>1 DEF runVars, Translating, StartedInOrder
  <2>. QED BY <2>2, <2>3
<1>5. CASE StartMain
  BY <1>5, <1>1, <1>2 DEF StartMain, RunShape, Translating, StartedInOrder, Starting, Ending, Ended
<1>6. CASE CallInit
  <2>1. running' \in Hooks
    BY <1>6, <1>1 DEF CallInit, RunShape
  <2>. QED BY <2>1, <1>6, <1>1, <1>2 DEF CallInit, RunShape, Translating, StartedInOrder, Starting, Ending, Ended
<1>7. CASE InitReturns
  <2>1. running \in Hooks /\ next <= Len(Starters) /\ running = Starters[next]
    BY <1>7 DEF InitReturns, RunShape, Starting
  <2>2. /\ initialized' \in Seq(Hooks) /\ Len(initialized') = Len(initialized) + 1
        /\ initialized'[Len(initialized) + 1] = running
        /\ \A i \in 1 .. Len(initialized) : initialized'[i] = initialized[i]
        /\ registered' = initialized'
    BY <2>1, <1>7 DEF InitReturns, RunShape, Starting
  <2>3. StartedInOrder'
    BY <2>1, <2>2, <1>1, <1>2, <1>7 DEF InitReturns, RunShape, StartedInOrder
  <2>4. RunShape' /\ Translating' /\ Starting' /\ Ending' /\ Ended'
    BY <2>2, <1>7 DEF InitReturns, RunShape, Translating, Starting, Ending, Ended
  <2>. QED BY <2>3, <2>4
<1>8. CASE RegisterFails
  <2>1. initialized' \in Seq(Hooks)
    BY <1>8 DEF RegisterFails, RunShape
  <2>. QED BY <2>1, <1>8 DEF RegisterFails, RunShape, Translating, StartedInOrder, Starting, Ending, Ended
<1>9. CASE HaltInInit
  BY <1>9, <1>1, <1>2 DEF HaltInInit, RunShape, Translating, StartedInOrder, Starting, Ending, Ended
<1>10. CASE RunBody
  BY <1>10, <1>1, <1>2 DEF RunBody, RunShape, Translating, StartedInOrder, Starting, Ending, Ended
<1>11. CASE CallFini
  <2>. DEFINE h == registered[Len(registered)]
  <2>1. /\ pc = "exit" /\ pc' = pc /\ next' = next /\ initialized' = initialized /\ Starters' = Starters
        /\ registered \in Seq(Hooks) /\ registered # << >> /\ running' = h
        /\ finalized' = Append(finalized, h)
        /\ registered' = SubSeq(registered, 1, Len(registered) - 1)
    BY <1>11, <1>2 DEF CallFini, RunShape
  <2>2. h \in Hooks /\ Len(registered) \in Nat \ {0} /\ Len(finalized) \in Nat /\ Len(initialized) \in Nat
    BY <2>1 DEF RunShape
  <2>3. /\ finalized' \in Seq(Hooks) /\ Len(finalized') = Len(finalized) + 1
        /\ finalized'[Len(finalized) + 1] = h
        /\ \A i \in 1 .. Len(finalized) : finalized'[i] = finalized[i]
    BY <2>1, <2>2 DEF RunShape
  <2>4. /\ registered' \in Seq(Hooks) /\ Len(registered') = Len(registered) - 1
        /\ \A i \in 1 .. Len(registered) - 1 : registered'[i] = registered[i]
    BY <2>1, WithoutLast
  <2>5. /\ Len(initialized) = Len(registered) + Len(finalized)
        /\ \A i \in 1 .. Len(registered) : registered[i] = initialized[i]
        /\ \A i \in 1 .. Len(finalized) : finalized[i] = initialized[Len(initialized) + 1 - i]
    BY <2>1 DEF Ending
  <2>. HIDE DEF h
  <2>6. h = initialized[Len(registered)]
    BY <2>2, <2>5 DEF h
  <2>7. Len(initialized) + 1 - (Len(finalized) + 1) = Len(registered)
    BY <2>2, <2>5
  <2>8. \A i \in 1 .. Len(finalized) + 1 : finalized'[i] = initialized[Len(initialized) + 1 - i]
    BY <2>2, <2>3, <2>5, <2>6, <2>7
  <2>9. \A i \in 1 .. Len(registered) - 1 : registered'[i] = initialized[i]
    BY <2>2, <2>4, <2>5
  <2>10. Ending'
    <3>1. Len(initialized') = Len(registered') + Len(finalized')
      <4>1. Len(initialized') = Len(initialized)
        BY <2>1
      <4>2. Len(registered') = Len(registered) - 1 /\ Len(finalized') = Len(finalized) + 1
        BY <2>3, <2>4
      <4>3. Len(initialized) = Len(registered) + Len(finalized)
        BY <2>5
      <4>. QED BY <4>1, <4>2, <4>3, <2>2
    <3>2. \A i \in 1 .. Len(registered') : registered'[i] = initialized'[i]
      BY <2>1, <2>4, <2>9
    <3>3. \A i \in 1 .. Len(finalized') : finalized'[i] = initialized'[Len(initialized') + 1 - i]
      BY <2>1, <2>3, <2>8
    <3>4. Len(finalized') > 0 /\ running' = finalized'[Len(finalized')]
      BY <2>1, <2>2, <2>3
    <3>. QED BY <3>1, <3>2, <3>3, <3>4 DEF Ending
  <2>11. RunShape' /\ Translating' /\ Starting' /\ Ended'
    BY <2>1, <2>2, <2>3, <2>4 DEF RunShape, Translating, Starting, Ended
  <2>12. StartedInOrder'
    BY <2>1 DEF StartedInOrder
  <2>. QED BY <2>10, <2>11, <2>12
<1>12. CASE FiniEnds
  BY <1>12, <1>1, <1>2 DEF FiniEnds, RunShape, Translating, StartedInOrder, Starting, Ending, Ended
<1>13. CASE Exit
  BY <1>13, <1>1, <1>2 DEF Exit, RunShape, Translating, StartedInOrder, Starting, Ending, Ended
<1>. QED BY <1>4, <1>5, <1>6, <1>7, <1>8, <1>9, <1>10, <1>11, <1>12, <1>13 DEF Next

LEMMA InvHolds == StartupSpec => [](WalkInv /\ RunInv)
<1>1. Init => WalkInv /\ RunInv
  BY WalkStarts, RunStarts DEF Init
<1>2. WalkInv /\ RunInv /\ [Next]_vars => (WalkInv /\ RunInv)'
  <2>1. [Next]_vars => [CollectStep]_collectVars
    BY DEF Next, vars, Collect, StartMain, CallInit, InitReturns, RegisterFails, HaltInInit,
           RunBody, CallFini, FiniEnds, Exit
  <2>. QED BY <2>1, WalkGoesOn, RunGoesOn
<1>. QED BY <1>1, <1>2, PTL DEF StartupSpec

LEMMA MirrorFollows == WalkInv /\ RunInv => TeardownMirrorsStartup
<1>. SUFFICES ASSUME WalkInv, RunInv, pc = "ended" PROVE finalized = Reverse(initialized)
  BY DEF TeardownMirrorsStartup
<1>1. Len(registered) = 0 /\ initialized \in Seq(Hooks) /\ finalized \in Seq(Hooks)
  BY DEF RunInv, Ended, RunShape
<1>2. Len(finalized) = Len(initialized)
      /\ \A i \in 1 .. Len(finalized) : finalized[i] = initialized[Len(initialized) + 1 - i]
  BY <1>1 DEF RunInv, Ending
<1>. QED BY <1>1, <1>2 DEF Reverse

LEMMA AliveFollows == WalkInv /\ RunInv => UsedUnitsAreAlive
<1>. SUFFICES ASSUME WalkInv, RunInv, running \in Names,
                     NEW v \in UsedBy(running),
                     Usable(v), v # running, ~Reaches(v, running)
              PROVE  v \in ElementsOf(initialized) /\ v \notin ElementsOf(finalized)
  BY DEF UsedUnitsAreAlive
<1>1. /\ out \in Seq(Names) /\ Len(out) \in Nat /\ Len(Starters) = Len(out) + 1
      /\ \A i \in 1 .. Len(out) : Starters[i] = out[i]
      /\ Starters[Len(out) + 1] = Program
      /\ \A i, j \in 1 .. Len(Starters) : Starters[i] = Starters[j] => i = j
  BY StartersFacts
<1>2. running # Nobody /\ running # Program /\ pc \in {"hooks", "exit"}
  BY NobodyAssumption, ProgramAssumption DEF RunInv, RunShape, Translating, Ended
<1>3. /\ Len(initialized) = next - 1 /\ next \in Nat \ {0} /\ next <= Len(Starters) + 1
      /\ \A i \in 1 .. Len(initialized) : initialized[i] = Starters[i]
      /\ Len(registered) \in Nat /\ Len(finalized) \in Nat
  BY <1>2 DEF RunInv, StartedInOrder, RunShape
\* The units before the running one hold v.
<1>4. ASSUME NEW p \in 1 .. Len(Starters), running = Starters[p]
      PROVE  \E k \in 1 .. p - 1 : Starters[k] = v
  <2>1. p \in 1 .. Len(out) /\ running = out[p]
    BY <1>1, <1>2, <1>4
  <2>2. PICK k \in 1 .. p : out[k] = v
    BY <2>1 DEF WalkInv, UsedOnesFirst
  <2>3. k # p
    BY <2>1, <2>2
  <2>. QED BY <2>1, <2>2, <2>3, <1>1
<1>5. CASE pc = "hooks"
  <2>1. finalized = << >> /\ next \in 1 .. Len(Starters) /\ running = Starters[next]
    BY <1>1, <1>2, <1>3, <1>5 DEF RunInv, Starting
  <2>2. PICK k \in 1 .. next - 1 : Starters[k] = v
    BY <2>1, <1>4
  <2>3. k \in 1 .. Len(initialized) /\ initialized[k] = v
    BY <2>2, <1>3
  <2>. QED BY <2>1, <2>3 DEF ElementsOf
<1>6. CASE pc = "exit"
  <2>. DEFINE m == Len(finalized)
              p == Len(initialized) + 1 - m
  <2>1. /\ Len(initialized) = Len(registered) + m
        /\ \A i \in 1 .. m : finalized[i] = initialized[Len(initialized) + 1 - i]
        /\ m > 0 /\ running = finalized[m]
    BY <1>2, <1>6 DEF RunInv, Ending
  <2>2. p \in 1 .. Len(initialized) /\ p \in 1 .. Len(Starters) /\ running = initialized[p] /\ running = Starters[p]
    BY <2>1, <1>1, <1>3
  <2>3. PICK k \in 1 .. p - 1 : Starters[k] = v
    BY <2>2, <1>4
  <2>4. k \in 1 .. Len(initialized) /\ initialized[k] = v
    BY <2>2, <2>3, <1>3
  <2>5. ASSUME NEW i \in 1 .. m PROVE finalized[i] # v
    <3>1. /\ Len(initialized) + 1 - i \in 1 .. Len(initialized)
          /\ Len(initialized) + 1 - i >= p
          /\ finalized[i] = initialized[Len(initialized) + 1 - i]
      BY <2>1, <1>3
    <3>2. /\ Len(initialized) + 1 - i \in 1 .. Len(Starters) /\ k \in 1 .. Len(Starters)
          /\ Len(initialized) + 1 - i # k
      BY <3>1, <2>2, <2>3, <1>1, <1>3
    <3>. QED BY <3>1, <3>2, <2>3, <1>1, <1>3
  <2>. QED BY <2>4, <2>5 DEF ElementsOf
<1>. QED BY <1>2, <1>5, <1>6

----------------------------------------------------------------------------
(* Each usable unit that the program reaches is started, exactly once.
   (collect_unit_init_order, visit_unit_init_dep.) *)
THEOREM StartsOnceCorrect == StartupSpec => []EveryUnitStartsOnce
<1>1. WalkInv /\ RunInv => EveryUnitStartsOnce
  BY WalkIsComplete
<1>. QED BY <1>1, InvHolds, PTL

(* After an exit, what was initialized has been finalized in reverse order,
   whether the body ended, an init hook halted, or a fini hook did.
   (emit_unit.) *)
THEOREM TeardownCorrect == StartupSpec => []TeardownMirrorsStartup
<1>. QED BY MirrorFollows, InvHolds, PTL

(* While a hook of a unit runs, the units it uses, except those on a cycle with
   it, are initialized and not finalized.  (visit_unit_init_dep, emit_unit.) *)
THEOREM AliveCorrect == StartupSpec => []UsedUnitsAreAlive
<1>. QED BY AliveFollows, InvHolds, PTL

(***************************************************************************)
(* The sort that emit-all runs over the same units, topo_sort of           *)
(* src/units.cc.                                                           *)
(***************************************************************************)
(***************************************************************************)
(* The loop keeps counters and a set of ready names instead of looking at  *)
(* the graph again.  Counts says what they stand for.                      *)
(***************************************************************************)
Waiting(u) == Deps(u) \ Emitted
Counts ==
  /\ indeg = [u \in Units |-> Cardinality(Waiting(u))]
  /\ ready = {u \in Units \ Emitted : Waiting(u) = {}}
  /\ \A u \in Emitted : Waiting(u) = {}
Shape ==
  /\ Units \subseteq Numbers /\ units \in [Units -> ParsedUnit]
  /\ order \in Seq(Units)
  /\ cycle_edges \in SUBSET (Units \X Units)
  /\ returned \in BOOLEAN

\* A set of units each of which needs another one of the set.
Knot(S) == \A u \in S : Deps(u) \cap S # {}
KnotsStay == \A S \in SUBSET Units : Knot(S) => S \cap Emitted = {}

SortInv == Shape /\ Counts /\ KnotsStay

LEMMA WaitingFinite ==
  ASSUME Shape, NEW u \in Units
  PROVE  /\ Deps(u) \subseteq Units
         /\ IsFiniteSet(Waiting(u)) /\ Cardinality(Waiting(u)) \in Nat
         /\ Cardinality(Waiting(u)) = 0 <=> Waiting(u) = {}
<1>1. Deps(u) \subseteq Units /\ Waiting(u) \subseteq Numbers
  BY DEF Deps, Shape, Waiting
<1>2. IsFiniteSet(Waiting(u))
  BY <1>1, NumbersAssumption, FS_Subset DEF Shape
<1>. QED BY <1>1, <1>2, FS_CardinalityType, FS_EmptySet

LEMMA SortInit == ASSUME InitSort PROVE SortInv
<1>1. Shape
  <2>1. units \in Tables /\ order = << >> /\ cycle_edges = {} /\ returned = FALSE
    BY DEF InitSort
  <2>2. DOMAIN units \subseteq Numbers /\ units \in [DOMAIN units -> ParsedUnit]
    BY <2>1, TablesAssumption
  <2>3. order \in Seq(Units) /\ cycle_edges \in SUBSET (Units \X Units)
    BY <2>1
  <2>. QED BY <2>1, <2>2, <2>3 DEF Shape, Units
<1>2. Emitted = {}
  BY DEF InitSort, Emitted
<1>3. \A u \in Units : Waiting(u) = Deps(u)
  BY <1>2 DEF Waiting
<1>4. Counts
  BY <1>1, <1>2, <1>3, WaitingFinite DEF InitSort, Counts
<1>. QED BY <1>1, <1>2, <1>4 DEF SortInv, KnotsStay

(***************************************************************************)
(* One round of the loop.                                                  *)
(***************************************************************************)
LEMMA EmitFacts ==
  ASSUME SortInv, NEW n \in Numbers, Emit(n)
  PROVE  /\ n \in Units \ Emitted /\ Deps(n) \subseteq Emitted
         /\ \A u \in Units \ Emitted : Deps(u) \subseteq Emitted => n <= u
         /\ order' \in Seq(Units) /\ Len(order') = Len(order) + 1
         /\ Len(order) \in Nat
         /\ order'[Len(order) + 1] = n
         /\ \A i \in 1..Len(order) : order'[i] = order[i]
         /\ Emitted' = Emitted \cup {n}
<1>1. /\ n \in Units \ Emitted /\ Deps(n) \subseteq Emitted
      /\ \A u \in Units \ Emitted : Deps(u) \subseteq Emitted => n <= u
  BY DEF SortInv, Counts, Emit, Smallest, Waiting
<1>2. /\ order' \in Seq(Units) /\ Len(order') = Len(order) + 1
      /\ Len(order) \in Nat
      /\ order'[Len(order) + 1] = n
      /\ \A i \in 1..Len(order) : order'[i] = order[i]
  BY <1>1 DEF SortInv, Shape, Emit
<1>3. Emitted' = Emitted \cup {n}
  BY <1>2 DEF Emitted
<1>. QED BY <1>1, <1>2, <1>3

LEMMA EmitCounts ==
  ASSUME SortInv, NEW n \in Numbers, Emit(n)
  PROVE  Counts'
<1>1. /\ n \in Units \ Emitted /\ Emitted' = Emitted \cup {n}
      /\ Units' = Units /\ \A u : Deps(u)' = Deps(u)
  BY EmitFacts DEF Emit, Units, Deps
<1>2. ASSUME NEW u \in Units
      PROVE  /\ Waiting(u)' = Waiting(u) \ {n}
             /\ n \in Waiting(u) <=> n \in Deps(u)
             /\ indeg[u] = Cardinality(Waiting(u)) /\ indeg[u] \in Nat
             /\ Cardinality(Waiting(u) \ {n}) =
                  IF n \in Deps(u) THEN indeg[u] - 1 ELSE indeg[u]
             /\ n \in Deps(u) => indeg[u] > 0
  <2>1. /\ Waiting(u)' = Waiting(u) \ {n} /\ (n \in Waiting(u) <=> n \in Deps(u))
        /\ indeg[u] = Cardinality(Waiting(u))
    BY <1>1 DEF Waiting, SortInv, Counts
  <2>2. IsFiniteSet(Waiting(u)) /\ indeg[u] \in Nat
        /\ (indeg[u] = 0 <=> Waiting(u) = {})
    BY <2>1, WaitingFinite DEF SortInv
  <2>3. Cardinality(Waiting(u) \ {n}) =
          IF n \in Waiting(u) THEN Cardinality(Waiting(u)) - 1
                              ELSE Cardinality(Waiting(u))
    BY <2>2, FS_RemoveElement
  <2>. QED BY <2>1, <2>2, <2>3
<1>3. indeg' = [u \in Units |-> Cardinality(Waiting(u)')]
  BY <1>2 DEF Emit
<1>4. \A u \in Units : u \in Freed(n) <=> n \in Deps(u) /\ Waiting(u)' = {}
  <2>1. SUFFICES ASSUME NEW u \in Units, n \in Deps(u)
                 PROVE  indeg[u] = 1 <=> Waiting(u)' = {}
    BY DEF Freed
  <2>2. IsFiniteSet(Waiting(u)) /\ IsFiniteSet(Waiting(u) \ {n})
    BY WaitingFinite, FS_RemoveElement DEF SortInv
  <2>. QED BY <1>2, <2>1, <2>2, FS_EmptySet
<1>5. ready' = {u \in Units \ Emitted' : Waiting(u)' = {}}
  <2>1. ready = {u \in Units \ Emitted : Waiting(u) = {}}
    BY DEF SortInv, Counts
  <2>2. ready' = (ready \ {n}) \cup Freed(n) /\ Freed(n) \subseteq Units
    BY DEF Emit, Freed
  <2>3. Freed(n) \cap Emitted' = {}
    <3>1. SUFFICES ASSUME NEW u \in Freed(n), u \in Emitted' PROVE FALSE
      OBVIOUS
    <3>2. n \in Waiting(u)
      BY <3>1, <1>1, <1>2 DEF Freed
    <3>3. u \in Emitted \/ u = n
      BY <3>1, <1>1
    <3>4. Waiting(u) = {}
      BY <3>3, EmitFacts DEF SortInv, Counts, Waiting
    <3>. QED BY <3>2, <3>4
  <2>4. \A u \in Units : u \in ready' <=>
          (u \notin Emitted' /\ (u \in ready \/ u \in Freed(n)))
    BY <2>1, <2>2, <2>3, <1>1
  <2>5. \A u \in Units \ Emitted' : Waiting(u)' = {} <=> u \in ready \/ u \in Freed(n)
    <3>. SUFFICES ASSUME NEW u \in Units, u \notin Emitted'
                  PROVE  Waiting(u)' = {} <=> u \in ready \/ u \in Freed(n)
      OBVIOUS
    <3>1. u \in ready <=> Waiting(u) = {}
      BY <2>1, <1>1
    <3>2. /\ Waiting(u)' = Waiting(u) \ {n}
          /\ n \in Waiting(u) <=> n \in Deps(u)
      BY <1>2
    <3>3. u \in Freed(n) <=> n \in Deps(u) /\ Waiting(u)' = {}
      BY <1>4
    <3>. HIDE DEF Waiting, Deps, Freed
    <3>. QED BY <3>1, <3>2, <3>3
  <2>. QED BY <2>1, <2>2, <2>4, <2>5
<1>6. \A u \in Emitted' : Waiting(u)' = {}
  <2>1. \A u \in Emitted' : Waiting(u) = {}
    BY <1>1, EmitFacts DEF SortInv, Counts, Waiting
  <2>. QED BY <2>1, <1>1 DEF Waiting
<1>. QED BY <1>1, <1>3, <1>5, <1>6 DEF Counts

LEMMA SortStep == SortInv /\ [SortRound]_sortVars => SortInv'
<1>. SUFFICES ASSUME SortInv, [SortRound]_sortVars PROVE SortInv'
  OBVIOUS
<1>1. ASSUME NEW n \in Numbers, Emit(n) PROVE SortInv'
  <2>1. Shape'
    BY <1>1, EmitFacts DEF SortInv, Shape, Emit, Units
  <2>2. Units' = Units /\ \A u : Deps(u)' = Deps(u)
    BY <1>1 DEF Emit, Units, Deps
  <2>3. ASSUME NEW S \in SUBSET Units, Knot(S) PROVE S \cap Emitted' = {}
    <3>1. S \cap Emitted = {}
      BY <2>3 DEF SortInv, KnotsStay
    <3>2. n \notin S
      BY <1>1, <2>3, <3>1, EmitFacts DEF Knot
    <3>. QED BY <1>1, <3>1, <3>2, EmitFacts
  <2>4. KnotsStay'
    BY <2>2, <2>3 DEF KnotsStay, Knot
  <2>. QED BY <1>1, <2>1, <2>4, EmitCounts DEF SortInv
<1>2. CASE Return
  <2>1. UNCHANGED <<units, indeg, ready, order>>
    BY <1>2 DEF Return
  <2>2. Units' = Units /\ Emitted' = Emitted
        /\ \A u : Deps(u)' = Deps(u) /\ Waiting(u)' = Waiting(u)
    BY <2>1 DEF Units, Emitted, Deps, Waiting
  <2>3. Shape'
    BY <1>2, <2>1, <2>2 DEF Return, EdgesLeft, SortInv, Shape
  <2>. QED BY <2>1, <2>2, <2>3 DEF SortInv, Counts, KnotsStay, Knot
<1>3. CASE UNCHANGED sortVars
  BY <1>3 DEF sortVars, SortInv, Shape, Counts, KnotsStay, Knot, Waiting, Deps, Units, Emitted
<1>. QED BY <1>1, <1>2, <1>3 DEF SortRound

LEMMA SortInvariant == SortSpec => []SortInv
<1>1. InitSort => SortInv
  BY SortInit
<1>. QED BY <1>1, SortStep, PTL DEF SortSpec

\* The state of the sort always has the shape that its C++ types promise: a
\* count never falls below zero, and only units are ready or emitted.
THEOREM SortTypeCorrect == SortSpec => []TypeOK
<1>1. SortInv => TypeOK
  <2>. SUFFICES ASSUME SortInv PROVE TypeOK
    OBVIOUS
  <2>1. indeg \in [Units -> Nat]
    BY WaitingFinite DEF SortInv, Counts
  <2>. QED BY <2>1 DEF SortInv, Shape, Counts, TypeOK
<1>. QED BY <1>1, SortInvariant, PTL

(***************************************************************************)
(* Properties of the order: they hold of each place when it is filled.     *)
(***************************************************************************)
OrderInv == DependenciesFirst /\ EmittedOnce /\ OrderIsCanonical

LEMMA OrderStep == SortInv /\ OrderInv /\ [SortRound]_sortVars => OrderInv'
<1>. SUFFICES ASSUME SortInv, OrderInv, [SortRound]_sortVars PROVE OrderInv'
  OBVIOUS
<1>1. ASSUME NEW n \in Numbers, Emit(n) PROVE OrderInv'
  <2>. DEFINE last == Len(order) + 1
  <2>1. /\ n \in Units \ Emitted /\ Deps(n) \subseteq Emitted
        /\ \A u \in Units \ Emitted : Deps(u) \subseteq Emitted => n <= u
        /\ Len(order') = last /\ Len(order) \in Nat
        /\ order'[last] = n
        /\ \A i \in 1..Len(order) : order'[i] = order[i]
    BY <1>1, EmitFacts
  <2>2. Units' = Units /\ \A u : Deps(u)' = Deps(u)
    BY <1>1 DEF Emit, Units, Deps
  <2>3. \A i \in 1..Len(order') : i = last \/ (i \in 1..Len(order) /\ i < last)
    BY <2>1
  <2>4. DependenciesFirst'
    <3>1. SUFFICES ASSUME NEW i \in 1..Len(order'), NEW d \in Deps(order'[i])
                   PROVE  \E j \in 1..(i - 1) : order'[j] = d
      BY <2>2 DEF DependenciesFirst
    <3>2. CASE i = last
      <4>1. PICK j \in 1..Len(order) : order[j] = d
        BY <3>1, <3>2, <2>1 DEF Emitted
      <4>. QED BY <4>1, <3>2, <2>1
    <3>3. CASE i \in 1..Len(order)
      <4>1. PICK j \in 1..(i - 1) : order[j] = d
        BY <3>1, <3>3, <2>1 DEF OrderInv, DependenciesFirst
      <4>. QED BY <4>1, <3>3, <2>1
    <3>. QED BY <3>2, <3>3, <2>3
  <2>5. EmittedOnce'
    BY <2>1, <2>3 DEF OrderInv, EmittedOnce, Emitted
  <2>6. OrderIsCanonical'
    <3>1. SUFFICES ASSUME NEW i \in 1..Len(order'),
                          NEW u \in Units, \A j \in 1..(i - 1) : order'[j] # u,
                          \A d \in Deps(u) : \E j \in 1..(i - 1) : order'[j] = d
                   PROVE  order'[i] <= u
      BY <2>2 DEF OrderIsCanonical, Before
    <3>2. CASE i = last
      <4>1. u \notin Emitted /\ Deps(u) \subseteq Emitted
        BY <3>1, <3>2, <2>1 DEF Emitted
      <4>. QED BY <4>1, <3>2, <2>1
    <3>3. CASE i \in 1..Len(order)
      <4>1. \A j \in 1..(i - 1) : order'[j] = order[j]
        BY <3>3, <2>1
      <4>2. u \notin Before(i) /\ Deps(u) \subseteq Before(i)
        BY <3>1, <4>1 DEF Before
      <4>. QED BY <4>2, <3>3, <2>1 DEF OrderInv, OrderIsCanonical
    <3>. QED BY <3>2, <3>3, <2>3
  <2>. QED BY <2>4, <2>5, <2>6 DEF OrderInv
<1>2. CASE Return \/ UNCHANGED sortVars
  BY <1>2
  DEF Return, sortVars, OrderInv, DependenciesFirst, EmittedOnce, OrderIsCanonical,
      Before, Deps, Units
<1>. QED BY <1>1, <1>2 DEF SortRound

\* In the result of topo_sort, and in every prefix of it, each unit comes
\* after its dependencies, no unit comes twice, and each place holds the
\* smallest name that could stand there, so the order depends on nothing but
\* the graph.
THEOREM OrderCorrect ==
  SortSpec => [](DependenciesFirst /\ EmittedOnce /\ OrderIsCanonical)
<1>1. InitSort => OrderInv
  BY DEF InitSort, OrderInv, DependenciesFirst, EmittedOnce, OrderIsCanonical
<1>. QED BY <1>1, OrderStep, SortInvariant, PTL DEF SortSpec, OrderInv

(***************************************************************************)
(* What is left over.                                                      *)
(***************************************************************************)
ReturnedInv ==
  returned => ready = {} /\ (cycle_edges = {} <=> Emitted = Units)

LEMMA ReturnedStep == SortInv /\ ReturnedInv /\ [SortRound]_sortVars => ReturnedInv'
<1>. SUFFICES ASSUME SortInv, ReturnedInv, [SortRound]_sortVars PROVE ReturnedInv'
  OBVIOUS
<1>1. ASSUME NEW n \in Numbers, Emit(n) PROVE ReturnedInv'
  BY <1>1 DEF Emit, Smallest, ReturnedInv
<1>2. CASE Return
  <2>1. ready = {} /\ ready' = {} /\ cycle_edges' = EdgesLeft
        /\ Units' = Units /\ Emitted' = Emitted
    BY <1>2 DEF Return, Exhausted, Units, Emitted
  <2>2. \A u \in Units : /\ indeg[u] > 0 <=> Waiting(u) # {}
                         /\ Deps(u) \subseteq Units
    BY WaitingFinite DEF SortInv, Counts
  <2>3. \A u \in Units : u \in Emitted <=> Waiting(u) = {}
    BY <2>1 DEF SortInv, Counts
  <2>4. Emitted \subseteq Units
    BY DEF SortInv, Shape, Emitted
  <2>5. EdgesLeft = {} <=> Emitted = Units
    <3>1. ASSUME Emitted # Units PROVE EdgesLeft # {}
      <4>1. PICK u \in Units : Waiting(u) # {}
        BY <3>1, <2>3, <2>4
      <4>2. PICK d \in Waiting(u) : TRUE
        BY <4>1
      <4>3. <<u, d>> \in EdgesLeft
        BY <4>1, <4>2, <2>2 DEF EdgesLeft, Waiting
      <4>. QED BY <4>3
    <3>2. ASSUME Emitted = Units PROVE EdgesLeft = {}
      BY <3>2, <2>2, <2>3 DEF EdgesLeft
    <3>. QED BY <3>1, <3>2
  <2>. QED BY <2>1, <2>5 DEF ReturnedInv
<1>3. CASE UNCHANGED sortVars
  BY <1>3 DEF sortVars, ReturnedInv, Emitted, Units
<1>. QED BY <1>1, <1>2, <1>3 DEF SortRound

\* When topo_sort returns, what it left out is exactly what is on a cycle or
\* downstream of one, and the list of cycle edges is empty exactly when
\* nothing was left out, as emit-all takes for granted.
THEOREM LeftOverCorrect == SortSpec => []LeftOverIsBlocked
<1>1. InitSort => ReturnedInv
  BY DEF InitSort, ReturnedInv
<1>2. SortInv /\ ReturnedInv => LeftOverIsBlocked
  <2>. SUFFICES ASSUME SortInv, ReturnedInv, returned PROVE Units \ Emitted = Blocked
    BY DEF LeftOverIsBlocked, ReturnedInv
  <2>1. Knot(Units \ Emitted)
    BY WaitingFinite DEF SortInv, Counts, ReturnedInv, Knot, Waiting
  <2>2. Units \ Emitted \subseteq Blocked
    BY <2>1 DEF Blocked, Knot
  <2>3. Blocked \subseteq Units \ Emitted
    BY DEF Blocked, SortInv, KnotsStay, Knot
  <2>. QED BY <2>2, <2>3
<1>. QED BY <1>1, <1>2, ReturnedStep, SortInvariant, PTL DEF SortSpec
============================================================================
