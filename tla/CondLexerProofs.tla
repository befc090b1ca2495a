-------------------------- MODULE CondLexerProofs --------------------------
(***************************************************************************)
(* Proofs about CondLexer, for all settings, include files and texts of    *)
(* any length: the frames of the stack nest; what the stack answers is     *)
(* what the text says of itself without one; so the parser sees what       *)
(* conditional compilation selects, and the errors are the faults of the   *)
(* text.                                                                   *)
(***************************************************************************)
EXTENDS CondLexer, FiniteSetTheorems, SequenceTheorems, TLAPS

(***************************************************************************)
(* FramesNest is inductive once the stack is known to hold frames.  Its    *)
(* second conjunct is the one that carries over; TopDecides follows.       *)
(***************************************************************************)
Nested(stack) ==
  /\ stack \in Seq(Frame)
  /\ \A i \in 1..Len(stack) : stack[i].accepting =>
       /\ stack[i].any_taken
       /\ \A j \in 1..i : stack[j].accepting
StackInv == Nested(ifdef_stack)

LEMMA NestedTopDecides == StackInv => FramesNest
<1>. SUFFICES ASSUME StackInv PROVE FramesNest
  OBVIOUS
<1>1. Depth \in Nat /\ (Depth = 0 <=> ifdef_stack = << >>)
  BY DEF StackInv, Nested, Depth
<1>2. TopDecides
  BY <1>1 DEF StackInv, Nested, TopDecides, accepting, Top, Depth
<1>. QED BY <1>2 DEF StackInv, Nested, FramesNest, Depth

LEMMA NestedPush ==
  ASSUME StackInv, NEW b \in BOOLEAN, b => accepting
  PROVE  Nested(Append(ifdef_stack, [accepting |-> b, any_taken |-> b,
                                     in_else |-> FALSE]))
<1>. DEFINE frame == [accepting |-> b, any_taken |-> b, in_else |-> FALSE]
            stack == Append(ifdef_stack, frame)
<1>1. frame \in Frame /\ frame.accepting = b /\ frame.any_taken = b
  BY DEF Frame
<1>2. /\ stack \in Seq(Frame) /\ Len(stack) = Depth + 1 /\ Depth \in Nat
      /\ \A i \in 1..Depth : stack[i] = ifdef_stack[i]
      /\ stack[Depth + 1] = frame
  BY <1>1 DEF StackInv, Nested, Depth
<1>. HIDE DEF frame, stack
<1>. QED BY <1>1, <1>2 DEF StackInv, Nested, accepting, Depth, frame, stack

LEMMA NestedPop ==
  ASSUME StackInv, Depth # 0
  PROVE  Nested(SubSeq(ifdef_stack, 1, Depth - 1))
<1>. DEFINE stack == SubSeq(ifdef_stack, 1, Depth - 1)
<1>1. /\ stack \in Seq(Frame) /\ Len(stack) = Depth - 1 /\ Depth \in Nat
      /\ \A i \in 1..(Depth - 1) : stack[i] = ifdef_stack[i]
  <2>1. ifdef_stack \in Seq(Frame) /\ Depth \in Nat /\ Depth = Len(ifdef_stack)
    BY DEF StackInv, Nested, Depth
  <2>2. Depth - 1 \in Nat
    BY <2>1
  <2>. QED BY <2>1, <2>2
<1>. HIDE DEF stack
<1>. QED BY <1>1 DEF StackInv, Nested, Depth, stack

\* A branch may be entered when every frame below accepts.
LEMMA NestedBranch ==
  ASSUME StackInv, Depth # 0, NEW taken \in BOOLEAN, NEW is_else \in BOOLEAN,
         taken => ParentAccepts, EnterBranch(taken, is_else)
  PROVE  StackInv'
<1>. DEFINE frame == [accepting |-> taken, any_taken |-> Top.any_taken \/ taken,
                      in_else |-> is_else]
<1>1. /\ frame \in Frame /\ frame.accepting = taken
      /\ taken => frame.any_taken
  BY DEF Frame
<1>2. /\ ifdef_stack' \in Seq(Frame) /\ Len(ifdef_stack') = Depth
      /\ Depth \in Nat /\ Depth > 0
      /\ \A i \in 1..(Depth - 1) : ifdef_stack'[i] = ifdef_stack[i]
      /\ ifdef_stack'[Depth] = frame
  BY <1>1 DEF StackInv, Nested, Depth, EnterBranch
<1>. HIDE DEF frame
<1>. QED BY <1>1, <1>2 DEF StackInv, Nested, ParentAccepts, Depth

LEMMA NestedStep == StackInv /\ [Next]_vars => StackInv'
<1>. SUFFICES ASSUME StackInv, [Next]_vars PROVE StackInv'
  OBVIOUS
<1>1. ASSUME NEW cond, OpenIf(cond) PROVE StackInv'
  BY <1>1, NestedPush DEF OpenIf, BranchTaken, StackInv
<1>2. ASSUME NEW cond, ElseIf(cond) PROVE StackInv'
  <2>1. CASE Depth = 0 \/ Top.in_else
    BY <1>2, <2>1 DEF ElseIf, StackInv
  <2>2. CASE ~(Depth = 0 \/ Top.in_else)
    BY <1>2, <2>2, NestedBranch DEF ElseIf, Evaluated
  <2>. QED BY <2>1, <2>2
<1>3. CASE Else
  <2>1. CASE Depth = 0 \/ Top.in_else
    BY <1>3, <2>1 DEF Else, StackInv
  <2>2. CASE ~(Depth = 0 \/ Top.in_else)
    BY <1>3, <2>2, NestedBranch DEF Else, Evaluated
  <2>. QED BY <2>1, <2>2
<1>4. CASE EndIf
  BY <1>4, NestedPop DEF EndIf, StackInv
<1>5. ASSUME NEW item, \/ Set(item.setting, item.value)
                       \/ Include(item.file)
                       \/ ErrorDirective
                       \/ Token(item.op)
      PROVE  StackInv'
  BY <1>5 DEF Set, Include, ErrorDirective, Token, StackInv
<1>6. CASE PopInput \/ UNCHANGED vars
  BY <1>6 DEF PopInput, vars, StackInv
<1>. QED BY <1>1, <1>2, <1>3, <1>4, <1>5, <1>6 DEF Next, Directive

\* The lexer may look at the top frame alone, as its header says, although
\* the code asks all of them: no frame accepts inside one that rejects, and
\* a frame that accepts has recorded that its branch was taken.
THEOREM FramesNestCorrect == Spec => []FramesNest
<1>1. Init => StackInv
  BY DEF Init, StackInv, Nested
<1>. QED BY <1>1, NestedStep, NestedTopDecides, PTL DEF Spec

-----------------------------------------------------------------------------
(***************************************************************************)
(* What is read.                                                           *)
(***************************************************************************)
Entry == [item : Item, settings : [Settings -> BOOLEAN]]
Inputs == [file : DOMAIN Included, pos : Nat]
TypeOK == /\ settings \in [Settings -> BOOLEAN]
          /\ inputs \in Seq(Inputs)
          /\ text \in Seq(Entry)
          /\ errors \in Nat
          /\ \A i \in 1..Len(inputs) : inputs[i].pos > 0

\* The position of the item that is read next.
Now == Len(text) + 1

LEMMA ItemFacts ==
  ASSUME NEW item \in Item
  PROVE  /\ item.op \in {"if", "elseif", "else", "endif", "error", "token",
                         "badliteral", "set", "include"}
         /\ item.op = "set" => item.setting \in Settings /\ item.value \in BOOLEAN
         /\ item.op = "include" => item.file \in DOMAIN Included \cup {Missing}
BY DEF Item

LEMMA ReadFacts ==
  ASSUME TypeOK, NEW item, Read(item)
  PROVE  /\ item \in Item
         /\ text' \in Seq(Entry)
         /\ Len(text) \in Nat /\ Len(text') = Now
         /\ \A p \in Positions : text'[p] = text[p]
         /\ text'[Now].item = item /\ text'[Now].settings = settings
         /\ Advance \in Seq(Inputs)
         /\ \A i \in 1..Len(Advance) : Advance[i].pos > 0
<1>1. item \in Item
  <2>1. CASE inputs = << >>
    BY <2>1, ItemsAssumption DEF Read
  <2>2. CASE inputs # << >>
    <3>1. /\ TopInput \in Inputs /\ TopInput.pos > 0
      BY <2>2 DEF TypeOK, TopInput
    <3>2. Included[TopInput.file] \in Seq(Item)
      BY <3>1, IncludedAssumption DEF Inputs
    <3>3. TopInput.pos \in 1..Len(Included[TopInput.file])
      BY <2>2, <3>1, <3>2 DEF Read, AtEndOfInput, Inputs
    <3>4. item = Included[TopInput.file][TopInput.pos]
      BY <2>2 DEF Read
    <3>. QED BY <3>2, <3>3, <3>4
  <2>. QED BY <2>1, <2>2
<1>2. PICK e : e = [item |-> item, settings |-> settings]
  OBVIOUS
<1>3. e \in Entry /\ e.item = item /\ e.settings = settings
  BY <1>1, <1>2 DEF Entry, TypeOK
<1>4. text \in Seq(Entry) /\ text' = Append(text, e)
  BY <1>2 DEF Read, TypeOK
<1>5. /\ text' \in Seq(Entry)
      /\ Len(text) \in Nat /\ Len(text') = Now
      /\ \A p \in Positions : text'[p] = text[p]
      /\ text'[Now] = e
  BY <1>3, <1>4 DEF Now, Positions
<1>6. /\ Advance \in Seq(Inputs)
      /\ \A i \in 1..Len(Advance) : Advance[i].pos > 0
  <2>1. CASE inputs = << >>
    BY <2>1 DEF Advance
  <2>2. CASE inputs # << >>
    <3>1. inputs \in Seq(Inputs) /\ Len(inputs) \in Nat \ {0}
      BY <2>2 DEF TypeOK
    <3>2. PICK input : input = inputs[Len(inputs)]
      OBVIOUS
    <3>3. input \in Inputs /\ input.pos > 0
      BY <3>1, <3>2 DEF TypeOK
    <3>4. PICK top : top = [input EXCEPT !.pos = input.pos + 1]
      OBVIOUS
    <3>5. top \in Inputs /\ top.pos > 0
      BY <3>3, <3>4 DEF Inputs
    <3>6. Advance = [inputs EXCEPT ![Len(inputs)] = top]
      BY <2>2, <3>2, <3>4 DEF Advance
    <3>7. /\ Advance \in Seq(Inputs) /\ Len(Advance) = Len(inputs)
          /\ \A i \in 1..Len(inputs) : Advance[i] = IF i = Len(inputs) THEN top ELSE inputs[i]
      BY <3>1, <3>5, <3>6
    <3>. QED BY <3>1, <3>5, <3>7 DEF TypeOK
  <2>. QED BY <2>1, <2>2
<1>. QED BY <1>1, <1>3, <1>5, <1>6

LEMMA WithoutLast ==
  ASSUME NEW S, NEW s \in Seq(S), s # << >>, NEW t, t = SubSeq(s, 1, Len(s) - 1)
  PROVE  /\ t \in Seq(S) /\ Len(t) = Len(s) - 1
         /\ \A i \in 1..Len(t) : t[i] = s[i]
<1>. DEFINE n == Len(s) - 1
<1>1. n \in Nat /\ n \in Int /\ 1 \in Int /\ \A i \in 1..n : s[i] \in S
  OBVIOUS
<1>. HIDE DEF n
<1>2. t = SubSeq(s, 1, n)
  BY DEF n
<1>3. /\ t \in Seq(S) /\ Len(t) = IF 1 <= n THEN n - 1 + 1 ELSE 0
      /\ \A i \in 1..(n - 1 + 1) : t[i] = s[1 + i - 1]
  BY ONLY <1>1, <1>2, SubSeqProperties
<1>4. Len(t) = n /\ \A i \in 1..n : t[i] = s[i]
  BY ONLY <1>1, <1>3
<1>. QED BY <1>3, <1>4 DEF n

LEMMA TypeStep == TypeOK /\ [Next]_vars => TypeOK'
<1>. SUFFICES ASSUME TypeOK, [Next]_vars PROVE TypeOK'
  OBVIOUS
<1>1. CASE PopInput
  <2>1. /\ inputs # << >> /\ inputs' = SubSeq(inputs, 1, Len(inputs) - 1)
        /\ UNCHANGED <<settings, errors, text>>
    BY <1>1 DEF PopInput, AtEndOfInput
  <2>2. inputs \in Seq(Inputs) /\ Len(inputs) \in Nat /\ Len(inputs) > 0
    BY <2>1 DEF TypeOK
  <2>3. /\ inputs' \in Seq(Inputs) /\ Len(inputs') = Len(inputs) - 1
        /\ \A i \in 1..Len(inputs') : inputs'[i] = inputs[i]
    BY <2>1, <2>2, WithoutLast
  <2>. QED BY <2>1, <2>2, <2>3 DEF TypeOK
<1>2. CASE UNCHANGED vars
  BY <1>2 DEF vars, TypeOK
<1>3. ASSUME NEW item, Read(item), NEW b \in BOOLEAN, Report(b),
             inputs' = Advance, settings' \in [Settings -> BOOLEAN]
      PROVE  TypeOK'
  <2>1. errors' \in Nat
    BY <1>3 DEF Report, TypeOK
  <2>. QED BY <1>3, <2>1, ReadFacts DEF TypeOK
<1>4. ASSUME NEW item, Directive(item) PROVE TypeOK'
  <2>1. CASE OpenIf(item.cond)
    BY <2>1, <1>3 DEF OpenIf, TypeOK, accepting
  <2>2. CASE ElseIf(item.cond)
    <3>1. CASE Depth = 0 \/ Top.in_else
      BY <3>1, <2>2, <1>3 DEF ElseIf, TypeOK
    <3>2. CASE ~(Depth = 0 \/ Top.in_else)
      BY <3>2, <2>2, <1>3 DEF ElseIf, TypeOK, Evaluated, ParentAccepts
    <3>. QED BY <3>1, <3>2
  <2>3. CASE Else
    <3>1. errors' = errors => Report(FALSE)
      BY DEF Report
    <3>. QED BY <3>1, <2>3, <1>3 DEF Else, TypeOK
  <2>4. CASE EndIf
    BY <2>4, <1>3 DEF EndIf, TypeOK
  <2>5. CASE Set(item.setting, item.value)
    <3>1. PICK x : x = [op |-> "set", setting |-> item.setting, value |-> item.value]
      OBVIOUS
    <3>2. Read(x) /\ x.op = "set" /\ x.setting = item.setting /\ x.value = item.value
      BY <3>1, <2>5 DEF Set
    <3>3. x \in Item
      BY <3>2, ReadFacts
    <3>4. settings' \in [Settings -> BOOLEAN]
      BY <3>2, <3>3, <2>5, ItemFacts DEF Set, TypeOK
    <3>5. Report(FALSE)
      BY <2>5 DEF Set, Report
    <3>. QED BY <3>2, <3>4, <3>5, <2>5, <1>3 DEF Set
  <2>6. CASE Include(item.file)
    <3>1. PICK x : x = [op |-> "include", file |-> item.file]
      OBVIOUS
    <3>2. Read(x) /\ x.op = "include" /\ x.file = item.file
      BY <3>1, <2>6 DEF Include
    <3>3. x \in Item
      BY <3>2, ReadFacts
    <3>4. x.file \in DOMAIN Included \cup {Missing}
      BY <3>2, <3>3, ItemFacts
    <3>5. /\ Advance \in Seq(Inputs)
          /\ \A i \in 1..Len(Advance) : Advance[i].pos > 0
          /\ text' \in Seq(Entry)
      BY <3>2, ReadFacts
    <3>6. inputs' \in Seq(Inputs) /\ \A i \in 1..Len(inputs') : inputs'[i].pos > 0
      <4>1. CASE inputs' = Advance
        BY <4>1, <3>5
      <4>2. CASE inputs' # Advance
        <5>1. PICK top : top = [file |-> item.file, pos |-> 1]
          OBVIOUS
        <5>2. inputs' = Append(Advance, top) /\ item.file # Missing
          BY <5>1, <4>2, <2>6 DEF Include
        <5>3. top \in Inputs /\ top.pos > 0
          BY <5>1, <5>2, <3>2, <3>4 DEF Inputs
        <5>4. /\ inputs' \in Seq(Inputs) /\ Len(inputs') = Len(Advance) + 1
              /\ Len(Advance) \in Nat
              /\ \A i \in 1..Len(Advance) : inputs'[i] = Advance[i]
              /\ inputs'[Len(Advance) + 1] = top
          BY <5>2, <5>3, <3>5
        <5>. QED BY <5>3, <5>4, <3>5
      <4>. QED BY <4>1, <4>2
    <3>7. errors' \in Nat /\ settings' = settings
      BY <2>6 DEF Include, Report, TypeOK
    <3>. QED BY <3>5, <3>6, <3>7 DEF TypeOK
  <2>7. CASE ErrorDirective
    BY <2>7, <1>3 DEF ErrorDirective, TypeOK, accepting
  <2>8. CASE Token(item.op)
    BY <2>8, <1>3 DEF Token, TypeOK
  <2>. QED BY <1>4, <2>1, <2>2, <2>3, <2>4, <2>5, <2>6, <2>7, <2>8 DEF Directive
<1>. QED BY <1>1, <1>2, <1>4 DEF Next

-----------------------------------------------------------------------------
(***************************************************************************)
(* Levels.  Level is defined by recursion over the text; that there is one *)
(* function that solves its equation is carried along as the text grows.   *)
(***************************************************************************)
LevelEquation(L) ==
  L = [p \in 0..Len(text) |->
         IF p = 0 THEN 0
         ELSE IF Op(p) = "if" THEN L[p - 1] + 1
         ELSE IF Op(p) = "endif" /\ L[p - 1] > 0 THEN L[p - 1] - 1
         ELSE L[p - 1]]
LevelsInv == \E L \in [0..Len(text) -> Nat] :
               LevelEquation(L) /\ \A M : LevelEquation(M) => M = L

LEMMA LevelIsChosen == Level = CHOOSE L : LevelEquation(L)
BY DEF Level, LevelEquation

LEMMA LevelFacts ==
  ASSUME LevelsInv
  PROVE  /\ Level \in [0..Len(text) -> Nat]
         /\ LevelEquation(Level)
         /\ \A M : LevelEquation(M) => M = Level
<1>1. PICK L \in [0..Len(text) -> Nat] :
        LevelEquation(L) /\ \A M : LevelEquation(M) => M = L
  BY DEF LevelsInv
<1>2. LevelEquation(Level)
  BY <1>1, LevelIsChosen
<1>. QED BY <1>1, <1>2

LEMMA LevelsInit == Init => LevelsInv
<1>. SUFFICES ASSUME Init PROVE LevelsInv
  OBVIOUS
<1>1. PICK L : L = [p \in 0..0 |-> 0]
  OBVIOUS
<1>2. Len(text) = 0 /\ L \in [0..Len(text) -> Nat] /\ L[0] = 0
  BY <1>1 DEF Init
<1>3. \A M : LevelEquation(M) <=> M = L
  BY <1>1, <1>2 DEF LevelEquation
<1>. QED BY <1>2, <1>3 DEF LevelsInv

LEMMA OpsStay ==
  ASSUME TypeOK, NEW item, Read(item)
  PROVE  /\ \A p \in Positions : Op(p)' = Op(p)
         /\ Positions' = Positions \cup {Now} /\ Now \notin Positions
         /\ Now' = Now + 1 /\ Now \in Nat \ {0} /\ Now = Len(text) + 1
         /\ \A p \in {Now} : Op(p)' = item.op
<1>1. /\ Len(text) \in Nat /\ Len(text') = Now
      /\ \A p \in Positions : text'[p] = text[p]
      /\ text'[Now].item = item
  BY ReadFacts
<1>. QED BY <1>1 DEF Op, Positions, Now

LEMMA LevelsRead ==
  ASSUME TypeOK, LevelsInv, NEW item, Read(item)
  PROVE  /\ LevelsInv'
         /\ \A p \in 0..Len(text) : Level'[p] = Level[p]
         /\ item.op = "if" => Level'[Now] = Level[Len(text)] + 1
         /\ item.op = "endif" /\ Level[Len(text)] > 0
              => Level'[Now] = Level[Len(text)] - 1
         /\ item.op # "if" /\ ~(item.op = "endif" /\ Level[Len(text)] > 0)
              => Level'[Now] = Level[Len(text)]
<1>0. PICK n : n = Len(text)
  OBVIOUS
<1>1. /\ n \in Nat /\ Len(text') = n + 1 /\ Now = n + 1
      /\ \A p \in 1..n : Op(p)' = Op(p)
      /\ \A p \in {n + 1} : Op(p)' = item.op
  BY <1>0, OpsStay, ReadFacts DEF Now, Positions
<1>2. /\ Level \in [0..n -> Nat] /\ LevelEquation(Level)
      /\ \A M : LevelEquation(M) => M = Level
  BY <1>0, LevelFacts
<1>a. PICK L : L = Level
  OBVIOUS
<1>b. PICK v : v = IF item.op = "if" THEN L[n] + 1
                   ELSE IF item.op = "endif" /\ L[n] > 0 THEN L[n] - 1
                   ELSE L[n]
  OBVIOUS
<1>3. v \in Nat
  BY <1>1, <1>2, <1>a, <1>b
<1>c. PICK N : N = [p \in 0..n + 1 |-> IF p = n + 1 THEN v ELSE L[p]]
  OBVIOUS
<1>4. /\ N \in [0..n + 1 -> Nat]
      /\ \A p \in 0..n : N[p] = L[p]
      /\ N[n + 1] = v
  BY <1>1, <1>2, <1>3, <1>a, <1>c
<1>5. /\ L[0] = 0
      /\ \A p \in 1..n : L[p] =
           IF Op(p) = "if" THEN L[p - 1] + 1
           ELSE IF Op(p) = "endif" /\ L[p - 1] > 0 THEN L[p - 1] - 1
           ELSE L[p - 1]
  <2>1. L = [p \in 0..n |->
               IF p = 0 THEN 0
               ELSE IF Op(p) = "if" THEN L[p - 1] + 1
               ELSE IF Op(p) = "endif" /\ L[p - 1] > 0 THEN L[p - 1] - 1
               ELSE L[p - 1]]
    BY <1>0, <1>2, <1>a DEF LevelEquation
  <2>. QED BY <2>1, <1>1
<1>6. LevelEquation(N)'
  <2>. DEFINE At(M, p) == IF p = 0 THEN 0
                          ELSE IF Op(p)' = "if" THEN M[p - 1] + 1
                          ELSE IF Op(p)' = "endif" /\ M[p - 1] > 0 THEN M[p - 1] - 1
                          ELSE M[p - 1]
  <2>1. ASSUME NEW p \in 0..n + 1 PROVE N[p] = At(N, p)
    <3>1. CASE p = 0
      BY <3>1, <1>1, <1>4, <1>5
    <3>2. CASE p \in 1..n
      BY <3>2, <1>1, <1>4, <1>5
    <3>3. CASE p = n + 1
      BY <3>3, <1>1, <1>4, <1>b
    <3>. QED BY <3>1, <3>2, <3>3, <1>1
  <2>2. N = [p \in 0..n + 1 |-> N[p]]
    BY <1>4
  <2>3. N = [p \in 0..n + 1 |-> At(N, p)]
    BY <2>1, <2>2
  <2>. QED BY <2>3, <1>1 DEF LevelEquation
<1>7. ASSUME NEW M, LevelEquation(M)' PROVE M = N
  <2>1. M = [p \in 0..n + 1 |->
               IF p = 0 THEN 0
               ELSE IF Op(p)' = "if" THEN M[p - 1] + 1
               ELSE IF Op(p)' = "endif" /\ M[p - 1] > 0 THEN M[p - 1] - 1
               ELSE M[p - 1]]
    BY <1>1, <1>7 DEF LevelEquation
  <2>2. PICK R : R = [p \in 0..n |-> M[p]]
    OBVIOUS
  <2>3. ASSUME NEW p \in 0..n
        PROVE  R[p] = IF p = 0 THEN 0
                      ELSE IF Op(p) = "if" THEN R[p - 1] + 1
                      ELSE IF Op(p) = "endif" /\ R[p - 1] > 0 THEN R[p - 1] - 1
                      ELSE R[p - 1]
    <3>1. p = 0 => R[p] = 0
      BY <2>1, <2>2, <1>1
    <3>2. ASSUME p # 0
          PROVE  R[p] = IF Op(p) = "if" THEN R[p - 1] + 1
                      ELSE IF Op(p) = "endif" /\ R[p - 1] > 0 THEN R[p - 1] - 1
                      ELSE R[p - 1]
      <4>1. p \in 1..n /\ p - 1 \in 0..n /\ p \in 0..n + 1
        BY <3>2, <1>1
      <4>2. R[p] = M[p] /\ R[p - 1] = M[p - 1]
        BY <2>2, <4>1
      <4>. QED BY <2>1, <4>1, <4>2, <1>1, <3>2
    <3>. QED BY <3>1, <3>2
  <2>4. LevelEquation(R)
    <3>1. R = [p \in 0..n |-> R[p]]
      BY <2>2
    <3>2. R = [p \in 0..n |->
                 IF p = 0 THEN 0
                 ELSE IF Op(p) = "if" THEN R[p - 1] + 1
                 ELSE IF Op(p) = "endif" /\ R[p - 1] > 0 THEN R[p - 1] - 1
                 ELSE R[p - 1]]
      BY <3>1, <2>3
    <3>. QED BY <3>2, <1>0 DEF LevelEquation
  <2>5. R = L
    BY <2>4, <1>2, <1>a
  <2>6. \A p \in 0..n : M[p] = L[p]
    BY <2>2, <2>5
  <2>7. M[n + 1] = v
    <3>1. n + 1 \in 0..n + 1 /\ n + 1 # 0 /\ n + 1 - 1 = n /\ n \in 0..n
      BY <1>1
    <3>2. M[n + 1] = IF Op(n + 1)' = "if" THEN M[n] + 1
                     ELSE IF Op(n + 1)' = "endif" /\ M[n] > 0 THEN M[n] - 1
                     ELSE M[n]
      BY <2>1, <3>1
    <3>. QED BY <3>1, <3>2, <2>6, <1>1, <1>b
  <2>8. M = [p \in 0..n + 1 |-> M[p]]
    BY <2>1
  <2>9. \A p \in 0..n + 1 : M[p] = N[p]
    BY <2>6, <2>7, <1>1, <1>4
  <2>. QED BY <2>8, <2>9, <1>4
<1>8. LevelsInv'
  BY <1>1, <1>4, <1>6, <1>7 DEF LevelsInv
<1>9. Level' = N
  <2>1. LevelEquation(Level)'
    <3>1. Level' = CHOOSE M : LevelEquation(M)'
      BY DEF Level, LevelEquation
    <3>2. \E M : LevelEquation(M)'
      BY <1>6
    <3>. QED BY <3>1, <3>2
  <2>. QED BY <2>1, <1>7
<1>. QED BY <1>0, <1>1, <1>4, <1>8, <1>9, <1>a, <1>b

(***************************************************************************)
(* The directives that enclose a position.                                 *)
(***************************************************************************)
Leveled ==
  /\ Now \in Nat \ {0} /\ Positions = 1..(Now - 1)
  /\ \A p \in 0..(Now - 1) : Level[p] \in Nat
  /\ \A p \in Positions : Op(p) = "if" => Level[p] = Level[p - 1] + 1

LEMMA LevelsRise ==
  ASSUME TypeOK, LevelsInv
  PROVE  Leveled
<1>1. /\ Level \in [0..Len(text) -> Nat] /\ LevelEquation(Level)
  BY LevelFacts
<1>2. Len(text) \in Nat /\ Positions = 1..Len(text) /\ Now = Len(text) + 1
  BY DEF TypeOK, Positions, Now
<1>3. PICK L, n : L = Level /\ n = Len(text)
  OBVIOUS
<1>4. L = [p \in 0..n |->
             IF p = 0 THEN 0
             ELSE IF Op(p) = "if" THEN L[p - 1] + 1
             ELSE IF Op(p) = "endif" /\ L[p - 1] > 0 THEN L[p - 1] - 1
             ELSE L[p - 1]]
  BY <1>1, <1>3 DEF LevelEquation
<1>5. \A p \in 1..n : Op(p) = "if" => L[p] = L[p - 1] + 1
  BY <1>2, <1>3, <1>4
<1>. QED BY <1>1, <1>2, <1>3, <1>5 DEF Leveled

LEMMA EncloserLevels ==
  ASSUME Leveled, NEW o \in Positions, NEW p \in 1..Now, Encloses(o, p)
  PROVE  Level[o] \in 1..Level[p - 1]
BY DEF Leveled, Encloses

LEMMA EnclosersDiffer ==
  ASSUME Leveled, NEW o \in Positions, NEW q \in Positions, NEW p \in 1..Now,
         Encloses(o, p), Encloses(q, p), Level[o] = Level[q]
  PROVE  o = q
<1>1. ASSUME NEW a \in Positions, NEW b \in Positions, a < b,
             Encloses(a, p), Encloses(b, p), Level[a] = Level[b]
      PROVE  FALSE
  <2>1. b - 1 \in a..(p - 1) /\ Level[b] = Level[b - 1] + 1
    BY <1>1 DEF Leveled, Encloses
  <2>2. Level[b - 1] >= Level[a] /\ Level[b - 1] \in Nat
    BY <1>1, <2>1 DEF Leveled, Encloses
  <2>. QED BY <1>1, <2>1, <2>2
<1>. QED BY <1>1 DEF Leveled

\* What encloses an enclosing directive is what is further out.
LEMMA OuterEnclosers ==
  ASSUME Leveled, NEW o \in Positions, NEW p \in 1..Now, Encloses(o, p),
         NEW q \in Positions
  PROVE  /\ Encloses(q, o) <=> Encloses(q, p) /\ Level[q] < Level[o]
         /\ Encloses(q, o) => (Selected(q, o) <=> Selected(q, p))
<1>1. /\ o < p /\ Op(o) = "if" /\ \A r \in o..(p - 1) : Level[r] >= Level[o]
      /\ Level[o] = Level[o - 1] + 1
      /\ o \in Nat \ {0} /\ q \in Nat \ {0} /\ p \in Nat
      /\ \A r \in 0..(p - 1) : Level[r] \in Nat
  BY DEF Leveled, Encloses
<1>2. ASSUME Encloses(q, o)
      PROVE  Encloses(q, p) /\ Level[q] < Level[o]
  <2>1. Level[q] <= Level[o - 1] /\ q < o /\ Op(q) = "if"
    BY <1>1, <1>2 DEF Encloses
  <2>2. Level[q] < Level[o]
    BY <1>1, <2>1
  <2>3. \A r \in q..(p - 1) : Level[r] >= Level[q]
    BY <1>1, <1>2, <2>1, <2>2 DEF Encloses
  <2>. QED BY <1>1, <2>1, <2>2, <2>3 DEF Encloses
<1>3. ASSUME Encloses(q, p), Level[q] < Level[o]
      PROVE  Encloses(q, o)
  <2>1. q < o
    <3>1. SUFFICES ASSUME q > o PROVE FALSE
      BY <1>1, <1>3
    <3>2. q - 1 \in o..(p - 1) /\ Level[q] = Level[q - 1] + 1
      BY <1>1, <1>3, <3>1 DEF Encloses, Leveled
    <3>. QED BY <1>1, <1>3, <3>2
  <2>. QED BY <2>1, <1>1, <1>3 DEF Encloses
<1>4. ASSUME Encloses(q, o)
      PROVE  Selected(q, o) <=> Selected(q, p)
  <2>1. \A r \in o..(p - 1) : ~BranchOf(q, r)
    BY <1>1, <1>2, <1>4 DEF BranchOf
  <2>2. BranchesBefore(q, o) = BranchesBefore(q, p)
    BY <2>1, <1>1, <1>2, <1>4 DEF BranchesBefore, Encloses
  <2>. QED BY <2>2 DEF Selected
<1>. QED BY <1>2, <1>3, <1>4

(***************************************************************************)
(* An item that is read leaves what was said of the items before it.       *)
(***************************************************************************)
Grows(item) ==
  /\ Leveled /\ Leveled'
  /\ Now' = Now + 1
  /\ \A p \in Positions : text'[p] = text[p] /\ Op(p)' = Op(p)
  /\ \A p \in 0..(Now - 1) : Level'[p] = Level[p]
  /\ text'[Now].item = item /\ text'[Now].settings = settings
  /\ \A p \in {Now} : Op(p)' = item.op
  /\ item.op = "if" => Level'[Now] = Level[Now - 1] + 1
  /\ item.op = "endif" /\ Level[Now - 1] > 0 => Level'[Now] = Level[Now - 1] - 1
  /\ item.op # "if" /\ ~(item.op = "endif" /\ Level[Now - 1] > 0)
       => Level'[Now] = Level[Now - 1]

LEMMA ReadGrows ==
  ASSUME TypeOK, TypeOK', LevelsInv, NEW item, Read(item)
  PROVE  LevelsInv' /\ Grows(item)
<1>1. LevelsInv'
  BY LevelsRead
<1>2. Leveled'
  <2>1. TypeOK' /\ LevelsInv' => Leveled'
    BY LevelsRise, PTL
  <2>. QED BY <1>1, <2>1
<1>3. Now - 1 = Len(text)
  BY DEF Now, TypeOK
<1>. QED BY <1>1, <1>2, <1>3, LevelsRise, LevelsRead, ReadFacts, OpsStay DEF Grows

LEMMA EnclosesStays ==
  ASSUME NEW item, Grows(item), NEW o \in Positions, NEW p \in 1..Now
  PROVE  /\ Encloses(o, p)' <=> Encloses(o, p)
         /\ p \in Positions => (BranchOf(o, p)' <=> BranchOf(o, p))
<1>1. ASSUME NEW a \in Positions, NEW b \in 1..Now
      PROVE  Encloses(a, b)' <=> Encloses(a, b)
  <2>1. /\ Op(a)' = Op(a) /\ Level'[a] = Level[a]
        /\ \A q \in a..(b - 1) : q \in 0..(Now - 1)
    BY DEF Grows, Leveled
  <2>2. \A q \in a..(b - 1) : Level'[q] = Level[q]
    BY <2>1 DEF Grows
  <2>. QED BY <2>1, <2>2 DEF Encloses
<1>2. ASSUME p \in Positions
      PROVE  BranchOf(o, p)' <=> BranchOf(o, p)
  <2>1. /\ \A r \in (o + 1)..(p - 1) : r \in Positions /\ r \in 1..Now
        /\ p \in 0..(Now - 1) /\ o \in 0..(Now - 1)
    BY <1>2 DEF Grows, Leveled
  <2>2. \A r \in (o + 1)..(p - 1) :
          /\ Op(r)' = Op(r) /\ Level'[r] = Level[r]
          /\ Encloses(o, r)' <=> Encloses(o, r)
    BY <2>1, <1>1 DEF Grows, Leveled
  <2>3. Op(p)' = Op(p) /\ Level'[p] = Level[p] /\ Level'[o] = Level[o]
    BY <1>2, <2>1 DEF Grows
  <2>. QED BY <1>1, <2>2, <2>3 DEF BranchOf
<1>. QED BY <1>1, <1>2

LEMMA SelectedStays ==
  ASSUME NEW item, Grows(item), NEW o \in Positions, NEW p \in 1..Now, o < p
  PROVE  /\ BranchesBefore(o, p)' = BranchesBefore(o, p)
         /\ \A b \in BranchesBefore(o, p) : TrueAt(b)' <=> TrueAt(b)
         /\ Selected(o, p)' <=> Selected(o, p)
<1>1. \A q \in (o + 1)..(p - 1) : q \in Positions /\ q \in 1..Now
  BY DEF Grows, Leveled
<1>2. \A q \in (o + 1)..(p - 1) : BranchOf(o, q)' <=> BranchOf(o, q)
  BY <1>1, EnclosesStays
<1>3. /\ BranchesBefore(o, p)' = BranchesBefore(o, p)
      /\ BranchesBefore(o, p) \subseteq Positions
  BY <1>1, <1>2 DEF BranchesBefore
<1>4. \A b \in Positions : TrueAt(b)' <=> TrueAt(b)
  BY DEF TrueAt, Grows
<1>. QED BY <1>3, <1>4 DEF Selected

LEMMA AcceptedStays ==
  ASSUME NEW item, Grows(item), NEW p \in 1..Now
  PROVE  Accepted(p)' <=> Accepted(p)
<1>1. Positions' = Positions \cup {Now} /\ \A b \in {Now} : ~Encloses(b, p)'
  BY DEF Grows, Leveled, Encloses
<1>2. \A o \in Positions : /\ Encloses(o, p)' <=> Encloses(o, p)
                           /\ Encloses(o, p) => o < p
  BY EnclosesStays DEF Encloses
<1>3. \A o \in Positions : Encloses(o, p) => (Selected(o, p)' <=> Selected(o, p))
  BY <1>2, SelectedStays
<1>. QED BY <1>1, <1>2, <1>3 DEF Accepted

LEMMA FaultyStays ==
  ASSUME NEW item, Grows(item), NEW p \in Positions
  PROVE  Faulty(p)' <=> Faulty(p)
<1>1. /\ p \in 1..Now /\ Op(p)' = Op(p) /\ text'[p] = text[p]
      /\ Level'[p - 1] = Level[p - 1]
      /\ Positions' = Positions \cup {Now}
      /\ \A b \in {Now} : ~BranchOf(b, p)'
  BY DEF Grows, Leveled, BranchOf, Encloses
<1>2. \A o \in Positions : /\ BranchOf(o, p)' <=> BranchOf(o, p)
                           /\ BranchOf(o, p) => o < p
  BY <1>1, EnclosesStays DEF BranchOf, Encloses
<1>3. Belongs(p)' <=> Belongs(p)
  BY <1>1, <1>2 DEF Belongs
<1>4. Accepted(p)' <=> Accepted(p)
  BY <1>1, AcceptedStays
<1>5. ASSUME NEW o \in Positions, BranchOf(o, p)
      PROVE  /\ Accepted(o)' <=> Accepted(o)
             /\ (\A b \in BranchesBefore(o, p) : ~TrueAt(b))' <=>
                   \A b \in BranchesBefore(o, p) : ~TrueAt(b)
  <2>1. o \in 1..Now /\ o < p
    BY <1>2, <1>5 DEF Grows, Leveled
  <2>2. Accepted(o)' <=> Accepted(o)
    BY <2>1, AcceptedStays
  <2>3. /\ BranchesBefore(o, p)' = BranchesBefore(o, p)
        /\ \A b \in BranchesBefore(o, p) : TrueAt(b)' <=> TrueAt(b)
    BY <1>1, <2>1, SelectedStays
  <2>. QED BY <2>2, <2>3
<1>6. Asked(p)' <=> Asked(p)
  BY <1>1, <1>2, <1>4, <1>5 DEF Asked
<1>. QED BY <1>1, <1>3, <1>4, <1>6 DEF Faulty

\* The item read adds itself to what encloses, and to what is a branch.
LEMMA EnclosesGrows ==
  ASSUME NEW item, Grows(item), NEW m, m = Now, NEW n, n = Now + 1
  PROVE  /\ \A o \in Positions :
              Encloses(o, n)' <=> Encloses(o, m) /\ Level'[m] >= Level[o]
         /\ Encloses(m, n)' <=> item.op = "if"
<1>0. m \in 1..m /\ m \in Nat /\ n = m + 1 /\ m \in 1..Now
  BY DEF Grows, Leveled
<1>1. \A o \in Positions : Encloses(o, m)' <=> Encloses(o, m)
  BY <1>0, EnclosesStays
<1>2. ASSUME NEW o \in Positions
      PROVE  Encloses(o, n)' <=> Encloses(o, m)' /\ Level'[m] >= Level'[o]
  BY <1>0, <1>2 DEF Grows, Leveled, Encloses
<1>3. Encloses(m, n)' <=> item.op = "if"
  BY <1>0 DEF Grows, Leveled, Encloses
<1>4. \A o \in Positions : Level'[o] = Level[o]
  BY DEF Grows, Leveled
<1>. QED BY <1>1, <1>2, <1>3, <1>4

LEMMA BranchesGrow ==
  ASSUME NEW item, Grows(item), NEW m, m = Now, NEW n, n = Now + 1,
         NEW o \in Positions
  PROVE  /\ BranchOf(o, m)' => item.op \in {"elseif", "else"}
         /\ ~BranchOf(o, m)' =>
               /\ BranchesBefore(o, n)' = BranchesBefore(o, m)
               /\ Selected(o, n)' <=> Selected(o, m)
         /\ BranchOf(o, m)' =>
               /\ BranchesBefore(o, n)' = BranchesBefore(o, m) \cup {m}
               /\ Selected(o, n)' <=>
                     TrueAt(m)' /\ \A b \in BranchesBefore(o, m) : ~TrueAt(b)
         /\ \A b \in BranchesBefore(o, m) : TrueAt(b)' <=> TrueAt(b)
<1>0. /\ m \in 1..m /\ m \in Nat /\ n = m + 1 /\ o < m /\ o \in Nat
      /\ BranchesBefore(o, m) \subseteq 1..(m - 1)
      /\ Op(m)' = item.op
  BY DEF Grows, Leveled, BranchesBefore
<1>1. /\ BranchesBefore(o, m)' = BranchesBefore(o, m)
      /\ \A b \in BranchesBefore(o, m) : TrueAt(b)' <=> TrueAt(b)
      /\ Selected(o, m)' <=> Selected(o, m)
  BY <1>0, SelectedStays
<1>2. BranchesBefore(o, n)' = IF BranchOf(o, m)' THEN BranchesBefore(o, m)' \cup {m}
                              ELSE BranchesBefore(o, m)'
  BY <1>0 DEF BranchesBefore
<1>3. ASSUME ~BranchOf(o, m)' PROVE Selected(o, n)' <=> Selected(o, m)
  <2>1. Selected(o, n)' <=> Selected(o, m)'
    BY <1>2, <1>3 DEF Selected
  <2>. QED BY <1>1, <2>1
<1>4. ASSUME BranchOf(o, m)'
      PROVE  Selected(o, n)' <=>
               TrueAt(m)' /\ \A b \in BranchesBefore(o, m) : ~TrueAt(b)
  <2>1. PICK B : B = BranchesBefore(o, m)
    OBVIOUS
  <2>2. BranchesBefore(o, n)' = B \cup {m} /\ m \notin B /\ B \subseteq 1..(m - 1)
    BY <1>0, <1>1, <1>2, <1>4, <2>1
  <2>3. Selected(o, n)' <=>
          \E b \in B \cup {m} : /\ TrueAt(b)'
                                /\ \A c \in B \cup {m} : c <= b /\ (TrueAt(c)' => c = b)
    BY <2>2 DEF Selected
  <2>4. Selected(o, n)' <=> TrueAt(m)' /\ \A c \in B : ~TrueAt(c)'
    BY <1>0, <2>2, <2>3
  <2>. QED BY <1>1, <2>1, <2>4
<1>5. BranchOf(o, m)' => item.op \in {"elseif", "else"}
  BY <1>0 DEF BranchOf
<1>. QED BY <1>1, <1>2, <1>3, <1>4, <1>5

-----------------------------------------------------------------------------
(***************************************************************************)
(* The stack holds one frame for each directive that encloses the next     *)
(* item, and a frame accepts when its directive and all further out have   *)
(* selected the branch that is being read.                                 *)
(***************************************************************************)
\* What is known of the directive o that opened frame i.
SelectedUpTo(i) == \A o \in Positions :
  Encloses(o, Now) /\ Level[o] <= i => Selected(o, Now)
SomeTrue(o) == \E b \in BranchesBefore(o, Now) : TrueAt(b)
HasElse(o) == \E r \in (o + 1)..(Now - 1) :
  Op(r) = "else" /\ Encloses(o, r) /\ Level[r] = Level[o]
FrameAgrees(i, o) ==
  /\ Encloses(o, Now) /\ Level[o] = i
  /\ ifdef_stack[i].accepting <=> SelectedUpTo(i)
  /\ SelectedUpTo(i - 1) => (ifdef_stack[i].any_taken <=> SomeTrue(o))
  /\ ifdef_stack[i].in_else <=> HasElse(o)
StackAgrees ==
  /\ Depth = Level[Now - 1]
  /\ \A i \in 1..Depth : \E o \in Positions : FrameAgrees(i, o)

\* What the lexer asks its stack, the text answers.
LEMMA AcceptingAgrees ==
  ASSUME StackInv, Leveled, StackAgrees
  PROVE  /\ accepting <=> Accepted(Now)
         /\ accepting <=> SelectedUpTo(Depth)
         /\ Depth # 0 => (ParentAccepts <=> SelectedUpTo(Depth - 1))
<1>1. Depth \in Nat /\ Now \in 1..Now
  BY DEF StackAgrees, Leveled, StackInv, Nested, Depth
<1>2. \A o \in Positions : Encloses(o, Now) => Level[o] \in 1..Depth
  BY <1>1, EncloserLevels DEF StackAgrees
<1>3. SelectedUpTo(Depth) <=> Accepted(Now)
  BY <1>1, <1>2 DEF SelectedUpTo, Accepted
<1>4. SelectedUpTo(0)
  BY <1>1, <1>2 DEF SelectedUpTo
<1>5. accepting <=> SelectedUpTo(Depth)
  <2>1. CASE Depth = 0
    BY <1>4, <2>1 DEF accepting, Depth
  <2>2. CASE Depth # 0
    <3>1. accepting <=> ifdef_stack[Depth].accepting
      BY <1>1, <2>2 DEF accepting, StackInv, Nested, Depth
    <3>. QED BY <1>1, <2>2, <3>1 DEF StackAgrees, FrameAgrees
  <2>. QED BY <2>1, <2>2
<1>6. ASSUME Depth # 0 PROVE ParentAccepts <=> SelectedUpTo(Depth - 1)
  <2>1. CASE Depth = 1
    BY <1>4, <2>1 DEF ParentAccepts
  <2>2. CASE Depth # 1
    <3>1. Depth - 1 \in 1..Depth
      BY <1>1, <1>6, <2>2
    <3>2. ParentAccepts <=> ifdef_stack[Depth - 1].accepting
      BY <1>1, <3>1 DEF ParentAccepts, StackInv, Nested, Depth
    <3>. QED BY <3>1, <3>2 DEF StackAgrees, FrameAgrees
  <2>. QED BY <2>1, <2>2
<1>. QED BY <1>3, <1>5, <1>6

LEMMA SelectedUpToGrows ==
  ASSUME NEW item, Grows(item), NEW m, m = Now, NEW i \in Nat, Level'[m] >= i,
         item.op = "if" => Level'[m] > i,
         \A q \in Positions : Encloses(q, m) /\ Level[q] <= i => ~BranchOf(q, m)'
  PROVE  SelectedUpTo(i)' <=> SelectedUpTo(i)
<1>0. PICK n : n = Now + 1
  OBVIOUS
<1>1. /\ Now' = n /\ Positions' = Positions \cup {m} /\ m \in Nat
      /\ \A q \in Positions : Level'[q] = Level[q] /\ Level[q] \in Nat
      /\ Level'[m] \in Nat
  BY <1>0 DEF Grows, Leveled
<1>2. \A q \in Positions : Encloses(q, n)' <=> Encloses(q, m) /\ Level'[m] >= Level[q]
  BY <1>0, EnclosesGrows
<1>3. Encloses(m, n)' <=> item.op = "if"
  BY <1>0, EnclosesGrows
<1>4. \A q \in Positions : ~BranchOf(q, m)' => (Selected(q, n)' <=> Selected(q, m))
  BY <1>0, BranchesGrow
<1>5. SelectedUpTo(i)' <=>
        \A q \in Positions \cup {m} : Encloses(q, n)' /\ Level'[q] <= i => Selected(q, n)'
  BY <1>1 DEF SelectedUpTo
<1>6. Encloses(m, n)' => ~(Level'[m] <= i)
  BY <1>1, <1>3
<1>7. ASSUME NEW q \in Positions, Level[q] <= i
      PROVE  Encloses(q, n)' <=> Encloses(q, m)
  BY <1>1, <1>2, <1>7
<1>. QED BY <1>1, <1>4, <1>5, <1>6, <1>7 DEF SelectedUpTo

LEMMA HasElseGrows ==
  ASSUME NEW item, Grows(item), NEW m, m = Now, NEW o \in Positions
  PROVE  HasElse(o)' <=>
           HasElse(o) \/ (item.op = "else" /\ Encloses(o, m) /\ Level'[m] = Level[o])
<1>1. /\ Now' = m + 1 /\ m \in Nat /\ m \in 1..Now /\ o \in 1..(m - 1)
      /\ \A q \in Positions : Level'[q] = Level[q] /\ Op(q)' = Op(q)
      /\ Op(m)' = item.op /\ Positions = 1..(m - 1)
  <2>1. Positions = 1..(m - 1) /\ m \in Nat /\ m > 0
    BY DEF Grows, Leveled
  <2>2. \A q \in Positions : q \in 0..(Now - 1)
    BY <2>1
  <2>3. Now' = m + 1 /\ Op(m)' = item.op
    BY DEF Grows
  <2>4. \A q \in Positions : Level'[q] = Level[q] /\ Op(q)' = Op(q)
    BY <2>2 DEF Grows
  <2>. QED BY <2>1, <2>3, <2>4
<1>2. \A r \in 1..m : Encloses(o, r)' <=> Encloses(o, r)
  BY <1>1, EnclosesStays
<1>3. HasElse(o)' <=> \E r \in (o + 1)..m :
        Op(r)' = "else" /\ Encloses(o, r)' /\ Level'[r] = Level'[o]
  BY <1>1 DEF HasElse
<1>4. HasElse(o) <=> \E r \in (o + 1)..(m - 1) :
        Op(r) = "else" /\ Encloses(o, r) /\ Level[r] = Level[o]
  BY DEF HasElse
<1>5. \A r \in (o + 1)..m : r = m \/ r \in (o + 1)..(m - 1)
  BY <1>1
<1>6. \A r \in (o + 1)..(m - 1) : r \in Positions /\ r \in 1..m /\ r \in (o + 1)..m
  BY <1>1
<1>7. o \in Positions /\ m \in (o + 1)..m /\ m \in 1..m
  BY <1>1
<1>8. \A r \in (o + 1)..(m - 1) :
        (Op(r)' = "else" /\ Encloses(o, r)' /\ Level'[r] = Level'[o]) <=>
          (Op(r) = "else" /\ Encloses(o, r) /\ Level[r] = Level[o])
  BY <1>1, <1>2, <1>6
<1>9. (Op(m)' = "else" /\ Encloses(o, m)' /\ Level'[m] = Level'[o]) <=>
        (item.op = "else" /\ Encloses(o, m) /\ Level'[m] = Level[o])
  BY <1>1, <1>2, <1>7
<1>a. ASSUME HasElse(o)' PROVE HasElse(o) \/ (item.op = "else" /\ Encloses(o, m) /\ Level'[m] = Level[o])
  <2>1. PICK r \in (o + 1)..m : Op(r)' = "else" /\ Encloses(o, r)' /\ Level'[r] = Level'[o]
    BY <1>a, <1>3
  <2>2. CASE r = m
    BY <2>1, <2>2, <1>9
  <2>3. CASE r \in (o + 1)..(m - 1)
    BY <2>1, <2>3, <1>4, <1>8
  <2>. QED BY <2>2, <2>3, <1>5
<1>b. ASSUME HasElse(o) PROVE HasElse(o)'
  <2>1. PICK r \in (o + 1)..(m - 1) : Op(r) = "else" /\ Encloses(o, r) /\ Level[r] = Level[o]
    BY <1>b, <1>4
  <2>2. r \in (o + 1)..m
    BY <1>6
  <2>. QED BY <2>1, <2>2, <1>3, <1>8
<1>c. ASSUME item.op = "else", Encloses(o, m), Level'[m] = Level[o] PROVE HasElse(o)'
  BY <1>c, <1>3, <1>7, <1>9
<1>. QED BY <1>a, <1>b, <1>c

\* A frame that no branch was read for.
LEMMA FrameStays ==
  ASSUME NEW item, Grows(item), NEW m, m = Now, NEW i \in Nat \ {0}, NEW o \in Positions,
         FrameAgrees(i, o), ifdef_stack'[i] = ifdef_stack[i], Level'[m] >= i,
         item.op = "if" => Level'[m] > i,
         \A q \in Positions : Encloses(q, m) /\ Level[q] <= i => ~BranchOf(q, m)',
         item.op = "else" /\ Level'[m] = i => HasElse(o)
  PROVE  FrameAgrees(i, o)'
<1>0. PICK n : n = Now + 1
  OBVIOUS
<1>1. /\ Now' = n /\ Level'[o] = Level[o] /\ Level[o] = i /\ Level'[m] \in Nat
      /\ Encloses(o, m)
  BY <1>0 DEF Grows, Leveled, FrameAgrees
<1>2. Encloses(o, n)'
  BY <1>0, <1>1, EnclosesGrows
<1>3. SelectedUpTo(i)' <=> SelectedUpTo(i)
  BY SelectedUpToGrows
<1>4. SelectedUpTo(i - 1)' <=> SelectedUpTo(i - 1)
  <2>1. /\ i - 1 \in Nat /\ Level'[m] >= i - 1
        /\ item.op = "if" => Level'[m] > i - 1
        /\ \A q \in Positions : Encloses(q, m) /\ Level[q] <= i - 1 => ~BranchOf(q, m)'
    BY <1>1 DEF Grows, Leveled
  <2>. QED BY <2>1, SelectedUpToGrows
<1>5. SomeTrue(o)' <=> SomeTrue(o)
  <2>1. ~BranchOf(o, m)'
    BY <1>1
  <2>2. /\ BranchesBefore(o, n)' = BranchesBefore(o, m)
        /\ \A b \in BranchesBefore(o, m) : TrueAt(b)' <=> TrueAt(b)
    BY <1>0, <2>1, BranchesGrow
  <2>. QED BY <2>2, <1>1 DEF SomeTrue
<1>6. HasElse(o)' <=> HasElse(o)
  <2>1. HasElse(o)' <=>
          HasElse(o) \/ (item.op = "else" /\ Encloses(o, m) /\ Level'[m] = Level[o])
    BY HasElseGrows
  <2>2. item.op = "else" /\ Level'[m] = Level[o] => HasElse(o)
    BY <1>1
  <2>. QED BY <2>1, <2>2
<1>. QED BY <1>1, <1>2, <1>3, <1>4, <1>5, <1>6 DEF FrameAgrees

\* Steps that leave the stack as it is.
LEMMA StackUnmoved ==
  ASSUME NEW item, Grows(item), NEW m, m = Now, StackInv, StackAgrees,
         UNCHANGED ifdef_stack,
         item.op # "if", item.op = "endif" => Depth = 0,
         \A q \in Positions : ~BranchOf(q, m)',
         item.op = "else" /\ Depth # 0 => Top.in_else
  PROVE  StackAgrees'
<1>1. /\ Depth \in Nat /\ Depth' = Depth /\ Depth = Level[m - 1]
      /\ Now' - 1 = m /\ Level'[m] = Depth
  BY DEF StackAgrees, Grows, Leveled, StackInv, Nested, Depth
<1>2. ASSUME NEW i \in 1..Depth
      PROVE  \E o \in Positions : FrameAgrees(i, o)'
  <2>1. PICK o \in Positions : FrameAgrees(i, o)
    BY DEF StackAgrees
  <2>2. i \in Nat \ {0} /\ Level'[m] >= i
    BY <1>1
  <2>3. item.op = "else" /\ Level'[m] = i => HasElse(o)
    BY <2>1, <2>2, <1>1 DEF FrameAgrees, Top
  <2>4. FrameAgrees(i, o)'
    BY <2>1, <2>2, <2>3, FrameStays
  <2>. QED BY <2>4
<1>3. Positions \subseteq Positions'
  BY DEF Grows, Leveled
<1>. QED BY <1>1, <1>2, <1>3 DEF StackAgrees

LEMMA StackPushed ==
  ASSUME NEW item, Grows(item), StackInv, StackAgrees, item.op = "if",
         ifdef_stack' = Append(ifdef_stack, [accepting |-> BranchTaken(item.cond),
                                             any_taken |-> BranchTaken(item.cond),
                                             in_else |-> FALSE])
  PROVE  StackAgrees'
<1>0. PICK m, n : m = Now /\ n = Now + 1
  OBVIOUS
<1>a. PICK f : f = [accepting |-> BranchTaken(item.cond),
                    any_taken |-> BranchTaken(item.cond),
                    in_else |-> FALSE]
  OBVIOUS
<1>1. /\ Depth \in Nat /\ Depth = Level[m - 1]
      /\ Now' = n /\ Now' - 1 = m /\ Level'[m] = Depth + 1 /\ m \in Nat \ {0}
      /\ Positions' = Positions \cup {m} /\ m \notin Positions
      /\ Positions = 1..(m - 1) /\ n = m + 1
  BY <1>0 DEF StackAgrees, Grows, Leveled, StackInv, Nested, Depth
<1>2. /\ Depth' = Depth + 1
      /\ \A i \in 1..Depth : ifdef_stack'[i] = ifdef_stack[i]
      /\ ifdef_stack'[Depth + 1] = f
  <2>1. f \in Frame
    BY <1>a DEF Frame, BranchTaken, accepting
  <2>2. ifdef_stack \in Seq(Frame) /\ ifdef_stack' = Append(ifdef_stack, f)
    BY <1>a DEF StackInv, Nested
  <2>. QED BY <2>1, <2>2 DEF Depth
<1>3. \A q \in Positions : ~BranchOf(q, m)'
  BY <1>0, BranchesGrow
<1>4. ASSUME NEW i \in 1..Depth
      PROVE  \E o \in Positions : FrameAgrees(i, o)'
  <2>1. PICK o \in Positions : FrameAgrees(i, o)
    BY DEF StackAgrees
  <2>2. i \in Nat \ {0} /\ Level'[m] >= i /\ Level'[m] > i
    BY <1>1
  <2>4. FrameAgrees(i, o)'
    BY <2>1, <2>2, <1>0, <1>2, <1>3, FrameStays
  <2>. QED BY <2>4
<1>5. PICK i : i = Depth + 1
  OBVIOUS
<1>6. FrameAgrees(i, m)'
  <2>1. Encloses(m, n)' /\ Level'[m] = i
    BY <1>0, <1>1, <1>5, EnclosesGrows
  <2>2. SelectedUpTo(i - 1)' <=> accepting
    <3>1. i - 1 \in Nat /\ i - 1 = Depth /\ Level'[m] >= i - 1 /\ Level'[m] > i - 1
      BY <1>1, <1>5
    <3>2. SelectedUpTo(i - 1)' <=> SelectedUpTo(i - 1)
      BY <3>1, <1>0, <1>3, SelectedUpToGrows
    <3>3. accepting <=> SelectedUpTo(i - 1)
      BY <3>1, AcceptingAgrees DEF Grows
    <3>. QED BY <3>2, <3>3
  <2>3. BranchesBefore(m, n)' = {m}
    BY <1>1 DEF BranchesBefore
  <2>4. TrueAt(m)' <=> Holds(item.cond, settings)
    BY <1>0 DEF TrueAt, Grows
  <2>5. Selected(m, n)' <=> Holds(item.cond, settings)
    BY <2>3, <2>4, <1>1 DEF Selected
  <2>6. SomeTrue(m)' <=> Holds(item.cond, settings)
    BY <2>3, <2>4, <1>1 DEF SomeTrue
  <2>7. SelectedUpTo(i)' <=> SelectedUpTo(i - 1)' /\ Selected(m, n)'
    <3>1. \A q \in Positions : Level'[q] \in Nat /\ (Encloses(q, n)' => Level'[q] <= i - 1)
      <4>1. ASSUME NEW q \in Positions, Encloses(q, n)'
            PROVE  Level'[q] <= i - 1
        <5>0. Encloses(q, n)' <=> Encloses(q, m) /\ Level'[m] >= Level[q]
          BY <1>0, EnclosesGrows
        <5>1. Encloses(q, m) /\ m \in 1..Now /\ Level'[q] = Level[q]
          BY <4>1, <5>0, <1>0, <1>1 DEF Grows
        <5>2. Level[q] \in 1..Level[m - 1]
          BY <5>1, <1>0, EncloserLevels DEF Grows
        <5>. QED BY <5>1, <5>2, <1>1, <1>5
      <4>. QED BY <4>1 DEF Grows, Leveled
    <3>2. SelectedUpTo(i)' <=> \A q \in Positions \cup {m} :
            Encloses(q, n)' /\ Level'[q] <= i => Selected(q, n)'
      BY <1>1 DEF SelectedUpTo
    <3>3. SelectedUpTo(i - 1)' <=> \A q \in Positions \cup {m} :
            Encloses(q, n)' /\ Level'[q] <= i - 1 => Selected(q, n)'
      BY <1>1 DEF SelectedUpTo
    <3>4. i \in Nat /\ \A q \in Positions : Level'[q] <= i - 1 => Level'[q] <= i
      BY <3>1, <1>1, <1>5
    <3>5. ~(Level'[m] <= i - 1) /\ Level'[m] <= i
      BY <2>1, <3>4
    <3>. QED BY <3>1, <3>2, <3>3, <3>4, <3>5, <2>1
  <2>8. ~HasElse(m)'
    BY <1>1 DEF HasElse
  <2>9. /\ f.accepting <=> accepting /\ Holds(item.cond, settings)
        /\ f.any_taken <=> accepting /\ Holds(item.cond, settings)
        /\ ~f.in_else
    BY <1>a DEF BranchTaken
  <2>. QED BY <1>1, <1>2, <1>5, <2>1, <2>2, <2>5, <2>6, <2>7, <2>8, <2>9 DEF FrameAgrees
<1>7. \A j \in 1..Depth' : j \in 1..Depth \/ j = i
  BY <1>1, <1>2, <1>5
<1>8. \A j \in 1..Depth' : \E o \in Positions' : FrameAgrees(j, o)'
  BY <1>1, <1>4, <1>6, <1>7
<1>. QED BY <1>1, <1>2, <1>8 DEF StackAgrees

LEMMA StackPopped ==
  ASSUME NEW item, Grows(item), StackInv, StackAgrees, item.op = "endif", Depth # 0,
         ifdef_stack' = SubSeq(ifdef_stack, 1, Depth - 1)
  PROVE  StackAgrees'
<1>0. PICK m : m = Now
  OBVIOUS
<1>1. /\ ifdef_stack \in Seq(Frame) /\ ifdef_stack # << >> /\ Depth \in Nat
      /\ Depth = Len(ifdef_stack)
  BY DEF StackInv, Nested, Depth
<1>2. Depth' = Depth - 1 /\ \A i \in 1..Depth' : ifdef_stack'[i] = ifdef_stack[i]
  BY <1>1, WithoutLast DEF Depth
<1>3. /\ Depth = Level[m - 1] /\ Now' - 1 = m /\ Level'[m] = Depth - 1
      /\ Positions \subseteq Positions'
  BY <1>0, <1>1 DEF StackAgrees, Grows, Leveled
<1>4. \A q \in Positions : ~BranchOf(q, m)'
  BY <1>0, BranchesGrow
<1>5. ASSUME NEW i \in 1..Depth'
      PROVE  \E o \in Positions : FrameAgrees(i, o)'
  <2>1. i \in 1..Depth /\ i \in Nat \ {0} /\ Level'[m] >= i
    BY <1>1, <1>2, <1>3
  <2>2. PICK o \in Positions : FrameAgrees(i, o)
    BY <2>1 DEF StackAgrees
  <2>3. FrameAgrees(i, o)'
    BY <2>1, <2>2, <1>0, <1>2, <1>4, FrameStays
  <2>. QED BY <2>3
<1>. QED BY <1>2, <1>3, <1>5 DEF StackAgrees

\* The frame that a branch is read for is the top one.
LEMMA BranchIsTop ==
  ASSUME NEW item, Grows(item), NEW m, m = Now, StackInv, StackAgrees,
         item.op \in {"elseif", "else"}, NEW q \in Positions
  PROVE  BranchOf(q, m)' <=>
           /\ Depth # 0 /\ ~Top.in_else
           /\ Encloses(q, m) /\ Level[q] = Depth
<1>1. /\ m \in 1..Now /\ Op(m)' = item.op /\ Level'[m] = Depth /\ Level[m - 1] = Depth
      /\ Depth \in Nat /\ Level'[q] = Level[q] /\ q \in 1..(m - 1) /\ Positions = 1..(m - 1)
      /\ \A p \in Positions : Level'[p] = Level[p] /\ Op(p)' = Op(p)
      /\ m \in Nat
  BY DEF StackAgrees, StackInv, Nested, Depth, Grows, Leveled
<1>2. \A p \in 1..m : Encloses(q, p)' <=> Encloses(q, p)
  BY <1>1, EnclosesStays
<1>3. BranchOf(q, m)' <=> Encloses(q, m) /\ Level[q] = Depth /\ ~HasElse(q)
  <2>1. m \in 1..m /\ \A r \in (q + 1)..(m - 1) : r \in Positions /\ r \in 1..m
    BY <1>1
  <2>2. BranchOf(q, m)' <=>
          /\ Op(m)' \in {"elseif", "else"}
          /\ Encloses(q, m)' /\ Level'[m] = Level'[q]
          /\ ~\E r \in (q + 1)..(m - 1) :
                Op(r)' = "else" /\ Encloses(q, r)' /\ Level'[r] = Level'[q]
    BY DEF BranchOf
  <2>3. HasElse(q) <=> \E r \in (q + 1)..(m - 1) :
                Op(r) = "else" /\ Encloses(q, r) /\ Level[r] = Level[q]
    BY DEF HasElse
  <2>4. \A r \in (q + 1)..(m - 1) :
          (Op(r)' = "else" /\ Encloses(q, r)' /\ Level'[r] = Level'[q]) <=>
          (Op(r) = "else" /\ Encloses(q, r) /\ Level[r] = Level[q])
    BY <2>1, <1>1, <1>2
  <2>5. (\E r \in (q + 1)..(m - 1) :
          Op(r)' = "else" /\ Encloses(q, r)' /\ Level'[r] = Level'[q]) <=> HasElse(q)
    BY <2>3, <2>4
  <2>6. Encloses(q, m)' <=> Encloses(q, m)
    BY <2>1, <1>2
  <2>. QED BY <2>2, <2>5, <2>6, <1>1
<1>4. ASSUME Encloses(q, m), Level[q] = Depth
      PROVE  Depth # 0 /\ (Top.in_else <=> HasElse(q))
  <2>1. Level[q] \in 1..Level[m - 1]
    BY <1>1, <1>4, EncloserLevels DEF Grows
  <2>2. Depth # 0 /\ Depth \in 1..Depth
    BY <2>1, <1>1, <1>4
  <2>3. PICK o \in Positions : FrameAgrees(Depth, o)
    BY <2>2 DEF StackAgrees
  <2>4. o = q
    BY <2>3, <1>1, <1>4, EnclosersDiffer DEF FrameAgrees, Grows
  <2>. QED BY <2>2, <2>3, <2>4 DEF FrameAgrees, Top
<1>. QED BY <1>3, <1>4

\* Items for which the stack stays as it is.
LEMMA StackKept ==
  ASSUME NEW item, Grows(item), StackInv, StackAgrees, UNCHANGED ifdef_stack,
         item.op # "if", item.op = "endif" => Depth = 0,
         item.op \in {"elseif", "else"} => Depth = 0 \/ Top.in_else
  PROVE  StackAgrees'
<1>1. PICK m : m = Now
  OBVIOUS
<1>2. \A q \in Positions : ~BranchOf(q, m)'
  <2>1. CASE item.op \in {"elseif", "else"}
    BY <1>1, <2>1, BranchIsTop
  <2>2. CASE item.op \notin {"elseif", "else"}
    BY <1>1, <2>2, BranchesGrow
  <2>. QED BY <2>1, <2>2
<1>. QED BY <1>1, <1>2, StackUnmoved

LEMMA StackBranched ==
  ASSUME NEW item, Grows(item), StackInv, StackAgrees, item.op \in {"elseif", "else"},
         Depth # 0, ~Top.in_else,
         NEW taken \in BOOLEAN, NEW is_else \in BOOLEAN, EnterBranch(taken, is_else),
         is_else <=> item.op = "else",
         taken <=> Evaluated /\ (item.op = "else" \/ Holds(item.cond, settings))
  PROVE  StackAgrees'
<1>0. PICK m, n, d : m = Now /\ n = Now + 1 /\ d = Depth
  OBVIOUS
<1>1. /\ d \in Nat \ {0} /\ d = Level[m - 1] /\ Level'[m] = d
      /\ Now' = n /\ Now' - 1 = m /\ n = m + 1 /\ m \in Nat \ {0} /\ m \in 1..Now
      /\ Positions' = Positions \cup {m}
      /\ \A q \in Positions : Level'[q] = Level[q] /\ Level[q] \in Nat
  BY <1>0 DEF StackAgrees, Grows, Leveled, StackInv, Nested, Depth
<1>2. PICK t : t = ifdef_stack[d]
  OBVIOUS
<1>3. PICK f : f = [accepting |-> taken, any_taken |-> Top.any_taken \/ taken,
                    in_else |-> is_else]
  OBVIOUS
<1>4. /\ Depth' = d
      /\ \A i \in 1..(d - 1) : ifdef_stack'[i] = ifdef_stack[i]
      /\ ifdef_stack'[d] = f
  <2>1. f \in Frame
    BY <1>3 DEF Frame
  <2>2. ifdef_stack \in Seq(Frame) /\ d = Len(ifdef_stack)
    BY <1>0 DEF StackInv, Nested, Depth
  <2>3. ifdef_stack' = [ifdef_stack EXCEPT ![d] = f]
    BY <1>0, <1>3 DEF EnterBranch
  <2>4. \A g \in Seq(Frame) : Len(g) = d =>
          /\ Len([g EXCEPT ![d] = f]) = d
          /\ \A i \in 1..(d - 1) : [g EXCEPT ![d] = f][i] = g[i]
          /\ [g EXCEPT ![d] = f][d] = f
    BY <2>1, <1>1
  <2>5. Len(ifdef_stack') = d
    BY <2>2, <2>3, <2>4
  <2>6. /\ \A i \in 1..(d - 1) : ifdef_stack'[i] = ifdef_stack[i]
        /\ ifdef_stack'[d] = f
    BY <2>2, <2>3, <2>4
  <2>. QED BY <2>5, <2>6 DEF Depth
<1>5. PICK top \in Positions : FrameAgrees(d, top)
  BY <1>0, <1>1 DEF StackAgrees
<1>6. Encloses(top, m) /\ Level[top] = d
  BY <1>0, <1>5 DEF FrameAgrees
<1>7. \A q \in Positions : BranchOf(q, m)' <=> Encloses(q, m) /\ Level[q] = d
  BY <1>0, BranchIsTop
<1>8. ASSUME NEW i \in 1..(d - 1)
      PROVE  \E o \in Positions : FrameAgrees(i, o)'
  <2>1. i \in 1..Depth /\ i \in Nat \ {0} /\ Level'[m] >= i /\ i # d /\ ~(d <= i)
    BY <1>0, <1>1
  <2>2. PICK o \in Positions : FrameAgrees(i, o)
    BY <2>1 DEF StackAgrees
  <2>3. \A q \in Positions : Encloses(q, m) /\ Level[q] <= i => ~BranchOf(q, m)'
    BY <1>7, <2>1
  <2>4. item.op # "if" /\ ~(item.op = "else" /\ Level'[m] = i)
    BY <1>1, <2>1
  <2>5. FrameAgrees(i, o)'
    BY <2>1, <2>2, <2>3, <2>4, <1>0, <1>4, FrameStays
  <2>. QED BY <2>5
<1>9. FrameAgrees(d, top)'
  <2>1. Encloses(top, n)' /\ Level'[top] = d
    BY <1>0, <1>1, <1>6, EnclosesGrows
  <2>2. /\ BranchesBefore(top, n)' = BranchesBefore(top, m) \cup {m}
        /\ Selected(top, n)' <=>
              TrueAt(m)' /\ \A b \in BranchesBefore(top, m) : ~TrueAt(b)
        /\ \A b \in BranchesBefore(top, m) : TrueAt(b)' <=> TrueAt(b)
    BY <1>0, <1>6, <1>7, BranchesGrow
  <2>3. TrueAt(m)' <=> item.op = "else" \/ Holds(item.cond, settings)
    BY <1>0 DEF TrueAt, Grows
  <2>4. SomeTrue(top) <=> \E b \in BranchesBefore(top, m) : TrueAt(b)
    BY <1>0 DEF SomeTrue
  <2>5. SomeTrue(top)' <=> SomeTrue(top) \/ TrueAt(m)'
    <3>1. SomeTrue(top)' <=> \E b \in BranchesBefore(top, n)' : TrueAt(b)'
      BY <1>1 DEF SomeTrue
    <3>. QED BY <3>1, <2>2, <2>4
  <2>6. Selected(top, n)' <=> TrueAt(m)' /\ ~SomeTrue(top)
    BY <2>2, <2>4
  <2>7. PICK e : e = d - 1
    OBVIOUS
  <2>8. e \in Nat /\ Level'[m] >= e /\ ~(d <= e)
    BY <1>1, <2>7
  <2>9. SelectedUpTo(e)' <=> ParentAccepts
    <3>1. \A q \in Positions : Encloses(q, m) /\ Level[q] <= e => ~BranchOf(q, m)'
      BY <1>7, <2>8
    <3>2. SelectedUpTo(e)' <=> SelectedUpTo(e)
      BY <3>1, <2>8, <1>0, SelectedUpToGrows
    <3>3. ParentAccepts <=> SelectedUpTo(e)
      BY <1>0, <2>7, AcceptingAgrees DEF Grows
    <3>. QED BY <3>2, <3>3
  <2>10. SelectedUpTo(e) <=> ParentAccepts
    BY <1>0, <2>7, AcceptingAgrees DEF Grows
  <2>11. SelectedUpTo(d)' <=> SelectedUpTo(e)' /\ Selected(top, n)'
    <3>1. ~Encloses(m, n)'
      BY <1>0, EnclosesGrows
    <3>2. SelectedUpTo(d)' <=> \A q \in Positions \cup {m} :
            Encloses(q, n)' /\ Level'[q] <= d => Selected(q, n)'
      BY <1>1 DEF SelectedUpTo
    <3>3. SelectedUpTo(e)' <=> \A q \in Positions \cup {m} :
            Encloses(q, n)' /\ Level'[q] <= e => Selected(q, n)'
      BY <1>1 DEF SelectedUpTo
    <3>4. \A q \in Positions : Level'[q] <= d <=> Level'[q] <= e \/ Level'[q] = d
      BY <1>1, <2>7
    <3>5. ASSUME NEW q \in Positions, Encloses(q, n)', Level'[q] = d
          PROVE  q = top
      <4>1. Encloses(q, m) /\ Level[q] = Level[top]
        BY <3>5, <1>0, <1>1, <1>6, EnclosesGrows
      <4>. QED BY <4>1, <1>1, <1>6, EnclosersDiffer DEF Grows
    <3>6. Level'[top] = d /\ ~(d <= e) /\ d <= d
      BY <1>1, <2>1, <2>8
    <3>. QED BY <3>1, <3>2, <3>3, <3>4, <3>5, <3>6, <2>1
  <2>12. HasElse(top)' <=> item.op = "else"
    <3>1. ~HasElse(top)
      BY <1>0, <1>5 DEF FrameAgrees, Top
    <3>2. HasElse(top)' <=>
            HasElse(top) \/ (item.op = "else" /\ Encloses(top, m) /\ Level'[m] = Level[top])
      BY <1>0, HasElseGrows
    <3>. QED BY <3>1, <3>2, <1>1, <1>6
  <2>13. /\ f.accepting <=> taken
         /\ f.any_taken <=> Top.any_taken \/ taken
         /\ f.in_else <=> item.op = "else"
    BY <1>3
  <2>14. SelectedUpTo(e) => (Top.any_taken <=> SomeTrue(top))
    BY <1>0, <1>5, <2>7 DEF FrameAgrees, Top
  <2>15. taken <=> ParentAccepts /\ ~Top.any_taken /\ TrueAt(m)'
    BY <2>3 DEF Evaluated
  <2>16. f.accepting <=> SelectedUpTo(d)'
    BY <2>6, <2>9, <2>10, <2>11, <2>13, <2>14, <2>15
  <2>17. SelectedUpTo(e)' => (f.any_taken <=> SomeTrue(top)')
    BY <2>5, <2>9, <2>10, <2>13, <2>14, <2>15
  <2>. QED BY <1>1, <1>4, <2>1, <2>7, <2>12, <2>13, <2>16, <2>17 DEF FrameAgrees
<1>10. \A j \in 1..Depth' : j \in 1..(d - 1) \/ j = d
  BY <1>1, <1>4
<1>11. \A j \in 1..Depth' : \E o \in Positions' : FrameAgrees(j, o)'
  BY <1>1, <1>8, <1>9, <1>10
<1>. QED BY <1>1, <1>4, <1>11 DEF StackAgrees

-----------------------------------------------------------------------------
(***************************************************************************)
(* What the parser is given, what the conditions see and what is reported. *)
(***************************************************************************)
TokensAgree ==
  tokens = {p \in Positions : /\ Op(p) \in {"token", "badliteral"}
                              /\ Accepted(p)}
Writes(s) == {p \in Positions : /\ Op(p) = "set" /\ Accepted(p)
                                /\ text[p].item.setting = s}

\* There is a last write, or none and the setting is as it was at first.
SettingsAgree == \A s \in Settings :
  \/ Writes(s) = {} /\ settings[s] = FALSE
  \/ \E p \in Writes(s) : /\ \A q \in Writes(s) : q <= p
                          /\ settings[s] = text[p].item.value
Faults == {p \in Positions : Faulty(p)}
MeaningInv == /\ TypeOK /\ StackInv /\ LevelsInv /\ StackAgrees
              /\ TokensAgree /\ SettingsAgree /\ DiagnosticsAreExact

LEMMA TokensStep ==
  ASSUME NEW item, Grows(item), TokensAgree, NEW m, m = Now, accepting <=> Accepted(m),
         tokens' = IF item.op \in {"token", "badliteral"} /\ accepting
                   THEN tokens \cup {m} ELSE tokens
  PROVE  TokensAgree'
<1>1. /\ m \in 1..Now /\ Positions' = Positions \cup {m} /\ m \notin Positions
      /\ Positions \subseteq 1..Now
      /\ \A p \in Positions : Op(p)' = Op(p)
      /\ Op(m)' = item.op
  BY DEF Grows, Leveled
<1>2. \A p \in 1..Now : Accepted(p)' <=> Accepted(p)
  BY AcceptedStays
<1>3. TokensAgree' <=>
        tokens' = {p \in Positions \cup {m} : Op(p)' \in {"token", "badliteral"} /\ Accepted(p)'}
  BY <1>1 DEF TokensAgree
<1>4. {p \in Positions : Op(p)' \in {"token", "badliteral"} /\ Accepted(p)'} = tokens
  BY <1>1, <1>2 DEF TokensAgree
<1>5. Accepted(m)' <=> accepting
  BY <1>1, <1>2
<1>. QED BY <1>1, <1>3, <1>4, <1>5

LEMMA SettingsStep ==
  ASSUME NEW item \in Item, Grows(item), TypeOK, SettingsAgree, NEW m, m = Now,
         accepting <=> Accepted(m),
         settings' = IF item.op = "set" /\ accepting
                     THEN [settings EXCEPT ![item.setting] = item.value] ELSE settings
  PROVE  SettingsAgree'
<1>1. /\ m \in 1..Now /\ Positions' = Positions \cup {m} /\ m \notin Positions
      /\ Positions = 1..(m - 1) /\ m \in Nat
      /\ \A p \in Positions : Op(p)' = Op(p) /\ text'[p] = text[p]
      /\ Op(m)' = item.op /\ text'[m].item = item
  BY DEF Grows, Leveled
<1>2. \A p \in 1..Now : Accepted(p)' <=> Accepted(p)
  BY AcceptedStays
<1>3. ASSUME NEW s \in Settings
      PROVE  \/ Writes(s)' = {} /\ settings'[s] = FALSE
             \/ \E p \in Writes(s)' : /\ \A q \in Writes(s)' : q <= p
                                      /\ settings'[s] = text'[p].item.value
  <2>1. Writes(s)' = {p \in Positions \cup {m} : /\ Op(p)' = "set" /\ Accepted(p)'
                                                 /\ text'[p].item.setting = s}
    BY <1>1 DEF Writes
  <2>2. \A p \in Positions : p \in Writes(s)' <=> p \in Writes(s)
    BY <2>1, <1>1, <1>2 DEF Writes
  <2>3. m \in Writes(s)' <=> item.op = "set" /\ accepting /\ item.setting = s
    BY <2>1, <1>1, <1>2
  <2>4. Writes(s)' \subseteq Positions \cup {m} /\ Writes(s) \subseteq Positions
    BY <2>1 DEF Writes
  <2>5. CASE item.op = "set" /\ accepting /\ item.setting = s
    <3>1. settings'[s] = item.value
      BY <2>5, ItemFacts DEF TypeOK
    <3>2. \A q \in Writes(s)' : q <= m
      BY <2>4, <1>1
    <3>. QED BY <3>1, <3>2, <2>3, <2>5, <1>1
  <2>6. CASE ~(item.op = "set" /\ accepting /\ item.setting = s)
    <3>1. settings'[s] = settings[s]
      <4>1. CASE item.op = "set" /\ accepting
        BY <4>1, <2>6, ItemFacts DEF TypeOK
      <4>2. CASE ~(item.op = "set" /\ accepting)
        BY <4>2
      <4>. QED BY <4>1, <4>2
    <3>2. Writes(s)' = Writes(s)
      BY <2>2, <2>3, <2>4, <2>6
    <3>3. \A p \in Writes(s) : text'[p] = text[p]
      BY <2>4, <1>1
    <3>. QED BY <3>1, <3>2, <3>3 DEF SettingsAgree
  <2>. QED BY <2>5, <2>6
<1>. QED BY <1>3 DEF SettingsAgree

\* The condition of a branch is asked exactly when the text asks it.
LEMMA AskedNow ==
  ASSUME NEW item, Grows(item), NEW m, m = Now, StackInv, StackAgrees,
         item.op \in {"elseif", "else"}
  PROVE  /\ Belongs(m)' <=> Depth # 0 /\ ~Top.in_else
         /\ item.op = "elseif" =>
              (Asked(m)' <=> Depth # 0 /\ ~Top.in_else /\ Evaluated)
<1>1. /\ m \in 1..Now /\ Positions' = Positions \cup {m} /\ Positions = 1..(m - 1)
      /\ Op(m)' = item.op /\ m \in Nat /\ Depth \in Nat
      /\ ~BranchOf(m, m)'
  BY DEF Grows, Leveled, StackInv, Nested, Depth, BranchOf, Encloses
<1>2. \A q \in Positions : BranchOf(q, m)' <=>
        Depth # 0 /\ ~Top.in_else /\ Encloses(q, m) /\ Level[q] = Depth
  BY BranchIsTop
<1>3. Belongs(m)' <=> \E q \in Positions : BranchOf(q, m)'
  BY <1>1 DEF Belongs
<1>4. item.op = "elseif" => (Asked(m)' <=>
        \E q \in Positions : /\ BranchOf(q, m)' /\ Accepted(q)'
                             /\ \A b \in BranchesBefore(q, m)' : ~TrueAt(b)')
  BY <1>1 DEF Asked
<1>5. CASE Depth = 0 \/ Top.in_else
  BY <1>2, <1>3, <1>4, <1>5
<1>6. CASE Depth # 0 /\ ~Top.in_else
  <2>1. PICK d : d = Depth
    OBVIOUS
  <2>2. d \in 1..d /\ d \in Nat
    BY <2>1, <1>1, <1>6
  <2>3. PICK top \in Positions : FrameAgrees(d, top)
    BY <2>1, <2>2 DEF StackAgrees
  <2>4. Encloses(top, m) /\ Level[top] = d /\ top \in 1..Now /\ top < m
    BY <2>3, <1>1 DEF FrameAgrees, Encloses
  <2>5. \A q \in Positions : BranchOf(q, m)' <=> q = top
    <3>1. \A q \in Positions : Encloses(q, m) /\ Level[q] = d => q = top
      BY <2>4, <1>1, EnclosersDiffer DEF Grows
    <3>. QED BY <3>1, <2>1, <2>4, <1>2, <1>6
  <2>6. Accepted(top)' <=> ParentAccepts
    <3>1. Accepted(top)' <=> Accepted(top)
      BY <2>4, AcceptedStays
    <3>2. ASSUME NEW q \in Positions
          PROVE  /\ Encloses(q, top) <=> Encloses(q, m) /\ Level[q] <= d - 1
                 /\ Encloses(q, top) => (Selected(q, top) <=> Selected(q, m))
      <4>1. Level[q] \in Nat
        BY <1>1 DEF Grows, Leveled
      <4>2. Level[q] < d <=> Level[q] <= d - 1
        BY <4>1, <2>2
      <4>. QED BY <4>2, <2>4, <1>1, OuterEnclosers DEF Grows
    <3>3. Accepted(top) <=> SelectedUpTo(d - 1)
      BY <3>2 DEF Accepted, SelectedUpTo
    <3>. QED BY <3>1, <3>3, <2>1, <1>6, AcceptingAgrees DEF Grows
  <2>7. (\A b \in BranchesBefore(top, m)' : ~TrueAt(b)') <=> ~SomeTrue(top)
    <3>1. /\ BranchesBefore(top, m)' = BranchesBefore(top, m)
          /\ \A b \in BranchesBefore(top, m) : TrueAt(b)' <=> TrueAt(b)
      BY <2>4, <1>1, SelectedStays
    <3>2. SomeTrue(top) <=> \E b \in BranchesBefore(top, m) : TrueAt(b)
      BY DEF SomeTrue
    <3>. QED BY <3>1, <3>2
  <2>8. ParentAccepts => (Top.any_taken <=> SomeTrue(top))
    BY <2>1, <2>3, <1>6, AcceptingAgrees DEF FrameAgrees, Top, Grows
  <2>9. Belongs(m)'
    BY <1>3, <2>5
  <2>10. item.op = "elseif" => (Asked(m)' <=> Accepted(top)' /\ ~SomeTrue(top))
    BY <1>4, <2>5, <2>7
  <2>. QED BY <1>6, <2>6, <2>8, <2>9, <2>10 DEF Evaluated
<1>. QED BY <1>5, <1>6

LEMMA FaultyNow ==
  ASSUME NEW item \in Item, Grows(item), NEW m, m = Now, StackInv, StackAgrees
  PROVE  Faulty(m)' <=>
           \/ item.op = "endif" /\ Depth = 0
           \/ item.op \in {"elseif", "else"} /\ (Depth = 0 \/ Top.in_else)
           \/ item.op = "if" /\ accepting /\ item.cond.kind = "bad"
           \/ /\ item.op = "elseif" /\ Depth # 0 /\ ~Top.in_else
              /\ Evaluated /\ item.cond.kind = "bad"
           \/ item.op = "badliteral"
           \/ item.op = "error" /\ accepting
           \/ item.op = "include" /\ accepting /\ item.file = Missing
<1>1. /\ m \in 1..Now /\ Op(m)' = item.op /\ text'[m].item = item
      /\ Level'[m - 1] = Depth
  BY DEF Grows, Leveled, StackAgrees
<1>2. Accepted(m)' <=> accepting
  BY <1>1, AcceptedStays, AcceptingAgrees DEF Grows
<1>3. item.op = "if" => (Asked(m)' <=> accepting)
  BY <1>1, <1>2 DEF Asked
<1>. QED BY <1>1, <1>2, <1>3, AskedNow DEF Faulty

LEMMA ErrorsStep ==
  ASSUME NEW item \in Item, Grows(item), NEW m, m = Now, DiagnosticsAreExact,
         NEW b \in BOOLEAN, b <=> Faulty(m)', Report(b)
  PROVE  DiagnosticsAreExact'
<1>1. /\ m \in Nat \ {0} /\ Positions = 1..(m - 1) /\ Positions' = Positions \cup {m}
      /\ m \notin Positions
  BY DEF Grows, Leveled
<1>2. \A p \in Positions : Faulty(p)' <=> Faulty(p)
  BY FaultyStays
<1>3. PICK F : F = Faults
  OBVIOUS
<1>4. Faults' = IF b THEN F \cup {m} ELSE F
  BY <1>1, <1>2, <1>3 DEF Faults
<1>5. IsFiniteSet(F) /\ m \notin F
  <2>1. IsFiniteSet(1..(m - 1))
    <3>1. 1 \in Int /\ m - 1 \in Int
      BY <1>1
    <3>. QED BY <3>1, FS_Interval
  <2>2. F \subseteq 1..(m - 1)
    BY <1>1, <1>3 DEF Faults
  <2>. QED BY <2>1, <2>2, <1>1, FS_Subset
<1>6. Cardinality(F \cup {m}) = Cardinality(F) + 1
  BY <1>5, FS_AddElement
<1>7. errors = Cardinality(F)
  BY <1>3 DEF DiagnosticsAreExact, Faults
<1>8. errors' = Cardinality(Faults')
  BY <1>4, <1>6, <1>7 DEF Report
<1>. QED BY <1>8 DEF DiagnosticsAreExact, Faults

LEMMA MeaningRead ==
  ASSUME MeaningInv, TypeOK', StackInv', NEW item, Read(item),
         Grows(item) => StackAgrees',
         tokens' = IF item.op \in {"token", "badliteral"} /\ accepting
                   THEN tokens \cup {Now} ELSE tokens,
         settings' = IF item.op = "set" /\ accepting
                     THEN [settings EXCEPT ![item.setting] = item.value] ELSE settings,
         NEW b \in BOOLEAN, Report(b),
         b <=> \/ item.op = "endif" /\ Depth = 0
               \/ item.op \in {"elseif", "else"} /\ (Depth = 0 \/ Top.in_else)
               \/ item.op = "if" /\ accepting /\ item.cond.kind = "bad"
               \/ /\ item.op = "elseif" /\ Depth # 0 /\ ~Top.in_else
                  /\ Evaluated /\ item.cond.kind = "bad"
               \/ item.op = "badliteral"
               \/ item.op = "error" /\ accepting
               \/ item.op = "include" /\ accepting /\ item.file = Missing
  PROVE  MeaningInv'
<1>1. LevelsInv' /\ Grows(item) /\ item \in Item
  BY ReadGrows, ReadFacts DEF MeaningInv
<1>2. PICK m : m = Now
  OBVIOUS
<1>3. accepting <=> Accepted(m)
  BY <1>1, <1>2, AcceptingAgrees DEF MeaningInv, Grows
<1>4. TokensAgree'
  BY <1>1, <1>2, <1>3, TokensStep DEF MeaningInv
<1>5. SettingsAgree'
  BY <1>1, <1>2, <1>3, SettingsStep DEF MeaningInv
<1>6. b <=> Faulty(m)'
  BY <1>1, <1>2, FaultyNow DEF MeaningInv
<1>7. DiagnosticsAreExact'
  BY <1>1, <1>2, <1>6, ErrorsStep DEF MeaningInv
<1>. QED BY <1>1, <1>4, <1>5, <1>7 DEF MeaningInv

LEMMA MeaningStays ==
  ASSUME MeaningInv, TypeOK', StackInv',
         UNCHANGED <<ifdef_stack, settings, tokens, errors, text>>
  PROVE  MeaningInv'
<1>1. Level' = Level
  BY DEF Level, Op
<1>2. LevelsInv'
  <2>1. \A L : LevelEquation(L)' <=> LevelEquation(L)
    BY DEF LevelEquation, Op
  <2>2. text' = text /\ LevelsInv
    BY DEF MeaningInv
  <2>. QED BY <2>1, <2>2 DEF LevelsInv
<1>3. /\ Positions' = Positions /\ Now' = Now
      /\ \A p : Op(p)' = Op(p)
      /\ \A p : TrueAt(p)' <=> TrueAt(p)
  BY DEF Positions, Now, Op, TrueAt
<1>4. \A o, p : Encloses(o, p)' <=> Encloses(o, p)
  BY <1>1, <1>3 DEF Encloses
<1>5. \A o, p : BranchOf(o, p)' <=> BranchOf(o, p)
  BY <1>1, <1>3, <1>4 DEF BranchOf
<1>6. \A o, p : BranchesBefore(o, p)' = BranchesBefore(o, p)
  BY <1>5 DEF BranchesBefore
<1>7. \A o, p : Selected(o, p)' <=> Selected(o, p)
  BY <1>3, <1>6 DEF Selected
<1>8. \A p : Accepted(p)' <=> Accepted(p)
  BY <1>3, <1>4, <1>7 DEF Accepted
<1>9. StackAgrees'
  <2>1. \A i : SelectedUpTo(i)' <=> SelectedUpTo(i)
    BY <1>1, <1>3, <1>4, <1>7 DEF SelectedUpTo
  <2>2. \A o : /\ SomeTrue(o)' <=> SomeTrue(o)
               /\ HasElse(o)' <=> HasElse(o)
    BY <1>1, <1>3, <1>4, <1>6 DEF SomeTrue, HasElse
  <2>3. \A i, o : FrameAgrees(i, o)' <=> FrameAgrees(i, o)
    BY <2>1, <2>2, <1>1, <1>3, <1>4 DEF FrameAgrees
  <2>. QED BY <2>3, <1>1, <1>3 DEF StackAgrees, MeaningInv, Depth
<1>10. TokensAgree' /\ SettingsAgree'
  BY <1>3, <1>8 DEF MeaningInv, TokensAgree, SettingsAgree, Writes
<1>11. DiagnosticsAreExact'
  <2>1. \A p : Belongs(p)' <=> Belongs(p)
    BY <1>3, <1>5 DEF Belongs
  <2>2. \A p : Asked(p)' <=> Asked(p)
    BY <1>3, <1>5, <1>6, <1>8 DEF Asked
  <2>3. \A p : Faulty(p)' <=> Faulty(p)
    BY <2>1, <2>2, <1>1, <1>3, <1>8 DEF Faulty
  <2>4. Faults' = Faults
    BY <2>3, <1>3 DEF Faults
  <2>5. errors = Cardinality(Faults)
    BY DEF MeaningInv, DiagnosticsAreExact, Faults
  <2>6. errors' = Cardinality(Faults')
    BY <2>4, <2>5
  <2>. QED BY <2>6 DEF DiagnosticsAreExact, Faults
<1>. QED BY <1>2, <1>9, <1>10, <1>11 DEF MeaningInv

LEMMA MeaningInit == Init => MeaningInv
<1>. SUFFICES ASSUME Init PROVE MeaningInv
  OBVIOUS
<1>1. TypeOK /\ StackInv
  BY DEF Init, TypeOK, StackInv, Nested
<1>2. LevelsInv
  BY LevelsInit
<1>3. Len(text) = 0 /\ Positions = {} /\ Now - 1 = 0 /\ Depth = 0
  BY DEF Init, Positions, Now, Depth
<1>4. StackAgrees
  <2>1. Level[0] = 0
    BY <1>2, <1>3, LevelFacts DEF LevelEquation
  <2>. QED BY <2>1, <1>3 DEF StackAgrees
<1>5. TokensAgree /\ SettingsAgree
  BY <1>3 DEF Init, TokensAgree, SettingsAgree, Writes
<1>6. DiagnosticsAreExact
  <2>1. Faults = {}
    BY <1>3 DEF Faults
  <2>2. errors = Cardinality(Faults)
    BY <2>1, FS_EmptySet DEF Init
  <2>. QED BY <2>2 DEF DiagnosticsAreExact, Faults
<1>. QED BY <1>1, <1>2, <1>4, <1>5, <1>6 DEF MeaningInv

LEMMA MeaningStep == MeaningInv /\ [Next]_vars => MeaningInv'
<1>. SUFFICES ASSUME MeaningInv, [Next]_vars PROVE MeaningInv'
  OBVIOUS
<1>1. TypeOK' /\ StackInv'
  BY TypeStep, NestedStep DEF MeaningInv
<1>2. TypeOK /\ StackInv /\ StackAgrees
  BY DEF MeaningInv
<1>3. CASE PopInput \/ UNCHANGED vars
  BY <1>1, <1>3, MeaningStays DEF PopInput, vars
<1>4. ASSUME NEW cond, OpenIf(cond) PROVE MeaningInv'
  <2>1. PICK x : x = [op |-> "if", cond |-> cond]
    OBVIOUS
  <2>2. x.op = "if" /\ x.cond = cond /\ Read(x)
    BY <2>1, <1>4 DEF OpenIf
  <2>3. Grows(x) => StackAgrees'
    BY <2>2, <1>2, <1>4, StackPushed DEF OpenIf
  <2>4. /\ (accepting /\ cond.kind = "bad") \in BOOLEAN
        /\ Report(accepting /\ cond.kind = "bad")
        /\ UNCHANGED <<settings, tokens>>
    BY <1>4 DEF OpenIf, accepting
  <2>. QED BY <2>2, <2>3, <2>4, <1>1, MeaningRead
<1>5. ASSUME NEW cond, ElseIf(cond) PROVE MeaningInv'
  <2>1. PICK x : x = [op |-> "elseif", cond |-> cond]
    OBVIOUS
  <2>2. x.op = "elseif" /\ x.cond = cond /\ Read(x) /\ UNCHANGED <<settings, tokens>>
    BY <2>1, <1>5 DEF ElseIf
  <2>3. CASE Depth = 0 \/ Top.in_else
    <3>1. Grows(x) => StackAgrees'
      BY <2>2, <2>3, <1>2, <1>5, StackKept DEF ElseIf
    <3>2. Report(TRUE)
      BY <2>3, <1>5 DEF ElseIf
    <3>. QED BY <2>2, <2>3, <3>1, <3>2, <1>1, MeaningRead
  <2>4. CASE ~(Depth = 0 \/ Top.in_else)
    <3>1. PICK taken \in BOOLEAN : taken <=> Evaluated /\ Holds(cond, settings)
      BY DEF Evaluated, ParentAccepts
    <3>2. EnterBranch(taken, FALSE)
      BY <2>4, <3>1, <1>5 DEF ElseIf, EnterBranch, Evaluated, ParentAccepts
    <3>3. Grows(x) => StackAgrees'
      BY <2>2, <2>4, <3>1, <3>2, <1>2, StackBranched
    <3>4. PICK b \in BOOLEAN : b <=> Evaluated /\ cond.kind = "bad"
      BY DEF Evaluated, ParentAccepts
    <3>5. Report(b)
      BY <2>4, <3>4, <1>5 DEF ElseIf, Report
    <3>. QED BY <2>2, <2>4, <3>3, <3>4, <3>5, <1>1, MeaningRead
  <2>. QED BY <2>3, <2>4
<1>6. CASE Else
  <2>1. PICK x : x = [op |-> "else"]
    OBVIOUS
  <2>2. x.op = "else" /\ Read(x) /\ UNCHANGED <<settings, tokens>>
    BY <2>1, <1>6 DEF Else
  <2>3. CASE Depth = 0 \/ Top.in_else
    <3>1. Grows(x) => StackAgrees'
      BY <2>2, <2>3, <1>2, <1>6, StackKept DEF Else
    <3>2. Report(TRUE)
      BY <2>3, <1>6 DEF Else
    <3>. QED BY <2>2, <2>3, <3>1, <3>2, <1>1, MeaningRead
  <2>4. CASE ~(Depth = 0 \/ Top.in_else)
    <3>1. PICK taken \in BOOLEAN : taken <=> Evaluated
      BY DEF Evaluated, ParentAccepts
    <3>2. EnterBranch(taken, TRUE)
      BY <2>4, <3>1, <1>6 DEF Else, EnterBranch, Evaluated, ParentAccepts
    <3>3. Grows(x) => StackAgrees'
      <4>1. taken <=> Evaluated /\ (x.op = "else" \/ Holds(x.cond, settings))
        BY <2>2, <3>1
      <4>2. TRUE <=> x.op = "else"
        BY <2>2
      <4>3. x.op \in {"elseif", "else"} /\ Depth # 0 /\ ~Top.in_else
        BY <2>2, <2>4
      <4>. QED BY <4>1, <4>2, <4>3, <3>2, <1>2, StackBranched
    <3>4. Report(FALSE)
      BY <2>4, <1>6 DEF Else, Report
    <3>. QED BY <2>2, <2>4, <3>3, <3>4, <1>1, MeaningRead
  <2>. QED BY <2>3, <2>4
<1>7. CASE EndIf
  <2>1. PICK x : x = [op |-> "endif"]
    OBVIOUS
  <2>2. x.op = "endif" /\ Read(x) /\ UNCHANGED <<settings, tokens>>
    BY <2>1, <1>7 DEF EndIf
  <2>3. Report(Depth = 0)
    BY <1>7 DEF EndIf
  <2>4. Grows(x) => StackAgrees'
    <3>1. CASE Depth = 0
      BY <3>1, <2>2, <1>2, <1>7, StackKept DEF EndIf
    <3>2. CASE Depth # 0
      BY <3>2, <2>2, <1>2, <1>7, StackPopped DEF EndIf
    <3>. QED BY <3>1, <3>2
  <2>. QED BY <2>2, <2>3, <2>4, <1>1, MeaningRead
<1>8. ASSUME NEW s, NEW v, Set(s, v) PROVE MeaningInv'
  <2>1. PICK x : x = [op |-> "set", setting |-> s, value |-> v]
    OBVIOUS
  <2>2. /\ x.op = "set" /\ x.setting = s /\ x.value = v /\ Read(x)
        /\ UNCHANGED <<ifdef_stack, tokens, errors>>
        /\ settings' = IF accepting THEN [settings EXCEPT ![s] = v] ELSE settings
    BY <2>1, <1>8 DEF Set
  <2>3. Grows(x) => StackAgrees'
    BY <2>2, <1>2, StackKept
  <2>4. Report(FALSE)
    BY <2>2 DEF Report
  <2>. QED BY <2>2, <2>3, <2>4, <1>1, MeaningRead
<1>9. ASSUME NEW f, Include(f) PROVE MeaningInv'
  <2>1. PICK x : x = [op |-> "include", file |-> f]
    OBVIOUS
  <2>2. /\ x.op = "include" /\ x.file = f /\ Read(x)
        /\ UNCHANGED <<ifdef_stack, settings, tokens>>
        /\ Report(accepting /\ f = Missing)
    BY <2>1, <1>9 DEF Include
  <2>3. Grows(x) => StackAgrees'
    BY <2>2, <1>2, StackKept
  <2>4. (accepting /\ f = Missing) \in BOOLEAN
    BY DEF accepting
  <2>. QED BY <2>2, <2>3, <2>4, <1>1, MeaningRead
<1>10. CASE ErrorDirective
  <2>1. PICK x : x = [op |-> "error"]
    OBVIOUS
  <2>2. /\ x.op = "error" /\ Read(x) /\ Report(accepting)
        /\ UNCHANGED <<ifdef_stack, settings, tokens>>
    BY <2>1, <1>10 DEF ErrorDirective
  <2>3. Grows(x) => StackAgrees'
    BY <2>2, <1>2, StackKept
  <2>4. accepting \in BOOLEAN
    BY DEF accepting
  <2>. QED BY <2>2, <2>3, <2>4, <1>1, MeaningRead
<1>11. ASSUME NEW op \in {"token", "badliteral"}, Token(op) PROVE MeaningInv'
  <2>1. PICK x : x = [op |-> op]
    OBVIOUS
  <2>2. /\ x.op = op /\ Read(x) /\ Report(op = "badliteral")
        /\ UNCHANGED <<ifdef_stack, settings>>
        /\ tokens' = IF accepting THEN tokens \cup {Now} ELSE tokens
    BY <2>1, <1>11 DEF Token, Now
  <2>3. Grows(x) => StackAgrees'
    BY <2>2, <1>2, <1>11, StackKept
  <2>. QED BY <2>2, <2>3, <1>1, <1>11, MeaningRead
<1>. QED BY <1>3, <1>4, <1>5, <1>6, <1>7, <1>8, <1>9, <1>10, <1>11
         DEF Next, Directive

\* The parser sees exactly the tokens of the branches that conditional
\* compilation selects, and the settings that conditions see come from such
\* branches only: what handle_directive and next do with a stack is what the
\* text means without one, however the text is nested, unbalanced or split
\* over include files.
THEOREM SelectionCorrect == Spec => []SelectionIsCorrect
<1>1. MeaningInv => SelectionIsCorrect
  <2>. SUFFICES ASSUME MeaningInv PROVE SelectionIsCorrect
    OBVIOUS
  <2>1. Positions \subseteq Nat
    BY DEF MeaningInv, TypeOK, Positions
  <2>2. ASSUME NEW s \in Settings
        PROVE  settings[s] = IF Writes(s) = {} THEN FALSE
                 ELSE text[CHOOSE p \in Writes(s) :
                             \A q \in Writes(s) : q <= p].item.value
    <3>1. CASE Writes(s) = {}
      BY <3>1 DEF MeaningInv, SettingsAgree
    <3>2. CASE Writes(s) # {}
      <4>1. PICK p \in Writes(s) : /\ \A q \in Writes(s) : q <= p
                                   /\ settings[s] = text[p].item.value
        BY <3>2 DEF MeaningInv, SettingsAgree
      <4>2. PICK c : c = CHOOSE r \in Writes(s) : \A q \in Writes(s) : q <= r
        OBVIOUS
      <4>3. c \in Writes(s) /\ \A q \in Writes(s) : q <= c
        BY <4>1, <4>2
      <4>4. Writes(s) \subseteq Nat
        BY <2>1 DEF Writes
      <4>5. c = p
        BY <4>1, <4>3, <4>4
      <4>. QED BY <3>2, <4>1, <4>2, <4>5
    <3>. QED BY <3>1, <3>2
  <2>. QED BY <2>2 DEF SelectionIsCorrect, Writes, MeaningInv, TokensAgree
<1>. QED BY <1>1, MeaningInit, MeaningStep, PTL DEF Spec

\* An error is reported for each directive that has no conditional to belong
\* to and for each failure that is not skipped, and no other is: what
\* handle_directive asks its stack before it reports is what the text says.
THEOREM DiagnosticsCorrect == Spec => []DiagnosticsAreExact
<1>1. MeaningInv => DiagnosticsAreExact
  BY DEF MeaningInv
<1>. QED BY <1>1, MeaningInit, MeaningStep, PTL DEF Spec
=============================================================================
