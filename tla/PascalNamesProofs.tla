------------------------- MODULE PascalNamesProofs -------------------------
(***************************************************************************)
(* What the emitter writes for a name means what the name means, and what  *)
(* is declared twice is reported.                                          *)
(*                                                                         *)
(* The view of the emitter is one flat record; the proof says of each part *)
(* of it which of the open constructs it stands for.  It says so of every  *)
(* view that is saved too, with the constructs that were open then: so     *)
(* what a construct puts back is right.                                    *)
(*                                                                         *)
(* The registry reads one list of declarations at a time, in loops.  The   *)
(* proof says what its tables hold after each declaration, what one more   *)
(* is refused for, and that binding type names touches neither.            *)
(***************************************************************************)
EXTENDS PascalNames, WellFoundedInduction, SequenceTheorems, TLAPS

-----------------------------------------------------------------------------
(* Places in sequences.                                                    *)

\* A set of numbers with a member has a smallest one, and a largest one when it
\* has a bound.
LEMMA Smallest ==
  ASSUME NEW R \in SUBSET Nat, R # {}
  PROVE  Min(R) \in R /\ \A j \in R : Min(R) <= j
<1>1. PICK Below : Below = {ss \in Nat \X Nat : ss[1] < ss[2]}
  OBVIOUS
<1>2. IsWellFoundedOn(Below, Nat)
  BY <1>1, NatLessThanWellFounded DEF OpToRel
<1>3. PICK k \in R : \A j \in R : ~(<<j, k>> \in Below)
  BY <1>2, WFMin
<1>4. ASSUME NEW j \in R PROVE k <= j
  <2>1. j < k => <<j, k>> \in Below
    BY <1>1, <1>3
  <2>. QED BY <2>1, <1>3
<1>. QED BY <1>3, <1>4 DEF Min

LEMMA Largest ==
  ASSUME NEW k \in Nat, NEW R \in SUBSET (1 .. k), R # {}
  PROVE  Max(R) \in R /\ \A j \in R : j <= Max(R)
<1>1. PICK Gaps \in SUBSET Nat : Gaps = {k - i : i \in R}
  <2>1. {k - i : i \in R} \in SUBSET Nat
    OBVIOUS
  <2>. QED BY <2>1
<1>2. PICK g \in Gaps : \A j \in Gaps : g <= j
  <2>1. Gaps # {}
    BY <1>1
  <2>. QED BY <2>1, Smallest
<1>3. PICK m \in R : g = k - m
  BY <1>1, <1>2
<1>4. ASSUME NEW j \in R PROVE j <= m
  <2>1. k - j \in Gaps
    BY <1>1
  <2>2. k - m <= k - j
    BY <1>2, <1>3, <2>1
  <2>. QED BY <2>2, <1>3
<1>5. \E x \in R : \A y \in R : x >= y
  BY <1>4
<1>. QED BY <1>5 DEF Max

\* The largest is the one that no other exceeds.
LEMMA TheLargest ==
  ASSUME NEW k \in Nat, NEW R \in SUBSET (1 .. k), NEW m \in R, \A j \in R : j <= m
  PROVE  Max(R) = m
<1>0. R # {}
  OBVIOUS
<1>1. Max(R) \in R /\ \A j \in R : j <= Max(R)
  BY <1>0, Largest
<1>2. Max(R) <= m /\ m <= Max(R)
  BY <1>1
<1>3. Max(R) \in Int /\ m \in Int
  <2>1. PICK x \in R : x = Max(R)
    BY <1>1
  <2>. QED BY <2>1
<1>. QED BY <1>2, <1>3

IsSequence(s) == \E S : s \in Seq(S)

LEMMA SequenceFacts ==
  ASSUME NEW s, IsSequence(s)
  PROVE  Len(s) \in Nat /\ DOMAIN s = 1 .. Len(s) /\ (s = <<>> <=> Len(s) = 0)
BY DEF IsSequence

LEMMA SameSequence ==
  ASSUME NEW s, NEW t, IsSequence(s), IsSequence(t), Len(s) = Len(t), \A i \in 1 .. Len(s) : s[i] = t[i]
  PROVE  s = t
<1>1. PICK S : s \in Seq(S)
  BY DEF IsSequence
<1>2. PICK T : t \in Seq(T)
  BY DEF IsSequence
<1>3. s \in Seq(S \cup T) /\ t \in Seq(S \cup T)
  BY <1>1, <1>2
<1>. QED BY <1>3

LEMMA AppendFacts ==
  ASSUME NEW s, IsSequence(s), NEW x
  PROVE  /\ IsSequence(Append(s, x)) /\ Len(Append(s, x)) = Len(s) + 1
         /\ Append(s, x)[Len(s) + 1] = x /\ \A i \in 1 .. Len(s) : Append(s, x)[i] = s[i]
         /\ DOMAIN Append(s, x) = 1 .. Len(s) + 1 /\ Append(s, x) # <<>>
<1>1. PICK S : s \in Seq(S)
  BY DEF IsSequence
<1>2. s \in Seq(S \cup {x}) /\ x \in S \cup {x}
  BY <1>1
<1>3. Append(s, x) \in Seq(S \cup {x})
  BY <1>2
<1>4. IsSequence(Append(s, x))
  BY <1>3 DEF IsSequence
<1>5. Len(s) \in Nat
  BY <1>2
<1>. QED BY <1>2, <1>3, <1>4, <1>5

LEMMA PartFacts ==
  ASSUME NEW s, IsSequence(s), NEW k \in 0 .. Len(s)
  PROVE  /\ IsSequence(SubSeq(s, 1, k)) /\ Len(SubSeq(s, 1, k)) = k
         /\ \A i \in 1 .. k : SubSeq(s, 1, k)[i] = s[i]
         /\ DOMAIN SubSeq(s, 1, k) = 1 .. k
<1>1. PICK S : s \in Seq(S)
  BY DEF IsSequence
<1>2. SubSeq(s, 1, k) \in Seq(S)
  BY <1>1
<1>. QED BY <1>1, <1>2 DEF IsSequence

LEMMA WholeIsPart ==
  ASSUME NEW s, IsSequence(s)
  PROVE  SubSeq(s, 1, Len(s)) = s
<1>1. Len(s) \in 0 .. Len(s)
  BY SequenceFacts
<1>. QED BY <1>1, PartFacts, SameSequence

LEMMA PartOfAppended ==
  ASSUME NEW s, IsSequence(s), NEW x, NEW k \in 0 .. Len(s)
  PROVE  SubSeq(Append(s, x), 1, k) = SubSeq(s, 1, k)
<1>1. PICK t : t = Append(s, x)
  OBVIOUS
<1>2. IsSequence(t) /\ Len(t) = Len(s) + 1 /\ (\A i \in 1 .. Len(s) : t[i] = s[i]) /\ Len(s) \in Nat
  BY <1>1, AppendFacts, SequenceFacts
<1>3. IsSequence(SubSeq(t, 1, k)) /\ Len(SubSeq(t, 1, k)) = k /\ \A i \in 1 .. k : SubSeq(t, 1, k)[i] = t[i]
  BY <1>2, PartFacts
<1>4. IsSequence(SubSeq(s, 1, k)) /\ Len(SubSeq(s, 1, k)) = k /\ \A i \in 1 .. k : SubSeq(s, 1, k)[i] = s[i]
  BY PartFacts
<1>5. \A i \in 1 .. k : SubSeq(t, 1, k)[i] = SubSeq(s, 1, k)[i]
  BY <1>2, <1>3, <1>4
<1>6. SubSeq(t, 1, k) = SubSeq(s, 1, k)
  BY <1>3, <1>4, <1>5, SameSequence
<1>. QED BY <1>1, <1>6

LEMMA FrontFacts ==
  ASSUME NEW s, IsSequence(s), s # <<>>
  PROVE  /\ IsSequence(Front(s)) /\ Len(Front(s)) = Len(s) - 1
         /\ \A i \in 1 .. Len(s) - 1 : Front(s)[i] = s[i]
         /\ \A k \in 0 .. Len(s) - 1 : SubSeq(Front(s), 1, k) = SubSeq(s, 1, k)
<1>1. Len(s) \in Nat /\ Len(s) - 1 \in 0 .. Len(s)
  BY SequenceFacts
<1>2. /\ IsSequence(Front(s)) /\ Len(Front(s)) = Len(s) - 1
      /\ \A i \in 1 .. Len(s) - 1 : Front(s)[i] = s[i]
  BY <1>1, PartFacts DEF Front
<1>3. ASSUME NEW k \in 0 .. Len(s) - 1 PROVE SubSeq(Front(s), 1, k) = SubSeq(s, 1, k)
  <2>0. PICK f : f = Front(s)
    OBVIOUS
  <2>1. IsSequence(SubSeq(s, 1, k)) /\ Len(SubSeq(s, 1, k)) = k /\ \A i \in 1 .. k : SubSeq(s, 1, k)[i] = s[i]
    BY <1>1, PartFacts
  <2>2. IsSequence(SubSeq(f, 1, k)) /\ Len(SubSeq(f, 1, k)) = k /\ \A i \in 1 .. k : SubSeq(f, 1, k)[i] = f[i]
    BY <1>2, <2>0, PartFacts
  <2>3. \A i \in 1 .. k : SubSeq(f, 1, k)[i] = SubSeq(s, 1, k)[i]
    BY <1>1, <1>2, <2>0, <2>1, <2>2
  <2>4. SubSeq(f, 1, k) = SubSeq(s, 1, k)
    BY <2>1, <2>2, <2>3, SameSequence
  <2>. QED BY <2>0, <2>4
<1>. QED BY <1>2, <1>3
-----------------------------------------------------------------------------
(* What the view stands for.  op is the list of open constructs.           *)

IsFunction(o) == o.kind = "routine" /\ o.function
Nests(o, n) == o.kind = "routine" /\ n \in o.nested
Joins(o, n) == \/ o.kind = "routine" /\ n \in o.locals \cup o.nested
               \/ o.kind = "handler" /\ n = o.name

\* The text of the result of the function op[i].
InFunction(op, i) == \E j \in 1 .. i - 1 : IsFunction(op[j])
Slot(op, i) == IF InFunction(op, i) THEN <<"result", op[i].name>> ELSE <<"p", ResultName>>

\* What C++ knows by the names of the routine pd, which is the construct `at':
\* locals and nested routines by their mangled names, those nested ones that are
\* the first of their name, and the result.
CxxKnows(cxx, pd, firsts, inside, at) ==
  \A n \in Names :
    /\ <<"p", n>> \in DOMAIN cxx <=> \/ n \in pd.locals \/ n \in firsts
                                     \/ pd.function /\ n = ResultName /\ ~inside
    /\ <<"p", n>> \in DOMAIN cxx =>
         cxx[<<"p", n>>] = IF n \in pd.locals \cup pd.nested THEN <<"local", at, n>> ELSE <<"result", at>>
    /\ <<"result", n>> \in DOMAIN cxx <=> pd.function /\ n = pd.name /\ inside
    /\ <<"result", n>> \in DOMAIN cxx => cxx[<<"result", n>>] = <<"result", at>>

Firsts(op, i) == {n \in op[i].nested : \A j \in 1 .. i - 1 : ~Nests(op[j], n)}
Writes(op, i) == CxxKnows(op[i].cxx, op[i], Firsts(op, i), InFunction(op, i), i)

IsRoutine(op, i) ==
  LET o == op[i] IN
  /\ o.name \in Names /\ o.function \in BOOLEAN /\ o.locals \subseteq Names /\ o.nested \subseteq Names
  /\ o.locals \cap o.nested = {}
  /\ o.function => {o.name, ResultName} \cap (o.locals \cup o.nested) = {}
  /\ InFunction(op, i) => ResultName \notin o.locals \cup o.nested
  /\ Writes(op, i)

IsConstruct(op, i) ==
  LET o == op[i] IN
  \/ o.kind = "routine" /\ IsRoutine(op, i)
  \/ o.kind = "with" /\ o.fields \subseteq Names /\ o.cxx = <<>>
  \/ /\ o.kind = "handler" /\ o.name \in Names \ {ResultName}
     /\ o.cxx = [x \in {<<"p", o.name>>} |-> <<"local", i, o.name>>]

\* Routines are opened first, so that the last routine is op[c].
Current(op, c) == c \in 0 .. Len(op) /\ \A i \in 1 .. Len(op) : op[i].kind = "routine" <=> i <= c

IsHistory(op) ==
  /\ IsSequence(op)
  /\ \A i \in 1 .. Len(op) : IsConstruct(op, i)
  /\ \E c \in Nat : Current(op, c) /\ (op # <<>> => c > 0)

\* The part of the view that is about results: f is the function around op[c].
Around(op, c, f) ==
  /\ f \in Nat /\ (f = 0 \/ f < c)
  /\ f > 0 => IsFunction(op[f])
  /\ \A i \in f + 1 .. c - 1 : ~IsFunction(op[i])
ResultsFollow(s, op, c, f) ==
  /\ c > 0 => s.fn_name = op[c].name
  /\ s.result_slot = IF c > 0 /\ IsFunction(op[c]) THEN Slot(op, c) ELSE <<>>
  /\ s.outer_name = IF f > 0 THEN op[f].name ELSE NoName
  /\ s.outer_slot = IF f > 0 THEN Slot(op, f) ELSE <<>>
  /\ s.bare_slot = IF c > 0 /\ IsFunction(op[c]) THEN s.result_slot ELSE s.outer_slot

Overloads(n) == {<<"p", n>>} \cup {<<"p", n, k>> : k \in Nat \ {0}}
NamesFollow(s, op) ==
  \A n \in Names :
    /\ n \in s.local_scope <=> \E i \in 1 .. Len(op) : Joins(op[i], n)
    /\ s.nested[n] \in Seq(Overloads(n))
    /\ s.nested[n] = <<>> <=> \A i \in 1 .. Len(op) : ~Nests(op[i], n)
    /\ s.nested[n] # <<>> => s.nested[n][1] = <<"p", n>>

WithsFollow(s, op) ==
  /\ IsSequence(s.with_stack)
  /\ \A k \in 1 .. Len(s.with_stack) :
       LET w == s.with_stack[k]
       IN w.at \in 1 .. Len(op) /\ op[w.at].kind = "with" /\ w.fields = op[w.at].fields
  /\ \A k, l \in 1 .. Len(s.with_stack) : k < l => s.with_stack[k].at < s.with_stack[l].at
  /\ \A i \in 1 .. Len(op) : op[i].kind = "with" => \E k \in 1 .. Len(s.with_stack) : s.with_stack[k].at = i

IsView(s) ==
  /\ DOMAIN s = {"fn_name", "result_slot", "bare_slot", "outer_name", "outer_slot", "local_scope", "nested",
                 "with_stack", "members", "unit", "emission"}
  /\ s.unit = Main /\ s.emission = Main
Follows(s, op) ==
  /\ IsView(s)
  /\ \E c \in Nat, f \in Nat : Current(op, c) /\ Around(op, c, f) /\ ResultsFollow(s, op, c, f)
  /\ NamesFollow(s, op)
  /\ WithsFollow(s, op)

LEMMA NothingIsOpen == IsHistory(<<>>) /\ Follows(NoScope, <<>>)
<1>1. IsSequence(<<>>) /\ Len(<<>>) = 0
  BY DEF IsSequence
<1>2. IsHistory(<<>>)
  BY <1>1 DEF IsHistory, Current
<1>3. Current(<<>>, 0) /\ Around(<<>>, 0, 0) /\ ResultsFollow(NoScope, <<>>, 0, 0)
  BY <1>1 DEF Current, Around, ResultsFollow, NoScope
<1>4. NamesFollow(NoScope, <<>>)
  BY <1>1 DEF NamesFollow, NoScope
<1>5. WithsFollow(NoScope, <<>>)
  BY <1>1 DEF WithsFollow, NoScope
<1>6. IsView(NoScope)
  BY DEF IsView, NoScope
<1>. QED BY <1>2, <1>3, <1>4, <1>5, <1>6 DEF Follows

\* A construct says no more than the ones before it.
LEMMA SameConstruct ==
  ASSUME NEW op, NEW q, NEW i \in Nat \ {0}, IsConstruct(op, i), \A j \in 1 .. i : q[j] = op[j]
  PROVE  IsConstruct(q, i) /\ Slot(q, i) = Slot(op, i) /\ (InFunction(q, i) <=> InFunction(op, i))
<1>1. q[i] = op[i] /\ \A j \in 1 .. i - 1 : q[j] = op[j]
  OBVIOUS
<1>2. InFunction(q, i) <=> InFunction(op, i)
  BY <1>1 DEF InFunction
<1>3. \A n : (\A j \in 1 .. i - 1 : ~Nests(q[j], n)) <=> (\A j \in 1 .. i - 1 : ~Nests(op[j], n))
  BY <1>1
<1>4. Writes(op, i) => Writes(q, i)
  <2>1. Firsts(q, i) = Firsts(op, i)
    BY <1>1, <1>3 DEF Firsts
  <2>. QED BY <1>1, <1>2, <2>1 DEF Writes, CxxKnows
<1>5. IsRoutine(op, i) => IsRoutine(q, i)
  BY <1>1, <1>2, <1>4 DEF IsRoutine
<1>. QED BY <1>1, <1>2, <1>5 DEF IsConstruct, Slot

LEMMA HistoryGrows ==
  ASSUME NEW op, IsHistory(op), NEW o, NEW q, q = Append(op, o), IsConstruct(q, Len(op) + 1),
         o.kind = "routine" => Len(op) = 0 \/ op[Len(op)].kind = "routine",
         Len(op) = 0 => o.kind = "routine"
  PROVE  IsHistory(q)
<1>1. PICK c \in Nat : Current(op, c) /\ (op # <<>> => c > 0)
  BY DEF IsHistory
<1>2. /\ IsSequence(op) /\ Len(op) \in Nat /\ (op = <<>> <=> Len(op) = 0)
      /\ IsSequence(q) /\ Len(q) = Len(op) + 1 /\ q[Len(op) + 1] = o /\ \A i \in 1 .. Len(op) : q[i] = op[i]
  BY AppendFacts, SequenceFacts DEF IsHistory
<1>3. \A i \in 1 .. Len(q) : IsConstruct(q, i)
  <2>1. ASSUME NEW i \in 1 .. Len(op) PROVE IsConstruct(q, i)
    <3>1. IsConstruct(op, i) /\ i \in Nat \ {0} /\ \A j \in 1 .. i : q[j] = op[j]
      BY <1>2 DEF IsHistory
    <3>. QED BY <3>1, SameConstruct
  <2>. QED BY <1>2, <2>1
<1>4. \E d \in Nat : Current(q, d) /\ d > 0
  <2>1. CASE o.kind = "routine"
    <3>1. c = Len(op)
      BY <1>1, <1>2, <2>1 DEF Current
    <3>2. Current(q, c + 1)
      BY <1>1, <1>2, <2>1, <3>1 DEF Current
    <3>. QED BY <3>2
  <2>2. CASE o.kind # "routine"
    <3>1. Current(q, c) /\ c > 0
      BY <1>1, <1>2, <2>2 DEF Current
    <3>. QED BY <3>1
  <2>. QED BY <2>1, <2>2
<1>. QED BY <1>2, <1>3, <1>4 DEF IsHistory

\* The text of each nested routine is numbered, unless it is the first of its name.
Numbered(s, pd, firsts) ==
  /\ \A n \in firsts : Last(s.nested[n]) = <<"p", n>>
  /\ \A n \in pd.nested \ firsts : \E k : Last(s.nested[n]) = <<"p", n, k>>
Declarable(pd) ==
  /\ pd.function \in BOOLEAN /\ pd.locals \subseteq Names /\ pd.nested \subseteq Names
  /\ pd.locals \cap pd.nested = {}
  /\ pd.function => ResultName \notin pd.locals \cup pd.nested
HasSlot(s, pd, inside) ==
  pd.function => s.result_slot = IF inside THEN <<"result", pd.name>> ELSE <<"p", ResultName>>

LEMMA CxxNames ==
  ASSUME NEW s, NEW pd, NEW at, Declarable(pd), NEW Fresh, Fresh \subseteq pd.nested, Numbered(s, pd, Fresh),
         NEW inside \in BOOLEAN, HasSlot(s, pd, inside)
  PROVE  CxxKnows(cxx_names(s, pd, at), pd, Fresh, inside, at)
<1>a. PICK c : c = cxx_names(s, pd, at)
  OBVIOUS
<1>b. SUFFICES ASSUME NEW n \in Names
      PROVE  /\ <<"p", n>> \in DOMAIN c <=> \/ n \in pd.locals \/ n \in Fresh
                                            \/ pd.function /\ n = ResultName /\ ~inside
             /\ <<"p", n>> \in DOMAIN c =>
                  c[<<"p", n>>] = IF n \in pd.locals \cup pd.nested THEN <<"local", at, n>> ELSE <<"result", at>>
             /\ <<"result", n>> \in DOMAIN c <=> pd.function /\ n = pd.name /\ inside
             /\ <<"result", n>> \in DOMAIN c => c[<<"result", n>>] = <<"result", at>>
  BY <1>a DEF CxxKnows
<1>c. /\ \A m \in Fresh : Last(s.nested[m]) = <<"p", m>>
      /\ \A m \in pd.nested \ Fresh : \E k : Last(s.nested[m]) = <<"p", m, k>>
  BY DEF Numbered
<1>d. /\ pd.function \in BOOLEAN /\ pd.locals \subseteq Names /\ pd.nested \subseteq Names
      /\ pd.locals \cap pd.nested = {}
      /\ pd.function => ResultName \notin pd.locals \cup pd.nested
      /\ pd.function => s.result_slot = IF inside THEN <<"result", pd.name>> ELSE <<"p", ResultName>>
  BY DEF Declarable, HasSlot
<1>1. PICK texts :
        texts =    {<<<<"p", m>>, <<"local", at, m>>>> : m \in pd.locals}
              \cup {<<Last(s.nested[m]), <<"local", at, m>>>> : m \in pd.nested}
              \cup {<<s.result_slot, <<"result", at>>>> : f \in {pd.function} \cap {TRUE}}
  OBVIOUS
<1>2. c = [x \in {t[1] : t \in texts} |-> (CHOOSE t \in texts : t[1] = x)[2]]
  BY <1>a, <1>1 DEF cxx_names
<1>3. ASSUME NEW x, NEW y PROVE <<x, y>> \in texts <=>
        \/ \E m \in pd.locals : x = <<"p", m>> /\ y = <<"local", at, m>>
        \/ \E m \in pd.nested : x = Last(s.nested[m]) /\ y = <<"local", at, m>>
        \/ pd.function /\ x = s.result_slot /\ y = <<"result", at>>
  BY <1>1
<1>4. \A t \in texts : t = <<t[1], t[2]>>
  BY <1>1
<1>5. ASSUME NEW x PROVE x \in DOMAIN c <=> \E y : <<x, y>> \in texts
  <2>1. \A t \in texts : t[1] = x => <<x, t[2]>> \in texts
    BY <1>4
  <2>2. \A y : <<x, y>> \in texts => x \in {t[1] : t \in texts}
    <3>1. \A y : <<x, y>>[1] = x
      OBVIOUS
    <3>. QED BY <3>1
  <2>3. DOMAIN c = {t[1] : t \in texts}
    BY <1>2
  <2>. QED BY <2>1, <2>2, <2>3
<1>6. ASSUME NEW x, NEW y, <<x, y>> \in texts, \A z : <<x, z>> \in texts => z = y PROVE c[x] = y
  <2>1. PICK t : t = CHOOSE u \in texts : u[1] = x
    OBVIOUS
  <2>2. t \in texts /\ t[1] = x
    <3>1. \E u \in texts : u[1] = x
      BY <1>6
    <3>. QED BY <2>1, <3>1
  <2>3. t[2] = y
    BY <2>2, <1>4, <1>6
  <2>4. x \in {u[1] : u \in texts}
    BY <2>2
  <2>. QED BY <1>2, <2>1, <2>3, <2>4
<1>7. ASSUME NEW m \in pd.nested PROVE
        /\ Last(s.nested[m]) = <<"p", n>> => m = n /\ m \in Fresh
        /\ Last(s.nested[m]) # <<"result", n>>
  <2>1. CASE m \in Fresh
    BY <2>1, <1>c
  <2>2. CASE m \notin Fresh
    <3>1. PICK k : Last(s.nested[m]) = <<"p", m, k>>
      BY <2>2, <1>c
    <3>2. <<"p", m, k>> # <<"p", n>> /\ <<"p", m, k>> # <<"result", n>>
      OBVIOUS
    <3>. QED BY <3>1, <3>2
  <2>. QED BY <2>1, <2>2
<1>8. ASSUME NEW y PROVE <<<<"p", n>>, y>> \in texts <=>
        \/ n \in pd.locals /\ y = <<"local", at, n>>
        \/ n \in Fresh /\ y = <<"local", at, n>>
        \/ pd.function /\ n = ResultName /\ ~inside /\ y = <<"result", at>>
  <2>1. (\E m \in pd.locals : <<"p", n>> = <<"p", m>> /\ y = <<"local", at, m>>)
          <=> n \in pd.locals /\ y = <<"local", at, n>>
    OBVIOUS
  <2>2. (\E m \in pd.nested : <<"p", n>> = Last(s.nested[m]) /\ y = <<"local", at, m>>)
          <=> n \in Fresh /\ y = <<"local", at, n>>
    BY <1>7, <1>c
  <2>3. pd.function => (<<"p", n>> = s.result_slot <=> n = ResultName /\ ~inside)
    BY <1>d
  <2>. QED BY <1>d, <1>3, <2>1, <2>2, <2>3
<1>9. ASSUME NEW y PROVE <<<<"result", n>>, y>> \in texts <=>
        pd.function /\ n = pd.name /\ inside /\ y = <<"result", at>>
  <2>1. \A m \in pd.locals : <<"result", n>> # <<"p", m>>
    OBVIOUS
  <2>2. pd.function => (<<"result", n>> = s.result_slot <=> n = pd.name /\ inside)
    BY <1>d
  <2>. QED BY <1>3, <1>7, <2>1, <2>2
<1>10. <<"p", n>> \in DOMAIN c <=> \/ n \in pd.locals \/ n \in Fresh
                                   \/ pd.function /\ n = ResultName /\ ~inside
  BY <1>5, <1>8
<1>11. <<"p", n>> \in DOMAIN c =>
         c[<<"p", n>>] = IF n \in pd.locals \cup pd.nested THEN <<"local", at, n>> ELSE <<"result", at>>
  <2>1. CASE n \in pd.locals \/ n \in Fresh
    <3>1. \A y : <<<<"p", n>>, y>> \in texts <=> y = <<"local", at, n>>
      BY <1>8, <2>1, <1>d
    <3>2. PICK x, y : x = <<"p", n>> /\ y = <<"local", at, n>>
      OBVIOUS
    <3>3. \A z : <<x, z>> \in texts <=> z = y
      BY <3>1, <3>2
    <3>4. c[x] = y
      BY <3>3, <1>6
    <3>. QED BY <3>2, <3>4, <2>1
  <2>2. CASE pd.function /\ n = ResultName /\ ~inside
    <3>1. \A y : <<<<"p", n>>, y>> \in texts <=> y = <<"result", at>>
      BY <1>8, <2>2, <1>d
    <3>2. PICK x, y : x = <<"p", n>> /\ y = <<"result", at>>
      OBVIOUS
    <3>3. \A z : <<x, z>> \in texts <=> z = y
      BY <3>1, <3>2
    <3>4. c[x] = y
      BY <3>3, <1>6
    <3>. QED BY <3>2, <3>4, <2>2, <1>d
  <2>. QED BY <1>10, <2>1, <2>2
<1>12. <<"result", n>> \in DOMAIN c <=> pd.function /\ n = pd.name /\ inside
  BY <1>5, <1>9
<1>13. <<"result", n>> \in DOMAIN c => c[<<"result", n>>] = <<"result", at>>
  <2>1. SUFFICES ASSUME pd.function /\ n = pd.name /\ inside PROVE c[<<"result", n>>] = <<"result", at>>
    BY <1>12
  <2>2. \A y : <<<<"result", n>>, y>> \in texts <=> y = <<"result", at>>
    BY <1>9, <2>1
  <2>3. PICK x, y : x = <<"result", n>> /\ y = <<"result", at>>
    OBVIOUS
  <2>4. \A z : <<x, z>> \in texts <=> z = y
    BY <2>2, <2>3
  <2>5. c[x] = y
    BY <2>4, <1>6
  <2>. QED BY <2>3, <2>5
<1>. QED BY <1>10, <1>11, <1>12, <1>13

\* One more overload.
LEMMA OneMoreOverload ==
  ASSUME NEW m, NEW x \in Seq(Overloads(m)), NEW y \in Overloads(m),
         x = <<>> => y = <<"p", m>>, x # <<>> => x[1] = <<"p", m>>
  PROVE  /\ Append(x, y) \in Seq(Overloads(m)) /\ Append(x, y) # <<>>
         /\ Append(x, y)[1] = <<"p", m>> /\ Last(Append(x, y)) = y
<1>1. PICK T : T = Overloads(m)
  OBVIOUS
<1>2. x \in Seq(T) /\ y \in T
  BY <1>1
<1>3. Append(x, y) \in Seq(T) /\ Len(Append(x, y)) = Len(x) + 1 /\ Append(x, y)[Len(x) + 1] = y
  BY <1>2
<1>4. x # <<>> => Len(x) > 0 /\ Append(x, y)[1] = x[1]
  BY <1>2
<1>5. x = <<>> => Len(x) = 0
  OBVIOUS
<1>. QED BY <1>1, <1>3, <1>4, <1>5 DEF Last

\* What a routine opens: its result, that of the function around it, its names.
LEMMA BodyFollows ==
  ASSUME NEW op, IsHistory(op), NEW s, Follows(s, op), NEW name \in Names, NEW pd \in Routine(name),
         Len(op) = 0 \/ op[Len(op)].kind = "routine",
         s.bare_slot # <<>> => ResultName \notin pd.locals \cup pd.nested,
         NEW body, body = seed_proc_scope(setup_proc_frame(s, pd), pd),
         NEW o, o = [pd EXCEPT !.cxx = cxx_names(body, pd, Len(op) + 1)]
  PROVE  IsHistory(Append(op, o)) /\ Follows(body, Append(op, o)) /\ body.members = s.members
<1>1. /\ pd.kind = "routine" /\ pd.name = name /\ pd.function \in BOOLEAN
      /\ pd.locals \subseteq Names /\ pd.nested \subseteq Names /\ pd.locals \cap pd.nested = {}
      /\ pd.function => {pd.name, ResultName} \cap (pd.locals \cup pd.nested) = {}
      /\ o.kind = "routine" /\ o.name = pd.name /\ o.function = pd.function /\ o.locals = pd.locals
      /\ o.nested = pd.nested /\ o.cxx = cxx_names(body, pd, Len(op) + 1)
  BY DEF Routine
<1>0. IsSequence(op) /\ Len(op) \in Nat /\ (op = <<>> <=> Len(op) = 0)
  BY SequenceFacts DEF IsHistory
<1>2a. PICK n \in Nat \ {0} : n = Len(op) + 1
  BY <1>0
<1>2. PICK q : q = Append(op, o)
  OBVIOUS
<1>3. /\ IsSequence(op) /\ Len(op) \in Nat /\ (op = <<>> <=> Len(op) = 0) /\ n = Len(op) + 1
      /\ IsSequence(q) /\ Len(q) = n /\ q[n] = o /\ (\A i \in 1 .. Len(op) : q[i] = op[i])
      /\ \A i \in 1 .. Len(op) : IsConstruct(op, i)
  <2>1. \A i \in 1 .. Len(op) : IsConstruct(op, i)
    BY DEF IsHistory
  <2>. QED BY <1>0, <1>2a, <1>2, <2>1, AppendFacts
<1>4. PICK c \in Nat, f \in Nat : Current(op, c) /\ Around(op, c, f) /\ ResultsFollow(s, op, c, f)
  BY DEF Follows
<1>5. c = Len(op)
  BY <1>3, <1>4 DEF Current
<1>6. PICK g \in Nat : g = IF c > 0 /\ IsFunction(op[c]) THEN c ELSE f
  OBVIOUS
<1>7. Current(q, n) /\ Around(q, n, g)
  <2>1. Current(q, n)
    <3>1. \A i \in 1 .. Len(op) : op[i].kind = "routine"
      BY <1>3, <1>4, <1>5 DEF Current
    <3>2. \A i \in 1 .. n : q[i].kind = "routine"
      <4>1. \A i \in 1 .. n : i = n \/ i \in 1 .. Len(op)
        BY <1>0, <1>2a
      <4>. QED BY <3>1, <4>1, <1>1, <1>3
    <3>. QED BY <3>2, <1>3 DEF Current
  <2>2. Around(q, n, g)
    BY <1>3, <1>4, <1>5, <1>6 DEF Around
  <2>. QED BY <2>1, <2>2
<1>8. \A i \in 1 .. Len(op) : IsConstruct(q, i) /\ Slot(q, i) = Slot(op, i) /\ Slot(op, i) # <<>>
  <2>1. ASSUME NEW i \in 1 .. Len(op) PROVE IsConstruct(q, i) /\ Slot(q, i) = Slot(op, i)
    <3>1. IsConstruct(op, i) /\ i \in Nat \ {0} /\ \A j \in 1 .. i : q[j] = op[j]
      BY <1>3
    <3>. QED BY <3>1, SameConstruct
  <2>. QED BY <2>1 DEF Slot
<1>9. InFunction(q, n) <=> g > 0
  BY <1>7 DEF InFunction, Around
<1>10. g > 0 => g \in 1 .. Len(op) /\ op[g].name \in Names /\ op[g].name # NoName
  <2>1. SUFFICES ASSUME g > 0 PROVE g \in 1 .. Len(op) /\ op[g].name \in Names
    BY NameLookupAssumption
  <2>2. g \in 1 .. Len(op) /\ IsFunction(op[g])
    BY <2>1, <1>4, <1>5, <1>6, <1>3 DEF Around
  <2>3. IsConstruct(op, g) /\ op[g].kind = "routine"
    BY <2>2, <1>3 DEF IsFunction
  <2>. QED BY <2>2, <2>3 DEF IsConstruct, IsRoutine
<1>11. PICK t : t = setup_proc_frame(s, pd)
  OBVIOUS
<1>12. IsView(s)
  BY DEF Follows
<1>13. /\ IsView(t) /\ t.fn_name = pd.name /\ t.local_scope = s.local_scope /\ t.nested = s.nested
       /\ t.with_stack = s.with_stack /\ t.members = s.members
       /\ t.outer_name = (IF s.result_slot # <<>> THEN s.fn_name ELSE s.outer_name)
       /\ t.outer_slot = (IF s.result_slot # <<>> THEN s.result_slot ELSE s.outer_slot)
       /\ t.result_slot = (IF pd.function THEN slot_name(pd, t.outer_name) ELSE <<>>)
       /\ t.bare_slot = (IF pd.function THEN t.result_slot ELSE t.outer_slot)
  BY <1>11, <1>12 DEF setup_proc_frame, IsView
<1>14. /\ IsView(body) /\ body.fn_name = pd.name /\ body.outer_name = t.outer_name
       /\ body.outer_slot = t.outer_slot /\ body.result_slot = t.result_slot /\ body.bare_slot = t.bare_slot
       /\ body.with_stack = s.with_stack /\ body.members = s.members
       /\ body.local_scope = s.local_scope \cup pd.locals \cup pd.nested
       /\ \A m \in Names : body.nested[m] = IF m \in pd.nested THEN Append(s.nested[m], nested_name(t, m))
                                            ELSE s.nested[m]
  BY <1>11, <1>13 DEF seed_proc_scope, IsView
<1>15. body.outer_name = (IF g > 0 THEN op[g].name ELSE NoName) /\ body.outer_slot = (IF g > 0 THEN Slot(op, g) ELSE <<>>)
  <2>1. s.result_slot # <<>> <=> c > 0 /\ IsFunction(op[c])
    BY <1>3, <1>4, <1>5, <1>8 DEF ResultsFollow
  <2>. QED BY <2>1, <1>4, <1>6, <1>13, <1>14 DEF ResultsFollow
<1>16. body.result_slot = IF IsFunction(q[n]) THEN Slot(q, n) ELSE <<>>
  <2>1. IsFunction(q[n]) <=> pd.function
    BY <1>1, <1>3 DEF IsFunction
  <2>2. body.outer_name = NoName <=> ~InFunction(q, n)
    BY <1>9, <1>10, <1>15
  <2>3. slot_name(pd, body.outer_name) = Slot(q, n)
    BY <2>2, <1>1, <1>3 DEF slot_name, Slot
  <2>. QED BY <2>1, <2>3, <1>13, <1>14
<1>17. ResultsFollow(body, q, n, g)
  BY <1>1, <1>3, <1>8, <1>10, <1>13, <1>14, <1>15, <1>16 DEF ResultsFollow, IsFunction
<1>18. ASSUME NEW m \in Names
       PROVE  /\ s.nested[m] \in Seq(Overloads(m)) /\ (s.nested[m] # <<>> => s.nested[m][1] = <<"p", m>>)
              /\ s.nested[m] = <<>> <=> \A i \in 1 .. Len(op) : ~Nests(op[i], m)
              /\ m \in s.local_scope <=> \E i \in 1 .. Len(op) : Joins(op[i], m)
  BY DEF Follows, NamesFollow
<1>19. ASSUME NEW m \in pd.nested
       PROVE  /\ body.nested[m] \in Seq(Overloads(m)) /\ body.nested[m] # <<>>
              /\ body.nested[m][1] = <<"p", m>>
              /\ IF s.nested[m] = <<>> THEN Last(body.nested[m]) = <<"p", m>>
                 ELSE \E k : Last(body.nested[m]) = <<"p", m, k>>
  <2>1. PICK x \in Seq(Overloads(m)) : x = s.nested[m]
    BY <1>1, <1>18
  <2>2. PICK y : y = nested_name(t, m)
    OBVIOUS
  <2>3. y = IF x = <<>> THEN <<"p", m>> ELSE <<"p", m, Len(x)>>
    BY <2>1, <2>2, <1>13 DEF nested_name
  <2>4. y \in Overloads(m)
    <3>1. x # <<>> => Len(x) \in Nat \ {0}
      OBVIOUS
    <3>. QED BY <2>3, <3>1 DEF Overloads
  <2>5. body.nested[m] = Append(x, y)
    BY <1>1, <1>14, <2>1, <2>2
  <2>6. x # <<>> => x[1] = <<"p", m>>
    BY <1>1, <1>18, <2>1
  <2>7. x = <<>> => y = <<"p", m>>
    BY <2>3
  <2>8. /\ Append(x, y) \in Seq(Overloads(m)) /\ Append(x, y) # <<>>
        /\ Append(x, y)[1] = <<"p", m>> /\ Last(Append(x, y)) = y
    BY <2>4, <2>6, <2>7, OneMoreOverload
  <2>. QED BY <2>1, <2>3, <2>5, <2>8
<1>20. NamesFollow(body, q)
  <2>1. ASSUME NEW m \in Names PROVE m \in body.local_scope <=> \E i \in 1 .. Len(q) : Joins(q[i], m)
    <3>1. (\E i \in 1 .. Len(q) : Joins(q[i], m)) <=> (\E i \in 1 .. Len(op) : Joins(op[i], m)) \/ Joins(o, m)
      BY <1>3
    <3>2. Joins(o, m) <=> m \in pd.locals \cup pd.nested
      BY <1>1 DEF Joins
    <3>. QED BY <3>1, <3>2, <1>14, <1>18
  <2>2. ASSUME NEW m \in Names
        PROVE  /\ body.nested[m] \in Seq(Overloads(m)) /\ (body.nested[m] # <<>> => body.nested[m][1] = <<"p", m>>)
               /\ body.nested[m] = <<>> <=> \A i \in 1 .. Len(q) : ~Nests(q[i], m)
    <3>1. (\A i \in 1 .. Len(q) : ~Nests(q[i], m)) <=> (\A i \in 1 .. Len(op) : ~Nests(op[i], m)) /\ ~Nests(o, m)
      BY <1>3
    <3>2. Nests(o, m) <=> m \in pd.nested
      BY <1>1 DEF Nests
    <3>3. CASE m \in pd.nested
      BY <3>1, <3>2, <3>3, <1>19
    <3>4. CASE m \notin pd.nested
      BY <3>1, <3>2, <3>4, <1>14, <1>18
    <3>. QED BY <3>3, <3>4
  <2>. QED BY <2>1, <2>2 DEF NamesFollow
<1>21. WithsFollow(body, q)
  <2>1. WithsFollow(s, op)
    BY DEF Follows
  <2>2. \A i \in 1 .. n : q[i].kind = "with" => i \in 1 .. Len(op)
    <3>1. \A i \in 1 .. n : i = n \/ i \in 1 .. Len(op)
      BY <1>0, <1>2a
    <3>. QED BY <3>1, <1>1, <1>3
  <2>3. PICK l \in Nat : l = Len(op)
    BY <1>0
  <2>4. \A i \in 1 .. l : i \in 1 .. n /\ q[i] = op[i]
    BY <2>3, <1>3
  <2>. QED BY <2>1, <2>2, <2>3, <2>4, <1>3, <1>14 DEF WithsFollow
<1>22. Writes(q, n)
  <2>1. PICK Fresh \in SUBSET pd.nested : Fresh = {m \in pd.nested : s.nested[m] = <<>>}
    OBVIOUS
  <2>2. Numbered(body, pd, Fresh)
    BY <2>1, <1>19 DEF Numbered
  <2>3. PICK inside \in BOOLEAN : inside <=> InFunction(q, n)
    OBVIOUS
  <2>4. pd.function => body.result_slot = IF inside THEN <<"result", pd.name>> ELSE <<"p", ResultName>>
    BY <2>3, <1>1, <1>3, <1>16 DEF IsFunction, Slot
  <2>5. pd.function => ResultName \notin pd.locals \cup pd.nested
    BY <1>1
  <2>6. Fresh = Firsts(q, n)
    <3>1. ASSUME NEW m \in pd.nested
          PROVE  (\A j \in 1 .. n - 1 : ~Nests(q[j], m)) <=> s.nested[m] = <<>>
      <4>1. (\A j \in 1 .. n - 1 : ~Nests(q[j], m)) <=> \A i \in 1 .. Len(op) : ~Nests(op[i], m)
        BY <1>3
      <4>. QED BY <4>1, <1>1, <1>18
    <3>. QED BY <3>1, <2>1, <1>1, <1>3 DEF Firsts
  <2>7. CxxKnows(cxx_names(body, pd, n), pd, Fresh, inside, n)
    <3>2. pd.locals \subseteq Names /\ pd.nested \subseteq Names /\ pd.locals \cap pd.nested = {} /\ pd.function \in BOOLEAN
      BY <1>1
    <3>3. Declarable(pd)
      BY <3>2, <2>5 DEF Declarable
    <3>4. HasSlot(body, pd, inside)
      BY <2>4 DEF HasSlot
    <3>. QED BY <3>3, <3>4, <2>2, CxxNames
  <2>8. q[n] = o /\ o.cxx = cxx_names(body, pd, n)
    BY <1>1, <1>3
  <2>9. CxxKnows(o.cxx, o, Fresh, inside, n)
    BY <2>7, <2>8, <1>1 DEF CxxKnows
  <2>. QED BY <2>3, <2>6, <2>8, <2>9 DEF Writes, CxxKnows
<1>23. IsConstruct(q, n)
  <2>1. InFunction(q, n) => s.bare_slot # <<>>
    BY <1>3, <1>4, <1>6, <1>8, <1>9, <1>10 DEF ResultsFollow
  <2>. QED BY <2>1, <1>1, <1>3, <1>22 DEF IsConstruct, IsRoutine
<1>24. IsHistory(q)
  <2>1. IsConstruct(q, Len(op) + 1) /\ o.kind = "routine"
    BY <1>1, <1>3, <1>23
  <2>. QED BY <2>1, <1>2, HistoryGrows
<1>25. Follows(body, q)
  BY <1>7, <1>14, <1>17, <1>20, <1>21 DEF Follows
<1>. QED BY <1>2, <1>14, <1>24, <1>25

\* A statement leaves what is known of results as it was.
LEMMA ResultsAreKept ==
  ASSUME NEW op, IsHistory(op), NEW o, o.kind # "routine", NEW s, NEW t,
         t.fn_name = s.fn_name, t.result_slot = s.result_slot, t.bare_slot = s.bare_slot,
         t.outer_name = s.outer_name, t.outer_slot = s.outer_slot,
         NEW c \in Nat, NEW f \in Nat, Current(op, c), Around(op, c, f), ResultsFollow(s, op, c, f)
  PROVE  LET q == Append(op, o) IN Current(q, c) /\ Around(q, c, f) /\ ResultsFollow(t, q, c, f)
<1>1. PICK q : q = Append(op, o)
  OBVIOUS
<1>2. PICK l \in Nat : l = Len(op)
  BY SequenceFacts DEF IsHistory
<1>3. /\ Len(q) = l + 1 /\ q[l + 1] = o /\ (\A i \in 1 .. l : q[i] = op[i])
      /\ \A i \in 1 .. l : IsConstruct(op, i)
  BY <1>1, <1>2, AppendFacts DEF IsHistory
<1>4. c \in 0 .. l /\ (f = 0 \/ f \in 1 .. l) /\ \A i \in f + 1 .. c - 1 : i \in 1 .. l
  BY <1>2 DEF Current, Around
<1>5. Current(q, c)
  <2>1. \A i \in 1 .. l : q[i].kind = "routine" <=> i <= c
    BY <1>2, <1>3 DEF Current
  <2>2. \A i \in 1 .. l + 1 : i \in 1 .. l \/ i = l + 1
    OBVIOUS
  <2>. QED BY <2>1, <2>2, <1>2, <1>3, <1>4 DEF Current
<1>6. Around(q, c, f)
  BY <1>3, <1>4 DEF Around
<1>7. \A i \in 1 .. l : Slot(q, i) = Slot(op, i)
  <2>1. ASSUME NEW i \in 1 .. l PROVE Slot(q, i) = Slot(op, i)
    <3>1. IsConstruct(op, i) /\ i \in Nat \ {0} /\ \A j \in 1 .. i : q[j] = op[j]
      BY <1>3
    <3>. QED BY <3>1, SameConstruct
  <2>. QED BY <2>1
<1>8. ResultsFollow(t, q, c, f)
  BY <1>3, <1>4, <1>7 DEF ResultsFollow
<1>. QED BY <1>1, <1>5, <1>6, <1>8

LEMMA WithFollows ==
  ASSUME NEW op, IsHistory(op), Len(op) > 0, NEW s, Follows(s, op), NEW fields \in SUBSET Names,
         NEW o, o = [kind |-> "with", fields |-> fields, cxx |-> <<>>],
         NEW t, t = [s EXCEPT !.with_stack = Append(@, [at |-> Len(op) + 1, fields |-> fields])]
  PROVE  IsHistory(Append(op, o)) /\ Follows(t, Append(op, o)) /\ t.members = s.members
<1>1. PICK q : q = Append(op, o)
  OBVIOUS
<1>2. PICK l \in Nat : l = Len(op)
  BY SequenceFacts DEF IsHistory
<1>3. /\ IsSequence(q) /\ Len(q) = l + 1 /\ q[l + 1] = o /\ (\A i \in 1 .. l : q[i] = op[i])
      /\ \A i \in 1 .. l + 1 : i \in 1 .. l \/ i = l + 1
  BY <1>1, <1>2, AppendFacts DEF IsHistory
<1>4. o.kind = "with" /\ o.fields = fields /\ o.cxx = <<>>
  OBVIOUS
<1>5. IsHistory(q)
  <2>1. IsConstruct(q, l + 1)
    BY <1>3, <1>4 DEF IsConstruct
  <2>2. IsConstruct(q, Len(op) + 1) /\ o.kind # "routine" /\ Len(op) # 0
    BY <2>1, <1>2, <1>4
  <2>. QED BY <2>2, <1>1, HistoryGrows
<1>6. PICK w : w = [at |-> l + 1, fields |-> fields]
  OBVIOUS
<1>7. IsView(s) /\ WithsFollow(s, op) /\ NamesFollow(s, op)
  BY DEF Follows
<1>8. /\ IsView(t) /\ t.fn_name = s.fn_name /\ t.result_slot = s.result_slot /\ t.bare_slot = s.bare_slot
      /\ t.outer_name = s.outer_name /\ t.outer_slot = s.outer_slot /\ t.members = s.members
      /\ t.local_scope = s.local_scope /\ t.nested = s.nested /\ t.with_stack = Append(s.with_stack, w)
  BY <1>2, <1>6, <1>7 DEF IsView
<1>9. \E c \in Nat, f \in Nat : Current(q, c) /\ Around(q, c, f) /\ ResultsFollow(t, q, c, f)
  <2>1. PICK c \in Nat, f \in Nat : Current(op, c) /\ Around(op, c, f) /\ ResultsFollow(s, op, c, f)
    BY DEF Follows
  <2>2. o.kind # "routine"
    BY <1>4
  <2>. QED BY <2>1, <2>2, <1>1, <1>8, ResultsAreKept
<1>10. NamesFollow(t, q)
  <2>1. \A n : ~Joins(o, n) /\ ~Nests(o, n)
    BY <1>4 DEF Joins, Nests
  <2>2. ASSUME NEW n \in Names
        PROVE  /\ n \in s.local_scope <=> \E i \in 1 .. l : Joins(op[i], n)
               /\ s.nested[n] \in Seq(Overloads(n))
               /\ s.nested[n] = <<>> <=> \A i \in 1 .. l : ~Nests(op[i], n)
               /\ s.nested[n] # <<>> => s.nested[n][1] = <<"p", n>>
    BY <1>2, <1>7 DEF NamesFollow
  <2>3. ASSUME NEW n \in Names
        PROVE  /\ (\E i \in 1 .. l + 1 : Joins(q[i], n)) <=> (\E i \in 1 .. l : Joins(op[i], n))
               /\ (\A i \in 1 .. l + 1 : ~Nests(q[i], n)) <=> (\A i \in 1 .. l : ~Nests(op[i], n))
    BY <2>1, <1>3
  <2>. QED BY <2>2, <2>3, <1>3, <1>8 DEF NamesFollow
<1>11. WithsFollow(t, q)
  <2>0. PICK ws : ws = s.with_stack /\ IsSequence(ws)
    BY <1>7 DEF WithsFollow
  <2>1. PICK m \in Nat : m = Len(ws)
    BY <2>0, SequenceFacts
  <2>2. PICK xs : xs = Append(ws, w)
    OBVIOUS
  <2>3. /\ IsSequence(xs) /\ Len(xs) = m + 1 /\ xs[m + 1] = w /\ (\A k \in 1 .. m : xs[k] = ws[k])
        /\ \A k \in 1 .. m + 1 : k \in 1 .. m \/ k = m + 1
    BY <2>0, <2>1, <2>2, AppendFacts
  <2>4. /\ \A k \in 1 .. m : ws[k].at \in 1 .. l /\ op[ws[k].at].kind = "with" /\ ws[k].fields = op[ws[k].at].fields
        /\ \A k, j \in 1 .. m : k < j => ws[k].at < ws[j].at
        /\ \A i \in 1 .. l : op[i].kind = "with" => \E k \in 1 .. m : ws[k].at = i
    BY <1>2, <1>7, <2>0, <2>1 DEF WithsFollow
  <2>5. w.at = l + 1 /\ w.fields = fields
    BY <1>6
  <2>6. ASSUME NEW k \in 1 .. m + 1
        PROVE  xs[k].at \in 1 .. l + 1 /\ q[xs[k].at].kind = "with" /\ xs[k].fields = q[xs[k].at].fields
    <3>1. CASE k = m + 1
      BY <3>1, <2>3, <2>5, <1>3, <1>4
    <3>2. CASE k \in 1 .. m
      <4>1. PICK i \in 1 .. l : i = ws[k].at
        BY <3>2, <2>4
      <4>. QED BY <4>1, <3>2, <2>3, <2>4, <1>3
    <3>. QED BY <3>1, <3>2, <2>3
  <2>7. ASSUME NEW k \in 1 .. m + 1, NEW j \in 1 .. m + 1, k < j PROVE xs[k].at < xs[j].at
    <3>1. k \in 1 .. m /\ xs[k] = ws[k] /\ ws[k].at \in 1 .. l
      BY <2>3, <2>4, <2>7
    <3>2. CASE j = m + 1
      BY <3>1, <3>2, <2>3, <2>5
    <3>3. CASE j \in 1 .. m
      BY <3>1, <3>3, <2>3, <2>4, <2>7
    <3>. QED BY <3>2, <3>3, <2>3
  <2>8. ASSUME NEW i \in 1 .. l + 1, q[i].kind = "with" PROVE \E k \in 1 .. m + 1 : xs[k].at = i
    <3>1. CASE i = l + 1
      <4>1. m + 1 \in 1 .. m + 1
        OBVIOUS
      <4>. QED BY <4>1, <3>1, <2>3, <2>5
    <3>2. CASE i \in 1 .. l
      <4>1. PICK k \in 1 .. m : ws[k].at = i
        BY <3>2, <2>4, <2>8, <1>3
      <4>. QED BY <4>1, <2>3
    <3>. QED BY <3>1, <3>2, <1>3
  <2>9. t.with_stack = xs
    BY <1>8, <2>0, <2>2
  <2>. QED BY <2>3, <2>6, <2>7, <2>8, <2>9, <1>3 DEF WithsFollow
<1>. QED BY <1>1, <1>5, <1>8, <1>9, <1>10, <1>11 DEF Follows

Handler(name, at) ==
  [kind |-> "handler", name |-> name, cxx |-> [x \in {<<"p", name>>} |-> <<"local", at, name>>]]

LEMMA HandlerFollows ==
  ASSUME NEW op, IsHistory(op), Len(op) > 0, NEW s, Follows(s, op), NEW name \in Names \ {ResultName},
         NEW o, o = Handler(name, Len(op) + 1),
         NEW t, t = [s EXCEPT !.local_scope = @ \cup {name}]
  PROVE  IsHistory(Append(op, o)) /\ Follows(t, Append(op, o)) /\ t.members = s.members
<1>1. PICK q : q = Append(op, o)
  OBVIOUS
<1>2. PICK l \in Nat : l = Len(op)
  BY SequenceFacts DEF IsHistory
<1>3. /\ IsSequence(q) /\ Len(q) = l + 1 /\ q[l + 1] = o /\ (\A i \in 1 .. l : q[i] = op[i])
      /\ \A i \in 1 .. l + 1 : i \in 1 .. l \/ i = l + 1
  BY <1>1, <1>2, AppendFacts DEF IsHistory
<1>4. o.kind = "handler" /\ o.name = name /\ o.cxx = [x \in {<<"p", name>>} |-> <<"local", l + 1, name>>]
  BY <1>2 DEF Handler
<1>5. IsHistory(q)
  <2>1. IsConstruct(q, l + 1)
    BY <1>3, <1>4 DEF IsConstruct
  <2>2. IsConstruct(q, Len(op) + 1) /\ o.kind # "routine" /\ Len(op) # 0
    BY <2>1, <1>2, <1>4
  <2>. QED BY <2>2, <1>1, HistoryGrows
<1>7. IsView(s) /\ WithsFollow(s, op) /\ NamesFollow(s, op)
  BY DEF Follows
<1>8. /\ IsView(t) /\ t.fn_name = s.fn_name /\ t.result_slot = s.result_slot /\ t.bare_slot = s.bare_slot
      /\ t.outer_name = s.outer_name /\ t.outer_slot = s.outer_slot /\ t.members = s.members
      /\ t.local_scope = s.local_scope \cup {name} /\ t.nested = s.nested /\ t.with_stack = s.with_stack
  BY <1>7 DEF IsView
<1>9. \E c \in Nat, f \in Nat : Current(q, c) /\ Around(q, c, f) /\ ResultsFollow(t, q, c, f)
  <2>1. PICK c \in Nat, f \in Nat : Current(op, c) /\ Around(op, c, f) /\ ResultsFollow(s, op, c, f)
    BY DEF Follows
  <2>2. o.kind # "routine"
    BY <1>4
  <2>. QED BY <2>1, <2>2, <1>1, <1>8, ResultsAreKept
<1>10. NamesFollow(t, q)
  <2>1. \A n : (Joins(o, n) <=> n = name) /\ ~Nests(o, n)
    BY <1>4 DEF Joins, Nests
  <2>2. ASSUME NEW n \in Names
        PROVE  /\ n \in s.local_scope <=> \E i \in 1 .. l : Joins(op[i], n)
               /\ s.nested[n] \in Seq(Overloads(n))
               /\ s.nested[n] = <<>> <=> \A i \in 1 .. l : ~Nests(op[i], n)
               /\ s.nested[n] # <<>> => s.nested[n][1] = <<"p", n>>
    BY <1>2, <1>7 DEF NamesFollow
  <2>3. ASSUME NEW n \in Names
        PROVE  /\ (\E i \in 1 .. l + 1 : Joins(q[i], n)) <=> (\E i \in 1 .. l : Joins(op[i], n)) \/ n = name
               /\ (\A i \in 1 .. l + 1 : ~Nests(q[i], n)) <=> (\A i \in 1 .. l : ~Nests(op[i], n))
    BY <2>1, <1>3
  <2>. QED BY <2>2, <2>3, <1>3, <1>8 DEF NamesFollow
<1>11. WithsFollow(t, q)
  <2>1. q[l + 1].kind # "with"
    BY <1>3, <1>4
  <2>2. \A i \in 1 .. l : i \in 1 .. l + 1
    OBVIOUS
  <2>3. \A i \in 1 .. l + 1 : q[i].kind = "with" => i \in 1 .. l
    BY <2>1, <1>3
  <2>. QED BY <2>2, <2>3, <1>2, <1>3, <1>7, <1>8 DEF WithsFollow
<1>. QED BY <1>1, <1>5, <1>8, <1>9, <1>10, <1>11 DEF Follows

-----------------------------------------------------------------------------
(* The invariant: every view, the present one and those that are saved,    *)
(* follows the constructs that were open when it was made.                 *)

ViewHolds(s, op, class) ==
  IsHistory(op) /\ Follows(s, op) /\ s.members = IF op = <<>> THEN {} ELSE class
View(k) == IF k < Len(opened) THEN saved[k + 1] ELSE scope
NamesInv ==
  /\ IsSequence(saved) /\ IsSequence(opened) /\ Len(saved) = Len(opened)
  /\ world \in Worlds /\ members \in SUBSET Names
  /\ \A k \in 0 .. Len(opened) : ViewHolds(View(k), SubSeq(opened, 1, k), members)

LEMMA PresentView == NamesInv => ViewHolds(scope, opened, members)
<1>1. SUFFICES ASSUME NamesInv PROVE ViewHolds(scope, opened, members)
  OBVIOUS
<1>2. SubSeq(opened, 1, Len(opened)) = opened /\ Len(opened) \in 0 .. Len(opened) /\ View(Len(opened)) = scope
  BY <1>1, WholeIsPart, SequenceFacts DEF NamesInv, View
<1>. QED BY <1>1, <1>2 DEF NamesInv

LEMMA Entered ==
  ASSUME NamesInv, NEW o, NEW s, Enter(o, s), world' = world, members' \in SUBSET Names,
         opened # <<>> => members' = members, ViewHolds(s, Append(opened, o), members')
  PROVE  NamesInv'
<1>1. PICK l \in Nat : l = Len(opened) /\ l = Len(saved) /\ (opened = <<>> <=> l = 0)
  BY SequenceFacts DEF NamesInv
<1>2. saved' = Append(saved, scope) /\ scope' = s /\ opened' = Append(opened, o)
  BY DEF Enter
<1>3. /\ IsSequence(saved') /\ IsSequence(opened') /\ Len(saved') = l + 1 /\ Len(opened') = l + 1
      /\ saved'[l + 1] = scope /\ \A k \in 1 .. l : saved'[k] = saved[k]
  BY <1>1, <1>2, AppendFacts DEF NamesInv
<1>4. ASSUME NEW k \in 0 .. l + 1 PROVE ViewHolds(View(k)', SubSeq(opened', 1, k), members')
  <2>1. CASE k = l + 1
    <3>1. SubSeq(opened', 1, k) = opened' /\ View(k)' = s
      BY <2>1, <1>2, <1>3, WholeIsPart DEF View
    <3>. QED BY <3>1, <1>2
  <2>2. CASE k \in 0 .. l
    <3>1. View(k)' = View(k)
      BY <2>2, <1>1, <1>3 DEF View
    <3>2. SubSeq(opened', 1, k) = SubSeq(opened, 1, k)
      BY <2>2, <1>1, <1>2, PartOfAppended DEF NamesInv
    <3>3. ViewHolds(View(k), SubSeq(opened, 1, k), members)
      BY <2>2, <1>1 DEF NamesInv
    <3>4. CASE opened # <<>>
      BY <3>1, <3>2, <3>3, <3>4
    <3>5. CASE opened = <<>>
      <4>1. k = 0 /\ Len(SubSeq(opened, 1, k)) = 0 /\ IsSequence(SubSeq(opened, 1, k))
        BY <2>2, <3>5, <1>1, PartFacts DEF NamesInv
      <4>2. SubSeq(opened, 1, k) = <<>>
        BY <4>1, SequenceFacts
      <4>. QED BY <3>1, <3>2, <3>3, <4>2 DEF ViewHolds
    <3>. QED BY <3>4, <3>5
  <2>. QED BY <2>1, <2>2
<1>. QED BY <1>3, <1>4 DEF NamesInv

LEMMA Left ==
  ASSUME NamesInv, restore
  PROVE  NamesInv'
<1>1. PICK l \in Nat \ {0} : l = Len(opened) /\ l = Len(saved) /\ saved # <<>> /\ opened # <<>>
  BY SequenceFacts DEF NamesInv, restore
<1>2. /\ scope' = Last(saved) /\ saved' = Front(saved) /\ opened' = Front(opened) /\ world' = world
      /\ members' = IF l = 1 THEN {} ELSE members
  BY <1>1 DEF restore
<1>3. /\ IsSequence(saved') /\ IsSequence(opened') /\ Len(saved') = l - 1 /\ Len(opened') = l - 1
      /\ (\A k \in 1 .. l - 1 : saved'[k] = saved[k]) /\ scope' = saved[l]
      /\ \A k \in 0 .. l - 1 : SubSeq(opened', 1, k) = SubSeq(opened, 1, k)
  BY <1>1, <1>2, FrontFacts DEF NamesInv, Last
<1>4. ASSUME NEW k \in 0 .. l - 1 PROVE ViewHolds(View(k)', SubSeq(opened', 1, k), members')
  <2>1. View(k)' = View(k)
    <3>1. View(k) = saved[k + 1]
      BY <1>1 DEF View
    <3>2. CASE k = l - 1
      BY <3>1, <3>2, <1>3 DEF View
    <3>3. CASE k \in 0 .. l - 2
      BY <3>1, <3>3, <1>3 DEF View
    <3>. QED BY <3>2, <3>3
  <2>2. ViewHolds(View(k), SubSeq(opened, 1, k), members)
    BY <1>1 DEF NamesInv
  <2>3. CASE l = 1
    <3>1. k = 0 /\ Len(SubSeq(opened, 1, k)) = 0 /\ IsSequence(SubSeq(opened, 1, k))
      BY <2>3, <1>1, PartFacts DEF NamesInv
    <3>2. SubSeq(opened, 1, k) = <<>>
      BY <3>1, SequenceFacts
    <3>. QED BY <2>1, <2>2, <3>2, <1>3 DEF ViewHolds
  <2>4. CASE l # 1
    BY <2>1, <2>2, <2>4, <1>2, <1>3
  <2>. QED BY <2>3, <2>4
<1>5. members' \in SUBSET Names
  BY <1>2 DEF NamesInv
<1>. QED BY <1>2, <1>3, <1>4, <1>5 DEF NamesInv

LEMMA NamesInitHolds == Init => NamesInv
<1>1. SUFFICES ASSUME Init PROVE NamesInv
  OBVIOUS
<1>2. IsSequence(<<>>) /\ Len(<<>>) = 0 /\ SubSeq(<<>>, 1, 0) = <<>>
  <2>1. IsSequence(<<>>)
    BY DEF IsSequence
  <2>. QED BY <2>1, WholeIsPart
<1>3. NoScope.members = {}
  BY DEF NoScope
<1>4. opened = <<>> /\ saved = <<>> /\ scope = NoScope /\ world \in Worlds /\ members = {}
  BY <1>1 DEF Init
<1>5. ViewHolds(NoScope, <<>>, {})
  BY <1>3, NothingIsOpen DEF ViewHolds
<1>6. View(0) = scope
  BY <1>2, <1>4 DEF View
<1>7. \A k \in 0 .. Len(opened) : ViewHolds(View(k), SubSeq(opened, 1, k), members)
  <2>1. \A k \in 0 .. Len(opened) : k = 0
    BY <1>2, <1>4
  <2>. QED BY <2>1, <1>2, <1>4, <1>5, <1>6
<1>. QED BY <1>2, <1>4, <1>7 DEF NamesInv

LEMMA BodyKeepsInv ==
  ASSUME NamesInv, opened = <<>> \/ Last(opened).kind = "routine", NEW s, Follows(s, opened),
         NEW name \in Names, NEW pd \in Routine(name), EnterBody(pd, s),
         s.bare_slot # <<>> => ResultName \notin pd.locals \cup pd.nested,
         world' = world, members' \in SUBSET Names, opened # <<>> => members' = members, s.members = members'
  PROVE  NamesInv'
<1>1. PICK body : body = seed_proc_scope(setup_proc_frame(s, pd), pd)
  OBVIOUS
<1>2. PICK o : o = [pd EXCEPT !.cxx = cxx_names(body, pd, Len(opened) + 1)]
  OBVIOUS
<1>3. IsHistory(opened) /\ IsSequence(opened) /\ (Len(opened) = 0 \/ opened[Len(opened)].kind = "routine")
  BY PresentView, SequenceFacts DEF ViewHolds, NamesInv, Last
<1>4. IsHistory(Append(opened, o)) /\ Follows(body, Append(opened, o)) /\ body.members = s.members
  BY <1>1, <1>2, <1>3, BodyFollows
<1>5. ViewHolds(body, Append(opened, o), members')
  BY <1>3, <1>4, AppendFacts DEF ViewHolds
<1>6. Enter(o, body)
  BY <1>1, <1>2 DEF EnterBody
<1>. QED BY <1>5, <1>6, Entered

LEMMA NamesStepHolds == NamesInv /\ [Next]_vars => NamesInv'
<1>1. SUFFICES ASSUME NamesInv, [Next]_vars PROVE NamesInv'
  OBVIOUS
<1>2. ViewHolds(scope, opened, members)
  BY <1>1, PresentView
<1>3. IsHistory(opened) /\ Follows(scope, opened) /\ (opened = <<>> <=> Len(opened) = 0) /\ Len(opened) \in Nat
  BY <1>1, <1>2, SequenceFacts DEF ViewHolds, NamesInv
<1>4. CASE emit_proc_body
  <2>0. PICK class \in Classes, name \in Names :
          /\ members' = class /\ \E pd \in Routine(name) : EnterBody(pd, [scope EXCEPT !.members = class])
    <3>1. PICK class \in Classes :
            /\ members' = class
            /\ \E name \in IF class = {} THEN world.exports[Main] ELSE class : \E pd \in Routine(name) :
                 EnterBody(pd, [scope EXCEPT !.members = class])
      BY <1>4 DEF emit_proc_body
    <3>2. class \subseteq Names /\ world.exports[Main] \subseteq Names
      BY <1>1, NameLookupAssumption DEF NamesInv
    <3>. QED BY <3>1, <3>2
  <2>1. PICK pd \in Routine(name) : EnterBody(pd, [scope EXCEPT !.members = class])
    BY <2>0
  <2>2. class \in SUBSET Names
    BY NameLookupAssumption
  <2>3. PICK s : s = [scope EXCEPT !.members = class]
    OBVIOUS
  <2>4. opened = <<>> /\ world' = world
    BY <1>4 DEF emit_proc_body
  <2>5. Follows(s, opened) /\ s.members = class /\ s.bare_slot = <<>>
    <3>1. IsView(scope)
      BY <1>3 DEF Follows
    <3>2. /\ IsView(s) /\ s.members = class /\ s.fn_name = scope.fn_name /\ s.result_slot = scope.result_slot
          /\ s.bare_slot = scope.bare_slot /\ s.outer_name = scope.outer_name /\ s.outer_slot = scope.outer_slot
          /\ s.local_scope = scope.local_scope /\ s.nested = scope.nested /\ s.with_stack = scope.with_stack
      BY <2>3, <3>1 DEF IsView
    <3>3. PICK c \in Nat, f \in Nat : Current(opened, c) /\ Around(opened, c, f) /\ ResultsFollow(scope, opened, c, f)
      BY <1>3 DEF Follows
    <3>4. ResultsFollow(s, opened, c, f)
      BY <3>2, <3>3 DEF ResultsFollow
    <3>5. c = 0 /\ f = 0
      BY <3>3, <1>3, <2>4 DEF Current, Around
    <3>6. s.bare_slot = <<>>
      BY <3>4, <3>5 DEF ResultsFollow
    <3>7. NamesFollow(s, opened) /\ WithsFollow(s, opened)
      BY <3>2, <1>3 DEF Follows, NamesFollow, WithsFollow
    <3>. QED BY <3>2, <3>3, <3>4, <3>6, <3>7 DEF Follows
  <2>6. s.bare_slot # <<>> => ResultName \notin pd.locals \cup pd.nested
    BY <2>5
  <2>7. EnterBody(pd, s) /\ members' \in SUBSET Names /\ s.members = members'
    BY <2>0, <2>1, <2>2, <2>3, <2>5
  <2>8. opened = <<>> \/ Last(opened).kind = "routine"
    BY <2>4
  <2>9. opened # <<>> => members' = members
    BY <2>4
  <2>. QED BY <2>4, <2>5, <2>6, <2>7, <2>8, <2>9, <1>1, BodyKeepsInv
<1>5. CASE emit_nested_proc_lambda
  <2>1. PICK name \in Last(opened).nested : \E pd \in Routine(name) :
          EnterBody(pd, scope) /\ (scope.bare_slot # <<>> => ResultName \notin pd.locals \cup pd.nested)
    BY <1>5 DEF emit_nested_proc_lambda
  <2>a. PICK pd \in Routine(name) :
          EnterBody(pd, scope) /\ (scope.bare_slot # <<>> => ResultName \notin pd.locals \cup pd.nested)
    BY <2>1
  <2>2. opened # <<>> /\ Last(opened).kind = "routine" /\ world' = world /\ members' = members
    BY <1>5 DEF emit_nested_proc_lambda
  <2>3. IsConstruct(opened, Len(opened))
    BY <2>2, <1>3 DEF IsHistory
  <2>4. name \in Names
    BY <2>1, <2>2, <2>3 DEF IsConstruct, IsRoutine, Last
  <2>5. members' \in SUBSET Names /\ scope.members = members'
    BY <2>2, <1>1, <1>2 DEF NamesInv, ViewHolds
  <2>. QED BY <2>a, <2>2, <2>4, <2>5, <1>1, <1>3, BodyKeepsInv
<1>6. CASE emit_with
  <2>0. PICK fields \in SUBSET Names :
          Enter([kind |-> "with", fields |-> fields, cxx |-> <<>>],
                [scope EXCEPT !.with_stack = Append(@, [at |-> Len(opened) + 1, fields |-> fields])])
    BY <1>6 DEF emit_with
  <2>1. PICK o, t :
          /\ o = [kind |-> "with", fields |-> fields, cxx |-> <<>>]
          /\ t = [scope EXCEPT !.with_stack = Append(@, [at |-> Len(opened) + 1, fields |-> fields])]
          /\ Enter(o, t)
    BY <2>0
  <2>2. opened # <<>> /\ Len(opened) > 0 /\ world' = world /\ members' = members
    BY <1>6, <1>3 DEF emit_with
  <2>3. IsHistory(Append(opened, o)) /\ Follows(t, Append(opened, o)) /\ t.members = scope.members
    BY <2>1, <2>2, <1>3, WithFollows
  <2>4. ViewHolds(t, Append(opened, o), members') /\ members' \in SUBSET Names
    BY <2>2, <2>3, <1>1, <1>2, AppendFacts DEF ViewHolds, NamesInv
  <2>. QED BY <2>1, <2>2, <2>4, <1>1, Entered
<1>7. CASE emit_except_handler
  <2>0. PICK name \in Names \ {ResultName} :
          Enter(Handler(name, Len(opened) + 1), [scope EXCEPT !.local_scope = @ \cup {name}])
    BY <1>7 DEF emit_except_handler, Handler
  <2>1. PICK o, t :
          /\ o = Handler(name, Len(opened) + 1)
          /\ t = [scope EXCEPT !.local_scope = @ \cup {name}]
          /\ Enter(o, t)
    BY <2>0
  <2>2. opened # <<>> /\ Len(opened) > 0 /\ world' = world /\ members' = members
    BY <1>7, <1>3 DEF emit_except_handler
  <2>3. IsHistory(Append(opened, o)) /\ Follows(t, Append(opened, o)) /\ t.members = scope.members
    BY <2>1, <2>2, <1>3, HandlerFollows
  <2>4. ViewHolds(t, Append(opened, o), members') /\ members' \in SUBSET Names
    BY <2>2, <2>3, <1>1, <1>2, AppendFacts DEF ViewHolds, NamesInv
  <2>. QED BY <2>1, <2>2, <2>4, <1>1, Entered
<1>8. CASE restore
  BY <1>1, <1>8, Left
<1>9. CASE UNCHANGED vars
  BY <1>1, <1>9 DEF vars, NamesInv, View
<1>. QED BY <1>1, <1>4, <1>5, <1>6, <1>7, <1>8, <1>9 DEF Next

-----------------------------------------------------------------------------
(* What a lookup answers.                                                  *)

LEMMA JoinFacts ==
  ASSUME NEW s, NEW t, IsSequence(s), IsSequence(t)
  PROVE  /\ IsSequence(s \o t) /\ (s \o t = <<>> <=> s = <<>> /\ t = <<>>)
         /\ (s # <<>> => Head(s \o t) = Head(s)) /\ (s = <<>> => s \o t = t)
<1>1. PICK S : s \in Seq(S)
  BY DEF IsSequence
<1>2. PICK T : t \in Seq(T)
  BY DEF IsSequence
<1>3. PICK U : U = S \cup T
  OBVIOUS
<1>4. s \in Seq(U) /\ t \in Seq(U)
  BY <1>1, <1>2, <1>3
<1>5. s \o t \in Seq(U) /\ Len(s \o t) = Len(s) + Len(t) /\ Len(s) \in Nat /\ Len(t) \in Nat
  BY <1>4
<1>6. (s = <<>> <=> Len(s) = 0) /\ (t = <<>> <=> Len(t) = 0) /\ (s \o t = <<>> <=> Len(s \o t) = 0)
  BY <1>4, <1>5
<1>7. s # <<>> => Head(s \o t) = Head(s)
  BY <1>4, <1>5, <1>6
<1>8. s = <<>> => s \o t = t
  BY <1>4
<1>9. IsSequence(s \o t)
  BY <1>5 DEF IsSequence
<1>. QED BY <1>5, <1>6, <1>7, <1>8, <1>9

LEMMA OnlyFacts ==
  ASSUME NEW condition \in BOOLEAN, NEW x
  PROVE  /\ IsSequence(Only(condition, x)) /\ (Only(condition, x) = <<>> <=> ~condition)
         /\ (condition => Head(Only(condition, x)) = x)
<1>1. <<x>> \in Seq({x}) /\ <<>> \in Seq({x})
  OBVIOUS
<1>2. Only(condition, x) \in Seq({x})
  BY <1>1 DEF Only
<1>. QED BY <1>2 DEF Only, IsSequence

\* The results that a view knows by the name n.
OwnResult(s, n) == s.result_slot # <<>> /\ n = s.fn_name
BareResult(s, n) == s.bare_slot # <<>> /\ n = ResultName
OuterResult(s, n) == s.outer_slot # <<>> /\ n = s.outer_name
NoResult(s, n) == ~OwnResult(s, n) /\ ~BareResult(s, n) /\ ~OuterResult(s, n)

LEMMA ResultOf ==
  ASSUME NEW s, NEW n
  PROVE  /\ IsSequence(result_of(s, n)) /\ (result_of(s, n) = <<>> <=> NoResult(s, n))
         /\ ~NoResult(s, n) =>
              Head(result_of(s, n)) = IF OwnResult(s, n) THEN s.result_slot
                                      ELSE IF BareResult(s, n) THEN s.bare_slot ELSE s.outer_slot
<1>1. PICK a, b, c : /\ a = Only(OwnResult(s, n), s.result_slot) /\ b = Only(BareResult(s, n), s.bare_slot)
                     /\ c = Only(OuterResult(s, n), s.outer_slot)
  OBVIOUS
<1>2. OwnResult(s, n) \in BOOLEAN /\ BareResult(s, n) \in BOOLEAN /\ OuterResult(s, n) \in BOOLEAN
  BY DEF OwnResult, BareResult, OuterResult
<1>3. /\ IsSequence(a) /\ (a = <<>> <=> ~OwnResult(s, n)) /\ (OwnResult(s, n) => Head(a) = s.result_slot)
      /\ IsSequence(b) /\ (b = <<>> <=> ~BareResult(s, n)) /\ (BareResult(s, n) => Head(b) = s.bare_slot)
      /\ IsSequence(c) /\ (c = <<>> <=> ~OuterResult(s, n)) /\ (OuterResult(s, n) => Head(c) = s.outer_slot)
  BY <1>1, <1>2, OnlyFacts
<1>4. result_of(s, n) = (a \o b) \o c
  BY <1>1 DEF result_of, OwnResult, BareResult, OuterResult
<1>5. PICK d : d = a \o b
  OBVIOUS
<1>6. /\ IsSequence(d) /\ (d = <<>> <=> a = <<>> /\ b = <<>>)
      /\ (a # <<>> => Head(d) = Head(a)) /\ (a = <<>> => d = b)
  BY <1>3, <1>5, JoinFacts
<1>7. /\ IsSequence(d \o c) /\ (d \o c = <<>> <=> d = <<>> /\ c = <<>>)
      /\ (d # <<>> => Head(d \o c) = Head(d)) /\ (d = <<>> => d \o c = c)
  BY <1>3, <1>6, JoinFacts
<1>. QED BY <1>3, <1>4, <1>5, <1>6, <1>7 DEF NoResult

UnitText(s, n) ==
  IF nearest(s.unit, n) # s.unit \/ s.emission # nearest(s.unit, n)
  THEN <<"unit", nearest(s.unit, n), n>> ELSE <<"p", n>>

\* The steps of resolve_name, one after the other.
LEMMA Resolved ==
  ASSUME NEW s, NEW n
  PROVE  resolve_name(s, n) =
           IF ~NoResult(s, n) THEN Head(result_of(s, n))
           ELSE IF with_member(s, n) # <<>> THEN Head(with_member(s, n))
           ELSE IF s.nested[n] # <<>> THEN s.nested[n][1]
           ELSE IF n \in s.local_scope \/ n \in s.members THEN <<"p", n>>
           ELSE IF declaring(s.unit, n) # {} THEN UnitText(s, n)
           ELSE <<"p", n>>
<1>1. PICK a, b, c, d, e, f, g :
        /\ a = result_of(s, n) /\ b = with_member(s, n) /\ c = nested_routine(s, n)
        /\ d = Only(n \in s.local_scope, <<"p", n>>) /\ e = Only(n \in s.members, <<"p", n>>)
        /\ f = unit_name(s, n) /\ g = << <<"p", n>> >>
  OBVIOUS
<1>2. IsSequence(a) /\ (a = <<>> <=> NoResult(s, n))
  BY <1>1, ResultOf
<1>3. IsSequence(b)
  BY <1>1, OnlyFacts DEF with_member
<1>4. IsSequence(c) /\ (c = <<>> <=> s.nested[n] = <<>>) /\ (s.nested[n] # <<>> => Head(c) = s.nested[n][1])
  BY <1>1, OnlyFacts DEF nested_routine
<1>5. /\ IsSequence(d) /\ (d = <<>> <=> n \notin s.local_scope) /\ (n \in s.local_scope => Head(d) = <<"p", n>>)
      /\ IsSequence(e) /\ (e = <<>> <=> n \notin s.members) /\ (n \in s.members => Head(e) = <<"p", n>>)
  <2>1. (n \in s.local_scope) \in BOOLEAN /\ (n \in s.members) \in BOOLEAN
    OBVIOUS
  <2>2. PICK x : x = <<"p", n>>
    OBVIOUS
  <2>3. /\ IsSequence(Only(n \in s.local_scope, x)) /\ (Only(n \in s.local_scope, x) = <<>> <=> n \notin s.local_scope)
        /\ (n \in s.local_scope => Head(Only(n \in s.local_scope, x)) = x)
    BY <2>1, OnlyFacts
  <2>4. /\ IsSequence(Only(n \in s.members, x)) /\ (Only(n \in s.members, x) = <<>> <=> n \notin s.members)
        /\ (n \in s.members => Head(Only(n \in s.members, x)) = x)
    BY <2>1, OnlyFacts
  <2>. QED BY <1>1, <2>2, <2>3, <2>4
<1>6. /\ IsSequence(f) /\ (f = <<>> <=> declaring(s.unit, n) = {})
      /\ (declaring(s.unit, n) # {} => Head(f) = UnitText(s, n))
  <2>1. f = Only(declaring(s.unit, n) # {}, UnitText(s, n))
    BY <1>1 DEF unit_name, UnitText
  <2>2. (declaring(s.unit, n) # {}) \in BOOLEAN
    OBVIOUS
  <2>. QED BY <2>1, <2>2, OnlyFacts
<1>7. IsSequence(g) /\ g # <<>> /\ Head(g) = <<"p", n>>
  <2>1. g = Only(TRUE, <<"p", n>>)
    BY <1>1 DEF Only
  <2>. QED BY <2>1, OnlyFacts
<1>8. PICK ab, abc, abcd, abcde, abcdef :
        ab = a \o b /\ abc = ab \o c /\ abcd = abc \o d /\ abcde = abcd \o e /\ abcdef = abcde \o f
  OBVIOUS
<1>9. resolve_name(s, n) = Head(abcdef \o g)
  BY <1>1, <1>8 DEF resolve_name
<1>10. /\ IsSequence(ab) /\ (ab = <<>> <=> a = <<>> /\ b = <<>>)
       /\ (a # <<>> => Head(ab) = Head(a)) /\ (a = <<>> => ab = b)
  <2>1. IsSequence(a) /\ IsSequence(b)
    BY <1>2, <1>3
  <2>2. ab = a \o b
    BY <1>8
  <2>. QED BY <2>1, <2>2, JoinFacts
<1>11. /\ IsSequence(abc) /\ (abc = <<>> <=> ab = <<>> /\ c = <<>>)
       /\ (ab # <<>> => Head(abc) = Head(ab)) /\ (ab = <<>> => abc = c)
  <2>1. IsSequence(ab) /\ IsSequence(c)
    BY <1>10, <1>4
  <2>2. abc = ab \o c
    BY <1>8
  <2>. QED BY <2>1, <2>2, JoinFacts
<1>12. /\ IsSequence(abcd) /\ (abcd = <<>> <=> abc = <<>> /\ d = <<>>)
       /\ (abc # <<>> => Head(abcd) = Head(abc)) /\ (abc = <<>> => abcd = d)
  <2>1. IsSequence(abc) /\ IsSequence(d)
    BY <1>11, <1>5
  <2>2. abcd = abc \o d
    BY <1>8
  <2>. QED BY <2>1, <2>2, JoinFacts
<1>13. /\ IsSequence(abcde) /\ (abcde = <<>> <=> abcd = <<>> /\ e = <<>>)
       /\ (abcd # <<>> => Head(abcde) = Head(abcd)) /\ (abcd = <<>> => abcde = e)
  <2>1. IsSequence(abcd) /\ IsSequence(e)
    BY <1>12, <1>5
  <2>2. abcde = abcd \o e
    BY <1>8
  <2>. QED BY <2>1, <2>2, JoinFacts
<1>14. /\ IsSequence(abcdef) /\ (abcdef = <<>> <=> abcde = <<>> /\ f = <<>>)
       /\ (abcde # <<>> => Head(abcdef) = Head(abcde)) /\ (abcde = <<>> => abcdef = f)
  <2>1. IsSequence(abcde) /\ IsSequence(f)
    BY <1>13, <1>6
  <2>2. abcdef = abcde \o f
    BY <1>8
  <2>. QED BY <2>1, <2>2, JoinFacts
<1>15. /\ (abcdef # <<>> => Head(abcdef \o g) = Head(abcdef)) /\ (abcdef = <<>> => abcdef \o g = g)
  BY <1>7, <1>14, JoinFacts
<1>16. CASE a # <<>>
  BY <1>16, <1>1, <1>2, <1>9, <1>10, <1>11, <1>12, <1>13, <1>14, <1>15
<1>17. CASE a = <<>> /\ b # <<>>
  BY <1>17, <1>1, <1>2, <1>9, <1>10, <1>11, <1>12, <1>13, <1>14, <1>15
<1>18. CASE a = <<>> /\ b = <<>> /\ c # <<>>
  BY <1>18, <1>1, <1>2, <1>4, <1>9, <1>10, <1>11, <1>12, <1>13, <1>14, <1>15
<1>19. CASE a = <<>> /\ b = <<>> /\ c = <<>>
  <2>1. abc = <<>> /\ abcd = d
    BY <1>19, <1>10, <1>11, <1>12
  <2>. QED BY <2>1, <1>19, <1>1, <1>2, <1>4, <1>5, <1>6, <1>7, <1>9, <1>13, <1>14, <1>15
<1>. QED BY <1>16, <1>17, <1>18, <1>19

-----------------------------------------------------------------------------
(* What the constructs that are open know.                                 *)

\* The innermost of the first `upto' constructs that declare n.
Owner(i, n, upto) ==
  i \in 1 .. upto /\ Declares(opened[i], n) /\ \A j \in i + 1 .. upto : ~Declares(opened[j], n)

LEMMA Kinds ==
  ASSUME IsHistory(opened), NEW i \in 1 .. Len(opened), NEW n
  PROVE  /\ opened[i].kind \in {"routine", "with", "handler"}
         /\ opened[i].kind = "routine" => IsRoutine(opened, i) /\ (Declares(opened[i], n) <=>
              Joins(opened[i], n) \/ (opened[i].function /\ n \in {opened[i].name, ResultName}))
         /\ opened[i].kind = "with" => (Declares(opened[i], n) <=> n \in opened[i].fields)
         /\ opened[i].kind = "handler" => (Declares(opened[i], n) <=> n = opened[i].name)
         /\ Joins(opened[i], n) => Declares(opened[i], n)
         /\ Nests(opened[i], n) => Joins(opened[i], n)
<1>1. IsConstruct(opened, i)
  BY DEF IsHistory
<1>2. opened[i].kind \in {"routine", "with", "handler"}
  BY <1>1 DEF IsConstruct
<1>3. "routine" # "with" /\ "routine" # "handler" /\ "with" # "handler"
  OBVIOUS
<1>4. opened[i].kind = "routine" => IsRoutine(opened, i) /\ (Declares(opened[i], n) <=>
              Joins(opened[i], n) \/ (opened[i].function /\ n \in {opened[i].name, ResultName}))
  BY <1>1, <1>3 DEF IsConstruct, Declares, Joins
<1>. QED BY <1>2, <1>3, <1>4 DEF Declares, Joins, Nests

\* A construct knows a mangled name only when it declares the name, and means
\* the same by it.
LEMMA KnownMeaning ==
  ASSUME IsHistory(opened), NEW i \in 1 .. Len(opened), NEW n \in Names
  PROVE  /\ <<"p", n>> \in DOMAIN opened[i].cxx =>
              Declares(opened[i], n) /\ opened[i].cxx[<<"p", n>>] = Declared(i, n)
         /\ Joins(opened[i], n) /\ (\A j \in 1 .. i - 1 : ~Nests(opened[j], n)) => <<"p", n>> \in DOMAIN opened[i].cxx
<1>1. IsConstruct(opened, i)
  BY DEF IsHistory
<1>2. CASE opened[i].kind = "routine"
  <2>1. IsRoutine(opened, i)
    BY <1>2, Kinds
  <2>2. /\ <<"p", n>> \in DOMAIN opened[i].cxx <=>
             \/ n \in opened[i].locals \/ n \in Firsts(opened, i)
             \/ opened[i].function /\ n = ResultName /\ ~InFunction(opened, i)
        /\ <<"p", n>> \in DOMAIN opened[i].cxx =>
             opened[i].cxx[<<"p", n>>] = IF n \in opened[i].locals \cup opened[i].nested
                                         THEN <<"local", i, n>> ELSE <<"result", i>>
    BY <2>1 DEF IsRoutine, Writes, CxxKnows
  <2>3. n \in Firsts(opened, i) => n \in opened[i].nested
    BY DEF Firsts
  <2>4. Declared(i, n) = IF n \in opened[i].locals \cup opened[i].nested THEN <<"local", i, n>> ELSE <<"result", i>>
    BY <1>2 DEF Declared
  <2>5. <<"p", n>> \in DOMAIN opened[i].cxx => Declares(opened[i], n)
    BY <1>2, <2>2, <2>3 DEF Declares
  <2>6. Joins(opened[i], n) /\ (\A j \in 1 .. i - 1 : ~Nests(opened[j], n)) =>
          n \in opened[i].locals \/ n \in Firsts(opened, i)
    BY <1>2 DEF Joins, Firsts
  <2>. QED BY <2>2, <2>4, <2>5, <2>6
<1>3. CASE opened[i].kind = "with"
  <2>1. opened[i].cxx = <<>> /\ ~Joins(opened[i], n)
    BY <1>1, <1>3 DEF IsConstruct, Joins
  <2>. QED BY <2>1
<1>4. CASE opened[i].kind = "handler"
  <2>1. opened[i].cxx = [x \in {<<"p", opened[i].name>>} |-> <<"local", i, opened[i].name>>]
    BY <1>1, <1>4 DEF IsConstruct
  <2>2. <<"p", n>> \in DOMAIN opened[i].cxx <=> n = opened[i].name
    BY <2>1
  <2>3. n = opened[i].name => opened[i].cxx[<<"p", n>>] = <<"local", i, n>>
    BY <2>1
  <2>4. Declared(i, n) = <<"local", i, n>>
    BY <1>4 DEF Declared
  <2>. QED BY <1>4, <2>2, <2>3, <2>4 DEF Declares, Joins
<1>. QED BY <1>2, <1>3, <1>4, Kinds

\* A function knows its result; by the text of it, or of any other, no statement
\* knows anything, nor does a routine inside a function that is none itself.
LEMMA ResultMeaning ==
  ASSUME IsHistory(opened), NEW i \in 1 .. Len(opened)
  PROVE  /\ IsFunction(opened[i]) => Slot(opened, i) \in DOMAIN opened[i].cxx
                                  /\ opened[i].cxx[Slot(opened, i)] = <<"result", i>>
         /\ \A m \in Names : <<"result", m>> \in DOMAIN opened[i].cxx => IsFunction(opened[i]) /\ opened[i].name = m
         /\ <<"p", ResultName>> \in DOMAIN opened[i].cxx =>
              opened[i].kind = "routine" /\ ~InFunction(opened, i)
<1>0. IsConstruct(opened, i) /\ ResultName \in Names
  BY NameLookupAssumption DEF IsHistory
<1>1. CASE opened[i].kind = "routine"
  <2>1. IsRoutine(opened, i)
    BY <1>1, Kinds
  <2>2. \A m \in Names :
        /\ <<"p", m>> \in DOMAIN opened[i].cxx <=>
             \/ m \in opened[i].locals \/ m \in Firsts(opened, i)
             \/ opened[i].function /\ m = ResultName /\ ~InFunction(opened, i)
        /\ <<"p", m>> \in DOMAIN opened[i].cxx =>
             opened[i].cxx[<<"p", m>>] = IF m \in opened[i].locals \cup opened[i].nested
                                         THEN <<"local", i, m>> ELSE <<"result", i>>
        /\ <<"result", m>> \in DOMAIN opened[i].cxx <=>
             opened[i].function /\ m = opened[i].name /\ InFunction(opened, i)
        /\ <<"result", m>> \in DOMAIN opened[i].cxx => opened[i].cxx[<<"result", m>>] = <<"result", i>>
    BY <2>1 DEF IsRoutine, Writes, CxxKnows
  <2>3. \A m : m \in Firsts(opened, i) => m \in opened[i].nested
    BY DEF Firsts
  <2>4. /\ InFunction(opened, i) => ResultName \notin opened[i].locals \cup opened[i].nested
        /\ opened[i].function => ResultName \notin opened[i].locals \cup opened[i].nested
        /\ opened[i].name \in Names
    BY <2>1 DEF IsRoutine
  <2>5. ASSUME IsFunction(opened[i])
        PROVE  Slot(opened, i) \in DOMAIN opened[i].cxx /\ opened[i].cxx[Slot(opened, i)] = <<"result", i>>
    <3>1. CASE InFunction(opened, i)
      BY <2>2, <2>4, <2>5, <3>1 DEF Slot, IsFunction
    <3>2. CASE ~InFunction(opened, i)
      BY <1>0, <2>2, <2>4, <2>5, <3>2 DEF Slot, IsFunction
    <3>. QED BY <3>1, <3>2
  <2>6. \A m \in Names : <<"result", m>> \in DOMAIN opened[i].cxx => IsFunction(opened[i]) /\ opened[i].name = m
    BY <1>1, <2>2 DEF IsFunction
  <2>7. <<"p", ResultName>> \in DOMAIN opened[i].cxx => ~InFunction(opened, i)
    BY <1>0, <2>2, <2>3, <2>4
  <2>. QED BY <1>1, <2>5, <2>6, <2>7
<1>2. CASE opened[i].kind = "with"
  <2>1. opened[i].cxx = <<>> /\ ~IsFunction(opened[i])
    BY <1>0, <1>2 DEF IsConstruct, IsFunction
  <2>. QED BY <2>1
<1>3. CASE opened[i].kind = "handler"
  <2>1. /\ opened[i].cxx = [x \in {<<"p", opened[i].name>>} |-> <<"local", i, opened[i].name>>]
        /\ ~IsFunction(opened[i]) /\ opened[i].name # ResultName
    BY <1>0, <1>3 DEF IsConstruct, IsFunction
  <2>2. \A x : x \in DOMAIN opened[i].cxx <=> x = <<"p", opened[i].name>>
    BY <2>1
  <2>. QED BY <2>1, <2>2
<1>. QED BY <1>1, <1>2, <1>3, Kinds

\* C++ finds the innermost construct that knows a text.
LEMMA CxxFinds ==
  ASSUME IsHistory(opened), NEW word, word[1] \notin {"unit", "field"}, NEW i \in 1 .. Len(opened),
         word \in DOMAIN opened[i].cxx, \A j \in i + 1 .. Len(opened) : word \notin DOMAIN opened[j].cxx
  PROVE  Cxx(word) = opened[i].cxx[word]
<1>1. PICK l \in Nat : l = Len(opened) /\ DOMAIN opened = 1 .. l
  BY SequenceFacts DEF IsHistory
<1>2. PICK having \in SUBSET (1 .. l) : having = {k \in DOMAIN opened : word \in DOMAIN opened[k].cxx}
  BY <1>1
<1>3. i \in having /\ \A j \in having : j <= i
  BY <1>1, <1>2
<1>4. Max(having) = i
  BY <1>3, TheLargest
<1>. QED BY <1>2, <1>3, <1>4 DEF Cxx

\* A qualified text means what it says.
LEMMA CxxQualified ==
  ASSUME NEW word, word[1] \in {"unit", "field"}
  PROVE  Cxx(word) = word
BY DEF Cxx

\* Pascal finds the innermost construct that declares a name.
LEMMA PascalFinds ==
  ASSUME NEW upto \in Nat, NEW n, NEW i, Owner(i, n, upto)
  PROVE  Pascal(n, upto) = Declared(i, n)
<1>1. PICK having \in SUBSET (1 .. upto) : having = {k \in 1 .. upto : Declares(opened[k], n)}
  OBVIOUS
<1>2. i \in having /\ \A j \in having : j <= i
  BY <1>1 DEF Owner
<1>3. Max(having) = i
  BY <1>2, TheLargest
<1>. QED BY <1>1, <1>2, <1>3 DEF Pascal

LEMMA OwnerExists ==
  ASSUME NEW upto \in Nat, NEW n, \E i \in 1 .. upto : Declares(opened[i], n)
  PROVE  \E i \in 1 .. upto : Owner(i, n, upto)
<1>1. PICK having \in SUBSET (1 .. upto) : having = {k \in 1 .. upto : Declares(opened[k], n)}
  OBVIOUS
<1>2. Max(having) \in having /\ \A j \in having : j <= Max(having)
  BY <1>1, Largest
<1>3. PICK i \in having : \A j \in having : j <= i
  BY <1>2
<1>4. \A j \in i + 1 .. upto : j \in 1 .. upto /\ ~(j <= i)
  OBVIOUS
<1>. QED BY <1>1, <1>3, <1>4 DEF Owner

LEMMA PascalFindsNone ==
  ASSUME NEW upto \in Nat \ {0}, NEW n, \A i \in 1 .. upto : ~Declares(opened[i], n)
  PROVE  Pascal(n, upto) = IF n \in members THEN <<"member", n>> ELSE InUnit(Main, n)
<1>1. {k \in 1 .. upto : Declares(opened[k], n)} = {}
  OBVIOUS
<1>. QED BY <1>1 DEF Pascal

-----------------------------------------------------------------------------
(* The result a name can reach.                                            *)

LEMMA RoutinesAre ==
  ASSUME NEW c \in Nat, Current(opened, c), IsSequence(opened), c > 0
  PROVE  /\ RoutinesUpTo(Len(opened)) = 1 .. c /\ RoutinesUpTo(c) = 1 .. c /\ Max(1 .. c) = c
         /\ \A k \in 0 .. c : RoutinesUpTo(k) = 1 .. k
<1>1. \A k \in 0 .. c : RoutinesUpTo(k) = 1 .. k
  BY SequenceFacts DEF Current, RoutinesUpTo
<1>2. RoutinesUpTo(Len(opened)) = 1 .. c
  BY SequenceFacts DEF Current, RoutinesUpTo
<1>3. Max(1 .. c) = c
  <2>1. PICK R \in SUBSET (1 .. c) : R = 1 .. c
    OBVIOUS
  <2>2. c \in R /\ \A j \in R : j <= c
    BY <2>1
  <2>. QED BY <2>1, <2>2, TheLargest
<1>. QED BY <1>1, <1>2, <1>3

LEMMA ReachedAre ==
  ASSUME NEW c \in Nat, NEW f \in Nat, Current(opened, c), Around(opened, c, f), IsSequence(opened), c > 0
  PROVE  /\ c \in Reached(Len(opened)) <=> IsFunction(opened[c])
         /\ f \in Reached(Len(opened)) <=> f > 0
         /\ Reached(Len(opened)) \subseteq {c, f}
         /\ Reached(c) = Reached(Len(opened))
<1>1. /\ RoutinesUpTo(Len(opened)) = 1 .. c /\ RoutinesUpTo(c) = 1 .. c /\ Max(1 .. c) = c
      /\ RoutinesUpTo(c - 1) = 1 .. c - 1
  <2>1. c - 1 \in 0 .. c
    OBVIOUS
  <2>. QED BY <2>1, RoutinesAre
<1>2. \A i \in 1 .. c : opened[i].kind = "routine"
  BY SequenceFacts DEF Current
<1>3. PICK around \in SUBSET (1 .. c - 1) : around = {i \in RoutinesUpTo(c - 1) : opened[i].function}
  BY <1>1
<1>4. Reached(Len(opened)) = {i \in {c} : opened[i].function} \cup {i \in around : i = Max(around)}
  BY <1>1, <1>3 DEF Reached
<1>5. Reached(c) = Reached(Len(opened))
  BY <1>1 DEF Reached
<1>6. \A i \in 1 .. c - 1 : i \in around <=> IsFunction(opened[i])
  BY <1>1, <1>2, <1>3 DEF IsFunction
<1>7. CASE f = 0
  <2>1. around = {}
    BY <1>3, <1>6, <1>7 DEF Around
  <2>. QED BY <1>2, <1>4, <1>5, <1>7, <2>1 DEF IsFunction
<1>8. CASE f > 0
  <2>1. f \in around
    BY <1>6, <1>8 DEF Around
  <2>2. \A j \in around : j <= f
    BY <1>3, <1>6 DEF Around
  <2>3. Max(around) = f
    <3>1. c - 1 \in Nat
      OBVIOUS
    <3>. QED BY <3>1, <2>1, <2>2, TheLargest
  <2>4. f # c
    BY <1>8 DEF Around
  <2>. QED BY <1>2, <1>4, <1>5, <1>8, <2>1, <2>3, <2>4 DEF IsFunction
<1>. QED BY <1>7, <1>8

\* C++ finds the result of the routine, and that of the function around it
\* unless the routine is a function of the same name.
LEMMA ResultFound ==
  ASSUME NEW c \in Nat, NEW f \in Nat, Current(opened, c), Around(opened, c, f), IsHistory(opened), c > 0,
         NEW i, i \in {c, f}, i > 0, IsFunction(opened[i]),
         i = f => ~IsFunction(opened[c]) \/ opened[c].name # opened[f].name
  PROVE  Cxx(Slot(opened, i)) = <<"result", i>>
<1>1. PICK l \in Nat : l = Len(opened) /\ c \in 1 .. l /\ i \in 1 .. c
  BY SequenceFacts DEF IsHistory, Current, Around
<1>2. i \in 1 .. Len(opened)
  BY <1>1
<1>3. Slot(opened, i) \in DOMAIN opened[i].cxx /\ opened[i].cxx[Slot(opened, i)] = <<"result", i>>
  BY <1>2, ResultMeaning
<1>4. Slot(opened, i)[1] \notin {"unit", "field"}
  BY DEF Slot
<1>5. opened[i].name \in Names
  <2>1. IsRoutine(opened, i)
    BY <1>2, Kinds, NameLookupAssumption DEF IsFunction
  <2>. QED BY <2>1 DEF IsRoutine
<1>6. ASSUME NEW j \in i + 1 .. Len(opened) PROVE Slot(opened, i) \notin DOMAIN opened[j].cxx
  <2>0. j \in 1 .. Len(opened) /\ j \in Nat /\ i < j /\ i \in 1 .. j - 1
    BY <1>1
  <2>1. InFunction(opened, j)
    BY <2>0 DEF InFunction
  <2>2. <<"p", ResultName>> \notin DOMAIN opened[j].cxx
    BY <2>0, <2>1, ResultMeaning
  <2>3. <<"result", opened[i].name>> \in DOMAIN opened[j].cxx =>
          IsFunction(opened[j]) /\ opened[j].name = opened[i].name
    BY <2>0, <1>5, ResultMeaning
  <2>4. IsFunction(opened[j]) => i = f /\ j = c
    <3>1. IsFunction(opened[j]) => j <= c
      BY <2>0 DEF Current, IsFunction
    <3>2. i # c /\ j # c /\ j <= c => j \in f + 1 .. c - 1
      BY <1>1, <2>0
    <3>3. \A k \in f + 1 .. c - 1 : ~IsFunction(opened[k])
      BY DEF Around
    <3>. QED BY <2>0, <3>1, <3>2, <3>3, <1>1
  <2>. QED BY <2>2, <2>3, <2>4 DEF Slot
<1>. QED BY <1>2, <1>3, <1>4, <1>6, CxxFinds

\* When the view answers with a result, Pascal means that result, or one of the
\* displacements is at work.
LEMMA ResultsAreMeant ==
  ASSUME NEW c \in Nat, NEW f \in Nat, Current(opened, c), Around(opened, c, f), ResultsFollow(scope, opened, c, f),
         IsHistory(opened), c > 0, NEW n \in Names, ~NoResult(scope, n), ~ResultFirst(n, Len(opened))
  PROVE  Cxx(Head(result_of(scope, n))) = Pascal(n, Len(opened))
<1>1. PICK l \in Nat : l = Len(opened) /\ c \in 1 .. l /\ IsSequence(opened)
  BY SequenceFacts DEF IsHistory, Current
<1>2. /\ c \in Reached(Len(opened)) <=> IsFunction(opened[c])
      /\ f \in Reached(Len(opened)) <=> f > 0
  BY <1>1, ReachedAre
<1>3. \A i \in Reached(Len(opened)) : n \in {opened[i].name, ResultName} => Pascal(n, Len(opened)) = <<"result", i>>
  BY DEF ResultFirst
<1>4. f > 0 => IsFunction(opened[f]) /\ f # c
  BY DEF Around
<1>5. /\ scope.fn_name = opened[c].name
      /\ scope.result_slot = IF IsFunction(opened[c]) THEN Slot(opened, c) ELSE <<>>
      /\ scope.outer_name = IF f > 0 THEN opened[f].name ELSE NoName
      /\ scope.outer_slot = IF f > 0 THEN Slot(opened, f) ELSE <<>>
      /\ scope.bare_slot = IF IsFunction(opened[c]) THEN scope.result_slot ELSE scope.outer_slot
  BY DEF ResultsFollow
<1>6. Head(result_of(scope, n)) = IF OwnResult(scope, n) THEN scope.result_slot
                                  ELSE IF BareResult(scope, n) THEN scope.bare_slot ELSE scope.outer_slot
  BY ResultOf
<1>7. IsFunction(opened[c]) => Cxx(Slot(opened, c)) = <<"result", c>>
  <2>1. c = f => ~IsFunction(opened[c]) \/ opened[c].name # opened[f].name
    BY <1>4
  <2>. QED BY <2>1, ResultFound
<1>8. f > 0 /\ (~IsFunction(opened[c]) \/ opened[c].name # opened[f].name) => Cxx(Slot(opened, f)) = <<"result", f>>
  BY <1>4, ResultFound
<1>9. CASE OwnResult(scope, n)
  BY <1>9, <1>2, <1>3, <1>5, <1>6, <1>7 DEF OwnResult
<1>10. CASE ~OwnResult(scope, n) /\ BareResult(scope, n)
  <2>1. CASE IsFunction(opened[c])
    BY <1>10, <2>1, <1>2, <1>3, <1>5, <1>6, <1>7 DEF BareResult
  <2>2. CASE ~IsFunction(opened[c])
    <3>1. f > 0
      BY <1>10, <2>2, <1>5 DEF BareResult
    <3>. QED BY <3>1, <1>10, <2>2, <1>2, <1>3, <1>5, <1>6, <1>8 DEF BareResult
  <2>. QED BY <2>1, <2>2
<1>11. CASE ~OwnResult(scope, n) /\ ~BareResult(scope, n)
  <2>1. OuterResult(scope, n)
    BY <1>11 DEF NoResult
  <2>2. f > 0 /\ n = opened[f].name
    BY <2>1, <1>5 DEF OuterResult
  <2>3. Pascal(n, Len(opened)) = <<"result", f>>
    BY <2>2, <1>2, <1>3
  <2>4. ~IsFunction(opened[c]) \/ opened[c].name # opened[f].name
    <3>1. IsFunction(opened[c]) /\ n = opened[c].name => Pascal(n, Len(opened)) = <<"result", c>>
      BY <1>2, <1>3
    <3>2. <<"result", c>> # <<"result", f>>
      BY <1>4, <2>2
    <3>. QED BY <2>2, <2>3, <3>1, <3>2
  <2>. QED BY <1>6, <1>8, <1>11, <2>2, <2>3, <2>4, <1>5
<1>. QED BY <1>9, <1>10, <1>11

\* A result that the view does not know by its name is one too far.
LEMMA ResultIsTooFar ==
  ASSUME NEW c \in Nat, NEW f \in Nat, Current(opened, c), Around(opened, c, f), ResultsFollow(scope, opened, c, f),
         IsHistory(opened), c > 0, NEW n \in Names, NoResult(scope, n),
         NEW i \in 1 .. c, IsFunction(opened[i]), n \in {opened[i].name, ResultName},
         Pascal(n, Len(opened)) = <<"result", i>>
  PROVE  ResultTooFar(n, Len(opened))
<1>1. PICK l \in Nat : l = Len(opened) /\ c \in 1 .. l /\ IsSequence(opened)
  BY SequenceFacts DEF IsHistory, Current
<1>2. Reached(Len(opened)) \subseteq {c, f} /\ RoutinesUpTo(Len(opened)) = 1 .. c
  BY <1>1, ReachedAre, RoutinesAre
<1>3. /\ scope.fn_name = opened[c].name
      /\ scope.result_slot = IF IsFunction(opened[c]) THEN Slot(opened, c) ELSE <<>>
      /\ scope.outer_name = IF f > 0 THEN opened[f].name ELSE NoName
      /\ scope.outer_slot = IF f > 0 THEN Slot(opened, f) ELSE <<>>
      /\ scope.bare_slot = IF IsFunction(opened[c]) THEN scope.result_slot ELSE scope.outer_slot
  BY DEF ResultsFollow
<1>4. Slot(opened, c) # <<>> /\ Slot(opened, f) # <<>>
  BY DEF Slot
<1>5. i # c
  BY <1>3, <1>4 DEF NoResult, OwnResult, BareResult
<1>6. i # f
  BY <1>3, <1>4 DEF NoResult, BareResult, OuterResult
<1>7. i \in RoutinesUpTo(Len(opened)) \ Reached(Len(opened))
  BY <1>2, <1>5, <1>6
<1>. QED BY <1>7 DEF ResultTooFar

-----------------------------------------------------------------------------
(* The other steps of a lookup.                                            *)

\* The nearest frame that declares a name is one that does, and the unit's own
\* comes first.
LEMMA FramesFacts ==
  ASSUME world \in Worlds, NEW u \in DOMAIN world.uses, NEW n
  PROVE  /\ declaring(u, n) # {} => n \in world.exports[nearest(u, n)]
         /\ n \in world.exports[u] => declaring(u, n) # {} /\ nearest(u, n) = u
<1>1. PICK X : X = DOMAIN world.exports
  OBVIOUS
<1>2. world.uses[u] \in Seq(X) /\ u \in X /\ Runtime \in X
  BY <1>1, NameLookupAssumption
<1>3. PICK r : r = Reverse(world.uses[u])
  OBVIOUS
<1>4. r \in Seq(X)
  BY <1>2, <1>3 DEF Reverse
<1>5. PICK F : F = (<<u>> \o r) \o <<Runtime>>
  OBVIOUS
<1>6. F \in Seq(X) /\ Len(F) = Len(r) + 2 /\ F[1] = u
  <2>1. <<u>> \o r \in Seq(X) /\ Len(<<u>> \o r) = Len(r) + 1 /\ (<<u>> \o r)[1] = u
    BY <1>2, <1>4
  <2>. QED BY <2>1, <1>2, <1>4, <1>5
<1>7. frames(u) = F
  BY <1>3, <1>5 DEF frames
<1>8. DOMAIN F = 1 .. Len(F) /\ Len(F) \in Nat
  BY <1>6
<1>9. PICK D \in SUBSET Nat : D = declaring(u, n)
  <2>1. declaring(u, n) \subseteq 1 .. Len(F)
    BY <1>7, <1>8 DEF declaring
  <2>2. 1 .. Len(F) \subseteq Nat
    OBVIOUS
  <2>3. declaring(u, n) \in SUBSET Nat
    BY <2>1, <2>2
  <2>. QED BY <2>3
<1>10. D # {} => Min(D) \in D /\ \A j \in D : Min(D) <= j
  BY <1>9, Smallest
<1>11. declaring(u, n) # {} => n \in world.exports[nearest(u, n)]
  BY <1>9, <1>10 DEF nearest, declaring
<1>12. ASSUME n \in world.exports[u] PROVE declaring(u, n) # {} /\ nearest(u, n) = u
  <2>1. 1 \in DOMAIN F
    BY <1>6, <1>8, <1>4
  <2>2. 1 \in D
    BY <2>1, <1>6, <1>7, <1>9, <1>12 DEF declaring
  <2>3. \A j \in D : j \in 1 .. Len(F)
    BY <1>7, <1>8, <1>9 DEF declaring
  <2>4. PICK m \in D : m = Min(D) /\ m <= 1
    BY <2>2, <1>10
  <2>5. m = 1
    BY <2>3, <2>4
  <2>. QED BY <2>2, <2>4, <2>5, <1>6, <1>7, <1>9 DEF nearest
<1>. QED BY <1>11, <1>12

\* What no construct and no class declares is looked for in the units.
LEMMA UnitNames ==
  ASSUME IsHistory(opened), world \in Worlds, NEW n \in Names, n \notin members,
         \A i \in 1 .. Len(opened) : ~Declares(opened[i], n),
         NEW s, s.unit = Main, s.emission = Main, NoResult(s, n), with_member(s, n) = <<>>, s.nested[n] = <<>>,
         n \notin s.local_scope, n \notin s.members
  PROVE  Cxx(resolve_name(s, n)) = InUnit(Main, n)
<1>1. Main \in DOMAIN world.uses /\ DOMAIN opened = 1 .. Len(opened)
  BY NameLookupAssumption, SequenceFacts DEF IsHistory
<1>2. \A i \in 1 .. Len(opened) : <<"p", n>> \notin DOMAIN opened[i].cxx
  BY KnownMeaning
<1>3. Cxx(<<"p", n>>) = IF n \in world.exports[Main] THEN <<"unit", Main, n>> ELSE <<"none", n>>
  <2>1. {i \in DOMAIN opened : <<"p", n>> \in DOMAIN opened[i].cxx} = {}
    BY <1>1, <1>2
  <2>. QED BY <2>1 DEF Cxx
<1>4. resolve_name(s, n) = IF declaring(Main, n) # {} THEN UnitText(s, n) ELSE <<"p", n>>
  BY Resolved
<1>5. /\ declaring(Main, n) # {} => n \in world.exports[nearest(Main, n)]
      /\ n \in world.exports[Main] => declaring(Main, n) # {} /\ nearest(Main, n) = Main
  BY <1>1, FramesFacts
<1>6. \A u : Cxx(<<"unit", u, n>>) = <<"unit", u, n>>
  BY CxxQualified
<1>. QED BY <1>3, <1>4, <1>5, <1>6 DEF InUnit, UnitText

\* The innermost construct that declares a name is found by the mangled name,
\* unless the name is a result, a field, or nested in a routine around it too.
LEMMA LocalNames ==
  ASSUME IsHistory(opened), NEW n \in Names, NEW i \in 1 .. Len(opened), Owner(i, n, Len(opened)), Joins(opened[i], n),
         \A j \in 1 .. i - 1 : ~Nests(opened[j], n),
         NEW s, NamesFollow(s, opened), NoResult(s, n), with_member(s, n) = <<>>
  PROVE  Cxx(resolve_name(s, n)) = Declared(i, n)
<1>1. resolve_name(s, n) = <<"p", n>>
  <2>1. n \in s.local_scope /\ (s.nested[n] # <<>> => s.nested[n][1] = <<"p", n>>)
    BY DEF NamesFollow
  <2>. QED BY <2>1, Resolved
<1>2. <<"p", n>> \in DOMAIN opened[i].cxx /\ opened[i].cxx[<<"p", n>>] = Declared(i, n)
  BY KnownMeaning
<1>3. \A j \in i + 1 .. Len(opened) : <<"p", n>> \notin DOMAIN opened[j].cxx
  <2>1. \A j \in i + 1 .. Len(opened) : j \in 1 .. Len(opened)
    BY SequenceFacts DEF IsHistory
  <2>. QED BY <2>1, KnownMeaning DEF Owner
<1>4. <<"p", n>>[1] \notin {"unit", "field"}
  OBVIOUS
<1>. QED BY <1>1, <1>2, <1>3, <1>4, CxxFinds

\* The member that the view finds is one of the innermost with statement.
LEMMA FieldNames ==
  ASSUME IsHistory(opened), NEW s, WithsFollow(s, opened), NEW n
  PROVE  /\ with_member(s, n) = <<>> =>
              \A i \in 1 .. Len(opened) : opened[i].kind = "with" => n \notin opened[i].fields
         /\ with_member(s, n) # <<>> =>
              \E i \in 1 .. Len(opened) :
                /\ Head(with_member(s, n)) = <<"field", i, n>> /\ opened[i].kind = "with" /\ n \in opened[i].fields
                /\ \A j \in i + 1 .. Len(opened) : opened[j].kind = "with" => n \notin opened[j].fields
<1>1. PICK w : w = s.with_stack
  OBVIOUS
<1>2. PICK m \in Nat : m = Len(w) /\ DOMAIN w = 1 .. m
  BY <1>1, SequenceFacts DEF WithsFollow
<1>3. /\ \A k \in 1 .. m : w[k].at \in 1 .. Len(opened) /\ opened[w[k].at].kind = "with"
                           /\ w[k].fields = opened[w[k].at].fields
      /\ \A k, l \in 1 .. m : k < l => w[k].at < w[l].at
      /\ \A i \in 1 .. Len(opened) : opened[i].kind = "with" => \E k \in 1 .. m : w[k].at = i
  BY <1>1, <1>2 DEF WithsFollow
<1>4. PICK having \in SUBSET (1 .. m) : having = {k \in DOMAIN s.with_stack : n \in s.with_stack[k].fields}
  BY <1>1, <1>2
<1>5. \A k \in 1 .. m : k \in having <=> n \in w[k].fields
  BY <1>1, <1>2, <1>4
<1>6. with_member(s, n) = Only(having # {}, <<"field", w[Max(having)].at, n>>)
  BY <1>1, <1>4 DEF with_member
<1>7. (with_member(s, n) = <<>> <=> having = {})
      /\ (having # {} => Head(with_member(s, n)) = <<"field", w[Max(having)].at, n>>)
  <2>1. (having # {}) \in BOOLEAN
    OBVIOUS
  <2>. QED BY <2>1, <1>6, OnlyFacts
<1>8. ASSUME having = {} PROVE \A i \in 1 .. Len(opened) : opened[i].kind = "with" => n \notin opened[i].fields
  BY <1>3, <1>5, <1>8
<1>9. ASSUME having # {}
      PROVE  \E i \in 1 .. Len(opened) :
               /\ Head(with_member(s, n)) = <<"field", i, n>> /\ opened[i].kind = "with" /\ n \in opened[i].fields
               /\ \A j \in i + 1 .. Len(opened) : opened[j].kind = "with" => n \notin opened[j].fields
  <2>1. Max(having) \in having /\ \A j \in having : j <= Max(having)
    BY <1>9, Largest
  <2>2. PICK k \in having : k = Max(having) /\ \A j \in having : j <= k
    BY <2>1
  <2>3. PICK i \in 1 .. Len(opened) : i = w[k].at
    BY <1>3
  <2>4. Head(with_member(s, n)) = <<"field", i, n>>
    BY <1>7, <1>9, <2>2, <2>3
  <2>5. opened[i].kind = "with" /\ n \in opened[i].fields
    BY <1>3, <1>5, <2>3
  <2>6. ASSUME NEW j \in i + 1 .. Len(opened), opened[j].kind = "with", n \in opened[j].fields PROVE FALSE
    <3>1. j \in 1 .. Len(opened) /\ i \in Nat /\ j \in Nat /\ i < j
      BY <2>6, SequenceFacts DEF IsHistory
    <3>2. PICK p \in 1 .. m : w[p].at = j
      BY <1>3, <2>6, <3>1
    <3>3. p \in having
      BY <1>3, <1>5, <2>6, <3>2
    <3>4. p <= k /\ k \in 1 .. m
      BY <2>2, <3>3
    <3>5. p = k \/ w[p].at < w[k].at
      BY <1>3, <3>4
    <3>. QED BY <2>3, <3>1, <3>2, <3>5
  <2>. QED BY <2>4, <2>5, <2>6
<1>. QED BY <1>7, <1>8, <1>9

-----------------------------------------------------------------------------
(* The results.                                                            *)

\* A name that a construct declares means what that construct says.
LEMMA DeclaredNames ==
  ASSUME NEW c \in Nat, NEW f \in Nat, Current(opened, c), Around(opened, c, f), ResultsFollow(scope, opened, c, f),
         IsHistory(opened), c > 0, NamesFollow(scope, opened), WithsFollow(scope, opened),
         NEW n \in Names, NoResult(scope, n), NEW i \in 1 .. Len(opened), Owner(i, n, Len(opened)),
         ~ResultTooFar(n, Len(opened)), ~RoutineFirst(n, Len(opened)), ~FieldFirst(n, Len(opened))
  PROVE  Cxx(resolve_name(scope, n)) = Pascal(n, Len(opened))
<1>1. PICK l \in Nat : l = Len(opened) /\ i \in Nat /\ i <= l /\ i > 0
  BY SequenceFacts DEF IsHistory
<1>2. Pascal(n, Len(opened)) = Declared(i, n) /\ Declares(opened[i], n)
  BY <1>1, PascalFinds DEF Owner
<1>3. opened[i].kind \in {"routine", "with", "handler"}
  BY Kinds
<1>4. CASE with_member(scope, n) # <<>>
  <2>1. PICK j \in 1 .. Len(opened) :
          /\ Head(with_member(scope, n)) = <<"field", j, n>> /\ opened[j].kind = "with" /\ n \in opened[j].fields
          /\ \A k \in j + 1 .. Len(opened) : opened[k].kind = "with" => n \notin opened[k].fields
    BY <1>4, FieldNames
  <2>2. Cxx(resolve_name(scope, n)) = <<"field", j, n>>
    <3>1. resolve_name(scope, n) = <<"field", j, n>>
      BY <2>1, <1>4, Resolved
    <3>2. <<"field", j, n>>[1] \in {"unit", "field"}
      OBVIOUS
    <3>. QED BY <3>1, <3>2, CxxQualified
  <2>3. j <= i
    <3>1. Declares(opened[j], n)
      BY <2>1, Kinds
    <3>2. j > i => j \in i + 1 .. Len(opened)
      BY <1>1
    <3>. QED BY <3>1, <3>2, <1>1 DEF Owner
  <2>4. CASE i = j
    BY <2>1, <2>2, <2>4, <1>2 DEF Declared
  <2>5. CASE j < i
    <3>1. opened[i].kind = "handler"
      <4>1. opened[i].kind # "with"
        <5>1. i \in j + 1 .. Len(opened)
          BY <1>1, <2>5
        <5>. QED BY <5>1, <1>2, <2>1, Kinds
      <4>2. opened[i].kind # "routine"
        <5>1. opened[j].kind # "routine"
          BY <2>1
        <5>2. ~(j <= c) /\ (opened[i].kind = "routine" => i <= c)
          BY <5>1 DEF Current
        <5>. QED BY <5>2, <2>5, <1>1
      <4>. QED BY <4>1, <4>2, <1>3
    <3>2. Pascal(n, Len(opened)) = <<"local", i, n>>
      BY <1>2, <3>1 DEF Declared
    <3>. QED BY <2>1, <2>5, <3>2 DEF FieldFirst
  <2>. QED BY <2>3, <2>4, <2>5, <1>1
<1>5. CASE with_member(scope, n) = <<>>
  <2>1. opened[i].kind # "with"
    BY <1>2, <1>5, Kinds, FieldNames
  <2>2. Joins(opened[i], n)
    <3>1. SUFFICES ASSUME ~Joins(opened[i], n) PROVE FALSE
      OBVIOUS
    <3>2. opened[i].kind = "routine"
      <4>1. opened[i].kind = "handler" => Joins(opened[i], n)
        BY <1>2, Kinds DEF Joins
      <4>. QED BY <4>1, <3>1, <2>1, <1>3
    <3>3. opened[i].function /\ n \in {opened[i].name, ResultName} /\ n \notin opened[i].locals \cup opened[i].nested
      BY <3>1, <3>2, <1>2, Kinds DEF Joins
    <3>4. Pascal(n, Len(opened)) = <<"result", i>>
      BY <1>2, <3>2, <3>3 DEF Declared
    <3>5. i \in 1 .. c /\ IsFunction(opened[i])
      BY <1>1, <3>2, <3>3 DEF Current, IsFunction
    <3>6. ResultTooFar(n, Len(opened))
      BY <3>3, <3>4, <3>5, ResultIsTooFar
    <3>. QED BY <3>6
  <2>3. Pascal(n, Len(opened)) = <<"local", i, n>>
    BY <2>2, <1>2 DEF Joins, Declared
  <2>4. \A j \in 1 .. i - 1 : ~Nests(opened[j], n)
    <3>1. \A j \in 1 .. i - 1 : j \in 1 .. Len(opened) /\ j < i
      BY <1>1
    <3>. QED BY <2>3, <3>1 DEF RoutineFirst, Nests
  <2>. QED BY <2>2, <2>4, <1>2, <1>5, LocalNames
<1>. QED BY <1>4, <1>5

\* The parts of the invariant that a lookup uses.
Stands(c, f) ==
  /\ c > 0 /\ Current(opened, c) /\ Around(opened, c, f) /\ ResultsFollow(scope, opened, c, f)
  /\ IsHistory(opened) /\ NamesFollow(scope, opened) /\ WithsFollow(scope, opened) /\ IsView(scope)
  /\ scope.members = members /\ world \in Worlds /\ IsSequence(opened) /\ Len(opened) \in Nat \ {0}

LEMMA WhereItStands == NamesInv /\ opened # <<>> => \E c \in Nat, f \in Nat : Stands(c, f)
<1>1. SUFFICES ASSUME NamesInv, opened # <<>> PROVE \E c \in Nat, f \in Nat : Stands(c, f)
  OBVIOUS
<1>2. ViewHolds(scope, opened, members)
  BY <1>1, PresentView
<1>3. IsHistory(opened) /\ Follows(scope, opened) /\ scope.members = members /\ world \in Worlds
  BY <1>1, <1>2 DEF ViewHolds, NamesInv
<1>4. IsSequence(opened) /\ Len(opened) \in Nat \ {0}
  BY <1>1, <1>3, SequenceFacts DEF IsHistory
<1>5. PICK c \in Nat, f \in Nat : Current(opened, c) /\ Around(opened, c, f) /\ ResultsFollow(scope, opened, c, f)
  BY <1>3 DEF Follows
<1>6. c > 0
  <2>1. PICK d \in Nat : Current(opened, d) /\ d > 0
    BY <1>1, <1>3 DEF IsHistory
  <2>2. 1 \in 1 .. Len(opened)
    BY <1>4
  <2>3. opened[1].kind = "routine"
    BY <2>1, <2>2 DEF Current
  <2>. QED BY <2>2, <2>3, <1>5 DEF Current
<1>7. NamesFollow(scope, opened) /\ WithsFollow(scope, opened) /\ IsView(scope)
  BY <1>3 DEF Follows
<1>. QED BY <1>3, <1>4, <1>5, <1>6, <1>7 DEF Stands

LEMMA NameMeans ==
  ASSUME NEW c \in Nat, NEW f \in Nat, Stands(c, f), NEW n \in Names, ~Displaced(n, Len(opened))
  PROVE  Cxx(resolve_name(scope, n)) = Pascal(n, Len(opened))
<1>1. /\ ~ResultFirst(n, Len(opened)) /\ ~ResultTooFar(n, Len(opened))
      /\ ~RoutineFirst(n, Len(opened)) /\ ~FieldFirst(n, Len(opened))
  BY DEF Displaced
<1>2. CASE ~NoResult(scope, n)
  <2>1. resolve_name(scope, n) = Head(result_of(scope, n))
    BY <1>2, Resolved
  <2>. QED BY <1>1, <1>2, <2>1, ResultsAreMeant DEF Stands
<1>3. CASE NoResult(scope, n) /\ \E i \in 1 .. Len(opened) : Declares(opened[i], n)
  <2>1. PICK i \in 1 .. Len(opened) : Owner(i, n, Len(opened))
    BY <1>3, OwnerExists DEF Stands
  <2>. QED BY <1>1, <1>3, <2>1, DeclaredNames DEF Stands
<1>4. CASE NoResult(scope, n) /\ \A i \in 1 .. Len(opened) : ~Declares(opened[i], n)
  <2>1. with_member(scope, n) = <<>>
    <3>1. \A i \in 1 .. Len(opened) : opened[i].kind = "with" => n \notin opened[i].fields
      BY <1>4, Kinds DEF Stands
    <3>. QED BY <3>1, FieldNames DEF Stands
  <2>2. scope.nested[n] = <<>> /\ n \notin scope.local_scope
    <3>1. \A i \in 1 .. Len(opened) : ~Joins(opened[i], n) /\ ~Nests(opened[i], n)
      BY <1>4, Kinds DEF Stands
    <3>. QED BY <3>1 DEF Stands, NamesFollow
  <2>3. Pascal(n, Len(opened)) = IF n \in members THEN <<"member", n>> ELSE InUnit(Main, n)
    BY <1>4, PascalFindsNone DEF Stands
  <2>4. CASE n \in members
    <3>1. resolve_name(scope, n) = <<"p", n>>
      BY <1>4, <2>1, <2>2, <2>4, Resolved DEF Stands
    <3>2. {i \in DOMAIN opened : <<"p", n>> \in DOMAIN opened[i].cxx} = {}
      <4>1. \A i \in 1 .. Len(opened) : <<"p", n>> \notin DOMAIN opened[i].cxx
        BY <1>4, KnownMeaning DEF Stands
      <4>. QED BY <4>1, SequenceFacts DEF Stands
    <3>3. Cxx(<<"p", n>>) = <<"member", n>>
      BY <3>2, <2>4 DEF Cxx
    <3>. QED BY <2>3, <2>4, <3>1, <3>3
  <2>5. CASE n \notin members
    <3>1. scope.unit = Main /\ scope.emission = Main /\ n \notin scope.members
      BY <2>5 DEF Stands, IsView
    <3>. QED BY <1>4, <2>1, <2>2, <2>3, <2>5, <3>1, UnitNames DEF Stands
  <2>. QED BY <2>4, <2>5
<1>. QED BY <1>2, <1>3, <1>4

LEMMA NamesFromInv == NamesInv => NamesMeanTheInnermost
<1>1. SUFFICES ASSUME NamesInv, opened # <<>>, NEW n \in Names, ~Displaced(n, Len(opened))
      PROVE  Cxx(resolve_name(scope, n)) = Pascal(n, Len(opened))
  BY DEF NamesMeanTheInnermost
<1>2. PICK c \in Nat, f \in Nat : Stands(c, f)
  BY <1>1, WhereItStands
<1>. QED BY <1>1, <1>2, NameMeans

\* The default argument of a routine of another unit names what that unit means.
LEMMA OtherUnitDefaults ==
  ASSUME NEW c \in Nat, NEW f \in Nat, Stands(c, f), NEW n \in Names, NEW u \in DOMAIN world.uses \ {Main}, Known(u, n)
  PROVE  UnitDefault(u, n) = InUnit(u, n)
<1>1. PICK s : s = unit_declaration(scope, u)
  OBVIOUS
<1>2. /\ s.unit = u /\ s.emission = Main /\ s.result_slot = <<>> /\ s.bare_slot = <<>> /\ s.outer_slot = <<>>
      /\ s.with_stack = <<>> /\ s.nested[n] = <<>> /\ s.local_scope = {} /\ s.members = {}
  BY <1>1 DEF Stands, IsView, unit_declaration, NoScope
<1>3. NoResult(s, n)
  BY <1>2 DEF NoResult, OwnResult, BareResult, OuterResult
<1>4. with_member(s, n) = <<>>
  BY <1>2 DEF with_member, Only
<1>5. resolve_name(s, n) = <<"unit", nearest(u, n), n>>
  BY <1>2, <1>3, <1>4, Resolved DEF UnitText, Known
<1>6. <<"unit", nearest(u, n), n>>[1] \in {"unit", "field"}
  OBVIOUS
<1>. QED BY <1>1, <1>5, <1>6, CxxQualified DEF UnitDefault, InUnit, Known

\* That of a routine of this unit names what the unit means, when nothing that
\* is open declares the name.
LEMMA OwnUnitDefaults ==
  ASSUME NEW c \in Nat, NEW f \in Nat, Stands(c, f), NEW n \in Names,
         \A i \in DOMAIN opened : ~Declares(opened[i], n), n \notin members
  PROVE  UnitDefault(Main, n) = InUnit(Main, n)
<1>1. PICK s : s = unit_declaration(scope, Main)
  OBVIOUS
<1>2. /\ s.unit = Main /\ s.emission = Main /\ s.result_slot = <<>> /\ s.bare_slot = <<>> /\ s.outer_slot = <<>>
      /\ s.with_stack = <<>> /\ s.nested[n] = <<>> /\ s.local_scope = {} /\ s.members = {}
  BY <1>1 DEF Stands, IsView, unit_declaration, NoScope
<1>3. NoResult(s, n)
  BY <1>2 DEF NoResult, OwnResult, BareResult, OuterResult
<1>4. with_member(s, n) = <<>>
  BY <1>2 DEF with_member, Only
<1>5. IsHistory(opened) /\ world \in Worlds /\ \A i \in 1 .. Len(opened) : ~Declares(opened[i], n)
  BY SequenceFacts DEF Stands
<1>6. n \notin s.local_scope /\ n \notin s.members
  BY <1>2
<1>7. Cxx(resolve_name(s, n)) = InUnit(Main, n)
  BY <1>2, <1>3, <1>4, <1>5, <1>6, UnitNames
<1>. QED BY <1>1, <1>7 DEF UnitDefault

\* What is not opened by a routine and declares nothing does not change what a
\* name means, nor whether it is displaced.
LEMMA SameMeaning ==
  ASSUME NEW c \in Nat, NEW f \in Nat, Stands(c, f), NEW n, \A j \in c + 1 .. Len(opened) : ~Declares(opened[j], n)
  PROVE  Pascal(n, Len(opened)) = Pascal(n, c) /\ (Displaced(n, Len(opened)) => Displaced(n, c))
<1>1. /\ c \in 1 .. Len(opened) /\ Reached(c) = Reached(Len(opened)) /\ RoutinesUpTo(c) = RoutinesUpTo(Len(opened))
      /\ \A i \in 1 .. Len(opened) : opened[i].kind = "routine" <=> i <= c
  BY ReachedAre, RoutinesAre DEF Stands, Current
<1>2. {i \in 1 .. Len(opened) : Declares(opened[i], n)} = {i \in 1 .. c : Declares(opened[i], n)}
  <2>1. \A i \in 1 .. Len(opened) : i \in 1 .. c \/ i \in c + 1 .. Len(opened)
    BY <1>1 DEF Stands
  <2>2. \A i \in 1 .. c : i \in 1 .. Len(opened)
    BY <1>1 DEF Stands
  <2>. QED BY <2>1, <2>2
<1>3. Pascal(n, Len(opened)) = Pascal(n, c)
  <2>1. (Len(opened) > 0) = (c > 0)
    BY DEF Stands
  <2>. QED BY <1>2, <2>1 DEF Pascal
<1>4. ASSUME NEW i \in 1 .. Len(opened), Pascal(n, c) = <<"local", i, n>> PROVE i \in 1 .. c
  <2>1. CASE \E j \in 1 .. c : Declares(opened[j], n)
    <3>1. PICK j \in 1 .. c : Owner(j, n, c)
      BY <2>1, OwnerExists
    <3>2. Pascal(n, c) = Declared(j, n)
      BY <3>1, PascalFinds
    <3>3. Declared(j, n) = <<"local", i, n>> => i = j
      BY DEF Declared
    <3>. QED BY <1>4, <3>2, <3>3
  <2>2. CASE \A j \in 1 .. c : ~Declares(opened[j], n)
    <3>1. Pascal(n, c) = IF n \in members THEN <<"member", n>> ELSE InUnit(Main, n)
      BY <2>2, PascalFindsNone DEF Stands
    <3>. QED BY <1>4, <3>1 DEF InUnit
  <2>. QED BY <2>1, <2>2
<1>5. ResultFirst(n, Len(opened)) => ResultFirst(n, c)
  BY <1>1, <1>3 DEF ResultFirst
<1>6. ResultTooFar(n, Len(opened)) => ResultTooFar(n, c)
  BY <1>1, <1>3 DEF ResultTooFar
<1>7. \A j, i \in 1 .. Len(opened) : j < i /\ i \in 1 .. c => j \in 1 .. c
  BY DEF Stands
<1>8. RoutineFirst(n, Len(opened)) => RoutineFirst(n, c)
  BY <1>3, <1>4, <1>7 DEF RoutineFirst
<1>9. FieldFirst(n, Len(opened)) => FieldFirst(n, c)
  BY <1>3, <1>4, <1>7 DEF FieldFirst
<1>. QED BY <1>3, <1>5, <1>6, <1>8, <1>9 DEF Displaced

\* The default argument of a nested routine, lowered as if in its own scope.
LEMMA NestedDefaults ==
  ASSUME NEW c \in Nat, NEW f \in Nat, Stands(c, f), NEW n \in Names, NEW i \in 1 .. c,
         Pascal(n, i)[1] \notin {"result", "member"}, ~Displaced(n, i),
         \A j \in i + 1 .. Len(opened) : ~Declares(opened[j], n)
  PROVE  Cxx(resolve_name(local_declaration(scope, FALSE), n)) = Pascal(n, i)
<1>1. PICK s : s = local_declaration(scope, FALSE)
  OBVIOUS
<1>2. /\ s.unit = Main /\ s.emission = Main /\ s.result_slot = <<>> /\ s.bare_slot = <<>> /\ s.outer_slot = <<>>
      /\ s.with_stack = scope.with_stack /\ s.nested = scope.nested /\ s.local_scope = scope.local_scope
      /\ s.members = {}
  BY <1>1 DEF local_declaration, NoScope
<1>3. NoResult(s, n) /\ NamesFollow(s, opened) /\ WithsFollow(s, opened)
  BY <1>2 DEF NoResult, OwnResult, BareResult, OuterResult, Stands, NamesFollow, WithsFollow
<1>4. /\ IsHistory(opened) /\ world \in Worlds /\ i \in 1 .. Len(opened)
      /\ \A j \in 1 .. Len(opened) : opened[j].kind = "routine" <=> j <= c
  BY DEF Stands, Current
<1>5. with_member(s, n) = <<>>
  <2>1. ASSUME NEW j \in 1 .. Len(opened), opened[j].kind = "with" PROVE n \notin opened[j].fields
    <3>1. j \in i + 1 .. Len(opened)
      <4>1. ~(j <= c)
        BY <1>4, <2>1
      <4>. QED BY <4>1, <1>4
    <3>. QED BY <2>1, <3>1, <1>4, Kinds
  <2>. QED BY <2>1, <1>3, <1>4, FieldNames
<1>6. CASE \E j \in 1 .. i : Declares(opened[j], n)
  <2>1. PICK j \in 1 .. i : Owner(j, n, i)
    <3>1. i \in Nat
      OBVIOUS
    <3>. QED BY <3>1, <1>6, OwnerExists
  <2>2. Pascal(n, i) = Declared(j, n) /\ Declares(opened[j], n)
    BY <2>1, PascalFinds DEF Owner
  <2>3. j \in 1 .. Len(opened) /\ opened[j].kind = "routine"
    BY <1>4
  <2>4. Owner(j, n, Len(opened))
    <3>1. \A k \in j + 1 .. Len(opened) : k \in j + 1 .. i \/ k \in i + 1 .. Len(opened)
      BY <1>4
    <3>. QED BY <2>1, <2>3, <3>1 DEF Owner
  <2>5. n \in opened[j].locals \cup opened[j].nested
    BY <2>2, <2>3 DEF Declared
  <2>6. Joins(opened[j], n) /\ Pascal(n, i) = <<"local", j, n>>
    BY <2>2, <2>3, <2>5 DEF Joins, Declared
  <2>7. \A k \in 1 .. j - 1 : ~Nests(opened[k], n)
    <3>1. \A k \in 1 .. j - 1 : k \in 1 .. i /\ k < j
      OBVIOUS
    <3>2. ~RoutineFirst(n, i)
      BY DEF Displaced
    <3>. QED BY <2>6, <3>1, <3>2 DEF RoutineFirst, Nests
  <2>. QED BY <1>1, <1>3, <1>4, <1>5, <2>2, <2>3, <2>4, <2>6, <2>7, LocalNames
<1>7. CASE \A j \in 1 .. i : ~Declares(opened[j], n)
  <2>1. Pascal(n, i) = IF n \in members THEN <<"member", n>> ELSE InUnit(Main, n)
    BY <1>7, PascalFindsNone
  <2>2. n \notin members
    BY <2>1
  <2>3. \A j \in 1 .. Len(opened) : ~Declares(opened[j], n)
    <3>1. \A k \in 1 .. Len(opened) : k \in 1 .. i \/ k \in i + 1 .. Len(opened)
      BY <1>4
    <3>. QED BY <1>7, <3>1
  <2>4. s.nested[n] = <<>> /\ n \notin s.local_scope
    <3>1. \A j \in 1 .. Len(opened) : ~Joins(opened[j], n) /\ ~Nests(opened[j], n)
      BY <2>3, <1>4, Kinds
    <3>. QED BY <3>1, <1>3 DEF NamesFollow
  <2>5. n \notin s.members
    BY <1>2
  <2>6. Cxx(resolve_name(s, n)) = InUnit(Main, n)
    BY <1>2, <1>3, <1>4, <1>5, <2>2, <2>3, <2>4, <2>5, UnitNames
  <2>. QED BY <1>1, <2>1, <2>2, <2>6
<1>. QED BY <1>6, <1>7

LEMMA DefaultsFromInv == NamesInv => DefaultsKeepTheirMeaning
<1>1. SUFFICES ASSUME NamesInv, opened # <<>>, NEW n \in Names
      PROVE  /\ \A u \in DOMAIN world.uses \ {Main} : Known(u, n) => UnitDefault(u, n) = InUnit(u, n)
             /\ Known(Main, n) /\ (\A i \in DOMAIN opened : ~Declares(opened[i], n)) /\ n \notin members
                  => UnitDefault(Main, n) = InUnit(Main, n)
             /\ \A i \in RoutinesUpTo(Len(opened)) :
                  /\ Pascal(n, i)[1] \notin {"result", "member"} /\ ~Displaced(n, i)
                  /\ \A j \in i + 1 .. Len(opened) : ~Declares(opened[j], n)
                  => LocalDefaults(i, n) = {Pascal(n, i)}
  BY DEF DefaultsKeepTheirMeaning
<1>2. PICK c \in Nat, f \in Nat : Stands(c, f)
  BY <1>1, WhereItStands
<1>3. \A u \in DOMAIN world.uses \ {Main} : Known(u, n) => UnitDefault(u, n) = InUnit(u, n)
  BY <1>2, OtherUnitDefaults
<1>4. (\A i \in DOMAIN opened : ~Declares(opened[i], n)) /\ n \notin members => UnitDefault(Main, n) = InUnit(Main, n)
  BY <1>2, OwnUnitDefaults
<1>5. ASSUME NEW i \in RoutinesUpTo(Len(opened)), Pascal(n, i)[1] \notin {"result", "member"}, ~Displaced(n, i),
             \A j \in i + 1 .. Len(opened) : ~Declares(opened[j], n)
      PROVE  LocalDefaults(i, n) = {Pascal(n, i)}
  <2>1. RoutinesUpTo(Len(opened)) = 1 .. c /\ Max(1 .. c) = c /\ i \in 1 .. c
    BY <1>2, <1>5, RoutinesAre DEF Stands
  <2>2. Cxx(resolve_name(local_declaration(scope, FALSE), n)) = Pascal(n, i)
    BY <1>2, <1>5, <2>1, NestedDefaults
  <2>3. i = c => Cxx(resolve_name(local_declaration(scope, TRUE), n)) = Pascal(n, i)
    <3>1. ASSUME i = c PROVE Cxx(resolve_name(scope, n)) = Pascal(n, c)
      <4>1. \A j \in c + 1 .. Len(opened) : ~Declares(opened[j], n)
        BY <1>5, <3>1
      <4>2. Pascal(n, Len(opened)) = Pascal(n, c) /\ (Displaced(n, Len(opened)) => Displaced(n, c))
        BY <1>2, <4>1, SameMeaning
      <4>3. ~Displaced(n, Len(opened))
        BY <1>5, <3>1, <4>2
      <4>. QED BY <1>2, <4>2, <4>3, NameMeans
    <3>2. local_declaration(scope, TRUE) = scope
      BY DEF local_declaration
    <3>. QED BY <3>1, <3>2
  <2>4. LocalDefaults(i, n) = {Cxx(resolve_name(local_declaration(scope, same), n)) : same \in {FALSE} \cup {i = c}}
    BY <2>1 DEF LocalDefaults
  <2>5. ASSUME NEW same \in {FALSE} \cup {i = c}
        PROVE  Cxx(resolve_name(local_declaration(scope, same), n)) = Pascal(n, i)
    <3>1. CASE same = FALSE
      BY <3>1, <2>2
    <3>2. CASE same = TRUE
      <4>1. i = c
        BY <3>2, <2>5
      <4>. QED BY <3>2, <4>1, <2>3
    <3>. QED BY <3>1, <3>2
  <2>6. \A x : x \in LocalDefaults(i, n) <=> x = Pascal(n, i)
    <3>1. \A x \in LocalDefaults(i, n) : x = Pascal(n, i)
      BY <2>4, <2>5, Zenon
    <3>2. FALSE \in {FALSE} \cup {i = c}
      OBVIOUS
    <3>3. Cxx(resolve_name(local_declaration(scope, FALSE), n)) \in LocalDefaults(i, n)
      BY <2>4, <3>2, Zenon
    <3>. QED BY <2>2, <3>1, <3>3
  <2>. QED BY <2>6
<1>. QED BY <1>3, <1>4, <1>5

LEMMA NamesInvHolds == BothSpec => []NamesInv
<1>1. BothInit => NamesInv
  BY NamesInitHolds DEF BothInit
<1>2. NamesInv /\ [BothNext]_<<phase, lookupState, typeState>> => NamesInv'
  <2>1. SUFFICES ASSUME NamesInv, [BothNext]_<<phase, lookupState, typeState>> PROVE NamesInv'
    OBVIOUS
  <2>2. [Next]_vars
    BY <2>1 DEF BothNext, lookupState, vars
  <2>. QED BY <2>1, <2>2, NamesStepHolds
<1>. QED BY <1>1, <1>2, PTL DEF BothSpec

\* Wherever the emitter stands, in whatever units and classes, with any number
\* of constructs entered and left before, the text it writes for a name means in
\* C++ what the innermost Pascal scope declares, but for the displacements.
THEOREM NamesCorrect == BothSpec => []NamesMeanTheInnermost
<1>1. NamesInv => NamesMeanTheInnermost
  BY NamesFromInv
<1>. QED BY <1>1, NamesInvHolds, PTL

\* The text of a default argument means at every call what it means where the
\* routine is declared, in other units always.
THEOREM DefaultsCorrect == BothSpec => []DefaultsKeepTheirMeaning
<1>1. NamesInv => DefaultsKeepTheirMeaning
  BY DefaultsFromInv
<1>. QED BY <1>1, NamesInvHolds, PTL

-----------------------------------------------------------------------------
(* Loops over lists: each goes through the states that a step makes of one *)
(* another.                                                                *)

AfterNoting(p, list, x) ==
  Types!Over(list, p, LAMBDA q, j :
    IF Types!IsTypes(list) THEN Types!note_type(q, list[j], x \o <<j>>)
    ELSE Types!note_label(Types!note_value(q, list[j].name), list[j].label))
AfterIndexing(p, lists, x) ==
  Types!Over(lists, p, LAMBDA q, k : Types!index_local_list(q, lists[k], x \o <<k>>))
AfterResolving(r, list, x, symbols, views) ==
  Types!Over(list, r, LAMBDA q, j :
    Types!resolve_declaration(q, list[j], x \o <<j>>, symbols[j], views[j],
                              Types!Position(q, list, symbols, j)))
AfterLinking(r, list, x, views) ==
  Types!Over(list, r, LAMBDA q, j : Types!resolve_class_links(q, list[j], x \o <<j>>, views[j]))

\* The declarations of a list are registered in turn.
RegisterStep(q, sec, list, i, j) ==
  CASE Types!IsTypes(list) -> Types!register_type(q, sec, list[j], <<i, j>>)
    [] list[j].form \in {"var", "const"} -> Types!register_storage(q, sec, list[j])
    [] list[j].form = "proc" -> Types!register_routine(q, sec, list[j])

LEMMA Registering ==
  ASSUME NEW r, NEW sec, NEW i, NEW list, Len(list) \in Nat
  PROVE  \E t : /\ t[0] = r /\ Types!register_decl_list(r, sec, list, i) = t[Len(list)]
                /\ \A j \in 1 .. Len(list) : t[j] = RegisterStep(t[j - 1], sec, list, i, j)
<1>. DEFINE Step(q, j) == RegisterStep(q, sec, list, i, j)
            Solves(t, n) == t = [j \in 0 .. n |-> IF j = 0 THEN r ELSE Step(t[j - 1], j)]
            T == CHOOSE t : Solves(t, Len(list))
            Unsolved == {n \in Nat : ~\E t : Solves(t, n)}
<1>1. Types!register_decl_list(r, sec, list, i) = T[Len(list)]
  BY Zenon DEF Types!register_decl_list, Types!Over, RegisterStep
<1>. HIDE DEF Step
<1>2. Unsolved = {}
  <2>1. SUFFICES ASSUME Unsolved # {} PROVE FALSE
    OBVIOUS
  <2>2. PICK m \in Unsolved : \A n \in Unsolved : m <= n
    BY <2>1, Smallest
  <2>3. m # 0
    <3>1. Solves([j \in 0 .. 0 |-> r], 0)
      OBVIOUS
    <3>. QED BY <2>2, <3>1
  <2>4. PICK n \in Nat : m = n + 1 /\ n \notin Unsolved
    <3>1. m - 1 \in Nat /\ m = (m - 1) + 1 /\ ~(m <= m - 1)
      BY <2>3
    <3>. QED BY <2>2, <3>1
  <2>5. PICK f : Solves(f, n)
    BY <2>4
  <2>6. Solves([j \in 0 .. n + 1 |-> IF j <= n THEN f[j] ELSE Step(f[n], n + 1)], n + 1)
    BY <2>5
  <2>. QED BY <2>2, <2>4, <2>6
<1>3. Solves(T, Len(list))
  BY <1>2
<1>. HIDE DEF T
<1>4. T[0] = r /\ \A j \in 1 .. Len(list) : T[j] = Step(T[j - 1], j)
  BY <1>3
<1>. QED BY <1>1, <1>4 DEF Step

\* The declarations of a list in a routine are noted in turn.
NoteStep(q, list, x, j) ==
  IF Types!IsTypes(list) THEN Types!note_type(q, list[j], x \o <<j>>)
  ELSE Types!note_label(Types!note_value(q, list[j].name), list[j].label)

LEMMA Noting ==
  ASSUME NEW p, NEW x, NEW list, Len(list) \in Nat
  PROVE  \E t : /\ t[0] = p /\ AfterNoting(p, list, x) = t[Len(list)]
                /\ \A j \in 1 .. Len(list) : t[j] = NoteStep(t[j - 1], list, x, j)
<1>. DEFINE Step(q, j) == NoteStep(q, list, x, j)
            Solves(t, n) == t = [j \in 0 .. n |-> IF j = 0 THEN p ELSE Step(t[j - 1], j)]
            T == CHOOSE t : Solves(t, Len(list))
            Unsolved == {n \in Nat : ~\E t : Solves(t, n)}
<1>1. AfterNoting(p, list, x) = T[Len(list)]
  BY Zenon DEF AfterNoting, Types!Over, NoteStep
<1>. HIDE DEF Step
<1>2. Unsolved = {}
  <2>1. SUFFICES ASSUME Unsolved # {} PROVE FALSE
    OBVIOUS
  <2>2. PICK m \in Unsolved : \A n \in Unsolved : m <= n
    BY <2>1, Smallest
  <2>3. m # 0
    <3>1. Solves([j \in 0 .. 0 |-> p], 0)
      OBVIOUS
    <3>. QED BY <2>2, <3>1
  <2>4. PICK n \in Nat : m = n + 1 /\ n \notin Unsolved
    <3>1. m - 1 \in Nat /\ m = (m - 1) + 1 /\ ~(m <= m - 1)
      BY <2>3
    <3>. QED BY <2>2, <3>1
  <2>5. PICK f : Solves(f, n)
    BY <2>4
  <2>6. Solves([j \in 0 .. n + 1 |-> IF j <= n THEN f[j] ELSE Step(f[n], n + 1)], n + 1)
    BY <2>5
  <2>. QED BY <2>2, <2>4, <2>6
<1>3. Solves(T, Len(list))
  BY <1>2
<1>. HIDE DEF T
<1>4. T[0] = p /\ \A j \in 1 .. Len(list) : T[j] = Step(T[j - 1], j)
  BY <1>3
<1>. QED BY <1>1, <1>4 DEF Step

\* The lists of a routine are read in turn.
ListStep(q, lists, x, j) ==
  Types!index_local_list(q, lists[j], x \o <<j>>)

LEMMA Indexing ==
  ASSUME NEW p, NEW x, NEW lists, Len(lists) \in Nat
  PROVE  \E t : /\ t[0] = p /\ AfterIndexing(p, lists, x) = t[Len(lists)]
                /\ \A j \in 1 .. Len(lists) : t[j] = ListStep(t[j - 1], lists, x, j)
<1>. DEFINE Step(q, j) == ListStep(q, lists, x, j)
            Solves(t, n) == t = [j \in 0 .. n |-> IF j = 0 THEN p ELSE Step(t[j - 1], j)]
            T == CHOOSE t : Solves(t, Len(lists))
            Unsolved == {n \in Nat : ~\E t : Solves(t, n)}
<1>1. AfterIndexing(p, lists, x) = T[Len(lists)]
  BY Zenon DEF AfterIndexing, Types!Over, ListStep
<1>. HIDE DEF Step
<1>2. Unsolved = {}
  <2>1. SUFFICES ASSUME Unsolved # {} PROVE FALSE
    OBVIOUS
  <2>2. PICK m \in Unsolved : \A n \in Unsolved : m <= n
    BY <2>1, Smallest
  <2>3. m # 0
    <3>1. Solves([j \in 0 .. 0 |-> p], 0)
      OBVIOUS
    <3>. QED BY <2>2, <3>1
  <2>4. PICK n \in Nat : m = n + 1 /\ n \notin Unsolved
    <3>1. m - 1 \in Nat /\ m = (m - 1) + 1 /\ ~(m <= m - 1)
      BY <2>3
    <3>. QED BY <2>2, <3>1
  <2>5. PICK f : Solves(f, n)
    BY <2>4
  <2>6. Solves([j \in 0 .. n + 1 |-> IF j <= n THEN f[j] ELSE Step(f[n], n + 1)], n + 1)
    BY <2>5
  <2>. QED BY <2>2, <2>4, <2>6
<1>3. Solves(T, Len(lists))
  BY <1>2
<1>. HIDE DEF T
<1>4. T[0] = p /\ \A j \in 1 .. Len(lists) : T[j] = Step(T[j - 1], j)
  BY <1>3
<1>. QED BY <1>1, <1>4 DEF Step

\* The declarations of a section are resolved in turn.
ResolveStep(q, list, x, symbols, views, j) ==
  Types!resolve_declaration(q, list[j], x \o <<j>>, symbols[j], views[j],
                            Types!Position(q, list, symbols, j))

LEMMA Resolving ==
  ASSUME NEW r, NEW x, NEW symbols, NEW views, NEW list, Len(list) \in Nat
  PROVE  \E t : /\ t[0] = r /\ AfterResolving(r, list, x, symbols, views) = t[Len(list)]
                /\ \A j \in 1 .. Len(list) : t[j] = ResolveStep(t[j - 1], list, x, symbols, views, j)
<1>. DEFINE Step(q, j) == ResolveStep(q, list, x, symbols, views, j)
            Solves(t, n) == t = [j \in 0 .. n |-> IF j = 0 THEN r ELSE Step(t[j - 1], j)]
            T == CHOOSE t : Solves(t, Len(list))
            Unsolved == {n \in Nat : ~\E t : Solves(t, n)}
<1>1. AfterResolving(r, list, x, symbols, views) = T[Len(list)]
  BY Zenon DEF AfterResolving, Types!Over, ResolveStep
<1>. HIDE DEF Step
<1>2. Unsolved = {}
  <2>1. SUFFICES ASSUME Unsolved # {} PROVE FALSE
    OBVIOUS
  <2>2. PICK m \in Unsolved : \A n \in Unsolved : m <= n
    BY <2>1, Smallest
  <2>3. m # 0
    <3>1. Solves([j \in 0 .. 0 |-> r], 0)
      OBVIOUS
    <3>. QED BY <2>2, <3>1
  <2>4. PICK n \in Nat : m = n + 1 /\ n \notin Unsolved
    <3>1. m - 1 \in Nat /\ m = (m - 1) + 1 /\ ~(m <= m - 1)
      BY <2>3
    <3>. QED BY <2>2, <3>1
  <2>5. PICK f : Solves(f, n)
    BY <2>4
  <2>6. Solves([j \in 0 .. n + 1 |-> IF j <= n THEN f[j] ELSE Step(f[n], n + 1)], n + 1)
    BY <2>5
  <2>. QED BY <2>2, <2>4, <2>6
<1>3. Solves(T, Len(list))
  BY <1>2
<1>. HIDE DEF T
<1>4. T[0] = r /\ \A j \in 1 .. Len(list) : T[j] = Step(T[j - 1], j)
  BY <1>3
<1>. QED BY <1>1, <1>4 DEF Step

\* Then their parent classes are.
LinkStep(q, list, x, views, j) ==
  Types!resolve_class_links(q, list[j], x \o <<j>>, views[j])

LEMMA Linking ==
  ASSUME NEW r, NEW x, NEW views, NEW list, Len(list) \in Nat
  PROVE  \E t : /\ t[0] = r /\ AfterLinking(r, list, x, views) = t[Len(list)]
                /\ \A j \in 1 .. Len(list) : t[j] = LinkStep(t[j - 1], list, x, views, j)
<1>. DEFINE Step(q, j) == LinkStep(q, list, x, views, j)
            Solves(t, n) == t = [j \in 0 .. n |-> IF j = 0 THEN r ELSE Step(t[j - 1], j)]
            T == CHOOSE t : Solves(t, Len(list))
            Unsolved == {n \in Nat : ~\E t : Solves(t, n)}
<1>1. AfterLinking(r, list, x, views) = T[Len(list)]
  BY Zenon DEF AfterLinking, Types!Over, LinkStep
<1>. HIDE DEF Step
<1>2. Unsolved = {}
  <2>1. SUFFICES ASSUME Unsolved # {} PROVE FALSE
    OBVIOUS
  <2>2. PICK m \in Unsolved : \A n \in Unsolved : m <= n
    BY <2>1, Smallest
  <2>3. m # 0
    <3>1. Solves([j \in 0 .. 0 |-> r], 0)
      OBVIOUS
    <3>. QED BY <2>2, <3>1
  <2>4. PICK n \in Nat : m = n + 1 /\ n \notin Unsolved
    <3>1. m - 1 \in Nat /\ m = (m - 1) + 1 /\ ~(m <= m - 1)
      BY <2>3
    <3>. QED BY <2>2, <3>1
  <2>5. PICK f : Solves(f, n)
    BY <2>4
  <2>6. Solves([j \in 0 .. n + 1 |-> IF j <= n THEN f[j] ELSE Step(f[n], n + 1)], n + 1)
    BY <2>5
  <2>. QED BY <2>2, <2>4, <2>6
<1>3. Solves(T, Len(list))
  BY <1>2
<1>. HIDE DEF T
<1>4. T[0] = r /\ \A j \in 1 .. Len(list) : T[j] = Step(T[j - 1], j)
  BY <1>3
<1>. QED BY <1>1, <1>4 DEF Step

-----------------------------------------------------------------------------
(* The registry, and what its operations leave alone.                      *)

IsSymbol(s) == s = [form |-> s.form, forward |-> s.forward, nested |-> s.nested, same |-> s.same]
IsSymbols(f) == f = [s \in DOMAIN f |-> f[s]] /\ \A s \in DOMAIN f : IsSymbol(f[s])
OfSections(table) == table = [interface |-> table.interface, implementation |-> table.implementation]

IsRegistry(r) ==
  /\ r = [symbols |-> r.symbols, types |-> r.types, storage |-> r.storage, routines |-> r.routines,
          labels |-> r.labels, meant |-> r.meant, errors |-> r.errors]
  /\ IsSymbols(r.symbols)
  /\ OfSections(r.types) /\ OfSections(r.storage) /\ OfSections(r.routines) /\ OfSections(r.labels)

\* The names reported as declared twice.
Reported(r) == {e[2] : e \in {f \in r.errors : f[1] = "duplicate"}}

SameTables(a, b) ==
  /\ IsRegistry(b)
  /\ b.types = a.types /\ b.storage = a.storage /\ b.routines = a.routines /\ b.labels = a.labels

\* No symbol is lost, and none takes another form.
SameForms(a, b) ==
  \A s \in DOMAIN a.symbols : s \in DOMAIN b.symbols /\ b.symbols[s].form = a.symbols[s].form

Quiet(a, b) == SameTables(a, b) /\ SameForms(a, b) /\ Reported(b) = Reported(a)

LEMMA QuietFollows ==
  ASSUME NEW a, NEW b, NEW c, Quiet(a, b), Quiet(b, c)
  PROVE  Quiet(a, c)
BY DEF Quiet, SameTables, SameForms

LEMMA QuietAtFirst ==
  ASSUME NEW a, IsRegistry(a)
  PROVE  Quiet(a, a)
BY DEF Quiet, SameTables, SameForms

LEMMA ReportedOneMore ==
  ASSUME NEW r, IsRegistry(r), NEW n
  PROVE  LET q == Types!Duplicate(r, n)
         IN  /\ SameTables(r, q) /\ q.symbols = r.symbols /\ q.meant = r.meant
             /\ Reported(q) = Reported(r) \cup {n}
<1>. DEFINE e == <<"duplicate", n>>
            q == [r EXCEPT !.errors = @ \cup {e}]
<1>1. q.errors = r.errors \cup {e} /\ SameTables(r, q) /\ q.symbols = r.symbols /\ q.meant = r.meant
  BY DEF IsRegistry, SameTables
<1>2. e[1] = "duplicate" /\ e[2] = n
  OBVIOUS
<1>. HIDE DEF e, q
<1>3. Reported(q) = Reported(r) \cup {n}
  BY <1>1, <1>2 DEF Reported
<1>. QED BY <1>1, <1>3 DEF q, e, Types!Duplicate

LEMMA NoteIsQuiet ==
  ASSUME NEW r, IsRegistry(r), NEW x, NEW s
  PROVE  Quiet(r, Types!Note(r, x, s))
<1>. DEFINE e == <<"type", x>>
            q == Types!Note(r, x, s)
<1>1. /\ SameTables(r, q) /\ q.symbols = r.symbols
      /\ q.errors = r.errors \/ q.errors = r.errors \cup {e}
  <2>1. PICK m, es : /\ q = [r EXCEPT !.meant = m, !.errors = es]
                     /\ es = IF s = Types!NoSite THEN r.errors \cup {e} ELSE r.errors
    BY DEF Types!Note
  <2>. HIDE DEF e, q
  <2>. QED BY <2>1 DEF IsRegistry, SameTables
<1>2. e[1] # "duplicate"
  OBVIOUS
<1>. HIDE DEF e, q
<1>3. {f \in q.errors : f[1] = "duplicate"} = {f \in r.errors : f[1] = "duplicate"}
  BY <1>1, <1>2
<1>4. Reported(q) = Reported(r)
  BY <1>3 DEF Reported
<1>. QED BY <1>1, <1>4 DEF Quiet, SameForms, q

\* An alias takes another type over: the form of its symbol stays.
LEMMA AliasIsQuiet ==
  ASSUME NEW r, IsRegistry(r), NEW s, NEW t
  PROVE  Quiet(r, [r EXCEPT !.symbols[s].same = t])
<1>. DEFINE f == [r.symbols EXCEPT ![s].same = t]
            q == [r EXCEPT !.symbols[s].same = t]
<1>1. IsSymbols(f) /\ DOMAIN f = DOMAIN r.symbols /\ \A u \in DOMAIN f : f[u].form = r.symbols[u].form
  <2>1. IsSymbols(r.symbols)
    BY DEF IsRegistry
  <2>2. DOMAIN f = DOMAIN r.symbols /\ f = [u \in DOMAIN f |-> f[u]]
    OBVIOUS
  <2>3. ASSUME NEW u \in DOMAIN f PROVE IsSymbol(f[u]) /\ f[u].form = r.symbols[u].form
    <3>1. IsSymbol(r.symbols[u])
      BY <2>1, <2>2 DEF IsSymbols
    <3>2. f[u] = IF u = s THEN [r.symbols[u] EXCEPT !.same = t] ELSE r.symbols[u]
      BY <2>2
    <3>. QED BY <3>1, <3>2 DEF IsSymbol
  <2>. QED BY <2>2, <2>3 DEF IsSymbols
<1>2. q = [r EXCEPT !.symbols = f]
  OBVIOUS
<1>. HIDE DEF f
<1>3. SameTables(r, q) /\ q.symbols = f /\ q.errors = r.errors
  BY <1>1, <1>2 DEF IsRegistry, SameTables
<1>. QED BY <1>1, <1>3 DEF Quiet, SameForms, Reported

LEMMA DeclarationIsQuiet ==
  ASSUME NEW r, IsRegistry(r), NEW d, NEW x, NEW s, NEW fr, NEW position
  PROVE  Quiet(r, Types!resolve_declaration(r, d, x, s, fr, position))
<1>1. CASE d.form = "alias"
  <2>. DEFINE named == Types!resolve_named_type(r, d.path, FALSE, fr, position)
              aliased == IF named = s THEN Types!NoSite ELSE named
              q == Types!Note(r, x, aliased)
  <2>1. Quiet(r, q) /\ IsRegistry(q)
    BY NoteIsQuiet DEF Quiet, SameTables
  <2>2. Types!resolve_declaration(r, d, x, s, fr, position)
        = [q EXCEPT !.symbols[s].same = IF aliased = Types!NoSite THEN @ ELSE r.symbols[aliased].same]
    BY <1>1 DEF Types!resolve_declaration
  <2>. HIDE DEF named, q, aliased
  <2>3. PICK t : t = IF aliased = Types!NoSite THEN q.symbols[s].same ELSE r.symbols[aliased].same
    OBVIOUS
  <2>4. Types!resolve_declaration(r, d, x, s, fr, position) = [q EXCEPT !.symbols[s].same = t]
    BY <2>2, <2>3
  <2>. QED BY <2>1, <2>4, AliasIsQuiet, QuietFollows
<1>2. CASE d.form # "alias"
  <2>1. Types!resolve_declaration(r, d, x, s, fr, position) = Types!resolve_children(r, d, x, s, fr, position)
    BY <1>2 DEF Types!resolve_declaration
  <2>. QED BY <2>1, NoteIsQuiet, QuietAtFirst DEF Types!resolve_children
<1>. QED BY <1>1, <1>2

LEMMA ParentIsQuiet ==
  ASSUME NEW r, IsRegistry(r), NEW d, NEW x, NEW fr
  PROVE  Quiet(r, Types!resolve_class_links(r, d, x, fr))
BY NoteIsQuiet, QuietAtFirst DEF Types!resolve_class_links

LEMMA PathIsQuiet ==
  ASSUME NEW r, IsRegistry(r), NEW d, NEW x, NEW fr
  PROVE  Quiet(r, Types!resolve_path(r, d, x, fr))
BY NoteIsQuiet, QuietAtFirst DEF Types!resolve_path


\* What holds at first and after each step holds after the last.
LEMMA AllAlong ==
  ASSUME NEW N \in Nat, NEW Good, 0 \in Good, \A j \in 1 .. N : j - 1 \in Good => j \in Good
  PROVE  0 .. N \subseteq Good
<1>1. SUFFICES ASSUME (0 .. N) \ Good # {} PROVE FALSE
  OBVIOUS
<1>2. PICK m \in (0 .. N) \ Good : \A n \in (0 .. N) \ Good : m <= n
  <2>1. (0 .. N) \ Good \in SUBSET Nat
    OBVIOUS
  <2>. QED BY <1>1, <2>1, Smallest
<1>3. m \in 1 .. N /\ m - 1 \in 0 .. N /\ ~(m <= m - 1)
  BY <1>2
<1>. QED BY <1>2, <1>3

LEMMA SectionIsQuiet ==
  ASSUME NEW r, IsRegistry(r), NEW list, Len(list) \in Nat, NEW x, NEW symbols, NEW fr
  PROVE  Quiet(r, Types!resolve_type_section(r, list, x, symbols, fr))
<1>. DEFINE a == AfterResolving(r, list, x, symbols, fr)
<1>1. Quiet(r, a)
  <2>1. PICK t : /\ t[0] = r /\ a = t[Len(list)]
                 /\ \A j \in 1 .. Len(list) : t[j] = ResolveStep(t[j - 1], list, x, symbols, fr, j)
    BY Resolving
  <2>. DEFINE Good == {j \in Nat : Quiet(r, t[j])}
  <2>2. 0 \in Good
    BY <2>1, QuietAtFirst
  <2>3. ASSUME NEW j \in 1 .. Len(list), j - 1 \in Good PROVE j \in Good
    <3>1. Quiet(r, t[j - 1]) /\ IsRegistry(t[j - 1])
      BY <2>3 DEF Quiet, SameTables
    <3>2. Quiet(t[j - 1], t[j])
      BY <2>1, <3>1, DeclarationIsQuiet DEF ResolveStep
    <3>3. j \in Nat
      OBVIOUS
    <3>. QED BY <3>1, <3>2, <3>3, QuietFollows
  <2>. HIDE DEF Good
  <2>4. Len(list) \in Good
    <3>1. Len(list) \in 0 .. Len(list)
      OBVIOUS
    <3>. QED BY <2>2, <2>3, <3>1, AllAlong
  <2>. QED BY <2>1, <2>4 DEF Good
<1>2. Types!resolve_type_section(r, list, x, symbols, fr) = AfterLinking(a, list, x, fr)
  BY DEF Types!resolve_type_section, AfterResolving, AfterLinking
<1>. HIDE DEF a
<1>3. Quiet(a, AfterLinking(a, list, x, fr))
  <2>1. PICK t : /\ t[0] = a /\ AfterLinking(a, list, x, fr) = t[Len(list)]
                 /\ \A j \in 1 .. Len(list) : t[j] = LinkStep(t[j - 1], list, x, fr, j)
    BY Linking
  <2>. DEFINE Good == {j \in Nat : Quiet(a, t[j])}
  <2>2. 0 \in Good
    BY <1>1, <2>1, QuietAtFirst DEF Quiet, SameTables
  <2>3. ASSUME NEW j \in 1 .. Len(list), j - 1 \in Good PROVE j \in Good
    <3>1. Quiet(a, t[j - 1]) /\ IsRegistry(t[j - 1])
      BY <2>3 DEF Quiet, SameTables
    <3>2. Quiet(t[j - 1], t[j])
      BY <2>1, <3>1, ParentIsQuiet DEF LinkStep
    <3>3. j \in Nat
      OBVIOUS
    <3>. QED BY <3>1, <3>2, <3>3, QuietFollows
  <2>. HIDE DEF Good
  <2>4. Len(list) \in Good
    <3>1. Len(list) \in 0 .. Len(list)
      OBVIOUS
    <3>. QED BY <2>2, <2>3, <3>1, AllAlong
  <2>. QED BY <2>1, <2>4 DEF Good
<1>. QED BY <1>1, <1>2, <1>3, QuietFollows

\* A new symbol for a declaration.
LEMMA OneMoreSymbol ==
  ASSUME NEW r, IsRegistry(r), NEW s, NEW d, NEW q, q = Types!WithSymbol(r, s, d)
  PROVE  /\ SameTables(r, q) /\ q.errors = r.errors
         /\ s \in DOMAIN q.symbols /\ q.symbols[s].form = d.form
         /\ \A u \in DOMAIN r.symbols : u \notin {s, s \o <<0>>} =>
              u \in DOMAIN q.symbols /\ q.symbols[u] = r.symbols[u]
<1>1. PICK z, a, b : z = s \o <<0>> /\ a = Types!NestedSymbol(z) /\ b = Types!Symbol(d, s)
  OBVIOUS
<1>2. IsSymbol(a) /\ IsSymbol(b) /\ b.form = d.form
  BY <1>1 DEF IsSymbol, Types!NestedSymbol, Types!Symbol
<1>3. PICK g : g = Types!Put(r.symbols, z, a)
  OBVIOUS
<1>4. PICK f : f = Types!Put(g, s, b)
  OBVIOUS
<1>5. IsSymbols(r.symbols)
  BY DEF IsRegistry
<1>6. DOMAIN g = DOMAIN r.symbols \cup {z} /\ g[z] = a /\ \A u \in DOMAIN r.symbols \ {z} : g[u] = r.symbols[u]
  BY <1>3 DEF Types!Put
<1>7. /\ DOMAIN f = DOMAIN g \cup {s} /\ f[s] = b /\ \A u \in DOMAIN g \ {s} : f[u] = g[u]
      /\ f = [u \in DOMAIN f |-> f[u]]
  BY <1>4 DEF Types!Put
<1>8. IsSymbols(f)
  BY <1>2, <1>5, <1>6, <1>7 DEF IsSymbols
<1>9. Types!WithSymbol(r, s, d) = [r EXCEPT !.symbols = f]
  BY <1>1, <1>3, <1>4 DEF Types!WithSymbol
<1>10. SameTables(r, [r EXCEPT !.symbols = f])
  BY <1>8 DEF SameTables, IsRegistry
<1>11. [r EXCEPT !.symbols = f].symbols = f /\ [r EXCEPT !.symbols = f].errors = r.errors
  BY DEF IsRegistry
<1>. QED BY <1>1, <1>2, <1>6, <1>7, <1>9, <1>10, <1>11

Find(r, n) == Types!find_unit_type_symbol(r, n)
Both(table) == table.interface \cup table.implementation

\* What is in the tables besides types.
SameTypes(a, b) == b.types = a.types /\ b.symbols = a.symbols

\* The implementation declares nothing while the interface is read.
InOrder(r, sec) ==
  /\ sec \in {"interface", "implementation"}
  /\ sec = "interface" => r.storage.implementation = {} /\ r.routines.implementation = {}

Taken(r) == Both(r.storage) \cup Both(r.routines) \cup Both(r.labels)

LEMMA LabelRegistered ==
  ASSUME NEW r, IsRegistry(r), NEW sec, InOrder(r, sec), NEW label
  PROVE  LET q == Types!index_enum_info(r, sec, label)
         IN  /\ IsRegistry(q) /\ SameTypes(r, q) /\ q.storage = r.storage /\ q.routines = r.routines
             /\ Both(q.labels) = Both(r.labels) \cup ({label} \ {NoName})
             /\ Reported(q) = Reported(r) \cup (({label} \ {NoName}) \cap Taken(r))
<1>. DEFINE q == Types!index_enum_info(r, sec, label)
<1>1. CASE label = NoName
  <2>1. q = r
    BY <1>1 DEF Types!index_enum_info
  <2>. QED BY <1>1, <2>1 DEF SameTypes
<1>2. CASE label # NoName
  <2>1. (Types!unit_value_name_is_taken(r, sec, label) \/ label \in Types!Both(r.labels)) <=> label \in Taken(r)
    BY DEF InOrder, Types!unit_value_name_is_taken, Types!Both, Both, Taken
  <2>2. PICK c : c = IF label \in Taken(r) THEN Types!Duplicate(r, label) ELSE r
    OBVIOUS
  <2>3. /\ SameTables(r, c) /\ c.symbols = r.symbols
        /\ Reported(c) = Reported(r) \cup ({label} \cap Taken(r))
    <3>1. CASE label \in Taken(r)
      BY <2>2, <3>1, ReportedOneMore
    <3>2. CASE label \notin Taken(r)
      BY <2>2, <3>2 DEF SameTables
    <3>. QED BY <3>1, <3>2
  <2>4. q = [c EXCEPT !.labels[sec] = @ \cup {label}]
    BY <1>2, <2>1, <2>2 DEF Types!index_enum_info
  <2>. HIDE DEF q
  <2>5. PICK L : L = [c.labels EXCEPT ![sec] = @ \cup {label}]
    OBVIOUS
  <2>6. OfSections(L) /\ Both(L) = Both(c.labels) \cup {label}
    <3>1. OfSections(c.labels)
      BY <2>3 DEF SameTables, IsRegistry
    <3>. QED BY <2>5, <3>1 DEF OfSections, InOrder, Both
  <2>7. q = [c EXCEPT !.labels = L]
    BY <2>4, <2>5
  <2>8. IsRegistry(c)
    BY <2>3 DEF SameTables
  <2>9. /\ IsRegistry(q) /\ SameTypes(c, q) /\ q.storage = c.storage /\ q.routines = c.routines
        /\ q.labels = L /\ q.errors = c.errors
    BY <2>6, <2>7, <2>8 DEF IsRegistry, SameTypes
  <2>10. SameTypes(r, q) /\ q.storage = r.storage /\ q.routines = r.routines
    BY <2>3, <2>9 DEF SameTables, SameTypes
  <2>11. Both(q.labels) = Both(r.labels) \cup ({label} \ {NoName})
    BY <1>2, <2>3, <2>6, <2>9 DEF SameTables
  <2>12. Reported(q) = Reported(r) \cup (({label} \ {NoName}) \cap Taken(r))
    <3>1. Reported(q) = Reported(c)
      BY <2>9 DEF Reported
    <3>. QED BY <1>2, <2>3, <3>1
  <2>. QED BY <2>9, <2>10, <2>11, <2>12 DEF q
<1>. QED BY <1>1, <1>2

-----------------------------------------------------------------------------
(* What the declarations at the sites V of a text declare.                 *)

DeclAt(t, x) == IF Len(x) = 2 THEN t[x[1]].list[x[2]] ELSE t[x[1]].list[1].locals[x[3]][x[4]]

IsType(d) == d.form \in Types!TypeForms
IsStorage(d) == d.form \in {"var", "const"}
IsDeclared(d) ==
  /\ d.name # NoName
  /\ IsType(d) \/ IsStorage(d) \/ d.form = "proc"
  /\ d.form \in {"proc", "forward", "class"} => d.label = NoName

TypesNamed(t, V, n) == {x \in V : IsType(DeclAt(t, x)) /\ DeclAt(t, x).name = n}
StorageNames(t, V) == {DeclAt(t, x).name : x \in {y \in V : IsStorage(DeclAt(t, y))}}
RoutineNames(t, V) == {DeclAt(t, x).name : x \in {y \in V : DeclAt(t, y).form = "proc"}}
ValueNames(t, V) == {DeclAt(t, x).name : x \in {y \in V : ~IsType(DeclAt(t, y))}}
LabelNames(t, V) == {DeclAt(t, x).label : x \in V} \ {NoName}

LEMMA FormsDiffer ==
  ASSUME NEW d
  PROVE  IsType(d) => ~IsStorage(d) /\ d.form # "proc"
BY DEF IsType, IsStorage, Types!TypeForms

\* One more declaration d, at the site z.
Grown(t, V, W, z, d) ==
  /\ StorageNames(t, W) = StorageNames(t, V) \cup (IF IsStorage(d) THEN {d.name} ELSE {})
  /\ RoutineNames(t, W) = RoutineNames(t, V) \cup (IF d.form = "proc" THEN {d.name} ELSE {})
  /\ ValueNames(t, W) = ValueNames(t, V) \cup (IF IsType(d) THEN {} ELSE {d.name})
  /\ LabelNames(t, W) = LabelNames(t, V) \cup ({d.label} \ {NoName})
  /\ \A n : TypesNamed(t, W, n) = TypesNamed(t, V, n) \cup (IF IsType(d) /\ n = d.name THEN {z} ELSE {})

LEMMA OneMoreSite ==
  ASSUME NEW t, NEW V, NEW z, NEW W, W = V \cup {z}, NEW d, d = DeclAt(t, z)
  PROVE  Grown(t, V, W, z, d)
<1>1. StorageNames(t, W) = StorageNames(t, V) \cup (IF IsStorage(d) THEN {d.name} ELSE {})
  BY DEF StorageNames
<1>2. RoutineNames(t, W) = RoutineNames(t, V) \cup (IF d.form = "proc" THEN {d.name} ELSE {})
  BY DEF RoutineNames
<1>3. ValueNames(t, W) = ValueNames(t, V) \cup (IF IsType(d) THEN {} ELSE {d.name})
  BY DEF ValueNames
<1>4. LabelNames(t, W) = LabelNames(t, V) \cup ({d.label} \ {NoName})
  BY DEF LabelNames
<1>5. ASSUME NEW n
      PROVE  TypesNamed(t, W, n) = TypesNamed(t, V, n) \cup (IF IsType(d) /\ n = d.name THEN {z} ELSE {})
  BY DEF TypesNamed
<1>. QED BY <1>1, <1>2, <1>3, <1>4, <1>5 DEF Grown

\* Outside of types, a name is a variable or a constant, or a routine.
LEMMA ValuesAre ==
  ASSUME NEW t, NEW V, \A x \in V : IsDeclared(DeclAt(t, x))
  PROVE  ValueNames(t, V) = StorageNames(t, V) \cup RoutineNames(t, V)
BY FormsDiffer DEF ValueNames, StorageNames, RoutineNames, IsDeclared

\* The name n of d is refused beside the declarations at V.
Clashing(t, V, d, unit, n) ==
  /\ n # NoName
  /\ \/ /\ IsType(d) /\ n = d.name
        /\ \E x \in TypesNamed(t, V, n) : ~(DeclAt(t, x).form = "forward" /\ d.form = "class")
     \/ unit /\ IsStorage(d) /\ n = d.name /\ n \in StorageNames(t, V)
     \/ n = d.label /\ n \in LabelNames(t, V)
     \/ ~IsType(d) /\ n = d.name /\ n \in LabelNames(t, V)
     \/ n = d.label /\ n \in ValueNames(t, V)
     \/ n = d.label /\ ~IsType(d) /\ n = d.name

-----------------------------------------------------------------------------
(* The tables of the unit, with the declarations at V.                     *)

\* A table has no other names than those; of types it has every one.
Filled(types) ==
  \A n : /\ n \in DOMAIN types.interface => types.interface[n] # Types!NoSite
         /\ n \in DOMAIN types.implementation => types.implementation[n] # Types!NoSite
TypesSound(q, t, V) ==
  /\ Filled(q.types)
  /\ \A n :
         /\ Find(q, n) # Types!NoSite <=> TypesNamed(t, V, n) # {}
         /\ Find(q, n) # Types!NoSite =>
              /\ Find(q, n) \in TypesNamed(t, V, n) /\ Find(q, n) \in DOMAIN q.symbols
              /\ q.symbols[Find(q, n)].form # "forward" =>
                   \E x \in TypesNamed(t, V, n) : DeclAt(t, x).form # "forward"
ValuesSound(q, t, V) ==
  /\ Both(q.storage) \subseteq StorageNames(t, V) /\ Both(q.routines) \subseteq RoutineNames(t, V)
  /\ Both(q.labels) \subseteq LabelNames(t, V)
Sound(q, t, sec, V) == IsRegistry(q) /\ InOrder(q, sec) /\ TypesSound(q, t, V) /\ ValuesSound(q, t, V)

\* As long as nothing is refused they have all names.
ForwardExact(q, t, V) ==
  \A n : Find(q, n) # Types!NoSite /\ q.symbols[Find(q, n)].form = "forward" =>
           \A x \in TypesNamed(t, V, n) : DeclAt(t, x).form = "forward"
ValuesExact(q, t, V) ==
  /\ StorageNames(t, V) \subseteq Both(q.storage) /\ RoutineNames(t, V) \subseteq Both(q.routines)
  /\ LabelNames(t, V) \subseteq Both(q.labels)
Exact(q, t, V) == ForwardExact(q, t, V) /\ ValuesExact(q, t, V)

\* What one more declaration does: it is refused for the names that clash.
Registered(q, s, t, sec, V, z) ==
  LET W == V \cup {z}
      d == DeclAt(t, z)
  IN /\ Sound(s, t, sec, W)
     /\ Reported(q) \subseteq Reported(s)
     /\ \A n \in Reported(s) : n \notin Reported(q) => Clashing(t, V, d, TRUE, n)
     /\ Exact(q, t, V) /\ Reported(s) = {} => Exact(s, t, W) /\ \A n : ~Clashing(t, V, d, TRUE, n)

LEMMA RoutineRegistered ==
  ASSUME NEW q, NEW t, NEW sec, NEW V, NEW z, Sound(q, t, sec, V),
         \A x \in V : IsDeclared(DeclAt(t, x)), IsDeclared(DeclAt(t, z)), DeclAt(t, z).form = "proc"
  PROVE  Registered(q, Types!register_routine(q, sec, DeclAt(t, z)), t, sec, V, z)
<1>. DEFINE s == Types!register_routine(q, sec, DeclAt(t, z))
<1>1. PICK d : d = DeclAt(t, z)
  OBVIOUS
<1>2. /\ d.name # NoName /\ d.form = "proc" /\ d.label = NoName /\ ~IsType(d) /\ ~IsStorage(d)
  BY <1>1, FormsDiffer DEF IsDeclared, IsStorage
<1>3. PICK W : W = V \cup {z}
  OBVIOUS
<1>4. /\ StorageNames(t, W) = StorageNames(t, V) /\ RoutineNames(t, W) = RoutineNames(t, V) \cup {d.name}
      /\ LabelNames(t, W) = LabelNames(t, V) /\ \A n : TypesNamed(t, W, n) = TypesNamed(t, V, n)
  <2>1. Grown(t, V, W, z, d)
    BY <1>1, <1>3, OneMoreSite
  <2>2. StorageNames(t, W) = StorageNames(t, V) /\ RoutineNames(t, W) = RoutineNames(t, V) \cup {d.name}
    BY <1>2, <2>1 DEF Grown
  <2>3. LabelNames(t, W) = LabelNames(t, V)
    BY <1>2, <2>1 DEF Grown
  <2>4. ASSUME NEW n PROVE TypesNamed(t, W, n) = TypesNamed(t, V, n)
    BY <1>2, <2>1 DEF Grown
  <2>. QED BY <2>2, <2>3, <2>4
<1>5. IsRegistry(q) /\ InOrder(q, sec) /\ TypesSound(q, t, V) /\ ValuesSound(q, t, V)
  BY DEF Sound
<1>6. d.name \in Types!Both(q.labels) <=> d.name \in Both(q.labels)
  BY DEF Types!Both, Both
<1>7. CASE d.name \in Both(q.labels)
  <2>1. s = Types!Duplicate(q, d.name)
    BY <1>1, <1>6, <1>7 DEF Types!register_routine
  <2>2. SameTables(q, s) /\ s.symbols = q.symbols /\ Reported(s) = Reported(q) \cup {d.name}
    BY <1>5, <2>1, ReportedOneMore
  <2>3. Sound(s, t, sec, W)
    <3>1. TypesSound(s, t, W)
      BY <1>3, <1>4, <1>5, <2>2 DEF TypesSound, SameTables, Find, Types!find_unit_type_symbol
    <3>2. ValuesSound(s, t, W)
      BY <1>4, <1>5, <2>2 DEF ValuesSound, SameTables
    <3>. QED BY <1>5, <2>2, <3>1, <3>2 DEF Sound, SameTables, InOrder
  <2>4. Clashing(t, V, d, TRUE, d.name)
    BY <1>2, <1>5, <1>7 DEF Clashing, ValuesSound
  <2>. QED BY <1>1, <1>3, <2>2, <2>3, <2>4 DEF Registered
<1>8. CASE d.name \notin Both(q.labels)
  <2>1. s = [q EXCEPT !.routines[sec] = @ \cup {d.name}]
    BY <1>1, <1>6, <1>8 DEF Types!register_routine
  <2>2. PICK R : R = [q.routines EXCEPT ![sec] = @ \cup {d.name}]
    OBVIOUS
  <2>3. OfSections(R) /\ Both(R) = Both(q.routines) \cup {d.name}
        /\ (sec = "interface" => R.implementation = q.routines.implementation)
    <3>1. OfSections(q.routines)
      BY <1>5 DEF IsRegistry
    <3>. QED BY <1>5, <2>2, <3>1 DEF OfSections, InOrder, Both
  <2>4. s = [q EXCEPT !.routines = R]
    BY <2>1, <2>2
  <2>. HIDE DEF s
  <2>5. /\ IsRegistry(s) /\ SameTypes(q, s) /\ s.storage = q.storage /\ s.labels = q.labels
        /\ s.routines = R /\ s.errors = q.errors
    BY <1>5, <2>3, <2>4 DEF IsRegistry, SameTypes
  <2>6. Reported(s) = Reported(q)
    BY <2>5 DEF Reported
  <2>7. Sound(s, t, sec, W)
    <3>1. TypesSound(s, t, W)
      BY <1>3, <1>4, <1>5, <2>5 DEF TypesSound, SameTypes, Find, Types!find_unit_type_symbol
    <3>2. ValuesSound(s, t, W)
      BY <1>4, <1>5, <2>3, <2>5 DEF ValuesSound
    <3>3. InOrder(s, sec)
      BY <1>5, <2>3, <2>5 DEF InOrder
    <3>. QED BY <2>5, <3>1, <3>2, <3>3 DEF Sound
  <2>8. ASSUME Exact(q, t, V) PROVE Exact(s, t, W) /\ \A n : ~Clashing(t, V, d, TRUE, n)
    <3>1. ForwardExact(s, t, W)
      BY <1>4, <2>5, <2>8 DEF Exact, ForwardExact, SameTypes, Find, Types!find_unit_type_symbol
    <3>2. ValuesExact(s, t, W)
      BY <1>4, <2>3, <2>5, <2>8 DEF Exact, ValuesExact
    <3>3. ASSUME NEW n PROVE ~Clashing(t, V, d, TRUE, n)
      BY <1>2, <1>8, <2>8 DEF Exact, ValuesExact, Clashing
    <3>. QED BY <3>1, <3>2, <3>3 DEF Exact
  <2>. QED BY <1>1, <1>3, <2>6, <2>7, <2>8 DEF Registered, s
<1>. QED BY <1>7, <1>8

LEMMA StorageRegistered ==
  ASSUME NEW q, NEW t, NEW sec, NEW V, NEW z, Sound(q, t, sec, V),
         \A x \in V : IsDeclared(DeclAt(t, x)), IsDeclared(DeclAt(t, z)), IsStorage(DeclAt(t, z))
  PROVE  Registered(q, Types!register_storage(q, sec, DeclAt(t, z)), t, sec, V, z)
<1>1. PICK d : d = DeclAt(t, z)
  OBVIOUS
<1>2. d.name # NoName /\ d.form # "proc" /\ ~IsType(d) /\ IsStorage(d)
  BY <1>1, FormsDiffer DEF IsDeclared, IsStorage
<1>3. PICK W : W = V \cup {z}
  OBVIOUS
<1>4. /\ StorageNames(t, W) = StorageNames(t, V) \cup {d.name} /\ RoutineNames(t, W) = RoutineNames(t, V)
      /\ LabelNames(t, W) = LabelNames(t, V) \cup ({d.label} \ {NoName})
      /\ \A n : TypesNamed(t, W, n) = TypesNamed(t, V, n)
  <2>1. Grown(t, V, W, z, d)
    BY <1>1, <1>3, OneMoreSite
  <2>2. StorageNames(t, W) = StorageNames(t, V) \cup {d.name}
    BY <1>2, <2>1 DEF Grown
  <2>3. RoutineNames(t, W) = RoutineNames(t, V)
    BY <1>2, <2>1 DEF Grown
  <2>4. LabelNames(t, W) = LabelNames(t, V) \cup ({d.label} \ {NoName})
    BY <2>1 DEF Grown
  <2>5. ASSUME NEW n PROVE TypesNamed(t, W, n) = TypesNamed(t, V, n)
    BY <1>2, <2>1 DEF Grown
  <2>. QED BY <2>2, <2>3, <2>4, <2>5
<1>5. IsRegistry(q) /\ InOrder(q, sec) /\ TypesSound(q, t, V) /\ ValuesSound(q, t, V)
  BY DEF Sound
<1>6. PICK Used : Used = Both(q.storage) \cup Both(q.labels)
  OBVIOUS
<1>7. PICK c : c = IF d.name \in Used THEN Types!Duplicate(q, d.name)
                   ELSE [q EXCEPT !.storage[sec] = @ \cup {d.name}]
  OBVIOUS
<1>8. Types!register_storage(q, sec, d) = Types!index_enum_info(c, sec, d.label)
  BY <1>6, <1>7 DEF Types!register_storage, Types!Both, Both
<1>9. /\ IsRegistry(c) /\ SameTypes(q, c) /\ c.routines = q.routines /\ c.labels = q.labels /\ InOrder(c, sec)
      /\ Both(c.storage) = Both(q.storage) \cup (IF d.name \in Used THEN {} ELSE {d.name})
      /\ Reported(c) = Reported(q) \cup (IF d.name \in Used THEN {d.name} ELSE {})
  <2>1. CASE d.name \in Used
    <3>1. SameTables(q, c) /\ c.symbols = q.symbols /\ Reported(c) = Reported(q) \cup {d.name}
      BY <1>5, <1>7, <2>1, ReportedOneMore
    <3>. QED BY <1>5, <2>1, <3>1 DEF SameTables, SameTypes, InOrder
  <2>2. CASE d.name \notin Used
    <3>1. PICK R : R = [q.storage EXCEPT ![sec] = @ \cup {d.name}]
      OBVIOUS
    <3>2. OfSections(R) /\ Both(R) = Both(q.storage) \cup {d.name}
          /\ (sec = "interface" => R.implementation = q.storage.implementation)
      <4>1. OfSections(q.storage)
        BY <1>5 DEF IsRegistry
      <4>. QED BY <1>5, <3>1, <4>1 DEF OfSections, InOrder, Both
    <3>3. c = [q EXCEPT !.storage = R]
      BY <1>7, <2>2, <3>1
    <3>4. /\ IsRegistry(c) /\ SameTypes(q, c) /\ c.routines = q.routines /\ c.labels = q.labels
          /\ c.storage = R /\ c.errors = q.errors
      BY <1>5, <3>2, <3>3 DEF IsRegistry, SameTypes
    <3>5. InOrder(c, sec)
      BY <1>5, <3>2, <3>4 DEF InOrder
    <3>. QED BY <2>2, <3>2, <3>4, <3>5 DEF Reported
  <2>. QED BY <2>1, <2>2
<1>10. PICK s : s = Types!index_enum_info(c, sec, d.label)
  OBVIOUS
<1>11. /\ IsRegistry(s) /\ SameTypes(c, s) /\ s.storage = c.storage /\ s.routines = c.routines
       /\ Both(s.labels) = Both(c.labels) \cup ({d.label} \ {NoName})
       /\ Reported(s) = Reported(c) \cup (({d.label} \ {NoName}) \cap Taken(c))
  BY <1>9, <1>10, LabelRegistered
<1>12. ValueNames(t, V) = StorageNames(t, V) \cup RoutineNames(t, V)
  BY ValuesAre
<1>13. Taken(c) \subseteq Both(q.storage) \cup Both(q.routines) \cup Both(q.labels) \cup {d.name}
  BY <1>9 DEF Taken
<1>14. Sound(s, t, sec, W)
  <2>1. TypesSound(s, t, W)
    BY <1>3, <1>4, <1>5, <1>9, <1>11 DEF TypesSound, SameTypes, Find, Types!find_unit_type_symbol
  <2>2. ValuesSound(s, t, W)
    BY <1>4, <1>5, <1>9, <1>11 DEF ValuesSound
  <2>3. InOrder(s, sec)
    BY <1>9, <1>11 DEF InOrder
  <2>. QED BY <1>11, <2>1, <2>2, <2>3 DEF Sound
<1>15. ASSUME NEW n \in Reported(s), n \notin Reported(q) PROVE Clashing(t, V, d, TRUE, n)
  <2>1. CASE n = d.name /\ d.name \in Used
    BY <1>2, <1>5, <1>6, <2>1 DEF Clashing, ValuesSound
  <2>2. CASE n = d.label /\ d.label # NoName /\ d.label \in Taken(c)
    BY <1>2, <1>5, <1>12, <1>13, <2>2 DEF Clashing, ValuesSound
  <2>. QED BY <1>9, <1>11, <1>15, <2>1, <2>2
<1>16. ASSUME Exact(q, t, V), Reported(s) = {} PROVE Exact(s, t, W) /\ \A n : ~Clashing(t, V, d, TRUE, n)
  <2>1. d.name \notin Used /\ (d.label # NoName => d.label \notin Taken(c))
    BY <1>9, <1>11, <1>16
  <2>2. ForwardExact(s, t, W)
    BY <1>4, <1>9, <1>11, <1>16 DEF Exact, ForwardExact, SameTypes, Find, Types!find_unit_type_symbol
  <2>3. ValuesExact(s, t, W)
    BY <1>4, <1>9, <1>11, <1>16, <2>1 DEF Exact, ValuesExact
  <2>4. ASSUME NEW n PROVE ~Clashing(t, V, d, TRUE, n)
    <3>1. Taken(c) = Both(q.storage) \cup {d.name} \cup Both(q.routines) \cup Both(q.labels)
      BY <1>9, <2>1 DEF Taken
    <3>. QED BY <1>2, <1>6, <1>12, <1>16, <2>1, <3>1 DEF Exact, ValuesExact, Clashing
  <2>. QED BY <2>2, <2>3, <2>4 DEF Exact
<1>17. Reported(q) \subseteq Reported(s)
  BY <1>9, <1>11
<1>. QED BY <1>1, <1>3, <1>8, <1>10, <1>14, <1>15, <1>16, <1>17 DEF Registered

\* What a new entry of a table of types is found as.
WithEntry(types, sec, n, z) == [types EXCEPT ![sec] = Types!Put(@, n, z)]

LEMMA TypeEntered ==
  ASSUME NEW q, IsRegistry(q), Filled(q.types), NEW sec \in {"interface", "implementation"},
         NEW n, Find(q, n) = Types!NoSite, NEW z, z # Types!NoSite,
         NEW T, T = WithEntry(q.types, sec, n, z)
  PROVE  /\ OfSections(T) /\ Filled(T)
         /\ \A c : c.types = T => \A m : Find(c, m) = IF m = n THEN z ELSE Find(q, m)
<1>0. T = [q.types EXCEPT ![sec] = Types!Put(@, n, z)]
  BY DEF WithEntry
<1>1. OfSections(q.types)
  BY DEF IsRegistry
<1>2. n \notin DOMAIN q.types.interface /\ n \notin DOMAIN q.types.implementation
  BY DEF Find, Types!find_unit_type_symbol, Filled
<1>3. CASE sec = "interface"
  <2>1. PICK f : f = Types!Put(q.types.interface, n, z)
    OBVIOUS
  <2>2. T.interface = f /\ T.implementation = q.types.implementation /\ OfSections(T)
    BY <1>0, <1>1, <1>3, <2>1 DEF OfSections
  <2>3. DOMAIN f = DOMAIN q.types.interface \cup {n} /\ f[n] = z
        /\ \A m \in DOMAIN q.types.interface : f[m] = q.types.interface[m]
    BY <1>2, <2>1 DEF Types!Put
  <2>4. Filled(T)
    BY <2>2, <2>3 DEF Filled
  <2>5. ASSUME NEW c, c.types = T, NEW m PROVE Find(c, m) = IF m = n THEN z ELSE Find(q, m)
    BY <1>2, <2>2, <2>3, <2>5 DEF Find, Types!find_unit_type_symbol
  <2>. QED BY <2>2, <2>4, <2>5
<1>4. CASE sec = "implementation"
  <2>1. PICK f : f = Types!Put(q.types.implementation, n, z)
    OBVIOUS
  <2>2. T.implementation = f /\ T.interface = q.types.interface /\ OfSections(T)
    BY <1>0, <1>1, <1>4, <2>1 DEF OfSections
  <2>3. DOMAIN f = DOMAIN q.types.implementation \cup {n} /\ f[n] = z
        /\ \A m \in DOMAIN q.types.implementation : f[m] = q.types.implementation[m]
    BY <1>2, <2>1 DEF Types!Put
  <2>4. Filled(T)
    BY <2>2, <2>3 DEF Filled
  <2>5. ASSUME NEW c, c.types = T, NEW m PROVE Find(c, m) = IF m = n THEN z ELSE Find(q, m)
    BY <1>2, <2>2, <2>3, <2>5 DEF Find, Types!find_unit_type_symbol
  <2>. QED BY <2>2, <2>4, <2>5
<1>. QED BY <1>3, <1>4

\* Sites of the unit, and no place inside of one.
UnitPlaces(V, z) ==
  /\ z # Types!NoSite /\ z \notin V
  /\ z \o <<0>> \notin V /\ z \o <<0>> # z

LEMMA TypeRegistered ==
  ASSUME NEW q, NEW t, NEW sec, NEW V, NEW z, Sound(q, t, sec, V), UnitPlaces(V, z),
         \A x \in V : IsDeclared(DeclAt(t, x)), IsDeclared(DeclAt(t, z)), IsType(DeclAt(t, z))
  PROVE  Registered(q, Types!register_type(q, sec, DeclAt(t, z), z), t, sec, V, z)
<1>1. PICK d : d = DeclAt(t, z)
  OBVIOUS
<1>2. d.name # NoName /\ d.form # "proc" /\ IsType(d) /\ ~IsStorage(d)
      /\ (d.form \in {"forward", "class"} => d.label = NoName)
  BY <1>1, FormsDiffer DEF IsDeclared
<1>3. PICK W : W = V \cup {z}
  OBVIOUS
<1>4. /\ StorageNames(t, W) = StorageNames(t, V) /\ RoutineNames(t, W) = RoutineNames(t, V)
      /\ LabelNames(t, W) = LabelNames(t, V) \cup ({d.label} \ {NoName})
      /\ \A n : TypesNamed(t, W, n) = TypesNamed(t, V, n) \cup (IF n = d.name THEN {z} ELSE {})
  <2>1. Grown(t, V, W, z, d)
    BY <1>1, <1>3, OneMoreSite
  <2>2. StorageNames(t, W) = StorageNames(t, V)
    BY <1>2, <2>1 DEF Grown
  <2>3. RoutineNames(t, W) = RoutineNames(t, V)
    BY <1>2, <2>1 DEF Grown
  <2>4. LabelNames(t, W) = LabelNames(t, V) \cup ({d.label} \ {NoName})
    BY <2>1 DEF Grown
  <2>5. ASSUME NEW n PROVE TypesNamed(t, W, n) = TypesNamed(t, V, n) \cup (IF n = d.name THEN {z} ELSE {})
    BY <1>2, <2>1 DEF Grown
  <2>. QED BY <2>2, <2>3, <2>4, <2>5
<1>5. IsRegistry(q) /\ InOrder(q, sec) /\ TypesSound(q, t, V) /\ ValuesSound(q, t, V)
  BY DEF Sound
<1>6. PICK existing : existing = Find(q, d.name)
  OBVIOUS
<1>7. PICK r : r = Types!WithSymbol(q, z, d)
  OBVIOUS
<1>8. /\ SameTables(q, r) /\ r.errors = q.errors
      /\ z \in DOMAIN r.symbols /\ r.symbols[z].form = d.form
      /\ \A u \in V : u \in DOMAIN q.symbols => u \in DOMAIN r.symbols /\ r.symbols[u] = q.symbols[u]
  <2>1. /\ SameTables(q, r) /\ r.errors = q.errors
        /\ z \in DOMAIN r.symbols /\ r.symbols[z].form = d.form
        /\ \A u \in DOMAIN q.symbols : u \notin {z, z \o <<0>>} =>
             u \in DOMAIN r.symbols /\ r.symbols[u] = q.symbols[u]
    BY <1>5, <1>7, OneMoreSymbol
  <2>2. \A u \in V : u \notin {z, z \o <<0>>}
    BY DEF UnitPlaces
  <2>. QED BY <2>1, <2>2
<1>9. \A n : Find(q, n) # Types!NoSite =>
              /\ Find(q, n) \in TypesNamed(t, V, n) /\ Find(q, n) \in DOMAIN q.symbols
              /\ Find(q, n) \in V /\ DeclAt(t, Find(q, n)).name = n
  BY <1>5 DEF TypesSound, TypesNamed
<1>10. PICK s : s = Types!register_type(q, sec, d, z)
  OBVIOUS
<1>11. CASE existing = Types!NoSite
  <2>1. PICK T : T = WithEntry(q.types, sec, d.name, z)
    OBVIOUS
  <2>2. PICK c : c = [r EXCEPT !.types = T]
    OBVIOUS
  <2>3. s = Types!index_enum_info(c, sec, d.label)
    <3>1. s = Types!index_enum_info([r EXCEPT !.types[sec] = Types!Put(@, d.name, z)], sec, d.label)
      BY <1>6, <1>7, <1>10, <1>11 DEF Types!register_type, Find
    <3>2. [r EXCEPT !.types[sec] = Types!Put(@, d.name, z)] = c
      BY <1>8, <2>1, <2>2 DEF SameTables, WithEntry
    <3>. QED BY <3>1, <3>2
  <2>4. OfSections(T) /\ Filled(T) /\ (c.types = T => \A m : Find(c, m) = IF m = d.name THEN z ELSE Find(q, m))
    <3>1. Filled(q.types) /\ sec \in {"interface", "implementation"} /\ z # Types!NoSite
      BY <1>5 DEF TypesSound, InOrder, UnitPlaces
    <3>2. Find(q, d.name) = Types!NoSite
      BY <1>6, <1>11
    <3>. QED BY <1>5, <2>1, <3>1, <3>2, TypeEntered
  <2>5. /\ IsRegistry(c) /\ c.types = T /\ c.symbols = r.symbols /\ c.storage = q.storage /\ c.routines = q.routines
        /\ c.labels = q.labels /\ c.errors = q.errors
    BY <1>8, <2>2, <2>4 DEF SameTables, IsRegistry
  <2>6. InOrder(c, sec) /\ Taken(c) = Taken(q)
    BY <1>5, <2>5 DEF InOrder, Taken
  <2>7. /\ IsRegistry(s) /\ SameTypes(c, s) /\ s.storage = c.storage /\ s.routines = c.routines
        /\ Both(s.labels) = Both(c.labels) \cup ({d.label} \ {NoName})
        /\ Reported(s) = Reported(c) \cup (({d.label} \ {NoName}) \cap Taken(c))
    BY <2>3, <2>5, <2>6, LabelRegistered
  <2>8. Reported(c) = Reported(q)
    BY <2>5 DEF Reported
  <2>9. /\ \A m : Find(s, m) = IF m = d.name THEN z ELSE Find(q, m)
        /\ Filled(s.types) /\ s.symbols = r.symbols
    BY <2>4, <2>5, <2>7 DEF SameTypes, Find, Types!find_unit_type_symbol
  <2>10. TypesNamed(t, V, d.name) = {}
    BY <1>5, <1>6, <1>11 DEF TypesSound
  <2>11. TypesSound(s, t, W)
    <3>1. ASSUME NEW n, n # d.name
          PROVE /\ Find(s, n) # Types!NoSite <=> TypesNamed(t, W, n) # {}
                /\ Find(s, n) # Types!NoSite =>
                     /\ Find(s, n) \in TypesNamed(t, W, n) /\ Find(s, n) \in DOMAIN s.symbols
                     /\ s.symbols[Find(s, n)].form # "forward" =>
                          \E x \in TypesNamed(t, W, n) : DeclAt(t, x).form # "forward"
      <4>1. TypesNamed(t, W, n) = TypesNamed(t, V, n) /\ Find(s, n) = Find(q, n)
        BY <1>4, <2>9, <3>1
      <4>. QED BY <1>3, <1>5, <1>8, <1>9, <2>9, <4>1 DEF TypesSound
    <3>2. z \in TypesNamed(t, W, d.name) /\ Find(s, d.name) = z /\ z \in W /\ z # Types!NoSite
      BY <1>3, <1>4, <2>9 DEF UnitPlaces
    <3>3. s.symbols[z].form # "forward" => DeclAt(t, z).form # "forward"
      BY <1>1, <1>8, <2>9
    <3>4. z \in DOMAIN s.symbols
      BY <1>8, <2>9
    <3>5. /\ Find(s, d.name) # Types!NoSite <=> TypesNamed(t, W, d.name) # {}
          /\ Find(s, d.name) # Types!NoSite =>
                     /\ Find(s, d.name) \in TypesNamed(t, W, d.name) /\ Find(s, d.name) \in DOMAIN s.symbols
                     /\ s.symbols[Find(s, d.name)].form # "forward" =>
                          \E x \in TypesNamed(t, W, d.name) : DeclAt(t, x).form # "forward"
      BY <3>2, <3>3, <3>4
    <3>. QED BY <2>9, <3>1, <3>5 DEF TypesSound
  <2>12. ValuesSound(s, t, W)
    BY <1>4, <1>5, <2>5, <2>7 DEF ValuesSound
  <2>13. InOrder(s, sec)
    BY <2>6, <2>7 DEF InOrder
  <2>14. Sound(s, t, sec, W)
    BY <2>7, <2>11, <2>12, <2>13 DEF Sound
  <2>15. ValueNames(t, V) = StorageNames(t, V) \cup RoutineNames(t, V)
    BY ValuesAre
  <2>16. ASSUME NEW n \in Reported(s), n \notin Reported(q) PROVE Clashing(t, V, d, TRUE, n)
    <3>1. n = d.label /\ n # NoName /\ n \in Taken(q)
      BY <2>6, <2>7, <2>8, <2>16
    <3>. QED BY <1>5, <2>15, <3>1 DEF Clashing, ValuesSound, Taken
  <2>17. ASSUME Exact(q, t, V), Reported(s) = {} PROVE Exact(s, t, W) /\ \A n : ~Clashing(t, V, d, TRUE, n)
    <3>1. d.label # NoName => d.label \notin Taken(q)
      BY <2>6, <2>7, <2>17
    <3>2. ForwardExact(s, t, W)
      <4>1. ASSUME NEW n, Find(s, n) # Types!NoSite, s.symbols[Find(s, n)].form = "forward",
                   NEW x \in TypesNamed(t, W, n)
            PROVE  DeclAt(t, x).form = "forward"
        <5>1. CASE n = d.name
          <6>1. x = z /\ Find(s, n) = z
            BY <1>4, <2>9, <2>10, <4>1, <5>1
          <6>. QED BY <1>1, <1>8, <2>9, <4>1, <6>1
        <5>2. CASE n # d.name
          <6>1. x \in TypesNamed(t, V, n) /\ Find(s, n) = Find(q, n)
            BY <1>4, <2>9, <4>1, <5>2
          <6>2. q.symbols[Find(q, n)].form = "forward" /\ Find(q, n) # Types!NoSite
            BY <1>8, <1>9, <2>9, <4>1, <6>1
          <6>. QED BY <2>17, <6>1, <6>2 DEF Exact, ForwardExact
        <5>. QED BY <5>1, <5>2
      <4>. QED BY <4>1 DEF ForwardExact
    <3>3. ValuesExact(s, t, W)
      BY <1>4, <2>5, <2>7, <2>17 DEF Exact, ValuesExact
    <3>4. ASSUME NEW n PROVE ~Clashing(t, V, d, TRUE, n)
      BY <1>2, <2>10, <2>15, <2>17, <3>1 DEF Exact, ValuesExact, Clashing, Taken
    <3>. QED BY <3>2, <3>3, <3>4 DEF Exact
  <2>. QED BY <1>1, <1>3, <1>10, <2>7, <2>8, <2>14, <2>16, <2>17 DEF Registered
<1>12. CASE existing # Types!NoSite /\ d.form = "class" /\ q.symbols[existing].form = "forward"
  <2>1. s = [q EXCEPT !.symbols[existing].form = "class"]
    BY <1>6, <1>10, <1>12 DEF Types!register_type, Find
  <2>2. existing \in V /\ existing \in DOMAIN q.symbols
    BY <1>6, <1>9, <1>12
  <2>3. PICK f : f = [q.symbols EXCEPT ![existing].form = "class"]
    OBVIOUS
  <2>4. /\ IsSymbols(f) /\ DOMAIN f = DOMAIN q.symbols /\ f[existing].form = "class"
        /\ \A u \in DOMAIN f : u # existing => f[u] = q.symbols[u]
    <3>1. IsSymbols(q.symbols)
      BY <1>5 DEF IsRegistry
    <3>2. DOMAIN f = DOMAIN q.symbols /\ f = [u \in DOMAIN f |-> f[u]]
      BY <2>3
    <3>3. \A u \in DOMAIN f : f[u] = IF u = existing THEN [q.symbols[u] EXCEPT !.form = "class"] ELSE q.symbols[u]
      BY <2>3, <3>2
    <3>4. IsSymbol(f[existing]) /\ f[existing].form = "class"
      <4>1. IsSymbol(q.symbols[existing])
        BY <2>2, <3>1 DEF IsSymbols
      <4>. QED BY <2>2, <3>2, <3>3, <4>1 DEF IsSymbol
    <3>. QED BY <3>1, <3>2, <3>3, <3>4 DEF IsSymbols
  <2>5. s = [q EXCEPT !.symbols = f]
    BY <2>1, <2>3
  <2>6. /\ IsRegistry(s) /\ s.symbols = f /\ s.types = q.types /\ s.storage = q.storage
        /\ s.routines = q.routines /\ s.labels = q.labels /\ s.errors = q.errors
    BY <1>5, <2>4, <2>5 DEF IsRegistry
  <2>7. \A n : Find(s, n) = Find(q, n)
    BY <2>6 DEF Find, Types!find_unit_type_symbol
  <2>8. z \in TypesNamed(t, W, d.name) /\ DeclAt(t, z).form # "forward"
    BY <1>1, <1>4, <1>12
  <2>9. TypesSound(s, t, W)
    <3>1. ASSUME NEW n
          PROVE /\ Find(s, n) # Types!NoSite <=> TypesNamed(t, W, n) # {}
                /\ Find(s, n) # Types!NoSite =>
                     /\ Find(s, n) \in TypesNamed(t, W, n) /\ Find(s, n) \in DOMAIN s.symbols
                     /\ s.symbols[Find(s, n)].form # "forward" =>
                          \E x \in TypesNamed(t, W, n) : DeclAt(t, x).form # "forward"
      <4>1. CASE n = d.name
        <5>1. Find(s, n) = existing /\ TypesNamed(t, W, n) # {}
          BY <1>6, <2>7, <2>8, <4>1
        <5>2. existing \in TypesNamed(t, W, d.name)
          BY <1>4, <1>6, <1>9, <1>12
        <5>. QED BY <1>12, <2>2, <2>4, <2>6, <2>8, <4>1, <5>1, <5>2
      <4>2. CASE n # d.name
        <5>1. TypesNamed(t, W, n) = TypesNamed(t, V, n) /\ Find(s, n) = Find(q, n)
          BY <1>4, <2>7, <4>2
        <5>2. Find(q, n) # existing
          BY <1>6, <1>9, <1>12, <4>2
        <5>3. Find(q, n) # Types!NoSite => /\ Find(q, n) \in DOMAIN s.symbols
                                           /\ s.symbols[Find(q, n)] = q.symbols[Find(q, n)]
          BY <1>9, <2>4, <2>6, <5>2
        <5>4. /\ Find(q, n) # Types!NoSite <=> TypesNamed(t, V, n) # {}
              /\ Find(q, n) # Types!NoSite =>
                   /\ Find(q, n) \in TypesNamed(t, V, n) /\ Find(q, n) \in DOMAIN q.symbols
                   /\ q.symbols[Find(q, n)].form # "forward" =>
                        \E x \in TypesNamed(t, V, n) : DeclAt(t, x).form # "forward"
          BY <1>5 DEF TypesSound
        <5>. QED BY <5>1, <5>3, <5>4
      <4>. QED BY <4>1, <4>2
    <3>. QED BY <1>5, <2>6, <3>1 DEF TypesSound
  <2>10. d.label = NoName
    BY <1>2, <1>12
  <2>11. LabelNames(t, W) = LabelNames(t, V)
    BY <1>4, <2>10
  <2>12. ValuesSound(s, t, W)
    BY <1>4, <1>5, <2>6, <2>11 DEF ValuesSound
  <2>13. Sound(s, t, sec, W)
    BY <1>5, <2>6, <2>9, <2>12 DEF Sound, InOrder
  <2>14. Reported(s) = Reported(q)
    BY <2>6 DEF Reported
  <2>15. ASSUME Exact(q, t, V) PROVE Exact(s, t, W) /\ \A n : ~Clashing(t, V, d, TRUE, n)
    <3>1. ForwardExact(s, t, W)
      <4>1. ASSUME NEW n, Find(s, n) # Types!NoSite, s.symbols[Find(s, n)].form = "forward",
                   NEW x \in TypesNamed(t, W, n)
            PROVE  DeclAt(t, x).form = "forward"
        <5>1. n # d.name
          BY <1>6, <2>4, <2>6, <2>7, <4>1
        <5>2. x \in TypesNamed(t, V, n) /\ Find(s, n) = Find(q, n) /\ Find(q, n) # existing
          BY <1>4, <1>6, <1>9, <1>12, <2>7, <4>1, <5>1
        <5>3. q.symbols[Find(q, n)].form = "forward"
          BY <1>9, <2>4, <2>6, <4>1, <5>2
        <5>. QED BY <2>15, <4>1, <5>2, <5>3 DEF Exact, ForwardExact
      <4>. QED BY <4>1 DEF ForwardExact
    <3>2. ValuesExact(s, t, W)
      BY <1>4, <2>6, <2>11, <2>15 DEF Exact, ValuesExact
    <3>3. \A x \in TypesNamed(t, V, d.name) : DeclAt(t, x).form = "forward"
      BY <1>6, <1>12, <2>15 DEF Exact, ForwardExact
    <3>4. ASSUME NEW n PROVE ~Clashing(t, V, d, TRUE, n)
      BY <1>2, <1>12, <2>10, <3>3 DEF Clashing
    <3>. QED BY <3>1, <3>2, <3>4 DEF Exact
  <2>. QED BY <1>1, <1>3, <1>10, <2>13, <2>14, <2>15 DEF Registered
<1>13. CASE existing # Types!NoSite /\ ~(d.form = "class" /\ q.symbols[existing].form = "forward")
  <2>1. s = Types!Duplicate(r, d.name)
    BY <1>6, <1>7, <1>10, <1>13 DEF Types!register_type, Find
  <2>2. IsRegistry(r) /\ Reported(r) = Reported(q)
    BY <1>8 DEF SameTables, Reported
  <2>3. SameTables(r, s) /\ s.symbols = r.symbols /\ Reported(s) = Reported(q) \cup {d.name}
    BY <2>1, <2>2, ReportedOneMore
  <2>4. /\ IsRegistry(s) /\ s.types = q.types /\ s.storage = q.storage
        /\ s.routines = q.routines /\ s.labels = q.labels
    BY <1>8, <2>3 DEF SameTables
  <2>5. \A n : Find(s, n) = Find(q, n)
    BY <2>4 DEF Find, Types!find_unit_type_symbol
  <2>6. \A n : Find(q, n) # Types!NoSite => Find(q, n) \in DOMAIN s.symbols
                                              /\ s.symbols[Find(q, n)] = q.symbols[Find(q, n)]
    BY <1>8, <1>9, <2>3
  <2>7. \A n : TypesNamed(t, V, n) # {} <=> TypesNamed(t, W, n) # {}
    <3>1. TypesNamed(t, V, d.name) # {}
      BY <1>6, <1>9, <1>13
    <3>. QED BY <1>4, <3>1
  <2>8. \A n : TypesNamed(t, V, n) \subseteq TypesNamed(t, W, n)
    BY <1>4
  <2>9. TypesSound(s, t, W)
    BY <1>5, <2>4, <2>5, <2>6, <2>7, <2>8 DEF TypesSound
  <2>10. ValuesSound(s, t, W)
    BY <1>4, <1>5, <2>4 DEF ValuesSound
  <2>11. Sound(s, t, sec, W)
    BY <1>5, <2>4, <2>9, <2>10 DEF Sound, InOrder
  <2>12. Clashing(t, V, d, TRUE, d.name)
    <3>1. \E x \in TypesNamed(t, V, d.name) : ~(DeclAt(t, x).form = "forward" /\ d.form = "class")
      BY <1>5, <1>6, <1>9, <1>13 DEF TypesSound
    <3>. QED BY <1>2, <3>1 DEF Clashing
  <2>. QED BY <1>1, <1>3, <1>10, <2>3, <2>11, <2>12 DEF Registered
<1>. QED BY <1>11, <1>12, <1>13

-----------------------------------------------------------------------------
(* Declarations that clash, and what one more of them adds.                *)

TogetherAt(t, x, y) ==
  \/ Len(x) = Len(y) /\ IF Len(x) = 2 THEN t[x[1]].section = t[y[1]].section ELSE x[1] = y[1]
  \/ Len(x) = 2 /\ Len(y) = 2

\* Types!Clash, of the declarations c and d.
Refuse(c, d, n, differ, unit, ended) ==
  LET isLabel(e) == e.label = n
      isStorage(e) == e.form \in {"var", "const"} /\ e.name = n
      isType(e) == e.form \in Types!TypeForms /\ e.name = n
      isValue(e) == isLabel(e) \/ n \in Types!Values(e)
  IN \/ differ /\ \/ isType(c) /\ isType(d) /\ ~(c.form = "forward" /\ d.form = "class")
                  \/ unit /\ isStorage(c) /\ isStorage(d)
                  \/ isLabel(c) /\ isLabel(d)
     \/ isLabel(c) /\ n \in Types!Values(d)
     \/ n \in Types!Values(c) /\ isLabel(d)
     \/ ended /\ unit /\ ((isType(c) /\ isValue(d)) \/ (isValue(c) /\ isType(d)))

RefusedPair(t, ended, x, y, n) ==
  /\ TogetherAt(t, x, y) /\ ~Types!Before(y, x)
  /\ n \in {DeclAt(t, x).name, DeclAt(t, x).label} \ {NoName}
  /\ Refuse(DeclAt(t, x), DeclAt(t, y), n, x # y, Len(x) = 2, ended)

Refused(t, ended, S, n) == \E x \in S, y \in S : RefusedPair(t, ended, x, y, n)

\* The sites in the scope of z.
Mates(S, z) == {x \in S : Len(x) = Len(z) /\ (Len(z) = 2 \/ x[1] = z[1])}

LEMMA TogetherAre ==
  ASSUME NEW t, NEW x, NEW y
  PROVE  TogetherAt(t, x, y) <=> Len(x) = Len(y) /\ (Len(y) = 2 \/ x[1] = y[1])
BY DEF TogetherAt

LEMMA PairsClash ==
  ASSUME NEW t, NEW M, NEW z, NEW d, d = DeclAt(t, z), NEW unit \in BOOLEAN, NEW n, n # NoName
  PROVE  Clashing(t, M, d, unit, n) <=>
           \/ \E x \in M : Refuse(DeclAt(t, x), d, n, TRUE, unit, FALSE)
           \/ Refuse(d, d, n, FALSE, unit, FALSE)
<1>1. (\E x \in TypesNamed(t, M, n) : ~(DeclAt(t, x).form = "forward" /\ d.form = "class"))
      <=> \E x \in M : /\ IsType(DeclAt(t, x)) /\ DeclAt(t, x).name = n
                       /\ ~(DeclAt(t, x).form = "forward" /\ d.form = "class")
  BY DEF TypesNamed
<1>2. n \in StorageNames(t, M) <=> \E x \in M : IsStorage(DeclAt(t, x)) /\ DeclAt(t, x).name = n
  BY DEF StorageNames
<1>3. n \in LabelNames(t, M) <=> \E x \in M : DeclAt(t, x).label = n
  BY DEF LabelNames
<1>4. n \in ValueNames(t, M) <=> \E x \in M : ~IsType(DeclAt(t, x)) /\ DeclAt(t, x).name = n
  BY DEF ValueNames
<1>5. \A e : n \in Types!Values(e) <=> ~IsType(e) /\ e.name = n
  BY DEF Types!Values, IsType
<1>6. Clashing(t, M, d, unit, n) <=>
        \/ /\ IsType(d) /\ n = d.name
           /\ \E x \in M : /\ IsType(DeclAt(t, x)) /\ DeclAt(t, x).name = n
                           /\ ~(DeclAt(t, x).form = "forward" /\ d.form = "class")
        \/ unit /\ IsStorage(d) /\ n = d.name /\ \E x \in M : IsStorage(DeclAt(t, x)) /\ DeclAt(t, x).name = n
        \/ n = d.label /\ \E x \in M : DeclAt(t, x).label = n
        \/ ~IsType(d) /\ n = d.name /\ \E x \in M : DeclAt(t, x).label = n
        \/ n = d.label /\ \E x \in M : ~IsType(DeclAt(t, x)) /\ DeclAt(t, x).name = n
        \/ n = d.label /\ ~IsType(d) /\ n = d.name
  BY <1>1, <1>2, <1>3, <1>4 DEF Clashing
<1>7. \A c : Refuse(c, d, n, TRUE, unit, FALSE) <=>
         \/ IsType(c) /\ c.name = n /\ IsType(d) /\ d.name = n /\ ~(c.form = "forward" /\ d.form = "class")
         \/ unit /\ IsStorage(c) /\ c.name = n /\ IsStorage(d) /\ d.name = n
         \/ c.label = n /\ d.label = n
         \/ c.label = n /\ ~IsType(d) /\ d.name = n
         \/ ~IsType(c) /\ c.name = n /\ d.label = n
  BY <1>5 DEF Refuse, IsType, IsStorage
<1>8. Refuse(d, d, n, FALSE, unit, FALSE) <=> d.label = n /\ ~IsType(d) /\ d.name = n
  BY <1>5 DEF Refuse, IsType, IsStorage
<1>. QED BY <1>6, <1>7, <1>8

LEMMA RefusedGrows ==
  ASSUME NEW t, NEW S, NEW z, z \notin S, ~Types!Before(z, z),
         \A x \in Mates(S, z) : Types!Before(x, z) /\ ~Types!Before(z, x), NEW n
  PROVE  Refused(t, FALSE, S \cup {z}, n) <=>
           Refused(t, FALSE, S, n) \/ Clashing(t, Mates(S, z), DeclAt(t, z), Len(z) = 2, n)
<1>1. PICK d : d = DeclAt(t, z)
  OBVIOUS
<1>2. ASSUME NEW x \in S
      PROVE  ~RefusedPair(t, FALSE, z, x, n)
  BY <1>2, TogetherAre DEF RefusedPair, Mates
<1>3. ASSUME NEW x \in S
      PROVE  RefusedPair(t, FALSE, x, z, n) <=>
               x \in Mates(S, z) /\ n # NoName /\ Refuse(DeclAt(t, x), d, n, TRUE, Len(z) = 2, FALSE)
  <2>1. Refuse(DeclAt(t, x), d, n, TRUE, Len(z) = 2, FALSE) => n \in {DeclAt(t, x).name, DeclAt(t, x).label}
    BY DEF Refuse, Types!Values
  <2>2. TogetherAt(t, x, z) <=> x \in Mates(S, z)
    BY TogetherAre DEF Mates
  <2>3. x # z /\ (TogetherAt(t, x, z) => Len(x) = Len(z))
    BY <2>2 DEF Mates
  <2>. QED BY <1>1, <2>1, <2>2, <2>3 DEF RefusedPair
<1>4. RefusedPair(t, FALSE, z, z, n) <=> n # NoName /\ Refuse(d, d, n, FALSE, Len(z) = 2, FALSE)
  <2>1. Refuse(d, d, n, FALSE, Len(z) = 2, FALSE) => n \in {d.name, d.label}
    BY DEF Refuse, Types!Values
  <2>. QED BY <1>1, <2>1, TogetherAre DEF RefusedPair
<1>5. Clashing(t, Mates(S, z), d, Len(z) = 2, n) <=>
        /\ n # NoName
        /\ \/ \E x \in Mates(S, z) : Refuse(DeclAt(t, x), d, n, TRUE, Len(z) = 2, FALSE)
           \/ Refuse(d, d, n, FALSE, Len(z) = 2, FALSE)
  <2>1. PICK u \in BOOLEAN : u <=> Len(z) = 2
    OBVIOUS
  <2>2. CASE n = NoName
    BY <2>2 DEF Clashing
  <2>3. CASE n # NoName
    BY <1>1, <2>3, PairsClash
  <2>. QED BY <2>2, <2>3
<1>6. Mates(S, z) \subseteq S
  BY DEF Mates
<1>7. Refused(t, FALSE, S \cup {z}, n) <=>
        \/ Refused(t, FALSE, S, n)
        \/ \E x \in S : RefusedPair(t, FALSE, x, z, n)
        \/ RefusedPair(t, FALSE, z, z, n)
  BY <1>2 DEF Refused
<1>. QED BY <1>1, <1>3, <1>4, <1>5, <1>6, <1>7

-----------------------------------------------------------------------------
(* The places of declarations, in the order of the text.                   *)

LEMMA EarlierPlace ==
  ASSUME NEW a \in Nat, NEW b \in Nat, NEW i \in Nat, NEW j \in Nat, a < i \/ (a = i /\ b < j)
  PROVE  Types!Before(<<a, b>>, <<i, j>>) /\ ~Types!Before(<<i, j>>, <<a, b>>)
<1>. DEFINE x == <<a, b>>
            z == <<i, j>>
<1>1. DOMAIN x \cap DOMAIN z = {1, 2} /\ x[1] = a /\ x[2] = b /\ z[1] = i /\ z[2] = j
  OBVIOUS
<1>2. DOMAIN z \cap DOMAIN x = {1, 2}
  BY <1>1
<1>. HIDE DEF x, z
<1>3. Types!Before(x, z)
  <2>1. CASE a < i
    <3>1. \A l \in 1 .. 1 - 1 : x[l] = z[l]
      OBVIOUS
    <3>. QED BY <1>1, <2>1, <3>1 DEF Types!Before
  <2>2. CASE a = i /\ b < j
    <3>1. \A l \in 1 .. 2 - 1 : x[l] = z[l]
      BY <1>1, <2>2
    <3>. QED BY <1>1, <2>2, <3>1 DEF Types!Before
  <2>. QED BY <2>1, <2>2
<1>4. ~Types!Before(z, x)
  <2>1. SUFFICES ASSUME NEW k \in {1, 2}, z[k] < x[k], \A l \in 1 .. k - 1 : z[l] = x[l] PROVE FALSE
    BY <1>2 DEF Types!Before
  <2>2. CASE k = 1
    BY <1>1, <2>1, <2>2
  <2>3. CASE k = 2
    <3>1. 1 \in 1 .. k - 1
      BY <2>3
    <3>. QED BY <1>1, <2>1, <2>3, <3>1
  <2>. QED BY <2>2, <2>3
<1>. QED BY <1>3, <1>4 DEF x, z

LEMMA NeverBeforeItself ==
  ASSUME NEW n \in Nat, NEW z, DOMAIN z = 1 .. n, \A k \in 1 .. n : z[k] \in Nat
  PROVE  ~Types!Before(z, z)
BY DEF Types!Before

LEMMA EarlierInside ==
  ASSUME NEW i \in Nat, NEW a \in Nat, NEW b \in Nat, NEW k \in Nat, NEW l \in Nat, a < k \/ (a = k /\ b < l)
  PROVE  Types!Before(<<i, 1, a, b>>, <<i, 1, k, l>>) /\ ~Types!Before(<<i, 1, k, l>>, <<i, 1, a, b>>)
<1>. DEFINE x == <<i, 1, a, b>>
            z == <<i, 1, k, l>>
<1>1. /\ DOMAIN x \cap DOMAIN z = {1, 2, 3, 4} /\ x[1] = z[1] /\ x[2] = z[2] /\ x[3] = a /\ x[4] = b
      /\ z[3] = k /\ z[4] = l /\ z[1] = i /\ z[2] = 1
  OBVIOUS
<1>2. DOMAIN z \cap DOMAIN x = {1, 2, 3, 4}
  BY <1>1
<1>. HIDE DEF x, z
<1>3. Types!Before(x, z)
  <2>1. CASE a < k
    <3>1. \A m \in 1 .. 3 - 1 : x[m] = z[m]
      <4>1. 1 .. 3 - 1 = {1, 2}
        OBVIOUS
      <4>. QED BY <1>1, <4>1
    <3>. QED BY <1>1, <2>1, <3>1 DEF Types!Before
  <2>2. CASE a = k /\ b < l
    <3>1. \A m \in 1 .. 4 - 1 : x[m] = z[m]
      <4>1. 1 .. 4 - 1 = {1, 2, 3}
        OBVIOUS
      <4>. QED BY <1>1, <2>2, <4>1
    <3>. QED BY <1>1, <2>2, <3>1 DEF Types!Before
  <2>. QED BY <2>1, <2>2
<1>4. ~Types!Before(z, x)
  <2>1. SUFFICES ASSUME NEW m \in {1, 2, 3, 4}, z[m] < x[m], \A n \in 1 .. m - 1 : z[n] = x[n] PROVE FALSE
    BY <1>2 DEF Types!Before
  <2>2. CASE m \in {1, 2, 3}
    BY <1>1, <2>1, <2>2
  <2>3. CASE m = 4
    <3>1. 3 \in 1 .. m - 1
      BY <2>3
    <3>. QED BY <1>1, <2>1, <2>3, <3>1
  <2>. QED BY <2>1, <2>2, <2>3
<1>. QED BY <1>3, <1>4 DEF x, z

-----------------------------------------------------------------------------
(* One more declaration of the unit.                                       *)

AllDeclared(t, S) == \A x \in S : IsDeclared(DeclAt(t, x))
UnitOf(S) == {x \in S : Len(x) = 2}

\* What is reported is what is refused.
Answers(q, t, S) ==
  /\ \A n \in Reported(q) : Refused(t, FALSE, S, n)
  /\ Reported(q) = {} => \A n : ~Refused(t, FALSE, S, n)

Keeps(q, t, sec, S) ==
  /\ Sound(q, t, sec, UnitOf(S)) /\ Answers(q, t, S)
  /\ Reported(q) = {} => Exact(q, t, UnitOf(S))

LEMMA UnitStep ==
  ASSUME NEW q, NEW s, NEW t, NEW sec, NEW S, NEW z, Keeps(q, t, sec, S), Len(z) = 2,
         z \notin S, ~Types!Before(z, z), \A x \in UnitOf(S) : Types!Before(x, z) /\ ~Types!Before(z, x),
         Registered(q, s, t, sec, UnitOf(S), z)
  PROVE  Keeps(s, t, sec, S \cup {z})
<1>1. Mates(S, z) = UnitOf(S) /\ UnitOf(S \cup {z}) = UnitOf(S) \cup {z}
  BY DEF Mates, UnitOf
<1>2. PICK d : d = DeclAt(t, z)
  OBVIOUS
<1>3. ASSUME NEW n
      PROVE  Refused(t, FALSE, S \cup {z}, n) <=> Refused(t, FALSE, S, n) \/ Clashing(t, UnitOf(S), d, TRUE, n)
  <2>1. Refused(t, FALSE, S \cup {z}, n) <=>
           Refused(t, FALSE, S, n) \/ Clashing(t, Mates(S, z), DeclAt(t, z), Len(z) = 2, n)
    BY <1>1, RefusedGrows
  <2>2. (Len(z) = 2) = TRUE
    OBVIOUS
  <2>. QED BY <1>1, <1>2, <2>1, <2>2
<1>4. Answers(s, t, S \cup {z})
  <2>1. ASSUME NEW n \in Reported(s) PROVE Refused(t, FALSE, S \cup {z}, n)
    BY <1>2, <1>3, <2>1 DEF Registered, Keeps, Answers
  <2>2. ASSUME Reported(s) = {}, NEW n PROVE ~Refused(t, FALSE, S \cup {z}, n)
    <3>1. Reported(q) = {}
      BY <2>2 DEF Registered
    <3>. QED BY <1>2, <1>3, <2>2, <3>1 DEF Registered, Keeps, Answers
  <2>. QED BY <2>1, <2>2 DEF Answers
<1>5. Sound(s, t, sec, UnitOf(S \cup {z}))
  BY <1>1 DEF Registered
<1>6. Reported(s) = {} => Exact(s, t, UnitOf(S \cup {z}))
  BY <1>1 DEF Registered, Keeps
<1>. QED BY <1>4, <1>5, <1>6 DEF Keeps

\* The sites of the unit in S are in lists before the i-th.
ListsBefore(S, i) == \A x \in UnitOf(S) : \E a \in Nat, b \in Nat : x = <<a, b>> /\ a < i

LEMMA ListsAre ==
  ASSUME NEW list, Types!IsUnitList(list)
  PROVE  /\ Len(list) \in Nat \ {0} /\ DOMAIN list = 1 .. Len(list)
         /\ \A j \in 1 .. Len(list) : IsDeclared(list[j]) /\ (IsType(list[j]) <=> Types!IsTypes(list))
         /\ ~Types!IsTypes(list) => Len(list) = 1
<1>1. Types!IsList(list, Types!TypeForms, {"var", "const", "proc"})
  BY DEF Types!IsUnitList
<1>2. /\ Len(list) \in Nat \ {0} /\ DOMAIN list = 1 .. Len(list)
      /\ (\A j \in 1 .. Len(list) : list[j].form \in Types!TypeForms)
         \/ (Len(list) = 1 /\ list[1].form \in {"var", "const", "proc"})
      /\ \A j \in 1 .. Len(list) : list[j].name # NoName
      /\ \A j \in 1 .. Len(list) : list[j].form \in {"proc", "forward", "class"} => list[j].label = NoName
  BY <1>1 DEF Types!IsList
<1>3. 1 \in 1 .. Len(list)
  BY <1>2
<1>4. CASE \A j \in 1 .. Len(list) : list[j].form \in Types!TypeForms
  <2>1. Types!IsTypes(list)
    BY <1>3, <1>4 DEF Types!IsTypes
  <2>. QED BY <1>2, <1>4, <2>1 DEF IsDeclared, IsType
<1>5. CASE Len(list) = 1 /\ list[1].form \in {"var", "const", "proc"}
  <2>1. ~Types!IsTypes(list) /\ ~IsType(list[1])
    BY <1>5 DEF Types!IsTypes, Types!TypeForms, IsType
  <2>2. \A j \in 1 .. Len(list) : j = 1
    BY <1>5
  <2>3. IsStorage(list[1]) \/ list[1].form = "proc"
    BY <1>5 DEF IsStorage
  <2>. QED BY <1>2, <1>5, <2>1, <2>2, <2>3 DEF IsDeclared
<1>. QED BY <1>2, <1>4, <1>5

LEMMA OneRegistered ==
  ASSUME NEW q, NEW t, NEW sec, NEW V, NEW i, NEW j, NEW list, Sound(q, t, sec, V), UnitPlaces(V, <<i, j>>),
         Types!IsUnitList(list), j \in 1 .. Len(list), DeclAt(t, <<i, j>>) = list[j],
         \A x \in V : IsDeclared(DeclAt(t, x))
  PROVE  Registered(q, RegisterStep(q, sec, list, i, j), t, sec, V, <<i, j>>)
<1>1. IsDeclared(list[j]) /\ (IsType(list[j]) <=> Types!IsTypes(list))
  BY ListsAre
<1>2. CASE IsType(list[j])
  <2>1. RegisterStep(q, sec, list, i, j) = Types!register_type(q, sec, list[j], <<i, j>>)
    BY <1>1, <1>2, FormsDiffer DEF RegisterStep, IsStorage
  <2>. QED BY <1>1, <1>2, <2>1, TypeRegistered
<1>3. CASE IsStorage(list[j])
  <2>1. RegisterStep(q, sec, list, i, j) = Types!register_storage(q, sec, list[j])
    BY <1>1, <1>3, FormsDiffer DEF RegisterStep, IsStorage
  <2>. QED BY <1>1, <1>3, <2>1, StorageRegistered
<1>4. CASE list[j].form = "proc"
  <2>1. ~IsType(list[j]) /\ ~IsStorage(list[j])
    BY <1>4, FormsDiffer DEF IsStorage
  <2>2. RegisterStep(q, sec, list, i, j) = Types!register_routine(q, sec, list[j])
    BY <1>1, <1>4, <2>1 DEF RegisterStep, IsStorage
  <2>. QED BY <1>1, <1>4, <2>2, RoutineRegistered
<1>. QED BY <1>1, <1>2, <1>3, <1>4 DEF IsDeclared

UpTo(S, i, j) == S \cup {<<i, k>> : k \in 1 .. j}

LEMMA ListRegistered ==
  ASSUME NEW q, NEW t, NEW sec, NEW S, NEW i \in Nat, NEW list, Types!IsUnitList(list), t[i].list = list,
         Keeps(q, t, sec, S), AllDeclared(t, S), ListsBefore(S, i)
  PROVE  Keeps(Types!register_decl_list(q, sec, list, i), t, sec, UpTo(S, i, Len(list)))
<1>1. /\ Len(list) \in Nat \ {0} /\ \A j \in 1 .. Len(list) : IsDeclared(list[j])
  BY ListsAre
<1>2. PICK u : /\ u[0] = q /\ Types!register_decl_list(q, sec, list, i) = u[Len(list)]
               /\ \A j \in 1 .. Len(list) : u[j] = RegisterStep(u[j - 1], sec, list, i, j)
  BY <1>1, Registering
<1>3. \A j : DeclAt(t, <<i, j>>) = list[j] /\ Len(<<i, j>>) = 2
  BY DEF DeclAt
<1>. DEFINE Good == {j \in 0 .. Len(list) : Keeps(u[j], t, sec, UpTo(S, i, j))}
<1>4. 0 \in Good
  <2>1. UpTo(S, i, 0) = S
    BY DEF UpTo
  <2>. QED BY <1>1, <1>2, <2>1
<1>5. ASSUME NEW j \in 1 .. Len(list), j - 1 \in Good PROVE j \in Good
  <2>1. PICK p, z, P : p = u[j - 1] /\ z = <<i, j>> /\ P = UpTo(S, i, j - 1)
    OBVIOUS
  <2>2. Keeps(p, t, sec, P)
    BY <1>5, <2>1
  <2>3. UpTo(S, i, j) = P \cup {z}
    <3>1. 1 .. j = (1 .. j - 1) \cup {j}
      OBVIOUS
    <3>. QED BY <2>1, <3>1 DEF UpTo
  <2>4. \A x \in UnitOf(P) : \E a \in Nat, b \in Nat : x = <<a, b>> /\ (a < i \/ (a = i /\ b < j))
    <3>1. ASSUME NEW x \in UnitOf(P)
          PROVE  \E a \in Nat, b \in Nat : x = <<a, b>> /\ (a < i \/ (a = i /\ b < j))
      <4>1. CASE x \in S
        BY <3>1, <4>1 DEF ListsBefore, UnitOf
      <4>2. CASE x \in {<<i, k>> : k \in 1 .. j - 1}
        BY <4>2
      <4>. QED BY <2>1, <3>1, <4>1, <4>2 DEF UnitOf, UpTo
    <3>. QED BY <3>1
  <2>5. \A x \in UnitOf(P) : Types!Before(x, z) /\ ~Types!Before(z, x)
    BY <2>1, <2>4, EarlierPlace
  <2>6. ~Types!Before(z, z)
    <3>1. DOMAIN z = 1 .. 2 /\ \A k \in 1 .. 2 : z[k] \in Nat
      BY <2>1
    <3>. QED BY <3>1, NeverBeforeItself
  <2>7. Len(z) = 2 /\ z \notin P
    <3>1. Len(z) = 2
      BY <2>1
    <3>. QED BY <2>5, <2>6, <3>1 DEF UnitOf
  <2>8. UnitPlaces(UnitOf(P), z)
    <3>1. PICK y : y = z \o <<0>>
      OBVIOUS
    <3>2. Len(y) = 3 /\ z # <<>>
      BY <2>1, <3>1
    <3>3. \A x \in UnitOf(P) : Len(x) = 2
      BY DEF UnitOf
    <3>4. y \notin UnitOf(P)
      BY <3>2, <3>3
    <3>5. y # z
      <4>1. 3 # 2
        OBVIOUS
      <4>. QED BY <2>7, <3>2, <4>1
    <3>6. z \notin UnitOf(P)
      BY <2>7 DEF UnitOf
    <3>. QED BY <3>1, <3>2, <3>4, <3>5, <3>6 DEF UnitPlaces, Types!NoSite
  <2>9. \A x \in P : IsDeclared(DeclAt(t, x))
    BY <1>1, <1>3, <2>1 DEF UpTo, AllDeclared
  <2>10. Registered(p, u[j], t, sec, UnitOf(P), z)
    <3>1. Sound(p, t, sec, UnitOf(P)) /\ \A x \in UnitOf(P) : IsDeclared(DeclAt(t, x))
      BY <2>2, <2>9 DEF Keeps, UnitOf
    <3>2. u[j] = RegisterStep(p, sec, list, i, j) /\ DeclAt(t, <<i, j>>) = list[j]
      BY <1>2, <1>3, <2>1
    <3>3. Registered(p, RegisterStep(p, sec, list, i, j), t, sec, UnitOf(P), <<i, j>>)
      BY <2>1, <2>8, <3>1, <3>2, OneRegistered
    <3>. QED BY <2>1, <3>2, <3>3
  <2>11. Keeps(u[j], t, sec, P \cup {z})
    BY <2>2, <2>5, <2>6, <2>7, <2>10, UnitStep
  <2>12. Keeps(u[j], t, sec, UpTo(S, i, j))
    BY <2>3, <2>11
  <2>13. j \in 0 .. Len(list)
    BY <1>1
  <2>. QED BY <2>12, <2>13
<1>. HIDE DEF Good
<1>6. Len(list) \in Good
  <2>1. Len(list) \in 0 .. Len(list)
    BY <1>1
  <2>. QED BY <1>1, <1>4, <1>5, <2>1, AllAlong
<1>. QED BY <1>2, <1>6 DEF Good

-----------------------------------------------------------------------------
(* Declarations in a routine.                                              *)

\* What happens in a routine does not touch the tables of the unit.
UnitKept(a, b) ==
  /\ SameTables(a, b)
  /\ \A u \in DOMAIN a.symbols : Len(u) = 2 => u \in DOMAIN b.symbols /\ b.symbols[u].form = a.symbols[u].form

LEMMA QuietKeeps ==
  ASSUME NEW a, NEW b, Quiet(a, b)
  PROVE  UnitKept(a, b)
BY DEF Quiet, SameForms, UnitKept

LEMMA UnitKeptFollows ==
  ASSUME NEW a, NEW b, NEW c, UnitKept(a, b), UnitKept(b, c)
  PROVE  UnitKept(a, c)
BY DEF UnitKept, SameTables

LEMMA TablesStay ==
  ASSUME NEW q, NEW s, NEW t, NEW sec, NEW S, Keeps(q, t, sec, S), UnitKept(q, s)
  PROVE  Sound(s, t, sec, UnitOf(S)) /\ (Reported(q) = {} => Exact(s, t, UnitOf(S)))
<1>1. IsRegistry(s) /\ s.types = q.types /\ s.storage = q.storage /\ s.routines = q.routines /\ s.labels = q.labels
  BY DEF UnitKept, SameTables
<1>2. \A n : Find(s, n) = Find(q, n)
  BY <1>1 DEF Find, Types!find_unit_type_symbol
<1>3. Sound(q, t, sec, UnitOf(S)) /\ TypesSound(q, t, UnitOf(S)) /\ ValuesSound(q, t, UnitOf(S)) /\ InOrder(q, sec)
  BY DEF Keeps, Sound
<1>4. ASSUME NEW n, Find(q, n) # Types!NoSite
      PROVE  /\ Find(q, n) \in DOMAIN s.symbols
             /\ s.symbols[Find(q, n)].form = q.symbols[Find(q, n)].form
  <2>1. Find(q, n) \in DOMAIN q.symbols /\ Find(q, n) \in UnitOf(S)
    BY <1>3, <1>4 DEF TypesSound, TypesNamed
  <2>2. Len(Find(q, n)) = 2
    BY <2>1 DEF UnitOf
  <2>. QED BY <2>1, <2>2 DEF UnitKept
<1>5. Sound(s, t, sec, UnitOf(S))
  <2>1. TypesSound(s, t, UnitOf(S))
    BY <1>1, <1>2, <1>3, <1>4 DEF TypesSound
  <2>2. ValuesSound(s, t, UnitOf(S))
    BY <1>1, <1>3 DEF ValuesSound
  <2>. QED BY <1>1, <1>3, <2>1, <2>2 DEF Sound, InOrder
<1>6. Exact(q, t, UnitOf(S)) => Exact(s, t, UnitOf(S))
  <2>1. ForwardExact(q, t, UnitOf(S)) => ForwardExact(s, t, UnitOf(S))
    BY <1>2, <1>4 DEF ForwardExact
  <2>2. ValuesExact(q, t, UnitOf(S)) => ValuesExact(s, t, UnitOf(S))
    BY <1>1 DEF ValuesExact
  <2>. QED BY <2>1, <2>2 DEF Exact
<1>. QED BY <1>5, <1>6 DEF Keeps

LEMMA KeptStays ==
  ASSUME NEW q, NEW s, NEW t, NEW sec, NEW S, Keeps(q, t, sec, S), UnitKept(q, s), Reported(s) = Reported(q)
  PROVE  Keeps(s, t, sec, S)
<1>1. Sound(s, t, sec, UnitOf(S)) /\ (Reported(q) = {} => Exact(s, t, UnitOf(S)))
  BY TablesStay
<1>. QED BY <1>1 DEF Keeps, Answers

IsLocal(p) ==
  /\ p = [r |-> p.r, frames |-> p.frames, local |-> p.local]
  /\ p.local = [types |-> p.local.types, values |-> p.local.values, labels |-> p.local.labels]
  /\ IsRegistry(p.r)

LEMMA ValueNoted ==
  ASSUME NEW q, IsLocal(q), NEW n, NEW s, s = Types!note_value(q, n)
  PROVE  /\ IsLocal(s) /\ UnitKept(q.r, s.r) /\ s.local.types = q.local.types /\ s.local.labels = q.local.labels
         /\ s.local.values = q.local.values \cup {n}
         /\ Reported(s.r) = Reported(q.r) \cup ({n} \cap q.local.labels)
<1>1. PICK c : c = IF n \in q.local.labels THEN [q EXCEPT !.r = Types!Duplicate(@, n)] ELSE q
  OBVIOUS
<1>2. /\ IsLocal(c) /\ c.local = q.local /\ SameTables(q.r, c.r) /\ c.r.symbols = q.r.symbols
      /\ Reported(c.r) = Reported(q.r) \cup ({n} \cap q.local.labels)
  <2>1. CASE n \in q.local.labels
    <3>1. PICK r : r = Types!Duplicate(q.r, n)
      OBVIOUS
    <3>2. SameTables(q.r, r) /\ r.symbols = q.r.symbols /\ Reported(r) = Reported(q.r) \cup {n}
      BY <3>1, ReportedOneMore DEF IsLocal
    <3>3. c = [q EXCEPT !.r = r]
      BY <1>1, <2>1, <3>1
    <3>4. c = [r |-> r, frames |-> q.frames, local |-> q.local]
      BY <3>3 DEF IsLocal
    <3>5. c.r = r /\ c.local = q.local /\ c.frames = q.frames
      BY <3>4
    <3>. QED BY <2>1, <3>2, <3>4, <3>5 DEF IsLocal, SameTables
  <2>2. CASE n \notin q.local.labels
    BY <1>1, <2>2 DEF IsLocal, SameTables
  <2>. QED BY <2>1, <2>2
<1>3. PICK V : V = [c.local EXCEPT !.values = @ \cup {n}]
  OBVIOUS
<1>4. s = [c EXCEPT !.local = V]
  BY <1>1, <1>3 DEF Types!note_value
<1>5. /\ V = [types |-> V.types, values |-> V.values, labels |-> V.labels]
      /\ V.types = c.local.types /\ V.labels = c.local.labels /\ V.values = c.local.values \cup {n}
  BY <1>2, <1>3 DEF IsLocal
<1>6. s.r = c.r /\ s.local = V /\ s = [r |-> s.r, frames |-> s.frames, local |-> s.local]
  BY <1>2, <1>4 DEF IsLocal
<1>. QED BY <1>2, <1>5, <1>6 DEF IsLocal, UnitKept

LEMMA LabelNoted ==
  ASSUME NEW q, IsLocal(q), NEW n, NEW s, s = Types!note_label(q, n)
  PROVE  /\ IsLocal(s) /\ UnitKept(q.r, s.r) /\ s.local.types = q.local.types
         /\ s.local.labels = q.local.labels \cup ({n} \ {NoName})
         /\ s.local.values = q.local.values \cup ({n} \ {NoName})
         /\ Reported(s.r) = Reported(q.r) \cup (({n} \ {NoName}) \cap q.local.values)
<1>1. CASE n = NoName
  <2>1. s = q
    BY <1>1 DEF Types!note_label
  <2>2. SameTables(q.r, q.r)
    BY DEF SameTables, IsLocal
  <2>. QED BY <1>1, <2>1, <2>2 DEF UnitKept
<1>2. CASE n # NoName
  <2>1. PICK c : c = IF n \in q.local.values THEN [q EXCEPT !.r = Types!Duplicate(@, n)] ELSE q
    OBVIOUS
  <2>2. /\ IsLocal(c) /\ c.local = q.local /\ SameTables(q.r, c.r) /\ c.r.symbols = q.r.symbols
        /\ Reported(c.r) = Reported(q.r) \cup ({n} \cap q.local.values)
    <3>1. CASE n \in q.local.values
      <4>1. PICK r : r = Types!Duplicate(q.r, n)
        OBVIOUS
      <4>2. SameTables(q.r, r) /\ r.symbols = q.r.symbols /\ Reported(r) = Reported(q.r) \cup {n}
        BY <4>1, ReportedOneMore DEF IsLocal
      <4>3. c = [q EXCEPT !.r = r]
        BY <2>1, <3>1, <4>1
      <4>4. c = [r |-> r, frames |-> q.frames, local |-> q.local]
        BY <4>3 DEF IsLocal
      <4>5. c.r = r /\ c.local = q.local /\ c.frames = q.frames
        BY <4>4
      <4>. QED BY <3>1, <4>2, <4>4, <4>5 DEF IsLocal, SameTables
    <3>2. CASE n \notin q.local.values
      BY <2>1, <3>2 DEF IsLocal, SameTables
    <3>. QED BY <3>1, <3>2
  <2>3. PICK V : V = [c.local EXCEPT !.values = @ \cup {n}, !.labels = @ \cup {n}]
    OBVIOUS
  <2>4. s = [c EXCEPT !.local = V]
    BY <1>2, <2>1, <2>3 DEF Types!note_label
  <2>5. /\ V = [types |-> V.types, values |-> V.values, labels |-> V.labels]
        /\ V.types = c.local.types /\ V.labels = c.local.labels \cup {n} /\ V.values = c.local.values \cup {n}
    BY <2>2, <2>3 DEF IsLocal
  <2>6. s.r = c.r /\ s.local = V /\ s = [r |-> s.r, frames |-> s.frames, local |-> s.local]
    BY <2>2, <2>4 DEF IsLocal
  <2>7. UnitKept(q.r, s.r)
    BY <2>2, <2>6 DEF UnitKept
  <2>. QED BY <1>2, <2>2, <2>5, <2>6, <2>7 DEF IsLocal
<1>. QED BY <1>1, <1>2

\* The names of a routine, with the declarations at V.
LocalSound(p, t, V) ==
  /\ IsLocal(p)
  /\ \A n : n \in p.local.types <=> TypesNamed(t, V, n) # {}
  /\ p.local.labels \subseteq LabelNames(t, V)
  /\ p.local.values \subseteq ValueNames(t, V) \cup LabelNames(t, V)
LocalExact(p, t, V) ==
  LabelNames(t, V) \subseteq p.local.labels /\ ValueNames(t, V) \cup LabelNames(t, V) \subseteq p.local.values

\* What one more declaration of the routine does.
Noted(p, s, t, V, z) ==
  LET W == V \cup {z}
      d == DeclAt(t, z)
  IN /\ LocalSound(s, t, W) /\ UnitKept(p.r, s.r)
     /\ Reported(p.r) \subseteq Reported(s.r)
     /\ \A n \in Reported(s.r) : n \notin Reported(p.r) => Clashing(t, V, d, FALSE, n)
     /\ LocalExact(p, t, V) /\ Reported(s.r) = {} => LocalExact(s, t, W) /\ \A n : ~Clashing(t, V, d, FALSE, n)

LEMMA LocalValueNoted ==
  ASSUME NEW p, NEW t, NEW V, NEW z, LocalSound(p, t, V), IsDeclared(DeclAt(t, z)), ~IsType(DeclAt(t, z)),
         NEW s, s = Types!note_label(Types!note_value(p, DeclAt(t, z).name), DeclAt(t, z).label)
  PROVE  Noted(p, s, t, V, z)
<1>1. PICK d, W : d = DeclAt(t, z) /\ W = V \cup {z}
  OBVIOUS
<1>2. PICK c : c = Types!note_value(p, d.name)
  OBVIOUS
<1>3. /\ IsLocal(c) /\ UnitKept(p.r, c.r) /\ c.local.types = p.local.types /\ c.local.labels = p.local.labels
      /\ c.local.values = p.local.values \cup {d.name}
      /\ Reported(c.r) = Reported(p.r) \cup ({d.name} \cap p.local.labels)
  BY <1>2, ValueNoted DEF LocalSound
<1>4. /\ IsLocal(s) /\ UnitKept(c.r, s.r) /\ s.local.types = c.local.types
      /\ s.local.labels = c.local.labels \cup ({d.label} \ {NoName})
      /\ s.local.values = c.local.values \cup ({d.label} \ {NoName})
      /\ Reported(s.r) = Reported(c.r) \cup (({d.label} \ {NoName}) \cap c.local.values)
  <2>1. s = Types!note_label(c, d.label)
    BY <1>1, <1>2
  <2>. QED BY <1>3, <2>1, LabelNoted
<1>5. d.name # NoName /\ ~IsType(d)
  BY <1>1 DEF IsDeclared
<1>6. /\ ValueNames(t, W) = ValueNames(t, V) \cup {d.name}
      /\ LabelNames(t, W) = LabelNames(t, V) \cup ({d.label} \ {NoName})
      /\ \A n : TypesNamed(t, W, n) = TypesNamed(t, V, n)
  <2>1. Grown(t, V, W, z, d)
    BY <1>1, OneMoreSite
  <2>2. ValueNames(t, W) = ValueNames(t, V) \cup {d.name}
    BY <1>5, <2>1 DEF Grown
  <2>3. LabelNames(t, W) = LabelNames(t, V) \cup ({d.label} \ {NoName})
    BY <2>1 DEF Grown
  <2>4. ASSUME NEW n PROVE TypesNamed(t, W, n) = TypesNamed(t, V, n)
    BY <1>5, <2>1 DEF Grown
  <2>. QED BY <2>2, <2>3, <2>4
<1>7. LocalSound(s, t, W)
  BY <1>3, <1>4, <1>6 DEF LocalSound
<1>8. UnitKept(p.r, s.r)
  BY <1>3, <1>4, UnitKeptFollows
<1>9. ASSUME NEW n \in Reported(s.r), n \notin Reported(p.r) PROVE Clashing(t, V, d, FALSE, n)
  <2>1. CASE n = d.name /\ n \in p.local.labels
    BY <1>5, <2>1 DEF Clashing, LocalSound
  <2>2. CASE n = d.label /\ n # NoName /\ n \in p.local.values \cup {d.name}
    BY <1>5, <2>2 DEF Clashing, LocalSound
  <2>. QED BY <1>3, <1>4, <1>9, <2>1, <2>2
<1>10. ASSUME LocalExact(p, t, V), Reported(s.r) = {}
       PROVE  LocalExact(s, t, W) /\ \A n : ~Clashing(t, V, d, FALSE, n)
  <2>1. d.name \notin p.local.labels /\ (d.label # NoName => d.label \notin p.local.values \cup {d.name})
    BY <1>3, <1>4, <1>10
  <2>2. LocalExact(s, t, W)
    BY <1>3, <1>4, <1>6, <1>10 DEF LocalExact
  <2>3. ASSUME NEW n PROVE ~Clashing(t, V, d, FALSE, n)
    BY <1>5, <1>10, <2>1 DEF LocalExact, Clashing
  <2>. QED BY <2>2, <2>3
<1>. QED BY <1>1, <1>3, <1>4, <1>7, <1>8, <1>9, <1>10 DEF Noted

LEMMA LocalTypeNoted ==
  ASSUME NEW p, NEW t, NEW V, NEW z, LocalSound(p, t, V), IsDeclared(DeclAt(t, z)), IsType(DeclAt(t, z)),
         DeclAt(t, z).form # "class", Len(z) # 2, Len(z \o << 0 >>) # 2,
         NEW s, s = Types!note_type(p, DeclAt(t, z), z)
  PROVE  Noted(p, s, t, V, z)
<1>1. PICK d, W : d = DeclAt(t, z) /\ W = V \cup {z}
  OBVIOUS
<1>2. d.name # NoName /\ IsType(d) /\ d.form # "class" /\ IsLocal(p)
  BY <1>1 DEF IsDeclared, LocalSound
<1>3. /\ ValueNames(t, W) = ValueNames(t, V)
      /\ LabelNames(t, W) = LabelNames(t, V) \cup ({d.label} \ {NoName})
      /\ \A n : TypesNamed(t, W, n) = TypesNamed(t, V, n) \cup (IF n = d.name THEN {z} ELSE {})
  <2>1. Grown(t, V, W, z, d)
    BY <1>1, OneMoreSite
  <2>2. ValueNames(t, W) = ValueNames(t, V)
    BY <1>2, <2>1 DEF Grown
  <2>3. LabelNames(t, W) = LabelNames(t, V) \cup ({d.label} \ {NoName})
    BY <2>1 DEF Grown
  <2>4. ASSUME NEW n PROVE TypesNamed(t, W, n) = TypesNamed(t, V, n) \cup (IF n = d.name THEN {z} ELSE {})
    BY <1>2, <2>1 DEF Grown
  <2>. QED BY <2>2, <2>3, <2>4
<1>4. CASE d.name \in p.local.types
  <2>1. PICK r : r = Types!Duplicate(p.r, d.name)
    OBVIOUS
  <2>2. SameTables(p.r, r) /\ r.symbols = p.r.symbols /\ Reported(r) = Reported(p.r) \cup {d.name}
    BY <1>2, <2>1, ReportedOneMore DEF IsLocal
  <2>3. s = [p EXCEPT !.r = r]
    BY <1>1, <1>4, <2>1 DEF Types!note_type
  <2>4. s = [r |-> r, frames |-> p.frames, local |-> p.local]
    BY <1>2, <2>3 DEF IsLocal
  <2>5. s.r = r /\ s.local = p.local /\ s.frames = p.frames
    BY <2>4
  <2>6. IsLocal(s) /\ UnitKept(p.r, s.r)
    BY <1>2, <2>2, <2>4, <2>5 DEF IsLocal, SameTables, UnitKept
  <2>7. LocalSound(s, t, W)
    BY <1>3, <1>4, <2>5, <2>6 DEF LocalSound
  <2>8. Clashing(t, V, d, FALSE, d.name)
    BY <1>2, <1>4 DEF Clashing, LocalSound
  <2>9. Reported(s.r) = Reported(p.r) \cup {d.name}
    BY <2>2, <2>5
  <2>. QED BY <1>1, <2>6, <2>7, <2>8, <2>9 DEF Noted
<1>5. CASE d.name \notin p.local.types
  <2>1. PICK r : r = Types!WithSymbol(p.r, z, d)
    OBVIOUS
  <2>2. /\ SameTables(p.r, r) /\ r.errors = p.r.errors
        /\ \A u \in DOMAIN p.r.symbols : u \notin {z, z \o <<0>>} =>
             u \in DOMAIN r.symbols /\ r.symbols[u] = p.r.symbols[u]
    BY <1>2, <2>1, OneMoreSymbol DEF IsLocal
  <2>3. UnitKept(p.r, r)
    BY <2>2 DEF UnitKept
  <2>4. PICK L : L = [p.local EXCEPT !.types = @ \cup {d.name}]
    OBVIOUS
  <2>5. PICK c : c = [p EXCEPT !.r = r, !.local = L]
    OBVIOUS
  <2>6. s = Types!note_label(c, d.label)
    <3>1. s = Types!note_label([p EXCEPT !.r = Types!WithSymbol(@, z, d), !.local.types = @ \cup {d.name}], d.label)
      BY <1>1, <1>5 DEF Types!note_type
    <3>2. [p EXCEPT !.r = Types!WithSymbol(@, z, d), !.local.types = @ \cup {d.name}] = c
      BY <1>2, <2>1, <2>4, <2>5 DEF IsLocal
    <3>. QED BY <3>1, <3>2
  <2>7. /\ L = [types |-> L.types, values |-> L.values, labels |-> L.labels]
        /\ L.types = p.local.types \cup {d.name} /\ L.values = p.local.values /\ L.labels = p.local.labels
    BY <1>2, <2>4 DEF IsLocal
  <2>8. c = [r |-> r, frames |-> p.frames, local |-> L]
    BY <1>2, <2>5 DEF IsLocal
  <2>9. c.r = r /\ c.local = L /\ c.frames = p.frames
    BY <2>8
  <2>10. IsLocal(c)
    BY <2>2, <2>7, <2>8, <2>9 DEF IsLocal, SameTables
  <2>11. /\ IsLocal(s) /\ UnitKept(c.r, s.r) /\ s.local.types = c.local.types
         /\ s.local.labels = c.local.labels \cup ({d.label} \ {NoName})
         /\ s.local.values = c.local.values \cup ({d.label} \ {NoName})
         /\ Reported(s.r) = Reported(c.r) \cup (({d.label} \ {NoName}) \cap c.local.values)
    BY <2>6, <2>10, LabelNoted
  <2>12. Reported(c.r) = Reported(p.r)
    BY <2>2, <2>9 DEF Reported
  <2>13. LocalSound(s, t, W)
    <3>1. s.local.types = p.local.types \cup {d.name}
      BY <2>7, <2>9, <2>11
    <3>2. ASSUME NEW n PROVE n \in s.local.types <=> TypesNamed(t, W, n) # {}
      <4>1. TypesNamed(t, W, n) = TypesNamed(t, V, n) \cup (IF n = d.name THEN {z} ELSE {})
        BY <1>3
      <4>2. n \in p.local.types <=> TypesNamed(t, V, n) # {}
        BY DEF LocalSound
      <4>. QED BY <3>1, <4>1, <4>2
    <3>3. /\ s.local.labels \subseteq LabelNames(t, W)
          /\ s.local.values \subseteq ValueNames(t, W) \cup LabelNames(t, W)
      BY <1>3, <2>7, <2>9, <2>11 DEF LocalSound
    <3>. QED BY <2>11, <3>2, <3>3 DEF LocalSound
  <2>14. UnitKept(p.r, s.r)
    BY <2>3, <2>9, <2>11, UnitKeptFollows
  <2>15. ASSUME NEW n \in Reported(s.r), n \notin Reported(p.r) PROVE Clashing(t, V, d, FALSE, n)
    <3>1. n = d.label /\ n # NoName /\ n \in p.local.values
      BY <2>7, <2>9, <2>11, <2>12, <2>15
    <3>. QED BY <3>1 DEF Clashing, LocalSound
  <2>16. ASSUME LocalExact(p, t, V), Reported(s.r) = {}
         PROVE  LocalExact(s, t, W) /\ \A n : ~Clashing(t, V, d, FALSE, n)
    <3>1. d.label # NoName => d.label \notin p.local.values
      BY <2>7, <2>9, <2>11, <2>16
    <3>2. LocalExact(s, t, W)
      BY <1>3, <2>7, <2>9, <2>11, <2>16 DEF LocalExact
    <3>3. TypesNamed(t, V, d.name) = {}
      BY <1>5 DEF LocalSound
    <3>4. ASSUME NEW n PROVE ~Clashing(t, V, d, FALSE, n)
      BY <1>2, <2>16, <3>1, <3>3 DEF LocalExact, Clashing
    <3>. QED BY <3>2, <3>4
  <2>. QED BY <1>1, <2>11, <2>12, <2>13, <2>14, <2>15, <2>16 DEF Noted
<1>. QED BY <1>4, <1>5

\* The sites of S in the routine that is list i.
Inside(S, i) == {x \in S : Len(x) = 4 /\ x[1] = i}
InsideBefore(S, i, k) == \A x \in Inside(S, i) : \E a \in Nat, b \in Nat : x = <<i, 1, a, b>> /\ a < k

LocalKeeps(p, t, sec, S, i) ==
  /\ Keeps(p.r, t, sec, S) /\ LocalSound(p, t, Inside(S, i))
  /\ Reported(p.r) = {} => LocalExact(p, t, Inside(S, i))

LEMMA SiteInside ==
  ASSUME NEW i, NEW k, NEW j
  PROVE  (<<i, 1>> \o <<k>>) \o <<j>> = <<i, 1, k, j>>
<1>. DEFINE V == {i, 1, k, j}
<1>1. <<i, 1>> \in Seq(V) /\ <<k>> \in Seq(V) /\ <<j>> \in Seq(V) /\ <<i, 1, k, j>> \in Seq(V)
  OBVIOUS
<1>. HIDE DEF V
<1>2. PICK a : a = <<i, 1>> \o <<k>>
  OBVIOUS
<1>3. a \in Seq(V) /\ Len(a) = 3 /\ a[1] = i /\ a[2] = 1 /\ a[3] = k
  <2>1. a \in Seq(V) 
    BY <1>1, <1>2, ConcatProperties
  <2>. QED BY <1>1, <1>2, <2>1
<1>4. PICK b : b = a \o <<j>>
  OBVIOUS
<1>5. b \in Seq(V) /\ Len(b) = 4 /\ b[1] = i /\ b[2] = 1 /\ b[3] = k /\ b[4] = j
  <2>1. PICK e : e = <<j>>
    OBVIOUS
  <2>2. e \in Seq(V) /\ Len(e) = 1 /\ e[1] = j
    BY <1>1, <2>1
  <2>3. /\ b \in Seq(V) /\ Len(b) = Len(a) + Len(e)
        /\ \A m \in 1 .. Len(a) + Len(e) : b[m] = IF m <= Len(a) THEN a[m] ELSE e[m - Len(a)]
    BY <1>3, <1>4, <2>1, <2>2, ConcatProperties
  <2>4. \A m \in 1 .. 4 : b[m] = IF m <= 3 THEN a[m] ELSE e[m - 3]
    BY <1>3, <2>2, <2>3
  <2>5. b[1] = i /\ b[2] = 1 /\ b[3] = k
    BY <1>3, <2>4
  <2>6. b[4] = j
    BY <2>2, <2>4
  <2>. QED BY <1>3, <2>2, <2>3, <2>5, <2>6
<1>6. PICK c : c = <<i, 1, k, j>>
  OBVIOUS
<1>7. c \in Seq(V) /\ Len(c) = 4 /\ c[1] = i /\ c[2] = 1 /\ c[3] = k /\ c[4] = j
  BY <1>1, <1>6
<1>8. b = c
  BY <1>5, <1>7, SeqEqual
<1>. QED BY <1>2, <1>4, <1>6, <1>8

LEMMA PlacesOfSite ==
  ASSUME NEW i, NEW k, NEW j, NEW z, z = <<i, 1, k, j>>
  PROVE  /\ Len(z) = 4 /\ DOMAIN z = 1 .. 4 /\ z[1] = i /\ z[2] = 1 /\ z[3] = k /\ z[4] = j
         /\ Len(z \o <<0>>) = 5
OBVIOUS

LEMMA LocalQuiet ==
  ASSUME NEW p, NEW s, NEW t, NEW sec, NEW S, NEW i, LocalKeeps(p, t, sec, S, i),
         IsLocal(s), s.local = p.local, UnitKept(p.r, s.r), Reported(s.r) = Reported(p.r)
  PROVE  LocalKeeps(s, t, sec, S, i)
<1>1. Keeps(s.r, t, sec, S)
  BY KeptStays DEF LocalKeeps
<1>2. LocalSound(s, t, Inside(S, i))
  BY DEF LocalKeeps, LocalSound
<1>3. Reported(p.r) = {} => LocalExact(s, t, Inside(S, i))
  BY DEF LocalKeeps, LocalExact
<1>. QED BY <1>1, <1>2, <1>3 DEF LocalKeeps

LEMMA LocalStep ==
  ASSUME NEW p, NEW s, NEW t, NEW sec, NEW S, NEW i, NEW z, LocalKeeps(p, t, sec, S, i), Len(z) = 4, z[1] = i,
         z \notin S, ~Types!Before(z, z), \A x \in Inside(S, i) : Types!Before(x, z) /\ ~Types!Before(z, x),
         Noted(p, s, t, Inside(S, i), z)
  PROVE  LocalKeeps(s, t, sec, S \cup {z}, i)
<1>1. PICK q, r, d : q = p.r /\ r = s.r /\ d = DeclAt(t, z)
  OBVIOUS
<1>2. Mates(S, z) = Inside(S, i) /\ Inside(S \cup {z}, i) = Inside(S, i) \cup {z}
  BY DEF Mates, Inside
<1>3. UnitOf(S \cup {z}) = UnitOf(S)
  <2>1. Len(z) # 2
    OBVIOUS
  <2>. QED BY <2>1 DEF UnitOf
<1>4. ASSUME NEW n
      PROVE  Refused(t, FALSE, S \cup {z}, n) <=> Refused(t, FALSE, S, n) \/ Clashing(t, Inside(S, i), d, FALSE, n)
  <2>1. Refused(t, FALSE, S \cup {z}, n) <=>
           Refused(t, FALSE, S, n) \/ Clashing(t, Mates(S, z), DeclAt(t, z), Len(z) = 2, n)
    BY <1>2, RefusedGrows
  <2>2. (Len(z) = 2) = FALSE
    OBVIOUS
  <2>. QED BY <1>1, <1>2, <2>1, <2>2
<1>5. /\ Reported(q) \subseteq Reported(r) /\ UnitKept(q, r)
      /\ \A n \in Reported(r) : n \notin Reported(q) => Clashing(t, Inside(S, i), d, FALSE, n)
      /\ LocalExact(p, t, Inside(S, i)) /\ Reported(r) = {} =>
           LocalExact(s, t, Inside(S, i) \cup {z}) /\ \A n : ~Clashing(t, Inside(S, i), d, FALSE, n)
      /\ LocalSound(s, t, Inside(S, i) \cup {z})
  BY <1>1 DEF Noted
<1>6. Answers(r, t, S \cup {z})
  <2>1. Answers(q, t, S)
    BY <1>1 DEF LocalKeeps, Keeps
  <2>2. ASSUME NEW n \in Reported(r) PROVE Refused(t, FALSE, S \cup {z}, n)
    BY <1>4, <1>5, <2>1, <2>2 DEF Answers
  <2>3. ASSUME Reported(r) = {}, NEW n PROVE ~Refused(t, FALSE, S \cup {z}, n)
    <3>1. Reported(q) = {}
      BY <1>5, <2>3
    <3>2. LocalExact(p, t, Inside(S, i))
      BY <1>1, <3>1 DEF LocalKeeps
    <3>. QED BY <1>4, <1>5, <2>1, <2>3, <3>1, <3>2 DEF Answers
  <2>. QED BY <2>2, <2>3 DEF Answers
<1>7. Keeps(r, t, sec, S \cup {z})
  <2>1. Sound(r, t, sec, UnitOf(S)) /\ (Reported(q) = {} => Exact(r, t, UnitOf(S)))
    \* Nothing but what is reported changes here.
    <3>1. Keeps(q, t, sec, S)
      BY <1>1 DEF LocalKeeps
    <3>. QED BY <1>5, <3>1, TablesStay
  <2>2. Reported(r) = {} => Reported(q) = {}
    BY <1>5
  <2>. QED BY <1>3, <1>6, <2>1, <2>2 DEF Keeps
<1>8. Reported(r) = {} => LocalExact(s, t, Inside(S, i) \cup {z})
  BY <1>1, <1>5 DEF LocalKeeps
<1>. QED BY <1>1, <1>2, <1>5, <1>7, <1>8 DEF LocalKeeps

IsInnerList(list) == Types!IsList(list, Types!LocalForms, {"var", "const", "proc"})

LEMMA InnerListsAre ==
  ASSUME NEW list, IsInnerList(list)
  PROVE  /\ Len(list) \in Nat \ {0}
         /\ \A j \in 1 .. Len(list) : /\ IsDeclared(list[j]) /\ list[j].form # "class"
                                      /\ IsType(list[j]) <=> Types!IsTypes(list)
<1>1. /\ Len(list) \in Nat \ {0} /\ DOMAIN list = 1 .. Len(list)
      /\ (\A j \in 1 .. Len(list) : list[j].form \in Types!LocalForms)
         \/ (Len(list) = 1 /\ list[1].form \in {"var", "const", "proc"})
      /\ \A j \in 1 .. Len(list) : list[j].name # NoName
      /\ \A j \in 1 .. Len(list) : list[j].form \in {"proc", "forward", "class"} => list[j].label = NoName
  BY DEF IsInnerList, Types!IsList
<1>2. 1 \in 1 .. Len(list)
  BY <1>1
<1>3. CASE \A j \in 1 .. Len(list) : list[j].form \in Types!LocalForms
  <2>1. \A j \in 1 .. Len(list) : list[j].form \in Types!TypeForms /\ list[j].form # "class"
    BY <1>3 DEF Types!LocalForms
  <2>2. Types!IsTypes(list)
    BY <1>2, <2>1 DEF Types!IsTypes
  <2>. QED BY <1>1, <2>1, <2>2 DEF IsDeclared, IsType
<1>4. CASE Len(list) = 1 /\ list[1].form \in {"var", "const", "proc"}
  <2>1. ~Types!IsTypes(list) /\ ~IsType(list[1]) /\ list[1].form # "class"
    BY <1>4 DEF Types!IsTypes, Types!TypeForms, IsType
  <2>2. \A j \in 1 .. Len(list) : j = 1
    BY <1>4
  <2>3. IsStorage(list[1]) \/ list[1].form = "proc"
    BY <1>4 DEF IsStorage
  <2>. QED BY <1>1, <1>4, <2>1, <2>2, <2>3 DEF IsDeclared
<1>. QED BY <1>1, <1>3, <1>4

UpToInside(S, i, k, j) == S \cup {<<i, 1, k, l>> : l \in 1 .. j}

LEMMA OneNoted ==
  ASSUME NEW p, NEW t, NEW V, NEW i, NEW k, NEW j, NEW list, LocalSound(p, t, V), IsInnerList(list),
         j \in 1 .. Len(list), NEW z, z = <<i, 1, k, j>>, DeclAt(t, z) = list[j],
         NEW x, x = <<i, 1>> \o <<k>>
  PROVE  Noted(p, NoteStep(p, list, x, j), t, V, z)
<1>1. PICK s : s = NoteStep(p, list, x, j)
  OBVIOUS
<1>2. x \o <<j>> = z
  BY SiteInside
<1>3. Len(z) = 4 /\ Len(z \o <<0>>) = 5
  BY PlacesOfSite
<1>4. IsDeclared(list[j]) /\ list[j].form # "class" /\ (IsType(list[j]) <=> Types!IsTypes(list))
  BY InnerListsAre
<1>5. CASE Types!IsTypes(list)
  <2>1. s = Types!note_type(p, DeclAt(t, z), z)
    BY <1>1, <1>2, <1>5 DEF NoteStep
  <2>2. Len(z) # 2 /\ Len(z \o <<0>>) # 2
    BY <1>3
  <2>3. IsDeclared(DeclAt(t, z)) /\ IsType(DeclAt(t, z)) /\ DeclAt(t, z).form # "class"
    BY <1>4, <1>5
  <2>. QED BY <1>1, <2>1, <2>2, <2>3, LocalTypeNoted
<1>6. CASE ~Types!IsTypes(list)
  <2>1. s = Types!note_label(Types!note_value(p, DeclAt(t, z).name), DeclAt(t, z).label)
    BY <1>1, <1>6 DEF NoteStep
  <2>2. IsDeclared(DeclAt(t, z)) /\ ~IsType(DeclAt(t, z))
    BY <1>4, <1>6
  <2>. QED BY <1>1, <2>1, <2>2, LocalValueNoted
<1>. QED BY <1>5, <1>6

LEMMA ListNoted ==
  ASSUME NEW p, NEW t, NEW sec, NEW S, NEW i \in Nat, NEW k \in Nat, NEW list, IsInnerList(list),
         t[i].list[1].locals[k] = list, LocalKeeps(p, t, sec, S, i), InsideBefore(S, i, k),
         NEW x, x = <<i, 1>> \o <<k>>
  PROVE  LocalKeeps(AfterNoting(p, list, x), t, sec, UpToInside(S, i, k, Len(list)), i)
<1>1. Len(list) \in Nat \ {0}
  BY InnerListsAre
<1>2. PICK u : /\ u[0] = p /\ AfterNoting(p, list, x) = u[Len(list)]
               /\ \A j \in 1 .. Len(list) : u[j] = NoteStep(u[j - 1], list, x, j)
  BY <1>1, Noting
<1>. DEFINE Good == {j \in 0 .. Len(list) : LocalKeeps(u[j], t, sec, UpToInside(S, i, k, j), i)}
<1>3. 0 \in Good
  <2>1. UpToInside(S, i, k, 0) = S
    BY DEF UpToInside
  <2>. QED BY <1>1, <1>2, <2>1
<1>4. ASSUME NEW j \in 1 .. Len(list), j - 1 \in Good PROVE j \in Good
  <2>1. PICK q, z, P : q = u[j - 1] /\ z = <<i, 1, k, j>> /\ P = UpToInside(S, i, k, j - 1)
    OBVIOUS
  <2>2. LocalKeeps(q, t, sec, P, i)
    BY <1>4, <2>1
  <2>3. UpToInside(S, i, k, j) = P \cup {z}
    <3>1. 1 .. j = (1 .. j - 1) \cup {j}
      OBVIOUS
    <3>. QED BY <2>1, <3>1 DEF UpToInside
  <2>4. \A y \in Inside(P, i) : \E a \in Nat, b \in Nat : y = <<i, 1, a, b>> /\ (a < k \/ (a = k /\ b < j))
    <3>1. ASSUME NEW y \in Inside(P, i)
          PROVE  \E a \in Nat, b \in Nat : y = <<i, 1, a, b>> /\ (a < k \/ (a = k /\ b < j))
      <4>1. CASE y \in S
        BY <3>1, <4>1 DEF InsideBefore, Inside
      <4>2. CASE y \in {<<i, 1, k, l>> : l \in 1 .. j - 1}
        BY <4>2
      <4>. QED BY <2>1, <3>1, <4>1, <4>2 DEF Inside, UpToInside
    <3>. QED BY <3>1
  <2>5. \A y \in Inside(P, i) : Types!Before(y, z) /\ ~Types!Before(z, y)
    BY <2>1, <2>4, EarlierInside
  <2>6. Len(z) = 4 /\ DOMAIN z = 1 .. 4 /\ z[1] = i /\ z[2] = 1 /\ z[3] = k /\ z[4] = j
    BY <2>1, PlacesOfSite
  <2>7. ~Types!Before(z, z)
    <3>1. 1 .. 4 = {1, 2, 3, 4}
      OBVIOUS
    <3>2. \A m \in 1 .. 4 : z[m] \in Nat
      BY <2>6, <3>1
    <3>. QED BY <2>6, <3>2, NeverBeforeItself
  <2>8. z \notin P
    BY <2>5, <2>6, <2>7 DEF Inside
  <2>9. DeclAt(t, z) = list[j]
    BY <2>6 DEF DeclAt
  <2>10. Noted(q, NoteStep(q, list, x, j), t, Inside(P, i), z)
    <3>1. LocalSound(q, t, Inside(P, i))
      BY <2>2 DEF LocalKeeps
    <3>. QED BY <2>1, <2>9, <3>1, OneNoted
  <2>11. Noted(q, u[j], t, Inside(P, i), z)
    BY <1>2, <2>1, <2>10
  <2>12. LocalKeeps(u[j], t, sec, P \cup {z}, i)
    BY <2>2, <2>5, <2>6, <2>7, <2>8, <2>11, LocalStep
  <2>13. LocalKeeps(u[j], t, sec, UpToInside(S, i, k, j), i)
    BY <2>3, <2>12
  <2>14. j \in 0 .. Len(list)
    BY <1>1
  <2>. QED BY <2>13, <2>14
<1>. HIDE DEF Good
<1>5. Len(list) \in Good
  <2>1. Len(list) \in 0 .. Len(list)
    BY <1>1
  <2>. QED BY <1>1, <1>3, <1>4, <2>1, AllAlong
<1>. QED BY <1>2, <1>5 DEF Good

\* One list of the routine.
LEMMA ListIndexed ==
  ASSUME NEW p, NEW t, NEW sec, NEW S, NEW i \in Nat, NEW k \in Nat, NEW list, IsInnerList(list),
         t[i].list[1].locals[k] = list, LocalKeeps(p, t, sec, S, i), InsideBefore(S, i, k),
         NEW x, x = <<i, 1>> \o <<k>>
  PROVE  LocalKeeps(Types!index_local_list(p, list, x), t, sec, UpToInside(S, i, k, Len(list)), i)
<1>1. PICK c, V : c = AfterNoting(p, list, x) /\ V = UpToInside(S, i, k, Len(list))
  OBVIOUS
<1>2. LocalKeeps(c, t, sec, V, i)
  BY <1>1, ListNoted
<1>3. IsLocal(c) /\ IsRegistry(c.r)
  BY <1>2 DEF LocalKeeps, LocalSound, IsLocal
<1>4. Len(list) \in Nat
  BY InnerListsAre
<1>5. \E kept, fr, sites :
        Types!index_local_list(p, list, x) =
          CASE ~Types!IsTypes(list) -> [c EXCEPT !.r = Types!resolve_path(@, list[1], x \o <<1>>, p.frames)]
            [] Types!IsTypes(list) /\ Len(kept) < Len(list) -> c
            [] OTHER -> [c EXCEPT !.frames = fr[Len(list)],
                                  !.r = Types!resolve_type_section(@, list, x, sites, fr)]
  BY <1>1, Zenon DEF Types!index_local_list, AfterNoting
<1>6. PICK kept, fr, sites :
        Types!index_local_list(p, list, x) =
          CASE ~Types!IsTypes(list) -> [c EXCEPT !.r = Types!resolve_path(@, list[1], x \o <<1>>, p.frames)]
            [] Types!IsTypes(list) /\ Len(kept) < Len(list) -> c
            [] OTHER -> [c EXCEPT !.frames = fr[Len(list)],
                                  !.r = Types!resolve_type_section(@, list, x, sites, fr)]
  BY <1>5
<1>7. CASE ~Types!IsTypes(list)
  <2>1. PICK r : r = Types!resolve_path(c.r, list[1], x \o <<1>>, p.frames)
    OBVIOUS
  <2>2. Quiet(c.r, r)
    BY <1>3, <2>1, PathIsQuiet
  <2>3. PICK s : s = [c EXCEPT !.r = r]
    OBVIOUS
  <2>4. Types!index_local_list(p, list, x) = s
    BY <1>6, <1>7, <2>1, <2>3
  <2>5. s.r = r /\ s.local = c.local /\ IsLocal(s)
    <3>1. s = [r |-> r, frames |-> c.frames, local |-> c.local]
      BY <1>3, <2>3 DEF IsLocal
    <3>. QED BY <1>3, <2>2, <3>1 DEF IsLocal, Quiet, SameTables
  <2>6. UnitKept(c.r, s.r) /\ Reported(s.r) = Reported(c.r)
    BY <2>2, <2>5, QuietKeeps DEF Quiet
  <2>. QED BY <1>1, <1>2, <2>4, <2>5, <2>6, LocalQuiet
<1>8. CASE Types!IsTypes(list) /\ Len(kept) < Len(list)
  <2>1. Types!index_local_list(p, list, x) = c
    BY <1>6, <1>8
  <2>. QED BY <1>1, <1>2, <2>1
<1>9. CASE Types!IsTypes(list) /\ ~(Len(kept) < Len(list))
  <2>1. PICK r, f : r = Types!resolve_type_section(c.r, list, x, sites, fr) /\ f = fr[Len(list)]
    OBVIOUS
  <2>2. Quiet(c.r, r)
    BY <1>3, <1>4, <2>1, SectionIsQuiet
  <2>3. PICK s : s = [c EXCEPT !.frames = f, !.r = r]
    OBVIOUS
  <2>4. Types!index_local_list(p, list, x) = s
    BY <1>6, <1>9, <2>1, <2>3
  <2>5. s.r = r /\ s.local = c.local /\ IsLocal(s)
    <3>1. s = [r |-> r, frames |-> f, local |-> c.local]
      BY <1>3, <2>3 DEF IsLocal
    <3>. QED BY <1>3, <2>2, <3>1 DEF IsLocal, Quiet, SameTables
  <2>6. UnitKept(c.r, s.r) /\ Reported(s.r) = Reported(c.r)
    BY <2>2, <2>5, QuietKeeps DEF Quiet
  <2>. QED BY <1>1, <1>2, <2>4, <2>5, <2>6, LocalQuiet
<1>. QED BY <1>7, <1>8, <1>9

\* The sites of the first k lists of the routine at list i.
InnerSites(i, lists, k) == UNION {{<<i, 1, a, l>> : l \in 1 .. Len(lists[a])} : a \in 1 .. k}

LEMMA RoutineIndexed ==
  ASSUME NEW q, NEW t, NEW sec, NEW S, NEW i \in Nat, NEW d, d = t[i].list[1], NEW fr,
         Len(d.locals) \in Nat, \A k \in 1 .. Len(d.locals) : IsInnerList(d.locals[k]),
         Keeps(q, t, sec, S), Inside(S, i) = {}
  PROVE  Keeps(Types!index_routine(q, d, <<i, 1>>, fr), t, sec, S \cup InnerSites(i, d.locals, Len(d.locals)))
<1>1. PICK x, lists, N : x = <<i, 1>> /\ lists = d.locals /\ N = Len(d.locals)
  OBVIOUS
<1>2. PICK r : r = Types!resolve_path(q, d, x, fr)
  OBVIOUS
<1>3. PICK p : p = [r |-> r, frames |-> fr, local |-> Types!NoLocals]
  OBVIOUS
<1>4. IsRegistry(q)
  BY DEF Keeps, Sound
<1>5. Keeps(r, t, sec, S) /\ IsRegistry(r)
  <2>1. Quiet(q, r)
    BY <1>2, <1>4, PathIsQuiet
  <2>2. UnitKept(q, r) /\ Reported(r) = Reported(q)
    BY <2>1, QuietKeeps DEF Quiet
  <2>. QED BY <2>2, KeptStays DEF UnitKept, SameTables
<1>6. LocalKeeps(p, t, sec, S, i)
  <2>1. p.r = r /\ p.frames = fr /\ p.local = Types!NoLocals
    BY <1>3
  <2>2. IsLocal(p)
    BY <1>3, <1>5, <2>1 DEF IsLocal, Types!NoLocals
  <2>3. p.local.types = {} /\ p.local.values = {} /\ p.local.labels = {}
    BY <2>1 DEF Types!NoLocals
  <2>4. \A n : TypesNamed(t, {}, n) = {}
    BY DEF TypesNamed
  <2>5. ValueNames(t, {}) = {} /\ LabelNames(t, {}) = {}
    BY DEF ValueNames, LabelNames
  <2>6. LocalSound(p, t, {})
    BY <2>2, <2>3, <2>4, <2>5 DEF LocalSound
  <2>7. LocalExact(p, t, {})
    BY <2>3, <2>5 DEF LocalExact
  <2>. QED BY <1>5, <2>1, <2>6, <2>7 DEF LocalKeeps
<1>7. Types!index_routine(q, d, x, fr) = AfterIndexing(p, lists, x).r
  <2>1. Types!index_routine(q, d, x, fr)
        = AfterIndexing([r |-> Types!resolve_path(q, d, x, fr), frames |-> fr, local |-> Types!NoLocals],
                        d.locals, x).r
    BY Zenon DEF Types!index_routine, AfterIndexing
  <2>. QED BY <1>1, <1>2, <1>3, <2>1
<1>8. PICK u : /\ u[0] = p /\ AfterIndexing(p, lists, x) = u[N]
               /\ \A k \in 1 .. N : u[k] = ListStep(u[k - 1], lists, x, k)
  BY <1>1, Indexing
<1>. DEFINE Good == {k \in 0 .. N : LocalKeeps(u[k], t, sec, S \cup InnerSites(i, lists, k), i)}
<1>9. 0 \in Good
  <2>1. InnerSites(i, lists, 0) = {}
    BY DEF InnerSites
  <2>2. S \cup InnerSites(i, lists, 0) = S
    BY <2>1
  <2>3. LocalKeeps(u[0], t, sec, S \cup InnerSites(i, lists, 0), i)
    BY <1>6, <1>8, <2>2
  <2>4. 0 \in 0 .. N
    BY <1>1
  <2>. QED BY <2>3, <2>4
<1>10. ASSUME NEW k \in 1 .. N, k - 1 \in Good PROVE k \in Good
  <2>1. PICK c, P, list : c = u[k - 1] /\ P = S \cup InnerSites(i, lists, k - 1) /\ list = lists[k]
    OBVIOUS
  <2>2. LocalKeeps(c, t, sec, P, i)
    BY <1>10, <2>1
  <2>3. IsInnerList(list) /\ t[i].list[1].locals[k] = list /\ k \in Nat
    BY <1>1, <2>1
  <2>4. InsideBefore(P, i, k)
    <3>1. ASSUME NEW y \in Inside(P, i)
          PROVE  \E a \in Nat, b \in Nat : y = <<i, 1, a, b>> /\ a < k
      <4>1. y \in InnerSites(i, lists, k - 1)
        BY <2>1, <3>1 DEF Inside
      <4>2. PICK a \in 1 .. k - 1 : y \in {<<i, 1, a, l>> : l \in 1 .. Len(lists[a])}
        BY <4>1 DEF InnerSites
      <4>3. PICK l \in 1 .. Len(lists[a]) : y = <<i, 1, a, l>>
        BY <4>2
      <4>4. a \in Nat /\ l \in Nat /\ a < k
        BY <1>1
      <4>. QED BY <4>3, <4>4
    <3>. QED BY <3>1 DEF InsideBefore
  <2>5. PICK y : y = <<i, 1>> \o <<k>>
    OBVIOUS
  <2>6. LocalKeeps(Types!index_local_list(c, list, y), t, sec, UpToInside(P, i, k, Len(list)), i)
    BY <2>2, <2>3, <2>4, <2>5, ListIndexed
  <2>7. u[k] = Types!index_local_list(c, list, y)
    BY <1>1, <1>8, <2>1, <2>5 DEF ListStep
  <2>8. UpToInside(P, i, k, Len(list)) = S \cup InnerSites(i, lists, k)
    <3>1. 1 .. k = (1 .. k - 1) \cup {k}
      BY <1>1
    <3>2. InnerSites(i, lists, k) = InnerSites(i, lists, k - 1) \cup {<<i, 1, k, l>> : l \in 1 .. Len(list)}
      BY <2>1, <3>1 DEF InnerSites
    <3>. QED BY <2>1, <3>2 DEF UpToInside
  <2>9. k \in 0 .. N
    BY <1>1
  <2>. QED BY <2>6, <2>7, <2>8, <2>9
<1>. HIDE DEF Good
<1>11. N \in Good
  <2>1. N \in 0 .. N
    BY <1>1
  <2>. QED BY <1>1, <1>9, <1>10, <2>1, AllAlong
<1>12. LocalKeeps(u[N], t, sec, S \cup InnerSites(i, lists, N), i)
  BY <1>11 DEF Good
<1>. QED BY <1>1, <1>7, <1>8, <1>12 DEF LocalKeeps

-----------------------------------------------------------------------------
(* The text, as lists are added to it.                                     *)

SitesOfList(i, list) ==
  {<<i, j>> : j \in 1 .. Len(list)} \cup InnerSites(i, Types!Locals(list), Len(Types!Locals(list)))
SitesUpTo(t, m) == UNION {SitesOfList(a, t[a].list) : a \in 1 .. m}
IsText(t) == IsSequence(t) /\ \A i \in 1 .. Len(t) : t[i].list \in Lists

\* A site is a pair, or lies in a routine.
LEMMA SitesAre ==
  ASSUME NEW i \in Nat, NEW list, NEW x \in SitesOfList(i, list), Types!IsUnitList(list)
  PROVE  /\ x[1] = i
         /\ \/ \E j \in 1 .. Len(list) : x = <<i, j>> /\ Len(x) = 2
            \/ /\ list[1].form = "proc"
               /\ \E a \in Nat, l \in Nat : x = <<i, 1, a, l>> /\ Len(x) = 4
<1>1. CASE x \in {<<i, j>> : j \in 1 .. Len(list)}
  BY <1>1
<1>2. CASE x \in InnerSites(i, Types!Locals(list), Len(Types!Locals(list)))
  <2>1. PICK a \in 1 .. Len(Types!Locals(list)) :
          x \in {<<i, 1, a, l>> : l \in 1 .. Len(Types!Locals(list)[a])}
    BY <1>2 DEF InnerSites
  <2>2. PICK l \in 1 .. Len(Types!Locals(list)[a]) : x = <<i, 1, a, l>>
    BY <2>1
  <2>3. list[1].form = "proc"
    <3>1. SUFFICES ASSUME list[1].form # "proc" PROVE FALSE
      OBVIOUS
    <3>2. Len(Types!Locals(list)) = 0
      BY <3>1 DEF Types!Locals
    <3>. QED BY <3>2
  <2>4. Len(Types!Locals(list)) \in Nat /\ a \in Nat
    BY <2>3 DEF Types!Locals, Types!IsUnitList
  <2>5. Types!Locals(list) = list[1].locals /\ a \in DOMAIN list[1].locals
    BY <2>3, <2>4 DEF Types!Locals, Types!IsUnitList
  <2>6. Types!IsList(list[1].locals[a], Types!LocalForms, {"var", "const", "proc"})
    BY <2>3, <2>5 DEF Types!IsUnitList
  <2>7. l \in Nat
    BY <2>5, <2>6 DEF Types!IsList
  <2>8. x[1] = i /\ Len(x) = 4
    BY <2>2, PlacesOfSite
  <2>. QED BY <2>2, <2>3, <2>4, <2>7, <2>8
<1>. QED BY <1>1, <1>2 DEF SitesOfList

LEMMA InnerLists ==
  ASSUME NEW list, Types!IsUnitList(list), list[1].form = "proc"
  PROVE  /\ Len(list[1].locals) \in Nat /\ DOMAIN list[1].locals = 1 .. Len(list[1].locals)
         /\ \A k \in 1 .. Len(list[1].locals) : IsInnerList(list[1].locals[k])
BY DEF Types!IsUnitList, IsInnerList

SameAt(t, u, S) == \A x \in S : DeclAt(u, x) = DeclAt(t, x)

LEMMA SameNames ==
  ASSUME NEW t, NEW u, NEW V, SameAt(t, u, V)
  PROVE  /\ StorageNames(u, V) = StorageNames(t, V) /\ RoutineNames(u, V) = RoutineNames(t, V)
         /\ LabelNames(u, V) = LabelNames(t, V) /\ \A n : TypesNamed(u, V, n) = TypesNamed(t, V, n)
<1>1. StorageNames(u, V) = StorageNames(t, V)
  BY DEF StorageNames, SameAt
<1>2. RoutineNames(u, V) = RoutineNames(t, V)
  BY DEF RoutineNames, SameAt
<1>3. LabelNames(u, V) = LabelNames(t, V)
  BY DEF LabelNames, SameAt
<1>4. ASSUME NEW n PROVE TypesNamed(u, V, n) = TypesNamed(t, V, n)
  BY DEF TypesNamed, SameAt
<1>. QED BY <1>1, <1>2, <1>3, <1>4

LEMMA SameRefused ==
  ASSUME NEW t, NEW u, NEW S, SameAt(t, u, S), NEW ended, NEW n
  PROVE  Refused(u, ended, S, n) <=> Refused(t, ended, S, n)
<1>1. ASSUME NEW x \in S, NEW y \in S
      PROVE  RefusedPair(u, ended, x, y, n) <=> RefusedPair(t, ended, x, y, n)
  <2>1. TogetherAt(u, x, y) <=> TogetherAt(t, x, y)
    BY TogetherAre
  <2>2. DeclAt(u, x) = DeclAt(t, x) /\ DeclAt(u, y) = DeclAt(t, y)
    BY DEF SameAt
  <2>. QED BY <2>1, <2>2 DEF RefusedPair
<1>. QED BY <1>1 DEF Refused

LEMMA SameKeeps ==
  ASSUME NEW t, NEW u, NEW S, SameAt(t, u, S), NEW q, NEW sec, Keeps(q, t, sec, S)
  PROVE  Keeps(q, u, sec, S)
<1>1. PICK V : V = UnitOf(S)
  OBVIOUS
<1>2. SameAt(t, u, V) /\ \A n : \A x \in TypesNamed(t, V, n) : DeclAt(u, x) = DeclAt(t, x)
  BY <1>1 DEF SameAt, UnitOf, TypesNamed
<1>3. /\ StorageNames(u, V) = StorageNames(t, V) /\ RoutineNames(u, V) = RoutineNames(t, V)
      /\ LabelNames(u, V) = LabelNames(t, V) /\ \A n : TypesNamed(u, V, n) = TypesNamed(t, V, n)
  BY <1>2, SameNames
<1>4. TypesSound(q, t, V) => TypesSound(q, u, V)
  BY <1>2, <1>3 DEF TypesSound
<1>5. ValuesSound(q, t, V) => ValuesSound(q, u, V)
  BY <1>3 DEF ValuesSound
<1>6. Sound(q, u, sec, V)
  BY <1>1, <1>4, <1>5 DEF Keeps, Sound
<1>7. Exact(q, t, V) => Exact(q, u, V)
  BY <1>2, <1>3 DEF Exact, ForwardExact, ValuesExact
<1>8. Answers(q, u, S)
  BY SameRefused DEF Keeps, Answers
<1>. QED BY <1>1, <1>6, <1>7, <1>8 DEF Keeps

Longer(t, sec, list) == Append(t, [section |-> sec, list |-> list])

LEMMA OneMoreList ==
  ASSUME NEW t, IsText(t), NEW sec, NEW list \in Lists, NEW i, i = Len(t) + 1, NEW u, u = Longer(t, sec, list),
         NEW S, S = SitesUpTo(t, Len(t))
  PROVE  /\ i \in Nat /\ IsText(u) /\ Len(u) = i /\ u[i].list = list
         /\ SameAt(t, u, S) /\ AllDeclared(u, S) /\ ListsBefore(S, i) /\ Inside(S, i) = {}
         /\ SitesUpTo(u, i) = S \cup SitesOfList(i, list)
<1>1. IsSequence(t) /\ \A a \in 1 .. Len(t) : t[a].list \in Lists
  BY DEF IsText
<1>2. Len(t) \in Nat /\ i \in Nat
  BY <1>1, SequenceFacts
<1>3. /\ IsSequence(u) /\ Len(u) = i /\ u[i] = [section |-> sec, list |-> list]
      /\ \A a \in 1 .. Len(t) : u[a] = t[a]
  BY <1>1, AppendFacts DEF Longer
<1>4. u[i].list = list
  BY <1>3
<1>5. IsText(u)
  <2>1. ASSUME NEW a \in 1 .. Len(u) PROVE u[a].list \in Lists
    <3>1. a = i \/ a \in 1 .. Len(t)
      BY <1>2, <1>3
    <3>. QED BY <1>1, <1>3, <1>4, <3>1
  <2>. QED BY <1>3, <2>1 DEF IsText
<1>6. ASSUME NEW x \in S
      PROVE  \E a \in 1 .. Len(t) : x \in SitesOfList(a, t[a].list) /\ x[1] = a /\ Types!IsUnitList(t[a].list)
  <2>1. PICK a \in 1 .. Len(t) : x \in SitesOfList(a, t[a].list)
    BY DEF SitesUpTo
  <2>2. Types!IsUnitList(t[a].list) /\ a \in Nat
    BY <1>1, <1>2, ListsAssumption
  <2>3. x[1] = a
    BY <2>1, <2>2, SitesAre
  <2>. QED BY <2>1, <2>2, <2>3
<1>7. SameAt(t, u, S)
  <2>1. ASSUME NEW x \in S PROVE DeclAt(u, x) = DeclAt(t, x)
    <3>1. x[1] \in 1 .. Len(t)
      BY <1>6
    <3>2. u[x[1]] = t[x[1]]
      BY <1>3, <3>1
    <3>. QED BY <3>2 DEF DeclAt
  <2>. QED BY <2>1 DEF SameAt
<1>8. AllDeclared(u, S)
  <2>1. ASSUME NEW x \in S PROVE IsDeclared(DeclAt(u, x))
    <3>1. DeclAt(u, x) = DeclAt(t, x)
      BY <1>7 DEF SameAt
    <3>2. PICK a \in 1 .. Len(t) : x \in SitesOfList(a, t[a].list) /\ Types!IsUnitList(t[a].list)
      BY <1>6
    <3>3. PICK f : f = t[a].list
      OBVIOUS
    <3>4. a \in Nat
      BY <1>2
    <3>5. CASE \E j \in 1 .. Len(f) : x = <<a, j>> /\ Len(x) = 2
      <4>1. PICK j \in 1 .. Len(f) : x = <<a, j>> /\ Len(x) = 2
        BY <3>5
      <4>2. x[1] = a /\ x[2] = j
        BY <4>1
      <4>3. DeclAt(t, x) = f[j]
        BY <3>3, <4>1, <4>2 DEF DeclAt
      <4>. QED BY <3>1, <3>2, <3>3, <4>3, ListsAre
    <3>6. CASE x \in InnerSites(a, Types!Locals(f), Len(Types!Locals(f)))
      <4>1. f[1].form = "proc"
        <5>1. Len(x) = 4
          <6>1. PICK k : \E l : x = <<a, 1, k, l>>
            BY <3>6 DEF InnerSites
          <6>2. PICK l : x = <<a, 1, k, l>>
            BY <6>1
          <6>. QED BY <6>2, PlacesOfSite
        <5>2. x \in SitesOfList(a, f) /\ Types!IsUnitList(f)
          BY <3>2, <3>3
        <5>3. \/ \E j \in 1 .. Len(f) : x = <<a, j>> /\ Len(x) = 2
              \/ f[1].form = "proc"
          BY <3>4, <5>2, SitesAre
        <5>. QED BY <5>1, <5>3
      <4>2. PICK L : L = f[1].locals
        OBVIOUS
      <4>3. Types!Locals(f) = L
        BY <4>1, <4>2 DEF Types!Locals
      <4>4. PICK k \in 1 .. Len(L) : x \in {<<a, 1, k, l>> : l \in 1 .. Len(L[k])}
        BY <3>6, <4>3 DEF InnerSites
      <4>5. PICK l \in 1 .. Len(L[k]) : x = <<a, 1, k, l>>
        BY <4>4
      <4>6. IsInnerList(L[k])
        BY <3>2, <3>3, <4>1, <4>2, InnerLists
      <4>7. Len(x) # 2 /\ x[1] = a /\ x[3] = k /\ x[4] = l
        BY <4>5, PlacesOfSite
      <4>8. DeclAt(t, x) = L[k][l]
        BY <3>3, <4>2, <4>7 DEF DeclAt
      <4>. QED BY <3>1, <4>6, <4>8, InnerListsAre
    <3>7. x \in {<<a, j>> : j \in 1 .. Len(f)} \/ x \in InnerSites(a, Types!Locals(f), Len(Types!Locals(f)))
      BY <3>2, <3>3 DEF SitesOfList
    <3>8. x \in {<<a, j>> : j \in 1 .. Len(f)} => \E j \in 1 .. Len(f) : x = <<a, j>> /\ Len(x) = 2
      OBVIOUS
    <3>. QED BY <3>5, <3>6, <3>7, <3>8
  <2>. QED BY <2>1 DEF AllDeclared
<1>9. ListsBefore(S, i)
  <2>1. ASSUME NEW x \in UnitOf(S) PROVE \E a \in Nat, b \in Nat : x = <<a, b>> /\ a < i
    <3>1. x \in S /\ Len(x) = 2
      BY DEF UnitOf
    <3>2. PICK a \in 1 .. Len(t) : x \in SitesOfList(a, t[a].list) /\ Types!IsUnitList(t[a].list)
      BY <1>6, <3>1
    <3>3. a \in Nat /\ a < i
      BY <1>2
    <3>6. PICK f : f = t[a].list
      OBVIOUS
    <3>7. x \in SitesOfList(a, f) /\ Types!IsUnitList(f)
      BY <3>2, <3>6
    <3>8. \/ \E j \in 1 .. Len(f) : x = <<a, j>> /\ Len(x) = 2
          \/ \E k \in Nat, l \in Nat : x = <<a, 1, k, l>> /\ Len(x) = 4
      BY <3>3, <3>7, SitesAre
    <3>4. PICK b \in 1 .. Len(f) : x = <<a, b>>
      BY <3>1, <3>8
    <3>5. b \in Nat
      BY <3>7, ListsAre
    <3>. QED BY <3>3, <3>4, <3>5
  <2>. QED BY <2>1 DEF ListsBefore
<1>10. Inside(S, i) = {}
  BY <1>2, <1>6 DEF Inside
<1>11. SitesUpTo(u, i) = S \cup SitesOfList(i, list)
  <2>1. 1 .. i = (1 .. Len(t)) \cup {i}
    BY <1>2
  <2>2. \A a \in 1 .. Len(t) : u[a].list = t[a].list
    BY <1>3
  <2>. QED BY <1>4, <2>1, <2>2 DEF SitesUpTo
<1>. QED BY <1>2, <1>3, <1>4, <1>5, <1>7, <1>8, <1>9, <1>10, <1>11

\* The registry after one more list.
BoundList(r, list, i, symbols, views, before) ==
  CASE Types!IsTypes(list) -> Types!resolve_type_section(r, list, <<i>>, symbols, views)
    [] list[1].form \in {"var", "const"} -> Types!resolve_path(r, list[1], <<i, 1>>, before)
    [] list[1].form = "proc" -> Types!index_routine(r, list[1], <<i, 1>>, before)

LEMMA ListBound ==
  ASSUME NEW t, IsText(t), NEW sec, NEW list \in Lists, NEW i, i = Len(t) + 1, NEW u, u = Longer(t, sec, list),
         NEW q, Keeps(q, t, sec, SitesUpTo(t, Len(t))),
         NEW r, r = Types!register_decl_list(q, sec, list, i), NEW symbols, NEW views, NEW before
  PROVE  Keeps(BoundList(r, list, i, symbols, views, before), u, sec, SitesUpTo(u, i))
<1>1. PICK S : S = SitesUpTo(t, Len(t))
  OBVIOUS
<1>2. /\ i \in Nat /\ IsText(u) /\ Len(u) = i /\ u[i].list = list
      /\ SameAt(t, u, S) /\ AllDeclared(u, S) /\ ListsBefore(S, i) /\ Inside(S, i) = {}
      /\ SitesUpTo(u, i) = S \cup SitesOfList(i, list)
  BY <1>1, OneMoreList
<1>3. Types!IsUnitList(list)
  BY ListsAssumption
<1>4. PICK W : W = UpTo(S, i, Len(list))
  OBVIOUS
<1>5. Keeps(r, u, sec, W)
  <2>1. Keeps(q, u, sec, S)
    BY <1>1, <1>2, SameKeeps
  <2>. QED BY <1>2, <1>3, <1>4, <2>1, ListRegistered
<1>6. IsRegistry(r) /\ Len(list) \in Nat \ {0}
  BY <1>3, <1>5, ListsAre DEF Keeps, Sound
<1>7. W = S \cup {<<i, j>> : j \in 1 .. Len(list)}
  BY <1>4 DEF UpTo
<1>8. PICK b : b = BoundList(r, list, i, symbols, views, before)
  OBVIOUS
<1>9. ASSUME Quiet(r, b), list[1].form # "proc" PROVE Keeps(b, u, sec, SitesUpTo(u, i))
  <2>1. Len(Types!Locals(list)) = 0
    BY <1>9 DEF Types!Locals
  <2>2. InnerSites(i, Types!Locals(list), Len(Types!Locals(list))) = {}
    BY <2>1 DEF InnerSites
  <2>3. SitesUpTo(u, i) = W
    BY <1>2, <1>7, <2>2 DEF SitesOfList
  <2>4. UnitKept(r, b) /\ Reported(b) = Reported(r)
    BY <1>9, QuietKeeps DEF Quiet
  <2>. QED BY <1>5, <2>3, <2>4, KeptStays
<1>10. 1 \in 1 .. Len(list)
  BY <1>6
<1>11. CASE Types!IsTypes(list)
  <2>1. b = Types!resolve_type_section(r, list, <<i>>, symbols, views)
    BY <1>8, <1>11, FormsDiffer DEF BoundList, Types!IsTypes, IsType, IsStorage
  <2>2. Quiet(r, b)
    BY <1>6, <2>1, SectionIsQuiet
  <2>3. list[1].form # "proc"
    BY <1>11 DEF Types!IsTypes, Types!TypeForms
  <2>. QED BY <1>8, <1>9, <2>2, <2>3
<1>12. CASE list[1].form \in {"var", "const"}
  <2>1. ~Types!IsTypes(list) /\ list[1].form # "proc"
    BY <1>12 DEF Types!IsTypes, Types!TypeForms
  <2>2. b = Types!resolve_path(r, list[1], <<i, 1>>, before)
    BY <1>8, <1>12, <2>1 DEF BoundList
  <2>. QED BY <1>6, <1>8, <1>9, <2>1, <2>2, PathIsQuiet
<1>13. CASE list[1].form = "proc"
  <2>1. ~Types!IsTypes(list) /\ list[1].form \notin {"var", "const"}
    BY <1>13 DEF Types!IsTypes, Types!TypeForms
  <2>2. PICK d : d = list[1]
    OBVIOUS
  <2>3. b = Types!index_routine(r, d, <<i, 1>>, before)
    BY <1>8, <1>13, <2>1, <2>2 DEF BoundList
  <2>4. Len(d.locals) \in Nat /\ \A k \in 1 .. Len(d.locals) : IsInnerList(d.locals[k])
    BY <1>3, <1>13, <2>2, InnerLists
  <2>5. Inside(W, i) = {}
    <3>1. ASSUME NEW x \in {<<i, j>> : j \in 1 .. Len(list)} PROVE Len(x) # 4
      BY <3>1
    <3>. QED BY <1>2, <1>7, <3>1 DEF Inside
  <2>6. Keeps(b, u, sec, W \cup InnerSites(i, d.locals, Len(d.locals)))
    <3>1. d = u[i].list[1]
      BY <1>2, <2>2
    <3>. QED BY <1>2, <1>5, <2>3, <2>4, <2>5, <3>1, RoutineIndexed
  <2>7. SitesUpTo(u, i) = W \cup InnerSites(i, d.locals, Len(d.locals))
    BY <1>2, <1>7, <1>13, <2>2 DEF SitesOfList, Types!Locals
  <2>. QED BY <1>8, <2>6, <2>7
<1>14. Types!IsTypes(list) \/ list[1].form \in {"var", "const"} \/ list[1].form = "proc"
  BY <1>3, <1>10, ListsAre DEF IsDeclared, IsType, IsStorage, Types!IsTypes
<1>. QED BY <1>11, <1>12, <1>13, <1>14

-----------------------------------------------------------------------------
(* At the end of the unit a type and a value may not have the same name.   *)

LEMMA PlacesOrdered ==
  ASSUME NEW a \in Nat, NEW b \in Nat, NEW i \in Nat, NEW j \in Nat
  PROVE  ~Types!Before(<<a, b>>, <<i, j>>) \/ ~Types!Before(<<i, j>>, <<a, b>>)
<1>1. CASE a < i \/ (a = i /\ b < j)
  BY <1>1, EarlierPlace
<1>2. CASE i < a \/ (i = a /\ j < b)
  BY <1>2, EarlierPlace
<1>3. CASE a = i /\ b = j
  <2>1. PICK z : z = <<a, b>>
    OBVIOUS
  <2>2. DOMAIN z = 1 .. 2 /\ \A k \in 1 .. 2 : z[k] \in Nat
    BY <2>1
  <2>. QED BY <1>3, <2>1, <2>2, NeverBeforeItself
<1>. QED BY <1>1, <1>2, <1>3

IsValue(d, n) == d.label = n \/ (~IsType(d) /\ d.name = n)
Collide(c, d, n) == (IsType(c) /\ c.name = n /\ IsValue(d, n)) \/ (IsValue(c, n) /\ IsType(d) /\ d.name = n)

LEMMA RefusedAtEnd ==
  ASSUME NEW t, NEW x, NEW y, NEW n
  PROVE  RefusedPair(t, TRUE, x, y, n) <=>
           \/ RefusedPair(t, FALSE, x, y, n)
           \/ /\ TogetherAt(t, x, y) /\ ~Types!Before(y, x) /\ n # NoName /\ Len(x) = 2
              /\ Collide(DeclAt(t, x), DeclAt(t, y), n)
<1>1. PICK c, d : c = DeclAt(t, x) /\ d = DeclAt(t, y)
  OBVIOUS
<1>2. \A e : (e.label = n \/ n \in Types!Values(e)) <=> IsValue(e, n)
  BY DEF Types!Values, IsType, IsValue
<1>3. Refuse(c, d, n, x # y, Len(x) = 2, TRUE) <=>
        Refuse(c, d, n, x # y, Len(x) = 2, FALSE) \/ (Len(x) = 2 /\ Collide(c, d, n))
  BY <1>2 DEF Refuse, Collide, IsType
<1>4. Collide(c, d, n) => n \in {c.name, c.label}
  BY DEF Collide, IsValue
<1>. QED BY <1>1, <1>3, <1>4 DEF RefusedPair

TypeNames(r) == DOMAIN r.types.interface \cup DOMAIN r.types.implementation

Finished(r, t) ==
  /\ \A n \in Reported(r) : Refused(t, TRUE, SitesUpTo(t, Len(t)), n)
  /\ Reported(r) = {} => \A n : ~Refused(t, TRUE, SitesUpTo(t, Len(t)), n)

LEMMA PlacesOfUnit ==
  ASSUME NEW t, IsText(t), NEW x \in SitesUpTo(t, Len(t))
  PROVE  /\ IsDeclared(DeclAt(t, x))
         /\ Len(x) = 2 => \E a \in Nat, b \in Nat : x = <<a, b>>
<1>1. IsSequence(t) /\ Len(t) \in Nat /\ \A a \in 1 .. Len(t) : t[a].list \in Lists
  BY SequenceFacts DEF IsText
<1>2. PICK a \in 1 .. Len(t) : x \in SitesOfList(a, t[a].list)
  BY DEF SitesUpTo
<1>3. a \in Nat /\ Types!IsUnitList(t[a].list)
  BY <1>1, ListsAssumption
<1>4. IsDeclared(DeclAt(t, x))
  <2>1. PICK list : list = t[a].list
    OBVIOUS
  <2>2. list \in Lists
    BY <1>1, <2>1
  <2>3. PICK u, S : u = Longer(t, "interface", list) /\ S = SitesUpTo(t, Len(t))
    OBVIOUS
  <2>4. SameAt(t, u, S) /\ AllDeclared(u, S)
    <3>1. PICK i : i = Len(t) + 1
      OBVIOUS
    <3>. QED BY <2>2, <2>3, <3>1, OneMoreList
  <2>. QED BY <2>3, <2>4 DEF SameAt, AllDeclared
<1>5. ASSUME Len(x) = 2 PROVE \E b \in Nat : x = <<a, b>>
  <2>1. PICK f : f = t[a].list
    OBVIOUS
  <2>2. x \in SitesOfList(a, f) /\ Types!IsUnitList(f)
    BY <1>2, <1>3, <2>1
  <2>3. \/ \E b \in 1 .. Len(f) : x = <<a, b>> /\ Len(x) = 2
        \/ Len(x) = 4
    BY <1>3, <2>2, SitesAre
  <2>4. PICK b \in 1 .. Len(f) : x = <<a, b>>
    BY <1>5, <2>3
  <2>5. b \in Nat
    BY <2>2, ListsAre
  <2>. QED BY <2>4, <2>5
<1>. QED BY <1>3, <1>4, <1>5

LEMMA BodiesBound ==
  ASSUME NEW t, IsText(t), NEW q, Keeps(q, t, "implementation", SitesUpTo(t, Len(t))), q.errors = {},
         NEW r, r = [q EXCEPT !.errors = @ \cup {<<"duplicate", n>> : n \in TypeNames(q) \cap Taken(q)}]
  PROVE  Finished(r, t)
<1>1. PICK S, V : S = SitesUpTo(t, Len(t)) /\ V = UnitOf(S)
  OBVIOUS
<1>2. PICK C : C = TypeNames(q) \cap Taken(q)
  OBVIOUS
<1>3. IsRegistry(q) /\ TypesSound(q, t, V) /\ ValuesSound(q, t, V) /\ Reported(q) = {} /\ Answers(q, t, S)
  BY <1>1 DEF Keeps, Sound, Reported
<1>4. ValuesExact(q, t, V) /\ \A n : ~Refused(t, FALSE, S, n)
  BY <1>1, <1>3 DEF Keeps, Exact, Answers
<1>5. Reported(r) = C
  <2>1. PICK E : E = {<<"duplicate", n>> : n \in C}
    OBVIOUS
  <2>2. r.errors = E
    BY <1>2, <1>3, <2>1 DEF IsRegistry
  <2>3. ASSUME NEW n PROVE n \in Reported(r) <=> n \in C
    <3>1. ASSUME n \in C PROVE n \in Reported(r)
      <4>1. PICK e : e = <<"duplicate", n>>
        OBVIOUS
      <4>2. e \in E /\ e[1] = "duplicate" /\ e[2] = n
        BY <2>1, <3>1, <4>1
      <4>. QED BY <2>2, <4>2 DEF Reported
    <3>2. ASSUME n \in Reported(r) PROVE n \in C
      <4>1. PICK e \in E : e[2] = n
        BY <2>2, <3>2 DEF Reported
      <4>2. PICK m \in C : e = <<"duplicate", m>>
        BY <2>1, <4>1
      <4>3. e[2] = m
        BY <4>2
      <4>. QED BY <4>1, <4>2, <4>3
    <3>. QED BY <3>1, <3>2
  <2>. QED BY <2>3
<1>6. \A x \in V : IsDeclared(DeclAt(t, x)) /\ Len(x) = 2 /\ x \in S /\ \E a \in Nat, b \in Nat : x = <<a, b>>
  BY <1>1, PlacesOfUnit DEF UnitOf
<1>7. \A n : n \in TypeNames(q) <=> \E x \in V : IsType(DeclAt(t, x)) /\ DeclAt(t, x).name = n
  <2>1. \A n : n \in TypeNames(q) <=> Find(q, n) # Types!NoSite
    BY <1>3 DEF TypeNames, Find, Types!find_unit_type_symbol, TypesSound, Filled
  <2>2. \A n : Find(q, n) # Types!NoSite <=> TypesNamed(t, V, n) # {}
    BY <1>3 DEF TypesSound
  <2>3. \A n : TypesNamed(t, V, n) # {} <=> \E x \in V : IsType(DeclAt(t, x)) /\ DeclAt(t, x).name = n
    BY DEF TypesNamed
  <2>. QED BY <2>1, <2>2, <2>3
<1>8. \A n : n \in Taken(q) <=> n # NoName /\ \E y \in V : IsValue(DeclAt(t, y), n)
  <2>1. Taken(q) = StorageNames(t, V) \cup RoutineNames(t, V) \cup LabelNames(t, V)
    BY <1>3, <1>4 DEF ValuesSound, ValuesExact, Taken
  <2>2. Taken(q) = ValueNames(t, V) \cup LabelNames(t, V)
    BY <1>6, <2>1, ValuesAre
  <2>3. \A n : n \in ValueNames(t, V) <=> \E y \in V : ~IsType(DeclAt(t, y)) /\ DeclAt(t, y).name = n
    BY DEF ValueNames
  <2>4. \A n : n \in LabelNames(t, V) <=> n # NoName /\ \E y \in V : DeclAt(t, y).label = n
    BY DEF LabelNames
  <2>5. \A y \in V : DeclAt(t, y).name # NoName
    BY <1>6 DEF IsDeclared
  <2>. QED BY <2>2, <2>3, <2>4, <2>5 DEF IsValue
<1>9. ASSUME NEW n, Refused(t, TRUE, S, n) PROVE n \in C
  <2>1. PICK x \in S, y \in S : RefusedPair(t, TRUE, x, y, n)
    BY <1>9 DEF Refused
  <2>2. ~RefusedPair(t, FALSE, x, y, n)
    BY <1>4 DEF Refused
  <2>3. TogetherAt(t, x, y) /\ n # NoName /\ Len(x) = 2 /\ Collide(DeclAt(t, x), DeclAt(t, y), n)
    BY <2>1, <2>2, RefusedAtEnd
  <2>4. x \in V /\ y \in V
    BY <1>1, <2>3, TogetherAre DEF UnitOf
  <2>. QED BY <1>2, <1>7, <1>8, <2>3, <2>4 DEF Collide
<1>10. ASSUME NEW n \in C PROVE Refused(t, TRUE, S, n)
  <2>1. PICK x \in V : IsType(DeclAt(t, x)) /\ DeclAt(t, x).name = n
    BY <1>2, <1>7
  <2>2. n # NoName
    BY <1>2, <1>8
  <2>3. PICK y \in V : IsValue(DeclAt(t, y), n)
    BY <1>2, <1>8
  <2>4. ~Types!Before(x, y) \/ ~Types!Before(y, x)
    BY <1>6, PlacesOrdered
  <2>5. TogetherAt(t, x, y) /\ TogetherAt(t, y, x) /\ Len(x) = 2 /\ Len(y) = 2 /\ x \in S /\ y \in S
    BY <1>6, TogetherAre
  <2>6. Collide(DeclAt(t, x), DeclAt(t, y), n) /\ Collide(DeclAt(t, y), DeclAt(t, x), n)
    BY <2>1, <2>3 DEF Collide
  <2>7. RefusedPair(t, TRUE, x, y, n) \/ RefusedPair(t, TRUE, y, x, n)
    BY <2>2, <2>4, <2>5, <2>6, RefusedAtEnd
  <2>. QED BY <2>5, <2>7 DEF Refused
<1>. QED BY <1>1, <1>5, <1>9, <1>10 DEF Finished

-----------------------------------------------------------------------------
(* The type registry, from the first list to the end of the unit.          *)

DuplicatesInv ==
  /\ section \in {"interface", "implementation", "finished"}
  /\ IsText(text)
  /\ section # "finished" => Keeps(registry, text, section, SitesUpTo(text, Len(text)))
  /\ section = "finished" => Finished(registry, text)

LEMMA NothingIsRegistered == Types!Init => DuplicatesInv
<1>1. SUFFICES ASSUME Types!Init PROVE DuplicatesInv
  OBVIOUS
<1>2. /\ registry = [symbols |-> Types!ExportedSymbols, types |-> Types!NoTypes, storage |-> Types!NoValues,
                     routines |-> Types!NoValues, labels |-> Types!NoValues, meant |-> Types!Nothing,
                     errors |-> {}]
      /\ section = "interface" /\ text = <<>>
  BY <1>1 DEF Types!Init
<1>3. IsSymbols(Types!ExportedSymbols)
  BY DEF IsSymbols, IsSymbol, Types!ExportedSymbols, Types!Symbol, Types!NestedSymbol
<1>4. PICK T : T = Types!NoTypes
  OBVIOUS
<1>5. OfSections(T) /\ DOMAIN T.interface = {} /\ DOMAIN T.implementation = {}
  BY <1>4 DEF Types!NoTypes, Types!Sections, Types!Nothing, OfSections
<1>6. PICK E : E = Types!NoValues
  OBVIOUS
<1>7. OfSections(E) /\ E.interface = {} /\ E.implementation = {}
  BY <1>6 DEF Types!NoValues, Types!Sections, OfSections
<1>8. PICK r : r = registry
  OBVIOUS
<1>9. /\ r.symbols = Types!ExportedSymbols /\ r.types = T /\ r.storage = E /\ r.routines = E /\ r.labels = E
      /\ r.errors = {}
      /\ r = [symbols |-> r.symbols, types |-> r.types, storage |-> r.storage, routines |-> r.routines,
              labels |-> r.labels, meant |-> r.meant, errors |-> r.errors]
  BY <1>2, <1>4, <1>6, <1>8
<1>10. IsRegistry(r) /\ InOrder(r, "interface") /\ Reported(r) = {}
  BY <1>3, <1>5, <1>7, <1>9 DEF IsRegistry, InOrder, Reported
<1>11. \A n : Find(r, n) = Types!NoSite
  BY <1>5, <1>9 DEF Find, Types!find_unit_type_symbol
<1>12. UnitOf({}) = {} /\ \A n : TypesNamed(text, {}, n) = {}
  BY DEF UnitOf, TypesNamed
<1>13. TypesSound(r, text, {})
  BY <1>5, <1>9, <1>11, <1>12 DEF TypesSound, Filled
<1>14. ValuesSound(r, text, {})
  BY <1>7, <1>9 DEF ValuesSound, Both
<1>15. Exact(r, text, {})
  BY <1>11 DEF Exact, ForwardExact, ValuesExact, StorageNames, RoutineNames, LabelNames
<1>16. Answers(r, text, {})
  BY <1>10 DEF Answers, Refused
<1>17. Keeps(r, text, "interface", {})
  BY <1>10, <1>12, <1>13, <1>14, <1>15, <1>16 DEF Keeps, Sound
<1>18. Len(text) = 0 /\ IsText(text)
  <2>1. text \in Seq({})
    BY <1>2
  <2>2. Len(text) = 0
    BY <1>2
  <2>. QED BY <2>1, <2>2 DEF IsText, IsSequence
<1>19. SitesUpTo(text, Len(text)) = {}
  BY <1>18 DEF SitesUpTo
<1>. QED BY <1>2, <1>8, <1>17, <1>18, <1>19 DEF DuplicatesInv

LEMMA ImportsKeep == DuplicatesInv /\ Types!set_parsed_unit_imports => DuplicatesInv'
<1>1. SUFFICES ASSUME DuplicatesInv, Types!set_parsed_unit_imports PROVE DuplicatesInv'
  OBVIOUS
<1>2. section = "interface" /\ section' = "implementation" /\ registry' = registry /\ text' = text
  BY <1>1 DEF Types!set_parsed_unit_imports
<1>3. PICK q, t, S : q = registry /\ t = text /\ S = SitesUpTo(text, Len(text))
  OBVIOUS
<1>4. IsText(t) /\ Keeps(q, t, "interface", S)
  BY <1>1, <1>2, <1>3 DEF DuplicatesInv
<1>5. Keeps(q, t, "implementation", S)
  BY <1>4 DEF Keeps, Sound, InOrder
<1>6. SitesUpTo(text', Len(text')) = S
  BY <1>2, <1>3
<1>. QED BY <1>2, <1>3, <1>4, <1>5, <1>6 DEF DuplicatesInv

LEMMA DeclarationsKeep == DuplicatesInv /\ Types!bind_parsed_declarations => DuplicatesInv'
<1>1. SUFFICES ASSUME DuplicatesInv, Types!bind_parsed_declarations PROVE DuplicatesInv'
  OBVIOUS
<1>2. section \in {"interface", "implementation"} /\ section' = section
  BY <1>1 DEF Types!bind_parsed_declarations, Types!Sections
<1>3. \E list \in Lists : \E symbols, views, before :
        /\ registry' = BoundList(Types!register_decl_list(registry, section, list, Len(text) + 1),
                                 list, Len(text) + 1, symbols, views, before)
        /\ text' = Longer(text, section, list)
  BY <1>1 DEF Types!bind_parsed_declarations, BoundList, Longer
<1>4. PICK list \in Lists : \E symbols, views, before :
        /\ registry' = BoundList(Types!register_decl_list(registry, section, list, Len(text) + 1),
                                 list, Len(text) + 1, symbols, views, before)
        /\ text' = Longer(text, section, list)
  BY <1>3
<1>5. PICK symbols, views, before :
        /\ registry' = BoundList(Types!register_decl_list(registry, section, list, Len(text) + 1),
                                 list, Len(text) + 1, symbols, views, before)
        /\ text' = Longer(text, section, list)
  BY <1>4
<1>6. PICK q, t, sec, i, u : /\ q = registry /\ t = text /\ sec = section /\ i = Len(text) + 1
                             /\ u = Longer(text, section, list)
  OBVIOUS
<1>7. IsText(t) /\ Keeps(q, t, sec, SitesUpTo(t, Len(t)))
  BY <1>1, <1>2, <1>6 DEF DuplicatesInv
<1>8. PICK r : r = Types!register_decl_list(q, sec, list, i)
  OBVIOUS
<1>9. PICK b : b = BoundList(r, list, i, symbols, views, before)
  OBVIOUS
<1>10. Keeps(b, u, sec, SitesUpTo(u, i))
  BY <1>6, <1>7, <1>8, <1>9, ListBound
<1>11. IsText(u) /\ Len(u) = i
  <2>1. PICK S : S = SitesUpTo(t, Len(t))
    OBVIOUS
  <2>. QED BY <1>6, <1>7, <2>1, OneMoreList
<1>12. registry' = b /\ text' = u /\ section' = sec
  BY <1>2, <1>5, <1>6, <1>8, <1>9
<1>13. section' # "finished" /\ section' \in {"interface", "implementation", "finished"}
  BY <1>2
<1>14. Keeps(registry', text', section', SitesUpTo(text', Len(text')))
  BY <1>10, <1>11, <1>12
<1>. QED BY <1>11, <1>12, <1>13, <1>14 DEF DuplicatesInv

LEMMA BodiesKeep == DuplicatesInv /\ Types!bind_parsed_unit_bodies => DuplicatesInv'
<1>1. SUFFICES ASSUME DuplicatesInv, Types!bind_parsed_unit_bodies PROVE DuplicatesInv'
  OBVIOUS
<1>2. /\ section = "implementation" /\ registry.errors = {} /\ section' = "finished" /\ text' = text
      /\ registry' = [registry EXCEPT !.errors =
                        @ \cup {<<"duplicate", n>> : n \in TypeNames(registry) \cap Taken(registry)}]
  BY <1>1 DEF Types!bind_parsed_unit_bodies, TypeNames, Taken, Types!Both, Both
<1>3. PICK q, t, r : q = registry /\ t = text /\ r = registry'
  OBVIOUS
<1>4. IsText(t) /\ Keeps(q, t, "implementation", SitesUpTo(t, Len(t)))
  BY <1>1, <1>2, <1>3 DEF DuplicatesInv
<1>5. q.errors = {} /\ r = [q EXCEPT !.errors = @ \cup {<<"duplicate", n>> : n \in TypeNames(q) \cap Taken(q)}]
  BY <1>2, <1>3
<1>6. Finished(r, t)
  BY <1>4, <1>5, BodiesBound
<1>. QED BY <1>2, <1>3, <1>4, <1>6 DEF DuplicatesInv

LEMMA DuplicatesInvHolds == BothSpec => []DuplicatesInv
<1>1. BothInit => DuplicatesInv
  BY NothingIsRegistered DEF BothInit
<1>2. DuplicatesInv /\ [BothNext]_<<phase, lookupState, typeState>> => DuplicatesInv'
  <2>1. SUFFICES ASSUME DuplicatesInv, [BothNext]_<<phase, lookupState, typeState>> PROVE DuplicatesInv'
    OBVIOUS
  <2>2. CASE UNCHANGED typeState
    <3>1. registry' = registry /\ section' = section /\ text' = text
      BY <2>2 DEF typeState
    <3>. QED BY <2>1, <3>1 DEF DuplicatesInv
  <2>3. CASE Types!Next
    BY <2>1, <2>3, ImportsKeep, DeclarationsKeep, BodiesKeep DEF Types!Next
  <2>. QED BY <2>1, <2>2, <2>3 DEF BothNext
<1>. QED BY <1>1, <1>2, PTL DEF BothSpec

\* The clashes of the property are those of the proof.
LEMMA ClashesAre ==
  ASSUME IsText(text)
  PROVE  \A n : n \in Types!ClashingNames <=> Refused(text, section = "finished", SitesUpTo(text, Len(text)), n)
<1>1. PICK t, S : t = text /\ S = SitesUpTo(text, Len(text))
  OBVIOUS
<1>2. IsSequence(t) /\ Len(t) \in Nat /\ DOMAIN t = 1 .. Len(t) /\ \A i \in 1 .. Len(t) : t[i].list \in Lists
  BY <1>1, SequenceFacts DEF IsText
<1>3. \A i \in 1 .. Len(t) : Types!IsUnitList(t[i].list)
  BY <1>2, ListsAssumption
<1>4. Types!Sites = S
  <2>1. ASSUME NEW i \in 1 .. Len(t)
        PROVE  /\ DOMAIN t[i].list = 1 .. Len(t[i].list)
               /\ UNION {{<<i, 1, k, l>> : l \in DOMAIN Types!Locals(t[i].list)[k]} :
                         k \in DOMAIN Types!Locals(t[i].list)}
                  = InnerSites(i, Types!Locals(t[i].list), Len(Types!Locals(t[i].list)))
    <3>1. PICK list, L : list = t[i].list /\ L = Types!Locals(list)
      OBVIOUS
    <3>2. Types!IsUnitList(list)
      BY <1>3, <3>1
    <3>3. DOMAIN list = 1 .. Len(list)
      BY <3>2, ListsAre
    <3>4. DOMAIN L = 1 .. Len(L) /\ \A k \in DOMAIN L : DOMAIN L[k] = 1 .. Len(L[k])
      <4>1. CASE list[1].form = "proc"
        <5>1. L = list[1].locals
          BY <3>1, <4>1 DEF Types!Locals
        <5>. QED BY <3>2, <4>1, <5>1, InnerLists DEF IsInnerList, Types!IsList
      <4>2. CASE list[1].form # "proc"
        <5>1. L = <<>>
          BY <3>1, <4>2 DEF Types!Locals
        <5>2. DOMAIN L = {} /\ Len(L) = 0
          BY <5>1
        <5>. QED BY <5>2
      <4>. QED BY <4>1, <4>2
    <3>5. UNION {{<<i, 1, k, l>> : l \in DOMAIN L[k]} : k \in DOMAIN L} = InnerSites(i, L, Len(L))
      BY <3>4 DEF InnerSites
    <3>. QED BY <3>1, <3>3, <3>5
  <2>2. Types!UnitSites = UNION {{<<i, j>> : j \in 1 .. Len(t[i].list)} : i \in 1 .. Len(t)}
    BY <1>1, <1>2, <2>1 DEF Types!UnitSites
  <2>3. Types!LocalSites
        = UNION {InnerSites(i, Types!Locals(t[i].list), Len(Types!Locals(t[i].list))) : i \in 1 .. Len(t)}
    BY <1>1, <1>2, <2>1 DEF Types!LocalSites
  <2>. QED BY <1>1, <2>2, <2>3 DEF Types!Sites, SitesUpTo, SitesOfList
<1>5. \A x : Types!Declaration(x) = DeclAt(t, x)
  BY <1>1 DEF Types!Declaration, DeclAt
<1>6. ASSUME NEW x, NEW y, NEW n
      PROVE  /\ Types!Together(x, y) <=> TogetherAt(t, x, y)
             /\ Types!Clash(x, y, n) <=> Refuse(DeclAt(t, x), DeclAt(t, y), n, x # y, Len(x) = 2, section = "finished")
  <2>1. Types!Together(x, y) <=> TogetherAt(t, x, y)
    BY <1>1 DEF Types!Together, Types!SameScope, Types!SectionOf, TogetherAt
  <2>2. Types!Clash(x, y, n) <=> Refuse(DeclAt(t, x), DeclAt(t, y), n, x # y, Len(x) = 2, section = "finished")
    BY <1>5 DEF Types!Clash, Refuse
  <2>. QED BY <2>1, <2>2
<1>7. ASSUME NEW n
      PROVE  n \in Types!ClashingNames <=> Refused(t, section = "finished", S, n)
  <2>1. n \in Types!ClashingNames <=>
          \E x \in S, y \in S :
            /\ Types!Together(x, y) /\ ~Types!Before(y, x)
            /\ n \in {Types!Declaration(x).name, Types!Declaration(x).label} \ {NoName}
            /\ Types!Clash(x, y, n)
    <3>1. ASSUME n \in Types!ClashingNames
          PROVE  \E x \in S, y \in S :
                   /\ Types!Together(x, y) /\ ~Types!Before(y, x)
                   /\ n \in {Types!Declaration(x).name, Types!Declaration(x).label} \ {NoName}
                   /\ Types!Clash(x, y, n)
      <4>1. PICK p \in {q \in S \X S : Types!Together(q[1], q[2]) /\ ~Types!Before(q[2], q[1])} :
              n \in {m \in {Types!Declaration(p[1]).name, Types!Declaration(p[1]).label} \ {NoName} :
                       Types!Clash(p[1], p[2], m)}
        BY <1>4, <3>1 DEF Types!ClashingNames
      <4>2. p[1] \in S /\ p[2] \in S
        BY <4>1
      <4>. QED BY <4>1, <4>2
    <3>2. ASSUME NEW x \in S, NEW y \in S, Types!Together(x, y), ~Types!Before(y, x),
                 n \in {Types!Declaration(x).name, Types!Declaration(x).label} \ {NoName}, Types!Clash(x, y, n)
          PROVE  n \in Types!ClashingNames
      <4>0. PICK p : p = <<x, y>>
        OBVIOUS
      <4>1. p \in S \X S /\ p[1] = x /\ p[2] = y
        BY <4>0
      <4>2. p \in {q \in S \X S : Types!Together(q[1], q[2]) /\ ~Types!Before(q[2], q[1])}
        BY <3>2, <4>1
      <4>3. n \in {m \in {Types!Declaration(p[1]).name, Types!Declaration(p[1]).label} \ {NoName} :
                     Types!Clash(p[1], p[2], m)}
        BY <3>2, <4>1
      <4>. QED BY <1>4, <4>2, <4>3 DEF Types!ClashingNames
    <3>. QED BY <3>1, <3>2
  <2>. QED BY <1>5, <1>6, <2>1 DEF Refused, RefusedPair
<1>. QED BY <1>1, <1>7

\* A name declared twice in a scope is reported, in whichever order, sections and
\* lists its declarations come and however many there are, and no other name is.
THEOREM DuplicatesCorrect == BothSpec => []DuplicatesAreReported
<1>1. DuplicatesInv => DuplicatesAreReported
  <2>1. SUFFICES ASSUME DuplicatesInv PROVE DuplicatesAreReported
    OBVIOUS
  <2>2. PICK S : S = SitesUpTo(text, Len(text))
    OBVIOUS
  <2>3. \A n : n \in Types!ClashingNames <=> Refused(text, section = "finished", S, n)
    BY <2>1, <2>2, ClashesAre DEF DuplicatesInv
  <2>4. Types!Duplicated = Reported(registry)
    BY DEF Types!Duplicated, Reported
  <2>5. CASE section = "finished"
    <3>1. (section = "finished") = TRUE
      BY <2>5
    <3>2. \A n : n \in Types!ClashingNames <=> Refused(text, TRUE, S, n)
      BY <2>3, <3>1
    <3>. QED BY <2>1, <2>2, <2>4, <2>5, <3>2 DEF DuplicatesInv, Finished, DuplicatesAreReported, Types!DuplicatesAreReported
  <2>6. CASE section # "finished"
    <3>1. (section = "finished") = FALSE
      BY <2>6
    <3>2. \A n : n \in Types!ClashingNames <=> Refused(text, FALSE, S, n)
      BY <2>3, <3>1
    <3>3. Answers(registry, text, S)
      BY <2>1, <2>2, <2>6 DEF DuplicatesInv, Keeps
    <3>. QED BY <2>4, <3>2, <3>3 DEF Answers, DuplicatesAreReported, Types!DuplicatesAreReported
  <2>. QED BY <2>5, <2>6
<1>. QED BY <1>1, DuplicatesInvHolds, PTL
=============================================================================
