------------------------ MODULE RuntimeValuesProofs ------------------------
(***************************************************************************)
(* What the runtime promises a program, whatever it does: the pointers of  *)
(* tp2cc_DynArray are the arrays of PascalArrays, the Dos unit answers for *)
(* the last program and the search that is on, bitmaps are sets, and short *)
(* strings are texts of at most their capacity.                            *)
(***************************************************************************)
EXTENDS RuntimeValues, FiniteSetTheorems, SequenceTheorems, WellFoundedInduction, TLAPS

----------------------------------------------------------------------------
(* Dynamic arrays.                                                         *)

(***************************************************************************)
(* The count beside the pointer is that of the elements it points to, and  *)
(* an empty array points to nothing.                                       *)
(***************************************************************************)
Shape ==
  /\ data \in [Variables -> Blocks \cup {Nil}]
  /\ counts \in [Variables -> Nat]
  /\ heap \in [Blocks -> Seq(Elements)]
CountsAreLengths ==
  \A v \in Variables : IF data[v] = Nil THEN counts[v] = 0
                       ELSE counts[v] = Len(heap[data[v]]) /\ counts[v] > 0
ArraysInv == Shape /\ CountsAreLengths

\* There is a block to allocate: each variable points to at most one.
LEMMA FreeIsUnused ==
  ASSUME Shape
  PROVE  Free \in Blocks /\ Free \notin Live(data)
<1>. DEFINE Pointed == {data[v] : v \in Variables}
<1>1. data \in Surjection(Variables, Pointed)
  BY DEF Shape, Surjection
<1>2. IsFiniteSet(Pointed) /\ Cardinality(Pointed) <= Cardinality(Variables)
  BY <1>1, ArraysAssumption, FS_Surjection
<1>3. /\ Cardinality(Pointed) \in Nat
      /\ Cardinality(Variables) \in Nat
      /\ Cardinality(Blocks) \in Nat
  BY <1>2, ArraysAssumption, FS_CardinalityType
<1>4. ~ (Blocks \subseteq Pointed)
  <2>1. SUFFICES ASSUME Blocks \subseteq Pointed PROVE FALSE
    OBVIOUS
  <2>2. Cardinality(Blocks) <= Cardinality(Pointed)
    BY <2>1, <1>2, FS_Subset
  <2>. HIDE DEF Pointed
  <2>. QED BY <2>2, <1>2, <1>3, ArraysAssumption
<1>5. \E b \in Blocks : b \notin Live(data)
  BY <1>4 DEF Live
<1>. QED BY <1>5 DEF Free

----------------------------------------------------------------------------
(***************************************************************************)
(* What a variable holds.                                                  *)
(***************************************************************************)
LEMMA ContentsAreArrays ==
  ASSUME ArraysInv, NEW v \in Variables
  PROVE  /\ Contents[v] \in Seq(Elements)
         /\ Len(Contents[v]) = counts[v]
         /\ Contents[v] = <<>> <=> data[v] = Nil
         /\ \A i \in 1 .. counts[v] : At(v, i) = Contents[v][i]
BY DEF ArraysInv, Shape, CountsAreLengths, Contents, At

LEMMA KeptIsResized ==
  ASSUME ArraysInv, NEW v \in Variables, NEW n \in Int
  PROVE  /\ Kept(v, n) = Pascal!Resized(Contents[v], n)
         /\ Kept(v, n) \in Seq(Elements)
<1>1. \A i \in 1 .. n : i <= counts[v] => At(v, i) = Contents[v][i] /\ Contents[v][i] \in Elements
  BY ContentsAreArrays DEF ArraysInv, Shape
<1>2. Kept(v, n) = Pascal!Resized(Contents[v], n)
  BY <1>1, ContentsAreArrays DEF Kept, Pascal!Resized
<1>3. Kept(v, n) \in Seq(Elements)
  <2>1. CASE n < 0
    <3>1. Kept(v, n) = [i \in 1 .. 0 |-> IF i <= counts[v] THEN At(v, i) ELSE 0]
      BY <2>1 DEF Kept
    <3>. QED BY <3>1
  <2>2. CASE n >= 0
    <3>1. Kept(v, n) \in [1 .. n -> Elements]
      BY <1>1, ArraysAssumption DEF Kept, ArraysInv, Shape
    <3>. QED BY <3>1, <2>2
  <2>. QED BY <2>1, <2>2
<1>. QED BY <1>2, <1>3

LEMMA KeptIsCopied ==
  ASSUME ArraysInv, NEW v \in Variables
  PROVE  Kept(v, counts[v]) = Contents[v]
<1>1. /\ Contents[v] \in Seq(Elements) /\ Len(Contents[v]) = counts[v]
      /\ \A i \in 1 .. counts[v] : At(v, i) = Contents[v][i]
  BY ContentsAreArrays
<1>2. Kept(v, counts[v]) = [i \in 1 .. counts[v] |-> Contents[v][i]]
  BY <1>1 DEF Kept
<1>. QED BY <1>1, <1>2

----------------------------------------------------------------------------
(***************************************************************************)
(* An allocation takes a variable out of its group and leaves the others   *)
(* what they had.                                                          *)
(***************************************************************************)
LEMMA AllocatedMoves ==
  ASSUME ArraysInv, NEW v \in Variables, NEW s \in Seq(Elements), Allocated(v, s)
  PROVE  ArraysInv' /\ Pascal!Moves(v, {}, s)
<1>. DEFINE b == IF s = <<>> THEN Nil ELSE Free
            h == IF s = <<>> THEN heap ELSE [heap EXCEPT ![Free] = s]
<1>1. Free \in Blocks /\ Free \notin Live(data)
  BY FreeIsUnused DEF ArraysInv
<1>2. /\ data' = [data EXCEPT ![v] = b]
      /\ counts' = [counts EXCEPT ![v] = Len(s)]
      /\ heap' = Freed(data', h)
  BY DEF Allocated, Points
<1>3. b \in Blocks \cup {Nil} /\ h \in [Blocks -> Seq(Elements)]
  BY <1>1 DEF ArraysInv, Shape
<1>4. Shape'
  <2>1. data' \in [Variables -> Blocks \cup {Nil}]
    BY <1>2, <1>3 DEF ArraysInv, Shape
  <2>2. counts' \in [Variables -> Nat]
    BY <1>2 DEF ArraysInv, Shape
  <2>3. heap' \in [Blocks -> Seq(Elements)]
    BY <1>2, <1>3 DEF Freed
  <2>. QED BY <2>1, <2>2, <2>3 DEF Shape
<1>5. ASSUME NEW w \in Variables, w # v
      PROVE  /\ data'[w] = data[w] /\ counts'[w] = counts[w]
             /\ data[w] # Nil => data[w] # b /\ heap'[data[w]] = heap[data[w]]
  <2>1. data'[w] = data[w] /\ counts'[w] = counts[w]
    BY <1>2, <1>5 DEF ArraysInv, Shape
  <2>2. ASSUME data[w] # Nil
        PROVE  data[w] # b /\ heap'[data[w]] = heap[data[w]]
    <3>1. data[w] \in Live(data) /\ data[w] \in Live(data') /\ data[w] \in Blocks
      BY <2>1, <2>2 DEF Live, ArraysInv, Shape
    <3>2. h[data[w]] = heap[data[w]]
      BY <3>1, <1>1 DEF ArraysInv, Shape
    <3>. QED BY <3>1, <3>2, <1>1, <1>2, <2>2 DEF Freed
  <2>. QED BY <2>1, <2>2
<1>6. /\ data'[v] = b /\ counts'[v] = Len(s)
      /\ s # <<>> => heap'[b] = s
  <2>1. data'[v] = b /\ counts'[v] = Len(s)
    BY <1>2 DEF ArraysInv, Shape
  <2>2. ASSUME s # <<>> PROVE heap'[b] = s
    <3>1. b \in Blocks /\ b # Nil
      BY <1>1, <2>2, ArraysAssumption
    <3>2. b \in Live(data')
      BY <2>1, <3>1 DEF Live
    <3>3. h[b] = s
      BY <2>2, <1>1 DEF ArraysInv, Shape
    <3>. QED BY <3>1, <3>2, <3>3, <1>2 DEF Freed
  <2>. QED BY <2>1, <2>2
<1>7. b = Nil <=> s = <<>>
  BY <1>1, ArraysAssumption
<1>. HIDE DEF b, h
<1>8. CountsAreLengths'
  <2>1. ASSUME NEW w \in Variables
        PROVE  (IF data[w] = Nil THEN counts[w] = 0
                ELSE counts[w] = Len(heap[data[w]]) /\ counts[w] > 0)'
    <3>1. CASE w = v
      <4>1. s = <<>> => Len(s) = 0
        OBVIOUS
      <4>2. s # <<>> => Len(s) > 0
        OBVIOUS
      <4>. QED BY <3>1, <4>1, <4>2, <1>6, <1>7
    <3>2. CASE w # v
      BY <3>2, <1>5 DEF ArraysInv, CountsAreLengths
    <3>. QED BY <3>1, <3>2
  <2>. QED BY <2>1 DEF CountsAreLengths
<1>9. Contents' = [Contents EXCEPT ![v] = s]
  <2>1. ASSUME NEW w \in Variables
        PROVE  (IF data[w] = Nil THEN <<>> ELSE heap[data[w]])'
               = IF w = v THEN s ELSE Contents[w]
    BY <1>5, <1>6, <1>7 DEF Contents
  <2>. QED BY <2>1 DEF Contents
<1>10. Sharers' = [w \in Variables |-> IF w = v \/ w \in {} THEN {} \cup {v} ELSE Sharers[w] \ {v}]
  <2>1. ASSUME NEW w \in Variables
        PROVE  {u \in Variables : u = w \/ (data'[u] = data'[w] /\ data'[w] # Nil)}
               = IF w = v THEN {v}
                 ELSE {u \in Variables : u = w \/ (data[u] = data[w] /\ data[w] # Nil)} \ {v}
    <3>1. CASE w = v
      BY <3>1, <1>5, <1>6
    <3>2. CASE w # v
      BY <3>2, <1>5, <1>6
    <3>. QED BY <3>1, <3>2
  <2>. QED BY <2>1 DEF Sharers
<1>. QED BY <1>4, <1>8, <1>9, <1>10 DEF ArraysInv, Pascal!Moves

----------------------------------------------------------------------------
(***************************************************************************)
(* An assignment joins the group of its source, unless that is empty.      *)
(***************************************************************************)
LEMMA AssignJoins ==
  ASSUME ArraysInv, NEW v \in Variables, NEW w \in Variables, AssignArray(v, w)
  PROVE  ArraysInv' /\ Pascal!Assign(v, w)
<1>1. /\ data' = [data EXCEPT ![v] = data[w]]
      /\ counts' = [counts EXCEPT ![v] = counts[w]]
      /\ heap' = Freed(data', heap)
  BY DEF AssignArray, Points
<1>2. Shape'
  BY <1>1 DEF ArraysInv, Shape, Freed
<1>3. ASSUME NEW u \in Variables
      PROVE  /\ data'[u] = (IF u = v THEN data[w] ELSE data[u])
             /\ counts'[u] = (IF u = v THEN counts[w] ELSE counts[u])
  BY <1>1 DEF ArraysInv, Shape
<1>4. ASSUME NEW u \in Variables, data'[u] # Nil
      PROVE  heap'[data'[u]] = heap[data'[u]]
  BY <1>1, <1>2, <1>4 DEF Freed, Live, Shape
<1>5. CountsAreLengths'
  BY <1>3, <1>4 DEF CountsAreLengths, ArraysInv
<1>6. Contents' = [Contents EXCEPT ![v] = Contents[w]]
  <2>1. ASSUME NEW u \in Variables
        PROVE  (IF data[u] = Nil THEN <<>> ELSE heap[data[u]])'
               = IF u = v THEN Contents[w] ELSE Contents[u]
    BY <1>3, <1>4 DEF Contents
  <2>. QED BY <2>1 DEF Contents
<1>. DEFINE others == IF Contents[w] = <<>> THEN {} ELSE Sharers[w]
<1>7. others = IF data[w] = Nil THEN {} ELSE {u \in Variables : data[u] = data[w]}
  BY ContentsAreArrays DEF Sharers
<1>8. Sharers' = [u \in Variables |->
                    IF u = v \/ u \in others THEN others \cup {v} ELSE Sharers[u] \ {v}]
  <2>1. ASSUME NEW u \in Variables
        PROVE  {x \in Variables : x = u \/ (data'[x] = data'[u] /\ data'[u] # Nil)}
               = IF u = v \/ u \in others THEN others \cup {v}
                 ELSE {x \in Variables : x = u \/ (data[x] = data[u] /\ data[u] # Nil)} \ {v}
    <3>. HIDE DEF others
    <3>1. CASE u = v \/ u \in others
      BY <3>1, <1>3, <1>7
    <3>2. CASE ~ (u = v \/ u \in others)
      BY <3>2, <1>3, <1>7
    <3>. QED BY <3>1, <3>2
  <2>. QED BY <2>1 DEF Sharers
<1>. QED BY <1>2, <1>5, <1>6, <1>8 DEF ArraysInv, Pascal!Assign, Pascal!Moves

(***************************************************************************)
(* A store is seen by the variables of the group and by no other.          *)
(***************************************************************************)
LEMMA StoreIsShared ==
  ASSUME ArraysInv, NEW v \in Variables, NEW i \in 1 .. MaxLength, NEW x \in Elements, Store(v, i, x)
  PROVE  ArraysInv' /\ Pascal!Store(v, i, x)
<1>1. data[v] # Nil /\ data[v] \in Blocks /\ i \in 1 .. Len(heap[data[v]])
  BY DEF Store, ArraysInv, Shape, CountsAreLengths
<1>. DEFINE s == [heap[data[v]] EXCEPT ![i] = x]
<1>2. s \in Seq(Elements) /\ Len(s) = Len(heap[data[v]])
  BY <1>1 DEF ArraysInv, Shape
<1>3. heap' = [heap EXCEPT ![data[v]] = s] /\ data' = data /\ counts' = counts
  BY <1>1 DEF Store, ArraysInv, Shape
<1>. HIDE DEF s
<1>4. Shape'
  BY <1>2, <1>3 DEF ArraysInv, Shape
<1>5. \A b \in Blocks : heap'[b] = IF b = data[v] THEN s ELSE heap[b]
  BY <1>3 DEF ArraysInv, Shape
<1>6. CountsAreLengths'
  BY <1>2, <1>3, <1>5 DEF ArraysInv, Shape, CountsAreLengths
<1>7. Contents' = [w \in Variables |->
                     IF w \in Sharers[v] THEN [Contents[w] EXCEPT ![i] = x] ELSE Contents[w]]
  <2>1. ASSUME NEW w \in Variables
        PROVE  (IF data[w] = Nil THEN <<>> ELSE heap[data[w]])'
               = IF w \in Sharers[v] THEN [Contents[w] EXCEPT ![i] = x] ELSE Contents[w]
    <3>1. w \in Sharers[v] <=> data[w] = data[v]
      BY <1>1 DEF Sharers
    <3>. QED BY <3>1, <1>1, <1>3, <1>5 DEF Contents, ArraysInv, Shape, s
  <2>. QED BY <2>1 DEF Contents
<1>8. i \in DOMAIN Contents[v]
  BY <1>1 DEF Contents, ArraysInv, Shape
<1>9. Sharers' = Sharers
  BY <1>3 DEF Sharers
<1>. QED BY <1>4, <1>6, <1>7, <1>8, <1>9 DEF ArraysInv, Pascal!Store

----------------------------------------------------------------------------
LEMMA InitHolds == ArraysInit => ArraysInv /\ Pascal!Init
<1>. SUFFICES ASSUME ArraysInit PROVE ArraysInv /\ Pascal!Init
  OBVIOUS
<1>1. ArraysInv
  BY DEF ArraysInit, ArraysInv, Shape, CountsAreLengths
<1>2. Contents = [v \in Variables |-> <<>>] /\ Sharers = [v \in Variables |-> {v}]
  BY DEF ArraysInit, Contents, Sharers
<1>. QED BY <1>1, <1>2 DEF ArraysInit, Pascal!Init

LEMMA StepHolds ==
  ASSUME ArraysInv, [ArraysNext]_arrayVars
  PROVE  ArraysInv' /\ [Pascal!Next]_(Pascal!arrayVars)
<1>1. CASE UNCHANGED arrayVars
  <2>1. Contents' = Contents /\ Sharers' = Sharers /\ asked' = asked
    BY <1>1 DEF arrayVars, Contents, Sharers
  <2>2. ArraysInv'
    BY <1>1 DEF arrayVars, ArraysInv, Shape, CountsAreLengths
  <2>. QED BY <2>1, <2>2 DEF Pascal!arrayVars
<1>2. ASSUME NEW v \in Variables, NEW n \in -1 .. MaxLength,
             SetLength(v, n), asked' = <<"SetLength", v, n>>
      PROVE  ArraysInv' /\ Pascal!Next
  <2>1. n \in Int
    OBVIOUS
  <2>2. ArraysInv' /\ Pascal!Moves(v, {}, Kept(v, n))
    BY <2>1, <1>2, KeptIsResized, AllocatedMoves DEF SetLength
  <2>3. Pascal!SetLength(v, n)
    BY <2>1, <2>2, KeptIsResized DEF Pascal!SetLength
  <2>. QED BY <2>2, <2>3, <1>2 DEF Pascal!Next
<1>3. ASSUME NEW v \in Variables, AssignNil(v), asked' = <<"Clear", v>>
      PROVE  ArraysInv' /\ Pascal!Next
  <2>1. Allocated(v, <<>>)
    BY <1>3 DEF AssignNil, Allocated
  <2>2. <<>> \in Seq(Elements)
    OBVIOUS
  <2>3. ArraysInv' /\ Pascal!Moves(v, {}, <<>>)
    BY <2>1, <2>2, AllocatedMoves
  <2>. QED BY <2>3, <1>3 DEF Pascal!Next, Pascal!Clear
<1>4. ASSUME NEW v \in Variables, NEW n \in 0 .. MaxLength, NEW s \in [1 .. n -> Elements],
             AssignFixed(v, s), asked' = <<"AssignFixed", v, s>>
      PROVE  ArraysInv' /\ Pascal!Next
  <2>1. s \in Seq(Elements)
    OBVIOUS
  <2>2. ArraysInv' /\ Pascal!Moves(v, {}, s)
    BY <2>1, <1>4, AllocatedMoves DEF AssignFixed
  <2>3. s \in UNION {[1 .. m -> Elements] : m \in 0 .. MaxLength}
    OBVIOUS
  <2>. QED BY <2>2, <2>3, <1>4 DEF Pascal!Next, Pascal!AssignFixed
<1>5. ASSUME NEW v \in Variables, NEW w \in Variables,
             AssignArray(v, w), asked' = <<"Assign", v, w>>
      PROVE  ArraysInv' /\ Pascal!Next
  BY <1>5, AssignJoins DEF Pascal!Next
<1>6. ASSUME NEW v \in Variables, NEW w \in Variables, Copy(v, w), asked' = <<"Copy", v, w>>
      PROVE  ArraysInv' /\ Pascal!Next
  <2>1. Allocated(v, Contents[w]) /\ Contents[w] \in Seq(Elements)
    BY <1>6, KeptIsCopied, ContentsAreArrays DEF Copy
  <2>2. ArraysInv' /\ Pascal!Moves(v, {}, Contents[w])
    BY <2>1, AllocatedMoves
  <2>. QED BY <2>2, <1>6 DEF Pascal!Next, Pascal!Copy
<1>7. ASSUME NEW v \in Variables, NEW i \in 1 .. MaxLength, NEW x \in Elements,
             Store(v, i, x), asked' = <<"Store", v, i, x>>
      PROVE  ArraysInv' /\ Pascal!Next
  BY <1>7, StoreIsShared DEF Pascal!Next
<1>. QED BY <1>1, <1>2, <1>3, <1>4, <1>5, <1>6, <1>7 DEF ArraysNext

(* Dynamic arrays are Pascal's: whatever a program does with any number of them,
   it sees what PascalArrays allows.  (tp2cc_DynArray.) *)
THEOREM ArraysCorrect == ArraysSpec => ArraysKeepTheirPromise
<1>1. ArraysInit => ArraysInv /\ Pascal!Init
  BY InitHolds
<1>2. ArraysInv /\ [ArraysNext]_arrayVars => ArraysInv' /\ [Pascal!Next]_(Pascal!arrayVars)
  BY StepHolds
<1>. QED BY <1>1, <1>2, PTL DEF ArraysSpec, ArraysKeepTheirPromise, Pascal!Spec

----------------------------------------------------------------------------
(* Programs and searches.                                                  *)

LEMMA MatchesAreSequences ==
  ASSUME NEW S, IsFiniteSet(S), NEW m \in SetToAllKPermutations(S)
  PROVE  m \in Seq(S)
<1>1. PICK T \in SUBSET S : m \in [1 .. Cardinality(T) -> T]
  BY DEF SetToAllKPermutations, SetToSeqs
<1>2. Cardinality(T) \in Nat
  BY FS_Subset, FS_CardinalityType
<1>. QED BY <1>1, <1>2

(***************************************************************************)
(* While a search is on the record is at its last visit, and each match is *)
(* still there or has vanished since.                                      *)
(***************************************************************************)
SearchShape ==
  /\ files \subseteq Names
  /\ rec \in [matches : Seq(Names), index : Nat, name : Names \cup {"none"}]
  /\ search \in [matches : Seq(Names), visited : Seq(Names \cup {"none"}), gone : SUBSET Names, on : BOOLEAN]
RecordFollows ==
  search.on => /\ rec.matches = search.matches
               /\ rec.index = Len(search.visited) /\ rec.index > 0
MatchesAreAccountedFor ==
  search.on => \A i \in 1 .. Len(search.matches) : search.matches[i] \in files \cup search.gone
DosInv ==
  /\ SearchShape /\ RecordFollows /\ MatchesAreAccountedFor /\ AnswersAreUpToDate

\* A search that found nothing.
LEMMA NothingIsFound ==
  ASSUME NEW name \in Names \cup {"none"}, files \subseteq Names,
         rec = [matches |-> <<>>, index |-> 1, name |-> name],
         search = [matches |-> <<>>, visited |-> <<>>, gone |-> {}, on |-> FALSE]
  PROVE  SearchShape /\ RecordFollows /\ MatchesAreAccountedFor /\ EveryMatchIsVisitedOnce
<1>1. <<>> \in Seq(Names) /\ <<>> \in Seq(Names \cup {"none"})
  OBVIOUS
<1>2. Len(<<>>) = 0 /\ DOMAIN <<>> = {}
  OBVIOUS
<1>3. SearchShape
  BY <1>1 DEF SearchShape
<1>. QED BY <1>2, <1>3 DEF RecordFollows, MatchesAreAccountedFor, EveryMatchIsVisitedOnce

LEMMA DosInitHolds == DosInit => DosInv
<1>. SUFFICES ASSUME DosInit PROVE DosInv
  OBVIOUS
<1>1. SearchShape /\ RecordFollows /\ MatchesAreAccountedFor /\ EveryMatchIsVisitedOnce
  BY NothingIsFound DEF DosInit
<1>. QED BY <1>1 DEF DosInit, DosInv, AnswersAreUpToDate, StatusIsOfTheLastProgram, Nothing

LEMMA RunKeepsAnswers ==
  ASSUME DosInv, NEW how, NEW command, NEW rest, Run(how, command, rest)
  PROVE  DosInv'
<1>1. PICK end \in Ends :
        LET args == Arguments(how, command, rest)
            status == spawn_process(args, end)
        IN /\ p_doserror' = status.error /\ exit_code' = status.code
           /\ last' = IF args = <<>> \/ args[1] = <<>> THEN NotStarted(ENOENT) ELSE end
           /\ UNCHANGED <<files, rec, search>>
  BY DEF Run
<1>2. end \in [how : {"exits", "killed", "not_started", "not_waited_for"}, code : Int]
  BY ProcessesAssumption
<1>3. StatusIsOfTheLastProgram'
  BY <1>1, <1>2 DEF StatusIsOfTheLastProgram, spawn_process, store_wait_status, NotStarted
<1>. QED
  BY <1>1, <1>3 DEF DosInv, SearchShape, RecordFollows, MatchesAreAccountedFor, AnswersAreUpToDate,
                    EveryMatchIsVisitedOnce

LEMMA FindFirstStartsASearch ==
  ASSUME DosInv, NEW directoriesOnly \in BOOLEAN, FindFirst(directoriesOnly)
  PROVE  DosInv'
<1>1. PICK m \in SetToAllKPermutations(files) :
        /\ ToSet(m) \subseteq files
        /\ LET empty == [matches |-> m, index |-> 1, name |-> "none"]
           IN rec' = IF m = <<>> THEN empty ELSE fill(empty, m[1])
        /\ search' = [matches |-> m, gone |-> {}, on |-> m # <<>>,
                      visited |-> IF m = <<>> THEN <<>> ELSE <<rec'.name>>]
        /\ UNCHANGED <<files, exit_code, last, calls>>
  BY DEF FindFirst
<1>2. m \in Seq(files) /\ m \in Seq(Names)
  BY MatchesAreSequences, ProcessesAssumption, FS_Subset DEF DosInv, SearchShape
<1>3. \A i \in 1 .. Len(m) : m[i] \in files
  BY <1>2
<1>4. CASE m = <<>>
  <2>1. rec' = [matches |-> <<>>, index |-> 1, name |-> "none"]
    BY <1>1, <1>4
  <2>2. (m # <<>>) = FALSE
    BY <1>4
  <2>3. search' = [matches |-> <<>>, gone |-> {}, on |-> FALSE, visited |-> <<>>]
    BY <1>1, <1>4, <2>2
  <2>4. /\ <<>> \in Seq(Names) /\ <<>> \in Seq(Names \cup {"none"})
        /\ Len(<<>>) = 0 /\ DOMAIN <<>> = {}
    OBVIOUS
  <2>5. SearchShape'
    <3>1. rec' \in [matches : Seq(Names), index : Nat, name : Names \cup {"none"}]
      BY <2>1, <2>4
    <3>2. search' \in [matches : Seq(Names), visited : Seq(Names \cup {"none"}),
                       gone : SUBSET Names, on : BOOLEAN]
      BY <2>3, <2>4
    <3>. QED BY <1>1, <3>1, <3>2 DEF DosInv, SearchShape
  <2>6. RecordFollows' /\ MatchesAreAccountedFor' /\ EveryMatchIsVisitedOnce'
    BY <2>3, <2>4 DEF RecordFollows, MatchesAreAccountedFor, EveryMatchIsVisitedOnce
  <2>. QED
    BY <1>1, <2>5, <2>6 DEF DosInv, AnswersAreUpToDate, StatusIsOfTheLastProgram
<1>5. CASE m # <<>>
  <2>1. Len(m) > 0 /\ m[1] \in files /\ m[1] \in Names
    BY <1>2, <1>5
  <2>2. rec' = [matches |-> m, index |-> 1, name |-> m[1]]
    <3>1. rec' = fill([matches |-> m, index |-> 1, name |-> "none"], m[1])
      BY <1>1, <1>5
    <3>. QED BY <3>1, <2>1 DEF fill
  <2>7. (m # <<>>) = TRUE /\ rec'.name = m[1]
    BY <1>5, <2>2
  <2>3. search' = [matches |-> m, gone |-> {}, on |-> TRUE, visited |-> <<m[1]>>]
    BY <1>1, <1>5, <2>7
  <2>8. /\ <<m[1]>> \in Seq(Names \cup {"none"}) /\ Len(<<m[1]>>) = 1
        /\ DOMAIN <<m[1]>> = {1} /\ <<m[1]>>[1] = m[1]
    BY <2>1
  <2>9. rec' \in [matches : Seq(Names), index : Nat, name : Names \cup {"none"}]
    BY <1>2, <2>1, <2>2
  <2>10. search' \in [matches : Seq(Names), visited : Seq(Names \cup {"none"}),
                      gone : SUBSET Names, on : BOOLEAN]
    BY <1>2, <2>3, <2>8
  <2>4. SearchShape' /\ RecordFollows' /\ MatchesAreAccountedFor'
    BY <1>1, <1>3, <2>2, <2>3, <2>8, <2>9, <2>10
       DEF DosInv, SearchShape, RecordFollows, MatchesAreAccountedFor
  <2>5. EveryMatchIsVisitedOnce'
    BY <2>1, <2>3, <2>8, <1>2 DEF EveryMatchIsVisitedOnce
  <2>. QED
    BY <1>1, <2>4, <2>5 DEF DosInv, AnswersAreUpToDate, StatusIsOfTheLastProgram
<1>. QED BY <1>4, <1>5

LEMMA FindNextVisitsTheNextMatch ==
  ASSUME DosInv, FindNext
  PROVE  DosInv'
<1>. DEFINE i == rec.index + 1
            m == search.matches
            visit == IF m[i] \in files THEN m[i] ELSE rec.name
<1>1. search.on /\ UNCHANGED <<files, exit_code, last>>
  BY DEF FindNext
<1>2. /\ rec.matches = m /\ rec.index = Len(search.visited) /\ rec.index \in Nat \ {0}
      /\ m \in Seq(Names) /\ search.visited \in Seq(Names \cup {"none"})
      /\ Len(search.visited) <= Len(m) /\ rec.name \in Names \cup {"none"}
      /\ search.gone \subseteq Names /\ files \subseteq Names
  BY <1>1 DEF DosInv, SearchShape, RecordFollows, AnswersAreUpToDate, EveryMatchIsVisitedOnce
<1>3. CASE More
  <2>1. rec.index < Len(m) /\ i \in 1 .. Len(m)
    BY <1>2, <1>3 DEF More
  <2>2. Append(rec.matches, "none")[i] = m[i]
    BY <1>2, <2>1
  <2>3. rec' = fill([rec EXCEPT !.index = @ + 1], Append(rec.matches, "none")[i])
    BY <1>3 DEF FindNext
  <2>4. rec' = [matches |-> m, index |-> i, name |-> visit]
    BY <1>2, <2>2, <2>3 DEF DosInv, SearchShape, fill
  <2>5. search' = [search EXCEPT !.visited = Append(@, rec'.name)]
    BY <1>3 DEF FindNext
  <2>6. /\ search'.matches = m /\ search'.gone = search.gone /\ search'.on
        /\ search'.visited = Append(search.visited, visit)
    BY <1>1, <2>4, <2>5 DEF DosInv, SearchShape
  <2>7. visit \in Names \cup {"none"} /\ (visit = m[i] \/ m[i] \in search.gone)
    BY <1>1, <1>2, <2>1 DEF DosInv, MatchesAreAccountedFor
  <2>8. SearchShape' /\ RecordFollows'
    <3>1. rec' \in [matches : Seq(Names), index : Nat, name : Names \cup {"none"}]
      BY <1>2, <2>4, <2>7
    <3>2. Append(search.visited, visit) \in Seq(Names \cup {"none"})
          /\ Len(Append(search.visited, visit)) = i
      BY <1>2, <2>7
    <3>3. search' \in [matches : Seq(Names), visited : Seq(Names \cup {"none"}),
                       gone : SUBSET Names, on : BOOLEAN]
      BY <2>4, <2>5, <3>2 DEF DosInv, SearchShape
    <3>. QED
      BY <1>1, <1>2, <2>4, <2>6, <3>1, <3>2, <3>3 DEF DosInv, SearchShape, RecordFollows
  <2>9. MatchesAreAccountedFor'
    BY <1>1, <2>6 DEF DosInv, MatchesAreAccountedFor
  <2>10. EveryMatchIsVisitedOnce'
    <3>1. Len(search'.visited) = i /\ DOMAIN search'.visited = 1 .. i
      BY <1>2, <2>6
    <3>2. \A k \in 1 .. i : search'.visited[k] = m[k] \/ m[k] \in search.gone
      <4>1. \A k \in 1 .. rec.index : search.visited[k] = m[k] \/ m[k] \in search.gone
        BY <1>2 DEF DosInv, AnswersAreUpToDate, EveryMatchIsVisitedOnce
      <4>2. \A k \in 1 .. rec.index : search'.visited[k] = search.visited[k]
        BY <1>2, <2>6
      <4>3. search'.visited[i] = visit
        BY <1>2, <2>6
      <4>4. \A k \in 1 .. i : k = i \/ k \in 1 .. rec.index
        BY <1>2
      <4>. QED BY <4>1, <4>2, <4>3, <4>4, <2>7
    <3>. QED BY <3>1, <3>2, <2>1, <2>6 DEF EveryMatchIsVisitedOnce
  <2>. QED
    BY <1>1, <2>8, <2>9, <2>10 DEF DosInv, AnswersAreUpToDate, StatusIsOfTheLastProgram
<1>4. CASE ~More
  <2>1. rec' = rec /\ search' = [search EXCEPT !.on = FALSE]
    BY <1>4 DEF FindNext
  <2>2. Len(search.visited) = Len(m)
    BY <1>2, <1>4 DEF More
  <2>. QED
    BY <1>1, <1>2, <2>1, <2>2 DEF DosInv, SearchShape, RecordFollows, MatchesAreAccountedFor,
       AnswersAreUpToDate, StatusIsOfTheLastProgram, EveryMatchIsVisitedOnce
<1>. QED BY <1>3, <1>4

LEMMA DosStepHolds ==
  ASSUME DosInv, [DosNext]_dosVars
  PROVE  DosInv'
<1>1. ASSUME NEW how \in {"executeprocess", "exec"}, NEW command \in {<<>>, <<"a">>},
             NEW rest \in {<<>>, << <<"b">> >>}, Run(how, command, rest)
      PROVE  DosInv'
  BY <1>1, RunKeepsAnswers
<1>2. ASSUME NEW directoriesOnly \in BOOLEAN, FindFirst(directoriesOnly)
      PROVE  DosInv'
  BY <1>2, FindFirstStartsASearch
<1>3. CASE FindNext
  BY <1>3, FindNextVisitsTheNextMatch
<1>4. CASE FindClose
  <2>1. ~search.on /\ rec' = [rec EXCEPT !.matches = <<>>, !.index = 1]
        /\ UNCHANGED <<files, exit_code, search, last>>
    BY <1>4 DEF FindClose
  <2>2. <<>> \in Seq(Names)
    OBVIOUS
  <2>3. rec' \in [matches : Seq(Names), index : Nat, name : Names \cup {"none"}]
    BY <2>1, <2>2 DEF DosInv, SearchShape
  <2>. QED
    BY <2>1, <2>3 DEF DosInv, SearchShape, RecordFollows, MatchesAreAccountedFor,
       AnswersAreUpToDate, StatusIsOfTheLastProgram, EveryMatchIsVisitedOnce
<1>5. ASSUME NEW n \in Names, Appear(n)
      PROVE  DosInv'
  BY <1>5 DEF Appear, DosInv, SearchShape, RecordFollows, MatchesAreAccountedFor,
     AnswersAreUpToDate, StatusIsOfTheLastProgram, EveryMatchIsVisitedOnce
<1>6. ASSUME NEW n \in Names, Vanish(n)
      PROVE  DosInv'
  <2>1. /\ search'.matches = search.matches /\ search'.visited = search.visited
        /\ search'.on = search.on /\ search'.gone = search.gone \cup {n}
        /\ files' = files \ {n} /\ UNCHANGED <<rec, exit_code, last>>
    BY <1>6 DEF Vanish, DosInv, SearchShape
  <2>2. SearchShape'
    BY <1>6 DEF Vanish, DosInv, SearchShape
  <2>. QED
    BY <2>1, <2>2 DEF DosInv, RecordFollows, MatchesAreAccountedFor,
       AnswersAreUpToDate, StatusIsOfTheLastProgram, EveryMatchIsVisitedOnce
<1>7. CASE UNCHANGED dosVars
  BY <1>7 DEF dosVars, DosInv, SearchShape, RecordFollows, MatchesAreAccountedFor,
     AnswersAreUpToDate, StatusIsOfTheLastProgram, EveryMatchIsVisitedOnce
<1>. QED BY <1>1, <1>2, <1>3, <1>4, <1>5, <1>6, <1>7 DEF DosNext

THEOREM AnswersCorrect == Spec => []AnswersAreUpToDate
<1>1. Init => DosInv
  BY DosInitHolds DEF Init
<1>2. DosInv /\ [Next]_valueVars => DosInv'
  <2>. SUFFICES ASSUME DosInv, [Next]_valueVars PROVE [DosNext]_dosVars
    BY DosStepHolds
  <2>. QED BY DEF Next, Call, valueVars
<1>3. DosInv => AnswersAreUpToDate
  BY DEF DosInv
<1>. QED BY <1>1, <1>2, <1>3, PTL DEF Spec

----------------------------------------------------------------------------
(* Sets.  A number is a byte of the bitmap and a bit of that byte, and     *)
(* each byte and bit is one number.                                        *)
LEMMA Multiples ==
  ASSUME NEW b \in Nat \ {0}, NEW k \in Int
  PROVE  /\ k >= 1 => k * b >= b
         /\ k <= -1 => k * b <= -b
<1>1. CASE k >= 1
  <2>1. (k - 1) * b >= 0
    BY <1>1
  <2>. QED BY <2>1
<1>2. CASE k <= -1
  <2>1. (-1 - k) * b >= 0
    BY <1>2
  <2>. QED BY <2>1
<1>3. CASE k = 0
  BY <1>3
<1>. QED BY <1>1, <1>2, <1>3

LEMMA Quotients ==
  ASSUME NEW b \in Nat \ {0}, NEW v \in Nat
  PROVE  /\ v = (v \div b) * b + (v % b)
         /\ v \div b \in Nat /\ v % b \in 0 .. b - 1
<1>1. v \div b \in Int /\ v % b \in 0 .. b - 1
  OBVIOUS
<1>2. v = b * (v \div b) + (v % b)
  BY Z3
<1>3. PICK d \in Int : d = v \div b
  BY <1>1
<1>4. d <= -1 => d * b <= -b
  BY Multiples
<1>5. PICK m \in 0 .. b - 1 : m = v % b
  BY <1>1
<1>6. v = d * b + m
  <2>1. b * d = d * b
    OBVIOUS
  <2>. QED BY <1>2, <1>3, <1>5, <2>1
<1>7. d \in Nat
  <2>1. d <= -1 => v < 0
    BY <1>4, <1>6
  <2>. QED BY <2>1
<1>8. v = (v \div b) * b + (v % b)
  BY ONLY <1>3, <1>5, <1>6, Zenon
<1>9. v \div b \in Nat
  BY ONLY <1>3, <1>7, Zenon
<1>. QED BY ONLY <1>1, <1>8, <1>9, Zenon

LEMMA QuotientIsUnique ==
  ASSUME NEW b \in Nat \ {0}, NEW q \in Int, NEW r \in 0 .. b - 1, NEW v \in Nat, v = q * b + r
  PROVE  v \div b = q /\ v % b = r
<1>1. /\ v = (v \div b) * b + (v % b)
      /\ v \div b \in Int /\ v % b \in 0 .. b - 1
  BY Quotients
<1>2. PICK d \in Int : d = q - (v \div b)
  BY <1>1
<1>3. d * b = (v % b) - r
  BY <1>1, <1>2
<1>4. d >= 1 => d * b >= b
  BY Multiples
<1>5. d <= -1 => d * b <= -b
  BY Multiples
<1>6. d = 0
  BY <1>1, <1>3, <1>4, <1>5
<1>. QED BY <1>1, <1>2, <1>3, <1>6

LEMMA NumbersAreBits ==
  /\ Capacity \in Nat \ {0}
  /\ \A v \in 0 .. Capacity - 1 : v \div ByteBits \in 0 .. Nb - 1 /\ v % ByteBits \in 0 .. ByteBits - 1
  /\ \A i \in 0 .. Nb - 1, b \in 0 .. ByteBits - 1 :
       /\ i * ByteBits + b \in 0 .. Capacity - 1
       /\ (i * ByteBits + b) \div ByteBits = i /\ (i * ByteBits + b) % ByteBits = b
<1>. USE SetShape
<1>1. Capacity \in Nat /\ Capacity >= Nb
  BY Multiples DEF Capacity
<1>2. ASSUME NEW v \in 0 .. Capacity - 1
      PROVE  v \div ByteBits \in 0 .. Nb - 1 /\ v % ByteBits \in 0 .. ByteBits - 1
  <2>1. /\ v = (v \div ByteBits) * ByteBits + (v % ByteBits)
        /\ v \div ByteBits \in Nat /\ v % ByteBits \in 0 .. ByteBits - 1
    BY <1>1, Quotients
  <2>2. PICK q \in Nat, m \in 0 .. ByteBits - 1 : q = v \div ByteBits /\ m = v % ByteBits
    BY ONLY <2>1
  <2>3. v = q * ByteBits + m
    BY ONLY <2>1, <2>2, Zenon
  <2>4. PICK d \in Int : d = q - Nb
    OBVIOUS
  <2>5. d >= 0 => d * ByteBits >= 0
    OBVIOUS
  <2>6. d * ByteBits = q * ByteBits - Capacity
    BY <2>4 DEF Capacity
  <2>7. v < Capacity /\ q * ByteBits \in Int
    BY <1>1
  <2>8. q \in 0 .. Nb - 1
    BY ONLY <2>3, <2>4, <2>5, <2>6, <2>7, <1>1, SetShape, q \in Nat, m \in 0 .. ByteBits - 1
  <2>. QED BY ONLY <2>1, <2>2, <2>8, Zenon
<1>3. ASSUME NEW i \in 0 .. Nb - 1, NEW b \in 0 .. ByteBits - 1
      PROVE  /\ i * ByteBits + b \in 0 .. Capacity - 1
             /\ (i * ByteBits + b) \div ByteBits = i /\ (i * ByteBits + b) % ByteBits = b
  <2>1. PICK d \in Int : d = Nb - i
    OBVIOUS
  <2>2. d * ByteBits >= ByteBits
    BY <2>1, Multiples
  <2>3. i * ByteBits >= 0 /\ i * ByteBits \in Int
    OBVIOUS
  <2>4. i * ByteBits + b \in 0 .. Capacity - 1
    <3>1. d * ByteBits = Capacity - i * ByteBits
      BY <2>1 DEF Capacity
    <3>. QED BY <3>1, <2>2, <2>3, <1>1
  <2>5. PICK v \in Nat : v = i * ByteBits + b
    BY <2>4, <1>1
  <2>. QED BY <2>4, <2>5, QuotientIsUnique
<1>. QED BY <1>1, <1>2, <1>3

LEMMA MembersAreBits ==
  ASSUME NEW s \in Bitmaps, NEW i \in 0 .. Nb - 1, NEW b \in 0 .. ByteBits - 1
  PROVE  b \in s[i] <=> i * ByteBits + b \in Members(s)
BY NumbersAreBits DEF Members

LEMMA BytesAreMembers ==
  ASSUME NEW a \in Bitmaps, NEW b \in Bitmaps
  PROVE  /\ (\A i \in 0 .. Nb - 1 : a[i] \subseteq b[i]) <=> Members(a) \subseteq Members(b)
         /\ (\A i \in 0 .. Nb - 1 : a[i] = b[i]) <=> Members(a) = Members(b)
<1>1. ASSUME NEW x \in Bitmaps, NEW y \in Bitmaps
      PROVE  (\A i \in 0 .. Nb - 1 : x[i] \subseteq y[i]) <=> Members(x) \subseteq Members(y)
  <2>1. ASSUME \A i \in 0 .. Nb - 1 : x[i] \subseteq y[i]
        PROVE  Members(x) \subseteq Members(y)
    BY <2>1, NumbersAreBits DEF Members
  <2>2. ASSUME Members(x) \subseteq Members(y), NEW i \in 0 .. Nb - 1, NEW e \in x[i]
        PROVE  e \in y[i]
    <3>1. e \in 0 .. ByteBits - 1
      BY DEF Bitmaps, Bytes
    <3>. QED BY <2>2, <3>1, MembersAreBits
  <2>. QED BY <2>1, <2>2
<1>2. (\A i \in 0 .. Nb - 1 : a[i] = b[i])
      <=> (\A i \in 0 .. Nb - 1 : a[i] \subseteq b[i]) /\ (\A i \in 0 .. Nb - 1 : b[i] \subseteq a[i])
  OBVIOUS
<1>3. Members(a) = Members(b) <=> Members(a) \subseteq Members(b) /\ Members(b) \subseteq Members(a)
  OBVIOUS
<1>. QED BY <1>1, <1>2, <1>3

(***************************************************************************)
(* The operations on bytes are those on sets.                              *)
(***************************************************************************)
LEMMA OperationsAreOnMembers ==
  ASSUME NEW a \in Bitmaps, NEW b \in Bitmaps
  PROVE  /\ Members(union(a, b)) = Members(a) \cup Members(b)
         /\ Members(difference(a, b)) = Members(a) \ Members(b)
         /\ Members(intersection(a, b)) = Members(a) \cap Members(b)
         /\ Members(symmetric_difference(a, b)) =
              (Members(a) \ Members(b)) \cup (Members(b) \ Members(a))
         /\ set_equal(a, b) <=> Members(a) = Members(b)
         /\ subset(a, b) <=> Members(a) \subseteq Members(b)
         /\ union(a, b) \in Bitmaps
<1>1. DOMAIN a = 0 .. Nb - 1 /\ DOMAIN b = 0 .. Nb - 1
  BY DEF Bitmaps
<1>2. \A v \in 0 .. Capacity - 1 : v \div ByteBits \in DOMAIN a
  BY <1>1, NumbersAreBits
<1>3. Members(union(a, b)) = Members(a) \cup Members(b)
  BY <1>2 DEF Members, union
<1>4. Members(difference(a, b)) = Members(a) \ Members(b)
  BY <1>2 DEF Members, difference
<1>5. Members(intersection(a, b)) = Members(a) \cap Members(b)
  BY <1>2 DEF Members, intersection
<1>6. Members(symmetric_difference(a, b)) =
              (Members(a) \ Members(b)) \cup (Members(b) \ Members(a))
  <2>1. \A v \in 0 .. Capacity - 1 :
          symmetric_difference(a, b)[v \div ByteBits]
            = (a[v \div ByteBits] \ b[v \div ByteBits]) \cup (b[v \div ByteBits] \ a[v \div ByteBits])
    BY <1>2 DEF symmetric_difference
  <2>. QED BY <2>1 DEF Members
<1>7. /\ set_equal(a, b) <=> Members(a) = Members(b)
      /\ subset(a, b) <=> Members(a) \subseteq Members(b)
  <2>1. set_equal(a, b) <=> \A i \in 0 .. Nb - 1 : a[i] = b[i]
    BY <1>1 DEF set_equal
  <2>2. subset(a, b) <=> \A i \in 0 .. Nb - 1 : a[i] \subseteq b[i]
    BY <1>1 DEF subset
  <2>. QED BY <2>1, <2>2, BytesAreMembers
<1>8. union(a, b) \in Bitmaps
  <2>1. \A i \in 0 .. Nb - 1 : a[i] \cup b[i] \in Bytes
    BY DEF Bitmaps, Bytes
  <2>2. union(a, b) = [i \in 0 .. Nb - 1 |-> a[i] \cup b[i]]
    BY <1>1 DEF union
  <2>. QED BY <2>1, <2>2 DEF Bitmaps
<1>. QED BY <1>3, <1>4, <1>5, <1>6, <1>7, <1>8

(***************************************************************************)
(* One member.                                                             *)
(***************************************************************************)
LEMMA BitOfMember ==
  ASSUME NEW v \in 0 .. Capacity - 1, NEW w \in 0 .. Capacity - 1,
         v \div ByteBits = w \div ByteBits, v % ByteBits = w % ByteBits
  PROVE  v = w
<1>1. v \in Nat /\ w \in Nat
  BY NumbersAreBits
<1>2. v = (v \div ByteBits) * ByteBits + (v % ByteBits)
  BY <1>1, Quotients, SetShape
<1>3. w = (w \div ByteBits) * ByteBits + (w % ByteBits)
  BY <1>1, Quotients, SetShape
<1>. QED BY ONLY <1>2, <1>3, v \div ByteBits = w \div ByteBits, v % ByteBits = w % ByteBits, Zenon

LEMMA OneMember ==
  ASSUME NEW s \in Bitmaps, NEW c, NEW v \in Int, idx(c, v) = v
  PROVE  /\ contains(s, c, v) <=> v \in Members(s)
         /\ Members(include(s, c, v)) = Members(s) \cup ({v} \cap 0 .. Capacity - 1)
         /\ Members(exclude(s, c, v)) = Members(s) \ {v}
<1>. DEFINE q == v \div ByteBits
            m == v % ByteBits
<1>1. Capacity \in Nat \ {0}
  BY NumbersAreBits
<1>2. CASE v \notin 0 .. Capacity - 1
  <2>1. v < 0 \/ v >= Capacity
    BY <1>1, <1>2
  <2>2. ~contains(s, c, v) /\ include(s, c, v) = s /\ exclude(s, c, v) = s
    BY <2>1, <1>1 DEF contains, include, add, exclude
  <2>3. v \notin Members(s)
    BY <1>2 DEF Members
  <2>. QED BY <1>2, <2>2, <2>3
<1>3. CASE v \in 0 .. Capacity - 1
  <2>1. ~(v < 0) /\ ~(v >= Capacity)
    BY <1>1, <1>3
  <2>2. q \in 0 .. Nb - 1 /\ m \in 0 .. ByteBits - 1
    BY <1>3, NumbersAreBits
  <2>3. contains(s, c, v) <=> v \in Members(s)
    BY <2>1, <1>1, <1>3 DEF contains, Members
  <2>. HIDE DEF q, m
  <2>4. DOMAIN s = 0 .. Nb - 1
    BY DEF Bitmaps
  <2>5. ASSUME NEW w \in 0 .. Capacity - 1
        PROVE  /\ w \div ByteBits \in 0 .. Nb - 1
               /\ (w \div ByteBits = q /\ w % ByteBits = m) <=> w = v
    BY <1>3, NumbersAreBits, BitOfMember DEF q, m
  <2>6. include(s, c, v) = [s EXCEPT ![q] = @ \cup {m}]
    BY <2>1 DEF include, add, q, m
  <2>7. exclude(s, c, v) = [s EXCEPT ![q] = @ \ {m}]
    BY <2>1 DEF exclude, q, m
  <2>8. Members(include(s, c, v)) = Members(s) \cup {v}
    BY <2>2, <2>4, <2>5, <2>6, <1>3 DEF Members
  <2>9. Members(exclude(s, c, v)) = Members(s) \ {v}
    BY <2>2, <2>4, <2>5, <2>7, <1>3 DEF Members
  <2>. QED BY <2>3, <2>8, <2>9, <1>3
<1>. QED BY <1>2, <1>3

(***************************************************************************)
(* A number between two that an element type keeps is kept.                *)
(***************************************************************************)
LEMMA Remainder ==
  ASSUME NEW b \in Nat \ {0}, NEW v \in 0 .. b - 1
  PROVE  v % b = v
<1>1. v = 0 * b + v
  OBVIOUS
<1>. QED BY <1>1, QuotientIsUnique

LEMMA TypesAreRanges ==
  ASSUME NEW c \in [signed : BOOLEAN, size : Nat \ {0}], NEW v \in Nat, NEW high \in Nat,
         v <= high, idx(c, high) = high
  PROVE  idx(c, v) = v
<1>1. PICK u : u = high % c.size
  OBVIOUS
<1>2. u \in 0 .. c.size - 1
  BY <1>1, Quotients
<1>3. high = u
  BY <1>1, <1>2 DEF idx
<1>4. v \in 0 .. c.size - 1
  BY <1>2, <1>3
<1>5. v % c.size = v
  BY <1>4, Remainder
<1>6. c.size \div 2 \in Int
  OBVIOUS
<1>7. ~(c.signed /\ u >= c.size \div 2)
  BY <1>1, <1>2, <1>3 DEF idx
<1>8. ~(c.signed /\ v >= c.size \div 2)
  BY <1>7, <1>3, <1>6
<1>. QED BY <1>5, <1>8 DEF idx

LEMMA LiteralHasItsMembers ==
  ASSUME NEW c \in Carriers, NEW v \in 0 .. Capacity - 1,
         NEW low \in 0 .. Capacity - 1, NEW high \in 0 .. Capacity - 1,
         idx(c, v) = v, idx(c, low) = low, idx(c, high) = high
  PROVE  Members(literal(c, v, low, high)) = {v} \cup low .. high
<1>. DEFINE bits == {idx(c, v)} \cup {idx(c, w) : w \in low .. high}
<1>1. Capacity \in Nat \ {0}
  BY NumbersAreBits
<1>2. ASSUME NEW w \in low .. high
      PROVE  idx(c, w) = w
  <2>1. w \in Nat /\ high \in Nat /\ w <= high
    BY <1>1
  <2>2. c \in [signed : BOOLEAN, size : Nat \ {0}]
    BY CarriersAssumption
  <2>. QED BY <2>1, <2>2, TypesAreRanges
<1>3. bits = {v} \cup low .. high
  BY <1>2
<1>4. bits \subseteq 0 .. Capacity - 1
  BY <1>1, <1>3
<1>. HIDE DEF bits
<1>5. literal(c, v, low, high) =
        [i \in 0 .. Nb - 1 |-> {b \in 0 .. ByteBits - 1 : i * ByteBits + b \in bits}]
  BY DEF literal, bits
<1>6. ASSUME NEW w \in 0 .. Capacity - 1
      PROVE  w \in Members(literal(c, v, low, high)) <=> w \in bits
  <2>1. /\ w \div ByteBits \in 0 .. Nb - 1 /\ w % ByteBits \in 0 .. ByteBits - 1
    BY NumbersAreBits
  <2>2. w = (w \div ByteBits) * ByteBits + (w % ByteBits)
    BY <1>1, Quotients, SetShape
  <2>3. w \in Members(literal(c, v, low, high))
        <=> (w \div ByteBits) * ByteBits + (w % ByteBits) \in bits
    BY <2>1, <1>5 DEF Members
  <2>. QED BY <2>2, <2>3, Zenon
<1>7. Members(literal(c, v, low, high)) \subseteq 0 .. Capacity - 1
  BY DEF Members
<1>. QED BY <1>3, <1>4, <1>6, <1>7

LEMMA LoopVisitsMembers ==
  ASSUME NEW a \in Bitmaps, NEW b \in Bitmaps, NEW l \in Domains, NEW r \in Domains,
         Members(a) \subseteq l.low .. l.high, Members(b) \subseteq r.low .. r.high
  PROVE  LET d == result_domain(l, r)
         IN Iterated(union(a, b), Widest, d.low, d.high) = Members(a) \cup Members(b)
<1>. DEFINE d == result_domain(l, r)
<1>1. Capacity \in Nat \ {0}
  BY NumbersAreBits
<1>2. /\ l.low \in 0 .. Capacity - 1 /\ l.high \in 0 .. Capacity - 1
      /\ r.low \in 0 .. Capacity - 1 /\ r.high \in 0 .. Capacity - 1
  BY DEF Domains
<1>3. /\ d.low \in 0 .. Capacity - 1 /\ d.high \in 0 .. Capacity - 1
      /\ l.low .. l.high \subseteq d.low .. d.high /\ r.low .. r.high \subseteq d.low .. d.high
  BY <1>1, <1>2 DEF result_domain, Holds
<1>. HIDE DEF d
<1>4. ASSUME NEW v \in d.low .. d.high
      PROVE  contains(union(a, b), Widest, v) <=> v \in Members(union(a, b))
  <2>1. v \in Int /\ v \in 0 .. Capacity - 1 /\ v \in Nat
    BY <1>1, <1>3
  <2>2. idx(Widest, v) = v
    <3>1. v % (2 * Capacity) = v
      BY <2>1, <1>1, Remainder
    <3>2. (2 * Capacity) \div 2 = Capacity
      BY <1>1
    <3>. QED BY <3>1, <3>2, <2>1, <1>1 DEF idx, Widest, Carrier
  <2>. QED BY <2>1, <2>2, OneMember, OperationsAreOnMembers
<1>5. Members(union(a, b)) = Members(a) \cup Members(b)
  BY OperationsAreOnMembers
<1>6. Members(a) \cup Members(b) \subseteq d.low .. d.high
  BY <1>3
<1>7. Iterated(union(a, b), Widest, d.low, d.high) = Members(a) \cup Members(b)
  BY <1>4, <1>5, <1>6 DEF Iterated
<1>. QED BY <1>7 DEF d

----------------------------------------------------------------------------
(* What the calls on sets return.                                          *)
LEMMA SetCallsMeanSets ==
  ASSUME SetCall
  PROVE  SetsAreSets'
<1>1. ASSUME NEW a \in Bitmaps, NEW b \in Bitmaps,
             call' = [op |-> "sets", a |-> a, b |-> b, union |-> union(a, b), difference |-> difference(a, b),
                      intersection |-> intersection(a, b), symmetric |-> symmetric_difference(a, b),
                      equal |-> set_equal(a, b), subset |-> subset(a, b), number |-> set_to_int(a, Nb)]
      PROVE  SetsAreSets'
  <2>1. /\ call'.op = "sets" /\ call'.a = a /\ call'.b = b /\ call'.union = union(a, b)
        /\ call'.difference = difference(a, b) /\ call'.intersection = intersection(a, b)
        /\ call'.symmetric = symmetric_difference(a, b)
        /\ call'.equal = set_equal(a, b) /\ call'.subset = subset(a, b)
    BY <1>1
  <2>2. /\ set_equal(a, b) = (Members(a) = Members(b))
        /\ subset(a, b) = (Members(a) \subseteq Members(b))
    BY OperationsAreOnMembers DEF set_equal, subset
  <2>. QED BY <2>1, <2>2, OperationsAreOnMembers DEF SetsAreSets
<1>2. ASSUME NEW a \in Bitmaps, NEW c \in Carriers, NEW v \in -Capacity .. Capacity,
             call' = [op |-> "member", a |-> a, c |-> c, v |-> v, include |-> include(a, c, v),
                      exclude |-> exclude(a, c, v), contains |-> contains(a, c, v)]
      PROVE  SetsAreSets'
  <2>1. /\ call'.op = "member" /\ call'.a = a /\ call'.c = c /\ call'.v = v
        /\ call'.include = include(a, c, v) /\ call'.exclude = exclude(a, c, v)
        /\ call'.contains = contains(a, c, v)
    BY <1>2
  <2>2. v \in Int
    BY NumbersAreBits
  <2>3. contains(a, c, v) \in BOOLEAN
    BY DEF contains
  <2>. QED BY <2>1, <2>2, <2>3, OneMember DEF SetsAreSets
<1>3. ASSUME NEW c \in Carriers, NEW v \in 0 .. Capacity - 1,
             NEW low \in 0 .. Capacity - 1, NEW high \in 0 .. Capacity - 1,
             call' = [op |-> "literal", c |-> c, v |-> v, low |-> low, high |-> high,
                      result |-> literal(c, v, low, high)]
      PROVE  SetsAreSets'
  <2>1. /\ call'.op = "literal" /\ call'.c = c /\ call'.v = v /\ call'.low = low /\ call'.high = high
        /\ call'.result = literal(c, v, low, high)
    BY <1>3
  <2>2. (\A w \in {v, low, high} : idx(c, w) = w)
        => Members(literal(c, v, low, high)) = {v} \cup low .. high
    BY LiteralHasItsMembers
  <2>. QED BY <2>1, <2>2 DEF SetsAreSets
<1>4. ASSUME NEW a \in Bitmaps, NEW b \in Bitmaps, NEW l \in Domains, NEW r \in Domains,
             Members(a) \subseteq l.low .. l.high, Members(b) \subseteq r.low .. r.high,
             call' = [op |-> "loop", a |-> a, b |-> b,
                      visited |-> Iterated(union(a, b), Widest, result_domain(l, r).low, result_domain(l, r).high)]
      PROVE  SetsAreSets'
  <2>1. Iterated(union(a, b), Widest, result_domain(l, r).low, result_domain(l, r).high)
          = Members(a) \cup Members(b)
    BY <1>4, LoopVisitsMembers
  <2>. QED BY <1>4, <2>1 DEF SetsAreSets
<1>. QED BY <1>1, <1>2, <1>3, <1>4 DEF SetCall

\* The other calls are of other operations.
SetOperations == {"sets", "member", "literal", "loop"}
LEMMA OtherCallsAreOther ==
         /\ StringCall \/ InsertCall \/ SubstringCall \/ BufferCall => call'.op \notin SetOperations
         /\ NumberCall \/ TimeCall => call'.op \notin SetOperations
         /\ CommandCall \/ PathCall \/ CaseCall => call'.op \notin SetOperations
<1>1. StringCall => call'.op \notin SetOperations
  BY DEF StringCall, SetOperations
<1>9. InsertCall => call'.op \notin SetOperations
  BY DEF InsertCall, SetOperations
<1>2. SubstringCall => call'.op \notin SetOperations
  BY DEF SubstringCall, SetOperations
<1>3. BufferCall => call'.op \notin SetOperations
  BY DEF BufferCall, SetOperations
<1>4. NumberCall => call'.op \notin SetOperations
  BY DEF NumberCall, SetOperations
<1>5. TimeCall => call'.op \notin SetOperations
  BY DEF TimeCall, SetOperations
<1>6. CommandCall => call'.op \notin SetOperations
  BY DEF CommandCall, SetOperations
<1>7. PathCall => call'.op \notin SetOperations
  BY DEF PathCall, SetOperations
<1>8. CaseCall => call'.op \notin SetOperations
  BY DEF CaseCall, SetOperations
<1>. QED BY <1>1, <1>2, <1>3, <1>4, <1>5, <1>6, <1>7, <1>8, <1>9

(* Bitmaps are sets: whatever operation a program calls on sets, for any number of
   bytes and bits and any element types, the result has the members that the set
   operation means, and a loop visits all of them.
   (tp2cc_Set, bind_set_binary_operation, emit_for_in_builtin_set.) *)
THEOREM SetsCorrect == Spec => []SetsAreSets
<1>1. Init => SetsAreSets
  BY DEF Init, Idle, SetsAreSets
<1>2. SetsAreSets /\ [Next]_valueVars => SetsAreSets'
  <2>. SUFFICES ASSUME SetsAreSets, [Next]_valueVars PROVE SetsAreSets'
    OBVIOUS
  <2>1. CASE call' = call
    BY <2>1 DEF SetsAreSets
  <2>2. CASE SetCall
    BY <2>2, SetCallsMeanSets
  <2>3. CASE call'.op \notin SetOperations
    BY <2>3 DEF SetsAreSets, SetOperations
  <2>. QED BY <2>1, <2>2, <2>3, OtherCallsAreOther DEF Next, Call, valueVars
<1>. QED BY <1>1, <1>2, PTL DEF Spec

----------------------------------------------------------------------------
(* Short strings and buffers.  A text is a sequence of characters, and what *)
(* an object holds is the part of its storage that its length tells.  What *)
(* the storage has after that part is left by earlier values, and every    *)
(* lemma here is for whatever is there.                                    *)
Text == Seq(Nat)
IsObject(o) == o.data \in Text /\ o.length \in 0 .. Len(o.data)

\* A set of numbers with a member has a smallest one.
LEMMA Smallest ==
  ASSUME NEW R \in SUBSET Nat, R # {}
  PROVE  \E k \in R : \A j \in R : k <= j
<1>1. PICK Below : Below = {ss \in Nat \X Nat : ss[1] < ss[2]}
  OBVIOUS
<1>2. IsWellFoundedOn(Below, Nat)
  BY <1>1, NatLessThanWellFounded DEF OpToRel
<1>3. PICK k \in R : \A j \in R : ~(<<j, k>> \in Below)
  BY <1>2, WFMin
<1>4. ASSUME NEW j \in R PROVE k <= j
  <2>1. j < k => <<j, k>> \in Below
    BY <1>1, <1>3
  <2>. QED BY <2>1, <1>3
<1>. QED BY <1>3, <1>4

\* Texts with the same characters at the same places are one.
LEMMA SameText ==
  ASSUME NEW s \in Text, NEW t \in Text, Len(s) = Len(t), \A i \in 1 .. Len(s) : s[i] = t[i]
  PROVE  s = t
BY SeqEqual DEF Text

LEMMA TextFacts ==
  ASSUME NEW s \in Text
  PROVE  Len(s) \in Nat /\ DOMAIN s = 1 .. Len(s) /\ \A i \in 1 .. Len(s) : s[i] \in Nat
BY DEF Text

LEMMA TextIsAFunction ==
  ASSUME NEW s \in Text
  PROVE  s = [i \in 1 .. Len(s) |-> s[i]]
BY DEF Text

LEMMA PartFacts ==
  ASSUME NEW s \in Text, NEW a \in Nat \ {0}, NEW b \in Int, b <= Len(s) \/ b < a
  PROVE  /\ SubSeq(s, a, b) \in Text
         /\ Len(SubSeq(s, a, b)) = IF a <= b THEN b - a + 1 ELSE 0
         /\ \A i \in 1 .. b - a + 1 : SubSeq(s, a, b)[i] = s[a + i - 1]
<1>1. \A i \in a .. b : s[i] \in Nat
  BY TextFacts
<1>. QED BY <1>1, SubSeqProperties DEF Text

LEMMA PartText ==
  ASSUME NEW s \in Text, NEW a \in Nat \ {0}, NEW b \in Int
  PROVE  LET e == Least(b, Len(s))
         IN /\ Part(s, a, b) \in Text
            /\ Len(Part(s, a, b)) = IF a <= e THEN e - a + 1 ELSE 0
            /\ \A i \in 1 .. e - a + 1 : Part(s, a, b)[i] = s[a + i - 1]
<1>1. Least(b, Len(s)) \in Int /\ Least(b, Len(s)) <= Len(s)
  BY TextFacts DEF Least
<1>. QED BY <1>1, PartFacts DEF Part

LEMMA CutFacts ==
  ASSUME NEW t \in Text, NEW n \in Nat
  PROVE  /\ Cut(t, n) = SubSeq(t, 1, Least(Len(t), n))
         /\ Cut(t, n) \in Text /\ Len(Cut(t, n)) = Least(Len(t), n)
         /\ \A i \in 1 .. Least(Len(t), n) : Cut(t, n)[i] = t[i]
<1>1. PICK e \in Nat : e = Least(n, Len(t)) /\ e = Least(Len(t), n) /\ e <= Len(t)
  BY TextFacts DEF Least
<1>2. Cut(t, n) = SubSeq(t, 1, e)
  BY <1>1 DEF Cut, Part
<1>3. /\ SubSeq(t, 1, e) \in Text /\ Len(SubSeq(t, 1, e)) = IF 1 <= e THEN e - 1 + 1 ELSE 0
      /\ \A i \in 1 .. e - 1 + 1 : SubSeq(t, 1, e)[i] = t[1 + i - 1]
  BY <1>1, PartFacts
<1>4. e - 1 + 1 = e /\ (\A i \in 1 .. e : 1 + i - 1 = i) /\ (~(1 <= e) => e = 0)
  OBVIOUS
<1>. QED BY <1>1, <1>2, <1>3, <1>4

LEMMA JoinFacts ==
  ASSUME NEW s \in Text, NEW t \in Text
  PROVE  /\ s \o t \in Text /\ Len(s \o t) = Len(s) + Len(t)
         /\ \A i \in 1 .. Len(s) + Len(t) :
              (s \o t)[i] = IF i <= Len(s) THEN s[i] ELSE t[i - Len(s)]
BY ConcatProperties DEF Text

\* What an object holds is a text, of its length and its first characters.
LEMMA ValueFacts ==
  ASSUME NEW o, IsObject(o)
  PROVE  /\ Value(o) \in Text /\ Len(Value(o)) = o.length
         /\ \A i \in 1 .. o.length : Value(o)[i] = o.data[i]
         /\ N(o) = Len(o.data) /\ N(o) \in Nat /\ o.length \in 0 .. N(o)
<1>1. o.data \in Text /\ o.length \in 0 .. Len(o.data) /\ Len(o.data) \in Nat
  BY TextFacts DEF IsObject
<1>. QED BY <1>1, PartFacts DEF Value, N

\* A string made of a text holds it up to its capacity (tp2cc_shortstring_of).
LEMMA OfTextFacts ==
  ASSUME NEW n \in Nat, NEW t \in Text
  PROVE  /\ IsObject(shortstring_of(n, t)) /\ N(shortstring_of(n, t)) = n
         /\ Value(shortstring_of(n, t)) = Cut(t, n)
<1>1. PICK d : d = [i \in 1 .. n |-> IF i <= Len(t) THEN t[i] ELSE 0]
  OBVIOUS
<1>2. d \in Text /\ Len(d) = n /\ \A i \in 1 .. n : d[i] = IF i <= Len(t) THEN t[i] ELSE 0
  BY <1>1, TextFacts DEF Text
<1>3. PICK o : o = shortstring_of(n, t)
  OBVIOUS
<1>4. o.data = d /\ o.length = Least(Len(t), n)
  BY <1>1, <1>3 DEF shortstring_of
<1>5. IsObject(o) /\ N(o) = n
  BY <1>2, <1>4, TextFacts DEF IsObject, Least, N
<1>6. Value(o) = Cut(t, n)
  <2>1. /\ Cut(t, n) \in Text /\ Len(Cut(t, n)) = Least(Len(t), n)
        /\ \A i \in 1 .. Least(Len(t), n) : Cut(t, n)[i] = t[i]
    BY CutFacts
  <2>2. /\ Value(o) \in Text /\ Len(Value(o)) = Least(Len(t), n)
        /\ \A i \in 1 .. Least(Len(t), n) : Value(o)[i] = t[i]
    BY <1>2, <1>4, <1>5, ValueFacts, TextFacts DEF Least
  <2>. QED BY <2>1, <2>2, SameText
<1>. QED BY <1>3, <1>5, <1>6

LEMMA AssignTextFacts ==
  ASSUME NEW s, IsObject(s), NEW t \in Text
  PROVE  /\ IsObject(shortstring_assign(s, t)) /\ N(shortstring_assign(s, t)) = N(s)
         /\ Value(shortstring_assign(s, t)) = Cut(t, N(s))
<1>1. s.data \in Text /\ Len(s.data) = N(s) /\ N(s) \in Nat /\ DOMAIN s.data = 1 .. N(s)
  BY ValueFacts, TextFacts DEF IsObject
<1>2. PICK cut : cut = SubSeq(t, 1, Least(Len(t), N(s)))
  OBVIOUS
<1>3. cut = Cut(t, N(s)) /\ cut \in Text /\ Len(cut) = Least(Len(t), N(s))
  BY <1>1, <1>2, CutFacts
<1>4. PICK d : d = [i \in 1 .. N(s) |-> IF i <= Len(cut) THEN cut[i] ELSE s.data[i]]
  OBVIOUS
<1>5. /\ d \in Text /\ Len(d) = N(s)
      /\ \A i \in 1 .. N(s) : d[i] = IF i <= Len(cut) THEN cut[i] ELSE s.data[i]
  BY <1>1, <1>3, <1>4, TextFacts DEF Text
<1>6. PICK o : o = shortstring_assign(s, t)
  OBVIOUS
<1>7. o.data = d /\ o.length = Len(cut)
  BY <1>1, <1>2, <1>4, <1>6 DEF shortstring_assign, Overwritten
<1>8. IsObject(o) /\ N(o) = N(s)
  BY <1>1, <1>3, <1>5, <1>7, TextFacts DEF IsObject, Least, N
<1>9. Value(o) = cut
  <2>1. PICK l \in Nat : l = Len(cut) /\ l <= N(s)
    BY <1>1, <1>3, TextFacts DEF Least
  <2>2. Value(o) \in Text /\ Len(Value(o)) = l /\ \A i \in 1 .. l : Value(o)[i] = d[i]
    BY <1>7, <1>8, <2>1, ValueFacts
  <2>3. \A i \in 1 .. l : i \in 1 .. N(s) /\ i <= l
    BY <1>1, <2>1
  <2>4. \A i \in 1 .. l : Value(o)[i] = cut[i]
    BY <1>5, <2>1, <2>2, <2>3
  <2>. QED BY <1>3, <2>1, <2>2, <2>4, SameText
<1>. QED BY <1>3, <1>6, <1>8, <1>9

LEMMA CutFits ==
  ASSUME NEW t \in Text, NEW n \in Nat, NEW m \in Nat, Least(Len(t), n) = Least(Len(t), m)
  PROVE  Cut(t, n) = Cut(t, m)
<1>1. Cut(t, n) = SubSeq(t, 1, Least(Len(t), n)) /\ Cut(t, m) = SubSeq(t, 1, Least(Len(t), m))
  BY CutFacts
<1>. QED BY <1>1

LEMMA CutWhole ==
  ASSUME NEW t \in Text, NEW n \in Nat, Len(t) <= n
  PROVE  Cut(t, n) = t
<1>1. Least(Len(t), n) = Len(t)
  BY TextFacts DEF Least
<1>. QED BY <1>1, CutFacts, SameText

LEMMA AssignFacts ==
  ASSUME NEW d, IsObject(d), NEW s, IsObject(s)
  PROVE  Value(Assign(d, s)) = Cut(Value(s), N(d)) /\ N(Assign(d, s)) = N(d)
<1>1. CASE N(d) = N(s)
  BY <1>1, ValueFacts, CutWhole DEF Assign
<1>2. CASE N(d) # N(s)
  BY <1>2, ValueFacts, OfTextFacts DEF Assign
<1>. QED BY <1>1, <1>2

LEMMA ConcatFacts ==
  ASSUME NEW a, IsObject(a), NEW b, IsObject(b)
  PROVE  Value(concat(a, b)) = Cut(Value(a) \o Value(b), Classic)
<1>1. PICK t : t = Value(a) \o Value(b)
  OBVIOUS
<1>2. t \in Text /\ Len(t) \in Nat /\ Len(t) <= N(a) + N(b) /\ N(a) \in Nat /\ N(b) \in Nat
  <2>1. /\ Value(a) \in Text /\ Len(Value(a)) = a.length /\ N(a) \in Nat /\ a.length \in 0 .. N(a)
        /\ Value(b) \in Text /\ Len(Value(b)) = b.length /\ N(b) \in Nat /\ b.length \in 0 .. N(b)
    BY ValueFacts
  <2>2. t \in Text /\ Len(t) = Len(Value(a)) + Len(Value(b))
    BY <1>1, <2>1, JoinFacts
  <2>. QED BY <2>1, <2>2, TextFacts
<1>3. PICK n : n = Least(N(a) + N(b), Classic)
  OBVIOUS
<1>4. n \in Nat /\ Classic \in Nat /\ Least(Len(t), n) = Least(Len(t), Classic)
  BY <1>2, <1>3, ClassicAssumption DEF Least, ClassicAssumption
<1>5. Value(shortstring_of(n, t)) = Cut(t, Classic)
  BY <1>2, <1>4, OfTextFacts, CutFits
<1>. QED BY <1>1, <1>3, <1>5 DEF concat

LEMMA EqualIsTheSameText ==
  ASSUME NEW a, IsObject(a), NEW b, IsObject(b)
  PROVE  equal(a, b) <=> Value(a) = Value(b)
<1>1. /\ Value(a) \in Text /\ Len(Value(a)) = a.length /\ \A i \in 1 .. a.length : Value(a)[i] = a.data[i]
      /\ Value(b) \in Text /\ Len(Value(b)) = b.length /\ \A i \in 1 .. b.length : Value(b)[i] = b.data[i]
  BY ValueFacts
<1>2. equal(a, b) => Value(a) = Value(b)
  BY <1>1, SameText DEF equal
<1>3. ASSUME Value(a) = Value(b) PROVE equal(a, b)
  <2>1. a.length = b.length
    BY <1>1, <1>3
  <2>. QED BY <1>1, <1>3, <2>1 DEF equal
<1>. QED BY <1>2, <1>3

----------------------------------------------------------------------------
(* The order of texts: that of the first characters that differ.           *)
LEMMA SamePrefix ==
  ASSUME NEW x \in Text, NEW y \in Text, NEW k \in Nat, k <= Len(x), k <= Len(y)
  PROVE  SubSeq(x, 1, k) = SubSeq(y, 1, k) <=> \A i \in 1 .. k : x[i] = y[i]
<1>0. k - 1 + 1 = k /\ (\A i \in 1 .. k : 1 + i - 1 = i) /\ (~(1 <= k) => k = 0)
  OBVIOUS
<1>1. /\ SubSeq(x, 1, k) \in Text /\ Len(SubSeq(x, 1, k)) = IF 1 <= k THEN k - 1 + 1 ELSE 0
      /\ \A i \in 1 .. k - 1 + 1 : SubSeq(x, 1, k)[i] = x[1 + i - 1]
      /\ SubSeq(y, 1, k) \in Text /\ Len(SubSeq(y, 1, k)) = IF 1 <= k THEN k - 1 + 1 ELSE 0
      /\ \A i \in 1 .. k - 1 + 1 : SubSeq(y, 1, k)[i] = y[1 + i - 1]
  BY PartFacts
<1>2. /\ Len(SubSeq(x, 1, k)) = k /\ \A i \in 1 .. k : SubSeq(x, 1, k)[i] = x[i]
      /\ Len(SubSeq(y, 1, k)) = k /\ \A i \in 1 .. k : SubSeq(y, 1, k)[i] = y[i]
  BY <1>0, <1>1
<1>3. (\A i \in 1 .. k : x[i] = y[i]) => SubSeq(x, 1, k) = SubSeq(y, 1, k)
  BY <1>1, <1>2, SameText
<1>4. ASSUME SubSeq(x, 1, k) = SubSeq(y, 1, k), NEW i \in 1 .. k PROVE x[i] = y[i]
  BY <1>2, <1>4
<1>. QED BY <1>3, <1>4

LEMMA BeforeMeans ==
  ASSUME NEW x \in Text, NEW y \in Text
  PROVE  Before(x, y) <=> \E k \in 0 .. Len(y) - 1 :
           /\ k <= Len(x) /\ \A i \in 1 .. k : x[i] = y[i]
           /\ k = Len(x) \/ x[k + 1] < y[k + 1]
<1>1. Len(x) \in Nat /\ Len(y) \in Nat
  BY TextFacts
<1>2. \A k \in 0 .. Least(Len(x), Len(y)) : k \in Nat /\ k <= Len(x) /\ k <= Len(y)
  BY <1>1 DEF Least
<1>3. \A k \in 0 .. Least(Len(x), Len(y)) : SubSeq(x, 1, k) = SubSeq(y, 1, k) <=> \A i \in 1 .. k : x[i] = y[i]
  BY <1>2, SamePrefix
<1>4. ASSUME Before(x, y)
      PROVE  \E k \in 0 .. Len(y) - 1 : /\ k <= Len(x) /\ \A i \in 1 .. k : x[i] = y[i]
                                        /\ k = Len(x) \/ x[k + 1] < y[k + 1]
  <2>1. PICK k \in 0 .. Least(Len(x), Len(y)) : /\ SubSeq(x, 1, k) = SubSeq(y, 1, k)
                                                /\ k < Len(y) /\ (k = Len(x) \/ x[k + 1] < y[k + 1])
    BY <1>4 DEF Before
  <2>. QED BY <2>1, <1>1, <1>2, <1>3
<1>5. ASSUME NEW k \in 0 .. Len(y) - 1, k <= Len(x), \A i \in 1 .. k : x[i] = y[i], k = Len(x) \/ x[k + 1] < y[k + 1]
      PROVE  Before(x, y)
  <2>1. k \in 0 .. Least(Len(x), Len(y)) /\ k < Len(y)
    BY <1>1, <1>5 DEF Least
  <2>. QED BY <2>1, <1>3, <1>5 DEF Before
<1>. QED BY <1>4, <1>5

LEMMA FirstDifference ==
  ASSUME NEW x \in Text, NEW y \in Text, NEW f \in Nat \ {0}, f <= Len(x), f <= Len(y),
         x[f] # y[f], \A i \in 1 .. f - 1 : x[i] = y[i]
  PROVE  Before(x, y) <=> x[f] < y[f]
<1>1. Len(x) \in Nat /\ Len(y) \in Nat
  BY TextFacts
<1>2. ASSUME Before(x, y) PROVE x[f] < y[f]
  <2>1. PICK k \in 0 .. Len(y) - 1 : /\ k <= Len(x) /\ \A i \in 1 .. k : x[i] = y[i]
                                     /\ k = Len(x) \/ x[k + 1] < y[k + 1]
    BY <1>2, BeforeMeans
  <2>2. k < f
    <3>1. f <= k => f \in 1 .. k
      BY <1>1
    <3>. QED BY <3>1, <2>1, <1>1
  <2>3. x[k + 1] < y[k + 1]
    BY <1>1, <2>1, <2>2
  <2>4. k + 1 = f
    <3>1. k + 1 < f => k + 1 \in 1 .. f - 1
      BY <2>1
    <3>2. k + 1 < f => x[k + 1] = y[k + 1] /\ k + 1 \in 1 .. Len(x)
      BY <3>1, <1>1
    <3>3. k + 1 < f => x[k + 1] \in Nat
      BY <3>2, TextFacts
    <3>. QED BY <3>2, <3>3, <2>2, <2>3
  <2>. QED BY <2>3, <2>4
<1>3. ASSUME x[f] < y[f] PROVE Before(x, y)
  <2>1. f - 1 \in 0 .. Len(y) - 1 /\ f - 1 <= Len(x) /\ f - 1 + 1 = f
    BY <1>1
  <2>. QED BY <2>1, <1>3, BeforeMeans
<1>. QED BY <1>2, <1>3

LEMMA NoDifference ==
  ASSUME NEW x \in Text, NEW y \in Text, \A i \in 1 .. Least(Len(x), Len(y)) : x[i] = y[i]
  PROVE  Before(x, y) <=> Len(x) < Len(y)
<1>1. Len(x) \in Nat /\ Len(y) \in Nat
  BY TextFacts
<1>2. ASSUME Before(x, y) PROVE Len(x) < Len(y)
  <2>1. PICK k \in 0 .. Len(y) - 1 : /\ k <= Len(x) /\ \A i \in 1 .. k : x[i] = y[i]
                                     /\ k = Len(x) \/ x[k + 1] < y[k + 1]
    BY <1>2, BeforeMeans
  <2>2. k # Len(x) => k + 1 \in 1 .. Least(Len(x), Len(y)) /\ k + 1 \in 1 .. Len(x)
    BY <1>1, <2>1 DEF Least
  <2>3. k # Len(x) => x[k + 1] = y[k + 1] /\ x[k + 1] \in Nat
    BY <2>2, TextFacts
  <2>. QED BY <1>1, <2>1, <2>3
<1>3. ASSUME Len(x) < Len(y) PROVE Before(x, y)
  <2>1. Len(x) \in 0 .. Len(y) - 1 /\ Least(Len(x), Len(y)) = Len(x)
    BY <1>1, <1>3 DEF Least
  <2>. QED BY <2>1, <1>1, BeforeMeans
<1>. QED BY <1>2, <1>3

LEMMA LessIsBefore ==
  ASSUME NEW a, IsObject(a), NEW b, IsObject(b)
  PROVE  less(a, b) \in BOOLEAN /\ (less(a, b) <=> Before(Value(a), Value(b)))
<1>1. PICK x \in Text : x = Value(a) /\ Len(x) = a.length /\ \A i \in 1 .. a.length : x[i] = a.data[i]
  BY ValueFacts
<1>2. PICK y \in Text : y = Value(b) /\ Len(y) = b.length /\ \A i \in 1 .. b.length : y[i] = b.data[i]
  BY ValueFacts
<1>3. a.length \in Nat /\ b.length \in Nat
  BY <1>1, <1>2, TextFacts
<1>4. PICK m : m = Least(a.length, b.length)
  OBVIOUS
<1>5. m \in Nat /\ m <= a.length /\ m <= b.length
  BY <1>3, <1>4 DEF Least
<1>6. \A i \in 1 .. m : x[i] = a.data[i] /\ y[i] = b.data[i]
  BY <1>1, <1>2, <1>3, <1>5
<1>7. PICK differ \in SUBSET (1 .. m) : differ = {i \in 1 .. m : a.data[i] # b.data[i]}
  OBVIOUS
<1>8. CASE differ = {}
  <2>1. \A i \in 1 .. Least(Len(x), Len(y)) : x[i] = y[i]
    BY <1>1, <1>2, <1>4, <1>6, <1>7, <1>8
  <2>2. less(a, b) = (a.length < b.length)
    BY <1>4, <1>7, <1>8 DEF less
  <2>3. (a.length < b.length) \in BOOLEAN
    BY <1>3
  <2>. QED BY <2>1, <2>2, <2>3, <1>1, <1>2, NoDifference
<1>9. CASE differ # {}
  <2>1. PICK f : f = CHOOSE i \in differ : \A j \in differ : i <= j
    OBVIOUS
  <2>2. f \in differ /\ \A j \in differ : f <= j
    <3>1. differ \in SUBSET Nat
      BY <1>7, <1>5
    <3>. QED BY <3>1, <2>1, <1>9, Smallest
  <2>3. less(a, b) = (a.data[f] < b.data[f])
    BY <1>4, <1>7, <1>9, <2>1 DEF less
  <2>4. f \in 1 .. m /\ f \in Nat \ {0} /\ f <= Len(x) /\ f <= Len(y)
    BY <1>1, <1>2, <1>3, <1>5, <1>7, <2>2
  <2>5. x[f] = a.data[f] /\ y[f] = b.data[f] /\ x[f] # y[f]
    BY <1>6, <1>7, <2>2, <2>4
  <2>6. ASSUME NEW i \in 1 .. f - 1 PROVE x[i] = y[i]
    <3>1. i \in 1 .. m /\ ~(f <= i)
      BY <1>5, <2>4
    <3>2. i \notin differ
      BY <2>2, <3>1
    <3>. QED BY <3>1, <3>2, <1>6, <1>7
  <2>7. Before(x, y) <=> x[f] < y[f]
    BY <2>4, <2>5, <2>6, FirstDifference
  <2>8. x[f] \in Nat /\ y[f] \in Nat
    BY <2>4, TextFacts
  <2>9. (x[f] < y[f]) \in BOOLEAN
    BY <2>8
  <2>. QED BY <2>3, <2>5, <2>7, <2>9, <1>1, <1>2
<1>. QED BY <1>8, <1>9

----------------------------------------------------------------------------
(* Finding, inserting, copying and deleting parts of a text.               *)
\* w is x and then y.
Joins(w, x, y) ==
  /\ w \in Text /\ Len(w) = Len(x) + Len(y)
  /\ \A i \in 1 .. Len(x) : w[i] = x[i]
  /\ \A i \in 1 .. Len(y) : w[Len(x) + i] = y[i]
JoinsThree(w, x, y, z) ==
  /\ w \in Text /\ Len(w) = Len(x) + Len(y) + Len(z)
  /\ \A i \in 1 .. Len(x) : w[i] = x[i]
  /\ \A i \in 1 .. Len(y) : w[Len(x) + i] = y[i]
  /\ \A i \in 1 .. Len(z) : w[Len(x) + Len(y) + i] = z[i]

LEMMA Join ==
  ASSUME NEW x \in Text, NEW y \in Text
  PROVE  Joins(x \o y, x, y)
<1>1. Len(x) \in Nat /\ Len(y) \in Nat
  BY TextFacts
<1>2. ASSUME NEW i \in 1 .. Len(x) PROVE (x \o y)[i] = x[i]
  BY <1>1, JoinFacts
<1>3. ASSUME NEW i \in 1 .. Len(y) PROVE (x \o y)[Len(x) + i] = y[i]
  BY <1>1, JoinFacts
<1>. QED BY <1>2, <1>3, JoinFacts DEF Joins

LEMMA JoinThree ==
  ASSUME NEW x \in Text, NEW y \in Text, NEW z \in Text,
         NEW w, w = x \o y \o z
  PROVE  JoinsThree(w, x, y, z)
<1>0. PICK a \in Nat, b \in Nat, c \in Nat : Len(x) = a /\ Len(y) = b /\ Len(z) = c
  BY TextFacts
<1>1. PICK xy : xy = x \o y /\ Joins(xy, x, y)
  BY Join
<1>2. xy \in Text
  BY <1>1 DEF Joins
<1>3. w = xy \o z
  BY <1>1
<1>4. Joins(w, xy, z)
  BY <1>2, <1>3, Join
<1>5. Len(xy) = a + b
  BY <1>0, <1>1 DEF Joins
<1>6. w \in Text /\ Len(w) = a + b + c /\ \A i \in 1 .. c : w[a + b + i] = z[i]
  BY <1>0, <1>4, <1>5 DEF Joins
<1>7. ASSUME NEW i \in 1 .. a + b PROVE w[i] = xy[i]
  BY <1>4, <1>5 DEF Joins
<1>8. ASSUME NEW i \in 1 .. a PROVE w[i] = x[i]
  <2>1. i \in 1 .. a + b
    OBVIOUS
  <2>. QED BY <2>1, <1>0, <1>1, <1>7 DEF Joins
<1>9. ASSUME NEW i \in 1 .. b PROVE w[a + i] = y[i]
  <2>1. a + i \in 1 .. a + b
    OBVIOUS
  <2>2. xy[a + i] = y[i]
    BY <1>0, <1>1 DEF Joins
  <2>. QED BY <2>1, <2>2, <1>7
<1>. QED BY <1>0, <1>6, <1>8, <1>9 DEF JoinsThree

\* pos finds a place where the text is a part, and 0 if there is none.
LEMMA PosIsAPlace ==
  ASSUME NEW s \in Text, NEW d \in Text
  PROVE  IF pos(s, d) = 0 THEN \A i \in 1 .. Len(d) + 1 : Part(d, i, i + Len(s) - 1) # s
         ELSE d = Part(d, 1, pos(s, d) - 1) \o s \o SubSeq(d, pos(s, d) + Len(s), Len(d))
<1>1. Len(s) \in Nat /\ Len(d) \in Nat
  BY TextFacts
<1>2. PICK found \in SUBSET (1 .. Len(d) - Len(s) + 1) :
        found = {i \in 1 .. Len(d) - Len(s) + 1 : SubSeq(d, i, i + Len(s) - 1) = s}
  OBVIOUS
<1>3. CASE found = {}
  <2>1. pos(s, d) = 0
    BY <1>2, <1>3 DEF pos
  <2>2. ASSUME NEW i \in 1 .. Len(d) + 1 PROVE Part(d, i, i + Len(s) - 1) # s
    <3>1. CASE i <= Len(d) - Len(s) + 1
      <4>1. i \in 1 .. Len(d) - Len(s) + 1 /\ Least(i + Len(s) - 1, Len(d)) = i + Len(s) - 1
        BY <1>1, <3>1 DEF Least
      <4>. QED BY <4>1, <1>2, <1>3 DEF Part
    <3>2. CASE ~(i <= Len(d) - Len(s) + 1)
      <4>1. i \in Nat \ {0} /\ i + Len(s) - 1 \in Int /\ Least(i + Len(s) - 1, Len(d)) = Len(d)
        BY <1>1, <3>2 DEF Least
      <4>2. Len(Part(d, i, i + Len(s) - 1)) = IF i <= Len(d) THEN Len(d) - i + 1 ELSE 0
        BY <4>1, PartFacts, <1>1 DEF Part
      <4>. QED BY <4>2, <1>1, <3>2
    <3>. QED BY <3>1, <3>2
  <2>. QED BY <2>1, <2>2
<1>4. CASE found # {}
  <2>1. PICK p : p = CHOOSE i \in found : \A j \in found : i <= j
    OBVIOUS
  <2>2. p \in found
    <3>1. found \in SUBSET Nat
      BY <1>2, <1>1
    <3>. QED BY <3>1, <2>1, <1>4, Smallest
  <2>3. pos(s, d) = p
    BY <1>2, <1>4, <2>1 DEF pos
  <2>4. p \in Nat \ {0} /\ p <= Len(d) - Len(s) + 1 /\ SubSeq(d, p, p + Len(s) - 1) = s
    BY <1>1, <1>2, <2>2
  <2>5. \A i \in 1 .. Len(s) : s[i] = d[p + i - 1]
    <3>1. p + Len(s) - 1 \in Int /\ p + Len(s) - 1 <= Len(d) /\ p + Len(s) - 1 - p + 1 = Len(s)
      BY <1>1, <2>4
    <3>2. /\ Len(SubSeq(d, p, p + Len(s) - 1)) = Len(s)
          /\ \A i \in 1 .. p + Len(s) - 1 - p + 1 : SubSeq(d, p, p + Len(s) - 1)[i] = d[p + i - 1]
      BY <3>1, <2>4, PartFacts
    <3>. QED BY ONLY <3>1, <3>2, <2>4
  <2>6. PICK before : before = Part(d, 1, p - 1)
    OBVIOUS
  <2>7. before \in Text /\ Len(before) = p - 1 /\ \A i \in 1 .. p - 1 : before[i] = d[i]
    <3>1. p - 1 \in Int /\ Least(p - 1, Len(d)) = p - 1 /\ p - 1 <= Len(d) /\ 1 \in Nat \ {0}
      BY <1>1, <2>4 DEF Least
    <3>2. before = SubSeq(d, 1, p - 1)
      BY <2>6, <3>1 DEF Part
    <3>3. /\ before \in Text /\ Len(before) = IF 1 <= p - 1 THEN p - 1 - 1 + 1 ELSE 0
          /\ \A i \in 1 .. p - 1 - 1 + 1 : before[i] = d[1 + i - 1]
      BY <3>1, <3>2, PartFacts
    <3>4. p - 1 - 1 + 1 = p - 1 /\ (\A i \in 1 .. p - 1 : 1 + i - 1 = i) /\ (~(1 <= p - 1) => p - 1 = 0)
      BY <2>4
    <3>. QED BY <3>3, <3>4
  <2>8. PICK after : after = SubSeq(d, p + Len(s), Len(d))
    OBVIOUS
  <2>9. /\ after \in Text /\ Len(after) = Len(d) - p - Len(s) + 1
        /\ \A i \in 1 .. Len(d) - p - Len(s) + 1 : after[i] = d[p + Len(s) + i - 1]
    <3>1. p + Len(s) \in Nat \ {0} /\ Len(d) - (p + Len(s)) + 1 = Len(d) - p - Len(s) + 1
      BY <1>1, <2>4
    <3>2. /\ after \in Text /\ Len(after) = IF p + Len(s) <= Len(d) THEN Len(d) - (p + Len(s)) + 1 ELSE 0
          /\ \A i \in 1 .. Len(d) - (p + Len(s)) + 1 : after[i] = d[p + Len(s) + i - 1]
      <4>1. Len(d) \in Int /\ Len(d) <= Len(d)
        BY <1>1
      <4>. QED BY <3>1, <4>1, <2>8, PartFacts
    <3>. QED BY <3>1, <3>2, <1>1, <2>4
  <2>10. PICK w : w = before \o s \o after
    OBVIOUS
  <2>11. /\ w \in Text /\ Len(w) = Len(d)
         /\ \A i \in 1 .. p - 1 : w[i] = before[i]
         /\ \A i \in 1 .. Len(s) : w[p - 1 + i] = s[i]
         /\ \A i \in 1 .. Len(d) - p - Len(s) + 1 : w[p - 1 + Len(s) + i] = after[i]
    <3>1. /\ p - 1 \in Nat /\ Len(d) - p - Len(s) + 1 \in Nat
          /\ p - 1 + Len(s) + (Len(d) - p - Len(s) + 1) = Len(d)
      BY <1>1, <2>4
    <3>2. before \in Text /\ Len(before) = p - 1 /\ after \in Text /\ Len(after) = Len(d) - p - Len(s) + 1
      BY <2>7, <2>9
    <3>4. s \in Text
      OBVIOUS
    <3>3. /\ w \in Text /\ Len(w) = p - 1 + Len(s) + (Len(d) - p - Len(s) + 1)
          /\ \A i \in 1 .. p - 1 : w[i] = before[i]
          /\ \A i \in 1 .. Len(s) : w[p - 1 + i] = s[i]
          /\ \A i \in 1 .. Len(d) - p - Len(s) + 1 : w[p - 1 + Len(s) + i] = after[i]
      <4>1. JoinsThree(w, before, s, after)
        BY <3>2, <3>4, <2>10, JoinThree
      <4>. QED BY <3>2, <4>1 DEF JoinsThree
    <3>. QED BY ONLY <3>1, <3>3
  <2>12. \A i \in 1 .. Len(d) : w[i] = d[i]
    <3>. TAKE i \in 1 .. Len(d)
    <3>1. CASE i <= p - 1
      <4>1. i \in 1 .. p - 1
        BY <3>1, <1>1, <2>4
      <4>. QED BY <4>1, <2>11, <2>7
    <3>2. CASE ~(i <= p - 1) /\ i <= p - 1 + Len(s)
      <4>1. i - p + 1 \in 1 .. Len(s) /\ p + (i - p + 1) - 1 = i /\ p - 1 + (i - p + 1) = i
        BY <3>2, <1>1, <2>4
      <4>. QED BY <4>1, <2>5, <2>11
    <3>3. CASE ~(i <= p - 1) /\ ~(i <= p - 1 + Len(s))
      <4>0. i - p + 1 - Len(s) \in Int
        BY <1>1, <2>4
      <4>1. PICK k \in Int : k = i - p + 1 - Len(s)
        BY <4>0
      <4>2. /\ k \in 1 .. Len(d) - p - Len(s) + 1 /\ p + Len(s) + k - 1 = i
            /\ p - 1 + Len(s) + k = i
        BY <3>3, <4>1, <1>1, <2>4
      <4>. QED BY <4>2, <2>9, <2>11
    <3>. QED BY <3>1, <3>2, <3>3
  <2>13. w = d
    BY <2>11, <2>12, SameText
  <2>. QED BY <2>3, <2>4, <2>6, <2>8, <2>10, <2>13
<1>. QED BY <1>3, <1>4

\* w is the n characters of s from the a-th.
IsPart(w, s, a, n) == w \in Text /\ Len(w) = n /\ \A i \in 1 .. n : w[i] = s[a - 1 + i]

LEMMA PartIs ==
  ASSUME NEW s \in Text, NEW a \in Nat \ {0}, NEW b \in Int, b <= Len(s) \/ b < a, NEW n \in Nat,
         b = a - 1 + n \/ (n = 0 /\ b < a)
  PROVE  IsPart(SubSeq(s, a, b), s, a, n)
<1>1. PICK w : w = SubSeq(s, a, b)
  OBVIOUS
<1>2. /\ w \in Text /\ Len(w) = IF a <= b THEN b - a + 1 ELSE 0
      /\ \A i \in 1 .. b - a + 1 : w[i] = s[a + i - 1]
  BY <1>1, PartFacts
<1>3. Len(w) = n
  BY <1>2
<1>4. ASSUME NEW i \in 1 .. n PROVE w[i] = s[a - 1 + i]
  <2>1. i \in 1 .. b - a + 1 /\ a + i - 1 = a - 1 + i
    OBVIOUS
  <2>. QED BY <1>2, <2>1
<1>. QED BY <1>1, <1>2, <1>3, <1>4 DEF IsPart

LEMMA SameParts ==
  ASSUME NEW s \in Text, NEW a \in Int, NEW n \in Nat, NEW v, NEW w, IsPart(v, s, a, n), IsPart(w, s, a, n)
  PROVE  v = w
<1>1. /\ v \in Text /\ w \in Text /\ Len(v) = n /\ Len(w) = n
      /\ \A i \in 1 .. n : v[i] = w[i]
  BY DEF IsPart
<1>. QED BY <1>1, SameText

\* The three loops of p_insert leave the text before the place, the one inserted
\* and the text after it, when there is room for both.
LEMMA InsertFacts ==
  ASSUME NEW s, IsObject(s), NEW d, IsObject(d), NEW at \in Int, d.length + s.length <= N(d)
  PROVE  Value(insert(s, d, at, FALSE)) = Inserted(Value(s), Value(d), at)
<1>1. PICK dl \in Nat, sl \in Nat, n \in Nat :
        /\ dl = d.length /\ sl = s.length /\ n = N(d) /\ dl + sl <= n /\ n = Len(d.data)
        /\ d.data \in Text /\ s.data \in Text /\ sl <= Len(s.data) /\ DOMAIN d.data = 1 .. n
  BY ValueFacts, TextFacts DEF IsObject
<1>2. PICK p \in 1 .. dl + 1 : p = Within(at, 1, dl + 1)
  <2>1. Within(at, 1, dl + 1) \in 1 .. dl + 1
    BY DEF Within, Greatest, Least
  <2>. QED BY <2>1
<1>3. PICK o : o = insert(s, d, at, FALSE)
  OBVIOUS
<1>4. /\ o.length = dl + sl
      /\ o.data = [i \in 1 .. n |-> o.data[i]]
      /\ \A i \in 1 .. n : o.data[i] = IF p <= i /\ i < p + sl THEN s.data[i - p + 1]
                                       ELSE IF p + sl <= i /\ i <= dl + sl THEN d.data[i - sl] ELSE d.data[i]
  <2>1. Least(d.length + s.length, N(d)) = dl + sl /\ Greatest(dl + sl - d.length, 0) = sl
    BY <1>1 DEF Least, Greatest
  <2>2. o.length = dl + sl
    BY <1>1, <1>3, <2>1 DEF insert
  <2>3. o.data = [i \in 1 .. n |-> o.data[i]]
    BY <1>1, <1>3 DEF insert
  <2>4. \A i \in 1 .. n : o.data[i] = IF p <= i /\ i < p + sl THEN s.data[i - p + 1]
                                      ELSE IF p + sl <= i /\ i <= dl + sl THEN d.data[i - sl] ELSE d.data[i]
    <3>. TAKE i \in 1 .. n
    <3>1. i \in DOMAIN d.data
      BY <1>1
    <3>. DEFINE place == Within(at, 1, d.length + 1)
                need == Least(d.length + s.length, N(d))
                shift == Greatest(need - d.length, 0)
    <3>2. o.data[i] = IF place <= i /\ i < place + s.length THEN s.data[i - place + 1]
                      ELSE [k \in DOMAIN d.data |-> IF place + s.length <= k /\ k <= need
                                                    THEN d.data[k - shift] ELSE d.data[k]][i]
      BY <1>3, <3>1 DEF insert
    <3>3. [k \in DOMAIN d.data |-> IF place + s.length <= k /\ k <= need THEN d.data[k - shift] ELSE d.data[k]][i]
            = IF place + s.length <= i /\ i <= need THEN d.data[i - shift] ELSE d.data[i]
      BY <3>1
    <3>4. place = p /\ need = dl + sl /\ shift = sl
      BY <1>1, <1>2, <2>1
    <3>. HIDE DEF place, need, shift
    <3>. QED BY <1>1, <3>2, <3>3, <3>4
  <2>. QED BY <2>2, <2>3, <2>4
<1>5. \A i \in 1 .. n : o.data[i] \in Nat
  <2>. TAKE i \in 1 .. n
  <2>1. (\A k \in 1 .. Len(s.data) : s.data[k] \in Nat) /\ (\A k \in 1 .. n : d.data[k] \in Nat)
    BY <1>1, TextFacts
  <2>2. /\ (p <= i /\ i < p + sl => i - p + 1 \in 1 .. Len(s.data))
        /\ (p + sl <= i /\ i <= dl + sl => i - sl \in 1 .. n)
    <3>1. PICK m \in Nat : m = Len(s.data)
      BY <1>1, TextFacts
    <3>2. p \in Int /\ p >= 1 /\ p <= dl + 1 /\ i \in Int /\ dl + sl <= n /\ sl <= m
      BY <1>1, <1>2, <3>1
    <3>3. /\ (p <= i /\ i < p + sl => i - p + 1 \in 1 .. m)
          /\ (p + sl <= i /\ i <= dl + sl => i - sl \in 1 .. n)
      BY <3>2
    <3>. QED BY <3>1, <3>3
  <2>. QED BY <1>4, <2>1, <2>2
<1>6. o.data \in Text /\ Len(o.data) = n
  BY <1>4, <1>5 DEF Text
<1>7. /\ Value(o) \in Text /\ Len(Value(o)) = dl + sl
      /\ \A i \in 1 .. dl + sl : Value(o)[i] = o.data[i]
  <2>1. IsObject(o)
    BY <1>1, <1>4, <1>6 DEF IsObject
  <2>. QED BY <2>1, <1>4, ValueFacts
<1>8. /\ Value(s) \in Text /\ Len(Value(s)) = sl /\ \A i \in 1 .. sl : Value(s)[i] = s.data[i]
      /\ Value(d) \in Text /\ Len(Value(d)) = dl /\ \A i \in 1 .. dl : Value(d)[i] = d.data[i]
  BY <1>1, ValueFacts
<1>9. PICK x, y : x = SubSeq(Value(d), 1, p - 1) /\ y = SubSeq(Value(d), p, dl)
  OBVIOUS
<1>10. IsPart(x, Value(d), 1, p - 1) /\ IsPart(y, Value(d), p, dl - p + 1)
  <2>1. /\ p - 1 \in Nat /\ p - 1 <= dl /\ p \in Nat \ {0} /\ dl - p + 1 \in Nat /\ dl = p - 1 + (dl - p + 1)
        /\ p - 1 = 1 - 1 + (p - 1)
    OBVIOUS
  <2>2. PICK v \in Text : v = Value(d) /\ Len(v) = dl
    BY <1>8
  <2>3. IsPart(SubSeq(v, 1, p - 1), v, 1, p - 1)
    BY <2>1, <2>2, PartIs
  <2>4. IsPart(SubSeq(v, p, dl), v, p, dl - p + 1)
    BY <2>1, <2>2, PartIs
  <2>. QED BY <1>9, <2>2, <2>3, <2>4
<1>11. PICK w : w = x \o Value(s) \o y
  OBVIOUS
<1>12. JoinsThree(w, x, Value(s), y)
  BY <1>8, <1>10, <1>11, JoinThree DEF IsPart
<1>13. /\ w \in Text /\ Len(w) = dl + sl
       /\ \A i \in 1 .. p - 1 : w[i] = d.data[i]
       /\ \A i \in 1 .. sl : w[p - 1 + i] = s.data[i]
       /\ \A i \in 1 .. dl - p + 1 : w[p - 1 + sl + i] = d.data[p - 1 + i]
  <2>1. Len(x) = p - 1 /\ Len(y) = dl - p + 1
    BY <1>10 DEF IsPart
  <2>2. \A i \in 1 .. p - 1 : x[i] = d.data[i]
    <3>. TAKE i \in 1 .. p - 1
    <3>1. i \in 1 .. dl /\ 1 - 1 + i = i
      BY <1>1, <1>2
    <3>. QED BY <3>1, <1>8, <1>10 DEF IsPart
  <2>3. \A i \in 1 .. dl - p + 1 : y[i] = d.data[p - 1 + i]
    <3>. TAKE i \in 1 .. dl - p + 1
    <3>1. p - 1 + i \in 1 .. dl
      <4>1. p \in Int /\ p >= 1 /\ dl \in Int /\ i \in Int /\ 1 <= i /\ i <= dl - p + 1
        BY <1>1, <1>2
      <4>. QED BY ONLY <4>1
    <3>. QED BY <3>1, <1>8, <1>10 DEF IsPart
  <2>4. p - 1 + sl + (dl - p + 1) = dl + sl
    <3>1. p \in Int /\ sl \in Int /\ dl \in Int
      BY <1>1, <1>2
    <3>. QED BY ONLY <3>1
  <2>5. Len(w) = dl + sl
    BY <2>1, <2>4, <1>8, <1>12 DEF JoinsThree
  <2>6. \A i \in 1 .. p - 1 : w[i] = x[i]
    BY <2>1, <1>12 DEF JoinsThree
  <2>7. \A i \in 1 .. sl : w[p - 1 + i] = Value(s)[i]
    BY <2>1, <1>8, <1>12 DEF JoinsThree
  <2>8. \A i \in 1 .. dl - p + 1 : w[p - 1 + sl + i] = y[i]
    BY <2>1, <1>8, <1>12 DEF JoinsThree
  <2>9. w \in Text
    BY <1>12 DEF JoinsThree
  <2>10. \A i \in 1 .. sl : Value(s)[i] = s.data[i]
    BY <1>8
  <2>. QED BY ONLY <2>2, <2>3, <2>5, <2>6, <2>7, <2>8, <2>9, <2>10
<1>14. \A i \in 1 .. dl + sl : Value(o)[i] = w[i]
  <2>. TAKE i \in 1 .. dl + sl
  <2>1. i \in 1 .. n /\ Value(o)[i] = o.data[i]
    BY <1>1, <1>7
  <2>2. CASE i < p
    <3>1. i \in 1 .. p - 1
      BY <2>2
    <3>. QED BY <2>1, <2>2, <3>1, <1>4, <1>13
  <2>3. CASE p <= i /\ i < p + sl
    <3>1. i - p + 1 \in 1 .. sl /\ p - 1 + (i - p + 1) = i
      BY <2>3
    <3>. QED BY <2>1, <2>3, <3>1, <1>4, <1>13
  <2>4. CASE p + sl <= i
    <3>1. i - sl - p + 1 \in 1 .. dl - p + 1 /\ p - 1 + sl + (i - sl - p + 1) = i /\ p - 1 + (i - sl - p + 1) = i - sl
      BY <2>4
    <3>2. o.data[i] = d.data[i - sl]
      BY <2>1, <2>4, <1>4
    <3>. QED BY <2>1, <3>1, <3>2, <1>13
  <2>. QED BY <2>2, <2>3, <2>4
<1>15. Value(o) = w
  BY <1>7, <1>13, <1>14, SameText
<1>. QED BY <1>1, <1>2, <1>3, <1>8, <1>9, <1>11, <1>15 DEF Inserted

\* p_copy is the part that the text has of the one asked for.
LEMMA CopyFacts ==
  ASSUME NEW s, IsObject(s), N(s) <= Classic, NEW at \in Int, NEW n \in Int
  PROVE  Value(copy(s, at, n))
           = SubSeq(Value(s), Greatest(at, 1), Least(Greatest(at, 1) + n - 1, s.length))
<1>1. /\ s.data \in Text /\ s.length \in Nat /\ s.length <= Len(s.data) /\ Len(s.data) = N(s) /\ N(s) \in Nat
      /\ Value(s) \in Text /\ Len(Value(s)) = s.length /\ \A i \in 1 .. s.length : Value(s)[i] = s.data[i]
      /\ Classic \in Nat
  BY ValueFacts, ClassicAssumption DEF IsObject, ClassicAssumption
<1>2. PICK g \in Nat \ {0} : g = Greatest(at, 1)
  BY DEF Greatest
<1>3. PICK c \in Nat : c = Within(n, 0, Greatest(s.length - g + 1, 0))
                       /\ (c > 0 => g - 1 + c <= s.length) /\ c <= s.length
                       /\ c = IF n > 0 /\ g <= s.length THEN Least(n, s.length - g + 1) ELSE 0
  <2>1. /\ Within(n, 0, Greatest(s.length - g + 1, 0))
             = IF n > 0 /\ g <= s.length THEN Least(n, s.length - g + 1) ELSE 0
    BY <1>1 DEF Within, Greatest, Least
  <2>2. PICK c \in Nat : c = Within(n, 0, Greatest(s.length - g + 1, 0))
    BY <1>1 DEF Within, Greatest, Least
  <2>. QED BY <2>1, <2>2, <1>1 DEF Least
<1>4. PICK t : t = SubSeq(s.data, g, g - 1 + c)
  OBVIOUS
<1>5. IsPart(t, s.data, g, c)
  <2>1. g - 1 + c \in Int /\ (g - 1 + c <= Len(s.data) \/ g - 1 + c < g)
    BY <1>1, <1>3
  <2>2. s.data \in Text
    BY <1>1
  <2>. QED BY <1>4, <2>1, <2>2, PartIs
<1>6. IsPart(t, Value(s), g, c)
  <2>1. \A i \in 1 .. c : g - 1 + i \in 1 .. s.length
    BY <1>1, <1>3
  <2>. QED BY <2>1, <1>1, <1>5 DEF IsPart
<1>7. PICK e \in Int : e = Least(g + n - 1, s.length)
  BY <1>1 DEF Least
<1>8. e <= s.length /\ (e = g - 1 + c \/ (c = 0 /\ e < g))
  <2>1. e = IF g + n - 1 < s.length THEN g + n - 1 ELSE s.length
    BY <1>7 DEF Least
  <2>2. c = IF n > 0 /\ g <= s.length THEN (IF n < s.length - g + 1 THEN n ELSE s.length - g + 1) ELSE 0
    BY <1>3 DEF Least
  <2>3. g \in Int /\ n \in Int /\ s.length \in Int
    BY <1>1
  <2>. QED BY ONLY <2>1, <2>2, <2>3
<1>9. IsPart(SubSeq(Value(s), g, e), Value(s), g, c)
  BY <1>1, <1>8, PartIs
<1>10. t = SubSeq(Value(s), g, e)
  <2>1. PICK u : u = SubSeq(Value(s), g, e)
    OBVIOUS
  <2>2. PICK v \in Text : v = Value(s)
    BY <1>1
  <2>3. IsPart(u, v, g, c) /\ IsPart(t, v, g, c) /\ g \in Int
    BY <1>6, <1>9, <2>1, <2>2
  <2>. QED BY ONLY <2>1, <2>2, <2>3, SameParts, c \in Nat
<1>11. t \in Text /\ Len(t) <= Classic
  BY <1>1, <1>3, <1>5 DEF IsPart
<1>12. Value(shortstring_of(Classic, t)) = t
  <2>1. Classic \in Nat
    BY <1>1
  <2>2. Value(shortstring_of(Classic, t)) = Cut(t, Classic)
    BY <1>11, <2>1, OfTextFacts
  <2>. QED BY <1>11, <2>1, <2>2, CutWhole
<1>13. copy(s, at, n) = shortstring_of(Classic, t)
  BY <1>2, <1>3, <1>4 DEF copy
<1>. QED BY <1>2, <1>7, <1>10, <1>12, <1>13

\* p_delete closes the gap in place: what is left is the text before and after it.
LEMMA DeleteFacts ==
  ASSUME NEW s, IsObject(s), NEW at \in Int, NEW n \in Int
  PROVE  /\ IsObject(delete(s, at, n)) /\ N(delete(s, at, n)) = N(s)
         /\ Value(delete(s, at, n)) = IF at < 1 \/ n < 1 THEN Value(s) ELSE Deleted(Value(s), at, n)
<1>1. /\ s.data \in Text /\ s.length \in Nat /\ s.length <= Len(s.data) /\ Len(s.data) = N(s) /\ N(s) \in Nat
      /\ Value(s) \in Text /\ Len(Value(s)) = s.length /\ \A i \in 1 .. s.length : Value(s)[i] = s.data[i]
      /\ DOMAIN s.data = 1 .. N(s) /\ \A i \in 1 .. N(s) : s.data[i] \in Nat
  BY ValueFacts, TextFacts DEF IsObject
<1>2. CASE at < 1 \/ n < 1
  BY <1>2 DEF delete
<1>3. CASE at >= 1 /\ n >= 1
  <2>1. PICK x, y : x = SubSeq(Value(s), 1, Least(at - 1, s.length)) /\ y = SubSeq(Value(s), at + n, s.length)
    OBVIOUS
  <2>2. PICK xl \in Nat : xl = Least(at - 1, s.length)
    BY <1>1, <1>3 DEF Least
  <2>3. PICK yl \in Nat : yl = IF at + n <= s.length THEN s.length - at - n + 1 ELSE 0
    BY <1>1, <1>3
  <2>4. IsPart(x, Value(s), 1, xl)
    <3>1. xl <= Len(Value(s)) /\ xl = 1 - 1 + xl /\ 1 \in Nat \ {0}
      BY <1>1, <1>3, <2>2 DEF Least
    <3>. QED BY <3>1, <1>1, <2>1, <2>2, PartIs
  <2>5. IsPart(y, Value(s), at + n, yl)
    <3>1. at + n \in Nat \ {0} /\ (s.length = at + n - 1 + yl \/ (yl = 0 /\ s.length < at + n))
      BY <1>1, <1>3, <2>3
    <3>. QED BY <3>1, <1>1, <2>1, PartIs
  <2>6. PICK w : w = x \o y /\ Joins(w, x, y)
    BY <2>4, <2>5, Join DEF IsPart
  <2>7. /\ w \in Text /\ Len(w) = xl + yl /\ \A i \in 1 .. xl : w[i] = s.data[i]
        /\ \A i \in 1 .. yl : w[xl + i] = s.data[at + n - 1 + i]
    <3>1. /\ Len(x) = xl /\ \A i \in 1 .. xl : x[i] = Value(s)[1 - 1 + i]
          /\ Len(y) = yl /\ \A i \in 1 .. yl : y[i] = Value(s)[at + n - 1 + i]
      BY <2>4, <2>5 DEF IsPart
    <3>2. \A i \in 1 .. xl : 1 - 1 + i = i /\ i \in 1 .. s.length
      BY <1>1, <1>3, <2>2 DEF Least
    <3>3. \A i \in 1 .. yl : at + n - 1 + i \in 1 .. s.length
      BY <1>1, <1>3, <2>3
    <3>4. \A i \in 1 .. s.length : Value(s)[i] = s.data[i]
      BY <1>1
    <3>5. \A i \in 1 .. xl : x[i] = s.data[i]
      BY <3>1, <3>2, <3>4
    <3>6. \A i \in 1 .. yl : y[i] = s.data[at + n - 1 + i]
      BY <3>1, <3>3, <3>4
    <3>7. /\ w \in Text /\ Len(w) = xl + yl /\ \A i \in 1 .. xl : w[i] = x[i]
          /\ \A i \in 1 .. yl : w[xl + i] = y[i]
      BY <3>1, <2>6 DEF Joins
    <3>. QED BY <3>5, <3>6, <3>7
  <2>8. PICK r : r = delete(s, at, n)
    OBVIOUS
  <2>9. /\ r.length = xl + yl /\ DOMAIN r.data = 1 .. N(s) /\ r.data = [i \in 1 .. N(s) |-> r.data[i]]
        /\ \A i \in 1 .. N(s) : r.data[i] \in Nat
        /\ \A i \in 1 .. xl : r.data[i] = s.data[i]
        /\ \A i \in 1 .. yl : r.data[xl + i] = s.data[at + n - 1 + i]
    <3>0. s.data = [i \in 1 .. N(s) |-> s.data[i]]
      BY <1>1, TextIsAFunction
    <3>1. CASE at > s.length
      <4>1. r = s /\ xl = s.length /\ yl = 0
        BY <3>1, <1>1, <1>3, <2>2, <2>3, <2>8 DEF delete, Least
      <4>. QED BY <4>1, <3>0, <1>1
    <3>2. CASE at <= s.length /\ s.length - (at - 1) - n < 0
      <4>1. r = [s EXCEPT !.length = at - 1] /\ xl = at - 1 /\ yl = 0
        BY <3>2, <1>1, <1>3, <2>2, <2>3, <2>8 DEF delete, Least
      <4>2. r.length = at - 1 /\ r.data = s.data
        BY <4>1
      <4>3. at - 1 = xl + yl /\ xl <= N(s)
        BY <4>1, <3>2, <1>1
      <4>4. \A i \in 1 .. xl : r.data[i] = s.data[i]
        BY <4>2
      <4>5. \A i \in 1 .. yl : r.data[xl + i] = s.data[at + n - 1 + i]
        BY <4>1
      <4>. QED BY <4>2, <4>3, <4>4, <4>5, <3>0, <1>1
    <3>3. CASE at <= s.length /\ s.length - (at - 1) - n >= 0
      <4>1. PICK tail \in Nat : tail = s.length - (at - 1) - n
        BY <3>3, <1>1
      <4>2. xl = at - 1 /\ yl = tail /\ xl + yl = s.length - n
        <5>1. xl = at - 1
          BY <3>3, <1>1, <1>3, <2>2 DEF Least
        <5>2. s.length \in Int /\ n \in Int /\ at \in Int
          BY <1>1
        <5>3. yl = tail
          BY ONLY <5>2, <3>3, <4>1, <2>3, <1>3
        <5>. QED BY ONLY <5>1, <5>2, <5>3, <4>1, xl \in Nat
      <4>3. r = [length |-> s.length - n,
                 data |-> [i \in DOMAIN s.data |-> IF at <= i /\ i < at + (s.length - (at - 1) - n)
                                                   THEN s.data[i + n] ELSE s.data[i]]]
        BY <3>3, <1>1, <1>3, <2>8 DEF delete
      <4>4. /\ r.length = s.length - n
            /\ r.data = [i \in DOMAIN s.data |-> IF at <= i /\ i < at + (s.length - (at - 1) - n)
                                                 THEN s.data[i + n] ELSE s.data[i]]
        BY <4>3
      <4>5. /\ DOMAIN r.data = 1 .. N(s) /\ r.data = [i \in 1 .. N(s) |-> r.data[i]]
            /\ \A i \in 1 .. N(s) : r.data[i] = IF at <= i /\ i < at + tail THEN s.data[i + n] ELSE s.data[i]
        BY <4>1, <4>4, <1>1
      <4>6. \A i \in 1 .. N(s) : at <= i /\ i < at + tail => i + n \in 1 .. N(s)
        BY <1>1, <1>3, <4>1
      <4>7. \A i \in 1 .. xl : i \in 1 .. N(s) /\ ~(at <= i)
        BY <1>1, <3>3, <4>2
      <4>8. \A i \in 1 .. yl : xl + i \in 1 .. N(s) /\ at <= xl + i /\ xl + i < at + tail /\ xl + i + n = at + n - 1 + i
        BY <1>1, <1>3, <3>3, <4>1, <4>2
      <4>9. \A i \in 1 .. N(s) : s.data[i] \in Nat
        BY <1>1
      <4>10. \A i \in 1 .. N(s) : r.data[i] \in Nat
        BY <4>5, <4>6, <4>9
      <4>11. \A i \in 1 .. xl : r.data[i] = s.data[i]
        BY <4>5, <4>7
      <4>12. \A i \in 1 .. yl : r.data[xl + i] = s.data[at + n - 1 + i]
        BY <4>5, <4>8
      <4>. QED BY <4>2, <4>4, <4>5, <4>10, <4>11, <4>12
    <3>4. at > s.length \/ (at <= s.length /\ s.length - (at - 1) - n < 0)
          \/ (at <= s.length /\ s.length - (at - 1) - n >= 0)
      <4>1. s.length \in Int /\ n \in Int /\ at \in Int
        BY <1>1
      <4>. QED BY ONLY <4>1
    <3>. QED BY ONLY <3>1, <3>2, <3>3, <3>4
  <2>10. r.data \in Text /\ Len(r.data) = N(s)
    BY <2>9, <1>1 DEF Text
  <2>11. xl + yl <= s.length /\ xl + yl \in Nat
    <3>1. xl = IF at - 1 < s.length THEN at - 1 ELSE s.length
      BY <2>2 DEF Least
    <3>2. s.length \in Int /\ n \in Int /\ at \in Int /\ xl \in Nat /\ yl \in Nat
      BY <1>1
    <3>. QED BY ONLY <3>1, <3>2, <1>3, <2>3
  <2>12. IsObject(r) /\ N(r) = N(s)
    BY <1>1, <2>9, <2>10, <2>11 DEF IsObject, N
  <2>13. Value(r) \in Text /\ Len(Value(r)) = xl + yl /\ \A i \in 1 .. xl + yl : Value(r)[i] = r.data[i]
    BY <2>9, <2>12, ValueFacts
  <2>14. \A i \in 1 .. xl + yl : Value(r)[i] = w[i]
    <3>. TAKE i \in 1 .. xl + yl
    <3>1. CASE i \in 1 .. xl
      BY <3>1, <2>7, <2>9, <2>13
    <3>2. CASE i \notin 1 .. xl
      <4>1. PICK k \in 1 .. yl : i = xl + k
        <5>1. i - xl \in 1 .. yl /\ i = xl + (i - xl)
          BY <3>2
        <5>. QED BY <5>1
      <4>. QED BY <4>1, <2>7, <2>9, <2>13
    <3>. QED BY <3>1, <3>2
  <2>15. Value(r) = w
    BY <2>7, <2>13, <2>14, SameText
  <2>16. Deleted(Value(s), at, n) = w
    BY <1>1, <2>1, <2>6 DEF Deleted
  <2>. QED BY <1>3, <2>8, <2>12, <2>15, <2>16
<1>. QED BY <1>2, <1>3

LEMMA PaddedFacts ==
  ASSUME NEW t \in Text, NEW n \in Nat
  PROVE  /\ Padded(t, n) \in Text /\ Len(Padded(t, n)) = n
         /\ \A i \in 1 .. n : Padded(t, n)[i] = IF i <= Len(t) THEN t[i] ELSE 0
<1>1. PICK d : d = [i \in 1 .. n |-> IF i <= Len(t) THEN t[i] ELSE 0]
  OBVIOUS
<1>2. d \in Text /\ Len(d) = n /\ \A i \in 1 .. n : d[i] = IF i <= Len(t) THEN t[i] ELSE 0
  BY <1>1, TextFacts DEF Text
<1>. QED BY <1>1, <1>2 DEF Padded

LEMMA SetLengthFacts ==
  ASSUME NEW s, IsObject(s), NEW n \in Int
  PROVE  Value(setlength(s, n)) = Padded(Value(s), Within(n, 0, N(s)))
<1>1. /\ s.data \in Text /\ s.length \in Nat /\ s.length <= Len(s.data) /\ Len(s.data) = N(s) /\ N(s) \in Nat
      /\ Value(s) \in Text /\ Len(Value(s)) = s.length /\ \A i \in 1 .. s.length : Value(s)[i] = s.data[i]
      /\ DOMAIN s.data = 1 .. N(s) /\ \A i \in 1 .. N(s) : s.data[i] \in Nat
  BY ValueFacts, TextFacts DEF IsObject
<1>2. PICK m \in Nat : m = Within(n, 0, N(s)) /\ m <= N(s)
  <2>1. Within(n, 0, N(s)) \in Nat /\ Within(n, 0, N(s)) <= N(s)
    BY <1>1 DEF Within, Greatest, Least
  <2>. QED BY <2>1
<1>3. PICK r : r = setlength(s, n)
  OBVIOUS
<1>4. /\ r.length = m /\ r.data = [i \in 1 .. N(s) |-> r.data[i]]
      /\ \A i \in 1 .. N(s) : r.data[i] = IF s.length < i /\ i <= m THEN 0 ELSE s.data[i]
  BY <1>1, <1>2, <1>3 DEF setlength
<1>5. r.data \in Text /\ Len(r.data) = N(s)
  BY <1>1, <1>4 DEF Text
<1>6. Value(r) \in Text /\ Len(Value(r)) = m /\ \A i \in 1 .. m : Value(r)[i] = r.data[i]
  <2>1. IsObject(r)
    BY <1>1, <1>2, <1>4, <1>5 DEF IsObject
  <2>. QED BY <2>1, <1>4, ValueFacts
<1>7. PICK v \in Text : v = Value(s) /\ Len(v) = s.length /\ \A i \in 1 .. s.length : v[i] = s.data[i]
  BY <1>1
<1>8. PICK w \in Text : /\ w = Padded(v, m) /\ Len(w) = m
                        /\ \A i \in 1 .. m : w[i] = IF i <= Len(v) THEN v[i] ELSE 0
  BY PaddedFacts
<1>9. \A i \in 1 .. m : Value(r)[i] = w[i]
  <2>. TAKE i \in 1 .. m
  <2>0. i \in Int /\ m \in Int /\ s.length \in Int /\ N(s) \in Int
    BY <1>1
  <2>1. i \in 1 .. N(s)
    BY <1>2, <2>0
  <2>2. Value(r)[i] = IF s.length < i THEN 0 ELSE s.data[i]
    BY <2>0, <2>1, <1>4, <1>6
  <2>3. w[i] = IF i <= s.length THEN v[i] ELSE 0
    BY <1>7, <1>8
  <2>4. i <= s.length => v[i] = s.data[i]
    BY <1>7, <2>0
  <2>. QED BY ONLY <2>0, <2>2, <2>3, <2>4
<1>10. Value(r) = w
  BY <1>6, <1>8, <1>9, SameText
<1>. QED BY <1>2, <1>3, <1>7, <1>8, <1>10

LEMMA StoreFacts ==
  ASSUME NEW s, IsObject(s), s = [length |-> s.length, data |-> s.data], NEW at \in 0 .. N(s), NEW c
  PROVE  CharAt(Stored(s, at, c), at) = c
<1>1. DOMAIN s.data = 1 .. N(s) /\ N(s) \in Nat
  BY ValueFacts, TextFacts DEF IsObject, N
<1>2. CASE at = 0
  <2>1. [s EXCEPT !.length = c].length = c
    OBVIOUS
  <2>. QED BY <1>2, <2>1 DEF CharAt, Stored
<1>3. CASE at # 0
  <2>1. at \in DOMAIN s.data
    BY <1>1, <1>3
  <2>2. [s EXCEPT !.data[at] = c].data[at] = c
    BY <2>1
  <2>. QED BY <1>3, <2>2 DEF CharAt, Stored
<1>. QED BY <1>2, <1>3

\* A changed copy that is assigned back leaves the variable the text of the copy.
LEMMA BackFacts ==
  ASSUME NEW s, IsObject(s), NEW t, IsObject(t), N(t) = N(s)
  PROVE  Value(BackThrough(s, t)) = Value(t)
<1>1. /\ s.data \in Text /\ Len(s.data) = N(s) /\ N(s) \in Nat /\ DOMAIN s.data = 1 .. N(s)
      /\ \A i \in 1 .. N(s) : s.data[i] \in Nat
  BY ValueFacts, TextFacts DEF IsObject
<1>2. PICK l \in Nat : l = t.length /\ l <= N(s)
  BY ValueFacts
<1>3. PICK v \in Text : v = Value(t) /\ Len(v) = l
  BY <1>2, ValueFacts
<1>4. \A i \in 1 .. l : v[i] \in Nat
  BY <1>3, TextFacts
<1>5. PICK d : d = [i \in 1 .. N(s) |-> IF i <= l THEN v[i] ELSE s.data[i]]
  OBVIOUS
<1>6. d \in Text /\ Len(d) = N(s) /\ \A i \in 1 .. N(s) : d[i] = IF i <= l THEN v[i] ELSE s.data[i]
  <2>1. \A i \in 1 .. N(s) : (IF i <= l THEN v[i] ELSE s.data[i]) \in Nat
    BY <1>1, <1>4
  <2>2. d \in [1 .. N(s) -> Nat] /\ N(s) \in Nat
    BY <1>1, <1>5, <2>1
  <2>3. PICK n \in Nat : n = N(s)
    BY <1>1
  <2>4. d \in Text /\ Len(d) = n
    BY <2>2, <2>3 DEF Text
  <2>5. \A i \in 1 .. N(s) : d[i] = IF i <= l THEN v[i] ELSE s.data[i]
    BY <1>5
  <2>. QED BY <2>3, <2>4, <2>5
<1>7. PICK r : r = BackThrough(s, t)
  OBVIOUS
<1>8. r.length = l /\ r.data = d
  BY <1>1, <1>2, <1>3, <1>5, <1>7 DEF BackThrough, Overwritten
<1>9. Value(r) \in Text /\ Len(Value(r)) = l /\ \A i \in 1 .. l : Value(r)[i] = d[i]
  <2>1. IsObject(r)
    BY <1>2, <1>6, <1>8, <1>1 DEF IsObject
  <2>. QED BY <2>1, <1>8, ValueFacts
<1>10. \A i \in 1 .. l : Value(r)[i] = v[i]
  <2>1. \A i \in 1 .. l : i \in 1 .. N(s) /\ i <= l
    BY <1>1, <1>2
  <2>. QED BY <2>1, <1>6, <1>9
<1>. QED BY <1>3, <1>7, <1>9, <1>10, SameText

LEMMA DeleteThroughFacts ==
  ASSUME NEW s, IsObject(s), NEW at \in Int, NEW n \in Int
  PROVE  Value(BackThrough(s, delete(copy_of_ref(s, N(s)), at, n)))
           = IF at < 1 \/ n < 1 THEN Value(s) ELSE Deleted(Value(s), at, n)
<1>1. Value(s) \in Text /\ N(s) \in Nat /\ Len(Value(s)) <= N(s)
  BY ValueFacts
<1>2. PICK t : t = copy_of_ref(s, N(s))
  OBVIOUS
<1>3. IsObject(t) /\ N(t) = N(s) /\ Value(t) = Value(s)
  BY <1>1, <1>2, OfTextFacts, CutWhole DEF copy_of_ref
<1>4. PICK u : u = delete(t, at, n)
  OBVIOUS
<1>5. IsObject(u) /\ N(u) = N(s) /\ Value(u) = IF at < 1 \/ n < 1 THEN Value(t) ELSE Deleted(Value(t), at, n)
  BY <1>3, <1>4, DeleteFacts
<1>. QED BY <1>2, <1>3, <1>4, <1>5, BackFacts

----------------------------------------------------------------------------
(* Arrays of characters and pointers to characters.                        *)

\* z is what comes before the first NUL of b.
UpToNul(z, b) ==
  /\ z \in Text /\ Len(z) <= Len(b) /\ \A i \in 1 .. Len(z) : z[i] = b[i] /\ b[i] # 0
  /\ Len(z) = Len(b) \/ b[Len(z) + 1] = 0

LEMMA BeforeNulFacts ==
  ASSUME NEW b \in Text
  PROVE  UpToNul(BeforeNul(b), b)
<1>1. Len(b) \in Nat /\ DOMAIN b = 1 .. Len(b)
  BY TextFacts
<1>2. PICK zeros \in SUBSET (1 .. Len(b)) : zeros = {i \in 1 .. Len(b) : b[i] = 0}
  OBVIOUS
<1>3. CASE zeros = {}
  <2>1. BeforeNul(b) = b
    BY <1>1, <1>2, <1>3 DEF BeforeNul
  <2>2. \A i \in 1 .. Len(b) : b[i] # 0
    BY <1>2, <1>3
  <2>. QED BY <2>1, <2>2, <1>1 DEF UpToNul
<1>4. CASE zeros # {}
  <2>1. \E i \in DOMAIN b : b[i] = 0 /\ \A j \in 1 .. i - 1 : b[j] # 0
    <3>0. zeros \in SUBSET Nat
      BY <1>1, <1>2
    <3>1. PICK k \in zeros : \A j \in zeros : k <= j
      BY <1>4, <3>0, Smallest
    <3>2. k \in DOMAIN b /\ b[k] = 0
      BY <1>1, <1>2
    <3>3. ASSUME NEW j \in 1 .. k - 1 PROVE b[j] # 0
      <4>1. j \in 1 .. Len(b) /\ ~(k <= j)
        BY <1>1, <3>2
      <4>. QED BY <4>1, <3>1, <1>2
    <3>. QED BY <3>2, <3>3
  <2>2. PICK k : k = CHOOSE i \in DOMAIN b : b[i] = 0 /\ \A j \in 1 .. i - 1 : b[j] # 0
    OBVIOUS
  <2>3. k \in DOMAIN b /\ b[k] = 0 /\ \A j \in 1 .. k - 1 : b[j] # 0
    BY <2>1, <2>2
  <2>4. k \in 1 .. Len(b)
    BY <1>1, <2>3
  <2>5. PICK z : z = SubSeq(b, 1, k - 1)
    OBVIOUS
  <2>6. BeforeNul(b) = z
    <3>1. 0 \in {b[i] : i \in DOMAIN b}
      BY <2>3
    <3>. QED BY <2>2, <2>5, <3>1 DEF BeforeNul
  <2>7. IsPart(z, b, 1, k - 1)
    <3>1. k - 1 \in Nat /\ k - 1 \in Int /\ k - 1 <= Len(b) /\ k - 1 = 1 - 1 + (k - 1) /\ 1 \in Nat \ {0}
      BY <1>1, <2>4
    <3>. QED BY <2>5, <3>1, PartIs
  <2>8. z \in Text /\ Len(z) = k - 1 /\ \A i \in 1 .. k - 1 : z[i] = b[i]
    <3>1. \A i \in 1 .. k - 1 : 1 - 1 + i = i
      BY <1>1, <2>4
    <3>. QED BY <2>7, <3>1 DEF IsPart
  <2>9. k - 1 <= Len(b) /\ k - 1 + 1 = k
    BY <1>1, <2>4
  <2>10. Len(z) <= Len(b) /\ b[Len(z) + 1] = 0
    BY <2>3, <2>8, <2>9
  <2>. QED BY <2>3, <2>6, <2>8, <2>10 DEF UpToNul
<1>. QED BY <1>3, <1>4

LEMMA UpToNulIsFree ==
  ASSUME NEW b \in Text, NEW z, UpToNul(z, b)
  PROVE  /\ z \in Text /\ Len(z) <= Len(b) /\ z = SubSeq(b, 1, Len(z)) /\ 0 \notin ToSet(SubSeq(b, 1, Len(z)))
         /\ Len(z) = Len(b) \/ b[Len(z) + 1] = 0
<1>1. PICK k \in Nat : k = Len(z)
  BY TextFacts DEF UpToNul
<1>2. PICK w : w = SubSeq(b, 1, k)
  OBVIOUS
<1>3. IsPart(w, b, 1, k)
  <2>1. k = 1 - 1 + k /\ k \in Int /\ k <= Len(b) /\ 1 \in Nat \ {0}
    BY <1>1 DEF UpToNul
  <2>. QED BY <2>1, <1>2, PartIs
<1>4. w \in Text /\ Len(w) = k /\ \A i \in 1 .. k : w[i] = b[i]
  <2>1. \A i \in 1 .. k : 1 - 1 + i = i
    OBVIOUS
  <2>. QED BY <2>1, <1>3 DEF IsPart
<1>5. z \in Text /\ \A i \in 1 .. k : z[i] = b[i] /\ b[i] # 0
  BY <1>1 DEF UpToNul
<1>6. z = w
  BY <1>1, <1>4, <1>5, SameText
<1>7. 0 \notin ToSet(w)
  <2>1. DOMAIN w = 1 .. k
    BY <1>4, TextFacts
  <2>. QED BY <2>1, <1>4, <1>5 DEF ToSet
<1>. QED BY <1>1, <1>2, <1>6, <1>7 DEF UpToNul

LEMMA NoNul ==
  ASSUME NEW t \in Text, 0 \notin ToSet(t), NEW i \in 1 .. Len(t)
  PROVE  t[i] # 0
BY TextFacts DEF ToSet

LEMMA ToArrayFacts ==
  ASSUME NEW s, IsObject(s), NEW m \in Nat
  PROVE  /\ array_of_string(m, s) = Padded(Value(s), m)
         /\ 0 \notin ToSet(Value(s))
            => Value(string_of_array(s, 0, Padded(Value(s), m))) = Cut(Value(s), m)
<1>1. /\ s.length \in Nat /\ N(s) \in Nat /\ s.length <= N(s)
      /\ Value(s) \in Text /\ Len(Value(s)) = s.length /\ \A i \in 1 .. s.length : Value(s)[i] = s.data[i]
  BY ValueFacts
<1>2. PICK v \in Text : v = Value(s) /\ Len(v) = s.length /\ \A i \in 1 .. s.length : v[i] = s.data[i]
  BY <1>1
<1>3. array_of_string(m, s) = Padded(v, m)
  <2>1. \A i \in 1 .. m : (IF i <= s.length THEN s.data[i] ELSE 0) = (IF i <= Len(v) THEN v[i] ELSE 0)
    <3>. TAKE i \in 1 .. m
    <3>1. i <= s.length => v[i] = s.data[i]
      BY <1>1, <1>2
    <3>. QED BY <1>2, <3>1
  <2>. QED BY <2>1 DEF array_of_string, Padded
<1>4. ASSUME 0 \notin ToSet(v) PROVE Value(string_of_array(s, 0, Padded(v, m))) = Cut(v, m)
  <2>1. PICK arr \in Text : arr = Padded(v, m) /\ Len(arr) = m
                            /\ \A i \in 1 .. m : arr[i] = IF i <= Len(v) THEN v[i] ELSE 0
    BY PaddedFacts
  <2>2. PICK c \in Nat : c = Least(m, N(s)) /\ c <= m /\ c <= N(s)
    BY <1>1 DEF Least
  <2>3. PICK cut \in Text : /\ cut = SubSeq(arr, 1, Least(Len(arr), N(s)))
                            /\ Len(cut) = c /\ \A i \in 1 .. c : cut[i] = arr[i]
    <3>1. Least(Len(arr), N(s)) = c
      BY <2>1, <2>2
    <3>2. /\ Cut(arr, N(s)) = SubSeq(arr, 1, Least(Len(arr), N(s)))
          /\ Cut(arr, N(s)) \in Text /\ Len(Cut(arr, N(s))) = Least(Len(arr), N(s))
          /\ \A i \in 1 .. Least(Len(arr), N(s)) : Cut(arr, N(s))[i] = arr[i]
      BY <1>1, CutFacts
    <3>. QED BY <3>1, <3>2
  <2>4. PICK z \in Text : z = BeforeNul(cut) /\ UpToNul(z, cut)
    BY BeforeNulFacts DEF UpToNul
  <2>5. PICK k \in Nat : k = Len(z) /\ k <= c
    BY <2>3, <2>4, TextFacts DEF UpToNul
  <2>6. \A i \in 1 .. c : cut[i] = IF i <= s.length THEN v[i] ELSE 0
    BY <1>2, <2>1, <2>2, <2>3
  <2>7. \A i \in 1 .. s.length : v[i] # 0
    BY <1>2, <1>4, NoNul
  <2>8. (\A i \in 1 .. k : z[i] = cut[i] /\ cut[i] # 0) /\ (k = c \/ cut[k + 1] = 0)
    BY <2>3, <2>4, <2>5 DEF UpToNul
  <2>9. k <= s.length
    <3>1. ~(k <= s.length) => k \in 1 .. c /\ k \in 1 .. k
      BY <1>1, <2>5
    <3>. QED BY <3>1, <2>6, <2>8
  <2>10. k = c \/ k = s.length
    <3>1. k # c /\ k # s.length => k + 1 \in 1 .. c /\ k + 1 <= s.length /\ k + 1 \in 1 .. s.length
      BY <1>1, <2>5, <2>9
    <3>. QED BY <3>1, <2>6, <2>7, <2>8
  <2>11. k = Least(s.length, m)
    BY <1>1, <2>2, <2>5, <2>9, <2>10 DEF Least
  <2>12. \A i \in 1 .. k : z[i] = v[i]
    <3>1. \A i \in 1 .. k : i \in 1 .. c /\ i <= s.length
      BY <1>1, <2>5, <2>9
    <3>. QED BY <3>1, <2>6, <2>8
  <2>13. z = Cut(v, m)
    <3>1. PICK w \in Text : w = Cut(v, m) /\ Len(w) = k /\ \A i \in 1 .. k : w[i] = v[i]
      <4>1. Least(Len(v), m) = k
        BY <1>2, <2>11
      <4>2. /\ Cut(v, m) \in Text /\ Len(Cut(v, m)) = Least(Len(v), m)
            /\ \A i \in 1 .. Least(Len(v), m) : Cut(v, m)[i] = v[i]
        BY CutFacts
      <4>. QED BY <4>1, <4>2
    <3>. QED BY <3>1, <2>5, <2>12, SameText
  <2>14. Value(string_of_array(s, 0, arr)) = z
    <3>1. string_of_array(s, 0, arr) = shortstring_assign(s, z)
      BY <2>3, <2>4 DEF string_of_array
    <3>2. Cut(z, N(s)) = z
      BY <1>1, <2>2, <2>5, CutWhole
    <3>. QED BY <3>1, <3>2, AssignTextFacts
  <2>. QED BY <2>1, <2>13, <2>14
<1>. QED BY <1>2, <1>3, <1>4

LEMMA FromArrayFacts ==
  ASSUME NEW s, IsObject(s), NEW arr \in Text
  PROVE  /\ Value(string_of_array(s, 1, arr)) = Cut(arr, N(s))
         /\ UpToNul(Value(string_of_array(s, 0, arr)), Cut(arr, N(s)))
         /\ string_of_array(s, 0, arr).length = Len(Value(string_of_array(s, 0, arr)))
<1>1. N(s) \in Nat
  BY ValueFacts
<1>2. PICK cut \in Text : /\ cut = SubSeq(arr, 1, Least(Len(arr), N(s))) /\ cut = Cut(arr, N(s))
                          /\ Len(cut) = Least(Len(arr), N(s))
  BY <1>1, CutFacts
<1>3. Len(cut) <= N(s)
  BY <1>1, <1>2, TextFacts DEF Least
<1>4. Value(string_of_array(s, 1, arr)) = cut
  <2>1. string_of_array(s, 1, arr) = shortstring_assign(s, cut)
    BY <1>2 DEF string_of_array
  <2>. QED BY <1>1, <1>3, <2>1, AssignTextFacts, CutWhole
<1>5. PICK z \in Text : z = BeforeNul(cut) /\ UpToNul(z, cut)
  BY BeforeNulFacts DEF UpToNul
<1>6. PICK r : r = shortstring_assign(s, z)
  OBVIOUS
<1>7. IsObject(r) /\ Value(r) = Cut(z, N(s))
  BY <1>6, AssignTextFacts
<1>8. Value(r) = z
  <2>1. Len(z) <= N(s)
    <3>1. Len(z) \in Nat /\ Len(cut) \in Nat /\ Len(z) <= Len(cut)
      BY <1>5, TextFacts DEF UpToNul
    <3>. QED BY <3>1, <1>1, <1>3
  <2>. QED BY <2>1, <1>1, <1>7, CutWhole
<1>9. string_of_array(s, 0, arr) = r
  BY <1>2, <1>5, <1>6 DEF string_of_array
<1>. QED BY <1>2, <1>4, <1>5, <1>7, <1>8, <1>9, ValueFacts

LEMMA LogicalLengthFacts ==
  ASSUME NEW arr \in Text
  PROVE  /\ LogicalLength(arr) \in 0 .. Len(arr)
         /\ LogicalLength(arr) > 0 => arr[LogicalLength(arr)] # 0
         /\ \A i \in LogicalLength(arr) + 1 .. Len(arr) : arr[i] = 0
<1>1. Len(arr) \in Nat
  BY TextFacts
<1>2. PICK R \in SUBSET (0 .. Len(arr)) :
        R = {n \in 0 .. Len(arr) : \A i \in n + 1 .. Len(arr) : arr[i] = 0}
  OBVIOUS
<1>3. Len(arr) \in R
  BY <1>1, <1>2
<1>4. R \in SUBSET Nat
  BY <1>1, <1>2
<1>5. PICK n \in R : \A j \in R : n <= j
  BY <1>3, <1>4, Smallest
<1>6. n \in 0 .. Len(arr) /\ \A i \in n + 1 .. Len(arr) : arr[i] = 0
  BY <1>2, <1>5
<1>7. ASSUME n > 0, arr[n] = 0 PROVE FALSE
  <2>1. n - 1 \in 0 .. Len(arr) /\ ~(n <= n - 1)
    BY <1>1, <1>6, <1>7
  <2>2. ASSUME NEW i \in n - 1 + 1 .. Len(arr) PROVE arr[i] = 0
    <3>1. i = n \/ i \in n + 1 .. Len(arr)
      BY <1>1, <1>6
    <3>. QED BY <3>1, <1>6, <1>7
  <2>. QED BY <2>1, <2>2, <1>2, <1>5
<1>8. \E m \in 0 .. Len(arr) : /\ m > 0 => arr[m] # 0
                               /\ \A i \in m + 1 .. Len(arr) : arr[i] = 0
  BY <1>6, <1>7
<1>. QED BY <1>8 DEF LogicalLength

LEMMA EqualsArrayFacts ==
  ASSUME NEW s, IsObject(s), NEW arr \in Text, ~(Value(s) # <<>> /\ Value(s)[Len(Value(s))] = 0)
  PROVE  array_equals_string(arr, s)
           <=> (Len(Value(s)) <= Len(arr) /\ arr = Padded(Value(s), Len(arr)))
<1>1. PICK v \in Text : v = Value(s)
  BY ValueFacts
<1>2. PICK l \in Nat, m \in Nat : l = Len(v) /\ m = Len(arr)
  BY TextFacts
<1>3. l > 0 => v[l] # 0
  <2>1. l > 0 => v # <<>>
    BY <1>2
  <2>. QED BY <2>1, <1>1, <1>2
<1>4. PICK n \in 0 .. m : /\ n = LogicalLength(arr)
                          /\ n > 0 => arr[n] # 0
                          /\ \A i \in n + 1 .. m : arr[i] = 0
  BY <1>2, LogicalLengthFacts
<1>5. PICK w \in Text : w = SubSeq(arr, 1, n) /\ Len(w) = n /\ \A i \in 1 .. n : w[i] = arr[i]
  <2>1. n \in Nat /\ n \in Int /\ n <= Len(arr) /\ n = 1 - 1 + n /\ 1 \in Nat \ {0}
    BY <1>2
  <2>2. IsPart(SubSeq(arr, 1, n), arr, 1, n)
    BY <2>1, PartIs
  <2>3. \A i \in 1 .. n : 1 - 1 + i = i
    BY <1>2
  <2>. QED BY <2>2, <2>3 DEF IsPart
<1>6. PICK p \in Text : p = Padded(v, m) /\ Len(p) = m /\ \A i \in 1 .. m : p[i] = IF i <= l THEN v[i] ELSE 0
  <2>1. /\ Padded(v, m) \in Text /\ Len(Padded(v, m)) = m
        /\ \A i \in 1 .. m : Padded(v, m)[i] = IF i <= Len(v) THEN v[i] ELSE 0
    BY PaddedFacts
  <2>. QED BY <2>1, <1>2
<1>7. ASSUME w = v PROVE l <= m /\ arr = p
  <2>1. n = l
    BY <1>2, <1>5, <1>7
  <2>2. ASSUME NEW i \in 1 .. m PROVE arr[i] = p[i]
    <3>1. CASE i <= l
      <4>1. i \in 1 .. n
        BY <2>1, <3>1, <1>2
      <4>. QED BY <4>1, <3>1, <1>5, <1>6, <1>7
    <3>2. CASE ~(i <= l)
      <4>1. i \in n + 1 .. m
        BY <2>1, <3>2, <1>2
      <4>. QED BY <4>1, <3>2, <1>4, <1>6
    <3>. QED BY <3>1, <3>2
  <2>. QED BY <2>1, <2>2, <1>2, <1>6, SameText
<1>8. ASSUME l <= m, arr = p PROVE w = v
  <2>1. ~(n > l)
    <3>1. n > l => n \in 1 .. m /\ ~(n <= l) /\ n > 0
      BY <1>2
    <3>. QED BY <3>1, <1>4, <1>6, <1>8
  <2>2. ~(n < l)
    <3>1. n < l => l \in n + 1 .. m /\ l \in 1 .. m /\ l <= l /\ l > 0
      BY <1>2, <1>8
    <3>. QED BY <3>1, <1>3, <1>4, <1>6, <1>8
  <2>3. n = l
    BY <2>1, <2>2, <1>2
  <2>4. ASSUME NEW i \in 1 .. l PROVE w[i] = v[i]
    <3>1. i \in 1 .. m /\ i <= l
      BY <1>2, <1>8
    <3>. QED BY <3>1, <2>3, <1>5, <1>6, <1>8
  <2>. QED BY <2>3, <2>4, <1>2, <1>5, SameText
<1>. QED BY <1>1, <1>2, <1>4, <1>5, <1>6, <1>7, <1>8 DEF array_equals_string

LEMMA AppendFacts ==
  ASSUME NEW t \in Text
  PROVE  /\ Append(t, 0) \in Text /\ Len(Append(t, 0)) = Len(t) + 1 /\ Append(t, 0)[Len(t) + 1] = 0
         /\ \A i \in 1 .. Len(t) : Append(t, 0)[i] = t[i]
BY DEF Text

LEMMA EndedText ==
  ASSUME NEW arr \in Text, NEW b \in Text, Len(b) > Len(arr), b[Len(arr) + 1] = 0,
         \A i \in 1 .. Len(arr) : b[i] = arr[i], NEW z, UpToNul(z, b)
  PROVE  UpToNul(z, arr)
<1>1. b[Len(arr) + 1] = 0 /\ Len(b) > Len(arr) /\ \A i \in 1 .. Len(arr) : b[i] = arr[i]
  OBVIOUS
<1>2. PICK m \in Nat, k \in Nat, n \in Nat : m = Len(arr) /\ k = Len(z) /\ n = Len(b)
  BY TextFacts DEF UpToNul
<1>3. z \in Text /\ k <= n /\ (\A i \in 1 .. k : z[i] = b[i] /\ b[i] # 0) /\ (k = n \/ b[k + 1] = 0)
  BY <1>2 DEF UpToNul
<1>4. k <= m
  <2>1. k > m => m + 1 \in 1 .. k
    OBVIOUS
  <2>. QED BY <2>1, <1>1, <1>2, <1>3
<1>5. \A i \in 1 .. k : z[i] = arr[i] /\ arr[i] # 0
  <2>1. \A i \in 1 .. k : i \in 1 .. m
    BY <1>4
  <2>. QED BY <2>1, <1>1, <1>2, <1>3
<1>6. k = m \/ arr[k + 1] = 0
  <2>1. k # m => k + 1 \in 1 .. m /\ k # n
    BY <1>1, <1>2, <1>4
  <2>. QED BY <2>1, <1>1, <1>2, <1>3
<1>. QED BY <1>2, <1>3, <1>4, <1>5, <1>6 DEF UpToNul

LEMMA StrpasFacts ==
  ASSUME NEW s, IsObject(s), NEW arr \in Text
  PROVE  /\ UpToNul(BeforeNul(Append(arr, 0)), arr)
         /\ Value(of_pchar(N(s), Append(arr, 0))) = Cut(BeforeNul(Append(arr, 0)), N(s))
<1>1. UpToNul(BeforeNul(Append(arr, 0)), arr)
  <2>1. PICK b \in Text : b = Append(arr, 0) /\ Len(b) = Len(arr) + 1 /\ b[Len(arr) + 1] = 0
                          /\ \A i \in 1 .. Len(arr) : b[i] = arr[i]
    BY AppendFacts
  <2>2. Len(b) > Len(arr)
    BY <2>1, TextFacts
  <2>. QED BY <2>1, <2>2, BeforeNulFacts, EndedText
<1>2. BeforeNul(Append(arr, 0)) \in Text /\ N(s) \in Nat
  BY <1>1, ValueFacts DEF UpToNul
<1>. QED BY <1>1, <1>2, OfTextFacts DEF of_pchar

LEMMA SetStringFacts ==
  ASSUME NEW s, IsObject(s), NEW arr \in Text, NEW n \in Int, n <= Len(arr)
  PROVE  Value(setstring(s, arr, n)) = Cut(Part(arr, 1, n), N(s))
<1>1. PICK m \in Nat, c \in Nat : m = Len(arr) /\ c = N(s)
  BY ValueFacts, TextFacts
<1>2. PICK k \in Nat : k = Within(n, 0, c) /\ k <= m /\ k <= c /\ (k = n \/ n < 0 \/ k = c) /\ (n < 0 => k = 0)
                       /\ k = IF n < 0 THEN 0 ELSE Least(n, c)
  <2>1. /\ Within(n, 0, c) \in Nat /\ Within(n, 0, c) = IF n < 0 THEN 0 ELSE Least(n, c)
    BY DEF Within, Greatest, Least
  <2>. QED BY <2>1, <1>1 DEF Least
<1>3. PICK t : t = SubSeq(arr, 1, k)
  OBVIOUS
<1>4. IsPart(t, arr, 1, k)
  <2>1. k = 1 - 1 + k /\ k \in Int /\ k <= Len(arr) /\ 1 \in Nat \ {0}
    BY <1>1, <1>2
  <2>. QED BY <2>1, <1>3, PartIs
<1>5. t \in Text /\ Len(t) = k /\ \A i \in 1 .. k : t[i] = arr[i]
  <2>1. \A i \in 1 .. k : 1 - 1 + i = i
    OBVIOUS
  <2>. QED BY <2>1, <1>4 DEF IsPart
<1>6. Value(setstring(s, arr, n)) = t
  <2>1. setstring(s, arr, n) = shortstring_assign(s, t)
    BY <1>1, <1>2, <1>3 DEF setstring
  <2>2. Cut(t, N(s)) = t
    BY <1>1, <1>2, <1>5, CutWhole
  <2>. QED BY <2>1, <2>2, <1>5, AssignTextFacts
<1>7. PICK j \in Nat : j = IF n < 0 THEN 0 ELSE n
  OBVIOUS
<1>8. PICK q \in Text : q = Part(arr, 1, n) /\ Len(q) = j /\ \A i \in 1 .. j : q[i] = arr[i]
  <2>1. Least(n, Len(arr)) = n
    BY <1>1 DEF Least
  <2>2. 1 \in Nat \ {0} /\ n <= Len(arr) /\ (n = 1 - 1 + j \/ (j = 0 /\ n < 1))
    BY <1>7
  <2>3. IsPart(SubSeq(arr, 1, n), arr, 1, j)
    BY <2>2, PartIs
  <2>4. \A i \in 1 .. j : 1 - 1 + i = i
    OBVIOUS
  <2>. QED BY <2>1, <2>3, <2>4 DEF IsPart, Part
<1>9. PICK w \in Text : w = Cut(q, c) /\ Len(w) = k /\ \A i \in 1 .. k : w[i] = q[i]
  <2>1. Least(Len(q), c) = k
    BY <1>1, <1>2, <1>7, <1>8 DEF Least
  <2>2. /\ Cut(q, c) \in Text /\ Len(Cut(q, c)) = Least(Len(q), c)
        /\ \A i \in 1 .. Least(Len(q), c) : Cut(q, c)[i] = q[i]
    BY CutFacts
  <2>. QED BY <2>1, <2>2
<1>10. \A i \in 1 .. k : w[i] = t[i]
  <2>1. \A i \in 1 .. k : i \in 1 .. j
    BY <1>2, <1>7 DEF Least
  <2>. QED BY <2>1, <1>5, <1>8, <1>9
<1>11. w = t
  BY <1>5, <1>9, <1>10, SameText
<1>. QED BY <1>1, <1>6, <1>8, <1>9, <1>11

LEMMA StrpcopyFacts ==
  ASSUME NEW s, IsObject(s), NEW arr \in Text, Len(arr) > s.length
  PROVE  UpToNul(BeforeNul(strpcopy(arr, s)), Value(s))
<1>1. PICK v \in Text : v = Value(s) /\ Len(v) = s.length
  BY ValueFacts
<1>2. PICK l \in Nat, m \in Nat : l = Len(v) /\ m = Len(arr) /\ m > l /\ DOMAIN arr = 1 .. m
                                  /\ \A i \in 1 .. m : arr[i] \in Nat
  BY <1>1, TextFacts
<1>3. PICK e \in Text : e = Append(v, 0) /\ Len(e) = l + 1 /\ e[l + 1] = 0 /\ \A i \in 1 .. l : e[i] = v[i]
  BY <1>2, AppendFacts
<1>4. PICK r : r = [i \in 1 .. m |-> IF i <= l + 1 THEN e[i] ELSE arr[i]]
  OBVIOUS
<1>5. r = strpcopy(arr, s)
  BY <1>1, <1>2, <1>3, <1>4 DEF strpcopy, Overwritten
<1>6. r \in Text /\ Len(r) = m /\ \A i \in 1 .. m : r[i] = IF i <= l + 1 THEN e[i] ELSE arr[i]
  <2>1. \A i \in 1 .. l + 1 : e[i] \in Nat
    BY <1>3, TextFacts
  <2>. QED BY <2>1, <1>2, <1>4 DEF Text
<1>7. r[l + 1] = 0 /\ \A i \in 1 .. l : r[i] = v[i]
  <2>1. l + 1 \in 1 .. m /\ \A i \in 1 .. l : i \in 1 .. m /\ i <= l + 1
    BY <1>2
  <2>. QED BY <2>1, <1>3, <1>6
<1>. QED BY <1>1, <1>2, <1>5, <1>6, <1>7, BeforeNulFacts, EndedText

\* strcomp orders what comes before the NULs as texts are ordered.
LEMMA StrcompFacts ==
  ASSUME NEW p, NEW q, NEW t \in Text, NEW a \in Text, t = BeforeNul(p), a = BeforeNul(q),
         \A i \in 1 .. Len(t) : t[i] # 0, \A i \in 1 .. Len(a) : a[i] # 0
  PROVE  strcomp(p, q) = IF t = a THEN 0 ELSE IF Before(t, a) THEN -1 ELSE 1
<1>1. PICK l \in Nat, m \in Nat : l = Len(t) /\ m = Len(a)
  BY TextFacts
<1>2. PICK x \in Text : x = Append(t, 0) /\ Len(x) = l + 1 /\ x[l + 1] = 0 /\ \A i \in 1 .. l : x[i] = t[i]
  BY <1>1, AppendFacts
<1>3. PICK y \in Text : y = Append(a, 0) /\ Len(y) = m + 1 /\ y[m + 1] = 0 /\ \A i \in 1 .. m : y[i] = a[i]
  BY <1>1, AppendFacts
<1>4. PICK n \in Nat : n = Least(l, m) + 1 /\ n = Least(Len(x), Len(y)) /\ n <= l + 1 /\ n <= m + 1
                       /\ (n = l + 1 \/ n = m + 1)
  BY <1>1, <1>2, <1>3 DEF Least
<1>5. PICK differ \in SUBSET (1 .. n) : differ = {i \in 1 .. n : x[i] # y[i]}
  OBVIOUS
<1>6. \A i \in 1 .. l : t[i] # 0 /\ t[i] \in Nat
  BY <1>1, TextFacts
<1>7. \A i \in 1 .. m : a[i] # 0 /\ a[i] \in Nat
  BY <1>1, TextFacts
<1>8. CASE differ = {}
  <2>1. strcomp(p, q) = 0
    BY <1>2, <1>3, <1>4, <1>5, <1>8 DEF strcomp
  <2>2. \A i \in 1 .. n : x[i] = y[i]
    BY <1>5, <1>8
  <2>3. l = m
    <3>1. l < m => l + 1 \in 1 .. n /\ l + 1 \in 1 .. m
      BY <1>4
    <3>2. m < l => m + 1 \in 1 .. n /\ m + 1 \in 1 .. l
      BY <1>4
    <3>3. ~(l < m)
      BY <3>1, <2>2, <1>2, <1>3, <1>7
    <3>4. ~(m < l)
      BY <3>2, <2>2, <1>2, <1>3, <1>6
    <3>. QED BY <3>3, <3>4
  <2>4. \A i \in 1 .. l : t[i] = a[i]
    <3>1. \A i \in 1 .. l : i \in 1 .. n /\ i \in 1 .. m
      BY <2>3, <1>4
    <3>. QED BY <3>1, <2>2, <1>2, <1>3
  <2>5. t = a
    BY <2>3, <2>4, <1>1, SameText
  <2>. QED BY <2>1, <2>5
<1>9. CASE differ # {}
  <2>1. PICK f : f = CHOOSE i \in differ : \A j \in differ : i <= j
    OBVIOUS
  <2>2. f \in differ /\ \A j \in differ : f <= j
    <3>1. differ \in SUBSET Nat
      BY <1>5
    <3>. QED BY <3>1, <2>1, <1>9, Smallest
  <2>3. strcomp(p, q) = IF x[f] < y[f] THEN -1 ELSE 1
    BY <1>2, <1>3, <1>4, <1>5, <1>9, <2>1 DEF strcomp
  <2>4. f \in 1 .. n /\ x[f] # y[f]
    BY <1>5, <2>2
  <2>5. ASSUME NEW i \in 1 .. f - 1 PROVE x[i] = y[i]
    <3>1. i \in 1 .. n /\ ~(f <= i)
      BY <2>4
    <3>. QED BY <3>1, <2>2, <1>5
  <2>6. ASSUME NEW i \in 1 .. f - 1 PROVE t[i] = a[i]
    <3>1. i \in 1 .. l /\ i \in 1 .. m
      BY <1>4, <2>4
    <3>. QED BY <3>1, <2>5, <1>2, <1>3
  <2>7. CASE f <= l /\ f <= m
    <3>1. f \in 1 .. l /\ f \in 1 .. m
      BY <2>4, <2>7
    <3>2. x[f] = t[f] /\ y[f] = a[f]
      BY <3>1, <1>2, <1>3
    <3>3. Before(t, a) <=> t[f] < a[f]
      BY <3>1, <3>2, <2>4, <2>6, <2>7, <1>1, FirstDifference
    <3>4. t # a
      BY <3>2, <2>4
    <3>. QED BY <3>2, <3>3, <3>4, <2>3
  <2>8. CASE ~(f <= l /\ f <= m)
    <3>1. f = n /\ f - 1 = Least(l, m)
      BY <2>4, <2>8, <1>4 DEF Least
    <3>2. Before(t, a) <=> l < m
      BY <3>1, <2>6, <1>1, NoDifference
    <3>3. l # m
      <4>1. l = m => f = l + 1
        BY <3>1 DEF Least
      <4>. QED BY <4>1, <2>4, <1>2, <1>3
    <3>4. CASE l < m
      <4>1. f = l + 1 /\ f \in 1 .. m
        BY <3>1, <3>4 DEF Least
      <4>2. x[f] < y[f]
        BY <4>1, <1>2, <1>3, <1>7
      <4>. QED BY <4>2, <3>2, <3>3, <3>4, <2>3, <1>1
    <3>5. CASE m < l
      <4>1. f = m + 1 /\ f \in 1 .. l
        BY <3>1, <3>5 DEF Least
      <4>2. ~(x[f] < y[f])
        BY <4>1, <1>2, <1>3, <1>6
      <4>. QED BY <4>2, <3>2, <3>3, <3>5, <2>3, <1>1
    <3>. QED BY <3>3, <3>4, <3>5
  <2>. QED BY <2>7, <2>8
<1>. QED BY <1>8, <1>9

----------------------------------------------------------------------------
(* What the calls on strings and buffers return.                           *)
LEMMA StringsAreObjects ==
  ASSUME NEW o \in Strings
  PROVE  IsObject(o) /\ N(o) <= Classic /\ o = [length |-> o.length, data |-> o.data]
<1>1. PICK n \in {Small, Large} : o \in Objects(n, Chars)
  BY DEF Strings
<1>2. n \in Nat /\ n <= Classic
  BY CapacitiesAssumption, ClassicAssumption DEF ClassicAssumption
<1>3. o.length \in 0 .. n /\ o.data \in [1 .. n -> Chars] /\ o = [length |-> o.length, data |-> o.data]
  BY <1>1 DEF Objects
<1>4. o.data \in Text /\ Len(o.data) = n
  BY <1>2, <1>3, CharsAssumption DEF Text
<1>. QED BY <1>2, <1>3, <1>4 DEF IsObject, N

LEMMA ArraysAreTexts ==
  ASSUME NEW arr \in CharArrays
  PROVE  arr \in Text
<1>1. PICK m \in {Small, Large} : arr \in [1 .. m -> Chars]
  BY DEF CharArrays
<1>2. m \in Nat
  BY CapacitiesAssumption, ClassicAssumption DEF ClassicAssumption
<1>3. arr = [i \in 1 .. m |-> arr[i]] /\ \A i \in 1 .. m : arr[i] \in Nat
  BY <1>1, CharsAssumption
<1>. QED BY <1>2, <1>3 DEF Text

LEMMA ComparisonsAreTruths ==
  ASSUME NEW a, NEW b, NEW x, NEW y
  PROVE  equal(a, b) \in BOOLEAN /\ Before(x, y) \in BOOLEAN
BY DEF equal, Before

\* Each group of calls, by the facts of its operations.
LEMMA StringCallsMeanTexts ==
  ASSUME StringCall
  PROVE  StringsHoldTheirText'
<1>1. ASSUME NEW d \in Strings, NEW s \in Strings,
             call' = [op |-> "assign", d |-> d, s |-> s, result |-> Assign(d, s)]
      PROVE  StringsHoldTheirText'
  <2>1. call'.op = "assign" /\ call'.d = d /\ call'.s = s /\ call'.result = Assign(d, s)
    BY <1>1
  <2>. QED BY <2>1, StringsAreObjects, AssignFacts DEF StringsHoldTheirText
<1>2. ASSUME NEW d \in Strings, NEW s \in Strings,
             call' = [op |-> "assign", d |-> d, s |-> s, result |-> shortstring_assign(d, Value(s))]
      PROVE  StringsHoldTheirText'
  <2>1. call'.op = "assign" /\ call'.d = d /\ call'.s = s /\ call'.result = shortstring_assign(d, Value(s))
    BY <1>2
  <2>2. IsObject(d) /\ Value(s) \in Text
    BY StringsAreObjects, ValueFacts
  <2>. QED BY <2>1, <2>2, AssignTextFacts DEF StringsHoldTheirText
<1>3. ASSUME NEW d \in Strings, NEW s \in Strings,
             call' = [op |-> "concat", d |-> d, s |-> s, result |-> concat(d, s)]
      PROVE  StringsHoldTheirText'
  <2>1. call'.op = "concat" /\ call'.d = d /\ call'.s = s /\ call'.result = concat(d, s)
    BY <1>3
  <2>2. Value(concat(d, s)) = Cut(Value(d) \o Value(s), Classic)
    BY StringsAreObjects, ConcatFacts
  <2>. QED BY <2>1, <2>2 DEF StringsHoldTheirText
<1>4. ASSUME NEW d \in Strings, NEW s \in Strings,
             call' = [op |-> "compare", d |-> d, s |-> s, equal |-> equal(d, s), less |-> less(d, s),
                      greater |-> less(s, d), pos |-> pos(Value(s), Value(d))]
      PROVE  StringsHoldTheirText'
  <2>1. /\ call'.op = "compare" /\ call'.d = d /\ call'.s = s /\ call'.equal = equal(d, s)
        /\ call'.less = less(d, s) /\ call'.greater = less(s, d) /\ call'.pos = pos(Value(s), Value(d))
    BY <1>4
  <2>2. IsObject(d) /\ IsObject(s) /\ Value(d) \in Text /\ Value(s) \in Text
    BY StringsAreObjects, ValueFacts
  <2>3. /\ equal(d, s) <=> Value(d) = Value(s)
        /\ less(d, s) <=> Before(Value(d), Value(s))
        /\ less(s, d) <=> Before(Value(s), Value(d))
    BY <2>2, EqualIsTheSameText, LessIsBefore
  <2>4. /\ equal(d, s) = (Value(d) = Value(s))
        /\ less(d, s) = Before(Value(d), Value(s))
        /\ less(s, d) = Before(Value(s), Value(d))
    BY <2>2, <2>3, LessIsBefore, ComparisonsAreTruths
  <2>5. PICK p : p = pos(Value(s), Value(d))
    OBVIOUS
  <2>6. IF p = 0 THEN \A i \in 1 .. Len(Value(d)) + 1 : Part(Value(d), i, i + Len(Value(s)) - 1) # Value(s)
        ELSE Value(d) = Part(Value(d), 1, p - 1) \o Value(s) \o SubSeq(Value(d), p + Len(Value(s)), Len(Value(d)))
    BY <2>2, <2>5, PosIsAPlace
  <2>. QED BY <2>1, <2>4, <2>5, <2>6 DEF StringsHoldTheirText
<1>. QED BY <1>1, <1>2, <1>3, <1>4 DEF StringCall

LEMMA InsertCallsMeanTexts ==
  ASSUME InsertCall
  PROVE  StringsHoldTheirText'
<1>1. PICK d \in Strings, s \in Strings, at \in Counts : \E same \in {FALSE, d = s} :
        call' = [op |-> "insert", d |-> d, s |-> s, at |-> at, same |-> same, result |-> insert(s, d, at, same)]
  BY DEF InsertCall
<1>2. PICK same \in {FALSE, d = s} :
        call' = [op |-> "insert", d |-> d, s |-> s, at |-> at, same |-> same, result |-> insert(s, d, at, same)]
  BY <1>1
<1>3. /\ call'.op = "insert" /\ call'.d = d /\ call'.s = s /\ call'.at = at /\ call'.same = same
      /\ call'.result = insert(s, d, at, same)
  BY <1>2
<1>4. at \in Int /\ IsObject(d) /\ IsObject(s)
  BY StringsAreObjects, CapacitiesAssumption DEF Counts
<1>5. CASE same = FALSE
  <2>1. d.length + s.length <= N(d) => Value(insert(s, d, at, FALSE)) = Inserted(Value(s), Value(d), at)
    BY <1>4, InsertFacts
  <2>. QED BY <1>3, <1>5, <2>1 DEF StringsHoldTheirText
<1>6. CASE same # FALSE
  <2>1. same = TRUE
    BY <1>6, <1>2
  <2>. QED BY <1>3, <2>1 DEF StringsHoldTheirText
<1>. QED BY <1>5, <1>6

LEMMA SubstringCallsMeanTexts ==
  ASSUME SubstringCall
  PROVE  StringsHoldTheirText'
<1>1. PICK s \in Strings, at \in Counts, n \in Counts :
        \/ call' = [op |-> "copy", s |-> s, at |-> at, n |-> n, result |-> copy(s, at, n)]
        \/ call' = [op |-> "delete", s |-> s, at |-> at, n |-> n, result |-> delete(s, at, n)]
        \/ call' = [op |-> "delete", s |-> s, at |-> at, n |-> n,
                    result |-> BackThrough(s, delete(copy_of_ref(s, N(s)), at, n))]
        \/ /\ at = 1
           /\ call' = [op |-> "setlength", s |-> s, n |-> n, result |-> setlength(s, n)]
        \/ /\ at \in 0 .. N(s) /\ n \in Chars /\ n <= N(s)
           /\ call' = [op |-> "store", s |-> s, at |-> at, c |-> n, result |-> Stored(s, at, n),
                       read |-> CharAt(Stored(s, at, n), at)]
  BY DEF SubstringCall
<1>2. at \in Int /\ n \in Int /\ IsObject(s) /\ N(s) <= Classic
  BY StringsAreObjects, CapacitiesAssumption DEF Counts
<1>3. CASE call' = [op |-> "copy", s |-> s, at |-> at, n |-> n, result |-> copy(s, at, n)]
  <2>1. call'.op = "copy" /\ call'.s = s /\ call'.at = at /\ call'.n = n /\ call'.result = copy(s, at, n)
    BY <1>3
  <2>2. Value(copy(s, at, n)) = SubSeq(Value(s), Greatest(at, 1), Least(Greatest(at, 1) + n - 1, s.length))
    BY <1>2, CopyFacts
  <2>. QED BY <2>1, <2>2 DEF StringsHoldTheirText
<1>4. ASSUME NEW r, call' = [op |-> "delete", s |-> s, at |-> at, n |-> n, result |-> r],
             Value(r) = IF at < 1 \/ n < 1 THEN Value(s) ELSE Deleted(Value(s), at, n)
      PROVE  StringsHoldTheirText'
  <2>1. call'.op = "delete" /\ call'.s = s /\ call'.at = at /\ call'.n = n /\ call'.result = r
    BY <1>4
  <2>. QED BY <2>1, <1>4 DEF StringsHoldTheirText
<1>5. CASE call' = [op |-> "delete", s |-> s, at |-> at, n |-> n, result |-> delete(s, at, n)]
  BY <1>2, <1>4, <1>5, DeleteFacts
<1>6. CASE call' = [op |-> "delete", s |-> s, at |-> at, n |-> n,
                    result |-> BackThrough(s, delete(copy_of_ref(s, N(s)), at, n))]
  BY <1>2, <1>4, <1>6, DeleteThroughFacts
<1>7. CASE call' = [op |-> "setlength", s |-> s, n |-> n, result |-> setlength(s, n)]
  <2>1. call'.op = "setlength" /\ call'.s = s /\ call'.n = n /\ call'.result = setlength(s, n)
    BY <1>7
  <2>2. Value(setlength(s, n)) = Padded(Value(s), Within(n, 0, N(s)))
    BY <1>2, SetLengthFacts
  <2>. QED BY <2>1, <2>2 DEF StringsHoldTheirText
<1>8. CASE /\ at \in 0 .. N(s) /\ n \in Chars /\ n <= N(s)
           /\ call' = [op |-> "store", s |-> s, at |-> at, c |-> n, result |-> Stored(s, at, n),
                       read |-> CharAt(Stored(s, at, n), at)]
  <2>1. call'.op = "store" /\ call'.c = n /\ call'.read = CharAt(Stored(s, at, n), at)
    BY <1>8
  <2>2. CharAt(Stored(s, at, n), at) = n
    BY <1>2, <1>8, StringsAreObjects, StoreFacts
  <2>. QED BY <2>1, <2>2 DEF StringsHoldTheirText
<1>. QED BY <1>1, <1>3, <1>5, <1>6, <1>7, <1>8

LEMMA BufferCallsMeanTexts ==
  ASSUME BufferCall
  PROVE  BuffersHoldTheText'
<1>1. PICK s \in Strings, arr \in CharArrays :
        \/ call' = [op |-> "to_array", s |-> s, m |-> Len(arr), result |-> array_of_string(Len(arr), s)]
        \/ \E lo \in {0, 1} :
             call' = [op |-> "from_array", s |-> s, arr |-> arr, lo |-> lo, result |-> string_of_array(s, lo, arr)]
        \/ call' = [op |-> "equals_array", s |-> s, arr |-> arr, result |-> array_equals_string(arr, s)]
        \/ call' = [op |-> "strpas", s |-> s, arr |-> arr, result |-> of_pchar(N(s), Append(arr, 0)),
                    length |-> strlen(Append(arr, 0))]
        \/ \E n \in -1 .. Len(arr) :
             call' = [op |-> "setstring", s |-> s, arr |-> arr, n |-> n, result |-> setstring(s, arr, n)]
        \/ call' = [op |-> "readln", s |-> s, arr |-> arr, result |-> readln(s, arr)]
        \/ /\ Len(arr) > s.length
           /\ call' = [op |-> "strpcopy", s |-> s, arr |-> arr, result |-> strpcopy(arr, s),
                       order |-> strcomp(strpcopy(arr, s), Append(arr, 0))]
  BY DEF BufferCall
<1>2. /\ IsObject(s) /\ arr \in Text /\ Len(arr) \in Nat
      /\ Value(s) \in Text /\ Len(Value(s)) = s.length /\ N(s) \in Nat
  BY StringsAreObjects, ArraysAreTexts, ValueFacts, TextFacts
<1>3. CASE call' = [op |-> "to_array", s |-> s, m |-> Len(arr), result |-> array_of_string(Len(arr), s)]
  <2>1. call'.op = "to_array" /\ call'.s = s /\ call'.m = Len(arr) /\ call'.result = array_of_string(Len(arr), s)
    BY <1>3
  <2>2. /\ array_of_string(Len(arr), s) = Padded(Value(s), Len(arr))
        /\ 0 \notin ToSet(Value(s))
           => Value(string_of_array(s, 0, Padded(Value(s), Len(arr)))) = Cut(Value(s), Len(arr))
    BY <1>2, ToArrayFacts
  <2>. QED BY <2>1, <2>2 DEF BuffersHoldTheText
<1>4. ASSUME NEW lo \in {0, 1},
             call' = [op |-> "from_array", s |-> s, arr |-> arr, lo |-> lo, result |-> string_of_array(s, lo, arr)]
      PROVE  BuffersHoldTheText'
  <2>1. /\ call'.op = "from_array" /\ call'.s = s /\ call'.arr = arr /\ call'.lo = lo
        /\ call'.result = string_of_array(s, lo, arr)
    BY <1>4
  <2>2. CASE lo = 1
    <3>1. Value(string_of_array(s, 1, arr)) = Cut(arr, N(s))
      BY <1>2, FromArrayFacts
    <3>. QED BY <2>1, <2>2, <3>1 DEF BuffersHoldTheText
  <2>3. CASE lo = 0
    <3>1. PICK r : r = string_of_array(s, 0, arr)
      OBVIOUS
    <3>2. PICK z : z = Value(r)
      OBVIOUS
    <3>3. PICK c \in Text : c = Cut(arr, N(s)) /\ Len(c) = Least(Len(arr), N(s))
                            /\ \A i \in 1 .. Len(c) : c[i] = arr[i]
      <4>1. /\ Cut(arr, N(s)) \in Text /\ Len(Cut(arr, N(s))) = Least(Len(arr), N(s))
            /\ \A i \in 1 .. Least(Len(arr), N(s)) : Cut(arr, N(s))[i] = arr[i]
        BY <1>2, CutFacts
      <4>2. \A i \in 1 .. Len(Cut(arr, N(s))) : Cut(arr, N(s))[i] = arr[i]
        BY <4>1
      <4>. QED BY <4>1, <4>2
    <3>4. UpToNul(z, c) /\ r.length = Len(z)
      BY <1>2, <3>1, <3>2, <3>3, FromArrayFacts
    <3>5. /\ z \in Text /\ Len(z) <= Len(c) /\ z = SubSeq(c, 1, Len(z)) /\ 0 \notin ToSet(SubSeq(c, 1, Len(z)))
          /\ Len(z) = Len(c) \/ c[Len(z) + 1] = 0
      BY <3>4, UpToNulIsFree
    <3>6. z = Cut(arr, Len(z))
      <4>1. PICK k \in Nat, m \in Nat : k = Len(z) /\ m = Len(arr) /\ k <= m /\ k <= Len(c)
        <5>1. Len(z) \in Nat /\ Len(c) \in Nat /\ Len(z) <= Len(c)
          BY <3>3, <3>5, TextFacts
        <5>2. Len(c) <= Len(arr)
          BY <1>2, <3>3 DEF Least
        <5>. QED BY <5>1, <5>2, <1>2
      <4>2. Least(Len(arr), k) = k
        BY <4>1 DEF Least
      <4>3. /\ Cut(arr, k) \in Text /\ Len(Cut(arr, k)) = Least(Len(arr), k)
            /\ \A i \in 1 .. Least(Len(arr), k) : Cut(arr, k)[i] = arr[i]
        BY <1>2, CutFacts
      <4>4. \A i \in 1 .. k : z[i] = arr[i]
        <5>1. \A i \in 1 .. k : i \in 1 .. Len(c)
          BY <4>1, <3>3, TextFacts
        <5>2. \A i \in 1 .. k : z[i] = c[i]
          BY <3>4, <4>1 DEF UpToNul
        <5>. QED BY <5>1, <5>2, <3>3
      <4>. QED BY <4>1, <4>2, <4>3, <4>4, <3>5, SameText
    <3>. QED BY <2>1, <2>3, <3>1, <3>2, <3>3, <3>4, <3>5, <3>6 DEF BuffersHoldTheText
  <2>. QED BY <2>2, <2>3
<1>5. CASE call' = [op |-> "equals_array", s |-> s, arr |-> arr, result |-> array_equals_string(arr, s)]
  <2>1. /\ call'.op = "equals_array" /\ call'.s = s /\ call'.arr = arr
        /\ call'.result = array_equals_string(arr, s)
    BY <1>5
  <2>2. array_equals_string(arr, s) \in BOOLEAN
    BY DEF array_equals_string
  <2>3. ~(Value(s) # <<>> /\ Value(s)[Len(Value(s))] = 0)
        => (array_equals_string(arr, s) <=> (Len(Value(s)) <= Len(arr) /\ arr = Padded(Value(s), Len(arr))))
    BY <1>2, EqualsArrayFacts
  <2>4. ~(Value(s) # <<>> /\ Value(s)[Len(Value(s))] = 0)
        => array_equals_string(arr, s) = (Len(Value(s)) <= Len(arr) /\ arr = Padded(Value(s), Len(arr)))
    BY <2>2, <2>3
  <2>. QED BY <2>1, <2>4 DEF BuffersHoldTheText
<1>6. CASE call' = [op |-> "strpas", s |-> s, arr |-> arr, result |-> of_pchar(N(s), Append(arr, 0)),
                    length |-> strlen(Append(arr, 0))]
  <2>1. /\ call'.op = "strpas" /\ call'.s = s /\ call'.arr = arr
        /\ call'.result = of_pchar(N(s), Append(arr, 0)) /\ call'.length = strlen(Append(arr, 0))
    BY <1>6
  <2>2. PICK z : z = BeforeNul(Append(arr, 0))
    OBVIOUS
  <2>3. UpToNul(z, arr) /\ Value(of_pchar(N(s), Append(arr, 0))) = Cut(z, N(s))
    BY <1>2, <2>2, StrpasFacts
  <2>4. strlen(Append(arr, 0)) = Len(z)
    BY <2>2 DEF strlen
  <2>5. /\ z \in Text /\ Len(z) <= Len(arr) /\ z = SubSeq(arr, 1, Len(z)) /\ 0 \notin ToSet(SubSeq(arr, 1, Len(z)))
        /\ Len(z) = Len(arr) \/ arr[Len(z) + 1] = 0
    BY <1>2, <2>3, UpToNulIsFree
  <2>. QED BY <2>1, <2>3, <2>4, <2>5 DEF BuffersHoldTheText
<1>7. ASSUME NEW n \in -1 .. Len(arr),
             call' = [op |-> "setstring", s |-> s, arr |-> arr, n |-> n, result |-> setstring(s, arr, n)]
      PROVE  BuffersHoldTheText'
  <2>1. call'.op = "setstring" /\ call'.s = s /\ call'.arr = arr /\ call'.n = n /\ call'.result = setstring(s, arr, n)
    BY <1>7
  <2>2. n \in Int /\ n <= Len(arr)
    BY <1>2
  <2>3. Value(setstring(s, arr, n)) = Cut(Part(arr, 1, n), N(s))
    BY <1>2, <2>2, SetStringFacts
  <2>. QED BY <2>1, <2>3 DEF BuffersHoldTheText
<1>8. CASE call' = [op |-> "readln", s |-> s, arr |-> arr, result |-> readln(s, arr)]
  <2>1. call'.op = "readln" /\ call'.s = s /\ call'.arr = arr /\ call'.result = readln(s, arr)
    BY <1>8
  <2>2. Value(readln(s, arr)) = Cut(arr, N(s))
    BY <1>2, AssignTextFacts DEF readln
  <2>. QED BY <2>1, <2>2 DEF BuffersHoldTheText
<1>9. CASE /\ Len(arr) > s.length
           /\ call' = [op |-> "strpcopy", s |-> s, arr |-> arr, result |-> strpcopy(arr, s),
                       order |-> strcomp(strpcopy(arr, s), Append(arr, 0))]
  <2>1. /\ call'.op = "strpcopy" /\ call'.s = s /\ call'.arr = arr /\ call'.result = strpcopy(arr, s)
        /\ call'.order = strcomp(strpcopy(arr, s), Append(arr, 0))
    BY <1>9
  <2>2. PICK t, a : t = BeforeNul(strpcopy(arr, s)) /\ a = BeforeNul(Append(arr, 0))
    OBVIOUS
  <2>3. UpToNul(t, Value(s)) /\ UpToNul(a, arr)
    BY <1>2, <1>9, <2>2, StrpcopyFacts, StrpasFacts
  <2>4. strlen(strpcopy(arr, s)) = Len(t) /\ strlen(Append(arr, 0)) = Len(a)
    BY <2>2 DEF strlen
  <2>5. /\ t \in Text /\ Len(t) <= Len(Value(s)) /\ t = SubSeq(Value(s), 1, Len(t))
        /\ 0 \notin ToSet(SubSeq(Value(s), 1, Len(t)))
        /\ Len(t) = Len(Value(s)) \/ Value(s)[Len(t) + 1] = 0
        /\ a \in Text /\ a = SubSeq(arr, 1, Len(a))
    BY <1>2, <2>3, UpToNulIsFree
  <2>6. (\A i \in 1 .. Len(t) : t[i] # 0) /\ (\A i \in 1 .. Len(a) : a[i] # 0)
    BY <2>3 DEF UpToNul
  <2>7. strcomp(strpcopy(arr, s), Append(arr, 0)) = IF t = a THEN 0 ELSE IF Before(t, a) THEN -1 ELSE 1
    BY <2>2, <2>5, <2>6, StrcompFacts
  <2>. QED BY <2>1, <2>4, <2>5, <2>7 DEF BuffersHoldTheText
<1>. QED BY <1>1, <1>3, <1>4, <1>5, <1>6, <1>7, <1>8, <1>9

\* The calls on anything else are of other operations.
StringOperations == {"assign", "concat", "compare", "insert", "copy", "delete", "setlength", "store"}
LEMMA OtherCallsAreNotOfStrings ==
         /\ SetCall \/ BufferCall => call'.op \notin StringOperations
         /\ NumberCall \/ TimeCall => call'.op \notin StringOperations
         /\ CommandCall \/ PathCall \/ CaseCall => call'.op \notin StringOperations
<1>1. SetCall => call'.op \notin StringOperations
  BY DEF SetCall, StringOperations
<1>2. BufferCall => call'.op \notin StringOperations
  BY DEF BufferCall, StringOperations
<1>3. NumberCall => call'.op \notin StringOperations
  BY DEF NumberCall, StringOperations
<1>4. TimeCall => call'.op \notin StringOperations
  BY DEF TimeCall, StringOperations
<1>5. CommandCall => call'.op \notin StringOperations
  BY DEF CommandCall, StringOperations
<1>6. PathCall => call'.op \notin StringOperations
  BY DEF PathCall, StringOperations
<1>7. CaseCall => call'.op \notin StringOperations
  BY DEF CaseCall, StringOperations
<1>. QED BY <1>1, <1>2, <1>3, <1>4, <1>5, <1>6, <1>7

(* Strings are texts: whatever operation a program calls on strings of any two
   capacities, in whatever state earlier values left the storage, it means the
   operation on texts, and texts go into buffers and back as the buffers can hold
   them.  (tp2cc_ShortString, tp2cc_Array, p_strpas, p_strpcopy, p_strcomp.) *)
THEOREM TextCorrect == Spec => []TextIsWithinItsLength
<1>1. Init => TextIsWithinItsLength
  BY DEF Init, Idle, TextIsWithinItsLength, StringsHoldTheirText, BuffersHoldTheText
<1>2. TextIsWithinItsLength /\ [Next]_valueVars => TextIsWithinItsLength'
  <2>. SUFFICES ASSUME TextIsWithinItsLength, [Next]_valueVars PROVE TextIsWithinItsLength'
    OBVIOUS
  <2>1. CASE call' = call /\ part' = part
    <3>1. StringsHoldTheirText'
      BY <2>1 DEF TextIsWithinItsLength, StringsHoldTheirText
    <3>2. BuffersHoldTheText'
      BY <2>1 DEF TextIsWithinItsLength, BuffersHoldTheText
    <3>. QED BY <3>1, <3>2 DEF TextIsWithinItsLength
  <2>2. CASE part' # "buffers" /\ (StringCall \/ InsertCall \/ SubstringCall)
    <3>1. BuffersHoldTheText'
      BY <2>2 DEF BuffersHoldTheText
    <3>. QED BY <2>2, <3>1, StringCallsMeanTexts, InsertCallsMeanTexts, SubstringCallsMeanTexts
         DEF TextIsWithinItsLength
  <2>3. CASE BufferCall
    <3>1. StringsHoldTheirText'
      BY <2>3, OtherCallsAreNotOfStrings DEF StringsHoldTheirText, StringOperations
    <3>. QED BY <2>3, <3>1, BufferCallsMeanTexts DEF TextIsWithinItsLength
  <2>4. CASE part' # "buffers" /\ call'.op \notin StringOperations
    BY <2>4 DEF TextIsWithinItsLength, StringsHoldTheirText, BuffersHoldTheText, StringOperations
  <2>. QED BY <2>1, <2>2, <2>3, <2>4, OtherCallsAreNotOfStrings DEF Next, Call, valueVars
<1>. QED BY <1>1, <1>2, PTL DEF Spec
=============================================================================
