----------------------------- MODULE DynArrays -----------------------------
(***************************************************************************)
(* tp2cc_DynArray of prelude.h: a shared pointer to elements and a count.  *)
(* SetLength allocates anew each time, even when nothing else points to    *)
(* the elements.  A block without a pointer to it is freed and its number  *)
(* may be given again.                                                     *)
(***************************************************************************)
EXTENDS Integers, Sequences, FiniteSets

CONSTANTS Variables, Elements, MaxLength, Blocks

Nil == "nil"

ASSUME ArraysAssumption ==
  /\ 0 \in Elements /\ Nil \notin Blocks
  /\ IsFiniteSet(Variables) /\ IsFiniteSet(Blocks)
  /\ Cardinality(Blocks) > Cardinality(Variables)

VARIABLES data,                \* the block each variable points to, or "nil"
          counts,              \* the count beside the pointer
          heap,                \* the elements of each block
          asked                \* the statement that ran last

arrayVars == <<data, counts, heap, asked>>

ArraysInit ==
  /\ data = [v \in Variables |-> Nil] /\ counts = [v \in Variables |-> 0]
  /\ heap = [b \in Blocks |-> <<>>] /\ asked = <<"nothing">>

Live(pointers) == {pointers[v] : v \in Variables} \ {Nil}
Freed(pointers, h) == [b \in Blocks |-> IF b \in Live(pointers) THEN h[b] ELSE <<>>]

Points(v, b, n, h) ==
  /\ data' = [data EXCEPT ![v] = b]
  /\ counts' = [counts EXCEPT ![v] = n]
  /\ heap' = Freed(data', h)
\* Which of the free blocks it is makes no difference.
Free == CHOOSE b \in Blocks : b \notin Live(data)
Allocated(v, s) == IF s = <<>> THEN Points(v, Nil, 0, heap)
                   ELSE Points(v, Free, Len(s), [heap EXCEPT ![Free] = s])

At(v, i) == heap[data[v]][i]
Kept(v, n) == [i \in 1 .. n |-> IF i <= counts[v] THEN At(v, i) ELSE 0]
\* Mutant: nothing to do when the length is the same.
SetLengthOfShared(v, n) == IF n = counts[v] THEN UNCHANGED <<data, counts, heap>> ELSE Allocated(v, Kept(v, n))
SetLength(v, n) == Allocated(v, Kept(v, n))
AssignNil(v) == Points(v, Nil, 0, heap)
AssignFixed(v, s) == Allocated(v, s)
AssignArray(v, w) == Points(v, data[w], counts[w], heap)
Copy(v, w) == Allocated(v, Kept(w, counts[w]))
Store(v, i, x) ==
  /\ i <= counts[v]
  /\ heap' = [heap EXCEPT ![data[v]][i] = x]
  /\ UNCHANGED <<data, counts>>

ArraysNext ==
  \E v \in Variables :
    \/ \E n \in -1 .. MaxLength : SetLength(v, n) /\ asked' = <<"SetLength", v, n>>
    \/ AssignNil(v) /\ asked' = <<"Clear", v>>
    \/ \E n \in 0 .. MaxLength : \E s \in [1 .. n -> Elements] :
         AssignFixed(v, s) /\ asked' = <<"AssignFixed", v, s>>
    \/ \E w \in Variables :
         \/ AssignArray(v, w) /\ asked' = <<"Assign", v, w>>
         \/ Copy(v, w) /\ asked' = <<"Copy", v, w>>
    \/ \E i \in 1 .. MaxLength, x \in Elements : Store(v, i, x) /\ asked' = <<"Store", v, i, x>>

ArraysSpec == ArraysInit /\ [][ArraysNext]_arrayVars

(* What the program sees of the pointers. *)
Contents == [v \in Variables |-> IF data[v] = Nil THEN <<>> ELSE heap[data[v]]]
Sharers == [v \in Variables |-> {w \in Variables : w = v \/ (data[w] = data[v] /\ data[v] # Nil)}]
Pascal == INSTANCE PascalArrays WITH value <- Contents, group <- Sharers

(* Arrays behave as Pascal's dynamic arrays do: a store is seen by exactly the
   variables that share the elements, and SetLength and Copy give a variable
   elements of its own, the ones added being zero.  (tp2cc_DynArray,
   p_setlength, p_copy.) *)
ArraysKeepTheirPromise == Pascal!Spec
============================================================================
