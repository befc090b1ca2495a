---------------------------- MODULE PascalArrays ----------------------------
(***************************************************************************)
(* What dynamic arrays promise a Pascal program.  A variable holds a       *)
(* sequence and shares it with the variables it was assigned to or from: a *)
(* store through one is seen by all of them.  SetLength and Copy end the   *)
(* sharing.  An empty array is shared with nobody.                         *)
(***************************************************************************)
EXTENDS Integers, Sequences

CONSTANTS Variables, Elements, MaxLength

VARIABLES value,               \* the elements of each variable
          group,               \* the variables that share them, itself included
          asked                \* the statement that ran last

arrayVars == <<value, group, asked>>

Resized(s, n) == [i \in 1 .. n |-> IF i <= Len(s) THEN s[i] ELSE 0]

Init == value = [v \in Variables |-> <<>>] /\ group = [v \in Variables |-> {v}]
        /\ asked = <<"nothing">>

(* v leaves its group for another, which may be a group of its own. *)
Moves(v, others, s) ==
  /\ value' = [value EXCEPT ![v] = s]
  /\ group' = [w \in Variables |->
                 IF w = v \/ w \in others THEN others \cup {v} ELSE group[w] \ {v}]

SetLength(v, n) == Moves(v, {}, Resized(value[v], n))
Clear(v) == Moves(v, {}, <<>>)
AssignFixed(v, s) == Moves(v, {}, s)
Copy(v, w) == Moves(v, {}, value[w])
Assign(v, w) == Moves(v, IF value[w] = <<>> THEN {} ELSE group[w], value[w])
Store(v, i, x) ==
  /\ i \in DOMAIN value[v]
  /\ value' = [w \in Variables |-> IF w \in group[v] THEN [value[w] EXCEPT ![i] = x] ELSE value[w]]
  /\ UNCHANGED group

Next ==
  \E v \in Variables :
    \/ asked' = <<"Clear", v>> /\ Clear(v)
    \/ \E n \in -1 .. MaxLength : asked' = <<"SetLength", v, n>> /\ SetLength(v, n)
    \/ \E s \in UNION {[1 .. n -> Elements] : n \in 0 .. MaxLength} :
         asked' = <<"AssignFixed", v, s>> /\ AssignFixed(v, s)
    \/ \E w \in Variables :
         \/ asked' = <<"Assign", v, w>> /\ Assign(v, w)
         \/ asked' = <<"Copy", v, w>> /\ Copy(v, w)
    \/ \E i \in 1 .. MaxLength, x \in Elements : asked' = <<"Store", v, i, x>> /\ Store(v, i, x)

Spec == Init /\ [][Next]_arrayVars
============================================================================
