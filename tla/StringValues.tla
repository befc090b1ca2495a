--------------------------- MODULE StringValues ---------------------------
(***************************************************************************)
(* What Pascal promises of its long strings: each variable has a value of  *)
(* its own, whatever the others do.  place is the character that a PChar   *)
(* designates, the index in the string it was taken from, until that       *)
(* string is next assigned, written, copied or has its address taken.      *)
(***************************************************************************)
EXTENDS Integers, Sequences, SequencesExt

CONSTANTS Vars, Chars,
          Nul,       \* what SetLength appends
          MaxLength  \* bound on the length of a string

VARIABLES value, place
vars == <<value, place>>

Strings == UNION {[1 .. n -> Chars] : n \in 0 .. MaxLength}
NoPlace == [of |-> "nobody", index |-> 0]

Least(a, b) == IF a < b THEN a ELSE b
Resized(s, n) == [k \in 1 .. n |-> IF k <= Len(s) THEN s[k] ELSE Nul]
\* s with c at the n positions from i on.
Filled(s, i, n, c) == [k \in DOMAIN s |-> IF k >= i /\ k < i + n THEN c ELSE s[k]]
\* d with the n characters of s from i on at the positions from j on.
Moved(s, i, d, j, n) == [k \in DOMAIN d |-> IF k >= j /\ k < j + n THEN s[i + k - j] ELSE d[k]]
Part(s, i, n) == SubSeq(s, i, Least(i + n - 1, Len(s)))
Without(s, i, n) == SubSeq(s, 1, i - 1) \o SubSeq(s, i + n, Len(s))
With(s, t, i) == SubSeq(s, 1, i - 1) \o t \o SubSeq(s, i, Len(s))
\* The n characters from i on are within s.
Within(s, i, n) == i >= 1 /\ n >= 0 /\ i + n - 1 <= Len(s)

Init == /\ value = [v \in Vars |-> <<>>]
        /\ place = NoPlace

Uses(v) == place # NoPlace /\ place.of = v
Gets(v, s) == /\ value' = [value EXCEPT ![v] = s]
              /\ place' = IF Uses(v) THEN NoPlace ELSE place

AssignText(v, s) == Gets(v, s)
AssignString(d, s) == /\ value' = [value EXCEPT ![d] = value[s]]
                      /\ place' = IF Uses(d) \/ Uses(s) THEN NoPlace ELSE place
SetLength(v, n) == n <= MaxLength /\ Gets(v, Resized(value[v], n))
SetChar(v, i, c) == Within(value[v], i, 1) /\ Gets(v, Filled(value[v], i, 1, c))
Concat(d, a, b) == Len(value[a]) + Len(value[b]) <= MaxLength /\ Gets(d, value[a] \o value[b])
Copy(d, s, i, n) == Gets(d, Part(value[s], i, n))
Delete(v, i, n) == IF i <= Len(value[v]) /\ n > 0 THEN Gets(v, Without(value[v], i, n)) ELSE UNCHANGED vars
Insert(s, d, i) ==
    IF value[s] = <<>> THEN UNCHANGED vars
    ELSE /\ Len(value[s]) + Len(value[d]) <= MaxLength
         /\ Gets(d, With(value[d], value[s], Least(i, Len(value[d]) + 1)))
SetString(d, n) ==
    /\ place # NoPlace /\ Within(value[place.of], place.index, n)
    /\ Gets(d, Part(value[place.of], place.index, n))
Fill(v, i, n, c) == Within(value[v], i, n) /\ Gets(v, Filled(value[v], i, n, c))
Move(s, i, d, j, n) ==
    /\ Within(value[s], i, n) /\ Within(value[d], j, n)
    /\ value' = [value EXCEPT ![d] = Moved(value[s], i, value[d], j, n)]
    /\ place' = IF Uses(s) \/ Uses(d) THEN NoPlace ELSE place
TakeAddress(v, i) == /\ Within(value[v], i, 1)
                     /\ place' = [of |-> v, index |-> i]
                     /\ UNCHANGED value
StoreThrough(c) == /\ place # NoPlace
                   /\ value' = [value EXCEPT ![place.of] = Filled(@, place.index, 1, c)]
                   /\ UNCHANGED place

Positions == 1 .. MaxLength
Counts == 0 .. MaxLength
Next == \/ \E v \in Vars : \/ \E s \in Strings : AssignText(v, s)
                           \/ \E n \in Counts : SetLength(v, n)
                           \/ \E i \in Positions, c \in Chars : SetChar(v, i, c)
                           \/ \E i \in Positions, n \in Counts : Delete(v, i, n)
                           \/ \E i \in Positions, n \in Counts, c \in Chars : Fill(v, i, n, c)
                           \/ \E i \in Positions : TakeAddress(v, i)
                           \/ \E n \in Counts : SetString(v, n)
        \/ \E d, s \in Vars : \/ AssignString(d, s)
                              \/ \E i \in Positions, n \in Counts : Copy(d, s, i, n)
                              \/ \E i \in Positions : Insert(s, d, i)
                              \/ \E i, j \in Positions, n \in Counts : Move(s, i, d, j, n)
                              \/ \E t \in Vars : Concat(d, s, t)
        \/ \E c \in Chars : StoreThrough(c)

Spec == Init /\ [][Next]_vars
============================================================================
