---------------------------- MODULE ShortStrings ----------------------------
(***************************************************************************)
(* tp2cc_ShortString<N> of prelude.h: a length byte and N characters, of   *)
(* which only the first length are the string; the others are what earlier *)
(* values left there.  Also arrays of characters and pointers to           *)
(* characters, which strings are assigned to and from.                     *)
(*                                                                         *)
(* A character is a number, 0 the NUL.  A string object is a record, a     *)
(* text a sequence of characters.                                          *)
(***************************************************************************)
EXTENDS Integers, Sequences, SequencesExt

CONSTANT Classic               \* the capacity of `string`: 255 in the source

ClassicAssumption == Classic \in Nat \ {0}
ASSUME ClassicAssumption

Least(a, b) == IF a < b THEN a ELSE b
Greatest(a, b) == IF a < b THEN b ELSE a
Within(x, low, high) == Greatest(low, Least(x, high))

N(s) == Len(s.data)
Value(s) == SubSeq(s.data, 1, s.length)
Objects(n, Chars) == [length : 0 .. n, data : [1 .. n -> Chars]]

(* Construction from a text: what does not fit is dropped, the rest is zero. *)
shortstring_of(n, text) ==
    [length |-> Least(Len(text), n), data |-> [i \in 1 .. n |-> IF i <= Len(text) THEN text[i] ELSE 0]]
(* From a PChar: up to the NUL. *)
BeforeNul(bytes) == IF 0 \in {bytes[i] : i \in DOMAIN bytes}
                    THEN SubSeq(bytes, 1, (CHOOSE i \in DOMAIN bytes : bytes[i] = 0 /\ \A j \in 1 .. i - 1 : bytes[j] # 0) - 1)
                    ELSE bytes
of_pchar(n, bytes) == shortstring_of(n, BeforeNul(bytes))

(* Writing a text into an object: the characters beyond it stay. *)
Overwritten(data, text) == [i \in DOMAIN data |-> IF i <= Len(text) THEN text[i] ELSE data[i]]
shortstring_assign(s, text) ==
    LET cut == SubSeq(text, 1, Least(Len(text), N(s)))
    IN [length |-> Len(cut), data |-> Overwritten(s.data, cut)]
(* `s := t`: an object of the same type is copied whole, another is converted. *)
Assign(s, t) == IF N(s) = N(t) THEN t ELSE shortstring_of(N(s), Value(t))
setstring(s, bytes, len) == shortstring_assign(s, SubSeq(bytes, 1, Within(len, 0, N(s))))
readln(s, line) == shortstring_assign(s, line)

(* s[i] with 0 the length byte; through a pointer to a string the same bytes. *)
CharAt(s, i) == IF i = 0 THEN s.length ELSE s.data[i]
Stored(s, i, c) == IF i = 0 THEN [s EXCEPT !.length = c] ELSE [s EXCEPT !.data[i] = c]

equal(a, b) == a.length = b.length /\ \A i \in 1 .. a.length : a.data[i] = b.data[i]
less(a, b) ==
    LET differ == {i \in 1 .. Least(a.length, b.length) : a.data[i] # b.data[i]}
        first == CHOOSE i \in differ : \A j \in differ : i <= j
    IN IF differ = {} THEN a.length < b.length ELSE a.data[first] < b.data[first]

concat(a, b) == shortstring_of(Least(N(a) + N(b), Classic), Value(a) \o Value(b))

setlength(s, n) ==
    LET new == Within(n, 0, N(s))
    IN [length |-> new, data |-> [i \in DOMAIN s.data |-> IF s.length < i /\ i <= new THEN 0 ELSE s.data[i]]]

copy(s, start, count) ==
    LET from == Greatest(start, 1)
    IN shortstring_of(Classic, SubSeq(s.data, from, from - 1 + Within(count, 0, Greatest(s.length - from + 1, 0))))

delete(s, start, count) ==
    LET tail == s.length - (start - 1) - count
    IN IF start < 1 \/ start > s.length \/ count <= 0 THEN s
       ELSE IF tail < 0 THEN [s EXCEPT !.length = start - 1]
       ELSE [length |-> s.length - count,
             data |-> [i \in DOMAIN s.data |->
                         IF start <= i /\ i < start + tail THEN s.data[i + count] ELSE s.data[i]]]

(* The tail moves up by what the string grows, then the source is copied into
   the gap one character after the other.  When the source is the string
   itself, the copy reads what it has just written. *)
insert(src, dest, pos, same) ==
    LET at == Within(pos, 1, dest.length + 1)
        need == Least(dest.length + src.length, N(dest))
        shift == Greatest(need - dest.length, 0)
        moved == [i \in DOMAIN dest.data |->
                    IF at + src.length <= i /\ i <= need THEN dest.data[i - shift] ELSE dest.data[i]]
        from == IF same THEN moved ELSE src.data
        source(k) == IF same /\ at > 1 THEN from[((k - 1) % (at - 1)) + 1] ELSE from[k]
    IN [length |-> need,
        data |-> [i \in DOMAIN moved |->
                    IF at <= i /\ i < at + src.length THEN source(i - at + 1) ELSE moved[i]]]

(* Operations through a pointer or a var parameter of another capacity work on
   a copy and assign it back to the bytes of the object. *)
copy_of_ref(s, cap) == shortstring_of(cap, Value(s))
BackThrough(s, t) == [length |-> t.length, data |-> Overwritten(s.data, Value(t))]

pos(needle, hay) ==
    LET found == {i \in 1 .. Len(hay) - Len(needle) + 1 : SubSeq(hay, i, i + Len(needle) - 1) = needle}
    IN IF found = {} THEN 0 ELSE CHOOSE i \in found : \A j \in found : i <= j

----------------------------------------------------------------------------
(* Arrays of characters: lo is the first index. *)
array_of_string(m, s) == [i \in 1 .. m |-> IF i <= s.length THEN s.data[i] ELSE 0]
\* Mutant: an array from 0 is taken whole, what follows its NUL too.
string_of_arrayWhole(s, lo, arr) == shortstring_assign(s, SubSeq(arr, 1, Least(Len(arr), N(s))))
string_of_array(s, lo, arr) ==
    LET cut == SubSeq(arr, 1, Least(Len(arr), N(s)))
    IN shortstring_assign(s, IF lo = 0 THEN BeforeNul(cut) ELSE cut)
LogicalLength(arr) == CHOOSE n \in 0 .. Len(arr) : /\ n > 0 => arr[n] # 0
                                                   /\ \A i \in n + 1 .. Len(arr) : arr[i] = 0
array_equals_string(arr, s) == SubSeq(arr, 1, LogicalLength(arr)) = Value(s)
strlen(bytes) == Len(BeforeNul(bytes))
strpcopy(dest, s) == Overwritten(dest, Append(Value(s), 0))
strcomp(a, b) ==
    LET x == Append(BeforeNul(a), 0) y == Append(BeforeNul(b), 0)
        differ == {i \in 1 .. Least(Len(x), Len(y)) : x[i] # y[i]}
        first == CHOOSE i \in differ : \A j \in differ : i <= j
    IN IF differ = {} THEN 0 ELSE IF x[first] < y[first] THEN -1 ELSE 1
============================================================================
