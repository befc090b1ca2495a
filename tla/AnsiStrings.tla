---------------------------- MODULE AnsiStrings ----------------------------
(***************************************************************************)
(* tp2cc_AnsiString of prelude.h.  A string is one pointer to its payload. *)
(* Copying a string copies the pointer, every write first gives the string *)
(* a fresh buffer, and no buffer is freed before the program exits.        *)
(*                                                                         *)
(* A program with a few string variables runs operations in any order.  It *)
(* keeps to Pascal: indices are within the string, and a PChar into a      *)
(* string is used until that string is next assigned, written, copied or   *)
(* has its address taken.                                                  *)
(***************************************************************************)
EXTENDS Integers, Sequences, SequencesExt

CONSTANTS Vars, Chars, Nul,
          MaxLength,    \* bound on the length of a string
          MaxBuffers    \* bound on the buffers that are allocated

ASSUME StringsAssumption ==
  /\ Nul \in Chars /\ "nobody" \notin Vars
  /\ MaxLength \in Nat /\ MaxBuffers \in Nat

VARIABLES data,  \* the payload pointer of each variable
          heap,  \* the text of each buffer, in order of allocation
          pchar  \* a pointer to a character
vars == <<data, heap, pchar>>

\* Payload pointers that no allocation returns: that of a zeroed variable, and
\* the static byte that stands for the empty string.
Null == -1
Empty == 0
Nobody == "nobody"
NoPointer == [of |-> Nobody, buffer |-> 0, index |-> 0]

Texts == UNION {[1 .. n -> Chars] : n \in 0 .. MaxLength}
Positions == 1 .. MaxLength
Counts == 0 .. MaxLength

\* tp2cc_ansistring_is_empty_bytes, length and bytes.
Bytes(h, d) == IF d \in {Null, Empty} THEN <<>> ELSE h[d]
Text(v) == Bytes(heap, data[v])

\* Aggregates are zeroed, other variables are constructed.
Init == /\ data \in [Vars -> {Null, Empty}]
        /\ heap = <<>>
        /\ pchar = NoPointer

----------------------------------------------------------------------------
(* Buffers.  A result has the heap and the payload pointer.                *)

Kept(h, d) == [heap |-> h, at |-> d]

\* tp2cc_ansistring_alloc_bytes, and what is then copied into the buffer.
AllocBytes(h, s) == IF s = <<>> THEN Kept(h, Empty) ELSE Kept(Append(h, s), Len(h) + 1)

\* Mutant: a buffer is not copied before it is written.
EnsureUniqueNot(h, d) == IF d \in {Null, Empty} THEN Kept(Append(h, <<>>), Len(h) + 1) ELSE Kept(h, d)

\* An empty string gets a buffer of length 0 that is its own, and a string
\* with such a buffer the static byte.
EnsureUnique(h, d) == IF d \in {Null, Empty} THEN Kept(Append(h, <<>>), Len(h) + 1) ELSE AllocBytes(h, h[d])

Least(a, b) == IF a < b THEN a ELSE b

\* set_length.
Resize(h, d, n) ==
    LET old == Bytes(h, d)
    IN AllocBytes(h, [k \in 1 .. n |-> IF k <= Least(Len(old), n) THEN old[k] ELSE Nul])

\* Storing the bytes s in buffer b from index i on, as memmove does.
Stored(h, b, i, s) ==
    IF s = <<>> THEN h
    ELSE [h EXCEPT ![b] = [k \in DOMAIN @ |-> IF k >= i /\ k < i + Len(s) THEN s[k - i + 1] ELSE @[k]]]

Within(v, i, n) == i + n - 1 <= Len(Text(v))
Room == Len(heap) + 2 <= MaxBuffers

\* The variables as a program may rely on them: a pointer into v ends.
PointsInto(v) == pchar # NoPointer /\ pchar.of = v
Ends(v) == IF PointsInto(v) THEN NoPointer ELSE pchar
Gets(v, r) == /\ heap' = r.heap
              /\ data' = [data EXCEPT ![v] = r.at]
              /\ pchar' = Ends(v)

----------------------------------------------------------------------------
(* Operations *)

\* Assignment of a literal, a short string, a character, nil or a PChar.
AssignText(v, s) == Room /\ Gets(v, AllocBytes(heap, s))

\* The implicit copy assignment, and tp2cc_ansistring_of.
AssignString(d, s) ==
    /\ data' = [data EXCEPT ![d] = data[s]]
    /\ pchar' = IF PointsInto(d) THEN NoPointer ELSE Ends(s)
    /\ UNCHANGED heap

\* p_setlength.
SetLength(v, n) == Room /\ Gets(v, Resize(heap, data[v], n))

\* s[i] := c through a tp2cc_AnsiStringCharRef.
SetChar(v, i, c) ==
    /\ Room /\ Within(v, i, 1)
    /\ LET own == EnsureUnique(heap, data[v])
       IN Gets(v, Kept(Stored(own.heap, own.at, i, <<c>>), own.at))

\* tp2cc_concat_to_ansistring, assigned to d.
Concat(d, a, b) ==
    /\ Room /\ Len(Text(a)) + Len(Text(b)) <= MaxLength
    /\ Gets(d, AllocBytes(heap, Text(a) \o Text(b)))

\* p_copy, assigned to d.
Copy(d, s, i, n) ==
    LET avail == IF Len(Text(s)) - (i - 1) < 0 THEN 0 ELSE Len(Text(s)) - (i - 1)
    IN Room /\ Gets(d, AllocBytes(heap, SubSeq(Text(s), i, i - 1 + Least(n, avail))))

\* p_delete closes the gap in a buffer of its own, then shortens it.
Delete(v, i, n) ==
    /\ Room
    /\ IF i > Len(Text(v)) \/ n <= 0 THEN UNCHANGED vars
       ELSE LET count == Least(n, Len(Text(v)) - (i - 1))
                own == EnsureUnique(heap, data[v])
                tail == SubSeq(Text(v), i + count, Len(Text(v)))
            IN Gets(v, Resize(Stored(own.heap, own.at, i, tail), own.at, Len(Text(v)) - count))

\* p_insert.  The source may be the destination: its bytes are copied first.
Insert(s, d, i) ==
    /\ Room
    /\ IF Text(s) = <<>> THEN UNCHANGED vars
       ELSE /\ Len(Text(s)) + Len(Text(d)) <= MaxLength
            /\ LET pos == Least(i, Len(Text(d)) + 1)
                   grown == Resize(heap, data[d], Len(Text(d)) + Len(Text(s)))
                   opened == Stored(grown.heap, grown.at, pos + Len(Text(s)), SubSeq(Text(d), pos, Len(Text(d))))
               IN Gets(d, Kept(Stored(opened, grown.at, pos, Text(s)), grown.at))

\* p_setstring from the PChar: the old text is read after the new length is set.
SetString(d, n) ==
    /\ Room /\ pchar # NoPointer /\ pchar.index + n - 1 <= Len(heap[pchar.buffer])
    /\ LET cut == Resize(heap, data[d], n)
           own == EnsureUnique(cut.heap, cut.at)
           from == SubSeq(own.heap[pchar.buffer], pchar.index, pchar.index + n - 1)
       IN Gets(d, IF n = 0 THEN cut ELSE Kept(Stored(own.heap, own.at, 1, from), own.at))

\* FillChar takes the address of the character, which ensures uniqueness.
Fill(v, i, n, c) ==
    /\ Room /\ Within(v, i, n)
    /\ LET own == EnsureUnique(heap, data[v])
       IN Gets(v, Kept(Stored(own.heap, own.at, i, [k \in 1 .. n |-> c]), own.at))

\* Move takes the addresses of both characters, in the order that the C++
\* compiler likes, and then copies from one buffer to the other.  Programs move
\* text between two strings: within one, the second address ends the first.
Move(s, i, d, j, n) ==
    /\ Room /\ Within(s, i, n) /\ Within(d, j, n)
    /\ s # d
    /\ \E sourceFirst \in BOOLEAN :
        LET one == EnsureUnique(heap, IF sourceFirst THEN data[s] ELSE data[d])
            after == [data EXCEPT ![IF sourceFirst THEN s ELSE d] = one.at]
            two == EnsureUnique(one.heap, IF sourceFirst THEN after[d] ELSE after[s])
            from == IF sourceFirst THEN one.at ELSE two.at
            to == IF sourceFirst THEN two.at ELSE one.at
        IN /\ data' = [after EXCEPT ![IF sourceFirst THEN d ELSE s] = two.at]
           /\ heap' = Stored(two.heap, to, j, SubSeq(Bytes(two.heap, from), i, i + n - 1))
    /\ pchar' = IF PointsInto(d) THEN NoPointer ELSE Ends(s)

\* @s[i].
TakeAddress(v, i) ==
    /\ Room /\ Within(v, i, 1)
    /\ LET own == EnsureUnique(heap, data[v])
       IN /\ heap' = own.heap
          /\ data' = [data EXCEPT ![v] = own.at]
          /\ pchar' = [of |-> v, buffer |-> own.at, index |-> i]

\* p^ := c.
StoreThrough(c) ==
    /\ pchar # NoPointer
    /\ heap' = Stored(heap, pchar.buffer, pchar.index, <<c>>)
    /\ UNCHANGED <<data, pchar>>

OfOne(v) == \/ \E s \in Texts : AssignText(v, s)
            \/ \E n \in Counts : SetLength(v, n)
            \/ \E i \in Positions, c \in Chars : SetChar(v, i, c)
            \/ \E i \in Positions, n \in Counts : Delete(v, i, n)
            \/ \E i \in Positions, n \in Counts, c \in Chars : Fill(v, i, n, c)
            \/ \E i \in Positions : TakeAddress(v, i)
            \/ \E n \in Counts : SetString(v, n)
OfTwo(d, s) == \/ AssignString(d, s)
               \/ \E i \in Positions, n \in Counts : Copy(d, s, i, n)
               \/ \E i \in Positions : Insert(s, d, i)
               \/ \E i, j \in Positions, n \in Counts : Move(s, i, d, j, n)
               \/ \E t \in Vars : Concat(d, s, t)

Next == \/ \E v \in Vars : OfOne(v)
        \/ \E d, s \in Vars : OfTwo(d, s)
        \/ \E c \in Chars : StoreThrough(c)

Spec == Init /\ [][Next]_vars

----------------------------------------------------------------------------
(* Properties *)

Sharers(b) == {v \in Vars : data[v] = b}

\* The strings behave as values that do not depend on each other: each
\* operation does to them what the operation of the same name does to values.
Values == INSTANCE StringValues WITH
    value <- [v \in Vars |-> Text(v)],
    place <- [of |-> pchar.of, index |-> pchar.index]

OneSimulates(v) ==
    /\ \A s \in Texts : AssignText(v, s) => Values!AssignText(v, s)
    /\ \A n \in Counts : SetLength(v, n) => Values!SetLength(v, n)
    /\ \A i \in Positions, c \in Chars : SetChar(v, i, c) => Values!SetChar(v, i, c)
    /\ \A i \in Positions, n \in Counts : Delete(v, i, n) => Values!Delete(v, i, n)
    /\ \A i \in Positions, n \in Counts, c \in Chars : Fill(v, i, n, c) => Values!Fill(v, i, n, c)
    /\ \A i \in Positions : TakeAddress(v, i) => Values!TakeAddress(v, i)
    /\ \A n \in Counts : SetString(v, n) => Values!SetString(v, n)
TwoSimulate(d, s) ==
    /\ AssignString(d, s) => Values!AssignString(d, s)
    /\ \A i \in Positions, n \in Counts : Copy(d, s, i, n) => Values!Copy(d, s, i, n)
    /\ \A i \in Positions : Insert(s, d, i) => Values!Insert(s, d, i)
    /\ \A i, j \in Positions, n \in Counts : Move(s, i, d, j, n) => Values!Move(s, i, d, j, n)
    /\ \A t \in Vars : Concat(d, s, t) => Values!Concat(d, s, t)
Simulates ==
    /\ \A v \in Vars : OneSimulates(v)
    /\ \A d, s \in Vars : TwoSimulate(d, s)
    /\ \A c \in Chars : StoreThrough(c) => Values!StoreThrough(c)

\* Long strings behave as values of Pascal that do not depend on each other,
\* although copies share buffers: each operation does to them what it does to
\* values.  (tp2cc_AnsiString.)  The condition is that of the subscript: TLC
\* evaluates the action first.
LongStringsAreValues == Values!Init /\ [][vars' # vars => Simulates]_vars

----------------------------------------------------------------------------
(***************************************************************************)
(* The life of the strings of a unit with a finalization block.  main of   *)
(* emit_units.cc runs the initialization, registers the finalization with  *)
(* atexit and runs the program body; the first string that needs a buffer  *)
(* registers the release of all buffers.  Exit runs what was registered,   *)
(* last first.                                                             *)
(***************************************************************************)
VARIABLES phase, handlers,
          freed,  \* the buffers 1..freed are freed
          early   \* history: a buffer was allocated before the finalization was registered
teardownVars == <<data, heap, pchar, phase, handlers, freed, early>>

TeardownInit == /\ Init
                /\ phase = "init"
                /\ handlers = <<>>
                /\ freed = 0
                /\ early = FALSE

Live(v) == data[v] \in {Null, Empty} \/ data[v] > freed

\* tp2cc_ansistring_track_allocation registers the release once.
Registered(h) == IF heap = <<>> /\ heap' # <<>> THEN <<"release">> \o h ELSE h

\* What follows a read of a freed buffer is not modelled.
Work == /\ phase \in {"init", "body", "fini"}
        /\ \A v \in Vars : Live(v)
        /\ Next
        /\ handlers' = Registered(handlers)
        /\ UNCHANGED <<phase, freed, early>>

\* Mutant: the finalization is registered before the initialization runs.
InitReturnsUnregistered == /\ phase = "init"
                           /\ phase' = "body"
                           /\ handlers' = handlers \o <<"fini">>
                           /\ early' = (heap # <<>>)
                           /\ UNCHANGED <<data, heap, pchar, freed>>

InitReturns == /\ phase = "init"
               /\ phase' = "body"
               /\ handlers' = <<"fini">> \o handlers
               /\ early' = (heap # <<>>)
               /\ UNCHANGED <<data, heap, pchar, freed>>

\* The end of the body, or Halt there or in the initialization.
Exit == /\ phase \in {"init", "body"}
        /\ phase' = "exiting"
        /\ UNCHANGED <<data, heap, pchar, handlers, freed, early>>

StartFini == /\ phase = "exiting" /\ handlers # <<>> /\ Head(handlers) = "fini"
             /\ phase' = "fini"
             /\ handlers' = Tail(handlers)
             /\ UNCHANGED <<data, heap, pchar, freed, early>>

FiniReturns == /\ phase = "fini"
               /\ phase' = "exiting"
               /\ UNCHANGED <<data, heap, pchar, handlers, freed, early>>

\* tp2cc_ansistring_release_all.
Release == /\ phase = "exiting" /\ handlers # <<>> /\ Head(handlers) = "release"
           /\ freed' = Len(heap)
           /\ handlers' = Tail(handlers)
           /\ UNCHANGED <<data, heap, pchar, phase, early>>

TeardownNext == Work \/ InitReturns \/ Exit \/ StartFini \/ FiniReturns \/ Release
TeardownSpec == TeardownInit /\ [][TeardownNext]_teardownVars

\* A finalization block can read the strings of its unit: each is a Pascal
\* string value (prelude.h:815) until the program ends.
FinalizationFindsStrings == phase = "fini" => \A v \in Vars : Live(v)

\* It can when the unit, or one before it, has allocated a string by the time
\* that its finalization is registered, which atexit then runs first.
\* (tp2cc_ansistring_release_all.)
EarlyAllocatorsFindStrings == early => FinalizationFindsStrings
============================================================================
