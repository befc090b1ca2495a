------------------------ MODULE RuntimeLibraryProofs ------------------------
(***************************************************************************)
(* The runtime library keeps its promises.                                 *)
(*   Strings: the buffers that tp2cc_AnsiString shares behave as values of *)
(* Pascal, for every number of variables, every alphabet and every length; *)
(* and a unit that allocates before its finalization is registered finds   *)
(* its strings there.                                                      *)
(*   Files keep what a program writes, for every number of files,          *)
(* variables and records, every size of the disk, and every choice of when *)
(* a stream drains.                                                        *)
(***************************************************************************)
EXTENDS RuntimeLibrary, SequenceTheorems, TLAPS

-----------------------------------------------------------------------------
(***************************************************************************)
(* Long strings.                                                           *)
(***************************************************************************)
Letters == Chars \cup {Nul}
Heaps == Seq(Seq(Letters))
Pointers(h) == {Null, Empty} \cup 1 .. Len(h)

(***************************************************************************)
(* Buffers are only ever added, so what others point to stays.             *)
(***************************************************************************)
Extends(h, g) ==
  g \in Heaps /\ Len(h) <= Len(g) /\ \A b \in 1 .. Len(h) : g[b] = h[b]

\* r has the heap h with buffers added, and a pointer to one that holds s.
NewIn(h, r, s) ==
  /\ Extends(h, r.heap)
  /\ r.at = Empty \/ r.at \in Len(h) + 1 .. Len(r.heap)
  /\ Bytes(r.heap, r.at) = s

\* The text s with t in the place of what stood at i.
Overwritten(s, i, t) ==
  [k \in DOMAIN s |-> IF k >= i /\ k < i + Len(t) THEN t[k - i + 1] ELSE s[k]]

LEMMA BytesType ==
  ASSUME NEW h \in Heaps, NEW d \in Pointers(h)
  PROVE  Bytes(h, d) \in Seq(Letters)
BY DEF Bytes, Heaps, Pointers, Null, Empty

LEMMA BytesStay ==
  ASSUME NEW h \in Heaps, NEW g, Extends(h, g), NEW d \in Pointers(h)
  PROVE  Bytes(g, d) = Bytes(h, d) /\ d \in Pointers(g)
BY DEF Bytes, Heaps, Pointers, Extends, Null, Empty

LEMMA ExtendsLength ==
  ASSUME NEW h \in Heaps, NEW g, Extends(h, g)
  PROVE  g \in Heaps /\ Len(h) \in Nat /\ Len(g) \in Nat /\ Len(h) <= Len(g)
BY DEF Extends, Heaps

LEMMA ExtendsSelf == ASSUME NEW h \in Heaps PROVE Extends(h, h)
BY DEF Extends, Heaps

LEMMA ExtendsOn ==
  ASSUME NEW h \in Heaps, NEW g, NEW k, Extends(h, g), Extends(g, k)
  PROVE  Extends(h, k)
BY DEF Extends, Heaps

LEMMA NewBytes ==
  ASSUME NEW h \in Heaps, NEW r, NEW s, NewIn(h, r, s)
  PROVE  s \in Seq(Letters) /\ r.heap \in Heaps /\ r.at \in Pointers(r.heap)
<1>1. r.heap \in Heaps /\ r.at \in Pointers(r.heap)
  BY DEF NewIn, Extends, Pointers, Heaps
<1>. QED BY <1>1, BytesType DEF NewIn

LEMMA AppendIsNew ==
  ASSUME NEW h \in Heaps, NEW g, Extends(h, g), NEW s \in Seq(Letters)
  PROVE  NewIn(h, Kept(Append(g, s), Len(g) + 1), s)
<1>1. g \in Heaps /\ Len(g) \in Nat /\ Len(h) \in Nat /\ Len(h) <= Len(g)
  BY DEF Extends, Heaps
<1>2. /\ Append(g, s) \in Heaps /\ Len(Append(g, s)) = Len(g) + 1
      /\ Append(g, s)[Len(g) + 1] = s
      /\ \A b \in 1 .. Len(g) : Append(g, s)[b] = g[b]
  BY <1>1 DEF Heaps
<1>3. Extends(h, Append(g, s))
  BY <1>1, <1>2 DEF Extends
<1>4. Bytes(Append(g, s), Len(g) + 1) = s
  BY <1>1, <1>2 DEF Bytes, Null, Empty
<1>. QED BY <1>1, <1>2, <1>3, <1>4 DEF NewIn, Kept

LEMMA AllocIsNew ==
  ASSUME NEW h \in Heaps, NEW g, Extends(h, g), NEW s \in Seq(Letters)
  PROVE  NewIn(h, AllocBytes(g, s), s)
<1>1. CASE s = <<>>
  BY <1>1 DEF AllocBytes, NewIn, Kept, Bytes
<1>2. CASE s # <<>>
  BY <1>2, AppendIsNew DEF AllocBytes
<1>. QED BY <1>1, <1>2

LEMMA EnsureIsNew ==
  ASSUME NEW h \in Heaps, NEW g, Extends(h, g), NEW d \in Pointers(g)
  PROVE  NewIn(h, EnsureUnique(g, d), Bytes(g, d))
<1>1. CASE d \in {Null, Empty}
  <2>1. <<>> \in Seq(Letters)
    OBVIOUS
  <2>. QED BY <1>1, <2>1, AppendIsNew DEF EnsureUnique, Bytes
<1>2. CASE d \notin {Null, Empty}
  <2>1. Bytes(g, d) = g[d] /\ Bytes(g, d) \in Seq(Letters)
    BY <1>2, BytesType DEF Bytes, Extends
  <2>. QED BY <1>2, <2>1, AllocIsNew DEF EnsureUnique
<1>. QED BY <1>1, <1>2

LEMMA OverwrittenType ==
  ASSUME NEW s \in Seq(Letters), NEW i \in Nat \ {0}, NEW t \in Seq(Letters)
  PROVE  /\ Overwritten(s, i, t) \in Seq(Letters)
         /\ Len(Overwritten(s, i, t)) = Len(s)
         /\ t = <<>> => Overwritten(s, i, t) = s
<1>1. \A k \in 1 .. Len(s) : k >= i /\ k < i + Len(t) => k - i + 1 \in 1 .. Len(t)
  OBVIOUS
<1>2. Overwritten(s, i, t) \in [1 .. Len(s) -> Letters]
  BY <1>1 DEF Overwritten
<1>3. ASSUME t = <<>> PROVE Overwritten(s, i, t) = s
  <2>1. \A k \in DOMAIN s : ~ (k >= i /\ k < i + Len(t))
    BY <1>3
  <2>. QED BY <2>1 DEF Overwritten
<1>. QED BY <1>2, <1>3

LEMMA OverwrittenText ==
  ASSUME NEW s \in Seq(Letters), NEW i \in Nat \ {0}, NEW t \in Seq(Letters),
         NEW m \in Nat, m = Len(t), NEW n \in Nat, n = Len(s)
  PROVE  /\ Overwritten(s, i, t) \in Seq(Letters) /\ Len(Overwritten(s, i, t)) = n
         /\ \A k \in 1 .. n : Overwritten(s, i, t)[k] =
              IF k >= i /\ k < i + m THEN t[k - i + 1] ELSE s[k]
<1>1. DOMAIN s = 1 .. n
  OBVIOUS
<1>. QED BY <1>1, OverwrittenType DEF Overwritten

LEMMA StoredIsNew ==
  ASSUME NEW h \in Heaps, NEW r, NEW s, NewIn(h, r, s),
         NEW i \in Nat \ {0}, NEW t \in Seq(Letters), t = <<>> \/ s # <<>>
  PROVE  NewIn(h, Kept(Stored(r.heap, r.at, i, t), r.at), Overwritten(s, i, t))
<1>1. s \in Seq(Letters) /\ r.heap \in Heaps
  BY NewBytes
<1>2. CASE t = <<>>
  BY <1>1, <1>2, OverwrittenType DEF Stored, NewIn, Kept
<1>3. CASE t # <<>>
  <2>. DEFINE g == [r.heap EXCEPT ![r.at] = Overwritten(s, i, t)]
  <2>1. r.at \in Len(h) + 1 .. Len(r.heap) /\ r.heap[r.at] = s
    BY <1>3 DEF NewIn, Bytes, Null, Empty, Heaps
  <2>2. Stored(r.heap, r.at, i, t) = g
    BY <1>1, <1>3, <2>1 DEF Stored, Overwritten, Heaps
  <2>3. Overwritten(s, i, t) \in Seq(Letters)
    BY <1>1, OverwrittenType
  <2>4. /\ g \in Heaps /\ Len(g) = Len(r.heap) /\ g[r.at] = Overwritten(s, i, t)
        /\ \A b \in 1 .. Len(h) : g[b] = r.heap[b]
    <3>1. Len(h) \in Nat /\ r.at \in 1 .. Len(r.heap) /\ r.at > Len(h)
      BY <1>1, <2>1 DEF Heaps
    <3>2. /\ g \in Seq(Seq(Letters)) /\ Len(g) = Len(r.heap)
          /\ \A b \in 1 .. Len(r.heap) : g[b] = IF b = r.at THEN Overwritten(s, i, t) ELSE r.heap[b]
      BY <1>1, <2>3, <3>1, ExceptSeq DEF Heaps
    <3>3. Len(r.heap) \in Nat
      BY <1>1 DEF Heaps
    <3>4. \A b \in 1 .. Len(h) : b \in 1 .. Len(r.heap) /\ b # r.at
      BY <3>1, <3>3
    <3>5. g \in Heaps
      BY <3>2 DEF Heaps
    <3>. HIDE DEF g
    <3>. QED BY <3>1, <3>2, <3>4, <3>5
  <2>5. Extends(h, g)
    BY <2>4 DEF Extends, NewIn
  <2>6. Bytes(g, r.at) = Overwritten(s, i, t)
    BY <2>1, <2>4 DEF Bytes, Null, Empty, Heaps
  <2>. HIDE DEF g
  <2>. QED BY <2>1, <2>2, <2>4, <2>5, <2>6 DEF NewIn, Kept
<1>. QED BY <1>2, <1>3

LEMMA StoredElsewhere ==
  ASSUME NEW h \in Heaps, NEW b, NEW i, NEW t
  PROVE  /\ Len(Stored(h, b, i, t)) = Len(h)
         /\ \A k \in 1 .. Len(h) : k # b => Stored(h, b, i, t)[k] = h[k]
BY DEF Stored, Heaps

LEMMA ResizeIsAlloc ==
  ASSUME NEW h \in Heaps, NEW d \in Pointers(h), NEW n \in Nat
  PROVE  /\ Resize(h, d, n) = AllocBytes(h, Values!Resized(Bytes(h, d), n))
         /\ Values!Resized(Bytes(h, d), n) \in Seq(Letters)
         /\ Len(Values!Resized(Bytes(h, d), n)) = n
<1>1. Bytes(h, d) \in Seq(Letters)
  BY BytesType
<1>2. \A k \in 1 .. n : k <= Least(Len(Bytes(h, d)), n) <=> k <= Len(Bytes(h, d))
  BY <1>1 DEF Least
<1>3. Values!Resized(Bytes(h, d), n) \in [1 .. n -> Letters]
  BY <1>1 DEF Values!Resized, Letters
<1>. QED BY <1>2, <1>3 DEF Resize, Values!Resized

----------------------------------------------------------------------------
(***************************************************************************)
(* The states of a program: what a PChar points into is pointed to by one  *)
(* variable only, so that a store through it changes one string.           *)
(***************************************************************************)
Shape == heap \in Heaps /\ data \in [Vars -> Pointers(heap)]
PointedBufferIsOwn ==
  pchar # NoPointer =>
    /\ pchar.of \in Vars /\ data[pchar.of] = pchar.buffer
    /\ pchar.buffer \in 1 .. Len(heap)
    /\ pchar.index \in 1 .. Len(heap[pchar.buffer])
    /\ Sharers(pchar.buffer) = {pchar.of}
StringsInv == Shape /\ PointedBufferIsOwn

\* What every step does.
Preserved == StringsInv' /\ Len(heap) <= Len(heap')

Value == [v \in Vars |-> Text(v)]

LEMMA TextType ==
  ASSUME Shape, NEW v \in Vars
  PROVE  Text(v) \in Seq(Letters) /\ Value[v] = Text(v) /\ data[v] \in Pointers(heap)
BY BytesType DEF Shape, Text, Value

\* A variable that is given a new buffer: no other variable has it, and the
\* other variables keep their buffers and texts.
LEMMA NewBuffer ==
  ASSUME Shape, NEW v \in Vars, NEW r, NEW s, NewIn(heap, r, s),
         heap' = r.heap, data' = [data EXCEPT ![v] = r.at]
  PROVE  /\ Shape' /\ Value' = [Value EXCEPT ![v] = s]
         /\ data'[v] = r.at
         /\ \A w \in Vars : w # v => data'[w] = data[w]
         /\ r.at # Empty => \A w \in Vars : data'[w] = r.at => w = v
<1>1. heap \in Heaps /\ r.heap \in Heaps /\ r.at \in Pointers(r.heap) /\ Extends(heap, r.heap)
  BY NewBytes DEF Shape, NewIn
<1>2. /\ data'[v] = r.at /\ DOMAIN data' = Vars
      /\ \A w \in Vars : w # v => data'[w] = data[w]
  BY DEF Shape
<1>3. \A w \in Vars : /\ Bytes(r.heap, data[w]) = Bytes(heap, data[w])
                      /\ data[w] \in Pointers(r.heap) /\ data[w] \in Pointers(heap)
  BY <1>1, BytesStay DEF Shape
<1>4. Shape'
  BY <1>1, <1>2, <1>3 DEF Shape
<1>5. \A w \in Vars : Bytes(heap', data'[w]) = IF w = v THEN s ELSE Bytes(heap, data[w])
  BY <1>2, <1>3 DEF NewIn
<1>6. Value' = [Value EXCEPT ![v] = s]
  BY <1>5 DEF Value, Text
<1>7. ASSUME r.at # Empty, NEW w \in Vars, data'[w] = r.at PROVE w = v
  <2>1. r.at \in Len(heap) + 1 .. Len(r.heap) /\ Len(heap) \in Nat
    BY <1>1, <1>7 DEF NewIn, Heaps
  <2>2. r.at \notin Pointers(heap)
    BY <2>1 DEF Pointers, Null, Empty
  <2>. QED BY <1>2, <1>3, <1>7, <2>2
<1>. QED BY <1>2, <1>4, <1>6, <1>7

\* A PChar into another string than those that are given new buffers.
LEMMA PointerStays ==
  ASSUME StringsInv, Shape', NEW S \in SUBSET Vars, Extends(heap, heap'),
         \A w \in Vars \ S : data'[w] = data[w],
         \A w \in S : data'[w] \notin 1 .. Len(heap) \/ \E u \in S : data'[w] = data[u],
         pchar' = NoPointer \/ (pchar' = pchar /\ pchar.of \notin S)
  PROVE  PointedBufferIsOwn'
<1>. SUFFICES ASSUME pchar' # NoPointer
              PROVE  /\ pchar.of \in Vars /\ data'[pchar.of] = pchar.buffer
                     /\ pchar.buffer \in 1 .. Len(heap')
                     /\ pchar.index \in 1 .. Len(heap'[pchar.buffer])
                     /\ Sharers(pchar.buffer)' = {pchar.of}
  <2>1. pchar' = NoPointer \/ pchar' = pchar
    OBVIOUS
  <2>. QED BY <2>1 DEF PointedBufferIsOwn, Sharers, NoPointer
<1>1. pchar' = pchar /\ pchar # NoPointer /\ pchar.of \notin S
  OBVIOUS
<1>2. /\ pchar.of \in Vars /\ data[pchar.of] = pchar.buffer
      /\ pchar.buffer \in 1 .. Len(heap)
      /\ pchar.index \in 1 .. Len(heap[pchar.buffer])
      /\ Sharers(pchar.buffer) = {pchar.of}
  BY <1>1 DEF StringsInv, PointedBufferIsOwn
<1>. pchar.of \notin S
  BY <1>1
<1>3. pchar.buffer \in 1 .. Len(heap') /\ heap'[pchar.buffer] = heap[pchar.buffer]
  BY <1>2 DEF Extends, StringsInv, Shape, Heaps
<1>4. \A w \in Vars : data'[w] = pchar.buffer <=> data[w] = pchar.buffer
  BY <1>1, <1>2 DEF Sharers
<1>. QED BY <1>1, <1>2, <1>3, <1>4 DEF Sharers

LEMMA PlaceFacts ==
  ASSUME StringsInv
  PROVE  /\ Values!NoPlace = [of |-> pchar.of, index |-> pchar.index] <=> pchar = NoPointer
         /\ \A v \in Vars : Values!Uses(v) <=> PointsInto(v)
         /\ \A v \in Vars : PointsInto(v) <=> pchar # NoPointer /\ pchar.of = v
<1>1. Values!NoPlace = [of |-> pchar.of, index |-> pchar.index] <=> pchar = NoPointer
  <2>1. CASE pchar = NoPointer
    BY <2>1 DEF NoPointer, Nobody, Values!NoPlace
  <2>2. CASE pchar # NoPointer
    <3>1. pchar.index \in 1 .. Len(heap[pchar.buffer])
      BY <2>2 DEF StringsInv, PointedBufferIsOwn
    <3>2. pchar.index # 0
      BY <3>1
    <3>. QED BY <2>2, <3>2 DEF Values!NoPlace
  <2>. QED BY <2>1, <2>2
<1>. QED BY <1>1 DEF Values!Uses, PointsInto

LEMMA EndsFacts ==
  ASSUME StringsInv, NEW v \in Vars
  PROVE  /\ Ends(v) = NoPointer \/ (Ends(v) = pchar /\ pchar.of # v)
         /\ [of |-> Ends(v).of, index |-> Ends(v).index]
              = IF Values!Uses(v) THEN Values!NoPlace ELSE [of |-> pchar.of, index |-> pchar.index]
<1>1. CASE pchar = NoPointer
  BY <1>1, PlaceFacts DEF Ends, PointsInto
<1>2. CASE pchar # NoPointer /\ pchar.of = v
  BY <1>2, PlaceFacts DEF Ends, PointsInto, Values!NoPlace, NoPointer, Nobody
<1>3. CASE pchar # NoPointer /\ pchar.of # v
  BY <1>3, PlaceFacts DEF Ends, PointsInto
<1>. QED BY <1>1, <1>2, <1>3

(***************************************************************************)
(* An operation that gives v a new buffer with the text s.                 *)
(***************************************************************************)
LEMMA GetsNew ==
  ASSUME StringsInv, NEW v \in Vars, NEW r, NEW s, NewIn(heap, r, s), Gets(v, r)
  PROVE  Preserved /\ Values!Gets(v, s)
<1>1. heap' = r.heap /\ data' = [data EXCEPT ![v] = r.at] /\ pchar' = Ends(v)
  BY DEF Gets
<1>2. /\ Shape' /\ Value' = [Value EXCEPT ![v] = s]
      /\ data'[v] = r.at
      /\ \A w \in Vars : w # v => data'[w] = data[w]
  BY <1>1, NewBuffer DEF StringsInv
<1>3. data'[v] \notin 1 .. Len(heap)
  BY <1>2 DEF NewIn, Empty, StringsInv, Shape, Heaps
<1>4. Extends(heap, heap')
  BY <1>1 DEF NewIn
<1>5. pchar' = NoPointer \/ (pchar' = pchar /\ pchar.of \notin {v})
  BY <1>1, EndsFacts
<1>6. /\ \A w \in Vars \ {v} : data'[w] = data[w]
      /\ \A w \in {v} : data'[w] \notin 1 .. Len(heap)
  BY <1>2, <1>3
<1>7. PointedBufferIsOwn'
  BY <1>2, <1>4, <1>5, <1>6, PointerStays
<1>8. Values!Gets(v, s)
  BY <1>1, <1>2, EndsFacts DEF Values!Gets, Value
<1>. QED BY <1>2, <1>4, <1>7, <1>8 DEF StringsInv, Preserved, Extends

----------------------------------------------------------------------------
(***************************************************************************)
(* What the operations on buffers make of texts is what those on values    *)
(* make.                                                                   *)
(***************************************************************************)
LEMMA PartText ==
  ASSUME NEW s \in Seq(Letters), NEW i \in Nat \ {0}, NEW j \in Int, j <= Len(s),
         NEW n \in Nat, n = j - i + 1
  PROVE  /\ SubSeq(s, i, j) \in Seq(Letters)
         /\ Len(SubSeq(s, i, j)) = n
         /\ \A k \in 1 .. n : SubSeq(s, i, j)[k] = s[i + k - 1]
<1>1. \A k \in i .. j : s[k] \in Letters
  OBVIOUS
<1>2. /\ SubSeq(s, i, j) \in Seq(Letters)
      /\ Len(SubSeq(s, i, j)) = IF i <= j THEN n ELSE 0
      /\ \A k \in 1 .. n : SubSeq(s, i, j)[k] = s[i + k - 1]
  BY <1>1, SubSeqProperties
<1>. QED BY <1>2

LEMMA FrontText ==
  ASSUME NEW s \in Seq(Letters), NEW n \in Nat, n <= Len(s)
  PROVE  /\ SubSeq(s, 1, n) \in Seq(Letters)
         /\ Len(SubSeq(s, 1, n)) = n
         /\ \A k \in 1 .. n : SubSeq(s, 1, n)[k] = s[k]
<1>1. /\ SubSeq(s, 1, n) \in Seq(Letters)
      /\ Len(SubSeq(s, 1, n)) = n
      /\ \A k \in 1 .. n : SubSeq(s, 1, n)[k] = s[1 + k - 1]
  <2>1. n \in Int /\ n = n - 1 + 1 /\ 1 \in Nat \ {0}
    OBVIOUS
  <2>. QED BY <2>1, PartText
<1>2. \A k \in 1 .. n : 1 + k - 1 = k
  OBVIOUS
<1>. QED BY <1>1, <1>2

LEMMA JoinedText ==
  ASSUME NEW s \in Seq(Letters), NEW t \in Seq(Letters),
         NEW m \in Nat, m = Len(s), NEW n \in Nat, n = m + Len(t)
  PROVE  /\ s \o t \in Seq(Letters) /\ Len(s \o t) = n
         /\ \A k \in 1 .. n : (s \o t)[k] = IF k <= m THEN s[k] ELSE t[k - m]
BY ConcatProperties

LEMMA TextIsItsLetters ==
  ASSUME NEW s \in Seq(Letters), NEW n, n = Len(s)
  PROVE  s = [k \in 1 .. n |-> s[k]]
OBVIOUS

LEMMA FilledText ==
  ASSUME NEW s \in Seq(Letters), NEW i \in Nat \ {0}, NEW n \in Nat, NEW c \in Letters,
         NEW t, t = [k \in 1 .. n |-> c]
  PROVE  /\ t \in Seq(Letters) /\ Len(t) = n
         /\ Overwritten(s, i, t) = Values!Filled(s, i, n, c)
<1>1. t \in Seq(Letters) /\ Len(t) = n
  OBVIOUS
<1>2. \A k \in DOMAIN s : k >= i /\ k < i + n => t[k - i + 1] = c
  OBVIOUS
<1>. QED BY <1>1, <1>2 DEF Overwritten, Values!Filled

LEMMA CharText ==
  ASSUME NEW s \in Seq(Letters), NEW i \in Nat \ {0}, NEW c \in Letters
  PROVE  <<c>> \in Seq(Letters) /\ Overwritten(s, i, <<c>>) = Values!Filled(s, i, 1, c)
<1>1. \A k \in DOMAIN s : k >= i /\ k < i + 1 => <<c>>[k - i + 1] = c
  OBVIOUS
<1>. QED BY <1>1 DEF Overwritten, Values!Filled

LEMMA CopiedText ==
  ASSUME NEW s \in Seq(Letters), NEW i \in Nat \ {0}, NEW n \in Nat,
         NEW avail, avail = IF Len(s) - (i - 1) < 0 THEN 0 ELSE Len(s) - (i - 1)
  PROVE  /\ SubSeq(s, i, i - 1 + Least(n, avail)) = Values!Part(s, i, n)
         /\ Values!Part(s, i, n) \in Seq(Letters)
<1>. DEFINE ending == i - 1 + Least(n, avail)
            end == Values!Least(i + n - 1, Len(s))
<1>1. CASE i <= Len(s) + 1
  <2>1. ending = end /\ end \in Int /\ end <= Len(s) /\ end - i + 1 \in Nat
    BY <1>1 DEF Least, Values!Least
  <2>. HIDE DEF ending, end
  <2>2. SubSeq(s, i, end) \in Seq(Letters)
    BY <2>1, PartText
  <2>3. SubSeq(s, i, ending) = SubSeq(s, i, end) /\ Values!Part(s, i, n) = SubSeq(s, i, end)
    BY <2>1 DEF Values!Part, end
  <2>. QED BY <2>2, <2>3 DEF ending
<1>2. CASE i > Len(s) + 1
  <2>1. ending \in Int /\ end \in Int /\ ending < i /\ end < i
    BY <1>2 DEF Least, Values!Least
  <2>. HIDE DEF ending, end
  <2>2. SubSeq(s, i, ending) = <<>> /\ SubSeq(s, i, end) = <<>> /\ <<>> \in Seq(Letters)
    BY <2>1, SubSeqEmpty
  <2>. QED BY <2>2 DEF Values!Part, ending, end
<1>. QED BY <1>1, <1>2

LEMMA DeletedText ==
  ASSUME NEW s \in Seq(Letters), NEW i \in Nat \ {0}, NEW n \in Nat \ {0},
         NEW count \in Nat \ {0}, i + count <= Len(s) + 1,
         count = n \/ (count < n /\ i + count = Len(s) + 1)
  PROVE  LET tail == SubSeq(s, i + count, Len(s))
         IN /\ tail \in Seq(Letters)
            /\ Values!Resized(Overwritten(s, i, tail), Len(s) - count) = Values!Without(s, i, n)
<1>. DEFINE tail == SubSeq(s, i + count, Len(s))
            rest == SubSeq(s, i + n, Len(s))
            cut == Overwritten(s, i, tail)
            front == SubSeq(s, 1, i - 1)
<1>. PICK all \in Nat : all = Len(s)
  OBVIOUS
<1>. PICK e \in Nat : e = i - 1
  OBVIOUS
<1>0. i + count <= all + 1
  OBVIOUS
<1>. PICK m \in Nat \ {0} : m = i + count
  BY <1>0
<1>. PICK left \in Nat : left = all - m + 1
  <2>1. all - m + 1 \in Nat
    BY <1>0
  <2>. QED BY <2>1
<1>1. m <= all + 1 /\ e + left = all - count /\ e + left \in Nat /\ e + left <= all /\ e <= all
  BY <1>0
<1>2. tail \in Seq(Letters) /\ Len(tail) = left
  <2>1. all \in Int /\ all <= Len(s) /\ left = all - m + 1
    OBVIOUS
  <2>2. SubSeq(s, m, all) \in Seq(Letters) /\ Len(SubSeq(s, m, all)) = left
    BY <2>1, PartText
  <2>. QED BY <2>2
<1>3. tail = rest
  <2>1. CASE count = n
    BY <2>1
  <2>2. CASE count < n /\ i + count = Len(s) + 1
    <3>. PICK k \in Nat : k = i + n
      OBVIOUS
    <3>1. all < m /\ all < k
      BY <2>2
    <3>2. SubSeq(s, m, all) = <<>> /\ SubSeq(s, k, all) = <<>>
      BY <3>1, SubSeqEmpty
    <3>. QED BY <3>2
  <2>. QED BY <2>1, <2>2
<1>4. /\ front \in Seq(Letters) /\ Len(front) = e
      /\ \A k \in 1 .. e : front[k] = s[k]
  BY <1>1, FrontText
<1>. HIDE DEF tail, front, rest
<1>5. /\ cut \in Seq(Letters) /\ Len(cut) = all
      /\ \A k \in 1 .. all :
           cut[k] = IF k >= i /\ k < i + left THEN tail[k - i + 1] ELSE s[k]
  BY <1>2, OverwrittenText
<1>. HIDE DEF cut
<1>6. /\ front \o tail \in Seq(Letters) /\ Len(front \o tail) = e + left
      /\ \A k \in 1 .. e + left :
           (front \o tail)[k] = IF k <= e THEN front[k] ELSE tail[k - e]
  <2>. PICK whole \in Nat : whole = e + left
    BY <1>1
  <2>0. front \in Seq(Letters) /\ tail \in Seq(Letters) /\ e = Len(front) /\ whole = e + Len(tail)
    BY <1>2, <1>4
  <2>1. /\ front \o tail \in Seq(Letters) /\ Len(front \o tail) = whole
        /\ \A k \in 1 .. whole :
             (front \o tail)[k] = IF k <= e THEN front[k] ELSE tail[k - e]
    BY ONLY <2>0, JoinedText, e \in Nat, whole \in Nat
  <2>. QED BY <2>1
<1>7. \A k \in 1 .. e + left : k <= Len(cut) /\ cut[k] = (front \o tail)[k]
  <2>1. SUFFICES ASSUME NEW k \in 1 .. e + left
                 PROVE  k <= Len(cut) /\ cut[k] = (front \o tail)[k]
    OBVIOUS
  <2>2. k \in 1 .. all
    BY <1>1
  <2>3. CASE k <= e
    <3>1. k \in 1 .. e /\ ~ (k >= i)
      BY <2>3
    <3>2. cut[k] = s[k] /\ k <= Len(cut)
      BY <2>2, <3>1, <1>5
    <3>3. (front \o tail)[k] = front[k] /\ front[k] = s[k]
      BY <2>3, <3>1, <1>4, <1>6
    <3>. QED BY <3>2, <3>3
  <2>4. CASE k > e
    <3>1. k >= i /\ k < i + left /\ k - i + 1 = k - e /\ ~ (k <= e)
      BY <2>4
    <3>. QED BY <2>2, <3>1, <1>5, <1>6
  <2>5. k <= e \/ k > e
    OBVIOUS
  <2>. QED BY <2>3, <2>4, <2>5
<1>8. Values!Resized(cut, e + left) = front \o tail
  <2>1. Values!Resized(cut, e + left) = [k \in 1 .. e + left |-> (front \o tail)[k]]
    BY <1>7 DEF Values!Resized
  <2>2. front \o tail = [k \in 1 .. e + left |-> (front \o tail)[k]]
    BY <1>6, TextIsItsLetters
  <2>. QED BY <2>1, <2>2
<1>9. Values!Without(s, i, n) = front \o tail
  BY <1>3 DEF Values!Without, front, rest
<1>10. Len(s) - count = e + left
  BY <1>1
<1>. QED BY <1>2, <1>8, <1>9, <1>10 DEF tail, cut

LEMMA InsertedText ==
  ASSUME NEW s \in Seq(Letters), NEW d \in Seq(Letters),
         NEW pos \in Nat \ {0}, pos <= Len(d) + 1
  PROVE  LET grown == Values!Resized(d, Len(d) + Len(s))
             rest == SubSeq(d, pos, Len(d))
         IN /\ rest \in Seq(Letters)
            /\ Overwritten(Overwritten(grown, pos + Len(s), rest), pos, s) = Values!With(d, s, pos)
<1>. PICK ld \in Nat : ld = Len(d)
  OBVIOUS
<1>. PICK ls \in Nat : ls = Len(s)
  OBVIOUS
<1>. PICK n \in Nat : n = ld + ls
  OBVIOUS
<1>1. pos <= ld + 1
  OBVIOUS
<1>. PICK e \in Nat : e = pos - 1
  OBVIOUS
<1>. PICK m \in Nat \ {0} : m = pos + ls
  OBVIOUS
<1>. PICK lr \in Nat : lr = ld - pos + 1
  <2>1. ld - pos + 1 \in Nat
    BY <1>1
  <2>. QED BY <2>1
<1>. PICK w \in Nat : w = e + ls
  OBVIOUS
<1>. DEFINE grown == Values!Resized(d, n)
            rest == SubSeq(d, pos, ld)
            front == SubSeq(d, 1, e)
            opened == Overwritten(grown, m, rest)
            closed == Overwritten(opened, pos, s)
            whole == (front \o s) \o rest
<1>0. n = w + lr /\ e <= ld /\ m = w + 1
  BY <1>1
<1>2. rest \in Seq(Letters) /\ Len(rest) = lr
  BY <1>1, PartText
<1>3. /\ front \in Seq(Letters) /\ Len(front) = e
      /\ \A k \in 1 .. e : front[k] = d[k]
  BY <1>0, FrontText
<1>. HIDE DEF rest, front
<1>4. /\ grown \in Seq(Letters) /\ Len(grown) = n
      /\ \A k \in 1 .. n : k <= ld => grown[k] = d[k]
  <2>1. grown \in [1 .. n -> Letters]
    BY DEF Values!Resized, Letters
  <2>. QED BY <2>1 DEF Values!Resized
<1>. HIDE DEF grown
<1>5. /\ opened \in Seq(Letters) /\ Len(opened) = n
      /\ \A k \in 1 .. n :
           opened[k] = IF k >= m /\ k < m + lr THEN rest[k - m + 1] ELSE grown[k]
  <2>1. lr = Len(rest) /\ n = Len(grown)
    BY <1>2, <1>4
  <2>. QED BY ONLY <1>2, <1>4, <2>1, m \in Nat \ {0}, lr \in Nat, n \in Nat, OverwrittenText DEF opened
<1>. HIDE DEF opened
<1>6. /\ closed \in Seq(Letters) /\ Len(closed) = n
      /\ \A k \in 1 .. n :
           closed[k] = IF k >= pos /\ k < pos + ls THEN s[k - pos + 1] ELSE opened[k]
  <2>1. s \in Seq(Letters) /\ ls = Len(s) /\ n = Len(opened)
    BY <1>5
  <2>. QED BY ONLY <1>5, <2>1, pos \in Nat \ {0}, ls \in Nat, n \in Nat, OverwrittenText DEF closed
<1>. HIDE DEF closed
<1>7. /\ front \o s \in Seq(Letters) /\ Len(front \o s) = w
      /\ \A k \in 1 .. w : (front \o s)[k] = IF k <= e THEN front[k] ELSE s[k - e]
  <2>1. front \in Seq(Letters) /\ s \in Seq(Letters) /\ e = Len(front) /\ w = e + Len(s)
    BY <1>3
  <2>. QED BY ONLY <2>1, JoinedText, e \in Nat, w \in Nat
<1>8. /\ whole \in Seq(Letters) /\ Len(whole) = n
      /\ \A k \in 1 .. n :
           whole[k] = IF k <= w THEN (front \o s)[k] ELSE rest[k - w]
  <2>1. front \o s \in Seq(Letters) /\ rest \in Seq(Letters) /\ w = Len(front \o s) /\ n = w + Len(rest)
    BY <1>0, <1>2, <1>7
  <2>. QED BY ONLY <2>1, JoinedText, w \in Nat, n \in Nat
<1>. HIDE DEF whole
<1>9. \A k \in 1 .. n : closed[k] = whole[k]
  <2>1. SUFFICES ASSUME NEW k \in 1 .. n PROVE closed[k] = whole[k]
    OBVIOUS
  <2>2. CASE k <= e
    <3>1. k <= ld /\ k \in 1 .. e /\ k \in 1 .. w /\ ~ (k >= pos) /\ ~ (k >= m) /\ k <= w
      BY <1>0, <1>1, <2>2
    <3>2. closed[k] = opened[k] /\ opened[k] = grown[k] /\ grown[k] = d[k]
      BY <3>1, <1>4, <1>5, <1>6
    <3>3. whole[k] = (front \o s)[k] /\ (front \o s)[k] = front[k] /\ front[k] = d[k]
      BY <2>2, <3>1, <1>3, <1>7, <1>8
    <3>. QED BY <3>2, <3>3
  <2>3. CASE k > e /\ k <= w
    <3>1. k \in 1 .. w /\ ~ (k <= e) /\ k >= pos /\ k < pos + ls /\ k - e = k - pos + 1
      BY <1>1, <2>3
    <3>2. closed[k] = s[k - pos + 1]
      BY <3>1, <1>6
    <3>3. whole[k] = (front \o s)[k] /\ (front \o s)[k] = s[k - e]
      BY <2>3, <3>1, <1>7, <1>8
    <3>. QED BY <3>1, <3>2, <3>3
  <2>4. CASE k > w
    <3>1. ~ (k < pos + ls) /\ ~ (k <= w) /\ k >= m /\ k < m + lr /\ k - w = k - m + 1
      BY <1>0, <1>1, <2>4
    <3>2. closed[k] = opened[k] /\ opened[k] = rest[k - m + 1]
      BY <3>1, <1>5, <1>6
    <3>3. whole[k] = rest[k - w]
      BY <3>1, <1>8
    <3>. QED BY <3>1, <3>2, <3>3
  <2>5. k <= e \/ (k > e /\ k <= w) \/ k > w
    OBVIOUS
  <2>. QED BY <2>2, <2>3, <2>4, <2>5
<1>10. closed = whole
  BY <1>6, <1>8, <1>9, SeqEqual
<1>11. SubSeq(d, pos, Len(d)) = rest /\ SubSeq(d, 1, pos - 1) = front
  BY DEF rest, front
<1>. QED BY <1>1, <1>2, <1>10, <1>11 DEF Values!With, closed, opened, grown, whole

----------------------------------------------------------------------------
(***************************************************************************)
(* The operations on one variable.                                         *)
(***************************************************************************)
LEMMA OwnBuffer ==
  ASSUME StringsInv, NEW v \in Vars
  PROVE  /\ heap \in Heaps /\ Extends(heap, heap) /\ data[v] \in Pointers(heap)
         /\ Text(v) = Bytes(heap, data[v]) /\ Text(v) \in Seq(Letters)
         /\ [w \in Vars |-> Text(w)][v] = Text(v)
         /\ NewIn(heap, EnsureUnique(heap, data[v]), Text(v))
<1>1. heap \in Heaps /\ Extends(heap, heap)
  BY ExtendsSelf DEF StringsInv, Shape
<1>2. Text(v) \in Seq(Letters) /\ data[v] \in Pointers(heap)
  BY TextType DEF StringsInv
<1>3. NewIn(heap, EnsureUnique(heap, data[v]), Text(v))
  BY <1>1, <1>2, EnsureIsNew DEF Text
<1>. QED BY <1>1, <1>2, <1>3 DEF Text

LEMMA AssignTextHolds ==
  ASSUME StringsInv, NEW v \in Vars, NEW s \in Seq(Letters), AssignText(v, s)
  PROVE  Preserved /\ Values!AssignText(v, s)
<1>1. NewIn(heap, AllocBytes(heap, s), s)
  BY OwnBuffer, AllocIsNew
<1>2. Gets(v, AllocBytes(heap, s))
  BY DEF AssignText
<1>3. Preserved /\ Values!Gets(v, s)
  BY <1>1, <1>2, GetsNew
<1>. QED BY <1>3 DEF Values!AssignText

LEMMA SetLengthHolds ==
  ASSUME StringsInv, NEW v \in Vars, NEW n \in Nat, n <= MaxLength, SetLength(v, n)
  PROVE  Preserved /\ Values!SetLength(v, n)
<1>. DEFINE s == Values!Resized(Text(v), n)
<1>1. Resize(heap, data[v], n) = AllocBytes(heap, s) /\ s \in Seq(Letters)
  BY OwnBuffer, ResizeIsAlloc
<1>. HIDE DEF s
<1>2. NewIn(heap, AllocBytes(heap, s), s)
  BY <1>1, OwnBuffer, AllocIsNew
<1>3. Gets(v, AllocBytes(heap, s))
  BY <1>1 DEF SetLength
<1>4. Preserved /\ Values!Gets(v, s)
  BY <1>2, <1>3, GetsNew
<1>5. s = Values!Resized([w \in Vars |-> Text(w)][v], n)
  BY OwnBuffer DEF s
<1>. QED BY <1>4, <1>5 DEF Values!SetLength

\* A buffer of its own, written from i on.
LEMMA WriteOwn ==
  ASSUME StringsInv, NEW v \in Vars, NEW i \in Nat \ {0}, NEW t \in Seq(Letters),
         t = <<>> \/ Text(v) # <<>>,
         NEW own, own = EnsureUnique(heap, data[v]),
         Gets(v, Kept(Stored(own.heap, own.at, i, t), own.at))
  PROVE  Preserved /\ Values!Gets(v, Overwritten(Text(v), i, t))
<1>1. NewIn(heap, own, Text(v))
  BY OwnBuffer
<1>2. NewIn(heap, Kept(Stored(own.heap, own.at, i, t), own.at), Overwritten(Text(v), i, t))
  BY <1>1, OwnBuffer, StoredIsNew
<1>. QED BY <1>2, GetsNew

LEMMA SetCharHolds ==
  ASSUME StringsInv, NEW v \in Vars, NEW i \in Nat \ {0}, NEW c \in Letters, SetChar(v, i, c)
  PROVE  Preserved /\ Values!SetChar(v, i, c)
<1>. PICK own : own = EnsureUnique(heap, data[v])
  OBVIOUS
<1>1. i <= Len(Text(v)) /\ Gets(v, Kept(Stored(own.heap, own.at, i, <<c>>), own.at))
  <2>1. i + 1 - 1 <= Len(Text(v))
    BY DEF SetChar, Within
  <2>2. Len(Text(v)) \in Nat
    BY OwnBuffer
  <2>. QED BY <2>1, <2>2 DEF SetChar
<1>2. Text(v) \in Seq(Letters) /\ Text(v) # <<>>
  BY <1>1, OwnBuffer
<1>3. <<c>> \in Seq(Letters) /\ Overwritten(Text(v), i, <<c>>) = Values!Filled(Text(v), i, 1, c)
  BY <1>2, CharText
<1>4. Preserved /\ Values!Gets(v, Values!Filled(Text(v), i, 1, c))
  BY <1>1, <1>2, <1>3, WriteOwn
<1>5. Values!Within(Text(v), i, 1)
  BY <1>1, <1>2 DEF Values!Within
<1>6. [w \in Vars |-> Text(w)][v] = Text(v)
  OBVIOUS
<1>. QED BY <1>4, <1>5, <1>6 DEF Values!SetChar

LEMMA FillHolds ==
  ASSUME StringsInv, NEW v \in Vars, NEW i \in Nat \ {0}, NEW n \in Nat, NEW c \in Letters,
         Fill(v, i, n, c)
  PROVE  Preserved /\ Values!Fill(v, i, n, c)
<1>. PICK own : own = EnsureUnique(heap, data[v])
  OBVIOUS
<1>. PICK t : t = [k \in 1 .. n |-> c]
  OBVIOUS
<1>1. i + n - 1 <= Len(Text(v)) /\ Gets(v, Kept(Stored(own.heap, own.at, i, t), own.at))
  BY DEF Fill, Within
<1>2. Text(v) \in Seq(Letters)
  BY OwnBuffer
<1>3. /\ t \in Seq(Letters) /\ Len(t) = n
      /\ Overwritten(Text(v), i, t) = Values!Filled(Text(v), i, n, c)
  BY <1>2, FilledText
<1>4. t = <<>> \/ Text(v) # <<>>
  <2>1. CASE n = 0
    BY <2>1, <1>3
  <2>2. CASE n > 0
    <3>1. Len(Text(v)) \in Nat /\ Len(Text(v)) > 0
      BY <2>2, <1>1, <1>2
    <3>. QED BY <3>1
  <2>. QED BY <2>1, <2>2
<1>5. Preserved /\ Values!Gets(v, Values!Filled(Text(v), i, n, c))
  BY <1>1, <1>3, <1>4, WriteOwn
<1>6. Values!Within(Text(v), i, n)
  BY <1>1, <1>2 DEF Values!Within
<1>7. [w \in Vars |-> Text(w)][v] = Text(v)
  OBVIOUS
<1>. QED BY <1>5, <1>6, <1>7 DEF Values!Fill

LEMMA StaysHolds ==
  ASSUME StringsInv, UNCHANGED vars
  PROVE  Preserved /\ UNCHANGED Values!vars
<1>1. StringsInv'
  BY DEF vars, StringsInv, Shape, PointedBufferIsOwn, Sharers
<1>2. Len(heap) <= Len(heap')
  BY DEF vars, StringsInv, Shape, Heaps
<1>. QED BY <1>1, <1>2 DEF Preserved, vars, Values!vars, Text, Bytes

LEMMA DeleteHolds ==
  ASSUME StringsInv, NEW v \in Vars, NEW i \in Nat \ {0}, NEW n \in Nat, Delete(v, i, n)
  PROVE  Preserved /\ Values!Delete(v, i, n)
<1>1. Text(v) \in Seq(Letters) /\ Len(Text(v)) \in Nat /\ [w \in Vars |-> Text(w)][v] = Text(v)
  BY OwnBuffer
<1>2. CASE i > Len(Text(v)) \/ n = 0
  <2>1. i > Len(Text(v)) \/ n <= 0
    BY <1>2
  <2>2. UNCHANGED vars
    BY <2>1 DEF Delete
  <2>3. ~ (i <= Len(Text(v)) /\ n > 0)
    BY <1>1, <1>2
  <2>. QED BY <1>1, <2>2, <2>3, StaysHolds DEF Values!Delete
<1>3. CASE ~ (i > Len(Text(v)) \/ n = 0)
  <2>. PICK own : own = EnsureUnique(heap, data[v])
    OBVIOUS
  <2>. PICK count : count = Least(n, Len(Text(v)) - (i - 1))
    OBVIOUS
  <2>. DEFINE tail == SubSeq(Text(v), i + count, Len(Text(v)))
              cut == Stored(own.heap, own.at, i, tail)
              s == Values!Without(Text(v), i, n)
  <2>1. n \in Nat \ {0} /\ i <= Len(Text(v)) /\ ~ (n <= 0) /\ ~ (i > Len(Text(v)))
    BY <1>1, <1>3
  <2>2. Gets(v, Resize(cut, own.at, Len(Text(v)) - count))
    BY <2>1 DEF Delete
  <2>3. /\ count \in Nat \ {0} /\ i + count <= Len(Text(v)) + 1
        /\ count = n \/ (count < n /\ i + count = Len(Text(v)) + 1)
    BY <1>1, <2>1 DEF Least
  <2>4. /\ tail \in Seq(Letters)
        /\ Values!Resized(Overwritten(Text(v), i, tail), Len(Text(v)) - count) = s
    BY <1>1, <2>1, <2>3, DeletedText
  <2>5. Text(v) # <<>>
    BY <1>1, <2>1
  <2>6. NewIn(heap, Kept(cut, own.at), Overwritten(Text(v), i, tail))
    BY <2>4, <2>5, OwnBuffer, StoredIsNew
  <2>. HIDE DEF tail, cut, s
  <2>7. cut \in Heaps /\ own.at \in Pointers(cut) /\ Extends(heap, cut)
        /\ Bytes(cut, own.at) = Overwritten(Text(v), i, tail)
    <3>. PICK r : r = Kept(cut, own.at)
      OBVIOUS
    <3>1. r.heap = cut /\ r.at = own.at
      BY DEF Kept
    <3>2. r.heap \in Heaps /\ r.at \in Pointers(r.heap)
      BY <2>6, OwnBuffer, NewBytes
    <3>. QED BY <2>6, <3>1, <3>2 DEF NewIn
  <2>8. Len(Text(v)) - count \in Nat
    BY <1>1, <2>1, <2>3
  <2>9. Resize(cut, own.at, Len(Text(v)) - count) = AllocBytes(cut, s) /\ s \in Seq(Letters)
    BY <2>4, <2>7, <2>8, ResizeIsAlloc
  <2>10. NewIn(heap, AllocBytes(cut, s), s)
    BY <2>7, <2>9, OwnBuffer, AllocIsNew
  <2>11. Preserved /\ Values!Gets(v, s)
    BY <2>2, <2>9, <2>10, GetsNew
  <2>. QED BY <1>1, <2>1, <2>11 DEF Values!Delete, s
<1>. QED BY <1>2, <1>3

\* What a PChar designates, in the program and in Pascal.
LEMMA PointerFacts ==
  ASSUME StringsInv, pchar # NoPointer
  PROVE  /\ pchar.of \in Vars /\ data[pchar.of] = pchar.buffer
         /\ pchar.buffer \in 1 .. Len(heap) /\ heap[pchar.buffer] = Text(pchar.of)
         /\ pchar.index \in 1 .. Len(Text(pchar.of))
         /\ Text(pchar.of) \in Seq(Letters) /\ pchar.index \in Nat \ {0}
         /\ \A w \in Vars : data[w] = pchar.buffer => w = pchar.of
<1>1. /\ pchar.of \in Vars /\ data[pchar.of] = pchar.buffer
      /\ pchar.buffer \in 1 .. Len(heap)
      /\ pchar.index \in 1 .. Len(heap[pchar.buffer])
      /\ \A w \in Vars : data[w] = pchar.buffer => w = pchar.of
  BY DEF StringsInv, PointedBufferIsOwn, Sharers
<1>2. heap[pchar.buffer] = Text(pchar.of)
  BY <1>1 DEF Text, Bytes, Null, Empty, StringsInv, Shape, Heaps
<1>3. Text(pchar.of) \in Seq(Letters)
  BY <1>1, OwnBuffer
<1>. QED BY <1>1, <1>2, <1>3

LEMMA SetStringHolds ==
  ASSUME StringsInv, NEW d \in Vars, NEW n \in Nat, SetString(d, n)
  PROVE  Preserved /\ Values!SetString(d, n)
<1>. PICK cut : cut = Resize(heap, data[d], n)
  OBVIOUS
<1>. PICK own : own = EnsureUnique(cut.heap, cut.at)
  OBVIOUS
<1>. PICK i : i = pchar.index
  OBVIOUS
<1>. PICK p : p = Text(pchar.of)
  OBVIOUS
<1>. PICK old : old = Values!Resized(Text(d), n)
  OBVIOUS
<1>. DEFINE from == SubSeq(own.heap[pchar.buffer], i, i + n - 1)
            piece == SubSeq(p, i, i + n - 1)
<1>1. /\ pchar # NoPointer /\ i + n - 1 <= Len(heap[pchar.buffer])
      /\ Gets(d, IF n = 0 THEN cut ELSE Kept(Stored(own.heap, own.at, 1, from), own.at))
  BY DEF SetString
<1>2. /\ p \in Seq(Letters) /\ i \in Nat \ {0} /\ i + n - 1 <= Len(p)
      /\ pchar.of \in Vars /\ pchar.buffer \in 1 .. Len(heap) /\ heap[pchar.buffer] = p
  BY <1>1, PointerFacts
<1>3. cut = AllocBytes(heap, old) /\ old \in Seq(Letters) /\ Len(old) = n
  BY OwnBuffer, ResizeIsAlloc
<1>4. NewIn(heap, cut, old)
  BY <1>3, OwnBuffer, AllocIsNew
<1>5. Extends(heap, cut.heap) /\ cut.at \in Pointers(cut.heap) /\ Bytes(cut.heap, cut.at) = old
  BY <1>4, OwnBuffer, NewBytes DEF NewIn
<1>6. NewIn(heap, own, old)
  BY <1>5, OwnBuffer, EnsureIsNew
<1>7. own.heap[pchar.buffer] = p
  BY <1>2, <1>6 DEF NewIn, Extends
<1>8. piece \in Seq(Letters) /\ Len(piece) = n
  <2>1. i + n - 1 \in Int /\ n = (i + n - 1) - i + 1
    BY <1>2
  <2>. QED BY <1>2, <2>1, PartText
<1>9. Values!Part(p, i, n) = piece
  <2>. PICK ending \in Int : ending = i + n - 1
    BY <1>2
  <2>. PICK all \in Nat : all = Len(p)
    BY <1>2
  <2>0. ending <= all
    BY <1>2
  <2>1. Values!Least(ending, all) = ending
    BY <2>0 DEF Values!Least
  <2>. QED BY <2>1 DEF Values!Part
<1>10. from = piece
  BY <1>7
<1>. HIDE DEF from, piece
<1>11. Preserved /\ Values!Gets(d, piece)
  <2>1. CASE n = 0
    <3>1. old = piece
      BY <2>1, <1>3, <1>8
    <3>2. Gets(d, cut)
      BY <2>1, <1>1
    <3>. QED BY <3>1, <3>2, <1>4, GetsNew
  <2>2. CASE n # 0
    <3>1. old # <<>> /\ 1 \in Nat \ {0}
      BY <2>2, <1>3
    <3>2. NewIn(heap, Kept(Stored(own.heap, own.at, 1, piece), own.at), Overwritten(old, 1, piece))
      BY <3>1, <1>6, <1>8, OwnBuffer, StoredIsNew
    <3>3. Overwritten(old, 1, piece) = piece
      <4>1. /\ Overwritten(old, 1, piece) \in Seq(Letters) /\ Len(Overwritten(old, 1, piece)) = n
            /\ \A k \in 1 .. n : Overwritten(old, 1, piece)[k] =
                 IF k >= 1 /\ k < 1 + n THEN piece[k - 1 + 1] ELSE old[k]
        BY <3>1, <1>3, <1>8, OverwrittenText
      <4>2. \A k \in 1 .. n : k >= 1 /\ k < 1 + n /\ k - 1 + 1 = k
        OBVIOUS
      <4>3. \A k \in 1 .. n : Overwritten(old, 1, piece)[k] = piece[k]
        BY <4>1, <4>2
      <4>. QED BY <4>1, <4>3, <1>8, SeqEqual
    <3>4. Gets(d, Kept(Stored(own.heap, own.at, 1, piece), own.at))
      BY <2>2, <1>1, <1>10
    <3>. QED BY <3>2, <3>3, <3>4, GetsNew
  <2>. QED BY <2>1, <2>2
<1>12. [w \in Vars |-> Text(w)][pchar.of] = p
  BY <1>2
<1>13. Values!Within(p, i, n)
  BY <1>2 DEF Values!Within
<1>14. Values!NoPlace # [of |-> pchar.of, index |-> pchar.index]
  BY <1>1, PlaceFacts
<1>. QED BY <1>9, <1>11, <1>12, <1>13, <1>14 DEF Values!SetString

LEMMA TakeAddressHolds ==
  ASSUME StringsInv, NEW v \in Vars, NEW i \in Nat \ {0}, TakeAddress(v, i)
  PROVE  Preserved /\ Values!TakeAddress(v, i)
<1>. PICK own : own = EnsureUnique(heap, data[v])
  OBVIOUS
<1>. PICK s : s = Text(v)
  OBVIOUS
<1>1. /\ i + 1 - 1 <= Len(Text(v)) /\ heap' = own.heap
      /\ data' = [data EXCEPT ![v] = own.at]
      /\ pchar' = [of |-> v, buffer |-> own.at, index |-> i]
  BY DEF TakeAddress, Within
<1>2. NewIn(heap, own, s) /\ s \in Seq(Letters) /\ heap \in Heaps
  BY OwnBuffer
<1>3. i \in 1 .. Len(s) /\ s # <<>>
  BY <1>1, <1>2
<1>4. /\ Shape' /\ Value' = [Value EXCEPT ![v] = s]
      /\ data'[v] = own.at
      /\ own.at # Empty => \A w \in Vars : data'[w] = own.at => w = v
  <2>1. Shape
    BY DEF StringsInv
  <2>2. heap' = own.heap /\ data' = [data EXCEPT ![v] = own.at]
    BY <1>1
  <2>3. NewIn(heap, own, s)
    BY <1>2
  <2>. QED BY ONLY <2>1, <2>2, <2>3, v \in Vars, NewBuffer
<1>5. own.at # Empty /\ own.at \in 1 .. Len(own.heap) /\ own.heap[own.at] = s
  <2>1. own.at # Empty
    BY <1>2, <1>3 DEF NewIn, Bytes
  <2>2. own.at \in Len(heap) + 1 .. Len(own.heap) /\ Len(heap) \in Nat
    BY <1>2, <2>1 DEF NewIn, Heaps
  <2>3. own.at # Null
    BY <2>2 DEF Null
  <2>. QED BY <1>2, <2>1, <2>2, <2>3 DEF NewIn, Bytes
<1>6. PointedBufferIsOwn'
  <2>1. \A w \in Vars : data'[w] = own.at <=> w = v
    BY <1>4, <1>5
  <2>2. pchar'.of = v /\ pchar'.buffer = own.at /\ pchar'.index = i
    BY <1>1
  <2>. QED BY <1>1, <1>3, <1>4, <1>5, <2>1, <2>2 DEF PointedBufferIsOwn, Sharers
<1>7. Value' = Value
  BY <1>4 DEF Value
<1>8. Values!Within(Text(v), i, 1)
  BY <1>1 DEF Values!Within
<1>9. [of |-> pchar.of, index |-> pchar.index]' = [of |-> v, index |-> i]
  BY <1>1
<1>10. [w \in Vars |-> Text(w)][v] = Text(v)
  OBVIOUS
<1>11. Values!TakeAddress(v, i)
  BY <1>7, <1>8, <1>9, <1>10 DEF Values!TakeAddress, Value
<1>12. Len(heap) <= Len(heap')
  BY <1>1, <1>2 DEF NewIn, Extends
<1>. QED BY <1>4, <1>6, <1>11, <1>12 DEF StringsInv, Preserved

(***************************************************************************)
(* A store through a PChar: what it points into has no other owner.        *)
(***************************************************************************)
LEMMA StoreThroughHolds ==
  ASSUME StringsInv, NEW c \in Letters, StoreThrough(c)
  PROVE  Preserved /\ Values!StoreThrough(c)
<1>. PICK b : b = pchar.buffer
  OBVIOUS
<1>. PICK i : i = pchar.index
  OBVIOUS
<1>. PICK p : p = pchar.of
  OBVIOUS
<1>. DEFINE new == Overwritten(heap[b], i, <<c>>)
<1>1. pchar # NoPointer /\ heap' = Stored(heap, b, i, <<c>>) /\ data' = data /\ pchar' = pchar
  BY DEF StoreThrough
<1>2. /\ p \in Vars /\ data[p] = b /\ b \in 1 .. Len(heap) /\ heap[b] = Text(p)
      /\ i \in 1 .. Len(Text(p)) /\ Text(p) \in Seq(Letters) /\ i \in Nat \ {0}
      /\ \A w \in Vars : data[w] = b => w = p
  BY <1>1, PointerFacts
<1>3. heap \in Heaps /\ data \in [Vars -> Pointers(heap)]
  BY DEF StringsInv, Shape
<1>4. <<c>> \in Seq(Letters) /\ <<c>> # <<>> /\ new = Values!Filled(Text(p), i, 1, c)
  BY <1>2, CharText
<1>5. new \in Seq(Letters) /\ Len(new) = Len(heap[b])
  BY <1>2, <1>4, OverwrittenType
<1>6. heap' = [heap EXCEPT ![b] = new]
  BY <1>1, <1>2, <1>3, <1>4 DEF Stored, Overwritten, Heaps
<1>. HIDE DEF new
<1>7. /\ heap' \in Heaps /\ Len(heap') = Len(heap) /\ heap'[b] = new
      /\ \A k \in 1 .. Len(heap) : k # b => heap'[k] = heap[k]
  BY <1>2, <1>3, <1>5, <1>6, ExceptSeq DEF Heaps
<1>8. Shape'
  BY <1>1, <1>3, <1>7 DEF Shape, Pointers
<1>9. PointedBufferIsOwn'
  BY <1>1, <1>2, <1>5, <1>7 DEF PointedBufferIsOwn, Sharers
<1>10. \A w \in Vars : Bytes(heap', data[w]) = IF w = p THEN new ELSE Bytes(heap, data[w])
  BY <1>2, <1>3, <1>7 DEF Bytes, Pointers, Null, Empty
<1>11. Value' = [Value EXCEPT ![p] = new] /\ Value[p] = Text(p)
  BY <1>1, <1>2, <1>10 DEF Value, Text
<1>12. Values!NoPlace # [of |-> pchar.of, index |-> pchar.index]
  BY <1>1, PlaceFacts
<1>13. Values!StoreThrough(c)
  BY <1>1, <1>4, <1>11, <1>12 DEF Values!StoreThrough, Value
<1>14. Len(heap) <= Len(heap')
  BY <1>3, <1>7 DEF Heaps
<1>. QED BY <1>8, <1>9, <1>13, <1>14 DEF StringsInv, Preserved

----------------------------------------------------------------------------
(***************************************************************************)
(* The operations on two variables.                                        *)
(***************************************************************************)
LEMMA EndsTwoFacts ==
  ASSUME StringsInv, NEW d \in Vars, NEW s \in Vars,
         NEW p, p = IF PointsInto(d) THEN NoPointer ELSE Ends(s)
  PROVE  /\ p = NoPointer \/ (p = pchar /\ pchar.of \notin {d, s})
         /\ [of |-> p.of, index |-> p.index]
              = IF Values!Uses(d) \/ Values!Uses(s) THEN Values!NoPlace
                ELSE [of |-> pchar.of, index |-> pchar.index]
<1>1. CASE PointsInto(d)
  <2>1. p = NoPointer /\ Values!Uses(d)
    BY <1>1, PlaceFacts
  <2>. QED BY <2>1 DEF NoPointer, Nobody, Values!NoPlace
<1>2. CASE ~ PointsInto(d)
  <2>1. ~ Values!Uses(d) /\ p = Ends(s) /\ (pchar = NoPointer \/ pchar.of # d)
    BY <1>2, PlaceFacts
  <2>. QED BY <2>1, EndsFacts
<1>. QED BY <1>1, <1>2

LEMMA AssignStringHolds ==
  ASSUME StringsInv, NEW d \in Vars, NEW s \in Vars, AssignString(d, s)
  PROVE  Preserved /\ Values!AssignString(d, s)
<1>1. data' = [data EXCEPT ![d] = data[s]] /\ heap' = heap
  BY DEF AssignString
<1>2. /\ pchar' = NoPointer \/ (pchar' = pchar /\ pchar.of \notin {d, s})
      /\ [of |-> pchar'.of, index |-> pchar'.index]
           = IF Values!Uses(d) \/ Values!Uses(s) THEN Values!NoPlace
             ELSE [of |-> pchar.of, index |-> pchar.index]
  <2>1. pchar' = IF PointsInto(d) THEN NoPointer ELSE Ends(s)
    BY DEF AssignString
  <2>. QED BY <2>1, EndsTwoFacts
<1>3. /\ data'[d] = data[s]
      /\ \A w \in Vars : w # d => data'[w] = data[w]
  BY <1>1 DEF StringsInv, Shape
<1>4. Shape'
  BY <1>1 DEF StringsInv, Shape
<1>5. /\ Extends(heap, heap') /\ {d, s} \in SUBSET Vars
      /\ \A w \in Vars \ {d, s} : data'[w] = data[w]
      /\ \A w \in {d, s} : \E u \in {d, s} : data'[w] = data[u]
  BY <1>1, <1>3, OwnBuffer
<1>6. PointedBufferIsOwn'
  BY <1>2, <1>4, <1>5, PointerStays
<1>7. Value' = [Value EXCEPT ![d] = Value[s]]
  <2>1. \A w \in Vars : Bytes(heap', data'[w]) = IF w = d THEN Bytes(heap, data[s]) ELSE Bytes(heap, data[w])
    BY <1>1, <1>3
  <2>. QED BY <2>1 DEF Value, Text
<1>. QED BY <1>2, <1>4, <1>5, <1>6, <1>7 DEF StringsInv, Preserved, Extends, Values!AssignString, Value

LEMMA ConcatHolds ==
  ASSUME StringsInv, NEW d \in Vars, NEW a \in Vars, NEW b \in Vars, Concat(d, a, b)
  PROVE  Preserved /\ Values!Concat(d, a, b)
<1>. PICK s : s = Text(a) \o Text(b)
  OBVIOUS
<1>1. Len(Text(a)) + Len(Text(b)) <= MaxLength /\ Gets(d, AllocBytes(heap, s))
  BY DEF Concat
<1>2. s \in Seq(Letters)
  BY OwnBuffer
<1>3. NewIn(heap, AllocBytes(heap, s), s)
  BY <1>2, OwnBuffer, AllocIsNew
<1>4. Preserved /\ Values!Gets(d, s)
  BY <1>1, <1>3, GetsNew
<1>5. [w \in Vars |-> Text(w)][a] = Text(a) /\ [w \in Vars |-> Text(w)][b] = Text(b)
  OBVIOUS
<1>. QED BY <1>1, <1>4, <1>5 DEF Values!Concat

LEMMA CopyHolds ==
  ASSUME StringsInv, NEW d \in Vars, NEW s \in Vars, NEW i \in Nat \ {0}, NEW n \in Nat,
         Copy(d, s, i, n)
  PROVE  Preserved /\ Values!Copy(d, s, i, n)
<1>. PICK t : t = Text(s)
  OBVIOUS
<1>. PICK avail : avail = IF Len(t) - (i - 1) < 0 THEN 0 ELSE Len(t) - (i - 1)
  OBVIOUS
<1>. DEFINE piece == SubSeq(t, i, i - 1 + Least(n, avail))
<1>1. Gets(d, AllocBytes(heap, piece))
  BY DEF Copy
<1>2. piece = Values!Part(t, i, n) /\ piece \in Seq(Letters)
  <2>1. t \in Seq(Letters)
    BY OwnBuffer
  <2>2. avail = IF Len(t) - (i - 1) < 0 THEN 0 ELSE Len(t) - (i - 1)
    OBVIOUS
  <2>3. /\ SubSeq(t, i, i - 1 + Least(n, avail)) = Values!Part(t, i, n)
        /\ Values!Part(t, i, n) \in Seq(Letters)
    BY ONLY <2>1, <2>2, i \in Nat \ {0}, n \in Nat, CopiedText
  <2>. QED BY <2>3
<1>. HIDE DEF piece
<1>3. NewIn(heap, AllocBytes(heap, piece), piece)
  BY <1>2, OwnBuffer, AllocIsNew
<1>4. Preserved /\ Values!Gets(d, piece)
  BY <1>1, <1>3, GetsNew
<1>5. [w \in Vars |-> Text(w)][s] = Text(s)
  OBVIOUS
<1>. QED BY <1>2, <1>4, <1>5 DEF Values!Copy

LEMMA InsertHolds ==
  ASSUME StringsInv, NEW s \in Vars, NEW d \in Vars, NEW i \in Nat \ {0}, Insert(s, d, i)
  PROVE  Preserved /\ Values!Insert(s, d, i)
<1>0. [w \in Vars |-> Text(w)][s] = Text(s) /\ [w \in Vars |-> Text(w)][d] = Text(d)
  OBVIOUS
<1>1. CASE Text(s) = <<>>
  <2>1. UNCHANGED vars
    BY <1>1 DEF Insert
  <2>. QED BY <1>0, <1>1, <2>1, StaysHolds DEF Values!Insert
<1>2. CASE Text(s) # <<>>
  <2>. PICK t : t = Text(s)
    OBVIOUS
  <2>. PICK old : old = Text(d)
    OBVIOUS
  <2>. PICK pos : pos = Least(i, Len(old) + 1)
    OBVIOUS
  <2>. PICK grown : grown = Resize(heap, data[d], Len(old) + Len(t))
    OBVIOUS
  <2>. DEFINE rest == SubSeq(old, pos, Len(old))
              more == Values!Resized(old, Len(old) + Len(t))
              opened == Stored(grown.heap, grown.at, pos + Len(t), rest)
              text == Values!With(old, t, pos)
  <2>1. /\ Len(t) + Len(old) <= MaxLength
        /\ Gets(d, Kept(Stored(opened, grown.at, pos, t), grown.at))
    BY <1>2 DEF Insert
  <2>2. /\ t \in Seq(Letters) /\ old \in Seq(Letters) /\ t # <<>>
        /\ Len(t) \in Nat \ {0} /\ Len(old) \in Nat /\ Len(old) + Len(t) \in Nat \ {0}
    <3>1. t \in Seq(Letters) /\ old \in Seq(Letters) /\ t # <<>>
      BY <1>2, OwnBuffer
    <3>. QED BY <3>1
  <2>3. pos \in Nat \ {0} /\ pos <= Len(old) + 1 /\ pos + Len(t) \in Nat \ {0}
    <3>1. pos \in Nat \ {0} /\ pos <= Len(old) + 1
      BY <2>2 DEF Least
    <3>. QED BY <2>2, <3>1
  <2>4. /\ rest \in Seq(Letters)
        /\ Overwritten(Overwritten(more, pos + Len(t), rest), pos, t) = text
    BY <2>2, <2>3, InsertedText
  <2>. HIDE DEF rest, text
  <2>5. grown = AllocBytes(heap, more) /\ more \in Seq(Letters) /\ more # <<>>
    <3>1. /\ grown = AllocBytes(heap, more) /\ more \in Seq(Letters)
          /\ Len(more) = Len(old) + Len(t)
      BY <2>2, OwnBuffer, ResizeIsAlloc
    <3>2. Len(more) # 0
      BY <2>2, <3>1
    <3>. QED BY <3>1, <3>2
  <2>. HIDE DEF more
  <2>6. NewIn(heap, grown, more)
    BY <2>5, OwnBuffer, AllocIsNew
  <2>7. NewIn(heap, Kept(opened, grown.at), Overwritten(more, pos + Len(t), rest))
    BY <2>3, <2>4, <2>5, <2>6, OwnBuffer, StoredIsNew
  <2>. HIDE DEF opened
  <2>8. Overwritten(more, pos + Len(t), rest) # <<>>
    <3>1. Len(Overwritten(more, pos + Len(t), rest)) = Len(more)
      BY <2>3, <2>4, <2>5, OverwrittenType
    <3>. QED BY <2>5, <3>1
  <2>9. NewIn(heap, Kept(Stored(opened, grown.at, pos, t), grown.at), text)
    <3>. PICK r : r = Kept(opened, grown.at)
      OBVIOUS
    <3>. PICK mid : mid = Overwritten(more, pos + Len(t), rest)
      OBVIOUS
    <3>1. r.heap = opened /\ r.at = grown.at
      BY DEF Kept
    <3>2. NewIn(heap, r, mid) /\ mid # <<>> /\ heap \in Heaps
      BY <2>7, <2>8, OwnBuffer
    <3>3. NewIn(heap, Kept(Stored(r.heap, r.at, pos, t), r.at), Overwritten(mid, pos, t))
      BY <2>2, <2>3, <3>2, StoredIsNew
    <3>. QED BY <2>4, <3>1, <3>3
  <2>10. Preserved /\ Values!Gets(d, text)
    BY <2>1, <2>9, GetsNew
  <2>11. pos = Values!Least(i, Len(old) + 1)
    BY DEF Least, Values!Least
  <2>. QED BY <1>0, <1>2, <2>1, <2>10, <2>11 DEF Values!Insert, text
<1>. QED BY <1>1, <1>2
(***************************************************************************)
(* Move gives both of its strings a new buffer, in either order, and       *)
(* writes to one of them.                                                  *)
(***************************************************************************)
LEMMA MovedText ==
  ASSUME NEW s \in Seq(Letters), NEW d \in Seq(Letters),
         NEW i \in Nat \ {0}, NEW j \in Nat \ {0}, NEW n \in Nat,
         i + n - 1 <= Len(s), j + n - 1 <= Len(d)
  PROVE  LET piece == SubSeq(s, i, i + n - 1)
         IN /\ piece \in Seq(Letters) /\ (piece = <<>> \/ d # <<>>)
            /\ Overwritten(d, j, piece) = Values!Moved(s, i, d, j, n)
<1>. DEFINE piece == SubSeq(s, i, i + n - 1)
<1>1. /\ piece \in Seq(Letters) /\ Len(piece) = n
      /\ \A k \in 1 .. n : piece[k] = s[i + k - 1]
  <2>1. i + n - 1 \in Int /\ n = (i + n - 1) - i + 1
    OBVIOUS
  <2>. QED BY <2>1, PartText
<1>. HIDE DEF piece
<1>2. piece = <<>> \/ d # <<>>
  <2>1. CASE n = 0
    BY <2>1, <1>1
  <2>2. CASE n > 0
    <3>1. Len(d) \in Nat /\ Len(d) > 0
      BY <2>2
    <3>. QED BY <3>1
  <2>. QED BY <2>1, <2>2
<1>3. \A k \in DOMAIN d : k >= j /\ k < j + n => piece[k - j + 1] = s[i + k - j]
  <2>1. ASSUME NEW k \in 1 .. Len(d), k >= j, k < j + n
        PROVE  piece[k - j + 1] = s[i + k - j]
    <3>1. k - j + 1 \in 1 .. n /\ i + (k - j + 1) - 1 = i + k - j
      BY <2>1
    <3>. QED BY <3>1, <1>1
  <2>2. DOMAIN d = 1 .. Len(d)
    OBVIOUS
  <2>. QED BY <2>1, <2>2
<1>4. Overwritten(d, j, piece) = Values!Moved(s, i, d, j, n)
  BY <1>1, <1>3 DEF Overwritten, Values!Moved
<1>. QED BY <1>1, <1>2, <1>4 DEF piece

LEMMA TwoNewBuffers ==
  ASSUME StringsInv, NEW a \in Vars, NEW b \in Vars, a # b, NEW x, NEW y,
         Extends(heap, heap'),
         x = Empty \/ x \in Len(heap) + 1 .. Len(heap'),
         y = Empty \/ y \in Len(heap) + 1 .. Len(heap'),
         data'[a] = x, data'[b] = y, data' = [w \in Vars |-> data'[w]],
         \A w \in Vars \ {a, b} : data'[w] = data[w],
         pchar' = NoPointer \/ (pchar' = pchar /\ pchar.of \notin {a, b})
  PROVE  /\ Preserved
         /\ \A w \in Vars : Value'[w] = IF w = a THEN Bytes(heap', x)
                                       ELSE IF w = b THEN Bytes(heap', y) ELSE Value[w]
<1>1. heap \in Heaps /\ heap' \in Heaps /\ Len(heap) \in Nat /\ Len(heap') \in Nat
  BY DEF StringsInv, Shape, Extends, Heaps
<1>3. /\ x \in Pointers(heap') /\ x \notin 1 .. Len(heap)
      /\ y \in Pointers(heap') /\ y \notin 1 .. Len(heap)
  BY <1>1 DEF Pointers, Empty, Null
<1>4. \A w \in Vars : data[w] \in Pointers(heap') /\ Bytes(heap', data[w]) = Bytes(heap, data[w])
  BY <1>1, BytesStay DEF StringsInv, Shape
<1>5. data' \in [Vars -> Pointers(heap')]
  <2>1. \A w \in Vars : data'[w] \in Pointers(heap')
    BY <1>3, <1>4
  <2>. QED BY <2>1
<1>6. Shape'
  BY <1>1, <1>5 DEF Shape
<1>7. /\ {a, b} \in SUBSET Vars
      /\ \A w \in {a, b} : data'[w] \notin 1 .. Len(heap)
  BY <1>3
<1>8. PointedBufferIsOwn'
  BY <1>6, <1>7, PointerStays
<1>9. \A w \in Vars : Bytes(heap', data'[w]) =
        IF w = b THEN Bytes(heap', y) ELSE IF w = a THEN Bytes(heap', x) ELSE Bytes(heap, data[w])
  BY <1>4
<1>10. \A w \in Vars : Value'[w] = IF w = a THEN Bytes(heap', x)
                                 ELSE IF w = b THEN Bytes(heap', y) ELSE Value[w]
  BY <1>9 DEF Value, Text
<1>. QED BY <1>6, <1>8, <1>10 DEF StringsInv, Preserved, Extends

\* a is made unique, then b.
LEMMA TwoUniqueFacts ==
  ASSUME StringsInv, NEW a \in Vars, NEW b \in Vars,
         NEW one, one = EnsureUnique(heap, data[a]),
         NEW two, two = EnsureUnique(one.heap, data[b])
  PROVE  /\ heap \in Heaps /\ NewIn(heap, one, Text(a)) /\ Text(a) \in Seq(Letters)
         /\ one.heap \in Heaps /\ one.at \in Pointers(one.heap) /\ Extends(heap, one.heap)
         /\ Bytes(one.heap, one.at) = Text(a)
         /\ one.at = Empty \/ one.at \in Len(heap) + 1 .. Len(one.heap)
         /\ NewIn(one.heap, two, Text(b))
         /\ Bytes(two.heap, one.at) = Text(a) /\ Bytes(two.heap, two.at) = Text(b)
<1>1. /\ heap \in Heaps /\ NewIn(heap, one, Text(a)) /\ Text(a) \in Seq(Letters)
      /\ data[b] \in Pointers(heap) /\ Text(b) = Bytes(heap, data[b])
  BY OwnBuffer
<1>2. /\ one.heap \in Heaps /\ one.at \in Pointers(one.heap) /\ Extends(heap, one.heap)
      /\ Bytes(one.heap, one.at) = Text(a)
      /\ one.at = Empty \/ one.at \in Len(heap) + 1 .. Len(one.heap)
  BY <1>1, NewBytes DEF NewIn
<1>3. Bytes(one.heap, data[b]) = Text(b) /\ data[b] \in Pointers(one.heap)
  BY <1>1, <1>2, BytesStay
<1>4. NewIn(one.heap, two, Text(b))
  BY <1>2, <1>3, ExtendsSelf, EnsureIsNew
<1>5. Bytes(two.heap, one.at) = Text(a) /\ Bytes(two.heap, two.at) = Text(b)
  BY <1>2, <1>4, BytesStay DEF NewIn
<1>. QED BY <1>1, <1>2, <1>4, <1>5

\* t is stored in the buffer of b ...
LEMMA StoreInSecond ==
  ASSUME StringsInv, NEW a \in Vars, NEW b \in Vars, a # b,
         NEW one, one = EnsureUnique(heap, data[a]),
         NEW two, two = EnsureUnique(one.heap, data[b]),
         NEW j \in Nat \ {0}, NEW t \in Seq(Letters), t = <<>> \/ Text(b) # <<>>,
         data'[a] = one.at, data'[b] = two.at, data' = [w \in Vars |-> data'[w]],
         \A w \in Vars \ {a, b} : data'[w] = data[w],
         heap' = Stored(two.heap, two.at, j, t),
         pchar' = NoPointer \/ (pchar' = pchar /\ pchar.of \notin {a, b})
  PROVE  /\ Preserved
         /\ Value' = [Value EXCEPT ![b] = Overwritten(Text(b), j, t)]
<1>1. heap \in Heaps
  BY TwoUniqueFacts
<1>2. /\ one.heap \in Heaps /\ one.at \in Pointers(one.heap) /\ Extends(heap, one.heap)
      /\ Bytes(one.heap, one.at) = Text(a)
      /\ one.at = Empty \/ one.at \in Len(heap) + 1 .. Len(one.heap)
  BY TwoUniqueFacts
<1>4. NewIn(one.heap, two, Text(b))
  BY TwoUniqueFacts
<1>6. NewIn(one.heap, Kept(heap', two.at), Overwritten(Text(b), j, t))
  BY <1>2, <1>4, StoredIsNew
<1>7. /\ Extends(one.heap, heap') /\ Bytes(heap', two.at) = Overwritten(Text(b), j, t)
      /\ two.at = Empty \/ two.at \in Len(one.heap) + 1 .. Len(heap')
  BY <1>6 DEF NewIn, Kept
<1>8. Extends(heap, heap') /\ Bytes(heap', one.at) = Text(a)
  BY <1>1, <1>2, <1>7, ExtendsOn, BytesStay
<1>9. /\ one.at = Empty \/ one.at \in Len(heap) + 1 .. Len(heap')
      /\ two.at = Empty \/ two.at \in Len(heap) + 1 .. Len(heap')
  <2>1. /\ Len(heap) \in Nat /\ Len(one.heap) \in Nat /\ Len(heap') \in Nat
        /\ Len(heap) <= Len(one.heap) /\ Len(one.heap) <= Len(heap')
    <3>1. Extends(heap, one.heap) /\ Extends(one.heap, heap') /\ one.heap \in Heaps
      BY <1>2, <1>7
    <3>. QED BY ONLY <1>1, <3>1, ExtendsLength
  <2>. QED BY <1>2, <1>7, <2>1
<1>10. /\ Preserved
       /\ \A w \in Vars : Value'[w] = IF w = b THEN Overwritten(Text(b), j, t) ELSE Value[w]
  <2>. PICK x : x = one.at
    OBVIOUS
  <2>. PICK y : y = two.at
    OBVIOUS
  <2>1. /\ Extends(heap, heap') /\ a # b
        /\ x = Empty \/ x \in Len(heap) + 1 .. Len(heap')
        /\ y = Empty \/ y \in Len(heap) + 1 .. Len(heap')
        /\ data'[a] = x /\ data'[b] = y /\ data' = [w \in Vars |-> data'[w]]
        /\ \A w \in Vars \ {a, b} : data'[w] = data[w]
        /\ pchar' = NoPointer \/ (pchar' = pchar /\ pchar.of \notin {a, b})
    BY <1>8, <1>9 DEF StringsInv, Shape
  <2>2. /\ Preserved
        /\ \A w \in Vars : Value'[w] = IF w = a THEN Bytes(heap', x)
                                      ELSE IF w = b THEN Bytes(heap', y) ELSE Value[w]
    BY ONLY <2>1, StringsInv, a \in Vars, b \in Vars, TwoNewBuffers
  <2>. QED BY <1>7, <1>8, <2>1, <2>2 DEF Value
<1>11. Value' = [Value EXCEPT ![b] = Overwritten(Text(b), j, t)]
  BY <1>10 DEF Value
<1>. QED BY <1>10, <1>11

\* ... or in that of a.
LEMMA StoreInFirst ==
  ASSUME StringsInv, NEW a \in Vars, NEW b \in Vars, a # b,
         NEW one, one = EnsureUnique(heap, data[a]),
         NEW two, two = EnsureUnique(one.heap, data[b]),
         NEW j \in Nat \ {0}, NEW t \in Seq(Letters), t = <<>> \/ Text(a) # <<>>,
         data'[a] = one.at, data'[b] = two.at, data' = [w \in Vars |-> data'[w]],
         \A w \in Vars \ {a, b} : data'[w] = data[w],
         heap' = Stored(two.heap, one.at, j, t),
         pchar' = NoPointer \/ (pchar' = pchar /\ pchar.of \notin {a, b})
  PROVE  /\ Preserved
         /\ Value' = [Value EXCEPT ![a] = Overwritten(Text(a), j, t)]
<1>1. heap \in Heaps /\ Text(a) \in Seq(Letters)
  BY TwoUniqueFacts
<1>2. /\ one.heap \in Heaps /\ one.at \in Pointers(one.heap) /\ Extends(heap, one.heap)
      /\ Bytes(one.heap, one.at) = Text(a) /\ Bytes(two.heap, one.at) = Text(a)
      /\ one.at = Empty \/ one.at \in Len(heap) + 1 .. Len(one.heap)
  BY TwoUniqueFacts
<1>4. NewIn(one.heap, two, Text(b))
  BY TwoUniqueFacts
<1>5. /\ Extends(one.heap, two.heap) /\ Bytes(two.heap, two.at) = Text(b)
      /\ two.at = Empty \/ two.at \in Len(one.heap) + 1 .. Len(two.heap)
  BY <1>4 DEF NewIn
<1>6. /\ Len(heap) \in Nat /\ Len(one.heap) \in Nat /\ Len(two.heap) \in Nat
      /\ Len(heap) <= Len(one.heap) /\ Len(one.heap) <= Len(two.heap)
      /\ two.heap \in Heaps
  BY ONLY <1>1, <1>2, <1>5, ExtendsLength
<1>. PICK r : r = Kept(two.heap, one.at)
  OBVIOUS
<1>. PICK new : new = Overwritten(Text(a), j, t)
  OBVIOUS
<1>7. r.heap = two.heap /\ r.at = one.at
  BY DEF Kept
<1>8. NewIn(heap, r, Text(a))
  <2>1. Extends(heap, two.heap) /\ Bytes(two.heap, one.at) = Text(a)
    BY <1>1, <1>2, <1>5, ExtendsOn
  <2>2. one.at = Empty \/ one.at \in Len(heap) + 1 .. Len(two.heap)
    BY <1>2, <1>6
  <2>. QED BY <1>7, <2>1, <2>2 DEF NewIn
<1>9. NewIn(heap, Kept(heap', one.at), new)
  BY <1>1, <1>7, <1>8, StoredIsNew
<1>10. /\ Extends(heap, heap') /\ Bytes(heap', one.at) = new
       /\ one.at = Empty \/ one.at \in Len(heap) + 1 .. Len(heap')
  BY <1>9 DEF NewIn, Kept
<1>11. /\ Len(heap') = Len(two.heap)
       /\ \A k \in 1 .. Len(two.heap) : k # one.at => heap'[k] = two.heap[k]
  <2>1. heap' = Stored(two.heap, one.at, j, t) /\ two.heap \in Heaps
    BY <1>6
  <2>. QED BY ONLY <2>1, StoredElsewhere
<1>12. /\ Bytes(heap', two.at) = Text(b)
       /\ two.at = Empty \/ two.at \in Len(heap) + 1 .. Len(heap')
  <2>1. CASE two.at = Empty
    BY <2>1, <1>5 DEF Bytes
  <2>2. CASE two.at \in Len(one.heap) + 1 .. Len(two.heap)
    <3>1. two.at \in Len(heap) + 1 .. Len(heap') /\ two.at \in 1 .. Len(two.heap)
          /\ two.at # Empty /\ two.at # Null
      BY <2>2, <1>6, <1>11 DEF Empty, Null
    <3>2. two.at # one.at
      BY <2>2, <1>2, <1>6 DEF Empty
    <3>. QED BY <1>5, <1>11, <3>1, <3>2 DEF Bytes
  <2>. QED BY <1>5, <2>1, <2>2
<1>13. Preserved /\ \A w \in Vars : Value'[w] = IF w = a THEN new ELSE Value[w]
  <2>. PICK x : x = one.at
    OBVIOUS
  <2>. PICK y : y = two.at
    OBVIOUS
  <2>1. /\ Extends(heap, heap') /\ a # b
        /\ x = Empty \/ x \in Len(heap) + 1 .. Len(heap')
        /\ y = Empty \/ y \in Len(heap) + 1 .. Len(heap')
        /\ data'[a] = x /\ data'[b] = y /\ data' = [w \in Vars |-> data'[w]]
        /\ \A w \in Vars \ {a, b} : data'[w] = data[w]
        /\ pchar' = NoPointer \/ (pchar' = pchar /\ pchar.of \notin {a, b})
    BY <1>10, <1>12 DEF StringsInv, Shape
  <2>2. /\ Preserved
        /\ \A w \in Vars : Value'[w] = IF w = a THEN Bytes(heap', x)
                                      ELSE IF w = b THEN Bytes(heap', y) ELSE Value[w]
    BY ONLY <2>1, StringsInv, a \in Vars, b \in Vars, TwoNewBuffers
  <2>. QED BY <1>10, <1>12, <2>1, <2>2 DEF Value
<1>14. Value' = [Value EXCEPT ![a] = new]
  BY <1>13 DEF Value
<1>. QED BY <1>13, <1>14

LEMMA MoveHolds ==
  ASSUME StringsInv, NEW s \in Vars, NEW i \in Nat \ {0}, NEW d \in Vars, NEW j \in Nat \ {0},
         NEW n \in Nat, Move(s, i, d, j, n)
  PROVE  Preserved /\ Values!Move(s, i, d, j, n)
<1>. PICK t : t = SubSeq(Text(s), i, i + n - 1)
  OBVIOUS
<1>. DEFINE new == Overwritten(Text(d), j, t)
<1>1. s # d /\ i + n - 1 <= Len(Text(s)) /\ j + n - 1 <= Len(Text(d))
  BY DEF Move, Within
<1>2. Text(s) \in Seq(Letters) /\ Text(d) \in Seq(Letters)
  BY OwnBuffer
<1>3. /\ t \in Seq(Letters) /\ (t = <<>> \/ Text(d) # <<>>)
      /\ new = Values!Moved(Text(s), i, Text(d), j, n)
  BY <1>1, <1>2, MovedText
<1>4. /\ pchar' = NoPointer \/ (pchar' = pchar /\ pchar.of \notin {d, s})
      /\ [of |-> pchar'.of, index |-> pchar'.index]
           = IF Values!Uses(d) \/ Values!Uses(s) THEN Values!NoPlace
             ELSE [of |-> pchar.of, index |-> pchar.index]
  <2>1. pchar' = IF PointsInto(d) THEN NoPointer ELSE Ends(s)
    BY DEF Move
  <2>. QED BY <2>1, EndsTwoFacts
<1>. HIDE DEF new
<1>5. Preserved /\ Value' = [Value EXCEPT ![d] = new]
  <2>1. PICK sourceFirst \in BOOLEAN :
          LET one == EnsureUnique(heap, IF sourceFirst THEN data[s] ELSE data[d])
              after == [data EXCEPT ![IF sourceFirst THEN s ELSE d] = one.at]
              two == EnsureUnique(one.heap, IF sourceFirst THEN after[d] ELSE after[s])
              from == IF sourceFirst THEN one.at ELSE two.at
              to == IF sourceFirst THEN two.at ELSE one.at
          IN /\ data' = [after EXCEPT ![IF sourceFirst THEN d ELSE s] = two.at]
             /\ heap' = Stored(two.heap, to, j, SubSeq(Bytes(two.heap, from), i, i + n - 1))
    BY DEF Move
  <2>2. CASE sourceFirst = TRUE
    <3>. PICK one : one = EnsureUnique(heap, data[s])
      OBVIOUS
    <3>. PICK two : two = EnsureUnique(one.heap, data[d])
      OBVIOUS
    <3>1. [data EXCEPT ![s] = one.at][d] = data[d]
      BY <1>1
    <3>2. /\ data' = [[data EXCEPT ![s] = one.at] EXCEPT ![d] = two.at]
          /\ heap' = Stored(two.heap, two.at, j, SubSeq(Bytes(two.heap, one.at), i, i + n - 1))
      BY <2>1, <2>2, <3>1
    <3>3. Bytes(two.heap, one.at) = Text(s)
      BY TwoUniqueFacts
    <3>4. heap' = Stored(two.heap, two.at, j, t)
      BY <3>2, <3>3
    <3>5. /\ data'[s] = one.at /\ data'[d] = two.at /\ data' = [w \in Vars |-> data'[w]]
          /\ \A w \in Vars \ {s, d} : data'[w] = data[w]
      BY <1>1, <3>2 DEF StringsInv, Shape
    <3>6. /\ one = EnsureUnique(heap, data[s]) /\ two = EnsureUnique(one.heap, data[d])
          /\ pchar' = NoPointer \/ (pchar' = pchar /\ pchar.of \notin {s, d})
      BY <1>4
    <3>7. t \in Seq(Letters) /\ (t = <<>> \/ Text(d) # <<>>) /\ s # d
      BY <1>1, <1>3
    <3>8. Preserved /\ Value' = [Value EXCEPT ![d] = Overwritten(Text(d), j, t)]
      BY ONLY <3>4, <3>5, <3>6, <3>7, s \in Vars, d \in Vars, j \in Nat \ {0}, StringsInv, StoreInSecond
    <3>. QED BY <3>8 DEF new
  <2>3. CASE sourceFirst = FALSE
    <3>. PICK one : one = EnsureUnique(heap, data[d])
      OBVIOUS
    <3>. PICK two : two = EnsureUnique(one.heap, data[s])
      OBVIOUS
    <3>1. [data EXCEPT ![d] = one.at][s] = data[s]
      BY <1>1
    <3>2. /\ data' = [[data EXCEPT ![d] = one.at] EXCEPT ![s] = two.at]
          /\ heap' = Stored(two.heap, one.at, j, SubSeq(Bytes(two.heap, two.at), i, i + n - 1))
      BY <2>1, <2>3, <3>1
    <3>3. Bytes(two.heap, two.at) = Text(s)
      BY TwoUniqueFacts
    <3>4. heap' = Stored(two.heap, one.at, j, t)
      BY <3>2, <3>3
    <3>5. /\ data'[d] = one.at /\ data'[s] = two.at /\ data' = [w \in Vars |-> data'[w]]
          /\ \A w \in Vars \ {d, s} : data'[w] = data[w]
      BY <1>1, <3>2 DEF StringsInv, Shape
    <3>6. /\ one = EnsureUnique(heap, data[d]) /\ two = EnsureUnique(one.heap, data[s])
          /\ pchar' = NoPointer \/ (pchar' = pchar /\ pchar.of \notin {d, s})
      BY <1>4
    <3>7. t \in Seq(Letters) /\ (t = <<>> \/ Text(d) # <<>>) /\ s # d
      BY <1>1, <1>3
    <3>8. Preserved /\ Value' = [Value EXCEPT ![d] = Overwritten(Text(d), j, t)]
      BY ONLY <3>4, <3>5, <3>6, <3>7, s \in Vars, d \in Vars, j \in Nat \ {0}, StringsInv, StoreInFirst
    <3>. QED BY <3>8 DEF new
  <2>. QED BY <2>2, <2>3
<1>6. Values!Within(Text(s), i, n) /\ Values!Within(Text(d), j, n)
  BY <1>1 DEF Values!Within
<1>7. [w \in Vars |-> Text(w)][s] = Text(s) /\ [w \in Vars |-> Text(w)][d] = Text(d)
  OBVIOUS
<1>. QED BY <1>3, <1>4, <1>5, <1>6, <1>7 DEF Values!Move, Value
----------------------------------------------------------------------------
(***************************************************************************)
(* Every step of every program.                                            *)
(***************************************************************************)
LEMMA InputFacts ==
  /\ \A s \in Texts : s \in Seq(Letters)
  /\ \A i \in Positions : i \in Nat \ {0}
  /\ \A n \in Counts : n \in Nat /\ n <= MaxLength
  /\ \A c \in Chars : c \in Letters
<1>1. ASSUME NEW s \in Texts PROVE s \in Seq(Letters)
  <2>1. PICK n \in Nat : s \in [1 .. n -> Chars]
    BY <1>1 DEF Texts
  <2>2. s \in [1 .. n -> Letters]
    BY <2>1 DEF Letters
  <2>. QED BY <2>2
<1>. QED BY <1>1, StringsAssumption DEF Positions, Counts, Letters

LEMMA OneHolds ==
  ASSUME StringsInv, NEW v \in Vars
  PROVE  OneSimulates(v) /\ (OfOne(v) => Preserved)
<1>1. ASSUME NEW s \in Texts, AssignText(v, s)
      PROVE  Preserved /\ Values!AssignText(v, s)
  BY <1>1, InputFacts, AssignTextHolds
<1>2. ASSUME NEW n \in Counts, SetLength(v, n)
      PROVE  Preserved /\ Values!SetLength(v, n)
  BY <1>2, InputFacts, SetLengthHolds
<1>3. ASSUME NEW i \in Positions, NEW c \in Chars, SetChar(v, i, c)
      PROVE  Preserved /\ Values!SetChar(v, i, c)
  BY <1>3, InputFacts, SetCharHolds
<1>4. ASSUME NEW i \in Positions, NEW n \in Counts, Delete(v, i, n)
      PROVE  Preserved /\ Values!Delete(v, i, n)
  BY <1>4, InputFacts, DeleteHolds
<1>5. ASSUME NEW i \in Positions, NEW n \in Counts, NEW c \in Chars, Fill(v, i, n, c)
      PROVE  Preserved /\ Values!Fill(v, i, n, c)
  BY <1>5, InputFacts, FillHolds
<1>6. ASSUME NEW i \in Positions, TakeAddress(v, i)
      PROVE  Preserved /\ Values!TakeAddress(v, i)
  BY <1>6, InputFacts, TakeAddressHolds
<1>7. ASSUME NEW n \in Counts, SetString(v, n)
      PROVE  Preserved /\ Values!SetString(v, n)
  BY <1>7, InputFacts, SetStringHolds
<1>8. OneSimulates(v)
  BY <1>1, <1>2, <1>3, <1>4, <1>5, <1>6, <1>7 DEF OneSimulates
<1>9. OfOne(v) => Preserved
  BY <1>1, <1>2, <1>3, <1>4, <1>5, <1>6, <1>7 DEF OfOne
<1>. QED BY <1>8, <1>9

LEMMA TwoHold ==
  ASSUME StringsInv, NEW d \in Vars, NEW s \in Vars
  PROVE  TwoSimulate(d, s) /\ (OfTwo(d, s) => Preserved)
<1>1. ASSUME AssignString(d, s)
      PROVE  Preserved /\ Values!AssignString(d, s)
  BY <1>1, AssignStringHolds
<1>2. ASSUME NEW i \in Positions, NEW n \in Counts, Copy(d, s, i, n)
      PROVE  Preserved /\ Values!Copy(d, s, i, n)
  BY <1>2, InputFacts, CopyHolds
<1>3. ASSUME NEW i \in Positions, Insert(s, d, i)
      PROVE  Preserved /\ Values!Insert(s, d, i)
  BY <1>3, InputFacts, InsertHolds
<1>4. ASSUME NEW i \in Positions, NEW j \in Positions, NEW n \in Counts, Move(s, i, d, j, n)
      PROVE  Preserved /\ Values!Move(s, i, d, j, n)
  BY <1>4, InputFacts, MoveHolds
<1>5. ASSUME NEW t \in Vars, Concat(d, s, t)
      PROVE  Preserved /\ Values!Concat(d, s, t)
  BY <1>5, ConcatHolds
<1>6. TwoSimulate(d, s)
  BY <1>1, <1>2, <1>3, <1>4, <1>5 DEF TwoSimulate
<1>7. OfTwo(d, s) => Preserved
  BY <1>1, <1>2, <1>3, <1>4, <1>5 DEF OfTwo
<1>. QED BY <1>6, <1>7

LEMMA StepSimulates ==
  ASSUME StringsInv
  PROVE  Simulates /\ (Next => Preserved)
<1>1. \A c \in Chars : StoreThrough(c) => Preserved /\ Values!StoreThrough(c)
  BY InputFacts, StoreThroughHolds
<1>2. \A v \in Vars : OneSimulates(v) /\ (OfOne(v) => Preserved)
  BY OneHolds
<1>3. \A d, s \in Vars : TwoSimulate(d, s) /\ (OfTwo(d, s) => Preserved)
  BY TwoHold
<1>4. Simulates
  BY <1>1, <1>2, <1>3 DEF Simulates
<1>5. Next => Preserved
  BY <1>1, <1>2, <1>3 DEF Next
<1>. QED BY <1>4, <1>5

LEMMA StringsInit == Init => StringsInv /\ Values!Init
<1>. SUFFICES ASSUME Init PROVE StringsInv /\ Values!Init
  OBVIOUS
<1>1. heap = <<>> /\ heap \in Heaps /\ pchar = NoPointer /\ data \in [Vars -> {Null, Empty}]
  BY DEF Init, Heaps
<1>2. StringsInv
  BY <1>1 DEF StringsInv, Shape, PointedBufferIsOwn, Pointers
<1>3. \A v \in Vars : Text(v) = <<>>
  BY <1>1 DEF Text, Bytes
<1>4. [of |-> pchar.of, index |-> pchar.index] = Values!NoPlace
  BY <1>1 DEF NoPointer, Nobody, Values!NoPlace
<1>. QED BY <1>2, <1>3, <1>4 DEF Values!Init

LEMMA TeardownKeepsStrings ==
  ASSUME StringsInv, [TeardownNext]_teardownVars
  PROVE  Preserved /\ (~ Work => UNCHANGED vars)
<1>1. ASSUME Work PROVE Preserved
  BY <1>1, StepSimulates DEF Work
<1>2. ASSUME ~ Work PROVE UNCHANGED vars
  BY <1>2 DEF TeardownNext, InitReturns, Exit, StartFini, FiniReturns, Release, teardownVars, vars
<1>. QED BY <1>1, <1>2, StaysHolds

\* The long strings of every program are values of Pascal that do not depend
\* on each other, however many variables share a buffer: each operation does
\* to the texts what the operation of that name does to values, and a PChar
\* designates a character of one string only.  (tp2cc_AnsiString.)
THEOREM StringsAreValuesCorrect == TeardownSpec => LongStringsAreValues
<1>1. TeardownInit => StringsInv /\ Values!Init
  BY StringsInit DEF TeardownInit
<1>2. StringsInv /\ [TeardownNext]_teardownVars => StringsInv'
  BY TeardownKeepsStrings DEF Preserved
<1>3. StringsInv => (vars' # vars => Simulates)
  BY StepSimulates
<1>. QED BY <1>1, <1>2, <1>3, PTL DEF TeardownSpec, LongStringsAreValues

----------------------------------------------------------------------------
(***************************************************************************)
(* What exit runs.  A unit that allocates before its finalization is       *)
(* registered has the release registered first, so that it runs last: no   *)
(* buffer is freed until the finalization has run.                         *)
(***************************************************************************)
RunsFirst == <<"fini", "release">>
TeardownInv ==
  /\ phase \in {"init", "body", "exiting", "fini"}
  /\ phase = "init" => /\ early = FALSE /\ freed = 0
                       /\ handlers = IF heap = <<>> THEN <<>> ELSE <<"release">>
  /\ early => /\ heap # <<>>
              /\ handlers \in {RunsFirst, <<"release">>, <<>>}
              /\ phase = "body" => handlers = RunsFirst
              /\ phase = "fini" => handlers = <<"release">>
              /\ handlers # <<>> => freed = 0

LEMMA PairFacts ==
  ASSUME NEW x, NEW y
  PROVE  Tail(<<x, y>>) = <<y>> /\ <<x>> \o <<y>> = <<x, y>>
<1>. PICK one : one = <<y>>
  OBVIOUS
<1>. PICK two : two = <<x, y>>
  OBVIOUS
<1>. PICK rest : rest = Tail(two)
  OBVIOUS
<1>. PICK joined : joined = <<x>> \o one
  OBVIOUS
<1>1. /\ one \in Seq({x, y}) /\ Len(one) = 1 /\ one[1] = y
      /\ two \in Seq({x, y}) /\ Len(two) = 2 /\ two[1] = x /\ two[2] = y
      /\ <<x>> \in Seq({x, y}) /\ Len(<<x>>) = 1
  OBVIOUS
<1>2. rest \in Seq({x, y}) /\ Len(rest) = 1 /\ rest[1] = two[2]
  BY <1>1
<1>3. joined \in Seq({x, y}) /\ Len(joined) = 2 /\ joined[1] = x /\ joined[2] = one[1]
  BY <1>1
<1>4. rest = one
  <2>1. \A k \in 1 .. Len(rest) : rest[k] = one[k]
    BY <1>1, <1>2
  <2>. QED BY <1>1, <1>2, <2>1, SeqEqual
<1>5. joined = two
  <2>1. \A k \in 1 .. Len(joined) : k = 1 \/ k = 2
    BY <1>3
  <2>2. joined[1] = two[1] /\ joined[2] = two[2]
    BY <1>1, <1>3
  <2>. QED BY <1>1, <1>3, <2>1, <2>2, SeqEqual
<1>. QED BY <1>4, <1>5

LEMMA HandlersFacts ==
  /\ RunsFirst # <<>> /\ Head(RunsFirst) = "fini" /\ Tail(RunsFirst) = <<"release">>
  /\ <<"release">> # <<>> /\ Head(<<"release">>) = "release" /\ Tail(<<"release">>) = <<>>
  /\ <<"release">> \o <<>> = <<"release">>
  /\ <<"fini">> \o <<"release">> = RunsFirst
<1>1. RunsFirst # <<>> /\ Head(RunsFirst) = "fini"
  BY DEF RunsFirst
<1>2. Tail(RunsFirst) = <<"release">> /\ <<"fini">> \o <<"release">> = RunsFirst
  BY PairFacts DEF RunsFirst
<1>3. /\ <<"release">> # <<>> /\ Head(<<"release">>) = "release" /\ Tail(<<"release">>) = <<>>
  OBVIOUS
<1>4. <<"release">> \o <<>> = <<"release">>
  <2>1. <<"release">> \in Seq({"release"})
    OBVIOUS
  <2>. QED BY <2>1, ConcatEmptySeq
<1>. QED BY <1>1, <1>2, <1>3, <1>4

LEMMA TeardownStep ==
  ASSUME StringsInv, TeardownInv, [TeardownNext]_teardownVars
  PROVE  TeardownInv'
<1>. USE HandlersFacts
<1>1. CASE Work
  <2>1. heap # <<>> => heap' # <<>>
    <3>1. Len(heap) <= Len(heap') /\ heap \in Heaps
      BY TeardownKeepsStrings DEF Preserved, StringsInv, Shape
    <3>. QED BY <3>1 DEF Heaps
  <2>2. /\ phase' = phase /\ freed' = freed /\ early' = early
        /\ handlers' = IF heap = <<>> /\ heap' # <<>> THEN <<"release">> \o handlers ELSE handlers
    BY <1>1 DEF Work, Registered
  <2>3. CASE phase = "init"
    <3>1. handlers' = IF heap' = <<>> THEN <<>> ELSE <<"release">>
      BY <2>1, <2>2, <2>3 DEF TeardownInv
    <3>. QED BY <2>2, <2>3, <3>1 DEF TeardownInv
  <2>4. CASE phase # "init"
    <3>1. early => handlers' = handlers
      BY <2>2 DEF TeardownInv
    <3>. QED BY <2>1, <2>2, <2>4, <3>1 DEF TeardownInv
  <2>. QED BY <2>3, <2>4
<1>2. CASE InitReturns
  <2>1. early' => handlers = <<"release">> /\ freed = 0
    BY <1>2 DEF InitReturns, TeardownInv
  <2>2. early' => handlers' = RunsFirst
    BY <1>2, <2>1 DEF InitReturns
  <2>. QED BY <1>2, <2>1, <2>2 DEF InitReturns, TeardownInv
<1>3. CASE Exit
  <2>1. early => phase = "body"
    BY <1>3 DEF Exit, TeardownInv
  <2>. QED BY <1>3, <2>1 DEF Exit, TeardownInv
<1>4. CASE StartFini
  <2>1. early => handlers = RunsFirst
    BY <1>4 DEF StartFini, TeardownInv
  <2>. QED BY <1>4, <2>1 DEF StartFini, TeardownInv
<1>5. CASE FiniReturns
  BY <1>5 DEF FiniReturns, TeardownInv
<1>6. CASE Release
  <2>1. early => handlers = <<"release">>
    BY <1>6 DEF Release, TeardownInv
  <2>. QED BY <1>6, <2>1 DEF Release, TeardownInv
<1>7. CASE UNCHANGED teardownVars
  BY <1>7 DEF teardownVars, TeardownInv
<1>. QED BY <1>1, <1>2, <1>3, <1>4, <1>5, <1>6, <1>7 DEF TeardownNext

LEMMA NothingFreedIsLive ==
  ASSUME StringsInv, TeardownInv
  PROVE  EarlyAllocatorsFindStrings
<1>1. \A v \in Vars : data[v] \in {Null, Empty} \/ data[v] > 0
  BY DEF StringsInv, Shape, Pointers, Heaps
<1>. QED BY <1>1, HandlersFacts DEF TeardownInv, EarlyAllocatorsFindStrings, FinalizationFindsStrings, Live

\* A finalization block finds the strings of its unit when a string was
\* allocated by the time that it was registered: atexit runs what was
\* registered last first.  (main of emit_units.cc,
\* tp2cc_ansistring_track_allocation.)
THEOREM EarlyAllocatorsCorrect == TeardownSpec => []EarlyAllocatorsFindStrings
<1>1. TeardownInit => StringsInv /\ TeardownInv
  BY StringsInit DEF TeardownInit, TeardownInv, Init
<1>2. StringsInv /\ [TeardownNext]_teardownVars => StringsInv'
  BY TeardownKeepsStrings DEF Preserved
<1>3. StringsInv /\ TeardownInv /\ [TeardownNext]_teardownVars => TeardownInv'
  BY TeardownStep
<1>4. StringsInv /\ TeardownInv => EarlyAllocatorsFindStrings
  BY NothingFreedIsLive
<1>. QED BY <1>1, <1>2, <1>3, <1>4, PTL DEF TeardownSpec

-----------------------------------------------------------------------------
(***************************************************************************)
(* Files.                                                                  *)
(***************************************************************************)
Cells == Records \cup {Hole}
Streams == [mode : {"closed", "read", "write", "append"}, pos : Nat, pending : Seq(Cells),
            ahead : Seq(Cells), failed : BOOLEAN]
Writing(s) == s.mode \in {"write", "append"}
Unsure == {Unknown, NoFile}

(***************************************************************************)
(* What a file with contents d will hold when the stream s drains into a   *)
(* disk that has room.                                                     *)
(***************************************************************************)
Promised(d, s) ==
  IF s.pending = <<>> THEN d ELSE PutAt(d, IF s.mode = "append" THEN Len(d) ELSE s.pos, s.pending)

(***************************************************************************)
(* A stream s on a file with contents d of which the program believes r.   *)
(***************************************************************************)
Agrees(s, d, r) ==
  /\ d \in Seq(Cells)
  /\ Writing(s) /\ r \notin Unsure => r = Promised(d, s)
  /\ s.mode = "read" => s.pending = <<>> /\ s.ahead \in {<<>>, SubSeq(d, s.pos + 1, Len(d))}

FilesTyped ==
  /\ disk \in [FileNames -> Seq(Cells) \cup {NoFile}]
  /\ relied \in [FileNames -> Seq(Cells) \cup Unsure]
  /\ name \in [FileVars -> FileNames \cup {NoName}]
  /\ stream \in [FileVars -> Streams]
OpenStreamsAgree ==
  \A v \in FileVars : IsOpen(v) =>
    name[v] \in FileNames /\ Agrees(stream[v], disk[name[v]], relied[name[v]])
WritersAreAlone ==
  \A v, w \in FileVars : Writes(v) /\ IsOpen(w) /\ name[v] = name[w] => v = w
FilesAreKnown == \A n \in FileNames : disk[n] # NoFile => relied[n] # NoFile
FilesInv ==
  /\ FilesTyped /\ OpenStreamsAgree /\ WritersAreAlone /\ FilesAreKnown
  /\ ClosedFilesAreComplete

----------------------------------------------------------------------------
(* Sequences of records.                                                   *)

LEMMA MarksAreNotContents == NoFile \notin Seq(Cells) /\ Unknown \notin Seq(Cells)
<1>1. NoFile[1] = "no_file" /\ Unknown[1] = "unknown" /\ Len(NoFile) = 1 /\ Len(Unknown) = 1
  BY DEF NoFile, Unknown
<1>2. "no_file" \notin Cells /\ "unknown" \notin Cells
  BY FilesAssumption DEF Cells
<1>3. \A s \in Seq(Cells) : Len(s) = 1 => s[1] \in Cells
  OBVIOUS
<1>. QED BY <1>1, <1>2, <1>3

LEMMA MarksDiffer == Unknown # NoFile
<1>1. Unknown[1] = "unknown" /\ NoFile[1] = "no_file"
  BY DEF Unknown, NoFile
<1>. QED BY <1>1

LEMMA PutAtIsContents ==
  ASSUME NEW s \in Seq(Cells), NEW p \in Nat, NEW r \in Seq(Cells)
  PROVE  /\ PutAt(s, p, r) \in Seq(Cells)
         /\ Len(PutAt(s, p, r)) = IF p + Len(r) > Len(s) THEN p + Len(r) ELSE Len(s)
         /\ \A k \in 1 .. Len(PutAt(s, p, r)) :
              PutAt(s, p, r)[k] = IF k > p /\ k <= p + Len(r) THEN r[k - p]
                                  ELSE IF k <= Len(s) THEN s[k] ELSE Hole
<1>. DEFINE n == IF p + Len(r) > Len(s) THEN p + Len(r) ELSE Len(s)
            f(k) == IF k > p /\ k <= p + Len(r) THEN r[k - p]
                    ELSE IF k <= Len(s) THEN s[k] ELSE Hole
<1>1. n \in Nat
  OBVIOUS
<1>2. ASSUME NEW k \in 1 .. n PROVE f(k) \in Cells
  BY DEF Cells
<1>3. PutAt(s, p, r) = [k \in 1 .. n |-> f(k)]
  BY DEF PutAt
<1>. HIDE DEF n, f
<1>4. PutAt(s, p, r) \in [1 .. n -> Cells]
  BY <1>2, <1>3
<1>5. PutAt(s, p, r) \in Seq(Cells) /\ Len(PutAt(s, p, r)) = n
  BY <1>1, <1>4
<1>6. \A k \in 1 .. n : PutAt(s, p, r)[k] = f(k)
  BY <1>3
<1>. QED BY <1>5, <1>6 DEF n, f

\* Writing a record behind others is writing them all at once.
LEMMA PutAtBehind ==
  ASSUME NEW s \in Seq(Cells), NEW p \in Nat, NEW r \in Seq(Cells), NEW x \in Cells
  PROVE  PutAt(PutAt(s, p, r), p + Len(r), <<x>>) = PutAt(s, p, Append(r, x))
<1>. DEFINE a == PutAt(s, p, r)
            b == PutAt(a, p + Len(r), <<x>>)
            c == PutAt(s, p, Append(r, x))
<1>1. /\ <<x>> \in Seq(Cells) /\ Len(<<x>>) = 1 /\ <<x>>[1] = x
      /\ Append(r, x) \in Seq(Cells) /\ Len(Append(r, x)) = Len(r) + 1
      /\ \A k \in 1 .. Len(r) : Append(r, x)[k] = r[k]
      /\ Append(r, x)[Len(r) + 1] = x
  OBVIOUS
<1>2. /\ a \in Seq(Cells)
      /\ Len(a) = IF p + Len(r) > Len(s) THEN p + Len(r) ELSE Len(s)
      /\ \A k \in 1 .. Len(a) : a[k] = IF k > p /\ k <= p + Len(r) THEN r[k - p]
                                      ELSE IF k <= Len(s) THEN s[k] ELSE Hole
  BY PutAtIsContents
<1>3. PICK q \in Nat : q = p + Len(r)
  OBVIOUS
<1>4. PICK t : t = <<x>>
  OBVIOUS
<1>5. PICK u : u = Append(r, x)
  OBVIOUS
<1>. HIDE DEF a
<1>6. /\ b \in Seq(Cells)
      /\ Len(b) = IF q + 1 > Len(a) THEN q + 1 ELSE Len(a)
      /\ \A k \in 1 .. Len(b) : b[k] = IF k > q /\ k <= q + 1 THEN t[k - q]
                                      ELSE IF k <= Len(a) THEN a[k] ELSE Hole
  <2>1. b = PutAt(a, q, t) /\ t \in Seq(Cells) /\ Len(t) = 1
    BY <1>1, <1>3, <1>4
  <2>2. /\ PutAt(a, q, t) \in Seq(Cells)
        /\ Len(PutAt(a, q, t)) = IF q + Len(t) > Len(a) THEN q + Len(t) ELSE Len(a)
        /\ \A k \in 1 .. Len(PutAt(a, q, t)) :
              PutAt(a, q, t)[k] = IF k > q /\ k <= q + Len(t) THEN t[k - q]
                                  ELSE IF k <= Len(a) THEN a[k] ELSE Hole
    BY <1>2, <2>1, PutAtIsContents
  <2>. QED BY ONLY <2>1, <2>2
<1>7. /\ c \in Seq(Cells)
      /\ Len(c) = IF q + 1 > Len(s) THEN q + 1 ELSE Len(s)
      /\ \A k \in 1 .. Len(c) : c[k] = IF k > p /\ k <= q + 1 THEN u[k - p]
                                      ELSE IF k <= Len(s) THEN s[k] ELSE Hole
  <2>1. c = PutAt(s, p, u) /\ u \in Seq(Cells) /\ p + Len(u) = q + 1
    BY <1>1, <1>3, <1>5
  <2>2. /\ PutAt(s, p, u) \in Seq(Cells)
        /\ Len(PutAt(s, p, u)) = IF p + Len(u) > Len(s) THEN p + Len(u) ELSE Len(s)
        /\ \A k \in 1 .. Len(PutAt(s, p, u)) :
              PutAt(s, p, u)[k] = IF k > p /\ k <= p + Len(u) THEN u[k - p]
                                  ELSE IF k <= Len(s) THEN s[k] ELSE Hole
    BY <2>1, PutAtIsContents
  <2>. QED BY ONLY <2>1, <2>2
<1>. HIDE DEF b, c
<1>8. Len(b) = Len(c)
  <2>1. Len(s) \in Nat /\ Len(r) \in Nat
    OBVIOUS
  <2>2. Len(a) = IF q > Len(s) THEN q ELSE Len(s)
    BY <1>2, <1>3
  <2>3. PICK i, j, l : i = Len(a) /\ j = Len(s) /\ l = Len(b)
    OBVIOUS
  <2>4. l = IF q + 1 > i THEN q + 1 ELSE i
    BY <1>6, <2>3
  <2>5. Len(c) = IF q + 1 > j THEN q + 1 ELSE j
    BY <1>7, <2>3
  <2>. QED BY ONLY <2>1, <2>2, <2>3, <2>4, <2>5, q \in Nat
<1>9. ASSUME NEW k \in 1 .. Len(b) PROVE b[k] = c[k]
  <2>1. CASE k = q + 1
    <3>1. k > q /\ k <= q + 1 /\ k > p /\ k - q = 1 /\ k - p = Len(r) + 1
      BY <1>3, <2>1
    <3>2. b[k] = t[k - q]
      BY <1>6, <3>1
    <3>3. c[k] = u[k - p]
      BY <1>7, <1>8, <3>1
    <3>. QED BY <1>1, <1>4, <1>5, <3>1, <3>2, <3>3
  <2>2. CASE k > p /\ k <= q
    <3>1. k - p \in 1 .. Len(r) /\ k \in 1 .. Len(a) /\ ~(k > q) /\ k <= Len(a) /\ k <= p + Len(r)
      BY <1>2, <1>3, <2>2
    <3>2. b[k] = a[k]
      BY <1>6, <3>1
    <3>3. a[k] = r[k - p]
      BY <1>2, <2>2, <3>1
    <3>4. c[k] = u[k - p]
      BY <1>7, <1>8, <2>2
    <3>. QED BY <1>1, <1>5, <3>1, <3>2, <3>3, <3>4
  <2>3. CASE k <= p /\ k <= Len(a)
    <3>1. k \in 1 .. Len(a) /\ ~(k > p) /\ ~(k > q)
      BY <1>3, <2>3
    <3>2. b[k] = a[k]
      BY <1>6, <3>1
    <3>3. a[k] = IF k <= Len(s) THEN s[k] ELSE Hole
      BY <1>2, <3>1
    <3>4. c[k] = IF k <= Len(s) THEN s[k] ELSE Hole
      BY <1>7, <1>8, <3>1
    <3>. QED BY <3>2, <3>3, <3>4
  <2>4. CASE k > q + 1
    <3>1. k <= Len(a) /\ k \in 1 .. Len(a) /\ k <= Len(s)
      BY <1>2, <1>3, <1>6, <2>4
    <3>2. ~(k > p /\ k <= q) /\ ~(k > q /\ k <= q + 1) /\ ~(k > p /\ k <= q + 1)
      BY <1>3, <2>4
    <3>3. b[k] = a[k] /\ c[k] = s[k]
      BY <1>6, <1>7, <1>8, <3>1, <3>2
    <3>4. a[k] = s[k]
      BY <1>2, <1>3, <3>1, <3>2
    <3>. QED BY <3>3, <3>4
  <2>5. k <= p => k <= Len(a) \/ k > Len(a)
    BY <1>2
  <2>6. CASE k <= p /\ k > Len(a)
    BY <1>2, <1>3, <1>6, <2>6
  <2>. QED BY <1>3, <1>2, <2>1, <2>2, <2>3, <2>4, <2>6
<1>10. b = c
  BY <1>6, <1>7, <1>8, <1>9, SeqEqual
<1>. QED BY <1>3, <1>10 DEF a, b, c

----------------------------------------------------------------------------
(* Steps.                                                                  *)

\* A step that changes only the stream of v, and the file of v and what the
\* program believes of it.
LEMMA OneStream ==
  ASSUME FilesInv, NEW v \in FileVars, NEW s \in Streams, name' = name,
         stream' \in [FileVars -> Streams], stream'[v] = s,
         \A w \in FileVars \ {v} : stream'[w] = stream[w],
         disk' \in [FileNames -> Seq(Cells) \cup {NoFile}],
         relied' \in [FileNames -> Seq(Cells) \cup Unsure],
         \A n \in FileNames \ {name[v]} : disk'[n] = disk[n] /\ relied'[n] = relied[n],
         s.mode # "closed" => name[v] \in FileNames /\ Agrees(s, disk'[name[v]], relied'[name[v]]),
         name[v] \in FileNames /\ disk'[name[v]] # NoFile => relied'[name[v]] # NoFile,
         \A w \in FileVars \ {v} : IsOpen(w) /\ name[w] = name[v] =>
            /\ ~Writing(s) /\ disk'[name[v]] = disk[name[v]]
            /\ Writes(w) => s.mode = "closed" /\ relied'[name[v]] \in {relied[name[v]], Unknown},
         name[v] \in FileNames /\ ~Writing(s) /\ relied'[name[v]] \notin Unsure
            /\ (\A w \in FileVars \ {v} : Writes(w) => name[w] # name[v])
           => disk'[name[v]] = relied'[name[v]]
  PROVE  FilesInv'
<1>1. FilesTyped'
  BY DEF FilesInv, FilesTyped
<1>2. \A w \in FileVars : name'[w] = name[w] /\ (w # v => (IsOpen(w)' <=> IsOpen(w)) /\ (Writes(w)' <=> Writes(w)))
  BY DEF IsOpen, Writes
<1>3. (IsOpen(v)' <=> s.mode # "closed") /\ (Writes(v)' <=> Writing(s))
  BY DEF IsOpen, Writes, Writing
<1>4. OpenStreamsAgree'
  <2>1. SUFFICES ASSUME NEW w \in FileVars, IsOpen(w)'
                 PROVE  name[w] \in FileNames /\ Agrees(stream'[w], disk'[name[w]], relied'[name[w]])
    BY DEF OpenStreamsAgree
  <2>2. CASE w = v
    BY <1>3, <2>1, <2>2
  <2>3. CASE w # v
    <3>1. IsOpen(w) /\ stream'[w] = stream[w]
      BY <1>2, <2>1, <2>3
    <3>2. name[w] \in FileNames /\ Agrees(stream[w], disk[name[w]], relied[name[w]])
      BY <3>1 DEF FilesInv, OpenStreamsAgree
    <3>3. CASE name[w] # name[v]
      BY <3>1, <3>2, <3>3
    <3>4. CASE name[w] = name[v]
      <4>1. disk'[name[w]] = disk[name[w]]
        BY <2>3, <3>1, <3>4
      <4>2. Writing(stream[w]) => relied'[name[w]] \in {relied[name[w]], Unknown}
        BY <2>3, <3>1, <3>4 DEF Writing, Writes
      <4>. QED BY <3>1, <3>2, <4>1, <4>2 DEF Agrees, Unsure
    <3>. QED BY <3>3, <3>4
  <2>. QED BY <2>2, <2>3
<1>5. WritersAreAlone'
  <2>1. SUFFICES ASSUME NEW w \in FileVars, NEW u \in FileVars,
                        Writes(w)', IsOpen(u)', name[w] = name[u], w # u
                 PROVE  FALSE
    BY DEF WritersAreAlone
  <2>2. CASE w = v
    BY <1>2, <1>3, <2>1, <2>2
  <2>3. CASE u = v
    <3>1. Writes(w) /\ IsOpen(w)
      BY <1>2, <2>1, <2>3 DEF Writes, IsOpen
    <3>. QED BY <1>3, <2>1, <2>3, <3>1
  <2>4. CASE w # v /\ u # v
    BY <1>2, <2>1, <2>4 DEF FilesInv, WritersAreAlone
  <2>. QED BY <2>2, <2>3, <2>4
<1>6. FilesAreKnown'
  BY DEF FilesInv, FilesAreKnown
<1>7. ClosedFilesAreComplete'
  <2>1. SUFFICES ASSUME NEW n \in FileNames, relied'[n] \notin {Unknown, NoFile},
                        \A w \in FileVars : Writes(w)' => name[w] # n
                 PROVE  disk'[n] = relied'[n]
    BY DEF ClosedFilesAreComplete, Known
  <2>2. \A w \in FileVars \ {v} : Writes(w) => name[w] # n
    BY <1>2, <2>1
  <2>3. CASE n = name[v]
    BY <1>3, <2>1, <2>2, <2>3 DEF Unsure
  <2>4. CASE n # name[v]
    <3>1. \A w \in FileVars : Writes(w) => name[w] # n
      BY <2>2, <2>4
    <3>2. disk'[n] = disk[n] /\ relied'[n] = relied[n]
      BY <2>4
    <3>. QED BY <2>1, <3>1, <3>2 DEF FilesInv, ClosedFilesAreComplete, Known
  <2>. QED BY <2>3, <2>4
<1>. QED BY <1>1, <1>4, <1>5, <1>6, <1>7 DEF FilesInv

LEMMA ReadersHaveTheRest == FilesInv => ReadersSeeTheRest
<1>1. SUFFICES ASSUME FilesInv, NEW v \in FileVars, stream[v].mode = "read", Known(name[v])
               PROVE  Ahead(v) = SubSeq(relied[name[v]], stream[v].pos + 1, Len(relied[name[v]]))
  BY DEF ReadersSeeTheRest
<1>2. IsOpen(v) /\ ~Writes(v)
  BY <1>1 DEF IsOpen, Writes
<1>3. name[v] \in FileNames /\ Agrees(stream[v], disk[name[v]], relied[name[v]])
  BY <1>1, <1>2 DEF FilesInv, OpenStreamsAgree
<1>4. \A w \in FileVars : Writes(w) => name[w] # name[v]
  BY <1>1, <1>2 DEF FilesInv, WritersAreAlone
<1>5. disk[name[v]] = relied[name[v]]
  BY <1>1, <1>3, <1>4 DEF FilesInv, ClosedFilesAreComplete
<1>6. disk[name[v]] # NoFile /\ Size(name[v]) = Len(disk[name[v]])
  BY <1>3, MarksAreNotContents DEF Size, Agrees
<1>. QED BY <1>1, <1>3, <1>5, <1>6 DEF Ahead, Agrees

\* Draining a stream that writes keeps what the program relies on, unless
\* the disk is full.
LEMMA DrainingKeeps ==
  ASSUME FilesInv, NEW v \in FileVars, Writes(v)
  PROVE  /\ name[v] \in FileNames /\ disk[name[v]] \in Seq(Cells)
         /\ Start(v) \in Nat /\ Position(v) \in Nat
         /\ Start(v) = IF stream[v].mode = "append" THEN Len(disk[name[v]]) ELSE stream[v].pos
         /\ DiskAfter(v) \in [FileNames -> Seq(Cells) \cup {NoFile}]
         /\ DiskAfter(v)[name[v]] \in Seq(Cells)
         /\ \A n \in FileNames \ {name[v]} : DiskAfter(v)[n] = disk[n]
         /\ stream[v].pending = <<>> \/ Fits(v) =>
              DiskAfter(v)[name[v]] = Promised(disk[name[v]], stream[v])
         /\ StreamAfter(v) \in Streams /\ StreamAfter(v).mode = stream[v].mode
         /\ StreamAfter(v).pending = <<>>
<1>1. PICK n, d, s : n = name[v] /\ d = disk[n] /\ s = stream[v]
  OBVIOUS
<1>2. s \in Streams /\ IsOpen(v) /\ s.pending \in Seq(Cells) /\ s.pos \in Nat
  BY <1>1 DEF FilesInv, FilesTyped, Streams, IsOpen, Writes
<1>3. n \in FileNames /\ d \in Seq(Cells) /\ d # NoFile
  BY <1>1, <1>2, MarksAreNotContents DEF FilesInv, OpenStreamsAgree, Agrees
<1>4. Size(n) = Len(d) /\ Len(d) \in Nat
  BY <1>1, <1>3 DEF Size
<1>5. Start(v) = (IF s.mode = "append" THEN Len(d) ELSE s.pos) /\ Start(v) \in Nat
  BY <1>1, <1>2, <1>4 DEF Start
<1>6. Position(v) = Start(v) + Len(s.pending) /\ Position(v) \in Nat
  BY <1>1, <1>2, <1>5 DEF Position
<1>7. Drained(v) = PutAt(d, Start(v), s.pending)
  BY <1>1 DEF Drained
<1>8. Drained(v) \in Seq(Cells) /\ Len(Drained(v)) >= Len(d)
  BY <1>2, <1>3, <1>5, <1>7, PutAtIsContents
<1>9. Left(v) \in Seq(Cells)
  <2>1. SubSeq(Drained(v), 1, Len(d)) \in Seq(Cells)
    BY <1>4, <1>8
  <2>. QED BY <1>1, <1>4, <1>8, <2>1 DEF Left
<1>10. DiskAfter(v) = IF s.pending = <<>> THEN disk ELSE [disk EXCEPT ![n] = Left(v)]
  BY <1>1 DEF DiskAfter
<1>11. disk \in [FileNames -> Seq(Cells) \cup {NoFile}]
  BY DEF FilesInv, FilesTyped
<1>12. /\ DiskAfter(v) \in [FileNames -> Seq(Cells) \cup {NoFile}]
       /\ DiskAfter(v)[n] \in Seq(Cells)
       /\ \A m \in FileNames \ {n} : DiskAfter(v)[m] = disk[m]
       /\ DiskAfter(v)[n] = IF s.pending = <<>> THEN d ELSE Left(v)
  BY <1>1, <1>3, <1>9, <1>10, <1>11
<1>13. s.pending = <<>> \/ Fits(v) => DiskAfter(v)[n] = Promised(d, s)
  BY <1>5, <1>7, <1>12 DEF Left, Promised
<1>14. /\ StreamAfter(v) \in Streams /\ StreamAfter(v).mode = s.mode
       /\ StreamAfter(v).pending = <<>>
  <2>1. StreamAfter(v) = IF s.pending = <<>> THEN s ELSE
             [s EXCEPT !.pending = <<>>, !.pos = Position(v), !.failed = s.failed \/ ~Fits(v)]
    BY <1>1 DEF StreamAfter
  <2>2. <<>> \in Seq(Cells)
    OBVIOUS
  <2>3. PICK f \in BOOLEAN : f = (s.failed \/ ~Fits(v))
    OBVIOUS
  <2>. QED BY <1>2, <1>6, <2>1, <2>2, <2>3 DEF Streams
<1>. QED BY <1>1, <1>3, <1>5, <1>6, <1>12, <1>13, <1>14

\* Closing drains, and what it cannot write is no longer relied on.
LEMMA ClosingKeeps ==
  ASSUME FilesInv, NEW v \in FileVars
  PROVE  /\ DiskAfterClose(v) \in [FileNames -> Seq(Cells) \cup {NoFile}]
         /\ Unreported(v, relied) \in [FileNames -> Seq(Cells) \cup Unsure]
         /\ \A n \in FileNames \ {name[v]} :
              DiskAfterClose(v)[n] = disk[n] /\ Unreported(v, relied)[n] = relied[n]
         /\ ~Writes(v) => DiskAfterClose(v) = disk /\ Unreported(v, relied) = relied
         /\ name[v] \in FileNames /\ DiskAfterClose(v)[name[v]] # NoFile
              => Unreported(v, relied)[name[v]] # NoFile
         /\ name[v] \in FileNames /\ Unreported(v, relied)[name[v]] \notin Unsure
            /\ (\A w \in FileVars \ {v} : Writes(w) => name[w] # name[v])
              => DiskAfterClose(v)[name[v]] = Unreported(v, relied)[name[v]]
<1>1. PICK n, b : n = name[v] /\ b = Unreported(v, relied)
  OBVIOUS
<1>2. /\ disk \in [FileNames -> Seq(Cells) \cup {NoFile}]
      /\ relied \in [FileNames -> Seq(Cells) \cup Unsure]
      /\ Unknown \in Unsure
  BY DEF FilesInv, FilesTyped, Unsure
<1>3. CASE ~Writes(v)
  <2>1. DiskAfterClose(v) = disk /\ b = relied
    BY <1>1, <1>3 DEF DiskAfterClose, Unreported
  <2>2. ASSUME n \in FileNames, disk[n] # NoFile PROVE relied[n] # NoFile
    BY <2>2 DEF FilesInv, FilesAreKnown
  <2>3. ASSUME n \in FileNames, relied[n] \notin Unsure,
               \A w \in FileVars \ {v} : Writes(w) => name[w] # n
        PROVE  disk[n] = relied[n]
    BY <1>1, <1>3, <2>3 DEF FilesInv, ClosedFilesAreComplete, Known, Unsure
  <2>. QED BY <1>1, <1>2, <2>1, <2>2, <2>3
<1>4. CASE Writes(v)
  <2>1. DiskAfterClose(v) = DiskAfter(v)
    BY <1>4 DEF DiskAfterClose
  <2>2. b = IF stream[v].pending # <<>> /\ ~Fits(v) THEN [relied EXCEPT ![n] = Unknown] ELSE relied
    BY <1>1, <1>4 DEF Unreported
  <2>3. /\ n \in FileNames
        /\ DiskAfter(v) \in [FileNames -> Seq(Cells) \cup {NoFile}]
        /\ \A m \in FileNames \ {n} : DiskAfter(v)[m] = disk[m]
        /\ stream[v].pending = <<>> \/ Fits(v) => DiskAfter(v)[n] = Promised(disk[n], stream[v])
    BY <1>1, <1>4, DrainingKeeps
  <2>4. /\ b \in [FileNames -> Seq(Cells) \cup Unsure]
        /\ \A m \in FileNames \ {n} : b[m] = relied[m]
        /\ b[n] = IF stream[v].pending # <<>> /\ ~Fits(v) THEN Unknown ELSE relied[n]
    BY <1>2, <2>2, <2>3
  <2>5. /\ relied[n] \notin Unsure => relied[n] = Promised(disk[n], stream[v])
        /\ relied[n] # NoFile
    <3>1. IsOpen(v) /\ Writing(stream[v])
      BY <1>4 DEF IsOpen, Writes, Writing
    <3>2. Agrees(stream[v], disk[n], relied[n])
      BY <1>1, <3>1 DEF FilesInv, OpenStreamsAgree
    <3>. QED BY <2>3, <3>1, <3>2, MarksAreNotContents DEF Agrees, FilesInv, FilesAreKnown
  <2>6. Unknown # NoFile
    BY MarksDiffer
  <2>7. b[n] # NoFile
    BY <2>4, <2>5, <2>6
  <2>8. b[n] \notin Unsure => DiskAfter(v)[n] = b[n]
    BY <1>2, <2>3, <2>4, <2>5
  <2>. QED BY <1>1, <1>4, <2>1, <2>3, <2>4, <2>7, <2>8
<1>. QED BY <1>3, <1>4

\* A call that moves or marks a stream, or finds it closed, and leaves the
\* disk alone.
LEMMA StreamMoves ==
  ASSUME FilesInv, NEW v \in FileVars, NEW s \in Streams, name' = name, disk' = disk,
         stream' \in [FileVars -> Streams], stream'[v] = s,
         \A w \in FileVars \ {v} : stream'[w] = stream[w],
         relied' \in [FileNames -> Seq(Cells) \cup Unsure],
         \A n \in FileNames \ {name[v]} : relied'[n] = relied[n],
         name[v] \in FileNames => relied'[name[v]] \in {relied[name[v]], Unknown},
         s.mode = stream[v].mode, s.pending = stream[v].pending,
         Writing(s) => s.pos = stream[v].pos,
         s.mode = "read" => s.ahead \in {<<>>, SubSeq(disk[name[v]], s.pos + 1, Len(disk[name[v]]))}
  PROVE  FilesInv'
<1>1. PICK n : n = name[v]
  OBVIOUS
<1>2. disk \in [FileNames -> Seq(Cells) \cup {NoFile}]
  BY DEF FilesInv, FilesTyped
<1>3. (IsOpen(v) <=> s.mode # "closed") /\ (Writes(v) <=> Writing(s))
  BY DEF IsOpen, Writes, Writing
<1>4. ASSUME s.mode # "closed"
      PROVE  n \in FileNames /\ Agrees(s, disk'[n], relied'[n])
  <2>1. n \in FileNames /\ Agrees(stream[v], disk[n], relied[n])
    BY <1>1, <1>3, <1>4 DEF FilesInv, OpenStreamsAgree
  <2>2. Promised(disk[n], s) = Promised(disk[n], stream[v]) \/ ~Writing(s)
    BY DEF Promised
  <2>3. Unknown \in Unsure
    BY DEF Unsure
  <2>. QED BY <1>1, <2>1, <2>2, <2>3 DEF Agrees, Writing
<1>5. Unknown # NoFile
  BY MarksDiffer
<1>6. ASSUME n \in FileNames, disk'[n] # NoFile
      PROVE  relied'[n] # NoFile
  BY <1>1, <1>5, <1>6 DEF FilesInv, FilesAreKnown
<1>7. ASSUME NEW w \in FileVars \ {v}, IsOpen(w), name[w] = n
      PROVE  /\ ~Writing(s) /\ disk'[n] = disk[n]
             /\ Writes(w) => s.mode = "closed" /\ relied'[n] \in {relied[n], Unknown}
  <2>1. ~Writing(s) /\ (Writes(w) => ~IsOpen(v))
    BY <1>1, <1>3, <1>7 DEF FilesInv, WritersAreAlone
  <2>2. n \in FileNames
    BY <1>7 DEF FilesInv, OpenStreamsAgree
  <2>. QED BY <1>1, <1>3, <2>1, <2>2
<1>8. ASSUME n \in FileNames, ~Writing(s), relied'[n] \notin Unsure,
             \A w \in FileVars \ {v} : Writes(w) => name[w] # n
      PROVE  disk'[n] = relied'[n]
  <2>1. relied'[n] = relied[n] /\ Known(n)
    BY <1>1, <1>8 DEF Unsure, Known
  <2>2. \A w \in FileVars : Writes(w) => name[w] # n
    BY <1>3, <1>8
  <2>. QED BY <1>8, <2>1, <2>2 DEF FilesInv, ClosedFilesAreComplete
<1>. QED BY <1>1, <1>2, <1>4, <1>6, <1>7, <1>8, OneStream

\* A call on a stream that writes.
LEMMA WriterMoves ==
  ASSUME FilesInv, NEW v \in FileVars, NEW s \in Streams, Writes(v), Writing(s), name' = name,
         stream' \in [FileVars -> Streams], stream'[v] = s,
         \A w \in FileVars \ {v} : stream'[w] = stream[w],
         disk' \in [FileNames -> Seq(Cells) \cup {NoFile}],
         relied' \in [FileNames -> Seq(Cells) \cup Unsure],
         \A n \in FileNames \ {name[v]} : disk'[n] = disk[n] /\ relied'[n] = relied[n],
         disk'[name[v]] \in Seq(Cells), relied'[name[v]] # NoFile,
         relied'[name[v]] \notin Unsure => relied'[name[v]] = Promised(disk'[name[v]], s)
  PROVE  FilesInv'
<1>1. PICK n : n = name[v]
  OBVIOUS
<1>2. IsOpen(v)
  BY DEF IsOpen, Writes
<1>3. n \in FileNames
  BY <1>1, <1>2 DEF FilesInv, OpenStreamsAgree
<1>4. s.mode # "closed" /\ s.mode # "read"
  BY DEF Writing
<1>5. Agrees(s, disk'[n], relied'[n])
  BY <1>1, <1>4 DEF Agrees
<1>6. ASSUME NEW w \in FileVars \ {v}, IsOpen(w), name[w] = n PROVE FALSE
  BY <1>1, <1>6 DEF FilesInv, WritersAreAlone
<1>. QED BY <1>1, <1>3, <1>5, <1>6, OneStream

----------------------------------------------------------------------------
(* The calls.                                                              *)

LEMMA StreamsToOpen ==
  /\ Closed \in Streams /\ Closed.mode = "closed"
  /\ \A mode \in {"read", "write", "append"} :
       LET s == Opened(mode, 0)
       IN s \in Streams /\ s.mode = mode /\ s.pending = <<>> /\ s.ahead = <<>>
<1>1. <<>> \in Seq(Cells)
  OBVIOUS
<1>. QED BY <1>1 DEF Closed, Opened, Streams

LEMMA Assigning == ASSUME FilesInv, NEW v \in FileVars, NEW n \in FileNames, Assign(v, n) PROVE FilesInv'
<1>1. /\ stream' \in [FileVars -> Streams] /\ name' \in [FileVars -> FileNames \cup {NoName}]
      /\ \A w \in FileVars : w # v => stream'[w] = stream[w] /\ name'[w] = name[w]
      /\ stream'[v].mode = "closed" /\ stream[v].mode = "closed"
      /\ disk' = disk /\ relied' = relied
  BY StreamsToOpen DEF Assign, IsOpen, FilesInv, FilesTyped
<1>2. \A w \in FileVars : /\ IsOpen(w)' <=> IsOpen(w)
                          /\ Writes(w)' <=> Writes(w)
                          /\ IsOpen(w) \/ Writes(w) => w # v
  BY <1>1 DEF IsOpen, Writes
<1>3. FilesTyped' /\ FilesAreKnown'
  BY <1>1 DEF FilesInv, FilesTyped, FilesAreKnown
<1>4. OpenStreamsAgree'
  BY <1>1, <1>2 DEF FilesInv, OpenStreamsAgree
<1>5. WritersAreAlone'
  <2>1. SUFFICES ASSUME NEW w \in FileVars, NEW u \in FileVars,
                        Writes(w)', IsOpen(u)', name'[w] = name'[u]
                 PROVE  w = u
    BY DEF WritersAreAlone
  <2>2. Writes(w) /\ IsOpen(u) /\ w # v /\ u # v
    BY <1>2, <2>1
  <2>. QED BY <1>1, <2>1, <2>2 DEF FilesInv, WritersAreAlone
<1>6. ClosedFilesAreComplete'
  <2>1. \A w \in FileVars : Writes(w)' => Writes(w) /\ name'[w] = name[w]
    BY <1>1, <1>2
  <2>2. \A w \in FileVars : Writes(w) => Writes(w)' /\ name'[w] = name[w]
    BY <1>1, <1>2
  <2>3. SUFFICES ASSUME NEW m \in FileNames, Known(m)', \A w \in FileVars : Writes(w)' => name'[w] # m
                 PROVE  disk'[m] = relied'[m]
    BY DEF ClosedFilesAreComplete
  <2>4. Known(m) /\ \A w \in FileVars : Writes(w) => name[w] # m
    BY <1>1, <2>2, <2>3 DEF Known
  <2>. QED BY <1>1, <2>4 DEF FilesInv, ClosedFilesAreComplete
<1>. QED BY <1>3, <1>4, <1>5, <1>6 DEF FilesInv

LEMMA Closing ==
  ASSUME FilesInv, NEW v \in FileVars, disk' = DiskAfterClose(v), relied' = Unreported(v, relied),
         stream' = [stream EXCEPT ![v] = Closed], name' = name
  PROVE  FilesInv'
<1>1. PICK n, s : n = name[v] /\ s = Closed
  OBVIOUS
<1>2. s \in Streams /\ s.mode = "closed"
  BY <1>1, StreamsToOpen
<1>3. /\ stream' \in [FileVars -> Streams] /\ stream'[v] = s
      /\ \A w \in FileVars \ {v} : stream'[w] = stream[w]
  BY <1>1, <1>2 DEF FilesInv, FilesTyped
<1>4. ~Writing(s)
  BY <1>2 DEF Writing
<1>5. ASSUME NEW w \in FileVars \ {v}, IsOpen(w), name[w] = n
      PROVE  disk'[n] = disk[n] /\ (Writes(w) => relied'[n] \in {relied[n], Unknown})
  BY <1>1, <1>5, ClosingKeeps DEF FilesInv, WritersAreAlone
<1>. QED BY <1>1, <1>2, <1>3, <1>4, <1>5, ClosingKeeps, OneStream

LEMMA Resetting == ASSUME FilesInv, NEW v \in FileVars, Reset(v) PROVE FilesInv'
<1>1. PICK n, d : n = name[v] /\ d = DiskAfterClose(v)
  OBVIOUS
<1>2. PICK s : s = IF n # NoName /\ d[n] # NoFile THEN Opened("read", 0) ELSE Closed
  OBVIOUS
<1>3. /\ stream' = [stream EXCEPT ![v] = s] /\ disk' = d
      /\ relied' = Unreported(v, relied) /\ name' = name
      /\ MayOpen(v, FALSE)
  BY <1>1, <1>2 DEF Reset
<1>4. CASE s = Closed
  BY <1>1, <1>3, <1>4, Closing
<1>5. CASE n # NoName /\ d[n] # NoFile
  <2>1. s \in Streams /\ s.mode = "read" /\ s.pending = <<>> /\ s.ahead = <<>>
    BY <1>2, <1>5, StreamsToOpen
  <2>2. /\ stream' \in [FileVars -> Streams] /\ stream'[v] = s
        /\ \A w \in FileVars \ {v} : stream'[w] = stream[w]
    BY <1>3, <2>1 DEF FilesInv, FilesTyped
  <2>3. n \in FileNames
    BY <1>1, <1>5 DEF FilesInv, FilesTyped
  <2>4. ~Writing(s)
    BY <2>1 DEF Writing
  <2>5. Agrees(s, d[n], relied'[n])
    BY <1>1, <1>5, <2>1, <2>3, <2>4, ClosingKeeps DEF Agrees
  <2>6. ASSUME NEW w \in FileVars \ {v}, IsOpen(w), name[w] = n
        PROVE  ~Writes(w) /\ d[n] = disk[n]
    BY <1>1, <1>3, <2>6, ClosingKeeps DEF MayOpen, FilesInv, WritersAreAlone
  <2>. QED BY <1>1, <1>3, <2>1, <2>2, <2>3, <2>4, <2>5, <2>6, ClosingKeeps, OneStream
<1>. QED BY <1>2, <1>4, <1>5

\* Opening a file for writing.
LEMMA OpeningToWrite ==
  ASSUME FilesInv, NEW v \in FileVars, NEW mode \in {"write", "append"}, MayOpen(v, TRUE), Creates(v),
         stream' = [stream EXCEPT ![v] = Opened(mode, 0)], name' = name,
         disk' \in [FileNames -> Seq(Cells) \cup {NoFile}],
         relied' \in [FileNames -> Seq(Cells) \cup Unsure],
         \A n \in FileNames \ {name[v]} : disk'[n] = disk[n] /\ relied'[n] = relied[n],
         disk'[name[v]] \in Seq(Cells), relied'[name[v]] # NoFile,
         relied'[name[v]] \notin Unsure => relied'[name[v]] = disk'[name[v]]
  PROVE  FilesInv'
<1>1. PICK n, s : n = name[v] /\ s = Opened(mode, 0)
  OBVIOUS
<1>2. s \in Streams /\ s.mode = mode /\ s.pending = <<>> /\ Writing(s) /\ s.mode # "read"
  BY <1>1, StreamsToOpen DEF Writing
<1>3. /\ stream' \in [FileVars -> Streams] /\ stream'[v] = s
      /\ \A w \in FileVars \ {v} : stream'[w] = stream[w]
  BY <1>1, <1>2 DEF FilesInv, FilesTyped
<1>4. n \in FileNames
  BY <1>1 DEF FilesInv, FilesTyped, Creates
<1>5. Agrees(s, disk'[n], relied'[n])
  BY <1>1, <1>2 DEF Agrees, Promised
<1>6. ASSUME NEW w \in FileVars \ {v}, IsOpen(w), name[w] = n PROVE FALSE
  BY <1>1, <1>6 DEF MayOpen
<1>. QED BY <1>1, <1>2, <1>3, <1>4, <1>5, <1>6, OneStream

LEMMA Rewriting == ASSUME FilesInv, NEW v \in FileVars, Rewrite(v) PROVE FilesInv'
<1>1. PICK n, d : n = name[v] /\ d = DiskAfterClose(v)
  OBVIOUS
<1>2. CASE ~Creates(v)
  BY <1>2, Closing DEF Rewrite
<1>3. CASE Creates(v)
  <2>1. n \in FileNames
    BY <1>1, <1>3 DEF FilesInv, FilesTyped, Creates
  <2>2. /\ disk' = [d EXCEPT ![n] = <<>>] /\ relied' = [relied EXCEPT ![n] = <<>>]
        /\ stream' = [stream EXCEPT ![v] = Opened("write", 0)] /\ name' = name /\ MayOpen(v, TRUE)
    BY <1>1, <1>3 DEF Rewrite
  <2>3. <<>> \in Seq(Cells)
    OBVIOUS
  <2>4. <<>> # NoFile
    BY <2>3, MarksAreNotContents
  <2>5. relied \in [FileNames -> Seq(Cells) \cup Unsure]
    BY DEF FilesInv, FilesTyped
  <2>6. /\ d \in [FileNames -> Seq(Cells) \cup {NoFile}]
        /\ \A m \in FileNames \ {n} : d[m] = disk[m]
    BY <1>1, ClosingKeeps
  <2>7. /\ disk' \in [FileNames -> Seq(Cells) \cup {NoFile}]
        /\ relied' \in [FileNames -> Seq(Cells) \cup Unsure]
        /\ \A m \in FileNames \ {n} : disk'[m] = disk[m] /\ relied'[m] = relied[m]
        /\ disk'[n] = <<>> /\ relied'[n] = <<>>
    BY <2>1, <2>2, <2>3, <2>5, <2>6
  <2>8. PICK mode \in {"write", "append"} : mode = "write"
    OBVIOUS
  <2>9. /\ stream' = [stream EXCEPT ![v] = Opened(mode, 0)] /\ disk'[n] \in Seq(Cells) /\ relied'[n] # NoFile
        /\ relied'[n] \notin Unsure => relied'[n] = disk'[n]
    BY <2>2, <2>3, <2>4, <2>7, <2>8
  <2>. QED BY ONLY <1>1, <1>3, <2>2, <2>7, <2>9, FilesInv, OpeningToWrite, v \in FileVars
<1>. QED BY <1>2, <1>3

LEMMA Appending == ASSUME FilesInv, NEW v \in FileVars, AppendTo(v) PROVE FilesInv'
<1>1. PICK n, d, r : n = name[v] /\ d = DiskAfterClose(v) /\ r = Unreported(v, relied)
  OBVIOUS
<1>2. CASE ~Creates(v)
  BY <1>2, Closing DEF AppendTo
<1>3. CASE Creates(v)
  <2>1. n \in FileNames
    BY <1>1, <1>3 DEF FilesInv, FilesTyped, Creates
  <2>2. /\ disk' = [d EXCEPT ![n] = ExistingOrEmpty(d[n])]
        /\ relied' = [r EXCEPT ![n] = ExistingOrEmpty(r[n])]
        /\ stream' = [stream EXCEPT ![v] = Opened("append", 0)] /\ name' = name /\ MayOpen(v, TRUE)
    BY <1>1, <1>3 DEF AppendTo
  <2>3. <<>> \in Seq(Cells)
    OBVIOUS
  <2>4. <<>> # NoFile
    BY <2>3, MarksAreNotContents
  <2>5. /\ d \in [FileNames -> Seq(Cells) \cup {NoFile}]
        /\ r \in [FileNames -> Seq(Cells) \cup Unsure]
        /\ \A m \in FileNames \ {n} : d[m] = disk[m] /\ r[m] = relied[m]
    BY <1>1, ClosingKeeps
  <2>6. ExistingOrEmpty(d[n]) \in Seq(Cells) /\ ExistingOrEmpty(r[n]) \in Seq(Cells) \cup Unsure
    BY <2>1, <2>3, <2>5 DEF ExistingOrEmpty
  <2>7. /\ disk' \in [FileNames -> Seq(Cells) \cup {NoFile}]
        /\ relied' \in [FileNames -> Seq(Cells) \cup Unsure]
        /\ \A m \in FileNames \ {n} : disk'[m] = disk[m] /\ relied'[m] = relied[m]
        /\ disk'[n] = ExistingOrEmpty(d[n]) /\ relied'[n] = ExistingOrEmpty(r[n])
    BY <2>1, <2>2, <2>5, <2>6
  <2>8. relied'[n] # NoFile
    BY <2>4, <2>7 DEF ExistingOrEmpty
  <2>9. ASSUME NEW w \in FileVars \ {v}, Writes(w) PROVE name[w] # n
    BY <1>1, <2>2, <2>9 DEF MayOpen, IsOpen, Writes
  <2>10. ASSUME relied'[n] \notin Unsure PROVE relied'[n] = disk'[n]
    <3>1. CASE r[n] = NoFile
      <4>1. d[n] = NoFile
        BY <1>1, <2>1, <3>1, ClosingKeeps
      <4>. QED BY <2>7, <3>1, <4>1
    <3>2. CASE r[n] # NoFile
      <4>1. r[n] \notin Unsure
        BY <2>7, <2>10, <3>2 DEF ExistingOrEmpty
      <4>2. d[n] = r[n]
        BY <1>1, <2>1, <2>9, <4>1, ClosingKeeps
      <4>. QED BY <2>7, <4>2
    <3>. QED BY <3>1, <3>2
  <2>11. PICK mode \in {"write", "append"} : mode = "append"
    OBVIOUS
  <2>12. stream' = [stream EXCEPT ![v] = Opened(mode, 0)] /\ disk'[n] \in Seq(Cells)
    BY <2>2, <2>6, <2>7, <2>11
  <2>. QED BY ONLY <1>1, <1>3, <2>2, <2>7, <2>8, <2>10, <2>12, FilesInv, OpeningToWrite, v \in FileVars
<1>. QED BY <1>2, <1>3

LEMMA FindingClosed == ASSUME FilesInv, NEW v \in FileVars, NotOpen(v) PROVE FilesInv'
<1>1. PICK n, s : n = name[v] /\ s = stream[v]
  OBVIOUS
<1>2. /\ s \in Streams /\ s.mode = "closed" /\ stream' \in [FileVars -> Streams]
      /\ stream' = stream /\ disk' = disk /\ name' = name
  BY <1>1 DEF NotOpen, IsOpen, FilesInv, FilesTyped
<1>3. relied \in [FileNames -> Seq(Cells) \cup Unsure] /\ Unknown \in Unsure
  BY DEF FilesInv, FilesTyped, Unsure
<1>4. relied' = IF n # NoName THEN [relied EXCEPT ![n] = Unknown] ELSE relied
  BY <1>1 DEF NotOpen, Doubt
<1>5. /\ relied' \in [FileNames -> Seq(Cells) \cup Unsure]
      /\ \A m \in FileNames \ {n} : relied'[m] = relied[m]
      /\ n \in FileNames => relied'[n] \in {relied[n], Unknown}
  BY <1>3, <1>4
<1>6. ~Writing(s) /\ s.mode # "read"
  BY <1>2 DEF Writing
<1>. QED BY <1>1, <1>2, <1>5, <1>6, StreamMoves

\* What a reader has ahead is the rest of its file.
LEMMA ReadersLookAhead ==
  ASSUME FilesInv, NEW v \in FileVars, IsOpen(v), ~Writes(v)
  PROVE  /\ stream[v].mode = "read" /\ stream[v].pending = <<>> /\ stream[v].pos \in Nat
         /\ disk[name[v]] \in Seq(Cells)
         /\ Ahead(v) = SubSeq(disk[name[v]], stream[v].pos + 1, Len(disk[name[v]]))
         /\ Ahead(v) \in Seq(Cells)
<1>1. PICK s, d : s = stream[v] /\ d = disk[name[v]]
  OBVIOUS
<1>2. s \in Streams /\ s.mode = "read" /\ s.pos \in Nat /\ s.ahead \in Seq(Cells)
  BY <1>1 DEF FilesInv, FilesTyped, Streams, IsOpen, Writes
<1>3. Agrees(s, d, relied[name[v]])
  BY <1>1 DEF FilesInv, OpenStreamsAgree
<1>4. d \in Seq(Cells) /\ Size(name[v]) = Len(d)
  BY <1>1, <1>3, MarksAreNotContents DEF Agrees, Size
<1>5. SubSeq(d, s.pos + 1, Len(d)) \in Seq(Cells)
  BY <1>2, <1>4
<1>. QED BY <1>1, <1>2, <1>3, <1>4, <1>5 DEF Agrees, Ahead

LEMMA TheRestAfterOne ==
  ASSUME NEW d \in Seq(Cells), NEW p \in Nat, SubSeq(d, p + 1, Len(d)) # <<>>
  PROVE  Tail(SubSeq(d, p + 1, Len(d))) = SubSeq(d, p + 2, Len(d))
<1>1. PICK m \in Int : m = p + 1
  OBVIOUS
<1>2. PICK n \in Int : n = Len(d)
  OBVIOUS
<1>3. m <= n
  <2>1. n < m => SubSeq(d, m, n) = <<>>
    BY SubSeqEmpty
  <2>. QED BY <1>1, <1>2, <2>1
<1>4. \A i \in m .. n : d[i] \in Cells
  BY <1>1, <1>2
<1>5. Tail(SubSeq(d, m, n)) = SubSeq(d, m + 1, n)
  BY <1>3, <1>4, HeadTailOfSubSeq
<1>6. m + 1 = p + 2
  BY <1>1
<1>. QED BY <1>1, <1>2, <1>5, <1>6

LEMMA Reading ==
  ASSUME FilesInv, NEW v \in FileVars, IsOpen(v), ReadStream(v), name' = name, disk' = disk,
         relied' \in [FileNames -> Seq(Cells) \cup Unsure],
         \A n \in FileNames \ {name[v]} : relied'[n] = relied[n],
         name[v] \in FileNames => relied'[name[v]] \in {relied[name[v]], Unknown}
  PROVE  FilesInv'
<1>1. PICK t : t = stream[v]
  OBVIOUS
<1>2. PICK s : s = StreamAfterRead(v)
  OBVIOUS
<1>3. stream \in [FileVars -> Streams] /\ t \in Streams
  BY <1>1 DEF FilesInv, FilesTyped
<1>4. stream' = [stream EXCEPT ![v] = s]
  BY <1>2 DEF ReadStream
<1>5. /\ s \in Streams /\ s.mode = t.mode /\ s.pending = t.pending
      /\ Writing(s) => s.pos = t.pos
      /\ s.mode = "read" => s.ahead \in {<<>>, SubSeq(disk[name[v]], s.pos + 1, Len(disk[name[v]]))}
  <2>1. CASE Writes(v)
    BY <1>1, <1>2, <1>3, <2>1 DEF StreamAfterRead, Streams, Writes, Writing
  <2>2. CASE ~Writes(v) /\ Ahead(v) = <<>>
    BY <1>1, <1>2, <1>3, <2>2 DEF StreamAfterRead, FilesInv, OpenStreamsAgree, Agrees
  <2>3. CASE ~Writes(v) /\ Ahead(v) # <<>>
    <3>1. PICK d : d = disk[name[v]]
      OBVIOUS
    <3>2. /\ t.mode = "read" /\ t.pos \in Nat /\ d \in Seq(Cells)
          /\ Ahead(v) = SubSeq(d, t.pos + 1, Len(d)) /\ Ahead(v) \in Seq(Cells)
      BY <1>1, <2>3, <3>1, ReadersLookAhead
    <3>3. PICK u : u = Tail(Ahead(v))
      OBVIOUS
    <3>4. u = SubSeq(d, t.pos + 2, Len(d))
      BY <2>3, <3>2, <3>3, TheRestAfterOne
    <3>5. u \in Seq(Cells)
      BY <2>3, <3>2, <3>3
    <3>6. s = [t EXCEPT !.ahead = u, !.pos = t.pos + 1]
      BY <1>1, <1>2, <2>3, <3>3 DEF StreamAfterRead
    <3>7. /\ s \in Streams /\ s.mode = t.mode /\ s.pending = t.pending /\ s.ahead = u
          /\ s.pos = t.pos + 1
      <4>1. PICK p \in Nat : p = t.pos + 1
        BY <3>2
      <4>2. s = [t EXCEPT !.ahead = u, !.pos = p]
        BY <3>6, <4>1
      <4>. QED BY <1>3, <3>5, <4>1, <4>2 DEF Streams
    <3>8. ~Writing(s) /\ s.pos + 1 = t.pos + 2
      BY <3>2, <3>7 DEF Writing
    <3>. QED BY <3>1, <3>4, <3>7, <3>8
  <2>. QED BY <2>1, <2>2, <2>3
<1>6. /\ stream' \in [FileVars -> Streams] /\ stream'[v] = s
      /\ \A w \in FileVars \ {v} : stream'[w] = stream[w]
  BY <1>3, <1>4, <1>5
<1>. QED BY <1>1, <1>5, <1>6, StreamMoves

\* An error in a call ends what the program knows of its file.
LEMMA Doubting ==
  ASSUME FilesInv, NEW v \in FileVars, NEW code, NEW b \in [FileNames -> Seq(Cells) \cup Unsure]
  PROVE  /\ Doubt(v, code, b) \in [FileNames -> Seq(Cells) \cup Unsure]
         /\ \A n \in FileNames \ {name[v]} : Doubt(v, code, b)[n] = b[n]
         /\ name[v] \in FileNames =>
              Doubt(v, code, b)[name[v]] = IF code # 0 THEN Unknown ELSE b[name[v]]
<1>1. PICK n : n = name[v]
  OBVIOUS
<1>2. Doubt(v, code, b) = IF code # 0 /\ n # NoName THEN [b EXCEPT ![n] = Unknown] ELSE b
  BY <1>1 DEF Doubt
<1>3. n \in FileNames => n # NoName
  BY FilesAssumption
<1>4. Unknown \in Unsure
  BY DEF Unsure
<1>. QED BY <1>1, <1>2, <1>3, <1>4

LEMMA ReadingLines == ASSUME FilesInv, NEW v \in FileVars, ReadLn(v) PROVE FilesInv'
<1>1. relied' = relied /\ relied \in [FileNames -> Seq(Cells) \cup Unsure]
  BY DEF ReadLn, FilesInv, FilesTyped
<1>. QED BY <1>1, Reading DEF ReadLn

LEMMA ReadingBlocks == ASSUME FilesInv, NEW v \in FileVars, BlockRead(v) PROVE FilesInv'
<1>1. CASE NotOpen(v)
  BY <1>1, FindingClosed
<1>2. CASE ~NotOpen(v)
  <2>1. PICK code : /\ IsOpen(v) /\ ReadStream(v) /\ relied' = Doubt(v, code, relied)
                    /\ disk' = disk /\ name' = name
    BY <1>2 DEF BlockRead
  <2>2. relied \in [FileNames -> Seq(Cells) \cup Unsure]
    BY DEF FilesInv, FilesTyped
  <2>. QED BY <2>1, <2>2, Doubting, Reading
<1>. QED BY <1>1, <1>2

LEMMA AskingForTheEnd == ASSUME FilesInv, NEW v \in FileVars, Eof(v) PROVE FilesInv'
<1>1. PICK t : t = stream[v]
  OBVIOUS
<1>2. PICK s : s = IF Writes(v) THEN [t EXCEPT !.failed = TRUE] ELSE [t EXCEPT !.ahead = Ahead(v)]
  OBVIOUS
<1>3. stream \in [FileVars -> Streams] /\ t \in Streams /\ relied \in [FileNames -> Seq(Cells) \cup Unsure]
  BY <1>1 DEF FilesInv, FilesTyped
<1>4. stream' = [stream EXCEPT ![v] = s] /\ IsOpen(v) /\ disk' = disk /\ name' = name /\ relied' = relied
  BY <1>1, <1>2, <1>3 DEF Eof
<1>5. /\ s \in Streams /\ s.mode = t.mode /\ s.pending = t.pending /\ s.pos = t.pos
      /\ s.mode = "read" => s.ahead \in {<<>>, SubSeq(disk[name[v]], s.pos + 1, Len(disk[name[v]]))}
  <2>1. CASE Writes(v)
    BY <1>1, <1>2, <1>3, <2>1 DEF Streams, Writes
  <2>2. CASE ~Writes(v)
    <3>1. PICK a : a = Ahead(v)
      OBVIOUS
    <3>2. a \in Seq(Cells) /\ a = SubSeq(disk[name[v]], t.pos + 1, Len(disk[name[v]]))
      BY <1>1, <1>4, <2>2, <3>1, ReadersLookAhead
    <3>3. s = [t EXCEPT !.ahead = a]
      BY <1>2, <2>2, <3>1
    <3>4. s \in Streams /\ s.mode = t.mode /\ s.pending = t.pending /\ s.pos = t.pos /\ s.ahead = a
      BY <1>3, <3>2, <3>3 DEF Streams
    <3>. QED BY <3>2, <3>4
  <2>. QED BY <2>1, <2>2
<1>6. /\ stream' \in [FileVars -> Streams] /\ stream'[v] = s
      /\ \A w \in FileVars \ {v} : stream'[w] = stream[w]
  BY <1>3, <1>4, <1>5
<1>. QED BY <1>1, <1>3, <1>4, <1>5, <1>6, StreamMoves

\* Writing on a stream that writes.
LEMMA WritingToAWriter ==
  ASSUME FilesInv, NEW v \in FileVars, NEW x \in Records, NEW drains \in BOOLEAN, Writes(v),
         WriteStream(v, x, drains), name' = name, NEW code \in Int, NEW b,
         b = IF relied[name[v]] \in {Unknown, NoFile} THEN relied
             ELSE [relied EXCEPT ![name[v]] = PutAt(@, Position(v), <<x>>)],
         relied' = Doubt(v, code, b), code = 0 => ~stream'[v].failed
  PROVE  FilesInv'
<1>1. PICK n : n = name[v]
  OBVIOUS
<1>2. PICK d, r, t : d = disk[n] /\ r = relied[n] /\ t = stream[v]
  OBVIOUS
<1>3. PICK p : p = Start(v)
  OBVIOUS
<1>4. /\ n \in FileNames /\ d \in Seq(Cells) /\ p \in Nat
      /\ p = IF t.mode = "append" THEN Len(d) ELSE t.pos
  BY <1>1, <1>2, <1>3, DrainingKeeps
<1>5. /\ disk \in [FileNames -> Seq(Cells) \cup {NoFile}] /\ relied \in [FileNames -> Seq(Cells) \cup Unsure]
      /\ stream \in [FileVars -> Streams] /\ t \in Streams /\ t.pending \in Seq(Cells)
      /\ t.failed \in BOOLEAN /\ r \in Seq(Cells) \cup Unsure
  BY <1>2, <1>4 DEF FilesInv, FilesTyped, Streams
<1>6. IsOpen(v) /\ Writing(t)
  BY <1>2 DEF IsOpen, Writes, Writing
<1>7. /\ r \notin Unsure => r = Promised(d, t)
      /\ r # NoFile
  <2>1. Agrees(t, d, r)
    BY <1>1, <1>2, <1>6 DEF FilesInv, OpenStreamsAgree
  <2>. QED BY <1>2, <1>4, <1>6, <2>1, MarksAreNotContents DEF Agrees, FilesInv, FilesAreKnown
<1>8. x \in Cells
  BY DEF Cells
<1>9. PICK e \in Seq(Cells) : e = t.pending
  BY <1>5
<1>10. PICK held : held = Append(e, x)
  OBVIOUS
<1>11. held \in Seq(Cells) /\ held # <<>> /\ Len(held) \in Nat
  <2>1. held \in Seq(Cells) /\ held # <<>>
    BY <1>8, <1>9, <1>10, AppendProperties
  <2>. QED BY ONLY <2>1, LenProperties
<1>12. PICK all : all = PutAt(d, p, held)
  OBVIOUS
<1>13. all \in Seq(Cells) /\ Len(all) >= Len(d)
  <2>1. /\ PutAt(d, p, held) \in Seq(Cells)
        /\ Len(PutAt(d, p, held)) = IF p + Len(held) > Len(d) THEN p + Len(held) ELSE Len(d)
    BY ONLY <1>4, <1>11, PutAtIsContents
  <2>. QED BY ONLY <1>4, <1>12, <1>11, <2>1, LenProperties
<1>14. Position(v) = p + Len(e) /\ Position(v) \in Nat
  BY <1>2, <1>3, <1>9, DrainingKeeps DEF Position
<1>15. r \notin Unsure => PutAt(r, Position(v), <<x>>) = all
  <2>1. Promised(d, t) = IF e = <<>> THEN d ELSE PutAt(d, p, e)
    BY <1>4, <1>9 DEF Promised
  <2>5. PICK q \in Nat : q = Position(v)
    BY <1>14
  <2>2. PICK f : f = Promised(d, t)
    OBVIOUS
  <2>3. (e = <<>> => f = d) /\ (e # <<>> => f = PutAt(d, p, e)) /\ q = p + Len(e)
    BY <1>14, <2>1, <2>2, <2>5
  <2>4. PutAt(f, q, <<x>>) = PutAt(d, p, held)
    <3>1. CASE e = <<>>
      <4>1. held = <<x>> /\ Len(e) = 0
        BY <1>10, <3>1
      <4>2. q = p
        BY <1>4, <2>3, <4>1
      <4>. QED BY ONLY <2>3, <3>1, <4>1, <4>2
    <3>2. CASE e # <<>>
      <4>1. PutAt(PutAt(d, p, e), p + Len(e), <<x>>) = PutAt(d, p, Append(e, x))
        BY <1>4, <1>8, PutAtBehind
      <4>. QED BY ONLY <1>10, <2>3, <3>2, <4>1
    <3>. QED BY <3>1, <3>2
  <2>. QED BY <1>7, <1>12, <2>2, <2>4, <2>5
<1>16. /\ b \in [FileNames -> Seq(Cells) \cup Unsure]
       /\ \A m \in FileNames \ {n} : b[m] = relied[m]
       /\ b[n] \notin Unsure => b[n] = all
       /\ b[n] # NoFile
  <2>1. CASE r \in Unsure
    BY <1>1, <1>2, <1>5, <1>7, <2>1 DEF Unsure
  <2>2. CASE r \notin Unsure
    <3>1. b = [relied EXCEPT ![n] = all]
      BY <1>1, <1>2, <1>15, <2>2 DEF Unsure
    <3>. QED BY <1>4, <1>5, <1>13, <3>1, MarksAreNotContents
  <2>. QED BY <2>1, <2>2
<1>17. /\ relied' \in [FileNames -> Seq(Cells) \cup Unsure]
       /\ \A m \in FileNames \ {n} : relied'[m] = relied[m]
       /\ relied'[n] # NoFile
       /\ relied'[n] \notin Unsure => relied'[n] = all /\ ~stream'[v].failed
  <2>1. Unknown \in Unsure
    BY DEF Unsure
  <2>2. /\ relied' \in [FileNames -> Seq(Cells) \cup Unsure]
        /\ \A m \in FileNames \ {n} : relied'[m] = b[m]
        /\ relied'[n] = IF code # 0 THEN Unknown ELSE b[n]
    <3>1. /\ Doubt(v, code, b) \in [FileNames -> Seq(Cells) \cup Unsure]
          /\ \A m \in FileNames \ {name[v]} : Doubt(v, code, b)[m] = b[m]
          /\ name[v] \in FileNames =>
               Doubt(v, code, b)[name[v]] = IF code # 0 THEN Unknown ELSE b[name[v]]
      BY ONLY <1>16, FilesInv, v \in FileVars, Doubting
    <3>2. relied' = Doubt(v, code, b)
      OBVIOUS
    <3>. QED BY ONLY <1>1, <1>4, <3>1, <3>2
  <2>. QED BY <1>16, <2>1, <2>2, MarksDiffer
<1>18. CASE ~drains
  <2>1. PICK s : s = [t EXCEPT !.pending = held]
    OBVIOUS
  <2>2. stream' = [stream EXCEPT ![v] = s] /\ disk' = disk
    BY <1>2, <1>9, <1>10, <1>18, <2>1 DEF WriteStream
  <2>3. s \in Streams /\ s.pending = held /\ s.mode = t.mode /\ s.pos = t.pos
    BY <1>5, <1>11, <2>1 DEF Streams
  <2>4. /\ stream' \in [FileVars -> Streams] /\ stream'[v] = s
        /\ \A w \in FileVars \ {v} : stream'[w] = stream[w]
    BY <1>5, <2>2, <2>3
  <2>5. Promised(d, s) = all /\ Writing(s)
    BY <1>4, <1>6, <1>11, <1>12, <2>3 DEF Promised, Writing
  <2>. QED BY <1>1, <1>2, <1>4, <1>5, <1>17, <1>13, <2>2, <2>3, <2>4, <2>5, WriterMoves
<1>19. CASE drains
  <2>1. PICK fits : fits = HasRoom(n, all)
    OBVIOUS
  <2>2. PICK kept : kept = IF fits THEN all ELSE SubSeq(all, 1, Size(n))
    OBVIOUS
  <2>3. PICK s : s = [t EXCEPT !.pending = <<>>, !.pos = p + Len(held), !.failed = t.failed \/ ~fits]
    OBVIOUS
  <2>4. disk' = [disk EXCEPT ![n] = kept]
    BY <1>1, <1>2, <1>3, <1>9, <1>10, <1>12, <1>19, <2>1, <2>2 DEF WriteStream
  <2>5. stream' = [stream EXCEPT ![v] = s]
    BY <1>1, <1>2, <1>3, <1>9, <1>10, <1>12, <1>19, <2>1, <2>3 DEF WriteStream
  <2>6. kept \in Seq(Cells)
    <3>1. Size(n) = Len(d)
      BY <1>2, <1>4, MarksAreNotContents DEF Size
    <3>2. SubSeq(all, 1, Len(d)) \in Seq(Cells)
      BY <1>4, <1>13
    <3>. QED BY <1>13, <2>2, <3>1, <3>2
  <2>7. /\ s \in Streams /\ s.pending = <<>> /\ s.mode = t.mode
        /\ s.failed = FALSE => fits
    <3>1. PICK f \in BOOLEAN : f = (t.failed \/ ~fits)
      OBVIOUS
    <3>2. PICK q \in Nat : q = p + Len(held)
      BY <1>4, <1>11
    <3>3. <<>> \in Seq(Cells)
      OBVIOUS
    <3>4. s = [t EXCEPT !.pending = <<>>, !.pos = q, !.failed = f]
      BY <2>3, <3>1, <3>2
    <3>5. s \in Streams /\ s.pending = <<>> /\ s.mode = t.mode /\ s.failed = f
      BY <1>5, <3>3, <3>4 DEF Streams
    <3>. QED BY <3>1, <3>5
  <2>8. /\ stream' \in [FileVars -> Streams] /\ stream'[v] = s
        /\ \A w \in FileVars \ {v} : stream'[w] = stream[w]
    BY <1>5, <2>5, <2>7
  <2>9. /\ disk' \in [FileNames -> Seq(Cells) \cup {NoFile}] /\ disk'[n] = kept
        /\ \A m \in FileNames \ {n} : disk'[m] = disk[m]
    BY <1>4, <1>5, <2>4, <2>6
  <2>10. Promised(kept, s) = kept /\ Writing(s)
    BY <1>6, <2>7 DEF Promised, Writing
  <2>11. relied'[n] \notin Unsure => relied'[n] = kept
    <3>1. relied'[n] \notin Unsure => fits
      BY <1>17, <2>7, <2>8
    <3>. QED BY <1>17, <2>2, <3>1
  <2>. QED BY <1>1, <1>17, <2>6, <2>7, <2>8, <2>9, <2>10, <2>11, WriterMoves
<1>. QED BY <1>18, <1>19

LEMMA WritingRecords == ASSUME FilesInv, NEW v \in FileVars, NEW x \in Records, Write(v, x) PROVE FilesInv'
<1>1. CASE NotOpen(v)
  BY <1>1, FindingClosed
<1>2. CASE ~NotOpen(v)
  <2>1. PICK b : b = IF relied[name[v]] \in {Unknown, NoFile} THEN relied
                     ELSE [relied EXCEPT ![name[v]] = PutAt(@, Position(v), <<x>>)]
    OBVIOUS
  <2>2. PICK code \in Int : code = IF stream'[v].failed THEN 101 ELSE 0
    OBVIOUS
  <2>3. /\ IsOpen(v) /\ name' = name /\ relied' = Doubt(v, code, b)
        /\ \E drains \in BOOLEAN : WriteStream(v, x, drains)
    BY <1>2, <2>1, <2>2 DEF Write
  <2>4. PICK drains \in BOOLEAN : WriteStream(v, x, drains)
    BY <2>3
  <2>5. CASE Writes(v)
    <3>1. code = 0 => ~stream'[v].failed
      BY <2>2
    <3>. QED BY <2>1, <2>3, <2>4, <2>5, <3>1, WritingToAWriter
  <2>6. CASE ~Writes(v)
    <3>1. PICK n, s : n = name[v] /\ s = [stream[v] EXCEPT !.failed = TRUE]
      OBVIOUS
    <3>2. stream' = [stream EXCEPT ![v] = s] /\ disk' = disk
      BY <2>4, <2>6, <3>1 DEF WriteStream
    <3>3. stream \in [FileVars -> Streams] /\ relied \in [FileNames -> Seq(Cells) \cup Unsure]
      BY DEF FilesInv, FilesTyped
    <3>4. /\ s \in Streams /\ s.mode = stream[v].mode /\ s.pending = stream[v].pending
          /\ s.pos = stream[v].pos /\ s.ahead = stream[v].ahead /\ s.failed = TRUE
      BY <3>1, <3>3 DEF Streams
    <3>5. /\ stream' \in [FileVars -> Streams] /\ stream'[v] = s
          /\ \A w \in FileVars \ {v} : stream'[w] = stream[w]
      BY <3>2, <3>3, <3>4
    <3>6. s.mode = "read" => s.ahead \in {<<>>, SubSeq(disk[name[v]], s.pos + 1, Len(disk[name[v]]))}
      BY <2>3, <3>4 DEF FilesInv, OpenStreamsAgree, Agrees
    <3>7. code # 0
      BY <2>2, <3>4, <3>5
    <3>8. name[v] \in FileNames /\ n # NoName
      BY <2>3, <3>1, FilesAssumption DEF FilesInv, OpenStreamsAgree
    <3>9. relied' = [b EXCEPT ![n] = Unknown]
      BY <2>3, <3>1, <3>7, <3>8 DEF Doubt
    <3>10. DOMAIN b = FileNames /\ \A m \in FileNames \ {n} : b[m] = relied[m]
      BY <2>1, <3>1, <3>3
    <3>11. Unknown \in Unsure
      BY DEF Unsure
    <3>12. /\ relied' \in [FileNames -> Seq(Cells) \cup Unsure]
           /\ \A m \in FileNames \ {n} : relied'[m] = relied[m]
           /\ relied'[n] = Unknown
      <4>1. b \in [FileNames -> Seq(Cells) \cup Unsure \cup {b[n]}]
        BY <2>1, <3>1, <3>3
      <4>. QED BY <3>1, <3>3, <3>8, <3>9, <3>10, <3>11, <4>1
    <3>. QED BY <2>3, <3>1, <3>2, <3>4, <3>5, <3>6, <3>12, StreamMoves
  <2>. QED BY <2>5, <2>6
<1>. QED BY <1>1, <1>2

\* What the program relies on is what the file of a writer holds once drained.
LEMMA WritersKeep ==
  ASSUME FilesInv, NEW v \in FileVars, Writes(v)
  PROVE  /\ relied[name[v]] # NoFile
         /\ relied[name[v]] \notin Unsure => relied[name[v]] = Promised(disk[name[v]], stream[v])
<1>1. IsOpen(v) /\ Writing(stream[v])
  BY DEF IsOpen, Writes, Writing
<1>2. name[v] \in FileNames /\ Agrees(stream[v], disk[name[v]], relied[name[v]])
  BY <1>1 DEF FilesInv, OpenStreamsAgree
<1>. QED BY <1>1, <1>2, MarksAreNotContents DEF Agrees, FilesInv, FilesAreKnown

LEMMA Seeking ==
  ASSUME FilesInv, NEW v \in FileVars, NEW p \in Nat, Seek(v, p)
  PROVE  FilesInv'
<1>1. CASE NotOpen(v)
  BY <1>1, FindingClosed
<1>2. CASE ~NotOpen(v)
  <2>1. PICK n, t, u : n = name[v] /\ t = stream[v] /\ u = StreamAfter(v)
    OBVIOUS
  <2>2. PICK lost \in BOOLEAN : lost = (t.pending # <<>> /\ ~Fits(v))
    OBVIOUS
  <2>3. PICK s : s = IF lost THEN u ELSE Sought(u, p)
    OBVIOUS
  <2>4. PICK code \in Int : code = IF lost THEN 103 ELSE 0
    OBVIOUS
  <2>5. /\ t.mode \in {"read", "write"} /\ stream' = [stream EXCEPT ![v] = s]
        /\ relied' = Doubt(v, code, relied) /\ disk' = DiskAfter(v) /\ name' = name
    BY <1>2, <2>1, <2>2, <2>3, <2>4 DEF Seek
  <2>6. /\ stream \in [FileVars -> Streams] /\ relied \in [FileNames -> Seq(Cells) \cup Unsure]
        /\ t \in Streams
    BY <2>1 DEF FilesInv, FilesTyped
  <2>7. IsOpen(v) /\ n \in FileNames
    BY <2>1, <2>5 DEF IsOpen, FilesInv, OpenStreamsAgree
  <2>8. /\ relied' \in [FileNames -> Seq(Cells) \cup Unsure]
        /\ \A m \in FileNames \ {n} : relied'[m] = relied[m]
        /\ relied'[n] = IF lost THEN Unknown ELSE relied[n]
    BY <2>1, <2>4, <2>5, <2>6, <2>7, Doubting
  <2>9. ASSUME u \in Streams
        PROVE  /\ s \in Streams /\ s.mode = u.mode /\ s.pending = u.pending
               /\ ~lost => s.ahead = <<>>
    <3>1. <<>> \in Seq(Cells)
      OBVIOUS
    <3>. QED BY <2>3, <2>9, <3>1 DEF Sought, Streams
  <2>10. CASE t.mode = "read"
    <3>1. ~Writes(v) /\ t.pending = <<>> /\ ~lost
      BY <2>1, <2>2, <2>7, <2>10, ReadersLookAhead DEF Writes
    <3>2. u = t /\ DiskAfter(v) = disk
      BY <2>1, <3>1 DEF StreamAfter, DiskAfter
    <3>3. s \in Streams /\ s.mode = t.mode /\ s.pending = t.pending /\ s.ahead = <<>>
      BY <2>6, <2>9, <3>1, <3>2
    <3>4. /\ stream' \in [FileVars -> Streams] /\ stream'[v] = s
          /\ \A w \in FileVars \ {v} : stream'[w] = stream[w]
      BY <2>5, <2>6, <3>3
    <3>5. ~Writing(s)
      BY <2>10, <3>3 DEF Writing
    <3>. QED BY <2>1, <2>5, <2>7, <2>8, <3>1, <3>2, <3>3, <3>4, <3>5, StreamMoves
  <2>11. CASE t.mode = "write"
    <3>1. Writes(v)
      BY <2>1, <2>11 DEF Writes
    <3>2. /\ DiskAfter(v) \in [FileNames -> Seq(Cells) \cup {NoFile}]
          /\ DiskAfter(v)[n] \in Seq(Cells)
          /\ \A m \in FileNames \ {n} : DiskAfter(v)[m] = disk[m]
          /\ ~lost => DiskAfter(v)[n] = Promised(disk[n], t)
          /\ u \in Streams /\ u.mode = t.mode /\ u.pending = <<>>
      BY <2>1, <2>2, <3>1, DrainingKeeps
    <3>3. s \in Streams /\ s.mode = t.mode /\ s.pending = <<>>
      BY <2>9, <3>2
    <3>4. /\ stream' \in [FileVars -> Streams] /\ stream'[v] = s
          /\ \A w \in FileVars \ {v} : stream'[w] = stream[w]
      BY <2>5, <2>6, <3>3
    <3>5. Writing(s) /\ Promised(disk'[n], s) = disk'[n]
      BY <2>11, <3>3 DEF Writing, Promised
    <3>6. /\ relied[n] # NoFile
          /\ relied[n] \notin Unsure => relied[n] = Promised(disk[n], t)
      BY <2>1, <3>1, WritersKeep
    <3>7. Unknown \in Unsure
      BY DEF Unsure
    <3>8. /\ relied'[n] # NoFile
          /\ relied'[n] \notin Unsure => relied'[n] = Promised(disk'[n], s)
      BY <2>5, <2>8, <3>2, <3>5, <3>6, <3>7, MarksDiffer
    <3>. QED BY <2>1, <2>5, <2>8, <3>1, <3>2, <3>3, <3>4, <3>5, <3>8, WriterMoves
  <2>. QED BY <2>5, <2>10, <2>11
<1>. QED BY <1>1, <1>2

LEMMA Truncating == ASSUME FilesInv, NEW v \in FileVars, Truncate(v) PROVE FilesInv'
<1>1. CASE NotOpen(v)
  BY <1>1, FindingClosed
<1>2. CASE ~NotOpen(v) /\ ~Writes(v)
  <2>1. PICK n, t : n = name[v] /\ t = stream[v]
    OBVIOUS
  <2>2. PICK b : b = Unreported(v,
            IF relied[n] \in {Unknown, NoFile} THEN relied
            ELSE [relied EXCEPT ![n] = [k \in 1 .. Position(v) |->
                                          IF k <= Len(relied[n]) THEN relied[n][k] ELSE Hole]])
    OBVIOUS
  <2>3. /\ t.mode \in {"read", "write"} /\ stream' = stream /\ disk' = disk /\ name' = name
        /\ relied' = Doubt(v, 103, b)
    BY <1>2, <2>1, <2>2 DEF Truncate
  <2>4. /\ stream \in [FileVars -> Streams] /\ t \in Streams
        /\ relied \in [FileNames -> Seq(Cells) \cup Unsure]
    BY <2>1 DEF FilesInv, FilesTyped
  <2>5. IsOpen(v) /\ n \in FileNames /\ n # NoName
    BY <2>1, <2>3, FilesAssumption DEF IsOpen, FilesInv, OpenStreamsAgree
  <2>6. relied' = [b EXCEPT ![n] = Unknown]
    BY <2>1, <2>3, <2>5 DEF Doubt
  <2>7. DOMAIN b = FileNames /\ \A m \in FileNames \ {n} : b[m] = relied[m]
    BY <1>2, <2>2, <2>4 DEF Unreported
  <2>8. b \in [FileNames -> Seq(Cells) \cup Unsure \cup {b[n]}]
    BY <1>2, <2>2, <2>4 DEF Unreported
  <2>9. Unknown \in Unsure
    BY DEF Unsure
  <2>10. /\ relied' \in [FileNames -> Seq(Cells) \cup Unsure]
         /\ \A m \in FileNames \ {n} : relied'[m] = relied[m]
         /\ relied'[n] = Unknown
    BY <2>4, <2>5, <2>6, <2>7, <2>8, <2>9
  <2>11. t.mode = "read" => t.ahead \in {<<>>, SubSeq(disk[n], t.pos + 1, Len(disk[n]))}
    BY <2>1, <2>5 DEF FilesInv, OpenStreamsAgree, Agrees
  <2>. QED BY <2>1, <2>3, <2>4, <2>10, <2>11, StreamMoves
<1>3. CASE ~NotOpen(v) /\ Writes(v)
  <2>1. PICK n, t, s, d, r, q :
            /\ n = name[v] /\ t = stream[v] /\ s = StreamAfter(v) /\ d = DiskAfter(v)
            /\ r = relied[n] /\ q = Position(v)
    OBVIOUS
  <2>2. DEFINE cut(f) == [k \in 1 .. q |-> IF k <= Len(f) THEN f[k] ELSE Hole]
  <2>3. PICK b : b = IF r \in {Unknown, NoFile} THEN relied ELSE [relied EXCEPT ![n] = cut(r)]
    OBVIOUS
  <2>4. /\ stream' = [stream EXCEPT ![v] = s] /\ disk' = [d EXCEPT ![n] = cut(d[n])]
        /\ name' = name /\ relied' = Doubt(v, 0, Unreported(v, b))
    BY <1>3, <2>1, <2>3 DEF Truncate
  <2>5. /\ stream \in [FileVars -> Streams] /\ relied \in [FileNames -> Seq(Cells) \cup Unsure]
    BY DEF FilesInv, FilesTyped
  <2>6. /\ n \in FileNames /\ q \in Nat
        /\ d \in [FileNames -> Seq(Cells) \cup {NoFile}] /\ d[n] \in Seq(Cells)
        /\ \A m \in FileNames \ {n} : d[m] = disk[m]
        /\ t.pending = <<>> \/ Fits(v) => d[n] = Promised(disk[n], t)
        /\ s \in Streams /\ s.mode = t.mode /\ s.pending = <<>>
    BY <1>3, <2>1, DrainingKeeps
  <2>7. /\ r # NoFile
        /\ r \notin Unsure => r = Promised(disk[n], t)
    BY <1>3, <2>1, WritersKeep
  <2>8. \A f \in Seq(Cells) : cut(f) \in Seq(Cells)
    <3>1. SUFFICES ASSUME NEW f \in Seq(Cells) PROVE cut(f) \in Seq(Cells)
      OBVIOUS
    <3>2. \A k \in 1 .. q : (IF k <= Len(f) THEN f[k] ELSE Hole) \in Cells
      BY <2>6 DEF Cells
    <3>3. cut(f) \in [1 .. q -> Cells]
      BY <3>2
    <3>. QED BY <2>6, <3>3
  <2>. HIDE DEF cut
  <2>9. r \in Seq(Cells) \cup Unsure
    BY <2>1, <2>5, <2>6
  <2>10. /\ b \in [FileNames -> Seq(Cells) \cup Unsure]
         /\ \A m \in FileNames \ {n} : b[m] = relied[m]
         /\ b[n] # NoFile
         /\ b[n] \notin Unsure => r \notin Unsure /\ b[n] = cut(r)
    <3>1. CASE r \in Unsure
      BY <2>1, <2>3, <2>5, <2>7, <3>1 DEF Unsure
    <3>2. CASE r \notin Unsure
      <4>1. cut(r) \in Seq(Cells)
        BY <2>8, <2>9, <3>2
      <4>2. b = [relied EXCEPT ![n] = cut(r)]
        BY <2>3, <3>2 DEF Unsure
      <4>. QED BY <2>5, <2>6, <3>2, <4>1, <4>2, MarksAreNotContents
    <3>. QED BY <3>1, <3>2
  <2>11. PICK c : c = Unreported(v, b)
    OBVIOUS
  <2>12. c = IF t.pending # <<>> /\ ~Fits(v) THEN [b EXCEPT ![n] = Unknown] ELSE b
    BY <1>3, <2>1, <2>11 DEF Unreported
  <2>13. relied' = c
    BY <2>4, <2>11 DEF Doubt
  <2>14. Unknown \in Unsure
    BY DEF Unsure
  <2>15. /\ relied' \in [FileNames -> Seq(Cells) \cup Unsure]
         /\ \A m \in FileNames \ {n} : relied'[m] = relied[m]
         /\ relied'[n] # NoFile
         /\ relied'[n] \notin Unsure => r \notin Unsure /\ relied'[n] = cut(r) /\ (t.pending = <<>> \/ Fits(v))
    BY <2>6, <2>10, <2>12, <2>13, <2>14, MarksDiffer
  <2>16. /\ disk' \in [FileNames -> Seq(Cells) \cup {NoFile}] /\ disk'[n] = cut(d[n])
         /\ \A m \in FileNames \ {n} : disk'[m] = disk[m]
         /\ disk'[n] \in Seq(Cells)
    <3>1. cut(d[n]) \in Seq(Cells)
      BY <2>6, <2>8
    <3>. QED BY <2>4, <2>6, <3>1
  <2>17. Writing(s) /\ Promised(disk'[n], s) = disk'[n]
    BY <1>3, <2>1, <2>6 DEF Writes, Writing, Promised
  <2>18. relied'[n] \notin Unsure => relied'[n] = Promised(disk'[n], s)
    BY <2>6, <2>7, <2>15, <2>16, <2>17
  <2>19. /\ stream' \in [FileVars -> Streams] /\ stream'[v] = s
         /\ \A w \in FileVars \ {v} : stream'[w] = stream[w]
    BY <2>4, <2>5, <2>6
  <2>. QED BY <1>3, <2>1, <2>4, <2>6, <2>15, <2>16, <2>17, <2>18, <2>19, WriterMoves
<1>. QED BY <1>1, <1>2, <1>3

----------------------------------------------------------------------------
(* Every call of a program.                                                *)

LEMMA FilesStep == FilesInv /\ [FilesNext]_fileState => FilesInv'
<1>1. SUFFICES ASSUME FilesInv, [FilesNext]_fileState PROVE FilesInv'
  OBVIOUS
<1>2. CASE IoResult \/ UNCHANGED fileState
  <2>1. disk' = disk /\ name' = name /\ stream' = stream /\ relied' = relied
    BY <1>2 DEF IoResult, fileState
  <2>2. FilesTyped' /\ FilesAreKnown'
    BY <1>1, <2>1 DEF FilesInv, FilesTyped, FilesAreKnown
  <2>3. OpenStreamsAgree' /\ WritersAreAlone'
    BY <1>1, <2>1 DEF FilesInv, OpenStreamsAgree, WritersAreAlone, IsOpen, Writes
  <2>4. ClosedFilesAreComplete'
    BY <1>1, <2>1 DEF FilesInv, ClosedFilesAreComplete, Known, Writes
  <2>. QED BY <2>2, <2>3, <2>4 DEF FilesInv
<1>3. CASE \E v \in FileVars : \E n \in FileNames : Assign(v, n)
  BY <1>1, <1>3, Assigning
<1>4. CASE \E v \in FileVars : Reset(v) \/ Rewrite(v) \/ AppendTo(v)
  BY <1>1, <1>4, Resetting, Rewriting, Appending
<1>5. CASE \E v \in FileVars : Close(v)
  BY <1>1, <1>5, Closing DEF Close
<1>6. CASE \E v \in FileVars : \E x \in Records : Write(v, x)
  BY <1>1, <1>6, WritingRecords
<1>7. CASE \E v \in FileVars : ReadLn(v) \/ BlockRead(v) \/ Eof(v)
  BY <1>1, <1>7, ReadingLines, ReadingBlocks, AskingForTheEnd
<1>8. CASE \E v \in FileVars : \E p \in 0 .. MaxRecords - 1 : Seek(v, p)
  <2>1. \A p \in 0 .. MaxRecords - 1 : p \in Nat
    OBVIOUS
  <2>. QED BY <1>1, <1>8, <2>1, Seeking
<1>9. CASE \E v \in FileVars : Truncate(v)
  BY <1>1, <1>9, Truncating
<1>. QED BY <1>1, <1>2, <1>3, <1>4, <1>5, <1>6, <1>7, <1>8, <1>9 DEF FilesNext

LEMMA FilesStart == FilesInit => FilesInv
<1>1. SUFFICES ASSUME FilesInit PROVE FilesInv
  OBVIOUS
<1>2. FilesTyped
  BY <1>1, StreamsToOpen DEF FilesInit, FilesTyped, Unsure
<1>3. \A v \in FileVars : ~IsOpen(v) /\ ~Writes(v)
  BY <1>1, StreamsToOpen DEF FilesInit, IsOpen, Writes
<1>4. \A n \in FileNames : disk[n] = NoFile /\ relied[n] = NoFile
  BY <1>1 DEF FilesInit
<1>. QED BY <1>2, <1>3, <1>4 DEF FilesInv, OpenStreamsAgree, WritersAreAlone, FilesAreKnown,
                                 ClosedFilesAreComplete, Known

\* A file holds what the calls on it reported as written, once it is closed,
\* and a reader has the rest of it ahead (p_close, p_blockwrite, p_truncate,
\* p_seek, p_eof).
THEOREM FilesCorrect == FilesSpec => []FilesKeepWhatWasWritten
<1>1. FilesInit => FilesInv
  BY FilesStart
<1>2. FilesInv /\ [FilesNext]_fileState => FilesInv'
  BY FilesStep
<1>3. FilesInv => FilesKeepWhatWasWritten
  BY ReadersHaveTheRest DEF FilesInv, FilesKeepWhatWasWritten
<1>. QED BY <1>1, <1>2, <1>3, PTL DEF FilesSpec

-----------------------------------------------------------------------------
(***************************************************************************)
(* Both parts in one program.                                              *)
(***************************************************************************)
\* A program that is busy with strings or with files sees its long strings
\* as values, finds the strings of early allocators until the end, and reads
\* back what it wrote.
THEOREM LibraryCorrect ==
  LibrarySpec => /\ LongStringsAreValues
                 /\ []EarlyAllocatorsFindStrings
                 /\ []FilesKeepWhatWasWritten
<1>1. LibraryInit => TeardownInit /\ FilesInit
  BY DEF LibraryInit
<1>2. [LibraryNext]_<<part, teardownVars, fileState>>
        => [TeardownNext]_teardownVars /\ [FilesNext]_fileState
  BY DEF LibraryNext
<1>3. LibrarySpec => TeardownSpec /\ FilesSpec
  BY <1>1, <1>2, PTL DEF LibrarySpec, TeardownSpec, FilesSpec
<1>. QED BY <1>3, StringsAreValuesCorrect, EarlyAllocatorsCorrect, FilesCorrect

=============================================================================
