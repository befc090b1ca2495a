--------------------------- MODULE RuntimeValues ---------------------------
(***************************************************************************)
(* A program that calls the runtime: one operation on strings, sets, texts *)
(* or times from every storage state those can be in, or any sequence of   *)
(* operations on dynamic arrays, or of programs run and directories        *)
(* searched.                                                               *)
(***************************************************************************)
EXTENDS ShortStrings, PascalSets, TextValues, DynArrays, Processes

CONSTANTS Chars,               \* the characters of short strings; 0 is NUL
          Small, Large,        \* two capacities of strings
          TextChars, MaxText,  \* the characters and the length of other texts
          PathChars,
          IntTypes,            \* types of integer variables
          Carriers,            \* what the element types of sets are in C++
          Code,                \* the order of characters, for comparisons without case
          Years                \* the years of file times

ASSUME CharsAssumption == Chars \subseteq Nat
ASSUME CapacitiesAssumption == {Small, Large} \subseteq 0 .. Classic
ASSUME CarriersAssumption == Carriers \subseteq [signed : BOOLEAN, size : Nat \ {0}]

VARIABLES part,                \* what the program is busy with
          call                 \* the operation it made, with its operands and result

valueVars == <<part, call, arrayVars, dosVars>>

Idle == [op |-> "none"]
Work == {"strings", "buffers", "sets", "numbers", "texts", "times", "arrays", "dos"}

Init == part \in Work /\ call = Idle /\ ArraysInit
        /\ IF part = "dos" THEN DosInit ELSE DosInit /\ files = {}

Counts == -1 .. Large + 1
Strings == Objects(Small, Chars) \cup Objects(Large, Chars)
CharArrays == UNION {[1 .. m -> Chars] : m \in {Small, Large}}

StringCall ==
  \E d, s \in Strings :
    \/ call' = [op |-> "assign", d |-> d, s |-> s, result |-> Assign(d, s)]
    \/ call' = [op |-> "assign", d |-> d, s |-> s, result |-> shortstring_assign(d, Value(s))]
    \/ call' = [op |-> "concat", d |-> d, s |-> s, result |-> concat(d, s)]
    \/ call' = [op |-> "compare", d |-> d, s |-> s, equal |-> equal(d, s), less |-> less(d, s),
                greater |-> less(s, d), pos |-> pos(Value(s), Value(d))]
InsertCall ==
  \E d, s \in Strings, at \in Counts : \E same \in {FALSE, d = s} :
    call' = [op |-> "insert", d |-> d, s |-> s, at |-> at, same |-> same,
             result |-> insert(s, d, at, same)]
(* The second delete goes through a reference: a copy is changed and assigned
   back. *)
SubstringCall ==
  \E s \in Strings, at, n \in Counts :
    \/ call' = [op |-> "copy", s |-> s, at |-> at, n |-> n, result |-> copy(s, at, n)]
    \/ call' = [op |-> "delete", s |-> s, at |-> at, n |-> n, result |-> delete(s, at, n)]
    \/ call' = [op |-> "delete", s |-> s, at |-> at, n |-> n,
                result |-> BackThrough(s, delete(copy_of_ref(s, N(s)), at, n))]
    \/ /\ at = 1
       /\ call' = [op |-> "setlength", s |-> s, n |-> n, result |-> setlength(s, n)]
    \/ /\ at \in 0 .. N(s) /\ n \in Chars /\ n <= N(s)
       /\ call' = [op |-> "store", s |-> s, at |-> at, c |-> n, result |-> Stored(s, at, n),
                   read |-> CharAt(Stored(s, at, n), at)]
BufferCall ==
  \E s \in Strings, arr \in CharArrays :
    \/ call' = [op |-> "to_array", s |-> s, m |-> Len(arr), result |-> array_of_string(Len(arr), s)]
    \/ \E lo \in {0, 1} :
         call' = [op |-> "from_array", s |-> s, arr |-> arr, lo |-> lo, result |-> string_of_array(s, lo, arr)]
    \/ call' = [op |-> "equals_array", s |-> s, arr |-> arr, result |-> array_equals_string(arr, s)]
    \/ call' = [op |-> "strpas", s |-> s, arr |-> arr, result |-> of_pchar(N(s), Append(arr, 0)),
                length |-> strlen(Append(arr, 0))]
    \/ \E n \in -1 .. Len(arr) :
         call' = [op |-> "setstring", s |-> s, arr |-> arr, n |-> n, result |-> setstring(s, arr, n)]
    \/ call' = [op |-> "readln", s |-> s, arr |-> arr, result |-> readln(s, arr)]
    \/ /\ Len(arr) > s.length
       /\ call' = [op |-> "strpcopy", s |-> s, arr |-> arr, result |-> strpcopy(arr, s),
                   order |-> strcomp(strpcopy(arr, s), Append(arr, 0))]

Widest == Carrier(TRUE, 2 * Capacity)    \* a type that has every number of a set
Domains == {[low |-> l, high |-> h] : l, h \in 0 .. Capacity - 1}
SetCall ==
  \/ \E a, b \in Bitmaps :
       call' = [op |-> "sets", a |-> a, b |-> b, union |-> union(a, b), difference |-> difference(a, b),
                intersection |-> intersection(a, b), symmetric |-> symmetric_difference(a, b),
                equal |-> set_equal(a, b), subset |-> subset(a, b), number |-> set_to_int(a, Nb)]
  \/ \E a \in Bitmaps, c \in Carriers, v \in -Capacity .. Capacity :
       call' = [op |-> "member", a |-> a, c |-> c, v |-> v, include |-> include(a, c, v),
                exclude |-> exclude(a, c, v), contains |-> contains(a, c, v)]
  \/ \E c \in Carriers, v, low, high \in 0 .. Capacity - 1 :
       call' = [op |-> "literal", c |-> c, v |-> v, low |-> low, high |-> high,
                result |-> literal(c, v, low, high)]
  \/ \E a, b \in Bitmaps, l, r \in Domains :
       /\ Members(a) \subseteq l.low .. l.high /\ Members(b) \subseteq r.low .. r.high
       /\ LET d == result_domain(l, r)
          IN call' = [op |-> "loop", a |-> a, b |-> b,
                      visited |-> Iterated(union(a, b), Widest, d.low, d.high)]

TextsOf(chars, m) == UNION {[1 .. n -> chars] : n \in 0 .. m}
Longest == [signed |-> FALSE, bits |-> 5]
NumberCall ==
  \/ \E text \in TextsOf(TextChars, MaxText), t \in IntTypes :
       call' = [op |-> "val", text |-> text, t |-> t, result |-> p_val(text, t, Longest)]
  \/ \E t \in IntTypes, v \in -2 ^ 4 .. 2 ^ 5 - 1, n \in 1 .. 4 :
       /\ IF t.signed THEN -2 ^ (t.bits - 1) <= v /\ v < 2 ^ (t.bits - 1) ELSE 0 <= v /\ v < 2 ^ t.bits
       /\ call' = [op |-> "str", v |-> v, t |-> t, n |-> n,
                   decimal |-> p_val(p_str(v), t, Longest),
                   hex |-> p_val(<<"$">> \o p_hexstr(v, t.bits, n), t, Longest),
                   octal |-> p_val(<<"&">> \o p_octstr(v, t.bits, n), t, Longest)]

(* A command line that quotes each argument, in one of three ways. *)
Quoted(arg, how) ==
    CASE how = "escape" -> FlattenSeq([i \in DOMAIN arg |-> <<"\\", arg[i]>>])
      [] how = "single" -> <<"'">> \o arg \o <<"'">>
      [] OTHER -> <<"q">> \o FlattenSeq([i \in DOMAIN arg |-> IF arg[i] \in {"q", "\\"} THEN <<"\\", arg[i]>>
                                                             ELSE <<arg[i]>>]) \o <<"q">>
ArgumentChars == {"a", " ", "'", "q", "\\"}
CanBeQuoted(arg, how) == how = "single" => "'" \notin ToSet(arg)
CommandLine(args, how) == FlattenSeq([i \in DOMAIN args |-> Quoted(args[i], how) \o <<" ">>])
CommandCall ==
  \E args \in TextsOf(TextsOf(ArgumentChars, 2), 2), how \in {"escape", "single", "double"} :
    /\ \A i \in DOMAIN args : CanBeQuoted(args[i], how)
    /\ call' = [op |-> "command", args |-> args, result |-> split_commandline(CommandLine(args, how))]
ExpandedChars == {"a", "/", ".", "~"}
Here == <<"/", "c", "/", "d">>
Homes == {<<>>, <<"/", "b">>}
NewExtension == <<".", "c">>
PathCall ==
  \/ \E path \in TextsOf(PathChars, MaxText) :
       call' = [op |-> "path", path |-> path, parts |-> split_path(path), old |-> p_fsplit(path),
                dir |-> p_extractfiledir(path), name |-> p_extractfilename(path),
                changed |-> p_changefileext(path, NewExtension), slashed |-> p_setdirseparators(path),
                delimited |-> p_includetrailingpathdelimiter(p_extractfilepath(path))]
  \/ \E path \in TextsOf(ExpandedChars, MaxText), home \in Homes :
       call' = [op |-> "expand", path |-> path, home |-> home,
                result |-> p_fexpand(path, Here, home)]
CaseCall ==
  \E a, b \in TextsOf({"a", "A", "b", "B", "0"}, 2) :
    call' = [op |-> "case", a |-> a, b |-> b, result |-> p_comparetext(a, b, Code),
             upper |-> [i \in DOMAIN a |-> p_upcase(a[i])]]

MonthDays(y, m) == CASE m \in {4, 6, 9, 11} -> 30
                     [] m = 2 -> IF y % 4 = 0 /\ (y % 100 # 0 \/ y % 400 = 0) THEN 29 ELSE 28
                     [] OTHER -> 31
Clocks == {[hour |-> 0, minute |-> 0, second |-> 0], [hour |-> 12, minute |-> 30, second |-> 29],
           [hour |-> 23, minute |-> 59, second |-> 59]}
TimeCall ==
  \E y \in Years, m \in 1 .. 12, c \in Clocks : \E d \in 1 .. MonthDays(y, m) :
    LET t == [year |-> y, month |-> m, day |-> d, hour |-> c.hour, minute |-> c.minute, second |-> c.second]
        p == pack(t)
        days == days_from_civil(y, m, d)
    IN call' = [op |-> "time", t |-> t, unpacked |-> p_unpacktime(p), settable |-> p_setftime(p),
                got |-> p_getftime(p), decoded |-> decode_tdatetime(p_filedatetodatetime(p)),
                today |-> civil_from_days(days), tomorrow |-> civil_from_days(days + 1)]

Call(what, action) == part = what /\ call = Idle /\ action /\ UNCHANGED <<part, arrayVars, dosVars>>
Next ==
  \/ Call("strings", StringCall) \/ Call("strings", InsertCall) \/ Call("strings", SubstringCall)
  \/ Call("buffers", BufferCall)
  \/ Call("sets", SetCall)
  \/ Call("numbers", NumberCall)
  \/ Call("texts", CommandCall) \/ Call("texts", PathCall) \/ Call("texts", CaseCall)
  \/ Call("times", TimeCall)
  \/ part = "arrays" /\ ArraysNext /\ UNCHANGED <<part, call, dosVars>>
  \/ part = "dos" /\ DosNext /\ UNCHANGED <<part, call, arrayVars>>

Spec == Init /\ [][Next]_valueVars
----------------------------------------------------------------------------
(* The order of texts, and the parts of a text, said without an algorithm. *)
Part(text, a, b) == SubSeq(text, a, Least(b, Len(text)))
Cut(text, n) == Part(text, 1, n)
Padded(text, n) == [i \in 1 .. n |-> IF i <= Len(text) THEN text[i] ELSE 0]
Before(x, y) ==
  \E k \in 0 .. Least(Len(x), Len(y)) :
    /\ SubSeq(x, 1, k) = SubSeq(y, 1, k)
    /\ k < Len(y) /\ (k = Len(x) \/ x[k + 1] < y[k + 1])
Inserted(s, d, at) ==
    LET place == Within(at, 1, Len(d) + 1) IN SubSeq(d, 1, place - 1) \o s \o SubSeq(d, place, Len(d))
Deleted(text, at, n) == SubSeq(text, 1, Least(at - 1, Len(text))) \o SubSeq(text, at + n, Len(text))

(* The value of a string is a text, and each operation returns the text it
   means, cut at the capacity of the string that holds it, whatever longer
   values left behind in the operands' storage; comparisons order the texts.
   An insertion that does not fit, or of a string into itself, is left out: the
   tail of the first is moved by what the string grows, and the second is read
   after it was moved.  (tp2cc_ShortString, p_copy, p_delete, p_setlength, p_pos.) *)
StringsHoldTheirText ==
  /\ call.op = "assign" => Value(call.result) = Cut(Value(call.s), N(call.d)) /\ N(call.result) = N(call.d)
  /\ call.op = "concat" => Value(call.result) = Cut(Value(call.d) \o Value(call.s), Classic)
  /\ call.op = "compare" =>
       LET d == Value(call.d) s == Value(call.s)
       IN /\ call.equal = (d = s) /\ call.less = Before(d, s) /\ call.greater = Before(s, d)
          /\ IF call.pos = 0 THEN \A i \in 1 .. Len(d) + 1 : Part(d, i, i + Len(s) - 1) # s
             ELSE d = Part(d, 1, call.pos - 1) \o s \o SubSeq(d, call.pos + Len(s), Len(d))
  /\ call.op = "insert" /\ ~call.same /\ call.d.length + call.s.length <= N(call.d) =>
       Value(call.result) = Inserted(Value(call.s), Value(call.d), call.at)
  /\ call.op = "copy" =>
       LET at == Greatest(call.at, 1)
       IN Value(call.result) = SubSeq(Value(call.s), at, Least(at + call.n - 1, call.s.length))
  /\ call.op = "delete" =>
       Value(call.result) = IF call.at < 1 \/ call.n < 1 THEN Value(call.s)
                            ELSE Deleted(Value(call.s), call.at, call.n)
  /\ call.op = "setlength" => Value(call.result) = Padded(Value(call.s), Within(call.n, 0, N(call.s)))
  /\ call.op = "store" => call.read = call.c

(* A text goes into an array of characters, a buffer or a PChar and back without
   loss but for what does not fit and what follows a NUL; an array of characters
   equals the strings it would be filled from.
   (tp2cc_Array::operator=, tp2cc_set_shortstring_from_counted_chars, p_strpas,
   p_strpcopy, p_strcomp, p_readln.) *)
BuffersHoldTheText ==
  LET text == Value(call.s)
      ends(t) == t # <<>> /\ t[Len(t)] = 0
      free(t, n) == n <= Len(t) /\ 0 \notin ToSet(SubSeq(t, 1, n)) /\ (n = Len(t) \/ t[n + 1] = 0)
  IN part = "buffers" /\ call # Idle =>
     /\ call.op = "to_array" =>
          /\ call.result = Padded(text, call.m)
          /\ (0 \notin ToSet(text) => Value(string_of_array(call.s, 0, call.result)) = Cut(text, call.m))
     /\ call.op = "from_array" =>
          IF call.lo = 1 THEN Value(call.result) = Cut(call.arr, N(call.s))
          ELSE free(Cut(call.arr, N(call.s)), call.result.length) /\ Value(call.result) = Cut(call.arr, call.result.length)
     /\ call.op = "equals_array" =>
          (~ends(text) => call.result = (Len(text) <= Len(call.arr) /\ call.arr = Padded(text, Len(call.arr))))
     /\ call.op = "strpas" =>
          /\ free(call.arr, call.length)
          /\ Value(call.result) = Cut(SubSeq(call.arr, 1, call.length), N(call.s))
     /\ call.op = "setstring" => Value(call.result) = Cut(Part(call.arr, 1, call.n), N(call.s))
     /\ call.op = "readln" => Value(call.result) = Cut(call.arr, N(call.s))
     /\ call.op = "strpcopy" =>
          LET t == SubSeq(text, 1, strlen(call.result)) a == SubSeq(call.arr, 1, strlen(Append(call.arr, 0)))
          IN free(text, Len(t)) /\ call.order = IF t = a THEN 0 ELSE IF Before(t, a) THEN -1 ELSE 1

(* No operation on strings and buffers shows what a longer value left behind in
   their storage: the two above. (tp2cc_ShortString, tp2cc_Array.) *)
TextIsWithinItsLength == StringsHoldTheirText /\ BuffersHoldTheText

(* A bitmap is the set of its members under every operation, a member of the
   element type is found, added and taken out as itself and no other, a literal
   has the members it lists, and a loop over the result of an operation on sets
   of different ranges visits every member of it.  A number outside the element
   type is converted to it first, and finds another member.
   (tp2cc_Set, bind_set_binary_operation, emit_for_in_builtin_set.) *)
SetsAreSets ==
  /\ call.op = "sets" =>
       LET A == Members(call.a) B == Members(call.b)
       IN /\ Members(call.union) = A \cup B /\ Members(call.difference) = A \ B
          /\ Members(call.intersection) = A \cap B /\ Members(call.symmetric) = (A \ B) \cup (B \ A)
          /\ call.equal = (A = B) /\ call.subset = (A \subseteq B)
  /\ call.op = "member" /\ idx(call.c, call.v) = call.v =>
       LET A == Members(call.a)
       IN /\ call.contains = (call.v \in A)
          /\ Members(call.include) = A \cup ({call.v} \cap 0 .. Capacity - 1)
          /\ Members(call.exclude) = A \ {call.v}
  /\ call.op = "literal" /\ (\A v \in {call.v, call.low, call.high} : idx(call.c, v) = v) =>
       Members(call.result) = {call.v} \cup call.low .. call.high
  /\ call.op = "loop" => call.visited = Members(call.a) \cup Members(call.b)

(* What is a number of a type: blanks, a sign, a radix, digits. *)
Beginnings(text) ==
  {b \in (0 .. Len(text)) \X {<<>>, <<"+">>, <<"-">>} \X {<<>>, <<"$">>, <<"&">>, <<"%">>} :
     /\ Cut(text, b[1] + Len(b[2] \o b[3])) = Cut(text, b[1]) \o b[2] \o b[3]
     /\ \A k \in 1 .. b[1] : text[k] \in Blank}
Numerals(text, t) ==                           \* the numbers the text stands for: one or none
  UNION {LET sign == b[2]
             digits == Rest(text, b[1] + Len(sign \o b[3]) + 1)
             base == IF b[3] = <<>> THEN 10 ELSE Radix[b[3][1]]
             size == FoldLeft(LAMBDA v, c : v * base + Digit[c], 0, digits)
         IN {n \in IF digits # <<>> /\ \A k \in DOMAIN digits : digits[k] \in DOMAIN Digit /\ Digit[digits[k]] < base
                   THEN {IF sign = <<"-">> THEN -size ELSE size} ELSE {} :
               /\ sign = <<"-">> => t.signed
               /\ IF b[3] = <<>> /\ t.signed THEN -2 ^ (t.bits - 1) <= n /\ n < 2 ^ (t.bits - 1)
                  ELSE size < 2 ^ t.bits} : b \in Beginnings(text)}
Viable(text, t) == Numerals(text, t) # {} \/ Numerals(Append(text, "0"), t) # {}

(* val reads a text exactly when it is a number of the variable's type, and
   otherwise names the first character with which no such number begins (for a
   type as wide as the one it parses; a narrower unsigned one is blamed on the
   whole text).  It reads back every number str, hexstr and octstr write.  A set
   as a number has a bit for each member.
   (tp2cc_parse_pascal_integer, p_val, p_str, p_hexstr, p_octstr, tp2cc_set_to_int.) *)
NumbersAreReadExactly ==
  /\ call.op = "sets" =>
       \A v \in 0 .. Capacity - 1 : ((call.number \div 2 ^ v) % 2 = 1) = (v \in Members(call.a))
  /\ call.op = "val" =>
       LET text == call.text t == call.t r == call.result
       IN IF r.code = 0
          THEN \E n \in Numerals(text, t) : (r.value - n) % 2 ^ t.bits = 0 /\ r.value < 2 ^ t.bits
          ELSE /\ Numerals(text, t) = {} /\ r.value = 0
               /\ t.signed \/ (t.bits = Longest.bits /\ "-" \notin ToSet(text)) =>
                    /\ \A k \in 1 .. r.code - 1 : Viable(SubSeq(text, 1, k), t)
                    /\ r.code <= Len(text) => ~Viable(SubSeq(text, 1, r.code), t)
  /\ call.op = "str" =>
       /\ call.decimal = Parsed(call.v, 0) /\ call.octal = Parsed(call.v, 0)
       /\ 16 ^ call.n >= 2 ^ call.t.bits => call.hex = Parsed(call.v, 0)

(* Quoted arguments arrive as they were, except that empty ones are dropped; a
   path falls into directory, name and extension and is their concatenation; an
   expanded path is absolute, without dots, and expands to itself; comparisons
   without case order the texts.  (tp2cc_split_commandline, tp2cc_split_path,
   p_fsplit, p_changefileext, p_fexpand, p_comparetext.) *)
TextsComeApartAndTogether ==
  /\ call.op = "command" => call.result = SelectSeq(call.args, LAMBDA a : a # <<>>)
  /\ call.op = "path" =>
       LET p == call.parts changed == split_path(call.changed)
       IN /\ p.dir \o call.name = call.path /\ call.name = p.name \o p.ext
          /\ ToSet(call.name) \cap {"/", "\\"} = {} /\ "." \notin ToSet(Rest(p.ext, 2))
          /\ call.old.dir \o call.old.name \o call.old.ext = call.slashed
          /\ p.name # <<>> => changed = [p EXCEPT !.ext = NewExtension]
          /\ call.dir \in {p.dir, Cut(p.dir, Len(p.dir) - 1)}
          /\ p.dir # <<>> => split_path(call.delimited).dir = call.delimited
  /\ call.op = "expand" =>
       LET comps == Components(call.result)
       IN /\ call.result[1] = "/" /\ ToSet(comps) \cap {<<".">>, <<".", ".">>} = {}
          /\ p_fexpand(call.result, <<"/", "b">>, call.home) = call.result
          /\ "." \notin ToSet(call.path) /\ call.path # <<>> /\ call.path[1] \notin {"/", "~"} =>
               comps = << <<"c">>, <<"d">> >> \o Components(call.path)
  /\ call.op = "case" =>
       LET x == [i \in DOMAIN call.a |-> Code[p_lowercase(call.a[i])]]
           y == [i \in DOMAIN call.b |-> Code[p_lowercase(call.b[i])]]
       IN /\ call.result = IF Before(x, y) THEN -1 ELSE IF Before(y, x) THEN 1 ELSE 0
          /\ [i \in DOMAIN call.upper |-> p_lowercase(call.upper[i])] = [i \in DOMAIN call.a |-> p_lowercase(call.a[i])]

(* A time packed for a file is unpacked, set, read and turned into a TDateTime
   and back as it was, to two seconds; day numbers follow the calendar.  A file
   time from 2044 on is negative, and getftime reports an error.
   (tp2cc_pack_local_tm_as_dos_filetime, p_unpacktime, p_getftime,
   tp2cc_days_from_civil, tp2cc_civil_from_days.) *)
TimesAreKept ==
  call.op = "time" =>
    LET t == call.t even == [t EXCEPT !.second = @ - (@ % 2)]
        nextMonth == IF t.month = 12 THEN [year |-> t.year + 1, month |-> 1, day |-> 1]
                     ELSE [year |-> t.year, month |-> t.month + 1, day |-> 1]
        today == [year |-> t.year, month |-> t.month, day |-> t.day]
    IN /\ call.unpacked = even /\ call.decoded = even /\ call.settable
       /\ t.year < 2044 <=> call.got.ok
       /\ call.today = today
       /\ call.tomorrow = IF t.day = MonthDays(t.year, t.month) THEN nextMonth ELSE [today EXCEPT !.day = @ + 1]

(* What the runtime writes as text or as a packed time it reads back, and it reads
   nothing else: the three above. (p_val, p_str, tp2cc_split_commandline,
   tp2cc_split_path, tp2cc_pack_local_tm_as_dos_filetime.) *)
ConversionsRoundTrip == NumbersAreReadExactly /\ TextsComeApartAndTogether /\ TimesAreKept

----------------------------------------------------------------------------
(* Values of the constants for a run: strings of 2 and 3 characters, of two
   kinds, in a runtime whose longest has 4; sets of two bytes of two bits;
   numbers of 3, 4 and 5 bits; texts of up to four characters; the years about
   the two century rules, the last that the sign of a packed time leaves alone,
   and the last there is. *)
MCIntTypes == {[signed |-> TRUE, bits |-> 4], [signed |-> FALSE, bits |-> 3], [signed |-> FALSE, bits |-> 5]}
MCCarriers == {Carrier(FALSE, 4), Carrier(TRUE, 4), Carrier(TRUE, 16)}
MCPathChars == {"a", ".", "/", "\\", ":"}
MCCode == ("0" :> 0) @@ ("A" :> 1) @@ ("B" :> 2) @@ ("a" :> 3) @@ ("b" :> 4)
MCYears == {1980, 1999, 2000, 2023, 2024, 2043, 2044, 2100, 2107}
MCEnds == {Exits(0), Exits(3), Exits(127), Killed(9), NotStarted(2), NotWaitedFor(10)}
============================================================================
