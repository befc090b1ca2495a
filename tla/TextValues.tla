----------------------------- MODULE TextValues -----------------------------
(***************************************************************************)
(* Operations of the runtime on the characters of a text: numbers in it,   *)
(* command lines, file paths, letter case, and on file times.  A text is a *)
(* sequence of one-character strings.                                      *)
(***************************************************************************)
EXTENDS Integers, Sequences, SequencesExt

Digit == [c \in {"0", "1", "2", "3", "4", "5", "6", "7", "8", "9", "A", "B", "C", "D", "E", "F"} |->
            CASE c = "0" -> 0 [] c = "1" -> 1 [] c = "2" -> 2 [] c = "3" -> 3 [] c = "4" -> 4
              [] c = "5" -> 5 [] c = "6" -> 6 [] c = "7" -> 7 [] c = "8" -> 8 [] c = "9" -> 9
              [] c = "A" -> 10 [] c = "B" -> 11 [] c = "C" -> 12 [] c = "D" -> 13 [] c = "E" -> 14
              [] OTHER -> 15]
Numeral(d) == CHOOSE c \in DOMAIN Digit : Digit[c] = d
digit_value(c) == IF c \in DOMAIN Digit THEN Digit[c] ELSE -1
Blank == {" ", "tab"}
Radix == [c \in {"$", "&", "%"} |-> CASE c = "$" -> 16 [] c = "&" -> 8 [] OTHER -> 2]

FirstOf(S) == CHOOSE i \in S : \A j \in S : i <= j
LastOf(S) == CHOOSE i \in S : \A j \in S : i >= j
Rest(s, i) == SubSeq(s, i, Len(s))

----------------------------------------------------------------------------
(* tp2cc_parse_pascal_integer: the value and 0, or 0 and the place of the
   character at which it stopped.  t is the type of the variable. *)
Parsed(value, code) == [value |-> value, code |-> code]
parse_pascal_integer(buf, t) ==
    LET n == Len(buf)
        at(i) == IF i <= n THEN buf[i] ELSE "end"
        signAt == FirstOf({i \in 1 .. n + 1 : at(i) \notin Blank})
        neg == at(signAt) = "-"
        radixAt == IF at(signAt) \in {"+", "-"} THEN signAt + 1 ELSE signAt
        base == IF at(radixAt) \in DOMAIN Radix THEN Radix[at(radixAt)] ELSE 10
        from == IF base = 10 THEN radixAt ELSE radixAt + 1
        most == IF ~t.signed \/ base # 10 THEN 2 ^ t.bits - 1
                ELSE IF neg THEN 2 ^ (t.bits - 1) ELSE 2 ^ (t.bits - 1) - 1
        value[k \in from - 1 .. n] ==            \* of the digits up to k; -1 once one is refused
          IF k < from THEN 0
          ELSE LET d == digit_value(buf[k]) next == value[k - 1] * base + d
               IN IF value[k - 1] = -1 \/ d < 0 \/ d >= base \/ next > most THEN -1 ELSE next
        refused == {k \in from .. n : value[k] = -1}
        u == IF neg THEN (-value[n]) % 2 ^ t.bits ELSE value[n]
    IN IF from > n THEN Parsed(0, n + 1)
       ELSE IF ~t.signed /\ neg THEN Parsed(0, from)
       ELSE IF refused # {} THEN Parsed(0, FirstOf(refused))
       ELSE Parsed(IF t.signed /\ u >= 2 ^ (t.bits - 1) THEN u - 2 ^ t.bits ELSE u, 0)

(* val(s, n, code) for a short string and an unsigned variable reads a wider
   number first, and blames the first character when it does not fit. *)
p_val(buf, t, wide) ==
    IF t.signed \/ t.bits = wide.bits THEN parse_pascal_integer(buf, t)
    ELSE LET parsed == parse_pascal_integer(buf, wide)
         IN IF parsed.code # 0 THEN parsed
            ELSE IF parsed.value > 2 ^ t.bits - 1 THEN Parsed(0, 1) ELSE parsed

DigitsOf(v, base) ==                            \* of a number that is not negative
    LET places == {k \in 1 .. 8 : k = 1 \/ base ^ (k - 1) <= v}
        m == LastOf(places)
    IN [i \in 1 .. m |-> Numeral((v \div base ^ (m - i)) % base)]
p_str(v) == IF v < 0 THEN <<"-">> \o DigitsOf(-v, 10) ELSE DigitsOf(v, 10)
(* hexstr gives n digits and drops the ones above them; octstr pads to n. *)
p_hexstr(v, bits, n) == [i \in 1 .. n |-> Numeral(((v % 2 ^ bits) \div 16 ^ (n - i)) % 16)]
p_octstr(v, bits, n) ==
    LET s == DigitsOf(v % 2 ^ bits, 8) IN [i \in 1 .. n - Len(s) |-> "0"] \o s

----------------------------------------------------------------------------
(* tp2cc_split_commandline: one step per character.  quote is "none" or the
   quote that is open. *)
White == {" ", "tab"}
SplitStep(st, c) ==
    LET plain == [st EXCEPT !.cur = Append(@, c)]
    IN IF st.escape THEN [plain EXCEPT !.escape = FALSE]
       ELSE IF st.quote # "'" /\ c = "\\" THEN [st EXCEPT !.escape = TRUE]
       ELSE IF st.quote \in {"'", "q"} /\ c = st.quote THEN [st EXCEPT !.quote = "none"]
       ELSE IF st.quote = "none" /\ c \in {"'", "q"} THEN [st EXCEPT !.quote = c]
       ELSE IF st.quote = "none" /\ c \in White
            THEN [st EXCEPT !.args = IF st.cur = <<>> THEN @ ELSE Append(@, st.cur), !.cur = <<>>]
       ELSE plain
split_commandline(s) ==
    LET end == FoldLeft(SplitStep, [args |-> <<>>, cur |-> <<>>, quote |-> "none", escape |-> FALSE], s)
        cur == IF end.escape THEN Append(end.cur, "\\") ELSE end.cur
    IN IF cur = <<>> THEN end.args ELSE Append(end.args, cur)

----------------------------------------------------------------------------
(* Paths.  The part before a drive's colon, up to the last separator, and from
   the last dot. *)
Letters == {"a", "b", "c"}
Drive(path) == IF Len(path) >= 2 /\ path[1] \in Letters /\ path[2] = ":" THEN 2 ELSE 0
SplitAt(path, separators) ==
    LET ends == {i \in Drive(path) + 1 .. Len(path) : path[i] \in separators}
    IN IF ends = {} THEN Drive(path) ELSE LastOf(ends)
\* Mutant: the extension is what follows the first dot.
DotFirst(leaf) == LET dots == {i \in DOMAIN leaf : leaf[i] = "."} IN IF dots = {} THEN 0 ELSE FirstOf(dots)
Dot(leaf) == LET dots == {i \in DOMAIN leaf : leaf[i] = "."} IN IF dots = {} THEN 0 ELSE LastOf(dots)
Parts(dir, leaf, dot) ==
    [dir |-> dir, name |-> IF dot = 0 THEN leaf ELSE SubSeq(leaf, 1, dot - 1),
     ext |-> IF dot = 0 THEN <<>> ELSE Rest(leaf, dot)]
Slashed(path) == [i \in DOMAIN path |-> IF path[i] = "\\" THEN "/" ELSE path[i]]
p_fsplit(input) ==
    LET path == Slashed(input) at == SplitAt(path, {"/"}) leaf == Rest(path, at + 1)
    IN Parts(SubSeq(path, 1, at), leaf, Dot(leaf))
split_path(path) ==
    LET at == SplitAt(path, {"/", "\\"}) leaf == Rest(path, at + 1) dot == Dot(leaf)
    IN Parts(SubSeq(path, 1, at), leaf, IF dot = 1 THEN 0 ELSE dot)
p_extractfilepath(path) == split_path(path).dir
p_extractfiledir(path) ==
    LET dir == split_path(path).dir
    IN IF Len(dir) > 1 /\ dir[Len(dir)] \in {"/", "\\"} THEN SubSeq(dir, 1, Len(dir) - 1) ELSE dir
p_extractfilename(path) == split_path(path).name \o split_path(path).ext
p_extractfileext(path) == split_path(path).ext
p_changefileext(path, ext) == split_path(path).dir \o split_path(path).name \o ext
p_setdirseparators(path) == Slashed(path)
p_includetrailingpathdelimiter(path) ==
    IF path = <<>> \/ path[Len(path)] = "/" THEN path ELSE Append(path, "/")
p_trim(s) ==
    LET kept == {i \in DOMAIN s : s[i] \notin White}
    IN IF kept = {} THEN <<>> ELSE SubSeq(s, FirstOf(kept), LastOf(kept))

(* fexpand: the text between slashes is a component. *)
Components(path) ==
    LET step(st, c) == IF c # "/" THEN [st EXCEPT !.cur = Append(@, c)]
                       ELSE [out |-> IF st.cur = <<>> THEN st.out ELSE Append(st.out, st.cur), cur |-> <<>>]
    IN FoldLeft(step, [out |-> <<>>, cur |-> <<>>], Append(path, "/")).out
Collapsed(comps) ==
    LET step(out, c) == IF c = <<".">> THEN out
                        ELSE IF c # <<".", ".">> THEN Append(out, c)
                        ELSE IF out = <<>> THEN out ELSE SubSeq(out, 1, Len(out) - 1)
    IN FoldLeft(step, <<>>, comps)
Joined(comps) == IF comps = <<>> THEN <<"/">> ELSE FlattenSeq([i \in DOMAIN comps |-> <<"/">> \o comps[i]])
p_fexpand(path, cwd, home) ==
    LET tilde == home # <<>> /\ path # <<>> /\ path[1] = "~" /\ (Len(path) = 1 \/ path[2] = "/")
        p == IF tilde THEN home \o Rest(path, 2) ELSE path
        absolute == IF p # <<>> /\ p[1] = "/" THEN p ELSE cwd \o <<"/">> \o p
    IN IF path = <<>> THEN cwd ELSE Joined(Collapsed(Components(absolute)))

----------------------------------------------------------------------------
(* Case: "a", "b", "c" have capitals; everything else is its own. *)
Upper == [c \in {"a", "b", "c"} |-> CASE c = "a" -> "A" [] c = "b" -> "B" [] OTHER -> "C"]
p_upcase(c) == IF c \in DOMAIN Upper THEN Upper[c] ELSE c
p_lowercase(c) == IF \E l \in DOMAIN Upper : Upper[l] = c THEN CHOOSE l \in DOMAIN Upper : Upper[l] = c ELSE c
(* comparetext compares letters without their case; code gives a character's
   number. *)
p_comparetext(a, b, code) ==
    LET x == [i \in DOMAIN a |-> code[p_lowercase(a[i])]] y == [i \in DOMAIN b |-> code[p_lowercase(b[i])]]
        differ == {i \in DOMAIN x \cap DOMAIN y : x[i] # y[i]}
    IN IF differ # {} THEN (IF x[FirstOf(differ)] < y[FirstOf(differ)] THEN -1 ELSE 1)
       ELSE IF Len(x) = Len(y) THEN 0 ELSE IF Len(x) < Len(y) THEN -1 ELSE 1

----------------------------------------------------------------------------
(* File times: the DOS format, a 32-bit number of bit fields, and          *)
(* TDateTime, a day number and a part of a day, kept as a record of whole  *)
(* days and milliseconds: the doubles it is made of hold both exactly      *)
(* enough to round to the same millisecond.                                *)

(* The fields of a packed time, from the low bit: place and number of values. *)
Field == [second |-> [at |-> 2 ^ 0, size |-> 32], minute |-> [at |-> 2 ^ 5, size |-> 64],
          hour |-> [at |-> 2 ^ 11, size |-> 32], day |-> [at |-> 2 ^ 16, size |-> 32],
          month |-> [at |-> 2 ^ 21, size |-> 16]]
YearBase == 1980
Quantum == 2                   \* seconds a packed time can tell apart

(* A packed time is negative when its high bit, the year's, is set: TLC's own
   integers have 32 bits, so the year is kept beside the other fields. *)
Packed(year, low) == [year |-> (year - YearBase) % 128, low |-> low]
Negative(p) == p.year >= 64

pack(t) == Packed(t.year, (t.month % 16) * Field.month.at + (t.day % 32) * Field.day.at
                          + (t.hour % 32) * Field.hour.at + (t.minute % 64) * Field.minute.at
                          + ((t.second \div Quantum) % 32) * Field.second.at)
Bits(p, f) == (p.low \div Field[f].at) % Field[f].size
p_unpacktime(p) == [year |-> p.year + YearBase, month |-> Bits(p, "month"), day |-> Bits(p, "day"),
                    hour |-> Bits(p, "hour"), minute |-> Bits(p, "minute"), second |-> Bits(p, "second") * Quantum]
(* What setting a file's time checks; mktime then takes a 31st of June for a
   1st of July. *)
unpack_ok(p) == LET t == p_unpacktime(p)
                IN /\ t.month \in 1 .. 12 /\ t.day \in 1 .. 31
                   /\ t.hour < 24 /\ t.minute < 60 /\ t.second < 60

(* getftime: a packed time that is negative is taken for a failure. *)
Time(ok, p) == [ok |-> ok, packed |-> p]
p_getftime(p) == Time(~Negative(p), p)
p_setftime(p) == unpack_ok(p)

----------------------------------------------------------------------------
(* Days of the civil calendar since 1970, and back.  C++ divides towards zero,
   TLA+ downwards: they agree on the operands here, which the era makes
   positive. *)
days_from_civil(year, month, day) ==
    LET y == IF month <= 2 THEN year - 1 ELSE year
        era == (IF y >= 0 THEN y ELSE y - 399) \div 400
        yoe == y - era * 400
        doy == (153 * (IF month > 2 THEN month - 3 ELSE month + 9) + 2) \div 5 + day - 1
        doe == yoe * 365 + yoe \div 4 - yoe \div 100 + doy
    IN era * 146097 + doe - 719468
civil_from_days(days) ==
    LET z == days + 719468
        era == z \div 146097
        doe == z - era * 146097
        yoe == (doe - doe \div 1460 + doe \div 36524 - doe \div 146096) \div 365
        doy == doe - (365 * yoe + yoe \div 4 - yoe \div 100)
        mp == (5 * doy + 2) \div 153
        month == IF mp < 10 THEN mp + 3 ELSE mp - 9
    IN [year |-> yoe + era * 400 + (IF month <= 2 THEN 1 ELSE 0), month |-> month,
        day |-> doy - (153 * mp + 2) \div 5 + 1]

EpochDays == 25569
MsPerDay == 86400000
make_tdatetime(year, month, day, hour, minute, second) ==
    [days |-> days_from_civil(year, month, day) + EpochDays, ms |-> ((hour * 60 + minute) * 60 + second) * 1000]
(* Rounding the part of a day to milliseconds may reach the next day. *)
decode_tdatetime(t) ==
    LET date == civil_from_days(IF t.ms >= MsPerDay THEN t.days - EpochDays + 1 ELSE t.days - EpochDays)
        ms == IF t.ms >= MsPerDay THEN 0 ELSE t.ms
    IN [year |-> date.year, month |-> date.month, day |-> date.day,
        hour |-> ms \div 3600000, minute |-> (ms % 3600000) \div 60000, second |-> (ms % 60000) \div 1000]
p_filedatetodatetime(p) ==
    LET t == p_unpacktime(p) IN make_tdatetime(t.year, t.month, t.day, t.hour, t.minute, t.second)
============================================================================
