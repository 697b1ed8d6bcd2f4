----------------------------- MODULE MCLibrary -----------------------------
EXTENDS SortSearch, Calendar, Printf, Scanf

\* ------------------------------------------------------------ the calendar

\* Zones by their parts: names, and the sign, hours, minutes and seconds of the offset.
Offsets == {<<"", 5>>, <<"-", 5, 30>>, <<"+", 11, 59, 59>>}
Written(o) == o[1] \o FoldLeft(LAMBDA s, k : s \o (IF k = 2 THEN "" ELSE ":") \o Numeral(o[k], 10, IF k = 2 THEN 1 ELSE 2, Numerals), "", [k \in 1..Len(o) - 1 |-> k + 1])
Secs(o) == (IF o[1] = "-" THEN -1 ELSE 1) * FoldLeft(LAMBDA n, k : n * 60 + IF k \in DOMAIN o THEN o[k] ELSE 0, 0, <<2, 3, 4>>)
Zone(val, offset, std, dst) == [val |-> val, offset |-> offset, std |-> std, dst |-> dst]
Zones ==
  {Zone("AB" \o Written(o), Secs(o), "AB", NoName) : o \in Offsets}
    \cup {Zone("EST" \o Written(o) \o "EDT,M3", Secs(o), "EST", "EDT") : o \in Offsets}
    \cup {Zone("", 0, NoName, NoName), Zone("UTC", 0, "UTC", NoName)}
    \cup {Zone(val, 0, NoName, NoName) : val \in {"A+", "A123", "A1:60", "A-1:001"}}
MCMeant(val) == LET zone == CHOOSE z \in Zones : z.val = val IN zone

\* getenv does not find TZ, but the first other variable whose name has two letters.  Where that one
\* holds the same zone, or there is none and TZ says no more than nothing would, the code has what TZ says.
MCEnvirons ==
  {<<"PATH=/", "T=1", "HO=" \o z.val, "TZ=" \o z.val, "AB=x">> : z \in Zones}
    \cup {<<"TZ=EST5EDT,M3", "HO=EST5EDT,M3">>, <<"TZ=A123", "PATH=/">>, <<"PATH=/", "TZONE=AB5">>, <<>>}
\* TZ as programs find it: the code takes none of these zones.
MCOnlyTZ == {<<"PATH=/", "TZ=" \o z.val>> : z \in Zones}

Years == {1902, 1968, 1969, 1970, 2000, 2037}
Days == {DayNumber(y, m, 1) + d : y \in Years, m \in {0, 2, 11}, d \in {-1, 0}} \cup {DayNumber(2024, 0, d) : d \in 1..7}
FarDays == {DayNumber(y, m, 1) - 1 : y \in {1600, 1700, 1900, 2100, 2400}, m \in {0, 2, 3}} \cup {s * (366 * 40000 + d) : s \in {-1, 1}, d \in {0, 1, -29300}}
MCMoments == {T(d, s) : d \in Days, s \in {0, 46799}} \cup {T(d, 86399) : d \in FarDays} \cup {T(24855, 11647), T(24855, 11648), T(-24856, 74752)}
MCChanges == {T(400, -1), T(-60, 90000), T(1, 0)}
MCPatterns == {<<"%" \o k>> : k \in {"a", "A", "b", "d", "H", "I", "j", "m", "M", "S", "U", "W", "y", "Y", "Z", "c", "%"}}
  \cup {<<"%Y", "-", "%m", "-", "%d", "T", "%H", ":", "%M", ":", "%S", " ", "%Z">>, <<"%c", "%j">>}
MCRooms == {24}
\* ------------------------------------------------------------- printing

\* Scaled: an int has 8 bits, a long long 10.
MCSizeBits == [hh |-> 4, h |-> 6, int |-> 8, l |-> 8, ll |-> 10]

\* Where the code differs from C: a precision with -, # with an octal precision,
\* and # where the digits alone fill the width, or
\* where zeros fill it before 0b.
Digits(p) == Len(Numeral(Unsigned(p.arg.n, SizeBits[p.size]), BaseOf(p.key), 1, Numerals))
Differs(p) ==
  \/ p.prec # <<>> /\ FlagsOf(p) \cap {"-"} # {}
  \/ "#" \in p.flags /\ p.key = "o" /\ p.prec # <<>>
  \/ "#" \in p.flags /\ p.key \in {"x", "X", "o", "b"} /\ Unsigned(p.arg.n, SizeBits[p.size]) # 0 /\ p.prec = <<>>
       /\ (Digits(p) = WidthOf(p) \/ (p.key = "b" /\ "0" \in p.flags) \/ (p.key \in {"x", "X"} /\ "0" \in FlagsOf(p) /\ Digits(p) = WidthOf(p) - 1))
Flags == {"0", "-", "+", " ", "#"}
IntegerArgs == ({"hh"} \X {-8, 8}) \cup {<<"h", 40>>, <<"l", 127>>} \cup ({"int"} \X {0, 1, 100, -128}) \cup ({"ll"} \X {511, -512})
MCIntegers == {p \in {Conv(letter, flags, width, prec, v[1], Number(v[2])) : letter \in {"i", "u", "x", "X", "o", "b"}, flags \in SUBSET Flags,
                                        width \in {0, 5, -6}, prec \in {<<>>, <<0>>, <<4>>}, v \in IntegerArgs} : ~Differs(p)}

\* Reals in sixteenths, and by exponent and mantissa; an infinity has no zeros, and no space, before it.
Real(kind, neg, n, man) == Argument(kind, neg, n, man, "")
RealArgs == {Real("finite", neg, n, 0) : neg \in BOOLEAN, n \in {1, 7, 8, 15, 16, 24, 40, 41, 159, 160, 1599}} \cup {Real("finite", FALSE, 0, 0)}
HexArgs == {Real("finite", neg, exp, man) : neg \in BOOLEAN, exp \in {1, 7, 12}, man \in {0, 8, 128, 384, 2176, 4088, 4095}} \cup {Real("finite", FALSE, 0, man) : man \in {0, 2056}}
Specials == {Real("inf", neg, 0, 0) : neg \in BOOLEAN} \cup {Real("nan", FALSE, 0, 0)}
RealFlags == SUBSET {"0", "-", "+", " "}
MCReals == <<
   {Conv(letter, flags, width, prec, "", v) : letter \in {"f", "F"}, flags \in RealFlags, width \in {0, 8, -7}, prec \in {<<>>, <<0>>, <<1>>, <<2>>, <<6>>}, v \in RealArgs},
   {Conv(letter, flags, width, prec, "", v) : letter \in {"a", "A"}, flags \in SUBSET {"-", "+", " "}, width \in {0, 12}, prec \in {<<>>, <<0>>, <<1>>, <<2>>, <<4>>}, v \in HexArgs},
   {Conv(letter, flags, width, <<>>, "", v) : letter \in {"f", "a"}, flags \in {{}, {"-"}, {"+"}}, width \in {0, 6}, v \in Specials}>>
MCTexts ==
  {Conv("s", flags, width, prec, "", Text(v)) : flags \in SUBSET {"-", "+"}, width \in {0, 4, -4}, prec \in {<<>>, <<0>>, <<2>>}, v \in {"", "a", "abcde"}}
    \cup {Conv("c", flags, width, <<>>, "", Text("a")) : flags \in SUBSET {"-", "0"}, width \in {0, 4}}
    \cup {Conv("p", {}, 0, <<>>, "", Number(v)) : v \in {0, 43981}} \cup {Conv(letter, {}, 0, <<>>, "", Number(0)) : letter \in {"%", "y"}}
MCPrints ==
  LET calls(ps) == {[pieces |-> <<p>>, room |-> 20] : p \in ps}
      some == {Letter("x"), Conv("d", {}, 3, <<>>, "int", Number(-7)), Conv("s", {}, 0, <<1>>, "", Text("abc")), Conv("%", {}, 0, <<>>, "", Number(0))}
  IN  <<calls(MCIntegers), calls(MCReals[1]), calls(MCReals[2]), calls(MCReals[3]), calls(MCTexts),
        {[pieces |-> <<p, q, r>>, room |-> n] : p, q, r \in some, n \in {0, 1, 4, 20}}>>

\* ------------------------------------------------------------- scanning
RECURSIVE Words(_, _)
Words(S, n) == IF n = 0 THEN {""} ELSE LET shorter == Words(S, n - 1) IN shorter \cup {w \o c : w \in shorter, c \in S}
Scan1(letter, width, size, w) == [directives |-> <<Directs(letter, width, size, TRUE, {})>>, text |-> w]
MCScanIntegers == <<
   {Scan1(letter, width, "int", w) : letter \in {"d", "i", "x", "o"}, width \in {0, 2}, w \in Words({"0", "9", "a", "x", "-", " "}, 3)},
   {Scan1(letter, width, size, w) : letter \in {"i", "p"}, width \in {0, 3}, size \in {"hh", "ll"}, w \in Words({"0", "x", "8", "+"}, 4)},
   {Scan1("d", 0, size, "-300") : size \in {"hh", "h", "int", "l", "ll"}}>>

\* An exponent that follows no digit is read though nothing can come of it; a width does not hold back inf and nan, and nan( may end a text: no such calls.
Beginnings(w) == {SubSeq(w, 1, n) : n \in 1..Len(w)}
Early(w) == LET v == IF HexPrefixed(w) THEN From(w, 3) ELSE w
            IN \E k \in 1..Len(v) : At(v, k) \in {"e", "p"} /\ \A j \in 1..k - 1 : At(v, j) \notin HexDigit
MCScanReals == <<
   {Scan1("f", 0, "l", w) : w \in {v \in Words({"1", ".", "e", "-"}, 4) \cup {"0x" \o u : u \in Words({"a", ".", "p", "3"}, 3)} \cup Words({"1", "2", "."}, 5) : ~Early(v)}},
   {Scan1("a", width, "int", w) : width \in {2, 3}, w \in {v \in Words({"1", ".", "e", "+"}, 4) : ~Early(v)}},
   {Scan1("g", 0, "int", sign \o w \o s) : sign \in {"", "-"}, w \in Beginnings("iNfinity") \cup (Beginnings("nAn(a)") \ {"nAn("}), s \in {"", "x", "1)"}},
   {Scan1("e", 0, "int", w) : w \in {" 12.5e-3", "0x1.8p-3 ", "1e+12", ".0e1"}}>>

\* %[ comes after something was stored: where it fails first, C returns 0 and the code EOF.
Taken(letter, width, set) == Directs(letter, width, "int", TRUE, set)
Passed(letter, width, set) == Directs(letter, width, "int", FALSE, set)
MCFormats ==
  {<<Taken("d", 0, {}), Passed("char", 0, {","}), Taken("d", 0, {})>>, <<Taken("s", 3, {}), Taken("[", 0, {"a", "1"}), Taken("n", 0, {})>>,
   <<Passed("blank", 0, {}), Passed("d", 0, {}), Passed("%", 0, {"%"}), Taken("c", 2, {})>>, <<Taken("c", 0, {}), Passed("s", 0, {}), Taken("d", 0, {})>>}
MCTextsRead == Words({"1", "a", ",", " ", "%"}, 4) \cup {"1,1", " 1%ab", "a 1 1", "1 , 1", "aaaa1 "}
MCScanTexts == {[directives |-> f, text |-> w] : f \in MCFormats, w \in MCTextsRead}

MCScanAlone ==
  {Scan1("strtoull", width, "ll", b \o w) : width \in {0, 8, 10, 16}, b \in {"", " \t"}, w \in {"12", "-7 ", "+071", "1x"}}
    \cup {Scan1("strtoull", width, "ll", "0x1fg") : width \in {0, 16}}
    \cup {Scan1("strtod", 0, "l", b \o w) : b \in {"", " "}, w \in {"1", "-1.5e2x", "0x1.8p1", ".5.", "1.e+3", "12345"}}
    \cup {Scan1("atol", 0, "l", b \o w) : b \in {"", " "}, w \in {"0", "-128", "127z", "+5", "999"}}
MCIntegral(s, given) == LET found == _aton(s, given) IN found
MCFractional(s, whole) == LET found == _atod(s, whole) IN found
MCIntegralOf(s, given) == LET res == strntoumax(s, given) IN res
MCFractionalOf(s) == LET res == strtod_number(s) IN res
MCLongest(s, d) == LET item == LongestItem(s, d) IN item
MCSaid(s, v) == LET means == RealMeant(s, v) IN means
MCScans == MCScanIntegers \o MCScanReals \o <<MCScanTexts, MCScanAlone>>

\* ------------------------------------------------------------- the library
\* One family of functions is used in a behaviour, and the others are idle.
SortIdle == pc = "found" /\ rank = [e \in Elems |-> Min(Ranks)] /\ a = [k \in Index |-> k] /\ gap = N /\ i = 0 /\ swapped = FALSE
              /\ key = Min(Ranks) /\ base = 0 /\ nmemb = N
LibraryInit ==
  \/ Init /\ CalendarIdle /\ PrintIdle /\ ScanIdle
  \/ CalendarInit /\ SortIdle /\ PrintIdle /\ ScanIdle
  \/ PrintInit /\ SortIdle /\ CalendarIdle /\ ScanIdle
  \/ ScanInit /\ SortIdle /\ CalendarIdle /\ PrintIdle
LibraryNext ==
  \/ Next /\ UNCHANGED <<datingVars, printing, scanning>>
  \/ CalendarNext /\ UNCHANGED <<vars, printing, scanning>>
  \/ PrintNext /\ UNCHANGED <<vars, datingVars, scanning>>
  \/ ScanNext /\ UNCHANGED <<vars, datingVars, printing>>
LibrarySpec == LibraryInit /\ [][LibraryNext]_<<vars, datingVars, printing, scanning>> /\ WF_vars(Next)
=============================================================================
