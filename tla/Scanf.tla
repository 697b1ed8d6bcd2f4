------------------------------- MODULE Scanf -------------------------------
(***************************************************************************)
(* Formatted input of stdio.c, and the conversions of numbers of stdlib.c  *)
(* it relies on: a format is run through against a text, a step for each   *)
(* character or conversion.  A character is looked at before it is taken,  *)
(* so that a text and a stream are read alike.  A real number is kept as   *)
(* its digits and its exponent.                                            *)
(***************************************************************************)
EXTENDS LibText, SequencesExt

CONSTANTS Scans,        \* sets of calls: what the format consists of, and the text
          ScanBits,     \* width of the integers of each size
          ScanBuffer,   \* SCANF_..._BUFFER_SIZE
          MaxDigits,    \* MAX_BASE10_DIGS, MAX_BASE16_DIGS
          MaxExponent,  \* MAX_BASE10_EXPONENT, MAX_BASE2_EXPONENT
          Integral(_, _), Fractional(_, _),  \* the number of an input: _aton, _atod
          IntegralOf(_, _), FractionalOf(_), \* and of a text: strntoumax, strtod_number
          Longest(_, _), Said(_, _)          \* LongestItem, RealMeant

VARIABLES
  scan,      \* the call
  directive, \* the number of the directive that is next
  idx,       \* characters read
  stored,    \* what was stored through the pointers
  matched,   \* matchc
  scanned    \* what the call returned; <<>> before

scanning == <<scan, directive, idx, stored, matched, scanned>>

EndOfText == -1   \* EOF

\* A directive; store says whether it has no *, set is that of %[.
Directs(letter, width, size, store, set) == [key |-> letter, width |-> width, size |-> size, store |-> store, set |-> set]

Oct == {Numerals[n] : n \in 1..8}
DigitsIn(size) == CASE size = 8 -> Oct [] size = 10 -> Dec [] size = 16 -> HexDigit

\* How many characters from the k-th on are in a set.
Run(s, k, S) == Min({n \in 0..Len(s) : At(s, k + n) \notin S})
One(cond) == IF cond THEN 1 ELSE 0

-----------------------------------------------------------------------------
(* stdlib.c.                                                               *)

\* The number modulo the largest word, and where the text goes on.
strntoumax(s, given) ==
  LET blanks == Run(s, 1, White)
      signs == One(At(s, blanks + 1) \in {"+", "-"})
      first == blanks + signs + 1
      ex == given \in {0, 16} /\ At(s, first) = "0" /\ At(s, first + 1) \in {"x", "X"}
      size == IF given # 0 THEN given ELSE IF ex THEN 16 ELSE IF At(s, first) = "0" THEN 8 ELSE 10
      from == first + IF ex THEN 2 ELSE One(given = 0 /\ size = 8)
      n == Run(s, from, DigitsIn(size))
      v == NumberSaid(SubSeq(s, from, from + n - 1), size)
  IN  [value |-> (IF At(s, blanks + 1) = "-" THEN -v ELSE v) % 2^ScanBits.ll, end |-> from + n - 1]

\* The parts of a real number: sign, digits with a point among them, exponent.
RealParts(s) ==
  LET signs == One(At(s, 1) \in {"+", "-"})
      hex == At(s, signs + 1) = "0" /\ At(s, signs + 2) \in {"x", "X"}
      from == signs + IF hex THEN 2 ELSE 0
      S == IF hex THEN HexDigit ELSE Dec
      before == Run(s, from + 1, S)
      dot == One(At(s, from + before + 1) = ".")
      after == IF dot = 1 THEN Run(s, from + before + 2, S) ELSE 0
      mantissa == from + before + dot + after
      letter == One(At(s, mantissa + 1) \in IF hex THEN {"p", "P"} ELSE {"e", "E"})
      expSign == One(letter = 1 /\ At(s, mantissa + 2) \in {"+", "-"})
      expDigits == IF letter = 1 THEN Run(s, mantissa + letter + expSign + 1, Dec) ELSE 0
  IN  [neg |-> At(s, 1) = "-", hex |-> hex, digits |-> SubSeq(s, from + 1, from + before) \o SubSeq(s, mantissa - after + 1, mantissa),
       before |-> before, exponent |-> letter = 1, negExp |-> At(s, mantissa + 2) = "-",
       exp |-> SubSeq(s, mantissa + letter + expSign + 1, mantissa + letter + expSign + expDigits),
       end |-> mantissa + letter + expSign + expDigits]

RealNumber(kind, neg, frac, exp, hex) == [kind |-> kind, neg |-> neg, frac |-> frac, exp |-> exp, hex |-> hex]
NoReal == [value |-> RealNumber("finite", FALSE, 0, 0, FALSE), end |-> 0, range |-> FALSE]

\* Mutant: digits before the point that are not counted do not move it.
strtod_number_KeepsPoint(s) ==
  LET parts == RealParts(s)
      counted == Least(Len(parts.digits), MaxDigits)
      fracexp == IF parts.before > counted THEN 0 ELSE (parts.before - counted) * IF parts.hex THEN 4 ELSE 1
      exp == fracexp + (IF parts.negExp THEN -1 ELSE 1) * NumberSaid(parts.exp, 10)
      frac == NumberSaid(SubSeq(parts.digits, 1, counted), IF parts.hex THEN 16 ELSE 10)
  IN  IF counted = 0 \/ (parts.exponent /\ parts.exp = "") THEN NoReal
      ELSE [value |-> RealNumber("finite", parts.neg, frac, exp, parts.hex), end |-> parts.end, range |-> FALSE]

\* strtod_dec and strtod_hex: the digits that count, and by how many places they are moved.
strtod_number(s) ==
  LET parts == RealParts(s)
      size == IF parts.hex THEN 16 ELSE 10
      counted == Least(Len(parts.digits), MaxDigits)
      fracexp == (parts.before - counted) * IF parts.hex THEN 4 ELSE 1
      given == NumberSaid(parts.exp, 10)
      exp == fracexp + IF parts.negExp THEN -given ELSE given
      range == exp > MaxExponent \/ exp < -MaxExponent
      frac == NumberSaid(SubSeq(parts.digits, 1, counted), size)
  IN  IF counted = 0 \/ (parts.exponent /\ parts.exp = "") THEN NoReal
      ELSE [value |-> IF range THEN RealNumber("inf", parts.neg, 0, 0, FALSE) ELSE RealNumber("finite", parts.neg, frac, exp, parts.hex),
            end |-> parts.end, range |-> range]

\* The value is computed below zero, where an int has one number more.
atol(s) ==
  LET blanks == Run(s, 1, White)
      signs == One(At(s, blanks + 1) \in {"+", "-"})
      n == -NumberSaid(SubSeq(s, blanks + signs + 1, blanks + signs + Run(s, blanks + signs + 1, Dec)), 10)
  IN  (IF At(s, blanks + 1) = "-" THEN n ELSE -n) % 2^ScanBits.l

-----------------------------------------------------------------------------
(* Numbers of the input.                                                   *)

\* _aton, on what the width leaves of the text.
_aton(s, given) ==
  LET signs == One(At(s, 1) \in {"+", "-"})
      zero == given \in {0, 16} /\ At(s, signs + 1) = "0"
      ex == zero /\ At(s, signs + 2) \in {"x", "X"}
      size == IF given # 0 THEN given ELSE IF ex THEN 16 ELSE IF zero THEN 8 ELSE 10
      from == signs + One(zero) + One(ex)
      n == Least(Run(s, from + 1, DigitsIn(size)), ScanBuffer - 1 - signs)
      buf == SubSeq(s, 1, signs) \o SubSeq(s, from + 1, from + n)
      res == strntoumax(buf, size)
  IN  [used |-> from + n, value |-> res.value, ok |-> (n > 0 \/ (zero /\ ~ex)) /\ res.end = Len(buf)]

LowerOf == [I |-> "i", N |-> "n", F |-> "f", T |-> "t", Y |-> "y", A |-> "a"]
Lowered(c) == IF c \in DOMAIN LowerOf THEN LowerOf[c] ELSE c

\* _atos: how much of the word the text begins with, in either case.
Common(s, k, word) == Max({n \in 0..Len(word) : \A j \in 1..n : Lowered(At(s, k + j - 1)) = At(word, j)})

\* In nan(...) anything may stand up to the parenthesis.
NanText(s, k) ==
  LET n == Common(s, k, "nan(")
      inside == From(s, k + 4)
      closed == Run(s, k + 4, {At(s, j) : j \in 1..Len(s)} \ {")"})
  IN  IF n < 4 THEN [used |-> n, ok |-> n = 3]
      ELSE IF inside = "" THEN [used |-> 4, ok |-> TRUE]
      ELSE [used |-> Least(5 + closed, 4 + Len(inside)), ok |-> closed < Len(inside)]

\* _atod; inf and nan do not look at the width.
_atod(s, whole) ==
  LET signs == One(At(s, 1) \in {"+", "-"})
      neg == At(s, 1) = "-"
      c == Lowered(At(s, signs + 1))
      word == Common(whole, signs + 1, "infinity")
      nan == NanText(whole, signs + 1)
      buf == SubSeq(s, 1, Least(Len(s), ScanBuffer - 1))
      parts == RealParts(buf)
      res == strtod_number(SubSeq(buf, 1, parts.end))
  IN  CASE c = "i" -> [used |-> signs + word, ok |-> word \in {3, 8}, value |-> RealNumber("inf", neg, 0, 0, FALSE)]
        [] c = "n" -> [used |-> signs + nan.used, ok |-> nan.ok, value |-> RealNumber("nan", FALSE, 0, 0, FALSE)]
        [] OTHER -> [used |-> parts.end, ok |-> parts.digits # "" /\ res.end = parts.end /\ ~res.range, value |-> res.value]

-----------------------------------------------------------------------------
(* _vsnscanf.                                                              *)

Dir == scan.directives[directive]
Directed(keys) == scanned = <<>> /\ directive <= Len(scan.directives) /\ Dir.key \in keys
Rest == From(scan.text, idx + 1)
Blanks == Run(Rest, 1, White)
Window(rest, width) == IF width = 0 THEN rest ELSE SubSeq(rest, 1, Least(width, Len(rest)))

Item(n, text, real) == [n |-> n, text |-> text, real |-> real]
IntItem(n) == Item(n, "", NoReal.value)
TextItem(s) == Item(0, s, NoReal.value)
RealItem(v) == Item(0, "", v)

Proceed(used) == idx' = idx + used /\ directive' = directive + 1 /\ UNCHANGED <<scan, scanned>>
Stop(used, result) == idx' = idx + used /\ scanned' = <<result>> /\ UNCHANGED <<scan, directive, stored, matched>>
Stored(item) == stored' = (IF Dir.store THEN Append(stored, item) ELSE stored) /\ matched' = matched + One(Dir.store)
EofOrMatched == IF matched = 0 THEN EndOfText ELSE matched

SkipBlanks == Directed({"blank"}) /\ Proceed(Blanks) /\ UNCHANGED <<stored, matched>>

\* A character, or %% which may come after blanks.
MatchChar ==
  /\ Directed({"char", "%"})
  /\ LET skip == IF Dir.key = "%" THEN Blanks ELSE 0
         c == At(Rest, skip + 1)
     IN  IF c # "" /\ c \in Dir.set THEN Proceed(skip + 1) /\ UNCHANGED <<stored, matched>>
         ELSE Stop(skip, IF c = "" THEN EofOrMatched ELSE matched)

MatchString ==
  /\ Directed({"s", "c", "["})
  /\ LET skip == IF Dir.key = "s" THEN Blanks ELSE 0
         rest == From(Rest, skip + 1)
         width == IF Dir.key = "c" /\ Dir.width < 1 THEN 1 ELSE Dir.width
         all == {At(rest, k) : k \in 1..Len(rest)}
         n == Run(Window(rest, width), 1, CASE Dir.key = "s" -> all \ White [] Dir.key = "c" -> all [] OTHER -> Dir.set)
     IN  IF n = 0 \/ (Dir.key = "c" /\ n # width) THEN Stop(skip + n, EofOrMatched)
         ELSE Proceed(skip + n) /\ Stored(TextItem(SubSeq(rest, 1, n)))

\* What _aton or _atod found in the text after blanks.
MatchNumber(found, item) ==
  LET skip == Blanks
  IN  IF From(Rest, skip + 1) = "" THEN Stop(skip, EofOrMatched)
      ELSE IF found.used = 0 \/ ~found.ok THEN Stop(skip + found.used, matched)
      ELSE Proceed(skip + found.used) /\ Stored(item)

\* %p stores a pointer, whatever the size.
SizeOf(d) == IF d.key = "p" THEN "l" ELSE d.size

MatchInteger ==
  /\ Directed({"d", "u", "i", "o", "x", "X", "p"})
  /\ LET found == Integral(Window(From(Rest, Blanks + 1), Dir.width), CASE Dir.key \in {"x", "X", "p"} -> 16 [] Dir.key = "o" -> 8 [] Dir.key = "i" -> 0 [] OTHER -> 10)
     IN  MatchNumber(found, IntItem(found.value % 2^ScanBits[SizeOf(Dir)]))

MatchReal ==
  /\ Directed({"f", "a", "e", "g"})
  /\ LET rest == From(Rest, Blanks + 1)
         found == Fractional(Window(rest, Dir.width), rest)
     IN  MatchNumber(found, RealItem(found.value))

CountRead ==
  /\ Directed({"n"}) /\ Proceed(0)
  /\ stored' = IF Dir.store THEN Append(stored, IntItem(idx % 2^ScanBits[Dir.size])) ELSE stored
  /\ UNCHANGED matched

\* strtoull (with its base for a width), strtod and atol, called for themselves.
ReadNumber ==
  /\ Directed({"strtoull", "strtod", "atol"})
  /\ LET int == IntegralOf(scan.text, Dir.width)
         real == FractionalOf(From(scan.text, Run(scan.text, 1, White) + 1))
     IN  CASE Dir.key = "strtoull" -> Proceed(int.end) /\ Stored(IntItem(int.value))
           [] Dir.key = "strtod" -> Proceed(IF real.end = 0 THEN 0 ELSE real.end + Run(scan.text, 1, White)) /\ Stored(RealItem(real.value))
           [] Dir.key = "atol" -> Proceed(0) /\ Stored(IntItem(atol(scan.text)))

EndScan ==
  /\ scanned = <<>> /\ directive = Len(scan.directives) + 1
  /\ scanned' = <<matched>>
  /\ UNCHANGED <<scan, directive, idx, stored, matched>>

NoScan == [directives |-> <<>>, text |-> ""]
ScanStart == directive = 1 /\ idx = 0 /\ stored = <<>> /\ matched = 0
ScanIdle == scan = NoScan /\ ScanStart /\ scanned = <<0>>
ScanInit == (\E k \in DOMAIN Scans : scan \in Scans[k]) /\ ScanStart /\ scanned = <<>>
ScanNext == SkipBlanks \/ MatchChar \/ MatchString \/ MatchInteger \/ MatchReal \/ CountRead \/ ReadNumber \/ EndScan

-----------------------------------------------------------------------------
(* What C says of it: an input item is the longest beginning of the text,  *)
(* no longer than the width, that some number begins with.                 *)

AllIn(s, S) == s # "" /\ \A k \in 1..Len(s) : At(s, k) \in S
WithoutSign(s) == IF At(s, 1) \in {"+", "-"} THEN From(s, 2) ELSE s
Lower(s) == FoldLeft(LAMBDA t, k : t \o Lowered(At(s, k)), "", [k \in 1..Len(s) |-> k])
HexPrefixed(u) == At(u, 1) = "0" /\ At(u, 2) \in {"x", "X"}

\* Texts of integers, by base; base 0 reads a prefix.
IntegerText(s, size) ==
  LET u == WithoutSign(s)
      hex == HexPrefixed(u) /\ AllIn(From(u, 3), HexDigit)
  IN  CASE size = 16 -> hex \/ AllIn(u, HexDigit)
        [] size = 0 -> hex \/ AllIn(u, IF At(u, 1) = "0" THEN Oct ELSE Dec)
        [] OTHER -> AllIn(u, DigitsIn(size))

Mantissa(s, S) == \E k \in 0..Len(s) : LET l == SubSeq(s, 1, k) r == From(s, k + 2)
                    IN (s # "" /\ k = Len(s) /\ AllIn(s, S)) \/ (At(s, k + 1) = "." /\ (AllIn(l, S) \/ AllIn(r, S)) /\ (l = "" \/ AllIn(l, S)) /\ (r = "" \/ AllIn(r, S)))
Exponent(s, letters) == s = "" \/ (At(s, 1) \in letters /\ AllIn(WithoutSign(From(s, 2)), Dec))
NumberText(u, S, letters) == \E k \in 1..Len(u) : Mantissa(SubSeq(u, 1, k), S) /\ Exponent(From(u, k + 1), letters)
Named(u) == Lower(u) \in {"inf", "infinity", "nan"} \/ (SubSeq(Lower(u), 1, Least(4, Len(u))) = "nan(" /\ {k \in 5..Len(u) : At(u, k) = ")"} = {Len(u)})
RealText(s) ==
  LET u == WithoutSign(s)
  IN  Named(u) \/ (IF HexPrefixed(u) THEN NumberText(From(u, 3), HexDigit, {"p", "P"}) ELSE NumberText(u, Dec, {"e", "E"}))

IntegerMeant(s, size) ==
  LET u == WithoutSign(s)
      n == IF size \in {0, 16} /\ HexPrefixed(u) THEN NumberSaid(From(u, 3), 16) ELSE NumberSaid(u, IF size # 0 THEN size ELSE IF At(u, 1) = "0" THEN 8 ELSE 10)
  IN  IF At(s, 1) = "-" THEN -n ELSE n

\* Digits d times a power of the exponent's base; less digits mean the value cut.
RealMeant(s, v) ==
  LET u == WithoutSign(s)
      hex == HexPrefixed(u)
      body == IF hex THEN From(u, 3) ELSE u
      mark == Min({k \in 1..Len(body) + 1 : At(body, k) \in IF hex THEN {"p", "P", ""} ELSE {"e", "E", ""}})
      mant == SubSeq(body, 1, mark - 1)
      point == Min({k \in 1..Len(mant) + 1 : At(mant, k) \in {".", ""}})
      digits == SubSeq(mant, 1, point - 1) \o From(mant, point + 1)
      places == Len(From(mant, point + 1)) * IF hex THEN 4 ELSE 1
      given == From(body, mark + 1)
      exp == (IF At(given, 1) = "-" THEN -1 ELSE 1) * NumberSaid(WithoutSign(given), 10)
      cut == IF Len(digits) > MaxDigits THEN Len(digits) - MaxDigits ELSE 0
      size == IF hex THEN 16 ELSE 10
  IN  IF Named(u) THEN v.kind = SubSeq(Lower(u), 1, 3) /\ (v.kind = "inf" => v.neg = (At(s, 1) = "-"))
      ELSE v = RealNumber("finite", At(s, 1) = "-", NumberSaid(digits, size) \div size^cut, exp - places + cut * IF hex THEN 4 ELSE 1, hex)

Reals == {"f", "a", "e", "g", "strtod"}
Alone == {"strtoull", "strtod", "atol"}
BaseMeant(d) == CASE d.key = "strtoull" -> d.width [] d.key \in {"x", "X", "p"} -> 16 [] d.key = "o" -> 8 [] d.key = "i" -> 0 [] OTHER -> 10

IsText(s, d) == IF d.key \in Reals THEN RealText(s) ELSE IntegerText(s, BaseMeant(d))

\* What may still follow a beginning of a number: an item may end before it, a number alone not.
Continuations(d) == {""} \cup IF d.key \in Alone THEN {} ELSE {"0", "x0", "nf", "f", "inity", "nity", "ity", "ty", "y", "an", "n", ")"}
LongestItem(s, d) == SubSeq(s, 1, Max({n \in 0..Len(s) : n = 0 \/ \E t \in Continuations(d) : IsText(SubSeq(s, 1, n) \o t, d)}))

\* What a directive does to a state [at, items, n, ret] of the scan; items are texts.
Means(d, o) ==
  LET text == From(scan.text, o.at + 1)
      blanks == IF d.key \in {"char", "c", "[", "n"} THEN 0 ELSE Run(text, 1, White)
      rest == From(text, blanks + 1)
      seen == Window(rest, d.width)
      number == Longest(IF d.key \in Alone THEN rest ELSE seen, d)
      wanted == IF d.width = 0 THEN 1 ELSE d.width
      chars == Max({n \in 0..Len(seen) : \A k \in 1..n : IF d.key = "s" THEN At(seen, k) \notin White ELSE At(seen, k) \in d.set})
      taken(s) == [o EXCEPT !.at = @ + blanks + Len(s), !.items = IF d.store THEN Append(@, s) ELSE @, !.n = @ + One(d.store)]
      stop(s, n) == [o EXCEPT !.at = @ + blanks + Len(s), !.ret = <<n>>]
      none == IF o.n = 0 THEN EndOfText ELSE o.n
  IN  IF o.ret # <<>> THEN o
      ELSE IF d.key = "blank" THEN [o EXCEPT !.at = @ + blanks]
      ELSE IF d.key = "n" THEN [o EXCEPT !.items = IF d.store THEN Append(@, SubSeq(scan.text, 1, o.at)) ELSE @]
      ELSE IF d.key = "atol" THEN [taken(number) EXCEPT !.at = o.at]
      ELSE IF d.key \in {"strtoull", "strtod"} THEN taken(number)
      ELSE IF rest = "" THEN stop("", none)
      ELSE CASE d.key \in {"char", "%"} -> IF At(rest, 1) \in d.set THEN [o EXCEPT !.at = @ + blanks + 1] ELSE stop("", o.n)
             [] d.key = "c" -> IF Len(rest) >= wanted THEN taken(SubSeq(rest, 1, wanted)) ELSE stop(rest, none)
             [] d.key \in {"s", "["} -> IF chars > 0 THEN taken(SubSeq(seen, 1, chars)) ELSE stop("", o.n)
             [] OTHER -> IF IsText(number, d) THEN taken(number) ELSE stop(number, o.n)

StoredMeans(d, text, item) ==
  CASE d.key \in {"s", "c", "["} -> item = TextItem(text)
    [] d.key = "n" -> item = IntItem(Len(text))
    [] d.key \in Reals -> item = RealItem(item.real) /\ Said(text, item.real)
    [] OTHER -> item = IntItem(IntegerMeant(text, BaseMeant(d)) % 2^ScanBits[IF d.key = "p" THEN "l" ELSE d.size])

\* The text read so far, the values stored and the number returned are what the
\* directives so far mean, each taking the longest item it may (stdio.c, stdlib.c).
ScannedRight ==
  LET start == [at |-> 0, items |-> <<>>, n |-> 0, ret |-> <<>>]
      done == SubSeq(scan.directives, 1, IF scanned = <<>> THEN directive - 1 ELSE Least(directive, Len(scan.directives)))
      meant == FoldLeft(LAMBDA o, d : Means(d, o), start, done)
      kept == SelectSeq(done, LAMBDA d : d.store /\ d.key \notin {"blank", "char", "%"})
  IN  /\ idx = meant.at /\ matched = meant.n /\ Len(stored) = Len(meant.items)
      /\ \A k \in DOMAIN stored : StoredMeans(kept[k], meant.items[k], stored[k])
      /\ scanned # <<>> => scanned = IF meant.ret # <<>> THEN meant.ret ELSE <<meant.n>>
=============================================================================
