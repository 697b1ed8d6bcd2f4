------------------------------- MODULE Printf -------------------------------
(***************************************************************************)
(* Formatted output of stdio.c: snprintf runs through a format, a step for *)
(* each character or conversion.  A number is spelled from its last digit  *)
(* into a small buffer; here the buffer is the text so far, grown at its   *)
(* front.  A real number is a count of a power of two: sums are exact.     *)
(***************************************************************************)
EXTENDS LibText, SequencesExt

CONSTANTS Prints,           \* sets of calls: what the format consists of, and room for the text
          SizeBits,         \* width of the integers of each size
          BufferSize,       \* PRINTF_..._BUFFER_SIZE
          PointerDigits,    \* 2 * sizeof(void*)
          Grain,            \* parts of one that a real number is counted in
          DefaultPrecision, \* PRINTF_DEFAULT_FLOAT_PRECISION
          MaxPrecision,     \* digits that _ftoa computes
          HexDigits, Bias   \* PRINTF_DEFAULT_HEXFL_PRECISION, exponent of 1.0

VARIABLES
  print,      \* the call; NoPrint is none
  piece,      \* the piece of the format that is next
  out,        \* what was put out; idx is its length
  printed     \* what the call returned: count and text stored; <<>> before

printing == <<print, piece, out, printed>>

\* An argument: a number, a text, or a real number by the parts of one it
\* has (n) or, for %a, by its exponent (n) and mantissa.
Argument(kind, neg, n, man, text) == [kind |-> kind, neg |-> neg, n |-> n, man |-> man, text |-> text]
Number(n) == Argument("int", FALSE, n, 0, "")
Text(s) == Argument("text", FALSE, 0, 0, s)

\* A conversion.
\* prec is <<>> where none is given; the * of width and precision are read already.
Conv(letter, flags, width, prec, size, arg) ==
  [key |-> letter, flags |-> flags, width |-> width, prec |-> prec, size |-> size, arg |-> arg]
Letter(c) == Conv("text", {}, 0, <<>>, "", Text(c))

Magnitude(n) == IF n < 0 THEN -n ELSE n
Unsigned(n, bits) == n % 2^bits
Signed(n, bits) == IF Unsigned(n, bits) >= 2^(bits - 1) THEN Unsigned(n, bits) - 2^bits ELSE Unsigned(n, bits)

-----------------------------------------------------------------------------
(* The buffer.                                                             *)

Put(c, buf) == IF Len(buf) < BufferSize THEN c \o buf ELSE buf
Fill(buf, n) == Rep("0", Least(n, BufferSize) - Len(buf)) \o buf
Buffered(s) == From(s, IF Len(s) > BufferSize THEN Len(s) - BufferSize + 1 ELSE 1)
Table(flags) == IF "upper" \in flags THEN Capitals ELSE Numerals

_out_rev(buf, width, flags) ==
  LET blank == Rep(" ", width - Len(buf))
  IN  IF "-" \in flags THEN buf \o blank ELSE IF "0" \in flags THEN buf ELSE blank \o buf

SignOf(negative, flags) == IF negative THEN "-" ELSE IF "+" \in flags THEN "+" ELSE IF " " \in flags THEN " " ELSE ""
\* Mutant: the width does not count the minus.
BesideSign_NoMinus(width, negative, flags) == width - IF width > 0 /\ flags \cap {"+", " "} # {} THEN 1 ELSE 0
BesideSign(width, negative, flags) == width - IF width > 0 /\ (negative \/ flags \cap {"+", " "} # {}) THEN 1 ELSE 0

Prefix(size, flags) == CASE size = 16 -> IF "upper" \in flags THEN "X" ELSE "x" [] size = 2 -> "b" [] OTHER -> ""

\* In place of zeros that fill the width comes the prefix.
Prefixed(buf, size, prec, width, flags) ==
  LET cut == "." \notin flags /\ buf # "" /\ Len(buf) \in {prec, width}
      kept == From(buf, IF ~cut THEN 1 ELSE IF size = 16 /\ Len(buf) > 1 THEN 3 ELSE 2)
  IN  Put("0", Put(Prefix(size, flags), kept))

_ntoa_format(digits, negative, size, prec, width, flags) ==
  LET zeros == "0" \in flags /\ "-" \notin flags
      inner == IF zeros THEN BesideSign(width, negative, flags) ELSE width
      precise == IF "-" \in flags THEN digits ELSE Fill(digits, prec)
      padded == IF zeros THEN Fill(precise, inner) ELSE precise
      prefixed == IF "#" \in flags THEN Prefixed(padded, size, prec, inner, flags) ELSE padded
  IN  _out_rev(Put(SignOf(negative, flags), prefixed), inner, flags)

_ntoa_long(value, negative, size, prec, width, flags) ==
  LET digits == IF "." \in flags /\ value = 0 THEN "" ELSE Buffered(Numeral(value, size, 1, Table(flags)))
  IN  _ntoa_format(digits, negative, size, prec, width, IF value = 0 THEN flags \ {"#"} ELSE flags)

\* Rounded at the last digit wanted; at a half, to an even one.
_ftoa(v, precision, width, flags) ==
  LET wanted == IF "." \in flags THEN precision ELSE DefaultPrecision
      extra == IF wanted > MaxPrecision THEN Least(wanted - MaxPrecision, BufferSize) ELSE 0
      prec == wanted - extra
      tmp == (v.n % Grain) * 10^prec
      low == tmp \div Grain
      diff == 2 * (tmp % Grain)
      up == diff > Grain \/ (diff = Grain /\ (low = 0 \/ low % 2 = 1))
      over == diff > Grain /\ low + 1 >= 10^prec
      frac == IF over THEN 0 ELSE low + IF up THEN 1 ELSE 0
      floor == v.n \div Grain + IF over THEN 1 ELSE 0
      whole == floor + IF prec = 0 /\ 2 * (v.n - floor * Grain) >= Grain /\ floor % 2 = 1 THEN 1 ELSE 0
      number == Buffered(Numeral(whole, 10, 1, Numerals) \o (IF prec = 0 THEN "" ELSE "." \o Numeral(frac, 10, prec, Numerals)) \o Rep("0", extra))
      negative == v.neg /\ v.n # 0
      padded == IF "0" \in flags /\ "-" \notin flags THEN Fill(number, BesideSign(width, negative, flags)) ELSE number
  IN  CASE v.kind = "nan" -> _out_rev("nan", width, flags)
        [] v.kind = "inf" -> _out_rev((IF v.neg THEN "-" ELSE IF "+" \in flags THEN "+" ELSE "") \o "inf", width, flags)
        [] OTHER -> _out_rev(Put(SignOf(negative, flags), padded), width, flags)

\* From its last digit on; what digits left out come to is carried in sixteenths.
_atoa(v, precision, width, flags) ==
  LET prec == IF "." \in flags THEN precision ELSE HexDigits
      one == 16^HexDigits
      RoundsUp(diff, digit) == diff > 8 * one \/ (diff = 8 * one /\ digit % 2 = 1)
      run[k \in 0..HexDigits] ==
        IF k = 0 THEN [diff |-> 0, text |-> ""]
        ELSE LET o == run[k - 1]
                 digit == (v.man \div 16^(k - 1)) % 16
                 up == RoundsUp(o.diff, digit)
             IN  IF k <= HexDigits - prec THEN [o EXCEPT !.diff = @ \div 16 + digit * one]
                 ELSE [diff |-> IF up /\ digit = 15 THEN o.diff \div 16 + 15 * one ELSE 0,
                       text |-> Table(flags)[((digit + IF up THEN 1 ELSE 0) % 16) + 1] \o o.text]
      o == run[HexDigits]
      lead == IF v.n = 0 THEN 0 ELSE 1
      val == IF v.n # 0 THEN v.n - Bias ELSE IF v.man = 0 THEN 0 ELSE 1 - Bias
      exponent == (IF "upper" \in flags THEN "P" ELSE "p") \o (IF val < 0 THEN "-" ELSE "+") \o Numeral(Magnitude(val), 10, 1, Numerals)
      number == "0" \o (IF "upper" \in flags THEN "X" ELSE "x") \o Numeral(lead + IF RoundsUp(o.diff, lead) THEN 1 ELSE 0, 10, 1, Numerals)
                  \o (IF prec > 0 THEN "." ELSE "") \o o.text \o Rep("0", prec - HexDigits) \o exponent
  IN  IF v.kind # "finite" THEN _ftoa(v, precision, width, flags)
      ELSE _out_rev(Buffered(SignOf(v.neg /\ (v.n # 0 \/ v.man # 0), flags) \o number), width, flags)

-----------------------------------------------------------------------------
(* _vsnprintf.                                                             *)

Pieces == print.pieces
This == Pieces[piece]
Reading(keys) == printed = <<>> /\ piece <= Len(Pieces) /\ This.key \in keys

\* The flags, with a negative width turned into one, and whether a precision is given.
FlagsOf(p) == p.flags \cup (IF p.width < 0 THEN {"-"} ELSE {}) \cup (IF p.prec # <<>> THEN {"."} ELSE {})
                \cup IF p.key \in {"X", "A", "F", "p"} THEN {"upper"} ELSE {}
WidthOf(p) == Magnitude(p.width)
PrecisionOf(p) == IF p.prec = <<>> \/ p.prec[1] < 0 THEN 0 ELSE p.prec[1]
BaseOf(letter) == CASE letter \in {"x", "X"} -> 16 [] letter = "o" -> 8 [] letter = "b" -> 2 [] OTHER -> 10

PutOut(text) ==
  /\ out' = out \o text /\ piece' = piece + 1
  /\ UNCHANGED <<print, printed>>

PutText == Reading({"text"}) /\ PutOut(This.arg.text)

Integers10 == {"d", "i"}
PutInteger ==
  /\ Reading(Integers10 \cup {"u", "x", "X", "o", "b"})
  /\ LET p == This
         bits == SizeBits[p.size]
         signed == p.key \in Integers10
         value == IF signed THEN Signed(p.arg.n, bits) ELSE Unsigned(p.arg.n, bits)
         flags == FlagsOf(p) \ ((IF BaseOf(p.key) = 10 THEN {"#"} ELSE {}) \cup (IF signed THEN {} ELSE {"+", " "}) \cup (IF p.prec # <<>> THEN {"0"} ELSE {}))
     IN  PutOut(_ntoa_long(Magnitude(value), value < 0, BaseOf(p.key), PrecisionOf(p), WidthOf(p), flags))

PutHexReal == Reading({"a", "A"}) /\ PutOut(_atoa(This.arg, PrecisionOf(This), WidthOf(This), FlagsOf(This)))
PutReal == Reading({"f", "F"}) /\ PutOut(_ftoa(This.arg, PrecisionOf(This), WidthOf(This), FlagsOf(This)))

PutString ==
  /\ Reading({"c", "s"})
  /\ LET p == This
         text == IF p.key = "s" /\ p.prec # <<>> THEN SubSeq(p.arg.text, 1, Least(PrecisionOf(p), Len(p.arg.text))) ELSE p.arg.text
     IN  PutOut(_out_rev(text, WidthOf(p), FlagsOf(p) \ {"0"}))

PutPointer ==
  /\ Reading({"p"})
  /\ PutOut(_ntoa_long(This.arg.n, FALSE, 16, PrecisionOf(This), PointerDigits, FlagsOf(This) \cup {"0"}))

\* %% and letters without a meaning.
PutItself == Reading({"%", "y"}) /\ PutOut(This.key)

\* The buffer holds what fits before its last character, which is the end of the text.
EndPrint ==
  /\ printed = <<>> /\ piece = Len(Pieces) + 1
  /\ printed' = <<Len(out), IF print.room = 0 THEN "" ELSE SubSeq(out, 1, Least(Len(out), print.room - 1))>>
  /\ UNCHANGED <<print, piece, out>>

NoPrint == [pieces |-> <<>>, room |-> 0]
PrintIdle == print = NoPrint /\ piece = 1 /\ out = "" /\ printed = <<0, "">>
PrintInit == (\E k \in DOMAIN Prints : print \in Prints[k]) /\ piece = 1 /\ out = "" /\ printed = <<>>
PrintNext == PutText \/ PutInteger \/ PutHexReal \/ PutReal \/ PutString \/ PutPointer \/ PutItself \/ EndPrint

-----------------------------------------------------------------------------
(* What C says of it.                                                      *)

\* A number of a field: zeros go between what comes before its digits and the digits.
InField(before, digits, zeros, p) ==
  LET n == WidthOf(p) - Len(before) - Len(digits)
  IN  CASE "-" \in FlagsOf(p) -> before \o digits \o Rep(" ", n)
        [] zeros /\ "-" \notin FlagsOf(p) -> before \o Rep("0", n) \o digits
        [] OTHER -> Rep(" ", n) \o before \o digits

\* The quotient, to the nearest number, and to an even one between two.
Nearest(n, d) == n \div d + IF 2 * (n % d) > d \/ (2 * (n % d) = d /\ (n \div d) % 2 = 1) THEN 1 ELSE 0

MeantInteger(p) ==
  LET bits == SizeBits[p.size]
      n == CHOOSE k \in (IF p.key \in Integers10 THEN -(2^(bits - 1))..2^(bits - 1) - 1 ELSE 0..2^bits - 1) : (k - p.arg.n) % 2^bits = 0
      least == IF p.prec = <<>> THEN 1 ELSE p.prec[1]
      digits == IF n = 0 /\ least = 0 THEN "" ELSE Numeral(Magnitude(n), BaseOf(p.key), least, IF p.key = "X" THEN Capitals ELSE Numerals)
      alternate == IF "#" \notin p.flags \/ n = 0 THEN "" ELSE CASE p.key = "x" -> "0x" [] p.key = "X" -> "0X" [] p.key = "b" -> "0b" [] p.key = "o" -> "0" [] OTHER -> ""
      sign == IF p.key \in Integers10 THEN SignOf(n < 0, p.flags) ELSE ""
  IN  InField(sign \o alternate, digits, "0" \in p.flags /\ p.prec = <<>>, p)

MeantReal(p) ==
  LET places == IF p.prec = <<>> THEN DefaultPrecision ELSE p.prec[1]
      n == Nearest(p.arg.n * 10^places, Grain)
      digits == Numeral(n, 10, places + 1, Numerals)
      point == Len(digits) - places
      number == SubSeq(digits, 1, point) \o (IF places = 0 THEN "" ELSE ".") \o From(digits, point + 1)
  IN  CASE p.arg.kind = "nan" -> InField("", "nan", FALSE, p)
        [] p.arg.kind = "inf" -> InField(SignOf(p.arg.neg, p.flags), "inf", FALSE, p)
        [] OTHER -> InField(SignOf(p.arg.neg, p.flags), number, "0" \in p.flags, p)

\* The digits are those of the number nearest to the value; the exponent is its own.
MeantHexReal(p) ==
  LET places == IF p.prec = <<>> THEN HexDigits ELSE p.prec[1]
      all == p.arg.man + IF p.arg.n = 0 THEN 0 ELSE 16^HexDigits
      n == IF places >= HexDigits THEN all * 16^(places - HexDigits) ELSE Nearest(all, 16^(HexDigits - places))
      digits == Numeral(n, 16, places + 1, Table(FlagsOf(p)))
      power == IF all = 0 THEN 0 ELSE IF p.arg.n = 0 THEN 1 - Bias ELSE p.arg.n - Bias
      letters == IF p.key = "A" THEN <<"X", "P">> ELSE <<"x", "p">>
  IN  InField(SignOf(p.arg.neg, p.flags) \o "0" \o letters[1],
              SubSeq(digits, 1, 1) \o (IF places = 0 THEN "" ELSE ".") \o From(digits, 2) \o letters[2]
                \o (IF power < 0 THEN "-" ELSE "+") \o Numeral(Magnitude(power), 10, 1, Numerals), FALSE, p)

MeantConversion(p) ==
  CASE p.key = "text" -> p.arg.text
    [] p.key \in {"d", "i", "u", "x", "X", "o", "b"} -> MeantInteger(p)
    [] p.key \in {"f", "F"} -> MeantReal(p)
    [] p.key \in {"a", "A"} -> IF p.arg.kind = "finite" THEN MeantHexReal(p) ELSE MeantReal(p)
    [] p.key = "c" -> InField("", p.arg.text, FALSE, p)
    [] p.key = "s" -> InField("", IF p.prec = <<>> THEN p.arg.text ELSE SubSeq(p.arg.text, 1, Least(p.prec[1], Len(p.arg.text))), FALSE, p)
    [] p.key = "p" -> Numeral(p.arg.n, 16, PointerDigits, Capitals)
    [] OTHER -> p.key

\* The text is that of the conversions so far, one after the other; of the whole the
\* buffer gets the beginning that fits, and the caller its length (stdio.c).
PrintedRight ==
  LET meant == FoldLeft(LAMBDA s, p : s \o MeantConversion(p), "", SubSeq(Pieces, 1, piece - 1))
      room == IF print.room = 0 THEN 0 ELSE print.room - 1
  IN  /\ out = meant
      /\ printed # <<>> => printed = <<Len(meant), SubSeq(meant, 1, Least(room, Len(meant)))>>
=============================================================================
