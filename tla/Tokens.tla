------------------------------- MODULE Tokens -------------------------------
(***************************************************************************)
(* Characters, and the automata of the two lexers: lex in p.c for the      *)
(* tokens of C, lex in w.c for those of object files.  A character is a    *)
(* string; "h2" and "h3" stand for the first bytes of UTF-8 sequences of   *)
(* two and three bytes, "t" with a bar for a byte inside one.              *)
(***************************************************************************)
EXTENDS Integers, Sequences, TLC

Octal == {"0", "1", "2", "3", "4", "5", "6", "7"}
Digit == Octal \cup {"8", "9"}
HexLetter == {"a", "b", "c", "d", "e", "f", "A", "B", "C", "D", "E", "F"}
Hex == Digit \cup HexLetter
Lower == {"a", "b", "c", "d", "e", "f", "g", "h", "i", "j", "k", "l", "m",
          "n", "o", "p", "q", "r", "s", "t", "u", "v", "w", "x", "y", "z"}
Upper == {"A", "B", "C", "D", "E", "F", "G", "H", "I", "J", "K", "L", "M",
          "N", "O", "P", "Q", "R", "S", "T", "U", "V", "W", "X", "Y", "Z"}
Letter == Lower \cup Upper \cup {"_"}
Backquote == "backquote"   \* which a string of TLA+ may not have
Punct == {"!", "\"", "#", "$", "%", "&", "'", "(", ")", "*", "+", ",", "-", ".", "/", ":", ";", "<", "=",
          ">", "?", "@", "[", "\\", "]", "^", Backquote, "{", "|", "}", "~"}
Space == {" ", "\t", "\f"}
Heads == {"h2", "h3"}           \* is8chead
Inner == "t|"                   \* is8ctail
Char == Digit \cup Letter \cup Punct \cup Space \cup Heads \cup {Inner, "\n", "\r"}
EndOfFile == "EOF"

\* An automaton's row: what it does with a character, at the end of the file,
\* and with any other character, which it gives back.  An arc stores the
\* character in the token or not; it goes to a state (a number, or a name) or
\* ends the token with its kind.
Arc(S, store, to) == [chars |-> S, store |-> store, to |-> to]
To(S, to) == Arc(S, TRUE, to)
Skip(S, to) == Arc(S, FALSE, to)
Row(arcs, eof, other) == [arcs |-> arcs, eof |-> eof, other |-> other]
Either(arcs, end) == Row(arcs, end, end)

-----------------------------------------------------------------------------
(* The tokens of C.  States have the numbers of the code; "L", "UL" and    *)
(* "CR" are its second reads inside a state.                               *)
Single == << <<";", "SEMICOLON">>, <<",", "COMMA">>, <<"}", "RBRC">>, <<"{", "LBRC">>, <<"]", "RBRK">>, <<"[", "LBRK">>,
  <<")", "RPAR">>, <<"(", "LPAR">>, <<"?", "QMARK">>, <<":", "COLON">>, <<"~", "TILDE">> >>
Leading == << <<"^", "29">>, <<"%", "28">>, <<"|", "27">>, <<"&", "26">>, <<"!", "25">>, <<"=", "24">>, <<"<", "23">>, <<">", "22">>, <<"#", "21">>,
  <<"-", "9">>, <<"+", "8">>, <<".", "7">>, <<"0", "6">>, <<"*", "3">>, <<"/", "2">> >>
OneOf(table) == [i \in DOMAIN table |-> To({table[i][1]}, table[i][2])]

FirstChar ==
  "0" :> Either(OneOf(Leading) \o OneOf(Single)
        \o << Skip({"\""}, "11"), Skip({"'"}, "10"), To(Digit \ {"0"}, "5"), Skip({"L"}, "4L"), To(Letter \ {"L"}, "4"), To(Space, "1"),
              Skip({"\r"}, "CR"), To({"\n"}, "WHITESPACE") >>, "EOF")
  @@ "CR" :> Row(<<To({"\n"}, "WHITESPACE")>>, "EOF", "EOF")

SpacesAndNames ==
     "1" :> Either(<<To(Space, "1")>>, "WHITESPACE")
  @@ "2" :> Either(<<To({"*"}, "76"), To({"/"}, "75"), To({"="}, "SLASH_ASN")>>, "SLASH")
  @@ "3" :> Either(<<To({"="}, "STAR_ASN")>>, "STAR")
  @@ "4L" :> Either(<<Skip({"\""}, "11"), Skip({"'"}, "10"), To(Digit \cup Letter, "4")>>, "IDENTIFIER")
  @@ "4" :> Either(<<To(Digit \cup Letter, "4")>>, "IDENTIFIER")

IntSuffixes == << Skip({"U", "u"}, "74"), Skip({"L", "l"}, "L") >>
Numbers ==
     "5" :> Either(IntSuffixes \o <<To({"."}, "66"), To({"E", "e"}, "62"), To(Digit, "5")>>, "INT")
  @@ "6" :> Either(IntSuffixes \o <<To({"."}, "66"), To({"8", "9"}, "65"), To(Octal, "64"), To({"E", "e"}, "62"), To({"X", "x"}, "61")>>, "INT")
  @@ "64" :> Either(IntSuffixes \o <<To({"."}, "66"), To({"8", "9"}, "65"), To(Octal, "64"), To({"E", "e"}, "62")>>, "INT")
  @@ "65" :> Either(<<To({"."}, "66"), To(Digit, "65"), To({"E", "e"}, "62")>>, "EOF")
Signs ==
     "7" :> Either(<<To({"."}, "55"), To(Digit, "54")>>, "DOT")
  @@ "8" :> Either(<<To({"+"}, "PLUS_PLUS"), To({"="}, "PLUS_ASN")>>, "PLUS")
  @@ "9" :> Either(<<To({"-"}, "MINUS_MINUS"), To({"="}, "MINUS_ASN"), To({">"}, "ARROW")>>, "MINUS")

\* A character or string ends at its quote; a literal with the prefix L is of another kind.
Quote(q, kind) == Skip({q}, kind)
Ordinary(quote) == Char \ {"\n", quote, "\\"}
Literals ==
     "10" :> Either(<<To({"\\"}, "44"), To({"h2"}, "78"), To({"h3"}, "79"), To(Ordinary("'"), "43")>>, "EOF")
  @@ "79" :> Either(<<To({Inner}, "78")>>, "EOF")
  @@ "78" :> Either(<<To({Inner}, "43")>>, "EOF")
  @@ "11" :> Either(<<To({"\\"}, "34"), Quote("\"", "STRING"), To(Ordinary("\""), "11")>>, "EOF")
Operators ==
     "21" :> Either(<<To({"#"}, "HASHHASH")>>, "HASH")
  @@ "22" :> Either(<<To({">"}, "31"), To({"="}, "GE")>>, "GT")
  @@ "23" :> Either(<<To({"<"}, "30"), To({"="}, "LE")>>, "LT")
  @@ "24" :> Either(<<To({"="}, "EQ")>>, "ASN")      @@ "25" :> Either(<<To({"="}, "NE")>>, "NOT")
  @@ "26" :> Either(<<To({"&"}, "AND_AND"), To({"="}, "AND_ASN")>>, "AND")
  @@ "27" :> Either(<<To({"="}, "OR_ASN"), To({"|"}, "OR_OR")>>, "OR")
  @@ "28" :> Either(<<To({"="}, "REM_ASN")>>, "REM") @@ "29" :> Either(<<To({"="}, "XOR_ASN")>>, "XOR")
  @@ "30" :> Either(<<To({"="}, "SHL_ASN")>>, "SHL") @@ "31" :> Either(<<To({"="}, "SHR_ASN")>>, "SHR")

Escaped == {"\"", "'", "?", "\\", "a", "b", "f", "n", "r", "t", "v"}
StringEscapes ==
     "34" :> Either(<<To(Octal, "37"), To({"u"}, "36"), To({"x"}, "35"), To(Escaped, "11")>>, "EOF")
  @@ "35" :> Either(<<To(Hex, "42")>>, "EOF")
  @@ "36" :> Either(<<To(Hex, "39")>>, "EOF")
  @@ "37" :> Either(<<To(Octal, "38"), To({"\\"}, "34"), Quote("\"", "STRING"), To(Ordinary("\"") \ Octal, "11")>>, "EOF")
  @@ "38" :> Either(<<To({"\\"}, "34"), Quote("\"", "STRING"), To(Ordinary("\""), "11")>>, "EOF")
  @@ "39" :> Either(<<To(Hex, "40")>>, "EOF")
  @@ "40" :> Either(<<To(Hex, "41")>>, "EOF")
  @@ "41" :> Either(<<To(Hex, "11")>>, "EOF")
  @@ "42" :> Either(<<To(Hex, "42"), To({"\\"}, "34"), Quote("\"", "STRING"), To(Ordinary("\"") \ Hex, "11")>>, "EOF")
CharEscapes ==
     "43" :> Either(<<Quote("'", "CHAR")>>, "EOF")
  @@ "44" :> Either(<<To(Octal, "47"), To({"u"}, "46"), To({"x"}, "45"), To(Escaped, "43")>>, "EOF")
  @@ "45" :> Either(<<To(Hex, "53")>>, "EOF")
  @@ "46" :> Either(<<To(Hex, "50")>>, "EOF")
  @@ "47" :> Either(<<Quote("'", "CHAR"), To(Octal, "48")>>, "EOF")
  @@ "48" :> Either(<<Quote("'", "CHAR"), To(Octal, "43")>>, "EOF")
  @@ "50" :> Either(<<To(Hex, "51")>>, "EOF")
  @@ "51" :> Either(<<To(Hex, "52")>>, "EOF")
  @@ "52" :> Either(<<To(Hex, "43")>>, "EOF")
  @@ "53" :> Either(<<To(Hex, "53"), Quote("'", "CHAR")>>, "EOF")

Fractions ==
     "54" :> Either(<<Skip({"F", "f"}, "FLOAT"), To({"E", "e"}, "57"), To(Digit, "54")>>, "DOUBLE")
  @@ "55" :> Either(<<To({"."}, "ELLIPSIS")>>, "EOF")
  @@ "57" :> Either(<<To({"+", "-"}, "59"), To(Digit, "58")>>, "EOF")
  @@ "58" :> Either(<<Skip({"F", "f"}, "FLOAT"), To(Digit, "58")>>, "DOUBLE")
  @@ "59" :> Either(<<To(Digit, "58")>>, "EOF")
\* Mutant: the digit after the sign of an exponent may be missing.
Exponents_NoDigit ==
     "61" :> Either(<<To({"."}, "90"), To(Hex, "70")>>, "EOF")
  @@ "62" :> Either(<<To({"+", "-"}, "68"), To(Digit, "68")>>, "EOF")
  @@ "66" :> Either(<<Skip({"F", "f"}, "FLOAT"), To({"E", "e"}, "57"), To(Digit, "54")>>, "DOUBLE")
  @@ "68" :> Either(<<Skip({"F", "f"}, "FLOAT"), To(Digit, "68")>>, "DOUBLE")
  @@ "69" :> Either(<<To(Digit, "68")>>, "EOF")
  @@ "70" :> Either(IntSuffixes \o <<To({"."}, "91"), To({"P", "p"}, "62"), To(Hex, "70")>>, "INT")
Exponents ==
     "61" :> Either(<<To({"."}, "90"), To(Hex, "70")>>, "EOF")
  @@ "62" :> Either(<<To({"+", "-"}, "69"), To(Digit, "68")>>, "EOF")
  @@ "66" :> Either(<<Skip({"F", "f"}, "FLOAT"), To({"E", "e"}, "57"), To(Digit, "54")>>, "DOUBLE")
  @@ "68" :> Either(<<Skip({"F", "f"}, "FLOAT"), To(Digit, "68")>>, "DOUBLE")
  @@ "69" :> Either(<<To(Digit, "68")>>, "EOF")
  @@ "70" :> Either(IntSuffixes \o <<To({"."}, "91"), To({"P", "p"}, "62"), To(Hex, "70")>>, "INT")
\* "L" has read one l: what is no second one is given back, and read again by 73.
SuffixRows ==
     "L" :> Row(<<Skip({"L", "l"}, "LL")>>, "73", "73")
  @@ "73" :> Either(<<Skip({"U", "u"}, "ULONG")>>, "LONG")
  @@ "LL" :> Either(<<Skip({"U", "u"}, "ULLONG")>>, "LLONG")
  @@ "74" :> Either(<<Skip({"L", "l"}, "UL")>>, "UINT")
  @@ "UL" :> Either(<<Skip({"L", "l"}, "ULLONG")>>, "ULONG")
Comments ==
     "75" :> Row(<<To(Char \ {"\n"}, "75")>>, "EOF", "WHITESPACE")
  @@ "76" :> Either(<<To({"*"}, "77"), To(Char \ {"*"}, "76")>>, "EOF")
  @@ "77" :> Either(<<To({"*"}, "77"), To({"/"}, "WHITESPACE"), To(Char \ {"*", "/"}, "76")>>, "EOF")
HexFractions ==
     "90" :> Either(<<To(Hex, "91")>>, "EOF")
  @@ "91" :> Either(<<To({"P", "p"}, "62"), To(Hex, "91")>>, "EOF")

CRows == FirstChar @@ SpacesAndNames @@ Numbers @@ Signs @@ Literals @@ Operators @@ StringEscapes @@ CharEscapes
  @@ Fractions @@ Exponents @@ SuffixRows @@ Comments @@ HexFractions

\* The text of an identifier that begins with L, and the kind of a literal after one.
CToken(kind, long, text) ==
  [kind |-> CASE long /\ kind = "CHAR" -> "LCHAR" [] long /\ kind = "STRING" -> "LSTRING" [] OTHER -> kind,
   text |-> IF long /\ kind = "IDENTIFIER" THEN <<"L">> \o text ELSE text]

-----------------------------------------------------------------------------
(* The tokens of object files.  States have the numbers of the code; those *)
(* of block comments are named.                                            *)
Blank == {"\t", "\n", "\f", "\r", " "}
IdHead == Letter \cup {"!", "#", "$", "%", "&", "'", "*", ".", "/", ":", "<", "=", ">", "?", "@", "\\", "^", "|", "~", Backquote}
IdChar == IdHead \cup Digit \cup {"+", "-", ","}
Exponent == {"E", "e"}

WatFirstChar ==
  "0" :> Either(<< To({"\""}, "9"), To({"0"}, "8"), To(Digit, "7"), To({"+", "-"}, "6"), To(IdHead, "5"), To({")"}, "RPAR"),
    To({"("}, "3"), To({";"}, "2"), To(Blank, "1") >>, "EOF")
WatSimple ==
     "1" :> Either(<<To(Blank, "1")>>, "WHITESPACE")
  @@ "2" :> Either(<<To({";"}, "43")>>, "EOF")
  @@ "3" :> Either(<<To({";"}, "BCSTART")>>, "LPAR")
  @@ "5" :> Either(<<To(IdChar, "5")>>, "IDCHARS")
  @@ "6" :> Either(<<To({"i"}, "38"), To({"n"}, "37"), To({"0"}, "8"), To(Digit, "7")>>, "EOF")
WatNumbers ==
     "7" :> Either(<<To({"."}, "22"), To(Exponent, "21"), To(Digit, "7")>>, "INT")
  @@ "8" :> Either(<<To(Digit, "23"), To({"."}, "22"), To(Exponent, "21"), To({"X", "x"}, "20")>>, "INT")
WatStrings ==
     "9" :> Either(<<To({"\""}, "STRING"), To({"\\"}, "12"), To({"h2"}, "46"), To({"h3"}, "47"), To(Char \ {"\n"}, "9")>>, "EOF")
  @@ "47" :> Either(<<To({Inner}, "46")>>, "EOF")
  @@ "46" :> Either(<<To({Inner}, "9")>>, "EOF")
\* 12 gives a hexadecimal digit back, for 15 to read.
WatEscapes ==
     "12" :> Either(<<To({"u"}, "16"), To(Hex, "19"), To(Blank \ {"\f"}, "14"), To({"\"", "'", "\\", "n", "r", "t"}, "9")>>, "EOF")
  @@ "14" :> Either(<<To(Blank \ {"\f"}, "14"), To({"\\"}, "9")>>, "EOF")
  @@ "16" :> Either(<<To({"{"}, "17")>>, "EOF")
  @@ "17" :> Either(<<To(Hex, "18")>>, "EOF")
  @@ "18" :> Either(<<To(Hex, "18"), To({"}"}, "9")>>, "EOF")
  @@ "19" :> Either(<<To(Hex, "9")>>, "EOF")
WatFloats ==
     "20" :> Either(<<To(Hex, "29")>>, "EOF")
  @@ "21" :> Either(<<To(Digit, "28"), To({"+", "-"}, "27")>>, "EOF")
  @@ "22" :> Either(<<To(Exponent, "24"), To(Digit, "22")>>, "FLOAT")
  @@ "23" :> Either(<<To(Digit, "23"), To({"."}, "22"), To(Exponent, "21")>>, "EOF")
  @@ "24" :> Either(<<To(Digit, "26"), To({"+", "-"}, "25")>>, "EOF")
  @@ "25" :> Either(<<To(Digit, "26")>>, "EOF")
  @@ "26" :> Either(<<To(Digit, "26")>>, "FLOAT")
  @@ "27" :> Either(<<To(Digit, "28")>>, "EOF")
  @@ "28" :> Either(<<To(Digit, "28")>>, "FLOAT")
WatHexFloats ==
     "29" :> Either(<<To({"P", "p"}, "31"), To({"."}, "30"), To(Hex, "29")>>, "INT")
  @@ "30" :> Either(<<To({"P", "p"}, "34"), To(Hex, "30")>>, "FLOAT")
  @@ "31" :> Either(<<To(Digit, "33"), To({"+", "-"}, "32")>>, "EOF")
  @@ "32" :> Either(<<To(Digit, "33")>>, "EOF")
  @@ "33" :> Either(<<To(Digit, "33")>>, "FLOAT")
  @@ "34" :> Either(<<To(Digit, "36"), To({"+", "-"}, "35")>>, "EOF")
  @@ "35" :> Either(<<To(Digit, "36")>>, "EOF")
  @@ "36" :> Either(<<To(Digit, "36")>>, "FLOAT")
WatWords ==
     "37" :> Either(<<To({"a"}, "41")>>, "EOF")
  @@ "38" :> Either(<<To({"n"}, "39")>>, "EOF")
  @@ "39" :> Either(<<To({"f"}, "FLOAT")>>, "EOF")
  @@ "41" :> Either(<<To({"n"}, "FLOAT")>>, "EOF")
WatLineComments ==
     "43" :> Either(<<To({"\n"}, "LC"), To(Char, "44")>>, "EOF")
  @@ "44" :> Either(<<To({"\n"}, "LC"), To(Char, "44")>>, "EOF")

\* lexbc, the inside of a block comment: (; opens one in it, ;) closes the innermost.
BlockComments ==
     "bc" :> Either(<<Skip({"("}, "bc("), Skip({";"}, "bc;"), Skip(Char, "bc")>>, "EOF")
  @@ "bc(" :> Either(<<Skip({";"}, "open"), Skip(Char, "bc")>>, "EOF")
  @@ "bc;" :> Either(<<Skip({")"}, "close"), Skip(Char, "bc")>>, "EOF")

WatRows == WatFirstChar @@ WatSimple @@ WatNumbers @@ WatStrings @@ WatEscapes @@ WatFloats @@ WatHexFloats @@ WatWords
  @@ WatLineComments @@ BlockComments

\* peekt: words by their first character.
WatToken(kind, text) ==
  [kind |-> CASE kind # "IDCHARS" -> kind
              [] text[1] = "$" -> "ID"
              [] text[1] \in Lower -> "KEYWORD"
              [] OTHER -> "RESERVED", text |-> text]
=============================================================================
