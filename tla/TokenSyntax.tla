---------------------------- MODULE TokenSyntax ----------------------------
(***************************************************************************)
(* What the tokens of C and of object files are, as regular expressions,   *)
(* matched by derivatives: the reference for the two lexers.               *)
(***************************************************************************)
EXTENDS Tokens, SequencesExt, FiniteSetsExt

Nul == [op |-> "nul"]                 \* no text
Eps == [op |-> "eps"]                 \* the empty text
From(S) == [op |-> "any", of |-> S]    \* a character of S
Cat2(a, b) == IF a = Nul \/ b = Nul THEN Nul ELSE IF a = Eps THEN b ELSE IF b = Eps THEN a
              ELSE [op |-> "cat", a |-> a, b |-> b]
Alt2(a, b) == IF a = Nul \/ a = b THEN b ELSE IF b = Nul THEN a ELSE [op |-> "alt", a |-> a, b |-> b]
Star(a) == [op |-> "star", of |-> a]
Cat(rs) == FoldRight(Cat2, rs, Eps)
Alt(rs) == FoldRight(Alt2, rs, Nul)
Opt(a) == Alt2(a, Eps)
Plus(a) == Cat2(a, Star(a))
Ch(c) == From({c})
Exactly(text) == Cat([i \in DOMAIN text |-> Ch(text[i])])

RECURSIVE Nullable(_)
Nullable(r) == CASE r.op \in {"eps", "star"} -> TRUE
                 [] r.op \in {"nul", "any"} -> FALSE
                 [] r.op = "cat" -> Nullable(r.a) /\ Nullable(r.b)
                 [] r.op = "alt" -> Nullable(r.a) \/ Nullable(r.b)

\* What may follow c in the texts of r.
RECURSIVE Deriv(_, _)
Deriv(r, c) == CASE r.op \in {"eps", "nul"} -> Nul
                 [] r.op = "any" -> IF c \in r.of THEN Eps ELSE Nul
                 [] r.op = "cat" -> Alt2(Cat2(Deriv(r.a, c), r.b), IF Nullable(r.a) THEN Deriv(r.b, c) ELSE Nul)
                 [] r.op = "alt" -> Alt2(Deriv(r.a, c), Deriv(r.b, c))
                 [] r.op = "star" -> Cat2(Deriv(r.of, c), r)

-----------------------------------------------------------------------------
Sign == From({"+", "-"})
Digits == Plus(From(Digit))
HexDigits == Plus(From(Hex))
Power(e) == Cat(<<From(e), Opt(Sign), Digits>>)
Decimal == Cat2(From(Digit \ {"0"}), Star(From(Digit)))
HexInt == Cat(<<Ch("0"), From({"x", "X"}), HexDigits>>)

CInt == Alt(<<Decimal, Cat2(Ch("0"), Star(From(Octal))), HexInt>>)
CReal == Alt(<< Cat(<<Digits, Ch("."), Star(From(Digit)), Opt(Power({"e", "E"}))>>), Cat(<<Ch("."), Digits, Opt(Power({"e", "E"}))>>),
  Cat2(Digits, Power({"e", "E"})), Cat2(HexInt, Power({"p", "P"})),
  Cat(<<Ch("0"), From({"x", "X"}), Alt(<<Cat(<<HexDigits, Ch("."), Star(From(Hex))>>), Cat2(Ch("."), HexDigits)>>), Power({"p", "P"})>>) >>)
UnsignedMark == From({"u", "U"})
LongMark == From({"l", "L"})
Escape == Cat2(Ch("\\"), Alt(<< From({"\"", "'", "?", "\\", "a", "b", "f", "n", "r", "t", "v"}),
  Cat(<<From(Octal), Opt(From(Octal)), Opt(From(Octal))>>), Cat2(Ch("x"), HexDigits),
  Cat(<<Ch("u"), From(Hex), From(Hex), From(Hex), From(Hex)>>) >>))
Utf8 == Alt2(Cat2(Ch("h2"), Ch(Inner)), Cat(<<Ch("h3"), Ch(Inner), Ch(Inner)>>))
CChar == Cat(<<Ch("'"), Alt(<<Escape, Utf8, From(Char \ (Heads \cup {"\n", "'", "\\"}))>>), Ch("'")>>)
CString == Cat(<<Ch("\""), Star(Alt2(Escape, From(Char \ {"\n", "\"", "\\"}))), Ch("\"")>>)
\* From the slash and star on, up to the first star and slash.
CComment == Cat(<<Exactly(<<"/", "*">>), Star(Alt2(From(Char \ {"*"}), Cat2(Plus(Ch("*")), From(Char \ {"*", "/"})))), Plus(Ch("*")), Ch("/")>>)
LineComment == Cat(<<Exactly(<<"/", "/">>), Star(From(Char \ {"\n"}))>>)

COperators == << <<"LPAR", "(">>, <<"RPAR", ")">>, <<"LBRK", "[">>, <<"RBRK", "]">>, <<"LBRC", "{">>, <<"RBRC", "}">>, <<"COMMA", ",">>,
  <<"SEMICOLON", ";">>, <<"ELLIPSIS", ".", ".", ".">>, <<"AND_AND", "&", "&">>, <<"OR_OR", "|", "|">>, <<"NOT", "!">>,
  <<"PLUS_PLUS", "+", "+">>, <<"MINUS_MINUS", "-", "-">>, <<"HASH", "#">>, <<"HASHHASH", "#", "#">>, <<"PLUS", "+">>,
  <<"PLUS_ASN", "+", "=">>, <<"MINUS", "-">>, <<"MINUS_ASN", "-", "=">>, <<"AND", "&">>, <<"AND_ASN", "&", "=">>, <<"OR", "|">>,
  <<"OR_ASN", "|", "=">>, <<"XOR", "^">>, <<"XOR_ASN", "^", "=">>, <<"REM", "%">>, <<"REM_ASN", "%", "=">>, <<"SLASH", "/">>,
  <<"SLASH_ASN", "/", "=">>, <<"STAR", "*">>, <<"STAR_ASN", "*", "=">>, <<"SHL", "<", "<">>, <<"SHL_ASN", "<", "<", "=">>,
  <<"SHR", ">", ">">>, <<"SHR_ASN", ">", ">", "=">>, <<"LT", "<">>, <<"LE", "<", "=">>, <<"GT", ">">>, <<"GE", ">", "=">>,
  <<"EQ", "=", "=">>, <<"NE", "!", "=">>, <<"DOT", ".">>, <<"ARROW", "-", ">">>, <<"ASN", "=">>, <<"QMARK", "?">>, <<"COLON", ":">>,
  <<"TILDE", "~">> >>
CSyntax ==
  [k \in {COperators[i][1] : i \in DOMAIN COperators} |-> Exactly(Tail(COperators[CHOOSE i \in DOMAIN COperators : COperators[i][1] = k]))]
  @@ [ INT |-> CInt, UINT |-> Cat2(CInt, UnsignedMark), LONG |-> Cat2(CInt, LongMark), LLONG |-> Cat(<<CInt, LongMark, LongMark>>),
       ULONG |-> Cat2(CInt, Alt2(Cat2(UnsignedMark, LongMark), Cat2(LongMark, UnsignedMark))),
       ULLONG |-> Cat2(CInt, Alt2(Cat(<<UnsignedMark, LongMark, LongMark>>), Cat(<<LongMark, LongMark, UnsignedMark>>))),
       DOUBLE |-> CReal,
       \* a hexadecimal f is a digit, so the mark can only follow an exponent there
       FLOAT |-> Cat2(CReal, From({"f", "F"})),
       CHAR |-> CChar, STRING |-> CString, LCHAR |-> Cat2(Ch("L"), CChar), LSTRING |-> Cat2(Ch("L"), CString),
       IDENTIFIER |-> Cat2(From(Letter), Star(From(Letter \cup Digit))),
       SPACE |-> Alt(<<Plus(From({" ", "\t", "\f"})), CComment, LineComment>>), NEWLINE |-> Cat2(Opt(Ch("\r")), Ch("\n")) ]

WatFloat == Alt(<< Cat(<<Digits, Ch("."), Star(From(Digit)), Opt(Power({"e", "E"}))>>), Cat2(Digits, Power({"e", "E"})),
  Cat2(HexInt, Power({"p", "P"})), Cat(<<HexInt, Ch("."), Star(From(Hex)), Opt(Power({"p", "P"}))>>) >>)
WatString == Cat(<<Ch("\""), Star(Alt(<< From(Char \ (Heads \cup {"\n", "\"", "\\"})), Utf8,
  Cat2(Ch("\\"), Alt(<< From({"\"", "'", "\\", "n", "r", "t"}), Cat2(From(Hex), From(Hex)), Cat(<<Exactly(<<"u", "{">>), HexDigits, Ch("}")>>),
                        Cat2(Plus(From({" ", "\t", "\n", "\r"})), Ch("\\")) >>)) >>)), Ch("\"")>>)
WordHead == Char \ (Digit \cup Heads \cup {Inner, "\"", "(", ")", "+", ",", "-", ";", "[", "]", "{", "}", " ", "\t", "\f", "\n", "\r"})
Word(S) == Cat2(From(S), Star(From(WordHead \cup Digit \cup {"+", "-", ","})))
WatSyntax ==
  [ LPAR |-> Ch("("), RPAR |-> Ch(")"), ID |-> Word({"$"}), KEYWORD |-> Word(Lower), RESERVED |-> Word(WordHead \ (Lower \cup {"$"})),
    INT |-> Cat2(Opt(Sign), Alt(<<Ch("0"), Decimal, HexInt>>)),
    FLOAT |-> Alt2(Cat2(Opt(Sign), WatFloat), Cat2(Sign, Alt2(Exactly(<<"i", "n", "f">>), Exactly(<<"n", "a", "n">>)))),
    STRING |-> WatString, SPACE |-> Alt2(Plus(From({" ", "\t", "\f", "\n", "\r"})), Cat(<<Exactly(<<";", ";">>), Star(From(Char \ {"\n"})), Ch("\n")>>)) ]

-----------------------------------------------------------------------------
(* The longest text that can begin a token must be one.                     *)

Live(rs) == LET ks == {k \in DOMAIN rs : rs[k] # Nul} IN [k \in ks |-> rs[k]]
After(live, c) == Live([k \in DOMAIN live |-> Deriv(live[k], c)])
CFirst == [c \in Char |-> After(CSyntax, c)]
WatFirst == [c \in Char |-> After(WatSyntax, c)]

\* From position p on: [kinds, p], the kinds of the text read and where it ends.
RECURSIVE Munch(_, _, _)
Munch(live, text, p) ==
  IF p > Len(text) THEN [live |-> live, p |-> p]
  ELSE LET next == After(live, text[p])
       IN  IF DOMAIN next = {} THEN [live |-> live, p |-> p] ELSE Munch(next, text, p + 1)

\* Where the block comment that is open at p ends; 0 if it does not.
RECURSIVE CommentEnd(_, _, _)
CommentEnd(text, p, depth) ==
  CASE p >= Len(text) -> 0
    [] text[p] = "(" /\ text[p + 1] = ";" -> CommentEnd(text, p + 2, depth + 1)
    [] text[p] = ";" /\ text[p + 1] = ")" -> IF depth = 1 THEN p + 2 ELSE CommentEnd(text, p + 2, depth - 1)
    [] OTHER -> CommentEnd(text, p + 1, depth)

\* What is left of a token's text for the parser: no quotes, prefix or suffix.
Trimmed(kind, text) ==
  LET n == Len(text)
      suffix == CASE kind \in {"UINT", "LONG", "FLOAT"} -> 1 [] kind \in {"ULONG", "LLONG"} -> 2 [] kind = "ULLONG" -> 3 [] OTHER -> 0
  IN  CASE kind \in {"CHAR", "STRING"} -> SubSeq(text, 2, n - 1)
        [] kind \in {"LCHAR", "LSTRING"} -> SubSeq(text, 3, n - 1)
        [] OTHER -> SubSeq(text, 1, n - suffix)

\* The tokens of a text, spaces left out, newlines of C kept one by one.
RECURSIVE Tokenized(_, _, _, _)
Tokenized(lang, text, p, toks) ==
  LET first == IF lang = "c" THEN CFirst ELSE WatFirst
      m == Munch(first[text[p]], text, p + 1)
      kinds == {k \in DOMAIN m.live : Nullable(m.live[k])}
      kind == CHOOSE k \in kinds : TRUE
      part == SubSeq(text, p, m.p - 1)
      end == CommentEnd(text, p + 2, 1)
  IN  CASE p > Len(text) -> [tokens |-> toks, ok |-> TRUE]
        [] lang = "wat" /\ p < Len(text) /\ text[p] = "(" /\ text[p + 1] = ";" ->
             IF end = 0 THEN [tokens |-> toks, ok |-> FALSE] ELSE Tokenized(lang, text, end, toks)
        [] kinds = {} -> [tokens |-> toks, ok |-> DOMAIN m.live # {} /\ m.p > Len(text)]
        [] kind = "SPACE" -> Tokenized(lang, text, m.p, toks)
        [] kind = "NEWLINE" -> Tokenized(lang, text, m.p, IF toks = <<>> \/ Last(toks).kind = "NEWLINE" THEN toks
                                                          ELSE Append(toks, [kind |-> kind, text |-> <<"\n">>]))
        [] OTHER -> Tokenized(lang, text, m.p,
                              Append(toks, [kind |-> kind, text |-> IF lang = "c" THEN Trimmed(kind, part) ELSE part]))
=============================================================================
