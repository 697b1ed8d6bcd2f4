------------------------------- MODULE CWriter -------------------------------
(***************************************************************************)
(* Trees written as the tokens of C, by the grammar of the language and    *)
(* not by the parser: operators by their precedence, declarations around   *)
(* the name.  dense: as many parentheses as may be, and other freedoms.    *)
(***************************************************************************)
EXTENDS CTypes

Token(tt, s, val, data) == [tt |-> tt, s |-> s, val |-> val, data |-> data, near |-> TRUE]
Spelled(w) == <<Token("word", w, 0, <<>>)>>
Mark(s) == <<Token(s, s, 0, <<>>)>>
Number(ts, v) == <<Token(ts, "", v, <<>>)>>
Marks == {"(", ")", "[", "]", "{", "}", "<", ">", ",", ";", ":", "?", "=", "#", ".", "...", "*", "+", "-", "/", "&", "!", "+=", "->", "++"}
Numeral == ("0" :> 0) @@ ("1" :> 1) @@ ("2" :> 2) @@ ("3" :> 3) @@ ("4" :> 4) @@ ("5" :> 5) @@ ("8" :> 8) @@ ("16" :> 16)
  @@ ("127" :> 127) @@ ("128" :> 128)
\* Words, signs and numbers in order; " " stands for a space that matters, a word after "@" is a string.
Tokens(ws) ==
  LET kept == SelectSeq(ForEach(LAMBDA i : i, Len(ws)), LAMBDA i : ws[i] \notin {" ", "@"})
      one(i) == CASE i > 1 /\ ws[i - 1] = "@" -> <<Token("STRING", ws[i], 0, <<7, 8>>)>>
                  [] ws[i] \in Marks -> Mark(ws[i]) [] ws[i] \in DOMAIN Numeral -> Number("INT", Numeral[ws[i]]) [] OTHER -> Spelled(ws[i])
      near(i) == i = Len(ws) \/ ws[i + 1] # " "
  IN  FlattenSeq(ForEach(LAMBDA k : <<[one(kept[k])[1] EXCEPT !.near = near(kept[k])]>>, Len(kept)))

Sep(parts, sign) == FlattenSeq(ForEach(LAMBDA i : IF i = 1 THEN parts[i] ELSE Mark(sign) \o parts[i], Len(parts)))
In(open, ws, close) == Mark(open) \o ws \o Mark(close)

BinaryOperators == << <<"*", "/", "%">>, <<"+", "-">>, <<"<<", ">>">>, <<"<", ">", "<=", ">=">>, <<"==", "!=">>, <<"&">>, <<"^">>, <<"|">>, <<"&&">>, <<"||">> >>
Strength == [op \in UNION {Range(BinaryOperators[i]) : i \in DOMAIN BinaryOperators} |->
  14 - (CHOOSE i \in DOMAIN BinaryOperators : op \in Range(BinaryOperators[i]))]
Level(n) ==
  CASE n.nt = "comma" -> 1 [] n.nt = "assign" -> 2 [] n.nt = "cond" -> 3 [] n.nt = "infix" -> Strength[n.op]
    [] n.nt \in {"cast", "display"} -> 14 [] n.nt = "prefix" -> 15 [] OTHER -> 16

TypeWords == ("UNION" :> <<"union">>) @@ [VOID |-> <<"void">>, CHAR |-> <<"char">>, UCHAR |-> <<"unsigned", "char">>, SHORT |-> <<"short">>, USHORT |-> <<"unsigned", "short">>,
  INT |-> <<"int">>, UINT |-> <<"unsigned">>, LONG |-> <<"long">>, ULONG |-> <<"size_t">>, LLONG |-> <<"long", "long">>, ULLONG |-> <<"unsigned", "long", "long">>,
  FLOAT |-> <<"float">>, DOUBLE |-> <<"double">>, BOOL |-> <<"bool">>, STRUCT |-> <<"struct">>, ENUM |-> <<"enum">>]

RECURSIVE Expr(_, _, _), Declaration(_, _, _)
Base(t, dense) ==
  IF t.name = "va_arg" THEN Spelled("va_arg_t")
  ELSE FlattenSeq(ForEach(LAMBDA i : Spelled(TypeWords[t.ts][i]), Len(TypeWords[t.ts]))) \o (IF t.name = "" THEN <<>> ELSE Spelled(t.name))
         \o (IF t.ts \notin {"STRUCT", "UNION"} \/ t.x = <<>> THEN <<>>
             ELSE In("{", FlattenSeq(ForEach(LAMBDA i : Declaration(t.x[i].x[1], Spelled(t.x[i].name), dense) \o Mark(";"), Len(t.x))), "}"))
\* The declaration of d as a t.
Declaration(t, d, dense) ==
  LET pars == ForEach(LAMBDA i : IF t.x[i + 1].x[1].ts = "ETC" THEN Mark("...")
                                 ELSE Declaration(t.x[i + 1].x[1], IF t.x[i + 1].name = "" THEN <<>> ELSE Spelled(t.x[i + 1].name), dense), Len(t.x) - 1)
      inner == Mark("*") \o (IF dense THEN Spelled("const") ELSE <<>>) \o d
  IN  CASE t.ts = "PTR" -> Declaration(t.x[1], IF t.x[1].ts \in {"ARRAY", "FUNCTION"} \/ (dense /\ d # <<>>) THEN In("(", inner, ")") ELSE inner, dense)
        [] t.ts = "ARRAY" -> Declaration(t.x[1], d \o In("[", IF t.val = 0 THEN <<>> ELSE Number("INT", t.val), "]"), dense)
        [] t.ts = "FUNCTION" -> Declaration(t.x[1], d \o In("(", IF pars = <<>> /\ dense THEN Spelled("void") ELSE Sep(pars, ","), ")"), dense)
        [] OTHER -> Base(t, dense) \o d
TypeText(t, dense) == Declaration(t, <<>>, dense)

\* An expression where one that binds as min is wanted.
Expr(n, min, dense) ==
  LET e(i, m) == Expr(n.x[i], m, dense)
      any(i) == IF n.x[i].nt = "type" THEN TypeText(n.x[i], dense) ELSE e(i, 2)
      list(from, m) == Sep(ForEach(LAMBDA i : e(from + i - 1, m), Len(n.x) - from + 1), ",")
      label(i) == IF n.x[2 * i].nt = "null" THEN Spelled("default") ELSE (IF dense THEN Spelled("case") ELSE <<>>) \o any(2 * i)
      choice(i) == label(i) \o Mark(":") \o e(2 * i + 1, 2)
      choices == ForEach(choice, (Len(n.x) - 1) \div 2)
      text ==
        CASE n.nt = "literal" /\ n.ts \in {"STRING", "LSTRING"} -> <<Token(n.ts, "", 0, Front(n.code))>>
          [] n.nt = "literal" -> Number(n.ts, n.val)
          [] n.nt = "identifier" -> Spelled(n.name)
          [] n.nt = "subscript" -> e(1, 16) \o In("[", e(2, 1), "]")
          [] n.nt = "call" -> e(1, 16) \o In("(", list(2, 2), ")")
          [] n.nt = "postfix" -> e(1, 16) \o Mark(n.op) \o (IF n.name = "" THEN <<>> ELSE Spelled(n.name))
          [] n.nt = "prefix" -> Mark(n.op) \o e(1, 14)
          [] n.nt = "infix" -> e(1, Level(n)) \o Mark(n.op) \o e(2, Level(n) + 1)
          [] n.nt = "cast" -> In("(", TypeText(n.x[1], dense), ")") \o e(2, 14)
          [] n.nt = "cond" -> e(1, 4) \o Mark("?") \o e(2, 1) \o Mark(":") \o e(3, 3)
          [] n.nt = "assign" -> e(1, 15) \o Mark(n.op) \o e(2, 2)
          [] n.nt = "comma" -> e(1, 1) \o Mark(",") \o e(2, 2)
          [] n.nt = "display" -> (IF min = 0 THEN <<>> ELSE In("(", TypeText(n.x[1], dense), ")"))
               \o In("{", Sep(ForEach(LAMBDA i : e(i + 1, IF n.x[i + 1].nt = "display" THEN 0 ELSE 2), Len(n.x) - 1), ","), "}")
          [] n.nt = "intrcall" /\ n.op = "va_etc" -> IF dense THEN Spelled("va_etc") \o In("(", <<>>, ")") ELSE Mark("...")
          [] n.nt = "intrcall" /\ n.op = "generic" ->
               IF dense THEN Spelled("generic") \o In("(", any(1), ")") \o In("{", FlattenSeq(ForEach(LAMBDA i : choices[i] \o Mark(";"), Len(choices))), "}")
               ELSE Spelled("_Generic") \o In("(", Sep(<<any(1)>> \o choices, ","), ")")
          [] n.nt = "intrcall" -> Spelled(n.op) \o In("(", Sep(ForEach(any, Len(n.x)), ","), ")")
  IN  IF Level(n) < min \/ (dense /\ min > 2 /\ Level(n) < 14) THEN In("(", text, ")") ELSE text

RECURSIVE Stmt(_, _)
\* The statements and declarations of a block; a declared variable with a value is one declaration when dense.
Items(x, dense) ==
  LET isInit(i) == i > 1 /\ x[i - 1].nt = "vardecl" /\ x[i].nt = "assign" /\ x[i].x[1] = Id(x[i - 1].name)
      joined(i) == i < Len(x) /\ isInit(i + 1) /\ (dense \/ x[i + 1].x[2].nt = "display")
      item(i) == CASE x[i].nt = "vardecl" /\ joined(i) ->
                        Declaration(x[i].x[1], Spelled(x[i].name), dense) \o Mark("=") \o Expr(x[i + 1].x[2], IF x[i + 1].x[2].nt = "display" THEN 0 ELSE 2, dense) \o Mark(";")
                   [] x[i].nt = "vardecl" /\ ~joined(i) -> Declaration(x[i].x[1], Spelled(x[i].name), dense) \o Mark(";")
                   [] i > 1 /\ joined(i - 1) -> <<>>
                   [] OTHER -> Stmt(x[i], dense)
  IN  FlattenSeq(ForEach(item, Len(x)))
Stmt(n, dense) ==
  LET e(i) == Expr(n.x[i], 1, dense)
      test(i) == In("(", Expr(n.x[i], 1, FALSE), ")")
      optional(i) == IF n.x[i].nt = "null" THEN <<>> ELSE e(i)
      from(k) == FlattenSeq(ForEach(LAMBDA i : Stmt(n.x[k + i - 1], dense), Len(n.x) - k + 1))
  IN  CASE n.nt = "null" -> Mark(";")
        [] n.nt = "block" -> LET label == IF n.name = "" THEN <<>> ELSE Spelled(n.name) \o Mark(":") \o (IF dense THEN Mark(";") ELSE <<>>)
                             IN  In("{", IF n.op = "CONTINUE" THEN label \o Items(n.x, dense) ELSE Items(n.x, dense) \o label, "}")
        [] n.nt = "if" -> Spelled("if") \o test(1) \o Stmt(n.x[2], dense) \o (IF Len(n.x) = 3 THEN Spelled("else") \o Stmt(n.x[3], dense) ELSE <<>>)
        [] n.nt = "while" -> Spelled("while") \o test(1) \o Stmt(n.x[2], dense)
        [] n.nt = "do" -> Spelled("do") \o Stmt(n.x[1], dense) \o Spelled("while") \o test(2) \o Mark(";")
        [] n.nt = "for" -> Spelled("for") \o In("(", optional(1) \o Mark(";") \o optional(2) \o Mark(";") \o optional(3), ")") \o Stmt(n.x[4], dense)
        [] n.nt = "switch" -> Spelled("switch") \o test(1) \o In("{", from(2), "}")
        [] n.nt = "case" -> Spelled("case") \o e(1) \o Mark(":") \o from(2)
        [] n.nt = "default" -> Spelled("default") \o Mark(":") \o from(1)
        [] n.nt \in {"break", "continue"} -> Spelled(n.nt) \o Mark(";")
        [] n.nt = "goto" -> Spelled("goto") \o Spelled(n.name) \o Mark(";")
        [] n.nt = "return" -> Spelled("return") \o (IF n.x = <<>> THEN <<>> ELSE e(1)) \o Mark(";")
        [] OTHER -> Expr(n, 1, dense) \o Mark(";")
Function(f, dense) == Declaration(f.x[1], Spelled(f.name), dense) \o Stmt(f.x[2], dense)
=============================================================================
