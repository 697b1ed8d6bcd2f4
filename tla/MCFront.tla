------------------------------ MODULE MCFront ------------------------------
(***************************************************************************)
(* The front end: the lexers on lines of a few characters, every short     *)
(* line over an alphabet that leads through the states of one kind of      *)
(* token; the parser on trees written as tokens, every operator under      *)
(* every other, every declarator of a small depth, and a text for each     *)
(* kind of form.                                                           *)
(***************************************************************************)
EXTENDS Lexer, FrontEnd, TokenSyntax, CWriter, CompilerCases

\* ------------------------------------------------------------- lines

UpTo(S, n) == UNION {[1..m -> S] : m \in 0..n}
CFiles(ls) == {[lang |-> "c", lines |-> l] : l \in ls}
WatFiles(ls) == {[lang |-> "wat", lines |-> l] : l \in ls}
One(ls) == {<<l>> : l \in ls}
With(p, ls, s) == {p \o l \o s : l \in ls}

Signs2 == {"+", "-", "=", "<", ">", "&", "|", "^", "%", "#", "!", "*", "/", ".", ";", "a", "@"}
Parens == {"(", ")", "[", "]", "{", "}", ",", "?", ":", "~", "L", "\t", "\r", Backquote}
COps == UpTo(Signs2, 2) \cup [1..3 -> {"+", "-", "=", "<", ">", "&", "|", ".", "/"}] \cup UpTo(Parens, 2) \cup {[i \in 1..4 |-> IF i = 4 THEN "=" ELSE ">"], <<"a", "+", "+", "+", "1">>}
CNums == UpTo({"0", "7", "8", "x", ".", "e", "f", "L", "u"}, 3)
  \cup With(<<"0", "x">>, UpTo({"1", "f", ".", "p", "-", "l"}, 4), <<>>)
  \cup With(<<"1">>, UpTo({"2", ".", "E", "-", "F"}, 4) \cup UpTo({"l", "U", "f"}, 4), <<>>)
CTexts == With(<<"\"">>, UpTo({"\\", "x", "7", "n", "g", "h2", Inner, "'", "\""}, 3), <<"\"">>)
  \cup With(<<"L", "\"">>, UpTo({"\\", "7", "x", "\"", "a"}, 3), <<"\"">>)
  \cup With(<<"'">>, UpTo({"\\", "x", "7", "n", "g", "h2", Inner, "\"", "'"}, 3), <<"'">>)
  \cup With(<<"L", "'">>, UpTo({"\\", "7", "x", "a"}, 3), <<"'">>)
  \cup With(<<"'", "\\", "u">>, UpTo({"1", "f", "g"}, 4), <<"'">>) \cup With(<<"\"", "\\", "u">>, UpTo({"1", "f", "\""}, 5), <<"\"">>)
  \cup With(<<"'", "h3">>, UpTo({Inner, "a"}, 2), <<"'">>)
CNotes == UpTo({"/", "*", "a"}, 6)
CLines == With(<<"a">>, UpTo({" ", "\\"}, 1), <<" ", "\\">>) \cup {<<"/", "/", "b">>, <<"/", "*", "b">>, <<"\"", "b">>, <<>>, <<"b", "*", "/", "1">>, <<"#", "a">>}
MCC == CFiles(One(COps \cup CNums \cup CTexts \cup CNotes) \cup {<<k, l, m>> : k, l, m \in CLines})

WatWords2 == UpTo({"(", ")", "$", "a", "0", "+", ".", "%", ",", "[", " "}, 3)
WatNums == With(<<"0", "x">>, UpTo({"1", "f", ".", "p", "-"}, 4), <<>>)
  \cup UpTo({"0", "1", ".", "e", "-"}, 4) \cup {<<s>> \o w : s \in {"+", "-", "a"}, w \in UpTo({"i", "n", "f", "a"}, 4)}
WatTexts == With(<<"\"">>, UpTo({"\\", "7", "n", "u", "{", "}", "h2", Inner, "\""}, 3), <<"\"">>)
  \cup With(<<"\"", "\\", "u", "{">>, UpTo({"1", "f", "}", "g"}, 4), <<"\"">>)
  \cup {<<"\"", "h3", Inner, Inner, "\"">>, <<"\"", "h3", Inner, "\"">>, <<"\"", "\\", " ", "\t", "\\", "\"">>}
\* Comments; the code does not see a (; or ;) right after another ( or ;.
Hidden == {<<"(", "(", ";">>, <<";", "(", ";">>, <<";", ";", ")">>}
WatNotes == {l \in UpTo({"(", ";", ")", "a"}, 6) : \A i \in 1..Len(l) - 2 : SubSeq(l, i, i + 2) \notin Hidden}
WatLines == {<<"(", ";", "a">>, <<"a", ";", ")", "b">>, <<"(", "a", " ", ";", ";", "b">>, <<"\"", "a">>, <<"$", "a">>, <<>>, <<"0", "1">>}
MCWat == WatFiles(One(WatWords2 \cup WatNums \cup WatTexts \cup WatNotes) \cup {<<k, l, m>> : k, l, m \in WatLines})
MCFiles == LET files == MCC \cup MCWat IN files

\* Lines joined where no space comes before the backslash.
MCSplicedFiles == CFiles({<<k, l>> : k \in {<<"a", "\\">>, <<"+", "\\">>, <<"{", "\\">>}, l \in {<<"b">>, <<"1">>}})

\* --------------------------------------------------------------- units
Legal(tokenList, meant) == [tokens |-> tokenList, meant |-> meant, refused |-> FALSE]
Illegal(tokenList, meant) == [tokens |-> tokenList, meant |-> meant, refused |-> TRUE]
Styles == {FALSE, TRUE}
ProcOf(stmts) == [Fun(T.VOID, <<>>, stmts) EXCEPT !.name = "proc"]
Global(name, t, init) == Block(<<VarDecl(name, t)>> \o [i \in DOMAIN init |-> Set(V(name), init[i])])
GlobalText(name, t, init, dense) == Items(Global(name, t, init).x, TRUE)

\* The functions of CompilerCases, and its globals.  va_arg_t names a union with all its fields.
RECURSIVE WithVaArg(_)
WithVaArg(n) == IF n.name = "va_arg" THEN make_vararg_union_type ELSE [n EXCEPT !.x = ForEach(LAMBDA i : WithVaArg(n.x[i]), Len(n.x))]
FunctionUnits == {LET f == [MCFunctions[name] EXCEPT !.name = name] IN Legal(Function(f, dense), <<WithVaArg(f)>>) : name \in DOMAIN MCFunctions, dense \in Styles}
GlobalUnits == {LET g == MCGlobals[name] IN Legal(GlobalText(name, g.type, g.init, dense), <<Global(name, g.type, g.init)>>) : name \in DOMAIN MCGlobals, dense \in Styles}

\* Every expression in every place of every other.
Sample ==
  {Bin(V("a"), op, V("b")) : op \in {"*", "%", "+", "-", "<<", ">", "<=", "==", "!=", "&", "^", "|", "&&", "||"}}
    \cup {Un(op, V("a")) : op \in {"*", "-", "&", "!", "++"}}
    \cup {Incr(V("a")), Arrow(V("a"), "f"), Fld(V("a"), "int"), At2(V("a"), V("b")), CallOf("f", <<V("a"), V("b")>>), Cast(PtrTo(T.CHAR), V("a")),
          Cond(V("a"), V("b"), V("d")), Set(V("a"), V("b")), Upd(V("a"), "<<", V("b")), Op("comma", "", <<V("a"), V("b")>>), Intr("sizeof", <<V("a")>>)}
Places(p) == {i \in DOMAIN p.x : p.x[i].nt = "identifier"}
Nested(p) == FoldSet(LAMBDA n, ns : Append(ns, n), <<>>, {[p EXCEPT !.x[i] = q] : i \in Places(p), q \in Sample})
ExpressionUnits == {Legal(Function(ProcOf(Nested(p)), dense), <<ProcOf(Nested(p))>>) : p \in Sample, dense \in Styles}

\* Every type that can be declared, as the type of a global, and of a cast.
ParameterLists == {<<>>, <<VarDecl("x", T.CHAR)>>, <<VarDecl("", PtrTo(FunctionOf(T.INT, <<VarDecl("", T.INT)>>))), VarDecl("", T.ETC)>>}
DeclaredFrom(ts) ==
  {PtrTo(t) : t \in ts} \cup {ArrayOf(t, 3) : t \in {u \in ts : u.ts # "FUNCTION"}}
    \cup {FunctionOf(t, pars) : t \in {u \in ts : u.ts \notin {"FUNCTION", "ARRAY"}}, pars \in ParameterLists}
Types1 == DeclaredFrom({T.INT})
Types2 == DeclaredFrom(Types1)
DeclaredTypes == Types1 \cup Types2 \cup DeclaredFrom(Types2)
CastTo(t) == [ProcOf(<<Cast(PtrTo(t), V("a"))>>) EXCEPT !.op = ""]
TypeUnits == {Legal(GlobalText("x", t, <<>>, dense) \o Function(CastTo(t), dense), <<Global("x", t, <<>>), CastTo(t)>>) : t \in DeclaredTypes, dense \in Styles}

\* The words of a base type in any order, and what they mean together.
Specified == << <<<<"char">>, "CHAR">>, <<<<"signed", "char">>, "CHAR">>, <<<<"unsigned", "char">>, "UCHAR">>, <<<<"short">>, "SHORT">>,
  <<<<"signed", "short", "int">>, "SHORT">>, <<<<"unsigned", "short", "int">>, "USHORT">>, <<<<"int">>, "INT">>, <<<<"signed">>, "INT">>,
  <<<<"unsigned">>, "UINT">>, <<<<"unsigned", "int">>, "UINT">>, <<<<"long">>, "LONG">>, <<<<"long", "int">>, "LONG">>, <<<<"unsigned", "long">>, "ULONG">>,
  <<<<"long", "long">>, "LLONG">>, <<<<"signed", "long", "long", "int">>, "LLONG">>, <<<<"unsigned", "long", "long">>, "ULLONG">>,
  <<<<"float">>, "FLOAT">>, <<<<"double">>, "DOUBLE">>, <<<<"void">>, "VOID">>, <<<<"wchar_t">>, "INT">>, <<<<"uint16_t">>, "USHORT">> >>
Contradictory == {<<"signed", "unsigned", "int">>, <<"float", "long">>, <<"void", "int">>, <<"unsigned", "double">>, <<"short", "long">>, <<"long", "double">>,
  <<"unsigned", "size_t">>, <<"float", "double">>, <<"bool", "int">>}
Orders(ws) == {[i \in DOMAIN ws |-> ws[p[i]]] : p \in {q \in [DOMAIN ws -> DOMAIN ws] : Range(q) = DOMAIN ws}}
SpecifierUnits ==
  UNION {{Legal(Tokens(ws \o <<"x", ";">>), <<Global("x", T[Specified[i][2]], <<>>)>>) : ws \in Orders(Append(Specified[i][1], "const"))} : i \in DOMAIN Specified}
    \cup UNION {{Illegal(Tokens(ws \o <<"x", ";">>), <<>>) : ws \in Orders(c0)} : c0 \in Contradictory}

\* What ends too early means nothing.
Program == Tokens(<<"int", "f", "(", "int", "a", ",", "...", ")", "{", "struct", "pt", "{", "int", "x", ";", "}", "*", "p", ";",
  "for", "(", "int", "i", "=", "0", ";", "i", "<", "3", ";", "++", "i", ")", "{", "if", "(", "a", ")", "{", "break", ";", "}", "}",
  "switch", "(", "a", ")", "{", "case", "1", ":", "return", "p", "->", "x", "[", "2", "]", ";", "default", ":", "do", ";", "while", "(", "0", ")", ";", "}",
  "int", "b", "[", "]", "=", "{", "1", ",", "2", "}", ";", "(", "int", ")", "asm", "(", "nop", ")", "(", "a", ")", ";", "goto", "l", ";", "l", ":", "}">>)
CutUnits == {Illegal(SubSeq(Program, 1, k), <<>>) : k \in 1..Len(Program) - 1}

\* A text for each form.
Nothing == Block(<<>>)
GlobalInt(name, e) == Global(name, T.INT, <<e>>)
CharPtr == PtrTo(T.CHAR)
AsmOf(t, code) == [Node("acode") EXCEPT !.x = <<t>>, !.code = code]
Str(codes) == [Lit("STRING", 0) EXCEPT !.code = codes]
FormTexts == {
  \* type names, tags and constants stand for what they were declared as
  << <<"typedef", "int", "(", "*", "fp", ")", "(", "char", ")", ";", "fp", "a", "[", "2", "]", ",", "*", "b", ";">>,
     << [Op("typedef", "", <<PtrTo(FunctionOf(T.INT, <<VarDecl("", T.CHAR)>>))>>) EXCEPT !.name = "fp"],
        LET fp == PtrTo(FunctionOf(T.INT, <<VarDecl("", T.CHAR)>>)) IN Block(<<VarDecl("a", ArrayOf(fp, 2)), VarDecl("b", PtrTo(fp))>>) >> >>,
  << <<"enum", "hue", "{", "red", ",", "green", "=", "5", "+", "red", ",", "blue", "}", ";", "static", "int", "a", "=", "blue", ",", "b", "[", "green", "]", ";">>,
     << Nothing, Block(<<[VarDecl("a", T.INT) EXCEPT !.op = "static"], Set(V("a"), N(6)), [VarDecl("b", ArrayOf(T.INT, 5)) EXCEPT !.op = "static"]>>) >> >>,
  << <<"struct", "s", "{", "int", "a", ",", "*", "b", ";", "union", "{", "char", "c", ";", "}", "u", ";", "}", ";", "struct", "s", "x", ";">>,
     << Nothing, Global("x", Struct("s"), <<>>) >> >>,
  \* a macro is a tree: its arguments need no parentheses
  << <<"#", "define", "TWICE", "(", "x", ")", "(", "x", "+", "x", ")", "int", "a", "=", "TWICE", "(", "1", "<", "2", ")", "*", "3", ";">>,
     << Nothing, GlobalInt("a", Bin(Bin(Bin(N(1), "<", N(2)), "+", Bin(N(1), "<", N(2))), "*", N(3))) >> >>,
  << <<"#", "define", "K", " ", "(", "1", ")", "int", "a", "=", "defined", "(", "K", ")", ";", "#", "undef", "K", "int", "K", "=", "defined", "(", "K", ")", ";">>,
     << Nothing, GlobalInt("a", N(1)), Nothing, GlobalInt("K", N(0)) >> >>,
  << <<"#", "define", "LOG", "(", "f", ",", "...", ")", "(", "f", "(", "f", ",", "__VA_ARGS__", ",", "1", ")", ")",
       "int", "a", "=", "LOG", "(", "g", ")", ",", "b", "=", "LOG", "(", "h", ",", "2", ",", "3", ")", ";">>,
     << Nothing, Block(<<VarDecl("a", T.INT), Set(V("a"), CallOf("g", <<V("g"), N(1)>>)),
                         VarDecl("b", T.INT), Set(V("b"), CallOf("h", <<V("h"), N(2), N(3), N(1)>>))>>) >> >>,
  << <<"#", "define", "PICK", "(", "...", ")", "generic", "(", "countof", "(", "...", ")", ")", "{", "case", "1", ":", "g", "(", "...", ")", ";",
       "default", ":", "h", "(", "countof", "(", "...", ")", ",", "...", ")", ";", "}",
       "int", "a", "=", "PICK", "(", "3", ")", ",", "b", "=", "PICK", "(", ")", ";">>,
     << Nothing, Block(<<VarDecl("a", T.INT), Set(V("a"), CallOf("g", <<N(3)>>)), VarDecl("b", T.INT), Set(V("b"), CallOf("h", <<N(0)>>))>>) >> >>,
  << <<"#", "define", "SWAP", "(", "x", ",", "y", ")", "do", "{", "int", "t", "=", "x", ";", "x", "=", "y", ";", "y", "=", "t", ";", "}", "while", "(", "0", ")",
       "void", "proc", "(", ")", "{", "SWAP", "(", "p", "->", "f", ",", "q", ")", ";", "}">>,
     << Nothing, ProcOf(<<Block(Let("t", T.INT, Arrow(V("p"), "f")) \o <<Set(Arrow(V("p"), "f"), V("q")), Set(V("q"), V("t"))>>)>>) >> >>,
  << <<"#", "define", "ADDK", "(", "k", ",", "e", ")", "(", "(", "int", ")", "asm", "(", "i32.const", "k", ",", "i32.add", ")", "(", "e", ")", ")",
       "int", "a", "=", "ADDK", "(", "2", "*", "3", ",", "b", ")", ";">>,
     << Nothing, GlobalInt("a", Op("intrcall", "acode", <<AsmOf(T.INT, <<Ins("i32.const", "", <<6>>), Ins("i32.add", "", <<>>)>>), V("b")>>)) >> >>,
  \* assembly
  << <<"int", "a", "=", "(", "int", ")", "asm", "(", "register", "i64", "r", ",", "local.get", "m", ":", "r", ",", "(", "char", ")", "asm", "(", "nop", ")", ",",
       "i32.load", "offset", "=", "4", "align", "=", "8", ",", "lane", "offset", "=", "1", "2", ",", "shuffle", "1", "2", "3", ")", ";">>,
     << GlobalInt("a", [AsmOf(T.INT, << Ins("register", "r", <<3>>), [Ins("local.get", "r", <<0>>) EXCEPT !.mod = "m"], Ins("placeholder", "", <<>>),
          Ins("i32.load", "", <<4, 3>>), Ins("lane", "", <<2, 1, 0>>), Ins("shuffle", "", <<1, 2, 3>>) >>)
          EXCEPT !.x = Append(@, AsmOf(T.CHAR, <<Ins("nop", "", <<>>)>>))]) >> >>,
  \* sizes of arrays that their initialisers give
  << <<"short", "a", "[", "]", "=", "{", "1", ",", "2", ",", "3", ",", "}", ",", "b", "[", "]", "[", "2", "]", "=", "{", "{", "1", ",", "2", "}", "}", ";", "char", "s", "[", "]", "=", "@", "t", "@", "t", ";">>,
     << Block(<<VarDecl("a", ArrayOf(T.SHORT, 3)), Set(V("a"), Op("display", "", <<ArrayOf(T.SHORT, 3), N(1), N(2), N(3)>>)),
                VarDecl("b", ArrayOf(ArrayOf(T.SHORT, 2), 1)),
                Set(V("b"), Op("display", "", <<ArrayOf(ArrayOf(T.SHORT, 2), 1), Op("display", "", <<ArrayOf(T.SHORT, 2), N(1), N(2)>>)>>))>>),
        Global("s", ArrayOf(T.CHAR, 5), <<Cast(ArrayOf(T.CHAR, 5), Str(<<7, 8, 7, 8, 0>>))>>) >> >>,
  << <<"int", "*", "a", "=", "(", "int", "[", "]", ")", "{", "1", ",", "2", "}", ",", "b", "=", "true", "+", "127", ";">>,
     << Block(<<VarDecl("a", PtrTo(T.INT)), Set(V("a"), Op("display", "", <<ArrayOf(T.INT, 2), N(1), N(2)>>)),
                VarDecl("b", T.INT), Set(V("b"), Bin(Lit("BOOL", 1), "+", N(127)))>>) >> >>,
  << <<"simd", "<", "unsigned", "short", ",", "8", ">", "a", ";", "static_assert", "(", "1", ",", "@", "t", ")", ";", "#", "include", "<", "sys", "/", "int", ".", "h", ">", "#", "include", "@", "unit">>,
     << Global("a", [Type("V128") EXCEPT !.x = <<T.USHORT, N(8)>>], <<>>), Intr("static_assert", <<N(1), Str(<<7, 8, 0>>)>>),
        [Node("include") EXCEPT !.op = "IDENTIFIER", !.name = "sys.int"], [Node("include") EXCEPT !.op = "STRING", !.name = "unit"] >> >>,
  \* statements: an else belongs to the nearest if; the declaration of a for is inside a block around it
  << <<"void", "proc", "(", "void", ")", "{", "if", "(", "a", ")", "if", "(", "b", ")", ";", "else", "b", ";", "for", "(", "int", "i", "=", "0", ",", "j", ";", ";", "i", ",", "j", ")", ";", "}">>,
     << ProcOf(<<If(V("a"), IfElse(V("b"), Node("null"), V("b"))),
          Block(Let("i", T.INT, N(0)) \o <<VarDecl("j", T.INT), For(Node("null"), Node("null"), Op("comma", "", <<V("i"), V("j")>>), Node("null"))>>)>>) >> >> }
RefusedTexts == {
  << <<"int", "a", "=", "128", ";">>, <<>> >>, << <<"auto", "int", "a", ";">>, <<>> >>, << <<"int", "(", "int", ")", ";">>, <<>> >>,
  << <<"struct", ";">>, <<>> >>, << <<"enum", "{", "}", ";">>, <<>> >>, << <<"enum", "{", "a", "=", "f", "(", ")", "}", ";">>, <<>> >>,
  << <<"struct", "s", "{", "int", "a", ";", "}", ";", "struct", "s", "{", "int", "b", ";", "}", ";">>, <<Nothing>> >>,
  << <<"simd", "<", "int", ",", "8", ">", "a", ";">>, <<>> >>, << <<"static_assert", "(", ")", ";">>, <<>> >>, << <<"#", "undef", "NULL">>, <<>> >>,
  << <<"#", "undef", "a">>, <<>> >>, << <<"#", "define", "K", "1", "#", "define", "K", "1">>, <<Nothing>> >>, << <<"#", "define", "size_t", "1">>, <<>> >>,
  << <<"#", "define", "F", "(", "x", ")", "(", "x", ")", "int", "a", "=", "F", "(", "1", ",", "2", ")", ";">>, <<Nothing>> >>,
  << <<"#", "define", "F", "(", "x", ",", "...", ")", "(", "x", ")", "int", "a", "=", "F", "(", ")", ";">>, <<Nothing>> >>,
  << <<"#", "define", "F", "(", "...", ")", "(", "1", "+", "...", ")", "int", "a", "=", "F", "(", "1", ")", ";">>, <<Nothing>> >>,
  << <<"#", "define", "F", "(", "...", ")", "generic", "(", "countof", "(", "...", ")", ",", "1", ":", "2", ")", "int", "a", "=", "F", "(", ")", ";">>, <<Nothing>> >>,
  << <<"void", "f", "(", ")", "{", "a", ";", "l", ":", "b", ";", "}">>, <<>> >>, << <<"void", "f", "(", ")", "{", "static", "int", "a", ";", "}">>, <<>> >>,
  << <<"void", "f", "(", ")", "{", "typedef", "int", "t", ";", "}">>, <<>> >>, << <<"int", "a", "=", "-", "(", "int", ")", ";">>, <<>> >>,
  << <<"int", "a", "=", "(", "int", ")", "asm", "(", "i32.const", "16", "!", ")", ";">>, <<>> >>, << <<"int", "a", "=", "(", "int", ")", "asm", "(", "jump", ")", ";">>, <<>> >>,
  << <<"int", "a", "=", "generic", "(", "a", ",", "default", ":", "1", ",", "int", ":", "2", ")", ";">>, <<>> >>, << <<"int", "a", "=", "va_arg", "(", "a", ",", "char", ")", ";">>, <<>> >> }
FormUnits == {Legal(Tokens(f[1]), f[2]) : f \in FormTexts} \cup {Illegal(Tokens(f[1]), f[2]) : f \in RefusedTexts}

\* A number that is written as a long.
MCLongUnits == {Legal(Tokens(<<"long", "a", "=">>) \o Number("LONG", 1) \o Mark(";"), <<Global("a", T.LONG, <<Lit("LONG", 1)>>)>>)}

MCUnits == LET units == FunctionUnits \cup GlobalUnits \cup ExpressionUnits \cup TypeUnits \cup SpecifierUnits \cup CutUnits \cup FormUnits IN units
MCSignatures == [nop |-> "NONE", lane |-> "MEMARG_LANEIDX", shuffle |-> "LANEIDX16"] @@ ("i32.const" :> "NUMBER") @@ ("i32.add" :> "NONE")
  @@ ("local.get" :> "NUMBER") @@ ("i32.load" :> "MEMARG")

\* TLC counts the evaluations of every expression; it does not look below a LET, and
\* here it should not: the calls of a parser below each other are too many to tell apart.
MCSyntax(language, text) == LET r == Tokenized(language, text, 1, <<>>) IN r
MCForm(kind, place) == LET r == parse_form(kind, place) IN r

\* A lexer at work, or the parser.
LexerIdle == file = [lang |-> "c", lines |-> <<>>] /\ lines = <<>> /\ chars = <<>> /\ curi = 0 /\ state = "0" /\ long = FALSE /\ token = <<>> /\ depth = 0
  /\ tokens = <<>> /\ outcome = "end"
ParserIdle == unit = Legal(<<>>, <<>>) /\ pos = 0 /\ symbols = <<>> /\ read = <<>> /\ verdict = "end"
FrontInit == (Init /\ ParserIdle) \/ (ParserInit /\ LexerIdle)
FrontNext == (Next /\ UNCHANGED parser) \/ (parse_top_form /\ UNCHANGED vars)
FrontSpec == FrontInit /\ [][FrontNext]_<<vars, parser>>
=============================================================================
