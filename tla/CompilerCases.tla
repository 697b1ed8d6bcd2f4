----------------------------- MODULE CompilerCases -----------------------------
(***************************************************************************)
(* A source file with a function for each thing the compiler has to get    *)
(* right.  A byte has two bits: a char is -2..1, a short -8..7, an int     *)
(* -128..127, and an address 0..255.                                       *)
(***************************************************************************)
EXTENDS Lowering

T == [ts \in Range(TsOrder) |-> Type(ts)]
N(n) == IF n < 0 THEN Op("prefix", "-", <<Lit("INT", -n)>>) ELSE Lit("INT", n)
V(name) == Id(name)
Bin(a, op, b) == Op("infix", op, <<a, b>>)
Un(op, a) == Op("prefix", op, <<a>>)
Incr(a) == Op("postfix", "++", <<a>>)
PreIncr(a) == Op("prefix", "++", <<a>>)
Set(a, b) == Op("assign", "=", <<a, b>>)
Upd(a, op, b) == Op("assign", op \o "=", <<a, b>>)
At2(a, i) == Op("subscript", "", <<a, i>>)
Fld(a, f) == [Op("postfix", ".", <<a>>) EXCEPT !.name = f]
Arrow(a, f) == [Op("postfix", "->", <<a>>) EXCEPT !.name = f]
CallOf(f, args) == Op("call", "", <<V(f)>> \o args)
Cond(a, b, c) == Op("cond", "", <<a, b, c>>)
If(a, s) == Op("if", "", <<a, s>>)
IfElse(a, s, t) == Op("if", "", <<a, s, t>>)
While(a, s) == Op("while", "", <<a, s>>)
Do(s, a) == Op("do", "", <<s, a>>)
For(i, t, n, s) == Op("for", "", <<i, t, n, s>>)
Switch(x, cs) == Op("switch", "", <<x>> \o cs)
Case(v, ss) == Op("case", "", <<N(v)>> \o ss)
Default(ss) == Op("default", "", ss)
Break == Node("break")
Continue == Node("continue")
Return1(e) == Op("return", "", <<e>>)
Fun(ret, pars, body) == Op("fundef", "", <<FunctionOf(ret, pars), Block(body)>>)
Let(name, t, e) == <<VarDecl(name, t), Set(V(name), e)>>

Pt == Struct("pt")
MCTypeNamed == LET types == [
  pt |-> <<VarDecl("c", T.CHAR), VarDecl("w", T.LLONG), VarDecl("a", ArrayOf(T.SHORT, 3)), VarDecl("u", T.UCHAR)>>,
  va_arg |-> <<VarDecl("va_int", T.INT), VarDecl("va_size", T.ULONG), VarDecl("va_llong", T.LLONG), VarDecl("va_v128", T.V128)>> ] IN types

MCExternals == LET externals == [ log |-> FunctionOf(T.INT, <<VarDecl("x", T.INT)>>) ] IN externals

MCGlobals == LET globals == [
  count |-> [type |-> T.INT, init |-> <<N(5)>>],
  wide |-> [type |-> T.LLONG, init |-> <<Un("-", N(3))>>],
  byte |-> [type |-> T.UCHAR, init |-> <<>>],
  tab |-> [type |-> ArrayOf(T.SHORT, 4), init |-> <<Op("display", "", <<ArrayOf(T.SHORT, 4), N(3), N(-2), N(7), N(1)>>)>>],
  org |-> [type |-> Pt, init |-> <<>>] ] IN globals

MCFunctions == LET functions == [
  \* arithmetic of mixed types
  mixed |-> Fun(T.LLONG, <<VarDecl("a", T.INT), VarDecl("b", T.UINT), VarDecl("c", T.LLONG)>>,
    << Return1(Bin(Bin(Bin(V("a"), "+", V("b")), "*", V("c")), "-", Bin(V("a"), "/", N(3)))) >>),
  \* narrow variables in registers, parameters and fields
  narrow |-> Fun(T.INT, <<VarDecl("c", T.CHAR), VarDecl("u", T.UCHAR), VarDecl("s", T.SHORT)>>,
    Let("r", T.USHORT, Bin(V("s"), "*", N(5))) \o
    << Upd(V("c"), "+", N(1)), PreIncr(V("u")), Set(Fld(V("org"), "c"), Bin(V("u"), "+", V("c"))),
       Set(V("byte"), Bin(V("s"), "-", V("r"))), Incr(V("byte")),
       Return1(Bin(Bin(Fld(V("org"), "c"), "+", Bin(N(10), "*", V("c"))), "+", Bin(Bin(V("u"), "+", V("r")), "*", V("byte")))) >>),
  \* variables of the same name in nested blocks, one after the other
  shadow |-> Fun(T.INT, <<VarDecl("x", T.INT)>>,
    Let("s", T.INT, N(0)) \o
    << Block(Let("x", T.INT, Bin(V("x"), "*", N(0))) \o << Upd(V("x"), "+", N(7)),
         Block(Let("x", T.CHAR, N(1)) \o <<Upd(V("s"), "+", V("x"))>>), Upd(V("s"), "+", V("x")) >>),
       Block(Let("x", T.SHORT, N(-3)) \o <<Set(Un("*", Un("&", V("x"))), N(5)), Upd(V("s"), "+", V("x"))>>),
       Return1(Bin(V("s"), "-", V("x"))) >>),
  swap |-> Fun(T.VOID, <<VarDecl("p", PtrTo(T.INT)), VarDecl("q", PtrTo(T.INT))>>,
    Let("t", T.INT, Un("*", V("p"))) \o <<Set(Un("*", V("p")), Un("*", V("q"))), Set(Un("*", V("q")), V("t"))>>),
  \* parameters and locals whose address is taken live in a frame
  framed |-> Fun(T.INT, <<VarDecl("a", T.INT), VarDecl("b", T.INT)>>,
    Let("z", T.INT, Bin(V("a"), "-", V("b"))) \o
    << CallOf("swap", <<Un("&", V("a")), Un("&", V("b"))>>), CallOf("swap", <<Un("&", V("b")), Un("&", V("z"))>>),
       Return1(Bin(Bin(V("a"), "*", N(4)), "+", Bin(V("b"), "-", V("z")))) >>),
  pt |-> Fun(Pt, <<VarDecl("n", T.INT)>>,
    << VarDecl("p", Pt), Set(Fld(V("p"), "c"), V("n")), Set(Fld(V("p"), "w"), Bin(V("n"), "*", N(100))), Set(Fld(V("p"), "u"), V("n")),
       Set(At2(Fld(V("p"), "a"), N(2)), V("n")), Set(At2(Fld(V("p"), "a"), N(0)), N(1)), Set(At2(Fld(V("p"), "a"), N(1)), N(0)), Return1(V("p")) >>),
  \* structures: returned, copied, reached through a pointer
  structs |-> Fun(T.LLONG, <<VarDecl("n", T.INT)>>,
    << VarDecl("p", Pt), VarDecl("q", Pt), VarDecl("r", PtrTo(Pt)), Set(V("p"), CallOf("pt", <<V("n")>>)), Set(V("q"), V("p")),
       Incr(At2(Fld(V("p"), "a"), N(2))), Set(V("r"), Un("&", V("q"))), Upd(Arrow(V("r"), "w"), "-", N(9)), PreIncr(Arrow(V("r"), "u")), Set(V("org"), V("q")),
       Return1(Bin(Bin(Bin(Fld(V("org"), "w"), "+", Arrow(V("r"), "c")), "+", Bin(At2(Fld(V("p"), "a"), N(2)), "*", N(10))), "+",
                   Bin(Arrow(V("r"), "u"), "-", At2(Arrow(V("r"), "a"), N(2))))) >>),
  \* loops left and continued from inside
  loops |-> Fun(T.INT, <<VarDecl("n", T.INT)>>,
    Let("s", T.INT, N(0)) \o <<VarDecl("i", T.INT)>> \o
    << For(Set(V("i"), N(0)), Bin(V("i"), "<", V("n")), Incr(V("i")),
         Block(<< If(Bin(V("i"), "==", N(1)), Continue), While(N(1), Block(<<Incr(V("s")), If(Bin(Bin(V("s"), "%", N(3)), "==", N(0)), Break)>>)) >>)),
       Do(Block(<<If(Bin(V("s"), "&", N(1)), Block(<<Upd(V("s"), "+", N(3)), Continue>>)), Upd(V("s"), "+", N(5))>>), Bin(V("s"), "<", N(20))),
       For(Node("null"), Node("null"), Upd(V("i"), "-", N(1)), If(Bin(V("i"), "<", N(0)), Break)),
       Return1(Bin(V("s"), "*", V("i"))) >>),
  \* a dense switch that falls through, a sparse one, and one in a loop
  dense |-> Fun(T.INT, <<VarDecl("n", T.INT)>>,
    Let("s", T.INT, N(0)) \o
    << Switch(V("n"), <<Case(4, <<Upd(V("s"), "+", N(1))>>), Case(1, <<Upd(V("s"), "+", N(10)), Break>>), Default(<<Upd(V("s"), "+", N(50))>>),
                        Case(3, <<Upd(V("s"), "+", N(20))>>)>>), Return1(V("s")) >>),
  sparse |-> Fun(T.INT, <<VarDecl("c", T.SHORT)>>,
    Let("s", T.INT, N(0)) \o <<VarDecl("i", T.INT)>> \o
    << For(Set(V("i"), N(0)), Bin(V("i"), "<", N(3)), Incr(V("i")),
         Block(<< Switch(Bin(V("c"), "*", V("i")), <<Case(-16, <<Break>>), Case(-8, <<Continue>>), Case(14, <<Upd(V("s"), "+", N(3)), Continue>>), Case(0, <<Incr(V("s"))>>)>>),
                  Upd(V("s"), "*", N(2)) >>)),
       Return1(V("s")) >>),
  \* blocks left by a goto to their end, and run again by one to their start
  jumps |-> Fun(T.INT, <<VarDecl("n", T.INT)>>,
    Let("s", T.INT, N(0)) \o
    << EndLabelled("out", << StartLabelled("again", << Upd(V("s"), "+", V("n")), While(N(1), Block(<< Incr(V("s")),
         If(Bin(V("s"), ">", N(40)), Goto("out")), If(Bin(V("s"), "%", N(4)), Continue), Goto("again") >>)) >>) >>), Return1(V("s")) >>),
  \* a frame, and memory taken on the stack, in every call of a recursion
  fact |-> Fun(T.INT, <<VarDecl("n", T.INT)>>,
    << VarDecl("t", ArrayOf(T.INT, 2)), VarDecl("p", PtrTo(T.INT)), Set(V("p"), Cast(PtrTo(T.INT), Intr("alloca", <<Bin(V("n"), "*", N(4))>>))),
       Set(At2(V("t"), N(1)), V("n")), Set(At2(V("p"), N(0)), Bin(V("n"), "-", N(1))),
       If(Bin(V("n"), "<=", N(1)), Return1(N(1))), Set(At2(V("t"), N(0)), CallOf("fact", <<At2(V("p"), N(0))>>)),
       Return1(Bin(At2(V("t"), N(0)), "*", At2(V("t"), N(1)))) >>),
  \* memory of a size that is given by a narrow variable
  room |-> Fun(T.INT, <<VarDecl("c", T.CHAR)>>,
    << VarDecl("p", PtrTo(T.INT)), Set(V("p"), Intr("alloca", <<Bin(V("c"), "+", N(6))>>)), Set(At2(V("p"), N(0)), V("c")),
       Return1(Bin(At2(V("p"), N(0)), "*", N(3))) >>),
  \* ... : ints and long longs, and how many there are
  sum |-> Fun(T.LLONG, <<VarDecl("n", T.INT), VarDecl("", T.ETC)>>,
    Let("ap", PtrTo([Type("UNION") EXCEPT !.name = "va_arg"]), Intr("va_etc", <<>>)) \o Let("s", T.LLONG, Intr("countof", <<Intr("va_etc", <<>>)>>)) \o
    << While(Incr(V("n")), Block(<< Upd(V("s"), "+", Intr("va_arg", <<V("ap"), T.INT>>)),
         Upd(V("s"), "+", Intr("va_arg", <<V("ap"), T.LLONG>>)) >>)), Return1(V("s")) >>),
  varied |-> Fun(T.LLONG, <<VarDecl("c", T.CHAR), VarDecl("w", T.LLONG)>>,
    << Return1(Bin(CallOf("sum", <<N(-2), V("c"), V("w"), Bin(V("c"), "*", N(9)), Lit("LLONG", 1000)>>), "+",
                   Bin(CallOf("sum", <<N(0)>>), "*", N(2)))) >>),
  \* a function called through a pointer, with effects in order
  note |-> Fun(T.INT, <<VarDecl("x", T.INT)>>, <<CallOf("log", <<Bin(V("x"), "+", Incr(V("count")))>>), Return1(CallOf("log", <<V("x")>>))>>),
  same |-> Fun(T.INT, <<VarDecl("x", T.INT)>>, <<Return1(V("x"))>>),
  pointed |-> Fun(T.INT, <<VarDecl("n", T.INT)>>,
    << VarDecl("f", PtrTo(FunctionOf(T.INT, <<VarDecl("", T.INT)>>))),
       IfElse(V("n"), Set(V("f"), Un("&", V("note"))), Set(V("f"), Un("&", V("same")))),
       Return1(Bin(Op("call", "", <<Un("*", V("f")), Bin(V("n"), "+", N(1))>>), "-", Op("call", "", <<Un("*", V("f")), V("n")>>))) >>),
  \* an element whose index has an effect, changed in place; && and || that must not run their right side
  once |-> Fun(T.INT, <<VarDecl("n", T.INT)>>,
    << VarDecl("r", T.INT), Upd(At2(V("tab"), Bin(CallOf("note", <<V("n")>>), "&", N(3))), "+", N(4)), Set(V("r"), N(0)),
       If(Bin(V("n"), "&&", CallOf("note", <<N(9)>>)), Set(V("r"), N(1))), If(Bin(Bin(V("n"), ">", N(2)), "||", CallOf("note", <<N(0)>>)), Upd(V("r"), "+", N(2))),
       Return1(Bin(At2(V("tab"), Bin(V("n"), "&", N(3))), "+", Bin(V("r"), "*", N(10)))) >>),
  \* pointers into an array: stepped, subtracted, compared, indexed backwards
  walk |-> Fun(T.INT, <<VarDecl("n", T.INT)>>,
    << VarDecl("a", ArrayOf(T.SHORT, 3)), VarDecl("p", PtrTo(T.SHORT)), VarDecl("e", PtrTo(T.SHORT)), Set(V("p"), V("a")), Set(V("e"), Un("&", At2(V("a"), N(3)))),
       While(Bin(V("p"), "<", V("e")), Set(Un("*", Incr(V("p"))), Bin(V("n"), "-", Cast(T.INT, Bin(V("e"), "-", V("p")))))),
       Upd(At2(V("p"), N(-1)), "*", N(2)), Upd(V("p"), "-", N(2)),
       Return1(Bin(Bin(Un("*", V("p")), "+", Bin(At2(V("p"), N(1)), "*", N(4))), "+", Bin(Un("!", V("p")), "+", Bin(V("p"), "!=", Un("&", At2(V("a"), N(0))))))) >>),
  \* floating numbers
  real |-> Fun(T.INT, <<VarDecl("n", T.INT), VarDecl("f", T.FLOAT)>>,
    Let("d", T.DOUBLE, Bin(V("n"), "*", Lit("DOUBLE", 300))) \o
    << If(Un("!", V("d")), Return1(N(-1))), If(Bin(Un("-", V("d")), ">", V("f")), Set(V("f"), Cast(T.FLOAT, V("n")))),
       If(V("f"), Upd(V("d"), "-", V("f"))), Return1(Cast(T.INT, Bin(Bin(V("d"), "-", Bin(V("n"), "*", N(1))), "/", Lit("DOUBLE", 299)))) >>),
  \* a value chosen by a condition, as a block and as a select
  choose |-> Fun(T.LLONG, <<VarDecl("a", T.INT), VarDecl("u", T.UINT)>>,
    << Return1(Bin(Bin(Cond(Bin(V("a"), "<", V("u")), V("a"), Lit("LLONG", 500)), "+", Cond(V("a"), Bin(V("a"), ">>", N(1)), Bin(V("u"), ">>", N(1)))), "+",
                   Cond(Un("~", V("a")), Un("-", V("u")), V("a")))) >>),
  \* what the compiler knows about types, and expressions it evaluates itself
  sizes |-> Fun(T.LLONG, <<VarDecl("c", T.CHAR)>>,
    << VarDecl("a", ArrayOf(Pt, 2)), Set(V("c"), Bin(V("c"), "+", Bin(Intr("sizeof", <<V("c")>>), "*", N(2)))),
       Return1(Bin(Bin(Bin(Intr("sizeof", <<V("a")>>), "+", Intr("offsetof", <<Pt, V("u")>>)), "+", Bin(Intr("countof", <<V("a")>>), "*", Intr("alignof", <<Pt>>))), "+",
         Bin(Intr("generic", <<V("c"), T.INT, N(5), T.CHAR, Bin(V("c"), "*", N(6)), Node("null"), N(7)>>), "+",
             Bin(Cast(T.UCHAR, Bin(Lit("UINT", 200), "+", N(57))), "-", Bin(Lit("LLONG", 300), "*", Bin(N(-7), "/", N(2))))))) >>),
  \* several expressions in one
  commas |-> Fun(T.VOID, <<VarDecl("n", T.INT)>>,
    << Set(V("count"), Op("comma", "", <<Op("comma", "", <<CallOf("log", <<V("n")>>), Incr(V("wide"))>>), Bin(V("n"), "|", N(8))>>)),
       IfElse(Bin(V("n"), ">", N(0)), Block(<<Upd(V("wide"), "<<", N(3)), Op("return", "", <<>>)>>), Node("null")), Set(V("byte"), V("n")) >>)
] IN functions

\* What the compiler refuses: of each kind one, all else being as in the functions above.
InRegister(name, t) == [VarDecl(name, t) EXCEPT !.op = "REGISTER"]
OfInt(pars, body) == Fun(T.INT, pars, body \o <<Return1(V("n"))>>)
VarN == VarDecl("n", T.INT)
AllocaOf(e) == Let("p", PtrTo(T.VOID), Intr("alloca", <<e>>))
MCRefused == {
  \* two parameters of one name, a parameter of a bulk type
  OfInt(<<VarN, VarN>>, <<>>),
  OfInt(<<VarN, VarDecl("s", Pt)>>, <<>>),
  \* two defaults, two cases of one value
  OfInt(<<VarN>>, <<Switch(V("n"), <<Default(<<Break>>), Case(1, <<>>), Default(<<>>)>>)>>),
  OfInt(<<VarN>>, <<Switch(V("n"), <<Case(2, <<Break>>), Case(1, <<>>), Case(2, <<>>)>>)>>),
  \* the address of a local, or a parameter, that was declared register
  OfInt(<<VarN>>, <<InRegister("r", T.INT), CallOf("swap", <<Un("&", V("n")), Un("&", V("r"))>>)>>),
  OfInt(<<InRegister("n", T.INT)>>, <<CallOf("swap", <<Un("&", V("n")), Un("&", V("n"))>>)>>),
  \* a result of one bulk type put into a variable of another
  OfInt(<<VarN>>, <<VarDecl("u", [Type("UNION") EXCEPT !.name = "va_arg"]), Set(V("u"), CallOf("pt", <<V("n")>>))>>),
  \* memory of a size that is in the frame or behind ->: the operand of alloca is not lowered (c.c:1878), though C asks for no such thing
  OfInt(<<VarN>>, <<CallOf("swap", <<Un("&", V("n")), Un("&", V("n"))>>)>> \o AllocaOf(V("n"))),
  OfInt(<<VarN>>, Let("q", PtrTo(Pt), Un("&", V("org"))) \o AllocaOf(Arrow(V("q"), "c"))) }

\* A condition that changes what both branches read.
MCSelectFunctions == LET functions == [
  pick |-> Fun(T.INT, <<VarDecl("x", T.INT), VarDecl("y", T.INT)>>, << Return1(Cond(Set(V("x"), V("y")), V("x"), N(7))) >>) ] IN functions
==============================================================================
