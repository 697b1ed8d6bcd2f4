------------------------------- MODULE CSource -------------------------------
(***************************************************************************)
(* What the functions of a source file mean in C: an evaluator of the      *)
(* tree the parser makes, on objects and paths into them, with no bytes,   *)
(* no registers and no stack pointer.  It is what the compiled code is     *)
(* compared with, and shares only the types with the compiler.             *)
(***************************************************************************)
EXTENDS CTypes, Bitwise, TLC

CONSTANTS
  Functions,      \* the functions of the file: name -> fundef
  Globals,        \* its variables: name -> [type, init]
  Externals       \* functions of other files: name -> type; they return their first argument

Step(name, index) == [name |-> name, index |-> index]
Loc(obj, path) == [obj |-> obj, path |-> path]
Null == Loc("", <<>>)
Into(loc, step) == [loc EXCEPT !.path = Append(@, step)]
Moved(loc, n) == IF n = 0 THEN loc ELSE [loc EXCEPT !.path[Len(loc.path)].index = @ + n]

\* --------------------------------------------------------- numbers
BitsOf(ts) == SizeOf(Type(ts)) * ByteBits
C(ts, v) ==
  CASE ts = "BOOL" -> IF v = 0 THEN 0 ELSE 1
    [] ts \in {"FLOAT", "DOUBLE", "PTR", "FUNCTION", "VOID"} \cup ts_bulk -> v
    [] ts \in ts_unsigned -> v % 2^BitsOf(ts)
    [] OTHER -> LET half == 2^(BitsOf(ts) - 1) IN ((v + half) % (2 * half)) - half
Bool(b) == IF b THEN 1 ELSE 0
Abs(a) == IF a < 0 THEN -a ELSE a
Towards0(a, b) == IF (a < 0) = (b < 0) THEN Abs(a) \div Abs(b) ELSE -(Abs(a) \div Abs(b))
Rank(ts) == IF ts \in Narrow \cup {"ENUM"} THEN "INT" ELSE ts
Usual(ts1, ts2) == IF TsRank[Rank(ts1)] > TsRank[Rank(ts2)] THEN Rank(ts1) ELSE Rank(ts2)
Relation(op, a, b) ==
  Bool(CASE op = "==" -> a = b [] op = "!=" -> a # b [] op = "<" -> a < b [] op = ">" -> a > b [] op = "<=" -> a <= b [] op = ">=" -> a >= b)
Wordwise(op, ts, a, b) ==
  LET m == 2^BitsOf(ts) IN CASE op = "&" -> (a % m) & (b % m) [] op = "|" -> (a % m) | (b % m) [] op = "^" -> (a % m) ^^ (b % m)
\* A product of two words, in two halves: it need not fit a number of TLC.
Times(ts, a, b) == LET half == 2^(BitsOf(ts) \div 2) IN (((a % half^2) * (b \div half)) % half) * half + (a % half^2) * (b % half)
Arithmetic(op, ts, a, b) ==
  C(ts, CASE op = "+" -> a + b [] op = "-" -> a - b
          [] op = "*" -> IF ts \in ts_float THEN a * b ELSE Times(ts, a, b)
          [] op = "/" -> Towards0(a, b) [] op = "%" -> a - b * Towards0(a, b)
          [] op \in {"&", "|", "^"} -> Wordwise(op, ts, a, b)
          [] op = "<<" -> (a % 2^(BitsOf(ts) - b)) * 2^b [] op = ">>" -> a \div 2^b)
Relations == {"==", "!=", "<", ">", "<=", ">="}

\* ------------------------------------------------------- the store
\* st: the scalars of the objects, the calls of other files so far, and a number for the next object.
New(st, name) == name \o "@" \o ToString(st.next)
Numbered(st) == [st EXCEPT !.next = @ + 1]
Put(st, loc, v) == [st EXCEPT !.store = (loc :> v) @@ @]
Get(st, loc, t) == IF loc \in DOMAIN st.store THEN st.store[loc] ELSE IF t.ts = "PTR" THEN Null ELSE 0
Copied(st, to, from) ==
  LET k == Len(from.path)
      under == {l \in DOMAIN st.store : l.obj = from.obj /\ Len(l.path) >= k /\ SubSeq(l.path, 1, k) = from.path}
      at(l) == [to EXCEPT !.path = @ \o SubSeq(l.path, k + 1, Len(l.path))]
      new == {at(l) : l \in under}
  IN  [st EXCEPT !.store = [l \in new |-> st.store[CHOOSE m \in under : at(m) = l]] @@ @]
\* An array is a pointer to its first element, a struct its place, and a scalar what is there.
Value(st, loc, t) ==
  CASE t.ts = "ARRAY" -> [t |-> PtrTo(t.x[1]), v |-> Into(loc, Step("", 0)), st |-> st]
    [] t.ts \in ts_bulk \cup {"FUNCTION"} -> [t |-> t, v |-> loc, st |-> st]
    [] OTHER -> [t |-> t, v |-> Get(st, loc, t), st |-> st]
\* A value on its way to an object of type t: a number becomes a pointer only when it is 0.
Assigned(t, e) == IF t.ts = "PTR" /\ e.t.ts \notin {"PTR", "FUNCTION"} THEN Null ELSE C(t.ts, e.v)

\* ---------------------------------------------------- expressions
\* env: the object and the type of each name in scope, and the values of a ... .
Scope(n, env) ==
  IF n.name \in DOMAIN env.names THEN env.names[n.name]
  ELSE [obj |-> n.name, type |-> IF n.name \in DOMAIN Globals THEN Globals[n.name].type
                                 ELSE IF n.name \in DOMAIN Externals THEN Externals[n.name] ELSE Functions[n.name].x[1]]

RECURSIVE Eval(_, _, _), Place(_, _, _), Exec(_, _, _), Apply(_, _, _)

\* The object a name, an element, a field or *p stands for.
Place(n, env, st) ==
  LET inner == Place(n.x[1], env, st)
      p == Eval(n.x[1], env, st)
      i == Eval(n.x[2], env, p.st)
      at(t, loc, s) == [t |-> t, loc |-> loc, st |-> s]
      field(t, loc, s) == at(FieldType(t, n.name), Into(loc, Step(n.name, 0)), s)
  IN  CASE n.nt = "identifier" -> at(Scope(n, env).type, Loc(Scope(n, env).obj, <<>>), st)
        [] n.nt = "subscript" -> at(p.t.x[1], Moved(p.v, i.v), i.st)
        [] n.nt = "prefix" /\ p.t.ts = "FUNCTION" -> at(p.t, p.v, p.st)
        [] n.nt = "prefix" -> at(p.t.x[1], p.v, p.st)
        [] n.nt = "postfix" /\ n.op = "." -> field(inner.t, inner.loc, inner.st)
        [] n.nt = "postfix" -> field(p.t.x[1], p.v, p.st)
        [] n.nt = "cast" -> inner

Sum(op, a, b) ==      \* + and - where one is a pointer
  CASE a.t.ts = "PTR" /\ b.t.ts = "PTR" -> [t |-> Type("LONG"), v |-> Last(a.v.path).index - Last(b.v.path).index]
    [] a.t.ts = "PTR" -> [t |-> a.t, v |-> Moved(a.v, IF op = "-" THEN -b.v ELSE b.v)]
    [] OTHER -> [t |-> b.t, v |-> Moved(b.v, a.v)]
Index(p) == IF p.path = <<>> THEN 0 ELSE Last(p.path).index
Combined(op, a, b) ==
  LET pointers == "PTR" \in {a.t.ts, b.t.ts}
      ts == Usual(a.t.ts, b.t.ts)
  IN  CASE pointers /\ op \in {"==", "!="} -> [t |-> Type("INT"), v |-> Bool((a.v = b.v) = (op = "=="))]
        [] pointers /\ op \in Relations -> [t |-> Type("INT"), v |-> Relation(op, Index(a.v), Index(b.v))]
        [] pointers -> Sum(op, a, b)
        [] op \in Relations -> [t |-> Type("INT"), v |-> Relation(op, C(ts, a.v), C(ts, b.v))]
        [] op \in {"<<", ">>"} -> [t |-> Type(Rank(a.t.ts)), v |-> Arithmetic(op, Rank(a.t.ts), a.v, b.v)]
        [] OTHER -> [t |-> Type(ts), v |-> Arithmetic(op, ts, C(ts, a.v), C(ts, b.v))]
IsTrue(e) == IF e.t.ts \in {"PTR", "FUNCTION"} THEN e.v # Null ELSE e.v # 0

Eval(n, env, st) ==
  LET sub(i, s) == Eval(n.x[i], env, s)
      e1 == sub(1, st)
      e2 == sub(2, e1.st)
      got(t, v, s) == [t |-> t, v |-> v, st |-> s]
      int(v, s) == got(Type("INT"), v, s)
      here == Place(n, env, st)
      lval == Place(n.x[1], env, st)
      old == Value(lval.st, lval.loc, lval.t)
      one == [t |-> Type("INT"), v |-> 1]
      change(op, b) == C(lval.t.ts, Combined(op, old, b).v)
      measured == IF n.x[1].nt = "type" THEN n.x[1] ELSE lval.t
      arg(a, m) == LET e == Eval(m, env, a.st) IN [vs |-> Append(a.vs, e), st |-> e.st]
      args == FoldLeft(arg, [vs |-> <<>>, st |-> e1.st], Tail(n.x))
  IN  CASE n.nt = "literal" -> got(Type(n.ts), n.val, st)
        [] n.nt \in {"identifier", "subscript"} \/ (n.nt = "prefix" /\ n.op = "*") \/ (n.nt = "postfix" /\ n.op \in {".", "->"}) ->
             Value(here.st, here.loc, here.t)
        [] n.nt = "call" -> Apply(e1.v.obj, args.vs, args.st)
        [] n.nt = "intrcall" ->
             (CASE n.op = "sizeof" -> int(SizeOf(measured), st)
                [] n.op = "alignof" -> int(measure_type(measured)[2], st)
                [] n.op = "offsetof" -> int(measure_offset(measured, n.x[2].name), st)
                [] n.op = "countof" -> IF n.x[1].op = "va_etc" THEN int(Len(env.etc), st) ELSE int(measured.val, st)
                [] n.op = "va_etc" -> got(PtrTo(Type("VOID")), Loc(env.va, <<Step("", 0)>>), st)
                [] n.op = "va_arg" -> got(n.x[2], Get(lval.st, old.v, n.x[2]), Put(lval.st, lval.loc, Moved(old.v, 1)))
                [] n.op = "alloca" -> got(PtrTo(Type("VOID")), Loc(New(e1.st, "alloca"), <<Step("", 0)>>), Numbered(e1.st))
                [] n.op = "generic" ->
                     LET picks == {i \in 1..(Len(n.x) - 1) \div 2 : n.x[2 * i].nt = "null" \/ e1.t = n.x[2 * i]} IN sub(2 * Min(picks) + 1, st))
        [] n.nt = "cast" -> LET e == sub(2, st) IN got(n.x[1], Assigned(n.x[1], e), e.st)
        [] n.nt = "postfix" -> got(old.t, old.v, Put(lval.st, lval.loc, change(SubSeq(n.op, 1, 1), one)))
        [] n.nt = "prefix" /\ n.op \in {"++", "--"} ->
             LET v == change(SubSeq(n.op, 1, 1), one) IN got(old.t, v, Put(lval.st, lval.loc, v))
        [] n.nt = "prefix" /\ n.op = "&" -> got(PtrTo(lval.t), lval.loc, lval.st)
        [] n.nt = "prefix" /\ n.op = "!" -> int(Bool(~IsTrue(e1)), e1.st)
        [] n.nt = "prefix" ->
             LET ts == Rank(e1.t.ts) IN got(Type(ts), C(ts, CASE n.op = "-" -> -e1.v [] n.op = "~" -> -e1.v - 1 [] OTHER -> e1.v), e1.st)
        [] n.nt = "infix" /\ n.op = "&&" -> IF IsTrue(e1) THEN int(Bool(IsTrue(e2)), e2.st) ELSE int(0, e1.st)
        [] n.nt = "infix" /\ n.op = "||" -> IF IsTrue(e1) THEN int(1, e1.st) ELSE int(Bool(IsTrue(e2)), e2.st)
        [] n.nt = "infix" -> LET r == Combined(n.op, e1, e2) IN got(r.t, r.v, e2.st)
        [] n.nt = "cond" ->
             LET yes == sub(2, e1.st)  no == sub(3, e1.st)
                 e == IF IsTrue(e1) THEN yes ELSE no
                 t == IF {yes.t.ts, no.t.ts} \subseteq ts_numerical THEN Type(Usual(yes.t.ts, no.t.ts)) ELSE yes.t
             IN  got(t, C(t.ts, e.v), e.st)
        [] n.nt = "assign" ->
             LET r == Eval(n.x[2], env, lval.st)
                 \* the old value is read after the right side is evaluated
                 cur == Value(r.st, lval.loc, lval.t)
                 v == Assigned(lval.t, IF n.op = "=" THEN r ELSE Combined(AssignmentOperator[n.op], cur, r))
             IN  got(lval.t, v, IF lval.t.ts \in ts_bulk THEN Copied(r.st, lval.loc, v) ELSE Put(r.st, lval.loc, v))
        [] n.nt = "comma" -> FoldLeft(LAMBDA e, m : Eval(m, env, e.st), got(Type("VOID"), 0, st), n.x)

\* The objects of the file's variables: an initializer is a display or a constant.
RECURSIVE Initialized(_, _, _, _)
Initialized(st, loc, t, init) ==
  LET element(s, j) == Initialized(s, Into(loc, Step("", j - 1)), t.x[1], init.x[j + 1])
      field(s, j) == Initialized(s, Into(loc, Step(Fields(t)[j].name, 0)), Fields(t)[j].x[1], init.x[j + 1])
      js == [j \in 1..Len(init.x) - 1 |-> j]
  IN  CASE init.nt = "display" -> (IF t.ts = "ARRAY" THEN FoldLeft(element, st, js) ELSE FoldLeft(field, st, js))
        [] OTHER -> Put(st, loc, Assigned(t, Eval(init, [names |-> <<>>], st)))
AtStart ==
  LET var(g, st) == IF Globals[g].init = <<>> THEN st ELSE Initialized(st, Loc(g, <<>>), Globals[g].type, Globals[g].init[1])
  IN  FoldSet(var, [store |-> <<>>, calls |-> <<>>, next |-> 1], DOMAIN Globals)

\* ----------------------------------------------------- statements
\* flow: "next", "break", "continue", "return", or "goto" with the label in v.
Flowing(flow, v, env, st) == [flow |-> flow, v |-> v, env |-> env, st |-> st]
Next1(env, st) == Flowing("next", 0, env, st)
RECURSIVE Loop(_, _, _, _)
\* x: the test, body and step of a loop that has run its beginning; first: whether the test is skipped once.
Loop(x, env, st, first) ==
  LET test == Eval(x[1], env, st)
      body == Exec(x[2], env, IF first THEN st ELSE test.st)
  IN  CASE ~first /\ ~IsTrue(test) -> Next1(env, test.st)
        [] body.flow = "break" -> Next1(env, body.st)
        [] body.flow \in {"next", "continue"} -> Loop(x, env, Exec(x[3], env, body.st).st, FALSE)
        [] OTHER -> body

Exec(n, env, st) ==
  LET e1 == Eval(n.x[1], env, st)
      run(f, m) == IF f.flow = "next" THEN Exec(m, f.env, f.st) ELSE f
      runAll(ns, s) == [FoldLeft(run, Next1(env, s), ns) EXCEPT !.env = env]
      orTrue(m) == IF m.nt = "null" THEN [Node("literal") EXCEPT !.ts = "INT", !.val = 1] ELSE m
      b == runAll(n.x, st)
      left == b.flow = "goto" /\ b.v = n.name
  IN  CASE n.nt = "null" -> Next1(env, st)
        [] n.nt = "vardecl" ->
             Next1([env EXCEPT !.names = (n.name :> [obj |-> New(st, n.name), type |-> n.x[1]]) @@ @], Numbered(st))
        [] n.nt = "block" /\ n.name = "" -> b
        [] n.nt = "block" -> IF ~left THEN b ELSE IF n.op = "BREAK" THEN Next1(env, b.st) ELSE Exec(n, env, b.st)
        [] n.nt = "if" -> IF IsTrue(e1) THEN [Exec(n.x[2], env, e1.st) EXCEPT !.env = env]
                          ELSE IF Len(n.x) = 3 THEN [Exec(n.x[3], env, e1.st) EXCEPT !.env = env] ELSE Next1(env, e1.st)
        [] n.nt = "while" -> Loop(<<n.x[1], n.x[2], Node("null")>>, env, st, FALSE)
        [] n.nt = "do" -> Loop(<<n.x[2], n.x[1], Node("null")>>, env, st, TRUE)
        [] n.nt = "for" -> Loop(<<orTrue(n.x[2]), n.x[4], n.x[3]>>, env, Exec(n.x[1], env, st).st, FALSE)
        [] n.nt = "switch" ->
             LET v == C("INT", e1.v)
                 hit == SelectInSeq(n.x, LAMBDA c : c.nt = "case" /\ C("INT", Eval(c.x[1], env, e1.st).v) = v)
                 start == IF hit # 0 THEN hit ELSE SelectInSeq(n.x, LAMBDA c : c.nt = "default")
                 body(c) == IF c.nt = "case" THEN Tail(c.x) ELSE c.x
                 f == runAll(FlattenSeq([i \in 1..Len(n.x) - start + 1 |-> body(n.x[start + i - 1])]), e1.st)
             IN  IF start = 0 THEN Next1(env, e1.st) ELSE IF f.flow = "break" THEN Next1(env, f.st) ELSE f
        [] n.nt \in {"break", "continue"} -> Flowing(n.nt, 0, env, st)
        [] n.nt = "goto" -> Flowing("goto", n.name, env, st)
        [] n.nt = "return" -> IF n.x = <<>> THEN Flowing("return", 0, env, st) ELSE Flowing("return", e1, env, e1.st)
        [] OTHER -> Next1(env, Eval(n, env, st).st)

\* A call: args are evaluated already, each with its type.
Apply(name, args, st) ==
  LET fd == Functions[name]
      t == IF name \in DOMAIN Externals THEN Externals[name] ELSE fd.x[1]
      pars == Tail(t.x)
      etc == pars # <<>> /\ Last(pars).x[1].ts = "ETC"
      fixed == Len(pars) - (IF etc THEN 1 ELSE 0)
      given(i) == Assigned(pars[i].x[1], args[i])
      obj(i) == pars[i].name \o "@" \o ToString(st.next + i)
      va == "va@" \o ToString(st.next)
      rest == SubSeq(args, fixed + 1, Len(args))
      bound == [i \in 1..fixed |-> i]
      stored == FoldLeft(LAMBDA s, i : Put(s, Loc(obj(i), <<>>), given(i)), [st EXCEPT !.next = @ + fixed + 1], bound)
      ready == FoldLeft(LAMBDA s, i : Put(s, Loc(va, <<Step("", i - 1)>>), rest[i].v), stored, [i \in DOMAIN rest |-> i])
      names == [p \in {pars[i].name : i \in 1..fixed} |->
                  LET i == CHOOSE i \in 1..fixed : pars[i].name = p IN [obj |-> obj(i), type |-> pars[i].x[1]]]
      f == Exec(fd.x[2], [names |-> names, va |-> va, etc |-> rest], ready)
  IN  IF name \in DOMAIN Externals
        THEN [t |-> t.x[1], v |-> C(t.x[1].ts, args[1].v),
              st |-> [st EXCEPT !.calls = Append(@, <<name, [i \in 1..fixed |-> given(i)]>>)]]
        ELSE [t |-> t.x[1], v |-> IF t.x[1].ts = "VOID" THEN 0 ELSE Assigned(t.x[1], f.v), st |-> f.st]

\* What a call <<function, arguments>> comes to: its result, the calls of other files it makes and the scalar globals it leaves.
ScalarGlobals == {g \in DOMAIN Globals : Globals[g].type.ts \notin ts_bulk \cup {"PTR"}}
Outcome(call) ==
  LET pars == Tail(Functions[call[1]].x[1].x)
      m == Apply(call[1], [k \in DOMAIN call[2] |-> [t |-> pars[k].x[1], v |-> call[2][k]]], AtStart)
  IN  [t |-> m.t, v |-> m.v, calls |-> m.st.calls, globals |-> [g \in ScalarGlobals |-> Get(m.st, Loc(g, <<>>), Globals[g].type)]]
=============================================================================
