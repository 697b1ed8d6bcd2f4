------------------------------- MODULE Codegen -------------------------------
(***************************************************************************)
(* From the lowered tree to the instructions of WebAssembly: a piece of    *)
(* code with the type of the value it leaves, for every expression and     *)
(* statement; then the flat code of a function, and the peephole pass.     *)
(* What the compiler refuses has the instruction "error" in its code.      *)
(***************************************************************************)
EXTENDS Lowering

CONSTANTS OptLevel       \* g_optlvl
ASSUME OptLevelAssumption == OptLevel \in Nat

\* inscode_t: vt, wd and sx are the value type, the width in memory and the sign that
\* the name of the instruction tells; sub holds labels, a signature or a nested code.
Ins(in) == [in |-> in, vt |-> "i32", op |-> "", wd |-> 0, sx |-> FALSE, id |-> "", arg |-> 0, sub |-> <<>>]
InsId(in, id) == [Ins(in) EXCEPT !.id = id]
Sp(in) == InsId(in, "sp$")
RegDecl(reg, vt) == [Ins("regdecl") EXCEPT !.id = reg, !.vt = vt]

\* An acode node: its code, with other acodes at the placeholders.
Code(t, code) == [Node("acode") EXCEPT !.x = <<t>>, !.code = code]
TypeIn(a) == a.x[1]
Nest(a) == <<[Ins("placeholder") EXCEPT !.sub = <<a>>]>>
Bad == Code(Type("VOID"), <<Ins("error")>>)

\* ---------------------------------------------------- instructions
asm_numerical_const(ts, v) == [Ins("const") EXCEPT !.vt = ts2vt[ts], !.arg = IF ts = "BOOL" THEN Truth(v # 0) ELSE v]
Const(v) == asm_numerical_const("INT", v)
Numeric(ts, op) == [Ins("numeric") EXCEPT !.vt = ts2vt[ts], !.op = op, !.sx = ts \notin ts_unsigned]
SignExtend(ts) == [Numeric("INT", "extend") EXCEPT !.wd = SizeOf(Type(ts))]
\* wrap, extend, convert, trunc, promote or demote: op is the type it converts from.
Conversion(tsto, tsfrom, signed) == [Ins("convert") EXCEPT !.vt = ts2vt[tsto], !.op = ts2vt[tsfrom], !.sx = signed]

RECURSIVE asm_numerical_cast(_, _)
asm_numerical_cast(tsto, tsfrom) ==
  LET wide == IF tsfrom \in {"CHAR", "SHORT"} THEN <<SignExtend(tsfrom)>> ELSE <<>>
      signed == tsfrom \notin ts_unsigned
      long(ts) == ts \in {"LLONG", "ULLONG"}
  IN  CASE tsto = tsfrom -> <<>>
        [] tsto \in ts_float -> wide \o <<Conversion(tsto, tsfrom, signed)>>
        [] tsto = "BOOL" ->
             IF tsfrom = "DOUBLE" THEN <<asm_numerical_const(tsfrom, 0), Numeric(tsfrom, "!=")>>
             ELSE IF tsfrom = "FLOAT" THEN <<>> ELSE <<Numeric(tsfrom, "eqz"), Numeric("INT", "eqz")>>
        [] tsto \in {"CHAR", "SHORT"} -> Append(asm_numerical_cast("INT", tsfrom), SignExtend(tsto))
        [] tsto \in {"UCHAR", "USHORT"} -> asm_numerical_cast("UINT", tsfrom) \o <<Const(2^Bits[tsto] - 1), Numeric("UINT", "&")>>
        [] tsfrom \in ts_float -> <<Conversion(tsto, tsfrom, tsto \notin ts_unsigned)>>
        [] long(tsto) -> IF long(tsfrom) THEN <<>> ELSE Append(wide, Conversion(tsto, tsfrom, signed))
        [] long(tsfrom) -> <<Conversion(tsto, tsfrom, FALSE)>>
        [] OTHER -> wide

asm_load(tsto, tsfrom, off) ==
  [Ins("load") EXCEPT !.vt = ts2vt[tsto], !.wd = SizeOf(Type(tsfrom)), !.arg = off,
     !.sx = tsfrom \in {"CHAR", "SHORT"} \/ (ts2vt[tsto] = "i64" /\ tsfrom \in {"INT", "LONG", "ENUM"})]
asm_instr_load_to_store(i) ==
  [i EXCEPT !.in = CASE i.in = "load" -> "store" [] i.in = "local.get" -> "local.set" [] i.in = "global.get" -> "global.set"]
asm_store(tsto, tsfrom, off) == asm_instr_load_to_store(asm_load(tsfrom, tsto, off))

asm_cast(tp, ta) ==
  LET ts(t) == IF t.ts = "ENUM" THEN "INT" ELSE IF t.ts = "PTR" THEN "ULONG" ELSE t.ts
  IN  IF ts_numerical \cap {tp.ts, ta.ts} # {} THEN asm_numerical_cast(ts(tp), ts(ta)) ELSE <<>>

IntegerOps == {"%", "&", "|", "^", "<<", ">>"}
asm_binary(ts, op) == IF ts \in ts_float /\ op \in IntegerOps THEN <<Ins("error")>> ELSE <<Numeric(ts, op)>>
asm_unary(ts, op) ==
  CASE op = "+" -> <<>> [] op = "!" /\ ts \notin ts_float -> <<Numeric(ts, "eqz")>>
    [] op = "-" /\ ts \in ts_float -> <<Numeric(ts, "neg")>> [] OTHER -> <<Ins("error")>>

\* ------------------------------------------- what a code amounts to
One(a, ins) == Len(a.code) = 1 /\ a.code[1].in \in ins
acode_simple_noeff(a) == One(a, {"const", "global.get", "local.get", "load"})
acode_rval_get(a) == One(a, {"global.get", "local.get"})
acode_rval_load(a) == a.code # <<>> /\ Last(a.code).in = "load"

\* ------------------------------------------------------ expressions
compile_cast(t, a) ==
  IF t.ts = "VOID" THEN Code(t, Append(Nest(a), Ins("drop")))
  ELSE IF cast_compatible(t, TypeIn(a)) THEN Code(t, Nest(a) \o asm_cast(t, TypeIn(a))) ELSE Bad
Converted(t, a) == IF same_type(t, TypeIn(a)) THEN a ELSE compile_cast(t, a)
compile_numlit(ts, v) == Code(Type(ts), <<asm_numerical_const(ts, v)>>)

compile_idref(n, v) ==
  Code(v.type, <<InsId(IF ~v.global THEN "local.get" ELSE IF v.type.ts = "FUNCTION" THEN "ref.func"
                       ELSE IF v.type.ts \in ts_bulk THEN "ref.data" ELSE "global.get", n.name)>>)

RECURSIVE compile_binary(_, _, _)
compile_binary(a1, op, a2) ==
  LET t1 == TypeIn(a1)  t2 == TypeIn(a2)
      enums == op \in Comparisons /\ {t1.ts, t2.ts} \subseteq ts_numerical_or_enum
                 /\ ({t1.ts, t2.ts} # {"ENUM"} \/ "" \in {t1.name, t2.name} \/ t1.name = t2.name)
      ts(t) == IF enums /\ t.ts = "ENUM" THEN "INT" ELSE t.ts
      is(s, t) == t.ts = s
      rts == ts_arith_common[ts(t1), ts(t2)]
      operand(a) == IF ts(TypeIn(a)) = rts THEN a ELSE compile_cast(Type(rts), a)
      as(s, a) == compile_cast(Type(s), a)
      size == SizeOf(t1.x[1])
      int == compile_numlit("ULONG", size)
  IN  CASE {ts(t1), ts(t2)} \subseteq ts_numerical ->
             Code(Type(IF op \in Comparisons THEN "INT" ELSE rts), Nest(operand(a1)) \o Nest(operand(a2)) \o asm_binary(rts, op))
        [] is("PTR", t1) /\ t2.ts \in ts_numerical /\ op \in {"+", "-"} ->
             compile_cast(t1, compile_binary(as("ULONG", a1), op, IF size > 1 THEN compile_binary(a2, "*", int) ELSE a2))
        [] t1.ts \in ts_numerical /\ is("PTR", t2) /\ op = "+" -> compile_binary(a2, op, a1)
        [] is("PTR", t1) /\ is("PTR", t2) /\ op = "-" /\ same_type(t1, t2) ->
             LET d == compile_binary(as("LONG", a1), "-", as("LONG", a2))
             IN  IF size > 1 THEN compile_binary(d, "/", compile_numlit("LONG", size)) ELSE d
        [] is("PTR", t1) /\ is("PTR", t2) /\ op \in Comparisons -> compile_binary(as("ULONG", a1), op, as("ULONG", a2))
        [] OTHER -> Bad

RECURSIVE compile_unary(_, _)
compile_unary(op, a) ==
  LET ts == TypeIn(a).ts
      rts == ts_integral_promote[ts]
      int == rts \notin ts_float
      value == Nest(a) \o asm_numerical_cast(rts, ts)
      with(v, bop) == <<asm_numerical_const(rts, v)>> \o value \o asm_binary(rts, bop)
  IN  CASE ts \in ts_numerical ->
             Code(Type(IF op = "!" THEN "INT" ELSE rts),
               CASE op = "-" /\ int -> with(0, "-") [] op = "~" /\ int -> with(-1, "^")
                 [] op = "!" /\ ~int -> with(0, "==") [] OTHER -> value \o asm_unary(rts, op))
        [] ts = "PTR" /\ op = "!" -> compile_unary(op, compile_cast(Type("ULONG"), a))
        [] OTHER -> Bad

compile_booltest(a) ==
  LET zero == compile_numlit("ULONG", 0)
  IN  CASE TypeIn(a).ts \in TsIn("INT", "ULONG") -> a
        [] TypeIn(a).ts = "PTR" -> compile_binary(compile_cast(Type("ULONG"), a), "!=", zero)
        [] OTHER -> compile_binary(a, "!=", zero)

compile_intsel(a) == IF assign_compatible(Type("INT"), TypeIn(a)) THEN Converted(Type("INT"), a) ELSE Bad

\* <<>> when two pointers have no common type.
common_ptr_type(t1, t2) ==
  CASE t1.x[1].ts = "VOID" -> <<t2>> [] t2.x[1].ts = "VOID" -> <<t1>> [] same_type(t1.x[1], t2.x[1]) -> <<t1>> [] OTHER -> <<>>

compile_cond(a1, a2, a3) ==
  LET t2 == TypeIn(a2)  t3 == TypeIn(a3)
      common == IF {t2.ts, t3.ts} \subseteq ts_numerical THEN <<Type(ts_arith_common[t2.ts, t3.ts])>>
                ELSE IF {t2.ts, t3.ts} = {"PTR"} /\ common_ptr_type(t2, t3) # <<>> THEN common_ptr_type(t2, t3)
                ELSE IF same_type(t2, t3) THEN <<t2>> ELSE <<>>
      t == common[1]
      test == Nest(compile_booltest(a1))
      yes == Nest(Converted(t, a2))   no == Nest(Converted(t, a3))
  IN  CASE common = <<>> -> Bad
        [] acode_simple_noeff(a2) /\ acode_simple_noeff(a3) -> Code(t, yes \o no \o test \o <<Ins("select")>>)
        [] ts_to_blocktype[t.ts] = "unknown" -> Bad
        [] OTHER -> Code(t, test \o <<[Ins("if") EXCEPT !.vt = ts_to_blocktype[t.ts]]>> \o yes \o <<Ins("else")>> \o no \o <<Ins("end")>>)

\* A scalar of the type is read from the address the code leaves.
Loaded(t, code) ==
  LET ts == IF t.ts \in ts_numerical THEN ts_integral_promote[t.ts] ELSE t.ts
  IN  IF ts2vt[ts] = "unknown" THEN Bad ELSE Code([t EXCEPT !.ts = ts], code \o <<asm_load(ts, t.ts, 0)>>)
compile_ataddr(a) ==
  IF TypeIn(a).ts # "PTR" THEN Bad
  ELSE LET t == TypeIn(a).x[1] IN IF t.ts \in ts_bulk \cup {"FUNCTION"} THEN Code(t, a.code) ELSE Loaded(t, Nest(a))

compile_dot(a, fld) ==
  LET t == TypeIn(a)
      off == measure_offset(t, fld)
      at == Nest(a) \o (IF off > 0 THEN <<Const(off), Numeric("UINT", "+")>> ELSE <<>>)
      ft == FieldType(t, fld)
  IN  CASE t.ts \notin {"STRUCT", "UNION"} \/ FieldIndex(t, fld) = 0 -> Bad
        [] ft.ts \in ts_bulk -> Code(ft, at)
        [] OTHER -> Loaded(ft, Nest(Code(PtrTo(ft), at)))

compile_addrof(a) ==
  CASE TypeIn(a).ts \in ts_bulk \cup {"FUNCTION"} -> Code(PtrTo(TypeIn(a)), a.code)
    [] Len(a.code) = 2 /\ a.code[1].in = "placeholder" /\ acode_rval_load(a) -> a.code[1].sub[1]
    [] OTHER -> Bad

compile_subscript(aa, ai) ==
  LET t == TypeIn(aa)
      array == IF t.ts = "ARRAY" THEN Code(PtrTo(t.x[1]), aa.code) ELSE aa
  IN  IF "PTR" \in {TypeIn(array).ts, TypeIn(ai).ts} THEN compile_ataddr(compile_binary(array, "+", ai)) ELSE Bad

\* Assignments, ++ and --: ct is <<>> or the type the target is cast to, op "" in a plain
\* assignment, reg a register of its own for the address.
compile_asncombo(a, ct, op, v, post, reg) ==
  LET old == Last(a.code)
      t == TypeIn(a)
      address == Code(PtrTo(t), <<InsId("local.get", reg)>>)
      current == IF acode_rval_get(a) THEN a ELSE Code(t, Append(address.code, old))
      value == IF op = "" THEN v ELSE compile_binary(current, op, v)
      narrowed == IF ct = <<>> THEN value ELSE Converted(ct[1], value)
      new == Nest(Converted(t, narrowed))
      store == asm_instr_load_to_store(old)
      legal == /\ assign_compatible(t, IF ct = <<>> THEN TypeIn(value) ELSE ct[1])
               /\ ct = <<>> \/ cast_compatible(ct[1], TypeIn(value))
  IN  CASE ~acode_rval_get(a) /\ ~acode_rval_load(a) -> Bad
        [] ~legal -> Bad
        [] acode_rval_get(a) /\ post -> Code(t, <<old>> \o new \o <<store>>)
        [] acode_rval_get(a) /\ ~post ->
             Code(t, new \o (IF old.in = "local.get" THEN <<[store EXCEPT !.in = "local.tee"]>> ELSE <<store, old>>))
        [] acode_rval_load(a) ->
             LET kept == IF post THEN <<InsId("local.tee", reg), old>> ELSE <<InsId("local.set", reg)>>
                 again == IF post THEN <<>> ELSE Append(Nest(address), old)
             IN  Code(t, <<RegDecl(reg, "i32")>> \o Front(a.code) \o kept \o Nest(address) \o new \o <<store>> \o again)

\* ftn2fsig
TypeOfPar(p) == IF p.nt = "vardecl" THEN p.x[1] ELSE p
ftn2fsig(t) ==
  LET vt(p) == ts2vt[IF TypeOfPar(p).ts \in {"ETC", "ARRAY"} THEN "PTR" ELSE TypeOfPar(p).ts]
      pars == [i \in 1..Len(t.x) - 1 |-> vt(t.x[i + 1])]
      ret == t.x[1].ts
  IN  IF ret \in ts_bulk THEN << <<"i32">> \o pars, <<>> >> ELSE <<pars, IF ret = "VOID" THEN <<>> ELSE <<ts2vt[ret]>> >>

Promoted(t) == IF t.ts \in Narrow THEN Type("INT") ELSE t
PassedAs(t, a) == IF assign_compatible(Promoted(t), TypeIn(a)) THEN Nest(Converted(Promoted(t), a)) ELSE Nest(Bad)

\* The arguments of a ... : cells of 16 bytes below the stack pointer, their number in the one before them.
Cell == 16
VarArgs(args, reg) ==
  LET size == RoundUp((1 + Len(args)) * Cell, 16)
      type(t) == CASE t.ts \in Narrow -> Type("INT") [] t.ts = "FLOAT" -> Type("DOUBLE") [] t.ts = "ARRAY" -> PtrTo(t.x[1]) [] OTHER -> t
      arg(i) == LET t == type(TypeIn(args[i]))
                    a == IF TypeIn(args[i]).ts \in Narrow \cup {"FLOAT"} THEN compile_cast(t, args[i]) ELSE args[i]
                IN  IF ts2vt[t.ts] = "unknown" THEN <<Ins("error")>>
                    ELSE <<InsId("local.get", reg)>> \o Nest(a) \o <<asm_store(t.ts, t.ts, i * Cell)>>
  IN  [push |-> << Sp("global.get"), Const(size), Numeric("UINT", "-"), InsId("local.tee", reg), Sp("global.set"),
                   InsId("local.get", reg), Const(Len(args)), asm_store("INT", "INT", 0) >>
                  \o FlattenSeq([i \in DOMAIN args |-> arg(i)])
                  \o << InsId("local.get", reg), Const(Cell), Numeric("UINT", "+") >>,
       pop  |-> << InsId("local.get", reg), Const(size), Numeric("UINT", "+"), Sp("global.set") >>]

\* ab: the codes of the arguments; to: <<>>, or the address that takes the result of a bulk type.
compile_call(f, ab, to, reg) ==
  LET t == TypeIn(f)
      bulk == t.x[1].ts \in ts_bulk
      etc == Len(t.x) > 1 /\ TypeOfPar(Last(t.x)).ts = "ETC"
      fixed == Len(t.x) - (IF etc THEN 2 ELSE 1)
      direct == One(f, {"ref.func"})
      call == IF direct THEN <<InsId("call", f.code[1].id)>>
              ELSE Nest(f) \o <<[Ins("call_indirect") EXCEPT !.sub = ftn2fsig(t)]>>
      given == FlattenSeq([i \in 1..fixed |-> PassedAs(TypeOfPar(t.x[i + 1]), ab[i])])
      result == IF bulk THEN PassedAs(PtrTo(t.x[1]), to[1]) ELSE <<>>
      va == VarArgs(SubSeq(ab, fixed + 1, Len(ab)), reg)
      all == result \o given
  IN  IF t.ts # "FUNCTION" \/ Len(ab) < fixed \/ (~etc /\ Len(ab) > fixed) \/ bulk # (to # <<>>) THEN Bad
      ELSE Code(IF bulk THEN Type("VOID") ELSE t.x[1],
             IF etc THEN <<RegDecl(reg, "i32")>> \o all \o va.push \o call \o va.pop ELSE all \o call)

\* asm code applied to arguments.
compile_acapp(ac, ab) ==
  LET t == TypeIn(ac).x[1]
  IN  IF TypeIn(ac).ts # "PTR" \/ t.ts # "FUNCTION" \/ Len(t.x) # Len(ab) + 1 THEN Bad
      ELSE Code(t.x[1], FlattenSeq([i \in DOMAIN ab |-> PassedAs(TypeOfPar(t.x[i + 1]), ab[i])]) \o Nest(ac))

\* alloca: sp$ goes down by the size, rounded up to 16.
Alloca(a, reg) ==
  LET down == <<Numeric("INT", "-"), Sp("global.set"), Sp("global.get")>>
      ts == TypeIn(a).ts
  IN  CASE One(a, {"const"}) /\ a.code[1].vt = "i32" -> Code(PtrTo(Type("VOID")), <<Sp("global.get"), Const(RoundUp(a.code[1].arg, 16))>> \o down)
        [] ts \in ts_numerical /\ ts_arith_common[ts, "ULONG"] = "ULONG" ->
             Code(PtrTo(Type("VOID")), <<RegDecl(reg, "i32")>> \o a.code \o asm_numerical_cast("ULONG", ts)
               \o << Const(15), Numeric("INT", "+"), Const(-16), Numeric("INT", "&"), InsId("local.set", reg),
                     Sp("global.get"), InsId("local.get", reg) >> \o down)
        [] OTHER -> Bad

\* ------------------------------------------------------- statements
compile_stm_Left(a) == Code(Type("VOID"), a.code)
compile_stm(a) == IF TypeIn(a).ts = "VOID" THEN a ELSE Code(Type("VOID"), Append(a.code, Ins("drop")))
compile_if(a1, a2, a3) ==
  LET else == IF a3 = <<>> \/ compile_stm(a3[1]).code = <<>> THEN <<>> ELSE <<Ins("else")>> \o Nest(compile_stm(a3[1]))
  IN  Code(Type("VOID"), Nest(compile_booltest(a1)) \o <<[Ins("if") EXCEPT !.vt = "void"]>> \o Nest(compile_stm(a2)) \o else \o <<Ins("end")>>)

\* cases: the default and the cases in increasing order, each a goto.  <<>>: too few or too sparse.
LabelOf(c) == Last(c.x).name
compile_switch_table(a, cases) ==
  LET off == cases[2].x[1].val
      default == LabelOf(cases[1])
      \* the gap before a case is filled with the default; its index is an int
      add(st, c) == LET idx == SignBitExtended(c.x[1].val - off, Bits["INT"])
                        gap == Max({0, idx - Len(st.table)})
                    IN  IF st.fill + gap > Len(cases) THEN [st EXCEPT !.fill = @ + gap]
                        ELSE [table |-> st.table \o [k \in 1..gap |-> default] \o <<LabelOf(c)>>, fill |-> st.fill + gap, ok |-> st.ok /\ idx >= 0]
      st == FoldLeft(add, [table |-> <<>>, fill |-> 0, ok |-> TRUE], Tail(cases))
      from == IF off = 0 THEN <<>> ELSE <<Const(off), Numeric("INT", "-")>>
  IN  IF Len(cases) < 3 THEN <<>>
      ELSE IF ~st.ok THEN <<Bad>>
      ELSE IF st.fill > Len(cases) THEN <<>>
      ELSE <<Code(Type("VOID"), Nest(a) \o from \o <<[Ins("br_table") EXCEPT !.sub = Append(st.table, default)]>>)>>

compile_switch_ifs(a, cases, reg) ==
  LET inLocal == One(a, {"local.get"})
      v == IF inLocal THEN a.code[1].id ELSE reg
      into == IF inLocal THEN <<>> ELSE <<RegDecl(reg, "i32")>> \o Nest(a) \o <<InsId("local.set", reg)>>
      test(c) == <<Const(c.x[1].val), InsId("local.get", v), Numeric("INT", "=="), InsId("br_if", LabelOf(c))>>
  IN  Code(Type("VOID"), into \o FlattenSeq([i \in 1..Len(cases) - 1 |-> test(cases[i + 1])]) \o <<InsId("br", LabelOf(cases[1]))>>)
compile_switch(a, cases, reg) ==
  LET table == compile_switch_table(a, cases) IN IF table = <<>> THEN compile_switch_ifs(a, cases, reg) ELSE table[1]

\* bp: the register with the stack pointer of the caller, or "".
compile_return(as, ret, bp) ==
  LET value == IF as = <<>> THEN (IF ret.ts = "VOID" THEN <<>> ELSE <<Ins("error")>>)
               ELSE IF assign_compatible(ret, TypeIn(as[1])) THEN Nest(Converted(ret, as[1])) ELSE <<Ins("error")>>
  IN  Code(Type("VOID"), value \o (IF bp = "" THEN <<>> ELSE <<InsId("local.get", bp), Sp("global.set")>>) \o <<Ins("return")>>)

compile_bulkasn(d, s) ==
  IF same_type(TypeIn(d), TypeIn(s))
    THEN Code(Type("VOID"), Nest(d) \o Nest(s) \o <<Const(SizeOf(TypeIn(d))), Ins("memory.copy")>>) ELSE Bad

\* cx: the types of the names, and the type the function returns.
RECURSIVE expr_compile(_, _, _)
expr_compile(node, cx, path) ==
  LET n == IF arithmetic_constant_expr(node) THEN Folded(node, cx.rib) ELSE node
      at(m, i) == expr_compile(m, cx, Below(path, i))
      sub(i) == at(n.x[i], i)
      reg == Fresh(path, "i")
      codes(m, i) == ForEach(LAMBDA k : at(m.x[k + 1], i + k), Len(m.x) - 1)      \* arguments
      one == compile_numlit("INT", 1)
      uncast(m) == IF m.nt = "cast" THEN m.x[2] ELSE m
      castOf(m) == IF m.nt = "cast" THEN <<m.x[1]>> ELSE <<>>
      is(op, m) == m.nt = "prefix" /\ m.op = op
      measured == IF n.x[1].nt = "type" THEN n.x[1] ELSE TypeIn(sub(1))
      step(op, post) == compile_asncombo(at(uncast(n.x[1]), 1), castOf(n.x[1]), op, one, post, reg)
      body == FlattenSeq(ForEach(LAMBDA i : Nest(compile_stm(sub(i))), Len(n.x)))
  IN  CASE n.nt = "literal" -> compile_numlit(n.ts, n.val)
        [] n.nt = "identifier" -> IF n.name \in DOMAIN cx.rib THEN compile_idref(n, cx.rib[n.name]) ELSE Bad
        [] n.nt = "subscript" -> compile_subscript(sub(1), sub(2))
        [] n.nt = "call" -> compile_call(sub(1), codes(n, 1), <<>>, reg)
        [] n.nt = "intrcall" ->
             (CASE n.op = "alloca" -> Alloca(sub(1), reg)
                [] n.op = "acode" -> compile_acapp(n.x[1], codes(n, 1))
                [] n.op = "sizeof" -> compile_numlit("INT", SizeOf(measured))
                [] n.op = "alignof" -> compile_numlit("INT", measure_type(measured)[2])
                [] n.op = "offsetof" -> compile_numlit("INT", measure_offset(measured, n.x[2].name))
                [] n.op = "countof" -> IF measured.ts = "ARRAY" THEN compile_numlit("INT", SizeOf(measured) \div SizeOf(measured.x[1])) ELSE Bad
                [] n.op = "generic" ->
                     LET picks == {i \in 1..(Len(n.x) - 1) \div 2 : n.x[2 * i].nt = "null" \/ same_type(measured, n.x[2 * i])}
                     IN  IF picks = {} THEN Bad ELSE sub(2 * Min(picks) + 1)
                [] OTHER -> Bad)
        [] n.nt = "cast" -> compile_cast(n.x[1], sub(2))
        [] n.nt = "postfix" /\ n.op = "." -> compile_dot(sub(1), n.name)
        [] n.nt = "postfix" /\ n.op \in {"++", "--"} -> step(SubSeq(n.op, 1, 1), TRUE)
        [] is("&", n) -> IF is("*", n.x[1]) THEN at(n.x[1].x[1], 1) ELSE compile_addrof(sub(1))
        [] is("*", n) -> IF is("&", n.x[1]) THEN at(n.x[1].x[1], 1) ELSE compile_ataddr(sub(1))
        [] n.nt = "prefix" /\ n.op \in {"++", "--"} -> step(SubSeq(n.op, 1, 1), FALSE)
        [] n.nt = "prefix" -> compile_unary(n.op, sub(1))
        [] n.nt = "infix" /\ n.op = "&&" -> compile_cond(sub(1), sub(2), compile_numlit("INT", 0))
        [] n.nt = "infix" /\ n.op = "||" -> compile_cond(sub(1), one, sub(2))
        [] n.nt = "infix" -> compile_binary(sub(1), n.op, sub(2))
        [] n.nt = "cond" -> compile_cond(sub(1), sub(2), sub(3))
        [] n.nt = "assign" ->
             LET to == at(uncast(n.x[1]), 1)
                 bulk == n.op = "=" /\ n.x[1].nt # "cast" /\ TypeIn(to).ts \in ts_bulk
             IN  CASE bulk /\ n.x[2].nt = "call" -> compile_call(at(n.x[2].x[1], 2), codes(n.x[2], 2), <<compile_addrof(to)>>, reg)
                   [] bulk /\ TypeIn(sub(2)).ts \in ts_bulk -> compile_bulkasn(to, sub(2))
                   [] OTHER -> compile_asncombo(to, castOf(n.x[1]), AssignmentOperator[n.op], sub(2), FALSE, reg)
        [] n.nt = "comma" ->
             Code(TypeIn(sub(Len(n.x))), FlattenSeq(ForEach(LAMBDA i :
               Nest(sub(i)) \o (IF i < Len(n.x) /\ TypeIn(sub(i)).ts # "VOID" THEN <<Ins("drop")>> ELSE <<>>), Len(n.x))))
        [] n.nt = "acode" -> n
        [] n.nt = "block" ->
             Code(Type("VOID"), IF n.name = "" THEN body
                                ELSE <<InsId(IF n.op = "CONTINUE" THEN "loop" ELSE "block", n.name)>> \o body \o <<InsId("end", n.name)>>)
        [] n.nt = "if" /\ Len(n.x) = 2 /\ n.x[2].nt = "goto" ->
             Code(Type("VOID"), Nest(compile_booltest(sub(1))) \o <<InsId("br_if", n.x[2].name)>>)
        [] n.nt = "if" -> compile_if(sub(1), sub(2), IF Len(n.x) = 3 THEN <<sub(3)>> ELSE <<>>)
        [] n.nt = "switch" -> compile_switch(compile_intsel(sub(1)), Tail(n.x), reg)
        [] n.nt = "goto" -> Code(Type("VOID"), <<InsId("br", n.name)>>)
        [] n.nt = "return" -> compile_return(IF n.x = <<>> THEN <<>> ELSE <<sub(1)>>, cx.ret, n.name)
        [] n.nt = "null" -> Code(Type("VOID"), <<>>)
        [] OTHER -> Bad

\* fundef_compile: the declarations stay, a statement becomes its code.
fundef_compile(fd, globals) ==
  LET cx == [rib |-> TypesOf(fd, globals), ret |-> fd.x[1].x[1]]
      ns == fd.x[2].x
      statement(i) == IF ns[i].nt = "vardecl" THEN ns[i] ELSE compile_stm(expr_compile(ns[i], cx, Below("", i)))
      end == IF cx.ret.ts = "VOID" \/ EndsInReturn(ns) THEN <<>> ELSE <<Bad>>
  IN  [fd EXCEPT !.x[2].x = [i \in DOMAIN ns |-> statement(i)] \o end]

\* fundef_flatten: the registers first, then the instructions in order.
RECURSIVE expr_flatten(_)
expr_flatten(a) == FlattenSeq(ForEach(LAMBDA i : IF a.code[i].in = "placeholder" THEN expr_flatten(a.code[i].sub[1]) ELSE <<a.code[i]>>, Len(a.code)))
fundef_flatten(fd) ==
  LET reg(d) == RegDecl(d.name, ts_to_blocktype[d.x[1].ts])
      flat == FlattenSeq(ForEach(LAMBDA i : LET m == fd.x[2].x[i] IN IF m.nt = "vardecl" THEN <<reg(m)>> ELSE expr_flatten(m), Len(fd.x[2].x)))
      isReg(i) == i.in = "regdecl"
      isCode(i) == i.in # "regdecl"
      pars == Tail(fd.x[1].x)
  IN  [i \in DOMAIN pars |-> reg(pars[i])] \o SelectSeq(flat, isReg) \o SelectSeq(flat, isCode)

\* ---------------------------------------------------------- peephole
\* A look at the instruction at i and the one or two before it: the code, and where to go on.
Is(i, in, op, vt) == i.in = in /\ i.op = op /\ i.vt = vt
Without(code, from, k) == SubSeq(code, 1, from - 1) \o SubSeq(code, from + k, Len(code))
Extends(i, wd) == i = [Numeric("INT", "extend") EXCEPT !.wd = wd]
Pair(code, i) ==
  LET this == code[i]  prev == code[i - 1]
      loads(vt, wd) == prev.in = "load" /\ prev.vt = vt /\ prev.wd = wd /\ prev.sx
  IN  CASE i = 1 -> <<code, i + 1>>
        [] this.in = "drop" /\ prev.in = "local.tee" -> <<Without([code EXCEPT ![i - 1].in = "local.set"], i, 1), i>>
        [] this.in = "drop" /\ prev.in \in {"local.get", "global.get"} -> <<Without(code, i - 1, 2), i - 1>>
        [] this.in = "drop" /\ prev.in = "load" -> <<Without(code, i - 1, 1), i - 1>>
        [] this.in = "local.get" /\ prev.in = "local.set" /\ prev.id = this.id -> <<Without([code EXCEPT ![i - 1].in = "local.tee"], i, 1), i>>
        [] Is(this, "numeric", "+", "i32") /\ prev = Const(0) -> <<Without(code, i - 1, 2), i - 1>>
        [] Extends(this, 1) /\ (Extends(prev, 1) \/ loads("i64", 1)) -> <<Without(code, i, 1), i>>
        [] Extends(this, 2) /\ (Extends(prev, 2) \/ loads("i32", 2)) -> <<Without(code, i, 1), i>>
        [] OTHER -> <<code, i + 1>>
Triple(code, i) ==
  LET this == code[i]  prev == code[i - 1]  first == code[i - 2]
      off == SignBitExtended(first.arg, Bits["INT"])
  IN  CASE i < 3 -> <<>>
        [] Is(this, "numeric", "*", "i32") /\ Is(prev, "const", "", "i32") /\ Is(first, "const", "", "i32") ->
             <<Without([code EXCEPT ![i - 2].arg = SignBitExtended(first.arg * prev.arg, Bits["INT"])], i - 1, 2), i - 1>>
        [] this.in = "load" /\ Is(prev, "numeric", "+", "i32") /\ Is(first, "const", "", "i32") /\ off >= 0 ->
             <<Without([code EXCEPT ![i].arg = @ + off], i - 2, 2), i - 2>>
        [] OTHER -> <<>>
RECURSIVE PeepholePass(_, _)
PeepholePass(code, i) ==
  IF i > Len(code) THEN code
  ELSE LET p == Pair(code, i)
           t == Triple(p[1], i)
       IN  IF i > Len(p[1]) THEN p[1]
           ELSE IF t = <<>> THEN PeepholePass(p[1], p[2]) ELSE PeepholePass(t[1], t[2])
RECURSIVE fundef_peephole(_, _)
fundef_peephole(code, optlvl) ==
  LET new == PeepholePass(code, 1) IN IF optlvl = 0 \/ new = code THEN code ELSE fundef_peephole(new, optlvl - 1)

\* ------------------------------------------------------ a function
\* fundef_check_type: a parameter that is an array of no size is a pointer.
fundef_check_type(t) ==
  LET pointer(p) == IF TypeOfPar(p).ts = "ARRAY" /\ TypeOfPar(p).val = 0 THEN [p EXCEPT !.x = <<PtrTo(TypeOfPar(p).x[1])>>] ELSE p
  IN  [t EXCEPT !.x = [i \in DOMAIN @ |-> pointer(@[i])]]

process_fundef(fd, globals) ==
  LET low == fundef_wasmify(fundef_fold_constants(fundef_hoist_locals([fd EXCEPT !.x[1] = fundef_check_type(@)]), globals), globals)
  IN  [sig |-> ftn2fsig(low.x[1]), code |-> fundef_peephole(fundef_flatten(fundef_compile(low, globals)), OptLevel)]
=============================================================================
