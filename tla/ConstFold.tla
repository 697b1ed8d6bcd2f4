----------------------------- MODULE ConstFold -----------------------------
(***************************************************************************)
(* What the compiler computes itself: numbers of every arithmetic type,    *)
(* and the constant expressions it replaces by literals.  A floating value *)
(* is an integer here: fractions and rounding are left out.                *)
(***************************************************************************)
EXTENDS CTypes, Bitwise

Bits == [ts \in TsIn("CHAR", "ULLONG") \cup {"ENUM"} |-> ByteBits *
  (IF ts \in {"CHAR", "UCHAR"} THEN 1 ELSE IF ts \in {"SHORT", "USHORT"} THEN 2 ELSE IF ts \in {"LLONG", "ULLONG"} THEN 8 ELSE 4)]
Modulo(v, bits) == v % 2^bits
SignBitExtended(v, bits) == ((v + 2^(bits - 1)) % 2^bits) - 2^(bits - 1)
\* integral_mask and integral_sext
IntegralOf(ts, v) == IF ts \in ts_unsigned THEN Modulo(v, Bits[ts]) ELSE SignBitExtended(v, Bits[ts])

numval_convert(tsto, tsfrom, v) ==
  CASE tsto = tsfrom -> v
    [] tsto = "BOOL" -> IF v # 0 THEN 1 ELSE 0
    [] tsto \in ts_float \/ tsfrom \in ts_float -> v
    [] OTHER -> IntegralOf(tsto, v)

\* Quotient and remainder of C: towards zero.
Magnitude(n) == IF n < 0 THEN -n ELSE n
Quotient(a, b) == LET q == Magnitude(a) \div Magnitude(b) IN IF (a < 0) = (b < 0) THEN q ELSE -q
Remainder(a, b) == a - b * Quotient(a, b)
\* x * y up to a multiple of 2^Bits["LLONG"], in two halves: it may not fit a number of TLC.
Product(x, y) == LET half == 2^(4 * ByteBits) IN Modulo(x * (y \div half), 4 * ByteBits) * half + x * (y % half)
Truth(b) == IF b THEN 1 ELSE 0
Bitwise2(op, a, b, bits) ==
  LET x == Modulo(a, bits)  y == Modulo(b, bits)
  IN  CASE op = "&" -> x & y [] op = "|" -> x | y [] op = "^" -> x ^^ y

Comparisons == {"==", "!=", "<", ">", "<=", ">="}
Compare(op, x, y) ==
  Truth(CASE op = "==" -> x = y [] op = "!=" -> x # y [] op = "<" -> x < y
          [] op = ">" -> x > y [] op = "<=" -> x <= y [] op = ">=" -> x >= y)

\* seval_t: a number, or an address of a global and an offset; ts "VOID" is a failure.
SVal(ts, val) == [ts |-> ts, val |-> val, id |-> ""]
SFail == SVal("VOID", 0)

numval_unop(op, tx, v) ==
  LET tz == ts_integral_promote[tx]
      x == numval_convert(tz, tx, v)
      arith(r) == SVal(tz, IF tz \in ts_float THEN r ELSE IntegralOf(tz, r))
  IN  CASE op = "+" -> arith(x) [] op = "-" -> arith(-x)
        [] op = "!" -> SVal("INT", Truth(x = 0))
        [] op = "~" /\ tz \notin ts_float -> arith(-x - 1)
        [] OTHER -> SFail

numval_binop(op, tx, vx, ty, vy) ==
  LET tz == ts_arith_common[tx, ty]
      x == numval_convert(tz, tx, vx)
      y == numval_convert(tz, ty, vy)
      int == tz \notin ts_float
      arith(r) == SVal(tz, IF int THEN IntegralOf(tz, r) ELSE r)
  IN  CASE op = "+" -> arith(x + y) [] op = "-" -> arith(x - y)
        [] op = "*" -> arith(IF int THEN Product(x, y) ELSE x * y)
        [] op = "/" -> IF y = 0 THEN SFail ELSE arith(Quotient(x, y))
        [] op = "%" /\ int -> IF y = 0 THEN SFail ELSE arith(Remainder(x, y))
        [] op \in {"&", "|", "^"} /\ int -> arith(Bitwise2(op, x, y, Bits["LLONG"]))
        [] op \in {"<<", ">>"} /\ int /\ y \in 0..Bits["LLONG"] - 1 ->
             arith(IF op = "<<" THEN Modulo(x, Bits["LLONG"] - y) * 2^y ELSE x \div 2^y)
        [] op \in Comparisons -> SVal("INT", Compare(op, x, y))
        [] OTHER -> SFail

\* A buffer of ri_t with the globals behind it: the type of each name in scope, and whether it is a global.
\* The type of an expression that names one, for sizeof and its kin; Type("VOID") when there is none.
RECURSIVE type_eval(_, _)
type_eval(n, rib) ==
  LET at == IF n.x = <<>> THEN Type("VOID") ELSE type_eval(n.x[1], rib)
      field(t) == IF t.ts \in {"STRUCT", "UNION"} /\ FieldIndex(t, n.name) # 0 THEN FieldType(t, n.name) ELSE Type("VOID")
      pointed == IF at.ts = "PTR" THEN at.x[1] ELSE Type("VOID")
  IN  CASE n.nt = "literal" /\ n.ts \in ts_numerical_or_enum -> Type(n.ts)
        [] n.nt = "literal" -> PtrTo(Type(IF n.ts = "STRING" THEN "CHAR" ELSE "INT"))
        [] n.nt = "identifier" /\ n.name \in DOMAIN rib -> rib[n.name].type
        [] n.nt = "subscript" /\ at.ts = "ARRAY" -> at.x[1]
        [] n.nt = "subscript" -> pointed
        [] n.nt = "postfix" /\ n.op = "." -> field(at)
        [] n.nt = "postfix" /\ n.op = "->" -> field(pointed)
        [] n.nt = "prefix" /\ n.op = "*" -> pointed
        [] OTHER -> Type("VOID")
TypeOf(n, rib) == IF n.nt = "type" THEN n ELSE type_eval(n, rib)

RECURSIVE static_eval(_, _)
arithmetic_eval_to_int(n, rib) ==
  LET r == static_eval(n, rib) IN IF r.ts \in ts_numerical THEN SVal("INT", numval_convert("INT", r.ts, r.val)) ELSE SFail

static_eval(n, rib) ==
  LET sub(i) == static_eval(n.x[i], rib)
      isId(m) == m.nt = "identifier"
      measured == TypeOf(n.x[1], rib)
      size(v) == IF measured.ts = "VOID" THEN SFail ELSE SVal("INT", v)
  IN  CASE n.nt = "literal" /\ n.ts \in ts_numerical -> SVal(n.ts, n.val)
        [] n.nt = "intrcall" /\ n.op = "sizeof" -> size(SizeOf(measured))
        [] n.nt = "intrcall" /\ n.op = "alignof" -> size(measure_type(measured)[2])
        [] n.nt = "intrcall" /\ n.op = "offsetof" -> size(measure_offset(measured, n.x[2].name))
        [] n.nt = "intrcall" /\ n.op = "countof" /\ measured.ts = "ARRAY" -> SVal("INT", SizeOf(measured) \div SizeOf(measured.x[1]))
        [] n.nt = "prefix" /\ n.op = "&" /\ isId(n.x[1]) -> [SVal("PTR", 0) EXCEPT !.id = n.x[1].name]
        [] n.nt = "prefix" /\ n.op = "&" /\ n.x[1].nt = "subscript" /\ isId(n.x[1].x[1]) ->
             LET r == static_eval(n.x[1].x[2], rib)
             IN  IF r.ts = "INT" THEN [SVal("PTR", r.val) EXCEPT !.id = n.x[1].x[1].name] ELSE SFail
        [] n.nt = "prefix" ->
             LET r == sub(1)
             IN  IF r.ts \in ts_numerical THEN numval_unop(n.op, r.ts, r.val)
                 ELSE IF r.ts = "PTR" /\ n.op = "!" THEN SVal("INT", 0) ELSE SFail
        [] n.nt = "infix" ->
             LET rx == sub(1)  ry == sub(2)
             IN  CASE {rx.ts, ry.ts} \subseteq ts_numerical -> numval_binop(n.op, rx.ts, rx.val, ry.ts, ry.val)
                   [] rx.ts = "PTR" /\ ry.ts = "INT" /\ n.op \in {"+", "-"} -> [rx EXCEPT !.val = IF n.op = "-" THEN @ - ry.val ELSE @ + ry.val]
                   [] rx.ts = "INT" /\ ry.ts = "PTR" /\ n.op = "+" -> [ry EXCEPT !.val = @ + rx.val]
                   [] rx.ts = "PTR" /\ ry.ts = "PTR" /\ rx.id = ry.id /\ n.op \in Comparisons \cup {"-"} ->
                        SVal("INT", IF n.op = "-" THEN rx.val - ry.val ELSE Compare(n.op, rx.val, ry.val))
                   [] OTHER -> SFail
        [] n.nt = "cond" ->
             LET c == arithmetic_eval_to_int(n.x[1], rib)
             IN  IF c.ts = "VOID" THEN SFail ELSE IF c.val # 0 THEN sub(2) ELSE sub(3)
        [] n.nt = "cast" /\ n.x[1].ts \in ts_numerical ->
             LET r == sub(2) IN IF r.ts \in ts_numerical THEN SVal(n.x[1].ts, numval_convert(n.x[1].ts, r.ts, r.val)) ELSE SFail
        [] n.nt = "cast" /\ n.x[1] = PtrTo(Type("VOID")) ->
             IF arithmetic_eval_to_int(n.x[2], rib) = SVal("INT", 0) THEN SVal("PTR", 0) ELSE SFail
        [] OTHER -> SFail

RECURSIVE arithmetic_constant_expr(_)
arithmetic_constant_expr(n) ==
  LET subs == \A i \in DOMAIN n.x : arithmetic_constant_expr(n.x[i])
  IN  CASE n.nt = "literal" -> n.ts \in ts_numerical
        [] n.nt = "intrcall" -> n.op \in {"sizeof", "alignof", "offsetof", "countof"}
        [] n.nt = "prefix" -> n.op \in {"+", "-", "~", "!"} /\ subs
        [] n.nt = "infix" -> n.op \notin {"&&", "||"} /\ subs
        [] n.nt = "cond" -> subs
        [] n.nt = "cast" -> n.x[1].ts \in ts_numerical /\ arithmetic_constant_expr(n.x[2])
        [] OTHER -> FALSE

\* arithmetic_eval: the literal, or the node itself when it has no value.
Folded(n, rib) ==
  LET r == static_eval(n, rib) IN IF r.ts \in ts_numerical THEN Lit(r.ts, r.val) ELSE n

\* static_display: a display that can be laid out in a data segment.
RECURSIVE static_display(_, _)
static_display(n, rib) ==
  CASE n.nt = "literal" -> TRUE
    [] n.nt = "display" -> \A i \in 2..Len(n.x) : static_display(n.x[i], rib)
    [] n.nt = "prefix" /\ n.op = "&" /\ n.x[1].nt = "identifier" ->
         n.x[1].name \in DOMAIN rib /\ rib[n.x[1].name].global /\ rib[n.x[1].name].type.ts \in ts_bulk
    [] n.nt = "cast" -> (n.x[1].ts \in ts_numerical \/ n.x[1] = PtrTo(Type("VOID"))) /\ arithmetic_constant_expr(n.x[2])
    [] OTHER -> arithmetic_constant_expr(n)

RECURSIVE expr_fold_constants(_, _)
expr_fold_constants(n, rib) ==
  CASE n.nt \in {"null", "literal", "identifier", "type", "vardecl"} -> n
    [] arithmetic_constant_expr(n) -> Folded(n, rib)
    [] OTHER -> [n EXCEPT !.op = IF n.nt = "display" /\ static_display(n, rib) THEN "STATIC" ELSE @,
                          !.x = ForEach(LAMBDA i : expr_fold_constants(n.x[i], rib), Len(n.x))]

\* ---------------------------------------------------- initial values
\* What a global variable holds at the start: the bytes of one in memory and the places in
\* it that take the address of another, or a number.

\* binchar .. binullong: the lowest byte first.
BytesOf(size, v) == [k \in 1..size |-> (Modulo(v, size * ByteBits) \div 2^((k - 1) * ByteBits)) % 2^ByteBits]
Overwritten(data, off, bytes) == [i \in DOMAIN data |-> IF i - off \in DOMAIN bytes THEN bytes[i - off] ELSE data[i]]

ts_arith_init_compatible(ts1, ts, v) == numval_convert(ts, ts1, numval_convert(ts1, ts, v)) = v
NumberFits(t, r) == ts_arith_assign_compatible(t.ts, r.ts) \/ ts_arith_init_compatible(t.ts, r.ts, r.val)
ts_init_ptr_compatible(r) == r.ts = "PTR" \/ (r.ts = "INT" /\ r.val = 0)

\* d: the bytes, the references <<offset, name>>, and whether the initializer is legal.
BadInitial(d) == [d EXCEPT !.ok = FALSE]
RECURSIVE initialize_bulk_data(_, _, _, _, _)
initialize_bulk_data(d, off, t, init, globals) ==
  LET within(e, o, ti, m) == initialize_bulk_data(e, o, ti, m, globals)
      elem == SizeOf(t.x[1])
      fields == IF t.ts = "UNION" THEN SubSeq(Fields(t), 1, 1) ELSE Fields(t)
      elements(e, j) == within(e, off + (j - 1) * elem, t.x[1], init.x[j + 1])
      field(e, j) == within(e, off + measure_offset(t, fields[j].name), fields[j].x[1], init.x[j + 1])
      all(op(_, _), n) == FoldLeft(op, d, [j \in 1..n |-> j])
      bulk == t.ts \in ts_bulk
      r == static_eval(init, <<>>)
  IN  CASE bulk /\ init.nt = "cast" -> IF same_type(t, init.x[1]) THEN within(d, off, t, init.x[2]) ELSE BadInitial(d)
        [] bulk /\ init.nt = "display" ->
             IF init.x[1].ts # "VOID" /\ ~same_type(t, init.x[1]) THEN BadInitial(d)
             ELSE IF t.ts = "ARRAY" THEN (IF Len(init.x) - 1 > t.val THEN BadInitial(d) ELSE all(elements, Len(init.x) - 1))
             ELSE IF Len(init.x) - 1 # Len(fields) THEN BadInitial(d) ELSE all(field, Len(fields))
        [] t.ts \in ts_numerical_or_enum ->
             IF r.ts \in ts_numerical /\ NumberFits(t, r)
               THEN [d EXCEPT !.data = Overwritten(@, off, BytesOf(SizeOf(t), numval_convert(t.ts, r.ts, r.val)))] ELSE BadInitial(d)
        [] t.ts = "PTR" ->
             IF ~ts_init_ptr_compatible(r) \/ r.val # 0 THEN BadInitial(d)
             ELSE IF r.id = "" THEN [d EXCEPT !.data = Overwritten(@, off, BytesOf(4, 0))]
             ELSE IF r.id \in DOMAIN globals /\ globals[r.id].ts \in ts_bulk \cup {"PTR"} THEN [d EXCEPT !.refs = @ \cup {<<off, r.id>>}]
             ELSE BadInitial(d)
        [] OTHER -> BadInitial(d)

\* process_vardecl: data for a bulk type, else the number or the name a global starts with; init is <<>> or an initializer.
BulkData(t, init, globals) ==
  LET zero == [data |-> [i \in 1..SizeOf(t) |-> 0], refs |-> {}, ok |-> TRUE]
  IN  IF init = <<>> THEN zero ELSE initialize_bulk_data(zero, 0, t, init[1], globals)
GlobalValue(t, init) ==
  LET r == static_eval(init[1], <<>>)
      number == {r.ts, t.ts} \subseteq ts_numerical_or_enum
  IN  CASE init = <<>> -> SVal(t.ts, 0)
        [] r.ts = "PTR" /\ r.id # "" -> r
        [] number -> IF NumberFits(t, r) THEN SVal(t.ts, numval_convert(t.ts, r.ts, r.val)) ELSE SFail
        [] OTHER -> IF t.ts = "PTR" /\ ts_init_ptr_compatible(r) /\ r.val = 0 THEN SVal("UINT", 0) ELSE SFail
=============================================================================
