------------------------------- MODULE CTypes -------------------------------
(***************************************************************************)
(* The syntax tree the front end hands to the compiler, and the types in   *)
(* it: arithmetic conversions, sizes and offsets, which types go into      *)
(* which.  Words are 1, 2, 4 and 8 bytes, of ByteBits bits each.           *)
(***************************************************************************)
EXTENDS Integers, Sequences, SequencesExt, FiniteSetsExt

CONSTANTS
  ByteBits,       \* bits of a byte, 8 in the code
  TypeNamed       \* lookup_eus_type: the fields of the structs and unions that have a name
ASSUME ByteBitsAssumption == ByteBits \in Nat \ {0}

\* node_t.  op is also the storage class of a vardecl and the name of an
\* intrinsic; ts is the type of a type or a literal; code belongs to an acode.
Node(nt) == [nt |-> nt, op |-> "", name |-> "", ts |-> "VOID", val |-> 0, x |-> <<>>, code |-> <<>>]
Op(nt, op, x) == [Node(nt) EXCEPT !.op = op, !.x = x]
Id(name) == [Node("identifier") EXCEPT !.name = name]
Lit(ts, val) == [Node("literal") EXCEPT !.ts = ts, !.val = val]
\* <<op(1), ..., op(n)>>, each of them evaluated once.
ForEach(op(_), n) == [i \in 1..n |-> op(i)] \o <<>>
\* What an assignment does first; TT_PLUS for TT_PLUS_ASN.
AssignmentOperator == [sign \in {"=", "&=", "|=", "^=", "%=", "/=", "*=", "+=", "-=", "<<=", ">>="} |->
  IF sign = "=" THEN "" ELSE CHOOSE op \in {"&", "|", "^", "%", "/", "*", "+", "-", "<<", ">>"} : op \o "=" = sign]
VarDecl(name, type) == [Node("vardecl") EXCEPT !.name = name, !.x = <<type>>]

\* ts_t in the order of p.h.
TsOrder == << "VOID", "ETC", "V128", "BOOL", "CHAR", "UCHAR", "SHORT", "USHORT", "INT", "UINT", "LONG", "ULONG",
  "LLONG", "ULLONG", "FLOAT", "DOUBLE", "STRING", "LSTRING", "ENUM", "ARRAY", "STRUCT", "UNION", "FUNCTION", "PTR", "ERROR" >>
TsRank == [ts \in Range(TsOrder) |-> CHOOSE i \in DOMAIN TsOrder : TsOrder[i] = ts]
TsIn(first, last) == {ts \in Range(TsOrder) : TsRank[first] <= TsRank[ts] /\ TsRank[ts] <= TsRank[last]}

ts_numerical == TsIn("BOOL", "DOUBLE")
ts_numerical_or_enum == ts_numerical \cup {"ENUM"}
ts_bulk == {"ARRAY", "STRUCT", "UNION"}
ts_unsigned == {"BOOL", "UCHAR", "USHORT", "UINT", "ULONG", "ULLONG"}
ts_float == {"FLOAT", "DOUBLE"}
Narrow == TsIn("BOOL", "USHORT")             \* widened to int in registers

Type(ts) == [Node("type") EXCEPT !.ts = ts]
PtrTo(t) == [Type("PTR") EXCEPT !.x = <<t>>]
ArrayOf(t, n) == [Type("ARRAY") EXCEPT !.x = <<t>>, !.val = n]
Struct(name) == [Type("STRUCT") EXCEPT !.name = name]
FunctionOf(ret, pars) == [Type("FUNCTION") EXCEPT !.x = <<ret>> \o pars]

ts2vt == [ts \in Range(TsOrder) |->
  CASE ts \in TsIn("BOOL", "ULONG") \cup {"ENUM", "PTR"} -> "i32"
    [] ts \in {"LLONG", "ULLONG"} -> "i64" [] ts = "FLOAT" -> "f32" [] ts = "DOUBLE" -> "f64" [] OTHER -> "unknown"]
ts_to_blocktype == [ts \in Range(TsOrder) |->
  CASE ts = "VOID" -> "void" [] ts \in Narrow -> "unknown" [] OTHER -> ts2vt[ts]]

ts_integral_promote == [ts \in ts_numerical_or_enum |-> IF ts \in Narrow \cup {"ENUM"} THEN "INT" ELSE ts]
ts_arith_common == [p \in ts_numerical_or_enum \X ts_numerical_or_enum |->
  LET ts == {ts_integral_promote[p[1]], ts_integral_promote[p[2]]}
      order == <<"DOUBLE", "FLOAT", "ULLONG", "LLONG", "ULONG", "LONG", "UINT", "INT">>
  IN  order[Min({i \in DOMAIN order : order[i] \in ts})]]
ts_arith_assign_compatible(ts1, ts2) == ts1 = ts2 \/ ts_arith_common[ts1, ts2] = ts1

\* The fields of a struct or union type, looked up when it is only named.
Fields(t) == IF t.x = <<>> /\ t.name # "" THEN TypeNamed[t.name] ELSE t.x
RoundUp(n, align) == ((n + align - 1) \div align) * align

RECURSIVE measure_type(_)      \* <<size, align>>
measure_type(t) ==
  CASE t.ts \in {"BOOL", "CHAR", "UCHAR"} -> <<1, 1>>
    [] t.ts \in {"SHORT", "USHORT"} -> <<2, 2>>
    [] t.ts \in {"LLONG", "ULLONG", "DOUBLE"} -> <<8, 8>>
    [] t.ts = "V128" -> <<16, 16>>
    [] t.ts \in {"INT", "UINT", "ENUM", "FLOAT", "LONG", "ULONG", "STRING", "LSTRING", "PTR"} -> <<4, 4>>
    [] t.ts = "ARRAY" -> LET e == measure_type(t.x[1]) IN <<e[1] * t.val, e[2]>>
    [] t.ts = "UNION" -> LET ms == {measure_type(f.x[1]) : f \in Range(Fields(t))}
                             align == Max({m[2] : m \in ms})
                         IN  <<RoundUp(Max({m[1] : m \in ms}), align), align>>
    [] t.ts = "STRUCT" -> LET step(sa, f) == LET m == measure_type(f.x[1])
                                             IN  <<RoundUp(sa[1], m[2]) + m[1], Max({sa[2], m[2]})>>
                              sa == FoldLeft(step, <<0, 0>>, Fields(t))
                          IN  <<RoundUp(sa[1], sa[2]), sa[2]>>
    [] OTHER -> <<0, 0>>
SizeOf(t) == measure_type(t)[1]

FieldIndex(t, name) == SelectInSeq(Fields(t), LAMBDA f : f.name = name)
FieldType(t, name) == Fields(t)[FieldIndex(t, name)].x[1]
measure_offset(t, name) ==
  IF t.ts = "UNION" THEN 0
  ELSE LET k == FieldIndex(t, name)
           step(off, f) == LET m == measure_type(f.x[1]) IN RoundUp(off, m[2]) + m[1]
       IN  RoundUp(FoldLeft(step, 0, SubSeq(Fields(t), 1, k - 1)), measure_type(FieldType(t, name))[2])

RECURSIVE same_type(_, _)
same_type(t1, t2) ==
  LET unbound(f) == IF f.nt = "vardecl" THEN f.x[1] ELSE f
      ts == {t1.ts, t2.ts}
  IN  CASE ts = {"ENUM", "INT"} -> TRUE
        [] ts = {"ARRAY", "PTR"} -> (IF t1.ts = "ARRAY" THEN t1.val ELSE t2.val) = 0 /\ same_type(t1.x[1], t2.x[1])
        [] t1.ts # t2.ts -> FALSE
        [] t1.ts = "ENUM" -> t1.name = "" \/ t2.name = "" \/ t1.name = t2.name
        [] t1.ts = "ARRAY" -> same_type(t1.x[1], t2.x[1]) /\ t1.val = t2.val
        [] t1.ts \in {"STRUCT", "UNION"} ->
             t1.name = t2.name /\ (t1.x = <<>> \/ t2.x = <<>> \/
               (Len(t1.x) = Len(t2.x) /\ \A i \in DOMAIN t1.x : t1.x[i].name = t2.x[i].name /\ same_type(t1.x[i].x[1], t2.x[i].x[1])))
        [] t1.ts \in {"FUNCTION", "PTR"} -> Len(t1.x) = Len(t2.x) /\ \A i \in DOMAIN t1.x : same_type(unbound(t1.x[i]), unbound(t2.x[i]))
        [] OTHER -> TRUE

assign_compatible(tp, ta) ==
  \/ same_type(ta, tp)
  \/ tp.ts = "ENUM" /\ ta.ts \in ts_numerical /\ ts_arith_assign_compatible("INT", ta.ts)
  \/ tp.ts \in ts_numerical /\ ta.ts \in ts_numerical_or_enum
       /\ ts_arith_assign_compatible(tp.ts, IF ta.ts = "ENUM" THEN "INT" ELSE ta.ts)
  \/ tp.ts = "PTR" /\ ta.ts = "ARRAY" /\ same_type(ta.x[1], tp.x[1])
  \/ tp.ts = "PTR" /\ ta.ts = "PTR" /\ "VOID" \in {tp.x[1].ts, ta.x[1].ts}

cast_compatible(tp, ta) ==
  \/ {tp.ts, ta.ts} \subseteq ts_numerical_or_enum /\ {tp.ts, ta.ts} # {"ENUM"}
  \/ tp.ts = "PTR" /\ ta.ts = "PTR"
  \/ tp.ts = "PTR" /\ ta.ts \in ts_numerical /\ ts_arith_common[ta.ts, "ULONG"] = "ULONG"
  \/ tp.ts \in ts_numerical /\ ta.ts = "PTR" /\ ts_arith_common[tp.ts, "LONG"] = tp.ts
  \/ assign_compatible(tp, ta)
=============================================================================
