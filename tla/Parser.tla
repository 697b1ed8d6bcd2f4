------------------------------- MODULE Parser -------------------------------
(***************************************************************************)
(* The parser of p.c: top-level forms of C from tokens to syntax trees, by *)
(* recursive descent with one token of lookahead, over a table of symbols  *)
(* that decides what a word is.  Macros are trees and expand as trees.     *)
(* Conditional directives and #pragma are in other modules.                *)
(***************************************************************************)
EXTENDS ConstFold

CONSTANTS Signatures   \* instr_sig: the operands of the instructions there are

\* A token: a word or a sign is spelled s, a number has a value, a string its
\* bytes; near: the next token follows at once (what peekc sees).
\* ------------------------------------------------- the table of symbols
KeywordSpellings == {"auto", "break", "case", "char", "const", "constexpr", "continue", "default", "do", "double", "else", "enum", "extern",
  "float", "for", "goto", "if", "inline", "int", "long", "register", "restrict", "return", "short", "signed", "simd", "static",
  "struct", "switch", "typedef", "union", "unsigned", "void", "volatile", "while"}
Symbol(tt, node) == [tt |-> tt, node |-> node]
TypeName(ts) == Symbol("TYPE_NAME", Type(ts))
Macro(node) == Symbol("MACRO_NAME", Op("macrodef", "", <<node>>))
Intrinsic(name) == Symbol("INTR_NAME", [Node("null") EXCEPT !.op = name])
VaArgFields == << <<"va_int", "INT">>, <<"va_uint", "UINT">>, <<"va_long", "LONG">>, <<"va_ulong", "ULONG">>, <<"va_llong", "LLONG">>,
  <<"va_ullong", "ULLONG">>, <<"va_double", "DOUBLE">>, <<"va_size", "ULONG">>, <<"va_v128", "V128">> >>
make_vararg_union_type ==
  [Type("UNION") EXCEPT !.name = "va_arg",
     !.x = [i \in DOMAIN VaArgFields |-> VarDecl(VaArgFields[i][1], Type(VaArgFields[i][2]))] \o <<VarDecl("va_voidptr", PtrTo(Type("VOID")))>>]
NullPointer == Op("cast", "", <<PtrTo(Type("VOID")), Lit("ULONG", 0)>>)
VaEtc == Op("intrcall", "va_etc", <<>>)
init_symbols ==
  [ asm |-> Symbol("asm", Node("null")), bool |-> TypeName("BOOL"), wchar_t |-> TypeName("INT"), wint_t |-> TypeName("INT"),
    int8_t |-> TypeName("CHAR"), uint8_t |-> TypeName("UCHAR"), int16_t |-> TypeName("SHORT"), uint16_t |-> TypeName("USHORT"),
    int32_t |-> TypeName("INT"), uint32_t |-> TypeName("UINT"), int64_t |-> TypeName("LLONG"), uint64_t |-> TypeName("ULLONG"),
    size_t |-> TypeName("ULONG"), ssize_t |-> TypeName("LONG"), uintptr_t |-> TypeName("ULONG"), ptrdiff_t |-> TypeName("LONG"),
    intptr_t |-> TypeName("LONG"), float32_t |-> TypeName("FLOAT"), float64_t |-> TypeName("DOUBLE"), v128_t |-> TypeName("V128"),
    va_arg_t |-> Symbol("TYPE_NAME", make_vararg_union_type),
    true |-> Macro(Lit("BOOL", 1)), false |-> Macro(Lit("BOOL", 0)), NULL |-> Macro(NullPointer),
    INTPTR_MAX |-> Macro(Lit("LONG", 2^(Bits["LONG"] - 1) - 1)), INTPTR_MIN |-> Macro(Lit("LONG", -2^(Bits["LONG"] - 1))),
    UINTPTR_MAX |-> Macro(Lit("ULONG", 2^Bits["ULONG"] - 1)), __VA_ARGS__ |-> Macro(VaEtc), __WCPL__ |-> Macro(Lit("INT", 1)),
    sizeof |-> Intrinsic("sizeof"), alignof |-> Intrinsic("alignof"), offsetof |-> Intrinsic("offsetof"), countof |-> Intrinsic("countof"),
    alloca |-> Intrinsic("alloca"), _Generic |-> Intrinsic("generic"), generic |-> Intrinsic("generic"), va_etc |-> Intrinsic("va_etc"),
    va_arg |-> Intrinsic("va_arg"), static_assert |-> Intrinsic("static_assert"), defined |-> Intrinsic("defined") ]
Lasting == {"__WCPL__", "__DATE__", "__TIME__", "NULL", "true", "false", "__VA_ARGS__"}

lookup_symbol(name, syms) ==
  IF name \in KeywordSpellings THEN Symbol(name, Node("null")) ELSE IF name \in DOMAIN syms THEN syms[name] ELSE Symbol("IDENTIFIER", Node("null"))
intern_symbol(syms, name, tt, node) == [x \in DOMAIN syms \cup {name} |-> IF x = name THEN Symbol(tt, node) ELSE syms[x]]
unintern_symbol(syms, name) == [x \in DOMAIN syms \ {name} |-> syms[x]]

\* ----------------------------------------------------- reading tokens
\* s: the tokens, the index of the next one and the table; after an error nothing is ahead any more.
Failed == [tokens |-> <<>>, i |-> 0, syms |-> <<>>]
TokenAt(s) == s.tokens[s.i]
peekt(s) ==
  IF s.i = 0 THEN "error" ELSE IF s.i > Len(s.tokens) THEN "EOF"
  ELSE IF TokenAt(s).tt = "word" THEN lookup_symbol(TokenAt(s).s, s.syms).tt ELSE TokenAt(s).tt
tokstr(s) == TokenAt(s).s
Meaning1(s) == lookup_symbol(tokstr(s), s.syms).node
dropt(s) == [s EXCEPT !.i = @ + 1]
expect(s, tt) == IF peekt(s) = tt THEN dropt(s) ELSE Failed
\* peekc: the character behind the token just read.
TouchesNext(s, sign) == TokenAt(s).near /\ s.i < Len(s.tokens) /\ s.tokens[s.i + 1].s = sign

Got(n, s) == [n |-> n, s |-> s]
Refused == Got(Node("null"), Failed)
RefusedList == Got(<<>>, Failed)
Unless(error, r) == IF error THEN Refused ELSE r
getid(s) == IF peekt(s) = "IDENTIFIER" THEN Got(tokstr(s), dropt(s)) ELSE Got("", Failed)
Taggable == (KeywordSpellings \ {"asm"}) \cup {"IDENTIFIER", "TYPE_NAME", "MACRO_NAME", "ENUM_NAME", "INTR_NAME"}
gettag(s) == IF peekt(s) \in Taggable THEN Got(tokstr(s), dropt(s)) ELSE Got("", Failed)

TypeSpecifiers == {"char", "const", "double", "enum", "float", "int", "long", "restrict", "short", "signed", "simd", "struct", "union",
  "unsigned", "void", "volatile", "TYPE_NAME"}
type_specifier_ahead(s) == peekt(s) \in TypeSpecifiers
storage_class_specifier_ahead(s) == peekt(s) \in {"extern", "static", "auto", "register"}

\* --------------------------------------------------- macro expansion
IsCall(n, name) == n.nt = "intrcall" /\ n.op = name
node_is_etc(n) == IsCall(n, "va_etc") /\ n.x = <<>>
node_is_countofetc(n) == IsCall(n, "countof") /\ Len(n.x) = 1 /\ node_is_etc(n.x[1])
no_etcpars(pars) == \A i \in DOMAIN pars : ~node_is_etc(pars[i])
Broken == Node("error")
FloatConst == ("f32.const" :> "FLOAT") @@ ("f64.const" :> "DOUBLE")
RECURSIVE HasError(_)
HasError(n) == n = Broken \/ \E i \in DOMAIN n.x : HasError(n.x[i])

\* The sizes of array types as numbers, for the evaluation of constants.
RECURSIVE Measured(_)
Measured(n) ==
  IF n.ts = "ARRAY" THEN [n EXCEPT !.x = <<Measured(n.x[1])>>, !.val = static_eval(Measured(n.x[2]), <<>>).val]
  ELSE [n EXCEPT !.x = ForEach(LAMBDA i : Measured(n.x[i]), Len(n.x))]

\* ids: the names of the parameters, "" the last of them for a ... ; pars: what is given for them.
RECURSIVE patch_macro_template(_, _, _)
patch_macro_template(ids, pars, n) ==
  LET etcbound == ids # <<>> /\ Last(ids) = ""
      k == IF n.name = "" THEN 0 ELSE SelectInSeq(ids, LAMBDA id : id = n.name)
      rest == SubSeq(pars, Len(ids), Len(pars))
      patched(i) == patch_macro_template(ids, pars, n.x[i])
      hit(i) == LET t == n.x[2 * i] IN t.nt = "null" \/ (t.nt = "literal" /\ t.ts = "INT" /\ t.val = Len(pars))
      hits == {i \in 1..(Len(n.x) - 1) \div 2 : hit(i)}
      constant(ins) == LET j == IF ins.id = "" THEN 0 ELSE SelectInSeq(ids, LAMBDA id : id = ins.id)
                           r == static_eval(Measured(pars[j]), <<>>)
                           real == IF ins.in \in DOMAIN FloatConst THEN r.ts # FloatConst[ins.in] ELSE FALSE
                       IN  IF j = 0 THEN ins ELSE IF r.ts = "VOID" \/ r.id # "" \/ real THEN [ins EXCEPT !.in = "error"]
                           ELSE [ins EXCEPT !.id = "", !.args = <<r.val>> \o Tail(@)]
      body(i) == IF n.nt = "call" /\ etcbound /\ node_is_etc(n.x[i]) THEN rest ELSE <<patched(i)>>
  IN  CASE n.nt = "identifier" -> IF k = 0 THEN n ELSE pars[k]
        [] node_is_etc(n) /\ no_etcpars(pars) -> IF etcbound THEN Broken ELSE n
        [] node_is_countofetc(n) /\ no_etcpars(pars) -> Lit("INT", Len(pars) - (Len(ids) - 1))
        [] IsCall(n, "generic") /\ etcbound /\ node_is_countofetc(n.x[1]) /\ no_etcpars(pars) ->
             IF hits = {} THEN Broken ELSE patched(2 * Min(hits) + 1)
        [] IsCall(n, "generic") ->
             [n EXCEPT !.x = ForEach(LAMBDA i : IF i % 2 = 0 THEN n.x[i] ELSE patched(i), Len(n.x))]
        [] n.nt = "acode" -> LET code == ForEach(LAMBDA i : constant(n.code[i]), Len(n.code))
                             IN  IF \E i \in DOMAIN code : code[i].in = "error" THEN Broken ELSE [n EXCEPT !.code = code]
        [] OTHER -> [n EXCEPT !.x = FlattenSeq(ForEach(body, Len(n.x)))]

\* ------------------------------------------------- sizes of arrays
\* An array type has its element and its size; a size left out is a null node.
ArrayType(t, size) == [Type("ARRAY") EXCEPT !.x = <<t, size>>]
Unsized(t) == t.ts = "ARRAY" /\ t.x[2].nt = "null"
RECURSIVE patch_type_array_sizes(_, _), patch_display_array_sizes(_, _)
patch_type_array_sizes(init, t) ==
  CASE t.ts # "ARRAY" -> t
    [] init.nt = "display" /\ init.x[1].ts = "ARRAY" ->
         [t EXCEPT !.x[2] = IF Unsized(t) THEN init.x[1].x[2] ELSE @,
                   !.x[1] = IF @.ts = "ARRAY" /\ Len(init.x) > 1 THEN patch_type_array_sizes(init.x[2], @) ELSE @]
    [] init.nt = "literal" /\ init.ts \in {"STRING", "LSTRING"} /\ Unsized(t) -> [t EXCEPT !.x[2] = Lit("INT", Len(init.code))]
    [] OTHER -> t
patch_display_array_sizes(init, t) ==
  LET sized == IF Unsized(t) THEN [t EXCEPT !.x[2] = Lit("INT", Len(init.x) - 1)] ELSE t
      rows == ForEach(LAMBDA i : IF i = 1 THEN t ELSE patch_display_array_sizes(init.x[i], t.x[1]), Len(init.x))
  IN  CASE init.nt # "display" -> init
        [] t.ts = "ARRAY" /\ t.x[1].ts = "ARRAY" ->
             [init EXCEPT !.x = [rows EXCEPT ![1] = IF Len(rows) > 1 THEN [sized EXCEPT !.x[1] = patch_type_array_sizes(rows[2], @)] ELSE sized]]
        [] t.ts = "ARRAY" -> [init EXCEPT !.x[1] = sized]
        [] init.x[1].ts = "VOID" -> [init EXCEPT !.x[1] = t]
        [] OTHER -> init

\* -------------------------------------------------------- expressions
\* The rules that call each other do so through parse, by name.
RECURSIVE parse(_, _), parse_asm_code(_, _)
expr(s) == parse("expr", s)
assignment_expr(s) == parse("assignment", s)
cast_expr(s) == parse("cast", s)
primary_expr(s) == parse("primary", s)
base_type(s) == parse("base type", s)
unary_declarator(s) == parse("declarator", s)
initializer(s) == parse("initializer", s)
decl(s) == parse("decl", s)
stmt(s) == parse("stmt", s)

RECURSIVE invert_declarator(_, _)
\* wrap_type_function: a last parameter that is void is none.
wrap_type_function(t, pars) ==
  FunctionOf(t, IF pars # <<>> /\ Last(pars).x = <<Type("VOID")>> THEN Front(pars) ELSE pars)
invert_declarator(d, t) ==
  CASE d.nt = "null" -> [name |-> "", type |-> t]
    [] d.nt = "identifier" -> [name |-> d.name, type |-> t]
    [] d.ts = "PTR" -> invert_declarator(d.x[1], PtrTo(t))
    [] d.ts = "ARRAY" -> invert_declarator(d.x[1], ArrayType(t, d.x[2]))
    [] d.ts = "FUNCTION" -> invert_declarator(d.x[1], wrap_type_function(t, Tail(d.x)))
parse_declarator(t, s) ==
  LET d == unary_declarator(s)
  IN  IF d.s.i = 0 THEN Got([name |-> "", type |-> t], d.s) ELSE Got(invert_declarator(d.n, t), d.s)

Closed(r, sign) == Got(r.n, expect(r.s, sign))
InParentheses(op(_), s) == Closed(op(expect(s, "(")), ")")
parse_type_name(s) ==
  LET b == base_type(s)  d == parse_declarator(b.n, b.s) IN Unless(d.n.name # "", Got(d.n.type, d.s))

\* Expressions behind commas, up to a closing sign; a comma may end them.
RECURSIVE Arguments(_)
Arguments(s) ==
  IF peekt(s) \in {")", "error"} THEN Got(<<>>, s)
  ELSE LET a == assignment_expr(s)
           more == Arguments(dropt(a.s))
       IN  IF peekt(a.s) # "," THEN Got(<<a.n>>, a.s) ELSE Got(<<a.n>> \o more.n, more.s)

NumberTokens == TsIn("INT", "DOUBLE")
Characters == {"CHAR", "LCHAR"}
Strings == {"STRING", "LSTRING"}
Literal(s) ==
  LET t == TokenAt(s)
      ts == CASE t.tt \in {"CHAR", "LONG"} -> "INT" [] t.tt = "ULONG" -> "UINT" [] t.tt = "LCHAR" -> "LONG" [] OTHER -> t.tt
      fits == t.tt \in ts_float \cup Characters \/ t.val < 2^(IF ts \in ts_unsigned THEN Bits[ts] ELSE Bits[ts] - 1)
  IN  IF t.tt \in Strings THEN Got([Lit(ts, 0) EXCEPT !.code = t.data \o <<0>>], dropt(s))
      ELSE Unless(~fits, Got(Lit(ts, t.val), dropt(s)))

MacroUse(s) ==
  LET def == Meaning1(s)
      ids == ForEach(LAMBDA i : def.x[1].x[i + 1].name, Len(def.x[1].x) - 1)
      variadic == ids # <<>> /\ Last(ids) = ""
      pars == InParentheses(Arguments, dropt(s))
      count == IF variadic THEN Len(ids) - 1 <= Len(pars.n) ELSE Len(ids) = Len(pars.n)
      n == patch_macro_template(ids, pars.n, def.x[2])
  IN  IF Len(def.x) = 1 THEN Got(def.x[1], dropt(s))
      ELSE IF pars.s.i = 0 \/ ~count THEN Refused ELSE Unless(HasError(n), Got(n, pars.s))

TypeOrExpr(s) == IF type_specifier_ahead(s) THEN parse_type_name(s) ELSE expr(s)
TypeOrAssignment(s) == IF type_specifier_ahead(s) THEN parse_type_name(s) ELSE assignment_expr(s)
NameNode(s) == LET id == getid(s) IN Got(Id(id.n), id.s)
Both(a, b) == Got(<<a.n, b.n>>, b.s)

\* The cases of a generic: behind commas in its parentheses, or in braces.
RECURSIVE Cases(_, _, _)
Cases(bytype, close, s) ==
  LET inner == IF close = ")" THEN expect(s, ",") ELSE s
      default == peekt(inner) = "default"
      cased == IF close = ")" THEN inner ELSE expect(inner, "case")
      label == CASE default -> Got(Node("null"), dropt(inner))
                 [] ~default /\ bytype -> parse_type_name(cased)
                 [] OTHER -> IF peekt(cased) = "INT" THEN Got(Lit("INT", TokenAt(cased).val), dropt(cased)) ELSE Refused
      e == assignment_expr(expect(label.s, ":"))
      after == IF close = ")" THEN e.s ELSE expect(e.s, ";")
      more == Cases(bytype, close, after)
  IN  IF peekt(s) \in {close, "error"} THEN Got(<<>>, s)
      ELSE IF default /\ peekt(after) # close THEN RefusedList ELSE Got(<<label.n, e.n>> \o more.n, more.s)
Generic(s) ==
  LET subject == TypeOrAssignment(expect(s, "("))
      braced == peekt(subject.s) = ")"
      close == IF braced THEN "}" ELSE ")"
      cases == Cases(~node_is_countofetc(subject.n), close, IF braced THEN expect(dropt(subject.s), "{") ELSE subject.s)
  IN  Closed(Got(<<subject.n>> \o cases.n, cases.s), close)

IntrinsicUse(s) ==
  LET name == Meaning1(s).op
      inner == expect(dropt(s), "(")
      first == TypeOrExpr(inner)
      id == NameNode(inner)
      typed == parse_type_name(expect(id.s, ","))
      object == TypeOrAssignment(inner)
      args == Arguments(inner)
      call(r) == Got(Op("intrcall", name, r.n), r.s)
  IN  CASE name \in {"sizeof", "alignof", "countof"} -> call(Closed(Got(<<first.n>>, first.s), ")"))
        [] name = "va_etc" -> call(Got(<<>>, expect(inner, ")")))
        [] name = "va_arg" -> Unless(typed.n.ts \notin {"PTR", "ENUM"} \cup TsIn("INT", "DOUBLE"), call(Closed(Both(id, typed), ")")))
        [] name = "offsetof" -> call(Closed(Both(object, NameNode(expect(object.s, ","))), ")"))
        [] name = "generic" -> call(Generic(dropt(s)))
        [] name \in {"alloca", "static_assert"} ->
             Unless(Len(args.n) \notin (IF name = "alloca" THEN {1} ELSE {1, 2}), call(Closed(args, ")")))
        [] name = "defined" -> IF peekt(inner) \notin {"MACRO_NAME", "IDENTIFIER"} THEN Refused
                               ELSE Got(Lit("INT", Truth(peekt(inner) = "MACRO_NAME")), expect(dropt(inner), ")"))

parse_primary_expr(s) ==
  CASE peekt(s) = "(" -> InParentheses(TypeOrExpr, s)
    [] peekt(s) \in NumberTokens \cup Characters \cup Strings -> Literal(s)
    [] peekt(s) = "IDENTIFIER" -> NameNode(s)
    [] peekt(s) = "..." -> Got(VaEtc, dropt(s))
    [] peekt(s) = "ENUM_NAME" -> Got(Meaning1(s), dropt(s))
    [] peekt(s) = "MACRO_NAME" -> MacroUse(s)
    [] peekt(s) = "INTR_NAME" -> IntrinsicUse(s)
    [] OTHER -> Refused

\* String literals one after the other, of one kind, are one.
RECURSIVE Concatenated(_)
Concatenated(r) ==
  LET next == primary_expr(r.s)
      joined == Got([r.n EXCEPT !.code = Front(@) \o next.n.code], next.s)
  IN  IF peekt(r.s) \notin Strings \cup {"MACRO_NAME"} THEN r
      ELSE IF next.n.ts = r.n.ts THEN Concatenated(joined) ELSE Refused
parse_concat_expr(s) == LET r == primary_expr(s) IN IF r.n.ts \in Strings THEN Concatenated(r) ELSE r

PostfixSigns == {"[", "(", ".", "->", "++", "--"}
RECURSIVE Postfixed(_)
Postfixed(r) ==
  LET sign == peekt(r.s)
      index == Closed(expr(dropt(r.s)), "]")
      args == InParentheses(Arguments, r.s)
      tag == gettag(dropt(r.s))
  IN  CASE sign = "[" -> Postfixed(Got(Op("subscript", "", <<r.n, index.n>>), index.s))
        [] sign = "(" -> Postfixed(Got(Op("call", "", <<r.n>> \o args.n), args.s))
        [] sign \in {".", "->"} -> Postfixed(Got([Op("postfix", sign, <<r.n>>) EXCEPT !.name = tag.n], tag.s))
        [] sign \in {"++", "--"} -> Postfixed(Got(Op("postfix", sign, <<r.n>>), dropt(r.s)))
        [] OTHER -> r
parse_postfix_expr(s) == LET r == parse_concat_expr(s) IN IF r.n.nt = "type" THEN r ELSE Postfixed(r)

UnarySigns == {"++", "--", "*", "+", "-", "&", "~", "!"}
parse_unary_expr(s) ==
  LET r == cast_expr(dropt(s))
  IN  IF peekt(s) \notin UnarySigns THEN parse_postfix_expr(s)
      ELSE Unless(r.n.nt = "type", Got(Op("prefix", peekt(s), <<r.n>>), r.s))

parse_cast_expr(s) ==
  LET r == parse_unary_expr(s)
      display == initializer(r.s)
      operand == cast_expr(r.s)
  IN  CASE r.n.nt # "type" -> r
        [] r.n.nt = "type" /\ peekt(r.s) = "{" -> Got(patch_display_array_sizes(display.n, r.n), display.s)
        [] r.n.nt = "type" /\ peekt(r.s) = "asm" -> parse_asm_code(r.n, r.s)
        [] OTHER -> Got(Op("cast", "", <<r.n, operand.n>>), operand.s)

\* Operators by how they bind, the loosest first.
BinaryLevels == << {"||"}, {"&&"}, {"|"}, {"^"}, {"&"}, {"==", "!="}, {"<", "<=", ">", ">="}, {"<<", ">>"}, {"+", "-"}, {"*", "/", "%"} >>
Tightness(sign) == SelectInSeq(BinaryLevels, LAMBDA signs : sign \in signs)
\* Operators of level deft and tighter ones behind left; the levels that find no operator are passed over.
RECURSIVE BinaryRest(_, _)
\* Mutant: operators of one level group to the right.
BinaryRest_Right(deft, left) ==
  LET level == Tightness(peekt(left.s))
      right == BinaryRest(level, cast_expr(dropt(left.s)))
  IN  IF level < deft THEN left ELSE BinaryRest(deft, Got(Op("infix", peekt(left.s), <<left.n, right.n>>), right.s))
BinaryRest(deft, left) ==
  LET level == Tightness(peekt(left.s))
      right == BinaryRest(level + 1, cast_expr(dropt(left.s)))
  IN  IF level < deft THEN left ELSE BinaryRest(deft, Got(Op("infix", peekt(left.s), <<left.n, right.n>>), right.s))
parse_binary_expr(deft, s) == BinaryRest(deft, cast_expr(s))

RECURSIVE parse_conditional_expr(_)
parse_conditional_expr(s) ==
  LET c == parse_binary_expr(1, s)
      yes == Closed(expr(dropt(c.s)), ":")
      no == parse_conditional_expr(yes.s)
  IN  IF peekt(c.s) # "?" THEN c ELSE Got(Op("cond", "", <<c.n, yes.n, no.n>>), no.s)

parse_assignment_expr(s) ==
  LET to == parse_conditional_expr(s)
      value == assignment_expr(dropt(to.s))
  IN  IF peekt(to.s) \notin DOMAIN AssignmentOperator THEN to ELSE Got(Op("assign", peekt(to.s), <<to.n, value.n>>), value.s)

RECURSIVE CommaRest(_)
CommaRest(left) ==
  LET right == assignment_expr(dropt(left.s))
  IN  IF peekt(left.s) # "," THEN left ELSE CommaRest(Got(Op("comma", "", <<left.n, right.n>>), right.s))
parse_expr(s) == CommaRest(assignment_expr(s))

\* ---------------------------------------------------- inline assembly
\* inscode_t: args are the operands that are numbers, the lanes of a shuffle apart.
Ins(in, id, args) == [in |-> in, id |-> id, mod |-> "", args |-> args]
AsmNumber(s, types, max) ==
  LET r == primary_expr(s)
      v == Folded(Measured(r.n), <<>>)
      fits == v.nt = "literal" /\ v.ts \in types /\ (types \subseteq ts_float \/ max = -1 \/ v.val \in 0..max)
  IN  Unless(~fits, Got(v.val, r.s))
parse_asm_signed(s) == AsmNumber(s, {"INT", "LONG", "LLONG"}, -1)
parse_asm_unsigned(s, max) == AsmNumber(s, TsIn("INT", "ULLONG"), max)
parse_asm_double(s) == AsmNumber(s, ts_float, -1)
IntMax == 2^(Bits["INT"] - 1) - 1
AlignLog == (1 :> 0) @@ (2 :> 1) @@ (4 :> 2) @@ (8 :> 3) @@ (16 :> 4)

\* offset=n align=n, each of them optional.
Setting(s, name, max) ==
  IF peekt(s) = "IDENTIFIER" /\ tokstr(s) = name THEN parse_asm_unsigned(expect(dropt(s), "="), max) ELSE Got(0, s)
MemArg(s) ==
  LET offset == Setting(s, "offset", IntMax)
      align == Setting(offset.s, "align", 16)
  IN  Got(<<offset.n, IF align.n \in DOMAIN AlignLog THEN AlignLog[align.n] ELSE 0>>, align.s)

RECURSIVE LaneIndexes(_, _)
LaneIndexes(n, s) ==
  LET lane == parse_asm_unsigned(s, IF n = 0 THEN 2^Bits["UINT"] - 1 ELSE 16)
      more == LaneIndexes(n + 1, lane.s)
  IN  IF n = 15 \/ peekt(lane.s) \in {",", ")", "error"} THEN Got(<<lane.n>>, lane.s) ELSE Got(<<lane.n>> \o more.n, more.s)

\* An operand that is a name, that of a macro's parameter for one, or what is read otherwise.
Operand(in, s, number) ==
  LET mod == TouchesNext(s, ":")
      id == getid(IF mod THEN dropt(dropt(s)) ELSE s)
  IN  IF peekt(s) # "IDENTIFIER" THEN Got(Ins(in, "", <<number.n>>), number.s)
      ELSE Got([Ins(in, id.n, <<0>>) EXCEPT !.mod = IF mod THEN tokstr(s) ELSE ""], id.s)
WordAhead(s) == peekt(s) \in Taggable
RegisterTypes == <<"f64", "f32", "i64", "i32", "funcref", "externref">>
RegisterDeclaration(s) ==
  LET vt == SelectInSeq(RegisterTypes, LAMBDA w : w = tokstr(s))  id == getid(dropt(s))
  IN  IF ~WordAhead(s) THEN Refused ELSE Unless(vt = 0, Got(Ins("register", id.n, <<vt>>), id.s))
parse_asm_instr(s) ==
  LET dot == TouchesNext(s, ".")
      rest == dropt(dropt(s))
      in == IF dot /\ WordAhead(rest) THEN tokstr(s) \o "." \o tokstr(rest) ELSE tokstr(s)
      after == CASE dot /\ WordAhead(rest) -> dropt(rest) [] dot /\ ~WordAhead(rest) -> rest [] OTHER -> dropt(s)
      sig == Signatures[in]
      plain(args, t) == Got(Ins(in, "", args), t)
      first == Operand(in, after, parse_asm_unsigned(after, IntMax))
      second == parse_asm_unsigned(first.s, IntMax)
      memarg == MemArg(after)
      lane == Operand(in, memarg.s, parse_asm_unsigned(memarg.s, 16))
      lanes == LaneIndexes(0, after)
  IN  CASE ~WordAhead(s) -> Refused
        [] in = "register" -> RegisterDeclaration(after)
        [] in # "register" /\ in \notin DOMAIN Signatures -> Refused
        [] sig = "NONE" -> plain(<<>>, after)
        [] sig = "NUMBER" -> Operand(in, after, parse_asm_signed(after))
        [] sig = "X_Y" -> Got([first.n EXCEPT !.args = @ \o <<second.n>>], second.s)
        [] sig = "FLOAT" -> Operand(in, after, parse_asm_double(after))
        [] sig = "MEMARG" -> plain(memarg.n, memarg.s)
        [] sig = "LANEIDX" -> Operand(in, after, parse_asm_unsigned(after, 16))
        [] sig = "MEMARG_LANEIDX" -> Got([lane.n EXCEPT !.args = @ \o memarg.n], lane.s)
        [] sig = "LANEIDX16" -> IF peekt(after) = "IDENTIFIER" THEN Operand(in, after, Refused) ELSE plain(lanes.n, lanes.s)
        [] OTHER -> Refused

\* The instructions of an asm, behind commas; one in parentheses is an asm of its own.
RECURSIVE AsmBody(_, _)
AsmBody(n, s) ==
  LET t == InParentheses(parse_type_name, s)
      nested == parse_asm_code(t.n, t.s)
      i == parse_asm_instr(s)
      grown == IF peekt(s) = "(" THEN Got([n EXCEPT !.x = Append(@, nested.n), !.code = Append(@, Ins("placeholder", "", <<>>))], nested.s)
               ELSE Got([n EXCEPT !.code = Append(@, i.n)], i.s)
  IN  CASE peekt(s) \in {")", "error"} -> Got(n, s)
        [] peekt(grown.s) = "," -> AsmBody(grown.n, dropt(grown.s))
        [] OTHER -> grown
parse_asm_code(t, s) ==
  LET body == Closed(AsmBody([Node("acode") EXCEPT !.x = <<t>>], expect(expect(s, "asm"), "(")), ")")
      args == InParentheses(Arguments, body.s)
  IN  IF peekt(body.s) # "(" THEN body ELSE Got(Op("intrcall", "acode", <<body.n>> \o args.n), args.s)

\* -------------------------------------------------------------- types
\* <<the words of a base type, what the last type name among them stands for>>
RECURSIVE Specifiers(_)
Specifiers(s) ==
  LET more == Specifiers(dropt(s))
      own == IF peekt(s) = "TYPE_NAME" THEN <<Meaning1(s)>> ELSE <<>>
  IN  IF ~type_specifier_ahead(s) THEN Got([words |-> <<>>, named |-> <<>>], s)
      ELSE Got([words |-> <<peekt(s)>> \o more.n.words, named |-> own \o more.n.named], more.s)

Qualifiers == {"const", "volatile", "restrict"}
Aggregates == {"enum", "simd", "struct", "union"}
RECURSIVE parse_enum_body(_), parse_simd_body(_), parse_sru_body(_, _)
parse_base_type(s) ==
  LET r == Specifiers(s)
      counted(w) == Cardinality({i \in DOMAIN r.n.words : r.n.words[i] = w})
      words == Range(r.n.words) \ Qualifiers
      signs == words \cap {"signed", "unsigned"}
      kinds == words \ signs
      \* int says nothing beside char, short or long, and is meant where only a sign is given
      kind == IF "int" \in kinds /\ kinds \cap {"char", "short", "long"} # {} THEN kinds \ {"int"}
              ELSE IF kinds = {} /\ signs # {} THEN {"int"} ELSE kinds
      signed(ts, uts) == Type(IF "unsigned" \in signs THEN uts ELSE ts)
      t == CHOOSE w \in kind : TRUE
  IN  CASE Cardinality(kind) # 1 \/ Cardinality(signs) > 1 -> Refused
        [] signs # {} /\ kind \cap (Aggregates \cup {"float", "double", "TYPE_NAME"}) # {} -> Refused
        [] t = "void" -> Got(Type("VOID"), r.s) [] t = "float" -> Got(Type("FLOAT"), r.s) [] t = "double" -> Got(Type("DOUBLE"), r.s)
        [] t = "char" -> Got(signed("CHAR", "UCHAR"), r.s)
        [] t = "short" -> Got(signed("SHORT", "USHORT"), r.s)
        [] t = "int" -> Got(signed("INT", "UINT"), r.s)
        [] t = "long" -> Got(IF counted("long") > 1 THEN signed("LLONG", "ULLONG") ELSE signed("LONG", "ULONG"), r.s)
        [] t = "enum" -> parse_enum_body(r.s) [] t = "simd" -> parse_simd_body(r.s)
        [] t = "struct" -> parse_sru_body("STRUCT", r.s) [] t = "union" -> parse_sru_body("UNION", r.s)
        [] t = "TYPE_NAME" -> Got(Last(r.n.named), r.s)

\* A type with a tag and a body is put away under its keyword and tag; twice is an error.
Registered(keyword, r) ==
  LET name == keyword \o " " \o r.n.name
  IN  CASE r.s.i = 0 -> r
        [] r.n.name = "" /\ r.n.x = <<>> -> Refused
        [] r.n.name # "" /\ r.n.x # <<>> ->
             Unless(name \in DOMAIN r.s.syms, Got(r.n, [r.s EXCEPT !.syms = intern_symbol(@, name, keyword, r.n)]))
        [] OTHER -> r
Tagged(t, s) == IF peekt(s) = "IDENTIFIER" THEN Got([t EXCEPT !.name = tokstr(s)], dropt(s)) ELSE Got(t, s)

RECURSIVE EnumList(_, _, _)
EnumList(n, curval, s) ==
  LET id == getid(s)
      e == parse_conditional_expr(dropt(id.s))
      given == arithmetic_eval_to_int(Measured(e.n), <<>>)
      after == IF peekt(id.s) = "=" THEN e.s ELSE id.s
      v == IF peekt(id.s) = "=" THEN given.val ELSE curval
      known == [after EXCEPT !.syms = intern_symbol(@, id.n, "ENUM_NAME", Lit("INT", v))]
      grown == [n EXCEPT !.x = Append(@, [Node("vardecl") EXCEPT !.name = id.n, !.x = <<Lit("INT", v)>>])]
  IN  CASE peekt(s) \in {"}", "error"} -> Got(n, s)
        [] after.i = 0 -> Refused
        [] peekt(id.s) = "=" /\ given.ts = "VOID" -> Refused
        [] OTHER -> EnumList(grown, IntegralOf("INT", v + 1), IF peekt(known) = "," THEN dropt(known) ELSE known)
parse_enum_body(s) ==
  LET t == Tagged(Type("ENUM"), s)
  IN  Registered("enum", IF peekt(t.s) = "{" THEN Closed(EnumList(t.n, 0, dropt(t.s)), "}") ELSE t)

LaneBits == [ts \in TsIn("CHAR", "DOUBLE") |->
  IF ts \in {"CHAR", "UCHAR"} THEN 8 ELSE IF ts \in {"SHORT", "USHORT"} THEN 16 ELSE IF ts \in {"LLONG", "ULLONG", "DOUBLE"} THEN 64 ELSE 32]
parse_simd_body(s) ==
  LET t == base_type(expect(s, "<"))
      at == expect(t.s, ",")
      n == TokenAt(at).val
  IN  CASE t.n.ts \notin TsIn("BOOL", "DOUBLE") \/ peekt(at) # "INT" -> Refused
        [] n \notin {2, 4, 8, 16} -> Refused
        [] t.n.ts # "BOOL" /\ n * LaneBits[t.n.ts] # 128 -> Refused
        [] OTHER -> Got([Type("V128") EXCEPT !.x = <<t.n, Lit("INT", n)>>], expect(dropt(at), ">"))

RECURSIVE FieldList(_, _)
FieldList(n, s) ==
  LET d == decl(s)
  IN  IF peekt(s) \in {"}", "error"} THEN Got(n, s)
      ELSE IF d.n.sc # "" THEN Refused ELSE FieldList([n EXCEPT !.x = @ \o d.n.x], expect(d.s, ";"))
parse_sru_body(sru, s) ==
  LET t == Tagged(Type(sru), s)
  IN  Registered(IF sru = "STRUCT" THEN "struct" ELSE "union", IF peekt(t.s) = "{" THEN Closed(FieldList(t.n, dropt(t.s)), "}") ELSE t)

\* -------------------------------------------------------- declarators
RECURSIVE PostfixDeclarator(_), Parameters(_), parse_unary_declarator(_)
Parameters(s) ==
  LET b == base_type(s)
      d == parse_declarator(b.n, b.s)
      par == VarDecl(d.n.name, d.n.type)
      more == Parameters(dropt(d.s))
  IN  CASE peekt(s) \in {")", "error"} -> Got(<<>>, s)
        [] peekt(s) = "..." -> Got(<<VarDecl("", Type("ETC"))>>, dropt(s))
        [] peekt(s) \notin {")", "error", "..."} /\ peekt(d.s) # "," -> Got(<<par>>, d.s)
        [] OTHER -> Got(<<par>> \o more.n, more.s)

\* A declarator reads from the inside out; its tree has the name at the leaf.
parse_primary_declarator(s) ==
  CASE peekt(s) = "IDENTIFIER" -> NameNode(s)
    [] peekt(s) \in {",", "[", ")", ":"} -> Got(Node("null"), s)
    [] peekt(s) = "(" /\ peekt(dropt(s)) = ")" -> Got(wrap_type_function(Node("null"), <<>>), dropt(dropt(s)))
    [] peekt(s) = "(" /\ peekt(dropt(s)) # ")" -> InParentheses(unary_declarator, s)
    [] OTHER -> Refused
PostfixDeclarator(r) ==
  LET size == IF peekt(dropt(r.s)) = "]" THEN Got(Node("null"), dropt(r.s)) ELSE expr(dropt(r.s))
      pars == InParentheses(Parameters, r.s)
  IN  CASE peekt(r.s) = "[" -> PostfixDeclarator(Got(ArrayType(r.n, size.n), expect(size.s, "]")))
        [] peekt(r.s) = "(" -> PostfixDeclarator(Got(wrap_type_function(r.n, pars.n), pars.s))
        [] peekt(r.s) \in PostfixSigns \ {"[", "("} -> Refused
        [] OTHER -> r
parse_unary_declarator(s) ==
  LET r == unary_declarator(dropt(s))
  IN  CASE peekt(s) \in {"const", "volatile"} -> r
        [] peekt(s) = "*" -> Got(PtrTo(r.n), r.s)
        [] OTHER -> PostfixDeclarator(parse_primary_declarator(s))

\* ------------------------------------------- initializers, declarations
RECURSIVE Elements(_, _)
Elements(n, s) ==
  LET e == initializer(s)
  IN  IF peekt(s) \in {"}", "error"} THEN Got(n, s)
      ELSE Elements([n EXCEPT !.x = Append(@, e.n)], IF peekt(e.s) = "," THEN dropt(e.s) ELSE e.s)
parse_initializer(s) ==
  IF peekt(s) = "{" THEN Closed(Elements(Op("display", "", <<Type("VOID")>>), dropt(s)), "}") ELSE assignment_expr(s)

parse_init_declarator(sc, t, s) ==
  LET d == parse_declarator(t, s)
      init == initializer(dropt(d.s))
      value == patch_display_array_sizes(init.n, d.n.type)
      type == patch_type_array_sizes(value, d.n.type)
      \* a string that initialises an array is cast to its type
      stored == IF value.nt = "literal" /\ type.ts = "ARRAY" THEN Op("cast", "", <<type, value>>) ELSE value
      var(ty) == [VarDecl(d.n.name, ty) EXCEPT !.op = sc]
  IN  CASE d.n.name = "" -> RefusedList
        [] d.n.name # "" /\ peekt(d.s) # "=" -> Got(<<var(d.n.type)>>, d.s)
        [] OTHER -> Got(<<var(type), Op("assign", "=", <<Id(d.n.name), stored>>)>>, init.s)

RECURSIVE StorageClass(_, _), Declarators(_, _, _)
StorageClass(sc, s) == IF storage_class_specifier_ahead(s) THEN StorageClass(peekt(s), dropt(s)) ELSE Got(sc, s)
Declarators(sc, t, s) ==
  LET d == parse_init_declarator(sc, t, s)
      more == Declarators(sc, t, dropt(d.s))
  IN  CASE peekt(s) \in {";", "{"} -> Got(<<>>, s)
        [] peekt(s) = "error" \/ d.s.i = 0 -> RefusedList
        [] OTHER -> IF peekt(d.s) = "," THEN Got(d.n \o more.n, more.s) ELSE d
parse_decl(s) ==
  LET sc == StorageClass("", s)
      t == base_type(sc.s)
      d == Declarators(sc.n, t.n, t.s)
  IN  IF d.s.i = 0 \/ ~type_specifier_ahead(sc.s) THEN Got([sc |-> "", x |-> <<>>], Failed) ELSE Got([sc |-> sc.n, x |-> d.n], d.s)
decl_ahead(s) == storage_class_specifier_ahead(s) \/ type_specifier_ahead(s)
LocalDecl(s) == LET d == decl(s) IN IF d.n.sc \in {"extern", "static"} THEN Got(d.n, Failed) ELSE d

\* --------------------------------------------------------- statements
RECURSIVE ClauseBody(_, _), Clauses(_, _), BlockItems(_, _)
ClauseBody(n, s) ==
  LET st == stmt(s)
  IN  IF peekt(s) \in {"}", "case", "default", "error"} THEN Got(n, s) ELSE ClauseBody([n EXCEPT !.x = Append(@, st.n)], st.s)
parse_switch_clause(s) ==
  LET e == expr(dropt(s))
  IN  CASE peekt(s) = "case" -> ClauseBody(Op("case", "", <<e.n>>), expect(e.s, ":"))
        [] peekt(s) = "default" -> ClauseBody(Node("default"), expect(dropt(s), ":"))
        [] OTHER -> Refused
Clauses(n, s) ==
  LET c == parse_switch_clause(s)
  IN  IF peekt(s) \in {"}", "error"} THEN Got(n, s) ELSE Clauses([n EXCEPT !.x = Append(@, c.n)], c.s)

\* A label names the block it stands at the start or the end of.
BlockItems(b, s) ==
  LET label == peekt(s) = "IDENTIFIER" /\ TouchesNext(s, ":")
      colon == dropt(dropt(s))
      after == IF peekt(colon) = ";" THEN dropt(colon) ELSE colon
      labelled(op) == [b EXCEPT !.name = tokstr(s), !.op = op]
      d == LocalDecl(s)
      st == stmt(s)
  IN  CASE peekt(s) \in {"}", "error"} -> Got(b, s)
        [] peekt(s) = "typedef" -> Refused
        [] b.x = <<>> /\ label /\ peekt(after) # "}" -> BlockItems(labelled("CONTINUE"), after)
        [] label /\ b.x # <<>> /\ peekt(after) = "}" -> BlockItems(labelled("BREAK"), after)
        [] label /\ (b.x = <<>>) = (peekt(after) = "}") -> Refused
        [] decl_ahead(s) -> BlockItems([b EXCEPT !.x = @ \o d.n.x], expect(d.s, ";"))
        [] ~label /\ ~decl_ahead(s) /\ peekt(s) \notin {"}", "error", "typedef"} -> BlockItems([b EXCEPT !.x = Append(@, st.n)], st.s)

\* An expression of a for that may be left out before sign.
OptionalExpr(s, sign) == IF peekt(s) = sign THEN Got(Node("null"), s) ELSE expr(s)
ForStatement(s) ==
  LET head == expect(s, "(")
      declared == decl_ahead(head)
      d == LocalDecl(head)
      init == IF declared THEN Got(Op("block", "", d.n.x), d.s) ELSE OptionalExpr(head, ";")
      test == Closed(OptionalExpr(expect(init.s, ";"), ";"), ";")
      step == Closed(OptionalExpr(test.s, ")"), ")")
      body == stmt(step.s)
      loop(first) == Op("for", "", <<first, test.n, step.n, body.n>>)
      \* the block of the declaration takes the loop in
      n == IF declared THEN [init.n EXCEPT !.x = Append(@, loop(Node("null")))] ELSE loop(init.n)
  IN  Got(n, body.s)

parse_stmt(s) ==
  LET tested == InParentheses(expr, dropt(s))
      inner == stmt(tested.s)
      else == stmt(dropt(inner.s))
      cases == Closed(Clauses(Op("switch", "", <<tested.n>>), expect(tested.s, "{")), "}")
      body == stmt(dropt(s))
      again == InParentheses(expr, expect(body.s, "while"))
      returned == expr(dropt(s))
      target == getid(dropt(s))
      e == expr(s)
      ended(n, t) == Got(n, expect(t, ";"))
  IN  CASE peekt(s) = ";" -> Got(Node("null"), dropt(s))
        [] peekt(s) = "{" -> Closed(BlockItems(Node("block"), dropt(s)), "}")
        [] peekt(s) = "if" -> IF peekt(inner.s) = "else" THEN Got(Op("if", "", <<tested.n, inner.n, else.n>>), else.s)
                              ELSE Got(Op("if", "", <<tested.n, inner.n>>), inner.s)
        [] peekt(s) = "switch" -> cases
        [] peekt(s) = "while" -> Got(Op("while", "", <<tested.n, inner.n>>), inner.s)
        [] peekt(s) = "do" -> ended(Op("do", "", <<body.n, again.n>>), again.s)
        [] peekt(s) = "for" -> ForStatement(dropt(s))
        [] peekt(s) \in {"break", "continue"} -> ended(Node(peekt(s)), dropt(s))
        [] peekt(s) = "return" -> IF peekt(dropt(s)) = ";" THEN Got(Node("return"), dropt(dropt(s)))
                                  ELSE ended(Op("return", "", <<returned.n>>), returned.s)
        [] peekt(s) = "goto" -> ended([Node("goto") EXCEPT !.name = target.n], target.s)
        [] OTHER -> ended(e.n, e.s)

parse(rule, s) ==
  CASE rule = "expr" -> parse_expr(s) [] rule = "assignment" -> parse_assignment_expr(s) [] rule = "cast" -> parse_cast_expr(s)
    [] rule = "primary" -> parse_primary_expr(s) [] rule = "base type" -> parse_base_type(s) [] rule = "declarator" -> parse_unary_declarator(s)
    [] rule = "initializer" -> parse_initializer(s) [] rule = "decl" -> parse_decl(s) [] rule = "stmt" -> parse_stmt(s)

\* ---------------------------------------------------- top-level forms
RECURSIVE MacroParameters(_)
MacroParameters(s) ==
  LET id == getid(s)
      more == MacroParameters(dropt(id.s))
  IN  CASE peekt(s) \in {")", "error"} -> Got(<<>>, s)
        [] peekt(s) = "..." -> Got(<<VarDecl("", Type("VOID"))>>, dropt(s))
        [] OTHER -> IF peekt(id.s) = "," THEN Got(<<VarDecl(id.n, Type("VOID"))>> \o more.n, more.s)
                    ELSE Got(<<VarDecl(id.n, Type("VOID"))>>, id.s)
DoBlock(s) ==
  LET body == stmt(dropt(s))
      zero == expect(expect(body.s, "while"), "(")
  IN  IF peekt(zero) = "INT" THEN Unless(TokenAt(zero).val # 0, Got(body.n, expect(dropt(zero), ")"))) ELSE Refused
parse_define_directive(s) ==
  LET id == getid(s)
      pars == InParentheses(MacroParameters, id.s)
      parametric == peekt(s) = "IDENTIFIER" /\ TouchesNext(s, "(")
      start == IF parametric THEN pars.s ELSE id.s
      body == IF peekt(start) = "do" THEN DoBlock(start) ELSE primary_expr(start)
      x == IF parametric THEN <<FunctionOf(Node("null"), pars.n), body.n>> ELSE <<body.n>>
  IN  IF body.s.i = 0 \/ lookup_symbol(id.n, body.s.syms).tt # "IDENTIFIER" THEN Refused
      ELSE Got(Node("block"), [body.s EXCEPT !.syms = intern_symbol(@, id.n, "MACRO_NAME", Op("macrodef", "", x))])
parse_undef_directive(s) ==
  IF peekt(s) # "MACRO_NAME" THEN Refused
  ELSE Unless(tokstr(s) \in Lasting, Got(Node("block"), [dropt(s) EXCEPT !.syms = unintern_symbol(@, tokstr(s))]))

\* "a/b.h" and <a/b.h> name the module a.b; a string that is no name of a module has tt "STRING" and s "".
RECURSIVE ModulePath(_, _)
ModulePath(name, s) ==
  LET tt == peekt(s)
      named == tt = "IDENTIFIER" \/ tt = "asm" \/ tt \in Taggable
      extension == dropt(s)
  IN  CASE tt = "." -> IF peekt(extension) = "IDENTIFIER" THEN Unless(tokstr(extension) \notin {"h", "wh"}, Got(name, dropt(extension)))
                       ELSE IF peekt(extension) = ">" THEN Got(name, extension)
                       ELSE IF peekt(extension) = "." THEN ModulePath(name, extension) ELSE Refused
        [] tt = "/" -> ModulePath(name \o ".", dropt(s))
        [] tt = ">" -> Got(name, s)
        [] named -> ModulePath(name \o tokstr(s), dropt(s))
        [] OTHER -> Refused
parse_include_directive(s) ==
  LET path == Closed(ModulePath("", expect(s, "<")), ">")
      include(op, name) == [Node("include") EXCEPT !.op = op, !.name = name]
  IN  IF peekt(s) = "STRING" THEN Unless(tokstr(s) = "", Got(include("STRING", tokstr(s)), dropt(s)))
      ELSE Got(include("IDENTIFIER", path.n), path.s)

parse_top_typedef(s) ==
  LET b == base_type(s)
      d == parse_declarator(b.n, b.s)
      t == [Op("typedef", "", <<d.n.type>>) EXCEPT !.name = d.n.name]
      end == expect(d.s, ";")
  IN  IF end.i = 0 \/ d.n.name = "" \/ ~type_specifier_ahead(s) THEN Refused
      ELSE Got(t, [end EXCEPT !.syms = intern_symbol(@, t.name, "TYPE_NAME", t.x[1])])
parse_top_decl(s) ==
  LET d == decl(s)
      body == stmt(d.s)
      f == d.n.x[1]
  IN  CASE ~decl_ahead(s) \/ d.n.sc \in {"auto", "register"} -> Refused
        [] peekt(d.s) = "{" -> IF Len(d.n.x) # 1 \/ f.nt # "vardecl" THEN Refused
                               ELSE Unless(body.n.name # "", Got([f EXCEPT !.nt = "fundef", !.x = Append(@, body.n)], body.s))
        [] OTHER -> Got(Op("block", "", d.n.x), expect(d.s, ";"))

\* The form of a kind that is next, and the state after it.
parse_form(kind, s) ==
  CASE kind = "define" -> parse_define_directive(s)
    [] kind = "undef" -> parse_undef_directive(s)
    [] kind = "include" -> parse_include_directive(s)
    [] kind = "typedef" -> parse_top_typedef(s)
    [] kind = "intrinsic" -> Closed(primary_expr(s), ";")
    [] kind = "declaration" -> parse_top_decl(s)
=============================================================================
