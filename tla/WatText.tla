------------------------------ MODULE WatText ------------------------------
(***************************************************************************)
(* Modules of WebAssembly text as wcpl keeps them in memory: instructions, *)
(* fields, and the tables of instructions the compiler, the reader and the *)
(* writers share.  Object files: write_wat_module prints a module as text, *)
(* parse_module reads it back.  Text is a sequence of tokens; layout and   *)
(* comments, which the scanner drops, are left out.  In place of exits with *)
(* a message the reader goes on with text that nothing accepts.            *)
(***************************************************************************)
EXTENDS Integers, Sequences, SequencesExt, TLC

CONSTANT Bits            \* width of an i32, 32 in the code
ASSUME BitsAssumption == Bits \in Nat \ {0}

\* Value and block types, by their code in the binary format.
VOID == 64
I32 == 127
I64 == 126
F32 == 125
F64 == 124
FUNCREF == 112

ValtypeName == [t \in {I32, I64, F32, F64} |->
  CASE t = I32 -> "i32" [] t = I64 -> "i64" [] t = F32 -> "f32" [] t = F64 -> "f64"]

\* Opcodes, some of every signature and of one, two and three bytes.  "reg"
\* is IN_REGDECL, the declaration of a parameter or local: no instruction.
Opcode ==
  [ unreachable |-> 0, nop |-> 1, block |-> 2, loop |-> 3, if |-> 4, else |-> 5,
    end |-> 11, br |-> 12, br_if |-> 13, br_table |-> 14, return |-> 15,
    call |-> 16, call_indirect |-> 17, drop |-> 26, local_get |-> 32,
    local_set |-> 33, local_tee |-> 34, global_get |-> 35, global_set |-> 36,
    i32_load |-> 40, i64_store32 |-> 62, memory_size |-> 63, i32_const |-> 65,
    i64_const |-> 66, f32_const |-> 67, f64_const |-> 68, i32_add |-> 106,
    ref_func |-> 210, memory_copy |-> 64522, memory_fill |-> 64523,
    v128_const |-> 64780, i8x16_extract_lane_u |-> 64790, v128_load8_lane |-> 64852,
    v128_load32_zero |-> 64860, i32x4_add |-> 16625153,
    ref_data |-> -3, data_put_ref |-> -4, reg |-> -2 ]

\* instr_sig: which arguments an instruction takes.
SigNames ==
  [ BT |-> {"block", "loop", "if"}, L |-> {"br", "br_if"}, LS_L |-> {"br_table"},
    XL |-> {"local_get", "local_set", "local_tee"},
    XG |-> {"call", "global_get", "global_set"}, CI |-> {"call_indirect"},
    I32 |-> {"i32_const"}, I64 |-> {"i64_const"}, F32 |-> {"f32_const"}, F64 |-> {"f64_const"},
    I128 |-> {"v128_const"}, MEMARG |-> {"i32_load", "i64_store32"},
    LANEIDX |-> {"i8x16_extract_lane_u"},
    MEMARG_LANEIDX |-> {"v128_load8_lane", "v128_load32_zero"},
    RF |-> {"ref_func"}, RD |-> {"ref_data"}, PR |-> {"data_put_ref"} ]

SigTable == [in \in DOMAIN Opcode |->
  IF \E s \in DOMAIN SigNames : in \in SigNames[s]
    THEN CHOOSE s \in DOMAIN SigNames : in \in SigNames[s] ELSE "NONE"]
Sig(in) == SigTable[in]

\* inscode_t: arg is u; arg2 is u2, or as a pair of halves u2 and u3; "" is no symbol.
Ins(in) == [in |-> in, id |-> "", mod |-> "", u |-> 0, u2 |-> 0, u3 |-> 0]
InsN(in, n) == [Ins(in) EXCEPT !.u = n]
InsId(in, id) == [Ins(in) EXCEPT !.id = id]
InsMod(in, mod, id) == [InsId(in, id) EXCEPT !.mod = mod]

\* The two's complement value of the low Bits bits of n: (n << 32) >> 32.
SignExtended(n) == ((n + 2^(Bits - 1)) % 2^Bits) - 2^(Bits - 1)

\* watie_t: a field of a module.
Field(iek, mod, id) ==
  [ iek |-> iek, mod |-> mod, id |-> id, exported |-> FALSE, par |-> <<>>, res |-> <<>>,
    vt |-> 0, var |-> FALSE, ic |-> Ins("unreachable"), max |-> FALSE, n |-> 0, m |-> 0,
    align |-> 0, data |-> <<>>, code |-> <<>>, table |-> <<>> ]

Of(fields, iek) == SelectSeq(fields, LAMBDA f : f.iek = iek)
Position(seq, P(_)) == SelectInSeq(seq, P)
-----------------------------------------------------------------------------
Tok(kind, s) == [kind |-> kind, s |-> s, mod |-> "", n |-> 0, d |-> <<>>]
Kw(s) == Tok("keyword", s)
LPar == Tok("(", "(")
RPar == Tok(")", ")")
Id(s) == Tok("id", s)
ModId(mod, s) == [Tok("id", s) EXCEPT !.mod = mod]
Num(n) == [Tok("int", "") EXCEPT !.n = n]
Real(n) == [Tok("float", "") EXCEPT !.n = n]
Opt(key, n) == [Tok("keyword", key) EXCEPT !.n = n]         \* offset=n, align=n, size=n
Str(d) == [Tok("string", "") EXCEPT !.d = d]
Quoted(s) == Tok("string", s)
Type(t) == IF t \in DOMAIN ValtypeName THEN Kw(ValtypeName[t]) ELSE Num(t)
Group(key, toks) == <<LPar, Kw(key)>> \o toks \o <<RPar>>
Types(key, types) == FlattenSeq([i \in DOMAIN types |-> Group(key, <<Type(types[i])>>)])

-----------------------------------------------------------------------------
(* Writing.                                                                *)

FormatFuncsig(par, res) ==
  Group("param", [i \in DOMAIN par |-> Type(par[i])]) \o Group("result", [i \in DOMAIN res |-> Type(res[i])])

\* format_inscode, with the signatures of call_indirect from the global table.
FormatInscode(c, sigs) ==
  LET name == IF c.mod # "" THEN <<ModId(c.mod, c.id)>> ELSE IF c.id # "" THEN <<Id(c.id)>> ELSE <<>>
      orNumber == IF c.id # "" THEN name ELSE <<Num(c.u)>>
      args == CASE Sig(c.in) = "NONE" -> IF c.in = "end" THEN name ELSE <<>>
                [] Sig(c.in) = "BT" -> name \o IF c.u = VOID THEN <<>> ELSE Group("result", <<Type(c.u)>>)
                [] Sig(c.in) \in {"XL", "XG", "RF", "L", "LANEIDX"} -> orNumber
                [] Sig(c.in) = "I32" -> <<Num(SignExtended(c.u))>>
                [] Sig(c.in) = "I64" -> <<Num(c.u)>>
                [] Sig(c.in) \in {"F32", "F64"} -> <<Real(c.u)>>
                [] Sig(c.in) = "I128" -> <<Kw("i64x2"), Num(c.u), Num(c.u2)>>
                [] Sig(c.in) = "CI" -> FormatFuncsig(sigs[c.u + 1].par, sigs[c.u + 1].res)
                [] Sig(c.in) = "MEMARG" -> <<Opt("offset", c.u), Opt("align", 2^c.u2)>>
                [] Sig(c.in) = "MEMARG_LANEIDX" -> <<Opt("offset", c.u2), Opt("align", 2^c.u3)>> \o orNumber
                [] Sig(c.in) = "RD" -> name \o IF c.u = 0 THEN <<>> ELSE <<Opt("offset", c.u)>>
                [] Sig(c.in) = "PR" -> <<Opt("offset", c.u)>>
  IN  <<Kw(c.in)>> \o args

ValueType(f) == IF f.var THEN Group("mut", <<Type(f.vt)>>) ELSE <<Type(f.vt)>>
Limits(f) == IF f.max THEN <<Num(f.n), Num(f.m)>> ELSE <<Num(f.n)>>
Mutability(f) == Kw(IF f.var THEN "var" ELSE "const")
Exported(f) == IF f.exported THEN Group("export", <<Quoted(f.id)>>) ELSE <<>>

WatImport(f) ==
  LET name == <<ModId(f.mod, f.id)>>
      des == CASE f.iek = "func" -> Group("func", name \o Types("param", f.par) \o Types("result", f.res))
               [] f.iek = "data" -> Group("data", name \o <<Mutability(f), Opt("align", f.align), Opt("size", f.n)>>)
               [] f.iek = "memory" -> Group("memory", name \o Limits(f))
               [] f.iek = "global" -> Group("global", name \o ValueType(f))
  IN  Group("import", <<Quoted(f.mod), Quoted(f.id)>> \o des)

WatExportMem(f) == Group("memory", <<ModId(f.mod, f.id)>> \o Exported(f) \o Limits(f))

WatExportGlobal(f) ==
  Group("global", <<ModId(f.mod, f.id)>> \o Exported(f) \o ValueType(f)
     \o IF f.ic.in = "unreachable" THEN <<>> ELSE <<LPar>> \o FormatInscode(f.ic, <<>>) \o <<RPar>>)

\* Mutant: only the first byte of a datum is looked at.
DataAllZeroes_First(d) == d = <<>> \/ d[1] = 0
DataAllZeroes(d) == \A i \in DOMAIN d : d[i] = 0

WatExportData(f) ==
  Group("data", <<ModId(f.mod, f.id)>> \o Exported(f) \o <<Mutability(f), Opt("align", f.align)>>
     \o (IF DataAllZeroes(f.data) THEN <<Opt("size", Len(f.data))>> ELSE <<Str(f.data)>>)
     \o (IF f.code = <<>> THEN <<>>
         ELSE <<LPar>> \o FlattenSeq([j \in DOMAIN f.code |-> FormatInscode(f.code[j], <<>>)]) \o <<RPar>>))

\* The body of a function: br_table stands for itself and its u + 1 branches.
RECURSIVE FormatBody(_, _)
FormatBody(code, sigs) ==
  IF code = <<>> THEN <<>>
  ELSE LET c == Head(code)
           n == c.u + 1
       IN  IF c.in = "br_table"
           THEN <<Kw("br_table")>> \o [k \in 1..n |-> Id(code[k + 1].id)]
                  \o FormatBody(SubSeq(code, n + 2, Len(code)), sigs)
           ELSE FormatInscode(c, sigs) \o FormatBody(Tail(code), sigs)

Regs(code) == LET k == Position(code, LAMBDA c : c.in # "reg")
              IN  SubSeq(code, 1, IF k = 0 THEN Len(code) ELSE k - 1)
Declared(key, r) == Group(key, (IF r.id = "" THEN <<>> ELSE <<Id(r.id)>>) \o <<Type(r.u)>>)

WatExportFunc(f, sigs) ==
  LET regs == Regs(f.code)
      npar == Len(f.par)
  IN  Group("func", <<ModId(f.mod, f.id)>> \o Exported(f)
         \o FlattenSeq([j \in 1..npar |-> Declared("param", regs[j])])
         \o Types("result", f.res)
         \o FlattenSeq([j \in 1..Len(regs) - npar |-> Declared("local", regs[npar + j])])
         \o FormatBody(SubSeq(f.code, Len(regs) + 1, Len(f.code)), sigs))

EachOf(fields, iek, W(_)) == LET s == Of(fields, iek) IN FlattenSeq([i \in DOMAIN s |-> W(s[i])])

WriteWatModule(m, sigs) ==
  Group("module", <<Id(m.name)>>
     \o FlattenSeq([i \in DOMAIN m.imports |-> WatImport(m.imports[i])])
     \o EachOf(m.exports, "memory", WatExportMem)
     \o EachOf(m.exports, "global", WatExportGlobal)
     \o EachOf(m.exports, "data", WatExportData)
     \o EachOf(m.exports, "func", LAMBDA f : WatExportFunc(f, sigs)))

-----------------------------------------------------------------------------
(* Reading.  <<>> is the text after an error: nothing can be read from it.  *)

At(s) == IF s = <<>> THEN Tok("eof", "") ELSE s[1]
Ahead(s, w) == At(s).kind \in {"keyword", "(", ")"} /\ At(s).s = w
Expect(s, w) == IF Ahead(s, w) THEN Tail(s) ELSE <<>>
Expects(s, words) == FoldLeft(Expect, s, words)
After(s, ok) == IF s # <<>> /\ ok THEN Tail(s) ELSE <<>>

IsInt(s) == At(s).kind = "int"
IsId(s) == At(s).kind = "id" /\ At(s).mod = ""
IsModId(s) == At(s).kind = "id" /\ At(s).mod # ""
IsType(s) == At(s).kind = "keyword" /\ \E t \in DOMAIN ValtypeName : ValtypeName[t] = At(s).s
ParseValtype(s) == IF IsType(s) THEN CHOOSE t \in DOMAIN ValtypeName : ValtypeName[t] = At(s).s ELSE 0
AlignLog(n) == IF \E a \in 0..4 : 2^a = n THEN CHOOSE a \in 0..4 : 2^a = n ELSE 5

RECURSIVE ParseTypes(_, _)
ParseTypes(s, types) == IF IsType(s) THEN ParseTypes(Tail(s), Append(types, ParseValtype(s)))
                        ELSE [types |-> types, s |-> Expect(s, ")")]

\* fsintern: the index of a signature, added when it is new.
FsIndex(sigs, sig) == Position(sigs, LAMBDA x : x = sig) - 1
FsIntern(sigs, sig) == IF FsIndex(sigs, sig) < 0 THEN Append(sigs, sig) ELSE sigs

RECURSIVE ParseLabels(_, _)
ParseLabels(s, code) == IF IsId(s) THEN ParseLabels(Tail(s), Append(code, InsId("br", At(s).s)))
                        ELSE [code |-> code, s |-> s]

\* parse_ins: an instruction, with the branches that follow a br_table.
ParseIns(s0, sigs) ==
  LET in == At(s0).s
      s == Tail(s0)
      a == At(s)
      Got(c, rest) == [code |-> <<c>>, s |-> rest, sigs |-> sigs]
      Err == [code |-> <<>>, s |-> <<>>, sigs |-> sigs]
      GetId == IF IsId(s) THEN Got(InsId(in, a.s), Tail(s)) ELSE Err
      GetModId == IF IsModId(s) THEN Got(InsMod(in, a.mod, a.s), Tail(s)) ELSE Err
      GetOffset == IF Ahead(s, "offset") /\ a.n >= 0 THEN Tail(s) ELSE <<>>
      GetAlign(t) == After(t, Ahead(t, "align") /\ AlignLog(At(t).n) < 5)
  IN  IF At(s0).kind # "keyword" \/ in \notin DOMAIN Opcode THEN Err
      ELSE CASE Sig(in) = "NONE" -> IF in = "end" /\ a.kind = "id" THEN GetId ELSE Got(Ins(in), s)
             [] in = "if" -> IF Ahead(s, "(")
                             THEN LET t == Expect(Tail(s), "result")
                                  IN  Got(InsN(in, ParseValtype(t)), Expect(After(t, IsType(t)), ")"))
                             ELSE Got(InsN(in, VOID), s)
             [] in \in {"block", "loop"} -> IF IsId(s) THEN Got([InsId(in, a.s) EXCEPT !.u = VOID], Tail(s)) ELSE Err
             [] Sig(in) \in {"L", "XL"} -> GetId
             [] Sig(in) \in {"XG", "RF"} -> GetModId
             [] Sig(in) = "CI" ->
                  LET ps == ParseTypes(Expects(s, <<"(", "param">>), <<>>)
                      rs == ParseTypes(Expects(ps.s, <<"(", "result">>), <<>>)
                      sig == [par |-> ps.types, res |-> rs.types]
                      known == FsIntern(sigs, sig)
                  IN  [code |-> <<InsN(in, FsIndex(known, sig))>>, s |-> rs.s, sigs |-> known]
             [] Sig(in) = "I32" -> IF a.kind = "int" /\ a.n = SignExtended(a.n) THEN Got(InsN(in, a.n), Tail(s)) ELSE Err
             [] Sig(in) = "I64" -> IF a.kind = "int" THEN Got(InsN(in, a.n), Tail(s)) ELSE Err
             [] Sig(in) \in {"F32", "F64"} -> IF a.kind \in {"float", "int"} THEN Got(InsN(in, a.n), Tail(s)) ELSE Err
             [] Sig(in) = "I128" -> LET t == Expect(s, "i64x2")
                                        t2 == After(t, IsInt(t))
                                    IN  Got([InsN(in, At(t).n) EXCEPT !.u2 = At(t2).n], After(t2, IsInt(t2)))
             [] Sig(in) = "MEMARG" -> LET t == GetOffset
                                      IN  Got([InsN(in, a.n) EXCEPT !.u2 = AlignLog(At(t).n)], GetAlign(t))
             [] Sig(in) = "LANEIDX" -> IF a.kind = "int" /\ a.n \in 0..16 THEN Got(InsN(in, a.n), Tail(s)) ELSE Err
             [] Sig(in) = "MEMARG_LANEIDX" ->
                  LET t == GetOffset
                      t2 == GetAlign(t)
                  IN  Got([InsN(in, At(t2).n) EXCEPT !.u2 = a.n, !.u3 = AlignLog(At(t).n)],
                          After(t2, IsInt(t2) /\ At(t2).n \in 0..16))
             [] Sig(in) = "RD" -> IF ~IsModId(s) THEN Err
                                  ELSE IF Ahead(Tail(s), "offset")
                                  THEN Got([InsMod(in, a.mod, a.s) EXCEPT !.u = At(Tail(s)).n], Tail(Tail(s)))
                                  ELSE GetModId
             [] Sig(in) = "PR" -> Got(InsN(in, a.n), GetOffset)
             [] Sig(in) = "LS_L" ->
                  LET ls == ParseLabels(s, <<>>)
                  IN  IF ls.code = <<>> THEN Err
                      ELSE [code |-> <<InsN(in, Len(ls.code) - 1)>> \o ls.code, s |-> ls.s, sigs |-> sigs]

\* Instructions up to a closing parenthesis.
RECURSIVE ParseCode(_, _, _)
ParseCode(s, sigs, code) ==
  IF s = <<>> \/ Ahead(s, ")") THEN [code |-> code, s |-> s, sigs |-> sigs]
  ELSE LET r == ParseIns(s, sigs) IN ParseCode(r.s, r.sigs, code \o r.code)

\* A result of the parsers of fields: the field, the rest of the text, the signatures.
Res(f, s, sigs) == [f |-> f, s |-> s, sigs |-> sigs]

ParseGlobalType(f, s) ==
  LET t == IF Ahead(s, "(") THEN Expects(s, <<"(", "mut">>) ELSE s
      u == After(t, IsType(t))
  IN  Res([f EXCEPT !.var = Ahead(s, "("), !.vt = ParseValtype(t)],
          IF Ahead(s, "(") THEN Expect(u, ")") ELSE u, <<>>)

ParseMemLimits(f, s) ==
  LET t == After(s, IsInt(s))
  IN  IF Ahead(t, ")") THEN Res([f EXCEPT !.n = At(s).n], t, <<>>)
      ELSE Res([f EXCEPT !.n = At(s).n, !.max = TRUE, !.m = At(t).n], After(t, IsInt(t)), <<>>)

ParseMutability(f, s) ==
  LET t == IF Ahead(s, "var") THEN Tail(s) ELSE s
      u == IF Ahead(t, "const") THEN Tail(t) ELSE t
  IN  Res([f EXCEPT !.var = IF Ahead(t, "const") THEN FALSE ELSE Ahead(s, "var")], u, <<>>)

\* The parameters, results and locals of a function, in whatever order.
RECURSIVE ParseHeader(_, _, _)
ParseHeader(f, s, import) ==
  IF ~Ahead(s, "(") THEN Res(f, s, <<>>)
  ELSE LET t == Tail(s)
           key == At(t).s
           named == ~import /\ key \in {"param", "local"}
           v == IF named THEN After(Tail(t), IsId(Tail(t))) ELSE Tail(t)
           rest == IF key \in (IF import THEN {"param", "result"} ELSE {"param", "result", "local"})
                   THEN Expect(After(v, IsType(v)), ")") ELSE <<>>
           type == ParseValtype(v)
           g == [f EXCEPT !.par = IF key = "param" THEN Append(@, type) ELSE @,
                          !.res = IF key = "result" THEN Append(@, type) ELSE @,
                          !.code = IF named THEN Append(@, [InsId("reg", At(Tail(t)).s) EXCEPT !.u = type]) ELSE @]
       IN  IF t = <<>> THEN Res(f, <<>>, <<>>) ELSE ParseHeader(g, rest, import)

\* parse_import_des, after the two strings that name the import.
ParseImportDes(mod, id, s0) ==
  LET t == Expect(s0, "(")
      iek == At(t).s
      f == Field(iek, mod, id)
      n == At(Tail(t))
      s == IF n.kind = "id" THEN After(Tail(t), n.mod = mod /\ n.s = id) ELSE Tail(t)
      r == CASE Ahead(t, "global") -> ParseGlobalType(f, s)
             [] Ahead(t, "memory") -> ParseMemLimits(f, s)
             [] Ahead(t, "data") ->
                  LET q == ParseMutability(f, s)
                      z == After(q.s, Ahead(q.s, "align") /\ AlignLog(At(q.s).n) < 5)
                  IN  Res([q.f EXCEPT !.align = At(q.s).n, !.n = At(z).n], After(z, Ahead(z, "size")), <<>>)
             [] Ahead(t, "func") ->
                  ParseHeader([f EXCEPT !.mod = n.mod, !.id = n.s], After(Tail(t), IsModId(Tail(t))), TRUE)
             [] OTHER -> Res(f, <<>>, <<>>)
  IN  IF t = <<>> THEN Res(f, <<>>, <<>>) ELSE [r EXCEPT !.s = Expect(@, ")")]

ParseOptionalExport(f, s) ==
  IF Ahead(s, "(") /\ Ahead(Tail(s), "export")
  THEN LET t == Tail(Tail(s))
       IN  Res([f EXCEPT !.exported = TRUE], Expect(After(t, At(t).kind = "string" /\ At(t).s = f.id), ")"), <<>>)
  ELSE Res(f, s, <<>>)

ParseDataField(f, s, sigs) ==
  LET q == ParseMutability(f, s)
      z == IF Ahead(q.s, "align") THEN After(q.s, AlignLog(At(q.s).n) < 5) ELSE q.s
      g == [q.f EXCEPT !.align = IF Ahead(q.s, "align") THEN At(q.s).n ELSE 0,
                       !.data = IF Ahead(z, "size") THEN [i \in 1..At(z).n |-> 0] ELSE At(z).d]
      c == After(z, At(z).kind = "string" \/ Ahead(z, "size"))
      r == ParseCode(Tail(c), sigs, <<>>)
  IN  IF ~Ahead(c, "(") THEN Res(g, c, sigs)
      ELSE Res([g EXCEPT !.code = r.code],
               IF g.align < 4 \/ \E i \in DOMAIN r.code : Sig(r.code[i].in) \notin {"RD", "PR"}
               THEN <<>> ELSE Expect(r.s, ")"), sigs)

\* A field defined here, after its keyword and name.
ParseExport(f, s, sigs) ==
  CASE f.iek = "data" -> ParseDataField(f, s, sigs)
    [] f.iek = "memory" -> [ParseMemLimits(f, s) EXCEPT !.sigs = sigs]
    [] f.iek = "global" ->
         LET g == ParseGlobalType(f, s)
             r == ParseIns(Tail(g.s), sigs)
         IN  IF ~Ahead(g.s, "(") THEN [g EXCEPT !.sigs = sigs]
             ELSE Res([g.f EXCEPT !.ic = r.code[1]], Expect(r.s, ")"), sigs)
    [] f.iek = "func" ->
         LET h == ParseHeader(f, s, FALSE)
             r == ParseCode(h.s, sigs, <<>>)
         IN  Res([h.f EXCEPT !.code = @ \o r.code], r.s, r.sigs)

\* What main declares, for the linker to choose the runtime by; "bad" is refused.
MainOf(f) ==
  CASE f.res # <<I32>> -> "bad"
    [] f.par = <<>> -> "void"
    [] f.par = <<I32, I32>> -> "argc_argv"
    [] OTHER -> "bad"

ParseModulefield(m, s0, sigs) ==
  LET s == Expect(s0, "(")
      t == Tail(s)
      name == At(t)
      Import == LET u == After(t, At(t).kind = "string")
                    r == ParseImportDes(At(t).s, At(u).s, After(u, At(u).kind = "string"))
                IN  [m |-> [m EXCEPT !.imports = Append(@, r.f)], s |-> Expect(r.s, ")"), sigs |-> sigs]
      Export == LET e == ParseOptionalExport(Field(At(s).s, name.mod, name.s), After(t, IsModId(t)))
                    r == ParseExport(e.f, e.s, sigs)
                    main == r.f.iek = "func" /\ r.f.id = "main"
                IN  [m |-> [m EXCEPT !.exports = Append(@, r.f), !.main = IF main THEN MainOf(r.f) ELSE @],
                     s |-> IF main /\ MainOf(r.f) = "bad" THEN <<>> ELSE Expect(r.s, ")"), sigs |-> r.sigs]
  IN  CASE Ahead(s, "import") -> Import
        [] \E k \in {"data", "memory", "global", "func"} : Ahead(s, k) -> Export
        [] OTHER -> [m |-> m, s |-> <<>>, sigs |-> sigs]
=============================================================================
