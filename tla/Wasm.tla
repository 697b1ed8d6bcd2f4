-------------------------------- MODULE Wasm --------------------------------
(***************************************************************************)
(* Output: an object module is written as text and read back by the link   *)
(* that uses it; a linked program is converted, wat_to_wasm, to tables of  *)
(* definitions with indices for names, and written, write_wasm_module, as a*)
(* binary of sections.                                                     *)
(***************************************************************************)
EXTENDS WatText

CONSTANTS Objects,       \* object modules: [name, imports, exports, main]
          Programs,      \* linked modules
          Sigs,          \* the compiler's table of signatures, g_funcsigs
          Chars,         \* [symbol -> its characters]
          Modulefield(_, _, _),  \* the next field of a text, added to a module: parse_modulefield
          Contents(_, _), Sound(_) \* what a runtime finds in a section of a binary, and whether its sections are well made

VARIABLES pc, wat,                  \* the module to be written
          text, read, sigs,         \* its text, and the module and signatures read from it
          bin, next, out            \* the binary side: wasm_module_t, next field, bytes
vars == <<pc, wat, text, read, sigs, bin, next, out>>

-----------------------------------------------------------------------------
(* Bytes.                                                                  *)

RECURSIVE WasmUnsigned(_)
WasmUnsigned(n) == IF n < 128 THEN <<n>> ELSE <<128 + (n % 128)>> \o WasmUnsigned(n \div 128)

RECURSIVE WasmSigned(_)
WasmSigned(n) ==
  LET b == n % 128
      rest == n \div 128
      more == ~((rest = 0 /\ b < 64) \/ (rest = -1 /\ b >= 64))
  IN  IF more THEN <<b + 128>> \o WasmSigned(rest) ELSE <<b>>

\* The n bytes of a number, least first.
RECURSIVE LittleEndian(_, _)
LittleEndian(v, n) == IF n = 0 THEN <<>> ELSE <<v % 256>> \o LittleEndian(v \div 256, n - 1)
WasmName(s) == WasmUnsigned(Len(Chars[s])) \o Chars[s]

RECURSIVE WasmIn(_)
WasmIn(op) == IF op < 256 THEN <<op>> ELSE WasmIn(op \div 256) \o <<op % 256>>

WasmArgs(c) ==
  CASE Sig(c.in) = "NONE" -> IF c.in \in {"memory_size", "memory_fill"} THEN WasmUnsigned(0)
                             ELSE IF c.in = "memory_copy" THEN WasmUnsigned(0) \o WasmUnsigned(0) ELSE <<>>
    [] Sig(c.in) \in {"BT", "L", "XL", "XG", "RF"} -> WasmUnsigned(c.u)
    [] Sig(c.in) \in {"I32", "I64"} -> WasmSigned(c.u)
    [] Sig(c.in) = "CI" -> WasmUnsigned(c.u) \o WasmUnsigned(c.u2)
    [] Sig(c.in) = "F32" -> LittleEndian(c.u, 4)
    [] Sig(c.in) = "F64" -> LittleEndian(c.u, 8)
    [] Sig(c.in) = "I128" -> LittleEndian(c.u, 8) \o LittleEndian(c.u2, 8)
    [] Sig(c.in) = "MEMARG" -> WasmUnsigned(c.u2) \o WasmUnsigned(c.u)
    [] Sig(c.in) = "LANEIDX" -> <<c.u % 256>>
    [] Sig(c.in) = "MEMARG_LANEIDX" -> WasmUnsigned(c.u3) \o WasmUnsigned(c.u2) \o <<c.u % 256>>

\* Instructions; br_table writes the depths of the u + 1 branches after it.
RECURSIVE WasmExpr(_)
WasmExpr(code) ==
  IF code = <<>> THEN <<>>
  ELSE LET c == Head(code)
           n == IF Sig(c.in) = "LS_L" THEN c.u + 1 ELSE 0
       IN  WasmIn(Opcode[c.in])
             \o (IF n = 0 THEN WasmArgs(c)
                 ELSE WasmUnsigned(c.u) \o FlattenSeq([k \in 1..n |-> WasmUnsigned(code[k + 1].u)]))
             \o WasmExpr(SubSeq(code, n + 2, Len(code)))

\* A section of elements; with no element counted, a body brings its own count.
Section(si, count, body) ==
  LET b == IF count > 0 \/ body = <<>> THEN WasmUnsigned(count) \o body ELSE body
  IN  <<si>> \o WasmUnsigned(Len(b)) \o b
SectionOf(si, elems) == Section(si, Len(elems), FlattenSeq(elems))
Each(s, W(_)) == [i \in DOMAIN s |-> W(s[i])]
Vec(elems) == WasmUnsigned(Len(elems)) \o FlattenSeq(elems)

Imported(es) == SelectSeq(es, LAMBDA e : e.imported)
Defined(es) == SelectSeq(es, LAMBDA e : ~e.imported)
MemType(e) == IF e.max THEN <<1>> \o WasmUnsigned(e.n) \o WasmUnsigned(e.m) ELSE <<0>> \o WasmUnsigned(e.n)
GlobalType(e) == <<e.vt, IF e.var THEN 1 ELSE 0>>

WasmTypes == SectionOf(1, Each(bin.funcsigs, LAMBDA f :
  <<96>> \o Vec(Each(f.par, LAMBDA t : <<t>>)) \o Vec(Each(f.res, LAMBDA t : <<t>>))))

WasmImports ==
  LET Named(e) == WasmName(e.mod) \o WasmName(e.name)
  IN  SectionOf(2, Each(Imported(bin.funcdefs), LAMBDA e : Named(e) \o <<0>> \o WasmUnsigned(e.fsi))
                \o Each(Imported(bin.tabdefs), LAMBDA e : Named(e) \o <<1, e.vt>> \o MemType(e))
                \o Each(Imported(bin.memdefs), LAMBDA e : Named(e) \o <<2>> \o MemType(e))
                \o Each(Imported(bin.globdefs), LAMBDA e : Named(e) \o <<3>> \o GlobalType(e)))

WasmFuncs == SectionOf(3, Each(Defined(bin.funcdefs), LAMBDA e : WasmUnsigned(e.fsi)))
WasmTables == SectionOf(4, Each(Defined(bin.tabdefs), LAMBDA e : <<e.vt>> \o MemType(e)))
WasmMems == SectionOf(5, Each(Defined(bin.memdefs), MemType))
WasmGlobals == SectionOf(6, Each(Defined(bin.globdefs), LAMBDA e : GlobalType(e) \o WasmExpr(e.code)))

\* Exports by name, with the index the entry has in its table.
WasmExports ==
  LET At0(es, kind) == [i \in DOMAIN es |->
        IF es[i].exported THEN <<WasmName(es[i].name) \o <<kind>> \o WasmUnsigned(i - 1)>> ELSE <<>>]
  IN  SectionOf(7, FlattenSeq(At0(bin.tabdefs, 1) \o At0(bin.memdefs, 2) \o At0(bin.globdefs, 3) \o At0(bin.funcdefs, 0)))

\* No entry is ever marked isstart: there is no start section.
WasmStart == LET i == Position(bin.funcdefs, LAMBDA e : e.isstart)
             IN  IF i = 0 THEN <<>> ELSE Section(8, 0, WasmUnsigned(i - 1))

WasmElems == SectionOf(9, Each(bin.elemdefs, LAMBDA s :
  <<0>> \o WasmExpr(s.code) \o Vec(Each(s.fidxs, WasmUnsigned))))

\* The types of locals, in runs: <<how many, of which type>>.
Runs(types) == FoldLeft(LAMBDA runs, t :
  IF runs # <<>> /\ runs[Len(runs)][2] = t
  THEN [runs EXCEPT ![Len(runs)][1] = @ + 1] ELSE Append(runs, <<1, t>>), <<>>, types)

WasmCodes == SectionOf(10, Each(Defined(bin.funcdefs), LAMBDA e :
  LET body == Vec(Each(Runs(e.loctypes), LAMBDA r : WasmUnsigned(r[1]) \o <<r[2]>>)) \o WasmExpr(e.code)
  IN  WasmUnsigned(Len(body)) \o body))

WasmDatas == SectionOf(11, Each(bin.datadefs, LAMBDA s :
  <<0>> \o WasmExpr(s.code) \o WasmUnsigned(Len(s.data)) \o s.data))

WasmHeader == <<0, 97, 115, 109, 1, 0, 0, 0>>
WriteWasmModule == WasmHeader \o WasmTypes \o WasmImports \o WasmFuncs \o WasmTables \o WasmMems
  \o WasmGlobals \o WasmExports \o WasmStart \o WasmElems \o WasmCodes \o WasmDatas

-----------------------------------------------------------------------------
(* Names to indices.  A name that is not found ends the program; a linked   *)
(* module has none, and the model leaves -1, which no instruction can have.  *)

LookupIdx(entries, mod, id) == Position(entries, LAMBDA e : e.mod = mod /\ e.name = id) - 1
LookupVarIdx(code, id) == Position(Regs(code), LAMBDA r : r.id = id) - 1

\* Mutant: labels are searched from the outermost block.
LookupLabel_Outermost(labels, id) ==
  IF \E i \in DOMAIN labels : labels[i] = id
  THEN Len(labels) - Position(labels, LAMBDA l : l = id) ELSE -1
\* labels is the stack of enclosing blocks, innermost last.
LookupLabel(labels, id) ==
  IF \E i \in DOMAIN labels : labels[i] = id
  THEN Len(labels) - SelectLastInSeq(labels, LAMBDA l : l = id) ELSE -1

\* One instruction patched: conversion state k has labels, code and signatures.
Patched(k, c, source) ==
  LET d == [c EXCEPT !.id = "", !.mod = ""]
      named == c.id # "" /\ c.mod # ""
      Put(n) == [k EXCEPT !.code = Append(@, [d EXCEPT !.u = n])]
  IN  CASE c.in = "end" -> [Put(c.u) EXCEPT !.labels = Front(@)]
        [] Sig(c.in) = "BT" -> [Put(c.u) EXCEPT !.labels = Append(@, c.id)]
        [] Sig(c.in) = "XL" /\ c.id # "" -> Put(LookupVarIdx(source, c.id))
        [] Sig(c.in) = "XG" /\ c.in # "call" /\ named -> Put(LookupIdx(bin.globdefs, c.mod, c.id))
        [] (c.in = "call" \/ Sig(c.in) = "RF") /\ named -> Put(LookupIdx(bin.funcdefs, c.mod, c.id))
        [] Sig(c.in) = "L" -> Put(LookupLabel(k.labels, c.id))
        [] Sig(c.in) = "I32" -> Put(SignExtended(c.u))
        [] Sig(c.in) = "CI" ->
             LET known == FsIntern(k.funcsigs, Sigs[c.u + 1])
             IN  [Put(FsIndex(known, Sigs[c.u + 1])) EXCEPT !.funcsigs = known]
        [] OTHER -> Put(c.u)

\* wat_to_wasm_code: the first declarations are the parameters, the others locals.
WatToWasmCode(code, parc) ==
  LET regs == Regs(code)
      k == FoldLeft(LAMBDA acc, c : Patched(acc, c, code),
                    [labels |-> <<>>, code |-> <<>>, funcsigs |-> bin.funcsigs],
                    SubSeq(code, Len(regs) + 1, Len(code)))
  IN  [loctypes |-> [i \in 1..Len(regs) - parc |-> regs[parc + i].u],
       code |-> Append(k.code, Ins("end")), funcsigs |-> k.funcsigs]

\* wat_to_wasm_ie: a table entry for each imported or exported field.
Entry(f, import) ==
  [ mod |-> f.mod, name |-> f.id, imported |-> import, exported |-> ~import /\ f.exported,
    isstart |-> FALSE, fsi |-> 0, vt |-> IF f.iek = "table" THEN FUNCREF ELSE f.vt, var |-> f.var,
    max |-> f.max, n |-> f.n, m |-> f.m, loctypes |-> <<>>,
    code |-> IF f.iek = "global" THEN <<[f.ic EXCEPT !.id = ""], Ins("end")>> ELSE <<>> ]

\* The code asserts that a global, imported or not, starts with a number; the reader gives an
\* imported one none.  After a failed assertion nothing goes on.
Numbers == {"i32_const", "i64_const", "f32_const", "f64_const"}
Entered(b, f, import) ==
  LET e == Entry(f, import)
      known == FsIntern(b.funcsigs, [par |-> f.par, res |-> f.res])
  IN  CASE b.aborted -> b
        [] f.iek = "func" ->
             [b EXCEPT !.funcsigs = known,
                       !.funcdefs = Append(@, [e EXCEPT !.fsi = FsIndex(known, [par |-> f.par, res |-> f.res])])]
        [] f.iek = "table" -> [b EXCEPT !.tabdefs = Append(@, e)]
        [] f.iek = "memory" -> [b EXCEPT !.memdefs = Append(@, e)]
        [] f.iek = "global" -> IF f.ic.in \in Numbers THEN [b EXCEPT !.globdefs = Append(@, e)] ELSE [b EXCEPT !.aborted = TRUE]
        [] OTHER -> b
WatToWasmIe(b, fields, import) == FoldLeft(LAMBDA acc, f : Entered(acc, f, import), b, fields)

EmptyBin == [aborted |-> FALSE, funcsigs |-> <<>>, funcdefs |-> <<>>, tabdefs |-> <<>>, memdefs |-> <<>>,
             globdefs |-> <<>>, elemdefs |-> <<>>, datadefs |-> <<>>]

-----------------------------------------------------------------------------
Nothing == [name |-> "", imports |-> <<>>, exports |-> <<>>, main |-> "absent"]
Init == /\ \/ pc = "write text" /\ wat \in Objects
           \/ pc = "imports" /\ wat \in Programs
        /\ text = <<>> /\ read = Nothing /\ sigs = <<>> /\ bin = EmptyBin /\ next = 1 /\ out = <<>>

WriteText == /\ pc = "write text" /\ pc' = "read text"
             /\ text' = WriteWatModule(wat, Sigs)
             /\ UNCHANGED <<wat, read, sigs, bin, next, out>>

\* parse_module: the name, then the fields, then the end; an error ends the program.
ReadName == /\ pc = "read text"
            /\ LET s == Expects(text, <<"(", "module">>)
               IN  /\ pc' = IF IsId(s) THEN "read fields" ELSE "refused"
                   /\ read' = [read EXCEPT !.name = At(s).s]
                   /\ text' = After(s, IsId(s))
            /\ UNCHANGED <<wat, sigs, bin, next, out>>

ReadField == /\ pc = "read fields" /\ ~Ahead(text, ")")
             /\ LET r == Modulefield(read, text, sigs)
                IN  /\ read' = r.m /\ sigs' = r.sigs /\ text' = r.s
                    /\ pc' = IF r.s = <<>> THEN "refused" ELSE pc
             /\ UNCHANGED <<wat, bin, next, out>>

EndRead == /\ pc = "read fields" /\ Ahead(text, ")") /\ pc' = "read"
           /\ text' = Tail(text) /\ UNCHANGED <<wat, read, sigs, bin, next, out>>

ConvertFields == /\ \/ /\ pc = "imports" /\ bin' = WatToWasmIe(bin, wat.imports, TRUE)
                       /\ pc' = IF bin'.aborted THEN "aborted" ELSE "exports"
                    \/ /\ pc = "exports" /\ bin' = WatToWasmIe(bin, wat.exports, FALSE)
                       /\ pc' = IF bin'.aborted THEN "aborted" ELSE "convert"
                 /\ UNCHANGED <<wat, text, read, sigs, next, out>>

\* The next exported field: code, elements or data; fi counts functions after the imported ones.
Fi == Len(Of(wat.imports, "func")) + Len(Of(SubSeq(wat.exports, 1, next), "func"))
Converted(f) ==
  LET k == WatToWasmCode(f.code, Len(f.par))
  IN  CASE f.iek = "func" -> [bin EXCEPT !.funcsigs = k.funcsigs, !.funcdefs[Fi].loctypes = k.loctypes,
                                         !.funcdefs[Fi].code = k.code]
        [] f.iek = "table" -> [bin EXCEPT !.elemdefs = Append(@,
             [code |-> <<InsN("i32_const", 1), Ins("end")>>,
              fidxs |-> [j \in DOMAIN f.table |-> LookupIdx(bin.funcdefs, f.table[j].mod, f.table[j].id)]])]
        [] f.iek = "data" -> [bin EXCEPT !.datadefs = Append(@,
             [code |-> <<[f.ic EXCEPT !.id = ""], Ins("end")>>, data |-> f.data])]
        [] OTHER -> bin
ConvertField == /\ pc = "convert" /\ next <= Len(wat.exports)
                /\ bin' = Converted(wat.exports[next]) /\ next' = next + 1
                /\ UNCHANGED <<pc, wat, text, read, sigs, out>>

WriteBinary == /\ pc = "convert" /\ next > Len(wat.exports) /\ pc' = "written"
               /\ out' = WriteWasmModule
               /\ UNCHANGED <<wat, text, read, sigs, bin, next>>

Next == \/ WriteText \/ ReadName \/ ReadField \/ EndRead
        \/ ConvertFields \/ ConvertField \/ WriteBinary
Spec == Init /\ [][Next]_vars

-----------------------------------------------------------------------------
(* What the reader of an object file must find.                            *)

\* Code with signatures in place of their indices, and constants by value.
Meant(code, table) == [i \in DOMAIN code |->
  LET c == code[i] IN
  CASE Sig(c.in) = "CI" -> <<Ins(c.in), table[c.u + 1]>>
    [] Sig(c.in) = "I32" -> <<[c EXCEPT !.u = SignExtended(c.u)]>>
    [] OTHER -> <<c>>]
MeantField(f, table) == [f EXCEPT !.code = Meant(f.code, table)]
MeantFields(fs, table) == [i \in DOMAIN fs |-> MeantField(fs[i], table)]
Kinds == <<"memory", "global", "data", "func">>

\* An object module written as text is accepted by the link that reads it and is
\* the same module, its fields in the order of their kinds, with the same main.
TextReadsBack ==
  /\ pc # "refused"
  /\ pc = "read" =>
       /\ read.name = wat.name /\ read.imports = wat.imports /\ read.main = wat.main
       /\ MeantFields(read.exports, sigs)
            = MeantFields(FlattenSeq([k \in DOMAIN Kinds |-> Of(wat.exports, Kinds[k])]), Sigs)

-----------------------------------------------------------------------------
(* What a WebAssembly runtime finds in the binary.                         *)

D(id) == Contents(out, id)

\* Sections come in order, every length is that of the bytes it announces, and
\* no byte is left over.
BinaryFramed == pc = "written" => Sound(out) /\ \A i \in DOMAIN D(10) : D(10)[i].sized

Funcs == Of(wat.exports, "func")
FuncSpace == Of(wat.imports, "func") \o Funcs
GlobalSpace == Of(wat.exports, "global")
IsNamed(space, i, c) == i + 1 \in DOMAIN space /\ space[i + 1].mod = c.mod /\ space[i + 1].id = c.id
HasType(i, sig) == i + 1 \in DOMAIN D(1) /\ D(1)[i + 1].par = sig.par /\ D(1)[i + 1].res = sig.res /\ D(1)[i + 1].form = 96

\* The blocks open before position j, outermost first.
Opened(code, j) == FoldLeft(LAMBDA open, i :
  CASE Sig(code[i].in) = "BT" -> Append(open, i)
    [] code[i].in = "end" /\ open # <<>> -> Front(open)
    [] OTHER -> open, <<>>, [i \in 1..j - 1 |-> i])

\* Decoded code with br_table followed by its branches, as in the module.
Spread(code) == FlattenSeq([i \in DOMAIN code |->
  IF code[i].in # "br_table" THEN <<code[i]>>
  ELSE LET ls == Append(code[i].args[1], code[i].args[2])
       IN  <<[in |-> "br_table", args |-> <<Len(ls) - 1>>]>> \o [k \in DOMAIN ls |-> [in |-> "br", args |-> <<ls[k]>>]]])

\* The branch at j goes to the innermost enclosing block of its name.
Targets(source, j, depth) ==
  LET open == Opened(source, j)
      k == Len(open) - depth
  IN  /\ k \in DOMAIN open /\ source[open[k]].id = source[j].id
      /\ \A x \in DOMAIN open : x > k => source[open[x]].id # source[j].id

Says(source, regs, j, d) ==
  LET c == source[j]
      a == d.args
  IN  /\ d.in = c.in
      /\ CASE Sig(c.in) = "L" -> Targets(source, j, a[1])
           [] Sig(c.in) = "XL" -> a[1] + 1 \in DOMAIN regs /\ regs[a[1] + 1].id = c.id
           [] c.in = "call" \/ Sig(c.in) = "RF" -> IsNamed(FuncSpace, a[1], c)
           [] c.in \in {"global_get", "global_set"} -> IsNamed(GlobalSpace, a[1], c)
           [] Sig(c.in) = "CI" -> HasType(a[1], Sigs[c.u + 1]) /\ a[2] = 0
           [] Sig(c.in) = "I32" -> a[1] = SignExtended(c.u)
           [] Sig(c.in) \in {"I64", "BT", "F32", "F64", "LANEIDX", "LS_L"} -> a[1] = c.u
           [] Sig(c.in) = "MEMARG" -> a = <<c.u2, c.u>>
           [] Sig(c.in) = "I128" -> a = <<c.u, c.u2>>
           [] Sig(c.in) = "MEMARG_LANEIDX" -> SubSeq(a, 1, 2) = <<c.u3, c.u2>> /\ (Len(a) = 3 => a[3] = c.u)
           [] OTHER -> \A i \in DOMAIN a : a[i] = 0

SaysAll(source, regs, code) ==
  LET ds == Spread(code)
  IN  /\ Len(ds) = Len(source) + 1 /\ ds[Len(ds)].in = "end"
      /\ \A j \in DOMAIN source : Says(source, regs, j, ds[j])

\* Every function of the program has in the binary its type, its locals and its
\* code, where labels, locals, functions, globals and types are numbers again.
CodeMeans == pc = "written" =>
  /\ Len(D(10)) = Len(Funcs) /\ Len(D(3)) = Len(Funcs)
  /\ \A i \in DOMAIN Funcs :
       LET f == Funcs[i]
           regs == Regs(f.code)
       IN  /\ HasType(D(3)[i], f)
           /\ f.par \o FlattenSeq(Each(D(10)[i].locals, LAMBDA l : [k \in 1..l[1] |-> l[2]])) = Each(regs, LAMBDA r : r.u)
           /\ SaysAll(SubSeq(f.code, Len(regs) + 1, Len(f.code)), regs, D(10)[i].code)

Limit(f) == IF f.max THEN <<f.n, f.m>> ELSE <<f.n>>
GlobalOf(f) == <<f.vt, IF f.var THEN 1 ELSE 0>>

\* A decoded import or export against the field it must stand for.
IsImport(i, f) ==
  /\ i[1] = <<Chars[f.mod], Chars[f.id]>>
  /\ CASE f.iek = "func" -> i[2][1] = 0 /\ HasType(i[2][2], f)
       [] f.iek = "memory" -> i[2] = <<2, Limit(f)>>
KindCode == [func |-> 0, table |-> 1, memory |-> 2, global |-> 3]
Space(iek) == Of(wat.imports, iek) \o Of(wat.exports, iek)

\* Imports, exports, table, memory, globals and data of the binary are the program's.
FieldsMean == pc = "written" =>
  /\ LET is == Of(wat.imports, "func") \o Of(wat.imports, "memory")
     IN  Len(D(2)) = Len(is) /\ \A i \in DOMAIN is : IsImport(D(2)[i], is[i])
  /\ {<<e[1], e[2]>> : e \in ToSet(D(7))}
       = UNION {{<<Chars[Space(k)[i].id], <<KindCode[k], i - 1>>>> : i \in {x \in DOMAIN Space(k) : Space(k)[x].exported}}
                : k \in DOMAIN KindCode}
  /\ D(4) = Each(Of(wat.exports, "table"), LAMBDA f : <<FUNCREF, Limit(f)>>)
  /\ D(5) = Each(Of(wat.exports, "memory"), Limit)
  /\ LET gs == Of(wat.exports, "global")
     IN  Len(D(6)) = Len(gs) /\ \A i \in DOMAIN gs : D(6)[i][1] = GlobalOf(gs[i]) /\ SaysAll(<<gs[i].ic>>, <<>>, D(6)[i][2])
  /\ LET ts == Of(wat.exports, "table")
     IN  \A i \in DOMAIN ts : \A j \in DOMAIN ts[i].table : IsNamed(FuncSpace, D(9)[i][2][2][j], ts[i].table[j])
  /\ LET ds == Of(wat.exports, "data")
     IN  Len(D(11)) = Len(ds) /\ \A i \in DOMAIN ds : SaysAll(<<ds[i].ic>>, <<>>, D(11)[i][2][1]) /\ D(11)[i][2][2] = ds[i].data

\* No binary comes of a program that imports a global, and of every other one does.
ConvertsTheOthers == LET imports == Of(wat.imports, "global") # <<>>
                     IN  /\ pc = "aborted" => imports
                         /\ pc \in {"exports", "convert", "written"} => ~imports

\* A program without imported globals is converted, and the binary that is written (write_wasm_module
\* after wat_to_wasm) means what it says: its sections are well framed, and its code and its fields
\* are the program's.
BinaryMeans == ConvertsTheOthers /\ BinaryFramed /\ CodeMeans /\ FieldsMean
=============================================================================
