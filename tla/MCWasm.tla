------------------------------- MODULE MCWasm -------------------------------
(* Object modules and programs put together from a few fields and bodies.   *)
EXTENDS Wasm

MCSigs == << [par |-> <<>>, res |-> <<>>], [par |-> <<I32>>, res |-> <<I32>>],
             [par |-> <<I32, F64>>, res |-> <<>>] >>
\* "memory" is longer than a name, and a long one needs two bytes for its length.
MCChars == [s \in {"env", "main", "f", "g", "h", "x", "y", "t"} |->
  CASE s = "env" -> <<101, 110, 118>> [] s = "main" -> [i \in 1..130 |-> 109]
    [] OTHER -> <<CASE s = "f" -> 102 [] s = "g" -> 103 [] s = "h" -> 104 [] s = "x" -> 120 [] s = "y" -> 121 [] OTHER -> 116>>]

Reg(id, t) == [InsId("reg", id) EXCEPT !.u = t]
Block(in, id) == [InsId(in, id) EXCEPT !.u = VOID]
End(id) == InsId("end", id)
Call(mod, id) == InsMod("call", mod, id)

\* Blocks with the same name inside each other, and branches to each of them.
Branches == << Block("block", "a"), Block("loop", "b"), Block("block", "a"), InsId("br", "a"), InsId("br_if", "b"), End("a"),
  Block("if", ""), InsId("br", "a"), Ins("else"), InsN("br_table", 2), InsId("br", "b"), InsId("br", "a"), InsId("br", "b"),
  Ins("end"), End("b"), InsId("br_if", "a"), End("a") >>
Constant(in, n) == <<InsN(in, n), Ins("drop")>>
Typed == << InsN("if", I32), InsN("i32_const", 1), Ins("else"), InsN("i32_const", 0), Ins("end"), Ins("drop") >>
Memory == << [InsN("i32_load", 300) EXCEPT !.u2 = 2], InsN("i64_store32", 0), Ins("memory_size"), Ins("memory_copy"), Ins("memory_fill"),
  InsN("f32_const", 70000), InsN("f64_const", 5), [InsN("v128_const", 3) EXCEPT !.u2 = 258], InsN("i8x16_extract_lane_u", 15),
  [InsN("v128_load8_lane", 7) EXCEPT !.u2 = 130, !.u3 = 0], Ins("i32x4_add"), Ins("unreachable") >>
Calls(mod) == << Call("env", "f"), InsN("call_indirect", 2), Call(mod, "g"), InsN("call_indirect", 1), InsMod("global_get", mod, "x"),
  InsMod("global_set", mod, "y"), InsMod("ref_func", mod, "h"), Ins("return") >>

Consts == {0, 63, 64, 127, 128, 255, -1, -64, -65, -128}
Bodies(mod) == {Branches, Typed, Memory, Calls(mod), Branches \o Calls(mod) \o Typed}
  \cup {Constant("i32_const", n) : n \in Consts} \cup {Constant("i64_const", n) : n \in Consts \cup {8191, 8192, -8192, -8193}}

Locals == {<<>>, <<Reg("l", I32), Reg("m", I32), Reg("n", F64), Reg("o", I32)>>}
Func(mod, id, sig, locals, body) ==
  LET pars == [i \in DOMAIN sig.par |-> Reg(IF i = 1 THEN "p" ELSE "q", sig.par[i])]
      regs == pars \o locals
      uses == [i \in DOMAIN regs |-> InsId(IF i = 1 THEN "local_tee" ELSE "local_get", regs[i].id)]
  IN  [Field("func", mod, id) EXCEPT !.par = sig.par, !.res = sig.res, !.exported = id # "g", !.code = regs \o uses \o body]
Main(mod, sig, body) == Func(mod, "main", sig, <<>>, body)

ImportFunc == [Field("func", "env", "f") EXCEPT !.par = <<I32>>, !.res = <<I32>>]
ImportGlobal == [Field("global", "env", "y") EXCEPT !.vt = I32, !.var = TRUE]
ImportMem == [Field("memory", "env", "t") EXCEPT !.n = 2, !.m = 200, !.max = TRUE]
Global(mod) == [Field("global", mod, "x") EXCEPT !.vt = F64, !.ic = InsN("f64_const", 9), !.exported = TRUE]
GlobalVar(mod) == [Field("global", mod, "y") EXCEPT !.vt = I32, !.var = TRUE, !.ic = InsN("i32_const", -7)]
Mem(mod, max) == [Field("memory", mod, "t") EXCEPT !.n = 2, !.m = IF max THEN 200 ELSE 0, !.max = max, !.exported = max]

\* Object modules: data by name, with references.
Data(d, refs) == [Field("data", "h", "t") EXCEPT !.align = 4, !.var = refs # <<>>, !.data = d, !.code = refs, !.exported = refs = <<>>]
Refs == << InsMod("ref_data", "h", "y"), InsN("data_put_ref", 4), [InsMod("ref_data", "env", "y") EXCEPT !.u = 8], InsN("data_put_ref", 0) >>
ImportData == [Field("data", "env", "y") EXCEPT !.align = 8, !.n = 16, !.var = TRUE]
MCObjects ==
  { [name |-> "h", imports |-> is, main |-> main,
     exports |-> <<Func("h", "g", MCSigs[3], <<>>, body), d>> \o es
        \o IF main = "absent" THEN <<>> ELSE <<Main("h", IF main = "void" THEN [par |-> <<>>, res |-> <<I32>>]
                                                        ELSE [par |-> <<I32, I32>>, res |-> <<I32>>], <<>>)>>] :
    is \in {<<>>, <<ImportFunc, ImportData>>, <<ImportGlobal, ImportMem, Mem("env", FALSE)>>},
    main \in {"absent", "void", "argc_argv"}, body \in Bodies("h"),
    d \in {Data(<<0, 0, 0>>, <<>>), Data(<<>>, <<>>), Data(<<0, 1>>, Refs)},
    es \in {<<>>, <<GlobalVar("h"), Func("h", "h", MCSigs[1], <<Reg("l", I32)>>, Typed), Global("h"), Mem("h", FALSE)>>} }

\* Linked programs: data by address, and a table.
Table == [Field("table", "", "") EXCEPT !.n = 3, !.m = 3, !.max = TRUE,
  !.table = <<[mod |-> "main", id |-> "h"], [mod |-> "env", id |-> "f"]>>]
DataAt(a, d) == [Field("data", "", "") EXCEPT !.ic = InsN("i32_const", a), !.data = d]
Linked(is, es) == [name |-> "", imports |-> is, main |-> "absent", exports |-> es]
MCPrograms ==
  {Linked(<<ImportFunc, ImportGlobal>>, <<Func("main", "h", MCSigs[2], <<>>, Calls("env")), Global("main")>>)} \cup
  { Linked(is, LET fs == <<Func("main", "h", MCSigs[2], locals, body), Global("main"), GlobalVar("main")>> \o es
               IN  IF early THEN <<Func("main", "g", MCSigs[1], <<>>, Typed)>> \o fs
                   ELSE fs \o <<Func("main", "g", MCSigs[1], <<>>, Typed)>>) :
    is \in {<<ImportFunc>>, <<ImportFunc, [ImportFunc EXCEPT !.id = "h", !.par = <<>>]>>},
    locals \in Locals, body \in Bodies("main"), early \in BOOLEAN,
    es \in {<<>>, <<Table, Mem("main", TRUE)>>, <<DataAt(100, <<1, 0, 255>>), Mem("main", FALSE), DataAt(64, [i \in 1..129 |-> 3])>>} }

\* A program that loads one lane of a vector and clears the others.
MCNoObjects == {}
MCZeroPrograms == {[name |-> "", imports |-> <<>>, main |-> "absent", exports |->
  <<Func("main", "g", MCSigs[1], <<>>, <<InsN("i32_const", 0), [Ins("v128_load32_zero") EXCEPT !.u3 = 2], Ins("drop")>>)>>]}

Runtime == INSTANCE WasmFormat
\* By LET: TLC counts the evaluations of every expression, but does not look below a LET,
\* and the calls of a reader below each other are too many to tell apart.
MCModulefield(module, text0, signatures) == LET r == ParseModulefield(module, text0, signatures) IN r
MCContents(bytes, id) == LET section == Runtime!Decoded(bytes, id) IN section
MCSound(bytes) == LET framed == Runtime!Framed(bytes) IN framed
=============================================================================
