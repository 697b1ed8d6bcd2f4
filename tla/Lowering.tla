------------------------------ MODULE Lowering ------------------------------
(***************************************************************************)
(* From a function of C to one with the control and the variables of       *)
(* WebAssembly: the locals of inner blocks are hoisted and renamed, those  *)
(* in memory become fields of a frame, narrow ones are widened, and loops, *)
(* switches, breaks and returns become labelled blocks and gotos.          *)
(* A function is a fundef node of its type and its body.                   *)
(***************************************************************************)
EXTENDS ConstFold, TLC

Block(x) == Op("block", "", x)
EndLabelled_AtStart(l, x) == [Op("block", "CONTINUE", x) EXCEPT !.name = l]
EndLabelled(l, x) == [Op("block", "BREAK", x) EXCEPT !.name = l]
StartLabelled(l, x) == [Op("block", "CONTINUE", x) EXCEPT !.name = l]
Goto(l) == [Node("goto") EXCEPT !.name = l]
Cast(t, x) == Op("cast", "", <<t, x>>)
Deref(x) == Op("prefix", "*", <<x>>)
Dot(x, name) == [Op("postfix", ".", <<x>>) EXCEPT !.name = name]
Assign(lval, x) == Op("assign", "=", <<lval, x>>)
Intr(name, x) == Op("intrcall", name, x)
Error == Node("error")

\* rpalloc and rpalloc_label: names no other part of the function has; they come from the place in the tree.
Fresh(path, k) == k \o path
Below(path, i) == path \o "." \o ToString(i)

\* ------------------------------------------------- hoisting the locals
\* st: the locals hoisted so far and the parameters; he: the names in scope, and those of this block.
Addressed(decls, name) == [i \in DOMAIN decls |-> IF decls[i].name = name THEN [decls[i] EXCEPT !.op = "AUTO"] ELSE decls[i]]
Named(decls, name) == SelectSeq(decls, LAMBDA d : d.name = name)
\* The register class keeps a local out of memory, any class a parameter.
AddressTaken(st, name) ==
  LET local == Named(st.locals, name)
      par == Named(st.pars, name)
  IN  [st EXCEPT !.locals = IF local # <<>> /\ local[1].op # "REGISTER" THEN Addressed(@, name) ELSE @,
                 !.pars = IF local = <<>> /\ par # <<>> /\ par[1].op = "" THEN Addressed(@, name) ELSE @]
AddressRefused(st, name) == \E i \in DOMAIN st.locals : st.locals[i].name = name /\ st.locals[i].op = "REGISTER"

\* A variable declared in a block: it keeps its name unless the function has one like it already.
Hoisted(st, he, decl) ==
  LET taken == decl.name \in DOMAIN he.map \/ \E i \in DOMAIN st.locals : st.locals[i].name = decl.name
      name == IF taken THEN decl.name \o "#" \o ToString(Len(st.locals) + 1) ELSE decl.name
  IN  [n |-> <<>>, st |-> [st EXCEPT !.locals = Append(@, [decl EXCEPT !.name = name])],
       he |-> [map |-> (decl.name :> name) @@ he.map, own |-> he.own \cup {decl.name}]]

RECURSIVE expr_hoist_locals(_, _, _)
expr_hoist_locals(n, st, he) ==
  LET block == n.nt = "block"
      sub(a, m) ==
        IF block /\ m.nt = "vardecl"
          THEN LET h == Hoisted(a.st, a.he, m)
               IN  [n |-> a.n \o (IF m.name \in a.he.own THEN <<Error>> ELSE h.n), st |-> h.st, he |-> h.he]
          ELSE LET r == expr_hoist_locals(m, a.st, a.he) IN [n |-> Append(a.n, r.n), st |-> r.st, he |-> a.he]
      subs == FoldLeft(sub, [n |-> <<>>, st |-> st, he |-> IF block THEN [he EXCEPT !.own = {}] ELSE he], n.x)
      m == [n EXCEPT !.x = subs.n]
  IN  CASE n.nt = "identifier" -> [n |-> [n EXCEPT !.name = IF @ \in DOMAIN he.map THEN he.map[@] ELSE @], st |-> st]
        [] n.nt = "type" -> [n |-> n, st |-> st]
        [] n.nt = "vardecl" -> [n |-> Error, st |-> st]
        [] n.nt = "prefix" /\ n.op = "&" /\ m.x[1].nt = "identifier" ->
             LET name == m.x[1].name
             IN  [n |-> IF AddressRefused(subs.st, name) THEN Error ELSE m, st |-> AddressTaken(subs.st, name)]
        [] OTHER -> [n |-> m, st |-> subs.st]

fundef_hoist_locals(fd) ==
  LET pars == Tail(fd.x[1].x)
      names == {p.name : p \in Range(pars)}
      twice == \E i, j \in DOMAIN pars : i # j /\ pars[i].name = pars[j].name /\ pars[i].name # ""
      refused == IF twice THEN <<Error>> ELSE <<>>
      h == expr_hoist_locals(fd.x[2], [locals |-> <<>>, pars |-> pars], [map |-> [v \in names |-> v], own |-> {}])
  IN  [fd EXCEPT !.x = <<FunctionOf(fd.x[1].x[1], h.st.pars), [h.n EXCEPT !.x = h.st.locals \o refused \o @]>>]

Decls(body) == SelectSeq(body.x, LAMBDA n : n.nt = "vardecl")
Statements(body) == SelectSeq(body.x, LAMBDA n : n.nt # "vardecl")
\* The types of the parameters, the hoisted locals and the globals.
TypesOf(fd, globals) ==
  LET decls == Range(Tail(fd.x[1].x)) \cup Range(Decls(fd.x[2]))
  IN  [v \in {d.name : d \in decls} |-> [type |-> (CHOOSE d \in decls : d.name = v).x[1], global |-> FALSE]]
        @@ [v \in DOMAIN globals |-> [type |-> globals[v], global |-> TRUE]]

fundef_fold_constants(fd, globals) ==
  LET rib == TypesOf(fd, globals)
      fold(n) == IF n.nt = "vardecl" THEN n ELSE expr_fold_constants(n, rib)
  IN  [fd EXCEPT !.x[2].x = [i \in DOMAIN @ |-> fold(@[i])]]

\* ------------------------------------------- WebAssembly's conventions
\* vi_t: the register that holds a variable or points to its frame, its field there, and its narrow type.
Register(reg, cast) == [reg |-> reg, fld |-> "", cast |-> cast]
InFrame(name) == [reg |-> "fp$", fld |-> name, cast |-> "VOID"]
NarrowOf(ts) == IF ts \in Narrow \cup {"ENUM"} THEN ts ELSE "VOID"
Widened(t) == IF NarrowOf(t.ts) # "VOID" THEN [t EXCEPT !.ts = "INT"] ELSE t

IdentifierLowered_Wide(n, vib, globals) ==
  IF n.name \in DOMAIN vib /\ vib[n.name].fld # "" THEN Dot(Deref(Id(vib[n.name].reg)), vib[n.name].fld) ELSE n
IdentifierLowered(n, vib, globals) ==
  LET vi == vib[n.name]
      at == IF vi.fld # "" THEN Dot(Deref(Id(vi.reg)), vi.fld) ELSE Id(vi.reg)
      global == n.name \in DOMAIN globals /\ globals[n.name].ts \in Narrow
  IN  IF n.name \in DOMAIN vib THEN (IF vi.cast # "VOID" THEN Cast(Type(vi.cast), at) ELSE at)
      ELSE IF global THEN Cast(Type(globals[n.name].ts), n) ELSE n

\* case_cmp: the default first, the cases by their value; two that are neither before the other are refused.
CaseBefore(c1, c2) == c1.nt = "default" \/ (c2.nt # "default" /\ c1.x[1].val < c2.x[1].val)
CasesClash_Never(cs) == FALSE
CasesClash(cs) == \E i, j \in DOMAIN cs : i # j /\ cs[i].nt = cs[j].nt /\ (cs[i].nt = "case" => cs[i].x[1].val = cs[j].x[1].val)

\* env: vib, the types of the globals, and the labels in scope with what they are the target of.
RECURSIVE expr_wasmify(_, _, _)
expr_wasmify(n, env, path) ==
  LET in(i, e) == expr_wasmify(n.x[i], e, Below(path, i))
      sub(i) == in(i, env)
      subs == [n EXCEPT !.x = ForEach(sub, Len(@))]
      bl == Fresh(path, "b")   cl == Fresh(path, "c")   l == Fresh(path, "l")
      loop == [env EXCEPT !.labels = <<<<cl, "continue">>, <<bl, "break">>>> \o @]
      target(kind) == SelectSeq(env.labels, LAMBDA b : b[2] = kind)
      or(i, m) == IF n.x[i].nt = "null" THEN m ELSE sub(i)
      va == PtrTo([Type("UNION") EXCEPT !.name = "va_arg"])
  IN  CASE n.nt = "identifier" -> IdentifierLowered(n, env.vib, env.globals)
        [] n.nt = "type" -> n
        [] n.nt = "intrcall" /\ n.op = "alloca" -> n    \* no case of its own: what it is applied to stays as it is
        [] n.nt = "intrcall" /\ n.op = "va_etc" -> Cast(va, Id("ap$"))
        [] n.nt = "intrcall" /\ n.op = "va_arg" -> Deref(Cast(PtrTo(n.x[2]), Op("postfix", "++", <<n.x[1]>>)))
        [] n.nt = "intrcall" /\ n.op = "countof" /\ n.x[1].op = "va_etc" -> Dot(Op("subscript", "", <<sub(1), Lit("INT", -1)>>), "va_size")
        [] n.nt = "intrcall" /\ n.op = "offsetof" -> [n EXCEPT !.x[1] = sub(1)]
        [] n.nt = "postfix" /\ n.op = "->" ->
             LET m == sub(1)
             IN  Dot(IF m.nt = "prefix" /\ m.op = "&" THEN m.x[1] ELSE Deref(m), n.name)
        [] n.nt = "while" -> \* {{cl: if (x) {s; goto cl;}} bl:}
             EndLabelled(bl, <<StartLabelled(cl, <<Op("if", "", <<sub(1), Block(<<in(2, loop), Goto(cl)>>)>>)>>)>>)
        [] n.nt = "do" -> \* {{l: {s; cl:} if (x) goto l;} bl:}
             EndLabelled(bl, <<StartLabelled(l, <<EndLabelled(cl, <<in(1, loop)>>), Op("if", "", <<sub(2), Goto(l)>>)>>)>>)
        [] n.nt = "for" -> \* {x; {l: if (!y) goto bl; {s; cl:} z; goto l;} bl:}
             EndLabelled(bl, << or(1, Block(<<>>)),
               StartLabelled(l, << Op("if", "", <<Op("prefix", "!", <<or(2, Lit("INT", 1))>>), Goto(bl)>>),
                                   EndLabelled(cl, <<in(4, loop)>>), or(3, Block(<<>>)), Goto(l) >>) >>)
        [] n.nt = "switch" -> \* {{..{switch (x) case c1: goto l1; ...; goto bl; l1:} s1 l2:} s2 ...} bl:}
             LET label(i) == Fresh(path, "l" \o ToString(i))
                 clause(i) == in(i, [env EXCEPT !.labels = <<<<bl, "break">>>> \o @])
                 is == [i \in 1..Len(n.x) - 1 |-> i + 1]
                 guard(i) == LET m == clause(i) IN [m EXCEPT !.x = (IF m.nt = "case" THEN <<m.x[1]>> ELSE <<>>) \o <<Goto(label(i))>>]
                 body(i) == LET m == clause(i) IN IF m.nt = "case" THEN Tail(m.x) ELSE m.x
                 guards == SortSeq(ForEach(LAMBDA k : guard(k + 1), Len(is)), CaseBefore)
                 default == IF guards # <<>> /\ guards[1].nt = "default" THEN <<>> ELSE <<Op("default", "", <<Goto(bl)>>)>>
                 nest(m, i) == Block(<<[m EXCEPT !.name = label(i), !.op = "BREAK"]>> \o body(i))
             IN  IF CasesClash(guards) THEN Error
                 ELSE [FoldLeft(nest, Block(<<[n EXCEPT !.x = <<sub(1)>> \o default \o guards]>>), is) EXCEPT !.name = bl, !.op = "BREAK"]
        [] n.nt = "case" ->
             LET v == arithmetic_eval_to_int(n.x[1], <<>>)
             IN  [subs EXCEPT !.x[1] = IF v.ts = "INT" THEN Lit("INT", v.val) ELSE Error]
        [] n.nt = "goto" -> IF <<n.name, "block">> \in Range(env.labels) THEN n ELSE Error
        [] n.nt \in {"break", "continue"} -> IF target(n.nt) = <<>> THEN Error ELSE Goto(target(n.nt)[1][1])
        [] n.nt = "return" ->
             LET back == [n EXCEPT !.name = IF "bp$" \in DOMAIN env.vib THEN "bp$" ELSE ""]
             IN  IF "rp$" \in DOMAIN env.vib
                   THEN IF n.x = <<>> THEN Error ELSE Block(<<Assign(Deref(Id("rp$")), sub(1)), [back EXCEPT !.x = <<>>]>>)
                   ELSE [back EXCEPT !.x = subs.x]
        [] n.nt = "block" /\ n.name # "" ->
             LET inner == [env EXCEPT !.labels = <<<<n.name, "block">>>> \o @]
             IN  [n EXCEPT !.x = ForEach(LAMBDA i : in(i, inner), Len(@))]
        [] OTHER -> subs

RECURSIVE contains_alloca(_)
contains_alloca(n) == (n.nt = "intrcall" /\ n.op = "alloca") \/ (n.nt # "type" /\ \E i \in DOMAIN n.x : contains_alloca(n.x[i]))

EndsInReturn(ns) == ns # <<>> /\ Last(ns).nt = "return"

fundef_wasmify(fd, globals) ==
  LET ret == fd.x[1].x[1]
      bulk == ret.ts \in ts_bulk
      \* a parameter whose address is taken comes in under another name and is copied to the frame
      moved(p) == p.op = "AUTO" /\ p.x[1].ts # "ETC"
      Par(p) == IF p.x[1].ts = "ETC" THEN VarDecl("ap$", PtrTo(Type("ULLONG")))
                ELSE VarDecl(IF moved(p) THEN p.name \o "#" ELSE p.name, Widened(p.x[1]))
      given == Tail(fd.x[1].x)
      pars == [i \in DOMAIN given |-> Par(given[i])]
      copied == SelectSeq(given, moved)
      \* function arguments of these types are not supported
      refused == IF \E i \in DOMAIN given : given[i].x[1].ts \in ts_bulk \cup {"FUNCTION"} THEN <<Error>> ELSE <<>>
      copies == [i \in DOMAIN copied |-> Assign(Id(copied[i].name), Id(copied[i].name \o "#"))]
      decls == [i \in DOMAIN copied |-> [VarDecl(copied[i].name, Widened(copied[i].x[1])) EXCEPT !.op = "AUTO"]] \o Decls(fd.x[2])
      inFrame(d) == d.op = "AUTO" \/ d.x[1].ts \in ts_bulk
      inRegister(d) == ~inFrame(d)
      framed == SelectSeq(decls, inFrame)
      kept == SelectSeq(decls, inRegister)
      frame == [Type("STRUCT") EXCEPT !.x = [i \in DOMAIN framed |-> VarDecl(framed[i].name, framed[i].x[1])]]
      alloca == contains_alloca(fd.x[2])
      pointers == (IF framed # <<>> \/ alloca THEN <<VarDecl("bp$", PtrTo(Type("VOID")))>> ELSE <<>>)
                    \o (IF framed # <<>> THEN <<VarDecl("fp$", PtrTo(frame))>> ELSE <<>>)
      inits == (IF framed # <<>> \/ alloca THEN <<Assign(Id("bp$"), Id("sp$"))>> ELSE <<>>)
                 \o (IF framed # <<>> THEN <<Assign(Id("fp$"), Intr("alloca", <<Intr("sizeof", <<frame>>)>>))>> ELSE <<>>)
      vib == [v \in {d.name : d \in Range(framed)} |-> InFrame(v)]
               @@ [v \in {d.name : d \in Range(kept)} |-> Register(v, NarrowOf((CHOOSE d \in Range(kept) : d.name = v).x[1].ts))]
               @@ [v \in {p.name : p \in Range(pars)} |->
                     LET i == CHOOSE i \in DOMAIN pars : pars[i].name = v IN Register(v, NarrowOf(given[i].x[1].ts))]
               @@ [v \in {p.name : p \in Range(pointers)} \cup (IF bulk THEN {"rp$"} ELSE {}) |-> Register(v, "VOID")]
      body == copies \o Statements(fd.x[2])
      env == [vib |-> vib, globals |-> globals, labels |-> <<>>]
      lowered == ForEach(LAMBDA i : expr_wasmify(body[i], env, Below("", i)), Len(body))
      falloff == IF (ret.ts = "VOID" \/ bulk) /\ ~EndsInReturn(Statements(fd.x[2]))
                   THEN <<[Node("return") EXCEPT !.name = IF pointers # <<>> THEN "bp$" ELSE ""]>> ELSE <<>>
  IN  [fd EXCEPT !.x =
        << FunctionOf(IF bulk THEN Type("VOID") ELSE Widened(ret), (IF bulk THEN <<VarDecl("rp$", PtrTo(ret))>> ELSE <<>>) \o pars),
           Block([i \in DOMAIN kept |-> VarDecl(kept[i].name, Widened(kept[i].x[1]))] \o pointers \o inits \o refused \o lowered \o falloff) >>]
=============================================================================
