------------------------------- MODULE Compiler -------------------------------
(***************************************************************************)
(* A file compiled, and its functions called on a WebAssembly machine: a   *)
(* frame per call with registers, operands and open blocks, the globals,   *)
(* and a memory of bytes with the data below and the stack above.          *)
(***************************************************************************)
EXTENDS Codegen

CONSTANTS
  Functions, Globals, Externals,    \* the file, as in CSource
  Refused,                          \* functions that the compiler must not accept beside them
  Calls,                            \* <<function, arguments>>: the calls that are made
  StackTop,                         \* sp$ at the start
  Compile(_, _),                    \* the code of a function among globals of some types: process_fundef
  Bytes(_, _, _),                   \* the bytes and references of a global in memory: BulkData
  FirstNumber(_, _),                \* the number or name a global starts with: GlobalValue
  Meant(_)                          \* what a call means in C: [t, v, calls, globals]
ASSUME StackTopAssumption == StackTop % 16 = 0

VARIABLES
  job,       \* the call that is made
  frames,     \* the functions active, the innermost last
  values,    \* the values of the values
  memory,        \* the bytes of the memory that were written; the others are 0
  sent,      \* the calls of functions of other files, with their arguments
  answer      \* what it leaves, once it has returned
vars == <<job, frames, values, memory, sent, answer>>

\* ------------------------------------------------- the compiled file
GlobalTypes ==
  [f \in DOMAIN Functions |-> Functions[f].x[1]] @@ [g \in DOMAIN Globals |-> Globals[g].type] @@ Externals
    @@ ("sp$" :> PtrTo(Type("VOID")))
Compiled == [f \in DOMAIN Functions |-> Compile(Functions[f], GlobalTypes)]

InOrder(S) == FoldSet(LAMBDA e, s : Append(s, e), <<>>, S)
IndexOf(e, s) == CHOOSE i \in DOMAIN s : s[i] = e
InMemory == {g \in DOMAIN Globals : Globals[g].type.ts \in ts_bulk}
Data == [g \in InMemory |-> Bytes(Globals[g].type, Globals[g].init, GlobalTypes)]
\* Where the linker puts them: one after the other from 16, aligned to 16.
DataOrder == InOrder(InMemory)
DataAt == [g \in InMemory |->
  FoldLeft(LAMBDA a, h : a + RoundUp(Len(Data[h].data), 16), 16, SubSeq(DataOrder, 1, IndexOf(g, DataOrder) - 1))]
FirstData ==
  LET placed(g) == [a \in DataAt[g] .. DataAt[g] + Len(Data[g].data) - 1 |-> Data[g].data[a - DataAt[g] + 1]]
      patched(g) == [r \in Data[g].refs |-> BytesOf(4, DataAt[r[2]])]
      refs(g) == [a \in UNION {DataAt[g] + r[1] .. DataAt[g] + r[1] + 3 : r \in Data[g].refs} |->
                    LET r == CHOOSE r \in Data[g].refs : a \in DataAt[g] + r[1] .. DataAt[g] + r[1] + 3 IN patched(g)[r][a - DataAt[g] - r[1] + 1]]
      all == FoldLeft(LAMBDA m, g : refs(g) @@ placed(g) @@ m, <<>>, DataOrder)
  IN  [at \in {at \in DOMAIN all : all[at] # 0} |-> all[at]]

BitsIn(vt) == IF vt = "i64" THEN 8 * ByteBits ELSE 4 * ByteBits
Val(vt, v) == [vt |-> vt, v |-> IF vt \in {"f32", "f64"} THEN v ELSE Modulo(v, BitsIn(vt))]
Signed(x) == SignBitExtended(x.v, BitsIn(x.vt))
FunctionTable == InOrder(DOMAIN Functions)
FirstGlobals ==
  [g \in DOMAIN Globals \ InMemory |->
     LET r == FirstNumber(Globals[g].type, Globals[g].init)
     IN  Val(ts2vt[Globals[g].type.ts], IF r.id \in InMemory THEN DataAt[r.id] ELSE r.val)] @@ ("sp$" :> Val("i32", StackTop))

\* What validation asks of a function: nothing was refused, and every register is declared once.
Regs(code) == SelectSeq(code, LAMBDA i : i.in = "regdecl")
Valid(c) ==
  /\ \A i \in DOMAIN c.code : c.code[i].in # "error" /\ c.code[i].vt # "unknown"
  /\ LET regs == Regs(c.code) IN Cardinality({regs[i].id : i \in DOMAIN regs}) = Len(regs)
Accepted == {f \in DOMAIN Functions : Valid(Compiled[f])}

WronglyAccepted == {fd \in Refused : Valid(Compile(fd, GlobalTypes))}

\* The else or end that closes an if, or the end of a labelled block or a loop.
Opens == {"block", "loop", "if"}
Closings == [f \in DOMAIN Functions |->
  LET code == Compiled[f].code
      \* open: the places still open, the innermost last; close: where each of those before i closes
      next(st, i) ==
        CASE i.ins.in \in Opens -> [st EXCEPT !.open = Append(@, i.at)]
          [] i.ins.in = "else" -> [open |-> Append(Front(st.open), i.at), close |-> (Last(st.open) :> i.at) @@ st.close]
          [] i.ins.in = "end" -> [open |-> Front(st.open), close |-> (Last(st.open) :> i.at) @@ st.close]
          [] OTHER -> st
  IN  FoldLeft(next, [open |-> <<>>, close |-> <<>>], [i \in DOMAIN code |-> [ins |-> code[i], at |-> i]]).close]

\* ------------------------------------------------------ the machine
Entered(f, args) ==
  LET regs == Regs(Compiled[f].code)
      init(k) == IF k <= Len(args) THEN args[k] ELSE Val(regs[k].vt, 0)
  IN  [fn |-> f, pc |-> Len(regs) + 1, stack |-> <<>>, labels |-> <<>>,
       regs |-> [r \in {regs[k].id : k \in DOMAIN regs} |-> init(CHOOSE k \in DOMAIN regs : regs[k].id = r)]]
Top == Last(frames)
In == Compiled[Top.fn].code[Top.pc]
Running == frames # <<>>
At(in) == Running /\ In.in = in
Arg(k) == Top.stack[Len(Top.stack) + 1 - k]       \* the k-th operand from the top
Popped(k) == SubSeq(Top.stack, 1, Len(Top.stack) - k)
Goes(frame) == frames' = [frames EXCEPT ![Len(frames)] = frame]
Leaves(stack) == Goes([Top EXCEPT !.stack = stack, !.pc = @ + 1])

\* The types of the operands an instruction takes, the top one last.
Takes(i) ==
  CASE i.in \in {"local.set", "local.tee"} -> <<Top.regs[i.id].vt>>
    [] i.in = "global.set" -> <<values[i.id].vt>>
    [] i.in = "numeric" -> IF i.op \in {"eqz", "neg", "extend"} THEN <<i.vt>> ELSE <<i.vt, i.vt>>
    [] i.in = "convert" -> <<i.op>>
    [] i.in \in {"load", "if", "br_if", "br_table"} -> <<"i32">>
    [] i.in = "store" -> <<"i32", i.vt>>
    [] i.in = "memory.copy" -> <<"i32", "i32", "i32">>
    [] i.in = "call" /\ i.id \in DOMAIN Functions -> Compiled[i.id].sig[1]
    [] i.in = "call" -> ftn2fsig(Externals[i.id])[1]
    [] i.in = "call_indirect" -> Append(i.sub[1], "i32")
    [] i.in = "return" -> Compiled[Top.fn].sig[2]
    [] OTHER -> <<>>
Ready ==
  LET i == In
      base == IF Top.labels = <<>> THEN 0 ELSE Last(Top.labels).height
      have == SubSeq(Top.stack, base + 1, Len(Top.stack))
      takes == Takes(i)
      types == [k \in DOMAIN have |-> have[k].vt]
      left == IF i.in = "end" /\ Last(Top.labels).vt # "void" THEN <<Last(Top.labels).vt>> ELSE <<>>
  IN  /\ Top.pc \in DOMAIN Compiled[Top.fn].code
      /\ Len(have) >= Len(takes) /\ SubSeq(types, Len(types) - Len(takes) + 1, Len(types)) = takes
      /\ i.in = "drop" => have # <<>>
      /\ i.in = "select" => Len(have) >= 3 /\ Arg(1).vt = "i32" /\ Arg(2).vt = Arg(3).vt
      /\ i.in = "end" => types = left

Binary(i, x, y) ==
  LET a == IF i.sx THEN Signed(x) ELSE x.v
      b == IF i.sx THEN Signed(y) ELSE y.v
      bits == BitsIn(i.vt)
      float == i.vt \in {"f32", "f64"}
      shift == y.v % bits
  IN  CASE i.op \in Comparisons -> Val("i32", IF float THEN Compare(i.op, x.v, y.v) ELSE Compare(i.op, a, b))
        [] float -> Val(i.vt, CASE i.op = "+" -> x.v + y.v [] i.op = "-" -> x.v - y.v [] i.op = "*" -> x.v * y.v [] i.op = "/" -> Quotient(x.v, y.v))
        [] OTHER -> Val(i.vt, CASE i.op = "+" -> a + b [] i.op = "-" -> a - b [] i.op = "*" -> Product(x.v, y.v)
                                [] i.op = "/" -> Quotient(a, b) [] i.op = "%" -> Remainder(a, b)
                                [] i.op \in {"&", "|", "^"} -> Bitwise2(i.op, x.v, y.v, bits)
                                [] i.op = "<<" -> Modulo(x.v, bits - shift) * 2^shift [] i.op = ">>" -> a \div 2^shift)
Unary(i, x) ==
  CASE i.op = "eqz" -> Val("i32", Truth(x.v = 0)) [] i.op = "neg" -> Val(i.vt, -x.v)
    [] i.op = "extend" -> Val("i32", SignBitExtended(x.v, i.wd * ByteBits))
Converts(i, x) == Val(i.vt, IF i.op \in {"i32", "i64"} /\ i.sx THEN Signed(x) ELSE x.v)
Divides(i) == i.op \in {"/", "%"} /\ i.vt \in {"i32", "i64"}

Constant == At("const") /\ Leaves(Append(Top.stack, Val(In.vt, In.arg))) /\ UNCHANGED <<values, memory>>
Compute ==
  /\ At("numeric")
  /\ IF Len(Takes(In)) = 1 THEN Leaves(Append(Popped(1), Unary(In, Arg(1))))
     ELSE (Divides(In) => Arg(1).v # 0) /\ Leaves(Append(Popped(2), Binary(In, Arg(2), Arg(1))))
  /\ UNCHANGED <<values, memory>>
Convert == At("convert") /\ Leaves(Append(Popped(1), Converts(In, Arg(1)))) /\ UNCHANGED <<values, memory>>
Address ==
  /\ At("ref.data") \/ At("ref.func")
  /\ Leaves(Append(Top.stack, Val("i32", IF In.in = "ref.data" THEN DataAt[In.id] ELSE IndexOf(In.id, FunctionTable))))
  /\ UNCHANGED <<values, memory>>
Drop == At("drop") /\ Leaves(Popped(1)) /\ UNCHANGED <<values, memory>>
Select == At("select") /\ Leaves(Append(Popped(3), IF Arg(1).v # 0 THEN Arg(3) ELSE Arg(2))) /\ UNCHANGED <<values, memory>>

Local ==
  /\ \/ At("local.get") /\ Leaves(Append(Top.stack, Top.regs[In.id]))
     \/ At("local.set") /\ Goes([Top EXCEPT !.regs[In.id] = Arg(1), !.stack = Popped(1), !.pc = @ + 1])
     \/ At("local.tee") /\ Goes([Top EXCEPT !.regs[In.id] = Arg(1), !.pc = @ + 1])
  /\ UNCHANGED <<values, memory>>
Global ==
  /\ \/ At("global.get") /\ Leaves(Append(Top.stack, values[In.id])) /\ UNCHANGED values
     \/ At("global.set") /\ Leaves(Popped(1)) /\ values' = [values EXCEPT ![In.id] = Arg(1)]
  /\ UNCHANGED memory

MemorySize == 2^(4 * ByteBits)
Byte(a) == IF a \in DOMAIN memory THEN memory[a] ELSE 0
Number(from, size) == FoldLeft(LAMBDA v, k : v * 2^ByteBits + Byte(from + size - k), 0, [k \in 1..size |-> k])
Load ==
  /\ At("load")
  /\ LET from == Arg(1).v + In.arg
         v == Number(from, In.wd)
     IN  /\ from + In.wd <= MemorySize
         /\ Leaves(Append(Popped(1), Val(In.vt, IF In.sx THEN SignBitExtended(v, In.wd * ByteBits) ELSE v)))
  /\ UNCHANGED <<values, memory>>
Store ==
  /\ At("store")
  /\ LET to == Arg(2).v + In.arg
         bytes == BytesOf(In.wd, Arg(1).v)
     IN  to + In.wd <= MemorySize /\ memory' = [a \in to .. to + In.wd - 1 |-> bytes[a - to + 1]] @@ memory
  /\ Leaves(Popped(2)) /\ UNCHANGED values
Copy ==
  /\ At("memory.copy")
  /\ LET to == Arg(3).v  from == Arg(2).v  n == Arg(1).v
     IN  Max({from, to}) + n <= MemorySize /\ memory' = [a \in to .. to + n - 1 |-> Byte(from + a - to)] @@ memory
  /\ Leaves(Popped(3)) /\ UNCHANGED values

Opened(id, vt, height) == Append(Top.labels, [id |-> id, vt |-> vt, height |-> height, at |-> Top.pc])
Open ==
  /\ \/ (At("block") \/ At("loop")) /\ Goes([Top EXCEPT !.labels = Opened(In.id, "void", Len(Top.stack)), !.pc = @ + 1])
     \/ /\ At("if")
        /\ LET close == Closings[Top.fn][Top.pc]
               else == Compiled[Top.fn].code[close].in = "else"
               inside == [Top EXCEPT !.labels = Opened("", In.vt, Len(Top.stack) - 1), !.stack = Popped(1)]
           IN  Goes(IF Arg(1).v # 0 THEN [inside EXCEPT !.pc = @ + 1]
                    ELSE IF else THEN [inside EXCEPT !.pc = close + 1] ELSE [Top EXCEPT !.stack = Popped(1), !.pc = close + 1])
  /\ UNCHANGED <<values, memory>>
Close ==
  /\ \/ At("end") /\ Goes([Top EXCEPT !.labels = Front(@), !.pc = @ + 1])
     \/ At("else") /\ Goes([Top EXCEPT !.pc = Closings[Top.fn][Top.pc]])
  /\ UNCHANGED <<values, memory>>
\* To the start of a loop, which stays open, or past the end of a block.
Jump(label, stack) ==
  LET k == SelectLastInSeq(Top.labels, LAMBDA b : b.id = label)
      b == Top.labels[k]
      loop == Compiled[Top.fn].code[b.at].in = "loop"
  IN  Goes([Top EXCEPT !.stack = SubSeq(stack, 1, b.height),
                       !.labels = SubSeq(@, 1, IF loop THEN k ELSE k - 1),
                       !.pc = IF loop THEN b.at + 1 ELSE Closings[Top.fn][b.at] + 1])
Branch ==
  /\ \/ At("br") /\ Jump(In.id, Top.stack)
     \/ At("br_if") /\ IF Arg(1).v # 0 THEN Jump(In.id, Popped(1)) ELSE Leaves(Popped(1))
     \/ At("br_table") /\ Jump(In.sub[Min({Arg(1).v + 1, Len(In.sub)})], Popped(1))
  /\ UNCHANGED <<values, memory>>

Quiet == UNCHANGED <<job, sent, answer>>
Calling(name, args, n) ==
  LET top == [Top EXCEPT !.stack = Popped(n), !.pc = @ + 1]
  IN  \/ name \in DOMAIN Functions /\ frames' = Append([frames EXCEPT ![Len(frames)] = top], Entered(name, args)) /\ UNCHANGED sent
      \/ /\ name \in DOMAIN Externals
         /\ sent' = Append(sent, <<name, [k \in DOMAIN args |-> Signed(args[k])]>>)
         /\ Goes([top EXCEPT !.stack = @ \o [k \in 1..Len(ftn2fsig(Externals[name])[2]) |-> args[1]]])
Operands(n, skip) == SubSeq(Top.stack, Len(Top.stack) - n - skip + 1, Len(Top.stack) - skip)
Call ==
  /\ \/ At("call") /\ Calling(In.id, Operands(Len(Takes(In)), 0), Len(Takes(In)))
     \/ /\ At("call_indirect") /\ Arg(1).v \in DOMAIN FunctionTable
        /\ Compiled[FunctionTable[Arg(1).v]].sig = In.sub
        /\ Calling(FunctionTable[Arg(1).v], Operands(Len(Takes(In)) - 1, 1), Len(Takes(In)))
  /\ UNCHANGED <<job, values, memory, answer>>
Return ==
  /\ At("return")
  /\ LET left == Operands(Len(Takes(In)), 0)
         out == Front(frames)
     IN  IF out = <<>> THEN frames' = <<>> /\ answer' = left
         ELSE frames' = [out EXCEPT ![Len(out)].stack = @ \o left] /\ UNCHANGED answer
  /\ UNCHANGED <<job, values, memory, sent>>

Init ==
  /\ job \in Calls
  /\ LET sig == Compiled[job[1]].sig[1]
     IN  frames = <<Entered(job[1], [k \in DOMAIN job[2] |-> Val(sig[k], job[2][k])])>>
  /\ values = FirstGlobals /\ memory = FirstData /\ sent = <<>> /\ answer = <<>>
Steps ==
  \/ Quiet /\ (Constant \/ Compute \/ Convert \/ Address \/ Drop \/ Select \/ Local \/ Global \/ Load \/ Store \/ Copy \/ Open \/ Close \/ Branch)
  \/ Call
  \/ Return
Next == Running /\ Ready /\ Steps
Spec == Init /\ [][Next]_vars /\ WF_vars(Next)

\* ------------------------------------------------------- properties
Scalars == {g \in DOMAIN Globals \ InMemory : Globals[g].type.ts # "PTR"}

\* Whatever is optimized, hoisted into a register or kept in a frame, a call that returns leaves the number,
\* the values and the calls of other functions that the source means, and the stack pointer where it was.
ReturnsWhatItMeans ==
  ~Running =>
    LET m == Meant(job)
    IN  /\ answer = (IF m.t.ts = "VOID" THEN <<>> ELSE <<Val(ts2vt[m.t.ts], m.v)>>)
        /\ sent = m.calls
        /\ \A g \in Scalars : values[g] = Val(ts2vt[Globals[g].type.ts], m.globals[g])
        /\ values["sp$"].v = StackTop

\* The compiler refuses the functions it must and no other, and no instruction of those it accepts finds operands of the
\* wrong type or too few of them, or a block that is closed with something left in it: what a validating engine asks.
WellTyped == /\ Running => Ready /\ Top.fn \in Accepted
             /\ WronglyAccepted = {}

\* A call whose source terminates comes to its return: no loop is closed on the wrong label, and nothing traps.
Returns == <>~Running
==============================================================================
