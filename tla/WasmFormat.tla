----------------------------- MODULE WasmFormat -----------------------------
(***************************************************************************)
(* The binary format of WebAssembly as its readers know it: an independent *)
(* decoder, against which the writer is checked.  Every operator takes the *)
(* bytes and a position and returns [v, p]: a value and the next position. *)
(***************************************************************************)
EXTENDS Integers, Sequences, SequencesExt, TLC

Byte(s, p) == [v |-> IF p \in DOMAIN s THEN s[p] ELSE 0, p |-> p + 1]

RECURSIVE ULeb(_, _)
ULeb(s, p) == LET b == Byte(s, p).v
                  rest == ULeb(s, p + 1)
              IN  IF b < 128 \/ p > Len(s) THEN [v |-> b, p |-> p + 1]
                  ELSE [v |-> (b - 128) + 128 * rest.v, p |-> rest.p]

RECURSIVE SLeb(_, _)
SLeb(s, p) == LET b == Byte(s, p).v
                  rest == SLeb(s, p + 1)
              IN  IF b < 128 \/ p > Len(s) THEN [v |-> IF b < 64 THEN b ELSE b - 128, p |-> p + 1]
                  ELSE [v |-> (b - 128) + 128 * rest.v, p |-> rest.p]

\* n things in a row, and a vector: its length and then its elements.
Times(n, P(_, _), s, p) ==
  LET m[i \in 0..Len(s)] ==
        IF i = 0 THEN [v |-> <<>>, p |-> p]
        ELSE LET before == m[i - 1]
                 e == P(s, before.p)
             IN  [v |-> Append(before.v, e.v), p |-> e.p]
  IN  m[IF n > Len(s) THEN Len(s) ELSE n]
VecOf(P(_, _), s, p) == LET n == ULeb(s, p) IN Times(n.v, P, s, n.p)

\* P, and then Q, as a pair.
Both(P(_, _), Q(_, _), s, p) == LET a == P(s, p)
                                    b == Q(s, a.p)
                                IN  [v |-> <<a.v, b.v>>, p |-> b.p]
Name(s, p) == VecOf(Byte, s, p)
Bytes(n, s, p) == Times(n, Byte, s, p)

-----------------------------------------------------------------------------
\* Instructions: prefix and opcode, name, kinds of immediates.
Standard ==
  { <<0, 0, "unreachable", <<>>>>, <<0, 1, "nop", <<>>>>, <<0, 2, "block", <<"u">>>>, <<0, 3, "loop", <<"u">>>>,
    <<0, 4, "if", <<"u">>>>, <<0, 5, "else", <<>>>>, <<0, 11, "end", <<>>>>, <<0, 12, "br", <<"u">>>>,
    <<0, 13, "br_if", <<"u">>>>, <<0, 14, "br_table", <<"vec", "u">>>>, <<0, 15, "return", <<>>>>,
    <<0, 16, "call", <<"u">>>>, <<0, 17, "call_indirect", <<"u", "u">>>>, <<0, 26, "drop", <<>>>>,
    <<0, 32, "local_get", <<"u">>>>, <<0, 33, "local_set", <<"u">>>>, <<0, 34, "local_tee", <<"u">>>>,
    <<0, 35, "global_get", <<"u">>>>, <<0, 36, "global_set", <<"u">>>>, <<0, 40, "i32_load", <<"u", "u">>>>,
    <<0, 62, "i64_store32", <<"u", "u">>>>, <<0, 63, "memory_size", <<"byte">>>>, <<0, 65, "i32_const", <<"s">>>>,
    <<0, 66, "i64_const", <<"s">>>>, <<0, 67, "f32_const", <<"b4">>>>, <<0, 68, "f64_const", <<"b8">>>>,
    <<0, 106, "i32_add", <<>>>>, <<0, 210, "ref_func", <<"u">>>>, <<252, 10, "memory_copy", <<"byte", "byte">>>>,
    <<252, 11, "memory_fill", <<"byte">>>>, <<253, 12, "v128_const", <<"b8", "b8">>>>,
    <<253, 22, "i8x16_extract_lane_u", <<"byte">>>>, <<253, 84, "v128_load8_lane", <<"u", "u", "byte">>>>,
    <<253, 92, "v128_load32_zero", <<"u", "u">>>>, <<253, 174, "i32x4_add", <<>>>> }

\* The number with these bytes, least first.
Number(n, s, p) == LET b == Bytes(n, s, p) IN [v |-> FoldRight(LAMBDA x, acc : x + 256 * acc, b.v, 0), p |-> b.p]

Immediate(kind, s, p) ==
  CASE kind = "u" -> ULeb(s, p)
    [] kind = "s" -> SLeb(s, p)
    [] kind = "byte" -> Byte(s, p)
    [] kind = "vec" -> VecOf(ULeb, s, p)
    [] kind = "b4" -> Number(4, s, p)
    [] kind = "b8" -> Number(8, s, p)

RECURSIVE Immediates(_, _, _)
Immediates(kinds, s, p) ==
  IF kinds = <<>> THEN [v |-> <<>>, p |-> p]
  ELSE LET a == Immediate(Head(kinds), s, p)
           rest == Immediates(Tail(kinds), s, a.p)
       IN  [v |-> <<a.v>> \o rest.v, p |-> rest.p]

Instruction(s, p) ==
  LET b == Byte(s, p)
      prefixed == b.v \in {252, 253}
      op == IF prefixed THEN ULeb(s, b.p) ELSE b
      known == {i \in Standard : i[1] = (IF prefixed THEN b.v ELSE 0) /\ i[2] = op.v}
      i == CHOOSE x \in known : TRUE
      args == Immediates(i[4], s, op.p)
  IN  IF known = {} THEN [v |-> [in |-> "bad", args |-> <<>>], p |-> Len(s) + 1]
      ELSE [v |-> [in |-> i[3], args |-> args.v], p |-> args.p]

\* Instructions up to the end that closes them, which is not nested in a block.
RECURSIVE Instructions(_, _, _)
Instructions(s, p, depth) ==
  LET i == Instruction(s, p)
      d == CASE i.v.in \in {"block", "loop", "if"} -> depth + 1
             [] i.v.in = "end" -> depth - 1
             [] OTHER -> depth
      rest == Instructions(s, i.p, d)
  IN  IF p > Len(s) \/ d < 0 THEN [v |-> <<i.v>>, p |-> i.p]
      ELSE [v |-> <<i.v>> \o rest.v, p |-> rest.p]
Expr(s, p) == Instructions(s, p, 0)

-----------------------------------------------------------------------------
(* Sections: identifier, size, body; a body is decoded from its own bytes.  *)

RECURSIVE Sections(_, _)
Sections(s, p) ==
  IF p > Len(s) THEN <<>>
  ELSE LET size == ULeb(s, p + 1)
       IN  <<[id |-> s[p], body |-> SubSeq(s, size.p, size.p + size.v - 1), whole |-> size.p + size.v - 1 <= Len(s)]>>
             \o Sections(s, size.p + size.v)

Limits(s, p) == LET lt == Byte(s, p)
                    n == Times(1 + lt.v, ULeb, s, lt.p)
                IN  [v |-> n.v, p |-> n.p]
TableType(s, p) == Both(Byte, Limits, s, p)
FuncType(s, p) == LET t == Both(LAMBDA a, b : VecOf(Byte, a, b), LAMBDA a, b : VecOf(Byte, a, b), s, p + 1)
                  IN  [v |-> [form |-> Byte(s, p).v, par |-> t.v[1], res |-> t.v[2]], p |-> t.p]
GlobalType(s, p) == Both(Byte, Byte, s, p)

\* What is imported: kind and description.
ImportDesc(s, p) ==
  LET k == Byte(s, p)
      d == CASE k.v = 0 -> ULeb(s, k.p)
             [] k.v = 1 -> TableType(s, k.p)
             [] k.v = 2 -> Limits(s, k.p)
             [] OTHER -> GlobalType(s, k.p)
  IN  [v |-> <<k.v, d.v>>, p |-> d.p]
Import(s, p) == Both(LAMBDA a, b : Both(Name, Name, a, b), ImportDesc, s, p)
GlobalDef(s, p) == Both(GlobalType, Expr, s, p)
Export(s, p) == Both(Name, LAMBDA a, b : Both(Byte, ULeb, a, b), s, p)
Elem(s, p) == Both(Byte, LAMBDA a, b : Both(Expr, LAMBDA c, d : VecOf(ULeb, c, d), a, b), s, p)
Data(s, p) == Both(Byte, LAMBDA a, b : Both(Expr, Name, a, b), s, p)
\* A body says how long it is.
Code(s, p) == LET n == ULeb(s, p)
                  c == Both(LAMBDA a, b : VecOf(LAMBDA c, d : Both(ULeb, Byte, c, d), a, b), Expr, s, n.p)
              IN  [v |-> [sized |-> c.p = n.p + n.v, locals |-> c.v[1], code |-> c.v[2]], p |-> c.p]

SectionParser(id, s) ==
  CASE id = 1 -> VecOf(FuncType, s, 1)     [] id = 2 -> VecOf(Import, s, 1)   [] id = 3 -> VecOf(ULeb, s, 1)
    [] id = 4 -> VecOf(TableType, s, 1)    [] id = 5 -> VecOf(Limits, s, 1)   [] id = 6 -> VecOf(GlobalDef, s, 1)
    [] id = 7 -> VecOf(Export, s, 1)       [] id = 8 -> ULeb(s, 1)            [] id = 9 -> VecOf(Elem, s, 1)
    [] id = 10 -> VecOf(Code, s, 1)        [] id = 11 -> VecOf(Data, s, 1)    [] OTHER -> [v |-> <<>>, p |-> 0]

Header == <<0, 97, 115, 109, 1, 0, 0, 0>>
SectionsOf(bytes) == Sections(bytes, 9)

\* Sections in order, none twice, each whole and each read to its last byte.
Framed(bytes) ==
  LET ss == SectionsOf(bytes)
  IN  /\ SubSeq(bytes, 1, 8) = Header
      /\ \A i, j \in DOMAIN ss : i < j => ss[i].id < ss[j].id
      /\ \A i \in DOMAIN ss : ss[i].whole /\ SectionParser(ss[i].id, ss[i].body).p = Len(ss[i].body) + 1

Decoded(bytes, id) ==
  LET at == SelectInSeq(SectionsOf(bytes), LAMBDA x : x.id = id)
  IN  IF at = 0 THEN <<>> ELSE SectionParser(id, SectionsOf(bytes)[at].body).v
=============================================================================
