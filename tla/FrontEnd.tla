------------------------------ MODULE FrontEnd ------------------------------
(***************************************************************************)
(* A file read form by form: parse_top_form of p.c, with the parser below  *)
(* it as a parameter.                                                      *)
(***************************************************************************)
EXTENDS Parser

CONSTANTS Units,       \* [tokens, meant, refused]: a file, the trees it stands for, and whether it ends in an error
          Form(_, _)   \* the form of a kind at a state, and the state after it: parse_form

VARIABLES unit,        \* the file
          pos,         \* the next token
          symbols,     \* g_syminfo with g_nodes: what each word is, [tt, node]
          read,        \* trees of the forms read
          verdict      \* "reading", "end" or "refused"
parser == <<unit, pos, symbols, read, verdict>>

Ahead == [tokens |-> unit.tokens, i |-> pos, syms |-> symbols]
\* The word of a directive, and what follows it.
Directive(word) == peekt(Ahead) = "#" /\ pos < Len(unit.tokens) /\ unit.tokens[pos + 1].s = word
AfterWord == [Ahead EXCEPT !.i = @ + 2]

ParserInit == unit \in Units /\ pos = 1 /\ symbols = init_symbols /\ read = <<>> /\ verdict = "reading"

\* A form read, or an error that ends the compilation.
Take(r) ==
  /\ verdict = "reading"
  /\ IF r.s.i = 0 THEN verdict' = "refused" /\ UNCHANGED <<pos, symbols, read>>
     ELSE pos' = r.s.i /\ symbols' = r.s.syms /\ read' = Append(read, r.n) /\ UNCHANGED verdict
  /\ UNCHANGED unit

ReadDefine == Directive("define") /\ Take(Form("define", AfterWord))
ReadUndef == Directive("undef") /\ Take(Form("undef", AfterWord))
ReadInclude == Directive("include") /\ Take(Form("include", AfterWord))
ReadTypedef == peekt(Ahead) = "typedef" /\ Take(Form("typedef", dropt(Ahead)))
ReadIntrinsic == peekt(Ahead) = "INTR_NAME" /\ Take(Form("intrinsic", Ahead))
ReadDeclaration ==
  /\ peekt(Ahead) \notin {"typedef", "INTR_NAME", "EOF"} /\ \A word \in {"define", "undef", "include"} : ~Directive(word)
  /\ Take(Form("declaration", Ahead))
ReadEnd == peekt(Ahead) = "EOF" /\ verdict = "reading" /\ verdict' = "end" /\ UNCHANGED <<unit, pos, symbols, read>>

parse_top_form == ReadDefine \/ ReadUndef \/ ReadInclude \/ ReadTypedef \/ ReadIntrinsic \/ ReadDeclaration \/ ReadEnd

\* Every file of the language is read as the trees it was written from (precedence, declarators
\* turned inside out, types of any order of words, macros expanded as trees), and a
\* file that means nothing is refused at the form that makes it so (parse_top_form and all below).
ReadRight ==
  verdict # "reading" =>
    /\ ForEach(LAMBDA i : Measured(read[i]), Len(read)) = unit.meant
    /\ (verdict = "refused") = unit.refused
=============================================================================
