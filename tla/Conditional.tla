----------------------------- MODULE Conditional ----------------------------
(***************************************************************************)
(* Conditional compilation in p.c: parse_top_form's directives,            *)
(* parse_cc_if_directive, parse_cc_cond and parse_cc_inactive, over a file *)
(* seen as a sequence of lines.  A line is a directive or text; the        *)
(* condition of an #if, #ifdef, #ifndef or #elif is true, false or one the *)
(* parser does not support.                                                *)
(***************************************************************************)
EXTENDS Naturals, Sequences, FiniteSets, SequencesExt

CONSTANTS MaxLines,     \* bound on the length of the file
          Indents       \* are there directives with space before the '#'

ASSUME ConditionalAssumption == MaxLines \in Nat /\ Indents \subseteq BOOLEAN

Conds == {"true", "false", "unsupported"}

Text == [dir |-> "text", cond |-> "true", indented |-> FALSE]

Lines ==
  {Text} \cup [dir : {"if", "elif"}, cond : Conds, indented : Indents]
         \cup [dir : {"else", "endif"}, cond : {"true"}, indented : Indents]

VARIABLES
  input,       \* the file
  n,           \* the lines dealt with
  mode,        \* "active", "inactive", "done" or "error"
  cclevel,     \* pw->cclevel
  level,       \* parse_cc_inactive's locals
  gotactive,
  kept         \* the numbers of the lines parsed

vars == <<input, n, mode, cclevel, level, gotactive, kept>>

Init ==
  /\ input \in UNION {[1 .. m -> Lines] : m \in 0 .. MaxLines}
  /\ n = 0 /\ mode = "active" /\ cclevel = 0
  /\ level = 0 /\ gotactive = FALSE /\ kept = {}

Cur == input[n + 1]

At(m, dir) == mode = m /\ n < Len(input) /\ Cur.dir = dir

Fail == mode' = "error" /\ UNCHANGED <<input, n, cclevel, level, gotactive, kept>>

Goto(m, cc) == mode' = m /\ cclevel' = cc /\ n' = n + 1 /\ UNCHANGED <<input, kept>>

(* Enter parse_cc_inactive. *)
Skip(got, cc) == Goto("inactive", cc) /\ level' = 0 /\ gotactive' = got

Stay == UNCHANGED <<level, gotactive>>

ActiveText ==
  /\ At("active", "text")
  /\ kept' = kept \cup {n + 1} /\ n' = n + 1
  /\ UNCHANGED <<input, mode, cclevel, level, gotactive>>

(* A condition that holds opens an active block, another starts skipping.  *)
ActiveIf ==
  /\ At("active", "if")
  /\ CASE Cur.cond = "true"  -> Goto("active", cclevel + 1) /\ Stay
       [] Cur.cond = "false" -> Skip(FALSE, cclevel)
       [] OTHER              -> Fail

(* The rest of the block is skipped; the condition of #elif is not read.   *)
ActiveElse ==
  /\ At("active", "elif") \/ At("active", "else")
  /\ IF cclevel = 0 THEN Fail ELSE Skip(TRUE, cclevel)

ActiveEndif ==
  /\ At("active", "endif")
  /\ IF cclevel = 0 THEN Fail ELSE Goto("active", cclevel - 1) /\ Stay

(* The file may end inside an active block. *)
ActiveEof ==
  /\ mode = "active" /\ n = Len(input)
  /\ mode' = "done"
  /\ UNCHANGED <<input, n, cclevel, level, gotactive, kept>>

-----------------------------------------------------------------------------
(* "bol": a '#' that follows a newline and nothing else. *)
Seen(dir) == At("inactive", dir) /\ ~Cur.indented

Pass == Goto("inactive", cclevel) /\ UNCHANGED gotactive

InactiveText ==
  /\ mode = "inactive" /\ n < Len(input)
  /\ Cur.dir = "text" \/ Cur.indented
  /\ Pass /\ UNCHANGED level

InactiveIf == Seen("if") /\ Pass /\ level' = level + 1

(* The branch to take, when none of this block has been. *)
(* Mutant: a branch taken before does not count. *)
Open_Again == level = 0

Open == level = 0 /\ ~gotactive

InactiveElif ==
  /\ Seen("elif")
  /\ CASE Open /\ Cur.cond = "true"        -> Goto("active", cclevel + 1) /\ Stay
       [] Open /\ Cur.cond = "unsupported" -> Fail
       [] OTHER                            -> Pass /\ UNCHANGED level

InactiveElse ==
  /\ Seen("else")
  /\ IF Open THEN Goto("active", cclevel + 1) /\ Stay
             ELSE Pass /\ UNCHANGED level

(* Mutant of the next: the level of the active branch stays. *)
InactiveEndif_KeepsLevel ==
  /\ Seen("endif")
  /\ IF level > 0 THEN Pass /\ level' = level - 1
     ELSE Goto("active", cclevel) /\ Stay

(* The end of the block being skipped closes the level opened for it, if   *)
(* one of its branches was active.                                         *)
InactiveEndif ==
  /\ Seen("endif")
  /\ IF level > 0 THEN Pass /\ level' = level - 1
     ELSE Goto("active", IF gotactive THEN cclevel - 1 ELSE cclevel) /\ Stay

(* "missing #endif" *)
InactiveEof == mode = "inactive" /\ n = Len(input) /\ Fail

Next ==
  \/ ActiveText \/ ActiveIf \/ ActiveElse \/ ActiveEndif \/ ActiveEof
  \/ InactiveText \/ InactiveIf \/ InactiveElif \/ InactiveElse \/ InactiveEndif
  \/ InactiveEof

Spec == Init /\ [][Next]_vars
-----------------------------------------------------------------------------
(* Conditional inclusion as the C standard defines it: a stack of blocks,  *)
(* each with the kind of branch we are in, whether it is live and whether  *)
(* one has been live (a block in skipped text counts as if it had).        *)
Live(stack) == \A k \in DOMAIN stack : stack[k].live

Bad == [ok |-> FALSE, stack |-> << >>, kept |-> {}]

Replaced(s, live, branch) ==
  [s EXCEPT !.stack = Append(Front(@), [live |-> live /\ ~Last(@).had,
                                       had |-> Last(@).had \/ live, branch |-> branch])]

C90(lines, s, k) ==
  LET line == lines[k]
      live == Live(s.stack)
      inner == s.stack # << >> /\ Last(s.stack).branch # "else"
      read == line.cond # "unsupported"
  IN  IF ~s.ok THEN Bad
      ELSE CASE line.dir = "text" -> [s EXCEPT !.kept = IF live THEN @ \cup {k} ELSE @]
             [] line.dir = "if" ->
                  IF live /\ ~read THEN Bad
                  ELSE [s EXCEPT !.stack = Append(@, [live |-> live /\ line.cond = "true",
                                                      had |-> ~live \/ line.cond = "true",
                                                      branch |-> "if"])]
             [] line.dir = "elif" ->
                  IF ~inner \/ (~Last(s.stack).had /\ ~read) THEN Bad
                  ELSE Replaced(s, line.cond = "true", "if")
             [] line.dir = "else" -> IF ~inner THEN Bad ELSE Replaced(s, TRUE, "else")
             [] OTHER -> IF s.stack = << >> THEN Bad ELSE [s EXCEPT !.stack = Front(@)]

(* The judgement of the first k lines. *)
Judged(lines) ==
  LET judged[k \in Nat] ==
        IF k = 0 THEN [ok |-> TRUE, stack |-> << >>, kept |-> {}]
        ELSE C90(lines, judged[k - 1], k)
  IN  judged

Standard == Judged(input)[n]

(* As long as the file is legal, exactly the lines the standard keeps have *)
(* been parsed, and the parser is active where the standard is.  The one   *)
(* error of a legal prefix is a block that is never closed.                *)
SelectsLines ==
  Standard.ok =>
    /\ kept = Standard.kept
    /\ mode = "active"   => Live(Standard.stack)
    /\ mode = "inactive" => ~Live(Standard.stack)

(* As long as the file is legal, it is refused only where it stops being so. *)
AcceptsLegal ==
  Standard.ok /\ mode = "error" =>
    \/ n = Len(input) /\ Standard.stack # << >>
    \/ n < Len(input) /\ ~C90(input, Standard, n + 1).ok

(* The parser and the standard agree on what is kept and what is refused.  *)
AgreesWithStandard == SelectsLines /\ AcceptsLegal

(* Whatever the file is, the counters are those of open blocks: no counter *)
(* is decremented below zero and skipping starts from the block's level.   *)
LevelsMatch ==
  Standard.ok =>
    CASE mode = "active"   -> cclevel = Len(Standard.stack)
      [] mode = "inactive" ->
           Len(Standard.stack) = cclevel + level + (IF gotactive THEN 0 ELSE 1)
      [] OTHER -> TRUE

-----------------------------------------------------------------------------
(* README.md: "inactive parts can contain any C99 code and properly nested *)
(* conditional compilation blocks".  A line of a skipped block that starts *)
(* with space is not seen as a directive.                                  *)
NestsProperly == Standard.ok /\ mode = "active" => Live(Standard.stack)
=============================================================================
