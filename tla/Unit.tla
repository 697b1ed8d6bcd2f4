-------------------------------- MODULE Unit --------------------------------
(***************************************************************************)
(* The compilation of one module as far as names are concerned: the stack  *)
(* of workspaces that #include builds (p.c, process_include of c.c),       *)
(* #pragma once and #pragma module, the table of global symbols            *)
(* (post_symbol, mark_global_referenced) and the imports written at the    *)
(* end (compile_module_to_wat).  A file is a sequence of top-level forms;  *)
(* a definition has the names its code mentions and those whose address    *)
(* its initialiser takes.                                                  *)
(***************************************************************************)
EXTENDS Naturals, FiniteSets, Sequences, SequencesExt, TLC

CONSTANTS
  Files, Mods, Ids, Types,
  Texts,      \* the programs: functions from files to sequences of forms
  Main,       \* the file compiled
  ModName,    \* file -> module name made of the file's name
  OpenMax     \* files that can be open at a time

TopForms ==
  [op : {"include"}, file : Files] \cup [op : {"once"}] \cup [op : {"module"}, mod : Mods]
    \cup [op : {"declare"}, id : Ids, type : Types, extern : BOOLEAN, static : BOOLEAN]
    \cup [op : {"define"}, id : Ids, type : Types, static : BOOLEAN,
          uses : SUBSET Ids, inits : SUBSET Ids]

ASSUME UnitAssumption ==
  /\ OpenMax \in Nat \ {0} /\ ModName \in [Files -> Mods]
  /\ \A t \in Texts :
       /\ Main \in DOMAIN t /\ DOMAIN t \subseteq Files
       /\ \A f \in DOMAIN t : t[f] \in Seq(TopForms)

VARIABLES
  text,       \* the program
  phase,      \* "parse", "done" or "error"
  ws,         \* open workspaces: file, next form, curmod
  once,       \* files #pragma once was seen in
  syms,       \* the symbols posted: module, class, type
  defs, refs, \* what the code defines and what it refers to: <<module, name>>
  imports,    \* pwm->imports
  passes      \* file -> how often it was read beyond its #pragma once

work == <<ws, once, passes>>
names == <<syms, defs, refs>>
vars == <<text, phase, work, names, imports>>

Init ==
  /\ text \in Texts /\ phase = "parse"
  /\ ws = <<[file |-> Main, n |-> 1, mod |-> ModName[Main]]>>
  /\ once = {} /\ syms = << >> /\ defs = << >> /\ refs = {} /\ imports = {}
  /\ passes = [f \in Files |-> 0]

Top == Last(ws)
Forms == text[Top.file]
Form == Forms[Top.n]
At(op) == phase = "parse" /\ Top.n <= Len(Forms) /\ Form.op = op
InHeader == Len(ws) > 1
MovedTo(n) == [ws EXCEPT ![Len(ws)].n = n]
Advanced == MovedTo(Top.n + 1)

Fail == phase' = "error" /\ UNCHANGED <<text, work, names, imports>>

-----------------------------------------------------------------------------
(* Mutant: files are opened without end. *)
Include_Anyway ==
  /\ At("include")
  /\ IF Form.file \in DOMAIN text
     THEN /\ ws' = Append(Advanced, [file |-> Form.file, n |-> 1, mod |-> ModName[Form.file]])
          /\ UNCHANGED <<text, phase, once, passes, names, imports>>
     ELSE Fail

(* process_include: newpws fails for a file that is not there and when no  *)
(* more files can be opened.                                               *)
Include ==
  /\ At("include")
  /\ IF Form.file \in DOMAIN text /\ Len(ws) < OpenMax
     THEN /\ ws' = Append(Advanced, [file |-> Form.file, n |-> 1, mod |-> ModName[Form.file]])
          /\ UNCHANGED <<text, phase, once, passes, names, imports>>
     ELSE Fail

(* Mutant: a file is marked when its reading ends. *)
PragmaOnce_Late ==
  /\ At("once")
  /\ IF Top.file \in once
     THEN ws' = MovedTo(Len(Forms) + 1) /\ UNCHANGED <<once, passes>>
     ELSE /\ ws' = Advanced
          /\ once' = IF Len(Forms) = Top.n THEN once \cup {Top.file} ELSE once
          /\ passes' = [passes EXCEPT ![Top.file] = @ + 1]
  /\ UNCHANGED <<text, phase, names, imports>>

(* parse_pragma_directive: a file seen before ends where it repeats.       *)
PragmaOnce ==
  /\ At("once")
  /\ IF Top.file \in once
     THEN ws' = MovedTo(Len(Forms) + 1) /\ UNCHANGED <<once, passes>>
     ELSE /\ ws' = Advanced /\ once' = once \cup {Top.file}
          /\ passes' = [passes EXCEPT ![Top.file] = @ + 1]
  /\ UNCHANGED <<text, phase, names, imports>>

PragmaModule ==
  /\ At("module")
  /\ ws' = [Advanced EXCEPT ![Len(ws)].mod = Form.mod]
  /\ UNCHANGED <<text, phase, once, passes, names, imports>>

-----------------------------------------------------------------------------
(* post_symbol keeps what it knows in the storage class of the symbol.     *)
Class(final, hide) ==
  CASE final /\ hide -> "auto" [] final /\ ~hide -> "register"
    [] ~final /\ hide -> "static" [] OTHER -> "none"

Final(s) == s.sc \in {"auto", "register"}
Hidden(s) == s.sc \in {"auto", "static"}

Clash(d, final) ==
  /\ d.id \in DOMAIN syms
  /\ \/ final /\ Final(syms[d.id])
     \/ Hidden(syms[d.id]) # d.static
     \/ syms[d.id].type # d.type

(* Mutant: a declaration after the definition forgets it. *)
Posted_Forgets(mod, d, final) ==
  [x \in DOMAIN syms \cup {d.id} |->
     IF x # d.id THEN syms[x]
     ELSE [mod |-> mod, sc |-> Class(final, d.static), type |-> d.type]]

Posted(mod, d, final) ==
  [x \in DOMAIN syms \cup {d.id} |->
     IF x # d.id \/ (x \in DOMAIN syms /\ ~final) THEN syms[x]
     ELSE [mod |-> IF x \in DOMAIN syms THEN syms[x].mod ELSE mod,
           sc |-> Class(final, d.static), type |-> d.type]]

(* Mutant: every symbol declared is marked. *)
Marked_All(s, used) ==
  [x \in DOMAIN s |-> IF s[x].sc = "none" THEN [s[x] EXCEPT !.sc = "extern"] ELSE s[x]]

(* mark_global_referenced of the names in used. *)
Marked(s, used) ==
  [x \in DOMAIN s |->
     IF x \in used /\ s[x].sc = "none" THEN [s[x] EXCEPT !.sc = "extern"] ELSE s[x]]

RefsTo(s, used) == {<<s[x].mod, x>> : x \in used}

(* A declaration in a header must be extern, the prototype of a function   *)
(* in the module must not.                                                 *)
Declare ==
  /\ At("declare")
  /\ IF Form.extern # InHeader \/ Clash(Form, FALSE)
     THEN Fail
     ELSE /\ syms' = Posted(Top.mod, Form, FALSE)
          /\ ws' = Advanced
          /\ UNCHANGED <<text, phase, once, passes, defs, refs, imports>>

(* process_fundef and process_vardecl: a definition is posted, then what   *)
(* it mentions is looked up and marked; the address in the initialiser of  *)
(* a variable is looked up only.                                           *)
Define ==
  /\ At("define")
  /\ LET s == Posted(Top.mod, Form, TRUE)
     IN  IF InHeader \/ Clash(Form, TRUE) \/ ~((Form.uses \cup Form.inits) \subseteq DOMAIN s)
         THEN Fail
         ELSE /\ syms' = Marked(s, Form.uses)
              /\ defs' = Append(defs, <<Top.mod, Form.id>>)
              /\ refs' = refs \cup RefsTo(s, Form.uses \cup Form.inits)
              /\ ws' = Advanced
              /\ UNCHANGED <<text, phase, once, passes, imports>>

-----------------------------------------------------------------------------
EndHeader ==
  /\ phase = "parse" /\ InHeader /\ Top.n > Len(Forms)
  /\ ws' = Front(ws)
  /\ UNCHANGED <<text, phase, once, passes, names, imports>>

(* compile_module_to_wat at the end of the module, which has the name it   *)
(* has there: what is declared and marked, and of another module, is       *)
(* imported.                                                               *)
EndModule ==
  /\ phase = "parse" /\ ~InHeader /\ Top.n > Len(Forms)
  /\ imports' = {<<syms[x].mod, x>> : x \in {y \in DOMAIN syms :
                   syms[y].sc = "extern" /\ syms[y].mod # Top.mod}}
  /\ phase' = "done"
  /\ UNCHANGED <<text, work, names>>

Next ==
  Include \/ PragmaOnce \/ PragmaModule \/ Declare \/ Define \/ EndHeader \/ EndModule

Spec == Init /\ [][Next]_vars

-----------------------------------------------------------------------------
Classes == {"none", "extern", "static", "register", "auto"}

Symbols == [mod : Mods, sc : Classes, type : Types]

Workspaces == [file : DOMAIN text, n : Nat, mod : Mods]

TypeOK ==
  /\ phase \in {"parse", "done", "error"}
  /\ ws \in Seq(Workspaces) /\ Len(ws) \in 1 .. OpenMax
  /\ \A k \in DOMAIN ws : ws[k].n \in 1 .. (Len(text[ws[k].file]) + 1)
  /\ once \subseteq Files /\ passes \in [Files -> Nat]
  /\ DOMAIN syms \subseteq Ids
  /\ \A x \in DOMAIN syms : syms[x] \in Symbols
  /\ defs \in Seq(Mods \X Ids) /\ refs \subseteq Mods \X Ids /\ imports \subseteq Mods \X Ids

(* A file that says #pragma once is read beyond that once, however often   *)
(* and however nested it is included.                                      *)
ReadOnce == \A f \in Files : passes[f] <= 1

(* However declarations and definitions of a name are mixed, it is defined *)
(* once (post_symbol's redefinition check).                                *)
DefinedOnce == \A k, m \in DOMAIN defs : defs[k][2] = defs[m][2] => k = m

(* What is imported is referred to in the code and not defined in it.      *)
ImportsUsed == imports \subseteq refs \ ToSet(defs)

(* "insert imports actually referenced in the code" (compile_module_to_wat *)
(* in c.c): every reference to another module is imported.                 *)
ReferencesImported ==
  phase = "done" => \A r \in refs : r[1] = Top.mod \/ r \in imports

(* What ReferencesImported asks of a program.  Line n of file f belongs to *)
(* module m when the last #pragma module before it says so, or none does   *)
(* and the file's name is m; a name is the module's own when whatever      *)
(* declares it does so for the module of the main file.                    *)
InModule(t, f, n, m) ==
  \/ m = ModName[f] /\ \A k \in 1 .. n - 1 : t[f][k].op # "module"
  \/ \E k \in 1 .. n - 1 :
       /\ t[f][k].op = "module" /\ t[f][k].mod = m
       /\ \A j \in k + 1 .. n - 1 : t[f][j].op # "module"

OwnNames(t) ==
  {x \in Ids : \A f \in DOMAIN t : \A n \in DOMAIN t[f], m \in Mods :
     t[f][n].op = "declare" /\ t[f][n].id = x /\ InModule(t, f, n, m) => m = ModName[Main]}

(* A careful program defines, hides and takes in initialisers the address  *)
(* of its own names only, and leaves #pragma module to its headers.        *)
Careful(t) ==
  /\ \A n \in DOMAIN t[Main] : t[Main][n].op # "module"
  /\ \A f \in DOMAIN t : \A n \in DOMAIN t[f] :
       /\ t[f][n].op = "declare" /\ t[f][n].static => t[f][n].id \in OwnNames(t)
       /\ t[f][n].op = "define" => {t[f][n].id} \cup t[f][n].inits \subseteq OwnNames(t)
=============================================================================
