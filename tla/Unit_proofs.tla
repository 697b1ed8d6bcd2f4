----------------------------- MODULE Unit_proofs ----------------------------
(***************************************************************************)
(* One compilation, for every program, every set of names and any number   *)
(* of files.  The inductive invariant says what a symbol's storage class   *)
(* stands for: a name in the code's definitions is a final symbol, one     *)
(* marked extern is referred to, and a file not yet marked by #pragma once *)
(* was never read beyond it.  A second one, of careful programs, follows   *)
(* every name and reference to the module it is of.                        *)
(***************************************************************************)
EXTENDS Unit, TLAPS

DefinedIsFinal ==
  \A k \in DOMAIN defs : defs[k][2] \in DOMAIN syms /\ Final(syms[defs[k][2]])

MarkedIsUsed ==
  \A x \in DOMAIN syms : syms[x].sc = "extern" => <<syms[x].mod, x>> \in refs

UnreadIsUnmarked == \A f \in Files : f \notin once => passes[f] = 0

ImportsAtEnd == phase # "done" => imports = {}

IInv ==
  /\ text \in Texts /\ TypeOK
  /\ DefinedOnce /\ DefinedIsFinal /\ MarkedIsUsed
  /\ ReadOnce /\ UnreadIsUnmarked /\ ImportsAtEnd /\ ImportsUsed

-----------------------------------------------------------------------------
(* The form an action looks at is one of a file of the program.            *)
LEMMA FormIsTop ==
  ASSUME IInv, NEW op, At(op)
  PROVE  /\ Len(ws) \in Nat \ {0} /\ Top = ws[Len(ws)] /\ Len(ws) \in DOMAIN ws
         /\ Top.file \in DOMAIN text /\ Top.file \in Files /\ Top.mod \in Mods
         /\ Top.n \in DOMAIN Forms /\ Form \in TopForms /\ Form.op = op
<1>1. ws \in Seq(Workspaces) /\ Len(ws) \in 1 .. OpenMax
  BY DEF IInv, TypeOK
<1>2. Len(ws) \in Nat \ {0} /\ Len(ws) \in DOMAIN ws
  BY <1>1
<1>3. Top = ws[Len(ws)]
  BY DEF Top, Last
<1>3a. Top \in Workspaces
  BY <1>1, <1>2, <1>3
<1>4. Forms \in Seq(TopForms) /\ DOMAIN text \subseteq Files
  BY <1>3a, UnitAssumption DEF UnitAssumption, IInv, Forms, Workspaces
<1>5. Top.n \in 1 .. (Len(Forms) + 1) /\ Top.n <= Len(Forms)
  BY <1>2, <1>3, <1>3a DEF IInv, TypeOK, At, Forms, Workspaces
<1>6. Top.n \in DOMAIN Forms
  BY <1>4, <1>5
<1> QED
  BY <1>2, <1>3, <1>3a, <1>4, <1>6 DEF At, Form, Workspaces

(* Moving within the file at the top keeps the stack a stack of workspaces. *)
LEMMA MovedToKeeps ==
  ASSUME IInv, NEW n \in 1 .. (Len(Forms) + 1)
  PROVE  /\ MovedTo(n) \in Seq(Workspaces)
         /\ Len(MovedTo(n)) = Len(ws) /\ DOMAIN MovedTo(n) = DOMAIN ws
         /\ \A k \in DOMAIN ws : MovedTo(n)[k].n \in 1 .. (Len(text[MovedTo(n)[k].file]) + 1)
<1>1. ws \in Seq(Workspaces) /\ Len(ws) \in 1 .. OpenMax
  BY DEF IInv, TypeOK
<1>2. Len(ws) \in DOMAIN ws /\ \A k \in DOMAIN ws : ws[k] \in Workspaces
  BY <1>1
<1> DEFINE w == ws[Len(ws)]
           next == [w EXCEPT !.n = n]
<1>3. MovedTo(n) = [ws EXCEPT ![Len(ws)] = next]
  BY <1>1, <1>2 DEF MovedTo
<1>4. w \in Workspaces /\ text[w.file] \in Seq(TopForms) /\ Forms = text[w.file]
  BY <1>1, <1>2, UnitAssumption DEF UnitAssumption, IInv, Workspaces, Forms, Top, Last
<1>5. next \in Workspaces /\ next.n = n /\ next.file = w.file
  BY <1>4 DEF Workspaces
<1> HIDE DEF next
<1>6. /\ MovedTo(n) \in Seq(Workspaces) /\ Len(MovedTo(n)) = Len(ws)
      /\ DOMAIN MovedTo(n) = DOMAIN ws
  BY <1>1, <1>2, <1>3, <1>5
<1>7. ASSUME NEW k \in DOMAIN ws
      PROVE  MovedTo(n)[k].n \in 1 .. (Len(text[MovedTo(n)[k].file]) + 1)
  <2>1. CASE k = Len(ws)
    BY <1>1, <1>2, <1>3, <1>4, <1>5, <2>1
  <2>2. CASE k # Len(ws)
    <3>1. MovedTo(n)[k] = ws[k]
      BY <1>1, <1>2, <1>3, <2>2
    <3> QED
      BY <3>1 DEF IInv, TypeOK
  <2> QED
    BY <2>1, <2>2
<1> QED
  BY <1>6, <1>7

LEMMA AdvanceKeeps ==
  ASSUME IInv, NEW op, At(op)
  PROVE  /\ Advanced \in Seq(Workspaces)
         /\ Len(Advanced) = Len(ws) /\ DOMAIN Advanced = DOMAIN ws
         /\ \A k \in DOMAIN ws : Advanced[k].n \in 1 .. (Len(text[Advanced[k].file]) + 1)
<1>1. Top.n \in DOMAIN Forms /\ Top.file \in DOMAIN text
  BY FormIsTop
<1>2. Forms \in Seq(TopForms)
  BY <1>1, UnitAssumption DEF UnitAssumption, IInv, Forms
<1>3. Top.n + 1 \in 1 .. (Len(Forms) + 1)
  BY <1>1, <1>2
<1> QED
  BY <1>3, MovedToKeeps DEF Advanced

LEMMA InitHolds == Init => IInv
<1> SUFFICES ASSUME Init PROVE IInv
  OBVIOUS
<1> DEFINE w == [file |-> Main, n |-> 1, mod |-> ModName[Main]]
<1>1. Main \in DOMAIN text /\ Main \in Files /\ text[Main] \in Seq(TopForms)
  BY UnitAssumption DEF UnitAssumption, Init
<1>2. w \in Workspaces
  BY <1>1, UnitAssumption DEF UnitAssumption, Workspaces
<1>3. /\ ws \in Seq(Workspaces) /\ Len(ws) = 1
      /\ DOMAIN ws = {1} /\ ws[1] = w
  BY <1>2 DEF Init
<1>4. TypeOK
  BY <1>1, <1>3, UnitAssumption DEF UnitAssumption, Init, TypeOK
<1> QED
  BY <1>4 DEF Init, IInv, DefinedOnce, DefinedIsFinal, MarkedIsUsed, ReadOnce,
     UnreadIsUnmarked, ImportsAtEnd, ImportsUsed

-----------------------------------------------------------------------------
(* What a step leaves alone keeps its part of the invariant.               *)
LEMMA SameNames ==
  ASSUME IInv, UNCHANGED <<syms, defs, refs>>
  PROVE  DefinedOnce' /\ DefinedIsFinal' /\ MarkedIsUsed'
BY DEF IInv, DefinedOnce, DefinedIsFinal, MarkedIsUsed, Final

LEMMA SameWork ==
  ASSUME IInv, UNCHANGED <<once, passes>>
  PROVE  ReadOnce' /\ UnreadIsUnmarked'
BY DEF IInv, ReadOnce, UnreadIsUnmarked

LEMMA FailKeeps == ASSUME IInv, phase = "parse", Fail PROVE IInv'
<1>1. /\ phase' = "error"
      /\ UNCHANGED <<text, ws, once, passes, syms, defs, refs, imports>>
  BY DEF Fail, work, names
<1>2. TypeOK'
  BY <1>1 DEF IInv, TypeOK, Workspaces
<1> QED
  BY <1>1, <1>2, SameNames, SameWork DEF IInv, ImportsAtEnd, ImportsUsed, ToSet

(* A step that only moves in the files.                                    *)
LEMMA MoveKeeps ==
  ASSUME IInv, phase = "parse", ws' \in Seq(Workspaces), Len(ws') \in 1 .. OpenMax,
         \A k \in DOMAIN ws' : ws'[k].n \in 1 .. (Len(text[ws'[k].file]) + 1),
         UNCHANGED <<text, phase, once, passes, syms, defs, refs, imports>>
  PROVE  IInv'
<1>1. TypeOK'
  BY DEF IInv, TypeOK, Workspaces
<1> QED
  BY <1>1, SameNames, SameWork DEF IInv, ImportsAtEnd, ImportsUsed, ToSet

LEMMA IncludeKeeps == ASSUME IInv, Include PROVE IInv'
<1> phase = "parse"
  BY DEF Include, At
<1>1. CASE Fail
  BY <1>1, FailKeeps
<1>2. CASE ~Fail
  <2> DEFINE w == [file |-> Form.file, n |-> 1, mod |-> ModName[Form.file]]
  <2>1. /\ Form.file \in DOMAIN text /\ Len(ws) < OpenMax /\ ws' = Append(Advanced, w)
        /\ UNCHANGED <<text, phase, once, passes, syms, defs, refs, imports>>
    BY <1>2 DEF Include, names
  <2>2. text[Form.file] \in Seq(TopForms) /\ Form.file \in Files
    BY <2>1, UnitAssumption DEF UnitAssumption, IInv
  <2>3. w \in Workspaces /\ w.n = 1 /\ w.file = Form.file
    BY <2>1, <2>2, UnitAssumption DEF UnitAssumption, Workspaces
  <2>4. /\ Advanced \in Seq(Workspaces) /\ Len(Advanced) = Len(ws)
        /\ DOMAIN Advanced = DOMAIN ws
        /\ \A k \in DOMAIN ws : Advanced[k].n \in 1 .. (Len(text[Advanced[k].file]) + 1)
    BY AdvanceKeeps DEF Include
  <2>5. Len(ws) \in Nat /\ OpenMax \in Nat /\ DOMAIN ws = 1 .. Len(ws)
    BY UnitAssumption DEF UnitAssumption, IInv, TypeOK
  <2> HIDE DEF w
  <2>6. /\ ws' \in Seq(Workspaces) /\ Len(ws') = Len(ws) + 1 /\ ws'[Len(ws) + 1] = w
        /\ DOMAIN ws' = 1 .. (Len(ws) + 1)
        /\ \A k \in DOMAIN ws : ws'[k] = Advanced[k]
    BY <2>1, <2>3, <2>4, <2>5
  <2>7. \A k \in DOMAIN ws' : ws'[k].n \in 1 .. (Len(text[ws'[k].file]) + 1)
    <3> SUFFICES ASSUME NEW k \in DOMAIN ws'
                 PROVE  ws'[k].n \in 1 .. (Len(text[ws'[k].file]) + 1)
      OBVIOUS
    <3>1. CASE k \in DOMAIN ws
      BY <2>4, <2>6, <3>1
    <3>2. CASE k = Len(ws) + 1
      BY <2>2, <2>3, <2>6, <3>2
    <3> QED
      BY <2>5, <2>6, <3>1, <3>2
  <2> QED
    BY <2>1, <2>5, <2>6, <2>7, MoveKeeps
<1> QED
  BY <1>1, <1>2

(* Leaving a file.                                                         *)
LEMMA FrontKeeps ==
  ASSUME IInv, InHeader
  PROVE  /\ Front(ws) \in Seq(Workspaces) /\ Len(Front(ws)) \in 1 .. OpenMax
         /\ \A k \in DOMAIN Front(ws) :
              Front(ws)[k].n \in 1 .. (Len(text[Front(ws)[k].file]) + 1)
<1>1. ws \in Seq(Workspaces) /\ Len(ws) \in 1 .. OpenMax /\ OpenMax \in Nat
  BY UnitAssumption DEF UnitAssumption, IInv, TypeOK
<1>2. Len(ws) \in Nat /\ Len(ws) > 1 /\ DOMAIN ws = 1 .. Len(ws)
  BY <1>1 DEF InHeader
<1>3. Front(ws) = SubSeq(ws, 1, Len(ws) - 1)
  BY DEF Front
<1>4. /\ Front(ws) \in Seq(Workspaces) /\ Len(Front(ws)) = Len(ws) - 1
      /\ DOMAIN Front(ws) = 1 .. (Len(ws) - 1)
      /\ \A k \in 1 .. (Len(ws) - 1) : Front(ws)[k] = ws[k]
  BY <1>1, <1>2, <1>3
<1>5. \A k \in DOMAIN ws : ws[k].n \in 1 .. (Len(text[ws[k].file]) + 1)
  BY DEF IInv, TypeOK
<1>6. \A k \in DOMAIN Front(ws) : k \in DOMAIN ws /\ Front(ws)[k] = ws[k]
  BY <1>2, <1>4
<1>7. Len(Front(ws)) \in 1 .. OpenMax
  BY <1>1, <1>2, <1>4
<1> QED
  BY <1>4, <1>5, <1>6, <1>7

LEMMA EndHeaderKeeps == ASSUME IInv, EndHeader PROVE IInv'
<1>1. /\ phase = "parse" /\ ws' = Front(ws)
      /\ UNCHANGED <<text, phase, once, passes, syms, defs, refs, imports>>
  BY DEF EndHeader, names
<1>2. InHeader
  BY DEF EndHeader
<1> QED
  BY <1>1, <1>2, FrontKeeps, MoveKeeps

LEMMA PragmaOnceKeeps == ASSUME IInv, PragmaOnce PROVE IInv'
<1>1. /\ phase = "parse" /\ Top.file \in Files
      /\ UNCHANGED <<text, phase, syms, defs, refs, imports>>
  BY FormIsTop DEF PragmaOnce, At, names
<1>2. CASE Top.file \in once
  <2>1. ws' = MovedTo(Len(Forms) + 1) /\ UNCHANGED <<once, passes>>
    BY <1>2 DEF PragmaOnce
  <2>2. Top.file \in DOMAIN text
    BY FormIsTop DEF PragmaOnce
  <2>3. Forms \in Seq(TopForms)
    BY <2>2, UnitAssumption DEF UnitAssumption, IInv, Forms
  <2>4. Len(Forms) + 1 \in 1 .. (Len(Forms) + 1)
    BY <2>3
  <2>5. Len(ws) \in 1 .. OpenMax
    BY DEF IInv, TypeOK
  <2> QED
    BY <1>1, <2>1, <2>4, <2>5, MovedToKeeps, MoveKeeps
<1>3. CASE Top.file \notin once
  <2>1. /\ ws' = Advanced /\ once' = once \cup {Top.file}
        /\ passes' = [passes EXCEPT ![Top.file] = @ + 1]
    BY <1>3 DEF PragmaOnce
  <2>2. /\ Advanced \in Seq(Workspaces) /\ Len(Advanced) = Len(ws)
        /\ DOMAIN Advanced = DOMAIN ws
        /\ \A k \in DOMAIN ws : Advanced[k].n \in 1 .. (Len(text[Advanced[k].file]) + 1)
    BY AdvanceKeeps DEF PragmaOnce
  <2>3. passes \in [Files -> Nat] /\ passes[Top.file] = 0
    BY <1>1, <1>3 DEF IInv, TypeOK, UnreadIsUnmarked
  <2>4. TypeOK'
    BY <1>1, <2>1, <2>2, <2>3 DEF IInv, TypeOK, Workspaces
  <2>5. ReadOnce' /\ UnreadIsUnmarked'
    BY <1>1, <2>1, <2>3 DEF IInv, ReadOnce, UnreadIsUnmarked
  <2> QED
    BY <1>1, <2>4, <2>5, SameNames DEF IInv, ImportsAtEnd, ImportsUsed, ToSet
<1> QED
  BY <1>2, <1>3

LEMMA PragmaModuleKeeps == ASSUME IInv, PragmaModule PROVE IInv'
<1> DEFINE w == [Advanced[Len(ws)] EXCEPT !.mod = Form.mod]
<1>1. /\ phase = "parse" /\ Form.mod \in Mods /\ Len(ws) \in DOMAIN ws
      /\ UNCHANGED <<text, phase, once, passes, syms, defs, refs, imports>>
  BY FormIsTop DEF PragmaModule, At, names, TopForms
<1>2. /\ Advanced \in Seq(Workspaces) /\ Len(Advanced) = Len(ws)
      /\ DOMAIN Advanced = DOMAIN ws
      /\ \A k \in DOMAIN ws : Advanced[k].n \in 1 .. (Len(text[Advanced[k].file]) + 1)
  BY AdvanceKeeps DEF PragmaModule
<1>3. w \in Workspaces /\ w.n = Advanced[Len(ws)].n /\ w.file = Advanced[Len(ws)].file
  <2>1. Advanced[Len(ws)] \in Workspaces
    BY <1>1, <1>2
  <2> QED
    BY <1>1, <2>1 DEF Workspaces
<1>4. ws' = [Advanced EXCEPT ![Len(ws)] = w]
  BY <1>1, <1>2 DEF PragmaModule
<1> HIDE DEF w
<1>5. /\ ws' \in Seq(Workspaces) /\ Len(ws') = Len(ws) /\ DOMAIN ws' = DOMAIN ws
      /\ \A k \in DOMAIN ws : ws'[k] = IF k = Len(ws) THEN w ELSE Advanced[k]
  BY <1>1, <1>2, <1>3, <1>4
<1>6. \A k \in DOMAIN ws' : ws'[k].n \in 1 .. (Len(text[ws'[k].file]) + 1)
  BY <1>1, <1>2, <1>3, <1>5
<1>7. Len(ws) \in 1 .. OpenMax
  BY DEF IInv, TypeOK
<1> QED
  BY <1>1, <1>5, <1>6, <1>7, MoveKeeps

-----------------------------------------------------------------------------
(* Posting a symbol without a clash keeps every other one as it is, never  *)
(* makes a final one less than final, and gives no symbol the mark extern. *)
LEMMA PostedFacts ==
  ASSUME IInv, NEW mod \in Mods, NEW d, NEW final \in BOOLEAN,
         d.id \in Ids, d.type \in Types, d.static \in BOOLEAN, ~Clash(d, final)
  PROVE  LET s == Posted(mod, d, final)
         IN  /\ DOMAIN s = DOMAIN syms \cup {d.id} /\ DOMAIN s \subseteq Ids
             /\ \A x \in DOMAIN s : s[x] \in Symbols
             /\ \A x \in DOMAIN syms : s[x].mod = syms[x].mod
             /\ \A x \in DOMAIN s : s[x].sc = "extern" => x \in DOMAIN syms /\ syms[x].sc = "extern"
             /\ \A x \in DOMAIN syms : Final(syms[x]) => Final(s[x])
             /\ final => Final(s[d.id])
<1> DEFINE s == Posted(mod, d, final)
<1>1. /\ DOMAIN syms \subseteq Ids
      /\ \A x \in DOMAIN syms : syms[x] \in Symbols
  BY DEF IInv, TypeOK
<1>2. Class(final, d.static) \in Classes \ {"extern"}
  BY DEF Class, Classes
<1>3. DOMAIN s = DOMAIN syms \cup {d.id}
  BY DEF Posted
<1>4. \A x \in DOMAIN s : x # d.id \/ (x \in DOMAIN syms /\ ~final) => s[x] = syms[x]
  BY DEF Posted
<1>5. d.id \notin DOMAIN syms \/ final =>
        s[d.id] = [mod |-> IF d.id \in DOMAIN syms THEN syms[d.id].mod ELSE mod,
                   sc |-> Class(final, d.static), type |-> d.type]
  BY DEF Posted
<1> HIDE DEF s
<1>6. ASSUME final PROVE Final(s[d.id])
  <2>1. Class(final, d.static) \in {"auto", "register"}
    BY <1>6 DEF Class
  <2> DEFINE c == Class(final, d.static)
             m == IF d.id \in DOMAIN syms THEN syms[d.id].mod ELSE mod
  <2>2. s[d.id] = [mod |-> m, sc |-> c, type |-> d.type]
    BY <1>5, <1>6, Zenon
  <2> HIDE DEF c, m
  <2>3. s[d.id].sc = c
    BY <2>2
  <2> QED
    BY <2>1, <2>3 DEF Final, c
<1>7. d.id \notin DOMAIN syms \/ final => s[d.id] \in Symbols
  <2>1. (IF d.id \in DOMAIN syms THEN syms[d.id].mod ELSE mod) \in Mods
    BY <1>1 DEF Symbols
  <2> QED
    BY <1>2, <1>5, <2>1 DEF Symbols
<1>7a. \A x \in DOMAIN s : s[x] \in Symbols
  BY <1>1, <1>3, <1>4, <1>7
<1>8. \A x \in DOMAIN syms : s[x].mod = syms[x].mod
  BY <1>3, <1>4, <1>5
<1>8a. d.id \notin DOMAIN syms \/ final => s[d.id].sc # "extern"
  BY <1>2, <1>5
<1>9. \A x \in DOMAIN s : s[x].sc = "extern" => x \in DOMAIN syms /\ syms[x].sc = "extern"
  BY <1>3, <1>4, <1>8a
<1>10. \A x \in DOMAIN syms : Final(syms[x]) => Final(s[x])
  BY <1>3, <1>4, <1>6
<1> QED
  BY <1>1, <1>3, <1>6, <1>7a, <1>8, <1>9, <1>10 DEF s

LEMMA DeclareKeeps == ASSUME IInv, Declare PROVE IInv'
<1>0. /\ phase = "parse" /\ Top.mod \in Mods
      /\ Form.id \in Ids /\ Form.type \in Types /\ Form.static \in BOOLEAN
  BY FormIsTop DEF Declare, At, TopForms
<1>1. CASE Fail
  BY <1>0, <1>1, FailKeeps
<1>2. CASE ~Fail
  <2>1. /\ ~Clash(Form, FALSE) /\ ws' = Advanced
        /\ syms' = Posted(Top.mod, Form, FALSE)
        /\ UNCHANGED <<text, phase, once, passes, defs, refs, imports>>
    BY <1>2 DEF Declare
  <2>2. /\ Advanced \in Seq(Workspaces) /\ Len(Advanced) = Len(ws)
        /\ DOMAIN Advanced = DOMAIN ws
        /\ \A k \in DOMAIN ws : Advanced[k].n \in 1 .. (Len(text[Advanced[k].file]) + 1)
    BY AdvanceKeeps DEF Declare
  <2>3. /\ DOMAIN syms' = DOMAIN syms \cup {Form.id} /\ DOMAIN syms' \subseteq Ids
        /\ \A x \in DOMAIN syms' : syms'[x] \in Symbols
        /\ \A x \in DOMAIN syms : syms'[x].mod = syms[x].mod
        /\ \A x \in DOMAIN syms' : syms'[x].sc = "extern" => x \in DOMAIN syms /\ syms[x].sc = "extern"
        /\ \A x \in DOMAIN syms : Final(syms[x]) => Final(syms'[x])
    BY <1>0, <2>1, PostedFacts
  <2>4. TypeOK'
    BY <2>1, <2>2, <2>3 DEF IInv, TypeOK, Workspaces
  <2>5. DefinedOnce' /\ DefinedIsFinal'
    BY <2>1, <2>3 DEF IInv, DefinedOnce, DefinedIsFinal, Final
  <2>6. MarkedIsUsed'
    BY <2>1, <2>3 DEF IInv, MarkedIsUsed
  <2> QED
    BY <1>0, <2>1, <2>4, <2>5, <2>6, SameWork DEF IInv, ImportsAtEnd, ImportsUsed, ToSet
<1> QED
  BY <1>1, <1>2

LEMMA DefineKeeps == ASSUME IInv, Define PROVE IInv'
<1>0. /\ phase = "parse" /\ Top.mod \in Mods
      /\ Form.id \in Ids /\ Form.type \in Types /\ Form.static \in BOOLEAN
      /\ Form.uses \subseteq Ids /\ Form.inits \subseteq Ids
  BY FormIsTop DEF Define, At, TopForms
<1>1. CASE Fail
  BY <1>0, <1>1, FailKeeps
<1>2. CASE ~Fail
  <2> DEFINE s == Posted(Top.mod, Form, TRUE)
  <2>1. /\ ~Clash(Form, TRUE) /\ ws' = Advanced
        /\ Form.uses \cup Form.inits \subseteq DOMAIN s
        /\ syms' = Marked(s, Form.uses)
        /\ defs' = Append(defs, <<Top.mod, Form.id>>)
        /\ refs' = refs \cup RefsTo(s, Form.uses \cup Form.inits)
        /\ UNCHANGED <<text, phase, once, passes, imports>>
    BY <1>2 DEF Define
  <2>2. /\ Advanced \in Seq(Workspaces) /\ Len(Advanced) = Len(ws)
        /\ DOMAIN Advanced = DOMAIN ws
        /\ \A k \in DOMAIN ws : Advanced[k].n \in 1 .. (Len(text[Advanced[k].file]) + 1)
    BY AdvanceKeeps DEF Define
  <2>3. /\ DOMAIN s = DOMAIN syms \cup {Form.id} /\ DOMAIN s \subseteq Ids
        /\ \A x \in DOMAIN s : s[x] \in Symbols
        /\ \A x \in DOMAIN syms : s[x].mod = syms[x].mod
        /\ \A x \in DOMAIN s : s[x].sc = "extern" => x \in DOMAIN syms /\ syms[x].sc = "extern"
        /\ \A x \in DOMAIN syms : Final(syms[x]) => Final(s[x])
        /\ Final(s[Form.id])
    BY <1>0, <2>1, PostedFacts
  <2> HIDE DEF s
  <2>4. /\ DOMAIN syms' = DOMAIN s
        /\ \A x \in DOMAIN s : syms'[x] =
             IF x \in Form.uses /\ s[x].sc = "none" THEN [s[x] EXCEPT !.sc = "extern"] ELSE s[x]
    BY <2>1 DEF Marked
  <2>5. /\ \A x \in DOMAIN s : syms'[x] \in Symbols
        /\ \A x \in DOMAIN s : syms'[x].mod = s[x].mod
        /\ \A x \in DOMAIN s : Final(s[x]) => syms'[x] = s[x]
        /\ \A x \in DOMAIN s : syms'[x].sc = "extern" => x \in Form.uses \/ s[x].sc = "extern"
    <3> DEFINE marked(x) == [s[x] EXCEPT !.sc = "extern"]
    <3>1. \A x \in DOMAIN s : marked(x) \in Symbols /\ marked(x).mod = s[x].mod
      BY <2>3 DEF Symbols, Classes
    <3>2. \A x \in DOMAIN s : syms'[x] = IF x \in Form.uses /\ s[x].sc = "none"
                                         THEN marked(x) ELSE s[x]
      BY <2>4
    <3> HIDE DEF marked
    <3> QED
      BY <2>3, <3>1, <3>2 DEF Final
  <2>6. /\ refs \subseteq refs' /\ \A x \in Form.uses : <<s[x].mod, x>> \in refs'
        /\ refs' \subseteq Mods \X Ids
    <3>1. RefsTo(s, Form.uses \cup Form.inits) =
            {<<s[x].mod, x>> : x \in Form.uses \cup Form.inits}
      BY DEF RefsTo
    <3>2. \A x \in DOMAIN s : s[x].mod \in Mods
      BY <2>3 DEF Symbols
    <3>3. refs \subseteq Mods \X Ids
      BY DEF IInv, TypeOK
    <3>4. RefsTo(s, Form.uses \cup Form.inits) \subseteq Mods \X Ids
      <4>1. \A x \in Form.uses \cup Form.inits : <<s[x].mod, x>> \in Mods \X Ids
        BY <1>0, <2>1, <3>2
      <4> QED
        BY <3>1, <4>1, Zenon
    <3>5. \A x \in Form.uses : <<s[x].mod, x>> \in RefsTo(s, Form.uses \cup Form.inits)
      BY <3>1
    <3> QED
      BY <2>1, <3>3, <3>4, <3>5
  <2>7. /\ defs \in Seq(Mods \X Ids) /\ defs' \in Seq(Mods \X Ids)
        /\ Len(defs') = Len(defs) + 1 /\ defs'[Len(defs) + 1] = <<Top.mod, Form.id>>
        /\ Len(defs) \in Nat
        /\ DOMAIN defs = 1 .. Len(defs) /\ DOMAIN defs' = 1 .. (Len(defs) + 1)
        /\ \A k \in DOMAIN defs : defs'[k] = defs[k]
    BY <1>0, <2>1 DEF IInv, TypeOK
  <2>8. TypeOK'
    BY <2>1, <2>2, <2>3, <2>4, <2>5, <2>6, <2>7 DEF IInv, TypeOK, Workspaces
  <2>9. \A k \in DOMAIN defs : defs[k][2] # Form.id
    BY <2>1 DEF Clash, IInv, DefinedIsFinal
  <2>10. DefinedOnce'
    <3> SUFFICES ASSUME NEW k \in DOMAIN defs', NEW m \in DOMAIN defs',
                        defs'[k][2] = defs'[m][2]
                 PROVE  k = m
      BY DEF DefinedOnce
    <3>1. \A i, j \in DOMAIN defs : defs[i][2] = defs[j][2] => i = j
      BY DEF IInv, DefinedOnce
    <3>2. defs'[Len(defs) + 1][2] = Form.id
      BY <2>7
    <3>3. \A i \in DOMAIN defs : defs'[i][2] = defs[i][2] /\ defs'[i][2] # Form.id
      BY <2>7, <2>9
    <3>4. \A i \in DOMAIN defs' : i \in DOMAIN defs \/ i = Len(defs) + 1
      BY <2>7
    <3> QED
      BY <3>1, <3>2, <3>3, <3>4
  <2>11. DefinedIsFinal'
    <3> SUFFICES ASSUME NEW k \in DOMAIN defs'
                 PROVE  defs'[k][2] \in DOMAIN syms' /\ Final(syms'[defs'[k][2]])
      BY DEF DefinedIsFinal, Final
    <3>1. CASE k \in DOMAIN defs
      <4>1. defs[k][2] \in DOMAIN syms /\ Final(syms[defs[k][2]])
        BY <3>1 DEF IInv, DefinedIsFinal
      <4> QED
        BY <2>3, <2>4, <2>5, <2>7, <3>1, <4>1
    <3>2. CASE k = Len(defs) + 1
      BY <2>3, <2>4, <2>5, <2>7, <3>2
    <3> QED
      BY <2>7, <3>1, <3>2
  <2>12. MarkedIsUsed'
    <3> SUFFICES ASSUME NEW x \in DOMAIN s, syms'[x].sc = "extern"
                 PROVE  <<syms'[x].mod, x>> \in refs'
      BY <2>4 DEF MarkedIsUsed
    <3>1. CASE x \in Form.uses
      BY <2>5, <2>6, <3>1
    <3>2. CASE x \notin Form.uses
      <4>1. x \in DOMAIN syms /\ syms[x].sc = "extern" /\ syms'[x].mod = syms[x].mod
        BY <2>3, <2>5, <3>2
      <4> QED
        BY <2>6, <4>1 DEF IInv, MarkedIsUsed
    <3> QED
      BY <3>1, <3>2
  <2>13. imports' = {}
    BY <1>0, <2>1 DEF IInv, ImportsAtEnd
  <2> QED
    BY <1>0, <2>1, <2>8, <2>10, <2>11, <2>12, <2>13, SameWork DEF IInv, ImportsAtEnd, ImportsUsed
<1> QED
  BY <1>1, <1>2

LEMMA EndModuleKeeps == ASSUME IInv, EndModule PROVE IInv'
<1>1. /\ phase' = "done"
      /\ UNCHANGED <<text, ws, once, passes, syms, defs, refs>>
      /\ imports' = {<<syms[x].mod, x>> : x \in {y \in DOMAIN syms :
                       syms[y].sc = "extern" /\ syms[y].mod # Top.mod}}
  BY DEF EndModule, work, names
<1>2. imports' \subseteq refs
  BY <1>1 DEF IInv, MarkedIsUsed
<1>3. ASSUME NEW r \in imports', r \in ToSet(defs) PROVE FALSE
  <2>1. PICK x \in DOMAIN syms : syms[x].sc = "extern" /\ r = <<syms[x].mod, x>>
    BY <1>1
  <2>2. PICK k \in DOMAIN defs : defs[k] = r
    BY <1>3 DEF ToSet
  <2>3. Final(syms[x])
    BY <2>1, <2>2 DEF IInv, DefinedIsFinal
  <2> QED
    BY <2>1, <2>3 DEF Final
<1>4. TypeOK'
  BY <1>1, <1>2 DEF IInv, TypeOK, Workspaces
<1>5. ImportsUsed'
  BY <1>1, <1>2, <1>3 DEF ImportsUsed, ToSet
<1> QED
  BY <1>1, <1>4, <1>5, SameNames, SameWork DEF IInv, ImportsAtEnd

LEMMA NextKeeps == IInv /\ [Next]_vars => IInv'
<1> SUFFICES ASSUME IInv, [Next]_vars PROVE IInv'
  OBVIOUS
<1>1. CASE UNCHANGED vars
  <2>1. UNCHANGED <<text, phase, ws, once, passes, syms, defs, refs, imports>>
    BY <1>1 DEF vars, work, names
  <2>2. TypeOK'
    BY <2>1 DEF IInv, TypeOK, Workspaces
  <2> QED
    BY <2>1, <2>2, SameNames, SameWork DEF IInv, ImportsAtEnd, ImportsUsed, ToSet
<1> QED
  BY <1>1, IncludeKeeps, PragmaOnceKeeps, PragmaModuleKeeps, DeclareKeeps, DefineKeeps,
     EndHeaderKeeps, EndModuleKeeps DEF Next

-----------------------------------------------------------------------------
(* The inductive invariant holds of every compilation.                     *)
THEOREM Invariance == Spec => []IInv
BY InitHolds, NextKeeps, PTL DEF Spec

(* The compiler's tables keep their types, and no more files are open than *)
(* can be (process_include).                                               *)
THEOREM TypeCorrect == Spec => []TypeOK
<1>1. IInv => TypeOK
  BY DEF IInv
<1> QED
  BY <1>1, Invariance, PTL

(* No header that says #pragma once is read beyond it twice, whatever      *)
(* includes what (parse_pragma_directive, check_once).                     *)
THEOREM ReadsOnce == Spec => []ReadOnce
<1>1. IInv => ReadOnce
  BY DEF IInv
<1> QED
  BY <1>1, Invariance, PTL

(* No name is defined twice in a module, however it is declared before,    *)
(* between and after (post_symbol).                                        *)
THEOREM DefinesOnce == Spec => []DefinedOnce
<1>1. IInv => DefinedOnce
  BY DEF IInv
<1> QED
  BY <1>1, Invariance, PTL

(* Nothing is imported that the code does not refer to, or defines         *)
(* (compile_module_to_wat's walk over the symbols).                        *)
THEOREM ImportsAreUsed == Spec => []ImportsUsed
<1>1. IInv => ImportsUsed
  BY DEF IInv
<1> QED
  BY <1>1, Invariance, PTL
-----------------------------------------------------------------------------
(* That nothing is missing among the imports is said of careful programs   *)
(* (Unit.tla); it needs an invariant of its own.  Every open file knows    *)
(* the module of its next form; a name of the module's own was posted for  *)
(* it, any other was only declared or marked; and a reference names the    *)
(* module its symbol has, and has marked the symbol if it is another's.    *)
Here == ModName[Main]

Ours == OwnNames(text)

KnowsPlace(w) == w.n <= Len(text[w.file]) => InModule(text, w.file, w.n, w.mod)

WorkspacesKnow ==
  /\ ws[1].file = Main /\ ws[1].mod = Here
  /\ \A k \in DOMAIN ws : KnowsPlace(ws[k])

SymbolsKnow ==
  \A x \in DOMAIN syms :
    IF x \in Ours THEN syms[x].mod = Here ELSE syms[x].sc \in {"none", "extern"}

RefsKnow ==
  \A r \in refs : /\ r[2] \in DOMAIN syms /\ r[1] = syms[r[2]].mod
                  /\ r[2] \in Ours \/ syms[r[2]].sc = "extern"

CarefulInv == WorkspacesKnow /\ SymbolsKnow /\ RefsKnow /\ ReferencesImported

RInv == IInv /\ (Careful(text) => CarefulInv)

(* The module of a line, from the line before.                             *)
LEMMA ModuleOfLines ==
  ASSUME NEW f, NEW n \in Nat \ {0}
  PROVE  /\ InModule(text, f, 1, ModName[f])
         /\ \A m : InModule(text, f, n, m) /\ text[f][n].op # "module"
                     => InModule(text, f, n + 1, m)
         /\ text[f][n].op = "module" => InModule(text, f, n + 1, text[f][n].mod)
<1> DEFINE marks(k) == text[f][k].op = "module"
<1>1. \A m, i : InModule(text, f, i, m) <=>
        \/ m = ModName[f] /\ \A k \in 1 .. i - 1 : ~marks(k)
        \/ \E k \in 1 .. i - 1 : /\ marks(k) /\ text[f][k].mod = m
                                 /\ \A j \in k + 1 .. i - 1 : ~marks(j)
  BY DEF InModule
<1>2. marks(n) <=> text[f][n].op = "module"
  OBVIOUS
<1>3. n + 1 - 1 = n /\ 1 .. n = 1 .. n - 1 \cup {n} /\ 1 .. 1 - 1 = {}
  OBVIOUS
<1> HIDE DEF marks
<1>4. InModule(text, f, 1, ModName[f])
  BY <1>1, <1>3
<1>5. ASSUME NEW m, InModule(text, f, n, m), ~marks(n)
      PROVE  InModule(text, f, n + 1, m)
  <2>1. CASE m = ModName[f] /\ \A k \in 1 .. n - 1 : ~marks(k)
    BY <1>1, <1>3, <1>5, <2>1
  <2>2. CASE \E k \in 1 .. n - 1 : /\ marks(k) /\ text[f][k].mod = m
                                   /\ \A j \in k + 1 .. n - 1 : ~marks(j)
    <3>1. PICK k \in 1 .. n - 1 : /\ marks(k) /\ text[f][k].mod = m
                                  /\ \A j \in k + 1 .. n - 1 : ~marks(j)
      BY <2>2
    <3>2. k + 1 .. n = k + 1 .. n - 1 \cup {n} /\ k \in 1 .. n
      OBVIOUS
    <3> QED
      BY <1>1, <1>3, <1>5, <3>1, <3>2
  <2> QED
    BY <1>1, <1>5, <2>1, <2>2
<1>6. ASSUME marks(n) PROVE InModule(text, f, n + 1, text[f][n].mod)
  <2>1. n + 1 .. n = {} /\ n \in 1 .. n
    OBVIOUS
  <2> QED
    BY <1>1, <1>3, <1>6, <2>1
<1> QED
  BY <1>2, <1>4, <1>5, <1>6

(* Moving changes the place in the file at the top and nothing else.       *)
LEMMA MovedToFacts ==
  ASSUME IInv, NEW n \in Nat
  PROVE  /\ DOMAIN MovedTo(n) = DOMAIN ws /\ Len(ws) \in DOMAIN ws /\ 1 \in DOMAIN ws
         /\ \A k \in DOMAIN ws :
              /\ MovedTo(n)[k].file = ws[k].file /\ MovedTo(n)[k].mod = ws[k].mod
              /\ MovedTo(n)[k].n = IF k = Len(ws) THEN n ELSE ws[k].n
<1>1. ws \in Seq(Workspaces) /\ Len(ws) \in 1 .. OpenMax /\ OpenMax \in Nat
  BY UnitAssumption DEF UnitAssumption, IInv, TypeOK
<1>2. /\ Len(ws) \in DOMAIN ws /\ 1 \in DOMAIN ws
      /\ \A k \in DOMAIN ws : ws[k] \in Workspaces
  BY <1>1
<1> DEFINE w == ws[Len(ws)]
           next == [w EXCEPT !.n = n]
<1>3. MovedTo(n) = [ws EXCEPT ![Len(ws)] = next]
  BY <1>2 DEF MovedTo
<1>4. next.n = n /\ next.file = w.file /\ next.mod = w.mod
  BY <1>2 DEF Workspaces
<1> HIDE DEF next
<1>5. /\ DOMAIN MovedTo(n) = DOMAIN ws
      /\ \A k \in DOMAIN ws : MovedTo(n)[k] = IF k = Len(ws) THEN next ELSE ws[k]
  BY <1>1, <1>2, <1>3
<1> QED
  BY <1>2, <1>4, <1>5

(* Advancing over any form but #pragma module keeps the module.            *)
LEMMA AdvanceKnows ==
  ASSUME IInv, WorkspacesKnow, NEW op, op # "module", At(op)
  PROVE  /\ Advanced[1].file = Main /\ Advanced[1].mod = Here
         /\ \A k \in DOMAIN ws : KnowsPlace(Advanced[k])
<1>1. /\ Top = ws[Len(ws)] /\ Len(ws) \in DOMAIN ws /\ Top.n \in Nat \ {0}
      /\ Form.op = op /\ Top.n <= Len(Forms)
  <2>1. /\ Top = ws[Len(ws)] /\ Len(ws) \in DOMAIN ws /\ Form.op = op
        /\ Top.file \in DOMAIN text
    BY FormIsTop
  <2>2. Top.n \in 1 .. (Len(Forms) + 1) /\ Len(Forms) \in Nat
    BY <2>1, UnitAssumption DEF UnitAssumption, IInv, TypeOK, Forms
  <2> QED
    BY <2>1, <2>2 DEF At
<1>2. /\ DOMAIN ws = DOMAIN Advanced /\ 1 \in DOMAIN ws
      /\ \A k \in DOMAIN ws :
           /\ Advanced[k].file = ws[k].file /\ Advanced[k].mod = ws[k].mod
           /\ Advanced[k].n = IF k = Len(ws) THEN Top.n + 1 ELSE ws[k].n
  BY <1>1, MovedToFacts DEF Advanced
<1>3. ASSUME NEW k \in DOMAIN ws PROVE KnowsPlace(Advanced[k])
  <2>1. CASE k = Len(ws)
    <3>1. KnowsPlace(ws[k]) /\ ws[k] = Top
      BY <1>1, <2>1 DEF WorkspacesKnow
    <3>2. InModule(text, Top.file, Top.n, Top.mod)
      BY <1>1, <3>1 DEF KnowsPlace, Forms
    <3>3. text[Top.file][Top.n].op # "module"
      BY <1>1 DEF Form, Forms
    <3>4. InModule(text, Top.file, Top.n + 1, Top.mod)
      BY <1>1, <3>2, <3>3, ModuleOfLines
    <3> QED
      BY <1>1, <1>2, <2>1, <3>4 DEF KnowsPlace
  <2>2. CASE k # Len(ws)
    BY <1>2, <2>2 DEF WorkspacesKnow, KnowsPlace
  <2> QED
    BY <2>1, <2>2
<1> QED
  BY <1>2, <1>3 DEF WorkspacesKnow

(* A step that posts and refers to nothing.                                *)
LEMMA SameNamesKnown ==
  ASSUME CarefulInv, phase' # "done", UNCHANGED <<text, syms, refs>>
  PROVE  SymbolsKnow' /\ RefsKnow' /\ ReferencesImported'
BY DEF CarefulInv, SymbolsKnow, RefsKnow, ReferencesImported, Ours

LEMMA FailKnows == ASSUME CarefulInv, Fail PROVE CarefulInv'
<1>1. phase' = "error" /\ UNCHANGED <<text, ws, syms, refs>>
  BY DEF Fail, work, names
<1>2. WorkspacesKnow'
  BY <1>1 DEF CarefulInv, WorkspacesKnow, KnowsPlace
<1> QED
  BY <1>1, <1>2, SameNamesKnown DEF CarefulInv

LEMMA MoveKnows ==
  ASSUME CarefulInv, phase = "parse", UNCHANGED <<text, phase, syms, refs>>,
         ws'[1].file = Main, ws'[1].mod = Here, \A k \in DOMAIN ws' : KnowsPlace(ws'[k])
  PROVE  CarefulInv'
<1>1. WorkspacesKnow'
  BY DEF WorkspacesKnow, KnowsPlace
<1> QED
  BY <1>1, SameNamesKnown DEF CarefulInv

LEMMA IncludeKnows == ASSUME IInv, CarefulInv, Include PROVE CarefulInv'
<1>1. CASE Fail
  BY <1>1, FailKnows
<1>2. CASE ~Fail
  <2> DEFINE w == [file |-> Form.file, n |-> 1, mod |-> ModName[Form.file]]
  <2>1. /\ phase = "parse" /\ ws' = Append(Advanced, w)
        /\ UNCHANGED <<text, phase, syms, refs>>
    BY <1>2 DEF Include, At, names
  <2>2. /\ Advanced \in Seq(Workspaces) /\ DOMAIN Advanced = DOMAIN ws
        /\ Len(Advanced) = Len(ws)
    BY AdvanceKeeps DEF Include
  <2>3. Len(ws) \in Nat \ {0} /\ DOMAIN ws = 1 .. Len(ws)
    BY UnitAssumption DEF UnitAssumption, IInv, TypeOK
  <2>4. /\ Advanced[1].file = Main /\ Advanced[1].mod = Here
        /\ \A k \in DOMAIN ws : KnowsPlace(Advanced[k])
    BY AdvanceKnows DEF Include, CarefulInv
  <2>5. KnowsPlace(w)
    BY ModuleOfLines DEF KnowsPlace
  <2> HIDE DEF w
  <2>6. /\ DOMAIN ws' = 1 .. (Len(ws) + 1) /\ ws'[Len(ws) + 1] = w
        /\ \A k \in DOMAIN ws : ws'[k] = Advanced[k]
    BY <2>1, <2>2, <2>3
  <2>7. \A k \in DOMAIN ws' : k \in DOMAIN ws \/ k = Len(ws) + 1
    BY <2>3, <2>6
  <2>8. \A k \in DOMAIN ws' : KnowsPlace(ws'[k])
    BY <2>4, <2>5, <2>6, <2>7
  <2>9. ws'[1] = Advanced[1]
    BY <2>3, <2>6
  <2> QED
    BY <2>1, <2>4, <2>8, <2>9, MoveKnows
<1> QED
  BY <1>1, <1>2

LEMMA EndHeaderKnows == ASSUME IInv, CarefulInv, EndHeader PROVE CarefulInv'
<1>1. /\ phase = "parse" /\ InHeader /\ ws' = Front(ws)
      /\ UNCHANGED <<text, phase, syms, refs>>
  BY DEF EndHeader, names
<1>2. ws \in Seq(Workspaces) /\ Len(ws) \in Nat /\ Len(ws) > 1
  BY <1>1, UnitAssumption DEF UnitAssumption, IInv, TypeOK, InHeader
<1>3. ws' = SubSeq(ws, 1, Len(ws) - 1)
  BY <1>1 DEF Front
<1>4. /\ DOMAIN ws' = 1 .. (Len(ws) - 1) /\ DOMAIN ws = 1 .. Len(ws)
      /\ \A k \in 1 .. (Len(ws) - 1) : ws'[k] = ws[k]
  BY <1>2, <1>3
<1>5. 1 \in DOMAIN ws' /\ \A k \in DOMAIN ws' : k \in DOMAIN ws /\ ws'[k] = ws[k]
  BY <1>2, <1>4
<1> QED
  BY <1>1, <1>5, MoveKnows DEF CarefulInv, WorkspacesKnow

LEMMA PragmaOnceKnows == ASSUME IInv, CarefulInv, PragmaOnce PROVE CarefulInv'
<1>1. phase = "parse" /\ UNCHANGED <<text, phase, syms, refs>>
  BY DEF PragmaOnce, At, names
<1>2. CASE Top.file \in once
  <2>1. ws' = MovedTo(Len(Forms) + 1)
    BY <1>2 DEF PragmaOnce
  <2>2. Top = ws[Len(ws)] /\ Top.file \in DOMAIN text
    BY FormIsTop DEF PragmaOnce
  <2>3. Len(Forms) \in Nat
    BY <2>2, UnitAssumption DEF UnitAssumption, IInv, Forms
  <2>4. /\ DOMAIN ws' = DOMAIN ws /\ Len(ws) \in DOMAIN ws /\ 1 \in DOMAIN ws
        /\ \A k \in DOMAIN ws :
             /\ ws'[k].file = ws[k].file /\ ws'[k].mod = ws[k].mod
             /\ ws'[k].n = IF k = Len(ws) THEN Len(Forms) + 1 ELSE ws[k].n
    BY <2>1, <2>3, MovedToFacts
  <2>5. ASSUME NEW k \in DOMAIN ws' PROVE KnowsPlace(ws'[k])
    <3>1. CASE k = Len(ws)
      <4>1. ws'[k].n = Len(text[ws'[k].file]) + 1
        BY <2>2, <2>4, <3>1 DEF Forms
      <4>2. Len(text[ws'[k].file]) \in Nat
        BY <2>2, <2>3, <2>4, <3>1 DEF Forms
      <4> QED
        BY <4>1, <4>2 DEF KnowsPlace
    <3>2. CASE k # Len(ws)
      BY <2>4, <2>5, <3>2 DEF CarefulInv, WorkspacesKnow, KnowsPlace
    <3> QED
      BY <3>1, <3>2
  <2> QED
    BY <1>1, <2>4, <2>5, MoveKnows DEF CarefulInv, WorkspacesKnow
<1>3. CASE Top.file \notin once
  <2>1. ws' = Advanced
    BY <1>3 DEF PragmaOnce
  <2>2. DOMAIN ws' = DOMAIN ws
    BY <2>1, AdvanceKeeps DEF PragmaOnce
  <2>3. /\ Advanced[1].file = Main /\ Advanced[1].mod = Here
        /\ \A k \in DOMAIN ws : KnowsPlace(Advanced[k])
    BY AdvanceKnows DEF PragmaOnce, CarefulInv
  <2> QED
    BY <1>1, <2>1, <2>2, <2>3, MoveKnows
<1> QED
  BY <1>2, <1>3

(* The first file never says #pragma module, so its module stays.          *)
LEMMA PragmaModuleKnows ==
  ASSUME IInv, Careful(text), CarefulInv, PragmaModule
  PROVE  CarefulInv'
<1>1. /\ phase = "parse" /\ UNCHANGED <<text, phase, syms, refs>>
      /\ ws' = [Advanced EXCEPT ![Len(ws)].mod = Form.mod]
  BY DEF PragmaModule, At, names
<1>2. /\ Top = ws[Len(ws)] /\ Len(ws) \in Nat \ {0} /\ Len(ws) \in DOMAIN ws
      /\ Top.n \in DOMAIN Forms /\ Form.op = "module" /\ Top.file \in DOMAIN text
  BY FormIsTop DEF PragmaModule
<1>3. Top.n \in Nat \ {0} /\ Len(text[Top.file]) \in Nat
  BY <1>2, UnitAssumption DEF UnitAssumption, IInv, Forms
<1>4. /\ DOMAIN Advanced = DOMAIN ws /\ 1 \in DOMAIN ws
      /\ \A k \in DOMAIN ws :
           /\ Advanced[k].file = ws[k].file /\ Advanced[k].mod = ws[k].mod
           /\ Advanced[k].n = IF k = Len(ws) THEN Top.n + 1 ELSE ws[k].n
  BY <1>3, MovedToFacts DEF Advanced
<1>5. \A k \in DOMAIN ws : Advanced[k] \in Workspaces
  BY <1>4, AdvanceKeeps DEF PragmaModule
<1> DEFINE w == [Advanced[Len(ws)] EXCEPT !.mod = Form.mod]
<1>6. ws' = [Advanced EXCEPT ![Len(ws)] = w]
  BY <1>1, <1>2, <1>4
<1>7. w.file = Top.file /\ w.n = Top.n + 1 /\ w.mod = Form.mod
  BY <1>2, <1>4, <1>5 DEF Workspaces
<1> HIDE DEF w
<1>8. /\ DOMAIN ws' = DOMAIN ws
      /\ \A k \in DOMAIN ws : ws'[k] = IF k = Len(ws) THEN w ELSE Advanced[k]
  BY <1>4, <1>6
<1>9. KnowsPlace(w)
  <2>1. InModule(text, Top.file, Top.n + 1, Form.mod)
    BY <1>2, <1>3, ModuleOfLines DEF Form, Forms
  <2> QED
    BY <1>7, <2>1 DEF KnowsPlace
<1>10. Top.file # Main
  BY <1>2 DEF Careful, Form, Forms, Ours
<1>11. Len(ws) # 1
  BY <1>2, <1>10 DEF CarefulInv, WorkspacesKnow
<1>12. ASSUME NEW k \in DOMAIN ws' PROVE KnowsPlace(ws'[k])
  <2>1. CASE k = Len(ws)
    BY <1>2, <1>8, <1>9, <2>1
  <2>2. CASE k # Len(ws)
    BY <1>4, <1>8, <2>2 DEF CarefulInv, WorkspacesKnow, KnowsPlace
  <2> QED
    BY <2>1, <2>2
<1> QED
  BY <1>1, <1>4, <1>8, <1>11, <1>12, MoveKnows DEF CarefulInv, WorkspacesKnow

-----------------------------------------------------------------------------
(* What a careful program posts: its own names for itself, and of others   *)
(* open declarations only.                                                 *)
MayPost(mod, d, final) ==
  /\ d.id \in Ours => mod = Here
  /\ final \/ d.static => d.id \in Ours

(* Then a symbol of the module's own is the module's; any other is at most *)
(* declared, and stays marked if it was.                                   *)
LEMMA PostedKnows ==
  ASSUME IInv, SymbolsKnow, NEW mod \in Mods, NEW d, NEW final \in BOOLEAN,
         d.id \in Ids, d.type \in Types, d.static \in BOOLEAN, ~Clash(d, final),
         MayPost(mod, d, final)
  PROVE  LET s == Posted(mod, d, final)
         IN  /\ \A x \in DOMAIN s :
                  IF x \in Ours THEN s[x].mod = Here ELSE s[x].sc \in {"none", "extern"}
             /\ \A x \in DOMAIN syms \ Ours : s[x] = syms[x]
<1> DEFINE s == Posted(mod, d, final)
<1>1. DOMAIN s = DOMAIN syms \cup {d.id} /\ \A x \in DOMAIN syms : s[x].mod = syms[x].mod
  BY PostedFacts
<1>2. \A x \in DOMAIN s : x # d.id \/ (x \in DOMAIN syms /\ ~final) => s[x] = syms[x]
  BY DEF Posted
<1>3. d.id \notin DOMAIN syms =>
        s[d.id] = [mod |-> mod, sc |-> Class(final, d.static), type |-> d.type]
  BY DEF Posted
<1> HIDE DEF s
<1>4. \A x \in DOMAIN s : x \in Ours => s[x].mod = Here
  BY <1>1, <1>3 DEF SymbolsKnow, MayPost
<1>5. \A x \in DOMAIN syms \ Ours : s[x] = syms[x]
  BY <1>1, <1>2 DEF MayPost
<1>6. ASSUME d.id \notin DOMAIN syms, d.id \notin Ours PROVE s[d.id].sc = "none"
  BY <1>3, <1>6 DEF Class, MayPost
<1>7. \A x \in DOMAIN s : x \notin Ours => s[x].sc \in {"none", "extern"}
  BY <1>1, <1>5, <1>6 DEF SymbolsKnow
<1> QED
  BY <1>4, <1>5, <1>7 DEF s

LEMMA DeclareKnows ==
  ASSUME IInv, Careful(text), CarefulInv, Declare
  PROVE  CarefulInv'
<1>0. /\ phase = "parse" /\ Top.mod \in Mods /\ Top = ws[Len(ws)] /\ Len(ws) \in DOMAIN ws
      /\ Top.file \in DOMAIN text /\ Top.n \in DOMAIN Forms /\ Top.n <= Len(Forms)
      /\ Form.op = "declare"
      /\ Form.id \in Ids /\ Form.type \in Types /\ Form.static \in BOOLEAN
  BY FormIsTop DEF Declare, At, TopForms
<1>1. CASE Fail
  BY <1>1, FailKnows
<1>2. CASE ~Fail
  <2>1. /\ ~Clash(Form, FALSE) /\ ws' = Advanced
        /\ syms' = Posted(Top.mod, Form, FALSE)
        /\ UNCHANGED <<text, phase, refs>>
    BY <1>2 DEF Declare
  <2>2. InModule(text, Top.file, Top.n, Top.mod)
    BY <1>0 DEF CarefulInv, WorkspacesKnow, KnowsPlace, Forms
  <2>3. Form.id \in Ours => Top.mod = Here
    BY <1>0, <2>2 DEF OwnNames, Ours, Here, Form, Forms
  <2>4. Form.static => Form.id \in Ours
    BY <1>0 DEF Careful, Form, Forms, Ours
  <2>5. SymbolsKnow
    BY DEF CarefulInv
  <2>6. /\ \A x \in DOMAIN syms' :
             IF x \in Ours THEN syms'[x].mod = Here ELSE syms'[x].sc \in {"none", "extern"}
        /\ \A x \in DOMAIN syms \ Ours : syms'[x] = syms[x]
    <3>1. MayPost(Top.mod, Form, FALSE)
      BY <2>3, <2>4 DEF MayPost
    <3> QED
      BY <1>0, <2>1, <2>5, <3>1, PostedKnows
  <2>6a. /\ DOMAIN syms' = DOMAIN syms \cup {Form.id}
         /\ \A x \in DOMAIN syms : syms'[x].mod = syms[x].mod
    BY <1>0, <2>1, PostedFacts
  <2>7. SymbolsKnow'
    BY <2>1, <2>6 DEF SymbolsKnow, Here, Ours
  <2>8. RefsKnow'
    BY <2>1, <2>6, <2>6a DEF CarefulInv, RefsKnow, Ours
  <2>9. WorkspacesKnow'
    <3>1. DOMAIN ws' = DOMAIN ws
      BY <2>1, AdvanceKeeps DEF Declare
    <3> QED
      BY <2>1, <3>1, AdvanceKnows DEF Declare, CarefulInv, WorkspacesKnow, KnowsPlace, Here
  <2>10. ReferencesImported'
    BY <1>0, <2>1 DEF ReferencesImported
  <2> QED
    BY <2>7, <2>8, <2>9, <2>10 DEF CarefulInv
<1> QED
  BY <1>1, <1>2

(* A definition is in the first file, so for its module; what it mentions  *)
(* and is not the module's own is marked with the reference.               *)
LEMMA DefineKnows ==
  ASSUME IInv, Careful(text), CarefulInv, Define
  PROVE  CarefulInv'
<1>0. /\ phase = "parse" /\ Top.mod \in Mods /\ Top = ws[Len(ws)] /\ Len(ws) \in Nat \ {0}
      /\ Top.file \in DOMAIN text /\ Top.n \in DOMAIN Forms /\ Form.op = "define"
      /\ Form.id \in Ids /\ Form.type \in Types /\ Form.static \in BOOLEAN
  BY FormIsTop DEF Define, At, TopForms
<1>1. CASE Fail
  BY <1>1, FailKnows
<1>2. CASE ~Fail
  <2> DEFINE s == Posted(Top.mod, Form, TRUE)
             named == Form.uses \cup Form.inits
  <2>1. /\ ~InHeader /\ ~Clash(Form, TRUE) /\ ws' = Advanced
        /\ named \subseteq DOMAIN s
        /\ syms' = Marked(s, Form.uses)
        /\ refs' = refs \cup RefsTo(s, named)
        /\ UNCHANGED <<text, phase>>
    BY <1>2 DEF Define
  <2>2. Top.mod = Here
    BY <1>0, <2>1 DEF InHeader, CarefulInv, WorkspacesKnow
  <2>3. Form.id \in Ours /\ Form.inits \subseteq Ours
    BY <1>0 DEF Careful, Form, Forms, Ours
  <2>4. SymbolsKnow /\ RefsKnow
    BY DEF CarefulInv
  <2>5. /\ \A x \in DOMAIN s :
             IF x \in Ours THEN s[x].mod = Here ELSE s[x].sc \in {"none", "extern"}
        /\ \A x \in DOMAIN syms \ Ours : s[x] = syms[x]
    <3>1. MayPost(Top.mod, Form, TRUE)
      BY <2>2, <2>3 DEF MayPost
    <3> QED
      BY <1>0, <2>1, <2>4, <3>1, PostedKnows
  <2>6. /\ DOMAIN s = DOMAIN syms \cup {Form.id} /\ \A x \in DOMAIN s : s[x] \in Symbols
        /\ \A x \in DOMAIN syms : s[x].mod = syms[x].mod
    BY <1>0, <2>1, PostedFacts
  <2> HIDE DEF s
  <2>7. /\ DOMAIN syms' = DOMAIN s
        /\ \A x \in DOMAIN s : syms'[x] =
             IF x \in Form.uses /\ s[x].sc = "none" THEN [s[x] EXCEPT !.sc = "extern"] ELSE s[x]
    BY <2>1 DEF Marked
  <2>8. /\ \A x \in DOMAIN s : syms'[x].mod = s[x].mod
        /\ \A x \in DOMAIN s : syms'[x].sc = s[x].sc \/ syms'[x].sc = "extern"
        /\ \A x \in DOMAIN s : x \in Form.uses => syms'[x].sc # "none"
    <3> DEFINE marked(x) == [s[x] EXCEPT !.sc = "extern"]
    <3>1. \A x \in DOMAIN s : marked(x).mod = s[x].mod /\ marked(x).sc = "extern"
      BY <2>6 DEF Symbols
    <3>2. \A x \in DOMAIN s : syms'[x] = IF x \in Form.uses /\ s[x].sc = "none"
                                         THEN marked(x) ELSE s[x]
      BY <2>7
    <3> HIDE DEF marked
    <3> QED
      BY <3>1, <3>2
  <2>9. SymbolsKnow'
    BY <2>1, <2>5, <2>7, <2>8 DEF SymbolsKnow, Here, Ours
  <2>10. RefsKnow'
    <3> SUFFICES ASSUME NEW r \in refs'
                 PROVE  /\ r[2] \in DOMAIN syms' /\ r[1] = syms'[r[2]].mod
                        /\ r[2] \in Ours \/ syms'[r[2]].sc = "extern"
      BY <2>1 DEF RefsKnow, Ours
    <3>1. CASE r \in refs
      <4>1. /\ r[2] \in DOMAIN syms /\ r[1] = syms[r[2]].mod
            /\ r[2] \in Ours \/ syms[r[2]].sc = "extern"
        BY <2>4, <3>1 DEF RefsKnow, Ours
      <4> QED
        BY <2>5, <2>6, <2>7, <2>8, <4>1
    <3>2. CASE r \in RefsTo(s, named)
      <4>1. PICK x \in named : r = <<s[x].mod, x>>
        BY <3>2 DEF RefsTo
      <4>2. x \in DOMAIN s /\ r[1] = s[x].mod /\ r[2] = x
        BY <2>1, <4>1
      <4>3. x \notin Ours => x \in Form.uses /\ s[x].sc \in {"none", "extern"}
        BY <2>3, <2>5, <4>1, <4>2
      <4> QED
        BY <2>7, <2>8, <4>2, <4>3
    <3> QED
      BY <2>1, <3>1, <3>2
  <2>11. WorkspacesKnow'
    <3>1. DOMAIN ws' = DOMAIN ws
      BY <2>1, AdvanceKeeps DEF Define
    <3> QED
      BY <2>1, <3>1, AdvanceKnows DEF Define, CarefulInv, WorkspacesKnow, KnowsPlace, Here
  <2>12. ReferencesImported'
    BY <1>0, <2>1 DEF ReferencesImported
  <2> QED
    BY <2>9, <2>10, <2>11, <2>12 DEF CarefulInv
<1> QED
  BY <1>1, <1>2

(* At the end a reference to another module has its symbol marked, and the *)
(* walk over the symbols finds it.                                         *)
LEMMA EndModuleKnows ==
  ASSUME IInv, CarefulInv, EndModule
  PROVE  CarefulInv'
<1>1. /\ phase' = "done" /\ ~InHeader /\ UNCHANGED <<text, ws, syms, refs>>
      /\ imports' = {<<syms[x].mod, x>> : x \in {y \in DOMAIN syms :
                       syms[y].sc = "extern" /\ syms[y].mod # Top.mod}}
  BY DEF EndModule, work, names
<1>2. Len(ws) \in Nat \ {0} /\ Top = ws[Len(ws)]
  BY UnitAssumption DEF UnitAssumption, IInv, TypeOK, Top, Last
<1>3. Top.mod = Here /\ Top' = Top
  BY <1>1, <1>2 DEF InHeader, CarefulInv, WorkspacesKnow, Top
<1>4. ASSUME NEW r \in refs, r[1] # Top.mod PROVE r \in imports'
  <2>1. /\ r[2] \in DOMAIN syms /\ r[1] = syms[r[2]].mod
        /\ r[2] \in Ours \/ syms[r[2]].sc = "extern"
    BY DEF CarefulInv, RefsKnow, Ours
  <2>2. r[2] \notin Ours
    BY <1>3, <1>4, <2>1 DEF CarefulInv, SymbolsKnow
  <2>3. r = <<syms[r[2]].mod, r[2]>>
    BY <2>1 DEF IInv, TypeOK
  <2> QED
    BY <1>1, <1>4, <2>1, <2>2, <2>3
<1>5. ReferencesImported'
  BY <1>1, <1>3, <1>4 DEF ReferencesImported
<1>6. WorkspacesKnow' /\ SymbolsKnow' /\ RefsKnow'
  BY <1>1 DEF CarefulInv, WorkspacesKnow, KnowsPlace, SymbolsKnow, RefsKnow, Ours
<1> QED
  BY <1>5, <1>6 DEF CarefulInv

LEMMA InitKnows == Init => CarefulInv
<1> SUFFICES ASSUME Init PROVE CarefulInv
  OBVIOUS
<1>1. /\ ws = <<[file |-> Main, n |-> 1, mod |-> Here]>>
      /\ phase = "parse" /\ syms = << >> /\ refs = {}
  BY DEF Init, Here
<1>2. DOMAIN ws = {1} /\ ws[1] = [file |-> Main, n |-> 1, mod |-> Here]
  BY <1>1
<1>3. InModule(text, Main, 1, Here)
  BY ModuleOfLines DEF Here
<1> QED
  BY <1>1, <1>2, <1>3
     DEF CarefulInv, WorkspacesKnow, KnowsPlace, SymbolsKnow, RefsKnow, ReferencesImported

LEMMA NextKnows == RInv /\ [Next]_vars => RInv'
<1> SUFFICES ASSUME RInv, [Next]_vars PROVE RInv'
  OBVIOUS
<1>1. IInv /\ IInv'
  BY NextKeeps DEF RInv
<1>2. text' = text
  BY DEF Next, vars, Include, PragmaOnce, PragmaModule, Declare, Define, EndHeader, EndModule,
     Fail
<1>3. ASSUME Careful(text) PROVE CarefulInv'
  <2>1. CarefulInv
    BY <1>3 DEF RInv
  <2>2. CASE UNCHANGED vars
    <3>1. UNCHANGED <<text, phase, ws, syms, refs, imports>>
      BY <2>2 DEF vars, work, names
    <3> QED
      BY <2>1, <3>1 DEF CarefulInv, WorkspacesKnow, KnowsPlace, SymbolsKnow, RefsKnow,
         ReferencesImported, Top, Ours
  <2> QED
    BY <1>1, <1>3, <2>1, <2>2, IncludeKnows, PragmaOnceKnows, PragmaModuleKnows, DeclareKnows,
       DefineKnows, EndHeaderKnows, EndModuleKnows DEF Next
<1> QED
  BY <1>1, <1>2, <1>3 DEF RInv

(* Every reference to another module is imported, in every program that    *)
(* defines, hides and puts in initialisers its own names only              *)
(* (mark_global_referenced, compile_module_to_wat's walk).                 *)
THEOREM ImportsAreComplete == Spec => [](Careful(text) => ReferencesImported)
<1>1. Init => RInv
  BY InitHolds, InitKnows DEF RInv
<1>2. RInv => (Careful(text) => ReferencesImported)
  BY DEF RInv, CarefulInv
<1> QED
  BY <1>1, <1>2, NextKnows, PTL DEF Spec
=============================================================================
