------------------------------- MODULE MCUnit -------------------------------
(***************************************************************************)
(* Unit for TLC: a module m.c, its own header m.h and two headers of other *)
(* modules; a.h and b.h may include each other, and b.h may belong to a.   *)
(***************************************************************************)
EXTENDS Unit

Inc(f) == [op |-> "include", file |-> f]
Once == [op |-> "once"]
Mod(m) == [op |-> "module", mod |-> m]

Ext(x, t) == [op |-> "declare", id |-> x, type |-> t, extern |-> TRUE, static |-> FALSE]
Proto(x, t, st) == [op |-> "declare", id |-> x, type |-> t, extern |-> FALSE, static |-> st]
Def(x, st, uses, inits) ==
  [op |-> "define", id |-> x, type |-> "t", static |-> st, uses |-> uses, inits |-> inits]

MCFiles == {"m.c", "m.h", "a.h", "b.h"}
MCModName == ("m.c" :> "m") @@ ("m.h" :> "m") @@ ("a.h" :> "a") @@ ("b.h" :> "b")

CarefulForms == {Inc("m.h"), Inc("a.h"), Inc("b.h"),
           Proto("f", "t", FALSE), Proto("f", "t", TRUE),
           Def("f", FALSE, {"x"}, {}), Def("f", TRUE, {"f", "g"}, {}),
           Def("g", FALSE, {"f", "y"}, {}), Def("g", FALSE, {}, {"f"})}

(* A module that defines what a header of another declares, and one whose  *)
(* initialiser names a symbol of another.                                  *)
Careless == {Def("x", FALSE, {"x"}, {}), Def("g", FALSE, {}, {"x"})}

Bodies(S, n) == UNION {[1 .. k -> S] : k \in 0 .. n}

MCa == {<<Once, Ext("x", "t"), Inc("b.h")>>, <<Ext("x", "t"), Inc("b.h")>>,
        <<Ext("x", "u"), Ext("x", "t")>>}
MCb == {<<Once, Inc("a.h"), Ext("y", "t")>>, <<Inc("a.h"), Ext("y", "t")>>,
        <<Mod("a"), Ext("y", "t"), Ext("x", "t")>>}
MCm == {<<Ext("f", "t")>>, <<Once, Ext("g", "t"), Inc("a.h")>>}

Programs(main) ==
  {("m.c" :> m) @@ ("m.h" :> h) @@ ("a.h" :> a) @@ ("b.h" :> b) :
     m \in main, h \in MCm, a \in MCa, b \in MCb}

CarefulTexts == Programs(Bodies(CarefulForms, 4))
CarelessTexts == Programs(Bodies(CarefulForms \cup Careless, 2))

(* The careful programs are careful, and some of the others are not.       *)
ASSUME CarefulAssumption ==
  /\ \A t \in CarefulTexts : Careful(t)
  /\ \E t \in CarelessTexts : ~Careful(t)
=============================================================================
