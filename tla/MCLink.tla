------------------------------- MODULE MCLink -------------------------------
(***************************************************************************)
(* Programs for the whole link.  The first set is for the tracing: a       *)
(* module prog with main and _start as c.c emits them, whose main and      *)
(* whose helper f refer to any one or two globals of prog, lib, sub and    *)
(* wasi, and a library of lib (a function), sub (a data segment lib refers *)
(* to) and the C runtime.  The second is for the layout: main of app       *)
(* refers to up to three of two functions and five data segments; a and b  *)
(* are variables whose initialisers may take addresses, s, t and u are     *)
(* string literals of which s and t are equal and u is equal to them but   *)
(* more aligned.                                                           *)
(***************************************************************************)
EXTENDS Watify, TLC

Fn(m, id) == Ref(m, id, "func")
Dt(m, id) == Ref(m, id, "data")

F == Fn("prog", "f")
G == Fn("lib", "g")
W == Fn("wasi", "w")
D == Dt("prog", "d")
E == Dt("sub", "e")
Missing == Fn("lib", "missing")

Short(S) == {<< >>} \cup {<<x>> : x \in S} \cup {<<x, y>> : x, y \in S}

Def(kind, refs) == [kind |-> kind, refs |-> refs]

StartCode == <<Fn("crt", "initialize"), Fn("prog", "main"), Fn("crt", "terminate")>>

Prog(mainrefs, frefs, drefs) ==
  [name |-> "prog", main |-> "void",
   imports |-> {<<"crt", "initialize">>, <<"crt", "terminate">>, <<"crt", "memory">>,
                <<"lib", "g">>, <<"wasi", "w">>}
              \cup {<<"sub", "e">> : x \in {y \in {mainrefs, frefs, drefs} :
                                             \E k \in DOMAIN y : y[k] = E}},
   exports |-> (<<"prog", "main">>   :> Def("func", mainrefs)
             @@ <<"prog", "_start">> :> Def("func", StartCode)
             @@ <<"prog", "f">>      :> Def("func", frefs)
             @@ <<"prog", "d">>      :> Def("data", drefs))]

Lib ==
  [name |-> "lib", main |-> "absent",
   imports |-> {<<"wasi", "w">>, <<"crt", "memory">>, <<"sub", "e">>},
   exports |-> <<"lib", "g">> :> Def("func", <<W, E>>)]

Sub(edata) ==
  [name |-> "sub", main |-> "absent", imports |-> {<<"crt", "memory">>},
   exports |-> <<"sub", "e">> :> Def("data", edata)]

CrtModule ==
  [name |-> "crt", main |-> "absent", imports |-> {<<"wasi", "w">>},
   exports |-> (<<"crt", "initialize">> :> Def("func", << >>)
             @@ <<"crt", "terminate">>  :> Def("func", <<W>>)
             @@ <<"crt", "memory">>     :> Def("mem", << >>))]

LinkLibrary == "lib" :> Lib @@ "sub" :> Sub(<<E>>) @@ "crt.void" :> CrtModule

MCCrtFile == [m \in Mains |-> CASE m = "void" -> "crt.void"
                                 [] m = "argv" -> "crt.argv"
                                 [] OTHER -> "crt"]

(* Any code for main, f and d; a second main, a module given twice, one    *)
(* not in the library and a program without main are among the rest.       *)
Whole == {<<Prog(m, f, d)>> :
            m \in Short({F, G, D, Missing}), f \in Short({G, E, W}),
            d \in {<< >>, <<E>>, <<E, D>>}}

Odd == {<<Prog(<<G>>, << >>, << >>), Prog(<<G>>, << >>, << >>)>>,
        <<Lib, Sub(<< >>), Prog(<<G, E>>, << >>, <<E>>)>>,
        <<Lib, Lib>>,
        <<Lib>>,
        <<[Prog(<<G>>, << >>, << >>) EXCEPT !.main = "argv"]>>,
        <<[Prog(<<G>>, << >>, << >>) EXCEPT !.imports = @ \cup {<<"gone", "x">>}]>>,
        <<[Prog(<<W>>, << >>, << >>) EXCEPT !.imports = @ \ {<<"wasi", "w">>}]>>,
        << >>}

Datas == {Dt("app", x) : x \in {"a", "b", "s", "t", "u"}}

App(mainrefs, frefs, arefs, brefs) ==
  [name |-> "app", main |-> "void",
   imports |-> {<<"crt", "terminate">>, <<"crt", "memory">>},
   exports |-> (<<"app", "main">>   :> Def("func", mainrefs)
             @@ <<"app", "_start">> :> Def("func", <<Fn("app", "main"), Ref("crt", "terminate", "func")>>)
             @@ <<"app", "f">>      :> Def("func", frefs)
             @@ <<"app", "h">>      :> Def("func", << >>)
             @@ <<"app", "a">>      :> Def("data", arefs)
             @@ <<"app", "b">>      :> Def("data", brefs)
             @@ <<"app", "s">>      :> Def("data", << >>)
             @@ <<"app", "t">>      :> Def("data", << >>)
             @@ <<"app", "u">>      :> Def("data", << >>))]

MCBytes == [g \in {Key(d) : d \in Datas \cup {D, E}} |->
              CASE g[2] = "a" -> <<"a1", "a2">>
                [] g[2] \in {"b", "e"} -> <<"b1">>
                [] OTHER -> <<"x", "y", "z">>]
MCAlign == [g \in {Key(d) : d \in Datas \cup {D, E}} |-> IF g[2] = "a" THEN 2 ELSE IF g[2] = "u" THEN 4 ELSE 1]
MCReadOnly == {<<"app", "s">>, <<"app", "t">>, <<"app", "u">>}

(* the second reference of main and the first of f take an address, when   *)
(* they name a function                                                    *)
MCAddressOf == {<<<<"app", "main">>, 2>>, <<<<"app", "f">>, 1>>}

Calls == {Fn("app", "f"), Fn("app", "h")}

(* Where an address is taken a function is named. *)
MainRefs == {<<x>> : x \in Datas \cup Calls} \cup
            {<<x, y, z>> : x \in Datas \cup {Fn("app", "f")}, y \in Calls, z \in Datas}

Laid ==
  {<<App(m, f, a, b)>> :
     m \in MainRefs, f \in {<<Fn("app", "h")>>, <<Fn("app", "h"), Dt("app", "t")>>},
     a \in {<< >>, <<Dt("app", "b")>>, <<Dt("app", "u"), Dt("app", "s")>>}, b \in {<< >>, <<Dt("app", "a")>>}}

(* One module takes h for a segment where another calls it. *)
Confused == {<<App(<<Fn("app", "h"), Fn("app", "h"), Dt("app", "h")>>, << >>, << >>, << >>)>>}

MCPrograms == Whole \cup Odd \cup Laid \cup Confused
MCLibrary == LinkLibrary
MCMods == {"prog", "app", "lib", "sub", "crt", "wasi", "gone", "none"}
MCIds == {"main", "_start", "memory", "f", "g", "h", "a", "b", "d", "e", "s", "t", "u", "w", "x",
          "missing", "initialize", "terminate"}
MCModules == UNION {{p[k] : k \in DOMAIN p} : p \in MCPrograms}
               \cup {MCLibrary[f] : f \in DOMAIN MCLibrary}
=============================================================================
