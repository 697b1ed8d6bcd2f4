------------------------------ MODULE MCCompiler ------------------------------
(***************************************************************************)
(* The functions of CompilerCases, called at the limits of their types.    *)
(***************************************************************************)
EXTENDS CompilerCases, Compiler

Small == {<<n>> : n \in -2..5}
MCCalls == LET calls ==
  {<<"mixed", <<a, b, c>>>> : a \in {-128, 7}, b \in {0, 255}, c \in {-3, 2}}
    \cup {<<"narrow", <<a, b, c>>>> : a \in {-2, 1}, b \in {0, 3}, c \in {-8, 7}}
    \cup {<<f, <<a, b>>>> : f \in {"framed", "choose"}, a \in {-1, 0, 9}, b \in {4, 127}}
    \cup {<<"real", <<a, b>>>> : a \in {-3, 0, 2}, b \in {0, 7}} \cup {<<"varied", <<a, b>>>> : a \in {-2, 1}, b \in {-300, 70}}
    \cup {<<f, a>> : f \in {"shadow", "structs", "loops", "dense", "pointed", "once", "walk", "commas"}, a \in Small}
    \cup {<<f, a>> : f \in {"sizes", "room"}, a \in {<<-2>>, <<1>>}} \cup {<<"sparse", <<a>>>> : a \in {-8, 0, 7}} \cup {<<f, <<a>>>> : f \in {"fact", "jumps"}, a \in 0..3}
  IN calls
MCSelectCalls == {<<"pick", <<a, b>>>> : a \in -1..1, b \in -1..1}

Meaning == INSTANCE CSource
\* By LET: TLC counts the evaluations of every expression, but does not look below a LET,
\* and the calls of the compiler and of the evaluator below each other are too many to tell apart.
MCCompile(fd, globals) == LET r == process_fundef(fd, globals) IN r
MCBytes(t, init, globals) == LET r == BulkData(t, init, globals) IN r
MCFirstNumber(t, init) == LET r == GlobalValue(t, init) IN r
MCMeant(call) == LET m == Meaning!Outcome(call) IN m
==============================================================================
