------------------------------ MODULE MCStream ------------------------------
(***************************************************************************)
(* Stream for TLC: buffers of one and of three bytes, a device of three.   *)
(***************************************************************************)
EXTENDS Stream

MCFiles == {<< >>, <<1, 10, 1>>}
MCWrites == {<<1>>, <<1, 10>>, <<10, 1>>}
UpdateWrites == {<<1>>, <<10, 1>>}
MCOffsets == {-1, 0, 1}
MCCounts == {1, 3}
=============================================================================
