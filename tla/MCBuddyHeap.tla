---------------------------- MODULE MCBuddyHeap -----------------------------
(***************************************************************************)
(* BuddyHeap for TLC: cells of one header, blocks of 2, 4 and 8 cells in a *)
(* page of 8, then 16 and 32; three pages above the program's own.         *)
(***************************************************************************)
EXTENDS BuddyHeap

PageRequests == {0, 1, 3, 4}     \* full blocks, and one that needs the page
SbrkRequests == {3, 9, 40}       \* less than a page, more, and refused
MCCounts == {2, 30}              \* calloc refuses 30 cells of 2

AssertRequests == {1, 20}        \* 20 cells need the block of half the memory
WrapRequests == {1, 63}          \* 63 + Hdr wraps to 0
SmallRequests == {1, 2, 5}
=============================================================================
