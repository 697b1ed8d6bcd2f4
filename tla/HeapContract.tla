---------------------------- MODULE HeapContract ----------------------------
(***************************************************************************)
(* What malloc, calloc, realloc and free promise a program: every block    *)
(* the program holds is a run of memory of its own.  Nothing is said of    *)
(* how the blocks are found; BuddyHeap is shown to implement this module.  *)
(***************************************************************************)
EXTENDS Naturals

CONSTANTS
  Addresses,   \* the pointers the heap may hand out
  Payloads     \* the sizes a block may have

VARIABLE live  \* the blocks held by the program: pointer -> payload size

Extent(p, n) == p .. (p + n - 1)

(* A block at p of n cells overlaps no block of the map m. *)
Apart(p, n, m) ==
  \A q \in DOMAIN m : p # q /\ Extent(p, n) \cap Extent(q, m[q]) = {}

Init == live = << >>

Bind(m, p, n) == [q \in DOMAIN m \cup {p} |-> IF q = p THEN n ELSE m[q]]

Drop(m, p) == [q \in DOMAIN m \ {p} |-> m[q]]

(* A pointer p the program did not hold, for a block of live'[p] cells. *)
Obtain ==
  \E p \in DOMAIN live' \ DOMAIN live :
    /\ p \in Addresses /\ live'[p] \in Payloads
    /\ Apart(p, live'[p], live)
    /\ live' = Bind(live, p, live'[p])

Release == \E p \in DOMAIN live \ DOMAIN live' : live' = Drop(live, p)

(* A block is resized where it stands, among the others.                   *)
Resize ==
  \E p \in DOMAIN live \cap DOMAIN live' :
    /\ live'[p] \in Payloads
    /\ Apart(p, live'[p], Drop(live, p))
    /\ live' = Bind(live, p, live'[p])

(* A block is copied to q while it still stands: the two do not overlap.   *)
Move ==
  \E p \in DOMAIN live \ DOMAIN live', q \in DOMAIN live' \ DOMAIN live :
    /\ q \in Addresses /\ live'[q] \in Payloads
    /\ Apart(q, live'[q], live)
    /\ live' = Bind(Drop(live, p), q, live'[q])

Next == Obtain \/ Release \/ Resize \/ Move

Spec == Init /\ [][Next]_live
=============================================================================
