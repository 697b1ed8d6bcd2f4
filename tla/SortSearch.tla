----------------------------- MODULE SortSearch -----------------------------
(***************************************************************************)
(* qsort (a combsort) and bsearch of lib/src/stdlib.c, used one after the  *)
(* other.  The comparison function is a total preorder, given by the rank  *)
(* of each element; elements are distinct objects, whatever their rank.    *)
(***************************************************************************)
EXTENDS Naturals

CONSTANTS N,         \* nmemb
          Ranks,     \* a set of naturals
          WordMod    \* size_t wraps here

ASSUME SortAssumption ==
  N \in Nat \ {0} /\ WordMod \in Nat \ {0} /\ Ranks \subseteq Nat

Index == 0 .. (N - 1)

Elems == Index       \* the object that was at an index first

VARIABLES
  pc,                  \* "pass", "scan", "sorted", "search", "found", "absent"
  rank,                \* the comparison function
  a,                   \* the array
  gap, i, swapped,     \* qsort's locals
  key, base, nmemb     \* bsearch's

sorting == <<gap, i, swapped>>
searching == <<key, base, nmemb>>
vars == <<pc, rank, a, sorting, searching>>

Init ==
  /\ pc = "pass" /\ rank \in [Elems -> Ranks]
  /\ a = [k \in Index |-> k]
  /\ gap = N /\ i = 0 /\ swapped = FALSE
  /\ key \in Ranks /\ base = 0 /\ nmemb = N

(* newgap; the mutant exchanges the factors.                               *)
Shrunk(g) == ((g * 10) % WordMod) \div 13

NewGap_Exchanged(g) ==
  IF (g * 13) \div 10 \in {9, 10} THEN 11 ELSE (g * 13) \div 10

NewGap(g) == IF Shrunk(g) \in {9, 10} THEN 11 ELSE IF Shrunk(g) < 1 THEN 1 ELSE Shrunk(g)

(* Mutant: a pass begins with swapped as the one before left it. *)
Pass_KeepsSwapped ==
  /\ pc = "pass"
  /\ gap' = NewGap(gap) /\ i' = 0
  /\ pc' = "scan"
  /\ UNCHANGED <<rank, a, swapped, searching>>

Pass ==
  /\ pc = "pass"
  /\ gap' = NewGap(gap) /\ swapped' = FALSE /\ i' = 0
  /\ pc' = "scan"
  /\ UNCHANGED <<rank, a, searching>>

(* Mutant: the second assignment reads what the first wrote. *)
Swap_Half(f, x, y) == [f EXCEPT ![x] = f[y]]

Swap(f, x, y) == [f EXCEPT ![x] = f[y], ![y] = f[x]]

OutOfOrder == rank[a[i]] > rank[a[i + gap]]

Compare ==
  /\ pc = "scan" /\ i < N - gap
  /\ IF OutOfOrder THEN a' = Swap(a, i, i + gap) /\ swapped' = TRUE
                   ELSE UNCHANGED <<a, swapped>>
  /\ i' = i + 1
  /\ UNCHANGED <<pc, rank, gap, searching>>

(* Mutant: one pass with gap 1 is enough. *)
EndPass_OnePass ==
  /\ pc = "scan" /\ i >= N - gap
  /\ pc' = IF gap > 1 THEN "pass" ELSE "sorted"
  /\ UNCHANGED <<rank, a, sorting, searching>>

EndPass ==
  /\ pc = "scan" /\ i >= N - gap
  /\ pc' = IF gap > 1 \/ swapped THEN "pass" ELSE "sorted"
  /\ UNCHANGED <<rank, a, sorting, searching>>

-----------------------------------------------------------------------------
BeginSearch ==
  /\ pc = "sorted" /\ pc' = "search"
  /\ UNCHANGED <<rank, a, sorting, searching>>

Mid == base + (nmemb \div 2)

(* One turn of bsearch's loop; the mutant drops one element too many.      *)
Probe_Short ==
  /\ pc = "search" /\ nmemb # 0
  /\ IF key = rank[a[Mid]] THEN pc' = "found" /\ UNCHANGED <<base, nmemb>>
     ELSE /\ UNCHANGED pc
          /\ IF key > rank[a[Mid]]
             THEN base' = Mid + 1 /\ nmemb' = IF nmemb > 2 THEN nmemb - ((nmemb \div 2) + 2) ELSE 0
             ELSE nmemb' = nmemb \div 2 /\ UNCHANGED base
  /\ UNCHANGED <<rank, a, sorting, key>>

Probe ==
  /\ pc = "search" /\ nmemb # 0
  /\ IF key = rank[a[Mid]] THEN pc' = "found" /\ UNCHANGED <<base, nmemb>>
     ELSE /\ UNCHANGED pc
          /\ IF key > rank[a[Mid]]
             THEN base' = Mid + 1 /\ nmemb' = nmemb - ((nmemb \div 2) + 1)
             ELSE nmemb' = nmemb \div 2 /\ UNCHANGED base
  /\ UNCHANGED <<rank, a, sorting, key>>

GiveUp ==
  /\ pc = "search" /\ nmemb = 0
  /\ pc' = "absent"
  /\ UNCHANGED <<rank, a, sorting, searching>>

Next == Pass \/ Compare \/ EndPass \/ BeginSearch \/ Probe \/ GiveUp

Spec == Init /\ [][Next]_vars

(* A call runs to its end: one thread, and a comparison that returns. *)
FairSpec == Spec /\ WF_vars(Next)
-----------------------------------------------------------------------------
TypeOK ==
  /\ pc \in {"pass", "scan", "sorted", "search", "found", "absent"}
  /\ rank \in [Elems -> Ranks] /\ a \in [Index -> Elems]
  /\ gap \in 1 .. N /\ i \in 0 .. N /\ swapped \in BOOLEAN
  /\ key \in Ranks /\ base \in 0 .. N /\ nmemb \in 0 .. N

(* Sorting loses no element and doubles none. *)
Permuted ==
  /\ \A k, m \in Index : a[k] = a[m] => k = m
  /\ \A e \in Elems : \E k \in Index : a[k] = e

(* Both elements compared are in the array: nmemb - gap, unsigned, does    *)
(* not wrap below zero and the scan stops at the end.                      *)
InBounds == pc = "scan" => gap <= N /\ i <= N - gap

(* A pass with gap 1 that swaps nothing is the proof that the array is     *)
(* sorted: the loop never ends before.                                     *)
Sorted ==
  pc \in {"sorted", "search", "found", "absent"} =>
    \A k, m \in Index : k <= m => rank[a[k]] <= rank[a[m]]

(* The search finds an equal element exactly when there is one. *)
Searched ==
  /\ pc = "found" => nmemb > 0 /\ rank[a[Mid]] = key
  /\ pc = "absent" => \A k \in Index : rank[a[k]] # key

(* Sorting ends, though its last phase repeats until nothing is swapped.   *)
Ends == <>(pc \in {"found", "absent"})
=============================================================================
