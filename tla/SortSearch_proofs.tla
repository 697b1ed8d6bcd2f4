-------------------------- MODULE SortSearch_proofs -------------------------
(***************************************************************************)
(* qsort and bsearch for every array length, every comparison function     *)
(* and every word size.  The inductive invariant adds two facts to the     *)
(* properties: what a swapless pass with gap 1 has compared so far is in   *)
(* order, and an equal element is never outside the window of bsearch.     *)
(***************************************************************************)
EXTENDS SortSearch, TLAPS

USE SortAssumption

ScannedInOrder ==
  pc = "scan" /\ gap = 1 /\ ~swapped =>
    \A k, m \in Index : k <= m /\ m <= i => rank[a[k]] <= rank[a[m]]

WindowHoldsKey ==
  /\ pc \in {"pass", "scan", "sorted"} => base = 0 /\ nmemb = N
  /\ pc \in {"search", "found"} =>
    /\ base + nmemb <= N
    /\ \A k \in Index : rank[a[k]] = key => base <= k /\ k < base + nmemb

IInv ==
  TypeOK /\ Permuted /\ InBounds /\ Sorted /\ Searched /\ ScannedInOrder /\ WindowHoldsKey

-----------------------------------------------------------------------------
(* A remainder is no larger than the number. *)
LEMMA ModBound ==
  ASSUME NEW n \in Nat, NEW w \in Nat \ {0}
  PROVE  n % w \in Nat /\ n % w <= n
OBVIOUS

(* newgap returns a gap from 1 to the one it is given, even when the       *)
(* multiplication wraps and in spite of the detour to 11.                  *)
LEMMA NewGapBound ==
  ASSUME NEW g \in Nat \ {0}
  PROVE  NewGap(g) \in 1 .. g
<1> DEFINE r == (g * 10) % WordMod
<1>1. r \in Nat /\ r <= g * 10
  BY ModBound
<1>2. Shrunk(g) \in Nat /\ 13 * Shrunk(g) <= r
  <2> HIDE DEF r
  <2>1. Shrunk(g) = r \div 13
    BY DEF Shrunk, r
  <2> QED BY <2>1, <1>1
<1> HIDE DEF r
<1>3. 13 * Shrunk(g) <= g * 10
  BY <1>1, <1>2
<1> QED BY <1>2, <1>3 DEF NewGap

-----------------------------------------------------------------------------
(* Exchanging two elements of a permutation leaves a permutation. *)
LEMMA SwapPermutes ==
  ASSUME a \in [Index -> Elems], Permuted, NEW x \in Index, NEW y \in Index, a' = Swap(a, x, y)
  PROVE  a' \in [Index -> Elems] /\ Permuted'
<1>1. a' \in [Index -> Elems]
  BY DEF Swap
<1>2. \A k \in Index : a'[k] = IF k = y THEN a[x] ELSE IF k = x THEN a[y] ELSE a[k]
  BY DEF Swap
<1>3. \A k, m \in Index : a'[k] = a'[m] => k = m
  BY <1>2 DEF Permuted
<1>4. ASSUME NEW e \in Elems PROVE \E k \in Index : a'[k] = e
  <2>1. PICK k \in Index : a[k] = e
    BY DEF Permuted
  <2>2. CASE k = x
    BY <2>1, <2>2, <1>2
  <2>3. CASE k = y
    BY <2>1, <2>3, <1>2
  <2>4. CASE k # x /\ k # y
    BY <2>1, <2>4, <1>2
  <2> QED BY <2>2, <2>3, <2>4
<1> QED BY <1>1, <1>3, <1>4 DEF Permuted

LEMMA InitInvariant == Init => IInv
<1> SUFFICES ASSUME Init PROVE IInv
  OBVIOUS
<1>1. swapped \in BOOLEAN
  BY Zenon DEF Init
<1>2. TypeOK
  BY <1>1 DEF Init, TypeOK, Index, Elems
<1>3. Permuted
  BY DEF Init, Permuted, Elems
<1>4. InBounds /\ Sorted /\ Searched /\ ScannedInOrder /\ WindowHoldsKey
  BY DEF Init, InBounds, Sorted, Searched, ScannedInOrder, WindowHoldsKey
<1> QED BY <1>2, <1>3, <1>4 DEF IInv

LEMMA PassInvariant ==
  ASSUME IInv, Pass
  PROVE  IInv'
<1>1. gap' \in 1 .. N
  BY NewGapBound DEF IInv, TypeOK, Pass
<1>a. swapped' \in BOOLEAN
  BY Zenon DEF Pass
<1>2. TypeOK'
  BY <1>1, <1>a DEF IInv, TypeOK, Pass, searching
<1>3. Permuted'
  BY DEF IInv, Permuted, Pass
<1>b. \A x \in Index : rank[a[x]] \in Nat
  BY DEF IInv, TypeOK
<1>c. i' = 0 /\ a' = a /\ rank' = rank
  BY DEF Pass
<1>4. ScannedInOrder'
  BY <1>b, <1>c DEF ScannedInOrder, Index
<1>5. InBounds'
  BY <1>1 DEF Pass, InBounds
<1>6. Sorted' /\ Searched' /\ WindowHoldsKey'
  BY DEF Pass, IInv, Sorted, Searched, WindowHoldsKey, searching
<1> QED BY <1>2, <1>3, <1>4, <1>5, <1>6 DEF IInv

(* A comparison: both indices are in the array; in a pass with gap 1 the   *)
(* element at i + 1 is no smaller than the largest scanned.                *)
LEMMA CompareInvariant ==
  ASSUME IInv, Compare
  PROVE  IInv'
<1>1. i \in Index /\ i + gap \in Index /\ i' = i + 1 /\ gap' = gap /\ pc = "scan" /\ pc' = "scan"
  BY DEF IInv, TypeOK, InBounds, Compare, Index
<1>2. a' \in [Index -> Elems] /\ Permuted'
  <2>1. CASE OutOfOrder
    BY <1>1, <2>1, SwapPermutes DEF Compare, IInv, TypeOK
  <2>2. CASE ~OutOfOrder
    BY <2>2 DEF Compare, IInv, TypeOK, Permuted
  <2> QED BY <2>1, <2>2
<1>a. swapped' \in BOOLEAN
  BY Zenon DEF Compare, IInv, TypeOK
<1>3. TypeOK'
  BY <1>1, <1>2, <1>a DEF IInv, TypeOK, Compare, searching, Index
<1>4. InBounds'
  BY <1>1 DEF IInv, TypeOK, InBounds, Compare
<1>5. ScannedInOrder'
  <2> SUFFICES ASSUME gap = 1, ~swapped', NEW k \in Index, NEW m \in Index, k <= m, m <= i + 1
               PROVE  rank'[a'[k]] <= rank'[a'[m]]
    BY <1>1 DEF ScannedInOrder
  <2>1. ~OutOfOrder /\ a' = a /\ rank' = rank /\ ~swapped
    BY DEF Compare, IInv, TypeOK
  <2>2. \A x \in Index : rank[a[x]] \in Nat
    BY DEF IInv, TypeOK
  <2>3. rank[a[i]] <= rank[a[i + 1]]
    BY <1>1, <2>1, <2>2 DEF OutOfOrder
  <2>4. CASE m <= i
    BY <1>1, <2>1, <2>4 DEF IInv, ScannedInOrder
  <2>5. CASE m = i + 1 /\ k = m
    BY <2>1, <2>2, <2>5
  <2>6. CASE m = i + 1 /\ k <= i
    <3>1. rank[a[k]] <= rank[a[i]]
      BY <1>1, <2>1, <2>6 DEF IInv, ScannedInOrder, Index
    <3> QED BY <1>1, <2>1, <2>2, <2>3, <2>6, <3>1
  <2> QED BY <1>1, <2>4, <2>5, <2>6 DEF Index
<1>6. Sorted' /\ Searched' /\ WindowHoldsKey'
  BY <1>1 DEF IInv, Sorted, Searched, WindowHoldsKey, Compare, searching
<1> QED BY <1>2, <1>3, <1>4, <1>5, <1>6 DEF IInv

(* The last pass had gap 1 and swapped nothing: all of it was in order. *)
LEMMA EndPassInvariant ==
  ASSUME IInv, EndPass
  PROVE  IInv'
<1>1. TypeOK' /\ Permuted' /\ ScannedInOrder'
  BY DEF IInv, TypeOK, Permuted, ScannedInOrder, EndPass, sorting, searching
<1>2. Sorted'
  <2> SUFFICES ASSUME pc' = "sorted", NEW k \in Index, NEW m \in Index, k <= m
               PROVE  rank[a[k]] <= rank[a[m]]
    BY DEF EndPass, Sorted, IInv, TypeOK
  <2>1. gap = 1 /\ ~swapped /\ i >= N - 1
    BY DEF EndPass, IInv, TypeOK
  <2> QED BY <2>1 DEF EndPass, IInv, TypeOK, ScannedInOrder, Index
<1>3. InBounds' /\ Searched' /\ WindowHoldsKey'
  BY DEF IInv, EndPass, InBounds, Searched, WindowHoldsKey, searching
<1> QED BY <1>1, <1>2, <1>3 DEF IInv

LEMMA BeginSearchInvariant ==
  ASSUME IInv, BeginSearch
  PROVE  IInv'
<1>1. TypeOK' /\ Permuted' /\ InBounds' /\ ScannedInOrder'
  BY DEF IInv, TypeOK, Permuted, InBounds, ScannedInOrder, BeginSearch, sorting, searching
<1>2. Sorted' /\ Searched'
  BY DEF IInv, Sorted, Searched, BeginSearch
<1>3. WindowHoldsKey'
  BY DEF IInv, TypeOK, WindowHoldsKey, BeginSearch, searching, Index
<1> QED BY <1>1, <1>2, <1>3 DEF IInv

(* The element probed is in the window; what is on its far side is, by the *)
(* order, no equal of the key.                                             *)
LEMMA ProbeInvariant ==
  ASSUME IInv, Probe
  PROVE  IInv'
<1>0. /\ pc = "search" /\ rank' = rank /\ a' = a /\ key' = key
      /\ gap' = gap /\ i' = i /\ swapped' = swapped
  BY DEF Probe, sorting
<1>1. Mid \in Index /\ Mid < base + nmemb /\ base <= Mid
  BY <1>0 DEF Probe, IInv, TypeOK, WindowHoldsKey, Mid, Index
<1>2. \A x \in Index : rank[a[x]] \in Nat
  BY DEF IInv, TypeOK
<1>3. \A k, m \in Index : k <= m => rank[a[k]] <= rank[a[m]]
  BY <1>0 DEF IInv, Sorted
<1>k. key \in Nat
  BY DEF IInv, TypeOK
<1>4. Sorted' /\ Permuted' /\ InBounds' /\ ScannedInOrder'
  BY <1>0, <1>3 DEF Probe, IInv, Sorted, Permuted, InBounds, ScannedInOrder
<1>5. CASE key = rank[a[Mid]]
  <2>1. pc' = "found" /\ base' = base /\ nmemb' = nmemb
    BY <1>5 DEF Probe
  <2>2. TypeOK'
    BY <1>0, <2>1 DEF IInv, TypeOK
  <2>3. Searched' /\ WindowHoldsKey'
    BY <1>0, <1>5, <2>1 DEF IInv, TypeOK, Searched, WindowHoldsKey, Mid, Probe
  <2> QED BY <1>4, <2>2, <2>3 DEF IInv
<1>6. CASE key > rank[a[Mid]]
  <2>1. pc' = pc /\ base' = Mid + 1 /\ nmemb' = nmemb - ((nmemb \div 2) + 1)
    BY <1>6, <1>1, <1>2, <1>k DEF Probe
  <2>2. base' + nmemb' = base + nmemb /\ nmemb' \in Nat
    BY <1>0, <2>1 DEF Mid, IInv, TypeOK, Probe
  <2>3. TypeOK'
    BY <1>0, <1>1, <2>1, <2>2 DEF IInv, TypeOK, WindowHoldsKey, Index
  <2>4. ASSUME NEW k \in Index, rank[a[k]] = key PROVE Mid < k
    BY <1>1, <1>2, <1>3, <1>6, <2>4 DEF Index
  <2>5. WindowHoldsKey'
    BY <1>0, <1>1, <2>1, <2>2, <2>4 DEF IInv, WindowHoldsKey, Index
  <2>6. Searched'
    BY <1>0, <2>1 DEF Searched
  <2> QED BY <1>4, <2>3, <2>5, <2>6 DEF IInv
<1>7. CASE key < rank[a[Mid]]
  <2>1. pc' = pc /\ base' = base /\ nmemb' = nmemb \div 2
    BY <1>7, <1>1, <1>2, <1>k DEF Probe
  <2>2. base' + nmemb' = Mid /\ nmemb' \in Nat
    BY <2>1 DEF Mid, IInv, TypeOK
  <2>3. TypeOK'
    BY <1>0, <1>1, <2>1, <2>2 DEF IInv, TypeOK, WindowHoldsKey, Index
  <2>4. ASSUME NEW k \in Index, rank[a[k]] = key PROVE k < Mid
    BY <1>1, <1>2, <1>3, <1>7, <2>4 DEF Index
  <2>5. WindowHoldsKey'
    BY <1>0, <1>1, <2>1, <2>2, <2>4 DEF IInv, WindowHoldsKey, Index
  <2>6. Searched'
    BY <1>0, <2>1 DEF Searched
  <2> QED BY <1>4, <2>3, <2>5, <2>6 DEF IInv
<1> QED BY <1>1, <1>2, <1>k, <1>5, <1>6, <1>7

LEMMA GiveUpInvariant ==
  ASSUME IInv, GiveUp
  PROVE  IInv'
<1>1. TypeOK' /\ Permuted' /\ InBounds' /\ Sorted' /\ ScannedInOrder' /\ WindowHoldsKey'
  BY DEF IInv, TypeOK, Permuted, InBounds, Sorted, ScannedInOrder, WindowHoldsKey, GiveUp,
         sorting, searching
<1>2. \A k \in Index : rank[a[k]] # key
  BY DEF IInv, TypeOK, WindowHoldsKey, GiveUp, Index
<1>3. Searched'
  BY <1>2 DEF Searched, GiveUp, searching
<1> QED BY <1>1, <1>3 DEF IInv

LEMMA NextInvariant == IInv /\ [Next]_vars => IInv'
<1>1. ASSUME IInv, UNCHANGED vars PROVE IInv'
  BY <1>1 DEF vars, sorting, searching, IInv, TypeOK, Permuted, InBounds, Sorted, Searched,
              ScannedInOrder, WindowHoldsKey, Mid
<1> QED
  BY <1>1, PassInvariant, CompareInvariant, EndPassInvariant, BeginSearchInvariant,
     ProbeInvariant, GiveUpInvariant
  DEF Next

-----------------------------------------------------------------------------
THEOREM Invariance == Spec => []IInv
BY InitInvariant, NextInvariant, PTL DEF Spec

(* The locals of qsort and bsearch keep their ranges. *)
THEOREM TypeCorrect == Spec => []TypeOK
<1>1. IInv => TypeOK
  BY DEF IInv
<1> QED BY <1>1, Invariance, PTL

(* qsort permutes the array, whatever the comparison function says. *)
THEOREM SortPermutes == Spec => []Permuted
<1>1. IInv => Permuted
  BY DEF IInv
<1> QED BY <1>1, Invariance, PTL

(* qsort compares elements of the array only: nmemb - gap does not wrap.   *)
THEOREM StaysInBounds == Spec => []InBounds
<1>1. IInv => InBounds
  BY DEF IInv
<1> QED BY <1>1, Invariance, PTL

(* When qsort returns the array is in order. *)
THEOREM SortSorts == Spec => []Sorted
<1>1. IInv => Sorted
  BY DEF IInv
<1> QED BY <1>1, Invariance, PTL

(* bsearch on what qsort returned finds an equal element if there is one.  *)
THEOREM SearchFinds == Spec => []Searched
<1>1. IInv => Searched
  BY DEF IInv
<1> QED BY <1>1, Invariance, PTL
=============================================================================
