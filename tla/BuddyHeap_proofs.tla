-------------------------- MODULE BuddyHeap_proofs --------------------------
(***************************************************************************)
(* The buddy allocator for every number of buckets, every size of memory   *)
(* and every sequence of calls: blocks tile the memory, joins are sound,   *)
(* payloads are left alone, and the contract is kept.                      *)
(***************************************************************************)
EXTENDS BuddyHeap, TLAPS, WellFoundedInduction, SequenceTheorems

-----------------------------------------------------------------------------
(* A set of numbers has a least one; with it, induction. *)
LEMMA LeastNumber ==
  ASSUME NEW T \in SUBSET Nat, T # {}
  PROVE  \E m \in T : \A k \in T : m <= k
<1>1. \E m \in T : \A k \in T : <<k, m>> \notin OpToRel(<, Nat)
  BY WFMin, NatLessThanWellFounded
<1>2. \A k, m \in Nat : <<k, m>> \notin OpToRel(<, Nat) => m <= k
  BY DEF OpToRel
<1> QED BY <1>1, <1>2

(* A set of numbers with 0 and all successors holds every number. *)
LEMMA Induction ==
  ASSUME NEW T \in SUBSET Nat, 0 \in T, \A n \in T : n + 1 \in T
  PROVE  \A n \in Nat : n \in T
<1> SUFFICES ASSUME Nat \ T # {} PROVE FALSE
  OBVIOUS
<1>1. PICK m \in Nat \ T : \A k \in Nat \ T : m <= k
  BY LeastNumber
<1>2. m # 0 /\ m - 1 \in Nat /\ m - 1 \in T
  BY <1>1
<1> QED BY <1>1, <1>2

-----------------------------------------------------------------------------
(* Powers of two: the recursive definition has a solution, built from its  *)
(* beginnings.                                                             *)
Doubles(g, n) == g[0] = 1 /\ \A k \in 1 .. n : g[k] = 2 * g[k - 1]
Beginning(n) == CHOOSE g \in [0 .. n -> Nat] : Doubles(g, n)

(* Each beginning of the sequence of powers exists. *)
LEMMA BeginningExists ==
  \A n \in Nat : Beginning(n) \in [0 .. n -> Nat] /\ Doubles(Beginning(n), n)
<1> DEFINE T == {n \in Nat : \E g \in [0 .. n -> Nat] : Doubles(g, n)}
<1>1. 0 \in T
  <2>1. [k \in 0 .. 0 |-> 1] \in [0 .. 0 -> Nat] /\ Doubles([k \in 0 .. 0 |-> 1], 0)
    BY DEF Doubles
  <2> QED BY <2>1
<1>2. ASSUME NEW n \in T PROVE n + 1 \in T
  <2>1. PICK g \in [0 .. n -> Nat] : Doubles(g, n)
    OBVIOUS
  <2> DEFINE h == [k \in 0 .. n + 1 |-> IF k = n + 1 THEN 2 * g[n] ELSE g[k]]
  <2>2. h \in [0 .. n + 1 -> Nat]
    OBVIOUS
  <2>3. Doubles(h, n + 1)
    <3>1. h[0] = 1 /\ h[n + 1] = 2 * g[n] /\ \A k \in 0 .. n : h[k] = g[k]
      BY <2>1 DEF Doubles
    <3>2. ASSUME NEW k \in 1 .. n + 1 PROVE h[k] = 2 * h[k - 1]
      <4>1. CASE k = n + 1
        BY <3>1, <4>1
      <4>2. CASE k # n + 1
        <5>1. k \in 1 .. n /\ k \in 0 .. n /\ k - 1 \in 0 .. n
          BY <4>2
        <5> HIDE DEF h
        <5> QED BY <2>1, <3>1, <5>1 DEF Doubles
      <4> QED BY <4>1, <4>2
    <3> HIDE DEF h
    <3> QED BY <3>1, <3>2 DEF Doubles
  <2>4. n + 1 \in Nat
    OBVIOUS
  <2> HIDE DEF h
  <2> QED BY <2>2, <2>3, <2>4
<1> HIDE DEF T
<1>3. \A n \in Nat : n \in T
  BY <1>1, <1>2, Induction DEF T
<1> QED BY <1>3 DEF T, Beginning

(* Longer beginnings continue shorter ones. *)
LEMMA BeginningsAgree ==
  ASSUME NEW n \in Nat, NEW g, NEW h, Doubles(g, n), Doubles(h, n + 1)
  PROVE  g[n] = h[n]
<1> DEFINE T == {k \in Nat : k <= n => g[k] = h[k]}
<1>1. 0 \in T
  BY DEF Doubles
<1>2. ASSUME NEW k \in T PROVE k + 1 \in T
  <2> SUFFICES ASSUME k + 1 <= n PROVE g[k + 1] = h[k + 1]
    OBVIOUS
  <2>1. k + 1 \in 1 .. n /\ k + 1 \in 1 .. n + 1 /\ (k + 1) - 1 = k /\ g[k] = h[k]
    OBVIOUS
  <2> QED BY <2>1 DEF Doubles
<1> HIDE DEF T
<1>3. n \in T
  BY <1>1, <1>2, Induction DEF T
<1> QED BY <1>3 DEF T

(* Power is what its definition says, on all numbers. *)
LEMMA PowerIsDefined ==
  /\ Power \in [Nat -> Nat]
  /\ Power[0] = 1
  /\ \A n \in Nat : Power[n + 1] = 2 * Power[n]
<1> DEFINE F == [n \in Nat |-> Beginning(n)[n]]
<1>1. F \in [Nat -> Nat] /\ F[0] = 1
  BY BeginningExists DEF Doubles
<1>2. ASSUME NEW n \in Nat PROVE F[n + 1] = 2 * F[n]
  <2>1. Beginning(n)[n] = Beginning(n + 1)[n]
    BY BeginningExists, BeginningsAgree
  <2>2. n + 1 \in 1 .. n + 1 /\ (n + 1) - 1 = n /\ n + 1 \in Nat
    OBVIOUS
  <2>3. Beginning(n + 1)[n + 1] = 2 * Beginning(n + 1)[n]
    BY <2>2, BeginningExists DEF Doubles
  <2> QED BY <2>1, <2>2, <2>3
<1> HIDE DEF F
<1>3. F = [n \in Nat |-> IF n = 0 THEN 1 ELSE 2 * F[n - 1]]
  <2>1. ASSUME NEW n \in Nat, n # 0 PROVE F[n] = 2 * F[n - 1]
    <3>1. n - 1 \in Nat /\ (n - 1) + 1 = n
      BY <2>1
    <3> QED BY <3>1, <1>2
  <2> QED BY <2>1, <1>1
<1>4. Power = [n \in Nat |-> IF n = 0 THEN 1 ELSE 2 * Power[n - 1]]
  BY <1>3 DEF Power
<1>5. \A n \in Nat : Power[n + 1] = 2 * Power[n]
  BY <1>4
<1>6. Power[0] = 1
  BY <1>4
<1> DEFINE T == {n \in Nat : Power[n] \in Nat}
<1>7. \A n \in Nat : n \in T
  <2>1. 0 \in T /\ \A n \in T : n + 1 \in T
    BY <1>5, <1>6
  <2> HIDE DEF T
  <2> QED BY <2>1, Induction DEF T
<1> QED BY <1>4, <1>5, <1>6, <1>7

-----------------------------------------------------------------------------
(* Sizes of blocks: each is twice the one below, and a multiple of all.    *)
LEMMA SizeDoubles ==
  ASSUME NEW k \in Nat
  PROVE  Size(k) \in Nat /\ Size(k) >= 2 /\ Size(k + 1) = 2 * Size(k)
<1> DEFINE T == {n \in Nat : Power[n] >= 1}
<1>1. \A n \in Nat : n \in T
  <2>1. 0 \in T /\ \A n \in T : n + 1 \in T
    BY PowerIsDefined
  <2> HIDE DEF T
  <2> QED BY <2>1, Induction DEF T
<1> DEFINE e == k + Bucket0P2
<1>2. e \in Nat /\ e - 1 \in Nat /\ (e - 1) + 1 = e /\ (k + 1) + Bucket0P2 = e + 1
  BY HeapAssumption
<1> HIDE DEF e
<1>3. Power[e - 1] >= 1 /\ Power[e - 1] \in Nat /\ Power[e] = 2 * Power[e - 1] /\ Power[e + 1] = 2 * Power[e]
  BY <1>1, <1>2, PowerIsDefined
<1> QED BY <1>2, <1>3 DEF Size, e

(* A size is a multiple of the smaller ones. *)
LEMMA SizeDivides ==
  ASSUME NEW i \in Nat, NEW j \in Nat, i <= j
  PROVE  \E d \in Nat \ {0} : Size(j) = d * Size(i)
<1> DEFINE T == {n \in Nat : \E d \in Nat \ {0} : Size(i + n) = d * Size(i)}
<1>1. 0 \in T
  <2>1. Size(i + 0) = 1 * Size(i)
    BY SizeDoubles
  <2> QED BY <2>1
<1>2. ASSUME NEW n \in T PROVE n + 1 \in T
  <2>1. PICK d \in Nat \ {0} : Size(i + n) = d * Size(i)
    OBVIOUS
  <2>2. Size(i + (n + 1)) = 2 * Size(i + n) /\ Size(i) \in Nat
    BY SizeDoubles
  <2>3. Size(i + (n + 1)) = (2 * d) * Size(i)
    BY <2>1, <2>2
  <2>4. 2 * d \in Nat \ {0}
    OBVIOUS
  <2> QED BY <2>3, <2>4
<1>3. T \in SUBSET Nat
  OBVIOUS
<1> HIDE DEF T
<1>4. \A n \in Nat : n \in T
  BY <1>1, <1>2, <1>3, Induction
<1>5. j - i \in Nat /\ i + (j - i) = j
  OBVIOUS
<1> QED BY <1>4, <1>5 DEF T

(* A larger bucket has the larger blocks. *)
LEMMA SizeGrows ==
  ASSUME NEW i \in Nat, NEW j \in Nat, i <= j
  PROVE  Size(i) <= Size(j)
<1>1. PICK d \in Nat \ {0} : Size(j) = d * Size(i)
  BY SizeDivides
<1>2. Size(i) \in Nat
  BY SizeDoubles
<1>3. \A s \in Nat : s <= d * s
  OBVIOUS
<1> QED BY <1>1, <1>2, <1>3

-----------------------------------------------------------------------------
(* Remainders: what is a multiple, and the parts of a number.              *)
LEMMA Parts ==
  ASSUME NEW s \in Nat \ {0}, NEW a \in Nat
  PROVE  /\ a = (a \div s) * s + (a % s)
         /\ a % s \in 0 .. s - 1
         /\ a \div s \in Nat
<1>1. a % s \in 0 .. s - 1 /\ a \div s \in Nat
  OBVIOUS
<1> QED BY <1>1

(* Quotient and remainder are the only ones. *)
LEMMA PartsUnique ==
  ASSUME NEW s \in Nat \ {0}, NEW q \in Nat, NEW r \in 0 .. s - 1
  PROVE  (q * s + r) % s = r /\ (q * s + r) \div s = q
<1> DEFINE a == q * s + r
               m == a \div s
<1>0. a \in Nat
  OBVIOUS
<1>1. m \in Nat /\ a = m * s + (a % s) /\ a % s \in 0 .. s - 1
  <2> HIDE DEF a
  <2> QED BY <1>0, Parts
<1> HIDE DEF m
<1>2. ~ (m < q)
  <2> SUFFICES ASSUME m + 1 <= q PROVE FALSE
    BY <1>1
  <2>1. (m + 1) * s <= q * s
    BY <1>1
  <2> QED BY <2>1, <1>1
<1>3. ~ (q < m)
  <2> SUFFICES ASSUME q + 1 <= m PROVE FALSE
    BY <1>1
  <2>1. (q + 1) * s <= m * s
    BY <1>1
  <2> QED BY <2>1, <1>1
<1> QED BY <1>1, <1>2, <1>3 DEF m

(* The multiples of s are what s leaves no remainder of. *)
LEMMA Multiple ==
  ASSUME NEW s \in Nat \ {0}, NEW a \in Nat
  PROVE  a % s = 0 <=> \E m \in Nat : a = m * s
<1>1. a % s = 0 => a = (a \div s) * s /\ a \div s \in Nat
  BY Parts
<1>2. ASSUME NEW m \in Nat, a = m * s PROVE a % s = 0
  <2>1. (m * s + 0) % s = 0
    BY PartsUnique
  <2> QED BY <2>1, <1>2
<1> QED BY <1>1, <1>2

(* What is aligned to a block is aligned to all smaller ones. *)
LEMMA AlignedBelow ==
  ASSUME NEW i \in Nat, NEW j \in Nat, i <= j, NEW a \in Nat, a % Size(j) = 0
  PROVE  a % Size(i) = 0
<1>1. PICK d \in Nat \ {0} : Size(j) = d * Size(i)
  BY SizeDivides
<1>2. Size(i) \in Nat \ {0} /\ Size(j) \in Nat \ {0}
  BY SizeDoubles
<1>3. PICK m \in Nat : a = m * Size(j)
  BY <1>2, Multiple
<1>4. a = (m * d) * Size(i) /\ m * d \in Nat
  BY <1>1, <1>2, <1>3
<1>5. \E n \in Nat : a = n * Size(i)
  BY <1>4
<1> QED BY <1>2, <1>5, Multiple

(* Sums of multiples are multiples. *)
LEMMA SumAligned ==
  ASSUME NEW s \in Nat \ {0}, NEW a \in Nat, NEW b \in Nat, a % s = 0, b % s = 0
  PROVE  (a + b) % s = 0
<1>1. PICK m \in Nat : a = m * s
  BY Multiple
<1>2. PICK n \in Nat : b = n * s
  BY Multiple
<1>3. a + b = (m + n) * s /\ m + n \in Nat /\ a + b \in Nat
  BY <1>1, <1>2
<1>4. \E q \in Nat : a + b = q * s
  BY <1>3
<1> QED BY <1>3, <1>4, Multiple

(* A block is aligned at its end, too. *)
LEMMA SizeAligned ==
  ASSUME NEW i \in Nat, NEW j \in Nat, i <= j
  PROVE  Size(j) % Size(i) = 0
<1>1. PICK d \in Nat \ {0} : Size(j) = d * Size(i)
  BY SizeDivides
<1>2. Size(i) \in Nat \ {0} /\ Size(j) \in Nat
  BY SizeDoubles
<1>3. \E e \in Nat : Size(j) = e * Size(i)
  BY <1>1
<1> QED BY <1>2, <1>3, Multiple

(* Between two multiples of s there is at least s. *)
LEMMA Apart ==
  ASSUME NEW s \in Nat \ {0}, NEW a \in Nat, NEW b \in Nat, a % s = 0, b % s = 0, a < b
  PROVE  a + s <= b
<1>1. PICK m \in Nat : a = m * s
  BY Multiple
<1>2. PICK n \in Nat : b = n * s
  BY Multiple
<1>3. ~ (n <= m)
  <2> SUFFICES ASSUME n <= m PROVE FALSE
    OBVIOUS
  <2>1. n * s <= m * s
    OBVIOUS
  <2> QED BY <2>1, <1>1, <1>2
<1>4. (m + 1) * s <= n * s
  BY <1>3
<1> QED BY <1>1, <1>2, <1>4

-----------------------------------------------------------------------------
(* The block of bucket k + 1 that p lies in is the one of bucket k and its *)
(* sibling.                                                                *)
LEMMA BlockIsAligned ==
  ASSUME NEW p \in Nat, NEW k \in Nat
  PROVE  /\ Block(p, k) \in Nat /\ Block(p, k) % Size(k) = 0
         /\ Block(p, k) <= p /\ p < Block(p, k) + Size(k)
<1>1. Size(k) \in Nat \ {0}
  BY SizeDoubles
<1> DEFINE s == Size(k)
               m == p \div s
<1>2. p = m * s + (p % s) /\ p % s \in 0 .. s - 1 /\ m \in Nat
  BY <1>1, Parts
<1> HIDE DEF m
<1>3. Block(p, k) \in Nat /\ Block(p, k) <= p /\ p < Block(p, k) + Size(k)
  <2> DEFINE r == p % s
  <2>1. r \in 0 .. s - 1 /\ s \in Nat /\ Block(p, k) = p - r
    BY <1>1, <1>2 DEF Block
  <2>2. r <= p
    <3>1. p % s <= p
      BY <1>1, <1>2
    <3> QED BY <3>1
  <2> HIDE DEF r
  <2> QED BY <2>1, <2>2
<1>4. \E n \in Nat : Block(p, k) = n * Size(k)
  BY <1>1, <1>2 DEF Block
<1> QED BY <1>1, <1>3, <1>4, Multiple

(* The block of bucket k that starts at p. *)
LEMMA BlockOfAligned ==
  ASSUME NEW p \in Nat, NEW k \in Nat, p % Size(k) = 0
  PROVE  Block(p, k) = p
BY DEF Block

(* The lower half keeps its first cell, the upper half takes its sibling's. *)
LEMMA BlockAbove ==
  ASSUME NEW p \in Nat, NEW k \in Nat
  PROVE  \/ /\ Block(p, k + 1) = Block(p, k) /\ Sibling(p, k) = Block(p, k) + Size(k)
            /\ (Block(p, k) \div Size(k)) % 2 = 0
         \/ /\ Block(p, k + 1) = Block(p, k) - Size(k) /\ Sibling(p, k) = Block(p, k) - Size(k)
            /\ Sibling(p, k) \in Nat /\ (Block(p, k) \div Size(k)) % 2 = 1
<1> DEFINE s == Size(k)
               m == p \div s
               r == p % s
               q == m \div 2
<1>1. s \in Nat \ {0} /\ Size(k + 1) = 2 * s
  BY SizeDoubles
<1>2. m \in Nat /\ r \in 0 .. s - 1 /\ p = m * s + r
  BY <1>1, Parts
<1>3. Block(p, k) = m * s
  BY <1>1, <1>2 DEF Block
<1>4. Block(p, k) \div s = m
  <2>1. (m * s + 0) \div s = m
    BY <1>1, <1>2, PartsUnique
  <2> QED BY <2>1, <1>1, <1>2, <1>3
<1> HIDE DEF s, m, r
<1>5. q \in Nat /\ m = 2 * q + (m % 2) /\ m % 2 \in {0, 1}
  BY <1>2
<1> HIDE DEF q
<1> DEFINE w == 2 * s
<1>8. w \in Nat \ {0} /\ w = 2 * s
  BY <1>1
<1> HIDE DEF w
<1>6. CASE m % 2 = 0
  <2>1. p = q * w + r /\ r \in 0 .. w - 1
    BY <1>1, <1>2, <1>5, <1>6, <1>8
  <2>2. (q * w + r) % w = r
    BY <1>5, <1>8, <2>1, PartsUnique
  <2>3. Block(p, k + 1) = p - r
    BY <1>1, <1>8, <2>1, <2>2 DEF Block
  <2> QED BY <1>1, <1>2, <1>3, <1>4, <1>6, <2>3 DEF Sibling, s
<1>7. CASE m % 2 = 1
  <2>1. p = q * w + (s + r) /\ s + r \in 0 .. w - 1
    BY <1>1, <1>2, <1>5, <1>7, <1>8
  <2>2. (q * w + (s + r)) % w = s + r
    BY <1>5, <1>8, <2>1, PartsUnique
  <2>3. Block(p, k + 1) = p - (s + r)
    BY <1>1, <1>8, <2>1, <2>2 DEF Block
  <2>4. Block(p, k) - s \in Nat
    BY <1>1, <1>2, <1>3, <1>5, <1>7, <2>1
  <2> QED BY <1>1, <1>2, <1>3, <1>4, <1>7, <2>3, <2>4 DEF Sibling, s
<1> QED BY <1>5, <1>6, <1>7

-----------------------------------------------------------------------------
(* Lists: the head taken, an element put before the others, one unlinked.  *)
LEMMA TailList ==
  ASSUME NEW C, NEW L \in Seq(C), L # << >>, IsInjective(L)
  PROVE  /\ Head(L) \in ToSet(L)
         /\ Tail(L) \in Seq(C) /\ IsInjective(Tail(L))
         /\ ToSet(Tail(L)) = ToSet(L) \ {Head(L)}
<1>1. Len(L) \in Nat \ {0} /\ DOMAIN L = 1 .. Len(L) /\ Head(L) = L[1]
  OBVIOUS
<1>2. /\ Tail(L) \in Seq(C) /\ Len(Tail(L)) = Len(L) - 1
      /\ DOMAIN Tail(L) = 1 .. Len(L) - 1
      /\ \A i \in 1 .. Len(L) - 1 : Tail(L)[i] = L[i + 1]
  OBVIOUS
<1>3. \A i, j \in 1 .. Len(L) : L[i] = L[j] => i = j
  BY <1>1 DEF IsInjective
<1>4. IsInjective(Tail(L))
  BY <1>1, <1>2, <1>3 DEF IsInjective
<1>5. ASSUME NEW x PROVE x \in ToSet(Tail(L)) <=> x \in ToSet(L) /\ x # Head(L)
  <2>1. ASSUME NEW i \in 1 .. Len(L) - 1 PROVE L[i + 1] \in ToSet(L) /\ L[i + 1] # Head(L)
    <3>1. i + 1 \in 1 .. Len(L) /\ 1 \in 1 .. Len(L) /\ i + 1 # 1
      BY <1>1
    <3> QED BY <3>1, <1>1, <1>3 DEF ToSet
  <2>2. ASSUME NEW i \in 1 .. Len(L), L[i] # Head(L) PROVE L[i] \in ToSet(Tail(L))
    <3>1. i - 1 \in 1 .. Len(L) - 1 /\ (i - 1) + 1 = i
      BY <1>1, <2>2
    <3> QED BY <3>1, <1>2 DEF ToSet
  <2> QED BY <2>1, <2>2, <1>1, <1>2 DEF ToSet
<1>6. Head(L) \in ToSet(L)
  BY <1>1 DEF ToSet
<1> QED BY <1>2, <1>4, <1>5, <1>6

(* An element put before the others, as pushblock does. *)
LEMMA ConsList ==
  ASSUME NEW C, NEW L \in Seq(C), NEW x \in C, x \notin ToSet(L), IsInjective(L)
  PROVE  /\ <<x>> \o L \in Seq(C) /\ IsInjective(<<x>> \o L)
         /\ ToSet(<<x>> \o L) = ToSet(L) \cup {x}
<1> DEFINE M == <<x>> \o L
<1>1. Len(L) \in Nat /\ DOMAIN L = 1 .. Len(L)
  OBVIOUS
<1>2. /\ M \in Seq(C) /\ Len(M) = Len(L) + 1 /\ DOMAIN M = 1 .. Len(L) + 1
      /\ M[1] = x /\ \A i \in 2 .. Len(L) + 1 : M[i] = L[i - 1]
  OBVIOUS
<1> HIDE DEF M
<1>3. \A i \in 1 .. Len(L) : i + 1 \in 2 .. Len(L) + 1 /\ M[i + 1] = L[i]
  BY <1>1, <1>2
<1>4. \A i \in 2 .. Len(L) + 1 : i - 1 \in 1 .. Len(L) /\ M[i] = L[i - 1] /\ M[i] # x
  BY <1>1, <1>2 DEF ToSet
<1>5. \A i, j \in 1 .. Len(L) : L[i] = L[j] => i = j
  BY <1>1 DEF IsInjective
<1>6. ASSUME NEW i \in DOMAIN M, NEW j \in DOMAIN M, M[i] = M[j] PROVE i = j
  <2>1. CASE i = 1 \/ j = 1
    BY <1>1, <1>2, <1>4, <1>6, <2>1
  <2>2. CASE i # 1 /\ j # 1
    <3>1. i \in 2 .. Len(L) + 1 /\ j \in 2 .. Len(L) + 1
      BY <1>1, <1>2, <2>2
    <3>2. i - 1 = j - 1
      BY <3>1, <1>4, <1>5, <1>6
    <3> QED BY <3>1, <3>2, <1>1
  <2> QED BY <2>1, <2>2
<1>7. ASSUME NEW y PROVE y \in ToSet(M) <=> y \in ToSet(L) \/ y = x
  <2>1. ASSUME NEW i \in DOMAIN M PROVE M[i] \in ToSet(L) \/ M[i] = x
    <3>1. i = 1 \/ i \in 2 .. Len(L) + 1
      BY <1>1, <1>2
    <3> QED BY <3>1, <1>1, <1>2, <1>4 DEF ToSet
  <2>2. ASSUME NEW i \in DOMAIN L PROVE L[i] \in ToSet(M)
    <3>1. i + 1 \in DOMAIN M
      BY <1>1, <1>2
    <3> QED BY <3>1, <1>1, <1>3 DEF ToSet
  <2>3. x \in ToSet(M)
    <3>1. 1 \in DOMAIN M
      BY <1>1, <1>2
    <3> QED BY <3>1, <1>2 DEF ToSet
  <2> QED BY <2>1, <2>2, <2>3 DEF ToSet
<1> QED BY <1>2, <1>6, <1>7 DEF M, IsInjective

(* An element unlinked, as pushblock does with a sibling. *)
LEMMA RemoveList ==
  ASSUME NEW C, NEW L \in Seq(C), NEW x, x \in ToSet(L), IsInjective(L)
  PROVE  /\ RemoveFirst(L, x) \in Seq(C) /\ IsInjective(RemoveFirst(L, x))
         /\ ToSet(RemoveFirst(L, x)) = ToSet(L) \ {x}
<1>1. Len(L) \in Nat /\ DOMAIN L = 1 .. Len(L)
  OBVIOUS
<1>2. \A i, j \in 1 .. Len(L) : L[i] = L[j] => i = j
  BY <1>1 DEF IsInjective
<1>3. PICK n \in 1 .. Len(L) : L[n] = x
  BY <1>1 DEF ToSet
<1>4. {i \in 1 .. Len(L) : L[i] = x} = {n}
  BY <1>2, <1>3
<1>5. Min({n}) = n
  BY <1>1 DEF Min
<1> DEFINE M == SubSeq(L, 1, n - 1) \o SubSeq(L, n + 1, Len(L))
<1>6. RemoveFirst(L, x) = M
  BY <1>3, <1>4, <1>5 DEF RemoveFirst, SelectInSeq, RemoveAt
<1>7. /\ M \in Seq(C) /\ Len(M) = Len(L) - 1 /\ DOMAIN M = 1 .. Len(L) - 1
      /\ \A i \in 1 .. n - 1 : M[i] = L[i]
      /\ \A i \in n .. Len(L) - 1 : M[i] = L[i + 1]
  <2> DEFINE A == SubSeq(L, 1, n - 1)
             D == SubSeq(L, n + 1, Len(L))
  <2>1. A \in Seq(C) /\ Len(A) = n - 1 /\ \A i \in 1 .. n - 1 : A[i] = L[i]
    BY <1>1
  <2>2. D \in Seq(C) /\ Len(D) = Len(L) - n /\ \A i \in 1 .. Len(L) - n : D[i] = L[n + i]
    <3>1. n + 1 \in Int /\ Len(L) \in Int /\ \A i \in n + 1 .. Len(L) : L[i] \in C
      BY <1>1
    <3>2. /\ D \in Seq(C) /\ Len(D) = IF n + 1 <= Len(L) THEN Len(L) - (n + 1) + 1 ELSE 0
          /\ \A i \in 1 .. Len(L) - (n + 1) + 1 : D[i] = L[(n + 1) + i - 1]
      BY <3>1, SubSeqProperties
    <3> HIDE DEF D
    <3>3. Len(D) = Len(L) - n
      BY <1>1, <3>2
    <3>4. \A i \in 1 .. Len(L) - n : i \in 1 .. Len(L) - (n + 1) + 1 /\ (n + 1) + i - 1 = n + i
      BY <1>1
    <3>5. \A i \in 1 .. Len(L) - n : D[i] = L[n + i]
      BY <3>2, <3>4
    <3> QED BY <3>2, <3>3, <3>5
  <2> HIDE DEF A, D
  <2>3. /\ A \o D \in Seq(C) /\ Len(A \o D) = Len(L) - 1 /\ DOMAIN (A \o D) = 1 .. Len(L) - 1
        /\ \A i \in 1 .. n - 1 : (A \o D)[i] = A[i]
        /\ \A i \in n .. Len(L) - 1 : (A \o D)[i] = D[i - (n - 1)]
    <3>1. A \o D \in Seq(C) /\ Len(A \o D) = Len(L) - 1
      <4>1. A \o D \in Seq(C) /\ Len(A \o D) = Len(A) + Len(D)
        <5>1. A \in Seq(C) /\ D \in Seq(C)
          BY <2>1, <2>2
        <5> QED BY <5>1, ConcatProperties
      <4>2. (n - 1) + (Len(L) - n) = Len(L) - 1
        BY <1>1
      <4> QED BY <4>1, <4>2, <2>1, <2>2
    <3>2. \A i \in 1 .. n - 1 : (A \o D)[i] = A[i]
      BY <1>1, <2>1, <2>2
    <3>3. \A i \in n .. Len(L) - 1 : (A \o D)[i] = D[i - (n - 1)]
      BY <1>1, <2>1, <2>2
    <3> QED BY <3>1, <3>2, <3>3
  <2>4. ASSUME NEW i \in n .. Len(L) - 1 PROVE (A \o D)[i] = L[i + 1]
    <3>1. i - (n - 1) \in 1 .. Len(L) - n /\ n + (i - (n - 1)) = i + 1
      BY <1>1
    <3> QED BY <2>2, <2>3, <3>1
  <2> QED BY <2>1, <2>3, <2>4 DEF A, D
<1> HIDE DEF M
<1> DEFINE from(i) == IF i < n THEN i ELSE i + 1
<1>8. \A i \in DOMAIN M : from(i) \in 1 .. Len(L) /\ from(i) # n /\ M[i] = L[from(i)]
  BY <1>1, <1>7
<1>9. \A i, j \in DOMAIN M : from(i) = from(j) => i = j
  BY <1>1, <1>7
<1>10. ASSUME NEW i \in 1 .. Len(L), i # n PROVE \E j \in DOMAIN M : from(j) = i
  <2>1. CASE i < n
    <3>1. i \in DOMAIN M /\ from(i) = i
      BY <1>1, <1>7, <2>1
    <3> QED BY <3>1
  <2>2. CASE i > n
    <3>1. i - 1 \in DOMAIN M /\ from(i - 1) = i
      BY <1>1, <1>7, <2>2
    <3> QED BY <3>1
  <2> QED BY <1>10, <2>1, <2>2
<1> HIDE DEF from
<1>11. IsInjective(M)
  BY <1>2, <1>8, <1>9 DEF IsInjective
<1>12. ASSUME NEW y PROVE y \in ToSet(M) <=> y \in ToSet(L) /\ y # x
  BY <1>1, <1>2, <1>3, <1>8, <1>10 DEF ToSet
<1> QED BY <1>6, <1>7, <1>11, <1>12

-----------------------------------------------------------------------------
(* A block is a pair of its first cell and its bucket.  A set of blocks    *)
(* tiles the memory when each cell is in one block and only one.           *)
In(c, x) == x[1] <= c /\ c < x[1] + Size(x[2])

Disjoint(B) == \A x, y \in B : \A c \in Nat : In(c, x) /\ In(c, y) => x = y

IsTiling(B, top) ==
  /\ B \subseteq Nat \X Levels
  /\ \A c \in Nat : (\E x \in B : In(c, x)) <=> PageSize <= c /\ c < top
  /\ Disjoint(B)

(* Blocks may be exchanged for others of the same cells. *)
LEMMA Exchange ==
  ASSUME NEW B, NEW X, NEW Y, NEW top,
         IsTiling(B, top), X \subseteq B, Y \subseteq Nat \X Levels, Disjoint(Y),
         \A c \in Nat : (\E x \in X : In(c, x)) <=> (\E y \in Y : In(c, y))
  PROVE  IsTiling((B \ X) \cup Y, top)
<1> DEFINE C == (B \ X) \cup Y
<1>1. ASSUME NEW c \in Nat
      PROVE (\E z \in C : In(c, z)) <=> \E z \in B : In(c, z)
  OBVIOUS
<1>2. ASSUME NEW x \in C, NEW y \in C, NEW c \in Nat, In(c, x), In(c, y) PROVE x = y
  <2>1. CASE x \in Y /\ y \in Y
    BY <1>2, <2>1 DEF Disjoint
  <2>2. CASE x \in B \ X /\ y \in B \ X
    BY <1>2, <2>2 DEF Disjoint, IsTiling
  <2>3. CASE x \in Y /\ y \in B \ X
    <3>1. PICK z \in X : In(c, z)
      BY <1>2, <2>3
    <3> QED BY <3>1, <1>2, <2>3 DEF Disjoint, IsTiling
  <2>4. CASE x \in B \ X /\ y \in Y
    <3>1. PICK z \in X : In(c, z)
      BY <1>2, <2>4
    <3> QED BY <3>1, <1>2, <2>4 DEF Disjoint, IsTiling
  <2> QED BY <2>1, <2>2, <2>3, <2>4
<1>3. C \subseteq Nat \X Levels
  BY DEF IsTiling
<1> QED BY <1>1, <1>2, <1>3 DEF IsTiling, Disjoint

(* The types of the constants. *)
LEMMA LevelFacts ==
  /\ Levels \subseteq Nat /\ SbrkBucket \in Levels
  /\ PageSize \in Nat \ {0} /\ MemLimit \in Nat
  /\ Junk \notin Levels /\ Junk # TRUE /\ Junk # FALSE
<1>1. Levels \subseteq Nat /\ SbrkBucket \in Levels /\ SbrkBucket \in Nat
  BY HeapAssumption DEF Levels
<1>2. PageSize \in Nat \ {0}
  BY <1>1, SizeDoubles DEF PageSize
<1>3. MemLimit \in Nat /\ Junk \notin Levels /\ Junk # TRUE /\ Junk # FALSE
  BY HeapAssumption
<1> QED BY <1>1, <1>2, <1>3

(* Memory grows by one block. *)
LEMMA Grown ==
  ASSUME NEW B, NEW top \in Nat, NEW k \in Levels, IsTiling(B, top), PageSize <= top
  PROVE  IsTiling(B \cup {<<top, k>>}, top + Size(k)) /\ <<top, k>> \notin B
<1>1. Size(k) \in Nat \ {0} /\ PageSize \in Nat
  BY SizeDoubles, LevelFacts
<1>2. ASSUME NEW c \in Nat, NEW x \in B, In(c, x) PROVE c < top /\ ~ In(c, <<top, k>>)
  BY <1>1, <1>2 DEF IsTiling, In
<1>3. <<top, k>> \in Nat \X Levels /\ In(top, <<top, k>>)
  BY <1>1 DEF In
<1>4. <<top, k>> \notin B
  BY <1>2, <1>3
<1>5. Disjoint(B \cup {<<top, k>>})
  BY <1>2 DEF Disjoint, IsTiling
<1>6. ASSUME NEW c \in Nat
      PROVE (\E x \in B \cup {<<top, k>>} : In(c, x)) <=> PageSize <= c /\ c < top + Size(k)
  <2>1. In(c, <<top, k>>) <=> top <= c /\ c < top + Size(k)
    BY DEF In
  <2>2. (\E x \in B : In(c, x)) <=> PageSize <= c /\ c < top
    BY DEF IsTiling
  <2> QED BY <1>1, <2>1, <2>2
<1> QED BY <1>3, <1>4, <1>5, <1>6 DEF IsTiling

(* A block halved down to a smaller one: the upper halves are left over.   *)
Halves(pb, bi, top) == {<<pb + Size(k), k>> : k \in bi .. (top - 1)}

(* The halves left over and the block asked for are the block cut. *)
LEMMA Cut ==
  ASSUME NEW pb \in Nat, NEW bi \in Levels, NEW top \in Levels, bi <= top
  PROVE  /\ Halves(pb, bi, top) \subseteq Nat \X Levels
         /\ <<pb, bi>> \notin Halves(pb, bi, top)
         /\ Disjoint({<<pb, bi>>} \cup Halves(pb, bi, top))
         /\ \A c \in Nat :
              In(c, <<pb, top>>) <=> \E y \in {<<pb, bi>>} \cup Halves(pb, bi, top) : In(c, y)
<1> DEFINE H == {<<pb, bi>>} \cup Halves(pb, bi, top)
<1>0. bi \in Nat /\ top \in Nat /\ \A k \in bi .. top : k \in Nat /\ k \in Levels
  BY HeapAssumption DEF Levels
<1>1. \A k \in bi .. top : Size(k) \in Nat \ {0} /\ Size(k + 1) = 2 * Size(k) /\ Size(k) <= Size(top)
                        /\ Size(bi) <= Size(k)
  <2> SUFFICES ASSUME NEW k \in bi .. top
               PROVE  /\ Size(k) \in Nat \ {0} /\ Size(k + 1) = 2 * Size(k)
                      /\ Size(k) <= Size(top) /\ Size(bi) <= Size(k)
    OBVIOUS
  <2>1. k \in Nat /\ bi <= k /\ k <= top
    BY <1>0
  <2>2. Size(k) \in Nat \ {0} /\ Size(k + 1) = 2 * Size(k)
    BY <2>1, SizeDoubles
  <2> QED BY <2>1, <2>2, <1>0, SizeGrows
<1>2. ASSUME NEW k \in bi .. top - 1, NEW m \in bi .. top - 1, k < m
      PROVE  pb + 2 * Size(k) <= pb + Size(m)
  <2>1. k + 1 \in Nat /\ m \in Nat /\ k + 1 <= m /\ k \in bi .. top /\ m \in bi .. top
    BY <1>0, <1>2
  <2>2. Size(k + 1) <= Size(m)
    BY <2>1, SizeGrows
  <2> QED BY <2>1, <2>2, <1>1
<1>3. \A c \in Nat, k \in bi .. top - 1 :
        In(c, <<pb + Size(k), k>>) <=> pb + Size(k) <= c /\ c < pb + 2 * Size(k)
  <2> SUFFICES ASSUME NEW k \in bi .. top - 1 PROVE (pb + Size(k)) + Size(k) = pb + 2 * Size(k)
    BY DEF In
  <2>1. Size(k) \in Nat
    BY <1>0, <1>1
  <2> QED BY <2>1
<1>4. \A c \in Nat : In(c, <<pb, bi>>) <=> pb <= c /\ c < pb + Size(bi)
  BY DEF In
<1>5. \A k \in bi .. top - 1 : k \in bi .. top
  BY <1>0
<1>6. Disjoint(H)
  <2> SUFFICES ASSUME NEW c \in Nat, NEW x \in H, NEW y \in H, In(c, x), In(c, y) PROVE x = y
    BY DEF Disjoint
  <2>1. ASSUME NEW k \in bi .. top - 1, In(c, <<pb + Size(k), k>>), In(c, <<pb, bi>>) PROVE FALSE
    <3>1. pb + Size(k) <= c /\ c < pb + Size(bi)
      BY <2>1, <1>3, <1>4
    <3>2. k \in bi .. top /\ bi \in bi .. top
      BY <1>0, <1>5
    <3>3. Size(k) \in Nat /\ Size(bi) \in Nat /\ Size(bi) <= Size(k)
      BY <3>2, <1>1
    <3> QED BY <3>1, <3>3
  <2>2. ASSUME NEW k \in bi .. top - 1, NEW m \in bi .. top - 1, k < m,
               In(c, <<pb + Size(k), k>>), In(c, <<pb + Size(m), m>>) PROVE FALSE
    BY <2>2, <1>1, <1>2, <1>3, <1>5
  <2>3. ASSUME NEW k \in bi .. top - 1, NEW m \in bi .. top - 1,
               In(c, <<pb + Size(k), k>>), In(c, <<pb + Size(m), m>>) PROVE k = m
    BY <2>2, <2>3, <1>0
  <2>4. \A z \in H : z = <<pb, bi>> \/ \E k \in bi .. top - 1 : z = <<pb + Size(k), k>>
    BY DEF Halves
  <2>5. CASE x = <<pb, bi>>
    BY <2>1, <2>4, <2>5
  <2>6. CASE y = <<pb, bi>>
    BY <2>1, <2>4, <2>6
  <2>7. CASE x # <<pb, bi>> /\ y # <<pb, bi>>
    <3>1. PICK k \in bi .. top - 1 : x = <<pb + Size(k), k>>
      BY <2>4, <2>7
    <3>2. PICK m \in bi .. top - 1 : y = <<pb + Size(m), m>>
      BY <2>4, <2>7
    <3> QED BY <2>3, <3>1, <3>2
  <2> QED BY <2>5, <2>6, <2>7
<1>7. ASSUME NEW c \in Nat, In(c, <<pb, top>>) PROVE \E y \in H : In(c, y)
  <2> SUFFICES ASSUME ~ In(c, <<pb, bi>>) PROVE \E y \in H : In(c, y)
    OBVIOUS
  <2> DEFINE T == {m \in bi .. top : c < pb + Size(m)}
  <2>1. top \in T /\ T \in SUBSET Nat /\ T # {}
    BY <1>0, <1>7 DEF In
  <2>2. PICK m \in T : \A n \in T : m <= n
    <3> HIDE DEF T
    <3> QED BY <2>1, LeastNumber
  <2>3. pb <= c /\ m # bi
    BY <1>7, <1>4 DEF In
  <2>4. m - 1 \in bi .. top - 1 /\ m - 1 \in bi .. top /\ m - 1 \notin T /\ (m - 1) + 1 = m
    BY <2>2, <2>3, <1>0
  <2>5. In(c, <<pb + Size(m - 1), m - 1>>)
    BY <2>2, <2>4, <1>1, <1>3
  <2> QED BY <2>4, <2>5 DEF Halves
<1>8. ASSUME NEW c \in Nat, NEW y \in H, In(c, y) PROVE In(c, <<pb, top>>)
  <2>1. CASE y = <<pb, bi>>
    BY <1>8, <2>1, <1>0, <1>1, <1>4 DEF In
  <2>2. ASSUME NEW k \in bi .. top - 1, In(c, <<pb + Size(k), k>>) PROVE In(c, <<pb, top>>)
    <3>1. Size(k + 1) <= Size(top)
      BY <1>0, SizeGrows
    <3> QED BY <2>2, <3>1, <1>0, <1>1, <1>3, <1>5 DEF In
  <2> QED BY <1>8, <2>1, <2>2 DEF Halves
<1>9. Halves(pb, bi, top) \subseteq Nat \X Levels
  BY <1>0, <1>1, <1>5 DEF Halves
<1>10. <<pb, bi>> \notin Halves(pb, bi, top)
  BY <1>1, <1>5 DEF Halves
<1> QED BY <1>6, <1>7, <1>8, <1>9, <1>10
(* The blocks that join to one of bucket top when the one at p is released. *)
Joined(p, bi, top) == {<<p, bi>>} \cup {<<Sibling(p, k), k>> : k \in bi .. (top - 1)}

(* The block of a bucket that a cell is in contains its smaller blocks.    *)
LEMMA BlockInBlock ==
  ASSUME NEW p \in Nat, NEW k \in Nat, NEW j \in Nat, k <= j
  PROVE  /\ Block(p, j) <= Block(p, k)
         /\ Block(p, k) + Size(k) <= Block(p, j) + Size(j)
<1>1. Size(k) \in Nat \ {0} /\ Size(j) \in Nat \ {0}
  BY SizeDoubles
<1>2. /\ Block(p, k) \in Nat /\ Block(p, k) % Size(k) = 0
      /\ Block(p, k) <= p /\ p < Block(p, k) + Size(k)
  BY BlockIsAligned
<1>3. /\ Block(p, j) \in Nat /\ Block(p, j) % Size(k) = 0
      /\ Block(p, j) <= p /\ p < Block(p, j) + Size(j)
  BY BlockIsAligned, AlignedBelow
<1>4. Size(j) % Size(k) = 0
  BY SizeAligned
<1> DEFINE bk == Block(p, k)
           bj == Block(p, j)
           e  == Block(p, j) + Size(j)
<1>5. e \in Nat /\ e % Size(k) = 0
  BY <1>1, <1>3, <1>4, SumAligned
<1>6. bk < e => bk + Size(k) <= e
  BY <1>1, <1>2, <1>5, Apart
<1>7. bk < bj => bk + Size(k) <= bj
  BY <1>1, <1>2, <1>3, Apart
<1> QED BY <1>1, <1>2, <1>3, <1>6, <1>7

(* A cell has one block in each bucket. *)
LEMMA BlockOfCell ==
  ASSUME NEW k \in Nat, NEW b \in Nat, b % Size(k) = 0, NEW c \in Nat
  PROVE  In(c, <<b, k>>) <=> Block(c, k) = b
<1>1. Size(k) \in Nat \ {0}
  BY SizeDoubles
<1>2. /\ Block(c, k) \in Nat /\ Block(c, k) % Size(k) = 0
      /\ Block(c, k) <= c /\ c < Block(c, k) + Size(k)
  BY BlockIsAligned
<1>3. Block(c, k) < b => Block(c, k) + Size(k) <= b
  BY <1>1, <1>2, Apart
<1>4. b < Block(c, k) => b + Size(k) <= Block(c, k)
  BY <1>1, <1>2, Apart
<1>5. In(c, <<b, k>>) <=> b <= c /\ c < b + Size(k)
  BY DEF In
<1> QED BY <1>1, <1>2, <1>3, <1>4, <1>5

(* The block of bucket k + 1 is a block of bucket k and its sibling. *)
LEMMA SiblingFacts ==
  ASSUME NEW p \in Nat, NEW k \in Nat
  PROVE  /\ Sibling(p, k) \in Nat /\ Sibling(p, k) % Size(k) = 0
         /\ Sibling(p, k) # Block(p, k)
         /\ Block(Sibling(p, k), k + 1) = Block(p, k + 1)
         /\ \A c \in Nat : Block(c, k + 1) = Block(p, k + 1)
                         <=> Block(c, k) = Block(p, k) \/ Block(c, k) = Sibling(p, k)
<1>1. Size(k) \in Nat \ {0}
  BY SizeDoubles
<1>2. /\ Block(p, k) \in Nat /\ Block(p, k) % Size(k) = 0
  BY BlockIsAligned
<1>3. Sibling(p, k) \in Nat /\ Sibling(p, k) # Block(p, k)
  BY <1>1, <1>2, BlockAbove
<1>4. Sibling(p, k) % Size(k) = 0
  <2>1. CASE Sibling(p, k) = Block(p, k) + Size(k)
    <3>1. Size(k) % Size(k) = 0
      BY SizeAligned
    <3> QED BY <2>1, <3>1, <1>1, <1>2, SumAligned
  <2>2. CASE Block(p, k + 1) = Block(p, k) - Size(k) /\ Sibling(p, k) = Block(p, k) - Size(k)
    <3>1. k + 1 \in Nat /\ k <= k + 1
      OBVIOUS
    <3>2. Block(p, k + 1) \in Nat /\ Block(p, k + 1) % Size(k + 1) = 0
      BY <3>1, BlockIsAligned
    <3>3. Block(p, k + 1) % Size(k) = 0
      BY <3>1, <3>2, AlignedBelow
    <3> QED BY <2>2, <3>3
  <2> QED BY <2>1, <2>2, BlockAbove
<1>5. \A q \in Nat : \/ /\ Block(q, k) = Block(q, k + 1) /\ Sibling(q, k) = Block(q, k + 1) + Size(k)
                      \/ /\ Block(q, k) = Block(q, k + 1) + Size(k) /\ Sibling(q, k) = Block(q, k + 1)
  <2> SUFFICES ASSUME NEW q \in Nat
               PROVE  \/ /\ Block(q, k) = Block(q, k + 1) /\ Sibling(q, k) = Block(q, k + 1) + Size(k)
                      \/ /\ Block(q, k) = Block(q, k + 1) + Size(k) /\ Sibling(q, k) = Block(q, k + 1)
    OBVIOUS
  <2>1. Block(q, k) \in Nat
    BY BlockIsAligned
  <2> QED BY <1>1, <2>1, BlockAbove
<1>6. ASSUME NEW c \in Nat, Block(c, k) = Block(p, k) PROVE Block(c, k + 1) = Block(p, k + 1)
  <2>1. Block(c, k) <= c /\ c < Block(c, k) + Size(k) /\ Block(c, k) \in Nat
    BY BlockIsAligned
  <2>2. k + 1 \in Nat /\ k <= k + 1
    OBVIOUS
  <2>3. Block(p, k + 1) <= Block(p, k) /\ Block(p, k) + Size(k) <= Block(p, k + 1) + Size(k + 1)
    BY <2>2, BlockInBlock
  <2>4. Block(p, k + 1) \in Nat /\ Block(p, k + 1) % Size(k + 1) = 0 /\ Size(k + 1) \in Nat
    BY <2>2, BlockIsAligned, SizeDoubles
  <2>5. In(c, <<Block(p, k + 1), k + 1>>)
    BY <2>1, <2>3, <2>4, <1>1, <1>6 DEF In
  <2> QED BY <2>2, <2>4, <2>5, BlockOfCell
<1>7. ASSUME NEW c \in Nat, Block(c, k + 1) = Block(p, k + 1)
      PROVE  Block(c, k) = Block(p, k) \/ Block(c, k) = Sibling(p, k)
  BY <1>5, <1>7
<1>8. Block(Sibling(p, k), k) = Sibling(p, k)
  BY <1>3, <1>4, BlockOfAligned
<1>9. Block(Sibling(p, k), k + 1) = Block(p, k + 1)
  <2> DEFINE s == Sibling(p, k)
             P == Block(p, k + 1)
  <2>1. k + 1 \in Nat /\ k <= k + 1
    OBVIOUS
  <2>2. P \in Nat /\ P % Size(k + 1) = 0 /\ Size(k + 1) = 2 * Size(k)
    BY <2>1, BlockIsAligned, SizeDoubles
  <2>3. s = P \/ s = P + Size(k)
    BY <1>5
  <2>4. In(s, <<P, k + 1>>)
    BY <2>2, <2>3, <1>1 DEF In
  <2> HIDE DEF s, P
  <2>5. s \in Nat
    BY <1>3 DEF s
  <2>6. Block(s, k + 1) = P
    BY <2>1, <2>2, <2>4, <2>5, BlockOfCell
  <2> QED BY <2>6 DEF s, P
<1>10. ASSUME NEW c \in Nat, Block(c, k) = Sibling(p, k) PROVE Block(c, k + 1) = Block(p, k + 1)
  <2> DEFINE s == Sibling(p, k)
  <2>1. Block(c, k) <= c /\ c < Block(c, k) + Size(k)
    BY BlockIsAligned
  <2>2. k + 1 \in Nat /\ k <= k + 1
    OBVIOUS
  <2>3. Block(s, k + 1) <= Block(s, k) /\ Block(s, k) + Size(k) <= Block(s, k + 1) + Size(k + 1)
    BY <2>2, <1>3, BlockInBlock
  <2>4. Block(s, k + 1) \in Nat /\ Block(s, k + 1) % Size(k + 1) = 0 /\ Size(k + 1) \in Nat
    BY <2>2, <1>3, BlockIsAligned, SizeDoubles
  <2>5. In(c, <<Block(s, k + 1), k + 1>>)
    BY <2>1, <2>3, <2>4, <1>1, <1>3, <1>8, <1>10 DEF In
  <2>6. Block(c, k + 1) = Block(s, k + 1)
    BY <2>2, <2>4, <2>5, BlockOfCell
  <2> QED BY <2>6, <1>9
<1> QED BY <1>3, <1>4, <1>6, <1>7, <1>9, <1>10
(* Cells of one block are in one block of every larger bucket. *)
LEMMA BlocksAgree ==
  ASSUME NEW p \in Nat, NEW c \in Nat, NEW k \in Nat, NEW j \in Nat, k <= j,
         Block(c, k) = Block(p, k)
  PROVE  Block(c, j) = Block(p, j)
<1>1. Block(c, k) <= c /\ c < Block(c, k) + Size(k) /\ Block(c, k) \in Nat
  BY BlockIsAligned
<1>2. Block(p, j) <= Block(p, k) /\ Block(p, k) + Size(k) <= Block(p, j) + Size(j)
  BY BlockInBlock
<1>3. Block(p, j) \in Nat /\ Block(p, j) % Size(j) = 0 /\ Size(j) \in Nat /\ Size(k) \in Nat
  BY BlockIsAligned, SizeDoubles
<1>4. In(c, <<Block(p, j), j>>)
  BY <1>1, <1>2, <1>3 DEF In
<1> QED BY <1>3, <1>4, BlockOfCell

(* The blocks that join have the cells of the block that results. *)
LEMMA JoinedCells ==
  ASSUME NEW p \in Nat, NEW bi \in Levels, NEW top \in Levels, bi <= top, p % Size(bi) = 0
  PROVE  \A c \in Nat : (\E x \in Joined(p, bi, top) : In(c, x)) <=> In(c, <<Block(p, top), top>>)
<1>0. bi \in Nat /\ top \in Nat /\ \A k \in bi .. top : k \in Nat
  BY LevelFacts
<1>1. ASSUME NEW k \in Nat, NEW c \in Nat
      PROVE  In(c, <<Block(p, k), k>>) <=> Block(c, k) = Block(p, k)
  BY BlockIsAligned, BlockOfCell
<1>2. ASSUME NEW k \in Nat, NEW c \in Nat
      PROVE  In(c, <<Sibling(p, k), k>>) <=> Block(c, k) = Sibling(p, k)
  <2>1. Sibling(p, k) \in Nat /\ Sibling(p, k) % Size(k) = 0
    BY SiblingFacts
  <2> QED BY <2>1, BlockOfCell
<1>3. Block(p, bi) = p
  BY <1>0, BlockOfAligned
<1>4. ASSUME NEW c \in Nat, In(c, <<Block(p, top), top>>)
      PROVE  \E x \in Joined(p, bi, top) : In(c, x)
  <2> DEFINE T == {m \in bi .. top : Block(c, m) = Block(p, m)}
  <2>1. top \in T /\ T \in SUBSET Nat /\ T # {}
    BY <1>0, <1>1, <1>4
  <2>2. PICK m \in T : \A n \in T : m <= n
    <3> HIDE DEF T
    <3> QED BY <2>1, LeastNumber
  <2>3. CASE m = bi
    <3>1. In(c, <<p, bi>>)
      BY <2>2, <2>3, <1>0, <1>1, <1>3
    <3> QED BY <3>1 DEF Joined
  <2>4. CASE m # bi
    <3>1. m - 1 \in bi .. top - 1 /\ m - 1 \in Nat /\ m - 1 \notin T /\ (m - 1) + 1 = m
      BY <2>2, <2>4, <1>0
    <3>2. Block(c, m - 1) # Block(p, m - 1)
      BY <3>1, <1>0
    <3>3. Block(c, m - 1) = Sibling(p, m - 1)
      BY <2>2, <3>1, <3>2, SiblingFacts
    <3>4. In(c, <<Sibling(p, m - 1), m - 1>>)
      BY <3>1, <3>3, <1>2
    <3> QED BY <3>1, <3>4 DEF Joined
  <2> QED BY <2>3, <2>4
<1>5. ASSUME NEW c \in Nat, NEW x \in Joined(p, bi, top), In(c, x)
      PROVE  In(c, <<Block(p, top), top>>)
  <2>1. CASE x = <<p, bi>>
    <3>1. Block(c, bi) = Block(p, bi)
      BY <1>0, <1>1, <1>3, <1>5, <2>1
    <3>2. Block(c, top) = Block(p, top)
      BY <3>1, <1>0, BlocksAgree
    <3> QED BY <3>2, <1>0, <1>1
  <2>2. ASSUME NEW k \in bi .. top - 1, x = <<Sibling(p, k), k>>
        PROVE  In(c, <<Block(p, top), top>>)
    <3>1. k \in Nat /\ k + 1 \in Nat /\ k + 1 <= top
      BY <1>0
    <3>2. Block(c, k + 1) = Block(p, k + 1)
      BY <3>1, <2>2, <1>2, <1>5, SiblingFacts
    <3>3. Block(c, top) = Block(p, top)
      BY <3>1, <3>2, <1>0, BlocksAgree
    <3> QED BY <3>3, <1>0, <1>1
  <2> QED BY <2>1, <2>2, <1>5 DEF Joined
<1> QED BY <1>4, <1>5

(* Of the two halves of a block the lower is the even one. *)
LEMMA EvenBlock ==
  ASSUME NEW k \in Nat, NEW a \in Nat, a % Size(k + 1) = 0
  PROVE  (a \div Size(k)) % 2 = 0
<1>1. k + 1 \in Nat /\ k <= k + 1 /\ Size(k) \in Nat \ {0}
  BY SizeDoubles
<1>2. a % Size(k) = 0
  BY <1>1, AlignedBelow
<1>3. Block(a, k) = a /\ Block(a, k + 1) = a
  BY <1>1, <1>2, BlockOfAligned
<1> QED BY <1>1, <1>3, BlockAbove

(* The upper half is the odd one. *)
LEMMA OddBlock ==
  ASSUME NEW k \in Nat, NEW a \in Nat, a % Size(k + 1) = 0
  PROVE  ((a + Size(k)) \div Size(k)) % 2 = 1 /\ (a + Size(k)) % Size(k) = 0
<1>1. k + 1 \in Nat /\ k <= k + 1 /\ Size(k) \in Nat \ {0} /\ Size(k + 1) = 2 * Size(k)
  BY SizeDoubles
<1>2. a % Size(k) = 0 /\ Size(k) % Size(k) = 0
  BY <1>1, AlignedBelow, SizeAligned
<1> DEFINE q == a + Size(k)
<1>3. q \in Nat /\ q % Size(k) = 0
  BY <1>1, <1>2, SumAligned
<1>4. In(q, <<a, k + 1>>)
  BY <1>1 DEF In
<1> HIDE DEF q
<1>5. Block(q, k) = q /\ Block(q, k + 1) = a
  BY <1>1, <1>3, <1>4, BlockOfAligned, BlockOfCell
<1>6. q # a
  BY <1>1 DEF q
<1>7. (q \div Size(k)) % 2 = 1
  BY <1>3, <1>5, <1>6, BlockAbove
<1> QED BY <1>3, <1>7 DEF q
-----------------------------------------------------------------------------
(* The invariant of a heap h whose blocks in use are those of U.           *)
HeapType == [brk     : PageSize .. MemLimit,
             buckets : [Levels -> Seq(Cells)],
             ff      : [Cells -> BOOLEAN \cup {Junk}],
             bi      : [Cells -> Levels \cup {Junk}]]

FreeIn(h) == {x \in Nat \X Levels : x[1] \in ToSet(h.buckets[x[2]])}

(* Blocks no larger than a page are aligned to their size, larger ones to  *)
(* pages.                                                                  *)
Aligned(x) == IF x[2] <= SbrkBucket THEN x[1] % Size(x[2]) = 0 ELSE x[1] % PageSize = 0

(* A free block carries the mark of its bucket, unless pullblock left it   *)
(* over: then it is an upper half.                                         *)
Marked(h, x) ==
  x[2] < SbrkBucket => \/ h.bi[x[1] + Hdr] = x[2]
                       \/ (x[1] \div Size(x[2])) % 2 = 1

Sound(h, U) ==
  /\ h \in HeapType
  /\ h.brk % PageSize = 0
  /\ IsTiling(FreeIn(h) \cup U, h.brk)
  /\ FreeIn(h) \cap U = {}
  /\ \A x \in FreeIn(h) \cup U : Aligned(x)
  /\ \A k \in Levels : IsInjective(h.buckets[k])
  /\ \A x \in FreeIn(h) : Marked(h, x)

(* The header of a block in use says so. *)
WellFormed(h, U) == Sound(h, U) /\ \A x \in U : h.ff[x[1]] = TRUE

(* The cells of the blocks of U are the same in g as in h. *)
SameIn(g, h, U) == \A x \in U : \A c \in Nat : In(c, x) => g.ff[c] = h.ff[c] /\ g.bi[c] = h.bi[c]

(* The first two cells of a block are its own, and all are in memory. *)
LEMMA BlockCells ==
  ASSUME NEW h, NEW U, Sound(h, U), NEW x \in FreeIn(h) \cup U
  PROVE  /\ x[1] \in Nat /\ x[2] \in Levels /\ x[2] \in Nat /\ x = <<x[1], x[2]>>
         /\ Size(x[2]) \in Nat /\ Size(x[2]) >= 2
         /\ In(x[1], x) /\ In(x[1] + Hdr, x)
         /\ \A c \in Nat : In(c, x) => c \in Cells /\ PageSize <= c /\ c < h.brk
<1>1. x \in Nat \X Levels
  BY DEF Sound, IsTiling
<1>2. x[1] \in Nat /\ x[2] \in Levels /\ x[2] \in Nat /\ x = <<x[1], x[2]>>
  <2>1. x[1] \in Nat /\ x[2] \in Levels /\ x = <<x[1], x[2]>>
    BY <1>1
  <2>2. Levels \subseteq Nat
    BY LevelFacts
  <2> QED BY <2>1, <2>2
<1>3. Size(x[2]) \in Nat /\ Size(x[2]) >= 2
  BY <1>2, SizeDoubles
<1>4. In(x[1], x) /\ In(x[1] + Hdr, x)
  BY <1>2, <1>3 DEF In, Hdr
<1>5. h.brk \in PageSize .. MemLimit
  BY DEF Sound, HeapType
<1>6. ASSUME NEW c \in Nat, In(c, x) PROVE c \in Cells /\ PageSize <= c /\ c < h.brk
  <2>1. PageSize <= c /\ c < h.brk
    BY <1>6 DEF Sound, IsTiling
  <2> QED BY <2>1, <1>5, LevelFacts DEF Cells
<1> QED BY <1>2, <1>3, <1>4, <1>6

(* What pushblock takes for a free sibling is one. *)
LEMMA JoinsListed ==
  ASSUME NEW h, NEW U, WellFormed(h, U), NEW p, NEW bi, <<p, bi>> \in U,
         NEW k \in Nat, bi <= k, NEW luck, Joins(h, p, k, luck)
  PROVE  <<Sibling(p, k), k>> \in FreeIn(h)
<1> DEFINE B == FreeIn(h) \cup U
           s == Sibling(p, k)
           P == Block(p, SbrkBucket)
<1>0. SbrkBucket \in Nat /\ k < SbrkBucket /\ k \in Levels /\ PageSize \in Nat \ {0}
      /\ PageSize = Size(SbrkBucket)
  BY HeapAssumption, LevelFacts DEF Joins, Levels, PageSize
<1>1. /\ p \in Nat /\ bi \in Nat /\ bi \in Levels /\ In(p, <<p, bi>>)
      /\ PageSize <= p /\ p < h.brk /\ h.brk \in Nat
  <2>1. <<p, bi>> \in FreeIn(h) \cup U /\ Sound(h, U) /\ h.brk \in PageSize .. MemLimit
    BY DEF WellFormed, Sound, HeapType
  <2> QED BY <2>1, BlockCells, LevelFacts
<1>2. s \in Nat /\ s % Size(k) = 0 /\ Block(s, k + 1) = Block(p, k + 1)
  BY <1>1, SiblingFacts
<1>3. P \in Nat /\ P % PageSize = 0 /\ P <= p /\ p < P + PageSize
  BY <1>0, <1>1, BlockIsAligned
<1>4. ASSUME NEW j \in Nat, k < j PROVE Block(s, j) = Block(p, j)
  BY <1>1, <1>2, <1>4, BlocksAgree
<1>5. P <= s /\ s < P + PageSize
  <2>1. Block(s, SbrkBucket) = P
    BY <1>0, <1>4
  <2> QED BY <2>1, <1>0, <1>2, BlockIsAligned
<1>6. PageSize <= P
  <2>1. PageSize % PageSize = 0
    BY <1>0, SizeAligned
  <2>2. P < PageSize => P + PageSize <= PageSize
    BY <2>1, <1>0, <1>3, Apart
  <2> QED BY <2>2, <1>0, <1>1, <1>3
<1>7. P + PageSize <= h.brk
  <2>1. h.brk % PageSize = 0
    BY DEF WellFormed, Sound
  <2>2. P < h.brk
    BY <1>1, <1>3
  <2> QED BY <2>1, <2>2, <1>0, <1>1, <1>3, Apart
<1>8. PICK x \in B : In(s, x)
  <2>1. PageSize <= s /\ s < h.brk
    BY <1>0, <1>1, <1>2, <1>3, <1>5, <1>6, <1>7
  <2> QED BY <2>1, <1>2 DEF WellFormed, Sound, IsTiling
<1> DEFINE b == x[1]
           j == x[2]
<1>9. /\ b \in Nat /\ j \in Nat /\ j \in Levels /\ x = <<b, j>> /\ Size(j) \in Nat \ {0}
      /\ b <= s /\ s < b + Size(j) /\ Aligned(x)
  <2>1. Sound(h, U)
    BY DEF WellFormed
  <2>2. b \in Nat /\ j \in Nat /\ j \in Levels /\ x = <<b, j>> /\ Size(j) \in Nat \ {0}
    BY <2>1, BlockCells
  <2> QED BY <2>1, <2>2, <1>8 DEF Sound, In
<1> HIDE DEF b, j, s, P
<1>10. ASSUME In(p, x) PROVE b = p /\ j = bi
  <2>1. <<p, bi>> \in B /\ Disjoint(B)
    BY DEF WellFormed, Sound, IsTiling
  <2>2. x = <<p, bi>>
    BY <2>1, <1>1, <1>10 DEF Disjoint
  <2> QED BY <2>2, <1>9
<1>11. ~ (SbrkBucket < j)
  <2> SUFFICES ASSUME SbrkBucket < j PROVE FALSE
    OBVIOUS
  <2>1. b % PageSize = 0
    BY <1>0, <1>9 DEF Aligned, j, b
  <2>2. Size(j) % PageSize = 0
    BY <1>0, <1>9, SizeAligned
  <2> DEFINE e == b + Size(j)
  <2>3. e \in Nat /\ e % PageSize = 0
    BY <2>1, <2>2, <1>0, <1>9, SumAligned
  <2>4. P < b => P + PageSize <= b
    BY <2>1, <1>0, <1>3, <1>9, Apart
  <2>5. P < e => P + PageSize <= e
    BY <2>3, <1>0, <1>3, Apart
  <2>6. b <= p /\ p < b + Size(j)
    BY <2>3, <2>4, <2>5, <1>0, <1>1, <1>2, <1>3, <1>5, <1>9 DEF s
  <2>7. In(p, x)
    BY <2>6, <1>9 DEF In
  <2> QED BY <2>7, <1>0, <1>1, <1>10
<1>12. b % Size(j) = 0
  BY <1>0, <1>9, <1>11 DEF Aligned, b, j
<1>13. ~ (k < j)
  <2> SUFFICES ASSUME k < j PROVE FALSE
    OBVIOUS
  <2>1. Block(s, j) = b
    BY <1>2, <1>8, <1>9, <1>12, BlockOfCell DEF s
  <2>2. Block(p, j) = b
    BY <2>1, <1>4, <1>9 DEF s
  <2>3. In(p, x)
    BY <2>2, <1>1, <1>9, <1>12, BlockOfCell
  <2> QED BY <2>3, <1>1, <1>9, <1>10
<1>14. s % Size(j) = 0 /\ b = s
  <2>1. s % Size(j) = 0
    BY <1>2, <1>9, <1>13, AlignedBelow DEF s
  <2>2. Block(s, j) = s /\ Block(s, j) = b
    BY <2>1, <1>2, <1>8, <1>9, <1>12, BlockOfAligned, BlockOfCell DEF s
  <2> QED BY <2>1, <2>2
<1>15. h.ff[s] \in {FALSE, Junk} /\ h.bi[s + Hdr] \in {k, Junk}
  BY DEF Joins, s
<1>16. x \in FreeIn(h)
  <2>1. x \notin U
    BY <1>9, <1>14, <1>15, LevelFacts DEF WellFormed, b
  <2> QED BY <2>1, <1>8
<1>17. ~ (j < k)
  <2> SUFFICES ASSUME j < k PROVE FALSE
    OBVIOUS
  <2>1. j + 1 \in Nat /\ j + 1 <= k
    BY <1>9
  <2>2. s % Size(j + 1) = 0
    BY <2>1, <1>2, AlignedBelow DEF s
  <2>3. (s \div Size(j)) % 2 = 0
    BY <2>2, <1>2, <1>9, EvenBlock DEF s
  <2>4. Marked(h, x)
    BY <1>16 DEF WellFormed, Sound
  <2>5. h.bi[s + Hdr] = j
    <3>1. j < SbrkBucket
      BY <1>0, <1>9
    <3>2. h.bi[b + Hdr] = j \/ (b \div Size(j)) % 2 = 1
      BY <2>4, <3>1 DEF Marked, b, j
    <3> QED BY <3>2, <2>3, <1>14
  <2> QED BY <2>5, <1>9, <1>15, LevelFacts
<1>18. j = k
  BY <1>9, <1>13, <1>17
<1> QED BY <1>9, <1>14, <1>16, <1>18 DEF s
(* The bucket the joins end in. *)
LEMMA PushLevelFacts ==
  ASSUME NEW h, NEW bi \in Levels, NEW p, NEW luck
  PROVE  LET top == PushLevel(h, bi, p, luck)
         IN  /\ top \in Levels /\ bi <= top
             /\ bi <= SbrkBucket => top <= SbrkBucket
             /\ bi > SbrkBucket => top = bi
             /\ \A k \in bi .. top - 1 : Joins(h, p, k, luck)
<1>1. bi \in Nat /\ SbrkBucket \in Nat /\ SbrkBucket \in Levels
  BY LevelFacts
<1>2. CASE bi >= SbrkBucket
  BY <1>1, <1>2 DEF PushLevel
<1>3. CASE bi < SbrkBucket
  <2> DEFINE T == {k \in bi .. SbrkBucket : ~ Joins(h, p, k, luck)}
             IsTop(k) == ~ Joins(h, p, k, luck) /\ \A m \in bi .. k - 1 : Joins(h, p, m, luck)
  <2>1. ~ Joins(h, p, SbrkBucket, luck)
    BY <1>1 DEF Joins
  <2>2. SbrkBucket \in T /\ T \in SUBSET Nat /\ T # {}
    BY <2>1, <1>1, <1>3
  <2>3. PICK k \in T : \A n \in T : k <= n
    <3> HIDE DEF T
    <3> QED BY <2>2, LeastNumber
  <2>4. k \in bi .. SbrkBucket /\ IsTop(k)
    <3>1. ASSUME NEW m \in bi .. k - 1 PROVE Joins(h, p, m, luck)
      <4>1. m \in bi .. SbrkBucket /\ ~ (k <= m)
        BY <1>1, <2>3
      <4> QED BY <4>1, <2>3
    <3> QED BY <3>1, <2>3
  <2>5. PushLevel(h, bi, p, luck) = CHOOSE m \in bi .. SbrkBucket : IsTop(m)
    BY <1>1, <1>3 DEF PushLevel
  <2> HIDE DEF IsTop
  <2>6. PushLevel(h, bi, p, luck) \in bi .. SbrkBucket /\ IsTop(PushLevel(h, bi, p, luck))
    BY <2>4, <2>5
  <2>7. bi .. SbrkBucket \subseteq Levels
    BY <1>1, HeapAssumption DEF Levels
  <2> QED BY <2>6, <2>7, <1>1, <1>3 DEF IsTop
<1> QED BY <1>1, <1>2, <1>3

(* Releasing a block: its free siblings join, the others keep their cells. *)
LEMMA PushKeeps ==
  ASSUME NEW h, NEW U, WellFormed(h, U), NEW p, NEW bi, <<p, bi>> \in U, NEW luck
  PROVE  /\ WellFormed(Pushed(h, bi, p, luck), U \ {<<p, bi>>})
         /\ SameIn(Pushed(h, bi, p, luck), h, U \ {<<p, bi>>})
<1> DEFINE g == Pushed(h, bi, p, luck)
           u == <<p, bi>>
           top == PushLevel(h, bi, p, luck)
           pb == FreedBlock(bi, p, top)
           y == <<pb, top>>
           S == {<<Sibling(p, k), k>> : k \in bi .. top - 1}
           F == FreeIn(h)
<1>1. /\ p \in Nat /\ bi \in Levels /\ bi \in Nat /\ In(p, u) /\ Sound(h, U)
      /\ PageSize <= p /\ p < h.brk /\ h.brk \in Nat
  <2>1. u \in F \cup U /\ Sound(h, U) /\ h.brk \in PageSize .. MemLimit
    BY DEF WellFormed, Sound, HeapType
  <2> QED BY <2>1, BlockCells, LevelFacts
<1>2. /\ top \in Levels /\ top \in Nat /\ bi <= top /\ SbrkBucket \in Nat
      /\ bi <= SbrkBucket => top <= SbrkBucket
      /\ bi > SbrkBucket => top = bi
      /\ \A k \in bi .. top - 1 : Joins(h, p, k, luck)
  BY <1>1, PushLevelFacts, LevelFacts
<1> HIDE DEF top
<1>3. S \subseteq F
  <2>1. ASSUME NEW k \in bi .. top - 1 PROVE <<Sibling(p, k), k>> \in F
    <3>1. k \in Nat /\ bi <= k
      BY <1>1, <1>2
    <3> QED BY <3>1, <1>2, JoinsListed
  <2> QED BY <2>1
<1>4. u \notin F /\ S \cap U = {} /\ u \notin S
  BY <1>1, <1>3 DEF Sound
<1>5. /\ pb \in Nat /\ Aligned(y)
      /\ \A c \in Nat : (\E x \in {u} \cup S : In(c, x)) <=> In(c, y)
  <2>1. CASE bi > SbrkBucket
    <3>1. pb = p /\ S = {} /\ y = u
      BY <2>1, <1>1, <1>2 DEF FreedBlock
    <3>2. Aligned(u)
      BY DEF WellFormed, Sound
    <3> QED BY <3>1, <3>2, <1>1
  <2>2. CASE bi <= SbrkBucket
    <3>1. pb = Block(p, top)
      BY <2>2, <1>1, <1>2 DEF FreedBlock
    <3>2. Aligned(u)
      BY DEF WellFormed, Sound
    <3>3. p % Size(bi) = 0
      BY <3>2, <2>2 DEF Aligned
    <3>4. {u} \cup S = Joined(p, bi, top)
      BY DEF Joined
    <3>5. \A c \in Nat : (\E x \in {u} \cup S : In(c, x)) <=> In(c, y)
      BY <3>1, <3>3, <3>4, <1>1, <1>2, JoinedCells
    <3>6. pb \in Nat /\ pb % Size(top) = 0
      BY <3>1, <1>1, <1>2, BlockIsAligned
    <3>7. Aligned(y)
      BY <3>6, <2>2, <1>2 DEF Aligned
    <3> QED BY <3>5, <3>6, <3>7
  <2> QED BY <2>1, <2>2, <1>1, <1>2
<1> HIDE DEF pb, S
<1>6. In(p, y) /\ In(pb, y) /\ In(pb + Hdr, y) /\ pb + Hdr \in Nat /\ pb # pb + Hdr
  <2>1. Size(top) \in Nat /\ Size(top) >= 2
    BY <1>2, SizeDoubles
  <2>2. In(pb, y) /\ In(pb + Hdr, y)
    BY <2>1, <1>5 DEF In, Hdr
  <2> QED BY <2>2, <1>1, <1>5 DEF Hdr
<1>7. IsTiling(((F \cup U) \ ({u} \cup S)) \cup {y}, h.brk)
  <2>1. IsTiling(F \cup U, h.brk) /\ {u} \cup S \subseteq F \cup U
    BY <1>1, <1>3 DEF Sound
  <2>2. {y} \subseteq Nat \X Levels /\ Disjoint({y})
    BY <1>2, <1>5 DEF Disjoint
  <2>3. \A c \in Nat : (\E x \in {u} \cup S : In(c, x)) <=> \E z \in {y} : In(c, z)
    BY <1>5
  <2> QED BY <2>1, <2>2, <2>3, Exchange
<1>8. y \notin F
  <2>1. Disjoint(F \cup U)
    BY <1>1 DEF Sound, IsTiling
  <2> QED BY <2>1, <1>1, <1>4, <1>6 DEF Disjoint
<1>9. y \notin U \ {u}
  <2>1. Disjoint(F \cup U)
    BY <1>1 DEF Sound, IsTiling
  <2> QED BY <2>1, <1>1, <1>6 DEF Disjoint
<1>10. pb \in Cells /\ pb + Hdr \in Cells
  <2>1. PageSize <= pb /\ pb < h.brk /\ PageSize <= pb + Hdr /\ pb + Hdr < h.brk
    BY <1>5, <1>6, <1>7 DEF IsTiling
  <2>2. h.brk \in PageSize .. MemLimit /\ PageSize \in Nat /\ MemLimit \in Nat
    BY <1>1, LevelFacts DEF Sound, HeapType
  <2> QED BY <2>1, <2>2, <1>5, <1>6 DEF Cells
<1>11. /\ h \in HeapType
       /\ g.brk = h.brk
       /\ g.buckets = [k \in Levels |->
                    IF k \in bi .. (top - 1) THEN RemoveFirst(h.buckets[k], Sibling(p, k))
                    ELSE IF k = top THEN <<pb>> \o h.buckets[k]
                    ELSE h.buckets[k]]
       /\ g.ff = [h.ff EXCEPT ![pb] = FALSE]
       /\ g.bi = [h.bi EXCEPT ![pb] = Junk, ![pb + Hdr] = top]
       /\ g = [brk |-> g.brk, buckets |-> g.buckets, ff |-> g.ff, bi |-> g.bi]
  <2> DEFINE L == [k \in Levels |->
                    IF k \in bi .. (top - 1) THEN RemoveFirst(h.buckets[k], Sibling(p, k))
                    ELSE IF k = top THEN <<pb>> \o h.buckets[k]
                    ELSE h.buckets[k]]
             f == [h.ff EXCEPT ![pb] = FALSE]
             m == [h.bi EXCEPT ![pb] = Junk, ![pb + Hdr] = top]
  <2>1. h \in HeapType
    BY <1>1 DEF Sound
  <2>2. g = [h EXCEPT !.buckets = L, !.ff = f, !.bi = m]
    BY DEF Pushed, top, pb
  <2> HIDE DEF L, f, m, g
  <2>3. /\ g.brk = h.brk /\ g.buckets = L /\ g.ff = f /\ g.bi = m
        /\ g = [brk |-> g.brk, buckets |-> g.buckets, ff |-> g.ff, bi |-> g.bi]
    BY <2>1, <2>2 DEF HeapType
  <2> QED BY <2>1, <2>3 DEF L, f, m
<1> HIDE DEF g
<1>12. ASSUME NEW k \in Levels
       PROVE  /\ g.buckets[k] \in Seq(Cells) /\ IsInjective(g.buckets[k])
              /\ \A b \in Nat : b \in ToSet(g.buckets[k]) <=>
                   \/ b \in ToSet(h.buckets[k]) /\ <<b, k>> \notin S
                   \/ <<b, k>> = y
  <2>1. h.buckets[k] \in Seq(Cells) /\ IsInjective(h.buckets[k]) /\ k \in Nat
    BY <1>1, LevelFacts DEF Sound, HeapType
  <2>2. CASE k \in bi .. top - 1
    <3>1. g.buckets[k] = RemoveFirst(h.buckets[k], Sibling(p, k)) /\ k # top
      BY <2>2, <1>2, <1>11
    <3>2. Sibling(p, k) \in ToSet(h.buckets[k])
      <4>1. <<Sibling(p, k), k>> \in F
        BY <2>2, <1>3 DEF S
      <4> QED BY <4>1 DEF FreeIn
    <3>3. \A b : <<b, k>> \in S <=> b = Sibling(p, k)
      BY <2>2 DEF S
    <3> QED BY <2>1, <3>1, <3>2, <3>3, RemoveList
  <2>3. CASE k = top
    <3>1. g.buckets[k] = <<pb>> \o h.buckets[k]
      BY <2>3, <1>2, <1>11
    <3>2. pb \notin ToSet(h.buckets[k])
      BY <2>3, <1>2, <1>5, <1>8 DEF FreeIn
    <3>3. \A b : <<b, k>> \notin S
      BY <2>3, <1>2 DEF S
    <3> QED BY <2>1, <2>3, <3>1, <3>2, <3>3, <1>10, ConsList
  <2>4. CASE k \notin bi .. top - 1 /\ k # top
    <3>1. g.buckets[k] = h.buckets[k]
      BY <2>4, <1>11
    <3>2. \A b : <<b, k>> \notin S
      BY <2>4 DEF S
    <3> QED BY <2>1, <2>4, <3>1, <3>2
  <2> QED BY <2>2, <2>3, <2>4
<1>13. FreeIn(g) = (F \ S) \cup {y}
  <2>1. ASSUME NEW b \in Nat, NEW k \in Levels
        PROVE  <<b, k>> \in FreeIn(g) <=> <<b, k>> \in (F \ S) \cup {y}
    BY <1>12 DEF FreeIn
  <2>2. F \subseteq Nat \X Levels /\ FreeIn(g) \subseteq Nat \X Levels /\ y \in Nat \X Levels
    BY <1>2, <1>5 DEF FreeIn
  <2> QED BY <2>1, <2>2
<1>14. FreeIn(g) \cup (U \ {u}) = ((F \cup U) \ ({u} \cup S)) \cup {y}
  BY <1>4, <1>13
<1>15. IsTiling(FreeIn(g) \cup (U \ {u}), g.brk)
  BY <1>7, <1>11, <1>14
<1>16. FreeIn(g) \cap (U \ {u}) = {}
  BY <1>1, <1>9, <1>13 DEF Sound
<1>17. g \in HeapType
  <2>1. g.buckets \in [Levels -> Seq(Cells)]
    BY <1>11, <1>12
  <2>2. g.ff \in [Cells -> BOOLEAN \cup {Junk}] /\ g.bi \in [Cells -> Levels \cup {Junk}]
    BY <1>2, <1>11 DEF HeapType
  <2>3. g.brk \in PageSize .. MemLimit
    BY <1>11 DEF HeapType
  <2> QED BY <2>1, <2>2, <2>3, <1>11 DEF HeapType
<1>18. \A x \in FreeIn(g) \cup (U \ {u}) : Aligned(x)
  BY <1>1, <1>5, <1>13 DEF Sound
<1>19. ASSUME NEW x \in FreeIn(g) \cup (U \ {u}), x # y, NEW c \in Nat, In(c, x), c \in Cells
       PROVE  g.ff[c] = h.ff[c] /\ g.bi[c] = h.bi[c]
  <2>1. y \in FreeIn(g) \cup (U \ {u}) /\ Disjoint(FreeIn(g) \cup (U \ {u}))
    BY <1>13, <1>15 DEF IsTiling
  <2>2. c # pb /\ c # pb + Hdr
    BY <2>1, <1>5, <1>6, <1>19 DEF Disjoint
  <2> QED BY <2>2, <1>11, <1>19 DEF HeapType
<1>20. ASSUME NEW x \in (F \cup U) \ ({u} \cup S)
       PROVE  x # y /\ x \in FreeIn(g) \cup (U \ {u}) /\ x[1] \in Nat /\ In(x[1], x)
              /\ x[1] + Hdr \in Nat /\ In(x[1] + Hdr, x)
              /\ \A c \in Nat : In(c, x) => c \in Cells
  <2>1. x \in F \cup U
    OBVIOUS
  <2>2. x[1] \in Nat /\ In(x[1], x) /\ In(x[1] + Hdr, x) /\ \A c \in Nat : In(c, x) => c \in Cells
    BY <2>1, <1>1, BlockCells
  <2>3. x # y
    BY <1>8, <1>9, <1>20
  <2>4. x[1] + Hdr \in Nat
    BY <2>2 DEF Hdr
  <2> QED BY <2>2, <2>3, <2>4, <1>14
<1>21. ASSUME NEW x \in FreeIn(g) PROVE Marked(g, x)
  <2>1. CASE x = y
    <3>1. g.bi[pb + Hdr] = top
      BY <1>10, <1>11 DEF HeapType
    <3> QED BY <2>1, <3>1 DEF Marked
  <2>2. CASE x # y
    <3>1. x \in F \ S /\ x \in (F \cup U) \ ({u} \cup S)
      BY <2>2, <1>4, <1>13
    <3>2. g.bi[x[1] + Hdr] = h.bi[x[1] + Hdr]
      BY <3>1, <1>19, <1>20
    <3>3. Marked(h, x)
      BY <3>1, <1>1 DEF Sound
    <3> QED BY <3>2, <3>3 DEF Marked
  <2> QED BY <2>1, <2>2
<1>22. ASSUME NEW x \in U \ {u}
       PROVE  g.ff[x[1]] = TRUE /\ \A c \in Nat : In(c, x) => g.ff[c] = h.ff[c] /\ g.bi[c] = h.bi[c]
  <2>1. x \in (F \cup U) \ ({u} \cup S)
    BY <1>4
  <2>2. \A c \in Nat : In(c, x) => g.ff[c] = h.ff[c] /\ g.bi[c] = h.bi[c]
    BY <2>1, <1>19, <1>20
  <2>3. h.ff[x[1]] = TRUE
    BY DEF WellFormed
  <2> QED BY <2>1, <2>2, <2>3, <1>20
<1>23. g.brk % PageSize = 0
  BY <1>1, <1>11 DEF Sound
<1>24. Sound(g, U \ {u})
  BY <1>12, <1>15, <1>16, <1>17, <1>18, <1>21, <1>23 DEF Sound
<1>25. WellFormed(g, U \ {u})
  BY <1>22, <1>24 DEF WellFormed
<1>26. SameIn(g, h, U \ {u})
  BY <1>22 DEF SameIn
<1> QED BY <1>25, <1>26 DEF g
-----------------------------------------------------------------------------
(* The bucket a block is pulled from. *)
LEMMA PullLevelFacts ==
  ASSUME NEW h, NEW bi \in Levels
  PROVE  LET top == PullLevel(h, bi)
         IN  /\ top \in Levels /\ bi <= top
             /\ bi <= SbrkBucket => top <= SbrkBucket
             /\ bi >= SbrkBucket => top = bi
             /\ \A k \in bi .. top - 1 : h.buckets[k] = << >>
             /\ h.buckets[top] = << >> /\ bi <= SbrkBucket => top = SbrkBucket
<1> DEFINE top == PullLevel(h, bi)
           above == IF bi < SbrkBucket THEN bi .. SbrkBucket ELSE {bi}
           found == {k \in above : h.buckets[k] # << >>}
<1>1. bi \in Nat /\ SbrkBucket \in Nat /\ SbrkBucket \in Levels /\ bi .. SbrkBucket \subseteq Levels
  BY LevelFacts, HeapAssumption DEF Levels
<1>2. above \subseteq Levels /\ above \subseteq Nat /\ bi \in above /\ \A k \in above : bi <= k
  BY <1>1
<1>3. top = IF found # {} THEN CHOOSE k \in found : \A m \in found : k <= m
            ELSE CHOOSE k \in above : \A m \in above : m <= k
  BY DEF PullLevel
<1>4. CASE found # {}
  <2>1. found \in SUBSET Nat
    BY <1>2
  <2>2. \E k \in found : \A m \in found : k <= m
    <3> HIDE DEF found
    <3> QED BY <2>1, <1>4, LeastNumber
  <2>3. top \in found /\ \A m \in found : top <= m
    <3> HIDE DEF found, top
    <3> QED BY <2>2, <1>3, <1>4
  <2>4. ASSUME NEW k \in bi .. top - 1 PROVE h.buckets[k] = << >>
    <3>1. k \in above /\ ~ (top <= k)
      BY <2>3, <1>1, <1>2
    <3> QED BY <3>1, <2>3
  <2> QED BY <2>3, <2>4, <1>1, <1>2
<1>5. CASE found = {}
  <2> DEFINE last == IF bi < SbrkBucket THEN SbrkBucket ELSE bi
  <2>1. last \in above /\ \A m \in above : m <= last
    BY <1>1
  <2>2. top \in above /\ \A m \in above : m <= top
    <3> HIDE DEF above, last, top, found
    <3> QED BY <2>1, <1>3, <1>5
  <2>3. top = last
    BY <2>1, <2>2, <1>1, <1>2
  <2>4. ASSUME NEW k \in bi .. top - 1 PROVE h.buckets[k] = << >>
    <3>1. k \in above
      BY <2>3, <1>1
    <3> QED BY <3>1, <1>5
  <2> QED BY <2>2, <2>3, <2>4, <1>1, <1>2
<1> QED BY <1>4, <1>5

(* A block is pulled: the upper halves go to the lists, and the block is   *)
(* one more block in use, its header still to be written.                  *)
LEMMA PullKeeps ==
  ASSUME NEW h, NEW U, Sound(h, U), NEW bi \in Levels,
         NeedsSbrk(h, bi) => CanGrow(h, bi)
  PROVE  /\ Sound(Pulled(h, bi), U \cup {<<PulledBlock(h, bi), bi>>})
         /\ <<PulledBlock(h, bi), bi>> \notin U
         /\ SameIn(Pulled(h, bi), h, U)
<1> DEFINE g == Pulled(h, bi)
           top == PullLevel(h, bi)
           pb == PulledBlock(h, bi)
           u == <<pb, bi>>
           y == <<pb, top>>
           F == FreeIn(h)
           H == Halves(pb, bi, top)
           need == NeedsSbrk(h, bi)
           brk == NewBrk(h, bi)
<1>1. /\ top \in Levels /\ top \in Nat /\ bi \in Nat /\ bi <= top /\ SbrkBucket \in Nat
      /\ bi <= SbrkBucket => top <= SbrkBucket
      /\ bi >= SbrkBucket => top = bi
      /\ \A k \in bi .. top - 1 : h.buckets[k] = << >>
      /\ h.buckets[top] = << >> /\ bi <= SbrkBucket => top = SbrkBucket
  BY PullLevelFacts, LevelFacts
<1>2. /\ h \in HeapType /\ h.brk \in PageSize .. MemLimit /\ h.brk % PageSize = 0
      /\ PageSize \in Nat \ {0} /\ MemLimit \in Nat /\ h.brk \in Nat
  BY LevelFacts DEF Sound, HeapType

<1> DEFINE half == {pb + Size(k) : k \in bi .. (top - 1)}
<1>3. /\ g.brk = brk
      /\ g.buckets = [k \in Levels |->
                      IF k \in bi .. (top - 1) THEN <<pb + Size(k)>>
                      ELSE IF k = top /\ ~need THEN Tail(h.buckets[k])
                      ELSE h.buckets[k]]
      /\ g.ff = [c \in Cells |-> IF c \in half THEN FALSE ELSE h.ff[c]]
      /\ g.bi = [c \in Cells |-> IF c \in half THEN Junk ELSE h.bi[c]]
      /\ g = [brk |-> g.brk, buckets |-> g.buckets, ff |-> g.ff, bi |-> g.bi]
  BY DEF Pulled
<1>4. /\ need <=> h.buckets[top] = << >>
      /\ need => pb = h.brk /\ brk = h.brk + Size(top) /\ brk <= MemLimit
      /\ ~need => pb = Head(h.buckets[top]) /\ brk = h.brk
  BY DEF NeedsSbrk, PulledBlock, NewBrk, CanGrow
<1> HIDE DEF g, need, pb, brk, top
<1>5. Size(top) \in Nat \ {0} /\ Size(bi) \in Nat \ {0} /\ \A k \in bi .. top : Size(k) \in Nat \ {0}
  <2>1. \A k \in Nat : Size(k) \in Nat \ {0}
    BY SizeDoubles
  <2>2. \A k \in bi .. top : k \in Nat
    BY <1>1
  <2> QED BY <2>1, <2>2, <1>1
<1>6. /\ pb \in Nat /\ brk \in PageSize .. MemLimit /\ brk % PageSize = 0
      /\ IsTiling((F \cup U) \cup {y}, brk) /\ y \notin U /\ Aligned(y)
      /\ need => y \notin F
      /\ ~need => y \in F
  <2>1. CASE need
    <3>1. IsTiling((F \cup U) \cup {y}, brk) /\ y \notin F \cup U
      <4>1. IsTiling(F \cup U, h.brk) /\ PageSize <= h.brk
        BY <1>2 DEF Sound
      <4> QED BY <4>1, <2>1, <1>1, <1>2, <1>4, Grown
    <3>2. SbrkBucket <= top
      BY <1>1, <1>4, <2>1
    <3>3. Size(top) % PageSize = 0
      BY <3>2, <1>1, SizeAligned DEF PageSize
    <3>4. brk % PageSize = 0
      <4> DEFINE s == Size(top)
      <4>1. s \in Nat /\ s % PageSize = 0 /\ PageSize \in Nat \ {0} /\ h.brk \in Nat
            /\ h.brk % PageSize = 0
        BY <3>3, <1>2, <1>5
      <4> HIDE DEF s
      <4>2. (h.brk + s) % PageSize = 0
        BY <4>1, SumAligned
      <4> QED BY <4>2, <2>1, <1>4 DEF s
    <3>5. Aligned(y)
      <4>1. CASE top <= SbrkBucket
        <5>1. top = SbrkBucket
          BY <4>1, <3>2, <1>1
        <5> QED BY <5>1, <2>1, <1>2, <1>4 DEF Aligned, PageSize
      <4>2. CASE ~ (top <= SbrkBucket)
        BY <4>2, <2>1, <1>2, <1>4 DEF Aligned
      <4> QED BY <4>1, <4>2
    <3>6. brk \in PageSize .. MemLimit
      BY <2>1, <1>2, <1>4, <1>5
    <3> QED BY <2>1, <3>1, <3>4, <3>5, <3>6, <1>2, <1>4
  <2>2. CASE ~need
    <3>1. pb \in ToSet(h.buckets[top]) /\ pb \in Nat
      <4>1. h.buckets[top] \in Seq(Cells) /\ IsInjective(h.buckets[top])
        BY <1>1, <1>2 DEF Sound, HeapType
      <4>2. pb = Head(h.buckets[top]) /\ h.buckets[top] # << >>
        BY <2>2, <1>4
      <4>3. pb \in ToSet(h.buckets[top]) /\ pb \in Cells
        BY <4>1, <4>2, TailList
      <4> QED BY <4>3, <1>2 DEF Cells
    <3>2. y \in F
      BY <3>1, <1>1 DEF FreeIn
    <3>3. (F \cup U) \cup {y} = F \cup U
      BY <3>2
    <3> QED BY <2>2, <3>1, <3>2, <3>3, <1>2, <1>4 DEF Sound
  <2> QED BY <2>1, <2>2
<1>7. /\ H \subseteq Nat \X Levels /\ u \notin H /\ Disjoint({u} \cup H)
      /\ \A c \in Nat : In(c, y) <=> \E z \in {u} \cup H : In(c, z)
  BY <1>1, <1>6, Cut
<1>8. /\ H = {<<pb + Size(k), k>> : k \in bi .. top - 1}
      /\ \A k \in bi .. top - 1 : In(pb + Size(k), <<pb + Size(k), k>>) /\ pb + Size(k) \in Nat
                                  /\ <<pb + Size(k), k>> \in H /\ In(pb + Size(k), y)
      /\ In(pb, u) /\ In(pb, y)
      /\ \A c \in half : In(c, y) /\ c \in Nat
  <2>1. H = {<<pb + Size(k), k>> : k \in bi .. top - 1}
    BY DEF Halves
  <2>2. ASSUME NEW k \in bi .. top - 1
        PROVE  In(pb + Size(k), <<pb + Size(k), k>>) /\ pb + Size(k) \in Nat
    <3>1. k \in bi .. top
      BY <1>1
    <3>2. Size(k) \in Nat \ {0}
      BY <3>1, <1>5
    <3> QED BY <3>2, <1>6 DEF In
  <2>3. In(pb, u) /\ In(pb, y)
    BY <1>5, <1>6 DEF In
  <2>4. ASSUME NEW k \in bi .. top - 1
        PROVE  <<pb + Size(k), k>> \in H /\ In(pb + Size(k), y)
    BY <2>1, <2>2, <1>7
  <2> QED BY <2>1, <2>2, <2>3, <2>4
<1> HIDE DEF H
<1>9. IsTiling((((F \cup U) \cup {y}) \ {y}) \cup ({u} \cup H), brk)
  <2>1. {y} \subseteq (F \cup U) \cup {y} /\ {u} \cup H \subseteq Nat \X Levels
    BY <1>6, <1>7
  <2>2. \A c \in Nat : (\E x \in {y} : In(c, x)) <=> \E z \in {u} \cup H : In(c, z)
    BY <1>7
  <2> DEFINE A == (F \cup U) \cup {y}
             X == {y}
             Y == {u} \cup H
  <2>3. IsTiling(A, brk) /\ X \subseteq A /\ Y \subseteq Nat \X Levels /\ Disjoint(Y)
        /\ \A c \in Nat : (\E x \in X : In(c, x)) <=> (\E z \in Y : In(c, z))
    BY <2>1, <2>2, <1>6, <1>7
  <2> HIDE DEF A, X, Y
  <2>4. IsTiling((A \ X) \cup Y, brk)
    BY <2>3, Exchange
  <2> QED BY <2>4 DEF A, X, Y
<1>10. Disjoint((F \cup U) \cup {y})
  BY <1>6 DEF IsTiling
<1>11. ASSUME NEW z \in {u} \cup H
       PROVE  z \notin U /\ (z \in F => z = y) /\ z[1] \in Nat /\ In(z[1], z) /\ In(z[1], y)
  <2>1. z[1] \in Nat /\ In(z[1], z) /\ In(z[1], y)
    BY <1>6, <1>8
  <2> QED BY <2>1, <1>6, <1>10 DEF Disjoint
<1>12. ASSUME NEW k \in Levels
       PROVE  /\ g.buckets[k] \in Seq(Cells) /\ IsInjective(g.buckets[k])
              /\ \A b \in Nat : b \in ToSet(g.buckets[k]) <=>
                   \/ b \in ToSet(h.buckets[k]) /\ <<b, k>> # y
                   \/ <<b, k>> \in H
  <2>1. h.buckets[k] \in Seq(Cells) /\ IsInjective(h.buckets[k]) /\ k \in Nat
    BY <1>2, LevelFacts DEF Sound, HeapType
  <2>2. CASE k \in bi .. top - 1
    <3>1. g.buckets[k] = <<pb + Size(k)>> /\ h.buckets[k] = << >>
      BY <2>2, <1>1, <1>3
    <3>2. \A b : <<b, k>> \in H <=> b = pb + Size(k)
      BY <2>2, <1>8
    <3>3. pb + Size(k) \in Cells
      <4>1. PageSize <= pb + Size(k) /\ pb + Size(k) < brk
        BY <2>2, <1>8, <1>9 DEF IsTiling
      <4> QED BY <4>1, <2>2, <1>2, <1>6, <1>8 DEF Cells
    <3>4. \A b : b \notin ToSet(h.buckets[k])
      BY <3>1 DEF ToSet
    <3>5. \A b : b \in ToSet(g.buckets[k]) <=> b = pb + Size(k)
      BY <3>1 DEF ToSet
    <3>6. g.buckets[k] \in Seq(Cells) /\ IsInjective(g.buckets[k])
      BY <3>1, <3>3 DEF IsInjective
    <3> QED BY <3>2, <3>4, <3>5, <3>6
  <2>3. CASE k \notin bi .. top - 1
    <3>1. \A b : <<b, k>> \notin H
      BY <2>3, <1>8
    <3>2. CASE k = top /\ ~need
      <4>1. g.buckets[k] = Tail(h.buckets[k]) /\ h.buckets[k] # << >> /\ pb = Head(h.buckets[k])
        BY <2>3, <3>2, <1>3, <1>4
      <4> QED BY <2>1, <3>1, <3>2, <4>1, TailList
    <3>3. CASE k = top /\ need
      <4>1. g.buckets[k] = h.buckets[k] /\ h.buckets[k] = << >>
        BY <2>3, <3>3, <1>3, <1>4
      <4> QED BY <2>1, <3>1, <4>1 DEF ToSet
    <3>4. CASE k # top
      <4>1. g.buckets[k] = h.buckets[k]
        BY <2>3, <3>4, <1>3
      <4> QED BY <2>1, <3>1, <3>4, <4>1
    <3> QED BY <3>2, <3>3, <3>4
  <2> QED BY <2>2, <2>3
<1>13. FreeIn(g) = (F \ {y}) \cup H
  <2>1. ASSUME NEW b \in Nat, NEW k \in Levels
        PROVE  <<b, k>> \in FreeIn(g) <=> <<b, k>> \in (F \ {y}) \cup H
    BY <1>12 DEF FreeIn
  <2>2. F \subseteq Nat \X Levels /\ FreeIn(g) \subseteq Nat \X Levels /\ H \subseteq Nat \X Levels
    BY <1>7 DEF FreeIn
  <2> QED BY <2>1, <2>2
<1>14. FreeIn(g) \cup (U \cup {u}) = (((F \cup U) \cup {y}) \ {y}) \cup ({u} \cup H)
  BY <1>6, <1>13
<1>15. IsTiling(FreeIn(g) \cup (U \cup {u}), g.brk)
  BY <1>3, <1>9, <1>14
<1>16. FreeIn(g) \cap (U \cup {u}) = {}
  BY <1>7, <1>11, <1>13 DEF Sound
<1>17. g \in HeapType
  <2>1. g.buckets \in [Levels -> Seq(Cells)]
    BY <1>3, <1>12
  <2>2. g.ff \in [Cells -> BOOLEAN \cup {Junk}] /\ g.bi \in [Cells -> Levels \cup {Junk}]
    BY <1>2, <1>3 DEF HeapType
  <2> QED BY <2>1, <2>2, <1>3, <1>6 DEF HeapType
<1>18. \A k \in bi .. top - 1 :
         /\ k \in Nat /\ k < SbrkBucket
         /\ (pb + Size(k)) % Size(k) = 0
         /\ ((pb + Size(k)) \div Size(k)) % 2 = 1
  <2> SUFFICES ASSUME NEW k \in bi .. top - 1
               PROVE  /\ k \in Nat /\ k < SbrkBucket
                      /\ (pb + Size(k)) % Size(k) = 0
                      /\ ((pb + Size(k)) \div Size(k)) % 2 = 1
    OBVIOUS
  <2>1. k \in Nat /\ k + 1 \in Nat /\ k + 1 <= top /\ top <= SbrkBucket /\ k < SbrkBucket
    BY <1>1
  <2>2. pb % Size(top) = 0
    BY <2>1, <1>6 DEF Aligned
  <2>3. pb % Size(k + 1) = 0
    BY <2>1, <2>2, <1>1, <1>6, AlignedBelow
  <2> QED BY <2>1, <2>3, <1>6, OddBlock
<1>19. Aligned(u)
  <2>1. CASE bi <= SbrkBucket
    <3>1. pb % Size(top) = 0
      BY <2>1, <1>1, <1>6 DEF Aligned
    <3>2. pb % Size(bi) = 0
      BY <3>1, <1>1, <1>6, AlignedBelow
    <3> QED BY <2>1, <3>2 DEF Aligned
  <2>2. CASE ~ (bi <= SbrkBucket)
    BY <2>2, <1>1, <1>6 DEF Aligned
  <2> QED BY <2>1, <2>2
<1>20. \A x \in FreeIn(g) \cup (U \cup {u}) : Aligned(x)
  <2>1. \A x \in H : Aligned(x)
    <3>1. ASSUME NEW k \in bi .. top - 1 PROVE Aligned(<<pb + Size(k), k>>)
      <4>1. k <= SbrkBucket /\ (pb + Size(k)) % Size(k) = 0
        BY <1>1, <1>18
      <4> QED BY <4>1 DEF Aligned
    <3> QED BY <3>1, <1>8
  <2> QED BY <2>1, <1>13, <1>19 DEF Sound
<1>21. ASSUME NEW x \in (F \cup U) \ {y}
       PROVE  /\ \A c \in Nat : In(c, x) => g.ff[c] = h.ff[c] /\ g.bi[c] = h.bi[c]
              /\ In(x[1] + Hdr, x) /\ x[1] + Hdr \in Nat
  <2>1. x[1] \in Nat /\ In(x[1] + Hdr, x) /\ \A c \in Nat : In(c, x) => c \in Cells
    BY BlockCells
  <2>2. ASSUME NEW c \in Nat, In(c, x) PROVE c \notin half
    BY <2>2, <1>8, <1>10, <1>21 DEF Disjoint
  <2>3. ASSUME NEW c \in Nat, In(c, x) PROVE g.ff[c] = h.ff[c] /\ g.bi[c] = h.bi[c]
    <3>1. c \in Cells /\ c \notin half
      BY <2>1, <2>2, <2>3
    <3> HIDE DEF half
    <3> QED BY <3>1, <1>3
  <2>4. x[1] + Hdr \in Nat
    BY <2>1 DEF Hdr
  <2> QED BY <2>1, <2>3, <2>4
<1>22. ASSUME NEW x \in FreeIn(g) PROVE Marked(g, x)
  <2>1. CASE x \in H
    BY <2>1, <1>8, <1>18 DEF Marked
  <2>2. CASE x \in F \ {y}
    <3>1. g.bi[x[1] + Hdr] = h.bi[x[1] + Hdr]
      BY <2>2, <1>21
    <3>2. Marked(h, x)
      BY <2>2 DEF Sound
    <3> QED BY <3>1, <3>2 DEF Marked
  <2> QED BY <2>1, <2>2, <1>13
<1>23. Sound(g, U \cup {u})
  BY <1>3, <1>6, <1>12, <1>15, <1>16, <1>17, <1>20, <1>22 DEF Sound
<1>24. SameIn(g, h, U) /\ u \notin U
  BY <1>6, <1>11, <1>21 DEF SameIn
<1> QED BY <1>23, <1>24 DEF g, pb
(* The header and the payload of a block in use, once they are written.    *)
Written(h, bi, pb, n) ==
  /\ h.ff[pb] = TRUE /\ h.bi[pb] = bi
  /\ \A c \in (pb + Hdr) .. (pb + n) : h.ff[c] = Junk /\ h.bi[c] = Junk

MarkedUsed(h, U) == \A x \in U : h.ff[x[1]] = TRUE

(* Occupied keeps the heap sound and the other blocks as they are. *)
LEMMA OccupyKeeps ==
  ASSUME NEW h, NEW U, Sound(h, U), NEW pb, NEW bi, <<pb, bi>> \in U,
         NEW n \in Nat, n + Hdr <= Size(bi),
         MarkedUsed(h, U \ {<<pb, bi>>})
  PROVE  /\ WellFormed(Occupied(h, bi, pb, n), U)
         /\ SameIn(Occupied(h, bi, pb, n), h, U \ {<<pb, bi>>})
         /\ Written(Occupied(h, bi, pb, n), bi, pb, n)
<1> DEFINE g == Occupied(h, bi, pb, n)
           u == <<pb, bi>>
           ff == [c \in Cells |-> IF c = pb THEN TRUE
                                  ELSE IF c \in (pb + Hdr) .. (pb + n) THEN Junk
                                  ELSE h.ff[c]]
           bk == [c \in Cells |-> IF c = pb THEN bi
                                  ELSE IF c \in (pb + Hdr) .. (pb + n) THEN Junk
                                  ELSE h.bi[c]]
<1>1. /\ h \in HeapType /\ pb \in Nat /\ bi \in Levels /\ In(pb, u)
      /\ \A c \in Nat : In(c, u) => c \in Cells
  <2>1. u \in FreeIn(h) \cup U
    OBVIOUS
  <2> QED BY <2>1, BlockCells DEF Sound
<1>2. \A c \in (pb + Hdr) .. (pb + n) : In(c, u) /\ c \in Nat /\ c \in Cells /\ c # pb
  <2>1. \A c \in (pb + Hdr) .. (pb + n) : In(c, u) /\ c \in Nat /\ c # pb
    <3>1. Size(bi) \in Nat
      BY <1>1, LevelFacts, SizeDoubles
    <3> QED BY <3>1, <1>1 DEF In, Hdr
  <2> QED BY <2>1, <1>1
<1>3. /\ g.brk = h.brk /\ g.buckets = h.buckets /\ g.ff = ff /\ g.bi = bk
      /\ g = [brk |-> g.brk, buckets |-> g.buckets, ff |-> g.ff, bi |-> g.bi]
  <2>1. g = [h EXCEPT !.ff = ff, !.bi = bk]
    BY DEF Occupied
  <2> HIDE DEF ff, bk, g
  <2> QED BY <2>1, <1>1 DEF HeapType
<1> HIDE DEF g
<1>4. g \in HeapType
  <2>1. h.ff \in [Cells -> BOOLEAN \cup {Junk}] /\ h.bi \in [Cells -> Levels \cup {Junk}]
    BY <1>1 DEF HeapType
  <2>2. ff \in [Cells -> BOOLEAN \cup {Junk}] /\ bk \in [Cells -> Levels \cup {Junk}]
    BY <2>1, <1>1
  <2> HIDE DEF ff, bk
  <2> QED BY <2>2, <1>1, <1>3 DEF HeapType
<1>5. FreeIn(g) = FreeIn(h)
  BY <1>3 DEF FreeIn
<1>6. ASSUME NEW x \in (FreeIn(h) \cup U) \ {u}
      PROVE  /\ x[1] \in Nat /\ In(x[1], x) /\ In(x[1] + Hdr, x) /\ x[1] + Hdr \in Nat
             /\ \A c \in Nat : In(c, x) => g.ff[c] = h.ff[c] /\ g.bi[c] = h.bi[c]
  <2>1. x[1] \in Nat /\ In(x[1], x) /\ In(x[1] + Hdr, x) /\ \A c \in Nat : In(c, x) => c \in Cells
    BY BlockCells
  <2>2. ASSUME NEW c \in Nat, In(c, x)
        PROVE  c # pb /\ c \notin (pb + Hdr) .. (pb + n)
    <3>1. Disjoint(FreeIn(h) \cup U)
      BY DEF Sound, IsTiling
    <3> QED BY <2>2, <3>1, <1>1, <1>2 DEF Disjoint
  <2>3. x[1] + Hdr \in Nat
    BY <2>1 DEF Hdr
  <2>4. ASSUME NEW c \in Nat, In(c, x) PROVE g.ff[c] = h.ff[c] /\ g.bi[c] = h.bi[c]
    <3>1. c \in Cells /\ c # pb /\ c \notin (pb + Hdr) .. (pb + n)
      BY <2>1, <2>2, <2>4
    <3> QED BY <3>1, <1>3
  <2> QED BY <2>1, <2>3, <2>4
<1>7. u \notin FreeIn(h)
  BY DEF Sound
<1>8. ASSUME NEW x \in FreeIn(g) PROVE Marked(g, x)
  <2>1. g.bi[x[1] + Hdr] = h.bi[x[1] + Hdr]
    BY <1>5, <1>6, <1>7
  <2> QED BY <2>1, <1>5 DEF Marked, Sound
<1>9. Sound(g, U)
  BY <1>3, <1>4, <1>5, <1>8 DEF Sound
<1>10. Written(g, bi, pb, n)
  BY <1>1, <1>2, <1>3 DEF Written
<1>11. ASSUME NEW x \in U PROVE g.ff[x[1]] = TRUE
  <2>1. CASE x = u
    BY <2>1, <1>10 DEF Written
  <2>2. CASE x # u
    BY <2>2, <1>6 DEF MarkedUsed
  <2> QED BY <2>1, <2>2
<1>12. WellFormed(g, U)
  BY <1>9, <1>11 DEF WellFormed
<1>13. SameIn(g, h, U \ {u})
  BY <1>6 DEF SameIn
<1> QED BY <1>10, <1>12, <1>13 DEF g

-----------------------------------------------------------------------------
(* A heap h whose program holds the pointers of the map m. *)
UsedIn(h, m) == {<<p - Hdr, h.bi[p - Hdr]>> : p \in DOMAIN m}

IntactAt(h, m, p) ==
  /\ m[p] + Hdr <= Size(h.bi[p - Hdr])
  /\ h.ff[p - Hdr] = TRUE
  /\ \A c \in p .. (p + m[p] - 1) : h.ff[c] = Junk /\ h.bi[c] = Junk

Intact(h, m) == \A p \in DOMAIN m : IntactAt(h, m, p)

Held(h, m) ==
  /\ \A p \in DOMAIN m : p \in Cells /\ m[p] \in Nat
  /\ WellFormed(h, UsedIn(h, m))
  /\ Intact(h, m)

(* The cells of a payload are those of its block. *)
LEMMA HeldCells ==
  ASSUME NEW h, NEW m, Held(h, m), NEW p \in DOMAIN m
  PROVE  /\ <<p - Hdr, h.bi[p - Hdr]>> \in UsedIn(h, m)
         /\ p \in Nat /\ p - Hdr \in Nat /\ h.bi[p - Hdr] \in Levels /\ m[p] \in Nat
         /\ In(p - Hdr, <<p - Hdr, h.bi[p - Hdr]>>)
         /\ \A c \in p .. (p + m[p] - 1) : c \in Nat /\ In(c, <<p - Hdr, h.bi[p - Hdr]>>)
<1> DEFINE u == <<p - Hdr, h.bi[p - Hdr]>>
<1>1. u \in UsedIn(h, m) /\ Sound(h, UsedIn(h, m)) /\ p \in Nat /\ m[p] \in Nat
  BY LevelFacts DEF Held, UsedIn, WellFormed, Cells
<1>2. p - Hdr \in Nat /\ h.bi[p - Hdr] \in Levels /\ In(p - Hdr, u)
  BY <1>1, BlockCells
<1>3. m[p] + Hdr <= Size(h.bi[p - Hdr])
  BY DEF Held, Intact, IntactAt
<1>4. Size(h.bi[p - Hdr]) \in Nat
  BY <1>2, LevelFacts, SizeDoubles
<1>5. ASSUME NEW c \in p .. (p + m[p] - 1) PROVE c \in Nat /\ In(c, u)
  <2>1. u[1] = p - Hdr /\ u[2] = h.bi[p - Hdr]
    OBVIOUS
  <2> HIDE DEF u
  <2> QED BY <2>1, <1>1, <1>2, <1>3, <1>4 DEF In, Hdr
<1> QED BY <1>1, <1>2, <1>5

(* Two payloads share no cell. *)
LEMMA HeldApart ==
  ASSUME NEW h, NEW m, Held(h, m), NEW p \in DOMAIN m, NEW q \in DOMAIN m, p # q
  PROVE  (p .. (p + m[p] - 1)) \cap (q .. (q + m[q] - 1)) = {}
<1> SUFFICES ASSUME NEW c \in p .. (p + m[p] - 1), c \in q .. (q + m[q] - 1) PROVE FALSE
  OBVIOUS
<1>1. /\ <<p - Hdr, h.bi[p - Hdr]>> \in UsedIn(h, m) /\ p \in Nat /\ c \in Nat
      /\ In(c, <<p - Hdr, h.bi[p - Hdr]>>)
  BY HeldCells
<1>2. /\ <<q - Hdr, h.bi[q - Hdr]>> \in UsedIn(h, m) /\ q \in Nat
      /\ In(c, <<q - Hdr, h.bi[q - Hdr]>>)
  BY HeldCells
<1>3. Disjoint(FreeIn(h) \cup UsedIn(h, m))
  BY DEF Held, WellFormed, Sound, IsTiling
<1>4. <<p - Hdr, h.bi[p - Hdr]>> = <<q - Hdr, h.bi[q - Hdr]>>
  BY <1>1, <1>2, <1>3 DEF Disjoint
<1> QED BY <1>1, <1>2, <1>4 DEF Hdr

(* A payload is intact as long as its block is as it was. *)
LEMMA HeldOn ==
  ASSUME NEW h, NEW m, Held(h, m), NEW g, NEW p \in DOMAIN m,
         SameIn(g, h, {<<p - Hdr, h.bi[p - Hdr]>>})
  PROVE  g.bi[p - Hdr] = h.bi[p - Hdr] /\ IntactAt(g, m, p)
<1> DEFINE u == <<p - Hdr, h.bi[p - Hdr]>>
<1>1. /\ p - Hdr \in Nat /\ In(p - Hdr, u)
      /\ \A c \in p .. (p + m[p] - 1) : c \in Nat /\ In(c, u)
  BY HeldCells
<1>2. \A c \in Nat : In(c, u) => g.ff[c] = h.ff[c] /\ g.bi[c] = h.bi[c]
  BY DEF SameIn
<1>3. /\ m[p] + Hdr <= Size(h.bi[p - Hdr]) /\ h.ff[p - Hdr] = TRUE
      /\ \A c \in p .. (p + m[p] - 1) : h.ff[c] = Junk /\ h.bi[c] = Junk
  BY DEF Held, Intact, IntactAt
<1> HIDE DEF u
<1> QED BY <1>1, <1>2, <1>3 DEF IntactAt

(* malloc's part: a pointer the program did not hold. *)
LEMMA TakeHeld ==
  ASSUME NEW h, NEW m, Held(h, m), NEW n \in Nat, NEW bi \in Levels,
         n + Hdr <= Size(bi), NeedsSbrk(h, bi) => CanGrow(h, bi)
  PROVE  LET pb == PulledBlock(h, bi)
             g  == Occupied(Pulled(h, bi), bi, pb, n)
         IN  /\ Held(g, Bind(m, pb + Hdr, n))
             /\ pb + Hdr \in Cells /\ pb + Hdr \notin DOMAIN m
             /\ \A p \in DOMAIN m : g.bi[p - Hdr] = h.bi[p - Hdr]
<1> DEFINE pb == PulledBlock(h, bi)
           f  == Pulled(h, bi)
           g  == Occupied(f, bi, pb, n)
           U  == UsedIn(h, m)
           u  == <<pb, bi>>
           q  == pb + Hdr
           mm == Bind(m, q, n)
<1>1. WellFormed(h, U) /\ Sound(h, U) /\ MarkedUsed(h, U)
  BY DEF Held, WellFormed, MarkedUsed
<1>2. Sound(f, U \cup {u}) /\ u \notin U /\ SameIn(f, h, U)
  BY <1>1, PullKeeps
<1> HIDE DEF f, pb
<1>3. MarkedUsed(f, (U \cup {u}) \ {u})
  <2> SUFFICES ASSUME NEW x \in U PROVE f.ff[x[1]] = TRUE
    BY DEF MarkedUsed
  <2>1. x[1] \in Nat /\ In(x[1], x)
    BY <1>1, BlockCells
  <2> QED BY <2>1, <1>1, <1>2 DEF SameIn, MarkedUsed
<1>4. /\ WellFormed(g, U \cup {u})
      /\ SameIn(g, f, U)
      /\ Written(g, bi, pb, n)
  <2>1. u \in U \cup {u} /\ (U \cup {u}) \ {u} = U
    BY <1>2
  <2> DEFINE W == U \cup {u}
  <2>2. Sound(f, W) /\ u \in W /\ W \ {u} = U /\ MarkedUsed(f, W \ {u})
    BY <2>1, <1>2, <1>3
  <2> HIDE DEF U, W
  <2>3. /\ WellFormed(g, W) /\ SameIn(g, f, W \ {u})
        /\ Written(g, bi, pb, n)
    BY <2>2, OccupyKeeps
  <2> QED BY <2>2, <2>3 DEF W
<1> HIDE DEF g
<1>5. SameIn(g, h, U)
  BY <1>2, <1>4 DEF SameIn
<1>6. \A p \in DOMAIN m : g.bi[p - Hdr] = h.bi[p - Hdr] /\ IntactAt(g, m, p)
  <2> SUFFICES ASSUME NEW p \in DOMAIN m
               PROVE  g.bi[p - Hdr] = h.bi[p - Hdr] /\ IntactAt(g, m, p)
    OBVIOUS
  <2>1. SameIn(g, h, {<<p - Hdr, h.bi[p - Hdr]>>})
    BY <1>5 DEF SameIn, UsedIn
  <2> QED BY <2>1, HeldOn
<1>7. pb \in Nat /\ q \in Nat /\ q \in Cells /\ q - Hdr = pb
  <2>1. u \in FreeIn(f) \cup (U \cup {u})
    OBVIOUS
  <2>2. pb \in Nat /\ In(pb + Hdr, u) /\ \A c \in Nat : In(c, u) => c \in Cells
    BY <2>1, <1>2, BlockCells
  <2>3. pb + Hdr \in Nat /\ (pb + Hdr) - Hdr = pb
    BY <2>2 DEF Hdr
  <2> QED BY <2>2, <2>3
<1>8. q \notin DOMAIN m
  <2> SUFFICES ASSUME q \in DOMAIN m PROVE FALSE
    OBVIOUS
  <2>1. <<pb, h.bi[pb]>> \in U /\ In(pb, <<pb, h.bi[pb]>>)
    BY <1>7, HeldCells
  <2>2. In(pb, u)
    <3>1. u \in FreeIn(f) \cup (U \cup {u})
      OBVIOUS
    <3> QED BY <3>1, <1>2, BlockCells
  <2>3. Disjoint(FreeIn(f) \cup (U \cup {u}))
    BY <1>2 DEF Sound, IsTiling
  <2>4. <<pb, h.bi[pb]>> = u
    BY <2>1, <2>2, <2>3, <1>7 DEF Disjoint
  <2> QED BY <2>1, <2>4, <1>2
<1>9. DOMAIN mm = DOMAIN m \cup {q} /\ mm[q] = n /\ \A p \in DOMAIN m : mm[p] = m[p]
  BY <1>8 DEF Bind
<1> HIDE DEF mm, q, u, U
<1>10. UsedIn(g, mm) = U \cup {u}
  <2>1. \A p \in DOMAIN m : <<p - Hdr, g.bi[p - Hdr]>> = <<p - Hdr, h.bi[p - Hdr]>>
    BY <1>6
  <2>2. <<q - Hdr, g.bi[q - Hdr]>> = u
    BY <1>4, <1>7 DEF u, Written
  <2> QED BY <2>1, <2>2, <1>9 DEF UsedIn, U
<1>11. Intact(g, mm)
  <2> SUFFICES ASSUME NEW p \in DOMAIN mm
               PROVE  IntactAt(g, mm, p)
    BY DEF Intact
  <2>1. CASE p = q
    <3>1. mm[p] = n /\ p - Hdr = pb /\ q + n - 1 = pb + n
      BY <2>1, <1>7, <1>9 DEF q, Hdr
    <3>2. Size(bi) = Size(g.bi[pb])
      BY <1>4 DEF Written
    <3> QED BY <2>1, <3>1, <3>2, <1>4 DEF q, Written, IntactAt
  <2>2. CASE p \in DOMAIN m
    BY <2>2, <1>6, <1>9 DEF IntactAt
  <2> QED BY <2>1, <2>2, <1>9
<1>12. \A p \in DOMAIN mm : p \in Cells /\ mm[p] \in Nat
  BY <1>7, <1>9 DEF Held
<1>13. Held(g, mm)
  BY <1>4, <1>10, <1>11, <1>12 DEF Held
<1> QED BY <1>6, <1>7, <1>8, <1>13 DEF g, mm, q, pb, f

(* free's part. *)
LEMMA ReleaseHeld ==
  ASSUME NEW h, NEW m, Held(h, m), NEW p \in DOMAIN m, NEW luck
  PROVE  Held(Pushed(h, h.bi[p - Hdr], p - Hdr, luck), Drop(m, p))
<1> DEFINE b  == p - Hdr
           bi == h.bi[b]
           g  == Pushed(h, bi, b, luck)
           U  == UsedIn(h, m)
           D  == DOMAIN m \ {p}
           mm == Drop(m, p)
<1>1. WellFormed(h, U) /\ <<b, bi>> \in U
  BY HeldCells DEF Held
<1>2. WellFormed(g, U \ {<<b, bi>>}) /\ SameIn(g, h, U \ {<<b, bi>>})
  <2> HIDE DEF bi, b, U
  <2> QED BY <1>1, PushKeeps
<1> HIDE DEF g
<1>3. U \ {<<b, bi>>} = {<<q - Hdr, h.bi[q - Hdr]>> : q \in D}
  <2>1. \A q \in DOMAIN m : q \in Nat
    BY LevelFacts DEF Held, Cells
  <2>2. \A q \in D : q - Hdr # b
    BY <2>1 DEF Hdr
  <2> QED BY <2>2 DEF UsedIn
<1>4. \A q \in D : g.bi[q - Hdr] = h.bi[q - Hdr] /\ IntactAt(g, m, q)
  <2> SUFFICES ASSUME NEW q \in D
               PROVE  g.bi[q - Hdr] = h.bi[q - Hdr] /\ IntactAt(g, m, q)
    OBVIOUS
  <2>1. SameIn(g, h, {<<q - Hdr, h.bi[q - Hdr]>>})
    <3>1. <<q - Hdr, h.bi[q - Hdr]>> \in U \ {<<b, bi>>}
      BY <1>3
    <3> HIDE DEF U, b, bi
    <3> QED BY <3>1, <1>2 DEF SameIn
  <2> QED BY <2>1, HeldOn
<1>5. DOMAIN mm = D /\ \A q \in D : mm[q] = m[q]
  BY DEF Drop
<1> HIDE DEF mm, D
<1>6. UsedIn(g, mm) = U \ {<<b, bi>>}
  BY <1>3, <1>4, <1>5 DEF UsedIn
<1>7. Intact(g, mm)
  BY <1>4, <1>5 DEF Intact, IntactAt
<1>8. \A q \in DOMAIN mm : q \in Cells /\ mm[q] \in Nat
  BY <1>5 DEF Held, D
<1>9. Held(g, mm)
  BY <1>2, <1>6, <1>7, <1>8 DEF Held
<1> QED BY <1>9 DEF g, mm

(* realloc in place. *)
LEMMA ResizeHeld ==
  ASSUME NEW h, NEW m, Held(h, m), NEW p \in DOMAIN m, NEW n \in Nat,
         n + Hdr <= Size(h.bi[p - Hdr])
  PROVE  Held(Occupied(h, h.bi[p - Hdr], p - Hdr, n), [m EXCEPT ![p] = n])
<1> DEFINE b  == p - Hdr
           bi == h.bi[b]
           g  == Occupied(h, bi, b, n)
           U  == UsedIn(h, m)
           u  == <<b, bi>>
           D  == DOMAIN m \ {p}
           mm == [m EXCEPT ![p] = n]
<1>1. WellFormed(h, U) /\ Sound(h, U) /\ u \in U /\ MarkedUsed(h, U)
  BY HeldCells DEF Held, WellFormed, MarkedUsed
<1>2. /\ WellFormed(g, U) /\ SameIn(g, h, U \ {u})
      /\ Written(g, bi, b, n)
  <2>1. MarkedUsed(h, U \ {u})
    BY <1>1 DEF MarkedUsed
  <2>2. n + Hdr <= Size(bi)
    OBVIOUS
  <2>3. <<b, bi>> \in U /\ Sound(h, U) /\ MarkedUsed(h, U \ {<<b, bi>>})
    BY <1>1, <2>1
  <2> HIDE DEF bi, b, U, u
  <2>4. /\ WellFormed(g, U) /\ SameIn(g, h, U \ {<<b, bi>>})
        /\ Written(g, bi, b, n)
    BY <2>2, <2>3, OccupyKeeps
  <2> QED BY <2>4 DEF u
<1> HIDE DEF g
<1>3. p \in Nat /\ b \in Nat /\ b + Hdr = p /\ b + n = p + n - 1 /\ \A q \in DOMAIN m : q \in Nat
  <2>1. \A q \in DOMAIN m : q \in Nat /\ q - Hdr \in Nat
    BY HeldCells
  <2>2. p \in Nat /\ b \in Nat
    BY <2>1
  <2> QED BY <2>1, <2>2 DEF Hdr
<1>4. U \ {u} = {<<q - Hdr, h.bi[q - Hdr]>> : q \in D}
  <2>1. \A q \in D : q - Hdr # b
    BY <1>3 DEF Hdr
  <2> QED BY <2>1 DEF UsedIn
<1>5. \A q \in D : g.bi[q - Hdr] = h.bi[q - Hdr] /\ IntactAt(g, m, q)
  <2> SUFFICES ASSUME NEW q \in D
               PROVE  g.bi[q - Hdr] = h.bi[q - Hdr] /\ IntactAt(g, m, q)
    OBVIOUS
  <2>1. SameIn(g, h, {<<q - Hdr, h.bi[q - Hdr]>>})
    <3>1. <<q - Hdr, h.bi[q - Hdr]>> \in U \ {u}
      BY <1>4
    <3> HIDE DEF U, u
    <3> QED BY <3>1, <1>2 DEF SameIn
  <2> QED BY <2>1, HeldOn
<1>6. DOMAIN mm = DOMAIN m /\ mm[p] = n /\ \A q \in D : mm[q] = m[q]
  OBVIOUS
<1> HIDE DEF mm
<1>7. UsedIn(g, mm) = U
  <2>1. \A q \in DOMAIN m : g.bi[q - Hdr] = h.bi[q - Hdr]
    BY <1>2, <1>5 DEF Written
  <2> QED BY <2>1, <1>6 DEF UsedIn
<1>8. Intact(g, mm)
  <2> SUFFICES ASSUME NEW q \in DOMAIN mm
               PROVE  IntactAt(g, mm, q)
    BY DEF Intact
  <2>1. CASE q = p
    BY <2>1, <1>2, <1>3, <1>6 DEF Written, IntactAt
  <2>2. CASE q \in D
    BY <2>2, <1>5, <1>6 DEF IntactAt
  <2> QED BY <2>1, <2>2, <1>6
<1>9. \A q \in DOMAIN mm : q \in Cells /\ mm[q] \in Nat
  BY <1>6 DEF Held
<1>10. Held(g, mm)
  BY <1>2, <1>7, <1>8, <1>9 DEF Held
<1> QED BY <1>10 DEF g, mm
-----------------------------------------------------------------------------
(* findbktidx: the bucket it gives is large enough. *)
LEMMA LargestSize ==
  /\ NBuckets - 1 \in Levels /\ MaxPayload + Hdr = Size(NBuckets - 1)
  /\ WordMod \in Nat
  /\ \A k \in Levels : Size(k) \in Nat /\ Size(k) <= Size(NBuckets - 1) /\ Size(k) < WordMod
<1> DEFINE last == NBuckets - 1
<1>1. last \in Nat /\ last \in Levels /\ last + 1 = NBuckets
  BY HeapAssumption DEF Levels
<1>2. Size(last) \in Nat /\ Size(last) >= 2 /\ Size(last + 1) = 2 * Size(last)
  BY <1>1, SizeDoubles
<1>3. WordMod = 2 * Size(last)
  BY <1>1, <1>2 DEF WordMod, Size
<1>4. WordMod \div 2 = Size(last)
  BY <1>2, <1>3
<1>5. MaxPayload + Hdr = Size(last)
  BY <1>2, <1>4 DEF MaxPayload, Hdr
<1>6. ASSUME NEW k \in Levels PROVE Size(k) \in Nat /\ Size(k) <= Size(last) /\ Size(k) < WordMod
  <2>1. k \in Nat /\ k <= last
    BY <1>1, HeapAssumption DEF Levels
  <2>2. Size(k) \in Nat /\ Size(k) <= Size(last)
    BY <2>1, <1>1, SizeDoubles, SizeGrows
  <2> QED BY <2>2, <1>2, <1>3
<1> QED BY <1>1, <1>2, <1>3, <1>5, <1>6

(* The bucket found holds the payload and its header. *)
LEMMA BucketFits ==
  ASSUME NEW n \in Nat, FindBktIdx(n) < NBuckets
  PROVE  FindBktIdx(n) \in Levels /\ n + Hdr <= Size(FindBktIdx(n))
<1> DEFINE Least(k) == n + Hdr <= Size(k) /\ \A j \in Levels : n + Hdr <= Size(j) => k <= j
           T == {k \in Levels : n + Hdr <= Size(k)}
<1>1. NBuckets \in Nat
  BY HeapAssumption
<1>2. ~ (n > MaxPayload)
  BY <1>1 DEF FindBktIdx
<1>3. NBuckets - 1 \in T
  <2>1. MaxPayload \in Int /\ n + Hdr <= MaxPayload + Hdr
    <3>1. Size(NBuckets - 1) \in Nat
      BY LargestSize
    <3>2. WordMod \div 2 \in Int
      BY LargestSize
    <3> QED BY <3>2, <1>2 DEF MaxPayload, Hdr
  <2> QED BY <2>1, LargestSize
<1>4. T \in SUBSET Nat
  BY LevelFacts
<1>5. PICK k \in T : \A j \in T : k <= j
  <2> HIDE DEF T
  <2> QED BY <1>3, <1>4, LeastNumber
<1>6. \E j \in Levels : Least(j)
  BY <1>5
<1>7. FindBktIdx(n) = CHOOSE j \in Levels : Least(j)
  BY <1>2 DEF FindBktIdx
<1> HIDE DEF Least
<1>8. FindBktIdx(n) \in Levels /\ Least(FindBktIdx(n))
  BY <1>6, <1>7
<1> QED BY <1>8 DEF Least

-----------------------------------------------------------------------------
(* The inductive invariant. *)
IInv ==
  /\ Held(heap, live)
  /\ call \in {"none", "malloc", "calloc", "free", "realloc"}
  /\ aborted \in BOOLEAN

(* The heap starts with no block and no memory but the first page. *)
LEMMA InitIInv == Init => IInv
<1> SUFFICES ASSUME Init PROVE IInv
  OBVIOUS
<1>1. PageSize \in Nat \ {0} /\ MemLimit \in Nat /\ PageSize <= MemLimit
  BY LevelFacts, HeapAssumption
<1>2. DOMAIN live = {} /\ UsedIn(heap, live) = {}
  BY DEF Init, UsedIn
<1>3. /\ heap.brk = PageSize /\ heap.buckets = [k \in Levels |-> << >>]
      /\ heap \in HeapType
  <2>1. 0 \in Levels
    BY HeapAssumption DEF Levels
  <2> QED BY <2>1, <1>1 DEF Init, HeapType
<1>4. FreeIn(heap) = {}
  BY <1>3 DEF FreeIn, ToSet
<1>5. IsTiling({}, PageSize)
  BY <1>1 DEF IsTiling, Disjoint
<1>6. heap.brk % PageSize = 0
  BY <1>3, LevelFacts, SizeAligned DEF PageSize
<1>7. \A k \in Levels : IsInjective(heap.buckets[k])
  BY <1>3 DEF IsInjective
<1>8. WellFormed(heap, UsedIn(heap, live))
  BY <1>2, <1>3, <1>4, <1>5, <1>6, <1>7 DEF WellFormed, Sound
<1> QED BY <1>2, <1>8 DEF IInv, Held, Intact, Init

(* What the steps of the program do to the heap and to the map of the      *)
(* pointers it holds.                                                      *)
LEMMA SuccessHeld ==
  ASSUME IInv, NEW n \in Nat, Succeeds(n)
  PROVE  /\ Held(Taken(n), Bind(live, Pointer(n), n))
         /\ Pointer(n) \in Cells /\ Pointer(n) \notin DOMAIN live
         /\ \A p \in DOMAIN live : Taken(n).bi[p - Hdr] = heap.bi[p - Hdr]
<1> DEFINE bi == FindBktIdx(n)
<1>1. bi \in Levels /\ n + Hdr <= Size(bi)
  BY BucketFits DEF Succeeds
<1>2. NeedsSbrk(heap, bi) => CanGrow(heap, bi)
  BY DEF Succeeds
<1>3. Held(heap, live)
  BY DEF IInv
<1> HIDE DEF bi
<1> QED BY <1>1, <1>2, <1>3, TakeHeld DEF Taken, Pointer, bi

(* realloc's other part: a new block taken, the old one released. *)
LEMMA MovedHeld ==
  ASSUME IInv, NEW n \in Nat, Succeeds(n), NEW p \in DOMAIN live, NEW luck
  PROVE  Held(Pushed(Taken(n), BucketOf(p), p - Hdr, luck), Bind(Drop(live, p), Pointer(n), n))
<1> DEFINE q == Pointer(n)
           g == Taken(n)
           m == Bind(live, q, n)
<1>1. Held(g, m) /\ q \notin DOMAIN live /\ g.bi[p - Hdr] = heap.bi[p - Hdr]
  BY SuccessHeld
<1> HIDE DEF g, q
<1>2. p \in DOMAIN m
  BY DEF Bind
<1>3. Held(Pushed(g, g.bi[p - Hdr], p - Hdr, luck), Drop(m, p))
  BY <1>1, <1>2, ReleaseHeld
<1>4. Drop(m, p) = Bind(Drop(live, p), q, n)
  <2>1. (DOMAIN live \cup {q}) \ {p} = (DOMAIN live \ {p}) \cup {q}
    BY <1>1
  <2> QED BY <2>1, <1>1 DEF Bind, Drop
<1> QED BY <1>1, <1>3, <1>4 DEF BucketOf, g, q
(* realloc adds the header before it wraps: the one size for which the sum *)
(* is zero is left out of the requests.                                    *)
NoWrap == WordMod - 1 \notin Requests

(* The sizes asked for are numbers, and the header does not make them wrap. *)
LEMMA RequestFacts ==
  /\ \A n \in Requests : n \in Nat
  /\ \A n \in Counts, sz \in Requests : (n * sz) % WordMod \in Nat
  /\ NoWrap => \A n \in Requests : (n + Hdr) % WordMod = n + Hdr
<1>1. WordMod \in Nat \ {0}
  <2>1. WordMod \in Nat /\ Size(NBuckets - 1) \in Nat /\ Size(NBuckets - 1) < WordMod
    BY LargestSize
  <2> QED BY <2>1
<1>2. \A n \in Requests \cup Counts : n \in Nat /\ n <= WordMod - 1
  BY <1>1, HeapAssumption
<1>3. ASSUME NEW n \in Counts, NEW sz \in Requests PROVE (n * sz) % WordMod \in Nat
  <2>1. n * sz \in Nat
    BY <1>2
  <2> QED BY <2>1, <1>1
<1>4. ASSUME NoWrap, NEW n \in Requests PROVE (n + Hdr) % WordMod = n + Hdr
  <2>1. n + Hdr \in 0 .. WordMod - 1
    BY <1>1, <1>2, <1>4 DEF NoWrap, Hdr
  <2> QED BY <2>1, <1>1
<1> QED BY <1>2, <1>3, <1>4

(* realloc keeps the invariant, in place, moved, failed or aborted. *)
LEMMA ReallocHeld ==
  ASSUME IInv, NoWrap, NEW p \in DOMAIN live, NEW n \in Requests, Realloc(p, n)
  PROVE  Held(heap', live') /\ aborted' \in BOOLEAN
<1>1. Held(heap, live) /\ aborted \in BOOLEAN /\ n \in Nat
  BY RequestFacts DEF IInv
<1>2. CASE InPlace(p, n)
  <2>1. n + Hdr <= Size(heap.bi[p - Hdr])
    BY <1>2, RequestFacts DEF InPlace, BucketOf
  <2>2. Held(Occupied(heap, heap.bi[p - Hdr], p - Hdr, n), [live EXCEPT ![p] = n])
    BY <2>1, <1>1, ResizeHeld
  <2> QED BY <2>2, <1>1, <1>2 DEF Realloc, BucketOf
<1>3. CASE ~InPlace(p, n)
  <2>1. CASE /\ Succeeds(n)
             /\ \E luck \in SUBSET (0 .. (SbrkBucket - 1)) :
                   heap' = Pushed(Taken(n), BucketOf(p), p - Hdr, luck)
             /\ live' = Bind(Drop(live, p), Pointer(n), n)
             /\ UNCHANGED aborted
    BY <2>1, <1>1, MovedHeld
  <2>2. CASE /\ Fails(n)
             /\ \E luck \in SUBSET (0 .. (SbrkBucket - 1)) :
                   heap' = Pushed(heap, BucketOf(p), p - Hdr, luck)
             /\ live' = Drop(live, p)
             /\ UNCHANGED aborted
    BY <2>2, <1>1, ReleaseHeld DEF BucketOf
  <2>3. CASE Abort(n) /\ aborted' = TRUE /\ UNCHANGED <<heap, live>>
    BY <2>3, <1>1
  <2> QED BY <1>3, <2>1, <2>2, <2>3 DEF Realloc
<1> QED BY <1>2, <1>3

(* malloc keeps it, and calloc, which calls it. *)
LEMMA MallocHeld ==
  ASSUME IInv, NEW n \in Nat, Malloc(n)
  PROVE  Held(heap', live') /\ aborted' \in BOOLEAN
<1>1. Held(heap, live) /\ aborted \in BOOLEAN
  BY DEF IInv
<1>2. CASE /\ Succeeds(n)
           /\ heap' = Taken(n) /\ live' = Bind(live, Pointer(n), n)
           /\ UNCHANGED aborted
  BY <1>1, <1>2, SuccessHeld
<1>3. CASE UNCHANGED <<heap, live>> /\ (UNCHANGED aborted \/ aborted' = TRUE)
  BY <1>1, <1>3
<1> QED BY <1>2, <1>3 DEF Malloc

(* Every step keeps the invariant. *)
LEMMA StepIInv == ASSUME NoWrap, IInv, [Next]_vars PROVE IInv'
<1>1. Held(heap, live) /\ aborted \in BOOLEAN
  BY DEF IInv
<1>2. CASE UNCHANGED vars
  BY <1>2 DEF vars, IInv
<1>3. ASSUME Next PROVE Held(heap', live') /\ aborted' \in BOOLEAN
  <2>1. CASE \E n \in Requests : Malloc(n)
    BY <2>1, MallocHeld, RequestFacts
  <2>2. CASE \E n \in Counts, sz \in Requests : Calloc(n, sz)
    <3>1. PICK n \in Counts, sz \in Requests : Calloc(n, sz)
      BY <2>2
    <3>2. CASE Malloc((n * sz) % WordMod)
      BY <3>2, MallocHeld, RequestFacts
    <3>3. CASE UNCHANGED <<heap, live>> /\ (UNCHANGED aborted \/ aborted' = TRUE)
      BY <3>3, <1>1
    <3> QED BY <3>1, <3>2, <3>3 DEF Calloc
  <2>3. CASE \E p \in DOMAIN live : Free(p)
    BY <2>3, <1>1, ReleaseHeld DEF Free, BucketOf
  <2>4. CASE \E p \in DOMAIN live, n \in Requests \ {0} : Realloc(p, n)
    BY <2>4, ReallocHeld
  <2> QED BY <1>3, <2>1, <2>2, <2>3, <2>4 DEF Next
<1>4. Next => call' \in {"none", "malloc", "calloc", "free", "realloc"}
  BY DEF Next
<1> QED BY <1>2, <1>3, <1>4 DEF IInv

(* The invariant holds of every state of the allocator. *)
THEOREM AlwaysIInv == ASSUME NoWrap PROVE Spec => []IInv
<1>1. IInv /\ [Next]_vars => IInv'
  BY StepIInv
<1> QED BY InitIInv, <1>1, PTL DEF Spec
-----------------------------------------------------------------------------
(* The heap and the pointers keep their types: the bucket read back from a *)
(* header, list links and marks never leave their ranges.                  *)
THEOREM TypeCorrect == ASSUME NoWrap PROVE Spec => []TypeOK
<1>1. IInv => TypeOK
  <2> SUFFICES ASSUME IInv PROVE TypeOK
    OBVIOUS
  <2>1. heap \in HeapType
    BY DEF IInv, Held, WellFormed, Sound
  <2>2. ASSUME NEW p \in DOMAIN live PROVE p \in Cells /\ live[p] \in 0 .. (WordMod - 1)
    <3>1. Held(heap, live) /\ p \in Cells
      BY DEF IInv, Held
    <3>2. live[p] \in Nat /\ heap.bi[p - Hdr] \in Levels /\ live[p] + Hdr <= Size(heap.bi[p - Hdr])
      BY <3>1, HeldCells DEF Held, Intact, IntactAt
    <3> QED BY <3>1, <3>2, LargestSize DEF Hdr
  <2> QED BY <2>1, <2>2 DEF IInv, TypeOK, HeapType
<1> QED BY <1>1, AlwaysIInv, PTL

(* The blocks of the properties are those of the invariant. *)
LEMMA BlocksOf ==
  ASSUME IInv
  PROVE  FreeBlocks = FreeIn(heap) /\ UsedBlocks = UsedIn(heap, live)
<1>1. heap \in HeapType
  BY DEF IInv, Held, WellFormed, Sound
<1>2. ASSUME NEW k \in Levels, NEW b \in ToSet(heap.buckets[k]) PROVE b \in Nat
  <2>1. heap.buckets[k] \in Seq(Cells)
    BY <1>1 DEF HeapType
  <2>2. b \in Cells
    BY <2>1 DEF ToSet
  <2> QED BY <2>2, LevelFacts DEF Cells
<1>3. FreeBlocks = {x \in Nat \X Levels : x[1] \in ToSet(heap.buckets[x[2]])}
  <2>1. ASSUME NEW x \in FreeBlocks PROVE x \in Nat \X Levels /\ x[1] \in ToSet(heap.buckets[x[2]])
    <3>1. PICK k \in Levels : x \in {<<b, k>> : b \in ToSet(heap.buckets[k])}
      BY DEF FreeBlocks
    <3> QED BY <3>1, <1>2
  <2>2. ASSUME NEW b \in Nat, NEW k \in Levels, b \in ToSet(heap.buckets[k])
        PROVE  <<b, k>> \in FreeBlocks
    BY <2>2 DEF FreeBlocks
  <2> QED BY <2>1, <2>2
<1> QED BY <1>3 DEF FreeIn, UsedBlocks, UsedIn, BucketOf

(* Free blocks and blocks in use tile the memory obtained from sbrk, and   *)
(* each is aligned: no cell is lost or handed out twice, whatever sequence *)
(* of calls, whatever stale bytes pass for marks.                          *)
THEOREM BlocksTileAlways == ASSUME NoWrap PROVE Spec => []BlocksTile
<1>1. IInv => BlocksTile
  <2> SUFFICES ASSUME IInv PROVE BlocksTile
    OBVIOUS
  <2> DEFINE B == FreeIn(heap) \cup UsedIn(heap, live)
  <2>1. Sound(heap, UsedIn(heap, live))
    BY DEF IInv, Held, WellFormed
  <2>2. \A x \in B : Aligned(x)
    BY <2>1 DEF Sound
  <2>3. \A x \in B : x[1] \in Nat /\ Size(x[2]) \in Nat
    BY <2>1, BlockCells
  <2>4. \A x \in B : \A c : c \in Span(x[1], x[2]) <=> c \in Nat /\ In(c, x)
    BY <2>3 DEF Span, In
  <2>5. heap.brk \in Nat /\ PageSize \in Nat
    <3>1. heap.brk \in PageSize .. MemLimit
      BY <2>1 DEF Sound, HeapType
    <3> QED BY <3>1, LevelFacts
  <2>6. \A c \in Nat : (\E x \in B : In(c, x)) <=> PageSize <= c /\ c < heap.brk
    BY <2>1 DEF Sound, IsTiling
  <2>7. \A c : c \in PageSize .. (heap.brk - 1) <=> c \in Nat /\ PageSize <= c /\ c < heap.brk
    BY <2>5
  <2>8. \A x, y \in B : x # y => Span(x[1], x[2]) \cap Span(y[1], y[2]) = {}
    <3>1. Disjoint(B)
      BY <2>1 DEF Sound, IsTiling
    <3> HIDE DEF B
    <3> QED BY <3>1, <2>4 DEF Disjoint
  <2> HIDE DEF B
  <2>9. UNION {Span(x[1], x[2]) : x \in B} = PageSize .. (heap.brk - 1)
    BY <2>4, <2>6, <2>7
  <2>10. FreeBlocks \cup UsedBlocks = B /\ FreeBlocks \cap UsedBlocks = {}
    BY <2>1, BlocksOf DEF B, Sound
  <2>11. Tiling
    BY <2>1, <2>8, <2>9, <2>10 DEF Tiling, Sound
  <2>12. BlocksAligned
    BY <2>2, <2>10 DEF BlocksAligned, Aligned
  <2> QED BY <2>11, <2>12 DEF BlocksTile
<1> QED BY <1>1, AlwaysIInv, PTL

(* No cell is in two blocks or in none: the first part of BlocksTile. *)
THEOREM TilingAlways == ASSUME NoWrap PROVE Spec => []Tiling
<1>1. BlocksTile => Tiling
  BY DEF BlocksTile
<1> QED BY <1>1, BlocksTileAlways, PTL

(* The allocator writes into no payload the program holds. *)
THEOREM PayloadAlways == ASSUME NoWrap PROVE Spec => []PayloadIntact
<1>1. IInv => PayloadIntact
  BY DEF IInv, Held, Intact, IntactAt, PayloadIntact, BucketOf
<1> QED BY <1>1, AlwaysIInv, PTL

(* What pushblock takes for a free sibling is linked in the list it is     *)
(* unlinked from, whatever the bytes of the program look like.             *)
THEOREM JoinsListedAlways == ASSUME NoWrap PROVE Spec => []JoinsOnlyListed
<1>1. IInv => JoinsOnlyListed
  <2> SUFFICES ASSUME IInv, NEW p \in DOMAIN live,
                      NEW luck \in SUBSET (0 .. (SbrkBucket - 1)),
                      NEW k \in BucketOf(p) .. (PushLevel(heap, BucketOf(p), p - Hdr, luck) - 1)
               PROVE  Sibling(p - Hdr, k) \in ToSet(heap.buckets[k])
    BY DEF JoinsOnlyListed
  <2> DEFINE b == p - Hdr
             bi == BucketOf(p)
             U == UsedIn(heap, live)
  <2>1. WellFormed(heap, U) /\ <<b, bi>> \in U /\ bi \in Levels
    BY HeldCells DEF IInv, Held, BucketOf
  <2> HIDE DEF b, bi, U
  <2>2. Joins(heap, b, k, luck)
    BY <2>1, PushLevelFacts DEF b, bi
  <2>3. bi \in Nat /\ k \in Nat /\ bi <= k
    <3>1. bi \in Nat /\ PushLevel(heap, bi, b, luck) \in Nat
      BY <2>1, PushLevelFacts, LevelFacts
    <3> QED BY <3>1 DEF b, bi
  <2>4. <<Sibling(b, k), k>> \in FreeIn(heap)
    BY <2>1, <2>2, <2>3, JoinsListed
  <2> QED BY <2>4 DEF FreeIn, b
<1> QED BY <1>1, AlwaysIInv, PTL
-----------------------------------------------------------------------------
(* The contract of the four functions, step by step. *)
PayloadSizes == Requests \cup {(n * sz) % WordMod : n \in Counts, sz \in Requests}

(* A new payload lies apart from those already held. *)
LEMMA NewIsApart ==
  ASSUME NEW h, NEW m, NEW q, q \notin DOMAIN m, NEW n, Held(h, Bind(m, q, n))
  PROVE  Contract!Apart(q, n, m)
<1> DEFINE mm == Bind(m, q, n)
<1>1. DOMAIN mm = DOMAIN m \cup {q} /\ mm[q] = n /\ \A p \in DOMAIN m : mm[p] = m[p]
  BY DEF Bind
<1> HIDE DEF mm
<1>2. \A p \in DOMAIN m : (q .. (q + mm[q] - 1)) \cap (p .. (p + mm[p] - 1)) = {}
  BY <1>1, HeldApart DEF mm
<1> QED BY <1>1, <1>2 DEF Contract!Apart, Contract!Extent

(* malloc gives a pointer the program did not hold, or none. *)
LEMMA MallocContract ==
  ASSUME IInv, NEW n \in Nat, n \in PayloadSizes, Malloc(n)
  PROVE  Contract!Obtain \/ live' = live
<1> DEFINE q == Pointer(n)
<1>1. CASE Succeeds(n) /\ live' = Bind(live, q, n)
  <2>1. Held(Taken(n), Bind(live, q, n)) /\ q \in Cells /\ q \notin DOMAIN live
    BY <1>1, SuccessHeld
  <2> HIDE DEF q
  <2>2. Contract!Apart(q, n, live)
    BY <2>1, NewIsApart
  <2>3. q \in DOMAIN live' \ DOMAIN live /\ live'[q] = n
    BY <1>1, <2>1 DEF Bind
  <2>4. live' = Contract!Bind(live, q, live'[q])
    BY <1>1, <2>3 DEF Bind, Contract!Bind
  <2>5. live'[q] \in Requests \cup {(k * sz) % WordMod : k \in Counts, sz \in Requests}
    BY <2>3 DEF PayloadSizes
  <2>6. Contract!Apart(q, live'[q], live)
    BY <2>2, <2>3
  <2> QED BY <2>1, <2>3, <2>4, <2>5, <2>6 DEF Contract!Obtain
<1> QED BY <1>1 DEF Malloc

(* free takes the one pointer. *)
LEMMA FreeContract ==
  ASSUME NEW p \in DOMAIN live, live' = Drop(live, p)
  PROVE  Contract!Release
<1>1. p \in DOMAIN live \ DOMAIN live' /\ live' = Contract!Drop(live, p)
  BY DEF Drop, Contract!Drop
<1> QED BY <1>1 DEF Contract!Release

(* realloc resizes in place, moves, or -- failing -- releases. *)
LEMMA ReallocContract ==
  ASSUME IInv, NoWrap, NEW p \in DOMAIN live, NEW n \in Requests, Realloc(p, n)
  PROVE  Contract!Next \/ live' = live
<1>1. Held(heap, live) /\ n \in Nat
  BY RequestFacts DEF IInv

<1>2. CASE InPlace(p, n)
  <2> DEFINE mm == [live EXCEPT ![p] = n]
             g == Occupied(heap, heap.bi[p - Hdr], p - Hdr, n)
  <2>1. n + Hdr <= Size(heap.bi[p - Hdr])
    BY <1>2, RequestFacts DEF InPlace, BucketOf
  <2>2. Held(g, mm)
    BY <2>1, <1>1, ResizeHeld
  <2>3. DOMAIN mm = DOMAIN live /\ mm[p] = n /\ \A q \in DOMAIN live \ {p} : mm[q] = live[q]
    OBVIOUS
  <2>4. live' = mm
    BY <1>2 DEF Realloc
  <2>5. live' = Contract!Bind(live, p, live'[p])
    BY <2>4 DEF Contract!Bind
  <2> HIDE DEF mm, g
  <2>6. \A q \in DOMAIN live \ {p} : (p .. (p + mm[p] - 1)) \cap (q .. (q + mm[q] - 1)) = {}
    BY <2>2, <2>3, HeldApart
  <2>7. Contract!Apart(p, n, Contract!Drop(live, p))
    BY <2>3, <2>6 DEF Contract!Apart, Contract!Extent, Contract!Drop
  <2>8. Contract!Resize
    BY <2>3, <2>4, <2>5, <2>7 DEF Contract!Resize
  <2> QED BY <2>8 DEF Contract!Next
<1>3. CASE ~InPlace(p, n)
  <2>1. CASE Succeeds(n) /\ live' = Bind(Drop(live, p), Pointer(n), n)
    <3> DEFINE q == Pointer(n)
    <3>1. Held(Taken(n), Bind(live, q, n)) /\ q \in Cells /\ q \notin DOMAIN live
      BY <1>1, <2>1, SuccessHeld
    <3> HIDE DEF q
    <3>2. Contract!Apart(q, n, live)
      BY <3>1, NewIsApart
    <3>3. /\ p \in DOMAIN live \ DOMAIN live' /\ q \in DOMAIN live' \ DOMAIN live
          /\ live'[q] = n
      BY <2>1, <3>1 DEF Bind, Drop, q
    <3>4. live' = Contract!Bind(Contract!Drop(live, p), q, live'[q])
      BY <2>1, <3>3 DEF Bind, Drop, Contract!Bind, Contract!Drop, q
    <3>5. Contract!Move
      BY <3>1, <3>2, <3>3, <3>4 DEF Contract!Move
    <3> QED BY <3>5 DEF Contract!Next
  <2>2. CASE live' = Drop(live, p)
    BY <2>2, FreeContract DEF Contract!Next
  <2> QED BY <1>3, <2>1, <2>2 DEF Realloc
<1> QED BY <1>2, <1>3

(* Every step is one of the contract, or changes no pointer. *)
LEMMA StepContract == ASSUME NoWrap, IInv, [Next]_vars PROVE [Contract!Next]_live
<1> SUFFICES ASSUME Next PROVE Contract!Next \/ live' = live
  BY DEF vars
<1>1. CASE \E n \in Requests : Malloc(n)
  <2>1. PICK n \in Requests : Malloc(n)
    BY <1>1
  <2>2. n \in Nat /\ n \in PayloadSizes
    BY RequestFacts DEF PayloadSizes
  <2> QED BY <2>1, <2>2, MallocContract DEF Contract!Next
<1>2. CASE \E n \in Counts, sz \in Requests : Calloc(n, sz)
  <2>1. PICK n \in Counts, sz \in Requests : Calloc(n, sz)
    BY <1>2
  <2>2. (n * sz) % WordMod \in Nat /\ (n * sz) % WordMod \in PayloadSizes
    BY RequestFacts DEF PayloadSizes
  <2>3. CASE Malloc((n * sz) % WordMod)
    BY <2>2, <2>3, MallocContract DEF Contract!Next
  <2>4. CASE live' = live
    BY <2>4
  <2> QED BY <2>1, <2>3, <2>4 DEF Calloc
<1>3. CASE \E p \in DOMAIN live : Free(p)
  BY <1>3, FreeContract DEF Free, Contract!Next
<1>4. CASE \E p \in DOMAIN live, n \in Requests \ {0} : Realloc(p, n)
  BY <1>4, ReallocContract
<1> QED BY <1>1, <1>2, <1>3, <1>4 DEF Next

(* The allocator implements the contract: every block the program holds is *)
(* a run of memory of its own, for every sequence of the four functions.   *)
THEOREM KeepsContract == ASSUME NoWrap PROVE Spec => Implements
<1>1. Init => Contract!Init
  BY DEF Init, Contract!Init
<1>2. IInv /\ [Next]_vars => [Contract!Next]_live
  BY StepContract
<1> QED BY <1>1, <1>2, AlwaysIInv, PTL DEF Spec, Implements, Contract!Spec
=============================================================================
