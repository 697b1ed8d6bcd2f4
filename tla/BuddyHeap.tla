------------------------------ MODULE BuddyHeap -----------------------------
(***************************************************************************)
(* The binary-buddies allocator of lib/src/stdlib.c.  Memory is an array   *)
(* of header_t cells (16 bytes in the code, one unit here).  Of a cell the *)
(* allocator reads two overlapping things: used.ff, which is 0xff in the   *)
(* header of a block in use and the low byte of free.next in a free one,   *)
(* and used.bi, which is the bucket of a block in use, a byte of free.next *)
(* in a free one and, in the SECOND cell of a free block, the mark left by *)
(* pushblock.  All other cells hold whatever the program wrote there.      *)
(***************************************************************************)
EXTENDS Integers, FiniteSets, Sequences, SequencesExt

CONSTANTS
  Bucket0P2,    \* BUCKET0P2: the smallest block has 2^Bucket0P2 cells
  NBuckets,     \* NBUCKETS
  SbrkBucket,   \* SBRKBUCKET: blocks of one memory page
  MemLimit,     \* the first cell memory.grow cannot provide
  Requests,     \* payload sizes the program asks for, in cells
  Counts,       \* the first argument of calloc
  MaxLive,      \* bound on the number of blocks held at a time
  Junk          \* the content of a cell the program wrote to

Hdr == 1        \* sizeof(header_t)

Levels == 0 .. (NBuckets - 1)

(* 1 << n, as a function, which can be reasoned about by induction. *)
Power[n \in Nat] == IF n = 0 THEN 1 ELSE 2 * Power[n - 1]

Size(bi) == Power[bi + Bucket0P2]       \* BI2BLKSZ

WordMod == Power[NBuckets + Bucket0P2]  \* size_t wraps here

MaxPayload == (WordMod \div 2) - Hdr    \* MAXPAYLOAD

PageSize == Size(SbrkBucket)

Null == 0

ASSUME HeapAssumption ==
  /\ Bucket0P2 \in Nat \ {0}
  /\ NBuckets \in Nat /\ SbrkBucket \in Nat /\ SbrkBucket < NBuckets
  /\ MemLimit \in Nat /\ MemLimit % PageSize = 0 /\ PageSize <= MemLimit
  /\ Requests \subseteq 0 .. (WordMod - 1)
  /\ Counts \subseteq 0 .. (WordMod - 1)
  /\ MaxLive \in Nat
  /\ Junk \notin Levels /\ Junk \notin BOOLEAN

VARIABLES
  heap,      \* [brk, buckets, ff, bi]: end of memory, free lists, cells
  live,      \* the pointers the program holds -> used.plsz
  call,      \* the function called last
  aborted    \* an assertion of the allocator has failed

vars == <<heap, live, call, aborted>>

Cells == 0 .. (MemLimit - 1)

(* The first page is the program's data and stack; memory.grow gives       *)
(* zeroed cells.                                                           *)
Init ==
  /\ heap = [brk     |-> PageSize,
             buckets |-> [bi \in Levels |-> << >>],
             ff      |-> [c \in Cells |-> FALSE],
             bi      |-> [c \in Cells |-> 0]]
  /\ live = << >>
  /\ call = "none"
  /\ aborted = FALSE

-----------------------------------------------------------------------------
(* Mutant of the next: the header is counted as room. *)
FindBktIdx_Tight(n) ==
  IF n > MaxPayload THEN NBuckets
  ELSE CHOOSE bi \in Levels :
         n <= Size(bi) + Hdr /\ \A k \in Levels : n <= Size(k) + Hdr => bi <= k

(* findbktidx: the first bucket whose blocks hold the payload and a header. *)
FindBktIdx(n) ==
  IF n > MaxPayload THEN NBuckets
  ELSE CHOOSE bi \in Levels :
         n + Hdr <= Size(bi) /\ \A k \in Levels : n + Hdr <= Size(k) => bi <= k

(* intptr_t is signed: the largest block size is a negative increment.     *)
SbrkAccepts(bi) == Size(bi) < WordMod \div 2

(* The bucket pullblock ends its search in: the first one from bi up that  *)
(* has a block, no further than the page bucket.                           *)
PullLevel(h, bi) ==
  LET above == IF bi < SbrkBucket THEN bi .. SbrkBucket ELSE {bi}
      found == {k \in above : h.buckets[k] # << >>}
  IN  IF found # {} THEN CHOOSE k \in found : \A m \in found : k <= m
      ELSE CHOOSE k \in above : \A m \in above : m <= k

NeedsSbrk(h, bi) == h.buckets[PullLevel(h, bi)] = << >>

CanGrow(h, bi) == h.brk + Size(PullLevel(h, bi)) <= MemLimit

PulledBlock(h, bi) ==
  IF NeedsSbrk(h, bi) THEN h.brk ELSE Head(h.buckets[PullLevel(h, bi)])

NewBrk(h, bi) == IF NeedsSbrk(h, bi) THEN h.brk + Size(PullLevel(h, bi)) ELSE h.brk

(* pullblock: the block found is halved down to the bucket asked for; each *)
(* upper half goes to its free list, without a mark.                       *)
Pulled(h, bi) ==
  LET top == PullLevel(h, bi)
      pb  == PulledBlock(h, bi)
      half == {pb + Size(k) : k \in bi .. (top - 1)}
  IN  [brk     |-> NewBrk(h, bi),
       buckets |-> [k \in Levels |->
                      IF k \in bi .. (top - 1) THEN <<pb + Size(k)>>
                      ELSE IF k = top /\ ~NeedsSbrk(h, bi) THEN Tail(h.buckets[k])
                      ELSE h.buckets[k]],
       ff      |-> [c \in Cells |-> IF c \in half THEN FALSE ELSE h.ff[c]],
       bi      |-> [c \in Cells |-> IF c \in half THEN Junk ELSE h.bi[c]]]

(* The pulled block becomes a block in use and its payload the program's.  *)
Occupied(h, bi, pb, n) ==
  [h EXCEPT !.ff = [c \in Cells |-> IF c = pb THEN TRUE
                                    ELSE IF c \in (pb + Hdr) .. (pb + n) THEN Junk
                                    ELSE h.ff[c]],
            !.bi = [c \in Cells |-> IF c = pb THEN bi
                                    ELSE IF c \in (pb + Hdr) .. (pb + n) THEN Junk
                                    ELSE h.bi[c]]]

-----------------------------------------------------------------------------
(* The block of bucket k that p lies in; its sibling there.                *)
(* Mutant: the join of two blocks starts at the one released. *)
Block_Unaligned(p, k) == p

Block(p, k) == p - (p % Size(k))

Sibling(p, k) ==
  IF (Block(p, k) \div Size(k)) % 2 = 1 THEN Block(p, k) - Size(k)
                                        ELSE Block(p, k) + Size(k)

(* Mutant of the next: a free sibling of another size joins. *)
Joins_Unmarked(h, p, k, luck) ==
  k < SbrkBucket /\ h.ff[Sibling(p, k)] \in {FALSE, Junk}

(* pushblock's test: the sibling is free and carries the mark of bucket k. *)
(* A cell the program wrote to passes for a mark in the buckets of luck.   *)
Joins(h, p, k, luck) ==
  LET s == Sibling(p, k)
      is(cell, v) == cell = v \/ (cell = Junk /\ k \in luck)
  IN  k < SbrkBucket /\ is(h.ff[s], FALSE) /\ is(h.bi[s + Hdr], k)

PushLevel(h, bi, p, luck) ==
  IF bi >= SbrkBucket THEN bi
  ELSE CHOOSE k \in bi .. SbrkBucket :
         /\ ~Joins(h, p, k, luck)
         /\ \A m \in bi .. (k - 1) : Joins(h, p, m, luck)

(* Blocks larger than a page are aligned to pages and stay where they are; *)
(* the mutant aligns them to their size.                                   *)
FreedBlock_Aligned(bi, p, top) == Block(p, top)

FreedBlock(bi, p, top) == IF bi > SbrkBucket THEN p ELSE Block(p, top)

(* pushblock: free siblings are unlinked while they join; the block that   *)
(* results is put at the head of its list, with the mark in its second     *)
(* cell.                                                                   *)
Pushed(h, bi, p, luck) ==
  LET top == PushLevel(h, bi, p, luck)
      pb  == FreedBlock(bi, p, top)
  IN  [h EXCEPT !.buckets = [k \in Levels |->
                    IF k \in bi .. (top - 1) THEN RemoveFirst(h.buckets[k], Sibling(p, k))
                    ELSE IF k = top THEN <<pb>> \o h.buckets[k]
                    ELSE h.buckets[k]],
                !.ff = [@ EXCEPT ![pb] = FALSE],
                !.bi = [@ EXCEPT ![pb] = Junk, ![pb + Hdr] = top]]

-----------------------------------------------------------------------------
Bind(m, p, n) == [q \in DOMAIN m \cup {p} |-> IF q = p THEN n ELSE m[q]]

Drop(m, p) == [q \in DOMAIN m \ {p} |-> m[q]]

(* The outcomes of realloc(NULL, n). *)
Abort(n) ==
  LET bi == FindBktIdx(n)
  IN  bi < NBuckets /\ NeedsSbrk(heap, bi) /\ ~SbrkAccepts(PullLevel(heap, bi))

(* memory.grow may refuse although there is room. *)
Fails(n) ==
  LET bi == FindBktIdx(n)
  IN  bi < NBuckets => NeedsSbrk(heap, bi) /\ ~Abort(n)

Succeeds(n) ==
  LET bi == FindBktIdx(n)
  IN  /\ bi < NBuckets
      /\ ~Abort(n)
      /\ NeedsSbrk(heap, bi) => CanGrow(heap, bi)

Taken(n) ==
  LET bi == FindBktIdx(n)
  IN  Occupied(Pulled(heap, bi), bi, PulledBlock(heap, bi), n)

Pointer(n) == PulledBlock(heap, FindBktIdx(n)) + Hdr

Malloc(n) ==
  \/ /\ Succeeds(n) /\ Cardinality(DOMAIN live) < MaxLive
     /\ heap' = Taken(n)
     /\ live' = Bind(live, Pointer(n), n)
     /\ UNCHANGED aborted
  \/ Fails(n) /\ UNCHANGED <<heap, live, aborted>>
  \/ Abort(n) /\ aborted' = TRUE /\ UNCHANGED <<heap, live>>

(* calloc clears what malloc gave; a product beyond the largest payload is *)
(* refused and an element size of zero is asserted against.                *)
Calloc(n, sz) ==
  \/ sz = 0 /\ aborted' = TRUE /\ UNCHANGED <<heap, live>>
  \/ sz # 0 /\ n <= MaxPayload \div sz /\ Malloc((n * sz) % WordMod)
  \/ sz # 0 /\ n > MaxPayload \div sz /\ UNCHANGED <<heap, live, aborted>>

(* The bucket of a block in use is read back from its header. *)
BucketOf(p) == heap.bi[p - Hdr]

Free(p) ==
  /\ \E luck \in SUBSET (0 .. (SbrkBucket - 1)) :
        heap' = Pushed(heap, BucketOf(p), p - Hdr, luck)
  /\ live' = Drop(live, p)
  /\ UNCHANGED aborted

(* Mutant: the header takes room too. *)
InPlace_NoHeader(p, n) == n <= Size(BucketOf(p))

InPlace(p, n) == (n + Hdr) % WordMod <= Size(BucketOf(p))

(* realloc: in place when the block is large enough, else a new block, a   *)
(* copy, and the old block pushed back -- pushed back also when there is   *)
(* no new block.                                                           *)
Realloc(p, n) ==
  IF InPlace(p, n)
  THEN /\ live' = [live EXCEPT ![p] = n]
       /\ heap' = Occupied(heap, BucketOf(p), p - Hdr, n)
       /\ UNCHANGED aborted
  ELSE \/ /\ Succeeds(n)
          /\ \E luck \in SUBSET (0 .. (SbrkBucket - 1)) :
                heap' = Pushed(Taken(n), BucketOf(p), p - Hdr, luck)
          /\ live' = Bind(Drop(live, p), Pointer(n), n)
          /\ UNCHANGED aborted
       \/ /\ Fails(n)
          /\ \E luck \in SUBSET (0 .. (SbrkBucket - 1)) :
                heap' = Pushed(heap, BucketOf(p), p - Hdr, luck)
          /\ live' = Drop(live, p)
          /\ UNCHANGED aborted
       \/ Abort(n) /\ aborted' = TRUE /\ UNCHANGED <<heap, live>>

(* realloc(p, 0) is free(p); realloc(NULL, n) is malloc(n). *)
Next ==
  /\ ~aborted
  /\ \/ call' = "malloc" /\ \E n \in Requests : Malloc(n)
     \/ call' = "calloc" /\ \E n \in Counts, sz \in Requests : Calloc(n, sz)
     \/ call' = "free" /\ \E p \in DOMAIN live : Free(p)
     \/ call' = "realloc" /\ \E p \in DOMAIN live, n \in Requests \ {0} : Realloc(p, n)

Spec == Init /\ [][Next]_vars

-----------------------------------------------------------------------------
TypeOK ==
  /\ heap \in [brk     : PageSize .. MemLimit,
              buckets : [Levels -> Seq(Cells)],
              ff      : [Cells -> BOOLEAN \cup {Junk}],
              bi      : [Cells -> Levels \cup {Junk}]]
  /\ DOMAIN live \subseteq Cells
  /\ \A p \in DOMAIN live : live[p] \in 0 .. (WordMod - 1)
  /\ call \in {"none", "malloc", "calloc", "free", "realloc"}
  /\ aborted \in BOOLEAN

Span(b, k) == b .. (b + Size(k) - 1)

FreeBlocks == UNION {{<<b, k>> : b \in ToSet(heap.buckets[k])} : k \in Levels}

UsedBlocks == {<<p - Hdr, BucketOf(p)>> : p \in DOMAIN live}

(* Free blocks and blocks in use tile the memory obtained from sbrk: no    *)
(* cell is in two blocks (a block handed out twice, a false join of        *)
(* pushblock), none is in no block (a block lost by a list operation).     *)
Tiling ==
  /\ UNION {Span(x[1], x[2]) : x \in FreeBlocks \cup UsedBlocks}
       = PageSize .. (heap.brk - 1)
  /\ \A x, y \in FreeBlocks \cup UsedBlocks :
        x # y => Span(x[1], x[2]) \cap Span(y[1], y[2]) = {}
  /\ FreeBlocks \cap UsedBlocks = {}
  /\ \A k \in Levels : IsInjective(heap.buckets[k])

(* The allocator writes no cell of a payload the program holds, and a      *)
(* payload fits its block: the copies, marks and list links of the other   *)
(* operations stay out of it.                                              *)
PayloadIntact ==
  \A p \in DOMAIN live :
    /\ live[p] + Hdr <= Size(BucketOf(p))
    /\ heap.ff[p - Hdr] = TRUE
    /\ \A c \in p .. (p + live[p] - 1) : heap.ff[c] = Junk /\ heap.bi[c] = Junk

(* Whenever a block in use is released, what pushblock takes for the free  *)
(* sibling of its bucket is one: it is linked in that bucket's list, so    *)
(* unlinkblock follows pointers that are there.                            *)
JoinsOnlyListed ==
  \A p \in DOMAIN live : \A luck \in SUBSET (0 .. (SbrkBucket - 1)) :
    LET b == p - Hdr
        bi == BucketOf(p)
    IN  \A k \in bi .. (PushLevel(heap, bi, b, luck) - 1) :
          Sibling(b, k) \in ToSet(heap.buckets[k])

(* A block no larger than a page is aligned to its size: the assertion     *)
(* realloc makes of every pointer it is given.                             *)
BlocksAligned ==
  \A x \in FreeBlocks \cup UsedBlocks :
    IF x[2] <= SbrkBucket THEN x[1] % Size(x[2]) = 0 ELSE x[1] % PageSize = 0

(* Blocks tile the memory, those larger than a page between the others too. *)
BlocksTile == Tiling /\ BlocksAligned

Contract == INSTANCE HeapContract
              WITH Addresses <- Cells,
                   Payloads <- Requests \cup {(n * sz) % WordMod : n \in Counts, sz \in Requests}

(* The allocator implements the contract of the four functions, with one   *)
(* liberty: a realloc that fails may release the block.                    *)
Implements == Contract!Spec

-----------------------------------------------------------------------------
(* stdlib.c's comment on pushblock's test ("check if next block is free    *)
(* and belongs to the same bucket"): a released block is joined to a free  *)
(* sibling of its bucket.  It misses the siblings pullblock left unmarked. *)
FreeSiblingsJoined ==
  \A k \in 0 .. (SbrkBucket - 1) : \A b \in ToSet(heap.buckets[k]) :
    Sibling(b, k) \notin ToSet(heap.buckets[k])

(* The C90 realloc: when it returns NULL the block still belongs to the    *)
(* program, so no realloc takes a block away without giving another.       *)
ReallocKeepsBlock ==
  [][call' = "realloc" => Cardinality(DOMAIN live') = Cardinality(DOMAIN live)]_vars

(* The assertions of sbrk and calloc hold. *)
NoAbort == ~aborted

(* A block is as large as what was asked for. *)
PayloadFits == \A p \in DOMAIN live : live[p] <= MaxPayload
=============================================================================
