---------------------------- MODULE Watify_proofs ----------------------------
(***************************************************************************)
(* For every output of the linker: segments are laid out apart from each   *)
(* other with their content, and what is patched into code leads to what   *)
(* it stood for.                                                           *)
(***************************************************************************)
EXTENDS Watify, Linker_proofs

Linking == phase \in {"collect", "load", "trace", "start", "linked"}

Unlaid == place = << >> /\ shared = {} /\ dseg = << >> /\ table = << >> /\ patched = << >>

(* What of the linker's invariant the layout needs: each global put out is *)
(* defined, and is put out once.                                           *)
Linked ==
  /\ pwb \in Seq(Modules) /\ deps \in Seq(Reference)
  /\ \A k \in DOMAIN deps : Defines(deps[k])
  /\ MovedOnce

Phases ==
  /\ phase \in {"collect", "load", "trace", "start", "linked", "place", "patch", "done", "error"}
  /\ Linking => IInv /\ Unlaid
  /\ phase \in {"place", "patch", "done"} => Linked

(* What a word of the combined segment holds. *)
Words == {Pad} \cup Nat \cup UNION {ToSet(Bytes[g]) : g \in DOMAIN Bytes}

LayoutTypes ==
  /\ dseg \in Seq(Words)
  /\ \A g \in Placed : g \in DOMAIN Bytes /\ place[g] \in Nat

SegCode(g) == Code(Ref(g[1], g[2], "data"))

SharedAreLeaves == \A g \in shared : g \in Placed /\ g \in ReadOnly /\ SegCode(g) = << >>

(* A segment is placed after those it refers to. *)
RefsPlaced == \A g \in Placed : \A k \in DOMAIN SegCode(g) : Key(SegCode(g)[k]) \in Placed

LaidOut == LayoutTypes /\ SharedAreLeaves /\ RefsPlaced /\ SegmentsApart /\ SegmentHoldsData

(* Both loops go through the exports from the last to the first.           *)
Backwards ==
  /\ phase \in {"place", "patch"} =>
       /\ todo \in Seq(Reference) /\ Len(todo) <= Len(deps)
       /\ \A k \in 1 .. Len(todo) : todo[k] = deps[Len(todo) + 1 - k]
  /\ phase = "place" => \A g \in Placed : \E n \in DOMAIN deps : n > Len(todo) /\ Key(deps[n]) = g
  /\ phase \in {"patch", "done"} => j \in Nat \ {0}
  /\ phase = "done" => todo = << >>

(* The k-th reference of the n-th export has been looked at. *)
Passed(n, k) ==
  /\ n \in DOMAIN deps /\ deps[n].iek # "data" /\ k \in DOMAIN Code(deps[n])
  /\ n > Len(todo) \/ (n = Len(todo) /\ k < j)

PatchedRight(r, k) ==
  /\ k \in DataAt(r) => /\ <<Key(r), k>> \in DOMAIN patched
                        /\ patched[<<Key(r), k>>] = place[Key(Code(r)[k])]
  /\ k \in TakenAt(r) => /\ <<Key(r), k>> \in DOMAIN patched
                         /\ patched[<<Key(r), k>>] \in DOMAIN table
                         /\ table[patched[<<Key(r), k>>]] = Key(Code(r)[k])

TableOfTaken ==
  \A v \in DOMAIN table : \E n, k : Passed(n, k) /\ k \in TakenAt(deps[n])
                                    /\ table[v] = Key(Code(deps[n])[k])

PatchInv ==
  /\ phase = "place" => table = << >>
  /\ IsInjective(table)
  /\ phase \in {"patch", "done"} =>
       table \in Seq(Keys) /\ TableOfTaken /\ \A n, k : Passed(n, k) => PatchedRight(deps[n], k)

(* The invariant of the linker and the layout after it. *)
LayInv == Phases /\ LaidOut /\ Backwards /\ PatchInv /\ MemoryLaidOut

-----------------------------------------------------------------------------
(* The next multiple of the alignment. *)
LEMMA AlignFacts ==
  ASSUME NEW a \in Nat, NEW n \in Nat \ {0}
  PROVE  /\ AlignUp(a, n) \in a .. (a + n - 1) /\ AlignUp(a, n) % n = 0
<1>1. a % n \in 0 .. (n - 1)
  OBVIOUS
<1>2. (a + (n - (a % n))) % n = 0
  OBVIOUS
<1>3. CASE a % n = 0
  BY <1>3 DEF AlignUp
<1>4. CASE a % n # 0
  <2>1. AlignUp(a, n) = a + (n - (a % n))
    BY <1>4 DEF AlignUp
  <2> QED
    BY <1>1, <1>2, <1>4, <2>1
<1> QED
  BY <1>3, <1>4

LEMMA ConcatFacts ==
  ASSUME NEW S, NEW a \in Seq(S), NEW b \in Seq(S)
  PROVE  /\ a \o b \in Seq(S) /\ Len(a \o b) = Len(a) + Len(b)
         /\ \A k \in 1 .. Len(a) : (a \o b)[k] = a[k]
         /\ \A k \in 1 .. Len(b) : (a \o b)[Len(a) + k] = b[k]
OBVIOUS

(* Before anything is placed there is nothing to be wrong. *)
LEMMA UnlaidIsLaidOut ==
  ASSUME Unlaid PROVE LaidOut /\ IsInjective(table)
<1>1. Placed = {} /\ shared = {} /\ dseg = << >> /\ DOMAIN table = {}
  BY DEF Unlaid, Placed
<1> QED
  BY <1>1 DEF LaidOut, LayoutTypes, SharedAreLeaves, RefsPlaced, SegmentsApart,
              SegmentHoldsData, IsInjective

LEMMA WInitHolds == WInit => LayInv
<1> SUFFICES ASSUME WInit PROVE LayInv
  OBVIOUS
<1>1. phase = "collect" /\ IInv /\ Unlaid
  BY InitHolds DEF WInit, Init, Unlaid
<1>2. LaidOut /\ IsInjective(table)
  BY <1>1, UnlaidIsLaidOut
<1> QED
  BY <1>1, <1>2 DEF LayInv, Phases, Linking, Backwards, PatchInv, MemoryLaidOut

(* The linker's steps. *)
LEMMA LinkStepKeeps == ASSUME LayInv, LinkStep PROVE LayInv'
<1>1. Linking /\ phase' \in {"collect", "load", "trace", "start", "linked", "error"}
  <2> USE DEF Linking
  <2>1. CASE Collect
    BY <2>1 DEF Collect, Fail
  <2>2. CASE EndCollect
    BY <2>2 DEF EndCollect
  <2>3. CASE LoadStep
    BY <2>3 DEF LoadStep, Load, Present, Fail
  <2>4. CASE EndLoad
    BY <2>4 DEF EndLoad
  <2>5. CASE Undefined
    BY <2>5 DEF Undefined, Fail
  <2>6. CASE FollowRef
    BY <2>6 DEF FollowRef, Fail
  <2>7. CASE MoveGlobal
    BY <2>7 DEF MoveGlobal
  <2>8. CASE EndTrace
    BY <2>8 DEF EndTrace
  <2>9. CASE CheckStart
    BY <2>9 DEF CheckStart
  <2> QED
    BY <2>1, <2>2, <2>3, <2>4, <2>5, <2>6, <2>7, <2>8, <2>9 DEF LinkStep, Next
<1>2. IInv /\ Unlaid
  BY <1>1 DEF LayInv, Phases
<1>3. IInv'
  BY <1>2, NextKeeps DEF LinkStep
<1>4. Unlaid'
  BY <1>2 DEF LinkStep, wvars, Unlaid
<1>5. LaidOut' /\ IsInjective(table)'
  BY <1>4, UnlaidIsLaidOut, PTL
<1> QED
  BY <1>1, <1>3, <1>4, <1>5 DEF LayInv, Phases, Linking, Backwards, PatchInv, MemoryLaidOut

-----------------------------------------------------------------------------
(* The layout leaves the linker's output alone. *)
LEMMA Steady ==
  ASSUME UNCHANGED <<pwb, deps>>, phase \in {"linked", "place", "patch", "done"}, LayInv
  PROVE  /\ Linked /\ Linked'
         /\ \A x : Code(x)' = Code(x)
         /\ \A g : SegCode(g)' = SegCode(g)
<1>1. Linked
  <2>1. CASE phase = "linked"
    <3>1. IInv
      BY <2>1 DEF LayInv, Phases, Linking
    <3>2. Len(out) = Len(deps) /\ \A k \in 1 .. Len(out) : Defines(deps[k])
      BY <2>1, <3>1 DEF IInv, OutIsPrefix
    <3>3. pwb \in Seq(Modules) /\ deps \in Seq(Reference) /\ MovedOnce
      BY <3>1 DEF IInv, TypeOK, ModulesRead
    <3> QED
      BY <3>2, <3>3 DEF Linked
  <2> QED
    BY <2>1 DEF LayInv, Phases
<1>2. \A x : Code(x)' = Code(x) /\ Defines(x)' = Defines(x)
  BY SameModules
<1>3. Linked'
  BY <1>1, <1>2 DEF Linked, MovedOnce
<1>4. \A g : SegCode(g)' = SegCode(g)
  BY <1>2 DEF SegCode
<1> QED
  BY <1>1, <1>2, <1>3, <1>4

(* Nothing is placed by a step that leaves the segment alone. *)
LEMMA SameLayout ==
  ASSUME LaidOut, UNCHANGED <<place, shared, dseg>>, \A g : SegCode(g)' = SegCode(g)
  PROVE  LaidOut'
<1>1. Placed' = Placed /\ CurAddr' = CurAddr /\ \A g : Room(g)' = Room(g)
  BY DEF Placed, CurAddr, Room
<1>2. LayoutTypes'
  BY <1>1 DEF LaidOut, LayoutTypes
<1>3. SharedAreLeaves' /\ RefsPlaced'
  BY <1>1 DEF LaidOut, SharedAreLeaves, RefsPlaced
<1>4. SegmentsApart'
  BY <1>1 DEF LaidOut, SegmentsApart
<1>5. SegmentHoldsData'
  <2>1. SegmentHoldsData
    BY DEF LaidOut
  <2> QED
    BY <1>1, <2>1 DEF SegmentHoldsData, SegCode
<1> QED
  BY <1>2, <1>3, <1>4, <1>5 DEF LaidOut

LEMMA ReverseFacts ==
  ASSUME NEW S, NEW s \in Seq(S)
  PROVE  /\ Reverse(s) \in Seq(S) /\ Len(Reverse(s)) = Len(s)
         /\ \A k \in 1 .. Len(s) : Reverse(s)[k] = s[Len(s) + 1 - k]
BY DEF Reverse

LEMMA BeginPlaceKeeps == ASSUME LayInv, BeginPlace PROVE LayInv'
<1>1. phase = "linked" /\ phase' = "place" /\ todo' = Reverse(deps)
      /\ UNCHANGED <<pwb, deps, place, shared, dseg, table, patched, layout>>
  BY DEF BeginPlace, loading, tracing
<1>2. Unlaid
  BY <1>1 DEF LayInv, Phases, Linking
<1>3. Linked' /\ deps \in Seq(Reference)
  BY <1>1, Steady DEF Linked
<1>4. Phases'
  BY <1>1, <1>3 DEF Phases, Linking
<1>5. Unlaid'
  BY <1>1, <1>2 DEF Unlaid
<1>6. LaidOut' /\ IsInjective(table)'
  BY <1>5, UnlaidIsLaidOut, PTL
<1>7. Backwards'
  BY <1>1, <1>3, <1>5, ReverseFacts DEF Backwards, Unlaid, Placed
<1>8. PatchInv' /\ MemoryLaidOut'
  BY <1>1, <1>5, <1>6 DEF PatchInv, MemoryLaidOut, Unlaid
<1> QED
  BY <1>4, <1>6, <1>7, <1>8 DEF LayInv

(* The export the loop is at is the last of those not gone through. *)
LEMMA AtThis ==
  ASSUME LayInv, phase \in {"place", "patch"}, todo # << >>
  PROVE  /\ Len(todo) \in DOMAIN deps /\ This = deps[Len(todo)] /\ This \in Reference
         /\ Defines(This) /\ Code(This) \in Seq(Reference)
         /\ SegCode(G0) = Code(This) /\ Code(Ref(G0[1], G0[2], "data")) = Code(This)
         /\ This.iek = "data" => /\ G0 \in DOMAIN Bytes
                                 /\ Bytes[G0] \in Seq(ToSet(Bytes[G0])) /\ Align[G0] \in Nat \ {0}
         /\ Tail(todo) \in Seq(Reference) /\ Len(Tail(todo)) = Len(todo) - 1
         /\ \A k \in 1 .. Len(Tail(todo)) : Tail(todo)[k] = deps[Len(Tail(todo)) + 1 - k]
<1>1. Linked /\ Backwards
  BY DEF LayInv, Phases
<1>2. /\ todo \in Seq(Reference) /\ Len(todo) \in 1 .. Len(deps) /\ deps \in Seq(Reference)
      /\ \A k \in 1 .. Len(todo) : todo[k] = deps[Len(todo) + 1 - k]
  BY <1>1 DEF Linked, Backwards
<1>3. Len(todo) \in DOMAIN deps /\ This = deps[Len(todo)]
  BY <1>2 DEF This
<1>4. This \in Reference /\ Defines(This)
  BY <1>1, <1>2, <1>3 DEF Linked
<1>5. Code(This) \in Seq(Reference)
  BY <1>1, <1>4, CodeIsSeq DEF Linked
<1>6. G0[1] = This.mod /\ G0[2] = This.id /\ Key(Ref(G0[1], G0[2], "data")) = G0
      /\ Ref(G0[1], G0[2], "data").mod = This.mod
  BY DEF G0, Key, Ref
<1>7. SegCode(G0) = Code(This) /\ Code(Ref(G0[1], G0[2], "data")) = Code(This)
  BY <1>6 DEF SegCode, Code, G0
<1>8. ASSUME This.iek = "data"
      PROVE  G0 \in DOMAIN Bytes /\ Bytes[G0] \in Seq(ToSet(Bytes[G0])) /\ Align[G0] \in Nat \ {0}
  <2>1. Module(This.mod) \in Modules /\ G0 \in DOMAIN Module(This.mod).exports
        /\ Module(This.mod).exports[G0].kind = "data"
    BY <1>1, <1>4, <1>8, FoundIsModule DEF Linked, Defines, G0
  <2> QED
    BY <2>1, LayoutAssumption
<1>9. Tail(todo) \in Seq(Reference) /\ Len(Tail(todo)) = Len(todo) - 1
      /\ \A k \in 1 .. Len(Tail(todo)) : Tail(todo)[k] = deps[Len(Tail(todo)) + 1 - k]
  <2>1. Tail(todo) \in Seq(Reference) /\ Len(Tail(todo)) = Len(todo) - 1
        /\ \A k \in 1 .. Len(Tail(todo)) : Tail(todo)[k] = todo[k + 1]
    BY <1>2
  <2> QED
    BY <1>2, <2>1
<1> QED
  BY <1>3, <1>4, <1>5, <1>7, <1>8, <1>9

(* The content of one segment is where its address says. *)
HoldsAt(g) ==
  \A k \in DOMAIN Bytes[g] :
    dseg[place[g] - SdbAddr + k] = IF k \in DOMAIN SegCode(g) THEN place[Key(SegCode(g)[k])]
                                                             ELSE Bytes[g][k]

LEMMA HoldsOne == SegmentHoldsData <=> \A g \in Placed : HoldsAt(g)
BY DEF SegmentHoldsData, HoldsAt, SegCode

LEMMA BytesAreSeq ==
  ASSUME NEW g \in DOMAIN Bytes
  PROVE  Len(Bytes[g]) \in Nat /\ DOMAIN Bytes[g] = 1 .. Len(Bytes[g])
BY LayoutAssumption

(* The segments placed before keep their places and content when one is    *)
(* added.                                                                  *)
LEMMA OldStay ==
  ASSUME LaidOut, NEW x, x \notin Placed, NEW v, place' = Mapped(place, x, v),
         dseg' \in Seq(Words), Len(dseg) <= Len(dseg'), \A k \in DOMAIN dseg : dseg'[k] = dseg[k],
         \A g : SegCode(g)' = SegCode(g)
  PROVE  /\ Placed' = Placed \cup {x} /\ place'[x] = v
         /\ CurAddr \in Nat /\ CurAddr' \in Nat /\ CurAddr <= CurAddr'
         /\ \A g \in Placed : /\ place'[g] = place[g] /\ Room(g)' = Room(g)
                             /\ Room(g)' \subseteq SdbAddr .. (CurAddr' - 1)
                             /\ HoldsAt(g)'
<1>1. Placed' = Placed \cup {x} /\ place'[x] = v /\ \A g \in Placed : place'[g] = place[g]
  <2>1. /\ DOMAIN Mapped(place, x, v) = DOMAIN place \cup {x} /\ Mapped(place, x, v)[x] = v
        /\ \A y \in DOMAIN place : y # x => Mapped(place, x, v)[y] = place[y]
    BY DEF Mapped
  <2> QED
    BY <2>1 DEF Placed
<1>2. CurAddr \in Nat /\ CurAddr' \in Nat /\ CurAddr <= CurAddr'
  BY LayoutAssumption DEF CurAddr, LaidOut, LayoutTypes
<1>3. ASSUME NEW g \in Placed
      PROVE  /\ Room(g)' = Room(g) /\ Room(g)' \subseteq SdbAddr .. (CurAddr' - 1)
             /\ HoldsAt(g)'
  <2>1. Room(g)' = Room(g)
    BY <1>1 DEF Room
  <2>2. Room(g) \subseteq SdbAddr .. (CurAddr - 1)
    BY DEF LaidOut, SegmentsApart
  <2>3. Room(g)' \subseteq SdbAddr .. (CurAddr' - 1)
    BY <2>1, <2>2, <1>2, LayoutAssumption
  <2>4. HoldsAt(g)
    BY HoldsOne DEF LaidOut
  <2>5. g \in DOMAIN Bytes /\ place[g] \in Nat
    BY DEF LaidOut, LayoutTypes
  <2>6. SUFFICES ASSUME NEW k \in DOMAIN Bytes[g]
                 PROVE  dseg'[place'[g] - SdbAddr + k] =
                          IF k \in DOMAIN SegCode(g) THEN place'[Key(SegCode(g)[k])] ELSE Bytes[g][k]
    BY <2>1, <2>3 DEF HoldsAt
  <2>7. k \in 1 .. Len(Bytes[g]) /\ Len(Bytes[g]) \in Nat
    BY <2>5, BytesAreSeq
  <2>8. place[g] + k - 1 \in Room(g)
    BY <2>5, <2>7 DEF Room
  <2>9. place[g] - SdbAddr + k \in DOMAIN dseg
    <3>1. place[g] + k - 1 \in SdbAddr .. (CurAddr - 1) /\ CurAddr = SdbAddr + Len(dseg)
      BY <2>2, <2>8 DEF CurAddr
    <3>2. SdbAddr \in Nat /\ Len(dseg) \in Nat /\ DOMAIN dseg = 1 .. Len(dseg)
      BY LayoutAssumption DEF LaidOut, LayoutTypes
    <3> QED
      BY <3>1, <3>2, <2>5, <2>7
  <2>10. dseg'[place'[g] - SdbAddr + k] = dseg[place[g] - SdbAddr + k]
    BY <1>1, <2>9
  <2>11. k \in DOMAIN SegCode(g) => place'[Key(SegCode(g)[k])] = place[Key(SegCode(g)[k])]
    BY <1>1 DEF LaidOut, RefsPlaced
  <2> QED
    BY <2>4, <2>10, <2>11 DEF HoldsAt
<1> QED
  BY <1>1, <1>2, <1>3

(* A segment is not placed before the loop comes to it. *)
LEMMA ThisIsNew == ASSUME LayInv, Placing PROVE G0 \notin Placed
<1> SUFFICES ASSUME G0 \in Placed PROVE FALSE
  OBVIOUS
<1>1. PICK n \in DOMAIN deps : n > Len(todo) /\ Key(deps[n]) = G0
  BY DEF LayInv, Backwards, Placing
<1>2. Len(todo) \in DOMAIN deps /\ G0 = Key(deps[Len(todo)])
  BY AtThis DEF Placing, G0
<1>3. n = Len(todo)
  BY <1>1, <1>2 DEF LayInv, Phases, Linked, MovedOnce, Placing
<1>4. Len(todo) \in Nat
  BY DEF LayInv, Backwards, Placing
<1> QED
  BY <1>1, <1>3, <1>4

(* What the loop over the segments does besides placing one. *)
LEMMA StepKeeps ==
  ASSUME LayInv, Placing, NEW p, Step(p), DOMAIN p \subseteq Placed \cup {G0}, LaidOut'
  PROVE  LayInv'
<1>1. /\ phase = "place" /\ phase' = "place" /\ todo' = Tail(todo) /\ place' = p
      /\ UNCHANGED <<pwb, deps, table, patched, layout>>
  BY DEF Placing, Step, loading, tracing
<1>2. Phases'
  BY <1>1, Steady DEF Phases, Linking
<1>3. Backwards'
  <2>1. /\ todo' \in Seq(Reference) /\ Len(todo') = Len(todo) - 1 /\ Len(todo) \in DOMAIN deps
        /\ \A k \in 1 .. Len(todo') : todo'[k] = deps[Len(todo') + 1 - k]
        /\ G0 = Key(deps[Len(todo)])
    BY <1>1, AtThis DEF Placing, G0
  <2>2. DOMAIN deps = 1 .. Len(deps) /\ Len(deps) \in Nat
    BY DEF LayInv, Phases, Linked, Placing
  <2>3. ASSUME NEW g \in Placed'
        PROVE  \E n \in DOMAIN deps : n > Len(todo') /\ Key(deps[n]) = g
    <3>1. CASE g = G0
      BY <2>1, <2>2, <3>1
    <3>2. CASE g \in Placed
      BY <2>1, <2>2, <3>2, <1>1 DEF LayInv, Backwards
    <3> QED
      BY <1>1, <2>3, <3>1, <3>2 DEF Placed
  <2>4. Len(todo') <= Len(deps)
    BY <2>1, <2>2
  <2> QED
    BY <1>1, <2>1, <2>3, <2>4 DEF Backwards, Key
<1>4. PatchInv' /\ MemoryLaidOut'
  BY <1>1 DEF LayInv, PatchInv, MemoryLaidOut, IsInjective
<1> QED
  BY <1>2, <1>3, <1>4 DEF LayInv

LEMMA SkipOtherKeeps == ASSUME LayInv, SkipOther PROVE LayInv'
<1>1. Placing /\ Step(place) /\ UNCHANGED <<shared, dseg>>
  BY DEF SkipOther
<1>2. UNCHANGED <<pwb, deps, place>> /\ phase = "place"
  BY <1>1 DEF Placing, Step, loading, tracing
<1>3. LaidOut'
  BY <1>1, <1>2, Steady, SameLayout DEF LayInv
<1> QED
  BY <1>1, <1>3, StepKeeps DEF Placed

(* A merged leaf is where its twin is, and its twin holds its bytes. *)
LEMMA MergeDataKeeps == ASSUME LayInv, MergeData PROVE LayInv'
<1>0. PICK s : s = G0
  OBVIOUS
<1>1. PICK t \in Twins(This) : Step(Mapped(place, s, place[t]))
  BY <1>0 DEF MergeData
<1>2. /\ Placing /\ This.iek = "data" /\ Leaf(This) /\ phase = "place"
      /\ UNCHANGED <<pwb, deps, shared, dseg>> /\ place' = Mapped(place, s, place[t])
  BY <1>1 DEF MergeData, Placing, Step, loading, tracing
<1>3. /\ s \in DOMAIN Bytes /\ SegCode(s) = << >> /\ s \in ReadOnly /\ s \notin Placed
      /\ \A g : SegCode(g)' = SegCode(g)
  BY <1>0, <1>2, AtThis, ThisIsNew, Steady DEF Placing, Leaf, G0
<1>4. /\ t \in Placed /\ t \in ReadOnly /\ SegCode(t) = << >> /\ Bytes[t] = Bytes[s]
      /\ Align[t] = Align[s] /\ place[t] \in Nat
  BY <1>0, <1>1 DEF Twins, LayInv, LaidOut, SharedAreLeaves, LayoutTypes, G0
<1>5. LaidOut /\ dseg \in Seq(Words)
  BY DEF LayInv, LaidOut, LayoutTypes
<1>6. /\ Placed' = Placed \cup {s} /\ place'[s] = place[t]
      /\ \A g \in Placed : /\ place'[g] = place[g] /\ Room(g)' = Room(g)
                          /\ Room(g)' \subseteq SdbAddr .. (CurAddr' - 1) /\ HoldsAt(g)'
  <2>1. Len(dseg) <= Len(dseg') /\ dseg' \in Seq(Words) /\ \A k \in DOMAIN dseg : dseg'[k] = dseg[k]
    BY <1>2, <1>5
  <2> HIDE DEF Mapped
  <2> QED
    BY <1>2, <1>3, <1>5, <2>1, OldStay
<1>7. LayoutTypes'
  BY <1>2, <1>3, <1>4, <1>5, <1>6 DEF LaidOut, LayoutTypes
<1>8. SharedAreLeaves' /\ RefsPlaced'
  BY <1>2, <1>3, <1>5, <1>6 DEF LaidOut, SharedAreLeaves, RefsPlaced
<1>9. Room(s)' = Room(t)
  BY <1>4, <1>6 DEF Room
<1>10. SegmentsApart'
  <2>1. ASSUME NEW g \in Placed', NEW h \in Placed' \ {g}
        PROVE  \/ Room(g)' \cap Room(h)' = {}
               \/ g \in ReadOnly /\ h \in ReadOnly /\ place'[g] = place'[h] /\ Bytes[g] = Bytes[h]
    <3> DEFINE Old(a, b) == \/ Room(a) \cap Room(b) = {}
                            \/ a \in ReadOnly /\ b \in ReadOnly /\ place[a] = place[b] /\ Bytes[a] = Bytes[b]
    <3>1. \A a \in Placed : \A b \in Placed \ {a} : Old(a, b)
      BY <1>5 DEF LaidOut, SegmentsApart
    <3>2. CASE g \in Placed /\ h \in Placed
      BY <3>1, <3>2, <1>6
    <3>3. CASE g = s
      <4>1. h \in Placed
        BY <1>6, <3>3
      <4>2. h = t \/ Old(t, h)
        BY <3>1, <1>4, <4>1
      <4> QED
        BY <1>3, <1>4, <1>6, <1>9, <3>3, <4>1, <4>2
    <3>4. CASE h = s
      <4>1. g \in Placed
        BY <1>6, <3>4
      <4>2. g = t \/ Old(g, t)
        BY <3>1, <1>4, <4>1
      <4> QED
        BY <1>3, <1>4, <1>6, <1>9, <3>4, <4>1, <4>2
    <3> QED
      BY <1>6, <3>2, <3>3, <3>4
  <2>2. ASSUME NEW g \in Placed'
        PROVE  place'[g] % Align[g] = 0 /\ Room(g)' \subseteq SdbAddr .. (CurAddr' - 1)
    <3>1. CASE g \in Placed
      BY <1>5, <1>6, <3>1 DEF LaidOut, SegmentsApart
    <3>2. CASE g = s
      BY <1>4, <1>5, <1>6, <1>9, <3>2 DEF LaidOut, SegmentsApart
    <3> QED
      BY <1>6, <3>1, <3>2
  <2> QED
    BY <2>1, <2>2 DEF SegmentsApart
<1>11. SegmentHoldsData'
  <2>1. HoldsAt(s)'
    <3>1. HoldsAt(t)
      BY <1>4, <1>5, HoldsOne DEF LaidOut
    <3> QED
      BY <1>2, <1>3, <1>4, <1>6, <3>1 DEF HoldsAt
  <2>2. \A g \in Placed' : HoldsAt(g)'
    BY <1>6, <2>1
  <2>3. (\A g \in Placed : HoldsAt(g))'
    BY <2>2
  <2> QED
    BY <2>3, HoldsOne, PTL
<1>12. LaidOut'
  BY <1>7, <1>8, <1>10, <1>11 DEF LaidOut
<1>13. DOMAIN Mapped(place, s, place[t]) = Placed \cup {s}
  BY <1>2, <1>6 DEF Placed
<1> QED
  BY <1>0, <1>1, <1>2, <1>12, <1>13, StepKeeps

(* A new segment begins at the first aligned address after the last one. *)
LEMMA PlaceDataKeeps == ASSUME LayInv, PlaceData PROVE LayInv'
<1>0. PICK s : s = G0
  OBVIOUS
<1> DEFINE addr == AlignUp(CurAddr, Align[s])
           fill == [k \in 1 .. (addr - CurAddr) |-> Pad]
           code == SegCode(s)
<1>1. /\ Placing /\ This.iek = "data" /\ ~Unplaced(This) /\ phase = "place"
      /\ dseg' = dseg \o fill \o Image(s) /\ Step(Mapped(place, s, addr))
      /\ shared' = IF Leaf(This) THEN shared \cup {s} ELSE shared
      /\ UNCHANGED <<pwb, deps>> /\ place' = Mapped(place, s, addr)
  BY <1>0 DEF PlaceData, Placing, Step, loading, tracing
<1>2. /\ s \in DOMAIN Bytes /\ Bytes[s] \in Seq(ToSet(Bytes[s])) /\ Align[s] \in Nat \ {0}
      /\ code = Code(This) /\ Code(Ref(s[1], s[2], "data")) = code /\ code \in Seq(Reference)
      /\ s \notin Placed /\ \A g : SegCode(g)' = SegCode(g)
  BY <1>0, <1>1, AtThis, ThisIsNew, Steady DEF Placing
<1>3. LaidOut /\ dseg \in Seq(Words) /\ CurAddr = SdbAddr + Len(dseg) /\ CurAddr \in Nat /\ SdbAddr \in Nat
  BY LayoutAssumption DEF LayInv, LaidOut, LayoutTypes, CurAddr
<1>4. /\ addr \in Nat /\ addr >= CurAddr /\ addr % Align[s] = 0
  <2>1. \A a \in Nat, n \in Nat \ {0} : /\ AlignUp(a, n) \in a .. (a + n - 1)
                                      /\ AlignUp(a, n) % n = 0
    BY AlignFacts
  <2>2. addr \in CurAddr .. (CurAddr + Align[s] - 1) /\ addr % Align[s] = 0
    BY <1>2, <1>3, <2>1
  <2> HIDE DEF addr
  <2> QED
    BY <1>2, <1>3, <2>2
<1> HIDE DEF addr
<1>5. \A k \in DOMAIN code : Key(code[k]) \in Placed
  BY <1>1, <1>2 DEF Unplaced, Placed
<1>6. /\ Len(Bytes[s]) \in Nat /\ DOMAIN Bytes[s] = 1 .. Len(Bytes[s])
  BY <1>2, BytesAreSeq
<1>7. /\ Image(s) = [k \in 1 .. Len(Bytes[s]) |->
                         IF k \in DOMAIN code THEN place[Key(code[k])] ELSE Bytes[s][k]]
  BY <1>2, <1>6 DEF Image
<1>8. Image(s) \in Seq(Words) /\ Len(Image(s)) = Len(Bytes[s])
      /\ \A k \in 1 .. Len(Bytes[s]) :
            Image(s)[k] = IF k \in DOMAIN code THEN place[Key(code[k])] ELSE Bytes[s][k]
  <2>1. ASSUME NEW k \in 1 .. Len(Bytes[s])
        PROVE  (IF k \in DOMAIN code THEN place[Key(code[k])] ELSE Bytes[s][k]) \in Words
    <3>1. k \in DOMAIN code => place[Key(code[k])] \in Nat
      BY <1>3, <1>5 DEF LaidOut, LayoutTypes
    <3>2. Bytes[s][k] \in ToSet(Bytes[s])
      BY <1>2
    <3>3. ToSet(Bytes[s]) \subseteq Words /\ Nat \subseteq Words
      BY <1>2 DEF Words
    <3> QED
      BY <3>1, <3>2, <3>3
  <2> QED
    BY <1>6, <1>7, <2>1
<1>9. fill \in Seq(Words) /\ Len(fill) = addr - CurAddr
  BY <1>3, <1>4 DEF Words
<1> HIDE DEF fill, code
<1>10. /\ dseg' \in Seq(Words) /\ Len(dseg') = (addr - SdbAddr) + Len(Bytes[s])
       /\ \A k \in DOMAIN dseg : dseg'[k] = dseg[k]
       /\ \A k \in 1 .. Len(Bytes[s]) : dseg'[(addr - SdbAddr) + k] = Image(s)[k]
  <2>1. dseg \o fill \in Seq(Words) /\ Len(dseg \o fill) = addr - SdbAddr
        /\ \A k \in DOMAIN dseg : k \in 1 .. Len(dseg \o fill) /\ (dseg \o fill)[k] = dseg[k]
    BY <1>3, <1>4, <1>9
  <2> DEFINE front == dseg \o fill
             img == Image(s)
  <2>2. front \in Seq(Words) /\ Len(front) = addr - SdbAddr /\ Len(front) \in Nat
        /\ \A k \in DOMAIN dseg : k \in 1 .. Len(front) /\ front[k] = dseg[k]
    BY <1>3, <1>4, <2>1
  <2>3. img \in Seq(Words) /\ Len(img) = Len(Bytes[s]) /\ dseg' = front \o img
    BY <1>1, <1>8
  <2> HIDE DEF front, img
  <2>4. /\ dseg' \in Seq(Words) /\ Len(dseg') = Len(front) + Len(img)
        /\ \A k \in 1 .. Len(front) : dseg'[k] = front[k]
        /\ \A k \in 1 .. Len(img) : dseg'[Len(front) + k] = img[k]
    BY <2>2, <2>3, ConcatFacts
  <2> QED
    BY <2>2, <2>3, <2>4 DEF img
<1>11. /\ Placed' = Placed \cup {s} /\ place'[s] = addr /\ CurAddr <= CurAddr'
       /\ CurAddr' \in Nat
       /\ \A g \in Placed : /\ place'[g] = place[g] /\ Room(g)' = Room(g)
                           /\ Room(g)' \subseteq SdbAddr .. (CurAddr' - 1) /\ HoldsAt(g)'
  <2>1. Len(dseg) <= Len(dseg')
    BY <1>3, <1>4, <1>6, <1>10
  <2> QED
    BY <1>1, <1>2, <1>3, <1>10, <2>1, OldStay
<1>12. LayoutTypes'
  BY <1>2, <1>3, <1>4, <1>10, <1>11 DEF LaidOut, LayoutTypes
<1>13. SharedAreLeaves'
  <2>1. Leaf(This) => s \in ReadOnly /\ SegCode(s) = << >>
    BY <1>0, <1>2 DEF Leaf, G0, code
  <2>2. SharedAreLeaves
    BY <1>3 DEF LaidOut
  <2> QED
    BY <1>1, <1>2, <1>11, <2>1, <2>2 DEF SharedAreLeaves
<1>14. RefsPlaced'
  BY <1>2, <1>3, <1>5, <1>11 DEF LaidOut, RefsPlaced, code
<1>15. CurAddr' = addr + Len(Bytes[s])
  BY <1>3, <1>4, <1>6, <1>10 DEF CurAddr
<1>16. Room(s)' = addr .. (addr + Len(Bytes[s]) - 1)
  BY <1>11 DEF Room
<1>17. SegmentsApart'
  <2>1. \A g \in Placed : Room(g)' \cap Room(s)' = {}
    <3>1. \A g \in Placed : Room(g)' \subseteq SdbAddr .. (CurAddr - 1)
      BY <1>3, <1>11 DEF LaidOut, SegmentsApart
    <3>2. (SdbAddr .. (CurAddr - 1)) \cap Room(s)' = {}
      BY <1>3, <1>4, <1>6, <1>16
    <3> QED
      BY <3>1, <3>2
  <2>2. ASSUME NEW g \in Placed', NEW h \in Placed' \ {g}
        PROVE  \/ Room(g)' \cap Room(h)' = {}
               \/ g \in ReadOnly /\ h \in ReadOnly /\ place'[g] = place'[h] /\ Bytes[g] = Bytes[h]
    <3>1. CASE g \in Placed /\ h \in Placed
      BY <1>3, <1>11, <3>1 DEF LaidOut, SegmentsApart
    <3>2. CASE g = s \/ h = s
      BY <1>11, <2>1, <3>2
    <3> QED
      BY <1>11, <3>1, <3>2
  <2>3. ASSUME NEW g \in Placed'
        PROVE  place'[g] % Align[g] = 0 /\ Room(g)' \subseteq SdbAddr .. (CurAddr' - 1)
    <3>1. CASE g \in Placed
      BY <1>3, <1>11, <3>1 DEF LaidOut, SegmentsApart
    <3>2. CASE g = s
      <4>1. Room(s)' \subseteq SdbAddr .. (CurAddr' - 1)
        BY <1>3, <1>4, <1>6, <1>15, <1>16
      <4> QED
        BY <1>4, <1>11, <3>2, <4>1
    <3> QED
      BY <1>11, <3>1, <3>2
  <2> QED
    BY <2>2, <2>3 DEF SegmentsApart
<1>18. SegmentHoldsData'
  <2>1. HoldsAt(s)'
    <3>1. \A k \in DOMAIN code : place'[Key(code[k])] = place[Key(code[k])]
      BY <1>5, <1>11
    <3>2. ASSUME NEW k \in DOMAIN Bytes[s]
          PROVE  dseg'[place'[s] - SdbAddr + k] =
                   IF k \in DOMAIN code THEN place'[Key(code[k])] ELSE Bytes[s][k]
      BY <1>6, <1>8, <1>10, <1>11, <3>1
    <3> QED
      BY <1>2, <3>2 DEF HoldsAt, code
  <2>2. \A g \in Placed' : HoldsAt(g)'
    BY <1>11, <2>1
  <2>3. (\A g \in Placed : HoldsAt(g))'
    BY <2>2
  <2> QED
    BY <2>3, HoldsOne, PTL
<1>19. LaidOut'
  BY <1>12, <1>13, <1>14, <1>17, <1>18 DEF LaidOut
<1>20. DOMAIN Mapped(place, s, addr) = Placed \cup {s}
  BY <1>1, <1>11 DEF Placed
<1> QED
  BY <1>0, <1>1, <1>19, <1>20, StepKeeps

(* "internal error: undefined ref in data", "cannot patch ref.data" *)
LEMMA RefFailsKeep == ASSUME LayInv, RefInDataFails \/ RefInCodeFails PROVE LayInv'
<1>1. /\ phase \in {"place", "patch"} /\ phase' = "error"
      /\ UNCHANGED <<pwb, deps, place, shared, dseg, table>>
  BY DEF RefInDataFails, RefInCodeFails, Placing, Patching, loading, tracing, wvars
<1>2. LaidOut'
  BY <1>1, Steady, SameLayout DEF LayInv
<1> QED
  BY <1>1, <1>2 DEF LayInv, Phases, Linking, Backwards, PatchInv, MemoryLaidOut, IsInjective

LEMMA EndPlaceKeeps == ASSUME LayInv, EndPlace PROVE LayInv'
<1>1. /\ phase = "place" /\ phase' = "patch" /\ todo' = Reverse(deps) /\ j' = 1
      /\ UNCHANGED <<pwb, deps, place, shared, dseg, table, patched, layout>>
  BY DEF EndPlace, loading
<1>2. Linked /\ Linked' /\ deps \in Seq(Reference)
  BY <1>1, Steady DEF Linked
<1>3. Phases'
  BY <1>1, <1>2 DEF Phases, Linking
<1>4. LaidOut'
  BY <1>1, Steady, SameLayout DEF LayInv
<1>5. Len(todo') = Len(deps) /\ Backwards'
  BY <1>1, <1>2, ReverseFacts DEF Backwards
<1>6. ASSUME NEW n, NEW k, Passed(n, k)' PROVE FALSE
  <2>1. n \in 1 .. Len(deps) /\ Len(deps) \in Nat /\ k \in DOMAIN Code(deps[n])'
    BY <1>1, <1>2, <1>6 DEF Passed
  <2>2. Code(deps[n])' = Code(deps[n]) /\ Code(deps[n]) \in Seq(Reference)
    BY <1>1, <1>2, <2>1, Steady, CodeIsSeq DEF Linked
  <2>3. k \in Nat \ {0}
    BY <2>1, <2>2
  <2> QED
    BY <1>1, <1>5, <1>6, <2>1, <2>3 DEF Passed
<1>7. PatchInv'
  <2>1. table = << >> /\ IsInjective(table)
    BY <1>1 DEF LayInv, PatchInv
  <2>2. IsInjective(table)' /\ TableOfTaken' /\ (table \in Seq(Keys))'
    BY <1>1, <2>1 DEF TableOfTaken, IsInjective
  <2> QED
    BY <1>1, <1>6, <2>2 DEF PatchInv
<1>8. MemoryLaidOut'
  BY <1>1 DEF MemoryLaidOut
<1> QED
  BY <1>3, <1>4, <1>5, <1>7, <1>8 DEF LayInv

-----------------------------------------------------------------------------
(* The table after one function more. *)
LEMMA EnteredFacts ==
  ASSUME table \in Seq(Keys), IsInjective(table), NEW g \in Keys, table' = Entered(table, g)
  PROVE  /\ table' \in Seq(Keys) /\ IsInjective(table')
         /\ \A v \in DOMAIN table : v \in DOMAIN table' /\ table'[v] = table[v]
         /\ \A v \in DOMAIN table' : table'[v] = g \/ (v \in DOMAIN table /\ table'[v] = table[v])
         /\ IndexIn(table', g) \in DOMAIN table' /\ table'[IndexIn(table', g)] = g
<1>1. CASE Contains(table, g)
  <2>1. table' = table /\ \E v \in DOMAIN table' : table'[v] = g
    BY <1>1 DEF Entered, Contains
  <2> QED
    BY <2>1 DEF IndexIn
<1>2. CASE ~Contains(table, g)
  <2>1. table' = Append(table, g) /\ \A v \in DOMAIN table : table[v] # g
    BY <1>2 DEF Entered, Contains
  <2>2. /\ table' \in Seq(Keys) /\ DOMAIN table' = 1 .. (Len(table) + 1) /\ DOMAIN table = 1 .. Len(table) /\ Len(table) \in Nat
        /\ table'[Len(table) + 1] = g /\ \A v \in 1 .. Len(table) : table'[v] = table[v]
    BY <2>1
  <2>3. IsInjective(table')
    BY <2>1, <2>2 DEF IsInjective
  <2>4. \E v \in DOMAIN table' : table'[v] = g
    BY <2>2
  <2> QED
    BY <2>2, <2>3, <2>4 DEF IndexIn
<1> QED
  BY <1>1, <1>2

(* What the patching loop leaves alone. *)
LEMMA PatchFrame ==
  ASSUME LayInv, phase = "patch", phase' = "patch",
         UNCHANGED <<pwb, deps, place, shared, dseg>>
  PROVE  Phases' /\ LaidOut' /\ MemoryLaidOut' /\ Linked /\ Linked'
<1>1. Linked /\ Linked' /\ LaidOut'
  BY Steady, SameLayout DEF LayInv
<1> QED
  BY <1>1 DEF Phases, Linking, MemoryLaidOut

(* One reference more has been looked at. *)
LEMMA OneMorePassed ==
  ASSUME LayInv, Patching, NextRef
  PROVE  /\ phase = "patch" /\ phase' = "patch" /\ UNCHANGED <<pwb, deps, place, shared, dseg, layout, todo>>
         /\ Phases' /\ LaidOut' /\ MemoryLaidOut' /\ Backwards' /\ Linked
         /\ \A n, k : Passed(n, k)' <=> Passed(n, k) \/ (n = Len(todo) /\ k = j)
         /\ ~Passed(Len(todo), j) /\ \A x : Code(x)' = Code(x)
         /\ \A n, k : Passed(n, k) => <<Key(deps[n]), k>> # <<G0, j>>
<1>1. /\ phase = "patch" /\ phase' = "patch" /\ j' = j + 1 /\ j \in Nat \ {0}
      /\ UNCHANGED <<pwb, deps, place, shared, dseg, layout, todo>>
  BY DEF Patching, NextRef, loading, LayInv, Backwards
<1>2. Phases' /\ LaidOut' /\ MemoryLaidOut' /\ Linked
  BY <1>1, PatchFrame
<1>3. Backwards'
  BY <1>1 DEF LayInv, Backwards
<1>4. /\ Len(todo) \in DOMAIN deps /\ This = deps[Len(todo)] /\ Len(todo) \in Nat
      /\ This.iek # "data" /\ j \in DOMAIN Code(This) /\ G0 = Key(deps[Len(todo)])
  BY <1>1, AtThis DEF Patching, LayInv, Backwards, G0
<1>5. \A x : Code(x)' = Code(x)
  BY <1>1, Steady
<1>6. ASSUME NEW n, NEW k PROVE Passed(n, k)' <=> Passed(n, k) \/ (n = Len(todo) /\ k = j)
  <2>1. CASE ~(n \in DOMAIN deps /\ deps[n].iek # "data" /\ k \in DOMAIN Code(deps[n]))
    BY <1>1, <1>4, <1>5, <2>1 DEF Passed
  <2>2. CASE n \in DOMAIN deps /\ deps[n].iek # "data" /\ k \in DOMAIN Code(deps[n])
    <3>1. k \in Nat
      <4>1. Code(deps[n]) \in Seq(Reference)
        BY <1>2, <2>2, CodeIsSeq DEF Linked
      <4> QED
        BY <2>2, <4>1
    <3>2. Passed(n, k)' <=> (n > Len(todo) \/ (n = Len(todo) /\ k < j + 1))
      BY <1>1, <1>5, <2>2 DEF Passed
    <3>3. Passed(n, k) <=> (n > Len(todo) \/ (n = Len(todo) /\ k < j))
      BY <2>2 DEF Passed
    <3>4. k < j + 1 <=> k < j \/ k = j
      BY <1>1, <3>1
    <3> QED
      BY <3>2, <3>3, <3>4, <1>4
  <2> QED
    BY <2>1, <2>2
<1>7. ~Passed(Len(todo), j)
  BY <1>1, <1>4 DEF Passed
<1>8. ASSUME NEW n, NEW k, Passed(n, k), <<Key(deps[n]), k>> = <<G0, j>> PROVE FALSE
  <2>1. Key(deps[n]) = Key(deps[Len(todo)]) /\ k = j /\ n \in DOMAIN deps
    BY <1>4, <1>8 DEF Passed
  <2>2. n = Len(todo)
    BY <1>2, <1>4, <2>1 DEF Linked, MovedOnce
  <2> QED
    BY <1>7, <1>8, <2>1, <2>2
<1> QED
  BY <1>1, <1>2, <1>3, <1>5, <1>6, <1>7, <1>8

(* An address is taken of a function only. *)
LEMMA TakenIsNoData ==
  ASSUME Linked, NEW n \in DOMAIN deps, NEW k \in TakenAt(deps[n])
  PROVE  k \notin DataAt(deps[n])
<1>1. Defines(deps[n])
  BY DEF Linked
<1>2. /\ Module(deps[n].mod) \in Modules /\ Key(deps[n]) \in DOMAIN Module(deps[n].mod).exports
  BY <1>1, FoundIsModule DEF Linked, Defines
<1>3. k \in DOMAIN Code(deps[n]) /\ <<Key(deps[n]), k>> \in AddressOf
  BY DEF TakenAt
<1>4. Code(deps[n])[k].iek = "func"
  BY <1>2, <1>3, LayoutAssumption DEF Code
<1> QED
  BY <1>4 DEF DataAt

(* What is looked at is a key. *)
LEMMA TargetIsKey == ASSUME LayInv, Patching PROVE Target \in Keys
<1>1. Code(This) \in Seq(Reference) /\ j \in DOMAIN Code(This)
  BY AtThis DEF Patching
<1> QED
  BY <1>1, KeyInKeys DEF Target

LEMMA PatchFuncKeeps == ASSUME LayInv, PatchFunc PROVE LayInv'
<1>1. Patching /\ NextRef /\ j \in TakenAt(This) /\ table' = Entered(table, Target)
      /\ patched' = Mapped(patched, <<G0, j>>, IndexIn(table', Target))
  BY DEF PatchFunc
<1>2. /\ phase = "patch" /\ phase' = "patch" /\ UNCHANGED <<pwb, deps, place, todo>>
      /\ Phases' /\ LaidOut' /\ MemoryLaidOut' /\ Backwards' /\ Linked
      /\ \A n, k : Passed(n, k)' <=> Passed(n, k) \/ (n = Len(todo) /\ k = j)
      /\ \A x : Code(x)' = Code(x)
      /\ \A n, k : Passed(n, k) => <<Key(deps[n]), k>> # <<G0, j>>
  BY <1>1, OneMorePassed
<1>3. Len(todo) \in DOMAIN deps /\ This = deps[Len(todo)] /\ G0 = Key(deps[Len(todo)])
  BY <1>1, AtThis DEF Patching, G0
<1>4. table \in Seq(Keys) /\ IsInjective(table) /\ Target \in Keys
  BY <1>1, <1>2, TargetIsKey DEF LayInv, PatchInv
<1>5. /\ table' \in Seq(Keys) /\ IsInjective(table')
      /\ \A v \in DOMAIN table : v \in DOMAIN table' /\ table'[v] = table[v]
      /\ \A v \in DOMAIN table' : table'[v] = Target \/ (v \in DOMAIN table /\ table'[v] = table[v])
      /\ IndexIn(table', Target) \in DOMAIN table' /\ table'[IndexIn(table', Target)] = Target
  BY <1>1, <1>4, EnteredFacts
<1>6. /\ DOMAIN patched' = DOMAIN patched \cup {<<G0, j>>}
      /\ patched'[<<G0, j>>] = IndexIn(table', Target)
      /\ \A y \in DOMAIN patched : y # <<G0, j>> => patched'[y] = patched[y]
  BY <1>1 DEF Mapped
<1>7. Target = Key(Code(deps[Len(todo)])[j]) /\ j \in TakenAt(deps[Len(todo)])
  BY <1>1, <1>3 DEF Target
<1>8. \A x : TakenAt(x)' = TakenAt(x) /\ DataAt(x)' = DataAt(x)
  BY <1>2 DEF TakenAt, DataAt
<1>9. TableOfTaken'
  <2>1. ASSUME NEW v \in DOMAIN table'
        PROVE  \E n, k : Passed(n, k)' /\ k \in TakenAt(deps[n]) /\ table'[v] = Key(Code(deps[n])[k])
    <3>1. CASE table'[v] = Target
      BY <1>2, <1>7, <3>1
    <3>2. CASE v \in DOMAIN table /\ table'[v] = table[v]
      BY <1>2, <3>2 DEF LayInv, PatchInv, TableOfTaken
    <3> QED
      BY <1>5, <3>1, <3>2
  <2> QED
    BY <1>2, <1>8, <2>1 DEF TableOfTaken
<1>10. ASSUME NEW n, NEW k, Passed(n, k)' PROVE PatchedRight(deps[n], k)'
  <2> DEFINE x == <<Key(deps[n]), k>>
  <2> SUFFICES /\ k \in DataAt(deps[n]) => x \in DOMAIN patched' /\ patched'[x] = place[Key(Code(deps[n])[k])]
               /\ k \in TakenAt(deps[n]) => /\ x \in DOMAIN patched' /\ patched'[x] \in DOMAIN table'
                                           /\ table'[patched'[x]] = Key(Code(deps[n])[k])
    BY <1>2, <1>8 DEF PatchedRight, Key
  <2>1. CASE n = Len(todo) /\ k = j
    <3>1. k \notin DataAt(deps[n])
      BY <1>2, <1>3, <1>7, <2>1, TakenIsNoData
    <3>2. x = <<G0, j>>
      BY <1>3, <2>1
    <3> QED
      BY <1>5, <1>6, <1>7, <2>1, <3>1, <3>2
  <2>2. CASE Passed(n, k)
    <3>1. PatchedRight(deps[n], k) /\ x # <<G0, j>>
      BY <1>2, <2>2 DEF LayInv, PatchInv
    <3> QED
      BY <1>5, <1>6, <3>1 DEF PatchedRight
  <2> QED
    BY <1>2, <1>10, <2>1, <2>2
<1>11. PatchInv'
  BY <1>2, <1>5, <1>9, <1>10 DEF PatchInv
<1> QED
  BY <1>2, <1>11 DEF LayInv

(* Data and calls: the table stays as it is. *)
LEMMA PassRefKeeps == ASSUME LayInv, PatchData \/ PassCall PROVE LayInv'
<1>1. Patching /\ NextRef /\ UNCHANGED table
  BY DEF PatchData, PassCall
<1>2. /\ phase = "patch" /\ phase' = "patch" /\ UNCHANGED <<pwb, deps, place, todo>>
      /\ Phases' /\ LaidOut' /\ MemoryLaidOut' /\ Backwards' /\ Linked
      /\ \A n, k : Passed(n, k)' <=> Passed(n, k) \/ (n = Len(todo) /\ k = j)
      /\ \A x : Code(x)' = Code(x)
      /\ \A n, k : Passed(n, k) => <<Key(deps[n]), k>> # <<G0, j>>
  BY <1>1, OneMorePassed DEF PatchData, PassCall
<1>3. Len(todo) \in DOMAIN deps /\ This = deps[Len(todo)] /\ G0 = Key(deps[Len(todo)])
  BY <1>2, AtThis DEF Patching, PatchData, PassCall, G0
<1>4. UNCHANGED table /\ Target = Key(Code(deps[Len(todo)])[j])
  BY <1>3 DEF PatchData, PassCall, Target
<1>5. j \notin TakenAt(deps[Len(todo)])
  BY <1>2, <1>3, TakenIsNoData DEF PatchData, PassCall
<1>6. /\ \A y \in DOMAIN patched : y # <<G0, j>> => y \in DOMAIN patched' /\ patched'[y] = patched[y]
      /\ j \in DataAt(This) => <<G0, j>> \in DOMAIN patched' /\ patched'[<<G0, j>>] = place[Target]
  BY DEF PatchData, PassCall, Mapped
<1>7. \A x : TakenAt(x)' = TakenAt(x) /\ DataAt(x)' = DataAt(x)
  BY <1>2 DEF TakenAt, DataAt
<1>8. TableOfTaken'
  BY <1>2, <1>4, <1>7 DEF TableOfTaken, LayInv, PatchInv
<1>9. ASSUME NEW n, NEW k, Passed(n, k)' PROVE PatchedRight(deps[n], k)'
  <2> DEFINE x == <<Key(deps[n]), k>>
  <2> SUFFICES /\ k \in DataAt(deps[n]) => x \in DOMAIN patched' /\ patched'[x] = place[Key(Code(deps[n])[k])]
               /\ k \in TakenAt(deps[n]) => /\ x \in DOMAIN patched' /\ patched'[x] \in DOMAIN table
                                           /\ table[patched'[x]] = Key(Code(deps[n])[k])
    BY <1>2, <1>4, <1>7 DEF PatchedRight, Key
  <2>1. CASE n = Len(todo) /\ k = j
    BY <1>3, <1>4, <1>5, <1>6, <2>1
  <2>2. CASE Passed(n, k)
    <3>1. PatchedRight(deps[n], k) /\ x # <<G0, j>>
      BY <1>2, <2>2 DEF LayInv, PatchInv
    <3> QED
      BY <1>6, <3>1 DEF PatchedRight
  <2> QED
    BY <1>2, <1>9, <2>1, <2>2
<1>10. PatchInv'
  BY <1>2, <1>4, <1>8, <1>9 DEF LayInv, PatchInv, IsInjective
<1> QED
  BY <1>2, <1>10 DEF LayInv

(* What was looked at stays patched when only the loop moves on.           *)
LEMMA PatchInvStays ==
  ASSUME LayInv, phase = "patch", phase' \in {"patch", "done"},
         UNCHANGED <<pwb, deps, place, table, patched>>,
         \A n, k : Passed(n, k)' <=> Passed(n, k)
  PROVE  PatchInv'
<1>1. \A x : Code(x)' = Code(x)
  BY Steady
<1>2. \A x : TakenAt(x)' = TakenAt(x) /\ DataAt(x)' = DataAt(x)
  BY <1>1 DEF TakenAt, DataAt
<1>3. TableOfTaken'
  BY <1>1, <1>2 DEF TableOfTaken, LayInv, PatchInv
<1>4. \A n, k : PatchedRight(deps[n], k)' <=> PatchedRight(deps[n], k)
  BY <1>1, <1>2 DEF PatchedRight, Key
<1> QED
  BY <1>3, <1>4 DEF LayInv, PatchInv, IsInjective

LEMMA NextExportKeeps == ASSUME LayInv, NextExport PROVE LayInv'
<1>1. /\ phase = "patch" /\ phase' = "patch" /\ todo # << >> /\ todo' = Tail(todo) /\ j' = 1
      /\ UNCHANGED <<pwb, deps, place, shared, dseg, table, patched, layout>>
      /\ This.iek = "data" \/ j \notin DOMAIN Code(This)
  BY DEF NextExport, loading
<1>2. Phases' /\ LaidOut' /\ MemoryLaidOut' /\ Linked
  BY <1>1, PatchFrame
<1>3. /\ Len(todo) \in DOMAIN deps /\ This = deps[Len(todo)] /\ Code(This) \in Seq(Reference)
      /\ todo' \in Seq(Reference) /\ Len(todo') = Len(todo) - 1
      /\ \A k \in 1 .. Len(todo') : todo'[k] = deps[Len(todo') + 1 - k]
      /\ Len(todo) \in Nat /\ Len(todo) <= Len(deps) /\ j \in Nat \ {0} /\ Len(deps) \in Nat
  BY <1>1, <1>2, AtThis DEF LayInv, Backwards, Linked
<1>4. Backwards'
  BY <1>1, <1>3 DEF Backwards
<1>5. ASSUME NEW n, NEW k PROVE Passed(n, k)' <=> Passed(n, k)
  <2>1. Code(deps[n])' = Code(deps[n])
    BY <1>1, Steady
  <2>2. CASE n \in DOMAIN deps /\ deps[n].iek # "data" /\ k \in DOMAIN Code(deps[n])
    <3>1. k \in Nat \ {0}
      <4>1. Code(deps[n]) \in Seq(Reference)
        BY <1>2, <2>2, CodeIsSeq DEF Linked
      <4> QED
        BY <2>2, <4>1
    <3>2. n \in Nat
      BY <1>2, <2>2 DEF Linked
    <3>3. n = Len(todo) => k < j
      BY <1>1, <1>3, <2>2, <3>1
    <3>4. Passed(n, k)' <=> (n > Len(todo) - 1 \/ (n = Len(todo) - 1 /\ k < 1))
      BY <1>1, <1>3, <2>1, <2>2 DEF Passed
    <3>5. Passed(n, k) <=> (n > Len(todo) \/ (n = Len(todo) /\ k < j))
      BY <2>2 DEF Passed
    <3> QED
      BY <1>3, <3>1, <3>2, <3>3, <3>4, <3>5
  <2> QED
    BY <1>1, <2>1, <2>2 DEF Passed
<1>6. PatchInv'
  BY <1>1, <1>5, PatchInvStays
<1> QED
  BY <1>2, <1>4, <1>6 DEF LayInv

LEMMA FinalizeKeeps == ASSUME LayInv, Finalize PROVE LayInv'
<1> DEFINE sp == AlignUp(CurAddr + StackSz, StackAlign)
           hb == AlignUp(sp + ArgvSz, StackAlign)
           top == AlignUp(hb, Page)
<1>1. /\ phase = "patch" /\ phase' = "done" /\ todo = << >>
      /\ layout' = [sp |-> sp, hb |-> hb, pages |-> top \div Page]
      /\ UNCHANGED <<pwb, deps, j, place, shared, dseg, table, patched, todo>>
  BY DEF Finalize, loading, tracing
<1>2. Linked' /\ LaidOut'
  BY <1>1, Steady, SameLayout DEF LayInv
<1>3. Phases' /\ Backwards'
  BY <1>1, <1>2 DEF Phases, Linking, Backwards, LayInv
<1>4. PatchInv'
  <2>1. \A n, k : Passed(n, k)' <=> Passed(n, k)
    BY <1>1, Steady DEF Passed
  <2> QED
    BY <1>1, <2>1, PatchInvStays
<1>5. MemoryLaidOut'
  <2>1. /\ \A a \in Nat, n \in Nat \ {0} : /\ AlignUp(a, n) \in a .. (a + n - 1)
                                        /\ AlignUp(a, n) % n = 0
    BY AlignFacts
  <2>2. CurAddr \in Nat /\ StackSz \in Nat /\ ArgvSz \in Nat /\ StackAlign \in Nat \ {0} /\ Page \in Nat \ {0}
    BY LayoutAssumption DEF LayInv, LaidOut, LayoutTypes, CurAddr
  <2>3. sp \in Nat /\ sp >= CurAddr + StackSz /\ sp % StackAlign = 0
    <3> DEFINE a == CurAddr + StackSz
    <3>1. a \in Nat
      BY <2>2
    <3> HIDE DEF a
    <3>2. AlignUp(a, StackAlign) \in a .. (a + StackAlign - 1) /\ AlignUp(a, StackAlign) % StackAlign = 0
      BY <2>1, <2>2, <3>1
    <3>3. AlignUp(a, StackAlign) \in Nat /\ AlignUp(a, StackAlign) >= a
      BY <2>2, <3>1, <3>2
    <3> QED
      BY <3>2, <3>3 DEF a
  <2> HIDE DEF sp
  <2>4. hb \in Nat /\ hb >= sp + ArgvSz /\ hb % StackAlign = 0
    <3> DEFINE a == sp + ArgvSz
    <3>1. a \in Nat
      BY <2>2, <2>3
    <3> HIDE DEF a
    <3>2. AlignUp(a, StackAlign) \in a .. (a + StackAlign - 1) /\ AlignUp(a, StackAlign) % StackAlign = 0
      BY <2>1, <2>2, <3>1
    <3>3. AlignUp(a, StackAlign) \in Nat /\ AlignUp(a, StackAlign) >= a
      BY <2>2, <3>1, <3>2
    <3> QED
      BY <3>2, <3>3 DEF a
  <2> HIDE DEF hb
  <2>5. top \in hb .. (hb + Page - 1) /\ top % Page = 0
    BY <2>1, <2>2, <2>4
  <2> HIDE DEF top
  <2>6. (top \div Page) * Page = top
    BY <2>2, <2>4, <2>5
  <2>7. layout'.sp = sp /\ layout'.hb = hb /\ layout'.pages = top \div Page
    BY <1>1
  <2>8. CurAddr' = CurAddr
    BY <1>1 DEF CurAddr
  <2> QED
    BY <2>3, <2>4, <2>5, <2>6, <2>7, <2>8 DEF MemoryLaidOut
<1> QED
  BY <1>2, <1>3, <1>4, <1>5 DEF LayInv

LEMMA StutterKeeps == ASSUME LayInv, UNCHANGED allvars PROVE LayInv'
<1> USE DEF allvars, vars, loading, tracing, wvars
<1>1. \A x : Code(x)' = Code(x) /\ Defines(x)' = Defines(x)
  BY SameModules
<1>2. \A g : SegCode(g)' = SegCode(g)
  BY <1>1 DEF SegCode
<1>3. LaidOut'
  BY <1>2, SameLayout DEF LayInv
<1>4. Phases'
  <2>1. Linking => IInv' /\ Unlaid'
    BY NextKeeps DEF LayInv, Phases, Unlaid
  <2>2. phase \in {"place", "patch", "done"} => Linked'
    BY <1>1 DEF LayInv, Phases, Linked, MovedOnce
  <2> QED
    BY <2>1, <2>2 DEF LayInv, Phases, Linking
<1>5. \A n, k : Passed(n, k)' <=> Passed(n, k)
  BY <1>1 DEF Passed
<1>6. \A x : TakenAt(x)' = TakenAt(x) /\ DataAt(x)' = DataAt(x)
  BY <1>1 DEF TakenAt, DataAt
<1>7. \A n, k : PatchedRight(deps[n], k)' <=> PatchedRight(deps[n], k)
  BY <1>1, <1>6 DEF PatchedRight, Key
<1>8. PatchInv'
  <2>1. TableOfTaken => TableOfTaken'
    BY <1>1, <1>5, <1>6 DEF TableOfTaken
  <2>2. PatchInv
    BY DEF LayInv
  <2>3. IsInjective(table)' /\ (phase = "place" => table = << >>)'
    BY <2>2 DEF PatchInv, IsInjective
  <2>4. phase \in {"patch", "done"} => \A n, k : Passed(n, k)' => PatchedRight(deps[n], k)'
    BY <1>5, <1>7, <2>2 DEF PatchInv
  <2> QED
    BY <2>1, <2>2, <2>3, <2>4 DEF PatchInv
<1>9. Backwards' /\ MemoryLaidOut'
  BY DEF LayInv, Backwards, Placed, Key, MemoryLaidOut, CurAddr
<1> QED
  BY <1>3, <1>4, <1>8, <1>9 DEF LayInv

LEMMA WNextKeeps == LayInv /\ [WNext]_allvars => LayInv'
<1> SUFFICES ASSUME LayInv, [WNext]_allvars PROVE LayInv'
  OBVIOUS
<1>1. CASE LinkStep
  BY <1>1, LinkStepKeeps
<1>2. CASE BeginPlace
  BY <1>2, BeginPlaceKeeps
<1>3. CASE SkipOther
  BY <1>3, SkipOtherKeeps
<1>4. CASE MergeData
  BY <1>4, MergeDataKeeps
<1>5. CASE PlaceData
  BY <1>5, PlaceDataKeeps
<1>6. CASE RefInDataFails \/ RefInCodeFails
  BY <1>6, RefFailsKeep
<1>7. CASE EndPlace
  BY <1>7, EndPlaceKeeps
<1>8. CASE PatchFunc
  BY <1>8, PatchFuncKeeps
<1>9. CASE PatchData \/ PassCall
  BY <1>9, PassRefKeeps
<1>10. CASE NextExport
  BY <1>10, NextExportKeeps
<1>11. CASE Finalize
  BY <1>11, FinalizeKeeps
<1>12. CASE UNCHANGED allvars
  BY <1>12, StutterKeeps
<1> QED
  BY <1>1, <1>2, <1>3, <1>4, <1>5, <1>6, <1>7, <1>8, <1>9, <1>10, <1>11, <1>12 DEF WNext

(* The linker and the layout are always as LayInv describes them. *)
THEOREM LayoutInvariance == WSpec => []LayInv
BY WInitHolds, WNextKeeps, PTL DEF WSpec

(* Segments lie apart, aligned, with their content where their addresses   *)
(* say, and stack, heap and memory lie after them.                         *)
THEOREM DividesMemory == WSpec => []MemoryDivided
<1>1. LayInv => MemoryDivided
  BY DEF LayInv, LaidOut, MemoryDivided
<1> QED
  BY <1>1, LayoutInvariance, PTL

(* What code refers to is at the addresses and indices patched into it,    *)
(* and the table holds the functions whose address is taken, once each.    *)
THEOREM AddressesLeadThere == WSpec => []AddressesLead
<1>1. LayInv => AddressesLead
  <2> SUFFICES ASSUME LayInv PROVE CodePatched /\ TableExact
    BY DEF AddressesLead
  <2>1. ASSUME phase = "done", NEW n \in DOMAIN deps, deps[n].iek # "data", NEW k \in DOMAIN Code(deps[n])
        PROVE  Passed(n, k) /\ PatchedRight(deps[n], k)
    <3>1. Len(todo) = 0 /\ n > 0
      BY <2>1 DEF LayInv, Phases, Linked, Backwards
    <3> QED
      BY <2>1, <3>1 DEF Passed, LayInv, PatchInv
  <2>2. CodePatched
    BY <2>1 DEF CodePatched, PatchedRight, DataAt, TakenAt
  <2>3. ASSUME phase = "done"
        PROVE  ToSet(table) = UNION {{Key(Code(r)[k]) : k \in TakenAt(r)} :
                                       r \in {x \in ToSet(deps) : x.iek # "data"}}
    <3> DEFINE R == {x \in ToSet(deps) : x.iek # "data"}
    <3>1. ASSUME NEW g \in ToSet(table) PROVE \E r \in R : \E k \in TakenAt(r) : g = Key(Code(r)[k])
      <4>1. PICK v \in DOMAIN table : table[v] = g
        BY DEF ToSet
      <4>2. PICK n, k : Passed(n, k) /\ k \in TakenAt(deps[n]) /\ table[v] = Key(Code(deps[n])[k])
        BY <2>3, <4>1 DEF LayInv, PatchInv, TableOfTaken
      <4>3. deps[n] \in R
        BY <4>2 DEF Passed, ToSet
      <4> QED
        BY <4>1, <4>2, <4>3
    <3>2. ASSUME NEW r \in R, NEW k \in TakenAt(r) PROVE Key(Code(r)[k]) \in ToSet(table)
      <4>1. PICK n \in DOMAIN deps : deps[n] = r
        BY DEF ToSet
      <4>2. PatchedRight(deps[n], k)
        BY <2>1, <2>3, <4>1 DEF TakenAt
      <4> QED
        BY <4>1, <4>2 DEF PatchedRight, ToSet
    <3> HIDE DEF R
    <3>3. ToSet(table) = UNION {{Key(Code(r)[k]) : k \in TakenAt(r)} : r \in R}
      BY <3>1, <3>2
    <3> QED
      BY <3>3 DEF R
  <2>4. TableExact
    BY <2>3 DEF TableExact, LayInv, PatchInv
  <2> QED
    BY <2>2, <2>4
<1> QED
  BY <1>1, LayoutInvariance, PTL
=============================================================================
