------------------------------- MODULE Watify -------------------------------
(***************************************************************************)
(* watify_wat_module and finalize_wat_module of w.c, run on the output of  *)
(* Linker: data segments are laid out and patched, equal read-only ones    *)
(* are shared, references to data and functions in code become addresses   *)
(* and table indices, and stack, heap and memory are placed after the      *)
(* data.  Memory is counted in words of 4 bytes.                           *)
(***************************************************************************)
EXTENDS Linker, SequencesExt

CONSTANTS
  Bytes,       \* data segment -> its words before patching
  Align,       \* data segment -> alignment in words
  ReadOnly,    \* the data segments declared const
  AddressOf,   \* <<global, k>>: its k-th reference is an IN_REF_FUNC
  SdbAddr, StackSz, ArgvSz,   \* g_sdbaddr, g_stacksz, g_argvbsz
  StackAlign, Page,           \* 16 bytes, 64K
  Pad          \* the words between segments

ASSUME LayoutAssumption ==
  /\ SdbAddr \in Nat /\ StackSz \in Nat /\ ArgvSz \in Nat
  /\ StackAlign \in Nat \ {0} /\ Page \in Nat \ {0} /\ Page % StackAlign = 0
  /\ DOMAIN Align = DOMAIN Bytes
  /\ \A g \in DOMAIN Bytes : Align[g] \in Nat \ {0} /\ Bytes[g] \in Seq(ToSet(Bytes[g]))
  /\ \A m \in Modules : \A g \in DOMAIN m.exports :
       /\ m.exports[g].kind = "data" => g \in DOMAIN Bytes
       /\ \A k \in DOMAIN m.exports[g].refs :
            <<g, k>> \in AddressOf => m.exports[g].refs[k].iek = "func"

VARIABLES
  todo,        \* the exports not yet gone through, in the loop's order
  place,       \* dpmap: data segment -> address
  shared,      \* dsmap: the segments others may be merged with
  dseg,        \* the combined segment
  table,       \* the function table after element 0
  patched,     \* <<global, reference>> -> the constant put in its place
  layout       \* what finalize_wat_module sets: sp, hb and pages

wvars == <<todo, place, shared, dseg, table, patched, layout>>
allvars == <<vars, wvars>>

WInit ==
  /\ Init
  /\ todo = << >> /\ place = << >> /\ shared = {} /\ dseg = << >>
  /\ table = << >> /\ patched = << >>
  /\ layout = [sp |-> 0, hb |-> 0, pages |-> 0]

LinkStep == Next /\ UNCHANGED wvars

(* "reverse exports so leafs are processed before non-leafs" *)
BeginPlace ==
  /\ phase = "linked"
  /\ phase' = "place"
  /\ todo' = Reverse(deps)
  /\ UNCHANGED <<i, loading, tracing, place, shared, dseg, table, patched, layout>>

CurAddr == SdbAddr + Len(dseg)

AlignUp(a, n) == IF a % n = 0 THEN a ELSE a + (n - (a % n))

(* A map with one entry more. *)
Mapped(f, x, v) == [y \in DOMAIN f \cup {x} |-> IF y = x THEN v ELSE f[y]]

Placing == phase = "place" /\ todo # << >>
This == Head(todo)
G0 == Key(This)

Step(p) ==
  /\ todo' = Tail(todo)
  /\ place' = p
  /\ UNCHANGED <<phase, i, loading, tracing, table, patched, layout>>

SkipOther ==
  /\ Placing /\ This.iek # "data"
  /\ Step(place) /\ UNCHANGED <<shared, dseg>>

Leaf(r) == Key(r) \in ReadOnly /\ Code(r) = << >>

Twins(r) == {g \in shared : Bytes[g] = Bytes[Key(r)] /\ Align[g] = Align[Key(r)]}

(* A read-only leaf equal to one placed before takes that one's address.   *)
MergeData ==
  /\ Placing /\ This.iek = "data" /\ Leaf(This)
  /\ \E g \in Twins(This) : Step(Mapped(place, G0, place[g]))
  /\ UNCHANGED <<shared, dseg>>

(* Mutant of the next: patches are addresses within the combined segment.  *)
Image_Relative(g) ==
  LET code == Code(Ref(g[1], g[2], "data"))
  IN  [k \in DOMAIN Bytes[g] |->
         IF k \in DOMAIN code THEN place[Key(code[k])] - SdbAddr ELSE Bytes[g][k]]

(* The k-th reference of a segment is patched into its k-th word.          *)
Image(g) ==
  LET code == Code(Ref(g[1], g[2], "data"))
  IN  [k \in DOMAIN Bytes[g] |->
         IF k \in DOMAIN code THEN place[Key(code[k])] ELSE Bytes[g][k]]

Unplaced(r) == \E k \in DOMAIN Code(r) : Key(Code(r)[k]) \notin DOMAIN place

PlaceData ==
  /\ Placing /\ This.iek = "data"
  /\ Leaf(This) => Twins(This) = {}
  /\ ~Unplaced(This)
  /\ LET addr == AlignUp(CurAddr, Align[G0])
         fill == [k \in 1 .. (addr - CurAddr) |-> Pad]
     IN  /\ dseg' = dseg \o fill \o Image(G0)
         /\ Step(Mapped(place, G0, addr))
  /\ shared' = IF Leaf(This) THEN shared \cup {G0} ELSE shared

(* "internal error: undefined ref in data" *)
RefInDataFails ==
  /\ Placing /\ This.iek = "data" /\ Unplaced(This)
  /\ phase' = "error"
  /\ UNCHANGED <<i, loading, tracing, wvars>>

EndPlace ==
  /\ phase = "place" /\ todo = << >>
  /\ phase' = "patch"
  /\ todo' = Reverse(deps) /\ j' = 1
  /\ UNCHANGED <<i, loading, deps, out, imps, place, shared, dseg, table, patched, layout>>

-----------------------------------------------------------------------------
(* The references the patching loop replaces: to data, and to functions    *)
(* whose address is taken.                                                 *)
TakenAt(r) == {k \in DOMAIN Code(r) : <<Key(r), k>> \in AddressOf}

DataAt(r) == {k \in DOMAIN Code(r) : Code(r)[k].iek = "data"}

(* The export the patching loop is at, and the j-th reference in its code. *)
Patching ==
  /\ phase = "patch" /\ todo # << >>
  /\ This.iek # "data" /\ j \in DOMAIN Code(This)

Target == Key(Code(This)[j])

NextRef == j' = j + 1 /\ UNCHANGED <<phase, i, loading, deps, out, imps, todo, place, shared, dseg, layout>>

(* A function whose address is taken enters the table unless it is there.  *)
Entered(t, g) == IF Contains(t, g) THEN t ELSE Append(t, g)

(* Mutant: indices start at 0, the element of the null pointer. *)
IndexIn_FromZero(t, g) == (CHOOSE k \in DOMAIN t : t[k] = g) - 1

IndexIn(t, g) == CHOOSE k \in DOMAIN t : t[k] = g

(* A reference to a function becomes its index in the table, from 1.       *)
PatchFunc ==
  /\ Patching /\ j \in TakenAt(This)
  /\ table' = Entered(table, Target)
  /\ patched' = Mapped(patched, <<G0, j>>, IndexIn(table', Target))
  /\ NextRef

(* A reference to data becomes the address of its segment.                 *)
PatchData ==
  /\ Patching /\ j \in DataAt(This) /\ Target \in DOMAIN place
  /\ patched' = Mapped(patched, <<G0, j>>, place[Target])
  /\ NextRef /\ UNCHANGED table

(* "internal error: cannot patch ref.data"                                 *)
RefInCodeFails ==
  /\ Patching /\ j \in DataAt(This) /\ Target \notin DOMAIN place
  /\ phase' = "error"
  /\ UNCHANGED <<i, loading, tracing, wvars>>

(* A call is left alone. *)
PassCall ==
  /\ Patching /\ j \notin TakenAt(This) \cup DataAt(This)
  /\ NextRef /\ UNCHANGED <<table, patched>>

(* The next export; the data segments are no longer among them.            *)
NextExport ==
  /\ phase = "patch" /\ todo # << >>
  /\ This.iek = "data" \/ j \notin DOMAIN Code(This)
  /\ todo' = Tail(todo) /\ j' = 1
  /\ UNCHANGED <<phase, i, loading, deps, out, imps, place, shared, dseg, table, patched, layout>>

(* finalize_wat_module *)
Finalize ==
  /\ phase = "patch" /\ todo = << >>
  /\ LET sp == AlignUp(CurAddr + StackSz, StackAlign)
         hb == AlignUp(sp + ArgvSz, StackAlign)
     IN  layout' = [sp |-> sp, hb |-> hb, pages |-> AlignUp(hb, Page) \div Page]
  /\ phase' = "done"
  /\ UNCHANGED <<i, loading, tracing, todo, place, shared, dseg, table, patched>>

WNext ==
  \/ LinkStep \/ BeginPlace
  \/ SkipOther \/ MergeData \/ PlaceData \/ RefInDataFails \/ EndPlace
  \/ PatchFunc \/ PatchData \/ RefInCodeFails \/ PassCall \/ NextExport
  \/ Finalize

(* The linker is one thread that runs until it is done. *)
WSpec == WInit /\ [][WNext]_allvars /\ WF_allvars(WNext)
-----------------------------------------------------------------------------
Placed == DOMAIN place

Room(g) == place[g] .. (place[g] + Len(Bytes[g]) - 1)

(* Every segment placed is aligned and apart from the others, unless the   *)
(* two are equal read-only leaves, which have one address.                 *)
SegmentsApart ==
  \A g \in Placed :
    /\ place[g] % Align[g] = 0
    /\ Room(g) \subseteq SdbAddr .. (CurAddr - 1)
    /\ \A h \in Placed \ {g} :
         \/ Room(g) \cap Room(h) = {}
         \/ g \in ReadOnly /\ h \in ReadOnly /\ place[g] = place[h] /\ Bytes[g] = Bytes[h]

(* The addresses given out agree with the bytes written to the combined    *)
(* segment: what is found at the address of a segment is its content, with *)
(* the addresses of the segments it refers to -- merged ones included.     *)
SegmentHoldsData ==
  \A g \in Placed : \A k \in DOMAIN Bytes[g] :
    LET code == Code(Ref(g[1], g[2], "data"))
    IN  dseg[place[g] - SdbAddr + k] = IF k \in DOMAIN code THEN place[Key(code[k])]
                                                           ELSE Bytes[g][k]

(* At the end every data reference in code is the address of its segment   *)
(* and every function whose address is taken has one index, not 0, that    *)
(* calls it through the table.                                             *)
CodePatched ==
  phase = "done" =>
    \A n \in DOMAIN deps :
      LET r == deps[n]
      IN  r.iek # "data" =>
            /\ \A k \in DataAt(r) : patched[<<Key(r), k>>] = place[Key(Code(r)[k])]
            /\ \A k \in TakenAt(r) :
                 LET v == patched[<<Key(r), k>>]
                 IN  v \in DOMAIN table /\ table[v] = Key(Code(r)[k])

TableExact ==
  /\ IsInjective(table)
  /\ phase = "done" =>
       ToSet(table) = UNION {{Key(Code(r)[k]) : k \in TakenAt(r)} :
                               r \in {x \in ToSet(deps) : x.iek # "data"}}

(* Code gets the addresses and indices that lead to what it refers to, and *)
(* the table holds what is referred to, once.                              *)
AddressesLead == CodePatched /\ TableExact

(* Data, stack and argument buffer lie one after the other in the memory   *)
(* the module starts with; stack and heap begin on an aligned address.     *)
MemoryLaidOut ==
  phase = "done" =>
    /\ layout.sp >= CurAddr + StackSz /\ layout.sp % StackAlign = 0
    /\ layout.hb >= layout.sp + ArgvSz /\ layout.hb % StackAlign = 0
    /\ layout.pages * Page \in layout.hb .. (layout.hb + Page - 1)

(* Memory is divided among segments, stack and heap, and what is laid out  *)
(* is found where it was put.                                              *)
MemoryDivided == SegmentsApart /\ SegmentHoldsData /\ MemoryLaidOut

(* The link comes to an end, by an error or with a module to write. *)
LinkEnds == <>(phase \in {"done", "error"})

-----------------------------------------------------------------------------
(* w.c's comment: "reverse exports so leafs are processed before non-      *)
(* leafs".  A segment is reached when those it refers to are placed.       *)
LeafsFirst == Placing /\ This.iek = "data" => ~Unplaced(This)
=============================================================================
