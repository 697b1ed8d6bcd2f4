-------------------------- MODULE Conditional_proofs --------------------------
(***************************************************************************)
(* Conditional compilation of files of every length and nesting: the       *)
(* parser's one level counter and the two variables of its skipping loop   *)
(* do what the standard's stack of blocks does.                            *)
(***************************************************************************)
EXTENDS Conditional, TLAPS, SequenceTheorems, WellFoundedInduction

(* A set of numbers has a least one; with it, induction. *)
LEMMA LeastNumber ==
  ASSUME NEW T \in SUBSET Nat, T # {}
  PROVE  \E m \in T : \A k \in T : m <= k
<1>1. \E m \in T : \A k \in T : <<k, m>> \notin OpToRel(<, Nat)
  BY WFMin, NatLessThanWellFounded
<1>2. \A k, m \in Nat : <<k, m>> \notin OpToRel(<, Nat) => m <= k
  BY DEF OpToRel
<1> QED BY <1>1, <1>2

(* A set of numbers with 0 and all successors holds every number. *)
LEMMA Induction ==
  ASSUME NEW T \in SUBSET Nat, 0 \in T, \A m \in T : m + 1 \in T
  PROVE  \A m \in Nat : m \in T
<1> SUFFICES ASSUME Nat \ T # {} PROVE FALSE
  OBVIOUS
<1>1. PICK m \in Nat \ T : \A k \in Nat \ T : m <= k
  BY LeastNumber
<1>2. m # 0 /\ m - 1 \in Nat /\ m - 1 \in T
  BY <1>1
<1> QED BY <1>1, <1>2

-----------------------------------------------------------------------------
(* The standard's judgement is defined, line by line. *)
Start == [ok |-> TRUE, stack |-> << >>, kept |-> {}]
Judges(lines, g, m) ==
  DOMAIN g = 0 .. m /\ g[0] = Start /\ \A k \in 1 .. m : g[k] = C90(lines, g[k - 1], k)
Beginning(lines, m) == CHOOSE g : Judges(lines, g, m)

(* Each beginning of the sequence of judgements exists. *)
LEMMA BeginningExists ==
  ASSUME NEW lines PROVE \A m \in Nat : Judges(lines, Beginning(lines, m), m)
<1> DEFINE T == {m \in Nat : \E g : Judges(lines, g, m)}
<1>1. 0 \in T
  <2> DEFINE g == [k \in 0 .. 0 |-> Start]
  <2>1. Judges(lines, g, 0)
    BY DEF Judges
  <2> QED BY <2>1
<1>2. ASSUME NEW m \in T PROVE m + 1 \in T
  <2>1. PICK g : Judges(lines, g, m)
    OBVIOUS
  <2> DEFINE h == [k \in 0 .. m + 1 |-> IF k = m + 1 THEN C90(lines, g[m], m + 1) ELSE g[k]]
  <2>2. DOMAIN h = 0 .. m + 1 /\ h[m + 1] = C90(lines, g[m], m + 1) /\ \A k \in 0 .. m : h[k] = g[k]
    OBVIOUS
  <2> HIDE DEF h
  <2>3. ASSUME NEW k \in 1 .. m + 1 PROVE h[k] = C90(lines, h[k - 1], k)
    <3>1. CASE k = m + 1
      <4>1. k - 1 = m /\ m \in 0 .. m
        BY <3>1
      <4> QED BY <2>2, <3>1, <4>1
    <3>2. CASE k # m + 1
      <4>1. k \in 1 .. m /\ k \in 0 .. m /\ k - 1 \in 0 .. m
        BY <3>2
      <4> QED BY <2>1, <2>2, <4>1 DEF Judges
    <3> QED BY <3>1, <3>2
  <2>4. h[0] = Start
    BY <2>1, <2>2 DEF Judges
  <2>5. Judges(lines, h, m + 1) /\ m + 1 \in Nat
    BY <2>2, <2>3, <2>4 DEF Judges
  <2> QED BY <2>5
<1> HIDE DEF T
<1>3. \A m \in Nat : m \in T
  BY <1>1, <1>2, Induction DEF T
<1> QED BY <1>3 DEF T, Beginning

(* Longer beginnings continue shorter ones. *)
LEMMA BeginningsAgree ==
  ASSUME NEW lines, NEW m \in Nat, NEW g, NEW h, Judges(lines, g, m), Judges(lines, h, m + 1)
  PROVE  g[m] = h[m]
<1> DEFINE T == {k \in Nat : k <= m => g[k] = h[k]}
<1>1. 0 \in T
  BY DEF Judges
<1>2. ASSUME NEW k \in T PROVE k + 1 \in T
  <2> SUFFICES ASSUME k + 1 <= m PROVE g[k + 1] = h[k + 1]
    OBVIOUS
  <2>1. k + 1 \in 1 .. m /\ k + 1 \in 1 .. m + 1 /\ (k + 1) - 1 = k /\ g[k] = h[k]
    OBVIOUS
  <2> QED BY <2>1 DEF Judges
<1> HIDE DEF T
<1>3. m \in T
  BY <1>1, <1>2, Induction DEF T
<1> QED BY <1>3 DEF T

(* The judgement of k + 1 lines is the one of k lines and line k + 1. *)
LEMMA JudgedLineByLine ==
  ASSUME NEW lines
  PROVE  /\ Judged(lines)[0] = Start
         /\ \A k \in Nat : Judged(lines)[k + 1] = C90(lines, Judged(lines)[k], k + 1)
<1> DEFINE F == [k \in Nat |-> Beginning(lines, k)[k]]
<1>1. F[0] = Start
  BY BeginningExists DEF Judges
<1>2. ASSUME NEW k \in Nat PROVE F[k + 1] = C90(lines, F[k], k + 1)
  <2>1. Beginning(lines, k)[k] = Beginning(lines, k + 1)[k]
    BY BeginningExists, BeginningsAgree
  <2>2. k + 1 \in 1 .. k + 1 /\ (k + 1) - 1 = k /\ k + 1 \in Nat
    OBVIOUS
  <2>3. Beginning(lines, k + 1)[k + 1] = C90(lines, Beginning(lines, k + 1)[k], k + 1)
    BY <2>2, BeginningExists DEF Judges
  <2> QED BY <2>1, <2>2, <2>3
<1>3. \A k \in Nat : F[k] = IF k = 0 THEN Start ELSE C90(lines, F[k - 1], k)
  <2> SUFFICES ASSUME NEW k \in Nat, k # 0 PROVE F[k] = C90(lines, F[k - 1], k)
    BY <1>1
  <2>1. k - 1 \in Nat /\ (k - 1) + 1 = k
    OBVIOUS
  <2> HIDE DEF F
  <2> QED BY <1>2, <2>1
<1>4. F = [k \in Nat |-> IF k = 0 THEN Start ELSE C90(lines, F[k - 1], k)]
  BY <1>3, Zenon
<1> HIDE DEF F
<1>5. Judged(lines) = [k \in Nat |-> IF k = 0 THEN Start ELSE C90(lines, Judged(lines)[k - 1], k)]
  BY <1>4 DEF Judged, Start
<1>6. ASSUME NEW k \in Nat PROVE Judged(lines)[k + 1] = C90(lines, Judged(lines)[k], k + 1)
  <2>1. k + 1 \in Nat /\ k + 1 # 0 /\ (k + 1) - 1 = k
    OBVIOUS
  <2> QED BY <1>5, <2>1
<1>7. Judged(lines)[0] = Start
  BY <1>5
<1> QED BY <1>6, <1>7

-----------------------------------------------------------------------------
(* What the standard says of one line, by its kind. *)
Blocks == [live : BOOLEAN, had : BOOLEAN, branch : {"if", "else"}]
Judgements == [ok : BOOLEAN, stack : Seq(Blocks), kept : SUBSET Nat]

Opened(s, cond) ==
  [live |-> Live(s.stack) /\ cond = "true", had |-> ~Live(s.stack) \/ cond = "true", branch |-> "if"]

Turned(b, live, branch) == [live |-> live /\ ~b.had, had |-> b.had \/ live, branch |-> branch]

Inner(s) == s.stack # << >> /\ Last(s.stack).branch # "else"

(* There are blocks. *)
LEMMA Blocked == \E b : b \in Blocks
<1>1. [live |-> TRUE, had |-> TRUE, branch |-> "if"] \in Blocks
  BY Zenon DEF Blocks
<1> QED BY <1>1

(* A text line is kept where all blocks are live. *)
LEMMA TextJudged ==
  ASSUME NEW lines, NEW k, NEW s \in Judgements, s.ok, lines[k].dir = "text"
  PROVE  C90(lines, s, k) = [ok |-> TRUE, stack |-> s.stack,
                             kept |-> IF Live(s.stack) THEN s.kept \cup {k} ELSE s.kept]
BY DEF C90, Judgements

(* A judgement with another stack. *)
LEMMA WithStack ==
  ASSUME NEW s \in Judgements, s.ok, NEW st
  PROVE  [s EXCEPT !.stack = st] = [ok |-> TRUE, stack |-> st, kept |-> s.kept]
<1>1. s.ok = TRUE
  BY Zenon DEF Judgements
<1>2. s = [ok |-> s.ok, stack |-> s.stack, kept |-> s.kept]
  BY DEF Judgements
<1>3. ASSUME NEW a, NEW b, NEW c
      PROVE  [[ok |-> a, stack |-> b, kept |-> c] EXCEPT !.stack = st] = [ok |-> a, stack |-> st, kept |-> c]
  OBVIOUS
<1>4. [s EXCEPT !.stack = st] = [[ok |-> s.ok, stack |-> s.stack, kept |-> s.kept] EXCEPT !.stack = st]
  BY <1>2, Zenon
<1> QED BY <1>1, <1>3, <1>4, Zenon

(* An #if opens a block. *)
LEMMA IfJudged ==
  ASSUME NEW lines, NEW k, NEW s \in Judgements, s.ok, lines[k].dir = "if"
  PROVE  C90(lines, s, k) =
           IF Live(s.stack) /\ lines[k].cond = "unsupported" THEN Bad
           ELSE [ok |-> TRUE, stack |-> Append(s.stack, Opened(s, lines[k].cond)), kept |-> s.kept]
<1> DEFINE st == Append(s.stack, Opened(s, lines[k].cond))
<1>1. C90(lines, s, k) = IF Live(s.stack) /\ lines[k].cond = "unsupported" THEN Bad
                         ELSE [s EXCEPT !.stack = st]
  BY Zenon DEF C90, Opened
<1>2. [s EXCEPT !.stack = st] = [ok |-> TRUE, stack |-> st, kept |-> s.kept]
  BY WithStack
<1> QED BY <1>1, <1>2, Zenon

(* An #elif takes the place of the branch before it. *)
LEMMA ElifJudged ==
  ASSUME NEW lines, NEW k, NEW s \in Judgements, s.ok, lines[k].dir = "elif"
  PROVE  C90(lines, s, k) =
           IF ~Inner(s) \/ (~Last(s.stack).had /\ lines[k].cond = "unsupported") THEN Bad
           ELSE [ok |-> TRUE, kept |-> s.kept,
                 stack |-> Append(Front(s.stack), Turned(Last(s.stack), lines[k].cond = "true", "if"))]
<1> DEFINE st == Append(Front(s.stack), Turned(Last(s.stack), lines[k].cond = "true", "if"))
<1>1. C90(lines, s, k) = IF ~Inner(s) \/ (~Last(s.stack).had /\ lines[k].cond = "unsupported") THEN Bad
                         ELSE [s EXCEPT !.stack = st]
  BY Zenon DEF C90, Replaced, Turned, Inner
<1>2. [s EXCEPT !.stack = st] = [ok |-> TRUE, stack |-> st, kept |-> s.kept]
  BY WithStack
<1> QED BY <1>1, <1>2, Zenon

(* So does #else. *)
LEMMA ElseJudged ==
  ASSUME NEW lines, NEW k, NEW s \in Judgements, s.ok, lines[k].dir = "else"
  PROVE  C90(lines, s, k) =
           IF ~Inner(s) THEN Bad
           ELSE [ok |-> TRUE, kept |-> s.kept,
                 stack |-> Append(Front(s.stack), Turned(Last(s.stack), TRUE, "else"))]
<1> DEFINE st == Append(Front(s.stack), Turned(Last(s.stack), TRUE, "else"))
<1>1. C90(lines, s, k) = IF ~Inner(s) THEN Bad ELSE [s EXCEPT !.stack = st]
  BY Zenon DEF C90, Replaced, Turned, Inner
<1>2. [s EXCEPT !.stack = st] = [ok |-> TRUE, stack |-> st, kept |-> s.kept]
  BY WithStack
<1> QED BY <1>1, <1>2, Zenon

(* An #endif closes the innermost block. *)
LEMMA EndifJudged ==
  ASSUME NEW lines, NEW k, NEW s \in Judgements, s.ok, lines[k].dir = "endif"
  PROVE  C90(lines, s, k) =
           IF s.stack = << >> THEN Bad ELSE [ok |-> TRUE, stack |-> Front(s.stack), kept |-> s.kept]
<1>1. C90(lines, s, k) = IF s.stack = << >> THEN Bad ELSE [s EXCEPT !.stack = Front(s.stack)]
  BY Zenon DEF C90
<1>2. [s EXCEPT !.stack = Front(s.stack)] = [ok |-> TRUE, stack |-> Front(s.stack), kept |-> s.kept]
  BY WithStack
<1> QED BY <1>1, <1>2, Zenon

(* What is not legal stays so. *)
LEMMA BadStays ==
  ASSUME NEW lines, NEW k, NEW s, ~s.ok
  PROVE  C90(lines, s, k) = Bad /\ ~Bad.ok
BY DEF C90, Bad

(* Blocks on and off a stack. *)
LEMMA PushFacts ==
  ASSUME NEW st \in Seq(Blocks), NEW b \in Blocks
  PROVE  /\ Append(st, b) \in Seq(Blocks) /\ Len(st) \in Nat /\ DOMAIN st = 1 .. Len(st)
         /\ Len(Append(st, b)) = Len(st) + 1
         /\ DOMAIN Append(st, b) = 1 .. (Len(st) + 1)
         /\ \A k \in 1 .. Len(st) : Append(st, b)[k] = st[k]
         /\ Append(st, b)[Len(st) + 1] = b
BY SMT

(* A stack without its innermost block, which is its last. *)
LEMMA PopFacts ==
  ASSUME NEW st \in Seq(Blocks), st # << >>
  PROVE  /\ Front(st) \in Seq(Blocks) /\ Len(st) \in Nat \ {0}
         /\ Len(Front(st)) = Len(st) - 1
         /\ DOMAIN Front(st) = 1 .. (Len(st) - 1)
         /\ \A k \in 1 .. (Len(st) - 1) : Front(st)[k] = st[k]
         /\ Last(st) = st[Len(st)] /\ Last(st) \in Blocks
<1>1. Front(st) \in Seq(Blocks) /\ DOMAIN Front(st) = 1 .. (Len(st) - 1)
  BY SMT DEF Front
<1>2. \A k \in 1 .. (Len(st) - 1) : Front(st)[k] = st[k]
  BY SMT DEF Front
<1>3. Len(st) \in Nat \ {0} /\ Last(st) \in Blocks
  BY SMT DEF Last
<1>4. Len(Front(st)) \in Nat /\ DOMAIN Front(st) = 1 .. Len(Front(st))
  BY <1>1, LenProperties, Zenon
<1>5. Len(Front(st)) = Len(st) - 1
  BY <1>1, <1>3, <1>4, SMT
<1> QED BY <1>1, <1>2, <1>3, <1>5 DEF Last

(* A stack with another block in the place of the innermost. *)
LEMMA TurnFacts ==
  ASSUME NEW st \in Seq(Blocks), st # << >>, NEW b \in Blocks
  PROVE  LET new == Append(Front(st), b)
         IN  /\ new \in Seq(Blocks) /\ Len(st) \in Nat \ {0}
             /\ Len(new) = Len(st) /\ DOMAIN new = 1 .. Len(st)
             /\ \A k \in 1 .. (Len(st) - 1) : new[k] = st[k]
             /\ new[Len(st)] = b
<1> DEFINE f == Front(st)
<1>1. /\ f \in Seq(Blocks) /\ Len(st) \in Nat \ {0} /\ Len(f) = Len(st) - 1
      /\ \A k \in 1 .. (Len(st) - 1) : f[k] = st[k]
  BY PopFacts
<1> HIDE DEF f
<1> DEFINE new == Append(f, b)
<1>2. /\ new \in Seq(Blocks) /\ Len(new) = Len(f) + 1 /\ DOMAIN new = 1 .. (Len(f) + 1)
      /\ \A k \in 1 .. Len(f) : new[k] = f[k]
      /\ new[Len(f) + 1] = b
  BY <1>1, PushFacts
<1> HIDE DEF new
<1>3. /\ new \in Seq(Blocks) /\ Len(st) \in Nat \ {0}
      /\ Len(new) = Len(st) /\ DOMAIN new = 1 .. Len(st)
      /\ \A k \in 1 .. (Len(st) - 1) : new[k] = st[k]
      /\ new[Len(st)] = b
  BY <1>1, <1>2, SMT
<1> QED BY <1>3 DEF new, f

-----------------------------------------------------------------------------
(* How the parser's variables stand for the stack: outside skipped text    *)
(* cclevel is its height; inside, it ends with the block skipped and level *)
(* more, and gotactive says whether a branch of that block was taken.      *)
HadIfLive(st) == \A k \in 1 .. Len(st) : st[k].live => st[k].had

ActiveAgrees(st, cc) == Len(st) = cc /\ \A k \in 1 .. Len(st) : st[k].live

Skipped(cc, got) == IF got THEN cc ELSE cc + 1

InactiveAgrees(st, cc, lv, got) ==
  /\ Skipped(cc, got) >= 1 /\ Len(st) = Skipped(cc, got) + lv
  /\ \A k \in 1 .. (Skipped(cc, got) - 1) : st[k].live
  /\ ~st[Skipped(cc, got)].live
  /\ st[Skipped(cc, got)].had <=> got
  /\ \A k \in (Skipped(cc, got) + 1) .. Len(st) : ~st[k].live /\ st[k].had

(* Blocks pushed where text is active: the block is live, or skipped. *)
LEMMA PushActive ==
  ASSUME NEW st \in Seq(Blocks), NEW b \in Blocks, NEW cc \in Nat,
         HadIfLive(st), ActiveAgrees(st, cc)
  PROVE  /\ b.live /\ b.had => HadIfLive(Append(st, b)) /\ ActiveAgrees(Append(st, b), cc + 1)
         /\ ~b.live /\ ~b.had => HadIfLive(Append(st, b)) /\ InactiveAgrees(Append(st, b), cc, 0, FALSE)
<1> DEFINE new == Append(st, b)
<1>1. /\ Len(st) \in Nat /\ Len(new) = Len(st) + 1
      /\ \A k \in 1 .. Len(st) : new[k] = st[k]
      /\ new[Len(st) + 1] = b
  BY PushFacts
<1> HIDE DEF new
<1>2. \A k \in 1 .. Len(new) : k \in 1 .. Len(st) \/ k = Len(st) + 1
  BY <1>1, SMT
<1>3. ASSUME b.live, b.had PROVE HadIfLive(new) /\ ActiveAgrees(new, cc + 1)
  BY <1>1, <1>2, <1>3, SMT DEF HadIfLive, ActiveAgrees
<1>4. ASSUME ~b.live, ~b.had PROVE HadIfLive(new) /\ InactiveAgrees(new, cc, 0, FALSE)
  <2>1. HadIfLive(new)
    BY <1>1, <1>2, <1>4, SMT DEF HadIfLive
  <2>2. Skipped(cc, FALSE) = cc + 1 /\ Len(st) = cc
    BY DEF Skipped, ActiveAgrees
  <2>3. InactiveAgrees(new, cc, 0, FALSE)
    <3> DEFINE m == Skipped(cc, FALSE)
    <3>1. m = cc + 1 /\ Len(st) = cc
      BY <2>2
    <3> HIDE DEF m
    <3>2. m >= 1 /\ Len(new) = m + 0 /\ new[m] = b
      BY <1>1, <3>1, SMT
    <3>3. \A k \in 1 .. (m - 1) : new[k].live
      BY <1>1, <3>1, SMT DEF ActiveAgrees
    <3>4. \A k \in (m + 1) .. Len(new) : FALSE
      BY <1>1, <3>1, SMT
    <3> QED BY <1>4, <3>2, <3>3, <3>4, Zenon DEF InactiveAgrees, m
  <2> QED BY <2>1, <2>3
<1> QED BY <1>3, <1>4 DEF new

(* The rest of a block that was active is skipped, or the block is left. *)
LEMMA LeaveActive ==
  ASSUME NEW st \in Seq(Blocks), NEW b \in Blocks, NEW cc \in Nat,
         HadIfLive(st), ActiveAgrees(st, cc), cc # 0
  PROVE  /\ st # << >> /\ Last(st).had
         /\ HadIfLive(Front(st)) /\ ActiveAgrees(Front(st), cc - 1)
         /\ ~b.live /\ b.had => LET new == Append(Front(st), b)
                                IN  HadIfLive(new) /\ InactiveAgrees(new, cc, 0, TRUE)
<1>0. st # << >>
  BY SMT DEF ActiveAgrees
<1> DEFINE front == Front(st)
           new == Append(front, b)
<1>1. /\ Len(st) \in Nat \ {0} /\ Len(front) = Len(st) - 1
      /\ \A k \in 1 .. (Len(st) - 1) : front[k] = st[k]
      /\ Last(st) = st[Len(st)]
  BY <1>0, PopFacts
<1>2. Len(new) = Len(st) /\ (\A k \in 1 .. (Len(st) - 1) : new[k] = st[k]) /\ new[Len(st)] = b
  BY <1>0, TurnFacts
<1> HIDE DEF front, new
<1>3. Last(st).had
  BY <1>1, SMT DEF HadIfLive, ActiveAgrees
<1>4. HadIfLive(front) /\ ActiveAgrees(front, cc - 1)
  BY <1>1, SMT DEF HadIfLive, ActiveAgrees
<1>5. ASSUME ~b.live, b.had PROVE HadIfLive(new) /\ InactiveAgrees(new, cc, 0, TRUE)
  <2>1. HadIfLive(new)
    <3> SUFFICES ASSUME NEW k \in 1 .. Len(new), new[k].live PROVE new[k].had
      BY DEF HadIfLive
    <3>1. k \in 1 .. (Len(st) - 1)
      BY <1>1, <1>2, <1>5, SMT
    <3> QED BY <1>1, <1>2, <3>1, SMT DEF HadIfLive
  <2>2. Skipped(cc, TRUE) = cc /\ Len(st) = cc
    BY DEF Skipped, ActiveAgrees
  <2>3. InactiveAgrees(new, cc, 0, TRUE)
    <3> DEFINE m == Skipped(cc, TRUE)
    <3>1. m = cc /\ Len(st) = cc
      BY <2>2
    <3> HIDE DEF m
    <3>2. m >= 1 /\ Len(new) = m + 0 /\ new[m] = b
      BY <1>1, <1>2, <3>1, SMT
    <3>3. \A k \in 1 .. (m - 1) : new[k].live
      BY <1>1, <1>2, <3>1, SMT DEF ActiveAgrees
    <3>4. \A k \in (m + 1) .. Len(new) : FALSE
      BY <1>1, <1>2, <3>1, SMT
    <3> QED BY <1>5, <3>2, <3>3, <3>4, Zenon DEF InactiveAgrees, m
  <2> QED BY <2>1, <2>3
<1> QED BY <1>0, <1>3, <1>4, <1>5 DEF front, new

(* Inside skipped text blocks come and go, the skipped one last. *)
LEMMA NestInactive ==
  ASSUME NEW st \in Seq(Blocks), NEW b \in Blocks, NEW cc \in Nat, NEW lv \in Nat, NEW got \in BOOLEAN,
         HadIfLive(st), InactiveAgrees(st, cc, lv, got)
  PROVE  /\ ~Live(st)
         /\ ~b.live /\ b.had => HadIfLive(Append(st, b)) /\ InactiveAgrees(Append(st, b), cc, lv + 1, got)
         /\ st # << >> /\ HadIfLive(Front(st))
         /\ lv > 0 => InactiveAgrees(Front(st), cc, lv - 1, got)
         /\ lv = 0 => ActiveAgrees(Front(st), IF got THEN cc - 1 ELSE cc)
<1> DEFINE m == Skipped(cc, got)
           front == Front(st)
           push == Append(st, b)
<1>0. /\ m \in Nat /\ m >= 1 /\ Len(st) = m + lv /\ Len(st) \in Nat
      /\ \A k \in 1 .. (m - 1) : st[k].live
      /\ ~st[m].live /\ (st[m].had <=> got)
      /\ \A k \in (m + 1) .. Len(st) : ~st[k].live /\ st[k].had
  <2>1. m \in Nat
    BY SMT DEF Skipped
  <2>2. Len(st) \in Nat
    BY LenProperties
  <2> QED BY <2>1, <2>2 DEF InactiveAgrees
<1>c. m = (IF got THEN cc ELSE cc + 1)
  BY DEF Skipped
<1>1. st # << >>
  BY <1>0, SMT
<1>2. ~Live(st)
  <2>1. m \in DOMAIN st
    BY <1>0, SMT
  <2> QED BY <1>0, <2>1 DEF Live
<1>3. /\ Len(front) = Len(st) - 1
      /\ \A k \in 1 .. (Len(st) - 1) : front[k] = st[k]
  BY <1>1, PopFacts
<1>4. Len(push) = Len(st) + 1 /\ (\A k \in 1 .. Len(st) : push[k] = st[k]) /\ push[Len(st) + 1] = b
  BY PushFacts
<1> HIDE DEF m, front, push
<1>5. HadIfLive(front)
  BY <1>0, <1>3, SMT DEF HadIfLive
<1>6. ASSUME ~b.live, b.had PROVE HadIfLive(push) /\ InactiveAgrees(push, cc, lv + 1, got)
  <2>1. HadIfLive(push)
    <3> SUFFICES ASSUME NEW k \in 1 .. Len(push), push[k].live PROVE push[k].had
      BY DEF HadIfLive
    <3>1. k \in 1 .. Len(st)
      BY <1>0, <1>4, <1>6, SMT
    <3> QED BY <1>4, <3>1 DEF HadIfLive
  <2>2. Len(push) = m + (lv + 1)
    BY <1>0, <1>4, SMT
  <2>3. \A k \in 1 .. (m - 1) : push[k].live
    BY <1>0, <1>4, SMT
  <2>4. ~push[m].live /\ (push[m].had <=> got)
    <3>1. push[m] = st[m]
      BY <1>0, <1>4, SMT
    <3> QED BY <1>0, <3>1
  <2>5. ASSUME NEW k \in (m + 1) .. Len(push) PROVE ~push[k].live /\ push[k].had
    <3>1. CASE k = Len(st) + 1
      BY <1>4, <1>6, <3>1
    <3>2. CASE k # Len(st) + 1
      <4>1. k \in 1 .. Len(st) /\ k \in (m + 1) .. Len(st)
        BY <1>0, <1>4, <3>2, SMT
      <4> QED BY <1>0, <1>4, <4>1
    <3> QED BY <3>1, <3>2
  <2>6. InactiveAgrees(push, cc, lv + 1, got)
    BY <1>0, <2>2, <2>3, <2>4, <2>5, Zenon DEF InactiveAgrees, m
  <2> QED BY <2>1, <2>6
<1>7. ASSUME lv > 0 PROVE InactiveAgrees(front, cc, lv - 1, got)
  <2>1. Len(front) = m + (lv - 1)
    BY <1>0, <1>3, SMT
  <2>2. \A k \in 1 .. (m - 1) : front[k].live
    BY <1>0, <1>3, <1>7, SMT
  <2>3. ~front[m].live /\ (front[m].had <=> got)
    <3>1. front[m] = st[m]
      BY <1>0, <1>3, <1>7, SMT
    <3> QED BY <1>0, <3>1
  <2>4. ASSUME NEW k \in (m + 1) .. Len(front) PROVE ~front[k].live /\ front[k].had
    <3>1. k \in (m + 1) .. Len(st) /\ k \in 1 .. (Len(st) - 1)
      BY <1>0, <1>3, SMT
    <3> QED BY <1>0, <1>3, <3>1
  <2> QED BY <1>0, <2>1, <2>2, <2>3, <2>4, Zenon DEF InactiveAgrees, m
<1>8. ASSUME lv = 0 PROVE ActiveAgrees(front, IF got THEN cc - 1 ELSE cc)
  <2>1. Len(front) = m - 1
    BY <1>0, <1>3, <1>8, SMT
  <2>2. m - 1 = IF got THEN cc - 1 ELSE cc
    BY <1>c, SMT
  <2>3. \A k \in 1 .. Len(front) : front[k].live
    BY <1>0, <1>3, <1>8, <2>1, SMT
  <2> QED BY <2>1, <2>2, <2>3 DEF ActiveAgrees
<1> QED BY <1>1, <1>2, <1>5, <1>6, <1>7, <1>8 DEF front, push

(* At a branch of a block in skipped text the block becomes live, if it is *)
(* the one skipped and none of its branches was, or stays as it was.       *)
LEMMA TurnInactive ==
  ASSUME NEW st \in Seq(Blocks), NEW b \in Blocks, NEW cc \in Nat, NEW lv \in Nat, NEW got \in BOOLEAN,
         HadIfLive(st), InactiveAgrees(st, cc, lv, got)
  PROVE  LET new == Append(Front(st), b)
         IN  /\ st # << >> /\ (Last(st).had <=> ~(lv = 0 /\ ~got))
             /\ lv = 0 /\ ~got /\ b.live /\ b.had => HadIfLive(new) /\ ActiveAgrees(new, cc + 1)
             /\ ~b.live /\ (b.had <=> Last(st).had) => HadIfLive(new) /\ InactiveAgrees(new, cc, lv, got)
<1> DEFINE m == Skipped(cc, got)
           new == Append(Front(st), b)
<1>0. /\ m \in Nat /\ m >= 1 /\ Len(st) = m + lv /\ Len(st) \in Nat
      /\ \A k \in 1 .. (m - 1) : st[k].live
      /\ ~st[m].live /\ (st[m].had <=> got)
      /\ \A k \in (m + 1) .. Len(st) : ~st[k].live /\ st[k].had
  <2>1. m \in Nat
    BY SMT DEF Skipped
  <2>2. Len(st) \in Nat
    BY LenProperties
  <2> QED BY <2>1, <2>2 DEF InactiveAgrees
<1>c. m = (IF got THEN cc ELSE cc + 1)
  BY DEF Skipped
<1>1. st # << >>
  BY <1>0, SMT
<1>2. /\ Len(new) = Len(st) /\ (\A k \in 1 .. (Len(st) - 1) : new[k] = st[k]) /\ new[Len(st)] = b
      /\ Last(st) = st[Len(st)]
  BY <1>1, TurnFacts, PopFacts
<1> HIDE DEF m, new
<1>3. Last(st).had <=> ~(lv = 0 /\ ~got)
  <2>1. CASE lv = 0
    <3>1. Len(st) = m
      BY <1>0, <2>1, SMT
    <3> QED BY <1>0, <1>2, <2>1, <3>1
  <2>2. CASE lv # 0
    <3>1. Len(st) \in (m + 1) .. Len(st)
      BY <1>0, <2>2, SMT
    <3> QED BY <1>0, <1>2, <2>2, <3>1
  <2> QED BY <2>1, <2>2
<1>4. ASSUME b.live => b.had PROVE HadIfLive(new)
  <2> SUFFICES ASSUME NEW k \in 1 .. Len(new), new[k].live PROVE new[k].had
    BY DEF HadIfLive
  <2>1. CASE k = Len(st)
    BY <1>2, <1>4, <2>1
  <2>2. CASE k # Len(st)
    <3>1. k \in 1 .. (Len(st) - 1) /\ k \in 1 .. Len(st)
      BY <1>0, <1>2, <2>2, SMT
    <3> QED BY <1>2, <3>1 DEF HadIfLive
  <2> QED BY <2>1, <2>2
<1>5. ASSUME lv = 0, ~got, b.live PROVE ActiveAgrees(new, cc + 1)
  <2>1. Len(new) = cc + 1 /\ Len(st) = m
    BY <1>0, <1>c, <1>2, <1>5, SMT
  <2>2. ASSUME NEW k \in 1 .. Len(new) PROVE new[k].live
    <3>1. CASE k = Len(st)
      BY <1>2, <1>5, <3>1
    <3>2. CASE k # Len(st)
      <4>1. k \in 1 .. (m - 1) /\ k \in 1 .. (Len(st) - 1)
        BY <1>0, <1>2, <2>1, <3>2, SMT
      <4> QED BY <1>0, <1>2, <4>1
    <3> QED BY <3>1, <3>2
  <2> QED BY <2>1, <2>2 DEF ActiveAgrees
<1>6. ASSUME ~b.live, b.had <=> Last(st).had PROVE InactiveAgrees(new, cc, lv, got)
  <2>1. ASSUME NEW k \in 1 .. Len(st) PROVE (new[k].live <=> st[k].live) /\ (new[k].had <=> st[k].had)
    <3>1. CASE k = Len(st)
      <4>1. ~st[k].live
        <5>1. k = m \/ k \in (m + 1) .. Len(st)
          BY <1>0, <3>1, SMT
        <5> QED BY <1>0, <5>1
      <4> QED BY <1>2, <1>6, <3>1, <4>1
    <3>2. CASE k # Len(st)
      <4>1. k \in 1 .. (Len(st) - 1)
        BY <1>0, <3>2, SMT
      <4> QED BY <1>2, <4>1
    <3> QED BY <3>1, <3>2
  <2>2. m \in 1 .. Len(st)
    BY <1>0, SMT
  <2>3. \A k \in 1 .. (m - 1) : k \in 1 .. Len(st)
    BY <1>0, SMT
  <2>4. \A k \in (m + 1) .. Len(new) : k \in 1 .. Len(st) /\ k \in (m + 1) .. Len(st)
    BY <1>0, <1>2, SMT
  <2>5. Len(new) = m + lv
    BY <1>0, <1>2
  <2> QED BY <1>0, <2>1, <2>2, <2>3, <2>4, <2>5, Zenon DEF InactiveAgrees, m
<1>7. ASSUME lv = 0, ~got, b.live, b.had PROVE HadIfLive(new) /\ ActiveAgrees(new, cc + 1)
  BY <1>4, <1>5, <1>7
<1>8. ASSUME ~b.live, b.had <=> Last(st).had PROVE HadIfLive(new) /\ InactiveAgrees(new, cc, lv, got)
  BY <1>4, <1>6, <1>8
<1> QED BY <1>1, <1>3, <1>7, <1>8 DEF new

-----------------------------------------------------------------------------
(* The invariant.  Types; the counter does not fall below zero at the end  *)
(* of a block of which a branch was active; and, as long as the file is    *)
(* legal, the parser's variables stand for the standard's stack.           *)
Typed ==
  /\ input \in Seq(Lines) /\ n \in 0 .. Len(input)
  /\ mode \in {"active", "inactive", "done", "error"}
  /\ cclevel \in Nat /\ level \in Nat /\ gotactive \in BOOLEAN
  /\ mode = "inactive" /\ gotactive => cclevel >= 1

Refuses ==
  \/ n = Len(input) /\ Standard.stack # << >>
  \/ n < Len(input) /\ ~C90(input, Standard, n + 1).ok

Agrees ==
  /\ kept = Standard.kept
  /\ HadIfLive(Standard.stack)
  /\ mode = "active" => ActiveAgrees(Standard.stack, cclevel)
  /\ mode = "inactive" => InactiveAgrees(Standard.stack, cclevel, level, gotactive)
  /\ mode = "error" => Refuses

IInv == Typed /\ Standard \in Judgements /\ (Standard.ok => Agrees)

(* No directive has space before its '#': what the code does of one that   *)
(* has, inside skipped text, is not what the standard says.                *)
NoIndents == Indents \subseteq {FALSE}

(* A line is text or one of four directives. *)
LEMMA LineKinds ==
  ASSUME NEW x \in Lines
  PROVE  /\ x.dir \in {"text", "if", "elif", "else", "endif"}
         /\ x.cond \in {"true", "false", "unsupported"}
         /\ NoIndents => ~x.indented
<1>1. CASE x = Text
  BY <1>1, Zenon DEF Text
<1>2. ASSUME NEW D, NEW C, x \in [dir : D, cond : C, indented : Indents]
      PROVE  x.dir \in D /\ x.cond \in C /\ x.indented \in Indents
  BY <1>2
<1>3. ASSUME x.indented \in Indents, NoIndents PROVE ~x.indented
  BY <1>3, Zenon DEF NoIndents
<1>4. CASE x \in [dir : {"if", "elif"}, cond : Conds, indented : Indents]
  BY <1>2, <1>3, <1>4, Zenon DEF Conds
<1>5. CASE x \in [dir : {"else", "endif"}, cond : {"true"}, indented : Indents]
  BY <1>2, <1>3, <1>5, Zenon
<1> QED BY <1>1, <1>4, <1>5, Zenon DEF Lines

(* What the standard says of a line is a judgement. *)
LEMMA JudgementsLast ==
  ASSUME NEW lines, NEW k \in Nat, NEW s \in Judgements, lines[k] \in Lines
  PROVE  C90(lines, s, k) \in Judgements
<1>1. Bad \in Judgements
  <2>1. << >> \in Seq(Blocks)
    BY EmptySeq
  <2> QED BY <2>1, Zenon DEF Bad, Judgements
<1>2. CASE ~s.ok
  BY <1>1, <1>2, BadStays
<1>3. CASE s.ok
  <2>0. s.stack \in Seq(Blocks) /\ s.kept \in SUBSET Nat
    BY Zenon DEF Judgements
  <2>1. ASSUME NEW st \in Seq(Blocks), NEW ks \in SUBSET Nat
        PROVE  [ok |-> TRUE, stack |-> st, kept |-> ks] \in Judgements
    BY Zenon DEF Judgements
  <2>2. CASE lines[k].dir = "text"
    <3>1. s.kept \cup {k} \in SUBSET Nat
      BY <2>0
    <3>2. (IF Live(s.stack) THEN s.kept \cup {k} ELSE s.kept) \in SUBSET Nat
      BY <2>0, <3>1, Zenon
    <3> QED BY <1>3, <2>0, <2>1, <2>2, <3>2, TextJudged
  <2>3. CASE lines[k].dir = "if"
    <3> DEFINE b == Opened(s, lines[k].cond)
    <3>1. b \in Blocks
      BY Zenon DEF Opened, Blocks
    <3> HIDE DEF b
    <3>2. Append(s.stack, b) \in Seq(Blocks)
      BY <2>0, <3>1, PushFacts
    <3>3. [ok |-> TRUE, stack |-> Append(s.stack, b), kept |-> s.kept] \in Judgements
      BY <2>0, <2>1, <3>2
    <3> QED BY <1>1, <1>3, <2>3, <3>3, IfJudged, Zenon DEF b
  <2>4. ASSUME NEW live \in BOOLEAN, NEW br \in {"if", "else"}, s.stack # << >>
        PROVE  [ok |-> TRUE, stack |-> Append(Front(s.stack), Turned(Last(s.stack), live, br)), kept |-> s.kept]
                 \in Judgements
    <3> DEFINE b == Turned(Last(s.stack), live, br)
    <3>1. b \in Blocks
      BY Zenon DEF Turned, Blocks
    <3> HIDE DEF b
    <3>2. Append(Front(s.stack), b) \in Seq(Blocks)
      BY <2>0, <2>4, <3>1, TurnFacts
    <3>3. [ok |-> TRUE, stack |-> Append(Front(s.stack), b), kept |-> s.kept] \in Judgements
      BY <2>0, <2>1, <3>2
    <3> QED BY <3>3 DEF b
  <2>5. CASE lines[k].dir = "elif"
    <3>1. Inner(s) => s.stack # << >>
      BY DEF Inner
    <3>2. CASE Inner(s)
      <4> DEFINE u == [ok |-> TRUE, kept |-> s.kept,
                       stack |-> Append(Front(s.stack), Turned(Last(s.stack), lines[k].cond = "true", "if"))]
      <4>1. u \in Judgements
        BY <2>4, <3>1, <3>2
      <4>2. C90(lines, s, k) = u \/ C90(lines, s, k) = Bad
        BY <1>3, <2>5, ElifJudged, Zenon
      <4> QED BY <1>1, <4>1, <4>2, Zenon
    <3>3. CASE ~Inner(s)
      BY <1>1, <1>3, <2>5, <3>3, ElifJudged, Zenon
    <3> QED BY <3>2, <3>3
  <2>6. CASE lines[k].dir = "else"
    <3>1. Inner(s) => s.stack # << >>
      BY DEF Inner
    <3>2. CASE Inner(s)
      <4> DEFINE u == [ok |-> TRUE, kept |-> s.kept,
                       stack |-> Append(Front(s.stack), Turned(Last(s.stack), TRUE, "else"))]
      <4>1. u \in Judgements
        BY <2>4, <3>1, <3>2
      <4>2. C90(lines, s, k) = u \/ C90(lines, s, k) = Bad
        BY <1>3, <2>6, ElseJudged, Zenon
      <4> QED BY <1>1, <4>1, <4>2, Zenon
    <3>3. CASE ~Inner(s)
      BY <1>1, <1>3, <2>6, <3>3, ElseJudged, Zenon
    <3> QED BY <3>2, <3>3
  <2>7. CASE lines[k].dir = "endif"
    <3>1. CASE s.stack = << >>
      BY <1>1, <1>3, <2>7, <3>1, EndifJudged, Zenon
    <3>2. CASE s.stack # << >>
      <4>1. Front(s.stack) \in Seq(Blocks)
        BY <2>0, <3>2, PopFacts
      <4>2. [ok |-> TRUE, stack |-> Front(s.stack), kept |-> s.kept] \in Judgements
        BY <2>0, <2>1, <4>1
      <4> QED BY <1>3, <2>7, <3>2, <4>2, EndifJudged, Zenon
    <3> QED BY <3>1, <3>2
  <2> QED BY <2>2, <2>3, <2>5, <2>6, <2>7, LineKinds
<1> QED BY <1>2, <1>3

(* Types are kept, and every step reads one line or none. *)
LEMMA StepTyped ==
  ASSUME Typed, [Next]_vars
  PROVE  /\ Typed' /\ input' = input
         /\ n' = n \/ (n < Len(input) /\ n' = n + 1)
<1>0. /\ n \in Nat /\ Len(input) \in Nat
      /\ n < Len(input) => n + 1 \in 0 .. Len(input)
  BY SMT DEF Typed
<1>1. CASE ActiveText
  BY <1>0, <1>1 DEF ActiveText, At, Typed
<1>a. ASSUME Fail PROVE Typed' /\ input' = input /\ n' = n
  BY <1>a DEF Fail, Typed
<1>b. ASSUME NEW got \in BOOLEAN, n < Len(input), mode = "active", Skip(got, cclevel), got => cclevel >= 1
      PROVE  Typed' /\ input' = input /\ n' = n + 1
  BY <1>0, <1>b DEF Skip, Goto, Typed
<1>2. CASE ActiveIf
  <2>0. mode = "active" /\ n < Len(input)
    BY <1>2 DEF ActiveIf, At
  <2>1. CASE Goto("active", cclevel + 1) /\ Stay
    BY <1>0, <2>0, <2>1 DEF Goto, Stay, Typed
  <2>2. CASE Skip(FALSE, cclevel)
    BY <1>b, <2>0, <2>2
  <2> QED BY <1>2, <1>a, <2>0, <2>1, <2>2 DEF ActiveIf
<1>3. CASE ActiveElse
  <2>0. mode = "active" /\ n < Len(input)
    BY <1>3 DEF ActiveElse, At
  <2>1. CASE cclevel = 0
    BY <1>3, <1>a, <2>1 DEF ActiveElse
  <2>2. CASE cclevel # 0
    <3>1. cclevel >= 1
      BY <2>2, SMT DEF Typed
    <3>2. Skip(TRUE, cclevel)
      BY <1>3, <2>2 DEF ActiveElse
    <3> QED BY <1>b, <2>0, <3>1, <3>2, Zenon
  <2> QED BY <2>1, <2>2
<1>4. CASE ActiveEndif
  BY <1>0, <1>4 DEF ActiveEndif, At, Typed, Goto, Stay, Fail
<1>5. CASE ActiveEof \/ InactiveEof
  BY <1>0, <1>5 DEF ActiveEof, InactiveEof, Typed, Fail
<1>6. CASE InactiveText \/ InactiveIf
  BY <1>0, <1>6 DEF InactiveText, InactiveIf, Seen, Pass, At, Typed, Goto
<1>7. CASE InactiveElif
  BY <1>0, <1>7 DEF InactiveElif, Seen, Pass, At, Typed, Goto, Stay, Fail
<1>8. CASE InactiveElse
  BY <1>0, <1>8 DEF InactiveElse, Seen, Pass, At, Typed, Goto, Stay, Fail
<1>9. CASE InactiveEndif
  BY <1>0, <1>9 DEF InactiveEndif, Seen, Pass, At, Typed, Goto, Stay
<1>10. CASE UNCHANGED vars
  BY <1>10 DEF vars, Typed
<1> QED BY <1>1, <1>2, <1>3, <1>4, <1>5, <1>6, <1>7, <1>8, <1>9, <1>10 DEF Next

(* The standard's judgement follows the parser. *)
LEMMA StepJudged ==
  ASSUME Typed, Standard \in Judgements, [Next]_vars
  PROVE  /\ Standard' \in Judgements
         /\ n' = n => Standard' = Standard
         /\ n' = n + 1 => Standard' = C90(input, Standard, n + 1)
         /\ Standard'.ok => Standard.ok
<1>1. input' = input /\ (n' = n \/ (n < Len(input) /\ n' = n + 1))
  BY StepTyped
<1>2. CASE n' = n
  <2>1. Standard' = Standard
    BY <1>1, <1>2, Zenon DEF Standard
  <2>2. n' # n + 1
    BY <1>2, SMT DEF Typed
  <2> QED BY <1>2, <2>1, <2>2
<1>3. CASE n < Len(input) /\ n' = n + 1
  <2>1. n \in Nat /\ n + 1 \in Nat /\ n' # n /\ input[n + 1] \in Lines
    BY <1>3, SMT DEF Typed
  <2>2. Standard' = C90(input, Standard, n + 1)
    BY <1>1, <1>3, <2>1, JudgedLineByLine, Zenon DEF Standard
  <2>3. C90(input, Standard, n + 1) \in Judgements
    BY <2>1, JudgementsLast
  <2>4. Standard'.ok => Standard.ok
    BY <2>2, BadStays, Zenon
  <2> QED BY <2>1, <2>2, <2>3, <2>4
<1> QED BY <1>1, <1>2, <1>3

(* The parser's variables go on standing for the standard's stack. *)
LEMMA StepAgrees ==
  ASSUME NoIndents, Typed, Standard \in Judgements, Standard.ok => Agrees, [Next]_vars, Standard'.ok
  PROVE  Agrees'
<1> DEFINE s == Standard
           line == input[n + 1]
<1>1. /\ s.ok /\ Agrees /\ s \in Judgements /\ input' = input
      /\ s.stack \in Seq(Blocks) /\ HadIfLive(s.stack) /\ kept = s.kept
      /\ cclevel \in Nat /\ level \in Nat /\ gotactive \in BOOLEAN
  <2>1. s.ok /\ input' = input
    BY StepJudged, StepTyped
  <2>2. s.stack \in Seq(Blocks)
    BY Zenon DEF Judgements
  <2> QED BY <2>1, <2>2 DEF Agrees, Typed
<1>2. mode = "active" => ActiveAgrees(s.stack, cclevel)
  BY <1>1 DEF Agrees
<1>3. mode = "inactive" => InactiveAgrees(s.stack, cclevel, level, gotactive)
  BY <1>1 DEF Agrees
<1>4. ASSUME n < Len(input) PROVE line \in Lines /\ (n' = n + 1 => Standard' = C90(input, s, n + 1))
  <2>1. line \in Lines
    BY <1>4, SMT DEF Typed
  <2> QED BY <2>1, StepJudged
<1>5. n' = n => Standard' = s
  BY StepJudged
<1> HIDE DEF s
<1>6. ASSUME NEW st, NEW ks, Standard' = [ok |-> TRUE, stack |-> st, kept |-> ks], kept' = ks, HadIfLive(st),
             \/ mode' = "active" /\ ActiveAgrees(st, cclevel')
             \/ mode' = "inactive" /\ InactiveAgrees(st, cclevel', level', gotactive')
      PROVE  Agrees'
  <2>1. Standard'.stack = st /\ Standard'.kept = ks
    BY <1>6
  <2>2. mode' \in {"active", "inactive"}
    BY <1>6
  <2> QED BY <1>6, <2>1, <2>2 DEF Agrees
(* Refusing a line leaves the judgement of those before it. *)
<1>7. ASSUME Fail, Refuses PROVE Agrees'
  <2>1. n' = n /\ mode' = "error" /\ kept' = kept
    BY <1>7 DEF Fail
  <2>2. Standard' = Standard
    BY <1>5, <2>1 DEF s
  <2>3. Refuses'
    BY <1>1, <1>7, <2>1, <2>2, Zenon DEF Refuses
  <2> QED BY <1>1, <2>1, <2>2, <2>3 DEF Agrees, s
(* A line read gives the judgement of one more. *)
<1>8. ASSUME NEW m, n < Len(input), Goto(m, cclevel') PROVE /\ line \in Lines /\ mode' = m /\ kept' = s.kept
                                                            /\ Standard' = C90(input, s, n + 1)
  <2>1. n' = n + 1 /\ kept' = kept /\ mode' = m
    BY <1>8 DEF Goto
  <2> QED BY <1>1, <1>4, <1>8, <2>1
<1>9. ASSUME n < Len(input), ~C90(input, s, n + 1).ok PROVE Refuses
  BY <1>9 DEF Refuses, s
<1>bad. ~Bad.ok
  BY DEF Bad
<1>10. CASE ActiveText
  <2>1. n < Len(input) /\ n' = n + 1 /\ line.dir = "text" /\ mode = "active" /\ mode' = "active"
        /\ kept' = kept \cup {n + 1} /\ cclevel' = cclevel
    BY <1>10 DEF ActiveText, At, Cur
  <2>2. Live(s.stack)
    <3>1. DOMAIN s.stack = 1 .. Len(s.stack)
      BY <1>1, LenProperties, Zenon
    <3> QED BY <1>2, <2>1, <3>1 DEF Live, ActiveAgrees
  <2>3. Standard' = [ok |-> TRUE, stack |-> s.stack, kept |-> s.kept \cup {n + 1}]
    BY <1>1, <1>4, <2>1, <2>2, TextJudged
  <2> QED BY <1>1, <1>2, <1>6, <2>1, <2>3
<1>11. CASE ActiveIf
  <2> DEFINE b == Opened(s, line.cond)
             st == Append(s.stack, b)
  <2>1. n < Len(input) /\ line.dir = "if" /\ mode = "active"
    BY <1>11 DEF ActiveIf, At, Cur
  <2>2. Live(s.stack)
    <3>1. DOMAIN s.stack = 1 .. Len(s.stack)
      BY <1>1, LenProperties, Zenon
    <3> QED BY <1>2, <2>1, <3>1 DEF Live, ActiveAgrees
  <2>3. b \in Blocks /\ (b.live <=> line.cond = "true") /\ (b.had <=> line.cond = "true")
    BY <2>2, Zenon DEF Opened, Blocks
  <2>4. C90(input, s, n + 1) = IF line.cond = "unsupported" THEN Bad
                               ELSE [ok |-> TRUE, stack |-> st, kept |-> s.kept]
    BY <1>1, <2>1, <2>2, IfJudged, Zenon
  <2> HIDE DEF b
  <2>5. CASE line.cond = "true"
    <3>1. Goto("active", cclevel + 1) /\ Stay
      BY <1>11, <2>5 DEF ActiveIf, Cur
    <3>2. cclevel' = cclevel + 1
      BY <3>1 DEF Goto
    <3>3. mode' = "active" /\ kept' = s.kept /\ Standard' = [ok |-> TRUE, stack |-> st, kept |-> s.kept]
      BY <1>8, <2>1, <2>4, <2>5, <3>1, <3>2
    <3>4. HadIfLive(st) /\ ActiveAgrees(st, cclevel')
      BY <1>1, <1>2, <2>1, <2>3, <2>5, <3>2, PushActive
    <3> HIDE DEF st
    <3> QED BY <1>6, <3>3, <3>4
  <2>6. CASE line.cond = "false"
    <3>1. Goto("inactive", cclevel) /\ level' = 0 /\ gotactive' = FALSE
      BY <1>11, <2>6 DEF ActiveIf, Skip, Cur
    <3>2. cclevel' = cclevel
      BY <3>1 DEF Goto
    <3>3. mode' = "inactive" /\ kept' = s.kept /\ Standard' = [ok |-> TRUE, stack |-> st, kept |-> s.kept]
      BY <1>8, <2>1, <2>4, <2>6, <3>1, <3>2
    <3>4. HadIfLive(st) /\ InactiveAgrees(st, cclevel', level', gotactive')
      <4>1. HadIfLive(st) /\ InactiveAgrees(st, cclevel, 0, FALSE)
        BY <1>1, <1>2, <2>1, <2>3, <2>6, PushActive
      <4> HIDE DEF st
      <4> QED BY <3>1, <3>2, <4>1, Zenon
    <3> HIDE DEF st
    <3> QED BY <1>6, <3>3, <3>4
  <2>7. CASE line.cond # "true" /\ line.cond # "false"
    <3>1. line.cond = "unsupported"
      <4>1. line \in Lines
        BY <1>4, <2>1
      <4> QED BY <4>1, <2>7, LineKinds
    <3>2. Fail
      BY <1>11, <2>7 DEF ActiveIf, Cur
    <3> QED BY <1>7, <1>9, <1>bad, <2>1, <2>4, <3>1, <3>2
  <2> QED BY <2>5, <2>6, <2>7
<1>12. CASE ActiveElse
  <2>1. n < Len(input) /\ line.dir \in {"elif", "else"} /\ mode = "active"
    BY <1>12 DEF ActiveElse, At, Cur
  <2>2. CASE cclevel = 0
    <3>1. s.stack = << >>
      BY <1>1, <1>2, <2>1, <2>2, SMT DEF ActiveAgrees
    <3>2. C90(input, s, n + 1) = Bad
      BY <1>1, <2>1, <3>1, ElifJudged, ElseJudged, Zenon DEF Inner
    <3>3. Fail
      BY <1>12, <2>2 DEF ActiveElse
    <3> QED BY <1>7, <1>9, <1>bad, <2>1, <3>2, <3>3
  <2>3. CASE cclevel # 0
    <3>1. Goto("inactive", cclevel) /\ level' = 0 /\ gotactive' = TRUE
      BY <1>12, <2>3 DEF ActiveElse, Skip
    <3>2. cclevel' = cclevel
      BY <3>1 DEF Goto
    <3>3. mode' = "inactive" /\ kept' = s.kept /\ Standard' = C90(input, s, n + 1)
      BY <1>8, <2>1, <3>1, <3>2
    <3>4. s.stack # << >> /\ Last(s.stack).had
      BY <1>1, <1>2, <2>1, <2>3, LeaveActive, Blocked
    <3>5. PICK b \in Blocks : /\ ~b.live /\ b.had
                              /\ Standard' = [ok |-> TRUE, stack |-> Append(Front(s.stack), b), kept |-> s.kept]
      <4>1. ASSUME NEW live \in BOOLEAN, NEW br \in {"if", "else"}
            PROVE  /\ Turned(Last(s.stack), live, br) \in Blocks
                   /\ ~Turned(Last(s.stack), live, br).live /\ Turned(Last(s.stack), live, br).had
        BY <3>4, Zenon DEF Turned, Blocks
      <4>2. (line.cond = "true") \in BOOLEAN
        BY Zenon
      <4>3. CASE line.dir = "elif"
        <5>1. Standard' = [ok |-> TRUE, kept |-> s.kept,
                 stack |-> Append(Front(s.stack), Turned(Last(s.stack), line.cond = "true", "if"))]
          BY <1>1, <1>bad, <3>3, <4>3, ElifJudged, Zenon
        <5> QED BY <4>1, <4>2, <5>1
      <4>4. CASE line.dir = "else"
        <5>1. Standard' = [ok |-> TRUE, kept |-> s.kept,
                 stack |-> Append(Front(s.stack), Turned(Last(s.stack), TRUE, "else"))]
          BY <1>1, <1>bad, <3>3, <4>4, ElseJudged, Zenon
        <5> QED BY <4>1, <5>1
      <4> QED BY <2>1, <4>3, <4>4
    <3> DEFINE st == Append(Front(s.stack), b)
    <3>6. HadIfLive(st) /\ InactiveAgrees(st, cclevel, 0, TRUE)
      BY <1>1, <1>2, <2>1, <2>3, <3>5, LeaveActive
    <3> HIDE DEF st
    <3>7. InactiveAgrees(st, cclevel', level', gotactive')
      BY <3>1, <3>2, <3>6, Zenon
    <3>8. Standard' = [ok |-> TRUE, stack |-> st, kept |-> s.kept]
      BY <3>5 DEF st
    <3> QED BY <1>6, <3>3, <3>6, <3>7, <3>8
  <2> QED BY <2>2, <2>3
<1>13. CASE ActiveEndif
  <2>1. n < Len(input) /\ line.dir = "endif" /\ mode = "active"
    BY <1>13 DEF ActiveEndif, At, Cur
  <2>2. CASE cclevel = 0
    <3>1. s.stack = << >>
      BY <1>1, <1>2, <2>1, <2>2, SMT DEF ActiveAgrees
    <3>2. C90(input, s, n + 1) = Bad
      BY <1>1, <2>1, <3>1, EndifJudged, Zenon
    <3>3. Fail
      BY <1>13, <2>2 DEF ActiveEndif
    <3> QED BY <1>7, <1>9, <1>bad, <2>1, <3>2, <3>3
  <2>3. CASE cclevel # 0
    <3>1. Goto("active", cclevel - 1) /\ Stay
      BY <1>13, <2>3 DEF ActiveEndif
    <3>2. cclevel' = cclevel - 1
      BY <3>1 DEF Goto
    <3>3. mode' = "active" /\ kept' = s.kept /\ Standard' = C90(input, s, n + 1)
      BY <1>8, <2>1, <3>1, <3>2
    <3> DEFINE st == Front(s.stack)
    <3>4. s.stack # << >> /\ HadIfLive(st) /\ ActiveAgrees(st, cclevel')
      BY <1>1, <1>2, <2>1, <2>3, <3>2, LeaveActive, Blocked
    <3>5. Standard' = [ok |-> TRUE, stack |-> st, kept |-> s.kept]
      BY <1>1, <2>1, <3>3, <3>4, EndifJudged, Zenon
    <3> HIDE DEF st
    <3> QED BY <1>6, <3>3, <3>4, <3>5
  <2> QED BY <2>2, <2>3
<1>14. CASE ActiveEof
  <2>1. n' = n /\ mode' = "done" /\ kept' = kept
    BY <1>14 DEF ActiveEof
  <2> QED BY <1>1, <1>5, <2>1 DEF Agrees
<1>15. CASE InactiveText
  <2>1. /\ n < Len(input) /\ mode = "inactive" /\ Goto("inactive", cclevel)
        /\ level' = level /\ gotactive' = gotactive /\ (line.dir = "text" \/ line.indented)
    BY <1>15 DEF InactiveText, Pass, Cur, At
  <2>2. cclevel' = cclevel
    BY <2>1 DEF Goto
  <2>3. line \in Lines /\ mode' = "inactive" /\ kept' = s.kept /\ Standard' = C90(input, s, n + 1)
    BY <1>8, <2>1, <2>2
  <2>4. line.dir = "text"
    BY <2>1, <2>3, LineKinds
  <2>5. ~Live(s.stack)
    BY <1>1, <1>3, <2>1, NestInactive, Blocked
  <2>6. Standard' = [ok |-> TRUE, stack |-> s.stack, kept |-> s.kept]
    BY <1>1, <2>3, <2>4, <2>5, TextJudged, Zenon
  <2>7. InactiveAgrees(s.stack, cclevel', level', gotactive')
    BY <1>3, <2>1, <2>2, Zenon
  <2> QED BY <1>1, <1>6, <2>3, <2>6, <2>7
<1>16. CASE InactiveIf
  <2>1. /\ n < Len(input) /\ mode = "inactive" /\ Goto("inactive", cclevel)
        /\ level' = level + 1 /\ gotactive' = gotactive /\ line.dir = "if"
    BY <1>16 DEF InactiveIf, Seen, At, Pass, Cur
  <2>2. cclevel' = cclevel
    BY <2>1 DEF Goto
  <2>3. mode' = "inactive" /\ kept' = s.kept /\ Standard' = C90(input, s, n + 1)
    BY <1>8, <2>1, <2>2
  <2>4. ~Live(s.stack)
    BY <1>1, <1>3, <2>1, NestInactive, Blocked
  <2> DEFINE b == Opened(s, line.cond)
             st == Append(s.stack, b)
  <2>5. b \in Blocks /\ ~b.live /\ b.had
    BY <2>4, Zenon DEF Opened, Blocks
  <2>6. Standard' = [ok |-> TRUE, stack |-> st, kept |-> s.kept]
    BY <1>1, <2>1, <2>3, <2>4, IfJudged, Zenon
  <2> HIDE DEF b
  <2>7. HadIfLive(st) /\ InactiveAgrees(st, cclevel, level + 1, gotactive)
    BY <1>1, <1>3, <2>1, <2>5, NestInactive
  <2> HIDE DEF st
  <2>8. InactiveAgrees(st, cclevel', level', gotactive')
    BY <2>1, <2>2, <2>7, Zenon
  <2> QED BY <1>6, <2>3, <2>6, <2>7, <2>8
<1>17. CASE InactiveElif \/ InactiveElse
  <2>0. n < Len(input) /\ mode = "inactive" /\ line.dir \in {"elif", "else"}
    BY <1>17 DEF InactiveElif, InactiveElse, Seen, At, Cur
  <2>1. s.stack # << >> /\ (Last(s.stack).had <=> ~(level = 0 /\ ~gotactive))
    BY <1>1, <1>3, <2>0, TurnInactive, Blocked
  <2> DEFINE live == IF line.dir = "elif" THEN line.cond = "true" ELSE TRUE
             br == IF line.dir = "elif" THEN "if" ELSE "else"
             b == Turned(Last(s.stack), live, br)
             st == Append(Front(s.stack), b)
  <2>2. line.dir = "elif" \/ line.dir = "else"
    BY <2>0
  <2>3. Open <=> ~Last(s.stack).had
    BY <2>1 DEF Open
  <2>4. \/ Goto("active", cclevel + 1) /\ Stay /\ Open /\ live
        \/ Fail /\ Open /\ line.dir = "elif" /\ line.cond = "unsupported"
        \/ Goto("inactive", cclevel) /\ level' = level /\ gotactive' = gotactive /\ (~Open \/ ~live)
    <3>1. CASE InactiveElif
      <4>1. line.dir = "elif"
        BY <3>1 DEF InactiveElif, Seen, At, Cur
      <4>2. live <=> line.cond = "true"
        BY <4>1
      <4> HIDE DEF live
      <4> QED BY <3>1, <4>1, <4>2 DEF InactiveElif, Pass, Cur
    <3>2. CASE InactiveElse
      <4>1. line.dir = "else"
        BY <3>2 DEF InactiveElse, Seen, At, Cur
      <4>2. live
        BY <4>1
      <4> HIDE DEF live
      <4> QED BY <3>2, <4>1, <4>2 DEF InactiveElse, Pass
    <3> QED BY <1>17, <3>1, <3>2
  <2>5. \/ C90(input, s, n + 1) = Bad
        \/ C90(input, s, n + 1) = [ok |-> TRUE, stack |-> st, kept |-> s.kept]
    <3>1. CASE line.dir = "elif"
      <4>1. b = Turned(Last(s.stack), line.cond = "true", "if")
        BY <3>1, Zenon
      <4>2. C90(input, s, n + 1) = Bad \/
            C90(input, s, n + 1) = [ok |-> TRUE, kept |-> s.kept,
               stack |-> Append(Front(s.stack), Turned(Last(s.stack), line.cond = "true", "if"))]
        BY <1>1, <3>1, ElifJudged, Zenon
      <4> HIDE DEF b
      <4> QED BY <4>1, <4>2, Zenon
    <3>2. CASE line.dir = "else"
      <4>1. b = Turned(Last(s.stack), TRUE, "else")
        BY <3>2, Zenon
      <4> HIDE DEF b
      <4> QED BY <1>1, <3>2, <4>1, ElseJudged, Zenon
    <3> QED BY <2>2, <3>1, <3>2
  <2>6. /\ live \in BOOLEAN /\ b \in Blocks
        /\ b.live <=> (live /\ ~Last(s.stack).had)
        /\ b.had <=> (Last(s.stack).had \/ live)
    <3>1. live \in BOOLEAN
      BY Zenon
    <3>2. br \in {"if", "else"}
      BY Zenon
    <3> HIDE DEF live, br
    <3> QED BY <3>1, <3>2, Zenon DEF Turned, Blocks
  <2>7. CASE Goto("active", cclevel + 1) /\ Stay /\ Open /\ live
    <3>1. cclevel' = cclevel + 1
      BY <2>7 DEF Goto
    <3>2. mode' = "active" /\ kept' = s.kept /\ Standard' = C90(input, s, n + 1)
      BY <1>8, <2>0, <2>7, <3>1
    <3>3. Standard' = [ok |-> TRUE, stack |-> st, kept |-> s.kept]
      BY <1>bad, <2>5, <3>2
    <3>4. b.live /\ b.had
      BY <2>3, <2>6, <2>7, Zenon
    <3> HIDE DEF b
    <3>5. HadIfLive(st) /\ ActiveAgrees(st, cclevel')
      BY <1>1, <1>3, <2>0, <2>6, <2>7, <3>1, <3>4, TurnInactive DEF Open
    <3> HIDE DEF st
    <3> QED BY <1>6, <3>2, <3>3, <3>5
  <2>8. CASE Fail /\ Open /\ line.dir = "elif" /\ line.cond = "unsupported"
    <3>1. C90(input, s, n + 1) = Bad
      BY <1>1, <2>3, <2>8, ElifJudged, Zenon
    <3> QED BY <1>7, <1>9, <1>bad, <2>0, <2>8, <3>1
  <2>9. CASE Goto("inactive", cclevel) /\ level' = level /\ gotactive' = gotactive /\ (~Open \/ ~live)
    <3>1. cclevel' = cclevel
      BY <2>9 DEF Goto
    <3>2. mode' = "inactive" /\ kept' = s.kept /\ Standard' = C90(input, s, n + 1)
      BY <1>8, <2>0, <2>9, <3>1
    <3>3. Standard' = [ok |-> TRUE, stack |-> st, kept |-> s.kept]
      BY <1>bad, <2>5, <3>2
    <3>4. ~b.live /\ (b.had <=> Last(s.stack).had)
      BY <2>3, <2>6, <2>9, Zenon
    <3> HIDE DEF b
    <3>5. HadIfLive(st) /\ InactiveAgrees(st, cclevel, level, gotactive)
      BY <1>1, <1>3, <2>0, <2>6, <3>4, TurnInactive
    <3> HIDE DEF st
    <3>6. InactiveAgrees(st, cclevel', level', gotactive')
      BY <2>9, <3>1, <3>5, Zenon
    <3> QED BY <1>6, <3>2, <3>3, <3>5, <3>6
  <2> QED BY <2>4, <2>7, <2>8, <2>9
<1>18. CASE InactiveEndif
  <2>0. n < Len(input) /\ mode = "inactive" /\ line.dir = "endif"
    BY <1>18 DEF InactiveEndif, Seen, At, Cur
  <2> DEFINE st == Front(s.stack)
  <2>1. /\ s.stack # << >> /\ HadIfLive(st)
        /\ level > 0 => InactiveAgrees(st, cclevel, level - 1, gotactive)
        /\ level = 0 => ActiveAgrees(st, IF gotactive THEN cclevel - 1 ELSE cclevel)
    BY <1>1, <1>3, <2>0, NestInactive, Blocked
  <2>2. C90(input, s, n + 1) = [ok |-> TRUE, stack |-> st, kept |-> s.kept]
    BY <1>1, <2>0, <2>1, EndifJudged, Zenon
  <2> HIDE DEF st
  <2>3. CASE level > 0
    <3>1. Goto("inactive", cclevel) /\ gotactive' = gotactive /\ level' = level - 1
      BY <1>18, <2>3 DEF InactiveEndif, Pass
    <3>2. cclevel' = cclevel
      BY <3>1 DEF Goto
    <3>3. mode' = "inactive" /\ kept' = s.kept /\ Standard' = C90(input, s, n + 1)
      BY <1>8, <2>0, <3>1, <3>2
    <3>4. InactiveAgrees(st, cclevel', level', gotactive')
      BY <2>1, <2>3, <3>1, <3>2, Zenon
    <3> QED BY <1>6, <2>1, <2>2, <3>3, <3>4
  <2>4. CASE ~(level > 0)
    <3>0. level = 0
      BY <1>1, <2>4, SMT
    <3>1. Goto("active", IF gotactive THEN cclevel - 1 ELSE cclevel)
      BY <1>18, <2>4 DEF InactiveEndif
    <3>2. cclevel' = IF gotactive THEN cclevel - 1 ELSE cclevel
      BY <3>1, Zenon DEF Goto
    <3>3. mode' = "active" /\ kept' = s.kept /\ Standard' = C90(input, s, n + 1)
      BY <1>8, <2>0, <3>1, <3>2, Zenon
    <3>4. ActiveAgrees(st, cclevel')
      BY <2>1, <3>0, <3>2, Zenon
    <3> QED BY <1>6, <2>1, <2>2, <3>3, <3>4
  <2> QED BY <2>3, <2>4
<1>19. CASE InactiveEof
  <2>1. mode = "inactive" /\ n = Len(input) /\ Fail
    BY <1>19 DEF InactiveEof
  <2>2. s.stack # << >>
    BY <1>1, <1>3, <2>1, NestInactive, Blocked
  <2> QED BY <1>7, <2>1, <2>2 DEF Refuses, s
<1>20. CASE UNCHANGED vars
  <2>1. n' = n /\ mode' = mode /\ kept' = kept /\ cclevel' = cclevel /\ level' = level /\ gotactive' = gotactive
    BY <1>20 DEF vars
  <2>2. Standard' = Standard
    BY <1>5, <2>1 DEF s
  <2>3. Refuses => Refuses'
    BY <1>1, <2>1, <2>2, Zenon DEF Refuses
  <2> QED BY <1>1, <2>1, <2>2, <2>3, Zenon DEF Agrees
<1> QED BY <1>10, <1>11, <1>12, <1>13, <1>14, <1>15, <1>16, <1>17, <1>18, <1>19, <1>20 DEF Next

(* Before the first line nothing is open and nothing is kept. *)
LEMMA InitIInv == Init => IInv
<1> SUFFICES ASSUME Init PROVE IInv
  OBVIOUS
<1>1. PICK m \in 0 .. MaxLines : input \in [1 .. m -> Lines]
  BY DEF Init
<1>2. input \in Seq(Lines)
  BY <1>1, ConditionalAssumption DEF Init
<1>3. Typed
  <2>1. Len(input) \in Nat
    BY <1>2, LenProperties
  <2>2. n \in 0 .. Len(input) /\ cclevel \in Nat /\ level \in Nat
    BY <2>1, SMT DEF Init
  <2>3. gotactive \in BOOLEAN /\ ~gotactive /\ mode = "active"
    BY Zenon DEF Init
  <2> QED BY <1>2, <2>2, <2>3, Zenon DEF Typed
<1>4. Standard = Start
  BY JudgedLineByLine DEF Init, Standard
<1>5. Start \in Judgements
  BY EmptySeq, Zenon DEF Start, Judgements
<1>6. HadIfLive(<< >>) /\ ActiveAgrees(<< >>, 0)
  BY DEF HadIfLive, ActiveAgrees
<1>7. Agrees
  BY <1>4, <1>6 DEF Agrees, Init, Start
<1> QED BY <1>3, <1>4, <1>5, <1>7 DEF IInv

(* Every step keeps the invariant. *)
LEMMA StepIInv == NoIndents /\ IInv /\ [Next]_vars => IInv'
BY StepTyped, StepJudged, StepAgrees DEF IInv

(* In every state of a file without indented directives the invariant      *)
(* holds.                                                                  *)
LEMMA AlwaysIInv == NoIndents => (Spec => []IInv)
<1> SUFFICES ASSUME NoIndents PROVE Spec => []IInv
  OBVIOUS
<1>1. Init => IInv
  BY InitIInv
<1>2. IInv /\ [Next]_vars => IInv'
  BY StepIInv
<1> QED BY <1>1, <1>2, PTL DEF Spec
-----------------------------------------------------------------------------
(* Whatever the file is, cclevel and level stay at or above zero: the end  *)
(* of a block takes back no more levels than its branches opened.          *)
THEOREM TypeCorrect == Spec => []Typed
<1>1. Init => Typed
  BY InitIInv DEF IInv
<1>2. Typed /\ [Next]_vars => Typed'
  BY StepTyped
<1> QED BY <1>1, <1>2, PTL DEF Spec

(* The parser keeps the lines the standard keeps and refuses what it       *)
(* refuses, for files of every length and nesting, if no directive has     *)
(* space before its '#'.                                                   *)
THEOREM SelectionAgrees == NoIndents => (Spec => []AgreesWithStandard)
<1>1. IInv => AgreesWithStandard
  <2> SUFFICES ASSUME IInv, Standard.ok PROVE AgreesWithStandard
    BY Zenon DEF AgreesWithStandard, SelectsLines, AcceptsLegal
  <2>1. Agrees /\ Standard.stack \in Seq(Blocks)
    BY Zenon DEF IInv, Judgements
  <2>2. DOMAIN Standard.stack = 1 .. Len(Standard.stack)
    BY <2>1, LenProperties, Zenon
  <2>3. mode = "active" => Live(Standard.stack)
    BY <2>1, <2>2 DEF Live, Agrees, ActiveAgrees
  <2>4. mode = "inactive" => ~Live(Standard.stack)
    BY <2>1, NestInactive, Blocked DEF Agrees, IInv, Typed
  <2>5. mode = "error" => Refuses
    BY <2>1 DEF Agrees
  <2> QED BY <2>1, <2>3, <2>4, <2>5 DEF AgreesWithStandard, SelectsLines, AcceptsLegal, Refuses, Agrees
<1> QED BY <1>1, AlwaysIInv, PTL

(* The counters are those of the standard's stack, for files of every      *)
(* length and nesting, if no directive has space before its '#'.           *)
THEOREM LevelsAlwaysMatch == NoIndents => (Spec => []LevelsMatch)
<1>1. IInv => LevelsMatch
  <2> SUFFICES ASSUME IInv, Standard.ok PROVE LevelsMatch
    BY Zenon DEF LevelsMatch
  <2>1. Agrees
    BY DEF IInv
  <2>2. cclevel \in Nat /\ level \in Nat /\ gotactive \in BOOLEAN
    BY DEF IInv, Typed
  <2>3. CASE mode = "active"
    BY <2>1, <2>3 DEF LevelsMatch, Agrees, ActiveAgrees
  <2>4. CASE mode = "inactive"
    <3>1. Len(Standard.stack) = Skipped(cclevel, gotactive) + level
      BY <2>1, <2>4 DEF Agrees, InactiveAgrees
    <3>2. Len(Standard.stack) = cclevel + level + (IF gotactive THEN 0 ELSE 1)
      BY <2>2, <3>1, SMT DEF Skipped
    <3> QED BY <2>4, <3>2, Zenon DEF LevelsMatch
  <2>5. CASE mode # "active" /\ mode # "inactive"
    BY <2>5 DEF LevelsMatch
  <2> QED BY <2>3, <2>4, <2>5
<1> QED BY <1>1, AlwaysIInv, PTL
=============================================================================
