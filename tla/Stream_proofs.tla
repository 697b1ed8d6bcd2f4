--------------------------- MODULE Stream_proofs ----------------------------
(***************************************************************************)
(* Proofs about Stream: the invariant of one FILE, and that for a program  *)
(* without the habits C90 allows and the code does not, the stream is a    *)
(* file with one position (StreamContract).                                *)
(***************************************************************************)
EXTENDS Stream, TLAPS, WellFoundedInduction

(***************************************************************************)
(* What holds of a stream between calls, as predicates of the record w.    *)
(***************************************************************************)
Flags == {"READ", "WRT", "RW", "NBF", "LBF", "EOF", "ERR"}

Worlds == [flags : SUBSET Flags, cnt : Int, ptr : Nat, cap : {0, SbufSiz, BigBuf},
           buf : [1 .. BigBuf -> Bytes], file : Seq(Bytes), pos : Nat]

Sized(w) ==
  /\ w \in Worlds
  /\ w.ptr <= w.cap /\ w.cnt <= w.cap /\ Len(w.file) <= DiskSize
  /\ ~(Has(w, "NBF") /\ Has(w, "LBF"))

(* The buffer up to ptr + cnt is what the file has before pos. *)
Filled(w) == w.ptr + w.cnt

Mirrors(w) ==
  /\ Filled(w) \in 0 .. w.pos /\ Filled(w) <= w.cap /\ w.pos <= Len(w.file)
  /\ \A k \in 1 .. Filled(w) : w.buf[k] = w.file[w.pos - Filled(w) + k]

ReaderOK(w) ==
  Has(w, "READ") => /\ ~Has(w, "WRT") /\ w.cnt >= 0
                    /\ w.cnt > 0 => Mirrors(w)

WriterOK(w) ==
  ~Has(w, "READ") =>
    /\ ~Has(w, "WRT") => w.ptr = 0 /\ w.cnt <= 0
    /\ Unbuffered(w) => w.ptr = 0
    /\ Sloppy(w) => w.cnt <= 0
    /\ ~Sloppy(w) => (w.ptr = 0 /\ w.cnt = 0) \/ w.cnt = w.cap - w.ptr

LineOK(w) == Has(w, "LBF") /\ Has(w, "WRT") => \A k \in 1 .. w.ptr : w.buf[k] # NL

WorldOK(w) == Sized(w) /\ ReaderOK(w) /\ WriterOK(w) /\ LineOK(w)

(* The byte just read can be pushed back: it is before ptr, or the buffer  *)
(* is empty and has room for it.                                           *)
CanPushBack(w, c) ==
  /\ w.cap >= 1 /\ w.pos - w.cnt \in 1 .. Len(w.file) /\ c = w.file[w.pos - w.cnt]
  /\ (w.ptr > 0 /\ Mirrors(w)) \/ (w.ptr = 0 /\ w.cnt = 0)

TurnOK ==
  /\ turn \in {"free", "reading", "writing"}
  /\ RW /\ "READ" \in fp.flags => turn = "reading"
  /\ RW /\ "WRT" \in fp.flags => turn = "writing"

OpOK ==
  /\ op = <<"open">> => fp.cap = 0 /\ fp.ptr = 0 /\ fp.cnt = 0 /\ ~Sloppy(World)
  /\ op = <<"fclose">> => fp.flags = {}
  /\ op[1] = "read" /\ ret # << >> /\ "READ" \in fp.flags => CanPushBack(World, Last(ret))

IInv ==
  WorldOK(World) /\ TurnOK /\ OpOK

-----------------------------------------------------------------------------
(* What is in the buffer and not on the device, what the program sees and  *)
(* where it is: Pending, data and at of a stream w.                        *)
Pnd(w) == IF Has(w, "WRT") /\ w.cap # 0 /\ ~Unbuffered(w) THEN SubSeq(w.buf, 1, w.ptr) ELSE << >>
Out(w) == Overlay(w.file, w.pos, Pnd(w))
End(w) == w.pos + Len(Pnd(w))

LEMMA Sizes ==
  /\ BufSiz \in Nat /\ SbufSiz \in Nat /\ SbufSiz >= 1 /\ BigBuf \in Nat
  /\ SbufSiz < BigBuf /\ DiskSize \in Nat
  /\ NL \in Bytes /\ Hole \in Bytes /\ NL # Hole /\ Text \subseteq Bytes
<1>1. BufSiz \in Nat /\ SbufSiz \in Nat /\ SbufSiz # 0 /\ BufSiz # 0 /\ SbufSiz < BufSiz /\ DiskSize \in Nat
  BY StreamAssumption
<1>2. BigBuf \in Nat /\ SbufSiz < BigBuf /\ SbufSiz >= 1
  BY <1>1 DEF BigBuf
<1>3. Hole \notin Text \cup {NL}
  BY StreamAssumption
<1> QED BY <1>1, <1>2, <1>3 DEF Bytes

-----------------------------------------------------------------------------
(* Lemmas about sequences of bytes and overlays.                           *)

(* A function on 1 .. n with bytes as values is a sequence of bytes. *)
LEMMA IsSeq ==
  ASSUME NEW n \in Nat, NEW f, f \in [1 .. n -> Bytes]
  PROVE  f \in Seq(Bytes) /\ Len(f) = n
OBVIOUS

(* Two sequences with the same bytes are the same. *)
LEMMA SameSeq ==
  ASSUME NEW f \in Seq(Bytes), NEW g \in Seq(Bytes), Len(f) = Len(g),
         \A k \in 1 .. Len(f) : f[k] = g[k]
  PROVE  f = g
OBVIOUS

(* SubSeq, byte by byte. *)
LEMMA SubSeqIs ==
  ASSUME NEW s \in Seq(Bytes), NEW m \in Nat, NEW n \in Nat, n <= Len(s), m <= n
  PROVE  /\ SubSeq(s, m + 1, n) \in Seq(Bytes) /\ Len(SubSeq(s, m + 1, n)) = n - m
         /\ \A k \in 1 .. (n - m) : SubSeq(s, m + 1, n)[k] = s[m + k]
OBVIOUS

LEMMA OverlayIs ==
  ASSUME NEW f \in Seq(Bytes), NEW p \in Nat, NEW bs \in Seq(Bytes)
  PROVE  /\ Overlay(f, p, bs) \in Seq(Bytes)
         /\ Len(Overlay(f, p, bs)) = IF bs # << >> /\ p + Len(bs) > Len(f) THEN p + Len(bs) ELSE Len(f)
         /\ \A k \in 1 .. Len(Overlay(f, p, bs)) :
              Overlay(f, p, bs)[k] = IF k \in (p + 1) .. (p + Len(bs)) THEN bs[k - p]
                                     ELSE IF k <= Len(f) THEN f[k] ELSE Hole
<1> DEFINE n == IF bs # << >> /\ p + Len(bs) > Len(f) THEN p + Len(bs) ELSE Len(f)
<1>1. n \in Nat
  OBVIOUS
<1>2. ASSUME NEW k \in 1 .. n
      PROVE  (IF k \in (p + 1) .. (p + Len(bs)) THEN bs[k - p]
              ELSE IF k <= Len(f) THEN f[k] ELSE Hole) \in Bytes
  <2>1. k \in (p + 1) .. (p + Len(bs)) => k - p \in 1 .. Len(bs)
    OBVIOUS
  <2> QED BY <2>1, Sizes
<1>3. Overlay(f, p, bs) \in [1 .. n -> Bytes]
  BY <1>2 DEF Overlay
<1>4. Len(Overlay(f, p, bs)) = n /\ Overlay(f, p, bs) \in Seq(Bytes)
  BY <1>1, <1>3, IsSeq
<1> QED BY <1>4 DEF Overlay

(* Nothing put into f leaves f. *)
LEMMA OverlayNothing ==
  ASSUME NEW f \in Seq(Bytes), NEW p \in Nat
  PROVE  Overlay(f, p, << >>) = f
<1>1. << >> \in Seq(Bytes) /\ Len(<< >>) = 0
  OBVIOUS
<1>2. Overlay(f, p, << >>) \in Seq(Bytes) /\ Len(Overlay(f, p, << >>)) = Len(f)
  BY <1>1, OverlayIs
<1>3. \A k \in 1 .. Len(f) : Overlay(f, p, << >>)[k] = f[k]
  <2> SUFFICES ASSUME NEW k \in 1 .. Len(f) PROVE Overlay(f, p, << >>)[k] = f[k]
    OBVIOUS
  <2>1. k \notin (p + 1) .. (p + Len(<< >>)) /\ k <= Len(f)
    BY <1>1
  <2> QED BY <1>1, <1>2, <2>1, OverlayIs
<1> QED BY <1>2, <1>3, SameSeq

(* Bytes put behind bytes: as if put together. *)
LEMMA OverlayTwice ==
  ASSUME NEW f \in Seq(Bytes), NEW p \in Nat, NEW a \in Seq(Bytes), NEW b \in Seq(Bytes)
  PROVE  Overlay(Overlay(f, p, a), p + Len(a), b) = Overlay(f, p, a \o b)
<1> DEFINE g == Overlay(f, p, a)
           h == Overlay(g, p + Len(a), b)
           ab == a \o b
           u == Overlay(f, p, ab)
<1>1. /\ ab \in Seq(Bytes) /\ Len(ab) = Len(a) + Len(b)
      /\ \A k \in 1 .. Len(a) : ab[k] = a[k]
      /\ \A k \in (Len(a) + 1) .. (Len(a) + Len(b)) : ab[k] = b[k - Len(a)]
      /\ (a = << >> <=> Len(a) = 0) /\ (b = << >> <=> Len(b) = 0) /\ (ab = << >> <=> Len(ab) = 0)
      /\ Len(a) \in Nat /\ Len(b) \in Nat /\ Len(f) \in Nat
  OBVIOUS
<1> HIDE DEF ab
<1>2. /\ g \in Seq(Bytes)
      /\ Len(g) = IF Len(a) # 0 /\ p + Len(a) > Len(f) THEN p + Len(a) ELSE Len(f)
      /\ \A k \in 1 .. Len(g) : g[k] = IF k \in (p + 1) .. (p + Len(a)) THEN a[k - p]
                                       ELSE IF k <= Len(f) THEN f[k] ELSE Hole
  BY <1>1, OverlayIs
<1> HIDE DEF g
<1>3. /\ h \in Seq(Bytes)
      /\ Len(h) = IF Len(b) # 0 /\ p + Len(a) + Len(b) > Len(g) THEN p + Len(a) + Len(b) ELSE Len(g)
      /\ \A k \in 1 .. Len(h) : h[k] = IF k \in (p + Len(a) + 1) .. (p + Len(a) + Len(b)) THEN b[k - (p + Len(a))]
                                       ELSE IF k <= Len(g) THEN g[k] ELSE Hole
  <2>1. p + Len(a) \in Nat
    BY <1>1
  <2> QED BY <1>1, <1>2, <2>1, OverlayIs
<1>4. /\ u \in Seq(Bytes)
      /\ Len(u) = IF Len(ab) # 0 /\ p + Len(ab) > Len(f) THEN p + Len(ab) ELSE Len(f)
      /\ \A k \in 1 .. Len(u) : u[k] = IF k \in (p + 1) .. (p + Len(ab)) THEN ab[k - p]
                                       ELSE IF k <= Len(f) THEN f[k] ELSE Hole
  BY <1>1, OverlayIs
<1> HIDE DEF h, u
<1>5. Len(h) = Len(u)
  BY <1>1, <1>2, <1>3, <1>4
<1>6. ASSUME NEW k \in 1 .. Len(h) PROVE h[k] = u[k]
  <2>1. CASE k \in (p + Len(a) + 1) .. (p + Len(a) + Len(b))
    <3>1. k - p \in (Len(a) + 1) .. (Len(a) + Len(b)) /\ (k - p) - Len(a) = k - (p + Len(a))
      BY <1>1, <2>1
    <3>2. k \in (p + 1) .. (p + Len(ab))
      BY <1>1, <2>1
    <3> QED BY <1>1, <1>3, <1>4, <1>5, <2>1, <3>1, <3>2
  <2>2. CASE k \in (p + 1) .. (p + Len(a))
    <3>1. k - p \in 1 .. Len(a) /\ k \in (p + 1) .. (p + Len(ab)) /\ k \in 1 .. Len(g)
      BY <1>1, <1>2, <2>2
    <3>2. k \notin (p + Len(a) + 1) .. (p + Len(a) + Len(b))
      BY <1>1, <2>2
    <3>3. h[k] = g[k]
      BY <1>3, <3>1, <3>2
    <3>4. g[k] = a[k - p]
      BY <1>2, <2>2, <3>1
    <3>5. u[k] = ab[k - p] /\ ab[k - p] = a[k - p]
      BY <1>1, <1>4, <1>5, <3>1
    <3> QED BY <3>3, <3>4, <3>5
  <2>3. CASE k \notin (p + 1) .. (p + Len(a) + Len(b))
    <3>1. /\ k \notin (p + Len(a) + 1) .. (p + Len(a) + Len(b)) /\ k \notin (p + 1) .. (p + Len(a))
          /\ k \notin (p + 1) .. (p + Len(ab)) /\ k \in Nat
      BY <1>1, <2>3
    <3>2. u[k] = IF k <= Len(f) THEN f[k] ELSE Hole
      BY <1>4, <1>5, <3>1
    <3>3. h[k] = IF k <= Len(g) THEN g[k] ELSE Hole
      BY <1>3, <3>1
    <3>4. k <= Len(g) => g[k] = IF k <= Len(f) THEN f[k] ELSE Hole
      BY <1>2, <3>1
    <3>5. k <= Len(f) => k <= Len(g)
      BY <1>1, <1>2
    <3> QED BY <3>2, <3>3, <3>4, <3>5
  <2> QED BY <1>1, <2>1, <2>2, <2>3
<1>7. h = u
  BY <1>3, <1>4, <1>5, <1>6, SameSeq
<1> QED BY <1>7 DEF h, u, g, ab

-----------------------------------------------------------------------------
(* Lemmas about the helpers of Stream: what each does to a stream.         *)
Kinds == {"READ", "WRT", "RW", "NBF", "LBF"}

(* From w to v the stream keeps its direction, its mode and its buffer,    *)
(* and an error that is set.                                               *)
Kin(w, v) ==
  /\ v.flags \cap Kinds = w.flags \cap Kinds
  /\ Has(w, "ERR") => Has(v, "ERR")
  /\ v.cap = w.cap

(* From w to v bs was written where the stream stood; or, n bytes being    *)
(* tried, some did not fit the device.                                     *)
SameError(w, v) == Has(v, "ERR") <=> Has(w, "ERR")

Wrote(w, v, bs) ==
  Out(v) = Overlay(Out(w), End(w), bs) /\ End(v) = End(w) + Len(bs) /\ SameError(w, v)

Lost(w, v, n) == Has(v, "ERR") /\ End(w) + n > DiskSize

LEMMA KinTrans ==
  ASSUME NEW w, NEW u, NEW v, Kin(w, u), Kin(u, v)
  PROVE  Kin(w, v)
BY DEF Kin

(* A world with other flags. *)
LEMMA SetIs ==
  ASSUME NEW w \in Worlds, NEW on \in SUBSET Flags, NEW off
  PROVE  /\ Set(w, on, off) \in Worlds
         /\ Set(w, on, off).flags = (w.flags \ off) \cup on
         /\ Set(w, on, off).cnt = w.cnt /\ Set(w, on, off).ptr = w.ptr /\ Set(w, on, off).cap = w.cap
         /\ Set(w, on, off).buf = w.buf /\ Set(w, on, off).file = w.file /\ Set(w, on, off).pos = w.pos
BY DEF Set, Worlds

(* What waits in the buffer. *)
LEMMA PndIs ==
  ASSUME NEW w \in Worlds, w.ptr <= w.cap
  PROVE  /\ Pnd(w) \in Seq(Bytes) /\ Out(w) \in Seq(Bytes) /\ End(w) \in Nat
         /\ Pnd(w) # << >> => Len(Out(w)) >= End(w)
         /\ SubSeq(w.buf, 1, w.ptr) \in Seq(Bytes) /\ Len(SubSeq(w.buf, 1, w.ptr)) = w.ptr
         /\ \A k \in 1 .. w.ptr : SubSeq(w.buf, 1, w.ptr)[k] = w.buf[k]
         /\ w.ptr = 0 => Pnd(w) = << >> /\ SubSeq(w.buf, 1, w.ptr) = << >>
         /\ Pnd(w) = << >> => Out(w) = w.file /\ End(w) = w.pos
<1>1. w.buf \in Seq(Bytes) /\ Len(w.buf) = BigBuf /\ w.ptr \in Nat /\ w.ptr <= BigBuf
  <2>1. w.buf \in [1 .. BigBuf -> Bytes] /\ w.cap \in {0, SbufSiz, BigBuf} /\ w.ptr \in Nat
    BY DEF Worlds
  <2> QED BY <2>1, Sizes, IsSeq
<1>2. SubSeq(w.buf, 1, w.ptr) \in Seq(Bytes) /\ Len(SubSeq(w.buf, 1, w.ptr)) = w.ptr
  <2>1. SubSeq(w.buf, 0 + 1, w.ptr) \in Seq(Bytes) /\ Len(SubSeq(w.buf, 0 + 1, w.ptr)) = w.ptr - 0
    BY <1>1, SubSeqIs
  <2> QED BY <1>1, <2>1
<1>3. \A k \in 1 .. w.ptr : SubSeq(w.buf, 1, w.ptr)[k] = w.buf[k]
  BY <1>1
<1>4. w.ptr = 0 => SubSeq(w.buf, 1, w.ptr) = << >>
  BY <1>1, <1>2
<1>5. Pnd(w) \in Seq(Bytes) /\ (w.ptr = 0 => Pnd(w) = << >>)
  BY <1>2, <1>4 DEF Pnd
<1>6. w.file \in Seq(Bytes) /\ w.pos \in Nat
  BY DEF Worlds
<1>7. Out(w) \in Seq(Bytes) /\ End(w) \in Nat /\ (Pnd(w) # << >> => Len(Out(w)) >= End(w))
  BY <1>5, <1>6, OverlayIs DEF Out, End
<1>8. Pnd(w) = << >> => Out(w) = w.file /\ End(w) = w.pos
  <2>1. Len(<< >>) = 0
    OBVIOUS
  <2> QED BY <1>6, <2>1, OverlayNothing DEF Out, End
<1> QED BY <1>2, <1>3, <1>4, <1>5, <1>7, <1>8

(* The device takes all, or less and the error is set. *)
LEMMA DevWriteIs ==
  ASSUME NEW w \in Worlds, NEW bs \in Seq(Bytes), Len(w.file) <= DiskSize
  PROVE  LET v == DevWrite(w, bs)
         IN  /\ v \in Worlds /\ Len(v.file) <= DiskSize
             /\ v.cnt = w.cnt /\ v.ptr = w.ptr /\ v.cap = w.cap /\ v.buf = w.buf
             /\ \/ /\ Fitting(w, bs) = bs /\ v.flags = w.flags
                   /\ v.file = Overlay(w.file, w.pos, bs) /\ v.pos = w.pos + Len(bs)
                \/ /\ Fitting(w, bs) # bs /\ v.flags = w.flags \cup {"ERR"}
                   /\ bs # << >> /\ w.pos + Len(bs) > DiskSize
<1> DEFINE fit == Fitting(w, bs)
           v == DevWrite(w, bs)
           room == IF w.pos < DiskSize THEN DiskSize - w.pos ELSE 0
<1>0. DiskSize \in Nat /\ w.pos \in Nat /\ w.file \in Seq(Bytes) /\ Len(bs) \in Nat /\ Len(w.file) \in Nat
  BY Sizes DEF Worlds
<1>1. w.pos + Len(bs) <= DiskSize => fit = bs
  BY <1>0 DEF Fitting
<1>7. bs = << >> => fit = bs
  BY <1>0 DEF Fitting
<1>2. fit \in Seq(Bytes) /\ (fit = << >> \/ w.pos + Len(fit) <= DiskSize)
  BY <1>0 DEF Fitting
<1> HIDE DEF fit
<1>3. /\ v \in Worlds /\ v.cnt = w.cnt /\ v.ptr = w.ptr /\ v.cap = w.cap /\ v.buf = w.buf
      /\ v.flags = w.flags \cup (IF fit = bs THEN {} ELSE {"ERR"})
      /\ v.file = Overlay(w.file, w.pos, fit) /\ v.pos = w.pos + Len(fit)
  <2> DEFINE on == IF fit = bs THEN {} ELSE {"ERR"}
             s == Set(w, on, {})
  <2>1. on \in SUBSET Flags
    BY DEF Flags
  <2> HIDE DEF on
  <2>2. /\ s \in Worlds /\ s.flags = w.flags \cup on /\ s.cnt = w.cnt /\ s.ptr = w.ptr /\ s.cap = w.cap
        /\ s.buf = w.buf /\ s.file = w.file /\ s.pos = w.pos
    BY <2>1, SetIs
  <2> HIDE DEF s
  <2>3. v = [s EXCEPT !.file = Overlay(@, w.pos, fit), !.pos = @ + Len(fit)]
    BY DEF DevWrite, fit, s, on
  <2>4. Overlay(w.file, w.pos, fit) \in Seq(Bytes) /\ w.pos + Len(fit) \in Nat
    BY <1>0, <1>2, OverlayIs
  <2> HIDE DEF v
  <2> QED BY <2>2, <2>3, <2>4 DEF Worlds, on
<1> HIDE DEF v
<1>4. Len(v.file) <= DiskSize
  BY <1>0, <1>2, <1>3, OverlayIs
<1>5. fit = bs => v.flags = w.flags
  BY <1>3
<1>6. fit # bs => bs # << >> /\ w.pos + Len(bs) > DiskSize
  BY <1>0, <1>1, <1>7
<1> QED BY <1>3, <1>4, <1>5, <1>6 DEF fit, v

-----------------------------------------------------------------------------
(* A stream that may be written: what wrtchk leaves.  What is not counted  *)
(* by cnt is the room in the buffer of a fully buffered stream.            *)
Ready(w) ==
  /\ Sized(w) /\ Has(w, "WRT") /\ ~Has(w, "READ") /\ w.cap # 0
  /\ Sloppy(w) => w.cnt <= 0
  /\ Unbuffered(w) => w.ptr = 0

Counted(w) == ~Sloppy(w) => w.cnt = w.cap - w.ptr

(* The fields of a world. *)
LEMMA Fields ==
  ASSUME NEW w \in Worlds
  PROVE  /\ w.flags \in SUBSET Flags /\ w.cnt \in Int /\ w.ptr \in Nat /\ w.cap \in Nat
         /\ w.cap \in {0, SbufSiz, BigBuf} /\ w.cap <= BigBuf
         /\ w.buf \in [1 .. BigBuf -> Bytes] /\ w.file \in Seq(Bytes) /\ w.pos \in Nat
         /\ Len(w.file) \in Nat
<1>1. w.flags \in SUBSET Flags /\ w.cnt \in Int /\ w.ptr \in Nat /\ w.cap \in {0, SbufSiz, BigBuf}
      /\ w.buf \in [1 .. BigBuf -> Bytes] /\ w.file \in Seq(Bytes) /\ w.pos \in Nat
  BY DEF Worlds
<1> QED BY <1>1, Sizes

(* Kin streams agree on direction and mode. *)
LEMMA KinIs ==
  ASSUME NEW w, NEW v, Kin(w, v)
  PROVE  /\ Has(v, "READ") <=> Has(w, "READ")
         /\ Has(v, "WRT") <=> Has(w, "WRT")
         /\ Has(v, "RW") <=> Has(w, "RW")
         /\ Has(v, "NBF") <=> Has(w, "NBF")
         /\ Unbuffered(v) <=> Unbuffered(w)
         /\ Has(v, "LBF") <=> Has(w, "LBF")
         /\ Sloppy(v) <=> Sloppy(w)
<1>1. ASSUME NEW f \in Kinds PROVE Has(v, f) <=> Has(w, f)
  BY DEF Kin, Has
<1> QED BY <1>1 DEF Kinds, Unbuffered, Sloppy, Has

(* Nothing pending: what is written to the device is written. *)
LEMMA WrittenThrough ==
  ASSUME NEW w \in Worlds, NEW v \in Worlds, w.ptr <= w.cap, v.ptr <= v.cap, NEW bs \in Seq(Bytes),
         Pnd(w) = << >>, Pnd(v) = << >>,
         v.file = Overlay(w.file, w.pos, bs), v.pos = w.pos + Len(bs), SameError(w, v)
  PROVE  Wrote(w, v, bs)
BY PndIs DEF Wrote

(* writebuf: the buffer is empty, and its bytes on the device or lost. *)
LEMMA WriteBufIs ==
  ASSUME NEW w, Ready(w), ~Unbuffered(w)
  PROVE  LET v == WriteBuf(w)
         IN  /\ Ready(v) /\ Counted(v) /\ v.ptr = 0 /\ Kin(w, v) /\ v.buf = w.buf /\ Pnd(v) = << >>
             /\ \/ ~WriteFails(w) /\ Out(v) = Out(w) /\ End(v) = End(w) /\ SameError(w, v)
                \/ WriteFails(w) /\ Has(v, "ERR") /\ End(w) > DiskSize /\ Pnd(w) # << >>
<1> DEFINE out == SubSeq(w.buf, 1, w.ptr)
           w1 == [w EXCEPT !.ptr = 0, !.cnt = IF Sloppy(w) THEN 0 ELSE w.cap]
           v == WriteBuf(w)
<1>1. w \in Worlds /\ w.ptr <= w.cap /\ Len(w.file) <= DiskSize
  BY DEF Ready, Sized
<1>2. out \in Seq(Bytes) /\ Pnd(w) = out /\ (out = << >> <=> w.ptr = 0)
  <2>1. Pnd(w) = out
    BY DEF Pnd, Ready
  <2>2. out \in Seq(Bytes) /\ Len(out) = w.ptr /\ (w.ptr = 0 => out = << >>)
    BY <1>1, PndIs
  <2> QED BY <2>1, <2>2
<1>3. /\ w1 \in Worlds /\ w1.flags = w.flags /\ w1.ptr = 0 /\ w1.cap = w.cap /\ w1.buf = w.buf
      /\ w1.file = w.file /\ w1.pos = w.pos /\ w1.cnt = IF Sloppy(w) THEN 0 ELSE w.cap
  <2>1. w.cap \in Int /\ 0 \in Nat /\ 0 \in Int
    BY <1>1, Fields
  <2> QED BY <1>1, <2>1 DEF Worlds
<1>5. v = IF out = << >> THEN w1 ELSE DevWrite(w1, out)
  BY DEF WriteBuf
<1> HIDE DEF out, w1, v
<1>4. Fitting(w1, out) = Fitting(w, out)
  BY <1>3 DEF Fitting
<1>6. /\ v \in Worlds /\ Len(v.file) <= DiskSize
      /\ v.ptr = 0 /\ v.cap = w.cap /\ v.buf = w.buf /\ v.cnt = IF Sloppy(w) THEN 0 ELSE w.cap
      /\ \/ /\ ~WriteFails(w) /\ v.flags = w.flags
            /\ v.file = Overlay(w.file, w.pos, out) /\ v.pos = w.pos + Len(out)
         \/ /\ WriteFails(w) /\ v.flags = w.flags \cup {"ERR"}
            /\ out # << >> /\ w.pos + Len(out) > DiskSize
  <2>1. CASE out = << >>
    <3>1. Fitting(w, out) = out
      <4>1. Len(<< >>) = 0 /\ SubSeq(<< >>, 1, 0) = << >>
        OBVIOUS
      <4>2. \A n \in Nat : SubSeq(<< >>, 1, n) = << >>
        OBVIOUS
      <4>3. w.pos \in Nat /\ DiskSize \in Nat
        BY <1>1, Fields, Sizes
      <4> QED BY <2>1, <4>1, <4>2, <4>3 DEF Fitting
    <3>2. ~WriteFails(w)
      BY <3>1 DEF WriteFails, out
    <3>3. Overlay(w.file, w.pos, out) = w.file /\ w.pos + Len(out) = w.pos
      <4>1. Len(<< >>) = 0
        OBVIOUS
      <4> QED BY <1>1, <2>1, <4>1, Fields, OverlayNothing
    <3> QED BY <1>1, <1>3, <1>5, <2>1, <3>2, <3>3
  <2>2. CASE out # << >>
    <3> DEFINE d == DevWrite(w1, out)
    <3>1. /\ d \in Worlds /\ Len(d.file) <= DiskSize
          /\ d.cnt = w1.cnt /\ d.ptr = w1.ptr /\ d.cap = w1.cap /\ d.buf = w1.buf
          /\ \/ /\ Fitting(w1, out) = out /\ d.flags = w1.flags
                /\ d.file = Overlay(w1.file, w1.pos, out) /\ d.pos = w1.pos + Len(out)
             \/ /\ Fitting(w1, out) # out /\ d.flags = w1.flags \cup {"ERR"}
                /\ out # << >> /\ w1.pos + Len(out) > DiskSize
      BY <1>1, <1>2, <1>3, DevWriteIs
    <3> HIDE DEF d
    <3>2. v = d
      BY <1>5, <2>2 DEF d
    <3>3. WriteFails(w) <=> Fitting(w1, out) # out
      BY <1>4 DEF WriteFails, out
    <3> QED BY <1>3, <3>1, <3>2, <3>3
  <2> QED BY <2>1, <2>2
<1>7. Kin(w, v)
  BY <1>6 DEF Kin, Kinds, Has
<1>8. Ready(v) /\ Counted(v)
  <2>1. w.cap \in Nat
    BY <1>1, Fields
  <2>2. /\ Has(v, "READ") <=> Has(w, "READ")
        /\ Has(v, "WRT") <=> Has(w, "WRT")
        /\ Has(v, "NBF") <=> Has(w, "NBF")
        /\ Has(v, "LBF") <=> Has(w, "LBF")
        /\ Sloppy(v) <=> Sloppy(w)
    BY <1>7, KinIs
  <2>3. v.cnt <= v.cap /\ v.ptr <= v.cap /\ (Sloppy(v) => v.cnt <= 0) /\ (~Sloppy(v) => v.cnt = v.cap - v.ptr)
    BY <1>6, <2>1, <2>2
  <2> QED BY <1>6, <2>2, <2>3 DEF Ready, Counted, Sized
<1>9. Pnd(v) = << >>
  BY <1>6, PndIs, Fields
<1>10. ASSUME ~WriteFails(w)
       PROVE  Out(v) = Out(w) /\ End(v) = End(w) /\ SameError(w, v)
  <2>1. Out(v) = v.file /\ End(v) = v.pos
    BY <1>6, <1>9, PndIs, Fields
  <2> QED BY <1>2, <1>6, <1>10, <2>1 DEF Out, End, SameError, Has
<1>11. ASSUME WriteFails(w) PROVE Has(v, "ERR") /\ End(w) > DiskSize /\ Pnd(w) # << >>
  BY <1>2, <1>6, <1>11 DEF Has, End
<1> QED BY <1>6, <1>7, <1>8, <1>9, <1>10, <1>11 DEF v

(* Store: the byte waits behind the others. *)
LEMMA StoreIs ==
  ASSUME NEW w, Ready(w), ~Unbuffered(w), w.ptr < w.cap, NEW c \in Bytes
  PROVE  LET v == Store(w, c)
         IN  /\ Ready(v) /\ (Counted(w) => Counted(v)) /\ Kin(w, v) /\ v.flags = w.flags
             /\ v.ptr = w.ptr + 1 /\ v.buf[v.ptr] = c
             /\ \A k \in 1 .. w.ptr : v.buf[k] = w.buf[k]
             /\ Wrote(w, v, <<c>>)
<1> DEFINE v == Store(w, c)
<1>1. w \in Worlds /\ w.ptr <= w.cap /\ w.ptr \in Nat /\ w.cap \in Nat /\ w.cnt \in Int /\ w.cap <= BigBuf
      /\ w.buf \in [1 .. BigBuf -> Bytes] /\ BigBuf \in Nat /\ w.file \in Seq(Bytes) /\ w.pos \in Nat
  BY Fields, Sizes DEF Ready, Sized
<1>2. /\ v \in Worlds /\ v.flags = w.flags /\ v.ptr = w.ptr + 1 /\ v.cnt = w.cnt - 1 /\ v.cap = w.cap
      /\ v.buf = [w.buf EXCEPT ![w.ptr + 1] = c] /\ v.file = w.file /\ v.pos = w.pos
  <2>1. [w.buf EXCEPT ![w.ptr + 1] = c] \in [1 .. BigBuf -> Bytes] /\ w.ptr + 1 \in Nat /\ w.cnt - 1 \in Int
    BY <1>1
  <2> QED BY <1>1, <2>1 DEF Store, Worlds
<1> HIDE DEF v
<1>3. v.buf[v.ptr] = c /\ \A k \in 1 .. w.ptr : v.buf[k] = w.buf[k]
  BY <1>1, <1>2
<1>4. Kin(w, v) /\ SameError(w, v)
  BY <1>2 DEF Kin, SameError, Has
<1>5. Ready(v) /\ (Counted(w) => Counted(v))
  <2>1. /\ Has(v, "READ") <=> Has(w, "READ")
        /\ Has(v, "WRT") <=> Has(w, "WRT")
        /\ Has(v, "NBF") <=> Has(w, "NBF")
        /\ Has(v, "LBF") <=> Has(w, "LBF")
        /\ Sloppy(v) <=> Sloppy(w)
    BY <1>4, KinIs
  <2>2. v.cnt <= v.cap /\ v.ptr <= v.cap /\ (Sloppy(v) => v.cnt <= 0)
    BY <1>1, <1>2, <2>1 DEF Ready, Sized
  <2>3. Counted(w) => Counted(v)
    BY <1>1, <1>2, <2>1 DEF Counted
  <2>4. Ready(v)
    BY <1>2, <2>1, <2>2 DEF Ready, Sized, Unbuffered
  <2> QED BY <2>3, <2>4
<1>6. Pnd(v) = Pnd(w) \o <<c>>
  <2>1. Pnd(w) = SubSeq(w.buf, 1, w.ptr) /\ Pnd(v) = SubSeq(v.buf, 1, v.ptr)
    BY <1>4, <1>5, KinIs DEF Pnd, Ready
  <2>2. /\ Pnd(w) \in Seq(Bytes) /\ Len(Pnd(w)) = w.ptr /\ \A k \in 1 .. w.ptr : Pnd(w)[k] = w.buf[k]
        /\ Pnd(v) \in Seq(Bytes) /\ Len(Pnd(v)) = v.ptr /\ \A k \in 1 .. v.ptr : Pnd(v)[k] = v.buf[k]
    <3>1. v.ptr <= v.cap
      BY <1>1, <1>2
    <3>2. /\ SubSeq(w.buf, 1, w.ptr) \in Seq(Bytes) /\ Len(SubSeq(w.buf, 1, w.ptr)) = w.ptr
          /\ \A k \in 1 .. w.ptr : SubSeq(w.buf, 1, w.ptr)[k] = w.buf[k]
      BY <1>1, PndIs, Zenon
    <3>3. /\ SubSeq(v.buf, 1, v.ptr) \in Seq(Bytes) /\ Len(SubSeq(v.buf, 1, v.ptr)) = v.ptr
          /\ \A k \in 1 .. v.ptr : SubSeq(v.buf, 1, v.ptr)[k] = v.buf[k]
      BY <1>2, <3>1, PndIs, Zenon
    <3> QED BY <2>1, <3>2, <3>3, Zenon
  <2> DEFINE x == Pnd(w) \o <<c>>
  <2>3. /\ x \in Seq(Bytes) /\ Len(x) = w.ptr + 1
        /\ \A k \in 1 .. w.ptr : x[k] = Pnd(w)[k]
        /\ x[w.ptr + 1] = c
    BY <1>1, <2>2
  <2> HIDE DEF x
  <2>4. ASSUME NEW k \in 1 .. (w.ptr + 1) PROVE Pnd(v)[k] = x[k]
    <3>1. k = w.ptr + 1 \/ k \in 1 .. w.ptr
      BY <1>1
    <3>2. CASE k = w.ptr + 1
      <4>1. k \in 1 .. v.ptr
        BY <1>1, <1>2, <3>2
      <4> QED BY <1>2, <1>3, <2>2, <2>3, <3>2, <4>1
    <3>3. CASE k \in 1 .. w.ptr
      <4>1. k \in 1 .. v.ptr
        BY <1>1, <1>2, <3>3
      <4> QED BY <1>2, <1>3, <2>2, <2>3, <3>3, <4>1
    <3> QED BY <3>1, <3>2, <3>3
  <2>5. Len(Pnd(v)) = Len(x) /\ Len(x) = w.ptr + 1
    BY <1>2, <2>2, <2>3
  <2>6. Pnd(v) = x
    BY <2>2, <2>3, <2>4, <2>5, SameSeq
  <2> QED BY <2>6 DEF x
<1>7. Wrote(w, v, <<c>>)
  <2>1. Pnd(w) \in Seq(Bytes) /\ <<c>> \in Seq(Bytes) /\ Len(<<c>>) = 1
    BY <1>1, PndIs
  <2>2. Overlay(w.file, w.pos, Pnd(w) \o <<c>>) = Overlay(Overlay(w.file, w.pos, Pnd(w)), w.pos + Len(Pnd(w)), <<c>>)
    BY <1>1, <2>1, OverlayTwice
  <2>3. Len(Pnd(w) \o <<c>>) = Len(Pnd(w)) + 1 /\ Len(Pnd(w)) \in Nat
    BY <2>1
  <2>4. Out(v) = Overlay(Out(w), End(w), <<c>>)
    BY <1>2, <1>6, <2>2 DEF Out, End
  <2>5. End(v) = End(w) + Len(<<c>>)
    <3>1. Len(Pnd(v)) = Len(Pnd(w)) + 1
      BY <1>6, <2>3
    <3>2. End(v) = w.pos + (Len(Pnd(w)) + 1) /\ End(w) = w.pos + Len(Pnd(w))
      BY <1>2, <3>1 DEF End
    <3>3. w.pos \in Nat /\ Len(Pnd(w)) \in Nat
      BY <1>1, <2>3
    <3> QED BY <2>1, <3>2, <3>3
  <2> QED BY <1>4, <2>4, <2>5 DEF Wrote
<1> QED BY <1>2, <1>3, <1>4, <1>5, <1>7 DEF v

(* addbuf: a stream without a buffer has an empty one. *)
LEMMA AddBufIs ==
  ASSUME NEW w, Sized(w)
  PROVE  LET v == AddBuf(w)
         IN  /\ Sized(v) /\ v.cap # 0 /\ v.ptr = w.ptr /\ v.cnt = w.cnt /\ v.flags = w.flags
             /\ v.buf = w.buf /\ v.file = w.file /\ v.pos = w.pos
             /\ w.cap # 0 => v.cap = w.cap
<1>1. w \in Worlds /\ w.ptr <= w.cap /\ w.ptr \in Nat /\ w.cap \in Nat
  BY Fields DEF Sized
<1>2. SbufSiz \in Nat /\ BigBuf \in Nat /\ SbufSiz # 0 /\ BigBuf # 0
  BY Sizes
<1>3. CASE w.cap # 0
  BY <1>3 DEF AddBuf
<1>4. CASE w.cap = 0
  <2> DEFINE v == AddBuf(w)
             n == IF Unbuffered(w) \/ ~grant THEN SbufSiz ELSE BigBuf
  <2>1. v = [w EXCEPT !.cap = n, !.ptr = 0] /\ n \in {SbufSiz, BigBuf}
    BY <1>4 DEF AddBuf
  <2> HIDE DEF n, v
  <2>2. v \in Worlds /\ v.cap = n /\ v.ptr = 0 /\ v.cnt = w.cnt /\ v.flags = w.flags
        /\ v.buf = w.buf /\ v.file = w.file /\ v.pos = w.pos
    BY <1>1, <2>1 DEF Worlds
  <2>3. w.ptr = 0 /\ w.cnt <= 0 /\ w.cnt \in Int
    BY <1>1, <1>4, Fields DEF Sized
  <2> QED BY <1>2, <1>4, <2>1, <2>2, <2>3 DEF Sized, Has, v
<1> QED BY <1>3, <1>4

(* Bytes written in two steps. *)
LEMMA WroteTrans ==
  ASSUME NEW w \in Worlds, NEW u \in Worlds, NEW v \in Worlds,
         w.ptr <= w.cap, u.ptr <= u.cap, v.ptr <= v.cap,
         NEW a \in Seq(Bytes), NEW b \in Seq(Bytes), Wrote(w, u, a), Wrote(u, v, b)
  PROVE  Wrote(w, v, a \o b)
<1>1. /\ Out(w) \in Seq(Bytes) /\ End(w) \in Nat /\ Len(a) \in Nat /\ Len(b) \in Nat
      /\ Len(a \o b) = Len(a) + Len(b)
  BY PndIs
<1>2. Overlay(Overlay(Out(w), End(w), a), End(w) + Len(a), b) = Overlay(Out(w), End(w), a \o b)
  BY <1>1, OverlayTwice
<1>3. Out(v) = Overlay(Out(w), End(w), a \o b)
  BY <1>2 DEF Wrote
<1>4. End(v) = End(w) + Len(a \o b)
  <2>1. End(v) = (End(w) + Len(a)) + Len(b)
    BY DEF Wrote
  <2> HIDE DEF End
  <2> QED BY <1>1, <2>1
<1> QED BY <1>3, <1>4 DEF Wrote, SameError

(* Nothing written. *)
LEMMA WroteNothing ==
  ASSUME NEW w \in Worlds, NEW v, w.ptr <= w.cap, Out(v) = Out(w), End(v) = End(w), SameError(w, v)
  PROVE  Wrote(w, v, << >>)
<1>1. Out(w) \in Seq(Bytes) /\ End(w) \in Nat
  BY PndIs
<1>2. Overlay(Out(w), End(w), << >>) = Out(w)
  BY <1>1, OverlayNothing
<1>3. Len(<< >>) = 0 /\ End(w) + 0 = End(w)
  BY <1>1
<1> QED BY <1>2, <1>3 DEF Wrote

(* First nothing, then bytes. *)
LEMMA WroteAfter ==
  ASSUME NEW w, NEW u, NEW v, NEW bs, Out(u) = Out(w), End(u) = End(w), SameError(w, u), Wrote(u, v, bs)
  PROVE  Wrote(w, v, bs)
BY DEF Wrote, SameError

(* First bytes, then nothing. *)
LEMMA WroteBefore ==
  ASSUME NEW w, NEW u, NEW v, NEW bs, Out(v) = Out(u), End(v) = End(u), SameError(u, v), Wrote(w, u, bs)
  PROVE  Wrote(w, v, bs)
BY DEF Wrote, SameError

(* A stream that is ready and counted is in order. *)
LEMMA ReadyOK ==
  ASSUME NEW w, Ready(w), Counted(w), LineOK(w)
  PROVE  WorldOK(w)
BY DEF Ready, Counted, WorldOK, ReaderOK, WriterOK

(* wrtchk: the stream is ready, and what is written stays as it was. *)
LEMMA WrtChkIs ==
  ASSUME NEW w, Sized(w), ~Has(w, "READ"), ~Has(w, "WRT") => w.ptr = 0, Unbuffered(w) => w.ptr = 0,
         Sloppy(w) => w.cnt <= 0
  PROVE  LET v == WrtChk(w)
         IN  /\ Ready(v) /\ v.ptr = w.ptr /\ v.buf = w.buf
             /\ Has(v, "NBF") <=> Has(w, "NBF")
             /\ Has(v, "LBF") <=> Has(w, "LBF")
             /\ Has(v, "RW") <=> Has(w, "RW")
             /\ Out(v) = Out(w) /\ End(v) = End(w) /\ SameError(w, v)
             /\ w.ptr = 0 \/ w.cnt = w.cap - w.ptr => Counted(v)
<1> DEFINE s == IF Has(w, "WRT") /\ ~Has(w, "EOF") THEN w ELSE Set(w, {"WRT"}, {"EOF"})
           x == AddBuf(s)
           v == WrtChk(w)
<1>1. w \in Worlds /\ w.ptr <= w.cap /\ w.ptr \in Nat /\ w.cap \in Nat /\ w.cnt \in Int /\ w.flags \in SUBSET Flags
  BY Fields DEF Sized
<1>2. /\ s \in Worlds /\ s.cnt = w.cnt /\ s.ptr = w.ptr /\ s.cap = w.cap
      /\ s.buf = w.buf /\ s.file = w.file /\ s.pos = w.pos
  <2> DEFINE z == Set(w, {"WRT"}, {"EOF"})
  <2>1. {"WRT"} \in SUBSET Flags
    BY DEF Flags
  <2>2. /\ z \in Worlds /\ z.cnt = w.cnt /\ z.ptr = w.ptr /\ z.cap = w.cap
        /\ z.buf = w.buf /\ z.file = w.file /\ z.pos = w.pos
    <3>1. (w.flags \ {"EOF"}) \cup {"WRT"} \in SUBSET Flags
      BY <1>1, <2>1
    <3>2. z = [w EXCEPT !.flags = (w.flags \ {"EOF"}) \cup {"WRT"}]
      BY DEF Set
    <3> HIDE DEF z
    <3> QED BY <1>1, <3>1, <3>2 DEF Worlds
  <2>3. s = w \/ s = z
    OBVIOUS
  <2> HIDE DEF z, s
  <2> QED BY <1>1, <2>2, <2>3
<1>3. /\ Has(s, "WRT")
      /\ \A f \in {"READ", "RW", "NBF", "LBF", "ERR"} : Has(s, f) <=> Has(w, f)
  <2>1. s.flags = w.flags \/ s.flags = (w.flags \ {"EOF"}) \cup {"WRT"}
    <3>1. {"WRT"} \in SUBSET Flags
      BY DEF Flags
    <3> QED BY <1>1, <3>1, SetIs
  <2>2. Has(s, "WRT")
    BY <1>1, SetIs DEF Has, Set, Worlds
  <2> HIDE DEF s
  <2> QED BY <2>1, <2>2 DEF Has
<1> HIDE DEF s
<1>4. Sized(s)
  BY <1>2, <1>3 DEF Sized
<1>5. /\ Sized(x) /\ x.cap # 0 /\ x.ptr = w.ptr /\ x.cnt = w.cnt /\ x.flags = s.flags
      /\ x.buf = w.buf /\ x.file = w.file /\ x.pos = w.pos
      /\ w.cap # 0 => x.cap = w.cap
  <2>1. /\ Sized(x) /\ x.cap # 0 /\ x.ptr = s.ptr /\ x.cnt = s.cnt /\ x.flags = s.flags
        /\ x.buf = s.buf /\ x.file = s.file /\ x.pos = s.pos
        /\ s.cap # 0 => x.cap = s.cap
    BY <1>4, AddBufIs
  <2> HIDE DEF x
  <2> QED BY <1>2, <2>1
<1>6. v = IF x.ptr = 0 /\ ~Sloppy(x) THEN [x EXCEPT !.cnt = x.cap] ELSE x
  BY DEF WrtChk, s
<1> HIDE DEF x, v
<1>7. /\ v \in Worlds /\ v.flags = s.flags /\ v.ptr = w.ptr /\ v.cap = x.cap /\ v.buf = w.buf
      /\ v.file = w.file /\ v.pos = w.pos
      /\ v.cnt = IF x.ptr = 0 /\ ~Sloppy(x) THEN x.cap ELSE w.cnt
  <2>1. x \in Worlds /\ x.cap \in Int
    BY <1>5, Fields DEF Sized
  <2> QED BY <1>5, <1>6, <2>1 DEF Worlds
<1>8. /\ Has(v, "WRT")
      /\ Has(v, "READ") <=> Has(w, "READ")
      /\ Has(v, "NBF") <=> Has(w, "NBF")
      /\ Has(v, "LBF") <=> Has(w, "LBF")
      /\ Has(v, "RW") <=> Has(w, "RW")
      /\ Has(v, "ERR") <=> Has(w, "ERR")
      /\ Sloppy(x) <=> Sloppy(w)
      /\ Sloppy(v) <=> Sloppy(w)
  BY <1>3, <1>5, <1>7 DEF Has, Sloppy
<1>9. x.cap \in Nat /\ x.cnt <= x.cap /\ x.ptr <= x.cap /\ Len(x.file) <= DiskSize
  BY <1>5, Fields DEF Sized
<1>10. Ready(v)
  <2>1. Sized(v)
    BY <1>1, <1>4, <1>5, <1>7, <1>8, <1>9 DEF Sized
  <2> QED BY <1>5, <1>7, <1>8, <2>1 DEF Ready, Unbuffered
<1>11. Pnd(v) = Pnd(w)
  <2>1. CASE w.ptr = 0
    <3>1. Pnd(w) = << >>
      BY <1>1, <2>1, PndIs
    <3>2. Pnd(v) = << >>
      <4>1. v.ptr <= v.cap /\ v.ptr = 0
        BY <1>5, <1>7, <1>9, <2>1
      <4> QED BY <1>7, <4>1, PndIs
    <3> QED BY <3>1, <3>2
  <2>2. CASE w.ptr # 0
    <3>1. Has(w, "WRT") /\ w.cap # 0 /\ x.cap # 0
      BY <1>1, <1>5, <2>2
    <3> QED BY <1>7, <1>8, <3>1 DEF Pnd, Unbuffered
  <2> QED BY <2>1, <2>2
<1>12. Out(v) = Out(w) /\ End(v) = End(w) /\ SameError(w, v)
  BY <1>7, <1>8, <1>11 DEF Out, End, SameError
<1>13. ASSUME w.ptr = 0 \/ w.cnt = w.cap - w.ptr PROVE Counted(v)
  <2> SUFFICES ASSUME ~Sloppy(v) PROVE v.cnt = v.cap - v.ptr
    BY DEF Counted
  <2>1. CASE w.ptr = 0
    BY <1>5, <1>7, <1>8, <1>9, <2>1
  <2>2. CASE w.ptr # 0
    <3>1. w.cap # 0
      BY <1>1, <2>2
    <3> QED BY <1>1, <1>5, <1>7, <1>8, <1>13, <2>2, <3>1
  <2> QED BY <2>1, <2>2
<1> QED BY <1>7, <1>8, <1>10, <1>12, <1>13 DEF v

(* A byte in a line: a newline sends the line out. *)
LEMMA StoreInLineIs ==
  ASSUME NEW w, Ready(w), ~Unbuffered(w), Has(w, "LBF"), w.ptr < w.cap, LineOK(w), NEW c \in Bytes
  PROVE  LET v == StoreInLine(w, c)
         IN  Ready(v) /\ Kin(w, v) /\ LineOK(v) /\ (Wrote(w, v, <<c>>) \/ Lost(w, v, 1))
<1> DEFINE u == Store(w, c)
<1>1. /\ Ready(u) /\ Kin(w, u) /\ u.flags = w.flags /\ u.ptr = w.ptr + 1 /\ u.buf[u.ptr] = c
      /\ \A k \in 1 .. w.ptr : u.buf[k] = w.buf[k]
      /\ Wrote(w, u, <<c>>)
  BY StoreIs
<1>2. w.ptr \in Nat
  BY Fields DEF Ready, Sized
<1> HIDE DEF u
<1>3. CASE c # NL
  <2>1. LineOK(u)
    <3> SUFFICES ASSUME NEW k \in 1 .. u.ptr PROVE u.buf[k] # NL
      BY DEF LineOK
    <3>1. k \in 1 .. w.ptr \/ k = u.ptr
      BY <1>1, <1>2
    <3>2. k \in 1 .. w.ptr => w.buf[k] # NL
      BY DEF LineOK, Ready
    <3> QED BY <1>1, <1>3, <3>1, <3>2
  <2>2. StoreInLine(w, c) = u
    BY <1>3 DEF StoreInLine, u
  <2> QED BY <1>1, <2>1, <2>2
<1>4. CASE c = NL
  <2> DEFINE v == WriteBuf(u)
  <2>1. StoreInLine(w, c) = v
    BY <1>4 DEF StoreInLine, u
  <2>2. ~Unbuffered(u)
    BY <1>1, KinIs
  <2>3. /\ Ready(v) /\ v.ptr = 0 /\ Kin(u, v)
        /\ \/ Out(v) = Out(u) /\ End(v) = End(u) /\ SameError(u, v)
           \/ Has(v, "ERR") /\ End(u) > DiskSize
    BY <1>1, <2>2, WriteBufIs
  <2> HIDE DEF v
  <2>4. LineOK(v) /\ Kin(w, v)
    BY <1>1, <2>3, KinTrans DEF LineOK
  <2>5. ASSUME Out(v) = Out(u) /\ End(v) = End(u) /\ SameError(u, v) PROVE Wrote(w, v, <<c>>)
    BY <1>1, <2>5, WroteBefore
  <2>6. ASSUME Has(v, "ERR") /\ End(u) > DiskSize PROVE Lost(w, v, 1)
    <3>1. End(u) = End(w) + 1
      <4>1. Len(<<c>>) = 1
        OBVIOUS
      <4> QED BY <1>1, <4>1 DEF Wrote
    <3> QED BY <2>6, <3>1 DEF Lost
  <2> QED BY <2>1, <2>3, <2>4, <2>5, <2>6
<1> QED BY <1>3, <1>4

(* putc: whatever the buffering, the byte is written or lost. *)
LEMMA FlushBufIs ==
  ASSUME NEW w, Sized(w), ~Has(w, "READ"), ~Has(w, "WRT") => w.ptr = 0, Unbuffered(w) => w.ptr = 0,
         Sloppy(w) => w.cnt <= 0, LineOK(w), NEW c \in Bytes
  PROVE  LET v == FlushBuf(w, c)
         IN  /\ WorldOK(v) /\ Has(v, "WRT") /\ ~Has(v, "READ")
             /\ Has(v, "RW") <=> Has(w, "RW")
             /\ Wrote(w, v, <<c>>) \/ Lost(w, v, 1)
<1> DEFINE x == WrtChk(w)
           y == WriteBuf(x)
           v == FlushBuf(w, c)
<1>1. /\ Ready(x) /\ x.ptr = w.ptr /\ x.buf = w.buf
      /\ Has(x, "NBF") <=> Has(w, "NBF")
      /\ Has(x, "LBF") <=> Has(w, "LBF")
      /\ Has(x, "RW") <=> Has(w, "RW")
      /\ Out(x) = Out(w) /\ End(x) = End(w) /\ SameError(w, x)
  BY WrtChkIs
<1>2. v = IF Has(x, "LBF")
          THEN IF x.ptr < x.cap THEN StoreInLine(x, c) ELSE StoreInLine(y, c)
          ELSE IF Unbuffered(x) THEN DevWrite([x EXCEPT !.cnt = 0], <<c>>)
          ELSE Store(y, c)
  BY DEF FlushBuf
<1> HIDE DEF x, v
<1>3. x \in Worlds /\ x.ptr \in Nat /\ x.cap \in Nat /\ x.ptr <= x.cap /\ x.cap # 0 /\ Len(x.file) <= DiskSize
      /\ End(x) \in Nat /\ DiskSize \in Nat
  BY <1>1, Fields, PndIs, Sizes DEF Ready, Sized
<1>4. ASSUME ~Unbuffered(x)
      PROVE  /\ Ready(y) /\ Counted(y) /\ y.ptr = 0 /\ y.ptr < y.cap /\ Kin(x, y) /\ LineOK(y)
             /\ \/ Out(y) = Out(x) /\ End(y) = End(x) /\ SameError(x, y)
                \/ Has(y, "ERR") /\ End(x) > DiskSize
  <2>1. /\ Ready(y) /\ Counted(y) /\ y.ptr = 0 /\ Kin(x, y)
        /\ \/ Out(y) = Out(x) /\ End(y) = End(x) /\ SameError(x, y)
           \/ Has(y, "ERR") /\ End(x) > DiskSize
    BY <1>1, <1>4, WriteBufIs
  <2> HIDE DEF y
  <2>2. y.cap = x.cap
    BY <2>1 DEF Kin
  <2> QED BY <1>3, <2>1, <2>2 DEF LineOK
<1>5. LineOK(x) \/ ~Has(w, "WRT")
  BY <1>1 DEF LineOK
<1>6. LineOK(x)
  <2>1. ~Has(w, "WRT") => w.ptr = 0
    OBVIOUS
  <2> QED BY <1>1, <1>5, <2>1 DEF LineOK
<1> HIDE DEF y
  (* What is written or lost after y is written or lost after w.   *)
<1>7. ASSUME NEW z, Kin(y, z), ~Unbuffered(x), Wrote(y, z, <<c>>) \/ Lost(y, z, 1)
      PROVE  Wrote(w, z, <<c>>) \/ Lost(w, z, 1)
  <2>1. CASE Out(y) = Out(x) /\ End(y) = End(x) /\ SameError(x, y)
    <3>1. Out(y) = Out(w) /\ End(y) = End(w) /\ SameError(w, y)
      BY <1>1, <2>1 DEF SameError
    <3> QED BY <1>7, <3>1, WroteAfter DEF Lost
  <2>2. CASE Has(y, "ERR") /\ End(x) > DiskSize
    <3>1. Has(z, "ERR") /\ End(w) > DiskSize /\ End(w) \in Nat
      BY <1>1, <1>3, <1>7, <2>2 DEF Kin
    <3> QED BY <1>3, <3>1 DEF Lost
  <2> QED BY <1>4, <1>7, <2>1, <2>2
<1>8. ASSUME NEW z, Kin(x, z)
      PROVE  Has(z, "RW") <=> Has(w, "RW")
  BY <1>1, <1>8, KinIs
<1>9. CASE Has(x, "LBF")
  <2>1. ~Unbuffered(x)
    BY <1>1, <1>9 DEF Ready, Sized, Unbuffered
  <2>2. CASE x.ptr < x.cap
    <3>1. v = StoreInLine(x, c)
      BY <1>2, <1>9, <2>2
    <3>2. Ready(v) /\ Kin(x, v) /\ LineOK(v) /\ (Wrote(x, v, <<c>>) \/ Lost(x, v, 1))
      BY <1>1, <1>6, <1>9, <2>1, <2>2, <3>1, StoreInLineIs
    <3>3. Wrote(w, v, <<c>>) \/ Lost(w, v, 1)
      BY <1>1, <3>2, WroteAfter DEF Lost
    <3>4. WorldOK(v)
      BY <1>9, <3>2, ReadyOK, KinIs DEF Counted, Sloppy
    <3> QED BY <1>8, <3>2, <3>3, <3>4 DEF Ready, v
  <2>3. CASE ~(x.ptr < x.cap)
    <3>1. v = StoreInLine(y, c)
      BY <1>2, <1>9, <2>3
    <3>2. Has(y, "LBF") /\ ~Unbuffered(y)
      BY <1>4, <1>9, <2>1, KinIs
    <3>3. Ready(v) /\ Kin(y, v) /\ LineOK(v) /\ (Wrote(y, v, <<c>>) \/ Lost(y, v, 1))
      BY <1>4, <2>1, <3>1, <3>2, StoreInLineIs
    <3>4. Wrote(w, v, <<c>>) \/ Lost(w, v, 1)
      BY <1>7, <2>1, <3>3
    <3>5. WorldOK(v)
      BY <3>2, <3>3, ReadyOK, KinIs DEF Counted, Sloppy
    <3>6. Kin(x, v)
      BY <1>4, <2>1, <3>3, KinTrans
    <3> QED BY <1>8, <3>3, <3>4, <3>5, <3>6 DEF Ready, v
  <2> QED BY <2>2, <2>3
<1>10. CASE ~Has(x, "LBF") /\ Unbuffered(x)
  <2> DEFINE x0 == [x EXCEPT !.cnt = 0]
  <2>1. /\ x0 \in Worlds /\ x0.flags = x.flags /\ x0.cnt = 0 /\ x0.ptr = x.ptr /\ x0.cap = x.cap
        /\ x0.buf = x.buf /\ x0.file = x.file /\ x0.pos = x.pos
    BY <1>3 DEF Worlds
  <2>2. <<c>> \in Seq(Bytes) /\ Len(<<c>>) = 1
    OBVIOUS
  <2>3. v = DevWrite(x0, <<c>>)
    BY <1>2, <1>10
  <2> HIDE DEF x0
  <2>4. /\ v \in Worlds /\ Len(v.file) <= DiskSize
        /\ v.cnt = 0 /\ v.ptr = x.ptr /\ v.cap = x.cap /\ v.buf = x.buf
        /\ \/ /\ v.flags = x.flags
              /\ v.file = Overlay(x.file, x.pos, <<c>>) /\ v.pos = x.pos + 1
           \/ v.flags = x.flags \cup {"ERR"} /\ x.pos + 1 > DiskSize
    <3>1. /\ v \in Worlds /\ Len(v.file) <= DiskSize
          /\ v.cnt = x0.cnt /\ v.ptr = x0.ptr /\ v.cap = x0.cap /\ v.buf = x0.buf
          /\ \/ /\ v.flags = x0.flags
                /\ v.file = Overlay(x0.file, x0.pos, <<c>>) /\ v.pos = x0.pos + Len(<<c>>)
             \/ v.flags = x0.flags \cup {"ERR"} /\ x0.pos + Len(<<c>>) > DiskSize
      <4>1. Len(x0.file) <= DiskSize
        BY <1>3, <2>1
      <4> QED BY <2>1, <2>2, <2>3, <4>1, DevWriteIs
    <3> QED BY <2>1, <2>2, <3>1
  <2>5. Kin(x, v)
    BY <2>4 DEF Kin, Kinds, Has
  <2>6. x.ptr = 0 /\ Unbuffered(v) /\ Sloppy(v)
    BY <1>1, <1>10, <2>5, KinIs DEF Ready, Sloppy, Unbuffered
  <2>7. Ready(v) /\ Counted(v)
    <3>1. Has(v, "WRT") /\ ~Has(v, "READ") /\ Has(v, "NBF") /\ ~Has(v, "LBF")
      BY <1>1, <1>10, <2>5, KinIs DEF Ready, Unbuffered
    <3> QED BY <1>3, <2>4, <2>6, <3>1 DEF Ready, Sized, Counted
  <2>8. LineOK(v)
    BY <1>10, <2>5, KinIs DEF LineOK
  <2>9. Pnd(x) = << >> /\ Pnd(v) = << >>
    BY <1>10, <2>6 DEF Pnd
  <2>10. Wrote(w, v, <<c>>) \/ Lost(w, v, 1)
    <3>1. CASE v.flags = x.flags /\ v.file = Overlay(x.file, x.pos, <<c>>) /\ v.pos = x.pos + 1
      <4>1. SameError(x, v)
        BY <3>1 DEF SameError, Has
      <4>2. v.ptr <= v.cap
        BY <1>3, <2>4
      <4>3. Wrote(x, v, <<c>>)
        BY <1>3, <2>2, <2>4, <2>9, <3>1, <4>1, <4>2, WrittenThrough
      <4> QED BY <1>1, <4>3, WroteAfter
    <3>2. CASE v.flags = x.flags \cup {"ERR"} /\ x.pos + 1 > DiskSize
      <4>1. End(x) = x.pos /\ Has(v, "ERR")
        BY <1>3, <2>9, <3>2, PndIs DEF Has
      <4> QED BY <1>1, <3>2, <4>1 DEF Lost
    <3> QED BY <2>4, <3>1, <3>2
  <2> QED BY <1>8, <2>5, <2>7, <2>8, <2>10, ReadyOK DEF Ready, v
<1>11. CASE ~Has(x, "LBF") /\ ~Unbuffered(x)
  <2>1. v = Store(y, c)
    BY <1>2, <1>11
  <2>2. ~Unbuffered(y) /\ ~Has(y, "LBF")
    BY <1>4, <1>11, KinIs
  <2>3. Ready(v) /\ Counted(v) /\ Kin(y, v) /\ Wrote(y, v, <<c>>)
    BY <1>4, <1>11, <2>1, <2>2, StoreIs
  <2>4. Wrote(w, v, <<c>>) \/ Lost(w, v, 1)
    BY <1>7, <1>11, <2>3
  <2>5. LineOK(v)
    BY <2>2, <2>3, KinIs DEF LineOK
  <2>6. Kin(x, v)
    BY <1>4, <1>11, <2>3, KinTrans
  <2> QED BY <1>8, <2>3, <2>4, <2>5, <2>6, ReadyOK DEF Ready, v
<1> QED BY <1>9, <1>10, <1>11

LEMMA PutcIs ==
  ASSUME NEW w, WorldOK(w), ~Has(w, "READ"), NEW c \in Bytes
  PROVE  LET v == Putc(w, c)
         IN  /\ WorldOK(v) /\ Has(v, "WRT") /\ ~Has(v, "READ")
             /\ Has(v, "RW") <=> Has(w, "RW")
             /\ Wrote(w, v, <<c>>) \/ Lost(w, v, 1)
<1> DEFINE v == Putc(w, c)
<1>1. w \in Worlds /\ w.ptr \in Nat /\ w.cap \in Nat /\ w.cnt \in Int /\ w.ptr <= w.cap /\ Sized(w)
  BY Fields DEF WorldOK, Sized
<1>2. CASE w.cnt > 0
  <2>1. ~Sloppy(w) /\ Has(w, "WRT") /\ w.cnt = w.cap - w.ptr
    BY <1>1, <1>2 DEF WorldOK, WriterOK
  <2>2. Ready(w) /\ Counted(w) /\ ~Unbuffered(w) /\ ~Has(w, "LBF") /\ w.ptr < w.cap
    BY <1>1, <1>2, <2>1 DEF Ready, Counted, Sloppy, Unbuffered
  <2>3. v = Store(w, c)
    BY <1>2 DEF Putc
  <2>4. Ready(v) /\ Counted(v) /\ Kin(w, v) /\ Wrote(w, v, <<c>>)
    BY <2>2, <2>3, StoreIs
  <2>5. LineOK(v)
    BY <2>2, <2>4, KinIs DEF LineOK
  <2>6. Has(v, "RW") <=> Has(w, "RW")
    BY <2>4, KinIs
  <2> QED BY <2>4, <2>5, <2>6, ReadyOK DEF Ready
<1>3. CASE ~(w.cnt > 0)
  <2> DEFINE u == [w EXCEPT !.cnt = @ - 1]
  <2>1. v = FlushBuf(u, c)
    BY <1>3 DEF Putc
  <2>2. /\ u \in Worlds /\ u.flags = w.flags /\ u.cnt = w.cnt - 1 /\ u.ptr = w.ptr /\ u.cap = w.cap
        /\ u.buf = w.buf /\ u.file = w.file /\ u.pos = w.pos
    BY <1>1 DEF Worlds
  <2> HIDE DEF u, v
  <2>3. \A f : Has(u, f) <=> Has(w, f)
    BY <2>2 DEF Has
  <2>4. Sized(u) /\ ~Has(u, "READ") /\ (~Has(u, "WRT") => u.ptr = 0) /\ (Unbuffered(u) => u.ptr = 0)
        /\ (Sloppy(u) => u.cnt <= 0) /\ LineOK(u)
    BY <1>1, <1>3, <2>2, <2>3 DEF WorldOK, WriterOK, Sized, LineOK, Unbuffered, Sloppy
  <2>5. /\ WorldOK(v) /\ Has(v, "WRT") /\ ~Has(v, "READ")
        /\ Has(v, "RW") <=> Has(u, "RW")
        /\ Wrote(u, v, <<c>>) \/ Lost(u, v, 1)
    BY <2>1, <2>4, FlushBufIs
  <2>6. Out(u) = Out(w) /\ End(u) = End(w) /\ SameError(w, u)
    BY <2>2, <2>3 DEF Out, End, Pnd, SameError, Unbuffered
  <2>7. Wrote(w, v, <<c>>) \/ Lost(w, v, 1)
    BY <2>5, <2>6, WroteAfter DEF Lost
  <2> QED BY <2>3, <2>5, <2>7 DEF v
<1> QED BY <1>2, <1>3

-----------------------------------------------------------------------------
(* The loops of fwrite, fputs and fread are recursive functions of the     *)
(* number of rounds; that they exist is shown once for both.               *)

(* A set of numbers has a least one; with it, induction. *)
LEMMA LeastNumber ==
  ASSUME NEW T \in SUBSET Nat, T # {}
  PROVE  \E m \in T : \A k \in T : m <= k
<1>1. \E m \in T : \A k \in T : <<k, m>> \notin OpToRel(<, Nat)
  BY WFMin, NatLessThanWellFounded
<1>2. \A k, m \in Nat : <<k, m>> \notin OpToRel(<, Nat) => m <= k
  BY DEF OpToRel
<1> QED BY <1>1, <1>2

(* A set of numbers with 0 and all successors holds every number. *)
LEMMA Induction ==
  ASSUME NEW T \in SUBSET Nat, 0 \in T, \A m \in T : m + 1 \in T
  PROVE  \A m \in Nat : m \in T
<1> SUFFICES ASSUME Nat \ T # {} PROVE FALSE
  OBVIOUS
<1>1. PICK m \in Nat \ T : \A k \in Nat \ T : m <= k
  BY LeastNumber
<1>2. m # 0 /\ m - 1 \in Nat /\ m - 1 \in T
  BY <1>1
<1> QED BY <1>1, <1>2

(* One round of either loop. *)
Round(loop, bs, line, fails, a, k) ==
  IF loop = "copy" THEN CopyOne(a, k, bs[k]) ELSE ReadOne(a, k, line, fails)

IsLoop(F, loop, bs, line, fails, s) ==
  F = [k \in Nat |-> IF k = 0 THEN s ELSE Round(loop, bs, line, fails, F[k - 1], k)]

LEMMA LoopExists ==
  ASSUME NEW loop, NEW bs, NEW line, NEW fails, NEW s
  PROVE  \E F : IsLoop(F, loop, bs, line, fails, s)
<1> DEFINE Step(a, k) == Round(loop, bs, line, fails, a, k)
           Runs(f, m) == DOMAIN f = 0 .. m /\ f[0] = s /\ \A k \in 1 .. m : f[k] = Step(f[k - 1], k)
           Beginning(m) == CHOOSE f : Runs(f, m)
<1> HIDE DEF Step
<1>1. \A m \in Nat : Runs(Beginning(m), m)
  <2> DEFINE T == {m \in Nat : \E f : Runs(f, m)}
  <2>1. 0 \in T
    <3> DEFINE f == [k \in 0 .. 0 |-> s]
    <3>1. Runs(f, 0)
      OBVIOUS
    <3> QED BY <3>1
  <2>2. ASSUME NEW m \in T PROVE m + 1 \in T
    <3>1. PICK f : Runs(f, m)
      OBVIOUS
    <3> DEFINE h == [k \in 0 .. m + 1 |-> IF k = m + 1 THEN Step(f[m], m + 1) ELSE f[k]]
    <3>2. DOMAIN h = 0 .. m + 1 /\ h[m + 1] = Step(f[m], m + 1) /\ \A k \in 0 .. m : h[k] = f[k]
      OBVIOUS
    <3> HIDE DEF h
    <3>3. ASSUME NEW k \in 1 .. m + 1 PROVE h[k] = Step(h[k - 1], k)
      <4>1. CASE k = m + 1
        <5>1. k - 1 = m /\ m \in 0 .. m
          BY <4>1
        <5> QED BY <3>2, <4>1, <5>1
      <4>2. CASE k # m + 1
        <5>1. k \in 1 .. m /\ k \in 0 .. m /\ k - 1 \in 0 .. m
          BY <4>2
        <5> QED BY <3>1, <3>2, <5>1
      <4> QED BY <4>1, <4>2
    <3>4. h[0] = s
      BY <3>1, <3>2
    <3>5. Runs(h, m + 1) /\ m + 1 \in Nat
      BY <3>2, <3>3, <3>4
    <3> QED BY <3>5
  <2> HIDE DEF T
  <2>3. \A m \in Nat : m \in T
    BY <2>1, <2>2, Induction DEF T
  <2> QED BY <2>3 DEF T
<1>2. ASSUME NEW m \in Nat PROVE Beginning(m)[m] = Beginning(m + 1)[m]
  <2> DEFINE f == Beginning(m)
             h == Beginning(m + 1)
             T == {k \in Nat : k <= m => f[k] = h[k]}
  <2>0. Runs(f, m) /\ Runs(h, m + 1)
    BY <1>1
  <2> HIDE DEF f, h
  <2>1. 0 \in T
    BY <2>0
  <2>2. ASSUME NEW k \in T PROVE k + 1 \in T
    <3> SUFFICES ASSUME k + 1 <= m PROVE f[k + 1] = h[k + 1]
      OBVIOUS
    <3>1. k + 1 \in 1 .. m /\ k + 1 \in 1 .. m + 1 /\ (k + 1) - 1 = k /\ f[k] = h[k]
      OBVIOUS
    <3> QED BY <2>0, <3>1
  <2> HIDE DEF T
  <2>3. m \in T
    BY <2>1, <2>2, Induction DEF T
  <2> QED BY <2>3 DEF T, f, h
<1> DEFINE F == [k \in Nat |-> Beginning(k)[k]]
<1>3. F[0] = s
  BY <1>1
<1>4. ASSUME NEW k \in Nat PROVE F[k + 1] = Step(F[k], k + 1)
  <2>1. Beginning(k)[k] = Beginning(k + 1)[k]
    BY <1>2
  <2>2. k + 1 \in 1 .. k + 1 /\ (k + 1) - 1 = k /\ k + 1 \in Nat
    OBVIOUS
  <2>3. Runs(Beginning(k + 1), k + 1)
    BY <1>1, <2>2
  <2> HIDE DEF Beginning
  <2>4. Beginning(k + 1)[k + 1] = Step(Beginning(k + 1)[k], k + 1)
    BY <2>2, <2>3
  <2> QED BY <2>1, <2>2, <2>4
<1> HIDE DEF F
<1>5. \A k \in Nat : F[k] = IF k = 0 THEN s ELSE Step(F[k - 1], k)
  <2> SUFFICES ASSUME NEW k \in Nat, k # 0 PROVE F[k] = Step(F[k - 1], k)
    BY <1>3
  <2>1. k - 1 \in Nat /\ (k - 1) + 1 = k
    OBVIOUS
  <2> QED BY <1>4, <2>1
<1>6. F = [k \in Nat |-> F[k]]
  BY DEF F
<1>7. F = [k \in Nat |-> IF k = 0 THEN s ELSE Step(F[k - 1], k)]
  BY <1>5, <1>6, Zenon
<1> QED BY <1>7 DEF Step, IsLoop

(* The copying loop, round by round. *)
LEMMA CopyingIs ==
  ASSUME NEW w, NEW bs
  PROVE  /\ Copying(w, bs)[0] = [w |-> w, done |-> 0]
         /\ \A k \in Nat : Copying(w, bs)[k + 1] = CopyOne(Copying(w, bs)[k], k + 1, bs[k + 1])
<1> DEFINE s == [w |-> w, done |-> 0]
           G == Copying(w, bs)
<1>1. \E F : F = [k \in Nat |-> IF k = 0 THEN s ELSE CopyOne(F[k - 1], k, bs[k])]
  <2> HIDE DEF s
  <2>1. \E F : IsLoop(F, "copy", bs, 0, 0, s)
    BY LoopExists
  <2> QED BY <2>1 DEF Round, IsLoop
<1>2. G = CHOOSE F : F = [k \in Nat |-> IF k = 0 THEN s ELSE CopyOne(F[k - 1], k, bs[k])]
  BY DEF Copying
<1> HIDE DEF G, s
<1>3. G = [k \in Nat |-> IF k = 0 THEN s ELSE CopyOne(G[k - 1], k, bs[k])]
  BY <1>1, <1>2
<1>4. G[0] = s
  BY <1>3
<1>5. ASSUME NEW k \in Nat PROVE G[k + 1] = CopyOne(G[k], k + 1, bs[k + 1])
  <2>1. k + 1 \in Nat /\ k + 1 # 0 /\ (k + 1) - 1 = k
    OBVIOUS
  <2> QED BY <1>3, <2>1
<1> QED BY <1>4, <1>5 DEF G, s

(* The reading loop, round by round. *)
LEMMA ReadingIs ==
  ASSUME NEW w, NEW line, NEW fails
  PROVE  /\ Reading(w, line, fails)[0] = [w |-> w, got |-> << >>]
         /\ \A k \in Nat : Reading(w, line, fails)[k + 1]
                             = ReadOne(Reading(w, line, fails)[k], k + 1, line, fails)
<1> DEFINE s == [w |-> w, got |-> << >>]
           G == Reading(w, line, fails)
<1>1. \E F : F = [k \in Nat |-> IF k = 0 THEN s ELSE ReadOne(F[k - 1], k, line, fails)]
  <2> HIDE DEF s
  <2>1. \E F : IsLoop(F, "read", << >>, line, fails, s)
    BY LoopExists
  <2>2. "read" # "copy"
    OBVIOUS
  <2> QED BY <2>1, <2>2 DEF Round, IsLoop
<1>2. G = CHOOSE F : F = [k \in Nat |-> IF k = 0 THEN s ELSE ReadOne(F[k - 1], k, line, fails)]
  BY DEF Reading
<1> HIDE DEF G, s
<1>3. G = [k \in Nat |-> IF k = 0 THEN s ELSE ReadOne(G[k - 1], k, line, fails)]
  BY <1>1, <1>2
<1>4. G[0] = s
  BY <1>3
<1>5. ASSUME NEW k \in Nat PROVE G[k + 1] = ReadOne(G[k], k + 1, line, fails)
  <2>1. k + 1 \in Nat /\ k + 1 # 0 /\ (k + 1) - 1 = k
    OBVIOUS
  <2> QED BY <1>3, <2>1
<1> QED BY <1>4, <1>5 DEF G, s

-----------------------------------------------------------------------------
(* Lemmas about fwrite and fputs.                                          *)

(* The bytes of a ready stream: what its fields are. *)
LEMMA ReadyFields ==
  ASSUME NEW w, Ready(w)
  PROVE  /\ w \in Worlds /\ w.ptr \in Nat /\ w.cap \in Nat /\ w.cnt \in Int /\ w.ptr <= w.cap /\ w.cap # 0
         /\ w.cap <= BigBuf /\ Len(w.file) <= DiskSize /\ End(w) \in Nat /\ DiskSize \in Nat
BY Fields, PndIs, Sizes DEF Ready, Sized

(* Bytes written past an empty buffer. *)
LEMMA ThroughIs ==
  ASSUME NEW w, Ready(w), w.ptr = 0, NEW bs \in Seq(Bytes)
  PROVE  LET v == DevWrite(w, bs)
         IN  /\ Ready(v) /\ (Counted(w) => Counted(v)) /\ Kin(w, v) /\ v.ptr = 0
             /\ Wrote(w, v, bs) \/ Lost(w, v, Len(bs))
<1> DEFINE v == DevWrite(w, bs)
<1>1. w \in Worlds /\ Len(w.file) <= DiskSize /\ w.ptr <= w.cap
  BY ReadyFields
<1>2. /\ v \in Worlds /\ Len(v.file) <= DiskSize
      /\ v.cnt = w.cnt /\ v.ptr = w.ptr /\ v.cap = w.cap /\ v.buf = w.buf
      /\ \/ /\ Fitting(w, bs) = bs /\ v.flags = w.flags
            /\ v.file = Overlay(w.file, w.pos, bs) /\ v.pos = w.pos + Len(bs)
         \/ /\ Fitting(w, bs) # bs /\ v.flags = w.flags \cup {"ERR"}
            /\ bs # << >> /\ w.pos + Len(bs) > DiskSize
  BY <1>1, DevWriteIs
<1> HIDE DEF v
<1>3. Kin(w, v)
  BY <1>2 DEF Kin, Kinds, Has
<1>4. /\ Has(v, "READ") <=> Has(w, "READ")
      /\ Has(v, "WRT") <=> Has(w, "WRT")
      /\ Has(v, "NBF") <=> Has(w, "NBF")
      /\ Has(v, "LBF") <=> Has(w, "LBF")
      /\ Sloppy(v) <=> Sloppy(w)
  BY <1>3, KinIs
<1>5. Ready(v) /\ (Counted(w) => Counted(v))
  BY <1>2, <1>4 DEF Ready, Counted, Sized, Unbuffered
<1>6. Pnd(w) = << >> /\ Pnd(v) = << >>
  <2>1. v.ptr <= v.cap
    BY <1>1, <1>2
  <2> QED BY <1>1, <1>2, <2>1, PndIs
<1>7. CASE v.flags = w.flags /\ v.file = Overlay(w.file, w.pos, bs) /\ v.pos = w.pos + Len(bs)
  <2>1. SameError(w, v)
    BY <1>7 DEF SameError, Has
  <2>2. v.ptr <= v.cap
    BY <1>1, <1>2
  <2>3. Wrote(w, v, bs)
    BY <1>1, <1>2, <1>6, <1>7, <2>1, <2>2, WrittenThrough
  <2> QED BY <1>2, <1>3, <1>5, <2>3 DEF v
<1>8. CASE v.flags = w.flags \cup {"ERR"} /\ w.pos + Len(bs) > DiskSize
  <2>1. End(w) = w.pos /\ Has(v, "ERR")
    BY <1>1, <1>6, <1>8, PndIs DEF Has
  <2> QED BY <1>2, <1>3, <1>5, <1>8, <2>1 DEF v, Lost
<1> QED BY <1>2, <1>7, <1>8

(* k bytes of bs have been tried: all are copied, or some are lost. *)
Copies(w, bs, k, a) ==
  /\ a = [w |-> a.w, done |-> a.done] /\ a.done \in Nat
  /\ Ready(a.w) /\ Counted(a.w) /\ Kin(w, a.w)
  /\ \/ a.done = k /\ Wrote(w, a.w, SubSeq(bs, 1, k))
     \/ a.done < k /\ Lost(w, a.w, k) /\ a.w.ptr = 0

(* One more byte. *)
LEMMA CopyOneIs ==
  ASSUME NEW w, Ready(w), ~Unbuffered(w), NEW bs \in Seq(Bytes), NEW k \in Nat, k < Len(bs),
         NEW a, Copies(w, bs, k, a)
  PROVE  Copies(w, bs, k + 1, CopyOne(a, k + 1, bs[k + 1]))
<1> DEFINE u == a.w
           c == bs[k + 1]
           y == WriteBuf(u)
           b == CopyOne(a, k + 1, c)
<1>1. /\ c \in Bytes /\ (k + 1) - 1 = k /\ k + 1 \in Nat
      /\ SubSeq(bs, 1, k) \in Seq(Bytes) /\ Len(SubSeq(bs, 1, k)) = k
      /\ SubSeq(bs, 1, k + 1) = SubSeq(bs, 1, k) \o <<c>>
  <2>1. c \in Bytes /\ (k + 1) - 1 = k /\ k + 1 \in Nat /\ Len(bs) \in Nat
    OBVIOUS
  <2>2. SubSeq(bs, 1, k) \in Seq(Bytes) /\ Len(SubSeq(bs, 1, k)) = k
    OBVIOUS
  <2>3. SubSeq(bs, 1, k + 1) \in Seq(Bytes) /\ Len(SubSeq(bs, 1, k + 1)) = k + 1
    OBVIOUS
  <2> DEFINE x == SubSeq(bs, 1, k) \o <<c>>
  <2>4. x \in Seq(Bytes) /\ Len(x) = k + 1 /\ x[k + 1] = c /\ \A j \in 1 .. k : x[j] = bs[j]
    BY <2>1, <2>2
  <2>5. \A j \in 1 .. (k + 1) : SubSeq(bs, 1, k + 1)[j] = bs[j]
    OBVIOUS
  <2> HIDE DEF x
  <2>6. ASSUME NEW j \in 1 .. (k + 1) PROVE SubSeq(bs, 1, k + 1)[j] = x[j]
    <3>1. j = k + 1 \/ j \in 1 .. k
      OBVIOUS
    <3> QED BY <2>4, <2>5, <3>1
  <2>7. SubSeq(bs, 1, k + 1) = x
    BY <2>3, <2>4, <2>6, SameSeq
  <2> QED BY <2>1, <2>2, <2>7 DEF x
<1>2. b = IF a.done < k THEN a
          ELSE IF u.ptr < u.cap THEN [w |-> Store(u, c), done |-> k + 1]
          ELSE IF WriteFails(u) THEN [a EXCEPT !.w = y]
          ELSE [w |-> Store(y, c), done |-> k + 1]
  BY <1>1 DEF CopyOne
<1>3. Ready(u) /\ Counted(u) /\ Kin(w, u) /\ a.done \in Nat /\ ~Unbuffered(u)
  BY KinIs DEF Copies
<1>4. /\ w \in Worlds /\ w.ptr <= w.cap /\ u \in Worlds /\ u.ptr <= u.cap /\ u.cap # 0 /\ u.cap \in Nat
      /\ End(w) \in Nat /\ DiskSize \in Nat
  BY <1>3, ReadyFields
<1>5. /\ Ready(y) /\ Counted(y) /\ y.ptr = 0 /\ Kin(u, y) /\ ~Unbuffered(y) /\ y.ptr < y.cap
      /\ \/ ~WriteFails(u) /\ Out(y) = Out(u) /\ End(y) = End(u) /\ SameError(u, y)
         \/ WriteFails(u) /\ Has(y, "ERR") /\ End(u) > DiskSize
  <2>1. /\ Ready(y) /\ Counted(y) /\ y.ptr = 0 /\ Kin(u, y)
        /\ \/ ~WriteFails(u) /\ Out(y) = Out(u) /\ End(y) = End(u) /\ SameError(u, y)
           \/ WriteFails(u) /\ Has(y, "ERR") /\ End(u) > DiskSize
    BY <1>3, WriteBufIs
  <2> HIDE DEF y
  <2>2. ~Unbuffered(y)
    BY <1>3, <2>1, KinIs
  <2>3. y.cap = u.cap
    BY <2>1 DEF Kin
  <2> QED BY <1>4, <2>1, <2>2, <2>3
<1> HIDE DEF b, c, y
<1>6. CASE a.done < k
  <2>1. b = a /\ Lost(w, a.w, k) /\ a.w.ptr = 0
    BY <1>2, <1>3, <1>6 DEF Copies
  <2>2. Lost(w, a.w, k + 1)
    BY <1>4, <2>1 DEF Lost
  <2>3. a.done < k + 1
    BY <1>3, <1>6
  <2> QED BY <2>1, <2>2, <2>3 DEF Copies, b, c
<1>7. CASE ~(a.done < k)
  <2>1. a.done = k /\ Wrote(w, u, SubSeq(bs, 1, k)) /\ End(u) = End(w) + k
    <3>1. a.done = k /\ Wrote(w, u, SubSeq(bs, 1, k))
      BY <1>7 DEF Copies
    <3> QED BY <1>1, <3>1 DEF Wrote
  (* A byte put behind the k is the next of bs. *)
  <2>2. ASSUME NEW v, Ready(v), Counted(v), Kin(u, v), Wrote(u, v, <<c>>)
        PROVE  Copies(w, bs, k + 1, [w |-> v, done |-> k + 1])
    <3>1. v \in Worlds /\ v.ptr <= v.cap /\ <<c>> \in Seq(Bytes)
      BY <1>1, <2>2, ReadyFields
    <3>2. Wrote(w, v, SubSeq(bs, 1, k) \o <<c>>)
      BY <1>1, <1>4, <2>1, <2>2, <3>1, WroteTrans
    <3>3. Wrote(w, v, SubSeq(bs, 1, k + 1))
      BY <1>1, <3>2
    <3>4. Kin(w, v)
      BY <1>3, <2>2, KinTrans
    <3> QED BY <1>1, <2>2, <3>3, <3>4 DEF Copies
  <2>3. CASE u.ptr < u.cap
    <3>1. b = [w |-> Store(u, c), done |-> k + 1]
      BY <1>2, <1>7, <2>3
    <3>2. Ready(Store(u, c)) /\ Counted(Store(u, c)) /\ Kin(u, Store(u, c)) /\ Wrote(u, Store(u, c), <<c>>)
      BY <1>1, <1>3, <2>3, StoreIs
    <3> QED BY <2>2, <3>1, <3>2 DEF b, c
  <2>4. CASE ~(u.ptr < u.cap) /\ WriteFails(u)
    <3>1. b = [w |-> y, done |-> k]
      <4>1. b = [a EXCEPT !.w = y] /\ a = [w |-> a.w, done |-> a.done]
        BY <1>2, <1>7, <2>4 DEF Copies
      <4> QED BY <2>1, <4>1
    <3>2. Lost(w, y, k + 1)
      BY <1>4, <1>5, <2>1, <2>4 DEF Lost
    <3>3. Kin(w, y)
      BY <1>3, <1>5, KinTrans
    <3>4. k < k + 1
      OBVIOUS
    <3> QED BY <1>5, <3>1, <3>2, <3>3, <3>4 DEF Copies, b, c
  <2>5. CASE ~(u.ptr < u.cap) /\ ~WriteFails(u)
    <3> DEFINE v == Store(y, c)
    <3>1. b = [w |-> v, done |-> k + 1]
      BY <1>2, <1>7, <2>5
    <3>2. Ready(v) /\ Counted(v) /\ Kin(y, v) /\ Wrote(y, v, <<c>>)
      BY <1>1, <1>5, StoreIs
    <3> HIDE DEF v
    <3>3. Kin(u, v)
      BY <1>5, <3>2, KinTrans
    <3>4. Wrote(u, v, <<c>>)
      BY <1>5, <2>5, <3>2, WroteAfter
    <3> QED BY <2>2, <3>1, <3>2, <3>3, <3>4 DEF b, c
  <2> QED BY <2>3, <2>4, <2>5
<1> QED BY <1>6, <1>7

(* The loop copies all bytes, or loses some. *)
LEMMA CopiedIs ==
  ASSUME NEW w, Ready(w), Counted(w), ~Unbuffered(w), NEW bs \in Seq(Bytes)
  PROVE  Copies(w, bs, Len(bs), Copied(w, bs))
<1> DEFINE G == Copying(w, bs)
           T == {k \in Nat : k <= Len(bs) => Copies(w, bs, k, G[k])}
<1>0. Len(bs) \in Nat
  OBVIOUS
<1>1. G[0] = [w |-> w, done |-> 0] /\ \A k \in Nat : G[k + 1] = CopyOne(G[k], k + 1, bs[k + 1])
  BY CopyingIs
<1> HIDE DEF G
<1>2. 0 \in T
  <2>1. SubSeq(bs, 1, 0) = << >>
    OBVIOUS
  <2>2. Kin(w, w) /\ SameError(w, w) /\ w \in Worlds /\ w.ptr <= w.cap
    BY ReadyFields DEF Kin, SameError
  <2>3. Wrote(w, w, << >>)
    BY <2>2, WroteNothing
  <2>4. Copies(w, bs, 0, [w |-> w, done |-> 0])
    BY <2>1, <2>2, <2>3 DEF Copies
  <2> QED BY <1>1, <2>4
<1>3. ASSUME NEW k \in T PROVE k + 1 \in T
  <2> SUFFICES ASSUME k + 1 <= Len(bs) PROVE Copies(w, bs, k + 1, G[k + 1])
    OBVIOUS
  <2>1. k \in Nat /\ k < Len(bs) /\ Copies(w, bs, k, G[k])
    BY <1>0
  <2>2. Copies(w, bs, k + 1, CopyOne(G[k], k + 1, bs[k + 1]))
    BY <2>1, CopyOneIs
  <2> QED BY <1>1, <2>1, <2>2
<1> HIDE DEF T
<1>4. Len(bs) \in T
  BY <1>0, <1>2, <1>3, Induction DEF T
<1> QED BY <1>4 DEF T, G, Copied

(* fwrite to a stream that is not line-buffered. *)
LEMMA FwriteIs ==
  ASSUME NEW w, WorldOK(w), ~Has(w, "READ"), ~Has(w, "LBF"), NEW bs \in Seq(Bytes)
  PROVE  LET v == Fwrite(w, bs)
         IN  /\ WorldOK(v) /\ Has(v, "WRT") /\ ~Has(v, "READ")
             /\ Has(v, "RW") <=> Has(w, "RW")
             /\ Wrote(w, v, bs) \/ Lost(w, v, Len(bs))
<1> DEFINE x == WrtChk(w)
           a == Copied(x, bs)
           v == Fwrite(w, bs)
<1>1. /\ Ready(x) /\ x.ptr = w.ptr /\ Counted(x)
      /\ Has(x, "NBF") <=> Has(w, "NBF")
      /\ Has(x, "LBF") <=> Has(w, "LBF")
      /\ Has(x, "RW") <=> Has(w, "RW")
      /\ Out(x) = Out(w) /\ End(x) = End(w) /\ SameError(w, x)
  <2>1. /\ Sized(w) /\ (~Has(w, "WRT") => w.ptr = 0) /\ (Unbuffered(w) => w.ptr = 0)
        /\ (Sloppy(w) => w.cnt <= 0) /\ (~Sloppy(w) => w.ptr = 0 \/ w.cnt = w.cap - w.ptr)
    BY DEF WorldOK, WriterOK
  <2>2. /\ Ready(x) /\ x.ptr = w.ptr
        /\ Has(x, "NBF") <=> Has(w, "NBF")
        /\ Has(x, "LBF") <=> Has(w, "LBF")
        /\ Has(x, "RW") <=> Has(w, "RW")
        /\ Out(x) = Out(w) /\ End(x) = End(w) /\ SameError(w, x)
        /\ w.ptr = 0 \/ w.cnt = w.cap - w.ptr => Counted(x)
    BY <2>1, WrtChkIs
  <2> HIDE DEF x
  <2>3. Counted(x)
    BY <2>1, <2>2 DEF Counted, Sloppy
  <2> QED BY <2>2, <2>3
<1>2. v = IF x.ptr = 0 /\ (Unbuffered(x) \/ Len(bs) >= BufSiz) THEN DevWrite(x, bs) ELSE a.w
  <2>1. ~Has(x, "LBF")
    BY <1>1
  <2> HIDE DEF x
  <2>2. WrtChk(w) = x
    BY DEF x
  <2> QED BY <2>1, <2>2 DEF Fwrite
<1> HIDE DEF x, v, a
<1>3. Ready(v) /\ Counted(v) /\ Kin(x, v) /\ (Wrote(x, v, bs) \/ Lost(x, v, Len(bs)))
  <2>1. CASE x.ptr = 0 /\ (Unbuffered(x) \/ Len(bs) >= BufSiz)
    <3>1. v = DevWrite(x, bs)
      BY <1>2, <2>1
    <3> QED BY <1>1, <2>1, <3>1, ThroughIs
  <2>2. CASE ~(x.ptr = 0 /\ (Unbuffered(x) \/ Len(bs) >= BufSiz))
    <3>1. v = a.w /\ ~Unbuffered(x)
      BY <1>1, <1>2, <2>2 DEF Ready
    <3>2. Copies(x, bs, Len(bs), a)
      BY <1>1, <3>1, CopiedIs DEF a
    <3>3. SubSeq(bs, 1, Len(bs)) = bs
      OBVIOUS
    <3> QED BY <3>1, <3>2, <3>3 DEF Copies
  <2> QED BY <2>1, <2>2
<1>4. Wrote(w, v, bs) \/ Lost(w, v, Len(bs))
  BY <1>1, <1>3, WroteAfter DEF Lost
<1>5. (Has(v, "RW") <=> Has(w, "RW")) /\ ~Has(v, "LBF")
  BY <1>1, <1>3, KinIs
<1>6. LineOK(v)
  BY <1>5 DEF LineOK
<1> QED BY <1>3, <1>4, <1>5, <1>6, ReadyOK DEF Ready, v

(* A NUL behind what is to be written. *)
LEMMA NulBehind ==
  ASSUME NEW w, Ready(w), ~Unbuffered(w), w.ptr < w.cap
  PROVE  LET v == [w EXCEPT !.buf[w.ptr + 1] = Hole]
         IN  /\ Ready(v) /\ (Counted(w) => Counted(v)) /\ Kin(w, v) /\ v.ptr = w.ptr
             /\ Out(v) = Out(w) /\ End(v) = End(w) /\ SameError(w, v)
<1> DEFINE v == [w EXCEPT !.buf[w.ptr + 1] = Hole]
<1>1. w \in Worlds /\ w.ptr <= w.cap /\ w.ptr \in Nat /\ w.cap \in Nat /\ w.cap <= BigBuf
      /\ w.buf \in [1 .. BigBuf -> Bytes] /\ BigBuf \in Nat /\ Hole \in Bytes
  BY ReadyFields, Fields, Sizes
<1>2. /\ v \in Worlds /\ v.flags = w.flags /\ v.ptr = w.ptr /\ v.cnt = w.cnt /\ v.cap = w.cap
      /\ v.buf = [w.buf EXCEPT ![w.ptr + 1] = Hole] /\ v.file = w.file /\ v.pos = w.pos
  <2>1. [w.buf EXCEPT ![w.ptr + 1] = Hole] \in [1 .. BigBuf -> Bytes]
    BY <1>1
  <2> QED BY <1>1, <2>1 DEF Worlds
<1> HIDE DEF v
<1>3. \A f : Has(v, f) <=> Has(w, f)
  BY <1>2 DEF Has
<1>4. Kin(w, v) /\ SameError(w, v)
  BY <1>2, <1>3 DEF Kin, SameError
<1>5. Ready(v) /\ (Counted(w) => Counted(v))
  BY <1>2, <1>3 DEF Ready, Counted, Sized, Unbuffered, Sloppy
<1>6. Pnd(v) = Pnd(w)
  <2>1. Pnd(w) = SubSeq(w.buf, 1, w.ptr) /\ Pnd(v) = SubSeq(v.buf, 1, v.ptr)
    BY <1>3, <1>5 DEF Pnd, Ready, Unbuffered
  <2>2. /\ SubSeq(w.buf, 1, w.ptr) \in Seq(Bytes) /\ Len(SubSeq(w.buf, 1, w.ptr)) = w.ptr
        /\ \A k \in 1 .. w.ptr : SubSeq(w.buf, 1, w.ptr)[k] = w.buf[k]
    BY <1>1, PndIs, Zenon
  <2>3. v.ptr <= v.cap
    BY <1>1, <1>2
  <2>4. /\ SubSeq(v.buf, 1, v.ptr) \in Seq(Bytes) /\ Len(SubSeq(v.buf, 1, v.ptr)) = v.ptr
        /\ \A k \in 1 .. v.ptr : SubSeq(v.buf, 1, v.ptr)[k] = v.buf[k]
    BY <1>2, <2>3, PndIs, Zenon
  <2>5. \A k \in 1 .. w.ptr : v.buf[k] = w.buf[k]
    BY <1>1, <1>2
  <2>6. /\ Pnd(w) \in Seq(Bytes) /\ Pnd(v) \in Seq(Bytes) /\ Len(Pnd(w)) = w.ptr /\ Len(Pnd(v)) = w.ptr
        /\ \A k \in 1 .. w.ptr : Pnd(v)[k] = Pnd(w)[k]
    BY <1>2, <2>1, <2>2, <2>4, <2>5, Zenon
  <2> QED BY <2>6, SameSeq
<1>7. Out(v) = Out(w) /\ End(v) = End(w)
  BY <1>2, <1>6 DEF Out, End
<1> QED BY <1>2, <1>4, <1>5, <1>7 DEF v

(* The terminating NUL of fputs: what is written stays, or is lost. *)
LEMMA PutNulIs ==
  ASSUME NEW w, Ready(w), Counted(w), ~Unbuffered(w)
  PROVE  LET v == PutNul(w)
         IN  /\ Ready(v) /\ Counted(v) /\ Kin(w, v) /\ LineOK(v)
             /\ \/ Out(v) = Out(w) /\ End(v) = End(w) /\ SameError(w, v)
                \/ Has(v, "ERR") /\ End(w) > DiskSize
<1> DEFINE u == IF w.ptr = w.cap THEN WriteBuf(w) ELSE w
           z == [u EXCEPT !.buf[u.ptr + 1] = Hole]
           v == PutNul(w)
<1>1. w.ptr \in Nat /\ w.cap \in Nat /\ w.ptr <= w.cap /\ w.cap # 0
  BY ReadyFields
<1>2. /\ Ready(u) /\ Counted(u) /\ Kin(w, u) /\ ~Unbuffered(u) /\ u.ptr < u.cap
      /\ \/ /\ ~(w.ptr = w.cap /\ WriteFails(w))
            /\ Out(u) = Out(w) /\ End(u) = End(w) /\ SameError(w, u)
         \/ w.ptr = w.cap /\ WriteFails(w) /\ u.ptr = 0 /\ Has(u, "ERR") /\ End(w) > DiskSize
  <2>1. CASE w.ptr = w.cap
    <3> DEFINE y == WriteBuf(w)
    <3>1. /\ Ready(y) /\ Counted(y) /\ y.ptr = 0 /\ Kin(w, y)
          /\ \/ ~WriteFails(w) /\ Out(y) = Out(w) /\ End(y) = End(w) /\ SameError(w, y)
             \/ WriteFails(w) /\ Has(y, "ERR") /\ End(w) > DiskSize
      BY WriteBufIs
    <3>2. u = y
      BY <2>1
    <3> HIDE DEF y, u
    <3>3. ~Unbuffered(y) /\ y.cap = w.cap
      BY <3>1, KinIs DEF Kin
    <3> QED BY <1>1, <2>1, <3>1, <3>2, <3>3
  <2>2. CASE w.ptr # w.cap
    <3>1. u = w
      BY <2>2
    <3>2. Kin(w, w) /\ SameError(w, w)
      BY DEF Kin, SameError
    <3> HIDE DEF u
    <3> QED BY <1>1, <2>2, <3>1, <3>2
  <2> QED BY <2>1, <2>2
<1>3. v = IF w.ptr = w.cap /\ WriteFails(w) THEN u ELSE IF Has(z, "LBF") THEN WriteBuf(z) ELSE z
  BY DEF PutNul
<1> HIDE DEF u
<1>4. /\ Ready(z) /\ Counted(z) /\ Kin(u, z) /\ z.ptr = u.ptr
      /\ Out(z) = Out(u) /\ End(z) = End(u) /\ SameError(u, z)
  BY <1>2, NulBehind
<1> HIDE DEF z, v
<1>5. Kin(w, z) /\ ~Unbuffered(z)
  BY <1>2, <1>4, KinTrans, KinIs
<1>6. CASE w.ptr = w.cap /\ WriteFails(w)
  <2>1. v = u /\ LineOK(u)
    BY <1>2, <1>3, <1>6 DEF LineOK
  <2> QED BY <1>2, <1>6, <2>1 DEF v
<1>7. CASE ~(w.ptr = w.cap /\ WriteFails(w))
  <2>1. Out(z) = Out(w) /\ End(z) = End(w) /\ SameError(w, z)
    BY <1>2, <1>4, <1>7 DEF SameError
  <2>2. CASE ~Has(z, "LBF")
    <3>1. v = z /\ LineOK(z)
      BY <1>3, <1>7, <2>2 DEF LineOK
    <3> QED BY <1>4, <1>5, <2>1, <3>1 DEF v
  <2>3. CASE Has(z, "LBF")
    <3>1. v = WriteBuf(z)
      BY <1>3, <1>7, <2>3
    <3>2. /\ Ready(v) /\ Counted(v) /\ v.ptr = 0 /\ Kin(z, v)
          /\ \/ Out(v) = Out(z) /\ End(v) = End(z) /\ SameError(z, v)
             \/ Has(v, "ERR") /\ End(z) > DiskSize
      BY <1>4, <1>5, <3>1, WriteBufIs
    <3>3. Kin(w, v) /\ LineOK(v)
      BY <1>5, <3>2, KinTrans DEF LineOK
    <3>4. \/ Out(v) = Out(w) /\ End(v) = End(w) /\ SameError(w, v)
          \/ Has(v, "ERR") /\ End(w) > DiskSize
      BY <2>1, <3>2 DEF SameError
    <3> QED BY <3>2, <3>3, <3>4 DEF v
  <2> QED BY <2>2, <2>3
<1> QED BY <1>6, <1>7

(* fputs to a buffered stream. *)
LEMMA FputsIs ==
  ASSUME NEW w, WorldOK(w), ~Has(w, "READ"), ~Unbuffered(w), NEW bs \in Seq(Bytes)
  PROVE  LET v == Fputs(w, bs)
         IN  /\ WorldOK(v) /\ Has(v, "WRT") /\ ~Has(v, "READ")
             /\ Has(v, "RW") <=> Has(w, "RW")
             /\ Wrote(w, v, bs) \/ Lost(w, v, Len(bs))
<1> DEFINE x == WrtChk(w)
           a == Copied(x, bs)
           v == Fputs(w, bs)
<1>1. /\ Ready(x) /\ x.ptr = w.ptr /\ Counted(x) /\ ~Unbuffered(x)
      /\ Has(x, "RW") <=> Has(w, "RW")
      /\ Out(x) = Out(w) /\ End(x) = End(w) /\ SameError(w, x)
  <2>1. /\ Sized(w) /\ (~Has(w, "WRT") => w.ptr = 0) /\ (Unbuffered(w) => w.ptr = 0)
        /\ (Sloppy(w) => w.cnt <= 0) /\ (~Sloppy(w) => w.ptr = 0 \/ w.cnt = w.cap - w.ptr)
    BY DEF WorldOK, WriterOK
  <2>2. /\ Ready(x) /\ x.ptr = w.ptr
        /\ Has(x, "NBF") <=> Has(w, "NBF")
        /\ Has(x, "LBF") <=> Has(w, "LBF")
        /\ Has(x, "RW") <=> Has(w, "RW")
        /\ Out(x) = Out(w) /\ End(x) = End(w) /\ SameError(w, x)
        /\ w.ptr = 0 \/ w.cnt = w.cap - w.ptr => Counted(x)
    BY <2>1, WrtChkIs
  <2> HIDE DEF x
  <2>3. Counted(x) /\ ~Unbuffered(x)
    BY <2>1, <2>2 DEF Counted, Sloppy, Unbuffered
  <2> QED BY <2>2, <2>3
<1>2. v = IF Unbuffered(x) THEN [DevWrite(x, bs) EXCEPT !.flags = x.flags]
          ELSE IF a.done = Len(bs) THEN PutNul(a.w)
          ELSE a.w
  BY DEF Fputs
<1> HIDE DEF x, v
<1>3. Copies(x, bs, Len(bs), a) /\ SubSeq(bs, 1, Len(bs)) = bs
  BY <1>1, CopiedIs
<1> HIDE DEF a
<1>4. Ready(v) /\ Counted(v) /\ Kin(x, v) /\ LineOK(v) /\ (Wrote(x, v, bs) \/ Lost(x, v, Len(bs)))
  <2>1. CASE a.done = Len(bs)
    <3> DEFINE u == a.w
    <3>1. Ready(u) /\ Counted(u) /\ Kin(x, u) /\ Wrote(x, u, bs) /\ ~Unbuffered(u)
      <4>1. Ready(u) /\ Counted(u) /\ Kin(x, u)
        BY <1>3 DEF Copies
      <4>2. ~Unbuffered(u)
        BY <1>1, <4>1, KinIs
      <4>3. ~(a.done < Len(bs)) /\ a.done = Len(bs)
        BY <2>1
      <4>4. Wrote(x, u, SubSeq(bs, 1, Len(bs)))
        BY <1>3, <4>3 DEF Copies
      <4> QED BY <1>3, <4>1, <4>2, <4>4
    <3>2. v = PutNul(u)
      BY <1>1, <1>2, <2>1
    <3> HIDE DEF u
    <3>3. /\ Ready(v) /\ Counted(v) /\ Kin(u, v) /\ LineOK(v)
          /\ \/ Out(v) = Out(u) /\ End(v) = End(u) /\ SameError(u, v)
             \/ Has(v, "ERR") /\ End(u) > DiskSize
      BY <3>1, <3>2, PutNulIs
    <3>4. Kin(x, v)
      BY <3>1, <3>3, KinTrans
    <3>5. CASE Out(v) = Out(u) /\ End(v) = End(u) /\ SameError(u, v)
      BY <3>1, <3>3, <3>4, <3>5, WroteBefore
    <3>6. CASE Has(v, "ERR") /\ End(u) > DiskSize
      <4>1. End(u) = End(x) + Len(bs)
        BY <3>1 DEF Wrote
      <4> QED BY <3>3, <3>4, <3>6, <4>1 DEF Lost
    <3> QED BY <3>3, <3>5, <3>6
  <2>2. CASE a.done # Len(bs)
    <3>1. v = a.w
      BY <1>1, <1>2, <2>2
    <3>2. Ready(v) /\ Counted(v) /\ Kin(x, v) /\ v.ptr = 0 /\ Lost(x, v, Len(bs))
      BY <1>3, <2>2, <3>1 DEF Copies
    <3>3. LineOK(v)
      BY <3>2 DEF LineOK
    <3> QED BY <3>2, <3>3
  <2> QED BY <2>1, <2>2
<1>5. Wrote(w, v, bs) \/ Lost(w, v, Len(bs))
  BY <1>1, <1>4, WroteAfter DEF Lost
<1>6. Has(v, "RW") <=> Has(w, "RW")
  BY <1>1, <1>4, KinIs
<1> QED BY <1>4, <1>5, <1>6, ReadyOK DEF Ready, v

(* fflush of a stream that is not being read: its buffer is empty.         *)
LEMMA FflushIs ==
  ASSUME NEW w, WorldOK(w), ~Has(w, "READ")
  PROVE  LET v == Fflush(w)
         IN  /\ WorldOK(v) /\ Kin(w, v) /\ v.ptr = 0 /\ Pnd(v) = << >>
             /\ \/ Out(v) = Out(w) /\ End(v) = End(w) /\ SameError(w, v)
                \/ Has(v, "ERR") /\ Len(Out(w)) > DiskSize
<1> DEFINE v == Fflush(w)
<1>1. w \in Worlds /\ w.ptr <= w.cap /\ w.ptr \in Nat /\ w.cap \in Nat /\ w.cnt \in Int /\ Len(w.file) <= DiskSize
  BY Fields DEF WorldOK, Sized
<1>2. CASE ~Has(w, "WRT")
  <2>1. v = [w EXCEPT !.cnt = 0]
    BY <1>2 DEF Fflush
  <2> HIDE DEF v
  <2>2. /\ v \in Worlds /\ v.flags = w.flags /\ v.cnt = 0 /\ v.ptr = w.ptr /\ v.cap = w.cap
        /\ v.buf = w.buf /\ v.file = w.file /\ v.pos = w.pos
    BY <1>1, <2>1 DEF Worlds
  <2>3. w.ptr = 0
    BY <1>2 DEF WorldOK, WriterOK
  <2>4. \A f : Has(v, f) <=> Has(w, f)
    BY <2>2 DEF Has
  <2>5. WorldOK(v)
    BY <1>1, <1>2, <2>2, <2>3, <2>4 DEF WorldOK, Sized, ReaderOK, WriterOK, LineOK, Unbuffered, Sloppy
  <2>6. Pnd(v) = Pnd(w) /\ Pnd(v) = << >>
    BY <1>2, <2>4 DEF Pnd
  <2>7. Out(v) = Out(w) /\ End(v) = End(w) /\ SameError(w, v) /\ Kin(w, v)
    BY <2>2, <2>4, <2>6 DEF Out, End, SameError, Kin
  <2> QED BY <2>2, <2>3, <2>5, <2>6, <2>7 DEF v
<1>3. CASE Has(w, "WRT") /\ ~Unbuffered(w) /\ w.cap # 0 /\ w.ptr > 0
  <2>1. v = WriteBuf(w)
    BY <1>3 DEF Fflush
  <2>2. Ready(w)
    BY <1>3 DEF WorldOK, WriterOK, Ready
  <2> HIDE DEF v
  <2>3. /\ Ready(v) /\ Counted(v) /\ v.ptr = 0 /\ Kin(w, v) /\ Pnd(v) = << >>
        /\ \/ Out(v) = Out(w) /\ End(v) = End(w) /\ SameError(w, v)
           \/ Has(v, "ERR") /\ End(w) > DiskSize /\ Pnd(w) # << >>
    BY <1>3, <2>1, <2>2, WriteBufIs
  <2>4. Pnd(w) # << >> /\ End(w) > DiskSize => Len(Out(w)) > DiskSize
    <3>1. Out(w) \in Seq(Bytes) /\ End(w) \in Nat /\ (Pnd(w) # << >> => Len(Out(w)) >= End(w))
      BY <1>1, PndIs
    <3>2. DiskSize \in Nat /\ Len(Out(w)) \in Nat
      BY <3>1, Sizes
    <3> QED BY <3>1, <3>2
  <2>5. WorldOK(v)
    BY <2>3, ReadyOK DEF LineOK
  <2> QED BY <2>3, <2>4, <2>5 DEF v
<1>4. CASE Has(w, "WRT") /\ ~(~Unbuffered(w) /\ w.cap # 0 /\ w.ptr > 0)
  <2>1. v = w
    BY <1>4 DEF Fflush
  <2>2. w.ptr = 0
    BY <1>1, <1>4 DEF WorldOK, WriterOK
  <2>3. Pnd(w) = << >>
    BY <1>1, <2>2, PndIs
  <2>4. Kin(w, w) /\ SameError(w, w)
    BY DEF Kin, SameError
  <2> QED BY <2>1, <2>2, <2>3, <2>4
<1> QED BY <1>2, <1>3, <1>4

-----------------------------------------------------------------------------
(* Lemmas about reading.                                                   *)

(* Where the program is in the file. *)
At(w) == IF Has(w, "READ") THEN w.pos - w.cnt ELSE End(w)

(* A stream that is not written has nothing waiting. *)
LEMMA NotWritten ==
  ASSUME NEW w, WorldOK(w), ~Has(w, "WRT")
  PROVE  /\ Pnd(w) = << >> /\ Out(w) = w.file /\ End(w) = w.pos /\ At(w) \in Nat
         /\ w.file \in Seq(Bytes) /\ w.pos \in Nat /\ w.cnt \in Int /\ Len(w.file) \in Nat
         /\ w.ptr \in Nat /\ w.cap \in Nat /\ w.ptr <= w.cap /\ w \in Worlds
         /\ w.cnt <= 0 => At(w) = w.pos
         /\ w.cnt > 0 => Has(w, "READ") /\ Mirrors(w) /\ At(w) = w.pos - w.cnt
<1>1. /\ w.file \in Seq(Bytes) /\ w.pos \in Nat /\ w.cnt \in Int /\ Len(w.file) \in Nat
      /\ w.ptr \in Nat /\ w.cap \in Nat /\ w.ptr <= w.cap /\ w \in Worlds
  BY Fields DEF WorldOK, Sized
<1>2. Pnd(w) = << >>
  BY DEF Pnd
<1>3. Out(w) = w.file /\ End(w) = w.pos
  BY <1>1, <1>2, PndIs
<1>4. w.cnt <= 0 => At(w) = w.pos
  BY <1>1, <1>3 DEF At, WorldOK, ReaderOK
<1>5. w.cnt > 0 => Has(w, "READ") /\ Mirrors(w) /\ At(w) = w.pos - w.cnt
  BY <1>1 DEF At, WorldOK, ReaderOK, WriterOK
<1>6. At(w) \in Nat
  <2>1. CASE w.cnt <= 0
    BY <1>1, <1>4, <2>1
  <2>2. CASE w.cnt > 0
    <3>1. w.ptr + w.cnt <= w.pos
      BY <1>1, <1>5, <2>2 DEF Mirrors, Filled
    <3> QED BY <1>1, <1>5, <2>2, <3>1
  <2> QED BY <1>1, <2>1, <2>2
<1> QED BY <1>1, <1>2, <1>3, <1>4, <1>5, <1>6

(* Streams of the same mode. *)
Alike(w, v) ==
  /\ Has(v, "RW") <=> Has(w, "RW")
  /\ Has(v, "NBF") <=> Has(w, "NBF")
  /\ Has(v, "LBF") <=> Has(w, "LBF")
  /\ Has(w, "ERR") => Has(v, "ERR")
  /\ v.file = w.file

(* _fillbuf: an error, the end of the file, or bytes from the file. *)
LEMMA FillBufIs ==
  ASSUME NEW w, WorldOK(w), ~Has(w, "WRT"), w.cnt <= 0, NEW fails \in BOOLEAN
  PROVE  LET v == FillBuf(w, fails)
         IN  /\ WorldOK(v) /\ ~Has(v, "WRT") /\ Alike(w, v) /\ v.cap >= 1
             /\ At(v) = At(w) /\ v.ptr = 0
             /\ \/ v.cnt > 0
                \/ v.cnt = 0 /\ v.pos = At(w) /\ (Has(v, "ERR") \/ At(w) >= Len(w.file))
<1> DEFINE b == AddBuf(w)
           x == Set(b, {"READ"}, {})
           want == IF Unbuffered(x) THEN 1 ELSE x.cap
           top == IF x.pos + want <= Len(x.file) THEN x.pos + want ELSE Len(x.file)
           got == SubSeq(x.file, x.pos + 1, top)
           z == [x EXCEPT !.ptr = 0]
           v == FillBuf(w, fails)
<1>0. /\ w.file \in Seq(Bytes) /\ w.pos \in Nat /\ w.cnt \in Int /\ Len(w.file) \in Nat /\ At(w) = w.pos
      /\ w \in Worlds /\ Sized(w) /\ w.ptr \in Nat /\ w.cap \in Nat
  BY NotWritten DEF WorldOK
<1>1. /\ Sized(b) /\ b.cap # 0 /\ b.ptr = w.ptr /\ b.cnt = w.cnt /\ b.flags = w.flags
      /\ b.buf = w.buf /\ b.file = w.file /\ b.pos = w.pos
  BY <1>0, AddBufIs
<1> HIDE DEF b
<1>2. /\ x \in Worlds /\ x.flags = w.flags \cup {"READ"} /\ x.ptr = w.ptr /\ x.cnt = w.cnt /\ x.cap = b.cap
      /\ x.buf = w.buf /\ x.file = w.file /\ x.pos = w.pos
      /\ b.cap \in Nat /\ b.cap # 0 /\ b.cap <= BigBuf /\ BigBuf \in Nat
  <2>1. b \in Worlds /\ {"READ"} \in SUBSET Flags
    BY <1>1 DEF Sized, Flags
  <2>2. b.flags \cup {"READ"} \in SUBSET Flags
    BY <2>1, Fields
  <2>3. x = [b EXCEPT !.flags = b.flags \cup {"READ"}]
    BY DEF Set
  <2>4. b.cap \in Nat /\ b.cap # 0 /\ b.cap <= BigBuf /\ BigBuf \in Nat
    BY <1>1, <2>1, Fields, Sizes
  <2> HIDE DEF x
  <2> QED BY <1>1, <2>1, <2>2, <2>3, <2>4 DEF Worlds
<1>3. v = IF fails THEN Set([z EXCEPT !.cnt = 0], {"ERR"}, {})
          ELSE IF got = << >>
          THEN Set([z EXCEPT !.cnt = 0], {"EOF"}, IF Has(x, "RW") THEN {"READ"} ELSE {})
          ELSE [z EXCEPT !.cnt = Len(got), !.pos = @ + Len(got),
                         !.buf = [k \in DOMAIN @ |-> IF k \in DOMAIN got THEN got[k] ELSE @[k]]]
  BY DEF FillBuf, b
<1> HIDE DEF x, v
<1>4. /\ [z EXCEPT !.cnt = 0] = [x EXCEPT !.ptr = 0, !.cnt = 0]
      /\ [x EXCEPT !.ptr = 0, !.cnt = 0] \in Worlds
      /\ x.cap \in {0, SbufSiz, BigBuf} /\ x.buf \in [1 .. BigBuf -> Bytes]
  <2>1. [z EXCEPT !.cnt = 0] = [x EXCEPT !.ptr = 0, !.cnt = 0]
    BY <1>2 DEF Worlds
  <2>2. 0 \in Nat /\ 0 \in Int
    OBVIOUS
  <2>3. [x EXCEPT !.ptr = 0, !.cnt = 0] \in Worlds
    BY <1>2, <2>2 DEF Worlds
  <2> QED BY <1>2, <2>1, <2>3, Fields
<1>5. want \in 1 .. x.cap
  BY <1>1, <1>2
<1> HIDE DEF want
<1>6. IF w.pos < Len(w.file)
      THEN /\ got \in Seq(Bytes) /\ Len(got) \in 1 .. x.cap /\ w.pos + Len(got) <= Len(w.file) /\ got # << >>
           /\ \A k \in 1 .. Len(got) : got[k] = w.file[w.pos + k]
      ELSE got = << >>
  <2>1. CASE w.pos < Len(w.file)
    <3>1. top \in Nat /\ top <= Len(w.file) /\ w.pos < top /\ top - w.pos <= x.cap
      BY <1>0, <1>2, <1>5, <2>1
    <3> DEFINE n == top
    <3> HIDE DEF n
    <3>2. got = SubSeq(w.file, w.pos + 1, n)
      BY <1>2 DEF n
    <3>3. n \in Nat /\ n <= Len(w.file) /\ w.pos < n /\ n - w.pos <= x.cap
      BY <3>1 DEF n
    <3> HIDE DEF got
    <3>4. /\ got \in Seq(Bytes) /\ Len(got) = n - w.pos
          /\ \A k \in 1 .. (n - w.pos) : got[k] = w.file[w.pos + k]
      <4>1. w.pos <= n
        BY <1>0, <3>3
      <4>2. /\ SubSeq(w.file, w.pos + 1, n) \in Seq(Bytes) /\ Len(SubSeq(w.file, w.pos + 1, n)) = n - w.pos
            /\ \A k \in 1 .. (n - w.pos) : SubSeq(w.file, w.pos + 1, n)[k] = w.file[w.pos + k]
        BY <1>0, <3>3, <4>1, SubSeqIs, Zenon
      <4> QED BY <3>2, <4>2, Zenon
    <3>5. got # << >>
      BY <1>0, <3>3, <3>4
    <3> QED BY <1>0, <1>2, <2>1, <3>3, <3>4, <3>5
  <2>2. CASE ~(w.pos < Len(w.file))
    <3>1. top <= w.pos /\ top \in Nat
      BY <1>0, <1>2, <1>5, <2>2
    <3> QED BY <1>0, <1>2, <2>2, <3>1
  <2> QED BY <2>1, <2>2
<1> HIDE DEF got, top
  (* Nothing read: the buffer is empty. *)
<1>7. ASSUME v \in Worlds, v.ptr = 0, v.cnt = 0, v.cap = x.cap, v.file = w.file, v.pos = w.pos,
             ~Has(v, "WRT"), Alike(w, v), Has(v, "ERR") \/ w.pos >= Len(w.file)
      PROVE  /\ WorldOK(v) /\ ~Has(v, "WRT") /\ Alike(w, v) /\ v.cap >= 1
             /\ At(v) = At(w) /\ v.ptr = 0
             /\ v.cnt = 0 /\ v.pos = At(w) /\ (Has(v, "ERR") \/ At(w) >= Len(w.file))
  <2>1. WorldOK(v)
    <3>1. Sized(v)
      BY <1>0, <1>2, <1>7 DEF Sized, Alike
    <3> QED BY <1>7, <3>1 DEF WorldOK, ReaderOK, WriterOK, LineOK
  <2>2. At(v) = v.pos
    BY <1>7, <2>1, NotWritten
  <2> QED BY <1>0, <1>2, <1>7, <2>1, <2>2
<1>8. ~Has(x, "WRT")
  BY <1>2 DEF Has
<1>9. CASE fails
  <2> DEFINE y == [x EXCEPT !.ptr = 0, !.cnt = 0]
  <2>1. /\ y \in Worlds /\ y.ptr = 0 /\ y.cnt = 0 /\ y.cap = x.cap /\ y.file = w.file /\ y.pos = w.pos
        /\ y.flags = w.flags \cup {"READ"} /\ y.buf = x.buf /\ y.flags \in SUBSET Flags
    <3>1. y \in Worlds
      BY <1>4
    <3> QED BY <1>2, <3>1, Fields DEF Worlds
  <2>2. v = [y EXCEPT !.flags = y.flags \cup {"ERR"}]
    BY <1>3, <1>4, <1>9 DEF Set
  <2>3. y.flags \cup {"ERR"} \in SUBSET Flags
    BY <2>1 DEF Flags
  <2> HIDE DEF y
  <2>4. /\ v \in Worlds /\ v.ptr = 0 /\ v.cnt = 0 /\ v.cap = x.cap /\ v.file = w.file /\ v.pos = w.pos
        /\ v.flags = w.flags \cup {"READ", "ERR"}
    BY <2>1, <2>2, <2>3 DEF Worlds
  <2>5. ~Has(v, "WRT") /\ Alike(w, v) /\ Has(v, "ERR")
    BY <2>4 DEF Has, Alike
  <2> QED BY <1>7, <2>4, <2>5 DEF v
<1>10. CASE ~fails /\ ~(w.pos < Len(w.file))
  <2> DEFINE y == [x EXCEPT !.ptr = 0, !.cnt = 0]
             off == IF Has(x, "RW") THEN {"READ"} ELSE {}
  <2>1. /\ y \in Worlds /\ y.ptr = 0 /\ y.cnt = 0 /\ y.cap = x.cap /\ y.file = w.file /\ y.pos = w.pos
        /\ y.flags = w.flags \cup {"READ"} /\ y.buf = x.buf /\ y.flags \in SUBSET Flags
    <3>1. y \in Worlds
      BY <1>4
    <3> QED BY <1>2, <3>1, Fields DEF Worlds
  <2>2. v = [y EXCEPT !.flags = (y.flags \ off) \cup {"EOF"}]
    BY <1>3, <1>4, <1>6, <1>10 DEF Set
  <2>3. (y.flags \ off) \cup {"EOF"} \in SUBSET Flags
    BY <2>1 DEF Flags
  <2>4. off \subseteq {"READ"}
    OBVIOUS
  <2> HIDE DEF y, off
  <2>5. /\ v \in Worlds /\ v.ptr = 0 /\ v.cnt = 0 /\ v.cap = x.cap /\ v.file = w.file /\ v.pos = w.pos
        /\ v.flags = ((w.flags \cup {"READ"}) \ off) \cup {"EOF"}
    BY <2>1, <2>2, <2>3 DEF Worlds
  <2>6. ~Has(v, "WRT") /\ Alike(w, v)
    BY <2>4, <2>5 DEF Has, Alike
  <2> QED BY <1>0, <1>7, <1>10, <2>5, <2>6 DEF v
<1>11. CASE ~fails /\ w.pos < Len(w.file)
  <2> DEFINE new == [k \in DOMAIN x.buf |-> IF k \in DOMAIN got THEN got[k] ELSE x.buf[k]]
  <2>1. v = [x EXCEPT !.ptr = 0, !.cnt = Len(got), !.pos = w.pos + Len(got), !.buf = new]
    BY <1>2, <1>3, <1>4, <1>6, <1>11 DEF Worlds
  <2>2. /\ got \in Seq(Bytes) /\ Len(got) \in 1 .. x.cap /\ w.pos + Len(got) <= Len(w.file)
        /\ \A k \in 1 .. Len(got) : got[k] = w.file[w.pos + k]
    BY <1>6, <1>11
  <2>3. new \in [1 .. BigBuf -> Bytes] /\ \A k \in 1 .. Len(got) : new[k] = got[k]
    BY <1>2, <1>4, <2>2
  <2> HIDE DEF new
  <2>4. /\ v \in Worlds /\ v.ptr = 0 /\ v.cnt = Len(got) /\ v.cap = x.cap /\ v.file = w.file
        /\ v.pos = w.pos + Len(got) /\ v.flags = w.flags \cup {"READ"} /\ v.buf = new
    <3>1. Len(got) \in Int /\ w.pos + Len(got) \in Nat /\ 0 \in Nat
      BY <1>0, <2>2
    <3> QED BY <1>2, <2>1, <2>3, <3>1 DEF Worlds
  <2>5. ~Has(v, "WRT") /\ Alike(w, v) /\ Has(v, "READ")
    BY <2>4 DEF Has, Alike
  <2>6. Mirrors(v)
    <3>1. Filled(v) = Len(got) /\ v.pos - Filled(v) = w.pos /\ Len(got) \in Nat
      BY <1>0, <2>2, <2>4 DEF Filled
    <3> QED BY <1>0, <1>2, <2>2, <2>3, <2>4, <3>1 DEF Mirrors
  <2>7. Sized(v)
    BY <1>0, <1>2, <2>2, <2>4, <2>5 DEF Sized, Alike
  <2>8. WorldOK(v)
    BY <2>2, <2>4, <2>5, <2>6, <2>7 DEF WorldOK, ReaderOK, WriterOK, LineOK
  <2>9. At(v) = At(w) /\ v.cnt > 0 /\ v.cap >= 1
    BY <1>0, <1>2, <2>2, <2>4, <2>5 DEF At
  <2> QED BY <2>4, <2>5, <2>8, <2>9 DEF v
<1> QED BY <1>9, <1>10, <1>11

(* The byte at the position is read from a buffer that has one.            *)
Advanced(w) == [w EXCEPT !.ptr = @ + 1, !.cnt = @ - 1]

LEMMA AdvancedIs ==
  ASSUME NEW w, WorldOK(w), ~Has(w, "WRT"), w.cnt > 0
  PROVE  LET v == Advanced(w)
         IN  /\ WorldOK(v) /\ ~Has(v, "WRT") /\ Alike(w, v) /\ At(v) = At(w) + 1 /\ At(v) <= Len(w.file)
             /\ w.buf[w.ptr + 1] = w.file[At(v)] /\ CanPushBack(v, w.file[At(v)])
<1> DEFINE v == Advanced(w)
<1>1. /\ w.file \in Seq(Bytes) /\ w.pos \in Nat /\ w.cnt \in Int /\ Len(w.file) \in Nat
      /\ w.ptr \in Nat /\ w.cap \in Nat /\ w.ptr <= w.cap /\ w \in Worlds
      /\ Has(w, "READ") /\ Mirrors(w) /\ At(w) = w.pos - w.cnt /\ At(w) \in Nat
  BY NotWritten
<1>2. /\ v \in Worlds /\ v.flags = w.flags /\ v.ptr = w.ptr + 1 /\ v.cnt = w.cnt - 1 /\ v.cap = w.cap
      /\ v.buf = w.buf /\ v.file = w.file /\ v.pos = w.pos
  <2>1. w.ptr + 1 \in Nat /\ w.cnt - 1 \in Int
    BY <1>1
  <2> QED BY <1>1, <2>1 DEF Worlds, Advanced
<1> HIDE DEF v
<1>3. \A f : Has(v, f) <=> Has(w, f)
  BY <1>2 DEF Has
<1>4. Filled(w) = w.ptr + w.cnt /\ Filled(v) = Filled(w) /\ Filled(w) \in 0 .. w.pos
      /\ Filled(w) <= w.cap /\ w.pos <= Len(w.file)
      /\ \A k \in 1 .. Filled(w) : w.buf[k] = w.file[w.pos - Filled(w) + k]
  BY <1>1, <1>2 DEF Filled, Mirrors
<1>5. Mirrors(v)
  BY <1>1, <1>2, <1>4 DEF Mirrors
<1>6. Sized(v)
  <2>1. v.ptr <= v.cap /\ v.cnt <= v.cap
    BY <1>1, <1>2, <1>4
  <2> QED BY <1>2, <1>3, <2>1 DEF WorldOK, Sized
<1>7. WorldOK(v) /\ ~Has(v, "WRT") /\ Alike(w, v)
  <2>1. v.cnt >= 0
    BY <1>1, <1>2
  <2> QED BY <1>1, <1>2, <1>3, <1>5, <1>6, <2>1 DEF WorldOK, ReaderOK, WriterOK, LineOK, Alike
<1>8. At(v) = At(w) + 1 /\ At(v) = v.pos - v.cnt
  <2>1. At(v) = v.pos - v.cnt
    BY <1>1, <1>3 DEF At
  <2>2. w.pos - (w.cnt - 1) = (w.pos - w.cnt) + 1
    BY <1>1
  <2> QED BY <1>1, <1>2, <2>1, <2>2
<1>9. w.ptr + 1 \in 1 .. Filled(w) /\ w.pos - Filled(w) + (w.ptr + 1) = At(v)
  <2>1. w.ptr + 1 \in 1 .. (w.ptr + w.cnt) /\ w.pos - (w.ptr + w.cnt) + (w.ptr + 1) = (w.pos - w.cnt) + 1
    BY <1>1
  <2> QED BY <1>1, <1>4, <1>8, <2>1
<1>10. w.buf[w.ptr + 1] = w.file[At(v)]
  BY <1>4, <1>9
<1>11. At(v) \in 1 .. Len(w.file) /\ v.ptr > 0 /\ v.cap >= 1
  <2>1. w.ptr + w.cnt <= w.pos /\ w.ptr + w.cnt <= w.cap
    BY <1>4
  <2>2. (w.pos - w.cnt) + 1 \in 1 .. w.pos /\ w.ptr + 1 > 0 /\ w.cap >= 1
    BY <1>1, <2>1
  <2> QED BY <1>1, <1>2, <1>4, <1>8, <2>2
<1>12. CanPushBack(v, w.file[At(v)])
  BY <1>2, <1>5, <1>8, <1>11 DEF CanPushBack
<1> QED BY <1>1, <1>7, <1>8, <1>10, <1>11, <1>12 DEF v

(* Of k bytes asked for, a.got have been read from w: the bytes of the     *)
(* file from the position, fewer than k only for a reason.                 *)
ReadSoFar(w, line, k, a) ==
  /\ a = [w |-> a.w, got |-> a.got] /\ a.got \in Seq(Bytes) /\ Len(a.got) <= k
  /\ WorldOK(a.w) /\ ~Has(a.w, "WRT") /\ Alike(w, a.w) /\ At(a.w) = At(w) + Len(a.got)
  /\ a.got # << >> => At(a.w) <= Len(w.file) /\ CanPushBack(a.w, w.file[At(a.w)])
  /\ \A j \in 1 .. Len(a.got) : a.got[j] = w.file[At(w) + j]
  /\ \A j \in 1 .. (Len(a.got) - 1) : line => a.got[j] # NL
  /\ \/ Len(a.got) = k
     \/ line /\ a.got # << >> /\ a.got[Len(a.got)] = NL
     \/ Has(a.w, "ERR") \/ At(a.w) >= Len(w.file)

LEMMA AlikeTrans ==
  ASSUME NEW w, NEW u, NEW v, Alike(w, u), Alike(u, v)
  PROVE  Alike(w, v)
BY DEF Alike

LEMMA ReadOneIs ==
  ASSUME NEW w, WorldOK(w), ~Has(w, "WRT"), NEW line \in BOOLEAN, NEW fails \in BOOLEAN, NEW k \in Nat,
         NEW a, ReadSoFar(w, line, k, a)
  PROVE  ReadSoFar(w, line, k + 1, ReadOne(a, k + 1, line, fails))
<1> DEFINE u == a.w
           n == Len(a.got)
           stops == line /\ a.got # << >> /\ Last(a.got) = NL
           x == IF u.cnt <= 0 THEN FillBuf(u, fails) ELSE u
           b == ReadOne(a, k + 1, line, fails)
<1>1. /\ a.got \in Seq(Bytes) /\ n \in Nat /\ n <= k /\ (k + 1) - 1 = k /\ (a.got = << >> <=> n = 0)
      /\ At(w) \in Nat /\ w.file \in Seq(Bytes) /\ Len(w.file) \in Nat
      /\ WorldOK(u) /\ ~Has(u, "WRT") /\ Alike(w, u) /\ At(u) = At(w) + n
  BY NotWritten DEF ReadSoFar
<1>2. b = IF n < k \/ stops THEN a
          ELSE IF x.cnt <= 0 THEN [a EXCEPT !.w = x]
          ELSE [w |-> Advanced(x), got |-> Append(a.got, x.buf[x.ptr + 1])]
  BY <1>1 DEF ReadOne, Advanced
<1>3. /\ WorldOK(x) /\ ~Has(x, "WRT") /\ Alike(u, x) /\ At(x) = At(u)
      /\ \/ x.cnt > 0
         \/ /\ x.cnt = 0 /\ x.pos = At(u) /\ (Has(x, "ERR") \/ At(u) >= Len(w.file))
            /\ x.ptr = 0 /\ x.cap >= 1
  <2>1. CASE u.cnt <= 0
    <3> DEFINE f == FillBuf(u, fails)
    <3>1. x = f
      BY <2>1
    <3>2. /\ WorldOK(f) /\ ~Has(f, "WRT") /\ Alike(u, f) /\ f.cap >= 1
          /\ At(f) = At(u) /\ f.ptr = 0
          /\ \/ f.cnt > 0
             \/ f.cnt = 0 /\ f.pos = At(u) /\ (Has(f, "ERR") \/ At(u) >= Len(u.file))
      BY <1>1, <2>1, FillBufIs
    <3>3. u.file = w.file
      BY <1>1 DEF Alike
    <3> HIDE DEF f, x
    <3> QED BY <3>1, <3>2, <3>3
  <2>2. CASE ~(u.cnt <= 0)
    <3>1. x = u /\ u.cnt \in Int
      BY <1>1, <2>2, NotWritten
    <3>2. Alike(u, u)
      BY DEF Alike
    <3> HIDE DEF x
    <3> QED BY <1>1, <2>2, <3>1, <3>2
  <2> QED BY <2>1, <2>2
<1> HIDE DEF x, b
<1>4. x.file = w.file /\ Alike(w, x) /\ x.cnt \in Int
  <2>1. Alike(w, x)
    BY <1>1, <1>3, AlikeTrans
  <2> QED BY <1>3, <2>1, NotWritten DEF Alike
<1>5. CASE n < k \/ stops
  <2>1. b = a
    BY <1>2, <1>5
  <2>2. \/ line /\ a.got # << >> /\ a.got[n] = NL
        \/ Has(u, "ERR") \/ At(u) >= Len(w.file)
    BY <1>1, <1>5 DEF ReadSoFar, Last
  <2>3. n <= k + 1
    BY <1>1
  <2> QED BY <2>1, <2>2, <2>3 DEF ReadSoFar, b
<1>6. CASE ~(n < k \/ stops) /\ x.cnt <= 0
  <2>1. b = [w |-> x, got |-> a.got]
    <3>1. b = [a EXCEPT !.w = x] /\ a = [w |-> a.w, got |-> a.got]
      BY <1>2, <1>6 DEF ReadSoFar
    <3> QED BY <3>1
  <2>2. /\ x.cnt = 0 /\ x.pos = At(u) /\ (Has(x, "ERR") \/ At(u) >= Len(w.file)) /\ x.ptr = 0 /\ x.cap >= 1
    BY <1>3, <1>4, <1>6
  <2>3. a.got # << >> => At(x) <= Len(w.file) /\ CanPushBack(x, w.file[At(x)])
    <3> SUFFICES ASSUME a.got # << >>
                 PROVE  At(x) <= Len(w.file) /\ CanPushBack(x, w.file[At(x)])
      OBVIOUS
    <3>1. At(u) <= Len(w.file) /\ n # 0
      BY <1>1 DEF ReadSoFar
    <3>2. At(x) \in 1 .. Len(w.file) /\ x.pos - x.cnt = At(x)
      BY <1>1, <1>3, <2>2, <3>1
    <3> QED BY <1>4, <2>2, <3>2 DEF CanPushBack
  <2>4. n <= k + 1 /\ (Has(x, "ERR") \/ At(x) >= Len(w.file)) /\ At(x) = At(w) + n
    BY <1>1, <1>3, <2>2
  <2>5. /\ \A j \in 1 .. n : a.got[j] = w.file[At(w) + j]
        /\ \A j \in 1 .. (n - 1) : line => a.got[j] # NL
    BY DEF ReadSoFar
  <2> QED BY <1>1, <1>3, <1>4, <2>1, <2>3, <2>4, <2>5 DEF ReadSoFar, b
<1>7. CASE ~(n < k \/ stops) /\ ~(x.cnt <= 0)
  <2> DEFINE v == Advanced(x)
             g == Append(a.got, x.buf[x.ptr + 1])
  <2>1. b = [w |-> v, got |-> g]
    BY <1>2, <1>7
  <2>2. x.cnt > 0
    BY <1>4, <1>7
  <2>3. /\ WorldOK(v) /\ ~Has(v, "WRT") /\ Alike(x, v) /\ At(v) = At(x) + 1 /\ At(v) <= Len(w.file)
        /\ x.buf[x.ptr + 1] = w.file[At(v)] /\ CanPushBack(v, w.file[At(v)])
    <3>1. /\ WorldOK(v) /\ ~Has(v, "WRT") /\ Alike(x, v) /\ At(v) = At(x) + 1 /\ At(v) <= Len(x.file)
          /\ x.buf[x.ptr + 1] = x.file[At(v)] /\ CanPushBack(v, x.file[At(v)])
      BY <1>3, <2>2, AdvancedIs
    <3> HIDE DEF v
    <3> QED BY <1>4, <3>1
  <2> HIDE DEF v
  <2>4. n = k /\ At(v) = At(w) + (n + 1) /\ At(v) \in 1 .. Len(w.file)
    BY <1>1, <1>3, <1>7, <2>3
  <2>5. /\ g \in Seq(Bytes) /\ Len(g) = n + 1 /\ g # << >>
        /\ g[n + 1] = w.file[At(v)] /\ \A j \in 1 .. n : g[j] = a.got[j]
    <3>1. w.file[At(v)] \in Bytes
      BY <1>1, <2>4
    <3>2. g = Append(a.got, w.file[At(v)])
      BY <2>3
    <3> HIDE DEF g
    <3> QED BY <1>1, <3>1, <3>2
  <2> HIDE DEF g
  <2>6. \A j \in 1 .. (n + 1) : g[j] = w.file[At(w) + j]
    <3> SUFFICES ASSUME NEW j \in 1 .. (n + 1) PROVE g[j] = w.file[At(w) + j]
      OBVIOUS
    <3>1. j = n + 1 \/ j \in 1 .. n
      BY <1>1
    <3>2. \A i \in 1 .. n : a.got[i] = w.file[At(w) + i]
      BY DEF ReadSoFar
    <3> QED BY <2>4, <2>5, <3>1, <3>2
  <2>7. \A j \in 1 .. ((n + 1) - 1) : line => g[j] # NL
    <3> SUFFICES ASSUME NEW j \in 1 .. n, line PROVE g[j] # NL
      BY <1>1
    <3>1. j = n \/ j \in 1 .. (n - 1)
      BY <1>1
    <3>2. j \in 1 .. (n - 1) => a.got[j] # NL
      BY DEF ReadSoFar
    <3>3. j = n => a.got[j] # NL
      BY <1>1, <1>7 DEF Last
    <3> QED BY <2>5, <3>1, <3>2, <3>3
  <2>8. Alike(w, v)
    BY <1>4, <2>3, AlikeTrans
  <2>9. Len(g) <= k + 1 /\ Len(g) = k + 1 /\ Len(g) = n + 1 /\ k + 1 \in Nat
    BY <1>1, <2>4, <2>5
  <2> QED BY <2>1, <2>3, <2>4, <2>5, <2>6, <2>7, <2>8, <2>9 DEF ReadSoFar, b
<1> QED BY <1>5, <1>6, <1>7

LEMMA ReadIs ==
  ASSUME NEW w, WorldOK(w), ~Has(w, "WRT"), NEW line \in BOOLEAN, NEW fails \in BOOLEAN, NEW n \in Nat
  PROVE  ReadSoFar(w, line, n, Read(w, n, line, fails))
<1> DEFINE G == Reading(w, line, fails)
           T == {k \in Nat : ReadSoFar(w, line, k, G[k])}
<1>1. /\ G[0] = [w |-> w, got |-> << >>]
      /\ \A k \in Nat : G[k + 1] = ReadOne(G[k], k + 1, line, fails)
  BY ReadingIs
<1> HIDE DEF G
<1>2. 0 \in T
  <2>1. Alike(w, w) /\ At(w) \in Nat
    BY NotWritten DEF Alike
  <2>2. << >> \in Seq(Bytes) /\ Len(<< >>) = 0 /\ At(w) + 0 = At(w)
    BY <2>1
  <2>3. ReadSoFar(w, line, 0, [w |-> w, got |-> << >>])
    BY <2>1, <2>2 DEF ReadSoFar
  <2> QED BY <1>1, <2>3
<1>3. ASSUME NEW k \in T PROVE k + 1 \in T
  <2>1. ReadSoFar(w, line, k + 1, ReadOne(G[k], k + 1, line, fails))
    BY ReadOneIs
  <2> QED BY <1>1, <2>1
<1> HIDE DEF T
<1>4. n \in T
  BY <1>2, <1>3, Induction DEF T
<1> QED BY <1>4 DEF T, G, Read

(* Taking, told without CHOOSE. *)
LEMMA TakingIs ==
  ASSUME NEW f \in Seq(Bytes), NEW p \in Nat, NEW n \in Nat, NEW line \in BOOLEAN, NEW m \in 0 .. n,
         m > 0 => p + m <= Len(f),
         \A j \in 1 .. (m - 1) : line => f[p + j] # NL,
         m = n \/ (line /\ m > 0 /\ f[p + m] = NL) \/ p + m >= Len(f)
  PROVE  C!Taking(f, p, n, line) = SubSeq(f, p + 1, p + m)
<1> DEFINE room  == {k \in 1 .. n : p + k <= Len(f)}
           stops == {k \in room : line /\ f[p + k] = NL}
           least == CHOOSE k \in stops : \A q \in stops : k <= q
           most  == CHOOSE k \in room : \A q \in room : q <= k
           t == IF stops # {} THEN least ELSE IF room # {} THEN most ELSE 0
<1>1. C!Taking(f, p, n, line) = SubSeq(f, p + 1, p + t)
  BY DEF C!Taking
<1>2. Len(f) \in Nat /\ m \in Nat /\ m <= n
  OBVIOUS
<1>3. \A k \in stops : m <= k
  <2> SUFFICES ASSUME NEW k \in stops, k < m PROVE FALSE
    BY <1>2
  <2>1. k \in 1 .. (m - 1)
    BY <1>2
  <2> QED BY <2>1
<1>4. CASE stops # {}
  <2>1. m \in stops
    <3>1. PICK k \in stops : TRUE
      BY <1>4
    <3>2. m <= k /\ k \in 1 .. n /\ p + k <= Len(f) /\ line
      BY <1>3, <3>1
    <3>3. CASE m = k
      BY <3>3
    <3>4. CASE m < k
      <4>1. m # n /\ ~(p + m >= Len(f))
        BY <1>2, <3>2, <3>4
      <4>2. line /\ m > 0 /\ f[p + m] = NL
        BY <4>1
      <4>3. m \in 1 .. n /\ p + m <= Len(f)
        BY <1>2, <4>2
      <4> QED BY <4>2, <4>3
    <3> QED BY <1>2, <3>2, <3>3, <3>4
  <2>2. least \in stops /\ \A q \in stops : least <= q
    BY <1>3, <2>1
  <2> HIDE DEF least
  <2>3. least = m
    <3>1. least <= m /\ m <= least
      BY <1>3, <2>1, <2>2
    <3>2. least \in Nat
      BY <2>2
    <3> QED BY <1>2, <3>1, <3>2
  <2> QED BY <1>1, <1>4, <2>3 DEF least
<1>5. CASE stops = {}
  <2>1. ~(line /\ m > 0 /\ f[p + m] = NL)
    <3> SUFFICES ASSUME line, m > 0, f[p + m] = NL PROVE FALSE
      OBVIOUS
    <3>1. m \in stops
      BY <1>2
    <3> QED BY <1>5, <3>1
  <2>2. m = n \/ p + m >= Len(f)
    BY <2>1
  <2>3. \A k \in room : k <= m
    BY <1>2, <2>2
  <2>4. CASE m = 0
    <3>1. room = {}
      BY <1>2, <2>3, <2>4
    <3> QED BY <1>1, <1>5, <2>4, <3>1
  <2>5. CASE m > 0
    <3>1. m \in room
      BY <1>2, <2>5
    <3>2. most \in room /\ \A q \in room : q <= most
      BY <2>3, <3>1
    <3> HIDE DEF most
    <3>3. most = m
      <4>1. m <= most /\ most <= m
        BY <2>3, <3>1, <3>2
      <4>2. most \in Nat
        BY <3>2
      <4> QED BY <1>2, <4>1, <4>2
    <3> QED BY <1>1, <1>5, <3>1, <3>3 DEF most
  <2> QED BY <1>2, <2>4, <2>5
<1> QED BY <1>4, <1>5

-----------------------------------------------------------------------------
(* The state as a world, and the refinement mapping of C.                  *)
Data == Overlay(file, pos, Pending)
Pos == IF "READ" \in fp.flags THEN pos - fp.cnt ELSE pos + Len(Pending)
Err == "ERR" \in fp.flags \/ (op = <<"fclose">> /\ ret = <<-1>>)

LEMMA Mapping ==
  /\ Data = Out(World) /\ Pos = At(World) /\ ("ERR" \in fp.flags <=> Has(World, "ERR"))
  /\ op # <<"fclose">> => (Err <=> Has(World, "ERR"))
<1>1. /\ World.flags = fp.flags /\ World.cnt = fp.cnt /\ World.ptr = fp.ptr /\ World.cap = fp.cap
      /\ World.buf = buf /\ World.file = file /\ World.pos = pos
  BY DEF World
<1>2. Pending = Pnd(World)
  BY <1>1 DEF Pending, Pnd, Has, Unbuffered
<1> QED BY <1>1, <1>2 DEF Data, Pos, Err, Out, At, End, Has

(* After a step to v the state is v. *)
LEMMA BecomesIs ==
  ASSUME NEW v \in Worlds, Becomes(v)
  PROVE  World' = v
<1>1. v = [flags |-> v.flags, cnt |-> v.cnt, ptr |-> v.ptr, cap |-> v.cap,
           buf |-> v.buf, file |-> v.file, pos |-> v.pos]
  BY DEF Worlds
<1>2. /\ fp'.flags = v.flags /\ fp'.cnt = v.cnt /\ fp'.ptr = v.ptr /\ fp'.cap = v.cap
      /\ buf' = v.buf /\ file' = v.file /\ pos' = v.pos
  BY DEF Becomes
<1>3. World' = [flags |-> fp'.flags, cnt |-> fp'.cnt, ptr |-> fp'.ptr, cap |-> fp'.cap,
                buf |-> buf', file |-> file', pos |-> pos']
  BY DEF World
<1> QED BY <1>1, <1>2, <1>3

(* The invariant and the mapping after a step to v. *)
LEMMA Became ==
  ASSUME NEW v, WorldOK(v), Becomes(v)
  PROVE  /\ WorldOK(World)' /\ v \in Worlds
         /\ Data' = Out(v) /\ Pos' = At(v)
         /\ op' # <<"fclose">> => (Err' <=> Has(v, "ERR"))
         /\ fp'.flags = v.flags /\ fp'.cnt = v.cnt /\ fp'.ptr = v.ptr /\ fp'.cap = v.cap
         /\ World' = v
<1>1. v \in Worlds
  BY DEF WorldOK, Sized
<1>2. World' = v
  BY <1>1, BecomesIs
<1>3. /\ Data' = Out(World)' /\ Pos' = At(World)'
      /\ op' # <<"fclose">> => (Err' <=> Has(World, "ERR")')
  <2>1. (/\ Data = Out(World) /\ Pos = At(World) /\ ("ERR" \in fp.flags <=> Has(World, "ERR"))
         /\ op # <<"fclose">> => (Err <=> Has(World, "ERR")))'
    BY Mapping, PTL
  <2> QED BY <2>1
<1>4. Out(World)' = Out(v) /\ At(World)' = At(v) /\ (Has(World, "ERR")' <=> Has(v, "ERR")) /\ WorldOK(World)'
  BY <1>2
<1> QED BY <1>1, <1>2, <1>3, <1>4 DEF Becomes

(* A stream that may be written is not being read, and conversely.         *)
LEMMA Directions ==
  ASSUME IInv
  PROVE  /\ MayWrite => ~Has(World, "READ")
         /\ MayRead => ~Has(World, "WRT")
         /\ fp.flags \cap {"READ", "WRT", "RW"} # {} => op # <<"fclose">>
         /\ MayWrite \/ MayRead => op # <<"fclose">>
<1>1. /\ World.flags = fp.flags
      /\ Has(World, "READ") => ~Has(World, "WRT")
      /\ RW /\ "READ" \in fp.flags => turn = "reading"
      /\ RW /\ "WRT" \in fp.flags => turn = "writing"
      /\ op = <<"fclose">> => fp.flags = {}
  BY DEF IInv, WorldOK, ReaderOK, TurnOK, OpOK, World
<1>2. MayWrite => ~Has(World, "READ")
  BY <1>1 DEF MayWrite, RW, Has
<1>3. MayRead => ~Has(World, "WRT")
  BY <1>1 DEF MayRead, RW, Has
<1>4. /\ fp.flags \cap {"READ", "WRT", "RW"} # {} => op # <<"fclose">>
      /\ MayWrite \/ MayRead => op # <<"fclose">>
  BY <1>1 DEF MayWrite, MayRead
<1> QED BY <1>2, <1>3, <1>4

(* Calls have different names. *)
LEMMA Names ==
  ASSUME NEW n, NEW line
  PROVE  /\ <<"read", n, line>> # <<"open">> /\ <<"read", n, line>> # <<"fclose">>
         /\ <<"write", n>> # <<"open">> /\ <<"write", n>> # <<"fclose">> /\ <<"write", n>>[1] = "write"
         /\ <<"write", n>>[1] # "read" /\ <<"write", n>>[2] = n
         /\ <<"fseek", n, line>> # <<"open">> /\ <<"fseek", n, line>> # <<"fclose">>
         /\ <<"fseek", n, line>>[1] # "read"
         /\ <<"read", n, line>>[1] = "read" /\ <<"read", n, line>>[2] = n
         /\ \A f \in {"ungetc", "fflush", "ftell", "rewind", "setvbuf"} :
              <<f>> # <<"open">> /\ <<f>> # <<"fclose">> /\ <<f>>[1] # "read" /\ <<f>>[1] # "write"
         /\ <<"fclose">> # <<"open">> /\ <<"fclose">>[1] # "read"
OBVIOUS

-----------------------------------------------------------------------------
(* One lemma per operation: the invariant is kept, and the step is one of  *)
(* the contract.                                                           *)

(* A step that writes bs, or loses some of it, to v. *)
LEMMA PutStep ==
  ASSUME IInv, MayWrite, NEW bs \in Writes \cup {<<c>> : c \in Text \cup {NL}},
         Called(<<"write", bs>>, << >>, Writing),
         NEW v, Becomes(v), WorldOK(v), Has(v, "WRT"), ~Has(v, "READ"), Has(v, "RW") <=> Has(World, "RW"),
         Wrote(World, v, bs) \/ Lost(World, v, Len(bs))
  PROVE  IInv' /\ C!CNext
<1>1. ~Has(World, "READ") /\ op # <<"fclose">>
  BY Directions
<1>2. /\ WorldOK(World)' /\ v \in Worlds /\ Data' = Out(v) /\ Pos' = At(v)
      /\ op' # <<"fclose">> => (Err' <=> Has(v, "ERR"))
      /\ fp'.flags = v.flags /\ World' = v
  BY Became
<1>3. op' = <<"write", bs>> /\ ret' = << >> /\ turn' = Writing
  BY DEF Called
<1>4. op' # <<"open">> /\ op' # <<"fclose">> /\ op'[1] = "write" /\ op'[1] # "read" /\ op'[2] = bs
  BY <1>3, Names
<1>5. RW <=> Has(World, "RW")
  BY DEF RW, Has, World
<1>6. TurnOK'
  <2>1. RW' <=> Has(v, "RW")
    BY <1>2 DEF RW, Has
  <2>2. turn' = IF RW THEN "writing" ELSE "free"
    BY <1>3 DEF Writing
  <2>3. ~("READ" \in fp'.flags)
    BY <1>2 DEF Has
  <2> QED BY <1>5, <2>1, <2>2, <2>3 DEF TurnOK
<1>7. OpOK'
  BY <1>4 DEF OpOK
<1>8. /\ Data = Out(World) /\ Pos = End(World) /\ (Err <=> Has(World, "ERR"))
      /\ Pos' = End(v) /\ (Err' <=> Has(v, "ERR"))
  BY <1>1, <1>2, <1>4, Mapping DEF At
<1>9. CASE Wrote(World, v, bs)
  <2>1. /\ Data' = Overlay(Data, Pos, bs) /\ Pos' = Pos + Len(bs)
        /\ Err' <=> Err
    BY <1>2, <1>8, <1>9 DEF Wrote, SameError
  <2>2. C!Puts(bs)
    <3>1. Overlay(Data, Pos, bs) = C!Overlay(Data, Pos, bs)
      BY DEF Overlay, C!Overlay
    <3>2. Err' = Err
      BY <2>1, <1>8 DEF Err
    <3> QED BY <1>3, <2>1, <3>1, <3>2 DEF C!Puts, Data, Pos, Err
  <2> QED BY <1>2, <1>6, <1>7, <2>2 DEF IInv, C!CNext
<1>10. CASE Lost(World, v, Len(bs))
  <2>1. Pos + Len(op'[2]) > DiskSize /\ Err'
    BY <1>4, <1>8, <1>10 DEF Lost
  <2>2. C!Loses
    BY <1>4, <2>1 DEF C!Loses, Data, Pos, Err
  <2> QED BY <1>2, <1>6, <1>7, <2>2 DEF IInv, C!CNext
<1> QED BY <1>9, <1>10

LEMMA PutcStep == ASSUME IInv, DoPutc PROVE IInv' /\ C!CNext
<1>1. PICK c \in Text \cup {NL} : Becomes(Putc(World, c)) /\ Called(<<"write", <<c>>>>, << >>, Writing)
  BY DEF DoPutc
<1> DEFINE v == Putc(World, c)
<1>2. c \in Bytes /\ MayWrite /\ ~Has(World, "READ") /\ WorldOK(World)
  BY Sizes, Directions DEF DoPutc, IInv
<1>3. /\ WorldOK(v) /\ Has(v, "WRT") /\ ~Has(v, "READ")
      /\ Has(v, "RW") <=> Has(World, "RW")
      /\ Wrote(World, v, <<c>>) \/ Lost(World, v, 1)
  BY <1>2, PutcIs
<1> HIDE DEF v
<1>4. <<c>> \in Writes \cup {<<x>> : x \in Text \cup {NL}} /\ Len(<<c>>) = 1
  OBVIOUS
<1> DEFINE bs == <<c>>
<1>5. bs \in Writes \cup {<<x>> : x \in Text \cup {NL}} /\ (Wrote(World, v, bs) \/ Lost(World, v, Len(bs)))
  BY <1>3, <1>4
<1>6. Becomes(v) /\ Called(<<"write", bs>>, << >>, Writing)
  BY <1>1 DEF v
<1> HIDE DEF bs
<1> QED BY <1>2, <1>3, <1>5, <1>6, PutStep

LEMMA WritesAre == \A bs \in Writes : bs \in Seq(Bytes)
<1>1. Writes \subseteq Seq(Text \cup {NL}) /\ Text \cup {NL} \subseteq Bytes
  BY StreamAssumption DEF Bytes
<1> QED BY <1>1

LEMMA FwriteStep == ASSUME IInv, Habits = {}, DoFwrite PROVE IInv' /\ C!CNext
<1>1. PICK bs \in Writes : Becomes(Fwrite(World, bs)) /\ Called(<<"write", bs>>, << >>, Writing)
  BY DEF DoFwrite
<1> DEFINE v == Fwrite(World, bs)
<1>2. bs \in Seq(Bytes) /\ MayWrite /\ ~Has(World, "READ") /\ ~Has(World, "LBF") /\ WorldOK(World)
  BY WritesAre, Directions DEF DoFwrite, IInv
<1>3. /\ WorldOK(v) /\ Has(v, "WRT") /\ ~Has(v, "READ")
      /\ Has(v, "RW") <=> Has(World, "RW")
      /\ Wrote(World, v, bs) \/ Lost(World, v, Len(bs))
  BY <1>2, FwriteIs
<1>4. Becomes(v)
  BY <1>1
<1> HIDE DEF v
<1> QED BY <1>1, <1>2, <1>3, <1>4, PutStep

LEMMA FputsStep == ASSUME IInv, Habits = {}, DoFputs PROVE IInv' /\ C!CNext
<1>1. PICK bs \in Writes : Becomes(Fputs(World, bs)) /\ Called(<<"write", bs>>, << >>, Writing)
  BY DEF DoFputs
<1> DEFINE v == Fputs(World, bs)
<1>2. bs \in Seq(Bytes) /\ MayWrite /\ ~Has(World, "READ") /\ ~Unbuffered(World) /\ WorldOK(World)
  BY WritesAre, Directions DEF DoFputs, IInv
<1>3. /\ WorldOK(v) /\ Has(v, "WRT") /\ ~Has(v, "READ")
      /\ Has(v, "RW") <=> Has(World, "RW")
      /\ Wrote(World, v, bs) \/ Lost(World, v, Len(bs))
  BY <1>2, FputsIs
<1>4. Becomes(v)
  BY <1>1
<1> HIDE DEF v
<1> QED BY <1>1, <1>2, <1>3, <1>4, PutStep

(* The turn of an update stream after a call that leaves it, or frees it.  *)
LEMMA StillTurn ==
  ASSUME IInv, NEW v, fp'.flags = v.flags, turn' = turn, Has(v, "RW") <=> Has(World, "RW"),
         Has(v, "READ") => Has(World, "READ"), Has(v, "WRT") => Has(World, "WRT")
  PROVE  TurnOK'
<1>1. World.flags = fp.flags
  BY DEF World
<1> QED BY <1>1 DEF IInv, TurnOK, RW, Has

LEMMA FreeTurn ==
  ASSUME NEW v, fp'.flags = v.flags, turn' = "free", Has(v, "RW") => ~Has(v, "READ") /\ ~Has(v, "WRT")
  PROVE  TurnOK'
BY DEF TurnOK, RW, Has

(* After most calls nothing was just read, opened or closed. *)
LEMMA OtherOp ==
  ASSUME op' # <<"open">>, op' # <<"fclose">>, op'[1] # "read"
  PROVE  OpOK'
BY DEF OpOK

(* What the contract sees of a step to v. *)
LEMMA Seen ==
  ASSUME NEW v, WorldOK(v), Becomes(v), op # <<"fclose">>, op' # <<"fclose">>
  PROVE  /\ WorldOK(World)' /\ fp'.flags = v.flags /\ v \in Worlds
         /\ Data = Out(World) /\ Pos = At(World) /\ Data' = Out(v) /\ Pos' = At(v)
         /\ Err <=> Has(World, "ERR")
         /\ Err' <=> Has(v, "ERR")
         /\ (Has(v, "ERR") <=> Has(World, "ERR")) => Err' = Err
<1>1. /\ WorldOK(World)' /\ fp'.flags = v.flags /\ v \in Worlds
      /\ Data' = Out(v) /\ Pos' = At(v) /\ (Err' <=> Has(v, "ERR"))
  BY Became
<1>2. Data = Out(World) /\ Pos = At(World) /\ (Err <=> Has(World, "ERR"))
  BY Mapping
<1> QED BY <1>1, <1>2 DEF Err

LEMMA FflushStep == ASSUME IInv, Habits = {}, DoFflush PROVE IInv' /\ C!CNext
<1> DEFINE v == Fflush(World)
<1>1. MayWrite /\ Becomes(v) /\ op' = <<"fflush">> /\ ret' = << >> /\ turn' = turn
  BY DEF DoFflush, Called
<1>2. ~Has(World, "READ") /\ op # <<"fclose">> /\ WorldOK(World)
  BY <1>1, Directions DEF IInv
<1>3. /\ WorldOK(v) /\ Kin(World, v) /\ v.ptr = 0 /\ Pnd(v) = << >>
      /\ \/ Out(v) = Out(World) /\ End(v) = End(World) /\ SameError(World, v)
         \/ Has(v, "ERR") /\ Len(Out(World)) > DiskSize
  BY <1>2, FflushIs
<1> HIDE DEF v
<1>4. op' # <<"open">> /\ op' # <<"fclose">> /\ op'[1] # "read"
  BY <1>1
<1>5. /\ WorldOK(World)' /\ fp'.flags = v.flags
      /\ Data = Out(World) /\ Pos = At(World) /\ Data' = Out(v) /\ Pos' = At(v)
      /\ Err' <=> Has(v, "ERR")
      /\ (Has(v, "ERR") <=> Has(World, "ERR")) => Err' = Err
  BY <1>1, <1>2, <1>3, <1>4, Seen
<1>6. ~Has(v, "READ") /\ (Has(v, "RW") <=> Has(World, "RW")) /\ (Has(v, "WRT") => Has(World, "WRT"))
  BY <1>2, <1>3, KinIs
<1>7. IInv'
  BY <1>1, <1>4, <1>5, <1>6, StillTurn, OtherOp DEF IInv
<1>8. CASE Out(v) = Out(World) /\ End(v) = End(World) /\ SameError(World, v)
  <2>1. Data' = Data /\ Pos' = Pos /\ Err' = Err
    BY <1>2, <1>5, <1>6, <1>8 DEF At, SameError
  <2>2. C!Flushes
    BY <1>1, <2>1 DEF C!Flushes, Data, Pos, Err
  <2> QED BY <1>7, <2>2 DEF C!CNext
<1>9. CASE Has(v, "ERR") /\ Len(Out(World)) > DiskSize
  <2>1. C!Loses
    BY <1>5, <1>9 DEF C!Loses, Data, Err
  <2> QED BY <1>7, <2>1 DEF C!CNext
<1> QED BY <1>3, <1>8, <1>9

(* ftell forgets a count below zero, which only a write leaves. *)
LEMMA FtellIs ==
  ASSUME NEW w, WorldOK(w)
  PROVE  LET v == [w EXCEPT !.cnt = IF @ < 0 THEN 0 ELSE @]
         IN  /\ WorldOK(v) /\ v.flags = w.flags /\ Out(v) = Out(w) /\ At(v) = At(w)
             /\ Ftell(w) = At(w)
<1> DEFINE v == [w EXCEPT !.cnt = IF @ < 0 THEN 0 ELSE @]
<1>1. w \in Worlds /\ w.ptr \in Nat /\ w.cap \in Nat /\ w.ptr <= w.cap /\ w.cnt \in Int /\ w.pos \in Nat
  BY Fields DEF WorldOK, Sized
<1>2. /\ v \in Worlds /\ v.flags = w.flags /\ v.ptr = w.ptr /\ v.cap = w.cap
      /\ v.buf = w.buf /\ v.file = w.file /\ v.pos = w.pos
      /\ v.cnt = IF w.cnt < 0 THEN 0 ELSE w.cnt
  <2>1. (IF w.cnt < 0 THEN 0 ELSE w.cnt) \in Int
    BY <1>1
  <2> QED BY <1>1, <2>1 DEF Worlds
<1> HIDE DEF v
<1>3. \A f : Has(v, f) <=> Has(w, f)
  BY <1>2 DEF Has
<1>4. Pnd(v) = Pnd(w)
  BY <1>2, <1>3 DEF Pnd, Unbuffered
<1>5. Has(w, "READ") => v.cnt = w.cnt
  BY <1>1, <1>2 DEF WorldOK, ReaderOK
<1>6. ~Has(w, "READ") /\ ~Sloppy(w) => v.cnt = w.cnt
  BY <1>1, <1>2 DEF WorldOK, WriterOK
<1>7. Out(v) = Out(w) /\ At(v) = At(w)
  BY <1>2, <1>3, <1>4, <1>5 DEF Out, End, At
<1>8. Sized(v)
  BY <1>1, <1>2, <1>3 DEF WorldOK, Sized
<1>9. ReaderOK(v) /\ LineOK(v)
  BY <1>2, <1>3, <1>5 DEF WorldOK, ReaderOK, LineOK, Mirrors, Filled
<1>10. WriterOK(v)
  BY <1>1, <1>2, <1>3, <1>6 DEF WorldOK, WriterOK, Sloppy, Unbuffered
<1>11. Ftell(w) = At(w)
  <2>1. CASE Has(w, "READ")
    BY <1>1, <2>1 DEF Ftell, At
  <2>2. CASE ~Has(w, "READ") /\ Has(w, "WRT") /\ w.cap # 0 /\ ~Unbuffered(w)
    <3>1. Pnd(w) = SubSeq(w.buf, 1, w.ptr)
      BY <2>2 DEF Pnd
    <3>2. Len(SubSeq(w.buf, 1, w.ptr)) = w.ptr
      BY <1>1, PndIs, Zenon
    <3> QED BY <2>2, <3>1, <3>2 DEF Ftell, At, End
  <2>3. CASE ~Has(w, "READ") /\ ~(Has(w, "WRT") /\ w.cap # 0 /\ ~Unbuffered(w))
    <3>1. Pnd(w) = << >> /\ Len(<< >>) = 0
      BY <2>3 DEF Pnd
    <3> QED BY <2>3, <3>1 DEF Ftell, At, End
  <2> QED BY <2>1, <2>2, <2>3
<1> QED BY <1>2, <1>7, <1>8, <1>9, <1>10, <1>11 DEF WorldOK, v

LEMMA FtellStep == ASSUME IInv, DoFtell PROVE IInv' /\ C!CNext
<1> DEFINE v == [World EXCEPT !.cnt = IF @ < 0 THEN 0 ELSE @]
<1>1. /\ fp.flags \cap {"READ", "WRT", "RW"} # {} /\ Becomes(v)
      /\ op' = <<"ftell">> /\ ret' = <<Ftell(World)>> /\ turn' = turn
  BY DEF DoFtell, Called
<1>2. WorldOK(World) /\ op # <<"fclose">>
  BY <1>1, Directions DEF IInv
<1>3. WorldOK(v) /\ v.flags = World.flags /\ Out(v) = Out(World) /\ At(v) = At(World) /\ Ftell(World) = At(World)
  BY <1>2, FtellIs
<1> HIDE DEF v
<1>4. op' # <<"open">> /\ op' # <<"fclose">> /\ op'[1] # "read"
  BY <1>1
<1>5. \A f : Has(v, f) <=> Has(World, f)
  BY <1>3 DEF Has
<1>6. /\ WorldOK(World)' /\ fp'.flags = v.flags
      /\ Data' = Data /\ Pos' = Pos /\ Err' = Err /\ Pos = At(World)
  BY <1>1, <1>2, <1>3, <1>4, <1>5, Seen
<1>7. IInv'
  BY <1>1, <1>4, <1>5, <1>6, StillTurn, OtherOp DEF IInv
<1>8. C!Tells
  BY <1>1, <1>3, <1>6 DEF C!Tells, Data, Pos, Err
<1> QED BY <1>7, <1>8 DEF C!CNext

(* setvbuf before the stream is used: only its buffer and mode change.     *)
LEMMA SetvbufIs ==
  ASSUME NEW w, WorldOK(w), w.cap = 0, w.ptr = 0, w.cnt = 0, NEW mode \in {"full", "line", "none"}
  PROVE  LET v == Setvbuf(w, mode)
         IN  /\ WorldOK(v) /\ Out(v) = Out(w) /\ At(v) = At(w)
             /\ \A f \in {"READ", "WRT", "RW", "ERR"} : Has(v, f) <=> Has(w, f)
<1> DEFINE v == Setvbuf(w, mode)
           room == IF grant THEN BigBuf ELSE SbufSiz
<1>1. w \in Worlds /\ w.flags \in SUBSET Flags /\ Len(w.file) <= DiskSize /\ w.file \in Seq(Bytes) /\ w.pos \in Nat
  BY Fields DEF WorldOK, Sized
<1>2. room \in {0, SbufSiz, BigBuf} /\ room \in Nat
  BY Sizes
<1> HIDE DEF room
<1>3. /\ v \in Worlds /\ v.cnt = 0 /\ v.ptr = 0 /\ v.cap \in {0, room} /\ v.file = w.file /\ v.pos = w.pos
      /\ v.flags \cap {"READ", "WRT", "RW", "EOF", "ERR"} = w.flags \cap {"READ", "WRT", "RW", "EOF", "ERR"}
      /\ ~({"NBF", "LBF"} \subseteq v.flags)
  <2>1. CASE mode = "none"
    <3> DEFINE fl == (w.flags \ {"LBF"}) \cup {"NBF"}
    <3>1. v = [w EXCEPT !.flags = fl]
      BY <2>1 DEF Setvbuf, Set
    <3>2. /\ fl \in SUBSET Flags /\ ~({"NBF", "LBF"} \subseteq fl)
          /\ fl \cap {"READ", "WRT", "RW", "EOF", "ERR"} = w.flags \cap {"READ", "WRT", "RW", "EOF", "ERR"}
      BY <1>1 DEF Flags
    <3> HIDE DEF v, fl
    <3>3. /\ v \in Worlds /\ v.flags = fl /\ v.cnt = w.cnt /\ v.ptr = w.ptr /\ v.cap = w.cap
          /\ v.file = w.file /\ v.pos = w.pos
      BY <1>1, <3>1, <3>2 DEF Worlds
    <3> QED BY <3>2, <3>3
  <2>2. CASE mode = "line"
    <3> DEFINE fl == (w.flags \ {"NBF"}) \cup {"LBF"}
    <3>1. v = [w EXCEPT !.cap = room, !.flags = fl]
      BY <1>1, <2>2 DEF Setvbuf, Set, room, Worlds
    <3>2. /\ fl \in SUBSET Flags /\ ~({"NBF", "LBF"} \subseteq fl)
          /\ fl \cap {"READ", "WRT", "RW", "EOF", "ERR"} = w.flags \cap {"READ", "WRT", "RW", "EOF", "ERR"}
      BY <1>1 DEF Flags
    <3> HIDE DEF v, fl
    <3>3. /\ v \in Worlds /\ v.flags = fl /\ v.cnt = w.cnt /\ v.ptr = w.ptr /\ v.cap = room
          /\ v.file = w.file /\ v.pos = w.pos
      BY <1>1, <1>2, <3>1, <3>2 DEF Worlds
    <3> QED BY <3>2, <3>3
  <2>3. CASE mode = "full"
    <3> DEFINE fl == (w.flags \ {"LBF", "NBF"}) \cup {}
    <3>1. v = [w EXCEPT !.cap = room, !.flags = fl]
      BY <1>1, <2>3 DEF Setvbuf, Set, room, Worlds
    <3>2. /\ fl \in SUBSET Flags /\ ~({"NBF", "LBF"} \subseteq fl)
          /\ fl \cap {"READ", "WRT", "RW", "EOF", "ERR"} = w.flags \cap {"READ", "WRT", "RW", "EOF", "ERR"}
      BY <1>1 DEF Flags
    <3> HIDE DEF v, fl
    <3>3. /\ v \in Worlds /\ v.flags = fl /\ v.cnt = w.cnt /\ v.ptr = w.ptr /\ v.cap = room
          /\ v.file = w.file /\ v.pos = w.pos
      BY <1>1, <1>2, <3>1, <3>2 DEF Worlds
    <3> QED BY <3>2, <3>3
  <2> QED BY <2>1, <2>2, <2>3
<1> HIDE DEF v
<1>4. \A f \in {"READ", "WRT", "RW", "ERR"} : Has(v, f) <=> Has(w, f)
  BY <1>3 DEF Has
<1>5. v.ptr <= v.cap /\ v.cnt <= v.cap
  BY <1>2, <1>3
<1>6. Sized(v)
  BY <1>1, <1>3, <1>5 DEF Sized, Has
<1>7. ReaderOK(v) /\ WriterOK(v) /\ LineOK(v)
  BY <1>3, <1>4 DEF WorldOK, ReaderOK, WriterOK, LineOK
<1>8. Out(v) = Out(w) /\ End(v) = End(w)
  <2>1. w.ptr <= w.cap
    OBVIOUS
  <2>2. Pnd(w) = << >> /\ Pnd(v) = << >>
    BY <1>1, <1>3, <1>5, <2>1, PndIs
  <2> QED BY <1>3, <2>2 DEF Out, End
<1>9. At(v) = At(w)
  BY <1>3, <1>4, <1>8 DEF At
<1> QED BY <1>4, <1>6, <1>7, <1>8, <1>9 DEF WorldOK, v

LEMMA SetvbufStep == ASSUME IInv, DoSetvbuf PROVE IInv' /\ C!CNext
<1>1. PICK mode \in Buffering : Becomes(Setvbuf(World, mode))
  BY DEF DoSetvbuf
<1> DEFINE v == Setvbuf(World, mode)
<1>2. op = <<"open">> /\ op' = <<"setvbuf">> /\ ret' = << >> /\ turn' = turn /\ Becomes(v)
  BY <1>1 DEF DoSetvbuf, Called
<1>3. mode \in {"full", "line", "none"}
  BY StreamAssumption
<1>4. WorldOK(World) /\ World.cap = 0 /\ World.ptr = 0 /\ World.cnt = 0
  BY <1>2 DEF IInv, OpOK, World
<1>5. /\ WorldOK(v) /\ Out(v) = Out(World) /\ At(v) = At(World)
      /\ \A f \in {"READ", "WRT", "RW", "ERR"} : Has(v, f) <=> Has(World, f)
  BY <1>3, <1>4, SetvbufIs
<1> HIDE DEF v
<1>6. op' # <<"open">> /\ op' # <<"fclose">> /\ op # <<"fclose">> /\ op'[1] # "read"
  BY <1>2
<1>7. WorldOK(World)' /\ fp'.flags = v.flags /\ Data' = Data /\ Pos' = Pos /\ Err' = Err
  BY <1>2, <1>5, <1>6, Seen
<1>8. IInv'
  BY <1>2, <1>5, <1>6, <1>7, StillTurn, OtherOp DEF IInv
<1>9. C!Flushes
  BY <1>2, <1>7 DEF C!Flushes, Data, Pos, Err
<1> QED BY <1>8, <1>9 DEF C!CNext

(* ungetc of the byte just read: it is what the buffer holds there, or the *)
(* empty buffer's first byte.                                              *)
LEMMA UngetcIs ==
  ASSUME NEW w, WorldOK(w), Has(w, "READ"), NEW c, CanPushBack(w, c)
  PROVE  LET v == Ungetc(w, c)
         IN  /\ UngetcOk(w) /\ WorldOK(v) /\ v.flags = w.flags /\ Out(v) = Out(w)
             /\ At(v) = At(w) - 1 /\ At(w) > 0
<1> DEFINE p == IF w.ptr > 0 THEN w.ptr ELSE 1
           v == Ungetc(w, c)
<1>0. ~Has(w, "WRT") /\ w.cnt >= 0
  BY DEF WorldOK, ReaderOK
<1>1. /\ w \in Worlds /\ w.ptr \in Nat /\ w.cap \in Nat /\ w.ptr <= w.cap /\ w.cnt \in Nat /\ w.cnt <= w.cap
      /\ w.pos \in Nat /\ w.cap <= BigBuf /\ BigBuf \in Nat /\ w.buf \in [1 .. BigBuf -> Bytes]
      /\ w.file \in Seq(Bytes) /\ Len(w.file) \in Nat
  BY <1>0, Fields, Sizes DEF WorldOK, Sized
<1>2. /\ w.cap >= 1 /\ w.pos - w.cnt \in 1 .. Len(w.file) /\ c = w.file[w.pos - w.cnt]
      /\ (w.ptr > 0 /\ Mirrors(w)) \/ (w.ptr = 0 /\ w.cnt = 0)
  BY DEF CanPushBack
<1>3. c \in Bytes /\ p \in 1 .. BigBuf /\ p - 1 \in Nat /\ w.cnt + 1 \in Int
  BY <1>1, <1>2
<1> HIDE DEF p
<1>4. /\ v \in Worlds /\ v.flags = w.flags /\ v.ptr = p - 1 /\ v.cnt = w.cnt + 1 /\ v.cap = w.cap
      /\ v.buf = [w.buf EXCEPT ![p] = c] /\ v.file = w.file /\ v.pos = w.pos
  <2>1. v = [w EXCEPT !.buf[p] = c, !.ptr = p - 1, !.cnt = @ + 1]
    BY DEF Ungetc, p
  <2>2. [w.buf EXCEPT ![p] = c] \in [1 .. BigBuf -> Bytes]
    BY <1>1, <1>3
  <2> HIDE DEF v
  <2> QED BY <1>1, <1>3, <2>1, <2>2 DEF Worlds
<1> HIDE DEF v
<1>5. \A f : Has(v, f) <=> Has(w, f)
  BY <1>4 DEF Has
<1>6. UngetcOk(w)
  BY <1>2 DEF UngetcOk
<1>7. Mirrors(v) /\ Filled(v) = p + w.cnt /\ p + w.cnt <= w.cap
  <2>1. CASE w.ptr > 0
    <3>1. /\ p = w.ptr /\ Filled(w) = w.ptr + w.cnt /\ Filled(v) = w.ptr + w.cnt
      BY <1>1, <1>4, <2>1 DEF Filled, p
    <3>2. /\ w.ptr + w.cnt \in 0 .. w.pos /\ w.ptr + w.cnt <= w.cap /\ w.pos <= Len(w.file)
          /\ \A k \in 1 .. (w.ptr + w.cnt) : w.buf[k] = w.file[w.pos - (w.ptr + w.cnt) + k]
      BY <1>2, <2>1, <3>1 DEF Mirrors
    <3>3. ASSUME NEW k \in 1 .. (w.ptr + w.cnt) PROVE v.buf[k] = w.file[w.pos - (w.ptr + w.cnt) + k]
      <4>1. k \in 1 .. BigBuf
        BY <1>1, <3>2
      <4>2. CASE k = p
        <5>1. w.pos - (w.ptr + w.cnt) + k = w.pos - w.cnt
          BY <1>1, <3>1, <4>2
        <5> QED BY <1>1, <1>2, <1>4, <4>1, <4>2, <5>1
      <4>3. CASE k # p
        BY <1>1, <1>4, <3>2, <4>1, <4>3
      <4> QED BY <4>2, <4>3
    <3> QED BY <1>4, <3>1, <3>2, <3>3 DEF Mirrors
  <2>2. CASE ~(w.ptr > 0)
    <3>1. w.ptr = 0 /\ w.cnt = 0 /\ p = 1
      BY <1>1, <1>2, <2>2 DEF p
    <3>2. Filled(v) = 1
      BY <1>4, <3>1 DEF Filled
    <3>3. v.buf[1] = c
      BY <1>1, <1>3, <1>4, <3>1
    <3>4. w.pos \in 1 .. Len(w.file) /\ c = w.file[w.pos] /\ w.pos - 1 + 1 = w.pos
      BY <1>1, <1>2, <3>1
    <3>5. ASSUME NEW k \in 1 .. Filled(v) PROVE v.buf[k] = v.file[v.pos - Filled(v) + k]
      <4>1. k = 1
        BY <3>2
      <4> QED BY <1>4, <3>2, <3>3, <3>4, <4>1
    <3>6. Filled(v) \in 0 .. v.pos /\ Filled(v) <= v.cap /\ v.pos <= Len(v.file)
      BY <1>2, <1>4, <3>2, <3>4
    <3> QED BY <1>2, <3>1, <3>2, <3>5, <3>6 DEF Mirrors
  <2> QED BY <2>1, <2>2
<1>8. Sized(v)
  <2>1. v.ptr <= v.cap /\ v.cnt <= v.cap
    BY <1>1, <1>3, <1>4, <1>7
  <2> QED BY <1>4, <1>5, <2>1 DEF WorldOK, Sized
<1>9. WorldOK(v)
  <2>1. v.cnt >= 0
    BY <1>1, <1>4
  <2> QED BY <1>0, <1>5, <1>7, <1>8, <2>1 DEF WorldOK, ReaderOK, WriterOK, LineOK
<1>10. Out(v) = Out(w)
  <2>1. Pnd(v) = << >> /\ Pnd(w) = << >>
    BY <1>0, <1>5 DEF Pnd
  <2> QED BY <1>4, <2>1 DEF Out
<1>11. At(v) = At(w) - 1 /\ At(w) > 0
  <2>1. At(v) = w.pos - (w.cnt + 1) /\ At(w) = w.pos - w.cnt
    BY <1>4, <1>5 DEF At
  <2> QED BY <1>1, <1>2, <2>1
<1> QED BY <1>4, <1>6, <1>9, <1>10, <1>11 DEF v

LEMMA UngetcStep == ASSUME IInv, Habits = {}, DoUngetc PROVE IInv' /\ C!CNext
<1> DEFINE c == Last(ret)
           v == Ungetc(World, c)
<1>1. /\ op[1] = "read" /\ ret # << >> /\ "READ" \in fp.flags
      /\ Becomes(IF UngetcOk(World) THEN v ELSE World)
      /\ op' = <<"ungetc">> /\ ret' = << >> /\ turn' = turn
  BY DEF DoUngetc, Called
<1>2. WorldOK(World) /\ Has(World, "READ") /\ CanPushBack(World, c) /\ op # <<"fclose">>
  BY <1>1 DEF IInv, OpOK, Has, World
<1> HIDE DEF c
<1>3. /\ UngetcOk(World) /\ WorldOK(v) /\ v.flags = World.flags /\ Out(v) = Out(World)
      /\ At(v) = At(World) - 1 /\ At(World) > 0
  BY <1>2, UngetcIs
<1> HIDE DEF v
<1>4. op' # <<"open">> /\ op' # <<"fclose">> /\ op'[1] # "read" /\ Becomes(v)
  BY <1>1, <1>3
<1>5. \A f : Has(v, f) <=> Has(World, f)
  BY <1>3 DEF Has
<1>6. /\ WorldOK(World)' /\ fp'.flags = v.flags
      /\ Data' = Data /\ Pos > 0 /\ Pos' = Pos - 1 /\ Err' = Err
  BY <1>2, <1>3, <1>4, <1>5, Seen
<1>7. IInv'
  BY <1>1, <1>4, <1>5, <1>6, StillTurn, OtherOp DEF IInv
<1>8. C!PutsBack
  BY <1>1, <1>6 DEF C!PutsBack, Data, Pos, Err
<1> QED BY <1>7, <1>8 DEF C!CNext

LEMMA ReadStep == ASSUME IInv, DoRead PROVE IInv' /\ C!CNext
<1>1. PICK n \in Counts, line \in BOOLEAN, fails \in BOOLEAN :
        LET a == Read(World, n, line, fails)
        IN  /\ Becomes(a.w)
            /\ Called(<<"read", n, line>>, a.got, IF RW /\ "READ" \in a.w.flags THEN "reading" ELSE "free")
  BY DEF DoRead
<1> DEFINE a == Read(World, n, line, fails)
           v == a.w
           m == Len(a.got)
           A == At(World)
           f == World.file
<1>2. /\ Becomes(v) /\ op' = <<"read", n, line>> /\ ret' = a.got
      /\ turn' = IF RW /\ "READ" \in v.flags THEN "reading" ELSE "free"
  BY <1>1 DEF Called
<1>3. n \in Nat /\ MayRead /\ ~Has(World, "WRT") /\ WorldOK(World) /\ op # <<"fclose">>
  BY StreamAssumption, Directions DEF DoRead, IInv
<1>4. ReadSoFar(World, line, n, a)
  BY <1>3, ReadIs
<1> HIDE DEF a
<1>5. /\ a.got \in Seq(Bytes) /\ m \in 0 .. n /\ WorldOK(v) /\ ~Has(v, "WRT") /\ Alike(World, v)
      /\ At(v) = A + m
      /\ a.got # << >> => At(v) <= Len(f) /\ CanPushBack(v, f[At(v)])
      /\ \A j \in 1 .. m : a.got[j] = f[A + j]
      /\ \A j \in 1 .. (m - 1) : line => a.got[j] # NL
      /\ \/ m = n
         \/ line /\ a.got # << >> /\ a.got[m] = NL
         \/ Has(v, "ERR") \/ At(v) >= Len(f)
      /\ a.got = << >> <=> m = 0
  <2>1. a.got \in Seq(Bytes) /\ m <= n
    BY <1>4 DEF ReadSoFar
  <2>2. m \in 0 .. n /\ (a.got = << >> <=> m = 0)
    BY <1>3, <2>1
  <2> QED BY <1>4, <2>1, <2>2 DEF ReadSoFar
<1>6. /\ A \in Nat /\ f \in Seq(Bytes) /\ Len(f) \in Nat /\ Out(World) = f /\ Out(v) = f
  <2>1. v.file = f /\ Out(v) = v.file
    BY <1>5, NotWritten DEF Alike
  <2> QED BY <1>3, <2>1, NotWritten
<1>7. op' # <<"open">> /\ op' # <<"fclose">> /\ op'[1] = "read" /\ op'[2] = n
  BY <1>2, Names
<1>8. /\ WorldOK(World)' /\ fp'.flags = v.flags /\ World' = v
      /\ Data = f /\ Pos = A /\ Data' = f /\ Pos' = A + m
      /\ Err' <=> Has(v, "ERR")
      /\ (Has(v, "ERR") <=> Has(World, "ERR")) => Err' = Err
  <2>1. World' = v
    BY <1>2, <1>5, Became
  <2> QED BY <1>2, <1>3, <1>5, <1>6, <1>7, <2>1, Seen
<1> HIDE DEF v, m, A, f
<1>9. m > 0 => A + m <= Len(f)
  BY <1>5
<1>10. a.got = SubSeq(f, A + 1, A + m)
  <2>1. CASE m = 0
    BY <1>5, <1>6, <2>1
  <2>2. CASE m # 0
    <3>1. A + m \in Nat /\ A + m <= Len(f) /\ A <= A + m /\ (A + m) - A = m /\ m \in Nat
      BY <1>5, <1>6, <1>9, <2>2
    <3> DEFINE e == A + m
    <3> HIDE DEF e
    <3>2. e \in Nat /\ e <= Len(f) /\ A <= e /\ e - A = m
      BY <3>1 DEF e
    <3>3. /\ SubSeq(f, A + 1, e) \in Seq(Bytes) /\ Len(SubSeq(f, A + 1, e)) = e - A
          /\ \A k \in 1 .. (e - A) : SubSeq(f, A + 1, e)[k] = f[A + k]
      BY <1>6, <3>2, SubSeqIs, Zenon
    <3> DEFINE s == SubSeq(f, A + 1, e)
    <3>4. s \in Seq(Bytes) /\ Len(s) = m /\ \A k \in 1 .. m : s[k] = f[A + k]
      BY <3>2, <3>3, Zenon
    <3> HIDE DEF s
    <3>5. Len(a.got) = Len(s) /\ \A k \in 1 .. Len(a.got) : a.got[k] = s[k]
      BY <1>5, <3>4 DEF m
    <3>6. a.got = s
      BY <1>5, <3>4, <3>5, SameSeq
    <3> QED BY <3>6 DEF s, e
  <2> QED BY <2>1, <2>2
<1>11. TurnOK'
  <2>1. (RW <=> Has(World, "RW")) /\ (Has(v, "RW") <=> Has(World, "RW"))
    BY <1>5 DEF RW, Has, World, Alike
  <2>2. (RW' <=> Has(v, "RW")) /\ ("READ" \in fp'.flags <=> "READ" \in v.flags) /\ ~("WRT" \in fp'.flags)
    BY <1>5, <1>8 DEF RW, Has
  <2> QED BY <1>2, <2>1, <2>2 DEF TurnOK
<1>12. OpOK'
  <2>1. a.got # << >> => CanPushBack(v, Last(a.got))
    <3> SUFFICES ASSUME a.got # << >> PROVE CanPushBack(v, Last(a.got))
      OBVIOUS
    <3>1. m \in 1 .. m /\ m = Len(a.got)
      BY <1>3, <1>5 DEF m
    <3>2. Last(a.got) = f[A + m]
      BY <1>5, <3>1 DEF Last
    <3> QED BY <1>5, <3>2
  <2>2. ret' # << >> => CanPushBack(World', Last(ret'))
    BY <1>2, <1>8, <2>1
  <2>3. (op' # <<"open">>) /\ (op' # <<"fclose">>)
    BY <1>7
  <2> QED BY <2>2, <2>3 DEF OpOK
<1>13. IInv'
  BY <1>8, <1>11, <1>12 DEF IInv
<1>14. CASE Has(v, "ERR")
  <2>1. Len(a.got) = m /\ m \in 0 .. n /\ (m = 0 \/ A + m <= Len(f))
    BY <1>3, <1>5, <1>9 DEF m
  <2>2. Err' = TRUE
    BY <1>8, <1>14 DEF Err
  <2>3. ret' = SubSeq(Data, Pos + 1, Pos + m) /\ Pos' = Pos + Len(ret') /\ Data' = Data /\ (m = 0 \/ Pos + m <= Len(Data))
    BY <1>2, <1>8, <1>10, <2>1
  <2>4. C!ReadFails(n)
    BY <1>7, <2>1, <2>2, <2>3 DEF C!ReadFails, Data, Pos, Err
  <2> QED BY <1>13, <2>4 DEF C!CNext
<1>15. CASE ~Has(v, "ERR")
  <2>1. Err' = Err
    BY <1>5, <1>8, <1>15 DEF Alike
  <2>2. m = n \/ (line /\ m > 0 /\ f[A + m] = NL) \/ A + m >= Len(f)
    <3>1. CASE line /\ a.got # << >> /\ a.got[m] = NL
      <4>1. m \in 1 .. m
        BY <1>3, <1>5, <3>1
      <4> QED BY <1>5, <3>1, <4>1
    <3> QED BY <1>5, <1>15, <3>1
  <2>3. \A j \in 1 .. (m - 1) : line => f[A + j] # NL
    <3> SUFFICES ASSUME NEW j \in 1 .. (m - 1), line PROVE f[A + j] # NL
      OBVIOUS
    <3>1. j \in 1 .. m
      BY <1>3, <1>5
    <3> QED BY <1>5, <3>1
  <2>4. C!Taking(f, A, n, line) = SubSeq(f, A + 1, A + m)
    <3>1. f \in Seq(Bytes) /\ A \in Nat /\ n \in Nat /\ m \in 0 .. n
      BY <1>3, <1>5, <1>6
    <3> QED BY <1>9, <2>2, <2>3, <3>1, TakingIs, Zenon
  <2>5. ret' = C!Taking(Data, Pos, n, line) /\ Pos' = Pos + Len(ret') /\ Data' = Data
    BY <1>2, <1>8, <1>10, <2>4 DEF m
  <2>6. C!Reads(n, line)
    BY <1>2, <2>1, <2>5 DEF C!Reads, Data, Pos, Err
  <2> QED BY <1>13, <2>6 DEF C!CNext
<1> QED BY <1>14, <1>15

(* Where fseek shall go. *)
Goal(w, off, origin) ==
  CASE origin = "set" -> off
    [] origin = "cur" -> At(w) + off
    [] origin = "end" -> Len(Out(w)) + off

Origins == {"set", "cur", "end"}

LEMMA GoalIs ==
  ASSUME NEW w, NEW off
  PROVE  /\ Goal(w, off, "set") = off
         /\ Goal(w, off, "cur") = At(w) + off
         /\ Goal(w, off, "end") = Len(Out(w)) + off
BY DEF Goal

LEMMA SeekToIs ==
  ASSUME NEW w, NEW off
  PROVE  /\ SeekTo(w, off, "set") = off
         /\ SeekTo(w, off, "cur") = w.pos + off
         /\ SeekTo(w, off, "end") = Len(w.file) + off
BY DEF SeekTo

(* lseek *)
LEMMA LseekIs ==
  ASSUME NEW w \in Worlds, NEW off \in Int, NEW origin \in Origins
  PROVE  LET v == Lseek(w, off, origin)
             to == SeekTo(w, off, origin)
         IN  /\ v \in Worlds /\ to \in Int /\ v.pos = IF to < 0 THEN w.pos ELSE to
             /\ v.flags = w.flags /\ v.cnt = w.cnt /\ v.ptr = w.ptr /\ v.cap = w.cap
             /\ v.buf = w.buf /\ v.file = w.file
<1> DEFINE v == Lseek(w, off, origin)
           to == SeekTo(w, off, origin)
<1>1. to \in Int
  BY Fields, SeekToIs DEF Origins
<1>2. v = IF to < 0 THEN w ELSE [w EXCEPT !.pos = to]
  BY DEF Lseek
<1> HIDE DEF v, to
<1>3. CASE to < 0
  BY <1>1, <1>2, <1>3 DEF v, to
<1>4. CASE ~(to < 0)
  <2>1. to \in Nat
    BY <1>1, <1>4
  <2>2. v = [w EXCEPT !.pos = to]
    BY <1>2, <1>4
  <2>3. /\ v \in Worlds /\ v.pos = to
        /\ v.flags = w.flags /\ v.cnt = w.cnt /\ v.ptr = w.ptr /\ v.cap = w.cap
        /\ v.buf = w.buf /\ v.file = w.file
    BY <2>1, <2>2 DEF Worlds
  <2> QED BY <1>1, <1>4, <2>3 DEF v, to
<1> QED BY <1>3, <1>4

(* fseek of a stream being read: in the buffer, or with an empty one.      *)
LEMMA SeekReadingIs ==
  ASSUME NEW w, WorldOK(w), Has(w, "READ"), Unbuffered(w) => w.cnt <= 0,
         NEW off \in Int, NEW origin \in Origins
  PROVE  LET v == SeekReading(w, off, origin)
             goal == Goal(w, off, origin)
         IN  /\ WorldOK(v) /\ Out(v) = Out(w) /\ (Has(v, "RW") => ~Has(v, "READ") /\ ~Has(v, "WRT"))
             /\ SameError(w, v) /\ goal \in Int
             /\ At(v) = IF goal < 0 THEN w.pos ELSE goal
             /\ w.pos \in Nat
             /\ (~InBuffer(w, off, origin) /\ SeekTo(w, Adjusted(w, off, origin), origin) < 0) <=> goal < 0
<1> DEFINE v == SeekReading(w, off, origin)
           goal == Goal(w, off, origin)
           x == Adjusted(w, off, origin)
           d == Distance(w, off, origin)
           w1 == IF Has(w, "RW") THEN Set([w EXCEPT !.ptr = 0], {}, {"READ"}) ELSE w
<1>0. ~Has(w, "WRT") /\ w.cnt >= 0
  BY DEF WorldOK, ReaderOK
<1>1. /\ w \in Worlds /\ w.ptr \in Nat /\ w.cap \in Nat /\ w.ptr <= w.cap /\ w.cnt \in Nat /\ w.cnt <= w.cap
      /\ w.pos \in Nat /\ w.file \in Seq(Bytes) /\ Len(w.file) \in Nat /\ w.flags \in SUBSET Flags
  BY <1>0, Fields DEF WorldOK, Sized
<1>2. Out(w) = w.file /\ At(w) = w.pos - w.cnt
  BY <1>0, NotWritten DEF At
<1>3. x \in Int /\ (origin = "cur" => x = off - w.cnt) /\ (origin # "cur" => x = off)
  <2>1. origin = "cur" /\ ~Buffered(w, origin) => w.cnt = 0
    BY <1>1 DEF Buffered
  <2> QED BY <1>1, <2>1 DEF Adjusted
<1>4. goal \in Int /\ \A y : y.pos = w.pos /\ y.file = w.file => SeekTo(y, x, origin) = goal
  <2>1. goal \in Int
    BY <1>1, <1>2, GoalIs DEF Origins
  <2>2. ASSUME NEW y, y.pos = w.pos, y.file = w.file PROVE SeekTo(y, x, origin) = goal
    <3>1. CASE origin = "set"
      BY <1>3, <3>1, GoalIs, SeekToIs
    <3>2. CASE origin = "cur"
      <4>1. SeekTo(y, x, origin) = w.pos + (off - w.cnt)
        BY <1>3, <2>2, <3>2, SeekToIs
      <4>2. goal = (w.pos - w.cnt) + off
        BY <1>2, <3>2, GoalIs
      <4> QED BY <1>1, <4>1, <4>2
    <3>3. CASE origin = "end"
      BY <1>2, <1>3, <2>2, <3>3, GoalIs, SeekToIs
    <3> QED BY <3>1, <3>2, <3>3 DEF Origins
  <2> QED BY <2>1, <2>2
<1>5. SeekTo(w, x, origin) = goal
  BY <1>4
<1>6. v = IF InBuffer(w, off, origin) THEN [w EXCEPT !.ptr = @ + d, !.cnt = @ - d]
          ELSE [Lseek(w1, x, origin) EXCEPT !.cnt = 0]
  BY DEF SeekReading
<1> HIDE DEF v, goal, x
<1>7. CASE InBuffer(w, off, origin)
  <2>1. /\ origin # "end" /\ ~Has(w, "RW") /\ w.cnt > 0
        /\ d \in (- w.ptr) .. w.cnt /\ v = [w EXCEPT !.ptr = @ + d, !.cnt = @ - d]
    BY <1>6, <1>7 DEF InBuffer, Buffered
  <2>2. goal = (w.pos - w.cnt) + d
    <3>1. CASE origin = "set"
      <4>1. goal = off
        BY <3>1, GoalIs DEF goal
      <4>2. d = off + w.cnt - w.pos
        BY <3>1 DEF Distance
      <4> QED BY <1>1, <4>1, <4>2
    <3>2. CASE origin = "cur"
      BY <1>2, <3>2, GoalIs DEF goal, Distance
    <3> QED BY <2>1, <3>1, <3>2 DEF Origins
  <2> DEFINE e == d
  <2> HIDE DEF e
  <2>3. /\ e \in Int /\ 0 <= w.ptr + e /\ 0 <= w.cnt - e /\ v = [w EXCEPT !.ptr = w.ptr + e, !.cnt = w.cnt - e]
        /\ goal = (w.pos - w.cnt) + e
    <3>1. d \in Int /\ 0 <= w.ptr + d /\ 0 <= w.cnt - d
      BY <1>1, <2>1
    <3> QED BY <2>1, <2>2, <3>1 DEF e
  <2>4. /\ v \in Worlds /\ v.flags = w.flags /\ v.ptr = w.ptr + e /\ v.cnt = w.cnt - e /\ v.cap = w.cap
        /\ v.buf = w.buf /\ v.file = w.file /\ v.pos = w.pos
    <3>1. w.ptr + e \in Nat /\ w.cnt - e \in Int
      BY <1>1, <2>3
    <3> QED BY <1>1, <2>3, <3>1 DEF Worlds
  <2> HIDE DEF v
  <2>5. \A f : Has(v, f) <=> Has(w, f)
    BY <2>4 DEF Has
  <2>6. Mirrors(w) /\ Filled(w) = w.ptr + w.cnt
    BY <2>1 DEF WorldOK, ReaderOK, Filled
  <2>7. Filled(v) = Filled(w)
    BY <1>1, <2>3, <2>4 DEF Filled
  <2>8. Mirrors(v)
    BY <2>4, <2>6, <2>7 DEF Mirrors
  <2>9. w.ptr + w.cnt <= w.cap /\ w.ptr + w.cnt <= w.pos
    BY <1>1, <2>6 DEF Mirrors
  <2>10. v.ptr <= v.cap /\ v.cnt <= v.cap /\ v.cnt >= 0
    <3>1. w.ptr + e <= w.cap /\ w.cnt - e <= w.cap /\ w.cnt - e >= 0
      BY <1>1, <2>3, <2>9
    <3> QED BY <2>4, <3>1
  <2>11. WorldOK(v)
    BY <1>0, <2>4, <2>5, <2>8, <2>10 DEF WorldOK, Sized, ReaderOK, WriterOK, LineOK
  <2>12. Out(v) = Out(w)
    BY <1>0, <1>2, <2>4, <2>5, <2>11, NotWritten
  <2>13. At(v) = goal /\ goal >= 0
    <3>1. At(v) = w.pos - (w.cnt - e)
      BY <2>4, <2>5 DEF At
    <3>2. w.pos - (w.cnt - e) = (w.pos - w.cnt) + e /\ (w.pos - w.cnt) + e >= 0
      BY <1>1, <2>3, <2>9
    <3> QED BY <2>3, <3>1, <3>2
  <2>14. At(v) = (IF goal < 0 THEN w.pos ELSE goal) /\ ~(goal < 0)
    BY <1>4, <2>13
  <2> QED BY <1>0, <1>1, <1>4, <1>7, <2>1, <2>5, <2>11, <2>12, <2>14 DEF SameError, v, goal
<1>8. CASE ~InBuffer(w, off, origin)
  <2>1. /\ w1 \in Worlds /\ w1.cnt = w.cnt /\ w1.cap = w.cap /\ w1.buf = w.buf /\ w1.file = w.file /\ w1.pos = w.pos
        /\ IF Has(w, "RW") THEN w1.ptr = 0 /\ w1.flags = w.flags \ {"READ"}
           ELSE w1.ptr = w.ptr /\ w1.flags = w.flags
    <3>1. CASE Has(w, "RW")
      <4> DEFINE fl == (w.flags \ {"READ"}) \cup {}
      <4>1. w1 = [w EXCEPT !.ptr = 0, !.flags = fl]
        BY <1>1, <3>1 DEF Set, Worlds
      <4>2. fl \in SUBSET Flags /\ fl = w.flags \ {"READ"}
        BY <1>1
      <4> HIDE DEF fl, w1
      <4>3. /\ w1 \in Worlds /\ w1.cnt = w.cnt /\ w1.cap = w.cap /\ w1.buf = w.buf /\ w1.file = w.file
            /\ w1.pos = w.pos /\ w1.ptr = 0 /\ w1.flags = fl
        BY <1>1, <4>1, <4>2 DEF Worlds
      <4> QED BY <3>1, <4>2, <4>3
    <3>2. CASE ~Has(w, "RW")
      BY <1>1, <3>2
    <3> QED BY <3>1, <3>2
  <2> HIDE DEF w1
  <2> DEFINE y == Lseek(w1, x, origin)
  <2>2. /\ y \in Worlds /\ y.pos = (IF goal < 0 THEN w.pos ELSE goal)
        /\ y.flags = w1.flags /\ y.cnt = w1.cnt /\ y.ptr = w1.ptr /\ y.cap = w1.cap
        /\ y.buf = w1.buf /\ y.file = w1.file
    <3>1. SeekTo(w1, x, origin) = goal
      BY <1>4, <2>1
    <3> QED BY <1>3, <2>1, <3>1, LseekIs
  <2> HIDE DEF y
  <2>3. v = [y EXCEPT !.cnt = 0]
    BY <1>6, <1>8 DEF y
  <2>4. /\ v \in Worlds /\ v.pos = (IF goal < 0 THEN w.pos ELSE goal) /\ v.flags = w1.flags /\ v.cnt = 0
        /\ v.ptr = w1.ptr /\ v.cap = w.cap /\ v.file = w.file
    BY <2>1, <2>2, <2>3 DEF Worlds
  <2>5. /\ ~Has(v, "WRT") /\ (Has(v, "RW") => ~Has(v, "READ"))
        /\ \A f \in Flags : f # "READ" => (Has(v, f) <=> Has(w, f))
        /\ ~Has(v, "READ") => v.ptr = 0
    BY <1>0, <2>1, <2>4 DEF Has
  <2>6. SameError(w, v) /\ (Has(v, "NBF") <=> Has(w, "NBF")) /\ (Has(v, "LBF") <=> Has(w, "LBF"))
    BY <2>5 DEF SameError, Flags
  <2>7. v.ptr <= v.cap /\ v.cnt <= v.cap /\ v.ptr \in Nat
    BY <1>1, <2>1, <2>4
  <2>8. WorldOK(v)
    <3>1. Sized(v)
      BY <2>4, <2>6, <2>7 DEF WorldOK, Sized
    <3> QED BY <2>4, <2>5, <3>1 DEF WorldOK, ReaderOK, WriterOK, LineOK
  <2>9. Out(v) = Out(w) /\ At(v) = v.pos
    BY <1>2, <2>4, <2>5, <2>8, NotWritten
  <2> QED BY <1>1, <1>4, <1>5, <1>8, <2>4, <2>5, <2>6, <2>8, <2>9 DEF v, goal, x
<1> QED BY <1>7, <1>8

(* fflush puts all on the device, or the content does not fit it.          *)
LEMMA FlushedIs ==
  ASSUME NEW w, WorldOK(w), ~Has(w, "READ")
  PROVE  LET v == Fflush(w)
         IN  /\ WorldOK(v) /\ Kin(w, v) /\ v.ptr = 0 /\ v \in Worlds /\ ~Has(v, "READ")
             /\ Out(w) \in Seq(Bytes) /\ At(w) \in Nat
             /\ IF Len(Out(w)) <= DiskSize
                THEN v.file = Out(w) /\ v.pos = At(w) /\ SameError(w, v)
                ELSE Has(v, "ERR") /\ Has(w, "WRT") /\ ~Unbuffered(w)
<1> DEFINE v == Fflush(w)
<1>1. /\ WorldOK(v) /\ Kin(w, v) /\ v.ptr = 0 /\ Pnd(v) = << >>
      /\ \/ Out(v) = Out(w) /\ End(v) = End(w) /\ SameError(w, v)
         \/ Has(v, "ERR") /\ Len(Out(w)) > DiskSize
  BY FflushIs
<1> HIDE DEF v
<1>2. /\ v \in Worlds /\ w \in Worlds /\ w.ptr <= w.cap /\ v.ptr <= v.cap
      /\ Len(v.file) <= DiskSize /\ Len(w.file) <= DiskSize /\ w.file \in Seq(Bytes) /\ v.file \in Seq(Bytes)
  BY <1>1, Fields DEF WorldOK, Sized
<1>3. /\ Out(w) \in Seq(Bytes) /\ End(w) \in Nat /\ At(w) = End(w) /\ DiskSize \in Nat
      /\ Out(v) = v.file /\ End(v) = v.pos
      /\ Pnd(w) = << >> => Out(w) = w.file
  BY <1>1, <1>2, PndIs, Sizes DEF At
<1>4. ~Has(v, "READ")
  BY <1>1, KinIs
<1>5. Len(Out(w)) \in Nat /\ Len(w.file) \in Nat
  BY <1>2, <1>3
<1>6. ~(Len(Out(w)) <= DiskSize) => Has(w, "WRT") /\ ~Unbuffered(w)
  <2>1. ~(Len(Out(w)) <= DiskSize) => Pnd(w) # << >>
    BY <1>2, <1>3
  <2> QED BY <2>1 DEF Pnd
<1>7. CASE Len(Out(w)) <= DiskSize
  <2>1. ~(Len(Out(w)) > DiskSize)
    BY <1>3, <1>5, <1>7
  <2> QED BY <1>1, <1>2, <1>3, <1>4, <1>7, <2>1 DEF v
<1>8. CASE ~(Len(Out(w)) <= DiskSize)
  <2>1. Has(v, "ERR")
    BY <1>1, <1>2, <1>3, <1>8
  <2> QED BY <1>1, <1>2, <1>3, <1>4, <1>6, <1>8, <2>1 DEF v
<1> QED BY <1>7, <1>8

(* fseek of a stream that is not read: flushed, and then moved.            *)
LEMMA SeekWritingIs ==
  ASSUME NEW w, WorldOK(w), ~Has(w, "READ"), NEW off \in Int, NEW origin \in Origins
  PROVE  LET v == SeekWriting(w, off, origin)
             goal == Goal(w, off, origin)
         IN  /\ WorldOK(v) /\ (Has(v, "RW") => ~Has(v, "READ") /\ ~Has(v, "WRT")) /\ At(v) \in Nat
             /\ IF Len(Out(w)) <= DiskSize
                THEN /\ Out(v) = Out(w) /\ SameError(w, v) /\ goal \in Int
                     /\ goal >= 0 => At(v) = goal
                     /\ SeekTo(Fflush(w), off, origin) = goal
                ELSE Has(v, "ERR")
<1> DEFINE y == Fflush(w)
           w1 == [y EXCEPT !.cnt = 0]
           w2 == IF Has(w, "RW") THEN Set([w1 EXCEPT !.ptr = 0], {}, {"WRT"}) ELSE w1
           v == SeekWriting(w, off, origin)
           goal == Goal(w, off, origin)
<1>1. /\ WorldOK(y) /\ Kin(w, y) /\ y.ptr = 0 /\ y \in Worlds /\ ~Has(y, "READ")
      /\ Out(w) \in Seq(Bytes) /\ At(w) \in Nat
      /\ IF Len(Out(w)) <= DiskSize
         THEN y.file = Out(w) /\ y.pos = At(w) /\ SameError(w, y)
         ELSE Has(y, "ERR") /\ Has(w, "WRT") /\ ~Unbuffered(w)
  BY FlushedIs
<1>2. v = Lseek(w2, off, origin)
  BY DEF SeekWriting
<1>3. /\ w1 \in Worlds /\ w1.cnt = 0 /\ w1.ptr = 0 /\ w1.flags = y.flags /\ w1.cap = y.cap
      /\ w1.buf = y.buf /\ w1.file = y.file /\ w1.pos = y.pos /\ w1.flags \in SUBSET Flags
  <2> HIDE DEF y
  <2>1. /\ w1 \in Worlds /\ w1.cnt = 0 /\ w1.ptr = 0 /\ w1.flags = y.flags /\ w1.cap = y.cap
        /\ w1.buf = y.buf /\ w1.file = y.file /\ w1.pos = y.pos
    BY <1>1 DEF Worlds
  <2> HIDE DEF w1
  <2> QED BY <2>1, Fields
<1> HIDE DEF w1
<1>4. /\ w2 \in Worlds /\ w2.cnt = 0 /\ w2.ptr = 0 /\ w2.cap = y.cap /\ w2.file = y.file /\ w2.pos = y.pos
      /\ w2.flags = IF Has(w, "RW") THEN y.flags \ {"WRT"} ELSE y.flags
  <2>1. CASE Has(w, "RW")
    <3> DEFINE fl == (w1.flags \ {"WRT"}) \cup {}
    <3>1. w2 = [w1 EXCEPT !.ptr = 0, !.flags = fl]
      BY <1>3, <2>1 DEF Set, Worlds
    <3>2. fl \in SUBSET Flags /\ fl = y.flags \ {"WRT"}
      BY <1>3
    <3> HIDE DEF fl, w2, y
    <3>3. /\ w2 \in Worlds /\ w2.cnt = w1.cnt /\ w2.cap = w1.cap /\ w2.file = w1.file
          /\ w2.pos = w1.pos /\ w2.ptr = 0 /\ w2.flags = fl
      BY <1>3, <3>1, <3>2 DEF Worlds
    <3> QED BY <1>3, <2>1, <3>2, <3>3
  <2>2. CASE ~Has(w, "RW")
    BY <1>3, <2>2
  <2> QED BY <2>1, <2>2
<1> HIDE DEF w2, v
<1>5. /\ v \in Worlds /\ v.flags = w2.flags /\ v.cnt = 0 /\ v.ptr = 0 /\ v.cap = y.cap /\ v.file = y.file
      /\ SeekTo(w2, off, origin) \in Int
      /\ v.pos = IF SeekTo(w2, off, origin) < 0 THEN w2.pos ELSE SeekTo(w2, off, origin)
  BY <1>2, <1>4, LseekIs
<1> HIDE DEF y
<1>6. \A f \in Flags : f # "WRT" => (Has(v, f) <=> Has(y, f))
  BY <1>4, <1>5 DEF Has
<1>7. /\ ~Has(v, "READ") /\ (Has(v, "NBF") <=> Has(y, "NBF")) /\ (Has(v, "LBF") <=> Has(y, "LBF"))
      /\ (Has(v, "RW") <=> Has(w, "RW")) /\ SameError(y, v)
  <2>1. Has(y, "RW") <=> Has(w, "RW")
    BY <1>1, KinIs
  <2> QED BY <1>1, <1>6, <2>1 DEF Flags, SameError
<1>8. Has(v, "RW") => ~Has(v, "WRT")
  BY <1>4, <1>5, <1>7 DEF Has
<1>9. WorldOK(v)
  <2>1. v.cap \in Nat
    BY <1>5, Fields
  <2>2. Sized(v)
    BY <1>1, <1>5, <1>7, <2>1 DEF WorldOK, Sized
  <2>3. WriterOK(v)
    BY <1>5 DEF WriterOK
  <2>4. ReaderOK(v) /\ LineOK(v)
    BY <1>5, <1>7 DEF ReaderOK, LineOK
  <2> QED BY <2>2, <2>3, <2>4 DEF WorldOK
<1>10. Out(v) = v.file /\ At(v) = v.pos /\ v.pos \in Nat
  <2>1. v.ptr <= v.cap
    BY <1>9 DEF WorldOK, Sized
  <2>2. Pnd(v) = << >>
    BY <1>5, <2>1, PndIs
  <2> QED BY <1>5, <1>7, <2>1, <2>2, PndIs, Fields DEF At
<1>11. CASE Len(Out(w)) <= DiskSize
  <2>1. y.file = Out(w) /\ y.pos = At(w) /\ SameError(w, y)
    BY <1>1, <1>11
  <2>2. goal \in Int
    BY <1>1, GoalIs DEF Origins
  <2>3. \A z : z.file = y.file /\ z.pos = y.pos => SeekTo(z, off, origin) = goal
    BY <2>1, GoalIs, SeekToIs DEF Origins
  <2>4. SeekTo(w2, off, origin) = goal /\ SeekTo(y, off, origin) = goal
    BY <1>4, <2>3
  <2> HIDE DEF goal
  <2>5. SameError(w, v)
    BY <1>7, <2>1 DEF SameError
  <2>6. goal >= 0 => At(v) = goal
    BY <1>5, <1>10, <2>2, <2>4
  <2> QED BY <1>5, <1>7, <1>8, <1>9, <1>10, <1>11, <2>1, <2>2, <2>4, <2>5, <2>6 DEF y, v, goal
<1>12. CASE ~(Len(Out(w)) <= DiskSize)
  <2>1. Has(v, "ERR")
    BY <1>1, <1>7, <1>12 DEF SameError
  <2> QED BY <1>7, <1>8, <1>9, <1>10, <1>12, <2>1 DEF v
<1> QED BY <1>11, <1>12

(* fseek forgets the end of the file first; nothing else depends on it.    *)
LEMMA ForgetsEnd ==
  ASSUME NEW w, WorldOK(w)
  PROVE  LET u == Set(w, {}, {"EOF"})
         IN  /\ WorldOK(u) /\ Out(u) = Out(w) /\ At(u) = At(w) /\ u.pos = w.pos /\ u.cnt = w.cnt
             /\ SameError(w, u)
             /\ Has(u, "READ") <=> Has(w, "READ")
             /\ Unbuffered(u) <=> Unbuffered(w)
             /\ \A off, origin : /\ InBuffer(u, off, origin) <=> InBuffer(w, off, origin)
                                 /\ Adjusted(u, off, origin) = Adjusted(w, off, origin)
                                 /\ SeekTo(u, off, origin) = SeekTo(w, off, origin)
                                 /\ Goal(u, off, origin) = Goal(w, off, origin)
<1> DEFINE u == Set(w, {}, {"EOF"})
           fl == (w.flags \ {"EOF"}) \cup {}
<1>1. w \in Worlds /\ w.flags \in SUBSET Flags
  BY Fields DEF WorldOK, Sized
<1>2. u = [w EXCEPT !.flags = fl] /\ fl \in SUBSET Flags
  BY <1>1 DEF Set
<1>3. \A f : f # "EOF" => (f \in fl <=> f \in w.flags)
  OBVIOUS
<1> HIDE DEF u, fl
<1>4. /\ u \in Worlds /\ u.flags = fl /\ u.cnt = w.cnt /\ u.ptr = w.ptr /\ u.cap = w.cap
      /\ u.buf = w.buf /\ u.file = w.file /\ u.pos = w.pos
  BY <1>1, <1>2 DEF Worlds
<1>5. \A f : f # "EOF" => (Has(u, f) <=> Has(w, f))
  BY <1>3, <1>4 DEF Has
<1>6. /\ (Has(u, "READ") <=> Has(w, "READ")) /\ (Has(u, "WRT") <=> Has(w, "WRT")) /\ (Has(u, "RW") <=> Has(w, "RW"))
      /\ (Has(u, "NBF") <=> Has(w, "NBF")) /\ (Has(u, "LBF") <=> Has(w, "LBF")) /\ (Has(u, "ERR") <=> Has(w, "ERR"))
      /\ (Unbuffered(u) <=> Unbuffered(w)) /\ (Sloppy(u) <=> Sloppy(w))
  BY <1>5 DEF Unbuffered, Sloppy
<1>7. Pnd(u) = Pnd(w)
  BY <1>4, <1>6 DEF Pnd
<1>8. Out(u) = Out(w) /\ At(u) = At(w) /\ SameError(w, u)
  BY <1>4, <1>6, <1>7 DEF Out, At, End, SameError
<1>9. WorldOK(u)
  <2>1. Sized(u)
    BY <1>4, <1>6 DEF WorldOK, Sized
  <2>2. ReaderOK(u)
    BY <1>4, <1>6 DEF WorldOK, ReaderOK, Mirrors, Filled
  <2>3. WriterOK(u) /\ LineOK(u)
    BY <1>4, <1>6 DEF WorldOK, WriterOK, LineOK
  <2> QED BY <2>1, <2>2, <2>3 DEF WorldOK
<1>10. ASSUME NEW off, NEW origin
       PROVE  /\ InBuffer(u, off, origin) <=> InBuffer(w, off, origin)
              /\ Adjusted(u, off, origin) = Adjusted(w, off, origin)
              /\ SeekTo(u, off, origin) = SeekTo(w, off, origin)
              /\ Goal(u, off, origin) = Goal(w, off, origin)
  <2>1. Buffered(u, origin) <=> Buffered(w, origin)
    BY <1>4, <1>6 DEF Buffered
  <2>2. Distance(u, off, origin) = Distance(w, off, origin)
    BY <1>4 DEF Distance
  <2> QED BY <1>4, <1>6, <1>8, <2>1, <2>2 DEF InBuffer, Adjusted, SeekTo, Goal
<1> QED BY <1>4, <1>6, <1>8, <1>9, <1>10 DEF u

LEMMA TargetIs ==
  ASSUME NEW off, NEW origin, Data = Out(World), Pos = At(World)
  PROVE  C!Target(off, origin) = Goal(World, off, origin)
BY DEF C!Target, Goal, Data, Pos

LEMMA FseekStep == ASSUME IInv, Habits = {}, DoFseek PROVE IInv' /\ C!CNext
<1>1. PICK off \in Offsets, origin \in {"set", "cur", "end"} :
        /\ Becomes(Fseek(World, off, origin))
        /\ Called(<<"fseek", off, origin>>, IF FseekFails(World, off, origin) THEN <<-1>> ELSE << >>, "free")
  BY DEF DoFseek
<1> DEFINE u == Set(World, {}, {"EOF"})
           v == Fseek(World, off, origin)
           goal == Goal(World, off, origin)
<1>2. /\ Becomes(v) /\ op' = <<"fseek", off, origin>> /\ turn' = "free"
      /\ ret' = IF FseekFails(World, off, origin) THEN <<-1>> ELSE << >>
  BY <1>1 DEF Called
<1>3. /\ WorldOK(World) /\ op # <<"fclose">> /\ ~(Unbuffered(World) /\ fp.cnt > 0)
      /\ World.cnt = fp.cnt /\ World \in Worlds
  BY Directions DEF DoFseek, IInv, World, WorldOK, Sized
<1>4. op' # <<"open">> /\ op' # <<"fclose">> /\ op'[1] # "read" /\ off \in Int /\ origin \in Origins
  BY <1>2, Names, StreamAssumption DEF Origins
<1>5. /\ WorldOK(u) /\ Out(u) = Out(World) /\ At(u) = At(World) /\ u.pos = World.pos /\ u.cnt = World.cnt
      /\ SameError(World, u)
      /\ Has(u, "READ") <=> Has(World, "READ")
      /\ Unbuffered(u) <=> Unbuffered(World)
      /\ InBuffer(u, off, origin) <=> InBuffer(World, off, origin)
      /\ Adjusted(u, off, origin) = Adjusted(World, off, origin)
      /\ \A x : SeekTo(u, x, origin) = SeekTo(World, x, origin)
      /\ Goal(u, off, origin) = goal
  BY <1>3, ForgetsEnd
<1>6. v = IF Has(u, "READ") THEN SeekReading(u, off, origin) ELSE SeekWriting(u, off, origin)
  BY DEF Fseek
<1> HIDE DEF u, v, goal
<1>7. ASSUME WorldOK(v), Has(v, "RW") => ~Has(v, "READ") /\ ~Has(v, "WRT"), Out(v) = Out(World), SameError(World, v),
             goal \in Int, At(v) \in Nat, goal >= 0 => At(v) = goal,
             FseekFails(World, off, origin) <=> goal < 0
      PROVE  IInv' /\ C!CNext
  <2>1. /\ WorldOK(World)' /\ fp'.flags = v.flags
        /\ Data = Out(World) /\ Pos = At(World) /\ Data' = Data /\ Pos' = At(v) /\ Err' = Err
    BY <1>2, <1>3, <1>4, <1>7, Seen DEF SameError
  <2>2. IInv'
    BY <1>2, <1>4, <1>7, <2>1, FreeTurn, OtherOp DEF IInv
  <2>3. C!Target(off, origin) = goal
    BY <2>1, TargetIs DEF goal
  <2>4. IF C!Target(off, origin) >= 0 THEN Pos' = C!Target(off, origin) /\ ret' = << >>
        ELSE Pos' \in Nat /\ ret' = <<-1>>
    BY <1>2, <1>7, <2>1, <2>3
  <2>5. C!Seeks(off, origin)
    BY <1>2, <2>1, <2>4 DEF C!Seeks, Data, Pos, Err
  <2> QED BY <2>2, <2>5 DEF C!CNext
<1>8. CASE Has(u, "READ")
  <2>1. v = SeekReading(u, off, origin)
    BY <1>6, <1>8
  <2>2. Unbuffered(u) => u.cnt <= 0
    <3>1. World.cnt \in Int
      BY <1>3, Fields
    <3> QED BY <1>3, <1>5, <3>1
  <2>3. /\ WorldOK(v) /\ Out(v) = Out(u) /\ (Has(v, "RW") => ~Has(v, "READ") /\ ~Has(v, "WRT"))
        /\ SameError(u, v) /\ goal \in Int
        /\ At(v) = (IF goal < 0 THEN u.pos ELSE goal) /\ u.pos \in Nat
        /\ (~InBuffer(u, off, origin) /\ SeekTo(u, Adjusted(u, off, origin), origin) < 0) <=> goal < 0
    BY <1>4, <1>5, <1>8, <2>1, <2>2, SeekReadingIs
  <2>4. FseekFails(World, off, origin) <=> goal < 0
    BY <1>5, <1>8, <2>3 DEF FseekFails
  <2>5. At(v) \in Nat /\ (goal >= 0 => At(v) = goal)
    BY <2>3
  <2> QED BY <1>5, <1>7, <2>3, <2>4, <2>5 DEF SameError
<1>9. CASE ~Has(u, "READ")
  <2>1. v = SeekWriting(u, off, origin)
    BY <1>6, <1>9
  <2>2. /\ WorldOK(v) /\ (Has(v, "RW") => ~Has(v, "READ") /\ ~Has(v, "WRT")) /\ At(v) \in Nat
        /\ IF Len(Out(u)) <= DiskSize
           THEN /\ Out(v) = Out(u) /\ SameError(u, v) /\ goal \in Int /\ (goal >= 0 => At(v) = goal)
           ELSE Has(v, "ERR")
    BY <1>4, <1>5, <1>9, <2>1, SeekWritingIs
  <2>3. CASE Len(Out(World)) <= DiskSize
    <3>1. SeekTo(Fflush(World), off, origin) = goal
      BY <1>3, <1>4, <1>5, <1>9, <2>3, SeekWritingIs DEF goal
    <3>2. FseekFails(World, off, origin) <=> goal < 0
      BY <1>5, <1>9, <3>1 DEF FseekFails
    <3> QED BY <1>5, <1>7, <2>2, <2>3, <3>2 DEF SameError
  <2>4. CASE ~(Len(Out(World)) <= DiskSize)
    <3>1. Len(Out(World)) > DiskSize
      <4>1. Len(Out(World)) \in Nat /\ DiskSize \in Nat
        BY <1>3, <1>5, <1>9, FlushedIs, Sizes
      <4> QED BY <2>4, <4>1
    <3>2. Has(v, "ERR")
      BY <1>5, <2>2, <2>4
    <3>3. WorldOK(World)' /\ fp'.flags = v.flags /\ Data = Out(World) /\ Err'
      BY <1>2, <1>3, <1>4, <2>2, <3>2, Seen
    <3>4. IInv'
      BY <1>2, <1>4, <2>2, <3>3, FreeTurn, OtherOp DEF IInv
    <3>5. C!Loses
      BY <3>1, <3>3 DEF C!Loses, Data, Err
    <3> QED BY <3>4, <3>5 DEF C!CNext
  <2> QED BY <2>3, <2>4
<1> QED BY <1>8, <1>9

(* fflush in either direction. *)
LEMMA FlushEither ==
  ASSUME NEW w, WorldOK(w)
  PROVE  LET v == Fflush(w)
         IN  /\ v \in Worlds /\ v.flags \cap Kinds = w.flags \cap Kinds /\ Len(v.file) <= DiskSize
             /\ Out(w) \in Seq(Bytes)
             /\ IF Len(Out(w)) <= DiskSize THEN v.file = Out(w)
                ELSE Has(v, "ERR") /\ Has(w, "WRT") /\ ~Unbuffered(w)
<1> DEFINE v == Fflush(w)
<1>1. CASE Has(w, "READ")
  <2>1. ~Has(w, "WRT")
    BY <1>1 DEF WorldOK, ReaderOK
  <2>2. v = [w EXCEPT !.cnt = 0]
    BY <2>1 DEF Fflush
  <2>3. w \in Worlds /\ Out(w) = w.file /\ w.file \in Seq(Bytes) /\ Len(w.file) <= DiskSize
    BY <2>1, NotWritten DEF WorldOK, Sized
  <2> HIDE DEF v
  <2>4. v \in Worlds /\ v.flags = w.flags /\ v.file = w.file
    BY <2>2, <2>3 DEF Worlds
  <2> QED BY <2>3, <2>4 DEF v
<1>2. CASE ~Has(w, "READ")
  <2>1. /\ WorldOK(v) /\ Kin(w, v) /\ v \in Worlds /\ Out(w) \in Seq(Bytes)
        /\ IF Len(Out(w)) <= DiskSize
           THEN v.file = Out(w) /\ v.pos = At(w) /\ SameError(w, v)
           ELSE Has(v, "ERR") /\ Has(w, "WRT") /\ ~Unbuffered(w)
    BY <1>2, FlushedIs
  <2> HIDE DEF v
  <2>2. v.flags \cap Kinds = w.flags \cap Kinds /\ Len(v.file) <= DiskSize
    BY <2>1 DEF Kin, WorldOK, Sized
  <2> QED BY <2>1, <2>2 DEF v
<1> QED BY <1>1, <1>2

LEMMA RewindIs ==
  ASSUME NEW w, WorldOK(w)
  PROVE  LET v == Rewind(w)
         IN  /\ WorldOK(v) /\ ~Has(v, "ERR") /\ At(v) = 0
             /\ Has(v, "RW") => ~Has(v, "READ") /\ ~Has(v, "WRT")
             /\ Out(w) \in Seq(Bytes) /\ (Len(Out(w)) <= DiskSize => Out(v) = Out(w))
<1> DEFINE y == Fflush(w)
           off == {"ERR", "EOF"} \cup (IF Has(w, "RW") THEN {"READ", "WRT"} ELSE {})
           fl == (y.flags \ off) \cup {}
           v == Rewind(w)
<1>1. /\ y \in Worlds /\ y.flags \cap Kinds = w.flags \cap Kinds /\ Len(y.file) <= DiskSize
      /\ Out(w) \in Seq(Bytes) /\ (Len(Out(w)) <= DiskSize => y.file = Out(w))
  BY FlushEither
<1>2. v = Set([y EXCEPT !.pos = 0, !.cnt = 0, !.ptr = 0], {}, off)
  BY DEF Rewind
<1> HIDE DEF y
<1>3. v = [y EXCEPT !.pos = 0, !.cnt = 0, !.ptr = 0, !.flags = fl] /\ fl \in SUBSET Flags /\ y.file \in Seq(Bytes)
      /\ y.cap \in Nat
  <2>1. v = [y EXCEPT !.pos = 0, !.cnt = 0, !.ptr = 0, !.flags = fl]
    BY <1>1, <1>2 DEF Set, Worlds
  <2> QED BY <1>1, <2>1, Fields
<1>4. /\ "ERR" \notin fl /\ ("RW" \in fl => "READ" \notin fl /\ "WRT" \notin fl)
      /\ ~({"READ", "WRT"} \subseteq fl) /\ ~({"NBF", "LBF"} \subseteq fl)
  <2>1. ~({"READ", "WRT"} \subseteq w.flags) /\ ~({"NBF", "LBF"} \subseteq w.flags)
    BY DEF WorldOK, ReaderOK, Sized, Has
  <2>2. \A f \in Kinds : f \in fl => f \in w.flags
    BY <1>1
  <2>3. "RW" \in fl => "READ" \notin fl /\ "WRT" \notin fl
    BY <2>2 DEF Kinds, Has
  <2>4. "ERR" \notin fl
    OBVIOUS
  <2> HIDE DEF fl
  <2> QED BY <2>1, <2>2, <2>3, <2>4 DEF Kinds
<1> HIDE DEF v, fl
<1>5. /\ v \in Worlds /\ v.flags = fl /\ v.pos = 0 /\ v.cnt = 0 /\ v.ptr = 0 /\ v.cap = y.cap /\ v.file = y.file
  <2>1. 0 \in Nat /\ 0 \in Int
    OBVIOUS
  <2> QED BY <1>1, <1>3, <2>1 DEF Worlds
<1>6. WorldOK(v)
  <2>1. Sized(v)
    BY <1>1, <1>3, <1>4, <1>5 DEF Sized, Has
  <2> QED BY <1>4, <1>5, <2>1 DEF WorldOK, ReaderOK, WriterOK, LineOK, Has
<1>7. Out(v) = v.file /\ At(v) = 0
  <2>1. v.ptr <= v.cap
    BY <1>3, <1>5
  <2>2. Pnd(v) = << >>
    BY <1>5, <2>1, PndIs
  <2>3. Out(v) = v.file /\ End(v) = v.pos
    BY <1>5, <2>1, <2>2, PndIs
  <2> QED BY <1>5, <2>3 DEF At
<1> QED BY <1>1, <1>4, <1>5, <1>6, <1>7 DEF v, Has

LEMMA RewindStep == ASSUME IInv, DoRewind PROVE IInv' /\ C!CNext
<1> DEFINE v == Rewind(World)
<1>1. /\ fp.flags \cap {"READ", "WRT", "RW"} # {} /\ Becomes(v)
      /\ op' = <<"rewind">> /\ ret' = << >> /\ turn' = "free"
  BY DEF DoRewind, Called
<1>2. WorldOK(World) /\ op # <<"fclose">>
  BY <1>1, Directions DEF IInv
<1>3. /\ WorldOK(v) /\ ~Has(v, "ERR") /\ At(v) = 0
      /\ Has(v, "RW") => ~Has(v, "READ") /\ ~Has(v, "WRT")
      /\ Out(World) \in Seq(Bytes) /\ (Len(Out(World)) <= DiskSize => Out(v) = Out(World))
  BY <1>2, RewindIs
<1> HIDE DEF v
<1>4. op' # <<"open">> /\ op' # <<"fclose">> /\ op'[1] # "read"
  BY <1>1
<1>5. /\ WorldOK(World)' /\ fp'.flags = v.flags
      /\ Data = Out(World) /\ Data' = Out(v) /\ Pos' = 0 /\ ~Err'
  BY <1>1, <1>2, <1>3, <1>4, Seen
<1>6. IInv'
  BY <1>1, <1>3, <1>4, <1>5, FreeTurn, OtherOp DEF IInv
<1>7. CASE Len(Out(World)) <= DiskSize
  <2>1. Data' = Data /\ Err' = FALSE
    BY <1>3, <1>5, <1>7 DEF Err
  <2>2. C!Rewinds
    BY <1>1, <1>5, <2>1 DEF C!Rewinds, Data, Pos, Err
  <2> QED BY <1>6, <2>2 DEF C!CNext
<1>8. CASE ~(Len(Out(World)) <= DiskSize)
  <2>1. Len(Out(World)) > DiskSize
    <3>1. Len(Out(World)) \in Nat /\ DiskSize \in Nat
      BY <1>3, Sizes
    <3> QED BY <1>8, <3>1
  <2>2. C!Loses
    BY <1>1, <1>5, <2>1 DEF C!Loses, Data, Pos, Err
  <2> QED BY <1>6, <2>2 DEF C!CNext
<1> QED BY <1>7, <1>8

LEMMA FcloseIs ==
  ASSUME NEW w, WorldOK(w)
  PROVE  LET v == Fclose(w)
         IN  /\ WorldOK(v) /\ v.flags = {} /\ At(v) \in Nat /\ Out(w) \in Seq(Bytes)
             /\ IF Len(Out(w)) <= DiskSize THEN Out(v) = Out(w) ELSE FcloseFails(w)
<1> DEFINE y == IF Unbuffered(w) THEN w ELSE Fflush(w)
           v == Fclose(w)
<1>1. /\ y \in Worlds /\ Len(y.file) <= DiskSize /\ Out(w) \in Seq(Bytes)
      /\ IF Len(Out(w)) <= DiskSize THEN y.file = Out(w) ELSE FcloseFails(w)
  <2>1. CASE Unbuffered(w)
    <3>1. w \in Worlds /\ Len(w.file) <= DiskSize /\ w.ptr <= w.cap /\ Pnd(w) = << >>
      BY <2>1 DEF WorldOK, Sized, Pnd
    <3>2. Out(w) = w.file /\ w.file \in Seq(Bytes)
      BY <3>1, PndIs, Fields
    <3>3. y = w
      BY <2>1
    <3> HIDE DEF y
    <3> QED BY <3>1, <3>2, <3>3
  <2>2. CASE ~Unbuffered(w)
    <3> DEFINE z == Fflush(w)
    <3>1. /\ z \in Worlds /\ Len(z.file) <= DiskSize /\ Out(w) \in Seq(Bytes)
          /\ IF Len(Out(w)) <= DiskSize THEN z.file = Out(w)
             ELSE Has(z, "ERR") /\ Has(w, "WRT") /\ ~Unbuffered(w)
      BY FlushEither
    <3>2. y = z
      BY <2>2
    <3>3. FcloseFails(w) <=> Has(w, "WRT") /\ Has(z, "ERR")
      BY <2>2 DEF FcloseFails
    <3> HIDE DEF y, z
    <3> QED BY <3>1, <3>2, <3>3
  <2> QED BY <2>1, <2>2
<1>2. v = [y EXCEPT !.flags = {}, !.cnt = 0, !.ptr = 0, !.cap = 0]
  BY DEF Fclose
<1> HIDE DEF y, v
<1>3. /\ v \in Worlds /\ v.flags = {} /\ v.cnt = 0 /\ v.ptr = 0 /\ v.cap = 0 /\ v.file = y.file
      /\ v.pos = y.pos /\ v.pos \in Nat
  <2>1. {} \in SUBSET Flags /\ 0 \in Nat /\ 0 \in Int /\ 0 \in {0, SbufSiz, BigBuf}
    OBVIOUS
  <2>2. /\ v \in Worlds /\ v.flags = {} /\ v.cnt = 0 /\ v.ptr = 0 /\ v.cap = 0 /\ v.file = y.file /\ v.pos = y.pos
    BY <1>1, <1>2, <2>1 DEF Worlds
  <2> QED BY <2>2, Fields
<1>4. \A f : ~Has(v, f)
  BY <1>3 DEF Has
<1>5. WorldOK(v)
  <2>1. Sized(v)
    BY <1>1, <1>3, <1>4 DEF Sized
  <2> QED BY <1>3, <1>4, <2>1 DEF WorldOK, ReaderOK, WriterOK, LineOK, Unbuffered, Sloppy
<1>6. Out(v) = v.file /\ At(v) = v.pos
  BY <1>4, <1>5, NotWritten DEF At
<1> QED BY <1>1, <1>3, <1>5, <1>6 DEF v

LEMMA FcloseStep == ASSUME IInv, DoFclose PROVE IInv' /\ C!CNext
<1> DEFINE v == Fclose(World)
<1>1. /\ Becomes(v) /\ op' = <<"fclose">> /\ turn' = "free"
      /\ ret' = IF FcloseFails(World) THEN <<-1>> ELSE << >>
  BY DEF DoFclose, Called
<1>2. WorldOK(World)
  BY DEF IInv
<1>3. /\ WorldOK(v) /\ v.flags = {} /\ At(v) \in Nat /\ Out(World) \in Seq(Bytes)
      /\ IF Len(Out(World)) <= DiskSize THEN Out(v) = Out(World) ELSE FcloseFails(World)
  BY <1>2, FcloseIs
<1> HIDE DEF v
<1>4. /\ WorldOK(World)' /\ fp'.flags = {} /\ Data' = Out(v) /\ Pos' = At(v) /\ Data = Out(World)
  BY <1>1, <1>3, Became, Mapping
<1>5. op' # <<"open">> /\ op'[1] # "read"
  BY <1>1
<1>6. IInv'
  <2>1. TurnOK'
    BY <1>1, <1>4 DEF TurnOK, RW
  <2>2. OpOK'
    BY <1>4, <1>5 DEF OpOK
  <2> QED BY <1>4, <2>1, <2>2 DEF IInv
<1>7. CASE Len(Out(World)) <= DiskSize
  <2>1. Data' = Data /\ Pos' \in Nat /\ Err' \in BOOLEAN
    BY <1>3, <1>4, <1>7 DEF Err
  <2>2. C!Closes
    BY <1>1, <2>1 DEF C!Closes, Data, Pos, Err
  <2> QED BY <1>6, <2>2 DEF C!CNext
<1>8. CASE ~(Len(Out(World)) <= DiskSize)
  <2>1. Len(Out(World)) > DiskSize
    <3>1. Len(Out(World)) \in Nat /\ DiskSize \in Nat
      BY <1>3, Sizes
    <3> QED BY <1>8, <3>1
  <2>2. Err' = TRUE
    BY <1>1, <1>3, <1>8 DEF Err
  <2>3. C!Loses
    BY <1>4, <2>1, <2>2 DEF C!Loses, Data, Err
  <2> QED BY <1>6, <2>3 DEF C!CNext
<1> QED BY <1>7, <1>8

-----------------------------------------------------------------------------
LEMMA InitStep == ASSUME Init PROVE IInv /\ C!CInit
<1>1. PICK m \in Opened :
        /\ fp = [flags |-> CASE m = "r" -> {"READ"} [] m = "w" -> {"WRT"} [] OTHER -> {"RW"},
                 cnt |-> 0, ptr |-> 0, cap |-> 0]
        /\ file \in IF m = "w" THEN {<< >>} ELSE Files
  BY DEF Init
<1>2. /\ fp.cnt = 0 /\ fp.ptr = 0 /\ fp.cap = 0 /\ fp.flags \in {{"READ"}, {"WRT"}, {"RW"}}
      /\ pos = 0 /\ turn = "free" /\ op = <<"open">> /\ ret = << >>
  BY <1>1 DEF Init
<1>3. buf \in [1 .. BigBuf -> Bytes]
  BY Sizes DEF Init
<1>4. file \in Seq(Bytes) /\ Len(file) <= DiskSize
  <2>1. CASE file = << >>
    BY <2>1, Sizes
  <2>2. CASE file \in Files
    BY <2>2, StreamAssumption DEF Bytes
  <2> QED BY <1>1, <2>1, <2>2
<1>5. /\ World.flags = fp.flags /\ World.cnt = 0 /\ World.ptr = 0 /\ World.cap = 0 /\ World.buf = buf
      /\ World.file = file /\ World.pos = 0
  BY <1>2 DEF World
<1>6. World \in Worlds
  <2>1. /\ fp.flags \in SUBSET Flags /\ fp.cnt \in Int /\ fp.ptr \in Nat /\ fp.cap \in {0, SbufSiz, BigBuf}
        /\ pos \in Nat
    BY <1>2 DEF Flags
  <2> QED BY <1>3, <1>4, <2>1 DEF World, Worlds
<1>7. Sized(World)
  BY <1>2, <1>4, <1>5, <1>6 DEF Sized, Has
<1>8. WorldOK(World)
  BY <1>2, <1>5, <1>7 DEF WorldOK, ReaderOK, WriterOK, LineOK, Has
<1>9. TurnOK
  BY <1>2 DEF TurnOK, RW
<1>10. OpOK
  BY <1>2, <1>5 DEF OpOK, Sloppy, Has
<1>11. Pnd(World) = << >> /\ Out(World) = file /\ At(World) = 0
  <2>1. World.ptr <= World.cap
    BY <1>5
  <2>2. Pnd(World) = << >>
    BY <1>5, <1>6, <2>1, PndIs
  <2>3. Out(World) = file /\ End(World) = 0
    BY <1>5, <1>6, <2>1, <2>2, PndIs
  <2>4. World.pos - World.cnt = 0
    BY <1>5
  <2> QED BY <2>2, <2>3, <2>4 DEF At
<1>12. C!CInit
  <2>1. Data = file /\ Pos = 0 /\ Err = FALSE
    BY <1>2, <1>11, Mapping DEF Err
  <2> QED BY <1>4, <2>1 DEF C!CInit, Data, Pos, Err
<1> QED BY <1>8, <1>9, <1>10, <1>12 DEF IInv

LEMMA NextStep ==
  ASSUME IInv, Habits = {}, Next
  PROVE  IInv' /\ C!CNext
<1>1. CASE DoRead
  BY <1>1, ReadStep
<1>2. CASE DoPutc
  BY <1>2, PutcStep
<1>3. CASE DoFwrite
  BY <1>3, FwriteStep
<1>4. CASE DoFputs
  BY <1>4, FputsStep
<1>5. CASE DoUngetc
  BY <1>5, UngetcStep
<1>6. CASE DoFflush
  BY <1>6, FflushStep
<1>7. CASE DoFseek
  BY <1>7, FseekStep
<1>8. CASE DoFtell
  BY <1>8, FtellStep
<1>9. CASE DoRewind
  BY <1>9, RewindStep
<1>10. CASE DoSetvbuf
  BY <1>10, SetvbufStep
<1>11. CASE DoFclose
  BY <1>11, FcloseStep
<1> QED
  BY <1>1, <1>2, <1>3, <1>4, <1>5, <1>6, <1>7, <1>8, <1>9, <1>10, <1>11 DEF Next

LEMMA StutterStep ==
  ASSUME IInv, UNCHANGED vars
  PROVE  IInv' /\ UNCHANGED C!cvars
<1>1. /\ fp' = fp /\ buf' = buf /\ file' = file /\ pos' = pos
      /\ op' = op /\ ret' = ret /\ turn' = turn
  BY DEF vars
<1>2. World' = World
  BY <1>1 DEF World
<1>3. IInv'
  BY <1>1, <1>2 DEF IInv, TurnOK, OpOK, RW
<1>4. Pending' = Pending
  BY <1>1 DEF Pending
<1> QED BY <1>1, <1>3, <1>4 DEF C!cvars

-----------------------------------------------------------------------------
(* Theorems, about a program without the habits.                           *)

(* The invariant is inductive: the buffer of a FILE is what it should be   *)
(* between any two calls.                                                  *)
THEOREM StreamInvariant ==
  ASSUME Habits = {}
  PROVE  Spec => []IInv
<1>1. Init => IInv
  BY InitStep
<1>2. IInv /\ [Next]_vars => IInv'
  BY NextStep, StutterStep
<1> QED BY <1>1, <1>2, PTL DEF Spec

(* Every state of a FILE has its type; its pointer and count stay within   *)
(* the buffer it has.                                                      *)
THEOREM StreamTyped ==
  ASSUME Habits = {}
  PROVE  Spec => []TypeOK
<1> DEFINE Near == pos <= DiskSize + 1
<1>1. IInv /\ Near => TypeOK
  <2> SUFFICES ASSUME IInv, Near PROVE TypeOK
    OBVIOUS
  <2>1. World \in Worlds /\ World.ptr <= World.cap /\ World.cnt <= World.cap /\ Len(World.file) <= DiskSize
    BY DEF IInv, WorldOK, Sized
  <2>2. /\ World.flags = fp.flags /\ World.cnt = fp.cnt /\ World.ptr = fp.ptr /\ World.cap = fp.cap
        /\ World.buf = buf /\ World.file = file /\ World.pos = pos
    BY DEF World
  <2>3. /\ fp.flags \in SUBSET Flags /\ fp.ptr \in Nat /\ fp.cap \in Nat /\ fp.cap \in {0, SbufSiz, BigBuf}
        /\ buf \in [1 .. BigBuf -> Bytes] /\ file \in Seq(Bytes) /\ pos \in Nat
    BY <2>1, <2>2, Fields
  <2>4. fp.ptr \in 0 .. fp.cap /\ pos \in 0 .. (DiskSize + 1)
    BY <2>1, <2>2, <2>3, Sizes
  <2>5. turn \in {"free", "reading", "writing"}
    BY DEF IInv, TurnOK
  <2> QED BY <2>1, <2>2, <2>3, <2>4, <2>5 DEF TypeOK, Flags
<1>2. Init => Near
  BY Sizes DEF Init
<1>3. Near /\ [Next]_vars => Near'
  BY DEF Next, vars
<1> QED BY <1>1, <1>2, <1>3, StreamInvariant, PTL DEF Spec

(* A line-buffered stream never holds back a newline: putc and fputs flush *)
(* at one.                                                                 *)
THEOREM LinesAreFlushed ==
  ASSUME Habits = {}
  PROVE  Spec => []LinesFlushed
<1>1. IInv => LinesFlushed
  <2> SUFFICES ASSUME IInv, "LBF" \in fp.flags, NEW k \in DOMAIN Pending
               PROVE  Pending[k] # NL
    BY DEF LinesFlushed
  <2>1. World \in Worlds /\ World.ptr <= World.cap /\ LineOK(World)
    BY DEF IInv, WorldOK, Sized
  <2>2. /\ World.flags = fp.flags /\ World.ptr = fp.ptr /\ World.cap = fp.cap /\ World.buf = buf
    BY DEF World
  <2>3. DOMAIN << >> = {}
    OBVIOUS
  <2>4. "WRT" \in fp.flags /\ Pending = SubSeq(buf, 1, fp.ptr)
    BY <2>3 DEF Pending
  <2>5. /\ SubSeq(World.buf, 1, World.ptr) \in Seq(Bytes) /\ Len(SubSeq(World.buf, 1, World.ptr)) = World.ptr
        /\ \A j \in 1 .. World.ptr : SubSeq(World.buf, 1, World.ptr)[j] = World.buf[j]
    BY <2>1, PndIs, Zenon
  <2>6. k \in 1 .. fp.ptr /\ Pending[k] = buf[k]
    BY <2>2, <2>4, <2>5
  <2> QED BY <2>1, <2>2, <2>4, <2>6 DEF LineOK, Has
<1> QED BY <1>1, StreamInvariant, PTL

(* The one buffer serves one direction, mirrors the file and is not left:  *)
(* fillbuf, writebuf, ungetc and the positioning functions agree.          *)
THEOREM BufferIsHonest ==
  ASSUME Habits = {}
  PROVE  Spec => []BufferHonest
<1>1. IInv => BufferHonest
  <2> SUFFICES ASSUME IInv PROVE BufferHonest
    OBVIOUS
  <2> DEFINE w == World
  <2>1. /\ w \in Worlds /\ w.ptr <= w.cap /\ w.cnt <= w.cap
        /\ Has(w, "READ") => ~Has(w, "WRT") /\ (w.cnt > 0 => Mirrors(w))
    BY DEF IInv, WorldOK, Sized, ReaderOK
  <2>2. /\ w.flags = fp.flags /\ w.cnt = fp.cnt /\ w.ptr = fp.ptr /\ w.cap = fp.cap
        /\ w.buf = buf /\ w.file = file /\ w.pos = pos
    BY DEF World
  <2> HIDE DEF w
  <2>3. /\ fp.ptr \in Nat /\ fp.cap \in Nat /\ fp.cap <= BigBuf /\ BigBuf \in Nat /\ fp.cnt \in Int
        /\ buf \in [1 .. BigBuf -> Bytes] /\ file \in Seq(Bytes) /\ pos \in Nat
    BY <2>1, <2>2, Fields, Sizes
  <2>4. OneDirection
    BY <2>1, <2>2 DEF OneDirection, Has
  <2>5. BufferInBounds
    BY <2>1, <2>2, <2>3 DEF BufferInBounds
  <2>6. BufferMirrorsFile
    <3> SUFFICES ASSUME "READ" \in fp.flags, fp.cnt > 0
                 PROVE  SubSeq(buf, fp.ptr + 1, fp.ptr + fp.cnt) = SubSeq(file, pos - fp.cnt + 1, pos)
      BY DEF BufferMirrorsFile
    <3> DEFINE n == fp.ptr + fp.cnt
               b == pos - fp.cnt
               s == SubSeq(buf, fp.ptr + 1, n)
               t == SubSeq(file, b + 1, pos)
    <3>1. /\ n \in 0 .. pos /\ n <= fp.cap /\ pos <= Len(file)
          /\ \A k \in 1 .. n : buf[k] = file[pos - n + k]
      BY <2>1, <2>2 DEF Mirrors, Filled, Has
    <3>2. buf \in Seq(Bytes) /\ Len(buf) = BigBuf /\ Len(file) \in Nat
      BY <2>3, IsSeq
    <3>3. /\ n \in Nat /\ n <= Len(buf) /\ fp.ptr <= n /\ n - fp.ptr = fp.cnt
          /\ b \in Nat /\ b <= pos /\ pos - b = fp.cnt
      BY <2>3, <3>1, <3>2
    <3> HIDE DEF n, b
    <3>4. s \in Seq(Bytes) /\ Len(s) = fp.cnt /\ \A k \in 1 .. fp.cnt : s[k] = buf[fp.ptr + k]
      <4>1. /\ s \in Seq(Bytes) /\ Len(s) = n - fp.ptr
            /\ \A k \in 1 .. (n - fp.ptr) : s[k] = buf[fp.ptr + k]
        BY <2>3, <3>2, <3>3, SubSeqIs, Zenon
      <4> QED BY <3>3, <4>1, Zenon
    <3>5. t \in Seq(Bytes) /\ Len(t) = fp.cnt /\ \A k \in 1 .. fp.cnt : t[k] = file[b + k]
      <4>1. /\ t \in Seq(Bytes) /\ Len(t) = pos - b
            /\ \A k \in 1 .. (pos - b) : t[k] = file[b + k]
        BY <2>3, <3>1, <3>3, SubSeqIs, Zenon
      <4> QED BY <3>3, <4>1, Zenon
    <3> HIDE DEF s, t
    <3>6. ASSUME NEW k \in 1 .. fp.cnt PROVE s[k] = t[k]
      <4>1. fp.ptr + k \in 1 .. n /\ pos - n + (fp.ptr + k) = b + k
        <5>1. fp.ptr \in Nat /\ fp.cnt \in Int /\ pos \in Nat
          BY <2>3
        <5>2. /\ fp.ptr + k \in 1 .. (fp.ptr + fp.cnt)
              /\ pos - (fp.ptr + fp.cnt) + (fp.ptr + k) = (pos - fp.cnt) + k
          BY <5>1
        <5> QED BY <5>2 DEF n, b
      <4> QED BY <3>1, <3>4, <3>5, <4>1
    <3>7. s = t
      BY <3>4, <3>5, <3>6, SameSeq
    <3> QED BY <3>7 DEF s, t, n, b
  <2> QED BY <2>4, <2>5, <2>6 DEF BufferHonest
<1> QED BY <1>1, StreamInvariant, PTL

(* Whatever the buffering and the order of the calls, a stream used as C90 *)
(* allows is a file with one position: buffering is invisible, and bytes   *)
(* are lost only when they do not fit the device.                          *)
THEOREM StreamIsAFile ==
  ASSUME Habits = {}
  PROVE  Spec => ImplementsFile
<1>1. Init => C!CInit
  BY InitStep
<1>2. IInv /\ [Next]_vars => [C!CNext]_(C!cvars)
  BY NextStep, StutterStep
<1> QED BY <1>1, <1>2, StreamInvariant, PTL DEF Spec, ImplementsFile, C!CSpec
=============================================================================
