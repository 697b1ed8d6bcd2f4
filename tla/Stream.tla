-------------------------------- MODULE Stream ------------------------------
(***************************************************************************)
(* One FILE of lib/src/stdio.c and the file its descriptor is open on: the *)
(* getc and putc macros, their helpers, the block and line operations and  *)
(* the positioning functions.  Pointers are offsets from fp->base; a byte  *)
(* is the newline, another value or a NUL.                                 *)
(***************************************************************************)
EXTENDS Integers, Sequences, FiniteSets, SequencesExt

CONSTANTS
  NL, Text, Hole,          \* '\n', other bytes, and the byte of a hole (0)
  BufSiz, SbufSiz,         \* BUFSIZ, SBFSIZ
  DiskSize,                \* the device holds files up to this size
  Files,                   \* contents a file that is not truncated may have
  Opened,                  \* the modes the program opens the file in
  Buffering,               \* the modes it asks setvbuf for
  Counts, Writes, Offsets, \* what it reads, writes and seeks to
  Habits                   \* what it does that C90 allows and the code does not

ASSUME StreamAssumption ==
  /\ BufSiz \in Nat \ {0} /\ SbufSiz \in Nat \ {0} /\ SbufSiz < BufSiz
  /\ DiskSize \in Nat /\ NL \notin Text /\ Hole \notin Text \cup {NL}
  /\ Opened \subseteq {"r", "w", "r+"}
  /\ Buffering \subseteq {"full", "line", "none"}
  /\ Habits \subseteq {"turnsByFflush", "fputsUnbuffered", "seeksPushedBack",
                     "pushesOthers", "fwritesLines"}
  /\ Files \subseteq Seq(Text \cup {NL, Hole}) /\ \A f \in Files : Len(f) <= DiskSize
  /\ Counts \subseteq Nat /\ Writes \subseteq Seq(Text \cup {NL}) /\ Offsets \subseteq Int

Bytes == Text \cup {NL, Hole}

VARIABLES
  fp,      \* the FILE: flags, cnt, ptr and cap, which is end - base: 0 without buffer
  buf,     \* the buffer, as large as any
  file,    \* the file
  pos,     \* the descriptor's offset
  grant,   \* malloc gives addbuf a buffer, or not
  op, ret, \* the last function called and what it returned
  turn     \* C90 7.9.5.3: may an update stream be read, written, both?

vars == <<fp, buf, file, pos, grant, op, ret, turn>>

World == [flags |-> fp.flags, cnt |-> fp.cnt, ptr |-> fp.ptr, cap |-> fp.cap,
          buf |-> buf, file |-> file, pos |-> pos]

(* What is written and not yet on the device, and what the program sees:   *)
(* the content with that in place, and its own position.                   *)
Pending ==
  IF "WRT" \in fp.flags /\ fp.cap # 0 /\ "NBF" \notin fp.flags THEN SubSeq(buf, 1, fp.ptr)
  ELSE << >>

(* The bytes bs put into f at offset p; what lies between is a hole.       *)
Overlay(f, p, bs) ==
  [k \in 1 .. (IF bs # << >> /\ p + Len(bs) > Len(f) THEN p + Len(bs) ELSE Len(f)) |->
     IF k \in (p + 1) .. (p + Len(bs)) THEN bs[k - p]
     ELSE IF k <= Len(f) THEN f[k] ELSE Hole]

C == INSTANCE StreamContract
       WITH Writes <- Writes \cup {<<c>> : c \in Text \cup {NL}},
            data <- Overlay(file, pos, Pending),
            at   <- IF "READ" \in fp.flags THEN pos - fp.cnt ELSE pos + Len(Pending),
            err  <- "ERR" \in fp.flags \/ (op = <<"fclose">> /\ ret = <<-1>>)

BigBuf == BufSiz + SbufSiz

Init ==
  /\ \E m \in Opened :
       /\ fp = [flags |-> CASE m = "r" -> {"READ"} [] m = "w" -> {"WRT"} [] OTHER -> {"RW"},
                cnt |-> 0, ptr |-> 0, cap |-> 0]
       /\ file \in IF m = "w" THEN {<< >>} ELSE Files
  /\ buf = [k \in 1 .. BigBuf |-> Hole]
  /\ pos = 0
  /\ grant \in BOOLEAN
  /\ op = <<"open">> /\ ret = << >> /\ turn = "free"

-----------------------------------------------------------------------------
(* The helpers are functions of the stream and its file, a record w.       *)
Has(w, flag) == flag \in w.flags
Unbuffered(w) == Has(w, "NBF")
Sloppy(w) == Has(w, "NBF") \/ Has(w, "LBF")

Set(w, on, off) == [w EXCEPT !.flags = (@ \ off) \cup on]

AddBuf(w) ==
  IF w.cap # 0 THEN w
  ELSE [w EXCEPT !.cap = IF Unbuffered(w) \/ ~grant THEN SbufSiz ELSE BigBuf, !.ptr = 0]

(* write: what fits the device is written.                                 *)
Fitting(w, bs) == SubSeq(bs, 1, IF w.pos + Len(bs) <= DiskSize THEN Len(bs)
                                ELSE IF w.pos < DiskSize THEN DiskSize - w.pos ELSE 0)

DevWrite(w, bs) ==
  LET fit == Fitting(w, bs)
  IN  [Set(w, IF fit = bs THEN {} ELSE {"ERR"}, {})
         EXCEPT !.file = Overlay(@, w.pos, fit), !.pos = @ + Len(fit)]

(* writebuf; its result is EOF when the write comes up short.              *)
WriteBuf(w) ==
  LET out == SubSeq(w.buf, 1, w.ptr)
      w1  == [w EXCEPT !.ptr = 0, !.cnt = IF Sloppy(w) THEN 0 ELSE w.cap]
  IN  IF out = << >> THEN w1 ELSE DevWrite(w1, out)

WriteFails(w) == Fitting(w, SubSeq(w.buf, 1, w.ptr)) # SubSeq(w.buf, 1, w.ptr)

(* wrtchk of a stream that may be written. *)
WrtChk(w) ==
  LET w1 == AddBuf(IF Has(w, "WRT") /\ ~Has(w, "EOF") THEN w ELSE Set(w, {"WRT"}, {"EOF"}))
  IN  IF w1.ptr = 0 /\ ~Sloppy(w1) THEN [w1 EXCEPT !.cnt = w1.cap] ELSE w1

Store(w, c) ==
  [w EXCEPT !.buf[w.ptr + 1] = c, !.ptr = @ + 1, !.cnt = @ - 1]

(* _flushbuf: a line-buffered byte is stored and a newline flushes; an     *)
(* unbuffered one is written; a full buffer is written and the byte stored *)
(* in the emptied one.                                                     *)
(* Mutant: a newline is a byte like the others. *)
StoreInLine_NoFlush(w, c) == Store(w, c)

StoreInLine(w, c) == IF c = NL THEN WriteBuf(Store(w, c)) ELSE Store(w, c)

FlushBuf(w0, c) ==
  LET w == WrtChk(w0)
  IN  IF Has(w, "LBF")
      THEN IF w.ptr < w.cap THEN StoreInLine(w, c) ELSE StoreInLine(WriteBuf(w), c)
      ELSE IF Unbuffered(w) THEN DevWrite([w EXCEPT !.cnt = 0], <<c>>)
      ELSE Store(WriteBuf(w), c)

Putc(w, c) == IF w.cnt > 0 THEN Store(w, c)
              ELSE FlushBuf([w EXCEPT !.cnt = @ - 1], c)

(* The copying loop of fwrite and fputs, byte by byte: a full buffer is    *)
(* written first, and if that fails the loop ends.  a.done bytes are       *)
(* copied: fewer than were tried when it has ended.                        *)
CopyOne(a, k, c) ==
  IF a.done < k - 1 THEN a
  ELSE IF a.w.ptr < a.w.cap THEN [w |-> Store(a.w, c), done |-> k]
  ELSE IF WriteFails(a.w) THEN [a EXCEPT !.w = WriteBuf(@)]
  ELSE [w |-> Store(WriteBuf(a.w), c), done |-> k]

Copying(w, bs) ==
  LET copy[k \in Nat] == IF k = 0 THEN [w |-> w, done |-> 0] ELSE CopyOne(copy[k - 1], k, bs[k])
  IN  copy

Copied(w, bs) == Copying(w, bs)[Len(bs)]

(* fwrite: large writes to an empty buffer, and unbuffered ones, go to the *)
(* device; the rest is buffered.  A line-buffered stream is flushed when   *)
(* the first bytes of its buffer, as many as were written, hold a newline. *)
Fwrite(w0, bs) ==
  LET w == WrtChk(w0)
      a == Copied(w, bs)
      seen == \E k \in 1 .. Len(bs) : k <= BigBuf /\ a.w.buf[k] = NL
  IN  IF w.ptr = 0 /\ (Unbuffered(w) \/ Len(bs) >= BufSiz) THEN DevWrite(w, bs)
      ELSE IF a.done = Len(bs) /\ Has(w, "LBF") /\ seen THEN WriteBuf(a.w)
      ELSE a.w

(* fputs: memccpy stores the terminating NUL too, after a full buffer is   *)
(* written; a line-buffered stream is flushed; the result of an unbuffered *)
(* write is ignored.                                                       *)
PutNul(w) ==
  LET v == IF w.ptr = w.cap THEN WriteBuf(w) ELSE w
  IN  IF w.ptr = w.cap /\ WriteFails(w) THEN v
      ELSE LET z == [v EXCEPT !.buf[v.ptr + 1] = Hole]
           IN  IF Has(z, "LBF") THEN WriteBuf(z) ELSE z

Fputs(w0, bs) ==
  LET w == WrtChk(w0)
      a == Copied(w, bs)
  IN  IF Unbuffered(w) THEN [DevWrite(w, bs) EXCEPT !.flags = w.flags]
      ELSE IF a.done = Len(bs) THEN PutNul(a.w)
      ELSE a.w

Fflush(w) ==
  IF ~Has(w, "WRT") THEN [w EXCEPT !.cnt = 0]
  ELSE IF ~Unbuffered(w) /\ w.cap # 0 /\ w.ptr > 0 THEN WriteBuf(w) ELSE w

-----------------------------------------------------------------------------
(* _fillbuf, the byte it returns still in the buffer (the callers' "ptr--; *)
(* cnt++"); fails says that read returns -1.                               *)
FillBuf(w0, fails) ==
  LET w  == Set(AddBuf(w0), {"READ"}, {})
      want == IF Unbuffered(w) THEN 1 ELSE w.cap
      got  == SubSeq(w.file, w.pos + 1,
                     IF w.pos + want <= Len(w.file) THEN w.pos + want ELSE Len(w.file))
      w1 == [w EXCEPT !.ptr = 0]
  IN  IF fails THEN Set([w1 EXCEPT !.cnt = 0], {"ERR"}, {})
      ELSE IF got = << >>
      THEN Set([w1 EXCEPT !.cnt = 0], {"EOF"}, IF Has(w, "RW") THEN {"READ"} ELSE {})
      ELSE [w1 EXCEPT !.cnt = Len(got), !.pos = @ + Len(got),
                      !.buf = [k \in DOMAIN @ |-> IF k \in DOMAIN got THEN got[k] ELSE @[k]]]

(* getc (n = 1), fread and fgets (line): a byte at a time, an empty buffer *)
(* being filled first, until one is missing or a line is read.             *)
ReadOne(a, k, line, fails) ==
  IF Len(a.got) < k - 1 \/ (line /\ a.got # << >> /\ Last(a.got) = NL) THEN a
  ELSE LET w == IF a.w.cnt <= 0 THEN FillBuf(a.w, fails) ELSE a.w
       IN  IF w.cnt <= 0 THEN [a EXCEPT !.w = w]
           ELSE [w |-> [w EXCEPT !.ptr = @ + 1, !.cnt = @ - 1],
                 got |-> Append(a.got, w.buf[w.ptr + 1])]

Reading(w, line, fails) ==
  LET read[k \in Nat] == IF k = 0 THEN [w |-> w, got |-> << >>]
                         ELSE ReadOne(read[k - 1], k, line, fails)
  IN  read

Read(w, n, line, fails) == Reading(w, line, fails)[n]

(* ungetc succeeds on a stream being read that is not at the start of its  *)
(* buffer; at the start only when the buffer is empty.                     *)
UngetcOk(w) ==
  \/ Has(w, "READ") /\ w.ptr > 0
  \/ w.ptr = 0 /\ w.cnt = 0

Ungetc(w, c) ==
  LET p == IF w.ptr > 0 THEN w.ptr ELSE 1
  IN  [w EXCEPT !.buf[p] = c, !.ptr = p - 1, !.cnt = @ + 1]

-----------------------------------------------------------------------------
SeekTo(w, off, origin) ==
  CASE origin = "set" -> off
    [] origin = "cur" -> w.pos + off
    [] origin = "end" -> Len(w.file) + off

(* lseek: fails before the start of the file. *)
Lseek(w, off, origin) ==
  IF SeekTo(w, off, origin) < 0 THEN w ELSE [w EXCEPT !.pos = SeekTo(w, off, origin)]

(* fseek of a stream being read: within the buffer when it is read-only    *)
(* and the place is there, else by lseek.                                  *)
Distance(w, off, origin) == IF origin = "set" THEN off + w.cnt - w.pos ELSE off

Buffered(w, origin) == origin # "end" /\ w.cap # 0 /\ ~Unbuffered(w)

InBuffer(w, off, origin) ==
  /\ Buffered(w, origin) /\ ~Has(w, "RW")
  /\ w.cnt > 0
  /\ Distance(w, off, origin) \in (- w.ptr) .. w.cnt

(* Mutant: what has not been read of the buffer is not counted. *)
Adjusted_Not(w, off, origin) == off

Adjusted(w, off, origin) ==
  IF Buffered(w, origin) /\ origin = "cur" THEN off - w.cnt ELSE off

(* Mutant: the buffer is not dropped. *)
SeekReading_KeepsCnt(w, off, origin) ==
  LET d == Distance(w, off, origin)
      w1 == IF Has(w, "RW") THEN Set([w EXCEPT !.ptr = 0], {}, {"READ"}) ELSE w
  IN  IF InBuffer(w, off, origin) THEN [w EXCEPT !.ptr = @ + d, !.cnt = @ - d]
      ELSE Lseek(w1, Adjusted(w, off, origin), origin)

SeekReading(w, off, origin) ==
  LET d == Distance(w, off, origin)
      w1 == IF Has(w, "RW") THEN Set([w EXCEPT !.ptr = 0], {}, {"READ"}) ELSE w
  IN  IF InBuffer(w, off, origin) THEN [w EXCEPT !.ptr = @ + d, !.cnt = @ - d]
      ELSE [Lseek(w1, Adjusted(w, off, origin), origin) EXCEPT !.cnt = 0]

SeekWriting(w, off, origin) ==
  LET w1 == [Fflush(w) EXCEPT !.cnt = 0]
      w2 == IF Has(w, "RW") THEN Set([w1 EXCEPT !.ptr = 0], {}, {"WRT"}) ELSE w1
  IN  Lseek(w2, off, origin)

Fseek(w0, off, origin) ==
  LET w == Set(w0, {}, {"EOF"})
  IN  IF Has(w, "READ") THEN SeekReading(w, off, origin) ELSE SeekWriting(w, off, origin)

(* The target fseek hands to lseek decides its result. *)
FseekFails(w, off, origin) ==
  IF Has(w, "READ")
  THEN ~InBuffer(w, off, origin) /\ SeekTo(w, Adjusted(w, off, origin), origin) < 0
  ELSE SeekTo(Fflush(w), off, origin) < 0

(* Mutant: what is in the buffer is not counted. *)
Ftell_Unadjusted(w) == w.pos

Ftell(w) ==
  w.pos + (IF Has(w, "READ") THEN - w.cnt
           ELSE IF Has(w, "WRT") /\ w.cap # 0 /\ ~Unbuffered(w) THEN w.ptr ELSE 0)

Rewind(w) ==
  Set([Fflush(w) EXCEPT !.pos = 0, !.cnt = 0, !.ptr = 0], {},
      {"ERR", "EOF"} \cup (IF Has(w, "RW") THEN {"READ", "WRT"} ELSE {}))

(* setvbuf(fp, NULL, mode, size), before the stream is used. *)
Setvbuf(w, mode) ==
  CASE mode = "none" -> Set(w, {"NBF"}, {"LBF"})
    [] mode = "line" -> Set([w EXCEPT !.cap = IF grant THEN BigBuf ELSE SbufSiz],
                            {"LBF"}, {"NBF"})
    [] mode = "full" -> Set([w EXCEPT !.cap = IF grant THEN BigBuf ELSE SbufSiz],
                            {}, {"LBF", "NBF"})

(* fclose: an unbuffered stream has nothing to flush; _bzero(fp).          *)
Fclose(w) ==
  LET w1 == IF Unbuffered(w) THEN w ELSE Fflush(w)
  IN  [w1 EXCEPT !.flags = {}, !.cnt = 0, !.ptr = 0, !.cap = 0]

FcloseFails(w) == ~Unbuffered(w) /\ Has(w, "WRT") /\ Has(Fflush(w), "ERR")

-----------------------------------------------------------------------------
(* The program obeys C90: an update stream is not read after a write nor   *)
(* written after a read unless it was positioned, flushed or at its end.   *)
Becomes(w) ==
  /\ fp' = [flags |-> w.flags, cnt |-> w.cnt, ptr |-> w.ptr, cap |-> w.cap]
  /\ buf' = w.buf /\ file' = w.file /\ pos' = w.pos
  /\ UNCHANGED grant

MayRead == {"READ", "RW"} \cap fp.flags # {} /\ turn # "writing"
MayWrite == {"WRT", "RW"} \cap fp.flags # {} /\ turn # "reading"

Called(name, r, t) == op' = name /\ ret' = r /\ turn' = t

RW == "RW" \in fp.flags

Writing == IF RW THEN "writing" ELSE "free"

DoRead ==
  /\ MayRead
  /\ \E n \in Counts, line \in BOOLEAN, fails \in BOOLEAN :
       LET a == Read(World, n, line, fails)
       IN  /\ Becomes(a.w)
           /\ Called(<<"read", n, line>>, a.got, IF RW /\ "READ" \in a.w.flags THEN "reading" ELSE "free")

DoPutc ==
  /\ MayWrite
  /\ \E c \in Text \cup {NL} :
       Becomes(Putc(World, c)) /\ Called(<<"write", <<c>>>>, << >>, Writing)

DoFwrite ==
  /\ MayWrite
  /\ Has(World, "LBF") => "fwritesLines" \in Habits
  /\ \E bs \in Writes :
       Becomes(Fwrite(World, bs)) /\ Called(<<"write", bs>>, << >>, Writing)

DoFputs ==
  /\ MayWrite
  /\ Unbuffered(World) => "fputsUnbuffered" \in Habits
  /\ \E bs \in Writes :
       Becomes(Fputs(World, bs)) /\ Called(<<"write", bs>>, << >>, Writing)

DoUngetc ==
  /\ op[1] = "read" /\ ret # << >> /\ "READ" \in fp.flags
  /\ \E c \in IF "pushesOthers" \in Habits THEN Text \cup {NL} ELSE {Last(ret)} :
       Becomes(IF UngetcOk(World) THEN Ungetc(World, c) ELSE World)
  /\ Called(<<"ungetc">>, << >>, turn)

DoFflush ==
  /\ MayWrite
  /\ Becomes(Fflush(World))
  /\ Called(<<"fflush">>, << >>, IF "turnsByFflush" \in Habits THEN "free" ELSE turn)

DoFseek ==
  /\ Unbuffered(World) /\ fp.cnt > 0 => "seeksPushedBack" \in Habits
  /\ fp.flags \cap {"READ", "WRT", "RW"} # {}
  /\ \E off \in Offsets, origin \in {"set", "cur", "end"} :
       /\ Becomes(Fseek(World, off, origin))
       /\ Called(<<"fseek", off, origin>>, IF FseekFails(World, off, origin) THEN <<-1>> ELSE << >>, "free")

DoFtell ==
  /\ fp.flags \cap {"READ", "WRT", "RW"} # {}
  /\ Becomes([World EXCEPT !.cnt = IF @ < 0 THEN 0 ELSE @])
  /\ Called(<<"ftell">>, <<Ftell(World)>>, turn)

DoRewind ==
  /\ fp.flags \cap {"READ", "WRT", "RW"} # {}
  /\ Becomes(Rewind(World))
  /\ Called(<<"rewind">>, << >>, "free")

DoSetvbuf ==
  /\ op = <<"open">>
  /\ \E mode \in Buffering : Becomes(Setvbuf(World, mode))
  /\ Called(<<"setvbuf">>, << >>, turn)

DoFclose ==
  /\ fp.flags \cap {"READ", "WRT", "RW"} # {}
  /\ Becomes(Fclose(World))
  /\ Called(<<"fclose">>, IF FcloseFails(World) THEN <<-1>> ELSE << >>, "free")

(* Bounds for TLC: a file of DiskSize bytes, seeks not far beyond it.      *)
Next ==
  /\ \/ DoRead \/ DoPutc \/ DoFwrite \/ DoFputs \/ DoUngetc \/ DoFflush
     \/ DoFseek \/ DoFtell \/ DoRewind \/ DoSetvbuf \/ DoFclose
  /\ pos' <= DiskSize + 1

Spec == Init /\ [][Next]_vars

-----------------------------------------------------------------------------
TypeOK ==
  /\ fp.flags \subseteq {"READ", "WRT", "RW", "NBF", "LBF", "EOF", "ERR"}
  /\ fp.ptr \in 0 .. fp.cap /\ fp.cap \in {0, SbufSiz, BigBuf}
  /\ fp.cnt <= fp.cap
  /\ buf \in [1 .. BigBuf -> Bytes]
  /\ file \in Seq(Bytes) /\ Len(file) <= DiskSize
  /\ pos \in 0 .. (DiskSize + 1)
  /\ turn \in {"free", "reading", "writing"}

(* A buffer holds bytes read or bytes to be written: a stream marked for   *)
(* both would have fflush write to the file what it read from it.          *)
OneDirection == ~({"READ", "WRT"} \subseteq fp.flags)

(* What a line-buffered stream holds back is less than a line.             *)
LinesFlushed ==
  "LBF" \in fp.flags => \A k \in DOMAIN Pending : Pending[k] # NL

(* What can be read without another read() is what the file has there: the *)
(* buffer is dropped or kept in step by every positioning function.        *)
BufferMirrorsFile ==
  "READ" \in fp.flags /\ fp.cnt > 0 =>
    SubSeq(buf, fp.ptr + 1, fp.ptr + fp.cnt) = SubSeq(file, pos - fp.cnt + 1, pos)

(* The small buffer of a FILE, which has no room for a terminator, and the *)
(* large one are kept within their bounds.                                 *)
BufferInBounds == fp.ptr \in 0 .. fp.cap /\ fp.cnt <= fp.cap

(* The one buffer of a stream serves one direction, mirrors the file and   *)
(* is not left: fillbuf, writebuf and fseek agree on ptr, cnt and cap.     *)
BufferHonest == OneDirection /\ BufferMirrorsFile /\ BufferInBounds

(* Whatever the buffering, a stream read, written and positioned as C90    *)
(* allows is a file with one position.                                     *)
ImplementsFile == C!CSpec

-----------------------------------------------------------------------------
(* README.md and lib/README.md list stdio.h as C90.  After fflush the next *)
(* operation on an update stream may be input: it starts at the position.  *)
FlushEndsWriting ==
  [][op = <<"fflush">> /\ op'[1] = "read" =>
       \/ ret' = C!Taking(file, pos, op'[2], op'[3])
       \/ "ERR" \in fp'.flags]_vars

(* C90: fputs returns EOF if a write error occurs (and sets the            *)
(* indicator); no write loses bytes unnoticed.                             *)
LossIsReported ==
  [][op'[1] = "write" /\ "ERR" \notin fp'.flags =>
       Overlay(file', pos', Pending')
         = Overlay(Overlay(file, pos, Pending), pos + Len(Pending), op'[2])]_vars

(* C90: fseek(fp, 0, SEEK_CUR) stays where ftell says the stream is.       *)
SeekCurStays == [][op' = <<"fseek", 0, "cur">> => Ftell(World)' = Ftell(World)]_vars

(* C90: a successful fseek undoes any effects of ungetc.                   *)
SeekUndoesUngetc == op[1] = "fseek" => BufferMirrorsFile
=============================================================================
