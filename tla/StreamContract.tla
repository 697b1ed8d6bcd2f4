---------------------------- MODULE StreamContract --------------------------
(***************************************************************************)
(* What a stdio stream promises: it is a file with one position.  A read   *)
(* returns the bytes at the position, a write puts bytes there, a seek     *)
(* moves it; buffering is invisible.  Only two things may go wrong: the    *)
(* content does not fit the device, or a read fails; both set the error    *)
(* indicator.                                                              *)
(***************************************************************************)
EXTENDS Integers, Sequences

CONSTANTS Bytes, Hole, NL,     \* bytes, the byte of a hole, the newline
          Counts, Writes,      \* amounts read, sequences written
          Offsets,             \* offsets of seeks
          DiskSize             \* the largest file the device holds

VARIABLES data, at, err,   \* content, position, error indicator
          op, ret          \* the call and what it returned

cvars == <<data, at, err, op, ret>>

(* The bytes bs put into f at offset p; what lies between is a hole.       *)
Overlay(f, p, bs) ==
  [k \in 1 .. (IF bs # << >> /\ p + Len(bs) > Len(f) THEN p + Len(bs) ELSE Len(f)) |->
     IF k \in (p + 1) .. (p + Len(bs)) THEN bs[k - p]
     ELSE IF k <= Len(f) THEN f[k] ELSE Hole]

(* The at most n bytes of f from offset p, up to a newline when asked.     *)
Taking(f, p, n, line) ==
  LET room  == {k \in 1 .. n : p + k <= Len(f)}
      stops == {k \in room : line /\ f[p + k] = NL}
      m == IF stops # {} THEN CHOOSE k \in stops : \A q \in stops : k <= q
           ELSE IF room # {} THEN CHOOSE k \in room : \A q \in room : q <= k
           ELSE 0
  IN  SubSeq(f, p + 1, p + m)

CInit == at = 0 /\ err = FALSE /\ data \in Seq(Bytes)

Reads(n, line) ==
  /\ op' = <<"read", n, line>>
  /\ ret' = Taking(data, at, n, line)
  /\ at' = at + Len(ret')
  /\ UNCHANGED <<data, err>>

ReadFails(n) ==
  /\ op'[1] = "read" /\ op'[2] = n
  /\ err' = TRUE
  /\ \E m \in {k \in 0 .. n : k = 0 \/ at + k <= Len(data)} : ret' = SubSeq(data, at + 1, at + m)
  /\ at' = at + Len(ret')
  /\ UNCHANGED data

Puts(bs) ==
  /\ op' = <<"write", bs>>
  /\ data' = Overlay(data, at, bs)
  /\ at' = at + Len(bs)
  /\ ret' = << >>
  /\ UNCHANGED err

(* The byte just read is pushed back. *)
PutsBack ==
  /\ op' = <<"ungetc">>
  /\ at > 0 /\ at' = at - 1 /\ ret' = << >> /\ UNCHANGED <<data, err>>

Target(off, origin) ==
  CASE origin = "set" -> off
    [] origin = "cur" -> at + off
    [] origin = "end" -> Len(data) + off

(* A seek before the start fails, and leaves the position unspecified.     *)
Seeks(off, origin) ==
  /\ op' = <<"fseek", off, origin>>
  /\ IF Target(off, origin) >= 0
     THEN at' = Target(off, origin) /\ ret' = << >>
     ELSE at' \in Nat /\ ret' = <<-1>>
  /\ UNCHANGED <<data, err>>

Tells == op' = <<"ftell">> /\ ret' = <<at>> /\ UNCHANGED <<data, at, err>>

Flushes ==
  op' \in {<<"fflush">>, <<"setvbuf">>} /\ ret' = << >> /\ UNCHANGED <<data, at, err>>

Rewinds ==
  op' = <<"rewind">> /\ at' = 0 /\ err' = FALSE /\ ret' = << >> /\ UNCHANGED data

(* Closing keeps what was written and forgets the rest. *)
Closes == op' = <<"fclose">> /\ at' \in Nat /\ err' \in BOOLEAN /\ UNCHANGED data

(* Bytes are lost only when they do not fit, and not silently -- except    *)
(* that rewind clears the indicator it has just set.                       *)
Loses ==
  /\ \/ Len(data) > DiskSize
     \/ op'[1] = "write" /\ at + Len(op'[2]) > DiskSize
  /\ \/ err' = TRUE
     \/ op' = <<"rewind">> /\ at' = 0 /\ Len(data) > DiskSize

CNext ==
  \/ \E n \in Counts : ReadFails(n) \/ \E line \in BOOLEAN : Reads(n, line)
  \/ \E bs \in Writes : Puts(bs)
  \/ PutsBack
  \/ \E off \in Offsets, origin \in {"set", "cur", "end"} : Seeks(off, origin)
  \/ Tells \/ Flushes \/ Rewinds \/ Closes \/ Loses

CSpec == CInit /\ [][CNext]_cvars
=============================================================================
