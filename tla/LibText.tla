------------------------------ MODULE LibText ------------------------------
(***************************************************************************)
(* Text as the library's formatting routines see it: a string, which is a  *)
(* sequence of characters, ended by a character "" of no length.           *)
(***************************************************************************)
EXTENDS Integers, Sequences, FiniteSetsExt

At(s, k) == IF k \in 1..Len(s) THEN SubSeq(s, k, k) ELSE ""
From(s, k) == SubSeq(s, k, Len(s))
Least(m, n) == IF m < n THEN m ELSE n

Numerals == <<"0", "1", "2", "3", "4", "5", "6", "7", "8", "9", "a", "b", "c", "d", "e", "f">>
Capitals == <<"0", "1", "2", "3", "4", "5", "6", "7", "8", "9", "A", "B", "C", "D", "E", "F">>
Dec == {Numerals[n] : n \in 1..10}
HexDigit == {Numerals[n] : n \in 1..16} \cup {Capitals[n] : n \in 11..16}
DigitValue(c) == (CHOOSE n \in 1..16 : c \in {Numerals[n], Capitals[n]}) - 1
White == {" ", "\t", "\n", "\f", "\r"}

Rep(c, n) == LET f[k \in Nat] == IF k = 0 THEN "" ELSE f[k - 1] \o c IN f[IF n < 0 THEN 0 ELSE n]

\* A number in a base, with at least so many digits.
Numeral(n, size, least, table) ==
  LET f[m \in Nat] == IF m < size THEN table[m + 1] ELSE f[m \div size] \o table[(m % size) + 1]
  IN  Rep("0", least - Len(f[n])) \o f[n]

\* The number a text of digits says.
NumberSaid(s, size) == LET f[k \in 0..Len(s)] == IF k = 0 THEN 0 ELSE f[k - 1] * size + DigitValue(At(s, k)) IN f[Len(s)]

\* C's division, toward zero.
Quot(x, y) == IF x >= 0 THEN x \div y ELSE -((-x) \div y)
Rem(x, y) == x - y * Quot(x, y)
=============================================================================
