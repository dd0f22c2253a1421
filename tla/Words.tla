------------------------------- MODULE Words -------------------------------
(***************************************************************************)
(* Machine words as the sets of the positions of their one bits, for the   *)
(* bit arithmetic of the C, Pascal and VHDL sources: the exclusive or is   *)
(* the symmetric difference, a rotation renames positions.  n is a width.  *)
(***************************************************************************)
EXTENDS Integers, FiniteSetsExt

Word(n) == SUBSET (0 .. n - 1)

Xor(a, b) == (a \ b) \cup (b \ a)

ShiftLeft(a, k, n) == {i \in 0 .. n - 1 : i - k \in a}
RotateLeft(a, k, n) == {(i + k) % n : i \in a}
RotateRight(a, k, n) == {(i - k) % n : i \in a}

(* The word of a number below 2^16. *)
Bits(x) == {i \in 0 .. 15 : (x \div 2^i) % 2 = 1}

(* Positions into which the sum of a and b carries: the nearest position   *)
(* below where not exactly one of them has a bit has both.                 *)
Carries(a, b, n) ==
  {i \in 1 .. n - 1 : \E j \in a \cap b : j < i /\ (j + 1) .. (i - 1) \subseteq a \cup b}

(* Arithmetic modulo 2^n; a difference is a sum complemented twice, a      *)
(* product is a sum of shifts, one for every bit of a, added two by two as *)
(* in a heap: node i is the sum of nodes 2i and 2i + 1, node n + k the     *)
(* shift by k.  (Adding one after the other nests too deep for TLC.)       *)
Add(a, b, n) == Xor(Xor(a, b), Carries(a, b, n)) \cap 0 .. n - 1
Sub(a, b, n) == (0 .. n - 1) \ Add((0 .. n - 1) \ a, b, n)
Mul(a, b, n) ==
  LET sum[i \in 1 .. 2 * n - 1] ==
        IF i < n THEN Add(sum[2 * i], sum[2 * i + 1], n)
        ELSE IF i - n \in a THEN ShiftLeft(b, i - n, n)
        ELSE {}
  IN sum[1] \cap 0 .. n - 1

(* Byte i of a word of bytes of width m, and the word of four bytes. *)
Byte(w, i, m) == {j \in 0 .. m - 1 : i * m + j \in w}
Pack(r, m) == UNION {{i * m + j : j \in r[i]} : i \in 0 .. 3}
=============================================================================
