--------------------------- MODULE JXCLPrimitives ---------------------------
(***************************************************************************)
(* The bit, byte and word routines of jxcl/jxcl_impl.h, operation by       *)
(* operation, on words of eight bytes.  A word is the set of its one bits; *)
(* Tops and Halving keep the code's literals, so that at smaller bytes the *)
(* first of their shifts empty the word.                                   *)
(***************************************************************************)
EXTENDS Columns, SequencesExt

CONSTANTS
  Arecibo,      \* jxcl_arecibo_source, a sequence of bytes from index 0 on
  SourceBits    \* JXCL_SOURCE_BITS

SourceBytes == Cardinality(DOMAIN Arecibo)   \* JXCL_SOURCE_BYTES

ASSUME AreciboAssumption ==
  /\ Arecibo \in [0 .. SourceBytes - 1 -> Octet]
  /\ SourceBits \in 0 .. ByteBits * SourceBytes

FullBits == 8 * ByteBits   \* JXCL_REG_WIDTH
LongBits == 4 * ByteBits
FullWord == Word(FullBits)
AllOnes == 0 .. FullBits - 1

ShiftRight(a, k) == {i - k : i \in {j \in a : j >= k}}

(* The number a word stands for. *)
Number(w) ==
  LET sum[i \in 0 .. FullBits] ==
        IF i = 0 THEN 0
        ELSE IF i - 1 \in w THEN sum[i - 1] + 2^(i - 1) ELSE sum[i - 1]
  IN sum[FullBits]

-----------------------------------------------------------------------------
BitGet(v, p) == ShiftRight(v, p) \cap {0}
BitSet(v, p) == v \cup ShiftLeft({0}, p, FullBits)
BitClr(v, p) == v \ ShiftLeft({0}, p, FullBits)

(* Not for the whole word: 1 << 64 is undefined. *)
BitsExtract(v, hi, lo) ==
  ShiftRight(v, lo) \cap Sub(ShiftLeft({0}, hi - lo + 1, FullBits), {0}, FullBits)

(* The masks 0x5555..., 0x3333..., 0x0F0F... and 0x0101...: in every       *)
(* period, the lowest places. *)
Mask(places, period) == {i \in AllOnes : i % period < places}

(* jxcl_popcount64, in parallel fields; they are eight bits wide. *)
Popcount(v) ==
  LET pairs == Sub(v, ShiftRight(v, 1) \cap Mask(1, 2), FullBits)
      nibbles == Add(pairs \cap Mask(2, 4), ShiftRight(pairs, 2) \cap Mask(2, 4), FullBits)
      octets == Add(nibbles, ShiftRight(nibbles, 4), FullBits) \cap Mask(4, 8)
  IN Number(ShiftRight(Mul(Mask(1, 8), octets, FullBits), FullBits - 8))

Halving == <<32, 16, 8, 4, 2, 1>>

(* Where the top (bottom) k bits are empty, they are counted and shifted   *)
(* out. *)
Clz(v) ==
  LET narrow(s, k) == IF s.v \cap (FullBits - k) .. (FullBits - 1) = {}
                        THEN [n |-> s.n + k, v |-> ShiftLeft(s.v, k, FullBits)] ELSE s
      x[i \in 0 .. Len(Halving)] ==
        IF i = 0 THEN [n |-> 0, v |-> v] ELSE narrow(x[i - 1], Halving[i])
  IN IF v = {} THEN FullBits ELSE x[Len(Halving)].n

Ctz(v) ==
  LET narrow(s, k) == IF s.v \cap 0 .. (k - 1) = {}
                        THEN [n |-> s.n + k, v |-> ShiftRight(s.v, k)] ELSE s
      x[i \in 0 .. Len(Halving)] ==
        IF i = 0 THEN [n |-> 0, v |-> v] ELSE narrow(x[i - 1], Halving[i])
  IN IF v = {} THEN FullBits ELSE x[Len(Halving)].n

(* Byte i is shifted by 56 - 16i bits: 56, 40, 24, 8, and back. *)
Bswap(v) ==
  UNION {{j + (7 - 2 * i) * ByteBits : j \in v \cap i * ByteBits .. (i + 1) * ByteBits - 1}
           : i \in 0 .. 7}

-----------------------------------------------------------------------------
(* Mutant of Ror: the amount is masked as for half the width. *)
RorNarrow(a, s, n) ==
  LET k == s % (n \div 2) IN IF k # 0 THEN ShiftRight(a, k) \cup ShiftLeft(a, n - k, n) ELSE a

(* The rotations, of 64, 32 and 8 bits. *)
Rol(a, s, n) == LET k == s % n IN IF k # 0 THEN ShiftLeft(a, k, n) \cup ShiftRight(a, n - k) ELSE a
Ror(a, s, n) == LET k == s % n IN IF k # 0 THEN ShiftRight(a, k) \cup ShiftLeft(a, n - k, n) ELSE a

Rol8(a, s) == Rol(a, s, ByteBits)
Ror8(a, s) == Ror(a, s, ByteBits)

Word32Byte(w, i) == Byte(w, i % 4, ByteBits)
Lo32(v) == v \cap 0 .. LongBits - 1
Hi32(v) == ShiftRight(v, LongBits)
From32(hi, lo) == ShiftLeft(hi, LongBits, FullBits) \cup lo

(* jxcl_flags_upd and its forms for results of n bits: Z is bit 0, N bit   *)
(* 1; the mask 0xFFFFFFF0 also clears the upper half.                      *)
FlagsUpd(f, r, n) ==
  (f \cap 4 .. LongBits - 1) \cup {z \in {0} : r = {}} \cup {s \in {1} : n - 1 \in r}

Mix32Word(c) == Pack(Mix32([i \in 0 .. 3 |-> Word32Byte(c, i)]), ByteBits)
Mix64(v) == From32(Mix32Word(Hi32(v)), Mix32Word(Lo32(v)))

(* v ^= v >> k, for one k after the other. *)
XorShifts(v, ks) ==
  LET x[i \in 0 .. Len(ks)] == IF i = 0 THEN v ELSE Xor(x[i - 1], ShiftRight(x[i - 1], ks[i]))
  IN x[Len(ks)]

(* Mutant of Folded: the last shift is missing. *)
FoldedShort(v) == XorShifts(v, Front(Halving))

Folded(v) == XorShifts(v, Halving)
Fold64(q0, q1, q2, q3) == Folded(Xor(Xor(q0, q1), Xor(q2, q3)))
Fold32(v) == XorShifts(v, Tail(Halving))

-----------------------------------------------------------------------------
(* jxcl_source_to_mem: word i of mem.source, the first byte lowest. *)
SourceWord(i) ==
  UNION {ShiftLeft(Arecibo[i * 8 + b], b * ByteBits, FullBits)
           : b \in {c \in 0 .. 7 : i * 8 + c < SourceBytes}}

-----------------------------------------------------------------------------
(* Each routine means what its name says.  v and w are any words: counting *)
(* in parallel fields counts the ones, narrowing finds the outermost one,  *)
(* rotations and the byte swap are undone, a fold is the Gray code of the  *)
(* word decoded, its parity in the lowest bit.                             *)
Counts(v) ==
  /\ Popcount(v) = Cardinality(v)
  /\ Clz(v) = IF v = {} THEN FullBits ELSE FullBits - 1 - Max(v)
  /\ Ctz(v) = IF v = {} THEN FullBits ELSE Min(v)

Moves(v, k) ==
  /\ Rol(v, k, FullBits) = RotateLeft(v, k, FullBits)
  /\ Ror(v, k, FullBits) = RotateRight(v, k, FullBits)
  /\ \A i \in 0 .. 7 : Byte(Bswap(v), i, ByteBits) = Byte(v, 7 - i, ByteBits)
  /\ From32(Hi32(v), Lo32(v)) = v
  /\ Rol8(Ror8(Byte(v, 1, ByteBits), k), k) = Word32Byte(Lo32(v), 1)
  /\ LET p == k % FullBits
     IN /\ BitGet(BitSet(v, p), p) = {0} /\ BitClr(BitSet(v, p), p) = v \ {p}
        /\ p < FullBits - 1 => BitsExtract(v, p, 0) = v \cap 0 .. p

Folds(v) ==
  /\ Folded(v) = {i \in AllOnes : Cardinality({j \in v : j >= i}) % 2 = 1}
  /\ Fold32(Lo32(v)) = Folded(Lo32(v))
=============================================================================
