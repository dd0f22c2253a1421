----------------------------- MODULE QNGProofs -----------------------------
(***************************************************************************)
(* Proofs about the quantum number generator and the MixColumns codes it   *)
(* shares with the C and VHDL sources, for every width of bytes, every     *)
(* reduction polynomial and every choice of primes; and, on the code's own *)
(* words of eight bytes of eight bits, about the routines of jxcl_impl.h.  *)
(***************************************************************************)
EXTENDS QNGCodes, FiniteSetTheorems, WellFoundedInduction, TLAPS

-----------------------------------------------------------------------------
(* The exclusive or is the sum of a group in which everything is its own   *)
(* inverse. *)
LEMMA XorCommutes == ASSUME NEW a, NEW b PROVE Xor(a, b) = Xor(b, a)
  BY DEF Xor

LEMMA XorAssociates == ASSUME NEW a, NEW b, NEW c PROVE Xor(Xor(a, b), c) = Xor(a, Xor(b, c))
  BY DEF Xor

LEMMA XorCancels ==
  ASSUME NEW a, NEW b
  PROVE  Xor(a, Xor(a, b)) = b /\ Xor(a, a) = {} /\ Xor(a, {}) = a /\ Xor({}, a) = a
  BY DEF Xor

LEMMA XorOctet == ASSUME NEW a \in Octet, NEW b \in Octet PROVE Xor(a, b) \in Octet
  BY DEF Xor, Octet, Word

(* Doubling in the field respects sums, whatever the reduction polynomial. *)
LEMMA ShiftIsLinear ==
  ASSUME NEW a, NEW b
  PROVE  ShiftLeft(Xor(a, b), 1, ByteBits)
           = Xor(ShiftLeft(a, 1, ByteBits), ShiftLeft(b, 1, ByteBits))
  BY DEF ShiftLeft, Xor

LEMMA XTimeIsLinear ==
  ASSUME NEW a, NEW b PROVE XTime(Xor(a, b)) = Xor(XTime(a), XTime(b))
<1>1. ByteBits - 1 \in Xor(a, b) <=> ~(ByteBits - 1 \in a <=> ByteBits - 1 \in b)
  BY DEF Xor
<1> DEFINE s == ShiftLeft(a, 1, ByteBits)
           t == ShiftLeft(b, 1, ByteBits)
<1>2. /\ Xor(Xor(s, Reduction), Xor(t, Reduction)) = Xor(Xor(s, t), {})
      /\ Xor(Xor(s, Reduction), Xor(t, {})) = Xor(Xor(s, t), Reduction)
      /\ Xor(Xor(s, {}), Xor(t, Reduction)) = Xor(Xor(s, t), Reduction)
      /\ Xor(Xor(s, {}), Xor(t, {})) = Xor(Xor(s, t), {})
  BY DEF Xor
<1> HIDE DEF s, t
<1>3. /\ XTime(a) = Xor(s, IF ByteBits - 1 \in a THEN Reduction ELSE {})
      /\ XTime(b) = Xor(t, IF ByteBits - 1 \in b THEN Reduction ELSE {})
      /\ XTime(Xor(a, b)) = Xor(Xor(s, t), IF ByteBits - 1 \in Xor(a, b) THEN Reduction ELSE {})
  BY ShiftIsLinear DEF XTime, s, t
<1> QED
  BY <1>1, <1>2, <1>3

LEMMA XTimeOfZero == XTime({}) = {}
<1>1. XTime(Xor({}, {})) = Xor(XTime({}), XTime({}))
  BY XTimeIsLinear
<1> QED
  BY <1>1, XorCancels

(* MixColumn row by row, by what doubling makes of the single bytes.       *)
LEMMA MixRows ==
  ASSUME NEW a
  PROVE  LET m == MixColumn(a)
             t == Xor(Xor(a[0], a[1]), Xor(a[2], a[3]))
         IN /\ m[0] = Xor(Xor(a[0], t), Xor(XTime(a[0]), XTime(a[1])))
            /\ m[1] = Xor(Xor(a[1], t), Xor(XTime(a[1]), XTime(a[2])))
            /\ m[2] = Xor(Xor(a[2], t), Xor(XTime(a[2]), XTime(a[3])))
            /\ m[3] = Xor(Xor(a[3], t), Xor(XTime(a[3]), XTime(a[0])))
            /\ m = [i \in 0 .. 3 |-> m[i]]
<1>1. (0 + 1) % 4 = 1 /\ (1 + 1) % 4 = 2 /\ (2 + 1) % 4 = 3 /\ (3 + 1) % 4 = 0
  BY SMT
<1>2. 0 \in 0 .. 3 /\ 1 \in 0 .. 3 /\ 2 \in 0 .. 3 /\ 3 \in 0 .. 3
  BY SMT
<1> QED
  BY <1>1, <1>2, XTimeIsLinear DEF MixColumn

(* The rows of the routine and of the function, in four doubled bytes and  *)
(* the bytes themselves.                                                   *)
LEMMA CodeRows ==
  ASSUME NEW x0, NEW x1, NEW x2, NEW x3, NEW b0, NEW b1, NEW b2, NEW b3
  PROVE  LET t == Xor(Xor(b0, b1), Xor(b2, b3))
         IN /\ Xor(Xor(x0, Xor(x1, b1)), Xor(b2, b3)) = Xor(Xor(b0, t), Xor(x0, x1))
            /\ Xor(Xor(b0, x1), Xor(Xor(x2, b2), b3)) = Xor(Xor(b1, t), Xor(x1, x2))
            /\ Xor(Xor(b0, b1), Xor(x2, Xor(x3, b3))) = Xor(Xor(b2, t), Xor(x2, x3))
            /\ Xor(Xor(Xor(x0, b0), b1), Xor(b2, x3)) = Xor(Xor(b3, t), Xor(x3, x0))
<1> DEFINE t == Xor(Xor(b0, b1), Xor(b2, b3))
<1>1. Xor(Xor(x0, Xor(x1, b1)), Xor(b2, b3)) = Xor(Xor(b0, t), Xor(x0, x1))
  <2> SUFFICES ASSUME NEW z
               PROVE  z \in Xor(Xor(x0, Xor(x1, b1)), Xor(b2, b3)) <=> z \in Xor(Xor(b0, t), Xor(x0, x1))
    OBVIOUS
  <2> QED
    BY SMT DEF Xor
<1>2. Xor(Xor(b0, x1), Xor(Xor(x2, b2), b3)) = Xor(Xor(b1, t), Xor(x1, x2))
  <2> SUFFICES ASSUME NEW z
               PROVE  z \in Xor(Xor(b0, x1), Xor(Xor(x2, b2), b3)) <=> z \in Xor(Xor(b1, t), Xor(x1, x2))
    OBVIOUS
  <2> QED
    BY SMT DEF Xor
<1>3. Xor(Xor(b0, b1), Xor(x2, Xor(x3, b3))) = Xor(Xor(b2, t), Xor(x2, x3))
  <2> SUFFICES ASSUME NEW z
               PROVE  z \in Xor(Xor(b0, b1), Xor(x2, Xor(x3, b3))) <=> z \in Xor(Xor(b2, t), Xor(x2, x3))
    OBVIOUS
  <2> QED
    BY SMT DEF Xor
<1>4. Xor(Xor(Xor(x0, b0), b1), Xor(b2, x3)) = Xor(Xor(b3, t), Xor(x3, x0))
  <2> SUFFICES ASSUME NEW z
               PROVE  z \in Xor(Xor(Xor(x0, b0), b1), Xor(b2, x3)) <=> z \in Xor(Xor(b3, t), Xor(x3, x0))
    OBVIOUS
  <2> QED
    BY SMT DEF Xor
<1> QED
  BY <1>1, <1>2, <1>3, <1>4

(* The routine of jxcl_impl.h and the function of the Pascal program, which *)
(* sum a row in different orders, are the same map on every column of any   *)
(* width.                                                                   *)
THEOREM CodesAgree == ASSUME NEW a PROVE Mix32(a) = MixColumn(a)
<1> DEFINE x0 == XTime(a[0])  x1 == XTime(a[1])  x2 == XTime(a[2])  x3 == XTime(a[3])
           t == Xor(Xor(a[0], a[1]), Xor(a[2], a[3]))
<1>1. 0 \in 0 .. 3 /\ 1 \in 0 .. 3 /\ 2 \in 0 .. 3 /\ 3 \in 0 .. 3
  BY SMT
<1>2. /\ Mix32(a)[0] = Xor(Xor(x0, Xor(x1, a[1])), Xor(a[2], a[3]))
      /\ Mix32(a)[1] = Xor(Xor(a[0], x1), Xor(Xor(x2, a[2]), a[3]))
      /\ Mix32(a)[2] = Xor(Xor(a[0], a[1]), Xor(x2, Xor(x3, a[3])))
      /\ Mix32(a)[3] = Xor(Xor(Xor(x0, a[0]), a[1]), Xor(a[2], x3))
      /\ Mix32(a) = [i \in 0 .. 3 |-> Mix32(a)[i]]
  BY <1>1 DEF Mix32
<1>3. /\ MixColumn(a)[0] = Xor(Xor(a[0], t), Xor(x0, x1))
      /\ MixColumn(a)[1] = Xor(Xor(a[1], t), Xor(x1, x2))
      /\ MixColumn(a)[2] = Xor(Xor(a[2], t), Xor(x2, x3))
      /\ MixColumn(a)[3] = Xor(Xor(a[3], t), Xor(x3, x0))
      /\ MixColumn(a) = [i \in 0 .. 3 |-> MixColumn(a)[i]]
  BY MixRows
<1>4. /\ Mix32(a)[0] = MixColumn(a)[0] /\ Mix32(a)[1] = MixColumn(a)[1]
      /\ Mix32(a)[2] = MixColumn(a)[2] /\ Mix32(a)[3] = MixColumn(a)[3]
  <2> HIDE DEF x0, x1, x2, x3
  <2> QED
    BY <1>2, <1>3, CodeRows
<1>8. \A i \in 0 .. 3 : Mix32(a)[i] = MixColumn(a)[i]
  <2>1. \A i \in 0 .. 3 : i = 0 \/ i = 1 \/ i = 2 \/ i = 3
    BY SMT
  <2> QED
    BY <1>4, <2>1
<1> QED
  BY <1>2, <1>3, <1>8

LEMMA RowCancels ==
  ASSUME NEW a, NEW t, NEW p, NEW q, NEW u, NEW y, NEW z, NEW w
  PROVE  Xor(Xor(Xor(Xor(a, t), Xor(p, q)), t),
             Xor(Xor(Xor(p, u), Xor(y, z)), Xor(Xor(q, u), Xor(z, w)))) = Xor(a, Xor(y, w))
  BY SMT DEF Xor

LEMMA NeighboursCancel ==
  ASSUME NEW a, NEW b, NEW t, NEW p, NEW q, NEW r
  PROVE  Xor(Xor(Xor(a, t), Xor(p, q)), Xor(Xor(b, t), Xor(q, r))) = Xor(Xor(a, b), Xor(p, r))
  BY SMT DEF Xor

LEMMA SumCancels ==
  ASSUME NEW a, NEW b, NEW c PROVE Xor(Xor(a, Xor(b, c)), Xor(b, c)) = a
  BY SMT DEF Xor

(* Mixing twice: the sums of a column and its doubled neighbours cancel,   *)
(* and each byte is left with what lies across.                            *)
LEMMA MixTwice ==
  ASSUME NEW a
  PROVE  LET m == MixColumn(MixColumn(a))
             y(b) == XTime(XTime(b))
         IN /\ m[0] = Xor(a[0], Xor(y(a[0]), y(a[2])))
            /\ m[1] = Xor(a[1], Xor(y(a[1]), y(a[3])))
            /\ m[2] = Xor(a[2], Xor(y(a[2]), y(a[0])))
            /\ m[3] = Xor(a[3], Xor(y(a[3]), y(a[1])))
<1> DEFINE x0 == XTime(a[0])  x1 == XTime(a[1])  x2 == XTime(a[2])  x3 == XTime(a[3])
           y0 == XTime(x0)  y1 == XTime(x1)  y2 == XTime(x2)  y3 == XTime(x3)
           t == Xor(Xor(a[0], a[1]), Xor(a[2], a[3]))
           b == MixColumn(a)
           z0 == XTime(b[0])  z1 == XTime(b[1])  z2 == XTime(b[2])  z3 == XTime(b[3])
           u == XTime(t)
           m == MixColumn(b)
<1>1. /\ b[0] = Xor(Xor(a[0], t), Xor(x0, x1)) /\ b[1] = Xor(Xor(a[1], t), Xor(x1, x2))
      /\ b[2] = Xor(Xor(a[2], t), Xor(x2, x3)) /\ b[3] = Xor(Xor(a[3], t), Xor(x3, x0))
  BY MixRows
<1>2. /\ z0 = Xor(Xor(x0, u), Xor(y0, y1)) /\ z1 = Xor(Xor(x1, u), Xor(y1, y2))
      /\ z2 = Xor(Xor(x2, u), Xor(y2, y3)) /\ z3 = Xor(Xor(x3, u), Xor(y3, y0))
  BY <1>1, XTimeIsLinear
<1>3. Xor(Xor(b[0], b[1]), Xor(b[2], b[3])) = t
  <2> HIDE DEF x0, x1, x2, x3, t, b
  <2>1. Xor(b[0], b[1]) = Xor(Xor(a[0], a[1]), Xor(x0, x2))
    <3>1. Xor(Xor(Xor(a[0], t), Xor(x0, x1)), Xor(Xor(a[1], t), Xor(x1, x2)))
            = Xor(Xor(a[0], a[1]), Xor(x0, x2))
      BY NeighboursCancel
    <3> QED
      BY <1>1, <3>1
  <2>2. Xor(b[2], b[3]) = Xor(Xor(a[2], a[3]), Xor(x2, x0))
    <3>1. Xor(Xor(Xor(a[2], t), Xor(x2, x3)), Xor(Xor(a[3], t), Xor(x3, x0)))
            = Xor(Xor(a[2], a[3]), Xor(x2, x0))
      BY NeighboursCancel
    <3> QED
      BY <1>1, <3>1
  <2>3. \A c, d, p, q : Xor(Xor(c, Xor(p, q)), Xor(d, Xor(q, p))) = Xor(c, d)
    BY SMT DEF Xor
  <2> QED
    BY <2>1, <2>2, <2>3 DEF t
<1>4. /\ m[0] = Xor(Xor(b[0], t), Xor(z0, z1)) /\ m[1] = Xor(Xor(b[1], t), Xor(z1, z2))
      /\ m[2] = Xor(Xor(b[2], t), Xor(z2, z3)) /\ m[3] = Xor(Xor(b[3], t), Xor(z3, z0))
  BY <1>3, MixRows
<1>5. /\ m[0] = Xor(a[0], Xor(y0, y2)) /\ m[1] = Xor(a[1], Xor(y1, y3))
      /\ m[2] = Xor(a[2], Xor(y2, y0)) /\ m[3] = Xor(a[3], Xor(y3, y1))
  <2> HIDE DEF x0, x1, x2, x3, y0, y1, y2, y3, z0, z1, z2, z3, t, u, b, m
  <2> QED
    BY <1>1, <1>2, <1>4, RowCancels
<1> QED
  BY <1>5

(* MixColumns undoes itself when it is done four times, for every width of *)
(* bytes and every reduction polynomial.                                   *)
THEOREM FourMixesRestore ==
  ASSUME NEW a \in Column PROVE MixColumn(MixColumn(MixColumn(MixColumn(a)))) = a
<1> DEFINE y(c) == XTime(XTime(c))
           b == MixColumn(MixColumn(a))
           m == MixColumn(MixColumn(b))
<1>1. /\ b[0] = Xor(a[0], Xor(y(a[0]), y(a[2]))) /\ b[1] = Xor(a[1], Xor(y(a[1]), y(a[3])))
      /\ b[2] = Xor(a[2], Xor(y(a[2]), y(a[0]))) /\ b[3] = Xor(a[3], Xor(y(a[3]), y(a[1])))
  BY MixTwice
<1>2. /\ m[0] = Xor(b[0], Xor(y(b[0]), y(b[2]))) /\ m[1] = Xor(b[1], Xor(y(b[1]), y(b[3])))
      /\ m[2] = Xor(b[2], Xor(y(b[2]), y(b[0]))) /\ m[3] = Xor(b[3], Xor(y(b[3]), y(b[1])))
  BY MixTwice
<1>3. \A c, d : Xor(y(c), y(d)) = y(Xor(c, d))
  BY XTimeIsLinear
<1>4. Xor(b[0], b[2]) = Xor(a[0], a[2]) /\ Xor(b[1], b[3]) = Xor(a[1], a[3])
  <2> HIDE DEF y, b
  <2> QED
    BY <1>1, SMT DEF Xor
<1>5. /\ Xor(y(b[0]), y(b[2])) = Xor(y(a[0]), y(a[2])) /\ Xor(y(b[1]), y(b[3])) = Xor(y(a[1]), y(a[3]))
  BY <1>3, <1>4
<1> HIDE DEF y, b
<1>6. m[0] = a[0] /\ m[1] = a[1] /\ m[2] = a[2] /\ m[3] = a[3]
  <2>1. \A c, d : Xor(c, d) = Xor(d, c)
    BY XorCommutes
  <2> QED
    BY <1>1, <1>2, <1>5, <2>1, SumCancels
<1>7. m = [i \in 0 .. 3 |-> m[i]]
  BY MixRows
<1>8. a = [i \in 0 .. 3 |-> a[i]]
  BY DEF Column
<1>9. \A i \in 0 .. 3 : i = 0 \/ i = 1 \/ i = 2 \/ i = 3
  BY SMT
<1>10. m = a
  <2> HIDE DEF m
  <2> QED
    BY <1>6, <1>7, <1>8, <1>9
<1> QED
  BY <1>10 DEF b

-----------------------------------------------------------------------------
(* A word is its four bytes. *)
LEMMA Places ==
  ASSUME NEW m \in Nat \ {0}
  PROVE  /\ \A i, k \in 0 .. 3, j, l \in 0 .. m - 1 : i * m + j = k * m + l => i = k /\ j = l
         /\ \A i \in 0 .. 3, j \in 0 .. m - 1 : i * m + j \in 0 .. 4 * m - 1
         /\ \A x \in 0 .. 4 * m - 1 : \E i \in 0 .. 3, j \in 0 .. m - 1 : x = i * m + j
<1>1. \A i \in 0 .. 3 : i = 0 \/ i = 1 \/ i = 2 \/ i = 3
  BY SMT
<1>2. 0 * m = 0 /\ 1 * m = m /\ 2 * m = m + m /\ 3 * m = m + m + m /\ 4 * m = m + m + m + m
  BY SMT
<1>3. \A i, k \in 0 .. 3, j, l \in 0 .. m - 1 : i * m + j = k * m + l => i = k /\ j = l
  <2> TAKE i, k \in 0 .. 3, j, l \in 0 .. m - 1
  <2>1. CASE i = 0
    BY <1>1, <1>2, <2>1, SMT
  <2>2. CASE i = 1
    BY <1>1, <1>2, <2>2, SMT
  <2>3. CASE i = 2
    BY <1>1, <1>2, <2>3, SMT
  <2>4. CASE i = 3
    BY <1>1, <1>2, <2>4, SMT
  <2> QED
    BY <1>1, <2>1, <2>2, <2>3, <2>4
<1>4. \A i \in 0 .. 3, j \in 0 .. m - 1 : i * m + j \in 0 .. 4 * m - 1
  BY <1>1, <1>2, SMT
<1>5. \A x \in 0 .. 4 * m - 1 : \E i \in 0 .. 3, j \in 0 .. m - 1 : x = i * m + j
  <2> TAKE x \in 0 .. 4 * m - 1
  <2>1. CASE x < m
    BY <1>2, <2>1, 0 \in 0 .. 3, x \in 0 .. m - 1, x = 0 * m + x, SMT
  <2>2. CASE m <= x /\ x < m + m
    <3>1. x - m \in 0 .. m - 1 /\ x = 1 * m + (x - m) /\ 1 \in 0 .. 3
      BY <1>2, <2>2, SMT
    <3> QED
      BY <3>1
  <2>3. CASE m + m <= x /\ x < m + m + m
    <3>1. x - (m + m) \in 0 .. m - 1 /\ x = 2 * m + (x - (m + m)) /\ 2 \in 0 .. 3
      BY <1>2, <2>3, SMT
    <3> QED
      BY <3>1
  <2>4. CASE m + m + m <= x
    <3>1. x - (m + m + m) \in 0 .. m - 1 /\ x = 3 * m + (x - (m + m + m)) /\ 3 \in 0 .. 3
      BY <1>2, <2>4, SMT
    <3> QED
      BY <3>1
  <2> QED
    BY <2>1, <2>2, <2>3, <2>4, SMT
<1> QED
  BY <1>3, <1>4, <1>5

LEMMA WordWidth ==
  /\ ByteBits \in Nat \ {0} /\ WordBits = 4 * ByteBits /\ WordBits \in Nat \ {0}
  /\ TWord = SUBSET (0 .. WordBits - 1) /\ 0 .. WordBits - 1 = 0 .. 4 * ByteBits - 1
<1>1. ByteBits \in Nat \ {0}
  BY ByteAssumption DEF ByteAssumption
<1>2. WordBits = 4 * ByteBits
  BY DEF WordBits
<1>3. 4 * ByteBits \in Nat \ {0}
  BY <1>1, SMT
<1> QED
  BY <1>1, <1>2, <1>3 DEF TWord, Word

LEMMA ColumnOfType == ASSUME NEW a PROVE ColumnOf(a) \in Column
  BY DEF ColumnOf, Byte, Column, Octet, Word

LEMMA PackBits ==
  ASSUME NEW r \in Column, NEW i \in 0 .. 3, NEW j \in 0 .. ByteBits - 1
  PROVE  i * ByteBits + j \in Pack(r, ByteBits) <=> j \in r[i]
<1>1. ASSUME i * ByteBits + j \in Pack(r, ByteBits) PROVE j \in r[i]
  <2>1. PICK k \in 0 .. 3 : i * ByteBits + j \in {k * ByteBits + l : l \in r[k]}
    BY <1>1 DEF Pack
  <2>2. PICK l \in r[k] : i * ByteBits + j = k * ByteBits + l
    BY <2>1
  <2>3. l \in 0 .. ByteBits - 1
    BY DEF Column, Octet, Word
  <2>4. i = k /\ j = l
    BY <2>2, <2>3, WordWidth, Places
  <2> QED
    BY <2>4
<1>2. ASSUME j \in r[i] PROVE i * ByteBits + j \in Pack(r, ByteBits)
  BY <1>2 DEF Pack
<1> QED
  BY <1>1, <1>2

LEMMA PackType == ASSUME NEW r \in Column PROVE Pack(r, ByteBits) \in TWord
<1> SUFFICES ASSUME NEW x \in Pack(r, ByteBits) PROVE x \in 0 .. WordBits - 1
  BY WordWidth
<1>1. PICK k \in 0 .. 3 : x \in {k * ByteBits + l : l \in r[k]}
  BY DEF Pack
<1>2. PICK l \in r[k] : x = k * ByteBits + l
  BY <1>1
<1>3. l \in 0 .. ByteBits - 1
  BY DEF Column, Octet, Word
<1> QED
  BY <1>2, <1>3, WordWidth, Places

LEMMA BytesOfPack == ASSUME NEW r \in Column PROVE ColumnOf(Pack(r, ByteBits)) = r
<1>1. ASSUME NEW i \in 0 .. 3 PROVE Byte(Pack(r, ByteBits), i, ByteBits) = r[i]
  <2>1. \A j \in 0 .. ByteBits - 1 : j \in Byte(Pack(r, ByteBits), i, ByteBits) <=> j \in r[i]
    BY PackBits DEF Byte
  <2>2. r[i] \subseteq 0 .. ByteBits - 1
    BY DEF Column, Octet, Word
  <2>3. Byte(Pack(r, ByteBits), i, ByteBits) \subseteq 0 .. ByteBits - 1
    BY DEF Byte
  <2> QED
    BY <2>1, <2>2, <2>3
<1>2. r = [i \in 0 .. 3 |-> r[i]]
  BY DEF Column
<1> QED
  BY <1>1, <1>2 DEF ColumnOf

LEMMA PackOfBytes == ASSUME NEW a \in TWord PROVE Pack(ColumnOf(a), ByteBits) = a
<1>1. ASSUME NEW x \in 0 .. WordBits - 1 PROVE x \in Pack(ColumnOf(a), ByteBits) <=> x \in a
  <2>1. PICK i \in 0 .. 3, j \in 0 .. ByteBits - 1 : x = i * ByteBits + j
    BY WordWidth, Places
  <2>2. x \in Pack(ColumnOf(a), ByteBits) <=> j \in ColumnOf(a)[i]
    BY <2>1, PackBits, ColumnOfType
  <2>3. j \in ColumnOf(a)[i] <=> x \in a
    BY <2>1 DEF ColumnOf, Byte
  <2> QED
    BY <2>2, <2>3
<1>2. Pack(ColumnOf(a), ByteBits) \subseteq 0 .. WordBits - 1 /\ a \subseteq 0 .. WordBits - 1
  BY PackType, ColumnOfType, WordWidth
<1> QED
  BY <1>1, <1>2

LEMMA MixColumnType == ASSUME NEW a \in Column PROVE MixColumn(a) \in Column
<1>1. \A b : XTime(b) \in Octet
  BY ByteAssumption DEF ByteAssumption, XTime, ShiftLeft, Xor, Octet, Word
<1>2. \A i \in 0 .. 3 : (i + 1) % 4 \in 0 .. 3
  BY SMT
<1>3. 0 \in 0 .. 3 /\ 1 \in 0 .. 3 /\ 2 \in 0 .. 3 /\ 3 \in 0 .. 3
  BY SMT
<1>4. \A b, c \in Octet : Xor(b, c) \in Octet
  BY XorOctet
<1>5. \A i \in 0 .. 3 : a[i] \in Octet
  BY DEF Column
<1>6. Xor(Xor(a[0], a[1]), Xor(a[2], a[3])) \in Octet
  BY <1>3, <1>4, <1>5
<1> QED
  BY <1>1, <1>2, <1>4, <1>5, <1>6 DEF MixColumn, Column

LEMMA MixWordType == ASSUME NEW a PROVE MixWord(a) \in TWord
  BY ColumnOfType, MixColumnType, PackType DEF MixWord

(* Mixing a word four times restores it. *)
LEMMA FourMixesRestoreWord ==
  ASSUME NEW a \in TWord PROVE MixWord(MixWord(MixWord(MixWord(a)))) = a
<1> DEFINE c == ColumnOf(a)
           d == MixColumn(c)
           e == MixColumn(d)
           f == MixColumn(e)
           g == MixColumn(f)
<1>1. c \in Column /\ d \in Column /\ e \in Column /\ f \in Column
  BY ColumnOfType, MixColumnType
<1>2. g = c
  BY <1>1, FourMixesRestore
<1> HIDE DEF c, d, e, f, g
<1>3. /\ MixWord(a) = Pack(d, ByteBits)
      /\ MixWord(Pack(d, ByteBits)) = Pack(e, ByteBits)
      /\ MixWord(Pack(e, ByteBits)) = Pack(f, ByteBits)
      /\ MixWord(Pack(f, ByteBits)) = Pack(g, ByteBits)
  BY <1>1, BytesOfPack DEF MixWord, c, d, e, f, g
<1> QED
  BY <1>2, <1>3, PackOfBytes DEF c

-----------------------------------------------------------------------------
(* Sums.  Every set of natural numbers has a least element, which stands   *)
(* in for induction over the positions of a word.                          *)
LEMMA LeastElement ==
  ASSUME NEW T \in SUBSET Nat, T # {} PROVE \E x \in T : \A y \in T : x <= y
<1> DEFINE R == OpToRel(<, Nat)
<1>1. IsWellFoundedOn(R, Nat)
  BY NatLessThanWellFounded
<1>2. \A x, y \in Nat : x < y => <<x, y>> \in R
  BY DEF OpToRel
<1> HIDE DEF R
<1>3. PICK x \in T : \A y \in T : ~ (<<y, x>> \in R)
  BY <1>1, WFMin
<1>4. \A y \in T : ~(y < x)
  BY <1>2, <1>3
<1>5. \A y \in T : x <= y
  BY <1>4, SMT
<1> QED
  BY <1>5

(* A position carries into the next one as a full adder does. *)
LEMMA CarryStep ==
  ASSUME NEW n \in Nat, NEW a \in SUBSET Nat, NEW b \in SUBSET Nat, NEW i \in Nat, i + 1 < n
  PROVE  i + 1 \in Carries(a, b, n) <=>
           \/ i \in a /\ i \in b
           \/ (i \in a \/ i \in b) /\ i \in Carries(a, b, n)
<1>1. ASSUME i + 1 \in Carries(a, b, n), ~(i \in a /\ i \in b)
      PROVE  (i \in a \/ i \in b) /\ i \in Carries(a, b, n)
  <2>1. PICK j \in a \cap b : j < i + 1 /\ (j + 1) .. ((i + 1) - 1) \subseteq a \cup b
    BY <1>1 DEF Carries
  <2>2. j \in Nat /\ j < i
    BY <1>1, <2>1, SMT
  <2>3. i \in (j + 1) .. ((i + 1) - 1) /\ (j + 1) .. (i - 1) \subseteq (j + 1) .. ((i + 1) - 1)
    BY <2>2, SMT
  <2>4. i \in 1 .. n - 1
    BY <2>2, SMT
  <2> QED
    BY <2>1, <2>2, <2>3, <2>4 DEF Carries
<1>2. ASSUME i \in a, i \in b PROVE i + 1 \in Carries(a, b, n)
  <2>1. i + 1 \in 1 .. n - 1 /\ i < i + 1 /\ (i + 1) .. ((i + 1) - 1) = {}
    BY SMT
  <2> QED
    BY <1>2, <2>1 DEF Carries
<1>3. ASSUME i \in a \/ i \in b, i \in Carries(a, b, n) PROVE i + 1 \in Carries(a, b, n)
  <2>1. PICK j \in a \cap b : j < i /\ (j + 1) .. (i - 1) \subseteq a \cup b
    BY <1>3 DEF Carries
  <2>2. /\ i + 1 \in 1 .. n - 1 /\ j < i + 1
        /\ \A k \in (j + 1) .. ((i + 1) - 1) : k = i \/ k \in (j + 1) .. (i - 1)
    BY <2>1, SMT
  <2>3. (j + 1) .. ((i + 1) - 1) \subseteq a \cup b
    BY <1>3, <2>1, <2>2
  <2> QED
    BY <2>1, <2>2, <2>3 DEF Carries
<1> QED
  BY <1>1, <1>2, <1>3

LEMMA AddBits ==
  ASSUME NEW n \in Nat, NEW a, NEW b, NEW i \in 0 .. n - 1
  PROVE  i \in Add(a, b, n) <=>
           IF i \in Carries(a, b, n) THEN i \in a <=> i \in b ELSE ~(i \in a <=> i \in b)
<1>1. /\ i \in Xor(a, b) <=> ~(i \in a <=> i \in b)
      /\ i \in Xor(Xor(a, b), Carries(a, b, n)) <=> ~(i \in Xor(a, b) <=> i \in Carries(a, b, n))
  BY Zenon DEF Xor
<1>2. i \in Add(a, b, n) <=> i \in Xor(Xor(a, b), Carries(a, b, n))
  BY DEF Add
<1> QED
  BY <1>1, <1>2

(* Sub32 undoes Add32, in words of any width and for any second operand: a *)
(* least place where the borrows are not the carries cannot be.            *)
THEOREM SubUndoesAdd ==
  ASSUME NEW n \in Nat, NEW a \in SUBSET (0 .. n - 1), NEW b \in SUBSET Nat
  PROVE  Sub(Add(a, b, n), b, n) = a
<1> DEFINE s == Add(a, b, n)
           x == (0 .. n - 1) \ s
           T == {i \in 0 .. n - 1 : ~(i \in Carries(x, b, n) <=> i \in Carries(a, b, n))}
<1>1. a \in SUBSET Nat /\ x \in SUBSET Nat /\ T \in SUBSET Nat
  BY SMT
<1>2. \A i \in 0 .. n - 1 : i \in x <=>
        IF i \in Carries(a, b, n) THEN ~(i \in a <=> i \in b) ELSE i \in a <=> i \in b
  BY AddBits
<1> HIDE DEF s, x
<1>3. T = {}
  <2> SUFFICES ASSUME T # {} PROVE FALSE
    OBVIOUS
  <2>1. PICK i \in T : \A k \in T : i <= k
    BY <1>1, LeastElement
  <2>2. i # 0
    <3>1. 0 \notin Carries(x, b, n) /\ 0 \notin Carries(a, b, n)
      BY SMT DEF Carries
    <3> QED
      BY <3>1
  <2> DEFINE k == i - 1
  <2>3. k \in Nat /\ k \in 0 .. n - 1 /\ k + 1 < n /\ k + 1 = i /\ ~(i <= k)
    BY <2>2, SMT
  <2>4. k \in Carries(x, b, n) <=> k \in Carries(a, b, n)
    BY <2>1, <2>3
  <2>5. k + 1 \in Carries(x, b, n) <=>
          \/ k \in x /\ k \in b
          \/ (k \in x \/ k \in b) /\ k \in Carries(x, b, n)
    BY <1>1, <2>3, CarryStep
  <2>6. k + 1 \in Carries(a, b, n) <=>
          \/ k \in a /\ k \in b
          \/ (k \in a \/ k \in b) /\ k \in Carries(a, b, n)
    BY <1>1, <2>3, CarryStep
  <2>7. ~(i \in Carries(x, b, n) <=> i \in Carries(a, b, n))
    OBVIOUS
  <2> HIDE DEF k
  <2> QED
    BY <1>2, <2>3, <2>4, <2>5, <2>6, <2>7
<1>4. \A i \in 0 .. n - 1 : i \in Carries(x, b, n) <=> i \in Carries(a, b, n)
  BY <1>3
<1>5. \A i \in 0 .. n - 1 : i \in Add(x, b, n) <=> i \notin a
  BY <1>2, <1>4, AddBits
<1>6. Sub(s, b, n) = (0 .. n - 1) \ Add(x, b, n)
  BY DEF Sub, x
<1> QED
  BY <1>5, <1>6 DEF s

LEMMA AddType == ASSUME NEW a, NEW b PROVE Add32(a, b) \in TWord
  BY WordWidth DEF Add32, Add

LEMMA NormalizeType == ASSUME NEW a PROVE Normalize(a) \in TWord
  BY AddType DEF Normalize

-----------------------------------------------------------------------------
(* The recursive seed.  That the recursion defines a function is shown by  *)
(* building it level by level; a least level that is missing cannot be.    *)
SeedLevel(below, d) ==
  [seed \in TWord |->
     IF d = 0 THEN seed
     ELSE LET x == SeedRound(seed, d) IN Normalize(Xor(x, below[x]))]

SeedFunction(h, D) == [d \in 0 .. D |-> SeedLevel(h[d - 1], d)]

LEMMA SeedUpTo == ASSUME NEW D \in Nat PROVE \E h : h = SeedFunction(h, D)
<1> DEFINE T == {n \in Nat : ~ \E h : h = SeedFunction(h, n)}
<1> SUFFICES ASSUME T # {} PROVE FALSE
  OBVIOUS
<1>1. PICK n \in T : \A k \in T : n <= k
  BY LeastElement
<1>2. CASE n = 0
  <2> DEFINE h == [d \in 0 .. 0 |-> [seed \in TWord |-> seed]]
  <2>1. \A d \in 0 .. 0 : d = 0
    BY SMT
  <2>2. h = SeedFunction(h, 0)
    BY <2>1 DEF SeedFunction, SeedLevel
  <2> HIDE DEF h
  <2> QED
    BY <1>2, <2>2
<1>3. CASE n # 0
  <2> DEFINE m == n - 1
  <2>1. m \in Nat /\ n = m + 1 /\ ~(n <= m) /\ 0 .. m \subseteq 0 .. n
    BY <1>3, SMT
  <2>2. PICK g : g = SeedFunction(g, m)
    BY <1>1, <2>1
  <2> DEFINE h == SeedFunction(g, n)
  <2>3. \A d \in 0 .. m : h[d] = g[d]
    BY <2>1, <2>2 DEF SeedFunction
  <2>4. ASSUME NEW d \in 0 .. n PROVE SeedLevel(g[d - 1], d) = SeedLevel(h[d - 1], d)
    <3>1. CASE d = 0
      BY <3>1 DEF SeedLevel
    <3>2. CASE d # 0
      <4>1. d - 1 \in 0 .. m
        BY <2>1, <3>2, SMT
      <4>2. h[d - 1] = g[d - 1]
        BY <2>3, <4>1
      <4> HIDE DEF h
      <4> QED
        BY <4>2
    <3> QED
      BY <3>1, <3>2
  <2>5. h = [d \in 0 .. n |-> SeedLevel(g[d - 1], d)]
    BY DEF SeedFunction
  <2> HIDE DEF h
  <2>6. h = SeedFunction(h, n)
    BY <2>4, <2>5 DEF SeedFunction
  <2> QED
    BY <2>6
<1> QED
  BY <1>2, <1>3

LEMMA SeedDefined == RecursiveSeed = SeedFunction(RecursiveSeed, MaxRecursion + 16)
<1>1. \E h : h = SeedFunction(h, MaxRecursion + 16)
  <2>1. MaxRecursion + 16 \in Nat
    BY StateAssumption, SMT DEF StateAssumption
  <2> QED
    BY <2>1, SeedUpTo
<1>2. RecursiveSeed = CHOOSE h : h = SeedFunction(h, MaxRecursion + 16)
  BY DEF RecursiveSeed, SeedFunction, SeedLevel
<1> QED
  BY <1>1, <1>2

-----------------------------------------------------------------------------
(* A recursion over 0 .. n defines a function.                             *)
Recursion(h, n, base, step) ==
  h = [i \in 0 .. n |-> IF i = 0 THEN base ELSE step[i][h[i - 1]]]

LEMMA ByRecursion ==
  ASSUME NEW n \in Nat, NEW R, NEW base \in R, NEW step \in [0 .. n -> [R -> R]]
  PROVE  \E h \in [0 .. n -> R] : Recursion(h, n, base, step)
<1> USE DEF Recursion
<1> DEFINE Good(m, h) == Recursion(h, m, base, step)
           T == {m \in 0 .. n : ~ \E h \in [0 .. m -> R] : Good(m, h)}
<1> SUFFICES ASSUME T # {} PROVE FALSE
  BY n \in 0 .. n
<1>1. PICK m \in T : \A k \in T : m <= k
  <2>1. T \in SUBSET Nat
    OBVIOUS
  <2> QED
    BY <2>1, LeastElement
<1>2. CASE m = 0
  <2> DEFINE h == [i \in 0 .. 0 |-> base]
  <2>1. \A i \in 0 .. 0 : i = 0
    BY SMT
  <2>2. h \in [0 .. 0 -> R] /\ Good(0, h)
    BY <2>1
  <2> HIDE DEF h
  <2> QED
    BY <1>2, <2>2
<1>3. CASE m # 0
  <2> DEFINE k == m - 1
  <2>1. k \in 0 .. n /\ m = k + 1 /\ ~(m <= k)
    BY <1>3, SMT
  <2>2. PICK g \in [0 .. k -> R] : Good(k, g)
    BY <1>1, <2>1
  <2> DEFINE h == [i \in 0 .. m |-> IF i = m THEN step[m][g[k]] ELSE g[i]]
  <2>3. \A i \in 0 .. m : i \in 0 .. k \/ i = m
    BY <2>1, SMT
  <2>4. \A i \in 0 .. k : i # m /\ i \in 0 .. m /\ k \in 0 .. k
    BY <2>1, SMT
  <2>5. \A i \in 0 .. m : i # 0 => i - 1 \in 0 .. k
    BY <2>1, SMT
  <2>6. m \in 0 .. n
    OBVIOUS
  <2>7. h \in [0 .. m -> R]
    <3>1. k \in 0 .. k
      BY <2>1, SMT
    <3>2. step[m] \in [R -> R] /\ g[k] \in R
      BY <2>6, <3>1
    <3>3. step[m][g[k]] \in R
      BY <3>2
    <3>4. \A i \in 0 .. m : h[i] \in R
      BY <2>3, <3>3
    <3>5. h = [i \in 0 .. m |-> h[i]]
      OBVIOUS
    <3> HIDE DEF h
    <3> QED
      BY <3>4, <3>5
  <2>8. ASSUME NEW i \in 0 .. m
        PROVE  h[i] = IF i = 0 THEN base ELSE step[i][h[i - 1]]
    <3>1. CASE i = m
      <4>1. h[i - 1] = g[k]
        BY <1>3, <2>4, <2>5, <3>1
      <4> QED
        BY <1>3, <3>1, <4>1
    <3>2. CASE i # m
      <4>1. i \in 0 .. k
        BY <2>3, <3>2
      <4>2. h[i] = g[i] /\ (i # 0 => h[i - 1] = g[i - 1])
        BY <2>4, <2>5, <3>2, <4>1
      <4>3. g[i] = IF i = 0 THEN base ELSE step[i][g[i - 1]]
        BY <2>2, <4>1
      <4> HIDE DEF h
      <4> QED
        BY <4>2, <4>3
    <3> QED
      BY <3>1, <3>2
  <2>9. h = [i \in 0 .. m |-> h[i]]
    OBVIOUS
  <2> HIDE DEF h
  <2>10. Good(m, h)
    BY <2>8, <2>9
  <2> QED
    BY <2>7, <2>10
<1> QED
  BY <1>2, <1>3

LEMMA XorWord == ASSUME NEW a \in TWord, NEW b \in TWord PROVE Xor(a, b) \in TWord
  BY DEF Xor, TWord, Word

LEMMA AddWord == ASSUME NEW n, NEW a, NEW b PROVE Add(a, b, n) \in Word(n)
  BY DEF Add, Word

(* A product is cut to the width of a word.                                *)
LEMMA MulType == ASSUME NEW a, NEW b PROVE Mul32(a, b) \in TWord
BY DEF Mul32, Mul, TWord, Word

(* The recursive seed of a word is the word itself at depth 0 and a word   *)
(* at every other. *)
LEMMA SeedOfWord ==
  ASSUME NEW x \in TWord, NEW d \in 0 .. MaxRecursion + 16
  PROVE  RecursiveSeed[d][x] \in TWord /\ (d = 0 => RecursiveSeed[d][x] = x)
<1>1. RecursiveSeed[d] = SeedLevel(RecursiveSeed[d - 1], d)
  <2> DEFINE h == RecursiveSeed
  <2>1. h = SeedFunction(h, MaxRecursion + 16)
    BY SeedDefined
  <2> HIDE DEF h
  <2>2. h[d] = SeedLevel(h[d - 1], d)
    BY <2>1 DEF SeedFunction
  <2> QED
    BY <2>2 DEF h
<1>2. RecursiveSeed[d][x] =
        IF d = 0 THEN x
        ELSE Normalize(Xor(SeedRound(x, d), RecursiveSeed[d - 1][SeedRound(x, d)]))
  BY <1>1 DEF SeedLevel
<1> QED
  BY <1>2, NormalizeType

-----------------------------------------------------------------------------
(* The state is made of words. *)
StateType == state \in [Positions -> TWord] /\ depth \in Nat

LEMMA DiffuseType == ASSUME NEW st PROVE Diffuse(st) \in [Positions -> TWord]
<1>1. \A a, b, i : Diffused(a, b, i) \in TWord
  BY MixWordType DEF Diffused
<1> QED
  BY <1>1 DEF Diffuse

LEMMA StirredType == ASSUME NEW s PROVE Stirred(s) \in [Positions -> TWord]
  BY DiffuseType DEF Stirred

LEMMA StepType ==
  ASSUME NEW s, RecursiveVacuumStep(Gathered(Stirred(s)), s, depth) \in TWord
  PROVE  [Stirred(s) EXCEPT ![0] =
            Xor(@, RecursiveVacuumStep(Gathered(Stirred(s)), s, depth))] \in [Positions -> TWord]
<1> DEFINE st == Stirred(s)
           x == RecursiveVacuumStep(Gathered(st), s, depth)
<1>1. st \in [Positions -> TWord] /\ x \in TWord
  BY StirredType
<1> HIDE DEF st, x
<1>2. 0 \in Positions => Xor(st[0], x) \in TWord
  BY <1>1, XorWord
<1>3. [st EXCEPT ![0] = Xor(@, x)] \in [Positions -> TWord]
  BY <1>1, <1>2
<1> QED
  BY <1>3 DEF st, x

LEMMA TypeHolds == Spec => []StateType
<1>1. ASSUME Init PROVE StateType
  <2>1. PICK seed \in Seeds :
          /\ state = [i \in Positions |->
                        RecursiveSeed[(i % 16) + 1][Xor(seed, Mul32(W(i), Prime1))]]
          /\ depth = 0
    BY <1>1 DEF Init
  <2>2. ASSUME NEW i \in Positions
        PROVE  RecursiveSeed[(i % 16) + 1][Xor(seed, Mul32(W(i), Prime1))] \in TWord
    <3>1. (i % 16) + 1 \in 0 .. MaxRecursion + 16
      BY StateAssumption, SMT DEF StateAssumption, Positions
    <3>2. Xor(seed, Mul32(W(i), Prime1)) \in TWord
      BY MulType, XorWord, InputAssumption DEF InputAssumption
    <3> QED
      BY <3>1, <3>2, SeedOfWord
  <2> QED
    BY <2>1, <2>2 DEF StateType
<1>2. ASSUME StateType, [Next]_vars PROVE StateType'
  <2>1. CASE UNCHANGED vars
    BY <1>2, <2>1 DEF StateType, vars
  <2>2. CASE Next
    <3>1. PICK index \in Sources : Generate(Sample[index])
      BY <2>2 DEF Next
    <3> DEFINE s == Sample[index]
    <3>2. RecursiveVacuumStep(Gathered(Stirred(s)), s, depth) \in TWord
      BY NormalizeType DEF RecursiveVacuumStep
    <3>3. /\ state' = [Stirred(s) EXCEPT ![0] =
                         Xor(@, RecursiveVacuumStep(Gathered(Stirred(s)), s, depth))]
          /\ depth' = depth + 1
      BY <3>1 DEF Generate
    <3> HIDE DEF s
    <3>4. state' \in [Positions -> TWord]
      BY <3>2, <3>3, StepType
    <3>5. depth' \in Nat
      BY <1>2, <3>3 DEF StateType
    <3> QED
      BY <3>4, <3>5 DEF StateType
  <2> QED
    BY <1>2, <2>1, <2>2
<1> QED
  BY <1>1, <1>2, PTL DEF Spec

-----------------------------------------------------------------------------
(* The accumulator after a call of FullQuantumGeneration does not depend   *)
(* on the one before: InjectSample accumulates words that contain it, and  *)
(* it cancels.                                                             *)
THEOREM Forgets == Spec => AccumulatorForgets
<1>1. ASSUME NEW index \in Sources, Generate(Sample[index])
      PROVE  accumulator' =
               Accumulated(Accumulated({}, FuseVacuumSample(Sample[index])), lastWord')
  <2> DEFINE s == Sample[index]
             f == FuseVacuumSample(s)
  <2>1. accumulator' = Accumulated(Accumulated(accumulator, Xor(f, accumulator)), lastWord')
    BY <1>1 DEF Generate, Injected
  <2> HIDE DEF f
  <2>2. Xor(accumulator, Xor(f, accumulator)) = Xor({}, f)
    BY XorCommutes, XorCancels
  <2>3. Accumulated(accumulator, Xor(f, accumulator)) = Accumulated({}, f)
    BY <2>2 DEF Accumulated
  <2> QED
    BY <2>1, <2>3 DEF f
<1>2. [Next]_vars =>
        [\E index \in Sources :
           accumulator' = Accumulated(Accumulated({}, FuseVacuumSample(Sample[index])),
                                      lastWord')]_vars
  BY <1>1 DEF Next
<1> QED
  BY <1>2, PTL DEF Spec, AccumulatorForgets

-----------------------------------------------------------------------------
(* Rotations, by any amount, make words of words. *)
LEMMA TurnType == ASSUME NEW a \in TWord, NEW k \in Int PROVE RotL(a, k) \in TWord
<1>1. WordBits \in Nat \ {0} /\ a \in SUBSET (0 .. WordBits - 1)
  BY WordWidth
<1>2. \A j \in a : (j + k) % WordBits \in 0 .. WordBits - 1
  BY <1>1, SMT
<1> QED
  BY <1>2, WordWidth DEF RotL, RotateLeft

(* Undiffused takes back Diffused, given the neighbour it was made with.   *)
LEMMA WordUndone ==
  ASSUME NEW a \in TWord, NEW b \in TWord, NEW i \in Nat
  PROVE  Undiffused(Diffused(a, b, i), b, i) = a
<1> DEFINE r == RotL(b, i + 3)
           k == Xor(Prime1, W(i))
           c == Xor(a, r)
<1>1. WordBits \in Nat
  BY WordWidth
<1>2. r \in TWord
  <2>1. i + 3 \in Int
    BY SMT
  <2> QED
    BY <2>1, TurnType
<1>3. k \in SUBSET Nat
  BY WordWidth, PrimeAssumption DEF PrimeAssumption, Xor, W, Bits, TWord, Word
<1>4. c \in TWord
  BY <1>2, XorWord
<1> HIDE DEF r, k, c
<1>5. Sub32(Add32(c, k), k) = c
  BY <1>1, <1>3, <1>4, SubUndoesAdd DEF Sub32, Add32, TWord, Word
<1>6. Add32(c, k) \in TWord
  BY AddType
<1>7. MixWord(MixWord(MixWord(MixWord(Add32(c, k))))) = Add32(c, k)
  BY <1>6, FourMixesRestoreWord
<1>8. Undiffused(Diffused(a, b, i), b, i) = Xor(c, r)
  BY <1>5, <1>7 DEF Undiffused, Diffused, c, r, k
<1>9. Xor(Xor(a, r), r) = a
  BY XorCommutes, XorCancels
<1> QED
  BY <1>8, <1>9 DEF c

(* DiffuseQuantumState, in place, loses nothing of any state of words: the *)
(* recursion of Undiffuse, downwards, gives it back, since a highest word  *)
(* that it misses cannot be.                                               *)
THEOREM DiffusionIsReversible == Spec => []DiffusionReversible
<1>1. ASSUME StateType PROVE DiffusionReversible
  <2> DEFINE d == Diffuse(state)
             last == StateWords - 1
             Undo(u) == u = [i \in Positions |->
                               Undiffused(d[i], IF i = last THEN d[0] ELSE u[i + 1], i)]
             v == CHOOSE u : Undo(u)
  <2>1. /\ last \in Nat /\ last # 0 /\ 0 \in Positions /\ last \in Positions
        /\ 1 % StateWords = 1
        /\ \A i \in Positions : i \in Nat /\ i <= last /\ (i # last => i + 1 \in Positions)
    BY StateAssumption, SMT DEF StateAssumption, Positions
  <2>2. \A i \in Positions :
          d[i] = Diffused(state[i], IF i = last THEN d[0] ELSE state[i + 1], i)
    <3> DEFINE first == Diffused(state[0], state[1], 0)
    <3>1. d = [i \in Positions |->
                 IF i = 0 THEN first
                 ELSE Diffused(state[i], IF i = last THEN first ELSE state[i + 1], i)]
      BY <2>1 DEF Diffuse
    <3> HIDE DEF d, last, first
    <3>2. d[0] = first
      BY <2>1, <3>1
    <3>3. 0 # last /\ 0 + 1 = 1
      BY <2>1
    <3>4. first = Diffused(state[0], IF 0 = last THEN d[0] ELSE state[0 + 1], 0)
      BY <3>3 DEF first
    <3> QED
      BY <3>1, <3>2, <3>4
  <2>3. d \in [Positions -> TWord] /\ state \in [Positions -> TWord]
    BY <1>1, DiffuseType DEF StateType
  <2> HIDE DEF d, last
  <2>4. \A i \in Positions :
          Undiffused(d[i], IF i = last THEN d[0] ELSE state[i + 1], i) = state[i]
    BY <2>1, <2>2, <2>3, WordUndone
  <2>5. state = [i \in Positions |-> state[i]]
    BY <2>3
  <2>6. Undo(state)
    BY <2>4, <2>5
  <2>7. Undo(v)
    BY <2>6
  <2> HIDE DEF v
  <2>8. \A i \in Positions : v[i] = state[i]
    <3> DEFINE T == {k \in Nat : last - k \in Positions /\ v[last - k] # state[last - k]}
    <3>1. T = {}
      <4> SUFFICES ASSUME T # {} PROVE FALSE
        OBVIOUS
      <4>1. PICK k \in T : \A j \in T : k <= j
        BY LeastElement
      <4> DEFINE i == last - k
      <4>2. i \in Positions /\ v[i] # state[i] /\ k \in Nat
        OBVIOUS
      <4>3. v[i] = Undiffused(d[i], IF i = last THEN d[0] ELSE v[i + 1], i)
        BY <2>7, <4>2
      <4>4. state[i] = Undiffused(d[i], IF i = last THEN d[0] ELSE state[i + 1], i)
        BY <2>4, <4>2
      <4>5. i # last /\ v[i + 1] # state[i + 1]
        BY <4>2, <4>3, <4>4
      <4>6. k - 1 \in Nat /\ last - (k - 1) = i + 1 /\ i + 1 \in Positions /\ ~(k <= k - 1)
        BY <2>1, <4>2, <4>5, SMT
      <4> HIDE DEF i
      <4>7. k - 1 \in T
        BY <4>5, <4>6
      <4> QED
        BY <4>1, <4>6, <4>7
    <3>2. ASSUME NEW i \in Positions PROVE last - i \in Nat /\ last - (last - i) = i
      BY <2>1, SMT
    <3> QED
      BY <3>1, <3>2
  <2>9. v = [i \in Positions |-> v[i]]
    BY <2>7
  <2>10. v = state
    BY <2>5, <2>8, <2>9
  <2> QED
    BY <2>10 DEF DiffusionReversible, Undiffuse, v, d, last
<1> QED
  BY <1>1, TypeHolds, PTL

-----------------------------------------------------------------------------
LEMMA GatheredType ==
  ASSUME NEW st \in [Positions -> TWord], depth \in Nat
  PROVE  Gathered(st) \in TWord
<1> DEFINE n == StateWords - 1
           zero == st[0]
           turned == [i \in Positions |-> RotL(st[i], i + depth)]
           step == [i \in 0 .. n |-> [w \in TWord |-> Xor(w, turned[i])]]
           Gathers(h) == h = [i \in Positions |->
                                IF i = 0 THEN st[0]
                                ELSE Xor(h[i - 1], RotL(st[i], i + depth))]
           g == CHOOSE h : Gathers(h)
<1>1. /\ n \in Nat /\ Positions = 0 .. n /\ 0 \in Positions /\ n \in Positions
      /\ \A i \in Positions : i \in Nat /\ (i # 0 => i - 1 \in Positions /\ ~(i <= i - 1))
  BY StateAssumption, SMT DEF StateAssumption, Positions
<1>2. \A i \in Positions : i + depth \in Nat
  BY <1>1, SMT
<1>3. \A i \in Positions : turned[i] \in TWord
  <2>1. \A i \in Positions : i + depth \in Int
    BY <1>2, SMT
  <2> QED
    BY <2>1, TurnType
<1>4. zero \in TWord
  BY <1>1
<1> HIDE DEF n, turned, zero
<1>5. \A i \in Positions, w \in TWord : Xor(w, turned[i]) \in TWord
  BY <1>3, XorWord
<1>6. step \in [0 .. n -> [TWord -> TWord]]
  BY <1>1, <1>5
<1>7. PICK h \in [0 .. n -> TWord] : Recursion(h, n, zero, step)
  <2> HIDE DEF step
  <2> QED
    BY <1>1, <1>4, <1>6, ByRecursion
<1>8. h = [i \in Positions |-> IF i = 0 THEN zero ELSE Xor(h[i - 1], turned[i])]
  <2>1. \A i \in Positions : i # 0 => h[i - 1] \in TWord
    BY <1>1
  <2>2. \A i \in Positions : i # 0 => step[i][h[i - 1]] = Xor(h[i - 1], turned[i])
    BY <1>1, <2>1
  <2> HIDE DEF step
  <2>3. h = [i \in Positions |-> IF i = 0 THEN zero ELSE step[i][h[i - 1]]]
    BY <1>1, <1>7 DEF Recursion
  <2> QED
    BY <2>2, <2>3
<1>9. Gathers(h)
  BY <1>8 DEF turned, zero
<1>10. Gathers(g)
  BY <1>9
<1> HIDE DEF g
<1>11. g = [i \in Positions |-> IF i = 0 THEN zero ELSE Xor(g[i - 1], turned[i])]
  BY <1>10 DEF turned, zero
<1>12. \A i \in Positions : g[i] \in TWord
  <2> DEFINE T == {i \in Positions : g[i] \notin TWord}
  <2> SUFFICES ASSUME T # {} PROVE FALSE
    OBVIOUS
  <2>1. T \in SUBSET Nat
    BY <1>1
  <2>2. PICK i \in T : \A k \in T : i <= k
    BY <2>1, LeastElement
  <2>3. i # 0
    BY <1>1, <1>4, <1>11
  <2>4. g[i - 1] \in TWord
    BY <1>1, <2>2, <2>3
  <2>5. g[i] = Xor(g[i - 1], turned[i])
    BY <1>11, <2>3
  <2> QED
    BY <1>5, <2>4, <2>5
<1>13. Gathered(st) = g[n]
  BY DEF Gathered, g, n
<1> QED
  BY <1>1, <1>12, <1>13

(* Where RecursiveVacuumStep wraps the depth to 0, RecursiveSeed is the    *)
(* identity and the fused sample comes in twice and cancels, for every     *)
(* recursion limit.                                                        *)
THEOREM SampleIsCancelled == Spec => SampleCancels
<1>1. ASSUME StateType, depth % MaxRecursion = MaxRecursion - 1,
             NEW index \in Sources, Generate(Sample[index])
      PROVE  lastWord' = Normalize(Normalize(Gathered(Stirred(Sample[index]))))
  <2> DEFINE s == Sample[index]
             current == Gathered(Stirred(s))
             x == MixWord(MixSample(Xor(FuseVacuumSample(s), current), s))
  <2>1. lastWord' = Normalize(RecursiveVacuumStep(current, s, depth))
    BY <1>1 DEF Generate
  <2>2. current \in TWord
    BY <1>1, StirredType, GatheredType DEF StateType
  <2>3. x \in TWord
    BY MixWordType
  <2>4. RecursionDepth(depth) = 0 /\ 0 \in 0 .. MaxRecursion + 16
    <3>1. (MaxRecursion - 1) + 1 = MaxRecursion /\ MaxRecursion % MaxRecursion = 0
          /\ 0 \in 0 .. MaxRecursion + 16
      BY StateAssumption, SMT DEF StateAssumption
    <3> QED
      BY <1>1, <3>1 DEF RecursionDepth
  <2>5. RecursiveVacuumStep(current, s, depth) =
          Normalize(Xor(x, RecursiveSeed[RecursionDepth(depth)][Xor(x, current)]))
    BY DEF RecursiveVacuumStep
  <2> HIDE DEF x, current
  <2>6. RecursiveSeed[0][Xor(x, current)] = Xor(x, current)
    BY <2>2, <2>3, <2>4, XorWord, SeedOfWord
  <2>7. Xor(x, Xor(x, current)) = current
    BY XorCancels
  <2> QED
    BY <2>1, <2>4, <2>5, <2>6, <2>7 DEF current
<1>2. StateType /\ [Next]_vars =>
        [depth % MaxRecursion = MaxRecursion - 1 =>
           \E index \in Sources :
             lastWord' = Normalize(Normalize(Gathered(Stirred(Sample[index]))))]_vars
  BY <1>1 DEF Next
<1> QED
  BY <1>2, TypeHolds, PTL DEF Spec, SampleCancels

-----------------------------------------------------------------------------
(* Remainders. *)
LEMMA Remainder ==
  ASSUME NEW n \in Nat \ {0}, NEW q \in Int, NEW p \in Int,
         NEW r \in 0 .. n - 1, NEW s \in 0 .. n - 1, n * q + r = n * p + s
  PROVE  r = s
<1>1. n * (q - p) = s - r
  BY SMT
<1>2. CASE q = p
  BY <1>1, <1>2, SMT
<1>3. CASE q > p
  <2>1. n * (q - p) >= n
    BY <1>3, SMT
  <2> QED
    BY <1>1, <2>1, SMT
<1>4. CASE q < p
  <2>1. n * (q - p) <= -n
    BY <1>4, SMT
  <2> QED
    BY <1>1, <2>1, SMT
<1> QED
  BY <1>2, <1>3, <1>4, SMT

LEMMA Division ==
  ASSUME NEW n \in Nat \ {0}, NEW x \in Int
  PROVE  x = n * (x \div n) + (x % n) /\ x % n \in 0 .. n - 1 /\ x \div n \in Int
  BY SMT

LEMMA ModOf ==
  ASSUME NEW n \in Nat \ {0}, NEW q \in Int, NEW s \in 0 .. n - 1
  PROVE  (n * q + s) % n = s
<1> DEFINE z == n * q + s
<1>1. z \in Int
  BY SMT
<1>2. z = n * (z \div n) + (z % n) /\ z \div n \in Int /\ z % n \in 0 .. n - 1
  BY <1>1, Division
<1>3. z = n * q + s
  OBVIOUS
<1> HIDE DEF z
<1>4. z % n = s
  BY <1>2, <1>3, Remainder
<1> QED
  BY <1>4 DEF z

LEMMA ModAdd ==
  ASSUME NEW n \in Nat \ {0}, NEW x \in Int, NEW k \in Int
  PROVE  ((x % n) + k) % n = (x + k) % n
<1> DEFINE q == x \div n
           r == x % n
           y == r + k
           p == y \div n
           s == y % n
           z == x + k
<1>1. x = n * q + r /\ q \in Int /\ r \in Int
  BY SMT
<1>2. y = n * p + s /\ p \in Int /\ s \in 0 .. n - 1
  BY <1>1, SMT
<1>3. z = n * (q + p) + s
  BY <1>1, <1>2, SMT
<1> HIDE DEF q, r, y, p, s, z
<1>4. q + p \in Int
  BY <1>1, <1>2
<1>5. z % n = s
  BY <1>2, <1>3, <1>4, ModOf
<1> QED
  BY <1>5 DEF z, s, y, r

LEMMA ModOfPlace ==
  ASSUME NEW n \in Nat \ {0}, NEW i \in 0 .. n - 1
  PROVE  i % n = i /\ (i + n) % n = i /\ (i - n) % n = i
<1>1. n * 0 + i = i /\ n * 1 + i = i + n /\ n * (-1) + i = i - n
  BY SMT
<1>2. 0 \in Int /\ 1 \in Int /\ -1 \in Int
  BY SMT
<1>3. (n * 0 + i) % n = i /\ (n * 1 + i) % n = i /\ (n * (-1) + i) % n = i
  BY <1>2, ModOf
<1> QED
  BY <1>1, <1>3

(* Rotation, by any amount and in either direction. *)
LEMMA RotBit ==
  ASSUME NEW a \in TWord, NEW k \in Int, NEW i \in 0 .. WordBits - 1
  PROVE  i \in RotL(a, k) <=> (i - k) % WordBits \in a
<1> DEFINE n == WordBits
<1>1. n \in Nat \ {0} /\ a \in SUBSET (0 .. n - 1)
  BY WordWidth
<1>2. RotL(a, k) = {(j + k) % n : j \in a}
  BY DEF RotL, RotateLeft
<1> HIDE DEF n
<1>3. ASSUME i \in RotL(a, k) PROVE (i - k) % n \in a
  <2>1. PICK j \in a : i = (j + k) % n
    BY <1>2, <1>3
  <2>2. j \in 0 .. n - 1 /\ j \in Int /\ j + k \in Int /\ -k \in Int
        /\ ((j + k) % n) + (-k) = ((j + k) % n) - k /\ (j + k) + (-k) = j
    BY <1>1, SMT
  <2>3. (i - k) % n = j % n
    <3>1. (((j + k) % n) + (-k)) % n = ((j + k) + (-k)) % n
      BY <1>1, <2>2, ModAdd
    <3> QED
      BY <2>1, <2>2, <3>1, Zenon
  <2>4. j % n = j
    BY <1>1, <2>2, ModOfPlace
  <2>5. (i - k) % n = j
    BY <2>3, <2>4, Zenon
  <2> QED
    BY <2>5
<1>4. ASSUME (i - k) % n \in a PROVE i \in RotL(a, k)
  <2>1. i \in 0 .. n - 1 /\ i - k \in Int /\ (i - k) + k = i
    BY <1>1, SMT DEF n
  <2>2. (((i - k) % n) + k) % n = i % n
    BY <1>1, <2>1, ModAdd
  <2>3. i % n = i
    BY <1>1, <2>1, ModOfPlace
  <2> QED
    BY <1>2, <1>4, <2>2, <2>3
<1> QED
  BY <1>3, <1>4 DEF n

LEMMA SameWord ==
  ASSUME NEW a \in TWord, NEW b \in TWord, \A i \in 0 .. WordBits - 1 : i \in a <=> i \in b
  PROVE  a = b
  BY WordWidth

LEMMA TurnXor ==
  ASSUME NEW a \in TWord, NEW b \in TWord, NEW k \in Int
  PROVE  RotL(Xor(a, b), k) = Xor(RotL(a, k), RotL(b, k))
<1> DEFINE l == RotL(Xor(a, b), k)
           u == RotL(a, k)
           v == RotL(b, k)
<1>1. Xor(a, b) \in TWord
  BY XorWord
<1>2. \A i \in 0 .. WordBits - 1 :
        /\ i \in l <=> (i - k) % WordBits \in Xor(a, b)
        /\ i \in u <=> (i - k) % WordBits \in a
        /\ i \in v <=> (i - k) % WordBits \in b
  BY <1>1, RotBit
<1>3. l \in TWord /\ Xor(u, v) \in TWord
  BY <1>1, TurnType, XorWord
<1> HIDE DEF l, u, v
<1>4. \A i \in 0 .. WordBits - 1 : i \in l <=> i \in Xor(u, v)
  BY <1>2 DEF Xor
<1>5. l = Xor(u, v)
  BY <1>3, <1>4, SameWord
<1> QED
  BY <1>5 DEF l, u, v

LEMMA TurnTwice ==
  ASSUME NEW a \in TWord, NEW j \in Int, NEW k \in Int
  PROVE  RotL(RotL(a, j), k) = RotL(a, j + k)
<1> DEFINE n == WordBits
           b == RotL(a, j)
<1>1. n \in Nat \ {0} /\ j + k \in Int /\ b \in TWord
  BY WordWidth, TurnType, SMT
<1>2. ASSUME NEW i \in 0 .. WordBits - 1 PROVE i \in RotL(b, k) <=> i \in RotL(a, j + k)
  <2>1. i \in RotL(b, k) <=> (i - k) % WordBits \in b
    BY <1>1, RotBit
  <2>2. i - k \in Int /\ -j \in Int /\ (i - k) + (-j) = i - (j + k)
        /\ ((i - k) % n) + (-j) = ((i - k) % n) - j /\ (i - k) % n \in 0 .. n - 1
    BY <1>1, SMT
  <2>3. (i - k) % WordBits \in b <=> (((i - k) % WordBits) - j) % WordBits \in a
    BY <2>2, RotBit
  <2>4. (((i - k) % n) - j) % n = (i - (j + k)) % n
    <3>1. n \in Nat \ {0}
      BY <1>1
    <3> HIDE DEF n
    <3>2. (((i - k) % n) + (-j)) % n = ((i - k) + (-j)) % n
      BY <2>2, <3>1, ModAdd
    <3> QED
      BY <2>2, <3>2
  <2>5. i \in RotL(a, j + k) <=> (i - (j + k)) % WordBits \in a
    BY <1>1, RotBit
  <2> QED
    BY <2>1, <2>3, <2>4, <2>5
<1>3. RotL(b, k) \in TWord /\ RotL(a, j + k) \in TWord
  BY <1>1, TurnType
<1> QED
  BY <1>2, <1>3, SameWord

(* Half a turn. *)
LEMMA Half ==
  /\ HalfBits \in Nat \ {0} /\ HalfBits \in Int /\ -HalfBits \in Int
  /\ HalfBits + HalfBits = WordBits /\ (-HalfBits) + (-HalfBits) = -WordBits
<1>1. HalfBits = 2 * ByteBits
  BY WordWidth, SMT DEF HalfBits
<1> QED
  BY <1>1, WordWidth, SMT

LEMMA BackIsTurn == ASSUME NEW a \in TWord, NEW k \in Int PROVE RotR(a, k) = RotL(a, -k)
<1>1. \A i \in a : i - k = i + (-k)
  BY WordWidth, SMT
<1> QED
  BY <1>1 DEF RotL, RotR, RotateLeft, RotateRight

Turned(a) == RotL(a, -HalfBits)

LEMMA TurnedTwice == ASSUME NEW a \in TWord PROVE Turned(Turned(a)) = a
<1>1. Turned(Turned(a)) = RotL(a, -WordBits)
  BY Half, TurnTwice DEF Turned
<1>2. -WordBits \in Int /\ WordBits \in Nat \ {0}
  BY WordWidth, SMT
<1>3. ASSUME NEW i \in 0 .. WordBits - 1 PROVE i \in RotL(a, -WordBits) <=> i \in a
  <2>1. i \in RotL(a, -WordBits) <=> (i - (-WordBits)) % WordBits \in a
    BY <1>2, RotBit
  <2>2. i - (-WordBits) = i + WordBits
    BY <1>2, SMT
  <2> QED
    BY <1>2, <2>1, <2>2, ModOfPlace
<1> QED
  BY <1>1, <1>2, <1>3, TurnType, SameWord

(* A rotation has as many ones. *)
LEMMA WordFinite ==
  ASSUME NEW a \in TWord PROVE IsFiniteSet(a) /\ Cardinality(a) \in Nat
<1>1. 0 \in Int /\ WordBits - 1 \in Int
  BY WordWidth, SMT
<1>2. IsFiniteSet(0 .. WordBits - 1)
  BY <1>1, FS_Interval
<1> QED
  BY <1>2, WordWidth, FS_Subset, FS_CardinalityType

LEMMA TurnNotMore ==
  ASSUME NEW a \in TWord, NEW k \in Int PROVE Cardinality(RotL(a, k)) <= Cardinality(a)
<1> DEFINE b == RotL(a, k)
           f == [j \in a |-> (j + k) % WordBits]
<1>1. b = {(j + k) % WordBits : j \in a}
  BY DEF RotL, RotateLeft
<1>2. f \in Surjection(a, b)
  BY <1>1 DEF Surjection
<1> HIDE DEF f, b
<1>3. Cardinality(b) <= Cardinality(a)
  BY <1>2, WordFinite, FS_Surjection
<1> QED
  BY <1>3 DEF b

LEMMA TurnCardinality ==
  ASSUME NEW a \in TWord, NEW k \in Int PROVE Cardinality(RotL(a, k)) = Cardinality(a)
<1> DEFINE b == RotL(a, k)
<1>1. b \in TWord /\ -k \in Int /\ k + (-k) = 0 /\ 0 \in Int
  BY TurnType, SMT
<1>2. RotL(b, -k) = RotL(a, 0)
  BY <1>1, TurnTwice
<1>3. RotL(a, 0) = a
  <2>1. ASSUME NEW i \in 0 .. WordBits - 1 PROVE i \in RotL(a, 0) <=> i \in a
    <3>1. i \in RotL(a, 0) <=> (i - 0) % WordBits \in a
      BY <1>1, RotBit
    <3>2. i - 0 = i
      BY SMT
    <3> QED
      BY <3>1, <3>2, WordWidth, ModOfPlace
  <2> QED
    BY <1>1, <2>1, TurnType, SameWord
<1>4. Cardinality(b) <= Cardinality(a) /\ Cardinality(a) <= Cardinality(b)
  BY <1>1, <1>2, <1>3, TurnNotMore
<1>5. Cardinality(a) \in Nat /\ Cardinality(b) \in Nat
  BY <1>1, WordFinite
<1> HIDE DEF b
<1>6. Cardinality(b) = Cardinality(a)
  BY <1>4, <1>5, SMT
<1> QED
  BY <1>6 DEF b

(* A word that half a turn leaves alone has its ones twice. *)
LEMMA TiedIsEven ==
  ASSUME NEW z \in TWord, Turned(z) = z
  PROVE  \E p \in Nat : Cardinality(z) = 2 * p
<1> DEFINE n == WordBits
           h == HalfBits
           l == z \cap 0 .. h - 1
           r == RotL(l, h)
<1>1. n \in Nat \ {0} /\ h \in Nat \ {0} /\ n = h + h
  BY WordWidth, Half
<1>2. l \in TWord
  BY WordWidth
<1>3. r \in TWord
  BY <1>1, <1>2, TurnType
<1>4. ASSUME NEW i \in 0 .. n - 1 PROVE i \in r <=> i \in z \ l
  <2>1. i \in r <=> (i - h) % n \in l
    BY <1>1, <1>2, RotBit
  <2>2. i \in z <=> (i - (-h)) % n \in z
    BY <1>1, Half, RotBit DEF Turned
  <2> HIDE DEF n, h, r
  <2>3. i - (-h) = i + h
    BY <1>1, SMT
  <2>4. CASE i < h
    <3>1. i + h \in 0 .. n - 1 /\ i - h = (i + h) - n /\ i + h \notin 0 .. h - 1 /\ i \in 0 .. h - 1
      BY <1>1, <2>4, SMT
    <3>2. (i - h) % n = i + h
      BY <1>1, <3>1, ModOfPlace
    <3> QED
      BY <2>1, <3>1, <3>2
  <2>5. CASE ~(i < h)
    <3>1. i - h \in 0 .. h - 1 /\ i - h \in 0 .. n - 1 /\ i \notin 0 .. h - 1 /\ i + h = (i - h) + n
      BY <1>1, <2>5, SMT
    <3>2. (i - h) % n = i - h /\ (i + h) % n = i - h
      BY <1>1, <3>1, ModOfPlace
    <3> QED
      BY <2>1, <2>2, <2>3, <3>1, <3>2
  <2> QED
    BY <2>4, <2>5
<1>5. z \ l \in TWord
  BY WordWidth
<1>6. r = z \ l
  BY <1>3, <1>4, <1>5, SameWord
<1>7. Cardinality(r) = Cardinality(l)
  BY <1>1, <1>2, TurnCardinality
<1>8. Cardinality(z \ l) = Cardinality(z) - Cardinality(z \cap l)
  <2>1. IsFiniteSet(z)
    BY WordFinite
  <2> HIDE DEF l
  <2> QED
    BY <2>1, FS_Difference
<1>9. z \cap l = l
  OBVIOUS
<1>10. Cardinality(l) \in Nat /\ Cardinality(z) \in Nat
  BY <1>2, WordFinite
<1>11. Cardinality(l) = Cardinality(z) - Cardinality(l)
  BY <1>6, <1>7, <1>8, <1>9
<1> DEFINE p == Cardinality(l)
           c == Cardinality(z)
<1>12. p \in Nat /\ c \in Nat /\ p = c - p
  BY <1>10, <1>11
<1> HIDE DEF p, c
<1>13. c = 2 * p
  BY <1>12, SMT
<1> QED
  BY <1>12, <1>13 DEF c

(* Xoring a word with a rotation of itself keeps it tied, and makes the    *)
(* ones of each half even. *)
LEMMA FoldedIsTied ==
  ASSUME NEW x \in TWord, Turned(x) = x, NEW k \in Int
  PROVE  LET y == Xor(x, RotL(x, k)) IN Turned(y) = y /\ Cardinality(y) % 4 = 0
<1> DEFINE r == RotL(x, k)
           y == Xor(x, r)
           m == x \cap r
<1>1. r \in TWord /\ y \in TWord /\ m \in TWord
  BY TurnType, XorWord, WordWidth
<1>2. Turned(r) = r
  <2>1. k + (-HalfBits) = (-HalfBits) + k
    BY Half, SMT
  <2>2. Turned(r) = RotL(x, k + (-HalfBits)) /\ RotL(Turned(x), k) = RotL(x, (-HalfBits) + k)
    BY Half, TurnTwice DEF Turned
  <2> QED
    BY <2>1, <2>2
<1>3. Turned(y) = y
  BY <1>1, <1>2, Half, TurnXor DEF Turned
<1>4. Turned(m) = m
  <2>1. ASSUME NEW i \in 0 .. WordBits - 1 PROVE i \in Turned(m) <=> i \in m
    <3>1. /\ i \in Turned(m) <=> (i - (-HalfBits)) % WordBits \in m
          /\ i \in Turned(x) <=> (i - (-HalfBits)) % WordBits \in x
          /\ i \in Turned(r) <=> (i - (-HalfBits)) % WordBits \in r
      BY <1>1, Half, RotBit DEF Turned
    <3> HIDE DEF r
    <3> QED
      BY <1>2, <3>1
  <2>2. Turned(m) \in TWord
    BY <1>1, Half, TurnType DEF Turned
  <2> QED
    BY <1>1, <2>1, <2>2, SameWord
<1>5. PICK p \in Nat : Cardinality(x) = 2 * p
  BY TiedIsEven
<1>6. PICK q \in Nat : Cardinality(m) = 2 * q
  BY <1>1, <1>4, TiedIsEven
<1>7. Cardinality(r) = 2 * p
  BY <1>5, TurnCardinality
<1> HIDE DEF r
<1>8. Cardinality(x \cup r) = Cardinality(x) + Cardinality(r) - Cardinality(m)
      /\ IsFiniteSet(x \cup r)
  BY <1>1, WordFinite, FS_Union
<1>9. y = (x \cup r) \ m /\ (x \cup r) \cap m = m
  BY DEF Xor
<1> HIDE DEF y, m
<1>10. Cardinality(y) = Cardinality(x \cup r) - Cardinality(m)
  <2> DEFINE u == x \cup r
  <2>1. IsFiniteSet(u)
    BY <1>8
  <2> HIDE DEF u
  <2>2. Cardinality(u \ m) = Cardinality(u) - Cardinality(u \cap m)
    BY <2>1, FS_Difference
  <2> QED
    BY <1>9, <2>2 DEF u
<1>11. Cardinality(y) = 4 * (p - q)
  <2>1. Cardinality(y) = (2 * p + 2 * p - 2 * q) - 2 * q
    BY <1>5, <1>6, <1>7, <1>8, <1>10
  <2> QED
    BY <2>1, SMT
<1>12. Cardinality(y) % 4 = 0
  BY <1>11, SMT
<1> QED
  BY <1>3, <1>12 DEF y, r

LEMMA NormalizeTies == ASSUME NEW a \in TWord PROVE Tied(Normalize(a))
<1> DEFINE x == Xor(a, RotR(a, HalfBits))
           y == Xor(x, RotL(x, 7))
<1>1. RotR(a, HalfBits) = Turned(a) /\ Turned(a) \in TWord
  BY Half, BackIsTurn, TurnType DEF Turned
<1>2. x \in TWord
  BY <1>1, XorWord
<1>3. Turned(x) = Xor(Turned(a), Turned(Turned(a)))
  BY <1>1, Half, TurnXor DEF Turned
<1>4. Turned(x) = x
  BY <1>1, <1>3, TurnedTwice, XorCommutes
<1> HIDE DEF x
<1>5. 7 \in Int
  BY SMT
<1>6. Turned(y) = y /\ Cardinality(y) % 4 = 0
  BY <1>2, <1>4, <1>5, FoldedIsTied
<1>7. y \in TWord
  BY <1>2, <1>5, TurnType, XorWord
<1> HIDE DEF y
<1>8. Normalize(a) = Add32(y, Prime1)
  BY DEF Normalize, x, y
<1>9. Prime1 \in SUBSET Nat /\ y \in SUBSET (0 .. WordBits - 1) /\ WordBits \in Nat
  BY <1>7, WordWidth, PrimeAssumption DEF PrimeAssumption
<1>10. Sub32(Normalize(a), Prime1) = y
  BY <1>8, <1>9, SubUndoesAdd DEF Sub32, Add32
<1>11. RotR(y, HalfBits) = y
  BY <1>6, <1>7, Half, BackIsTurn DEF Turned
<1> QED
  BY <1>6, <1>10, <1>11 DEF Tied

LEMMA P3RoundType == ASSUME NEW x \in TWord, NEW d \in Nat PROVE P3Round(x, d) \in TWord
<1>1. Xor(MixWord(x), x) \in TWord
  BY MixWordType, XorWord
<1>2. (d % 31) + 1 \in Int
  BY SMT
<1> QED
  BY <1>1, <1>2, TurnType DEF P3Round

(* Of all words a generator gives out only those that normalisation can    *)
(* leave, whatever the seed, the samples and the number of calls.          *)
THEOREM NumbersAreTied == Spec => []NumbersTied
<1>1. Init => NumbersTied
  <2>1. Init => depth = 0
    BY DEF Init
  <2> QED
    BY <2>1, SMT DEF NumbersTied
<1>2. ASSUME StateType, StateType', NumbersTied, [Next]_vars PROVE NumbersTied'
  <2>1. CASE UNCHANGED vars
    BY <1>2, <2>1 DEF NumbersTied, Tied, vars
  <2>2. CASE Next
    <3>1. PICK index \in Sources : Generate(Sample[index])
      BY <2>2 DEF Next
    <3>2. \E a \in TWord : lastWord' = Normalize(a)
      <4>1. lastWord' = Normalize(RecursiveVacuumStep(Gathered(Stirred(Sample[index])), Sample[index], depth))
        BY <3>1 DEF Generate
      <4>2. \A c, s, d : RecursiveVacuumStep(c, s, d) \in TWord
        BY NormalizeType DEF RecursiveVacuumStep
      <4> QED
        BY <4>1, <4>2
    <3>3. \E a : raw' = Normalize(MixWord(a)) /\ final' = FinalQuantumNumber(raw')
      BY <3>1 DEF Generate
    <3>4. \E a \in TWord : raw' = Normalize(a)
      BY <3>3, MixWordType
    <3>5. raw' \in TWord
      BY <3>3, NormalizeType
    <3>6. 1 \in Nat /\ 2 \in Nat /\ 3 \in Nat /\ 4 \in Nat
      BY SMT
    <3>7. \E a \in TWord : final' = Normalize(a)
      BY <3>3, <3>5, <3>6, P3RoundType DEF FinalQuantumNumber
    <3> QED
      BY <3>2, <3>4, <3>7, NormalizeTies DEF NumbersTied, Tied
  <2> QED
    BY <1>2, <2>1, <2>2
<1> QED
  BY <1>1, <1>2, TypeHolds, PTL DEF Spec

-----------------------------------------------------------------------------
(* Shift and add stops adding after the last one of the factor.            *)
LEMMA XTimeType == ASSUME NEW a PROVE XTime(a) \in Octet
  BY ByteAssumption DEF ByteAssumption, XTime, Xor, ShiftLeft, Octet, Word

LEMMA GfMulByThree ==
  ASSUME NEW a \in Octet, NEW b \in SUBSET {0, 1}, 1 < ByteBits
  PROVE  GfMul(a, b) = Xor(IF 0 \in b THEN a ELSE {}, IF 1 \in b THEN XTime(a) ELSE {})
<1> DEFINE n == ByteBits
           R == [p : Octet, a : Octet]
           first == [p |-> {}, a |-> a]
           Added(s, i) == [p |-> IF i - 1 \in b THEN Xor(s.p, s.a) ELSE s.p, a |-> XTime(s.a)]
           step == [i \in 0 .. n |-> [s \in R |-> Added(s, i)]]
           Multiplies(h) ==
             h = [i \in 0 .. n |->
                    IF i = 0 THEN [p |-> {}, a |-> a]
                    ELSE LET s == h[i - 1]
                         IN [p |-> IF i - 1 \in b THEN Xor(s.p, s.a) ELSE s.p,
                             a |-> Xor(ShiftLeft(s.a, 1, ByteBits),
                                       IF ByteBits - 1 \in s.a THEN Reduction ELSE {})]]
           g == CHOOSE h : Multiplies(h)
<1>1. n \in Nat /\ 0 \in 0 .. n /\ 1 \in 0 .. n /\ 2 \in 0 .. n /\ n \in 0 .. n
      /\ 1 - 1 = 0 /\ 2 - 1 = 1 /\ 1 # 0 /\ 2 # 0 /\ 1 < n
  BY ByteAssumption, SMT DEF ByteAssumption
<1>2. first \in R
  BY DEF Octet, Word
<1>3. \A s \in R : \A i : Added(s, i) \in R
  <2> TAKE s \in R
  <2> TAKE i
  <2>1. s.p \in Octet /\ s.a \in Octet
    OBVIOUS
  <2>2. Xor(s.p, s.a) \in Octet /\ XTime(s.a) \in Octet
    BY <2>1, XorOctet, XTimeType
  <2> QED
    BY <2>1, <2>2
<1> HIDE DEF n, R, first
<1>4. \A h : Multiplies(h) <=>
               h = [i \in 0 .. n |-> IF i = 0 THEN first ELSE Added(h[i - 1], i)]
  BY DEF XTime, first
<1> HIDE DEF Added, Multiplies
<1>5. \E h : Multiplies(h)
  <2>1. step \in [0 .. n -> [R -> R]]
    BY <1>3
  <2>2. PICK h \in [0 .. n -> R] : Recursion(h, n, first, step)
    <3> HIDE DEF step
    <3> QED
      BY <1>1, <1>2, <2>1, ByRecursion
  <2>3. \A i \in 0 .. n : i # 0 => i - 1 \in 0 .. n
    BY <1>1, SMT
  <2>4. \A i \in 0 .. n : i # 0 => step[i][h[i - 1]] = Added(h[i - 1], i)
    BY <2>3
  <2> HIDE DEF step
  <2>5. h = [i \in 0 .. n |-> IF i = 0 THEN first ELSE Added(h[i - 1], i)]
    BY <2>2, <2>4 DEF Recursion
  <2> QED
    BY <1>4, <2>5
<1>6. Multiplies(g)
  BY <1>5
<1>7. GfMul(a, b) = g[n].p
  BY DEF GfMul, g, n, Multiplies
<1> HIDE DEF g
<1>8. /\ g[0] = first
      /\ \A i \in 0 .. n : i # 0 => g[i] = Added(g[i - 1], i)
  <2>1. g = [i \in 0 .. n |-> IF i = 0 THEN first ELSE Added(g[i - 1], i)]
    BY <1>4, <1>6
  <2> QED
    BY <1>1, <2>1
<1> DEFINE product == Xor(IF 0 \in b THEN a ELSE {}, IF 1 \in b THEN XTime(a) ELSE {})
<1>9. g[2].p = product
  <2>1. g[1] = Added(g[0], 1) /\ g[2] = Added(g[1], 2)
    BY <1>1, <1>8
  <2>2. g[1].p = (IF 0 \in b THEN Xor({}, a) ELSE {}) /\ g[1].a = XTime(a)
    BY <1>1, <1>8, <2>1 DEF Added, first
  <2>3. g[2].p = IF 1 \in b THEN Xor(g[1].p, g[1].a) ELSE g[1].p
    BY <1>1, <2>1 DEF Added
  <2> QED
    BY <2>2, <2>3, XorCancels
<1> HIDE DEF product
<1>10. \A i \in 0 .. n : i >= 2 => g[i].p = product
  <2> DEFINE T == {i \in 0 .. n : i >= 2 /\ g[i].p # product}
  <2> SUFFICES ASSUME T # {} PROVE FALSE
    OBVIOUS
  <2>1. T \in SUBSET Nat
    <3>1. \A i \in 0 .. n : i \in Nat
      BY <1>1, SMT
    <3> QED
      BY <3>1
  <2>2. PICK i \in T : \A k \in T : i <= k
    BY <2>1, LeastElement
  <2>3. i # 2
    BY <1>9
  <2>4. i - 1 \in 0 .. n /\ i - 1 >= 2 /\ ~(i <= i - 1) /\ i # 0 /\ i - 1 # 0 /\ i - 1 # 1
    BY <1>1, <2>3, SMT
  <2>5. g[i - 1].p = product
    BY <2>2, <2>4
  <2>6. i - 1 \notin b
    BY <2>4
  <2>7. g[i].p = g[i - 1].p
    <3>1. g[i] = Added(g[i - 1], i)
      BY <1>8, <2>4
    <3> HIDE DEF T
    <3>2. Added(g[i - 1], i).p = g[i - 1].p
      BY <2>6 DEF Added
    <3> QED
      BY <3>1, <3>2
  <2> QED
    BY <2>5, <2>7
<1>11. n >= 2
  BY <1>1, SMT
<1> QED
  BY <1>1, <1>7, <1>10, <1>11 DEF product

LEMMA SumTurns ==
  ASSUME NEW a, NEW b, NEW c, NEW d
  PROVE  Xor(Xor(a, b), Xor(c, d)) = Xor(Xor(b, c), Xor(d, a))
  BY SMT DEF Xor

LEMMA RowOfMatrix ==
  ASSUME NEW a, NEW b, NEW c, NEW d, NEW x, NEW y
  PROVE  Xor(Xor(a, Xor(Xor(a, b), Xor(c, d))), Xor(x, y))
           = Xor(Xor(x, Xor(b, y)), Xor(c, d))
  BY SMT DEF Xor

(* jxcl_mix32 and MixColumn are the matrix of FIPS 197 over the field in   *)
(* which jxcl_gf256_mul multiplies, for every word of the state, every     *)
(* width of bytes above one and every reduction polynomial.                *)
THEOREM MixIsTheMatrix == ASSUME 1 < ByteBits PROVE Spec => []MixIsMatrix
<1>1. MixIsMatrix
  <2> SUFFICES
        ASSUME NEW c \in Column,
               NEW product,
               product = [i \in 0 .. 3 |->
                            Xor(Xor(GfMul(c[i], {1}), GfMul(c[(i + 1) % 4], {0, 1})),
                                Xor(c[(i + 2) % 4], c[(i + 3) % 4]))]
        PROVE  MixColumn(c) = product
    BY ColumnOfType, CodesAgree DEF MixIsMatrix
  <2>1. \A i \in 0 .. 3 : i = 0 \/ i = 1 \/ i = 2 \/ i = 3
    BY SMT
  <2>2. /\ (0 + 1) % 4 = 1 /\ (0 + 2) % 4 = 2 /\ (0 + 3) % 4 = 3
        /\ (1 + 1) % 4 = 2 /\ (1 + 2) % 4 = 3 /\ (1 + 3) % 4 = 0
        /\ (2 + 1) % 4 = 3 /\ (2 + 2) % 4 = 0 /\ (2 + 3) % 4 = 1
        /\ (3 + 1) % 4 = 0 /\ (3 + 2) % 4 = 1 /\ (3 + 3) % 4 = 2
        /\ 0 \in 0 .. 3 /\ 1 \in 0 .. 3 /\ 2 \in 0 .. 3 /\ 3 \in 0 .. 3 /\ 0 # 1
    BY SMT
  <2>3. \A i \in 0 .. 3 : c[i] \in Octet
    BY DEF Column
  <2>4. \A a \in Octet : GfMul(a, {1}) = XTime(a) /\ GfMul(a, {0, 1}) = Xor(a, XTime(a))
    <3> TAKE a \in Octet
    <3>1. GfMul(a, {1}) = Xor(IF 0 \in {1} THEN a ELSE {}, IF 1 \in {1} THEN XTime(a) ELSE {})
      BY GfMulByThree
    <3>2. GfMul(a, {0, 1}) =
            Xor(IF 0 \in {0, 1} THEN a ELSE {}, IF 1 \in {0, 1} THEN XTime(a) ELSE {})
      BY GfMulByThree
    <3> QED
      BY <2>2, <3>1, <3>2, XorCancels
  <2> DEFINE x0 == XTime(c[0])  x1 == XTime(c[1])  x2 == XTime(c[2])  x3 == XTime(c[3])
             t == Xor(Xor(c[0], c[1]), Xor(c[2], c[3]))
  <2>5. /\ product[0] = Xor(Xor(x0, Xor(c[1], x1)), Xor(c[2], c[3]))
        /\ product[1] = Xor(Xor(x1, Xor(c[2], x2)), Xor(c[3], c[0]))
        /\ product[2] = Xor(Xor(x2, Xor(c[3], x3)), Xor(c[0], c[1]))
        /\ product[3] = Xor(Xor(x3, Xor(c[0], x0)), Xor(c[1], c[2]))
    BY <2>2, <2>3, <2>4
  <2>6. /\ MixColumn(c)[0] = Xor(Xor(c[0], t), Xor(x0, x1))
        /\ MixColumn(c)[1] = Xor(Xor(c[1], t), Xor(x1, x2))
        /\ MixColumn(c)[2] = Xor(Xor(c[2], t), Xor(x2, x3))
        /\ MixColumn(c)[3] = Xor(Xor(c[3], t), Xor(x3, x0))
        /\ MixColumn(c) = [i \in 0 .. 3 |-> MixColumn(c)[i]]
    BY MixRows
  <2> HIDE DEF x0, x1, x2, x3
  <2>7. /\ t = Xor(Xor(c[1], c[2]), Xor(c[3], c[0]))
        /\ t = Xor(Xor(c[2], c[3]), Xor(c[0], c[1]))
        /\ t = Xor(Xor(c[3], c[0]), Xor(c[1], c[2]))
    BY SumTurns
  <2>8. MixColumn(c)[0] = product[0]
    BY <2>5, <2>6, RowOfMatrix
  <2>9. MixColumn(c)[1] = product[1]
    <3>1. Xor(Xor(c[1], Xor(Xor(c[1], c[2]), Xor(c[3], c[0]))), Xor(x1, x2))
            = Xor(Xor(x1, Xor(c[2], x2)), Xor(c[3], c[0]))
      BY RowOfMatrix
    <3> HIDE DEF t
    <3> QED
      BY <2>5, <2>6, <2>7, <3>1
  <2>10. MixColumn(c)[2] = product[2]
    <3>1. Xor(Xor(c[2], Xor(Xor(c[2], c[3]), Xor(c[0], c[1]))), Xor(x2, x3))
            = Xor(Xor(x2, Xor(c[3], x3)), Xor(c[0], c[1]))
      BY RowOfMatrix
    <3> HIDE DEF t
    <3> QED
      BY <2>5, <2>6, <2>7, <3>1
  <2>11. MixColumn(c)[3] = product[3]
    <3>1. Xor(Xor(c[3], Xor(Xor(c[3], c[0]), Xor(c[1], c[2]))), Xor(x3, x0))
            = Xor(Xor(x3, Xor(c[0], x0)), Xor(c[1], c[2]))
      BY RowOfMatrix
    <3> HIDE DEF t
    <3> QED
      BY <2>5, <2>6, <2>7, <3>1
  <2>12. product = [i \in 0 .. 3 |-> product[i]]
    OBVIOUS
  <2>13. \A i \in 0 .. 3 : MixColumn(c)[i] = product[i]
    BY <2>1, <2>8, <2>9, <2>10, <2>11
  <2> QED
    BY <2>6, <2>12, <2>13
<1> QED
  BY <1>1, PTL

-----------------------------------------------------------------------------
(* The routines of jxcl_impl.h on the code's words, of eight bytes of      *)
(* eight bits: first the positions of a word and its shifts.               *)
LEMMA CodeWidth ==
  ASSUME ByteBits = 8
  PROVE  /\ FullBits = 64 /\ LongBits = 32 /\ AllOnes = 0 .. 63 /\ FullWord = SUBSET (0 .. 63)
         /\ \A v \in FullWord : v \in SUBSET Nat /\ IsFiniteSet(v)
<1>1. FullBits = 64 /\ LongBits = 32
  BY SMT DEF FullBits, LongBits
<1>2. AllOnes = 0 .. 63 /\ FullWord = SUBSET (0 .. 63)
  <2>1. 64 - 1 = 63
    BY SMT
  <2> QED
    BY <1>1, <2>1 DEF AllOnes, FullWord, Word
<1>3. IsFiniteSet(0 .. 63)
  BY 0 \in Int, 63 \in Int, FS_Interval
<1>4. \A v \in FullWord : v \in SUBSET Nat
  BY <1>2, 0 .. 63 \subseteq Nat
<1> QED
  BY <1>1, <1>2, <1>3, <1>4, FS_Subset

LEMMA RightShiftBit ==
  ASSUME NEW a \in SUBSET Nat, NEW k \in Nat, NEW i
  PROVE  i \in ShiftRight(a, k) <=> i \in Nat /\ i + k \in a
<1>1. ASSUME i \in ShiftRight(a, k) PROVE i \in Nat /\ i + k \in a
  <2>1. PICK j \in a : j >= k /\ i = j - k
    BY <1>1 DEF ShiftRight
  <2>2. j \in Nat /\ i \in Nat /\ i + k = j
    BY <2>1, SMT
  <2> QED
    BY <2>1, <2>2
<1>2. ASSUME i \in Nat, i + k \in a PROVE i \in ShiftRight(a, k)
  <2>1. i + k >= k /\ i = (i + k) - k
    BY <1>2, SMT
  <2> QED
    BY <1>2, <2>1 DEF ShiftRight
<1> QED
  BY <1>1, <1>2

LEMMA LeftShiftBit ==
  ASSUME NEW n, NEW k, NEW a, NEW i
  PROVE  i \in ShiftLeft(a, k, n) <=> i \in 0 .. n - 1 /\ i - k \in a
BY DEF ShiftLeft

(* The words that the shifts of a fold go through. *)
LEMMA XorShiftWords ==
  ASSUME NEW v \in SUBSET Nat, NEW ks \in Seq(Nat)
  PROVE  \E x : /\ x[0] = v
                /\ \A i \in 1 .. Len(ks) : x[i] = Xor(x[i - 1], ShiftRight(x[i - 1], ks[i]))
                /\ XorShifts(v, ks) = x[Len(ks)]
<1> DEFINE len == Len(ks)
           R == SUBSET Nat
           next(w, i) == Xor(w, ShiftRight(w, ks[i]))
           Body(x) == x = [i \in 0 .. len |-> IF i = 0 THEN v ELSE next(x[i - 1], i)]
           x == CHOOSE y : Body(y)
           step == [i \in 0 .. len |-> [w \in R |-> IF i = 0 THEN w ELSE next(w, i)]]
<1>1. len \in Nat /\ \A i \in 1 .. len : ks[i] \in Nat
  OBVIOUS
<1>2. ASSUME NEW w \in R, NEW i \in 1 .. len PROVE next(w, i) \in R
  <2>1. ShiftRight(w, ks[i]) \in R
    BY <1>1, RightShiftBit
  <2> QED
    BY <2>1 DEF Xor
<1> HIDE DEF next, len
<1>3. step \in [0 .. len -> [R -> R]]
  <2>1. ASSUME NEW i \in 0 .. len, NEW w \in R
        PROVE  (IF i = 0 THEN w ELSE next(w, i)) \in R
    <3>1. i = 0 \/ i \in 1 .. len
      BY <1>1, SMT
    <3> QED
      BY <1>2, <3>1
  <2> QED
    BY <2>1
<1>4. \A i \in 0 .. len, w \in R : step[i][w] = IF i = 0 THEN w ELSE next(w, i)
  OBVIOUS
<1> HIDE DEF step
<1>5. PICK h : h \in [0 .. len -> R] /\ Recursion(h, len, v, step)
  BY <1>1, <1>3, ByRecursion
<1>6. ASSUME NEW i \in 0 .. len, i # 0 PROVE step[i][h[i - 1]] = next(h[i - 1], i)
  <2>1. i - 1 \in 0 .. len
    BY <1>1, <1>6, SMT
  <2>2. h[i - 1] \in R
    BY <1>5, <2>1
  <2> QED
    BY <1>4, <1>6, <2>2
<1>7. h = [i \in 0 .. len |-> IF i = 0 THEN v ELSE step[i][h[i - 1]]]
  BY <1>5 DEF Recursion
<1>8. Body(h)
  BY <1>6, <1>7, Zenon
<1>9. Body(x)
  BY <1>8, Zenon
<1>10. XorShifts(v, ks) = x[len]
  BY DEF XorShifts, next, len
<1> HIDE DEF x
<1>11. x[0] = v /\ \A i \in 1 .. len : x[i] = next(x[i - 1], i)
  <2>1. \A i \in 0 .. len : x[i] = IF i = 0 THEN v ELSE next(x[i - 1], i)
    BY <1>9, Zenon
  <2>2. 0 \in 0 .. len /\ \A i \in 1 .. len : i \in 0 .. len /\ i # 0
    BY <1>1, SMT
  <2> QED
    BY <2>1, <2>2
<1> QED
  BY <1>10, <1>11 DEF next, len

-----------------------------------------------------------------------------
(* Folds.  After the shift by k, a bit is the parity of every k-th bit     *)
(* from its place on.                                                      *)
Comb(v, p, k) == {j \in v : j >= p /\ (j - p) % k = 0}
Strided(v, k) == {p \in 0 .. 63 : Cardinality(Comb(v, p, k)) % 2 = 1}

LEMMA CombSplits ==
  ASSUME NEW v \in SUBSET Nat, NEW p \in Nat, NEW k \in Nat \ {0}
  PROVE  /\ Comb(v, p, k) = Comb(v, p, 2 * k) \cup Comb(v, p + k, 2 * k)
         /\ Comb(v, p, 2 * k) \cap Comb(v, p + k, 2 * k) = {}
<1>1. 2 * k \in Nat \ {0} /\ k \in 0 .. 2 * k - 1
  BY SMT
<1>2. ASSUME NEW j \in Nat, j >= p, (j - p) % k = 0, ~((j - p) % (2 * k) = 0)
      PROVE  j >= p + k /\ (j - (p + k)) % (2 * k) = 0
  <2> DEFINE q == (j - p) \div k
             e == q \div 2
             d == q % 2
  <2>0. j - p \in Int
    BY <1>2, SMT
  <2>1. j - p = k * q + ((j - p) % k) /\ q \in Int
    BY <2>0, Division
  <2>2. j - p = k * q /\ k * q \in Int
    BY <1>2, <2>0, <2>1, SMT
  <2>3. q = 2 * e + d /\ e \in Int /\ d \in 0 .. 1
    BY <2>1, SMT
  <2> HIDE DEF q, e, d
  <2>4. CASE d = 0
    <3>1. k * q = (2 * k) * e + 0
      BY <2>3, <2>4, SMT
    <3>2. (j - p) % (2 * k) = 0
      <4>1. 0 \in 0 .. 2 * k - 1
        BY SMT
      <4> QED
        BY <1>1, <2>2, <2>3, <3>1, <4>1, ModOf
    <3> QED
      BY <1>2, <3>2
  <2>5. CASE d = 1
    <3>1. k * q = (2 * k) * e + k
      BY <2>3, <2>5, SMT
    <3>2. j - (p + k) = (2 * k) * e + 0
      BY <2>2, <3>1, <2>3, SMT
    <3>3. (j - (p + k)) % (2 * k) = 0
      <4>1. 0 \in 0 .. 2 * k - 1
        BY SMT
      <4> QED
        BY <1>1, <2>3, <3>2, <4>1, ModOf
    <3>4. e >= 0
      <4>1. CASE e <= -1
        <5>1. (2 * k) * e <= -(2 * k)
          BY <2>3, <4>1, SMT
        <5> DEFINE t == (2 * k) * e
        <5>2. t \in Int /\ t <= -(2 * k) /\ j - p = t + k
          BY <2>2, <2>3, <3>1, <5>1, SMT
        <5> HIDE DEF t
        <5> QED
          BY <1>2, <5>2, SMT
      <4> QED
        BY <2>3, <4>1, SMT
    <3>5. (2 * k) * e >= 0
      BY <2>3, <3>4, SMT
    <3> DEFINE t == (2 * k) * e
    <3>6. t \in Int /\ t >= 0 /\ j - (p + k) = t + 0
      BY <2>3, <3>2, <3>5, SMT
    <3> HIDE DEF t
    <3>7. j >= p + k
      BY <3>6, SMT
    <3> QED
      BY <3>3, <3>7
  <2> QED
    BY <2>3, <2>4, <2>5, SMT
<1>3. ASSUME NEW j \in Nat, NEW s \in {p, p + k}, (j - s) % (2 * k) = 0
      PROVE  (j - p) % k = 0
  <2> DEFINE q == (j - s) \div (2 * k)
  <2>0. j - s \in Int
    BY <1>3, SMT
  <2>1. j - s = (2 * k) * q + ((j - s) % (2 * k)) /\ q \in Int
    BY <1>1, <2>0, Division
  <2>2. j - s = (2 * k) * q
    BY <1>3, <2>1, <1>1, SMT
  <2> HIDE DEF q
  <2>3. \E m \in Int : j - p = k * m + 0
    <3>1. CASE s = p
      <4>1. (2 * k) * q = k * (2 * q) + 0 /\ 2 * q \in Int
        BY <2>1, SMT
      <4> QED
        BY <2>2, <3>1, <4>1, Zenon
    <3>2. CASE s = p + k
      <4>1. j - p = (2 * k) * q + k
        BY <2>2, <2>1, <3>2, SMT
      <4>2. (2 * k) * q + k = k * (2 * q + 1) + 0 /\ 2 * q + 1 \in Int
        BY <2>1, SMT
      <4> QED
        BY <4>1, <4>2, Zenon
    <3> QED
      BY <3>1, <3>2
  <2>4. 0 \in 0 .. k - 1
    BY SMT
  <2> QED
    BY <2>3, <2>4, ModOf
<1>4. ASSUME NEW j \in Nat, (j - p) % (2 * k) = 0, (j - (p + k)) % (2 * k) = 0 PROVE FALSE
  <2> DEFINE q == (j - p) \div (2 * k)
             r == (j - (p + k)) \div (2 * k)
  <2>0. j - p \in Int /\ j - (p + k) \in Int
    BY <1>4, SMT
  <2>1. j - p = (2 * k) * q + ((j - p) % (2 * k)) /\ q \in Int
    BY <1>1, <2>0, Division
  <2>2. j - (p + k) = (2 * k) * r + ((j - (p + k)) % (2 * k)) /\ r \in Int
    BY <1>1, <2>0, Division
  <2> HIDE DEF q, r
  <2>3. j - p = (2 * k) * q + 0 /\ j - p = (2 * k) * r + k
    BY <1>4, <2>1, <2>2, <1>1, SMT
  <2>4. 0 \in 0 .. 2 * k - 1 /\ (2 * k) * q + 0 = (2 * k) * r + k
    BY <2>3, SMT
  <2>5. 0 = k
    BY <1>1, <2>1, <2>2, <2>4, Remainder
  <2> QED
    BY <2>5
<1>5. \A j : j \in v => j \in Nat
  OBVIOUS
<1>6. \A j \in Nat : j >= p + k => j >= p
  BY SMT
<1>7. Comb(v, p, k) \subseteq Comb(v, p, 2 * k) \cup Comb(v, p + k, 2 * k)
  BY <1>2, <1>5 DEF Comb
<1>8. Comb(v, p, 2 * k) \cup Comb(v, p + k, 2 * k) \subseteq Comb(v, p, k)
  BY <1>3, <1>5, <1>6 DEF Comb
<1>9. Comb(v, p, 2 * k) \cap Comb(v, p + k, 2 * k) = {}
  BY <1>4, <1>5 DEF Comb
<1> QED
  BY <1>7, <1>8, <1>9

LEMMA StrideHalved ==
  ASSUME NEW v \in SUBSET (0 .. 63), NEW k \in Nat \ {0}
  PROVE  Xor(Strided(v, 2 * k), ShiftRight(Strided(v, 2 * k), k)) = Strided(v, k)
<1> DEFINE s == Strided(v, 2 * k)
<1>1. IsFiniteSet(v) /\ v \in SUBSET Nat /\ s \in SUBSET Nat
  <2>1. IsFiniteSet(0 .. 63)
    BY 0 \in Int, 63 \in Int, FS_Interval
  <2> QED
    BY <2>1, FS_Subset, 0 .. 63 \subseteq Nat DEF Strided
<1>2. \A p, m : IsFiniteSet(Comb(v, p, m)) /\ Cardinality(Comb(v, p, m)) \in Nat
  <2>1. \A p, m : Comb(v, p, m) \in SUBSET v
    BY DEF Comb
  <2> QED
    BY <1>1, <2>1, FS_Subset, FS_CardinalityType
<1>3. ASSUME NEW p \in 0 .. 63
      PROVE  p \in Strided(v, k) <=> ~(p \in s <=> p + k \in s)
  <2> DEFINE a == Cardinality(Comb(v, p, 2 * k))
             b == Cardinality(Comb(v, p + k, 2 * k))
             c == Cardinality(Comb(v, p, k))
  <2>1. c = a + b - 0
    <3>1. p \in Nat
      BY 0 .. 63 \subseteq Nat
    <3> DEFINE A == Comb(v, p, 2 * k)
               B == Comb(v, p + k, 2 * k)
    <3>2. Comb(v, p, k) = A \cup B /\ A \cap B = {}
      BY <1>1, <3>1, CombSplits
    <3>3. IsFiniteSet(A) /\ IsFiniteSet(B)
      BY <1>2
    <3> HIDE DEF A, B
    <3>4. Cardinality(A \cup B) = Cardinality(A) + Cardinality(B) - Cardinality(A \cap B)
      BY <3>3, FS_Union
    <3> QED
      BY <3>2, <3>4, FS_EmptySet DEF A, B
  <2>2. a \in Nat /\ b \in Nat
    BY <1>2
  <2>3. p + k \notin 0 .. 63 => b = 0
    <3> SUFFICES ASSUME p + k \notin 0 .. 63 PROVE Comb(v, p + k, 2 * k) = {}
      BY FS_EmptySet
    <3>1. \A j \in v : ~(j >= p + k)
      BY SMT
    <3> QED
      BY <3>1 DEF Comb
  <2>4. p \in s <=> a % 2 = 1
    BY DEF Strided
  <2>5. p + k \in s <=> p + k \in 0 .. 63 /\ b % 2 = 1
    BY DEF Strided
  <2>6. p \in Strided(v, k) <=> c % 2 = 1
    BY DEF Strided
  <2> HIDE DEF a, b, c, s
  <2>7. p + k \in s <=> b % 2 = 1
    BY <2>3, <2>5, SMT
  <2>8. c % 2 = 1 <=> ~(a % 2 = 1 <=> b % 2 = 1)
    BY <2>1, <2>2, SMT
  <2> QED
    BY <2>4, <2>6, <2>7, <2>8
<1>4. \A p : p \in Strided(v, k) => p \in 0 .. 63
  BY DEF Strided
<1>5. \A p : p \in s => p \in 0 .. 63
  BY DEF Strided
<1> HIDE DEF s
<1>6. \A p : p \in ShiftRight(s, k) <=> p \in Nat /\ p + k \in s
  BY <1>1, RightShiftBit
<1>7. \A p \in Nat : p + k \in s => p \in 0 .. 63
  <2> SUFFICES ASSUME NEW p \in Nat, p + k \in s PROVE p \in 0 .. 63
    OBVIOUS
  <2>1. p + k \in 0 .. 63
    BY <1>5
  <2> QED
    BY <2>1, SMT
<1>8. \A p \in 0 .. 63 : p \in Nat
  BY SMT
<1>9. \A p : p \in Xor(s, ShiftRight(s, k)) <=> p \in Strided(v, k)
  BY <1>3, <1>4, <1>5, <1>6, <1>7, <1>8 DEF Xor
<1> QED
  BY <1>9 DEF s

LEMMA StrideSteps ==
  ASSUME NEW v \in SUBSET (0 .. 63), NEW k \in {1, 2, 4, 8, 16, 32}, NEW x, x = Strided(v, 2 * k)
  PROVE  Xor(x, ShiftRight(x, k)) = Strided(v, k)
<1>1. k \in Nat \ {0}
  BY SMT
<1>2. Xor(Strided(v, 2 * k), ShiftRight(Strided(v, 2 * k), k)) = Strided(v, k)
  BY <1>1, StrideHalved
<1> QED
  BY <1>2

LEMMA StrideEnds ==
  ASSUME NEW v \in SUBSET (0 .. 63)
  PROVE  /\ Strided(v, 64) = v
         /\ Strided(v, 1) = {i \in 0 .. 63 : Cardinality({j \in v : j >= i}) % 2 = 1}
<1>1. ASSUME NEW p \in 0 .. 63 PROVE p \in Strided(v, 64) <=> p \in v
  <2>1. \A j \in v : j >= p /\ (j - p) % 64 = 0 <=> j = p
    BY SMT
  <2>2. Comb(v, p, 64) = IF p \in v THEN {p} ELSE {}
    BY <2>1 DEF Comb
  <2>3. 1 % 2 = 1 /\ 0 % 2 # 1
    BY SMT
  <2> QED
    BY <2>2, <2>3, FS_Singleton, FS_EmptySet, ZenonT(60) DEF Strided
<1>2. ASSUME NEW p \in 0 .. 63 PROVE Comb(v, p, 1) = {j \in v : j >= p}
  <2>1. \A j \in v : (j - p) % 1 = 0
    BY SMT
  <2> QED
    BY <2>1 DEF Comb
<1>3. Strided(v, 64) = v
  BY <1>1 DEF Strided
<1> QED
  BY <1>2, <1>3 DEF Strided

(* jxcl_fold64 decodes the Gray code, and jxcl_fold32 is the same on half  *)
(* a word: the first shift empties that.                                   *)
LEMMA FoldsExact == ASSUME ByteBits = 8, NEW v \in FullWord PROVE Folds(v)
<1>1. /\ AllOnes = 0 .. 63 /\ LongBits = 32 /\ v \in SUBSET (0 .. 63) /\ v \in SUBSET Nat
  BY CodeWidth
<1>2. /\ Halving \in Seq(Nat) /\ Len(Halving) = 6
      /\ Halving[1] = 32 /\ Halving[2] = 16 /\ Halving[3] = 8
      /\ Halving[4] = 4 /\ Halving[5] = 2 /\ Halving[6] = 1
  BY DEF Halving
<1>3. ASSUME NEW w \in SUBSET (0 .. 63) PROVE Folded(w) = Strided(w, 1)
  <2>1. w \in SUBSET Nat
    BY <1>3, 0 .. 63 \subseteq Nat
  <2>2. PICK x : /\ x[0] = w
                 /\ \A i \in 1 .. 6 : x[i] = Xor(x[i - 1], ShiftRight(x[i - 1], Halving[i]))
                 /\ XorShifts(w, Halving) = x[6]
    <3>1. \E x : /\ x[0] = w
                 /\ \A i \in 1 .. Len(Halving) : x[i] = Xor(x[i - 1], ShiftRight(x[i - 1], Halving[i]))
                 /\ XorShifts(w, Halving) = x[Len(Halving)]
      BY <1>2, <2>1, XorShiftWords
    <3> QED
      BY <1>2, <3>1, Zenon
  <2>3. /\ x[1] = Xor(x[0], ShiftRight(x[0], 32)) /\ x[2] = Xor(x[1], ShiftRight(x[1], 16))
        /\ x[3] = Xor(x[2], ShiftRight(x[2], 8)) /\ x[4] = Xor(x[3], ShiftRight(x[3], 4))
        /\ x[5] = Xor(x[4], ShiftRight(x[4], 2)) /\ x[6] = Xor(x[5], ShiftRight(x[5], 1))
    <3>1. /\ 1 \in 1 .. 6 /\ 2 \in 1 .. 6 /\ 3 \in 1 .. 6 /\ 4 \in 1 .. 6 /\ 5 \in 1 .. 6 /\ 6 \in 1 .. 6
          /\ 1 - 1 = 0 /\ 2 - 1 = 1 /\ 3 - 1 = 2 /\ 4 - 1 = 3 /\ 5 - 1 = 4 /\ 6 - 1 = 5
      BY SMT
    <3> QED
      BY <1>2, <2>2, <3>1, ZenonT(60)
  <2>4. x[0] = Strided(w, 64)
    BY <2>2, StrideEnds
  <2>5. x[1] = Strided(w, 32)
    <3>1. 2 * 32 = 64
      BY SMT
    <3>2. Xor(x[0], ShiftRight(x[0], 32)) = Strided(w, 32)
      BY <1>3, <2>4, <3>1, StrideSteps
    <3> QED
      BY <2>3, <3>2, Zenon
  <2>6. x[2] = Strided(w, 16)
    <3>1. 2 * 16 = 32
      BY SMT
    <3>2. Xor(x[1], ShiftRight(x[1], 16)) = Strided(w, 16)
      BY <1>3, <2>5, <3>1, StrideSteps
    <3> QED
      BY <2>3, <3>2, Zenon
  <2>7. x[3] = Strided(w, 8)
    <3>1. 2 * 8 = 16
      BY SMT
    <3>2. Xor(x[2], ShiftRight(x[2], 8)) = Strided(w, 8)
      BY <1>3, <2>6, <3>1, StrideSteps
    <3> QED
      BY <2>3, <3>2, Zenon
  <2>8. x[4] = Strided(w, 4)
    <3>1. 2 * 4 = 8
      BY SMT
    <3>2. Xor(x[3], ShiftRight(x[3], 4)) = Strided(w, 4)
      BY <1>3, <2>7, <3>1, StrideSteps
    <3> QED
      BY <2>3, <3>2, Zenon
  <2>9. x[5] = Strided(w, 2)
    <3>1. 2 * 2 = 4
      BY SMT
    <3>2. Xor(x[4], ShiftRight(x[4], 2)) = Strided(w, 2)
      BY <1>3, <2>8, <3>1, StrideSteps
    <3> QED
      BY <2>3, <3>2, Zenon
  <2>10. x[6] = Strided(w, 1)
    <3>1. 2 * 1 = 2
      BY SMT
    <3>2. Xor(x[5], ShiftRight(x[5], 1)) = Strided(w, 1)
      BY <1>3, <2>9, <3>1, StrideSteps
    <3> QED
      BY <2>3, <3>2, Zenon
  <2> QED
    BY <2>2, <2>10 DEF Folded
<1>4. Folded(v) = {i \in AllOnes : Cardinality({j \in v : j >= i}) % 2 = 1}
  BY <1>1, <1>3, StrideEnds
<1> DEFINE lo == Lo32(v)
<1>5. lo \in SUBSET (0 .. 31) /\ lo \in SUBSET (0 .. 63) /\ lo \in SUBSET Nat
  <2>1. 32 - 1 = 31
    BY SMT
  <2> QED
    BY <1>1, <2>1 DEF Lo32
<1>6. Fold32(lo) = Folded(lo)
  <2>1. /\ Tail(Halving) \in Seq(Nat) /\ Len(Tail(Halving)) = 5
        /\ Tail(Halving)[1] = 16 /\ Tail(Halving)[2] = 8 /\ Tail(Halving)[3] = 4
        /\ Tail(Halving)[4] = 2 /\ Tail(Halving)[5] = 1
    BY DEF Halving
  <2> HIDE DEF lo
  <2>2. PICK x : /\ x[0] = lo
                 /\ \A i \in 1 .. 5 : x[i] = Xor(x[i - 1], ShiftRight(x[i - 1], Tail(Halving)[i]))
                 /\ XorShifts(lo, Tail(Halving)) = x[5]
    <3>1. \E x : /\ x[0] = lo
                 /\ \A i \in 1 .. Len(Tail(Halving)) :
                      x[i] = Xor(x[i - 1], ShiftRight(x[i - 1], Tail(Halving)[i]))
                 /\ XorShifts(lo, Tail(Halving)) = x[Len(Tail(Halving))]
      BY <1>5, <2>1, XorShiftWords
    <3> QED
      BY <2>1, <3>1, Zenon
  <2>3. /\ x[1] = Xor(x[0], ShiftRight(x[0], 16)) /\ x[2] = Xor(x[1], ShiftRight(x[1], 8))
        /\ x[3] = Xor(x[2], ShiftRight(x[2], 4)) /\ x[4] = Xor(x[3], ShiftRight(x[3], 2))
        /\ x[5] = Xor(x[4], ShiftRight(x[4], 1))
    <3>1. /\ 1 \in 1 .. 5 /\ 2 \in 1 .. 5 /\ 3 \in 1 .. 5 /\ 4 \in 1 .. 5 /\ 5 \in 1 .. 5
          /\ 1 - 1 = 0 /\ 2 - 1 = 1 /\ 3 - 1 = 2 /\ 4 - 1 = 3 /\ 5 - 1 = 4
      BY SMT
    <3> QED
      BY <2>1, <2>2, <3>1, Zenon
  <2>4. x[0] = Strided(lo, 32)
    <3>1. ShiftRight(lo, 32) = {}
      <4>1. \A i \in Nat : i + 32 \notin 0 .. 31
        BY SMT
      <4> QED
        BY <1>5, <4>1, RightShiftBit
    <3>2. lo = Strided(lo, 64)
      BY <1>5, StrideEnds
    <3>3. Xor(lo, ShiftRight(lo, 32)) = Strided(lo, 32)
      <4>1. 2 * 32 = 64
        BY SMT
      <4> QED
        BY <1>5, <3>2, <4>1, StrideSteps
    <3> QED
      BY <2>2, <3>1, <3>3, XorCancels
  <2>6. x[1] = Strided(lo, 16)
    <3>1. 2 * 16 = 32
      BY SMT
    <3>2. Xor(x[0], ShiftRight(x[0], 16)) = Strided(lo, 16)
      BY <1>5, <2>4, <3>1, StrideSteps
    <3> QED
      BY <2>3, <3>2, Zenon
  <2>7. x[2] = Strided(lo, 8)
    <3>1. 2 * 8 = 16
      BY SMT
    <3>2. Xor(x[1], ShiftRight(x[1], 8)) = Strided(lo, 8)
      BY <1>5, <2>6, <3>1, StrideSteps
    <3> QED
      BY <2>3, <3>2, Zenon
  <2>8. x[3] = Strided(lo, 4)
    <3>1. 2 * 4 = 8
      BY SMT
    <3>2. Xor(x[2], ShiftRight(x[2], 4)) = Strided(lo, 4)
      BY <1>5, <2>7, <3>1, StrideSteps
    <3> QED
      BY <2>3, <3>2, Zenon
  <2>9. x[4] = Strided(lo, 2)
    <3>1. 2 * 2 = 4
      BY SMT
    <3>2. Xor(x[3], ShiftRight(x[3], 2)) = Strided(lo, 2)
      BY <1>5, <2>8, <3>1, StrideSteps
    <3> QED
      BY <2>3, <3>2, Zenon
  <2>10. x[5] = Strided(lo, 1)
    <3>1. 2 * 1 = 2
      BY SMT
    <3>2. Xor(x[4], ShiftRight(x[4], 1)) = Strided(lo, 1)
      BY <1>5, <2>9, <3>1, StrideSteps
    <3> QED
      BY <2>3, <3>2, Zenon
  <2> QED
    BY <1>3, <1>5, <2>2, <2>10 DEF Fold32
<1> QED
  BY <1>4, <1>6 DEF Folds

-----------------------------------------------------------------------------
(* What moves bits.  The code's rotation is the one that renames places,   *)
(* for every width and amount.                                             *)
LEMMA Wrapped ==
  ASSUME NEW n \in Nat \ {0}, NEW s \in Nat, NEW i \in 0 .. n - 1
  PROVE  /\ (i + s) % n = IF i + (s % n) < n THEN i + (s % n) ELSE i + (s % n) - n
         /\ (i - s) % n = IF i >= s % n THEN i - (s % n) ELSE i - (s % n) + n
<1> DEFINE k == s % n
           q == s \div n
<1>1. s = n * q + k /\ k \in 0 .. n - 1 /\ q \in Int
  BY Division
<1>2. n * (q + 1) = n * q + n /\ n * (-q) = -(n * q) /\ n * (-q - 1) = -(n * q) - n /\ n * q \in Int
  BY <1>1, SMT
<1>3. q + 1 \in Int /\ -q \in Int /\ -q - 1 \in Int
  BY <1>1, SMT
<1> HIDE DEF k, q
<1>4. (i + s) % n = IF i + k < n THEN i + k ELSE i + k - n
  <2>1. CASE i + k < n
    <3>1. i + s = n * q + (i + k) /\ i + k \in 0 .. n - 1
      BY <1>1, <1>2, <2>1, SMT
    <3>2. (n * q + (i + k)) % n = i + k
      BY <1>1, <3>1, ModOf
    <3> QED
      BY <2>1, <3>1, <3>2, Zenon
  <2>2. CASE ~(i + k < n)
    <3>1. i + s = n * (q + 1) + (i + k - n) /\ i + k - n \in 0 .. n - 1
      BY <1>1, <1>2, <2>2, SMT
    <3>2. (n * (q + 1) + (i + k - n)) % n = i + k - n
      BY <1>3, <3>1, ModOf
    <3> QED
      BY <2>2, <3>1, <3>2, Zenon
  <2> QED
    BY <2>1, <2>2
<1>5. (i - s) % n = IF i >= k THEN i - k ELSE i - k + n
  <2>1. CASE i >= k
    <3>1. i - s = n * (-q) + (i - k) /\ i - k \in 0 .. n - 1
      BY <1>1, <1>2, <2>1, SMT
    <3>2. (n * (-q) + (i - k)) % n = i - k
      BY <1>3, <3>1, ModOf
    <3> QED
      BY <2>1, <3>1, <3>2, Zenon
  <2>2. CASE ~(i >= k)
    <3>1. i - s = n * (-q - 1) + (i - k + n) /\ i - k + n \in 0 .. n - 1
      BY <1>1, <1>2, <2>2, SMT
    <3>2. (n * (-q - 1) + (i - k + n)) % n = i - k + n
      BY <1>3, <3>1, ModOf
    <3> QED
      BY <2>2, <3>1, <3>2, Zenon
  <2> QED
    BY <2>1, <2>2
<1> QED
  BY <1>4, <1>5 DEF k

LEMMA RotationsExact ==
  ASSUME NEW n \in Nat \ {0}, NEW s \in Nat, NEW a \in SUBSET (0 .. n - 1)
  PROVE  Rol(a, s, n) = RotateLeft(a, s, n) /\ Ror(a, s, n) = RotateRight(a, s, n)
<1> DEFINE k == s % n
<1>1. k \in 0 .. n - 1
  BY Division
<1>2. a \in SUBSET Nat /\ \A i \in a : i \in 0 .. n - 1 /\ i \in Int
  BY 0 .. n - 1 \subseteq Nat
<1>3. /\ \A i \in a : (i + s) % n = IF i + k < n THEN i + k ELSE i + k - n
      /\ \A i \in a : (i - s) % n = IF i >= k THEN i - k ELSE i - k + n
  BY <1>2, Wrapped
<1>4. /\ Rol(a, s, n) = IF k # 0 THEN ShiftLeft(a, k, n) \cup ShiftRight(a, n - k) ELSE a
      /\ Ror(a, s, n) = IF k # 0 THEN ShiftRight(a, k) \cup ShiftLeft(a, n - k, n) ELSE a
  BY DEF Rol, Ror
<1>5. n - k \in Nat /\ k \in Nat
  BY <1>1, SMT
<1>6. /\ \A x : x \in ShiftLeft(a, k, n) <=> x \in 0 .. n - 1 /\ x - k \in a
      /\ \A x : x \in ShiftLeft(a, n - k, n) <=> x \in 0 .. n - 1 /\ x - (n - k) \in a
      /\ \A x : x \in ShiftRight(a, k) <=> x \in Nat /\ x + k \in a
      /\ \A x : x \in ShiftRight(a, n - k) <=> x \in Nat /\ x + (n - k) \in a
  BY <1>2, <1>5, LeftShiftBit, RightShiftBit
<1>7. /\ \A x : x \in RotateLeft(a, s, n) <=> \E i \in a : x = (i + s) % n
      /\ \A x : x \in RotateRight(a, s, n) <=> \E i \in a : x = (i - s) % n
  BY DEF RotateLeft, RotateRight
<1> HIDE DEF k
<1>8. ASSUME k = 0 PROVE RotateLeft(a, s, n) = a /\ RotateRight(a, s, n) = a
  <2>1. \A i \in a : (i + s) % n = i /\ (i - s) % n = i
    BY <1>2, <1>3, <1>8, SMT
  <2>2. \A x : (\E i \in a : x = (i + s) % n) <=> x \in a
    BY <2>1, Zenon
  <2>3. \A x : (\E i \in a : x = (i - s) % n) <=> x \in a
    BY <2>1, Zenon
  <2>4. \A x : (x \in RotateLeft(a, s, n) <=> x \in a) /\ (x \in RotateRight(a, s, n) <=> x \in a)
    BY <1>7, <2>2, <2>3, Zenon
  <2> QED
    BY <2>4
<1>9. ASSUME k # 0, NEW x
      PROVE  x \in RotateLeft(a, s, n) <=> x \in ShiftLeft(a, k, n) \/ x \in ShiftRight(a, n - k)
  <2>1. ASSUME NEW i \in a, x = (i + s) % n
        PROVE  x \in ShiftLeft(a, k, n) \/ x \in ShiftRight(a, n - k)
    <3>1. CASE i + k < n
      <4>1. x = i + k
        BY <1>3, <2>1, <3>1
      <4>2. x \in 0 .. n - 1 /\ x - k = i
        BY <1>1, <1>2, <3>1, <4>1, SMT
      <4> QED
        BY <1>6, <4>2
    <3>2. CASE ~(i + k < n)
      <4>1. x = i + k - n
        BY <1>3, <2>1, <3>2
      <4>2. x \in Nat /\ x + (n - k) = i
        BY <1>1, <1>2, <3>2, <4>1, SMT
      <4> QED
        BY <1>6, <4>2
    <3> QED
      BY <3>1, <3>2
  <2>2. ASSUME x \in ShiftLeft(a, k, n) PROVE \E i \in a : x = (i + s) % n
    <3> DEFINE i == x - k
    <3>1. x \in 0 .. n - 1 /\ i \in a
      BY <1>6, <2>2
    <3>2. i + k < n /\ i + k = x
      BY <1>1, <3>1, SMT
    <3> HIDE DEF i
    <3> QED
      BY <1>3, <3>1, <3>2
  <2>3. ASSUME x \in ShiftRight(a, n - k) PROVE \E i \in a : x = (i + s) % n
    <3> DEFINE i == x + (n - k)
    <3>1. x \in Nat /\ i \in a
      BY <1>6, <2>3
    <3>2. ~(i + k < n) /\ i + k - n = x
      BY <1>1, <3>1, SMT
    <3> HIDE DEF i
    <3> QED
      BY <1>3, <3>1, <3>2
  <2> QED
    BY <1>7, <2>1, <2>2, <2>3
<1>10. ASSUME k # 0, NEW x
       PROVE  x \in RotateRight(a, s, n) <=> x \in ShiftRight(a, k) \/ x \in ShiftLeft(a, n - k, n)
  <2>1. ASSUME NEW i \in a, x = (i - s) % n
        PROVE  x \in ShiftRight(a, k) \/ x \in ShiftLeft(a, n - k, n)
    <3>1. CASE i >= k
      <4>1. x = i - k
        BY <1>3, <2>1, <3>1
      <4>2. x \in Nat /\ x + k = i
        BY <1>1, <1>2, <3>1, <4>1, SMT
      <4> QED
        BY <1>6, <4>2
    <3>2. CASE ~(i >= k)
      <4>1. x = i - k + n
        BY <1>3, <2>1, <3>2
      <4>2. x \in 0 .. n - 1 /\ x - (n - k) = i
        BY <1>1, <1>2, <3>2, <4>1, SMT
      <4> QED
        BY <1>6, <4>2
    <3> QED
      BY <3>1, <3>2
  <2>2. ASSUME x \in ShiftRight(a, k) PROVE \E i \in a : x = (i - s) % n
    <3> DEFINE i == x + k
    <3>1. x \in Nat /\ i \in a
      BY <1>6, <2>2
    <3>2. i >= k /\ i - k = x
      BY <1>1, <3>1, SMT
    <3> HIDE DEF i
    <3> QED
      BY <1>3, <3>1, <3>2
  <2>3. ASSUME x \in ShiftLeft(a, n - k, n) PROVE \E i \in a : x = (i - s) % n
    <3> DEFINE i == x - (n - k)
    <3>1. x \in 0 .. n - 1 /\ i \in a
      BY <1>6, <2>3
    <3>2. ~(i >= k) /\ i - k + n = x
      BY <1>1, <3>1, SMT
    <3> HIDE DEF i
    <3> QED
      BY <1>3, <3>1, <3>2
  <2> QED
    BY <1>7, <2>1, <2>2, <2>3
<1> QED
  BY <1>4, <1>8, <1>9, <1>10

LEMMA TurnedBack ==
  ASSUME NEW n \in Nat \ {0}, NEW s \in Nat, NEW a \in SUBSET (0 .. n - 1)
  PROVE  Rol(Ror(a, s, n), s, n) = a
<1> DEFINE r == RotateRight(a, s, n)
<1>1. \A i \in a : i \in Int /\ i % n = i /\ (i - s) % n \in 0 .. n - 1
  <2> SUFFICES ASSUME NEW i \in a PROVE i \in Int /\ i % n = i /\ (i - s) % n \in 0 .. n - 1
    OBVIOUS
  <2>1. i \in 0 .. n - 1 /\ i \in Int /\ i - s \in Int
    BY SMT
  <2> QED
    BY <2>1, ModOfPlace, Division
<1>2. \A i \in a : (((i - s) % n) + s) % n = i
  <2> SUFFICES ASSUME NEW i \in a PROVE (((i - s) % n) + s) % n = i
    OBVIOUS
  <2>1. i - s \in Int /\ s \in Int /\ (i - s) + s = i
    BY <1>1, SMT
  <2>2. (((i - s) % n) + s) % n = ((i - s) + s) % n
    BY <2>1, ModAdd
  <2> QED
    BY <1>1, <2>1, <2>2
<1>3. r \in SUBSET (0 .. n - 1)
  BY <1>1 DEF RotateRight
<1>4. RotateLeft(r, s, n) = a
  <2>1. \A x : x \in RotateLeft(r, s, n) <=> \E i \in a : x = (((i - s) % n) + s) % n
    BY DEF RotateLeft, RotateRight
  <2>2. \A x : (\E i \in a : x = (((i - s) % n) + s) % n) <=> x \in a
    BY <1>2, Zenon
  <2>3. \A x : x \in RotateLeft(r, s, n) <=> x \in a
    BY <2>1, <2>2, Zenon
  <2> QED
    BY <2>3
<1> HIDE DEF r
<1>5. Rol(r, s, n) = RotateLeft(r, s, n)
  BY <1>3, RotationsExact
<1>6. Ror(a, s, n) = r
  BY RotationsExact DEF r
<1> QED
  BY <1>4, <1>5, <1>6

(* One less than a single bit is all the bits below it. *)
LEMMA OnesBelow ==
  ASSUME NEW n \in Nat, NEW m \in 1 .. n - 1
  PROVE  Sub({m}, {0}, n) = 0 .. m - 1
<1> DEFINE c == (0 .. n - 1) \ {m}
           d == Carries(c, {0}, n)
<1>1. ASSUME NEW i \in 0 .. n - 1 PROVE i \in d <=> i \in 1 .. m
  <2>1. 0 \in c
    BY SMT
  <2>2. i \in d <=> i \in 1 .. n - 1 /\ \E j \in c \cap {0} : j < i /\ (j + 1) .. (i - 1) \subseteq c \cup {0}
    BY DEF Carries
  <2>3. i \in d <=> i \in 1 .. n - 1 /\ 0 < i /\ (0 + 1) .. (i - 1) \subseteq c \cup {0}
    BY <2>1, <2>2
  <2>4. ASSUME i \in 1 .. m PROVE i \in d
    <3>1. \A j \in (0 + 1) .. (i - 1) : j \in 0 .. n - 1 /\ j # m
      BY <2>4, SMT
    <3>2. i \in 1 .. n - 1 /\ 0 < i
      BY <2>4, SMT
    <3> QED
      BY <2>3, <3>1, <3>2
  <2>5. ASSUME i \in d PROVE i \in 1 .. m
    <3>1. i \in 1 .. n - 1 /\ (0 + 1) .. (i - 1) \subseteq c \cup {0}
      BY <2>3, <2>5
    <3>2. m \notin c \cup {0}
      BY SMT
    <3>3. m \notin (0 + 1) .. (i - 1)
      BY <3>1, <3>2
    <3> QED
      BY <3>1, <3>3, SMT
  <2> QED
    BY <2>4, <2>5
<1>2. ASSUME NEW i \in 0 .. n - 1 PROVE i \in Add(c, {0}, n) <=> i >= m
  <2>1. i \in Add(c, {0}, n) <=> IF i \in d THEN i \in c <=> i \in {0} ELSE ~(i \in c <=> i \in {0})
    BY AddBits
  <2>2. i \in c <=> i # m
    OBVIOUS
  <2>3. i \in d <=> 1 <= i /\ i <= m
    <3>1. i \in 1 .. m <=> 1 <= i /\ i <= m
      BY SMT
    <3> QED
      BY <1>1, <3>1, Zenon
  <2> HIDE DEF c, d
  <2> QED
    BY <2>1, <2>2, <2>3, SMT
<1>3. \A i : i \in Sub({m}, {0}, n) <=> i \in 0 .. n - 1 /\ i \notin Add(c, {0}, n)
  BY DEF Sub
<1> HIDE DEF c
<1>4. \A i : i \in 0 .. m - 1 <=> i \in 0 .. n - 1 /\ ~(i >= m)
  BY SMT
<1> QED
  BY <1>2, <1>3, <1>4

LEMMA SwapExact ==
  ASSUME ByteBits = 8, NEW v \in FullWord, NEW i \in 0 .. 7
  PROVE  Byte(Bswap(v), i, ByteBits) = Byte(v, 7 - i, ByteBits)
<1>1. v \in SUBSET Int
  <2>1. v \in SUBSET Nat
    BY CodeWidth
  <2> QED
    BY <2>1
<1>2. \A x : x \in Bswap(v) <=>
        \E h \in 0 .. 7 : \E j \in v : j \in h * 8 .. (h + 1) * 8 - 1 /\ x = j + (7 - 2 * h) * 8
  BY DEF Bswap
<1>3. ASSUME NEW t \in 0 .. 7 PROVE i * 8 + t \in Bswap(v) <=> (7 - i) * 8 + t \in v
  <2>1. ASSUME NEW h \in 0 .. 7, NEW j \in v, j \in h * 8 .. (h + 1) * 8 - 1,
               i * 8 + t = j + (7 - 2 * h) * 8
        PROVE  (7 - i) * 8 + t \in v
    <3>1. j = (7 - i) * 8 + t
      BY <1>1, <2>1, SMT
    <3> QED
      BY <3>1
  <2>2. ASSUME (7 - i) * 8 + t \in v PROVE i * 8 + t \in Bswap(v)
    <3> DEFINE h == 7 - i
               j == (7 - i) * 8 + t
    <3>1. h \in 0 .. 7 /\ j \in h * 8 .. (h + 1) * 8 - 1 /\ i * 8 + t = j + (7 - 2 * h) * 8
      BY SMT
    <3> QED
      BY <1>2, <2>2, <3>1
  <2> QED
    BY <1>2, <2>1, <2>2
<1> QED
  BY <1>3 DEF Byte

LEMMA MovesExact ==
  ASSUME ByteBits = 8, NEW v \in FullWord, NEW k \in Nat PROVE Moves(v, k)
<1> DEFINE b == Byte(v, 1, 8)
           p == k % 64
<1>1. /\ FullBits = 64 /\ LongBits = 32 /\ AllOnes = 0 .. 63
      /\ v \in SUBSET (0 .. 63) /\ v \in SUBSET Nat
  BY CodeWidth
<1>2. 64 - 1 = 63 /\ 32 - 1 = 31 /\ 8 - 1 = 7 /\ 1 % 4 = 1
  BY SMT
<1>3. Rol(v, k, 64) = RotateLeft(v, k, 64) /\ Ror(v, k, 64) = RotateRight(v, k, 64)
  <2>1. 64 \in Nat \ {0} /\ v \in SUBSET (0 .. 64 - 1)
    BY <1>1, <1>2
  <2> QED
    BY <2>1, RotationsExact
<1>4. From32(Hi32(v), Lo32(v)) = v
  <2>1. \A x : x \in Hi32(v) <=> x \in Nat /\ x + 32 \in v
    BY <1>1, RightShiftBit DEF Hi32
  <2>2. \A x : x \in Lo32(v) <=> x \in v /\ x \in 0 .. 31
    BY <1>1, <1>2 DEF Lo32
  <2>3. \A x : x \in ShiftLeft(Hi32(v), 32, 64) <=> x \in 0 .. 63 /\ x - 32 \in Hi32(v)
    BY <1>2, LeftShiftBit
  <2>4. \A x \in 0 .. 63 : (x - 32) + 32 = x /\ (x - 32 \in Nat <=> ~(x \in 0 .. 31))
    BY SMT
  <2>5. \A x : x \in From32(Hi32(v), Lo32(v)) <=> x \in v
    <3> SUFFICES ASSUME NEW x PROVE x \in From32(Hi32(v), Lo32(v)) <=> x \in v
      OBVIOUS
    <3>1. x \in From32(Hi32(v), Lo32(v)) <=> x \in ShiftLeft(Hi32(v), 32, 64) \/ x \in Lo32(v)
      BY <1>1 DEF From32
    <3>2. CASE x \in 0 .. 63
      <4>1. x - 32 \in Hi32(v) <=> x - 32 \in Nat /\ x \in v
        BY <2>1, <2>4, <3>2, Zenon
      <4> QED
        BY <2>2, <2>3, <2>4, <3>1, <3>2, <4>1, Zenon
    <3>3. CASE x \notin 0 .. 63
      <4>1. x \notin v
        BY <1>1, <3>3
      <4> QED
        BY <2>2, <2>3, <3>1, <3>3, <4>1, Zenon
    <3> QED
      BY <3>2, <3>3
  <2> QED
    BY <2>5
<1>5. Rol8(Ror8(b, k), k) = b
  <2>1. 8 \in Nat \ {0} /\ b \in SUBSET (0 .. 8 - 1)
    BY <1>2 DEF Byte
  <2> QED
    BY <2>1, TurnedBack DEF Rol8, Ror8
<1>6. b = Word32Byte(Lo32(v), 1)
  <2>1. \A j \in 0 .. 7 : 1 * 8 + j \in 0 .. 31
    BY SMT
  <2> QED
    BY <1>1, <1>2, <2>1 DEF Byte, Word32Byte, Lo32
<1>7. p \in 0 .. 63 /\ p \in Nat
  BY SMT
<1> HIDE DEF p
<1>8. ASSUME NEW q \in 0 .. 63 PROVE ShiftLeft({0}, q, 64) = {q}
  <2>1. \A x \in 0 .. 63 : x - q = 0 <=> x = q
    BY SMT
  <2> QED
    BY <1>2, <2>1 DEF ShiftLeft
<1>9. BitGet(BitSet(v, p), p) = {0}
  <2>1. BitSet(v, p) = v \cup {p}
    BY <1>1, <1>7, <1>8 DEF BitSet
  <2>2. v \cup {p} \in SUBSET Nat /\ 0 \in Nat /\ 0 + p = p
    BY <1>1, <1>7
  <2>3. 0 \in ShiftRight(v \cup {p}, p)
    <3>1. 0 \in ShiftRight(v \cup {p}, p) <=> 0 \in Nat /\ 0 + p \in v \cup {p}
      BY <1>7, <2>2, RightShiftBit
    <3> QED
      BY <2>2, <3>1
  <2> QED
    BY <2>1, <2>3 DEF BitGet
<1>10. BitClr(BitSet(v, p), p) = v \ {p}
  BY <1>1, <1>7, <1>8 DEF BitSet, BitClr
<1>11. ASSUME p < 63 PROVE BitsExtract(v, p, 0) = v \cap 0 .. p
  <2>1. p + 1 \in 0 .. 63 /\ p - 0 + 1 = p + 1 /\ p + 1 \in 1 .. 64 - 1 /\ (p + 1) - 1 = p
    BY <1>7, <1>11, SMT
  <2>2. ShiftLeft({0}, p + 1, 64) = {p + 1}
    BY <1>8, <2>1
  <2>3. Sub({p + 1}, {0}, 64) = 0 .. p
    <3>1. Sub({p + 1}, {0}, 64) = 0 .. (p + 1) - 1
      BY <2>1, OnesBelow
    <3> QED
      BY <2>1, <3>1
  <2>4. ShiftRight(v, 0) = v
    <3>1. \A x \in Nat : x + 0 = x
      OBVIOUS
    <3>2. \A x : x \in ShiftRight(v, 0) <=> x \in Nat /\ x + 0 \in v
      BY <1>1, RightShiftBit
    <3> QED
      BY <1>1, <3>1, <3>2
  <2> QED
    BY <1>1, <2>1, <2>2, <2>3, <2>4 DEF BitsExtract
<1>12. \A i \in 0 .. 7 : Byte(Bswap(v), i, ByteBits) = Byte(v, 7 - i, ByteBits)
  BY SwapExact
<1>13. /\ BitGet(BitSet(v, k % 64), k % 64) = {0} /\ BitClr(BitSet(v, k % 64), k % 64) = v \ {k % 64}
       /\ k % 64 < 63 => BitsExtract(v, k % 64, 0) = v \cap 0 .. k % 64
  BY <1>9, <1>10, <1>11 DEF p
<1> QED
  BY <1>1, <1>2, <1>3, <1>4, <1>5, <1>6, <1>12, <1>13 DEF Moves

-----------------------------------------------------------------------------
(* Narrowing.  Topped(s, m, k): of a word whose highest bit is m, s.n      *)
(* places were shifted out, and the highest bit is now among the top k.    *)
Topped(s, m, k) ==
  /\ s \in [n : Nat, v : SUBSET (0 .. 63)]
  /\ m + s.n \in s.v /\ m + s.n >= 64 - k
  /\ \A j \in s.v : j <= m + s.n

Bottomed(s, m, k) ==
  /\ s \in [n : Nat, v : SUBSET (0 .. 63)]
  /\ m - s.n \in s.v /\ m - s.n < k
  /\ \A j \in s.v : j >= m - s.n

NarrowTop(s, k) ==
  IF s.v \cap (64 - k) .. (64 - 1) = {} THEN [n |-> s.n + k, v |-> ShiftLeft(s.v, k, 64)] ELSE s
NarrowTopOf(s, k, n) ==
  IF s.v \cap (n - k) .. (n - 1) = {} THEN [n |-> s.n + k, v |-> ShiftLeft(s.v, k, n)] ELSE s
NarrowBottom(s, k) ==
  IF s.v \cap 0 .. (k - 1) = {} THEN [n |-> s.n + k, v |-> ShiftRight(s.v, k)] ELSE s

LEMMA NarrowType ==
  ASSUME NEW s \in [n : Nat, v : SUBSET (0 .. 63)], NEW k \in Nat
  PROVE  /\ NarrowTop(s, k) \in [n : Nat, v : SUBSET (0 .. 63)]
         /\ NarrowBottom(s, k) \in [n : Nat, v : SUBSET (0 .. 63)]
<1>1. s.n + k \in Nat /\ s.v \in SUBSET (0 .. 63) /\ s.v \in SUBSET Nat
  BY 0 .. 63 \subseteq Nat
<1>2. ShiftLeft(s.v, k, 64) \in SUBSET (0 .. 63)
  <2>1. 64 - 1 = 63
    BY SMT
  <2> QED
    BY <2>1 DEF ShiftLeft
<1>3. ShiftRight(s.v, k) \in SUBSET (0 .. 63)
  <2>1. ASSUME NEW i \in Nat, i + k \in 0 .. 63 PROVE i \in 0 .. 63
    BY <2>1, SMT
  <2>2. \A i : i \in ShiftRight(s.v, k) <=> i \in Nat /\ i + k \in s.v
    BY <1>1, RightShiftBit
  <2> QED
    BY <1>1, <2>1, <2>2
<1> QED
  BY <1>1, <1>2, <1>3 DEF NarrowTop, NarrowBottom

LEMMA NarrowedTop ==
  ASSUME NEW m \in Nat, NEW k \in 1 .. 32, NEW s, Topped(s, m, 2 * k)
  PROVE  Topped(NarrowTop(s, k), m, k)
<1> DEFINE w == s.v
           t == m + s.n
           u == ShiftLeft(w, k, 64)
<1>1. /\ s \in [n : Nat, v : SUBSET (0 .. 63)] /\ s.n \in Nat /\ w \in SUBSET (0 .. 63)
      /\ t \in w /\ t >= 64 - 2 * k /\ \A j \in w : j <= t
  BY DEF Topped
<1>2. t \in Nat /\ t \in 0 .. 63
  BY <1>1
<1>3. NarrowTop(s, k) \in [n : Nat, v : SUBSET (0 .. 63)]
  BY <1>1, NarrowType
<1>4. CASE w \cap (64 - k) .. (64 - 1) = {}
  <2>1. NarrowTop(s, k) = [n |-> s.n + k, v |-> u]
    BY <1>4 DEF NarrowTop
  <2>2. NarrowTop(s, k).n = s.n + k /\ NarrowTop(s, k).v = u /\ m + (s.n + k) = t + k
    BY <1>1, <2>1
  <2>3. t < 64 - k
    <3>1. t \notin (64 - k) .. (64 - 1)
      BY <1>1, <1>4
    <3> HIDE DEF t
    <3> QED
      BY <1>2, <3>1, SMT
  <2>4. \A i : i \in u <=> i \in 0 .. 63 /\ i - k \in w
    <3>1. 64 - 1 = 63
      BY SMT
    <3> QED
      BY <3>1, LeftShiftBit
  <2> HIDE DEF t, u, w
  <2>5. t + k \in 0 .. 63 /\ (t + k) - k = t /\ t + k >= 64 - k
    BY <1>1, <1>2, <2>3, SMT
  <2>6. ASSUME NEW j \in u PROVE j <= t + k
    <3>1. j \in 0 .. 63 /\ j - k <= t
      BY <1>1, <2>4
    <3> QED
      BY <1>2, <3>1, SMT
  <2>7. t + k \in u
    BY <1>1, <2>4, <2>5
  <2> QED
    BY <1>3, <2>2, <2>5, <2>6, <2>7 DEF Topped
<1>5. CASE ~(w \cap (64 - k) .. (64 - 1) = {})
  <2>1. NarrowTop(s, k) = s
    BY <1>5 DEF NarrowTop
  <2>2. PICK j \in w : j \in (64 - k) .. (64 - 1)
    BY <1>5
  <2>3. j <= t
    BY <1>1
  <2>4. t >= 64 - k
    <3> HIDE DEF t
    <3> QED
      BY <1>2, <2>2, <2>3, SMT
  <2> QED
    BY <1>1, <2>1, <2>4 DEF Topped
<1> QED
  BY <1>4, <1>5

LEMMA NarrowedBottom ==
  ASSUME NEW m \in Nat, NEW k \in 1 .. 32, NEW s, Bottomed(s, m, 2 * k)
  PROVE  Bottomed(NarrowBottom(s, k), m, k)
<1> DEFINE w == s.v
           t == m - s.n
           u == ShiftRight(w, k)
<1>1. /\ s \in [n : Nat, v : SUBSET (0 .. 63)] /\ s.n \in Nat /\ w \in SUBSET (0 .. 63)
      /\ t \in w /\ t < 2 * k /\ \A j \in w : j >= t
  BY DEF Bottomed
<1>2. t \in Nat /\ t \in 0 .. 63
  BY <1>1
<1>3. NarrowBottom(s, k) \in [n : Nat, v : SUBSET (0 .. 63)]
  BY <1>1, NarrowType
<1>4. CASE w \cap 0 .. (k - 1) = {}
  <2>1. NarrowBottom(s, k) = [n |-> s.n + k, v |-> u]
    BY <1>4 DEF NarrowBottom
  <2>2. NarrowBottom(s, k).n = s.n + k /\ NarrowBottom(s, k).v = u /\ m - (s.n + k) = t - k
    BY <1>1, <2>1
  <2>3. t >= k
    <3>1. t \notin 0 .. (k - 1)
      BY <1>1, <1>4
    <3> HIDE DEF t
    <3> QED
      BY <1>2, <3>1, SMT
  <2>4. \A i : i \in u <=> i \in Nat /\ i + k \in w
    <3>1. w \in SUBSET Nat
      BY <1>1, 0 .. 63 \subseteq Nat
    <3> QED
      BY <3>1, RightShiftBit
  <2> HIDE DEF t, u, w
  <2>5. t - k \in Nat /\ (t - k) + k = t /\ t - k < k
    BY <1>1, <1>2, <2>3, SMT
  <2>6. ASSUME NEW j \in u PROVE j >= t - k
    <3>1. j \in Nat /\ j + k >= t
      BY <1>1, <2>4
    <3> QED
      BY <1>2, <3>1, SMT
  <2>7. t - k \in u
    BY <1>1, <2>4, <2>5
  <2> QED
    BY <1>3, <2>2, <2>5, <2>6, <2>7 DEF Bottomed
<1>5. CASE ~(w \cap 0 .. (k - 1) = {})
  <2>1. NarrowBottom(s, k) = s
    BY <1>5 DEF NarrowBottom
  <2>2. PICK j \in w : j \in 0 .. (k - 1)
    BY <1>5
  <2>3. j >= t
    BY <1>1
  <2>4. t < k
    <3> HIDE DEF t
    <3> QED
      BY <1>2, <2>2, <2>3, SMT
  <2> QED
    BY <1>1, <2>1, <2>4 DEF Bottomed
<1> QED
  BY <1>4, <1>5

(* The levels that a narrowing goes through. *)
LEMMA NarrowLevels ==
  ASSUME ByteBits = 8, NEW v \in SUBSET (0 .. 63), v # {}
  PROVE  /\ \E x : /\ x[0] = [n |-> 0, v |-> v] /\ Clz(v) = x[6].n
                   /\ \A i \in 1 .. 6 : x[i] = NarrowTop(x[i - 1], Halving[i])
         /\ \E x : /\ x[0] = [n |-> 0, v |-> v] /\ Ctz(v) = x[6].n
                   /\ \A i \in 1 .. 6 : x[i] = NarrowBottom(x[i - 1], Halving[i])
<1> DEFINE R == [n : Nat, v : SUBSET (0 .. 63)]
           base == [n |-> 0, v |-> v]
<1>1. Len(Halving) = 6 /\ \A i \in 1 .. 6 : Halving[i] \in Nat
  BY DEF Halving
<1>2. base \in R
  OBVIOUS
<1>3. FullBits = 64
  BY CodeWidth
<1>4. 6 \in Nat /\ (0 \in 0 .. 6) /\ \A i \in 1 .. 6 : i \in 0 .. 6 /\ i # 0
  BY SMT
<1>5. \A i \in 0 .. 6 : i # 0 => i \in 1 .. 6 /\ i - 1 \in 0 .. 6
  BY SMT
<1>6. \E x : /\ x[0] = base /\ Clz(v) = x[6].n
             /\ \A i \in 1 .. 6 : x[i] = NarrowTop(x[i - 1], Halving[i])
  <2> DEFINE next(s, i) == NarrowTopOf(s, Halving[i], FullBits)
             Body(x) == x = [i \in 0 .. 6 |-> IF i = 0 THEN base ELSE next(x[i - 1], i)]
             x == CHOOSE y : Body(y)
             step == [i \in 0 .. 6 |-> [s \in R |-> IF i = 0 THEN s ELSE next(s, i)]]
  <2>1. Clz(v) = x[6].n
    BY <1>1 DEF Clz, NarrowTopOf
  <2>12. \A s, k : NarrowTopOf(s, k, FullBits) = NarrowTop(s, k)
    BY <1>3 DEF NarrowTopOf, NarrowTop
  <2>2. \A i \in 1 .. 6, s \in R : next(s, i) \in R
    <3> SUFFICES ASSUME NEW i \in 1 .. 6, NEW s \in R PROVE next(s, i) \in R
      OBVIOUS
    <3>1. Halving[i] \in Nat
      BY <1>1
    <3>2. NarrowTop(s, Halving[i]) \in R
      BY <3>1, NarrowType
    <3> HIDE DEF R
    <3> QED
      BY <2>12, <3>2
  <2> HIDE DEF next, base, R
  <2>3. step \in [0 .. 6 -> [R -> R]]
    BY <1>5, <2>2
  <2>4. \A i \in 0 .. 6, s \in R : step[i][s] = IF i = 0 THEN s ELSE next(s, i)
    OBVIOUS
  <2> HIDE DEF step
  <2>5. PICK h : h \in [0 .. 6 -> R] /\ Recursion(h, 6, base, step)
    BY <1>2, <1>4, <2>3, ByRecursion
  <2>6. ASSUME NEW i \in 0 .. 6, i # 0 PROVE step[i][h[i - 1]] = next(h[i - 1], i)
    <3>1. h[i - 1] \in R
      BY <1>5, <2>5, <2>6
    <3> QED
      BY <2>4, <2>6, <3>1
  <2>7. h = [i \in 0 .. 6 |-> IF i = 0 THEN base ELSE step[i][h[i - 1]]]
    BY <2>5 DEF Recursion
  <2>8. Body(h)
    BY <2>6, <2>7, Zenon
  <2>9. Body(x)
    BY <2>8, Zenon
  <2> HIDE DEF x
  <2>10. \A i \in 0 .. 6 : x[i] = IF i = 0 THEN base ELSE next(x[i - 1], i)
    BY <2>9, Zenon
  <2>11. x[0] = base /\ \A i \in 1 .. 6 : x[i] = next(x[i - 1], i)
    BY <1>4, <2>10
  <2> QED
    BY <2>1, <2>11, <2>12 DEF next
<1>7. \E x : /\ x[0] = base /\ Ctz(v) = x[6].n
             /\ \A i \in 1 .. 6 : x[i] = NarrowBottom(x[i - 1], Halving[i])
  <2> DEFINE next(s, i) == NarrowBottom(s, Halving[i])
             Body(x) == x = [i \in 0 .. 6 |-> IF i = 0 THEN base ELSE next(x[i - 1], i)]
             x == CHOOSE y : Body(y)
             step == [i \in 0 .. 6 |-> [s \in R |-> IF i = 0 THEN s ELSE next(s, i)]]
  <2>1. Ctz(v) = x[6].n
    BY <1>1, <1>3 DEF Ctz, NarrowBottom
  <2>2. \A i \in 1 .. 6, s \in R : next(s, i) \in R
    BY <1>1, NarrowType
  <2> HIDE DEF next, base, R
  <2>3. step \in [0 .. 6 -> [R -> R]]
    BY <1>5, <2>2
  <2>4. \A i \in 0 .. 6, s \in R : step[i][s] = IF i = 0 THEN s ELSE next(s, i)
    OBVIOUS
  <2> HIDE DEF step
  <2>5. PICK h : h \in [0 .. 6 -> R] /\ Recursion(h, 6, base, step)
    BY <1>2, <1>4, <2>3, ByRecursion
  <2>6. ASSUME NEW i \in 0 .. 6, i # 0 PROVE step[i][h[i - 1]] = next(h[i - 1], i)
    <3>1. h[i - 1] \in R
      BY <1>5, <2>5, <2>6
    <3> QED
      BY <2>4, <2>6, <3>1
  <2>7. h = [i \in 0 .. 6 |-> IF i = 0 THEN base ELSE step[i][h[i - 1]]]
    BY <2>5 DEF Recursion
  <2>8. Body(h)
    BY <2>6, <2>7, Zenon
  <2>9. Body(x)
    BY <2>8, Zenon
  <2> HIDE DEF x
  <2>10. \A i \in 0 .. 6 : x[i] = IF i = 0 THEN base ELSE next(x[i - 1], i)
    BY <2>9, Zenon
  <2>11. x[0] = base /\ \A i \in 1 .. 6 : x[i] = next(x[i - 1], i)
    BY <1>4, <2>10
  <2> QED
    BY <2>1, <2>11 DEF next
<1> QED
  BY <1>6, <1>7

LEMMA Extremes ==
  ASSUME NEW v \in SUBSET (0 .. 63), v # {}
  PROVE  /\ Max(v) \in v /\ \A j \in v : j <= Max(v)
         /\ Min(v) \in v /\ \A j \in v : j >= Min(v)
<1>1. \A j \in v : j \in Nat /\ j <= 63
  BY SMT
<1>2. \E x \in v : \A y \in v : x <= y
  <2>1. v \in SUBSET Nat
    BY <1>1
  <2> QED
    BY <2>1, LeastElement
<1>3. \E x \in v : \A y \in v : x >= y
  <2> DEFINE T == {63 - j : j \in v}
  <2>0. \A j \in v : 63 - j \in Nat
    BY <1>1, SMT
  <2>1. T \in SUBSET Nat /\ T # {}
    BY <2>0
  <2>2. PICK z \in T : \A y \in T : z <= y
    BY <2>1, LeastElement
  <2>3. PICK x \in v : z = 63 - x
    BY <2>2
  <2>4. \A y \in v : z <= 63 - y
    BY <2>2
  <2>5. \A y \in v : x >= y
    BY <1>1, <2>3, <2>4, SMT
  <2> QED
    BY <2>5
<1>4. Max(v) \in v /\ \A j \in v : Max(v) >= j
  <2> DEFINE P(x) == x \in v /\ \A y \in v : x >= y
  <2>1. Max(v) = CHOOSE x \in v : \A y \in v : x >= y
    BY DEF Max
  <2> QED
    BY <1>3, <2>1
<1>5. Min(v) \in v /\ \A j \in v : Min(v) <= j
  <2>1. Min(v) = CHOOSE x \in v : \A y \in v : x <= y
    BY DEF Min
  <2> QED
    BY <1>2, <2>1
<1>6. \A i, j \in v : (i >= j <=> j <= i)
  BY <1>1, SMT
<1> QED
  BY <1>4, <1>5, <1>6

LEMMA HalvingLevels ==
  /\ Halving[1] = 32 /\ Halving[2] = 16 /\ Halving[3] = 8
  /\ Halving[4] = 4 /\ Halving[5] = 2 /\ Halving[6] = 1
BY DEF Halving

LEMMA ZerosExact ==
  ASSUME ByteBits = 8, NEW v \in FullWord
  PROVE  /\ Clz(v) = IF v = {} THEN FullBits ELSE FullBits - 1 - Max(v)
         /\ Ctz(v) = IF v = {} THEN FullBits ELSE Min(v)
<1>1. FullBits = 64 /\ v \in SUBSET (0 .. 63)
  BY CodeWidth
<1>2. CASE v = {}
  BY <1>2 DEF Clz, Ctz
<1>3. CASE v # {}
  <2>1. /\ Max(v) \in v /\ \A j \in v : j <= Max(v)
        /\ Min(v) \in v /\ \A j \in v : j >= Min(v)
    BY <1>1, <1>3, Extremes
  <2>2. /\ 1 \in 1 .. 6 /\ 2 \in 1 .. 6 /\ 3 \in 1 .. 6 /\ 4 \in 1 .. 6 /\ 5 \in 1 .. 6 /\ 6 \in 1 .. 6
        /\ 1 - 1 = 0 /\ 2 - 1 = 1 /\ 3 - 1 = 2 /\ 4 - 1 = 3 /\ 5 - 1 = 4 /\ 6 - 1 = 5
    BY SMT
  <2>20. /\ Halving[1] = 32 /\ Halving[2] = 16 /\ Halving[3] = 8
         /\ Halving[4] = 4 /\ Halving[5] = 2 /\ Halving[6] = 1
    BY HalvingLevels
  <2>3. /\ 2 * 32 = 64 /\ 2 * 16 = 32 /\ 2 * 8 = 16 /\ 2 * 4 = 8 /\ 2 * 2 = 4 /\ 2 * 1 = 2
        /\ 32 \in 1 .. 32 /\ 16 \in 1 .. 32 /\ 8 \in 1 .. 32 /\ 4 \in 1 .. 32 /\ 2 \in 1 .. 32 /\ 1 \in 1 .. 32
    BY SMT
  <2>0. \A j \in v : j \in Nat /\ j <= 63 /\ j >= 0 /\ j + 0 = j /\ j - 0 = j /\ j < 64 /\ j >= 64 - 64
    BY <1>1, SMT
  <2>4. Max(v) \in Nat /\ Min(v) \in Nat /\ Max(v) <= 63 /\ Min(v) <= 63
    BY <2>0, <2>1
  <2>5. Clz(v) = 63 - Max(v)
    <3> DEFINE m == Max(v)
    <3>1. PICK x : /\ x[0] = [n |-> 0, v |-> v] /\ Clz(v) = x[6].n
                   /\ \A i \in 1 .. 6 : x[i] = NarrowTop(x[i - 1], Halving[i])
      BY <1>1, <1>3, NarrowLevels
    <3>2. /\ x[1] = NarrowTop(x[0], 32) /\ x[2] = NarrowTop(x[1], 16) /\ x[3] = NarrowTop(x[2], 8)
          /\ x[4] = NarrowTop(x[3], 4) /\ x[5] = NarrowTop(x[4], 2) /\ x[6] = NarrowTop(x[5], 1)
      BY <2>2, <2>20, <3>1, ZenonT(60)
    <3>3. Topped(x[0], m, 64)
      <4>1. x[0].n = 0 /\ x[0].v = v /\ x[0] \in [n : Nat, v : SUBSET (0 .. 63)]
        BY <1>1, <3>1
      <4>2. m \in v /\ m + 0 = m /\ m >= 64 - 64 /\ \A j \in v : j <= m
        BY <2>0, <2>1
      <4> HIDE DEF m
      <4> QED
        BY <4>1, <4>2, Zenon DEF Topped
    <3> HIDE DEF m
    <3>4. m \in Nat
      BY <2>4 DEF m
    <3>5. Topped(x[1], m, 32)
      BY <2>3, <3>2, <3>3, <3>4, NarrowedTop
    <3>6. Topped(x[2], m, 16)
      BY <2>3, <3>2, <3>5, <3>4, NarrowedTop
    <3>7. Topped(x[3], m, 8)
      BY <2>3, <3>2, <3>6, <3>4, NarrowedTop
    <3>8. Topped(x[4], m, 4)
      BY <2>3, <3>2, <3>7, <3>4, NarrowedTop
    <3>9. Topped(x[5], m, 2)
      BY <2>3, <3>2, <3>8, <3>4, NarrowedTop
    <3>10. Topped(x[6], m, 1)
      BY <2>3, <3>2, <3>9, <3>4, NarrowedTop
    <3>11. x[6].n \in Nat /\ m + x[6].n \in 0 .. 63 /\ m + x[6].n >= 64 - 1
      BY <3>10 DEF Topped
    <3>12. x[6].n = 63 - m
      BY <3>4, <3>11, SMT
    <3> QED
      BY <3>1, <3>12 DEF m
  <2>6. Ctz(v) = Min(v)
    <3> DEFINE m == Min(v)
    <3>1. PICK x : /\ x[0] = [n |-> 0, v |-> v] /\ Ctz(v) = x[6].n
                   /\ \A i \in 1 .. 6 : x[i] = NarrowBottom(x[i - 1], Halving[i])
      BY <1>1, <1>3, NarrowLevels
    <3>2. /\ x[1] = NarrowBottom(x[0], 32) /\ x[2] = NarrowBottom(x[1], 16)
          /\ x[3] = NarrowBottom(x[2], 8) /\ x[4] = NarrowBottom(x[3], 4)
          /\ x[5] = NarrowBottom(x[4], 2) /\ x[6] = NarrowBottom(x[5], 1)
      BY <2>2, <2>20, <3>1, ZenonT(60)
    <3>3. Bottomed(x[0], m, 64)
      BY <1>1, <2>1, <2>4, <3>1 DEF Bottomed
    <3> HIDE DEF m
    <3>4. m \in Nat
      BY <2>4 DEF m
    <3>5. Bottomed(x[1], m, 32)
      BY <2>3, <3>2, <3>3, <3>4, NarrowedBottom
    <3>6. Bottomed(x[2], m, 16)
      BY <2>3, <3>2, <3>5, <3>4, NarrowedBottom
    <3>7. Bottomed(x[3], m, 8)
      BY <2>3, <3>2, <3>6, <3>4, NarrowedBottom
    <3>8. Bottomed(x[4], m, 4)
      BY <2>3, <3>2, <3>7, <3>4, NarrowedBottom
    <3>9. Bottomed(x[5], m, 2)
      BY <2>3, <3>2, <3>8, <3>4, NarrowedBottom
    <3>10. Bottomed(x[6], m, 1)
      BY <2>3, <3>2, <3>9, <3>4, NarrowedBottom
    <3>11. x[6].n \in Nat /\ m - x[6].n \in 0 .. 63 /\ m - x[6].n < 1
      BY <3>10 DEF Bottomed
    <3>12. x[6].n = m
      BY <3>4, <3>11, SMT
    <3> QED
      BY <3>1, <3>12 DEF m
  <2>7. 64 - 1 - Max(v) = 63 - Max(v)
    BY <2>4, SMT
  <2> QED
    BY <1>1, <1>3, <2>5, <2>6, <2>7
<1> QED
  BY <1>2, <1>3

-----------------------------------------------------------------------------
(* Counting.  The number that each byte of a word stands for says it all:  *)
(* sums of parallel fields stay within their bytes.                        *)
BitOf(w, i) == IF i \in w THEN 1 ELSE 0
ByteOf(w, j) ==
  BitOf(w, 8 * j) + 2 * BitOf(w, 8 * j + 1) + 4 * BitOf(w, 8 * j + 2) + 8 * BitOf(w, 8 * j + 3)
    + 16 * BitOf(w, 8 * j + 4) + 32 * BitOf(w, 8 * j + 5) + 64 * BitOf(w, 8 * j + 6)
    + 128 * BitOf(w, 8 * j + 7)

LEMMA BitRange == \A w, i : BitOf(w, i) \in 0 .. 1
BY DEF BitOf

LEMMA ByteRange == ASSUME NEW w, NEW j PROVE ByteOf(w, j) \in 0 .. 255
BY BitRange, SMT DEF ByteOf

LEMMA FullAdder ==
  ASSUME NEW a \in SUBSET (0 .. 63), NEW b \in SUBSET (0 .. 63), NEW i \in 0 .. 63
  PROVE  \E o \in 0 .. 1 :
           /\ BitOf(a, i) + BitOf(b, i) + BitOf(Carries(a, b, 64), i) = BitOf(Add(a, b, 64), i) + 2 * o
           /\ i < 63 => BitOf(Carries(a, b, 64), i + 1) = o
<1> DEFINE c == Carries(a, b, 64)
           s == Add(a, b, 64)
           o == IF (i \in a /\ i \in b) \/ ((i \in a \/ i \in b) /\ i \in c) THEN 1 ELSE 0
<1>1. i \in s <=> IF i \in c THEN i \in a <=> i \in b ELSE ~(i \in a <=> i \in b)
  <2>1. i \in 0 .. 64 - 1 /\ 64 \in Nat
    BY SMT
  <2> QED
    BY <2>1, AddBits
<1>2. ASSUME i < 63
      PROVE  i + 1 \in c <=> (i \in a /\ i \in b) \/ ((i \in a \/ i \in b) /\ i \in c)
  <2>1. i \in Nat /\ 64 \in Nat /\ i + 1 < 64 /\ a \in SUBSET Nat /\ b \in SUBSET Nat
    BY <1>2, 0 .. 63 \subseteq Nat, SMT
  <2> QED
    BY <2>1, CarryStep
<1>3. o \in 0 .. 1
  OBVIOUS
<1> HIDE DEF c, s
<1>4. BitOf(a, i) + BitOf(b, i) + BitOf(c, i) = BitOf(s, i) + 2 * o
  BY <1>1, SMT DEF BitOf
<1>5. i < 63 => BitOf(c, i + 1) = o
  BY <1>2 DEF BitOf
<1> HIDE DEF o
<1> QED
  BY <1>3, <1>4, <1>5 DEF c, s

LEMMA ByteAdds ==
  ASSUME NEW a \in SUBSET (0 .. 63), NEW b \in SUBSET (0 .. 63), NEW j \in 0 .. 7,
         8 * j \notin Carries(a, b, 64), ByteOf(a, j) + ByteOf(b, j) <= 255
  PROVE  /\ ByteOf(Add(a, b, 64), j) = ByteOf(a, j) + ByteOf(b, j)
         /\ j < 7 => 8 * j + 8 \notin Carries(a, b, 64)
<1> DEFINE c == Carries(a, b, 64)
           s == Add(a, b, 64)
           A(l) == BitOf(a, 8 * j + l)
           B(l) == BitOf(b, 8 * j + l)
           C(l) == BitOf(c, 8 * j + l)
           S(l) == BitOf(s, 8 * j + l)
<1>1. \A l \in 0 .. 7 : \E o \in 0 .. 1 :
        A(l) + B(l) + C(l) = S(l) + 2 * o /\ (l < 7 \/ j < 7 => C(l + 1) = o)
  <2> SUFFICES ASSUME NEW l \in 0 .. 7
               PROVE  \E o \in 0 .. 1 :
                        A(l) + B(l) + C(l) = S(l) + 2 * o /\ (l < 7 \/ j < 7 => C(l + 1) = o)
    OBVIOUS
  <2>1. 8 * j + l \in 0 .. 63 /\ (l < 7 \/ j < 7 => 8 * j + l < 63) /\ (8 * j + l) + 1 = 8 * j + (l + 1)
    BY SMT
  <2>2. \E o \in 0 .. 1 :
           /\ A(l) + B(l) + C(l) = S(l) + 2 * o
           /\ 8 * j + l < 63 => BitOf(c, (8 * j + l) + 1) = o
    BY <2>1, FullAdder
  <2> HIDE DEF A, B, S, c
  <2> QED
    BY <2>1, <2>2
<1>2. \A l \in 0 .. 8 : A(l) \in 0 .. 1 /\ B(l) \in 0 .. 1 /\ C(l) \in 0 .. 1 /\ S(l) \in 0 .. 1
  BY BitRange
<1>3. C(0) = 0
  BY DEF BitOf
<1>4. 8 * j + 0 = 8 * j
  BY SMT
<1>5. /\ ByteOf(a, j) = A(0) + 2 * A(1) + 4 * A(2) + 8 * A(3) + 16 * A(4) + 32 * A(5) + 64 * A(6) + 128 * A(7)
      /\ ByteOf(b, j) = B(0) + 2 * B(1) + 4 * B(2) + 8 * B(3) + 16 * B(4) + 32 * B(5) + 64 * B(6) + 128 * B(7)
      /\ ByteOf(s, j) = S(0) + 2 * S(1) + 4 * S(2) + 8 * S(3) + 16 * S(4) + 32 * S(5) + 64 * S(6) + 128 * S(7)
  BY <1>4 DEF ByteOf
<1>6. j < 7 /\ C(8) = 0 => 8 * j + 8 \notin c
  BY DEF BitOf
<1> HIDE DEF A, B, C, S, c, s
<1>7. /\ A(0) + B(0) + C(0) = S(0) + 2 * C(1) /\ A(1) + B(1) + C(1) = S(1) + 2 * C(2)
      /\ A(2) + B(2) + C(2) = S(2) + 2 * C(3) /\ A(3) + B(3) + C(3) = S(3) + 2 * C(4)
      /\ A(4) + B(4) + C(4) = S(4) + 2 * C(5) /\ A(5) + B(5) + C(5) = S(5) + 2 * C(6)
      /\ A(6) + B(6) + C(6) = S(6) + 2 * C(7)
  <2>1. \A l \in 0 .. 6 : A(l) + B(l) + C(l) = S(l) + 2 * C(l + 1)
    <3>1. \A l \in 0 .. 6 : l \in 0 .. 7 /\ l < 7
      BY SMT
    <3> QED
      BY <1>1, <3>1
  <2>2. /\ 0 \in 0 .. 6 /\ 1 \in 0 .. 6 /\ 2 \in 0 .. 6 /\ 3 \in 0 .. 6 /\ 4 \in 0 .. 6 /\ 5 \in 0 .. 6 /\ 6 \in 0 .. 6
        /\ 0 + 1 = 1 /\ 1 + 1 = 2 /\ 2 + 1 = 3 /\ 3 + 1 = 4 /\ 4 + 1 = 5 /\ 5 + 1 = 6 /\ 6 + 1 = 7
    BY SMT
  <2>3. /\ A(0) + B(0) + C(0) = S(0) + 2 * C(0 + 1) /\ A(1) + B(1) + C(1) = S(1) + 2 * C(1 + 1)
        /\ A(2) + B(2) + C(2) = S(2) + 2 * C(2 + 1) /\ A(3) + B(3) + C(3) = S(3) + 2 * C(3 + 1)
        /\ A(4) + B(4) + C(4) = S(4) + 2 * C(4 + 1) /\ A(5) + B(5) + C(5) = S(5) + 2 * C(5 + 1)
        /\ A(6) + B(6) + C(6) = S(6) + 2 * C(6 + 1)
    BY <2>1, <2>2, Zenon
  <2> QED
    BY <2>2, <2>3, Zenon
<1>8. PICK o \in 0 .. 1 : A(7) + B(7) + C(7) = S(7) + 2 * o /\ (j < 7 => C(8) = o)
  <2>1. 7 \in 0 .. 7 /\ 7 + 1 = 8
    BY SMT
  <2>2. \E o \in 0 .. 1 : A(7) + B(7) + C(7) = S(7) + 2 * o /\ (7 < 7 \/ j < 7 => C(7 + 1) = o)
    BY <1>1, <2>1
  <2> QED
    BY <2>1, <2>2
<1>9. /\ A(0) \in 0 .. 1 /\ A(1) \in 0 .. 1 /\ A(2) \in 0 .. 1 /\ A(3) \in 0 .. 1
      /\ A(4) \in 0 .. 1 /\ A(5) \in 0 .. 1 /\ A(6) \in 0 .. 1 /\ A(7) \in 0 .. 1
      /\ B(0) \in 0 .. 1 /\ B(1) \in 0 .. 1 /\ B(2) \in 0 .. 1 /\ B(3) \in 0 .. 1
      /\ B(4) \in 0 .. 1 /\ B(5) \in 0 .. 1 /\ B(6) \in 0 .. 1 /\ B(7) \in 0 .. 1
      /\ C(0) \in 0 .. 1 /\ C(1) \in 0 .. 1 /\ C(2) \in 0 .. 1 /\ C(3) \in 0 .. 1
      /\ C(4) \in 0 .. 1 /\ C(5) \in 0 .. 1 /\ C(6) \in 0 .. 1 /\ C(7) \in 0 .. 1
      /\ S(0) \in 0 .. 1 /\ S(1) \in 0 .. 1 /\ S(2) \in 0 .. 1 /\ S(3) \in 0 .. 1
      /\ S(4) \in 0 .. 1 /\ S(5) \in 0 .. 1 /\ S(6) \in 0 .. 1 /\ S(7) \in 0 .. 1
  BY <1>2
<1> DEFINE x == ByteOf(a, j) + ByteOf(b, j)
<1>10. x = ByteOf(s, j) + 256 * o /\ ByteOf(s, j) \in Int
  <2>1. \A l \in 0 .. 7 : A(l) \in Int /\ B(l) \in Int /\ C(l) \in Int /\ S(l) \in Int
    BY <1>2
  <2> DEFINE a0 == A(0) a1 == A(1) a2 == A(2) a3 == A(3) a4 == A(4) a5 == A(5) a6 == A(6) a7 == A(7)
             b0 == B(0) b1 == B(1) b2 == B(2) b3 == B(3) b4 == B(4) b5 == B(5) b6 == B(6) b7 == B(7)
             c1 == C(1) c2 == C(2) c3 == C(3) c4 == C(4) c5 == C(5) c6 == C(6) c7 == C(7)
             s0 == S(0) s1 == S(1) s2 == S(2) s3 == S(3) s4 == S(4) s5 == S(5) s6 == S(6) s7 == S(7)
  <2>2. /\ a0 \in Int /\ a1 \in Int /\ a2 \in Int /\ a3 \in Int /\ a4 \in Int /\ a5 \in Int /\ a6 \in Int /\ a7 \in Int
        /\ b0 \in Int /\ b1 \in Int /\ b2 \in Int /\ b3 \in Int /\ b4 \in Int /\ b5 \in Int /\ b6 \in Int /\ b7 \in Int
        /\ c1 \in Int /\ c2 \in Int /\ c3 \in Int /\ c4 \in Int /\ c5 \in Int /\ c6 \in Int /\ c7 \in Int
        /\ s0 \in Int /\ s1 \in Int /\ s2 \in Int /\ s3 \in Int /\ s4 \in Int /\ s5 \in Int /\ s6 \in Int /\ s7 \in Int
    BY <1>9
  <2>3. /\ a0 + b0 = s0 + 2 * c1 /\ a1 + b1 + c1 = s1 + 2 * c2 /\ a2 + b2 + c2 = s2 + 2 * c3
        /\ a3 + b3 + c3 = s3 + 2 * c4 /\ a4 + b4 + c4 = s4 + 2 * c5 /\ a5 + b5 + c5 = s5 + 2 * c6
        /\ a6 + b6 + c6 = s6 + 2 * c7 /\ a7 + b7 + c7 = s7 + 2 * o
    <3>1. a0 + b0 + 0 = s0 + 2 * c1
      BY <1>3, <1>7, Zenon
    <3>2. a0 + b0 + 0 = a0 + b0
      BY <2>2, SMT
    <3> QED
      BY <1>7, <1>8, <3>1, <3>2, Zenon
  <2>4. /\ ByteOf(a, j) = a0 + 2 * a1 + 4 * a2 + 8 * a3 + 16 * a4 + 32 * a5 + 64 * a6 + 128 * a7
        /\ ByteOf(b, j) = b0 + 2 * b1 + 4 * b2 + 8 * b3 + 16 * b4 + 32 * b5 + 64 * b6 + 128 * b7
        /\ ByteOf(s, j) = s0 + 2 * s1 + 4 * s2 + 8 * s3 + 16 * s4 + 32 * s5 + 64 * s6 + 128 * s7
    BY <1>5, Zenon
  <2> HIDE DEF a0, a1, a2, a3, a4, a5, a6, a7, b0, b1, b2, b3, b4, b5, b6, b7,
               c1, c2, c3, c4, c5, c6, c7, s0, s1, s2, s3, s4, s5, s6, s7
  <2> QED
    BY <2>2, <2>3, <2>4, SMT
<1>11. ByteOf(s, j) >= 0 /\ x <= 255 /\ x \in Int
  BY <1>5, <1>9, <1>10, ByteRange, SMT
<1>12. o = 0 /\ ByteOf(s, j) = x
  <2> HIDE DEF x
  <2> QED
    BY <1>10, <1>11, SMT
<1> QED
  BY <1>6, <1>8, <1>12 DEF c, s

LEMMA BytesAdd ==
  ASSUME NEW a \in SUBSET (0 .. 63), NEW b \in SUBSET (0 .. 63),
         \A j \in 0 .. 7 : ByteOf(a, j) + ByteOf(b, j) <= 255
  PROVE  \A j \in 0 .. 7 : ByteOf(Add(a, b, 64), j) = ByteOf(a, j) + ByteOf(b, j)
<1> DEFINE T == {j \in 0 .. 7 : 8 * j \in Carries(a, b, 64)}
<1>1. T = {}
  <2> SUFFICES ASSUME T # {} PROVE FALSE
    OBVIOUS
  <2>1. T \in SUBSET Nat
    BY 0 .. 7 \subseteq Nat
  <2>2. PICK x \in T : \A y \in T : x <= y
    BY <2>1, LeastElement
  <2>3. 0 \notin Carries(a, b, 64)
    BY DEF Carries
  <2>4. x \in 0 .. 7 /\ x # 0
    <3>1. 8 * 0 = 0
      BY SMT
    <3> QED
      BY <2>3, <3>1
  <2>5. x - 1 \in 0 .. 7 /\ x - 1 < 7 /\ ~(x <= x - 1) /\ 8 * (x - 1) + 8 = 8 * x
    BY <2>4, SMT
  <2>6. 8 * (x - 1) \notin Carries(a, b, 64)
    BY <2>2, <2>5
  <2>7. 8 * (x - 1) + 8 \notin Carries(a, b, 64)
    BY <2>5, <2>6, ByteAdds
  <2> QED
    BY <2>5, <2>7
<1> QED
  BY <1>1, ByteAdds

LowOf(w, j) == BitOf(w, 8 * j + 0) + 2 * BitOf(w, 8 * j + 1) + 4 * BitOf(w, 8 * j + 2) + 8 * BitOf(w, 8 * j + 3)
HighOf(w, j) == BitOf(w, 8 * j + 4) + 2 * BitOf(w, 8 * j + 5) + 4 * BitOf(w, 8 * j + 6) + 8 * BitOf(w, 8 * j + 7)
OnesOf(w, j) ==
  BitOf(w, 8 * j + 0) + BitOf(w, 8 * j + 1) + BitOf(w, 8 * j + 2) + BitOf(w, 8 * j + 3)
    + BitOf(w, 8 * j + 4) + BitOf(w, 8 * j + 5) + BitOf(w, 8 * j + 6) + BitOf(w, 8 * j + 7)

LEMMA HalvesOfByte ==
  ASSUME NEW w, NEW j \in Nat
  PROVE  /\ ByteOf(w, j) = LowOf(w, j) + 16 * HighOf(w, j)
         /\ LowOf(w, j) \in 0 .. 15 /\ HighOf(w, j) \in 0 .. 15
<1>1. 8 * j + 0 = 8 * j
  BY SMT
<1> DEFINE X(l) == BitOf(w, 8 * j + l)
<1>2. \A l \in 0 .. 7 : X(l) \in 0 .. 1
  BY BitRange
<1>3. /\ ByteOf(w, j) = X(0) + 2 * X(1) + 4 * X(2) + 8 * X(3) + 16 * X(4) + 32 * X(5) + 64 * X(6) + 128 * X(7)
      /\ LowOf(w, j) = X(0) + 2 * X(1) + 4 * X(2) + 8 * X(3)
      /\ HighOf(w, j) = X(4) + 2 * X(5) + 4 * X(6) + 8 * X(7)
  BY <1>1 DEF ByteOf, LowOf, HighOf
<1> HIDE DEF X
<1>4. /\ X(0) \in 0 .. 1 /\ X(1) \in 0 .. 1 /\ X(2) \in 0 .. 1 /\ X(3) \in 0 .. 1
      /\ X(4) \in 0 .. 1 /\ X(5) \in 0 .. 1 /\ X(6) \in 0 .. 1 /\ X(7) \in 0 .. 1
  BY <1>2
<1> QED
  BY <1>3, <1>4, SMT

LEMMA MaskedBit ==
  ASSUME ByteBits = 8, NEW w, NEW p \in Nat, NEW q \in {2, 4, 8}, NEW j \in 0 .. 7, NEW l \in 0 .. 7
  PROVE  BitOf(w \cap Mask(p, q), 8 * j + l) = IF l % q < p THEN BitOf(w, 8 * j + l) ELSE 0
<1>1. AllOnes = 0 .. 63
  BY CodeWidth
<1>2. 8 * j + l \in 0 .. 63 /\ (8 * j + l) % q = l % q
  <2>1. 8 * j + l \in 0 .. 63
    BY SMT
  <2>2. CASE q = 2
    BY <2>2, SMT
  <2>3. CASE q = 4
    BY <2>3, SMT
  <2>4. CASE q = 8
    BY <2>4, SMT
  <2> QED
    BY <2>1, <2>2, <2>3, <2>4
<1>3. 8 * j + l \in Mask(p, q) <=> l % q < p
  BY <1>1, <1>2 DEF Mask
<1> QED
  BY <1>3 DEF BitOf

LEMMA ShiftedBit ==
  ASSUME NEW w \in SUBSET Nat, NEW k \in Nat, NEW j \in Nat, NEW l \in Nat
  PROVE  BitOf(ShiftRight(w, k), 8 * j + l) = BitOf(w, 8 * j + (l + k))
<1>1. 8 * j + l \in Nat /\ (8 * j + l) + k = 8 * j + (l + k)
  BY SMT
<1>2. 8 * j + l \in ShiftRight(w, k) <=> (8 * j + l) + k \in w
  BY <1>1, RightShiftBit
<1> QED
  BY <1>1, <1>2 DEF BitOf

LEMMA FlippedBit ==
  ASSUME NEW w, NEW j \in 0 .. 7, NEW l \in 0 .. 7
  PROVE  BitOf((0 .. 63) \ w, 8 * j + l) = 1 - BitOf(w, 8 * j + l)
<1>1. 8 * j + l \in 0 .. 63
  BY SMT
<1> QED
  BY <1>1 DEF BitOf

(* Where one number is written with two sequences of digits, these agree. *)
LEMMA FourDigits ==
  ASSUME NEW x0 \in 0 .. 3, NEW x1 \in 0 .. 3, NEW x2 \in 0 .. 3, NEW x3 \in 0 .. 3,
         NEW y0 \in 0 .. 3, NEW y1 \in 0 .. 3, NEW y2 \in 0 .. 3, NEW y3 \in 0 .. 3,
         x0 + 4 * x1 + 16 * x2 + 64 * x3 = y0 + 4 * y1 + 16 * y2 + 64 * y3
  PROVE  x0 = y0 /\ x1 = y1 /\ x2 = y2 /\ x3 = y3
BY SMT

LEMMA TwoDigits ==
  ASSUME NEW x0 \in 0 .. 15, NEW x1 \in 0 .. 15, NEW y0 \in 0 .. 15, NEW y1 \in 0 .. 15,
         x0 + 16 * x1 = y0 + 16 * y1
  PROVE  x0 = y0 /\ x1 = y1
BY SMT

LEMMA SumIsWord ==
  ASSUME NEW a, NEW b PROVE Add(a, b, 64) \in SUBSET (0 .. 63) /\ Sub(a, b, 64) \in SUBSET (0 .. 63)
<1>1. 64 - 1 = 63
  BY SMT
<1> QED
  BY <1>1 DEF Add, Sub

(* x - ((x >> 1) & 0x5555...): in each field of two bits, how many are     *)
(* set.                                                                    *)
LEMMA PairsCount ==
  ASSUME ByteBits = 8, NEW v \in SUBSET (0 .. 63), NEW j \in 0 .. 7
  PROVE  LET p == Sub(v, ShiftRight(v, 1) \cap Mask(1, 2), 64)
         IN /\ BitOf(p, 8 * j + 0) + 2 * BitOf(p, 8 * j + 1) = BitOf(v, 8 * j + 0) + BitOf(v, 8 * j + 1)
            /\ BitOf(p, 8 * j + 2) + 2 * BitOf(p, 8 * j + 3) = BitOf(v, 8 * j + 2) + BitOf(v, 8 * j + 3)
            /\ BitOf(p, 8 * j + 4) + 2 * BitOf(p, 8 * j + 5) = BitOf(v, 8 * j + 4) + BitOf(v, 8 * j + 5)
            /\ BitOf(p, 8 * j + 6) + 2 * BitOf(p, 8 * j + 7) = BitOf(v, 8 * j + 6) + BitOf(v, 8 * j + 7)
<1> DEFINE h == ShiftRight(v, 1) \cap Mask(1, 2)
           c == (0 .. 63) \ v
           s == Add(c, h, 64)
           p == (0 .. 63) \ s
           V(i, l) == BitOf(v, 8 * i + l)
           S(l) == BitOf(s, 8 * j + l)
           P(l) == BitOf(p, 8 * j + l)
<1>1. Sub(v, h, 64) = p
  <2>1. 64 - 1 = 63
    BY SMT
  <2> QED
    BY <2>1 DEF Sub
<1>2. v \in SUBSET Nat /\ c \in SUBSET (0 .. 63) /\ h \in SUBSET (0 .. 63)
  <2>1. h \in SUBSET (0 .. 63)
    BY CodeWidth DEF Mask
  <2> QED
    BY <2>1, 0 .. 63 \subseteq Nat
<1>3. ASSUME NEW i \in 0 .. 7, NEW l \in 0 .. 7
      PROVE  /\ BitOf(c, 8 * i + l) = 1 - V(i, l)
             /\ BitOf(h, 8 * i + l) = IF l % 2 < 1 THEN V(i, l + 1) ELSE 0
  <2>1. BitOf(h, 8 * i + l) = IF l % 2 < 1 THEN BitOf(ShiftRight(v, 1), 8 * i + l) ELSE 0
    BY MaskedBit, ZenonT(60)
  <2>2. BitOf(ShiftRight(v, 1), 8 * i + l) = V(i, l + 1)
    <3>1. i \in Nat /\ l \in Nat
      OBVIOUS
    <3> QED
      BY <1>2, <3>1, ShiftedBit
  <2> QED
    BY <2>1, <2>2, FlippedBit
<1>4. ASSUME NEW i \in 0 .. 7
      PROVE  /\ \A l \in 0 .. 7 : V(i, l) \in 0 .. 1
             /\ ByteOf(c, i) = 255 - (V(i, 0) + 2 * V(i, 1) + 4 * V(i, 2) + 8 * V(i, 3)
                                       + 16 * V(i, 4) + 32 * V(i, 5) + 64 * V(i, 6) + 128 * V(i, 7))
             /\ ByteOf(h, i) = V(i, 1) + 4 * V(i, 3) + 16 * V(i, 5) + 64 * V(i, 7)
  <2>1. /\ 0 \in 0 .. 7 /\ 1 \in 0 .. 7 /\ 2 \in 0 .. 7 /\ 3 \in 0 .. 7
        /\ 4 \in 0 .. 7 /\ 5 \in 0 .. 7 /\ 6 \in 0 .. 7 /\ 7 \in 0 .. 7
        /\ 0 % 2 < 1 /\ ~(1 % 2 < 1) /\ 2 % 2 < 1 /\ ~(3 % 2 < 1)
        /\ 4 % 2 < 1 /\ ~(5 % 2 < 1) /\ 6 % 2 < 1 /\ ~(7 % 2 < 1)
        /\ 0 + 1 = 1 /\ 2 + 1 = 3 /\ 4 + 1 = 5 /\ 6 + 1 = 7
    BY SMT
  <2>2. \A l \in 0 .. 7 : V(i, l) \in 0 .. 1
    BY BitRange
  <2>3. 8 * i + 0 = 8 * i
    BY SMT
  <2>4. /\ ByteOf(c, i) = BitOf(c, 8 * i + 0) + 2 * BitOf(c, 8 * i + 1) + 4 * BitOf(c, 8 * i + 2) + 8 * BitOf(c, 8 * i + 3)
                         + 16 * BitOf(c, 8 * i + 4) + 32 * BitOf(c, 8 * i + 5) + 64 * BitOf(c, 8 * i + 6) + 128 * BitOf(c, 8 * i + 7)
        /\ ByteOf(h, i) = BitOf(h, 8 * i + 0) + 2 * BitOf(h, 8 * i + 1) + 4 * BitOf(h, 8 * i + 2) + 8 * BitOf(h, 8 * i + 3)
                         + 16 * BitOf(h, 8 * i + 4) + 32 * BitOf(h, 8 * i + 5) + 64 * BitOf(h, 8 * i + 6) + 128 * BitOf(h, 8 * i + 7)
    BY <2>3 DEF ByteOf
  <2> HIDE DEF c, h, V
  <2>5. /\ BitOf(h, 8 * i + 0) = V(i, 1) /\ BitOf(h, 8 * i + 1) = 0
        /\ BitOf(h, 8 * i + 2) = V(i, 3) /\ BitOf(h, 8 * i + 3) = 0
        /\ BitOf(h, 8 * i + 4) = V(i, 5) /\ BitOf(h, 8 * i + 5) = 0
        /\ BitOf(h, 8 * i + 6) = V(i, 7) /\ BitOf(h, 8 * i + 7) = 0
    BY <1>3, <2>1
  <2>6. /\ BitOf(c, 8 * i + 0) = 1 - V(i, 0) /\ BitOf(c, 8 * i + 1) = 1 - V(i, 1)
        /\ BitOf(c, 8 * i + 2) = 1 - V(i, 2) /\ BitOf(c, 8 * i + 3) = 1 - V(i, 3)
        /\ BitOf(c, 8 * i + 4) = 1 - V(i, 4) /\ BitOf(c, 8 * i + 5) = 1 - V(i, 5)
        /\ BitOf(c, 8 * i + 6) = 1 - V(i, 6) /\ BitOf(c, 8 * i + 7) = 1 - V(i, 7)
    BY <1>3, <2>1
  <2>7. /\ V(i, 0) \in 0 .. 1 /\ V(i, 1) \in 0 .. 1 /\ V(i, 2) \in 0 .. 1 /\ V(i, 3) \in 0 .. 1
        /\ V(i, 4) \in 0 .. 1 /\ V(i, 5) \in 0 .. 1 /\ V(i, 6) \in 0 .. 1 /\ V(i, 7) \in 0 .. 1
    BY <2>2
  <2>8. ByteOf(h, i) = V(i, 1) + 4 * V(i, 3) + 16 * V(i, 5) + 64 * V(i, 7)
    BY <2>4, <2>5, <2>7, SMT
  <2>9. ByteOf(c, i) = 255 - (V(i, 0) + 2 * V(i, 1) + 4 * V(i, 2) + 8 * V(i, 3)
                               + 16 * V(i, 4) + 32 * V(i, 5) + 64 * V(i, 6) + 128 * V(i, 7))
    BY <2>4, <2>6, <2>7, SMT
  <2> QED
    BY <2>2, <2>8, <2>9
<1>5. ByteOf(s, j) = ByteOf(c, j) + ByteOf(h, j)
  <2>1. ASSUME NEW i \in 0 .. 7 PROVE ByteOf(c, i) + ByteOf(h, i) <= 255
    <3>1. /\ V(i, 0) \in 0 .. 1 /\ V(i, 1) \in 0 .. 1 /\ V(i, 2) \in 0 .. 1 /\ V(i, 3) \in 0 .. 1
          /\ V(i, 4) \in 0 .. 1 /\ V(i, 5) \in 0 .. 1 /\ V(i, 6) \in 0 .. 1 /\ V(i, 7) \in 0 .. 1
      BY <1>4
    <3> HIDE DEF V, c, h
    <3> QED
      BY <1>4, <3>1, SMT
  <2> HIDE DEF c, h
  <2> QED
    BY <1>2, <2>1, BytesAdd
<1>6. /\ P(0) = 1 - S(0) /\ P(1) = 1 - S(1) /\ P(2) = 1 - S(2) /\ P(3) = 1 - S(3)
      /\ P(4) = 1 - S(4) /\ P(5) = 1 - S(5) /\ P(6) = 1 - S(6) /\ P(7) = 1 - S(7)
  <2>1. \A l \in 0 .. 7 : P(l) = 1 - S(l)
    BY FlippedBit, SMTT(30)
  <2> HIDE DEF P, S
  <2> QED
    BY <2>1, SMT
<1>7. ByteOf(s, j) = S(0) + 2 * S(1) + 4 * S(2) + 8 * S(3) + 16 * S(4) + 32 * S(5) + 64 * S(6) + 128 * S(7)
  <2>1. 8 * j + 0 = 8 * j
    BY SMT
  <2> QED
    BY <2>1 DEF ByteOf
<1>8. /\ V(j, 0) \in 0 .. 1 /\ V(j, 1) \in 0 .. 1 /\ V(j, 2) \in 0 .. 1 /\ V(j, 3) \in 0 .. 1
      /\ V(j, 4) \in 0 .. 1 /\ V(j, 5) \in 0 .. 1 /\ V(j, 6) \in 0 .. 1 /\ V(j, 7) \in 0 .. 1
      /\ S(0) \in 0 .. 1 /\ S(1) \in 0 .. 1 /\ S(2) \in 0 .. 1 /\ S(3) \in 0 .. 1
      /\ S(4) \in 0 .. 1 /\ S(5) \in 0 .. 1 /\ S(6) \in 0 .. 1 /\ S(7) \in 0 .. 1
  BY BitRange
<1>9. /\ P(0) + 2 * P(1) = V(j, 0) + V(j, 1) /\ P(2) + 2 * P(3) = V(j, 2) + V(j, 3)
      /\ P(4) + 2 * P(5) = V(j, 4) + V(j, 5) /\ P(6) + 2 * P(7) = V(j, 6) + V(j, 7)
  <2>1. /\ ByteOf(c, j) = 255 - (V(j, 0) + 2 * V(j, 1) + 4 * V(j, 2) + 8 * V(j, 3)
                                 + 16 * V(j, 4) + 32 * V(j, 5) + 64 * V(j, 6) + 128 * V(j, 7))
        /\ ByteOf(h, j) = V(j, 1) + 4 * V(j, 3) + 16 * V(j, 5) + 64 * V(j, 7)
    BY <1>4
  <2> HIDE DEF P, S, V, c, h, s
  <2>2. S(0) + 2 * S(1) + 4 * S(2) + 8 * S(3) + 16 * S(4) + 32 * S(5) + 64 * S(6) + 128 * S(7)
        = 255 - (V(j, 0) + 2 * V(j, 1) + 4 * V(j, 2) + 8 * V(j, 3)
                  + 16 * V(j, 4) + 32 * V(j, 5) + 64 * V(j, 6) + 128 * V(j, 7))
          + (V(j, 1) + 4 * V(j, 3) + 16 * V(j, 5) + 64 * V(j, 7))
    BY <1>5, <1>7, <2>1, Zenon
  <2> DEFINE s0 == S(0) s1 == S(1) s2 == S(2) s3 == S(3) s4 == S(4) s5 == S(5) s6 == S(6) s7 == S(7)
             v0 == V(j, 0) v1 == V(j, 1) v2 == V(j, 2) v3 == V(j, 3)
             v4 == V(j, 4) v5 == V(j, 5) v6 == V(j, 6) v7 == V(j, 7)
             x0 == (1 - s0) + 2 * (1 - s1)
             x1 == (1 - s2) + 2 * (1 - s3)
             x2 == (1 - s4) + 2 * (1 - s5)
             x3 == (1 - s6) + 2 * (1 - s7)
             y0 == v0 + v1 y1 == v2 + v3 y2 == v4 + v5 y3 == v6 + v7
  <2>3. /\ v0 \in 0 .. 1 /\ v1 \in 0 .. 1 /\ v2 \in 0 .. 1 /\ v3 \in 0 .. 1
        /\ v4 \in 0 .. 1 /\ v5 \in 0 .. 1 /\ v6 \in 0 .. 1 /\ v7 \in 0 .. 1
        /\ s0 \in 0 .. 1 /\ s1 \in 0 .. 1 /\ s2 \in 0 .. 1 /\ s3 \in 0 .. 1
        /\ s4 \in 0 .. 1 /\ s5 \in 0 .. 1 /\ s6 \in 0 .. 1 /\ s7 \in 0 .. 1
    BY <1>8, Zenon
  <2>4. s0 + 2 * s1 + 4 * s2 + 8 * s3 + 16 * s4 + 32 * s5 + 64 * s6 + 128 * s7
        = 255 - (v0 + 2 * v1 + 4 * v2 + 8 * v3 + 16 * v4 + 32 * v5 + 64 * v6 + 128 * v7)
          + (v1 + 4 * v3 + 16 * v5 + 64 * v7)
    BY <2>2, Zenon
  <2>5. /\ P(0) = 1 - s0 /\ P(1) = 1 - s1 /\ P(2) = 1 - s2 /\ P(3) = 1 - s3
        /\ P(4) = 1 - s4 /\ P(5) = 1 - s5 /\ P(6) = 1 - s6 /\ P(7) = 1 - s7
    BY <1>6, Zenon
  <2> HIDE DEF s0, s1, s2, s3, s4, s5, s6, s7, v0, v1, v2, v3, v4, v5, v6, v7
  <2>6. /\ x0 \in 0 .. 3 /\ x1 \in 0 .. 3 /\ x2 \in 0 .. 3 /\ x3 \in 0 .. 3
        /\ y0 \in 0 .. 3 /\ y1 \in 0 .. 3 /\ y2 \in 0 .. 3 /\ y3 \in 0 .. 3
    BY <2>3, SMT
  <2>7. x0 + 4 * x1 + 16 * x2 + 64 * x3 = y0 + 4 * y1 + 16 * y2 + 64 * y3
    BY <2>3, <2>4, SMT
  <2> HIDE DEF x0, x1, x2, x3, y0, y1, y2, y3
  <2>8. x0 = y0 /\ x1 = y1 /\ x2 = y2 /\ x3 = y3
    BY <2>6, <2>7, FourDigits
  <2> QED
    BY <2>5, <2>8, Zenon DEF x0, x1, x2, x3, y0, y1, y2, y3, v0, v1, v2, v3, v4, v5, v6, v7
<1> QED
  BY <1>1, <1>9

(* Fields of two bits, added two by two into fields of four. *)
LEMMA NibblesCount ==
  ASSUME ByteBits = 8, NEW w \in SUBSET (0 .. 63), NEW j \in 0 .. 7
  PROVE  LET s == Add(w \cap Mask(2, 4), ShiftRight(w, 2) \cap Mask(2, 4), 64)
         IN /\ LowOf(s, j) = BitOf(w, 8 * j + 0) + 2 * BitOf(w, 8 * j + 1)
                              + (BitOf(w, 8 * j + 2) + 2 * BitOf(w, 8 * j + 3))
            /\ HighOf(s, j) = BitOf(w, 8 * j + 4) + 2 * BitOf(w, 8 * j + 5)
                               + (BitOf(w, 8 * j + 6) + 2 * BitOf(w, 8 * j + 7))
<1> DEFINE a == w \cap Mask(2, 4)
           r == ShiftRight(w, 2)
           b == r \cap Mask(2, 4)
           s == Add(a, b, 64)
           X(i, l) == BitOf(w, 8 * i + l)
<1>1. w \in SUBSET Nat /\ a \in SUBSET (0 .. 63) /\ b \in SUBSET (0 .. 63)
  BY CodeWidth, 0 .. 63 \subseteq Nat DEF Mask
<1>2. /\ 0 \in 0 .. 7 /\ 1 \in 0 .. 7 /\ 2 \in 0 .. 7 /\ 3 \in 0 .. 7
      /\ 4 \in 0 .. 7 /\ 5 \in 0 .. 7 /\ 6 \in 0 .. 7 /\ 7 \in 0 .. 7
      /\ 0 % 4 < 2 /\ 1 % 4 < 2 /\ ~(2 % 4 < 2) /\ ~(3 % 4 < 2)
      /\ 4 % 4 < 2 /\ 5 % 4 < 2 /\ ~(6 % 4 < 2) /\ ~(7 % 4 < 2)
      /\ 0 + 2 = 2 /\ 1 + 2 = 3 /\ 4 + 2 = 6 /\ 5 + 2 = 7
  BY SMT
<1>3. ASSUME NEW i \in 0 .. 7, NEW l \in 0 .. 7
      PROVE  /\ BitOf(a, 8 * i + l) = IF l % 4 < 2 THEN X(i, l) ELSE 0
             /\ BitOf(b, 8 * i + l) = IF l % 4 < 2 THEN X(i, l + 2) ELSE 0
  <2>1. BitOf(a, 8 * i + l) = IF l % 4 < 2 THEN X(i, l) ELSE 0
    BY MaskedBit, ZenonT(60)
  <2>2. BitOf(b, 8 * i + l) = IF l % 4 < 2 THEN BitOf(r, 8 * i + l) ELSE 0
    BY MaskedBit
  <2>3. BitOf(r, 8 * i + l) = X(i, l + 2)
    <3>1. i \in Nat /\ l \in Nat
      OBVIOUS
    <3> QED
      BY <1>1, <3>1, ShiftedBit
  <2> QED
    BY <2>1, <2>2, <2>3
<1>4. ASSUME NEW i \in 0 .. 7
      PROVE  /\ LowOf(a, i) = X(i, 0) + 2 * X(i, 1) /\ HighOf(a, i) = X(i, 4) + 2 * X(i, 5)
             /\ LowOf(b, i) = X(i, 2) + 2 * X(i, 3) /\ HighOf(b, i) = X(i, 6) + 2 * X(i, 7)
  <2> HIDE DEF a, b, X
  <2>1. /\ BitOf(a, 8 * i + 0) = X(i, 0) /\ BitOf(a, 8 * i + 1) = X(i, 1)
        /\ BitOf(a, 8 * i + 2) = 0 /\ BitOf(a, 8 * i + 3) = 0
        /\ BitOf(a, 8 * i + 4) = X(i, 4) /\ BitOf(a, 8 * i + 5) = X(i, 5)
        /\ BitOf(a, 8 * i + 6) = 0 /\ BitOf(a, 8 * i + 7) = 0
    BY <1>2, <1>3
  <2>2. /\ BitOf(b, 8 * i + 0) = X(i, 2) /\ BitOf(b, 8 * i + 1) = X(i, 3)
        /\ BitOf(b, 8 * i + 2) = 0 /\ BitOf(b, 8 * i + 3) = 0
        /\ BitOf(b, 8 * i + 4) = X(i, 6) /\ BitOf(b, 8 * i + 5) = X(i, 7)
        /\ BitOf(b, 8 * i + 6) = 0 /\ BitOf(b, 8 * i + 7) = 0
    BY <1>2, <1>3
  <2>3. \A l \in 0 .. 7 : X(i, l) \in 0 .. 1
    BY BitRange DEF X
  <2>4. /\ X(i, 0) \in 0 .. 1 /\ X(i, 1) \in 0 .. 1 /\ X(i, 2) \in 0 .. 1 /\ X(i, 3) \in 0 .. 1
        /\ X(i, 4) \in 0 .. 1 /\ X(i, 5) \in 0 .. 1 /\ X(i, 6) \in 0 .. 1 /\ X(i, 7) \in 0 .. 1
    BY <2>3
  <2>5. LowOf(a, i) = X(i, 0) + 2 * X(i, 1) /\ HighOf(a, i) = X(i, 4) + 2 * X(i, 5)
    BY <2>1, <2>4, SMT DEF LowOf, HighOf
  <2>6. LowOf(b, i) = X(i, 2) + 2 * X(i, 3) /\ HighOf(b, i) = X(i, 6) + 2 * X(i, 7)
    BY <2>2, <2>4, SMT DEF LowOf, HighOf
  <2> QED
    BY <2>5, <2>6
<1>5. ASSUME NEW i \in 0 .. 7
      PROVE  /\ LowOf(a, i) \in 0 .. 3 /\ HighOf(a, i) \in 0 .. 3
             /\ LowOf(b, i) \in 0 .. 3 /\ HighOf(b, i) \in 0 .. 3
  <2>1. /\ X(i, 0) \in 0 .. 1 /\ X(i, 1) \in 0 .. 1 /\ X(i, 2) \in 0 .. 1 /\ X(i, 3) \in 0 .. 1
        /\ X(i, 4) \in 0 .. 1 /\ X(i, 5) \in 0 .. 1 /\ X(i, 6) \in 0 .. 1 /\ X(i, 7) \in 0 .. 1
    BY BitRange
  <2>2. /\ LowOf(a, i) = X(i, 0) + 2 * X(i, 1) /\ HighOf(a, i) = X(i, 4) + 2 * X(i, 5)
        /\ LowOf(b, i) = X(i, 2) + 2 * X(i, 3) /\ HighOf(b, i) = X(i, 6) + 2 * X(i, 7)
    BY <1>4
  <2> HIDE DEF a, b, X
  <2> QED
    BY <2>1, <2>2, SMT
<1>6. \A i \in 0 .. 7 : i \in Nat
  OBVIOUS
<1>7. ByteOf(s, j) = ByteOf(a, j) + ByteOf(b, j)
  <2>1. ASSUME NEW i \in 0 .. 7 PROVE ByteOf(a, i) + ByteOf(b, i) <= 255
    <3> HIDE DEF a, b
    <3>1. ByteOf(a, i) = LowOf(a, i) + 16 * HighOf(a, i) /\ ByteOf(b, i) = LowOf(b, i) + 16 * HighOf(b, i)
      BY <1>6, HalvesOfByte
    <3>2. /\ LowOf(a, i) \in 0 .. 3 /\ HighOf(a, i) \in 0 .. 3
          /\ LowOf(b, i) \in 0 .. 3 /\ HighOf(b, i) \in 0 .. 3
      BY <1>5
    <3> QED
      BY <3>1, <3>2, SMT
  <2> HIDE DEF a, b
  <2> QED
    BY <1>1, <2>1, BytesAdd
<1> DEFINE x0 == LowOf(s, j) x1 == HighOf(s, j)
           y0 == LowOf(a, j) + LowOf(b, j) y1 == HighOf(a, j) + HighOf(b, j)
<1>8. x0 \in 0 .. 15 /\ x1 \in 0 .. 15 /\ ByteOf(s, j) = x0 + 16 * x1
  BY <1>6, HalvesOfByte
<1>9. /\ LowOf(a, j) \in 0 .. 3 /\ HighOf(a, j) \in 0 .. 3
      /\ LowOf(b, j) \in 0 .. 3 /\ HighOf(b, j) \in 0 .. 3
      /\ ByteOf(a, j) = LowOf(a, j) + 16 * HighOf(a, j) /\ ByteOf(b, j) = LowOf(b, j) + 16 * HighOf(b, j)
  BY <1>5, <1>6, HalvesOfByte
<1>10. x0 = y0 /\ x1 = y1
  <2> HIDE DEF a, b, s, x0, x1
  <2>1. y0 \in 0 .. 15 /\ y1 \in 0 .. 15 /\ x0 + 16 * x1 = y0 + 16 * y1
    BY <1>7, <1>8, <1>9, SMT
  <2> HIDE DEF y0, y1
  <2> QED
    BY <1>8, <2>1, TwoDigits
<1>11. /\ LowOf(a, j) = X(j, 0) + 2 * X(j, 1) /\ HighOf(a, j) = X(j, 4) + 2 * X(j, 5)
       /\ LowOf(b, j) = X(j, 2) + 2 * X(j, 3) /\ HighOf(b, j) = X(j, 6) + 2 * X(j, 7)
  BY <1>4
<1> QED
  BY <1>10, <1>11, Zenon

(* Fields of four bits, none above four, into bytes. *)
LEMMA OctetsCount ==
  ASSUME ByteBits = 8, NEW w \in SUBSET (0 .. 63), NEW j \in 0 .. 7,
         \A i \in 0 .. 7 : LowOf(w, i) <= 4 /\ HighOf(w, i) <= 4
  PROVE  ByteOf(Add(w, ShiftRight(w, 4), 64) \cap Mask(4, 8), j) = LowOf(w, j) + HighOf(w, j)
<1> DEFINE r == ShiftRight(w, 4)
           s == Add(w, r, 64)
           o == s \cap Mask(4, 8)
<1>1. w \in SUBSET Nat /\ r \in SUBSET (0 .. 63)
  <2>1. w \in SUBSET Nat
    BY 0 .. 63 \subseteq Nat
  <2>2. \A i : i \in r <=> i \in Nat /\ i + 4 \in w
    BY <2>1, RightShiftBit
  <2>3. ASSUME NEW i \in Nat, i + 4 \in 0 .. 63 PROVE i \in 0 .. 63
    BY <2>3, SMT
  <2> QED
    BY <2>1, <2>2, <2>3
<1>2. /\ 0 \in 0 .. 7 /\ 1 \in 0 .. 7 /\ 2 \in 0 .. 7 /\ 3 \in 0 .. 7
      /\ 4 \in 0 .. 7 /\ 5 \in 0 .. 7 /\ 6 \in 0 .. 7 /\ 7 \in 0 .. 7
      /\ 0 % 8 < 4 /\ 1 % 8 < 4 /\ 2 % 8 < 4 /\ 3 % 8 < 4
      /\ ~(4 % 8 < 4) /\ ~(5 % 8 < 4) /\ ~(6 % 8 < 4) /\ ~(7 % 8 < 4)
      /\ 0 + 4 = 4 /\ 1 + 4 = 5 /\ 2 + 4 = 6 /\ 3 + 4 = 7
      /\ 4 + 4 = 8 /\ 5 + 4 = 9 /\ 6 + 4 = 10 /\ 7 + 4 = 11
  BY SMT
<1>3. \A i \in 0 .. 7 : i \in Nat /\ i + 1 \in Nat
  OBVIOUS
<1>4. ASSUME NEW i \in 0 .. 7
      PROVE  LowOf(r, i) = HighOf(w, i) /\ HighOf(r, i) = LowOf(w, i + 1)
  <2>1. \A l \in 0 .. 7 : BitOf(r, 8 * i + l) = BitOf(w, 8 * i + (l + 4))
    <3> SUFFICES ASSUME NEW l \in 0 .. 7 PROVE BitOf(r, 8 * i + l) = BitOf(w, 8 * i + (l + 4))
      OBVIOUS
    <3>1. l \in Nat /\ i \in Nat /\ 4 \in Nat
      OBVIOUS
    <3> QED
      BY <1>1, <3>1, ShiftedBit
  <2> HIDE DEF r
  <2>2. /\ BitOf(r, 8 * i + 0) = BitOf(w, 8 * i + 4) /\ BitOf(r, 8 * i + 1) = BitOf(w, 8 * i + 5)
        /\ BitOf(r, 8 * i + 2) = BitOf(w, 8 * i + 6) /\ BitOf(r, 8 * i + 3) = BitOf(w, 8 * i + 7)
        /\ BitOf(r, 8 * i + 4) = BitOf(w, 8 * i + 8) /\ BitOf(r, 8 * i + 5) = BitOf(w, 8 * i + 9)
        /\ BitOf(r, 8 * i + 6) = BitOf(w, 8 * i + 10) /\ BitOf(r, 8 * i + 7) = BitOf(w, 8 * i + 11)
    BY <1>2, <2>1
  <2>3. /\ 8 * i + 8 = 8 * (i + 1) + 0 /\ 8 * i + 9 = 8 * (i + 1) + 1
        /\ 8 * i + 10 = 8 * (i + 1) + 2 /\ 8 * i + 11 = 8 * (i + 1) + 3
    BY SMT
  <2>4. LowOf(r, i) = HighOf(w, i)
    BY <2>2, Zenon DEF LowOf, HighOf
  <2>5. HighOf(r, i) = LowOf(w, i + 1)
    BY <2>2, <2>3, Zenon DEF LowOf, HighOf
  <2> QED
    BY <2>4, <2>5
<1>5. ASSUME NEW i \in 0 .. 7 PROVE LowOf(w, i + 1) \in 0 .. 4
  <2>1. LowOf(w, i + 1) \in 0 .. 15
    BY <1>3, HalvesOfByte
  <2>2. LowOf(w, i + 1) <= 4
    <3>1. CASE i < 7
      <4>1. i + 1 \in 0 .. 7
        BY <3>1, SMT
      <4> QED
        BY <4>1
    <3>2. CASE ~(i < 7)
      <4>1. i + 1 = 8
        BY <3>2, SMT
      <4>2. 8 * 8 + 0 \notin 0 .. 63 /\ 8 * 8 + 1 \notin 0 .. 63 /\ 8 * 8 + 2 \notin 0 .. 63 /\ 8 * 8 + 3 \notin 0 .. 63
        BY SMT
      <4>3. BitOf(w, 8 * 8 + 0) = 0 /\ BitOf(w, 8 * 8 + 1) = 0 /\ BitOf(w, 8 * 8 + 2) = 0 /\ BitOf(w, 8 * 8 + 3) = 0
        BY <4>2 DEF BitOf
      <4>4. LowOf(w, 8) = 0 + 2 * 0 + 4 * 0 + 8 * 0
        BY <4>3, Zenon DEF LowOf
      <4>5. 0 + 2 * 0 + 4 * 0 + 8 * 0 <= 4
        BY SMT
      <4> QED
        BY <4>1, <4>4, <4>5
    <3> QED
      BY <3>1, <3>2
  <2> QED
    BY <2>1, <2>2, SMT
<1>6. ASSUME NEW i \in 0 .. 7
      PROVE  /\ LowOf(w, i) \in 0 .. 4 /\ HighOf(w, i) \in 0 .. 4
             /\ ByteOf(w, i) = LowOf(w, i) + 16 * HighOf(w, i)
             /\ ByteOf(r, i) = HighOf(w, i) + 16 * LowOf(w, i + 1)
  <2>1. /\ ByteOf(w, i) = LowOf(w, i) + 16 * HighOf(w, i)
        /\ LowOf(w, i) \in 0 .. 15 /\ HighOf(w, i) \in 0 .. 15
    BY <1>3, HalvesOfByte
  <2>2. ByteOf(r, i) = LowOf(r, i) + 16 * HighOf(r, i)
    BY <1>3, HalvesOfByte
  <2>3. LowOf(w, i) <= 4 /\ HighOf(w, i) <= 4
    OBVIOUS
  <2>4. LowOf(w, i) \in 0 .. 4 /\ HighOf(w, i) \in 0 .. 4
    BY <2>1, <2>3, SMT
  <2>5. ByteOf(r, i) = HighOf(w, i) + 16 * LowOf(w, i + 1)
    BY <1>4, <2>2
  <2> QED
    BY <2>1, <2>4, <2>5
<1>7. ByteOf(s, j) = ByteOf(w, j) + ByteOf(r, j)
  <2>1. ASSUME NEW i \in 0 .. 7 PROVE ByteOf(w, i) + ByteOf(r, i) <= 255
    <3>1. /\ LowOf(w, i) \in 0 .. 4 /\ HighOf(w, i) \in 0 .. 4 /\ LowOf(w, i + 1) \in 0 .. 4
          /\ ByteOf(w, i) = LowOf(w, i) + 16 * HighOf(w, i)
          /\ ByteOf(r, i) = HighOf(w, i) + 16 * LowOf(w, i + 1)
      BY <1>5, <1>6
    <3> HIDE DEF r
    <3> QED
      BY <3>1, SMT
  <2> HIDE DEF r
  <2> QED
    BY <1>1, <2>1, BytesAdd
<1> DEFINE x0 == LowOf(s, j) x1 == HighOf(s, j)
           y0 == LowOf(w, j) + HighOf(w, j) y1 == HighOf(w, j) + LowOf(w, j + 1)
<1>8. x0 \in 0 .. 15 /\ x1 \in 0 .. 15 /\ ByteOf(s, j) = x0 + 16 * x1
  BY <1>3, HalvesOfByte
<1>9. /\ LowOf(w, j) \in 0 .. 4 /\ HighOf(w, j) \in 0 .. 4 /\ LowOf(w, j + 1) \in 0 .. 4
      /\ ByteOf(w, j) = LowOf(w, j) + 16 * HighOf(w, j)
      /\ ByteOf(r, j) = HighOf(w, j) + 16 * LowOf(w, j + 1)
  BY <1>5, <1>6
<1>10. x0 = y0
  <2> HIDE DEF r, s, x0, x1
  <2>1. y0 \in 0 .. 15 /\ y1 \in 0 .. 15 /\ x0 + 16 * x1 = y0 + 16 * y1
    BY <1>7, <1>8, <1>9, SMT
  <2> HIDE DEF y0, y1
  <2> QED
    BY <1>8, <2>1, TwoDigits
<1>11. LowOf(o, j) = LowOf(s, j) /\ HighOf(o, j) = 0 + 2 * 0 + 4 * 0 + 8 * 0
  <2>1. \A l \in 0 .. 7 : BitOf(o, 8 * j + l) = IF l % 8 < 4 THEN BitOf(s, 8 * j + l) ELSE 0
    BY MaskedBit, ZenonT(60)
  <2> HIDE DEF o, s
  <2>2. /\ BitOf(o, 8 * j + 0) = BitOf(s, 8 * j + 0) /\ BitOf(o, 8 * j + 1) = BitOf(s, 8 * j + 1)
        /\ BitOf(o, 8 * j + 2) = BitOf(s, 8 * j + 2) /\ BitOf(o, 8 * j + 3) = BitOf(s, 8 * j + 3)
        /\ BitOf(o, 8 * j + 4) = 0 /\ BitOf(o, 8 * j + 5) = 0
        /\ BitOf(o, 8 * j + 6) = 0 /\ BitOf(o, 8 * j + 7) = 0
    BY <1>2, <2>1
  <2> QED
    BY <2>2, Zenon DEF LowOf, HighOf
<1>12. ByteOf(o, j) = LowOf(o, j) + 16 * HighOf(o, j)
  BY <1>3, HalvesOfByte
<1> HIDE DEF o
<1>13. x0 + 16 * (0 + 2 * 0 + 4 * 0 + 8 * 0) = x0
  <2> HIDE DEF x0
  <2> QED
    BY <1>8, SMT
<1>14. ByteOf(o, j) = x0
  BY <1>11, <1>12, <1>13, Zenon
<1> QED
  BY <1>10, <1>14 DEF o

(* The product is a sum of shifts in a heap: every node has its value, as  *)
(* the nodes above 2^k need the ones above 2^(k + 1) only.                 *)
HeapNode(f, a, b, i) ==
  IF i < 64 THEN Add(f[2 * i], f[2 * i + 1], 64)
  ELSE IF i - 64 \in a THEN ShiftLeft(b, i - 64, 64) ELSE {}
HeapStep(f, a, b) == [i \in 1 .. 127 |-> HeapNode(f, a, b, i)]

Alike(f, g, m) == \A i \in m .. 127 : f[i] = g[i]

LEMMA HeapSettles ==
  ASSUME NEW a, NEW b, NEW f, NEW g, NEW m \in 1 .. 64,
         Alike(f, g, 2 * m)
  PROVE  Alike(HeapStep(f, a, b), HeapStep(g, a, b), m)
<1> SUFFICES ASSUME NEW i \in m .. 127 PROVE HeapStep(f, a, b)[i] = HeapStep(g, a, b)[i]
  BY DEF Alike
<1>1. i \in 1 .. 127
  BY SMT
<1>2. HeapNode(f, a, b, i) = HeapNode(g, a, b, i)
  <2>1. CASE i < 64
    <3>1. 2 * i \in 2 * m .. 127 /\ 2 * i + 1 \in 2 * m .. 127
      BY <2>1, SMT
    <3>2. f[2 * i] = g[2 * i] /\ f[2 * i + 1] = g[2 * i + 1]
      BY <3>1 DEF Alike
    <3> QED
      BY <3>2, Zenon DEF HeapNode
  <2>2. CASE ~(i < 64)
    BY <2>2 DEF HeapNode
  <2> QED
    BY <2>1, <2>2
<1> QED
  BY <1>1, <1>2 DEF HeapStep

LEMMA ProductHeap ==
  ASSUME NEW a, NEW b
  PROVE  \E h : /\ \A i \in 1 .. 127 : h[i] = HeapNode(h, a, b, i)
                /\ Mul(a, b, 64) = h[1] \cap 0 .. 63
<1> DEFINE f0 == [i \in 1 .. 127 |-> {}]
           f1 == HeapStep(f0, a, b) f2 == HeapStep(f1, a, b) f3 == HeapStep(f2, a, b)
           f4 == HeapStep(f3, a, b) f5 == HeapStep(f4, a, b) f6 == HeapStep(f5, a, b)
           f7 == HeapStep(f6, a, b) f8 == HeapStep(f7, a, b)
           Body(h) == h = [i \in 1 .. 127 |->
                             IF i < 64 THEN Add(h[2 * i], h[2 * i + 1], 64)
                             ELSE IF i - 64 \in a THEN ShiftLeft(b, i - 64, 64)
                             ELSE {}]
           h == CHOOSE g : Body(g)
<1>1. /\ 128 = 2 * 64 /\ 64 = 2 * 32 /\ 32 = 2 * 16 /\ 16 = 2 * 8 /\ 8 = 2 * 4 /\ 4 = 2 * 2 /\ 2 = 2 * 1
      /\ 64 \in 1 .. 64 /\ 32 \in 1 .. 64 /\ 16 \in 1 .. 64 /\ 8 \in 1 .. 64
      /\ 4 \in 1 .. 64 /\ 2 \in 1 .. 64 /\ 1 \in 1 .. 64
      /\ 2 * 64 - 1 = 127 /\ 64 - 1 = 63 /\ 1 \in 1 .. 127
  BY SMT
<1> HIDE DEF f0
<1>2. Alike(f0, f1, 128)
  BY SMT DEF Alike
<1> HIDE DEF f1
<1>3. Alike(f1, f2, 64)
  <2> HIDE DEF f2
  <2>1. Alike(f0, f1, 2 * 64)
    BY <1>1, <1>2, Zenon
  <2>2. 64 \in 1 .. 64
    BY <1>1
  <2>3. Alike(HeapStep(f0, a, b), HeapStep(f1, a, b), 64)
    BY <2>1, <2>2, HeapSettles
  <2> QED
    BY <2>3 DEF f1, f2
<1> HIDE DEF f2
<1>4. Alike(f2, f3, 32)
  <2> HIDE DEF f3
  <2>1. Alike(f1, f2, 2 * 32)
    BY <1>1, <1>3, Zenon
  <2>2. 32 \in 1 .. 64
    BY <1>1
  <2>3. Alike(HeapStep(f1, a, b), HeapStep(f2, a, b), 32)
    BY <2>1, <2>2, HeapSettles
  <2> QED
    BY <2>3 DEF f2, f3
<1> HIDE DEF f3
<1>5. Alike(f3, f4, 16)
  <2> HIDE DEF f4
  <2>1. Alike(f2, f3, 2 * 16)
    BY <1>1, <1>4, Zenon
  <2>2. 16 \in 1 .. 64
    BY <1>1
  <2>3. Alike(HeapStep(f2, a, b), HeapStep(f3, a, b), 16)
    BY <2>1, <2>2, HeapSettles
  <2> QED
    BY <2>3 DEF f3, f4
<1> HIDE DEF f4
<1>6. Alike(f4, f5, 8)
  <2> HIDE DEF f5
  <2>1. Alike(f3, f4, 2 * 8)
    BY <1>1, <1>5, Zenon
  <2>2. 8 \in 1 .. 64
    BY <1>1
  <2>3. Alike(HeapStep(f3, a, b), HeapStep(f4, a, b), 8)
    BY <2>1, <2>2, HeapSettles
  <2> QED
    BY <2>3 DEF f4, f5
<1> HIDE DEF f5
<1>7. Alike(f5, f6, 4)
  <2> HIDE DEF f6
  <2>1. Alike(f4, f5, 2 * 4)
    BY <1>1, <1>6, Zenon
  <2>2. 4 \in 1 .. 64
    BY <1>1
  <2>3. Alike(HeapStep(f4, a, b), HeapStep(f5, a, b), 4)
    BY <2>1, <2>2, HeapSettles
  <2> QED
    BY <2>3 DEF f5, f6
<1> HIDE DEF f6
<1>8. Alike(f6, f7, 2)
  <2> HIDE DEF f7
  <2>1. Alike(f5, f6, 2 * 2)
    BY <1>1, <1>7, Zenon
  <2>2. 2 \in 1 .. 64
    BY <1>1
  <2>3. Alike(HeapStep(f5, a, b), HeapStep(f6, a, b), 2)
    BY <2>1, <2>2, HeapSettles
  <2> QED
    BY <2>3 DEF f6, f7
<1> HIDE DEF f7
<1>9. Alike(f7, f8, 1)
  <2> HIDE DEF f8
  <2>1. Alike(f6, f7, 2 * 1)
    BY <1>1, <1>8, Zenon
  <2>2. 1 \in 1 .. 64
    BY <1>1
  <2>3. Alike(HeapStep(f6, a, b), HeapStep(f7, a, b), 1)
    BY <2>1, <2>2, HeapSettles
  <2> QED
    BY <2>3 DEF f7, f8
<1>10. f7 = HeapStep(f7, a, b)
  <2>1. f7 = HeapStep(f6, a, b)
    BY DEF f7
  <2>2. f7 = [i \in 1 .. 127 |-> f7[i]]
    BY <2>1 DEF HeapStep
  <2>3. HeapStep(f7, a, b) = [i \in 1 .. 127 |-> HeapStep(f7, a, b)[i]]
    BY DEF HeapStep
  <2>4. \A i \in 1 .. 127 : f7[i] = HeapStep(f7, a, b)[i]
    BY <1>9 DEF Alike
  <2> QED
    BY <2>2, <2>3, <2>4
<1>11. Body(f7)
  <2>1. HeapStep(f7, a, b) = [i \in 1 .. 127 |->
                               IF i < 64 THEN Add(f7[2 * i], f7[2 * i + 1], 64)
                               ELSE IF i - 64 \in a THEN ShiftLeft(b, i - 64, 64)
                               ELSE {}]
    BY Zenon DEF HeapStep, HeapNode
  <2> QED
    BY <1>10, <2>1, Zenon
<1>12. Mul(a, b, 64) = h[1] \cap 0 .. 63
  BY <1>1 DEF Mul
<1>13. Body(h)
  BY <1>11, Zenon
<1> HIDE DEF h
<1>14. \A i \in 1 .. 127 : h[i] = HeapNode(h, a, b, i)
  BY <1>13, Zenon DEF HeapNode
<1> QED
  BY <1>12, <1>14

LEMMA AddNothing == ASSUME NEW x \in SUBSET (0 .. 63) PROVE Add(x, {}, 64) = x
<1>1. Carries(x, {}, 64) = {} /\ 64 - 1 = 63
  BY SMT DEF Carries
<1> QED
  BY <1>1 DEF Add, Xor

LEMMA SmallSums ==
  ASSUME NEW x \in SUBSET (0 .. 63), NEW y \in SUBSET (0 .. 63), NEW m \in 0 .. 127,
         \A j \in 0 .. 7 : ByteOf(x, j) <= m /\ ByteOf(y, j) <= m
  PROVE  /\ Add(x, y, 64) \in SUBSET (0 .. 63)
         /\ \A j \in 0 .. 7 : ByteOf(Add(x, y, 64), j) = ByteOf(x, j) + ByteOf(y, j)
         /\ \A j \in 0 .. 7 : ByteOf(Add(x, y, 64), j) <= m + m
<1>1. \A j \in 0 .. 7 : ByteOf(x, j) \in Int /\ ByteOf(y, j) \in Int
  <2>1. 0 .. 255 \subseteq Int
    BY SMT
  <2>2. \A j : ByteOf(x, j) \in 0 .. 255 /\ ByteOf(y, j) \in 0 .. 255
    BY ByteRange, ZenonT(60)
  <2> QED
    BY <2>1, <2>2, ZenonT(60)
<1>2. \A j \in 0 .. 7 : ByteOf(x, j) + ByteOf(y, j) <= m + m /\ ByteOf(x, j) + ByteOf(y, j) <= 255
  <2> SUFFICES ASSUME NEW j \in 0 .. 7
               PROVE  ByteOf(x, j) + ByteOf(y, j) <= m + m /\ ByteOf(x, j) + ByteOf(y, j) <= 255
    OBVIOUS
  <2>1. ByteOf(x, j) \in Int /\ ByteOf(y, j) \in Int /\ ByteOf(x, j) <= m /\ ByteOf(y, j) <= m
    BY <1>1
  <2> QED
    BY <2>1, SMT
<1>3. \A j \in 0 .. 7 : ByteOf(Add(x, y, 64), j) = ByteOf(x, j) + ByteOf(y, j)
  BY <1>2, BytesAdd
<1> QED
  BY <1>2, <1>3, SumIsWord

LEMMA ShiftedByte ==
  ASSUME NEW o \in SUBSET (0 .. 63), NEW t \in 0 .. 7, NEW j \in 0 .. 7
  PROVE  ByteOf(ShiftLeft(o, 8 * t, 64), j) = IF j >= t THEN ByteOf(o, j - t) ELSE 0
<1> DEFINE s == ShiftLeft(o, 8 * t, 64)
<1>1. \A l \in 0 .. 7 : BitOf(s, 8 * j + l) = IF j >= t THEN BitOf(o, 8 * (j - t) + l) ELSE 0
  <2> SUFFICES ASSUME NEW l \in 0 .. 7
               PROVE  BitOf(s, 8 * j + l) = IF j >= t THEN BitOf(o, 8 * (j - t) + l) ELSE 0
    OBVIOUS
  <2>1. 8 * j + l \in 0 .. 64 - 1 /\ (8 * j + l) - 8 * t = 8 * (j - t) + l
    BY SMT
  <2>2. 8 * j + l \in s <=> 8 * (j - t) + l \in o
    BY <2>1, LeftShiftBit
  <2>3. ~(j >= t) => 8 * (j - t) + l \notin 0 .. 63
    BY SMT
  <2> QED
    BY <2>2, <2>3 DEF BitOf
<1>2. 8 * j + 0 = 8 * j /\ 8 * (j - t) + 0 = 8 * (j - t)
  BY SMT
<1>3. /\ 0 \in 0 .. 7 /\ 1 \in 0 .. 7 /\ 2 \in 0 .. 7 /\ 3 \in 0 .. 7
      /\ 4 \in 0 .. 7 /\ 5 \in 0 .. 7 /\ 6 \in 0 .. 7 /\ 7 \in 0 .. 7
  BY SMT
<1> HIDE DEF s
<1>4. CASE j >= t
  <2>1. /\ BitOf(s, 8 * j + 0) = BitOf(o, 8 * (j - t) + 0) /\ BitOf(s, 8 * j + 1) = BitOf(o, 8 * (j - t) + 1)
        /\ BitOf(s, 8 * j + 2) = BitOf(o, 8 * (j - t) + 2) /\ BitOf(s, 8 * j + 3) = BitOf(o, 8 * (j - t) + 3)
        /\ BitOf(s, 8 * j + 4) = BitOf(o, 8 * (j - t) + 4) /\ BitOf(s, 8 * j + 5) = BitOf(o, 8 * (j - t) + 5)
        /\ BitOf(s, 8 * j + 6) = BitOf(o, 8 * (j - t) + 6) /\ BitOf(s, 8 * j + 7) = BitOf(o, 8 * (j - t) + 7)
    BY <1>1, <1>3, <1>4, Zenon
  <2>2. BitOf(s, 8 * j) = BitOf(o, 8 * (j - t))
    BY <1>2, <2>1, Zenon
  <2>3. ByteOf(s, j) = ByteOf(o, j - t)
    BY <2>1, <2>2, Zenon DEF ByteOf
  <2> QED
    BY <1>4, <2>3 DEF s
<1>5. CASE ~(j >= t)
  <2>1. /\ BitOf(s, 8 * j + 0) = 0 /\ BitOf(s, 8 * j + 1) = 0 /\ BitOf(s, 8 * j + 2) = 0 /\ BitOf(s, 8 * j + 3) = 0
        /\ BitOf(s, 8 * j + 4) = 0 /\ BitOf(s, 8 * j + 5) = 0 /\ BitOf(s, 8 * j + 6) = 0 /\ BitOf(s, 8 * j + 7) = 0
    BY <1>1, <1>3, <1>5, Zenon
  <2>2. ByteOf(s, j) = 0 + 2 * 0 + 4 * 0 + 8 * 0 + 16 * 0 + 32 * 0 + 64 * 0 + 128 * 0
    BY <1>2, <2>1, Zenon DEF ByteOf
  <2>3. 0 + 2 * 0 + 4 * 0 + 8 * 0 + 16 * 0 + 32 * 0 + 64 * 0 + 128 * 0 = 0
    BY SMT
  <2> QED
    BY <1>5, <2>2, <2>3 DEF s
<1> QED
  BY <1>4, <1>5

(* 0x0101... times a word of small bytes: their sum is in the top byte.    *)
LEMMA BytesSummed ==
  ASSUME ByteBits = 8, NEW o \in SUBSET (0 .. 63), \A j \in 0 .. 7 : ByteOf(o, j) <= 8
  PROVE  ByteOf(Mul(Mask(1, 8), o, 64), 7)
         = ((ByteOf(o, 7) + ByteOf(o, 6)) + (ByteOf(o, 5) + ByteOf(o, 4)))
           + ((ByteOf(o, 3) + ByteOf(o, 2)) + (ByteOf(o, 1) + ByteOf(o, 0)))
<1> DEFINE a == Mask(1, 8)
           L(t) == ShiftLeft(o, 8 * t, 64)
<1>1. PICK h : /\ \A i \in 1 .. 127 : h[i] = HeapNode(h, a, o, i)
               /\ Mul(a, o, 64) = h[1] \cap 0 .. 63
  BY ProductHeap
<1>2. \A i \in 64 .. 127 : h[i] = IF i - 64 \in a THEN ShiftLeft(o, i - 64, 64) ELSE {}
  <2> SUFFICES ASSUME NEW i \in 64 .. 127
               PROVE  h[i] = IF i - 64 \in a THEN ShiftLeft(o, i - 64, 64) ELSE {}
    OBVIOUS
  <2>1. i \in 1 .. 127 /\ ~(i < 64)
    BY SMT
  <2> QED
    BY <1>1, <2>1 DEF HeapNode
<1>3. \A i \in 1 .. 63 : h[i] = Add(h[2 * i], h[2 * i + 1], 64)
  <2> SUFFICES ASSUME NEW i \in 1 .. 63 PROVE h[i] = Add(h[2 * i], h[2 * i + 1], 64)
    OBVIOUS
  <2>1. i \in 1 .. 127 /\ i < 64
    BY SMT
  <2> QED
    BY <1>1, <2>1 DEF HeapNode
<1>4. \A t \in 0 .. 7 : L(t) \in SUBSET (0 .. 63)
  <2>1. 64 - 1 = 63
    BY SMT
  <2> QED
    BY <2>1 DEF ShiftLeft
<1>5. \A t \in 0 .. 7 : /\ h[64 + 8 * t] = L(t)
                        /\ \A l \in 1 .. 7 : h[64 + (8 * t + l)] = {}
  <2> SUFFICES ASSUME NEW t \in 0 .. 7
               PROVE  h[64 + 8 * t] = L(t) /\ \A l \in 1 .. 7 : h[64 + (8 * t + l)] = {}
    OBVIOUS
  <2>1. AllOnes = 0 .. 63
    BY CodeWidth
  <2>2. 8 * t \in 0 .. 63 /\ (8 * t) % 8 < 1 /\ 64 + 8 * t \in 64 .. 127 /\ (64 + 8 * t) - 64 = 8 * t
    BY SMT
  <2>3. 8 * t \in a
    BY <2>1, <2>2 DEF Mask
  <2>4. ASSUME NEW l \in 1 .. 7 PROVE h[64 + (8 * t + l)] = {}
    <3>1. /\ 64 + (8 * t + l) \in 64 .. 127 /\ (64 + (8 * t + l)) - 64 = 8 * t + l
          /\ ~((8 * t + l) % 8 < 1)
      BY SMT
    <3>2. 8 * t + l \notin a
      BY <3>1 DEF Mask
    <3> HIDE DEF a
    <3> QED
      BY <1>2, <3>1, <3>2
  <2>5. h[64 + 8 * t] = L(t)
    <3> HIDE DEF a
    <3> QED
      BY <1>2, <2>2, <2>3
  <2> QED
    BY <2>4, <2>5
<1> HIDE DEF a
<1>6. Add({}, {}, 64) = {}
  BY AddNothing
<1>7. \A t \in 0 .. 7 : /\ h[32 + 4 * t] = L(t)
                        /\ \A l \in 1 .. 3 : h[32 + (4 * t + l)] = {}
  <2> SUFFICES ASSUME NEW t \in 0 .. 7
               PROVE  h[32 + 4 * t] = L(t) /\ \A l \in 1 .. 3 : h[32 + (4 * t + l)] = {}
    OBVIOUS
  <2>1. /\ 32 + 4 * t \in 1 .. 63 /\ 2 * (32 + 4 * t) = 64 + 8 * t /\ 1 \in 1 .. 7
        /\ 2 * (32 + 4 * t) + 1 = 64 + (8 * t + 1)
    BY SMT
  <2>2. h[2 * (32 + 4 * t)] = L(t) /\ h[2 * (32 + 4 * t) + 1] = {}
    BY <1>5, <2>1
  <2>3. ASSUME NEW l \in 1 .. 3 PROVE h[32 + (4 * t + l)] = {}
    <3>1. /\ 32 + (4 * t + l) \in 1 .. 63 /\ 2 * l \in 1 .. 7 /\ 2 * l + 1 \in 1 .. 7
          /\ 2 * (32 + (4 * t + l)) = 64 + (8 * t + 2 * l)
          /\ 2 * (32 + (4 * t + l)) + 1 = 64 + (8 * t + (2 * l + 1))
      BY SMT
    <3>2. h[2 * (32 + (4 * t + l))] = {} /\ h[2 * (32 + (4 * t + l)) + 1] = {}
      BY <1>5, <3>1
    <3> QED
      BY <1>3, <1>6, <3>1, <3>2
  <2>4. h[32 + 4 * t] = Add(L(t), {}, 64)
    BY <1>3, <2>1, <2>2
  <2> QED
    BY <1>4, <2>3, <2>4, AddNothing
<1>8. \A t \in 0 .. 7 : h[16 + 2 * t] = L(t) /\ h[16 + (2 * t + 1)] = {}
  <2> SUFFICES ASSUME NEW t \in 0 .. 7 PROVE h[16 + 2 * t] = L(t) /\ h[16 + (2 * t + 1)] = {}
    OBVIOUS
  <2>1. /\ 16 + 2 * t \in 1 .. 63 /\ 2 * (16 + 2 * t) = 32 + 4 * t
        /\ 1 \in 1 .. 3 /\ 2 \in 1 .. 3 /\ 3 \in 1 .. 3
        /\ 2 * (16 + 2 * t) + 1 = 32 + (4 * t + 1)
        /\ 16 + (2 * t + 1) \in 1 .. 63 /\ 2 * (16 + (2 * t + 1)) = 32 + (4 * t + 2)
        /\ 2 * (16 + (2 * t + 1)) + 1 = 32 + (4 * t + 3)
    BY SMT
  <2>2. /\ h[2 * (16 + 2 * t)] = L(t) /\ h[2 * (16 + 2 * t) + 1] = {}
        /\ h[2 * (16 + (2 * t + 1))] = {} /\ h[2 * (16 + (2 * t + 1)) + 1] = {}
    BY <1>7, <2>1
  <2>3. h[16 + 2 * t] = Add(L(t), {}, 64) /\ h[16 + (2 * t + 1)] = Add({}, {}, 64)
    BY <1>3, <2>1, <2>2
  <2> QED
    BY <1>4, <1>6, <2>3, AddNothing
<1>9. \A t \in 0 .. 7 : h[8 + t] = L(t)
  <2> SUFFICES ASSUME NEW t \in 0 .. 7 PROVE h[8 + t] = L(t)
    OBVIOUS
  <2>1. /\ 8 + t \in 1 .. 63 /\ 2 * (8 + t) = 16 + 2 * t /\ 2 * (8 + t) + 1 = 16 + (2 * t + 1)
    BY SMT
  <2>2. h[2 * (8 + t)] = L(t) /\ h[2 * (8 + t) + 1] = {}
    BY <1>8, <2>1
  <2>3. h[8 + t] = Add(L(t), {}, 64)
    BY <1>3, <2>1, <2>2
  <2> QED
    BY <1>4, <2>3, AddNothing
<1>10. ASSUME NEW t \in 0 .. 7
       PROVE  /\ \A j \in 0 .. 7 : ByteOf(L(t), j) <= 8
              /\ ByteOf(L(t), 7) = ByteOf(o, 7 - t)
  <2>1. \A j \in 0 .. 7 : ByteOf(L(t), j) = IF j >= t THEN ByteOf(o, j - t) ELSE 0
    BY ShiftedByte
  <2>2. \A j \in 0 .. 7 : j >= t => j - t \in 0 .. 7
    BY SMT
  <2>3. 0 <= 8 /\ 7 >= t /\ 7 \in 0 .. 7
    BY SMT
  <2> HIDE DEF L
  <2> QED
    BY <2>1, <2>2, <2>3
<1>12. /\ h[8] = L(0) /\ h[9] = L(1) /\ h[10] = L(2) /\ h[11] = L(3)
       /\ h[12] = L(4) /\ h[13] = L(5) /\ h[14] = L(6) /\ h[15] = L(7)
  <2>1. /\ 0 \in 0 .. 7 /\ 1 \in 0 .. 7 /\ 2 \in 0 .. 7 /\ 3 \in 0 .. 7
        /\ 4 \in 0 .. 7 /\ 5 \in 0 .. 7 /\ 6 \in 0 .. 7 /\ 7 \in 0 .. 7
        /\ 8 + 0 = 8 /\ 8 + 1 = 9 /\ 8 + 2 = 10 /\ 8 + 3 = 11
        /\ 8 + 4 = 12 /\ 8 + 5 = 13 /\ 8 + 6 = 14 /\ 8 + 7 = 15
    BY SMT
  <2> HIDE DEF L
  <2> QED
    BY <1>9, <2>1
<1> HIDE DEF L
<1>13. /\ ByteOf(L(0), 7) = ByteOf(o, 7) /\ ByteOf(L(1), 7) = ByteOf(o, 6)
       /\ ByteOf(L(2), 7) = ByteOf(o, 5) /\ ByteOf(L(3), 7) = ByteOf(o, 4)
       /\ ByteOf(L(4), 7) = ByteOf(o, 3) /\ ByteOf(L(5), 7) = ByteOf(o, 2)
       /\ ByteOf(L(6), 7) = ByteOf(o, 1) /\ ByteOf(L(7), 7) = ByteOf(o, 0)
  <2>1. /\ 0 \in 0 .. 7 /\ 1 \in 0 .. 7 /\ 2 \in 0 .. 7 /\ 3 \in 0 .. 7
        /\ 4 \in 0 .. 7 /\ 5 \in 0 .. 7 /\ 6 \in 0 .. 7 /\ 7 \in 0 .. 7
        /\ 7 - 0 = 7 /\ 7 - 1 = 6 /\ 7 - 2 = 5 /\ 7 - 3 = 4
        /\ 7 - 4 = 3 /\ 7 - 5 = 2 /\ 7 - 6 = 1 /\ 7 - 7 = 0
    BY SMT
  <2> QED
    BY <1>10, <2>1
<1>14. /\ 4 \in 1 .. 63 /\ 5 \in 1 .. 63 /\ 6 \in 1 .. 63 /\ 7 \in 1 .. 63 /\ 2 \in 1 .. 63 /\ 3 \in 1 .. 63 /\ 1 \in 1 .. 63
       /\ 8 \in 0 .. 127 /\ 16 \in 0 .. 127 /\ 32 \in 0 .. 127 /\ 8 + 8 = 16 /\ 16 + 16 = 32
       /\ 2 * 4 = 8 /\ 2 * 4 + 1 = 9 /\ 2 * 5 = 10 /\ 2 * 5 + 1 = 11 /\ 2 * 6 = 12 /\ 2 * 6 + 1 = 13
       /\ 2 * 7 = 14 /\ 2 * 7 + 1 = 15 /\ 2 * 2 = 4 /\ 2 * 2 + 1 = 5 /\ 2 * 3 = 6 /\ 2 * 3 + 1 = 7
       /\ 2 * 1 = 2 /\ 2 * 1 + 1 = 3
       /\ 0 \in 0 .. 7 /\ 1 \in 0 .. 7 /\ 2 \in 0 .. 7 /\ 3 \in 0 .. 7
       /\ 4 \in 0 .. 7 /\ 5 \in 0 .. 7 /\ 6 \in 0 .. 7 /\ 7 \in 0 .. 7
  BY SMT
<1> DEFINE Small(w, m) == w \in SUBSET (0 .. 63) /\ \A j \in 0 .. 7 : ByteOf(w, j) <= m
<1>15. \A t \in 0 .. 7 : Small(L(t), 8)
  BY <1>4, <1>10
<1>16. ASSUME NEW i \in 1 .. 63, NEW m \in 0 .. 127, Small(h[2 * i], m), Small(h[2 * i + 1], m)
       PROVE  Small(h[i], m + m) /\ ByteOf(h[i], 7) = ByteOf(h[2 * i], 7) + ByteOf(h[2 * i + 1], 7)
  <2> DEFINE x == h[2 * i]
             y == h[2 * i + 1]
  <2>1. h[i] = Add(x, y, 64) /\ x \in SUBSET (0 .. 63) /\ y \in SUBSET (0 .. 63)
    BY <1>3, <1>16
  <2>2. \A j \in 0 .. 7 : ByteOf(x, j) <= m /\ ByteOf(y, j) <= m
    BY <1>16
  <2> HIDE DEF x, y
  <2>3. /\ Add(x, y, 64) \in SUBSET (0 .. 63)
        /\ \A j \in 0 .. 7 : ByteOf(Add(x, y, 64), j) = ByteOf(x, j) + ByteOf(y, j)
        /\ \A j \in 0 .. 7 : ByteOf(Add(x, y, 64), j) <= m + m
    BY <2>1, <2>2, SmallSums
  <2>4. 7 \in 0 .. 7
    BY SMT
  <2> QED
    BY <2>1, <2>3, <2>4 DEF x, y
<1> HIDE DEF Small
<1>17. /\ Small(h[8], 8) /\ Small(h[9], 8) /\ Small(h[10], 8) /\ Small(h[11], 8)
       /\ Small(h[12], 8) /\ Small(h[13], 8) /\ Small(h[14], 8) /\ Small(h[15], 8)
  BY <1>12, <1>14, <1>15
<1>18. Small(h[4], 16) /\ ByteOf(h[4], 7) = ByteOf(h[8], 7) + ByteOf(h[9], 7)
  BY <1>14, <1>16, <1>17, ZenonT(60)
<1>19. Small(h[5], 16) /\ ByteOf(h[5], 7) = ByteOf(h[10], 7) + ByteOf(h[11], 7)
  BY <1>14, <1>16, <1>17, ZenonT(60)
<1>20. Small(h[6], 16) /\ ByteOf(h[6], 7) = ByteOf(h[12], 7) + ByteOf(h[13], 7)
  BY <1>14, <1>16, <1>17, ZenonT(60)
<1>21. Small(h[7], 16) /\ ByteOf(h[7], 7) = ByteOf(h[14], 7) + ByteOf(h[15], 7)
  BY <1>14, <1>16, <1>17, ZenonT(60)
<1>22. Small(h[2], 32) /\ ByteOf(h[2], 7) = ByteOf(h[4], 7) + ByteOf(h[5], 7)
  BY <1>14, <1>16, <1>18, <1>19, ZenonT(60)
<1>23. Small(h[3], 32) /\ ByteOf(h[3], 7) = ByteOf(h[6], 7) + ByteOf(h[7], 7)
  BY <1>14, <1>16, <1>20, <1>21, ZenonT(60)
<1>24. Small(h[1], 32 + 32) /\ ByteOf(h[1], 7) = ByteOf(h[2], 7) + ByteOf(h[3], 7)
  BY <1>14, <1>16, <1>22, <1>23, ZenonT(60)
<1>25. h[1] \cap 0 .. 63 = h[1]
  BY <1>24 DEF Small
<1>26. ByteOf(h[1], 7) = ((ByteOf(o, 7) + ByteOf(o, 6)) + (ByteOf(o, 5) + ByteOf(o, 4)))
                         + ((ByteOf(o, 3) + ByteOf(o, 2)) + (ByteOf(o, 1) + ByteOf(o, 0)))
  BY <1>12, <1>13, <1>18, <1>19, <1>20, <1>21, <1>22, <1>23, <1>24, ZenonT(60)
<1> QED
  BY <1>1, <1>25, <1>26 DEF a

LEMMA Powers ==
  /\ 2^0 = 1 /\ 2^1 = 2 /\ 2^2 = 4 /\ 2^3 = 8 /\ 2^4 = 16 /\ 2^5 = 32 /\ 2^6 = 64 /\ 2^7 = 128
BY SMT

(* The number of a word of one byte. *)
LEMMA NumberOfByte ==
  ASSUME ByteBits = 8, NEW w \in SUBSET (0 .. 7) PROVE Number(w) = ByteOf(w, 0)
<1> DEFINE next(s, i) == IF i - 1 \in w THEN s + 2^(i - 1) ELSE s
           Body(f) == f = [i \in 0 .. FullBits |->
                             IF i = 0 THEN 0 ELSE IF i - 1 \in w THEN f[i - 1] + 2^(i - 1) ELSE f[i - 1]]
           f == CHOOSE g : Body(g)
           step == [i \in 0 .. 64 |-> [s \in Int |-> IF i = 0 THEN s ELSE next(s, i)]]
<1>0. FullBits = 64
  BY CodeWidth
<1>1. Number(w) = f[FullBits]
  BY DEF Number
<1>2. \A i \in 1 .. 64, s \in Int : next(s, i) \in Int
  <2> SUFFICES ASSUME NEW i \in 1 .. 64, NEW s \in Int, i - 1 \in w PROVE s + 2^(i - 1) \in Int
    OBVIOUS
  <2>1. i - 1 \in {0, 1, 2, 3, 4, 5, 6, 7}
    <3>1. i - 1 \in 0 .. 7
      OBVIOUS
    <3> QED
      BY <3>1, SMT
  <2>2. 2^(i - 1) \in Int
    BY <2>1, Powers
  <2> QED
    BY <2>2, SMT
<1>3. \A i \in 0 .. 64 : i # 0 => i \in 1 .. 64 /\ i - 1 \in 0 .. 64
  BY SMT
<1> HIDE DEF next
<1>4. step \in [0 .. 64 -> [Int -> Int]]
  BY <1>2, <1>3
<1>5. \A i \in 0 .. 64, s \in Int : step[i][s] = IF i = 0 THEN s ELSE next(s, i)
  OBVIOUS
<1> HIDE DEF step
<1>6. PICK h : h \in [0 .. 64 -> Int] /\ Recursion(h, 64, 0, step)
  BY <1>4, ByRecursion, 64 \in Nat, 0 \in Int
<1>7. ASSUME NEW i \in 0 .. 64, i # 0 PROVE step[i][h[i - 1]] = next(h[i - 1], i)
  <2>1. h[i - 1] \in Int
    BY <1>3, <1>6, <1>7
  <2> QED
    BY <1>5, <1>7, <2>1
<1>8. h = [i \in 0 .. 64 |-> IF i = 0 THEN 0 ELSE step[i][h[i - 1]]]
  BY <1>6 DEF Recursion
<1>9. h = [i \in 0 .. 64 |-> IF i = 0 THEN 0 ELSE next(h[i - 1], i)]
  BY <1>7, <1>8, Zenon
<1>10. Body(h)
  BY <1>0, <1>9, Zenon DEF next
<1>11. Body(f)
  BY <1>10, Zenon
<1> HIDE DEF f
<1>12. \A i \in 0 .. 64 : f[i] = IF i = 0 THEN 0 ELSE IF i - 1 \in w THEN f[i - 1] + 2^(i - 1) ELSE f[i - 1]
  BY <1>0, <1>11, Zenon
<1>13. \A i \in 9 .. 64 : f[i] = f[i - 1]
  <2> SUFFICES ASSUME NEW i \in 9 .. 64 PROVE f[i] = f[i - 1]
    OBVIOUS
  <2>1. i \in 0 .. 64 /\ i # 0 /\ i - 1 \notin 0 .. 7
    BY SMT
  <2> QED
    BY <1>12, <2>1
<1>14. f[64] = f[8]
  <2> DEFINE T == {i \in 8 .. 64 : f[i] # f[8]}
  <2>1. T = {}
    <3> SUFFICES ASSUME T # {} PROVE FALSE
      OBVIOUS
    <3>1. T \in SUBSET Nat
      BY 8 .. 64 \subseteq Nat
    <3>2. PICK x \in T : \A y \in T : x <= y
      BY <3>1, LeastElement
    <3>3. x \in 8 .. 64 /\ x # 8 /\ f[x] # f[8]
      BY <3>2
    <3>4. x \in 9 .. 64 /\ x - 1 \in 8 .. 64 /\ ~(x <= x - 1)
      BY <3>3, SMT
    <3>5. x - 1 \notin T
      BY <3>2, <3>4
    <3>6. f[x - 1] = f[8]
      BY <3>4, <3>5
    <3> QED
      BY <1>13, <3>3, <3>4, <3>6
  <2>2. 64 \in 8 .. 64
    BY SMT
  <2> QED
    BY <2>1, <2>2
<1>15. /\ f[0] = 0
       /\ f[1] = IF 0 \in w THEN f[0] + 1 ELSE f[0]
       /\ f[2] = IF 1 \in w THEN f[1] + 2 ELSE f[1]
       /\ f[3] = IF 2 \in w THEN f[2] + 4 ELSE f[2]
       /\ f[4] = IF 3 \in w THEN f[3] + 8 ELSE f[3]
       /\ f[5] = IF 4 \in w THEN f[4] + 16 ELSE f[4]
       /\ f[6] = IF 5 \in w THEN f[5] + 32 ELSE f[5]
       /\ f[7] = IF 6 \in w THEN f[6] + 64 ELSE f[6]
       /\ f[8] = IF 7 \in w THEN f[7] + 128 ELSE f[7]
  <2>1. /\ 0 \in 0 .. 64 /\ 1 \in 0 .. 64 /\ 2 \in 0 .. 64 /\ 3 \in 0 .. 64 /\ 4 \in 0 .. 64
        /\ 5 \in 0 .. 64 /\ 6 \in 0 .. 64 /\ 7 \in 0 .. 64 /\ 8 \in 0 .. 64
        /\ 1 # 0 /\ 2 # 0 /\ 3 # 0 /\ 4 # 0 /\ 5 # 0 /\ 6 # 0 /\ 7 # 0 /\ 8 # 0
        /\ 1 - 1 = 0 /\ 2 - 1 = 1 /\ 3 - 1 = 2 /\ 4 - 1 = 3 /\ 5 - 1 = 4 /\ 6 - 1 = 5 /\ 7 - 1 = 6 /\ 8 - 1 = 7
    BY SMT
  <2> QED
    BY <1>12, <2>1, Powers
<1>16. /\ ByteOf(w, 0) = BitOf(w, 0) + 2 * BitOf(w, 1) + 4 * BitOf(w, 2) + 8 * BitOf(w, 3)
                         + 16 * BitOf(w, 4) + 32 * BitOf(w, 5) + 64 * BitOf(w, 6) + 128 * BitOf(w, 7)
  <2>1. /\ 8 * 0 = 0 /\ 8 * 0 + 1 = 1 /\ 8 * 0 + 2 = 2 /\ 8 * 0 + 3 = 3
        /\ 8 * 0 + 4 = 4 /\ 8 * 0 + 5 = 5 /\ 8 * 0 + 6 = 6 /\ 8 * 0 + 7 = 7
    BY SMT
  <2> QED
    BY <2>1, Zenon DEF ByteOf
<1>17. f[8] = BitOf(w, 0) + 2 * BitOf(w, 1) + 4 * BitOf(w, 2) + 8 * BitOf(w, 3)
              + 16 * BitOf(w, 4) + 32 * BitOf(w, 5) + 64 * BitOf(w, 6) + 128 * BitOf(w, 7)
  <2> DEFINE b0 == BitOf(w, 0) b1 == BitOf(w, 1) b2 == BitOf(w, 2) b3 == BitOf(w, 3)
             b4 == BitOf(w, 4) b5 == BitOf(w, 5) b6 == BitOf(w, 6) b7 == BitOf(w, 7)
  <2>1. /\ b0 \in 0 .. 1 /\ b1 \in 0 .. 1 /\ b2 \in 0 .. 1 /\ b3 \in 0 .. 1
        /\ b4 \in 0 .. 1 /\ b5 \in 0 .. 1 /\ b6 \in 0 .. 1 /\ b7 \in 0 .. 1
    BY BitRange
  <2>2. f[1] = b0
    BY <1>15, SMT DEF BitOf
  <2>3. f[2] = b0 + 2 * b1
    <3>1. f[2] = IF 1 \in w THEN b0 + 2 ELSE b0
      BY <1>15, <2>2, Zenon
    <3>2. b1 = IF 1 \in w THEN 1 ELSE 0
      BY DEF BitOf
    <3> HIDE DEF b0, b1
    <3> QED
      BY <2>1, <3>1, <3>2, SMT
  <2> DEFINE c2 == b0 + 2 * b1 c3 == c2 + 4 * b2 c4 == c3 + 8 * b3 c5 == c4 + 16 * b4
             c6 == c5 + 32 * b5 c7 == c6 + 64 * b6 c8 == c7 + 128 * b7
  <2>4. /\ b2 = (IF 2 \in w THEN 1 ELSE 0) /\ b3 = (IF 3 \in w THEN 1 ELSE 0) /\ b4 = (IF 4 \in w THEN 1 ELSE 0)
        /\ b5 = (IF 5 \in w THEN 1 ELSE 0) /\ b6 = (IF 6 \in w THEN 1 ELSE 0) /\ b7 = (IF 7 \in w THEN 1 ELSE 0)
    BY DEF BitOf
  <2> HIDE DEF b0, b1, b2, b3, b4, b5, b6, b7
  <2>5. c2 \in Int /\ c3 \in Int /\ c4 \in Int /\ c5 \in Int /\ c6 \in Int /\ c7 \in Int
    BY <2>1, SMT
  <2>6. f[2] = c2
    BY <2>3
  <2> HIDE DEF c2
  <2>7. f[3] = c3
    BY <1>15, <2>4, <2>5, <2>6, SMT
  <2> HIDE DEF c3
  <2>8. f[4] = c4
    BY <1>15, <2>4, <2>5, <2>7, SMT
  <2> HIDE DEF c4
  <2>9. f[5] = c5
    BY <1>15, <2>4, <2>5, <2>8, SMT
  <2> HIDE DEF c5
  <2>10. f[6] = c6
    BY <1>15, <2>4, <2>5, <2>9, SMT
  <2> HIDE DEF c6
  <2>11. f[7] = c7
    BY <1>15, <2>4, <2>5, <2>10, SMT
  <2> HIDE DEF c7
  <2>12. f[8] = c8
    BY <1>15, <2>4, <2>5, <2>11, SMT
  <2> QED
    BY <2>12 DEF c2, c3, c4, c5, c6, c7, b0, b1, b2, b3, b4, b5, b6, b7
<1> QED
  BY <1>0, <1>1, <1>14, <1>16, <1>17, Zenon

(* The ones of a word are those of its bytes. *)
LEMMA OnesCounted ==
  ASSUME NEW v \in SUBSET (0 .. 63)
  PROVE  Cardinality(v)
         = ((OnesOf(v, 7) + OnesOf(v, 6)) + (OnesOf(v, 5) + OnesOf(v, 4)))
           + ((OnesOf(v, 3) + OnesOf(v, 2)) + (OnesOf(v, 1) + OnesOf(v, 0)))
<1> DEFINE C(i) == Cardinality(v \cap 0 .. i - 1)
<1>1. \A i : IsFiniteSet(v \cap 0 .. i - 1)
  <2>1. IsFiniteSet(0 .. 63)
    BY 0 \in Int, 63 \in Int, FS_Interval
  <2>2. \A i : v \cap 0 .. i - 1 \in SUBSET (0 .. 63)
    OBVIOUS
  <2> QED
    BY <2>1, <2>2, FS_Subset
<1>2. \A i : C(i) \in Int
  BY <1>1, FS_CardinalityType, SMTT(30)
<1>3. ASSUME NEW i \in 0 .. 63 PROVE C(i + 1) = C(i) + BitOf(v, i)
  <2>1. i \notin v \cap 0 .. i - 1
    BY SMT
  <2>2. CASE i \in v
    <3>1. v \cap 0 .. (i + 1) - 1 = (v \cap 0 .. i - 1) \cup {i}
      BY <2>2, SMT
    <3>2. Cardinality((v \cap 0 .. i - 1) \cup {i}) = C(i) + 1
      BY <1>1, <2>1, FS_AddElement
    <3> QED
      BY <2>2, <3>1, <3>2 DEF BitOf
  <2>3. CASE i \notin v
    <3>1. v \cap 0 .. (i + 1) - 1 = v \cap 0 .. i - 1
      BY <2>3, SMT
    <3>2. C(i + 1) = C(i)
      BY <3>1
    <3>3. C(i) + 0 = C(i)
      <4>1. C(i) \in Int
        BY <1>2
      <4> HIDE DEF C
      <4> QED
        BY <4>1, SMT
    <3>4. BitOf(v, i) = 0
      BY <2>3 DEF BitOf
    <3> HIDE DEF C
    <3> QED
      BY <3>2, <3>3, <3>4
  <2> QED
    BY <2>2, <2>3
<1>4. C(0) = 0 /\ C(64) = Cardinality(v)
  <2>1. 0 .. 0 - 1 = {} /\ 64 - 1 = 63
    BY SMT
  <2>2. v \cap 0 .. 0 - 1 = {} /\ v \cap 0 .. 64 - 1 = v
    BY <2>1, ZenonT(60)
  <2> QED
    BY <2>2, FS_EmptySet
<1> HIDE DEF C
<1>5. ASSUME NEW j \in 0 .. 7 PROVE C(8 * j + 8) = C(8 * j) + OnesOf(v, j)
  <2> DEFINE b0 == BitOf(v, 8 * j + 0) b1 == BitOf(v, 8 * j + 1) b2 == BitOf(v, 8 * j + 2) b3 == BitOf(v, 8 * j + 3)
             b4 == BitOf(v, 8 * j + 4) b5 == BitOf(v, 8 * j + 5) b6 == BitOf(v, 8 * j + 6) b7 == BitOf(v, 8 * j + 7)
  <2>1. /\ 8 * j + 0 = 8 * j /\ (8 * j + 0) + 1 = 8 * j + 1 /\ (8 * j + 1) + 1 = 8 * j + 2
        /\ (8 * j + 2) + 1 = 8 * j + 3 /\ (8 * j + 3) + 1 = 8 * j + 4 /\ (8 * j + 4) + 1 = 8 * j + 5
        /\ (8 * j + 5) + 1 = 8 * j + 6 /\ (8 * j + 6) + 1 = 8 * j + 7 /\ (8 * j + 7) + 1 = 8 * j + 8
        /\ 8 * j + 0 \in 0 .. 63 /\ 8 * j + 1 \in 0 .. 63 /\ 8 * j + 2 \in 0 .. 63 /\ 8 * j + 3 \in 0 .. 63
        /\ 8 * j + 4 \in 0 .. 63 /\ 8 * j + 5 \in 0 .. 63 /\ 8 * j + 6 \in 0 .. 63 /\ 8 * j + 7 \in 0 .. 63
    BY SMT
  <2>2. /\ C(8 * j + 1) = C(8 * j) + b0 /\ C(8 * j + 2) = C(8 * j + 1) + b1
        /\ C(8 * j + 3) = C(8 * j + 2) + b2 /\ C(8 * j + 4) = C(8 * j + 3) + b3
        /\ C(8 * j + 5) = C(8 * j + 4) + b4 /\ C(8 * j + 6) = C(8 * j + 5) + b5
        /\ C(8 * j + 7) = C(8 * j + 6) + b6 /\ C(8 * j + 8) = C(8 * j + 7) + b7
    <3>1. /\ C((8 * j + 0) + 1) = C(8 * j + 0) + b0 /\ C((8 * j + 1) + 1) = C(8 * j + 1) + b1
          /\ C((8 * j + 2) + 1) = C(8 * j + 2) + b2 /\ C((8 * j + 3) + 1) = C(8 * j + 3) + b3
          /\ C((8 * j + 4) + 1) = C(8 * j + 4) + b4 /\ C((8 * j + 5) + 1) = C(8 * j + 5) + b5
          /\ C((8 * j + 6) + 1) = C(8 * j + 6) + b6 /\ C((8 * j + 7) + 1) = C(8 * j + 7) + b7
      BY <1>3, <2>1, Zenon
    <3> QED
      BY <2>1, <3>1, Zenon
  <2>3. /\ b0 \in Int /\ b1 \in Int /\ b2 \in Int /\ b3 \in Int /\ b4 \in Int /\ b5 \in Int /\ b6 \in Int /\ b7 \in Int
    BY DEF BitOf
  <2>4. OnesOf(v, j) = b0 + b1 + b2 + b3 + b4 + b5 + b6 + b7
    BY DEF OnesOf
  <2> DEFINE d0 == C(8 * j) d1 == C(8 * j + 1) d2 == C(8 * j + 2) d3 == C(8 * j + 3) d4 == C(8 * j + 4)
             d5 == C(8 * j + 5) d6 == C(8 * j + 6) d7 == C(8 * j + 7)
  <2>5. /\ d1 = d0 + b0 /\ d2 = d1 + b1 /\ d3 = d2 + b2 /\ d4 = d3 + b3 /\ d5 = d4 + b4
        /\ d6 = d5 + b5 /\ d7 = d6 + b6 /\ C(8 * j + 8) = d7 + b7 /\ d0 \in Int
    BY <1>2, <2>2, Zenon
  <2> HIDE DEF b0, b1, b2, b3, b4, b5, b6, b7, d0, d1, d2, d3, d4, d5, d6, d7
  <2>6. C(8 * j + 8) = d0 + OnesOf(v, j)
    BY <2>3, <2>4, <2>5, SMT
  <2> QED
    BY <2>6 DEF d0
<1>6. /\ C(8) = C(0) + OnesOf(v, 0) /\ C(16) = C(8) + OnesOf(v, 1)
      /\ C(24) = C(16) + OnesOf(v, 2) /\ C(32) = C(24) + OnesOf(v, 3)
      /\ C(40) = C(32) + OnesOf(v, 4) /\ C(48) = C(40) + OnesOf(v, 5)
      /\ C(56) = C(48) + OnesOf(v, 6) /\ C(64) = C(56) + OnesOf(v, 7)
  <2>1. /\ 0 \in 0 .. 7 /\ 1 \in 0 .. 7 /\ 2 \in 0 .. 7 /\ 3 \in 0 .. 7
        /\ 4 \in 0 .. 7 /\ 5 \in 0 .. 7 /\ 6 \in 0 .. 7 /\ 7 \in 0 .. 7
        /\ 8 * 0 = 0 /\ 8 * 1 = 8 /\ 8 * 2 = 16 /\ 8 * 3 = 24 /\ 8 * 4 = 32 /\ 8 * 5 = 40 /\ 8 * 6 = 48 /\ 8 * 7 = 56
        /\ 0 + 8 = 8 /\ 8 + 8 = 16 /\ 16 + 8 = 24 /\ 24 + 8 = 32 /\ 32 + 8 = 40 /\ 40 + 8 = 48 /\ 48 + 8 = 56 /\ 56 + 8 = 64
    BY SMT
  <2>2. /\ C(8 * 0 + 8) = C(8 * 0) + OnesOf(v, 0) /\ C(8 * 1 + 8) = C(8 * 1) + OnesOf(v, 1)
        /\ C(8 * 2 + 8) = C(8 * 2) + OnesOf(v, 2) /\ C(8 * 3 + 8) = C(8 * 3) + OnesOf(v, 3)
        /\ C(8 * 4 + 8) = C(8 * 4) + OnesOf(v, 4) /\ C(8 * 5 + 8) = C(8 * 5) + OnesOf(v, 5)
        /\ C(8 * 6 + 8) = C(8 * 6) + OnesOf(v, 6) /\ C(8 * 7 + 8) = C(8 * 7) + OnesOf(v, 7)
    BY <1>5, <2>1, Zenon
  <2> QED
    BY <2>1, <2>2, ZenonT(60)
<1>7. \A j : OnesOf(v, j) \in Int
  <2> SUFFICES ASSUME NEW j PROVE OnesOf(v, j) \in Int
    OBVIOUS
  <2>1. \A i : BitOf(v, i) \in Int
    BY DEF BitOf
  <2> QED
    BY <2>1, SMT DEF OnesOf
<1> DEFINE o0 == OnesOf(v, 0) o1 == OnesOf(v, 1) o2 == OnesOf(v, 2) o3 == OnesOf(v, 3)
           o4 == OnesOf(v, 4) o5 == OnesOf(v, 5) o6 == OnesOf(v, 6) o7 == OnesOf(v, 7)
<1>8. o0 \in Int /\ o1 \in Int /\ o2 \in Int /\ o3 \in Int /\ o4 \in Int /\ o5 \in Int /\ o6 \in Int /\ o7 \in Int
  BY <1>7, Zenon
<1> HIDE DEF o0, o1, o2, o3, o4, o5, o6, o7
<1>9. /\ C(8) = 0 + o0 /\ C(16) = C(8) + o1 /\ C(24) = C(16) + o2 /\ C(32) = C(24) + o3
      /\ C(40) = C(32) + o4 /\ C(48) = C(40) + o5 /\ C(56) = C(48) + o6 /\ C(64) = C(56) + o7
  BY <1>4, <1>6, Zenon DEF o0, o1, o2, o3, o4, o5, o6, o7
<1>10. C(64) = ((o7 + o6) + (o5 + o4)) + ((o3 + o2) + (o1 + o0))
  BY <1>8, <1>9, SMT
<1> QED
  BY <1>4, <1>10, Zenon DEF o0, o1, o2, o3, o4, o5, o6, o7

LEMMA PopcountExact ==
  ASSUME ByteBits = 8, NEW v \in FullWord PROVE Popcount(v) = Cardinality(v)
<1> DEFINE pairs == Sub(v, ShiftRight(v, 1) \cap Mask(1, 2), FullBits)
           nibbles == Add(pairs \cap Mask(2, 4), ShiftRight(pairs, 2) \cap Mask(2, 4), FullBits)
           octets == Add(nibbles, ShiftRight(nibbles, 4), FullBits) \cap Mask(4, 8)
           product == Mul(Mask(1, 8), octets, FullBits)
           top == ShiftRight(product, FullBits - 8)
<1>1. Popcount(v) = Number(top)
  BY DEF Popcount
<1>2. FullBits = 64 /\ FullBits - 8 = 56 /\ v \in SUBSET (0 .. 63)
  <2>1. 64 - 8 = 56
    BY SMT
  <2> QED
    BY <2>1, CodeWidth
<1>3. pairs = Sub(v, ShiftRight(v, 1) \cap Mask(1, 2), 64)
  BY <1>2, Zenon
<1>4. ASSUME NEW j \in 0 .. 7
      PROVE  /\ BitOf(pairs, 8 * j + 0) + 2 * BitOf(pairs, 8 * j + 1) = BitOf(v, 8 * j + 0) + BitOf(v, 8 * j + 1)
             /\ BitOf(pairs, 8 * j + 2) + 2 * BitOf(pairs, 8 * j + 3) = BitOf(v, 8 * j + 2) + BitOf(v, 8 * j + 3)
             /\ BitOf(pairs, 8 * j + 4) + 2 * BitOf(pairs, 8 * j + 5) = BitOf(v, 8 * j + 4) + BitOf(v, 8 * j + 5)
             /\ BitOf(pairs, 8 * j + 6) + 2 * BitOf(pairs, 8 * j + 7) = BitOf(v, 8 * j + 6) + BitOf(v, 8 * j + 7)
  <2> DEFINE p == Sub(v, ShiftRight(v, 1) \cap Mask(1, 2), 64)
  <2>1. /\ BitOf(p, 8 * j + 0) + 2 * BitOf(p, 8 * j + 1) = BitOf(v, 8 * j + 0) + BitOf(v, 8 * j + 1)
        /\ BitOf(p, 8 * j + 2) + 2 * BitOf(p, 8 * j + 3) = BitOf(v, 8 * j + 2) + BitOf(v, 8 * j + 3)
        /\ BitOf(p, 8 * j + 4) + 2 * BitOf(p, 8 * j + 5) = BitOf(v, 8 * j + 4) + BitOf(v, 8 * j + 5)
        /\ BitOf(p, 8 * j + 6) + 2 * BitOf(p, 8 * j + 7) = BitOf(v, 8 * j + 6) + BitOf(v, 8 * j + 7)
    BY <1>2, PairsCount
  <2>2. pairs = p
    BY <1>3
  <2> HIDE DEF p, pairs
  <2> QED
    BY <2>1, <2>2, Zenon
<1>5. pairs \in SUBSET (0 .. 63)
  BY <1>3, SumIsWord
<1> HIDE DEF pairs
<1>6. nibbles = Add(pairs \cap Mask(2, 4), ShiftRight(pairs, 2) \cap Mask(2, 4), 64)
  BY <1>2, Zenon
<1>7. nibbles \in SUBSET (0 .. 63)
  BY <1>6, SumIsWord
<1>8. ASSUME NEW j \in 0 .. 7
      PROVE  /\ LowOf(nibbles, j) = BitOf(pairs, 8 * j + 0) + 2 * BitOf(pairs, 8 * j + 1)
                                     + (BitOf(pairs, 8 * j + 2) + 2 * BitOf(pairs, 8 * j + 3))
             /\ HighOf(nibbles, j) = BitOf(pairs, 8 * j + 4) + 2 * BitOf(pairs, 8 * j + 5)
                                      + (BitOf(pairs, 8 * j + 6) + 2 * BitOf(pairs, 8 * j + 7))
  <2> DEFINE n == Add(pairs \cap Mask(2, 4), ShiftRight(pairs, 2) \cap Mask(2, 4), 64)
  <2>1. /\ LowOf(n, j) = BitOf(pairs, 8 * j + 0) + 2 * BitOf(pairs, 8 * j + 1)
                          + (BitOf(pairs, 8 * j + 2) + 2 * BitOf(pairs, 8 * j + 3))
        /\ HighOf(n, j) = BitOf(pairs, 8 * j + 4) + 2 * BitOf(pairs, 8 * j + 5)
                           + (BitOf(pairs, 8 * j + 6) + 2 * BitOf(pairs, 8 * j + 7))
    BY <1>5, NibblesCount
  <2>2. nibbles = n
    BY <1>6
  <2> HIDE DEF n, nibbles
  <2> QED
    BY <2>1, <2>2, Zenon
<1> HIDE DEF nibbles
<1>9. ASSUME NEW j \in 0 .. 7
      PROVE  /\ LowOf(nibbles, j) <= 4 /\ HighOf(nibbles, j) <= 4
             /\ LowOf(nibbles, j) + HighOf(nibbles, j) = OnesOf(v, j) /\ OnesOf(v, j) <= 8
  <2> DEFINE v0 == BitOf(v, 8 * j + 0) v1 == BitOf(v, 8 * j + 1) v2 == BitOf(v, 8 * j + 2) v3 == BitOf(v, 8 * j + 3)
             v4 == BitOf(v, 8 * j + 4) v5 == BitOf(v, 8 * j + 5) v6 == BitOf(v, 8 * j + 6) v7 == BitOf(v, 8 * j + 7)
  <2>1. /\ v0 \in 0 .. 1 /\ v1 \in 0 .. 1 /\ v2 \in 0 .. 1 /\ v3 \in 0 .. 1
        /\ v4 \in 0 .. 1 /\ v5 \in 0 .. 1 /\ v6 \in 0 .. 1 /\ v7 \in 0 .. 1
    BY BitRange
  <2>2. LowOf(nibbles, j) = (v0 + v1) + (v2 + v3) /\ HighOf(nibbles, j) = (v4 + v5) + (v6 + v7)
    BY <1>4, <1>8, Zenon
  <2>3. OnesOf(v, j) = v0 + v1 + v2 + v3 + v4 + v5 + v6 + v7
    BY DEF OnesOf
  <2> HIDE DEF v0, v1, v2, v3, v4, v5, v6, v7
  <2> QED
    BY <2>1, <2>2, <2>3, SMT
<1>10. octets = Add(nibbles, ShiftRight(nibbles, 4), 64) \cap Mask(4, 8)
  BY <1>2, Zenon
<1>11. octets \in SUBSET (0 .. 63)
  BY <1>10, SumIsWord
<1>12. ASSUME NEW j \in 0 .. 7 PROVE ByteOf(octets, j) = OnesOf(v, j) /\ ByteOf(octets, j) <= 8
  <2>1. ByteOf(Add(nibbles, ShiftRight(nibbles, 4), 64) \cap Mask(4, 8), j)
        = LowOf(nibbles, j) + HighOf(nibbles, j)
    BY <1>7, <1>9, OctetsCount
  <2>2. ByteOf(octets, j) = LowOf(nibbles, j) + HighOf(nibbles, j)
    BY <1>10, <2>1, Zenon
  <2> QED
    BY <1>9, <2>2
<1> HIDE DEF octets
<1>13. product = Mul(Mask(1, 8), octets, 64)
  BY <1>2, Zenon
<1>14. product \in SUBSET (0 .. 63) /\ product \in SUBSET Nat
  <2>1. 64 - 1 = 63
    BY SMT
  <2>2. product \in SUBSET (0 .. 63)
    BY <1>13, <2>1 DEF Mul
  <2> QED
    BY <2>2, 0 .. 63 \subseteq Nat
<1>15. ByteOf(product, 7) = ((ByteOf(octets, 7) + ByteOf(octets, 6)) + (ByteOf(octets, 5) + ByteOf(octets, 4)))
                            + ((ByteOf(octets, 3) + ByteOf(octets, 2)) + (ByteOf(octets, 1) + ByteOf(octets, 0)))
  <2>1. \A j \in 0 .. 7 : ByteOf(octets, j) <= 8
    BY <1>12
  <2>2. ByteOf(Mul(Mask(1, 8), octets, 64), 7)
        = ((ByteOf(octets, 7) + ByteOf(octets, 6)) + (ByteOf(octets, 5) + ByteOf(octets, 4)))
          + ((ByteOf(octets, 3) + ByteOf(octets, 2)) + (ByteOf(octets, 1) + ByteOf(octets, 0)))
    BY <1>11, <2>1, BytesSummed
  <2> QED
    BY <1>13, <2>2, Zenon
<1>16. ByteOf(product, 7) = Cardinality(v)
  <2>1. /\ 0 \in 0 .. 7 /\ 1 \in 0 .. 7 /\ 2 \in 0 .. 7 /\ 3 \in 0 .. 7
        /\ 4 \in 0 .. 7 /\ 5 \in 0 .. 7 /\ 6 \in 0 .. 7 /\ 7 \in 0 .. 7
    BY SMT
  <2>2. /\ ByteOf(octets, 0) = OnesOf(v, 0) /\ ByteOf(octets, 1) = OnesOf(v, 1)
        /\ ByteOf(octets, 2) = OnesOf(v, 2) /\ ByteOf(octets, 3) = OnesOf(v, 3)
        /\ ByteOf(octets, 4) = OnesOf(v, 4) /\ ByteOf(octets, 5) = OnesOf(v, 5)
        /\ ByteOf(octets, 6) = OnesOf(v, 6) /\ ByteOf(octets, 7) = OnesOf(v, 7)
    BY <1>12, <2>1
  <2>3. Cardinality(v) = ((OnesOf(v, 7) + OnesOf(v, 6)) + (OnesOf(v, 5) + OnesOf(v, 4)))
                         + ((OnesOf(v, 3) + OnesOf(v, 2)) + (OnesOf(v, 1) + OnesOf(v, 0)))
    BY <1>2, OnesCounted
  <2> QED
    BY <1>15, <2>2, <2>3, Zenon
<1> HIDE DEF product
<1>17. top = ShiftRight(product, 56)
  BY <1>2, Zenon
<1>18. top \in SUBSET (0 .. 7)
  <2>1. \A i : i \in top <=> i \in Nat /\ i + 56 \in product
    BY <1>14, <1>17, RightShiftBit
  <2>2. \A i \in Nat : i + 56 \in 0 .. 63 => i \in 0 .. 7
    BY SMT
  <2> QED
    BY <1>14, <2>1, <2>2
<1>19. ByteOf(top, 0) = ByteOf(product, 7)
  <2> DEFINE s == ShiftRight(product, 56)
  <2>1. /\ 0 \in Nat /\ 1 \in Nat /\ 2 \in Nat /\ 3 \in Nat /\ 4 \in Nat /\ 5 \in Nat /\ 6 \in Nat /\ 7 \in Nat
        /\ 56 \in Nat
    BY SMT
  <2>2. /\ 8 * 0 + 0 = 8 * 0
        /\ 8 * 0 + (0 + 56) = 8 * 7 /\ 8 * 0 + (1 + 56) = 8 * 7 + 1 /\ 8 * 0 + (2 + 56) = 8 * 7 + 2
        /\ 8 * 0 + (3 + 56) = 8 * 7 + 3 /\ 8 * 0 + (4 + 56) = 8 * 7 + 4 /\ 8 * 0 + (5 + 56) = 8 * 7 + 5
        /\ 8 * 0 + (6 + 56) = 8 * 7 + 6 /\ 8 * 0 + (7 + 56) = 8 * 7 + 7
    BY SMT
  <2>3. \A j \in Nat : \A l \in Nat : BitOf(s, 8 * j + l) = BitOf(product, 8 * j + (l + 56))
    <3> SUFFICES ASSUME NEW j \in Nat, NEW l \in Nat
                 PROVE  BitOf(s, 8 * j + l) = BitOf(product, 8 * j + (l + 56))
      OBVIOUS
    <3>1. product \in SUBSET Nat
      BY <1>14, 0 .. 63 \subseteq Nat
    <3> QED
      <4>1. BitOf(ShiftRight(product, 56), 8 * j + l) = BitOf(product, 8 * j + (l + 56))
        <5> DEFINE n == 56
        <5>1. n \in Nat
          BY SMT
        <5> HIDE DEF n
        <5>2. BitOf(ShiftRight(product, n), 8 * j + l) = BitOf(product, 8 * j + (l + n))
          BY <3>1, <5>1, ShiftedBit, Zenon
        <5> QED
          BY <5>2, Zenon DEF n
      <4> QED
        BY <4>1, Zenon
  <2> HIDE DEF s
  <2>4. /\ BitOf(s, 8 * 0 + 0) = BitOf(product, 8 * 0 + (0 + 56))
        /\ BitOf(s, 8 * 0 + 1) = BitOf(product, 8 * 0 + (1 + 56))
        /\ BitOf(s, 8 * 0 + 2) = BitOf(product, 8 * 0 + (2 + 56))
        /\ BitOf(s, 8 * 0 + 3) = BitOf(product, 8 * 0 + (3 + 56))
        /\ BitOf(s, 8 * 0 + 4) = BitOf(product, 8 * 0 + (4 + 56))
        /\ BitOf(s, 8 * 0 + 5) = BitOf(product, 8 * 0 + (5 + 56))
        /\ BitOf(s, 8 * 0 + 6) = BitOf(product, 8 * 0 + (6 + 56))
        /\ BitOf(s, 8 * 0 + 7) = BitOf(product, 8 * 0 + (7 + 56))
    BY <2>1, <2>3, ZenonT(60)
  <2>5. /\ BitOf(s, 8 * 0) = BitOf(product, 8 * 7) /\ BitOf(s, 8 * 0 + 1) = BitOf(product, 8 * 7 + 1)
        /\ BitOf(s, 8 * 0 + 2) = BitOf(product, 8 * 7 + 2) /\ BitOf(s, 8 * 0 + 3) = BitOf(product, 8 * 7 + 3)
        /\ BitOf(s, 8 * 0 + 4) = BitOf(product, 8 * 7 + 4) /\ BitOf(s, 8 * 0 + 5) = BitOf(product, 8 * 7 + 5)
        /\ BitOf(s, 8 * 0 + 6) = BitOf(product, 8 * 7 + 6) /\ BitOf(s, 8 * 0 + 7) = BitOf(product, 8 * 7 + 7)
    BY <2>2, <2>4, Zenon
  <2>6. ByteOf(s, 0) = ByteOf(product, 7)
    BY <2>5, Zenon DEF ByteOf
  <2> QED
    BY <1>17, <2>6, Zenon DEF s
<1> HIDE DEF top
<1>20. Number(top) = ByteOf(top, 0)
  BY <1>18, NumberOfByte
<1> QED
  BY <1>1, <1>16, <1>19, <1>20, Zenon

(* Every routine of jxcl_impl.h means what its name says, on every word of *)
(* the code's width and for every amount: counting in parallel fields      *)
(* counts the ones, narrowing finds the outermost one, rotations, swaps    *)
(* and masks put every bit in its place, folds decode the Gray code.       *)
THEOREM PrimitivesMeanTheirNames ==
  ASSUME ByteBits = 8, NEW v \in FullWord
  PROVE  Counts(v) /\ Folds(v) /\ \A k \in Nat : Moves(v, k)
<1>1. Counts(v)
  BY PopcountExact, ZerosExact DEF Counts
<1>2. Folds(v)
  BY FoldsExact
<1>3. \A k \in Nat : Moves(v, k)
  BY MovesExact
<1> QED
  BY <1>1, <1>2, <1>3

(* So they are exact on all words that the generator ever gets into its    *)
(* state, with its depth as an amount.                                     *)
THEOREM PrimitivesAreExact == ASSUME ByteBits = 8 PROVE Spec => []PrimitivesExact
<1>1. StateType => PrimitivesExact
  <2> SUFFICES ASSUME StateType PROVE PrimitivesExact
    OBVIOUS
  <2>1. FullBits = 64 /\ LongBits = 32 /\ AllOnes = 0 .. 63 /\ FullWord = SUBSET (0 .. 63)
    BY CodeWidth
  <2>2. TWord = SUBSET (0 .. 31)
    <3>1. 4 * 8 - 1 = 31
      BY SMT
    <3> QED
      BY <3>1, WordWidth
  <2>3. ASSUME NEW a, NEW b \in TWord PROVE From32(a, b) \in FullWord
    <3>1. 64 - 1 = 63 /\ 0 .. 31 \subseteq 0 .. 63
      BY SMT
    <3>2. ShiftLeft(a, 32, 64) \in SUBSET (0 .. 63)
      BY <3>1 DEF ShiftLeft
    <3>3. From32(a, b) = ShiftLeft(a, 32, 64) \cup b
      BY <2>1, Zenon DEF From32
    <3> QED
      BY <2>1, <2>2, <3>1, <3>2, <3>3, ZenonT(60)
  <2>4. ASSUME NEW p \in Positions PROVE state[(p + 1) % StateWords] \in TWord
    <3>1. p + 1 \in Int /\ StateWords \in Nat \ {0}
      BY StateAssumption DEF Positions
    <3>2. (p + 1) % StateWords \in 0 .. StateWords - 1
      BY <3>1, Division
    <3> QED
      BY <3>2 DEF StateType, Positions
  <2>5. \A v \in {From32(state[p], state[(p + 1) % StateWords]) : p \in Positions} \cup {{}, AllOnes} :
          v \in FullWord
    BY <2>1, <2>3, <2>4
  <2>6. \A k \in {0, depth, 32, 63, 64} : k \in Nat
    BY DEF StateType
  <2> QED
    BY <2>5, <2>6, PrimitivesMeanTheirNames, Zenon DEF PrimitivesExact
<1> QED
  BY <1>1, TypeHolds, PTL
=============================================================================
